CONSTANTS
    None = None
    Heroes = {a1, a2, a3}
    FirstTurn = 10
    LastTurn = 12
    Handlers = {h1, h2}
    Settings <- RoughOrCalm
    MaxRestarts = 1
SPECIFICATION FairSpec
INVARIANTS DraftSound
PROPERTIES ChoicesStand CalmSettles
CHECK_DEADLOCK FALSE

CONSTANTS
    None = None
    Heroes = {a1, a2, a3}
    FirstTurn = 5
    LastTurn = 7
    Handlers = {h1}
    Settings <- OnlyStale
    MaxRestarts = 0
SPECIFICATION FairSpec
PROPERTY Settles
CHECK_DEADLOCK FALSE

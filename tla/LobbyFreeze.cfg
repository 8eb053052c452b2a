CONSTANTS
    d1 = d1  d2 = d2
    Drafts = {d1, d2}
    Handlers = {h1, h2}
    LastDeadline = 2
    MaxEdits = 1
    MaxFailures = 1
    MaxRestarts = 1
    Pasts <- TwoOrAll
SPECIFICATION FairSpec
INVARIANTS FreezeSound
PROPERTIES OutcomesStand Ends
\* Without requests nothing happens.
CHECK_DEADLOCK FALSE

SPECIFICATION Spec
CONSTANTS
    p1 = p1
    p2 = p2
    u1 = u1
    j1 = j1
    j2 = j2
    None = None
    Players = {p1, p2}
    Slots = {1, 2, 3}
    Side <- MCSide
    Users = {u1}
    Jobs = {j1, j2}
    Plans <- MCPlans
    Picks <- MCPicks
    Lists <- MCLists
    MaxMarks = 2
SYMMETRY Symmetry
CHECK_DEADLOCK FALSE
INVARIANTS SeatsSound ShownAsStored
PROPERTIES LocksKept ImportsFresh

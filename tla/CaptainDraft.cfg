SPECIFICATION Spec
CONSTANTS
    c1 = c1
    c2 = c2
    a1 = a1
    a2 = a2
    a3 = a3
    j1 = j1
    j2 = j2
    None = None
    People = {c1, c2, a1, a2, a3}
    Linked = {c1, a1}
    Lists <- MCLists
    Jobs = {j1, j2}
    Plans <- MCPlans
    MaxDrafts = 2
    MaxMessages = 2
    MaxEdits = 2
SYMMETRY Symmetry
CHECK_DEADLOCK FALSE
INVARIANTS TeamsSound OneLive ShownAsStored
PROPERTIES CancelledStays

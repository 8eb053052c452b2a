\* Seven players, four with an account, for a lobby of three a side.
CONSTANTS
    l1 = l1
    l2 = l2
    l3 = l3
    l4 = l4
    u1 = u1
    u2 = u2
    u3 = u3
    Players = {l1, l2, l3, l4, u1, u2, u3}
    Linked = {l1, l2, l3, l4}
    SideSlots = 3
    MaxVotes = 2
    None = None
SPECIFICATION Spec
SYMMETRY Interchangeable
INVARIANTS TypeOK TeamsWhole AlwaysAnswerable
PROPERTIES SeatsKept
\* A draft whose heroes are assigned takes no more steps.
CHECK_DEADLOCK FALSE

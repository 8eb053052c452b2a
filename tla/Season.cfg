\* One player, two leagues, one tick of the batch and one visitor at a time.
CONSTANTS
    None = None
    MaxDay = 3
    Settings <- SmallSettings
    Calibration = 1
    Start = 1
    Gain = 1
    Matches = {m1, m2}
    Players = {p1}
    Leagues = {L1, L2}
    First = L1
    Channels = {c1}
    Drafts = {d1}
    Visits = {v1}
    Batches = {b1}
    SeasonEnds = {3}
    MaxStaff = 2
    Plans <- SmallPlans
    MaxFaults = 1
SPECIFICATION Spec
SYMMETRY Symmetry
CONSTRAINT NothingLost
INVARIANTS GraceKept ResultsCarried SeasonsFollow RolesMarked
CHECK_DEADLOCK FALSE

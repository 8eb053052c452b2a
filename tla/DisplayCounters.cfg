\* One player a team, two matches, two overlapping transactions.
CONSTANTS
    t1 = t1
    t2 = t2
    None = None
    Team1 <- One
    Team2 <- Two
    MaxMatch = 2
    Tasks = {t1, t2}
    Picks <- Named
    Lists <- SomeLists
    NewGames = 1
    MaxOps = 3
SYMMETRY Interchangeable
SPECIFICATION Spec
INVARIANTS TypeOK CountersExact LockedCountsStand NeverQuitAndDc
CHECK_DEADLOCK FALSE

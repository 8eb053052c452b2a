CONSTANTS
    h1 = h1  m1 = m1  m2 = m2  m3 = m3
    None = None
    Matches = {m1, m2, m3}
    Lobbies = {m1, m2}
    Rated = {m1, m2, m3}
    NeedsReport = {m1, m2, m3}
    Hosts = {h1}
    HostOf <- OneHost
    Mods = {}
    Reports = {x1}
    GameIds = {g1}
    Percents = {25}
    Tasks = {t1, t2}
    Settings <- EitherWay
SPECIFICATION Spec
SYMMETRY AlikeTasks
INVARIANTS TypeOK RatingsBacked NoOrphanWaiting LedgerExact Decided PendingLobbiesDistinct
PROPERTIES RatedOnce
CHECK_DEADLOCK FALSE

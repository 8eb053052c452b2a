CONSTANTS
    h1 = h1  m1 = m1  m2 = m2  m3 = m3
    None = None
    Matches = {m1}
    Lobbies = {m1}
    Rated = {m1}
    NeedsReport = {m1}
    Hosts = {h1}
    HostOf <- OneHost
    Mods = {}
    Reports = {x1}
    GameIds = {}
    Percents = {25}
    Tasks = {t1}
    Settings <- OnlyOverlapping
SPECIFICATION Spec
INVARIANT MitigationBeforeRatings
CHECK_DEADLOCK FALSE

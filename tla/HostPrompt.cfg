CONSTANTS
    g1 = g1  g2 = g2  c1 = c1
    Nothing = Nothing
    Elsewhere = Elsewhere
    Games = {g1, g2}
    Channels = {c1, c2}
    Ticks = {t1, t2}
    Clicks = {k1, k2}
    Admins = {a1, a2}
    Messages = {i1, i2, i3, i4}
    Lobbies = {l1, l2}
    MaxPerTick = 1
    MaxFailures = 1
    MaxRestarts = 1
    Settings <- OneOfThese
SPECIFICATION FairSpec
INVARIANTS PromptsSound AskedOnce LobbyShown
PROPERTIES AllAsked
\* A league whose games are all asked about, with nobody pressing anything.
CHECK_DEADLOCK FALSE

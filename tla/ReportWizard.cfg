CONSTANTS
    None = None
    Slots = {s1}
    Staff = {host, mod}
    Mods = {mod}
    Percents = {25}
    Jobs = {j1, j2}
    Plans <- UsedTogether
    Named <- SomeLists
    MaxWrites = 2
SPECIFICATION Spec
SYMMETRY AlikeJobs
INVARIANTS EndsAsShown ApprovedAsAsked MarksSound
\* An ended match is left alone.
CHECK_DEADLOCK FALSE

--------------------------- MODULE MCCaptainDraft ---------------------------
(* Two captains and three others, of whom one comes later.                   *)
EXTENDS CaptainDraft, TLC

CONSTANTS c1, c2, a1, a2, a3, j1, j2

MCLists == {{c1, c2}, {a1, a2}, {c1, a1, a2}}
MCPlans ==
    {{"mods"}, {"overlap"}, {"again"}, {"publish", "mods", "brief"},
     {"mods", "overlap", "brief"}, {"publish", "failures"}}
Symmetry == Permutations({a1, a2}) \cup Permutations(Jobs)
=============================================================================

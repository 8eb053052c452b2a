------------------------- MODULE MCDisplayCounters -------------------------
(* A small instance of DisplayCounters: one player a team, lists that keep   *)
(* the flags on record, or name a quitter, a griefer or a DC.                *)
EXTENDS DisplayCounters, TLC

One == {1}
Named == {{}, {1}}
Two == {2}
Kept == [quit |-> {None}, grief |-> {None}, dc |-> {None}]
SomeLists == {Kept, [Kept EXCEPT !.quit = {1}], [Kept EXCEPT !.grief = {1}, !.dc = {1}]}
Interchangeable == Permutations(Tasks)
=============================================================================

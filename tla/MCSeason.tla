------------------------------- MODULE MCSeason -------------------------------
(* A small instance of Season: one player, a source and a successor, days   *)
(* and settings so small that grace, both tiers and the cap are reached.    *)
EXTENDS Season, TLC

Base == [midGrace |-> 2, midSpan |-> 1, midTier1 |-> 1, midTier2 |-> 2, streakCap |-> 1,
         crunchGrace |-> 1, crunchSpan |-> 1, crunchTier1 |-> 2, crunchTier2 |-> 2, crunchWindow |-> 1]
SmallSettings == [none |-> Base, strict_crunch |-> [Base EXCEPT !.crunchGrace = 2, !.crunchTier2 = 1]]

(* Two or three kinds of handlers at a time, beside matches and the clock.  *)
SmallPlans == {{"batch", "settings"}, {"views", "settings"}, {"views", "batch", "corrections"},
               {"views", "rollover"}, {"batch", "rollover"}, {"corrections", "rollover"},
               {"bindings", "rollover"}, {"roles", "rollover"}, {"roles", "corrections"}, {"batch", "faults"},
               {"roles", "faults"}, {"corrections", "faults"}, {"rollover", "faults"}}

Symmetry == Permutations(Matches)

(* Nothing is followed past a rating that has been put back.                *)
NothingLost == lost = {}
=============================================================================

-------------------------- MODULE MCMatchLifecycle --------------------------
(* Instances of MatchLifecycle for TLC.                                    *)
EXTENDS MatchLifecycle, TLC

CONSTANTS h1, m1, m2, m3

OneHost == [m \in Matches |-> h1]

Overlapping == [serial |-> FALSE, failures |-> FALSE, ids |-> {m1, m3}, games |-> {}]
InTurn == [serial |-> TRUE, failures |-> TRUE, ids |-> Matches, games |-> GameIds]

(* Two overlapping handlers on a lobby and an ingested match, or handlers  *)
(* in turn, each of which may die, on all matches and games.               *)
EitherWay == {Overlapping, InTurn}

(* One handler beside those that lock, on every match.                     *)
OnlyOverlapping == {[Overlapping EXCEPT !.ids = Matches]}

AlikeTasks == Permutations(Tasks)
=============================================================================

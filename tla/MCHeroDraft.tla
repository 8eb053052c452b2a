---------------------------- MODULE MCHeroDraft ----------------------------
(* Instances of HeroDraft for TLC.                                         *)
EXTENDS HeroDraft, TLC

AllAtOnce == [overlap |-> TRUE, stale |-> TRUE, failures |-> TRUE]
Undisturbed == [overlap |-> FALSE, stale |-> FALSE, failures |-> FALSE]

(* Everything that can go wrong at once, or nothing but restarts.          *)
RoughOrCalm == {AllAtOnce, Undisturbed}

(* Handlers in turn, and captains who click what is gone.                  *)
OnlyStale == {[Undisturbed EXCEPT !.stale = TRUE]}
=============================================================================

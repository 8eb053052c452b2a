---------------------------- MODULE RatingEffect ----------------------------
(***************************************************************************)
(* What match completion promises the ratings: a match is rated at most    *)
(* once; a correction replaces its effect, a void takes it back, and a     *)
(* voided match never returns.  MatchLifecycle implements this.            *)
(***************************************************************************)
EXTENDS Naturals

CONSTANTS Rated, Matches, Percents
VARIABLE book   \* what each match did to the ratings

(* A rated match counts exactly once.                                      *)
Outcomes == [kind : {"applied"}, winner : 0..2, pct : Percents \cup {0},
             times : {1}]
Untouched == [kind |-> "none", winner |-> 0, pct |-> 0, times |-> 0]
TakenBack == [kind |-> "restored", winner |-> 0, pct |-> 0, times |-> 0]

Init == book = [m \in Matches |-> Untouched]

Rate(m) ==
    /\ book[m] = Untouched
    /\ \E o \in Outcomes : book' = [book EXCEPT ![m] = o]

Correct(m) ==
    /\ book[m].kind = "applied"
    /\ \E o \in Outcomes : book' = [book EXCEPT ![m] = o]

Void(m) ==
    /\ book[m].kind = "applied"
    /\ book' = [book EXCEPT ![m] = TakenBack]

Next == \E m \in Rated : Rate(m) \/ Correct(m) \/ Void(m)

Spec == Init /\ [][Next]_book
=============================================================================

------------------------------ MODULE IdleDecay ------------------------------
(***************************************************************************)
(* Idle decay of one rating row.  A day on which a player of an active     *)
(* league has been idle longer than the grace costs ki.  Days are not      *)
(* charged as they pass: whoever looks at the row next, or the nightly     *)
(* batch, charges all days since the last charge (or since the player's    *)
(* last game) at once.  A rating is kept as what it is made of: the        *)
(* matches whose result it holds, and the ki spent on idleness, in all and *)
(* for each day.                                                           *)
(***************************************************************************)
EXTENDS Integers, FiniteSets

CONSTANTS
    MaxDay,         \* bound: the last day
    Settings,       \* the league's decay settings, by the name of the preset in use
    Calibration,    \* games before a rating is public, and decays
    Start, Gain,    \* ki above the floor of a new rating, and of a result
    Matches,
    None

Days == 0..MaxDay
Presets == {"none", "strict_crunch"}

ASSUME IdleDecayAssumption ==
    /\ IsFiniteSet(Matches) /\ MaxDay \in Nat /\ Calibration \in Nat /\ Start \in Int /\ Gain \in Int
    /\ Settings \in [Presets -> [midGrace : Nat, midSpan : Nat, midTier1 : Nat, midTier2 : Nat,
                                 streakCap : Nat, crunchGrace : Nat, crunchSpan : Nat,
                                 crunchTier1 : Nat, crunchTier2 : Nat, crunchWindow : Nat]]
    /\ None \notin Int

Rows == [won : SUBSET Matches, spent : Nat, paid : [Days -> Nat], taxed : BOOLEAN,
         activity : Days \cup {None}, last : Days \cup {None}, streak : Nat]

DefaultRow == [won |-> {}, spent |-> 0, paid |-> [d \in Days |-> 0], taxed |-> FALSE,
               activity |-> None, last |-> None, streak |-> 0]

(* mu, in ki above the floor below which decay takes nothing.               *)
Mu(r) == Start + Gain * Cardinality(r.won) - r.spent

-----------------------------------------------------------------------------
(* What the league's row says of a moment.                                  *)

IsLeagueSeasonPaused(lg, now) == lg.status = "ACTIVE" /\ lg.ends # None /\ now >= lg.ends

IsLeagueInCrunch(lg, now) ==
    /\ lg.status = "ACTIVE" /\ lg.decay
    /\ lg.ends # None => now < lg.ends
    /\ \/ lg.crunch
       \/ lg.ends # None /\ now >= lg.ends - Settings[lg.preset].crunchWindow

IsCalibrating(games) == games < Calibration

-----------------------------------------------------------------------------
(* What idleness costs.                                                     *)

DailyKiLoss(s, idle, inCrunch) ==
    LET grace == IF inCrunch THEN s.crunchGrace ELSE s.midGrace
        span == IF inCrunch THEN s.crunchSpan ELSE s.midSpan
        tier1 == IF inCrunch THEN s.crunchTier1 ELSE s.midTier1
        tier2 == IF inCrunch THEN s.crunchTier2 ELSE s.midTier2
    IN  CASE idle <= grace -> 0 [] grace < idle /\ idle <= grace + span -> tier1 [] OTHER -> tier2

AtMost(m, n) == IF m <= n THEN m ELSE n
AtLeast(m, n) == IF m >= n THEN m ELSE n

(* What a row is charged for day d: outside the crunch a streak costs no    *)
(* more than its cap, and never below the floor.                            *)
DayCharge(s, inCrunch, r, d) ==
    LET due == DailyKiLoss(s, d - r.activity, inCrunch)
        capped == IF ~inCrunch /\ s.streakCap > 0
                  THEN AtMost(due, AtLeast(0, s.streakCap - r.streak)) ELSE due
    IN  AtLeast(0, AtMost(capped, Mu(r)))

Charged(s, inCrunch, r, d) ==
    LET k == DayCharge(s, inCrunch, r, d)
    IN  [r EXCEPT !.spent = @ + k, !.paid[d] = @ + k, !.streak = @ + k]

From(r) == IF r.last # None THEN r.last ELSE r.activity
PendingUtcDaysToApply(r, now) == AtLeast(0, now - From(r))

(* All pending days in order, each by how long the player was idle on it;   *)
(* whether the league is in its crunch is asked once, of now.               *)
ComputeDecayDelta(s, inCrunch, r, now) ==
    LET pass[d \in From(r)..now] ==
            IF d = From(r) THEN r ELSE Charged(s, inCrunch, pass[d - 1], d)
    IN  pass[now]

(* Whether anything is to be charged.  The flag of a player staff declared  *)
(* new, which holds the charge back until calibration ends, is left out.    *)
Decays(lg, r, games, now) ==
    /\ lg.status = "ACTIVE" /\ lg.decay /\ ~IsLeagueSeasonPaused(lg, now)
    /\ r # None
    /\ r.activity # None
    /\ ~IsCalibrating(games)
    /\ PendingUtcDaysToApply(r, now) > 0

(* Slip: the pass is not dated, so its days stay pending.                   *)
CaughtUpUndated(lg, r, now) ==
    ComputeDecayDelta(Settings[lg.preset], IsLeagueInCrunch(lg, now), r, now)

(* The row as catch-up would write it.                                      *)
CaughtUp(lg, r, now) ==
    [ComputeDecayDelta(Settings[lg.preset], IsLeagueInCrunch(lg, now), r, now) EXCEPT !.last = now]

(* Which columns each write sets, over the row as it is by then.            *)
DecayWrite(r, written) ==
    [written EXCEPT !.activity = r.activity]
MuWrite(r, written) ==
    [r EXCEPT !.won = written.won, !.spent = written.spent, !.paid = written.paid,
              !.taxed = written.taxed]
IdleDecayActivityReset(r, completedAt) ==
    [r EXCEPT !.activity = completedAt, !.streak = 0, !.last = None]
=============================================================================

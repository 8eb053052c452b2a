------------------------------ MODULE HeroDraft ------------------------------
(***************************************************************************)
(* One hero ban/pick draft: services/hero-draft.  The draft is a row that  *)
(* every handler reads, changes in memory and writes back whole; nothing   *)
(* orders two handlers that overlap.  Beside the row there is one timer in *)
(* the process, lost when the bot restarts and set again from the row.     *)
(*                                                                         *)
(* Time is not counted: a timer may fire whenever it is set.  A deadline   *)
(* is named by the turn it was set for; when handlers overlap, two of them *)
(* may take the same turn and set it twice, so that whether the deadline   *)
(* that fired or the one in the row is the later is left open.             *)
(***************************************************************************)
EXTENDS Naturals, Sequences, FiniteSets

CONSTANTS
    Heroes,             \* the heroes left of the snapshotted pool
    FirstTurn,          \* a draft that has come to FirstTurn with Heroes left,
    LastTurn,           \* followed until LastTurn; 1 and 16 for a whole one
    Handlers,           \* slots for handlers in flight
    Settings,           \* what a behaviour may contain: see `setting'
    MaxRestarts,        \* bound on restarts of the bot
    None

Ban(side) == [kind |-> "ban", team |-> side]
Pick(side) == [kind |-> "pick", team |-> side]

HERO_DRAFT_SEQUENCE ==
    <<Ban(1), Ban(2), Ban(1), Ban(2),
      Pick(1), Pick(2), Pick(2), Pick(1), Pick(1), Pick(2),
      Ban(1), Ban(2),
      Pick(2), Pick(1), Pick(1), Pick(2)>>

ASSUME HeroDraftAssumption ==
    /\ FirstTurn \in 1..16
    /\ LastTurn \in FirstTurn..16
    /\ Settings \subseteq [overlap : BOOLEAN,  \* a handler starts before another is done
                            stale : BOOLEAN,    \* clicks on what is no longer offered
                            failures : BOOLEAN] \* a call to the database or Discord fails
    /\ MaxRestarts \in Nat
    /\ None \notin Heroes
    /\ Cardinality(Heroes) >= LastTurn - FirstTurn + 1

VARIABLES
    status,    \* HeroDraft.status, "NONE" before /hero_draft start
    chosen,    \* HeroDraft.state: one entry per turn taken, None a lost ban
    timer,     \* turn whose deadline the process's timer waits for, 0: not set
    task,      \* handlers in flight
    restarts,
    setting    \* chosen at the beginning, never changed

vars == <<status, chosen, timer, task, restarts, setting>>

TurnCount == LastTurn - FirstTurn + 1
Choices == Heroes \cup {None}
Logs == {log \in Seq(Choices) : Len(log) <= TurnCount}

(* The turn a log has come to, from 1, and what the sequence asks of it.   *)
TurnIndex(log) == Len(log) + 1
CurrentTurn(log) == HERO_DRAFT_SEQUENCE[FirstTurn + Len(log)]
IsComplete(log) == Len(log) >= TurnCount
Available(log) == {h \in Heroes : \A i \in 1..Len(log) : log[i] # h}

Turns == 0..TurnCount
Ops == {"idle", "select", "act", "timeout", "timeoutAct", "cancel", "save", "post",
        "arm"}
TaskStates == [op : Ops, actor : 0..2, kind : {"ban", "pick", "skip"},
               hero : Choices, turn : Turns, log : Logs, arms : BOOLEAN,
               to : {"ACTIVE", "COMPLETE", "CANCELLED"}]

Idle == [op |-> "idle", actor |-> 0, kind |-> "ban", hero |-> None, turn |-> 0,
         log |-> <<>>, to |-> "ACTIVE", arms |-> FALSE]

TypeOK ==
    /\ status \in {"NONE", "ACTIVE", "COMPLETE", "CANCELLED"}
    /\ chosen \in Logs
    /\ timer \in Turns
    /\ task \in [Handlers -> TaskStates]
    /\ restarts \in 0..MaxRestarts
    /\ setting \in Settings

Init ==
    /\ status = "NONE"
    /\ chosen = <<>>
    /\ timer = 0
    /\ task = [h \in Handlers |-> Idle]
    /\ restarts = 0
    /\ setting \in Settings

-----------------------------------------------------------------------------
(* Handlers in flight.                                                     *)

Quiet == \A h \in Handlers : task[h] = Idle
Free(h) == task[h] = Idle /\ (setting.overlap \/ Quiet)

Go(h, new) == task' = [task EXCEPT ![h] = new] /\ UNCHANGED setting
Finish(h) == Go(h, Idle)

(* What a handler writes: the log it computed from the one it has read.    *)
ToSave(t, log, to, arms) ==
    [t EXCEPT !.op = "save", !.log = log, !.to = to, !.arms = arms]

(* Write the log with the turn just taken; the draft may be complete.      *)
Advance(t, choice) ==
    LET next == Append(t.log, choice)
    IN  IF IsComplete(next) THEN ToSave(t, next, "COMPLETE", FALSE)
                            ELSE ToSave(t, next, "ACTIVE", TRUE)

-----------------------------------------------------------------------------
(* Start: the row is created, then the panel is posted and the timer set.  *)

Start(h) ==
    /\ status = "NONE"
    /\ Free(h)
    /\ status' = "ACTIVE"
    /\ chosen' = <<>>
    /\ Go(h, [Idle EXCEPT !.op = "post"])
    /\ UNCHANGED <<timer, restarts>>

Post(h) ==
    /\ task[h].op = "post"
    /\ Go(h, [task[h] EXCEPT !.op = "arm"])
    /\ UNCHANGED <<status, chosen, timer, restarts>>

-----------------------------------------------------------------------------
(* A captain's ban or pick.  The click names a hero; the turn's kind is    *)
(* taken from a first read of the row, the rest from a second one.         *)

(* What the live panel shows of the row as it is.                          *)
OffersHero(hero) == hero \in Available(chosen)
OffersSkip == ~IsComplete(chosen) /\ CurrentTurn(chosen).kind = "ban"

Click(side, hero, kind) ==
    [op |-> "select", actor |-> side, kind |-> kind, hero |-> hero, turn |-> 0,
     log |-> <<>>, to |-> "ACTIVE", arms |-> FALSE]

ClickSelect(h, side, hero) ==
    /\ status # "NONE"
    /\ ~IsComplete(chosen)
    /\ Free(h)
    /\ setting.stale \/ OffersHero(hero)
    /\ Go(h, Click(side, hero, CurrentTurn(chosen).kind))
    /\ UNCHANGED <<status, chosen, timer, restarts>>

ClickSkip(h, side) ==
    /\ status # "NONE"
    /\ Free(h)
    /\ setting.stale \/ OffersSkip
    /\ Go(h, Click(side, None, "skip"))
    /\ UNCHANGED <<status, chosen, timer, restarts>>

Load(h) ==
    /\ task[h].op = "select"
    /\ IF status = "ACTIVE"
         THEN Go(h, [task[h] EXCEPT !.op = "act", !.log = chosen])
         ELSE Finish(h)
    /\ UNCHANGED <<status, chosen, timer, restarts>>

OnClock(t) == ~IsComplete(t.log) /\ CurrentTurn(t.log).team = t.actor

(* Slip: the hero's availability is not looked at.                         *)
AllowedAnyHero(t) ==
    IF t.kind = "skip" THEN CurrentTurn(t.log).kind = "ban"
    ELSE CurrentTurn(t.log).kind = t.kind

(* applyBan, applySkipBan, applyPick: the turn is of that kind and the     *)
(* hero is still there.                                                    *)
Allowed(t) ==
    IF t.kind = "skip" THEN CurrentTurn(t.log).kind = "ban"
    ELSE CurrentTurn(t.log).kind = t.kind /\ t.hero \in Available(t.log)

Refuse(h) ==
    /\ task[h].op = "act"
    /\ ~OnClock(task[h])
    /\ Finish(h)
    /\ UNCHANGED <<status, chosen, timer, restarts>>

(* clearHeroDraftTimer comes before the mutation, which may throw.         *)
Mutate(h) ==
    /\ task[h].op = "act"
    /\ OnClock(task[h])
    /\ timer' = 0
    /\ IF Allowed(task[h])
         THEN Go(h, Advance(task[h], IF task[h].kind = "skip" THEN None
                                                             ELSE task[h].hero))
         ELSE Finish(h)
    /\ UNCHANGED <<status, chosen, restarts>>

Save(h) ==
    /\ task[h].op = "save"
    /\ status' = task[h].to
    /\ chosen' = task[h].log
    /\ IF task[h].arms THEN Go(h, [task[h] EXCEPT !.op = "arm"]) ELSE Finish(h)
    /\ UNCHANGED <<timer, restarts>>

(* scheduleHeroDraftTimeout for the deadline of the log just saved.        *)
Arm(h) ==
    /\ task[h].op = "arm"
    /\ timer' = TurnIndex(task[h].log)
    /\ Finish(h)
    /\ UNCHANGED <<status, chosen, restarts>>

-----------------------------------------------------------------------------
(* The timer.                                                              *)

Fire(h) ==
    /\ timer # 0
    /\ Free(h)
    /\ timer' = 0
    /\ Go(h, [Idle EXCEPT !.op = "timeout", !.turn = timer])
    /\ UNCHANGED <<status, chosen, restarts>>

TimeoutLoad(h) ==
    /\ task[h].op = "timeout"
    /\ IF status = "ACTIVE"
         THEN Go(h, [task[h] EXCEPT !.op = "timeoutAct", !.log = chosen])
         ELSE Finish(h)
    /\ UNCHANGED <<status, chosen, timer, restarts>>

(* Slip: the deadline that fired counts as still to come.                  *)
TooEarlyInclusive(h) ==
    /\ task[h].op = "timeoutAct"
    /\ TurnIndex(task[h].log) >= task[h].turn
    /\ timer' = TurnIndex(task[h].log)
    /\ Finish(h)
    /\ UNCHANGED <<status, chosen, restarts>>

(* The row has a later deadline than the one that fired: wait for it.      *)
TooEarly(h) ==
    /\ task[h].op = "timeoutAct"
    /\ setting.overlap \/ TurnIndex(task[h].log) > task[h].turn
    /\ timer' = TurnIndex(task[h].log)
    /\ Finish(h)
    /\ UNCHANGED <<status, chosen, restarts>>

(* A late ban is lost, a late pick is a random hero.                       *)
ApplyTimeout(h) ==
    LET t == task[h] IN
    /\ t.op = "timeoutAct"
    /\ setting.overlap \/ TurnIndex(t.log) <= t.turn
    /\ timer' = 0
    /\ IF CurrentTurn(t.log).kind = "ban"
         THEN Go(h, Advance(t, None))
         ELSE \E hero \in Available(t.log) : Go(h, Advance(t, hero))
    /\ UNCHANGED <<status, chosen, restarts>>

-----------------------------------------------------------------------------
(* A moderator's cancel, a captain's page change, a restart.               *)

(* Slip: any draft may be cancelled.                                       *)
CancelLoadAnytime(h) ==
    /\ status # "NONE"
    /\ Free(h)
    /\ Go(h, [Idle EXCEPT !.op = "cancel", !.log = chosen])
    /\ UNCHANGED <<status, chosen, timer, restarts>>

CancelLoad(h) ==
    /\ status = "ACTIVE"
    /\ Free(h)
    /\ Go(h, [Idle EXCEPT !.op = "cancel", !.log = chosen])
    /\ UNCHANGED <<status, chosen, timer, restarts>>

Cancel(h) ==
    /\ task[h].op = "cancel"
    /\ timer' = 0
    /\ Go(h, ToSave(task[h], task[h].log, "CANCELLED", FALSE))
    /\ UNCHANGED <<status, chosen, restarts>>

(* The page is part of the state, which is written back whole.             *)
ChangePage(h, side) ==
    /\ status = "ACTIVE"
    /\ Free(h)
    /\ CurrentTurn(chosen).team = side
    /\ Go(h, ToSave(Idle, chosen, "ACTIVE", FALSE))
    /\ UNCHANGED <<status, chosen, timer, restarts>>

(* A call to the database or to Discord fails: the handler ends there.     *)
Fail(h) ==
    /\ setting.failures
    /\ task[h].op \in {"select", "timeout", "post", "save"}
    /\ Finish(h)
    /\ UNCHANGED <<status, chosen, timer, restarts>>

(* rehydrateHeroDraftTimers sets the timer of an active draft again.       *)
Restart ==
    /\ restarts < MaxRestarts
    /\ restarts' = restarts + 1
    /\ task' = [h \in Handlers |-> Idle]
    /\ timer' = IF status = "ACTIVE" THEN TurnIndex(chosen) ELSE 0
    /\ UNCHANGED <<status, chosen, setting>>

Continue(h) ==
    \/ Post(h) \/ Load(h) \/ Refuse(h) \/ Mutate(h) \/ Save(h) \/ Arm(h)
    \/ TimeoutLoad(h) \/ TooEarly(h) \/ ApplyTimeout(h) \/ Cancel(h)

Next ==
    \/ \E h \in Handlers :
         \/ Start(h) \/ Fire(h) \/ CancelLoad(h) \/ Continue(h) \/ Fail(h)
         \/ \E side \in {1, 2} :
              \/ ClickSkip(h, side) \/ ChangePage(h, side)
              \/ \E hero \in Heroes : ClickSelect(h, side, hero)
    \/ Restart

Spec == Init /\ [][Next]_vars

(* A timer that stays set fires, though other handlers come between        *)
(* (setTimeout), and the event loop returns to every handler.  Nothing is  *)
(* asked of captains or moderators.                                        *)
FairSpec ==
    /\ Spec
    /\ SF_vars(\E h \in Handlers : Fire(h))
    /\ \A h \in Handlers : WF_vars(Continue(h))

-----------------------------------------------------------------------------
(* What holds however handlers overlap.                                    *)

NoRepeats(log) ==
    \A i, j \in 1..Len(log) : i # j /\ log[i] # None => log[i] # log[j]

(* "A hero cannot be selected twice": across both teams' bans and picks,   *)
(* with overlapping captains, timeouts, page changes and cancels writing   *)
(* the whole state over each other.                                        *)
NoHeroTwice == NoRepeats(chosen)

PicksFilled(log) ==
    \A i \in 1..Len(log) :
      HERO_DRAFT_SEQUENCE[FirstTurn + i - 1].kind = "pick" => log[i] # None

(* A draft is complete only with every turn taken and every pick filled,   *)
(* and an active one always has a turn to take.                            *)
CompleteIsFull ==
    /\ status = "COMPLETE" => IsComplete(chosen)
    /\ status = "ACTIVE" => ~IsComplete(chosen)
    /\ PicksFilled(chosen)

(* The saved draft is one its players could have come to: its variables    *)
(* have their types, no hero is in it twice, and its status fits its turns.*)
DraftSound == TypeOK /\ NoHeroTwice /\ CompleteIsFull

-----------------------------------------------------------------------------
(* What holds when handlers do not overlap, captains click only what they  *)
(* are offered, and no call fails.                                         *)

Calm == ~setting.overlap /\ ~setting.stale /\ ~setting.failures

(* A recorded ban or pick stands, and a draft that is over stays as it is. *)
ChoicesStand ==
    [][Calm => /\ SubSeq(chosen', 1, Len(chosen)) = chosen
               /\ status \in {"COMPLETE", "CANCELLED"} => UNCHANGED <<status, chosen>>]_vars

(* Captains who never answer do not hold a draft up.                       *)
CalmSettles == (Calm /\ status = "ACTIVE") ~> (status # "ACTIVE")

-----------------------------------------------------------------------------
(* What the design says and the code does not keep.                        *)

(* "Timer: default 30s per action"; "pick timeout: random remaining hero": *)
(* an active draft moves on without its captains.                          *)
Settles == (status = "ACTIVE") ~> (status # "ACTIVE")
=============================================================================

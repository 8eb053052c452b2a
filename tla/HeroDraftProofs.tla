--------------------------- MODULE HeroDraftProofs ---------------------------
(***************************************************************************)
(* Theorems about HeroDraft, for any pool, any stretch of the sequence,    *)
(* any number of handlers, overlapping or not, and calls that fail.        *)
(***************************************************************************)
EXTENDS HeroDraft, TLAPS

USE HeroDraftAssumption

Good(log) == NoRepeats(log) /\ PicksFilled(log)

(* What a handler carries to its next step: the log it read, or the one it *)
(* is about to write, is as good as the row's.                             *)
TaskOK(t) ==
    /\ Good(t.log)
    /\ t.op \in {"act", "timeoutAct", "cancel", "post", "arm"} => ~IsComplete(t.log)
    /\ t.op = "save" =>
         /\ t.to = "ACTIVE" => ~IsComplete(t.log)
         /\ t.to = "COMPLETE" => IsComplete(t.log)
         /\ t.arms => t.to = "ACTIVE"

Inv ==
    /\ TypeOK
    /\ Good(chosen)
    /\ status = "ACTIVE" => ~IsComplete(chosen)
    /\ status = "COMPLETE" => IsComplete(chosen)
    /\ \A h \in Handlers : TaskOK(task[h])

-----------------------------------------------------------------------------
LEMMA TurnCountType == TurnCount \in 1..16
BY DEF TurnCount

LEMMA EmptyLog == <<>> \in Logs /\ Good(<<>>) /\ ~IsComplete(<<>>)
BY TurnCountType DEF Logs, Good, NoRepeats, PicksFilled, IsComplete

LEMMA TurnType ==
    ASSUME NEW log \in Logs, ~IsComplete(log)
    PROVE  TurnIndex(log) \in Turns
BY TurnCountType DEF TurnIndex, Turns, Logs, IsComplete

(* The sequence asks for bans and picks only.                              *)
LEMMA KindType ==
    ASSUME NEW log \in Logs, ~IsComplete(log)
    PROVE  CurrentTurn(log).kind \in {"ban", "pick"}
<1>1. FirstTurn + Len(log) \in 1..16
  BY SMTT(30) DEF Logs, IsComplete, TurnCount
<1>2. \A i \in 1..16 : HERO_DRAFT_SEQUENCE[i].kind \in {"ban", "pick"}
  BY DEF HERO_DRAFT_SEQUENCE, Ban, Pick
<1>. QED
  BY <1>1, <1>2 DEF CurrentTurn

LEMMA IdleOK == Idle \in TaskStates /\ TaskOK(Idle)
<1>1. Idle.log = <<>> /\ Idle.op = "idle"
  BY DEF Idle
<1>2. TaskOK(Idle)
  BY <1>1, EmptyLog DEF TaskOK
<1>3. Idle \in TaskStates
  BY EmptyLog, TurnCountType DEF Idle, TaskStates, Ops, Choices, Turns
<1>. QED
  BY <1>2, <1>3

LEMMA ClickType ==
    ASSUME NEW side \in {1, 2}, NEW hero \in Choices,
           NEW kind \in {"ban", "pick", "skip"}
    PROVE  /\ Click(side, hero, kind) \in TaskStates
           /\ Click(side, hero, kind).op = "select"
           /\ Click(side, hero, kind).log = <<>>
BY EmptyLog, TurnCountType DEF Click, TaskStates, Ops, Turns

(* Taking a turn with a free hero, or with none on a ban, keeps a log good. *)
LEMMA AppendGood ==
    ASSUME NEW log \in Logs, ~IsComplete(log), Good(log),
           NEW c \in Choices, c # None => c \in Available(log),
           CurrentTurn(log).kind = "pick" => c # None
    PROVE  Append(log, c) \in Logs /\ Good(Append(log, c))
<1>. DEFINE next == Append(log, c)
<1>1. log \in Seq(Choices) /\ Len(log) \in Nat /\ Len(log) < TurnCount
  BY TurnCountType DEF Logs, IsComplete
<1>2. /\ next \in Seq(Choices)
      /\ Len(next) = Len(log) + 1
      /\ \A i \in 1..Len(log) : next[i] = log[i]
      /\ next[Len(log) + 1] = c
  BY <1>1
<1>3. next \in Logs
  BY <1>1, <1>2, TurnCountType DEF Logs
<1>4. NoRepeats(next)
  <2>1. \A i \in 1..Len(log) : c # None => log[i] # c
    BY DEF Available
  <2>. QED
    BY <1>1, <1>2, <2>1 DEF Good, NoRepeats
<1>5. PicksFilled(next)
  <2>1. \A i \in 1..Len(next) : i \in 1..Len(log) \/ i = Len(log) + 1
    BY <1>1, <1>2
  <2>2. HERO_DRAFT_SEQUENCE[FirstTurn + (Len(log) + 1) - 1] = CurrentTurn(log)
    BY <1>1 DEF CurrentTurn
  <2>3. ASSUME NEW i \in 1..Len(next), HERO_DRAFT_SEQUENCE[FirstTurn + i - 1].kind = "pick"
        PROVE  next[i] # None
    <3>1. CASE i \in 1..Len(log)
      BY <1>2, <2>3, <3>1 DEF Good, PicksFilled
    <3>2. CASE i = Len(log) + 1
      BY <1>2, <2>2, <2>3, <3>2
    <3>. QED
      BY <2>1, <3>1, <3>2
  <2>. QED
    BY <2>3 DEF PicksFilled
<1>. QED
  BY <1>3, <1>4, <1>5 DEF Good

LEMMA ToSaveOK ==
    ASSUME NEW t \in TaskStates, NEW log \in Logs, Good(log),
           NEW to \in {"ACTIVE", "COMPLETE", "CANCELLED"}, NEW arms \in BOOLEAN,
           to = "ACTIVE" => ~IsComplete(log),
           to = "COMPLETE" => IsComplete(log),
           arms => to = "ACTIVE"
    PROVE  ToSave(t, log, to, arms) \in TaskStates /\ TaskOK(ToSave(t, log, to, arms))
<1>. DEFINE s == ToSave(t, log, to, arms)
<1>1. s \in TaskStates
  BY DEF ToSave, TaskStates, Ops
<1>2. s.op = "save" /\ s.log = log /\ s.to = to /\ s.arms = arms
  BY DEF ToSave, TaskStates
<1>. HIDE DEF s
<1>. QED
  BY <1>1, <1>2 DEF TaskOK, s

LEMMA AdvanceOK ==
    ASSUME NEW t \in TaskStates, ~IsComplete(t.log), Good(t.log),
           NEW c \in Choices, c # None => c \in Available(t.log),
           CurrentTurn(t.log).kind = "pick" => c # None
    PROVE  Advance(t, c) \in TaskStates /\ TaskOK(Advance(t, c))
<1>1. t.log \in Logs
  BY DEF TaskStates
<1>2. Append(t.log, c) \in Logs /\ Good(Append(t.log, c))
  BY <1>1, AppendGood
<1>3. CASE IsComplete(Append(t.log, c))
  BY <1>2, <1>3, ToSaveOK DEF Advance
<1>4. CASE ~IsComplete(Append(t.log, c))
  BY <1>2, <1>4, ToSaveOK DEF Advance
<1>. QED
  BY <1>3, <1>4

-----------------------------------------------------------------------------
(* A step of one handler that leaves the row alone.                        *)
LEMMA HandlerStep ==
    ASSUME Inv, NEW h \in Handlers, NEW k \in TaskStates, TaskOK(k), Go(h, k),
           UNCHANGED <<status, chosen, restarts>>, timer' \in Turns
    PROVE  Inv'
<1>1. task' = [task EXCEPT ![h] = k] /\ setting' = setting
  BY DEF Go
<1>2. task' \in [Handlers -> TaskStates] /\ \A g \in Handlers : TaskOK(task'[g])
  BY <1>1 DEF Inv, TypeOK
<1>. QED
  BY <1>1, <1>2 DEF Inv, TypeOK, Good, NoRepeats, PicksFilled, IsComplete, TaskOK

(* A step of one handler that writes the row.                              *)
LEMMA WriteStep ==
    ASSUME Inv, NEW h \in Handlers, NEW k \in TaskStates, TaskOK(k), Go(h, k),
           UNCHANGED <<timer, restarts>>,
           NEW st \in {"ACTIVE", "COMPLETE", "CANCELLED"}, status' = st,
           NEW log \in Logs, chosen' = log, Good(log),
           st = "ACTIVE" => ~IsComplete(log),
           st = "COMPLETE" => IsComplete(log)
    PROVE  Inv'
<1>1. task' = [task EXCEPT ![h] = k] /\ setting' = setting
  BY DEF Go
<1>2. task' \in [Handlers -> TaskStates] /\ \A g \in Handlers : TaskOK(task'[g])
  BY <1>1 DEF Inv, TypeOK
<1>. QED
  BY <1>1, <1>2 DEF Inv, TypeOK, Good, NoRepeats, PicksFilled, IsComplete, TaskOK

(* A handler that stays as it is but for its step.                         *)
LEMMA ChangeOp ==
    ASSUME NEW t \in TaskStates, NEW op \in Ops
    PROVE  /\ [t EXCEPT !.op = op] \in TaskStates
           /\ [t EXCEPT !.op = op].op = op
           /\ [t EXCEPT !.op = op].log = t.log
BY DEF TaskStates

-----------------------------------------------------------------------------
LEMMA InitInv == Init => Inv
<1>. SUFFICES ASSUME Init PROVE Inv
  OBVIOUS
<1>1. TypeOK
  BY IdleOK, EmptyLog, TurnCountType DEF Init, TypeOK, Turns
<1>2. \A h \in Handlers : TaskOK(task[h])
  BY IdleOK DEF Init
<1>. QED
  BY <1>1, <1>2, EmptyLog DEF Init, Inv

LEMMA NextInv == Inv /\ [Next]_vars => Inv'
<1>. SUFFICES ASSUME Inv, [Next]_vars PROVE Inv'
  OBVIOUS
<1>. USE IdleOK
<1>0. /\ \A h \in Handlers : task[h] \in TaskStates /\ TaskOK(task[h])
      /\ \A h \in Handlers : task[h].log \in Logs
      /\ chosen \in Logs /\ Good(chosen) /\ timer \in Turns /\ 0 \in Turns
  BY TurnCountType DEF Inv, TypeOK, TaskStates, Turns
<1>1. ASSUME NEW h \in Handlers, Start(h) PROVE Inv'
  <2>. DEFINE k == [Idle EXCEPT !.op = "post"]
  <2>1. k \in TaskStates /\ k.op = "post" /\ k.log = <<>>
    BY ChangeOp DEF Ops, Idle
  <2>2. TaskOK(k)
    BY <2>1, EmptyLog DEF TaskOK
  <2>. QED
    BY <1>1, <2>1, <2>2, EmptyLog, WriteStep DEF Start
<1>2. ASSUME NEW h \in Handlers, Post(h) PROVE Inv'
  <2>. DEFINE k == [task[h] EXCEPT !.op = "arm"]
  <2>1. k \in TaskStates /\ k.op = "arm" /\ k.log = task[h].log
    BY <1>0, ChangeOp DEF Ops
  <2>2. TaskOK(k)
    BY <1>0, <1>2, <2>1 DEF TaskOK, Post
  <2>. QED
    BY <1>0, <1>2, <2>1, <2>2, HandlerStep DEF Post
<1>3. ASSUME NEW h \in Handlers, NEW side \in {1, 2}, NEW hero \in Heroes,
             ClickSelect(h, side, hero)
      PROVE  Inv'
  <2>. DEFINE k == Click(side, hero, CurrentTurn(chosen).kind)
  <2>1. CurrentTurn(chosen).kind \in {"ban", "pick"}
    BY <1>0, <1>3, KindType DEF ClickSelect
  <2>2. k \in TaskStates /\ k.op = "select" /\ k.log = <<>>
    BY <2>1, ClickType DEF Choices
  <2>3. TaskOK(k)
    BY <2>2, EmptyLog DEF TaskOK
  <2>. QED
    BY <1>0, <1>3, <2>2, <2>3, HandlerStep DEF ClickSelect
<1>4. ASSUME NEW h \in Handlers, NEW side \in {1, 2}, ClickSkip(h, side) PROVE Inv'
  <2>. DEFINE k == Click(side, None, "skip")
  <2>1. k \in TaskStates /\ k.op = "select" /\ k.log = <<>>
    BY ClickType DEF Choices
  <2>2. TaskOK(k)
    BY <2>1, EmptyLog DEF TaskOK
  <2>. QED
    BY <1>0, <1>4, <2>1, <2>2, HandlerStep DEF ClickSkip
<1>5. ASSUME NEW h \in Handlers, Load(h) PROVE Inv'
  <2>. DEFINE k == [task[h] EXCEPT !.op = "act", !.log = chosen]
  <2>1. k \in TaskStates /\ k.op = "act" /\ k.log = chosen
    BY <1>0 DEF TaskStates, Ops
  <2>2. CASE status = "ACTIVE"
    <3>1. TaskOK(k)
      BY <1>0, <2>1, <2>2 DEF TaskOK, Inv
    <3>. QED
      BY <1>0, <1>5, <2>1, <2>2, <3>1, HandlerStep DEF Load
  <2>3. CASE status # "ACTIVE"
    BY <1>0, <1>5, <2>3, HandlerStep DEF Load, Finish
  <2>. QED
    BY <2>2, <2>3
<1>6. ASSUME NEW h \in Handlers, Refuse(h) PROVE Inv'
  BY <1>0, <1>6, HandlerStep DEF Refuse, Finish
<1>7. ASSUME NEW h \in Handlers, Mutate(h) PROVE Inv'
  <2>. DEFINE t == task[h]
              c == IF t.kind = "skip" THEN None ELSE t.hero
  <2>1. CASE Allowed(t)
    <3>1. ~IsComplete(t.log) /\ Good(t.log)
      BY <1>0, <1>7 DEF TaskOK, Mutate
    <3>2. c \in Choices /\ (c # None => c \in Available(t.log))
      BY <2>1 DEF Allowed, Choices, Available
    <3>3. CurrentTurn(t.log).kind = "pick" => c # None
      BY <2>1 DEF Allowed, Available
    <3>4. Advance(t, c) \in TaskStates /\ TaskOK(Advance(t, c))
      BY <1>0, <3>1, <3>2, <3>3, AdvanceOK
    <3>. QED
      BY <1>0, <1>7, <2>1, <3>4, HandlerStep DEF Mutate
  <2>2. CASE ~Allowed(t)
    BY <1>0, <1>7, <2>2, HandlerStep DEF Mutate, Finish
  <2>. QED
    BY <2>1, <2>2
<1>8. ASSUME NEW h \in Handlers, Save(h) PROVE Inv'
  <2>. DEFINE t == task[h]
              k == [t EXCEPT !.op = "arm"]
  <2>1. t.to \in {"ACTIVE", "COMPLETE", "CANCELLED"} /\ t.log \in Logs /\ Good(t.log)
    BY <1>0 DEF TaskStates, TaskOK
  <2>2. (t.to = "ACTIVE" => ~IsComplete(t.log)) /\ (t.to = "COMPLETE" => IsComplete(t.log))
    BY <1>0, <1>8 DEF TaskOK, Save
  <2>3. CASE t.arms
    <3>1. k \in TaskStates /\ k.op = "arm" /\ k.log = t.log
      BY <1>0, ChangeOp DEF Ops
    <3>2. TaskOK(k)
      BY <1>0, <1>8, <2>1, <2>3, <3>1 DEF TaskOK, Save
    <3>. QED
      BY <1>8, <2>1, <2>2, <2>3, <3>1, <3>2, WriteStep DEF Save
  <2>4. CASE ~t.arms
    BY <1>8, <2>1, <2>2, <2>4, WriteStep DEF Save, Finish
  <2>. QED
    BY <2>3, <2>4
<1>9. ASSUME NEW h \in Handlers, Arm(h) PROVE Inv'
  <2>1. TurnIndex(task[h].log) \in Turns
    BY <1>0, <1>9, TurnType DEF Arm, TaskOK
  <2>. QED
    BY <1>9, <2>1, HandlerStep DEF Arm, Finish
<1>10. ASSUME NEW h \in Handlers, Fire(h) PROVE Inv'
  <2>. DEFINE k == [Idle EXCEPT !.op = "timeout", !.turn = timer]
  <2>1. k \in TaskStates /\ k.op = "timeout" /\ k.log = <<>>
    BY <1>0, EmptyLog DEF TaskStates, Ops, Choices, Idle
  <2>2. TaskOK(k)
    BY <2>1, EmptyLog DEF TaskOK
  <2>. QED
    BY <1>0, <1>10, <2>1, <2>2, HandlerStep DEF Fire
<1>11. ASSUME NEW h \in Handlers, TimeoutLoad(h) PROVE Inv'
  <2>. DEFINE k == [task[h] EXCEPT !.op = "timeoutAct", !.log = chosen]
  <2>1. k \in TaskStates /\ k.op = "timeoutAct" /\ k.log = chosen
    BY <1>0 DEF TaskStates, Ops
  <2>2. CASE status = "ACTIVE"
    <3>1. TaskOK(k)
      BY <1>0, <2>1, <2>2 DEF TaskOK, Inv
    <3>. QED
      BY <1>0, <1>11, <2>1, <2>2, <3>1, HandlerStep DEF TimeoutLoad
  <2>3. CASE status # "ACTIVE"
    BY <1>0, <1>11, <2>3, HandlerStep DEF TimeoutLoad, Finish
  <2>. QED
    BY <2>2, <2>3
<1>12. ASSUME NEW h \in Handlers, TooEarly(h) PROVE Inv'
  <2>1. TurnIndex(task[h].log) \in Turns
    BY <1>0, <1>12, TurnType DEF TooEarly, TaskOK
  <2>. QED
    BY <1>12, <2>1, HandlerStep DEF TooEarly, Finish
<1>13. ASSUME NEW h \in Handlers, ApplyTimeout(h) PROVE Inv'
  <2>. DEFINE t == task[h]
  <2>1. ~IsComplete(t.log) /\ Good(t.log)
    BY <1>0, <1>13 DEF TaskOK, ApplyTimeout
  <2>2. CASE CurrentTurn(t.log).kind = "ban"
    <3>1. Advance(t, None) \in TaskStates /\ TaskOK(Advance(t, None))
      BY <1>0, <2>1, <2>2, AdvanceOK DEF Choices
    <3>. QED
      BY <1>0, <1>13, <2>2, <3>1, HandlerStep DEF ApplyTimeout
  <2>3. CASE CurrentTurn(t.log).kind # "ban"
    <3>1. PICK hero \in Available(t.log) : Go(h, Advance(t, hero))
      BY <1>13, <2>3 DEF ApplyTimeout
    <3>2. hero \in Choices /\ hero # None
      BY DEF Available, Choices
    <3>3. Advance(t, hero) \in TaskStates /\ TaskOK(Advance(t, hero))
      BY <1>0, <2>1, <3>2, AdvanceOK
    <3>. QED
      BY <1>0, <1>13, <3>1, <3>3, HandlerStep DEF ApplyTimeout
  <2>. QED
    BY <2>2, <2>3
<1>14. ASSUME NEW h \in Handlers, CancelLoad(h) PROVE Inv'
  <2>. DEFINE k == [Idle EXCEPT !.op = "cancel", !.log = chosen]
  <2>1. k \in TaskStates /\ k.op = "cancel" /\ k.log = chosen
    BY <1>0 DEF TaskStates, Ops
  <2>2. TaskOK(k)
    BY <1>0, <1>14, <2>1 DEF TaskOK, CancelLoad, Inv
  <2>. QED
    BY <1>0, <1>14, <2>1, <2>2, HandlerStep DEF CancelLoad
<1>15. ASSUME NEW h \in Handlers, Cancel(h) PROVE Inv'
  <2>. DEFINE k == ToSave(task[h], task[h].log, "CANCELLED", FALSE)
  <2>1. Good(task[h].log)
    BY <1>0 DEF TaskOK
  <2>2. k \in TaskStates /\ TaskOK(k)
    BY <1>0, <2>1, ToSaveOK
  <2>. QED
    BY <1>0, <1>15, <2>2, HandlerStep DEF Cancel
<1>16. ASSUME NEW h \in Handlers, NEW side \in {1, 2}, ChangePage(h, side) PROVE Inv'
  <2>. DEFINE k == ToSave(Idle, chosen, "ACTIVE", FALSE)
  <2>1. ~IsComplete(chosen)
    BY <1>16 DEF ChangePage, Inv
  <2>2. k \in TaskStates /\ TaskOK(k)
    BY <1>0, <2>1, ToSaveOK
  <2>. QED
    BY <1>0, <1>16, <2>2, HandlerStep DEF ChangePage
<1>17. ASSUME NEW h \in Handlers, Fail(h) PROVE Inv'
  BY <1>0, <1>17, HandlerStep DEF Fail, Finish
<1>18. CASE Restart
  <2>1. timer' \in Turns
    BY <1>0, <1>18, TurnType DEF Restart, Inv
  <2>2. restarts' \in 0..MaxRestarts
    BY <1>18 DEF Restart, Inv, TypeOK
  <2>3. task' \in [Handlers -> TaskStates] /\ \A h \in Handlers : TaskOK(task'[h])
    BY <1>18 DEF Restart
  <2>4. UNCHANGED <<status, chosen, setting>>
    BY <1>18 DEF Restart
  <2>. QED
    BY <2>1, <2>2, <2>3, <2>4
    DEF Inv, TypeOK, Good, NoRepeats, PicksFilled, IsComplete, TaskOK
<1>19. CASE UNCHANGED vars
  BY <1>19 DEF vars, Inv, TypeOK, Good, NoRepeats, PicksFilled, IsComplete, TaskOK
<1>. QED
  BY <1>1, <1>2, <1>3, <1>4, <1>5, <1>6, <1>7, <1>8, <1>9, <1>10, <1>11, <1>12,
     <1>13, <1>14, <1>15, <1>16, <1>17, <1>18, <1>19 DEF Next, Continue

(* The invariant the theorems rest on: the log in the row, and every log a *)
(* handler has read or is about to write, repeats no hero and leaves no    *)
(* pick empty, and only an unfinished log is ever written to an active row.*)
THEOREM DraftInvariant == Spec => []Inv
<1>. QED
  BY InitInv, NextInv, PTL DEF Spec

(* Every variable keeps its type: timers wait only for turns of the draft. *)
THEOREM TypeCorrect == Spec => []TypeOK
<1>1. Inv => TypeOK
  BY DEF Inv
<1>. QED
  BY <1>1, DraftInvariant, PTL

(* No hero is banned or picked twice, however captains, timeouts, page     *)
(* changes, cancels, failures and restarts overlap.                        *)
THEOREM HeroesDistinct == Spec => []NoHeroTwice
<1>1. Inv => NoHeroTwice
  BY DEF Inv, Good, NoHeroTwice
<1>. QED
  BY <1>1, DraftInvariant, PTL

(* A complete draft has every turn taken and every pick filled, and an     *)
(* active one has a turn left.                                             *)
THEOREM CompleteDraftsFull == Spec => []CompleteIsFull
<1>1. Inv => CompleteIsFull
  BY DEF Inv, Good, CompleteIsFull
<1>. QED
  BY <1>1, DraftInvariant, PTL

(* Whatever overlaps, the saved draft is one its players could have come   *)
(* to (saveHeroDraftState writes back a whole state).                      *)
THEOREM DraftIsSound == Spec => []DraftSound
BY TypeCorrect, HeroesDistinct, CompleteDraftsFull, PTL DEF DraftSound

-----------------------------------------------------------------------------
(* Handlers in turn. What the one in flight has read is still the row, and *)
(* what it writes adds at most one turn to it.                             *)
OnTop(t) ==
    /\ t.op \in {"act", "timeoutAct", "cancel"} => t.log = chosen /\ status = "ACTIVE"
    /\ t.op = "save" =>
         /\ status = "ACTIVE"
         /\ t.log = chosen \/ \E c \in Choices : t.log = Append(chosen, c)

AloneInv ==
    /\ status = "NONE" => chosen = <<>>
    /\ ~setting.overlap =>
         /\ \A g, h \in Handlers : task[g] # Idle /\ task[h] # Idle => g = h
         /\ \A h \in Handlers : OnTop(task[h])

LEMMA IdleOnTop == OnTop(Idle)
BY DEF OnTop, Idle

LEMMA SaveFields ==
    ASSUME NEW t \in TaskStates, NEW log \in Logs, NEW to \in {"ACTIVE", "COMPLETE", "CANCELLED"},
           NEW arms \in BOOLEAN
    PROVE  ToSave(t, log, to, arms).op = "save" /\ ToSave(t, log, to, arms).log = log
BY DEF ToSave, TaskStates

LEMMA AdvanceOnTop ==
    ASSUME NEW t \in TaskStates, NEW c \in Choices, t.log = chosen, status = "ACTIVE",
           Append(t.log, c) \in Logs
    PROVE  OnTop(Advance(t, c))
<1>. DEFINE next == Append(t.log, c)
<1>1. PICK k : k = Advance(t, c)
  OBVIOUS
<1>2. k.op = "save" /\ k.log = next
  BY <1>1, SaveFields DEF Advance
<1>. QED
  BY <1>1, <1>2 DEF OnTop

(* A handler steps, or starts when nobody else is at work.                 *)
LEMMA AloneStep ==
    ASSUME TypeOK, AloneInv, NEW h \in Handlers, NEW k, task' = [task EXCEPT ![h] = k],
           UNCHANGED <<status, chosen, setting>>, task[h] # Idle \/ k = Idle \/ Free(h),
           ~setting.overlap => OnTop(k)
    PROVE  AloneInv'
<1>1. \A g \in Handlers : task'[g] = IF g = h THEN k ELSE task[g]
  BY DEF TypeOK
<1>2. (status = "NONE" => chosen = <<>>)'
  BY DEF AloneInv
<1>3. ASSUME ~setting.overlap
      PROVE  /\ \A f, g \in Handlers : task'[f] # Idle /\ task'[g] # Idle => f = g
             /\ \A g \in Handlers : OnTop(task[g])'
  <2>1. \A f, g \in Handlers : task'[f] # Idle /\ task'[g] # Idle => f = g
    BY <1>1, <1>3 DEF AloneInv, Free, Quiet
  <2>2. \A g \in Handlers : OnTop(task[g])'
    BY <1>1, <1>3 DEF AloneInv, OnTop
  <2>. QED
    BY <2>1, <2>2
<1>. QED
  BY <1>2, <1>3 DEF AloneInv

(* The row is written: nobody else is at work to have read the old one.    *)
LEMMA AloneWrite ==
    ASSUME TypeOK, AloneInv, NEW h \in Handlers, NEW k, task' = [task EXCEPT ![h] = k],
           status' # "NONE", setting' = setting, task[h] # Idle \/ Free(h),
           k.op \in {"idle", "arm", "post"}
    PROVE  AloneInv'
<1>1. \A g \in Handlers : task'[g] = IF g = h THEN k ELSE task[g]
  BY DEF TypeOK
<1>2. ASSUME ~setting.overlap
      PROVE  /\ \A f, g \in Handlers : task'[f] # Idle /\ task'[g] # Idle => f = g
             /\ \A g \in Handlers : OnTop(task[g])'
  <2>1. \A g \in Handlers \ {h} : task[g] = Idle
    BY <1>2 DEF AloneInv, Free, Quiet
  <2>2. Idle.op = "idle"
    BY DEF Idle
  <2>3. \A g \in Handlers : OnTop(task[g])'
    BY <1>1, <2>1, <2>2 DEF OnTop
  <2>. QED
    BY <1>1, <2>1, <2>3
<1>. QED
  BY <1>2 DEF AloneInv

LEMMA NextAlone == Inv /\ AloneInv /\ [Next]_vars => AloneInv'
<1>. SUFFICES ASSUME Inv, AloneInv, [Next]_vars
              PROVE  AloneInv'
  OBVIOUS
<1>0. /\ TypeOK /\ \A h \in Handlers : task[h] \in TaskStates /\ TaskOK(task[h])
      /\ \A h \in Handlers : task[h].log \in Logs
      /\ chosen \in Logs /\ Idle.op = "idle"
  BY DEF Inv, TypeOK, TaskStates, Idle
<1>1. ASSUME NEW h \in Handlers, Start(h)
      PROVE  AloneInv'
  <2>. DEFINE k == [Idle EXCEPT !.op = "post"]
  <2>1. k.op = "post"
    BY DEF Idle
  <2>. QED
    BY <1>0, <1>1, <2>1, AloneWrite DEF Start, Go
<1>2. ASSUME NEW h \in Handlers, Post(h)
      PROVE  AloneInv'
  <2>. DEFINE k == [task[h] EXCEPT !.op = "arm"]
  <2>1. k.op = "arm"
    BY <1>0 DEF TaskStates
  <2>2. OnTop(k)
    BY <2>1 DEF OnTop
  <2>. QED
    BY <1>0, <1>2, <2>1, <2>2, AloneStep DEF Post, Go
<1>3. ASSUME NEW h \in Handlers, NEW side \in {1, 2}, NEW hero \in Choices,
             NEW kind \in {"ban", "pick", "skip"}, Free(h), Go(h, Click(side, hero, kind)),
             UNCHANGED <<status, chosen>>
      PROVE  AloneInv'
  <2>1. PICK k : k = Click(side, hero, kind) /\ k.op = "select"
    BY ClickType
  <2>2. OnTop(k)
    BY <2>1 DEF OnTop
  <2>. QED
    BY <1>0, <1>3, <2>1, <2>2, AloneStep DEF Go
<1>4. ASSUME NEW h \in Handlers, Load(h) \/ TimeoutLoad(h), status = "ACTIVE"
      PROVE  AloneInv'
  <2>0. PICK op \in {"act", "timeoutAct"} :
           Go(h, [task[h] EXCEPT !.op = op, !.log = chosen])
    BY <1>4 DEF Load, TimeoutLoad
  <2>1. PICK k :
           k = [task[h] EXCEPT !.op = op, !.log = chosen] /\ Go(h, k)
    BY <2>0
  <2>2. k.op = op /\ k.log = chosen
    BY <1>0, <2>1 DEF TaskStates
  <2>3. OnTop(k)
    BY <1>4, <2>2 DEF OnTop
  <2>. QED
    BY <1>0, <1>4, <2>1, <2>3, AloneStep DEF Load, TimeoutLoad, Go
<1>5. ASSUME NEW h \in Handlers, Finish(h), UNCHANGED <<status, chosen>>
      PROVE  AloneInv'
  BY <1>0, <1>5, IdleOnTop, AloneStep DEF Finish, Go
<1>6. ASSUME NEW h \in Handlers, Mutate(h), Allowed(task[h])
      PROVE  AloneInv'
  <2>1. PICK t \in TaskStates : t = task[h]
    BY <1>0
  <2>2. PICK c \in Choices : /\ c = IF t.kind = "skip" THEN None ELSE t.hero
                             /\ c # None => c \in Available(t.log)
                             /\ CurrentTurn(t.log).kind = "pick" => c # None
    BY <1>6, <2>1 DEF Allowed, Choices, Available
  <2>3. Append(t.log, c) \in Logs
    BY <1>0, <1>6, <2>1, <2>2, AppendGood DEF Mutate, TaskOK
  <2>4. ~setting.overlap => t.log = chosen /\ status = "ACTIVE"
    BY <1>6, <2>1 DEF AloneInv, OnTop, Mutate
  <2>5. ~setting.overlap => OnTop(Advance(t, c))
    BY <2>3, <2>4, AdvanceOnTop
  <2>6. task' = [task EXCEPT ![h] = Advance(t, c)] /\ UNCHANGED <<status, chosen, setting>>
    BY <1>6, <2>1, <2>2 DEF Mutate, Go
  <2>7. task[h] # Idle
    BY <1>0, <1>6 DEF Mutate
  <2>. QED
    BY <1>0, <2>5, <2>6, <2>7, AloneStep
<1>7. ASSUME NEW h \in Handlers, Save(h)
      PROVE  AloneInv'
  <2>1. PICK k : task' = [task EXCEPT ![h] = k] /\ k.op \in {"idle", "arm"} /\ setting' = setting
    <3>1. [task[h] EXCEPT !.op = "arm"].op = "arm"
      BY <1>0 DEF TaskStates
    <3>. QED
      BY <1>0, <1>7, <3>1 DEF Save, Go, Finish
  <2>2. status' # "NONE"
    BY <1>0, <1>7 DEF Save, TaskStates
  <2>. QED
    BY <1>0, <1>7, <2>1, <2>2, AloneWrite DEF Save
<1>8. ASSUME NEW h \in Handlers, Fire(h)
      PROVE  AloneInv'
  <2>. DEFINE k == [Idle EXCEPT !.op = "timeout", !.turn = timer]
  <2>1. k.op = "timeout"
    BY DEF Idle
  <2>2. OnTop(k)
    BY <2>1 DEF OnTop
  <2>. QED
    BY <1>0, <1>8, <2>1, <2>2, AloneStep DEF Fire, Go
<1>9. ASSUME NEW h \in Handlers, ApplyTimeout(h)
      PROVE  AloneInv'
  <2>1. PICK t \in TaskStates : t = task[h]
    BY <1>0
  <2>2. PICK c \in Choices : /\ Go(h, Advance(t, c)) /\ (c # None => c \in Available(t.log))
                             /\ (CurrentTurn(t.log).kind = "pick" => c # None)
    <3>1. CASE CurrentTurn(t.log).kind = "ban"
      BY <1>9, <2>1, <3>1 DEF ApplyTimeout, Choices
    <3>2. CASE CurrentTurn(t.log).kind # "ban"
      BY <1>9, <2>1, <3>2 DEF ApplyTimeout, Choices, Available
    <3>. QED
      BY <3>1, <3>2
  <2>3. Append(t.log, c) \in Logs
    BY <1>0, <1>9, <2>1, <2>2, AppendGood DEF ApplyTimeout, TaskOK
  <2>4. ~setting.overlap => t.log = chosen /\ status = "ACTIVE"
    BY <1>9, <2>1 DEF AloneInv, OnTop, ApplyTimeout
  <2>5. ~setting.overlap => OnTop(Advance(t, c))
    BY <2>3, <2>4, AdvanceOnTop
  <2>6. task' = [task EXCEPT ![h] = Advance(t, c)] /\ UNCHANGED <<status, chosen, setting>>
    BY <1>9, <2>2 DEF ApplyTimeout, Go
  <2>7. task[h] # Idle
    BY <1>0, <1>9 DEF ApplyTimeout
  <2>. QED
    BY <1>0, <2>5, <2>6, <2>7, AloneStep
<1>10. ASSUME NEW h \in Handlers, CancelLoad(h)
       PROVE  AloneInv'
  <2>. DEFINE k == [Idle EXCEPT !.op = "cancel", !.log = chosen]
  <2>1. k.op = "cancel" /\ k.log = chosen
    BY DEF Idle
  <2>2. OnTop(k)
    BY <1>10, <2>1 DEF OnTop, CancelLoad
  <2>. QED
    BY <1>0, <1>10, <2>1, <2>2, AloneStep DEF CancelLoad, Go
<1>11. ASSUME NEW h \in Handlers, Cancel(h)
       PROVE  AloneInv'
  <2>. DEFINE k == ToSave(task[h], task[h].log, "CANCELLED", FALSE)
  <2>1. k.op = "save" /\ k.log = task[h].log
    BY <1>0, SaveFields
  <2>2. ~setting.overlap => OnTop(k)
    BY <1>11, <2>1 DEF AloneInv, OnTop, Cancel
  <2>3. task[h] # Idle
    BY <1>0, <1>11 DEF Cancel
  <2>. QED
    BY <1>0, <1>11, <2>1, <2>2, <2>3, AloneStep DEF Cancel, Go
<1>12. ASSUME NEW h \in Handlers, NEW side \in {1, 2}, ChangePage(h, side)
       PROVE  AloneInv'
  <2>. DEFINE k == ToSave(Idle, chosen, "ACTIVE", FALSE)
  <2>1. k.op = "save" /\ k.log = chosen
    BY ZenonT(40), <1>0, IdleOK, SaveFields
  <2>2. OnTop(k)
    BY <1>12, <2>1 DEF OnTop, ChangePage
  <2>. QED
    BY <1>0, <1>12, <2>1, <2>2, AloneStep DEF ChangePage, Go
<1>13. CASE Restart
  <2>1. \A h \in Handlers : task'[h] = Idle
    BY <1>13 DEF Restart
  <2>2. \A h \in Handlers : OnTop(task[h])'
    BY <1>0, <2>1 DEF OnTop
  <2>. QED
    BY <1>13, <2>1, <2>2 DEF Restart, AloneInv
<1>14. CASE UNCHANGED vars
  BY <1>14 DEF vars, AloneInv, OnTop
<1>15. ASSUME NEW h \in Handlers, NEW side \in {1, 2}, ClickSkip(h, side)
       PROVE  AloneInv'
  BY <1>3, <1>15 DEF ClickSkip, Choices
<1>16. ASSUME NEW h \in Handlers, NEW side \in {1, 2}, NEW hero \in Heroes,
              ClickSelect(h, side, hero)
       PROVE  AloneInv'
  <2>1. CurrentTurn(chosen).kind \in {"ban", "pick"}
    BY <1>0, <1>16, KindType DEF ClickSelect
  <2>. QED
    BY <1>3, <1>16, <2>1 DEF ClickSelect, Choices
<1>17. ASSUME NEW h \in Handlers, Load(h) \/ TimeoutLoad(h) \/ Refuse(h) \/ Arm(h) \/ TooEarly(h)
                                  \/ Fail(h) \/ Mutate(h)
       PROVE  AloneInv'
  BY <1>4, <1>5, <1>6, <1>17 DEF Load, TimeoutLoad, Refuse, Arm, TooEarly, Fail, Mutate
<1>. QED
  BY <1>1, <1>2, <1>7, <1>8, <1>9, <1>10, <1>11, <1>12, <1>13, <1>14, <1>15, <1>16, <1>17
  DEF Next, Continue

LEMMA AloneInvariant == Spec => []AloneInv
<1>1. Init => AloneInv
  BY IdleOnTop DEF Init, AloneInv
<1>. QED
  BY <1>1, NextAlone, DraftInvariant, PTL DEF Spec

(* A log and the log with one more turn begin alike.                       *)
LEMMA Begins ==
    ASSUME NEW log \in Logs, NEW c \in Choices
    PROVE  /\ SubSeq(log, 1, Len(log)) = log
           /\ SubSeq(Append(log, c), 1, Len(log)) = log
<1>1. log \in Seq(Choices) /\ Len(log) \in Nat
  BY DEF Logs
<1>. QED
  BY <1>1

LEMMA StepStands ==
    ASSUME Inv, AloneInv, [Next]_vars, ~setting.overlap
    PROVE  /\ SubSeq(chosen', 1, Len(chosen)) = chosen
           /\ status \in {"COMPLETE", "CANCELLED"} => UNCHANGED <<status, chosen>>
<1>0. chosen \in Logs /\ None \in Choices /\ SubSeq(chosen, 1, Len(chosen)) = chosen
  BY Begins DEF Inv, TypeOK, Choices
<1>1. ASSUME NEW h \in Handlers, Start(h)
      PROVE  SubSeq(chosen', 1, Len(chosen)) = chosen /\ status = "NONE"
  BY <1>0, <1>1 DEF Start, AloneInv
<1>2. ASSUME NEW h \in Handlers, Save(h)
      PROVE  SubSeq(chosen', 1, Len(chosen)) = chosen /\ status = "ACTIVE"
  <2>1. /\ status = "ACTIVE" /\ chosen' = task[h].log
        /\ chosen' = chosen \/ \E c \in Choices : chosen' = Append(chosen, c)
    BY <1>2 DEF Save, AloneInv, OnTop
  <2>. QED
    BY <1>0, <2>1, Begins
<1>3. (\E h \in Handlers : Start(h) \/ Save(h)) \/ UNCHANGED <<status, chosen>>
  BY DEF Next, Continue, vars, Post, Load, Refuse, Mutate, Arm, TimeoutLoad, TooEarly,
     ApplyTimeout, Cancel, Fire, CancelLoad, Fail, ClickSkip, ChangePage, ClickSelect, Restart
<1>. QED
  BY <1>0, <1>1, <1>2, <1>3

(* ChoicesStand: with handlers in turn, a recorded ban or pick stands, and *)
(* a draft that is over stays as it is, whatever is clicked, cancelled or  *)
(* timed out, and wherever the bot is restarted.                           *)
THEOREM ChosenStands == Spec => ChoicesStand
<1>1. Inv /\ AloneInv /\ [Next]_vars =>
        [Calm => /\ SubSeq(chosen', 1, Len(chosen)) = chosen
                 /\ status \in {"COMPLETE", "CANCELLED"} => UNCHANGED <<status, chosen>>]_vars
  BY StepStands DEF Calm
<1>. QED
  BY <1>1, DraftInvariant, AloneInvariant, PTL DEF Spec, ChoicesStand
=============================================================================

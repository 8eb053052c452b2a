------------------------ MODULE MatchLifecycleProofs ------------------------
(***************************************************************************)
(* Theorems about MatchLifecycle, for any matches, games, reports and      *)
(* number of overlapping handlers.                                         *)
(***************************************************************************)
EXTENDS MatchLifecycle, TLAPS

(* What a handler carries when it begins is of the right type.             *)
LEMMA TaskType ==
    ASSUME NEW op \in Ops, NEW m \in Matches \cup {None}
    PROVE  Task(op, m) \in TaskStates
BY DEF Idle, Task, TaskStates, Ops, Teams, Pcts

LEMMA TaskFieldType ==
    ASSUME NEW k \in TaskStates
    PROVE  /\ \A w \in Teams \cup {0} : [k EXCEPT !.w = w] \in TaskStates
           /\ \A p \in Pcts : [k EXCEPT !.p = p] \in TaskStates
           /\ \A x \in Reports \cup {None} : [k EXCEPT !.x = x] \in TaskStates
           /\ \A g \in GameIds \cup {None} : [k EXCEPT !.g = g] \in TaskStates
           /\ \A ms \in SUBSET Matches : [k EXCEPT !.ms = ms] \in TaskStates
           /\ \A op \in Ops : [k EXCEPT !.op = op] \in TaskStates
<1>1. \A w \in Teams \cup {0} : [k EXCEPT !.w = w] \in TaskStates
  BY DEF TaskStates
<1>2. \A p \in Pcts : [k EXCEPT !.p = p] \in TaskStates
  BY DEF TaskStates
<1>3. \A x \in Reports \cup {None} : [k EXCEPT !.x = x] \in TaskStates
  BY DEF TaskStates
<1>4. \A g \in GameIds \cup {None} : [k EXCEPT !.g = g] \in TaskStates
  BY DEF TaskStates
<1>5. \A ms \in SUBSET Matches : [k EXCEPT !.ms = ms] \in TaskStates
  BY DEF TaskStates
<1>6. \A op \in Ops : [k EXCEPT !.op = op] \in TaskStates
  BY DEF TaskStates
<1>. QED
  BY <1>1, <1>2, <1>3, <1>4, <1>5, <1>6

SlotsType == task \in [Tasks -> TaskStates] /\ setting \in Settings

USE DEF SlotsType

(* A step of the handler in slot t leaves the slots well typed, and the    *)
(* setting as it was chosen.                                               *)
LEMMA SlotType ==
    ASSUME TypeOK, NEW t \in Tasks
    PROVE  /\ \A k \in TaskStates : Begin(t, k) => SlotsType'
           /\ \A op \in Ops : Continue(t, op) => SlotsType'
           /\ Finish(t) => SlotsType'
<1>1. ASSUME NEW k \in TaskStates, Begin(t, k)
      PROVE  SlotsType'
  BY <1>1 DEF TypeOK, Begin
<1>2. ASSUME NEW op \in Ops, Continue(t, op)
      PROVE  SlotsType'
  <2>1. [task[t] EXCEPT !.op = op] \in TaskStates
    BY TaskFieldType DEF TypeOK
  <2>2. task' = [task EXCEPT ![t] = [task[t] EXCEPT !.op = op]] /\ setting' = setting
    BY <1>2 DEF Continue
  <2>. QED
    BY <2>1, <2>2 DEF TypeOK
<1>3. Finish(t) => SlotsType'
  <2>1. Idle \in TaskStates
    BY DEF Idle, TaskStates, Ops, Teams, Pcts
  <2>. QED
    BY <2>1 DEF TypeOK, Finish
<1>. QED
  BY <1>1, <1>2, <1>3

(* A handler that only reads leaves everything well typed.                 *)
LEMMA ReadType ==
    ASSUME TypeOK, NEW t \in Tasks, NEW k \in TaskStates,
           Begin(t, k), UNCHANGED matchVars
    PROVE  TypeOK'
<1>1. SlotsType'
  BY SlotType
<1>. QED
  BY <1>1 DEF TypeOK, matchVars

LEMMA LobbyType ==
    ASSUME TypeOK, NEW t \in Tasks, LobbyStep(t)
    PROVE  TypeOK'
<1>1. ASSUME NEW m \in Matches, NEW g \in GameIds \cup {None}, CreateRead(t, m, g)
      PROVE  TypeOK'
  <2>1. [Task("create", m) EXCEPT !.g = g] \in TaskStates
    BY TaskType, TaskFieldType DEF Ops
  <2>. QED
    BY <1>1, <2>1, ReadType DEF CreateRead
<1>2. ASSUME NEW full \in BOOLEAN, CreateWrite(t, full)
      PROVE  TypeOK'
  BY <1>2, SlotType DEF TypeOK, TaskStates, CreateWrite, CreatePending, Statuses
<1>3. ASSUME NEW full \in BOOLEAN, EditRosterWrite(t, full)
      PROVE  TypeOK'
  BY <1>3, SlotType DEF TypeOK, TaskStates, EditRosterWrite, ReplaceRoster, Teams
<1>4. ASSUME NEW m \in Matches, NEW g \in GameIds, LinkGameRead(t, m, g)
      PROVE  TypeOK'
  <2>1. [Task("linkGame", m) EXCEPT !.g = g] \in TaskStates
    BY TaskType, TaskFieldType DEF Ops
  <2>. QED
    BY <1>4, <2>1, ReadType DEF LinkGameRead
<1>5. ASSUME NEW m \in Matches, EditRosterRead(t, m) \/ StartRead(t, m) \/ CancelRead(t, m)
      PROVE  TypeOK'
  <2>1. \A op \in Ops : Task(op, m) \in TaskStates
    BY TaskType
  <2>. QED
    BY <1>5, <2>1, ReadType DEF EditRosterRead, StartRead, CancelRead, Ops
<1>6. ASSUME NEW ms \in SUBSET Matches, CancelStaleRead(t, ms)
      PROVE  TypeOK'
  <2>1. [Task("cancelStale", None) EXCEPT !.ms = ms] \in TaskStates
    BY TaskType, TaskFieldType DEF Ops
  <2>. QED
    BY <1>6, <2>1, ReadType DEF CancelStaleRead
<1>7. CASE LinkGameWrite(t)
  BY <1>7, SlotType DEF TypeOK, TaskStates, LinkGameWrite
<1>8. CASE StartWrite(t)
  BY <1>8, SlotType DEF TypeOK, StartWrite, Statuses
<1>9. CASE CancelWrite(t)
  BY <1>9, SlotType DEF TypeOK, CancelWrite, Statuses
<1>10. CASE CancelStaleWrite(t)
  BY <1>10, SlotType DEF TypeOK, CancelStaleWrite, Statuses
<1>. setting.games \subseteq GameIds
  BY MatchAssumption DEF TypeOK
<1>. QED
  BY <1>1, <1>2, <1>3, <1>4, <1>5, <1>6, <1>7, <1>8, <1>9, <1>10 DEF LobbyStep

LEMMA PersistType ==
    ASSUME TypeOK, NEW m \in Matches \cup {None}, NEW x \in Reports \cup {None},
           PersistReport(m, x), SlotsType'
    PROVE  TypeOK'
BY DEF TypeOK, PersistReport, WithoutId

LEMMA ReportType ==
    ASSUME TypeOK, NEW t \in Tasks, ReportStep(t)
    PROVE  TypeOK'
<1>0. task[t] \in TaskStates /\ task[t].m \in Matches \cup {None}
         /\ task[t].x \in Reports \cup {None}
  BY DEF TypeOK, TaskStates
<1>1. ASSUME NEW m \in Matches, NEW x \in Reports,
             UploadRead(t, m, x) \/ FillCreateRead(t, m, x) \/ FillRosterRead(t, m, x)
      PROVE  TypeOK'
  <2>1. \A op \in Ops : [Task(op, m) EXCEPT !.x = x] \in TaskStates
    BY TaskType, TaskFieldType
  <2>. QED
    BY <1>1, <2>1, ReadType DEF UploadRead, FillCreateRead, FillRosterRead, Ops
<1>2. ASSUME NEW m \in Matches, NEW x \in Reports, IngestRead(t, m, x)
      PROVE  TypeOK'
  <2>1. [Task("ingestCreate", m) EXCEPT !.x = x] \in TaskStates
    BY TaskType, TaskFieldType DEF Ops
  <2>2. SlotsType'
    BY <1>2, <2>1, SlotType DEF IngestRead
  <2>. QED
    BY <1>2, <2>2 DEF TypeOK, IngestRead, WithoutId
<1>3. ASSUME NEW w \in Teams \cup {0}, IngestCreate(t, w)
      PROVE  TypeOK'
  <2>1. SlotsType'
    BY <1>3, SlotType DEF IngestCreate, Ops
  <2>. QED
    BY <1>3, <2>1 DEF TypeOK, IngestCreate, Statuses
<1>4. CASE UploadWrite(t)
  BY <1>0, <1>4, SlotType, PersistType DEF UploadWrite
<1>5. CASE UploadRefused(t)
  BY <1>5, SlotType DEF TypeOK, UploadRefused, matchVars
<1>6. CASE FillCreateWrite(t)
  <2>1. SlotsType'
    BY <1>6, SlotType DEF FillCreateWrite, Ops
  <2>. QED
    BY <1>6, <2>1 DEF TypeOK, FillCreateWrite, CreatePending, Statuses
<1>7. CASE FillRosterWrite(t)
  <2>1. SlotsType'
    BY <1>7, SlotType DEF FillRosterWrite, Ops
  <2>. QED
    BY <1>7, <2>1 DEF TypeOK, FillRosterWrite, ReplaceRoster
<1>8. CASE IngestPersist(t)
  BY <1>0, <1>8, SlotType, PersistType DEF IngestPersist
<1>9. CASE IngestUndo(t)
  BY <1>9, SlotType DEF TypeOK, IngestUndo, Statuses
<1>. QED
  BY <1>1, <1>2, <1>3, <1>4, <1>5, <1>6, <1>7, <1>8, <1>9 DEF ReportStep

LEMMA EffectType ==
    ASSUME NEW w \in Teams \cup {0}, NEW p \in Pcts
    PROVE  /\ Applied(w, p) \in Effects
           /\ \A e \in Effects : AppliedAgain(w, p, e) \in Effects
           /\ NoEffect \in Effects
           /\ Restored \in Effects
BY DEF Applied, AppliedAgain, NoEffect, Restored, Effects, Teams, Pcts

LEMMA CompleteType ==
    ASSUME TypeOK, NEW m \in Matches \cup {None}, NEW w \in Teams \cup {0},
           NEW p \in Pcts, CompleteMatch(m, w, p), SlotsType'
    PROVE  TypeOK'
<1>1. effect' \in [Matches -> Effects]
  <2>1. CASE m \in Matches
    BY <2>1, EffectType DEF TypeOK, CompleteMatch
  <2>2. CASE m \notin Matches
    BY <2>2, MatchAssumption DEF TypeOK, CompleteMatch
  <2>. QED
    BY <2>1, <2>2
<1>. QED
  BY ZenonT(40), <1>1 DEF TypeOK, CompleteMatch, Statuses

LEMMA FlipType ==
    ASSUME TypeOK, NEW m \in Matches \cup {None}, NEW w \in Teams \cup {0},
           FlipMatch(m, w), SlotsType'
    PROVE  TypeOK'
<1>1. effect' \in [Matches -> Effects]
  <2>1. CASE m \in Matches
    <3>1. Applied(w, percent[m]) \in Effects
      BY <2>1, EffectType DEF TypeOK
    <3>. QED
      BY <3>1 DEF TypeOK, FlipMatch
  <2>2. CASE m \notin Matches
    BY <2>2, MatchAssumption DEF TypeOK, FlipMatch
  <2>. QED
    BY <2>1, <2>2
<1>. QED
  BY <1>1 DEF TypeOK, FlipMatch

LEMMA ResultType ==
    ASSUME TypeOK, NEW t \in Tasks, ResultStep(t)
    PROVE  TypeOK'
<1>0. /\ task[t].m \in Matches \cup {None}
      /\ task[t].w \in Teams \cup {0}
      /\ task[t].p \in Pcts
  BY DEF TypeOK, TaskStates
<1>1. ASSUME NEW m \in Matches, NEW w \in Teams, SetApprovalWinnerRead(t, m, w)
      PROVE  TypeOK'
  <2>1. [Task("setWinner", m) EXCEPT !.w = w] \in TaskStates
    BY TaskType, TaskFieldType DEF Ops
  <2>. QED
    BY <1>1, <2>1, ReadType DEF SetApprovalWinnerRead
<1>2. ASSUME NEW m \in Matches, ApproveWaitingRead(t, m)
      PROVE  TypeOK'
  <2>1. [Task("complete", m) EXCEPT !.w = approval[m]] \in TaskStates
    BY TaskType, TaskFieldType DEF Ops, TypeOK
  <2>. QED
    BY <1>2, <2>1, ReadType DEF ApproveWaitingRead
<1>3. ASSUME NEW m \in Matches, ApproveMitigationRead(t, m)
      PROVE  TypeOK'
  <2>1. [Task("complete", m) EXCEPT !.w = approval[m], !.p = percent[m]] \in TaskStates
    BY TaskType, TaskFieldType DEF Ops, TypeOK
  <2>. QED
    BY <1>3, <2>1, ReadType DEF ApproveMitigationRead
<1>4. ASSUME NEW m \in Matches, UnquitRead(t, m)
      PROVE  TypeOK'
  <2>1. [Task("unquit", m) EXCEPT !.w = IF result[m] = 2 THEN 2 ELSE 1] \in TaskStates
    BY TaskType, TaskFieldType DEF Ops, Teams
  <2>. QED
    BY <1>4, <2>1, ReadType DEF UnquitRead
<1>5. ASSUME NEW m \in Matches, NEW w \in Teams, NEW p \in Percents,
             RequestMitigationRead(t, m, w, p)
      PROVE  TypeOK'
  <2>1. [Task("requestMitigation", m) EXCEPT !.w = w, !.p = p] \in TaskStates
    BY TaskType, TaskFieldType DEF Ops, Pcts
  <2>. QED
    BY <1>5, <2>1, ReadType DEF RequestMitigationRead
<1>6. ASSUME NEW m \in Matches, NEW p \in Pcts, SetPercentRead(t, m, p)
      PROVE  TypeOK'
  <2>1. [Task("setPercent", m) EXCEPT !.p = p] \in TaskStates
    BY TaskType, TaskFieldType DEF Ops
  <2>. QED
    BY <1>6, <2>1, ReadType DEF SetPercentRead
<1>7. CASE SetApprovalWinnerWrite(t)
  BY <1>0, <1>7, SlotType DEF TypeOK, SetApprovalWinnerWrite
<1>8. CASE SetApprovalWinnerRefused(t) \/ ApproveRefused(t) \/ UnquitRefused(t)
  BY <1>8, SlotType
     DEF TypeOK, SetApprovalWinnerRefused, ApproveRefused, UnquitRefused, matchVars
<1>9. CASE ApproveWrite(t)
  BY <1>0, <1>9, SlotType, CompleteType DEF ApproveWrite
<1>10. CASE RequestMitigationWrite(t)
  <2>1. SlotsType'
    BY <1>10, SlotType DEF RequestMitigationWrite, Ops
  <2>. QED
    BY <1>0, <1>10, <2>1 DEF TypeOK, RequestMitigationWrite, Statuses
<1>11. CASE RequestMitigationNotify(t)
  BY <1>11, SlotType DEF TypeOK, RequestMitigationNotify
<1>12. CASE SetPercentWrite(t)
  BY <1>0, <1>12, SlotType DEF TypeOK, SetPercentWrite
<1>13. CASE UnquitWrite(t)
  BY <1>0, <1>13, SlotType, FlipType DEF UnquitWrite
<1>. QED
  BY <1>1, <1>2, <1>3, <1>4, <1>5, <1>6, <1>7, <1>8, <1>9, <1>10, <1>11, <1>12, <1>13
     DEF ResultStep

LEMMA LockedType ==
    ASSUME TypeOK, NEW m \in Matches, LockedStep(m)
    PROVE  TypeOK'
<1>1. ASSUME NEW w \in Teams, NEW p \in Pcts, ReportResult(m, w, p)
      PROVE  TypeOK'
  BY <1>1, CompleteType DEF ReportResult, TypeOK
<1>2. ASSUME NEW w \in Teams, Flip(m, w)
      PROVE  TypeOK'
  BY <1>2, FlipType DEF Flip, TypeOK
<1>3. CASE RejectWaiting(m) \/ CancelInProgress(m)
  BY <1>3 DEF TypeOK, RejectWaiting, CancelInProgress, Statuses
<1>4. CASE RejectMitigation(m)
  BY <1>4 DEF TypeOK, RejectMitigation, Statuses, Pcts
<1>5. CASE Void(m)
  <2>1. Restored \in Effects
    BY DEF Restored, Effects, Pcts
  <2>. QED
    BY <1>5, <2>1 DEF TypeOK, Void, Statuses
<1>. QED
  BY <1>1, <1>2, <1>3, <1>4, <1>5 DEF LockedStep

LEMMA InitType == Init => TypeOK
<1>1. Init => task \in [Tasks -> TaskStates]
  BY DEF Init, Idle, TaskStates, Ops, Teams, Pcts
<1>2. Init => effect \in [Matches -> Effects]
  BY DEF Init, NoEffect, Effects, Pcts
<1>. QED
  BY <1>1, <1>2 DEF Init, TypeOK, Statuses, Pcts

LEMMA NextType == TypeOK /\ [Next]_vars => TypeOK'
<1>. SUFFICES ASSUME TypeOK, [Next]_vars
              PROVE  TypeOK'
  OBVIOUS
<1>1. ASSUME NEW t \in Tasks, HandlerDies(t)
      PROVE  TypeOK'
  BY <1>1, SlotType DEF TypeOK, HandlerDies, matchVars
<1>2. CASE UNCHANGED vars
  BY <1>2 DEF TypeOK, vars, matchVars
<1>. QED
  BY <1>1, <1>2, LobbyType, ReportType, ResultType, LockedType DEF Next

(* Every variable keeps its type, whatever handlers overlap or die.        *)
THEOREM TypeCorrect == Spec => []TypeOK
<1>. QED
  BY InitType, NextType, PTL DEF Spec

-----------------------------------------------------------------------------
(* The ratings.                                                            *)

(* Only three operations touch the ratings; every other step leaves them   *)
(* alone and completes nothing.                                            *)
LeavesRatings ==
    /\ UNCHANGED <<snaps, effect>>
    /\ \A m \in Rated : status'[m] = "COMPLETED" => status[m] = "COMPLETED"

Outcome == \E m \in Matches \cup {None}, w \in Teams \cup {0}, p \in Pcts :
             CompleteMatch(m, w, p) \/ FlipMatch(m, w)

(* A step that puts a match into any state but COMPLETED, or none.         *)
LEMMA Uncompleting ==
    ASSUME TypeOK, UNCHANGED <<snaps, effect>>,
           \/ UNCHANGED status
           \/ \E m, s : s # "COMPLETED" /\ status' = [status EXCEPT ![m] = s]
    PROVE  LeavesRatings
<1>1. Rated \subseteq Matches
  BY MatchAssumption
<1>. QED
  BY <1>1 DEF LeavesRatings, TypeOK

LEMMA StepKinds ==
    ASSUME TypeOK, [Next]_vars
    PROVE  LeavesRatings \/ Outcome \/ \E m \in Matches : Void(m)
<1>0. ASSUME UNCHANGED matchVars
      PROVE  LeavesRatings
  BY <1>0, Uncompleting DEF matchVars
<1>1. ASSUME NEW t \in Tasks, LobbyStep(t)
      PROVE  LeavesRatings
  <2>1. CASE CancelStaleWrite(t)
    BY <2>1, MatchAssumption DEF CancelStaleWrite, LeavesRatings, TypeOK
  <2>2. ASSUME NEW full \in BOOLEAN, CreateWrite(t, full)
        PROVE  LeavesRatings
    BY <2>2, Uncompleting DEF CreateWrite, CreatePending
  <2>3. ASSUME NEW full \in BOOLEAN, EditRosterWrite(t, full)
        PROVE  LeavesRatings
    BY <2>3, Uncompleting DEF EditRosterWrite, ReplaceRoster
  <2>4. CASE LinkGameWrite(t)
    BY <2>4, Uncompleting DEF LinkGameWrite
  <2>5. CASE StartWrite(t)
    BY <2>5, Uncompleting DEF StartWrite
  <2>6. CASE CancelWrite(t)
    BY <2>6, Uncompleting DEF CancelWrite
  <2>. QED
    BY <1>0, <1>1, <2>1, <2>2, <2>3, <2>4, <2>5, <2>6
       DEF LobbyStep, CreateRead, EditRosterRead, LinkGameRead, StartRead,
           CancelRead, CancelStaleRead
<1>2. ASSUME NEW t \in Tasks, ReportStep(t)
      PROVE  LeavesRatings
  <2>1. ASSUME NEW m \in Matches, NEW x \in Reports, IngestRead(t, m, x)
        PROVE  LeavesRatings
    BY <2>1, Uncompleting DEF IngestRead
  <2>2. ASSUME NEW w \in Teams \cup {0}, IngestCreate(t, w)
        PROVE  LeavesRatings
    BY <2>2, Uncompleting DEF IngestCreate
  <2>3. CASE UploadWrite(t) \/ IngestPersist(t)
    BY <2>3, Uncompleting DEF UploadWrite, IngestPersist, PersistReport
  <2>4. CASE FillCreateWrite(t)
    BY <2>4, Uncompleting DEF FillCreateWrite, CreatePending
  <2>5. CASE FillRosterWrite(t)
    BY <2>5, Uncompleting DEF FillRosterWrite, ReplaceRoster
  <2>6. CASE IngestUndo(t)
    BY <2>6, Uncompleting DEF IngestUndo
  <2>. QED
    BY <1>0, <1>2, <2>1, <2>2, <2>3, <2>4, <2>5, <2>6
       DEF ReportStep, UploadRead, FillCreateRead, FillRosterRead, UploadRefused
<1>3. ASSUME NEW t \in Tasks, ResultStep(t)
      PROVE  LeavesRatings \/ Outcome
  <2>1. CASE ApproveWrite(t) \/ UnquitWrite(t)
    BY <2>1 DEF ApproveWrite, UnquitWrite, Outcome, TypeOK, TaskStates
  <2>2. CASE SetApprovalWinnerWrite(t)
    BY <2>2, Uncompleting DEF SetApprovalWinnerWrite
  <2>3. CASE RequestMitigationWrite(t)
    BY <2>3, Uncompleting DEF RequestMitigationWrite
  <2>4. CASE RequestMitigationNotify(t)
    BY <2>4, Uncompleting DEF RequestMitigationNotify
  <2>5. CASE SetPercentWrite(t)
    BY <2>5, Uncompleting DEF SetPercentWrite
  <2>. QED
    BY <1>0, <1>3, <2>1, <2>2, <2>3, <2>4, <2>5
       DEF ResultStep, SetApprovalWinnerRead, ApproveWaitingRead,
           ApproveMitigationRead, UnquitRead, RequestMitigationRead,
           SetPercentRead, SetApprovalWinnerRefused, ApproveRefused, UnquitRefused
<1>4. ASSUME NEW m \in Matches, LockedStep(m)
      PROVE  LeavesRatings \/ Outcome \/ Void(m)
  <2>1. ASSUME NEW w \in Teams, Flip(m, w) \/ \E p \in Pcts : ReportResult(m, w, p)
        PROVE  Outcome
    BY <2>1 DEF Flip, ReportResult, Outcome, Pcts
  <2>2. CASE RejectWaiting(m) \/ CancelInProgress(m) \/ RejectMitigation(m)
    BY <2>2, Uncompleting DEF RejectWaiting, CancelInProgress, RejectMitigation
  <2>. QED
    BY <1>4, <2>1, <2>2 DEF LockedStep
<1>5. ASSUME NEW t \in Tasks, HandlerDies(t)
      PROVE  LeavesRatings
  BY <1>0, <1>5 DEF HandlerDies
<1>6. CASE UNCHANGED vars
  BY <1>0, <1>6 DEF vars
<1>. QED
  BY <1>1, <1>2, <1>3, <1>4, <1>5, <1>6 DEF Next

(* The inductive invariant.  RatedWhenCompleted alone is not inductive: a  *)
(* completed match may be flipped, so its effect must be one that a flip   *)
(* replaces; and a match put back into play must be recognisable as rated, *)
(* which is what its snapshots are for.                                    *)
RatingInv ==
    /\ TypeOK
    /\ SnapshotBacked
    /\ RatedWhenCompleted
    /\ \A m \in Rated : /\ effect[m].kind = "none" => effect[m] = NoEffect
                        /\ effect[m].kind = "applied" => effect[m].times = 1

LEMMA RatingInit == Init => RatingInv
BY InitType, MatchAssumption
   DEF Init, RatingInv, SnapshotBacked, RatedWhenCompleted, NoEffect

LEMMA RatingStep == RatingInv /\ [Next]_vars => RatingInv'
<1>. SUFFICES ASSUME RatingInv, [Next]_vars
              PROVE  RatingInv'
  OBVIOUS
<1>0. TypeOK /\ TypeOK' /\ Rated \subseteq Matches
  BY NextType, MatchAssumption DEF RatingInv
<1>1. CASE LeavesRatings
  BY <1>0, <1>1 DEF RatingInv, LeavesRatings, SnapshotBacked, RatedWhenCompleted
<1>2. ASSUME NEW m \in Matches \cup {None}, NEW w \in Teams \cup {0}, NEW p \in Pcts,
             CompleteMatch(m, w, p)
      PROVE  RatingInv'
  <2>1. CASE m \in Rated
    <3>1. effect'[m] = AppliedAgain(w, p, NoEffect) /\ snaps'[m]
      BY <1>0, <1>2, <2>1 DEF RatingInv, SnapshotBacked, CompleteMatch, TypeOK
    <3>2. effect'[m].kind = "applied" /\ effect'[m].times = 1
      BY <3>1 DEF AppliedAgain, Applied, NoEffect
    <3>3. \A n \in Rated \ {m} : effect'[n] = effect[n] /\ snaps'[n] = snaps[n]
                                  /\ status'[n] = status[n]
      BY <1>0, <1>2, <2>1 DEF CompleteMatch, TypeOK
    <3>. QED
      BY <1>0, <3>1, <3>2, <3>3 DEF RatingInv, SnapshotBacked, RatedWhenCompleted
  <2>2. CASE m \notin Rated
    BY <1>0, <1>2, <2>2
       DEF RatingInv, SnapshotBacked, RatedWhenCompleted, CompleteMatch, TypeOK
  <2>. QED
    BY <2>1, <2>2
<1>3. ASSUME NEW m \in Matches \cup {None}, NEW w \in Teams \cup {0}, FlipMatch(m, w)
      PROVE  RatingInv'
  <2>1. CASE m \in Rated
    <3>1. effect'[m] = Applied(w, percent[m])
      BY <1>0, <1>3, <2>1 DEF FlipMatch, TypeOK
    <3>2. effect'[m].kind = "applied" /\ effect'[m].times = 1
      BY <3>1 DEF Applied
    <3>3. /\ \A n \in Rated \ {m} : effect'[n] = effect[n]
          /\ snaps' = snaps /\ status' = status /\ snaps[m]
      BY <1>0, <1>3, <2>1 DEF FlipMatch, TypeOK
    <3>. QED
      BY <1>0, <3>2, <3>3 DEF RatingInv, SnapshotBacked, RatedWhenCompleted
  <2>2. CASE m \notin Rated
    BY <1>0, <1>3, <2>2
       DEF RatingInv, SnapshotBacked, RatedWhenCompleted, FlipMatch, TypeOK
  <2>. QED
    BY <2>1, <2>2
<1>4. ASSUME NEW m \in Matches, Void(m)
      PROVE  RatingInv'
  BY <1>0, <1>4
     DEF RatingInv, SnapshotBacked, RatedWhenCompleted, Void, TypeOK, Restored
<1>. QED
  BY <1>0, <1>1, <1>2, <1>3, <1>4, StepKinds DEF Outcome

LEMMA RatingInvariant == Spec => []RatingInv
BY RatingInit, RatingStep, PTL DEF Spec

(* No completed league match is missing from the ratings.                  *)
THEOREM CompletedIsRated == Spec => []RatedWhenCompleted
<1>1. RatingInv => RatedWhenCompleted
  BY DEF RatingInv
<1>. QED
  BY <1>1, RatingInvariant, PTL

(* Snapshots exist exactly for the matches that were ever rated.           *)
THEOREM RatedHasSnapshots == Spec => []SnapshotBacked
<1>1. RatingInv => SnapshotBacked
  BY DEF RatingInv
<1>. QED
  BY <1>1, RatingInvariant, PTL

(* The ratings and the match agree, whatever handlers overlap or die.      *)
THEOREM RatingsAreBacked == Spec => []RatingsBacked
<1>. QED
  BY CompletedIsRated, RatedHasSnapshots, PTL DEF RatingsBacked

-----------------------------------------------------------------------------
(* Refinement.  Each step of the handlers is a step of RatingEffect, or    *)
(* leaves the ratings alone.                                               *)

LEMMA AppliedOutcome ==
    ASSUME NEW w \in Teams \cup {0}, NEW p \in Pcts
    PROVE  Applied(w, p) \in EffectSpec!Outcomes
BY DEF Applied, EffectSpec!Outcomes, Teams, Pcts

LEMMA EffectInit == Init => EffectSpec!Init
BY DEF Init, NoEffect, EffectSpec!Init, EffectSpec!Untouched

LEMMA EffectStep == RatingInv /\ [Next]_vars => [EffectSpec!Next]_effect
<1>. SUFFICES ASSUME RatingInv, [Next]_vars
              PROVE  [EffectSpec!Next]_effect
  OBVIOUS
<1>0. TypeOK /\ Rated \subseteq Matches
  BY MatchAssumption DEF RatingInv
<1>1. CASE LeavesRatings
  BY <1>1 DEF LeavesRatings
<1>2. ASSUME NEW m \in Matches \cup {None}, NEW w \in Teams \cup {0}, NEW p \in Pcts,
             CompleteMatch(m, w, p)
      PROVE  [EffectSpec!Next]_effect
  <2>1. CASE m \in Rated
    <3>1. effect[m] = NoEffect
      BY <1>0, <1>2, <2>1 DEF RatingInv, SnapshotBacked, CompleteMatch, TypeOK, Effects
    <3>2. AppliedAgain(w, p, effect[m]) = Applied(w, p)
      BY <3>1 DEF AppliedAgain, Applied, NoEffect
    <3>3. effect' = [effect EXCEPT ![m] = Applied(w, p)]
      BY <1>2, <2>1, <3>2 DEF CompleteMatch
    <3>4. EffectSpec!Rate(m)
      BY <3>1, <3>3, AppliedOutcome DEF EffectSpec!Rate, EffectSpec!Untouched, NoEffect
    <3>. QED
      BY <2>1, <3>4 DEF EffectSpec!Next
  <2>2. CASE m \notin Rated
    BY <1>2, <2>2 DEF CompleteMatch
  <2>. QED
    BY <2>1, <2>2
<1>3. ASSUME NEW m \in Matches \cup {None}, NEW w \in Teams \cup {0}, FlipMatch(m, w)
      PROVE  [EffectSpec!Next]_effect
  <2>1. CASE m \in Rated
    <3>1. effect[m].kind = "applied"
      BY <1>3, <2>1 DEF RatingInv, RatedWhenCompleted, FlipMatch
    <3>2. Applied(w, percent[m]) \in EffectSpec!Outcomes
      BY <1>0, <2>1, AppliedOutcome DEF TypeOK
    <3>3. EffectSpec!Correct(m)
      BY <1>3, <2>1, <3>1, <3>2 DEF FlipMatch, EffectSpec!Correct
    <3>. QED
      BY <2>1, <3>3 DEF EffectSpec!Next
  <2>2. CASE m \notin Rated
    BY <1>3, <2>2 DEF FlipMatch
  <2>. QED
    BY <2>1, <2>2
<1>4. ASSUME NEW m \in Matches, Void(m)
      PROVE  [EffectSpec!Next]_effect
  <2>1. CASE m \in Rated
    <3>1. effect[m].kind = "applied"
      BY <1>4, <2>1 DEF RatingInv, RatedWhenCompleted, Void
    <3>2. EffectSpec!Void(m)
      BY <1>4, <2>1, <3>1 DEF Void, Restored, EffectSpec!Void, EffectSpec!TakenBack
    <3>. QED
      BY <2>1, <3>2 DEF EffectSpec!Next
  <2>2. CASE m \notin Rated
    BY <1>4, <2>2 DEF Void
  <2>. QED
    BY <2>1, <2>2
<1>. QED
  BY <1>0, <1>1, <1>2, <1>3, <1>4, StepKinds DEF Outcome

(* The ratings see every match at most once, as RatingEffect says.         *)
THEOREM RatedAtMostOnce == Spec => RatedOnce
<1>. QED
  BY EffectInit, EffectStep, RatingInvariant, PTL DEF Spec, RatedOnce, EffectSpec!Spec

-----------------------------------------------------------------------------
(* Orphans.  A match that waits for approval was ingested, never opened as *)
(* a lobby, so the operations that take a report away from a lobby do not  *)
(* meet it: what the handlers carry is a lobby or an ingested match        *)
(* accordingly, and an id to be stored is one.                             *)
Opened(k) ==
    /\ k.op \in {"create", "fillCreate", "cancel"} => k.m \in Lobbies
    /\ k.op = "cancelStale" => k.ms \subseteq Lobbies
    /\ k.op = "ingestCreate" => k.m \notin Lobbies
    /\ k.op \in {"upload", "fillCreate", "fillRoster", "ingestCreate", "ingestPersist"}
          => k.x \in Reports

Apart ==
    /\ \A t \in Tasks : Opened(task[t])
    /\ \A m \in Matches : /\ status[m] = "PENDING" => m \in Lobbies
                          /\ status[m] = "WAITING_FOR_APPROVAL" => m \notin Lobbies

OrphanInv == TypeOK /\ Apart /\ NoOrphanWaiting

(* What every step but an ingest does to the rows.                         *)
NothingIngested ==
    \A m \in Matches :
        /\ status'[m] = "PENDING" => status[m] = "PENDING" \/ m \in Lobbies
        /\ status'[m] = "WAITING_FOR_APPROVAL" =>
              /\ status[m] = "WAITING_FOR_APPROVAL"
              /\ report[m] # None => report'[m] # None

LEMMA IdleOpened == Idle \in TaskStates /\ Opened(Idle) /\ Idle.op # "ingestPersist"
BY DEF Idle, Opened, TaskStates, Ops, Teams, Pcts

LEMMA OrdinarySlot ==
    ASSUME OrphanInv, NothingIngested, TypeOK', NEW t \in Tasks, NEW new \in TaskStates,
           Opened(new), task[t].op = "ingestPersist" => setting.failures,
           task' = [task EXCEPT ![t] = new], setting' = setting
    PROVE  OrphanInv'
<1>1. Apart'
  BY DEF OrphanInv, Apart, Opened, NothingIngested, TypeOK
<1>2. NoOrphanWaiting'
  BY DEF OrphanInv, NoOrphanWaiting, NothingIngested, TypeOK
<1>. QED
  BY <1>1, <1>2 DEF OrphanInv

LEMMA OrdinaryLocked ==
    ASSUME OrphanInv, NothingIngested, TypeOK', UNCHANGED <<task, setting>>
    PROVE  OrphanInv'
<1>1. Apart'
  BY DEF OrphanInv, Apart, Opened, NothingIngested
<1>2. NoOrphanWaiting'
  BY DEF OrphanInv, NoOrphanWaiting, NothingIngested
<1>. QED
  BY <1>1, <1>2 DEF OrphanInv

(* A handler that only begins, and one that only ends.                     *)
LEMMA BeginsOpened ==
    ASSUME OrphanInv, TypeOK', NEW t \in Tasks, NEW new \in TaskStates, Opened(new),
           Begin(t, new), NothingIngested
    PROVE  OrphanInv'
<1>1. task[t].op # "ingestPersist"
  BY IdleOpened DEF Begin
<1>. QED
  BY <1>1, OrdinarySlot DEF Begin

LEMMA EndsOpened ==
    ASSUME OrphanInv, TypeOK', NEW t \in Tasks, Finish(t), NothingIngested,
           task[t].op = "ingestPersist" => setting.failures
    PROVE  OrphanInv'
BY OrdinarySlot, IdleOpened DEF Finish

LEMMA NothingHappens == UNCHANGED matchVars => NothingIngested
BY DEF matchVars, NothingIngested

LEMMA OrphanLobby ==
    ASSUME OrphanInv, TypeOK', NEW t \in Tasks, LobbyStep(t)
    PROVE  OrphanInv'
<1>0. /\ TypeOK /\ Opened(task[t]) /\ task[t] \in TaskStates
      /\ \A m \in Matches : status[m] = "PENDING" => m \in Lobbies
  BY DEF OrphanInv, Apart, TypeOK
<1>1. ASSUME NEW m \in Matches, NEW g \in GameIds \cup {None}, CreateRead(t, m, g)
      PROVE  OrphanInv'
  <2>. DEFINE new == [Task("create", m) EXCEPT !.g = g]
  <2>1. new \in TaskStates /\ Opened(new)
    BY <1>1, TaskType, TaskFieldType DEF Ops, Opened, Task, Idle, CreateRead
  <2>. QED
    BY <1>1, <2>1, BeginsOpened, NothingHappens DEF CreateRead
<1>2. ASSUME NEW full \in BOOLEAN, CreateWrite(t, full)
      PROVE  OrphanInv'
  <2>1. NothingIngested
    BY <1>0, <1>2 DEF CreateWrite, CreatePending, NothingIngested, Opened, TypeOK
  <2>. QED
    BY <1>2, <2>1, EndsOpened DEF CreateWrite
<1>3. ASSUME NEW full \in BOOLEAN, EditRosterWrite(t, full)
      PROVE  OrphanInv'
  <2>1. NothingIngested
    BY <1>3 DEF EditRosterWrite, ReplaceRoster, NothingIngested
  <2>. QED
    BY <1>3, <2>1, EndsOpened DEF EditRosterWrite
<1>4. ASSUME NEW m \in Matches, NEW g \in GameIds, LinkGameRead(t, m, g)
      PROVE  OrphanInv'
  <2>. DEFINE new == [Task("linkGame", m) EXCEPT !.g = g]
  <2>1. new \in TaskStates /\ Opened(new)
    BY <1>4, TaskType, TaskFieldType DEF Ops, Opened, Task, Idle
  <2>. QED
    BY <1>4, <2>1, BeginsOpened, NothingHappens DEF LinkGameRead
<1>5. ASSUME NEW m \in Matches, EditRosterRead(t, m) \/ StartRead(t, m) \/ CancelRead(t, m)
      PROVE  OrphanInv'
  <2>1. \A op \in {"editRoster", "start", "cancel"} :
           Task(op, m) \in TaskStates /\ Opened(Task(op, m))
    <3>1. m \in Lobbies
      BY <1>0, <1>5 DEF EditRosterRead, StartRead, CancelRead
    <3>. QED
      BY <3>1, TaskType DEF Ops, Opened, Task, Idle
  <2>. QED
    BY <1>5, <2>1, BeginsOpened, NothingHappens DEF EditRosterRead, StartRead, CancelRead
<1>6. ASSUME NEW ms \in SUBSET Matches, CancelStaleRead(t, ms)
      PROVE  OrphanInv'
  <2>. DEFINE new == [Task("cancelStale", None) EXCEPT !.ms = ms]
  <2>1. new \in TaskStates /\ Opened(new)
    <3>1. ms \subseteq Lobbies
      BY <1>0, <1>6 DEF CancelStaleRead
    <3>. QED
      BY <3>1, TaskType, TaskFieldType DEF Ops, Opened, Task, Idle
  <2>. QED
    BY <1>6, <2>1, BeginsOpened, NothingHappens DEF CancelStaleRead
<1>7. CASE LinkGameWrite(t)
  <2>1. NothingIngested
    BY <1>7 DEF LinkGameWrite, NothingIngested
  <2>. QED
    BY <1>7, <2>1, EndsOpened DEF LinkGameWrite
<1>8. CASE StartWrite(t)
  <2>1. NothingIngested
    BY <1>0, <1>8 DEF StartWrite, NothingIngested, TypeOK
  <2>. QED
    BY <1>8, <2>1, EndsOpened DEF StartWrite
<1>9. CASE CancelWrite(t)
  <2>1. NothingIngested
    BY <1>0, <1>9 DEF CancelWrite, NothingIngested, TypeOK
  <2>. QED
    BY <1>9, <2>1, EndsOpened DEF CancelWrite
<1>10. CASE CancelStaleWrite(t)
  <2>1. \A m \in task[t].ms : status[m] # "WAITING_FOR_APPROVAL"
    BY <1>0, <1>10 DEF CancelStaleWrite, Opened, OrphanInv, Apart, TypeOK, TaskStates
  <2>2. NothingIngested
    BY <1>0, <1>10, <2>1 DEF CancelStaleWrite, NothingIngested, TypeOK
  <2>. QED
    BY <1>10, <2>2, EndsOpened DEF CancelStaleWrite
<1>. setting.games \subseteq GameIds
  BY <1>0, MatchAssumption DEF TypeOK
<1>. QED
  BY <1>1, <1>2, <1>3, <1>4, <1>5, <1>6, <1>7, <1>8, <1>9, <1>10 DEF LobbyStep

(* Storing a report takes its id from cancelled matches only.              *)
LEMMA PersistKeeps ==
    ASSUME TypeOK, NEW m \in Matches \cup {None}, NEW x \in Reports, PersistReport(m, x)
    PROVE  NothingIngested /\ (m \in Matches => report'[m] # None)
<1>1. None \notin Reports /\ IdUnused(m, x) /\ status' = status
  BY MatchAssumption DEF PersistReport
<1>2. \A n \in Matches : report'[n] = IF n = m THEN x ELSE IF n \in HasId(m, x) THEN None ELSE report[n]
  BY DEF PersistReport, WithoutId
<1>3. \A n \in Matches : status[n] = "WAITING_FOR_APPROVAL" => n \notin HasId(m, x)
  BY <1>1 DEF IdUnused
<1>. QED
  BY <1>1, <1>2, <1>3 DEF NothingIngested

LEMMA OrphanReport ==
    ASSUME OrphanInv, TypeOK', NEW t \in Tasks, ReportStep(t)
    PROVE  OrphanInv'
<1>0. /\ TypeOK /\ Opened(task[t]) /\ task[t] \in TaskStates
      /\ task[t].m \in Matches \cup {None}
      /\ \A u \in Tasks : Opened(task[u])
  BY DEF OrphanInv, Apart, TypeOK, TaskStates
<1>1. ASSUME NEW m \in Matches, NEW x \in Reports,
             UploadRead(t, m, x) \/ FillCreateRead(t, m, x) \/ FillRosterRead(t, m, x)
      PROVE  OrphanInv'
  <2>1. /\ [Task("upload", m) EXCEPT !.x = x] \in TaskStates
        /\ [Task("fillRoster", m) EXCEPT !.x = x] \in TaskStates
        /\ [Task("fillCreate", m) EXCEPT !.x = x] \in TaskStates
    BY TaskType, TaskFieldType DEF Ops
  <2>2. /\ Opened([Task("upload", m) EXCEPT !.x = x])
        /\ Opened([Task("fillRoster", m) EXCEPT !.x = x])
        /\ m \in Lobbies => Opened([Task("fillCreate", m) EXCEPT !.x = x])
    BY DEF Opened, Task, Idle
  <2>3. NothingIngested
    BY <1>1, NothingHappens DEF UploadRead, FillCreateRead, FillRosterRead
  <2>. QED
    BY <1>1, <2>1, <2>2, <2>3, BeginsOpened DEF UploadRead, FillCreateRead, FillRosterRead
<1>2. ASSUME NEW m \in Matches, NEW x \in Reports, IngestRead(t, m, x)
      PROVE  OrphanInv'
  <2>. DEFINE new == [Task("ingestCreate", m) EXCEPT !.x = x]
  <2>1. new \in TaskStates /\ Opened(new)
    BY <1>2, TaskType, TaskFieldType DEF Ops, Opened, Task, Idle, IngestRead
  <2>2. NothingIngested
    BY <1>2 DEF IngestRead, WithoutId, IdUnused, NothingIngested
  <2>. QED
    BY <1>2, <2>1, <2>2, BeginsOpened DEF IngestRead
<1>3. ASSUME NEW w \in Teams \cup {0}, IngestCreate(t, w)
      PROVE  OrphanInv'
  <2>. DEFINE new == [task[t] EXCEPT !.op = "ingestPersist"]
              m == task[t].m
  <2>1. new.op = "ingestPersist" /\ new.m = m /\ new.x = task[t].x
    BY <1>0 DEF TaskStates
  <2>2. /\ task' = [task EXCEPT ![t] = new] /\ setting' = setting
        /\ status' = [status EXCEPT ![m] = "WAITING_FOR_APPROVAL"] /\ report' = report
        /\ m \notin Lobbies /\ task[t].op = "ingestCreate" /\ task[t].x \in Reports
    BY <1>0, <1>3 DEF IngestCreate, Continue, Opened
  <2>3. task'[t] = new /\ \A u \in Tasks \ {t} : task'[u] = task[u]
    BY <1>0, <2>2 DEF TypeOK
  <2>4. Opened(new)
    BY <2>1, <2>2 DEF Opened
  <2>. HIDE DEF new
  <2>5. Apart'
    <3>1. \A u \in Tasks : Opened(task'[u])
      BY <1>0, <2>3, <2>4
    <3>2. \A n \in Matches : /\ status'[n] = "PENDING" => n \in Lobbies
                             /\ status'[n] = "WAITING_FOR_APPROVAL" => n \notin Lobbies
      BY <1>0, <2>2 DEF OrphanInv, Apart, TypeOK
    <3>. QED
      BY <3>1, <3>2 DEF Apart, Opened
  <2>6. NoOrphanWaiting'
    <3>1. ASSUME NEW n \in Matches, ~setting.failures, status'[n] = "WAITING_FOR_APPROVAL"
          PROVE  report'[n] # None \/ \E u \in Tasks : task'[u].op = "ingestPersist" /\ task'[u].m = n
      <4>1. CASE n = m
        BY <2>1, <2>3, <4>1
      <4>2. CASE n # m
        BY <1>0, <2>2, <2>3, <3>1, <4>2 DEF OrphanInv, NoOrphanWaiting, TypeOK
      <4>. QED
        BY <4>1, <4>2
    <3>. QED
      BY <2>2, <3>1 DEF NoOrphanWaiting
  <2>. QED
    BY <2>5, <2>6 DEF OrphanInv
<1>4. CASE UploadWrite(t)
  <2>1. NothingIngested
    BY <1>0, <1>4, PersistKeeps DEF UploadWrite, Opened
  <2>. QED
    BY <1>4, <2>1, EndsOpened DEF UploadWrite
<1>5. CASE UploadRefused(t)
  BY <1>5, EndsOpened, NothingHappens DEF UploadRefused
<1>6. CASE FillCreateWrite(t) \/ FillRosterWrite(t)
  <2>. DEFINE new == [task[t] EXCEPT !.op = "upload"]
  <2>0. new.op = "upload" /\ new.x = task[t].x
    BY <1>0 DEF TaskStates
  <2>1. new \in TaskStates /\ Opened(new)
    <3>1. new \in TaskStates
      BY <1>0, TaskFieldType DEF Ops
    <3>2. task[t].x \in Reports
      BY <1>0, <1>6 DEF Opened, FillCreateWrite, FillRosterWrite
    <3>3. Opened(new)
      BY <2>0, <3>2 DEF Opened
    <3>. QED
      BY <3>1, <3>3
  <2>2. NothingIngested
    BY <1>0, <1>6
       DEF FillCreateWrite, FillRosterWrite, CreatePending, ReplaceRoster, NothingIngested,
           Opened, TypeOK
  <2>3. task' = [task EXCEPT ![t] = new] /\ setting' = setting /\ task[t].op # "ingestPersist"
    BY <1>6 DEF FillCreateWrite, FillRosterWrite, Continue
  <2>. HIDE DEF new
  <2>. QED
    BY <2>1, <2>2, <2>3, OrdinarySlot
<1>7. CASE IngestPersist(t)
  <2>. DEFINE m == task[t].m
  <2>1. NothingIngested /\ (m \in Matches => report'[m] # None)
    BY <1>0, <1>7, PersistKeeps DEF IngestPersist, Opened
  <2>2. task' = [task EXCEPT ![t] = Idle] /\ setting' = setting
    BY <1>7 DEF IngestPersist, Finish
  <2>3. Apart'
    BY <1>0, <2>1, <2>2, IdleOpened DEF OrphanInv, Apart, Opened, NothingIngested, TypeOK
  <2>4. NoOrphanWaiting'
    BY <1>0, <2>1, <2>2 DEF OrphanInv, NoOrphanWaiting, NothingIngested, TypeOK
  <2>. QED
    BY <2>3, <2>4 DEF OrphanInv
<1>8. CASE IngestUndo(t)
  <2>. DEFINE m == task[t].m
  <2>1. /\ task' = [task EXCEPT ![t] = Idle] /\ setting' = setting
        /\ status' = [status EXCEPT ![m] = "NONE"] /\ report' = report
    BY <1>8 DEF IngestUndo, Finish
  <2>2. Apart'
    BY <1>0, <2>1, IdleOpened DEF OrphanInv, Apart, Opened, TypeOK
  <2>3. NoOrphanWaiting'
    BY <1>0, <2>1 DEF OrphanInv, NoOrphanWaiting, TypeOK
  <2>. QED
    BY <2>2, <2>3 DEF OrphanInv
<1>. QED
  BY <1>1, <1>2, <1>3, <1>4, <1>5, <1>6, <1>7, <1>8 DEF ReportStep

(* Results: completions, corrections and rejections ingest nothing.        *)
LEMMA OrphanResult ==
    ASSUME OrphanInv, TypeOK', NEW t \in Tasks, ResultStep(t)
    PROVE  OrphanInv'
<1>0. TypeOK /\ task[t] \in TaskStates
  BY DEF OrphanInv, TypeOK
<1>1. ASSUME NEW new \in TaskStates, Begin(t, new), UNCHANGED matchVars,
             new.op \in {"setWinner", "complete", "requestMitigation", "setPercent", "unquit"}
      PROVE  OrphanInv'
  BY <1>1, BeginsOpened, NothingHappens DEF Opened
<1>2. ASSUME NEW m \in Matches, NEW w \in Teams, SetApprovalWinnerRead(t, m, w)
      PROVE  OrphanInv'
  <2>1. [Task("setWinner", m) EXCEPT !.w = w] \in TaskStates
    BY TaskType, TaskFieldType DEF Ops
  <2>. QED
    BY <1>1, <1>2, <2>1 DEF SetApprovalWinnerRead, Task, Idle
<1>3. ASSUME NEW m \in Matches, ApproveWaitingRead(t, m)
      PROVE  OrphanInv'
  <2>1. [Task("complete", m) EXCEPT !.w = approval[m]] \in TaskStates
    BY <1>0, TaskType, TaskFieldType DEF Ops, TypeOK
  <2>. QED
    BY <1>1, <1>3, <2>1 DEF ApproveWaitingRead, Task, Idle
<1>4. ASSUME NEW m \in Matches, ApproveMitigationRead(t, m)
      PROVE  OrphanInv'
  <2>1. [Task("complete", m) EXCEPT !.w = approval[m]] \in TaskStates
    BY <1>0, TaskType, TaskFieldType DEF Ops, TypeOK
  <2>2. [Task("complete", m) EXCEPT !.w = approval[m], !.p = percent[m]] \in TaskStates
    BY <1>0, <2>1, TaskFieldType DEF TypeOK
  <2>. QED
    BY <1>1, <1>4, <2>2 DEF ApproveMitigationRead, Task, Idle
<1>5. ASSUME NEW m \in Matches, UnquitRead(t, m)
      PROVE  OrphanInv'
  <2>1. [Task("unquit", m) EXCEPT !.w = IF result[m] = 2 THEN 2 ELSE 1] \in TaskStates
    BY TaskType, TaskFieldType DEF Ops, Teams
  <2>. QED
    BY <1>1, <1>5, <2>1 DEF UnquitRead, Task, Idle
<1>6. ASSUME NEW m \in Matches, NEW w \in Teams, NEW p \in Percents, RequestMitigationRead(t, m, w, p)
      PROVE  OrphanInv'
  <2>1. [Task("requestMitigation", m) EXCEPT !.w = w] \in TaskStates
    BY TaskType, TaskFieldType DEF Ops
  <2>2. [Task("requestMitigation", m) EXCEPT !.w = w, !.p = p] \in TaskStates
    BY <2>1, TaskFieldType DEF Pcts
  <2>. QED
    BY <1>1, <1>6, <2>2 DEF RequestMitigationRead, Task, Idle
<1>7. ASSUME NEW m \in Matches, NEW p \in Pcts, SetPercentRead(t, m, p)
      PROVE  OrphanInv'
  <2>1. [Task("setPercent", m) EXCEPT !.p = p] \in TaskStates
    BY TaskType, TaskFieldType DEF Ops
  <2>. QED
    BY <1>1, <1>7, <2>1 DEF SetPercentRead, Task, Idle
<1>8. ASSUME Finish(t), NothingIngested, task[t].op # "ingestPersist"
      PROVE  OrphanInv'
  BY <1>8, EndsOpened
<1>9. CASE SetApprovalWinnerWrite(t) \/ SetPercentWrite(t) \/ RequestMitigationNotify(t)
  <2>1. NothingIngested
    BY <1>9 DEF SetApprovalWinnerWrite, SetPercentWrite, RequestMitigationNotify, NothingIngested
  <2>. QED
    BY <1>8, <1>9, <2>1 DEF SetApprovalWinnerWrite, SetPercentWrite, RequestMitigationNotify
<1>10. CASE SetApprovalWinnerRefused(t) \/ ApproveRefused(t) \/ UnquitRefused(t)
  BY <1>8, <1>10, NothingHappens DEF SetApprovalWinnerRefused, ApproveRefused, UnquitRefused
<1>11. CASE ApproveWrite(t)
  <2>1. NothingIngested
    BY <1>0, <1>11 DEF ApproveWrite, CompleteMatch, NothingIngested, TypeOK
  <2>. QED
    BY <1>8, <1>11, <2>1 DEF ApproveWrite
<1>12. CASE UnquitWrite(t)
  <2>1. NothingIngested
    BY <1>12 DEF UnquitWrite, FlipMatch, NothingIngested
  <2>. QED
    BY <1>8, <1>12, <2>1 DEF UnquitWrite
<1>13. CASE RequestMitigationWrite(t)
  <2>. DEFINE new == [task[t] EXCEPT !.op = "notify"]
  <2>0. new \in TaskStates
    BY <1>0, TaskFieldType DEF Ops
  <2>1. new.op = "notify"
    BY <1>0 DEF TaskStates
  <2>2. Opened(new)
    BY <2>1 DEF Opened
  <2>3. NothingIngested
    BY <1>0, <1>13 DEF RequestMitigationWrite, NothingIngested, TypeOK
  <2>4. task' = [task EXCEPT ![t] = new] /\ setting' = setting /\ task[t].op # "ingestPersist"
    BY <1>13 DEF RequestMitigationWrite, Continue
  <2>. HIDE DEF new
  <2>. QED
    BY <2>0, <2>2, <2>3, <2>4, OrdinarySlot
<1>. QED
  BY <1>2, <1>3, <1>4, <1>5, <1>6, <1>7, <1>9, <1>10, <1>11, <1>12, <1>13 DEF ResultStep

LEMMA OrphanInit == Init => OrphanInv
<1>. SUFFICES ASSUME Init PROVE OrphanInv
  OBVIOUS
<1>1. \A t \in Tasks : Opened(task[t])
  BY IdleOpened DEF Init
<1>. QED
  BY <1>1, InitType DEF Init, OrphanInv, Apart, NoOrphanWaiting

LEMMA OrphanStep == OrphanInv /\ [Next]_vars => OrphanInv'
<1>. SUFFICES ASSUME OrphanInv, [Next]_vars
              PROVE  OrphanInv'
  OBVIOUS
<1>0. TypeOK /\ TypeOK'
  BY NextType DEF OrphanInv
<1>1. ASSUME NEW t \in Tasks, HandlerDies(t)
      PROVE  OrphanInv'
  BY <1>0, <1>1, EndsOpened, NothingHappens DEF HandlerDies
<1>2. ASSUME NEW m \in Matches, LockedStep(m)
      PROVE  OrphanInv'
  <2>1. NothingIngested
    BY <1>0, <1>2
       DEF LockedStep, ReportResult, CompleteMatch, Flip, FlipMatch, RejectWaiting,
           CancelInProgress, RejectMitigation, Void, NothingIngested, TypeOK
  <2>2. UNCHANGED <<task, setting>>
    BY <1>2
       DEF LockedStep, ReportResult, Flip, RejectWaiting, CancelInProgress, RejectMitigation, Void
  <2>. QED
    BY <1>0, <2>1, <2>2, OrdinaryLocked
<1>3. CASE UNCHANGED vars
  BY <1>0, <1>3, OrdinaryLocked, NothingHappens DEF vars
<1>. QED
  BY <1>0, <1>1, <1>2, <1>3, OrphanLobby, OrphanReport, OrphanResult DEF Next

(* No match waits for approval without the report it came with, however    *)
(* many ingests, uploads and cancellations overlap, as long as no handler  *)
(* dies.                                                                   *)
THEOREM NoOrphansWait == Spec => []NoOrphanWaiting
<1>1. OrphanInv => NoOrphanWaiting
  BY DEF OrphanInv
<1>. QED
  BY <1>1, OrphanInit, OrphanStep, PTL DEF Spec

-----------------------------------------------------------------------------
(* Handlers in turn.  When no handler starts before the last one ended,    *)
(* what a handler read is still so when it writes; what that is depends on *)
(* the handler.                                                            *)
Fits(k) ==
    /\ k.op # "idle" => k.op = "cancelStale" \/ k.m \in Matches
    /\ k.op \in {"create", "fillCreate"} => status[k.m] = "NONE" /\ UnderHostCap(k.m)
    /\ k.op = "create" => GameFreeInLeague(k.m, k.g)
    /\ k.op \in {"editRoster", "fillRoster", "linkGame", "start", "cancel"} =>
          status[k.m] = "PENDING"
    /\ k.op = "linkGame" =>
          \A n \in Matches \ {k.m} : gameId[n] = k.g => status[n] \notin Active
    /\ k.op = "cancelStale" => \A m \in k.ms : status[m] = "PENDING"
    /\ k.op = "upload" => status[k.m] \in Active
    /\ k.op = "ingestCreate" => status[k.m] = "NONE"
    /\ k.op \in {"ingestPersist", "setWinner"} => status[k.m] = "WAITING_FOR_APPROVAL"
    /\ k.op = "requestMitigation" => status[k.m] = "IN_PROGRESS"
    /\ k.op \in {"notify", "setPercent"} => status[k.m] = "WAITING_FOR_MITIGATION_APPROVAL"

InTurn ==
    /\ \A t, u \in Tasks : t # u => task[t] = Idle \/ task[u] = Idle
    /\ \A t \in Tasks : Fits(task[t])

(* The inductive part of LedgerExact and Decided, row by row: no question  *)
(* is open about a match that cannot have been asked one, and none has a   *)
(* message before it is asked.                                             *)
RowExact(m) ==
    /\ m \in Rated =>
          /\ effect[m].kind = "applied" <=> status[m] = "COMPLETED"
          /\ status[m] = "COMPLETED" => effect[m] = Applied(result[m], percent[m])
          /\ status[m] \in {"NONE", "PENDING", "IN_PROGRESS", "COMPLETED"} =>
                approval[m] = 0 /\ ~notice[m]
          /\ status[m] = "WAITING_FOR_APPROVAL" => ~notice[m]
    /\ m \in NeedsReport /\ status[m] = "COMPLETED" => report[m] # None

SerialInv ==
    /\ RatingInv
    /\ setting.serial =>
          InTurn /\ (\A m \in Matches : RowExact(m)) /\ PendingLobbiesDistinct

(* Everything but the row of match m stays; a report may be taken from a   *)
(* match that is cancelled.                                                *)
RowKept(n) ==
    /\ status'[n] = status[n] /\ gameId'[n] = gameId[n] /\ approval'[n] = approval[n]
    /\ percent'[n] = percent[n] /\ notice'[n] = notice[n] /\ result'[n] = result[n]
    /\ effect'[n] = effect[n]
    /\ report'[n] = report[n] \/ status[n] = "CANCELLED"

LEMMA KeptExact ==
    ASSUME NEW n \in Matches, RowExact(n), RowKept(n)
    PROVE  RowExact(n)'
BY DEF RowExact, RowKept

(* Lobbies stay apart unless one opens or is linked to another game.       *)
NoneOpens ==
    \A m \in Matches : status'[m] = "PENDING" => status[m] = "PENDING" /\ gameId'[m] = gameId[m]

LEMMA KeptApart ==
    ASSUME setting.serial, PendingLobbiesDistinct, NoneOpens
    PROVE  PendingLobbiesDistinct'
<1>1. Rated \subseteq Matches
  BY MatchAssumption
<1>. QED
  BY <1>1 DEF PendingLobbiesDistinct, NoneOpens

LEMMA IdleFits == Fits(Idle) /\ Fits(Idle)'
BY DEF Fits, Idle

(* The turn of a handler: the others rest.                                 *)
LEMMA SlotInTurn ==
    ASSUME TypeOK, InTurn, NEW t \in Tasks, NEW new \in TaskStates, Fits(new)',
           task[t] # Idle \/ \A u \in Tasks : task[u] = Idle,
           task' = [task EXCEPT ![t] = new]
    PROVE  InTurn'
<1>1. \A u \in Tasks \ {t} : task'[u] = Idle
  BY DEF TypeOK, InTurn
<1>2. task'[t] = new
  BY DEF TypeOK
<1>3. \A u \in Tasks : Fits(task[u])'
  <2>. SUFFICES ASSUME NEW u \in Tasks
                PROVE  Fits(task[u])'
    OBVIOUS
  <2>1. CASE u = t
    BY <1>2, <2>1 DEF Fits
  <2>2. CASE u # t
    BY <1>1, <2>2, IdleFits DEF Fits
  <2>. QED
    BY <2>1, <2>2
<1>4. \A u, v \in Tasks : u # v => task'[u] = Idle \/ task'[v] = Idle
  BY <1>1
<1>. QED
  BY <1>3, <1>4 DEF InTurn

(* What a step of one handler has to show: about its own task, its match's *)
(* row, and the lobbies.                                                   *)
LEMMA SerialSlot ==
    ASSUME SerialInv, RatingInv', setting' = setting, NEW t \in Tasks, NEW new \in TaskStates,
           task' = [task EXCEPT ![t] = new],
           setting.serial =>
              /\ task[t] # Idle \/ \A u \in Tasks : task[u] = Idle
              /\ Fits(new)'
              /\ \A m \in Matches : RowKept(m) \/ RowExact(m)'
              /\ NoneOpens \/ PendingLobbiesDistinct'
    PROVE  SerialInv'
<1>. SUFFICES ASSUME setting.serial
              PROVE  InTurn' /\ (\A m \in Matches : RowExact(m))' /\ PendingLobbiesDistinct'
  BY DEF SerialInv
<1>1. InTurn'
  BY SlotInTurn DEF SerialInv, RatingInv
<1>2. ASSUME NEW m \in Matches
      PROVE  RowExact(m)'
  BY <1>2, KeptExact DEF SerialInv
<1>3. PendingLobbiesDistinct'
  BY KeptApart DEF SerialInv
<1>. QED
  BY <1>1, <1>2, <1>3

LEMMA NothingKept == UNCHANGED matchVars => NoneOpens /\ \A m \in Matches : RowKept(m)
BY DEF matchVars, NoneOpens, RowKept

(* Reading: what was read becomes what the task relies on.                 *)
LEMMA SerialBegin ==
    ASSUME SerialInv, RatingInv', NEW t \in Tasks, NEW new \in TaskStates,
           Begin(t, new), UNCHANGED matchVars, Fits(new)
    PROVE  SerialInv'
<1>1. Fits(new)'
  BY DEF Fits, matchVars, UnderHostCap, SameTenant, GameFreeInLeague
<1>2. setting.serial => \A u \in Tasks : task[u] = Idle
  BY DEF Begin, Quiet
<1>. QED
  BY <1>1, <1>2, NothingKept, SerialSlot DEF Begin

(* Ending without a word.                                                  *)
LEMMA SerialEnd ==
    ASSUME SerialInv, RatingInv', NEW t \in Tasks, task[t] # Idle, Finish(t),
           setting.serial =>
              /\ \A m \in Matches : RowKept(m) \/ RowExact(m)'
              /\ NoneOpens \/ PendingLobbiesDistinct'
    PROVE  SerialInv'
BY IdleFits, IdleOpened, SerialSlot DEF Finish

(* What every step may use.                                                *)
LEMMA SerialFacts ==
    ASSUME SerialInv, NEW t \in Tasks
    PROVE  /\ TypeOK /\ task[t] \in TaskStates /\ task[t].m \in Matches \cup {None}
           /\ Rated \subseteq Matches /\ Lobbies \subseteq Matches /\ NeedsReport \subseteq Matches
           /\ setting.serial => /\ Fits(task[t]) /\ InTurn /\ PendingLobbiesDistinct
                                /\ \A m \in Matches : RowExact(m)
BY MatchAssumption DEF SerialInv, RatingInv, TypeOK, TaskStates, InTurn

LEMMA SerialLobby ==
    ASSUME SerialInv, RatingInv', NEW t \in Tasks, LobbyStep(t)
    PROVE  SerialInv'
<1>0. /\ TypeOK /\ task[t] \in TaskStates /\ task[t].m \in Matches \cup {None}
      /\ Rated \subseteq Matches
      /\ setting.serial => /\ Fits(task[t]) /\ PendingLobbiesDistinct
                           /\ \A m \in Matches : RowExact(m)
  BY SerialFacts
<1>00. task[t].op # "idle" => task[t] # Idle
  BY DEF Idle
<1>1. ASSUME NEW m \in Matches, NEW g \in GameIds \cup {None}, CreateRead(t, m, g)
      PROVE  SerialInv'
  <2>. DEFINE new == [Task("create", m) EXCEPT !.g = g]
  <2>1. new \in TaskStates
    BY TaskType, TaskFieldType DEF Ops
  <2>2. Fits(new)
    BY <1>1 DEF CreateRead, Unclaimed, Fits, Task, Idle
  <2>. QED
    BY <1>1, <2>1, <2>2, SerialBegin DEF CreateRead
<1>2. ASSUME NEW full \in BOOLEAN, CreateWrite(t, full)
      PROVE  SerialInv'
  <2>. DEFINE m == task[t].m
              g == task[t].g
  <2>1. /\ status' = [status EXCEPT ![m] = "PENDING"] /\ gameId' = [gameId EXCEPT ![m] = g]
        /\ UNCHANGED <<report, approval, percent, notice, result, effect>>
        /\ task[t].op = "create" /\ Finish(t)
    BY <1>2 DEF CreateWrite, CreatePending
  <2>2. ASSUME setting.serial
        PROVE  /\ \A n \in Matches : RowKept(n) \/ RowExact(n)'
               /\ PendingLobbiesDistinct'
    <3>1. /\ m \in Matches /\ status[m] = "NONE" /\ UnderHostCap(m) /\ GameFreeInLeague(m, g)
          /\ RowExact(m)
      BY <1>0, <2>1, <2>2 DEF Fits
    <3>2. \A n \in Matches \ {m} : RowKept(n)
      BY <1>0, <2>1 DEF RowKept, TypeOK
    <3>3. ASSUME NEW n \in Matches, n = m
          PROVE  RowExact(n)'
      BY <1>0, <2>1, <3>1, <3>3 DEF RowExact, TypeOK
    <3>4. ASSUME NEW n \in Rated, n # m, m \in Rated, status[n] = "PENDING"
          PROVE  /\ g # None => gameId[n] # g
                 /\ HostOf[m] \notin Mods => HostOf[m] # HostOf[n]
      BY <1>0, <3>1, <3>4 DEF UnderHostCap, SameTenant, GameFreeInLeague, Active
    <3>5. ASSUME NEW a \in Rated, NEW b \in Rated, a # b,
                 status'[a] = "PENDING", status'[b] = "PENDING"
          PROVE  /\ gameId'[a] # None => gameId'[a] # gameId'[b]
                 /\ HostOf[a] \notin Mods => HostOf[a] # HostOf[b]
      <4>1. CASE a = m
        BY <1>0, <2>1, <3>4, <3>5, <4>1 DEF TypeOK
      <4>2. CASE b = m
        BY <1>0, <2>1, <3>4, <3>5, <4>2 DEF TypeOK
      <4>3. CASE a # m /\ b # m
        BY <1>0, <2>1, <2>2, <3>5, <4>3 DEF PendingLobbiesDistinct, TypeOK
      <4>. QED
        BY <4>1, <4>2, <4>3
    <3>6. PendingLobbiesDistinct'
      BY <3>5 DEF PendingLobbiesDistinct
    <3>. QED
      BY <3>2, <3>3, <3>6
  <2>. QED
    BY <1>00, <2>1, <2>2, SerialEnd
<1>3. ASSUME NEW full \in BOOLEAN, EditRosterWrite(t, full)
      PROVE  SerialInv'
  <2>. DEFINE m == task[t].m
  <2>1. /\ result' = [result EXCEPT ![m] = 0]
        /\ UNCHANGED <<status, gameId, report, approval, percent, notice, effect>>
        /\ task[t].op = "editRoster" /\ Finish(t)
    BY <1>3 DEF EditRosterWrite, ReplaceRoster
  <2>2. ASSUME setting.serial
        PROVE  \A n \in Matches : RowKept(n) \/ RowExact(n)'
    BY <1>0, <2>1, <2>2 DEF Fits, RowKept, RowExact, TypeOK
  <2>3. NoneOpens
    BY <2>1 DEF NoneOpens
  <2>. QED
    BY <1>00, <2>1, <2>2, <2>3, SerialEnd
<1>4. ASSUME NEW m \in Matches, NEW g \in GameIds, LinkGameRead(t, m, g)
      PROVE  SerialInv'
  <2>. DEFINE new == [Task("linkGame", m) EXCEPT !.g = g]
  <2>1. new \in TaskStates
    BY TaskType, TaskFieldType DEF Ops
  <2>2. Fits(new)
    BY <1>4 DEF LinkGameRead, Fits, Task, Idle
  <2>. QED
    BY <1>4, <2>1, <2>2, SerialBegin DEF LinkGameRead
<1>5. ASSUME NEW m \in Matches, EditRosterRead(t, m) \/ StartRead(t, m) \/ CancelRead(t, m)
      PROVE  SerialInv'
  <2>1. \A op \in {"editRoster", "start", "cancel"} :
           Task(op, m) \in TaskStates /\ Fits(Task(op, m))
    BY ZenonT(40), <1>5, TaskType DEF EditRosterRead, StartRead, CancelRead, Fits, Task, Idle, Ops
  <2>. QED
    BY <1>5, <2>1, SerialBegin DEF EditRosterRead, StartRead, CancelRead
<1>6. ASSUME NEW ms \in SUBSET Matches, CancelStaleRead(t, ms)
      PROVE  SerialInv'
  <2>. DEFINE new == [Task("cancelStale", None) EXCEPT !.ms = ms]
  <2>1. new \in TaskStates
    BY TaskType, TaskFieldType DEF Ops
  <2>2. Fits(new)
    BY <1>6 DEF CancelStaleRead, Fits, Task, Idle
  <2>. QED
    BY <1>6, <2>1, <2>2, SerialBegin DEF CancelStaleRead
<1>7. CASE LinkGameWrite(t)
  <2>. DEFINE m == task[t].m
              g == task[t].g
  <2>1. /\ gameId' = [gameId EXCEPT ![m] = g]
        /\ UNCHANGED <<status, report, approval, percent, notice, result, effect>>
        /\ task[t].op = "linkGame" /\ Finish(t)
    BY <1>7 DEF LinkGameWrite
  <2>2. ASSUME setting.serial
        PROVE  \A n \in Matches : RowKept(n) \/ RowExact(n)'
    BY <1>0, <2>1, <2>2 DEF RowKept, RowExact, TypeOK
  <2>3. ASSUME setting.serial
        PROVE  PendingLobbiesDistinct'
    <3>1. \A n \in Matches \ {m} : gameId[n] = g => status[n] # "PENDING"
      BY <1>0, <2>1, <2>3 DEF Fits, Active
    <3>2. ASSUME NEW a \in Rated, NEW b \in Rated, a # b,
                 status'[a] = "PENDING", status'[b] = "PENDING"
          PROVE  /\ gameId'[a] # None => gameId'[a] # gameId'[b]
                 /\ HostOf[a] \notin Mods => HostOf[a] # HostOf[b]
      BY <1>0, <2>1, <2>3, <3>1, <3>2 DEF PendingLobbiesDistinct, TypeOK
    <3>. QED
      BY <3>2 DEF PendingLobbiesDistinct
  <2>. QED
    BY <1>00, <2>1, <2>2, <2>3, SerialEnd
<1>8. CASE StartWrite(t)
  <2>. DEFINE m == task[t].m
  <2>1. /\ status' = [status EXCEPT ![m] = "IN_PROGRESS"]
        /\ UNCHANGED <<gameId, report, approval, percent, notice, result, effect>>
        /\ task[t].op = "start" /\ Finish(t)
    BY <1>8 DEF StartWrite
  <2>2. ASSUME setting.serial
        PROVE  \A n \in Matches : RowKept(n) \/ RowExact(n)'
    BY <1>0, <2>1, <2>2 DEF Fits, RowKept, RowExact, TypeOK
  <2>3. NoneOpens
    BY <1>0, <2>1 DEF NoneOpens, TypeOK
  <2>. QED
    BY <1>00, <2>1, <2>2, <2>3, SerialEnd
<1>9. CASE CancelWrite(t)
  <2>. DEFINE m == task[t].m
  <2>1. /\ status' = [status EXCEPT ![m] = "CANCELLED"] /\ report' = [report EXCEPT ![m] = None]
        /\ UNCHANGED <<gameId, approval, percent, notice, result, effect>>
        /\ task[t].op = "cancel" /\ Finish(t)
    BY <1>9 DEF CancelWrite
  <2>2. ASSUME setting.serial
        PROVE  \A n \in Matches : RowKept(n) \/ RowExact(n)'
    BY <1>0, <2>1, <2>2 DEF Fits, RowKept, RowExact, TypeOK
  <2>3. NoneOpens
    BY <1>0, <2>1 DEF NoneOpens, TypeOK
  <2>. QED
    BY <1>00, <2>1, <2>2, <2>3, SerialEnd
<1>10. CASE CancelStaleWrite(t)
  <2>. DEFINE ms == task[t].ms
  <2>1. /\ \A n \in Matches : report'[n] = IF n \in ms THEN None ELSE report[n]
        /\ \A n \in Matches : status'[n] = IF n \in ms /\ status[n] = "PENDING"
                                             THEN "CANCELLED" ELSE status[n]
        /\ UNCHANGED <<gameId, approval, percent, notice, result, effect>>
        /\ task[t].op = "cancelStale" /\ Finish(t)
    BY <1>10 DEF CancelStaleWrite
  <2>2. ASSUME setting.serial
        PROVE  \A n \in Matches : RowKept(n) \/ RowExact(n)'
    <3>1. \A n \in ms : status[n] = "PENDING"
      BY <1>0, <2>1, <2>2 DEF Fits
    <3>2. ASSUME NEW n \in Matches, n \in ms
          PROVE  RowExact(n)'
      BY <1>0, <2>1, <2>2, <3>1, <3>2 DEF RowExact, TypeOK
    <3>3. ASSUME NEW n \in Matches, n \notin ms
          PROVE  RowKept(n)
      BY <2>1, <3>3 DEF RowKept
    <3>. QED
      BY <3>2, <3>3
  <2>3. NoneOpens
    BY <2>1 DEF NoneOpens
  <2>. QED
    BY <1>00, <2>1, <2>2, <2>3, SerialEnd
<1>. setting.games \subseteq GameIds
  BY <1>0, MatchAssumption DEF TypeOK
<1>. QED
  BY <1>1, <1>2, <1>3, <1>4, <1>5, <1>6, <1>7, <1>8, <1>9, <1>10 DEF LobbyStep

(* A report is taken from cancelled matches only, and given to no other.   *)
LEMMA SerialPersist ==
    ASSUME TypeOK, NEW m \in Matches, NEW x \in Reports \cup {None}, PersistReport(m, x),
           RowExact(m), status[m] # "COMPLETED"
    PROVE  NoneOpens /\ \A n \in Matches : RowKept(n) \/ RowExact(n)'
<1>1. \A n \in Matches : report'[n] = IF n = m THEN x ELSE IF n \in HasId(m, x) THEN None ELSE report[n]
  BY DEF PersistReport, WithoutId, TypeOK
<1>2. /\ UNCHANGED <<status, gameId, approval, percent, notice, result, effect>>
      /\ \A n \in HasId(m, x) : status[n] = "CANCELLED"
  BY DEF PersistReport, IdUnused
<1>3. \A n \in Matches : n # m => RowKept(n)
  BY <1>1, <1>2 DEF RowKept
<1>4. \A n \in Matches : n = m => RowExact(n)'
  BY <1>1, <1>2 DEF RowExact
<1>. QED
  BY <1>2, <1>3, <1>4 DEF NoneOpens

LEMMA SerialReport ==
    ASSUME SerialInv, RatingInv', NEW t \in Tasks, ReportStep(t)
    PROVE  SerialInv'
<1>0. /\ TypeOK /\ task[t] \in TaskStates /\ task[t].m \in Matches \cup {None}
      /\ task[t].x \in Reports \cup {None}
      /\ setting.serial => /\ Fits(task[t]) /\ \A m \in Matches : RowExact(m)
  BY SerialFacts DEF TaskStates
<1>00. task[t].op # "idle" => task[t] # Idle
  BY DEF Idle
<1>1. ASSUME NEW m \in Matches, NEW x \in Reports,
             UploadRead(t, m, x) \/ FillCreateRead(t, m, x) \/ FillRosterRead(t, m, x)
      PROVE  SerialInv'
  <2>1. /\ [Task("upload", m) EXCEPT !.x = x] \in TaskStates
        /\ [Task("fillRoster", m) EXCEPT !.x = x] \in TaskStates
        /\ [Task("fillCreate", m) EXCEPT !.x = x] \in TaskStates
    BY TaskType, TaskFieldType DEF Ops
  <2>2. CASE UploadRead(t, m, x)
    <3>1. Fits([Task("upload", m) EXCEPT !.x = x])
      BY <2>2 DEF UploadRead, Fits, Task, Idle, Active
    <3>. QED
      BY <2>1, <2>2, <3>1, SerialBegin DEF UploadRead
  <2>3. CASE FillCreateRead(t, m, x)
    <3>1. Fits([Task("fillCreate", m) EXCEPT !.x = x])
      BY <2>3 DEF FillCreateRead, Unclaimed, Fits, Task, Idle
    <3>. QED
      BY <2>1, <2>3, <3>1, SerialBegin DEF FillCreateRead
  <2>4. CASE FillRosterRead(t, m, x)
    <3>1. Fits([Task("fillRoster", m) EXCEPT !.x = x])
      BY <2>4 DEF FillRosterRead, Fits, Task, Idle
    <3>. QED
      BY <2>1, <2>4, <3>1, SerialBegin DEF FillRosterRead
  <2>. QED
    BY <1>1, <2>2, <2>3, <2>4
<1>2. ASSUME NEW m \in Matches, NEW x \in Reports, IngestRead(t, m, x)
      PROVE  SerialInv'
  <2>. DEFINE new == [Task("ingestCreate", m) EXCEPT !.x = x]
  <2>1. new \in TaskStates
    BY TaskType, TaskFieldType DEF Ops
  <2>2. new.op = "ingestCreate" /\ new.m = m
    BY DEF Task, Idle
  <2>3. /\ Begin(t, new) /\ status[m] = "NONE"
        /\ UNCHANGED <<status, gameId, approval, percent, notice, result, effect>>
        /\ \A n \in Matches : report'[n] = report[n] \/ status[n] = "CANCELLED"
    BY <1>2 DEF IngestRead, Unclaimed, WithoutId, IdUnused
  <2>. HIDE DEF new
  <2>4. Fits(new)'
    BY <2>2, <2>3 DEF Fits
  <2>5. NoneOpens /\ \A n \in Matches : RowKept(n)
    BY <2>3 DEF NoneOpens, RowKept
  <2>6. setting.serial => \A u \in Tasks : task[u] = Idle
    BY <2>3 DEF Begin, Quiet
  <2>. QED
    BY <2>1, <2>3, <2>4, <2>5, <2>6, SerialSlot DEF Begin
<1>3. ASSUME NEW w \in Teams \cup {0}, IngestCreate(t, w)
      PROVE  SerialInv'
  <2>. DEFINE m == task[t].m
  <2>0. [task[t] EXCEPT !.op = "ingestPersist"] \in TaskStates
    BY <1>0, TaskFieldType DEF Ops
  <2>1. PICK new \in TaskStates : new = [task[t] EXCEPT !.op = "ingestPersist"]
    BY <2>0
  <2>2. new.op = "ingestPersist" /\ new.m = m
    BY <1>0, <2>1 DEF TaskStates
  <2>3. /\ task' = [task EXCEPT ![t] = new] /\ setting' = setting /\ task[t].op = "ingestCreate"
        /\ status' = [status EXCEPT ![m] = "WAITING_FOR_APPROVAL"]
        /\ approval' = [approval EXCEPT ![m] = w]
        /\ UNCHANGED <<gameId, report, percent, notice, result, effect>>
    BY <1>3, <2>1 DEF IngestCreate, Continue
  <2>4. ASSUME setting.serial
        PROVE  /\ Fits(new)'
               /\ \A n \in Matches : RowKept(n) \/ RowExact(n)'
    <3>1. m \in Matches /\ status[m] = "NONE"
      BY <1>0, <2>3, <2>4 DEF Fits
    <3>2. status'[m] = "WAITING_FOR_APPROVAL"
      BY <1>0, <2>3, <3>1 DEF TypeOK
    <3>3. Fits(new)'
      BY <2>2, <3>1, <3>2 DEF Fits
    <3>4. \A n \in Matches : n # m => RowKept(n)
      BY <1>0, <2>3 DEF RowKept, TypeOK
    <3>5. \A n \in Matches : n = m => RowExact(n)'
      BY <1>0, <2>3, <2>4, <3>1, <3>2 DEF RowExact, TypeOK
    <3>. QED
      BY <3>1, <3>3, <3>4, <3>5
  <2>5. NoneOpens
    BY <1>0, <2>3 DEF NoneOpens, TypeOK
  <2>. QED
    BY <1>00, <2>3, <2>4, <2>5, SerialSlot
<1>4. CASE UploadWrite(t) \/ IngestPersist(t)
  <2>1. /\ PersistReport(task[t].m, task[t].x) /\ Finish(t)
        /\ task[t].op \in {"upload", "ingestPersist"}
    BY <1>4 DEF UploadWrite, IngestPersist
  <2>2. ASSUME setting.serial
        PROVE  NoneOpens /\ \A n \in Matches : RowKept(n) \/ RowExact(n)'
    <3>1. task[t].m \in Matches /\ status[task[t].m] # "COMPLETED"
      BY <1>0, <2>1, <2>2 DEF Fits, Active
    <3>. QED
      BY <1>0, <2>1, <2>2, <3>1, SerialPersist
  <2>. QED
    BY <1>00, <2>1, <2>2, SerialEnd
<1>5. CASE UploadRefused(t)
  BY <1>00, <1>5, SerialEnd, NothingKept DEF UploadRefused
<1>6. CASE FillCreateWrite(t)
  <2>. DEFINE m == task[t].m
  <2>0. [task[t] EXCEPT !.op = "upload"] \in TaskStates
    BY <1>0, TaskFieldType DEF Ops
  <2>1. PICK new \in TaskStates : new = [task[t] EXCEPT !.op = "upload"]
    BY <2>0
  <2>2. new.op = "upload" /\ new.m = m
    BY <1>0, <2>1 DEF TaskStates
  <2>3. /\ task' = [task EXCEPT ![t] = new] /\ setting' = setting /\ task[t].op = "fillCreate"
        /\ status' = [status EXCEPT ![m] = "PENDING"] /\ gameId' = [gameId EXCEPT ![m] = None]
        /\ UNCHANGED <<approval, report, percent, notice, result, effect>>
    BY <1>6, <2>1 DEF FillCreateWrite, CreatePending, Continue
  <2>4. ASSUME setting.serial
        PROVE  /\ Fits(new)'
               /\ \A n \in Matches : RowKept(n) \/ RowExact(n)'
               /\ PendingLobbiesDistinct'
    <3>1. m \in Matches /\ status[m] = "NONE" /\ UnderHostCap(m)
      BY <1>0, <2>3, <2>4 DEF Fits
    <3>2. status'[m] = "PENDING"
      BY <1>0, <2>3, <3>1 DEF TypeOK
    <3>3. Fits(new)'
      BY <2>2, <3>1, <3>2 DEF Fits, Active
    <3>4. \A n \in Matches : n # m => RowKept(n)
      BY <1>0, <2>3 DEF RowKept, TypeOK
    <3>5. \A n \in Matches : n = m => RowExact(n)'
      BY <1>0, <2>3, <2>4, <3>1, <3>2 DEF RowExact, TypeOK
    <3>6. ASSUME NEW n \in Rated, n # m, m \in Rated, status[n] = "PENDING",
                 HostOf[m] \notin Mods
          PROVE  HostOf[m] # HostOf[n]
      BY <3>1, <3>6, MatchAssumption DEF UnderHostCap, SameTenant, Active
    <3>7. ASSUME NEW a \in Rated, NEW b \in Rated, a # b,
                 status'[a] = "PENDING", status'[b] = "PENDING"
          PROVE  /\ gameId'[a] # None => gameId'[a] # gameId'[b]
                 /\ HostOf[a] \notin Mods => HostOf[a] # HostOf[b]
      <4>0. a \in Matches /\ b \in Matches
        BY MatchAssumption
      <4>1. CASE a = m
        BY <1>0, <2>3, <3>6, <3>7, <4>0, <4>1 DEF TypeOK
      <4>2. CASE b = m
        BY <1>0, <2>3, <3>6, <3>7, <4>0, <4>2 DEF TypeOK
      <4>3. CASE a # m /\ b # m
        <5>1. PendingLobbiesDistinct
          BY <2>4, SerialFacts
        <5>. QED
          BY <1>0, <2>3, <2>4, <3>7, <4>0, <4>3, <5>1 DEF PendingLobbiesDistinct, TypeOK
      <4>. QED
        BY <4>1, <4>2, <4>3
    <3>8. PendingLobbiesDistinct'
      BY <3>7 DEF PendingLobbiesDistinct
    <3>. QED
      BY <3>3, <3>4, <3>5, <3>8
  <2>. QED
    BY <1>00, <2>3, <2>4, SerialSlot
<1>7. CASE FillRosterWrite(t)
  <2>. DEFINE m == task[t].m
  <2>0. [task[t] EXCEPT !.op = "upload"] \in TaskStates
    BY <1>0, TaskFieldType DEF Ops
  <2>1. PICK new \in TaskStates : new = [task[t] EXCEPT !.op = "upload"]
    BY <2>0
  <2>2. new.op = "upload" /\ new.m = m
    BY <1>0, <2>1 DEF TaskStates
  <2>3. /\ task' = [task EXCEPT ![t] = new] /\ setting' = setting /\ task[t].op = "fillRoster"
        /\ result' = [result EXCEPT ![m] = 0]
        /\ UNCHANGED <<status, gameId, approval, report, percent, notice, effect>>
    BY <1>7, <2>1 DEF FillRosterWrite, ReplaceRoster, Continue
  <2>4. ASSUME setting.serial
        PROVE  Fits(new)' /\ \A n \in Matches : RowKept(n) \/ RowExact(n)'
    <3>1. m \in Matches /\ status[m] = "PENDING"
      BY <1>0, <2>3, <2>4 DEF Fits
    <3>2. Fits(new)'
      BY <2>2, <2>3, <3>1 DEF Fits, Active
    <3>3. \A n \in Matches : n # m => RowKept(n)
      BY <1>0, <2>3 DEF RowKept, TypeOK
    <3>4. \A n \in Matches : n = m => RowExact(n)'
      BY <1>0, <2>3, <2>4, <3>1 DEF RowExact, TypeOK
    <3>. QED
      BY <3>2, <3>3, <3>4
  <2>5. NoneOpens
    BY <2>3 DEF NoneOpens
  <2>. QED
    BY <1>00, <2>3, <2>4, <2>5, SerialSlot
<1>8. CASE IngestUndo(t)
  <2>. DEFINE m == task[t].m
  <2>1. /\ status' = [status EXCEPT ![m] = "NONE"] /\ approval' = [approval EXCEPT ![m] = 0]
        /\ UNCHANGED <<gameId, report, percent, notice, result, effect>>
        /\ task[t].op = "ingestPersist" /\ Finish(t)
    BY <1>8 DEF IngestUndo
  <2>2. ASSUME setting.serial
        PROVE  \A n \in Matches : RowKept(n) \/ RowExact(n)'
    BY <1>0, <2>1, <2>2 DEF Fits, RowKept, RowExact, TypeOK
  <2>3. NoneOpens
    BY <1>0, <2>1 DEF NoneOpens, TypeOK
  <2>. QED
    BY <1>00, <2>1, <2>2, <2>3, SerialEnd
<1>. QED
  BY <1>1, <1>2, <1>3, <1>4, <1>5, <1>6, <1>7, <1>8 DEF ReportStep

(* Completing and flipping leave a row whose rating is its result.         *)
LEMMA SerialOutcome ==
    ASSUME RatingInv, NEW m \in Matches, NEW w \in Teams \cup {0}, NEW p \in Pcts, RowExact(m),
           CompleteMatch(m, w, p) \/ FlipMatch(m, w)
    PROVE  NoneOpens /\ \A n \in Matches : RowKept(n) \/ RowExact(n)'
<1>0. TypeOK
  BY DEF RatingInv
<1>1. NoneOpens
  BY <1>0 DEF CompleteMatch, FlipMatch, NoneOpens, TypeOK
<1>2. \A n \in Matches : n # m => RowKept(n)
  BY <1>0 DEF CompleteMatch, FlipMatch, RowKept, TypeOK
<1>3. ASSUME NEW n \in Matches, n = m, CompleteMatch(m, w, p)
      PROVE  RowExact(n)'
  <2>1. /\ status'[m] = "COMPLETED" /\ result'[m] = w /\ report' = report
        /\ m \in NeedsReport => report[m] # None
    BY <1>0, <1>3 DEF CompleteMatch, TypeOK
  <2>2. ASSUME m \in Rated
        PROVE  /\ effect'[m] = Applied(w, p) /\ percent'[m] = p
               /\ approval'[m] = 0 /\ ~notice'[m]
    <3>1. effect[m] = NoEffect
      BY <1>0, <1>3, <2>2 DEF RatingInv, SnapshotBacked, CompleteMatch, TypeOK, Effects
    <3>2. AppliedAgain(w, p, effect[m]) = Applied(w, p)
      BY <3>1 DEF AppliedAgain, Applied, NoEffect
    <3>. QED
      BY <1>0, <1>3, <2>2, <3>2 DEF CompleteMatch, TypeOK
  <2>3. Applied(w, p).kind = "applied"
    BY DEF Applied
  <2>. QED
    BY <1>3, <2>1, <2>2, <2>3 DEF RowExact
<1>4. ASSUME NEW n \in Matches, n = m, FlipMatch(m, w)
      PROVE  RowExact(n)'
  <2>1. /\ status[m] = "COMPLETED" /\ result'[m] = w
        /\ UNCHANGED <<status, report, percent, approval, notice>>
    BY <1>0, <1>4 DEF FlipMatch, TypeOK
  <2>2. m \in Rated => effect'[m] = Applied(w, percent[m])
    BY <1>0, <1>4 DEF FlipMatch, TypeOK
  <2>3. Applied(w, percent[m]).kind = "applied"
    BY DEF Applied
  <2>. QED
    BY <1>4, <2>1, <2>2, <2>3 DEF RowExact
<1>. QED
  BY <1>1, <1>2, <1>3, <1>4

LEMMA SerialResult ==
    ASSUME SerialInv, RatingInv', NEW t \in Tasks, ResultStep(t)
    PROVE  SerialInv'
<1>0. /\ TypeOK /\ RatingInv /\ task[t] \in TaskStates /\ task[t].m \in Matches \cup {None}
      /\ task[t].w \in Teams \cup {0} /\ task[t].p \in Pcts
      /\ setting.serial => /\ Fits(task[t]) /\ \A m \in Matches : RowExact(m)
  BY SerialFacts DEF TaskStates, SerialInv
<1>00. task[t].op # "idle" => task[t] # Idle
  BY DEF Idle
<1>1. ASSUME NEW m \in Matches, NEW w \in Teams, SetApprovalWinnerRead(t, m, w)
      PROVE  SerialInv'
  <2>1. [Task("setWinner", m) EXCEPT !.w = w] \in TaskStates
    BY TaskType, TaskFieldType DEF Ops
  <2>2. Fits([Task("setWinner", m) EXCEPT !.w = w])
    BY <1>1 DEF SetApprovalWinnerRead, Fits, Task, Idle
  <2>. QED
    BY <1>1, <2>1, <2>2, SerialBegin DEF SetApprovalWinnerRead
<1>2. ASSUME NEW m \in Matches, ApproveWaitingRead(t, m)
      PROVE  SerialInv'
  <2>1. [Task("complete", m) EXCEPT !.w = approval[m]] \in TaskStates
    BY <1>0, TaskType, TaskFieldType DEF Ops, TypeOK
  <2>2. Fits([Task("complete", m) EXCEPT !.w = approval[m]])
    BY <1>2 DEF Fits, Task, Idle
  <2>. QED
    BY <1>2, <2>1, <2>2, SerialBegin DEF ApproveWaitingRead
<1>3. ASSUME NEW m \in Matches, ApproveMitigationRead(t, m)
      PROVE  SerialInv'
  <2>. DEFINE new == [Task("complete", m) EXCEPT !.w = approval[m], !.p = percent[m]]
  <2>1. [Task("complete", m) EXCEPT !.w = approval[m]] \in TaskStates
    BY <1>0, TaskType, TaskFieldType DEF Ops, TypeOK
  <2>2. new \in TaskStates
    BY <1>0, <2>1, TaskFieldType DEF TypeOK
  <2>3. Fits(new)
    BY <1>3 DEF Fits, Task, Idle
  <2>. QED
    BY <1>3, <2>2, <2>3, SerialBegin DEF ApproveMitigationRead
<1>4. ASSUME NEW m \in Matches, UnquitRead(t, m)
      PROVE  SerialInv'
  <2>. DEFINE new == [Task("unquit", m) EXCEPT !.w = IF result[m] = 2 THEN 2 ELSE 1]
  <2>1. new \in TaskStates
    BY TaskType, TaskFieldType DEF Ops, Teams
  <2>2. Fits(new)
    BY <1>4 DEF Fits, Task, Idle
  <2>. QED
    BY <1>4, <2>1, <2>2, SerialBegin DEF UnquitRead
<1>5. ASSUME NEW m \in Matches, NEW w \in Teams, NEW p \in Percents, RequestMitigationRead(t, m, w, p)
      PROVE  SerialInv'
  <2>. DEFINE new == [Task("requestMitigation", m) EXCEPT !.w = w, !.p = p]
  <2>1. [Task("requestMitigation", m) EXCEPT !.w = w] \in TaskStates
    BY TaskType, TaskFieldType DEF Ops
  <2>2. new \in TaskStates
    BY <2>1, TaskFieldType DEF Pcts
  <2>3. Fits(new)
    BY <1>5 DEF RequestMitigationRead, Fits, Task, Idle
  <2>. QED
    BY <1>5, <2>2, <2>3, SerialBegin DEF RequestMitigationRead
<1>6. ASSUME NEW m \in Matches, NEW p \in Pcts, SetPercentRead(t, m, p)
      PROVE  SerialInv'
  <2>1. [Task("setPercent", m) EXCEPT !.p = p] \in TaskStates
    BY TaskType, TaskFieldType DEF Ops
  <2>2. Fits([Task("setPercent", m) EXCEPT !.p = p])
    BY <1>6 DEF SetPercentRead, Fits, Task, Idle
  <2>. QED
    BY <1>6, <2>1, <2>2, SerialBegin DEF SetPercentRead
<1>7. CASE SetApprovalWinnerRefused(t) \/ ApproveRefused(t) \/ UnquitRefused(t)
  BY <1>00, <1>7, SerialEnd, NothingKept DEF SetApprovalWinnerRefused, ApproveRefused, UnquitRefused
<1>8. CASE SetApprovalWinnerWrite(t)
  <2>. DEFINE m == task[t].m
  <2>1. /\ approval' = [approval EXCEPT ![m] = task[t].w]
        /\ UNCHANGED <<status, gameId, report, percent, notice, result, effect>>
        /\ task[t].op = "setWinner" /\ Finish(t)
    BY <1>8 DEF SetApprovalWinnerWrite
  <2>2. ASSUME setting.serial
        PROVE  \A n \in Matches : RowKept(n) \/ RowExact(n)'
    BY <1>0, <2>1, <2>2 DEF Fits, RowKept, RowExact, TypeOK
  <2>3. NoneOpens
    BY <2>1 DEF NoneOpens
  <2>. QED
    BY <1>00, <2>1, <2>2, <2>3, SerialEnd
<1>9. CASE SetPercentWrite(t)
  <2>. DEFINE m == task[t].m
  <2>1. /\ percent' = [percent EXCEPT ![m] = task[t].p]
        /\ UNCHANGED <<status, gameId, report, approval, notice, result, effect>>
        /\ task[t].op = "setPercent" /\ Finish(t)
    BY <1>9 DEF SetPercentWrite
  <2>2. ASSUME setting.serial
        PROVE  \A n \in Matches : RowKept(n) \/ RowExact(n)'
    BY <1>0, <2>1, <2>2 DEF Fits, RowKept, RowExact, TypeOK
  <2>3. NoneOpens
    BY <2>1 DEF NoneOpens
  <2>. QED
    BY <1>00, <2>1, <2>2, <2>3, SerialEnd
<1>10. CASE RequestMitigationNotify(t)
  <2>. DEFINE m == task[t].m
  <2>1. /\ notice' = [notice EXCEPT ![m] = TRUE]
        /\ UNCHANGED <<status, gameId, report, approval, percent, result, effect>>
        /\ task[t].op = "notify" /\ Finish(t)
    BY <1>10 DEF RequestMitigationNotify
  <2>2. ASSUME setting.serial
        PROVE  \A n \in Matches : RowKept(n) \/ RowExact(n)'
    BY ZenonT(40), <1>0, <2>1, <2>2 DEF Fits, RowKept, RowExact, TypeOK
  <2>3. NoneOpens
    BY <2>1 DEF NoneOpens
  <2>. QED
    BY <1>00, <2>1, <2>2, <2>3, SerialEnd
<1>11. CASE RequestMitigationWrite(t)
  <2>. DEFINE m == task[t].m
  <2>0. [task[t] EXCEPT !.op = "notify"] \in TaskStates
    BY <1>0, TaskFieldType DEF Ops
  <2>1. PICK new \in TaskStates : new = [task[t] EXCEPT !.op = "notify"]
    BY <2>0
  <2>2. new.op = "notify" /\ new.m = m
    BY <1>0, <2>1 DEF TaskStates
  <2>3. /\ task' = [task EXCEPT ![t] = new] /\ setting' = setting
        /\ task[t].op = "requestMitigation"
        /\ status' = [status EXCEPT ![m] = "WAITING_FOR_MITIGATION_APPROVAL"]
        /\ approval' = [approval EXCEPT ![m] = task[t].w]
        /\ percent' = [percent EXCEPT ![m] = task[t].p]
        /\ UNCHANGED <<gameId, report, notice, result, effect>>
    BY <1>11, <2>1 DEF RequestMitigationWrite, Continue
  <2>4. ASSUME setting.serial
        PROVE  Fits(new)' /\ \A n \in Matches : RowKept(n) \/ RowExact(n)'
    <3>1. m \in Matches /\ status[m] = "IN_PROGRESS"
      BY <1>0, <2>3, <2>4 DEF Fits
    <3>2. status'[m] = "WAITING_FOR_MITIGATION_APPROVAL"
      BY <1>0, <2>3, <3>1 DEF TypeOK
    <3>3. Fits(new)'
      BY <2>2, <3>1, <3>2 DEF Fits
    <3>4. \A n \in Matches : n # m => RowKept(n)
      BY <1>0, <2>3 DEF RowKept, TypeOK
    <3>5. \A n \in Matches : n = m => RowExact(n)'
      BY <1>0, <2>3, <2>4, <3>1, <3>2 DEF RowExact, TypeOK
    <3>. QED
      BY <3>3, <3>4, <3>5
  <2>5. NoneOpens
    BY <1>0, <2>3 DEF NoneOpens, TypeOK
  <2>. QED
    BY <1>00, <2>3, <2>4, <2>5, SerialSlot
<1>12. CASE ApproveWrite(t) \/ UnquitWrite(t)
  <2>1. /\ task[t].op \in {"complete", "unquit"} /\ Finish(t)
        /\ CompleteMatch(task[t].m, task[t].w, task[t].p) \/ FlipMatch(task[t].m, task[t].w)
    BY <1>12 DEF ApproveWrite, UnquitWrite
  <2>2. ASSUME setting.serial
        PROVE  NoneOpens /\ \A n \in Matches : RowKept(n) \/ RowExact(n)'
    <3>1. task[t].m \in Matches
      BY <1>0, <2>1, <2>2 DEF Fits
    <3>. QED
      BY <1>0, <2>1, <2>2, <3>1, SerialOutcome
  <2>. QED
    BY <1>00, <2>1, <2>2, SerialEnd
<1>. QED
  BY <1>1, <1>2, <1>3, <1>4, <1>5, <1>6, <1>7, <1>8, <1>9, <1>10, <1>11, <1>12 DEF ResultStep

(* A handler that locks its match begins and ends in one step.             *)
LEMMA SerialLocked ==
    ASSUME SerialInv, RatingInv', NEW m \in Matches, LockedStep(m)
    PROVE  SerialInv'
<1>0. TypeOK /\ RatingInv /\ (setting.serial => \A n \in Matches : RowExact(n))
  BY DEF SerialInv, RatingInv
<1>1. Quiet /\ UNCHANGED <<task, setting>>
  BY DEF LockedStep, ReportResult, Flip, RejectWaiting, CancelInProgress, RejectMitigation, Void
<1>2. ASSUME setting.serial
      PROVE  NoneOpens /\ \A n \in Matches : RowKept(n) \/ RowExact(n)'
  <2>1. ASSUME NEW w \in Teams, NEW p \in Pcts, ReportResult(m, w, p) \/ Flip(m, w)
        PROVE  NoneOpens /\ \A n \in Matches : RowKept(n) \/ RowExact(n)'
    BY <1>0, <1>2, <2>1, SerialOutcome DEF ReportResult, Flip
  <2>2. CASE RejectWaiting(m) \/ CancelInProgress(m)
    <3>1. /\ status' = [status EXCEPT ![m] = "CANCELLED"]
          /\ status[m] \in {"WAITING_FOR_APPROVAL", "IN_PROGRESS"}
          /\ UNCHANGED <<gameId, report, approval, percent, notice, result, effect>>
      BY <2>2 DEF RejectWaiting, CancelInProgress
    <3>2. NoneOpens
      BY <1>0, <3>1 DEF NoneOpens, TypeOK
    <3>3. \A n \in Matches : RowKept(n) \/ RowExact(n)'
      BY <1>0, <1>2, <3>1 DEF RowKept, RowExact, TypeOK
    <3>. QED
      BY <3>2, <3>3
  <2>3. CASE RejectMitigation(m)
    <3>1. /\ status' = [status EXCEPT ![m] = "IN_PROGRESS"]
          /\ status[m] = "WAITING_FOR_MITIGATION_APPROVAL"
          /\ approval' = [approval EXCEPT ![m] = 0] /\ percent' = [percent EXCEPT ![m] = 0]
          /\ notice' = [notice EXCEPT ![m] = FALSE]
          /\ UNCHANGED <<gameId, report, result, effect>>
      BY <2>3 DEF RejectMitigation
    <3>2. NoneOpens
      BY <1>0, <3>1 DEF NoneOpens, TypeOK
    <3>3. \A n \in Matches : RowKept(n) \/ RowExact(n)'
      BY <1>0, <1>2, <3>1 DEF RowKept, RowExact, TypeOK
    <3>. QED
      BY <3>2, <3>3
  <2>4. CASE Void(m)
    <3>1. /\ status' = [status EXCEPT ![m] = "CANCELLED"] /\ result' = [result EXCEPT ![m] = 0]
          /\ report' = [report EXCEPT ![m] = None]
          /\ effect' = IF m \in Rated THEN [effect EXCEPT ![m] = Restored] ELSE effect
          /\ UNCHANGED <<gameId, approval, percent, notice>>
      BY <2>4 DEF Void
    <3>2. NoneOpens
      BY <1>0, <3>1 DEF NoneOpens, TypeOK
    <3>3. \A n \in Matches : n # m => RowKept(n)
      BY <1>0, <3>1 DEF RowKept, TypeOK
    <3>4. Restored.kind = "restored"
      BY DEF Restored
    <3>5. \A n \in Matches : n = m => RowExact(n)'
      BY <1>0, <3>1, <3>4 DEF RowExact, TypeOK
    <3>. QED
      BY <3>2, <3>3, <3>5
  <2>5. 0 \in Pcts
    BY DEF Pcts
  <2>. QED
    BY <2>1, <2>2, <2>3, <2>4, <2>5 DEF LockedStep
<1>3. ASSUME setting.serial
      PROVE  InTurn' /\ (\A n \in Matches : RowExact(n))' /\ PendingLobbiesDistinct'
  <2>1. \A u \in Tasks : task'[u] = Idle
    BY <1>1, <1>3 DEF Quiet
  <2>2. InTurn'
    BY <2>1, IdleFits DEF InTurn, Fits
  <2>3. ASSUME NEW n \in Matches
        PROVE  RowExact(n)'
    BY <1>0, <1>2, <1>3, KeptExact
  <2>4. PendingLobbiesDistinct'
    BY <1>2, <1>3, KeptApart DEF SerialInv
  <2>. QED
    BY <2>2, <2>3, <2>4
<1>. QED
  BY <1>1, <1>3 DEF SerialInv

LEMMA SerialInit == Init => SerialInv
<1>. SUFFICES ASSUME Init PROVE SerialInv
  OBVIOUS
<1>1. InTurn
  BY IdleFits DEF Init, InTurn
<1>2. \A m \in Matches : RowExact(m)
  BY DEF Init, RowExact, NoEffect
<1>3. PendingLobbiesDistinct
  BY MatchAssumption DEF Init, PendingLobbiesDistinct
<1>. QED
  BY <1>1, <1>2, <1>3, RatingInit DEF SerialInv

LEMMA SerialStep == SerialInv /\ [Next]_vars => SerialInv'
<1>. SUFFICES ASSUME SerialInv, [Next]_vars
              PROVE  SerialInv'
  OBVIOUS
<1>0. RatingInv'
  BY RatingStep DEF SerialInv
<1>1. ASSUME NEW t \in Tasks, HandlerDies(t)
      PROVE  SerialInv'
  BY <1>0, <1>1, SerialEnd, NothingKept DEF HandlerDies
<1>2. CASE UNCHANGED vars
  <2>1. InTurn /\ setting.serial => InTurn'
    BY <1>2 DEF InTurn, Fits, vars, matchVars, UnderHostCap, SameTenant, GameFreeInLeague
  <2>2. (\A m \in Matches : RowExact(m)) => (\A m \in Matches : RowExact(m))'
    BY <1>2 DEF RowExact, vars, matchVars
  <2>3. PendingLobbiesDistinct => PendingLobbiesDistinct'
    BY <1>2 DEF PendingLobbiesDistinct, vars, matchVars
  <2>4. setting' = setting
    BY <1>2 DEF vars
  <2>. QED
    BY <1>0, <2>1, <2>2, <2>3, <2>4 DEF SerialInv
<1>. QED
  BY <1>0, <1>1, <1>2, SerialLobby, SerialReport, SerialResult, SerialLocked DEF Next

LEMMA SerialInvariant == Spec => []SerialInv
BY SerialInit, SerialStep, PTL DEF Spec

(* With handlers in turn a league match is in the ratings exactly while it *)
(* is completed, with the winner and the mitigation its row records,       *)
(* through any sequence of approvals, corrections and voids, and whatever  *)
(* handlers die.                                                           *)
THEOREM LedgerIsExact == Spec => []LedgerExact
<1>1. SerialInv => LedgerExact
  BY MatchAssumption DEF SerialInv, LedgerExact, RowExact
<1>. QED
  BY <1>1, SerialInvariant, PTL

(* With handlers in turn a decided match has its report and no question    *)
(* open about it.                                                          *)
THEOREM DecisionsAreClosed == Spec => []Decided
<1>1. SerialInv => Decided
  BY MatchAssumption DEF SerialInv, Decided, DecisionCleared, CompletedHasReport, RowExact
<1>. QED
  BY <1>1, SerialInvariant, PTL

(* With handlers in turn no game of the list and no host without the mod   *)
(* role ever has two pending lobbies of a league.                          *)
THEOREM LobbiesAreDistinct == Spec => []PendingLobbiesDistinct
<1>1. SerialInv => PendingLobbiesDistinct
  BY DEF SerialInv, PendingLobbiesDistinct
<1>. QED
  BY <1>1, SerialInvariant, PTL
=============================================================================

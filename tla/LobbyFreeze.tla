----------------------------- MODULE LobbyFreeze -----------------------------
(* A lobby and the captain drafts held for it: the rows in the database, the *)
(* timer in the process, and the handlers that run between them. While a     *)
(* draft is active the lobby's roster is meant to be frozen; when the draft  *)
(* ends its teams become the roster. What happens inside a draft is module   *)
(* LobbyDraft; here its state is the deadline it has come to.                *)
(*                                                                           *)
(* A handler is cut where it awaits the database or Discord. A draft's state *)
(* is loaded, computed and saved in a queue, and saved only if its version   *)
(* and status are those loaded: that is one step. Nothing else is: a         *)
(* transaction reads without locks what it later writes.                     *)
(*                                                                           *)
(* FreezeInit, FreezeNext and FreezeSpec have names of their own for         *)
(* LobbyDraftProofs, which extends this module and LobbyDraft.               *)
EXTENDS Naturals, FiniteSets

CONSTANTS
    Drafts,         \* draft rows that may come to exist
    Handlers,       \* slots for handlers in flight
    LastDeadline,   \* deadlines of a draft, the last that of the heroes
    MaxEdits,       \* bound on roster edits
    MaxFailures,    \* bound on failing calls
    MaxRestarts,    \* bound on restarts of the bot
    Pasts           \* what may have happened to the lobby before

ASSUME LobbyFreezeAssumption ==
    /\ LastDeadline \in Nat \ {0}
    /\ MaxEdits \in Nat /\ MaxFailures \in Nat /\ MaxRestarts \in Nat
    /\ Drafts \cap Nat = {}
    /\ Pasts \subseteq [edits : 0..MaxEdits, failures : 0..MaxFailures,
                        restarts : 0..MaxRestarts, cancelled : SUBSET Drafts]

VARIABLES
    match,      \* Match.status of the lobby
    roster,     \* its players: the number of the last edit, or a draft's teams
    rows,       \* LobbyDraft rows
    timer,      \* the deadline each draft's timer waits for, 0: not set
    task,       \* handlers in flight
    edits, failures, restarts

vars == <<match, roster, rows, timer, task, edits, failures, restarts>>
counters == <<edits, failures, restarts>>

Deadlines == 1..LastDeadline
Soon == LastDeadline + 1    \* a retry in five seconds
Over == {"COMPLETE", "CANCELLED"}
Rosters == (0..MaxEdits) \cup Drafts
Tasks ==
    [op : {"idle", "edit", "closed"}]
    \cup [op : {"start"}, base : Rosters]
    \cup [op : {"post", "rollBack"}, draft : Drafts]
    \cup [op : {"saved", "apply", "applied"}, draft : Drafts, deadline : Deadlines,
          resolved : BOOLEAN, timed : BOOLEAN]
    \cup [op : {"timeout"}, draft : Drafts, fired : 1..Soon, timed : BOOLEAN]
    \cup [op : {"timeoutSave"}, draft : Drafts, seen : 0..LastDeadline, timed : BOOLEAN]
    \cup [op : {"close"}, to : {"IN_PROGRESS", "CANCELLED"}]
Idle == [op |-> "idle"]

(* A draft's row. `base' is the roster its participants were read from;      *)
(* `resolved' says that heroes are assigned, and the deadline is then null.  *)
RowStates == [status : {"NONE", "ACTIVE"} \cup Over, base : Rosters,
              deadline : Deadlines, resolved : BOOLEAN]
NoRow == [status |-> "NONE", base |-> 0, deadline |-> 1, resolved |-> FALSE]

FreezeTypeOK ==
    /\ match \in {"PENDING", "IN_PROGRESS", "CANCELLED"}
    /\ roster \in Rosters
    /\ rows \in [Drafts -> RowStates]
    /\ timer \in [Drafts -> 0..Soon]
    /\ task \in [Handlers -> Tasks]
    /\ edits \in 0..MaxEdits /\ failures \in 0..MaxFailures /\ restarts \in 0..MaxRestarts

FreezeInit ==
    /\ match = "PENDING"
    /\ timer = [d \in Drafts |-> 0]
    /\ task = [h \in Handlers |-> Idle]
    /\ \E past \in Pasts :
          /\ edits = past.edits /\ failures = past.failures /\ restarts = past.restarts
          /\ roster = past.edits
          /\ rows = [d \in Drafts |-> IF d \in past.cancelled
                                        THEN [NoRow EXCEPT !.status = "CANCELLED"] ELSE NoRow]

Active(d) == rows[d].status = "ACTIVE"
NoneActive == \A d \in Drafts : ~Active(d)
(* Handlers and rows are taken in a fixed order: which one tells nothing.    *)
FreeHandler == CHOOSE h \in Handlers : task[h] = Idle
FreshDraft == CHOOSE d \in Drafts : rows[d].status = "NONE"
Free(h) == task[h] = Idle /\ h = FreeHandler
Go(h, new) == task' = [task EXCEPT ![h] = new]
Done(h) == Go(h, Idle)
SetTimer(d, deadline) == timer' = [timer EXCEPT ![d] = deadline]
-----------------------------------------------------------------------------
(* Starting a draft: the roster is read, a thread is opened, the row is      *)
(* created under a lock that other starts take too, and the first message    *)
(* posted.                                                                   *)
StartLoad(h) ==
    /\ Free(h) /\ match = "PENDING" /\ NoneActive
    /\ Go(h, [op |-> "start", base |-> roster])
    /\ UNCHANGED <<match, roster, rows, timer, counters>>

(* A slip: that no draft runs was seen before.                               *)
StartCreateUnchecked(h) ==
    /\ task[h].op = "start"
    /\ \E d \in Drafts : /\ rows[d].status = "NONE" /\ d = FreshDraft
                         /\ rows' = [rows EXCEPT ![d].status = "ACTIVE", ![d].base = task[h].base]
                         /\ Go(h, [op |-> "post", draft |-> d])
    /\ UNCHANGED <<match, roster, timer, counters>>

StartCreate(h) ==
    /\ task[h].op = "start"
    /\ IF NoneActive
       THEN \E d \in Drafts :
              /\ rows[d].status = "NONE" /\ d = FreshDraft
              /\ rows' = [rows EXCEPT ![d].status = "ACTIVE", ![d].base = task[h].base]
              /\ Go(h, [op |-> "post", draft |-> d])
       ELSE Done(h) /\ UNCHANGED rows
    /\ UNCHANGED <<match, roster, timer, counters>>

StartPost(h) ==
    /\ task[h].op = "post"
    /\ SetTimer(task[h].draft, 1) /\ Done(h)
    /\ UNCHANGED <<match, roster, rows, counters>>

(* cancelLobbyDraft: only an active draft is cancelled, and its timer then   *)
(* cleared.                                                                  *)
Cancel(d) ==
    IF Active(d)
    THEN rows' = [rows EXCEPT ![d].status = "CANCELLED"] /\ SetTimer(d, 0)
    ELSE UNCHANGED <<rows, timer>>

RollBack(h) ==
    /\ task[h].op = "rollBack"
    /\ Cancel(task[h].draft) /\ Done(h)
    /\ UNCHANGED <<match, roster, counters>>

CancelByUser(d) ==
    /\ Active(d) /\ Cancel(d)
    /\ UNCHANGED <<match, roster, task, counters>>
-----------------------------------------------------------------------------
(* A step of the draft. The state may stay at its deadline (a vote, a        *)
(* lock-in), come to another one, or have its heroes assigned. The handler   *)
(* goes on with the state it saved.                                          *)
Saved(d, row, timed) ==
    [op |-> "saved", draft |-> d, deadline |-> row.deadline, resolved |-> row.resolved,
     timed |-> timed]

Advanced(row) ==
    IF row.deadline < LastDeadline THEN [row EXCEPT !.deadline = @ + 1]
                                   ELSE [row EXCEPT !.resolved = TRUE]

Click(h, d) ==
    /\ Free(h) /\ Active(d) /\ ~rows[d].resolved
    /\ \E row \in {rows[d], Advanced(rows[d])} :
          /\ rows' = [rows EXCEPT ![d] = row]
          /\ Go(h, Saved(d, row, FALSE))
    /\ UNCHANGED <<match, roster, timer, counters>>

Arm(h) ==
    /\ task[h].op = "saved" /\ ~task[h].resolved
    /\ SetTimer(task[h].draft, task[h].deadline) /\ Done(h)
    /\ UNCHANGED <<match, roster, rows, counters>>

(* The teams become the roster: replaceMatchRoster, which reads the match    *)
(* and the draft and then writes, and takes the draft's status only if it is *)
(* still active.                                                             *)
Finalize(h) ==
    /\ task[h].op = "saved" /\ task[h].resolved
    /\ LET d == task[h].draft IN
       IF match = "PENDING" /\ Active(d)
       THEN Go(h, [task[h] EXCEPT !.op = "apply"]) /\ UNCHANGED <<rows, timer>>
       ELSE Cancel(d) /\ Done(h)
    /\ UNCHANGED <<match, roster, counters>>

(* A slip: the draft's status is not looked at again.                        *)
ApplyUnconditionally(h) ==
    /\ task[h].op = "apply"
    /\ roster' = task[h].draft
    /\ rows' = [rows EXCEPT ![task[h].draft].status = "COMPLETE"]
    /\ Go(h, [task[h] EXCEPT !.op = "applied"])
    /\ UNCHANGED <<match, timer, counters>>

Apply(h) ==
    /\ task[h].op = "apply"
    /\ LET d == task[h].draft IN
       IF Active(d)
       THEN /\ roster' = d /\ rows' = [rows EXCEPT ![d].status = "COMPLETE"]
            /\ Go(h, [task[h] EXCEPT !.op = "applied"])
       ELSE Done(h) /\ UNCHANGED <<roster, rows>>
    /\ UNCHANGED <<match, timer, counters>>

ClearTimer(h) ==
    /\ task[h].op = "applied"
    /\ SetTimer(task[h].draft, 0) /\ Done(h)
    /\ UNCHANGED <<match, roster, rows, counters>>
-----------------------------------------------------------------------------
(* The timeout. A timer may fire whenever it is set; one that was set for an *)
(* earlier deadline than the row's is usually early.                         *)
Fire(h) ==
    /\ Free(h)
    /\ \E d \in Drafts : /\ timer[d] # 0
                         /\ Go(h, [op |-> "timeout", draft |-> d, fired |-> timer[d], timed |-> TRUE])
                         /\ SetTimer(d, 0)
    /\ UNCHANGED <<match, roster, rows, counters>>

(* What the timeout saw: the row's deadline, 0 when it is null.              *)
SeenDeadline(d) == IF rows[d].resolved THEN 0 ELSE rows[d].deadline

TooEarly(h) ==
    /\ task[h].op = "timeout"
    /\ LET d == task[h].draft IN
       /\ Active(d) /\ SeenDeadline(d) \notin {0, task[h].fired}
       /\ SetTimer(d, rows[d].deadline)
    /\ Done(h)
    /\ UNCHANGED <<match, roster, rows, counters>>

TimeoutLoad(h) ==
    /\ task[h].op = "timeout"
    /\ LET d == task[h].draft IN
       IF Active(d)
       THEN Go(h, [op |-> "timeoutSave", draft |-> d, seen |-> SeenDeadline(d), timed |-> TRUE])
       ELSE Done(h)
    /\ UNCHANGED <<match, roster, rows, timer, counters>>

(* The timeout acts only on the deadline it saw; on another one it saves the *)
(* state as it is. A draft that is over, or was already resolved when seen,  *)
(* refuses it.                                                               *)
TimeoutSave(h) ==
    /\ task[h].op = "timeoutSave"
    /\ LET d == task[h].draft
           row == IF SeenDeadline(d) = task[h].seen THEN Advanced(rows[d]) ELSE rows[d]
       IN IF Active(d) /\ task[h].seen # 0
          THEN rows' = [rows EXCEPT ![d] = row] /\ Go(h, Saved(d, row, TRUE))
          ELSE Done(h) /\ UNCHANGED rows
    /\ UNCHANGED <<match, roster, timer, counters>>
-----------------------------------------------------------------------------
(* A roster edit reads, in its transaction, the match and whether a draft    *)
(* runs, and then writes.                                                    *)
EditLoad(h) ==
    /\ Free(h) /\ match = "PENDING" /\ NoneActive /\ edits < MaxEdits
    /\ Go(h, [op |-> "edit"]) /\ edits' = edits + 1
    /\ UNCHANGED <<match, roster, rows, timer, failures, restarts>>

Edit(h) ==
    /\ task[h].op = "edit"
    /\ roster' = edits /\ Done(h)
    /\ UNCHANGED <<match, rows, timer, counters>>

(* Starting or cancelling the match, then its draft.                         *)
CloseLoad(h, to) ==
    /\ Free(h) /\ match = "PENDING"
    /\ Go(h, [op |-> "close", to |-> to])
    /\ UNCHANGED <<match, roster, rows, timer, counters>>

Close(h) ==
    /\ task[h].op = "close"
    /\ match' = task[h].to
    /\ Go(h, [op |-> "closed"])
    /\ UNCHANGED <<roster, rows, timer, counters>>

(* The hourly cleanup closes a lobby by a conditional update.                *)
Expire(h) ==
    /\ Free(h) /\ match = "PENDING"
    /\ match' = "CANCELLED"
    /\ Go(h, [op |-> "closed"])
    /\ UNCHANGED <<roster, rows, timer, counters>>

CancelDraft(h) ==
    /\ task[h].op = "closed"
    /\ \/ \E d \in Drafts : Active(d) /\ Cancel(d)
       \/ NoneActive /\ UNCHANGED <<rows, timer>>
    /\ Done(h)
    /\ UNCHANGED <<match, roster, counters>>
-----------------------------------------------------------------------------
(* A call fails. A start that has its row cancels it, a timeout is tried     *)
(* again soon, anything else is given up.                                    *)
Timed(h) == task[h].op \in {"saved", "apply", "timeout", "timeoutSave"} /\ task[h].timed

Fail(h) ==
    /\ task[h].op \notin {"idle", "applied"} /\ failures < MaxFailures
    /\ failures' = failures + 1
    /\ IF task[h].op = "post" THEN Go(h, [task[h] EXCEPT !.op = "rollBack"]) ELSE Done(h)
    /\ IF Timed(h) THEN SetTimer(task[h].draft, Soon) ELSE UNCHANGED timer
    /\ UNCHANGED <<match, roster, rows, edits, restarts>>

(* A slip: only timers are set, resolved drafts are not taken up.            *)
RestartWithTimersOnly ==
    /\ restarts < MaxRestarts /\ restarts' = restarts + 1
    /\ timer' = [d \in Drafts |-> IF Active(d) THEN SeenDeadline(d) ELSE 0]
    /\ task' = [h \in Handlers |-> Idle]
    /\ UNCHANGED <<match, roster, rows, edits, failures>>

(* The bot stops and starts: timers are set again from the rows, and a draft *)
(* that is resolved and was not applied is.                                  *)
Restart ==
    /\ restarts < MaxRestarts /\ restarts' = restarts + 1
    /\ timer' = [d \in Drafts |-> IF Active(d) THEN SeenDeadline(d) ELSE 0]
    /\ \/ \E h \in Handlers, d \in Drafts :
            /\ Active(d) /\ rows[d].resolved
            /\ task' = [k \in Handlers |-> IF k = h THEN Saved(d, rows[d], FALSE) ELSE Idle]
       \/ /\ \A d \in Drafts : Active(d) => ~rows[d].resolved
          /\ task' = [h \in Handlers |-> Idle]
    /\ UNCHANGED <<match, roster, rows, edits, failures>>
-----------------------------------------------------------------------------
Continue(h) ==
    \/ StartCreate(h) \/ StartPost(h) \/ RollBack(h) \/ Arm(h) \/ Finalize(h) \/ Apply(h)
    \/ ClearTimer(h) \/ TooEarly(h) \/ TimeoutLoad(h) \/ TimeoutSave(h)
    \/ Edit(h) \/ Close(h) \/ CancelDraft(h)

Request(h) ==
    \/ StartLoad(h) \/ EditLoad(h) \/ Expire(h)
    \/ \E to \in {"IN_PROGRESS", "CANCELLED"} : CloseLoad(h, to)
    \/ \E d \in Drafts : Click(h, d)

FreezeNext ==
    \/ \E h \in Handlers : Request(h) \/ Continue(h) \/ Fire(h) \/ Fail(h)
    \/ \E d \in Drafts : CancelByUser(d)
    \/ Restart

FreezeSpec == FreezeInit /\ [][FreezeNext]_vars

(* A timer that is set fires, whatever else runs in between, and the event   *)
(* loop comes back to every handler. Nothing is asked of users.              *)
FairSpec ==
    /\ FreezeSpec
    /\ SF_vars(\E h \in Handlers : Fire(h))
    /\ \A h \in Handlers : WF_vars(Continue(h))
-----------------------------------------------------------------------------
(* A lobby has one active draft at most, however starts overlap (the lock    *)
(* and the second look of startLobbyDraft).                                  *)
OneActive == \A d, e \in Drafts : Active(d) /\ Active(e) => d = e

(* The variables have their types, and one draft at most is active.          *)
FreezeSound == FreezeTypeOK /\ OneActive

(* A draft that is over stays as it ended, and one whose heroes are assigned *)
(* keeps them: late clicks, timers, finalizations and cancellations change   *)
(* nothing.                                                                  *)
EndsStay ==
    [][\A d \in Drafts :
        /\ rows[d].status \in Over => rows'[d] = rows[d]
        /\ rows[d].resolved => rows'[d].resolved]_vars

(* The roster is a draft's teams only from the step that completes it, and   *)
(* every completed draft was, in that step, applied: never one that was      *)
(* cancelled, never twice.                                                   *)
AppliedOnce ==
    [][\A d \in Drafts :
        (rows[d].status # "COMPLETE" /\ rows'[d].status = "COMPLETE")
          <=> (roster # d /\ roster' = d)]_vars

(* How a draft ended is settled once, and the roster with it.                *)
OutcomesStand == EndsStay /\ AppliedOnce

(* Whatever the captains do, and with a call that fails or a restart at any  *)
(* moment, an active draft comes to its heroes or ends: early timers, late   *)
(* ones and those that were replaced leave one that is set.                  *)
Decides ==
    \A d \in Drafts : Active(d) ~> (~Active(d) \/ rows[d].resolved)

(* A draft whose heroes are assigned becomes the roster or is cancelled,     *)
(* restarts included, unless a call fails.                                   *)
Applies ==
    \A d \in Drafts : (Active(d) /\ rows[d].resolved) ~> (~Active(d) \/ failures > 0)

(* A draft that is started ends, and not without its teams in the roster     *)
(* unless somebody or a failing call ended it.                               *)
Ends == Decides /\ Applies
=============================================================================

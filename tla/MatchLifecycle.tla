--------------------------- MODULE MatchLifecycle ---------------------------
(***************************************************************************)
(* The life of a match row: services/match.  Discord handlers run as       *)
(* in-flight tasks of one Node process.  A handler that reads a match,     *)
(* awaits, and writes later is two steps (...Read, ...Write), so others    *)
(* interleave between them; a handler that re-reads the match under SELECT *)
(* ... FOR UPDATE is one step.  Rosters, flags and the numbers behind a    *)
(* rating are left to other modules: here a rated match has one effect on  *)
(* the ratings, identified by the winner and the mitigation it used.       *)
(***************************************************************************)
EXTENDS Integers, FiniteSets

CONSTANTS
    Matches,      \* match ids
    Lobbies,      \* ids of matches opened as lobbies; the others are ingested
    Rated,        \* the matches of the league; the others belong to the event
    NeedsReport,  \* matches whose game has postMatchStats = wos2_bot_v1
    Hosts,        \* Discord ids of hosts
    HostOf,       \* [Matches -> Hosts]
    Mods,         \* hosts with the match-mod role
    Reports,      \* external ids of WOS2 bot reports
    GameIds,      \* wc3stats game-list ids
    Percents,     \* the non-zero mitigation presets
    Tasks,        \* slots for handlers in flight
    Settings,     \* what a behaviour may contain: see `setting'
    None          \* null

ASSUME MatchAssumption ==
    /\ Lobbies \subseteq Matches
    /\ Rated \subseteq Matches
    /\ NeedsReport \subseteq Matches
    /\ HostOf \in [Matches -> Hosts]
    /\ Mods \subseteq Hosts
    /\ Percents \subseteq Nat \ {0}
    /\ Settings \subseteq [serial : BOOLEAN,     \* no handler starts before the last ended
                            failures : BOOLEAN,   \* one may die between two of its steps
                            ids : SUBSET Matches, \* the rows that may come to exist
                            games : SUBSET GameIds]
    /\ None \notin Matches \cup Reports \cup GameIds

VARIABLES
    status,    \* Match.status; "NONE" while the row does not exist
    occupied,  \* both teams have a player
    gameId,    \* Match.wc3statsGameId
    report,    \* externalId of the match's MatchStatsReport
    approval,  \* Match.approvalWinnerTeam, 0 for null
    percent,   \* Match.ratingMitigationPercent, 0 for null
    notice,    \* Match.mitigationApprovalMessageId is set
    result,    \* winning team according to MatchPlayer.result, 0 for null
    snaps,     \* the match has MatchRatingSnapshot rows
    effect,    \* what the match has done to PlayerRating
    task,      \* handlers in flight
    setting    \* chosen at the beginning, never changed

matchVars == <<status, occupied, gameId, report, approval, percent, notice,
               result, snaps, effect>>
vars == <<matchVars, task, setting>>

Statuses == {"NONE", "PENDING", "IN_PROGRESS", "WAITING_FOR_APPROVAL",
             "WAITING_FOR_MITIGATION_APPROVAL", "COMPLETED", "CANCELLED"}
Active == {"PENDING", "IN_PROGRESS"}
Reportable == {"IN_PROGRESS", "WAITING_FOR_APPROVAL",
               "WAITING_FOR_MITIGATION_APPROVAL"}
Teams == {1, 2}
Pcts == Percents \cup {0}

(* times: how often the match counts in the ratings, 2 for "more than once".*)
Effects == [kind : {"none", "applied", "restored"}, winner : Teams \cup {0},
            pct : Pcts, times : 0..2]
NoEffect == [kind |-> "none", winner |-> 0, pct |-> 0, times |-> 0]
Restored == [kind |-> "restored", winner |-> 0, pct |-> 0, times |-> 0]
Applied(w, p) == [kind |-> "applied", winner |-> w, pct |-> p, times |-> 1]
AppliedAgain(w, p, e) ==
    [Applied(w, p) EXCEPT !.times = IF e.times = 0 THEN 1 ELSE 2]

Ops == {"idle", "create", "editRoster", "linkGame", "start", "cancel",
        "fillCreate", "fillRoster", "cancelStale", "upload",
        "ingestCreate", "ingestPersist",
        "setWinner", "complete", "requestMitigation", "notify",
        "setPercent", "unquit"}

(* What a handler carries from one step to the next.                       *)
TaskStates == [op : Ops, m : Matches \cup {None}, w : Teams \cup {0}, p : Pcts,
               x : Reports \cup {None}, g : GameIds \cup {None},
               ms : SUBSET Matches]
Idle == [op |-> "idle", m |-> None, w |-> 0, p |-> 0, x |-> None, g |-> None,
         ms |-> {}]
Task(op, m) == [Idle EXCEPT !.op = op, !.m = m]

TypeOK ==
    /\ status \in [Matches -> Statuses]
    /\ occupied \in [Matches -> BOOLEAN]
    /\ gameId \in [Matches -> GameIds \cup {None}]
    /\ report \in [Matches -> Reports \cup {None}]
    /\ approval \in [Matches -> Teams \cup {0}]
    /\ percent \in [Matches -> Pcts]
    /\ notice \in [Matches -> BOOLEAN]
    /\ result \in [Matches -> Teams \cup {0}]
    /\ snaps \in [Matches -> BOOLEAN]
    /\ effect \in [Matches -> Effects]
    /\ task \in [Tasks -> TaskStates]
    /\ setting \in Settings

Init ==
    /\ status = [m \in Matches |-> "NONE"]
    /\ occupied = [m \in Matches |-> FALSE]
    /\ gameId = [m \in Matches |-> None]
    /\ report = [m \in Matches |-> None]
    /\ approval = [m \in Matches |-> 0]
    /\ percent = [m \in Matches |-> 0]
    /\ notice = [m \in Matches |-> FALSE]
    /\ result = [m \in Matches |-> 0]
    /\ snaps = [m \in Matches |-> FALSE]
    /\ effect = [m \in Matches |-> NoEffect]
    /\ task = [t \in Tasks |-> Idle]
    /\ setting \in Settings

-----------------------------------------------------------------------------
(* Handlers in flight.                                                     *)

Quiet == setting.serial => \A u \in Tasks : task[u] = Idle

Begin(t, new) ==
    /\ task[t] = Idle
    /\ Quiet
    /\ task' = [task EXCEPT ![t] = new]
    /\ UNCHANGED setting

Continue(t, op) == task' = [task EXCEPT ![t].op = op] /\ UNCHANGED setting
Finish(t) == task' = [task EXCEPT ![t] = Idle] /\ UNCHANGED setting

(* An id no row has and no handler in flight knows.                        *)
Unclaimed(m) ==
    /\ m \in setting.ids
    /\ status[m] = "NONE"
    /\ \A u \in Tasks : task[u].m # m

SameTenant(m, n) == m \in Rated <=> n \in Rated

-----------------------------------------------------------------------------
(* Lobby: create, edit, link, start, cancel.                               *)

(* Slip: the cap looks at started lobbies only.                            *)
UnderHostCapStarted(m) ==
    \/ HostOf[m] \in Mods
    \/ \A n \in Matches : SameTenant(m, n) /\ HostOf[n] = HostOf[m]
                             => status[n] # "IN_PROGRESS"

UnderHostCap(m) ==
    \/ HostOf[m] \in Mods
    \/ \A n \in Matches : SameTenant(m, n) /\ HostOf[n] = HostOf[m]
                             => status[n] \notin Active

GameFreeInLeague(m, g) ==
    g # None /\ m \in Rated
        => \A n \in Rated : gameId[n] = g => status[n] \notin Active

CreateRead(t, m, g) ==
    /\ m \in Lobbies
    /\ Unclaimed(m)
    /\ UnderHostCap(m)
    /\ GameFreeInLeague(m, g)
    /\ Begin(t, [Task("create", m) EXCEPT !.g = g])
    /\ UNCHANGED matchVars

CreatePending(m, g, full) ==
    /\ status' = [status EXCEPT ![m] = "PENDING"]
    /\ gameId' = [gameId EXCEPT ![m] = g]
    /\ occupied' = [occupied EXCEPT ![m] = full]
    /\ UNCHANGED <<report, approval, percent, notice, result, snaps, effect>>

CreateWrite(t, full) ==
    /\ task[t].op = "create"
    /\ CreatePending(task[t].m, task[t].g, full)
    /\ Finish(t)

EditRosterRead(t, m) ==
    /\ status[m] = "PENDING"
    /\ Begin(t, Task("editRoster", m))
    /\ UNCHANGED matchVars

(* Seats that change are rewritten with result null.                       *)
ReplaceRoster(m, full) ==
    /\ occupied' = [occupied EXCEPT ![m] = full]
    /\ result' = [result EXCEPT ![m] = 0]
    /\ UNCHANGED <<status, gameId, report, approval, percent, notice, snaps,
                   effect>>

EditRosterWrite(t, full) ==
    /\ task[t].op = "editRoster"
    /\ ReplaceRoster(task[t].m, full)
    /\ Finish(t)

LinkGameRead(t, m, g) ==
    /\ status[m] = "PENDING"
    /\ \A n \in Matches \ {m} : gameId[n] = g => status[n] \notin Active
    /\ Begin(t, [Task("linkGame", m) EXCEPT !.g = g])
    /\ UNCHANGED matchVars

LinkGameWrite(t) ==
    /\ task[t].op = "linkGame"
    /\ gameId' = [gameId EXCEPT ![task[t].m] = task[t].g]
    /\ Finish(t)
    /\ UNCHANGED <<status, occupied, report, approval, percent, notice,
                   result, snaps, effect>>

StartRead(t, m) ==
    /\ status[m] = "PENDING"
    /\ occupied[m]
    /\ Begin(t, Task("start", m))
    /\ UNCHANGED matchVars

StartWrite(t) ==
    /\ task[t].op = "start"
    /\ status' = [status EXCEPT ![task[t].m] = "IN_PROGRESS"]
    /\ Finish(t)
    /\ UNCHANGED <<occupied, gameId, report, approval, percent, notice,
                   result, snaps, effect>>

CancelRead(t, m) ==
    /\ status[m] = "PENDING"
    /\ Begin(t, Task("cancel", m))
    /\ UNCHANGED matchVars

CancelWrite(t) ==
    LET m == task[t].m IN
    /\ task[t].op = "cancel"
    /\ report' = [report EXCEPT ![m] = None]
    /\ status' = [status EXCEPT ![m] = "CANCELLED"]
    /\ Finish(t)
    /\ UNCHANGED <<occupied, gameId, approval, percent, notice, result,
                   snaps, effect>>

(* The hourly cleanup; a lobby's age is not modelled, any may be stale.    *)
CancelStaleRead(t, ms) ==
    /\ ms # {}
    /\ \A m \in ms : status[m] = "PENDING"
    /\ Begin(t, [Task("cancelStale", None) EXCEPT !.ms = ms])
    /\ UNCHANGED matchVars

CancelStaleWrite(t) ==
    LET ms == task[t].ms IN
    /\ task[t].op = "cancelStale"
    /\ report' = [m \in Matches |-> IF m \in ms THEN None ELSE report[m]]
    /\ status' = [m \in Matches |-> IF m \in ms /\ status[m] = "PENDING"
                                      THEN "CANCELLED" ELSE status[m]]
    /\ Finish(t)
    /\ UNCHANGED <<occupied, gameId, approval, percent, notice, result,
                   snaps, effect>>

-----------------------------------------------------------------------------
(* Reports of the WOS2 bot: uploaded to a match, or ingested as a new one. *)

HasId(m, x) == {n \in Matches \ {m} : report[n] = x}

(* assertWos2ReportExternalIdUnused: throws while a live match has the id, *)
(* takes it from a cancelled one.                                          *)
IdUnused(m, x) == \A n \in HasId(m, x) : status[n] = "CANCELLED"
WithoutId(m, x) == [n \in Matches |-> IF n \in HasId(m, x) THEN None ELSE report[n]]

UploadRead(t, m, x) ==
    /\ status[m] = "IN_PROGRESS"
    /\ m \in NeedsReport
    /\ Begin(t, [Task("upload", m) EXCEPT !.x = x])
    /\ UNCHANGED matchVars

(* persistWos2MatchStats: the check, then the transaction that replaces    *)
(* the match's report.                                                     *)
PersistReport(m, x) ==
    /\ IdUnused(m, x)
    /\ report' = [WithoutId(m, x) EXCEPT ![m] = x]
    /\ UNCHANGED <<status, occupied, gameId, approval, percent, notice,
                   result, snaps, effect>>

UploadWrite(t) ==
    /\ task[t].op = "upload"
    /\ PersistReport(task[t].m, task[t].x)
    /\ Finish(t)

UploadRefused(t) ==
    /\ task[t].op = "upload"
    /\ ~IdUnused(task[t].m, task[t].x)
    /\ Finish(t)
    /\ UNCHANGED matchVars

(* A pending lobby filled from a report: its roster, then the report.      *)
FillCreateRead(t, m, x) ==
    /\ m \in Lobbies \cap NeedsReport
    /\ Unclaimed(m)
    /\ UnderHostCap(m)
    /\ Begin(t, [Task("fillCreate", m) EXCEPT !.x = x])
    /\ UNCHANGED matchVars

FillCreateWrite(t) ==
    /\ task[t].op = "fillCreate"
    /\ CreatePending(task[t].m, None, TRUE)
    /\ Continue(t, "upload")

FillRosterRead(t, m, x) ==
    /\ m \in NeedsReport
    /\ status[m] = "PENDING"
    /\ Begin(t, [Task("fillRoster", m) EXCEPT !.x = x])
    /\ UNCHANGED matchVars

FillRosterWrite(t) ==
    /\ task[t].op = "fillRoster"
    /\ ReplaceRoster(task[t].m, TRUE)
    /\ Continue(t, "upload")

IngestRead(t, m, x) ==
    /\ m \in (Rated \cap NeedsReport) \ Lobbies
    /\ Unclaimed(m)
    /\ IdUnused(m, x)
    /\ report' = WithoutId(m, x)
    /\ Begin(t, [Task("ingestCreate", m) EXCEPT !.x = x])
    /\ UNCHANGED <<status, occupied, gameId, approval, percent, notice,
                   result, snaps, effect>>

(* The report may suggest a winner.                                        *)
IngestCreate(t, w) ==
    LET m == task[t].m IN
    /\ task[t].op = "ingestCreate"
    /\ status' = [status EXCEPT ![m] = "WAITING_FOR_APPROVAL"]
    /\ approval' = [approval EXCEPT ![m] = w]
    /\ occupied' = [occupied EXCEPT ![m] = TRUE]
    /\ Continue(t, "ingestPersist")
    /\ UNCHANGED <<gameId, report, percent, notice, result, snaps, effect>>

IngestPersist(t) ==
    /\ task[t].op = "ingestPersist"
    /\ PersistReport(task[t].m, task[t].x)
    /\ Finish(t)

(* Slip: a failed ingest leaves the match it created.                      *)
IngestUndoKeepingMatch(t) ==
    /\ task[t].op = "ingestPersist"
    /\ ~IdUnused(task[t].m, task[t].x)
    /\ Finish(t)
    /\ UNCHANGED matchVars

(* Persisting failed: the match just created is deleted again.             *)
IngestUndo(t) ==
    LET m == task[t].m IN
    /\ task[t].op = "ingestPersist"
    /\ ~IdUnused(m, task[t].x)
    /\ status' = [status EXCEPT ![m] = "NONE"]
    /\ approval' = [approval EXCEPT ![m] = 0]
    /\ occupied' = [occupied EXCEPT ![m] = FALSE]
    /\ Finish(t)
    /\ UNCHANGED <<gameId, report, percent, notice, result, snaps, effect>>

-----------------------------------------------------------------------------
(* Results.  completeMatch re-reads the match under its row lock, refuses  *)
(* a league match that already has snapshots, and commits ratings, results *)
(* and status together.                                                    *)

(* Slip: existing snapshots do not stop a second completion.               *)
CompleteMatchAgain(m, w, p) ==
    /\ status[m] \in Reportable
    /\ m \in NeedsReport => report[m] # None
    /\ status' = [status EXCEPT ![m] = "COMPLETED"]
    /\ result' = [result EXCEPT ![m] = w]
    /\ snaps' = [snaps EXCEPT ![m] = @ \/ m \in Rated]
    /\ effect' = IF m \in Rated THEN [effect EXCEPT ![m] = AppliedAgain(w, p, @)]
                                ELSE effect
    /\ percent' = IF m \in Rated THEN [percent EXCEPT ![m] = p] ELSE percent
    /\ UNCHANGED <<occupied, gameId, report, approval, notice>>

CompleteMatch(m, w, p) ==
    /\ status[m] \in Reportable
    /\ m \in NeedsReport => report[m] # None
    /\ m \in Rated => ~snaps[m]
    /\ status' = [status EXCEPT ![m] = "COMPLETED"]
    /\ result' = [result EXCEPT ![m] = w]
    /\ IF m \in Rated
         THEN /\ snaps' = [snaps EXCEPT ![m] = TRUE]
              /\ effect' = [effect EXCEPT ![m] = AppliedAgain(w, p, @)]
              /\ percent' = [percent EXCEPT ![m] = p]
              /\ approval' = [approval EXCEPT ![m] = 0]
              /\ notice' = [notice EXCEPT ![m] = FALSE]
         ELSE UNCHANGED <<snaps, effect, percent, approval, notice>>
    /\ UNCHANGED <<occupied, gameId, report>>

(* Report Winner, /match complete.                                         *)
ReportResult(m, w, p) ==
    /\ Quiet
    /\ CompleteMatch(m, w, p)
    /\ UNCHANGED <<task, setting>>

SetApprovalWinnerRead(t, m, w) ==
    /\ status[m] = "WAITING_FOR_APPROVAL"
    /\ Begin(t, [Task("setWinner", m) EXCEPT !.w = w])
    /\ UNCHANGED matchVars

SetApprovalWinnerWrite(t) ==
    /\ task[t].op = "setWinner"
    /\ status[task[t].m] # "NONE"
    /\ approval' = [approval EXCEPT ![task[t].m] = task[t].w]
    /\ Finish(t)
    /\ UNCHANGED <<status, occupied, gameId, report, percent, notice, result,
                   snaps, effect>>

(* The row was deleted by an ingest that failed: the update throws.        *)
SetApprovalWinnerRefused(t) ==
    /\ task[t].op = "setWinner"
    /\ status[task[t].m] = "NONE"
    /\ Finish(t)
    /\ UNCHANGED matchVars

ApproveWaitingRead(t, m) ==
    /\ status[m] = "WAITING_FOR_APPROVAL"
    /\ approval[m] \in Teams
    /\ Begin(t, [Task("complete", m) EXCEPT !.w = approval[m]])
    /\ UNCHANGED matchVars

ApproveMitigationRead(t, m) ==
    /\ status[m] = "WAITING_FOR_MITIGATION_APPROVAL"
    /\ approval[m] \in Teams
    /\ Begin(t, [Task("complete", m) EXCEPT !.w = approval[m], !.p = percent[m]])
    /\ UNCHANGED matchVars

(* completeMatch called with the winner and the percent read before.       *)
ApproveWrite(t) ==
    /\ task[t].op = "complete"
    /\ CompleteMatch(task[t].m, task[t].w, task[t].p)
    /\ Finish(t)

ApproveRefused(t) ==
    LET m == task[t].m IN
    /\ task[t].op = "complete"
    /\ \/ status[m] \notin Reportable
       \/ m \in NeedsReport /\ report[m] = None
       \/ m \in Rated /\ snaps[m]
    /\ Finish(t)
    /\ UNCHANGED matchVars

(* Slip: a status the database does not have.                              *)
RejectWaitingAs(m) ==
    /\ Quiet
    /\ status[m] = "WAITING_FOR_APPROVAL"
    /\ status' = [status EXCEPT ![m] = "REJECTED"]
    /\ UNCHANGED <<occupied, gameId, report, approval, percent, notice,
                   result, snaps, effect, task, setting>>

RejectWaiting(m) ==
    /\ Quiet
    /\ status[m] = "WAITING_FOR_APPROVAL"
    /\ status' = [status EXCEPT ![m] = "CANCELLED"]
    /\ UNCHANGED <<occupied, gameId, report, approval, percent, notice,
                   result, snaps, effect, task, setting>>

CancelInProgress(m) ==
    /\ Quiet
    /\ status[m] = "IN_PROGRESS"
    /\ status' = [status EXCEPT ![m] = "CANCELLED"]
    /\ UNCHANGED <<occupied, gameId, report, approval, percent, notice,
                   result, snaps, effect, task, setting>>

-----------------------------------------------------------------------------
(* A host's result with mitigation waits for a moderator.                  *)

RequestMitigationRead(t, m, w, p) ==
    /\ status[m] = "IN_PROGRESS"
    /\ Begin(t, [Task("requestMitigation", m) EXCEPT !.w = w, !.p = p])
    /\ UNCHANGED matchVars

(* The SELECT ... FOR UPDATE of this transaction is not looked at.         *)
RequestMitigationWrite(t) ==
    LET m == task[t].m IN
    /\ task[t].op = "requestMitigation"
    /\ status' = [status EXCEPT ![m] = "WAITING_FOR_MITIGATION_APPROVAL"]
    /\ approval' = [approval EXCEPT ![m] = task[t].w]
    /\ percent' = [percent EXCEPT ![m] = task[t].p]
    /\ Continue(t, "notify")
    /\ UNCHANGED <<occupied, gameId, report, notice, result, snaps, effect>>

(* The channel message is posted, then its id is stored.                   *)
RequestMitigationNotify(t) ==
    /\ task[t].op = "notify"
    /\ notice' = [notice EXCEPT ![task[t].m] = TRUE]
    /\ Finish(t)
    /\ UNCHANGED <<status, occupied, gameId, report, approval, percent,
                   result, snaps, effect>>

SetPercentRead(t, m, p) ==
    /\ status[m] = "WAITING_FOR_MITIGATION_APPROVAL"
    /\ Begin(t, [Task("setPercent", m) EXCEPT !.p = p])
    /\ UNCHANGED matchVars

SetPercentWrite(t) ==
    /\ task[t].op = "setPercent"
    /\ percent' = [percent EXCEPT ![task[t].m] = task[t].p]
    /\ Finish(t)
    /\ UNCHANGED <<status, occupied, gameId, report, approval, notice,
                   result, snaps, effect>>

(* Slip: the winner that was not approved is kept.                         *)
RejectMitigationKeepingWinner(m) ==
    /\ Quiet
    /\ status[m] = "WAITING_FOR_MITIGATION_APPROVAL"
    /\ status' = [status EXCEPT ![m] = "IN_PROGRESS"]
    /\ percent' = [percent EXCEPT ![m] = 0]
    /\ notice' = [notice EXCEPT ![m] = FALSE]
    /\ UNCHANGED <<occupied, gameId, report, approval, result, snaps, effect,
                   task, setting>>

RejectMitigation(m) ==
    /\ Quiet
    /\ status[m] = "WAITING_FOR_MITIGATION_APPROVAL"
    /\ status' = [status EXCEPT ![m] = "IN_PROGRESS"]
    /\ approval' = [approval EXCEPT ![m] = 0]
    /\ percent' = [percent EXCEPT ![m] = 0]
    /\ notice' = [notice EXCEPT ![m] = FALSE]
    /\ UNCHANGED <<occupied, gameId, report, result, snaps, effect, task, setting>>

-----------------------------------------------------------------------------
(* Corrections of a completed match; whether it is still inside the 24h    *)
(* window is left open, so a correction may be refused at any time.        *)

(* Slip: the match is rated again without its mitigation.                  *)
FlipMatchUnmitigated(m, w) ==
    /\ status[m] = "COMPLETED"
    /\ m \in Rated => snaps[m]
    /\ result' = [result EXCEPT ![m] = w]
    /\ effect' = IF m \in Rated THEN [effect EXCEPT ![m] = Applied(w, 0)] ELSE effect
    /\ UNCHANGED <<status, occupied, gameId, report, approval, percent,
                   notice, snaps>>

(* The snapshots are restored, then the match is rated again.              *)
FlipMatch(m, w) ==
    /\ status[m] = "COMPLETED"
    /\ m \in Rated => snaps[m]
    /\ result' = [result EXCEPT ![m] = w]
    /\ IF m \in Rated
         THEN effect' = [effect EXCEPT ![m] = Applied(w, percent[m])]
         ELSE UNCHANGED effect
    /\ UNCHANGED <<status, occupied, gameId, report, approval, percent,
                   notice, snaps>>

Flip(m, w) ==
    /\ Quiet
    /\ FlipMatch(m, w)
    /\ UNCHANGED <<task, setting>>

(* clearMatchQuitters flips to the winner it read before.                  *)
UnquitRead(t, m) ==
    /\ status[m] = "COMPLETED"
    /\ Begin(t, [Task("unquit", m) EXCEPT !.w = IF result[m] = 2 THEN 2 ELSE 1])
    /\ UNCHANGED matchVars

UnquitWrite(t) ==
    /\ task[t].op = "unquit"
    /\ FlipMatch(task[t].m, task[t].w)
    /\ Finish(t)

UnquitRefused(t) ==
    LET m == task[t].m IN
    /\ task[t].op = "unquit"
    /\ status[m] # "COMPLETED" \/ (m \in Rated /\ ~snaps[m])
    /\ Finish(t)
    /\ UNCHANGED matchVars

(* Slip: the ratings are restored but the match stays completed.           *)
VoidKeepingStatus(m) ==
    /\ Quiet
    /\ status[m] = "COMPLETED"
    /\ m \in Rated => snaps[m]
    /\ result' = [result EXCEPT ![m] = 0]
    /\ effect' = IF m \in Rated THEN [effect EXCEPT ![m] = Restored] ELSE effect
    /\ UNCHANGED <<status, occupied, gameId, report, approval, percent, notice,
                   snaps, task, setting>>

Void(m) ==
    /\ Quiet
    /\ status[m] = "COMPLETED"
    /\ m \in Rated => snaps[m]
    /\ status' = [status EXCEPT ![m] = "CANCELLED"]
    /\ result' = [result EXCEPT ![m] = 0]
    /\ report' = [report EXCEPT ![m] = None]
    /\ effect' = IF m \in Rated THEN [effect EXCEPT ![m] = Restored] ELSE effect
    /\ UNCHANGED <<occupied, gameId, approval, percent, notice, snaps, task, setting>>

-----------------------------------------------------------------------------
(* A handler dies between two steps: a Discord or database error is thrown *)
(* out of it, or the bot restarts.  What it has committed stays.           *)
HandlerDies(t) ==
    /\ setting.failures
    /\ task[t] # Idle
    /\ Finish(t)
    /\ UNCHANGED matchVars

LobbyStep(t) ==
    \/ \E m \in Matches, g \in setting.games \cup {None} : CreateRead(t, m, g)
    \/ \E full \in BOOLEAN : CreateWrite(t, full) \/ EditRosterWrite(t, full)
    \/ \E m \in Matches, g \in setting.games : LinkGameRead(t, m, g)
    \/ \E m \in Matches : EditRosterRead(t, m) \/ StartRead(t, m) \/ CancelRead(t, m)
    \/ \E ms \in SUBSET Matches : CancelStaleRead(t, ms)
    \/ LinkGameWrite(t) \/ StartWrite(t) \/ CancelWrite(t) \/ CancelStaleWrite(t)

ReportStep(t) ==
    \/ \E m \in Matches, x \in Reports :
         \/ UploadRead(t, m, x) \/ IngestRead(t, m, x)
         \/ FillCreateRead(t, m, x) \/ FillRosterRead(t, m, x)
    \/ \E w \in Teams \cup {0} : IngestCreate(t, w)
    \/ UploadWrite(t) \/ UploadRefused(t) \/ FillCreateWrite(t)
    \/ FillRosterWrite(t) \/ IngestPersist(t) \/ IngestUndo(t)

ResultStep(t) ==
    \/ \E m \in Matches, w \in Teams :
         SetApprovalWinnerRead(t, m, w)
    \/ \E m \in Matches :
         ApproveWaitingRead(t, m) \/ ApproveMitigationRead(t, m) \/ UnquitRead(t, m)
    \/ \E m \in Matches, w \in Teams, p \in Percents : RequestMitigationRead(t, m, w, p)
    \/ \E m \in Matches, p \in Pcts : SetPercentRead(t, m, p)
    \/ SetApprovalWinnerWrite(t) \/ SetApprovalWinnerRefused(t)
    \/ ApproveWrite(t) \/ ApproveRefused(t)
    \/ RequestMitigationWrite(t) \/ RequestMitigationNotify(t) \/ SetPercentWrite(t)
    \/ UnquitWrite(t) \/ UnquitRefused(t)

LockedStep(m) ==
    \/ \E w \in Teams, p \in Pcts : ReportResult(m, w, p)
    \/ \E w \in Teams : Flip(m, w)
    \/ RejectWaiting(m) \/ CancelInProgress(m) \/ RejectMitigation(m) \/ Void(m)

Next ==
    \/ \E t \in Tasks : LobbyStep(t) \/ ReportStep(t) \/ ResultStep(t) \/ HandlerDies(t)
    \/ \E m \in Matches : LockedStep(m)

Spec == Init /\ [][Next]_vars

-----------------------------------------------------------------------------
(* What holds however handlers overlap.                                    *)

(* The match-report design's "no partial COMPLETED without ratings": a     *)
(* completed league match is in the ratings, whichever handlers raced to   *)
(* complete, cancel, start or correct it.                                  *)
RatedWhenCompleted ==
    \A m \in Rated : status[m] = "COMPLETED" => effect[m].kind = "applied"

(* Snapshots exist exactly for the matches that ever touched the ratings,  *)
(* so what completeMatch applied can be restored by flip and void, and a   *)
(* second completion, of whatever match was put back into play, is refused.*)
SnapshotBacked ==
    \A m \in Rated : snaps[m] <=> effect[m].kind # "none"

(* The ratings and the match agree on what has been done: a completed      *)
(* match is in them, and whatever is in them can be taken back.            *)
RatingsBacked == RatedWhenCompleted /\ SnapshotBacked

(* "never leave an orphan WAITING_FOR_APPROVAL match": a match created for *)
(* a bot report that waits for approval has that report, or the ingest     *)
(* that created it is still storing it, however many ingests of one report *)
(* overlap. (One that dies between the two leaves an orphan behind.)       *)
NoOrphanWaiting ==
    ~setting.failures =>
        \A m \in Matches : status[m] = "WAITING_FOR_APPROVAL" =>
            \/ report[m] # None
            \/ \E t \in Tasks : task[t].op = "ingestPersist" /\ task[t].m = m

(* The ratings' view of a match: see RatingEffect.                         *)
EffectSpec == INSTANCE RatingEffect WITH book <- effect
RatedOnce == EffectSpec!Spec

-----------------------------------------------------------------------------
(* What holds when handlers do not overlap, deaths included.               *)

(* A league match is in the ratings while it is completed and at no other  *)
(* time, with the winner its players' results name and the mitigation its  *)
(* row records, through any sequence of approvals, corrections and voids.  *)
LedgerExact ==
    setting.serial => \A m \in Rated :
        /\ effect[m].kind = "applied" <=> status[m] = "COMPLETED"
        /\ status[m] = "COMPLETED" => effect[m] = Applied(result[m], percent[m])

(* Nothing a pending result needs is left behind once it is decided:       *)
(* approvalWinnerTeam and the mitigation message are "cleared on           *)
(* complete/reject", so no later Approve finds a stale winner.             *)
DecisionCleared ==
    setting.serial =>
        \A m \in Rated : status[m] \in {"PENDING", "IN_PROGRESS", "COMPLETED"} =>
            approval[m] = 0 /\ ~notice[m]

(* A completed match of a game with bot reports still has its report,      *)
(* whatever is uploaded, ingested or cancelled for other matches.          *)
CompletedHasReport ==
    setting.serial =>
        \A m \in NeedsReport : status[m] = "COMPLETED" => report[m] # None

(* A match that was decided is decided for good reason and completely: its *)
(* report is there and no question about it is open.                       *)
Decided == DecisionCleared /\ CompletedHasReport

(* Two open lobbies of one league never claim the same game of the game    *)
(* list, and a host without the mod role never has two of them pending.    *)
PendingLobbiesDistinct ==
    setting.serial => \A m, n \in Rated :
        m # n /\ status[m] = "PENDING" /\ status[n] = "PENDING" =>
            /\ gameId[m] # None => gameId[m] # gameId[n]
            /\ HostOf[m] \notin Mods => HostOf[m] # HostOf[n]

-----------------------------------------------------------------------------
(* What the repository says and the code does not keep.                    *)

(* "A moderator must Approve the request in this channel before ratings    *)
(* apply": a match waiting for that approval is not in the ratings.        *)
MitigationBeforeRatings ==
    \A m \in Rated : status[m] = "WAITING_FOR_MITIGATION_APPROVAL" =>
        effect[m].kind = "none"
=============================================================================

---------------------------- MODULE ReportWizard ----------------------------
(* How the staff report the end of one match through Discord: the pages of   *)
(* the "Report Winner" and "Cancel" wizards, the menus that mark players,    *)
(* the approval of a softened result, the panel of a match that came in      *)
(* through the API, and the /match commands.                                 *)
(*                                                                           *)
(* A page keeps what was chosen so far in the ids of its buttons, so several *)
(* members of staff, or one of them twice, work on the same match at once,   *)
(* each from what their page said when it was drawn. A click that writes is  *)
(* a job of several steps: the check of the match, then the write.           *)
(*                                                                           *)
(* Ratings, penalties and counters are left to MatchLifecycle; who may click *)
(* is settled by Staff, the host and the moderators, and Mods.               *)
EXTENDS Naturals, FiniteSets

CONSTANTS
    Slots,        \* the seats of the match
    Staff, Mods,  \* those who may manage it, and the moderators among them
    Percents,     \* the presets that soften a result
    Jobs,         \* clicks and commands at work at once
    Named,        \* the lists of slots that commands name: the bound of a run
    Plans,        \* sets of features used together: the bound of a run
    MaxWrites,    \* how often marks are written
    None

VARIABLES
    match,    \* the match's row and its players' marks
    page,     \* the private page each member of staff has open
    job,      \* what each click does
    posts,    \* what was asked of moderators, and what they made of it
    open,     \* messages about it with buttons; two stand for more
    writes,   \* how often marks were written
    result,   \* how the match ended, and what its page had said
    plan

vars == <<match, page, job, posts, open, writes, result, plan>>

Teams == {1, 2}
Marks == {"quit", "grief", "dc"}
Statuses == {"IN_PROGRESS", "WAITING_FOR_APPROVAL", "WAITING_FOR_MITIGATION_APPROVAL",
             "COMPLETED", "CANCELLED"}
Reportable == {"IN_PROGRESS", "WAITING_FOR_APPROVAL", "WAITING_FOR_MITIGATION_APPROVAL"}

(* A result as a page, a request or a command names it: the winner, the      *)
(* slots that quit, griefed or disconnected, and the softening; `seen' is    *)
(* the number of writes of marks when it was drawn.                          *)
Claims == [winner : Teams \cup {None}, quit : (SUBSET Slots) \cup {None},
           grief : (SUBSET Slots) \cup {None}, dc : (SUBSET Slots) \cup {None},
           percent : Percents \cup {0}, seen : 0 .. MaxWrites]
NoClaim == [winner |-> None, quit |-> {}, grief |-> {}, dc |-> {}, percent |-> 0, seen |-> 0]

Steps == {"griefers", "dcs", "quitters", "winner", "stats", "confirm",
          "cancelGriefers", "cancelDcs", "cancelConfirm"} \cup Marks
NoPage == [at |-> "none", claim |-> NoClaim]

Idle == [op |-> "idle", by |-> None, via |-> "none", claim |-> NoClaim, then |-> "none"]
Ops == {"idle", "quit", "grief", "dc", "request", "pending", "post", "complete", "cancel", "percent"}
Vias == {"none", "wizard", "command", "approve", "panel"}

Results == [via : Vias, by : Staff, claim : Claims, wrote : Claims]

ASSUME ReportWizardAssumption ==
    /\ Mods \subseteq Staff
    /\ Percents \subseteq 1 .. 100
    /\ MaxWrites \in Nat
    /\ Named \subseteq Claims
    /\ None \notin Results /\ \A s \in SUBSET Slots : s # None

TypeOK ==
    /\ match \in [status : Statuses, quit : SUBSET Slots, grief : SUBSET Slots,
                  dc : SUBSET Slots, report : BOOLEAN, winner : Teams \cup {None},
                  percent : Percents \cup {0}]
    /\ page \in [Staff -> [at : Steps \cup {"none"}, claim : Claims]]
    /\ job \in [Jobs -> [op : Ops, by : Staff \cup {None}, via : Vias, claim : Claims,
                         then : Steps \cup {"none"}]]
    /\ posts \subseteq Claims /\ open \in 0 .. 2
    /\ writes \in 0 .. MaxWrites
    /\ result \in Results \cup {None}
    /\ plan \in Plans

Init ==
    /\ plan \in Plans
    /\ match = [status |-> IF "panel" \in plan THEN "WAITING_FOR_APPROVAL" ELSE "IN_PROGRESS",
                quit |-> {}, grief |-> {}, dc |-> {}, report |-> "panel" \in plan,
                winner |-> None, percent |-> 0]
    /\ page = [a \in Staff |-> NoPage]
    /\ job = [j \in Jobs |-> Idle]
    /\ posts = {} /\ open = 0
    /\ writes = 0
    /\ result = None
-----------------------------------------------------------------------------
(* Marks. One player's marks are one row, written at once: who quit has      *)
(* neither griefed nor disconnected, who griefed or disconnected has not     *)
(* quit.                                                                     *)
setQuitters(m, s) == [m EXCEPT !.quit = s, !.grief = @ \ s, !.dc = @ \ s]
setGriefers(m, s) == [m EXCEPT !.grief = s, !.quit = @ \ s]
(* Slip: a disconnect is stacked on a quit. *)
setDcsStacked(m, s) == [m EXCEPT !.dc = s]
setDcs(m, s) == [m EXCEPT !.dc = s, !.quit = @ \ s]

Marked(m, kind, s) ==
    CASE kind = "quit"  -> setQuitters(m, s)
      [] kind = "grief" -> setGriefers(m, s)
      [] kind = "dc"    -> setDcs(m, s)

preselectedDcSlots(m) == m.dc \ m.quit

(* What a page says of the marks already stored is what it read when drawn.  *)
Drawn(claim, m, n) == [claim EXCEPT !.dc = preselectedDcSlots(m), !.seen = n]

(* A private page replaces the one its reader had in the channel.            *)
Show(a, at, claim) ==
    page' = [page EXCEPT ![a] = [at |-> at, claim |-> Drawn(claim, match, writes)]]

(* The page that a page's click leads to; only the step that stores marks    *)
(* draws the next one later, when they are stored.                           *)
InProgress == match.status = "IN_PROGRESS"     \* resolveByMessage, resolveById
AtWork(a) == IF a \in Mods THEN "moderator" \in plan ELSE "host" \in plan
resolveMatchForCommand(a) == "commands" \in plan /\ AtWork(a) /\ InProgress
At(a, step) == page[a].at = step /\ InProgress
OnlyPages == UNCHANGED <<match, job, posts, open, writes, result, plan>>

showReportDcStep(a, c) == Show(a, "dcs", c)
showReportWinnerStep(a, c) == Show(a, "winner", c)
showReportStatsStep(a, c) == Show(a, "stats", c)
showReportConfirmStep(a, c) == Show(a, "confirm", c)
showCancelDcStep(a, c) == Show(a, "cancelDcs", c)
showCancelConfirmStep(c, n) == [at |-> "cancelConfirm", claim |-> [c EXCEPT !.seen = n]]

Start(j, by, op, via, claim, then) ==
    /\ job[j] = Idle
    /\ "overlap" \in plan \/ \A i \in Jobs : job[i] = Idle
    /\ job' = [job EXCEPT ![j] =
                  [op |-> op, by |-> by, via |-> via, claim |-> claim, then |-> then]]
-----------------------------------------------------------------------------
(* The wizard that reports the winner.                                       *)
ReportEntry(a) ==
    /\ "report" \in plan /\ AtWork(a) /\ InProgress
    /\ Show(a, "griefers", NoClaim)
    /\ OnlyPages

ReportGriefers(a, s) ==
    /\ At(a, "griefers")
    /\ showReportDcStep(a, [NoClaim EXCEPT !.grief = s])
    /\ OnlyPages

(* The slots that disconnected are stored at once, whatever becomes of the   *)
(* wizard, and by the service's check alone: the page checks nothing.        *)
ReportDcs(a, j, s) ==
    /\ page[a].at \in {"dcs", "cancelDcs"} /\ match.status \in Reportable
    /\ Start(j, a, "dc", "wizard", [page[a].claim EXCEPT !.dc = s],
             IF page[a].at = "dcs" THEN "quitters" ELSE "cancelConfirm")
    /\ UNCHANGED <<match, page, posts, open, writes, result, plan>>

(* Slip: only the disconnected are left out. *)
QuitterOptionsWithGriefers(claim) == Slots \ claim.dc
(* Nobody whom the page already calls a griefer or disconnected may quit.    *)
QuitterOptions(claim) == Slots \ (claim.grief \cup claim.dc)

ReportQuitters(a, s) ==
    /\ At(a, "quitters") /\ s \subseteq QuitterOptions(page[a].claim)
    /\ showReportWinnerStep(a, [page[a].claim EXCEPT !.quit = s])
    /\ OnlyPages

(* A match that needs the game's report waits for it on a page of its own.   *)
ReportWinner(a, w) ==
    /\ At(a, "winner")
    /\ LET c == [page[a].claim EXCEPT !.winner = w] IN
       IF "stats" \in plan THEN showReportStatsStep(a, c) ELSE showReportConfirmStep(a, c)
    /\ OnlyPages

ReportStats(a) ==
    /\ At(a, "stats") /\ match.report
    /\ showReportConfirmStep(a, [page[a].claim EXCEPT !.percent = 0])
    /\ OnlyPages

ReportMitigation(a, p) ==
    /\ At(a, "confirm")
    /\ showReportConfirmStep(a, [page[a].claim EXCEPT !.percent = p])
    /\ OnlyPages

(* A softened result is only asked for, unless a moderator confirms it.      *)
ConfirmOp(a, percent) == IF a \notin Mods /\ percent > 0 THEN "request" ELSE "complete"

(* The page is drawn again without buttons only after the click's checks, so *)
(* a second click on it may be at work by then.                              *)
Confirm(a, j) ==
    /\ At(a, "confirm")
    /\ LET c == page[a].claim
           op == ConfirmOp(a, c.percent)
       IN Start(j, a, op, "wizard",
                IF op = "request" THEN [c EXCEPT !.seen = writes] ELSE c, "none")
    /\ UNCHANGED <<match, page, posts, open, writes, result, plan>>
-----------------------------------------------------------------------------
(* The wizard that cancels the match.                                        *)
CancelEntry(a) ==
    /\ "cancel" \in plan /\ AtWork(a) /\ InProgress
    /\ Show(a, "cancelGriefers", NoClaim)
    /\ OnlyPages

CancelGriefers(a, s) ==
    /\ At(a, "cancelGriefers")
    /\ showCancelDcStep(a, [NoClaim EXCEPT !.grief = s])
    /\ OnlyPages

CancelConfirm(a, j) ==
    /\ At(a, "cancelConfirm")
    /\ Start(j, a, "cancel", "wizard", page[a].claim, "none")
    /\ UNCHANGED <<match, page, posts, open, writes, result, plan>>

CancelNo(a) ==
    /\ At(a, "cancelConfirm")
    /\ page' = [page EXCEPT ![a] = NoPage]
    /\ OnlyPages
-----------------------------------------------------------------------------
(* The menus that mark players.                                              *)
WithMarks(claim, kind, s) ==
    CASE kind = "quit"  -> [claim EXCEPT !.quit = s]
      [] kind = "grief" -> [claim EXCEPT !.grief = s]
      [] kind = "dc"    -> [claim EXCEPT !.dc = s]

MarksEntry(a, kind) ==
    /\ "menus" \in plan /\ AtWork(a) /\ InProgress
    /\ Show(a, kind, NoClaim)
    /\ OnlyPages

MarksSet(a, j, kind, s) ==
    /\ At(a, kind)
    /\ Start(j, a, kind, "none", WithMarks(NoClaim, kind, s), "none")
    /\ UNCHANGED <<match, page, posts, open, writes, result, plan>>

(* /match quitters, griefers, dcs: the same service, no page.                *)
CommandMarks(a, j, kind, s) ==
    /\ "marks" \in plan /\ resolveMatchForCommand(a)
    /\ Start(j, a, kind, "command", WithMarks(NoClaim, kind, s), "none")
    /\ UNCHANGED <<match, page, posts, open, writes, result, plan>>

(* A list that was not given stands for the stored marks.                    *)
Persisted(stored, given) == IF given = None THEN stored ELSE given

(* /match complete; a request fills the gaps from what the command read.     *)
CommandComplete(a, j, c) ==
    /\ resolveMatchForCommand(a) /\ ("stats" \in plan => match.report)
    /\ LET op == ConfirmOp(a, c.percent) IN
       Start(j, a, op, "command",
             IF op = "complete" THEN c
             ELSE [c EXCEPT !.quit = Persisted(match.quit, @), !.dc = Persisted(match.dc, @),
                            !.grief = Persisted(match.grief, @), !.seen = writes], "none")
    /\ UNCHANGED <<match, page, posts, open, writes, result, plan>>

CommandCancel(a, j, c) ==
    /\ resolveMatchForCommand(a)
    /\ Start(j, a, "cancel", "command", c, "none")
    /\ UNCHANGED <<match, page, posts, open, writes, result, plan>>

UploadReport ==
    /\ "stats" \in plan /\ InProgress /\ ~match.report
    /\ match' = [match EXCEPT !.report = TRUE]
    /\ UNCHANGED <<page, job, posts, open, writes, result, plan>>
-----------------------------------------------------------------------------
(* The work of a click. Every job ends idle; its page, if it is still open,  *)
(* has lost its buttons by then.                                             *)
Choice(c) == [c EXCEPT !.dc = {}, !.seen = 0]
Cleared(j) ==
    [page EXCEPT ![job[j].by] = IF Choice(@.claim) = Choice(job[j].claim) THEN NoPage ELSE @]
Done(j) == job' = [job EXCEPT ![j] = Idle]

(* The menu's page loses its buttons; the wizard's becomes its next one, of  *)
(* which the cancelling one repeats what was chosen, not what is stored.     *)
Redrawn(j, m) ==
    LET a == job[j].by
        c == job[j].claim
    IN CASE job[j].via = "command" -> page
         [] job[j].then = "none" -> [page EXCEPT ![a] = NoPage]
         [] job[j].then = "quitters" ->
              [page EXCEPT ![a] = [at |-> "quitters", claim |-> Drawn(c, m, writes + 1)]]
         [] OTHER ->
              [page EXCEPT ![a] = showCancelConfirmStep(c, writes + 1)]

(* The status was read without a lock: the marks are stored whatever         *)
(* happened to the match since. The page may be gone, or fail to be redrawn. *)
WriteMarks(j) ==
    /\ job[j].op \in Marks /\ writes < MaxWrites
    /\ LET kind == job[j].op
           c == job[j].claim
           m == Marked(match, kind, c[kind])
       IN /\ match' = m
          /\ writes' = writes + 1
          /\ page' \in {page, Redrawn(j, m)}
    /\ Done(j)
    /\ UNCHANGED <<posts, open, result, plan>>

Wrote(m, w, p) ==
    [winner |-> w, quit |-> m.quit, grief |-> m.grief, dc |-> m.dc, percent |-> p, seen |-> writes]
Ended(j, w, p) ==
    [via |-> job[j].via, by |-> job[j].by, wrote |-> Wrote(match', w, p),
     claim |-> IF job[j].via = "wizard" THEN job[j].claim ELSE NoClaim]

CompletedMarks(m, c) ==
    LET q == Persisted(m.quit, c.quit) IN
    [m EXCEPT !.quit = q, !.grief = Persisted(m.grief, c.grief), !.dc = Persisted(m.dc, c.dc) \ q]

(* The wizard and the panel leave the disconnects to the stored ones.        *)
Given(j) ==
    IF job[j].via \in {"wizard", "panel"} THEN [job[j].claim EXCEPT !.dc = None] ELSE job[j].claim

completeMatch(j) ==
    /\ job[j].op = "complete"
    /\ match.status \in Reportable /\ ("stats" \in plan => match.report)
    /\ match' = [CompletedMarks(match, Given(j)) EXCEPT
                    !.status = "COMPLETED", !.percent = job[j].claim.percent, !.winner = None]
    /\ result' = Ended(j, job[j].claim.winner, job[j].claim.percent)
    /\ page' = IF job[j].via = "wizard" THEN Cleared(j) ELSE page
    /\ Done(j)
    /\ UNCHANGED <<posts, open, writes, plan>>

(* Nothing of a cancelled match but griefs, and the disconnects the command  *)
(* names, is rewritten; a wizard's griefers replace the stored ones.         *)
cancelInProgressMatch(j) ==
    /\ job[j].op = "cancel" /\ InProgress
    /\ LET c == Given(j)
           g == IF c.grief = None THEN match ELSE setGriefers(match, c.grief)
           d == IF c.dc = None THEN g ELSE setDcs(g, c.dc)
       IN match' = [d EXCEPT !.status = "CANCELLED"]
    /\ result' = Ended(j, None, 0)
    /\ page' = IF job[j].via = "wizard" THEN Cleared(j) ELSE page
    /\ Done(j)
    /\ UNCHANGED <<posts, open, writes, plan>>

(* A job whose second check fails stops with an error.                       *)
GiveUp(j) ==
    /\ \/ /\ job[j].op = "complete"
          /\ match.status \notin Reportable \/ ("stats" \in plan /\ ~match.report)
       \/ job[j].op \in {"cancel", "request"} /\ ~InProgress
    /\ page' = IF job[j].via = "wizard" THEN Cleared(j) ELSE page
    /\ Done(j)
    /\ UNCHANGED <<match, posts, open, writes, result, plan>>
-----------------------------------------------------------------------------
(* Asking for a softened result. The service checks the match and reads the  *)
(* disconnects it will keep before its transaction, whose lock it takes but  *)
(* whose outcome it never looks at.                                          *)
RequestRead(j) ==
    /\ job[j].op = "request" /\ InProgress
    /\ page' = IF job[j].via = "wizard" THEN Cleared(j) ELSE page
    /\ job' = [job EXCEPT ![j].op = "pending",
                  ![j].claim.dc = IF job[j].via = "wizard" THEN match.dc ELSE @]
    /\ UNCHANGED <<match, posts, open, writes, result, plan>>

(* Slip: the marks stay as they were stored. *)
RequestedMarksOld(m, c) == m
RequestedMarks(m, c) ==
    [m EXCEPT !.quit = c.quit, !.grief = c.grief \ c.quit, !.dc = c.dc \ c.quit]

RequestWrite(j) ==
    /\ job[j].op = "pending" /\ writes < MaxWrites
    /\ writes' = writes + 1
    /\ match' = [RequestedMarks(match, job[j].claim) EXCEPT
                    !.status = "WAITING_FOR_MITIGATION_APPROVAL",
                    !.winner = job[j].claim.winner, !.percent = job[j].claim.percent]
    /\ posts' = posts \cup {[job[j].claim EXCEPT !.seen = IF @ = writes THEN writes + 1 ELSE @]}
    /\ job' = [job EXCEPT ![j].op = "post", ![j].claim = NoClaim]
    /\ UNCHANGED <<page, open, result, plan>>

(* Posting may fail; the match then waits with no message to click.          *)
RequestPost(j) ==
    /\ job[j].op = "post"
    /\ open' \in {open, IF open = 2 THEN 2 ELSE open + 1}
    /\ Done(j)
    /\ UNCHANGED <<match, page, posts, writes, result, plan>>

(* A moderator's click on any of the messages that still have buttons: each  *)
(* does the same.                                                            *)
MitigationWaiting(a) ==
    a \in Mods /\ open > 0 /\ match.status = "WAITING_FOR_MITIGATION_APPROVAL"

approveMitigationMatch(m) == Wrote(m, m.winner, m.percent)
ApproveMitigation(a, j) ==
    /\ MitigationWaiting(a) /\ match.winner # None
    /\ Start(j, a, "complete", "approve", approveMitigationMatch(match), "none")
    /\ UNCHANGED <<match, page, posts, open, writes, result, plan>>

rejectMitigationMatch(m) == [m EXCEPT !.status = "IN_PROGRESS", !.winner = None, !.percent = 0]
RejectMitigation(a) ==
    /\ MitigationWaiting(a)
    /\ match' = rejectMitigationMatch(match)
    /\ open' = open - 1
    /\ UNCHANGED <<page, job, posts, writes, result, plan>>

SetPercent(a, j, p) ==
    /\ MitigationWaiting(a)
    /\ Start(j, a, "percent", "none", [NoClaim EXCEPT !.percent = p], "none")
    /\ UNCHANGED <<match, page, posts, open, writes, result, plan>>

(* The clicked message then says what is stored now.                         *)
Reposted(m) == posts \cup {Wrote(m, IF m.winner = 2 THEN 2 ELSE 1, m.percent)}

setPendingMitigationPercent(m, p) == [m EXCEPT !.percent = p]

WritePercent(j) ==
    /\ job[j].op = "percent"
    /\ match' = setPendingMitigationPercent(match, job[j].claim.percent)
    /\ posts' = Reposted(match')
    /\ Done(j)
    /\ UNCHANGED <<page, open, writes, result, plan>>
-----------------------------------------------------------------------------
(* The panel of a match that came in through the API, moderators only.       *)
PanelWaiting(a) == a \in Mods /\ match.status = "WAITING_FOR_APPROVAL"

PanelEntry(a, kind) ==
    /\ PanelWaiting(a)
    /\ Show(a, kind, NoClaim)
    /\ OnlyPages

PanelSet(a, j, kind, s) ==
    /\ PanelWaiting(a) /\ page[a].at = kind
    /\ Start(j, a, kind, "none", WithMarks(NoClaim, kind, s), "none")
    /\ UNCHANGED <<match, page, posts, open, writes, result, plan>>

setApprovalWinner(m, w) == [m EXCEPT !.winner = w]
PanelWinner(a, w) ==
    /\ PanelWaiting(a)
    /\ match' = setApprovalWinner(match, w)
    /\ UNCHANGED <<page, job, posts, open, writes, result, plan>>

approveWaitingMatch(m) == Wrote(m, m.winner, 0)
PanelApprove(a, j) ==
    /\ PanelWaiting(a) /\ match.winner # None
    /\ Start(j, a, "complete", "panel", approveWaitingMatch(match), "none")
    /\ UNCHANGED <<match, page, posts, open, writes, result, plan>>

rejectWaitingMatch(m) == [m EXCEPT !.status = "CANCELLED"]
PanelReject(a) ==
    /\ PanelWaiting(a)
    /\ match' = rejectWaitingMatch(match)
    /\ UNCHANGED <<page, job, posts, open, writes, result, plan>>
-----------------------------------------------------------------------------

Wizard ==
    \E a \in Staff :
        \/ ReportEntry(a) \/ ReportStats(a) \/ CancelEntry(a) \/ CancelNo(a)
        \/ \E s \in SUBSET Slots : ReportGriefers(a, s) \/ ReportQuitters(a, s) \/ CancelGriefers(a, s)
        \/ \E w \in Teams : ReportWinner(a, w)
        \/ \E p \in Percents \cup {0} : ReportMitigation(a, p)
        \/ \E j \in Jobs : Confirm(a, j) \/ CancelConfirm(a, j)
        \/ \E j \in Jobs, s \in SUBSET Slots : ReportDcs(a, j, s)

Menus ==
    \E a \in Staff, kind \in Marks :
        \/ MarksEntry(a, kind)
        \/ \E j \in Jobs, s \in SUBSET Slots : MarksSet(a, j, kind, s) \/ CommandMarks(a, j, kind, s)

Commands ==
    \/ UploadReport
    \/ \E a \in Staff, j \in Jobs, c \in Named :
          \/ CommandCancel(a, j, c)
          \/ \E w \in Teams, p \in Percents \cup {0} :
                CommandComplete(a, j, [c EXCEPT !.winner = w, !.percent = p])

Work ==
    \E j \in Jobs :
        \/ WriteMarks(j) \/ completeMatch(j) \/ cancelInProgressMatch(j) \/ GiveUp(j)
        \/ RequestRead(j) \/ RequestWrite(j) \/ RequestPost(j) \/ WritePercent(j)

Approvals ==
    \E a \in Staff :
        \/ RejectMitigation(a)
        \/ \E j \in Jobs : ApproveMitigation(a, j)
        \/ \E j \in Jobs, p \in Percents \cup {0} : SetPercent(a, j, p)

Panel ==
    \E a \in Staff :
        \/ PanelReject(a)
        \/ \E kind \in Marks : PanelEntry(a, kind)
        \/ \E w \in Teams : PanelWinner(a, w)
        \/ \E j \in Jobs : PanelApprove(a, j)
        \/ \E j \in Jobs, kind \in Marks, s \in SUBSET Slots : PanelSet(a, j, kind, s)

Next == Wizard \/ Menus \/ Commands \/ Work \/ Approvals \/ Panel
Spec == Init /\ [][Next]_vars
-----------------------------------------------------------------------------
(* A wizard ends the match as its last page said: the chosen winner, marks   *)
(* and softening pass through every page, whatever others click meanwhile;   *)
(* the disconnects, which are stored on the way, are those the page named    *)
(* unless marks were written since it was drawn; and nobody is recorded both *)
(* as a quitter and as a griefer or disconnected.                            *)
EndsAsShown ==
    result # None /\ result.via = "wizard" =>
        LET c == result.claim
            r == result.wrote
        IN /\ r.winner = c.winner /\ r.grief = c.grief /\ r.percent = c.percent
           /\ match.status = "COMPLETED" => r.quit = c.quit /\ r.quit \cap r.grief = {}
           /\ c.seen = r.seen => r.dc = c.dc \ r.quit

(* Ratings are softened by moderators alone, and what one approves is what   *)
(* somebody asked for or a moderator changed it to, down to the marks, while *)
(* requests, rejections and other approvals overlap; marks written after a   *)
(* request excuse the difference.                                            *)
ApprovedAsAsked ==
    result # None =>
        /\ result.wrote.percent > 0 => result.by \in Mods
        /\ result.via = "approve" =>
              \E c \in posts :
                  \/ c.seen < result.wrote.seen
                  \/ /\ c.winner = result.wrote.winner /\ c.percent = result.wrote.percent
                     /\ c.quit = result.wrote.quit
                     /\ c.grief \ c.quit = result.wrote.grief
                     /\ c.dc \ c.quit = result.wrote.dc

(* Nobody is marked as having quit and as disconnected, in any order of      *)
(* overlapping writes; as having quit and griefed, only by /match complete,  *)
(* whose lists replace one mark and leave the other.                         *)
OneMark ==
    /\ match.quit \cap match.dc = {}
    /\ match.quit \cap match.grief # {} => result # None /\ result.via = "command"

(* The marks are a record staff can rely on: well typed, one mark a player.  *)
MarksSound == TypeOK /\ OneMark
=============================================================================

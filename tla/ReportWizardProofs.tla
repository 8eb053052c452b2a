------------------------- MODULE ReportWizardProofs -------------------------
(***************************************************************************)
(* Theorems about ReportWizard, for any seats, staff, presets, lists that  *)
(* commands name, number of clicks at work and of writes.                  *)
(***************************************************************************)
EXTENDS ReportWizard, TLAPS

PageStates == [at : Steps \cup {"none"}, claim : Claims]
JobStates == [op : Ops, by : Staff \cup {None}, via : Vias, claim : Claims,
              then : Steps \cup {"none"}]

-----------------------------------------------------------------------------
(* The invariant.                                                          *)

(* A claim that names all its lists; one that ends no match with a winner; *)
(* one that calls nobody both a quitter and a griefer; and one whose       *)
(* disconnected are those stored, unless marks were written since it was   *)
(* drawn.                                                                  *)
Full(c) == {c.quit, c.grief, c.dc} \subseteq SUBSET Slots
Cancels(c) == c.winner = None /\ c.percent = 0
Apart(c) == c.quit \cap c.grief = {}
Current(c) ==
    c.seen = writes /\ match.status \in Reportable => c.dc = match.dc \ match.quit

(* Somebody asked for this result, or marks were written since he did.     *)
Agrees(c, r) ==
    /\ c.winner = r.winner /\ c.percent = r.percent /\ c.quit = r.quit
    /\ c.grief \ c.quit = r.grief /\ c.dc \ c.quit = r.dc \ r.quit
Asked(r) == \E c \in posts : c.seen < writes \/ Agrees(c, r)

(* A page: only those from which a click ends the match must be current.   *)
PageFits(g) ==
    /\ Full(g.claim) /\ Apart(g.claim) /\ g.claim.seen <= writes
    /\ g.at \in {"cancelDcs", "cancelConfirm"} => Cancels(g.claim)
    /\ g.at \in {"confirm", "cancelConfirm"} => Current(g.claim)

(* A job carries what its page or its message said; only a command leaves  *)
(* lists out. A softened result is completed for a moderator.              *)
JobFits(k) ==
    /\ k.op # "idle" => k.by \in Staff
    /\ \/ k.via = "command" /\ k.op \in {"complete", "cancel"}
       \/ Full(k.claim) /\ k.claim.seen <= writes
    /\ k.via \in {"wizard", "approve", "panel"} => Apart(k.claim)
    /\ k.via \in {"approve", "panel"} => k.op = "complete"
    /\ k.op \in {"complete", "cancel"} => k.via # "none"
    /\ k.op = "complete" /\ k.claim.percent > 0 => k.by \in Mods
    /\ k.via = "approve" => Asked(k.claim)
    /\ k.via = "wizard" /\ k.op = "cancel" => Cancels(k.claim)
    /\ k.via = "wizard" /\ k.op \in {"complete", "cancel"} => Current(k.claim)
    /\ k.then # "none" => k.op = "dc" /\ k.via = "wizard"
    /\ k.then \notin {"none", "quitters"} => Cancels(k.claim)

PostsOK == \A c \in posts : c.seen <= writes

(* Marks overlap only where a command has completed the match so.          *)
MarksOK ==
    /\ match.quit \cap match.dc = {}
    /\ match.quit \cap match.grief # {} =>
          match.status = "COMPLETED" /\ result # None /\ result.via = "command"

(* What moderators are asked to approve is what somebody asked for.        *)
WaitingOK ==
    match.status = "WAITING_FOR_MITIGATION_APPROVAL" /\ match.winner # None =>
        Asked(Wrote(match, match.winner, match.percent))

WizardInv ==
    /\ TypeOK
    /\ \A a \in Staff : PageFits(page[a])
    /\ \A j \in Jobs : JobFits(job[j])
    /\ PostsOK /\ MarksOK /\ WaitingOK

-----------------------------------------------------------------------------
(* Types.                                                                  *)
MatchStates == [status : Statuses, quit : SUBSET Slots, grief : SUBSET Slots,
                dc : SUBSET Slots, report : BOOLEAN, winner : Teams \cup {None},
                percent : Percents \cup {0}]

LEMMA Types ==
    ASSUME TypeOK
    PROVE  /\ match \in MatchStates /\ page \in [Staff -> PageStates]
           /\ job \in [Jobs -> JobStates] /\ writes \in Nat /\ writes <= MaxWrites
           /\ writes \in 0 .. MaxWrites /\ posts \subseteq Claims
           /\ \A a \in Staff : page[a] \in PageStates /\ page[a].claim \in Claims
           /\ \A j \in Jobs : job[j] \in JobStates /\ job[j].claim \in Claims
BY DEF TypeOK, MatchStates, PageStates, JobStates

LEMMA ClaimType ==
    ASSUME NEW c \in Claims
    PROVE  /\ \A w \in Teams \cup {None} : [c EXCEPT !.winner = w] \in Claims
           /\ \A s \in (SUBSET Slots) \cup {None} : [c EXCEPT !.quit = s] \in Claims
           /\ \A s \in (SUBSET Slots) \cup {None} : [c EXCEPT !.grief = s] \in Claims
           /\ \A s \in (SUBSET Slots) \cup {None} : [c EXCEPT !.dc = s] \in Claims
           /\ \A p \in Percents \cup {0} : [c EXCEPT !.percent = p] \in Claims
           /\ \A n \in 0 .. MaxWrites : [c EXCEPT !.seen = n] \in Claims
<1>1. \A w \in Teams \cup {None} : [c EXCEPT !.winner = w] \in Claims
  BY DEF Claims
<1>2. \A s \in (SUBSET Slots) \cup {None} : [c EXCEPT !.quit = s] \in Claims
  BY DEF Claims
<1>3. \A s \in (SUBSET Slots) \cup {None} : [c EXCEPT !.grief = s] \in Claims
  BY DEF Claims
<1>4. \A s \in (SUBSET Slots) \cup {None} : [c EXCEPT !.dc = s] \in Claims
  BY DEF Claims
<1>5. \A p \in Percents \cup {0} : [c EXCEPT !.percent = p] \in Claims
  BY DEF Claims
<1>6. \A n \in 0 .. MaxWrites : [c EXCEPT !.seen = n] \in Claims
  BY DEF Claims
<1>. QED
  BY <1>1, <1>2, <1>3, <1>4, <1>5, <1>6

LEMMA NoClaimFits ==
    /\ NoClaim \in Claims /\ Full(NoClaim) /\ Apart(NoClaim) /\ Cancels(NoClaim)
    /\ NoClaim.quit = {} /\ NoClaim.grief = {} /\ NoClaim.dc = {} /\ NoClaim.seen = 0
    /\ NoClaim.percent = 0 /\ NoClaim.winner = None
BY ReportWizardAssumption DEF NoClaim, Claims, Full, Apart, Cancels

LEMMA DrawnType ==
    ASSUME NEW c \in Claims, NEW m \in MatchStates, NEW n \in 0 .. MaxWrites
    PROVE  /\ Drawn(c, m, n) \in Claims
           /\ Drawn(c, m, n).dc = m.dc \ m.quit /\ Drawn(c, m, n).seen = n
           /\ Drawn(c, m, n).winner = c.winner /\ Drawn(c, m, n).quit = c.quit
           /\ Drawn(c, m, n).grief = c.grief /\ Drawn(c, m, n).percent = c.percent
<1>1. m.dc \ m.quit \in SUBSET Slots
  BY DEF MatchStates
<1>2. Drawn(c, m, n) = [[c EXCEPT !.dc = m.dc \ m.quit] EXCEPT !.seen = n]
  BY DEF Drawn, preselectedDcSlots
<1>. QED
  BY <1>1, <1>2 DEF Claims

LEMMA WroteType ==
    ASSUME NEW m \in MatchStates, NEW w \in Teams \cup {None}, NEW p \in Percents \cup {0},
           writes \in 0 .. MaxWrites
    PROVE  /\ Wrote(m, w, p) \in Claims /\ Full(Wrote(m, w, p))
           /\ Wrote(m, w, p).winner = w /\ Wrote(m, w, p).percent = p
           /\ Wrote(m, w, p).quit = m.quit /\ Wrote(m, w, p).grief = m.grief
           /\ Wrote(m, w, p).dc = m.dc /\ Wrote(m, w, p).seen = writes
BY DEF Wrote, Claims, MatchStates, Full

-----------------------------------------------------------------------------
(* What time does: a step that writes no marks leaves those of a match     *)
(* that may still be reported alone; one that does is counted.             *)
Onwards ==
    /\ posts \subseteq posts'
    /\ \/ /\ writes' = writes
          /\ match'.status \in Reportable =>
                /\ match.status \in Reportable
                /\ match'.dc = match.dc /\ match'.quit = match.quit
       \/ writes' = writes + 1

LEMMA Stays == UNCHANGED <<match, posts, writes>> => Onwards
BY DEF Onwards

LEMMA OnwardsAsked ==
    ASSUME WizardInv, Onwards, NEW r, Asked(r)
    PROVE  Asked(r)'
<1>1. writes \in Nat /\ posts \subseteq Claims /\ \A c \in posts : c.seen <= writes /\ c.seen \in Nat
  BY Types DEF WizardInv, PostsOK, Claims
<1>. QED
  BY <1>1 DEF Onwards, Asked, Agrees

LEMMA OnwardsCurrent ==
    ASSUME WizardInv, Onwards, NEW c, c.seen \in Nat, c.seen <= writes, Current(c)
    PROVE  Current(c)'
<1>1. writes \in Nat
  BY Types DEF WizardInv
<1>. QED
  BY <1>1 DEF Onwards, Current

LEMMA OnwardsPage ==
    ASSUME WizardInv, Onwards, NEW g \in PageStates, PageFits(g)
    PROVE  PageFits(g)'
<1>1. writes \in Nat /\ g.claim.seen \in Nat /\ g.claim.seen <= writes
  <2>1. writes \in Nat
    BY Types DEF WizardInv
  <2>2. g.claim \in Claims
    BY DEF PageStates
  <2>3. g.claim.seen \in Nat
    BY <2>2 DEF Claims
  <2>4. g.claim.seen <= writes
    BY DEF PageFits
  <2>. QED
    BY <2>1, <2>3, <2>4
<1>2. Current(g.claim) => Current(g.claim)'
  BY <1>1, OnwardsCurrent
<1>3. g.claim.seen <= writes'
  BY <1>1 DEF Onwards
<1>. QED
  BY <1>2, <1>3 DEF PageFits, Full, Apart, Cancels

LEMMA OnwardsJob ==
    ASSUME WizardInv, Onwards, NEW k \in JobStates, JobFits(k)
    PROVE  JobFits(k)'
<1>1. writes \in Nat /\ k.claim.seen \in Nat
  BY Types DEF WizardInv, JobStates, Claims
<1>2. k.claim.seen <= writes => k.claim.seen <= writes'
  BY <1>1 DEF Onwards
<1>3. k.via = "wizard" => k.claim.seen <= writes
  BY DEF JobFits
<1>4. k.via = "wizard" /\ Current(k.claim) => Current(k.claim)'
  BY <1>1, <1>3, OnwardsCurrent
<1>5. Asked(k.claim) => Asked(k.claim)'
  BY OnwardsAsked
<1>. QED
  BY <1>2, <1>4, <1>5 DEF JobFits, Full, Apart, Cancels

(* Nobody's page and no job but those a step names change, and they fit.   *)
LEMMA PagesFit ==
    ASSUME WizardInv, Onwards, page' \in [Staff -> PageStates],
           \A a \in Staff : page'[a] = page[a] \/ PageFits(page[a])'
    PROVE  (\A a \in Staff : PageFits(page[a]))'
<1>. SUFFICES ASSUME NEW a \in Staff
              PROVE  PageFits(page[a])'
  OBVIOUS
<1>1. CASE page'[a] = page[a]
  <2>1. PICK g \in PageStates : g = page[a]
    BY Types DEF WizardInv
  <2>2. PageFits(g)'
    BY <2>1, OnwardsPage DEF WizardInv
  <2>3. page'[a] = g
    BY <1>1, <2>1
  <2>. QED
    BY <2>2, <2>3
<1>. QED
  BY <1>1

LEMMA JobsFit ==
    ASSUME WizardInv, Onwards, NEW j \in Jobs, NEW new \in JobStates, JobFits(new)',
           job' = [job EXCEPT ![j] = new]
    PROVE  (\A i \in Jobs : JobFits(job[i]))'
<1>. SUFFICES ASSUME NEW i \in Jobs
              PROVE  JobFits(job[i])'
  OBVIOUS
<1>0. job \in [Jobs -> JobStates]
  BY Types DEF WizardInv
<1>1. CASE i = j
  <2>1. job'[i] = new
    BY <1>0, <1>1
  <2>. QED
    BY <2>1
<1>2. CASE i # j
  <2>1. PICK k \in JobStates : k = job[i]
    BY <1>0
  <2>2. JobFits(k)'
    BY <2>1, OnwardsJob DEF WizardInv
  <2>3. job'[i] = k
    BY <1>0, <1>2, <2>1
  <2>. QED
    BY <2>2, <2>3
<1>. QED
  BY <1>1, <1>2

(* A step that leaves the match, what was asked and the result alone.      *)
LEMMA RestFits ==
    ASSUME WizardInv, UNCHANGED <<match, posts, writes, result>>
    PROVE  PostsOK' /\ MarksOK' /\ WaitingOK'
<1>1. PostsOK'
  BY DEF WizardInv, PostsOK
<1>2. MarksOK'
  BY DEF WizardInv, MarksOK
<1>3. WaitingOK'
  BY DEF WizardInv, WaitingOK, Asked, Agrees, Wrote
<1>. QED
  BY <1>1, <1>2, <1>3

LEMMA PageStep ==
    ASSUME WizardInv, NEW a \in Staff, NEW new \in PageStates, PageFits(new),
           page' = [page EXCEPT ![a] = new], OnlyPages
    PROVE  WizardInv'
<1>1. page \in [Staff -> PageStates] /\ page' \in [Staff -> PageStates]
  BY Types DEF WizardInv
<1>2. Onwards
  BY Stays DEF OnlyPages
<1>3. PageFits(new)'
  BY <1>2, OnwardsPage
<1>4. \A b \in Staff : page'[b] = page[b] \/ page'[b] = new
  BY <1>1
<1>5. \A b \in Staff : page'[b] = new => PageFits(page[b])'
  BY <1>3
<1>6. (\A b \in Staff : PageFits(page[b]))'
  BY <1>1, <1>2, <1>4, <1>5, PagesFit
<1>7. (\A j \in Jobs : JobFits(job[j]))'
  <2>. SUFFICES ASSUME NEW j \in Jobs
                PROVE  JobFits(job[j])'
    OBVIOUS
  <2>1. PICK k \in JobStates : k = job[j]
    BY Types DEF WizardInv
  <2>2. JobFits(k)'
    BY <1>2, <2>1, OnwardsJob DEF WizardInv
  <2>3. job'[j] = k
    BY <2>1 DEF OnlyPages
  <2>. QED
    BY <2>2, <2>3
<1>8. TypeOK'
  BY <1>1 DEF WizardInv, TypeOK, OnlyPages, PageStates
<1>. QED
  BY <1>6, <1>7, <1>8, RestFits DEF WizardInv, OnlyPages

LEMMA ShowStep ==
    ASSUME WizardInv, NEW a \in Staff, NEW at \in Steps, NEW c \in Claims,
           c.quit \in SUBSET Slots, c.grief \in SUBSET Slots, Apart(c),
           at \in {"cancelDcs", "cancelConfirm"} => Cancels(c),
           Show(a, at, c), OnlyPages
    PROVE  WizardInv'
<1>0. match \in MatchStates /\ writes \in 0 .. MaxWrites /\ writes \in Nat
  BY Types DEF WizardInv
<1>1. PICK d \in Claims :
         /\ d = Drawn(c, match, writes) /\ d.dc = match.dc \ match.quit /\ d.seen = writes
         /\ d.winner = c.winner /\ d.quit = c.quit /\ d.grief = c.grief
         /\ d.percent = c.percent
  BY <1>0, DrawnType
<1>2. PICK new \in PageStates : new = [at |-> at, claim |-> d]
  BY DEF PageStates
<1>3. page' = [page EXCEPT ![a] = new]
  BY <1>1, <1>2 DEF Show
<1>4. new.claim = d /\ new.at = at
  BY <1>2
<1>5. Full(d)
  <2>1. d.dc \in SUBSET Slots
    BY <1>0, <1>1 DEF MatchStates
  <2>. QED
    BY <1>1, <2>1 DEF Full
<1>6. Apart(d)
  BY <1>1 DEF Apart
<1>7. d.seen <= writes
  BY <1>0, <1>1
<1>8. Current(d)
  BY <1>1 DEF Current
<1>9. Cancels(c) => Cancels(d)
  BY <1>1 DEF Cancels
<1>10. PageFits(new)
  BY <1>4, <1>5, <1>6, <1>7, <1>8, <1>9 DEF PageFits
<1>. QED
  BY <1>3, <1>10, PageStep

LEMMA StartStep ==
    ASSUME WizardInv, NEW j \in Jobs, NEW by, NEW op, NEW via, NEW claim, NEW then,
           [op |-> op, by |-> by, via |-> via, claim |-> claim, then |-> then] \in JobStates,
           JobFits([op |-> op, by |-> by, via |-> via, claim |-> claim, then |-> then]),
           Start(j, by, op, via, claim, then),
           UNCHANGED <<match, page, posts, open, writes, result, plan>>
    PROVE  WizardInv'
<1>1. PICK new \in JobStates :
          new = [op |-> op, by |-> by, via |-> via, claim |-> claim, then |-> then]
  OBVIOUS
<1>2. Onwards
  BY Stays
<1>3. JobFits(new)'
  BY <1>1, <1>2, OnwardsJob
<1>4. job' = [job EXCEPT ![j] = new]
  BY <1>1 DEF Start
<1>5. (\A i \in Jobs : JobFits(job[i]))'
  BY <1>2, <1>3, <1>4, JobsFit
<1>6. (\A a \in Staff : PageFits(page[a]))'
  BY <1>2, PagesFit, Types DEF WizardInv
<1>7. TypeOK'
  BY <1>4, Types DEF WizardInv, TypeOK, JobStates
<1>. QED
  BY <1>5, <1>6, <1>7, RestFits DEF WizardInv

(* A step of the match alone.                                              *)
LEMMA RowStep ==
    ASSUME WizardInv, Onwards, match' \in MatchStates, posts' \subseteq Claims, open' \in 0 .. 2,
           UNCHANGED <<page, job, writes, result, plan>>, PostsOK', MarksOK', WaitingOK'
    PROVE  WizardInv'
<1>1. (\A a \in Staff : PageFits(page[a]))'
  BY PagesFit, Types DEF WizardInv
<1>2. (\A j \in Jobs : JobFits(job[j]))'
  <2>. SUFFICES ASSUME NEW j \in Jobs
                PROVE  JobFits(job[j])'
    OBVIOUS
  <2>1. PICK k \in JobStates : k = job[j]
    BY Types DEF WizardInv
  <2>2. JobFits(k)'
    BY <2>1, OnwardsJob DEF WizardInv
  <2>3. job'[j] = k
    BY <2>1
  <2>. QED
    BY <2>2, <2>3
<1>3. TypeOK'
  BY DEF WizardInv, TypeOK, MatchStates
<1>. QED
  BY <1>1, <1>2, <1>3 DEF WizardInv

(* A step of a job.                                                        *)
LEMMA WorkStep ==
    ASSUME WizardInv, Onwards, NEW j \in Jobs, NEW new \in JobStates, JobFits(new)',
           job' = [job EXCEPT ![j] = new], page' \in [Staff -> PageStates],
           \A a \in Staff : page'[a] = page[a] \/ PageFits(page[a])',
           match' \in MatchStates, posts' \subseteq Claims, open' \in 0 .. 2,
           writes' \in 0 .. MaxWrites, result' \in Results \cup {None}, UNCHANGED plan,
           PostsOK', MarksOK', WaitingOK'
    PROVE  WizardInv'
<1>1. (\A i \in Jobs : JobFits(job[i]))'
  BY JobsFit
<1>2. (\A a \in Staff : PageFits(page[a]))'
  BY PagesFit
<1>3. job' \in [Jobs -> JobStates]
  BY Types DEF WizardInv
<1>4. TypeOK'
  BY <1>3 DEF WizardInv, TypeOK, MatchStates, PageStates, JobStates
<1>. QED
  BY <1>1, <1>2, <1>4 DEF WizardInv

LEMMA IdleFits ==
    ASSUME writes \in Nat
    PROVE  Idle \in JobStates /\ JobFits(Idle)
<1>1. /\ Idle.op = "idle" /\ Idle.by = None /\ Idle.via = "none" /\ Idle.claim = NoClaim
      /\ Idle.then = "none"
  BY DEF Idle
<1>2. Idle \in JobStates
  BY NoClaimFits DEF Idle, JobStates, Ops, Vias
<1>. QED
  BY <1>1, <1>2, NoClaimFits DEF JobFits

LEMMA DoneStep ==
    ASSUME WizardInv, Onwards, NEW j \in Jobs, Done(j), page' \in [Staff -> PageStates],
           \A a \in Staff : page'[a] = page[a] \/ PageFits(page[a])',
           match' \in MatchStates, posts' \subseteq Claims, open' \in 0 .. 2,
           writes' \in 0 .. MaxWrites, result' \in Results \cup {None}, UNCHANGED plan,
           PostsOK', MarksOK', WaitingOK'
    PROVE  WizardInv'
<1>1. PICK new \in JobStates : new = Idle /\ JobFits(new)
  BY IdleFits, Types DEF WizardInv
<1>2. JobFits(new)'
  BY <1>1, OnwardsJob
<1>3. job' = [job EXCEPT ![j] = new]
  BY <1>1 DEF Done
<1>. QED
  BY <1>2, <1>3, WorkStep

LEMMA NoPageFits ==
    ASSUME writes \in Nat
    PROVE  NoPage \in PageStates /\ PageFits(NoPage)
<1>1. NoPage.at = "none" /\ NoPage.claim = NoClaim
  BY DEF NoPage
<1>2. NoPage \in PageStates
  BY NoClaimFits DEF NoPage, PageStates
<1>. QED
  BY <1>1, <1>2, NoClaimFits DEF PageFits

LEMMA NoPageStays ==
    ASSUME WizardInv, Onwards
    PROVE  NoPage \in PageStates /\ PageFits(NoPage)'
<1>1. PICK g \in PageStates : g = NoPage /\ PageFits(g)
  BY NoPageFits, Types DEF WizardInv
<1>2. PageFits(g)'
  BY <1>1, OnwardsPage
<1>. QED
  BY <1>1, <1>2

(* The page of a job's click, if it is still open, is closed.              *)
LEMMA ClearedFits ==
    ASSUME WizardInv, Onwards, NEW j \in Jobs, job[j].op # "idle",
           page' = IF job[j].via = "wizard" THEN Cleared(j) ELSE page
    PROVE  /\ page' \in [Staff -> PageStates]
           /\ \A a \in Staff : page'[a] = page[a] \/ PageFits(page[a])'
<1>1. page \in [Staff -> PageStates] /\ job[j].by \in Staff
  BY Types DEF WizardInv, JobFits
<1>2. NoPage \in PageStates /\ PageFits(NoPage)'
  BY NoPageStays
<1>3. page' \in [Staff -> PageStates]
  BY <1>1, <1>2 DEF Cleared
<1>4. \A a \in Staff : page'[a] = page[a] \/ page'[a] = NoPage
  BY <1>1 DEF Cleared
<1>5. \A a \in Staff : page'[a] = NoPage => PageFits(page[a])'
  BY <1>2
<1>. QED
  BY <1>3, <1>4, <1>5

-----------------------------------------------------------------------------
(* The pages.                                                              *)
LEMMA PageOf ==
    ASSUME WizardInv, NEW a \in Staff
    PROVE  /\ page[a].claim \in Claims /\ Apart(page[a].claim)
           /\ page[a].claim.quit \in SUBSET Slots /\ page[a].claim.grief \in SUBSET Slots
           /\ page[a].claim.dc \in SUBSET Slots /\ page[a].claim.seen <= writes
           /\ page[a].at \in {"cancelDcs", "cancelConfirm"} => Cancels(page[a].claim)
           /\ page[a].at \in {"confirm", "cancelConfirm"} => Current(page[a].claim)
BY Types DEF WizardInv, PageFits, Full

LEMMA SlotsIn == \A s \in SUBSET Slots : s \in (SUBSET Slots) \cup {None}
OBVIOUS

LEMMA EntrySteps ==
    ASSUME WizardInv, NEW a \in Staff, NEW at \in {"griefers", "cancelGriefers"} \cup Marks,
           Show(a, at, NoClaim), OnlyPages
    PROVE  WizardInv'
<1>1. at \in Steps /\ at \notin {"cancelDcs", "cancelConfirm"}
  BY DEF Steps, Marks
<1>. QED
  BY <1>1, NoClaimFits, ShowStep DEF Full

LEMMA GriefersSteps ==
    ASSUME WizardInv, NEW a \in Staff, NEW s \in SUBSET Slots, NEW at \in {"dcs", "cancelDcs"},
           Show(a, at, [NoClaim EXCEPT !.grief = s]), OnlyPages
    PROVE  WizardInv'
<1>1. at \in Steps
  BY DEF Steps
<1>2. PICK c \in Claims : c = [NoClaim EXCEPT !.grief = s]
  BY NoClaimFits, ClaimType, SlotsIn
<1>3. c.quit = {} /\ c.grief = s /\ c.winner = None /\ c.percent = 0
  BY <1>2, NoClaimFits DEF NoClaim
<1>4. Apart(c) /\ Cancels(c)
  BY <1>3 DEF Apart, Cancels
<1>. QED
  BY <1>1, <1>2, <1>3, <1>4, ShowStep

LEMMA QuittersStep ==
    ASSUME WizardInv, NEW a \in Staff, NEW s \in SUBSET Slots, ReportQuitters(a, s)
    PROVE  WizardInv'
<1>1. PICK c \in Claims : c = [page[a].claim EXCEPT !.quit = s]
  BY PageOf, ClaimType, SlotsIn
<1>2. c.quit = s /\ c.grief = page[a].claim.grief
  BY <1>1, PageOf DEF Claims
<1>3. Apart(c)
  BY <1>2 DEF ReportQuitters, QuitterOptions, Apart
<1>4. Show(a, "winner", c) /\ OnlyPages
  BY <1>1 DEF ReportQuitters, showReportWinnerStep
<1>5. "winner" \in Steps
  BY DEF Steps
<1>. QED
  BY <1>1, <1>2, <1>3, <1>4, <1>5, PageOf, ShowStep

(* The winner and the softening change nothing a page must get right.      *)
LEMMA ConfirmPages ==
    ASSUME WizardInv, NEW a \in Staff, NEW at \in {"stats", "confirm"}, NEW c \in Claims,
           c.quit = page[a].claim.quit, c.grief = page[a].claim.grief,
           Show(a, at, c), OnlyPages
    PROVE  WizardInv'
<1>1. at \in Steps /\ at \notin {"cancelDcs", "cancelConfirm"}
  BY DEF Steps
<1>2. Apart(c) /\ c.quit \in SUBSET Slots /\ c.grief \in SUBSET Slots
  BY PageOf DEF Apart
<1>. QED
  BY <1>1, <1>2, ShowStep

LEMMA WinnerStep ==
    ASSUME WizardInv, NEW a \in Staff, NEW w \in Teams, ReportWinner(a, w)
    PROVE  WizardInv'
<1>1. PICK c \in Claims : c = [page[a].claim EXCEPT !.winner = w]
  BY PageOf, ClaimType
<1>2. c.quit = page[a].claim.quit /\ c.grief = page[a].claim.grief
  BY <1>1, PageOf DEF Claims
<1>3. PICK at \in {"stats", "confirm"} : Show(a, at, c)
  BY <1>1 DEF ReportWinner, showReportStatsStep, showReportConfirmStep
<1>. QED
  BY <1>1, <1>2, <1>3, ConfirmPages DEF ReportWinner

LEMMA SoftenStep ==
    ASSUME WizardInv, NEW a \in Staff, NEW p \in Percents \cup {0},
           showReportConfirmStep(a, [page[a].claim EXCEPT !.percent = p]), OnlyPages
    PROVE  WizardInv'
<1>1. PICK c \in Claims : c = [page[a].claim EXCEPT !.percent = p]
  BY PageOf, ClaimType
<1>2. c.quit = page[a].claim.quit /\ c.grief = page[a].claim.grief
  BY <1>1, PageOf DEF Claims
<1>3. Show(a, "confirm", c)
  BY <1>1 DEF showReportConfirmStep
<1>. QED
  BY <1>1, <1>2, <1>3, ConfirmPages

LEMMA CancelNoStep ==
    ASSUME WizardInv, NEW a \in Staff, CancelNo(a)
    PROVE  WizardInv'
<1>1. PICK g \in PageStates : g = NoPage /\ PageFits(g)
  BY NoPageFits, Types DEF WizardInv
<1>2. page' = [page EXCEPT ![a] = g] /\ OnlyPages
  BY <1>1 DEF CancelNo
<1>. QED
  BY <1>1, <1>2, PageStep

-----------------------------------------------------------------------------
(* The clicks and commands that start a job.                               *)
LEMMA DcsStep ==
    ASSUME WizardInv, NEW a \in Staff, NEW j \in Jobs, NEW s \in SUBSET Slots, ReportDcs(a, j, s)
    PROVE  WizardInv'
<1>1. PICK c \in Claims : c = [page[a].claim EXCEPT !.dc = s]
  BY PageOf, ClaimType, SlotsIn
<1>2. /\ c.dc = s /\ c.quit = page[a].claim.quit /\ c.grief = page[a].claim.grief
      /\ c.winner = page[a].claim.winner /\ c.percent = page[a].claim.percent
      /\ c.seen = page[a].claim.seen
  BY <1>1, PageOf DEF Claims
<1>3. PICK then \in {"quitters", "cancelConfirm"} :
         /\ then = IF page[a].at = "dcs" THEN "quitters" ELSE "cancelConfirm"
         /\ then # "quitters" => page[a].at = "cancelDcs"
  BY DEF ReportDcs
<1>4. then # "quitters" => Cancels(c)
  BY <1>2, <1>3, PageOf DEF Cancels
<1>5. Full(c) /\ Apart(c) /\ c.seen <= writes
  BY <1>2, PageOf DEF Full, Apart
<1>6. PICK new \in JobStates :
         new = [op |-> "dc", by |-> a, via |-> "wizard", claim |-> c, then |-> then]
  BY <1>3 DEF JobStates, Ops, Vias, Steps
<1>7. /\ new.op = "dc" /\ new.by = a /\ new.via = "wizard" /\ new.claim = c /\ new.then = then
  BY <1>6
<1>8. JobFits(new)
  BY <1>3, <1>4, <1>5, <1>7 DEF JobFits
<1>9. Start(j, a, "dc", "wizard", c, then)
  BY <1>1, <1>3 DEF ReportDcs
<1>10. UNCHANGED <<match, page, posts, open, writes, result, plan>>
  BY DEF ReportDcs
<1>. QED
  BY <1>6, <1>8, <1>9, <1>10, StartStep

(* What asks, and what reports or cancels, with a whole claim.             *)
LEMMA RequestSteps ==
    ASSUME WizardInv, NEW j \in Jobs, NEW a \in Staff, NEW c \in Claims,
           NEW via \in {"wizard", "command"}, Full(c), c.seen <= writes,
           via = "wizard" => Apart(c), Start(j, a, "request", via, c, "none"),
           UNCHANGED <<match, page, posts, open, writes, result, plan>>
    PROVE  WizardInv'
<1>1. PICK new \in JobStates :
         new = [op |-> "request", by |-> a, via |-> via, claim |-> c, then |-> "none"]
  BY DEF JobStates, Ops, Vias
<1>2. /\ new.op = "request" /\ new.by = a /\ new.via = via /\ new.claim = c
      /\ new.then = "none"
  BY <1>1
<1>3. JobFits(new)
  BY <1>2 DEF JobFits
<1>. QED
  BY <1>1, <1>3, StartStep

LEMMA ClaimSteps ==
    ASSUME WizardInv, NEW j \in Jobs, NEW a \in Staff, NEW c \in Claims,
           NEW op \in {"complete", "cancel"},
           NEW via \in {"wizard", "command", "approve", "panel"},
           via # "command" => Full(c) /\ c.seen <= writes /\ Apart(c),
           via = "wizard" => Current(c),
           via = "wizard" /\ op = "cancel" => Cancels(c),
           via \in {"approve", "panel"} => op = "complete",
           via = "approve" => Asked(c),
           op = "complete" /\ c.percent > 0 => a \in Mods,
           Start(j, a, op, via, c, "none"),
           UNCHANGED <<match, page, posts, open, writes, result, plan>>
    PROVE  WizardInv'
<1>1. PICK new \in JobStates :
         new = [op |-> op, by |-> a, via |-> via, claim |-> c, then |-> "none"]
  BY DEF JobStates, Ops, Vias
<1>2. /\ new.op = op /\ new.by = a /\ new.via = via /\ new.claim = c /\ new.then = "none"
  BY <1>1
<1>3. JobFits(new)
  BY <1>2 DEF JobFits
<1>. QED
  BY <1>1, <1>3, StartStep

LEMMA SeenClaim ==
    ASSUME WizardInv, NEW c \in Claims
    PROVE  /\ [c EXCEPT !.seen = writes] \in Claims
           /\ [c EXCEPT !.seen = writes].seen = writes /\ [c EXCEPT !.seen = writes].quit = c.quit
           /\ [c EXCEPT !.seen = writes].grief = c.grief /\ [c EXCEPT !.seen = writes].dc = c.dc
           /\ [c EXCEPT !.seen = writes].percent = c.percent
BY ZenonT(40), Types, ClaimType DEF WizardInv, Claims

LEMMA ConfirmStep ==
    ASSUME WizardInv, NEW a \in Staff, NEW j \in Jobs, Confirm(a, j)
    PROVE  WizardInv'
<1>0. /\ page[a].at = "confirm" /\ UNCHANGED <<match, page, posts, open, writes, result, plan>>
      /\ writes \in Nat
  BY Types DEF Confirm, At, WizardInv
<1>1. PICK c \in Claims : c = page[a].claim
  BY PageOf
<1>2. Full(c) /\ Apart(c) /\ Current(c) /\ c.seen <= writes
  BY <1>0, <1>1, PageOf DEF Full
<1>3. CASE ConfirmOp(a, c.percent) = "request"
  <2>1. PICK d \in Claims : /\ d = [c EXCEPT !.seen = writes] /\ d.seen = writes
                            /\ d.quit = c.quit /\ d.grief = c.grief /\ d.dc = c.dc
    BY SeenClaim
  <2>2. Full(d) /\ Apart(d) /\ d.seen <= writes
    BY <1>0, <1>2, <2>1 DEF Full, Apart
  <2>3. Start(j, a, "request", "wizard", d, "none")
    BY <1>1, <1>3, <2>1 DEF Confirm
  <2>. QED
    BY <1>0, <2>2, <2>3, RequestSteps
<1>4. CASE ConfirmOp(a, c.percent) # "request"
  <2>1. ConfirmOp(a, c.percent) = "complete" /\ (c.percent > 0 => a \in Mods)
    BY <1>4 DEF ConfirmOp
  <2>2. Start(j, a, "complete", "wizard", c, "none")
    BY <1>1, <2>1 DEF Confirm
  <2>. QED
    BY <1>0, <1>2, <2>1, <2>2, ClaimSteps
<1>. QED
  BY <1>3, <1>4

LEMMA CancelConfirmStep ==
    ASSUME WizardInv, NEW a \in Staff, NEW j \in Jobs, CancelConfirm(a, j)
    PROVE  WizardInv'
<1>1. PICK c \in Claims : c = page[a].claim
  BY PageOf
<1>2. Full(c) /\ Apart(c) /\ Current(c) /\ Cancels(c) /\ c.seen <= writes
  BY <1>1, PageOf DEF Full, CancelConfirm, At
<1>3. Start(j, a, "cancel", "wizard", c, "none")
  BY <1>1 DEF CancelConfirm
<1>4. UNCHANGED <<match, page, posts, open, writes, result, plan>>
  BY DEF CancelConfirm
<1>. QED
  BY <1>2, <1>3, <1>4, ClaimSteps

-----------------------------------------------------------------------------
(* The menus and the commands.                                             *)
LEMMA WithMarksType ==
    ASSUME NEW kind \in Marks, NEW s \in SUBSET Slots
    PROVE  /\ WithMarks(NoClaim, kind, s) \in Claims /\ Full(WithMarks(NoClaim, kind, s))
           /\ WithMarks(NoClaim, kind, s).seen = 0
           /\ WithMarks(NoClaim, kind, s)[kind] = s
<1>1. \A t \in {"quit", "grief", "dc"} : t = kind =>
          /\ WithMarks(NoClaim, kind, s) \in Claims /\ Full(WithMarks(NoClaim, kind, s))
          /\ WithMarks(NoClaim, kind, s).seen = 0
          /\ WithMarks(NoClaim, kind, s)[kind] = s
  <2>1. CASE kind = "quit"
    <3>1. WithMarks(NoClaim, kind, s) = [NoClaim EXCEPT !.quit = s]
      BY <2>1 DEF WithMarks
    <3>. QED
      BY <2>1, <3>1, NoClaimFits, ClaimType, SlotsIn DEF Full, Claims
  <2>2. CASE kind = "grief"
    <3>1. WithMarks(NoClaim, kind, s) = [NoClaim EXCEPT !.grief = s]
      BY <2>2 DEF WithMarks
    <3>. QED
      BY <2>2, <3>1, NoClaimFits, ClaimType, SlotsIn DEF Full, Claims
  <2>3. CASE kind = "dc"
    <3>1. WithMarks(NoClaim, kind, s) = [NoClaim EXCEPT !.dc = s]
      BY <2>3 DEF WithMarks
    <3>. QED
      BY <2>3, <3>1, NoClaimFits, ClaimType, SlotsIn DEF Full, Claims
  <2>. QED
    BY <2>1, <2>2, <2>3 DEF Marks
<1>. QED
  BY <1>1 DEF Marks

LEMMA MarksSteps ==
    ASSUME WizardInv, NEW j \in Jobs, NEW a \in Staff, NEW kind \in Marks, NEW s \in SUBSET Slots,
           NEW via \in {"none", "command"},
           Start(j, a, kind, via, WithMarks(NoClaim, kind, s), "none"),
           UNCHANGED <<match, page, posts, open, writes, result, plan>>
    PROVE  WizardInv'
<1>1. PICK c \in Claims : c = WithMarks(NoClaim, kind, s) /\ Full(c) /\ c.seen = 0
  BY WithMarksType
<1>2. PICK new \in JobStates :
         new = [op |-> kind, by |-> a, via |-> via, claim |-> c, then |-> "none"]
  BY DEF JobStates, Ops, Vias, Marks
<1>3. /\ new.op = kind /\ new.by = a /\ new.via = via /\ new.claim = c /\ new.then = "none"
  BY <1>2
<1>4. kind \notin {"complete", "cancel"} /\ writes \in Nat
  BY Types DEF Marks, WizardInv
<1>5. JobFits(new)
  BY <1>1, <1>3, <1>4 DEF JobFits
<1>6. Start(j, a, kind, via, c, "none")
  BY <1>1
<1>. QED
  BY <1>2, <1>5, <1>6, StartStep

LEMMA CancelCommandStep ==
    ASSUME WizardInv, NEW a \in Staff, NEW j \in Jobs, NEW c \in Claims, CommandCancel(a, j, c)
    PROVE  WizardInv'
BY ClaimSteps DEF CommandCancel

LEMMA PersistedType ==
    ASSUME NEW stored \in SUBSET Slots, NEW given \in (SUBSET Slots) \cup {None}
    PROVE  Persisted(stored, given) \in SUBSET Slots
BY DEF Persisted

LEMMA CompleteCommandStep ==
    ASSUME WizardInv, NEW a \in Staff, NEW j \in Jobs, NEW c \in Claims, CommandComplete(a, j, c)
    PROVE  WizardInv'
<1>0. /\ UNCHANGED <<match, page, posts, open, writes, result, plan>> /\ writes \in Nat
      /\ match \in MatchStates
  BY Types DEF CommandComplete, WizardInv
<1>1. CASE ConfirmOp(a, c.percent) = "complete"
  <2>1. c.percent > 0 => a \in Mods
    BY <1>1 DEF ConfirmOp
  <2>2. Start(j, a, "complete", "command", c, "none")
    BY <1>1 DEF CommandComplete
  <2>. QED
    BY <1>0, <2>1, <2>2, ClaimSteps
<1>2. CASE ConfirmOp(a, c.percent) # "complete"
  <2>1. ConfirmOp(a, c.percent) = "request"
    BY <1>2 DEF ConfirmOp
  <2>2. PICK q \in SUBSET Slots, d \in SUBSET Slots, g \in SUBSET Slots :
           /\ q = Persisted(match.quit, c.quit) /\ d = Persisted(match.dc, c.dc)
           /\ g = Persisted(match.grief, c.grief)
    BY <1>0, PersistedType DEF MatchStates, Claims
  <2>3. writes \in 0 .. MaxWrites
    BY Types DEF WizardInv
  <2>4. PICK e \in Claims : e = [c EXCEPT !.quit = q, !.dc = d, !.grief = g, !.seen = writes]
    BY <2>3, SlotsIn DEF Claims
  <2>5. e.quit = q /\ e.dc = d /\ e.grief = g /\ e.seen = writes
    BY <2>4 DEF Claims
  <2>6. Full(e) /\ e.seen <= writes
    BY <1>0, <2>5 DEF Full
  <2>7. Start(j, a, "request", "command", e, "none")
    BY <1>2, <2>1, <2>2, <2>4 DEF CommandComplete
  <2>. QED
    BY <1>0, <2>6, <2>7, RequestSteps
<1>. QED
  BY <1>1, <1>2

(* Steps of the row that leave marks, and what was asked, alone.           *)
LEMMA UploadStep ==
    ASSUME WizardInv, UploadReport
    PROVE  WizardInv'
<1>1. /\ match \in MatchStates /\ match' = [match EXCEPT !.report = TRUE]
      /\ match.status = "IN_PROGRESS"
      /\ UNCHANGED <<page, job, posts, open, writes, result, plan>>
  BY Types DEF WizardInv, UploadReport, InProgress
<1>2. /\ match' \in MatchStates /\ match'.status = match.status /\ match'.quit = match.quit
      /\ match'.grief = match.grief /\ match'.dc = match.dc
  BY <1>1 DEF MatchStates
<1>3. Onwards
  BY <1>1, <1>2 DEF Onwards
<1>4. PostsOK' /\ MarksOK'
  BY <1>1, <1>2 DEF WizardInv, PostsOK, MarksOK
<1>5. WaitingOK'
  BY <1>1, <1>2 DEF WaitingOK
<1>. QED
  BY <1>1, <1>2, <1>3, <1>4, <1>5, RowStep, Types DEF WizardInv, TypeOK

LEMMA RejectStep ==
    ASSUME WizardInv, NEW a \in Staff, RejectMitigation(a)
    PROVE  WizardInv'
<1>1. /\ match \in MatchStates
      /\ match' = [match EXCEPT !.status = "IN_PROGRESS", !.winner = None, !.percent = 0]
      /\ match.status = "WAITING_FOR_MITIGATION_APPROVAL"
      /\ UNCHANGED <<page, job, posts, writes, result, plan>>
  BY Types DEF WizardInv, RejectMitigation, rejectMitigationMatch, MitigationWaiting
<1>2. /\ match' \in MatchStates /\ match'.status = "IN_PROGRESS" /\ match'.quit = match.quit
      /\ match'.grief = match.grief /\ match'.dc = match.dc
  BY <1>1 DEF MatchStates, Statuses
<1>3. Onwards
  BY <1>1, <1>2 DEF Onwards, Reportable
<1>4. PostsOK' /\ MarksOK'
  BY <1>1, <1>2 DEF WizardInv, PostsOK, MarksOK
<1>5. WaitingOK'
  BY <1>2 DEF WaitingOK
<1>6. open' \in 0 .. 2
  BY DEF RejectMitigation, MitigationWaiting, WizardInv, TypeOK
<1>7. posts' \subseteq Claims
  BY <1>1, Types DEF WizardInv
<1>. QED
  BY <1>1, <1>2, <1>3, <1>4, <1>5, <1>6, <1>7, RowStep

-----------------------------------------------------------------------------
(* The panel.                                                              *)
LEMMA PanelWinnerStep ==
    ASSUME WizardInv, NEW a \in Staff, NEW w \in Teams, PanelWinner(a, w)
    PROVE  WizardInv'
<1>1. /\ match \in MatchStates /\ match' = [match EXCEPT !.winner = w]
      /\ match.status = "WAITING_FOR_APPROVAL"
      /\ UNCHANGED <<page, job, posts, open, writes, result, plan>>
  BY Types DEF WizardInv, PanelWinner, setApprovalWinner, PanelWaiting
<1>2. /\ match' \in MatchStates /\ match'.status = match.status /\ match'.quit = match.quit
      /\ match'.grief = match.grief /\ match'.dc = match.dc
  BY <1>1 DEF MatchStates
<1>3. Onwards
  BY <1>1, <1>2 DEF Onwards
<1>4. PostsOK' /\ MarksOK'
  BY <1>1, <1>2 DEF WizardInv, PostsOK, MarksOK
<1>5. WaitingOK'
  BY <1>1, <1>2 DEF WaitingOK
<1>. QED
  BY <1>1, <1>2, <1>3, <1>4, <1>5, RowStep, Types DEF WizardInv, TypeOK

LEMMA PanelRejectStep ==
    ASSUME WizardInv, NEW a \in Staff, PanelReject(a)
    PROVE  WizardInv'
<1>1. /\ match \in MatchStates /\ match' = [match EXCEPT !.status = "CANCELLED"]
      /\ match.status = "WAITING_FOR_APPROVAL"
      /\ UNCHANGED <<page, job, posts, open, writes, result, plan>>
  BY Types DEF WizardInv, PanelReject, rejectWaitingMatch, PanelWaiting
<1>2. /\ match' \in MatchStates /\ match'.status = "CANCELLED" /\ match'.quit = match.quit
      /\ match'.grief = match.grief /\ match'.dc = match.dc
  BY <1>1 DEF MatchStates, Statuses
<1>3. Onwards
  BY <1>1, <1>2 DEF Onwards, Reportable
<1>4. PostsOK' /\ MarksOK'
  BY <1>1, <1>2 DEF WizardInv, PostsOK, MarksOK
<1>5. WaitingOK'
  BY <1>2 DEF WaitingOK
<1>. QED
  BY <1>1, <1>2, <1>3, <1>4, <1>5, RowStep, Types DEF WizardInv, TypeOK

(* Both approvals pass on what the row says.                               *)
LEMMA ApproveSteps ==
    ASSUME WizardInv, NEW a \in Staff, NEW j \in Jobs, ApproveMitigation(a, j) \/ PanelApprove(a, j)
    PROVE  WizardInv'
<1>0. /\ match \in MatchStates /\ writes \in 0 .. MaxWrites /\ writes \in Nat
      /\ a \in Mods /\ match.status # "COMPLETED"
      /\ UNCHANGED <<match, page, posts, open, writes, result, plan>>
  BY Types DEF WizardInv, ApproveMitigation, PanelApprove, MitigationWaiting, PanelWaiting
<1>1. match.winner \in Teams \cup {None} /\ match.percent \in Percents \cup {0} /\ 0 \in Percents \cup {0}
  BY <1>0 DEF MatchStates
<1>2. match.quit \cap match.grief = {}
  BY <1>0 DEF WizardInv, MarksOK
<1>3. CASE ApproveMitigation(a, j)
  <2>1. PICK c \in Claims : /\ c = Wrote(match, match.winner, match.percent) /\ Full(c)
                            /\ c.quit = match.quit /\ c.grief = match.grief /\ c.seen = writes
    BY <1>0, <1>1, WroteType
  <2>2. Apart(c) /\ c.seen <= writes
    BY <1>0, <1>2, <2>1 DEF Apart
  <2>3. Asked(c)
    BY <1>3, <2>1 DEF WizardInv, WaitingOK, ApproveMitigation, MitigationWaiting
  <2>4. Start(j, a, "complete", "approve", c, "none")
    BY <1>3, <2>1 DEF ApproveMitigation, approveMitigationMatch
  <2>. QED
    BY <1>0, <2>1, <2>2, <2>3, <2>4, ClaimSteps
<1>4. CASE PanelApprove(a, j)
  <2>1. PICK c \in Claims : /\ c = Wrote(match, match.winner, 0) /\ Full(c)
                            /\ c.quit = match.quit /\ c.grief = match.grief /\ c.seen = writes
    BY <1>0, <1>1, WroteType
  <2>2. Apart(c) /\ c.seen <= writes
    BY <1>0, <1>2, <2>1 DEF Apart
  <2>3. Start(j, a, "complete", "panel", c, "none")
    BY <1>4, <2>1 DEF PanelApprove, approveWaitingMatch
  <2>. QED
    BY <1>0, <2>1, <2>2, <2>3, ClaimSteps
<1>. QED
  BY <1>3, <1>4

LEMMA PercentStep ==
    ASSUME WizardInv, NEW a \in Staff, NEW j \in Jobs, NEW p \in Percents \cup {0}, SetPercent(a, j, p)
    PROVE  WizardInv'
<1>1. PICK c \in Claims : c = [NoClaim EXCEPT !.percent = p]
  BY NoClaimFits, ClaimType
<1>2. c.quit = {} /\ c.grief = {} /\ c.dc = {} /\ c.seen = 0
  BY <1>1, NoClaimFits DEF NoClaim
<1>3. Full(c) /\ c.seen <= writes
  BY <1>2, Types DEF Full, WizardInv
<1>4. PICK new \in JobStates :
         new = [op |-> "percent", by |-> a, via |-> "none", claim |-> c, then |-> "none"]
  BY DEF JobStates, Ops, Vias
<1>5. /\ new.op = "percent" /\ new.by = a /\ new.via = "none" /\ new.claim = c
      /\ new.then = "none"
  BY <1>4
<1>6. JobFits(new)
  BY <1>3, <1>5 DEF JobFits
<1>7. /\ Start(j, a, "percent", "none", c, "none")
      /\ UNCHANGED <<match, page, posts, open, writes, result, plan>>
  BY <1>1 DEF SetPercent
<1>. QED
  BY <1>4, <1>6, <1>7, StartStep

-----------------------------------------------------------------------------
(* The work of a click.                                                    *)
LEMMA JobOf ==
    ASSUME WizardInv, NEW j \in Jobs
    PROVE  job[j] \in JobStates /\ JobFits(job[j]) /\ job[j].claim \in Claims
BY Types DEF WizardInv

(* One kind of marks is stored over what was there.                        *)
LEMMA MarkedType ==
    ASSUME NEW m \in MatchStates, NEW kind \in Marks, NEW s \in SUBSET Slots,
           m.quit \cap m.dc = {}
    PROVE  \E n \in MatchStates :
              /\ n = Marked(m, kind, s) /\ n.status = m.status /\ n.winner = m.winner
              /\ n.percent = m.percent /\ n.quit \cap n.dc = {}
              /\ n.quit \cap n.grief # {} => m.quit \cap m.grief # {}
              /\ kind = "dc" => n.dc = s
<1>1. CASE kind = "quit"
  <2>1. Marked(m, kind, s) = [m EXCEPT !.quit = s, !.grief = m.grief \ s, !.dc = m.dc \ s]
    BY <1>1 DEF Marked, setQuitters, MatchStates
  <2>2. PICK n \in MatchStates :
           n = [m EXCEPT !.quit = s, !.grief = m.grief \ s, !.dc = m.dc \ s]
    BY DEF MatchStates
  <2>3. /\ n.status = m.status /\ n.winner = m.winner /\ n.percent = m.percent
        /\ n.quit = s /\ n.dc = m.dc \ s /\ n.grief = m.grief \ s
    BY <2>2 DEF MatchStates
  <2>. QED
    BY <1>1, <2>1, <2>2, <2>3
<1>2. CASE kind = "grief"
  <2>1. Marked(m, kind, s) = [m EXCEPT !.grief = s, !.quit = m.quit \ s]
    BY <1>2 DEF Marked, setGriefers, MatchStates
  <2>2. PICK n \in MatchStates : n = [m EXCEPT !.grief = s, !.quit = m.quit \ s]
    BY DEF MatchStates
  <2>3. /\ n.status = m.status /\ n.winner = m.winner /\ n.percent = m.percent
        /\ n.quit = m.quit \ s /\ n.dc = m.dc /\ n.grief = s
    BY <2>2 DEF MatchStates
  <2>. QED
    BY <1>2, <2>1, <2>2, <2>3
<1>3. CASE kind = "dc"
  <2>1. Marked(m, kind, s) = [m EXCEPT !.dc = s, !.quit = m.quit \ s]
    BY <1>3 DEF Marked, setDcs, MatchStates
  <2>2. PICK n \in MatchStates : n = [m EXCEPT !.dc = s, !.quit = m.quit \ s]
    BY DEF MatchStates
  <2>3. /\ n.status = m.status /\ n.winner = m.winner /\ n.percent = m.percent
        /\ n.quit = m.quit \ s /\ n.dc = s /\ n.grief = m.grief
    BY <2>2 DEF MatchStates
  <2>. QED
    BY <1>3, <2>1, <2>2, <2>3
<1>. QED
  BY <1>1, <1>2, <1>3 DEF Marks

(* The page of a click that stored marks: gone, or the wizard's next one.  *)
LEMMA RedrawnFits ==
    ASSUME WizardInv, Onwards, NEW j \in Jobs, NEW m \in MatchStates, job[j].op \in Marks,
           match' = m, writes' = writes + 1, writes' \in 0 .. MaxWrites,
           job[j].op = "dc" => m.dc = job[j].claim.dc, m.quit \cap m.dc = {},
           page' \in {page, Redrawn(j, m)}
    PROVE  /\ page' \in [Staff -> PageStates]
           /\ \A a \in Staff : page'[a] = page[a] \/ PageFits(page[a])'
<1>0. /\ page \in [Staff -> PageStates] /\ job[j].by \in Staff /\ job[j] \in JobStates
      /\ NoPage \in PageStates /\ PageFits(NoPage)'
      /\ "idle" \notin Marks
  BY Types, JobOf, NoPageStays DEF WizardInv, JobFits, Marks
<1>1. PICK c \in Claims : c = job[j].claim
  BY JobOf
<1>2. Full(c) /\ (job[j].then # "none" => Apart(c))
      /\ (job[j].then \notin {"none", "quitters"} => Cancels(c))
  BY <1>1, JobOf DEF JobFits, Marks
<1>3. CASE page' = page
  BY <1>0, <1>3
<1>4. CASE page' # page
  <2>1. PICK a \in Staff : a = job[j].by
    BY <1>0
  <2>2. PICK n \in 0 .. MaxWrites : n = writes + 1 /\ n = writes'
    OBVIOUS
  <2>3. CASE job[j].then = "none"
    <3>1. page' = [page EXCEPT ![a] = NoPage]
      BY <1>4, <2>1, <2>3 DEF Redrawn
    <3>2. page' \in [Staff -> PageStates]
      BY <1>0, <3>1
    <3>3. \A b \in Staff : page'[b] = page[b] \/ page'[b] = NoPage
      BY <1>0, <3>1
    <3>. QED
      BY <1>0, <3>2, <3>3
  <2>4. CASE job[j].then = "quitters"
    <3>1. PICK d \in Claims : /\ d = Drawn(c, m, n) /\ d.dc = m.dc \ m.quit /\ d.seen = n
                              /\ d.quit = c.quit /\ d.grief = c.grief
      BY DrawnType
    <3>2. PICK g \in PageStates : g = [at |-> "quitters", claim |-> d]
      BY DEF PageStates, Steps
    <3>3. g.at = "quitters" /\ g.claim = d
      BY <3>2
    <3>4. page' = [page EXCEPT ![a] = g]
      BY <1>1, <1>4, <2>1, <2>2, <2>4, <3>1, <3>2 DEF Redrawn
    <3>5. d.dc \in SUBSET Slots
      BY <3>1 DEF MatchStates
    <3>6. Full(d) /\ Apart(d) /\ d.seen <= writes'
      BY <1>2, <2>2, <2>4, <3>1, <3>5 DEF Full, Apart
    <3>7. PageFits(g)'
      BY <3>3, <3>6 DEF PageFits, Full, Apart
    <3>8. page' \in [Staff -> PageStates]
      BY <1>0, <3>4
    <3>9. \A b \in Staff : page'[b] = page[b] \/ page'[b] = g
      BY <1>0, <3>4
    <3>. QED
      BY <3>7, <3>8, <3>9
  <2>5. CASE job[j].then \notin {"none", "quitters"}
    <3>1. PICK d \in Claims : d = [c EXCEPT !.seen = n]
      BY ClaimType
    <3>2. /\ d.seen = n /\ d.quit = c.quit /\ d.grief = c.grief /\ d.dc = c.dc
          /\ d.winner = c.winner /\ d.percent = c.percent
      BY <3>1 DEF Claims
    <3>3. PICK g \in PageStates : g = [at |-> "cancelConfirm", claim |-> d]
      BY DEF PageStates, Steps
    <3>4. g.at = "cancelConfirm" /\ g.claim = d
      BY <3>3
    <3>5. job[j].op = "dc" /\ job[j].via = "wizard"
      BY <2>5, JobOf DEF JobFits
    <3>6. page' = [page EXCEPT ![a] = g]
      BY <1>1, <1>4, <2>1, <2>2, <2>5, <3>1, <3>3, <3>5 DEF Redrawn, showCancelConfirmStep
    <3>7. Full(d) /\ Apart(d) /\ d.seen <= writes' /\ Cancels(d)
      BY <1>2, <2>2, <2>5, <3>2 DEF Full, Apart, Cancels
    <3>8. d.dc = match'.dc \ match'.quit
      BY <1>1, <3>2, <3>5
    <3>9. Current(d)'
      BY <3>8 DEF Current
    <3>10. PageFits(g)'
      BY <3>4, <3>7, <3>9 DEF PageFits, Full, Apart, Cancels
    <3>11. page' \in [Staff -> PageStates]
      BY <1>0, <3>6
    <3>12. \A b \in Staff : page'[b] = page[b] \/ page'[b] = g
      BY <1>0, <3>6
    <3>. QED
      BY <3>10, <3>11, <3>12
  <2>. QED
    BY <2>3, <2>4, <2>5
<1>. QED
  BY <1>3, <1>4

LEMMA WriteMarksStep ==
    ASSUME WizardInv, NEW j \in Jobs, WriteMarks(j)
    PROVE  WizardInv'
<1>0. /\ match \in MatchStates /\ writes \in Nat /\ writes' = writes + 1 /\ writes < MaxWrites
      /\ match.quit \cap match.dc = {} /\ job[j].op \in Marks
      /\ UNCHANGED <<posts, open, result, plan>> /\ Done(j)
  BY Types DEF WizardInv, WriteMarks, MarksOK
<1>1. writes' \in 0 .. MaxWrites
  BY <1>0, ReportWizardAssumption
<1>2. PICK kind \in Marks : kind = job[j].op
  BY <1>0
<1>3. PICK s \in SUBSET Slots :
         /\ s = job[j].claim[kind] /\ (kind = "dc" => s = job[j].claim.dc)
  BY <1>2, JobOf DEF JobFits, Marks, Full
<1>4. PICK m \in MatchStates :
         /\ m = Marked(match, kind, s) /\ m.status = match.status /\ m.winner = match.winner
         /\ m.percent = match.percent /\ m.quit \cap m.dc = {}
         /\ m.quit \cap m.grief # {} => match.quit \cap match.grief # {}
         /\ kind = "dc" => m.dc = s
  BY <1>0, MarkedType
<1>5. match' = m /\ page' \in {page, Redrawn(j, m)}
  BY <1>2, <1>3, <1>4 DEF WriteMarks
<1>6. Onwards
  BY <1>0 DEF Onwards
<1>7. /\ page' \in [Staff -> PageStates]
      /\ \A a \in Staff : page'[a] = page[a] \/ PageFits(page[a])'
  BY <1>0, <1>1, <1>2, <1>3, <1>4, <1>5, <1>6, RedrawnFits
<1>8. \A c \in posts : c.seen \in Nat /\ c.seen <= writes
  BY Types DEF WizardInv, PostsOK, Claims
<1>9. PostsOK'
  BY <1>0, <1>8 DEF PostsOK
<1>10. MarksOK'
  BY <1>0, <1>4, <1>5 DEF WizardInv, MarksOK
<1>11. WaitingOK'
  <2>. SUFFICES ASSUME match'.status = "WAITING_FOR_MITIGATION_APPROVAL", match'.winner # None
                PROVE  Asked(Wrote(match, match.winner, match.percent))'
    BY DEF WaitingOK
  <2>1. Asked(Wrote(match, match.winner, match.percent))
    BY <1>4, <1>5 DEF WizardInv, WaitingOK
  <2>2. PICK c \in posts : c.seen < writes'
    BY <1>0, <1>8, <2>1 DEF Asked
  <2>. QED
    BY <1>0, <2>2 DEF Asked
<1>12. /\ open' \in 0 .. 2 /\ posts' \subseteq Claims /\ result' \in Results \cup {None}
       /\ UNCHANGED plan /\ match' \in MatchStates
  BY <1>0, <1>5 DEF WizardInv, TypeOK
<1>. QED
  BY <1>0, <1>1, <1>6, <1>7, <1>9, <1>10, <1>11, <1>12, DoneStep

(* The row a completion leaves, and what it is recorded to have written.   *)
LEMMA CompletedRow ==
    ASSUME WizardInv, NEW j \in Jobs, completeMatch(j)
    PROVE  /\ match' \in MatchStates /\ match'.status = "COMPLETED"
           /\ match'.quit \cap match'.dc = {}
           /\ job[j].via # "command" =>
                 /\ match'.quit = job[j].claim.quit /\ match'.grief = job[j].claim.grief
                 /\ Apart(job[j].claim)
           /\ job[j].via = "wizard" => match'.dc = match.dc \ job[j].claim.quit
           /\ job[j].via = "approve" => match'.dc = job[j].claim.dc \ job[j].claim.quit
<1>. DEFINE k == job[j]
            c == job[j].claim
            g == Given(j)
            q == Persisted(match.quit, g.quit)
            r == Persisted(match.grief, g.grief)
            d == Persisted(match.dc, g.dc)
<1>1. match \in MatchStates /\ c \in Claims /\ k \in JobStates /\ JobFits(k)
  BY Types, JobOf DEF WizardInv
<1>2. k.op = "complete" /\ k.via \in {"wizard", "command", "approve", "panel"}
  BY <1>1 DEF completeMatch, JobFits, JobStates, Vias
<1>3. k.via # "command" => Full(c) /\ Apart(c)
  BY <1>1, <1>2 DEF JobFits
<1>4. g = IF k.via \in {"wizard", "panel"} THEN [c EXCEPT !.dc = None] ELSE c
  BY DEF Given
<1>5. g \in Claims /\ g.quit = c.quit /\ g.grief = c.grief
  BY <1>1, <1>4 DEF Claims
<1>6. /\ k.via \in {"wizard", "panel"} => g.dc = None
      /\ k.via \notin {"wizard", "panel"} => g.dc = c.dc
  BY <1>1, <1>4 DEF Claims
<1>7. q \in SUBSET Slots /\ r \in SUBSET Slots /\ d \in SUBSET Slots
  BY <1>1, <1>5, PersistedType DEF MatchStates, Claims
<1>8. /\ k.via # "command" => q = c.quit /\ r = c.grief
      /\ k.via \in {"wizard", "panel"} => d = match.dc
      /\ k.via = "approve" => d = c.dc
  BY <1>3, <1>5, <1>6, ReportWizardAssumption DEF Persisted, Full
<1>9. c.percent \in Percents \cup {0}
  BY <1>1 DEF Claims
<1>10. match' = [match EXCEPT !.quit = q, !.grief = r, !.dc = d \ q,
                              !.status = "COMPLETED", !.percent = c.percent, !.winner = None]
  <2>1. CompletedMarks(match, g) = [match EXCEPT !.quit = q, !.grief = r, !.dc = d \ q]
    BY DEF CompletedMarks
  <2>. QED
    BY <2>1 DEF completeMatch
<1>. HIDE DEF q, r, d, g, c, k
<1>11. /\ match' \in MatchStates /\ match'.status = "COMPLETED"
       /\ match'.quit = q /\ match'.grief = r /\ match'.dc = d \ q
  BY <1>1, <1>7, <1>9, <1>10 DEF MatchStates, Statuses
<1>12. match'.quit \cap match'.dc = {}
  BY <1>11
<1>13. k.via # "command" => match'.quit = c.quit /\ match'.grief = c.grief /\ Apart(c)
  BY <1>3, <1>8, <1>11
<1>14. k.via = "wizard" => match'.dc = match.dc \ c.quit
  BY <1>8, <1>11
<1>15. k.via = "approve" => match'.dc = c.dc \ c.quit
  BY <1>8, <1>11
<1>. QED
  BY <1>11, <1>12, <1>13, <1>14, <1>15 DEF c, k

LEMMA CancelledRow ==
    ASSUME WizardInv, NEW j \in Jobs, cancelInProgressMatch(j)
    PROVE  /\ match' \in MatchStates /\ match'.status = "CANCELLED"
           /\ match'.quit \cap match'.dc = {} /\ match'.quit \cap match'.grief = {}
           /\ job[j].via \in {"wizard", "command"}
           /\ job[j].via = "wizard" =>
                 /\ match'.grief = job[j].claim.grief /\ match'.dc = match.dc
                 /\ Cancels(job[j].claim)
<1>. DEFINE k == job[j]
            c == job[j].claim
            g == Given(j)
<1>1. match \in MatchStates /\ c \in Claims /\ k \in JobStates /\ JobFits(k)
  BY Types, JobOf DEF WizardInv
<1>2. k.op = "cancel" /\ k.via \in {"wizard", "command"}
  BY <1>1 DEF cancelInProgressMatch, JobFits, JobStates, Vias
<1>3. k.via = "wizard" => Full(c) /\ Cancels(c)
  BY <1>1, <1>2 DEF JobFits
<1>4. match.quit \cap match.grief = {} /\ match.quit \cap match.dc = {}
  BY DEF WizardInv, MarksOK, cancelInProgressMatch, InProgress
<1>5. g = IF k.via \in {"wizard", "panel"} THEN [c EXCEPT !.dc = None] ELSE c
  BY DEF Given
<1>6. /\ g \in Claims /\ g.grief = c.grief
      /\ k.via = "wizard" => g.dc = None /\ g.grief # None
  BY <1>1, <1>3, <1>5, ReportWizardAssumption DEF Claims, Full
<1>7. PICK m \in MatchStates :
         /\ m = IF g.grief = None THEN match ELSE setGriefers(match, g.grief)
         /\ m.dc = match.dc /\ m.quit \cap m.grief = {} /\ m.quit \cap m.dc = {}
         /\ g.grief # None => m.grief = g.grief
  <2>1. CASE g.grief = None
    BY <1>1, <1>4, <2>1
  <2>2. CASE g.grief # None
    <3>1. g.grief \in SUBSET Slots
      BY <1>6, <2>2 DEF Claims
    <3>2. setGriefers(match, g.grief) = [match EXCEPT !.grief = g.grief, !.quit = match.quit \ g.grief]
      BY <1>1 DEF setGriefers, MatchStates
    <3>3. PICK m \in MatchStates :
             m = [match EXCEPT !.grief = g.grief, !.quit = match.quit \ g.grief]
      BY <1>1, <3>1 DEF MatchStates
    <3>4. m.grief = g.grief /\ m.quit = match.quit \ g.grief /\ m.dc = match.dc
      BY <1>1, <3>3 DEF MatchStates
    <3>. QED
      BY <1>4, <2>2, <3>2, <3>3, <3>4
  <2>. QED
    BY <2>1, <2>2
<1>8. PICK n \in MatchStates :
         /\ n = IF g.dc = None THEN m ELSE setDcs(m, g.dc)
         /\ n.grief = m.grief /\ n.quit \cap n.grief = {} /\ n.quit \cap n.dc = {}
         /\ g.dc = None => n.dc = m.dc
  <2>1. CASE g.dc = None
    BY <1>7, <2>1
  <2>2. CASE g.dc # None
    <3>1. g.dc \in SUBSET Slots
      BY <1>6, <2>2 DEF Claims
    <3>2. setDcs(m, g.dc) = [m EXCEPT !.dc = g.dc, !.quit = m.quit \ g.dc]
      BY DEF setDcs, MatchStates
    <3>3. PICK n \in MatchStates : n = [m EXCEPT !.dc = g.dc, !.quit = m.quit \ g.dc]
      BY <3>1 DEF MatchStates
    <3>4. n.dc = g.dc /\ n.quit = m.quit \ g.dc /\ n.grief = m.grief
      BY <3>3 DEF MatchStates
    <3>. QED
      BY <1>7, <2>2, <3>2, <3>3, <3>4
  <2>. QED
    BY <2>1, <2>2
<1>9. match' = [n EXCEPT !.status = "CANCELLED"]
  BY <1>7, <1>8 DEF cancelInProgressMatch
<1>10. /\ match' \in MatchStates /\ match'.status = "CANCELLED"
       /\ match'.quit = n.quit /\ match'.grief = n.grief /\ match'.dc = n.dc
  BY <1>9 DEF MatchStates, Statuses
<1>. HIDE DEF g, c, k
<1>11. k.via = "wizard" => match'.grief = c.grief /\ match'.dc = match.dc /\ Cancels(c)
  BY <1>3, <1>6, <1>7, <1>8, <1>10
<1>12. match'.quit \cap match'.dc = {} /\ match'.quit \cap match'.grief = {}
  BY <1>8, <1>10
<1>. QED
  BY <1>2, <1>10, <1>11, <1>12 DEF c, k

LEMMA EndedType ==
    ASSUME WizardInv, NEW j \in Jobs, job[j].op # "idle", match' \in MatchStates,
           NEW w \in Teams \cup {None}, NEW p \in Percents \cup {0}
    PROVE  \E e \in Results :
              /\ e = Ended(j, w, p) /\ e.via = job[j].via /\ e.by = job[j].by
              /\ job[j].via = "wizard" => e.claim = job[j].claim
              /\ e.wrote.winner = w /\ e.wrote.percent = p /\ e.wrote.seen = writes
              /\ e.wrote.quit = match'.quit /\ e.wrote.grief = match'.grief
              /\ e.wrote.dc = match'.dc
<1>1. /\ job[j].by \in Staff /\ job[j].via \in Vias /\ job[j].claim \in Claims
      /\ NoClaim \in Claims /\ writes \in 0 .. MaxWrites
  BY JobOf, NoClaimFits, Types DEF JobFits, JobStates, WizardInv
<1>2. PICK m \in MatchStates : m = match'
  OBVIOUS
<1>3. PICK c \in Claims :
         /\ c = Wrote(m, w, p) /\ c.winner = w /\ c.percent = p /\ c.seen = writes
         /\ c.quit = m.quit /\ c.grief = m.grief /\ c.dc = m.dc
  BY <1>1, WroteType
<1>4. PICK said \in Claims : said = IF job[j].via = "wizard" THEN job[j].claim ELSE NoClaim
  BY <1>1
<1>5. PICK via \in Vias, by \in Staff : via = job[j].via /\ by = job[j].by
  BY <1>1
<1>6. PICK e \in Results : e = [via |-> via, by |-> by, wrote |-> c, claim |-> said]
  BY DEF Results
<1>7. e = Ended(j, w, p)
  BY <1>2, <1>3, <1>4, <1>5, <1>6 DEF Ended
<1>8. e.via = job[j].via /\ e.by = job[j].by /\ e.wrote = c
      /\ (job[j].via = "wizard" => e.claim = job[j].claim)
  BY <1>4, <1>5, <1>6
<1>. QED
  BY <1>2, <1>3, <1>7, <1>8

(* A job that ends the match, well or not, changes nothing that waits.     *)
LEMMA EndStep ==
    ASSUME WizardInv, NEW j \in Jobs, job[j].op # "idle", match' \in MatchStates,
           match'.status \in {"COMPLETED", "CANCELLED"}, match'.quit \cap match'.dc = {},
           match'.quit \cap match'.grief # {} =>
              match'.status = "COMPLETED" /\ result' # None /\ result'.via = "command",
           result' \in Results, Done(j), UNCHANGED <<posts, open, writes, plan>>,
           page' = IF job[j].via = "wizard" THEN Cleared(j) ELSE page
    PROVE  WizardInv'
<1>1. Onwards
  BY DEF Onwards, Reportable
<1>2. /\ page' \in [Staff -> PageStates]
      /\ \A a \in Staff : page'[a] = page[a] \/ PageFits(page[a])'
  BY <1>1, ClearedFits
<1>3. PostsOK' /\ MarksOK' /\ WaitingOK'
  BY DEF WizardInv, PostsOK, MarksOK, WaitingOK
<1>4. /\ posts' \subseteq Claims /\ open' \in 0 .. 2 /\ writes' \in 0 .. MaxWrites
      /\ result' \in Results \cup {None}
  BY DEF WizardInv, TypeOK
<1>. QED
  BY <1>1, <1>2, <1>3, <1>4, DoneStep

LEMMA CompleteResult ==
    ASSUME WizardInv, NEW j \in Jobs, completeMatch(j)
    PROVE  /\ result' \in Results /\ result'.via = job[j].via /\ result'.by = job[j].by
           /\ job[j].via = "wizard" => result'.claim = job[j].claim
           /\ result'.wrote.winner = job[j].claim.winner
           /\ result'.wrote.percent = job[j].claim.percent /\ result'.wrote.seen = writes
           /\ result'.wrote.quit = match'.quit /\ result'.wrote.grief = match'.grief
           /\ result'.wrote.dc = match'.dc
<1>1. PICK w \in Teams \cup {None}, p \in Percents \cup {0} :
         w = job[j].claim.winner /\ p = job[j].claim.percent
  BY JobOf DEF Claims
<1>2. job[j].op # "idle" /\ match' \in MatchStates
  BY CompletedRow DEF completeMatch
<1>3. result' = Ended(j, w, p)
  BY <1>1 DEF completeMatch
<1>. QED
  BY <1>1, <1>2, <1>3, EndedType

LEMMA CancelResult ==
    ASSUME WizardInv, NEW j \in Jobs, cancelInProgressMatch(j)
    PROVE  /\ result' \in Results /\ result'.via = job[j].via /\ result'.by = job[j].by
           /\ job[j].via = "wizard" => result'.claim = job[j].claim
           /\ result'.wrote.winner = None /\ result'.wrote.percent = 0
           /\ result'.wrote.seen = writes
           /\ result'.wrote.quit = match'.quit /\ result'.wrote.grief = match'.grief
           /\ result'.wrote.dc = match'.dc
<1>1. PICK w \in Teams \cup {None}, p \in Percents \cup {0} : w = None /\ p = 0
  OBVIOUS
<1>2. job[j].op # "idle" /\ match' \in MatchStates
  BY CancelledRow DEF cancelInProgressMatch
<1>3. result' = Ended(j, w, p)
  BY <1>1 DEF cancelInProgressMatch
<1>. QED
  BY <1>1, <1>2, <1>3, EndedType

LEMMA CompleteStep ==
    ASSUME WizardInv, NEW j \in Jobs, completeMatch(j)
    PROVE  WizardInv'
<1>1. /\ job[j].op # "idle" /\ Done(j) /\ UNCHANGED <<posts, open, writes, plan>>
      /\ page' = IF job[j].via = "wizard" THEN Cleared(j) ELSE page
  BY DEF completeMatch
<1>2. result' # None
  BY CompleteResult, ReportWizardAssumption
<1>3. match'.quit \cap match'.grief # {} => result'.via = "command"
  BY CompletedRow, CompleteResult DEF Apart
<1>. QED
  BY <1>1, <1>2, <1>3, CompletedRow, CompleteResult, EndStep

LEMMA CancelStep ==
    ASSUME WizardInv, NEW j \in Jobs, cancelInProgressMatch(j)
    PROVE  WizardInv'
<1>1. /\ job[j].op # "idle" /\ Done(j) /\ UNCHANGED <<posts, open, writes, plan>>
      /\ page' = IF job[j].via = "wizard" THEN Cleared(j) ELSE page
  BY DEF cancelInProgressMatch
<1>. QED
  BY <1>1, CancelledRow, CancelResult, EndStep

(* A job that leaves the match and what waits alone.                       *)
LEMMA LeaveStep ==
    ASSUME WizardInv, NEW j \in Jobs, job[j].op # "idle", NEW new \in JobStates, JobFits(new),
           job' = [job EXCEPT ![j] = new], open' \in 0 .. 2,
           page' = page \/ page' = IF job[j].via = "wizard" THEN Cleared(j) ELSE page,
           UNCHANGED <<match, posts, writes, result, plan>>
    PROVE  WizardInv'
<1>1. Onwards
  BY Stays
<1>2. /\ page' \in [Staff -> PageStates]
      /\ \A a \in Staff : page'[a] = page[a] \/ PageFits(page[a])'
  BY <1>1, ClearedFits, Types DEF WizardInv
<1>3. PostsOK' /\ MarksOK' /\ WaitingOK'
  BY RestFits
<1>4. JobFits(new)'
  BY <1>1, OnwardsJob
<1>5. /\ posts' \subseteq Claims /\ writes' \in 0 .. MaxWrites
      /\ result' \in Results \cup {None} /\ match' \in MatchStates
  BY DEF WizardInv, TypeOK, MatchStates
<1>. QED
  BY <1>1, <1>2, <1>3, <1>4, <1>5, WorkStep

LEMMA GiveUpStep ==
    ASSUME WizardInv, NEW j \in Jobs, GiveUp(j)
    PROVE  WizardInv'
<1>1. /\ job[j].op # "idle" /\ UNCHANGED <<match, posts, open, writes, result, plan>>
      /\ page' = IF job[j].via = "wizard" THEN Cleared(j) ELSE page
  BY DEF GiveUp
<1>2. PICK new \in JobStates : new = Idle /\ JobFits(new)
  BY IdleFits, Types DEF WizardInv
<1>3. job' = [job EXCEPT ![j] = new]
  BY <1>2 DEF GiveUp, Done
<1>4. open' \in 0 .. 2
  BY <1>1 DEF WizardInv, TypeOK
<1>. QED
  BY <1>1, <1>2, <1>3, <1>4, LeaveStep

LEMMA RequestPostStep ==
    ASSUME WizardInv, NEW j \in Jobs, RequestPost(j)
    PROVE  WizardInv'
<1>1. job[j].op # "idle" /\ UNCHANGED <<match, page, posts, writes, result, plan>>
  BY DEF RequestPost
<1>2. PICK new \in JobStates : new = Idle /\ JobFits(new)
  BY IdleFits, Types DEF WizardInv
<1>3. job' = [job EXCEPT ![j] = new]
  BY <1>2 DEF RequestPost, Done
<1>4. open' \in 0 .. 2
  BY DEF WizardInv, TypeOK, RequestPost
<1>. QED
  BY <1>1, <1>2, <1>3, <1>4, LeaveStep

(* A request reads the stored disconnects and goes on.                     *)
LEMMA RequestReadStep ==
    ASSUME WizardInv, NEW j \in Jobs, RequestRead(j)
    PROVE  WizardInv'
<1>1. /\ job[j].op = "request" /\ UNCHANGED <<match, posts, open, writes, result, plan>>
      /\ page' = IF job[j].via = "wizard" THEN Cleared(j) ELSE page
  BY DEF RequestRead
<1>2. job[j] \in JobStates /\ JobFits(job[j]) /\ job[j].claim \in Claims
  BY JobOf
<1>3. /\ job[j].by \in Staff /\ Full(job[j].claim) /\ job[j].claim.seen <= writes
      /\ job[j].via \in {"none", "wizard", "command"} /\ job[j].then = "none"
      /\ job[j].via = "wizard" => Apart(job[j].claim)
  BY <1>1, <1>2 DEF JobFits, JobStates, Vias
<1>4. PICK s \in SUBSET Slots : s = IF job[j].via = "wizard" THEN match.dc ELSE job[j].claim.dc
  BY <1>3, Types DEF WizardInv, MatchStates, Full
<1>5. PICK c \in Claims : c = [job[j].claim EXCEPT !.dc = s]
  BY <1>2, ClaimType, SlotsIn
<1>6. /\ c.dc = s /\ c.quit = job[j].claim.quit /\ c.grief = job[j].claim.grief
      /\ c.seen = job[j].claim.seen
  BY <1>2, <1>5 DEF Claims
<1>7. Full(c) /\ c.seen <= writes /\ (job[j].via = "wizard" => Apart(c))
  BY <1>3, <1>6 DEF Full, Apart
<1>8. PICK new \in JobStates : new = [job[j] EXCEPT !.op = "pending", !.claim = c]
  BY <1>2 DEF JobStates, Ops
<1>9. /\ new.op = "pending" /\ new.claim = c /\ new.by = job[j].by /\ new.via = job[j].via
      /\ new.then = job[j].then
  BY <1>2, <1>8 DEF JobStates
<1>10. JobFits(new)
  BY <1>3, <1>7, <1>9 DEF JobFits
<1>11. job' = [job EXCEPT ![j] = new]
  BY <1>4, <1>5, <1>8 DEF RequestRead
<1>12. open' \in 0 .. 2
  BY <1>1 DEF WizardInv, TypeOK
<1>. QED
  BY <1>1, <1>10, <1>11, <1>12, LeaveStep

(* What a request stores is what it asks for.                              *)
LEMMA RequestWriteStep ==
    ASSUME WizardInv, NEW j \in Jobs, RequestWrite(j)
    PROVE  WizardInv'
<1>0. /\ match \in MatchStates /\ writes \in Nat /\ writes' = writes + 1 /\ writes < MaxWrites
      /\ job[j].op = "pending" /\ UNCHANGED <<page, open, result, plan>>
  BY Types DEF WizardInv, RequestWrite
<1>1. writes' \in 0 .. MaxWrites
  BY <1>0, ReportWizardAssumption
<1>2. job[j] \in JobStates /\ JobFits(job[j])
  BY JobOf
<1>3. PICK c \in Claims : c = job[j].claim
  BY JobOf
<1>4. /\ job[j].by \in Staff /\ Full(c) /\ c.seen <= writes /\ c.seen \in Nat
      /\ job[j].via \in {"none", "wizard", "command"} /\ job[j].then = "none"
  BY <1>0, <1>2, <1>3 DEF JobFits, JobStates, Vias, Claims
<1>5. match' = [match EXCEPT !.quit = c.quit, !.grief = c.grief \ c.quit, !.dc = c.dc \ c.quit,
                             !.status = "WAITING_FOR_MITIGATION_APPROVAL",
                             !.winner = c.winner, !.percent = c.percent]
  BY <1>3 DEF RequestWrite, RequestedMarks
<1>6. /\ match' \in MatchStates /\ match'.winner = c.winner /\ match'.percent = c.percent
      /\ match'.quit = c.quit /\ match'.grief = c.grief \ c.quit /\ match'.dc = c.dc \ c.quit
  BY <1>0, <1>4, <1>5 DEF MatchStates, Statuses, Full, Claims
<1>7. PICK p \in Claims : p = [c EXCEPT !.seen = IF c.seen = writes THEN writes + 1 ELSE c.seen]
  <2>1. PICK n \in 0 .. MaxWrites : n = IF c.seen = writes THEN writes + 1 ELSE c.seen
    BY <1>0, <1>1 DEF Claims
  <2>. QED
    BY <2>1, ClaimType
<1>8. /\ p.winner = c.winner /\ p.percent = c.percent /\ p.quit = c.quit /\ p.grief = c.grief
      /\ p.dc = c.dc /\ p.seen <= writes + 1
  BY <1>0, <1>4, <1>7 DEF Claims
<1>9. posts' = posts \cup {p}
  BY <1>3, <1>7 DEF RequestWrite
<1>10. Onwards
  BY <1>0, <1>9 DEF Onwards
<1>11. PostsOK'
  <2>1. \A d \in posts : d.seen \in Nat /\ d.seen <= writes
    BY Types DEF WizardInv, PostsOK, Claims
  <2>2. \A d \in posts : d.seen <= writes + 1
    BY <1>0, <2>1
  <2>. QED
    BY <1>0, <1>8, <1>9, <2>2 DEF PostsOK
<1>12. MarksOK'
  BY <1>6 DEF MarksOK
<1>13. WaitingOK'
  <2>1. PICK r \in Claims :
           /\ r = Wrote(match, match.winner, match.percent)' /\ r.winner = match'.winner
           /\ r.percent = match'.percent /\ r.quit = match'.quit /\ r.grief = match'.grief
           /\ r.dc = match'.dc
    <3>1. PICK m \in MatchStates : m = match'
      BY <1>6
    <3>2. m.winner \in Teams \cup {None} /\ m.percent \in Percents \cup {0}
      BY DEF MatchStates
    <3>3. Wrote(match, match.winner, match.percent)' =
             [winner |-> m.winner, quit |-> m.quit, grief |-> m.grief, dc |-> m.dc,
              percent |-> m.percent, seen |-> writes']
      BY <3>1 DEF Wrote
    <3>4. PICK r \in Claims :
             r = [winner |-> m.winner, quit |-> m.quit, grief |-> m.grief, dc |-> m.dc,
                  percent |-> m.percent, seen |-> writes']
      BY <1>1, <3>2 DEF MatchStates, Claims
    <3>. QED
      BY <3>1, <3>3, <3>4
  <2>2. Agrees(p, r)
    BY <1>6, <1>8, <2>1 DEF Agrees
  <2>3. Asked(r)'
    BY <1>9, <2>2 DEF Asked, Agrees
  <2>. QED
    BY <2>1, <2>3 DEF WaitingOK
<1>14. PICK new \in JobStates : new = [job[j] EXCEPT !.op = "post", !.claim = NoClaim]
  BY <1>2, NoClaimFits DEF JobStates, Ops
<1>15. /\ new.op = "post" /\ new.claim = NoClaim /\ new.by = job[j].by /\ new.via = job[j].via
       /\ new.then = job[j].then
  BY <1>2, <1>14 DEF JobStates
<1>16. JobFits(new)
  BY <1>0, <1>4, <1>15, NoClaimFits DEF JobFits
<1>17. JobFits(new)'
  BY <1>10, <1>16, OnwardsJob
<1>18. job' = [job EXCEPT ![j] = new]
  BY <1>14 DEF RequestWrite
<1>19. /\ page' \in [Staff -> PageStates] /\ \A a \in Staff : page'[a] = page[a]
       /\ posts' \subseteq Claims /\ open' \in 0 .. 2 /\ result' \in Results \cup {None}
  BY <1>0, <1>9, Types DEF WizardInv, TypeOK
<1>. QED
  BY <1>0, <1>1, <1>6, <1>10, <1>11, <1>12, <1>13, <1>17, <1>18, <1>19, WorkStep

(* A moderator's new softening is posted with all that is stored.          *)
LEMMA WritePercentStep ==
    ASSUME WizardInv, NEW j \in Jobs, WritePercent(j)
    PROVE  WizardInv'
<1>0. /\ match \in MatchStates /\ writes \in 0 .. MaxWrites /\ job[j].op = "percent"
      /\ Done(j) /\ UNCHANGED <<page, open, writes, result, plan>> /\ writes \in Nat
  BY Types DEF WizardInv, WritePercent
<1>1. PICK p \in Percents \cup {0} : p = job[j].claim.percent
  BY JobOf DEF Claims
<1>2. PICK m \in MatchStates : m = [match EXCEPT !.percent = p]
  BY <1>0 DEF MatchStates
<1>3. /\ match' = m /\ m.status = match.status /\ m.quit = match.quit /\ m.grief = match.grief
      /\ m.dc = match.dc /\ m.winner = match.winner /\ m.percent = p
  BY <1>0, <1>1, <1>2 DEF MatchStates, WritePercent, setPendingMitigationPercent
<1>4. PICK w \in Teams : w = IF m.winner = 2 THEN 2 ELSE 1
  BY DEF Teams
<1>5. PICK c \in Claims :
         /\ c = Wrote(m, w, p) /\ c.winner = w /\ c.percent = p /\ c.quit = m.quit
         /\ c.grief = m.grief /\ c.dc = m.dc /\ c.seen = writes
  BY <1>0, WroteType
<1>6. posts' = posts \cup {c}
  BY <1>3, <1>4, <1>5 DEF WritePercent, Reposted
<1>7. Onwards
  BY <1>0, <1>3, <1>6 DEF Onwards
<1>8. PostsOK'
  BY <1>0, <1>5, <1>6 DEF WizardInv, PostsOK
<1>9. MarksOK'
  BY <1>0, <1>3 DEF WizardInv, MarksOK
<1>10. WaitingOK'
  <2>. SUFFICES ASSUME match'.status = "WAITING_FOR_MITIGATION_APPROVAL", match'.winner # None
                PROVE  Asked(Wrote(match, match.winner, match.percent))'
    BY DEF WaitingOK
  <2>1. w = m.winner
    BY <1>3, <1>4 DEF MatchStates, Teams
  <2>2. PICK r \in Claims :
           /\ r = Wrote(m, m.winner, m.percent) /\ r.winner = m.winner
           /\ r.percent = m.percent /\ r.quit = m.quit /\ r.grief = m.grief /\ r.dc = m.dc
    <3>1. m.winner \in Teams \cup {None} /\ m.percent \in Percents \cup {0}
      BY DEF MatchStates
    <3>. QED
      BY <1>0, <3>1, WroteType
  <2>3. r = Wrote(match, match.winner, match.percent)'
    BY <1>0, <1>3, <2>2 DEF Wrote
  <2>4. m.quit \cap m.grief = {} /\ m.quit \cap m.dc = {}
    BY <1>3 DEF WizardInv, MarksOK
  <2>5. Agrees(c, r)
    BY <1>3, <1>5, <2>1, <2>2, <2>4 DEF Agrees
  <2>6. Asked(r)'
    BY <1>6, <2>5 DEF Asked, Agrees
  <2>. QED
    BY <2>3, <2>6
<1>11. /\ page' \in [Staff -> PageStates] /\ \A a \in Staff : page'[a] = page[a]
       /\ posts' \subseteq Claims /\ open' \in 0 .. 2 /\ writes' \in 0 .. MaxWrites
       /\ result' \in Results \cup {None}
  BY <1>0, <1>6, Types DEF WizardInv, TypeOK
<1>. QED
  BY <1>0, <1>3, <1>7, <1>8, <1>9, <1>10, <1>11, DoneStep

-----------------------------------------------------------------------------
(* The invariant holds at the start, and every step keeps it.              *)
LEMMA InitWizard == Init => WizardInv
<1>. SUFFICES ASSUME Init
              PROVE  WizardInv
  OBVIOUS
<1>0. 0 \in 0 .. MaxWrites
  BY ReportWizardAssumption
<1>1. /\ match \in MatchStates /\ match.quit = {} /\ match.dc = {} /\ match.winner = None
  BY DEF Init, MatchStates, Statuses
<1>2. writes = 0 /\ writes \in Nat /\ posts = {}
  BY DEF Init
<1>3. \A a \in Staff : page[a] = NoPage
  BY DEF Init
<1>4. \A a \in Staff : page[a] \in PageStates /\ PageFits(page[a])
  BY <1>2, <1>3, NoPageFits
<1>5. \A j \in Jobs : job[j] = Idle
  BY DEF Init
<1>6. \A j \in Jobs : job[j] \in JobStates /\ JobFits(job[j])
  BY <1>2, <1>5, IdleFits
<1>7. page \in [Staff -> PageStates]
  BY <1>2, NoPageFits DEF Init
<1>8. job \in [Jobs -> JobStates]
  BY <1>2, IdleFits DEF Init
<1>9. TypeOK
  BY <1>0, <1>1, <1>7, <1>8 DEF Init, TypeOK, MatchStates, PageStates, JobStates
<1>10. PostsOK /\ MarksOK /\ WaitingOK
  BY <1>1, <1>2 DEF PostsOK, MarksOK, WaitingOK
<1>. QED
  BY <1>4, <1>6, <1>9, <1>10 DEF WizardInv

LEMMA StutterWizard == WizardInv /\ UNCHANGED vars => WizardInv'
<1>. SUFFICES ASSUME WizardInv, UNCHANGED vars
              PROVE  WizardInv'
  OBVIOUS
<1>1. Onwards
  BY Stays DEF vars
<1>2. PostsOK' /\ MarksOK' /\ WaitingOK'
  BY RestFits DEF vars
<1>3. /\ match' \in MatchStates /\ posts' \subseteq Claims /\ open' \in 0 .. 2
      /\ UNCHANGED <<page, job, writes, result, plan>>
  BY Types DEF vars, WizardInv, TypeOK
<1>. QED
  BY <1>1, <1>2, <1>3, RowStep

LEMMA WizardSteps == WizardInv /\ Wizard => WizardInv'
<1>. SUFFICES ASSUME WizardInv, NEW a \in Staff,
                     \/ ReportEntry(a) \/ ReportStats(a) \/ CancelEntry(a) \/ CancelNo(a)
                     \/ \E s \in SUBSET Slots :
                           ReportGriefers(a, s) \/ ReportQuitters(a, s) \/ CancelGriefers(a, s)
                     \/ \E w \in Teams : ReportWinner(a, w)
                     \/ \E p \in Percents \cup {0} : ReportMitigation(a, p)
                     \/ \E j \in Jobs : Confirm(a, j) \/ CancelConfirm(a, j)
                     \/ \E j \in Jobs, s \in SUBSET Slots : ReportDcs(a, j, s)
              PROVE  WizardInv'
  BY DEF Wizard
<1>1. CASE ReportEntry(a) \/ CancelEntry(a)
  BY <1>1, EntrySteps DEF ReportEntry, CancelEntry
<1>2. CASE ReportStats(a)
  <2>1. PICK p \in Percents \cup {0} : p = 0
    OBVIOUS
  <2>. QED
    BY <1>2, <2>1, SoftenStep DEF ReportStats
<1>3. CASE CancelNo(a)
  BY <1>3, CancelNoStep
<1>4. ASSUME NEW s \in SUBSET Slots,
             ReportGriefers(a, s) \/ ReportQuitters(a, s) \/ CancelGriefers(a, s)
      PROVE  WizardInv'
  <2>1. CASE ReportGriefers(a, s)
    BY <2>1, GriefersSteps DEF ReportGriefers, showReportDcStep
  <2>2. CASE CancelGriefers(a, s)
    BY <2>2, GriefersSteps DEF CancelGriefers, showCancelDcStep
  <2>. QED
    BY <1>4, <2>1, <2>2, QuittersStep
<1>5. ASSUME NEW w \in Teams, ReportWinner(a, w)
      PROVE  WizardInv'
  BY <1>5, WinnerStep
<1>6. ASSUME NEW p \in Percents \cup {0}, ReportMitigation(a, p)
      PROVE  WizardInv'
  BY <1>6, SoftenStep DEF ReportMitigation
<1>7. ASSUME NEW j \in Jobs, Confirm(a, j) \/ CancelConfirm(a, j)
      PROVE  WizardInv'
  BY <1>7, ConfirmStep, CancelConfirmStep
<1>8. ASSUME NEW j \in Jobs, NEW s \in SUBSET Slots, ReportDcs(a, j, s)
      PROVE  WizardInv'
  BY <1>8, DcsStep
<1>. QED
  BY <1>1, <1>2, <1>3, <1>4, <1>5, <1>6, <1>7, <1>8

LEMMA MenuSteps == WizardInv /\ Menus => WizardInv'
<1>. SUFFICES ASSUME WizardInv, NEW a \in Staff, NEW kind \in Marks,
                     \/ MarksEntry(a, kind)
                     \/ \E j \in Jobs, s \in SUBSET Slots :
                           MarksSet(a, j, kind, s) \/ CommandMarks(a, j, kind, s)
              PROVE  WizardInv'
  BY DEF Menus
<1>1. CASE MarksEntry(a, kind)
  BY <1>1, EntrySteps DEF MarksEntry
<1>2. ASSUME NEW j \in Jobs, NEW s \in SUBSET Slots, MarksSet(a, j, kind, s)
      PROVE  WizardInv'
  BY <1>2, MarksSteps DEF MarksSet
<1>3. ASSUME NEW j \in Jobs, NEW s \in SUBSET Slots, CommandMarks(a, j, kind, s)
      PROVE  WizardInv'
  BY <1>3, MarksSteps DEF CommandMarks
<1>. QED
  BY <1>1, <1>2, <1>3

LEMMA CommandSteps == WizardInv /\ Commands => WizardInv'
<1>. SUFFICES ASSUME WizardInv, Commands
              PROVE  WizardInv'
  OBVIOUS
<1>1. CASE UploadReport
  BY <1>1, UploadStep
<1>2. ASSUME NEW a \in Staff, NEW j \in Jobs, NEW c \in Named, CommandCancel(a, j, c)
      PROVE  WizardInv'
  BY <1>2, CancelCommandStep, ReportWizardAssumption
<1>3. ASSUME NEW a \in Staff, NEW j \in Jobs, NEW c \in Named, NEW w \in Teams,
             NEW p \in Percents \cup {0},
             CommandComplete(a, j, [c EXCEPT !.winner = w, !.percent = p])
      PROVE  WizardInv'
  <2>1. c \in Claims
    BY ReportWizardAssumption
  <2>2. PICK d \in Claims : d = [c EXCEPT !.winner = w, !.percent = p]
    BY <2>1 DEF Claims
  <2>. QED
    BY <1>3, <2>2, CompleteCommandStep
<1>. QED
  BY <1>1, <1>2, <1>3 DEF Commands

LEMMA WorkSteps == WizardInv /\ Work => WizardInv'
BY WriteMarksStep, CompleteStep, CancelStep, GiveUpStep, RequestReadStep, RequestWriteStep,
   RequestPostStep, WritePercentStep DEF Work

LEMMA ApprovalSteps == WizardInv /\ Approvals => WizardInv'
BY RejectStep, ApproveSteps, PercentStep DEF Approvals

LEMMA PanelSteps == WizardInv /\ Panel => WizardInv'
<1>. SUFFICES ASSUME WizardInv, NEW a \in Staff,
                     \/ PanelReject(a)
                     \/ \E kind \in Marks : PanelEntry(a, kind)
                     \/ \E w \in Teams : PanelWinner(a, w)
                     \/ \E j \in Jobs : PanelApprove(a, j)
                     \/ \E j \in Jobs, kind \in Marks, s \in SUBSET Slots :
                           PanelSet(a, j, kind, s)
              PROVE  WizardInv'
  BY DEF Panel
<1>1. ASSUME NEW kind \in Marks, PanelEntry(a, kind)
      PROVE  WizardInv'
  BY <1>1, EntrySteps DEF PanelEntry
<1>2. ASSUME NEW j \in Jobs, NEW kind \in Marks, NEW s \in SUBSET Slots, PanelSet(a, j, kind, s)
      PROVE  WizardInv'
  BY <1>2, MarksSteps DEF PanelSet
<1>. QED
  BY <1>1, <1>2, PanelRejectStep, PanelWinnerStep, ApproveSteps

LEMMA NextWizard == WizardInv /\ [Next]_vars => WizardInv'
BY StutterWizard, WizardSteps, MenuSteps, CommandSteps, WorkSteps, ApprovalSteps, PanelSteps
   DEF Next

(* The inductive invariant holds of every behaviour.                       *)
THEOREM WizardInvariant == Spec => []WizardInv
<1>. QED
  BY InitWizard, NextWizard, PTL DEF Spec

(* MarksSound: every row, page, job and result is well typed, and nobody   *)
(* is marked both as having quit and as disconnected, whatever clicks and  *)
(* commands overlap; as a quitter and a griefer only by /match complete.   *)
THEOREM MarksAreSound == Spec => []MarksSound
<1>1. WizardInv => MarksSound
  BY DEF WizardInv, MarksOK, MarksSound, OneMark
<1>. QED
  BY <1>1, WizardInvariant, PTL

-----------------------------------------------------------------------------
(* How a match ends. Whatever does not end it leaves the record of its     *)
(* last end, what was asked before, and a match that was not completed.    *)
Kept ==
    /\ result' = result /\ posts \subseteq posts'
    /\ match'.status = "COMPLETED" => match.status = "COMPLETED"

Ends(j) == completeMatch(j) \/ cancelInProgressMatch(j)

LEMMA KeptOrEnds ==
    ASSUME WizardInv, [Next]_vars
    PROVE  Kept \/ \E j \in Jobs : Ends(j)
<1>0. match \in MatchStates
  BY Types DEF WizardInv
<1>1. CASE UNCHANGED vars
  BY <1>1 DEF vars, Kept
<1>2. CASE Wizard
  BY <1>2 DEF Wizard, ReportEntry, ReportStats, CancelEntry, CancelNo, ReportGriefers,
     ReportQuitters, CancelGriefers, ReportWinner, ReportMitigation, Confirm, CancelConfirm,
     ReportDcs, OnlyPages, Kept
<1>3. CASE Menus
  BY <1>3 DEF Menus, MarksEntry, MarksSet, CommandMarks, OnlyPages, Kept
<1>4. CASE Commands
  <2>1. CASE UploadReport
    <3>1. match' = [match EXCEPT !.report = TRUE]
      BY <2>1 DEF UploadReport
    <3>2. match'.status = match.status
      BY <1>0, <3>1 DEF MatchStates
    <3>. QED
      BY <2>1, <3>2 DEF UploadReport, Kept
  <2>2. ASSUME NEW a \in Staff, NEW j \in Jobs, NEW c, CommandCancel(a, j, c)
        PROVE  Kept
    BY <2>2 DEF CommandCancel, Kept
  <2>3. ASSUME NEW a \in Staff, NEW j \in Jobs, NEW c, CommandComplete(a, j, c)
        PROVE  Kept
    BY <2>3 DEF CommandComplete, Kept
  <2>. QED
    BY <1>4, <2>1, <2>2, <2>3 DEF Commands
<1>5. ASSUME NEW j \in Jobs, WriteMarks(j)
      PROVE  Kept
  <2>1. match.quit \cap match.dc = {} /\ job[j].op \in Marks
    BY <1>5 DEF WizardInv, MarksOK, WriteMarks
  <2>2. PICK kind \in Marks, s \in SUBSET Slots : kind = job[j].op /\ s = job[j].claim[kind]
    BY <2>1, JobOf DEF JobFits, Marks, Full
  <2>3. match' = Marked(match, kind, s)
    BY <1>5, <2>2 DEF WriteMarks
  <2>4. match'.status = match.status
    BY <1>0, <2>1, <2>3, MarkedType
  <2>. QED
    BY <1>5, <2>4 DEF WriteMarks, Kept
<1>6. ASSUME NEW j \in Jobs, GiveUp(j) \/ RequestRead(j) \/ RequestPost(j)
      PROVE  Kept
  BY <1>6 DEF GiveUp, RequestRead, RequestPost, Kept
<1>7. ASSUME NEW j \in Jobs, RequestWrite(j)
      PROVE  Kept
  <2>1. match' = [match EXCEPT !.quit = job[j].claim.quit,
                     !.grief = job[j].claim.grief \ job[j].claim.quit,
                     !.dc = job[j].claim.dc \ job[j].claim.quit,
                     !.status = "WAITING_FOR_MITIGATION_APPROVAL",
                     !.winner = job[j].claim.winner, !.percent = job[j].claim.percent]
    BY <1>7 DEF RequestWrite, RequestedMarks
  <2>2. match'.status = "WAITING_FOR_MITIGATION_APPROVAL"
    BY <1>0, <2>1 DEF MatchStates
  <2>. QED
    BY <1>7, <2>2 DEF RequestWrite, Kept
<1>8. ASSUME NEW j \in Jobs, WritePercent(j)
      PROVE  Kept
  <2>1. match' = [match EXCEPT !.percent = job[j].claim.percent]
    BY <1>8 DEF WritePercent, setPendingMitigationPercent
  <2>2. match'.status = match.status
    BY <1>0, <2>1 DEF MatchStates
  <2>. QED
    BY <1>8, <2>2 DEF WritePercent, Reposted, Kept
<1>9. CASE Work
  BY <1>5, <1>6, <1>7, <1>8, <1>9 DEF Work, Ends
<1>10. CASE Approvals
  <2>1. ASSUME NEW a \in Staff, RejectMitigation(a)
        PROVE  Kept
    <3>1. match' = [match EXCEPT !.status = "IN_PROGRESS", !.winner = None, !.percent = 0]
      BY <2>1 DEF RejectMitigation, rejectMitigationMatch
    <3>2. match'.status = "IN_PROGRESS"
      BY <1>0, <3>1 DEF MatchStates
    <3>. QED
      BY <2>1, <3>2 DEF RejectMitigation, Kept
  <2>. QED
    BY <1>10, <2>1 DEF Approvals, ApproveMitigation, SetPercent, Kept
<1>11. CASE Panel
  <2>1. ASSUME NEW a \in Staff, PanelReject(a)
        PROVE  Kept
    <3>1. match'.status = "CANCELLED"
      BY <1>0, <2>1 DEF PanelReject, rejectWaitingMatch, MatchStates
    <3>. QED
      BY <2>1, <3>1 DEF PanelReject, Kept
  <2>2. ASSUME NEW a \in Staff, NEW w \in Teams, PanelWinner(a, w)
        PROVE  Kept
    <3>1. match'.status = match.status
      BY <1>0, <2>2 DEF PanelWinner, setApprovalWinner, MatchStates
    <3>. QED
      BY <2>2, <3>1 DEF PanelWinner, Kept
  <2>. QED
    BY <1>11, <2>1, <2>2 DEF Panel, PanelEntry, PanelApprove, PanelSet, OnlyPages, Kept
<1>. QED
  BY <1>1, <1>2, <1>3, <1>4, <1>9, <1>10, <1>11 DEF Next

(* A page's claim or a request's, as the row records it.                   *)
LEMMA CompletedAsShown ==
    ASSUME WizardInv, NEW j \in Jobs, completeMatch(j)
    PROVE  EndsAsShown' /\ ApprovedAsAsked'
<1>. DEFINE c == job[j].claim
<1>1. JobFits(job[j]) /\ job[j].op = "complete" /\ c \in Claims /\ match.status \in Reportable
  BY JobOf DEF completeMatch
<1>2. match.quit \cap match.dc = {} /\ writes' = writes /\ posts' = posts
  BY DEF WizardInv, MarksOK, completeMatch
<1>3. ASSUME result'.via = "wizard"
      PROVE  EndsAsShown'
  <2>1. job[j].via = "wizard" /\ result'.claim = c
    BY <1>3, CompleteResult
  <2>2. /\ result'.wrote.winner = c.winner /\ result'.wrote.percent = c.percent
        /\ result'.wrote.seen = writes /\ result'.wrote.quit = c.quit
        /\ result'.wrote.grief = c.grief /\ result'.wrote.dc = match.dc \ c.quit
        /\ c.quit \cap c.grief = {}
    BY <2>1, CompleteResult, CompletedRow DEF Apart
  <2>3. c.seen = writes => c.dc = match.dc
    BY <1>1, <1>2, <2>1 DEF JobFits, Current
  <2>. HIDE DEF c
  <2>4. result'.claim.seen = result'.wrote.seen =>
           result'.wrote.dc = result'.claim.dc \ result'.wrote.quit
    BY <2>1, <2>2, <2>3
  <2>. QED
    BY <2>1, <2>2, <2>4 DEF EndsAsShown
<1>4. result'.wrote.percent > 0 => result'.by \in Mods
  BY <1>1, CompleteResult DEF JobFits
<1>5. ASSUME result'.via = "approve"
      PROVE  \E d \in posts' :
                \/ d.seen < result'.wrote.seen
                \/ /\ d.winner = result'.wrote.winner /\ d.percent = result'.wrote.percent
                   /\ d.quit = result'.wrote.quit
                   /\ d.grief \ d.quit = result'.wrote.grief
                   /\ d.dc \ d.quit = result'.wrote.dc
  <2>1. job[j].via = "approve"
    BY <1>5, CompleteResult
  <2>2. /\ result'.wrote.winner = c.winner /\ result'.wrote.percent = c.percent
        /\ result'.wrote.seen = writes /\ result'.wrote.quit = c.quit
        /\ result'.wrote.grief = c.grief /\ result'.wrote.dc = c.dc \ c.quit
    BY <2>1, CompleteResult, CompletedRow
  <2>3. Asked(c)
    BY <1>1, <2>1 DEF JobFits
  <2>. HIDE DEF c
  <2>4. PICK d \in posts : d.seen < writes \/ Agrees(d, c)
    BY <2>3 DEF Asked
  <2>. QED
    BY <1>2, <2>2, <2>4 DEF Agrees
<1>6. ApprovedAsAsked'
  BY <1>4, <1>5 DEF ApprovedAsAsked
<1>. QED
  BY <1>3, <1>6 DEF EndsAsShown

LEMMA CancelledAsShown ==
    ASSUME WizardInv, NEW j \in Jobs, cancelInProgressMatch(j)
    PROVE  EndsAsShown' /\ ApprovedAsAsked'
<1>. DEFINE c == job[j].claim
<1>1. JobFits(job[j]) /\ job[j].op = "cancel" /\ c \in Claims /\ match.status \in Reportable
  BY JobOf DEF cancelInProgressMatch, InProgress, Reportable
<1>2. match.quit \cap match.dc = {} /\ match'.status # "COMPLETED"
  BY CancelledRow DEF WizardInv, MarksOK
<1>3. ASSUME result'.via = "wizard"
      PROVE  EndsAsShown'
  <2>1. job[j].via = "wizard" /\ result'.claim = c
    BY <1>3, CancelResult
  <2>2. c.winner = None /\ c.percent = 0
    BY <2>1, CancelledRow DEF Cancels
  <2>3. /\ result'.wrote.winner = c.winner /\ result'.wrote.percent = c.percent
        /\ result'.wrote.seen = writes /\ result'.wrote.grief = c.grief
        /\ result'.wrote.dc = match.dc /\ result'.wrote.quit \cap result'.wrote.dc = {}
    BY <2>1, <2>2, CancelResult, CancelledRow
  <2>4. c.seen = writes => c.dc = match.dc
    BY <1>1, <1>2, <2>1 DEF JobFits, Current
  <2>. HIDE DEF c
  <2>5. result'.claim.seen = result'.wrote.seen =>
           result'.wrote.dc = result'.claim.dc \ result'.wrote.quit
    BY <2>1, <2>3, <2>4
  <2>. QED
    BY <1>2, <2>1, <2>3, <2>5 DEF EndsAsShown
<1>4. ~(result'.wrote.percent > 0) /\ result'.via # "approve"
  BY CancelResult, CancelledRow
<1>5. ApprovedAsAsked'
  BY <1>4 DEF ApprovedAsAsked
<1>. QED
  BY <1>3, <1>5 DEF EndsAsShown

LEMMA KeptAsShown ==
    ASSUME Kept, EndsAsShown, ApprovedAsAsked
    PROVE  EndsAsShown' /\ ApprovedAsAsked'
<1>1. EndsAsShown'
  BY DEF Kept, EndsAsShown
<1>2. ApprovedAsAsked'
  BY DEF Kept, ApprovedAsAsked
<1>. QED
  BY <1>1, <1>2

LEMMA NextAsShown ==
    WizardInv /\ EndsAsShown /\ ApprovedAsAsked /\ [Next]_vars => EndsAsShown' /\ ApprovedAsAsked'
BY KeptOrEnds, KeptAsShown, CompletedAsShown, CancelledAsShown DEF Ends

LEMMA BothAsShown == Spec => [](EndsAsShown /\ ApprovedAsAsked)
<1>1. Init => EndsAsShown /\ ApprovedAsAsked
  BY DEF Init, EndsAsShown, ApprovedAsAsked
<1>. QED
  BY <1>1, NextAsShown, WizardInvariant, PTL DEF Spec

(* EndsAsShown: a wizard ends the match as its last page said, whatever    *)
(* other pages, commands and approvals do meanwhile; only the disconnects  *)
(* may differ, and only if marks were written since that page was drawn.   *)
THEOREM WizardEndsAsShown == Spec => []EndsAsShown
BY BothAsShown, PTL

(* ApprovedAsAsked: ratings are softened by moderators alone, and what one *)
(* approves is what somebody asked for, to the last mark, unless marks     *)
(* were written since, however requests, rejections and approvals overlap. *)
THEOREM ApprovalsAreAsked == Spec => []ApprovedAsAsked
BY BothAsShown, PTL
=============================================================================

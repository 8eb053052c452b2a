-------------------------- MODULE LobbySeatsProofs --------------------------
(* Theorems about lobbies.  The seats of one (LobbySeats), for any players,  *)
(* slots, users, overlapping edits, lists read from outside and edits by     *)
(* hand; and, at the end, how hosts are asked to open one (HostPrompt), for  *)
(* any games, channels, messages, lobbies and slots, and any bounds.         *)
EXTENDS LobbySeats, HostPrompt, FiniteSetTheorems, TLAPS

Pages == [at : Menus, options : SUBSET (Slots \cup Sides \cup {0}), pick : Slots \cup Sides \cup {0}]
Tasks == [at : Steps, next : Rosters, kind : Kinds, seen : {None} \cup 0 .. MaxMarks,
          locks : [Players -> Modes \cup {None}], prev : Rows, asof : 0 .. MaxMarks,
          view : Seatings, mode : Statuses, fresh : BOOLEAN]

-----------------------------------------------------------------------------
(* The invariant.                                                            *)

(* A row has at most one lock, and is empty when nobody sits in it.          *)
RowsFit(r) ==
    \A p \in Players : ~(r[p].locked /\ r[p].sideLocked) /\ (~In(r, p) => r[p] = NoRow)

(* The menus whose choices are stored as slots offer only slots.             *)
PageFits(g) ==
    /\ g.at = "destination" => g.options \subseteq Slots \cup {0}
    /\ g.at = "claim" => g.options \subseteq Slots

(* The seating leaves those locked to a slot in it, those to a side on it.   *)
RespectsLocks(seat, r) ==
    \A p \in Players : In(r, p) =>
        /\ r[p].locked => seat[p] = r[p].slot
        /\ r[p].sideLocked => Side[seat[p]] = Side[r[p].slot]

(* What a job holds while nobody has written since it read: a rewrite whose  *)
(* roster was worked out from what is stored, the rows it replaces, a        *)
(* startable roster, and the seats and status it will draw.                  *)
Trusted(k, old) == k.at = "rewrite" \/ (k.at = "commit" /\ "roster" \notin old)
Current(k, st, r, mark, old) ==
    /\ k.at = "commit" => k.prev = r /\ st = "PENDING"
    /\ Trusted(k, old) /\ k.kind = "balance" => RespectsLocks(k.next.seat, r)
    /\ Trusted(k, old) /\ k.kind = "import" => mark = 0 \/ (k.seen # None /\ k.seen >= mark)
    /\ k.at = "start" => canStartLobby(matchToLobbyPlayers(r))
    /\ k.at = "import" => k.asof = mark
    /\ k.at \in {"import", "attach"} => st = "PENDING"
    /\ k.at \in {"import", "attach", "sync"} => k.view = matchToLobbyPlayers(r).seat
    /\ k.at = "sync" => k.mode = st \/ "inside" \in old \/ "lock" \in old

JobFits(k, st, r, mark, old) ==
    /\ k.at = "commit" => assertValidSlots(k.next)
    /\ k.at = "import" => k.kind = "import" /\ k.mode = "PENDING"
    /\ k.at = "touch" => k.kind = "hand"
    /\ k.fresh => Current(k, st, r, mark, old)

Types ==
    /\ status \in Statuses /\ row \in Rows /\ RowsFit(row) /\ linked \in BOOLEAN
    /\ authority \in Nat /\ message \in Shows \cup {None}
    /\ page \in [Users -> Pages] /\ \A u \in Users : PageFits(page[u])
    /\ job \in [Jobs -> Tasks]
    /\ stale \subseteq {"roster", "inside", "lock", "message", "failed"} /\ plan \in Plans

(* Every edit by hand under way has its mark to make.                        *)
MarksLeft == authority + Cardinality(Marking) <= MaxMarks

Unopened == status = "none" => row = [p \in Players |-> NoRow] /\ \A j \in Jobs : job[j] = Idle

JobsFit == \A j \in Jobs : JobFits(job[j], status, row, authority, stale)

(* What is not shown yet will be: by the job that attaches the message, or   *)
(* one that is about to draw it.                                             *)
Drawing(k, st, r) ==
    k.at = "sync" /\ k.fresh /\ k.view = matchToLobbyPlayers(r).seat /\ k.mode = st
Unexcused(old) == old \cap {"inside", "lock", "message", "failed"} = {}
Shown ==
    status # "none" /\ Unexcused(stale) =>
        IF message = None THEN \E j \in Jobs : job[j].at = "attach"
        ELSE \/ message = buildMatchLobbyEmbed(status, Stored.seat)
             \/ \E j \in Jobs : Drawing(job[j], status, row)

SeatsInv ==
    Types /\ MarksLeft /\ Unopened /\ JobsFit /\ SeatsApart /\ StartedWhole /\ Shown

-----------------------------------------------------------------------------
(* What the edits lead to is a roster.                                       *)

LEMMA Limits == MaxMarks \in Nat /\ MaxMarks >= 1 /\ 0 \in 0 .. MaxMarks
BY LobbySeatsAssumption

(* The stored rows read as a roster. *)
LEMMA RowsRead ==
    ASSUME NEW r \in Rows
    PROVE  matchToLobbyPlayers(r) \in Rosters
BY DEF Rows, Rosters, Seatings, matchToLobbyPlayers

(* Adding a player in an empty slot.                                         *)
LEMMA AddTyped ==
    ASSUME NEW r \in Rosters, NEW p \in Players, NEW s \in Slots
    PROVE  addPlayer(r, p, s) \subseteq Rosters
BY DEF addPlayer, When, Refused, Rosters, Seatings

(* Emptying a seat. *)
LEMMA RemoveTyped ==
    ASSUME NEW r \in Rosters, NEW s
    PROVE  removePlayer(r, s) \subseteq Rosters
BY DEF removePlayer, When, Refused, Rosters, Seatings

(* Exchanging what is in two seats. *)
LEMMA ReseatedTyped ==
    ASSUME NEW r \in Rosters, NEW from \in Slots \cup {None}, NEW to \in Slots \cup {None}
    PROVE  Reseated(r, from, to) \in Rosters
BY DEF Reseated, At, Rosters, Seatings

(* Only a seat has somebody in it. *)
LEMMA AtTyped ==
    ASSUME NEW r \in Rosters, NEW s, At(r, s) # {}
    PROVE  s \in Slots \cup {None}
BY DEF At, Rosters, Seatings

LEMMA SwapTyped ==
    ASSUME NEW r \in Rosters, NEW a, NEW b
    PROVE  swapPlayers(r, a, b) \subseteq Rosters
BY ReseatedTyped, AtTyped DEF swapPlayers, When, Refused

LEMMA MoveTyped ==
    ASSUME NEW r \in Rosters, NEW from, NEW to \in Slots
    PROVE  movePlayer(r, from, to) \subseteq Rosters
BY ReseatedTyped, AtTyped DEF movePlayer, When, Refused

LEMMA RemapTyped ==
    ASSUME NEW r \in Rosters, NEW a \in Slots, NEW b \in Slots, NEW c \in Slots, NEW d \in Slots
    PROVE  applyRemapPairs(r, a, b, c, d) \subseteq Rosters
BY MoveTyped DEF applyRemapPairs

LEMMA RenameTyped ==
    ASSUME NEW r \in Rosters, NEW s, NEW q \in Players
    PROVE  editPlayerNick(r, s, q) \subseteq Rosters
<1>1. CASE At(r, s) = {}
  <2>1. Cardinality(At(r, s)) = 0
    BY <1>1, FS_EmptySet
  <2> QED
    BY <2>1 DEF editPlayerNick, When, Refused
<1>2. CASE At(r, s) # {}
  <2>1. s \in Slots \cup {None}
    BY <1>2, AtTyped
  <2> QED
    BY <2>1 DEF editPlayerNick, When, Refused, Rosters, Seatings
<1> QED
  BY <1>1, <1>2

LEMMA ClaimTyped ==
    ASSUME NEW r \in Rosters, NEW p \in Players, NEW s \in Slots
    PROVE  rosterAfterClaim(r, p, s) \subseteq Rosters
BY AddTyped DEF rosterAfterClaim

LEMMA LeaveTyped ==
    ASSUME NEW r \in Rosters, NEW p \in Players
    PROVE  rosterAfterLeave(r, p) \subseteq Rosters
BY RemoveTyped DEF rosterAfterLeave

LEMMA EmptySeatTyped ==
    ASSUME NEW r, NEW t
    PROVE  nextEmptySlotOnTeam(r, t) \subseteq Slots
BY DEF nextEmptySlotOnTeam

(* What is read from outside seats nobody twice. *)
LEMMA ReadableFit ==
    ASSUME NEW r \in Readable
    PROVE  r \in Rosters /\ assertValidSlots(r)
BY LobbySeatsAssumption DEF Readable, Rosters, assertValidSlots

LEMMA EmptyFit == Empty \in Rosters /\ assertValidSlots(Empty)
BY DEF Empty, Rosters, Seatings, assertValidSlots

(* Balancing leaves the locked where they are (lobby-balance.ts).            *)
LEMMA BalancedFit ==
    ASSUME Types, NEW r \in findBalancedRoster
    PROVE  r \in Rosters /\ RespectsLocks(r.seat, row)
<1>1. PICK seat \in Seatings : r = [seat |-> seat, freed |-> {}] /\ placeMovers(seat)
  BY DEF findBalancedRoster
<1>2. r.seat = seat
  BY <1>1
<1>3. r \in Rosters
  BY <1>1 DEF Rosters
<1>4. RespectsLocks(seat, row)
  BY <1>1 DEF placeMovers, RespectsLocks
<1> QED
  BY <1>2, <1>3, <1>4

(* The locks that are set name players of the match. *)
LEMMA LocksTyped ==
    ASSUME NEW S, NEW mode \in Modes
    PROVE  /\ LocksIn(S, mode) \subseteq [Players -> Modes \cup {None}]
           /\ lockChangesForSelection(S, mode) \subseteq [Players -> Modes \cup {None}]
BY DEF LocksIn, lockChangesForSelection, lockModeOf, Modes

-----------------------------------------------------------------------------
(* Jobs. *)

(* A job that is done holds nothing. *)
LEMMA IdleFits ==
    ASSUME NEW st, NEW r, NEW mark, NEW old
    PROVE  JobFits(Idle, st, r, mark, old)
BY DEF JobFits, Current, Trusted, Idle

LEMMA IdleTyped == Idle \in Tasks
BY LobbySeatsAssumption
   DEF Idle, Tasks, Steps, Empty, Rosters, Seatings, Kinds, NoLocks, NoRow, Rows, Statuses

(* What has been noted of other jobs takes nothing from one.                 *)
LEMMA NotesKeep ==
    ASSUME NEW k, NEW st, NEW r, NEW mark, NEW old, NEW now, old \subseteq now,
           JobFits(k, st, r, mark, old)
    PROVE  JobFits(k, st, r, mark, now)
BY DEF JobFits, Current, Trusted

(* A job another has written after holds no more than its own roster.        *)
LEMMA OldFits ==
    ASSUME NEW k \in Tasks, NEW st, NEW r, NEW mark, NEW old, JobFits(k, st, r, mark, old),
           NEW st2, NEW r2, NEW mark2, NEW old2
    PROVE  /\ [k EXCEPT !.fresh = FALSE] \in Tasks
           /\ JobFits([k EXCEPT !.fresh = FALSE], st2, r2, mark2, old2)
<1>1. [k EXCEPT !.fresh = FALSE] \in Tasks
  BY DEF Tasks
<1>2. PICK o \in Tasks : o = [k EXCEPT !.fresh = FALSE]
  BY <1>1
<1>3. o.at = k.at /\ o.next = k.next /\ o.kind = k.kind /\ o.mode = k.mode /\ ~o.fresh
  BY <1>2 DEF Tasks
<1>4. JobFits(o, st2, r2, mark2, old2)
  BY <1>3 DEF JobFits
<1> QED
  BY <1>1, <1>2, <1>4

LEMMA MarkingFinite == IsFiniteSet(Marking) /\ Cardinality(Marking) \in Nat /\ Marking \subseteq Jobs
BY LobbySeatsAssumption, FS_Subset, FS_CardinalityType DEF Marking

LEMMA MarkingFinitePrime ==
    IsFiniteSet(Marking') /\ Cardinality(Marking') \in Nat /\ Marking' \subseteq Jobs
BY LobbySeatsAssumption, FS_Subset, FS_CardinalityType DEF Marking

(* No more marks are left to make than before. *)
LEMMA FewerMarks ==
    ASSUME Types, MarksLeft, Marking' \subseteq Marking, authority' = authority
    PROVE  MarksLeft'
<1>1. Cardinality(Marking') <= Cardinality(Marking)
  BY MarkingFinite, FS_Subset
<1> QED
  BY <1>1, MarkingFinite, MarkingFinitePrime, LobbySeatsAssumption DEF MarksLeft, Types

(* One more, when there is room for it. *)
LEMMA OneMoreMark ==
    ASSUME Types, MarksLeft, NEW j, Marking' \subseteq Marking \cup {j}, Room, authority' = authority
    PROVE  MarksLeft'
<1>1. IsFiniteSet(Marking \cup {j}) /\ Cardinality(Marking \cup {j}) <= Cardinality(Marking) + 1
  <2>1. CASE j \in Marking
    <3>1. Marking \cup {j} = Marking
      BY <2>1
    <3>2. Cardinality(Marking) <= Cardinality(Marking) + 1
      BY MarkingFinite
    <3> QED
      BY <3>1, <3>2, MarkingFinite
  <2>2. CASE j \notin Marking
    BY <2>2, MarkingFinite, FS_AddElement
  <2> QED
    BY <2>1, <2>2
<1>2. Cardinality(Marking') <= Cardinality(Marking \cup {j})
  BY <1>1, FS_Subset
<1>3. Cardinality(Marking \cup {j}) \in Nat
  BY <1>1, FS_CardinalityType
<1>4. authority + Cardinality(Marking) < MaxMarks
  BY LobbySeatsAssumption, MarkingFinite DEF Room, Types
<1> QED
  BY <1>1, <1>2, <1>3, <1>4, MarkingFinite, MarkingFinitePrime, LobbySeatsAssumption
     DEF MarksLeft, Types

(* A mark made is one less to make. *)
LEMMA MarkMade ==
    ASSUME Types, MarksLeft, NEW j \in Marking, Marking' \subseteq Marking \ {j},
           authority' = authority + 1
    PROVE  MarksLeft'
<1>1. IsFiniteSet(Marking \ {j}) /\ Cardinality(Marking \ {j}) = Cardinality(Marking) - 1
  BY MarkingFinite, FS_RemoveElement
<1>2. Cardinality(Marking') <= Cardinality(Marking \ {j})
  BY <1>1, FS_Subset
<1> QED
  BY <1>1, <1>2, MarkingFinite, MarkingFinitePrime, LobbySeatsAssumption DEF MarksLeft, Types

LEMMA NoMarks ==
    ASSUME Marking' = {}, authority' \in Nat, authority' <= MaxMarks
    PROVE  MarksLeft'
<1>1. Cardinality(Marking') = 0
  BY FS_EmptySet
<1>2. authority' + Cardinality(Marking') = authority'
  BY <1>1
<1> QED
  BY <1>2 DEF MarksLeft

(* Marks left are marks that can be counted. *)
LEMMA MarksBound ==
    ASSUME Types, MarksLeft
    PROVE  authority \in 0 .. MaxMarks
BY MarkingFinite, LobbySeatsAssumption DEF MarksLeft, Types

-----------------------------------------------------------------------------
(* A step of one job that writes nothing of the match: it begins, reads      *)
(* again, or ends. The notes may grow.                                       *)
NotMarking(k) == ~(k.at \in {"rewrite", "commit", "touch"} /\ k.kind \in ByHand)

LEMMA Turn ==
    ASSUME SeatsInv, NEW j \in Jobs, NEW k \in Tasks, job' = [job EXCEPT ![j] = k],
           status # "none", linked' \in BOOLEAN, stale \subseteq stale',
           UNCHANGED <<status, row, authority, message, plan>>,
           stale' \subseteq {"roster", "inside", "lock", "message", "failed"},
           page' \in [Users -> Pages], \A u \in Users : PageFits(page'[u]),
           JobFits(k, status, row, authority, stale'),
           NotMarking(k) \/ j \in Marking \/ Room,
           job[j].at \notin {"attach", "sync"}
    PROVE  SeatsInv'
<1>1. Types'
  BY DEF SeatsInv, Types
<1>2. job'[j] = k /\ \A i \in Jobs \ {j} : job'[i] = job[i]
  BY DEF SeatsInv, Types
<1>3. MarksLeft'
  <2>1. CASE NotMarking(k) \/ j \in Marking
    <3>1. Marking' \subseteq Marking
      BY <1>2, <2>1 DEF Marking, NotMarking
    <3> QED
      BY <3>1, FewerMarks DEF SeatsInv
  <2>2. CASE Room
    <3>1. Marking' \subseteq Marking \cup {j}
      BY <1>2 DEF Marking
    <3> QED
      BY <2>2, <3>1, OneMoreMark DEF SeatsInv
  <2> QED
    BY <2>1, <2>2
<1>4. Unopened'
  BY DEF Unopened
<1>5. JobsFit'
  <2>1. \A i \in Jobs : JobFits(job'[i], status, row, authority, stale')
    BY <1>2, NotesKeep DEF SeatsInv, JobsFit
  <2> QED
    BY <2>1 DEF JobsFit
<1>6. SeatsApart'
  BY DEF SeatsInv, SeatsApart, Stored
<1>7. StartedWhole'
  BY DEF SeatsInv, StartedWhole, Stored
<1>8. Shown'
  <2>1. \A i \in Jobs : job[i].at = "attach" => job'[i].at = "attach"
    BY <1>2
  <2>2. \A i \in Jobs : Drawing(job[i], status, row) => Drawing(job'[i], status, row)
    BY <1>2 DEF Drawing
  <2> QED
    BY <2>1, <2>2 DEF SeatsInv, Shown, Unexcused, Stored
<1> QED
  BY <1>1, <1>3, <1>4, <1>5, <1>6, <1>7, <1>8 DEF SeatsInv

(* A job other than those under way is opened in an open lobby.              *)
LEMMA BeginKeeps ==
    ASSUME SeatsInv, NEW j \in Jobs, NEW k \in Tasks, Begin(j, k), status # "none", OnlyJobs,
           page' \in [Users -> Pages], \A u \in Users : PageFits(page'[u]),
           JobFits(k, status, row, authority, stale),
           NotMarking(k) \/ Room
    PROVE  SeatsInv'
<1>1. job[j].at = "idle"
  BY DEF Begin, Idle
<1> QED
  BY <1>1, Turn DEF Begin, OnlyJobs, SeatsInv, Types

(* Only a menu changes. *)
LEMMA PageKeeps ==
    ASSUME SeatsInv, UNCHANGED job, OnlyJobs,
           page' \in [Users -> Pages], \A u \in Users : PageFits(page'[u])
    PROVE  SeatsInv'
<1>1. Types' /\ Unopened' /\ JobsFit' /\ SeatsApart' /\ StartedWhole' /\ Shown'
  BY DEF SeatsInv, Types, Unopened, JobsFit, SeatsApart, StartedWhole, Shown, OnlyJobs, Stored
<1>2. MarksLeft'
  BY DEF SeatsInv, MarksLeft, Marking, OnlyJobs
<1> QED
  BY <1>1, <1>2 DEF SeatsInv

(* A write: every other job's reading is old.                                *)
LEMMA WrittenJobs ==
    ASSUME Types, JobsFit, NEW j \in Jobs, NEW k \in Tasks, Written(j, k),
           JobFits(k, status', row', authority', stale')
    PROVE  /\ job' \in [Jobs -> Tasks]
           /\ JobsFit'
           /\ job'[j] = k
           /\ \A i \in Jobs \ {j} : job'[i] = Idle \/ job'[i] = [job[i] EXCEPT !.fresh = FALSE]
           /\ \A i \in Jobs \ {j} : job'[i].at = job[i].at /\ job'[i].kind = job[i].kind
<1>1. \A i \in Jobs : job[i] \in Tasks /\ JobFits(job[i], status, row, authority, stale)
  BY DEF Types, JobsFit
<1>2. job'[j] = k
  BY DEF Written
<1>3. \A i \in Jobs \ {j} :
         job'[i] = IF job[i] = Idle THEN Idle ELSE [job[i] EXCEPT !.fresh = FALSE]
  BY DEF Written
<1>4. \A i \in Jobs \ {j} : job'[i].at = job[i].at /\ job'[i].kind = job[i].kind
  BY ZenonT(40), <1>1, <1>3 DEF Tasks
<1>5. \A i \in Jobs : job'[i] \in Tasks
  BY <1>1, <1>2, <1>3, IdleTyped, OldFits
<1>6. job' \in [Jobs -> Tasks]
  BY <1>5 DEF Written
<1>7. ASSUME NEW i \in Jobs
      PROVE  JobFits(job'[i], status', row', authority', stale')
  <2>1. CASE i = j
    BY <2>1, <1>2
  <2>2. CASE i # j /\ job[i] = Idle
    BY <2>2, <1>3, IdleFits
  <2>3. CASE i # j /\ job[i] # Idle
    <3>1. job'[i] = [job[i] EXCEPT !.fresh = FALSE]
      BY <2>3, <1>3
    <3>2. JobFits([job[i] EXCEPT !.fresh = FALSE], status', row', authority', stale')
      BY <1>1, OldFits
    <3> QED
      BY <3>1, <3>2
  <2> QED
    BY <2>1, <2>2, <2>3
<1> QED
  BY <1>2, <1>3, <1>4, <1>6, <1>7 DEF JobsFit

LEMMA Write ==
    ASSUME SeatsInv, NEW j \in Jobs, NEW k \in Tasks, Written(j, k),
           status # "none", status' \in Statuses \ {"none"}, row' \in Rows, RowsFit(row'),
           UNCHANGED <<linked, message, page, plan>>,
           stale \subseteq stale',
           stale' \subseteq {"roster", "inside", "lock", "message", "failed"},
           authority' = authority \/ (j \in Marking /\ authority' = authority + 1),
           NotMarking(k), job[j].at # "attach",
           k.at = "sync" /\ k.fresh /\ k.view = matchToLobbyPlayers(row').seat,
           k.mode = status' \/ "inside" \in stale' \/ "lock" \in stale'
    PROVE  Types' /\ MarksLeft' /\ Unopened' /\ JobsFit' /\ Shown'
<1>1. JobFits(k, status', row', authority', stale')
  BY DEF JobFits, Current, Trusted
<1>2. Types /\ JobsFit /\ MarksLeft
  BY DEF SeatsInv
<1>3. /\ job' \in [Jobs -> Tasks] /\ JobsFit' /\ job'[j] = k
      /\ \A i \in Jobs \ {j} : job'[i].at = job[i].at /\ job'[i].kind = job[i].kind
  BY <1>1, <1>2, WrittenJobs
<1>4. Types'
  BY <1>2, <1>3 DEF Types
<1>5. MarksLeft'
  <2>1. Marking' \subseteq Marking \ {j}
    BY <1>3 DEF Marking, NotMarking
  <2>2. CASE authority' = authority
    BY <1>2, <2>1, <2>2, FewerMarks
  <2>3. CASE j \in Marking /\ authority' = authority + 1
    BY <1>2, <2>1, <2>3, MarkMade
  <2> QED
    BY <2>2, <2>3
<1>6. Unopened'
  BY DEF Unopened
<1>7. Shown'
  <2>1. SUFFICES ASSUME Unexcused(stale')
                 PROVE  IF message = None THEN \E i \in Jobs : job'[i].at = "attach"
                        ELSE \E i \in Jobs : Drawing(job'[i], status', row')
    BY DEF Shown
  <2>2. CASE message = None
    <3>1. PICK i \in Jobs : job[i].at = "attach"
      BY <2>1, <2>2 DEF SeatsInv, Shown, Unexcused
    <3> QED
      BY <2>2, <3>1, <1>3
  <2>3. Drawing(job'[j], status', row')
    BY <2>1, <1>3 DEF Drawing, Unexcused
  <2> QED
    BY <2>2, <2>3
<1> QED
  BY <1>3, <1>4, <1>5, <1>6, <1>7

-----------------------------------------------------------------------------
(* The writes.                                                               *)

(* The job that draws what a write has left. *)
LEMMA SyncTask ==
    ASSUME NEW v \in Seatings
    PROVE  \E k \in Tasks :
              /\ k = [Idle EXCEPT !.at = "sync", !.view = v]
              /\ k.at = "sync" /\ k.fresh /\ k.view = v /\ k.mode = "PENDING" /\ NotMarking(k)
<1>1. [Idle EXCEPT !.at = "sync", !.view = v] \in Tasks
  BY IdleTyped DEF Tasks, Steps
<1> QED
  BY <1>1 DEF NotMarking, Idle

LEMMA SyncStatusTask ==
    ASSUME NEW v \in Seatings, NEW st \in Statuses
    PROVE  \E k \in Tasks :
              /\ k = [Idle EXCEPT !.at = "sync", !.view = v, !.mode = st]
              /\ k.at = "sync" /\ k.fresh /\ k.view = v /\ k.mode = st /\ NotMarking(k)
<1>1. [Idle EXCEPT !.at = "sync", !.view = v, !.mode = st] \in Tasks
  BY IdleTyped DEF Tasks, Steps
<1> QED
  BY <1>1 DEF NotMarking, Idle

(* A match that is being edited exists. *)
LEMMA Edited ==
    ASSUME Unopened, NEW j \in Jobs, job[j].at # "idle"
    PROVE  status # "none"
BY DEF Unopened, Idle

(* Rows never hold two locks, nor a lock on nobody. *)
LEMMA ReplacedTyped ==
    ASSUME Types, NEW j \in Jobs
    PROVE  Replaced(j) \in Rows /\ RowsFit(Replaced(j))
<1>1. job[j].next.seat \in Seatings /\ job[j].prev \in Rows /\ row \in Rows /\ RowsFit(row)
  BY DEF Types, Tasks, Rosters
<1>2. \A p \in Players :
         /\ NextRow(j, p) \in [slot : Slots \cup {None}, locked : BOOLEAN, sideLocked : BOOLEAN]
         /\ NextRow(j, p).slot = job[j].next.seat[p]
         /\ ~(NextRow(j, p).locked /\ NextRow(j, p).sideLocked)
  BY <1>1 DEF NextRow, Seatings, reconcileMatchPlayerLocked, reconcileMatchPlayerSideLocked, Rows
<1>3. NoRow \in [slot : Slots \cup {None}, locked : BOOLEAN, sideLocked : BOOLEAN]
  BY DEF NoRow
<1>4. \A p \in Players :
         /\ Replaced(j)[p] = NoRow \/ Replaced(j)[p] = row[p]
            \/ (Replaced(j)[p] = NextRow(j, p) /\ job[j].next.seat[p] # None)
  BY DEF Replaced, Created, Updated
<1>5. Replaced(j) = [p \in Players |-> Replaced(j)[p]]
  BY DEF Replaced
<1>6. Replaced(j) \in Rows
  BY <1>1, <1>2, <1>3, <1>4, <1>5 DEF Rows
<1>7. ASSUME NEW p \in Players
      PROVE  /\ ~(Replaced(j)[p].locked /\ Replaced(j)[p].sideLocked)
             /\ ~In(Replaced(j), p) => Replaced(j)[p] = NoRow
  <2>1. CASE Replaced(j)[p] = NoRow
    BY <2>1 DEF NoRow
  <2>2. CASE Replaced(j)[p] = row[p]
    BY <1>1, <2>2 DEF RowsFit, In
  <2>3. CASE Replaced(j)[p] = NextRow(j, p) /\ job[j].next.seat[p] # None
    BY <1>2, <2>3 DEF In
  <2> QED
    BY <1>4, <2>1, <2>2, <2>3
<1> QED
  BY <1>6, <1>7 DEF RowsFit

(* When nobody has written since the rows were read, what is stored is the   *)
(* edit's own roster, with the locks it keeps.                               *)
LEMMA ReplacedWhole ==
    ASSUME Types, NEW j \in Jobs, job[j].prev = row
    PROVE  \A p \in Players :
              Replaced(j)[p] = IF job[j].next.seat[p] = None THEN NoRow ELSE NextRow(j, p)
<1> SUFFICES ASSUME NEW p \in Players
             PROVE  Replaced(j)[p] = IF job[j].next.seat[p] = None THEN NoRow ELSE NextRow(j, p)
  OBVIOUS
<1>1. CASE job[j].next.seat[p] = None
  BY <1>1 DEF Replaced, Deleted, Created, Updated, Types, RowsFit
<1>2. CASE job[j].next.seat[p] # None
  BY <1>2 DEF Replaced, Deleted, Created, Updated
<1> QED
  BY <1>1, <1>2

LEMMA ReplacedSeats ==
    ASSUME Types, NEW j \in Jobs, job[j].prev = row
    PROVE  matchToLobbyPlayers(Replaced(j)).seat = job[j].next.seat
<1>1. job[j].next.seat \in Seatings
  BY DEF Types, Tasks, Rosters
<1>2. \A p \in Players : Replaced(j)[p].slot = job[j].next.seat[p]
  <2> SUFFICES ASSUME NEW p \in Players
               PROVE  Replaced(j)[p].slot = job[j].next.seat[p]
    OBVIOUS
  <2>1. Replaced(j)[p] = IF job[j].next.seat[p] = None THEN NoRow ELSE NextRow(j, p)
    BY ReplacedWhole
  <2>2. NoRow.slot = None /\ NextRow(j, p).slot = job[j].next.seat[p]
    BY DEF NoRow, NextRow
  <2> QED
    BY <2>1, <2>2
<1>3. [p \in Players |-> Replaced(j)[p].slot] = job[j].next.seat
  BY <1>1, <1>2 DEF Seatings
<1> QED
  BY <1>3 DEF matchToLobbyPlayers

(* A rewrite whose rows are as it read them stores its own roster.           *)
LEMMA ApplyKeeps ==
    ASSUME SeatsInv, NEW j \in Jobs, applyRosterAndSync(j)
    PROVE  SeatsInv'
<1>1. Types /\ Unopened /\ MarksLeft /\ JobFits(job[j], status, row, authority, stale)
  BY DEF SeatsInv, JobsFit
<1>2. status # "none" /\ job[j].at = "commit" /\ status \in Statuses
  BY <1>1, Edited DEF applyRosterAndSync, Types
<1>3. row' = Replaced(j) /\ row' \in Rows /\ RowsFit(row')
  BY <1>1, ReplacedTyped DEF applyRosterAndSync
<1>4. matchToLobbyPlayers(row').seat \in Seatings
  BY <1>3, RowsRead DEF Rosters
<1>5. PICK k \in Tasks :
         /\ Written(j, k) /\ k.at = "sync" /\ k.fresh /\ k.mode = "PENDING" /\ NotMarking(k)
         /\ k.view = matchToLobbyPlayers(row').seat
  <2>1. PICK k \in Tasks :
         /\ k = [Idle EXCEPT !.at = "sync", !.view = matchToLobbyPlayers(row').seat]
         /\ k.at = "sync" /\ k.fresh /\ k.mode = "PENDING" /\ NotMarking(k)
         /\ k.view = matchToLobbyPlayers(row').seat
    BY <1>4, <1>2, SyncTask
  <2> QED
    BY <2>1 DEF applyRosterAndSync
<1>6. /\ stale \subseteq stale'
      /\ stale' \subseteq {"roster", "inside", "lock", "message", "failed"}
      /\ "inside" \notin stale' => job[j].fresh
  BY <1>1 DEF applyRosterAndSync, Noting, Types
<1>7. "inside" \notin stale' => Current(job[j], status, row, authority, stale)
  BY <1>1, <1>6 DEF JobFits
<1>8. "inside" \notin stale' => job[j].prev = row /\ status = "PENDING"
  BY <1>2, <1>7 DEF Current
<1>9. authority' = authority \/ (j \in Marking /\ authority' = authority + 1)
  BY <1>2 DEF applyRosterAndSync, Marking
<1>10. Types' /\ MarksLeft' /\ Unopened' /\ JobsFit' /\ Shown'
  BY <1>2, <1>3, <1>5, <1>6, <1>8, <1>9, Write DEF applyRosterAndSync
<1>11. SeatsApart'
  BY <1>1, <1>2, <1>3, <1>8, ReplacedSeats DEF SeatsApart, Stored, assertValidSlots, JobFits
<1>12. StartedWhole'
  BY <1>8 DEF StartedWhole, applyRosterAndSync
<1> QED
  BY <1>10, <1>11, <1>12 DEF SeatsInv

(* Locks move nobody. *)
LEMMA LockKeeps ==
    ASSUME SeatsInv, NEW j \in Jobs, setMatchPlayersLocked(j)
    PROVE  SeatsInv'
<1>1. Types /\ Unopened
  BY DEF SeatsInv
<1>2. status # "none" /\ job[j].at = "lock" /\ status \in Statuses
  BY <1>1, Edited DEF setMatchPlayersLocked, Types
<1>3. \A p \in Players : row[p] \in [slot : Slots \cup {None}, locked : BOOLEAN, sideLocked : BOOLEAN]
  BY <1>1 DEF Types, Rows
<1>4. \A p \in Players : row'[p].slot = row[p].slot
  BY <1>3 DEF setMatchPlayersLocked
<1>5. row' \in Rows
  BY <1>3 DEF setMatchPlayersLocked, Rows
<1>6. RowsFit(row')
  <2> SUFFICES ASSUME NEW p \in Players
               PROVE  /\ ~(row'[p].locked /\ row'[p].sideLocked)
                      /\ ~In(row', p) => row'[p] = NoRow
    BY DEF RowsFit
  <2>1. CASE job[j].locks[p] = None
    BY <2>1, <1>1, <1>4 DEF setMatchPlayersLocked, Types, RowsFit, In
  <2>2. CASE job[j].locks[p] # None
    BY <2>2, <1>3, <1>4 DEF setMatchPlayersLocked, In
  <2> QED
    BY <2>1, <2>2
<1>7. matchToLobbyPlayers(row') = matchToLobbyPlayers(row) /\ Stored.seat \in Seatings
  BY <1>1, <1>4, RowsRead DEF matchToLobbyPlayers, Stored, Types, Rosters
<1>8. PICK k \in Tasks :
         /\ Written(j, k) /\ k.at = "sync" /\ k.fresh /\ k.mode = "PENDING" /\ NotMarking(k)
         /\ k.view = Stored.seat
  <2>1. PICK k \in Tasks :
         /\ k = [Idle EXCEPT !.at = "sync", !.view = Stored.seat]
         /\ k.at = "sync" /\ k.fresh /\ k.mode = "PENDING" /\ NotMarking(k)
         /\ k.view = Stored.seat
    BY <1>2, <1>7, SyncTask
  <2> QED
    BY <2>1 DEF setMatchPlayersLocked
<1>9. /\ stale \subseteq stale'
      /\ stale' \subseteq {"roster", "inside", "lock", "message", "failed"}
      /\ status = "PENDING" \/ "lock" \in stale'
  BY <1>1 DEF setMatchPlayersLocked, Types
<1>10. k.view = matchToLobbyPlayers(row').seat
  BY <1>7, <1>8 DEF Stored
<1>11. Types' /\ MarksLeft' /\ Unopened' /\ JobsFit' /\ Shown'
  BY <1>2, <1>5, <1>6, <1>8, <1>9, <1>10, Write DEF setMatchPlayersLocked
<1>12. SeatsApart' /\ StartedWhole'
  BY <1>7, <1>9 DEF SeatsInv, SeatsApart, StartedWhole, Stored, setMatchPlayersLocked
<1> QED
  BY <1>11, <1>12 DEF SeatsInv

(* A screenshot that shows nobody. *)
LEMMA TouchKeeps ==
    ASSUME SeatsInv, NEW j \in Jobs, touchLobbyRosterAuthority(j)
    PROVE  SeatsInv'
<1>1. Types /\ Unopened /\ JobFits(job[j], status, row, authority, stale)
  BY DEF SeatsInv, JobsFit
<1>2. status = "PENDING" /\ job[j].at = "touch" /\ status \in Statuses
  BY <1>1 DEF touchLobbyRosterAuthority, Types
<1>3. j \in Marking /\ authority' = authority + 1
  BY <1>1, <1>2 DEF touchLobbyRosterAuthority, Marking, ByHand, JobFits
<1>4. Stored.seat \in Seatings
  BY <1>1, RowsRead DEF Stored, Types, Rosters
<1>5. PICK k \in Tasks :
         /\ Written(j, k) /\ k.at = "sync" /\ k.fresh /\ k.mode = "PENDING" /\ NotMarking(k)
         /\ k.view = Stored.seat
  <2>1. PICK k \in Tasks :
         /\ k = [Idle EXCEPT !.at = "sync", !.view = Stored.seat]
         /\ k.at = "sync" /\ k.fresh /\ k.mode = "PENDING" /\ NotMarking(k)
         /\ k.view = Stored.seat
    BY <1>4, SyncTask
  <2> QED
    BY <2>1 DEF touchLobbyRosterAuthority
<1>6. row' \in Rows /\ RowsFit(row') /\ Stored' = Stored /\ status' = status /\ stale' = stale
      /\ k.view = matchToLobbyPlayers(row').seat
  BY <1>1, <1>5 DEF touchLobbyRosterAuthority, Types, Stored
<1>7. stale' \subseteq {"roster", "inside", "lock", "message", "failed"}
  BY <1>1, <1>6 DEF Types
<1>8. Types' /\ MarksLeft' /\ Unopened' /\ JobsFit' /\ Shown'
  BY <1>2, <1>3, <1>5, <1>6, <1>7, Write DEF touchLobbyRosterAuthority
<1>9. SeatsApart' /\ StartedWhole'
  BY <1>6 DEF SeatsInv, SeatsApart, StartedWhole
<1> QED
  BY <1>8, <1>9 DEF SeatsInv

(* A match is started or cancelled. *)
LEMMA StatusKeeps ==
    ASSUME SeatsInv, NEW j \in Jobs, SetStatus(j)
    PROVE  SeatsInv'
<1>1. Types /\ Unopened /\ JobFits(job[j], status, row, authority, stale)
  BY DEF SeatsInv, JobsFit
<1>2. status # "none" /\ job[j].at \in {"start", "cancel"}
  BY <1>1, Edited DEF SetStatus
<1>3. /\ status' \in {"IN_PROGRESS", "CANCELLED"} /\ status' \in Statuses
      /\ status' = "IN_PROGRESS" => job[j].at = "start"
  BY DEF SetStatus, Statuses
<1>4. Stored.seat \in Seatings
  BY <1>1, RowsRead DEF Stored, Types, Rosters
<1>5. PICK k \in Tasks :
         /\ Written(j, k) /\ k.at = "sync" /\ k.fresh /\ k.mode = status' /\ NotMarking(k)
         /\ k.view = Stored.seat
  <2>1. PICK st \in Statuses, v \in Seatings : st = status' /\ v = Stored.seat
    BY <1>3, <1>4
  <2>2. PICK k \in Tasks :
         /\ k = [Idle EXCEPT !.at = "sync", !.view = v, !.mode = st]
         /\ k.at = "sync" /\ k.fresh /\ k.mode = st /\ k.view = v /\ NotMarking(k)
    BY ZenonT(40), SyncStatusTask
  <2> QED
    BY <2>1, <2>2 DEF SetStatus
<1>6. /\ stale \subseteq stale'
      /\ stale' \subseteq {"roster", "inside", "lock", "message", "failed"}
      /\ "roster" \notin stale' => job[j].fresh
  BY <1>1 DEF SetStatus, Noting, Types
<1>7. row' = row /\ Stored' = Stored /\ row' \in Rows /\ RowsFit(row')
      /\ k.view = matchToLobbyPlayers(row').seat
  BY <1>1, <1>5 DEF SetStatus, Types, Stored
<1>8. Types' /\ MarksLeft' /\ Unopened' /\ JobsFit' /\ Shown'
  BY <1>2, <1>3, <1>5, <1>6, <1>7, Write DEF SetStatus
<1>9. SeatsApart'
  BY <1>6, <1>7 DEF SeatsInv, SeatsApart
<1>10. StartedWhole'
  <2> SUFFICES ASSUME status' = "IN_PROGRESS", "roster" \notin stale'
               PROVE  canStartLobby(Stored)
    BY <1>7 DEF StartedWhole
  <2>1. job[j].at = "start" /\ Current(job[j], status, row, authority, stale)
    BY <1>1, <1>3, <1>6 DEF JobFits
  <2> QED
    BY <2>1 DEF Current, Stored
<1> QED
  BY <1>8, <1>9, <1>10 DEF SeatsInv

-----------------------------------------------------------------------------
(* Reading again, ending, and drawing. *)

(* The rows are read as they are; what the roster was worked out from is     *)
(* noted when it is old.                                                     *)
LEMMA ReplaceKeeps ==
    ASSUME SeatsInv, NEW j \in Jobs, replaceMatchRoster(j)
    PROVE  SeatsInv'
<1>1. Types /\ Unopened /\ job[j] \in Tasks /\ JobFits(job[j], status, row, authority, stale)
  BY DEF SeatsInv, JobsFit, Types
<1>2. [job[j] EXCEPT !.at = "commit", !.prev = row, !.fresh = TRUE] \in Tasks
  BY <1>1 DEF Tasks, Steps, Types
<1>3. PICK k \in Tasks : k = [job[j] EXCEPT !.at = "commit", !.prev = row, !.fresh = TRUE]
  BY <1>2
<1>4. /\ k.at = "commit" /\ k.prev = row /\ k.fresh
      /\ k.next = job[j].next /\ k.kind = job[j].kind /\ k.seen = job[j].seen
  BY <1>1, <1>3 DEF Tasks
<1>5. job' = [job EXCEPT ![j] = k]
  BY <1>1, <1>3 DEF replaceMatchRoster, Types
<1>6. job[j].at = "rewrite" /\ status = "PENDING" /\ assertValidSlots(k.next)
  BY <1>4 DEF replaceMatchRoster
<1>7. /\ stale \subseteq stale'
      /\ "roster" \notin stale' => job[j].fresh
      /\ stale' \subseteq {"roster", "inside", "lock", "message", "failed"}
  BY <1>1 DEF replaceMatchRoster, Noting, Types
<1>8. "roster" \notin stale' =>
         /\ k.kind = "balance" => RespectsLocks(k.next.seat, row)
         /\ k.kind = "import" => authority = 0 \/ (k.seen # None /\ k.seen >= authority)
  BY <1>1, <1>4, <1>6, <1>7 DEF JobFits, Current, Trusted
<1>9. JobFits(k, status, row, authority, stale')
  BY <1>4, <1>6, <1>8 DEF JobFits, Current, Trusted
<1>10. NotMarking(k) \/ j \in Marking
  BY <1>4, <1>6 DEF NotMarking, Marking
<1>11. /\ page' \in [Users -> Pages] /\ \A u \in Users : PageFits(page'[u])
       /\ linked' \in BOOLEAN /\ UNCHANGED <<status, row, authority, message, plan>>
  BY <1>1 DEF replaceMatchRoster, Types
<1> QED
  BY <1>5, <1>6, <1>7, <1>9, <1>10, <1>11, Turn

LEMMA GiveUpKeeps ==
    ASSUME SeatsInv, NEW j \in Jobs, GiveUp(j)
    PROVE  SeatsInv'
<1>1. Types /\ Unopened
  BY DEF SeatsInv
<1>2. job[j].at \in {"rewrite", "touch", "commit", "lock"} /\ status # "none"
  BY <1>1, Edited DEF GiveUp
<1>3. NotMarking(Idle) /\ JobFits(Idle, status, row, authority, stale')
  BY IdleFits DEF NotMarking, Idle
<1>4. /\ page' \in [Users -> Pages] /\ \A u \in Users : PageFits(page'[u])
      /\ linked' \in BOOLEAN /\ UNCHANGED <<status, row, authority, message, plan, stale>>
      /\ stale' \subseteq {"roster", "inside", "lock", "message", "failed"}
      /\ job' = [job EXCEPT ![j] = Idle]
  BY <1>1 DEF GiveUp, Types
<1> QED
  BY <1>2, <1>3, <1>4, Turn, IdleTyped

(* The message is drawn from what was read, or its being old is noted.       *)
LEMMA DrawKeeps ==
    ASSUME SeatsInv, NEW j \in Jobs, job[j].at \in {"sync", "attach"}, status # "none",
           job' = [job EXCEPT ![j] = Idle], message' \in Shows \cup {None},
           stale \subseteq stale',
           stale' \subseteq {"roster", "inside", "lock", "message", "failed"},
           UNCHANGED <<status, row, authority, linked, page, plan>>,
           Unexcused(stale') =>
              \/ message = None /\ message' = None /\ job[j].at = "sync"
              \/ message' = buildMatchLobbyEmbed(status, Stored.seat)
    PROVE  SeatsInv'
<1>1. Types /\ MarksLeft /\ job \in [Jobs -> Tasks]
  BY DEF SeatsInv, Types
<1>2. Types'
  BY <1>1, IdleTyped DEF Types
<1>3. job'[j] = Idle /\ \A i \in Jobs \ {j} : job'[i] = job[i]
  BY <1>1
<1>4. MarksLeft'
  <2>1. Marking' \subseteq Marking
    BY <1>3 DEF Marking, Idle
  <2> QED
    BY <1>1, <2>1, FewerMarks
<1>5. Unopened'
  BY DEF Unopened
<1>6. JobsFit'
  <2>1. \A i \in Jobs : JobFits(job'[i], status, row, authority, stale')
    <3> SUFFICES ASSUME NEW i \in Jobs
                 PROVE  JobFits(job'[i], status, row, authority, stale')
      OBVIOUS
    <3>1. CASE i = j
      BY <3>1, <1>3, IdleFits
    <3>2. CASE i # j
      <4>1. JobFits(job[i], status, row, authority, stale)
        BY DEF SeatsInv, JobsFit
      <4> QED
        BY <3>2, <4>1, <1>3, NotesKeep
    <3> QED
      BY <3>1, <3>2
  <2> QED
    BY <2>1 DEF JobsFit
<1>7. SeatsApart' /\ StartedWhole'
  BY DEF SeatsInv, SeatsApart, StartedWhole, Stored
<1>8. Shown'
  <2>1. SUFFICES ASSUME Unexcused(stale')
                 PROVE  IF message' = None THEN \E i \in Jobs : job'[i].at = "attach"
                        ELSE message' = buildMatchLobbyEmbed(status, Stored.seat)
    BY DEF Shown, Stored
  <2>2. CASE message = None /\ message' = None /\ job[j].at = "sync"
    <3>1. PICK i \in Jobs : job[i].at = "attach"
      BY <2>1, <2>2 DEF SeatsInv, Shown, Unexcused
    <3> QED
      BY <2>2, <3>1, <1>3
  <2>3. CASE message' = buildMatchLobbyEmbed(status, Stored.seat)
    <3>1. message' # None
      BY <1>1, <2>3, RowsRead, LobbySeatsAssumption
         DEF buildMatchLobbyEmbed, Shows, Types, Stored, Rosters
    <3> QED
      BY <2>3, <3>1
  <2> QED
    BY <2>1, <2>2, <2>3
<1> QED
  BY <1>2, <1>4, <1>5, <1>6, <1>7, <1>8 DEF SeatsInv

LEMMA SyncKeeps ==
    ASSUME SeatsInv, NEW j \in Jobs, syncLobbyDiscordMessage(j)
    PROVE  SeatsInv'
<1>1. Types /\ Unopened /\ job[j] \in Tasks /\ JobFits(job[j], status, row, authority, stale)
  BY DEF SeatsInv, JobsFit, Types
<1>2. job[j].at = "sync" /\ status # "none" /\ job' = [job EXCEPT ![j] = Idle]
      /\ UNCHANGED <<status, row, authority, linked, page, plan>>
  BY <1>1, Edited DEF syncLobbyDiscordMessage
<1>3. /\ stale \subseteq stale'
      /\ stale' \subseteq {"roster", "inside", "lock", "message", "failed"}
  BY <1>1 DEF syncLobbyDiscordMessage, Noting, Types
<1>4. message' \in Shows \cup {None}
  BY <1>1 DEF syncLobbyDiscordMessage, buildMatchLobbyEmbed, Shows, Tasks, Types
<1>5. ASSUME Unexcused(stale')
      PROVE  \/ message = None /\ message' = None
             \/ message' = buildMatchLobbyEmbed(status, Stored.seat)
  <2>1. /\ job[j].fresh /\ "inside" \notin stale /\ "lock" \notin stale
        /\ message' = IF message = None THEN None
                      ELSE buildMatchLobbyEmbed(job[j].mode, job[j].view)
    BY <1>3, <1>5 DEF syncLobbyDiscordMessage, Noting, Unexcused
  <2>2. job[j].view = Stored.seat /\ job[j].mode = status
    BY <1>1, <1>2, <2>1 DEF JobFits, Current, Stored
  <2> QED
    BY <2>1, <2>2
<1> QED
  BY <1>2, <1>3, <1>4, <1>5, DrawKeeps

LEMMA AttachKeeps ==
    ASSUME SeatsInv, NEW j \in Jobs, attachDiscordMessage(j)
    PROVE  SeatsInv'
<1>1. Types /\ Unopened /\ job[j] \in Tasks /\ JobFits(job[j], status, row, authority, stale)
  BY DEF SeatsInv, JobsFit, Types
<1>2. job[j].at = "attach" /\ status # "none" /\ job' = [job EXCEPT ![j] = Idle]
      /\ UNCHANGED <<status, row, authority, linked, page, plan>>
  BY <1>1, Edited DEF attachDiscordMessage
<1>3. /\ stale \subseteq stale'
      /\ stale' \subseteq {"roster", "inside", "lock", "message", "failed"}
  BY <1>1 DEF attachDiscordMessage, Noting, Types
<1>4. message' \in Shows \cup {None}
  BY <1>1 DEF attachDiscordMessage, buildMatchLobbyEmbed, Shows, Tasks, Statuses
<1>5. ASSUME Unexcused(stale')
      PROVE  message' = buildMatchLobbyEmbed(status, Stored.seat)
  <2>1. job[j].fresh
    BY <1>5 DEF attachDiscordMessage, Noting, Unexcused
  <2>2. job[j].view = Stored.seat /\ status = "PENDING"
    BY <1>1, <1>2, <2>1 DEF JobFits, Current, Stored
  <2> QED
    BY <2>2 DEF attachDiscordMessage
<1> QED
  BY <1>2, <1>3, <1>4, <1>5, DrawKeeps

-----------------------------------------------------------------------------
(* The game's list, and a new lobby. *)

(* A list goes on to be stored only when no edit by hand came after it, as   *)
(* far as the job knows (wc3stats-refresh.ts, wc3stats-freshness.ts).        *)
LEMMA RefreshKeeps ==
    ASSUME SeatsInv, NEW j \in Jobs, job[j].at = "import", status # "none",
           NEW known \in Tasks, known.at = "import", JobFits(known, status, row, authority, stale),
           NEW seen \in Sightings, applyWc3statsRefresh(j, known, seen), linked' \in BOOLEAN,
           UNCHANGED <<status, row, authority, message, page, stale, plan>>
    PROVE  SeatsInv'
<1>1. Types /\ authority \in 0 .. MaxMarks
  BY MarksBound DEF SeatsInv
<1>2. seen \in {None} \cup 0 .. MaxMarks
  BY <1>1, LobbySeatsAssumption DEF Sightings
<1>3. /\ page' \in [Users -> Pages] /\ \A u \in Users : PageFits(page'[u])
      /\ stale' = stale /\ stale' \subseteq {"roster", "inside", "lock", "message", "failed"}
  BY <1>1 DEF Types
<1>4. known.kind = "import" /\ known.mode = "PENDING"
  BY DEF JobFits
<1>5. PICK next \in Rosters :
         \/ /\ isWc3statsRosterFresh(seen, known.asof)
            /\ job' = [job EXCEPT ![j] = [known EXCEPT !.at = "rewrite", !.next = next, !.seen = seen,
                                                       !.asof = 0, !.view = Empty.seat]]
         \/ job' = [job EXCEPT ![j] = [known EXCEPT !.at = "sync", !.kind = "none", !.asof = 0]]
  <2>1. PICK usable \in BOOLEAN, list \in Readable :
          LET next == IF usable THEN list ELSE [seat |-> known.view, freed |-> {}] IN
          IF isWc3statsRosterFresh(seen, known.asof) /\ (usable \/ known.view = Empty.seat)
          THEN job' = [job EXCEPT ![j] = [known EXCEPT !.at = "rewrite", !.next = next,
                                                       !.seen = seen, !.asof = 0,
                                                       !.view = Empty.seat]]
          ELSE job' = [job EXCEPT ![j] = [known EXCEPT !.at = "sync", !.kind = "none",
                                                       !.asof = 0]]
    BY DEF applyWc3statsRefresh, extractWc3statsRoster
  <2>2. PICK next \in Rosters : next = IF usable THEN list ELSE [seat |-> known.view, freed |-> {}]
    BY ReadableFit DEF Rosters, Tasks
  <2> QED
    BY <2>1, <2>2
<1>6. CASE /\ isWc3statsRosterFresh(seen, known.asof)
           /\ job' = [job EXCEPT ![j] = [known EXCEPT !.at = "rewrite", !.next = next, !.seen = seen,
                                                      !.asof = 0, !.view = Empty.seat]]
  <2>1. [known EXCEPT !.at = "rewrite", !.next = next, !.seen = seen, !.asof = 0,
                      !.view = Empty.seat] \in Tasks
    BY <1>2, EmptyFit, Limits DEF Tasks, Steps, Rosters
  <2>2. PICK k \in Tasks :
          k = [known EXCEPT !.at = "rewrite", !.next = next, !.seen = seen, !.asof = 0,
                            !.view = Empty.seat]
    BY <2>1
  <2>3. k.at = "rewrite" /\ k.kind = "import" /\ k.seen = seen /\ k.fresh = known.fresh
    BY <2>2, <1>4 DEF Tasks
  <2>4. known.fresh => authority = 0 \/ (k.seen # None /\ k.seen >= authority)
    BY <1>6, <2>3 DEF JobFits, Current, isWc3statsRosterFresh
  <2>5. JobFits(k, status, row, authority, stale') /\ NotMarking(k)
    BY <2>3, <2>4 DEF JobFits, Current, Trusted, NotMarking, ByHand
  <2> QED
    BY <1>3, <1>6, <2>2, <2>5, Turn
<1>7. CASE job' = [job EXCEPT ![j] = [known EXCEPT !.at = "sync", !.kind = "none", !.asof = 0]]
  <2>1. [known EXCEPT !.at = "sync", !.kind = "none", !.asof = 0] \in Tasks
    BY Limits DEF Tasks, Steps, Kinds
  <2>2. PICK k \in Tasks : k = [known EXCEPT !.at = "sync", !.kind = "none", !.asof = 0]
    BY <2>1
  <2>3. /\ k.at = "sync" /\ k.kind = "none" /\ k.fresh = known.fresh
        /\ k.view = known.view /\ k.mode = "PENDING"
    BY <2>2, <1>4 DEF Tasks
  <2>4. known.fresh => known.view = matchToLobbyPlayers(row).seat /\ status = "PENDING"
    BY DEF JobFits, Current
  <2>5. JobFits(k, status, row, authority, stale') /\ NotMarking(k)
    BY <2>3, <2>4 DEF JobFits, Current, Trusted, NotMarking
  <2> QED
    BY <1>3, <1>7, <2>2, <2>5, Turn
<1> QED
  BY <1>5, <1>6, <1>7

LEMMA ImportKeeps ==
    ASSUME SeatsInv, NEW j \in Jobs, importAndMaybeLinkWc3stats(j)
    PROVE  SeatsInv'
<1>1. Types /\ Unopened /\ job[j] \in Tasks /\ JobFits(job[j], status, row, authority, stale)
      /\ authority \in 0 .. MaxMarks
  BY MarksBound DEF SeatsInv, JobsFit, Types
<1>2. job[j].at = "import" /\ status # "none" /\ linked' \in BOOLEAN
      /\ UNCHANGED <<status, row, authority, message, page, stale, plan>>
  BY <1>1, Edited DEF importAndMaybeLinkWc3stats, Types
<1>3. CASE linked /\ \E seen \in Sightings : applyWc3statsRefresh(j, job[j], seen)
  <2>1. PICK known \in Tasks : known = job[j]
    BY <1>1
  <2>2. PICK seen \in Sightings : applyWc3statsRefresh(j, known, seen)
    BY <1>3, <2>1
  <2> QED
    BY <1>1, <1>2, <2>1, <2>2, RefreshKeeps
<1>4. CASE /\ status = "PENDING"
           /\ \E seen \in Sightings :
                 applyWc3statsRefresh(j, [job[j] EXCEPT !.asof = authority, !.fresh = TRUE,
                                                        !.view = Stored.seat], seen)
  <2>1. [job[j] EXCEPT !.asof = authority, !.fresh = TRUE, !.view = Stored.seat] \in Tasks
    BY <1>1, RowsRead DEF Tasks, Types, Stored, Rosters
  <2>2. PICK known \in Tasks :
           known = [job[j] EXCEPT !.asof = authority, !.fresh = TRUE, !.view = Stored.seat]
    BY <2>1
  <2>3. PICK seen \in Sightings : applyWc3statsRefresh(j, known, seen)
    BY <1>4, <2>2
  <2>4. /\ known.at = "import" /\ known.kind = "import" /\ known.mode = "PENDING"
        /\ known.asof = authority /\ known.view = matchToLobbyPlayers(row).seat
    BY <1>1, <1>2, <2>2 DEF Tasks, JobFits, Stored
  <2>5. JobFits(known, status, row, authority, stale)
    BY <1>4, <2>4 DEF JobFits, Current, Trusted
  <2> QED
    BY <1>2, <2>3, <2>4, <2>5, RefreshKeeps
<1>5. CASE job' = [job EXCEPT ![j] = Idle]
  <2>1. NotMarking(Idle) /\ JobFits(Idle, status, row, authority, stale')
    BY IdleFits DEF NotMarking, Idle
  <2>2. /\ page' \in [Users -> Pages] /\ \A u \in Users : PageFits(page'[u])
        /\ stale' = stale /\ stale' \subseteq {"roster", "inside", "lock", "message", "failed"}
    BY <1>1, <1>2 DEF Types
  <2> QED
    BY <1>2, <1>5, <2>1, <2>2, Turn, IdleTyped
<1> QED
  BY <1>3, <1>4, <1>5 DEF importAndMaybeLinkWc3stats

LEMMA NewRows ==
    ASSUME NEW r \in Rosters
    PROVE  /\ Fresh(r) \in Rows /\ RowsFit(Fresh(r))
           /\ matchToLobbyPlayers(Fresh(r)).seat = r.seat
<1>1. r.seat \in Seatings /\ \A p \in Players : r.seat[p] \in Slots \cup {None}
  BY DEF Rosters, Seatings
<1>2. \A p \in Players :
         Fresh(r)[p] = [slot |-> r.seat[p], locked |-> FALSE, sideLocked |-> FALSE]
  BY DEF Fresh, NoRow
<1>3. Fresh(r) \in Rows
  BY <1>1, <1>2 DEF Fresh, Rows
<1>4. RowsFit(Fresh(r))
  <2> SUFFICES ASSUME NEW p \in Players
               PROVE  /\ ~(Fresh(r)[p].locked /\ Fresh(r)[p].sideLocked)
                      /\ ~In(Fresh(r), p) => Fresh(r)[p] = NoRow
    BY DEF RowsFit
  <2>1. Fresh(r)[p] = [slot |-> r.seat[p], locked |-> FALSE, sideLocked |-> FALSE]
    BY <1>2
  <2>2. ~Fresh(r)[p].locked /\ Fresh(r)[p].slot = r.seat[p]
    BY <2>1
  <2>3. ~In(Fresh(r), p) => Fresh(r)[p] = NoRow
    BY <2>1, <2>2 DEF In, NoRow
  <2> QED
    BY <2>2, <2>3
<1>5. [p \in Players |-> Fresh(r)[p].slot] = [p \in Players |-> r.seat[p]]
  <2>1. ASSUME NEW p \in Players
        PROVE  Fresh(r)[p].slot = r.seat[p]
    <3>1. Fresh(r)[p] = [slot |-> r.seat[p], locked |-> FALSE, sideLocked |-> FALSE]
      BY <1>2
    <3> QED
      BY <3>1
  <2> QED
    BY <2>1
<1>6. [p \in Players |-> r.seat[p]] = r.seat
  BY <1>1 DEF Seatings
<1> QED
  BY <1>3, <1>4, <1>5, <1>6 DEF matchToLobbyPlayers

(* A new lobby: nobody is at work on it, and its message is to be attached.  *)
LEMMA CreateKeeps ==
    ASSUME SeatsInv, NEW j \in Jobs, NEW r \in Rosters, NEW mark \in {0, 1},
           NEW game \in BOOLEAN, \A i \in Jobs : job[i] = Idle,
           "inside" \notin stale => assertValidSlots(r),
           createPendingMatch(j, r, mark, game)
    PROVE  SeatsInv'
<1>1. Types /\ stale' = stale /\ plan' = plan
  BY DEF SeatsInv, createPendingMatch
<1>2. [Idle EXCEPT !.at = "attach", !.view = r.seat] \in Tasks
  BY IdleTyped DEF Tasks, Steps, Rosters
<1>3. PICK k \in Tasks : k = [Idle EXCEPT !.at = "attach", !.view = r.seat]
  BY <1>2
<1>4. k.at = "attach" /\ k.view = r.seat
  BY <1>3 DEF Idle
<1>5. job' = [job EXCEPT ![j] = k] /\ job'[j] = k /\ \A i \in Jobs \ {j} : job'[i] = Idle
  BY <1>1, <1>3 DEF createPendingMatch, Begin, Types
<1>6. row' \in Rows /\ RowsFit(row') /\ matchToLobbyPlayers(row').seat = r.seat
  BY NewRows DEF createPendingMatch
<1>7. Types'
  <2>1. NoPage \in Pages /\ PageFits(NoPage)
    BY DEF NoPage, Pages, PageFits, Menus
  <2>2. page' \in [Users -> Pages] /\ \A u \in Users : PageFits(page'[u])
    BY <2>1 DEF createPendingMatch
  <2>3. /\ status' \in Statuses /\ linked' \in BOOLEAN /\ authority' \in Nat
        /\ message' \in Shows \cup {None}
    BY DEF createPendingMatch, Statuses
  <2>4. job' \in [Jobs -> Tasks]
    BY <1>1, <1>5 DEF Types
  <2> QED
    BY <1>1, <1>6, <2>2, <2>3, <2>4 DEF Types
<1>8. MarksLeft'
  <2>1. Marking' = {}
    BY <1>4, <1>5 DEF Marking, Idle
  <2>2. authority' \in Nat /\ authority' <= MaxMarks
    BY Limits DEF createPendingMatch
  <2> QED
    BY <2>1, <2>2, NoMarks
<1>9. status' = "PENDING" /\ message' = None
  BY DEF createPendingMatch
<1>10. JobsFit'
  <2>1. JobFits(k, status', row', authority', stale')
    BY <1>4, <1>6, <1>9 DEF JobFits, Current, Trusted
  <2>2. \A i \in Jobs : JobFits(job'[i], status', row', authority', stale')
    BY <1>5, <2>1, IdleFits
  <2> QED
    BY <2>2 DEF JobsFit
<1>11. SeatsApart'
  BY <1>1, <1>6 DEF SeatsApart, Stored, assertValidSlots
<1>12. Unopened' /\ StartedWhole' /\ Shown'
  BY <1>4, <1>5, <1>9 DEF Unopened, StartedWhole, Shown
<1> QED
  BY <1>7, <1>8, <1>10, <1>11, <1>12 DEF SeatsInv

-----------------------------------------------------------------------------
(* The services. *)

PagesFit(pages) == pages \in [Users -> Pages] /\ \A u \in Users : PageFits(pages[u])

(* A job is begun on an open lobby. *)
Starts(j) ==
    /\ status # "none"
    /\ \E k \in Tasks : /\ Begin(j, k) /\ JobFits(k, status, row, authority, stale)
                        /\ NotMarking(k) \/ Room

LEMMA StartsKeeps ==
    ASSUME SeatsInv, NEW j \in Jobs, Starts(j), OnlyJobs, PagesFit(page')
    PROVE  SeatsInv'
BY BeginKeeps DEF Starts, PagesFit

LEMMA PagesKeep ==
    ASSUME SeatsInv, UNCHANGED job, OnlyJobs, PagesFit(page')
    PROVE  SeatsInv'
BY PageKeeps DEF PagesFit

LEMMA PagesStay ==
    ASSUME SeatsInv, UNCHANGED page
    PROVE  PagesFit(page')
BY DEF SeatsInv, Types, PagesFit

LEMMA EditStarts ==
    ASSUME NEW j \in Jobs, NEW results, NEW kind \in {"hand", "report"},
           results \subseteq Rosters, Edit(j, results, kind), status = "PENDING"
    PROVE  Starts(j)
<1>1. PICK r \in Rosters :
         /\ kind \in ByHand => Room
         /\ Begin(j, [Idle EXCEPT !.at = "rewrite", !.next = r, !.kind = kind])
  BY DEF Edit
<1>2. [Idle EXCEPT !.at = "rewrite", !.next = r, !.kind = kind] \in Tasks
  BY IdleTyped DEF Tasks, Steps, Kinds
<1>3. PICK k \in Tasks : k = [Idle EXCEPT !.at = "rewrite", !.next = r, !.kind = kind]
  BY <1>2
<1>4. k.at = "rewrite" /\ k.kind = kind
  BY <1>3 DEF Idle
<1>5. JobFits(k, status, row, authority, stale)
  BY <1>4 DEF JobFits, Current, Trusted
<1>6. NotMarking(k) \/ Room
  BY <1>1, <1>4 DEF NotMarking
<1> QED
  BY <1>1, <1>3, <1>5, <1>6 DEF Starts

LEMMA BalanceStarts ==
    ASSUME SeatsInv, NEW j \in Jobs, balanceLobbyRoster(j)
    PROVE  Starts(j)
<1>1. PICK r \in findBalancedRoster :
         /\ Room
         /\ Begin(j, [Idle EXCEPT !.at = "rewrite", !.next = r, !.kind = "balance"])
  BY DEF balanceLobbyRoster, Edit, ByHand
<1>2. r \in Rosters /\ RespectsLocks(r.seat, row)
  BY BalancedFit DEF SeatsInv
<1>3. [Idle EXCEPT !.at = "rewrite", !.next = r, !.kind = "balance"] \in Tasks
  BY <1>2, IdleTyped DEF Tasks, Steps, Kinds
<1>4. PICK k \in Tasks : k = [Idle EXCEPT !.at = "rewrite", !.next = r, !.kind = "balance"]
  BY <1>3
<1>5. k.at = "rewrite" /\ k.kind = "balance" /\ k.next = r
  BY <1>4 DEF Idle
<1>6. JobFits(k, status, row, authority, stale)
  BY <1>2, <1>5 DEF JobFits, Current, Trusted
<1> QED
  BY <1>1, <1>4, <1>6 DEF Starts, balanceLobbyRoster, resolvePendingMatchForManage

(* The rosters that players, the host and the menus ask for.                 *)
LEMMA RosterStarts ==
    ASSUME SeatsInv, NEW j \in Jobs,
           \/ addLobbyPlayer(j) \/ removeLobbyPlayer(j) \/ swapLobbyPlayers(j)
           \/ remapLobbyPlayers(j) \/ leaveLobbySlot(j) \/ fillLobbyFromWos2Report(j)
    PROVE  Starts(j)
<1>1. Stored \in Rosters
  BY RowsRead DEF SeatsInv, Types, Stored
<1>2. CASE addLobbyPlayer(j)
  <2>1. PICK p \in Players, s \in Slots : Edit(j, addPlayer(Stored, p, s), "hand")
    BY <1>2 DEF addLobbyPlayer
  <2>2. addPlayer(Stored, p, s) \subseteq Rosters
    BY <1>1, AddTyped
  <2> QED
    BY <1>2, <2>1, <2>2, EditStarts DEF addLobbyPlayer, resolveHostPendingMatch
<1>3. CASE removeLobbyPlayer(j)
  <2>1. PICK s \in Slots : Edit(j, removePlayer(Stored, s), "hand")
    BY <1>3 DEF removeLobbyPlayer
  <2>2. removePlayer(Stored, s) \subseteq Rosters
    BY <1>1, RemoveTyped
  <2> QED
    BY <1>3, <2>1, <2>2, EditStarts DEF removeLobbyPlayer, resolvePendingMatchForManage
<1>4. CASE swapLobbyPlayers(j)
  <2>1. PICK s \in Slots, t \in Slots : Edit(j, swapPlayers(Stored, s, t), "hand")
    BY <1>4 DEF swapLobbyPlayers
  <2>2. swapPlayers(Stored, s, t) \subseteq Rosters
    BY <1>1, SwapTyped
  <2> QED
    BY <1>4, <2>1, <2>2, EditStarts DEF swapLobbyPlayers, resolveHostPendingMatch
<1>5. CASE remapLobbyPlayers(j)
  <2>1. PICK a \in Slots, b \in Slots, c \in Slots, d \in Slots :
           Edit(j, applyRemapPairs(Stored, a, b, c, d), "hand")
    BY <1>5 DEF remapLobbyPlayers
  <2>2. applyRemapPairs(Stored, a, b, c, d) \subseteq Rosters
    BY <1>1, RemapTyped
  <2> QED
    BY <1>5, <2>1, <2>2, EditStarts DEF remapLobbyPlayers, resolveHostPendingMatch
<1>6. CASE leaveLobbySlot(j)
  <2>1. PICK p \in Players : Edit(j, rosterAfterLeave(Stored, p), "hand")
    BY <1>6 DEF leaveLobbySlot
  <2>2. rosterAfterLeave(Stored, p) \subseteq Rosters
    BY <1>1, LeaveTyped
  <2> QED
    BY <1>6, <2>1, <2>2, EditStarts DEF leaveLobbySlot, resolvePendingMatchByMessageId
<1>7. CASE fillLobbyFromWos2Report(j)
  <2>1. BothTeams \subseteq Rosters
    BY ReadableFit DEF BothTeams
  <2> QED
    BY <1>7, <2>1, EditStarts DEF fillLobbyFromWos2Report
<1> QED
  BY <1>2, <1>3, <1>4, <1>5, <1>6, <1>7

LEMMA ClaimStarts ==
    ASSUME SeatsInv, NEW j \in Jobs, NEW s \in Slots, claimLobbySlot(j, s)
    PROVE  Starts(j)
<1>1. PICK p \in Players : Edit(j, rosterAfterClaim(Stored, p, s), "hand")
  BY DEF claimLobbySlot
<1>2. rosterAfterClaim(Stored, p, s) \subseteq Rosters
  BY RowsRead, ClaimTyped DEF SeatsInv, Types, Stored
<1> QED
  BY <1>1, <1>2, EditStarts DEF claimLobbySlot, resolvePendingMatchByMessageId

LEMMA MessageStarts ==
    ASSUME SeatsInv, NEW j \in Jobs, NEW results, results \subseteq Rosters,
           applyRosterUpdateForMessage(j, results)
    PROVE  Starts(j)
BY EditStarts DEF applyRosterUpdateForMessage, resolvePendingMatchByMessageId

LEMMA LockStarts ==
    ASSUME NEW j \in Jobs, NEW locks, locks \subseteq [Players -> Modes \cup {None}],
           Lock(j, locks), status = "PENDING"
    PROVE  Starts(j)
<1>1. PICK l \in [Players -> Modes \cup {None}] :
         Begin(j, [Idle EXCEPT !.at = "lock", !.locks = l])
  BY DEF Lock
<1>2. [Idle EXCEPT !.at = "lock", !.locks = l] \in Tasks
  BY IdleTyped DEF Tasks, Steps
<1>3. PICK k \in Tasks : k = [Idle EXCEPT !.at = "lock", !.locks = l]
  BY <1>2
<1>4. k.at = "lock"
  BY <1>3 DEF Idle
<1>5. JobFits(k, status, row, authority, stale) /\ NotMarking(k)
  BY <1>4 DEF JobFits, Current, Trusted, NotMarking
<1> QED
  BY <1>1, <1>3, <1>5 DEF Starts

LEMMA LocksStart ==
    ASSUME SeatsInv, NEW j \in Jobs,
           \/ lockLobbySlots(j) \/ unlockLobbySlots(j)
           \/ \E S \in SUBSET Slots, mode \in {"slot", "side"} : setLobbyLockedSlots(j, S, mode)
    PROVE  Starts(j)
<1>1. CASE lockLobbySlots(j)
  <2>1. PICK S \in Picks, mode \in {"slot", "side"} : Lock(j, LocksIn(S, mode))
    BY <1>1 DEF lockLobbySlots
  <2> QED
    BY <1>1, <2>1, LocksTyped, LockStarts DEF lockLobbySlots, resolvePendingMatchForManage, Modes
<1>2. CASE unlockLobbySlots(j)
  <2>1. PICK S \in Picks : Lock(j, LocksIn(S, "none"))
    BY <1>2 DEF unlockLobbySlots
  <2> QED
    BY <1>2, <2>1, LocksTyped, LockStarts DEF unlockLobbySlots, resolvePendingMatchForManage, Modes
<1>3. CASE \E S \in SUBSET Slots, mode \in {"slot", "side"} : setLobbyLockedSlots(j, S, mode)
  <2>1. PICK S \in SUBSET Slots, mode \in {"slot", "side"} : setLobbyLockedSlots(j, S, mode)
    BY <1>3
  <2>2. Lock(j, lockChangesForSelection(S, mode)) /\ status = "PENDING"
    BY <2>1 DEF setLobbyLockedSlots, resolvePendingMatchForManage
  <2> QED
    BY <2>2, LocksTyped, LockStarts DEF Modes
<1> QED
  BY <1>1, <1>2, <1>3

(* What a job needs that stores no roster of its own. *)
LEMMA TaskStarts ==
    ASSUME SeatsInv, NEW j \in Jobs, NEW at \in {"start", "cancel"},
           Begin(j, [Idle EXCEPT !.at = at]), status = "PENDING",
           at = "start" => canStartLobby(Stored)
    PROVE  Starts(j)
<1>1. [Idle EXCEPT !.at = at] \in Tasks
  BY IdleTyped DEF Tasks, Steps
<1>2. PICK k \in Tasks : k = [Idle EXCEPT !.at = at]
  BY <1>1
<1>3. k.at = at
  BY <1>2 DEF Idle
<1>4. JobFits(k, status, row, authority, stale) /\ NotMarking(k)
  BY <1>3 DEF JobFits, Current, Trusted, NotMarking, Stored
<1> QED
  BY <1>2, <1>4 DEF Starts

LEMMA LifecycleStarts ==
    ASSUME SeatsInv, NEW j \in Jobs, startMatch(j) \/ cancelMatch(j)
    PROVE  Starts(j)
<1>1. CASE startMatch(j)
  BY <1>1, TaskStarts DEF startMatch
<1>2. CASE cancelMatch(j)
  BY <1>2, TaskStarts DEF cancelMatch
<1> QED
  BY <1>1, <1>2

LEMMA RefreshStarts ==
    ASSUME SeatsInv, NEW j \in Jobs,
           refreshLobbyFromScreenshot(j) \/ refreshLobbyFromWc3stats(j)
    PROVE  Starts(j)
<1>1. CASE Edit(j, tryExtractLobbyPlayers \ {Empty}, "hand") /\ status = "PENDING"
  <2>1. tryExtractLobbyPlayers \ {Empty} \subseteq Rosters
    BY ReadableFit DEF tryExtractLobbyPlayers
  <2> QED
    BY <1>1, <2>1, EditStarts
<1>2. CASE Room /\ Begin(j, [Idle EXCEPT !.at = "touch", !.kind = "hand"]) /\ status = "PENDING"
  <2>1. [Idle EXCEPT !.at = "touch", !.kind = "hand"] \in Tasks
    BY IdleTyped DEF Tasks, Steps, Kinds
  <2>2. PICK k \in Tasks : k = [Idle EXCEPT !.at = "touch", !.kind = "hand"]
    BY <2>1
  <2>3. k.at = "touch" /\ k.kind = "hand"
    BY <2>2 DEF Idle
  <2>4. JobFits(k, status, row, authority, stale)
    BY <2>3 DEF JobFits, Current, Trusted
  <2> QED
    BY <1>2, <2>2, <2>4 DEF Starts
<1>3. CASE refreshLobbyFromWc3stats(j)
  <2>1. [Idle EXCEPT !.at = "import", !.kind = "import", !.asof = authority, !.view = Stored.seat]
           \in Tasks
    <3>1. authority \in 0 .. MaxMarks /\ Stored.seat \in Seatings
      BY MarksBound, RowsRead DEF SeatsInv, Types, Stored, Rosters
    <3> QED
      BY <3>1, IdleTyped DEF Tasks, Steps, Kinds
  <2>2. PICK k \in Tasks :
           k = [Idle EXCEPT !.at = "import", !.kind = "import", !.asof = authority,
                            !.view = Stored.seat]
    BY <2>1
  <2>3. /\ k.at = "import" /\ k.kind = "import" /\ k.asof = authority /\ k.mode = "PENDING"
        /\ k.view = matchToLobbyPlayers(row).seat
    BY <2>2 DEF Idle, Stored
  <2>4. status = "PENDING"
    BY <1>3 DEF refreshLobbyFromWc3stats
  <2>5. JobFits(k, status, row, authority, stale) /\ NotMarking(k)
    BY <2>3, <2>4 DEF JobFits, Current, Trusted, NotMarking, ByHand
  <2> QED
    BY <1>3, <2>2, <2>4, <2>5 DEF Starts, refreshLobbyFromWc3stats
<1> QED
  BY <1>1, <1>2, <1>3 DEF refreshLobbyFromScreenshot, resolvePendingMatchForManage

-----------------------------------------------------------------------------
(* Commands, buttons, menus. *)

(* What a command, a button, a menu or a form does: a menu changes, a job is *)
(* begun, or both.                                                           *)
Turned(j) == PagesFit(page') /\ OnlyJobs /\ (UNCHANGED job \/ Starts(j))

LEMMA TurnedKeeps ==
    ASSUME SeatsInv, NEW j \in Jobs, Turned(j)
    PROVE  SeatsInv'
BY StartsKeeps, PagesKeep DEF Turned

LEMMA CommandTurns ==
    ASSUME SeatsInv, NEW j \in Jobs, execute(j)
    PROVE  Turned(j)
<1>1. rosterCommands(j) \/ hostCommands(j) \/ refreshCommands(j)
  BY DEF execute
<1>2. Starts(j)
  BY <1>1, RosterStarts, LocksStart, BalanceStarts, LifecycleStarts, RefreshStarts
     DEF rosterCommands, hostCommands, refreshCommands
<1> QED
  BY <1>2, PagesStay DEF execute, Turned

LEMMA OpensTurns ==
    ASSUME SeatsInv, NEW u \in Users, NEW button, NEW at \in Menus,
           NEW options \in SUBSET (Slots \cup Sides \cup {0}), PageFits([at |-> at, options |-> options]),
           Opens(u, button, at, options)
    PROVE  PagesFit(page') /\ OnlyJobs /\ UNCHANGED job
<1>1. PICK g \in Pages : g = [at |-> at, options |-> options, pick |-> 0]
  BY DEF Pages
<1>2. PageFits(g)
  BY <1>1 DEF PageFits
<1>3. PagesFit(page')
  BY <1>1, <1>2 DEF Opens, PagesFit, SeatsInv, Types
<1> QED
  BY <1>3 DEF Opens

LEMMA LeadsTurns ==
    ASSUME SeatsInv, NEW u \in Users, NEW from, NEW at \in Menus, NEW pick,
           NEW options \in SUBSET (Slots \cup Sides \cup {0}), PageFits([at |-> at, options |-> options]),
           Leads(u, from, at, options, pick)
    PROVE  PagesFit(page') /\ OnlyJobs /\ UNCHANGED job
<1>1. page[u].options \subseteq Slots \cup Sides \cup {0}
  BY DEF SeatsInv, Types, Pages
<1>2. PICK g \in Pages : g = [at |-> at, options |-> options, pick |-> pick]
  BY <1>1 DEF Pages, Leads
<1>3. PageFits(g)
  BY <1>2 DEF PageFits
<1>4. PagesFit(page')
  BY <1>2, <1>3 DEF Leads, PagesFit, SeatsInv, Types
<1> QED
  BY <1>4 DEF Leads

LEMMA ClosesPages ==
    ASSUME SeatsInv, NEW u \in Users, NEW from, Closes(u, from)
    PROVE  PagesFit(page') /\ OnlyJobs
<1>1. NoPage \in Pages /\ PageFits(NoPage)
  BY DEF NoPage, Pages, PageFits, Menus
<1> QED
  BY <1>1 DEF Closes, PagesFit, SeatsInv, Types

LEMMA ButtonTurns ==
    ASSUME SeatsInv, NEW u \in Users, NEW j \in Jobs, handleButton(u, j)
    PROVE  Turned(j)
<1> USE DEF Menus
<1>1. Occupied(Stored) \in SUBSET (Slots \cup Sides \cup {0})
  BY DEF Occupied
<1>2. CASE handleEditNick(u)
  BY <1>1, <1>2, OpensTurns DEF handleEditNick, PageFits, Turned
<1>3. CASE handleMove(u)
  BY <1>1, <1>3, OpensTurns DEF handleMove, PageFits, Turned
<1>4. CASE handleRemove(u)
  BY <1>1, <1>4, OpensTurns DEF handleRemove, PageFits, Turned
<1>5. CASE handleLockToggleEntry(u)
  BY <1>1, <1>5, OpensTurns DEF handleLockToggleEntry, PageFits, Turned
<1>6. CASE handleAdd(u)
  <2>1. addTeamSelectOptions \in SUBSET (Slots \cup Sides \cup {0})
    BY DEF addTeamSelectOptions
  <2> QED
    BY <1>6, <2>1, OpensTurns DEF handleAdd, PageFits, Turned
<1>7. CASE handleClaim(u)
  <2>1. claimSlotSelectOptions \in SUBSET Slots
    BY DEF claimSlotSelectOptions
  <2> QED
    BY <1>7, <2>1, OpensTurns DEF handleClaim, PageFits, Turned
<1>8. CASE handleReportFromFile(u)
  BY <1>8, OpensTurns DEF handleReportFromFile, PageFits, Turned
<1>9. CASE handleCancelEntry(u)
  BY <1>9, OpensTurns DEF handleCancelEntry, PageFits, Turned
<1>10. CASE handleLeave(j) \/ handleBalance(j) \/ handleRefresh(j) \/ handleStart(j)
  <2>1. Starts(j)
    BY <1>10, RosterStarts, BalanceStarts, RefreshStarts, LifecycleStarts
       DEF handleLeave, handleBalance, handleRefresh, handleStart
  <2>2. UNCHANGED page /\ OnlyJobs
    BY <1>10 DEF handleLeave, handleBalance, handleRefresh, handleStart, Acts
  <2> QED
    BY <2>1, <2>2, PagesStay DEF Turned
<1>11. CASE handleCancelConfirm(u, j)
  BY <1>11, ClosesPages, LifecycleStarts DEF handleCancelConfirm, Turned
<1>12. CASE handleCancelKeep(u)
  BY <1>12, ClosesPages DEF handleCancelKeep, Turned
<1> QED
  BY <1>2, <1>3, <1>4, <1>5, <1>6, <1>7, <1>8, <1>9, <1>10, <1>11, <1>12 DEF handleButton

LEMMA SelectTurns ==
    ASSUME SeatsInv, NEW u \in Users, NEW j \in Jobs, handleSelect(u, j)
    PROVE  Turned(j)
<1>1. Stored \in Rosters /\ PageFits(page[u]) /\ page[u] \in Pages
  BY RowsRead DEF SeatsInv, Types, Stored
<1>2. CASE handleSelectEditNick(u)
  <2>1. PICK s \in Occupied(Stored) : Leads(u, "edit nick", "nick", Slots, s)
    BY <1>2 DEF handleSelectEditNick
  <2> QED
    BY <2>1, LeadsTurns DEF PageFits, Menus, Turned
<1>3. CASE handleSelectMovePlayer(u)
  <2>1. PICK s \in Occupied(Stored) :
           Leads(u, "move", "destination", destinationSlotSelectOptions(s), s)
    BY <1>3 DEF handleSelectMovePlayer
  <2>2. destinationSlotSelectOptions(s) \subseteq Slots \cup {0}
    BY DEF destinationSlotSelectOptions, teamBasedDestinationOptions, Occupied
  <2>3. destinationSlotSelectOptions(s) \in SUBSET (Slots \cup Sides \cup {0})
    BY <2>2
  <2> QED
    BY <2>1, <2>2, <2>3, LeadsTurns DEF PageFits, Menus, Turned
<1>4. CASE handleSelectMoveSlot(u, j)
  <2>1. PICK choice \in page[u].options :
           \E to \in resolveDestinationSlot(page[u].pick, choice) :
              applyRosterUpdateForMessage(j, movePlayer(Stored, page[u].pick, to))
    BY <1>4 DEF handleSelectMoveSlot
  <2>2. page[u].at = "destination" /\ choice \in Slots \cup {0}
    BY <1>1, <1>4 DEF handleSelectMoveSlot, Closes, PageFits
  <2>3. resolveDestinationSlot(page[u].pick, choice) \subseteq Slots
    BY <2>2, EmptySeatTyped DEF resolveDestinationSlot
  <2>4. PICK to \in Slots : applyRosterUpdateForMessage(j, movePlayer(Stored, page[u].pick, to))
    BY <2>1, <2>3
  <2>5. movePlayer(Stored, page[u].pick, to) \subseteq Rosters
    BY <1>1, MoveTyped
  <2> QED
    BY <1>4, <2>4, <2>5, MessageStarts, ClosesPages DEF handleSelectMoveSlot, Turned
<1>5. CASE handleSelectRemove(u, j)
  <2>1. PICK s : applyRosterUpdateForMessage(j, removePlayer(Stored, s))
    BY <1>5 DEF handleSelectRemove
  <2>2. removePlayer(Stored, s) \subseteq Rosters
    BY <1>1, RemoveTyped
  <2> QED
    BY <1>5, <2>1, <2>2, MessageStarts, ClosesPages DEF handleSelectRemove, Turned
<1>6. CASE handleSelectAddTeam(u)
  <2>1. PICK t \in addTeamSelectOptions : Leads(u, "team", "add", Slots, t)
    BY <1>6 DEF handleSelectAddTeam
  <2> QED
    BY <2>1, LeadsTurns DEF PageFits, Menus, Turned
<1>7. CASE handleSelectClaim(u, j)
  <2>1. page[u].options \subseteq Slots
    BY <1>1, <1>7 DEF handleSelectClaim, Closes, PageFits
  <2>2. PICK s \in Slots : claimLobbySlot(j, s)
    BY <1>7, <2>1 DEF handleSelectClaim
  <2> QED
    BY <1>7, <2>2, ClaimStarts, ClosesPages DEF handleSelectClaim, Turned
<1>8. CASE handleSelectLock(u, j)
  <2>1. PICK S \in SUBSET page[u].options, mode \in {"slot", "side"} : setLobbyLockedSlots(j, S, mode)
    BY <1>8 DEF handleSelectLock
  <2>2. S \in SUBSET Slots
    BY <2>1 DEF setLobbyLockedSlots, Occupied
  <2>3. Starts(j)
    BY <2>1, <2>2, LocksStart
  <2> QED
    BY <1>8, <2>3, ClosesPages DEF handleSelectLock, Turned
<1> QED
  BY <1>2, <1>3, <1>4, <1>5, <1>6, <1>7, <1>8 DEF handleSelect

LEMMA ModalTurns ==
    ASSUME SeatsInv, NEW u \in Users, NEW j \in Jobs, handleModal(u, j)
    PROVE  Turned(j)
<1>1. Stored \in Rosters
  BY RowsRead DEF SeatsInv, Types, Stored
<1>2. CASE handleModalEditNick(u, j)
  <2>1. PICK q \in Players :
           applyRosterUpdateForMessage(j, editPlayerNick(Stored, page[u].pick, q))
    BY <1>2 DEF handleModalEditNick
  <2>2. editPlayerNick(Stored, page[u].pick, q) \subseteq Rosters
    BY <1>1, RenameTyped
  <2> QED
    BY <1>2, <2>1, <2>2, MessageStarts, ClosesPages DEF handleModalEditNick, Turned
<1>3. CASE handleModalAdd(u, j)
  <2>1. PICK s \in Slots, p \in Players : applyRosterUpdateForMessage(j, addPlayer(Stored, p, s))
    BY <1>3, EmptySeatTyped DEF handleModalAdd
  <2>2. addPlayer(Stored, p, s) \subseteq Rosters
    BY <1>1, AddTyped
  <2> QED
    BY <1>3, <2>1, <2>2, MessageStarts, ClosesPages DEF handleModalAdd, Turned
<1>4. CASE handleModalReportFile(u, j)
  BY <1>4, RosterStarts, ClosesPages DEF handleModalReportFile, Turned
<1> QED
  BY <1>2, <1>3, <1>4 DEF handleModal

LEMMA RegisterKeeps ==
    ASSUME SeatsInv, NEW j \in Jobs,
           registerLobby(j) \/ handleOpen(j) \/ recreateLobbyFromVoidedMatch(j)
    PROVE  SeatsInv'
<1>1. Types /\ Unopened /\ SeatsApart
  BY DEF SeatsInv
<1>2. CASE registerLobby(j) \/ handleOpen(j)
  <2>1. \A i \in Jobs : job[i] = Idle
    BY <1>1, <1>2 DEF registerLobby, handleOpen, Unopened
  <2>2. PICK r \in Readable \cup {Empty}, mark \in {0, 1}, game \in BOOLEAN :
           createPendingMatch(j, r, mark, game)
    BY <1>2 DEF registerLobby, handleOpen, createMatchFromWc3statsLobby, registerForEvent,
                replyWithWos2ReportLobby, registerForGame, BothTeams, tryExtractLobbyPlayers,
                extractWc3statsRoster
  <2>3. r \in Rosters /\ assertValidSlots(r)
    BY ReadableFit, EmptyFit
  <2> QED
    BY <2>1, <2>2, <2>3, CreateKeeps
<1>3. CASE recreateLobbyFromVoidedMatch(j)
  <2>1. PICK r \in Rosters, game \in BOOLEAN :
           r = Stored /\ createPendingMatch(j, r, 0, game)
    BY <1>1, <1>3, RowsRead DEF recreateLobbyFromVoidedMatch, Types, Stored
  <2>2. "inside" \notin stale => assertValidSlots(r)
    BY <1>1, <2>1 DEF SeatsApart
  <2>3. \A i \in Jobs : job[i] = Idle
    BY <1>3 DEF recreateLobbyFromVoidedMatch
  <2> QED
    BY <2>1, <2>2, <2>3, CreateKeeps
<1> QED
  BY <1>2, <1>3

-----------------------------------------------------------------------------
(* The theorems. *)

LEMMA SeatsInit == Init => SeatsInv
<1> SUFFICES ASSUME Init PROVE SeatsInv
  OBVIOUS
<1>1. NoPage \in Pages /\ PageFits(NoPage)
  BY DEF NoPage, Pages, PageFits, Menus
<1>2. row \in Rows /\ RowsFit(row)
  BY DEF Init, Rows, RowsFit, NoRow, In
<1>3. Types
  BY <1>1, <1>2, IdleTyped DEF Init, Types, Statuses
<1>4. MarksLeft
  <2>1. Marking = {} /\ authority = 0
    BY DEF Init, Marking, Idle
  <2>2. Cardinality(Marking) = 0
    BY <2>1, FS_EmptySet
  <2> QED
    BY <2>1, <2>2, Limits DEF MarksLeft
<1>5. JobsFit
  BY IdleFits DEF Init, JobsFit
<1>6. SeatsApart
  BY DEF Init, SeatsApart, Stored, assertValidSlots, matchToLobbyPlayers, NoRow
<1>7. Unopened /\ StartedWhole /\ Shown
  BY DEF Init, Unopened, StartedWhole, Shown
<1> QED
  BY <1>3, <1>4, <1>5, <1>6, <1>7 DEF SeatsInv

LEMMA SeatsStep == SeatsInv /\ [Next]_vars => SeatsInv'
<1> SUFFICES ASSUME SeatsInv, [Next]_vars PROVE SeatsInv'
  OBVIOUS
<1>1. CASE UNCHANGED vars
  BY <1>1, PagesKeep, PagesStay DEF vars, OnlyJobs
<1>2. CASE Next
  <2>1. PICK j \in Jobs :
          \/ registerLobby(j) \/ handleOpen(j) \/ attachDiscordMessage(j)
          \/ recreateLobbyFromVoidedMatch(j) \/ execute(j)
          \/ \E u \in Users : handleButton(u, j) \/ handleSelect(u, j) \/ handleModal(u, j)
          \/ replaceMatchRoster(j) \/ applyRosterAndSync(j) \/ syncLobbyDiscordMessage(j)
          \/ setMatchPlayersLocked(j) \/ touchLobbyRosterAuthority(j)
          \/ importAndMaybeLinkWc3stats(j) \/ SetStatus(j) \/ GiveUp(j)
    BY <1>2 DEF Next
  <2>2. CASE registerLobby(j) \/ handleOpen(j) \/ recreateLobbyFromVoidedMatch(j)
    BY <2>2, RegisterKeeps
  <2>3. CASE execute(j)
    BY <2>3, CommandTurns, TurnedKeeps
  <2>4. CASE \E u \in Users : handleButton(u, j) \/ handleSelect(u, j) \/ handleModal(u, j)
    BY <2>4, ButtonTurns, SelectTurns, ModalTurns, TurnedKeeps
  <2>5. CASE attachDiscordMessage(j) \/ syncLobbyDiscordMessage(j)
    BY <2>5, AttachKeeps, SyncKeeps
  <2>6. CASE replaceMatchRoster(j) \/ GiveUp(j) \/ importAndMaybeLinkWc3stats(j)
    BY <2>6, ReplaceKeeps, GiveUpKeeps, ImportKeeps
  <2>7. CASE applyRosterAndSync(j) \/ setMatchPlayersLocked(j)
    BY <2>7, ApplyKeeps, LockKeeps
  <2>8. CASE touchLobbyRosterAuthority(j) \/ SetStatus(j)
    BY <2>8, TouchKeeps, StatusKeeps
  <2> QED
    BY <2>1, <2>2, <2>3, <2>4, <2>5, <2>6, <2>7, <2>8
<1> QED
  BY <1>1, <1>2

(* What is stored and what each edit under way holds agree, at every step    *)
(* (match-service.ts, lobby/actions.ts).                                     *)
THEOREM SeatsInvariant == Spec => []SeatsInv
BY SeatsInit, SeatsStep, PTL DEF Spec

(* A roster is fit to be played whenever it is stored: well typed, one       *)
(* player a seat unless transactions overlapped, and on both teams in a      *)
(* started match unless an edit came between the look and the write.         *)
THEOREM SeatsAreSound == Spec => []SeatsSound
<1>1. SeatsInv => TypeOK
  <2> SUFFICES ASSUME SeatsInv PROVE TypeOK
    OBVIOUS
  <2>1. Types /\ authority \in 0 .. MaxMarks
    BY MarksBound DEF SeatsInv
  <2>2. \A j \in Jobs : job[j] \in Tasks
    BY <2>1 DEF Types
  <2>3. \A p \in Players : ~(row[p].locked /\ row[p].sideLocked) /\ (row[p].slot = None => row[p] = NoRow)
    BY <2>1 DEF Types, RowsFit, In
  <2> QED
    BY <2>1, <2>2, <2>3 DEF TypeOK, Types, Pages, Shows, Tasks
<1>2. SeatsInv => SeatsSound
  BY <1>1 DEF SeatsInv, SeatsSound
<1> QED
  BY <1>2, SeatsInvariant, PTL

(* Once every edit is done the message shows what is stored, unless it was   *)
(* drawn over something newer or could not be drawn, a status was set inside *)
(* a rewrite, or locks were set on a lobby no longer open.                   *)
THEOREM MessageShowsStored == Spec => []ShownAsStored
<1>1. SeatsInv => ShownAsStored
  <2> SUFFICES ASSUME SeatsInv, status # "none", \A j \in Jobs : job[j] = Idle, Unexcused(stale)
               PROVE  message = [mode |-> status, seat |-> Stored.seat]
    BY DEF ShownAsStored, Unexcused
  <2>1. \A j \in Jobs : job[j].at = "idle"
    BY DEF Idle
  <2> QED
    BY <2>1 DEF SeatsInv, Shown, Drawing, buildMatchLobbyEmbed
<1> QED
  BY <1>1, SeatsInvariant, PTL

(* Only the step that stores a rewrite takes an edit from its rows to its    *)
(* drawing.                                                                  *)
LEMMA OnlyApplyRewrites ==
    ASSUME SeatsInv, [Next]_vars, NEW j \in Jobs, Rewrites(j)
    PROVE  applyRosterAndSync(j)
<1>1. job \in [Jobs -> Tasks] /\ job[j].at = "commit" /\ job'[j].at = "sync"
  BY DEF Rewrites, SeatsInv, Types
<1>2. ASSUME NEW i \in Jobs, NEW k, Begin(i, k)
      PROVE  FALSE
  <2>1. i # j /\ job' = [job EXCEPT ![i] = k]
    BY <1>1, <1>2 DEF Begin, Idle
  <2> QED
    BY <1>1, <2>1
<1>3. ASSUME NEW i \in Jobs, NEW k, i # j, job' = [job EXCEPT ![i] = k]
      PROVE  FALSE
  BY <1>1, <1>3
<1>4. ASSUME NEW i \in Jobs, NEW k, i # j, Written(i, k)
      PROVE  FALSE
  <2>1. job[j] \in Tasks /\ job'[j] = IF job[j] = Idle THEN Idle ELSE [job[j] EXCEPT !.fresh = FALSE]
    BY <1>1, <1>4 DEF Written
  <2>2. job'[j].at = job[j].at
    BY <2>1 DEF Tasks
  <2> QED
    BY <1>1, <2>2
<1>5. ~UNCHANGED job
  BY <1>1
<1>6. CASE UNCHANGED vars
  BY <1>5, <1>6 DEF vars
<1>7. CASE Next
  <2>1. PICK i \in Jobs :
          \/ registerLobby(i) \/ handleOpen(i) \/ attachDiscordMessage(i)
          \/ recreateLobbyFromVoidedMatch(i) \/ execute(i)
          \/ \E u \in Users : handleButton(u, i) \/ handleSelect(u, i) \/ handleModal(u, i)
          \/ replaceMatchRoster(i) \/ applyRosterAndSync(i) \/ syncLobbyDiscordMessage(i)
          \/ setMatchPlayersLocked(i) \/ touchLobbyRosterAuthority(i)
          \/ importAndMaybeLinkWc3stats(i) \/ SetStatus(i) \/ GiveUp(i)
    BY <1>7 DEF Next
  <2>2. CASE registerLobby(i) \/ handleOpen(i) \/ recreateLobbyFromVoidedMatch(i)
    BY <2>2, <1>2 DEF registerLobby, handleOpen, recreateLobbyFromVoidedMatch, registerForEvent,
                      replyWithWos2ReportLobby, registerForGame, createPendingMatch,
                      createMatchFromWc3statsLobby
  <2>3. CASE execute(i) \/ \E u \in Users : handleButton(u, i) \/ handleSelect(u, i) \/ handleModal(u, i)
    <3>1. Turned(i)
      BY <2>3, CommandTurns, ButtonTurns, SelectTurns, ModalTurns
    <3> QED
      BY <3>1, <1>2, <1>5 DEF Turned, Starts
  <2>4. CASE attachDiscordMessage(i) \/ syncLobbyDiscordMessage(i) \/ GiveUp(i)
    <3>1. job' = [job EXCEPT ![i] = Idle]
      BY <2>4 DEF attachDiscordMessage, syncLobbyDiscordMessage, GiveUp
    <3>2. i # j
      BY <1>1, <3>1 DEF Idle
    <3> QED
      BY <3>1, <3>2, <1>3
  <2>5. CASE replaceMatchRoster(i)
    <3>1. i # j /\ \E k : job' = [job EXCEPT ![i] = k]
      BY <1>1, <2>5 DEF replaceMatchRoster
    <3> QED
      BY <3>1, <1>3
  <2>6. CASE importAndMaybeLinkWc3stats(i)
    <3>1. i # j /\ \E k : job' = [job EXCEPT ![i] = k]
      BY <1>1, <2>6 DEF importAndMaybeLinkWc3stats, applyWc3statsRefresh
    <3> QED
      BY <3>1, <1>3
  <2>7. CASE setMatchPlayersLocked(i) \/ touchLobbyRosterAuthority(i) \/ SetStatus(i)
    <3>1. i # j /\ \E k : Written(i, k)
      BY <1>1, <2>7 DEF setMatchPlayersLocked, touchLobbyRosterAuthority, SetStatus
    <3> QED
      BY <3>1, <1>4
  <2>8. CASE applyRosterAndSync(i)
    <3>1. CASE i = j
      BY <2>8, <3>1
    <3>2. CASE i # j
      BY <2>8, <3>2, <1>4 DEF applyRosterAndSync
    <3> QED
      BY <3>1, <3>2
  <2> QED
    BY <2>1, <2>2, <2>3, <2>4, <2>5, <2>6, <2>7, <2>8
<1> QED
  BY <1>6, <1>7

(* What a rewrite has read when nobody wrote meanwhile.                      *)
LEMMA ReadWhole ==
    ASSUME SeatsInv, NEW j \in Jobs, applyRosterAndSync(j), "inside" \notin stale'
    PROVE  /\ job[j].at = "commit" /\ row' = Replaced(j) /\ job[j].prev = row
           /\ Current(job[j], status, row, authority, stale) /\ stale' = stale
<1>1. JobFits(job[j], status, row, authority, stale)
  BY DEF SeatsInv, JobsFit
<1>2. job[j].fresh /\ job[j].at = "commit" /\ row' = Replaced(j) /\ stale' = stale
  BY DEF applyRosterAndSync, Noting
<1> QED
  BY <1>1, <1>2 DEF JobFits, Current

(* A rewrite adds no lock, drops one only with the player's seat or by the   *)
(* edit itself, and balancing moves no locked player (locked-slots.ts,       *)
(* lobby-balance.ts).                                                        *)
THEOREM LocksStay == Spec => LocksKept
<1>1. ASSUME SeatsInv, [Next]_vars, NEW j \in Jobs, Rewrites(j), "inside" \notin stale'
      PROVE  KeepsLocks(j)
  <2>1. applyRosterAndSync(j)
    BY <1>1, OnlyApplyRewrites
  <2>2. /\ row' = Replaced(j) /\ job[j].prev = row /\ job[j].at = "commit" /\ stale' = stale
        /\ Current(job[j], status, row, authority, stale)
    BY <1>1, <2>1, ReadWhole
  <2>3. job[j].kind = "balance" /\ "roster" \notin stale' => RespectsLocks(job[j].next.seat, row)
    BY <2>2 DEF Current, Trusted
  <2> SUFFICES ASSUME NEW p \in Players, In(row', p)
               PROVE  /\ row'[p].locked => row[p].locked /\ row'[p].slot = row[p].slot
                      /\ row'[p].sideLocked => row[p].sideLocked /\ Side[row'[p].slot] = Side[row[p].slot]
                      /\ row[p].locked /\ row'[p].slot = row[p].slot
                            => row'[p].locked \/ p \in job[j].next.freed
                      /\ job[j].kind = "balance" /\ "roster" \notin stale' =>
                            /\ (row[p].locked => row'[p].slot = row[p].slot)
                            /\ (row[p].sideLocked => Side[row'[p].slot] = Side[row[p].slot])
    BY DEF KeepsLocks
  <2>4. row'[p] = NextRow(j, p) /\ row'[p].slot = job[j].next.seat[p]
    <3>1. row'[p] = IF job[j].next.seat[p] = None THEN NoRow ELSE NextRow(j, p)
      BY <1>1, <2>2, ReplacedWhole DEF SeatsInv
    <3> QED
      BY <3>1 DEF In, NoRow, NextRow
  <2>5. /\ row'[p].locked => /\ row[p].locked /\ row[p].slot = job[j].next.seat[p]
        /\ row'[p].sideLocked => row[p].sideLocked /\ Side[row[p].slot] = Side[job[j].next.seat[p]]
        /\ row[p].locked /\ row[p].slot = job[j].next.seat[p]
              => row'[p].locked \/ p \in job[j].next.freed
    <3>1. row[p] \in [slot : Slots \cup {None}, locked : BOOLEAN, sideLocked : BOOLEAN]
      BY <1>1 DEF SeatsInv, Types, Rows
    <3>2. /\ row'[p].locked = reconcileMatchPlayerLocked(j, p)
          /\ row'[p].sideLocked = (~reconcileMatchPlayerLocked(j, p) /\ reconcileMatchPlayerSideLocked(j, p))
      BY <2>4 DEF NextRow
    <3> QED
      BY <2>2, <3>1, <3>2 DEF reconcileMatchPlayerLocked, reconcileMatchPlayerSideLocked
  <2>6. job[j].kind = "balance" /\ "roster" \notin stale' =>
           /\ row[p].locked => row'[p].slot = row[p].slot
           /\ row[p].sideLocked => Side[row'[p].slot] = Side[row[p].slot]
    <3>1. row[p] = NoRow \/ In(row, p)
      BY <1>1 DEF SeatsInv, Types, RowsFit
    <3> QED
      BY <2>3, <2>4, <3>1 DEF RespectsLocks, NoRow
  <2> QED
    BY <2>4, <2>5, <2>6
<1>2. SeatsInv /\ [Next]_vars =>
         [\A j \in Jobs : Rewrites(j) /\ "inside" \notin stale' => KeepsLocks(j)]_vars
  BY <1>1
<1> QED
  BY <1>2, SeatsInvariant, PTL DEF Spec, LocksKept

(* The game's list replaces the roster only if it was seen after the last    *)
(* edit made by hand, unless that edit came between its reading and its      *)
(* writing (wc3stats-freshness.ts).                                          *)
THEOREM ListsGiveWay == Spec => ImportsFresh
<1>1. ASSUME SeatsInv, [Next]_vars, NEW j \in Jobs, Rewrites(j), job[j].kind = "import",
             stale' \cap {"roster", "inside"} = {}
      PROVE  authority = 0 \/ (job[j].seen # None /\ job[j].seen >= authority)
  <2>1. applyRosterAndSync(j)
    BY <1>1, OnlyApplyRewrites
  <2>2. job[j].at = "commit" /\ stale' = stale /\ Current(job[j], status, row, authority, stale)
    BY <1>1, <2>1, ReadWhole
  <2> QED
    BY <1>1, <2>2 DEF Current, Trusted
<1>2. SeatsInv /\ [Next]_vars =>
         [\A j \in Jobs :
             Rewrites(j) /\ job[j].kind = "import" /\ stale' \cap {"roster", "inside"} = {}
                => authority = 0 \/ (job[j].seen # None /\ job[j].seen >= authority)]_vars
  BY <1>1
<1> QED
  BY <1>2, SeatsInvariant, PTL DEF Spec, ImportsFresh

-----------------------------------------------------------------------------
(* Hosts asked to open a lobby.                                              *)

USE PromptAssumption

(* A tick that posts knows which game it asks about and has room for one   *)
(* more; a message that was posted is about a game; a handler knows the    *)
(* message whose button was pressed.                                       *)
TickOK(t) ==
    tick[t].at \in {"post", "record"} => tick[t].game \in Games /\ tick[t].posted < MaxPerTick
MsgOK(i) == msg[i].shows # "nothing" => msg[i].game \in Games
ClickOK(k) ==
    click[k] # NoClick =>
        click[k].msg \in Messages /\ msg[click[k].msg].shows # "nothing"

TypeInv ==
    /\ PromptTypeOK
    /\ \A t \in Ticks : TickOK(t)
    /\ \A i \in Messages : MsgOK(i)
    /\ \A k \in Clicks : ClickOK(k)

-----------------------------------------------------------------------------
LEMMA IdleTypes ==
    NoTick \in TickStates /\ NoMsg \in MsgStates /\ NoLobby \in LobbyStates
      /\ NoClick \in ClickStates /\ NoCommand \in Commands
BY DEF NoTick, TickStates, NoMsg, MsgStates, NoLobby, LobbyStates, NoClick, ClickStates,
       NoCommand, Commands

LEMMA SettingType ==
    ASSUME setting \in Settings
    PROVE  setting.games \subseteq Games /\ setting.config \in Configs /\ ChannelsMatch(setting.config)
OBVIOUS

LEMMA InitType == PromptInit => TypeInv
<1>. SUFFICES ASSUME PromptInit PROVE TypeInv
  OBVIOUS
<1>1. PromptTypeOK
  BY IdleTypes, SettingType DEF PromptInit, PromptTypeOK
<1>2. \A t \in Ticks : TickOK(t)
  BY DEF PromptInit, TickOK, NoTick
<1>3. \A i \in Messages : MsgOK(i)
  BY DEF PromptInit, MsgOK, NoMsg
<1>4. \A k \in Clicks : ClickOK(k)
  BY DEF PromptInit, ClickOK
<1>. QED
  BY <1>1, <1>2, <1>3, <1>4 DEF TypeInv

(* A step that leaves ticks, messages and handlers alone.                  *)
LEMMA OtherType ==
    ASSUME TypeInv, PromptTypeOK', UNCHANGED <<tick, msg, click>>
    PROVE  TypeInv'
BY DEF TypeInv, TickOK, MsgOK, ClickOK

(* A step of one tick, by what the tick becomes.                           *)
LEMMA TickType ==
    ASSUME TypeInv, NEW t \in Ticks, NEW new \in TickStates,
           new.at \in {"post", "record"} => new.game \in Games /\ new.posted < MaxPerTick,
           tick' = [tick EXCEPT ![t] = new], prompted' \subseteq Games,
           failures' \in 0..MaxFailures,
           UNCHANGED <<config, worldVars, chatVars, admin, restarts, setting>>
    PROVE  TypeInv'
<1>1. PromptTypeOK'
  BY DEF TypeInv, PromptTypeOK, worldVars, chatVars
<1>2. \A u \in Ticks : TickOK(u)'
  BY DEF TypeInv, PromptTypeOK, TickOK
<1>. QED
  BY <1>1, <1>2 DEF TypeInv, MsgOK, ClickOK, chatVars

LEMMA TickSteps ==
    ASSUME TypeInv, NEW t \in Ticks, StartTick(t) \/ TickStep(t) \/ FailTick(t)
    PROVE  TypeInv'
<1>. DEFINE old == tick[t]
<1>0. /\ old \in TickStates /\ TickOK(t) /\ prompted \subseteq Games /\ config \in Configs
      /\ listed \subseteq Games /\ willing \subseteq Games /\ failures \in 0..MaxFailures
  BY DEF TypeInv, PromptTypeOK
<1>1. CASE StartTick(t)
  <2>1. [NoTick EXCEPT !.at = "fetch", !.channel = config.prompt] \in TickStates
    BY <1>0, IdleTypes DEF TickStates, NoTick, Configs
  <2>. QED
    BY <1>0, <1>1, <2>1, TickType DEF StartTick, NoTick, faultVars
<1>2. CASE FetchGamelist(t)
  <2>. DEFINE new == [old EXCEPT !.at = "link", !.games = listed]
  <2>1. new \in TickStates /\ new.at = "link"
    BY <1>0 DEF TickStates
  <2>2. tick' = [tick EXCEPT ![t] = new]
    BY <1>2 DEF FetchGamelist, TypeInv, PromptTypeOK
  <2>. HIDE DEF new
  <2>. QED
    BY <1>0, <1>2, <2>1, <2>2, TickType DEF FetchGamelist, faultVars
<1>3. CASE LoadLinkedPlayers(t)
  <2>. DEFINE new == [old EXCEPT !.at = "next", !.games = filterGamelistForHostPrompt(old.games)]
  <2>1. new \in TickStates /\ new.at = "next"
    BY <1>0 DEF TickStates, filterGamelistForHostPrompt
  <2>2. tick' = [tick EXCEPT ![t] = new]
    BY <1>3 DEF LoadLinkedPlayers, TypeInv, PromptTypeOK
  <2>. HIDE DEF new
  <2>. QED
    BY <1>0, <1>3, <2>1, <2>2, TickType DEF LoadLinkedPlayers, faultVars
<1>4. CASE LookUp(t)
  <2>1. PICK g \in tick[t].games \ prompted :
          IF Active(g)
           THEN /\ prompted' = prompted \cup {g}
                /\ tick' = [tick EXCEPT ![t].games = @ \ {g}]
           ELSE /\ tick' = [tick EXCEPT ![t].at = "post", ![t].game = g,
                                        ![t].games = @ \ {g}]
                /\ UNCHANGED prompted
    BY <1>4 DEF LookUp
  <2>2. g \in Games
    BY <1>0, <2>1 DEF TickStates
  <2>3. CASE Active(g)
    <3>. DEFINE new == [old EXCEPT !.games = @ \ {g}]
    <3>1. new \in TickStates /\ new.at = "next"
      BY <1>0, <1>4 DEF TickStates, LookUp
    <3>2. tick' = [tick EXCEPT ![t] = new] /\ prompted' \subseteq Games
      BY <1>0, <2>1, <2>2, <2>3 DEF TypeInv, PromptTypeOK
    <3>. HIDE DEF new
    <3>. QED
      BY <1>0, <1>4, <3>1, <3>2, TickType DEF LookUp, faultVars
  <2>4. CASE ~Active(g)
    <3>. DEFINE new == [old EXCEPT !.at = "post", !.game = g, !.games = @ \ {g}]
    <3>1. new \in TickStates /\ new.game = g /\ new.posted < MaxPerTick
      BY <1>0, <1>4, <2>2 DEF TickStates, LookUp
    <3>2. tick' = [tick EXCEPT ![t] = new] /\ prompted' \subseteq Games
      BY <1>0, <2>1, <2>4 DEF TypeInv, PromptTypeOK
    <3>. HIDE DEF new
    <3>. QED
      BY <1>0, <1>4, <2>2, <3>1, <3>2, TickType DEF LookUp, faultVars
  <2>. QED
    BY <2>3, <2>4
<1>5. CASE Post(t)
  <2>1. FreshMessage \in Messages
    BY <1>5 DEF Post, FreshMessage
  <2>. DEFINE new == [old EXCEPT !.at = "record"]
              m == [NoMsg EXCEPT !.shows = "prompt", !.game = old.game,
                                 !.channel = old.channel, !.boot = restarts]
  <2>2. /\ new \in TickStates /\ new.game = old.game /\ new.posted = old.posted
        /\ m \in MsgStates /\ m.game = old.game /\ m.shows = "prompt"
    BY <1>0, IdleTypes DEF TickStates, MsgStates, NoMsg, TypeInv, PromptTypeOK
  <2>3. tick' = [tick EXCEPT ![t] = new] /\ msg' = [msg EXCEPT ![FreshMessage] = m]
    BY <1>5 DEF Post, TypeInv, PromptTypeOK
  <2>4. old.game \in Games /\ old.posted < MaxPerTick
    BY <1>0, <1>5 DEF Post, TickOK
  <2>. HIDE DEF new, m
  <2>5. PromptTypeOK'
    <3>1. tick' \in [Ticks -> TickStates] /\ msg' \in [Messages -> MsgStates]
      BY <2>2, <2>3 DEF TypeInv, PromptTypeOK
    <3>2. UNCHANGED <<config, willing, listed, prompted, lobby, click, admin, failures, restarts, setting>>
      BY <1>5 DEF Post, worldVars, faultVars
    <3>. QED
      BY <3>1, <3>2 DEF TypeInv, PromptTypeOK
  <2>6. \A u \in Ticks : TickOK(u)'
    BY <2>2, <2>3, <2>4 DEF TypeInv, PromptTypeOK, TickOK
  <2>7. \A i \in Messages : MsgOK(i)'
    BY <2>2, <2>3, <2>4 DEF TypeInv, PromptTypeOK, MsgOK
  <2>8. \A k \in Clicks : ClickOK(k)'
    BY <1>5, <2>1, <2>2, <2>3 DEF Post, TypeInv, PromptTypeOK, ClickOK
  <2>. QED
    BY <2>5, <2>6, <2>7, <2>8 DEF TypeInv
<1>6. CASE RecordPrompt(t)
  <2>. DEFINE new == [old EXCEPT !.at = "next", !.game = Nothing, !.posted = @ + 1]
  <2>1. old.game \in Games /\ old.posted < MaxPerTick
    BY <1>0, <1>6 DEF RecordPrompt, TickOK
  <2>2. new \in TickStates /\ new.at = "next"
    <3>1. old.posted + 1 \in 0..MaxPerTick
      BY <1>0, <2>1 DEF TickStates
    <3>. QED
      BY <1>0, <3>1 DEF TickStates
  <2>3. tick' = [tick EXCEPT ![t] = new] /\ prompted' \subseteq Games
    BY <1>0, <1>6, <2>1 DEF RecordPrompt, TypeInv, PromptTypeOK
  <2>. HIDE DEF new
  <2>. QED
    BY <1>0, <1>6, <2>2, <2>3, TickType DEF RecordPrompt, faultVars
<1>7. CASE EndTick(t)
  BY <1>0, <1>7, IdleTypes, TickType DEF EndTick, faultVars, NoTick
<1>8. CASE FailTick(t)
  <2>1. failures' \in 0..MaxFailures
    BY <1>0, <1>8 DEF FailTick
  <2>2. CASE tick' = [tick EXCEPT ![t] = NoTick]
    BY <1>0, <1>8, <2>1, <2>2, IdleTypes, TickType DEF FailTick, NoTick
  <2>3. CASE tick' = [tick EXCEPT ![t].at = "next", ![t].game = Nothing]
    <3>. DEFINE new == [old EXCEPT !.at = "next", !.game = Nothing]
    <3>1. new \in TickStates /\ new.at = "next"
      BY <1>0 DEF TickStates
    <3>2. tick' = [tick EXCEPT ![t] = new]
      BY <2>3 DEF TypeInv, PromptTypeOK
    <3>. HIDE DEF new
    <3>. QED
      BY <1>0, <1>8, <2>1, <3>1, <3>2, TickType DEF FailTick
  <2>. QED
    BY <1>8, <2>2, <2>3 DEF FailTick
<1>. QED
  BY <1>1, <1>2, <1>3, <1>4, <1>5, <1>6, <1>7, <1>8 DEF TickStep

-----------------------------------------------------------------------------
(* A step of one handler, which may redraw the message it is about.        *)
LEMMA ClickType ==
    ASSUME TypeInv, NEW k \in Clicks, NEW new \in ClickStates,
           new # NoClick => new.msg \in Messages /\ msg[new.msg].shows # "nothing",
           click' = [click EXCEPT ![k] = new],
           msg' \in [Messages -> MsgStates],
           \A i \in Messages :
               msg'[i].game = msg[i].game
                 /\ (msg'[i].shows = "nothing" <=> msg[i].shows = "nothing"),
           lobby' \in [Lobbies -> LobbyStates], prompted' \subseteq Games,
           failures' \in 0..MaxFailures,
           UNCHANGED <<config, willing, listed, tick, admin, restarts, setting>>
    PROVE  TypeInv'
<1>1. click' \in [Clicks -> ClickStates]
  BY DEF TypeInv, PromptTypeOK
<1>2. PromptTypeOK'
  BY <1>1 DEF TypeInv, PromptTypeOK
<1>3. \A j \in Clicks : ClickOK(j)'
  BY DEF TypeInv, PromptTypeOK, ClickOK
<1>4. \A i \in Messages : MsgOK(i)'
  BY DEF TypeInv, MsgOK
<1>. QED
  BY <1>2, <1>3, <1>4 DEF TypeInv, TickOK

LEMMA ClickSteps ==
    ASSUME TypeInv, NEW k \in Clicks,
           ClickStep(k) \/ FailClick(k)
             \/ \E i \in Messages : HandleOpen(k, i) \/ HandleDismiss(k, i)
    PROVE  TypeInv'
<1>. DEFINE old == click[k]
<1>0. /\ old \in ClickStates /\ ClickOK(k) /\ prompted \subseteq Games
      /\ failures \in 0..MaxFailures
      /\ msg \in [Messages -> MsgStates] /\ lobby \in [Lobbies -> LobbyStates]
      /\ click \in [Clicks -> ClickStates]
  BY DEF TypeInv, PromptTypeOK
<1>1. \A at \in {"edit", "attach", "create"} :
         /\ [old EXCEPT !.at = at] \in ClickStates
         /\ [old EXCEPT !.at = at].msg = old.msg
  BY <1>0 DEF ClickStates
<1>2. old.at # "idle" => old # NoClick /\ old.msg \in Messages /\ msg[old.msg].shows # "nothing"
                           /\ msg[old.msg].game \in Games
  BY <1>0 DEF ClickOK, NoClick, TypeInv, MsgOK
<1>3. ASSUME NEW i \in Messages, NEW at \in {"check", "delete"}, Press(k, i, at)
      PROVE  TypeInv'
  <2>. DEFINE new == [NoClick EXCEPT !.at = at, !.msg = i]
  <2>1. new \in ClickStates /\ new.msg = i
    BY DEF ClickStates, NoClick
  <2>2. click' = [click EXCEPT ![k] = new] /\ msg[i].shows = "prompt"
    BY <1>3 DEF Press
  <2>. HIDE DEF new
  <2>. QED
    BY <1>0, <1>3, <2>1, <2>2, ClickType DEF Press, worldVars, pollVars, faultVars
<1>4. CASE CheckCreate(k)
  <2>1. CASE Return(k)
    BY <1>0, <1>4, <2>1, IdleTypes, ClickType
    DEF CheckCreate, Return, worldVars, pollVars, faultVars
  <2>2. CASE Then(k, "create")
    <3>. DEFINE new == [old EXCEPT !.at = "create"]
    <3>1. click' = [click EXCEPT ![k] = new] /\ new \in ClickStates /\ new.msg = old.msg
      BY <1>0, <1>1, <2>2 DEF Then
    <3>. HIDE DEF new
    <3>. QED
      BY <1>0, <1>2, <1>4, <3>1, ClickType DEF CheckCreate, worldVars, pollVars, faultVars
  <2>. QED
    BY <1>4, <2>1, <2>2 DEF CheckCreate
<1>5. CASE CreatePendingMatch(k)
  <2>1. FreshLobby \in Lobbies
    BY <1>5 DEF CreatePendingMatch, FreshLobby
  <2>. DEFINE new == [old EXCEPT !.at = "edit", !.lobby = FreshLobby]
              l == [status |-> "active", game |-> msg[old.msg].game, message |-> Nothing]
  <2>2. new \in ClickStates /\ new.msg = old.msg /\ l \in LobbyStates
    BY <1>0, <1>2, <1>5, <2>1 DEF ClickStates, LobbyStates, CreatePendingMatch
  <2>3. click' = [click EXCEPT ![k] = new] /\ lobby' = [lobby EXCEPT ![FreshLobby] = l]
    BY <1>0, <1>5 DEF CreatePendingMatch
  <2>4. old.msg \in Messages /\ msg[old.msg].shows # "nothing"
    BY <1>2, <1>5 DEF CreatePendingMatch
  <2>. HIDE DEF new, l
  <2>5. lobby' \in [Lobbies -> LobbyStates]
    BY <1>0, <2>2, <2>3
  <2>. QED
    BY ZenonT(40), <1>0, <1>5, <2>2, <2>3, <2>4, <2>5, ClickType
    DEF CreatePendingMatch, worldVars, pollVars, faultVars
<1>6. CASE EditMessage(k)
  <2>0. old.msg \in Messages /\ msg[old.msg].shows # "nothing" /\ old.lobby \in Lobbies \cup {Nothing}
    BY <1>0, <1>2, <1>6 DEF EditMessage, ClickStates
  <2>1. CASE Return(k) /\ UNCHANGED msg
    BY <1>0, <1>6, <2>1, IdleTypes, ClickType
    DEF EditMessage, Return, worldVars, pollVars, faultVars
  <2>2. CASE /\ msg' = [msg EXCEPT ![old.msg].shows = "lobby", ![old.msg].lobby = old.lobby]
             /\ Then(k, "attach")
    <3>. DEFINE new == [old EXCEPT !.at = "attach"]
                m == [msg[old.msg] EXCEPT !.shows = "lobby", !.lobby = old.lobby]
    <3>1. click' = [click EXCEPT ![k] = new] /\ new \in ClickStates /\ new.msg = old.msg
      BY <1>0, <1>1, <2>2 DEF Then
    <3>2. msg' = [msg EXCEPT ![old.msg] = m]
      BY <1>0, <2>2
    <3>3. m \in MsgStates /\ m.game = msg[old.msg].game /\ m.shows = "lobby"
      <4>1. msg[old.msg] \in MsgStates
        BY <1>0, <2>0
      <4>. QED
        BY <2>0, <4>1 DEF MsgStates
    <3>. HIDE DEF new, m
    <3>4. /\ msg' \in [Messages -> MsgStates]
          /\ \A i \in Messages : msg'[i].game = msg[i].game
                 /\ (msg'[i].shows = "nothing" <=> msg[i].shows = "nothing")
      BY <1>0, <2>0, <3>2, <3>3
    <3>. QED
      BY <1>0, <1>6, <2>0, <3>1, <3>4, ClickType DEF EditMessage, worldVars, pollVars, faultVars
  <2>. QED
    BY <1>6, <2>1, <2>2 DEF EditMessage
<1>7. CASE AttachCreatedMatchMessage(k)
  <2>0. old.msg \in Messages /\ msg[old.msg].game \in Games
    BY <1>2, <1>7 DEF AttachCreatedMatchMessage
  <2>. DEFINE l == [lobby[old.lobby] EXCEPT !.message = old.msg]
  <2>1. lobby' = [lobby EXCEPT ![old.lobby] = l]
    BY <1>0, <1>7 DEF AttachCreatedMatchMessage
  <2>2. old.lobby \in Lobbies => l \in LobbyStates
    BY <1>0, <2>0 DEF LobbyStates
  <2>. HIDE DEF l
  <2>3. lobby' \in [Lobbies -> LobbyStates] /\ prompted' \subseteq Games
    BY ZenonT(40), <1>0, <1>7, <2>0, <2>1, <2>2 DEF AttachCreatedMatchMessage
  <2>. QED
    BY <1>0, <1>7, <2>3, IdleTypes, ClickType
    DEF AttachCreatedMatchMessage, Return, worldVars, faultVars
<1>8. CASE DeleteMessage(k)
  <2>0. old.msg \in Messages /\ msg[old.msg].shows # "nothing" /\ msg[old.msg].game \in Games
    BY <1>2, <1>8 DEF DeleteMessage
  <2>1. CASE UNCHANGED <<msg, prompted>>
    BY <1>0, <1>8, <2>1, IdleTypes, ClickType DEF DeleteMessage, Return, worldVars, faultVars
  <2>2. CASE /\ msg' = [msg EXCEPT ![old.msg].shows = "deleted"]
             /\ prompted' = prompted \cup {msg[old.msg].game}
    <3>. DEFINE m == [msg[old.msg] EXCEPT !.shows = "deleted"]
    <3>1. msg' = [msg EXCEPT ![old.msg] = m]
      BY <1>0, <2>2
    <3>2. m \in MsgStates /\ m.game = msg[old.msg].game /\ m.shows = "deleted"
      BY <1>0, <2>0 DEF MsgStates
    <3>. HIDE DEF m
    <3>3. /\ msg' \in [Messages -> MsgStates]
          /\ \A i \in Messages : msg'[i].game = msg[i].game
                 /\ (msg'[i].shows = "nothing" <=> msg[i].shows = "nothing")
      BY <1>0, <2>0, <3>1, <3>2
    <3>4. prompted' \subseteq Games
      BY <1>0, <2>0, <2>2
    <3>. QED
      BY <1>0, <1>8, <3>3, <3>4, IdleTypes, ClickType DEF DeleteMessage, Return, worldVars, faultVars
  <2>. QED
    BY <1>8, <2>1, <2>2 DEF DeleteMessage
<1>9. CASE FailClick(k)
  <2>1. failures' \in 0..MaxFailures
    BY <1>0, <1>9 DEF FailClick
  <2>. QED
    BY <1>0, <1>9, <2>1, IdleTypes, ClickType DEF FailClick, Return, worldVars, pollVars
<1>. QED
  BY <1>3, <1>4, <1>5, <1>6, <1>7, <1>8, <1>9 DEF ClickStep, HandleOpen, HandleDismiss

(* The rest leaves ticks, messages and handlers alone, but for a restart,  *)
(* which ends them.                                                        *)
OtherStep ==
    \/ \E l \in Lobbies : EndLobby(l)
    \/ \E a \in Admins, c \in Channels : CheckLobbyChannel(a, c) \/ CheckHostPrompt(a, c)
    \/ \E a \in Admins : UpdateLeague(a)
    \/ Configure
    \/ \E g \in setting.games :
         RegisterLobby(g) \/ SetHostPromptPings(g) \/ ListChanges(g)

LEMMA ConfigType ==
    ASSUME TypeInv
    PROVE  /\ \A a \in Admins : UpdateLeague(a) => config' \in Configs
           /\ Configure => config' \in Configs
<1>0. config \in Configs /\ admin \in [Admins -> Commands]
  BY DEF TypeInv, PromptTypeOK
<1>1. ASSUME NEW a \in Admins, UpdateLeague(a) PROVE config' \in Configs
  <2>1. admin[a].channel \in Channels \cup {Nothing}
    BY <1>0 DEF Commands
  <2>. QED
    BY <1>0, <1>1, <2>1 DEF UpdateLeague, Configs
<1>2. ASSUME Configure PROVE config' \in Configs
  BY <1>0, <1>2
  DEF Configure, DisableLobbyChannel, clearLeagueLobbyChannel, clearLeagueWc3statsHostPrompt,
      Archive, setLeagueWc3statsHostPromptPings, SetImport, Configs
<1>. QED
  BY <1>1, <1>2

LEMMA OtherSteps ==
    ASSUME TypeInv, OtherStep
    PROVE  TypeInv' /\ UNCHANGED <<tick, msg, click, prompted, setting>>
<1>0. PromptTypeOK /\ setting.games \subseteq Games
  BY SettingType DEF TypeInv, PromptTypeOK
<1>1. ASSUME NEW l \in Lobbies, EndLobby(l)
      PROVE  PromptTypeOK' /\ UNCHANGED <<tick, msg, click, prompted, setting>>
  <2>1. lobby' \in [Lobbies -> LobbyStates]
    BY <1>0, <1>1 DEF EndLobby, PromptTypeOK, LobbyStates
  <2>. QED
    BY <1>0, <1>1, <2>1 DEF EndLobby, PromptTypeOK, worldVars, pollVars, faultVars
<1>2. ASSUME NEW a \in Admins, NEW c \in Channels, CheckLobbyChannel(a, c) \/ CheckHostPrompt(a, c)
      PROVE  PromptTypeOK' /\ UNCHANGED <<tick, msg, click, prompted, setting>>
  <2>1. admin' \in [Admins -> Commands]
    BY <1>0, <1>2 DEF CheckLobbyChannel, CheckHostPrompt, PromptTypeOK, Commands
  <2>. QED
    BY <1>0, <1>2, <2>1
    DEF CheckLobbyChannel, CheckHostPrompt, MayConfigure, PromptTypeOK, worldVars, pollVars, chatVars, faultVars
<1>3. ASSUME NEW a \in Admins, UpdateLeague(a)
      PROVE  PromptTypeOK' /\ UNCHANGED <<tick, msg, click, prompted, setting>>
  BY <1>0, <1>3, ConfigType, IdleTypes
  DEF UpdateLeague, PromptTypeOK, worldVars, pollVars, chatVars, faultVars
<1>4. ASSUME Configure
      PROVE  PromptTypeOK' /\ UNCHANGED <<tick, msg, click, prompted, setting>>
  <2>1. config' \in Configs
    BY <1>4, ConfigType
  <2>2. UNCHANGED <<willing, listed, prompted, tick, msg, lobby, click, admin, failures,
                    restarts, setting>>
    BY <1>4 DEF Configure, MayConfigure, worldVars, pollVars, chatVars, faultVars
  <2>. QED
    BY <1>0, <2>1, <2>2 DEF PromptTypeOK
<1>5. ASSUME NEW g \in setting.games, RegisterLobby(g)
      PROVE  PromptTypeOK' /\ UNCHANGED <<tick, msg, click, prompted, setting>>
  <2>. DEFINE l == [status |-> "active", game |-> g, message |-> Elsewhere]
  <2>1. l \in LobbyStates
    BY <1>0 DEF LobbyStates
  <2>2. lobby' = [lobby EXCEPT ![FreshLobby] = l]
    BY <1>5 DEF RegisterLobby
  <2>. HIDE DEF l
  <2>3. lobby' \in [Lobbies -> LobbyStates]
    BY <1>0, <2>1, <2>2 DEF PromptTypeOK
  <2>. QED
    BY <1>0, <1>5, <2>3 DEF RegisterLobby, PromptTypeOK, worldVars, pollVars, faultVars
<1>6. ASSUME NEW g \in setting.games, SetHostPromptPings(g) \/ ListChanges(g)
      PROVE  PromptTypeOK' /\ UNCHANGED <<tick, msg, click, prompted, setting>>
  BY <1>0, <1>6 DEF SetHostPromptPings, ListChanges, PromptTypeOK, pollVars, chatVars, faultVars
<1>. QED
  BY <1>1, <1>2, <1>3, <1>4, <1>5, <1>6, OtherType DEF OtherStep

LEMMA RestartType ==
    ASSUME TypeInv, Restart
    PROVE  TypeInv'
<1>1. PromptTypeOK'
  BY IdleTypes DEF TypeInv, PromptTypeOK, Restart, worldVars
<1>. QED
  BY <1>1 DEF Restart, TypeInv, TickOK, MsgOK, ClickOK, NoTick

LEMMA NextType == TypeInv /\ [PromptNext]_promptVars => TypeInv'
<1>. SUFFICES ASSUME TypeInv, [PromptNext]_promptVars PROVE TypeInv'
  OBVIOUS
<1>1. CASE UNCHANGED promptVars
  BY <1>1 DEF promptVars, worldVars, pollVars, chatVars, faultVars, TypeInv, PromptTypeOK, TickOK, MsgOK, ClickOK
<1>. QED
  BY <1>1, TickSteps, ClickSteps, OtherSteps, RestartType DEF PromptNext, OtherStep

LEMMA TypeInvariant == PromptSpec => []TypeInv
BY InitType, NextType, PTL DEF PromptSpec

-----------------------------------------------------------------------------
(* What a command that has looked will write agrees still, since the one   *)
(* command at work is the only one that can write.                         *)
WillMatch(a) ==
    /\ admin[a] # NoCommand /\ admin[a].op # "setPrompt" =>
         ChannelsMatch([config EXCEPT !.gate = TRUE, !.lobby = admin[a].channel])
    /\ admin[a].op = "setPrompt" => ChannelsMatch([config EXCEPT !.prompt = admin[a].channel])

ChannelInv ==
    "commands" \notin setting.overlap =>
        /\ ChannelsMatch(config)
        /\ \A a, b \in Admins : admin[a] # NoCommand /\ admin[b] # NoCommand => a = b
        /\ \A a \in Admins : WillMatch(a)

LEMMA ChannelsRest ==
    ASSUME ChannelInv, UNCHANGED <<config, admin, setting>>
    PROVE  ChannelInv'
BY DEF ChannelInv, WillMatch, ChannelsMatch

LEMMA ChannelsIdle ==
    ASSUME "commands" \notin setting'.overlap => ChannelsMatch(config'),
           \A a \in Admins : admin'[a] = NoCommand
    PROVE  ChannelInv'
BY DEF ChannelInv, WillMatch, ChannelsMatch, NoCommand

(* A command that has looked is alone.                                     *)
LEMMA ChannelsChecked ==
    ASSUME TypeInv, ChannelInv, NEW a \in Admins, NEW op \in {"setLobby", "moveLobby", "setPrompt"},
           NEW c \in Channels, admin' = [admin EXCEPT ![a] = [op |-> op, channel |-> c]],
           op = "setPrompt" => ChannelsMatch([config EXCEPT !.prompt = c]),
           op # "setPrompt" => ChannelsMatch([config EXCEPT !.gate = TRUE, !.lobby = c]),
           MayConfigure, UNCHANGED config
    PROVE  ChannelInv'
<1>. SUFFICES ASSUME "commands" \notin setting.overlap
              PROVE  /\ ChannelsMatch(config)'
                     /\ \A b, d \in Admins : admin'[b] # NoCommand /\ admin'[d] # NoCommand => b = d
                     /\ \A b \in Admins : WillMatch(b)'
  BY DEF ChannelInv, MayConfigure, faultVars
<1>0. admin \in [Admins -> Commands] /\ CommandsIdle
  BY DEF TypeInv, PromptTypeOK, MayConfigure
<1>1. ChannelsMatch(config)'
  BY DEF ChannelInv, ChannelsMatch
<1>2. \A b \in Admins \ {a} : admin'[b] = NoCommand
  BY <1>0 DEF CommandsIdle
<1>3. admin'[a].op = op /\ admin'[a].channel = c
  BY <1>0
<1>4. WillMatch(a)'
  BY <1>3 DEF WillMatch, ChannelsMatch
<1>5. \A b \in Admins \ {a} : WillMatch(b)'
  BY <1>2 DEF WillMatch, NoCommand
<1>. QED
  BY <1>1, <1>2, <1>4, <1>5

LEMMA ChannelsUpdated ==
    ASSUME TypeInv, ChannelInv, NEW a \in Admins, UpdateLeague(a)
    PROVE  ChannelInv'
<1>. SUFFICES ASSUME "commands" \notin setting.overlap
              PROVE  ChannelsMatch(config') /\ \A b \in Admins : admin'[b] = NoCommand
  BY ChannelsIdle DEF UpdateLeague, faultVars, ChannelInv
<1>0. config \in Configs /\ admin \in [Admins -> Commands] /\ admin[a] # NoCommand
  BY DEF TypeInv, PromptTypeOK, UpdateLeague
<1>1. \A b \in Admins : admin'[b] = NoCommand
  BY <1>0 DEF UpdateLeague, ChannelInv
<1>2. WillMatch(a) /\ admin[a].op \in {"idle", "setPrompt", "setLobby", "moveLobby"}
  BY <1>0 DEF ChannelInv, Commands
<1>. DEFINE c == admin[a].channel
            prompts == [config EXCEPT !.prompt = c]
            moves == [config EXCEPT !.lobby = c]
            opens == [config EXCEPT !.gate = TRUE, !.lobby = c]
<1>3. ASSUME admin[a].op = "setPrompt" PROVE ChannelsMatch(config')
  <2>1. config' = prompts
    BY <1>3 DEF UpdateLeague
  <2>2. ChannelsMatch(prompts)
    BY <1>2, <1>3 DEF WillMatch
  <2>. HIDE DEF prompts
  <2>. QED
    BY <2>1, <2>2
<1>4. ASSUME admin[a].op = "moveLobby" PROVE ChannelsMatch(config')
  <2>1. config' = moves
    BY <1>4 DEF UpdateLeague
  <2>2. ChannelsMatch(opens)
    BY <1>0, <1>2, <1>4 DEF WillMatch
  <2>3. /\ moves.gate = config.gate /\ moves.lobby = c /\ moves.prompt = config.prompt
        /\ opens.gate = TRUE /\ opens.lobby = c /\ opens.prompt = config.prompt
        /\ config.gate \in BOOLEAN
    BY <1>0 DEF Configs
  <2>. HIDE DEF moves, opens
  <2>. QED
    BY <2>1, <2>2, <2>3 DEF ChannelsMatch
<1>5. ASSUME admin[a].op \notin {"setPrompt", "moveLobby"}
      PROVE  ChannelsMatch(config')
  <2>1. config' = opens
    BY <1>5 DEF UpdateLeague
  <2>2. ChannelsMatch(opens)
    BY <1>0, <1>2, <1>5 DEF WillMatch
  <2>. HIDE DEF opens
  <2>. QED
    BY <2>1, <2>2
<1>. QED
  BY <1>1, <1>3, <1>4, <1>5

LEMMA ChannelsConfigured ==
    ASSUME TypeInv, ChannelInv, Configure
    PROVE  ChannelInv'
<1>. SUFFICES ASSUME "commands" \notin setting.overlap
              PROVE  ChannelsMatch(config') /\ \A b \in Admins : admin'[b] = NoCommand
  BY ChannelsIdle DEF Configure, MayConfigure, faultVars, ChannelInv
<1>0. config \in Configs /\ ChannelsMatch(config)
  BY DEF TypeInv, PromptTypeOK, ChannelInv
<1>1. \A b \in Admins : admin'[b] = NoCommand
  BY DEF Configure, MayConfigure, CommandsIdle
<1>2. ChannelsMatch(config')
  <2>1. CASE DisableLobbyChannel \/ clearLeagueLobbyChannel
    BY <1>0, <2>1 DEF DisableLobbyChannel, clearLeagueLobbyChannel, ChannelsMatch, Configs
  <2>2. CASE clearLeagueWc3statsHostPrompt \/ Archive
    BY <1>0, <2>2 DEF clearLeagueWc3statsHostPrompt, Archive, ChannelsMatch, Configs
  <2>3. ASSUME NEW on \in BOOLEAN, setLeagueWc3statsHostPromptPings(on) \/ SetImport(on)
        PROVE  ChannelsMatch(config')
    BY <1>0, <2>3 DEF setLeagueWc3statsHostPromptPings, SetImport, ChannelsMatch, Configs
  <2>. QED
    BY <2>1, <2>2, <2>3 DEF Configure
<1>. QED
  BY <1>1, <1>2

LEMMA NextChannels == TypeInv /\ ChannelInv /\ [PromptNext]_promptVars => ChannelInv'
<1>. SUFFICES ASSUME TypeInv, ChannelInv, [PromptNext]_promptVars PROVE ChannelInv'
  OBVIOUS
<1>1. CASE UNCHANGED promptVars
  BY <1>1, ChannelsRest DEF promptVars, faultVars
<1>2. ASSUME NEW t \in Ticks, StartTick(t) \/ TickStep(t) \/ FailTick(t) PROVE ChannelInv'
  BY <1>2, ChannelsRest
  DEF StartTick, TickStep, FailTick, FetchGamelist, LoadLinkedPlayers, LookUp, Post, RecordPrompt,
      EndTick, faultVars
<1>3. ASSUME NEW k \in Clicks, ClickStep(k) \/ FailClick(k) PROVE ChannelInv'
  BY <1>3, ChannelsRest
  DEF ClickStep, FailClick, CheckCreate, CreatePendingMatch, EditMessage,
      AttachCreatedMatchMessage, DeleteMessage, faultVars
<1>4. ASSUME NEW k \in Clicks, NEW i \in Messages, HandleOpen(k, i) \/ HandleDismiss(k, i)
      PROVE  ChannelInv'
  BY <1>4, ChannelsRest DEF HandleOpen, HandleDismiss, Press, faultVars
<1>5. ASSUME NEW a \in Admins, NEW c \in Channels, CheckLobbyChannel(a, c) PROVE ChannelInv'
  <2>1. CASE admin' = [admin EXCEPT ![a] = [op |-> "setLobby", channel |-> c]]
    BY <1>5, <2>1, ChannelsChecked DEF CheckLobbyChannel
  <2>2. CASE admin' = [admin EXCEPT ![a] = [op |-> "moveLobby", channel |-> c]]
    BY <1>5, <2>2, ChannelsChecked DEF CheckLobbyChannel
  <2>. QED
    BY <1>5, <2>1, <2>2 DEF CheckLobbyChannel
<1>6. ASSUME NEW a \in Admins, NEW c \in Channels, CheckHostPrompt(a, c) PROVE ChannelInv'
  BY <1>6, ChannelsChecked DEF CheckHostPrompt
<1>7. ASSUME NEW a \in Admins, UpdateLeague(a) PROVE ChannelInv'
  BY <1>7, ChannelsUpdated
<1>8. CASE Configure
  BY <1>8, ChannelsConfigured
<1>9. ASSUME NEW l \in Lobbies, EndLobby(l) PROVE ChannelInv'
  BY <1>9, ChannelsRest DEF EndLobby, faultVars
<1>10. ASSUME NEW g \in setting.games, RegisterLobby(g) \/ SetHostPromptPings(g) \/ ListChanges(g)
       PROVE  ChannelInv'
  BY <1>10, ChannelsRest DEF RegisterLobby, SetHostPromptPings, ListChanges, faultVars
<1>11. CASE Restart
  <2>1. \A a \in Admins : admin'[a] = NoCommand
    BY <1>11 DEF Restart
  <2>2. UNCHANGED <<config, setting>>
    BY <1>11 DEF Restart
  <2>. QED
    BY <2>1, <2>2, ChannelsIdle DEF ChannelInv
<1>. QED
  BY <1>1, <1>2, <1>3, <1>4, <1>5, <1>6, <1>7, <1>8, <1>9, <1>10, <1>11 DEF PromptNext

(* The variables have their types, and as long as commands do not overlap  *)
(* /config never leaves a prompt channel that differs from the lobby       *)
(* channel that is on.                                                     *)
THEOREM PromptsAreSound == PromptSpec => []PromptsSound
<1>1. PromptInit => ChannelInv
  <2>. SUFFICES ASSUME PromptInit PROVE ChannelInv
    OBVIOUS
  <2>1. ChannelsMatch(config)
    BY SettingType DEF PromptInit
  <2>2. \A a \in Admins : admin[a] = NoCommand
    BY DEF PromptInit
  <2>3. \A a \in Admins : admin[a].op # "setPrompt"
    BY <2>2 DEF NoCommand
  <2>. QED
    BY <2>1, <2>2, <2>3 DEF ChannelInv, WillMatch
<1>2. TypeInv /\ ChannelInv => PromptsSound
  BY DEF TypeInv, ChannelInv, PromptsSound, ChannelsAgree
<1>. QED
  BY <1>1, <1>2, TypeInvariant, NextChannels, PTL DEF PromptSpec

-----------------------------------------------------------------------------
(* While ticks do not overlap: what this process asked is remembered, or   *)
(* the tick that asked is about to remember it, so that a tick about to    *)
(* ask finds nothing asked.                                                *)
Asked(i, g) == msg[i].game = g /\ msg[i].boot = restarts
Remembered(g) == g \in prompted \/ \E t \in Ticks : tick[t].at = "record" /\ tick[t].game = g

OneTick == \A t, u \in Ticks : tick[t] # NoTick /\ tick[u] # NoTick => t = u
Remembers == \A i \in Messages, g \in Games : Asked(i, g) => Remembered(g)
AsksNew == \A t \in Ticks : tick[t].at = "post" =>
               \A i \in Messages : ~Asked(i, tick[t].game)
Once == \A i, j \in Messages :
            i # j /\ msg[i].game # Nothing /\ msg[i].game = msg[j].game => msg[i].boot # msg[j].boot

AskInv ==
    /\ \A i \in Messages : msg[i].boot <= restarts
    /\ "ticks" \notin setting.overlap => OneTick /\ Remembers /\ AsksNew /\ Once

(* A step that asks nothing and forgets nothing.                           *)
LEMMA AskRest ==
    ASSUME AskInv, prompted \subseteq prompted', UNCHANGED <<tick, restarts, setting>>,
           \A i \in Messages : msg'[i].game = msg[i].game /\ msg'[i].boot = msg[i].boot
    PROVE  AskInv'
<1>1. \A i \in Messages : msg'[i].boot <= restarts'
  BY DEF AskInv
<1>. SUFFICES ASSUME "ticks" \notin setting.overlap
              PROVE  OneTick' /\ Remembers' /\ AsksNew' /\ Once'
  BY <1>1 DEF AskInv
<1>2. OneTick'
  BY DEF AskInv, OneTick
<1>3. Remembers'
  BY DEF AskInv, Remembers, Asked, Remembered
<1>4. AsksNew'
  BY DEF AskInv, AsksNew, Asked
<1>5. Once'
  BY DEF AskInv, Once
<1>. QED
  BY <1>2, <1>3, <1>4, <1>5

(* A step of the one tick in flight that posts nothing.                    *)
LEMMA AskTick ==
    ASSUME TypeInv, AskInv, NEW t \in Ticks, NEW new \in TickStates,
           tick' = [tick EXCEPT ![t] = new],
           "ticks" \notin setting.overlap => \A u \in Ticks \ {t} : tick[u] = NoTick,
           prompted \subseteq prompted',
           tick[t].at = "record" => tick[t].game \in prompted',
           new.at = "post" => new.game \in Games /\ new.game \notin prompted /\ tick[t].at = "next",
           UNCHANGED <<msg, restarts, setting>>
    PROVE  AskInv'
<1>1. \A i \in Messages : msg'[i].boot <= restarts'
  BY DEF AskInv
<1>. SUFFICES ASSUME "ticks" \notin setting.overlap
              PROVE  OneTick' /\ Remembers' /\ AsksNew' /\ Once'
  BY <1>1 DEF AskInv
<1>0. /\ tick \in [Ticks -> TickStates]
      /\ tick'[t] = new /\ \A u \in Ticks \ {t} : tick'[u] = NoTick /\ tick[u] = NoTick
  BY DEF TypeInv, PromptTypeOK
<1>2. OneTick'
  BY <1>0 DEF OneTick, NoTick
<1>3. Remembers'
  <2>. SUFFICES ASSUME NEW i \in Messages, NEW g \in Games, Asked(i, g)
                PROVE  g \in prompted'
    BY DEF Remembers, Asked, Remembered
  <2>1. Remembered(g)
    BY DEF AskInv, Remembers
  <2>. QED
    BY <1>0, <2>1 DEF Remembered, NoTick
<1>4. AsksNew'
  <2>. SUFFICES ASSUME NEW u \in Ticks, tick'[u].at = "post", NEW i \in Messages,
                       Asked(i, tick'[u].game)
                PROVE  FALSE
    BY DEF AsksNew, Asked
  <2>1. u = t
    BY <1>0 DEF NoTick
  <2>2. new.game \in Games /\ new.game \notin prompted /\ tick[t].at = "next"
    BY <1>0, <2>1
  <2>3. Remembered(new.game)
    BY <1>0, <2>1, <2>2 DEF AskInv, Remembers
  <2>. QED
    BY <1>0, <2>2, <2>3 DEF Remembered, NoTick
<1>5. Once'
  BY DEF AskInv, Once
<1>. QED
  BY <1>2, <1>3, <1>4, <1>5

LEMMA AskPost ==
    ASSUME TypeInv, AskInv, NEW t \in Ticks, Post(t)
    PROVE  AskInv'
<1>. DEFINE f == FreshMessage
            old == tick[t]
            new == [old EXCEPT !.at = "record"]
            m == [NoMsg EXCEPT !.shows = "prompt", !.game = old.game,
                               !.channel = old.channel, !.boot = restarts]
<1>0. /\ tick \in [Ticks -> TickStates] /\ msg \in [Messages -> MsgStates]
      /\ old.at = "post" /\ old.game \in Games /\ restarts \in Nat
  BY DEF TypeInv, PromptTypeOK, TickOK, Post
<1>1. f \in Messages /\ msg[f] = NoMsg
  BY DEF Post, FreshMessage
<1>2. new.at = "record" /\ new.game = old.game /\ m.game = old.game /\ m.boot = restarts
  BY <1>0 DEF TickStates, NoMsg
<1>3. /\ tick' = [tick EXCEPT ![t] = new] /\ msg' = [msg EXCEPT ![f] = m]
      /\ UNCHANGED <<prompted, restarts, setting>>
  BY <1>0 DEF Post, faultVars
<1>. HIDE DEF f, m, new
<1>4. /\ msg'[f] = m /\ \A i \in Messages \ {f} : msg'[i] = msg[i]
      /\ tick'[t] = new /\ \A u \in Ticks \ {t} : tick'[u] = tick[u]
  BY <1>0, <1>1, <1>3
<1>5. \A i \in Messages : msg'[i].boot <= restarts'
  BY <1>0, <1>2, <1>3, <1>4 DEF AskInv
<1>. SUFFICES ASSUME "ticks" \notin setting.overlap
              PROVE  OneTick' /\ Remembers' /\ AsksNew' /\ Once'
  BY <1>3, <1>5 DEF AskInv
<1>6. old # NoTick /\ \A u \in Ticks \ {t} : tick[u] = NoTick
  BY <1>0 DEF AskInv, OneTick, NoTick
<1>7. OneTick'
  BY <1>4, <1>6 DEF OneTick
<1>8. \A i \in Messages : ~Asked(i, old.game)
  BY <1>0 DEF AskInv, AsksNew
<1>9. Remembers'
  <2>. SUFFICES ASSUME NEW i \in Messages, NEW g \in Games, Asked(i, g)'
                PROVE  g \in prompted' \/ (tick'[t].at = "record" /\ tick'[t].game = g)
    BY DEF Remembers, Remembered
  <2>1. CASE i = f
    BY <1>2, <1>4, <2>1 DEF Asked
  <2>2. CASE i # f
    <3>1. Asked(i, g)
      BY <1>3, <1>4, <2>2 DEF Asked
    <3>2. Remembered(g)
      BY <3>1 DEF AskInv, Remembers
    <3>3. \A u \in Ticks : tick[u].at # "record"
      BY <1>0, <1>6 DEF NoTick
    <3>. QED
      BY <1>3, <3>2, <3>3 DEF Remembered
  <2>. QED
    BY <2>1, <2>2
<1>10. AsksNew'
  BY <1>2, <1>4, <1>6 DEF AsksNew, NoTick
<1>11. Once'
  <2>1. \A i \in Messages \ {f} : msg[i].game = old.game => msg[i].boot # restarts
    BY <1>8 DEF Asked
  <2>2. \A i \in Messages \ {f} : msg'[i].game = msg'[f].game => msg'[i].boot # msg'[f].boot
    BY <1>2, <1>4, <2>1
  <2>. QED
    BY <1>4, <2>2 DEF AskInv, Once
<1>. QED
  BY <1>7, <1>9, <1>10, <1>11

(* A tick asks in its turn, and for a game that is not remembered.         *)
LEMMA AskTicks ==
    ASSUME TypeInv, AskInv, NEW t \in Ticks, StartTick(t) \/ TickStep(t) \/ FailTick(t)
    PROVE  AskInv'
<1>. DEFINE old == tick[t]
<1>0. old \in TickStates /\ config \in Configs /\ listed \subseteq Games
      /\ tick \in [Ticks -> TickStates]
  BY DEF TypeInv, PromptTypeOK
<1>1. old # NoTick /\ "ticks" \notin setting.overlap =>
        \A u \in Ticks \ {t} : tick[u] = NoTick
  BY DEF AskInv, OneTick
<1>2. CASE StartTick(t)
  <2>1. [NoTick EXCEPT !.at = "fetch", !.channel = config.prompt] \in TickStates
    BY <1>0, IdleTypes DEF TickStates, NoTick, Configs
  <2>2. UNCHANGED <<msg, prompted, restarts, setting>>
    BY <1>2 DEF StartTick, chatVars, faultVars
  <2>3. "ticks" \notin setting.overlap => \A u \in Ticks \ {t} : tick[u] = NoTick
    BY <1>2 DEF StartTick, OtherTicksIdle
  <2>4. old.at # "record" /\ [NoTick EXCEPT !.at = "fetch", !.channel = config.prompt].at # "post"
    BY <1>2 DEF StartTick, NoTick
  <2>. QED
    BY <1>2, <2>1, <2>2, <2>3, <2>4, AskTick DEF StartTick
<1>3. CASE FetchGamelist(t)
  <2>. DEFINE new == [old EXCEPT !.at = "link", !.games = listed]
  <2>0. old.at = "fetch" /\ old # NoTick
    BY <1>3 DEF FetchGamelist, NoTick
  <2>1. new \in TickStates /\ new.at = "link"
    BY <1>0 DEF TickStates
  <2>2. tick' = [tick EXCEPT ![t] = new] /\ UNCHANGED <<msg, prompted, restarts, setting>>
    BY <1>0, <1>3 DEF FetchGamelist, chatVars, faultVars
  <2>. HIDE DEF new
  <2>. QED
    BY <1>1, <2>0, <2>1, <2>2, AskTick
<1>4. CASE LoadLinkedPlayers(t)
  <2>. DEFINE new == [old EXCEPT !.at = "next", !.games = filterGamelistForHostPrompt(old.games)]
  <2>0. old.at = "link" /\ old # NoTick
    BY <1>4 DEF LoadLinkedPlayers, NoTick
  <2>1. new \in TickStates /\ new.at = "next"
    BY <1>0 DEF TickStates, filterGamelistForHostPrompt
  <2>2. tick' = [tick EXCEPT ![t] = new] /\ UNCHANGED <<msg, prompted, restarts, setting>>
    BY <1>0, <1>4 DEF LoadLinkedPlayers, chatVars, faultVars
  <2>. HIDE DEF new
  <2>. QED
    BY <1>1, <2>0, <2>1, <2>2, AskTick
<1>5. CASE LookUp(t)
  <2>0. old.at = "next" /\ old # NoTick /\ UNCHANGED <<msg, restarts, setting>>
    BY <1>5 DEF LookUp, NoTick, chatVars, faultVars
  <2>1. PICK g \in tick[t].games \ prompted :
          \/ /\ prompted' = prompted \cup {g}
             /\ tick' = [tick EXCEPT ![t].games = @ \ {g}]
          \/ /\ tick' = [tick EXCEPT ![t].at = "post", ![t].game = g, ![t].games = @ \ {g}]
             /\ UNCHANGED prompted
    BY <1>5 DEF LookUp
  <2>2. g \in Games
    BY <1>0, <2>1 DEF TickStates
  <2>3. CASE prompted' = prompted \cup {g} /\ tick' = [tick EXCEPT ![t].games = @ \ {g}]
    <3>. DEFINE new == [old EXCEPT !.games = @ \ {g}]
    <3>1. new \in TickStates /\ new.at = "next"
      BY <1>0, <2>0 DEF TickStates
    <3>2. tick' = [tick EXCEPT ![t] = new]
      BY <1>0, <2>3
    <3>. HIDE DEF new
    <3>. QED
      BY <1>1, <2>0, <2>3, <3>1, <3>2, AskTick
  <2>4. CASE /\ tick' = [tick EXCEPT ![t].at = "post", ![t].game = g, ![t].games = @ \ {g}]
             /\ UNCHANGED prompted
    <3>. DEFINE new == [old EXCEPT !.at = "post", !.game = g, !.games = @ \ {g}]
    <3>1. new \in TickStates /\ new.game = g
      BY <1>0, <2>2 DEF TickStates
    <3>2. tick' = [tick EXCEPT ![t] = new]
      BY <1>0, <2>4
    <3>. HIDE DEF new
    <3>. QED
      BY <1>1, <2>0, <2>1, <2>2, <2>4, <3>1, <3>2, AskTick
  <2>. QED
    BY <2>1, <2>3, <2>4
<1>6. CASE Post(t)
  BY <1>6, AskPost
<1>7. CASE RecordPrompt(t)
  <2>. DEFINE new == [old EXCEPT !.at = "next", !.game = Nothing, !.posted = @ + 1]
  <2>1. old.at = "record" /\ old # NoTick /\ old.game \in Games /\ old.posted < MaxPerTick
    BY <1>7 DEF RecordPrompt, NoTick, TypeInv, TickOK
  <2>2. new \in TickStates /\ new.at = "next"
    <3>1. old.posted + 1 \in 0..MaxPerTick
      BY <1>0, <2>1 DEF TickStates
    <3>. QED
      BY <1>0, <3>1 DEF TickStates
  <2>3. /\ tick' = [tick EXCEPT ![t] = new] /\ prompted' = prompted \cup {old.game}
        /\ UNCHANGED <<msg, restarts, setting>>
    BY <1>0, <1>7 DEF RecordPrompt, chatVars, faultVars
  <2>. HIDE DEF new
  <2>. QED
    BY <1>1, <2>1, <2>2, <2>3, AskTick
<1>8. CASE EndTick(t)
  <2>1. /\ old.at = "next" /\ old # NoTick /\ tick' = [tick EXCEPT ![t] = NoTick]
        /\ UNCHANGED <<msg, prompted, restarts, setting>>
    BY <1>8 DEF EndTick, NoTick, chatVars, faultVars
  <2>2. NoTick \in TickStates /\ NoTick.at # "post"
    BY IdleTypes DEF NoTick
  <2>. QED
    BY <1>1, <2>1, <2>2, AskTick
<1>9. CASE FailTick(t)
  <2>0. UNCHANGED <<msg, prompted, restarts, setting>>
    BY <1>9 DEF FailTick, chatVars
  <2>1. CASE tick[t].at = "fetch" /\ tick' = [tick EXCEPT ![t] = NoTick]
    <3>1. NoTick \in TickStates /\ NoTick.at # "post" /\ old # NoTick
      BY <2>1, IdleTypes DEF NoTick
    <3>. QED
      BY <1>1, <2>0, <2>1, <3>1, AskTick
  <2>2. CASE tick[t].at = "post" /\ tick' = [tick EXCEPT ![t].at = "next", ![t].game = Nothing]
    <3>. DEFINE new == [old EXCEPT !.at = "next", !.game = Nothing]
    <3>0. old # NoTick
      BY <2>2 DEF NoTick
    <3>1. new \in TickStates /\ new.at = "next"
      BY <1>0 DEF TickStates
    <3>2. tick' = [tick EXCEPT ![t] = new]
      BY <1>0, <2>2
    <3>. HIDE DEF new
    <3>. QED
      BY <1>1, <2>0, <2>2, <3>0, <3>1, <3>2, AskTick
  <2>. QED
    BY <1>9, <2>1, <2>2 DEF FailTick
<1>. QED
  BY <1>2, <1>3, <1>4, <1>5, <1>6, <1>7, <1>8, <1>9 DEF TickStep

(* Handlers redraw a message, which stays about its game, and remember.    *)
LEMMA AskClicks ==
    ASSUME TypeInv, AskInv, NEW k \in Clicks,
           ClickStep(k) \/ FailClick(k)
             \/ \E i \in Messages : HandleOpen(k, i) \/ HandleDismiss(k, i)
    PROVE  AskInv'
<1>0. msg \in [Messages -> MsgStates]
  BY DEF TypeInv, PromptTypeOK
<1>1. prompted \subseteq prompted' /\ UNCHANGED <<tick, restarts, setting>>
  BY DEF ClickStep, FailClick, HandleOpen, HandleDismiss, Press, CheckCreate, CreatePendingMatch,
         EditMessage, AttachCreatedMatchMessage, DeleteMessage, pollVars, faultVars
<1>2. \A i \in Messages : msg'[i].game = msg[i].game /\ msg'[i].boot = msg[i].boot
  <2>1. CASE EditMessage(k)
    <3>1. \/ UNCHANGED msg
          \/ msg' = [msg EXCEPT ![click[k].msg].shows = "lobby",
                                ![click[k].msg].lobby = click[k].lobby]
      BY <2>1 DEF EditMessage
    <3>. QED
      BY <1>0, <3>1 DEF MsgStates
  <2>2. CASE DeleteMessage(k)
    <3>1. UNCHANGED msg \/ msg' = [msg EXCEPT ![click[k].msg].shows = "deleted"]
      BY <2>2 DEF DeleteMessage
    <3>. QED
      BY <1>0, <3>1 DEF MsgStates
  <2>3. CASE UNCHANGED msg
    BY <2>3
  <2>. QED
    BY <2>1, <2>2, <2>3
    DEF ClickStep, FailClick, HandleOpen, HandleDismiss, Press, CheckCreate, CreatePendingMatch,
        AttachCreatedMatchMessage
<1>. QED
  BY <1>1, <1>2, AskRest

LEMMA NextAsk == TypeInv /\ AskInv /\ [PromptNext]_promptVars => AskInv'
<1>. SUFFICES ASSUME TypeInv, AskInv, [PromptNext]_promptVars PROVE AskInv'
  OBVIOUS
<1>1. CASE UNCHANGED promptVars
  <2>1. UNCHANGED <<tick, prompted, msg, restarts, setting>>
    BY <1>1 DEF promptVars, pollVars, chatVars, faultVars
  <2>. QED
    BY <2>1, AskRest
<1>2. CASE OtherStep
  <2>1. UNCHANGED <<tick, prompted, msg, setting>>
    BY <1>2, OtherSteps
  <2>2. UNCHANGED restarts
    BY <1>2 DEF OtherStep, EndLobby, CheckLobbyChannel, CheckHostPrompt, UpdateLeague, Configure,
                MayConfigure, RegisterLobby, SetHostPromptPings, ListChanges, faultVars
  <2>. QED
    BY <2>1, <2>2, AskRest
<1>3. CASE Restart
  <2>0. restarts \in Nat /\ \A i \in Messages : msg[i].boot \in Nat
    BY DEF TypeInv, PromptTypeOK, MsgStates
  <2>1. \A i \in Messages : msg'[i].boot < restarts'
    BY <1>3, <2>0 DEF Restart, AskInv
  <2>2. \A t \in Ticks : tick'[t] = NoTick
    BY <1>3 DEF Restart
  <2>3. UNCHANGED <<msg, setting>> /\ restarts' \in Nat
    BY <1>3, <2>0 DEF Restart
  <2>4. \A i \in Messages : msg'[i].boot # restarts' /\ msg'[i].boot <= restarts'
    BY <2>0, <2>1, <2>3
  <2>5. AsksNew' /\ OneTick' /\ Remembers'
    BY <2>2, <2>4 DEF AsksNew, OneTick, Remembers, Asked, NoTick
  <2>6. "ticks" \notin setting.overlap => Once'
    BY <2>3 DEF AskInv, Once
  <2>. QED
    BY <2>3, <2>4, <2>5, <2>6 DEF AskInv
<1>. QED
  BY <1>1, <1>2, <1>3, AskTicks, AskClicks DEF PromptNext, OtherStep

(* One process asks about a game once: of two messages about a game, one   *)
(* is of an earlier process.                                               *)
THEOREM HostsAskedOnce == PromptSpec => []AskedOnce
<1>1. PromptInit => AskInv
  <2>. SUFFICES ASSUME PromptInit PROVE AskInv
    OBVIOUS
  <2>1. \A i \in Messages : msg[i].game = Nothing /\ msg[i].boot = 0
    BY DEF PromptInit, NoMsg
  <2>2. restarts = 0 /\ \A t \in Ticks : tick[t] = NoTick
    BY DEF PromptInit
  <2>3. OneTick /\ AsksNew
    BY <2>2 DEF OneTick, AsksNew, NoTick
  <2>4. Remembers /\ Once
    BY <2>1 DEF Remembers, Once, Asked
  <2>5. \A i \in Messages : msg[i].boot <= restarts
    BY <2>1, <2>2
  <2>. QED
    BY <2>3, <2>4, <2>5 DEF AskInv
<1>2. AskInv => AskedOnce
  BY DEF AskInv, AskedOnce, Once
<1>. QED
  BY <1>1, <1>2, TypeInvariant, NextAsk, PTL DEF PromptSpec

-----------------------------------------------------------------------------
(* While one host presses one button at a time and nothing fails: the      *)
(* message of a handler at work shows what the handler takes it to show,   *)
(* and the lobby it has made is its own.                                   *)
Careful == "clicks" \notin setting.overlap /\ ~setting.faults

Owns(k) ==
    LET i == click[k].msg  l == click[k].lobby IN
    /\ click[k].at \in {"check", "create", "edit", "delete"} => msg[i].shows = "prompt"
    /\ click[k].at = "attach" => msg[i].shows = "lobby" /\ msg[i].lobby = l
    /\ click[k].at \in {"edit", "attach"} => l \in Lobbies /\ lobby[l].status # "none"
    /\ click[k].at \notin {"edit", "attach"} => l = Nothing

Apart ==
    \A j, k \in Clicks :
        /\ click[j] # NoClick /\ click[k] # NoClick /\ click[j].msg = click[k].msg => j = k
        /\ click[j].lobby # Nothing /\ click[j].lobby = click[k].lobby => j = k

IsShown(l) == \E i \in Messages :
                lobby[l].message = i /\ msg[i].shows = "lobby" /\ msg[i].lobby = l

AllShown ==
    \A l \in Lobbies :
        lobby[l].status # "none" /\ ~Working(l) /\ lobby[l].message # Elsewhere => IsShown(l)

ShownInv == Careful => (\A k \in Clicks : Owns(k)) /\ Apart /\ AllShown

(* A step that leaves alone what is shown, what is made and who works.     *)
LEMMA ShownRest ==
    ASSUME TypeInv, ShownInv, UNCHANGED <<lobby, click, setting>>,
           \A i \in Messages : msg[i].shows # "nothing" => msg'[i] = msg[i]
    PROVE  ShownInv'
<1>. SUFFICES ASSUME Careful PROVE (\A k \in Clicks : Owns(k)') /\ Apart' /\ AllShown'
  BY DEF ShownInv, Careful
<1>1. ASSUME NEW k \in Clicks PROVE Owns(k)'
  <2>1. CASE click[k] = NoClick
    BY <2>1 DEF Owns, NoClick
  <2>2. CASE click[k] # NoClick
    <3>1. click[k].msg \in Messages /\ msg'[click[k].msg] = msg[click[k].msg]
      BY <2>2 DEF TypeInv, ClickOK
    <3>. QED
      BY <3>1 DEF ShownInv, Owns
  <2>. QED
    BY <2>1, <2>2
<1>2. Apart'
  BY DEF ShownInv, Apart
<1>3. AllShown'
  BY DEF ShownInv, AllShown, IsShown, Working
<1>. QED
  BY <1>1, <1>2, <1>3

(* A step of one handler that is at work on the message i, before or       *)
(* after: it may redraw that message, unless it shows a lobby already.     *)
LEMMA ShownClick ==
    ASSUME TypeInv, ShownInv, NEW k \in Clicks, NEW new \in ClickStates, NEW i \in Messages,
           click' = [click EXCEPT ![k] = new], click'[k] = new,
           UNCHANGED <<lobby, setting>>,
           Careful => \A j \in Clicks \ {k} : click[j] # NoClick => click[j].msg # i,
           new # NoClick => new.msg = i,
           \A m \in Messages \ {i} : msg'[m] = msg[m],
           Careful /\ msg[i].shows = "lobby" => msg'[i] = msg[i],
           Careful => Owns(k)',
           Careful => new.lobby = click[k].lobby
    PROVE  ShownInv'
<1>. SUFFICES ASSUME Careful PROVE (\A j \in Clicks : Owns(j)') /\ Apart' /\ AllShown'
  BY DEF ShownInv, Careful
<1>0. /\ \A j \in Clicks \ {k} : click'[j] = click[j]
      /\ \A j \in Clicks : click'[j].lobby = click[j].lobby
  BY DEF TypeInv, PromptTypeOK
<1>1. ASSUME NEW j \in Clicks PROVE Owns(j)'
  <2>1. CASE j = k
    BY <2>1
  <2>2. CASE j # k /\ click[j] = NoClick
    BY <1>0, <2>2 DEF Owns, NoClick
  <2>3. CASE j # k /\ click[j] # NoClick
    <3>1. click[j].msg \in Messages \ {i} /\ click'[j] = click[j]
      BY <1>0, <2>3 DEF TypeInv, ClickOK
    <3>2. msg'[click[j].msg] = msg[click[j].msg]
      BY <3>1
    <3>. QED
      BY <3>1, <3>2 DEF ShownInv, Owns
  <2>. QED
    BY <2>1, <2>2, <2>3
<1>2. Apart'
  BY <1>0 DEF ShownInv, Apart
<1>3. AllShown'
  BY <1>0 DEF ShownInv, AllShown, IsShown, Working
<1>. QED
  BY <1>1, <1>2, <1>3

(* A step that makes a lobby elsewhere, or ends one.                       *)
LEMMA ShownLobby ==
    ASSUME ShownInv, UNCHANGED <<msg, click, setting>>,
           \A l \in Lobbies :
               /\ lobby[l].status # "none" => lobby'[l].status # "none"
               /\ lobby'[l].message # Elsewhere /\ lobby'[l].status # "none" =>
                    lobby'[l].message = lobby[l].message /\ lobby[l].status # "none"
    PROVE  ShownInv'
<1>. SUFFICES ASSUME Careful PROVE (\A k \in Clicks : Owns(k)') /\ Apart' /\ AllShown'
  BY DEF ShownInv, Careful
<1>1. \A k \in Clicks : Owns(k)'
  BY DEF ShownInv, Owns
<1>2. Apart'
  BY DEF ShownInv, Apart
<1>3. AllShown'
  BY DEF ShownInv, AllShown, IsShown, Working
<1>. QED
  BY <1>1, <1>2, <1>3

LEMMA ShownCreate ==
    ASSUME TypeInv, ShownInv, NEW k \in Clicks, CreatePendingMatch(k)
    PROVE  ShownInv'
<1>. DEFINE f == FreshLobby
            old == click[k]
            new == [old EXCEPT !.at = "edit", !.lobby = f]
            made == [status |-> "active", game |-> msg[old.msg].game, message |-> Nothing]
<1>0. /\ click \in [Clicks -> ClickStates] /\ lobby \in [Lobbies -> LobbyStates]
      /\ old.at = "create" /\ UNCHANGED <<msg, setting>>
  BY DEF TypeInv, PromptTypeOK, CreatePendingMatch, faultVars
<1>1. f \in Lobbies /\ lobby[f] = NoLobby
  BY DEF CreatePendingMatch, FreshLobby
<1>2. new.at = "edit" /\ new.lobby = f /\ new.msg = old.msg /\ made.status = "active"
  BY <1>0 DEF ClickStates
<1>3. click' = [click EXCEPT ![k] = new] /\ lobby' = [lobby EXCEPT ![f] = made]
  BY <1>0 DEF CreatePendingMatch
<1>. HIDE DEF f, new, made
<1>4. /\ click'[k] = new /\ \A j \in Clicks \ {k} : click'[j] = click[j]
      /\ lobby'[f] = made /\ \A l \in Lobbies \ {f} : lobby'[l] = lobby[l]
  BY <1>0, <1>1, <1>3
<1>. SUFFICES ASSUME Careful PROVE (\A j \in Clicks : Owns(j)') /\ Apart' /\ AllShown'
  BY <1>0 DEF ShownInv, Careful
<1>5. lobby[f].status = "none"
  BY <1>1 DEF NoLobby
<1>6. \A j \in Clicks : Owns(j)'
  <2>1. Owns(k)'
    BY <1>0, <1>1, <1>2, <1>4 DEF ShownInv, Owns
  <2>2. ASSUME NEW j \in Clicks \ {k} PROVE Owns(j)'
    BY <1>0, <1>2, <1>4 DEF ShownInv, Owns
  <2>. QED
    BY <2>1, <2>2
<1>7. \A j \in Clicks : click[j].lobby # f
  BY <1>1, <1>5 DEF ShownInv, Owns
<1>8. old # NoClick
  BY <1>0 DEF NoClick
<1>9. Apart'
  BY <1>2, <1>4, <1>7, <1>8 DEF ShownInv, Apart
<1>10. AllShown'
  <2>. SUFFICES ASSUME NEW l \in Lobbies, lobby'[l].status # "none", ~Working(l)',
                       lobby'[l].message # Elsewhere
                PROVE  IsShown(l)'
    BY DEF AllShown
  <2>1. l # f
    BY <1>2, <1>4 DEF Working
  <2>2. ~Working(l)
    <3>1. old.lobby = Nothing
      BY <1>0 DEF ShownInv, Owns
    <3>. QED
      BY <1>4, <3>1 DEF Working
  <2>. QED
    BY <1>0, <1>4, <2>1, <2>2 DEF ShownInv, AllShown, IsShown
<1>. QED
  BY <1>6, <1>9, <1>10

LEMMA ShownAttach ==
    ASSUME TypeInv, ShownInv, NEW k \in Clicks, AttachCreatedMatchMessage(k)
    PROVE  ShownInv'
<1>. DEFINE old == click[k]
            l == old.lobby
            i == old.msg
<1>0. /\ click \in [Clicks -> ClickStates] /\ lobby \in [Lobbies -> LobbyStates]
      /\ old.at = "attach" /\ UNCHANGED <<msg, setting>>
      /\ click' = [click EXCEPT ![k] = NoClick]
      /\ lobby' = [lobby EXCEPT ![l].message = i]
  BY DEF TypeInv, PromptTypeOK, AttachCreatedMatchMessage, Return, faultVars
<1>. SUFFICES ASSUME Careful PROVE (\A j \in Clicks : Owns(j)') /\ Apart' /\ AllShown'
  BY <1>0 DEF ShownInv, Careful
<1>1. l \in Lobbies /\ msg[i].shows = "lobby" /\ msg[i].lobby = l /\ old # NoClick
  BY <1>0 DEF ShownInv, Owns, NoClick
<1>2. i \in Messages
  BY <1>1 DEF TypeInv, ClickOK
<1>. HIDE DEF l, i
<1>3. /\ lobby'[l].message = i /\ \A n \in Lobbies : lobby'[n].status = lobby[n].status
      /\ \A n \in Lobbies \ {l} : lobby'[n] = lobby[n]
      /\ click'[k] = NoClick /\ \A j \in Clicks \ {k} : click'[j] = click[j]
  BY <1>0, <1>1 DEF LobbyStates
<1>4. \A j \in Clicks : Owns(j)'
  <2>1. Owns(k)'
    BY <1>3 DEF Owns, NoClick
  <2>2. ASSUME NEW j \in Clicks \ {k} PROVE Owns(j)'
    BY <1>0, <1>3 DEF ShownInv, Owns
  <2>. QED
    BY <2>1, <2>2
<1>5. Apart'
  BY <1>3 DEF ShownInv, Apart, NoClick
<1>6. AllShown'
  <2>. SUFFICES ASSUME NEW n \in Lobbies, lobby'[n].status # "none", ~Working(n)',
                       lobby'[n].message # Elsewhere
                PROVE  IsShown(n)'
    BY DEF AllShown
  <2>1. CASE n = l
    BY <1>0, <1>1, <1>2, <1>3, <2>1 DEF IsShown
  <2>2. CASE n # l
    <3>1. ~Working(n)
      BY <1>3, <2>2 DEF Working, l
    <3>. QED
      BY <1>0, <1>3, <2>2, <3>1 DEF ShownInv, AllShown, IsShown
  <2>. QED
    BY <2>1, <2>2
<1>. QED
  BY <1>4, <1>5, <1>6

LEMMA ShownClicks ==
    ASSUME TypeInv, ShownInv, NEW k \in Clicks,
           ClickStep(k) \/ FailClick(k)
             \/ \E i \in Messages : HandleOpen(k, i) \/ HandleDismiss(k, i)
    PROVE  ShownInv'
<1>. DEFINE old == click[k]
<1>0. /\ old \in ClickStates /\ click \in [Clicks -> ClickStates]
      /\ msg \in [Messages -> MsgStates] /\ NoClick \in ClickStates
  BY IdleTypes DEF TypeInv, PromptTypeOK
<1>1. old.at # "idle" => old # NoClick /\ old.msg \in Messages
  BY DEF NoClick, TypeInv, ClickOK
<1>2. Careful /\ old # NoClick =>
        \A j \in Clicks \ {k} : click[j] # NoClick => click[j].msg # old.msg
  BY DEF ShownInv, Apart
<1>3. ASSUME NEW i \in Messages, NEW at \in {"check", "delete"}, Press(k, i, at)
      PROVE  ShownInv'
  <2>. DEFINE new == [NoClick EXCEPT !.at = at, !.msg = i]
  <2>0. old.lobby = Nothing
    BY <1>3 DEF NoClick, Press
  <2>1. new \in ClickStates /\ new.msg = i /\ new.at = at /\ new.lobby = Nothing
    BY DEF ClickStates, NoClick
  <2>2. /\ click' = [click EXCEPT ![k] = new] /\ msg[i].shows = "prompt"
        /\ UNCHANGED <<lobby, msg, setting>>
    BY <1>3 DEF Press, faultVars
  <2>. HIDE DEF new
  <2>3. Careful => \A j \in Clicks \ {k} : click[j] # NoClick => click[j].msg # i
    BY <1>3 DEF Press, HostIdle, Careful
  <2>4. click'[k] = new
    BY <1>0, <2>2
  <2>5. Owns(k)'
    BY <2>1, <2>2, <2>4 DEF Owns
  <2>. QED
    BY <2>0, <2>1, <2>2, <2>3, <2>4, <2>5, ShownClick
<1>4. CASE CheckCreate(k)
  <2>0. old.at = "check" /\ UNCHANGED <<lobby, msg, setting>>
    BY <1>4 DEF CheckCreate, faultVars
  <2>1. Careful => msg[old.msg].shows = "prompt" /\ old.lobby = Nothing
    BY <2>0 DEF ShownInv, Owns
  <2>2. CASE Return(k)
    <3>1. click' = [click EXCEPT ![k] = NoClick] /\ click'[k] = NoClick
      BY <1>0, <2>2 DEF Return
    <3>2. Owns(k)' /\ NoClick.lobby = Nothing
      BY <3>1 DEF Owns, NoClick
    <3>. QED
      BY <1>0, <1>1, <1>2, <2>0, <2>1, <3>1, <3>2, ShownClick
  <2>3. CASE Then(k, "create")
    <3>. DEFINE new == [old EXCEPT !.at = "create"]
    <3>1. /\ new \in ClickStates /\ new.msg = old.msg /\ new.lobby = old.lobby
          /\ new.at = "create"
      BY <1>0 DEF ClickStates
    <3>2. click' = [click EXCEPT ![k] = new]
      BY <1>0, <2>3 DEF Then
    <3>. HIDE DEF new
    <3>3. click'[k] = new
      BY <1>0, <3>2
    <3>4. Careful => Owns(k)'
      BY <2>0, <2>1, <3>1, <3>3 DEF Owns
    <3>. QED
      BY <1>1, <1>2, <2>0, <3>1, <3>2, <3>3, <3>4, ShownClick
  <2>. QED
    BY <1>4, <2>2, <2>3 DEF CheckCreate
<1>5. CASE CreatePendingMatch(k)
  BY <1>5, ShownCreate
<1>6. CASE EditMessage(k)
  <2>0. old.at = "edit" /\ UNCHANGED <<lobby, setting>>
    BY <1>6 DEF EditMessage, faultVars
  <2>1. Careful => msg[old.msg].shows = "prompt" /\ old.lobby \in Lobbies
                     /\ lobby[old.lobby].status # "none"
    BY <2>0 DEF ShownInv, Owns
  <2>2. CASE msg[old.msg].shows = "deleted"
    BY <1>6, <2>0, <2>1, <2>2 DEF ShownInv, Careful
  <2>3. CASE msg[old.msg].shows # "deleted"
    <3>. DEFINE new == [old EXCEPT !.at = "attach"]
                m == [msg[old.msg] EXCEPT !.shows = "lobby", !.lobby = old.lobby]
    <3>1. /\ new \in ClickStates /\ new.msg = old.msg /\ new.lobby = old.lobby
          /\ new.at = "attach"
      BY <1>0 DEF ClickStates
    <3>2. click' = [click EXCEPT ![k] = new] /\ msg' = [msg EXCEPT ![old.msg] = m]
      BY <1>0, <1>6, <2>3 DEF EditMessage, Then
    <3>3. msg[old.msg] \in MsgStates
      BY <1>0, <1>1, <2>0
    <3>4. m.shows = "lobby" /\ m.lobby = old.lobby
      BY <3>3 DEF MsgStates
    <3>. HIDE DEF new, m
    <3>5. /\ click'[k] = new /\ msg'[old.msg] = m
          /\ \A n \in Messages \ {old.msg} : msg'[n] = msg[n]
      BY <1>0, <1>1, <2>0, <3>2
    <3>6. Careful => Owns(k)'
      BY <2>0, <2>1, <3>1, <3>4, <3>5 DEF Owns
    <3>. QED
      BY <1>1, <1>2, <2>0, <2>1, <3>1, <3>2, <3>5, <3>6, ShownClick
  <2>. QED
    BY <2>2, <2>3
<1>7. CASE AttachCreatedMatchMessage(k)
  BY <1>7, ShownAttach
<1>8. CASE DeleteMessage(k)
  <2>0. /\ old.at = "delete" /\ UNCHANGED <<lobby, setting>>
        /\ click' = [click EXCEPT ![k] = NoClick]
    BY <1>8 DEF DeleteMessage, Return, faultVars
  <2>1. Careful => msg[old.msg].shows = "prompt" /\ old.lobby = Nothing
    BY <2>0 DEF ShownInv, Owns
  <2>2. UNCHANGED msg \/ msg' = [msg EXCEPT ![old.msg].shows = "deleted"]
    BY <1>8 DEF DeleteMessage
  <2>3. \A n \in Messages \ {old.msg} : msg'[n] = msg[n]
    BY <1>0, <2>2
  <2>4. click'[k] = NoClick
    BY <1>0, <2>0
  <2>5. Owns(k)' /\ NoClick.lobby = Nothing
    BY <2>4 DEF Owns, NoClick
  <2>. QED
    BY <1>0, <1>1, <1>2, <2>0, <2>1, <2>3, <2>4, <2>5, ShownClick
<1>9. CASE FailClick(k)
  BY <1>9 DEF FailClick, ShownInv, Careful
<1>. QED
  BY <1>3, <1>4, <1>5, <1>6, <1>7, <1>8, <1>9 DEF ClickStep, HandleOpen, HandleDismiss

LEMMA NextShown == TypeInv /\ ShownInv /\ [PromptNext]_promptVars => ShownInv'
<1>. SUFFICES ASSUME TypeInv, ShownInv, [PromptNext]_promptVars PROVE ShownInv'
  OBVIOUS
<1>1. CASE UNCHANGED promptVars
  <2>1. UNCHANGED <<lobby, click, msg, setting>>
    BY <1>1 DEF promptVars, chatVars, faultVars
  <2>. QED
    BY <2>1, ShownRest
<1>2. ASSUME NEW t \in Ticks, StartTick(t) \/ TickStep(t) \/ FailTick(t) PROVE ShownInv'
  <2>1. UNCHANGED <<lobby, click, setting>>
    BY <1>2 DEF StartTick, TickStep, FailTick, FetchGamelist, LoadLinkedPlayers, LookUp, Post,
                RecordPrompt, EndTick, chatVars, faultVars
  <2>2. \A i \in Messages : msg[i].shows # "nothing" => msg'[i] = msg[i]
    <3>1. CASE Post(t)
      <4>1. FreshMessage \in Messages /\ msg[FreshMessage] = NoMsg
        BY <3>1 DEF Post, FreshMessage
      <4>2. msg[FreshMessage].shows = "nothing"
        BY <4>1 DEF NoMsg
      <4>. QED
        BY <3>1, <4>1, <4>2 DEF Post, TypeInv, PromptTypeOK
    <3>2. CASE UNCHANGED msg
      BY <3>2
    <3>. QED
      BY <1>2, <3>1, <3>2
      DEF StartTick, TickStep, FailTick, FetchGamelist, LoadLinkedPlayers, LookUp, RecordPrompt,
          EndTick, chatVars
  <2>. QED
    BY <2>1, <2>2, ShownRest
<1>3. ASSUME NEW l \in Lobbies, EndLobby(l) PROVE ShownInv'
  <2>1. lobby \in [Lobbies -> LobbyStates] /\ UNCHANGED <<msg, click, setting>>
    BY <1>3 DEF EndLobby, TypeInv, PromptTypeOK, faultVars
  <2>. QED
    BY <1>3, <2>1, ShownLobby DEF EndLobby, LobbyStates
<1>4. ASSUME NEW g \in setting.games, RegisterLobby(g) PROVE ShownInv'
  <2>. DEFINE made == [status |-> "active", game |-> g, message |-> Elsewhere]
  <2>1. lobby \in [Lobbies -> LobbyStates] /\ UNCHANGED <<msg, click, setting>>
    BY <1>4 DEF RegisterLobby, TypeInv, PromptTypeOK, faultVars
  <2>2. lobby' = [lobby EXCEPT ![FreshLobby] = made]
    BY <1>4 DEF RegisterLobby
  <2>3. made.status = "active" /\ made.message = Elsewhere
    OBVIOUS
  <2>. HIDE DEF made
  <2>. QED
    BY <2>1, <2>2, <2>3, ShownLobby
<1>5. CASE \/ \E a \in Admins, c \in Channels : CheckLobbyChannel(a, c) \/ CheckHostPrompt(a, c)
           \/ \E a \in Admins : UpdateLeague(a)
           \/ Configure
           \/ \E g \in setting.games : SetHostPromptPings(g) \/ ListChanges(g)
  <2>1. UNCHANGED <<msg, lobby, click, setting>>
    BY <1>5 DEF CheckLobbyChannel, CheckHostPrompt, UpdateLeague, Configure, MayConfigure,
                SetHostPromptPings, ListChanges, chatVars, faultVars
  <2>. QED
    BY <2>1, ShownRest
<1>6. CASE Restart
  BY <1>6 DEF Restart, ShownInv, Careful
<1>. QED
  BY <1>1, <1>2, <1>3, <1>4, <1>5, <1>6, ShownClicks DEF PromptNext

(* A lobby that was opened from a prompt shows in the prompt's message,    *)
(* and knows it, as soon as its handler is done, as long as the host       *)
(* presses one button at a time and nothing fails.                         *)
THEOREM LobbiesAreShown == PromptSpec => []LobbyShown
<1>1. PromptInit => ShownInv
  BY DEF PromptInit, ShownInv, Owns, Apart, AllShown, NoClick, NoLobby
<1>2. ShownInv => LobbyShown
  BY DEF ShownInv, Careful, AllShown, IsShown, LobbyShown
<1>. QED
  BY <1>1, <1>2, TypeInvariant, NextShown, PTL DEF PromptSpec
=============================================================================

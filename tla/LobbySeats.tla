----------------------------- MODULE LobbySeats -----------------------------
(* The seats of one lobby before its match starts: who edits them, from the  *)
(* buttons and menus of its message, by commands, by reading the game's own  *)
(* list or a screenshot, and by balancing; the locks on them; and what the   *)
(* message in the channel shows.                                             *)
(*                                                                           *)
(* Every edit reads the roster, works out a whole new one, and later         *)
(* rewrites the rows in a transaction that locks nothing: it reads the rows  *)
(* it replaces, and commits. Then it draws the message from what it wrote.   *)
(* Players, commands and imports overlap at each of these steps.             *)
(*                                                                           *)
(* Captain drafts, which freeze the lobby, are in LobbyFreeze; host caps,    *)
(* games and the rest of a match's life in MatchLifecycle; seasons that      *)
(* refuse play in Season.                                                    *)
EXTENDS Naturals, FiniteSets

CONSTANTS
    Players, Slots, \* Slots are numbers, as in the game
    Side,           \* the team of each slot
    Users,          \* those who have a menu open
    Jobs,           \* edits under way at once
    Plans,          \* features used together: the bound of a run
    Picks,          \* the slots one lock command may name: a bound
    Lists,          \* the seatings read from outside: a bound
    MaxMarks,       \* how many edits count as made by hand
    None

Sides == {1, 2}

VARIABLES
    status,     \* of the match
    row,        \* its players: their slots and locks
    authority,  \* the last edit by hand; times are counted in such edits
    linked,     \* whether the match knows its game
    message,    \* what the lobby's message shows
    page,       \* the private menu each user has open
    job,        \* the edits under way
    stale,      \* what has been written over something newer
    plan

vars == <<status, row, authority, linked, message, page, job, stale, plan>>

Statuses == {"none", "PENDING", "IN_PROGRESS", "CANCELLED"}
Seatings == [Players -> Slots \cup {None}]
NoRow == [slot |-> None, locked |-> FALSE, sideLocked |-> FALSE]
Rows == [Players -> [slot : Slots \cup {None}, locked : BOOLEAN, sideLocked : BOOLEAN]]
Modes == {"none", "slot", "side"}
Shows == [mode : Statuses, seat : Seatings]

ASSUME LobbySeatsAssumption ==
    /\ Slots \subseteq Nat \ {0} /\ IsFiniteSet(Slots)
    /\ Side \in [Slots -> Sides]
    /\ IsFiniteSet(Jobs) /\ MaxMarks \in Nat \ {0}
    /\ Picks \subseteq (SUBSET Slots) \ {{}} /\ Lists \subseteq Seatings
    /\ None \notin Nat /\ None \notin Shows

(* A roster being worked on: seats, and those whose slot lock it gives up.   *)
Rosters == [seat : Seatings, freed : SUBSET Players]
Empty == [seat |-> [p \in Players |-> None], freed |-> {}]
matchToLobbyPlayers(r) == [seat |-> [p \in Players |-> r[p].slot], freed |-> {}]
Stored == matchToLobbyPlayers(row)

At(r, s) == {p \in Players : r.seat[p] = s}
Occupied(r) == {s \in Slots : At(r, s) # {}}
(* No slot and no nick twice; a roster maps each nick to one slot.           *)
assertValidSlots(r) ==
    \A p, q \in Players : r.seat[p] = r.seat[q] /\ p # q => r.seat[p] = None
TeamOf(r, t) == {p \in Players : r.seat[p] \in Slots /\ Side[r.seat[p]] = t}
canStartLobby(r) == \A t \in Sides : TeamOf(r, t) # {}

NoPage == [at |-> "none", options |-> {}, pick |-> 0]
Menus == {"none", "edit nick", "nick", "move", "destination", "remove", "team", "add",
          "claim", "lock", "cancel", "report"}
Steps == {"idle", "attach", "rewrite", "commit", "lock", "touch", "start", "cancel",
          "import", "sync"}

(* A job: the step it is at, the roster it will store, whether that is an    *)
(* edit by hand, one that balances, or comes from the game as it was seen at *)
(* `seen'; the locks to set; the rows its transaction has read; the edit by  *)
(* hand and the seats it has read; and whether nobody has written since.     *)
NoLocks == [p \in Players |-> None]
Idle == [at |-> "idle", next |-> Empty, kind |-> "none", seen |-> None, locks |-> NoLocks,
         prev |-> [p \in Players |-> NoRow], asof |-> 0, view |-> Empty.seat,
         mode |-> "PENDING", fresh |-> TRUE]
Kinds == {"none", "hand", "balance", "import", "report"}
ByHand == {"hand", "balance"}

TypeOK ==
    /\ status \in Statuses /\ row \in Rows /\ linked \in BOOLEAN
    /\ authority \in 0 .. MaxMarks
    /\ message \in Shows \cup {None}
    /\ page \in [Users -> [at : Menus, options : SUBSET (Slots \cup Sides \cup {0}), pick : Slots \cup Sides \cup {0}]]
    /\ \A j \in Jobs :
          /\ job[j].at \in Steps /\ job[j].next \in Rosters /\ job[j].kind \in Kinds
          /\ job[j].seen \in {None} \cup 0 .. MaxMarks
          /\ job[j].locks \in [Players -> Modes \cup {None}]
          /\ job[j].prev \in Rows /\ job[j].asof \in 0 .. MaxMarks
          /\ job[j].view \in Seatings /\ job[j].mode \in Statuses
          /\ job[j].fresh \in BOOLEAN
    /\ \A p \in Players :
          /\ ~(row[p].locked /\ row[p].sideLocked)
          /\ row[p].slot = None => row[p] = NoRow
    /\ stale \subseteq {"roster", "inside", "lock", "message", "failed"}
    /\ plan \in Plans

Init ==
    /\ status = "none" /\ row = [p \in Players |-> NoRow] /\ linked = FALSE
    /\ authority = 0 /\ message = None
    /\ page = [u \in Users |-> NoPage]
    /\ job = [j \in Jobs |-> Idle]
    /\ stale = {}
    /\ plan \in Plans
-----------------------------------------------------------------------------
(* The edits of a roster: each leads to one roster, or to none when it is    *)
(* refused.                                                                  *)
Refused == {}
When(ok, r) == IF ok THEN {r} ELSE Refused

addPlayer(r, p, s) ==
    When(At(r, s) = {} /\ r.seat[p] = None, [r EXCEPT !.seat[p] = s])

removePlayer(r, s) ==
    When(At(r, s) # {},
         [r EXCEPT !.seat = [p \in Players |-> IF r.seat[p] = s THEN None ELSE r.seat[p]]])

Reseated(r, from, to) ==
    [seat |-> [p \in Players |-> CASE r.seat[p] = from -> to
                                   [] r.seat[p] = to   -> from
                                   [] OTHER -> r.seat[p]],
     freed |-> r.freed \cup At(r, from) \cup At(r, to)]

swapPlayers(r, a, b) ==
    When(a # b /\ At(r, a) # {} /\ At(r, b) # {}, Reseated(r, a, b))

(* Moving into a taken slot swaps. *)
movePlayer(r, from, to) ==
    When(from # to /\ At(r, from) # {}, Reseated(r, from, to))

(* Pairs are applied one after the other; the bound is two of them.          *)
applyRemapPairs(r, a, b, c, d) == UNION {movePlayer(m, c, d) : m \in movePlayer(r, a, b)}

(* A new nick in a slot is a different player, who must not have another.    *)
editPlayerNick(r, s, q) ==
    When(Cardinality(At(r, s)) = 1 /\ r.seat[q] \in {None, s},
         [r EXCEPT !.seat = [p \in Players |-> IF p = q THEN s
                                               ELSE IF r.seat[p] = s THEN None ELSE r.seat[p]]])

rosterAfterClaim(r, p, s) ==
    UNION {addPlayer(r, p, s) : x \in When(r.seat[p] = None /\ At(r, s) = {}, 0)}
rosterAfterLeave(r, p) == UNION {removePlayer(r, r.seat[p]) : x \in When(r.seat[p] # None, 0)}

nextEmptySlotOnTeam(r, t) ==
    LET empty == {s \in Slots : Side[s] = t /\ At(r, s) = {}} IN
    {s \in empty : \A other \in empty : s <= other}
-----------------------------------------------------------------------------
(* How a job goes on. *)
Marking == {j \in Jobs : job[j].at \in {"rewrite", "commit", "touch"} /\ job[j].kind \in ByHand}
(* Bound: edits by hand, only one in a brief plan. *)
Room == authority + Cardinality(Marking) < (IF "brief" \in plan THEN 1 ELSE MaxMarks)

Begin(j, task) ==
    /\ job[j] = Idle
    /\ "overlap" \in plan \/ \A i \in Jobs : job[i] = Idle
    /\ job' = [job EXCEPT ![j] = task]

Edit(j, results, kind) ==
    \E r \in results :
        /\ kind \in ByHand => Room
        /\ Begin(j, [Idle EXCEPT !.at = "rewrite", !.next = r, !.kind = kind])

(* Every other job's reading is old once one has written.                    *)
Written(j, task) ==
    job' = [i \in Jobs |-> IF i = j THEN task
                           ELSE IF job[i] = Idle THEN Idle ELSE [job[i] EXCEPT !.fresh = FALSE]]
Noting(j, what) == stale' = IF job[j].fresh THEN stale ELSE stale \cup {what}

OnlyJobs == UNCHANGED <<status, row, authority, linked, message, stale, plan>>

resolveHostPendingMatch == status = "PENDING"
resolvePendingMatchForManage == status = "PENDING"
resolvePendingMatchByMessageId == status = "PENDING" /\ message # None

(* One transaction: the status and the rows it replaces, then the writes.    *)
replaceMatchRoster(j) ==
    /\ job[j].at = "rewrite" /\ status = "PENDING" /\ assertValidSlots(job[j].next)
    /\ job' = [job EXCEPT ![j].at = "commit", ![j].prev = row, ![j].fresh = TRUE]
    /\ Noting(j, "roster")
    /\ UNCHANGED <<status, row, authority, linked, message, page, plan>>

(* A slot lock stays with a player who stays in the slot, a side lock with   *)
(* one who stays on the team, whatever the roster was worked out from.       *)
reconcileMatchPlayerLocked(j, p) ==
    /\ job[j].prev[p].locked /\ job[j].prev[p].slot = job[j].next.seat[p]
    /\ p \notin job[j].next.freed
reconcileMatchPlayerSideLocked(j, p) ==
    job[j].prev[p].sideLocked /\ Side[job[j].prev[p].slot] = Side[job[j].next.seat[p]]

NextRow(j, p) ==
    LET locked == reconcileMatchPlayerLocked(j, p) IN
    [slot |-> job[j].next.seat[p], locked |-> locked,
     sideLocked |-> ~locked /\ reconcileMatchPlayerSideLocked(j, p)]

In(r, p) == r[p].slot # None
(* Slip: those the edit leaves out keep their seats. *)
DeletedNone(j) == {p \in Players : FALSE /\ job[j].next.seat[p] = None}
Deleted(j) == {p \in Players : In(job[j].prev, p) /\ job[j].next.seat[p] = None}
Created(j) == {p \in Players : ~In(job[j].prev, p) /\ job[j].next.seat[p] # None}
Updated(j) == {p \in Players : /\ In(job[j].prev, p) /\ job[j].next.seat[p] # None
                               /\ job[j].prev[p] # NextRow(j, p)}

(* A row created twice, or updated when it is gone, fails the transaction.   *)
Commits(j) == (\A p \in Created(j) : ~In(row, p)) /\ (\A p \in Updated(j) : In(row, p))
Replaced(j) ==
    [p \in Players |-> CASE p \in Deleted(j) -> NoRow
                         [] p \in Created(j) \cup Updated(j) -> NextRow(j, p)
                         [] OTHER -> row[p]]

applyRosterAndSync(j) ==
    /\ job[j].at = "commit" /\ Commits(j)
    /\ row' = Replaced(j)
    /\ authority' = IF job[j].kind \in ByHand THEN authority + 1 ELSE authority
    /\ Written(j, [Idle EXCEPT !.at = "sync", !.view = matchToLobbyPlayers(row').seat])
    /\ Noting(j, "inside")
    /\ UNCHANGED <<status, linked, message, page, plan>>

(* The message is drawn from what the job wrote or read; drawing may fail,   *)
(* and does nothing before the message is attached.                          *)
buildMatchLobbyEmbed(mode, seat) == [mode |-> mode, seat |-> seat]
syncLobbyDiscordMessage(j) ==
    /\ job[j].at = "sync"
    /\ \/ /\ message' = IF message = None THEN None
                        ELSE buildMatchLobbyEmbed(job[j].mode, job[j].view)
          /\ Noting(j, "message")
       \/ /\ "failures" \in plan /\ message' = message /\ stale' = stale \cup {"failed"}
    /\ job' = [job EXCEPT ![j] = Idle]
    /\ UNCHANGED <<status, row, authority, linked, page, plan>>

(* A refused second look, or a transaction that fails, ends a job.           *)
GiveUp(j) ==
    /\ \/ job[j].at \in {"rewrite", "touch"} /\ status # "PENDING"
       \/ job[j].at = "rewrite" /\ ~assertValidSlots(job[j].next)
       \/ job[j].at = "commit" /\ ~Commits(j)
       \/ job[j].at = "lock" /\ \E p \in Players : job[j].locks[p] # None /\ ~In(row, p)
    /\ job' = [job EXCEPT ![j] = Idle]
    /\ UNCHANGED <<status, row, authority, linked, message, page, stale, plan>>
-----------------------------------------------------------------------------
(* The services: each reads the match and its roster, and begins a job.      *)
addLobbyPlayer(j) ==
    /\ resolveHostPendingMatch
    /\ \E p \in Players, s \in Slots : Edit(j, addPlayer(Stored, p, s), "hand")

claimLobbySlot(j, s) ==
    /\ resolvePendingMatchByMessageId /\ "claims" \in plan
    /\ \E p \in Players : Edit(j, rosterAfterClaim(Stored, p, s), "hand")

leaveLobbySlot(j) ==
    /\ resolvePendingMatchByMessageId /\ "claims" \in plan
    /\ \E p \in Players : Edit(j, rosterAfterLeave(Stored, p), "hand")

removeLobbyPlayer(j) ==
    /\ resolvePendingMatchForManage
    /\ \E s \in Slots : Edit(j, removePlayer(Stored, s), "hand")

swapLobbyPlayers(j) ==
    /\ resolveHostPendingMatch
    /\ \E s, t \in Slots : Edit(j, swapPlayers(Stored, s, t), "hand")

remapLobbyPlayers(j) ==
    /\ resolveHostPendingMatch
    /\ \E a, b, c, d \in Slots : Edit(j, applyRemapPairs(Stored, a, b, c, d), "hand")

(* A menu's click looks at the match again before it stores its roster.      *)
applyRosterUpdateForMessage(j, results) ==
    /\ resolvePendingMatchByMessageId
    /\ Edit(j, results, "hand")

(* Locks: the rows are read, and the locks set later, player by player,      *)
(* whatever has become of the match; the menu's reading and the service's    *)
(* are taken as one.                                                         *)
lockModeOf(p) == IF row[p].locked THEN "slot" ELSE IF row[p].sideLocked THEN "side" ELSE "none"

Sitting(S) == {who \in [S -> Players] : \A s \in S : who[s] \in At(Stored, s)}

LocksIn(S, mode) ==
    {[p \in Players |-> IF \E s \in S : who[s] = p THEN mode ELSE None] : who \in Sitting(S)}

(* A menu names everybody who has the lock: the others lose it.              *)
lockChangesForSelection(S, mode) ==
    {[p \in Players |->
        IF \A s \in Occupied(Stored) : who[s] # p THEN None
        ELSE IF row[p].slot \in S THEN mode
        ELSE IF lockModeOf(p) = mode THEN "none" ELSE lockModeOf(p)] :
     who \in Sitting(Occupied(Stored))}

Lock(j, locks) == \E l \in locks : Begin(j, [Idle EXCEPT !.at = "lock", !.locks = l])

lockLobbySlots(j) ==
    /\ resolvePendingMatchForManage
    /\ \E S \in Picks, mode \in {"slot", "side"} : Lock(j, LocksIn(S, mode))

unlockLobbySlots(j) ==
    /\ resolvePendingMatchForManage
    /\ \E S \in Picks : Lock(j, LocksIn(S, "none"))

setLobbyLockedSlots(j, S, mode) ==
    /\ resolvePendingMatchForManage /\ S \subseteq Occupied(Stored)
    /\ Lock(j, lockChangesForSelection(S, mode))

setMatchPlayersLocked(j) ==
    /\ job[j].at = "lock" /\ \A p \in Players : job[j].locks[p] # None => In(row, p)
    /\ row' = [p \in Players |->
                 IF job[j].locks[p] = None THEN row[p]
                 ELSE [row[p] EXCEPT !.locked = (job[j].locks[p] = "slot"),
                                     !.sideLocked = (job[j].locks[p] = "side")]]
    /\ Written(j, [Idle EXCEPT !.at = "sync", !.view = Stored.seat])
    /\ stale' = IF status = "PENDING" THEN stale ELSE stale \cup {"lock"}
    /\ UNCHANGED <<status, authority, linked, message, page, plan>>

(* Balancing leads to any other seating of the same players that leaves the  *)
(* locked where they are, those locked to a side on it, and the teams no     *)
(* further apart in numbers; ratings choose among these.                     *)
groupSplit(seat) ==
    LET team(t) == Cardinality(TeamOf([seat |-> seat], t)) IN
    IF team(1) > team(2) THEN team(1) - team(2) ELSE team(2) - team(1)

(* Slip: locks to a side are not looked at. *)
placeMoversAnywhere(seat) ==
    \A p \in Players : In(row, p) =>
        /\ seat[p] # None
        /\ (row[p].locked => seat[p] = row[p].slot)
placeMovers(seat) ==
    \A p \in Players : In(row, p) =>
        /\ seat[p] # None
        /\ (row[p].locked => seat[p] = row[p].slot)
        /\ (row[p].sideLocked => Side[seat[p]] = Side[row[p].slot])

findBalancedRoster ==
    {[seat |-> seat, freed |-> {}] : seat \in
        {other \in Seatings :
            /\ other # Stored.seat /\ assertValidSlots([seat |-> other])
            /\ \A p \in Players : ~In(row, p) => other[p] = None
            /\ placeMovers(other) /\ canStartLobby([seat |-> other])
            /\ groupSplit(other) <= groupSplit(Stored.seat)}}

balanceLobbyRoster(j) ==
    /\ resolvePendingMatchForManage /\ "balance" \in plan
    /\ Edit(j, findBalancedRoster, "balance")
-----------------------------------------------------------------------------
(* Rosters from outside: a screenshot, the game's own list, a report's text. *)
Readable == {[seat |-> seat, freed |-> {}] : seat \in
                 {s \in Lists : assertValidSlots([seat |-> s])}}
tryExtractLobbyPlayers == Readable
extractWc3statsRoster == Readable

(* Nothing read from a screenshot keeps the roster, and still counts as an   *)
(* edit by hand.                                                             *)
refreshLobbyFromScreenshot(j) ==
    /\ resolvePendingMatchForManage
    /\ \/ Edit(j, tryExtractLobbyPlayers \ {Empty}, "hand")
       \/ Room /\ Begin(j, [Idle EXCEPT !.at = "touch", !.kind = "hand"])

touchLobbyRosterAuthority(j) ==
    /\ job[j].at = "touch" /\ status = "PENDING"
    /\ authority' = authority + 1
    /\ Written(j, [Idle EXCEPT !.at = "sync", !.view = Stored.seat])
    /\ UNCHANGED <<status, row, linked, message, page, stale, plan>>

(* A refresh within seconds of the last one is refused: the bound is one at  *)
(* a time.                                                                   *)
refreshLobbyFromWc3stats(j) ==
    /\ status = "PENDING" /\ \A i \in Jobs : job[i].kind # "import"
    /\ Begin(j, [Idle EXCEPT !.at = "import", !.kind = "import", !.asof = authority,
                             !.view = Stored.seat])

(* The game's list was seen after so many edits by hand, or at no known      *)
(* time: it is fresh when none came after it.                                *)
Sightings == {None} \cup 0 .. authority
(* Slip: a list with no time counts as fresh. *)
isWc3statsRosterFreshUndated(seen, asof) == asof = 0 \/ seen = None \/ seen >= asof
isWc3statsRosterFresh(seen, asof) == asof = 0 \/ (seen # None /\ seen >= asof)

(* What the list leads to, read against the roster as the job knows it: no   *)
(* change, or a roster. A list that names nobody leaves a filled lobby alone. *)
applyWc3statsRefresh(j, known, seen) ==
    \E usable \in BOOLEAN, list \in extractWc3statsRoster :
        LET next == IF usable THEN list ELSE [seat |-> known.view, freed |-> {}] IN
        /\ (~usable => list = Empty)
        /\ IF isWc3statsRosterFresh(seen, known.asof) /\ (usable \/ known.view = Empty.seat)
           THEN job' = [job EXCEPT ![j] = [known EXCEPT !.at = "rewrite", !.next = next,
                                                        !.seen = seen, !.asof = 0,
                                                        !.view = Empty.seat]]
           ELSE job' = [job EXCEPT ![j] = [known EXCEPT !.at = "sync", !.kind = "none",
                                                        !.asof = 0]]

(* A game not yet known is linked first, which reads the match again; the    *)
(* import or the link may fail.                                              *)
importAndMaybeLinkWc3stats(j) ==
    /\ job[j].at = "import"
    /\ \/ /\ linked /\ linked' = linked
          /\ \E seen \in Sightings : applyWc3statsRefresh(j, job[j], seen)
       \/ /\ ~linked /\ status = "PENDING" /\ linked' = TRUE
          /\ \E seen \in Sightings :
                 applyWc3statsRefresh(j, [job[j] EXCEPT !.asof = authority, !.fresh = TRUE,
                                                        !.view = Stored.seat], seen)
       \/ job' = [job EXCEPT ![j] = Idle] /\ linked' = linked
    /\ UNCHANGED <<status, row, authority, message, page, stale, plan>>

(* A pasted report fills both teams; it does not count as made by hand.      *)
BothTeams == {r \in Readable : canStartLobby(r)}
fillLobbyFromWos2Report(j) == status = "PENDING" /\ Edit(j, BothTeams, "report")
-----------------------------------------------------------------------------
(* Creating, starting and cancelling the match.                              *)
Fresh(r) == [p \in Players |-> [NoRow EXCEPT !.slot = r.seat[p]]]

createPendingMatch(j, r, mark, game) ==
    /\ status' = "PENDING" /\ row' = Fresh(r) /\ authority' = mark /\ linked' = game
    /\ message' = None /\ page' = [u \in Users |-> NoPage]
    /\ Begin(j, [Idle EXCEPT !.at = "attach", !.view = r.seat])
    /\ UNCHANGED <<stale, plan>>

(* Events take a bare lobby or a screenshot, and know no games.              *)
registerForEvent(j) ==
    \/ createPendingMatch(j, Empty, 0, FALSE)
    \/ "screens" \in plan /\ \E r \in tryExtractLobbyPlayers : createPendingMatch(j, r, 1, FALSE)

replyWithWos2ReportLobby(j) == \E r \in BothTeams : createPendingMatch(j, r, 0, FALSE)

(* A game by its number, or the host's own, with its list or without; a      *)
(* screenshot comes before the game's list, and is an edit by hand.          *)
resolveRegisterLobbySource ==
    IF "screens" \in plan THEN {"screenshot", "wc3stats"} ELSE {"wc3stats"}
registerForGame(j) ==
    \E source \in resolveRegisterLobbySource :
        IF source = "screenshot"
        THEN \E r \in tryExtractLobbyPlayers : createPendingMatch(j, r, 1, TRUE)
        ELSE \E r \in extractWc3statsRoster : createPendingMatch(j, r, 0, TRUE)

registerLobby(j) ==
    /\ status = "none"
    /\ registerForEvent(j) \/ replyWithWos2ReportLobby(j) \/ ("imports" \in plan /\ registerForGame(j))

(* The bot sees a new game and asks its host, who opens a lobby for it.      *)
createMatchFromWc3statsLobby(j) ==
    \E r \in extractWc3statsRoster : createPendingMatch(j, r, 0, TRUE)
handleOpen(j) == status = "none" /\ "imports" \in plan /\ createMatchFromWc3statsLobby(j)

(* The message shows the roster as it was created.                           *)
attachDiscordMessage(j) ==
    /\ job[j].at = "attach"
    /\ message' = buildMatchLobbyEmbed("PENDING", job[j].view)
    /\ Noting(j, "message")
    /\ job' = [job EXCEPT ![j] = Idle]
    /\ UNCHANGED <<status, row, authority, linked, page, plan>>

(* The seats of a cancelled lobby in a new one: no locks, nothing by hand.   *)
recreateLobbyFromVoidedMatch(j) ==
    /\ status = "CANCELLED" /\ "lifecycle" \in plan /\ \A i \in Jobs : job[i] = Idle
    /\ createPendingMatch(j, Stored, 0, linked)

startMatch(j) ==
    /\ status = "PENDING" /\ canStartLobby(Stored)
    /\ Begin(j, [Idle EXCEPT !.at = "start"])

cancelMatch(j) == status = "PENDING" /\ Begin(j, [Idle EXCEPT !.at = "cancel"])

(* Slip: nothing draws the message afterwards. *)
SetStatusUnseen(j) ==
    /\ job[j].at \in {"start", "cancel"}
    /\ status' = IF job[j].at = "start" THEN "IN_PROGRESS" ELSE "CANCELLED"
    /\ Written(j, Idle)
    /\ Noting(j, "roster")
    /\ UNCHANGED <<row, authority, linked, message, page, plan>>
(* The status is then set whatever it has become.                            *)
SetStatus(j) ==
    /\ job[j].at \in {"start", "cancel"}
    /\ status' = IF job[j].at = "start" THEN "IN_PROGRESS" ELSE "CANCELLED"
    /\ Written(j, [Idle EXCEPT !.at = "sync", !.view = Stored.seat, !.mode = status'])
    /\ Noting(j, "roster")
    /\ UNCHANGED <<row, authority, linked, message, page, plan>>
-----------------------------------------------------------------------------
(* The commands.                                                             *)
rosterCommands(j) ==
    "commands" \in plan /\ (\/ addLobbyPlayer(j) \/ removeLobbyPlayer(j)
                            \/ swapLobbyPlayers(j) \/ remapLobbyPlayers(j))

hostCommands(j) ==
    \/ "locks" \in plan /\ (lockLobbySlots(j) \/ unlockLobbySlots(j))
    \/ balanceLobbyRoster(j)
    \/ "lifecycle" \in plan /\ (startMatch(j) \/ cancelMatch(j))

refreshCommands(j) ==
    \/ "screens" \in plan /\ refreshLobbyFromScreenshot(j)
    \/ "imports" \in plan /\ refreshLobbyFromWc3stats(j)

execute(j) ==
    /\ rosterCommands(j) \/ hostCommands(j) \/ refreshCommands(j)
    /\ UNCHANGED page /\ OnlyJobs

(* The buttons on the message as it is shown now. *)
buildLobbyButtons ==
    LET seat == [seat |-> message.seat]
        open == Occupied(seat) # Slots
    IN  {"edit", "move", "remove", "lock", "cancel", "report", "balance"}
        \cup (IF open THEN {"add"} ELSE {})
        \cup (IF "claims" \in plan THEN {"leave"} ELSE {})
        \cup (IF "claims" \in plan /\ open THEN {"claim"} ELSE {})
        \cup (IF "imports" \in plan THEN {"refresh"} ELSE {})
        \cup (IF canStartLobby(seat) THEN {"start"} ELSE {})

Pressed(button) ==
    message # None /\ message.mode = "PENDING" /\ button \in buildLobbyButtons

(* A button opens a private menu drawn from the roster as stored.            *)
Opens(u, button, at, options) ==
    /\ Pressed(button) /\ resolvePendingMatchByMessageId /\ options # {}
    /\ page' = [page EXCEPT ![u] = [at |-> at, options |-> options, pick |-> 0]]
    /\ UNCHANGED job /\ OnlyJobs

handleEditNick(u) == "menus" \in plan /\ Opens(u, "edit", "edit nick", Occupied(Stored))
handleMove(u) == "menus" \in plan /\ Opens(u, "move", "move", Occupied(Stored))
handleRemove(u) == "menus" \in plan /\ Opens(u, "remove", "remove", Occupied(Stored))
handleLockToggleEntry(u) == "locks" \in plan /\ Opens(u, "lock", "lock", Occupied(Stored))
handleCancelEntry(u) == "lifecycle" \in plan /\ Opens(u, "cancel", "cancel", Slots)
handleReportFromFile(u) == "screens" \in plan /\ Opens(u, "report", "report", Slots)
claimSlotSelectOptions == Slots \ Occupied(Stored)
handleClaim(u) == "claims" \in plan /\ Opens(u, "claim", "claim", claimSlotSelectOptions)

(* Games that bind heroes to slots ask for a slot, the others for a team.    *)
addTeamSelectOptions == {t \in Sides : nextEmptySlotOnTeam(Stored, t) # {}}
handleAdd(u) ==
    /\ "menus" \in plan /\ Occupied(Stored) # Slots
    /\ IF "teams" \in plan THEN Opens(u, "add", "team", addTeamSelectOptions)
                           ELSE Opens(u, "add", "add", Slots)

(* A choice in a menu leads to the next one, or closes it; the match and the *)
(* roster are read again, the choice is a slot.                              *)
Leads(u, from, at, options, pick) ==
    /\ page[u].at = from /\ pick \in page[u].options
    /\ resolvePendingMatchByMessageId /\ options # {}
    /\ page' = [page EXCEPT ![u] = [at |-> at, options |-> options, pick |-> pick]]
    /\ UNCHANGED job /\ OnlyJobs
Closes(u, from) ==
    page[u].at = from /\ page' = [page EXCEPT ![u] = NoPage] /\ OnlyJobs

handleSelectEditNick(u) ==
    \E s \in Occupied(Stored) : Leads(u, "edit nick", "nick", Slots, s)
handleModalEditNick(u, j) ==
    /\ Closes(u, "nick")
    /\ \E q \in Players :
          applyRosterUpdateForMessage(j, editPlayerNick(Stored, page[u].pick, q))

(* Games without slots of their own offer the other team, here 0, whose next *)
(* empty seat is found when it is chosen, and each other player for a swap.  *)
teamBasedDestinationOptions(from) ==
    (Occupied(Stored) \ {from}) \cup
    {0 : x \in When(nextEmptySlotOnTeam(Stored, 3 - Side[from]) # {}, 0)}
destinationSlotSelectOptions(from) ==
    IF "teams" \in plan THEN teamBasedDestinationOptions(from) ELSE Slots \ {from}
resolveDestinationSlot(from, choice) ==
    IF choice = 0 THEN nextEmptySlotOnTeam(Stored, 3 - Side[from]) ELSE {choice}
handleSelectMovePlayer(u) ==
    \E s \in Occupied(Stored) :
        Leads(u, "move", "destination", destinationSlotSelectOptions(s), s)
handleSelectMoveSlot(u, j) ==
    /\ Closes(u, "destination")
    /\ \E choice \in page[u].options, from \in {page[u].pick} :
          \E to \in resolveDestinationSlot(from, choice) :
              applyRosterUpdateForMessage(j, movePlayer(Stored, from, to))

handleSelectRemove(u, j) ==
    /\ Closes(u, "remove")
    /\ \E s \in page[u].options : applyRosterUpdateForMessage(j, removePlayer(Stored, s))

handleSelectAddTeam(u) ==
    \E t \in addTeamSelectOptions : Leads(u, "team", "add", Slots, t)
handleModalAdd(u, j) ==
    /\ Closes(u, "add")
    /\ \E s \in IF page[u].pick = 0 THEN Slots ELSE nextEmptySlotOnTeam(Stored, page[u].pick),
          p \in Players : applyRosterUpdateForMessage(j, addPlayer(Stored, p, s))

handleSelectClaim(u, j) ==
    Closes(u, "claim") /\ \E s \in page[u].options : claimLobbySlot(j, s)
handleSelectLock(u, j) ==
    /\ Closes(u, "lock") /\ resolvePendingMatchByMessageId
    /\ \E S \in SUBSET page[u].options, mode \in {"slot", "side"} : setLobbyLockedSlots(j, S, mode)
handleModalReportFile(u, j) ==
    Closes(u, "report") /\ resolvePendingMatchByMessageId /\ fillLobbyFromWos2Report(j)
handleCancelConfirm(u, j) == Closes(u, "cancel") /\ cancelMatch(j)
handleCancelKeep(u) == Closes(u, "cancel") /\ UNCHANGED job

(* Buttons that act at once. *)
Acts(button) == Pressed(button) /\ resolvePendingMatchByMessageId /\ UNCHANGED page /\ OnlyJobs
handleLeave(j) == Acts("leave") /\ leaveLobbySlot(j)
handleBalance(j) == Acts("balance") /\ balanceLobbyRoster(j)
handleRefresh(j) == Acts("refresh") /\ refreshLobbyFromWc3stats(j)
handleStart(j) == "lifecycle" \in plan /\ Acts("start") /\ startMatch(j)

handleButton(u, j) ==
    \/ handleEditNick(u) \/ handleMove(u) \/ handleRemove(u) \/ handleAdd(u)
    \/ handleClaim(u) \/ handleLeave(j) \/ handleRefresh(j) \/ handleLockToggleEntry(u)
    \/ handleBalance(j) \/ handleStart(j) \/ handleReportFromFile(u)
    \/ handleCancelEntry(u) \/ handleCancelConfirm(u, j) \/ handleCancelKeep(u)
handleSelect(u, j) ==
    \/ handleSelectEditNick(u) \/ handleSelectMovePlayer(u) \/ handleSelectMoveSlot(u, j)
    \/ handleSelectRemove(u, j) \/ handleSelectAddTeam(u) \/ handleSelectClaim(u, j)
    \/ handleSelectLock(u, j)
handleModal(u, j) ==
    handleModalEditNick(u, j) \/ handleModalAdd(u, j) \/ handleModalReportFile(u, j)

Next ==
    \/ \E j \in Jobs :
          \/ registerLobby(j) \/ handleOpen(j) \/ attachDiscordMessage(j) \/ recreateLobbyFromVoidedMatch(j)
          \/ execute(j) \/ \E u \in Users : handleButton(u, j)
          \/ \E u \in Users : handleSelect(u, j) \/ handleModal(u, j)
          \/ replaceMatchRoster(j) \/ applyRosterAndSync(j) \/ syncLobbyDiscordMessage(j)
          \/ setMatchPlayersLocked(j) \/ touchLobbyRosterAuthority(j)
          \/ importAndMaybeLinkWc3stats(j) \/ SetStatus(j) \/ GiveUp(j)

Spec == Init /\ [][Next]_vars
-----------------------------------------------------------------------------
(* Nobody shares a seat, however edits, claims, imports and balancing follow *)
(* each other on old readings, as long as no two transactions overlap: the   *)
(* rewrite checks its own roster, and nothing in the database does           *)
(* (replaceMatchRoster, match-service.ts).                                   *)
SeatsApart == "inside" \notin stale => assertValidSlots(Stored)

(* A rewrite adds no lock; a lock on a slot only stays with a player who     *)
(* stays there, and does stay unless the edit moved him; a lock on a side    *)
(* only with one who stays on it; and balancing a roster nobody has changed  *)
(* since moves no player locked to his slot, and none locked to a side off   *)
(* it (locked-slots.ts, lobby-balance.ts).                                   *)
KeepsLocks(j) ==
    \A p \in Players : In(row', p) =>
        /\ row'[p].locked => row[p].locked /\ row'[p].slot = row[p].slot
        /\ row'[p].sideLocked => row[p].sideLocked /\ Side[row'[p].slot] = Side[row[p].slot]
        /\ row[p].locked /\ row'[p].slot = row[p].slot => row'[p].locked \/ p \in job[j].next.freed
        /\ job[j].kind = "balance" /\ "roster" \notin stale' =>
              /\ (row[p].locked => row'[p].slot = row[p].slot)
              /\ (row[p].sideLocked => Side[row'[p].slot] = Side[row[p].slot])
Rewrites(j) == job[j].at = "commit" /\ job'[j].at = "sync"
LocksKept ==
    [][\A j \in Jobs : Rewrites(j) /\ "inside" \notin stale' => KeepsLocks(j)]_vars

(* Once every edit is done the message shows the roster and the status that  *)
(* are stored, unless it was drawn over a newer one or could not be drawn,   *)
(* a status was set inside a rewrite, or locks were set once the lobby was   *)
(* no longer open, which draws it open (syncLobbyDiscordMessage after each   *)
(* write, discord-sync.ts).                                                  *)
ShownAsStored ==
    (/\ status # "none" /\ \A j \in Jobs : job[j] = Idle
     /\ stale \cap {"inside", "lock", "message", "failed"} = {})
        => message = [mode |-> status, seat |-> Stored.seat]

(* The game's own list replaces the roster only if it was seen after the     *)
(* last edit made by hand, unless that edit came between its reading and its *)
(* writing (wc3stats-freshness.ts).                                          *)
ImportsFresh ==
    [][\A j \in Jobs :
          Rewrites(j) /\ job[j].kind = "import" /\ stale' \cap {"roster", "inside"} = {}
              => authority = 0 \/ (job[j].seen # None /\ job[j].seen >= authority)]_vars

(* A started match has somebody on both teams, unless an edit came between   *)
(* the start's look at the roster and its write (startMatch).                *)
StartedWhole ==
    status = "IN_PROGRESS" /\ stale \cap {"roster", "inside"} = {} => canStartLobby(Stored)

(* A roster is fit to be played whenever it is stored: well typed, one       *)
(* player a seat, and on both teams when the match has started.              *)
SeatsSound == TypeOK /\ SeatsApart /\ StartedWhole
=============================================================================

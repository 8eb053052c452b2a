--------------------------- MODULE DisplayCounters ---------------------------
(***************************************************************************)
(* Flags, sanctions and the display counters of one league.  A player's    *)
(* rating row keeps wins, losses, quits, griefs and DCs that are meant to  *)
(* equal what the match history since the player's last rank reset says;   *)
(* every transaction that changes the history counts it again for the      *)
(* players it touched and writes the result.                               *)
(*                                                                         *)
(* Transactions are READ COMMITTED: a statement sees what is committed and *)
(* the transaction's own writes.  A transaction reads its match, then      *)
(* works off a plan: lock the match's player rows and write flags to them, *)
(* update rating rows, update the league row (the dirty mark), count each  *)
(* player (a read, then a write of the rating row), commit.  The locks are *)
(* those the statements of the code take, in the code's order; a           *)
(* transaction may die at any point and leave nothing.                     *)
(***************************************************************************)
EXTENDS Naturals, FiniteSets, Sequences

CONSTANTS
    Team1, Team2,   \* the players, named by the slot they take
    MaxMatch,       \* bound on matches, sanctions' own matches included
    Tasks,          \* slots for transactions in flight
    Picks,          \* the sets of players a moderator or a host may name
    Lists,          \* the flag lists a report or a cancel may carry, {None}: none given
    NewGames,       \* games after which the New flag is dropped
    MaxOps,         \* bound on operations begun
    None

Players == Team1 \cup Team2
Matches == 1..MaxMatch
Times == 0..MaxOps

ASSUME DisplayCountersAssumption ==
    /\ MaxMatch \in Nat \ {0} /\ NewGames \in Nat \ {0} /\ MaxOps \in Nat
    /\ Players \subseteq Nat /\ IsFiniteSet(Players) /\ Team1 \cap Team2 = {}
    /\ Picks \subseteq SUBSET Players
    /\ Lists \subseteq [quit : (SUBSET Players) \cup {{None}},
                        grief : (SUBSET Players) \cup {{None}},
                        dc : (SUBSET Players) \cup {{None}}]
    /\ None \notin Tasks /\ None \notin Players /\ None \notin BOOLEAN

VARIABLES
    match,          \* Match rows, each with its MatchPlayer rows
    resetAt,        \* time of each player's last rank reset, 0: never
    counters,       \* the five columns of each player's rating row
    isNew,          \* PlayerRating.isNewPlayer
    matchLock,      \* holder of each Match row lock
    rowsLock,       \* holder of the locks on each match's player rows
    ratingLock,     \* holder of each rating row lock
    leagueLock,     \* holder of the league row lock
    tx,             \* transactions in flight
    ops,            \* operations begun; also the clock
    drift           \* history: players last counted across another's change

locks == <<matchLock, rowsLock, ratingLock, leagueLock>>
data == <<match, resetAt, counters, isNew>>
vars == <<data, locks, tx, ops, drift>>

-----------------------------------------------------------------------------
(* Rows.                                                                    *)

Closed == {"COMPLETED", "CANCELLED"}
Rows == [quit : BOOLEAN, grief : BOOLEAN, dc : BOOLEAN, tax : BOOLEAN,
         won : {"none", "WIN", "LOSS"}]
MatchRows == [status : {"NONE", "OPEN"} \cup Closed, at : Times,
              manual : BOOLEAN, old : BOOLEAN, row : [Players -> Rows]]
NoFlags == [quit |-> FALSE, grief |-> FALSE, dc |-> FALSE, tax |-> FALSE,
            won |-> "none"]
NoMatch == [status |-> "NONE", at |-> 0, manual |-> FALSE, old |-> FALSE,
            row |-> [p \in Players |-> NoFlags]]

Stats == [wins : Nat, losses : Nat, quits : Nat, griefs : Nat, dcs : Nat]
ASSUME CountAssumption == None \notin Stats
Zero == [wins |-> 0, losses |-> 0, quits |-> 0, griefs |-> 0, dcs |-> 0]

(* What the history query selects of a match for a player: a result of a    *)
(* completed match, a quit, or a grief or DC the quit does not hide.        *)
Entries == [at : Times, won : {"none", "WIN", "LOSS"}, quit : BOOLEAN,
            grief : BOOLEAN, dc : BOOLEAN]
Entry(x, p) ==
    LET r == x.row[p]
        e == [at |-> x.at,
              won |-> IF x.status = "COMPLETED" THEN r.won ELSE "none",
              quit |-> r.quit, grief |-> r.grief /\ ~r.quit, dc |-> r.dc /\ ~r.quit]
    IN  IF x.status \in Closed /\ (e.won # "none" \/ e.quit \/ e.grief \/ e.dc)
        THEN e ELSE None
History(ms, p) == [m \in Matches |-> Entry(ms[m], p)]

(* Once a player has reset, only matches completed later count: a sanction  *)
(* or a cancelled match, which completed at no time, does not.              *)
CountedAfterReset(e, since) == since = 0 \/ (e.at # 0 /\ e.at > since)

Aggregate(h, since) ==
    LET seen == {m \in Matches : h[m] # None /\ CountedAfterReset(h[m], since)}
    IN  [wins |-> Cardinality({m \in seen : h[m].won = "WIN"}),
         losses |-> Cardinality({m \in seen : h[m].won = "LOSS"}),
         quits |-> Cardinality({m \in seen : h[m].quit}),
         griefs |-> Cardinality({m \in seen : h[m].grief}),
         dcs |-> Cardinality({m \in seen : h[m].dc})]

-----------------------------------------------------------------------------
(* Transactions.                                                            *)

(* `patch' is what a transaction's UPDATEs set in its match's player rows,  *)
(* None the columns they leave alone; `status' and `at' are set likewise. *)
Keep == [c \in {"quit", "grief", "dc", "tax", "won"} |-> None]
Patches == [quit : BOOLEAN \cup {None}, grief : BOOLEAN \cup {None},
            dc : BOOLEAN \cup {None}, tax : BOOLEAN \cup {None},
            won : {"none", "WIN", "LOSS", None}]
Patched(r, d) ==
    [quit |-> IF d.quit = None THEN r.quit ELSE d.quit,
     grief |-> IF d.grief = None THEN r.grief ELSE d.grief,
     dc |-> IF d.dc = None THEN r.dc ELSE d.dc,
     tax |-> IF d.tax = None THEN r.tax ELSE d.tax,
     won |-> IF d.won = None THEN r.won ELSE d.won]

Ops == {"idle", "set", "request", "complete", "cancel", "flip", "void", "clear",
        "sanction", "reset"}
Steps == {"rows", "ratings", "league", "count"}
Transactions ==
    [op : Ops, m : Matches \cup {0}, patch : [Players -> Patches],
     status : {"OPEN", "keep"} \cup Closed, at : Times,
     reset : Players \cup {None}, holds : SUBSET Players,
     plan : Seq(Steps), wrote : BOOLEAN, todo : SUBSET Players,
     calc : [Players -> Stats \cup {None}], missed : SUBSET Players,
     late : SUBSET Players]
Idle == [op |-> "idle", m |-> 0, patch |-> [p \in Players |-> Keep],
         status |-> "keep", at |-> 0, reset |-> None, holds |-> {},
         plan |-> <<>>, wrote |-> FALSE, todo |-> {},
         calc |-> [p \in Players |-> None], missed |-> {}, late |-> {}]

(* The transaction's match with its writes, and the tables it sees.         *)
Applied(x, op, patch, status, at) ==
    [x EXCEPT !.row = [p \in Players |-> Patched(x.row[p], patch[p])],
              !.status = IF status = "keep" THEN @ ELSE status,
              !.manual = @ \/ op = "sanction",
              !.at = IF op = "complete" THEN at ELSE @]
After(t) == Applied(match[tx[t].m], tx[t].op, tx[t].patch, tx[t].status, tx[t].at)
Sees(t) == [m \in Matches |-> IF tx[t].wrote /\ m = tx[t].m THEN After(t) ELSE match[m]]
Since(t, p) == IF tx[t].reset = p THEN tx[t].at ELSE resetAt[p]

Free(t) == tx[t].op = "idle" /\ ops < MaxOps
Now == ops + 1

(* A transaction begins: what it reads first is read, its plan is set.      *)
Begin(t, x) == /\ tx' = [tx EXCEPT ![t] = x] /\ ops' = Now
               /\ UNCHANGED <<data, rowsLock, ratingLock, leagueLock, drift>>
LockMatch(t, m) == /\ matchLock[m] = None
                   /\ matchLock' = [matchLock EXCEPT ![m] = t]

(* UPDATE of the match's player rows.                                       *)
WriteRows(t) ==
    /\ tx[t].plan # <<>> /\ Head(tx[t].plan) = "rows"
    /\ LET m == tx[t].m IN
        /\ rowsLock[m] = None
        /\ rowsLock' = [rowsLock EXCEPT ![m] = t]
        /\ tx' = [tx EXCEPT ![t].plan = Tail(@), ![t].wrote = TRUE]
    /\ UNCHANGED <<data, matchLock, ratingLock, leagueLock, ops, drift>>

(* Slip: the ratings are written outside the transaction.                   *)
WriteRatingsElsewhere(t) ==
    /\ tx[t].plan # <<>> /\ Head(tx[t].plan) = "ratings"
    /\ tx' = [tx EXCEPT ![t].plan = Tail(@)]
    /\ UNCHANGED <<data, locks, ops, drift>>

(* Restore, rate or wipe ratings: the rows stay locked.                     *)
WriteRatings(t) ==
    /\ tx[t].plan # <<>> /\ Head(tx[t].plan) = "ratings"
    /\ \A p \in tx[t].holds : ratingLock[p] = None
    /\ ratingLock' = [p \in Players |-> IF p \in tx[t].holds THEN t ELSE ratingLock[p]]
    /\ tx' = [tx EXCEPT ![t].plan = Tail(@)]
    /\ UNCHANGED <<data, matchLock, rowsLock, leagueLock, ops, drift>>

(* Mark the league's champion and rank roles dirty.                         *)
MarkDirty(t) ==
    /\ tx[t].plan # <<>> /\ Head(tx[t].plan) = "league"
    /\ leagueLock = None
    /\ leagueLock' = t
    /\ tx' = [tx EXCEPT ![t].plan = Tail(@)]
    /\ UNCHANGED <<data, matchLock, rowsLock, ratingLock, ops, drift>>

(* Count a player: read the history, ...                                    *)
CountRead(t, p) ==
    /\ tx[t].plan # <<>> /\ Head(tx[t].plan) = "count"
    /\ p \in tx[t].todo /\ tx[t].calc[p] = None
    /\ \A q \in tx[t].todo : p <= q
    /\ tx' = [tx EXCEPT ![t].calc[p] = Aggregate(History(Sees(t), p), Since(t, p)),
                        ![t].late = @ \ {p}]
    /\ UNCHANGED <<data, locks, ops, drift>>

(* ... then write the rating row.                                           *)
CountWrite(t, p) ==
    /\ tx[t].plan # <<>> /\ Head(tx[t].plan) = "count"
    /\ p \in tx[t].todo /\ tx[t].calc[p] # None
    /\ ratingLock[p] \in {None, t}
    /\ ratingLock' = [ratingLock EXCEPT ![p] = t]
    /\ tx' = [tx EXCEPT ![t].todo = @ \ {p},
              ![t].plan = IF tx[t].todo = {p} THEN Tail(@) ELSE @]
    /\ UNCHANGED <<data, matchLock, rowsLock, leagueLock, ops, drift>>

Release(t) ==
    /\ matchLock' = [m \in Matches |-> IF matchLock[m] = t THEN None ELSE matchLock[m]]
    /\ rowsLock' = [m \in Matches |-> IF rowsLock[m] = t THEN None ELSE rowsLock[m]]
    /\ ratingLock' = [p \in Players |-> IF ratingLock[p] = t THEN None ELSE ratingLock[p]]
    /\ leagueLock' = IF leagueLock = t THEN None ELSE leagueLock

(* Players whose history a transaction's commit changes.                    *)
Touches(t) ==
    {p \in Players : \/ tx[t].reset = p
                     \/ tx[t].wrote /\ Entry(After(t), p) # Entry(match[tx[t].m], p)}

(* Another transaction that has already counted a touched player will write *)
(* a count this commit made stale; `late' are those whom a flag written     *)
(* under the transaction's feet touches.                                    *)
CountedBy(x) == {p \in Players : x.calc[p] # None}
Missing(touched, late, x) ==
    [x EXCEPT !.missed = @ \cup ((touched \ late) \cap CountedBy(x)),
              !.late = @ \cup (touched \cap late \cap CountedBy(x))]

(* Enough games: a completion and a flip drop the New flag.                 *)
DropsNew(t, p) ==
    /\ tx[t].op \in {"complete", "flip"}
    /\ tx[t].calc[p] # None /\ tx[t].calc[p].wins + tx[t].calc[p].losses >= NewGames

Commit(t) ==
    /\ tx[t].op \notin {"idle", "set", "request"} /\ tx[t].plan = <<>>
    /\ match' = Sees(t)
    /\ resetAt' = [p \in Players |-> Since(t, p)]
    /\ counters' = [p \in Players |->
            IF tx[t].calc[p] = None THEN counters[p] ELSE tx[t].calc[p]]
    /\ isNew' = [p \in Players |-> isNew[p] /\ ~DropsNew(t, p)]
    /\ drift' = (drift \ CountedBy(tx[t])) \cup tx[t].missed \cup tx[t].late
    /\ tx' = [u \in Tasks |-> IF u = t THEN Idle ELSE Missing(Touches(t), tx[t].late, tx[u])]
    /\ Release(t)
    /\ UNCHANGED ops

(* A deadlock, the transaction's time limit or a lost connection.           *)
Abort(t) ==
    /\ tx[t].op # "idle"
    /\ tx' = [tx EXCEPT ![t] = Idle]
    /\ Release(t)
    /\ UNCHANGED <<data, ops, drift>>

-----------------------------------------------------------------------------
(* Flags of a match that can still be reported.                             *)

(* The status is read in the transaction, without a lock, before the rows   *)
(* are written.                                                             *)
SetFlags(t, m, patch) ==
    /\ Free(t) /\ match[m].status = "OPEN"
    /\ Begin(t, [Idle EXCEPT !.op = "set", !.m = m, !.patch = patch])
    /\ UNCHANGED matchLock

SetQuitters(t, m, S) ==
    SetFlags(t, m, [p \in Players |-> IF p \in S
        THEN [Keep EXCEPT !.quit = TRUE, !.grief = FALSE, !.dc = FALSE]
        ELSE [Keep EXCEPT !.quit = FALSE]])
SetGriefers(t, m, S) ==
    SetFlags(t, m, [p \in Players |-> IF p \in S
        THEN [Keep EXCEPT !.grief = TRUE, !.quit = FALSE]
        ELSE [Keep EXCEPT !.grief = FALSE, !.tax = FALSE]])
(* Slip: whoever disconnected may also have quit.                           *)
SetDcsKeepingQuits(t, m, S) ==
    SetFlags(t, m, [p \in Players |-> IF p \in S
        THEN [Keep EXCEPT !.dc = TRUE]
        ELSE [Keep EXCEPT !.dc = FALSE]])
SetDcs(t, m, S) ==
    SetFlags(t, m, [p \in Players |-> IF p \in S
        THEN [Keep EXCEPT !.dc = TRUE, !.quit = FALSE]
        ELSE [Keep EXCEPT !.dc = FALSE]])

(* A host's mitigation request writes all three flags, and puts the match   *)
(* back among the open ones whatever became of it since it was read.        *)
RequestMitigation(t, m, Q, G) ==
    /\ Free(t) /\ match[m].status = "OPEN"
    /\ Begin(t, [Idle EXCEPT !.op = "request", !.m = m, !.status = "OPEN",
                 !.patch = [p \in Players |->
                    [Keep EXCEPT !.quit = p \in Q, !.grief = p \in G \ Q,
                                 !.dc = match[m].row[p].dc /\ p \notin Q]]])
    /\ UNCHANGED matchLock

(* The rows are written and committed; no counter is counted again.  What   *)
(* it changes is missed by whoever has counted, or has read the match.      *)
WriteFlags(t) ==
    /\ tx[t].op \in {"set", "request"}
    /\ LET m == tx[t].m
           touched == {p \in Players : Entry(After(t), p) # Entry(match[m], p)}
           changed == {p \in Players : After(t).row[p] # match[m].row[p]}
       IN  /\ rowsLock[m] = None
           /\ tx[t].op = "request" => matchLock[m] = None
           /\ match' = [match EXCEPT ![m] = After(t)]
           /\ drift' = drift \cup touched
           /\ tx' = [u \in Tasks |->
                IF u = t THEN Idle
                ELSE [tx[u] EXCEPT !.late = @ \cup (touched \cap CountedBy(tx[u]))
                        \cup (IF matchLock[m] = u THEN changed ELSE {})]]
    /\ UNCHANGED <<resetAt, counters, isNew, locks, ops>>

-----------------------------------------------------------------------------
(* Completion and cancellation.                                             *)

(* Slip: a list that is not given is used as if it were.                    *)
ListedAsGiven(l, m, c) == l[c]
Listed(l, m, c) == IF l[c] = {None} THEN {p \in Players : match[m].row[p][c]} ELSE l[c]
Result(p, w) == IF p \in w THEN "WIN" ELSE "LOSS"

(* New players of the two teams are paired, lowest slots first, and the     *)
(* pairs are left out of the rating.                                        *)
Lower(p, S) == Cardinality({q \in S : q < p})
PairedNew(new) ==
    LET new1 == Team1 \cap new
        new2 == Team2 \cap new
    IN  {p \in new1 : Lower(p, new1) < Cardinality(new2)}
            \cup {p \in new2 : Lower(p, new2) < Cardinality(new1)}

(* Rating rows a completion updates: everyone rated, and whoever did not    *)
(* quit, for the idle streak.                                               *)
RatedRows(quit, new) ==
    LET rated == Players \ PairedNew(new)
        bothTeams == rated \cap Team1 # {} /\ rated \cap Team2 # {}
    IN  (Players \ quit) \cup (IF bothTeams THEN rated ELSE {})

CompleteMatch(t, m, w, l) ==
    LET Q == Listed(l, m, "quit")
        G == Listed(l, m, "grief")
        D == Listed(l, m, "dc")
    IN
    /\ Free(t) /\ match[m].status = "OPEN" /\ match[m].at = 0
    /\ LockMatch(t, m)
    /\ Begin(t, [Idle EXCEPT !.op = "complete", !.m = m, !.status = "COMPLETED", !.at = Now,
                 !.patch = [p \in Players |->
                    [quit |-> p \in Q, grief |-> p \in G, dc |-> p \in D \ Q,
                     tax |-> p \in G \ Q, won |-> Result(p, w)]],
                 !.holds = RatedRows(Q, {p \in Players : isNew[p]}),
                 !.plan = <<"rows", "ratings", "league", "count">>,
                 !.todo = Players])

(* Only flagged players are counted when a match is cancelled.              *)
(* Slip: DCs are not counted.                                               *)
PlayersAffectingNoDcs(Q, G, D) == Q \cup G
PlayersAffecting(Q, G, D) == Q \cup G \cup D

(* Lists given with a cancel clear the quit of whoever they name, but the   *)
(* griefer tax still goes by the quitters read before.                      *)
CancelInProgressMatch(t, m, l) ==
    LET Q == Listed([quit |-> {None}], m, "quit")
        G == Listed(l, m, "grief")
        D == Listed(l, m, "dc")
        named == (IF l.grief = {None} THEN {} ELSE G) \cup (IF l.dc = {None} THEN {} ELSE D)
        affected == PlayersAffecting(Q \ named, G, D)
    IN
    /\ Free(t) /\ match[m].status = "OPEN"
    /\ LockMatch(t, m)
    /\ Begin(t, [Idle EXCEPT !.op = "cancel", !.m = m, !.status = "CANCELLED",
                 !.patch = [p \in Players |->
                    [Keep EXCEPT !.quit = IF p \in named THEN FALSE ELSE None,
                                 !.grief = IF l.grief = {None} THEN None ELSE p \in G,
                                 !.dc = IF l.dc = {None} THEN None ELSE p \in D,
                                 !.tax = p \in G \ Q]],
                 !.plan = IF affected = {} THEN <<"rows">>
                          ELSE IF Q \cup G = {} THEN <<"rows", "count">>
                          ELSE <<"rows", "league", "count">>,
                 !.todo = affected])

-----------------------------------------------------------------------------
(* Corrections, within a day of completion.                                 *)

Correctable(m) == match[m].status = "COMPLETED" /\ ~match[m].old

FlipCompletedMatch(t, m, w, Q) ==
    /\ Free(t) /\ Correctable(m)
    /\ LockMatch(t, m)
    /\ Begin(t, [Idle EXCEPT !.op = "flip", !.m = m, !.holds = Players, !.todo = Players,
                 !.patch = [p \in Players |->
                    LET r == match[m].row[p] IN
                    [quit |-> p \in Q, grief |-> r.grief, dc |-> r.dc /\ p \notin Q,
                     tax |-> r.grief /\ p \notin Q, won |-> Result(p, w)]],
                 !.plan = <<"ratings", "rows", "league", "count">>])

VoidCompletedMatch(t, m) ==
    /\ Free(t) /\ Correctable(m)
    /\ LockMatch(t, m)
    /\ Begin(t, [Idle EXCEPT !.op = "void", !.m = m, !.status = "CANCELLED", !.holds = Players,
                 !.patch = [p \in Players |->
                    [quit |-> FALSE, grief |-> FALSE, dc |-> FALSE, tax |-> FALSE,
                     won |-> "none"]],
                 !.plan = <<"ratings", "rows", "count">>, !.todo = Players])

-----------------------------------------------------------------------------
(* Flags of a match that is over, cleared by moderators.  The match is read *)
(* outside the transaction.                                                 *)

Finished(m) == match[m].status \in Closed
Clear(t, m, targets, patch, plan) ==
    /\ Free(t) /\ Finished(m) /\ targets # {}
    /\ Begin(t, [Idle EXCEPT !.op = "clear", !.m = m, !.patch = patch, !.plan = plan,
                 !.todo = targets])
    /\ UNCHANGED matchLock
Only(targets, d) == [p \in Players |-> IF p \in targets THEN d ELSE Keep]

ClearMatchGriefers(t, m, S) ==
    LET targets == {p \in S : match[m].row[p].grief \/ match[m].row[p].tax} IN
    Clear(t, m, targets, Only(targets, [Keep EXCEPT !.grief = FALSE, !.tax = FALSE]),
          <<"rows", "count", "league">>)

ClearMatchDcs(t, m, S) ==
    LET targets == {p \in S : match[m].row[p].dc} IN
    Clear(t, m, targets, Only(targets, [Keep EXCEPT !.dc = FALSE]), <<"rows", "count">>)

(* While the match can be corrected the ratings are redone with the         *)
(* quitters that remain; later only the flags go.                           *)
ClearMatchQuitters(t, m, S) ==
    LET quitters == {p \in Players : match[m].row[p].quit}
        targets == S \cap quitters
        w == {p \in Players : match[m].row[p].won = "WIN"}
    IN  IF Correctable(m)
        THEN targets # {} /\ FlipCompletedMatch(t, m, w, quitters \ targets)
        ELSE Clear(t, m, targets,
                   [p \in Players |->
                        IF p \notin targets THEN Keep
                        ELSE IF match[m].status = "CANCELLED" THEN [Keep EXCEPT !.quit = FALSE]
                        ELSE [Keep EXCEPT !.quit = FALSE, !.won = Result(p, w)]],
                   <<"rows", "count", "league">>)

(* A sanction is a cancelled match of one player.                           *)
Sanctions == {"quit", "grief", "dc"}
AddManualSanction(t, m, p, kind) ==
    /\ Free(t) /\ match[m].status = "NONE" /\ \A n \in 1..(m - 1) : match[n].status # "NONE"
    /\ LockMatch(t, m)
    /\ Begin(t, [Idle EXCEPT !.op = "sanction", !.m = m, !.status = "CANCELLED",
                 !.patch = Only({p}, [Keep EXCEPT !.quit = kind = "quit",
                        !.grief = kind = "grief", !.dc = kind = "dc",
                        !.tax = kind = "grief"]),
                 !.plan = <<"rows", "count", "league">>, !.todo = {p}])

(* Without a match id the latest sanction goes, or else the latest          *)
(* cancelled match with the flag.                                           *)
Flagged(m, p, kind) ==
    match[m].row[p][kind] /\ (kind # "quit" => ~match[m].row[p].quit)
LatestSanction(m, p, kind) ==
    LET having(man) == {n \in Matches : /\ match[n].status = "CANCELLED"
                                        /\ match[n].manual = man /\ Flagged(n, p, kind)}
        S == IF having(TRUE) # {} THEN having(TRUE) ELSE having(FALSE)
    IN  m \in S /\ \A n \in S : n <= m
RemoveManualSanction(t, m, p, kind) ==
    /\ LatestSanction(m, p, kind)
    /\ CASE kind = "quit" -> ClearMatchQuitters(t, m, {p})
         [] kind = "grief" -> ClearMatchGriefers(t, m, {p})
         [] kind = "dc" -> ClearMatchDcs(t, m, {p})

-----------------------------------------------------------------------------
(* Rank reset and the New flag.                                             *)

ApplyRankReset(t, p) ==
    /\ Free(t) /\ \A m \in Matches : match[m].status # "OPEN"
    /\ Begin(t, [Idle EXCEPT !.op = "reset", !.reset = p, !.at = Now, !.holds = {p},
                 !.plan = <<"ratings", "count", "league">>, !.todo = {p}])
    /\ UNCHANGED matchLock

SetNew(p, new) ==
    /\ ops < MaxOps /\ ratingLock[p] = None /\ isNew[p] # new
    /\ isNew' = [isNew EXCEPT ![p] = new]
    /\ ops' = Now
    /\ UNCHANGED <<match, resetAt, counters, locks, tx, drift>>

-----------------------------------------------------------------------------
(* A match is formed and started (MatchLifecycle), and a day passes.        *)
OpenMatch(m) ==
    /\ match[m].status = "NONE" /\ matchLock[m] = None
    /\ \A n \in 1..(m - 1) : match[n].status # "NONE"
    /\ match' = [match EXCEPT ![m].status = "OPEN"]
    /\ UNCHANGED <<resetAt, counters, isNew, locks, tx, ops, drift>>

Day(m) ==
    /\ match[m].status = "COMPLETED" /\ ~match[m].old
    /\ match' = [match EXCEPT ![m].old = TRUE]
    /\ UNCHANGED <<resetAt, counters, isNew, locks, tx, ops, drift>>

Init ==
    /\ match = [m \in Matches |-> NoMatch]
    /\ resetAt = [p \in Players |-> 0]
    /\ counters = [p \in Players |-> Zero]
    /\ isNew = [p \in Players |-> FALSE]
    /\ matchLock = [m \in Matches |-> None]
    /\ rowsLock = [m \in Matches |-> None]
    /\ ratingLock = [p \in Players |-> None]
    /\ leagueLock = None
    /\ tx = [t \in Tasks |-> Idle]
    /\ ops = 0 /\ drift = {}

(* What users may press.  A command finds its match first: one that can be  *)
(* reported, one that is over, or a completed one to correct.               *)
FlagsCommand(t, m) ==
    \E S \in Picks : SetQuitters(t, m, S) \/ SetGriefers(t, m, S) \/ SetDcs(t, m, S)

(* With mitigation a host asks a moderator first.                           *)
CompleteCommand(t, m) ==
    \E l \in Lists : \/ RequestMitigation(t, m, Listed(l, m, "quit"), Listed(l, m, "grief"))
                     \/ \E w \in {Team1, Team2} : CompleteMatch(t, m, w, l)
CancelCommand(t, m) == \E l \in Lists : CancelInProgressMatch(t, m, l)

CorrectionConfirm(t, m) ==
    \/ \E w \in {Team1, Team2}, Q \in Picks : FlipCompletedMatch(t, m, w, Q)
    \/ VoidCompletedMatch(t, m)
ClearCommand(t, m) ==
    /\ Finished(m)
    /\ \E S \in Picks : \/ ClearMatchGriefers(t, m, S) \/ ClearMatchDcs(t, m, S)
                         \/ ClearMatchQuitters(t, m, S)
SanctionCommand(t, p) ==
    \E kind \in Sanctions, m \in Matches : \/ RemoveManualSanction(t, m, p, kind)
                                           \/ AddManualSanction(t, m, p, kind)
Proceed(t) ==
    \/ WriteRows(t) \/ WriteRatings(t) \/ MarkDirty(t) \/ WriteFlags(t)
    \/ \E p \in Players : CountRead(t, p) \/ CountWrite(t, p)
    \/ Commit(t) \/ Abort(t)

Next ==
    \/ \E t \in Tasks : \/ Proceed(t)
                        \/ \E m \in Matches : \/ FlagsCommand(t, m) \/ CompleteCommand(t, m)
                                            \/ CancelCommand(t, m) \/ ClearCommand(t, m)
                                            \/ CorrectionConfirm(t, m)
                        \/ \E p \in Players : SanctionCommand(t, p) \/ ApplyRankReset(t, p)
    \/ \E p \in Players, new \in BOOLEAN : SetNew(p, new)
    \/ \E m \in Matches : OpenMatch(m) \/ Day(m)

Spec == Init /\ [][Next]_vars

-----------------------------------------------------------------------------
TypeOK ==
    /\ match \in [Matches -> MatchRows]
    /\ resetAt \in [Players -> Times]
    /\ counters \in [Players -> Stats]
    /\ isNew \in [Players -> BOOLEAN]
    /\ matchLock \in [Matches -> Tasks \cup {None}]
    /\ rowsLock \in [Matches -> Tasks \cup {None}]
    /\ ratingLock \in [Players -> Tasks \cup {None}]
    /\ leagueLock \in Tasks \cup {None}
    /\ tx \in [Tasks -> Transactions]
    /\ ops \in Times /\ drift \subseteq Players

(* "This guarantees equality with history aggregator": a player's columns   *)
(* are what the history since the last reset says, whatever overlapped,     *)
(* unless the last count was made across another's change: then, and not    *)
(* for want of counting someone a handler touched, they drift.              *)
CountersExact ==
    \A p \in Players \ drift : counters[p] = Aggregate(History(match, p), resetAt[p])

(* A correction, a void and a rank reset update the rating row before they  *)
(* count, so they never count across another's change, and a completion     *)
(* does so only for a quitter of a New pair, whose row it does not update.  *)
LockedCountsStand ==
    \A t \in Tasks :
        /\ tx[t].op \in {"flip", "void", "reset"} => tx[t].missed = {}
        /\ tx[t].op = "complete" => tx[t].missed \cap tx[t].holds = {}

(* No player is taxed twice for one match: a quit and a DC never stand      *)
(* together, in whatever order and overlap the flag writers run.            *)
NeverQuitAndDc ==
    \A m \in Matches, p \in Players : ~(match[m].row[p].quit /\ match[m].row[p].dc)
=============================================================================

----------------------- MODULE DisplayCountersProofs -----------------------
(***************************************************************************)
(* Theorems about DisplayCounters, for any players, matches, lists and     *)
(* number of overlapping transactions.                                     *)
(***************************************************************************)
EXTENDS DisplayCounters, FiniteSetTheorems, TLAPS

USE DisplayCountersAssumption

Ahead(plan, step) == \E i \in 1..Len(plan) : plan[i] = step

Plans ==
    {<<>>, <<"rows">>, <<"rows", "count">>, <<"rows", "league">>,
     <<"rows", "league", "count">>, <<"rows", "count", "league">>,
     <<"rows", "ratings", "league", "count">>, <<"ratings", "league", "count">>,
     <<"league", "count">>, <<"count", "league">>, <<"league">>, <<"count">>,
     <<"ratings", "rows", "league", "count">>, <<"ratings", "rows", "count">>,
     <<"ratings", "count", "league">>}

Locking == {"complete", "cancel", "flip", "void", "sanction"}
Counting == Locking \cup {"clear", "reset"}
OnMatch == Ops \ {"idle", "reset"}
Rating == {"complete", "flip", "void", "reset"}

(* A transaction's plan and how far it is.                                 *)
PlanOK(x) ==
    /\ x.plan \in Plans
    /\ x.op \notin Counting => x.plan = <<>>
    /\ x.wrote => ~Ahead(x.plan, "rows") /\ x.op \in Counting \ {"reset"}
    /\ x.op \in Counting \ {"reset"} /\ ~x.wrote => Ahead(x.plan, "rows")
    /\ x.op = "reset" => ~Ahead(x.plan, "rows")
    /\ \A p \in Players : x.calc[p] # None =>
            /\ x.op \in Counting
            /\ ~Ahead(x.plan, "rows") /\ ~Ahead(x.plan, "ratings")
    /\ x.todo # {} => Ahead(x.plan, "count")

(* What it was begun on.                                                   *)
AimOK(x) ==
    /\ x.op \in OnMatch => x.m \in Matches
    /\ x.op = "reset" => x.reset \in Players /\ x.holds = {x.reset}
    /\ x.op # "reset" => x.reset = None
    /\ x.op \in {"flip", "void"} => x.holds = Players
    /\ x.op \in {"clear", "flip", "set"} => x.status = "keep"
    /\ x.op \in {"sanction", "cancel"} => x.status = "CANCELLED"
    /\ \A p \in Players : /\ x.patch[p].quit = TRUE => x.patch[p].dc = FALSE
                          /\ x.patch[p].dc = TRUE => x.patch[p].quit = FALSE
                          /\ x.op = "clear" => /\ x.patch[p].quit # TRUE
                                               /\ x.patch[p].grief # TRUE
                                               /\ x.patch[p].dc # TRUE

(* The status its match has meanwhile.                                     *)
StatusOK(x) ==
    /\ x.op \in OnMatch \ {"sanction"} => match[x.m].status # "NONE"
    /\ x.op = "sanction" => match[x.m].status = "NONE"
    /\ x.op = "cancel" => match[x.m].status = "OPEN"

(* The locks it holds.                                                     *)
LocksOK(t) ==
    /\ tx[t].op \in Locking => matchLock[tx[t].m] = t
    /\ tx[t].wrote => rowsLock[tx[t].m] = t
    /\ tx[t].op \in Rating /\ ~Ahead(tx[t].plan, "ratings") =>
            \A p \in tx[t].holds : ratingLock[p] = t
    /\ \A p \in Players \ tx[t].todo : tx[t].calc[p] # None => ratingLock[p] = t

Unflagged(r) == ~r.quit /\ ~r.grief /\ ~r.dc

(* A player it does not count, whom no flag was written for, is one whose  *)
(* history it leaves alone.                                                *)
Spared(x, p) ==
    /\ x.op \notin {"complete", "flip", "void"}
    /\ x.op \in {"clear", "sanction"} => x.patch[p] = Keep
    /\ x.op = "cancel" => Unflagged(Patched(match[x.m].row[p], x.patch[p]))
    /\ x.op = "reset" => p # x.reset
SparesOK(x) ==
    \A p \in Players : p \notin x.todo /\ x.calc[p] = None /\ p \notin x.late => Spared(x, p)

(* What it has counted is what it would count again.                       *)
CalcOK(t) ==
    \A p \in Players :
        tx[t].calc[p] # None /\ p \notin tx[t].missed \cup tx[t].late =>
            tx[t].calc[p] = Aggregate(History(Sees(t), p), Since(t, p))

MissedOK(x) ==
    /\ x.op \in Rating => x.missed \cap x.holds = {}
    /\ \A p \in x.missed : x.calc[p] # None
    /\ x.op = "reset" => \A p \in Players : x.calc[p] # None => p = x.reset
    /\ x.op = "reset" => x.todo \subseteq {x.reset}

BlankOK == \A m \in Matches : match[m].status = "NONE" => match[m].row = [p \in Players |-> NoFlags]

Inv ==
    /\ TypeOK
    /\ BlankOK
    /\ NeverQuitAndDc
    /\ CountersExact
    /\ \A t \in Tasks : /\ PlanOK(tx[t]) /\ AimOK(tx[t]) /\ StatusOK(tx[t]) /\ LocksOK(t)
                        /\ SparesOK(tx[t]) /\ CalcOK(t) /\ MissedOK(tx[t])
-----------------------------------------------------------------------------
(* Rows, histories and counts.                                             *)

LEMMA EntryStable ==
    ASSUME NEW x, NEW y, NEW p, x.status = y.status, x.at = y.at, x.row[p] = y.row[p]
    PROVE  Entry(x, p) = Entry(y, p)
BY DEF Entry

LEMMA EntryUnfinished ==
    ASSUME NEW x, NEW p, x.status \notin Closed
    PROVE  Entry(x, p) = None
BY DEF Entry

LEMMA EntryUnflagged ==
    ASSUME NEW x, NEW p, x.status # "COMPLETED", Unflagged(x.row[p])
    PROVE  Entry(x, p) = None
BY DEF Entry, Unflagged

LEMMA HistoryStable ==
    ASSUME NEW a, NEW b, NEW p,
           \A n \in Matches : Entry(a[n], p) = Entry(b[n], p)
    PROVE  History(a, p) = History(b, p)
BY DEF History

LEMMA MatchesFinite == IsFiniteSet(Matches)
BY FS_Interval DEF Matches

LEMMA CountType ==
    ASSUME NEW S, S \subseteq Matches
    PROVE  Cardinality(S) \in Nat
BY MatchesFinite, FS_Subset, FS_CardinalityType

LEMMA AggregateType ==
    ASSUME NEW h, NEW since
    PROVE  Aggregate(h, since) \in Stats
<1>. DEFINE seen == {m \in Matches : h[m] # None /\ CountedAfterReset(h[m], since)}
<1>1. /\ Cardinality({m \in seen : h[m].won = "WIN"}) \in Nat
      /\ Cardinality({m \in seen : h[m].won = "LOSS"}) \in Nat
      /\ Cardinality({m \in seen : h[m].quit}) \in Nat
      /\ Cardinality({m \in seen : h[m].grief}) \in Nat
      /\ Cardinality({m \in seen : h[m].dc}) \in Nat
  BY CountType
<1>. QED
  BY <1>1 DEF Aggregate, Stats

LEMMA PatchedType ==
    ASSUME NEW r \in Rows, NEW d \in Patches
    PROVE  Patched(r, d) \in Rows
BY DEF Patched, Rows, Patches

LEMMA KeepType == Keep \in Patches /\ Keep.quit = None /\ Keep.grief = None
                    /\ Keep.dc = None /\ Keep.tax = None /\ Keep.won = None
BY DEF Keep, Patches

LEMMA KeepKeeps ==
    ASSUME NEW r \in Rows
    PROVE  Patched(r, Keep) = r
BY KeepType DEF Patched, Rows

LEMMA PatchedExclusive ==
    ASSUME NEW r \in Rows, NEW d \in Patches, ~(r.quit /\ r.dc),
           d.quit = TRUE => d.dc = FALSE, d.dc = TRUE => d.quit = FALSE
    PROVE  ~(Patched(r, d).quit /\ Patched(r, d).dc)
BY DEF Patched, Rows, Patches

LEMMA PatchedUnflagged ==
    ASSUME NEW r \in Rows, NEW d \in Patches, Unflagged(r),
           d.quit # TRUE, d.grief # TRUE, d.dc # TRUE
    PROVE  Unflagged(Patched(r, d))
BY DEF Patched, Rows, Patches, Unflagged

LEMMA NoFlagsType == NoFlags \in Rows /\ Unflagged(NoFlags)
BY DEF NoFlags, Rows, Unflagged

-----------------------------------------------------------------------------
(* Plans.                                                                  *)

LEMMA PlansType == Plans \subseteq Seq(Steps)
BY DEF Plans, Steps

LEMMA AheadNow ==
    ASSUME NEW plan \in Plans, plan # <<>>
    PROVE  Ahead(plan, Head(plan))
BY DEF Plans, Ahead

LEMMA AheadTail ==
    ASSUME NEW plan \in Plans, plan # <<>>, NEW step, Ahead(Tail(plan), step)
    PROVE  Ahead(plan, step)
BY DEF Plans, Ahead

LEMMA AheadStill ==
    ASSUME NEW plan \in Plans, plan # <<>>, NEW step, Ahead(plan, step), Head(plan) # step
    PROVE  Ahead(Tail(plan), step)
BY DEF Plans, Ahead

LEMMA OnceEach ==
    ASSUME NEW plan \in Plans, plan # <<>>
    PROVE  ~Ahead(Tail(plan), Head(plan))
BY DEF Plans, Ahead

LEMMA TailPlan ==
    ASSUME NEW plan \in Plans, plan # <<>>
    PROVE  Tail(plan) \in Plans
<1>1. /\ Tail(<<"rows">>) = <<>>
      /\ Tail(<<"rows", "count">>) = <<"count">>
      /\ Tail(<<"rows", "league">>) = <<"league">>
      /\ Tail(<<"rows", "league", "count">>) = <<"league", "count">>
      /\ Tail(<<"rows", "count", "league">>) = <<"count", "league">>
      /\ Tail(<<"rows", "ratings", "league", "count">>) = <<"ratings", "league", "count">>
      /\ Tail(<<"ratings", "league", "count">>) = <<"league", "count">>
      /\ Tail(<<"league", "count">>) = <<"count">>
      /\ Tail(<<"count", "league">>) = <<"league">>
      /\ Tail(<<"league">>) = <<>>
      /\ Tail(<<"count">>) = <<>>
      /\ Tail(<<"ratings", "rows", "league", "count">>) = <<"rows", "league", "count">>
      /\ Tail(<<"ratings", "rows", "count">>) = <<"rows", "count">>
      /\ Tail(<<"ratings", "count", "league">>) = <<"count", "league">>
  OBVIOUS
<1>. QED
  BY <1>1 DEF Plans

LEMMA CountAfter ==
    ASSUME NEW plan \in Plans, plan # <<>>, Head(plan) = "count"
    PROVE  ~Ahead(plan, "rows") /\ ~Ahead(plan, "ratings")
BY DEF Plans, Ahead

LEMMA NothingAhead == \A step : ~Ahead(<<>>, step)
BY DEF Ahead
-----------------------------------------------------------------------------
(* Steps of one transaction that commit nothing.                           *)

TxOK(t) == /\ PlanOK(tx[t]) /\ AimOK(tx[t]) /\ StatusOK(tx[t]) /\ LocksOK(t)
           /\ SparesOK(tx[t]) /\ CalcOK(t) /\ MissedOK(tx[t])

LocksType ==
    /\ matchLock \in [Matches -> Tasks \cup {None}]
    /\ rowsLock \in [Matches -> Tasks \cup {None}]
    /\ ratingLock \in [Players -> Tasks \cup {None}]
    /\ leagueLock \in Tasks \cup {None}

(* No lock of another is taken away.                                       *)
KeepsOthersLocks(t) ==
    \A u \in Tasks \ {t} :
        /\ \A m \in Matches : matchLock[m] = u => matchLock'[m] = u
        /\ \A m \in Matches : rowsLock[m] = u => rowsLock'[m] = u
        /\ \A p \in Players : ratingLock[p] = u => ratingLock'[p] = u

LEMMA InvTx == Inv => \A t \in Tasks : TxOK(t)
BY DEF Inv, TxOK

LEMMA TxType ==
    ASSUME TypeOK, NEW t \in Tasks
    PROVE  /\ tx[t] \in Transactions
           /\ tx[t].m \in Matches \cup {0}
           /\ tx[t].holds \subseteq Players /\ tx[t].todo \subseteq Players
           /\ tx[t].missed \subseteq Players /\ tx[t].late \subseteq Players
           /\ tx[t].patch \in [Players -> Patches]
           /\ tx[t].calc \in [Players -> Stats \cup {None}]
           /\ tx[t].reset \in Players \cup {None}
BY DEF TypeOK, Transactions

(* Another transaction neither commits nor loses a lock: what holds of it  *)
(* goes on holding.                                                        *)
LEMMA OtherStays ==
    ASSUME Inv, NEW t \in Tasks, NEW u \in Tasks, u # t,
           NEW x, tx' = [tx EXCEPT ![t] = x], KeepsOthersLocks(t),
           match' = match, resetAt' = resetAt
    PROVE  TxOK(u)'
<1>1. tx'[u] = tx[u] /\ TypeOK /\ TxOK(u)
  BY InvTx DEF Inv, TypeOK
<1>2. PlanOK(tx'[u]) /\ AimOK(tx'[u]) /\ MissedOK(tx'[u])
  BY <1>1 DEF TxOK
<1>3. StatusOK(tx[u])' /\ SparesOK(tx[u])'
  BY <1>1 DEF TxOK, StatusOK, SparesOK, Spared
<1>4. LocksOK(u)'
  <2>1. tx[u].op \in Locking => tx[u].m \in Matches
    BY <1>1 DEF TxOK, AimOK, Locking, OnMatch, Ops
  <2>2. tx[u].wrote => tx[u].m \in Matches
    BY <1>1 DEF TxOK, AimOK, PlanOK, Locking, Counting, OnMatch, Ops
  <2>3. LocksOK(u) /\ tx[u].holds \subseteq Players
    BY <1>1, TxType DEF TxOK
  <2>4. u \in Tasks \ {t}
    OBVIOUS
  <2>5. tx'[u].op \in Locking => matchLock'[tx'[u].m] = u
    BY <1>1, <2>1, <2>3, <2>4 DEF LocksOK, KeepsOthersLocks
  <2>6. tx'[u].wrote => rowsLock'[tx'[u].m] = u
    BY <1>1, <2>2, <2>3, <2>4 DEF LocksOK, KeepsOthersLocks
  <2>7. tx'[u].op \in Rating /\ ~Ahead(tx'[u].plan, "ratings") =>
            \A p \in tx'[u].holds : ratingLock'[p] = u
    BY <1>1, <2>3, <2>4 DEF LocksOK, KeepsOthersLocks
  <2>8. \A p \in Players \ tx'[u].todo : tx'[u].calc[p] # None => ratingLock'[p] = u
    BY <1>1, <2>3, <2>4 DEF LocksOK, KeepsOthersLocks
  <2>. QED
    BY <2>5, <2>6, <2>7, <2>8 DEF LocksOK
<1>5. CalcOK(u)'
  <2>1. Sees(u)' = Sees(u)
    BY <1>1 DEF Sees, After
  <2>2. \A p : Since(u, p)' = Since(u, p)
    BY <1>1 DEF Since
  <2>. QED
    BY <1>1, <2>1, <2>2 DEF CalcOK, TxOK
<1>. QED
  BY <1>1, <1>2, <1>3, <1>4, <1>5 DEF TxOK

LEMMA QuietStep ==
    ASSUME Inv, NEW t \in Tasks, NEW x \in Transactions, tx' = [tx EXCEPT ![t] = x],
           KeepsOthersLocks(t), LocksType', isNew' \in [Players -> BOOLEAN], ops' \in Times,
           UNCHANGED <<match, resetAt, counters, drift>>,
           TxOK(t)'
    PROVE  Inv'
<1>1. TypeOK'
  BY DEF Inv, TypeOK, LocksType
<1>2. BlankOK' /\ NeverQuitAndDc' /\ CountersExact'
  BY DEF Inv, BlankOK, NeverQuitAndDc, CountersExact
<1>3. \A u \in Tasks : TxOK(u)'
  BY OtherStays
<1>. QED
  BY <1>1, <1>2, <1>3 DEF Inv, TxOK
-----------------------------------------------------------------------------
(* A transaction begins.                                                   *)

Fresh(x) == /\ x.calc = [p \in Players |-> None] /\ ~x.wrote
            /\ x.missed = {} /\ x.late = {}

LEMMA IdleType == Idle \in Transactions /\ Fresh(Idle)
<1>1. [p \in Players |-> Keep] \in [Players -> Patches]
  BY KeepType
<1>2. <<>> \in Seq(Steps) /\ 0 \in Times
  BY DEF Times
<1>. QED
  BY <1>1, <1>2 DEF Idle, Transactions, Ops, Fresh

LEMMA BeginOK ==
    ASSUME Inv, NEW t \in Tasks, NEW x \in Transactions, Fresh(x), ops < MaxOps, Begin(t, x),
           PlanOK(x), AimOK(x), StatusOK(x), SparesOK(x),
           x.op = "reset" => x.todo \subseteq {x.reset},
           x.op \in Rating => Ahead(x.plan, "ratings"),
           IF x.op \in Locking THEN LockMatch(t, x.m) ELSE matchLock' = matchLock
    PROVE  Inv'
<1>1. tx' = [tx EXCEPT ![t] = x] /\ tx'[t] = x /\ UNCHANGED <<data, rowsLock, ratingLock, leagueLock, drift>>
  BY DEF Begin, Inv, TypeOK
<1>2. ops' \in Times
  BY DEF Begin, Now, Inv, TypeOK, Times
<1>3. x.op \in Locking => x.m \in Matches
  BY DEF AimOK, OnMatch, Locking, Ops
<1>4. LocksType' /\ KeepsOthersLocks(t)
  <2>1. matchLock' \in [Matches -> Tasks \cup {None}]
    BY <1>3 DEF LockMatch, Inv, TypeOK
  <2>2. \A u \in Tasks \ {t}, m \in Matches : matchLock[m] = u => matchLock'[m] = u
    BY <1>3 DEF LockMatch, Inv, TypeOK
  <2>. QED
    BY <1>1, <2>1, <2>2 DEF LocksType, KeepsOthersLocks, Inv, TypeOK
<1>5. LocksOK(t)'
  <2>1. x.op \in Locking => matchLock'[x.m] = t
    BY <1>3 DEF LockMatch, Inv, TypeOK
  <2>. QED
    BY <1>1, <2>1 DEF LocksOK, Fresh
<1>6. StatusOK(x)' /\ SparesOK(x)'
  BY <1>1 DEF StatusOK, SparesOK, Spared, data
<1>7. CalcOK(t)' /\ MissedOK(x)
  BY <1>1 DEF CalcOK, MissedOK, Fresh
<1>8. TxOK(t)'
  BY <1>1, <1>5, <1>6, <1>7 DEF TxOK
<1>. QED
  BY <1>1, <1>2, <1>4, <1>8, QuietStep DEF data, Inv, TypeOK

(* The columns a patch sets are sound.                                     *)
SoundPatch(d) == /\ d.quit = TRUE => d.dc = FALSE
                 /\ d.dc = TRUE => d.quit = FALSE

LEMMA SetFlagsOK ==
    ASSUME Inv, NEW t \in Tasks, NEW m \in Matches, NEW patch \in [Players -> Patches],
           \A p \in Players : SoundPatch(patch[p]), SetFlags(t, m, patch)
    PROVE  Inv'
<1>. DEFINE x == [Idle EXCEPT !.op = "set", !.m = m, !.patch = patch]
<1>1. /\ x \in Transactions /\ Fresh(x) /\ x.op = "set" /\ x.m = m /\ x.patch = patch
      /\ x.plan = <<>> /\ x.todo = {} /\ x.reset = None /\ x.status = "keep"
      /\ x.calc = [p \in Players |-> None] /\ ~x.wrote
  BY IdleType DEF Idle, Transactions, Ops, Fresh
<1>2. ops < MaxOps /\ Begin(t, x) /\ matchLock' = matchLock /\ match[m].status = "OPEN"
  BY DEF SetFlags, Free
<1>. HIDE DEF x
<1>3. PlanOK(x)
  BY <1>1 DEF PlanOK, Plans, Counting, Locking
<1>4. AimOK(x) /\ StatusOK(x)
  BY <1>1, <1>2 DEF AimOK, StatusOK, OnMatch, SoundPatch
<1>5. SparesOK(x)
  BY <1>1 DEF SparesOK, Spared
<1>. QED
  BY <1>1, <1>2, <1>3, <1>4, <1>5, BeginOK DEF Rating, Locking

LEMMA ReportFlags ==
    ASSUME Inv, NEW t \in Tasks, NEW m \in Matches, FlagsCommand(t, m)
    PROVE  Inv'
<1>. PICK S \in Picks : SetQuitters(t, m, S) \/ SetGriefers(t, m, S) \/ SetDcs(t, m, S)
  BY DEF FlagsCommand
<1>1. CASE SetQuitters(t, m, S)
  <2>. DEFINE patch == [p \in Players |-> IF p \in S
                  THEN [Keep EXCEPT !.quit = TRUE, !.grief = FALSE, !.dc = FALSE]
                  ELSE [Keep EXCEPT !.quit = FALSE]]
  <2>1. patch \in [Players -> Patches] /\ \A p \in Players : SoundPatch(patch[p])
    BY DEF Keep, Patches, SoundPatch
  <2>2. SetFlags(t, m, patch)
    BY <1>1 DEF SetQuitters
  <2>. QED
    BY <2>1, <2>2, SetFlagsOK
<1>2. CASE SetGriefers(t, m, S)
  <2>. DEFINE patch == [p \in Players |-> IF p \in S
                  THEN [Keep EXCEPT !.grief = TRUE, !.quit = FALSE]
                  ELSE [Keep EXCEPT !.grief = FALSE, !.tax = FALSE]]
  <2>1. patch \in [Players -> Patches] /\ \A p \in Players : SoundPatch(patch[p])
    BY DEF Keep, Patches, SoundPatch
  <2>2. SetFlags(t, m, patch)
    BY <1>2 DEF SetGriefers
  <2>. QED
    BY <2>1, <2>2, SetFlagsOK
<1>3. CASE SetDcs(t, m, S)
  <2>. DEFINE patch == [p \in Players |-> IF p \in S
                  THEN [Keep EXCEPT !.dc = TRUE, !.quit = FALSE]
                  ELSE [Keep EXCEPT !.dc = FALSE]]
  <2>1. patch \in [Players -> Patches] /\ \A p \in Players : SoundPatch(patch[p])
    BY DEF Keep, Patches, SoundPatch
  <2>2. SetFlags(t, m, patch)
    BY <1>3 DEF SetDcs
  <2>. QED
    BY <2>1, <2>2, SetFlagsOK
<1>. QED
  BY <1>1, <1>2, <1>3
LEMMA MatchType ==
    ASSUME TypeOK, NEW m \in Matches, NEW p \in Players
    PROVE  match[m] \in MatchRows /\ match[m].row \in [Players -> Rows] /\ match[m].row[p] \in Rows
BY DEF TypeOK, MatchRows

Columns == BOOLEAN \cup {None}

LEMMA RequestOK ==
    ASSUME Inv, NEW t \in Tasks, NEW m \in Matches, NEW Q, NEW G, RequestMitigation(t, m, Q, G)
    PROVE  Inv'
<1>. DEFINE patch == [p \in Players |->
                    [Keep EXCEPT !.quit = p \in Q, !.grief = p \in G \ Q,
                                 !.dc = match[m].row[p].dc /\ p \notin Q]]
            x == [Idle EXCEPT !.op = "request", !.m = m, !.status = "OPEN", !.patch = patch]
<1>0. patch \in [Players -> Patches] /\ \A p \in Players : SoundPatch(patch[p])
  <2>1. ASSUME NEW p \in Players
        PROVE  patch[p] \in Patches /\ SoundPatch(patch[p])
    <3>. DEFINE q == p \in Q
                g == p \in G \ Q
                d == match[m].row[p].dc /\ p \notin Q
    <3>1. q \in Columns /\ g \in Columns /\ d \in Columns
      BY SMT DEF Columns
    <3>2. patch[p] = [quit |-> q, grief |-> g, dc |-> d, tax |-> None, won |-> None]
      BY DEF Keep
    <3>3. ~(q /\ d)
      OBVIOUS
    <3>. HIDE DEF patch, q, g, d
    <3>4. [quit |-> q, grief |-> g, dc |-> d, tax |-> None, won |-> None] \in Patches
      BY <3>1 DEF Patches, Columns
    <3>5. patch[p] \in Patches
      BY <3>2, <3>4
    <3>. QED
      BY <3>1, <3>2, <3>3, <3>5 DEF SoundPatch
  <2>. QED
    BY <2>1
<1>2. ops < MaxOps /\ Begin(t, x) /\ matchLock' = matchLock /\ match[m].status = "OPEN"
  BY DEF RequestMitigation, Free
<1>. HIDE DEF patch
<1>1. /\ x \in Transactions /\ Fresh(x) /\ x.op = "request" /\ x.m = m /\ x.patch = patch
      /\ x.plan = <<>> /\ x.todo = {} /\ x.reset = None
      /\ x.calc = [p \in Players |-> None] /\ ~x.wrote
  BY <1>0, IdleType DEF Idle, Transactions, Ops, Fresh
<1>. HIDE DEF x
<1>3. PlanOK(x)
  BY <1>1 DEF PlanOK, Plans, Counting, Locking
<1>4. AimOK(x) /\ StatusOK(x)
  BY <1>0, <1>1, <1>2 DEF AimOK, StatusOK, OnMatch, SoundPatch
<1>5. SparesOK(x)
  BY <1>1 DEF SparesOK, Spared
<1>. QED
  BY <1>1, <1>2, <1>3, <1>4, <1>5, BeginOK DEF Rating, Locking

(* A plan that a counting operation begins with.                           *)
LEMMA FirstPlan ==
    /\ <<"rows", "ratings", "league", "count">> \in Plans
    /\ <<"ratings", "rows", "league", "count">> \in Plans
    /\ <<"ratings", "rows", "count">> \in Plans
    /\ Ahead(<<"rows", "ratings", "league", "count">>, "rows")
    /\ Ahead(<<"rows", "ratings", "league", "count">>, "ratings")
    /\ Ahead(<<"rows", "ratings", "league", "count">>, "count")
    /\ Ahead(<<"ratings", "rows", "league", "count">>, "rows")
    /\ Ahead(<<"ratings", "rows", "league", "count">>, "ratings")
    /\ Ahead(<<"ratings", "rows", "league", "count">>, "count")
    /\ Ahead(<<"ratings", "rows", "count">>, "rows")
    /\ Ahead(<<"ratings", "rows", "count">>, "ratings")
    /\ Ahead(<<"ratings", "rows", "count">>, "count")
BY DEF Plans, Ahead

LEMMA OtherPlan ==
    /\ <<"rows", "count", "league">> \in Plans
    /\ <<"rows", "count">> \in Plans
    /\ <<"ratings", "count", "league">> \in Plans
    /\ Ahead(<<"rows", "count", "league">>, "rows")
    /\ Ahead(<<"rows", "count", "league">>, "count")
    /\ <<"rows">> \in Plans
    /\ <<"rows", "league", "count">> \in Plans
    /\ Ahead(<<"rows">>, "rows")
    /\ Ahead(<<"rows", "league", "count">>, "rows")
    /\ Ahead(<<"rows", "league", "count">>, "count")
    /\ Ahead(<<"rows", "count">>, "rows")
    /\ Ahead(<<"rows", "count">>, "count")
    /\ Ahead(<<"ratings", "count", "league">>, "ratings")
    /\ Ahead(<<"ratings", "count", "league">>, "count")
    /\ ~Ahead(<<"ratings", "count", "league">>, "rows")
BY DEF Plans, Ahead

LEMMA ListedType ==
    ASSUME TypeOK, NEW m \in Matches, NEW l \in Lists
    PROVE  /\ Listed(l, m, "quit") \subseteq Players
           /\ Listed(l, m, "grief") \subseteq Players
           /\ Listed(l, m, "dc") \subseteq Players
<1>1. /\ l.quit \in (SUBSET Players) \cup {{None}}
      /\ l.grief \in (SUBSET Players) \cup {{None}}
      /\ l.dc \in (SUBSET Players) \cup {{None}}
  OBVIOUS
<1>. QED
  BY <1>1 DEF Listed

LEMMA CompleteOK ==
    ASSUME Inv, NEW t \in Tasks, NEW m \in Matches, NEW w, NEW l \in Lists,
           CompleteMatch(t, m, w, l)
    PROVE  Inv'
<1>. DEFINE Q == Listed(l, m, "quit")
            G == Listed(l, m, "grief")
            D == Listed(l, m, "dc")
            patch == [p \in Players |->
                    [quit |-> p \in Q, grief |-> p \in G, dc |-> p \in D \ Q,
                     tax |-> p \in G \ Q, won |-> Result(p, w)]]
            rated == RatedRows(Q, {p \in Players : isNew[p]})
            x == [Idle EXCEPT !.op = "complete", !.m = m, !.status = "COMPLETED", !.at = Now,
                 !.patch = patch, !.holds = rated,
                 !.plan = <<"rows", "ratings", "league", "count">>,
                 !.todo = Players]
<1>0. patch \in [Players -> Patches] /\ \A p \in Players : SoundPatch(patch[p])
  <2>1. ASSUME NEW p \in Players
        PROVE  patch[p] \in Patches /\ SoundPatch(patch[p])
    <3>. DEFINE q == p \in Q
                g == p \in G
                d == p \in D \ Q
                tax == p \in G \ Q
                won == Result(p, w)
    <3>1. q \in Columns /\ g \in Columns /\ d \in Columns /\ tax \in Columns
      BY SMT DEF Columns
    <3>2. patch[p] = [quit |-> q, grief |-> g, dc |-> d, tax |-> tax, won |-> won]
      OBVIOUS
    <3>3. ~(q /\ d) /\ won \in {"none", "WIN", "LOSS", None}
      BY DEF Result
    <3>. HIDE DEF patch, q, g, d, tax, won
    <3>4. [quit |-> q, grief |-> g, dc |-> d, tax |-> tax, won |-> won] \in Patches
      BY <3>1, <3>3 DEF Patches, Columns
    <3>5. patch[p] \in Patches
      BY <3>2, <3>4
    <3>. QED
      BY <3>1, <3>2, <3>3, <3>5 DEF SoundPatch
  <2>. QED
    BY <2>1
<1>2. ops < MaxOps /\ Begin(t, x) /\ LockMatch(t, m) /\ match[m].status = "OPEN"
  BY DEF CompleteMatch, Free
<1>3. rated \in SUBSET Players /\ Now \in Times
  BY <1>2 DEF RatedRows, PairedNew, Now, Times, Inv, TypeOK, Players
<1>. HIDE DEF patch, rated
<1>4. <<"rows", "ratings", "league", "count">> \in Seq(Steps)
  BY DEF Steps
<1>1. /\ x \in Transactions /\ Fresh(x) /\ x.op = "complete" /\ x.m = m /\ x.patch = patch
      /\ x.plan = <<"rows", "ratings", "league", "count">> /\ x.todo = Players
      /\ x.reset = None
      /\ x.calc = [p \in Players |-> None] /\ ~x.wrote
  BY <1>0, <1>3, <1>4, IdleType DEF Idle, Transactions, Ops, Fresh, Closed
<1>. HIDE DEF x
<1>5. PlanOK(x)
  BY <1>1, FirstPlan DEF PlanOK, Counting, Locking
<1>6. AimOK(x) /\ StatusOK(x)
  BY <1>0, <1>1, <1>2 DEF AimOK, StatusOK, OnMatch, SoundPatch
<1>7. SparesOK(x)
  BY <1>1 DEF SparesOK
<1>. QED
  BY <1>1, <1>2, <1>5, <1>6, <1>7, FirstPlan, BeginOK DEF Rating, Locking

LEMMA CancelOK ==
    ASSUME Inv, NEW t \in Tasks, NEW m \in Matches, NEW l \in Lists,
           CancelInProgressMatch(t, m, l)
    PROVE  Inv'
<1>. DEFINE Q == Listed([quit |-> {None}], m, "quit")
            G == Listed(l, m, "grief")
            D == Listed(l, m, "dc")
            named == (IF l.grief = {None} THEN {} ELSE G) \cup (IF l.dc = {None} THEN {} ELSE D)
            affected == PlayersAffecting(Q \ named, G, D)
            patch == [p \in Players |->
                    [Keep EXCEPT !.quit = IF p \in named THEN FALSE ELSE None,
                                 !.grief = IF l.grief = {None} THEN None ELSE p \in G,
                                 !.dc = IF l.dc = {None} THEN None ELSE p \in D,
                                 !.tax = p \in G \ Q]]
            plan == IF affected = {} THEN <<"rows">>
                    ELSE IF Q \cup G = {} THEN <<"rows", "count">>
                    ELSE <<"rows", "league", "count">>
            x == [Idle EXCEPT !.op = "cancel", !.m = m, !.status = "CANCELLED",
                 !.patch = patch, !.plan = plan, !.todo = affected]
<1>2. ops < MaxOps /\ Begin(t, x) /\ LockMatch(t, m) /\ match[m].status = "OPEN"
  BY DEF CancelInProgressMatch, Free
<1>3. affected \subseteq Players /\ Q \subseteq Players
  BY ListedType DEF PlayersAffecting, Inv, Listed
<1>0. patch \in [Players -> Patches] /\ \A p \in Players : SoundPatch(patch[p])
  <2>1. ASSUME NEW p \in Players
        PROVE  patch[p] \in Patches /\ SoundPatch(patch[p])
    <3>. DEFINE q == IF p \in named THEN FALSE ELSE None
                g == IF l.grief = {None} THEN None ELSE p \in G
                d == IF l.dc = {None} THEN None ELSE p \in D
                tax == p \in G \ Q
    <3>1. q \in Columns /\ g \in Columns /\ d \in Columns /\ tax \in Columns
      BY SMT DEF Columns
    <3>2. patch[p] = [quit |-> q, grief |-> g, dc |-> d, tax |-> tax, won |-> None]
      BY DEF Keep
    <3>3. q # TRUE /\ (d = TRUE => q = FALSE)
      OBVIOUS
    <3>. HIDE DEF patch, q, g, d, tax
    <3>4. [quit |-> q, grief |-> g, dc |-> d, tax |-> tax, won |-> None] \in Patches
      BY <3>1 DEF Patches, Columns
    <3>5. patch[p] \in Patches
      BY <3>2, <3>4
    <3>. QED
      BY <3>2, <3>3, <3>5 DEF SoundPatch
  <2>. QED
    BY <2>1
<1>4. /\ plan \in Plans /\ Ahead(plan, "rows")
      /\ affected # {} => Ahead(plan, "count")
  <2>1. plan \in {<<"rows">>, <<"rows", "count">>, <<"rows", "league", "count">>}
    OBVIOUS
  <2>2. affected # {} => plan \in {<<"rows", "count">>, <<"rows", "league", "count">>}
    OBVIOUS
  <2>. HIDE DEF plan
  <2>. QED
    BY <2>1, <2>2, OtherPlan
<1>5. ASSUME NEW p \in Players \ affected
      PROVE  Unflagged(Patched(match[m].row[p], patch[p]))
  <2>1. p \notin G /\ p \notin D
    BY DEF PlayersAffecting
  <2>2. p \notin named
    BY <2>1
  <2>3. p \notin Q
    BY <2>2 DEF PlayersAffecting
  <2>4. ~match[m].row[p].quit
    BY <2>3 DEF Listed
  <2>5. l.grief = {None} => ~match[m].row[p].grief
    BY <2>1 DEF Listed
  <2>6. l.dc = {None} => ~match[m].row[p].dc
    BY <2>1 DEF Listed
  <2>7. /\ patch[p].quit = None
        /\ patch[p].grief = IF l.grief = {None} THEN None ELSE p \in G
        /\ patch[p].dc = IF l.dc = {None} THEN None ELSE p \in D
    BY <2>2 DEF Keep
  <2>8. /\ ~Patched(match[m].row[p], patch[p]).quit
        /\ Patched(match[m].row[p], patch[p]).grief =
                IF l.grief = {None} THEN match[m].row[p].grief ELSE patch[p].grief
        /\ Patched(match[m].row[p], patch[p]).dc =
                IF l.dc = {None} THEN match[m].row[p].dc ELSE patch[p].dc
    <3>. HIDE DEF patch, affected, named, G, D
    <3>1. l.grief # {None} => patch[p].grief # None
      <4>. DEFINE g == p \in G
      <4>1. g \in BOOLEAN
        OBVIOUS
      <4>2. patch[p].grief = IF l.grief = {None} THEN None ELSE g
        BY <2>7
      <4>. HIDE DEF g
      <4>. QED
        BY <4>1, <4>2
    <3>2. l.dc # {None} => patch[p].dc # None
      <4>. DEFINE d == p \in D
      <4>1. d \in BOOLEAN
        OBVIOUS
      <4>2. patch[p].dc = IF l.dc = {None} THEN None ELSE d
        BY <2>7
      <4>. HIDE DEF d
      <4>. QED
        BY <4>1, <4>2
    <3>. QED
      BY <2>4, <2>7, <3>1, <3>2 DEF Patched
  <2>9. ~Patched(match[m].row[p], patch[p]).grief /\ ~Patched(match[m].row[p], patch[p]).dc
    <3>. HIDE DEF patch, affected, named, G, D
    <3>. QED
      BY <2>1, <2>5, <2>6, <2>7, <2>8
  <2>. QED
    BY <2>8, <2>9 DEF Unflagged
<1>6. plan \in Seq(Steps)
  BY <1>4, PlansType
<1>. HIDE DEF patch, plan, affected
<1>1. /\ x \in Transactions /\ Fresh(x) /\ x.op = "cancel" /\ x.m = m /\ x.patch = patch
      /\ x.plan = plan /\ x.todo = affected /\ x.status = "CANCELLED"
      /\ x.reset = None
      /\ x.calc = [p \in Players |-> None] /\ ~x.wrote
  BY <1>0, <1>3, <1>6, IdleType DEF Idle, Transactions, Ops, Fresh, Closed
<1>. HIDE DEF x
<1>7. PlanOK(x)
  BY <1>1, <1>4 DEF PlanOK, Counting, Locking
<1>8. AimOK(x) /\ StatusOK(x)
  BY <1>0, <1>1, <1>2 DEF AimOK, StatusOK, OnMatch, SoundPatch
<1>9. SparesOK(x)
  BY <1>1, <1>5 DEF SparesOK, Spared
<1>. QED
  BY <1>1, <1>2, <1>7, <1>8, <1>9, BeginOK DEF Rating, Locking
LEMMA FlipOK ==
    ASSUME Inv, NEW t \in Tasks, NEW m \in Matches, NEW w, NEW S,
           FlipCompletedMatch(t, m, w, S)
    PROVE  Inv'
<1>. DEFINE patch == [p \in Players |->
                    LET r == match[m].row[p] IN
                    [quit |-> p \in S, grief |-> r.grief, dc |-> r.dc /\ p \notin S,
                     tax |-> r.grief /\ p \notin S, won |-> Result(p, w)]]
            x == [Idle EXCEPT !.op = "flip", !.m = m, !.holds = Players, !.todo = Players,
                 !.patch = patch, !.plan = <<"ratings", "rows", "league", "count">>]
<1>0. patch \in [Players -> Patches] /\ \A p \in Players : SoundPatch(patch[p])
  <2>1. ASSUME NEW p \in Players
        PROVE  patch[p] \in Patches /\ SoundPatch(patch[p])
    <3>. DEFINE q == p \in S
                g == match[m].row[p].grief
                d == match[m].row[p].dc /\ p \notin S
                tax == match[m].row[p].grief /\ p \notin S
                won == Result(p, w)
    <3>0. g \in BOOLEAN
      BY MatchType DEF Inv, Rows
    <3>1. q \in Columns /\ g \in Columns /\ d \in Columns /\ tax \in Columns
      BY <3>0, SMT DEF Columns
    <3>2. patch[p] = [quit |-> q, grief |-> g, dc |-> d, tax |-> tax, won |-> won]
      OBVIOUS
    <3>3. ~(q /\ d) /\ won \in {"none", "WIN", "LOSS", None}
      BY DEF Result
    <3>. HIDE DEF patch, q, g, d, tax, won
    <3>4. [quit |-> q, grief |-> g, dc |-> d, tax |-> tax, won |-> won] \in Patches
      BY <3>1, <3>3 DEF Patches, Columns
    <3>5. patch[p] \in Patches
      BY <3>2, <3>4
    <3>. QED
      BY <3>1, <3>2, <3>3, <3>5 DEF SoundPatch
  <2>. QED
    BY <2>1
<1>2. ops < MaxOps /\ Begin(t, x) /\ LockMatch(t, m) /\ match[m].status = "COMPLETED"
  BY DEF FlipCompletedMatch, Free, Correctable
<1>. HIDE DEF patch
<1>4. <<"ratings", "rows", "league", "count">> \in Seq(Steps)
  BY DEF Steps
<1>1. /\ x \in Transactions /\ Fresh(x) /\ x.op = "flip" /\ x.m = m /\ x.patch = patch
      /\ x.plan = <<"ratings", "rows", "league", "count">> /\ x.todo = Players
      /\ x.reset = None /\ x.holds = Players /\ x.status = "keep"
      /\ x.calc = [p \in Players |-> None] /\ ~x.wrote
  BY <1>0, <1>4, IdleType DEF Idle, Transactions, Ops, Fresh
<1>. HIDE DEF x
<1>5. PlanOK(x)
  BY <1>1, FirstPlan DEF PlanOK, Counting, Locking
<1>6. AimOK(x) /\ StatusOK(x)
  BY <1>0, <1>1, <1>2 DEF AimOK, StatusOK, OnMatch, SoundPatch
<1>7. SparesOK(x)
  BY <1>1 DEF SparesOK
<1>. QED
  BY <1>1, <1>2, <1>5, <1>6, <1>7, FirstPlan, BeginOK DEF Rating, Locking

LEMMA VoidOK ==
    ASSUME Inv, NEW t \in Tasks, NEW m \in Matches, VoidCompletedMatch(t, m)
    PROVE  Inv'
<1>. DEFINE patch == [p \in Players |->
                    [quit |-> FALSE, grief |-> FALSE, dc |-> FALSE, tax |-> FALSE,
                     won |-> "none"]]
            x == [Idle EXCEPT !.op = "void", !.m = m, !.status = "CANCELLED", !.holds = Players,
                 !.patch = patch, !.plan = <<"ratings", "rows", "count">>, !.todo = Players]
<1>0. patch \in [Players -> Patches] /\ \A p \in Players : SoundPatch(patch[p])
  BY DEF Patches, SoundPatch
<1>2. ops < MaxOps /\ Begin(t, x) /\ LockMatch(t, m) /\ match[m].status = "COMPLETED"
  BY DEF VoidCompletedMatch, Free, Correctable
<1>. HIDE DEF patch
<1>4. <<"ratings", "rows", "count">> \in Seq(Steps)
  BY DEF Steps
<1>1. /\ x \in Transactions /\ Fresh(x) /\ x.op = "void" /\ x.m = m /\ x.patch = patch
      /\ x.plan = <<"ratings", "rows", "count">> /\ x.todo = Players
      /\ x.reset = None /\ x.holds = Players
      /\ x.calc = [p \in Players |-> None] /\ ~x.wrote
  BY <1>0, <1>4, IdleType DEF Idle, Transactions, Ops, Fresh, Closed
<1>. HIDE DEF x
<1>5. PlanOK(x)
  BY <1>1, FirstPlan DEF PlanOK, Counting, Locking
<1>6. AimOK(x) /\ StatusOK(x)
  BY <1>0, <1>1, <1>2 DEF AimOK, StatusOK, OnMatch, SoundPatch
<1>7. SparesOK(x)
  BY <1>1 DEF SparesOK
<1>. QED
  BY <1>1, <1>2, <1>5, <1>6, <1>7, FirstPlan, BeginOK DEF Rating, Locking

LEMMA ClearOK ==
    ASSUME Inv, NEW t \in Tasks, NEW m \in Matches, NEW targets \in SUBSET Players,
           NEW patch \in [Players -> Patches],
           \A p \in Players : /\ patch[p].quit # TRUE /\ patch[p].grief # TRUE
                              /\ patch[p].dc # TRUE
                              /\ p \notin targets => patch[p] = Keep,
           NEW plan \in {<<"rows", "count", "league">>, <<"rows", "count">>},
           Clear(t, m, targets, patch, plan)
    PROVE  Inv'
<1>. DEFINE x == [Idle EXCEPT !.op = "clear", !.m = m, !.patch = patch, !.plan = plan,
                  !.todo = targets]
<1>2. ops < MaxOps /\ Begin(t, x) /\ matchLock' = matchLock /\ match[m].status \in Closed
  BY DEF Clear, Free, Finished
<1>3. /\ plan \in Plans /\ plan \in Seq(Steps)
      /\ Ahead(plan, "rows") /\ Ahead(plan, "count")
  BY OtherPlan, PlansType
<1>1. /\ x \in Transactions /\ Fresh(x) /\ x.op = "clear" /\ x.m = m /\ x.patch = patch
      /\ x.plan = plan /\ x.todo = targets /\ x.status = "keep"
      /\ x.reset = None
      /\ x.calc = [p \in Players |-> None] /\ ~x.wrote
  BY <1>3, IdleType DEF Idle, Transactions, Ops, Fresh
<1>. HIDE DEF x
<1>5. PlanOK(x)
  BY <1>1, <1>3 DEF PlanOK, Counting, Locking
<1>6. AimOK(x) /\ StatusOK(x)
  BY <1>1, <1>2 DEF AimOK, StatusOK, OnMatch, Closed
<1>7. SparesOK(x)
  BY <1>1 DEF SparesOK, Spared
<1>. QED
  BY <1>1, <1>2, <1>5, <1>6, <1>7, BeginOK DEF Rating, Locking

LEMMA ClearGriefersOK ==
    ASSUME Inv, NEW t \in Tasks, NEW m \in Matches, NEW S \in SUBSET Players,
           ClearMatchGriefers(t, m, S)
    PROVE  Inv'
<1>. DEFINE targets == {p \in S : match[m].row[p].grief \/ match[m].row[p].tax}
            patch == Only(targets, [Keep EXCEPT !.grief = FALSE, !.tax = FALSE])
<1>1. patch \in [Players -> Patches]
      /\ \A p \in Players : /\ patch[p].quit # TRUE /\ patch[p].grief # TRUE
                            /\ patch[p].dc # TRUE
                            /\ p \notin targets => patch[p] = Keep
  BY DEF Only, Keep, Patches
<1>2. Clear(t, m, targets, patch, <<"rows", "count", "league">>)
  BY DEF ClearMatchGriefers
<1>3. targets \in SUBSET Players
  OBVIOUS
<1>. HIDE DEF targets, patch
<1>. QED
  BY <1>1, <1>2, <1>3, ClearOK

LEMMA ClearDcsOK ==
    ASSUME Inv, NEW t \in Tasks, NEW m \in Matches, NEW S \in SUBSET Players,
           ClearMatchDcs(t, m, S)
    PROVE  Inv'
<1>. DEFINE targets == {p \in S : match[m].row[p].dc}
            patch == Only(targets, [Keep EXCEPT !.dc = FALSE])
<1>1. patch \in [Players -> Patches]
      /\ \A p \in Players : /\ patch[p].quit # TRUE /\ patch[p].grief # TRUE
                            /\ patch[p].dc # TRUE
                            /\ p \notin targets => patch[p] = Keep
  BY DEF Only, Keep, Patches
<1>2. Clear(t, m, targets, patch, <<"rows", "count">>)
  BY DEF ClearMatchDcs
<1>3. targets \in SUBSET Players
  OBVIOUS
<1>. HIDE DEF targets, patch
<1>. QED
  BY <1>1, <1>2, <1>3, ClearOK

LEMMA ClearQuittersOK ==
    ASSUME Inv, NEW t \in Tasks, NEW m \in Matches, NEW S \in SUBSET Players,
           ClearMatchQuitters(t, m, S)
    PROVE  Inv'
<1>. DEFINE quitters == {p \in Players : match[m].row[p].quit}
            targets == S \cap quitters
            w == {p \in Players : match[m].row[p].won = "WIN"}
            patch == [p \in Players |->
                        IF p \notin targets THEN Keep
                        ELSE IF match[m].status = "CANCELLED" THEN [Keep EXCEPT !.quit = FALSE]
                        ELSE [Keep EXCEPT !.quit = FALSE, !.won = Result(p, w)]]
<1>1. CASE Correctable(m)
  BY <1>1, FlipOK DEF ClearMatchQuitters
<1>2. CASE ~Correctable(m)
  <2>1. patch \in [Players -> Patches]
        /\ \A p \in Players : /\ patch[p].quit # TRUE /\ patch[p].grief # TRUE
                              /\ patch[p].dc # TRUE
                              /\ p \notin targets => patch[p] = Keep
    BY DEF Keep, Patches, Result
  <2>2. Clear(t, m, targets, patch, <<"rows", "count", "league">>)
    BY <1>2 DEF ClearMatchQuitters
  <2>3. targets \in SUBSET Players
    OBVIOUS
  <2>. HIDE DEF targets, patch
  <2>. QED
    BY <2>1, <2>2, <2>3, ClearOK
<1>. QED
  BY <1>1, <1>2

LEMMA AddSanctionOK ==
    ASSUME Inv, NEW t \in Tasks, NEW m \in Matches, NEW q \in Players, NEW kind \in Sanctions,
           AddManualSanction(t, m, q, kind)
    PROVE  Inv'
<1>. DEFINE d == [Keep EXCEPT !.quit = kind = "quit",
                        !.grief = kind = "grief", !.dc = kind = "dc",
                        !.tax = kind = "grief"]
            patch == Only({q}, d)
            x == [Idle EXCEPT !.op = "sanction", !.m = m, !.status = "CANCELLED",
                 !.patch = patch, !.plan = <<"rows", "count", "league">>, !.todo = {q}]
<1>0. patch \in [Players -> Patches] /\ \A p \in Players : SoundPatch(patch[p])
  <2>1. d \in Patches /\ SoundPatch(d)
    BY DEF Keep, Patches, SoundPatch, Sanctions
  <2>2. Keep \in Patches /\ SoundPatch(Keep)
    BY KeepType DEF SoundPatch
  <2>. HIDE DEF d
  <2>. QED
    BY <2>1, <2>2 DEF Only
<1>3. \A p \in Players \ {q} : patch[p] = Keep
  BY DEF Only
<1>2. ops < MaxOps /\ Begin(t, x) /\ LockMatch(t, m) /\ match[m].status = "NONE"
  BY DEF AddManualSanction, Free
<1>. HIDE DEF patch
<1>4. <<"rows", "count", "league">> \in Seq(Steps)
  BY DEF Steps
<1>1. /\ x \in Transactions /\ Fresh(x) /\ x.op = "sanction" /\ x.m = m /\ x.patch = patch
      /\ x.plan = <<"rows", "count", "league">> /\ x.todo = {q} /\ x.status = "CANCELLED"
      /\ x.reset = None
      /\ x.calc = [p \in Players |-> None] /\ ~x.wrote
  BY ZenonT(40), <1>0, <1>4, IdleType DEF Idle, Transactions, Ops, Fresh, Closed
<1>. HIDE DEF x
<1>5. PlanOK(x)
  BY <1>1, OtherPlan DEF PlanOK, Counting, Locking
<1>6. AimOK(x) /\ StatusOK(x)
  BY <1>0, <1>1, <1>2 DEF AimOK, StatusOK, OnMatch, SoundPatch
<1>7. SparesOK(x)
  BY <1>1, <1>3 DEF SparesOK, Spared
<1>. QED
  BY <1>1, <1>2, <1>5, <1>6, <1>7, BeginOK DEF Rating, Locking

LEMMA ResetOK ==
    ASSUME Inv, NEW t \in Tasks, NEW q \in Players, ApplyRankReset(t, q)
    PROVE  Inv'
<1>. DEFINE x == [Idle EXCEPT !.op = "reset", !.reset = q, !.at = Now, !.holds = {q},
                 !.plan = <<"ratings", "count", "league">>, !.todo = {q}]
<1>2. ops < MaxOps /\ Begin(t, x) /\ matchLock' = matchLock
  BY DEF ApplyRankReset, Free
<1>3. Now \in Times
  BY <1>2 DEF Now, Times, Inv, TypeOK
<1>4. <<"ratings", "count", "league">> \in Seq(Steps)
  BY DEF Steps
<1>1. /\ x \in Transactions /\ Fresh(x) /\ x.op = "reset"
      /\ x.plan = <<"ratings", "count", "league">> /\ x.todo = {q}
      /\ x.reset = q /\ x.holds = {q} /\ x.patch = [p \in Players |-> Keep]
      /\ x.calc = [p \in Players |-> None] /\ ~x.wrote
  <2>1. x \in Transactions
    BY ZenonT(40), <1>3, <1>4, IdleType DEF Transactions, Ops
  <2>. QED
    BY <2>1, IdleType DEF Idle, Fresh
<1>. HIDE DEF x
<1>5. PlanOK(x)
  BY <1>1, OtherPlan DEF PlanOK, Counting, Locking
<1>6. AimOK(x) /\ StatusOK(x)
  BY <1>1, KeepType DEF AimOK, StatusOK, OnMatch
<1>7. SparesOK(x)
  BY <1>1 DEF SparesOK, Spared
<1>. QED
  BY <1>1, <1>2, <1>5, <1>6, <1>7, OtherPlan, BeginOK DEF Rating, Locking
-----------------------------------------------------------------------------
(* A transaction goes on.                                                  *)

(* It keeps what it was begun on, and counts only what it sees.            *)
SameAim(x, y) ==
    /\ x.op = y.op /\ x.m = y.m /\ x.patch = y.patch /\ x.status = y.status
    /\ x.at = y.at /\ x.reset = y.reset /\ x.holds = y.holds /\ x.missed = y.missed

LEMMA OwnStep ==
    ASSUME Inv, NEW t \in Tasks, NEW x \in Transactions, tx' = [tx EXCEPT ![t] = x],
           SameAim(x, tx[t]), PlanOK(x),
           x.wrote = tx[t].wrote \/ \A p \in Players : x.calc[p] = None,
           \A p \in Players :
                \/ x.calc[p] = tx[t].calc[p] /\ (p \in x.late <=> p \in tx[t].late)
                \/ /\ x.calc[p] = Aggregate(History(Sees(t), p), Since(t, p))
                   /\ x.calc[p] # None /\ p \in x.todo /\ p \in tx[t].todo,
           \A p \in Players : p \notin x.todo => p \notin tx[t].todo \/ tx[t].calc[p] # None,
           \A p \in Players : x.calc[p] = None => tx[t].calc[p] = None,
           x.todo \subseteq tx[t].todo,
           LocksType', KeepsOthersLocks(t), LocksOK(t)',
           UNCHANGED <<data, ops, drift>>
    PROVE  Inv'
<1>0. TypeOK /\ TxOK(t) /\ tx[t] \in Transactions /\ tx'[t] = x
  BY InvTx, TxType DEF Inv, TypeOK
<1>1. AimOK(x)
  BY <1>0 DEF TxOK, AimOK, SameAim
<1>2. StatusOK(x)'
  BY <1>0 DEF TxOK, StatusOK, SameAim, data
<1>3. SparesOK(x)'
  <2>1. ASSUME NEW p \in Players, p \notin x.todo, x.calc[p] = None, p \notin x.late
        PROVE  Spared(x, p)'
    <3>1. p \notin tx[t].todo /\ tx[t].calc[p] = None /\ p \notin tx[t].late
      BY <2>1
    <3>2. Spared(tx[t], p)
      BY <1>0, <3>1 DEF TxOK, SparesOK
    <3>. QED
      BY <3>2 DEF Spared, SameAim, data
  <2>. QED
    BY <2>1 DEF SparesOK
<1>4. CalcOK(t)'
  <2>1. ASSUME NEW p \in Players, x.calc[p] # None, p \notin x.missed \cup x.late
        PROVE  x.calc[p] = Aggregate(History(Sees(t)', p), Since(t, p)')
    <3>0. /\ tx'[t].wrote = tx[t].wrote /\ tx'[t].m = tx[t].m /\ tx'[t].patch = tx[t].patch
          /\ tx'[t].status = tx[t].status /\ tx'[t].at = tx[t].at /\ tx'[t].op = tx[t].op
          /\ tx'[t].reset = tx[t].reset /\ match' = match /\ resetAt' = resetAt
      BY <1>0, <2>1 DEF SameAim, data
    <3>1. Sees(t)' = Sees(t) /\ Since(t, p)' = Since(t, p)
      <4>1. After(t)' = After(t)
        BY <3>0 DEF After
      <4>2. Sees(t)' = Sees(t)
        BY <3>0, <4>1 DEF Sees
      <4>3. Since(t, p)' = Since(t, p)
        BY <3>0 DEF Since
      <4>. QED
        BY <4>2, <4>3
    <3>2. x.calc[p] = Aggregate(History(Sees(t), p), Since(t, p))
      BY <1>0, <2>1 DEF TxOK, CalcOK, SameAim
    <3>. QED
      BY <3>1, <3>2
  <2>. QED
    BY <1>0, <2>1 DEF CalcOK, Since
<1>5. MissedOK(x)
  <2>1. \A p \in x.missed : x.calc[p] # None
    BY <1>0, TxType DEF TxOK, MissedOK, SameAim
  <2>2. x.op = "reset" => \A p \in Players : x.calc[p] # None => p = x.reset
    BY <1>0 DEF TxOK, MissedOK, SameAim
  <2>. QED
    BY <1>0, <2>1, <2>2 DEF TxOK, MissedOK, SameAim
<1>6. TxOK(t)'
  BY <1>0, <1>1, <1>2, <1>3, <1>4, <1>5 DEF TxOK
<1>. QED
  BY <1>0, <1>6, QuietStep DEF data, TypeOK

LEMMA WriteRowsOK ==
    ASSUME Inv, NEW t \in Tasks, WriteRows(t)
    PROVE  Inv'
<1>. DEFINE x == [tx[t] EXCEPT !.plan = Tail(tx[t].plan), !.wrote = TRUE]
            m == tx[t].m
<1>0. TypeOK /\ TxOK(t) /\ tx[t] \in Transactions
  BY InvTx, TxType DEF Inv
<1>1. /\ tx[t].plan # <<>> /\ Head(tx[t].plan) = "rows" /\ tx[t].plan \in Plans
      /\ rowsLock[m] = None /\ rowsLock' = [rowsLock EXCEPT ![m] = t]
      /\ UNCHANGED <<data, matchLock, ratingLock, leagueLock, ops, drift>>
  BY <1>0 DEF WriteRows, TxOK, PlanOK
<1>a. tx' = [tx EXCEPT ![t] = x]
  BY <1>0 DEF WriteRows, TypeOK
<1>2. /\ Tail(tx[t].plan) \in Plans /\ ~Ahead(Tail(tx[t].plan), "rows")
      /\ \A step : step # "rows" => (Ahead(Tail(tx[t].plan), step) <=> Ahead(tx[t].plan, step))
      /\ Ahead(tx[t].plan, "rows")
  BY <1>1, TailPlan, OnceEach, AheadStill, AheadTail, AheadNow
<1>3. /\ tx[t].op \in Counting \ {"reset"} /\ ~tx[t].wrote
      /\ \A p \in Players : tx[t].calc[p] = None
  BY <1>0, <1>1, <1>2 DEF TxOK, PlanOK
<1>4. m \in Matches
  BY <1>0, <1>3 DEF TxOK, AimOK, OnMatch, Counting, Locking, Ops
<1>5. /\ x \in Transactions /\ x.plan = Tail(tx[t].plan) /\ x.wrote = TRUE
      /\ x.calc = tx[t].calc /\ x.todo = tx[t].todo /\ x.late = tx[t].late
      /\ SameAim(x, tx[t])
  <2>1. Tail(tx[t].plan) \in Seq(Steps)
    BY <1>2, PlansType
  <2>. QED
    BY <1>0, <2>1 DEF Transactions, SameAim
<1>. HIDE DEF x
<1>6. PlanOK(x)
  BY <1>0, <1>2, <1>3, <1>5 DEF TxOK, PlanOK, SameAim
<1>8. LocksType' /\ KeepsOthersLocks(t)
  BY <1>0, <1>1, <1>4 DEF LocksType, KeepsOthersLocks, TypeOK
<1>9. LocksOK(t)'
  <2>1. tx'[t] = x /\ rowsLock'[x.m] = t
    BY <1>a, <1>0, <1>1, <1>4, <1>5 DEF TypeOK, SameAim
  <2>. QED
    BY <1>0, <1>1, <1>2, <1>3, <1>5, <2>1 DEF TxOK, LocksOK, SameAim
<1>. QED
  BY <1>a, <1>1, <1>3, <1>5, <1>6, <1>8, <1>9, OwnStep

LEMMA WriteRatingsOK ==
    ASSUME Inv, NEW t \in Tasks, WriteRatings(t)
    PROVE  Inv'
<1>. DEFINE x == [tx[t] EXCEPT !.plan = Tail(tx[t].plan)]
<1>0. TypeOK /\ TxOK(t) /\ tx[t] \in Transactions
  BY InvTx, TxType DEF Inv
<1>1. /\ tx[t].plan # <<>> /\ Head(tx[t].plan) = "ratings" /\ tx[t].plan \in Plans
      /\ \A p \in tx[t].holds : ratingLock[p] = None
      /\ ratingLock' = [p \in Players |-> IF p \in tx[t].holds THEN t ELSE ratingLock[p]]
      /\ UNCHANGED <<data, matchLock, rowsLock, leagueLock, ops, drift>>
  BY <1>0 DEF WriteRatings, TxOK, PlanOK
<1>a. tx' = [tx EXCEPT ![t] = x]
  BY <1>0 DEF WriteRatings, TypeOK
<1>2. /\ Tail(tx[t].plan) \in Plans /\ ~Ahead(Tail(tx[t].plan), "ratings")
      /\ \A step : step # "ratings" => (Ahead(Tail(tx[t].plan), step) <=> Ahead(tx[t].plan, step))
      /\ Ahead(tx[t].plan, "ratings")
  BY <1>1, TailPlan, OnceEach, AheadStill, AheadTail, AheadNow
<1>3. tx[t].op \in Counting /\ \A p \in Players : tx[t].calc[p] = None
  BY <1>0, <1>1, <1>2 DEF TxOK, PlanOK
<1>5. /\ x \in Transactions /\ x.plan = Tail(tx[t].plan) /\ x.wrote = tx[t].wrote
      /\ x.calc = tx[t].calc /\ x.todo = tx[t].todo /\ x.late = tx[t].late
      /\ SameAim(x, tx[t])
  <2>1. Tail(tx[t].plan) \in Seq(Steps)
    BY <1>2, PlansType
  <2>. QED
    BY <1>0, <2>1 DEF Transactions, SameAim
<1>. HIDE DEF x
<1>6. PlanOK(x)
  BY <1>0, <1>2, <1>3, <1>5 DEF TxOK, PlanOK, SameAim
<1>8. LocksType' /\ KeepsOthersLocks(t)
  BY <1>0, <1>1 DEF LocksType, KeepsOthersLocks, TypeOK
<1>9. LocksOK(t)'
  <2>1. tx'[t] = x /\ tx[t].holds \subseteq Players
    BY <1>a, <1>0, TxType DEF TypeOK
  <2>2. \A p \in x.holds : ratingLock'[p] = t
    BY <1>1, <1>5, <2>1 DEF SameAim
  <2>. QED
    BY <1>0, <1>1, <1>3, <1>5, <2>1, <2>2 DEF TxOK, LocksOK, SameAim
<1>. QED
  BY <1>a, <1>1, <1>3, <1>5, <1>6, <1>8, <1>9, OwnStep

LEMMA MarkDirtyOK ==
    ASSUME Inv, NEW t \in Tasks, MarkDirty(t)
    PROVE  Inv'
<1>. DEFINE x == [tx[t] EXCEPT !.plan = Tail(tx[t].plan)]
<1>0. TypeOK /\ TxOK(t) /\ tx[t] \in Transactions
  BY InvTx, TxType DEF Inv
<1>1. /\ tx[t].plan # <<>> /\ Head(tx[t].plan) = "league" /\ tx[t].plan \in Plans
      /\ leagueLock' = t
      /\ UNCHANGED <<data, matchLock, rowsLock, ratingLock, ops, drift>>
  BY <1>0 DEF MarkDirty, TxOK, PlanOK
<1>a. tx' = [tx EXCEPT ![t] = x]
  BY <1>0 DEF MarkDirty, TypeOK
<1>2. /\ Tail(tx[t].plan) \in Plans
      /\ \A step : step # "league" => (Ahead(Tail(tx[t].plan), step) <=> Ahead(tx[t].plan, step))
  BY <1>1, TailPlan, AheadStill, AheadTail
<1>3. tx[t].op \in Counting
  BY <1>0, <1>1 DEF TxOK, PlanOK
<1>5. /\ x \in Transactions /\ x.plan = Tail(tx[t].plan) /\ x.wrote = tx[t].wrote
      /\ x.calc = tx[t].calc /\ x.todo = tx[t].todo /\ x.late = tx[t].late
      /\ SameAim(x, tx[t])
  <2>1. Tail(tx[t].plan) \in Seq(Steps)
    BY <1>2, PlansType
  <2>. QED
    BY <1>0, <2>1 DEF Transactions, SameAim
<1>. HIDE DEF x
<1>6. PlanOK(x)
  BY <1>0, <1>2, <1>3, <1>5 DEF TxOK, PlanOK, SameAim
<1>8. LocksType' /\ KeepsOthersLocks(t)
  BY <1>0, <1>1 DEF LocksType, KeepsOthersLocks, TypeOK
<1>9. LocksOK(t)'
  <2>1. tx'[t] = x
    BY <1>a, <1>0 DEF TypeOK
  <2>. QED
    BY <1>0, <1>1, <1>2, <1>5, <2>1 DEF TxOK, LocksOK, SameAim
<1>7. \A p \in Players : p \notin x.todo => p \notin tx[t].todo
  BY <1>5
<1>. QED
  BY <1>a, <1>1, <1>5, <1>6, <1>7, <1>8, <1>9, OwnStep
LEMMA CountReadOK ==
    ASSUME Inv, NEW t \in Tasks, NEW q \in Players, CountRead(t, q)
    PROVE  Inv'
<1>. DEFINE c == Aggregate(History(Sees(t), q), Since(t, q))
            x == [tx[t] EXCEPT !.calc[q] = c, !.late = @ \ {q}]
<1>0. TypeOK /\ TxOK(t) /\ tx[t] \in Transactions /\ tx[t].calc \in [Players -> Stats \cup {None}]
  BY InvTx, TxType DEF Inv
<1>1. /\ tx[t].plan # <<>> /\ Head(tx[t].plan) = "count" /\ tx[t].plan \in Plans
      /\ q \in tx[t].todo /\ tx[t].calc[q] = None
      /\ UNCHANGED <<data, locks, ops, drift>>
  BY <1>0 DEF CountRead, TxOK, PlanOK
<1>a. tx' = [tx EXCEPT ![t] = x]
  BY <1>0 DEF CountRead, TypeOK
<1>2. ~Ahead(tx[t].plan, "rows") /\ ~Ahead(tx[t].plan, "ratings")
  BY <1>1, CountAfter
<1>3. tx[t].op \in Counting
  BY <1>0, <1>1 DEF TxOK, PlanOK
<1>4. c \in Stats /\ c # None
  BY AggregateType, CountAssumption
<1>5. /\ x \in Transactions /\ x.plan = tx[t].plan /\ x.wrote = tx[t].wrote
      /\ x.calc = [tx[t].calc EXCEPT ![q] = c] /\ x.todo = tx[t].todo
      /\ x.late = tx[t].late \ {q} /\ SameAim(x, tx[t])
  <2>. HIDE DEF c
  <2>1. [tx[t].calc EXCEPT ![q] = c] \in [Players -> Stats \cup {None}]
    BY <1>0, <1>4
  <2>2. tx[t].late \ {q} \in SUBSET Players
    BY <1>0, TxType
  <2>. QED
    BY <1>0, <2>1, <2>2 DEF Transactions, SameAim
<1>. HIDE DEF x
<1>6. PlanOK(x)
  BY <1>0, <1>2, <1>3, <1>5 DEF TxOK, PlanOK, SameAim
<1>8. LocksType' /\ KeepsOthersLocks(t)
  BY <1>0, <1>1 DEF LocksType, KeepsOthersLocks, TypeOK, locks
<1>9. LocksOK(t)'
  <2>1. tx'[t] = x
    BY <1>a, <1>0 DEF TypeOK
  <2>2. \A p \in Players \ x.todo : x.calc[p] # None => ratingLock[p] = t
    BY <1>0, <1>1, <1>5 DEF TxOK, LocksOK
  <2>. QED
    BY <1>0, <1>1, <1>5, <2>1, <2>2 DEF TxOK, LocksOK, SameAim, locks
<1>7. \A p \in Players : p \notin x.todo => p \notin tx[t].todo
  BY <1>5
<1>10. \A p \in Players :
                \/ x.calc[p] = tx[t].calc[p] /\ (p \in x.late <=> p \in tx[t].late)
                \/ /\ x.calc[p] = Aggregate(History(Sees(t), p), Since(t, p))
                   /\ x.calc[p] # None /\ p \in x.todo /\ p \in tx[t].todo
  <2>1. x.calc[q] = c
    BY <1>0, <1>5
  <2>2. \A p \in Players \ {q} : x.calc[p] = tx[t].calc[p] /\ (p \in x.late <=> p \in tx[t].late)
    BY <1>0, <1>5
  <2>. QED
    BY <1>1, <1>4, <1>5, <2>1, <2>2
<1>11. \A p \in Players : x.calc[p] = None => tx[t].calc[p] = None
  BY <1>0, <1>1, <1>5
<1>12. x.todo \subseteq tx[t].todo
  BY <1>5
<1>13. tx[t].op = "reset" => q = tx[t].reset
  BY <1>0, <1>1 DEF TxOK, MissedOK
<1>. HIDE DEF c
<1>. QED
  BY <1>a, <1>1, <1>5, <1>6, <1>7, <1>8, <1>9, <1>10, <1>11, <1>12, OwnStep

LEMMA CountWriteOK ==
    ASSUME Inv, NEW t \in Tasks, NEW q \in Players, CountWrite(t, q)
    PROVE  Inv'
<1>. DEFINE left == IF tx[t].todo = {q} THEN Tail(tx[t].plan) ELSE tx[t].plan
            x == [tx[t] EXCEPT !.todo = @ \ {q}, !.plan = left]
<1>0. TypeOK /\ TxOK(t) /\ tx[t] \in Transactions /\ tx[t].todo \subseteq Players
  BY InvTx, TxType DEF Inv
<1>1. /\ tx[t].plan # <<>> /\ Head(tx[t].plan) = "count" /\ tx[t].plan \in Plans
      /\ q \in tx[t].todo /\ tx[t].calc[q] # None
      /\ ratingLock[q] \in {None, t} /\ ratingLock' = [ratingLock EXCEPT ![q] = t]
      /\ UNCHANGED <<data, matchLock, rowsLock, leagueLock, ops, drift>>
  BY <1>0 DEF CountWrite, TxOK, PlanOK
<1>a. tx' = [tx EXCEPT ![t] = x]
  BY <1>0 DEF CountWrite, TypeOK
<1>2. /\ left \in Plans
      /\ ~Ahead(left, "rows") /\ ~Ahead(left, "ratings")
      /\ tx[t].todo # {q} => Ahead(left, "count")
      /\ ~Ahead(tx[t].plan, "ratings")
  BY <1>1, CountAfter, TailPlan, AheadTail, AheadNow
<1>3. tx[t].op \in Counting
  BY <1>0, <1>1 DEF TxOK, PlanOK
<1>5. /\ x \in Transactions /\ x.plan = left /\ x.wrote = tx[t].wrote
      /\ x.calc = tx[t].calc /\ x.todo = tx[t].todo \ {q}
      /\ x.late = tx[t].late /\ SameAim(x, tx[t])
  <2>1. left \in Seq(Steps)
    BY <1>2, PlansType
  <2>. HIDE DEF left
  <2>2. tx[t].todo \ {q} \in SUBSET Players
    BY <1>0
  <2>. QED
    BY <1>0, <2>1, <2>2 DEF Transactions, SameAim
<1>. HIDE DEF x, left
<1>6. PlanOK(x)
  <2>1. x.wrote \/ x.op = "reset"
    BY <1>0, <1>1, <1>3, <1>5, CountAfter DEF TxOK, PlanOK, SameAim
  <2>2. x.todo # {} => Ahead(x.plan, "count")
    BY <1>1, <1>2, <1>5
  <2>. QED
    BY <1>0, <1>2, <1>3, <1>5, <2>1, <2>2 DEF TxOK, PlanOK, SameAim
<1>8. LocksType' /\ KeepsOthersLocks(t)
  BY <1>0, <1>1 DEF LocksType, KeepsOthersLocks, TypeOK
<1>9. LocksOK(t)'
  <2>1. tx'[t] = x
    BY <1>a, <1>0 DEF TypeOK
  <2>2. \A p \in Players \ x.todo : x.calc[p] # None => ratingLock'[p] = t
    BY <1>0, <1>1, <1>5 DEF TxOK, LocksOK, TypeOK
  <2>3. x.op \in Rating => \A p \in x.holds : ratingLock'[p] = t
    <3>1. tx[t].holds \subseteq Players
      BY <1>0, TxType
    <3>. QED
      BY <1>0, <1>1, <1>2, <1>5, <3>1 DEF TxOK, LocksOK, SameAim, TypeOK
  <2>. QED
    BY <1>0, <1>1, <1>5, <2>1, <2>2, <2>3 DEF TxOK, LocksOK, SameAim
<1>7. \A p \in Players : p \notin x.todo => p \notin tx[t].todo \/ tx[t].calc[p] # None
  BY <1>1, <1>5
<1>12. x.todo \subseteq tx[t].todo
  BY <1>5
<1>. QED
  BY <1>a, <1>1, <1>5, <1>6, <1>7, <1>8, <1>9, <1>12, OwnStep

LEMMA IdleOK ==
    ASSUME NEW t \in Tasks, tx'[t] = Idle
    PROVE  TxOK(t)'
<1>2. /\ Idle.op = "idle" /\ Idle.plan = <<>> /\ Idle.todo = {} /\ ~Idle.wrote
      /\ Idle.calc = [p \in Players |-> None] /\ Idle.missed = {} /\ Idle.reset = None
      /\ Idle.patch = [p \in Players |-> Keep]
  BY DEF Idle
<1>3. PlanOK(Idle)
  BY <1>2 DEF PlanOK, Plans, Counting, Locking
<1>4. AimOK(Idle) /\ MissedOK(Idle)
  BY <1>2, KeepType DEF AimOK, MissedOK, OnMatch, Rating
<1>5. StatusOK(Idle)' /\ SparesOK(Idle)'
  BY <1>2 DEF StatusOK, SparesOK, Spared, OnMatch, Idle
<1>6. LocksOK(t)' /\ CalcOK(t)'
  BY <1>2 DEF LocksOK, CalcOK, Locking, Rating
<1>. QED
  BY <1>3, <1>4, <1>5, <1>6 DEF TxOK

LEMMA ReleaseOK ==
    ASSUME TypeOK, NEW t \in Tasks, Release(t)
    PROVE  LocksType' /\ KeepsOthersLocks(t)
BY DEF Release, LocksType, KeepsOthersLocks, TypeOK

LEMMA AbortOK ==
    ASSUME Inv, NEW t \in Tasks, Abort(t)
    PROVE  Inv'
<1>0. TypeOK
  BY DEF Inv
<1>1. tx' = [tx EXCEPT ![t] = Idle] /\ Release(t) /\ UNCHANGED <<data, ops, drift>>
      /\ tx'[t] = Idle
  BY <1>0 DEF Abort, TypeOK
<1>. QED
  BY <1>0, <1>1, IdleType, IdleOK, ReleaseOK, QuietStep DEF data, TypeOK

-----------------------------------------------------------------------------
(* A transaction commits.                                                  *)

LEMMA AfterIs ==
    ASSUME TypeOK, NEW t \in Tasks, tx[t].m \in Matches
    PROVE  /\ After(t) \in MatchRows
           /\ After(t).row = [p \in Players |-> Patched(match[tx[t].m].row[p], tx[t].patch[p])]
           /\ After(t).status = IF tx[t].status = "keep" THEN match[tx[t].m].status ELSE tx[t].status
           /\ After(t).at = IF tx[t].op = "complete" THEN tx[t].at ELSE match[tx[t].m].at
<1>. DEFINE x == match[tx[t].m]
            rows == [p \in Players |-> Patched(x.row[p], tx[t].patch[p])]
            st == IF tx[t].status = "keep" THEN x.status ELSE tx[t].status
            man == x.manual \/ tx[t].op = "sanction"
            at == IF tx[t].op = "complete" THEN tx[t].at ELSE x.at
<1>1. x \in MatchRows /\ tx[t].patch \in [Players -> Patches] /\ tx[t] \in Transactions
  BY TxType DEF TypeOK
<1>2. rows \in [Players -> Rows]
  BY <1>1, PatchedType DEF MatchRows
<1>3. st \in {"NONE", "OPEN"} \cup Closed /\ at \in Times
  BY <1>1 DEF MatchRows, Transactions
<1>4. After(t) = [x EXCEPT !.row = rows, !.status = st, !.manual = man, !.at = at]
  BY DEF After, Applied
<1>5. man \in BOOLEAN
  OBVIOUS
<1>. HIDE DEF x, rows, st, man, at
<1>6. After(t) \in MatchRows
  BY ZenonT(40), <1>1, <1>2, <1>3, <1>4, <1>5 DEF MatchRows
<1>7. After(t).row = rows /\ After(t).status = st /\ After(t).at = at
  BY <1>1, <1>4 DEF MatchRows
<1>. QED
  BY <1>6, <1>7 DEF x, rows, st, at

LEMMA WroteOnMatch ==
    ASSUME Inv, NEW t \in Tasks, tx[t].wrote
    PROVE  /\ tx[t].m \in Matches /\ tx[t].op \in Counting \ {"reset"}
           /\ rowsLock[tx[t].m] = t /\ tx[t].reset = None
BY InvTx DEF TxOK, PlanOK, AimOK, LocksOK, Counting, Locking, OnMatch, Ops

(* A player a transaction spares has the same history after its commit.    *)
LEMMA Untouched ==
    ASSUME Inv, NEW t \in Tasks, NEW p \in Players, Spared(tx[t], p)
    PROVE  p \notin Touches(t)
<1>0. TypeOK /\ TxOK(t) /\ tx[t] \in Transactions
  BY InvTx, TxType DEF Inv
<1>1. tx[t].reset # p
  BY <1>0 DEF TxOK, AimOK, Spared
<1>2. ASSUME tx[t].wrote
      PROVE  Entry(After(t), p) = Entry(match[tx[t].m], p)
  <2>. DEFINE m == tx[t].m
              r == match[m].row[p]
  <2>1. m \in Matches /\ tx[t].op \in Counting \ {"reset"}
    BY <1>2, WroteOnMatch
  <2>2. r \in Rows /\ tx[t].patch[p] \in Patches
    BY <2>1, <1>0, MatchType, TxType
  <2>a. After(t).row[p] = Patched(r, tx[t].patch[p])
    <3>1. After(t).row = [q \in Players |-> Patched(match[m].row[q], tx[t].patch[q])]
      BY <1>0, <2>1, AfterIs
    <3>. QED
      BY <3>1
  <2>b. After(t).status = IF tx[t].status = "keep" THEN match[m].status ELSE tx[t].status
    BY <1>0, <2>1, AfterIs
  <2>c. tx[t].op # "complete" => After(t).at = match[m].at
    BY <1>0, <2>1, AfterIs
  <2>3. /\ After(t).row[p] = Patched(r, tx[t].patch[p])
        /\ After(t).status = IF tx[t].status = "keep" THEN match[m].status ELSE tx[t].status
        /\ tx[t].op # "complete" => After(t).at = match[m].at
    BY <2>a, <2>b, <2>c
  <2>4. CASE tx[t].op = "clear"
    <3>1. After(t).row[p] = r
      BY <2>2, <2>3, <2>4, KeepKeeps DEF Spared
    <3>2. After(t).status = match[m].status
      BY <1>0, <2>3, <2>4 DEF TxOK, AimOK
    <3>. QED
      BY <2>3, <2>4, <3>1, <3>2, EntryStable
  <2>5. CASE tx[t].op = "sanction"
    <3>1. match[m].status = "NONE" /\ r = NoFlags
      BY <1>0, <2>1, <2>5 DEF TxOK, StatusOK, Inv, BlankOK
    <3>2. After(t).row[p] = NoFlags
      BY <2>2, <2>3, <2>5, <3>1, KeepKeeps DEF Spared
    <3>3. After(t).status = "CANCELLED"
      BY <1>0, <2>3, <2>5 DEF TxOK, AimOK
    <3>4. Entry(After(t), p) = None
      BY <3>2, <3>3, NoFlagsType, EntryUnflagged
    <3>5. Entry(match[m], p) = None
      BY <3>1, EntryUnfinished DEF Closed
    <3>. QED
      BY <3>4, <3>5
  <2>6. CASE tx[t].op = "cancel"
    <3>1. match[m].status = "OPEN"
      BY <1>0, <2>6 DEF TxOK, StatusOK
    <3>2. Unflagged(After(t).row[p])
      BY <2>3, <2>6 DEF Spared
    <3>3. After(t).status = "CANCELLED"
      BY <1>0, <2>3, <2>6 DEF TxOK, AimOK
    <3>4. Entry(After(t), p) = None
      BY <3>2, <3>3, EntryUnflagged
    <3>5. Entry(match[m], p) = None
      BY <3>1, EntryUnfinished DEF Closed
    <3>. QED
      BY <3>4, <3>5
  <2>. QED
    BY <2>1, <2>4, <2>5, <2>6 DEF Spared, Counting, Locking
<1>. QED
  BY <1>1, <1>2 DEF Touches

LEMMA TouchedCounted ==
    ASSUME Inv, NEW t \in Tasks, tx[t].plan = <<>>, NEW p \in Touches(t)
    PROVE  tx[t].calc[p] # None \/ p \in tx[t].late
<1>1. PlanOK(tx[t]) /\ SparesOK(tx[t]) /\ p \in Players
  BY InvTx DEF TxOK, Touches
<1>2. tx[t].todo = {}
  BY <1>1, NothingAhead DEF PlanOK
<1>. QED
  BY <1>1, <1>2, Untouched DEF SparesOK
LEMMA PatchedTwice ==
    ASSUME NEW r \in Rows, NEW d \in Patches, NEW e \in Patches,
           Unflagged(Patched(r, e)), d.quit # TRUE, d.grief # TRUE, d.dc # TRUE
    PROVE  Unflagged(Patched(Patched(r, d), e))
<1>1. /\ d.quit \in {FALSE, None} /\ d.grief \in {FALSE, None} /\ d.dc \in {FALSE, None}
      /\ r.quit \in BOOLEAN /\ r.grief \in BOOLEAN /\ r.dc \in BOOLEAN
  BY DEF Patches, Rows
<1>. QED
  BY <1>1 DEF Patched, Unflagged

LEMMA CommitFacts ==
    ASSUME Inv, NEW t \in Tasks, Commit(t)
    PROVE  /\ tx[t].op \in Counting /\ tx[t].plan = <<>> /\ tx[t].todo = {}
           /\ tx[t].op # "reset" => tx[t].wrote
           /\ tx'[t] = Idle
           /\ \A u \in Tasks \ {t} :
                tx'[u] = Missing(Touches(t), tx[t].late, tx[u])
           /\ \A n \in Matches :
                match'[n] = IF tx[t].wrote /\ n = tx[t].m THEN After(t) ELSE match[n]
           /\ \A p \in Players : resetAt'[p] = Since(t, p)
           /\ LocksType' /\ KeepsOthersLocks(t)
<1>0. TypeOK /\ TxOK(t) /\ tx[t] \in Transactions
  BY InvTx, TxType DEF Inv
<1>1. tx[t].op \in Counting /\ tx[t].plan = <<>>
  BY <1>0 DEF Commit, Transactions, Ops, Counting, Locking
<1>2. tx[t].todo = {} /\ (tx[t].op # "reset" => tx[t].wrote)
  BY <1>0, <1>1, NothingAhead DEF TxOK, PlanOK
<1>3. LocksType' /\ KeepsOthersLocks(t)
  BY <1>0, ReleaseOK DEF Commit
<1>4. /\ tx'[t] = Idle
      /\ \A u \in Tasks \ {t} : tx'[u] = Missing(Touches(t), tx[t].late, tx[u])
  BY DEF Commit
<1>5. \A n \in Matches :
        match'[n] = IF tx[t].wrote /\ n = tx[t].m THEN After(t) ELSE match[n]
  BY DEF Commit, Sees
<1>6. \A p \in Players : resetAt'[p] = Since(t, p)
  BY DEF Commit
<1>. QED
  BY <1>1, <1>2, <1>3, <1>4, <1>5, <1>6

(* What a commit writes does not unform a match, and leaves alone a match  *)
(* another transaction has locked, but for what a clear takes away.        *)
LEMMA CommitRows ==
    ASSUME Inv, NEW t \in Tasks, Commit(t), NEW n \in Matches
    PROVE  /\ match'[n] \in MatchRows
           /\ match[n].status # "NONE" => match'[n].status # "NONE"
           /\ tx[t].wrote /\ n = tx[t].m => match'[n].status # "NONE"
           /\ \A p \in Players : ~(match'[n].row[p].quit /\ match'[n].row[p].dc)
<1>0. /\ TypeOK /\ TxOK(t) /\ tx[t] \in Transactions /\ match[n] \in MatchRows
      /\ tx[t].patch \in [Players -> Patches]
  BY InvTx, TxType DEF Inv, TypeOK
<1>1. CASE ~(tx[t].wrote /\ n = tx[t].m)
  <2>1. match'[n] = match[n]
    BY <1>1, CommitFacts
  <2>. QED
    BY <1>0, <1>1, <2>1 DEF Inv, NeverQuitAndDc
<1>2. CASE tx[t].wrote /\ n = tx[t].m
  <2>1. match'[n] = After(t) /\ tx[t].op \in Counting \ {"reset"}
    BY <1>2, CommitFacts, WroteOnMatch
  <2>2. After(t).status = IF tx[t].status = "keep" THEN match[n].status ELSE tx[t].status
    BY <1>0, <1>2, AfterIs
  <2>3. After(t).row = [p \in Players |-> Patched(match[n].row[p], tx[t].patch[p])]
    BY <1>0, <1>2, AfterIs
  <2>4. After(t) \in MatchRows
    BY <1>0, <1>2, AfterIs
  <2>5. After(t).status # "NONE"
    <3>1. CASE tx[t].status = "keep"
      <4>1. tx[t].op \in OnMatch \ {"sanction"}
        BY <1>0, <2>1, <3>1 DEF TxOK, AimOK, OnMatch, Ops, Counting, Locking
      <4>. QED
        BY <1>0, <1>2, <2>2, <3>1, <4>1 DEF TxOK, StatusOK
    <3>2. CASE tx[t].status # "keep"
      BY <1>0, <2>2, <3>2 DEF Transactions, Closed
    <3>. QED
      BY <3>1, <3>2
  <2>6. ASSUME NEW p \in Players
        PROVE  ~(After(t).row[p].quit /\ After(t).row[p].dc)
    <3>. DEFINE r == match[n].row[p]
                d == tx[t].patch[p]
    <3>1. r \in Rows /\ d \in Patches
      BY <1>0 DEF MatchRows
    <3>2. ~(r.quit /\ r.dc)
      BY DEF Inv, NeverQuitAndDc
    <3>3. /\ d.quit = TRUE => d.dc = FALSE
          /\ d.dc = TRUE => d.quit = FALSE
      BY <1>0 DEF TxOK, AimOK
    <3>4. After(t).row[p] = Patched(r, d)
      BY <2>3
    <3>. HIDE DEF r, d
    <3>5. ~(Patched(r, d).quit /\ Patched(r, d).dc)
      BY <3>1, <3>2, <3>3, PatchedExclusive
    <3>. QED
      BY <3>4, <3>5
  <2>. QED
    BY <2>1, <2>4, <2>5, <2>6
<1>. QED
  BY <1>1, <1>2

(* A player it does not touch keeps the same history.                      *)
LEMMA CommitHistory ==
    ASSUME Inv, NEW t \in Tasks, Commit(t), NEW p \in Players, p \notin Touches(t)
    PROVE  /\ \A n \in Matches : Entry(match'[n], p) = Entry(match[n], p)
           /\ resetAt'[p] = resetAt[p]
<1>1. tx[t].reset # p /\ (tx[t].wrote => Entry(After(t), p) = Entry(match[tx[t].m], p))
  BY DEF Touches
<1>2. resetAt'[p] = resetAt[p]
  BY <1>1, CommitFacts DEF Since
<1>3. \A n \in Matches : Entry(match'[n], p) = Entry(match[n], p)
  BY <1>1, CommitFacts
<1>. QED
  BY <1>2, <1>3
(* A row another transaction has locked, by its match or its player rows,  *)
(* is left alone, but for what a clear takes away.                         *)
LEMMA CommitSpares ==
    ASSUME Inv, NEW t \in Tasks, Commit(t), NEW u \in Tasks \ {t}, tx[u].m \in Matches
    PROVE  /\ tx[u].wrote => match'[tx[u].m] = match[tx[u].m]
           /\ matchLock[tx[u].m] = u /\ match'[tx[u].m] # match[tx[u].m] =>
                tx[t].op = "clear" /\ tx[t].wrote /\ tx[t].m = tx[u].m
<1>0. TxOK(t) /\ TxOK(u) /\ u # t
  BY InvTx
<1>. DEFINE n == tx[u].m
<1>1. ASSUME match'[n] # match[n]
      PROVE  tx[t].wrote /\ tx[t].m = n
  BY <1>1, CommitFacts
<1>2. tx[t].wrote => rowsLock[tx[t].m] = t
  BY <1>0 DEF TxOK, LocksOK
<1>3. tx[u].wrote => rowsLock[n] = u
  BY <1>0 DEF TxOK, LocksOK
<1>4. tx[t].op \in Locking => matchLock[tx[t].m] = t
  BY <1>0 DEF TxOK, LocksOK
<1>5. tx[t].wrote => tx[t].op \in Locking \cup {"clear"}
  BY WroteOnMatch DEF Counting
<1>. HIDE DEF n
<1>6. tx[u].wrote => match'[n] = match[n]
  BY <1>0, <1>1, <1>2, <1>3
<1>7. matchLock[n] = u /\ match'[n] # match[n] => tx[t].op = "clear" /\ tx[t].wrote /\ tx[t].m = n
  BY <1>0, <1>1, <1>4, <1>5
<1>. QED
  BY <1>6, <1>7 DEF n

LEMMA CommitClear ==
    ASSUME Inv, NEW t \in Tasks, Commit(t), tx[t].op = "clear", tx[t].wrote
    PROVE  /\ tx[t].m \in Matches
           /\ match[tx[t].m].status # "NONE"
           /\ match'[tx[t].m].status = match[tx[t].m].status
           /\ \A p \in Players :
                /\ tx[t].patch[p] \in Patches
                /\ tx[t].patch[p].quit # TRUE /\ tx[t].patch[p].grief # TRUE
                /\ tx[t].patch[p].dc # TRUE
                /\ match'[tx[t].m].row[p] = Patched(match[tx[t].m].row[p], tx[t].patch[p])
<1>0. TypeOK /\ TxOK(t) /\ tx[t].patch \in [Players -> Patches]
  BY InvTx, TxType DEF Inv
<1>1. tx[t].m \in Matches
  BY WroteOnMatch
<1>2. match'[tx[t].m] = After(t)
  BY <1>1, CommitFacts
<1>3. tx[t].status = "keep" /\ match[tx[t].m].status # "NONE"
  BY <1>0 DEF TxOK, AimOK, StatusOK, OnMatch, Ops
<1>4. After(t).status = match[tx[t].m].status
  BY <1>0, <1>1, <1>3, AfterIs
<1>5. After(t).row = [p \in Players |-> Patched(match[tx[t].m].row[p], tx[t].patch[p])]
  BY <1>0, <1>1, AfterIs
<1>6. \A p \in Players : /\ tx[t].patch[p].quit # TRUE /\ tx[t].patch[p].grief # TRUE
                         /\ tx[t].patch[p].dc # TRUE
  BY <1>0 DEF TxOK, AimOK
<1>. QED
  BY <1>0, <1>1, <1>2, <1>3, <1>4, <1>5, <1>6

LEMMA CommitOther ==
    ASSUME Inv, NEW t \in Tasks, Commit(t), NEW u \in Tasks \ {t}
    PROVE  TxOK(u)' /\ tx'[u] \in Transactions
<1>. DEFINE x == tx[u]
            y == tx'[u]
<1>0. /\ TypeOK /\ TxOK(u) /\ x \in Transactions /\ u \in Tasks
      /\ PlanOK(x) /\ AimOK(x) /\ StatusOK(x) /\ LocksOK(u) /\ SparesOK(x) /\ CalcOK(u)
      /\ MissedOK(x) /\ TxOK(t)
  BY InvTx, TxType DEF Inv, TxOK
<1>1. /\ y \in Transactions
      /\ y.op = x.op /\ y.m = x.m /\ y.patch = x.patch /\ y.status = x.status
      /\ y.at = x.at /\ y.reset = x.reset /\ y.holds = x.holds /\ y.plan = x.plan
      /\ y.wrote = x.wrote /\ y.todo = x.todo /\ y.calc = x.calc
      /\ y.missed = x.missed \cup ((Touches(t) \ tx[t].late) \cap CountedBy(x))
      /\ y.late = x.late \cup (Touches(t) \cap tx[t].late \cap CountedBy(x))
  <2>. DEFINE miss == x.missed \cup ((Touches(t) \ tx[t].late) \cap CountedBy(x))
              l == x.late \cup (Touches(t) \cap tx[t].late \cap CountedBy(x))
  <2>1. y = [x EXCEPT !.missed = miss, !.late = l]
    BY CommitFacts DEF Missing
  <2>2. x \in Transactions
    BY <1>0
  <2>3. miss \in SUBSET Players /\ l \in SUBSET Players
    BY <2>2 DEF Transactions, Touches
  <2>. HIDE DEF x, y, miss, l
  <2>4. y \in Transactions
    BY <2>1, <2>2, <2>3 DEF Transactions
  <2>5. y.missed = miss /\ y.late = l
    BY <2>1, <2>2, <2>3 DEF Transactions
  <2>6. /\ y.op = x.op /\ y.m = x.m /\ y.patch = x.patch /\ y.status = x.status
        /\ y.at = x.at /\ y.reset = x.reset /\ y.holds = x.holds /\ y.plan = x.plan
        /\ y.wrote = x.wrote /\ y.todo = x.todo /\ y.calc = x.calc
    BY <2>1, <2>2 DEF Transactions
  <2>. QED
    BY <2>4, <2>5, <2>6 DEF miss, l
<1>2. x.op \in OnMatch => x.m \in Matches
  BY <1>0 DEF AimOK
<1>3. x.wrote => x.m \in Matches
  BY WroteOnMatch
<1>4. x.op \in Locking => matchLock[x.m] = u /\ x.op \in OnMatch
  BY <1>0 DEF LocksOK, Locking, OnMatch, Ops
<1>5. PlanOK(y)
  BY <1>0, <1>1 DEF PlanOK
<1>6. AimOK(y)
  BY <1>0, <1>1 DEF AimOK
<1>7. StatusOK(tx[u])'
  <2>1. x.op \in OnMatch \ {"sanction"} => match'[x.m].status # "NONE"
    BY <1>0, <1>2, CommitRows DEF StatusOK
  <2>2. x.op = "sanction" => match'[x.m].status = "NONE"
    <3>1. SUFFICES ASSUME x.op = "sanction"  PROVE match'[x.m].status = "NONE"
      OBVIOUS
    <3>2. match[x.m].status = "NONE" /\ x.m \in Matches /\ matchLock[x.m] = u
      BY <1>0, <1>2, <1>4, <3>1 DEF StatusOK, Locking
    <3>3. match'[x.m] = match[x.m]
      <4>1. SUFFICES ASSUME match'[x.m] # match[x.m]  PROVE FALSE
        OBVIOUS
      <4>2. tx[t].op = "clear" /\ tx[t].wrote /\ tx[t].m = x.m
        BY <3>2, <4>1, CommitSpares
      <4>3. match[tx[t].m].status # "NONE"
        BY <4>2, CommitClear
      <4>. QED
        BY <3>2, <4>2, <4>3
    <3>. QED
      BY <3>2, <3>3
  <2>3. x.op = "cancel" => match'[x.m].status = "OPEN"
    <3>1. SUFFICES ASSUME x.op = "cancel"  PROVE match'[x.m].status = "OPEN"
      OBVIOUS
    <3>2. match[x.m].status = "OPEN" /\ x.m \in Matches /\ matchLock[x.m] = u
      BY <1>0, <1>2, <1>4, <3>1 DEF StatusOK, Locking
    <3>3. match'[x.m].status = match[x.m].status
      <4>1. SUFFICES ASSUME match'[x.m] # match[x.m]  PROVE match'[x.m].status = match[x.m].status
        OBVIOUS
      <4>2. tx[t].op = "clear" /\ tx[t].wrote /\ tx[t].m = x.m
        BY <3>2, <4>1, CommitSpares
      <4>3. match'[tx[t].m].status = match[tx[t].m].status
        BY <4>2, CommitClear
      <4>. QED
        BY <4>2, <4>3
    <3>. QED
      BY <3>2, <3>3
  <2>4. tx'[u].op = tx[u].op /\ tx'[u].m = tx[u].m
    BY <1>1
  <2>. QED
    BY <2>1, <2>2, <2>3, <2>4 DEF StatusOK
<1>8. LocksOK(u)'
  <2>0. KeepsOthersLocks(t) /\ x.holds \subseteq Players
    BY <1>0, CommitFacts, TxType
  <2>1. y.op \in Locking => matchLock'[y.m] = u
    BY <1>1, <1>2, <1>4, <2>0 DEF KeepsOthersLocks
  <2>2. y.wrote => rowsLock'[y.m] = u
    BY <1>0, <1>1, <1>3, <2>0 DEF LocksOK, KeepsOthersLocks
  <2>3. y.op \in Rating /\ ~Ahead(y.plan, "ratings") => \A p \in y.holds : ratingLock'[p] = u
    BY <1>0, <1>1, <2>0 DEF LocksOK, KeepsOthersLocks
  <2>4. \A p \in Players \ y.todo : y.calc[p] # None => ratingLock'[p] = u
    BY <1>0, <1>1, <2>0 DEF LocksOK, KeepsOthersLocks
  <2>. QED
    BY <2>1, <2>2, <2>3, <2>4 DEF LocksOK
<1>9. SparesOK(tx[u])'
  <2>1. ASSUME NEW p \in Players, p \notin y.todo, y.calc[p] = None, p \notin y.late
        PROVE  Spared(tx[u], p)'
    <3>1. Spared(x, p)
      BY <1>0, <1>1, <2>1 DEF SparesOK
    <3>2. x.op = "cancel" => Unflagged(Patched(match'[x.m].row[p], x.patch[p]))
      <4>1. SUFFICES ASSUME x.op = "cancel"
                     PROVE  Unflagged(Patched(match'[x.m].row[p], x.patch[p]))
        OBVIOUS
      <4>2. x.m \in Matches /\ matchLock[x.m] = u
        BY <1>2, <1>4, <4>1 DEF Locking
      <4>3. Unflagged(Patched(match[x.m].row[p], x.patch[p]))
        BY <3>1, <4>1 DEF Spared
      <4>4. CASE match'[x.m] = match[x.m]
        BY <4>3, <4>4
      <4>5. CASE match'[x.m] # match[x.m]
        <5>. DEFINE r == match[x.m].row[p]
                    d == tx[t].patch[p]
                    e == x.patch[p]
        <5>1. tx[t].op = "clear" /\ tx[t].wrote /\ tx[t].m = x.m
          BY <4>2, <4>5, CommitSpares
        <5>a. \A q \in Players :
                /\ tx[t].patch[q] \in Patches
                /\ tx[t].patch[q].quit # TRUE /\ tx[t].patch[q].grief # TRUE
                /\ tx[t].patch[q].dc # TRUE
                /\ match'[tx[t].m].row[q] = Patched(match[tx[t].m].row[q], tx[t].patch[q])
          BY <5>1, CommitClear
        <5>2. /\ d \in Patches /\ d.quit # TRUE /\ d.grief # TRUE /\ d.dc # TRUE
              /\ match'[x.m].row[p] = Patched(r, d)
          BY <5>1, <5>a
        <5>3. r \in Rows /\ e \in Patches
          BY <1>0, <4>2, MatchType, TxType
        <5>4. Unflagged(Patched(r, e))
          BY <4>3
        <5>. HIDE DEF r, d, e
        <5>5. Unflagged(Patched(Patched(r, d), e))
          BY <5>2, <5>3, <5>4, PatchedTwice
        <5>. QED
          BY <5>2, <5>5 DEF e
      <4>. QED
        BY <4>4, <4>5
    <3>3. tx'[u].op = x.op /\ tx'[u].m = x.m /\ tx'[u].patch = x.patch /\ tx'[u].reset = x.reset
      BY <1>1
    <3>. QED
      BY <3>1, <3>2, <3>3 DEF Spared
  <2>. QED
    BY <2>1 DEF SparesOK
<1>10. CalcOK(u)'
  <2>1. ASSUME NEW p \in Players, y.calc[p] # None, p \notin y.missed \cup y.late
        PROVE  y.calc[p] = Aggregate(History(Sees(u)', p), Since(u, p)')
    <3>1. p \notin Touches(t) /\ p \notin x.missed \cup x.late /\ x.calc[p] # None
      BY <1>1, <2>1 DEF CountedBy
    <3>2. x.calc[p] = Aggregate(History(Sees(u), p), Since(u, p))
      BY <1>0, <3>1 DEF CalcOK
    <3>3. Since(u, p)' = Since(u, p)
      BY <1>1, <3>1, CommitHistory DEF Since
    <3>4. ASSUME NEW n \in Matches
          PROVE  Entry(Sees(u)'[n], p) = Entry(Sees(u)[n], p)
      <4>1. CASE x.wrote /\ n = x.m
        <5>1. match'[x.m] = match[x.m]
          BY <1>3, <4>1, CommitSpares
        <5>2. After(u)' = After(u)
          BY <1>1, <5>1 DEF After
        <5>3. Sees(u)[n] = After(u) /\ Sees(u)'[n] = After(u)'
          BY <1>1, <4>1 DEF Sees
        <5>. QED
          BY <5>2, <5>3
      <4>2. CASE ~(x.wrote /\ n = x.m)
        <5>1. Sees(u)[n] = match[n] /\ Sees(u)'[n] = match'[n]
          BY <1>1, <4>2 DEF Sees
        <5>. QED
          BY <3>1, <5>1, CommitHistory
      <4>. QED
        BY <4>1, <4>2
    <3>5. History(Sees(u)', p) = History(Sees(u), p)
      BY <3>4, HistoryStable
    <3>. QED
      BY <1>1, <3>2, <3>3, <3>5
  <2>. QED
    BY <2>1 DEF CalcOK, Since
<1>11. MissedOK(y)
  <2>1. ASSUME x.op \in Rating, NEW p \in x.holds, p \in Touches(t), p \notin tx[t].late,
               p \in CountedBy(x)
        PROVE  FALSE
    <3>1. x.calc[p] # None /\ p \in Players
      BY <2>1 DEF CountedBy
    <3>2. ~Ahead(x.plan, "ratings")
      BY <1>0, <3>1 DEF PlanOK
    <3>3. ratingLock[p] = u
      BY <1>0, <2>1, <3>2 DEF LocksOK
    <3>4. tx[t].calc[p] # None /\ tx[t].todo = {}
      BY <2>1, CommitFacts, TouchedCounted
    <3>5. ratingLock[p] = t
      BY <1>0, <3>1, <3>4 DEF TxOK, LocksOK
    <3>. QED
      BY <3>3, <3>5
  <2>2. \A p \in y.missed : y.calc[p] # None
    BY <1>0, <1>1 DEF MissedOK, CountedBy
  <2>. QED
    BY <1>0, <1>1, <2>1, <2>2 DEF MissedOK
<1>. QED
  BY <1>1, <1>5, <1>6, <1>7, <1>8, <1>9, <1>10, <1>11 DEF TxOK

LEMMA CommitOK ==
    ASSUME Inv, NEW t \in Tasks, Commit(t)
    PROVE  Inv'
<1>0. TypeOK /\ TxOK(t) /\ tx[t] \in Transactions
  BY InvTx, TxType DEF Inv
<1>1. \A u \in Tasks : TxOK(u)' /\ tx'[u] \in Transactions
  BY CommitFacts, CommitOther, IdleOK, IdleType
<1>2. TypeOK'
  <2>1. match' \in [Matches -> MatchRows]
    <3>1. match' = [n \in Matches |-> match'[n]]
      BY DEF Commit, Sees
    <3>. QED
      BY <3>1, CommitRows
  <2>2. resetAt' \in [Players -> Times]
    BY <1>0 DEF Commit, Since, TypeOK, Transactions
  <2>3. counters' \in [Players -> Stats] /\ isNew' \in [Players -> BOOLEAN]
    BY <1>0 DEF Commit, TypeOK, Transactions
  <2>4. tx' \in [Tasks -> Transactions]
    <3>1. tx' = [u \in Tasks |-> tx'[u]]
      BY DEF Commit
    <3>. QED
      BY <1>1, <3>1
  <2>5. ops' \in Times /\ drift' \in SUBSET Players
    BY <1>0 DEF Commit, TypeOK, Transactions
  <2>6. LocksType'
    BY CommitFacts
  <2>. QED
    BY <2>1, <2>2, <2>3, <2>4, <2>5, <2>6 DEF TypeOK, LocksType
<1>3. BlankOK'
  <2>1. ASSUME NEW n \in Matches, match'[n].status = "NONE"
        PROVE  match'[n].row = [p \in Players |-> NoFlags]
    <3>1. match'[n] = match[n]
      BY <2>1, CommitRows, CommitFacts
    <3>. QED
      BY <2>1, <3>1 DEF Inv, BlankOK
  <2>. QED
    BY <2>1 DEF BlankOK
<1>4. NeverQuitAndDc'
  BY CommitRows DEF NeverQuitAndDc
<1>5. CountersExact'
  <2>1. ASSUME NEW p \in Players, p \notin drift'
        PROVE  counters'[p] = Aggregate(History(match', p), resetAt'[p])
    <3>0. /\ p \notin tx[t].missed \cup tx[t].late
          /\ tx[t].calc[p] = None => p \notin drift
          /\ counters'[p] = IF tx[t].calc[p] = None THEN counters[p] ELSE tx[t].calc[p]
      BY <2>1 DEF Commit, CountedBy
    <3>1. CASE tx[t].calc[p] # None
      <4>1. tx[t].calc[p] = Aggregate(History(Sees(t), p), Since(t, p))
        BY <1>0, <3>0, <3>1 DEF TxOK, CalcOK
      <4>2. match' = Sees(t) /\ resetAt'[p] = Since(t, p)
        BY DEF Commit
      <4>. QED
        BY <3>0, <3>1, <4>1, <4>2
    <3>2. CASE tx[t].calc[p] = None
      <4>1. p \notin Touches(t)
        BY <3>0, <3>2, CommitFacts, TouchedCounted
      <4>2. History(match', p) = History(match, p) /\ resetAt'[p] = resetAt[p]
        BY <4>1, CommitHistory, HistoryStable
      <4>3. counters[p] = Aggregate(History(match, p), resetAt[p])
        BY <3>0, <3>2 DEF Inv, CountersExact
      <4>. QED
        BY <3>0, <3>2, <4>2, <4>3
    <3>. QED
      BY <3>1, <3>2
  <2>. QED
    BY <2>1 DEF CountersExact
<1>. QED
  BY <1>1, <1>2, <1>3, <1>4, <1>5 DEF Inv, TxOK
-----------------------------------------------------------------------------
(* Flags are written in one statement.                                     *)

LEMMA WriteFacts ==
    ASSUME Inv, NEW t \in Tasks, WriteFlags(t)
    PROVE  /\ tx[t].m \in Matches /\ tx'[t] = Idle
           /\ rowsLock[tx[t].m] = None
           /\ After(t) \in MatchRows
           /\ After(t).status # "NONE" /\ match[tx[t].m].status # "NONE"
           /\ matchLock[tx[t].m] # None => After(t).status = match[tx[t].m].status
           /\ \A n \in Matches : match'[n] = IF n = tx[t].m THEN After(t) ELSE match[n]
           /\ \A p \in Players : ~(After(t).row[p].quit /\ After(t).row[p].dc)
           /\ UNCHANGED <<resetAt, counters, isNew, locks, ops>>
<1>. DEFINE m == tx[t].m
<1>0. /\ TypeOK /\ TxOK(t) /\ tx[t] \in Transactions /\ tx[t].patch \in [Players -> Patches]
      /\ tx[t].op \in {"set", "request"}
  BY InvTx, TxType DEF Inv, WriteFlags
<1>1. m \in Matches /\ match[m].status # "NONE" /\ match[m] \in MatchRows
  BY <1>0 DEF TxOK, AimOK, StatusOK, OnMatch, Ops, TypeOK
<1>2. After(t) \in MatchRows
  BY <1>0, <1>1, AfterIs
<1>3. After(t).status = IF tx[t].status = "keep" THEN match[m].status ELSE tx[t].status
  BY <1>0, <1>1, AfterIs
<1>4. After(t).status # "NONE"
  BY <1>0, <1>1, <1>3 DEF Transactions, Closed
<1>5. matchLock[m] # None => After(t).status = match[m].status
  <2>1. tx[t].op = "set" => tx[t].status = "keep"
    BY <1>0 DEF TxOK, AimOK
  <2>2. tx[t].op = "request" => matchLock[m] = None
    BY DEF WriteFlags
  <2>. QED
    BY <1>0, <1>3, <2>1, <2>2
<1>6. \A n \in Matches : match'[n] = IF n = m THEN After(t) ELSE match[n]
  <2>1. match' = [match EXCEPT ![m] = After(t)]
    BY DEF WriteFlags
  <2>. QED
    BY <1>0, <2>1 DEF TypeOK
<1>7. ASSUME NEW p \in Players
      PROVE  ~(After(t).row[p].quit /\ After(t).row[p].dc)
  <2>. DEFINE r == match[m].row[p]
              d == tx[t].patch[p]
  <2>1. r \in Rows /\ d \in Patches
    BY <1>0, <1>1 DEF MatchRows
  <2>2. ~(r.quit /\ r.dc)
    BY <1>1 DEF Inv, NeverQuitAndDc
  <2>3. /\ d.quit = TRUE => d.dc = FALSE
        /\ d.dc = TRUE => d.quit = FALSE
    BY <1>0 DEF TxOK, AimOK
  <2>4. After(t).row = [q \in Players |-> Patched(match[m].row[q], tx[t].patch[q])]
    BY <1>0, <1>1, AfterIs
  <2>5. After(t).row[p] = Patched(r, d)
    BY <2>4
  <2>. HIDE DEF r, d
  <2>6. ~(Patched(r, d).quit /\ Patched(r, d).dc)
    BY <2>1, <2>2, <2>3, PatchedExclusive
  <2>. QED
    BY <2>5, <2>6
<1>8. tx'[t] = Idle /\ rowsLock[m] = None /\ UNCHANGED <<resetAt, counters, isNew, locks, ops>>
  BY DEF WriteFlags
<1>. QED
  BY <1>1, <1>2, <1>4, <1>5, <1>6, <1>7, <1>8

LEMMA WriteOther ==
    ASSUME Inv, NEW t \in Tasks, WriteFlags(t), NEW u \in Tasks \ {t}
    PROVE  TxOK(u)' /\ tx'[u] \in Transactions
<1>. DEFINE x == tx[u]
            y == tx'[u]
            m == tx[t].m
            touched == {p \in Players : Entry(After(t), p) # Entry(match[m], p)}
            changed == {p \in Players : After(t).row[p] # match[m].row[p]}
            l == x.late \cup (touched \cap CountedBy(x))
                        \cup (IF matchLock[m] = u THEN changed ELSE {})
<1>0. /\ TypeOK /\ x \in Transactions /\ u \in Tasks
      /\ PlanOK(x) /\ AimOK(x) /\ StatusOK(x) /\ LocksOK(u) /\ SparesOK(x) /\ CalcOK(u)
      /\ MissedOK(x)
  BY InvTx, TxType DEF Inv, TxOK
<1>w. /\ m \in Matches /\ rowsLock[m] = None
      /\ After(t).status # "NONE" /\ match[m].status # "NONE"
      /\ matchLock[m] # None => After(t).status = match[m].status
      /\ \A n \in Matches : match'[n] = IF n = m THEN After(t) ELSE match[n]
      /\ UNCHANGED <<resetAt, counters, isNew, locks, ops>>
  BY WriteFacts
<1>1. /\ y \in Transactions
      /\ y.op = x.op /\ y.m = x.m /\ y.patch = x.patch /\ y.status = x.status
      /\ y.at = x.at /\ y.reset = x.reset /\ y.holds = x.holds /\ y.plan = x.plan
      /\ y.wrote = x.wrote /\ y.todo = x.todo /\ y.calc = x.calc
      /\ y.missed = x.missed /\ y.late = l
  <2>1. y = [x EXCEPT !.late = l]
    BY DEF WriteFlags
  <2>2. l \in SUBSET Players
    BY <1>0 DEF Transactions
  <2>3. x \in Transactions
    BY <1>0
  <2>. HIDE DEF x, y, l
  <2>4. y \in Transactions
    BY <2>1, <2>2, <2>3 DEF Transactions
  <2>5. y.late = l
    BY <2>1, <2>2, <2>3 DEF Transactions
  <2>6. /\ y.op = x.op /\ y.m = x.m /\ y.patch = x.patch /\ y.status = x.status
        /\ y.at = x.at /\ y.reset = x.reset /\ y.holds = x.holds /\ y.plan = x.plan
        /\ y.wrote = x.wrote /\ y.todo = x.todo /\ y.calc = x.calc /\ y.missed = x.missed
    BY <2>1, <2>3 DEF Transactions
  <2>. QED
    BY <2>4, <2>5, <2>6
<1>2. x.op \in OnMatch => x.m \in Matches
  BY <1>0 DEF AimOK
<1>3. x.wrote => x.m \in Matches /\ x.m # m
  BY <1>0, <1>w, WroteOnMatch
<1>4. x.op \in Locking => matchLock[x.m] = u /\ x.op \in OnMatch
  BY <1>0 DEF LocksOK, Locking, OnMatch, Ops
<1>5. PlanOK(y)
  BY <1>0, <1>1 DEF PlanOK
<1>6. AimOK(y)
  BY <1>0, <1>1 DEF AimOK
<1>7. StatusOK(tx[u])'
  <2>1. x.op \in OnMatch \ {"sanction"} => match'[x.m].status # "NONE"
    BY <1>0, <1>2, <1>w DEF StatusOK
  <2>2. x.op = "sanction" => match'[x.m].status = "NONE"
    BY <1>0, <1>2, <1>w DEF StatusOK, OnMatch, Ops
  <2>3. x.op = "cancel" => match'[x.m].status = "OPEN"
    BY <1>0, <1>2, <1>4, <1>w DEF StatusOK, OnMatch, Ops, Locking
  <2>4. tx'[u].op = tx[u].op /\ tx'[u].m = tx[u].m
    BY <1>1
  <2>. QED
    BY <2>1, <2>2, <2>3, <2>4 DEF StatusOK
<1>8. LocksOK(u)'
  <2>1. matchLock' = matchLock /\ rowsLock' = rowsLock /\ ratingLock' = ratingLock
    BY <1>w DEF locks
  <2>2. y.op \in Locking => matchLock'[y.m] = u
    BY <1>1, <1>4, <2>1
  <2>3. y.wrote => rowsLock'[y.m] = u
    BY <1>0, <1>1, <2>1 DEF LocksOK
  <2>4. y.op \in Rating /\ ~Ahead(y.plan, "ratings") => \A p \in y.holds : ratingLock'[p] = u
    BY <1>0, <1>1, <2>1 DEF LocksOK
  <2>5. \A p \in Players \ y.todo : y.calc[p] # None => ratingLock'[p] = u
    BY <1>0, <1>1, <2>1 DEF LocksOK
  <2>. QED
    BY <2>2, <2>3, <2>4, <2>5 DEF LocksOK
<1>9. SparesOK(tx[u])'
  <2>1. ASSUME NEW p \in Players, p \notin y.todo, y.calc[p] = None, p \notin y.late
        PROVE  Spared(tx[u], p)'
    <3>1. Spared(x, p)
      BY <1>0, <1>1, <2>1 DEF SparesOK
    <3>2. x.op = "cancel" => Unflagged(Patched(match'[x.m].row[p], x.patch[p]))
      <4>1. SUFFICES ASSUME x.op = "cancel"
                     PROVE  Unflagged(Patched(match'[x.m].row[p], x.patch[p]))
        OBVIOUS
      <4>2. x.m \in Matches /\ matchLock[x.m] = u
        BY <1>2, <1>4, <4>1 DEF Locking
      <4>3. match'[x.m].row[p] = match[x.m].row[p]
        <5>1. CASE x.m = m
          <6>1. p \notin changed
            BY <1>1, <2>1, <4>2, <5>1
          <6>. QED
            BY <1>w, <5>1, <6>1
        <5>2. CASE x.m # m
          BY <1>w, <4>2, <5>2
        <5>. QED
          BY <5>1, <5>2
      <4>. QED
        BY <3>1, <4>1, <4>3 DEF Spared
    <3>3. tx'[u].op = x.op /\ tx'[u].m = x.m /\ tx'[u].patch = x.patch /\ tx'[u].reset = x.reset
      BY <1>1
    <3>. QED
      BY <3>1, <3>2, <3>3 DEF Spared
  <2>. QED
    BY <2>1 DEF SparesOK
<1>10. CalcOK(u)'
  <2>1. ASSUME NEW p \in Players, y.calc[p] # None, p \notin y.missed \cup y.late
        PROVE  y.calc[p] = Aggregate(History(Sees(u)', p), Since(u, p)')
    <3>1. p \notin touched /\ p \notin x.missed \cup x.late /\ x.calc[p] # None
      BY <1>1, <2>1 DEF CountedBy
    <3>2. x.calc[p] = Aggregate(History(Sees(u), p), Since(u, p))
      BY <1>0, <3>1 DEF CalcOK
    <3>3. Since(u, p)' = Since(u, p)
      BY <1>1, <1>w DEF Since
    <3>4. ASSUME NEW n \in Matches
          PROVE  Entry(Sees(u)'[n], p) = Entry(Sees(u)[n], p)
      <4>1. CASE x.wrote /\ n = x.m
        <5>1. match'[x.m] = match[x.m]
          BY <1>3, <1>w, <4>1
        <5>2. After(u)' = After(u)
          BY <1>1, <5>1 DEF After
        <5>3. Sees(u)[n] = After(u) /\ Sees(u)'[n] = After(u)'
          BY <1>1, <4>1 DEF Sees
        <5>. QED
          BY <5>2, <5>3
      <4>2. CASE ~(x.wrote /\ n = x.m)
        <5>1. Sees(u)[n] = match[n] /\ Sees(u)'[n] = match'[n]
          BY <1>1, <4>2 DEF Sees
        <5>. QED
          BY <1>w, <3>1, <5>1
      <4>. QED
        BY <4>1, <4>2
    <3>5. History(Sees(u)', p) = History(Sees(u), p)
      BY <3>4, HistoryStable
    <3>. QED
      BY <1>1, <3>2, <3>3, <3>5
  <2>. QED
    BY <2>1 DEF CalcOK, Since
<1>11. MissedOK(y)
  BY <1>0, <1>1 DEF MissedOK
<1>. QED
  BY <1>1, <1>5, <1>6, <1>7, <1>8, <1>9, <1>10, <1>11 DEF TxOK

LEMMA WriteFlagsOK ==
    ASSUME Inv, NEW t \in Tasks, WriteFlags(t)
    PROVE  Inv'
<1>0. TypeOK
  BY DEF Inv
<1>1. \A u \in Tasks : TxOK(u)' /\ tx'[u] \in Transactions
  BY WriteFacts, WriteOther, IdleOK, IdleType
<1>2. TypeOK'
  <2>1. match' \in [Matches -> MatchRows]
    <3>1. match' = [match EXCEPT ![tx[t].m] = After(t)]
      BY DEF WriteFlags
    <3>. QED
      BY <1>0, <3>1, WriteFacts DEF TypeOK
  <2>2. tx' \in [Tasks -> Transactions]
    <3>1. tx' = [u \in Tasks |-> tx'[u]]
      BY DEF WriteFlags
    <3>. QED
      BY <1>1, <3>1
  <2>3. drift' \in SUBSET Players
    BY <1>0 DEF WriteFlags, TypeOK
  <2>. QED
    BY <1>0, <2>1, <2>2, <2>3, WriteFacts DEF TypeOK, locks
<1>3. BlankOK'
  BY WriteFacts DEF Inv, BlankOK
<1>4. NeverQuitAndDc'
  BY WriteFacts DEF Inv, NeverQuitAndDc
<1>5. CountersExact'
  <2>1. ASSUME NEW p \in Players, p \notin drift'
        PROVE  counters'[p] = Aggregate(History(match', p), resetAt'[p])
    <3>1. p \notin drift /\ Entry(After(t), p) = Entry(match[tx[t].m], p)
      BY <2>1 DEF WriteFlags
    <3>2. \A n \in Matches : Entry(match'[n], p) = Entry(match[n], p)
      BY <3>1, WriteFacts
    <3>3. History(match', p) = History(match, p)
      BY <3>2, HistoryStable
    <3>4. counters[p] = Aggregate(History(match, p), resetAt[p])
      BY <3>1 DEF Inv, CountersExact
    <3>. QED
      BY <3>3, <3>4, WriteFacts
  <2>. QED
    BY <2>1 DEF CountersExact
<1>. QED
  BY <1>1, <1>2, <1>3, <1>4, <1>5 DEF Inv, TxOK
-----------------------------------------------------------------------------
(* Steps outside any transaction, and the theorems.                        *)

LEMMA AppliedIs ==
    ASSUME NEW y \in MatchRows, NEW op, NEW patch, NEW status, NEW at
    PROVE  /\ Applied(y, op, patch, status, at).row =
                    [p \in Players |-> Patched(y.row[p], patch[p])]
           /\ Applied(y, op, patch, status, at).status =
                    IF status = "keep" THEN y.status ELSE status
           /\ Applied(y, op, patch, status, at).at = IF op = "complete" THEN at ELSE y.at
<1>. DEFINE rows == [p \in Players |-> Patched(y.row[p], patch[p])]
            st == IF status = "keep" THEN y.status ELSE status
            man == y.manual \/ op = "sanction"
            a == IF op = "complete" THEN at ELSE y.at
            z == Applied(y, op, patch, status, at)
<1>1. z = [y EXCEPT !.row = rows, !.status = st, !.manual = man, !.at = a]
  BY DEF Applied
<1>. HIDE DEF rows, st, man, a, z
<1>2. z.row = rows /\ z.status = st /\ z.at = a
  BY <1>1 DEF MatchRows
<1>. QED
  BY <1>2 DEF rows, st, a, z

LEMMA RowsStay ==
    ASSUME Inv, UNCHANGED <<resetAt, counters, locks, tx, drift>>,
           ops' \in Times, isNew' \in [Players -> BOOLEAN], match' \in [Matches -> MatchRows],
           \A n \in Matches :
                /\ match'[n].row = match[n].row /\ match'[n].at = match[n].at
                /\ \A p \in Players : Entry(match'[n], p) = Entry(match[n], p)
                /\ \/ match'[n].status = match[n].status
                   \/ /\ matchLock[n] = None /\ match[n].status = "NONE"
                      /\ match'[n].status = "OPEN"
    PROVE  Inv'
<1>0. TypeOK
  BY DEF Inv
<1>1. TypeOK'
  BY <1>0 DEF TypeOK, locks
<1>2. BlankOK' /\ NeverQuitAndDc'
  BY DEF Inv, BlankOK, NeverQuitAndDc
<1>3. CountersExact'
  BY HistoryStable DEF Inv, CountersExact
<1>4. ASSUME NEW u \in Tasks
      PROVE  TxOK(u)'
  <2>0. /\ tx' = tx /\ matchLock' = matchLock /\ rowsLock' = rowsLock
        /\ ratingLock' = ratingLock /\ resetAt' = resetAt
    BY DEF locks
  <2>1. /\ PlanOK(tx[u]) /\ AimOK(tx[u]) /\ StatusOK(tx[u]) /\ LocksOK(u) /\ SparesOK(tx[u])
        /\ CalcOK(u) /\ MissedOK(tx[u])
    BY InvTx DEF TxOK
  <2>2. tx[u].op \in OnMatch => tx[u].m \in Matches
    BY <2>1 DEF AimOK
  <2>3. tx[u].op \in Locking => tx[u].op \in OnMatch /\ matchLock[tx[u].m] = u
    BY <2>1 DEF LocksOK, Locking, OnMatch, Ops
  <2>4. StatusOK(tx[u])'
    <3>1. tx[u].op \in OnMatch \ {"sanction"} => match'[tx[u].m].status # "NONE"
      BY <2>1, <2>2 DEF StatusOK
    <3>2. tx[u].op = "sanction" => match'[tx[u].m].status = "NONE"
      BY <2>1, <2>2, <2>3 DEF StatusOK, Locking
    <3>3. tx[u].op = "cancel" => match'[tx[u].m].status = "OPEN"
      BY <2>1, <2>2, <2>3 DEF StatusOK, Locking
    <3>. QED
      BY <2>0, <3>1, <3>2, <3>3 DEF StatusOK
  <2>5. LocksOK(u)' /\ PlanOK(tx'[u]) /\ AimOK(tx'[u]) /\ MissedOK(tx'[u])
    BY <2>0, <2>1 DEF LocksOK
  <2>6. SparesOK(tx[u])'
    <3>1. ASSUME NEW p \in Players, Spared(tx[u], p)
          PROVE  Spared(tx[u], p)'
      <4>1. tx[u].op = "cancel" => match'[tx[u].m].row[p] = match[tx[u].m].row[p]
        BY <2>2 DEF OnMatch, Ops
      <4>. QED
        BY <2>0, <3>1, <4>1 DEF Spared
    <3>. QED
      BY <2>0, <2>1, <3>1 DEF SparesOK
  <2>7. CalcOK(u)'
    <3>1. ASSUME NEW p \in Players, NEW n \in Matches
          PROVE  Entry(Sees(u)'[n], p) = Entry(Sees(u)[n], p)
      <4>1. CASE tx[u].wrote /\ n = tx[u].m
        <5>. DEFINE a == match[n]
                    b == match'[n]
        <5>1. Sees(u)[n] = After(u) /\ Sees(u)'[n] = After(u)'
          BY <2>0, <4>1 DEF Sees
        <5>2. a \in MatchRows /\ b \in MatchRows
          BY <1>0 DEF TypeOK
        <5>3. /\ After(u) = Applied(a, tx[u].op, tx[u].patch, tx[u].status, tx[u].at)
              /\ After(u)' = Applied(b, tx[u].op, tx[u].patch, tx[u].status, tx[u].at)
          BY <2>0, <4>1 DEF After
        <5>4. a.status = b.status \/ (tx[u].op = "sanction" /\ tx[u].status = "CANCELLED")
          <6>1. tx[u].op \in Counting \ {"reset"}
            BY <4>1, WroteOnMatch
          <6>2. tx[u].op \in OnMatch
            BY <6>1 DEF OnMatch, Ops, Counting, Locking
          <6>. QED
            BY <2>1, <4>1, <6>2 DEF StatusOK, AimOK
        <5>5. a.row = b.row /\ a.at = b.at
          OBVIOUS
        <5>. DEFINE x == tx[u]
        <5>. HIDE DEF a, b, x
        <5>6. /\ After(u).row = [q \in Players |-> Patched(a.row[q], x.patch[q])]
              /\ After(u).status = IF x.status = "keep" THEN a.status ELSE x.status
              /\ After(u).at = IF x.op = "complete" THEN x.at ELSE a.at
          BY <5>2, <5>3, AppliedIs DEF x
        <5>7. /\ After(u)'.row = [q \in Players |-> Patched(b.row[q], x.patch[q])]
              /\ After(u)'.status = IF x.status = "keep" THEN b.status ELSE x.status
              /\ After(u)'.at = IF x.op = "complete" THEN x.at ELSE b.at
          BY <5>2, <5>3, AppliedIs DEF x
        <5>8. After(u).row[p] = After(u)'.row[p]
          BY <5>5, <5>6, <5>7
        <5>9. After(u).at = After(u)'.at
          BY <5>5, <5>6, <5>7
        <5>10. After(u).status = After(u)'.status
          BY <5>4, <5>6, <5>7 DEF x
        <5>. QED
          BY <5>1, <5>8, <5>9, <5>10, EntryStable
      <4>2. CASE ~(tx[u].wrote /\ n = tx[u].m)
        <5>1. Sees(u)[n] = match[n] /\ Sees(u)'[n] = match'[n]
          BY <2>0, <4>2 DEF Sees
        <5>. QED
          BY <5>1
      <4>. QED
        BY <4>1, <4>2
    <3>2. \A p \in Players : History(Sees(u)', p) = History(Sees(u), p)
      BY <3>1, HistoryStable
    <3>3. \A p \in Players : Since(u, p)' = Since(u, p)
      BY <2>0 DEF Since
    <3>. QED
      BY <2>0, <2>1, <3>2, <3>3 DEF CalcOK
  <2>. QED
    BY <2>4, <2>5, <2>6, <2>7 DEF TxOK
<1>. QED
  BY <1>1, <1>2, <1>3, <1>4 DEF Inv, TxOK

LEMMA OutsideOK ==
    ASSUME Inv,
           \/ \E p \in Players, new \in BOOLEAN : SetNew(p, new)
           \/ \E m \in Matches : OpenMatch(m) \/ Day(m)
           \/ UNCHANGED vars
    PROVE  Inv'
<1>0. TypeOK
  BY DEF Inv
<1>1. ASSUME NEW p \in Players, NEW new \in BOOLEAN, SetNew(p, new)
      PROVE  Inv'
  <2>1. /\ match' = match /\ UNCHANGED <<resetAt, counters, locks, tx, drift>>
        /\ isNew' \in [Players -> BOOLEAN] /\ ops' \in Times
    BY <1>0, <1>1 DEF SetNew, TypeOK, Now, Times
  <2>. QED
    BY <1>0, <2>1, RowsStay DEF TypeOK
<1>2. ASSUME NEW m \in Matches, OpenMatch(m)
      PROVE  Inv'
  <2>. DEFINE z == [match[m] EXCEPT !.status = "OPEN"]
  <2>1. /\ match[m].status = "NONE" /\ matchLock[m] = None /\ match' = [match EXCEPT ![m] = z]
        /\ UNCHANGED <<resetAt, counters, isNew, locks, tx, ops, drift>>
    BY <1>0, <1>2 DEF OpenMatch, TypeOK
  <2>2. /\ z \in MatchRows /\ z.status = "OPEN" /\ z.row = match[m].row /\ z.at = match[m].at
    BY <1>0, SMTT(30) DEF TypeOK, MatchRows
  <2>. HIDE DEF z
  <2>3. \A p \in Players : Entry(z, p) = Entry(match[m], p)
    BY <2>1, <2>2, EntryUnfinished DEF Closed
  <2>4. match' \in [Matches -> MatchRows]
    BY <1>0, <2>1, <2>2 DEF TypeOK
  <2>5. \A n \in Matches : match'[n] = IF n = m THEN z ELSE match[n]
    BY <1>0, <2>1 DEF TypeOK
  <2>. QED
    BY <1>0, <2>1, <2>2, <2>3, <2>4, <2>5, RowsStay DEF TypeOK
<1>3. ASSUME NEW m \in Matches, Day(m)
      PROVE  Inv'
  <2>. DEFINE z == [match[m] EXCEPT !.old = TRUE]
  <2>1. /\ match' = [match EXCEPT ![m] = z]
        /\ UNCHANGED <<resetAt, counters, isNew, locks, tx, ops, drift>>
    BY <1>0, <1>3 DEF Day, TypeOK
  <2>a. z \in MatchRows
    <3>. DEFINE x == match[m]
                yes == TRUE
    <3>1. x \in MatchRows /\ yes \in BOOLEAN /\ z = [x EXCEPT !.old = yes]
      BY <1>0 DEF TypeOK
    <3>. HIDE DEF x, yes, z
    <3>. QED
      BY <3>1 DEF MatchRows
  <2>b. z.status = match[m].status
    BY <1>0 DEF TypeOK, MatchRows
  <2>c. z.row = match[m].row
    BY <1>0 DEF TypeOK, MatchRows
  <2>d. z.at = match[m].at
    BY <1>0 DEF TypeOK, MatchRows
  <2>2. /\ z \in MatchRows /\ z.status = match[m].status /\ z.row = match[m].row
        /\ z.at = match[m].at
    BY <2>a, <2>b, <2>c, <2>d
  <2>. HIDE DEF z
  <2>3. \A p \in Players : Entry(z, p) = Entry(match[m], p)
    BY <2>2, EntryStable
  <2>4. match' \in [Matches -> MatchRows]
    BY <1>0, <2>1, <2>2 DEF TypeOK
  <2>5. \A n \in Matches : match'[n] = IF n = m THEN z ELSE match[n]
    BY <1>0, <2>1 DEF TypeOK
  <2>. QED
    BY <1>0, <2>1, <2>2, <2>3, <2>4, <2>5, RowsStay DEF TypeOK
<1>4. CASE UNCHANGED vars
  <2>1. /\ match' = match /\ UNCHANGED <<resetAt, counters, locks, tx, drift>>
        /\ isNew' = isNew /\ ops' = ops
    BY <1>4 DEF vars, data, locks
  <2>. QED
    BY <1>0, <2>1, RowsStay DEF TypeOK
<1>. QED
  BY <1>1, <1>2, <1>3, <1>4

LEMMA InitOK == Init => Inv
<1>. SUFFICES ASSUME Init PROVE Inv
  OBVIOUS
<1>1. NoMatch \in MatchRows /\ NoMatch.status = "NONE" /\ NoMatch.row = [p \in Players |-> NoFlags]
  <2>1. [p \in Players |-> NoFlags] \in [Players -> Rows] /\ 0 \in Times
    BY NoFlagsType DEF Times
  <2>. QED
    BY <2>1 DEF NoMatch, MatchRows
<1>2. Zero \in Stats
  BY DEF Zero, Stats
<1>3. TypeOK
  BY <1>1, <1>2, IdleType DEF Init, TypeOK, Times
<1>4. BlankOK /\ NeverQuitAndDc
  BY <1>1, NoFlagsType DEF Init, BlankOK, NeverQuitAndDc, NoFlags
<1>5. CountersExact
  <2>1. ASSUME NEW p \in Players
        PROVE  Zero = Aggregate(History(match, p), 0)
    <3>1. \A m \in Matches : History(match, p)[m] = None
      BY <1>1, EntryUnfinished DEF Init, History, Closed
    <3>. DEFINE h == History(match, p)
                seen == {m \in Matches : h[m] # None /\ CountedAfterReset(h[m], 0)}
    <3>2. seen = {}
      BY <3>1
    <3>3. /\ {m \in seen : h[m].won = "WIN"} = {} /\ {m \in seen : h[m].won = "LOSS"} = {}
          /\ {m \in seen : h[m].quit} = {} /\ {m \in seen : h[m].grief} = {}
          /\ {m \in seen : h[m].dc} = {}
      BY <3>2
    <3>4. Cardinality({}) = 0
      BY FS_EmptySet
    <3>5. Aggregate(h, 0) = [wins |-> Cardinality({m \in seen : h[m].won = "WIN"}),
         losses |-> Cardinality({m \in seen : h[m].won = "LOSS"}),
         quits |-> Cardinality({m \in seen : h[m].quit}),
         griefs |-> Cardinality({m \in seen : h[m].grief}),
         dcs |-> Cardinality({m \in seen : h[m].dc})]
      BY DEF Aggregate
    <3>. HIDE DEF h, seen
    <3>. QED
      BY <3>3, <3>4, <3>5 DEF Zero, h
  <2>. QED
    BY <2>1 DEF Init, CountersExact
<1>6. ASSUME NEW t \in Tasks
      PROVE  TxOK(t)
  <2>1. /\ tx[t] = Idle /\ Idle.op = "idle" /\ Idle.plan = <<>> /\ Idle.todo = {} /\ ~Idle.wrote
        /\ Idle.calc = [p \in Players |-> None] /\ Idle.missed = {} /\ Idle.reset = None
        /\ Idle.patch = [p \in Players |-> Keep]
    BY DEF Idle, Init
  <2>2. PlanOK(tx[t])
    BY <2>1 DEF PlanOK, Plans, Counting, Locking
  <2>3. AimOK(tx[t]) /\ MissedOK(tx[t])
    BY <2>1, KeepType DEF AimOK, MissedOK, OnMatch, Rating
  <2>4. StatusOK(tx[t]) /\ SparesOK(tx[t])
    BY <2>1 DEF StatusOK, SparesOK, Spared, OnMatch, Idle
  <2>5. LocksOK(t) /\ CalcOK(t)
    BY <2>1 DEF LocksOK, CalcOK, Locking, Rating
  <2>. QED
    BY <2>2, <2>3, <2>4, <2>5 DEF TxOK
<1>. QED
  BY <1>3, <1>4, <1>5, <1>6 DEF Inv, TxOK

LEMMA StepOK == Inv /\ [Next]_vars => Inv'
<1>. SUFFICES ASSUME Inv, [Next]_vars  PROVE Inv'
  OBVIOUS
<1>1. ASSUME NEW t \in Tasks, Proceed(t)
      PROVE  Inv'
  BY <1>1, WriteRowsOK, WriteRatingsOK, MarkDirtyOK, WriteFlagsOK, CountReadOK, CountWriteOK,
     CommitOK, AbortOK DEF Proceed
<1>2. ASSUME NEW t \in Tasks, NEW m \in Matches, FlagsCommand(t, m)
      PROVE  Inv'
  BY <1>2, ReportFlags
<1>3. ASSUME NEW t \in Tasks, NEW m \in Matches, CompleteCommand(t, m)
      PROVE  Inv'
  BY <1>3, CompleteOK, RequestOK DEF CompleteCommand
<1>4. ASSUME NEW t \in Tasks, NEW m \in Matches, CancelCommand(t, m)
      PROVE  Inv'
  BY <1>4, CancelOK DEF CancelCommand
<1>5. ASSUME NEW t \in Tasks, NEW m \in Matches, ClearCommand(t, m)
      PROVE  Inv'
  BY <1>5, ClearGriefersOK, ClearDcsOK, ClearQuittersOK DEF ClearCommand
<1>6. ASSUME NEW t \in Tasks, NEW m \in Matches, CorrectionConfirm(t, m)
      PROVE  Inv'
  BY <1>6, FlipOK, VoidOK DEF CorrectionConfirm
<1>7. ASSUME NEW t \in Tasks, NEW p \in Players, SanctionCommand(t, p)
      PROVE  Inv'
  <2>. PICK kind \in Sanctions, m \in Matches :
            RemoveManualSanction(t, m, p, kind) \/ AddManualSanction(t, m, p, kind)
    BY <1>7 DEF SanctionCommand
  <2>1. CASE RemoveManualSanction(t, m, p, kind)
    <3>0. {p} \in SUBSET Players
      OBVIOUS
    <3>1. CASE kind = "quit"
      <4>1. ClearMatchQuitters(t, m, {p})
        BY <2>1, <3>1 DEF RemoveManualSanction
      <4>. QED
        BY <3>0, <4>1, ClearQuittersOK
    <3>2. CASE kind = "grief"
      <4>1. ClearMatchGriefers(t, m, {p})
        BY <2>1, <3>2 DEF RemoveManualSanction
      <4>. QED
        BY <3>0, <4>1, ClearGriefersOK
    <3>3. CASE kind = "dc"
      <4>1. ClearMatchDcs(t, m, {p})
        BY <2>1, <3>3 DEF RemoveManualSanction
      <4>. QED
        BY <3>0, <4>1, ClearDcsOK
    <3>. QED
      BY <3>1, <3>2, <3>3 DEF Sanctions
  <2>2. CASE AddManualSanction(t, m, p, kind)
    BY <2>2, AddSanctionOK
  <2>. QED
    BY <2>1, <2>2
<1>8. ASSUME NEW t \in Tasks, NEW p \in Players, ApplyRankReset(t, p)
      PROVE  Inv'
  BY <1>8, ResetOK
<1>. QED
  BY <1>1, <1>2, <1>3, <1>4, <1>5, <1>6, <1>7, <1>8, OutsideOK DEF Next

(* The inductive invariant holds of every reachable state.                 *)
THEOREM Invariance == Spec => []Inv
<1>. QED
  BY InitOK, StepOK, PTL DEF Spec

(* Every variable keeps its type.                                          *)
THEOREM TypeCorrect == Spec => []TypeOK
<1>1. Inv => TypeOK
  BY DEF Inv
<1>. QED
  BY <1>1, Invariance, PTL

(* A player's columns are what the history since the last rank reset says, *)
(* for any number of overlapping transactions over any number of matches,  *)
(* unless the last count was made across another's change.                 *)
THEOREM CountersHold == Spec => []CountersExact
<1>1. Inv => CountersExact
  BY DEF Inv
<1>. QED
  BY <1>1, Invariance, PTL

(* No player of any match ever has a quit and a DC.                        *)
THEOREM QuitHidesDc == Spec => []NeverQuitAndDc
<1>1. Inv => NeverQuitAndDc
  BY DEF Inv
<1>. QED
  BY <1>1, Invariance, PTL

(* A correction, a void or a rank reset never counts a player across        *)
(* another's change, and a completion only one whose row it leaves alone.   *)
THEOREM LockedCounts == Spec => []LockedCountsStand
<1>1. Inv => LockedCountsStand
  <2>. SUFFICES ASSUME Inv, NEW t \in Tasks
                PROVE  /\ tx[t].op \in {"flip", "void", "reset"} => tx[t].missed = {}
                       /\ tx[t].op = "complete" => tx[t].missed \cap tx[t].holds = {}
    BY DEF LockedCountsStand
  <2>1. MissedOK(tx[t]) /\ AimOK(tx[t]) /\ tx[t].missed \subseteq Players
    BY InvTx, TxType DEF TxOK, Inv
  <2>2. tx[t].op \in {"flip", "void"} => tx[t].missed = {}
    BY <2>1 DEF MissedOK, AimOK, Rating
  <2>3. ASSUME tx[t].op = "reset"  PROVE tx[t].missed = {}
    <3>1. /\ tx[t].missed \cap {tx[t].reset} = {}
          /\ \A p \in tx[t].missed : tx[t].calc[p] # None
          /\ \A p \in Players : tx[t].calc[p] # None => p = tx[t].reset
      BY <2>1, <2>3 DEF MissedOK, AimOK, Rating
    <3>2. \A p \in tx[t].missed : p = tx[t].reset
      BY <2>1, <3>1
    <3>. QED
      BY <3>1, <3>2
  <2>4. tx[t].op = "complete" => tx[t].missed \cap tx[t].holds = {}
    BY <2>1 DEF MissedOK, Rating
  <2>. QED
    BY <2>2, <2>3, <2>4
<1>. QED
  BY <1>1, Invariance, PTL
=============================================================================

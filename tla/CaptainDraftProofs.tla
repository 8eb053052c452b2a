------------------------- MODULE CaptainDraftProofs -------------------------
(* Theorems about CaptainDraft, for any people, handlers and bounds.         *)
EXTENDS CaptainDraft, SequenceTheorems, FiniteSetTheorems, TLAPS

-----------------------------------------------------------------------------
(* States: what each change of one leaves it.                                *)

Others(s, z) == z.captains = s.captains /\ z.pickIndex = s.pickIndex /\ z.even = s.even

(* Teams whose rosters alone may have changed.                               *)
SameTeams(s, z) ==
    /\ Len(z.teams) = Len(s.teams)
    /\ \A t \in TeamsOf(s) : z.teams[t].captainKey = s.teams[t].captainKey

LEMMA TeamType ==
    ASSUME NEW s \in States, NEW t \in TeamsOf(s)
    PROVE  s.teams[t] \in Teams /\ s.teams[t].roster \in Seq(People)
<1>1. s.teams[t] \in Teams
  BY ElementOfSeq DEF States, TeamsOf
<1>. QED
  BY <1>1 DEF Teams

(* A roster put in the place of another.                                     *)
With(s, t, roster) == [s EXCEPT !.teams[t].roster = roster]
LEMMA WithIs ==
    ASSUME NEW s \in States, NEW t \in TeamsOf(s), NEW r \in Seq(People)
    PROVE  LET z == With(s, t, r) IN
           /\ z \in States /\ SameTeams(s, z) /\ Others(s, z)
           /\ z.memberPool = s.memberPool /\ z.teams[t].roster = r
           /\ \A u \in TeamsOf(s) \ {t} : z.teams[u] = s.teams[u]
<1>. DEFINE team == [s.teams[t] EXCEPT !.roster = r]
            teams == [s.teams EXCEPT ![t] = team]
            z == [s EXCEPT !.teams = teams]
<1>1. z = With(s, t, r)
  BY DEF With
<1>2. team \in Teams /\ team.roster = r /\ team.captainKey = s.teams[t].captainKey
  BY TeamType DEF Teams
<1>. HIDE DEF team
<1>3. s.teams \in Seq(Teams) /\ t \in 1 .. Len(s.teams)
  BY DEF States, TeamsOf
<1>4. /\ teams \in Seq(Teams) /\ Len(teams) = Len(s.teams)
      /\ \A u \in 1 .. Len(s.teams) : teams[u] = IF u = t THEN team ELSE s.teams[u]
  BY <1>2, <1>3, ExceptSeq
<1>. HIDE DEF teams
<1>5. z \in States /\ z.teams = teams /\ z.memberPool = s.memberPool /\ Others(s, z)
  BY <1>4 DEF States, Others
<1>6. SameTeams(s, z)
  BY <1>2, <1>4, <1>5 DEF SameTeams, TeamsOf
<1>. QED
  BY <1>1, <1>2, <1>3, <1>4, <1>5, <1>6 DEF TeamsOf

LEMMA JoinedIs ==
    ASSUME NEW s \in States, NEW t \in TeamsOf(s), NEW p \in People
    PROVE  /\ Joined(s, p, t) = With(s, t, Append(s.teams[t].roster, p))
           /\ Append(s.teams[t].roster, p) \in Seq(People)
           /\ Len(Append(s.teams[t].roster, p)) = Len(s.teams[t].roster) + 1
           /\ \A k \in 1 .. Len(s.teams[t].roster) :
                 Append(s.teams[t].roster, p)[k] = s.teams[t].roster[k]
           /\ Append(s.teams[t].roster, p)[Len(s.teams[t].roster) + 1] = p
<1>1. s.teams[t].roster \in Seq(People)
  BY TeamType
<1>2. Joined(s, p, t) = With(s, t, Append(s.teams[t].roster, p))
  BY DEF Joined, With, States
<1>. QED
  BY <1>1, <1>2, AppendProperties

LEMMA WithoutIs ==
    ASSUME NEW r \in Seq(People), NEW i \in 1 .. Len(r), NEW p, r[i] = p,
           \A k \in 1 .. Len(r) : r[k] = p => k = i
    PROVE  /\ Without(r, p) \in Seq(People) /\ Len(Without(r, p)) = Len(r) - 1
           /\ \A k \in 1 .. Len(r) - 1 : Without(r, p)[k] = IF k < i THEN r[k] ELSE r[k + 1]
<1>. DEFINE at == CHOOSE k \in 1 .. Len(r) : r[k] = p
            w == [k \in 1 .. Len(r) - 1 |-> IF k < at THEN r[k] ELSE r[k + 1]]
<1>1. at = i
  OBVIOUS
<1>. HIDE DEF at
<1>2. Len(r) - 1 \in Nat /\ \A k \in 1 .. Len(r) - 1 : w[k] \in People
  BY <1>1, ElementOfSeq, LenProperties
<1>3. w \in [1 .. Len(r) - 1 -> People]
  BY <1>2
<1>4. w \in Seq(People) /\ Len(w) = Len(r) - 1
  BY <1>2, <1>3
<1>5. w = Without(r, p)
  BY DEF Without, at
<1>. QED
  BY <1>1, <1>4, <1>5

-----------------------------------------------------------------------------
(* Nobody in two places: Once, without its abbreviations, and how a change   *)
(* of the rosters and of the pool keeps it.                                  *)

Apart(s) ==
    /\ \A t \in TeamsOf(s) :
          s.teams[t].roster # << >> /\ s.teams[t].roster[1] = s.teams[t].captainKey
    /\ \A t \in TeamsOf(s) : \A k \in 1 .. Len(s.teams[t].roster) :
          /\ s.teams[t].roster[k] \notin s.memberPool
          /\ s.teams[t].roster[k] \in s.captains => k = 1
    /\ \A t, u \in TeamsOf(s) :
          \A k \in 1 .. Len(s.teams[t].roster), l \in 1 .. Len(s.teams[u].roster) :
              s.teams[u].roster[l] = s.teams[t].roster[k] => u = t /\ l = k
    /\ s.captains \cap s.memberPool = {}

LEMMA OnceApart ==
    ASSUME NEW s, Once(s)
    PROVE  Apart(s)
BY DEF Once, Apart

LEMMA OnceKept ==
    ASSUME NEW s, NEW z, Once(s), SameTeams(s, z), z.captains = s.captains, Apart(z)
    PROVE  Once(z)
<1>1. TeamsOf(z) = TeamsOf(s)
  BY DEF SameTeams, TeamsOf
<1>2. {z.teams[t].captainKey : t \in TeamsOf(z)} = {s.teams[t].captainKey : t \in TeamsOf(s)}
  BY <1>1 DEF SameTeams
<1>3. {s.teams[t].captainKey : t \in TeamsOf(s)} \in {{}, s.captains}
  BY DEF Once
<1>. QED
  BY <1>2, <1>3 DEF Once, Apart

LEMMA ApartKept ==
    ASSUME NEW s, NEW z, Once(s), z.teams = s.teams, z.captains = s.captains,
           s.captains \cap z.memberPool = {},
           \A t \in TeamsOf(s) : \A k \in 1 .. Len(s.teams[t].roster) :
               s.teams[t].roster[k] \notin z.memberPool
    PROVE  Once(z)
<1>1. Apart(s) /\ TeamsOf(z) = TeamsOf(s)
  BY OnceApart DEF TeamsOf
<1>2. /\ \A t \in TeamsOf(z) :
            z.teams[t].roster # << >> /\ z.teams[t].roster[1] = z.teams[t].captainKey
      /\ \A t \in TeamsOf(z) : \A k \in 1 .. Len(z.teams[t].roster) :
            z.teams[t].roster[k] \in z.captains => k = 1
  BY <1>1 DEF Apart
<1>3. \A t, u \in TeamsOf(z) :
         \A k \in 1 .. Len(z.teams[t].roster), l \in 1 .. Len(z.teams[u].roster) :
             z.teams[u].roster[l] = z.teams[t].roster[k] => u = t /\ l = k
  BY <1>1 DEF Apart
<1>4. Apart(z)
  BY <1>1, <1>2, <1>3 DEF Apart
<1>. QED
  BY <1>4, OnceKept DEF SameTeams

(* A captain's team bears his name, so who is no captain key is no captain   *)
(* once he is on a team.                                                     *)
LEMMA OnTeamOnce ==
    ASSUME NEW s, Once(s), NEW p, NEW t \in TeamsOf(s), OnTeam(s, p, t), ~isCaptainKey(s, p)
    PROVE  /\ p \notin s.captains /\ p \notin s.memberPool
           /\ \E i \in 2 .. Len(s.teams[t].roster) : s.teams[t].roster[i] = p
<1>1. PICK i \in 1 .. Len(s.teams[t].roster) : s.teams[t].roster[i] = p
  BY DEF OnTeam, Members
<1>2. i # 1
  BY <1>1 DEF Once, isCaptainKey
<1>3. p \notin s.captains /\ p \notin s.memberPool
  BY <1>1, <1>2, OnceApart DEF Apart
<1>. QED
  BY <1>1, <1>2, <1>3

LEMMA AddToPoolOnce ==
    ASSUME NEW s \in States, Once(s), NEW p \in People, ~InDraft(s, p)
    PROVE  LET z == addToPool(s, p) IN
           z \in States /\ Once(z) /\ Others(s, z) /\ z.teams = s.teams /\ p \in z.memberPool
<1>. DEFINE z == addToPool(s, p)
<1>1. /\ z \in States /\ Others(s, z) /\ z.teams = s.teams
      /\ z.memberPool = s.memberPool \cup {p}
  BY DEF addToPool, States, Others
<1>2. p \notin s.captains
  BY DEF InDraft
<1>3. \A t \in TeamsOf(s) : \A k \in 1 .. Len(s.teams[t].roster) : s.teams[t].roster[k] # p
  BY DEF InDraft, OnTeam, Members
<1>. HIDE DEF z
<1>4. Once(z)
  BY <1>1, <1>2, <1>3, OnceApart, ApartKept DEF Apart, Others
<1>. QED
  BY <1>1, <1>4 DEF z

LEMMA RemoveFromPoolOnce ==
    ASSUME NEW s \in States, Once(s), NEW p \in People, NEW z \in removeFromPool(s, p)
    PROVE  z \in States /\ Once(z) /\ Others(s, z) /\ z.teams = s.teams
<1>1. /\ z \in States /\ Others(s, z) /\ z.teams = s.teams
      /\ z.memberPool = s.memberPool \ {p}
  BY DEF removeFromPool, When, States, Others
<1>. QED
  BY <1>1, OnceApart, ApartKept DEF Apart, Others

(* Somebody of the pool joins a team.                                        *)
Seated(s, p, t) == [Joined(s, p, t) EXCEPT !.memberPool = @ \ {p}]
LEMMA SeatedOnce ==
    ASSUME NEW s \in States, Once(s), NEW t \in TeamsOf(s), NEW p \in s.memberPool
    PROVE  LET z == Seated(s, p, t) IN
           /\ z \in States /\ Once(z) /\ Others(s, z) /\ SameTeams(s, z)
           /\ \A u \in TeamsOf(s) : Len(z.teams[u].roster) =
                 Len(s.teams[u].roster) + (IF u = t THEN 1 ELSE 0)
<1>. DEFINE r == s.teams[t].roster
            a == Append(r, p)
            x == With(s, t, a)
            z == [x EXCEPT !.memberPool = @ \ {p}]
<1>0. p \in People /\ r \in Seq(People)
  BY TeamType DEF States
<1>1. /\ Joined(s, p, t) = x /\ a \in Seq(People) /\ Len(a) = Len(r) + 1
      /\ \A k \in 1 .. Len(r) : a[k] = r[k]
      /\ a[Len(r) + 1] = p
  BY <1>0, JoinedIs
<1>2. z = Seated(s, p, t)
  BY <1>1 DEF Seated
<1>. HIDE DEF a
<1>3. /\ x \in States /\ SameTeams(s, x) /\ Others(s, x)
      /\ x.memberPool = s.memberPool /\ x.teams[t].roster = a
      /\ \A u \in TeamsOf(s) \ {t} : x.teams[u] = s.teams[u]
  BY <1>1, WithIs
<1>. HIDE DEF x
<1>4. /\ z \in States /\ Others(s, z) /\ SameTeams(s, z) /\ z.teams = x.teams
      /\ z.memberPool = s.memberPool \ {p}
  BY <1>3 DEF States, Others, SameTeams
<1>. HIDE DEF z
<1>5. Len(r) \in Nat /\ \A u \in TeamsOf(s) : Len(s.teams[u].roster) \in Nat
  BY TeamType, LenProperties
<1>6. \A u \in TeamsOf(s) : Len(z.teams[u].roster) =
                 Len(s.teams[u].roster) + (IF u = t THEN 1 ELSE 0)
  <2>. SUFFICES ASSUME NEW u \in TeamsOf(s)
                PROVE  Len(z.teams[u].roster) =
                         Len(s.teams[u].roster) + (IF u = t THEN 1 ELSE 0)
    OBVIOUS
  <2>1. CASE u = t
    BY <1>1, <1>3, <1>4, <2>1
  <2>2. CASE u # t
    BY <1>3, <1>4, <1>5, <2>2
  <2>. QED
    BY <2>1, <2>2
<1>7. \A u \in TeamsOf(s) : \A k \in 1 .. Len(z.teams[u].roster) :
         \/ k \in 1 .. Len(s.teams[u].roster) /\ z.teams[u].roster[k] = s.teams[u].roster[k]
         \/ u = t /\ k = Len(r) + 1 /\ z.teams[u].roster[k] = p
  <2>. SUFFICES ASSUME NEW u \in TeamsOf(s), NEW k \in 1 .. Len(z.teams[u].roster)
                PROVE  \/ /\ k \in 1 .. Len(s.teams[u].roster)
                          /\ z.teams[u].roster[k] = s.teams[u].roster[k]
                       \/ u = t /\ k = Len(r) + 1 /\ z.teams[u].roster[k] = p
    OBVIOUS
  <2>1. CASE u = t
    <3>1. z.teams[u].roster = a /\ s.teams[u].roster = r
      BY <1>3, <1>4, <2>1
    <3>2. k \in 1 .. Len(r) + 1
      BY <1>1, <3>1
    <3>3. k \in 1 .. Len(r) \/ k = Len(r) + 1
      BY <1>5, <3>2
    <3>. HIDE DEF r
    <3>. QED
      BY <1>1, <2>1, <3>1, <3>3
  <2>2. CASE u # t
    BY <1>3, <1>4, <2>2
  <2>. QED
    BY <2>1, <2>2
<1>8. \A u \in TeamsOf(s) : \A k \in 1 .. Len(s.teams[u].roster) :
         s.teams[u].roster[k] # p /\ z.teams[u].roster[k] = s.teams[u].roster[k]
  <2>. SUFFICES ASSUME NEW u \in TeamsOf(s), NEW k \in 1 .. Len(s.teams[u].roster)
                PROVE  s.teams[u].roster[k] # p /\ z.teams[u].roster[k] = s.teams[u].roster[k]
    OBVIOUS
  <2>1. s.teams[u].roster[k] # p
    BY OnceApart DEF Apart
  <2>2. CASE u = t
    BY <1>1, <1>3, <1>4, <2>1, <2>2
  <2>3. CASE u # t
    BY <1>3, <1>4, <2>1, <2>3
  <2>. QED
    BY <2>2, <2>3
<1>9. Apart(z)
  <2>1. \A u \in TeamsOf(z) :
           z.teams[u].roster # << >> /\ z.teams[u].roster[1] = z.teams[u].captainKey
    <3>. SUFFICES ASSUME NEW u \in TeamsOf(z)
                  PROVE  z.teams[u].roster # << >> /\ z.teams[u].roster[1] = z.teams[u].captainKey
      OBVIOUS
    <3>1. u \in TeamsOf(s) /\ s.teams[u].roster # << >> /\ s.teams[u].roster[1] = s.teams[u].captainKey
      BY <1>4, OnceApart DEF SameTeams, TeamsOf, Apart
    <3>2. Len(s.teams[u].roster) >= 1
      BY <3>1, TeamType, EmptySeq
    <3>3. 1 \in 1 .. Len(s.teams[u].roster) /\ z.teams[u].roster \in Seq(People)
      BY <1>4, <3>1, <3>2, TeamType, LenProperties DEF SameTeams, TeamsOf
    <3>4. z.teams[u].roster[1] = s.teams[u].roster[1]
      BY <1>8, <3>1, <3>3
    <3>5. Len(z.teams[u].roster) = Len(s.teams[u].roster) + (IF u = t THEN 1 ELSE 0)
      BY <1>6, <3>1
    <3>6. Len(z.teams[u].roster) >= 1
      <4>1. PICK n \in Nat : n = Len(s.teams[u].roster)
        BY <1>5, <3>1
      <4>2. Len(z.teams[u].roster) = n \/ Len(z.teams[u].roster) = n + 1
        <5>1. CASE u = t
          BY <3>5, <4>1, <5>1
        <5>2. CASE u # t
          BY <3>5, <4>1, <5>2
        <5>. QED
          BY <5>1, <5>2
      <4>. QED
        BY <3>2, <4>1, <4>2
    <3>7. z.teams[u].roster # << >>
      BY <3>6, EmptySeq
    <3>. QED
      BY <1>4, <3>1, <3>4, <3>7 DEF SameTeams
  <2>2. TeamsOf(z) = TeamsOf(s)
    BY <1>4 DEF SameTeams, TeamsOf
  <2>3. p \notin s.captains /\ p \notin z.memberPool
    BY <1>4, OnceApart DEF Apart
  <2>4. \A u \in TeamsOf(z) : \A k \in 1 .. Len(z.teams[u].roster) :
           /\ z.teams[u].roster[k] \notin z.memberPool
           /\ z.teams[u].roster[k] \in z.captains => k = 1
    BY <1>4, <1>7, <2>2, <2>3, OnceApart DEF Apart, Others
  <2>5. \A u, v \in TeamsOf(z) :
          \A k \in 1 .. Len(z.teams[u].roster), l \in 1 .. Len(z.teams[v].roster) :
              z.teams[v].roster[l] = z.teams[u].roster[k] => v = u /\ l = k
    <3>. SUFFICES ASSUME NEW u \in TeamsOf(s), NEW v \in TeamsOf(s),
                         NEW k \in 1 .. Len(z.teams[u].roster),
                         NEW l \in 1 .. Len(z.teams[v].roster),
                         z.teams[v].roster[l] = z.teams[u].roster[k]
                  PROVE  v = u /\ l = k
      BY <2>2
    <3>1. CASE /\ k \in 1 .. Len(s.teams[u].roster) /\ z.teams[u].roster[k] = s.teams[u].roster[k]
               /\ l \in 1 .. Len(s.teams[v].roster) /\ z.teams[v].roster[l] = s.teams[v].roster[l]
      BY <3>1, OnceApart DEF Apart
    <3>2. \/ k \in 1 .. Len(s.teams[u].roster) /\ z.teams[u].roster[k] = s.teams[u].roster[k]
          \/ u = t /\ k = Len(r) + 1 /\ z.teams[u].roster[k] = p
      BY <1>7
    <3>3. \/ l \in 1 .. Len(s.teams[v].roster) /\ z.teams[v].roster[l] = s.teams[v].roster[l]
          \/ v = t /\ l = Len(r) + 1 /\ z.teams[v].roster[l] = p
      BY <1>7
    <3>. HIDE DEF r
    <3>. QED
      BY <1>8, <3>1, <3>2, <3>3
  <2>. QED
    BY <1>4, <2>1, <2>4, <2>5, OnceApart DEF Apart, Others
<1>10. Once(z)
  BY <1>4, <1>9, OnceKept DEF Others
<1>. QED
  BY <1>2, <1>4, <1>6, <1>10

(* The i-th of a team's roster, not the captain, goes back to the pool.      *)
Unseated(s, t, w, p) == [With(s, t, w) EXCEPT !.memberPool = @ \cup {p}]
Drops(r, i, w) ==
    /\ w \in Seq(People) /\ Len(w) = Len(r) - 1
    /\ \A k \in 1 .. Len(r) - 1 : w[k] = IF k < i THEN r[k] ELSE r[k + 1]
Freed(s, t, p, z) ==
    /\ z \in States /\ Once(z) /\ Others(s, z) /\ SameTeams(s, z)
    /\ z.memberPool = s.memberPool \cup {p}
    /\ Len(z.teams[t].roster) = Len(s.teams[t].roster) - 1
    /\ \A u \in TeamsOf(s) : u # t => z.teams[u].roster = s.teams[u].roster
LEMMA UnseatedOnce ==
    ASSUME NEW s \in States, Once(s), NEW t \in TeamsOf(s),
           NEW i \in 2 .. Len(s.teams[t].roster), NEW p, s.teams[t].roster[i] = p,
           NEW w, Drops(s.teams[t].roster, i, w), NEW z, z = Unseated(s, t, w, p)
    PROVE  Freed(s, t, p, z)
<1>. DEFINE r == s.teams[t].roster
            x == With(s, t, w)
<1>0. /\ r \in Seq(People) /\ Len(r) \in Nat /\ i \in 1 .. Len(r) /\ p \in People
      /\ w \in Seq(People) /\ Len(w) = Len(r) - 1
      /\ \A k \in 1 .. Len(r) - 1 : w[k] = IF k < i THEN r[k] ELSE r[k + 1]
  <2>1. r \in Seq(People) /\ Len(r) \in Nat /\ i \in 1 .. Len(r) /\ p \in People
    BY TeamType, ElementOfSeq, LenProperties
  <2>2. /\ w \in Seq(People) /\ Len(w) = Len(r) - 1
        /\ \A k \in 1 .. Len(r) - 1 : w[k] = IF k < i THEN r[k] ELSE r[k + 1]
    BY DEF Drops
  <2>. QED
    BY <2>1, <2>2
<1>1. /\ x \in States /\ SameTeams(s, x) /\ Others(s, x)
      /\ x.memberPool = s.memberPool /\ x.teams[t].roster = w
      /\ \A u \in TeamsOf(s) \ {t} : x.teams[u] = s.teams[u]
  BY <1>0, WithIs
<1>. HIDE DEF x
<1>2. /\ z \in States /\ Others(s, z) /\ SameTeams(s, z) /\ z.teams = x.teams
      /\ z.memberPool = s.memberPool \cup {p}
  BY <1>0, <1>1 DEF Unseated, States, Others, SameTeams, x
<1>3. z.teams[t].roster = w /\ \A u \in TeamsOf(s) : u # t => z.teams[u].roster = s.teams[u].roster
  BY <1>1, <1>2
<1>4. TeamsOf(z) = TeamsOf(s) /\ \A u \in TeamsOf(s) : Len(s.teams[u].roster) \in Nat
  BY <1>2, TeamType, LenProperties DEF SameTeams, TeamsOf
<1>5. p \notin s.captains
  BY <1>0, OnceApart DEF Apart
<1>. DEFINE Was(u, k) == IF u = t /\ k >= i THEN k + 1 ELSE k
<1>6. ASSUME NEW u \in TeamsOf(s), NEW k \in 1 .. Len(z.teams[u].roster)
      PROVE  /\ Was(u, k) \in 1 .. Len(s.teams[u].roster)
             /\ z.teams[u].roster[k] = s.teams[u].roster[Was(u, k)]
             /\ Was(u, k) = 1 => k = 1
             /\ k \in Nat
             /\ u = t => Was(u, k) # i
  <2>1. CASE u = t
    <3>1. k \in 1 .. Len(r) - 1 /\ z.teams[u].roster[k] = w[k]
      BY <1>0, <1>3, <2>1
    <3>2. CASE k < i
      BY <1>0, <2>1, <3>1, <3>2
    <3>3. CASE ~(k < i)
      <4>1. Was(u, k) = k + 1 /\ k + 1 \in 1 .. Len(r) /\ k + 1 # i /\ k + 1 # 1
        BY SMTT(30), <1>0, <2>1, <3>1, <3>3
      <4>. QED
        BY <1>0, <2>1, <3>1, <3>3, <4>1
    <3>. QED
      BY <3>2, <3>3
  <2>2. CASE u # t
    BY <1>3, <1>4, <2>2
  <2>. QED
    BY <2>1, <2>2
<1>7. ASSUME NEW u, NEW k \in Nat, NEW l \in Nat, Was(u, k) = Was(u, l)
      PROVE  k = l
  BY <1>7
<1>. HIDE DEF Was
<1>8. \A u \in TeamsOf(z) :
         z.teams[u].roster # << >> /\ z.teams[u].roster[1] = z.teams[u].captainKey
  <2>. SUFFICES ASSUME NEW u \in TeamsOf(s)
                PROVE  z.teams[u].roster # << >> /\ z.teams[u].roster[1] = z.teams[u].captainKey
    BY <1>4
  <2>1. s.teams[u].roster # << >> /\ s.teams[u].roster[1] = z.teams[u].captainKey
    BY <1>2, OnceApart DEF Apart, SameTeams
  <2>2. CASE u = t
    <3>1. w[1] = r[1] /\ Len(w) >= 1
      BY <1>0
    <3>2. w # << >>
      BY <3>1, EmptySeq
    <3>. QED
      BY <1>3, <2>1, <2>2, <3>1, <3>2
  <2>3. CASE u # t
    BY <1>3, <2>1, <2>3
  <2>. QED
    BY <2>2, <2>3
<1>9. \A u \in TeamsOf(z) : \A k \in 1 .. Len(z.teams[u].roster) :
         /\ z.teams[u].roster[k] \notin z.memberPool
         /\ z.teams[u].roster[k] \in z.captains => k = 1
  <2>. SUFFICES ASSUME NEW u \in TeamsOf(s), NEW k \in 1 .. Len(z.teams[u].roster)
                PROVE  /\ z.teams[u].roster[k] \notin z.memberPool
                       /\ z.teams[u].roster[k] \in z.captains => k = 1
    BY <1>4
  <2>1. PICK n \in 1 .. Len(s.teams[u].roster) :
           /\ n = Was(u, k) /\ z.teams[u].roster[k] = s.teams[u].roster[n]
           /\ n = 1 => k = 1
           /\ u = t => n # i
    BY <1>6
  <2>2. s.teams[u].roster[n] # p
    <3>1. \A l \in 1 .. Len(r) : s.teams[u].roster[n] = r[l] => u = t /\ n = l
      BY OnceApart DEF Apart
    <3>. QED
      BY <1>0, <2>1, <3>1
  <2>3. s.teams[u].roster[n] \notin s.memberPool /\ (s.teams[u].roster[n] \in s.captains => n = 1)
    BY OnceApart DEF Apart
  <2>. QED
    BY <1>2, <2>1, <2>2, <2>3 DEF Others
<1>10. \A u, v \in TeamsOf(z) :
         \A k \in 1 .. Len(z.teams[u].roster), l \in 1 .. Len(z.teams[v].roster) :
             z.teams[v].roster[l] = z.teams[u].roster[k] => v = u /\ l = k
  <2>. SUFFICES ASSUME NEW u \in TeamsOf(s), NEW v \in TeamsOf(s),
                       NEW k \in 1 .. Len(z.teams[u].roster),
                       NEW l \in 1 .. Len(z.teams[v].roster),
                       z.teams[v].roster[l] = z.teams[u].roster[k]
                PROVE  v = u /\ l = k
    BY <1>4
  <2>0. PICK n \in 1 .. Len(s.teams[u].roster), m \in 1 .. Len(s.teams[v].roster) :
           /\ n = Was(u, k) /\ z.teams[u].roster[k] = s.teams[u].roster[n]
           /\ m = Was(v, l) /\ z.teams[v].roster[l] = s.teams[v].roster[m]
    BY <1>6
  <2>1. s.teams[v].roster[m] = s.teams[u].roster[n]
    BY <2>0
  <2>2. v = u /\ m = n
    BY <2>1, OnceApart DEF Apart
  <2>. QED
    BY ZenonT(40), <1>6, <1>7, <2>0, <2>2
<1>11. Once(z)
  <2>1. s.captains \cap z.memberPool = {}
    BY <1>2, <1>5, OnceApart DEF Apart
  <2>2. Apart(z)
    BY <1>2, <1>8, <1>9, <1>10, <2>1 DEF Apart, Others
  <2>. QED
    BY <1>2, <2>2, OnceKept DEF Others
<1>. QED
  BY <1>0, <1>2, <1>3, <1>11 DEF Freed

LEMMA RemoveFromTeamOnce ==
    ASSUME NEW s \in States, Once(s), NEW p, NEW z \in removeFromTeam(s, p)
    PROVE  /\ z \in States /\ Once(z) /\ SameTeams(s, z) /\ ~z.even
           /\ z.captains = s.captains /\ p \in z.memberPool
<1>1. PICK t \in TeamsOf(s) :
         /\ OnTeam(s, p, t) /\ ~isCaptainKey(s, p)
         /\ z = [s EXCEPT !.teams[t].roster = Without(@, p), !.memberPool = @ \cup {p},
                          !.even = FALSE]
  BY DEF removeFromTeam
<1>. DEFINE r == s.teams[t].roster
            w == Without(r, p)
            y == Unseated(s, t, w, p)
<1>2. PICK i \in 2 .. Len(r) : r[i] = p
  BY <1>1, OnTeamOnce
<1>3. r \in Seq(People) /\ Len(r) \in Nat /\ i \in 1 .. Len(r)
  BY TeamType, LenProperties
<1>4. \A k \in 1 .. Len(r) : r[k] = p => k = i
  BY <1>2, <1>3, OnceApart DEF Apart
<1>5. Drops(s.teams[t].roster, i, w)
  BY <1>2, <1>3, <1>4, WithoutIs DEF Drops
<1>6. z = [y EXCEPT !.even = FALSE]
  BY <1>1 DEF Unseated, With, States
<1>. HIDE DEF w
<1>0. y = Unseated(s, t, w, p)
  OBVIOUS
<1>. HIDE DEF y
<1>7. /\ y \in States /\ Once(y) /\ Others(s, y) /\ SameTeams(s, y)
      /\ y.memberPool = s.memberPool \cup {p}
  BY <1>2, <1>5, <1>0, UnseatedOnce DEF Freed
<1>8. /\ z \in States /\ z.teams = y.teams /\ z.captains = y.captains
      /\ z.memberPool = y.memberPool /\ z.even = FALSE
  BY <1>6, <1>7 DEF States
<1>9. Once(z)
  BY <1>7, <1>8, OnceApart, ApartKept DEF Apart
<1>. QED
  BY <1>7, <1>8, <1>9 DEF SameTeams, Others

(* The last of a team's roster goes back to the pool.                        *)
LEMMA LastUnseated ==
    ASSUME NEW s \in States, Once(s), NEW t \in TeamsOf(s),
           Len(s.teams[t].roster) > 1, NEW p, p = s.teams[t].roster[Len(s.teams[t].roster)],
           NEW w, w = SubSeq(s.teams[t].roster, 1, Len(s.teams[t].roster) - 1),
           NEW z, z = Unseated(s, t, w, p)
    PROVE  Freed(s, t, p, z)
<1>. DEFINE r == s.teams[t].roster
<1>1. r \in Seq(People) /\ Len(r) \in Nat
  BY TeamType, LenProperties
<1>2. /\ w \in Seq(People) /\ Len(w) = Len(r) - 1
      /\ \A k \in 1 .. Len(r) - 1 : w[k] = r[k]
  <2>1. \A k \in 1 .. Len(r) - 1 : r[k] \in People
    BY <1>1, ElementOfSeq
  <2>. QED
    BY <1>1, <2>1, SubSeqProperties
<1>3. PICK i \in 2 .. Len(r) : i = Len(r)
  BY <1>1
<1>4. Drops(s.teams[t].roster, i, w) /\ s.teams[t].roster[i] = p
  BY <1>1, <1>2, <1>3 DEF Drops
<1>. QED
  BY <1>4, UnseatedOnce

LEMMA UndoOnce ==
    ASSUME NEW s \in States, Once(s), NEW z \in undoLastPick(s),
           NEW t \in TeamsOf(s), t = teamIndexForPick(s, s.pickIndex - 1)
    PROVE  /\ z \in States /\ Once(z) /\ SameTeams(s, z) /\ z.even = s.even
           /\ s.pickIndex > 0 /\ z.pickIndex = s.pickIndex - 1 /\ z.memberPool # {}
           /\ Len(z.teams[t].roster) = Len(s.teams[t].roster) - 1
           /\ \A u \in TeamsOf(s) : u # t => z.teams[u].roster = s.teams[u].roster
<1>. DEFINE r == s.teams[t].roster
            w == SubSeq(r, 1, Len(r) - 1)
            p == r[Len(r)]
<1>1. /\ s.pickIndex > 0 /\ Len(r) > 1
      /\ z = [s EXCEPT !.teams[t].roster = w, !.memberPool = @ \cup {p}, !.pickIndex = @ - 1]
  BY DEF undoLastPick, When
<1>2. PICK y : y = Unseated(s, t, w, p)
  OBVIOUS
<1>3. z = [y EXCEPT !.pickIndex = @ - 1]
  BY <1>1, <1>2 DEF Unseated, With, States
<1>4. /\ y \in States /\ Once(y) /\ Others(s, y) /\ SameTeams(s, y)
      /\ y.memberPool = s.memberPool \cup {p}
      /\ Len(y.teams[t].roster) = Len(r) - 1
      /\ \A u \in TeamsOf(s) : u # t => y.teams[u].roster = s.teams[u].roster
  <2>1. Freed(s, t, p, y)
    BY <1>1, <1>2, LastUnseated
  <2>. QED
    BY <2>1 DEF Freed
<1>5. y.pickIndex = s.pickIndex /\ s.pickIndex - 1 \in Nat
  BY <1>1, <1>4 DEF States, Others
<1>6. /\ z \in States /\ z.teams = y.teams /\ z.captains = y.captains /\ z.even = y.even
      /\ z.memberPool = y.memberPool /\ z.pickIndex = s.pickIndex - 1
  BY <1>3, <1>4, <1>5 DEF States
<1>7. Once(z)
  BY <1>4, <1>6, OnceApart, ApartKept DEF Apart
<1>. QED
  BY <1>1, <1>4, <1>6, <1>7 DEF SameTeams, Others

(* Exchanging two people, neither of them a captain.                         *)
LEMMA ExchangedIs ==
    ASSUME NEW x, NEW y, NEW p, NEW q
    PROVE  /\ Exchanged(p, x, y) = Exchanged(q, x, y) => p = q
           /\ p # x /\ p # y => Exchanged(p, x, y) = p
           /\ p \in People /\ x \in People /\ y \in People => Exchanged(p, x, y) \in People
BY DEF Exchanged

Swapped(s, x, y, z) ==
    /\ z \in States /\ Others(s, z) /\ SameTeams(s, z)
    /\ z.memberPool = {Exchanged(p, x, y) : p \in s.memberPool}
    /\ \A t \in TeamsOf(s) :
          /\ z.teams[t].roster \in Seq(People)
          /\ Len(z.teams[t].roster) = Len(s.teams[t].roster)
          /\ \A k \in 1 .. Len(s.teams[t].roster) :
                z.teams[t].roster[k] = Exchanged(s.teams[t].roster[k], x, y)
LEMMA InPlacesIs ==
    ASSUME NEW s \in States, NEW x \in People, NEW y \in People, NEW z, z = InPlaces(s, x, y)
    PROVE  Swapped(s, x, y, z)
<1>. DEFINE Roster(t) == [k \in 1 .. Len(s.teams[t].roster) |-> Exchanged(s.teams[t].roster[k], x, y)]
            Team(t) == [s.teams[t] EXCEPT !.roster = Roster(t)]
            teams == [t \in TeamsOf(s) |-> Team(t)]
            pool == {Exchanged(p, x, y) : p \in s.memberPool}
<1>1. ASSUME NEW t \in TeamsOf(s)
      PROVE  /\ Roster(t) \in Seq(People) /\ Len(Roster(t)) = Len(s.teams[t].roster)
             /\ \A k \in 1 .. Len(s.teams[t].roster) :
                   Roster(t)[k] = Exchanged(s.teams[t].roster[k], x, y)
  <2>1. s.teams[t].roster \in Seq(People) /\ Len(s.teams[t].roster) \in Nat
    BY TeamType, LenProperties
  <2>2. \A k \in 1 .. Len(s.teams[t].roster) : Exchanged(s.teams[t].roster[k], x, y) \in People
    BY <2>1, ElementOfSeq, ExchangedIs
  <2>3. Roster(t) \in [1 .. Len(s.teams[t].roster) -> People]
    BY <2>2
  <2>. QED
    BY <2>1, <2>3
<1>. HIDE DEF Roster
<1>2. ASSUME NEW t \in TeamsOf(s)
      PROVE  /\ Team(t) \in Teams /\ Team(t).roster = Roster(t)
             /\ Team(t).captainKey = s.teams[t].captainKey
  BY <1>1, TeamType DEF Teams
<1>. HIDE DEF Team
<1>3. s.teams \in Seq(Teams) /\ Len(s.teams) \in Nat /\ TeamsOf(s) = 1 .. Len(s.teams)
  BY LenProperties DEF States, TeamsOf
<1>4. teams \in Seq(Teams) /\ Len(teams) = Len(s.teams)
  <2>1. teams \in [1 .. Len(s.teams) -> Teams]
    BY <1>2, <1>3
  <2>. QED
    BY <1>3, <2>1
<1>5. \A t \in TeamsOf(s) : teams[t] = Team(t)
  OBVIOUS
<1>6. z = [s EXCEPT !.memberPool = pool, !.teams = teams]
  BY DEF InPlaces, Team, Roster
<1>. HIDE DEF teams
<1>7. pool \subseteq People
  BY ExchangedIs DEF States
<1>. HIDE DEF pool
<1>8. z \in States /\ Others(s, z) /\ z.teams = teams /\ z.memberPool = pool
  BY <1>4, <1>6, <1>7 DEF States, Others
<1>9. SameTeams(s, z)
  BY <1>2, <1>4, <1>5, <1>8 DEF SameTeams
<1>. QED
  BY <1>1, <1>2, <1>5, <1>8, <1>9 DEF pool, Swapped

LEMMA InPlacesOnce ==
    ASSUME NEW s \in States, Once(s), NEW x \in People, NEW y \in People,
           x \notin s.captains, y \notin s.captains, ~isCaptainKey(s, x), ~isCaptainKey(s, y),
           NEW z, z = InPlaces(s, x, y)
    PROVE  /\ Once(z)
           /\ s.memberPool # {} => z.memberPool # {}
<1>1. /\ z \in States /\ Others(s, z) /\ SameTeams(s, z)
      /\ z.memberPool = {Exchanged(p, x, y) : p \in s.memberPool}
      /\ \A t \in TeamsOf(s) :
            /\ z.teams[t].roster \in Seq(People)
            /\ Len(z.teams[t].roster) = Len(s.teams[t].roster)
            /\ \A k \in 1 .. Len(s.teams[t].roster) :
                  z.teams[t].roster[k] = Exchanged(s.teams[t].roster[k], x, y)
  <2>1. Swapped(s, x, y, z)
    BY InPlacesIs
  <2>. QED
    BY <2>1 DEF Swapped
<1>2. TeamsOf(z) = TeamsOf(s)
  BY <1>1 DEF TeamsOf, SameTeams
<1>3. \A t \in TeamsOf(z) :
         z.teams[t].roster # << >> /\ z.teams[t].roster[1] = z.teams[t].captainKey
  <2>. SUFFICES ASSUME NEW t \in TeamsOf(s)
                PROVE  z.teams[t].roster # << >> /\ z.teams[t].roster[1] = z.teams[t].captainKey
    BY <1>2
  <2>1. s.teams[t].roster # << >> /\ s.teams[t].roster[1] = s.teams[t].captainKey
    BY OnceApart DEF Apart
  <2>2. Len(s.teams[t].roster) >= 1 /\ 1 \in 1 .. Len(s.teams[t].roster)
    BY <2>1, TeamType, EmptySeq
  <2>3. z.teams[t].roster # << >>
    BY <1>1, <2>2, EmptySeq
  <2>4. z.teams[t].roster[1] = Exchanged(s.teams[t].captainKey, x, y)
    BY <1>1, <2>1, <2>2
  <2>5. s.teams[t].captainKey # x /\ s.teams[t].captainKey # y
    BY DEF isCaptainKey
  <2>. QED
    BY <1>1, <2>3, <2>4, <2>5, ExchangedIs DEF SameTeams
<1>4. \A t \in TeamsOf(z) : \A k \in 1 .. Len(z.teams[t].roster) :
         /\ z.teams[t].roster[k] \notin z.memberPool
         /\ z.teams[t].roster[k] \in z.captains => k = 1
  <2>. SUFFICES ASSUME NEW t \in TeamsOf(s), NEW k \in 1 .. Len(s.teams[t].roster)
                PROVE  /\ z.teams[t].roster[k] \notin z.memberPool
                       /\ z.teams[t].roster[k] \in z.captains => k = 1
    BY <1>1, <1>2
  <2>1. PICK p : p = s.teams[t].roster[k] /\ z.teams[t].roster[k] = Exchanged(p, x, y)
    BY <1>1
  <2>2. p \notin s.memberPool /\ (p \in s.captains => k = 1)
    BY <2>1, OnceApart DEF Apart
  <2>3. Exchanged(p, x, y) \notin z.memberPool
    BY <1>1, <2>2, ExchangedIs
  <2>4. Exchanged(p, x, y) \in s.captains => p \in s.captains
    BY DEF Exchanged
  <2>. QED
    BY <1>1, <2>1, <2>2, <2>3, <2>4 DEF Others
<1>5. \A t, u \in TeamsOf(z) :
         \A k \in 1 .. Len(z.teams[t].roster), l \in 1 .. Len(z.teams[u].roster) :
             z.teams[u].roster[l] = z.teams[t].roster[k] => u = t /\ l = k
  <2>. SUFFICES ASSUME NEW t \in TeamsOf(s), NEW u \in TeamsOf(s),
                       NEW k \in 1 .. Len(s.teams[t].roster), NEW l \in 1 .. Len(s.teams[u].roster),
                       z.teams[u].roster[l] = z.teams[t].roster[k]
                PROVE  u = t /\ l = k
    BY <1>1, <1>2
  <2>1. s.teams[u].roster[l] = s.teams[t].roster[k]
    BY <1>1, ExchangedIs
  <2>. QED
    BY <2>1, OnceApart DEF Apart
<1>6. s.captains \cap z.memberPool = {}
  <2>1. \A p \in s.memberPool : Exchanged(p, x, y) \notin s.captains
    BY OnceApart DEF Apart, Exchanged
  <2>. QED
    BY <1>1, <2>1
<1>7. Apart(z)
  BY <1>1, <1>3, <1>4, <1>5, <1>6 DEF Apart, Others
<1>. QED
  BY <1>1, <1>7, OnceKept DEF Others

(* Who is in the draft and is no captain key is no captain.                  *)
LEMMA LocatedOnce ==
    ASSUME NEW s, Once(s), NEW p, Located(s, p), ~isCaptainKey(s, p)
    PROVE  p \notin s.captains
BY OnTeamOnce, OnceApart DEF Located, Apart

LEMMA StrangerOnce ==
    ASSUME NEW s \in States, Once(s), NEW p, ~InDraft(s, p)
    PROVE  p \notin s.captains /\ ~isCaptainKey(s, p)
<1>1. SUFFICES ASSUME NEW t \in TeamsOf(s), s.teams[t].captainKey = p
               PROVE  FALSE
  BY DEF InDraft, isCaptainKey
<1>2. s.teams[t].roster # << >> /\ s.teams[t].roster[1] = p
  BY <1>1, OnceApart DEF Apart
<1>3. 1 \in 1 .. Len(s.teams[t].roster)
  BY <1>2, TeamType, EmptySeq
<1>4. OnTeam(s, p, t)
  BY <1>2, <1>3 DEF OnTeam, Members
<1>. QED
  BY <1>4 DEF InDraft

LEMMA RenameOnce ==
    ASSUME NEW s \in States, Once(s), NEW t \in TeamsOf(s), NEW z, z = renameTeamInState(s, t)
    PROVE  /\ z \in States /\ Once(z) /\ Others(s, z) /\ SameTeams(s, z)
           /\ z.memberPool = s.memberPool
           /\ \A u \in TeamsOf(s) : z.teams[u].roster = s.teams[u].roster
<1>. DEFINE team == [s.teams[t] EXCEPT !.displayName = "own"]
            teams == [s.teams EXCEPT ![t] = team]
<1>1. z = [s EXCEPT !.teams = teams]
  BY DEF renameTeamInState
<1>2. team \in Teams /\ team.roster = s.teams[t].roster /\ team.captainKey = s.teams[t].captainKey
  BY TeamType DEF Teams, Names
<1>. HIDE DEF team
<1>3. s.teams \in Seq(Teams) /\ t \in 1 .. Len(s.teams)
  BY DEF States, TeamsOf
<1>4. /\ teams \in Seq(Teams) /\ Len(teams) = Len(s.teams)
      /\ \A u \in 1 .. Len(s.teams) : teams[u] = IF u = t THEN team ELSE s.teams[u]
  BY <1>2, <1>3, ExceptSeq
<1>. HIDE DEF teams
<1>5. z \in States /\ z.teams = teams /\ z.memberPool = s.memberPool /\ Others(s, z)
  BY <1>1, <1>4 DEF States, Others
<1>6. /\ SameTeams(s, z) /\ TeamsOf(z) = TeamsOf(s)
      /\ \A u \in TeamsOf(s) : z.teams[u].roster = s.teams[u].roster
  BY <1>2, <1>4, <1>5 DEF SameTeams, TeamsOf
<1>7. Apart(s)
  BY OnceApart
<1>8. Apart(z)
  <2>1. \A u \in TeamsOf(z) :
           z.teams[u].roster # << >> /\ z.teams[u].roster[1] = z.teams[u].captainKey
    BY <1>6, <1>7 DEF Apart, SameTeams
  <2>2. \A u \in TeamsOf(z) : \A k \in 1 .. Len(z.teams[u].roster) :
           /\ z.teams[u].roster[k] \notin z.memberPool
           /\ z.teams[u].roster[k] \in z.captains => k = 1
    BY <1>5, <1>6, <1>7 DEF Apart, Others
  <2>3. \A u, v \in TeamsOf(z) :
           \A k \in 1 .. Len(z.teams[u].roster), l \in 1 .. Len(z.teams[v].roster) :
               z.teams[v].roster[l] = z.teams[u].roster[k] => v = u /\ l = k
    <3>. SUFFICES ASSUME NEW u \in TeamsOf(z), NEW v \in TeamsOf(z),
                         NEW k \in 1 .. Len(z.teams[u].roster), NEW l \in 1 .. Len(z.teams[v].roster),
                         z.teams[v].roster[l] = z.teams[u].roster[k]
                  PROVE  v = u /\ l = k
      OBVIOUS
    <3>1. /\ u \in TeamsOf(s) /\ z.teams[u].roster = s.teams[u].roster
          /\ v \in TeamsOf(s) /\ z.teams[v].roster = s.teams[v].roster
      BY <1>6
    <3>. QED
      BY <1>7, <3>1 DEF Apart
  <2>4. z.captains \cap z.memberPool = {}
    BY <1>5, <1>7 DEF Apart, Others
  <2>. QED
    BY <2>1, <2>2, <2>3, <2>4 DEF Apart
<1>. QED
  BY <1>5, <1>6, <1>8, OnceKept DEF Others

-----------------------------------------------------------------------------
(* The snake: what one more pick changes.                                    *)

LEMMA Division ==
    ASSUME NEW k \in Nat, NEW n \in Nat \ {0}
    PROVE  k \div n \in Nat /\ k % n \in 0 .. n - 1 /\ k = n * (k \div n) + (k % n)
OBVIOUS

LEMMA Quotient ==
    ASSUME NEW n \in Nat \ {0}, NEW a \in Int, NEW b \in Int,
           NEW r \in 0 .. n - 1, NEW x \in 0 .. n - 1, n * a + r = n * b + x
    PROVE  a = b /\ r = x
<1>1. n * (a - b) = x - r
  OBVIOUS
<1>2. a - b \in Int /\ x - r < n /\ r - x < n
  OBVIOUS
<1>3. ASSUME NEW e \in Int, e >= 1
      PROVE  n * e >= n
  <2>1. n * e = n + n * (e - 1)
    BY <1>3
  <2>2. n * (e - 1) >= 0
    BY <1>3
  <2>. QED
    BY <1>3, <2>1, <2>2
<1>4. ~(a - b >= 1)
  BY <1>1, <1>2, <1>3
<1>5. ~(b - a >= 1)
  <2>1. n * (b - a) = r - x
    BY <1>1
  <2>. QED
    BY <1>2, <1>3, <2>1
<1>. QED
  BY <1>1, <1>4, <1>5

LEMMA NextDivision ==
    ASSUME NEW k \in Nat, NEW n \in Nat \ {0}
    PROVE  /\ (k % n) + 1 < n => (k + 1) \div n = k \div n /\ (k + 1) % n = (k % n) + 1
           /\ (k % n) + 1 = n => (k + 1) \div n = k \div n + 1 /\ (k + 1) % n = 0
           /\ (k % n) + 1 < n \/ (k % n) + 1 = n
<1>. DEFINE q == k \div n
            r == k % n
            v == (k + 1) \div n
            x == (k + 1) % n
<1>1. q \in Nat /\ r \in 0 .. n - 1 /\ k = n * q + r
  BY Division
<1>2. v \in Nat /\ x \in 0 .. n - 1 /\ k + 1 = n * v + x
  <2>1. PICK m \in Nat : m = k + 1
    OBVIOUS
  <2>2. m \div n \in Nat /\ m % n \in 0 .. n - 1 /\ m = n * (m \div n) + (m % n)
    BY Division
  <2>. QED
    BY <2>1, <2>2
<1>. HIDE DEF q, r, v, x
<1>3. n * q \in Int /\ n * v \in Int
  BY <1>1, <1>2
<1>4. ASSUME r + 1 < n
      PROVE  v = q /\ x = r + 1
  <2>1. r + 1 \in 0 .. n - 1 /\ n * v + x = n * q + (r + 1)
    BY <1>1, <1>2, <1>3, <1>4
  <2>. QED
    BY <1>1, <1>2, <2>1, Quotient
<1>5. ASSUME r + 1 = n
      PROVE  v = q + 1 /\ x = 0
  <2>1. n * (q + 1) = n * q + n
    BY <1>1
  <2>2. 0 \in 0 .. n - 1 /\ n * v + x = n * (q + 1) + 0 /\ q + 1 \in Int
    BY <1>1, <1>2, <1>3, <1>5, <2>1
  <2>. QED
    BY <1>1, <1>2, <2>2, Quotient
<1>6. r + 1 < n \/ r + 1 = n
  BY <1>1
<1>. QED
  BY <1>4, <1>5, <1>6 DEF q, r, v, x

LEMMA Parity ==
    ASSUME NEW q \in Nat
    PROVE  q % 2 = 0 <=> (q + 1) % 2 # 0
OBVIOUS

(* The team in turn is one of the teams, and one more pick is one more turn  *)
(* of that team's and of no other's.                                         *)
LEMMA InTurn ==
    ASSUME NEW k \in Nat, NEW n \in Nat \ {0}
    PROVE  captainIndexForPick(k, n) + 1 \in 1 .. n
BY Division DEF captainIndexForPick

LEMMA NextTurn ==
    ASSUME NEW k \in Nat, NEW n \in Nat \ {0}, NEW t \in 1 .. n
    PROVE  /\ Turns(k, n, t) \in Nat
           /\ Turns(k + 1, n, t) =
                 Turns(k, n, t) + (IF t = captainIndexForPick(k, n) + 1 THEN 1 ELSE 0)
<1>. DEFINE q == k \div n
            r == k % n
            v == (k + 1) \div n
            x == (k + 1) % n
            T(a, b) == a + (IF (IF a % 2 = 0 THEN t <= b ELSE t > n - b) THEN 1 ELSE 0)
            C == IF q % 2 = 0 THEN r ELSE n - 1 - r
<1>1. /\ Turns(k, n, t) = T(q, r) /\ Turns(k + 1, n, t) = T(v, x)
      /\ captainIndexForPick(k, n) = C
  BY DEF Turns, captainIndexForPick
<1>2. q \in Nat /\ r \in 0 .. n - 1
  BY Division
<1>3. \/ r + 1 < n /\ v = q /\ x = r + 1
      \/ r + 1 = n /\ v = q + 1 /\ x = 0
  BY NextDivision
<1>. HIDE DEF q, r, v, x
<1>4. T(v, x) = T(q, r) + (IF t = C + 1 THEN 1 ELSE 0) /\ T(q, r) \in Nat
  <2>1. CASE r + 1 < n /\ v = q /\ x = r + 1
    BY <1>2, <2>1
  <2>2. CASE r + 1 = n /\ v = q + 1 /\ x = 0
    BY <1>2, <2>2, Parity
  <2>. QED
    BY <1>3, <2>1, <2>2
<1>. QED
  BY <1>1, <1>4

LEMMA NoTurns ==
    ASSUME NEW n \in Nat \ {0}, NEW t \in 1 .. n
    PROVE  Turns(0, n, t) = 0
<1>1. 0 \div n = 0 /\ 0 % n = 0
  <2>1. 0 \div n \in Nat /\ 0 % n \in 0 .. n - 1 /\ 0 = n * (0 \div n) + (0 % n)
    BY Division
  <2>2. n * 0 + 0 = n * (0 \div n) + (0 % n) /\ 0 \in 0 .. n - 1
    BY <2>1
  <2>. QED
    BY <2>1, <2>2, Quotient
<1>. QED
  BY <1>1 DEF Turns

-----------------------------------------------------------------------------
(* States that can be saved with a status.                                   *)

Even(s) ==
    s.even => \A t \in TeamsOf(s) :
                  Len(s.teams[t].roster) = 1 + Turns(s.pickIndex, Len(s.teams), t)
Sound(status, s) ==
    /\ Once(s) /\ Even(s)
    /\ status = "SETUP" => s.teams = << >>
    /\ status = "ACTIVE" => s.memberPool # {} /\ s.teams # << >>

(* What a change of a state keeps.                                           *)
Sane(s, z) == z \in States /\ Once(z) /\ Even(z) /\ Len(z.teams) = Len(s.teams)

LEMMA EvenKept ==
    ASSUME NEW s, NEW z, Even(s), SameTeams(s, z), Others(s, z),
           \A t \in TeamsOf(s) : Len(z.teams[t].roster) = Len(s.teams[t].roster)
    PROVE  Even(z)
BY DEF Even, SameTeams, Others, TeamsOf

LEMMA EvenStay ==
    ASSUME NEW s, NEW z, Even(s), z.teams = s.teams, Others(s, z)
    PROVE  Even(z)
BY DEF Even, Others, TeamsOf

LEMMA SameLength ==
    ASSUME NEW s, NEW z, SameTeams(s, z)
    PROVE  Len(z.teams) = Len(s.teams)
BY DEF SameTeams

LEMMA AddSane ==
    ASSUME NEW s \in States, Once(s), Even(s), NEW p \in People, ~InDraft(s, p)
    PROVE  Sane(s, addToPool(s, p))
<1>1. PICK z : z = addToPool(s, p)
  OBVIOUS
<1>2. z \in States /\ Once(z) /\ Others(s, z) /\ z.teams = s.teams
  BY <1>1, AddToPoolOnce
<1>. QED
  BY <1>1, <1>2, EvenStay DEF Sane

LEMMA AddToTeamSane ==
    ASSUME NEW s \in States, Once(s), NEW p \in People, ~InDraft(s, p), NEW t \in TeamsOf(s)
    PROVE  Sane(s, addToTeam(addToPool(s, p), p, t))
<1>1. PICK y : y = addToPool(s, p)
  OBVIOUS
<1>2. y \in States /\ Once(y) /\ y.teams = s.teams /\ p \in y.memberPool
  BY <1>1, AddToPoolOnce
<1>3. PICK x : x = Seated(y, p, t)
  OBVIOUS
<1>4. t \in TeamsOf(y)
  BY <1>2 DEF TeamsOf
<1>5. x \in States /\ Once(x) /\ SameTeams(y, x)
  BY <1>2, <1>3, <1>4, SeatedOnce
<1>6. PICK z : z = addToTeam(y, p, t)
  OBVIOUS
<1>7. z = [x EXCEPT !.even = FALSE]
  BY <1>2, <1>3, <1>6 DEF addToTeam, Seated, Joined, States
<1>8. /\ z \in States /\ z.teams = x.teams /\ z.captains = x.captains
      /\ z.memberPool = x.memberPool /\ z.even = FALSE
  BY <1>5, <1>7 DEF States
<1>9. Once(z)
  BY <1>5, <1>8, OnceApart, ApartKept DEF Apart
<1>. QED
  BY <1>1, <1>2, <1>5, <1>6, <1>8, <1>9 DEF Sane, SameTeams, Even

LEMMA RemoveFromPoolSane ==
    ASSUME NEW s \in States, Once(s), Even(s), NEW p \in People, NEW z \in removeFromPool(s, p)
    PROVE  Sane(s, z)
<1>1. z \in States /\ Once(z) /\ Others(s, z) /\ z.teams = s.teams
  BY RemoveFromPoolOnce
<1>. QED
  BY <1>1, EvenStay DEF Sane

LEMMA RemoveFromTeamSane ==
    ASSUME NEW s \in States, Once(s), NEW p, NEW z \in removeFromTeam(s, p)
    PROVE  Sane(s, z)
BY RemoveFromTeamOnce, SameLength DEF Sane, Even

LEMMA InPlacesSane ==
    ASSUME NEW s \in States, Once(s), Even(s), NEW x \in People, NEW y \in People,
           x \notin s.captains, y \notin s.captains, ~isCaptainKey(s, x), ~isCaptainKey(s, y)
    PROVE  Sane(s, InPlaces(s, x, y))
<1>1. PICK z : z = InPlaces(s, x, y)
  OBVIOUS
<1>2. Swapped(s, x, y, z) /\ Once(z)
  BY <1>1, InPlacesIs, InPlacesOnce
<1>3. z \in States /\ Others(s, z) /\ SameTeams(s, z)
  BY <1>2 DEF Swapped
<1>4. Even(z)
  BY <1>2, <1>3, EvenKept DEF Swapped
<1>. QED
  BY <1>1, <1>2, <1>3, <1>4, SameLength DEF Sane

LEMMA ReplaceSane ==
    ASSUME NEW s \in States, Once(s), Even(s), NEW p \in People, NEW q \in People,
           ~InDraft(s, q), NEW z \in replaceParticipant(s, p, q)
    PROVE  Sane(s, z)
<1>1. ~isCaptainKey(s, p) /\ Located(s, p) /\ z = InPlaces(s, p, q)
  BY DEF replaceParticipant, When
<1>2. p \notin s.captains /\ q \notin s.captains /\ ~isCaptainKey(s, q)
  BY <1>1, LocatedOnce, StrangerOnce
<1>. QED
  BY <1>1, <1>2, InPlacesSane

LEMMA SwapSane ==
    ASSUME NEW s \in States, Once(s), Even(s), NEW p \in People, NEW q \in People,
           NEW z \in swapParticipants(s, p, q)
    PROVE  Sane(s, z)
<1>1. CASE p = q
  BY <1>1 DEF swapParticipants, Sane
<1>2. CASE p # q
  <2>1. /\ ~isCaptainKey(s, p) /\ Located(s, p) /\ ~isCaptainKey(s, q) /\ Located(s, q)
        /\ z = InPlaces(s, p, q)
    BY <1>2 DEF swapParticipants, When
  <2>2. p \notin s.captains /\ q \notin s.captains
    BY <2>1, LocatedOnce
  <2>. QED
    BY <2>1, <2>2, InPlacesSane
<1>. QED
  BY <1>1, <1>2

LEMMA MoveSane ==
    ASSUME NEW s \in States, Once(s), NEW p \in People, NEW t \in TeamsOf(s),
           NEW z \in moveParticipant(s, p, t)
    PROVE  Sane(s, z)
<1>1. PICK x \in (IF p \in s.memberPool THEN {s} ELSE removeFromTeam(s, p)) :
         z = [Joined(x, p, t) EXCEPT !.memberPool = @ \ {p}, !.even = FALSE]
  BY DEF moveParticipant, When
<1>2. x \in States /\ Once(x) /\ SameTeams(s, x) /\ p \in x.memberPool
  <2>1. CASE p \in s.memberPool
    BY <1>1, <2>1 DEF SameTeams
  <2>2. CASE p \notin s.memberPool
    BY <1>1, <2>2, RemoveFromTeamOnce
  <2>. QED
    BY <2>1, <2>2
<1>3. PICK y : y = Seated(x, p, t)
  OBVIOUS
<1>4. t \in TeamsOf(x)
  BY <1>2 DEF TeamsOf, SameTeams
<1>5. y \in States /\ Once(y) /\ SameTeams(x, y)
  BY <1>2, <1>3, <1>4, SeatedOnce
<1>7. z = [y EXCEPT !.even = FALSE]
  BY <1>1, <1>2, <1>3 DEF Seated, Joined, States
<1>8. /\ z \in States /\ z.teams = y.teams /\ z.captains = y.captains
      /\ z.memberPool = y.memberPool /\ z.even = FALSE
  BY <1>5, <1>7 DEF States
<1>9. Once(z)
  BY <1>5, <1>8, OnceApart, ApartKept DEF Apart
<1>. QED
  BY <1>2, <1>5, <1>8, <1>9 DEF Sane, SameTeams, Even

LEMMA RenameSane ==
    ASSUME NEW s \in States, Once(s), Even(s), NEW t \in TeamsOf(s)
    PROVE  Sane(s, renameTeamInState(s, t))
<1>1. PICK z : z = renameTeamInState(s, t)
  OBVIOUS
<1>2. /\ z \in States /\ Once(z) /\ Others(s, z) /\ SameTeams(s, z)
      /\ \A u \in TeamsOf(s) : z.teams[u].roster = s.teams[u].roster
  BY <1>1, RenameOnce
<1>3. Even(z)
  BY <1>2, EvenKept
<1>. QED
  BY <1>1, <1>2, <1>3, SameLength DEF Sane

LEMMA TeamsLength ==
    ASSUME NEW s \in States, s.teams # << >>
    PROVE  Len(s.teams) \in Nat \ {0} /\ TeamsOf(s) = 1 .. Len(s.teams) /\ s.pickIndex \in Nat
BY EmptySeq DEF States, TeamsOf

LEMMA PickSane ==
    ASSUME NEW s \in States, Once(s), Even(s), s.teams # << >>, NEW p, NEW z \in applyPick(s, p)
    PROVE  Sane(s, z)
<1>. DEFINE n == Len(s.teams)
            t == teamIndexForPick(s, s.pickIndex)
<1>1. /\ p \in s.memberPool
      /\ z = [Joined(s, p, t) EXCEPT !.memberPool = @ \ {p}, !.pickIndex = @ + 1]
  BY DEF applyPick, When
<1>2. n \in Nat \ {0} /\ TeamsOf(s) = 1 .. n /\ s.pickIndex \in Nat
  BY TeamsLength
<1>3. t \in TeamsOf(s) /\ t = captainIndexForPick(s.pickIndex, n) + 1
  BY <1>2, InTurn DEF teamIndexForPick
<1>. HIDE DEF t
<1>4. PICK y : y = Seated(s, p, t)
  OBVIOUS
<1>5. /\ y \in States /\ Once(y) /\ Others(s, y) /\ SameTeams(s, y)
      /\ \A u \in TeamsOf(s) : Len(y.teams[u].roster) =
            Len(s.teams[u].roster) + (IF u = t THEN 1 ELSE 0)
  BY <1>1, <1>3, <1>4, SeatedOnce
<1>6. z = [y EXCEPT !.pickIndex = @ + 1]
  BY <1>1, <1>4 DEF Seated, Joined, States
<1>7. /\ z \in States /\ z.teams = y.teams /\ z.captains = y.captains /\ z.even = s.even
      /\ z.memberPool = y.memberPool /\ z.pickIndex = s.pickIndex + 1
  BY <1>2, <1>5, <1>6 DEF States, Others
<1>8. Once(z)
  BY <1>5, <1>7, OnceApart, ApartKept DEF Apart
<1>9. Len(z.teams) = n /\ TeamsOf(z) = TeamsOf(s)
  BY <1>5, <1>7 DEF SameTeams, TeamsOf
<1>10. ASSUME s.even, NEW u \in TeamsOf(s)
       PROVE  Len(z.teams[u].roster) = 1 + Turns(s.pickIndex + 1, n, u)
  <2>1. Len(s.teams[u].roster) = 1 + Turns(s.pickIndex, n, u)
    BY <1>10 DEF Even
  <2>2. /\ Turns(s.pickIndex, n, u) \in Nat
        /\ Turns(s.pickIndex + 1, n, u) = Turns(s.pickIndex, n, u) + (IF u = t THEN 1 ELSE 0)
    <3>1. PICK k \in Nat : k = s.pickIndex
      BY <1>2
    <3>2. u \in 1 .. n /\ t = captainIndexForPick(k, n) + 1
      BY <1>2, <1>3, <3>1
    <3>3. /\ Turns(k, n, u) \in Nat
          /\ Turns(k + 1, n, u) = Turns(k, n, u) + (IF u = t THEN 1 ELSE 0)
      <4>. HIDE DEF n
      <4>. QED
        BY <1>2, <3>2, NextTurn
    <3>. QED
      BY <3>1, <3>3
  <2>3. Len(z.teams[u].roster) = Len(s.teams[u].roster) + (IF u = t THEN 1 ELSE 0)
    BY <1>5, <1>7
  <2>. HIDE DEF n
  <2>4. CASE u = t
    BY <2>1, <2>2, <2>3, <2>4
  <2>5. CASE u # t
    BY <2>1, <2>2, <2>3, <2>5
  <2>. QED
    BY <2>4, <2>5
<1>11. Even(z)
  BY <1>7, <1>9, <1>10 DEF Even
<1>. QED
  BY <1>7, <1>8, <1>9, <1>11 DEF Sane

LEMMA UndoSane ==
    ASSUME NEW s \in States, Once(s), Even(s), s.teams # << >>, NEW z \in undoLastPick(s)
    PROVE  Sane(s, z)
<1>. DEFINE n == Len(s.teams)
<1>1. n \in Nat \ {0} /\ TeamsOf(s) = 1 .. n /\ s.pickIndex \in Nat /\ s.pickIndex > 0
  BY TeamsLength DEF undoLastPick, When
<1>2. PICK k \in Nat : k = s.pickIndex - 1 /\ s.pickIndex = k + 1
  BY <1>1
<1>3. PICK t \in TeamsOf(s) : t = teamIndexForPick(s, k) /\ t = captainIndexForPick(k, n) + 1
  BY <1>1, InTurn DEF teamIndexForPick
<1>4. /\ z \in States /\ Once(z) /\ SameTeams(s, z) /\ z.even = s.even
      /\ z.pickIndex = k
      /\ Len(z.teams[t].roster) = Len(s.teams[t].roster) - 1
      /\ \A u \in TeamsOf(s) : u # t => z.teams[u].roster = s.teams[u].roster
  BY <1>2, <1>3, UndoOnce
<1>5. Len(z.teams) = n /\ TeamsOf(z) = TeamsOf(s)
  BY <1>4 DEF SameTeams, TeamsOf
<1>6. ASSUME s.even, NEW u \in TeamsOf(s)
      PROVE  Len(z.teams[u].roster) = 1 + Turns(k, n, u)
  <2>1. Len(s.teams[u].roster) = 1 + Turns(k + 1, n, u)
    BY <1>2, <1>6 DEF Even
  <2>2. /\ Turns(k, n, u) \in Nat
        /\ Turns(k + 1, n, u) = Turns(k, n, u) + (IF u = t THEN 1 ELSE 0)
    <3>1. n \in Nat \ {0} /\ u \in 1 .. n
      BY <1>1
    <3>. QED
      BY <1>3, <3>1, NextTurn
  <2>. HIDE DEF n
  <2>4. CASE u = t
    BY <1>4, <2>1, <2>2, <2>4
  <2>5. CASE u # t
    BY <1>4, <2>1, <2>2, <2>5
  <2>. QED
    BY <2>4, <2>5
<1>7. Even(z)
  BY <1>4, <1>5, <1>6 DEF Even
<1>. QED
  BY <1>4, <1>5, <1>7 DEF Sane

(* A draft begins: the captains in some order, each alone on his team.       *)
LEMMA OrderIs ==
    ASSUME NEW c \in SUBSET People, Cardinality(c) >= 2, NEW order \in shufflePickOrder(c)
    PROVE  /\ order \in Seq(c) /\ Len(order) \in Nat \ {0} /\ Len(order) = Cardinality(c)
           /\ {order[k] : k \in 1 .. Len(order)} = c
           /\ \A k, l \in 1 .. Len(order) : order[k] = order[l] => k = l
<1>. DEFINE n == Cardinality(c)
<1>1. IsFiniteSet(c) /\ n \in Nat
  BY CaptainDraftAssumption, FS_Subset, FS_CardinalityType
<1>2. order \in [1 .. n -> c] /\ Members(order) = c
  BY DEF shufflePickOrder
<1>. HIDE DEF n
<1>3. order \in Seq(c) /\ Len(order) = n
  BY <1>1, <1>2
<1>4. {order[k] : k \in 1 .. Len(order)} = c
  BY <1>2 DEF Members
<1>5. order \in Surjection(1 .. n, c)
  BY <1>2, <1>3, <1>4 DEF Surjection
<1>6. IsFiniteSet(1 .. n) /\ Cardinality(1 .. n) = n
  <2>1. IsFiniteSet(1 .. n) /\ Cardinality(1 .. n) = IF 1 > n THEN 0 ELSE n - 1 + 1
    BY <1>1, FS_Interval
  <2>. QED
    BY <1>1, <2>1
<1>7. order \in Injection(1 .. n, c)
  BY <1>5, <1>6, FS_SurjSameCardinalityImpliesInj DEF n
<1>. QED
  BY <1>1, <1>3, <1>4, <1>7 DEF Injection, IsInjective, n

LEMMA BegunSound ==
    ASSUME NEW s \in States, Once(s), s.teams = << >>, s.memberPool # {},
           Cardinality(s.captains) >= 2, NEW order \in shufflePickOrder(s.captains),
           NEW z, z = [s EXCEPT !.teams = buildTeamsFromCaptains(order), !.pickIndex = 0]
    PROVE  z \in States /\ Sound("ACTIVE", z)
<1>. DEFINE n == Len(order)
            teams == buildTeamsFromCaptains(order)
<1>1. /\ order \in Seq(s.captains) /\ n \in Nat \ {0}
      /\ {order[k] : k \in 1 .. n} = s.captains
      /\ \A k, l \in 1 .. n : order[k] = order[l] => k = l
  <2>1. s.captains \in SUBSET People
    BY DEF States
  <2>. QED
    BY <2>1, OrderIs
<1>2. \A t \in 1 .. n : order[t] \in s.captains /\ order[t] \in People
  BY <1>1 DEF States
<1>3. \A t \in 1 .. n : /\ teams[t] \in Teams /\ teams[t].captainKey = order[t]
                        /\ teams[t].roster = <<order[t]>>
  BY <1>2 DEF Teams, Names, buildTeamsFromCaptains
<1>. HIDE DEF n
<1>4. teams \in Seq(Teams) /\ Len(teams) = n
  <2>1. teams = [t \in 1 .. n |-> teams[t]]
    BY DEF buildTeamsFromCaptains, n
  <2>2. teams \in [1 .. n -> Teams]
    BY <1>3, <2>1
  <2>. QED
    BY <1>1, <2>2
<1>. HIDE DEF teams
<1>5. /\ z \in States /\ z.teams = teams /\ z.captains = s.captains /\ z.pickIndex = 0
      /\ z.memberPool = s.memberPool
  BY <1>4 DEF States, teams
<1>6. TeamsOf(z) = 1 .. n
  BY <1>4, <1>5 DEF TeamsOf
<1>7. \A t \in 1 .. n : /\ z.teams[t].captainKey = order[t] /\ z.teams[t].roster = <<order[t]>>
                        /\ Len(z.teams[t].roster) = 1 /\ z.teams[t].roster[1] = order[t]
                        /\ z.teams[t].roster # << >>
  <2>. SUFFICES ASSUME NEW t \in 1 .. n
                PROVE  /\ z.teams[t].captainKey = order[t] /\ z.teams[t].roster = <<order[t]>>
                       /\ Len(z.teams[t].roster) = 1 /\ z.teams[t].roster[1] = order[t]
                       /\ z.teams[t].roster # << >>
    OBVIOUS
  <2>1. z.teams[t].captainKey = order[t] /\ z.teams[t].roster = <<order[t]>>
    BY <1>3, <1>5
  <2>2. Len(<<order[t]>>) = 1 /\ <<order[t]>>[1] = order[t] /\ <<order[t]>> # << >>
    OBVIOUS
  <2>. QED
    BY <2>1, <2>2
<1>8. Apart(z)
  <2>1. \A t \in TeamsOf(z) :
           z.teams[t].roster # << >> /\ z.teams[t].roster[1] = z.teams[t].captainKey
    BY <1>6, <1>7
  <2>2. s.captains \cap s.memberPool = {}
    BY OnceApart DEF Apart
  <2>3. \A t \in TeamsOf(z) : \A k \in 1 .. Len(z.teams[t].roster) :
           k = 1 /\ z.teams[t].roster[k] = order[t]
    BY <1>6, <1>7
  <2>4. \A t \in TeamsOf(z) : \A k \in 1 .. Len(z.teams[t].roster) :
           /\ z.teams[t].roster[k] \notin z.memberPool
           /\ z.teams[t].roster[k] \in z.captains => k = 1
    BY <1>2, <1>5, <1>6, <2>2, <2>3
  <2>5. \A t, u \in TeamsOf(z) :
           \A k \in 1 .. Len(z.teams[t].roster), l \in 1 .. Len(z.teams[u].roster) :
               z.teams[u].roster[l] = z.teams[t].roster[k] => u = t /\ l = k
    BY SMTT(30), <1>1, <1>6, <2>3
  <2>. QED
    BY <1>5, <2>1, <2>2, <2>4, <2>5 DEF Apart
<1>9. {z.teams[t].captainKey : t \in TeamsOf(z)} = s.captains
  BY <1>1, <1>6, <1>7
<1>10. Once(z)
  BY <1>5, <1>8, <1>9 DEF Once, Apart
<1>11. Even(z)
  <2>1. \A t \in 1 .. n : Turns(0, n, t) = 0
    BY <1>1, NoTurns
  <2>2. Len(z.teams) = n
    BY <1>4, <1>5
  <2>. QED
    <3>1. \A t \in TeamsOf(z) : Turns(z.pickIndex, Len(z.teams), t) = 0 /\ Len(z.teams[t].roster) = 1
      BY <1>5, <1>6, <1>7, <2>1, <2>2
    <3>2. \A t \in TeamsOf(z) : Len(z.teams[t].roster) = 1 + Turns(z.pickIndex, Len(z.teams), t)
      <4>. SUFFICES ASSUME NEW t \in TeamsOf(z)
                    PROVE  Len(z.teams[t].roster) = 1 + Turns(z.pickIndex, Len(z.teams), t)
        OBVIOUS
      <4>1. PICK a, b : a = Len(z.teams[t].roster) /\ b = Turns(z.pickIndex, Len(z.teams), t)
        OBVIOUS
      <4>2. a = 1 /\ b = 0
        BY <3>1, <4>1
      <4>3. a = 1 + b
        BY <4>2
      <4>. QED
        BY <4>1, <4>3
    <3>. QED
      BY <3>2 DEF Even
<1>12. z.teams # << >>
  BY <1>1, <1>4, <1>5
<1>. QED
  BY <1>5, <1>10, <1>11, <1>12 DEF Sound

(* Before a draft begins there are captains and a pool, and no teams.        *)
LEMMA UnbegunSound ==
    ASSUME NEW s \in States, s.teams = << >>, s.captains \cap s.memberPool = {},
           NEW status \in {"SETUP", "CANCELLED", "COMPLETE"}
    PROVE  Sound(status, s)
<1>1. TeamsOf(s) = {}
  BY DEF TeamsOf
<1>2. Once(s) /\ Even(s)
  BY <1>1 DEF Once, Even
<1>. QED
  BY <1>2 DEF Sound

(* What a change becomes with the status that follows from it.               *)
LEMMA NextSound ==
    ASSUME NEW s \in States, NEW z, NEW status \in Statuses, Sound(status, s), Sane(s, z),
           NEW next, next = nextStatusAfterMutation(status, z)
    PROVE  /\ next \in Statuses /\ Sound(next, z)
           /\ next = status \/ (status = "ACTIVE" /\ next = "COMPLETE")
<1>1. next = status \/ (status = "ACTIVE" /\ next = "COMPLETE")
  BY DEF nextStatusAfterMutation
<1>2. next = "ACTIVE" => ~(z.memberPool = {} /\ z.teams # << >>)
  BY DEF nextStatusAfterMutation
<1>3. s.teams = << >> <=> z.teams = << >>
  <2>1. s.teams \in Seq(Teams) /\ z.teams \in Seq(Teams) /\ Len(s.teams) = Len(z.teams)
    BY DEF Sane, States
  <2>. QED
    BY <2>1, EmptySeq
<1>4. next \in Statuses
  BY <1>1 DEF Statuses
<1>. QED
  BY <1>1, <1>2, <1>3, <1>4 DEF Sound, Sane

-----------------------------------------------------------------------------
(* The invariant.                                                            *)

DraftRows == [status : Statuses, state : States, message : Nat]
Shows == [status : Statuses, state : States]
Tasks == [at : Steps, draft : Nat, status : Statuses, state : States, message : Nat,
          live : BOOLEAN, refresh : BOOLEAN, fresh : BOOLEAN]

Types ==
    /\ draft \in Seq(DraftRows) /\ shown \in Seq(Shows \cup {None})
    /\ published \in Seq(Seq(Teams) \cup {None}) /\ Len(published) = Len(draft)
    /\ Len(shown) <= MaxMessages
    /\ job \in [Jobs -> Tasks]
    /\ stale \subseteq {"start", "draft", "message", "teams", "failed"}
    /\ edits \in 0 .. MaxEdits /\ plan \in Plans

(* What is in a row, or on the way to one, captains could have come to.      *)
RowsSound == \A d \in 1 .. Len(draft) : Sound(draft[d].status, Of(d))
TasksSound ==
    \A j \in Jobs : job[j].at \notin {"idle", "create"} => Sound(job[j].status, job[j].state)

(* Steps of a handler at work on a draft: before its first save, while it    *)
(* still owes a message what it saved, and until it is done.                 *)
Before == {"post", "begin", "save"}
Owing == {"live", "repost", "resave"}
After == Owing \cup {"refresh"}
OnDraft == Before \cup After \cup {"publish", "delete"}

(* Messages belong to one draft: that of the row or of the handler.          *)
RowOwns(d) ==
    /\ draft[d].message \in 0 .. Len(shown)
    /\ draft[d].status = "ACTIVE" => draft[d].message # 0
    /\ \A e \in 1 .. Len(draft) :
          d # e /\ draft[d].message # 0 => draft[e].message # draft[d].message
TaskOwns(t) ==
    /\ t.at \notin OnDraft => t.draft = 0 /\ t.message = 0
    /\ t.at \in OnDraft => t.draft \in 1 .. Len(draft)
    /\ t.message \in 0 .. Len(shown)
    /\ t.at = "live" => t.message # 0
    /\ t.at = "save" /\ t.status = "ACTIVE" => draft[t.draft].message # 0
    /\ t.live => t.refresh
    /\ t.at \in Owing => t.refresh
    /\ \A e \in 1 .. Len(draft) : t.draft # e /\ t.message # 0 => draft[e].message # t.message
Own ==
    /\ \A d \in 1 .. Len(draft) : RowOwns(d)
    /\ \A j \in Jobs : TaskOwns(job[j])

(* A message just posted shows what its handler will save, and nobody else   *)
(* knows of it yet.                                                          *)
Private(j) ==
    job[j].at \in {"begin", "resave"} =>
        /\ job[j].message # 0
        /\ shown[job[j].message] = [status |-> job[j].status, state |-> job[j].state]
        /\ \A e \in 1 .. Len(draft) : draft[e].message # job[j].message
        /\ \A i \in Jobs : i # j => job[i].message # job[j].message

(* What a handler whose reading is fresh knows of its draft.                 *)
Knows(t) ==
    LET row == draft[t.draft] IN
    /\ t.at \in Before \cup After \cup {"publish"} => row.status # "CANCELLED"
    /\ t.at \in {"post", "begin"} => t.status = "ACTIVE"
    /\ t.at \in Before /\ t.status = "SETUP" => row.status = "SETUP"
    /\ t.at = "save" /\ t.status = "ACTIVE" => t.live /\ row.status = "ACTIVE"
    /\ t.at \in Before /\ ~t.refresh /\ t.status # "CANCELLED" => row.status = "SETUP"
    /\ t.at \in After => row.status = t.status /\ row.state = t.state
    /\ t.at = "live" => row.message = t.message
    /\ t.at = "publish" => row.state = t.state /\ row.status # "SETUP"

(* While no start and no save has gone over a newer one.                     *)
Alone ==
    stale \cap {"start", "draft"} = {} =>
        /\ \A d, e \in Live : d = e
        /\ \A j \in Jobs : job[j].at = "create" /\ job[j].fresh => Live = {}

(* While nothing has gone over something newer and nothing has failed, the   *)
(* last to save still owes what is not shown.                                *)
Owes(j, d, steps) == job[j].at \in steps /\ job[j].fresh /\ job[j].draft = d
MessagePaid(d) ==
    draft[d].status = "ACTIVE" =>
        \/ shown[draft[d].message] = [status |-> "ACTIVE", state |-> Of(d)]
        \/ \E j \in Jobs : Owes(j, d, Owing)
TeamsPaid(d) ==
    /\ draft[d].status = "SETUP" => published[d] = None
    /\ published[d] # None /\ draft[d].status # "CANCELLED" =>
          \/ published[d] = Of(d).teams
          \/ \E j \in Jobs : job[j].refresh /\ Owes(j, d, After)
Paid ==
    stale = {} =>
        /\ \A j \in Jobs : job[j].at = "delete" => draft[job[j].draft].status = "CANCELLED"
        /\ \A d \in 1 .. Len(draft) : MessagePaid(d) /\ TeamsPaid(d)

StateInv == Types /\ RowsSound /\ TasksSound
ShowInv ==
    /\ Own /\ Alone /\ Paid
    /\ \A j \in Jobs : Private(j) /\ (job[j].fresh => Knows(job[j]))

-----------------------------------------------------------------------------
(* Every command, if it is not a start, begins a handler that has read its   *)
(* draft and will save, post or publish a sound state.                       *)

Asked(t) ==
    /\ t \in Tasks /\ t.fresh /\ t.at \in {"post", "save", "publish"}
    /\ t.draft \in 1 .. Len(draft) /\ t.message = draft[t.draft].message
    /\ t.live => t.refresh
    /\ Knows(t) /\ Sound(t.status, t.state)
Asks(j) == \E t : Asked(t) /\ \E change : Begin(j, t, change)
Starts(j) ==
    /\ findActiveDraftForChannel = {}
    /\ \E change : Begin(j, [Idle EXCEPT !.at = "create"], change)

LEMMA IdleType == Idle \in Tasks /\ Idle.at = "idle" /\ Idle.draft = 0 /\ Idle.message = 0 /\ Idle.fresh
<1>1. << >> \in Seq(Teams)
  BY EmptySeq
<1>2. emptyDraftState \in States
  BY <1>1 DEF emptyDraftState, States
<1>. QED
  BY <1>2 DEF Idle, Tasks, Steps, Statuses

LEMMA RowType ==
    ASSUME Types, NEW d \in 1 .. Len(draft)
    PROVE  /\ draft[d] \in DraftRows /\ Of(d) \in States /\ draft[d].status \in Statuses
           /\ draft[d].message \in Nat
<1>1. draft[d] \in DraftRows
  BY ElementOfSeq DEF Types
<1>. QED
  BY <1>1 DEF DraftRows, Of

(* A reading, of which something is to become.                               *)
LEMMA ReadsIs ==
    ASSUME Types, NEW d \in 1 .. Len(draft), NEW t, t = Reads(d)
    PROVE  /\ t \in Tasks /\ t.at = "idle" /\ t.draft = d /\ t.message = draft[d].message
           /\ t.live = FALSE /\ t.refresh = FALSE /\ t.fresh = TRUE
<1>1. draft[d].message \in Nat /\ d \in Nat
  BY RowType
<1>2. t = [Idle EXCEPT !.draft = d, !.message = draft[d].message]
  BY DEF Reads
<1>3. Idle.live = FALSE /\ Idle.refresh = FALSE /\ Idle.fresh = TRUE /\ Idle.at = "idle"
  BY DEF Idle
<1>. QED
  BY <1>1, <1>2, <1>3, IdleType DEF Tasks

LEMMA ActiveDrafts ==
    ASSUME NEW d \in findActiveDraftForChannel
    PROVE  d \in 1 .. Len(draft) /\ draft[d].status \in ACTIVE_STATUSES
BY DEF findActiveDraftForChannel, Live

LEMMA ChangeAsked ==
    ASSUME Types, NEW j \in Jobs, NEW d \in findActiveDraftForChannel,
           NEW status \in {"SETUP", "CANCELLED"}, status = "SETUP" => draft[d].status = "SETUP",
           NEW s \in States, Sound(status, s), Change(j, d, status, {s})
    PROVE  Asks(j)
<1>. DEFINE t == [Reads(d) EXCEPT !.at = "save", !.status = status, !.state = s]
<1>1. Begin(j, t, FALSE)
  BY DEF Change
<1>2. d \in 1 .. Len(draft) /\ draft[d].status \in ACTIVE_STATUSES
  BY ActiveDrafts
<1>3. PICK r : r = Reads(d) /\ t = [r EXCEPT !.at = "save", !.status = status, !.state = s]
  OBVIOUS
<1>. HIDE DEF t
<1>4. /\ t \in Tasks /\ t.fresh /\ t.at = "save" /\ t.draft = d /\ t.status = status /\ t.state = s
      /\ t.message = draft[d].message /\ t.live = FALSE /\ t.refresh = FALSE
  <2>1. "save" \in Steps /\ status \in Statuses
    BY DEF Steps, Statuses
  <2>2. /\ r \in Tasks /\ r.draft = d /\ r.message = draft[d].message
        /\ r.live = FALSE /\ r.refresh = FALSE /\ r.fresh = TRUE
    BY <1>2, <1>3, ReadsIs
  <2>. QED
    BY <1>3, <2>1, <2>2 DEF Tasks
<1>5. Knows(t)
  BY <1>2, <1>4 DEF Knows, Before, After, Owing, ACTIVE_STATUSES
<1>. QED
  BY <1>1, <1>2, <1>4, <1>5 DEF Asks, Asked

LEMMA PersistAsked ==
    ASSUME Types, RowsSound, NEW j \in Jobs, NEW d \in findActiveDraftForChannel, NEW results,
           \A s \in results : Sane(Of(d), s), persistAndRefresh(j, d, results)
    PROVE  Asks(j)
<1>1. PICK s \in results :
         Begin(j, [Reads(d) EXCEPT !.at = "save", !.state = s, !.live = Open(d, {"ACTIVE"}),
                       !.refresh = Open(d, {"ACTIVE", "COMPLETE"}),
                       !.status = nextStatusAfterMutation(draft[d].status, s)], TRUE)
  BY DEF persistAndRefresh
<1>. DEFINE live == draft[d].status \in {"ACTIVE"}
            refresh == draft[d].status \in {"ACTIVE", "COMPLETE"}
            next == nextStatusAfterMutation(draft[d].status, s)
            t == [Reads(d) EXCEPT !.at = "save", !.state = s, !.live = live,
                                  !.refresh = refresh, !.status = next]
<1>2. Begin(j, t, TRUE)
  BY <1>1 DEF Open
<1>3. d \in 1 .. Len(draft) /\ draft[d].status \in ACTIVE_STATUSES
  BY ActiveDrafts
<1>4. Of(d) \in States /\ draft[d].status \in Statuses /\ Sound(draft[d].status, Of(d))
  BY <1>3, RowType DEF RowsSound
<1>5. /\ next \in Statuses /\ Sound(next, s)
      /\ next = draft[d].status \/ (draft[d].status = "ACTIVE" /\ next = "COMPLETE")
  BY <1>4, NextSound
<1>7. s \in States
  BY DEF Sane
<1>8. PICK l \in BOOLEAN, r \in BOOLEAN : l = live /\ r = refresh
  <2>1. live \in BOOLEAN /\ refresh \in BOOLEAN
    OBVIOUS
  <2>. HIDE DEF live, refresh
  <2>. QED
    BY <2>1, Zenon
<1>6. PICK x : x = Reads(d) /\ t = [x EXCEPT !.at = "save", !.state = s, !.live = l,
                                           !.refresh = r, !.status = next]
  BY <1>8
<1>. HIDE DEF t, next
<1>9. /\ t \in Tasks /\ t.fresh /\ t.at = "save" /\ t.draft = d /\ t.status = next /\ t.state = s
      /\ t.message = draft[d].message /\ t.live = l /\ t.refresh = r
  <2>1. "save" \in Steps
    BY DEF Steps
  <2>2. x \in Tasks /\ x.draft = d /\ x.message = draft[d].message /\ x.fresh = TRUE
    BY <1>3, <1>6, ReadsIs
  <2>. QED
    BY <1>5, <1>6, <1>7, <2>1, <2>2 DEF Tasks
<1>10. (l => r) /\ (l <=> draft[d].status = "ACTIVE") /\ (r <=> draft[d].status \in {"ACTIVE", "COMPLETE"})
  BY <1>8
<1>11. Knows(t)
  BY <1>3, <1>5, <1>9, <1>10 DEF Knows, Before, After, Owing, ACTIVE_STATUSES
<1>. QED
  BY <1>2, <1>3, <1>5, <1>9, <1>10, <1>11 DEF Asks, Asked

LEMMA PicksAsked ==
    ASSUME Types, RowsSound, NEW j \in Jobs, NEW d \in 1 .. Len(draft), Open(d, {"ACTIVE"}), Picks(j, d)
    PROVE  Asks(j)
<1>1. PICK p \in People : \E s \in applyPick(Of(d), p) :
         Begin(j, [Reads(d) EXCEPT !.at = "save", !.state = s, !.live = TRUE, !.refresh = TRUE,
                                   !.status = nextStatusAfterMutation("ACTIVE", s)], FALSE)
  BY DEF Picks
<1>2. PICK s \in applyPick(Of(d), p) :
         Begin(j, [Reads(d) EXCEPT !.at = "save", !.state = s, !.live = TRUE, !.refresh = TRUE,
                                   !.status = nextStatusAfterMutation("ACTIVE", s)], FALSE)
  BY <1>1
<1>3. draft[d].status = "ACTIVE" /\ Of(d) \in States /\ Sound("ACTIVE", Of(d))
  BY RowType DEF Open, RowsSound
<1>4. Sane(Of(d), s)
  BY <1>3, PickSane DEF Sound
<1>5. PICK next : next = nextStatusAfterMutation("ACTIVE", s)
  OBVIOUS
<1>6. next \in Statuses /\ Sound(next, s) /\ next \in {"ACTIVE", "COMPLETE"}
  <2>1. "ACTIVE" \in Statuses
    BY DEF Statuses
  <2>. QED
    BY <1>3, <1>4, <1>5, <2>1, NextSound
<1>7. PICK x, t : /\ x = Reads(d)
                  /\ t = [x EXCEPT !.at = "save", !.state = s, !.live = TRUE, !.refresh = TRUE,
                                   !.status = next]
  OBVIOUS
<1>8. Begin(j, t, FALSE)
  BY <1>2, <1>5, <1>7
<1>9. /\ t \in Tasks /\ t.fresh /\ t.at = "save" /\ t.draft = d /\ t.status = next /\ t.state = s
      /\ t.message = draft[d].message /\ t.live = TRUE /\ t.refresh = TRUE
  <2>1. "save" \in Steps /\ s \in States
    BY <1>4 DEF Steps, Sane
  <2>2. x \in Tasks /\ x.draft = d /\ x.message = draft[d].message /\ x.fresh = TRUE
    BY <1>7, ReadsIs
  <2>. QED
    BY <1>6, <1>7, <2>1, <2>2 DEF Tasks
<1>10. Knows(t)
  BY <1>3, <1>6, <1>9 DEF Knows, Before, After, Owing
<1>. QED
  BY <1>6, <1>8, <1>9, <1>10 DEF Asks, Asked

LEMMA CompleteIs ==
    ASSUME NEW d, Complete(d)
    PROVE  draft[d].status \in {"ACTIVE", "COMPLETE"}
BY DEF Complete, nextStatusAfterMutation

LEMMA RenamesAsked ==
    ASSUME Types, RowsSound, NEW j \in Jobs, NEW d \in findActiveDraftForChannel,
           NEW n \in TeamsOf(Of(d)), Renames(j, d, n)
    PROVE  Asks(j)
<1>1. d \in 1 .. Len(draft) /\ draft[d].status \in {"ACTIVE", "COMPLETE"}
  BY ActiveDrafts, CompleteIs DEF Renames
<1>2. Of(d) \in States /\ Once(Of(d)) /\ Even(Of(d))
  BY <1>1, RowType DEF RowsSound, Sound
<1>3. PICK s : s = renameTeamInState(Of(d), n)
  OBVIOUS
<1>4. Sane(Of(d), s)
  BY <1>2, <1>3, RenameSane
<1>5. PICK x, t : /\ x = Reads(d)
                  /\ t = [x EXCEPT !.at = "save", !.status = "COMPLETE", !.refresh = TRUE, !.state = s]
  OBVIOUS
<1>6. Begin(j, t, FALSE)
  BY <1>3, <1>5 DEF Renames
<1>7. /\ t \in Tasks /\ t.fresh /\ t.at = "save" /\ t.draft = d /\ t.status = "COMPLETE" /\ t.state = s
      /\ t.message = draft[d].message /\ t.refresh = TRUE
  <2>1. "save" \in Steps /\ "COMPLETE" \in Statuses /\ s \in States
    BY <1>4 DEF Steps, Statuses, Sane
  <2>2. x \in Tasks /\ x.draft = d /\ x.message = draft[d].message /\ x.fresh = TRUE
    BY <1>1, <1>5, ReadsIs
  <2>. QED
    BY <1>5, <2>1, <2>2 DEF Tasks
<1>8. Knows(t)
  BY <1>1, <1>7 DEF Knows, Before, After, Owing
<1>9. Sound("COMPLETE", s)
  BY <1>4 DEF Sound, Sane
<1>. QED
  BY <1>1, <1>6, <1>7, <1>8, <1>9 DEF Asks, Asked

LEMMA PublishAsked ==
    ASSUME Types, RowsSound, NEW j \in Jobs, NEW d \in findActiveDraftForChannel,
           publishCaptainDraft(j, d)
    PROVE  Asks(j)
<1>1. d \in 1 .. Len(draft) /\ draft[d].status \in {"ACTIVE", "COMPLETE"}
  BY ActiveDrafts, CompleteIs DEF publishCaptainDraft
<1>2. Of(d) \in States /\ Sound(draft[d].status, Of(d))
  BY <1>1, RowType DEF RowsSound
<1>3. PICK x, t, s : /\ x = Reads(d) /\ s = Of(d)
                     /\ t = [x EXCEPT !.at = "publish", !.status = "COMPLETE", !.state = s]
  OBVIOUS
<1>4. Begin(j, t, FALSE)
  BY <1>3 DEF publishCaptainDraft
<1>5. /\ t \in Tasks /\ t.fresh /\ t.at = "publish" /\ t.draft = d /\ t.status = "COMPLETE"
      /\ t.state = s /\ t.message = draft[d].message /\ t.live = FALSE
  <2>1. "publish" \in Steps /\ "COMPLETE" \in Statuses /\ s \in States
    BY <1>2, <1>3 DEF Steps, Statuses
  <2>2. x \in Tasks /\ x.draft = d /\ x.message = draft[d].message /\ x.fresh = TRUE /\ x.live = FALSE
    BY <1>1, <1>3, ReadsIs
  <2>. QED
    BY <1>3, <2>1, <2>2 DEF Tasks
<1>6. Knows(t)
  BY <1>1, <1>3, <1>5 DEF Knows, Before, After, Owing, Of
<1>7. Sound("COMPLETE", s)
  BY <1>2, <1>3 DEF Sound
<1>. QED
  BY <1>1, <1>4, <1>5, <1>6, <1>7 DEF Asks, Asked

LEMMA BeginAsked ==
    ASSUME Types, RowsSound, NEW j \in Jobs, beginCaptainDraft(j)
    PROVE  Asks(j)
<1>1. PICK d \in findActiveDraftForChannel :
         /\ Open(d, {"SETUP"})
         /\ Cardinality(Of(d).captains) >= 2 /\ Of(d).memberPool # {}
         /\ \E order \in shufflePickOrder(Of(d).captains) :
               Begin(j, [Reads(d) EXCEPT !.at = "post", !.status = "ACTIVE",
                             !.state = [Of(d) EXCEPT !.teams = buildTeamsFromCaptains(order),
                                                     !.pickIndex = 0]], FALSE)
  BY DEF beginCaptainDraft
<1>2. PICK order \in shufflePickOrder(Of(d).captains) :
         Begin(j, [Reads(d) EXCEPT !.at = "post", !.status = "ACTIVE",
                       !.state = [Of(d) EXCEPT !.teams = buildTeamsFromCaptains(order),
                                               !.pickIndex = 0]], FALSE)
  BY <1>1
<1>3. d \in 1 .. Len(draft) /\ draft[d].status = "SETUP"
  BY <1>1, ActiveDrafts DEF Open
<1>4. Of(d) \in States /\ Once(Of(d)) /\ Of(d).teams = << >>
  BY <1>3, RowType DEF RowsSound, Sound
<1>5. PICK s : s = [Of(d) EXCEPT !.teams = buildTeamsFromCaptains(order), !.pickIndex = 0]
  OBVIOUS
<1>6. s \in States /\ Sound("ACTIVE", s)
  BY <1>1, <1>4, <1>5, BegunSound
<1>7. PICK x, t : x = Reads(d) /\ t = [x EXCEPT !.at = "post", !.status = "ACTIVE", !.state = s]
  OBVIOUS
<1>8. Begin(j, t, FALSE)
  BY <1>2, <1>5, <1>7
<1>9. /\ t \in Tasks /\ t.fresh /\ t.at = "post" /\ t.draft = d /\ t.status = "ACTIVE"
      /\ t.state = s /\ t.message = draft[d].message /\ t.live = FALSE /\ t.refresh = FALSE
  <2>1. "post" \in Steps /\ "ACTIVE" \in Statuses
    BY DEF Steps, Statuses
  <2>2. /\ x \in Tasks /\ x.draft = d /\ x.message = draft[d].message /\ x.fresh = TRUE
        /\ x.live = FALSE /\ x.refresh = FALSE
    BY <1>3, <1>7, ReadsIs
  <2>. QED
    BY <1>6, <1>7, <2>1, <2>2 DEF Tasks
<1>10. Knows(t)
  BY <1>3, <1>9 DEF Knows, Before, After, Owing
<1>. QED
  BY <1>3, <1>6, <1>8, <1>9, <1>10 DEF Asks, Asked

LEMMA SetCaptainsAsked ==
    ASSUME Types, RowsSound, NEW j \in Jobs, setCaptains(j)
    PROVE  Asks(j)
<1>1. PICK d \in findActiveDraftForChannel, captains \in Lists :
         /\ Open(d, {"SETUP"}) /\ captains \cap Of(d).memberPool = {}
         /\ Change(j, d, "SETUP", {[emptyDraftState EXCEPT !.captains = captains,
                                                           !.memberPool = Of(d).memberPool]})
  BY DEF setCaptains
<1>2. PICK s : s = [emptyDraftState EXCEPT !.captains = captains, !.memberPool = Of(d).memberPool]
  OBVIOUS
<1>3. d \in 1 .. Len(draft) /\ draft[d].status = "SETUP" /\ Of(d) \in States
  BY <1>1, ActiveDrafts, RowType DEF Open
<1>4. /\ s = [captains |-> captains, memberPool |-> Of(d).memberPool, teams |-> << >>,
              pickIndex |-> 0, even |-> TRUE]
  BY <1>2 DEF emptyDraftState
<1>5. << >> \in Seq(Teams) /\ captains \subseteq People /\ Of(d).memberPool \subseteq People
  BY <1>3, EmptySeq, CaptainDraftAssumption DEF States
<1>6. s \in States /\ s.teams = << >> /\ s.captains \cap s.memberPool = {}
  BY <1>1, <1>4, <1>5 DEF States
<1>7. Sound("SETUP", s)
  BY <1>6, UnbegunSound
<1>. QED
  BY <1>1, <1>2, <1>3, <1>6, <1>7, ChangeAsked

LEMMA SetMembersAsked ==
    ASSUME Types, RowsSound, NEW j \in Jobs, setMembers(j)
    PROVE  Asks(j)
<1>1. PICK d \in findActiveDraftForChannel, members \in Lists :
         /\ Open(d, {"SETUP"})
         /\ Change(j, d, "SETUP",
                   {[Of(d) EXCEPT !.memberPool =
                         excludeCaptainsFromMembers(Of(d).captains, members)]})
  BY DEF setMembers
<1>2. PICK s : s = [Of(d) EXCEPT !.memberPool = excludeCaptainsFromMembers(Of(d).captains, members)]
  OBVIOUS
<1>3. /\ d \in 1 .. Len(draft) /\ draft[d].status = "SETUP" /\ Of(d) \in States
      /\ Of(d).teams = << >>
  BY <1>1, ActiveDrafts, RowType DEF Open, RowsSound, Sound
<1>4. members \subseteq People
  BY CaptainDraftAssumption
<1>5. s \in States /\ s.teams = << >> /\ s.captains \cap s.memberPool = {}
  BY <1>2, <1>3, <1>4 DEF States, excludeCaptainsFromMembers
<1>6. Sound("SETUP", s)
  BY <1>5, UnbegunSound
<1>. QED
  BY <1>1, <1>2, <1>3, <1>5, <1>6, ChangeAsked

LEMMA CancelAsked ==
    ASSUME Types, RowsSound, NEW j \in Jobs, cancelCaptainDraft(j)
    PROVE  Asks(j)
<1>1. PICK d \in findActiveDraftForChannel : Change(j, d, "CANCELLED", {Of(d)})
  BY DEF cancelCaptainDraft
<1>2. PICK s : s = Of(d)
  OBVIOUS
<1>3. s \in States /\ Sound("CANCELLED", s)
  BY <1>2, ActiveDrafts, RowType DEF RowsSound, Sound
<1>. QED
  BY <1>1, <1>2, <1>3, ChangeAsked

LEMMA ActiveIs ==
    ASSUME Types, RowsSound, NEW d \in findActiveDraftForChannel
    PROVE  /\ d \in 1 .. Len(draft) /\ Of(d) \in States /\ Once(Of(d)) /\ Even(Of(d))
           /\ draft[d].status = "ACTIVE" => Of(d).teams # << >>
BY ActiveDrafts, RowType DEF RowsSound, Sound

LEMMA ModsAsked ==
    ASSUME Types, RowsSound, NEW j \in Jobs, NEW d \in findActiveDraftForChannel,
           \/ modAddPlayer(j, d) \/ modRemovePlayer(j, d) \/ modReplacePlayer(j, d)
           \/ modSwapPlayers(j, d) \/ modMovePlayer(j, d) \/ modUndoPick(j, d)
    PROVE  Asks(j)
<1>. PICK s : s = Of(d)
  OBVIOUS
<1>0. /\ s \in States /\ Once(s) /\ Even(s)
      /\ draft[d].status = "ACTIVE" => s.teams # << >>
  BY ActiveIs
<1>1. CASE modAddPlayer(j, d)
  <2>1. PICK p \in People :
           /\ assertPlayerNotInDraft(s, p)
           /\ \/ persistAndRefresh(j, d, {addToPool(s, p)})
              \/ \E t \in TeamsOf(s) : persistAndRefresh(j, d, {addToTeam(addToPool(s, p), p, t)})
    BY <1>1 DEF modAddPlayer
  <2>2. ~InDraft(s, p)
    BY <2>1 DEF assertPlayerNotInDraft
  <2>3. CASE persistAndRefresh(j, d, {addToPool(s, p)})
    <3>1. Sane(Of(d), addToPool(s, p))
      BY <1>0, <2>2, AddSane
    <3>. QED
      BY <2>3, <3>1, PersistAsked
  <2>4. ASSUME NEW t \in TeamsOf(s), persistAndRefresh(j, d, {addToTeam(addToPool(s, p), p, t)})
        PROVE  Asks(j)
    <3>1. Sane(Of(d), addToTeam(addToPool(s, p), p, t))
      BY <1>0, <2>2, AddToTeamSane
    <3>. QED
      BY <2>4, <3>1, PersistAsked
  <2>. QED
    BY <2>1, <2>3, <2>4
<1>2. CASE modRemovePlayer(j, d)
  <2>1. PICK p \in People : \/ persistAndRefresh(j, d, removeFromPool(s, p))
                            \/ persistAndRefresh(j, d, removeFromTeam(s, p))
    BY <1>2 DEF modRemovePlayer
  <2>2. \A z \in removeFromPool(s, p) \cup removeFromTeam(s, p) : Sane(Of(d), z)
    BY <1>0, RemoveFromPoolSane, RemoveFromTeamSane
  <2>. QED
    BY <2>1, <2>2, PersistAsked
<1>3. CASE modReplacePlayer(j, d)
  <2>1. PICK p \in People, q \in People :
           /\ assertPlayerNotInDraft(s, q) /\ persistAndRefresh(j, d, replaceParticipant(s, p, q))
    BY <1>3 DEF modReplacePlayer
  <2>2. \A z \in replaceParticipant(s, p, q) : Sane(Of(d), z)
    BY <1>0, <2>1, ReplaceSane DEF assertPlayerNotInDraft
  <2>. QED
    BY <2>1, <2>2, PersistAsked
<1>4. CASE modSwapPlayers(j, d)
  <2>1. PICK p \in People, q \in People : persistAndRefresh(j, d, swapParticipants(s, p, q))
    BY <1>4 DEF modSwapPlayers
  <2>2. \A z \in swapParticipants(s, p, q) : Sane(Of(d), z)
    BY <1>0, SwapSane
  <2>. QED
    BY <2>1, <2>2, PersistAsked
<1>5. CASE modMovePlayer(j, d)
  <2>1. PICK p \in People, t \in TeamsOf(s) : persistAndRefresh(j, d, moveParticipant(s, p, t))
    BY <1>5 DEF modMovePlayer
  <2>2. \A z \in moveParticipant(s, p, t) : Sane(Of(d), z)
    BY <1>0, MoveSane
  <2>. QED
    BY <2>1, <2>2, PersistAsked
<1>6. CASE modUndoPick(j, d)
  <2>1. draft[d].status = "ACTIVE" /\ persistAndRefresh(j, d, undoLastPick(s))
    BY <1>6 DEF modUndoPick, Open
  <2>2. \A z \in undoLastPick(s) : Sane(Of(d), z)
    BY <1>0, <2>1, UndoSane
  <2>. QED
    BY <2>1, <2>2, PersistAsked
<1>. QED
  BY <1>1, <1>2, <1>3, <1>4, <1>5, <1>6

LEMMA CommandAsked ==
    ASSUME Types, RowsSound, NEW j \in Jobs,
           draftCommands(j) \/ moderatorCommands(j) \/ handlePickSelect(j)
    PROVE  Asks(j) \/ Starts(j)
<1>1. CASE startCaptainDraft(j)
  BY <1>1 DEF startCaptainDraft, Starts
<1>2. ASSUME NEW d \in 1 .. Len(draft), applyCaptainDraftPick(j, d)
      PROVE  Asks(j)
  BY <1>2, PicksAsked DEF applyCaptainDraftPick
<1>3. ASSUME NEW d \in findActiveDraftForChannel,
             \/ applyCaptainDraftPick(j, d) \/ renameCaptainTeam(j, d) \/ modRenameTeam(j, d)
             \/ publishCaptainDraft(j, d)
      PROVE  Asks(j)
  <2>1. CASE applyCaptainDraftPick(j, d)
    BY <1>2, <2>1, ActiveDrafts
  <2>2. CASE renameCaptainTeam(j, d)
    BY <2>2, RenamesAsked DEF renameCaptainTeam
  <2>3. CASE modRenameTeam(j, d)
    BY <2>3, RenamesAsked DEF modRenameTeam
  <2>4. CASE publishCaptainDraft(j, d)
    BY <2>4, PublishAsked
  <2>. QED
    BY <1>3, <2>1, <2>2, <2>3, <2>4
<1>4. CASE modForcePick(j)
  <2>1. PICK d \in findActiveDraftForChannel : Open(d, {"ACTIVE"}) /\ Picks(j, d)
    BY <1>4 DEF modForcePick
  <2>2. d \in 1 .. Len(draft)
    BY ActiveDrafts
  <2>. QED
    BY <2>1, <2>2, PicksAsked
<1>5. CASE draftCommands(j)
  BY <1>1, <1>3, <1>5, SetCaptainsAsked, SetMembersAsked, BeginAsked DEF draftCommands
<1>6. CASE moderatorCommands(j)
  BY <1>4, <1>6, ModsAsked, CancelAsked DEF moderatorCommands
<1>7. CASE handlePickSelect(j)
  BY <1>2, <1>7 DEF handlePickSelect
<1>. QED
  BY <1>5, <1>6, <1>7

-----------------------------------------------------------------------------
(* A handler begins.                                                         *)

LEMMA BeginIs ==
    ASSUME StateInv, NEW j \in Jobs, NEW t \in Tasks, NEW change, Begin(j, t, change)
    PROVE  /\ job[j] = Idle /\ job' = [job EXCEPT ![j] = t]
           /\ job' \in [Jobs -> Tasks] /\ job'[j] = t /\ \A i \in Jobs : i # j => job'[i] = job[i]
           /\ draft' = draft /\ shown' = shown /\ published' = published /\ stale' = stale
           /\ plan' = plan /\ edits' \in 0 .. MaxEdits
<1>1. job[j] = Idle /\ job' = [job EXCEPT ![j] = t] /\ job \in [Jobs -> Tasks]
  BY DEF Begin, StateInv, Types
<1>2. /\ draft' = draft /\ shown' = shown /\ published' = published /\ stale' = stale
      /\ plan' = plan
  BY DEF Begin
<1>3. edits' \in 0 .. MaxEdits
  <2>1. edits \in 0 .. MaxEdits /\ MaxEdits \in Nat \ {0}
    BY CaptainDraftAssumption DEF StateInv, Types
  <2>2. CASE Busy \/ change
    <3>1. edits < (IF "brief" \in plan THEN 1 ELSE MaxEdits) /\ edits' = edits + 1
      BY <2>2 DEF Begin
    <3>2. edits < MaxEdits
      BY <2>1, <3>1
    <3>. QED
      BY <2>1, <3>1, <3>2
  <2>3. CASE ~(Busy \/ change)
    BY <2>1, <2>3 DEF Begin
  <2>. QED
    BY <2>2, <2>3
<1>4. job' \in [Jobs -> Tasks] /\ job'[j] = t /\ \A i \in Jobs : i # j => job'[i] = job[i]
  BY <1>1
<1>. QED
  BY <1>1, <1>2, <1>3, <1>4

LEMMA BeginState ==
    ASSUME StateInv, NEW j \in Jobs, NEW t \in Tasks, NEW change, Begin(j, t, change),
           t.at \notin {"idle", "create"} => Sound(t.status, t.state)
    PROVE  StateInv'
<1>1. /\ job' \in [Jobs -> Tasks] /\ job'[j] = t /\ \A i \in Jobs : i # j => job'[i] = job[i]
      /\ draft' = draft /\ shown' = shown /\ published' = published /\ stale' = stale
      /\ plan' = plan /\ edits' \in 0 .. MaxEdits
  BY BeginIs
<1>2. Types'
  BY <1>1 DEF StateInv, Types
<1>3. RowsSound'
  BY <1>1 DEF StateInv, RowsSound, Of
<1>4. TasksSound'
  BY <1>1 DEF StateInv, TasksSound
<1>. QED
  BY <1>2, <1>3, <1>4 DEF StateInv

LEMMA AskedShow ==
    ASSUME StateInv, ShowInv, NEW j \in Jobs, NEW t, Asked(t), NEW change, Begin(j, t, change)
    PROVE  ShowInv'
<1>0. /\ t \in Tasks /\ t.fresh /\ t.at \in {"post", "save", "publish"}
      /\ t.draft \in 1 .. Len(draft) /\ t.message = draft[t.draft].message
      /\ (t.live => t.refresh) /\ Knows(t)
  BY DEF Asked
<1>1. /\ job[j] = Idle
      /\ job' \in [Jobs -> Tasks] /\ job'[j] = t /\ \A i \in Jobs : i # j => job'[i] = job[i]
      /\ draft' = draft /\ shown' = shown /\ published' = published /\ stale' = stale
  BY <1>0, BeginIs
<1>2. job[j].at = "idle"
  BY <1>1, IdleType
<1>3. Live' = Live
  BY <1>1 DEF Live
<1>4. Own'
  <2>1. \A d \in 1 .. Len(draft) : RowOwns(d)'
    BY <1>1 DEF ShowInv, Own, RowOwns
  <2>2. \A i \in Jobs : i # j => TaskOwns(job[i])'
    BY <1>1 DEF ShowInv, Own, TaskOwns
  <2>3. TaskOwns(t)'
    <3>1. RowOwns(t.draft)
      BY <1>0 DEF ShowInv, Own
    <3>2. /\ draft[t.draft].message \in 0 .. Len(shown)
          /\ \A e \in 1 .. Len(draft) :
                t.draft # e /\ t.message # 0 => draft[e].message # t.message
      BY <1>0, <3>1 DEF RowOwns
    <3>3. t.at = "save" /\ t.status = "ACTIVE" => draft[t.draft].message # 0
      BY <1>0, <3>1 DEF Knows, RowOwns, Before
    <3>. QED
      BY <1>0, <1>1, <3>2, <3>3 DEF TaskOwns, OnDraft, Before, After, Owing
  <2>. QED
    BY <1>1, <2>1, <2>2, <2>3 DEF Own
<1>5. Alone'
  BY <1>0, <1>1, <1>3 DEF ShowInv, Alone
<1>6. Paid'
  <2>. SUFFICES ASSUME stale = {}
                PROVE  /\ \A i \in Jobs : job'[i].at = "delete" =>
                              draft[job'[i].draft].status = "CANCELLED"
                       /\ \A d \in 1 .. Len(draft) : MessagePaid(d)' /\ TeamsPaid(d)'
    BY <1>1 DEF Paid
  <2>1. /\ \A i \in Jobs : job[i].at = "delete" => draft[job[i].draft].status = "CANCELLED"
        /\ \A d \in 1 .. Len(draft) : MessagePaid(d) /\ TeamsPaid(d)
    BY DEF ShowInv, Paid
  <2>2. \A i \in Jobs : job[i].at \in After => job'[i] = job[i]
    BY <1>1, <1>2 DEF After, Owing
  <2>3. \A d \in 1 .. Len(draft) : MessagePaid(d)'
    BY <1>1, <2>1, <2>2 DEF MessagePaid, Owes, Of, After
  <2>4. \A d \in 1 .. Len(draft) : TeamsPaid(d)'
    BY <1>1, <2>1, <2>2 DEF TeamsPaid, Owes, Of
  <2>. QED
    BY <1>0, <1>1, <2>1, <2>3, <2>4
<1>7. ASSUME NEW i \in Jobs
      PROVE  Private(i)'
  <2>1. CASE i = j
    BY <1>0, <1>1, <2>1 DEF Private
  <2>2. CASE i # j
    <3>1. Private(i) /\ job'[i] = job[i]
      BY <1>1, <2>2 DEF ShowInv
    <3>2. job[i].at \in {"begin", "resave"} => t.message # job[i].message
      BY <1>0, <3>1 DEF Private
    <3>. QED
      BY <1>1, <3>1, <3>2 DEF Private
  <2>. QED
    BY <2>1, <2>2
<1>8. ASSUME NEW i \in Jobs, job'[i].fresh
      PROVE  Knows(job[i])'
  <2>1. CASE i = j
    BY <1>0, <1>1, <2>1 DEF Knows
  <2>2. CASE i # j
    BY <1>1, <1>8, <2>2 DEF ShowInv, Knows
  <2>. QED
    BY <2>1, <2>2
<1>. QED
  BY <1>4, <1>5, <1>6, <1>7, <1>8 DEF ShowInv

LEMMA StartsShow ==
    ASSUME StateInv, ShowInv, NEW j \in Jobs, Starts(j)
    PROVE  StateInv' /\ ShowInv'
<1>0. PICK t, change : t = [Idle EXCEPT !.at = "create"] /\ Begin(j, t, change)
  BY DEF Starts
<1>1. t \in Tasks /\ t.at = "create" /\ t.draft = 0 /\ t.message = 0 /\ t.fresh /\ ~t.live
  <2>1. "create" \in Steps /\ Idle.live = FALSE /\ Idle.refresh = FALSE
    BY DEF Steps, Idle
  <2>. QED
    BY <1>0, <2>1, IdleType DEF Tasks
<1>2. /\ job[j] = Idle
      /\ job' \in [Jobs -> Tasks] /\ job'[j] = t /\ \A i \in Jobs : i # j => job'[i] = job[i]
      /\ draft' = draft /\ shown' = shown /\ published' = published /\ stale' = stale
  BY <1>0, <1>1, BeginIs
<1>3. StateInv'
  BY <1>0, <1>1, BeginState
<1>4. Live' = Live /\ job[j].at = "idle"
  BY <1>2, IdleType DEF Live
<1>5. Own'
  <2>1. \A d \in 1 .. Len(draft) : RowOwns(d)'
    BY <1>2 DEF ShowInv, Own, RowOwns
  <2>2. \A i \in Jobs : i # j => TaskOwns(job[i])'
    BY <1>2 DEF ShowInv, Own, TaskOwns
  <2>3. TaskOwns(t)'
    <3>1. Len(shown) \in Nat
      BY LenProperties DEF StateInv, Types
    <3>. QED
      BY <1>1, <1>2, <3>1 DEF TaskOwns, OnDraft, Before, After, Owing
  <2>. QED
    BY <1>2, <2>1, <2>2, <2>3 DEF Own
<1>6. Alone'
  <2>. SUFFICES ASSUME stale \cap {"start", "draft"} = {}
                PROVE  /\ \A d, e \in Live : d = e
                       /\ \A i \in Jobs : job'[i].at = "create" /\ job'[i].fresh => Live = {}
    BY <1>2, <1>4 DEF Alone
  <2>1. /\ \A d, e \in Live : d = e
        /\ \A i \in Jobs : job[i].at = "create" /\ job[i].fresh => Live = {}
    BY DEF ShowInv, Alone
  <2>2. Live = {}
    <3>. SUFFICES ASSUME NEW d \in Live
                  PROVE  FALSE
      OBVIOUS
    <3>1. d <= d
      BY DEF Live
    <3>2. d \in findActiveDraftForChannel
      BY <2>1, <3>1 DEF findActiveDraftForChannel
    <3>. QED
      BY <3>2 DEF Starts
  <2>. QED
    BY <2>2
<1>7. Paid'
  <2>. SUFFICES ASSUME stale = {}
                PROVE  /\ \A i \in Jobs : job'[i].at = "delete" =>
                              draft[job'[i].draft].status = "CANCELLED"
                       /\ \A d \in 1 .. Len(draft) : MessagePaid(d)' /\ TeamsPaid(d)'
    BY <1>2 DEF Paid
  <2>1. /\ \A i \in Jobs : job[i].at = "delete" => draft[job[i].draft].status = "CANCELLED"
        /\ \A d \in 1 .. Len(draft) : MessagePaid(d) /\ TeamsPaid(d)
    BY DEF ShowInv, Paid
  <2>2. \A i \in Jobs : job[i].at \in After => job'[i] = job[i]
    BY <1>2, <1>4 DEF After, Owing
  <2>3. \A d \in 1 .. Len(draft) : MessagePaid(d)'
    BY <1>2, <2>1, <2>2 DEF MessagePaid, Owes, Of, After
  <2>4. \A d \in 1 .. Len(draft) : TeamsPaid(d)'
    BY <1>2, <2>1, <2>2 DEF TeamsPaid, Owes, Of
  <2>. QED
    BY <1>1, <1>2, <2>1, <2>3, <2>4
<1>8. ASSUME NEW i \in Jobs
      PROVE  Private(i)'
  <2>1. CASE i = j
    BY <1>1, <1>2, <2>1 DEF Private
  <2>2. CASE i # j
    <3>1. Private(i) /\ job'[i] = job[i]
      BY <1>2, <2>2 DEF ShowInv
    <3>. QED
      BY <1>1, <1>2, <3>1 DEF Private
  <2>. QED
    BY <2>1, <2>2
<1>9. ASSUME NEW i \in Jobs, job'[i].fresh
      PROVE  Knows(job[i])'
  <2>1. CASE i = j
    BY <1>1, <1>2, <2>1 DEF Knows, Before, After, Owing
  <2>2. CASE i # j
    BY <1>2, <1>9, <2>2 DEF ShowInv, Knows
  <2>. QED
    BY <2>1, <2>2
<1>. QED
  BY <1>3, <1>5, <1>6, <1>7, <1>8, <1>9 DEF ShowInv

-----------------------------------------------------------------------------
(* A handler saves, and whoever else is at work on the draft grows old.      *)

Aged(x, y) ==
    /\ y.at = x.at /\ y.draft = x.draft /\ y.status = x.status /\ y.state = x.state
    /\ y.message = x.message /\ y.live = x.live /\ y.refresh = x.refresh
Wrotes(j, t) ==
    /\ job' \in [Jobs -> Tasks] /\ job'[j] = t
    /\ \A i \in Jobs :
          i # j => /\ Aged(job[i], job'[i])
                   /\ job'[i].fresh => /\ job'[i] = job[i]
                                       /\ job[i] = Idle \/ job[i].draft # job[j].draft
                   /\ job[i].draft # job[j].draft => job'[i] = job[i]

LEMMA WroteIs ==
    ASSUME StateInv, NEW j \in Jobs, NEW t \in Tasks, Wrote(j, t)
    PROVE  Wrotes(j, t)
<1>1. job \in [Jobs -> Tasks]
  BY DEF StateInv, Types
<1>2. job' = [i \in Jobs |-> IF i = j THEN t
                             ELSE IF job[i] = Idle \/ job[i].draft # job[j].draft THEN job[i]
                             ELSE [job[i] EXCEPT !.fresh = FALSE]]
  BY DEF Wrote
<1>3. ASSUME NEW i \in Jobs, i # j
      PROVE  /\ Aged(job[i], job'[i]) /\ job'[i] \in Tasks
             /\ job'[i].fresh => /\ job'[i] = job[i]
                                 /\ job[i] = Idle \/ job[i].draft # job[j].draft
             /\ job[i].draft # job[j].draft => job'[i] = job[i]
  <2>1. PICK x \in Tasks : x = job[i]
    BY <1>1
  <2>2. CASE x = Idle \/ x.draft # job[j].draft
    <3>1. job'[i] = x
      BY <1>2, <1>3, <2>1, <2>2
    <3>. QED
      BY <2>1, <2>2, <3>1 DEF Aged
  <2>3. CASE ~(x = Idle \/ x.draft # job[j].draft)
    <3>1. job'[i] = [x EXCEPT !.fresh = FALSE]
      BY <1>2, <1>3, <2>1, <2>3
    <3>2. Aged(x, job'[i]) /\ job'[i] \in Tasks /\ job'[i].fresh = FALSE
      BY <3>1 DEF Aged, Tasks
    <3>. QED
      BY <2>1, <2>3, <3>2
  <2>. QED
    BY <2>2, <2>3
<1>4. job'[j] = t
  BY <1>2
<1>5. job' \in [Jobs -> Tasks]
  BY <1>2, <1>3, <1>4
<1>. QED
  BY <1>3, <1>4, <1>5 DEF Wrotes

(* The handler's step after it has saved a row with the message m.           *)
NextTask(x, m, t) ==
    \/ /\ x.status = "CANCELLED" /\ t = [x EXCEPT !.at = "delete"]
    \/ /\ x.status # "CANCELLED" /\ x.at = "save" /\ x.live /\ m # 0
       /\ t = [x EXCEPT !.message = m, !.fresh = TRUE, !.at = "live"]
    \/ /\ x.status # "CANCELLED" /\ ~(x.at = "save" /\ x.live /\ m # 0) /\ x.refresh
       /\ t = [x EXCEPT !.message = m, !.fresh = TRUE, !.at = "refresh"]
    \/ /\ x.status # "CANCELLED" /\ ~(x.at = "save" /\ x.live /\ m # 0) /\ ~x.refresh
       /\ t = Idle

SavedAs(j, d, m, t) ==
    /\ job[j].at \in {"save", "begin", "resave"}
    /\ d = job[j].draft /\ d \in 1 .. Len(draft) /\ m \in 0 .. Len(shown)
    /\ m = IF job[j].at = "save" THEN draft[d].message ELSE job[j].message
    /\ draft' \in Seq(DraftRows) /\ Len(draft') = Len(draft)
    /\ draft'[d] = [status |-> job[j].status, state |-> job[j].state, message |-> m]
    /\ \A e \in 1 .. Len(draft) : e # d => draft'[e] = draft[e]
    /\ t \in Tasks /\ NextTask(job[j], m, t) /\ Wrotes(j, t)
    /\ stale' = (IF job[j].fresh THEN stale ELSE stale \cup {"draft"})
    /\ shown' = shown /\ published' = published /\ edits' = edits /\ plan' = plan

LEMMA SaveIs ==
    ASSUME StateInv, Own, NEW j \in Jobs, saveDraftState(j)
    PROVE  \E d, m, t : SavedAs(j, d, m, t)
<1>1. PICK x \in Tasks : x = job[j]
  BY DEF StateInv, Types
<1>2. PICK d \in Nat : d = x.draft
  BY DEF Tasks
<1>3. PICK m : m = IF x.at = "save" THEN draft[d].message ELSE x.message
  OBVIOUS
<1>4. PICK saved : saved = [x EXCEPT !.message = m, !.fresh = TRUE]
  OBVIOUS
<1>5. PICK t : t = IF x.status = "CANCELLED" THEN [x EXCEPT !.at = "delete"]
                   ELSE IF x.at = "save" /\ x.live /\ m # 0 THEN [saved EXCEPT !.at = "live"]
                   ELSE Refreshing(saved)
  OBVIOUS
<1>6. /\ x.at \in {"save", "begin", "resave"}
      /\ draft' = [draft EXCEPT ![d] = [status |-> x.status, state |-> x.state, message |-> m]]
      /\ Noting(j, "draft") /\ Wrote(j, t)
      /\ shown' = shown /\ published' = published /\ edits' = edits /\ plan' = plan
  BY <1>1, <1>2, <1>3, <1>4, <1>5 DEF saveDraftState
<1>7. d \in 1 .. Len(draft) /\ x.message \in 0 .. Len(shown) /\ draft[d].message \in 0 .. Len(shown)
  <2>1. TaskOwns(x)
    BY <1>1 DEF Own
  <2>2. d \in 1 .. Len(draft) /\ x.message \in 0 .. Len(shown)
    BY <1>2, <1>6, <2>1 DEF TaskOwns, OnDraft, Before, After, Owing
  <2>. QED
    BY <2>2 DEF Own, RowOwns
<1>8. m \in 0 .. Len(shown) /\ m \in Nat
  <2>1. Len(shown) \in Nat
    BY LenProperties DEF StateInv, Types
  <2>. QED
    BY <1>3, <1>7, <2>1
<1>9. saved \in Tasks /\ saved.refresh = x.refresh
  BY <1>4, <1>8 DEF Tasks
<1>10. NextTask(x, m, t)
  <2>1. [saved EXCEPT !.at = "live"] = [x EXCEPT !.message = m, !.fresh = TRUE, !.at = "live"]
    BY <1>4, <1>8 DEF Tasks
  <2>2. [saved EXCEPT !.at = "refresh"] = [x EXCEPT !.message = m, !.fresh = TRUE, !.at = "refresh"]
    BY <1>4, <1>8 DEF Tasks
  <2>3. Refreshing(saved) = IF x.refresh THEN [saved EXCEPT !.at = "refresh"] ELSE Idle
    BY <1>9 DEF Refreshing
  <2>. QED
    BY <1>5, <2>1, <2>2, <2>3 DEF NextTask
<1>11. t \in Tasks
  <2>1. {"delete", "live", "refresh"} \subseteq Steps
    BY DEF Steps
  <2>. QED
    BY ZenonT(40), <1>8, <1>10, <2>1, IdleType DEF NextTask, Tasks
<1>12. Wrotes(j, t)
  BY <1>6, <1>11, WroteIs
<1>13. /\ draft' \in Seq(DraftRows) /\ Len(draft') = Len(draft)
       /\ draft'[d] = [status |-> x.status, state |-> x.state, message |-> m]
       /\ \A e \in 1 .. Len(draft) : e # d => draft'[e] = draft[e]
  <2>1. draft \in Seq(DraftRows)
    BY DEF StateInv, Types
  <2>2. [status |-> x.status, state |-> x.state, message |-> m] \in DraftRows
    BY <1>8 DEF Tasks, DraftRows
  <2>. QED
    BY <1>6, <1>7, <2>1, <2>2, ExceptSeq
<1>14. stale' = IF x.fresh THEN stale ELSE stale \cup {"draft"}
  BY <1>1, <1>6 DEF Noting
<1>. QED
  BY <1>1, <1>2, <1>3, <1>6, <1>7, <1>8, <1>10, <1>11, <1>12, <1>13, <1>14 DEF SavedAs

LEMMA SaveState ==
    ASSUME StateInv, Own, NEW j \in Jobs, NEW d, NEW m, NEW t, SavedAs(j, d, m, t)
    PROVE  StateInv'
<1>1. job \in [Jobs -> Tasks] /\ job[j] \in Tasks
  BY DEF StateInv, Types
<1>2. /\ job[j].at \in {"save", "begin", "resave"} /\ d \in 1 .. Len(draft)
      /\ Len(draft') = Len(draft)
      /\ draft'[d] = [status |-> job[j].status, state |-> job[j].state, message |-> m]
      /\ \A e \in 1 .. Len(draft) : e # d => draft'[e] = draft[e]
      /\ t \in Tasks /\ NextTask(job[j], m, t) /\ Wrotes(j, t)
  BY DEF SavedAs
<1>3. Sound(job[j].status, job[j].state)
  BY <1>2 DEF StateInv, TasksSound
<1>4. Types'
  <2>1. job' \in [Jobs -> Tasks]
    BY <1>2 DEF Wrotes
  <2>2. /\ draft' \in Seq(DraftRows) /\ stale' \subseteq stale \cup {"draft"}
        /\ shown' = shown /\ published' = published /\ edits' = edits /\ plan' = plan
    BY DEF SavedAs
  <2>. QED
    BY <1>2, <2>1, <2>2 DEF StateInv, Types
<1>5. RowsSound'
  <2>. SUFFICES ASSUME NEW e \in 1 .. Len(draft)
                PROVE  Sound(draft'[e].status, draft'[e].state)
    BY <1>2 DEF RowsSound, Of
  <2>1. CASE e = d
    BY <1>2, <1>3, <2>1
  <2>2. CASE e # d
    BY <1>2, <2>2 DEF StateInv, RowsSound, Of
  <2>. QED
    BY <2>1, <2>2
<1>6. TasksSound'
  <2>. SUFFICES ASSUME NEW i \in Jobs, job'[i].at \notin {"idle", "create"}
                PROVE  Sound(job'[i].status, job'[i].state)
    BY DEF TasksSound
  <2>1. CASE i = j
    <3>1. job'[j] = t /\ t.at # "idle"
      BY <1>2, <2>1 DEF Wrotes
    <3>2. t.status = job[j].status /\ t.state = job[j].state
      BY <1>1, <1>2, <3>1, IdleType DEF NextTask, Tasks
    <3>. QED
      BY <1>3, <2>1, <3>1, <3>2
  <2>2. CASE i # j
    BY <1>2, <2>2 DEF Wrotes, Aged, StateInv, TasksSound
  <2>. QED
    BY <2>1, <2>2
<1>. QED
  BY <1>4, <1>5, <1>6 DEF StateInv

LEMMA SaveOwn ==
    ASSUME StateInv, ShowInv, NEW j \in Jobs, NEW d, NEW m, NEW t, SavedAs(j, d, m, t)
    PROVE  /\ Own'
           /\ \A i \in Jobs : Private(i)'
           /\ job[j].at \in {"begin", "resave"} =>
                 m # 0 /\ shown[m] = [status |-> job[j].status, state |-> job[j].state]
           /\ t.message \in {0, m, job[j].message}
<1>1. job \in [Jobs -> Tasks] /\ job[j] \in Tasks /\ Len(shown) \in Nat
  BY LenProperties DEF StateInv, Types
<1>2. /\ job[j].at \in {"save", "begin", "resave"}
      /\ d = job[j].draft /\ d \in 1 .. Len(draft) /\ m \in 0 .. Len(shown)
      /\ m = IF job[j].at = "save" THEN draft[d].message ELSE job[j].message
      /\ Len(draft') = Len(draft)
      /\ draft'[d] = [status |-> job[j].status, state |-> job[j].state, message |-> m]
      /\ \A e \in 1 .. Len(draft) : e # d => draft'[e] = draft[e]
      /\ t \in Tasks /\ NextTask(job[j], m, t) /\ shown' = shown
  BY DEF SavedAs
<1>3. job'[j] = t /\ \A i \in Jobs : i # j => Aged(job[i], job'[i])
  BY DEF SavedAs, Wrotes
<1>4. RowOwns(d) /\ TaskOwns(job[j]) /\ Private(j)
  BY <1>2 DEF ShowInv, Own
<1>5. job[j].at \in {"begin", "resave"} =>
         /\ m # 0 /\ shown[m] = [status |-> job[j].status, state |-> job[j].state]
         /\ \A e \in 1 .. Len(draft) : draft[e].message # m
         /\ \A i \in Jobs : i # j => job[i].message # m
  BY <1>2, <1>4 DEF Private
<1>6. \A e \in 1 .. Len(draft) : e # d /\ m # 0 => draft[e].message # m
  BY <1>2, <1>4, <1>5 DEF RowOwns
<1>7. job[j].status = "ACTIVE" => m # 0
  BY <1>2, <1>4, <1>5 DEF TaskOwns
<1>8. t.message \in {0, m, job[j].message}
  BY ZenonT(40), <1>1, <1>2, IdleType DEF NextTask, Tasks
<1>9. ASSUME NEW e \in 1 .. Len(draft)
      PROVE  RowOwns(e)'
  <2>1. CASE e = d
    BY <1>2, <1>6, <1>7, <2>1 DEF RowOwns
  <2>2. CASE e # d
    <3>1. RowOwns(e) /\ draft'[e] = draft[e]
      BY <1>2, <2>2 DEF ShowInv, Own
    <3>2. draft[e].message # 0 => m # draft[e].message
      BY <1>6, <2>2
    <3>3. ASSUME NEW f \in 1 .. Len(draft), e # f, draft[e].message # 0
          PROVE  draft'[f].message # draft[e].message
      <4>1. CASE f = d
        BY <1>2, <3>2, <3>3, <4>1
      <4>2. CASE f # d
        BY <1>2, <3>1, <3>3, <4>2 DEF RowOwns
      <4>. QED
        BY <4>1, <4>2
    <3>. QED
      BY <1>2, <3>1, <3>3 DEF RowOwns
  <2>. QED
    BY <2>1, <2>2
<1>10. ASSUME NEW i \in Jobs
       PROVE  TaskOwns(job[i])'
  <2>1. CASE i = j
    <3>1. t.message # 0 => \A e \in 1 .. Len(draft) : e # d => draft[e].message # t.message
      BY <1>2, <1>4, <1>6, <1>8 DEF TaskOwns
    <3>2. CASE t = Idle
      BY <1>1, <1>2, <1>3, <2>1, <3>2, IdleType DEF TaskOwns, OnDraft, Before, After, Owing, Idle
    <3>3. CASE t # Idle
      <4>1. /\ t.draft = d /\ t.live = job[j].live /\ t.refresh = job[j].refresh
            /\ t.message \in 0 .. Len(shown) /\ t.at \in {"delete", "live", "refresh"}
            /\ t.at = "live" => t.message # 0 /\ t.live
        BY ZenonT(40), <1>1, <1>2, <1>4, <3>3 DEF NextTask, Tasks, TaskOwns
      <4>. QED
        BY <1>2, <1>3, <1>4, <2>1, <3>1, <4>1 DEF TaskOwns, OnDraft, Before, After, Owing
    <3>. QED
      BY <3>2, <3>3
  <2>2. CASE i # j
    <3>1. TaskOwns(job[i]) /\ Aged(job[i], job'[i])
      BY <1>3, <2>2 DEF ShowInv, Own
    <3>2. ASSUME NEW e \in 1 .. Len(draft), job[i].draft # e, job[i].message # 0
          PROVE  draft'[e].message # job[i].message
      <4>1. draft[e].message # job[i].message
        BY <3>1, <3>2 DEF TaskOwns
      <4>2. CASE e = d
        BY <1>2, <1>5, <2>2, <4>1, <4>2
      <4>3. CASE e # d
        BY <1>2, <4>1, <4>3
      <4>. QED
        BY <4>2, <4>3
    <3>3. job[i].at = "save" /\ job[i].status = "ACTIVE" => draft'[job[i].draft].message # 0
      <4>1. SUFFICES ASSUME job[i].at = "save", job[i].status = "ACTIVE"
                     PROVE  draft'[job[i].draft].message # 0
        OBVIOUS
      <4>2. job[i].draft \in 1 .. Len(draft) /\ draft[job[i].draft].message # 0
        BY <3>1, <4>1 DEF TaskOwns, OnDraft, Before
      <4>. QED
        BY <1>2, <1>5, <4>2
    <3>. QED
      BY <1>2, <3>1, <3>2, <3>3 DEF TaskOwns, Aged
  <2>. QED
    BY <2>1, <2>2
<1>11. Own'
  BY <1>2, <1>9, <1>10 DEF Own
<1>12. ASSUME NEW i \in Jobs
       PROVE  Private(i)'
  <2>1. CASE i = j
    <3>1. t.at \notin {"begin", "resave"}
      BY <1>1, <1>2, IdleType DEF NextTask, Tasks
    <3>. QED
      BY <1>3, <2>1, <3>1 DEF Private
  <2>2. CASE i # j
    <3>. SUFFICES ASSUME job[i].at \in {"begin", "resave"}
                  PROVE  /\ job[i].message # 0
                         /\ shown[job[i].message] = [status |-> job[i].status, state |-> job[i].state]
                         /\ \A e \in 1 .. Len(draft) : draft'[e].message # job[i].message
                         /\ \A k \in Jobs : k # i => job'[k].message # job[i].message
      BY <1>2, <1>3, <2>2 DEF Private, Aged
    <3>1. /\ job[i].message # 0
          /\ shown[job[i].message] = [status |-> job[i].status, state |-> job[i].state]
          /\ \A e \in 1 .. Len(draft) : draft[e].message # job[i].message
          /\ \A k \in Jobs : k # i => job[k].message # job[i].message
      BY DEF ShowInv, Private
    <3>2. m # job[i].message
      BY <1>2, <2>2, <3>1
    <3>3. \A e \in 1 .. Len(draft) : draft'[e].message # job[i].message
      BY <1>2, <3>1, <3>2
    <3>4. t.message # job[i].message
      BY <1>8, <2>2, <3>1, <3>2
    <3>5. \A k \in Jobs : k # i => job'[k].message # job[i].message
      BY <1>3, <3>1, <3>4 DEF Aged
    <3>. QED
      BY <3>1, <3>3, <3>5
  <2>. QED
    BY <2>1, <2>2
<1>. QED
  BY <1>5, <1>8, <1>11, <1>12

LEMMA SaveShow ==
    ASSUME StateInv, ShowInv, NEW j \in Jobs, NEW d, NEW m, NEW t, SavedAs(j, d, m, t)
    PROVE  ShowInv'
<1>1. job \in [Jobs -> Tasks] /\ job[j] \in Tasks
  BY DEF StateInv, Types
<1>2. /\ job[j].at \in {"save", "begin", "resave"}
      /\ d = job[j].draft /\ d \in 1 .. Len(draft)
      /\ m = IF job[j].at = "save" THEN draft[d].message ELSE job[j].message
      /\ Len(draft') = Len(draft)
      /\ draft'[d] = [status |-> job[j].status, state |-> job[j].state, message |-> m]
      /\ \A e \in 1 .. Len(draft) : e # d => draft'[e] = draft[e]
      /\ NextTask(job[j], m, t) /\ shown' = shown /\ published' = published
      /\ stale' = (IF job[j].fresh THEN stale ELSE stale \cup {"draft"})
  BY DEF SavedAs
<1>3. /\ job'[j] = t
      /\ \A i \in Jobs : i # j =>
            /\ Aged(job[i], job'[i])
            /\ job'[i].fresh => job'[i] = job[i] /\ (job[i] = Idle \/ job[i].draft # d)
            /\ job[i].draft # d => job'[i] = job[i]
  BY <1>2 DEF SavedAs, Wrotes
<1>4. /\ Own' /\ \A i \in Jobs : Private(i)'
      /\ job[j].at \in {"begin", "resave"} =>
            m # 0 /\ shown[m] = [status |-> job[j].status, state |-> job[j].state]
  BY SaveOwn
<1>5. job[j].fresh => draft[d].status # "CANCELLED"
  BY <1>2 DEF ShowInv, Knows, Before, After, Owing
<1>6. Alone'
  <2>. SUFFICES ASSUME stale' \cap {"start", "draft"} = {}
                PROVE  /\ \A e, f \in Live' : e = f
                       /\ \A i \in Jobs : job'[i].at = "create" /\ job'[i].fresh => Live' = {}
    BY DEF Alone
  <2>1. job[j].fresh /\ stale \cap {"start", "draft"} = {}
    BY <1>2
  <2>2. /\ \A e, f \in Live : e = f
        /\ \A i \in Jobs : job[i].at = "create" /\ job[i].fresh => Live = {}
    BY <2>1 DEF ShowInv, Alone
  <2>3. Live' \subseteq Live
    <3>1. draft[d].status \in ACTIVE_STATUSES
      <4>1. draft[d].status \in Statuses
        BY <1>2, RowType DEF StateInv
      <4>. QED
        BY <1>5, <2>1, <4>1 DEF Statuses, ACTIVE_STATUSES
    <3>. QED
      BY <1>2, <3>1 DEF Live
  <2>4. t.at # "create"
    BY <1>1, <1>2, IdleType DEF NextTask, Tasks
  <2>5. \A i \in Jobs : job'[i].at = "create" /\ job'[i].fresh => Live = {}
    BY <1>3, <2>2, <2>4
  <2>. QED
    BY <2>2, <2>3, <2>5
<1>7. Paid'
  <2>. SUFFICES ASSUME stale' = {}
                PROVE  /\ \A i \in Jobs : job'[i].at = "delete" =>
                              draft'[job'[i].draft].status = "CANCELLED"
                       /\ \A e \in 1 .. Len(draft) : MessagePaid(e)' /\ TeamsPaid(e)'
    BY <1>2 DEF Paid
  <2>1. job[j].fresh /\ stale = {} /\ Knows(job[j])
    BY <1>2 DEF ShowInv
  <2>2. /\ \A i \in Jobs : job[i].at = "delete" => draft[job[i].draft].status = "CANCELLED"
        /\ \A e \in 1 .. Len(draft) : MessagePaid(e) /\ TeamsPaid(e)
    BY <2>1 DEF ShowInv, Paid
  <2>3. ASSUME NEW i \in Jobs, job'[i].at = "delete"
        PROVE  draft'[job'[i].draft].status = "CANCELLED"
    <3>1. CASE i = j
      <4>1. t.draft = d /\ job[j].status = "CANCELLED"
        BY <1>1, <1>2, <1>3, <2>3, <3>1, IdleType DEF NextTask, Tasks
      <4>. QED
        BY <1>2, <1>3, <3>1, <4>1
    <3>2. CASE i # j
      <4>1. job[i].at = "delete" /\ job'[i].draft = job[i].draft
        BY <1>3, <2>3, <3>2 DEF Aged
      <4>2. job[i].draft \in 1 .. Len(draft) /\ draft[job[i].draft].status = "CANCELLED"
        BY <2>2, <4>1 DEF ShowInv, Own, TaskOwns, OnDraft
      <4>. QED
        BY <1>2, <1>5, <2>1, <4>1, <4>2
    <3>. QED
      BY <3>1, <3>2
  <2>4. ASSUME NEW e \in 1 .. Len(draft), e # d
        PROVE  MessagePaid(e)' /\ TeamsPaid(e)'
    <3>1. draft'[e] = draft[e] /\ \A i \in Jobs : job[i].draft = e => job'[i] = job[i]
      BY <1>2, <1>3, <2>4
    <3>2. MessagePaid(e)'
      BY <1>2, <2>2, <3>1 DEF MessagePaid, Owes, Of
    <3>3. TeamsPaid(e)'
      BY <1>2, <2>2, <3>1 DEF TeamsPaid, Owes, Of
    <3>. QED
      BY <3>2, <3>3
  <2>5. MessagePaid(d)'
    <3>. SUFFICES ASSUME job[j].status = "ACTIVE"
                  PROVE  \/ shown[m] = [status |-> "ACTIVE", state |-> job[j].state]
                         \/ \E i \in Jobs : Owes(i, d, Owing)'
      BY <1>2 DEF MessagePaid, Of
    <3>1. CASE job[j].at = "save"
      <4>1. job[j].live /\ draft[d].status = "ACTIVE"
        BY <1>2, <2>1, <3>1 DEF Knows
      <4>2. m # 0
        BY <1>2, <3>1, <4>1 DEF ShowInv, Own, RowOwns
      <4>3. t = [job[j] EXCEPT !.message = m, !.fresh = TRUE, !.at = "live"]
        BY <1>2, <3>1, <4>1, <4>2 DEF NextTask
      <4>4. t.at = "live" /\ t.fresh /\ t.draft = d
        BY <1>1, <1>2, <4>3 DEF Tasks
      <4>. QED
        BY <1>3, <4>4 DEF Owes, Owing
    <3>2. CASE job[j].at # "save"
      BY <1>2, <1>4, <3>2
    <3>. QED
      BY <3>1, <3>2
  <2>6. TeamsPaid(d)'
    <3>1. ASSUME job[j].status = "SETUP"
          PROVE  published[d] = None
      <4>1. draft[d].status = "SETUP"
        BY <1>2, <2>1, <3>1 DEF Knows, Before, After, Owing
      <4>. QED
        BY <1>2, <2>2, <4>1 DEF TeamsPaid
    <3>2. ASSUME published[d] # None, job[j].status # "CANCELLED"
          PROVE  \E i \in Jobs : (job[i].refresh /\ Owes(i, d, After))'
      <4>1. draft[d].status # "SETUP"
        BY <1>2, <2>2, <3>2 DEF TeamsPaid
      <4>2. job[j].refresh
        BY <1>2, <2>1, <3>2, <4>1 DEF Knows, Before, Owing, ShowInv, Own, TaskOwns
      <4>3. \/ t = [job[j] EXCEPT !.message = m, !.fresh = TRUE, !.at = "live"]
            \/ t = [job[j] EXCEPT !.message = m, !.fresh = TRUE, !.at = "refresh"]
        BY <1>2, <3>2, <4>2 DEF NextTask
      <4>4. t.at \in After /\ t.refresh /\ t.fresh /\ t.draft = d
        BY <1>1, <1>2, <4>2, <4>3 DEF Tasks, After, Owing
      <4>. QED
        BY <1>3, <4>4 DEF Owes
    <3>. QED
      BY <1>2, <3>1, <3>2 DEF TeamsPaid
  <2>. QED
    BY <2>3, <2>4, <2>5, <2>6
<1>8. ASSUME NEW i \in Jobs, job'[i].fresh
      PROVE  Knows(job[i])'
  <2>1. CASE i = j
    <3>1. \/ t.at \in {"idle", "delete"}
          \/ /\ t.at \in {"live", "refresh"} /\ t.draft = d /\ t.status = job[j].status
             /\ t.status # "CANCELLED" /\ t.state = job[j].state /\ t.message = m
      BY ZenonT(40), <1>1, <1>2, IdleType DEF NextTask, Tasks
    <3>. QED
      BY <1>2, <1>3, <2>1, <3>1 DEF Knows, Before, After, Owing
  <2>2. CASE i # j
    <3>1. job'[i] = job[i] /\ Knows(job[i]) /\ (job[i] = Idle \/ job[i].draft # d)
      BY <1>3, <1>8, <2>2 DEF ShowInv
    <3>2. CASE job[i].at \in {"idle", "create", "delete"}
      BY <3>1, <3>2 DEF Knows, Before, After, Owing
    <3>3. CASE job[i].at \notin {"idle", "create", "delete"}
      <4>1. job[i].at \in OnDraft
        BY <1>1, <3>3 DEF Tasks, Steps, OnDraft, Before, After, Owing
      <4>2. job[i].draft \in 1 .. Len(draft) /\ job[i].draft # d
        BY <3>1, <3>3, <4>1, IdleType DEF ShowInv, Own, TaskOwns
      <4>. QED
        BY <1>2, <3>1, <4>2 DEF Knows
    <3>. QED
      BY <3>2, <3>3
  <2>. QED
    BY <2>1, <2>2
<1>. QED
  BY <1>4, <1>6, <1>7, <1>8 DEF ShowInv

-----------------------------------------------------------------------------
(* A handler does something else than saving.                                *)

Works(j, t) ==
    /\ job[j] \in Tasks /\ t \in Tasks /\ job[j].at \notin {"idle", "create"}
    /\ job' \in [Jobs -> Tasks] /\ job'[j] = t /\ \A i \in Jobs : i # j => job'[i] = job[i]
    /\ draft' = draft /\ edits' = edits /\ plan' = plan
    /\ Len(shown) \in Nat /\ Len(shown') \in Nat /\ Len(shown) <= Len(shown')
    /\ stale \subseteq stale' /\ t.at \notin {"create", "delete"}
    /\ t = Idle \/ /\ t.at \in OnDraft /\ t.draft = job[j].draft /\ t.status = job[j].status
                   /\ t.state = job[j].state /\ t.live = job[j].live
                   /\ t.refresh = job[j].refresh /\ t.fresh = job[j].fresh
Draws ==
    /\ shown' \in Seq(Shows \cup {None}) /\ Len(shown') <= MaxMessages
    /\ published' \in Seq(Seq(Teams) \cup {None}) /\ Len(published') = Len(draft)
    /\ stale' \subseteq {"start", "draft", "message", "teams", "failed"}

LEMMA WorksState ==
    ASSUME StateInv, NEW j \in Jobs, NEW t, Works(j, t), Draws
    PROVE  StateInv'
<1>1. Types'
  BY DEF StateInv, Types, Works, Draws
<1>2. RowsSound'
  BY DEF StateInv, RowsSound, Works, Of
<1>3. TasksSound'
  <2>. SUFFICES ASSUME NEW i \in Jobs, job'[i].at \notin {"idle", "create"}
                PROVE  Sound(job'[i].status, job'[i].state)
    BY DEF TasksSound
  <2>1. CASE i = j
    BY <2>1, IdleType DEF StateInv, TasksSound, Works
  <2>2. CASE i # j
    BY <2>2 DEF StateInv, TasksSound, Works
  <2>. QED
    BY <2>1, <2>2
<1>. QED
  BY <1>1, <1>2, <1>3 DEF StateInv

(* Messages that nobody else knows of stay so.                               *)
Spares(j, t) ==
    \A i \in Jobs :
        i # j /\ job[i].at \in {"begin", "resave"} =>
            t.message # job[i].message /\ shown'[job[i].message] = shown[job[i].message]

LEMMA WorksShow ==
    ASSUME StateInv, ShowInv, NEW j \in Jobs, NEW t, Works(j, t), Spares(j, t),
           TaskOwns(t)', Private(j)', t.fresh => Knows(t)',
           stale' = {} => \A d \in 1 .. Len(draft) : MessagePaid(d)' /\ TeamsPaid(d)'
    PROVE  ShowInv'
<1>1. /\ job'[j] = t /\ \A i \in Jobs : i # j => job'[i] = job[i]
      /\ draft' = draft /\ stale \subseteq stale' /\ t.at \notin {"create", "delete"}
      /\ Len(shown) \in Nat /\ Len(shown') \in Nat /\ Len(shown) <= Len(shown')
  BY DEF Works
<1>2. Own'
  <2>1. \A d \in 1 .. Len(draft) : RowOwns(d)'
    BY <1>1 DEF ShowInv, Own, RowOwns
  <2>2. \A i \in Jobs : i # j => TaskOwns(job[i])'
    BY <1>1 DEF ShowInv, Own, TaskOwns
  <2>. QED
    BY <1>1, <2>1, <2>2 DEF Own
<1>3. Alone'
  <2>1. Live' = Live
    BY <1>1 DEF Live
  <2>. QED
    BY <1>1, <2>1 DEF ShowInv, Alone
<1>4. Paid'
  <2>. SUFFICES ASSUME stale' = {}
                PROVE  \A i \in Jobs : job'[i].at = "delete" =>
                           draft'[job'[i].draft].status = "CANCELLED"
    BY <1>1 DEF Paid
  <2>1. stale = {}
    BY <1>1
  <2>. QED
    BY <1>1, <2>1 DEF ShowInv, Paid
<1>5. ASSUME NEW i \in Jobs
      PROVE  Private(i)'
  <2>1. CASE i # j
    BY <1>1, <2>1 DEF ShowInv, Private, Spares
  <2>. QED
    BY <2>1
<1>6. ASSUME NEW i \in Jobs, job'[i].fresh
      PROVE  Knows(job[i])'
  <2>1. CASE i = j
    BY <1>1, <1>6, <2>1 DEF Knows
  <2>2. CASE i # j
    BY <1>1, <1>6, <2>2 DEF ShowInv, Knows
  <2>. QED
    BY <2>1, <2>2
<1>. QED
  BY <1>2, <1>3, <1>4, <1>5, <1>6 DEF ShowInv

(* What a step of the kind has at hand: the handler owns its messages.       *)
LEMMA WorkerIs ==
    ASSUME StateInv, ShowInv, NEW j \in Jobs, job[j].at \in OnDraft
    PROVE  /\ job[j] \in Tasks /\ job \in [Jobs -> Tasks]
           /\ job[j].draft \in 1 .. Len(draft) /\ job[j].message \in 0 .. Len(shown)
           /\ TaskOwns(job[j]) /\ Private(j) /\ Len(shown) \in Nat /\ Len(shown) <= MaxMessages
           /\ job[j].at \notin {"idle", "create"} /\ MaxMessages \in Nat
<1>1. job[j] \in Tasks /\ job \in [Jobs -> Tasks] /\ Len(shown) \in Nat /\ Len(shown) <= MaxMessages
  BY LenProperties DEF StateInv, Types
<1>2. TaskOwns(job[j]) /\ Private(j)
  BY DEF ShowInv, Own
<1>3. job[j].draft \in 1 .. Len(draft) /\ job[j].message \in 0 .. Len(shown)
  BY <1>2 DEF TaskOwns
<1>4. job[j].at \notin {"idle", "create"}
  BY DEF OnDraft, Before, After, Owing
<1>. QED
  BY <1>1, <1>2, <1>3, <1>4, CaptainDraftAssumption

(* Whoever is about to draw the teams, or is done.                           *)
LEMMA RefreshingIs ==
    ASSUME NEW x \in Tasks, NEW t, t = Refreshing(x)
    PROVE  /\ t \in Tasks /\ t.message \in {0, x.message}
           /\ \/ ~x.refresh /\ t = Idle
              \/ /\ x.refresh /\ t.at = "refresh" /\ t.draft = x.draft /\ t.status = x.status
                 /\ t.state = x.state /\ t.live = x.live /\ t.refresh = x.refresh
                 /\ t.fresh = x.fresh /\ t.message = x.message
<1>1. "refresh" \in Steps
  BY DEF Steps
<1>2. CASE x.refresh
  BY <1>1, <1>2 DEF Refreshing, Tasks
<1>3. CASE ~x.refresh
  BY <1>3, IdleType DEF Refreshing
<1>. QED
  BY <1>2, <1>3

(* The messages of rows, and the debts of other handlers, as they were.      *)
LEMMA OthersPaid ==
    ASSUME StateInv, ShowInv, NEW j \in Jobs, NEW t, Works(j, t), stale' = {},
           NEW e \in 1 .. Len(draft),
           \/ e # job[j].draft
           \/ /\ job[j].at \in Owing => t.at \in Owing
              /\ job[j].at \in After /\ job[j].refresh => t.at \in After
    PROVE  /\ shown'[draft[e].message] = shown[draft[e].message] => MessagePaid(e)'
           /\ published'[e] = published[e] => TeamsPaid(e)'
<1>1. /\ job'[j] = t /\ \A i \in Jobs : i # j => job'[i] = job[i]
      /\ draft' = draft /\ stale = {}
      /\ t = Idle \/ /\ t.draft = job[j].draft /\ t.refresh = job[j].refresh
                     /\ t.fresh = job[j].fresh
  BY DEF Works
<1>2. MessagePaid(e) /\ TeamsPaid(e)
  BY <1>1 DEF ShowInv, Paid
<1>3. \A i \in Jobs : Owes(i, e, Owing) => Owes(i, e, Owing)'
  BY <1>1, IdleType DEF Owes, Owing
<1>4. \A i \in Jobs : job[i].refresh /\ Owes(i, e, After) => (job[i].refresh /\ Owes(i, e, After))'
  BY <1>1, IdleType DEF Owes, After, Owing
<1>5. shown'[draft[e].message] = shown[draft[e].message] => MessagePaid(e)'
  BY <1>1, <1>2, <1>3 DEF MessagePaid, Of
<1>6. published'[e] = published[e] => TeamsPaid(e)'
  BY <1>1, <1>2, <1>4 DEF TeamsPaid, Of
<1>. QED
  BY <1>5, <1>6

LEMMA ExceptIs ==
    ASSUME NEW S, NEW q \in Seq(S), NEW k \in 1 .. Len(q), NEW e \in S, NEW z,
           z = [q EXCEPT ![k] = e]
    PROVE  /\ z \in Seq(S) /\ Len(z) = Len(q) /\ z[k] = e
           /\ \A l \in 1 .. Len(q) : l # k => z[l] = q[l]
BY ExceptSeq

LEMMA AppendShown ==
    ASSUME StateInv, NEW status \in Statuses, NEW s \in States, Len(shown) < MaxMessages,
           shown' = Append(shown, [status |-> status, state |-> s])
    PROVE  /\ shown' \in Seq(Shows \cup {None}) /\ Len(shown') = Len(shown) + 1
           /\ Len(shown) \in Nat /\ Len(shown') <= MaxMessages
           /\ \A k \in 1 .. Len(shown) : shown'[k] = shown[k]
           /\ shown'[Len(shown')] = [status |-> status, state |-> s]
<1>1. shown \in Seq(Shows \cup {None})
  BY DEF StateInv, Types
<1>2. [status |-> status, state |-> s] \in Shows \cup {None}
  BY DEF Shows
<1>3. Len(shown) \in Nat /\ MaxMessages \in Nat
  BY <1>1, LenProperties, CaptainDraftAssumption
<1>. QED
  BY <1>1, <1>2, <1>3, AppendProperties

(* A message is posted, whose number the handler's next step is to save.     *)
LEMMA PostedShow ==
    ASSUME StateInv, ShowInv, NEW j \in Jobs, NEW at, Len(shown) < MaxMessages,
           \/ job[j].at = "post" /\ at = "begin" /\ stale' = stale
           \/ job[j].at = "repost" /\ at = "resave" /\ Noting(j, "message"),
           shown' = Append(shown, buildLiveDraftMessage(j)),
           Goes(j, [job[j] EXCEPT !.at = at, !.message = Len(shown')]),
           UNCHANGED <<draft, published, edits, plan>>
    PROVE  StateInv' /\ ShowInv'
<1>1. job[j].at \in OnDraft
  BY DEF OnDraft, Before, After, Owing
<1>2. /\ job[j] \in Tasks /\ job \in [Jobs -> Tasks] /\ job[j].at \notin {"idle", "create"}
      /\ job[j].draft \in 1 .. Len(draft) /\ TaskOwns(job[j])
  BY <1>1, WorkerIs
<1>3. PICK x : x = job[j]
  OBVIOUS
<1>4. /\ shown' \in Seq(Shows \cup {None}) /\ Len(shown') = Len(shown) + 1
      /\ Len(shown) \in Nat /\ Len(shown') <= MaxMessages
      /\ \A k \in 1 .. Len(shown) : shown'[k] = shown[k]
      /\ shown'[Len(shown')] = [status |-> x.status, state |-> x.state]
  <2>1. x.status \in Statuses /\ x.state \in States
    BY <1>2, <1>3 DEF Tasks
  <2>. QED
    BY <1>3, <2>1, AppendShown DEF buildLiveDraftMessage
<1>5. PICK n : n = Len(shown')
  OBVIOUS
<1>6. PICK t : t = [x EXCEPT !.at = at, !.message = n]
  OBVIOUS
<1>7. /\ t \in Tasks /\ t.at = at /\ t.message = n /\ t.draft = x.draft /\ t.status = x.status
      /\ t.state = x.state /\ t.live = x.live /\ t.refresh = x.refresh /\ t.fresh = x.fresh
  <2>1. at \in Steps /\ n \in Nat
    BY <1>4, <1>5 DEF Steps
  <2>. QED
    BY <1>2, <1>3, <1>6, <2>1 DEF Tasks
<1>8. /\ job' \in [Jobs -> Tasks] /\ job'[j] = t /\ \A i \in Jobs : i # j => job'[i] = job[i]
      /\ draft' = draft /\ published' = published /\ edits' = edits /\ plan' = plan
  BY <1>2, <1>3, <1>5, <1>6, <1>7 DEF Goes
<1>9. stale' \subseteq stale \cup {"message"} /\ stale \subseteq stale'
  BY DEF Noting
<1>10. Works(j, t)
  BY <1>2, <1>3, <1>4, <1>7, <1>8, <1>9 DEF Works, OnDraft, Before, After, Owing
<1>11. Draws
  BY <1>4, <1>8, <1>9 DEF Draws, StateInv, Types
<1>12. \A i \in Jobs : job[i].message \in 0 .. Len(shown)
  BY DEF ShowInv, Own, TaskOwns
<1>13. \A e \in 1 .. Len(draft) : draft[e].message \in 0 .. Len(shown)
  BY DEF ShowInv, Own, RowOwns
<1>14. n # 0 /\ \A k \in 0 .. Len(shown) : k # n
  BY <1>4, <1>5
<1>15. Spares(j, t)
  <2>1. ASSUME NEW i \in Jobs, i # j, job[i].at \in {"begin", "resave"}
        PROVE  t.message # job[i].message /\ shown'[job[i].message] = shown[job[i].message]
    <3>1. job[i].message # 0
      BY <2>1 DEF ShowInv, Private
    <3>. QED
      BY <1>4, <1>7, <1>12, <1>14, <3>1
  <2>. QED
    BY <2>1 DEF Spares
<1>16. TaskOwns(t)'
  BY <1>2, <1>3, <1>4, <1>5, <1>7, <1>8, <1>13, <1>14
     DEF TaskOwns, OnDraft, Before, After, Owing
<1>17. Private(j)'
  BY <1>4, <1>5, <1>7, <1>8, <1>12, <1>13, <1>14 DEF Private
<1>18. t.fresh => Knows(t)'
  <2>1. x.fresh => Knows(x)
    BY <1>3 DEF ShowInv
  <2>2. CASE x.at = "post" /\ t.at = "begin"
    BY <1>7, <1>8, <2>1, <2>2 DEF Knows, Before, After, Owing
  <2>3. CASE x.at = "repost" /\ t.at = "resave"
    BY <1>7, <1>8, <2>1, <2>3 DEF Knows, Before, After, Owing
  <2>. QED
    BY <1>3, <1>7, <2>2, <2>3
<1>19. ASSUME stale' = {}, NEW e \in 1 .. Len(draft)
       PROVE  MessagePaid(e)' /\ TeamsPaid(e)'
  <2>1. /\ job[j].at \in Owing => t.at \in Owing
        /\ job[j].at \in After /\ job[j].refresh => t.at \in After
    BY <1>7 DEF After, Owing
  <2>2. published'[e] = published[e]
    BY <1>8
  <2>3. TeamsPaid(e)'
    BY <1>10, <1>19, <2>1, <2>2, OthersPaid
  <2>4. CASE draft[e].message = 0
    <3>1. draft[e].status # "ACTIVE"
      BY <2>4 DEF ShowInv, Own, RowOwns
    <3>. QED
      BY <1>8, <2>3, <3>1 DEF MessagePaid
  <2>5. CASE draft[e].message # 0
    <3>1. shown'[draft[e].message] = shown[draft[e].message]
      BY <1>4, <1>13, <2>5
    <3>. QED
      BY <1>10, <1>19, <2>1, <2>3, <3>1, OthersPaid
  <2>. QED
    BY <2>4, <2>5
<1>. QED
  BY <1>10, <1>11, <1>15, <1>16, <1>17, <1>18, <1>19, WorksState, WorksShow

LEMMA PostLiveShow ==
    ASSUME StateInv, ShowInv, NEW j \in Jobs, PostLive(j)
    PROVE  StateInv' /\ ShowInv'
BY PostedShow DEF PostLive

(* The live message is edited.                                               *)
LEMMA EditedShow ==
    ASSUME StateInv, ShowInv, NEW j \in Jobs, job[j].at = "live",
           shown' = [shown EXCEPT ![job[j].message] = buildLiveDraftMessage(j)],
           Noting(j, "message"), Goes(j, Refreshing(job[j])),
           UNCHANGED <<draft, published, edits, plan>>
    PROVE  StateInv' /\ ShowInv'
<1>1. job[j].at \in OnDraft
  BY DEF OnDraft, After, Owing
<1>2. PICK x : x = job[j]
  OBVIOUS
<1>3. /\ x \in Tasks /\ job \in [Jobs -> Tasks] /\ x.draft \in 1 .. Len(draft)
      /\ TaskOwns(x) /\ x.message \in 1 .. Len(shown) /\ x.refresh
      /\ Len(shown) \in Nat /\ Len(shown) <= MaxMessages
  <2>1. x.message # 0 /\ x.refresh
    BY <1>2 DEF ShowInv, Own, TaskOwns, Owing
  <2>. QED
    BY <1>1, <1>2, <2>1, WorkerIs
<1>4. PICK t : t = Refreshing(x)
  OBVIOUS
<1>5. /\ t \in Tasks /\ t.at = "refresh" /\ t.draft = x.draft /\ t.status = x.status
      /\ t.state = x.state /\ t.live = x.live /\ t.refresh = x.refresh /\ t.fresh = x.fresh
      /\ t.message = x.message
  BY ZenonT(40), <1>3, <1>4, RefreshingIs
<1>6. /\ job' \in [Jobs -> Tasks] /\ job'[j] = t /\ \A i \in Jobs : i # j => job'[i] = job[i]
      /\ draft' = draft /\ published' = published /\ edits' = edits /\ plan' = plan
  BY <1>2, <1>3, <1>4, <1>5 DEF Goes
<1>7. stale' = (IF x.fresh THEN stale ELSE stale \cup {"message"})
  BY <1>2 DEF Noting
<1>8. /\ shown' \in Seq(Shows \cup {None}) /\ Len(shown') = Len(shown)
      /\ shown'[x.message] = [status |-> x.status, state |-> x.state]
      /\ \A k \in 1 .. Len(shown) : k # x.message => shown'[k] = shown[k]
  <2>1. shown \in Seq(Shows \cup {None})
    BY DEF StateInv, Types
  <2>2. [status |-> x.status, state |-> x.state] \in Shows \cup {None}
    BY <1>3 DEF Tasks, Shows
  <2>3. PICK now, k : now = [status |-> x.status, state |-> x.state] /\ k = x.message
    OBVIOUS
  <2>4. shown' = [shown EXCEPT ![k] = now]
    BY <1>2, <2>3 DEF buildLiveDraftMessage
  <2>5. k \in 1 .. Len(shown) /\ now \in Shows \cup {None}
    BY <1>3, <2>2, <2>3
  <2>6. /\ shown' \in Seq(Shows \cup {None}) /\ Len(shown') = Len(shown) /\ shown'[k] = now
        /\ \A l \in 1 .. Len(shown) : l # k => shown'[l] = shown[l]
    <3>1. PICK S, q, z : S = Shows \cup {None} /\ q = shown /\ z = shown'
      OBVIOUS
    <3>2. q \in Seq(S) /\ k \in 1 .. Len(q) /\ now \in S /\ z = [q EXCEPT ![k] = now]
      BY <2>1, <2>4, <2>5, <3>1
    <3>3. /\ z \in Seq(S) /\ Len(z) = Len(q) /\ z[k] = now
          /\ \A l \in 1 .. Len(q) : l # k => z[l] = q[l]
      BY <3>2, ExceptIs
    <3>. QED
      BY <3>1, <3>3
  <2>. QED
    BY <2>3, <2>6
<1>9. Works(j, t)
  BY <1>1, <1>2, <1>3, <1>5, <1>6, <1>7, <1>8 DEF Works, OnDraft, After
<1>10. Draws
  BY <1>3, <1>6, <1>7, <1>8 DEF Draws, StateInv, Types
<1>11. Spares(j, t)
  <2>1. ASSUME NEW i \in Jobs, i # j, job[i].at \in {"begin", "resave"}
        PROVE  t.message # job[i].message /\ shown'[job[i].message] = shown[job[i].message]
    <3>1. job[i].message # 0 /\ job[i].message # x.message /\ job[i].message \in 0 .. Len(shown)
      BY <1>2, <2>1 DEF ShowInv, Private, Own, TaskOwns
    <3>. QED
      BY <1>3, <1>5, <1>8, <3>1
  <2>. QED
    BY <2>1 DEF Spares
<1>12. TaskOwns(t)'
  BY <1>3, <1>5, <1>6, <1>8 DEF TaskOwns, OnDraft, After, Owing
<1>13. Private(j)'
  BY <1>5, <1>6 DEF Private
<1>14. x.fresh => /\ draft[x.draft].status # "CANCELLED" /\ draft[x.draft].status = x.status
                  /\ draft[x.draft].state = x.state /\ draft[x.draft].message = x.message
  BY <1>2 DEF ShowInv, Knows, After, Owing
<1>15. t.fresh => Knows(t)'
  BY <1>5, <1>6, <1>14 DEF Knows, Before, After, Owing
<1>16. ASSUME stale' = {}, NEW e \in 1 .. Len(draft)
       PROVE  MessagePaid(e)' /\ TeamsPaid(e)'
  <2>1. x.fresh
    BY <1>7, <1>16
  <2>2. TeamsPaid(e)'
    <3>1. t.at \in After /\ published'[e] = published[e]
      BY <1>5, <1>6 DEF After
    <3>2. CASE e # x.draft
      BY <1>2, <1>9, <1>16, <3>1, <3>2, OthersPaid
    <3>3. CASE e = x.draft
      <4>1. stale = {} /\ TeamsPaid(e)
        BY <1>7, <1>16 DEF ShowInv, Paid
      <4>2. job'[j].refresh /\ Owes(j, e, After)'
        BY <1>3, <1>5, <1>6, <2>1, <3>1, <3>3 DEF Owes
      <4>. QED
        BY <1>6, <4>1, <4>2 DEF TeamsPaid
    <3>. QED
      BY <3>2, <3>3
  <2>3. CASE e = x.draft
    <3>1. MessagePaid(e)'
      BY <1>6, <1>8, <1>14, <2>1, <2>3 DEF MessagePaid, Of
    <3>. QED
      BY <2>2, <3>1
  <2>4. CASE e # x.draft
    <3>1. draft[e].message # x.message /\ draft[e].message \in 0 .. Len(shown)
      BY <1>3, <2>4 DEF TaskOwns, ShowInv, Own, RowOwns
    <3>2. CASE draft[e].message = 0
      <4>1. draft[e].status # "ACTIVE"
        BY <3>2 DEF ShowInv, Own, RowOwns
      <4>. QED
        BY <1>6, <2>2, <4>1 DEF MessagePaid
    <3>3. CASE draft[e].message # 0
      <4>1. shown'[draft[e].message] = shown[draft[e].message]
        BY <1>3, <1>8, <3>1, <3>3
      <4>. QED
        BY <1>2, <1>9, <1>16, <2>2, <2>4, <4>1, OthersPaid
    <3>. QED
      BY <3>2, <3>3
  <2>. QED
    BY <2>3, <2>4
<1>. QED
  BY <1>9, <1>10, <1>11, <1>12, <1>13, <1>15, <1>16, WorksState, WorksShow

(* A handler goes on or is done; it may have touched its own message.        *)
LEMMA StandsShow ==
    ASSUME StateInv, ShowInv, NEW j \in Jobs, job[j].at \in After \cup {"publish", "delete"},
           NEW t \in Tasks, Goes(j, t),
           \/ t = Idle
           \/ /\ job[j].at \in After /\ t.at \in After \ {"live", "resave"}
              /\ t.draft = job[j].draft /\ t.status = job[j].status /\ t.state = job[j].state
              /\ t.live = job[j].live /\ t.refresh = job[j].refresh /\ t.fresh = job[j].fresh
              /\ t.message = job[j].message /\ t.refresh,
           UNCHANGED <<draft, edits, plan>>, Draws, Len(shown') = Len(shown),
           \A k \in 1 .. Len(shown) : k # job[j].message => shown'[k] = shown[k],
           stale \subseteq stale',
           stale' = {} => \A e \in 1 .. Len(draft) : MessagePaid(e)' /\ TeamsPaid(e)'
    PROVE  StateInv' /\ ShowInv'
<1>1. job[j].at \in OnDraft
  BY DEF OnDraft
<1>2. PICK x : x = job[j]
  OBVIOUS
<1>3. /\ x \in Tasks /\ job \in [Jobs -> Tasks] /\ x.draft \in 1 .. Len(draft)
      /\ TaskOwns(x) /\ x.message \in 0 .. Len(shown) /\ Len(shown) \in Nat
      /\ x.at \notin {"idle", "create"}
  BY <1>1, <1>2, WorkerIs
<1>4. /\ job' \in [Jobs -> Tasks] /\ job'[j] = t /\ \A i \in Jobs : i # j => job'[i] = job[i]
      /\ draft' = draft /\ edits' = edits /\ plan' = plan
  BY <1>3 DEF Goes
<1>5. Works(j, t)
  <2>1. t.at \notin {"create", "delete"}
    BY IdleType DEF After, Owing
  <2>2. t # Idle => t.at \in OnDraft
    BY DEF OnDraft
  <2>. QED
    BY <1>2, <1>3, <1>4, <2>1, <2>2 DEF Works
<1>6. t.message \in {0, x.message} /\ t.at \notin {"begin", "resave", "live", "save"}
  BY <1>2, IdleType DEF After, Owing
<1>7. Spares(j, t)
  <2>1. ASSUME NEW i \in Jobs, i # j, job[i].at \in {"begin", "resave"}
        PROVE  t.message # job[i].message /\ shown'[job[i].message] = shown[job[i].message]
    <3>1. job[i].message # 0 /\ job[i].message # x.message /\ job[i].message \in 0 .. Len(shown)
      BY <1>2, <2>1 DEF ShowInv, Private, Own, TaskOwns
    <3>. QED
      BY <1>2, <1>3, <1>6, <3>1
  <2>. QED
    BY <2>1 DEF Spares
<1>8. TaskOwns(t)'
  <2>1. CASE t = Idle
    <3>1. Idle.live = FALSE
      BY DEF Idle
    <3>. QED
      BY <1>3, <1>4, <2>1, <3>1, IdleType DEF TaskOwns, OnDraft, Before, After, Owing
  <2>2. CASE t # Idle
    <3>1. t.at \in OnDraft
      BY <2>2 DEF OnDraft
    <3>. QED
      BY <1>2, <1>3, <1>4, <1>6, <2>2, <3>1 DEF TaskOwns
  <2>. QED
    BY <2>1, <2>2
<1>9. Private(j)'
  BY <1>4, <1>6 DEF Private
<1>10. t.fresh => Knows(t)'
  <2>1. CASE t = Idle
    BY <2>1, IdleType DEF Knows, Before, After, Owing
  <2>2. CASE t # Idle
    <3>1. x.fresh => /\ draft[x.draft].status # "CANCELLED" /\ draft[x.draft].status = x.status
                     /\ draft[x.draft].state = x.state
      BY <1>2, <2>2 DEF ShowInv, Knows
    <3>2. t.at \notin {"post", "begin", "save", "live", "publish"}
      BY <2>2 DEF After, Owing
    <3>. QED
      BY <1>2, <1>4, <2>2, <3>1, <3>2 DEF Knows, Before
  <2>. QED
    BY <2>1, <2>2
<1>. QED
  BY <1>5, <1>7, <1>8, <1>9, <1>10, WorksState, WorksShow

(* With nothing written over, drawn over or left undrawn, the row is what a  *)
(* fresh handler saved.                                                      *)
LEMMA NothingStale ==
    ASSUME StateInv, ShowInv, stale = {}, NEW d \in 1 .. Len(draft)
    PROVE  /\ MessagePaid(d) /\ TeamsPaid(d)
           /\ draft[d].status = "ACTIVE" => draft[d].message \in 1 .. Len(shown)
<1>1. Len(shown) \in Nat
  BY LenProperties DEF StateInv, Types
<1>2. MessagePaid(d) /\ TeamsPaid(d)
  BY DEF ShowInv, Paid
<1>3. draft[d].status = "ACTIVE" => draft[d].message \in 1 .. Len(shown)
  BY <1>1 DEF ShowInv, Own, RowOwns
<1>. QED
  BY <1>2, <1>3

LEMMA DrawsSame ==
    ASSUME StateInv, shown' = shown, published' = published,
           stale' \subseteq stale \cup {"message", "teams", "failed"}
    PROVE  Draws
BY DEF Draws, StateInv, Types

LEMMA SyncShow ==
    ASSUME StateInv, ShowInv, NEW j \in Jobs, syncLiveDraftMessage(j)
    PROVE  StateInv' /\ ShowInv'
<1>1. CASE /\ job[j].at = "live" /\ shown[job[j].message] # None
           /\ shown' = [shown EXCEPT ![job[j].message] = buildLiveDraftMessage(j)]
           /\ Noting(j, "message") /\ Goes(j, Refreshing(job[j]))
  BY <1>1, EditedShow DEF syncLiveDraftMessage
<1>2. CASE /\ job[j].at = "live" /\ shown' = shown /\ stale' = stale
           /\ Goes(j, [job[j] EXCEPT !.at = "repost"])
  <2>1. job[j].at \in OnDraft /\ job[j].at \in After /\ job[j].at \in Owing
    BY <1>2 DEF OnDraft, After, Owing
  <2>2. PICK x : x = job[j]
    OBVIOUS
  <2>3. x \in Tasks /\ TaskOwns(x)
    BY <2>1, <2>2, WorkerIs
  <2>4. x.refresh
    BY <2>1, <2>2, <2>3 DEF TaskOwns
  <2>5. PICK t : t = [x EXCEPT !.at = "repost"]
    OBVIOUS
  <2>6. /\ t \in Tasks /\ t.at = "repost" /\ t.draft = x.draft /\ t.status = x.status
        /\ t.state = x.state /\ t.live = x.live /\ t.refresh = x.refresh /\ t.fresh = x.fresh
        /\ t.message = x.message
    <3>1. "repost" \in Steps
      BY DEF Steps
    <3>. QED
      BY <2>3, <2>5, <3>1 DEF Tasks
  <2>7. UNCHANGED <<draft, published, edits, plan>>
    BY DEF syncLiveDraftMessage
  <2>8. Draws
    BY <1>2, <2>7, DrawsSame
  <2>9. ASSUME stale' = {}, NEW e \in 1 .. Len(draft)
        PROVE  MessagePaid(e)' /\ TeamsPaid(e)'
    <3>1. MessagePaid(e) /\ TeamsPaid(e)
      BY <1>2, <2>9, NothingStale
    <3>2. job'[j] = t /\ \A i \in Jobs : i # j => job'[i] = job[i]
      BY <1>2, <2>2, <2>5 DEF Goes, StateInv, Types
    <3>3. \A i \in Jobs : Owes(i, e, Owing) => Owes(i, e, Owing)'
      BY <2>2, <2>6, <3>2 DEF Owes, Owing
    <3>4. \A i \in Jobs : job[i].refresh /\ Owes(i, e, After) =>
                              (job[i].refresh /\ Owes(i, e, After))'
      BY <2>2, <2>6, <3>2 DEF Owes, After, Owing
    <3>. QED
      BY <1>2, <2>7, <3>1, <3>3, <3>4 DEF MessagePaid, TeamsPaid, Of
  <2>10. t.at \in After \ {"live", "resave"}
    BY <2>6 DEF After, Owing
  <2>. QED
    BY ZenonT(40), <1>2, <2>1, <2>2, <2>4, <2>5, <2>6, <2>7, <2>8, <2>9, <2>10, StandsShow
<1>3. CASE /\ job[j].at = "repost" /\ Len(shown) < MaxMessages
           /\ shown' = Append(shown, buildLiveDraftMessage(j))
           /\ Noting(j, "message")
           /\ Goes(j, [job[j] EXCEPT !.at = "resave", !.message = Len(shown')])
  BY <1>3, PostedShow DEF syncLiveDraftMessage
<1>4. CASE /\ job[j].at = "repost" /\ shown' = shown /\ stale' = stale \cup {"failed"}
           /\ Goes(j, Refreshing(job[j]))
  <2>1. job[j].at \in OnDraft /\ job[j].at \in After
    BY <1>4 DEF OnDraft, After, Owing
  <2>2. PICK x, t : x = job[j] /\ t = Refreshing(x)
    OBVIOUS
  <2>3. /\ t \in Tasks
        /\ \/ t = Idle
           \/ /\ t.at = "refresh" /\ t.draft = x.draft /\ t.status = x.status
              /\ t.state = x.state /\ t.live = x.live /\ t.refresh = x.refresh
              /\ t.fresh = x.fresh /\ t.message = x.message /\ t.refresh
    <3>1. x \in Tasks
      BY <2>1, <2>2, WorkerIs
    <3>. QED
      BY <2>2, <3>1, RefreshingIs
  <2>4. UNCHANGED <<draft, published, edits, plan>>
    BY DEF syncLiveDraftMessage
  <2>5. Draws
    BY <1>4, <2>4, DrawsSame
  <2>6. "refresh" \in After \ {"live", "resave"}
    BY DEF After, Owing
  <2>7. stale' # {} /\ stale \subseteq stale'
    BY <1>4
  <2>. QED
    BY <1>4, <2>1, <2>2, <2>3, <2>4, <2>5, <2>6, <2>7, StandsShow
<1>. QED
  BY <1>1, <1>2, <1>3, <1>4 DEF syncLiveDraftMessage

(* A handler that is done leaves the debts of the others.                    *)
LEMMA DonePaid ==
    ASSUME StateInv, ShowInv, NEW j \in Jobs, Goes(j, Idle), draft' = draft, stale' = {}, stale = {},
           NEW e \in 1 .. Len(draft)
    PROVE  /\ job[j].at \notin Owing /\ shown'[draft[e].message] = shown[draft[e].message] =>
                 MessagePaid(e)'
           /\ (job[j].at \notin After \/ e # job[j].draft) /\ published'[e] = published[e] =>
                 TeamsPaid(e)'
<1>1. MessagePaid(e) /\ TeamsPaid(e)
  BY NothingStale
<1>2. \A i \in Jobs : i # j => job'[i] = job[i]
  BY DEF Goes, StateInv, Types
<1>3. job[j].at \notin Owing => \A i \in Jobs : Owes(i, e, Owing) => Owes(i, e, Owing)'
  BY <1>2 DEF Owes
<1>4. job[j].at \notin After \/ e # job[j].draft =>
         \A i \in Jobs : job[i].refresh /\ Owes(i, e, After) => (job[i].refresh /\ Owes(i, e, After))'
  BY <1>2 DEF Owes
<1>5. job[j].at \notin Owing /\ shown'[draft[e].message] = shown[draft[e].message] => MessagePaid(e)'
  BY <1>1, <1>3 DEF MessagePaid, Of
<1>6. (job[j].at \notin After \/ e # job[j].draft) /\ published'[e] = published[e] => TeamsPaid(e)'
  BY <1>1, <1>4 DEF TeamsPaid, Of
<1>. QED
  BY <1>5, <1>6

LEMMA PublishedShow ==
    ASSUME StateInv, ShowInv, NEW j \in Jobs,
           job[j].at = "publish" \/ (job[j].at = "refresh" /\ published[job[j].draft] # None),
           publishTeamRosters(j), Goes(j, Idle), UNCHANGED <<draft, shown, edits, plan>>
    PROVE  StateInv' /\ ShowInv'
<1>1. job[j].at \in OnDraft /\ job[j].at \in After \cup {"publish", "delete"} /\ job[j].at \notin Owing
  BY DEF OnDraft, After, Owing
<1>2. PICK x, d : x = job[j] /\ d = x.draft
  OBVIOUS
<1>3. x \in Tasks /\ d \in 1 .. Len(draft)
  BY <1>1, <1>2, WorkerIs
<1>4. /\ published' \in Seq(Seq(Teams) \cup {None}) /\ Len(published') = Len(draft)
      /\ published'[d] = x.state.teams
      /\ \A e \in 1 .. Len(draft) : e # d => published'[e] = published[e]
  <2>1. PICK S, q, z, teams : /\ S = Seq(Teams) \cup {None} /\ q = published /\ z = published'
                              /\ teams = x.state.teams
    OBVIOUS
  <2>2. teams \in S
    BY <1>3, <2>1 DEF Tasks, States
  <2>3. q \in Seq(S) /\ Len(q) = Len(draft)
    BY <2>1 DEF StateInv, Types
  <2>4. z = [q EXCEPT ![d] = teams]
    BY <1>2, <2>1 DEF publishTeamRosters
  <2>5. /\ z \in Seq(S) /\ Len(z) = Len(q) /\ z[d] = teams
        /\ \A e \in 1 .. Len(q) : e # d => z[e] = q[e]
    BY <1>3, <2>2, <2>3, <2>4, ExceptIs
  <2>. QED
    BY <2>1, <2>3, <2>5
<1>5. stale' = (IF x.fresh THEN stale ELSE stale \cup {"teams"})
  BY <1>2 DEF publishTeamRosters, Noting
<1>6. Draws
  BY <1>4, <1>5 DEF Draws, StateInv, Types
<1>7. ASSUME stale' = {}, NEW e \in 1 .. Len(draft)
      PROVE  MessagePaid(e)' /\ TeamsPaid(e)'
  <2>1. x.fresh /\ stale = {}
    BY <1>5, <1>7
  <2>2. MessagePaid(e)'
    BY <1>1, <1>7, <2>1, DonePaid
  <2>3. CASE e # d
    BY <1>2, <1>4, <1>7, <2>1, <2>2, <2>3, DonePaid
  <2>4. CASE e = d
    <3>1. x.state = draft[d].state /\ (x.at = "publish" => draft[d].status # "SETUP") /\ TaskOwns(x)
      BY <1>2, <2>1 DEF ShowInv, Knows, After, Own
    <3>2. draft[d].status # "SETUP"
      BY <1>2, <1>3, <2>1, <3>1, NothingStale DEF TeamsPaid
    <3>. QED
      BY <1>4, <2>2, <2>4, <3>1, <3>2 DEF TeamsPaid, Of
  <2>. QED
    BY <2>3, <2>4
<1>. QED
  BY <1>1, <1>5, <1>6, <1>7, IdleType, StandsShow

LEMMA RefreshShow ==
    ASSUME StateInv, ShowInv, NEW j \in Jobs, refreshPublishedTeamsIfAny(j)
    PROVE  StateInv' /\ ShowInv'
<1>1. /\ job[j].at = "refresh" /\ Goes(j, Idle) /\ UNCHANGED <<draft, shown, edits, plan>>
      /\ \/ published[job[j].draft] # None /\ publishTeamRosters(j)
         \/ published[job[j].draft] = None /\ UNCHANGED <<published, stale>>
         \/ published' = published /\ stale' = stale \cup {"failed"}
  BY DEF refreshPublishedTeamsIfAny
<1>2. job[j].at \in After \cup {"publish", "delete"} /\ job[j].at \notin Owing
  BY <1>1 DEF After, Owing
<1>3. CASE published[job[j].draft] # None /\ publishTeamRosters(j)
  BY <1>1, <1>3, PublishedShow
<1>4. CASE published[job[j].draft] = None /\ UNCHANGED <<published, stale>>
  <2>1. Draws
    BY <1>1, <1>4, DrawsSame
  <2>2. ASSUME stale' = {}, NEW e \in 1 .. Len(draft)
        PROVE  MessagePaid(e)' /\ TeamsPaid(e)'
    <3>1. stale = {}
      BY <1>4, <2>2
    <3>2. CASE e # job[j].draft
      BY <1>1, <1>2, <1>4, <2>2, <3>1, <3>2, DonePaid
    <3>3. CASE e = job[j].draft
      BY <1>1, <1>2, <1>4, <2>2, <3>1, <3>3, DonePaid DEF TeamsPaid
    <3>. QED
      BY <3>2, <3>3
  <2>. QED
    BY <1>1, <1>2, <1>4, <2>1, <2>2, IdleType, StandsShow
<1>5. CASE published' = published /\ stale' = stale \cup {"failed"}
  <2>1. Draws /\ stale' # {} /\ stale \subseteq stale'
    BY <1>1, <1>5, DrawsSame
  <2>. QED
    BY <1>1, <1>2, <1>5, <2>1, IdleType, StandsShow
<1>. QED
  BY <1>1, <1>3, <1>4, <1>5

LEMMA PublishesShow ==
    ASSUME StateInv, ShowInv, NEW j \in Jobs, Publishes(j)
    PROVE  StateInv' /\ ShowInv'
BY PublishedShow DEF Publishes

LEMMA DeleteShow ==
    ASSUME StateInv, ShowInv, NEW j \in Jobs, DeleteLive(j)
    PROVE  StateInv' /\ ShowInv'
<1>1. /\ job[j].at = "delete" /\ Goes(j, Idle) /\ UNCHANGED <<draft, published, edits, plan>>
      /\ \/ shown' = shown /\ stale' = stale
         \/ /\ job[j].message # 0 /\ shown' = [shown EXCEPT ![job[j].message] = None]
            /\ stale' = stale
         \/ shown' = shown /\ stale' = stale \cup {"failed"}
  BY DEF DeleteLive
<1>2. /\ job[j].at \in OnDraft /\ job[j].at \in After \cup {"publish", "delete"}
      /\ job[j].at \notin Owing /\ job[j].at \notin After
  BY <1>1 DEF OnDraft, After, Owing
<1>3. CASE shown' = shown /\ stale' = stale
  <2>1. Draws
    BY <1>1, <1>3, DrawsSame
  <2>2. ASSUME stale' = {}, NEW e \in 1 .. Len(draft)
        PROVE  MessagePaid(e)' /\ TeamsPaid(e)'
    BY <1>1, <1>2, <1>3, <2>2, DonePaid
  <2>. QED
    BY <1>1, <1>2, <1>3, <2>1, <2>2, IdleType, StandsShow
<1>4. CASE /\ job[j].message # 0 /\ shown' = [shown EXCEPT ![job[j].message] = None]
           /\ stale' = stale
  <2>1. PICK x, m : x = job[j] /\ m = x.message
    OBVIOUS
  <2>2. /\ x.draft \in 1 .. Len(draft) /\ m \in 1 .. Len(shown) /\ TaskOwns(x)
        /\ Len(shown) <= MaxMessages /\ Len(shown) \in Nat
    BY <1>2, <1>4, <2>1, WorkerIs
  <2>3. /\ shown' \in Seq(Shows \cup {None}) /\ Len(shown') = Len(shown)
        /\ \A k \in 1 .. Len(shown) : k # m => shown'[k] = shown[k]
    <3>1. PICK S, q, z : S = Shows \cup {None} /\ q = shown /\ z = shown'
      OBVIOUS
    <3>2. q \in Seq(S) /\ m \in 1 .. Len(q) /\ None \in S /\ z = [q EXCEPT ![m] = None]
      BY <1>4, <2>1, <2>2, <3>1 DEF StateInv, Types
    <3>3. /\ z \in Seq(S) /\ Len(z) = Len(q)
          /\ \A k \in 1 .. Len(q) : k # m => z[k] = q[k]
      BY <3>2, ExceptIs
    <3>. QED
      BY <3>1, <3>3
  <2>4. Draws
    BY <1>1, <1>4, <2>2, <2>3 DEF Draws, StateInv, Types
  <2>5. ASSUME stale' = {}, NEW e \in 1 .. Len(draft)
        PROVE  MessagePaid(e)' /\ TeamsPaid(e)'
    <3>1. stale = {}
      BY <1>4, <2>5
    <3>2. TeamsPaid(e)'
      BY <1>1, <1>2, <2>5, <3>1, DonePaid
    <3>3. CASE draft[e].status # "ACTIVE"
      BY <1>1, <3>2, <3>3 DEF MessagePaid
    <3>4. CASE draft[e].status = "ACTIVE"
      <4>1. e # x.draft
        BY <1>1, <2>1, <3>1, <3>4 DEF ShowInv, Paid
      <4>2. draft[e].message \in 1 .. Len(shown)
        BY <3>1, <3>4, NothingStale
      <4>3. draft[e].message # m
        BY <1>4, <2>1, <2>2, <4>1 DEF TaskOwns
      <4>4. shown'[draft[e].message] = shown[draft[e].message]
        BY <2>3, <4>2, <4>3
      <4>. QED
        BY <1>1, <1>2, <2>5, <3>1, <3>2, <4>4, DonePaid
    <3>. QED
      BY <3>3, <3>4
  <2>. QED
    BY <1>1, <1>2, <1>4, <2>1, <2>3, <2>4, <2>5, IdleType, StandsShow
<1>5. CASE shown' = shown /\ stale' = stale \cup {"failed"}
  <2>1. Draws /\ stale' # {} /\ stale \subseteq stale'
    BY <1>1, <1>5, DrawsSame
  <2>. QED
    BY <1>1, <1>2, <1>5, <2>1, IdleType, StandsShow
<1>. QED
  BY <1>1, <1>3, <1>4, <1>5

(* A draft is created.                                                       *)
LEMMA CreateShow ==
    ASSUME StateInv, ShowInv, NEW j \in Jobs, createDraft(j)
    PROVE  StateInv' /\ ShowInv'
<1>1. PICK new : new = [status |-> "SETUP", state |-> emptyDraftState, message |-> 0]
  OBVIOUS
<1>2. /\ job[j].at = "create" /\ draft' = Append(draft, new) /\ published' = Append(published, None)
      /\ Noting(j, "start") /\ Wrote(j, Idle)
      /\ shown' = shown /\ edits' = edits /\ plan' = plan
  BY <1>1 DEF createDraft
<1>3. job[j].draft = 0
  BY <1>2 DEF ShowInv, Own, TaskOwns, OnDraft, Before, After, Owing
<1>4. /\ job' \in [Jobs -> Tasks] /\ job'[j] = Idle
      /\ \A i \in Jobs : i # j =>
            /\ Aged(job[i], job'[i])
            /\ job'[i].fresh => job'[i] = job[i] /\ (job[i] = Idle \/ job[i].draft # 0)
            /\ job[i].draft # 0 => job'[i] = job[i]
  BY <1>2, <1>3, IdleType, WroteIs DEF Wrotes
<1>5. emptyDraftState \in States /\ emptyDraftState.teams = << >> /\ Sound("SETUP", emptyDraftState)
  <2>1. Idle.state \in States /\ Idle.state = emptyDraftState
    BY IdleType DEF Tasks, Idle
  <2>2. /\ emptyDraftState.teams = << >>
        /\ emptyDraftState.captains \cap emptyDraftState.memberPool = {}
    BY DEF emptyDraftState
  <2>. QED
    BY <2>1, <2>2, UnbegunSound
<1>6. PICK n : n = Len(draft) + 1
  OBVIOUS
<1>7. /\ draft' \in Seq(DraftRows) /\ Len(draft) \in Nat /\ Len(draft') = n /\ draft'[n] = new
      /\ \A d \in 1 .. Len(draft) : draft'[d] = draft[d]
  <2>1. new \in DraftRows
    BY <1>1, <1>5 DEF DraftRows, Statuses
  <2>2. draft \in Seq(DraftRows)
    BY DEF StateInv, Types
  <2>. QED
    BY <1>2, <1>6, <2>1, <2>2, AppendProperties, LenProperties
<1>8. /\ published' \in Seq(Seq(Teams) \cup {None}) /\ Len(published') = n /\ published'[n] = None
      /\ \A d \in 1 .. Len(draft) : published'[d] = published[d]
  <2>1. PICK S : S = Seq(Teams) \cup {None}
    OBVIOUS
  <2>2. published \in Seq(S) /\ None \in S /\ Len(published) = Len(draft)
    BY <2>1 DEF StateInv, Types
  <2>. QED
    BY <1>2, <1>6, <2>1, <2>2, AppendProperties
<1>9. 1 .. n = 1 .. Len(draft) \cup {n} /\ n \notin 1 .. Len(draft) /\ n \in Nat \ {0}
  BY <1>6, <1>7
<1>10. stale \subseteq stale' /\ stale' \subseteq stale \cup {"start"}
       /\ (stale' \cap {"start"} = {} => job[j].fresh /\ stale' = stale)
  BY <1>2 DEF Noting
<1>11. new.status = "SETUP" /\ new.state = emptyDraftState /\ new.message = 0
  BY <1>1
<1>12. StateInv'
  <2>1. Types'
    BY <1>2, <1>4, <1>7, <1>8, <1>10 DEF StateInv, Types
  <2>2. RowsSound'
    <3>1. ASSUME NEW d \in 1 .. n
          PROVE  Sound(draft'[d].status, draft'[d].state)
      <4>1. CASE d = n
        BY <1>5, <1>7, <1>11, <4>1
      <4>2. CASE d # n
        BY <1>7, <1>9, <4>2 DEF StateInv, RowsSound, Of
      <4>. QED
        BY <4>1, <4>2
    <3>. QED
      BY <1>7, <3>1 DEF RowsSound, Of
  <2>3. TasksSound'
    <3>1. ASSUME NEW i \in Jobs, job'[i].at \notin {"idle", "create"}
          PROVE  Sound(job'[i].status, job'[i].state)
      BY <1>4, <3>1, IdleType DEF Aged, StateInv, TasksSound
    <3>. QED
      BY <3>1 DEF TasksSound
  <2>. QED
    BY <2>1, <2>2, <2>3 DEF StateInv
<1>13. Own'
  <2>1. ASSUME NEW d \in 1 .. n
        PROVE  RowOwns(d)'
    <3>0. Len(shown) \in Nat
      BY LenProperties DEF StateInv, Types
    <3>1. CASE d = n
      BY <1>2, <1>7, <1>11, <3>0, <3>1 DEF RowOwns
    <3>2. CASE d # n
      <4>1. d \in 1 .. Len(draft) /\ RowOwns(d) /\ draft'[d] = draft[d]
        BY <1>7, <1>9, <3>2 DEF ShowInv, Own
      <4>. QED
        BY <1>2, <1>7, <1>9, <1>11, <4>1 DEF RowOwns
    <3>. QED
      BY <3>1, <3>2
  <2>2. ASSUME NEW i \in Jobs
        PROVE  TaskOwns(job[i])'
    <3>0. Len(shown) \in Nat /\ Idle.live = FALSE
      BY LenProperties DEF StateInv, Types, Idle
    <3>1. CASE i = j
      BY <1>2, <1>4, <3>0, <3>1, IdleType DEF TaskOwns, OnDraft, Before, After, Owing
    <3>2. CASE i # j
      <4>1. TaskOwns(job[i]) /\ Aged(job[i], job'[i])
        BY <1>4, <3>2 DEF ShowInv, Own
      <4>2. job[i].at \in OnDraft => draft'[job[i].draft] = draft[job[i].draft]
        BY <1>7, <4>1 DEF TaskOwns
      <4>3. "save" \in OnDraft
        BY DEF OnDraft, Before
      <4>4. job[i].at \in OnDraft => job[i].draft \in 1 .. n
        BY <1>9, <4>1 DEF TaskOwns
      <4>5. \A e \in 1 .. n : job[i].draft # e /\ job[i].message # 0 =>
                                  draft'[e].message # job[i].message
        BY <1>7, <1>9, <1>11, <4>1 DEF TaskOwns
      <4>. QED
        BY <1>2, <1>7, <4>1, <4>2, <4>3, <4>4, <4>5 DEF TaskOwns, Aged
    <3>. QED
      BY <3>1, <3>2
  <2>. QED
    BY <1>7, <2>1, <2>2 DEF Own
<1>14. Alone'
  <2>. SUFFICES ASSUME stale' \cap {"start", "draft"} = {}
                PROVE  /\ \A e, f \in Live' : e = f
                       /\ \A i \in Jobs : job'[i].at = "create" /\ job'[i].fresh => Live' = {}
    BY DEF Alone
  <2>1. Live = {}
    BY <1>2, <1>10 DEF ShowInv, Alone
  <2>2. Live' \subseteq {n}
    BY <1>7, <1>9, <2>1 DEF Live
  <2>3. \A i \in Jobs : ~(job'[i].at = "create" /\ job'[i].fresh)
    <3>1. ASSUME NEW i \in Jobs, job'[i].at = "create", job'[i].fresh
          PROVE  FALSE
      <4>1. i # j
        BY <1>4, <3>1, IdleType
      <4>2. job'[i] = job[i] /\ job[i] # Idle /\ job[i].draft # 0
        BY <1>4, <3>1, <4>1, IdleType
      <4>3. job[i].draft = 0
        BY <3>1, <4>2 DEF ShowInv, Own, TaskOwns, OnDraft, Before, After, Owing
      <4>. QED
        BY <4>2, <4>3
    <3>. QED
      BY <3>1
  <2>. QED
    BY <2>2, <2>3
<1>15. Paid'
  <2>. SUFFICES ASSUME stale' = {}
                PROVE  /\ \A i \in Jobs : job'[i].at = "delete" =>
                              draft'[job'[i].draft].status = "CANCELLED"
                       /\ \A d \in 1 .. n : MessagePaid(d)' /\ TeamsPaid(d)'
    BY <1>7 DEF Paid
  <2>1. stale = {}
    BY <1>10
  <2>2. ASSUME NEW i \in Jobs, job'[i].at = "delete"
        PROVE  draft'[job'[i].draft].status = "CANCELLED"
    <3>1. i # j
      BY <1>4, <2>2, IdleType
    <3>2. job[i].at = "delete" /\ job'[i].draft = job[i].draft
      BY <1>4, <2>2, <3>1 DEF Aged
    <3>3. job[i].draft \in 1 .. Len(draft) /\ draft[job[i].draft].status = "CANCELLED"
      BY <2>1, <3>2 DEF ShowInv, Paid, Own, TaskOwns, OnDraft
    <3>. QED
      BY <1>7, <3>2, <3>3
  <2>3. ASSUME NEW d \in 1 .. Len(draft)
        PROVE  MessagePaid(d)' /\ TeamsPaid(d)'
    <3>1. MessagePaid(d) /\ TeamsPaid(d)
      BY <2>1, NothingStale
    <3>2. draft'[d] = draft[d] /\ published'[d] = published[d] /\ d # 0
      BY <1>7, <1>8, <2>3
    <3>3. \A i \in Jobs : job[i].draft = d => job'[i] = job[i]
      BY <1>3, <1>4, <3>2
    <3>. QED
      BY <1>2, <3>1, <3>2, <3>3 DEF MessagePaid, TeamsPaid, Owes, Of
  <2>4. MessagePaid(n)' /\ TeamsPaid(n)'
    BY <1>7, <1>8, <1>11 DEF MessagePaid, TeamsPaid
  <2>. QED
    BY <1>9, <2>2, <2>3, <2>4
<1>16. ASSUME NEW i \in Jobs
       PROVE  Private(i)'
  <2>1. CASE i = j
    BY <1>4, <2>1, IdleType DEF Private
  <2>2. CASE i # j
    <3>. SUFFICES ASSUME job[i].at \in {"begin", "resave"}
                  PROVE  /\ job[i].message # 0
                         /\ shown[job[i].message] = [status |-> job[i].status, state |-> job[i].state]
                         /\ \A e \in 1 .. n : draft'[e].message # job[i].message
                         /\ \A k \in Jobs : k # i => job'[k].message # job[i].message
      BY <1>2, <1>4, <1>7, <2>2 DEF Private, Aged
    <3>1. /\ job[i].message # 0
          /\ shown[job[i].message] = [status |-> job[i].status, state |-> job[i].state]
          /\ \A e \in 1 .. Len(draft) : draft[e].message # job[i].message
          /\ \A k \in Jobs : k # i => job[k].message # job[i].message
      BY DEF ShowInv, Private
    <3>2. \A e \in 1 .. n : draft'[e].message # job[i].message
      BY <1>7, <1>9, <1>11, <3>1
    <3>3. \A k \in Jobs : k # i => job'[k].message # job[i].message
      BY <1>4, <3>1, IdleType DEF Aged
    <3>. QED
      BY <3>1, <3>2, <3>3
  <2>. QED
    BY <2>1, <2>2
<1>17. ASSUME NEW i \in Jobs, job'[i].fresh
       PROVE  Knows(job[i])'
  <2>1. CASE i = j
    BY <1>4, <2>1, IdleType DEF Knows, Before, After, Owing
  <2>2. CASE i # j
    <3>1. job'[i] = job[i] /\ Knows(job[i]) /\ TaskOwns(job[i])
      BY <1>4, <1>17, <2>2 DEF ShowInv, Own
    <3>2. CASE job[i].at \in OnDraft
      <4>1. draft'[job[i].draft] = draft[job[i].draft]
        BY <1>7, <3>1, <3>2 DEF TaskOwns
      <4>. QED
        BY <3>1, <4>1 DEF Knows
    <3>3. CASE job[i].at \notin OnDraft
      BY <3>1, <3>3 DEF Knows, OnDraft, Before, After, Owing
    <3>. QED
      BY <3>2, <3>3
  <2>. QED
    BY <2>1, <2>2
<1>. QED
  BY <1>12, <1>13, <1>14, <1>15, <1>16, <1>17 DEF ShowInv

-----------------------------------------------------------------------------
(* The invariant holds.                                                      *)

LEMMA InitInv ==
    ASSUME Init
    PROVE  StateInv /\ ShowInv
<1>1. /\ draft = << >> /\ shown = << >> /\ published = << >> /\ stale = {}
      /\ job = [j \in Jobs |-> Idle] /\ edits = 0 /\ plan \in Plans
  BY DEF Init
<1>2. Len(draft) = 0 /\ Len(shown) = 0 /\ Len(published) = 0 /\ 1 .. 0 = {}
  BY <1>1, EmptySeq
<1>3. Types
  <2>1. draft \in Seq(DraftRows) /\ shown \in Seq(Shows \cup {None})
    BY <1>1, EmptySeq
  <2>2. published \in Seq(Seq(Teams) \cup {None})
    BY <1>1, EmptySeq
  <2>3. job \in [Jobs -> Tasks]
    BY <1>1, IdleType
  <2>. QED
    BY <1>1, <1>2, <2>1, <2>2, <2>3, CaptainDraftAssumption DEF Types
<1>4. \A j \in Jobs : job[j] = Idle
  BY <1>1
<1>5. RowsSound /\ TasksSound
  BY <1>2, <1>4, IdleType DEF RowsSound, TasksSound
<1>6. Live = {}
  BY <1>2 DEF Live
<1>7. Own
  <2>1. Idle.live = FALSE
    BY DEF Idle
  <2>2. ASSUME NEW j \in Jobs
        PROVE  TaskOwns(job[j])
    BY <1>2, <1>4, <2>1, IdleType DEF TaskOwns, OnDraft, Before, After, Owing
  <2>. QED
    BY <1>2, <2>2 DEF Own
<1>8. Alone /\ Paid
  BY <1>2, <1>4, <1>6, IdleType DEF Alone, Paid
<1>9. \A j \in Jobs : Private(j) /\ Knows(job[j])
  BY <1>4, IdleType DEF Private, Knows, Before, After, Owing
<1>. QED
  BY <1>3, <1>5, <1>7, <1>8, <1>9 DEF StateInv, ShowInv

LEMMA NextInv ==
    ASSUME StateInv, ShowInv, [Next]_vars
    PROVE  StateInv' /\ ShowInv'
<1>1. ASSUME NEW j \in Jobs, draftCommands(j) \/ moderatorCommands(j) \/ handlePickSelect(j)
      PROVE  StateInv' /\ ShowInv'
  <2>1. Types /\ RowsSound
    BY DEF StateInv
  <2>2. Asks(j) \/ Starts(j)
    BY <1>1, <2>1, CommandAsked
  <2>3. ASSUME NEW t, Asked(t), NEW change, Begin(j, t, change)
        PROVE  StateInv' /\ ShowInv'
    <3>1. t \in Tasks /\ Sound(t.status, t.state)
      BY <2>3 DEF Asked
    <3>. QED
      BY <2>3, <3>1, BeginState, AskedShow
  <2>. QED
    BY <2>2, <2>3, StartsShow DEF Asks
<1>2. ASSUME NEW j \in Jobs, saveDraftState(j)
      PROVE  StateInv' /\ ShowInv'
  <2>1. PICK d, m, t : SavedAs(j, d, m, t)
    BY <1>2, SaveIs DEF ShowInv
  <2>. QED
    BY <2>1, SaveState, SaveShow DEF ShowInv
<1>3. CASE UNCHANGED vars
  <2>1. /\ draft' = draft /\ shown' = shown /\ published' = published /\ job' = job
        /\ stale' = stale /\ edits' = edits /\ plan' = plan
    BY <1>3 DEF vars
  <2>2. StateInv'
    BY <2>1 DEF StateInv, Types, RowsSound, TasksSound, Of
  <2>3. Own'
    BY <2>1 DEF ShowInv, Own, RowOwns, TaskOwns
  <2>4. Alone'
    BY <2>1 DEF ShowInv, Alone, Live
  <2>5. Paid'
    BY <2>1 DEF ShowInv, Paid, MessagePaid, TeamsPaid, Owes, Of
  <2>6. \A j \in Jobs : (Private(j) /\ (job[j].fresh => Knows(job[j])))'
    BY <2>1 DEF ShowInv, Private, Knows
  <2>. QED
    BY <2>2, <2>3, <2>4, <2>5, <2>6 DEF ShowInv
<1>. QED
  BY <1>1, <1>2, <1>3, CreateShow, PostLiveShow, SyncShow, RefreshShow, PublishesShow, DeleteShow
     DEF Next

(* Who appends, keeps what there is.                                         *)
LEMMA AppendKeeps ==
    ASSUME NEW S, NEW q \in Seq(S), NEW e, NEW k \in 1 .. Len(q)
    PROVE  Append(q, e)[k] = q[k]
BY AppendProperties, SeqMonotonic

(* The rows, tasks and messages fit together in every state.                 *)
THEOREM DraftsInvariant == Spec => [](StateInv /\ ShowInv)
<1>1. Init => StateInv /\ ShowInv
  BY InitInv
<1>2. (StateInv /\ ShowInv) /\ [Next]_vars => (StateInv /\ ShowInv)'
  BY NextInv
<1>. QED
  BY <1>1, <1>2, PTL DEF Spec

(* However handlers overlap, whatever is stored is a draft captains could    *)
(* have come to: each captain leads the team that bears his name, nobody is  *)
(* in two places, somebody is left to be picked until the draft is complete, *)
(* and unless a moderator changed a team's size each team has had the turns  *)
(* that a snake gives it (draft-logic.ts).                                   *)
THEOREM DraftsStaySound == Spec => []TeamsSound
<1>1. StateInv /\ ShowInv => TeamsSound
  <2>. SUFFICES ASSUME StateInv, ShowInv PROVE TeamsSound
    OBVIOUS
  <2>1. TypeOK
    <3>1. Len(shown) \in Nat /\ Len(shown) <= MaxMessages /\ MaxMessages \in Nat
      BY LenProperties, CaptainDraftAssumption DEF StateInv, Types
    <3>2. PICK Rows : Rows = [status : Statuses, state : States, message : 0 .. MaxMessages]
      OBVIOUS
    <3>3. draft \in Seq(Rows)
      <4>1. draft \in Seq(DraftRows)
        BY DEF StateInv, Types
      <4>2. Len(draft) \in Nat /\ DOMAIN draft = 1 .. Len(draft) /\ draft \in [1 .. Len(draft) -> DraftRows]
        BY <4>1, LenProperties
      <4>3. \A d \in 1 .. Len(draft) : draft[d] \in Rows
        BY <3>1, <3>2, <4>2 DEF DraftRows, ShowInv, Own, RowOwns
      <4>4. draft \in [1 .. Len(draft) -> Rows]
        BY <4>2, <4>3
      <4>. QED
        BY <4>2, <4>4, SeqDef
    <3>4. ASSUME NEW j \in Jobs
          PROVE  /\ job[j].at \in Steps /\ job[j].draft \in 0 .. Len(draft)
                 /\ job[j].status \in Statuses /\ job[j].state \in States
                 /\ job[j].message \in 0 .. Len(shown)
                 /\ {job[j].live, job[j].refresh, job[j].fresh} \subseteq BOOLEAN
      <4>1. job[j] \in Tasks
        BY DEF StateInv, Types
      <4>2. {job[j].live, job[j].refresh, job[j].fresh} \subseteq BOOLEAN
        BY <4>1, Zenon DEF Tasks
      <4>3. Len(draft) \in Nat
        BY LenProperties DEF StateInv, Types
      <4>4. TaskOwns(job[j])
        BY DEF ShowInv, Own
      <4>5. job[j].draft \in 0 .. Len(draft) /\ job[j].message \in 0 .. Len(shown)
        BY <4>3, <4>4 DEF TaskOwns
      <4>. QED
        BY <4>1, <4>2, <4>5 DEF Tasks
    <3>. QED
      BY <3>2, <3>3, <3>4 DEF TypeOK, StateInv, Types, Shows
  <2>2. Placed
    BY DEF StateInv, RowsSound, Sound, Placed, Open
  <2>3. SnakeFair
    BY DEF StateInv, RowsSound, Sound, SnakeFair, Even
  <2>. QED
    BY <2>1, <2>2, <2>3 DEF TeamsSound
<1>. QED
  BY <1>1, DraftsInvariant, PTL

(* The channel has one draft at a time, unless two starts overlapped or a    *)
(* handler saved over something newer (startCaptainDraft).                   *)
THEOREM OneDraftLive == Spec => []OneLive
<1>1. StateInv /\ ShowInv => OneLive
  <2>. SUFFICES ASSUME ShowInv, stale \cap {"start", "draft"} = {}
                PROVE  Cardinality(Live) <= 1
    BY DEF OneLive
  <2>1. \A d, e \in Live : d = e
    BY DEF ShowInv, Alone
  <2>2. CASE Live = {}
    BY <2>2, FS_EmptySet
  <2>3. CASE Live # {}
    <3>1. PICK d : Live = {d}
      BY <2>1, <2>3
    <3>2. Cardinality({d}) = 1
      BY FS_Singleton
    <3>. QED
      BY <3>1, <3>2
  <2>. QED
    BY <2>2, <2>3
<1>. QED
  BY <1>1, DraftsInvariant, PTL

(* Once all handlers are done, with nothing saved or drawn over something    *)
(* newer and no failed call, an active draft's live message and the          *)
(* published teams show what is stored (syncLiveDraftMessage,                *)
(* refreshPublishedTeamsIfAny): whatever is not shown yet, the last to save  *)
(* still owes.                                                               *)
THEOREM MessagesShowDrafts == Spec => []ShownAsStored
<1>1. StateInv /\ ShowInv => ShownAsStored
  <2>. SUFFICES ASSUME ShowInv, \A j \in Jobs : job[j] = Idle, stale = {}, NEW d \in 1 .. Len(draft)
                PROVE  /\ Open(d, {"ACTIVE"}) =>
                             shown[draft[d].message] = [status |-> "ACTIVE", state |-> Of(d)]
                       /\ published[d] # None /\ ~Open(d, {"CANCELLED"}) =>
                             published[d] = Of(d).teams
    BY DEF ShownAsStored
  <2>1. MessagePaid(d) /\ TeamsPaid(d)
    BY DEF ShowInv, Paid
  <2>2. \A j \in Jobs : job[j].at \notin After
    BY IdleType DEF After, Owing
  <2>3. \A j \in Jobs : ~Owes(j, d, Owing) /\ ~Owes(j, d, After)
    BY <2>2 DEF Owes, After
  <2>. QED
    BY <2>1, <2>3 DEF MessagePaid, TeamsPaid, Open
<1>. QED
  BY <1>1, DraftsInvariant, PTL

(* A cancelled draft stays so, unless a handler that read the draft before   *)
(* saves it (assertDraftStatus in every handler).                            *)
THEOREM CancelledDraftsStay == Spec => CancelledStays
<1>1. ASSUME StateInv, ShowInv, [Next]_vars, NEW d \in 1 .. Len(draft),
             draft[d].status = "CANCELLED", draft'[d].status # "CANCELLED"
      PROVE  "draft" \in stale'
  <2>1. ASSUME NEW j \in Jobs, saveDraftState(j)
        PROVE  "draft" \in stale'
    <3>1. PICK e, m, t : SavedAs(j, e, m, t)
      BY <1>1, <2>1, SaveIs DEF ShowInv
    <3>2. /\ job[j].at \in {"save", "begin", "resave"} /\ e = job[j].draft
          /\ \A f \in 1 .. Len(draft) : f # e => draft'[f] = draft[f]
          /\ stale' = (IF job[j].fresh THEN stale ELSE stale \cup {"draft"})
      BY <3>1 DEF SavedAs
    <3>3. d = job[j].draft
      BY <1>1, <3>2
    <3>4. ~job[j].fresh
      BY <1>1, <3>2, <3>3 DEF ShowInv, Knows, Before, After, Owing
    <3>. QED
      BY <3>2, <3>4
  <2>2. ASSUME NEW j \in Jobs, createDraft(j)
        PROVE  FALSE
    <3>1. draft \in Seq(DraftRows)
      BY <1>1 DEF StateInv, Types
    <3>2. PICK new : draft' = Append(draft, new)
      BY <2>2 DEF createDraft
    <3>3. draft'[d] = draft[d]
      BY <1>1, <3>1, <3>2, AppendKeeps
    <3>. QED
      BY <1>1, <3>3
  <2>3. ASSUME NEW j \in Jobs, draftCommands(j) \/ moderatorCommands(j) \/ handlePickSelect(j)
        PROVE  FALSE
    <3>1. Asks(j) \/ Starts(j)
      BY <1>1, <2>3, CommandAsked DEF StateInv
    <3>2. draft' = draft
      BY <3>1 DEF Asks, Starts, Begin
    <3>. QED
      BY <1>1, <3>2
  <2>4. ASSUME NEW j \in Jobs,
               \/ PostLive(j) \/ syncLiveDraftMessage(j) \/ refreshPublishedTeamsIfAny(j)
               \/ Publishes(j) \/ DeleteLive(j)
        PROVE  FALSE
    <3>1. draft' = draft
      BY <2>4 DEF PostLive, syncLiveDraftMessage, refreshPublishedTeamsIfAny, Publishes, DeleteLive
    <3>. QED
      BY <1>1, <3>1
  <2>5. ~UNCHANGED vars
    BY <1>1 DEF vars
  <2>. QED
    BY <1>1, <2>1, <2>2, <2>3, <2>4, <2>5 DEF Next
<1>2. (StateInv /\ ShowInv) /\ [Next]_vars =>
         [\A d \in 1 .. Len(draft) :
             draft[d].status = "CANCELLED" /\ draft'[d].status # "CANCELLED"
                => "draft" \in stale']_vars
  BY <1>1
<1>. QED
  BY <1>2, DraftsInvariant, PTL DEF Spec, CancelledStays
=============================================================================

---------------------------- MODULE SeasonProofs ----------------------------
(* Theorems about seasons (Season, IdleDecay), for any players, leagues,     *)
(* matches, settings, days and handlers at work.                             *)
EXTENDS Season, FiniteSetTheorems, WellFoundedInduction, TLAPS


-----------------------------------------------------------------------------
(* The pass of pending days (computeDecayDelta).                             *)

(* A set of naturals that is not empty has a least one.                     *)
LEMMA LeastNat ==
    ASSUME NEW T, T \subseteq Nat, T # {}
    PROVE  \E m \in T : \A n \in T : m <= n
<1>1. PICK m \in T : \A n \in T : ~(<<n, m>> \in OpToRel(<, Nat))
  BY NatLessThanWellFounded, WFMin
<1>2. \A n \in T : n \in Nat /\ m \in Nat
  BY <1>1
<1>3. ASSUME NEW n \in T PROVE m <= n
  <2>1. ~(<<n, m>> \in {ss \in Nat \X Nat : ss[1] < ss[2]})
    BY <1>1, Zenon DEF OpToRel
  <2>2. ~(n < m)
    BY <2>1, <1>2
  <2>. QED
    BY <1>2, <2>2
<1>. QED
  BY <1>1, <1>3

(* The pass of pending days, a function defined by recursion on the day,     *)
(* exists: it can be made a day longer.                                      *)
Chain(g, s, c, r, a, b) ==
    g = [d \in a..b |-> IF d = a THEN r ELSE Charged(s, c, g[d - 1], d)]

LEMMA ChainGrows ==
    ASSUME NEW s, NEW c, NEW r, NEW a \in Int, NEW b \in Int, a <= b, NEW g, Chain(g, s, c, r, a, b)
    PROVE  \E h : Chain(h, s, c, r, a, b + 1)
<1>. DEFINE h == [d \in a..(b + 1) |-> IF d = b + 1 THEN Charged(s, c, g[b], b + 1) ELSE g[d]]
<1>1. ASSUME NEW d \in a..(b + 1)
      PROVE  h[d] = IF d = a THEN r ELSE Charged(s, c, h[d - 1], d)
  <2>1. CASE d = b + 1
    <3>1. d - 1 = b /\ d # a /\ b \in a..(b + 1) /\ b # b + 1
      BY <2>1
    <3>2. h[d - 1] = g[b]
      BY <3>1
    <3>. QED
      BY <2>1, <3>1, <3>2
  <2>2. CASE d = a
    <3>1. d # b + 1 /\ d \in a..b
      BY <2>2
    <3>2. g[d] = r
      BY <2>2, <3>1 DEF Chain
    <3>. QED
      BY <2>2, <3>1, <3>2
  <2>3. CASE d # b + 1 /\ d # a
    <3>1. d \in a..b /\ d - 1 \in a..(b + 1) /\ d - 1 # b + 1
      BY <2>3
    <3>2. g[d] = Charged(s, c, g[d - 1], d)
      BY <2>3, <3>1 DEF Chain
    <3>3. h[d] = g[d] /\ h[d - 1] = g[d - 1]
      BY <2>3, <3>1
    <3>. QED
      BY <2>3, <3>2, <3>3
  <2>. QED
    BY <2>1, <2>2, <2>3
<1>2. h = [d \in a..(b + 1) |-> h[d]]
  OBVIOUS
<1>. HIDE DEF h
<1>3. h = [d \in a..(b + 1) |-> IF d = a THEN r ELSE Charged(s, c, h[d - 1], d)]
  BY <1>1, <1>2
<1>. QED
  BY <1>3 DEF Chain

LEMMA ChainExists ==
    ASSUME NEW s, NEW c, NEW r, NEW a \in Int, NEW b \in Int, a <= b
    PROVE  \E g : Chain(g, s, c, r, a, b)
<1>. DEFINE Bad == {n \in Nat : ~\E g : Chain(g, s, c, r, a, a + n)}
<1>1. 0 \notin Bad
  <2>. DEFINE g == [d \in a..a |-> r]
  <2>1. g = [d \in a..(a + 0) |-> IF d = a THEN r ELSE Charged(s, c, g[d - 1], d)]
    OBVIOUS
  <2>. QED
    BY <2>1 DEF Chain
<1>2. Bad = {}
  <2>. SUFFICES ASSUME Bad # {} PROVE FALSE
    OBVIOUS
  <2>1. PICK m \in Bad : \A n \in Bad : m <= n
    BY LeastNat
  <2>2. m \in Nat /\ m # 0 /\ m - 1 \in Nat /\ m - 1 \notin Bad
    BY <1>1, <2>1
  <2>3. PICK g : Chain(g, s, c, r, a, a + (m - 1))
    BY <2>2
  <2>4. \E h : Chain(h, s, c, r, a, (a + (m - 1)) + 1)
    BY <2>2, <2>3, ChainGrows
  <2>5. (a + (m - 1)) + 1 = a + m
    BY <2>2
  <2>. QED
    BY <2>1, <2>4, <2>5
<1>3. PICK n \in Nat : a + n = b
  <2>1. b - a \in Nat /\ a + (b - a) = b
    OBVIOUS
  <2>. QED
    BY <2>1
<1>4. n \notin Bad
  BY <1>2
<1>. QED
  BY <1>3, <1>4
(* A day costs nothing within the grace, and never more than a tier.         *)
LEMMA LossIs ==
    ASSUME NEW preset \in Presets, NEW idle \in Int, NEW c \in BOOLEAN,
           NEW s, s = Settings[preset], NEW k, k = DailyKiLoss(s, idle, c)
    PROVE  /\ k \in Nat
           /\ k # 0 => /\ k \in DayCosts(s)
                       /\ \E g \in Graces(s) : g \in Nat /\ idle > g
           /\ \A x \in DayCosts(s) : x \in Nat
<1>1. s \in [midGrace : Nat, midSpan : Nat, midTier1 : Nat, midTier2 : Nat,
             streakCap : Nat, crunchGrace : Nat, crunchSpan : Nat,
             crunchTier1 : Nat, crunchTier2 : Nat, crunchWindow : Nat]
  BY IdleDecayAssumption
<1>2. PICK grace \in Nat, span \in Nat, tier1 \in Nat, tier2 \in Nat :
        /\ grace = IF c THEN s.crunchGrace ELSE s.midGrace
        /\ span = IF c THEN s.crunchSpan ELSE s.midSpan
        /\ tier1 = IF c THEN s.crunchTier1 ELSE s.midTier1
        /\ tier2 = IF c THEN s.crunchTier2 ELSE s.midTier2
  BY <1>1
<1>3. k = CASE idle <= grace -> 0
            [] grace < idle /\ idle <= grace + span -> tier1
            [] OTHER -> tier2
  BY <1>2 DEF DailyKiLoss
<1>4. grace \in Graces(s) /\ tier1 \in DayCosts(s) /\ tier2 \in DayCosts(s)
  BY <1>2 DEF Graces, DayCosts
<1>5. \A x \in DayCosts(s) : x \in Nat
  BY <1>1 DEF DayCosts
<1>6. \/ k = 0
      \/ (k = tier1 \/ k = tier2) /\ idle > grace
  BY <1>2, <1>3
<1>. QED
  BY <1>2, <1>4, <1>5, <1>6

(* What one day is charged.                                                  *)
LEMMA DayChargeIs ==
    ASSUME NEW preset \in Presets, NEW c \in BOOLEAN, NEW r \in Rows, r.activity \in Days,
           NEW d \in Days, NEW s, s = Settings[preset], NEW k, k = DayCharge(s, c, r, d)
    PROVE  /\ k \in Nat
           /\ k # 0 => /\ \E x \in DayCosts(s) : x \in Nat /\ k <= x
                       /\ \E g \in Graces(s) : g \in Nat /\ d - r.activity > g
<1>1. PICK due : due = DailyKiLoss(s, d - r.activity, c)
  OBVIOUS
<1>2. d - r.activity \in Int
  BY DEF Days
<1>3. /\ due \in Nat
      /\ due # 0 => /\ due \in DayCosts(s)
                    /\ \E g \in Graces(s) : g \in Nat /\ d - r.activity > g
  BY <1>1, <1>2, LossIs
<1>4. Mu(r) \in Int
  <2>1. IsFiniteSet(r.won)
    BY IdleDecayAssumption, FS_Subset DEF Rows
  <2>2. Cardinality(r.won) \in Nat
    BY <2>1, FS_CardinalityType
  <2>3. Gain * Cardinality(r.won) \in Int
    BY <2>2, IdleDecayAssumption
  <2>4. r.spent \in Nat
    BY DEF Rows
  <2>. QED
    BY <2>3, <2>4, IdleDecayAssumption DEF Mu
<1>5. s.streakCap \in Nat /\ r.streak \in Nat
  BY IdleDecayAssumption DEF Rows
<1>6. PICK capped : capped = IF ~c /\ s.streakCap > 0
                             THEN AtMost(due, AtLeast(0, s.streakCap - r.streak)) ELSE due
  OBVIOUS
<1>7. capped \in Nat /\ capped <= due
  BY <1>3, <1>5, <1>6 DEF AtMost, AtLeast
<1>8. k = AtLeast(0, AtMost(capped, Mu(r)))
  BY <1>1, <1>6 DEF DayCharge
<1>9. k \in Nat /\ k <= due
  <2>. HIDE DEF Mu
  <2>. QED
    BY <1>3, <1>4, <1>7, <1>8 DEF AtMost, AtLeast
<1>. QED
  BY <1>3, <1>9

(* What a pass leaves of a row, come to day d.                               *)
Alike(x, r) == x \in Rows /\ x.won = r.won /\ x.taxed = r.taxed /\ x.activity = r.activity /\ x.last = r.last
PaysFor(x, r, s, d) ==
    \A e \in Days : x.paid[e] # r.paid[e] =>
        /\ From(r) < e /\ e <= d
        /\ \E k \in DayCosts(s) : k \in Nat /\ x.paid[e] <= r.paid[e] + k
        /\ \E g \in Graces(s) : g \in Nat /\ e - r.activity > g

LEMMA ChargedIs ==
    ASSUME NEW preset \in Presets, NEW c \in BOOLEAN, NEW r \in Rows, r.activity \in Days,
           From(r) \in Days, NEW s, s = Settings[preset],
           NEW d \in Days, d - 1 \in Days, From(r) < d,
           NEW x, Alike(x, r), PaysFor(x, r, s, d - 1), NEW y, y = Charged(s, c, x, d)
    PROVE  Alike(y, r) /\ PaysFor(y, r, s, d)
<1>1. PICK k : k = DayCharge(s, c, x, d)
  OBVIOUS
<1>2. /\ k \in Nat
      /\ k # 0 => /\ \E z \in DayCosts(s) : z \in Nat /\ k <= z
                  /\ \E g \in Graces(s) : g \in Nat /\ d - r.activity > g
  BY <1>1, DayChargeIs DEF Alike
<1>3. y = [x EXCEPT !.spent = @ + k, !.paid[d] = @ + k, !.streak = @ + k]
  BY <1>1 DEF Charged
<1>4. x \in Rows
  BY DEF Alike
<1>5. PICK q : q = [x.paid EXCEPT ![d] = x.paid[d] + k]
  OBVIOUS
<1>6. /\ q \in [Days -> Nat]
      /\ \A e \in Days : q[e] = IF e = d THEN x.paid[d] + k ELSE x.paid[e]
  BY <1>2, <1>4, <1>5 DEF Rows
<1>7. x.spent + k \in Nat /\ x.streak + k \in Nat
  BY <1>2, <1>4 DEF Rows
<1>8. /\ y \in Rows /\ y.won = x.won /\ y.taxed = x.taxed /\ y.activity = x.activity
      /\ y.last = x.last /\ y.paid = q
  <2>1. y = [x EXCEPT !.spent = x.spent + k, !.paid = q, !.streak = x.streak + k]
    BY <1>3, <1>4, <1>5 DEF Rows
  <2>2. PICK total \in Nat, streak \in Nat : total = x.spent + k /\ streak = x.streak + k
    BY <1>7
  <2>3. y = [x EXCEPT !.spent = total, !.paid = q, !.streak = streak]
    BY <2>1, <2>2
  <2>4. y = [won |-> x.won, spent |-> total, paid |-> q, taxed |-> x.taxed,
             activity |-> x.activity, last |-> x.last, streak |-> streak]
    BY <1>4, <2>3 DEF Rows
  <2>5. /\ x.won \in SUBSET Matches /\ x.taxed \in BOOLEAN
        /\ x.activity \in Days \cup {None} /\ x.last \in Days \cup {None}
    BY <1>4 DEF Rows
  <2>. QED
    BY <1>6, <2>2, <2>4, <2>5 DEF Rows
<1>9. PaysFor(y, r, s, d)
  <2>1. SUFFICES ASSUME NEW e \in Days, q[e] # r.paid[e]
                 PROVE  /\ From(r) < e /\ e <= d
                        /\ \E z \in DayCosts(s) : z \in Nat /\ q[e] <= r.paid[e] + z
                        /\ \E g \in Graces(s) : g \in Nat /\ e - r.activity > g
    BY <1>8 DEF PaysFor
  <2>2. d \in Int /\ d - 1 < d
    BY DEF Days
  <2>3. CASE e # d
    <3>1. q[e] = x.paid[e]
      BY <1>6, <2>3
    <3>2. /\ From(r) < e /\ e <= d - 1
          /\ \E z \in DayCosts(s) : z \in Nat /\ x.paid[e] <= r.paid[e] + z
          /\ \E g \in Graces(s) : g \in Nat /\ e - r.activity > g
      BY <2>1, <3>1 DEF PaysFor
    <3>3. e <= d
      BY <2>2, <3>2 DEF Days
    <3>. QED
      BY <3>1, <3>2, <3>3
  <2>4. CASE e = d
    <3>1. x.paid[d] = r.paid[d]
      <4>1. ~(d <= d - 1)
        BY <2>2
      <4>. QED
        BY <4>1 DEF PaysFor
    <3>2. q[d] = r.paid[d] + k /\ r.paid[d] \in Nat
      BY <1>6, <3>1 DEF Rows
    <3>3. k # 0
      BY <1>2, <2>1, <2>4, <3>2
    <3>4. PICK z \in DayCosts(s) : z \in Nat /\ k <= z
      BY <1>2, <3>3
    <3>5. q[d] <= r.paid[d] + z
      BY <1>2, <3>2, <3>4
    <3>6. d <= d
      BY <2>2
    <3>. QED
      BY <1>2, <2>4, <3>3, <3>4, <3>5, <3>6
  <2>. QED
    BY <2>3, <2>4
<1>. QED
  BY <1>8, <1>9 DEF Alike

(* What catch-up writes: the row with its pending days charged.              *)
LEMMA PassIs ==
    ASSUME NEW preset \in Presets, NEW c \in BOOLEAN, NEW r \in Rows, r.activity \in Days,
           From(r) \in Days, NEW s, s = Settings[preset],
           NEW now \in Days, From(r) <= now, NEW y, y = ComputeDecayDelta(s, c, r, now)
    PROVE  Alike(y, r) /\ PaysFor(y, r, s, now)
<1>1. PICK a \in Days : a = From(r)
  OBVIOUS
<1>2. PICK g : g = CHOOSE h : Chain(h, s, c, r, a, now)
  OBVIOUS
<1>3. a \in Int /\ now \in Int /\ a <= now /\ \A d \in a..now : d \in Days
  BY <1>1, IdleDecayAssumption DEF Days
<1>4. Chain(g, s, c, r, a, now)
  BY <1>2, <1>3, ChainExists
<1>5. y = g[now]
  BY <1>1, <1>2 DEF ComputeDecayDelta, Chain
<1>6. \A d \in a..now : g[d] = IF d = a THEN r ELSE Charged(s, c, g[d - 1], d)
  BY <1>4 DEF Chain
<1>. DEFINE Bad == {n \in Nat : a + n <= now /\ ~(Alike(g[a + n], r) /\ PaysFor(g[a + n], r, s, a + n))}
<1>7. 0 \notin Bad
  <2>1. a + 0 = a /\ g[a] = r
    BY <1>3, <1>6
  <2>. QED
    BY <2>1 DEF Alike, PaysFor
<1>8. Bad = {}
  <2>. SUFFICES ASSUME Bad # {} PROVE FALSE
    OBVIOUS
  <2>1. PICK m \in Bad : \A n \in Bad : m <= n
    BY LeastNat
  <2>2. m \in Nat /\ m # 0 /\ m - 1 \in Nat /\ a + m <= now
    BY <1>7, <2>1
  <2>3. m - 1 \notin Bad /\ a + (m - 1) <= now
    BY <1>3, <2>1, <2>2
  <2>4. PICK d \in a..now : d = a + m /\ d - 1 = a + (m - 1) /\ d # a /\ d - 1 \in a..now
    BY <1>3, <2>2
  <2>5. Alike(g[d - 1], r) /\ PaysFor(g[d - 1], r, s, d - 1)
    BY <2>2, <2>3, <2>4
  <2>6. g[d] = Charged(s, c, g[d - 1], d)
    BY <1>6, <2>4
  <2>7. d \in Days /\ d - 1 \in Days /\ a < d
    BY <1>3, <2>4
  <2>8. Alike(g[d], r) /\ PaysFor(g[d], r, s, d)
    <3>. HIDE DEF Bad
    <3>. QED
      BY <1>1, <2>5, <2>6, <2>7, ChargedIs
  <2>. QED
    BY <2>1, <2>4, <2>8
<1>9. PICK n \in Nat : a + n = now
  <2>1. now - a \in Nat /\ a + (now - a) = now
    BY <1>3
  <2>. QED
    BY <2>1
<1>10. Alike(g[now], r) /\ PaysFor(g[now], r, s, now)
  <2>1. n \notin Bad
    BY <1>8
  <2>2. a + n <= now
    BY <1>3, <1>9
  <2>. QED
    BY <1>9, <2>1, <2>2
<1>. QED
  BY <1>5, <1>10

LEMMA CaughtUpIs ==
    ASSUME NEW lg \in LeagueRows, NEW r \in Rows, NEW games, NEW now \in Days,
           Decays(lg, r, games, now), NEW y, y = CaughtUp(lg, r, now)
    PROVE  /\ y \in Rows /\ y.won = r.won /\ y.taxed = r.taxed /\ y.activity = r.activity
           /\ y.last = now /\ r.activity \in Days /\ From(r) \in Days /\ From(r) < now
           /\ PaysFor(y, r, Settings[lg.preset], now)
<1>1. r.activity \in Days /\ From(r) \in Days
  BY DEF Rows, Decays, From
<1>2. From(r) < now
  <2>1. now \in Int /\ From(r) \in Int
    BY <1>1 DEF Days
  <2>. QED
    BY <2>1 DEF Decays, PendingUtcDaysToApply, AtLeast
<1>3. lg.preset \in Presets /\ IsLeagueInCrunch(lg, now) \in BOOLEAN
  BY DEF LeagueRows, IsLeagueInCrunch
<1>4. PICK x : x = ComputeDecayDelta(Settings[lg.preset], IsLeagueInCrunch(lg, now), r, now)
  OBVIOUS
<1>5. From(r) <= now
  BY <1>1, <1>2 DEF Days
<1>6. Alike(x, r) /\ PaysFor(x, r, Settings[lg.preset], now)
  BY <1>1, <1>3, <1>4, <1>5, PassIs
<1>7. y = [x EXCEPT !.last = now]
  BY <1>4 DEF CaughtUp
<1>8. /\ y \in Rows /\ y.won = r.won /\ y.taxed = r.taxed /\ y.activity = r.activity
      /\ y.last = now /\ y.paid = x.paid
  BY <1>6, <1>7 DEF Alike, Rows
<1>. QED
  BY <1>1, <1>2, <1>6, <1>8 DEF PaysFor

-----------------------------------------------------------------------------
(* Catching up late costs what catching up in time would have cost.          *)

(* What holds of a day and of the day after each day it holds of, holds of   *)
(* every day that follows.                                                   *)
LEMMA DayByDay ==
    ASSUME NEW a \in Int, NEW b \in Int, NEW S, a \in S,
           \A d \in a..b : d - 1 \in a..b /\ d - 1 \in S => d \in S
    PROVE  \A d \in a..b : d \in S
<1>. DEFINE Bad == {n \in Nat : a + n <= b /\ a + n \notin S}
<1>1. Bad = {}
  <2>. SUFFICES ASSUME Bad # {} PROVE FALSE
    OBVIOUS
  <2>1. PICK m \in Bad : \A n \in Bad : m <= n
    BY LeastNat
  <2>2. m \in Nat /\ a + m <= b /\ a + m \notin S
    BY <2>1
  <2>3. m # 0
    BY <2>2
  <2>4. m - 1 \in Nat /\ m - 1 \notin Bad /\ a + (m - 1) <= b
    BY <2>1, <2>2, <2>3
  <2>5. PICK d : d = a + m
    OBVIOUS
  <2>6. d \in a..b /\ d - 1 \in a..b /\ d - 1 = a + (m - 1)
    BY <2>2, <2>4, <2>5
  <2>7. d - 1 \in S
    BY <2>4, <2>6
  <2>. QED
    BY <2>2, <2>5, <2>6, <2>7
<1>2. ASSUME NEW d \in a..b PROVE d \in S
  <2>1. d - a \in Nat /\ a + (d - a) = d /\ d <= b
    OBVIOUS
  <2>2. d - a \notin Bad
    BY <1>1
  <2>. QED
    BY <2>1, <2>2
<1>. QED
  BY <1>2

(* A pass is what its last day adds to the pass of the days before.          *)
LEMMA PassSteps ==
    ASSUME NEW s, NEW c, NEW r, From(r) \in Int, NEW now \in Int, From(r) <= now
    PROVE  ComputeDecayDelta(s, c, r, now) =
               IF now = From(r) THEN r
               ELSE Charged(s, c, ComputeDecayDelta(s, c, r, now - 1), now)
<1>1. PICK a \in Int : a = From(r)
  OBVIOUS
<1>2. ASSUME NEW b \in Int, a <= b
      PROVE  \E g : Chain(g, s, c, r, a, b) /\ ComputeDecayDelta(s, c, r, b) = g[b]
  <2>1. PICK g : g = CHOOSE h : Chain(h, s, c, r, a, b)
    OBVIOUS
  <2>2. Chain(g, s, c, r, a, b)
    BY <1>1, <1>2, <2>1, ChainExists
  <2>3. ComputeDecayDelta(s, c, r, b) = g[b]
    BY <1>1, <2>1 DEF ComputeDecayDelta, Chain
  <2>. QED
    BY <2>2, <2>3
<1>3. PICK g : Chain(g, s, c, r, a, now) /\ ComputeDecayDelta(s, c, r, now) = g[now]
  BY <1>1, <1>2
<1>4. \A d \in a..now : g[d] = IF d = a THEN r ELSE Charged(s, c, g[d - 1], d)
  BY <1>3 DEF Chain
<1>5. CASE now = a
  BY <1>1, <1>3, <1>4, <1>5
<1>6. CASE now # a
  <2>1. PICK b \in Int : b = now - 1
    OBVIOUS
  <2>2. a <= b /\ b < now
    BY <1>1, <1>6, <2>1
  <2>3. PICK h : Chain(h, s, c, r, a, b) /\ ComputeDecayDelta(s, c, r, b) = h[b]
    BY <1>2, <2>2
  <2>4. \A d \in a..b : h[d] = IF d = a THEN r ELSE Charged(s, c, h[d - 1], d)
    BY <2>3 DEF Chain
  <2>. DEFINE Same == {d \in a..b : g[d] = h[d]}
  <2>5. a \in Same
    BY <1>4, <2>2, <2>4
  <2>6. ASSUME NEW d \in a..b, d - 1 \in a..b, d - 1 \in Same PROVE d \in Same
    <3>1. d # a /\ d \in a..now /\ g[d - 1] = h[d - 1]
      BY <2>2, <2>6
    <3>2. g[d] = Charged(s, c, g[d - 1], d) /\ h[d] = Charged(s, c, h[d - 1], d)
      BY <1>4, <2>4, <3>1
    <3>. QED
      BY <3>1, <3>2
  <2>7. b \in Same
    <3>. HIDE DEF Same
    <3>1. \A d \in a..b : d \in Same
      BY <2>5, <2>6, DayByDay
    <3>. QED
      BY <2>2, <3>1
  <2>8. g[now] = Charged(s, c, g[now - 1], now)
    BY <1>1, <1>4, <1>6
  <2>. QED
    BY <1>1, <1>3, <1>6, <2>1, <2>3, <2>7, <2>8
<1>. QED
  BY <1>1, <1>5, <1>6

(* Every row of a pass is a row of the same player.                          *)
LEMMA PassRows ==
    ASSUME NEW preset \in Presets, NEW c \in BOOLEAN, NEW r \in Rows, r.activity \in Days,
           From(r) \in Days, NEW s, s = Settings[preset], NEW d \in Days, From(r) <= d
    PROVE  Alike(ComputeDecayDelta(s, c, r, d), r)
BY PassIs

(* A day costs the same whenever the row says it was last charged.           *)
LEMMA RedatedCharge ==
    ASSUME NEW s, NEW c, NEW x \in Rows, NEW e, NEW d
    PROVE  Charged(s, c, [x EXCEPT !.last = e], d) = [Charged(s, c, x, d) EXCEPT !.last = e]
<1>1. PICK z : z = [x EXCEPT !.last = e]
  OBVIOUS
<1>2. /\ x = [won |-> x.won, spent |-> x.spent, paid |-> x.paid, taxed |-> x.taxed,
              activity |-> x.activity, last |-> x.last, streak |-> x.streak]
      /\ z = [won |-> x.won, spent |-> x.spent, paid |-> x.paid, taxed |-> x.taxed,
              activity |-> x.activity, last |-> e, streak |-> x.streak]
  BY <1>1 DEF Rows
<1>3. DayCharge(s, c, z, d) = DayCharge(s, c, x, d)
  <2>1. Mu(z) = Mu(x) /\ z.activity = x.activity /\ z.streak = x.streak
    BY <1>2 DEF Mu
  <2>. QED
    BY <2>1 DEF DayCharge
<1>4. PICK k : k = DayCharge(s, c, x, d)
  OBVIOUS
<1>5. PICK q : q = [x.paid EXCEPT ![d] = x.paid[d] + k]
  OBVIOUS
<1>6. Charged(s, c, z, d) = [z EXCEPT !.spent = x.spent + k, !.paid = q, !.streak = x.streak + k]
  BY <1>2, <1>3, <1>4, <1>5 DEF Charged
<1>7. Charged(s, c, x, d) = [x EXCEPT !.spent = x.spent + k, !.paid = q, !.streak = x.streak + k]
  BY <1>2, <1>4, <1>5 DEF Charged
<1>8. PICK total, streak : total = x.spent + k /\ streak = x.streak + k
  OBVIOUS
<1>9. /\ Charged(s, c, z, d) = [z EXCEPT !.spent = total, !.paid = q, !.streak = streak]
      /\ Charged(s, c, x, d) = [x EXCEPT !.spent = total, !.paid = q, !.streak = streak]
  BY <1>6, <1>7, <1>8
<1>10. Charged(s, c, z, d) = [won |-> x.won, spent |-> total, paid |-> q, taxed |-> x.taxed,
                              activity |-> x.activity, last |-> e, streak |-> streak]
  BY <1>2, <1>9
<1>11. Charged(s, c, x, d) = [won |-> x.won, spent |-> total, paid |-> q, taxed |-> x.taxed,
                              activity |-> x.activity, last |-> x.last, streak |-> streak]
  BY <1>2, <1>9
<1>12. [Charged(s, c, x, d) EXCEPT !.last = e] = Charged(s, c, z, d)
  BY <1>10, <1>11
<1>. QED
  BY <1>1, <1>12

(* A pass cut in two, the row dated where it was cut, charges what the whole *)
(* pass charges.                                                             *)
LEMMA PassInTwo ==
    ASSUME NEW preset \in Presets, NEW c \in BOOLEAN, NEW r \in Rows, r.activity \in Days,
           From(r) \in Days, NEW s, s = Settings[preset],
           NEW d1 \in Days, NEW d2 \in Days, From(r) <= d1, d1 <= d2,
           NEW z, z = [ComputeDecayDelta(s, c, r, d1) EXCEPT !.last = d1]
    PROVE  ComputeDecayDelta(s, c, z, d2) = [ComputeDecayDelta(s, c, r, d2) EXCEPT !.last = d1]
<1>1. d1 \in Int /\ d2 \in Int /\ From(r) \in Int /\ \A d \in d1..d2 : d \in Days /\ d \in Int /\ d1 <= d
  BY IdleDecayAssumption DEF Days
<1>2. From(z) = d1
  <2>1. z.last = d1
    BY PassRows DEF Alike, Rows
  <2>2. d1 # None
    BY <1>1, IdleDecayAssumption
  <2>. QED
    BY <2>1, <2>2 DEF From
<1>. DEFINE Same == {d \in d1..d2 : ComputeDecayDelta(s, c, z, d) = [ComputeDecayDelta(s, c, r, d) EXCEPT !.last = d1]}
<1>3. d1 \in Same
  <2>1. ComputeDecayDelta(s, c, z, d1) = z
    BY <1>1, <1>2, PassSteps
  <2>. QED
    BY <1>1, <2>1
<1>4. ASSUME NEW d \in d1..d2, d - 1 \in d1..d2, d - 1 \in Same PROVE d \in Same
  <2>1. d \in Days /\ d \in Int /\ d - 1 \in Days /\ d - 1 >= d1 /\ d # d1 /\ d1 <= d
    BY <1>1, <1>4
  <2>2. From(r) <= d - 1 /\ d # From(r) /\ From(r) <= d
    BY <1>1, <2>1
  <2>3. PICK x : x = ComputeDecayDelta(s, c, r, d - 1)
    OBVIOUS
  <2>4. x \in Rows
    BY <2>1, <2>2, <2>3, PassRows DEF Alike
  <2>5. ComputeDecayDelta(s, c, r, d) = Charged(s, c, x, d)
    BY <1>1, <2>1, <2>2, <2>3, PassSteps
  <2>6. ComputeDecayDelta(s, c, z, d) = Charged(s, c, ComputeDecayDelta(s, c, z, d - 1), d)
    BY <1>1, <1>2, <2>1, PassSteps
  <2>7. ComputeDecayDelta(s, c, z, d - 1) = [x EXCEPT !.last = d1]
    BY <1>4, <2>3
  <2>8. Charged(s, c, [x EXCEPT !.last = d1], d) = [Charged(s, c, x, d) EXCEPT !.last = d1]
    BY <2>4, RedatedCharge
  <2>. QED
    BY <2>5, <2>6, <2>7, <2>8
<1>5. d2 \in Same
  <2>. HIDE DEF Same
  <2>1. \A d \in d1..d2 : d \in Same
    BY <1>1, <1>3, <1>4, DayByDay
  <2>. QED
    BY <1>1, <2>1
<1>. QED
  BY <1>5

(* Catching up on one day and again on a later one leaves the row that       *)
(* catching up once, on the later day, leaves, as long as the league is in   *)
(* its crunch on both days or on neither: who is looked at often pays what   *)
(* who is looked at seldom pays (computeDecayDelta, applyPendingDecay).      *)
THEOREM LateIsInTime ==
    ASSUME NEW lg \in LeagueRows, NEW r \in Rows, r.activity \in Days,
           NEW d1 \in Days, NEW d2 \in Days, From(r) <= d1, d1 <= d2,
           IsLeagueInCrunch(lg, d1) <=> IsLeagueInCrunch(lg, d2)
    PROVE  CaughtUp(lg, CaughtUp(lg, r, d1), d2) = CaughtUp(lg, r, d2)
<1>1. From(r) \in Days
  BY DEF Rows, From
<1>2. lg.preset \in Presets
  BY DEF LeagueRows
<1>3. PICK c \in BOOLEAN : c = IsLeagueInCrunch(lg, d1) /\ c = IsLeagueInCrunch(lg, d2)
  BY DEF LeagueRows, IsLeagueInCrunch
<1>4. PICK s : s = Settings[lg.preset]
  OBVIOUS
<1>5. PICK z : z = [ComputeDecayDelta(s, c, r, d1) EXCEPT !.last = d1]
  OBVIOUS
<1>6. CaughtUp(lg, r, d1) = z
  BY <1>3, <1>4, <1>5 DEF CaughtUp
<1>7. PICK x : x = ComputeDecayDelta(s, c, r, d2)
  OBVIOUS
<1>8. ComputeDecayDelta(s, c, z, d2) = [x EXCEPT !.last = d1]
  <2>. DEFINE whole == ComputeDecayDelta(s, c, r, d2)
              cut == ComputeDecayDelta(s, c, z, d2)
  <2>1. cut = [whole EXCEPT !.last = d1]
    BY <1>1, <1>2, <1>4, <1>5, PassInTwo
  <2>2. x = whole
    BY <1>7
  <2>. HIDE DEF whole, cut
  <2>. QED
    BY <2>1, <2>2 DEF cut
<1>9. CaughtUp(lg, z, d2) = [[x EXCEPT !.last = d1] EXCEPT !.last = d2]
  BY <1>3, <1>4, <1>8 DEF CaughtUp
<1>10. CaughtUp(lg, r, d2) = [x EXCEPT !.last = d2]
  BY <1>3, <1>4, <1>7 DEF CaughtUp
<1>11. x \in Rows
  <2>1. From(r) <= d2
    BY <1>1 DEF Days
  <2>. QED
    BY <1>1, <1>2, <1>4, <1>7, <2>1, PassRows DEF Alike
<1>12. [[x EXCEPT !.last = d1] EXCEPT !.last = d2] = [x EXCEPT !.last = d2]
  BY <1>11 DEF Rows
<1>. QED
  BY <1>6, <1>9, <1>10, <1>12

-----------------------------------------------------------------------------
(* How much a pass may take.                                                 *)

(* What a pass has taken of r when it comes to x: no more than was above the *)
(* floor, and outside the crunch no more than the streak's cap leaves.       *)
Within(x, r, s, c) ==
    /\ r.spent <= x.spent /\ x.spent - r.spent = x.streak - r.streak
    /\ Mu(r) >= 0 => Mu(x) >= 0
    /\ Mu(r) < 0 => x.spent = r.spent
    /\ ~c /\ s.streakCap > 0 => x.streak <= AtLeast(r.streak, s.streakCap)

LEMMA MuIs ==
    ASSUME NEW r \in Rows
    PROVE  \E u \in Int : \A x \in Rows : x.won = r.won => Mu(x) = u - x.spent
<1>1. IsFiniteSet(r.won)
  BY IdleDecayAssumption, FS_Subset DEF Rows
<1>2. Cardinality(r.won) \in Nat
  BY <1>1, FS_CardinalityType
<1>3. Gain * Cardinality(r.won) \in Int
  BY <1>2, IdleDecayAssumption
<1>4. PICK v \in Int : v = Gain * Cardinality(r.won)
  BY <1>3
<1>5. \A x \in Rows : x.won = r.won => Mu(x) = (Start + v) - x.spent
  <2>1. SUFFICES ASSUME NEW x \in Rows, x.won = r.won PROVE Mu(x) = (Start + v) - x.spent
    OBVIOUS
  <2>2. Mu(x) = Start + (v - x.spent)
    BY <1>4, <2>1, Zenon DEF Mu
  <2>3. x.spent \in Nat
    BY DEF Rows
  <2>. QED
    BY <2>2, <2>3, IdleDecayAssumption
<1>6. Start + v \in Int
  BY IdleDecayAssumption
<1>. QED
  BY <1>5, <1>6, Zenon

(* One more day keeps a pass within its bounds.                              *)
LEMMA DayWithin ==
    ASSUME NEW preset \in Presets, NEW c \in BOOLEAN, NEW r \in Rows,
           NEW s, s = Settings[preset], NEW d \in Days,
           NEW x \in Rows, x.won = r.won, Within(x, r, s, c),
           NEW y \in Rows, y.won = r.won, y = Charged(s, c, x, d), x.activity \in Days
    PROVE  Within(y, r, s, c)
<1>1. PICK k : k = DayCharge(s, c, x, d)
  OBVIOUS
<1>2. k \in Nat
  BY <1>1, DayChargeIs
<1>3. y.spent = x.spent + k /\ y.streak = x.streak + k
  <2>1. y = [x EXCEPT !.spent = @ + k, !.paid[d] = @ + k, !.streak = @ + k]
    BY <1>1 DEF Charged
  <2>2. PICK q : q = [x.paid EXCEPT ![d] = x.paid[d] + k]
    OBVIOUS
  <2>3. PICK total \in Nat, streak \in Nat : total = x.spent + k /\ streak = x.streak + k
    BY <1>2 DEF Rows
  <2>4. y = [x EXCEPT !.spent = total, !.paid = q, !.streak = streak]
    BY <2>1, <2>2, <2>3 DEF Rows
  <2>5. y.spent = total /\ y.streak = streak
    BY <2>4 DEF Rows
  <2>. QED
    BY <2>3, <2>5
<1>4. PICK u \in Int : \A z \in Rows : z.won = r.won => Mu(z) = u - z.spent
  BY MuIs
<1>5. Mu(r) = u - r.spent /\ Mu(x) = u - x.spent /\ Mu(y) = u - y.spent
  BY <1>4
<1>6. /\ r.spent \in Nat /\ r.streak \in Nat /\ x.spent \in Nat /\ x.streak \in Nat
      /\ s.streakCap \in Nat
  BY IdleDecayAssumption DEF Rows
<1>7. PICK due : due = DailyKiLoss(s, d - x.activity, c)
  OBVIOUS
<1>8. due \in Nat
  <2>1. d - x.activity \in Int
    BY DEF Days
  <2>. QED
    BY <1>7, <2>1, LossIs
<1>9. PICK capped : capped = IF ~c /\ s.streakCap > 0
                             THEN AtMost(due, AtLeast(0, s.streakCap - x.streak)) ELSE due
  OBVIOUS
<1>10. k = AtLeast(0, AtMost(capped, Mu(x)))
  BY <1>1, <1>7, <1>9 DEF DayCharge
<1>11. /\ capped \in Nat
       /\ ~c /\ s.streakCap > 0 => capped <= AtLeast(0, s.streakCap - x.streak)
  BY <1>6, <1>8, <1>9 DEF AtMost, AtLeast
<1>. HIDE DEF Mu
<1>12. PICK mx \in Int, mr \in Int, my \in Int : mx = Mu(x) /\ mr = Mu(r) /\ my = Mu(y)
  BY <1>2, <1>3, <1>5, <1>6
<1>13. /\ k <= capped
       /\ mx >= 0 => k <= mx
       /\ mx < 0 => k = 0
  BY <1>10, <1>11, <1>12 DEF AtMost, AtLeast
<1>14. my = mx - k /\ mx = mr - (x.spent - r.spent)
  BY <1>2, <1>3, <1>5, <1>6, <1>12
<1>15. /\ r.spent <= x.spent /\ x.spent - r.spent = x.streak - r.streak
       /\ mr >= 0 => mx >= 0
       /\ mr < 0 => x.spent = r.spent
       /\ ~c /\ s.streakCap > 0 => x.streak <= AtLeast(r.streak, s.streakCap)
  BY <1>12 DEF Within
<1>16. r.spent <= y.spent /\ y.spent - r.spent = y.streak - r.streak
  BY <1>2, <1>3, <1>6, <1>15
<1>17. mr >= 0 => my >= 0
  BY <1>2, <1>12, <1>13, <1>14, <1>15
<1>18. mr < 0 => y.spent = r.spent
  BY <1>2, <1>3, <1>6, <1>12, <1>13, <1>14, <1>15
<1>19. ASSUME ~c, s.streakCap > 0 PROVE y.streak <= AtLeast(r.streak, s.streakCap)
  <2>1. x.streak <= AtLeast(r.streak, s.streakCap) /\ k <= AtLeast(0, s.streakCap - x.streak)
    BY <1>2, <1>6, <1>11, <1>13, <1>15, <1>19 DEF AtLeast
  <2>. QED
    BY <1>2, <1>3, <1>6, <2>1 DEF AtLeast
<1>. QED
  BY <1>12, <1>16, <1>17, <1>18, <1>19 DEF Within

LEMMA PassWithin ==
    ASSUME NEW preset \in Presets, NEW c \in BOOLEAN, NEW r \in Rows, r.activity \in Days,
           From(r) \in Days, NEW s, s = Settings[preset], NEW now \in Days, From(r) <= now
    PROVE  Within(ComputeDecayDelta(s, c, r, now), r, s, c)
<1>1. PICK a \in Int : a = From(r) /\ a <= now /\ now \in Int /\ \A d \in a..now : d \in Days /\ d \in Int /\ a <= d
  BY IdleDecayAssumption DEF Days
<1>. DEFINE Good == {d \in a..now : Within(ComputeDecayDelta(s, c, r, d), r, s, c)}
<1>2. a \in Good
  <2>1. ComputeDecayDelta(s, c, r, a) = r
    BY <1>1, PassSteps
  <2>2. PICK u \in Int : Mu(r) = u
    BY MuIs DEF Rows
  <2>3. r.spent \in Nat /\ r.streak \in Nat /\ s.streakCap \in Nat
    BY IdleDecayAssumption DEF Rows
  <2>4. Within(r, r, s, c)
    <3>. HIDE DEF Mu
    <3>. QED
      BY <2>2, <2>3 DEF Within, AtLeast
  <2>. QED
    BY <1>1, <2>1, <2>4
<1>3. ASSUME NEW d \in a..now, d - 1 \in a..now, d - 1 \in Good PROVE d \in Good
  <2>1. d \in Days /\ d \in Int /\ d - 1 \in Days /\ a <= d - 1 /\ d # a /\ a <= d
    BY <1>1, <1>3
  <2>2. PICK x, y : x = ComputeDecayDelta(s, c, r, d - 1) /\ y = ComputeDecayDelta(s, c, r, d)
    OBVIOUS
  <2>3. y = Charged(s, c, x, d)
    BY <1>1, <2>1, <2>2, PassSteps
  <2>4. Alike(x, r) /\ Alike(y, r)
    BY <1>1, <2>1, <2>2, PassRows
  <2>5. /\ x \in Rows /\ x.won = r.won /\ x.activity \in Days
        /\ y \in Rows /\ y.won = r.won
    BY <2>4 DEF Alike
  <2>6. Within(x, r, s, c)
    BY <1>3, <2>2
  <2>7. Within(y, r, s, c)
    <3>. HIDE DEF Good
    <3>. QED
      BY <2>1, <2>3, <2>5, <2>6, DayWithin
  <2>. QED
    BY <2>2, <2>7
<1>4. now \in Good
  <2>. HIDE DEF Good
  <2>1. \A d \in a..now : d \in Good
    BY <1>1, <1>2, <1>3, DayByDay
  <2>. QED
    BY <1>1, <2>1
<1>. QED
  BY <1>4

(* Catching up never takes a rating below the floor, and takes nothing of    *)
(* one that is there already, however many days are charged at once; and     *)
(* what it takes is what it adds to the streak (computeDecayDelta).          *)
THEOREM FloorHolds ==
    ASSUME NEW lg \in LeagueRows, NEW r \in Rows, r.activity \in Days,
           NEW now \in Days, From(r) <= now, NEW y, y = CaughtUp(lg, r, now)
    PROVE  /\ Mu(r) >= 0 => 0 <= Mu(y) /\ Mu(y) <= Mu(r)
           /\ Mu(r) < 0 => Mu(y) = Mu(r)
           /\ Mu(r) - Mu(y) = y.streak - r.streak
<1>1. From(r) \in Days /\ lg.preset \in Presets /\ IsLeagueInCrunch(lg, now) \in BOOLEAN
  BY DEF Rows, From, LeagueRows, IsLeagueInCrunch
<1>2. PICK s : s = Settings[lg.preset]
  OBVIOUS
<1>3. PICK x : x = ComputeDecayDelta(s, IsLeagueInCrunch(lg, now), r, now)
  OBVIOUS
<1>4. Alike(x, r) /\ Within(x, r, s, IsLeagueInCrunch(lg, now))
  BY <1>1, <1>2, <1>3, PassRows, PassWithin
<1>5. y = [x EXCEPT !.last = now]
  BY <1>2, <1>3 DEF CaughtUp
<1>6. /\ y \in Rows /\ y.won = r.won /\ y.spent = x.spent /\ y.streak = x.streak
      /\ x \in Rows /\ x.won = r.won
  BY <1>4, <1>5 DEF Alike, Rows
<1>7. PICK u \in Int : \A z \in Rows : z.won = r.won => Mu(z) = u - z.spent
  BY MuIs
<1>8. Mu(r) = u - r.spent /\ Mu(x) = u - x.spent /\ Mu(y) = u - x.spent
  BY <1>6, <1>7
<1>9. r.spent \in Nat /\ x.spent \in Nat /\ r.streak \in Nat /\ x.streak \in Nat
  BY <1>6 DEF Rows
<1>. HIDE DEF Mu
<1>10. /\ r.spent <= x.spent /\ x.spent - r.spent = x.streak - r.streak
       /\ Mu(r) >= 0 => Mu(x) >= 0
       /\ Mu(r) < 0 => x.spent = r.spent
  BY <1>4 DEF Within
<1>. QED
  BY <1>6, <1>8, <1>9, <1>10

(* Outside the crunch idleness never takes a streak past the league's cap,   *)
(* however many days are charged at once: a streak that is past it already,  *)
(* from a crunch or a higher cap, stays as it is (computeDecayDelta).        *)
THEOREM StreakCapped ==
    ASSUME NEW lg \in LeagueRows, NEW r \in Rows, r.activity \in Days,
           NEW now \in Days, From(r) <= now, NEW y, y = CaughtUp(lg, r, now),
           ~IsLeagueInCrunch(lg, now), Settings[lg.preset].streakCap > 0
    PROVE  /\ r.streak <= y.streak
           /\ y.streak <= AtLeast(r.streak, Settings[lg.preset].streakCap)
<1>1. From(r) \in Days /\ lg.preset \in Presets /\ IsLeagueInCrunch(lg, now) \in BOOLEAN
  BY DEF Rows, From, LeagueRows, IsLeagueInCrunch
<1>2. PICK s : s = Settings[lg.preset]
  OBVIOUS
<1>3. PICK x : x = ComputeDecayDelta(s, IsLeagueInCrunch(lg, now), r, now)
  OBVIOUS
<1>4. Alike(x, r) /\ Within(x, r, s, IsLeagueInCrunch(lg, now))
  BY <1>1, <1>2, <1>3, PassRows, PassWithin
<1>5. y = [x EXCEPT !.last = now]
  BY <1>2, <1>3 DEF CaughtUp
<1>6. y.streak = x.streak /\ x.spent \in Nat /\ x.streak \in Nat /\ r.spent \in Nat /\ r.streak \in Nat
  BY <1>4, <1>5 DEF Alike, Rows
<1>7. /\ r.spent <= x.spent /\ x.spent - r.spent = x.streak - r.streak
      /\ x.streak <= AtLeast(r.streak, s.streakCap)
  BY <1>2, <1>4 DEF Within
<1>. QED
  BY <1>2, <1>6, <1>7

-----------------------------------------------------------------------------
(* What is between the handlers' steps: whoever is at work holds rows of     *)
(* leagues, matches and players that are there, an archived league has one   *)
(* successor, and what is bound or being rolled over is in play.             *)

VisitSound(v) ==
    /\ v.op # "idle" => league[v.league].status # "none"
    /\ v.op = "catchup" =>
          v.player \in Players /\ v.rows[v.player] \in Rows /\ row[v.league][v.player] # None
    /\ v.op \in {"complete", "flip", "void"} =>
          v.match \in Matches /\ match[v.match].league = v.league /\ match[v.match].status # "none"
    /\ v.op = "complete" =>
          \A p \in Players : /\ v.rows[p] \in Rows
                             /\ row[v.league][p] = None => v.rows[p] = DefaultRow /\ p \in v.caught

BatchSound(b) ==
    /\ \A l \in b.leagues : league[l].status # "none"
    /\ b.hit => b.league # None
    /\ b.league # None => league[b.league].status # "none"
    /\ b.player # None => b.league # None /\ b.held \in Rows /\ row[b.league][b.player] # None

MatchSound(m) ==
    LET x == match[m] IN
    /\ x.status # "none" => league[x.league].status # "none"
    /\ x.status = "COMPLETED" =>
          x.day # None /\ \A p \in Players : x.snap[p] \in Rows /\ row[x.league][p] # None
    /\ x.status = "ACTIVE" /\ league[x.league].status = "ARCHIVED" => x.late
    /\ x.late => x.status # "none" /\ league[x.league].status = "ARCHIVED"
    /\ x.day # None => x.status # "none" /\ x.day <= today

LeagueSound(l) ==
    /\ league[l].status = "none" => league[l] = NoLeague /\ l \notin unsynced
    /\ league[l].pred # None => league[league[l].pred].status = "ARCHIVED"
    /\ league[l].mode # None => league[l].pred # None
    /\ league[l].status = "ARCHIVED" => \E n \in Leagues : \A k \in Leagues : league[k].pred = l <=> k = n

ChannelSound(c) == leagueOf[c] # None => league[leagueOf[c]].status = "ACTIVE" /\ c \notin eventBound

DraftSound(d) == draft[d] # None => league[draft[d].source].status # "none"

ConfirmSound ==
    confirm # NoConfirm =>
        /\ confirm.draft \in Drafts /\ draft[confirm.draft] # None
        /\ league[draft[confirm.draft].source].status = "ACTIVE"
        /\ \A p \in Players : confirm.rows[p] # None => row[draft[confirm.draft].source][p] # None

Sound ==
    /\ \A t \in Visits : VisitSound(visit[t])
    /\ \A b \in Batches : BatchSound(batch[b])
    /\ \A m \in Matches : MatchSound(m)
    /\ \A l \in Leagues : LeagueSound(l)
    /\ \A c \in Channels : ChannelSound(c)
    /\ \A d \in Drafts : DraftSound(d)
    /\ ConfirmSound

-----------------------------------------------------------------------------
(* Types of what the handlers write.                                         *)

(* The mark of what is not there is nothing else.                           *)
LEMMA Apart ==
    /\ None \notin Players /\ None \notin Leagues /\ None \notin Drafts /\ None \notin Matches
    /\ None \notin Rows /\ None \notin Days /\ None \notin Int
BY IdleDecayAssumption, SeasonAssumption DEF Days

LEMMA DefaultRowIs == DefaultRow \in Rows
BY DEF DefaultRow, Rows

(* A write of the rating sets the results and what was paid, and no more.   *)
LEMMA MuWriteIs ==
    ASSUME NEW r \in Rows, NEW w \in Rows, NEW y, y = MuWrite(r, w)
    PROVE  /\ y \in Rows /\ y.won = w.won /\ y.spent = w.spent /\ y.paid = w.paid
           /\ y.taxed = w.taxed /\ y.activity = r.activity /\ y.last = r.last
           /\ y.streak = r.streak
<1>1. y = [won |-> w.won, spent |-> w.spent, paid |-> w.paid, taxed |-> w.taxed,
           activity |-> r.activity, last |-> r.last, streak |-> r.streak]
  BY DEF MuWrite, Rows
<1>. QED
  BY <1>1 DEF Rows

(* A write of decay keeps the activity of the row it finds.                 *)
LEMMA DecayWriteIs ==
    ASSUME NEW r \in Rows, NEW w \in Rows, NEW y, y = DecayWrite(r, w)
    PROVE  /\ y \in Rows /\ y.won = w.won /\ y.paid = w.paid /\ y.taxed = w.taxed
           /\ y.activity = r.activity /\ y.last = w.last
BY DEF DecayWrite, Rows

(* A result added, and a game finished as activity of its day.              *)
LEMMA ResultIs ==
    ASSUME NEW r \in Rows, NEW m \in Matches, NEW y, y = [r EXCEPT !.won = r.won \cup {m}]
    PROVE  /\ y \in Rows /\ y.won = r.won \cup {m} /\ y.paid = r.paid /\ y.taxed = r.taxed
           /\ y.activity = r.activity /\ y.last = r.last
BY DEF Rows

LEMMA ActivityResetIs ==
    ASSUME NEW r \in Rows, NEW day \in Days, NEW y, y = IdleDecayActivityReset(r, day)
    PROVE  /\ y \in Rows /\ y.won = r.won /\ y.paid = r.paid /\ y.taxed = r.taxed
           /\ y.activity = day /\ y.last = None
<1>1. y = [won |-> r.won, spent |-> r.spent, paid |-> r.paid, taxed |-> r.taxed,
           activity |-> day, last |-> None, streak |-> 0]
  BY DEF IdleDecayActivityReset, Rows
<1>. QED
  BY <1>1 DEF Rows

-----------------------------------------------------------------------------
(* What stays sound when a step only adds.                                   *)

Grown ==
    /\ \A l \in Leagues : league[l].status # "none" => league'[l].status # "none"
    /\ \A l \in Leagues, p \in Players :
          league[l].status # "none" /\ row[l][p] # None => row'[l][p] # None
    /\ \A m \in Matches : match[m].status # "none" =>
          match'[m].status # "none" /\ match'[m].league = match[m].league

(* Seasons are what they were, whatever else is set for them.               *)
SameSeasons ==
    \A l \in Leagues : /\ league'[l].status = league[l].status /\ league'[l].pred = league[l].pred
                       /\ league'[l].mode = league[l].mode

LEMMA Grows ==
    ASSUME TypeOK, Sound, Grown
    PROVE  /\ \A t \in Visits : visit'[t] = visit[t] => VisitSound(visit[t])'
           /\ \A b \in Batches : batch'[b] = batch[b] => BatchSound(batch[b])'
           /\ \A d \in Drafts : draft'[d] = draft[d] => DraftSound(d)'
<1>1. ASSUME NEW t \in Visits, visit'[t] = visit[t] PROVE VisitSound(visit[t])'
  <2>1. PICK v \in Visitors : v = visit[t] /\ v = visit'[t]
    BY <1>1 DEF TypeOK
  <2>2. v.league \in Leagues
    BY DEF Visitors
  <2>3. VisitSound(v)
    BY <2>1 DEF Sound
  <2>. QED
    BY <2>1, <2>2, <2>3 DEF VisitSound, Grown
<1>2. ASSUME NEW b \in Batches, batch'[b] = batch[b] PROVE BatchSound(batch[b])'
  <2>1. PICK v \in Ticks : v = batch[b] /\ v = batch'[b]
    BY <1>2 DEF TypeOK
  <2>2. v.league # None => v.league \in Leagues
    BY DEF Ticks
  <2>3. v.leagues \subseteq Leagues /\ (v.player # None => v.player \in Players)
    BY DEF Ticks
  <2>4. BatchSound(v)
    BY <2>1 DEF Sound
  <2>. QED
    BY <2>1, <2>2, <2>3, <2>4 DEF BatchSound, Grown
<1>3. ASSUME NEW d \in Drafts, draft'[d] = draft[d] PROVE DraftSound(d)'
  <2>1. draft[d] # None => draft[d].source \in Leagues
    BY DEF TypeOK
  <2>. QED
    BY <1>3, <2>1 DEF Sound, DraftSound, Grown
<1>. QED
  BY <1>1, <1>2, <1>3

LEMMA MatchKept ==
    ASSUME TypeOK, TypeOK', Sound, Grown, SameSeasons, today' >= today,
           NEW m \in Matches, match'[m] = match[m]
    PROVE  MatchSound(m)'
<1>1. PICK x \in MatchRows : x = match[m] /\ x = match'[m]
  BY DEF TypeOK
<1>2. x.league \in Leagues /\ (x.day # None => x.day \in Int) /\ today \in Int /\ today' \in Int
  BY DEF MatchRows, TypeOK, Days
<1>3. x.day # None /\ x.day <= today => x.day <= today'
  BY <1>2
<1>4. MatchSound(m)
  BY DEF Sound
<1>. QED
  BY <1>1, <1>2, <1>3, <1>4 DEF MatchSound, Grown, SameSeasons

LEMMA LeaguesKept ==
    ASSUME TypeOK, Sound, SameSeasons, NEW l \in Leagues,
           league'[l] = league[l] \/ league[l].status # "none",
           l \in unsynced' => l \in unsynced \/ league[l].status # "none"
    PROVE  LeagueSound(l)'
<1>1. LeagueSound(l)
  BY DEF Sound
<1>2. league[l].pred # None => league[l].pred \in Leagues
  BY DEF TypeOK, LeagueRows
<1>. QED
  BY <1>1, <1>2 DEF LeagueSound, SameSeasons, NoLeague, NewLeague

LEMMA ChannelKept ==
    ASSUME TypeOK, Sound, SameSeasons, NEW c \in Channels, leagueOf'[c] = leagueOf[c],
           c \in eventBound' => c \in eventBound
    PROVE  ChannelSound(c)'
<1>1. ChannelSound(c)
  BY DEF Sound
<1>2. leagueOf[c] # None => leagueOf[c] \in Leagues
  BY DEF TypeOK
<1>. QED
  BY <1>1, <1>2 DEF ChannelSound, SameSeasons

LEMMA ConfirmKept ==
    ASSUME TypeOK, Sound, Grown, SameSeasons, confirm' = confirm,
           \A d \in Drafts : confirm.draft = d => draft'[d] = draft[d]
    PROVE  ConfirmSound'
<1>. SUFFICES ASSUME confirm # NoConfirm PROVE ConfirmSound'
  BY DEF ConfirmSound, NoConfirm, NoLeague, NewLeague
<1>1. ConfirmSound
  BY DEF Sound
<1>2. PICK d \in Drafts : confirm.draft = d /\ draft[d] # None
  BY <1>1 DEF ConfirmSound
<1>3. draft[d].source \in Leagues /\ draft'[d] = draft[d]
  BY <1>2 DEF TypeOK
<1>. QED
  BY <1>1, <1>2, <1>3 DEF ConfirmSound, Grown, SameSeasons

(* A mark stays, unless a tick of the role scheduler clears it.             *)
LEMMA MarksKept ==
    ASSUME RolesMarked, \A l \in Leagues : league'[l].status = league[l].status, unsynced' \subseteq unsynced,
           TypeOK, missed \subseteq missed', \A l \in Leagues : league[l].dirty => league'[l].dirty,
           \A t \in Visits : visit[t].op = "notify" => visit'[t] = visit[t]
    PROVE  RolesMarked'
<1>. SUFFICES ASSUME NEW l \in unsynced', league'[l].status = "ACTIVE"
              PROVE  \/ league'[l].dirty \/ l \in missed'
                     \/ \E t \in Visits : visit'[t].op = "notify" /\ visit'[t].league = l
  BY DEF RolesMarked, IsLeagueWritable
<1>1. l \in unsynced /\ l \in Leagues
  BY DEF TypeOK
<1>2. league[l].status = "ACTIVE"
  BY <1>1
<1>. QED
  BY <1>1, <1>2 DEF RolesMarked, IsLeagueWritable

-----------------------------------------------------------------------------
(* Steps that change one handler's memory, or one league's settings.         *)

IInv == TypeOK /\ Sound /\ RolesMarked

LEMMA VisitTurns ==
    ASSUME IInv, NEW t \in Visits, NEW v \in Visitors, visit' = [visit EXCEPT ![t] = v],
           UNCHANGED <<today, tenancy, row, match, batch, batchDay, confirm, sync, history, bounds>>,
           VisitSound(v), visit[t].op # "notify"
    PROVE  IInv'
<1>. USE DEF IInv
<1>1. /\ UNCHANGED <<today, league, leagueOf, eventBound, draft, row, match, batch, batchDay, confirm, sync>>
      /\ UNCHANGED <<unsynced, missed, lost, redated, plan, staff, faults>>
  BY DEF tenancy, history, bounds
<1>2. TypeOK'
  <2>1. visit' \in [Visits -> Visitors]
    BY DEF TypeOK
  <2>. QED
    BY <1>1, <2>1 DEF TypeOK
<1>3. Grown /\ SameSeasons /\ today' >= today
  BY <1>1 DEF Grown, SameSeasons, TypeOK, Days
<1>4. \A u \in Visits : visit'[u] = IF u = t THEN v ELSE visit[u]
  BY DEF TypeOK
<1>5. Sound'
  <2>1. ASSUME NEW u \in Visits PROVE VisitSound(visit[u])'
    <3>1. CASE u = t
      BY <1>1, <1>4, <3>1 DEF VisitSound
    <3>2. CASE u # t
      BY <1>3, <1>4, <3>2, Grows
    <3>. QED
      BY <3>1, <3>2
  <2>2. \A b \in Batches : BatchSound(batch[b])'
    BY <1>1, <1>3, Grows
  <2>3. \A m \in Matches : MatchSound(m)'
    BY <1>1, <1>2, <1>3, MatchKept
  <2>4. \A l \in Leagues : LeagueSound(l)'
    BY <1>1, <1>3, LeaguesKept
  <2>5. \A c \in Channels : ChannelSound(c)'
    BY <1>1, <1>3, ChannelKept
  <2>6. \A d \in Drafts : DraftSound(d)'
    BY <1>1, <1>3, Grows
  <2>7. ConfirmSound'
    BY <1>1, <1>3, ConfirmKept
  <2>. QED
    BY <2>1, <2>2, <2>3, <2>4, <2>5, <2>6, <2>7 DEF Sound
<1>6. RolesMarked'
  BY <1>1, <1>4, MarksKept
<1>. QED
  BY <1>2, <1>5, <1>6

LEMMA BatchTurns ==
    ASSUME IInv, NEW b \in Batches, NEW x \in Ticks, batch' = [batch EXCEPT ![b] = x],
           UNCHANGED <<today, tenancy, row, match, visit, confirm, sync, history, plan, staff>>,
           batchDay' = batchDay, faults' \in 0..MaxFaults, BatchSound(x)
    PROVE  IInv'
<1>. USE DEF IInv
<1>1. /\ UNCHANGED <<today, league, leagueOf, eventBound, draft, row, match, visit, batchDay, confirm, sync>>
      /\ UNCHANGED <<unsynced, missed, lost, redated, plan, staff>>
  BY DEF tenancy, history
<1>2. TypeOK'
  <2>1. batch' \in [Batches -> Ticks]
    BY DEF TypeOK
  <2>. QED
    BY <1>1, <2>1 DEF TypeOK
<1>3. Grown /\ SameSeasons /\ today' >= today
  BY <1>1 DEF Grown, SameSeasons, TypeOK, Days
<1>4. \A u \in Batches : batch'[u] = IF u = b THEN x ELSE batch[u]
  BY DEF TypeOK
<1>5. Sound'
  <2>1. \A u \in Visits : VisitSound(visit[u])'
    BY <1>1, <1>3, Grows
  <2>2. ASSUME NEW u \in Batches PROVE BatchSound(batch[u])'
    <3>1. CASE u = b
      BY <1>1, <1>4, <3>1 DEF BatchSound
    <3>2. CASE u # b
      BY <1>3, <1>4, <3>2, Grows
    <3>. QED
      BY <3>1, <3>2
  <2>3. \A m \in Matches : MatchSound(m)'
    BY <1>1, <1>2, <1>3, MatchKept
  <2>4. \A l \in Leagues : LeagueSound(l)'
    BY <1>1, <1>3, LeaguesKept
  <2>5. \A c \in Channels : ChannelSound(c)'
    BY <1>1, <1>3, ChannelKept
  <2>6. \A d \in Drafts : DraftSound(d)'
    BY <1>1, <1>3, Grows
  <2>7. ConfirmSound'
    BY <1>1, <1>3, ConfirmKept
  <2>. QED
    BY <2>1, <2>2, <2>3, <2>4, <2>5, <2>6, <2>7 DEF Sound
<1>6. RolesMarked'
  BY <1>1, MarksKept
<1>. QED
  BY <1>2, <1>5, <1>6

LEMMA SettingsTurn ==
    ASSUME IInv, NEW l \in Leagues, NEW lg \in LeagueRows, league' = [league EXCEPT ![l] = lg],
           UNCHANGED <<today, leagueOf, eventBound, draft, row, match, visit, batch, batchDay, confirm, sync>>,
           UNCHANGED <<history, plan, faults>>, staff' \in 0..MaxStaff,
           league[l].status = "ACTIVE", lg.status = "ACTIVE", lg.pred = league[l].pred,
           lg.mode = league[l].mode, league[l].dirty => lg.dirty
    PROVE  IInv'
<1>. USE DEF IInv
<1>1. UNCHANGED <<unsynced, missed, lost, redated>>
  BY DEF history
<1>2. TypeOK'
  <2>1. league' \in [Leagues -> LeagueRows]
    BY DEF TypeOK
  <2>. QED
    BY <1>1, <2>1 DEF TypeOK
<1>3. \A k \in Leagues : league'[k] = IF k = l THEN lg ELSE league[k]
  BY DEF TypeOK
<1>4. Grown /\ SameSeasons /\ today' >= today
  BY <1>3 DEF Grown, SameSeasons, TypeOK, Days
<1>5. Sound'
  <2>1. \A u \in Visits : VisitSound(visit[u])'
    BY <1>4, Grows
  <2>2. \A u \in Batches : BatchSound(batch[u])'
    BY <1>4, Grows
  <2>3. \A m \in Matches : MatchSound(m)'
    BY <1>2, <1>4, MatchKept
  <2>4. \A k \in Leagues : LeagueSound(k)'
    BY <1>1, <1>3, <1>4, LeaguesKept
  <2>5. \A c \in Channels : ChannelSound(c)'
    BY <1>4, ChannelKept
  <2>6. \A d \in Drafts : DraftSound(d)'
    BY <1>4, Grows
  <2>7. ConfirmSound'
    BY <1>4, ConfirmKept
  <2>. QED
    BY <2>1, <2>2, <2>3, <2>4, <2>5, <2>6, <2>7 DEF Sound
<1>6. RolesMarked'
  <2>1. \A k \in Leagues : league'[k].status = league[k].status /\ (league[k].dirty => league'[k].dirty)
    BY <1>3
  <2>. QED
    BY <1>1, <2>1, MarksKept
<1>. QED
  BY <1>2, <1>5, <1>6

-----------------------------------------------------------------------------
(* Looking and reading: catch-ups, lobbies, completions and corrections      *)
(* that have written nothing yet.                                            *)

LEMMA RowIs ==
    ASSUME TypeOK, NEW l \in Leagues, NEW p \in Players
    PROVE  /\ row[l][p] # None => row[l][p] \in Rows
           /\ league[l] \in LeagueRows /\ today \in Days
BY DEF TypeOK

LEMMA CaughtIs ==
    ASSUME TypeOK, NEW l \in Leagues, NEW p \in Players, Due(l, p)
    PROVE  /\ row[l][p] \in Rows /\ league[l].status = "ACTIVE"
           /\ Caught(l, p) \in Rows
           /\ Caught(l, p).won = row[l][p].won /\ Caught(l, p).taxed = row[l][p].taxed
           /\ Caught(l, p).activity = row[l][p].activity /\ Caught(l, p).last = today
           /\ row[l][p].activity \in Days /\ From(row[l][p]) \in Days /\ From(row[l][p]) < today
           /\ PaysFor(Caught(l, p), row[l][p], Settings[league[l].preset], today)
<1>1. Decays(league[l], row[l][p], Games(l), today)
  BY DEF Due
<1>2. row[l][p] \in Rows /\ league[l].status = "ACTIVE"
  BY <1>1, RowIs DEF Decays
<1>3. PICK y : y = CaughtUp(league[l], row[l][p], today)
  OBVIOUS
<1>4. Caught(l, p) = y
  BY <1>3 DEF Caught
<1>5. /\ y \in Rows /\ y.won = row[l][p].won /\ y.taxed = row[l][p].taxed /\ y.activity = row[l][p].activity
      /\ y.last = today /\ row[l][p].activity \in Days /\ From(row[l][p]) \in Days /\ From(row[l][p]) < today
      /\ PaysFor(y, row[l][p], Settings[league[l].preset], today)
  <2>1. league[l] \in LeagueRows /\ today \in Days
    BY RowIs
  <2>. QED
    BY <1>1, <1>2, <1>3, <2>1, CaughtUpIs
<1>. QED
  BY <1>2, <1>4, <1>5

(* A second look at a row that may be due: as it is, or with its pending    *)
(* days charged.                                                            *)
LEMMA CatchUpIfDueIs ==
    ASSUME TypeOK, NEW l \in Leagues, NEW r \in Rows, NEW games, NEW y, y = CatchUpIfDue(l, r, games)
    PROVE  /\ y \in Rows /\ y.won = r.won /\ y.taxed = r.taxed /\ y.activity = r.activity
           /\ y.last \in {today, r.last}
           /\ \/ y = r
              \/ /\ y.last = today /\ r.activity \in Days /\ From(r) \in Days /\ From(r) < today
                 /\ PaysFor(y, r, Settings[league[l].preset], today)
<1>1. PICK lg \in LeagueRows : lg = league[l]
  BY DEF TypeOK
<1>2. PICK now \in Days : now = today
  BY DEF TypeOK
<1>3. CASE Decays(lg, r, games, now)
  <2>1. y = CaughtUp(lg, r, now)
    BY <1>1, <1>2, <1>3 DEF CatchUpIfDue
  <2>. QED
    BY <1>1, <1>2, <1>3, <2>1, CaughtUpIs
<1>4. CASE ~Decays(lg, r, games, now)
  BY <1>1, <1>2, <1>4 DEF CatchUpIfDue
<1>. QED
  BY <1>3, <1>4

LEMMA NoVisitIs ==
    /\ NoVisit \in Visitors /\ NoVisit.op = "idle" /\ NoVisit.caught = {}
    /\ NoVisit.rows = [p \in Players |-> None]
BY SeasonAssumption DEF NoVisit, Visitors

LEMMA CatchUpLoadSound ==
    ASSUME IInv, NEW t \in Visits, NEW l \in Leagues, NEW p \in Players, CatchUpLoad(t, l, p)
    PROVE  IInv'
<1>. USE DEF IInv
<1>1. PICK rows : rows = [NoVisit.rows EXCEPT ![p] = Caught(l, p)]
  OBVIOUS
<1>2. Due(l, p) /\ visit[t].op = "idle"
  BY DEF CatchUpLoad
<1>3. /\ rows \in [Players -> Rows \cup {None}]
      /\ rows[p] \in Rows
  BY <1>1, <1>2, CaughtIs, NoVisitIs
<1>4. PICK v : v = [NoVisit EXCEPT !.op = "catchup", !.league = l, !.player = p, !.rows = rows]
  OBVIOUS
<1>5. v \in Visitors /\ v.op = "catchup" /\ v.league = l /\ v.player = p /\ v.rows = rows
  BY <1>3, <1>4, NoVisitIs DEF Visitors
<1>6. visit' = [visit EXCEPT ![t] = v]
  BY <1>1, <1>4 DEF CatchUpLoad
<1>7. VisitSound(v)
  <2>1. row[l][p] # None /\ league[l].status = "ACTIVE"
    BY <1>2, CaughtIs, Apart
  <2>. QED
    BY <1>3, <1>5, <2>1 DEF VisitSound
<1>. QED
  BY <1>2, <1>5, <1>6, <1>7, VisitTurns DEF CatchUpLoad

LEMMA CreateLookSound ==
    ASSUME IInv, NEW t \in Visits, NEW l \in Leagues, CreateLook(t, l)
    PROVE  IInv'
<1>. USE DEF IInv
<1>1. PICK v : v = [NoVisit EXCEPT !.op = "create", !.league = l]
  OBVIOUS
<1>2. v \in Visitors /\ v.op = "create" /\ v.league = l
  BY <1>1, NoVisitIs DEF Visitors
<1>3. VisitSound(v)
  BY <1>2 DEF CreateLook, VisitSound, IsLeagueAcceptingPlay, IsLeagueWritable
<1>. QED
  BY <1>1, <1>2, <1>3, VisitTurns DEF CreateLook

(* What a completion holds, once it has read.                               *)
LEMMA CompleteLoadIs ==
    ASSUME IInv, NEW t \in Visits, NEW m \in Matches, NEW q \in SUBSET Players, CompleteLoad(t, m, q)
    PROVE  \E v \in Visitors :
              /\ visit' = [visit EXCEPT ![t] = v]
              /\ v.op = "complete" /\ v.league = match[m].league /\ v.match = m /\ v.quit = q
              /\ v.caught = {p \in Players : row[match[m].league][p] = None \/ Due(match[m].league, p)}
              /\ \A p \in Players :
                    LET r == row[match[m].league][p] IN
                    /\ r = None => v.rows[p] = DefaultRow
                    /\ r # None /\ Due(match[m].league, p) => v.rows[p] = Caught(match[m].league, p)
                    /\ r # None /\ ~Due(match[m].league, p) => v.rows[p] = r
                    /\ v.rows[p] \in Rows
<1>. USE DEF IInv
<1>1. PICK l \in Leagues : l = match[m].league
  BY DEF TypeOK, MatchRows
<1>2. PICK written : written = {p \in Players : row[l][p] = None \/ Due(l, p)}
  OBVIOUS
<1>3. PICK rows : rows = [p \in Players |-> CASE row[l][p] = None -> DefaultRow
                                              [] row[l][p] # None /\ Due(l, p) -> Caught(l, p)
                                              [] OTHER -> row[l][p]]
  OBVIOUS
<1>4. PICK v : v = [NoVisit EXCEPT !.op = "complete", !.league = l, !.match = m, !.quit = q,
                                   !.caught = written, !.rows = rows]
  OBVIOUS
<1>5. visit' = [visit EXCEPT ![t] = v]
  BY <1>1, <1>2, <1>3, <1>4 DEF CompleteLoad
<1>6. ASSUME NEW p \in Players
      PROVE  /\ row[l][p] = None => rows[p] = DefaultRow
             /\ row[l][p] # None /\ Due(l, p) => rows[p] = Caught(l, p)
             /\ row[l][p] # None /\ ~Due(l, p) => rows[p] = row[l][p]
             /\ rows[p] \in Rows
  <2>1. rows[p] = CASE row[l][p] = None -> DefaultRow
                    [] row[l][p] # None /\ Due(l, p) -> Caught(l, p)
                    [] OTHER -> row[l][p]
    BY <1>3
  <2>2. Due(l, p) => Caught(l, p) \in Rows
    BY CaughtIs
  <2>3. row[l][p] # None => row[l][p] \in Rows
    BY RowIs
  <2>4. Due(l, p) \in BOOLEAN
    BY DEF Due, Decays
  <2>. QED
    BY <2>1, <2>2, <2>3, <2>4, DefaultRowIs
<1>7. rows \in [Players -> Rows \cup {None}]
  BY <1>3, <1>6
<1>8. written \subseteq Players
  BY <1>2
<1>9. /\ v \in Visitors /\ v.op = "complete" /\ v.league = l /\ v.match = m /\ v.quit = q
      /\ v.caught = written /\ v.rows = rows
  BY <1>4, <1>7, <1>8, NoVisitIs DEF Visitors
<1>. QED
  BY <1>1, <1>2, <1>5, <1>6, <1>9

LEMMA CompleteLoadSound ==
    ASSUME IInv, NEW t \in Visits, NEW m \in Matches, NEW q \in SUBSET Players, CompleteLoad(t, m, q)
    PROVE  IInv'
<1>. USE DEF IInv
<1>1. PICK v \in Visitors :
         /\ visit' = [visit EXCEPT ![t] = v]
         /\ v.op = "complete" /\ v.league = match[m].league /\ v.match = m
         /\ v.caught = {p \in Players : row[match[m].league][p] = None \/ Due(match[m].league, p)}
         /\ \A p \in Players : /\ row[match[m].league][p] = None => v.rows[p] = DefaultRow
                               /\ v.rows[p] \in Rows
  BY CompleteLoadIs
<1>2. match[m].status = "ACTIVE" /\ visit[t].op = "idle"
  BY DEF CompleteLoad
<1>3. league[match[m].league].status # "none"
  BY <1>2 DEF Sound, MatchSound
<1>4. VisitSound(v)
  BY <1>1, <1>2, <1>3 DEF VisitSound
<1>. QED
  BY <1>1, <1>2, <1>4, VisitTurns DEF CompleteLoad

LEMMA CorrectLookSound ==
    ASSUME IInv, NEW t \in Visits, NEW m \in Matches, NEW op, CorrectLook(t, m, op)
    PROVE  IInv'
<1>. USE DEF IInv
<1>1. PICK v : v = [NoVisit EXCEPT !.op = op, !.league = match[m].league, !.match = m]
  OBVIOUS
<1>2. /\ op \in {"flip", "void"} /\ match[m].status = "COMPLETED" /\ visit[t].op = "idle"
      /\ league[match[m].league].status = "ACTIVE"
  BY DEF CorrectLook, Correctable, IsLeagueWritable
<1>3. match[m].league \in Leagues
  BY DEF TypeOK, MatchRows
<1>4. v \in Visitors /\ v.op = op /\ v.league = match[m].league /\ v.match = m
  BY <1>1, <1>2, <1>3, NoVisitIs DEF Visitors
<1>5. VisitSound(v)
  BY <1>2, <1>4 DEF VisitSound
<1>. QED
  BY <1>1, <1>2, <1>4, <1>5, VisitTurns DEF CorrectLook

LEMMA RefusedSound ==
    ASSUME IInv, NEW t \in Visits, Refused(t)
    PROVE  IInv'
<1>. USE DEF IInv
<1>1. visit[t].op # "notify" /\ visit' = [visit EXCEPT ![t] = NoVisit]
  BY DEF Refused
<1>2. VisitSound(NoVisit)
  BY NoVisitIs DEF VisitSound
<1>3. PICK v : v = NoVisit
  OBVIOUS
<1>. QED
  BY <1>1, <1>2, <1>3, NoVisitIs, VisitTurns DEF Refused

-----------------------------------------------------------------------------
(* Decay written, by a catch-up or by the nightly batch.                     *)

LEMMA WriteDecayIs ==
    ASSUME TypeOK, NEW l \in Leagues, NEW p \in Players, NEW r \in Rows, row[l][p] # None,
           WriteDecay(l, p, r)
    PROVE  /\ row' \in [Leagues -> [Players -> Rows \cup {None}]]
           /\ \A k \in Leagues, q \in Players : k # l \/ q # p => row'[k][q] = row[k][q]
           /\ row'[l][p] \in Rows
           /\ row'[l][p].won = r.won /\ row'[l][p].paid = r.paid /\ row'[l][p].taxed = r.taxed
           /\ row'[l][p].activity = row[l][p].activity /\ row'[l][p].last = r.last
           /\ lost \subseteq lost' /\ lost' \subseteq Leagues \X Players
           /\ <<l, p>> \notin lost' =>
                 /\ r.won = row[l][p].won /\ r.taxed = row[l][p].taxed
                 /\ row[l][p].last # None => ~(r.last < row[l][p].last)
<1>1. PICK y : y = DecayWrite(row[l][p], r)
  OBVIOUS
<1>2. /\ y \in Rows /\ y.won = r.won /\ y.paid = r.paid /\ y.taxed = r.taxed
      /\ y.activity = row[l][p].activity /\ y.last = r.last
  BY <1>1, RowIs, DecayWriteIs
<1>3. PICK ps : ps = [row[l] EXCEPT ![p] = y]
  OBVIOUS
<1>4. ps \in [Players -> Rows \cup {None}] /\ \A q \in Players : ps[q] = IF q = p THEN y ELSE row[l][q]
  BY <1>2, <1>3 DEF TypeOK
<1>5. row' = [row EXCEPT ![l] = ps]
  BY <1>1, <1>3 DEF WriteDecay
<1>6. /\ row' \in [Leagues -> [Players -> Rows \cup {None}]]
      /\ \A k \in Leagues : row'[k] = IF k = l THEN ps ELSE row[k]
  BY <1>4, <1>5 DEF TypeOK
<1>7. lost' = lost \cup {x \in {<<l, p>>} :
                 PutsBack(l, p, r) \/ (row[l][p].last # None /\ r.last < row[l][p].last)}
  BY DEF WriteDecay
<1>8. lost \subseteq lost' /\ lost' \subseteq Leagues \X Players
  BY <1>7 DEF TypeOK
<1>9. ASSUME <<l, p>> \notin lost'
      PROVE  /\ r.won = row[l][p].won /\ r.taxed = row[l][p].taxed
             /\ row[l][p].last # None => ~(r.last < row[l][p].last)
  <2>1. ~PutsBack(l, p, r) /\ ~(row[l][p].last # None /\ r.last < row[l][p].last)
    BY <1>7, <1>9
  <2>2. r # None
    BY Apart
  <2>. QED
    BY <2>1, <2>2 DEF PutsBack
<1>. QED
  BY <1>2, <1>4, <1>6, <1>8, <1>9

LEMMA RowsTurn ==
    ASSUME IInv, row' \in [Leagues -> [Players -> Rows \cup {None}]],
           \A l \in Leagues, p \in Players : row[l][p] # None => row'[l][p] # None,
           lost' \subseteq Leagues \X Players,
           visit' \in [Visits -> Visitors], batch' \in [Batches -> Ticks],
           \A t \in Visits : visit'[t] = visit[t] \/ (visit[t].op # "notify" /\ visit'[t] = NoVisit),
           \A b \in Batches : batch'[b] = batch[b] \/ BatchSound(batch[b])',
           UNCHANGED <<today, tenancy, match, batchDay, confirm, sync, unsynced, missed, redated, bounds>>
    PROVE  IInv'
<1>. USE DEF IInv
<1>1. UNCHANGED <<league, leagueOf, eventBound, draft, plan, staff, faults>>
  BY DEF tenancy, bounds
<1>2. TypeOK'
  BY <1>1 DEF TypeOK
<1>3. Grown /\ SameSeasons /\ today' >= today
  BY <1>1 DEF Grown, SameSeasons, TypeOK, Days
<1>4. Sound'
  <2>1. ASSUME NEW u \in Visits PROVE VisitSound(visit[u])'
    <3>1. CASE visit'[u] = visit[u]
      BY <1>3, <3>1, Grows
    <3>2. CASE visit'[u] = NoVisit
      BY <3>2, NoVisitIs DEF VisitSound
    <3>. QED
      BY <3>1, <3>2
  <2>2. \A b \in Batches : BatchSound(batch[b])'
    BY <1>3, Grows
  <2>3. \A m \in Matches : MatchSound(m)'
    BY <1>2, <1>3, MatchKept
  <2>4. \A l \in Leagues : LeagueSound(l)'
    BY <1>1, <1>3, LeaguesKept
  <2>5. \A c \in Channels : ChannelSound(c)'
    BY <1>1, <1>3, ChannelKept
  <2>6. \A d \in Drafts : DraftSound(d)'
    BY <1>1, <1>3, Grows
  <2>7. ConfirmSound'
    BY <1>1, <1>3, ConfirmKept
  <2>. QED
    BY <2>1, <2>2, <2>3, <2>4, <2>5, <2>6, <2>7 DEF Sound
<1>5. RolesMarked'
  BY <1>1, MarksKept
<1>. QED
  BY <1>2, <1>4, <1>5

LEMMA CatchUpStoreSound ==
    ASSUME IInv, NEW t \in Visits, CatchUpStore(t)
    PROVE  IInv'
<1>. USE DEF IInv
<1>1. PICK l, p, r : l = visit[t].league /\ p = visit[t].player /\ r = visit[t].rows[p]
  OBVIOUS
<1>2. l \in Leagues /\ visit[t].op = "catchup"
  BY <1>1 DEF TypeOK, Visitors, CatchUpStore
<1>3. p \in Players /\ r \in Rows /\ row[l][p] # None
  BY <1>1, <1>2 DEF Sound, VisitSound
<1>4. WriteDecay(l, p, r)
  BY <1>1 DEF CatchUpStore
<1>5. /\ row' \in [Leagues -> [Players -> Rows \cup {None}]]
      /\ \A k \in Leagues, q \in Players : k # l \/ q # p => row'[k][q] = row[k][q]
      /\ row'[l][p] \in Rows
      /\ lost' \subseteq Leagues \X Players
  <2>1. TypeOK
    OBVIOUS
  <2>. HIDE DEF IInv
  <2>. QED
    BY <1>2, <1>3, <1>4, <2>1, WriteDecayIs
<1>6. \A k \in Leagues, q \in Players : row[k][q] # None => row'[k][q] # None
  BY <1>5, Apart
<1>7. visit' = [visit EXCEPT ![t] = NoVisit]
  BY DEF CatchUpStore
<1>8. /\ visit' \in [Visits -> Visitors]
      /\ \A u \in Visits : visit'[u] = visit[u] \/ (visit[u].op # "notify" /\ visit'[u] = NoVisit)
  BY <1>2, <1>7, NoVisitIs DEF TypeOK
<1>9. /\ UNCHANGED <<today, tenancy, match, batchDay, confirm, sync, unsynced, missed, redated, bounds>>
      /\ batch' = batch
  BY DEF CatchUpStore
<1>10. batch' \in [Batches -> Ticks]
  BY <1>9 DEF TypeOK
<1>. QED
  BY <1>5, <1>6, <1>8, <1>9, <1>10, RowsTurn

-----------------------------------------------------------------------------
(* The nightly batch.                                                        *)

LEMMA NoBatchIs == NoBatch \in Ticks /\ BatchSound(NoBatch)
<1>1. NoBatch \in Ticks
  BY IdleDecayAssumption DEF NoBatch, Ticks, Days
<1>. QED
  BY <1>1 DEF BatchSound, NoBatch

LEMMA BatchStartSound ==
    ASSUME IInv, NEW b \in Batches, BatchStart(b)
    PROVE  IInv'
<1>. USE DEF IInv
<1>1. PICK ls : ls = {l \in Leagues : league[l].status = "ACTIVE" /\ league[l].decay}
  OBVIOUS
<1>2. PICK x : x = [NoBatch EXCEPT !.on = TRUE, !.now = today, !.leagues = ls]
  OBVIOUS
<1>3. /\ x \in Ticks /\ x.leagues = ls /\ x.hit = FALSE /\ x.league = None /\ x.player = None
  BY <1>1, <1>2, NoBatchIs DEF Ticks, NoBatch, TypeOK
<1>4. BatchSound(x)
  BY <1>1, <1>3 DEF BatchSound
<1>5. faults' \in 0..MaxFaults /\ UNCHANGED <<plan, staff>>
  BY DEF BatchStart, bounds, TypeOK
<1>. QED
  BY <1>1, <1>2, <1>3, <1>4, <1>5, BatchTurns DEF BatchStart

LEMMA BatchLeagueSound ==
    ASSUME IInv, NEW b \in Batches, NEW l \in Leagues, BatchLeague(b, l)
    PROVE  IInv'
<1>. USE DEF IInv
<1>1. PICK todo : todo = {p \in Players : IF row[l][p] = None THEN FALSE ELSE row[l][p].activity # None}
  OBVIOUS
<1>2. PICK o \in Ticks : o = batch[b]
  BY DEF TypeOK
<1>3. PICK x : x = [o EXCEPT !.leagues = o.leagues \ {l}, !.league = l, !.todo = todo]
  OBVIOUS
<1>4. /\ x \in Ticks /\ x.leagues = o.leagues \ {l} /\ x.league = l /\ x.hit = o.hit
      /\ x.player = o.player /\ x.held = o.held
  BY <1>1, <1>3 DEF Ticks
<1>5. l \in o.leagues /\ o.league = None /\ batch' = [batch EXCEPT ![b] = x]
  <2>1. l \in batch[b].leagues /\ batch[b].league = None
    BY DEF BatchLeague
  <2>2. batch' = [batch EXCEPT ![b] = [batch[b] EXCEPT !.leagues = batch[b].leagues \ {l},
                                          !.league = l, !.todo = todo]]
    BY <1>1 DEF BatchLeague
  <2>. QED
    BY <1>2, <1>3, <2>1, <2>2
<1>6. BatchSound(o)
  BY <1>2 DEF Sound
<1>7. BatchSound(x)
  BY <1>4, <1>5, <1>6, Apart DEF BatchSound
<1>8. faults' \in 0..MaxFaults /\ UNCHANGED <<plan, staff>>
  BY DEF BatchLeague, bounds, TypeOK
<1>. QED
  BY <1>4, <1>5, <1>7, <1>8, BatchTurns DEF BatchLeague

(* What a tick holds of a rating: the row caught up to its own day.         *)
LEMMA BatchLoadIs ==
    ASSUME IInv, NEW b \in Batches, NEW p \in Players, BatchLoad(b, p),
           NEW l, l = batch[b].league
    PROVE  \E x \in Ticks :
              /\ batch' = [batch EXCEPT ![b] = x]
              /\ x.leagues = batch[b].leagues /\ x.league = l /\ x.hit = batch[b].hit
              /\ x.now = batch[b].now /\ l \in Leagues
              /\ \/ x.player = None /\ x.held = None
                 \/ /\ x.player = p /\ x.held \in Rows /\ row[l][p] \in Rows
                    /\ x.held.won = row[l][p].won /\ x.held.taxed = row[l][p].taxed
                    /\ x.held.activity = row[l][p].activity /\ x.held.last = batch[b].now
                    /\ row[l][p].activity \in Days /\ From(row[l][p]) \in Days
                    /\ From(row[l][p]) < batch[b].now
                    /\ PaysFor(x.held, row[l][p], Settings[league[l].preset], batch[b].now)
<1>. USE DEF IInv
<1>1. PICK o \in Ticks : o = batch[b]
  BY DEF TypeOK
<1>2. l \in Leagues /\ l # None /\ o.now \in Days
  BY <1>1 DEF BatchLoad, Ticks
<1>3. PICK due \in BOOLEAN : due = Decays(league[l], row[l][p], Games(l), o.now)
  BY DEF Decays
<1>4. PICK y : y = CaughtUp(league[l], row[l][p], o.now)
  OBVIOUS
<1>5. PICK x : x = [o EXCEPT !.todo = o.todo \ {p}, !.player = IF due THEN p ELSE None,
                            !.held = IF due THEN y ELSE None]
  OBVIOUS
<1>6. batch' = [batch EXCEPT ![b] = x]
  <2>1. batch' = [batch EXCEPT ![b] = [batch[b] EXCEPT !.todo = batch[b].todo \ {p},
                    !.player = IF due THEN p ELSE None, !.held = IF due THEN y ELSE None]]
    BY <1>1, <1>3, <1>4 DEF BatchLoad
  <2>. QED
    BY <1>1, <1>5, <2>1
<1>7. due => /\ row[l][p] \in Rows /\ y \in Rows /\ y.won = row[l][p].won /\ y.taxed = row[l][p].taxed
             /\ y.activity = row[l][p].activity /\ y.last = o.now
             /\ row[l][p].activity \in Days /\ From(row[l][p]) \in Days /\ From(row[l][p]) < o.now
             /\ PaysFor(y, row[l][p], Settings[league[l].preset], o.now)
  <2>. SUFFICES ASSUME Decays(league[l], row[l][p], Games(l), o.now)
                PROVE  /\ row[l][p] \in Rows /\ y \in Rows /\ y.won = row[l][p].won /\ y.taxed = row[l][p].taxed
                       /\ y.activity = row[l][p].activity /\ y.last = o.now
                       /\ row[l][p].activity \in Days /\ From(row[l][p]) \in Days /\ From(row[l][p]) < o.now
                       /\ PaysFor(y, row[l][p], Settings[league[l].preset], o.now)
    BY <1>3
  <2>1. row[l][p] \in Rows /\ league[l] \in LeagueRows
    BY <1>2, RowIs DEF Decays
  <2>. QED
    BY <1>2, <1>4, <2>1, CaughtUpIs
<1>8. /\ x \in Ticks /\ x.leagues = o.leagues /\ x.league = l /\ x.hit = o.hit /\ x.now = o.now
      /\ x.player = (IF due THEN p ELSE None) /\ x.held = (IF due THEN y ELSE None)
  BY <1>1, <1>5, <1>7 DEF Ticks
<1>. QED
  BY <1>1, <1>2, <1>6, <1>7, <1>8

LEMMA BatchLoadSound ==
    ASSUME IInv, NEW b \in Batches, NEW p \in Players, BatchLoad(b, p)
    PROVE  IInv'
<1>. USE DEF IInv
<1>1. PICK l : l = batch[b].league
  OBVIOUS
<1>2. PICK x \in Ticks :
         /\ batch' = [batch EXCEPT ![b] = x]
         /\ x.leagues = batch[b].leagues /\ x.league = l /\ x.hit = batch[b].hit
         /\ \/ x.player = None
            \/ x.player = p /\ x.held \in Rows /\ row[l][p] \in Rows
  <2>. HIDE DEF IInv
  <2>. QED
    BY <1>1, BatchLoadIs
<1>3. BatchSound(batch[b]) /\ l # None
  BY <1>1 DEF Sound, BatchLoad
<1>4. BatchSound(x)
  BY <1>1, <1>2, <1>3, Apart DEF BatchSound
<1>5. faults' \in 0..MaxFaults /\ UNCHANGED <<plan, staff>>
  BY DEF BatchLoad, bounds, TypeOK
<1>. QED
  BY <1>2, <1>4, <1>5, BatchTurns DEF BatchLoad

LEMMA BatchFailsSound ==
    ASSUME IInv, NEW b \in Batches, BatchFails(b)
    PROVE  IInv'
<1>. USE DEF IInv
<1>1. PICK x : x = NoBatch
  OBVIOUS
<1>2. faults' \in 0..MaxFaults
  BY SeasonAssumption DEF BatchFails, TypeOK
<1>. QED
  BY <1>1, <1>2, NoBatchIs, BatchTurns DEF BatchFails

LEMMA BatchStoreSound ==
    ASSUME IInv, NEW b \in Batches, BatchStore(b)
    PROVE  IInv'
<1>. USE DEF IInv
<1>1. PICK o \in Ticks : o = batch[b]
  BY DEF TypeOK
<1>2. PICK l, p, r : l = o.league /\ p = o.player /\ r = o.held
  OBVIOUS
<1>3. p # None /\ WriteDecay(l, p, r)
  BY <1>1, <1>2 DEF BatchStore
<1>4. BatchSound(o)
  BY <1>1 DEF Sound
<1>5. l \in Leagues /\ p \in Players /\ r \in Rows /\ row[l][p] # None
  BY <1>2, <1>3, <1>4 DEF BatchSound, Ticks
<1>6. /\ row' \in [Leagues -> [Players -> Rows \cup {None}]]
      /\ \A k \in Leagues, q \in Players : k # l \/ q # p => row'[k][q] = row[k][q]
      /\ row'[l][p] \in Rows
      /\ lost' \subseteq Leagues \X Players
  <2>1. TypeOK
    OBVIOUS
  <2>. HIDE DEF IInv
  <2>. QED
    BY <1>3, <1>5, <2>1, WriteDecayIs
<1>7. \A k \in Leagues, q \in Players : row[k][q] # None => row'[k][q] # None
  BY <1>6, Apart
<1>8. PICK x : x = [o EXCEPT !.player = None, !.held = None, !.hit = TRUE]
  OBVIOUS
<1>9. /\ x \in Ticks /\ x.player = None /\ x.league = l /\ x.leagues = o.leagues
  BY <1>2, <1>8 DEF Ticks
<1>10. batch' = [batch EXCEPT ![b] = x]
  BY <1>1, <1>8 DEF BatchStore
<1>11. /\ batch' \in [Batches -> Ticks]
       /\ \A u \in Batches : batch'[u] = IF u = b THEN x ELSE batch[u]
  BY <1>9, <1>10 DEF TypeOK
<1>12. /\ UNCHANGED <<today, tenancy, match, batchDay, confirm, sync, unsynced, missed, redated, bounds>>
       /\ visit' = visit /\ league' = league
  BY DEF BatchStore, tenancy
<1>13. BatchSound(batch[b])'
  <2>1. \A k \in o.leagues : league[k].status # "none"
    BY <1>4 DEF BatchSound
  <2>2. league[l].status # "none" /\ l # None
    BY <1>2, <1>3, <1>4 DEF BatchSound
  <2>. QED
    BY <1>9, <1>11, <1>12, <2>1, <2>2 DEF BatchSound
<1>14. visit' \in [Visits -> Visitors]
  BY <1>12 DEF TypeOK
<1>. QED
  BY <1>6, <1>7, <1>11, <1>12, <1>13, <1>14, RowsTurn

-----------------------------------------------------------------------------
(* Matches created, cancelled, completed and corrected.                      *)

LEMMA MatchTurns ==
    ASSUME IInv, NEW m \in Matches, NEW x \in MatchRows, match' = [match EXCEPT ![m] = x],
           match[m].status # "none" => x.league = match[m].league /\ x.status # "none",
           MatchSound(m)', visit' \in [Visits -> Visitors],
           \A t \in Visits : visit'[t] = visit[t] \/ (visit[t].op # "notify" /\ visit'[t] = NoVisit),
           UNCHANGED <<today, tenancy, row, batch, batchDay, confirm, sync, history, bounds>>
    PROVE  IInv'
<1>. USE DEF IInv
<1>1. UNCHANGED <<league, leagueOf, eventBound, draft, unsynced, missed, lost, redated, plan, staff, faults>>
  BY DEF tenancy, bounds, history
<1>2. TypeOK'
  <2>1. match' \in [Matches -> MatchRows]
    BY DEF TypeOK
  <2>. QED
    BY <1>1, <2>1 DEF TypeOK
<1>3. \A k \in Matches : match'[k] = IF k = m THEN x ELSE match[k]
  BY DEF TypeOK
<1>4. Grown /\ SameSeasons /\ today' >= today
  BY <1>1, <1>3 DEF Grown, SameSeasons, TypeOK, Days
<1>5. Sound'
  <2>1. ASSUME NEW u \in Visits PROVE VisitSound(visit[u])'
    <3>1. CASE visit'[u] = visit[u]
      BY <1>4, <3>1, Grows
    <3>2. CASE visit'[u] = NoVisit
      BY <3>2, NoVisitIs DEF VisitSound
    <3>. QED
      BY <3>1, <3>2
  <2>2. \A b \in Batches : BatchSound(batch[b])'
    BY <1>4, Grows
  <2>3. ASSUME NEW k \in Matches PROVE MatchSound(k)'
    <3>1. CASE k = m
      BY <3>1
    <3>2. CASE k # m
      BY <1>2, <1>3, <1>4, <3>2, MatchKept
    <3>. QED
      BY <3>1, <3>2
  <2>4. \A l \in Leagues : LeagueSound(l)'
    BY <1>1, <1>4, LeaguesKept
  <2>5. \A c \in Channels : ChannelSound(c)'
    BY <1>1, <1>4, ChannelKept
  <2>6. \A d \in Drafts : DraftSound(d)'
    BY <1>1, <1>4, Grows
  <2>7. ConfirmSound'
    BY <1>1, <1>4, ConfirmKept
  <2>. QED
    BY <2>1, <2>2, <2>3, <2>4, <2>5, <2>6, <2>7 DEF Sound
<1>6. RolesMarked'
  BY <1>1, MarksKept
<1>. QED
  BY <1>2, <1>5, <1>6

LEMMA NoMatchIs == NoMatch \in MatchRows /\ NoMatch.day = None /\ NoMatch.status = "none" /\ NoMatch.late = FALSE
BY SeasonAssumption DEF NoMatch, MatchRows

LEMMA CreateMatchSound ==
    ASSUME IInv, NEW t \in Visits, NEW m \in Matches, CreateMatch(t, m)
    PROVE  IInv'
<1>. USE DEF IInv
<1>1. PICK l \in Leagues : l = visit[t].league
  BY DEF TypeOK, Visitors
<1>2. PICK x : x = [NoMatch EXCEPT !.status = "ACTIVE", !.league = l, !.late = ~(league[l].status = "ACTIVE")]
  OBVIOUS
<1>3. /\ x \in MatchRows /\ x.status = "ACTIVE" /\ x.league = l /\ x.day = None
      /\ x.late = ~(league[l].status = "ACTIVE")
  BY <1>2, NoMatchIs DEF MatchRows
<1>4. /\ visit[t].op = "create" /\ match[m].status = "none" /\ match' = [match EXCEPT ![m] = x]
      /\ visit' = [visit EXCEPT ![t] = NoVisit]
  BY <1>1, <1>2 DEF CreateMatch, IsLeagueWritable
<1>5. league[l].status # "none" /\ league[l].status \in {"none", "ACTIVE", "ARCHIVED"}
  BY <1>1, <1>4 DEF Sound, VisitSound, TypeOK, LeagueRows
<1>6. UNCHANGED <<today, tenancy, row, batch, batchDay, confirm, sync, history, bounds>> /\ league' = league
  BY DEF CreateMatch, tenancy
<1>7. MatchSound(m)'
  <2>1. match'[m] = x
    BY <1>4 DEF TypeOK
  <2>. QED
    BY <1>3, <1>5, <1>6, <2>1 DEF MatchSound
<1>8. /\ visit' \in [Visits -> Visitors]
      /\ \A u \in Visits : visit'[u] = visit[u] \/ (visit[u].op # "notify" /\ visit'[u] = NoVisit)
  BY <1>4, NoVisitIs DEF TypeOK
<1>. QED
  BY <1>3, <1>4, <1>6, <1>7, <1>8, MatchTurns

LEMMA CancelMatchSound ==
    ASSUME IInv, NEW m \in Matches, CancelMatch(m)
    PROVE  IInv'
<1>. USE DEF IInv
<1>1. PICK o \in MatchRows : o = match[m]
  BY DEF TypeOK
<1>2. PICK x : x = [o EXCEPT !.status = "CANCELLED"]
  OBVIOUS
<1>3. /\ x \in MatchRows /\ x.status = "CANCELLED" /\ x.league = o.league /\ x.day = o.day /\ x.late = o.late
  BY <1>2 DEF MatchRows
<1>4. o.status = "ACTIVE" /\ match' = [match EXCEPT ![m] = x]
  BY <1>1, <1>2 DEF CancelMatch
<1>5. UNCHANGED <<today, tenancy, row, batch, batchDay, confirm, sync, history, bounds>> /\ league' = league
      /\ visit' = visit
  BY DEF CancelMatch, tenancy
<1>6. MatchSound(m)'
  <2>1. match'[m] = x
    BY <1>4 DEF TypeOK
  <2>2. MatchSound(m)
    BY DEF Sound
  <2>. QED
    BY <1>1, <1>3, <1>4, <1>5, <2>1, <2>2 DEF MatchSound
<1>7. visit' \in [Visits -> Visitors]
  BY <1>5 DEF TypeOK
<1>. QED
  BY <1>1, <1>3, <1>4, <1>5, <1>6, <1>7, MatchTurns

(* A league marked, and nothing else of it changed.                         *)
LEMMA MarkDirtyIs ==
    ASSUME TypeOK, NEW l \in Leagues, league' = MarkDirty(l)
    PROVE  /\ league' \in [Leagues -> LeagueRows]
           /\ \A k \in Leagues : k # l => league'[k] = league[k]
           /\ \A k \in Leagues : league[k].dirty => league'[k].dirty
           /\ league'[l].dirty
           /\ \A k \in Leagues : /\ league'[k].status = league[k].status /\ league'[k].pred = league[k].pred
                                  /\ league'[k].mode = league[k].mode
<1>1. PICK lg : lg = [league[l] EXCEPT !.dirty = TRUE]
  OBVIOUS
<1>2. /\ lg \in LeagueRows /\ lg.dirty /\ lg.status = league[l].status /\ lg.pred = league[l].pred
      /\ lg.mode = league[l].mode
  BY <1>1 DEF TypeOK, LeagueRows
<1>3. league' = [league EXCEPT ![l] = lg]
  BY <1>1 DEF MarkDirty
<1>4. \A k \in Leagues : league'[k] = IF k = l THEN lg ELSE league[k]
  BY <1>3 DEF TypeOK
<1>. QED
  BY <1>2, <1>3, <1>4 DEF TypeOK

(* A result written: the rows of one league's players, its match, its mark. *)
LEMMA ResultTurns ==
    ASSUME IInv, NEW l \in Leagues, NEW t \in Visits, league[l].status # "none",
           NEW rows \in [Players -> Rows], row' = [row EXCEPT ![l] = rows],
           match' \in [Matches -> MatchRows],
           \A m \in Matches : match'[m] = match[m] \/ MatchSound(m)',
           \A m \in Matches : match[m].status # "none" =>
               match'[m].status # "none" /\ match'[m].league = match[m].league,
           NEW v \in Visitors, visit' = [visit EXCEPT ![t] = v], visit[t].op # "notify",
           \/ v = NoVisit /\ league' = MarkDirty(l)
           \/ v.op = "notify" /\ v.league = l /\ league' = league,
           unsynced' = unsynced \cup {l},
           lost' \cup redated' \subseteq Leagues \X Players,
           UNCHANGED <<today, leagueOf, eventBound, draft, batch, batchDay, confirm, sync, missed, bounds>>
    PROVE  IInv'
<1>. USE DEF IInv
<1>1. UNCHANGED <<plan, staff, faults>>
  BY DEF bounds
<1>2. /\ league' \in [Leagues -> LeagueRows]
      /\ \A k \in Leagues : k # l => league'[k] = league[k]
      /\ \A k \in Leagues : league[k].dirty => league'[k].dirty
      /\ v = NoVisit => league'[l].dirty
      /\ \A k \in Leagues : /\ league'[k].status = league[k].status /\ league'[k].pred = league[k].pred
                             /\ league'[k].mode = league[k].mode
  <2>1. CASE league' = MarkDirty(l)
    BY <2>1, MarkDirtyIs
  <2>2. CASE v.op = "notify" /\ league' = league
    BY <2>2, NoVisitIs DEF TypeOK
  <2>. QED
    BY <2>1, <2>2
<1>3. \A k \in Leagues : /\ league'[k].status = league[k].status /\ league'[k].pred = league[k].pred
                         /\ league'[k].mode = league[k].mode
  BY <1>2
<1>4. /\ row' \in [Leagues -> [Players -> Rows \cup {None}]]
      /\ \A k \in Leagues : row'[k] = IF k = l THEN rows ELSE row[k]
  BY DEF TypeOK
<1>5. /\ visit' \in [Visits -> Visitors]
      /\ \A u \in Visits : visit'[u] = IF u = t THEN v ELSE visit[u]
  BY DEF TypeOK
<1>6. TypeOK'
  BY <1>1, <1>2, <1>4, <1>5 DEF TypeOK
<1>7. Grown
  BY <1>3, <1>4, Apart DEF Grown
<1>8. SameSeasons /\ today' >= today
  BY <1>3 DEF SameSeasons, TypeOK, Days
<1>9. Sound'
  <2>1. ASSUME NEW u \in Visits PROVE VisitSound(visit[u])'
    <3>1. CASE u # t
      BY <1>5, <1>7, <3>1, Grows
    <3>2. CASE u = t
      <4>1. v.op \in {"idle", "notify"} /\ (v.op = "notify" => v.league = l)
        BY NoVisitIs
      <4>. QED
        BY <1>3, <1>5, <3>2, <4>1 DEF VisitSound
    <3>. QED
      BY <3>1, <3>2
  <2>2. \A b \in Batches : BatchSound(batch[b])'
    BY <1>7, Grows
  <2>3. \A m \in Matches : MatchSound(m)'
    BY <1>6, <1>7, <1>8, MatchKept
  <2>4. \A k \in Leagues : LeagueSound(k)'
    BY <1>2, <1>8, LeaguesKept
  <2>5. \A c \in Channels : ChannelSound(c)'
    BY <1>8, ChannelKept
  <2>6. \A d \in Drafts : DraftSound(d)'
    BY <1>7, Grows
  <2>7. ConfirmSound'
    BY <1>7, <1>8, ConfirmKept
  <2>. QED
    BY <2>1, <2>2, <2>3, <2>4, <2>5, <2>6, <2>7 DEF Sound
<1>10. RolesMarked'
  <2>. SUFFICES ASSUME NEW k \in unsynced', league'[k].status = "ACTIVE"
                PROVE  \/ league'[k].dirty \/ k \in missed'
                       \/ \E u \in Visits : visit'[u].op = "notify" /\ visit'[u].league = k
    BY DEF RolesMarked, IsLeagueWritable
  <2>1. CASE k = l
    <3>1. CASE v = NoVisit
      BY <1>2, <2>1, <3>1
    <3>2. CASE v.op = "notify" /\ v.league = l
      BY <1>5, <2>1, <3>2
    <3>. QED
      BY <3>1, <3>2
  <2>2. CASE k # l
    <3>1. k \in unsynced /\ k \in Leagues
      BY <2>2 DEF TypeOK
    <3>2. \/ league[k].dirty \/ k \in missed
          \/ \E u \in Visits : visit[u].op = "notify" /\ visit[u].league = k
      BY <1>3, <3>1 DEF RolesMarked, IsLeagueWritable
    <3>3. \A u \in Visits : visit[u].op = "notify" => visit'[u] = visit[u]
      BY <1>5
    <3>. QED
      BY <1>2, <3>1, <3>2, <3>3
  <2>. QED
    BY <2>1, <2>2
<1>. QED
  BY <1>6, <1>9, <1>10

(* What a completion writes.                                                *)
(* What a completion makes of its league's ratings: what the handler holds, *)
(* with the result, over the rows it did not write, and caught up again.    *)
RatedBy(rows, rated, v, l, m) ==
    \A p \in Players :
        /\ v.rows[p] \in Rows /\ (p \in v.caught \/ row[l][p] \in Rows)
        /\ row[l][p] = None => v.rows[p] = DefaultRow
        /\ rated[p].won = v.rows[p].won \cup {m} /\ rated[p].taxed = v.rows[p].taxed
        /\ rated[p].paid = v.rows[p].paid
        /\ p \in v.quit /\ p \in v.caught =>
              rated[p].activity = v.rows[p].activity /\ rated[p].last = v.rows[p].last
        /\ p \in v.quit /\ p \notin v.caught =>
              rated[p].activity = row[l][p].activity /\ rated[p].last = row[l][p].last
        /\ p \notin v.quit => rated[p].activity = today /\ rated[p].last = None
        /\ rows[p] = CatchUpIfDue(l, rated[p], Games(l) + 1)
        /\ rows[p].won = rated[p].won /\ rows[p].taxed = rated[p].taxed

LEMMA CompleteStoreIs ==
    ASSUME IInv, NEW t \in Visits, CompleteStore(t), NEW l, l = visit[t].league, NEW m, m = visit[t].match
    PROVE  /\ l \in Leagues /\ m \in Matches /\ match[m].league = l /\ league[l].status # "none"
           /\ match[m].status # "none"
           /\ \E rows, rated \in [Players -> Rows] :
                 row' = [row EXCEPT ![l] = rows] /\ RatedBy(rows, rated, visit[t], l, m)
           /\ match' \in [Matches -> MatchRows]
           /\ \A k \in Matches : k # m => match'[k] = match[k]
           /\ match'[m].league = l /\ match'[m].status = "COMPLETED" /\ match'[m].day = today
           /\ match'[m].quit = visit[t].quit /\ match'[m].snap = visit[t].rows /\ match'[m].late = match[m].late
           /\ lost \subseteq lost' /\ lost' \subseteq Leagues \X Players
           /\ \A p \in Players : <<l, p>> \notin lost' /\ row[l][p] # None =>
                 visit[t].rows[p].won = row[l][p].won /\ visit[t].rows[p].taxed = row[l][p].taxed
<1>. USE DEF IInv
<1>1. PICK v \in Visitors : v = visit[t]
  BY DEF TypeOK
<1>2. v.op = "complete" /\ l \in Leagues
  BY <1>1 DEF CompleteStore, Visitors
<1>3. VisitSound(v)
  BY <1>1 DEF Sound
<1>4. /\ m \in Matches /\ match[m].league = l /\ match[m].status # "none" /\ league[l].status # "none"
      /\ \A p \in Players : /\ v.rows[p] \in Rows
                            /\ row[l][p] = None => v.rows[p] = DefaultRow /\ p \in v.caught
  BY <1>1, <1>2, <1>3 DEF VisitSound
<1>5. PICK rated : rated = [p \in Players |->
                  Rated(row[l][p], v.rows[p], m, p \in v.quit, p \in v.caught, today)]
  OBVIOUS
<1>6. PICK rows : rows = [p \in Players |-> CatchUpIfDue(l, rated[p], Games(l) + 1)]
  OBVIOUS
<1>7. row' = [row EXCEPT ![l] = rows]
  <2>1. rows = [p \in Players |-> CatchUpIfDue(l,
                  Rated(row[l][p], v.rows[p], m, p \in v.quit, p \in v.caught, today), Games(l) + 1)]
    BY <1>5, <1>6
  <2>. QED
    BY <1>1, <2>1 DEF CompleteStore
<1>8. ASSUME NEW p \in Players
      PROVE  /\ p \in v.caught \/ row[l][p] \in Rows
             /\ rated[p] \in Rows
             /\ rated[p].won = v.rows[p].won \cup {m} /\ rated[p].taxed = v.rows[p].taxed
             /\ rated[p].paid = v.rows[p].paid
             /\ p \in v.quit /\ p \in v.caught =>
                   rated[p].activity = v.rows[p].activity /\ rated[p].last = v.rows[p].last
             /\ p \in v.quit /\ p \notin v.caught =>
                   rated[p].activity = row[l][p].activity /\ rated[p].last = row[l][p].last
             /\ p \notin v.quit => rated[p].activity = today /\ rated[p].last = None
  <2>1. p \in v.caught \/ row[l][p] \in Rows
    BY <1>2, <1>4, RowIs
  <2>2. PICK y, read, day : y = rated[p] /\ read = v.rows[p] /\ day = today
    OBVIOUS
  <2>3. PICK base : base = IF p \in v.caught THEN read ELSE row[l][p]
    OBVIOUS
  <2>4. PICK w : w = [read EXCEPT !.won = read.won \cup {m}]
    OBVIOUS
  <2>5. PICK z : z = MuWrite(base, w)
    OBVIOUS
  <2>6. y = IF p \in v.quit THEN z ELSE IdleDecayActivityReset(z, day)
    BY <1>5, <2>2, <2>3, <2>4, <2>5 DEF Rated
  <2>7. day \in Days /\ read \in Rows /\ base \in Rows
    BY <1>4, <2>1, <2>2, <2>3 DEF TypeOK
  <2>8. w \in Rows /\ w.won = read.won \cup {m} /\ w.paid = read.paid /\ w.taxed = read.taxed
    BY <1>4, <2>4, <2>7, ResultIs
  <2>9. /\ z \in Rows /\ z.won = w.won /\ z.paid = w.paid /\ z.taxed = w.taxed
        /\ z.activity = base.activity /\ z.last = base.last
    BY <2>5, <2>7, <2>8, MuWriteIs
  <2>10. /\ y \in Rows /\ y.won = w.won /\ y.paid = w.paid /\ y.taxed = w.taxed
         /\ p \in v.quit => y.activity = base.activity /\ y.last = base.last
         /\ p \notin v.quit => y.activity = day /\ y.last = None
    <3>1. CASE p \in v.quit
      BY <2>6, <2>9, <3>1
    <3>2. CASE p \notin v.quit
      BY <2>6, <2>7, <2>9, <3>2, ActivityResetIs
    <3>. QED
      BY <3>1, <3>2
  <2>. QED
    BY <2>1, <2>2, <2>3, <2>8, <2>10
<1>9. /\ rated \in [Players -> Rows] /\ rows \in [Players -> Rows]
      /\ \A p \in Players : rows[p].won = rated[p].won /\ rows[p].taxed = rated[p].taxed
  <2>1. ASSUME NEW p \in Players
        PROVE  rows[p] \in Rows /\ rows[p].won = rated[p].won /\ rows[p].taxed = rated[p].taxed
    <3>1. PICK y, r, games : y = rows[p] /\ r = rated[p] /\ games = Games(l) + 1
      OBVIOUS
    <3>2. r \in Rows /\ y = CatchUpIfDue(l, r, games) /\ TypeOK
      BY <1>6, <1>8, <3>1
    <3>3. y \in Rows /\ y.won = r.won /\ y.taxed = r.taxed
      BY <1>2, <3>2, CatchUpIfDueIs
    <3>. QED
      BY <3>1, <3>3
  <2>2. \A p \in Players : rated[p] \in Rows
    BY <1>8
  <2>. QED
    BY <1>5, <1>6, <2>1, <2>2
<1>10. PICK o \in MatchRows : o = match[m]
  BY <1>4 DEF TypeOK
<1>11. PICK x : x = [o EXCEPT !.status = "COMPLETED", !.day = today, !.quit = v.quit, !.snap = v.rows]
  OBVIOUS
<1>12. /\ x \in MatchRows /\ x.status = "COMPLETED" /\ x.day = today /\ x.quit = v.quit /\ x.snap = v.rows
       /\ x.league = o.league /\ x.late = o.late
  BY <1>1, <1>11 DEF MatchRows, Visitors, TypeOK
<1>13. match' = [match EXCEPT ![m] = x]
  BY <1>1, <1>10, <1>11 DEF CompleteStore
<1>14. match' \in [Matches -> MatchRows] /\ \A k \in Matches : match'[k] = IF k = m THEN x ELSE match[k]
  BY <1>12, <1>13 DEF TypeOK
<1>15. lost' = lost \cup {<<l, p>> : p \in {x_1 \in Players : PutsBack(l, x_1, v.rows[x_1])}}
  BY <1>1 DEF CompleteStore
<1>16. lost \subseteq lost' /\ lost' \subseteq Leagues \X Players
  BY <1>2, <1>15 DEF TypeOK
<1>17. ASSUME NEW p \in Players, <<l, p>> \notin lost', row[l][p] # None
       PROVE  v.rows[p].won = row[l][p].won /\ v.rows[p].taxed = row[l][p].taxed
  <2>1. ~PutsBack(l, p, v.rows[p])
    BY <1>15, <1>17
  <2>2. v.rows[p] # None
    BY <1>4, Apart
  <2>. QED
    BY <1>17, <2>1, <2>2 DEF PutsBack
<1>. HIDE DEF IInv
<1>18. \A p \in Players : rows[p] = CatchUpIfDue(l, rated[p], Games(l) + 1)
  BY <1>6
<1>19. RatedBy(rows, rated, v, l, m)
  BY <1>1, <1>4, <1>8, <1>9, <1>18 DEF RatedBy
<1>. QED
  BY <1>1, <1>2, <1>4, <1>9, <1>10, <1>12, <1>14, <1>16, <1>17, <1>7, <1>19

LEMMA CompleteStoreSound ==
    ASSUME IInv, NEW t \in Visits, CompleteStore(t)
    PROVE  IInv'
<1>1. PICK l, m : l = visit[t].league /\ m = visit[t].match
  OBVIOUS
<1>2. /\ l \in Leagues /\ m \in Matches /\ match[m].league = l /\ league[l].status # "none"
      /\ match[m].status # "none"
      /\ match' \in [Matches -> MatchRows]
      /\ \A k \in Matches : k # m => match'[k] = match[k]
      /\ match'[m].league = l /\ match'[m].status = "COMPLETED" /\ match'[m].day = today
      /\ match'[m].snap = visit[t].rows /\ match'[m].late = match[m].late
      /\ lost' \subseteq Leagues \X Players
      /\ \A p \in Players : visit[t].rows[p] \in Rows
  BY <1>1, CompleteStoreIs DEF RatedBy
<1>3. PICK rows \in [Players -> Rows] : row' = [row EXCEPT ![l] = rows]
  BY <1>1, CompleteStoreIs
<1>4. /\ visit[t].op = "complete" /\ league' = MarkDirty(l) /\ unsynced' = unsynced \cup {l}
      /\ visit' = [visit EXCEPT ![t] = NoVisit]
      /\ UNCHANGED <<today, leagueOf, eventBound, draft, batch, batchDay, confirm, sync, missed, redated, bounds>>
  BY <1>1 DEF CompleteStore
<1>5. redated' \subseteq Leagues \X Players /\ TypeOK /\ today \in Days
  BY <1>4 DEF IInv, TypeOK
<1>6. MatchSound(m)'
  <2>1. MatchSound(m)
    BY <1>2 DEF IInv, Sound
  <2>2. row'[l] = rows
    BY <1>2, <1>3, <1>5 DEF TypeOK
  <2>3. league'[l].status = league[l].status
    BY <1>2, <1>4, <1>5, MarkDirtyIs
  <2>4. today <= today /\ today # None
    BY <1>5, Apart DEF Days
  <2>. QED
    BY <1>2, <1>4, <2>1, <2>2, <2>3, <2>4, Apart DEF MatchSound
<1>7. \A k \in Matches : match[k].status # "none" =>
          match'[k].status # "none" /\ match'[k].league = match[k].league
  BY <1>2
<1>8. PICK v : v = NoVisit
  OBVIOUS
<1>. QED
  BY <1>2, <1>3, <1>4, <1>5, <1>6, <1>7, <1>8, NoVisitIs, ResultTurns

(* What a correction finds.                                                 *)
LEMMA CorrectionFinds ==
    ASSUME IInv, NEW t \in Visits, visit[t].op \in {"flip", "void"},
           NEW l, l = visit[t].league, NEW m, m = visit[t].match, Correctable(m)
    PROVE  /\ l \in Leagues /\ m \in Matches /\ match[m].league = l /\ league[l].status # "none"
           /\ match[m].status = "COMPLETED" /\ match[m] \in MatchRows /\ match[m].day \in Days
           /\ \A p \in Players : match[m].snap[p] \in Rows /\ row[l][p] \in Rows
           /\ \A p \in Players : \A y : y = Restored(l, m, p) =>
                 /\ y \in Rows /\ y.won = match[m].snap[p].won /\ y.paid = match[m].snap[p].paid
                 /\ y.taxed = match[m].snap[p].taxed
                 /\ y.activity = row[l][p].activity /\ y.last = row[l][p].last
<1>. USE DEF IInv
<1>1. PICK v \in Visitors : v = visit[t]
  BY DEF TypeOK
<1>2. VisitSound(v) /\ l \in Leagues
  BY <1>1 DEF Sound, Visitors
<1>3. m \in Matches /\ match[m].league = l /\ match[m].status = "COMPLETED"
  BY <1>1, <1>2 DEF VisitSound, Correctable
<1>4. MatchSound(m) /\ match[m] \in MatchRows
  BY <1>3 DEF Sound, TypeOK
<1>5. /\ league[l].status # "none" /\ match[m].day # None
      /\ \A p \in Players : match[m].snap[p] \in Rows /\ row[l][p] # None
  BY <1>3, <1>4 DEF MatchSound
<1>6. match[m].day \in Days
  BY <1>4, <1>5 DEF MatchRows
<1>7. \A p \in Players : row[l][p] \in Rows
  BY <1>2, <1>5, RowIs
<1>8. ASSUME NEW p \in Players, NEW y, y = Restored(l, m, p)
      PROVE  /\ y \in Rows /\ y.won = match[m].snap[p].won /\ y.paid = match[m].snap[p].paid
             /\ y.taxed = match[m].snap[p].taxed
             /\ y.activity = row[l][p].activity /\ y.last = row[l][p].last
  <2>1. PICK r, w : r = row[l][p] /\ w = match[m].snap[p]
    OBVIOUS
  <2>2. y = MuWrite(r, w) /\ r \in Rows /\ w \in Rows
    BY <1>5, <1>7, <1>8, <2>1 DEF Restored
  <2>. QED
    BY <2>1, <2>2, MuWriteIs
<1>. QED
  BY <1>2, <1>3, <1>4, <1>5, <1>6, <1>7, <1>8

(* What is excused of a correction.                                         *)
LEMMA TakenBackIs ==
    ASSUME TypeOK, NEW l \in Leagues, NEW m \in Matches, lost' = lost \cup TakenBack(l, m)
    PROVE  /\ lost \subseteq lost' /\ lost' \subseteq Leagues \X Players
           /\ \A p \in Players : <<l, p>> \notin lost' =>
                 row[l][p].won \ {m} = match[m].snap[p].won /\ row[l][p].taxed = match[m].snap[p].taxed
           /\ \A n \in Leagues \ {l}, p \in Players : l \in Seasons(n) => <<n, p>> \in lost'
<1>1. lost' = lost \cup {<<l, p>> : p \in {x \in Players : row[l][x].won \ {m} # match[m].snap[x].won
                                        \/ row[l][x].taxed # match[m].snap[x].taxed}}
                   \cup {<<n, p>> : n \in {x \in Leagues \ {l} : l \in Seasons(x)}, p \in Players}
  BY DEF TakenBack
<1>2. lost \subseteq Leagues \X Players
  BY DEF TypeOK
<1>. QED
  BY <1>1, <1>2

LEMMA VoidMatchIs ==
    ASSUME IInv, NEW t \in Visits, VoidMatch(t), NEW l, l = visit[t].league, NEW m, m = visit[t].match
    PROVE  /\ l \in Leagues /\ m \in Matches /\ match[m].league = l /\ league[l].status # "none"
           /\ match[m].status = "COMPLETED" /\ match[m].day \in Days
           /\ \A p \in Players : match[m].snap[p] \in Rows /\ row[l][p] \in Rows
           /\ \E rows \in [Players -> Rows] :
                 /\ row' = [row EXCEPT ![l] = rows]
                 /\ \A p \in Players :
                       /\ rows[p].won = match[m].snap[p].won /\ rows[p].paid = match[m].snap[p].paid
                       /\ rows[p].taxed = match[m].snap[p].taxed
                       /\ rows[p].activity = row[l][p].activity /\ rows[p].last = row[l][p].last
           /\ match' \in [Matches -> MatchRows]
           /\ \A k \in Matches : k # m => match'[k] = match[k]
           /\ match'[m].status = "CANCELLED" /\ match'[m].league = l /\ match'[m].day = match[m].day
           /\ match'[m].late = match[m].late /\ match'[m].quit = match[m].quit
<1>. USE DEF IInv
<1>1. visit[t].op = "void" /\ Correctable(m)
  BY DEF VoidMatch
<1>2. /\ l \in Leagues /\ m \in Matches /\ match[m].league = l /\ league[l].status # "none"
      /\ match[m].status = "COMPLETED" /\ match[m] \in MatchRows /\ match[m].day \in Days
      /\ \A p \in Players : match[m].snap[p] \in Rows /\ row[l][p] \in Rows
      /\ \A p \in Players : \A y : y = Restored(l, m, p) =>
                 /\ y \in Rows /\ y.won = match[m].snap[p].won /\ y.paid = match[m].snap[p].paid
                 /\ y.taxed = match[m].snap[p].taxed
                 /\ y.activity = row[l][p].activity /\ y.last = row[l][p].last
  <2>. HIDE DEF IInv
  <2>. QED
    BY <1>1, CorrectionFinds
<1>3. PICK rows : rows = [p \in Players |-> Restored(l, m, p)]
  OBVIOUS
<1>4. row' = [row EXCEPT ![l] = rows]
  BY <1>3 DEF VoidMatch
<1>5. \A p \in Players : rows[p] = Restored(l, m, p)
  BY <1>3
<1>6. rows \in [Players -> Rows]
  BY <1>2, <1>3, <1>5
<1>7. PICK x : x = [match[m] EXCEPT !.status = "CANCELLED"]
  OBVIOUS
<1>8. x \in MatchRows
  BY <1>2, <1>7 DEF MatchRows
<1>9. match' = [match EXCEPT ![m] = x]
  BY <1>7 DEF VoidMatch
<1>10. /\ match' \in [Matches -> MatchRows]
       /\ \A k \in Matches : match'[k] = IF k = m THEN x ELSE match[k]
  BY <1>8, <1>9 DEF TypeOK
<1>11. ASSUME NEW p \in Players
       PROVE  /\ rows[p].won = match[m].snap[p].won /\ rows[p].paid = match[m].snap[p].paid
              /\ rows[p].taxed = match[m].snap[p].taxed
              /\ rows[p].activity = row[l][p].activity /\ rows[p].last = row[l][p].last
  BY <1>2, <1>5
<1>12. /\ match' \in [Matches -> MatchRows]
       /\ \A k \in Matches : k # m => match'[k] = match[k]
       /\ match'[m].status = "CANCELLED" /\ match'[m].league = l /\ match'[m].day = match[m].day
       /\ match'[m].late = match[m].late /\ match'[m].quit = match[m].quit
  BY <1>2, <1>7, <1>10 DEF MatchRows
<1>. HIDE DEF IInv
<1>. QED
  BY <1>2, <1>4, <1>6, <1>11, <1>12

LEMMA VoidMatchSound ==
    ASSUME IInv, NEW t \in Visits, VoidMatch(t)
    PROVE  IInv'
<1>1. PICK l, m : l = visit[t].league /\ m = visit[t].match
  OBVIOUS
<1>2. /\ l \in Leagues /\ m \in Matches /\ match[m].league = l /\ league[l].status # "none"
      /\ match[m].status = "COMPLETED"
      /\ match' \in [Matches -> MatchRows]
      /\ \A k \in Matches : k # m => match'[k] = match[k]
      /\ match'[m].status = "CANCELLED" /\ match'[m].league = l /\ match'[m].day = match[m].day
      /\ match'[m].late = match[m].late
  BY <1>1, VoidMatchIs
<1>3. PICK rows \in [Players -> Rows] : row' = [row EXCEPT ![l] = rows]
  BY <1>1, VoidMatchIs
<1>4. /\ visit[t].op = "void" /\ lost' = lost \cup TakenBack(l, m) /\ unsynced' = unsynced \cup {l}
      /\ visit' = [visit EXCEPT ![t].op = "notify"]
      /\ UNCHANGED <<today, tenancy, batch, batchDay, confirm, sync, missed, redated, bounds>>
  BY <1>1 DEF VoidMatch
<1>5. UNCHANGED <<league, leagueOf, eventBound, draft>>
  BY <1>4 DEF tenancy
<1>6. TypeOK /\ lost' \cup redated' \subseteq Leagues \X Players
  BY <1>2, <1>4, TakenBackIs DEF IInv, TypeOK
<1>7. PICK o \in Visitors : o = visit[t]
  BY <1>6 DEF TypeOK
<1>8. PICK v : v = [o EXCEPT !.op = "notify"]
  OBVIOUS
<1>9. v \in Visitors /\ v.op = "notify" /\ v.league = l
  BY <1>1, <1>7, <1>8 DEF Visitors
<1>10. visit' = [visit EXCEPT ![t] = v]
  BY <1>4, <1>7, <1>8
<1>13. MatchSound(m)'
  <2>1. MatchSound(m)
    BY <1>2 DEF IInv, Sound
  <2>. QED
    BY <1>2, <1>4, <1>5, <2>1 DEF MatchSound
<1>14. \A k \in Matches : match[k].status # "none" =>
          match'[k].status # "none" /\ match'[k].league = match[k].league
  BY <1>2
<1>15. \A k \in Matches : match'[k] = match[k] \/ MatchSound(k)'
  BY <1>2, <1>13
<1>16. UNCHANGED <<today, leagueOf, eventBound, draft, batch, batchDay, confirm, sync, missed, bounds>>
  BY <1>4, <1>5
<1>17. v.op = "notify" /\ v.league = l /\ league' = league
  BY <1>5, <1>9
<1>18. visit[t].op # "notify"
  BY <1>4
<1>. QED
  BY <1>2, <1>3, <1>4, <1>6, <1>9, <1>10, <1>14, <1>15, <1>16, <1>17, <1>18, ResultTurns

(* What a flip makes of ratings: the snapshot, decayed, with the result.    *)
Reflipped(rows, l, m) ==
    \A p \in Players :
        /\ rows[p].won = match[m].snap[p].won \cup {m} /\ rows[p].taxed = match[m].snap[p].taxed
        /\ rows[p].activity = row[l][p].activity \/ rows[p].activity = match[m].day
        /\ rows[p].last \in {None, today, row[l][p].last}

LEMMA FlipMatchIs ==
    ASSUME IInv, NEW t \in Visits, FlipMatch(t), NEW l, l = visit[t].league, NEW m, m = visit[t].match
    PROVE  /\ l \in Leagues /\ m \in Matches /\ match[m].league = l /\ league[l].status # "none"
           /\ match[m].status = "COMPLETED" /\ match[m].day \in Days
           /\ \A p \in Players : match[m].snap[p] \in Rows /\ row[l][p] \in Rows
           /\ \E rows \in [Players -> Rows] : row' = [row EXCEPT ![l] = rows] /\ Reflipped(rows, l, m)
<1>. USE DEF IInv
<1>1. visit[t].op = "flip" /\ Correctable(m)
  BY DEF FlipMatch
<1>2. /\ l \in Leagues /\ m \in Matches /\ match[m].league = l /\ league[l].status # "none"
      /\ match[m].status = "COMPLETED" /\ match[m] \in MatchRows /\ match[m].day \in Days
      /\ \A p \in Players : match[m].snap[p] \in Rows /\ row[l][p] \in Rows
      /\ \A p \in Players : \A y : y = Restored(l, m, p) =>
                 /\ y \in Rows /\ y.won = match[m].snap[p].won /\ y.paid = match[m].snap[p].paid
                 /\ y.taxed = match[m].snap[p].taxed
                 /\ y.activity = row[l][p].activity /\ y.last = row[l][p].last
  <2>. HIDE DEF IInv
  <2>. QED
    BY <1>1, CorrectionFinds
<1>3. PICK rows : rows = [p \in Players |-> Flipped(l, m, p)]
  OBVIOUS
<1>4. row' = [row EXCEPT ![l] = rows]
  BY <1>3 DEF FlipMatch
<1>5. ASSUME NEW p \in Players
      PROVE  /\ rows[p] \in Rows
             /\ rows[p].won = match[m].snap[p].won \cup {m} /\ rows[p].taxed = match[m].snap[p].taxed
             /\ rows[p].activity = row[l][p].activity \/ rows[p].activity = match[m].day
             /\ rows[p].last \in {None, today, row[l][p].last}
  <2>1. PICK r, day, quits, y : /\ r = Restored(l, m, p) /\ day = match[m].day
                                /\ quits = match[m].quit /\ y = rows[p]
    OBVIOUS
  <2>2. /\ r \in Rows /\ r.won = match[m].snap[p].won /\ r.taxed = match[m].snap[p].taxed
        /\ r.activity = row[l][p].activity /\ r.last = row[l][p].last
    BY <1>2, <2>1
  <2>3. PICK games, base : games = Games(l) /\ base = CatchUpIfDue(l, r, games)
    OBVIOUS
  <2>4. /\ base \in Rows /\ base.won = r.won /\ base.taxed = r.taxed /\ base.activity = r.activity
        /\ base.last \in {today, r.last}
    BY <1>2, <2>2, <2>3, CatchUpIfDueIs
  <2>5. PICK w : w = [base EXCEPT !.won = base.won \cup {m}]
    OBVIOUS
  <2>6. PICK rated : rated = MuWrite(base, w)
    OBVIOUS
  <2>7. rows[p] = Flipped(l, m, p)
    BY <1>3
  <2>8. PICK z : z = IF p \in quits THEN rated ELSE IdleDecayActivityReset(rated, day)
    OBVIOUS
  <2>9. z = Rated(base, base, m, p \in quits, TRUE, day)
    BY <2>5, <2>6, <2>8 DEF Rated
  <2>10. y = CatchUpIfDue(l, z, games)
    BY <2>1, <2>3, <2>7, <2>9 DEF Flipped
  <2>11. w \in Rows /\ w.won = base.won \cup {m} /\ w.taxed = base.taxed
    BY <1>2, <2>4, <2>5, ResultIs
  <2>12. /\ rated \in Rows /\ rated.won = w.won /\ rated.taxed = w.taxed
         /\ rated.activity = base.activity /\ rated.last = base.last
    BY <2>4, <2>6, <2>11, MuWriteIs
  <2>13. /\ z \in Rows /\ z.won = w.won /\ z.taxed = w.taxed
         /\ z.activity = base.activity \/ z.activity = day
         /\ z.last = base.last \/ z.last = None
    <3>1. CASE p \in quits
      BY <2>12, <2>8, <3>1
    <3>2. CASE p \notin quits
      <4>1. z = IdleDecayActivityReset(rated, day) /\ day \in Days
        BY <1>2, <2>1, <2>8, <3>2
      <4>2. z \in Rows /\ z.won = rated.won /\ z.taxed = rated.taxed /\ z.activity = day /\ z.last = None
        BY <2>12, <4>1, ActivityResetIs
      <4>. QED
        BY <2>12, <4>2
    <3>. QED
      BY <3>1, <3>2
  <2>14. /\ y \in Rows /\ y.won = z.won /\ y.taxed = z.taxed /\ y.activity = z.activity
         /\ y.last \in {today, z.last}
    BY <1>2, <2>10, <2>13, CatchUpIfDueIs
  <2>. QED
    BY <2>1, <2>2, <2>4, <2>11, <2>13, <2>14
<1>6. rows \in [Players -> Rows]
  BY <1>3, <1>5
<1>7. Reflipped(rows, l, m)
  BY <1>5 DEF Reflipped
<1>. HIDE DEF IInv
<1>. QED
  BY <1>2, <1>4, <1>6, <1>7

LEMMA FlipMatchSound ==
    ASSUME IInv, NEW t \in Visits, FlipMatch(t)
    PROVE  IInv'
<1>1. PICK l, m : l = visit[t].league /\ m = visit[t].match
  OBVIOUS
<1>2. l \in Leagues /\ m \in Matches /\ league[l].status # "none"
  BY <1>1, FlipMatchIs
<1>3. PICK rows \in [Players -> Rows] : row' = [row EXCEPT ![l] = rows]
  BY <1>1, FlipMatchIs
<1>4. /\ visit[t].op = "flip" /\ lost' = lost \cup TakenBack(l, m) /\ unsynced' = unsynced \cup {l}
      /\ visit' = [visit EXCEPT ![t] = NoVisit] /\ league' = MarkDirty(l)
      /\ redated' = redated \cup {<<l, p>> : p \in Players} /\ match' = match
      /\ UNCHANGED <<today, leagueOf, eventBound, draft, batch, batchDay, confirm, sync, missed, bounds>>
  BY <1>1 DEF FlipMatch
<1>5. TypeOK /\ lost' \subseteq Leagues \X Players
  BY <1>2, <1>4, TakenBackIs DEF IInv
<1>6. redated' \subseteq Leagues \X Players /\ match' \in [Matches -> MatchRows]
  BY <1>2, <1>4, <1>5 DEF TypeOK
<1>7. PICK v : v = NoVisit
  OBVIOUS
<1>8. \A k \in Matches : match'[k] = match[k]
  BY <1>4
<1>. QED
  BY <1>2, <1>3, <1>4, <1>5, <1>6, <1>7, <1>8, NoVisitIs, ResultTurns

-----------------------------------------------------------------------------
(* Marks made on their own.                                                  *)

(* A mark tried is made, or a call of those that may fail has failed.       *)
LEMMA MarkTriedIs ==
    ASSUME TypeOK, NEW l \in Leagues, MarkTried(l)
    PROVE  /\ league' \in [Leagues -> LeagueRows] /\ faults' \in 0..MaxFaults
           /\ \A k \in Leagues : k # l => league'[k] = league[k]
           /\ \A k \in Leagues : league[k].dirty => league'[k].dirty
           /\ \A k \in Leagues : /\ league'[k].status = league[k].status /\ league'[k].pred = league[k].pred
                                  /\ league'[k].mode = league[k].mode
<1>1. CASE league' = MarkDirty(l) /\ faults' = faults
  BY <1>1, MarkDirtyIs DEF TypeOK
<1>2. CASE league' = league /\ faults < MaxFaults /\ faults' = faults + 1
  BY <1>2, SeasonAssumption DEF TypeOK
<1>. QED
  BY <1>1, <1>2 DEF MarkTried

LEMMA MarkTurns ==
    ASSUME IInv, NEW l \in Leagues, league[l].status # "none", MarkTried(l),
           visit' \in [Visits -> Visitors], batch' \in [Batches -> Ticks], batchDay' \in Days \cup {None},
           \A t \in Visits : \/ visit'[t] = visit[t]
                             \/ /\ visit[t].league = l /\ visit'[t] = NoVisit
                                /\ league'[l].dirty \/ l \in missed',
           \A b \in Batches : batch'[b] = batch[b] \/ BatchSound(batch[b])',
           missed \subseteq missed', missed' \subseteq Leagues,
           UNCHANGED <<today, leagueOf, eventBound, draft, row, match, confirm, sync, unsynced, lost, redated,
                       plan, staff>>
    PROVE  IInv'
<1>. USE DEF IInv
<1>1. /\ league' \in [Leagues -> LeagueRows] /\ faults' \in 0..MaxFaults
      /\ \A k \in Leagues : k # l => league'[k] = league[k]
      /\ \A k \in Leagues : league[k].dirty => league'[k].dirty
      /\ \A k \in Leagues : /\ league'[k].status = league[k].status /\ league'[k].pred = league[k].pred
                             /\ league'[k].mode = league[k].mode
  BY MarkTriedIs
<1>2. TypeOK'
  BY <1>1 DEF TypeOK
<1>3. Grown /\ SameSeasons /\ today' >= today
  BY <1>1 DEF Grown, SameSeasons, TypeOK, Days
<1>4. Sound'
  <2>1. ASSUME NEW u \in Visits PROVE VisitSound(visit[u])'
    <3>1. CASE visit'[u] = visit[u]
      BY <1>3, <3>1, Grows
    <3>2. CASE visit'[u] = NoVisit
      BY <3>2, NoVisitIs DEF VisitSound
    <3>. QED
      BY <3>1, <3>2
  <2>2. \A b \in Batches : BatchSound(batch[b])'
    BY <1>3, Grows
  <2>3. \A m \in Matches : MatchSound(m)'
    BY <1>2, <1>3, MatchKept
  <2>4. \A k \in Leagues : LeagueSound(k)'
    BY <1>1, <1>3, LeaguesKept
  <2>5. \A c \in Channels : ChannelSound(c)'
    BY <1>3, ChannelKept
  <2>6. \A d \in Drafts : DraftSound(d)'
    BY <1>3, Grows
  <2>7. ConfirmSound'
    BY <1>3, ConfirmKept
  <2>. QED
    BY <2>1, <2>2, <2>3, <2>4, <2>5, <2>6, <2>7 DEF Sound
<1>5. RolesMarked'
  <2>. SUFFICES ASSUME NEW k \in unsynced, league[k].status = "ACTIVE", k \in Leagues
                PROVE  \/ league'[k].dirty \/ k \in missed'
                       \/ \E u \in Visits : visit'[u].op = "notify" /\ visit'[u].league = k
    BY <1>1 DEF RolesMarked, IsLeagueWritable, TypeOK
  <2>1. \/ league[k].dirty \/ k \in missed
        \/ \E u \in Visits : visit[u].op = "notify" /\ visit[u].league = k
    BY DEF RolesMarked, IsLeagueWritable
  <2>2. ASSUME NEW u \in Visits, visit[u].op = "notify", visit[u].league = k
        PROVE  visit'[u] = visit[u] \/ league'[k].dirty \/ k \in missed'
    BY <2>2
  <2>. QED
    BY <1>1, <2>1, <2>2
<1>. QED
  BY <1>2, <1>4, <1>5

LEMMA NotifySound ==
    ASSUME IInv, NEW t \in Visits, NotifyLeagueRatingChanged(t)
    PROVE  IInv'
<1>. USE DEF IInv
<1>1. PICK l \in Leagues : l = visit[t].league
  BY DEF TypeOK, Visitors
<1>2. /\ visit[t].op = "notify" /\ MarkTried(l) /\ visit' = [visit EXCEPT ![t] = NoVisit]
      /\ missed' = missed \cup {k \in {l} : ~league'[k].dirty}
      /\ UNCHANGED <<today, leagueOf, eventBound, draft, row, match, batch, batchDay, confirm, sync,
                     unsynced, lost, redated, plan, staff>>
  BY <1>1 DEF NotifyLeagueRatingChanged
<1>3. league[l].status # "none"
  BY <1>1, <1>2 DEF Sound, VisitSound
<1>4. /\ visit' \in [Visits -> Visitors] /\ batch' \in [Batches -> Ticks] /\ batchDay' \in Days \cup {None}
      /\ \A u \in Visits : visit'[u] = visit[u] \/ (visit[u].league = l /\ visit'[u] = NoVisit)
  BY <1>1, <1>2, NoVisitIs DEF TypeOK
<1>5. /\ missed \subseteq missed' /\ missed' \subseteq Leagues
      /\ league'[l].dirty \/ l \in missed'
  BY <1>2 DEF TypeOK
<1>. QED
  BY <1>2, <1>3, <1>4, <1>5, MarkTurns

LEMMA BatchLeagueDoneSound ==
    ASSUME IInv, NEW b \in Batches, BatchLeagueDone(b)
    PROVE  IInv'
<1>. USE DEF IInv
<1>1. PICK o \in Ticks : o = batch[b]
  BY DEF TypeOK
<1>2. BatchSound(o)
  BY <1>1 DEF Sound
<1>3. PICK x : x = IF o.leagues = {} THEN NoBatch ELSE [o EXCEPT !.league = None, !.hit = FALSE]
  OBVIOUS
<1>4. batch' = [batch EXCEPT ![b] = x] /\ o.player = None
  BY <1>1, <1>3 DEF BatchLeagueDone
<1>5. x \in Ticks
  BY <1>3, NoBatchIs DEF Ticks
<1>6. BatchSound(x)
  <2>1. CASE o.leagues = {}
    BY <1>3, <2>1, NoBatchIs
  <2>2. CASE o.leagues # {}
    BY <1>2, <1>3, <1>4, <2>2 DEF BatchSound, Ticks
  <2>. QED
    BY <2>1, <2>2
<1>7. /\ batch' \in [Batches -> Ticks]
      /\ \A u \in Batches : batch'[u] = IF u = b THEN x ELSE batch[u]
  BY <1>4, <1>5 DEF TypeOK
<1>8. batchDay' \in Days \cup {None}
  BY <1>1 DEF BatchLeagueDone, TypeOK, Ticks
<1>9. /\ UNCHANGED <<today, leagueOf, eventBound, draft, row, match, visit, confirm, sync>>
      /\ UNCHANGED <<unsynced, missed, lost, redated, plan, staff>>
      /\ IF o.hit THEN MarkTried(o.league) ELSE UNCHANGED <<league, faults>>
  BY <1>1 DEF BatchLeagueDone, history
<1>10. CASE o.hit
  <2>1. PICK l : l = o.league
    OBVIOUS
  <2>2. l \in Leagues /\ league[l].status # "none" /\ MarkTried(l)
    BY <1>2, <1>9, <1>10, <2>1 DEF BatchSound, Ticks
  <2>3. \A k \in Leagues : league'[k].status = league[k].status
    BY <2>2, MarkTriedIs
  <2>4. BatchSound(batch[b])'
    BY <1>5, <1>6, <1>7, <1>9, <2>3 DEF BatchSound, Ticks
  <2>5. visit' \in [Visits -> Visitors] /\ missed \subseteq missed' /\ missed' \subseteq Leagues
    BY <1>9 DEF TypeOK
  <2>. QED
    BY <1>7, <1>8, <1>9, <2>2, <2>4, <2>5, MarkTurns
<1>11. CASE ~o.hit
  <2>1. league' = league /\ faults' = faults
    BY <1>9, <1>11
  <2>2. /\ UNCHANGED <<today, league, leagueOf, eventBound, draft, row, match, visit, confirm, sync>>
        /\ UNCHANGED <<unsynced, missed, lost, redated, plan, staff, faults>>
    BY <1>9, <2>1
  <2>3. TypeOK'
    BY <1>7, <1>8, <2>2 DEF TypeOK
  <2>4. Grown /\ SameSeasons /\ today' >= today
    BY <2>2 DEF Grown, SameSeasons, TypeOK, Days
  <2>5. Sound'
    <3>1. \A u \in Visits : VisitSound(visit[u])'
      BY <2>2, <2>4, Grows
    <3>2. ASSUME NEW u \in Batches PROVE BatchSound(batch[u])'
      <4>1. CASE u = b
        BY <1>6, <1>7, <2>2, <4>1 DEF BatchSound
      <4>2. CASE u # b
        BY <1>7, <2>4, <4>2, Grows
      <4>. QED
        BY <4>1, <4>2
    <3>3. \A m \in Matches : MatchSound(m)'
      BY <2>2, <2>3, <2>4, MatchKept
    <3>4. \A k \in Leagues : LeagueSound(k)'
      BY <2>2, <2>4, LeaguesKept
    <3>5. \A c \in Channels : ChannelSound(c)'
      BY <2>2, <2>4, ChannelKept
    <3>6. \A d \in Drafts : DraftSound(d)'
      BY <2>2, <2>4, Grows
    <3>7. ConfirmSound'
      BY <2>2, <2>4, ConfirmKept
    <3>. QED
      BY <3>1, <3>2, <3>3, <3>4, <3>5, <3>6, <3>7 DEF Sound
  <2>6. RolesMarked'
    BY <2>2, MarksKept
  <2>. QED
    BY <2>3, <2>5, <2>6
<1>. QED
  BY <1>10, <1>11

-----------------------------------------------------------------------------
(* Staff: settings, leagues, bindings and previews.                          *)

LEMMA CommandIs ==
    ASSUME TypeOK, NEW kind, Command(kind)
    PROVE  staff' \in 0..MaxStaff /\ confirm = NoConfirm
BY SeasonAssumption DEF TypeOK, Command

LEMMA ConfiguredSound ==
    ASSUME IInv, NEW kind, NEW l \in Leagues, NEW lg \in LeagueRows, Configured(kind, l, lg),
           lg.status = league[l].status, lg.pred = league[l].pred, lg.mode = league[l].mode,
           league[l].dirty => lg.dirty
    PROVE  IInv'
<1>1. Command(kind) /\ league[l].status = "ACTIVE" /\ TypeOK
  BY DEF Configured, IsLeagueWritable, IInv
<1>2. staff' \in 0..MaxStaff
  BY <1>1, CommandIs
<1>. QED
  BY <1>1, <1>2, SettingsTurn DEF Configured

(* What each command writes keeps what seasons follow each other by.        *)
LEMMA SettingsAre ==
    ASSUME NEW lg \in LeagueRows, NEW e \in Days \cup {None}, NEW on \in BOOLEAN
    PROVE  \A y \in {SeasonEndsAt(lg, e), CrunchStarted(lg), CrunchCleared(lg), DecayEnabled(lg, on),
                     PresetApplied(lg), OverridesCleared(lg), RolesEnabled(lg, on), RoleMapped(lg)} :
              /\ y \in LeagueRows /\ y.status = lg.status /\ y.pred = lg.pred /\ y.mode = lg.mode
              /\ lg.dirty => y.dirty
<1>1. \A y : y = SeasonEndsAt(lg, e) =>
         y \in LeagueRows /\ y.status = lg.status /\ y.pred = lg.pred /\ y.mode = lg.mode /\ y.dirty = lg.dirty
  BY DEF SeasonEndsAt, LeagueRows
<1>2. \A y : y = CrunchStarted(lg) \/ y = CrunchCleared(lg) =>
         y \in LeagueRows /\ y.status = lg.status /\ y.pred = lg.pred /\ y.mode = lg.mode /\ y.dirty = lg.dirty
  BY DEF CrunchStarted, CrunchCleared, LeagueRows
<1>3. \A y : y = DecayEnabled(lg, on) =>
         y \in LeagueRows /\ y.status = lg.status /\ y.pred = lg.pred /\ y.mode = lg.mode /\ y.dirty = lg.dirty
  BY DEF DecayEnabled, LeagueRows
<1>4. \A y : y = PresetApplied(lg) \/ y = OverridesCleared(lg) =>
         y \in LeagueRows /\ y.status = lg.status /\ y.pred = lg.pred /\ y.mode = lg.mode /\ y.dirty = lg.dirty
  BY DEF PresetApplied, OverridesCleared, LeagueRows, Presets
<1>5. \A y : y = RolesEnabled(lg, on) =>
         y \in LeagueRows /\ y.status = lg.status /\ y.pred = lg.pred /\ y.mode = lg.mode /\ (lg.dirty => y.dirty)
  <2>1. PICK dirty \in BOOLEAN : dirty = (lg.dirty \/ on)
    OBVIOUS
  <2>2. PICK u : u = [lg EXCEPT !.roles = on]
    OBVIOUS
  <2>3. u \in LeagueRows /\ u.status = lg.status /\ u.pred = lg.pred /\ u.mode = lg.mode
    BY <2>2 DEF LeagueRows
  <2>4. RolesEnabled(lg, on) = [u EXCEPT !.dirty = dirty]
    BY <2>1, <2>2 DEF RolesEnabled, LeagueRows
  <2>. QED
    BY <2>1, <2>3, <2>4 DEF LeagueRows
<1>6. \A y : y = RoleMapped(lg) =>
         y \in LeagueRows /\ y.status = lg.status /\ y.pred = lg.pred /\ y.mode = lg.mode /\ y.dirty
  BY DEF RoleMapped, LeagueRows
<1>. QED
  BY <1>1, <1>2, <1>3, <1>4, <1>5, <1>6

LEMMA SettingsSound ==
    ASSUME IInv, NEW l \in Leagues,
           \/ SetLeagueSeasonEndsAt(l) \/ ClearLeagueSeasonEndsAt(l) \/ StartLeagueCrunch(l)
           \/ ClearLeagueCrunch(l) \/ SetDecayEnabled(l) \/ ApplyDecayPreset(l) \/ ClearDecayModeSetting(l)
           \/ SetHeroChampionRolesEnabled(l) \/ SetHeroChampionRole(l)
    PROVE  \E kind : \E lg \in LeagueRows :
              /\ Configured(kind, l, lg) /\ lg.status = league[l].status /\ lg.pred = league[l].pred
              /\ lg.mode = league[l].mode
              /\ league[l].dirty => lg.dirty
<1>1. PICK o \in LeagueRows : o = league[l]
  BY DEF IInv, TypeOK
<1>2. o.ends \in Days \cup {None} /\ o.decay \in BOOLEAN /\ o.roles \in BOOLEAN
  BY DEF LeagueRows
<1>. DEFINE Fits(y) == /\ y \in LeagueRows /\ y.status = o.status /\ y.pred = o.pred /\ y.mode = o.mode
                       /\ o.dirty => y.dirty
<1>3. ASSUME NEW e \in Days \cup {None} PROVE Fits(SeasonEndsAt(o, e))
  BY SettingsAre
<1>4. \A on \in BOOLEAN : /\ Fits(CrunchStarted(o)) /\ Fits(CrunchCleared(o)) /\ Fits(DecayEnabled(o, on))
                          /\ Fits(PresetApplied(o)) /\ Fits(OverridesCleared(o)) /\ Fits(RolesEnabled(o, on))
                          /\ Fits(RoleMapped(o))
  BY <1>2, SettingsAre
<1>. SUFFICES \E kind, lg : Configured(kind, l, lg) /\ Fits(lg)
  BY <1>1
<1>5. CASE SetLeagueSeasonEndsAt(l)
  <2>1. PICK e \in SeasonEnds : Configured("settings", l, SeasonEndsAt(o, e))
    BY <1>1, <1>5 DEF SetLeagueSeasonEndsAt
  <2>2. e \in Days
    BY SeasonAssumption
  <2>. QED
    BY <1>3, <2>1, <2>2
<1>6. CASE ClearLeagueSeasonEndsAt(l)
  BY <1>1, <1>3, <1>6 DEF ClearLeagueSeasonEndsAt
<1>7. CASE StartLeagueCrunch(l) \/ ClearLeagueCrunch(l)
  BY <1>1, <1>4, <1>7 DEF StartLeagueCrunch, ClearLeagueCrunch
<1>8. CASE SetDecayEnabled(l)
  <2>1. (~o.decay) \in BOOLEAN
    BY <1>2
  <2>. QED
    BY <1>1, <1>4, <1>8, <2>1 DEF SetDecayEnabled
<1>9. CASE ApplyDecayPreset(l) \/ ClearDecayModeSetting(l)
  BY <1>1, <1>4, <1>9 DEF ApplyDecayPreset, ClearDecayModeSetting
<1>10. CASE SetHeroChampionRolesEnabled(l)
  <2>1. (~o.roles) \in BOOLEAN
    BY <1>2
  <2>. QED
    BY <1>1, <1>4, <1>10, <2>1 DEF SetHeroChampionRolesEnabled
<1>11. CASE SetHeroChampionRole(l)
  BY <1>1, <1>4, <1>11 DEF SetHeroChampionRole
<1>. QED
  BY <1>5, <1>6, <1>7, <1>8, <1>9, <1>10, <1>11

LEMMA CreateLeagueSound ==
    ASSUME IInv, NEW n \in Leagues, CreateLeague(n)
    PROVE  IInv'
<1>. USE DEF IInv
<1>1. /\ league[n].status = "none" /\ league' = [league EXCEPT ![n] = NewLeague]
      /\ UNCHANGED <<today, leagueOf, eventBound, draft, row, match, visit, batch, batchDay, confirm, sync>>
      /\ UNCHANGED <<unsynced, missed, lost, redated, plan, faults>>
      /\ staff' \in 0..MaxStaff /\ confirm = NoConfirm
  BY CommandIs DEF CreateLeague, history
<1>2. NewLeague \in LeagueRows /\ NewLeague.status = "ACTIVE" /\ NewLeague.pred = None /\ NewLeague.mode = None
  BY DEF NewLeague, LeagueRows, Presets
<1>3. /\ league' \in [Leagues -> LeagueRows]
      /\ \A k \in Leagues : league'[k] = IF k = n THEN NewLeague ELSE league[k]
  BY <1>1, <1>2 DEF TypeOK
<1>4. TypeOK'
  BY <1>1, <1>3 DEF TypeOK
<1>5. Grown
  BY <1>1, <1>2, <1>3 DEF Grown
<1>6. league[n] = NoLeague /\ n \notin unsynced /\ NoLeague.pred = None /\ NoLeague.mode = None
  BY <1>1 DEF Sound, LeagueSound, NoLeague, NewLeague
<1>7. \A k \in Leagues : league'[k].pred = league[k].pred /\ league'[k].mode = league[k].mode
  BY <1>2, <1>3, <1>6
<1>8. \A k \in Leagues : k # n => league'[k] = league[k]
  BY <1>3
<1>9. Sound'
  <2>1. \A u \in Visits : VisitSound(visit[u])'
    BY <1>1, <1>5, Grows
  <2>2. \A b \in Batches : BatchSound(batch[b])'
    BY <1>1, <1>5, Grows
  <2>3. ASSUME NEW m \in Matches PROVE MatchSound(m)'
    <3>1. MatchSound(m) /\ match[m] \in MatchRows /\ match[m].league \in Leagues
      BY DEF Sound, TypeOK, MatchRows
    <3>2. CASE match[m].status = "none"
      BY <1>1, <3>1, <3>2 DEF MatchSound
    <3>3. CASE match[m].status # "none"
      <4>1. match[m].league # n
        BY <1>1, <3>1, <3>3 DEF MatchSound
      <4>. QED
        BY <1>1, <1>8, <3>1, <3>3, <4>1 DEF MatchSound
    <3>. QED
      BY <3>2, <3>3
  <2>4. ASSUME NEW k \in Leagues PROVE LeagueSound(k)'
    <3>1. LeagueSound(k) /\ (league[k].pred # None => league[k].pred \in Leagues)
      BY DEF Sound, TypeOK, LeagueRows
    <3>2. CASE k = n
      BY <1>1, <1>2, <1>3, <1>7, <3>1, <3>2 DEF LeagueSound
    <3>3. CASE k # n
      BY <1>1, <1>7, <1>8, <3>1, <3>3 DEF LeagueSound
    <3>. QED
      BY <3>2, <3>3
  <2>5. ASSUME NEW c \in Channels PROVE ChannelSound(c)'
    <3>1. ChannelSound(c) /\ (leagueOf[c] # None => leagueOf[c] \in Leagues)
      BY DEF Sound, TypeOK
    <3>. QED
      BY <1>1, <1>8, <3>1 DEF ChannelSound
  <2>6. \A d \in Drafts : DraftSound(d)'
    BY <1>1, <1>5, Grows
  <2>7. ConfirmSound'
    BY <1>1 DEF ConfirmSound, NoConfirm, NoLeague, NewLeague
  <2>. QED
    BY <2>1, <2>2, <2>3, <2>4, <2>5, <2>6, <2>7 DEF Sound
<1>10. RolesMarked'
  <2>. SUFFICES ASSUME NEW k \in unsynced, league'[k].status = "ACTIVE", k \in Leagues
                PROVE  \/ league'[k].dirty \/ k \in missed
                       \/ \E u \in Visits : visit[u].op = "notify" /\ visit[u].league = k
    BY <1>1 DEF RolesMarked, IsLeagueWritable, TypeOK
  <2>1. k # n
    BY <1>6
  <2>. QED
    BY <1>8, <2>1 DEF RolesMarked, IsLeagueWritable
<1>. QED
  BY <1>4, <1>9, <1>10

(* What changes only bindings, previews or the rollover being confirmed.    *)
LEMMA TenancyTurns ==
    ASSUME IInv, UNCHANGED <<today, league, row, match, visit, batch, batchDay, sync, history, plan, faults>>,
           staff' \in 0..MaxStaff, leagueOf' \in [Channels -> Leagues \cup {None}],
           eventBound' \subseteq Channels,
           draft' \in [Drafts -> [source : Leagues, name : Leagues, mode : Modes] \cup {None}],
           confirm' \in Confirmations, \A c \in Channels : ChannelSound(c)',
           \A d \in Drafts : DraftSound(d)', ConfirmSound'
    PROVE  IInv'
<1>. USE DEF IInv
<1>1. UNCHANGED <<unsynced, missed, lost, redated>>
  BY DEF history
<1>2. TypeOK'
  BY <1>1 DEF TypeOK
<1>3. Grown /\ SameSeasons /\ today' >= today
  BY DEF Grown, SameSeasons, TypeOK, Days
<1>4. Sound'
  <2>1. \A u \in Visits : VisitSound(visit[u])'
    BY <1>3, Grows
  <2>2. \A b \in Batches : BatchSound(batch[b])'
    BY <1>3, Grows
  <2>3. \A m \in Matches : MatchSound(m)'
    BY <1>2, <1>3, MatchKept
  <2>4. \A k \in Leagues : LeagueSound(k)'
    BY <1>1, <1>3, LeaguesKept
  <2>. QED
    BY <2>1, <2>2, <2>3, <2>4 DEF Sound
<1>5. RolesMarked'
  BY <1>1, MarksKept
<1>. QED
  BY <1>2, <1>4, <1>5

LEMMA BindingsSound ==
    ASSUME IInv, NEW c \in Channels,
           \/ \E l \in Leagues : BindChannel(c, l)
           \/ UnbindChannel(c) \/ BindEvent(c) \/ UnbindEvent(c)
    PROVE  IInv'
<1>. USE DEF IInv
<1>1. /\ UNCHANGED <<today, league, draft, row, match, visit, batch, batchDay, confirm, sync, history, plan, faults>>
      /\ staff' \in 0..MaxStaff
  BY CommandIs DEF BindChannel, UnbindChannel, BindEvent, UnbindEvent
<1>2. leagueOf' \in [Channels -> Leagues \cup {None}] /\ eventBound' \subseteq Channels
  BY DEF BindChannel, UnbindChannel, BindEvent, UnbindEvent, TypeOK
<1>3. ASSUME NEW k \in Channels PROVE ChannelSound(k)'
  <2>1. ChannelSound(k)
    BY DEF Sound
  <2>2. CASE \E l \in Leagues : BindChannel(c, l)
    BY <1>1, <2>1, <2>2 DEF BindChannel, ChannelSound, IsLeagueWritable, TypeOK
  <2>3. CASE UnbindChannel(c)
    BY <1>1, <2>1, <2>3 DEF UnbindChannel, ChannelSound, TypeOK
  <2>4. CASE BindEvent(c)
    BY <1>1, <2>1, <2>4 DEF BindEvent, ChannelSound, TypeOK
  <2>5. CASE UnbindEvent(c)
    BY <1>1, <2>1, <2>5 DEF UnbindEvent, ChannelSound, TypeOK
  <2>. QED
    BY <2>2, <2>3, <2>4, <2>5
<1>4. Grown /\ SameSeasons
  BY <1>1 DEF Grown, SameSeasons
<1>5. \A d \in Drafts : DraftSound(d)'
  BY <1>1, <1>4, Grows
<1>6. ConfirmSound'
  BY <1>1, <1>4, ConfirmKept
<1>7. draft' \in [Drafts -> [source : Leagues, name : Leagues, mode : Modes] \cup {None}] /\ confirm' \in Confirmations
  BY <1>1 DEF TypeOK
<1>. QED
  BY <1>1, <1>2, <1>3, <1>5, <1>6, <1>7, TenancyTurns

LEMMA NoConfirmIs == NoConfirm \in Confirmations /\ NoConfirm.draft = None /\ NoConfirm.rows = [p \in Players |-> None]
<1>1. NoLeague \in LeagueRows
  BY DEF NoLeague, NewLeague, LeagueRows, Presets
<1>. QED
  BY <1>1 DEF NoConfirm, Confirmations

LEMMA PreviewSound ==
    ASSUME IInv, NEW l \in Leagues, NEW n \in Leagues, NEW mode \in Modes, NEW d \in Drafts,
           PreviewLeagueRollover(l, n, mode, d)
    PROVE  IInv'
<1>. USE DEF IInv
<1>1. /\ UNCHANGED <<today, league, leagueOf, eventBound, row, match, visit, batch, batchDay, confirm, sync>>
      /\ UNCHANGED <<history, plan, faults>>
      /\ staff' \in 0..MaxStaff /\ confirm = NoConfirm /\ league[l].status = "ACTIVE"
  BY CommandIs DEF PreviewLeagueRollover, IsLeagueWritable
<1>2. PICK expired \in SUBSET Drafts :
         draft' = [x \in Drafts |-> IF x = d THEN [source |-> l, name |-> n, mode |-> mode]
                                    ELSE IF x \in expired THEN None ELSE draft[x]]
  BY DEF PreviewLeagueRollover
<1>3. draft' \in [Drafts -> [source : Leagues, name : Leagues, mode : Modes] \cup {None}]
  BY <1>2 DEF TypeOK
<1>4. ASSUME NEW x \in Drafts PROVE DraftSound(x)'
  <2>1. DraftSound(x)
    BY DEF Sound
  <2>. QED
    BY <1>1, <1>2, <2>1 DEF DraftSound
<1>5. Grown /\ SameSeasons
  BY <1>1 DEF Grown, SameSeasons
<1>6. \A c \in Channels : ChannelSound(c)'
  BY <1>1, <1>5, ChannelKept
<1>7. ConfirmSound'
  BY <1>1 DEF ConfirmSound, NoConfirm, NoLeague, NewLeague
<1>8. /\ leagueOf' \in [Channels -> Leagues \cup {None}] /\ eventBound' \subseteq Channels
      /\ confirm' \in Confirmations
  BY <1>1 DEF TypeOK
<1>. QED
  BY <1>1, <1>3, <1>4, <1>6, <1>7, <1>8, TenancyTurns

LEMMA CancelDraftSound ==
    ASSUME IInv, NEW d \in Drafts, CancelLeagueRolloverDraft(d)
    PROVE  IInv'
<1>. USE DEF IInv
<1>1. /\ UNCHANGED <<today, league, leagueOf, eventBound, row, match, visit, batch, batchDay, confirm, sync>>
      /\ UNCHANGED <<history, plan, faults, staff>>
      /\ confirm = NoConfirm /\ draft' = [draft EXCEPT ![d] = None]
  BY DEF CancelLeagueRolloverDraft, bounds
<1>2. /\ draft' \in [Drafts -> [source : Leagues, name : Leagues, mode : Modes] \cup {None}]
      /\ staff' \in 0..MaxStaff
  BY <1>1 DEF TypeOK
<1>3. Grown /\ SameSeasons
  BY <1>1 DEF Grown, SameSeasons
<1>4. ASSUME NEW x \in Drafts PROVE DraftSound(x)'
  <2>1. draft'[x] = draft[x] \/ draft'[x] = None
    BY <1>1 DEF TypeOK
  <2>. QED
    BY <1>3, <2>1, Grows DEF DraftSound
<1>5. \A c \in Channels : ChannelSound(c)'
  BY <1>1, <1>3, ChannelKept
<1>6. ConfirmSound'
  BY <1>1 DEF ConfirmSound, NoConfirm, NoLeague, NewLeague
<1>7. /\ leagueOf' \in [Channels -> Leagues \cup {None}] /\ eventBound' \subseteq Channels
      /\ confirm' \in Confirmations
  BY <1>1 DEF TypeOK
<1>. QED
  BY <1>1, <1>2, <1>4, <1>5, <1>6, <1>7, TenancyTurns

LEMMA RolloverLoadSound ==
    ASSUME IInv, NEW d \in Drafts, RolloverLoad(d)
    PROVE  IInv'
<1>. USE DEF IInv
<1>1. PICK l : l = draft[d].source
  OBVIOUS
<1>2. /\ UNCHANGED <<today, league, leagueOf, eventBound, draft, row, match, visit, batch, batchDay, sync>>
      /\ UNCHANGED <<history, plan, faults, staff>>
      /\ draft[d] # None /\ league[l].status # "ARCHIVED"
      /\ confirm' = [draft |-> d, source |-> league[l], rows |-> row[l], taxed |-> Taxed(l)]
  BY <1>1 DEF RolloverLoad, bounds, tenancy
<1>3. l \in Leagues
  BY <1>1, <1>2 DEF TypeOK
<1>4. DraftSound(d)
  BY DEF Sound
<1>5. league[l].status = "ACTIVE"
  BY <1>1, <1>2, <1>3, <1>4 DEF DraftSound, TypeOK, LeagueRows
<1>6. confirm' \in Confirmations
  <2>1. Taxed(l) \subseteq Players
    BY DEF Taxed
  <2>. QED
    BY <1>2, <1>3, <2>1 DEF Confirmations, TypeOK
<1>7. ConfirmSound'
  BY <1>1, <1>2, <1>3, <1>5 DEF ConfirmSound
<1>8. Grown /\ SameSeasons
  BY <1>2 DEF Grown, SameSeasons
<1>9. \A c \in Channels : ChannelSound(c)'
  BY <1>2, <1>8, ChannelKept
<1>10. \A x \in Drafts : DraftSound(x)'
  BY <1>2, <1>8, Grows
<1>11. /\ leagueOf' \in [Channels -> Leagues \cup {None}] /\ eventBound' \subseteq Channels
       /\ draft' \in [Drafts -> [source : Leagues, name : Leagues, mode : Modes] \cup {None}]
       /\ staff' \in 0..MaxStaff
  BY <1>2 DEF TypeOK
<1>. QED
  BY <1>2, <1>6, <1>7, <1>9, <1>10, <1>11, TenancyTurns

LEMMA RolloverRefusedSound ==
    ASSUME IInv, RolloverRefused
    PROVE  IInv'
<1>. USE DEF IInv
<1>1. /\ UNCHANGED <<today, league, leagueOf, eventBound, draft, row, match, visit, batch, batchDay, sync>>
      /\ UNCHANGED <<history, plan, faults, staff>> /\ confirm' = NoConfirm
  BY DEF RolloverRefused, bounds, tenancy
<1>2. confirm' \in Confirmations
  BY <1>1, NoConfirmIs
<1>3. ConfirmSound'
  BY <1>1 DEF ConfirmSound, NoConfirm, NoLeague, NewLeague
<1>4. Grown /\ SameSeasons
  BY <1>1 DEF Grown, SameSeasons
<1>5. \A c \in Channels : ChannelSound(c)'
  BY <1>1, <1>4, ChannelKept
<1>6. \A x \in Drafts : DraftSound(x)'
  BY <1>1, <1>4, Grows
<1>7. /\ leagueOf' \in [Channels -> Leagues \cup {None}] /\ eventBound' \subseteq Channels
      /\ draft' \in [Drafts -> [source : Leagues, name : Leagues, mode : Modes] \cup {None}]
      /\ staff' \in 0..MaxStaff
  BY <1>1 DEF TypeOK
<1>. QED
  BY <1>1, <1>2, <1>3, <1>5, <1>6, <1>7, TenancyTurns

-----------------------------------------------------------------------------
(* The rollover.                                                             *)

LEMMA CommitLeaguesAre ==
    ASSUME IInv, RolloverCommit, NEW l, l = draft[confirm.draft].source,
           NEW n, n = draft[confirm.draft].name, NEW mode, mode = draft[confirm.draft].mode
    PROVE  /\ l \in Leagues /\ n \in Leagues /\ mode \in Modes /\ l # n /\ confirm.draft \in Drafts
           /\ league[l].status = "ACTIVE" /\ league[n] = NoLeague /\ n \notin unsynced
           /\ league' \in [Leagues -> LeagueRows]
           /\ \A k \in Leagues : k # l /\ k # n => league'[k] = league[k]
           /\ league'[l].status = "ARCHIVED"
           /\ league'[l].pred = league[l].pred /\ league'[l].mode = league[l].mode
           /\ league'[n].status = "ACTIVE" /\ league'[n].pred = l /\ league'[n].mode = mode
<1>. USE DEF IInv
<1>1. confirm # NoConfirm /\ league[n].status = "none"
  BY DEF RolloverCommit
<1>2. confirm.draft \in Drafts /\ draft[confirm.draft] # None /\ league[l].status = "ACTIVE"
  BY <1>1 DEF Sound, ConfirmSound
<1>3. l \in Leagues /\ n \in Leagues /\ mode \in Modes
  BY <1>2 DEF TypeOK
<1>4. league[n] = NoLeague /\ n \notin unsynced
  BY <1>1, <1>3 DEF Sound, LeagueSound
<1>5. PICK lg : lg = Archived(league[l])
  OBVIOUS
<1>6. lg \in LeagueRows /\ lg.status = "ARCHIVED" /\ lg.pred = league[l].pred /\ lg.mode = league[l].mode
  <2>1. league[l] \in LeagueRows
    BY <1>3 DEF TypeOK
  <2>. QED
    BY <1>5, <2>1 DEF Archived, LeagueRows
<1>7. PICK s \in LeagueRows : s = confirm.source
  BY DEF TypeOK, Confirmations
<1>8. PICK new : new = SuccessorLeagueCreateData(l, mode)
  OBVIOUS
<1>9. new \in LeagueRows /\ new.status = "ACTIVE" /\ new.pred = l /\ new.mode = mode
  <2>1. PICK decay \in BOOLEAN : decay = IF mode = "continue" THEN FALSE ELSE s.decay
    BY <1>7 DEF LeagueRows
  <2>2. new = [NewLeague EXCEPT !.decay = decay, !.ends = s.ends, !.crunch = s.crunch, !.preset = s.preset,
                                !.roles = s.roles, !.pred = l, !.mode = mode]
    BY <1>7, <1>8, <2>1 DEF SuccessorLeagueCreateData
  <2>3. new = [status |-> "ACTIVE", decay |-> decay, ends |-> s.ends, crunch |-> s.crunch,
               preset |-> s.preset, roles |-> s.roles, dirty |-> FALSE, pred |-> l, mode |-> mode]
    BY <2>2 DEF NewLeague
  <2>4. /\ s.ends \in Days \cup {None} /\ s.crunch \in BOOLEAN /\ s.preset \in Presets /\ s.roles \in BOOLEAN
        /\ l \in Leagues \cup {None} /\ mode \in Modes \cup {None}
    BY <1>3, <1>7 DEF LeagueRows
  <2>. QED
    BY <2>1, <2>3, <2>4 DEF LeagueRows
<1>10. league' = [league EXCEPT ![l] = lg, ![n] = new]
  BY <1>5, <1>8 DEF RolloverCommit
<1>11. l # n
  BY <1>1, <1>2
<1>12. league' \in [Leagues -> LeagueRows]
  BY <1>3, <1>6, <1>9, <1>10 DEF TypeOK
<1>13. \A k \in Leagues : league'[k] = IF k = n THEN new ELSE IF k = l THEN lg ELSE league[k]
  BY <1>3, <1>6, <1>9, <1>10 DEF TypeOK
<1>. QED
  BY <1>2, <1>3, <1>4, <1>6, <1>9, <1>11, <1>12, <1>13

(* The ratings: the source's taxed, the successor's as they were read.      *)
LEMMA CommitRowsAre ==
    ASSUME IInv, RolloverCommit, NEW l, l = draft[confirm.draft].source,
           NEW n, n = draft[confirm.draft].name, NEW mode, mode = draft[confirm.draft].mode
    PROVE  /\ row' \in [Leagues -> [Players -> Rows \cup {None}]]
           /\ \A k \in Leagues, p \in Players : k # l /\ k # n => row'[k][p] = row[k][p]
           /\ \A p \in Players : confirm.rows[p] = None => row'[l][p] = row[l][p] /\ row'[n][p] = None
           /\ \A p \in Players : p \notin confirm.taxed => row'[l][p] = row[l][p]
           /\ \A p \in Players : confirm.rows[p] # None =>
                 /\ confirm.rows[p] \in Rows /\ row[l][p] \in Rows /\ row'[l][p] \in Rows
                 /\ row'[l][p].activity = row[l][p].activity /\ row'[l][p].last = row[l][p].last
                 /\ p \in confirm.taxed => /\ row'[l][p].won = confirm.rows[p].won
                                           /\ row'[l][p].paid = confirm.rows[p].paid
                                           /\ row'[l][p].taxed
                 /\ row'[n][p] = IF mode = "hard" THEN DefaultRow ELSE confirm.rows[p]
<1>1. TypeOK
  BY DEF IInv
<1>2. l \in Leagues /\ n \in Leagues /\ l # n /\ confirm # NoConfirm
  BY CommitLeaguesAre DEF RolloverCommit
<1>3. \A p \in Players : confirm.rows[p] # None => row[l][p] # None
  BY <1>2 DEF IInv, Sound, ConfirmSound
<1>4. \A p \in Players : confirm.rows[p] \in Rows \cup {None} /\ row[l][p] \in Rows \cup {None}
  BY <1>1, <1>2 DEF TypeOK, Confirmations
<1>5. PICK old : old = [p \in Players |-> IF confirm.rows[p] = None THEN row[l][p]
                                          ELSE TaxedRow(p, row[l][p], confirm.rows[p])]
  OBVIOUS
<1>6. PICK new : new = [p \in Players |-> Seed(mode, confirm.rows[p])]
  OBVIOUS
<1>7. row' = [row EXCEPT ![l] = old, ![n] = new]
  BY <1>5, <1>6 DEF RolloverCommit
<1>8. ASSUME NEW p \in Players
      PROVE  /\ old[p] \in Rows \cup {None}
             /\ confirm.rows[p] = None => old[p] = row[l][p]
             /\ p \notin confirm.taxed => old[p] = row[l][p]
             /\ confirm.rows[p] # None =>
                   /\ old[p] \in Rows /\ old[p].activity = row[l][p].activity /\ old[p].last = row[l][p].last
                   /\ p \in confirm.taxed => /\ old[p].won = confirm.rows[p].won
                                             /\ old[p].paid = confirm.rows[p].paid
                                             /\ old[p].taxed
  <2>1. CASE confirm.rows[p] = None
    BY <1>4, <1>5, <2>1
  <2>2. CASE confirm.rows[p] # None /\ p \notin confirm.taxed
    BY <1>3, <1>4, <1>5, <2>2 DEF TaxedRow
  <2>3. CASE confirm.rows[p] # None /\ p \in confirm.taxed
    <3>1. PICK c \in Rows, r \in Rows : c = row[l][p] /\ r = confirm.rows[p]
      BY <1>3, <1>4, <2>3
    <3>2. PICK w : w = [r EXCEPT !.taxed = TRUE]
      OBVIOUS
    <3>3. w \in Rows /\ w.won = r.won /\ w.paid = r.paid /\ w.taxed = TRUE
      BY <3>1, <3>2 DEF Rows
    <3>4. old[p] = MuWrite(c, w)
      BY <1>5, <2>3, <3>1, <3>2 DEF TaxedRow
    <3>5. /\ old[p] \in Rows /\ old[p].won = w.won /\ old[p].paid = w.paid /\ old[p].taxed = w.taxed
          /\ old[p].activity = c.activity /\ old[p].last = c.last
      BY <3>3, <3>4, MuWriteIs
    <3>. QED
      BY <2>3, <3>1, <3>3, <3>5
  <2>. QED
    BY <2>1, <2>2, <2>3
<1>9. ASSUME NEW p \in Players
      PROVE  /\ new[p] \in Rows \cup {None}
             /\ confirm.rows[p] = None => new[p] = None
             /\ confirm.rows[p] # None => new[p] = IF mode = "hard" THEN DefaultRow ELSE confirm.rows[p]
  <2>1. new[p] = CASE confirm.rows[p] = None -> None
                   [] confirm.rows[p] # None /\ mode = "hard" -> DefaultRow
                   [] OTHER -> confirm.rows[p]
    BY <1>6 DEF Seed
  <2>. QED
    BY <1>4, <2>1, DefaultRowIs
<1>10. old \in [Players -> Rows \cup {None}] /\ new \in [Players -> Rows \cup {None}]
  BY <1>5, <1>6, <1>8, <1>9
<1>11. /\ row' \in [Leagues -> [Players -> Rows \cup {None}]]
       /\ \A k \in Leagues : row'[k] = IF k = n THEN new ELSE IF k = l THEN old ELSE row[k]
  BY <1>1, <1>2, <1>7, <1>10 DEF TypeOK
<1>12. row'[l] = old /\ row'[n] = new /\ \A k \in Leagues : k # l /\ k # n => row'[k] = row[k]
  BY <1>2, <1>11
<1>. QED
  BY <1>3, <1>4, <1>8, <1>9, <1>11, <1>12

(* What the rollover remembers as put back: whatever was written since the   *)
(* confirmation read the ratings, and what was put back before.              *)
LEMMA CommitLost ==
    ASSUME IInv, RolloverCommit, NEW l, l = draft[confirm.draft].source,
           NEW n, n = draft[confirm.draft].name
    PROVE  /\ lost \subseteq lost' /\ redated \subseteq redated'
           /\ lost' \cup redated' \subseteq Leagues \X Players
           /\ \A p \in Players : p \in confirm.taxed /\ PutsBack(l, p, confirm.rows[p]) => <<l, p>> \in lost'
           /\ \A p \in Players : PutsBack(l, p, confirm.rows[p]) \/ <<l, p>> \in lost => <<n, p>> \in lost'
           /\ \A p \in Players : confirm.rows[p] # None /\ row[l][p] # None
                                 /\ confirm.rows[p].activity # row[l][p].activity => <<n, p>> \in lost'
           /\ \A p \in Players : <<l, p>> \in redated => <<n, p>> \in redated'
<1>1. PICK back : back = {p \in Players : PutsBack(l, p, confirm.rows[p])}
  OBVIOUS
<1>2. PICK outdated : outdated = {p \in Players : IF confirm.rows[p] = None \/ row[l][p] = None THEN FALSE
                                                  ELSE confirm.rows[p].activity # row[l][p].activity}
  OBVIOUS
<1>3. /\ lost' = lost \cup {<<l, p>> : p \in back \cap confirm.taxed}
                      \cup {<<n, p>> : p \in back \cup outdated \cup {x \in Players : <<l, x>> \in lost}}
      /\ redated' = redated \cup {<<n, p>> : p \in {x \in Players : <<l, x>> \in redated}}
  BY <1>1, <1>2 DEF RolloverCommit
<1>4. l \in Leagues /\ n \in Leagues
  BY CommitLeaguesAre
<1>5. lost' \cup redated' \subseteq Leagues \X Players
  <2>1. lost \subseteq Leagues \X Players /\ redated \subseteq Leagues \X Players
    BY DEF IInv, TypeOK
  <2>2. PICK gone : gone = back \cap confirm.taxed /\ gone \subseteq Players
    BY <1>1
  <2>3. PICK seeded : /\ seeded = back \cup outdated \cup {x \in Players : <<l, x>> \in lost}
                      /\ seeded \subseteq Players
    BY <1>1, <1>2
  <2>4. lost' = lost \cup {<<l, p>> : p \in gone} \cup {<<n, p>> : p \in seeded}
    BY <1>3, <2>2, <2>3
  <2>5. lost' \subseteq Leagues \X Players
    <3>1. ASSUME NEW x \in lost' PROVE x \in Leagues \X Players
      <4>1. x \in lost \/ (\E p \in gone : x = <<l, p>>) \/ (\E p \in seeded : x = <<n, p>>)
        BY <2>4, <3>1
      <4>2. CASE x \in lost
        BY <2>1, <4>2
      <4>3. CASE \E p \in gone : x = <<l, p>>
        BY <1>4, <2>2, <4>3
      <4>4. CASE \E p \in seeded : x = <<n, p>>
        BY <1>4, <2>3, <4>4
      <4>. QED
        BY <4>1, <4>2, <4>3, <4>4
    <3>. QED
      BY <3>1
  <2>6. redated' \subseteq Leagues \X Players
    <3>1. ASSUME NEW x \in redated' PROVE x \in Leagues \X Players
      <4>1. x \in redated \/ (\E p \in Players : x = <<n, p>>)
        BY <1>3, <3>1
      <4>. QED
        BY <1>4, <2>1, <4>1
    <3>. QED
      BY <3>1
  <2>. QED
    BY <2>5, <2>6
<1>. QED
  BY <1>1, <1>2, <1>3, <1>5

LEMMA RolloverCommitSound ==
    ASSUME IInv, RolloverCommit
    PROVE  IInv'
<1>1. PICK l, n, mode : /\ l = draft[confirm.draft].source /\ n = draft[confirm.draft].name
                        /\ mode = draft[confirm.draft].mode
  OBVIOUS
<1>2. /\ l \in Leagues /\ n \in Leagues /\ mode \in Modes /\ l # n /\ confirm.draft \in Drafts
      /\ league[l].status = "ACTIVE" /\ league[n] = NoLeague /\ n \notin unsynced
      /\ league' \in [Leagues -> LeagueRows]
      /\ \A k \in Leagues : k # l /\ k # n => league'[k] = league[k]
      /\ league'[l].status = "ARCHIVED"
      /\ league'[l].pred = league[l].pred /\ league'[l].mode = league[l].mode
      /\ league'[n].status = "ACTIVE" /\ league'[n].pred = l /\ league'[n].mode = mode
  BY <1>1, CommitLeaguesAre
<1>3. /\ row' \in [Leagues -> [Players -> Rows \cup {None}]]
      /\ \A k \in Leagues, p \in Players : k # l /\ k # n => row'[k][p] = row[k][p]
      /\ \A p \in Players : confirm.rows[p] = None => row'[l][p] = row[l][p]
      /\ \A p \in Players : confirm.rows[p] # None => row'[l][p] \in Rows
  BY <1>1, CommitRowsAre
<1>4. lost' \cup redated' \subseteq Leagues \X Players
  BY <1>1, CommitLost
<1>5. /\ UNCHANGED <<today, eventBound, match, visit, batch, batchDay, sync, unsynced, missed, plan, staff, faults>>
      /\ confirm' = NoConfirm /\ draft' = [draft EXCEPT ![confirm.draft] = None]
      /\ leagueOf' = [c \in Channels |-> IF leagueOf[c] = l THEN n ELSE leagueOf[c]]
      /\ NoActiveMatches(l)
  BY <1>1 DEF RolloverCommit, bounds
<1>. USE DEF IInv
<1>6. NoLeague.status = "none" /\ NoLeague.pred = None /\ NoLeague.mode = None
  BY DEF NoLeague, NewLeague
<1>7. \A c \in Channels : leagueOf[c] \in Leagues \cup {None}
  BY DEF TypeOK
<1>8. TypeOK'
  <2>1. leagueOf' \in [Channels -> Leagues \cup {None}]
    BY <1>2, <1>5, <1>7
  <2>2. draft' \in [Drafts -> [source : Leagues, name : Leagues, mode : Modes] \cup {None}]
    BY <1>5 DEF TypeOK
  <2>3. confirm' \in Confirmations
    BY <1>5, NoConfirmIs
  <2>. QED
    BY <1>2, <1>3, <1>4, <1>5, <2>1, <2>2, <2>3 DEF TypeOK
<1>9. Grown
  <2>1. \A k \in Leagues : league[k].status # "none" => league'[k].status # "none"
    BY <1>2
  <2>2. ASSUME NEW k \in Leagues, NEW p \in Players, league[k].status # "none", row[k][p] # None
        PROVE  row'[k][p] # None
    <3>1. k # n
      BY <1>2, <1>6, <2>2
    <3>. QED
      BY <1>3, <2>2, <3>1, Apart
  <2>. QED
    BY <1>5, <2>1, <2>2 DEF Grown
<1>10. \A k \in Leagues : league[k].pred # None => league[k].pred \in Leagues /\ league[league[k].pred].status = "ARCHIVED"
  BY DEF Sound, LeagueSound, TypeOK, LeagueRows
<1>11. Sound'
  <2>1. \A u \in Visits : VisitSound(visit[u])'
    BY <1>5, <1>9, Grows
  <2>2. \A b \in Batches : BatchSound(batch[b])'
    BY <1>5, <1>9, Grows
  <2>3. ASSUME NEW m \in Matches PROVE MatchSound(m)'
    <3>1. PICK x \in MatchRows : x = match[m] /\ x = match'[m]
      BY <1>5 DEF TypeOK
    <3>2. MatchSound(m) /\ x.league \in Leagues
      BY <3>1 DEF Sound, MatchRows
    <3>3. x.status # "none" => x.league # n
      BY <1>2, <1>6, <3>1, <3>2 DEF MatchSound
    <3>4. x.status = "ACTIVE" => x.league # l
      BY <1>5, <3>1 DEF NoActiveMatches, MatchesOf
    <3>5. x.status = "COMPLETED" => x.day # None /\ \A p \in Players : x.snap[p] \in Rows /\ row'[x.league][p] # None
      BY <1>9, <3>1, <3>2 DEF MatchSound, Grown
    <3>6. x.status = "ACTIVE" /\ league'[x.league].status = "ARCHIVED" => x.late
      BY <1>2, <3>1, <3>2, <3>3, <3>4 DEF MatchSound
    <3>7. x.late => x.status # "none" /\ league'[x.league].status = "ARCHIVED"
      BY <1>2, <3>1, <3>2, <3>3 DEF MatchSound
    <3>8. x.status # "none" => league'[x.league].status # "none"
      BY <1>9, <3>1, <3>2 DEF MatchSound, Grown
    <3>. QED
      BY <1>5, <3>1, <3>2, <3>5, <3>6, <3>7, <3>8 DEF MatchSound
  <2>4. ASSUME NEW k \in Leagues PROVE LeagueSound(k)'
    <3>1. LeagueSound(k)
      BY DEF Sound
    <3>2. league'[k].status = "none" => league'[k] = NoLeague /\ k \notin unsynced'
      BY <1>2, <1>5, <3>1 DEF LeagueSound
    <3>3. league'[k].pred # None => league'[league'[k].pred].status = "ARCHIVED"
      <4>1. CASE k = n
        BY <1>2, <4>1
      <4>2. CASE k # n
        <5>1. league'[k].pred = league[k].pred
          BY <1>2, <4>2
        <5>2. league[k].pred # None => league[k].pred # l /\ league[k].pred # n
          BY <1>2, <1>6, <1>10
        <5>. QED
          BY <1>2, <1>10, <5>1, <5>2
      <4>. QED
        BY <4>1, <4>2
    <3>4. league'[k].mode # None => league'[k].pred # None
      BY <1>2, <3>1, Apart DEF LeagueSound
    <3>5. ASSUME league'[k].status = "ARCHIVED"
          PROVE  \E q \in Leagues : \A j \in Leagues : league'[j].pred = k <=> j = q
      <4>1. CASE k = l
        <5>1. ASSUME NEW j \in Leagues PROVE league'[j].pred = k <=> j = n
          <6>1. j # n => league'[j].pred = league[j].pred
            BY <1>2
          <6>2. league[j].pred # l
            BY <1>2, <1>10, Apart
          <6>. QED
            BY <1>2, <4>1, <6>1, <6>2
        <5>. QED
          BY <1>2, <5>1
      <4>2. CASE k # l
        <5>1. k # n /\ league[k].status = "ARCHIVED"
          BY <1>2, <3>5, <4>2
        <5>2. PICK q \in Leagues : \A j \in Leagues : league[j].pred = k <=> j = q
          BY <3>1, <5>1 DEF LeagueSound
        <5>3. ASSUME NEW j \in Leagues PROVE league'[j].pred = k <=> j = q
          <6>1. CASE j = n
            <7>1. league[n].pred # k
              BY <1>2, <1>6, Apart
            <7>. QED
              BY <1>2, <4>2, <5>2, <6>1, <7>1
          <6>2. CASE j # n
            <7>1. league'[j].pred = league[j].pred
              BY <1>2, <6>2
            <7>. QED
              BY <5>2, <7>1
          <6>. QED
            BY <6>1, <6>2
        <5>. QED
          BY <5>3
      <4>. QED
        BY <4>1, <4>2
    <3>. QED
      BY <3>2, <3>3, <3>4, <3>5 DEF LeagueSound
  <2>5. ASSUME NEW c \in Channels PROVE ChannelSound(c)'
    <3>1. ChannelSound(c) /\ leagueOf'[c] = IF leagueOf[c] = l THEN n ELSE leagueOf[c]
      BY <1>5 DEF Sound
    <3>. QED
      BY <1>2, <1>5, <1>6, <1>7, <3>1, Apart DEF ChannelSound
  <2>6. ASSUME NEW d \in Drafts PROVE DraftSound(d)'
    <3>1. draft'[d] = draft[d] \/ draft'[d] = None
      BY <1>5 DEF TypeOK
    <3>. QED
      BY <1>9, <3>1, Grows DEF DraftSound
  <2>7. ConfirmSound'
    BY <1>5 DEF ConfirmSound, NoConfirm, NoLeague, NewLeague
  <2>. QED
    BY <2>1, <2>2, <2>3, <2>4, <2>5, <2>6, <2>7 DEF Sound
<1>12. RolesMarked'
  <2>. SUFFICES ASSUME NEW k \in unsynced, league'[k].status = "ACTIVE", k \in Leagues
                PROVE  \/ league'[k].dirty \/ k \in missed
                       \/ \E u \in Visits : visit[u].op = "notify" /\ visit[u].league = k
    BY <1>5 DEF RolesMarked, IsLeagueWritable, TypeOK
  <2>1. k # n /\ k # l
    BY <1>2
  <2>. QED
    BY <1>2, <2>1 DEF RolesMarked, IsLeagueWritable
<1>. QED
  BY <1>8, <1>11, <1>12

-----------------------------------------------------------------------------
(* The role scheduler, time and failures.                                    *)

LEMMA SyncTurns ==
    ASSUME IInv, NEW s \in Syncs, sync' = s,
           UNCHANGED <<today, leagueOf, eventBound, draft, row, match, visit, batch, batchDay, confirm>>,
           UNCHANGED <<lost, redated, plan, staff>>, faults' \in 0..MaxFaults,
           league' \in [Leagues -> LeagueRows], SameSeasons,
           \A l \in Leagues : league'[l] = league[l] \/ league[l].status # "none",
           unsynced' \subseteq unsynced, missed' \subseteq Leagues, RolesMarked'
    PROVE  IInv'
<1>. USE DEF IInv
<1>1. TypeOK'
  <2>1. unsynced' \cup missed' \subseteq Leagues
    BY DEF TypeOK
  <2>. QED
    BY <2>1 DEF TypeOK
<1>2. Grown /\ today' >= today
  BY DEF Grown, SameSeasons, TypeOK, Days
<1>3. Sound'
  <2>1. \A u \in Visits : VisitSound(visit[u])'
    BY <1>2, Grows
  <2>2. \A b \in Batches : BatchSound(batch[b])'
    BY <1>2, Grows
  <2>3. \A m \in Matches : MatchSound(m)'
    BY <1>1, <1>2, MatchKept
  <2>4. \A l \in Leagues : LeagueSound(l)'
    BY <1>2, LeaguesKept
  <2>5. \A c \in Channels : ChannelSound(c)'
    BY <1>2, ChannelKept
  <2>6. \A d \in Drafts : DraftSound(d)'
    BY <1>2, Grows
  <2>7. ConfirmSound'
    BY <1>2, ConfirmKept
  <2>. QED
    BY <2>1, <2>2, <2>3, <2>4, <2>5, <2>6, <2>7 DEF Sound
<1>. QED
  BY <1>1, <1>3

LEMMA SyncTickSound ==
    ASSUME IInv, SyncTick
    PROVE  IInv'
<1>. USE DEF IInv
<1>1. PICK s : s = [NoSync EXCEPT !.on = TRUE, !.leagues = Marked]
  OBVIOUS
<1>2. s \in Syncs
  <2>1. Marked \subseteq Leagues
    BY DEF Marked
  <2>. QED
    BY <1>1, <2>1 DEF NoSync, Syncs
<1>3. /\ UNCHANGED <<today, league, leagueOf, eventBound, draft, row, match, visit, batch, batchDay, confirm>>
      /\ UNCHANGED <<unsynced, missed, lost, redated, plan, staff, faults>> /\ sync' = s
  BY <1>1 DEF SyncTick, tenancy, history, bounds
<1>4. SameSeasons /\ faults' \in 0..MaxFaults /\ league' \in [Leagues -> LeagueRows] /\ missed' \subseteq Leagues
  BY <1>3 DEF SameSeasons, TypeOK
<1>5. RolesMarked'
  BY <1>3, MarksKept
<1>. QED
  BY <1>2, <1>3, <1>4, <1>5, SyncTurns

LEMMA SyncRolesSound ==
    ASSUME IInv, NEW l \in Leagues, SyncHeroChampionRoles(l)
    PROVE  IInv'
<1>. USE DEF IInv
<1>1. PICK s : s = [sync EXCEPT !.leagues = sync.leagues \ {l}, !.league = l]
  OBVIOUS
<1>2. s \in Syncs
  BY <1>1 DEF TypeOK, Syncs
<1>3. /\ UNCHANGED <<today, league, leagueOf, eventBound, draft, row, match, visit, batch, batchDay, confirm>>
      /\ UNCHANGED <<lost, redated, plan, staff, faults>> /\ sync' = s
  <2>1. sync' = [sync EXCEPT !.leagues = @ \ {l}, !.league = l]
    BY DEF SyncHeroChampionRoles
  <2>2. sync' = s
    BY <1>1, <2>1 DEF TypeOK, Syncs
  <2>. QED
    BY <2>2 DEF SyncHeroChampionRoles, tenancy, bounds
<1>4. \/ unsynced' = unsynced \ {l} /\ missed' = missed \ {l}
      \/ unsynced' = unsynced /\ missed' = missed
  BY DEF SyncHeroChampionRoles
<1>5. SameSeasons /\ faults' \in 0..MaxFaults /\ league' \in [Leagues -> LeagueRows] /\ missed' \subseteq Leagues
  BY <1>3, <1>4 DEF SameSeasons, TypeOK
<1>6. RolesMarked'
  BY <1>3, <1>4 DEF RolesMarked, IsLeagueWritable
<1>. QED
  BY <1>2, <1>3, <1>4, <1>5, <1>6, SyncTurns

LEMMA SyncAfterIs ==
    ASSUME TypeOK, NEW s, s = [sync EXCEPT !.league = None, !.on = sync.leagues # {}]
    PROVE  s \in Syncs
<1>1. PICK on \in BOOLEAN : on = (sync.leagues # {})
  OBVIOUS
<1>2. s = [sync EXCEPT !.league = None, !.on = on]
  BY <1>1
<1>. QED
  BY <1>1, <1>2 DEF TypeOK, Syncs

LEMMA SyncDoneSound ==
    ASSUME IInv, SyncDone
    PROVE  IInv'
<1>. USE DEF IInv
<1>1. PICK s : s = [sync EXCEPT !.league = None, !.on = sync.leagues # {}]
  OBVIOUS
<1>2. s \in Syncs
  BY <1>1, SyncAfterIs
<1>3. /\ UNCHANGED <<today, leagueOf, eventBound, draft, row, match, visit, batch, batchDay, confirm>>
      /\ UNCHANGED <<unsynced, lost, redated, plan, staff, faults>> /\ sync' = s
  BY <1>1 DEF SyncDone, bounds
<1>4. PICK l \in Leagues : l = sync.league
  BY DEF SyncDone, TypeOK, Syncs
<1>5. PICK lg : lg = [league[l] EXCEPT !.dirty = FALSE]
  OBVIOUS
<1>6. /\ lg \in LeagueRows /\ lg.status = league[l].status /\ lg.pred = league[l].pred
      /\ lg.mode = league[l].mode
      /\ league[l].status # "none" \/ lg = league[l]
  <2>1. league[l] \in LeagueRows
    BY DEF TypeOK
  <2>2. league[l].status = "none" => league[l].dirty = FALSE
    BY DEF Sound, LeagueSound, NoLeague, NewLeague
  <2>. QED
    BY <1>5, <2>1, <2>2 DEF LeagueRows
<1>7. league' = [league EXCEPT ![l] = lg]
  BY <1>4, <1>5 DEF SyncDone
<1>8. /\ league' \in [Leagues -> LeagueRows]
      /\ \A k \in Leagues : league'[k] = IF k = l THEN lg ELSE league[k]
  BY <1>6, <1>7 DEF TypeOK
<1>9. SameSeasons
  BY <1>6, <1>8 DEF SameSeasons
<1>10. \A k \in Leagues : league'[k] = league[k] \/ league[k].status # "none"
  BY <1>6, <1>8
<1>11. missed' = missed \cup (unsynced \cap {l})
  BY <1>4 DEF SyncDone
<1>12. faults' \in 0..MaxFaults /\ missed' \subseteq Leagues
  BY <1>3, <1>11 DEF TypeOK
<1>13. RolesMarked'
  <2>. SUFFICES ASSUME NEW k \in unsynced, k \in Leagues, league'[k].status = "ACTIVE"
                PROVE  \/ league'[k].dirty \/ k \in missed'
                       \/ \E u \in Visits : visit[u].op = "notify" /\ visit[u].league = k
    BY <1>3 DEF RolesMarked, IsLeagueWritable, TypeOK
  <2>1. CASE k = l
    BY <1>11, <2>1
  <2>2. CASE k # l
    BY <1>8, <1>11, <2>2 DEF RolesMarked, IsLeagueWritable
  <2>. QED
    BY <2>1, <2>2
<1>. QED
  BY <1>2, <1>3, <1>8, <1>9, <1>10, <1>12, <1>13, SyncTurns

LEMMA SyncFailsSound ==
    ASSUME IInv, SyncFails
    PROVE  IInv'
<1>. USE DEF IInv
<1>1. PICK s : s = [sync EXCEPT !.league = None, !.on = sync.leagues # {}]
  OBVIOUS
<1>2. s \in Syncs
  BY <1>1, SyncAfterIs
<1>3. /\ UNCHANGED <<today, league, leagueOf, eventBound, draft, row, match, visit, batch, batchDay, confirm>>
      /\ UNCHANGED <<unsynced, missed, lost, redated, plan, staff>> /\ sync' = s
  BY <1>1 DEF SyncFails, tenancy, history
<1>4. faults' \in 0..MaxFaults
  BY SeasonAssumption DEF SyncFails, TypeOK
<1>5. SameSeasons /\ league' \in [Leagues -> LeagueRows] /\ missed' \subseteq Leagues
  BY <1>3 DEF SameSeasons, TypeOK
<1>6. RolesMarked'
  BY <1>3, MarksKept
<1>. QED
  BY <1>2, <1>3, <1>4, <1>5, <1>6, SyncTurns

LEMMA NextDaySound ==
    ASSUME IInv, NextDay
    PROVE  IInv'
<1>. USE DEF IInv
<1>1. /\ UNCHANGED <<league, leagueOf, eventBound, draft, row, match, visit, batch, batchDay, confirm, sync>>
      /\ UNCHANGED <<unsynced, missed, lost, redated, plan, staff, faults>>
  BY DEF NextDay, tenancy, history, bounds
<1>2. today' \in Days /\ today' >= today
  BY IdleDecayAssumption DEF NextDay, TypeOK, Days
<1>3. TypeOK'
  BY <1>1, <1>2 DEF TypeOK
<1>4. Grown /\ SameSeasons
  BY <1>1 DEF Grown, SameSeasons
<1>5. Sound'
  <2>1. \A u \in Visits : VisitSound(visit[u])'
    BY <1>1, <1>4, Grows
  <2>2. \A b \in Batches : BatchSound(batch[b])'
    BY <1>1, <1>4, Grows
  <2>3. \A m \in Matches : MatchSound(m)'
    BY <1>1, <1>2, <1>3, <1>4, MatchKept
  <2>4. \A l \in Leagues : LeagueSound(l)'
    BY <1>1, <1>4, LeaguesKept
  <2>5. \A c \in Channels : ChannelSound(c)'
    BY <1>1, <1>4, ChannelKept
  <2>6. \A d \in Drafts : DraftSound(d)'
    BY <1>1, <1>4, Grows
  <2>7. ConfirmSound'
    BY <1>1, <1>4, ConfirmKept
  <2>. QED
    BY <2>1, <2>2, <2>3, <2>4, <2>5, <2>6, <2>7 DEF Sound
<1>6. RolesMarked'
  BY <1>1, MarksKept
<1>. QED
  BY <1>3, <1>5, <1>6

LEMMA RestartSound ==
    ASSUME IInv, Restart
    PROVE  IInv'
<1>. USE DEF IInv
<1>1. /\ UNCHANGED <<today, league, leagueOf, eventBound, draft, row, match>>
      /\ UNCHANGED <<unsynced, lost, redated, plan, staff>>
      /\ visit' = [t \in Visits |-> NoVisit] /\ batch' = [b \in Batches |-> NoBatch]
      /\ batchDay' = None /\ confirm' = NoConfirm /\ sync' = NoSync
      /\ missed' = missed \cup {l \in Leagues :
                                    ~league[l].dirty /\ \E t \in Visits : visit[t].op = "notify" /\ visit[t].league = l}
  BY DEF Restart, tenancy
<1>2. faults' \in 0..MaxFaults
  BY SeasonAssumption DEF Restart, TypeOK
<1>3. NoSync \in Syncs
  BY DEF NoSync, Syncs
<1>4. missed' \subseteq Leagues
  BY <1>1 DEF TypeOK, Visitors
<1>5. TypeOK'
  BY <1>1, <1>2, <1>3, <1>4, NoVisitIs, NoBatchIs, NoConfirmIs DEF TypeOK
<1>6. Grown /\ SameSeasons /\ today' >= today
  BY <1>1 DEF Grown, SameSeasons, TypeOK, Days
<1>7. Sound'
  <2>1. \A u \in Visits : VisitSound(visit[u])'
    BY <1>1, NoVisitIs DEF VisitSound
  <2>2. \A b \in Batches : BatchSound(batch[b])'
    BY <1>1 DEF NoBatch, BatchSound
  <2>3. \A m \in Matches : MatchSound(m)'
    BY <1>1, <1>5, <1>6, MatchKept
  <2>4. \A l \in Leagues : LeagueSound(l)'
    BY <1>1, <1>6, LeaguesKept
  <2>5. \A c \in Channels : ChannelSound(c)'
    BY <1>1, <1>6, ChannelKept
  <2>6. \A d \in Drafts : DraftSound(d)'
    BY <1>1, <1>6, Grows
  <2>7. ConfirmSound'
    BY <1>1 DEF ConfirmSound, NoConfirm, NoLeague, NewLeague
  <2>. QED
    BY <2>1, <2>2, <2>3, <2>4, <2>5, <2>6, <2>7 DEF Sound
<1>8. RolesMarked'
  BY <1>1 DEF RolesMarked, IsLeagueWritable, TypeOK
<1>. QED
  BY <1>5, <1>7, <1>8

-----------------------------------------------------------------------------
(* The invariant.                                                            *)

LEMMA InitSound ==
    ASSUME Init
    PROVE  IInv
<1>1. /\ NewLeague \in LeagueRows /\ NoLeague \in LeagueRows
      /\ NewLeague.status = "ACTIVE" /\ NewLeague.pred = None /\ NewLeague.mode = None
      /\ NoLeague.status = "none" /\ NoLeague.pred = None /\ NoLeague.mode = None
  BY DEF NoLeague, NewLeague, LeagueRows, Presets
<1>2. NoSync \in Syncs /\ 0 \in Days
  BY IdleDecayAssumption DEF NoSync, Syncs, Days
<1>3. \A l \in Leagues : league[l] = NewLeague \/ league[l] = NoLeague
  BY DEF Init
<1>4. TypeOK
  <2>1. /\ league \in [Leagues -> LeagueRows]
        /\ row \in [Leagues -> [Players -> Rows \cup {None}]]
        /\ match \in [Matches -> MatchRows]
    BY <1>1, NoMatchIs DEF Init
  <2>2. /\ visit \in [Visits -> Visitors] /\ batch \in [Batches -> Ticks]
        /\ confirm \in Confirmations /\ sync \in Syncs
    BY <1>2, NoVisitIs, NoBatchIs, NoConfirmIs DEF Init
  <2>3. staff \in 0..MaxStaff /\ faults \in 0..MaxFaults
    BY SeasonAssumption DEF Init
  <2>. QED
    BY <1>2, <2>1, <2>2, <2>3 DEF Init, TypeOK
<1>5. Sound
  <2>1. \A u \in Visits : VisitSound(visit[u])
    BY NoVisitIs DEF Init, VisitSound
  <2>2. \A b \in Batches : BatchSound(batch[b])
    BY DEF Init, NoBatch, BatchSound
  <2>3. \A m \in Matches : MatchSound(m)
    BY NoMatchIs DEF Init, MatchSound
  <2>4. \A l \in Leagues : LeagueSound(l)
    BY <1>1, <1>3 DEF Init, LeagueSound
  <2>5. (\A c \in Channels : ChannelSound(c)) /\ (\A d \in Drafts : DraftSound(d)) /\ ConfirmSound
    BY DEF Init, ChannelSound, DraftSound, ConfirmSound
  <2>. QED
    BY <2>1, <2>2, <2>3, <2>4, <2>5 DEF Sound
<1>6. RolesMarked
  BY DEF Init, RolesMarked
<1>. QED
  BY <1>4, <1>5, <1>6 DEF IInv

LEMMA StaysSound ==
    ASSUME IInv, UNCHANGED vars
    PROVE  IInv'
<1>. USE DEF IInv
<1>1. /\ UNCHANGED <<today, league, leagueOf, eventBound, draft, row, match, visit, batch, batchDay, confirm, sync>>
      /\ UNCHANGED <<history, plan, faults, staff>>
  BY DEF vars, tenancy, bounds
<1>2. Grown /\ SameSeasons
  BY <1>1 DEF Grown, SameSeasons
<1>3. \A c \in Channels : ChannelSound(c)'
  BY <1>1, <1>2, ChannelKept
<1>4. \A d \in Drafts : DraftSound(d)'
  BY <1>1, <1>2, Grows
<1>5. ConfirmSound'
  BY <1>1, <1>2, ConfirmKept
<1>6. /\ leagueOf' \in [Channels -> Leagues \cup {None}] /\ eventBound' \subseteq Channels
      /\ draft' \in [Drafts -> [source : Leagues, name : Leagues, mode : Modes] \cup {None}]
      /\ confirm' \in Confirmations /\ staff' \in 0..MaxStaff
  BY <1>1 DEF TypeOK
<1>. QED
  BY <1>1, <1>3, <1>4, <1>5, <1>6, TenancyTurns

LEMMA VisitStepSound ==
    ASSUME IInv, NEW t \in Visits, VisitStep(t)
    PROVE  IInv'
<1>1. CASE \E l \in Leagues : \E p \in Players : CatchUpLoad(t, l, p)
  BY <1>1, CatchUpLoadSound
<1>2. CASE CatchUpStore(t)
  BY <1>2, CatchUpStoreSound
<1>3. CASE \E l \in Leagues : CreateLook(t, l)
  BY <1>3, CreateLookSound
<1>4. CASE \E m \in Matches : CreateMatch(t, m)
  BY <1>4, CreateMatchSound
<1>5. CASE \E m \in Matches, q \in SUBSET Players : CompleteLoad(t, m, q)
  BY <1>5, CompleteLoadSound
<1>6. CASE CompleteStore(t)
  BY <1>6, CompleteStoreSound
<1>7. CASE \E m \in Matches, op \in {"flip", "void"} : CorrectLook(t, m, op)
  BY <1>7, CorrectLookSound
<1>8. CASE VoidMatch(t)
  BY <1>8, VoidMatchSound
<1>9. CASE NotifyLeagueRatingChanged(t)
  BY <1>9, NotifySound
<1>10. CASE FlipMatch(t)
  BY <1>10, FlipMatchSound
<1>11. CASE Refused(t)
  BY <1>11, RefusedSound
<1>. QED
  BY <1>1, <1>2, <1>3, <1>4, <1>5, <1>6, <1>7, <1>8, <1>9, <1>10, <1>11 DEF VisitStep

LEMMA BatchStepSound ==
    ASSUME IInv, NEW b \in Batches, BatchStep(b)
    PROVE  IInv'
<1>1. CASE BatchStart(b)
  BY <1>1, BatchStartSound
<1>2. CASE \E l \in Leagues : BatchLeague(b, l)
  BY <1>2, BatchLeagueSound
<1>3. CASE \E p \in Players : BatchLoad(b, p)
  BY <1>3, BatchLoadSound
<1>4. CASE BatchStore(b)
  BY <1>4, BatchStoreSound
<1>5. CASE BatchLeagueDone(b)
  BY <1>5, BatchLeagueDoneSound
<1>6. CASE BatchFails(b)
  BY <1>6, BatchFailsSound
<1>. QED
  BY <1>1, <1>2, <1>3, <1>4, <1>5, <1>6 DEF BatchStep

LEMMA StaffStepSound ==
    ASSUME IInv, StaffStep
    PROVE  IInv'
<1>1. CASE \E n \in Leagues : CreateLeague(n)
  BY <1>1, CreateLeagueSound
<1>2. ASSUME NEW l \in Leagues,
             \/ SetLeagueSeasonEndsAt(l) \/ ClearLeagueSeasonEndsAt(l) \/ StartLeagueCrunch(l)
             \/ ClearLeagueCrunch(l) \/ SetDecayEnabled(l) \/ ApplyDecayPreset(l) \/ ClearDecayModeSetting(l)
             \/ SetHeroChampionRolesEnabled(l) \/ SetHeroChampionRole(l)
      PROVE  IInv'
  <2>1. PICK kind : \E lg \in LeagueRows :
            /\ Configured(kind, l, lg) /\ lg.status = league[l].status /\ lg.pred = league[l].pred
            /\ lg.mode = league[l].mode
            /\ league[l].dirty => lg.dirty
    BY <1>2, SettingsSound
  <2>. QED
    BY <2>1, ConfiguredSound
<1>3. CASE \E c \in Channels : (\E l \in Leagues : BindChannel(c, l)) \/ UnbindChannel(c) \/ BindEvent(c) \/ UnbindEvent(c)
  BY <1>3, BindingsSound
<1>4. CASE \E l, n \in Leagues, mode \in Modes, d \in Drafts : PreviewLeagueRollover(l, n, mode, d)
  BY <1>4, PreviewSound
<1>5. CASE \E d \in Drafts : CancelLeagueRolloverDraft(d) \/ RolloverLoad(d)
  BY <1>5, CancelDraftSound, RolloverLoadSound
<1>6. CASE RolloverCommit
  BY <1>6, RolloverCommitSound
<1>7. CASE RolloverRefused
  BY <1>7, RolloverRefusedSound
<1>. QED
  BY <1>1, <1>2, <1>3, <1>4, <1>5, <1>6, <1>7 DEF StaffStep

LEMMA NextSound ==
    ASSUME IInv, [Next]_vars
    PROVE  IInv'
<1>1. CASE \E t \in Visits : VisitStep(t)
  BY <1>1, VisitStepSound
<1>2. CASE \E b \in Batches : BatchStep(b)
  BY <1>2, BatchStepSound
<1>3. CASE \E m \in Matches : CancelMatch(m)
  BY <1>3, CancelMatchSound
<1>4. CASE StaffStep
  BY <1>4, StaffStepSound
<1>5. CASE SyncStep
  BY <1>5, SyncTickSound, SyncRolesSound, SyncDoneSound, SyncFailsSound DEF SyncStep
<1>6. CASE NextDay
  BY <1>6, NextDaySound
<1>7. CASE Restart
  BY <1>7, RestartSound
<1>8. CASE UNCHANGED vars
  BY <1>8, StaysSound
<1>. QED
  BY <1>1, <1>2, <1>3, <1>4, <1>5, <1>6, <1>7, <1>8 DEF Next

(* Between the steps of any handlers, whoever is at work holds what is       *)
(* there, and each archived league has its one successor.                    *)
THEOREM SeasonInvariant == Spec => []IInv
<1>. QED
  BY InitSound, NextSound, PTL DEF Spec

(* A league whose roles have not seen a result is marked                     *)
(* (markLeagueHeroChampionRolesDirty), is about to be by a void that has     *)
(* committed, was marked while a tick of the role scheduler was at it, or    *)
(* lost a void's mark: the process ended, or a call failed, before it.       *)
THEOREM RolesStayMarked == Spec => []RolesMarked
<1>1. IInv => RolesMarked
  BY DEF IInv
<1>. QED
  BY <1>1, SeasonInvariant, PTL

(* Every archived league has handed everything over to one successor: its    *)
(* channels are bound to leagues in play, and no match of its own is.        *)
THEOREM SeasonsAlwaysFollow == Spec => []SeasonsFollow
<1>1. ASSUME IInv PROVE SeasonsFollow
  <2>1. TypeOK /\ Sound
    BY <1>1 DEF IInv
  <2>2. ASSUME NEW l \in Leagues, league[l].status = "ARCHIVED"
        PROVE  Cardinality({n \in Leagues : league[n].pred = l}) = 1
    <3>1. LeagueSound(l)
      BY <2>1 DEF Sound
    <3>2. PICK n \in Leagues : \A k \in Leagues : league[k].pred = l <=> k = n
      BY <2>2, <3>1 DEF LeagueSound
    <3>3. {k \in Leagues : league[k].pred = l} = {n}
      BY <3>2
    <3>. QED
      BY <3>3, FS_Singleton
  <2>3. \A l \in Leagues : league[l].status = "ARCHIVED" => \A m \in MatchesOf(l, "ACTIVE") : match[m].late
    <3>1. \A m \in Matches : MatchSound(m)
      BY <2>1 DEF Sound
    <3>. QED
      BY <3>1 DEF MatchSound, MatchesOf
  <2>4. \A c \in Channels : leagueOf[c] # None => IsLeagueWritable(leagueOf[c]) /\ c \notin eventBound
    <3>1. \A c \in Channels : ChannelSound(c)
      BY <2>1 DEF Sound
    <3>. QED
      BY <3>1 DEF ChannelSound, IsLeagueWritable
  <2>. QED
    BY <2>1, <2>2, <2>3, <2>4 DEF SeasonsFollow, HandedOver
<1>. QED
  BY <1>1, SeasonInvariant, PTL

-----------------------------------------------------------------------------
(* The seasons a season's ratings continue.                                  *)

LEMMA ModesAre == None \notin Modes
BY SeasonAssumption

LEMMA SeasonSelf ==
    ASSUME NEW l \in Leagues
    PROVE  l \in Seasons(l)
BY DEF Seasons

LEMMA SeasonsClosed ==
    ASSUME TypeOK, Sound, NEW l \in Leagues
    PROVE  ClosedUnderCarrying(Seasons(l))
<1>. SUFFICES ASSUME NEW n \in Seasons(l), league[n].mode \in {"soft", "continue"}
              PROVE  league[n].pred \in Seasons(l)
  BY DEF ClosedUnderCarrying
<1>1. n \in Leagues
  BY DEF Seasons
<1>2. league[n].pred \in Leagues
  <2>1. league[n].mode # None
    <3>1. \A s \in {"soft", "continue"} : s \in Modes
      BY DEF Modes
    <3>2. None \notin Modes
      BY <1>1, ModesAre
    <3>. QED
      BY <3>1, <3>2
  <2>2. LeagueSound(n)
    BY <1>1 DEF Sound
  <2>. QED
    BY <1>1, <2>1, <2>2 DEF LeagueSound, TypeOK, LeagueRows
<1>3. ASSUME NEW S \in SUBSET Leagues, l \in S, ClosedUnderCarrying(S)
      PROVE  league[n].pred \in S
  <2>1. n \in S
    BY <1>3 DEF Seasons
  <2>. QED
    BY <1>3, <2>1 DEF ClosedUnderCarrying
<1>. QED
  BY <1>2, <1>3 DEF Seasons

(* Nothing but a rollover changes which seasons those are.                  *)
LEMMA SeasonsKept ==
    ASSUME \A k \in Leagues : league'[k].pred = league[k].pred /\ league'[k].mode = league[k].mode
    PROVE  \A l \in Leagues : Seasons(l)' = Seasons(l)
<1>1. ASSUME NEW S \in SUBSET Leagues PROVE ClosedUnderCarrying(S)' <=> ClosedUnderCarrying(S)
  BY DEF ClosedUnderCarrying
<1>. QED
  BY <1>1 DEF Seasons

(* They are over, all but the last.                                         *)
LEMMA SeasonsOver ==
    ASSUME TypeOK, Sound, NEW l \in Leagues, NEW k \in Seasons(l), k # l
    PROVE  k \in Leagues /\ league[k].status = "ARCHIVED"
<1>1. PICK S : S = {l} \cup {j \in Leagues : league[j].status = "ARCHIVED"}
  OBVIOUS
<1>2. S \in SUBSET Leagues /\ l \in S
  BY <1>1
<1>3. ClosedUnderCarrying(S)
  <2>. SUFFICES ASSUME NEW n \in S, league[n].mode \in {"soft", "continue"}
                PROVE  league[n].pred \in S
    BY DEF ClosedUnderCarrying
  <2>1. league[n].mode # None
    BY ModesAre DEF Modes
  <2>2. n \in Leagues /\ LeagueSound(n)
    BY <1>2 DEF Sound
  <2>3. league[n].pred \in Leagues
    BY <2>1, <2>2 DEF LeagueSound, TypeOK, LeagueRows
  <2>. QED
    BY <1>1, <2>1, <2>2, <2>3 DEF LeagueSound
<1>4. k \in S
  BY <1>2, <1>3 DEF Seasons
<1>. QED
  BY <1>1, <1>4

(* A rollover gives the successor the seasons of its source, or none.       *)
LEMMA SeasonsHandedOver ==
    ASSUME IInv, RolloverCommit, NEW l, l = draft[confirm.draft].source,
           NEW n, n = draft[confirm.draft].name, NEW mode, mode = draft[confirm.draft].mode
    PROVE  /\ \A x \in Leagues : x # n => Seasons(x)' = Seasons(x)
           /\ mode = "hard" => Seasons(n)' = {n}
           /\ mode # "hard" => Seasons(n)' = {n} \cup Seasons(l)
           /\ n \notin Seasons(l)
<1>1. /\ l \in Leagues /\ n \in Leagues /\ mode \in Modes /\ l # n
      /\ league[l].status = "ACTIVE" /\ league[n] = NoLeague
      /\ \A k \in Leagues : k # l /\ k # n => league'[k] = league[k]
      /\ league'[l].pred = league[l].pred /\ league'[l].mode = league[l].mode
      /\ league'[n].pred = l /\ league'[n].mode = mode
  BY CommitLeaguesAre
<1>2. TypeOK /\ Sound
  BY DEF IInv
<1>3. league[n].mode = None /\ league[n].status = "none"
  BY <1>1 DEF NoLeague, NewLeague
<1>4. \A k \in Leagues : k # n => league'[k].pred = league[k].pred /\ league'[k].mode = league[k].mode
  BY <1>1
<1>5. \A k \in Leagues : league[k].mode \in {"soft", "continue"} => k # n /\ league[k].pred # n
  <2>. SUFFICES ASSUME NEW k \in Leagues, league[k].mode \in {"soft", "continue"}
                PROVE  k # n /\ league[k].pred # n
    OBVIOUS
  <2>1. league[k].mode # None
    BY ModesAre DEF Modes
  <2>2. league[k].pred # None /\ league[league[k].pred].status = "ARCHIVED"
    BY <1>2, <2>1 DEF Sound, LeagueSound
  <2>. QED
    BY <1>3, <2>1, <2>2
<1>6. ASSUME NEW S \in SUBSET Leagues
      PROVE  ClosedUnderCarrying(S)' => ClosedUnderCarrying(S)
  BY <1>4, <1>5 DEF ClosedUnderCarrying
<1>7. ASSUME NEW S \in SUBSET Leagues
      PROVE  ClosedUnderCarrying(S) => ClosedUnderCarrying(S \ {n})'
  BY <1>4, <1>5 DEF ClosedUnderCarrying
<1>8. ASSUME NEW x \in Leagues, x # n PROVE Seasons(x)' = Seasons(x)
  <2>1. ASSUME NEW k \in Seasons(x) PROVE k \in Seasons(x)'
    BY <1>6, <2>1 DEF Seasons
  <2>2. ASSUME NEW k \in Seasons(x)' PROVE k \in Seasons(x)
    <3>1. ASSUME NEW S \in SUBSET Leagues, x \in S, ClosedUnderCarrying(S) PROVE k \in S
      <4>1. x \in S \ {n} /\ (S \ {n}) \in SUBSET Leagues /\ ClosedUnderCarrying(S \ {n})'
        BY <1>7, <1>8, <3>1
      <4>2. k \in S \ {n}
        BY <2>2, <4>1 DEF Seasons
      <4>. QED
        BY <4>2
    <3>2. k \in Leagues
      BY <2>2 DEF Seasons
    <3>. QED
      BY <3>1, <3>2 DEF Seasons
  <2>. QED
    BY <2>1, <2>2
<1>9. n \in Seasons(n)'
  BY <1>1 DEF Seasons
<1>10. ASSUME mode = "hard" PROVE Seasons(n)' = {n}
  <2>1. ClosedUnderCarrying({n})'
    BY <1>1, <1>10 DEF ClosedUnderCarrying
  <2>2. {n} \in SUBSET Leagues /\ n \in {n}
    BY <1>1
  <2>3. \A k \in Seasons(n)' : k \in {n}
    BY <2>1, <2>2 DEF Seasons
  <2>. QED
    BY <1>9, <2>3
<1>11. n \notin Seasons(l)
  <2>1. n \in Seasons(l) => league[n].status = "ARCHIVED"
    BY <1>1, <1>2, SeasonsOver
  <2>. QED
    BY <1>3, <2>1
<1>12. ASSUME mode # "hard" PROVE Seasons(n)' = {n} \cup Seasons(l)
  <2>1. mode \in {"soft", "continue"}
    BY <1>1, <1>12 DEF Modes
  <2>2. ASSUME NEW k \in Seasons(l) PROVE k \in Seasons(n)'
    <3>1. ASSUME NEW S \in SUBSET Leagues, n \in S, ClosedUnderCarrying(S)' PROVE k \in S
      <4>1. l \in S
        BY <1>1, <2>1, <3>1 DEF ClosedUnderCarrying
      <4>2. ClosedUnderCarrying(S)
        BY <1>6, <3>1
      <4>. QED
        BY <4>1, <4>2 DEF Seasons
    <3>. QED
      BY <3>1 DEF Seasons
  <2>3. PICK S : S = {n} \cup Seasons(l)
    OBVIOUS
  <2>4. S \in SUBSET Leagues /\ n \in S /\ l \in S
    BY <1>1, <2>3, SeasonSelf DEF Seasons
  <2>5. ClosedUnderCarrying(Seasons(l))
    BY <1>1, <1>2, SeasonsClosed
  <2>6. ClosedUnderCarrying(S)'
    <3>. SUFFICES ASSUME NEW k \in S, league'[k].mode \in {"soft", "continue"}
                  PROVE  league'[k].pred \in S
      BY DEF ClosedUnderCarrying
    <3>1. CASE k = n
      BY <1>1, <2>4, <3>1
    <3>2. CASE k # n
      <4>1. k \in Seasons(l) /\ k \in Leagues
        BY <2>3, <2>4, <3>2
      <4>. QED
        BY <1>4, <2>3, <2>5, <3>2, <4>1 DEF ClosedUnderCarrying
    <3>. QED
      BY <3>1, <3>2
  <2>7. \A k \in Seasons(n)' : k \in S
    BY <2>4, <2>6 DEF Seasons
  <2>. QED
    BY <1>9, <2>2, <2>3, <2>7
<1>. QED
  BY <1>8, <1>10, <1>11, <1>12

-----------------------------------------------------------------------------
(* Completions keep out of each other's way: a match is completed by one,    *)
(* while it is in play, and no two hold the lock of one rating.              *)

Exclusive ==
    /\ \A t \in Visits : visit[t].op = "complete" => match[visit[t].match].status = "ACTIVE"
    /\ \A t \in Visits : visit[t].op # "complete" => visit[t].caught = {}
    /\ \A t, u \in Visits : t # u /\ visit[t].op = "complete" /\ visit[u].op = "complete" =>
          /\ visit[t].match # visit[u].match
          /\ visit[t].league = visit[u].league => visit[t].caught \cap visit[u].caught = {}

LEMMA ExclusiveKept ==
    ASSUME Exclusive,
           \A t \in Visits : visit'[t] = visit[t] \/ (visit'[t].op # "complete" /\ visit'[t].caught = {}),
           \A t \in Visits : visit'[t] = visit[t] /\ visit[t].op = "complete" =>
               match'[visit[t].match].status = "ACTIVE"
    PROVE  Exclusive'
<1>1. \A t \in Visits : visit'[t].op = "complete" => visit'[t] = visit[t]
  OBVIOUS
<1>2. \A t \in Visits : visit'[t].op = "complete" => match'[visit'[t].match].status = "ACTIVE"
  BY <1>1
<1>3. \A t \in Visits : visit'[t].op # "complete" => visit'[t].caught = {}
  BY DEF Exclusive
<1>4. ASSUME NEW t \in Visits, NEW u \in Visits, t # u, visit'[t].op = "complete", visit'[u].op = "complete"
      PROVE  /\ visit'[t].match # visit'[u].match
             /\ visit'[t].league = visit'[u].league => visit'[t].caught \cap visit'[u].caught = {}
  BY <1>1, <1>4 DEF Exclusive
<1>. QED
  BY <1>2, <1>3, <1>4 DEF Exclusive

LEMMA QuietVisit ==
    ASSUME TypeOK, Exclusive, NEW t \in Visits, NEW v \in Visitors, visit' = [visit EXCEPT ![t] = v],
           v.op # "complete", v.caught = {},
           \A u \in Visits : u # t /\ visit[u].op = "complete" => match'[visit[u].match].status = "ACTIVE"
    PROVE  Exclusive'
<1>1. \A u \in Visits : visit'[u] = IF u = t THEN v ELSE visit[u]
  BY DEF TypeOK
<1>2. \A u \in Visits : visit'[u] = visit[u] /\ visit[u].op = "complete" => u # t
  BY <1>1
<1>3. \A u \in Visits : visit'[u] = visit[u] \/ (visit'[u].op # "complete" /\ visit'[u].caught = {})
  BY <1>1
<1>. QED
  BY <1>2, <1>3, ExclusiveKept

LEMMA VisitExclusive ==
    ASSUME IInv, Exclusive, NEW t \in Visits, VisitStep(t)
    PROVE  Exclusive'
<1>1. TypeOK /\ Sound
  BY DEF IInv
<1>. DEFINE Others == \A u \in Visits : u # t /\ visit[u].op = "complete" => match'[visit[u].match].status = "ACTIVE"
            Quiet == \E v \in Visitors : visit' = [visit EXCEPT ![t] = v] /\ v.op # "complete" /\ v.caught = {}
<1>2. Others /\ Quiet => Exclusive'
  BY <1>1, QuietVisit
<1>3. match' = match => Others
  BY DEF Exclusive
<1>4. visit' = [visit EXCEPT ![t] = NoVisit] => Quiet
  BY NoVisitIs
<1>5. ASSUME NEW l \in Leagues, NEW p \in Players, CatchUpLoad(t, l, p) PROVE Exclusive'
  <2>1. PICK rows : rows = [NoVisit.rows EXCEPT ![p] = Caught(l, p)]
    OBVIOUS
  <2>2. rows \in [Players -> Rows \cup {None}]
    BY <1>1, <1>5, <2>1, CaughtIs, NoVisitIs DEF CatchUpLoad
  <2>3. PICK v : v = [NoVisit EXCEPT !.op = "catchup", !.league = l, !.player = p, !.rows = rows]
    OBVIOUS
  <2>4. v \in Visitors /\ v.op = "catchup" /\ v.caught = {}
    BY <2>2, <2>3, NoVisitIs DEF Visitors
  <2>5. visit' = [visit EXCEPT ![t] = v] /\ match' = match
    BY <1>5, <2>1, <2>3 DEF CatchUpLoad
  <2>. QED
    BY <1>2, <1>3, <2>4, <2>5
<1>6. CASE CatchUpStore(t) \/ Refused(t) \/ NotifyLeagueRatingChanged(t)
  BY <1>2, <1>3, <1>4, <1>6 DEF CatchUpStore, Refused, NotifyLeagueRatingChanged
<1>7. ASSUME NEW l \in Leagues, CreateLook(t, l) PROVE Exclusive'
  <2>1. PICK v : v = [NoVisit EXCEPT !.op = "create", !.league = l]
    OBVIOUS
  <2>2. v \in Visitors /\ v.op = "create" /\ v.caught = {}
    BY <2>1, NoVisitIs DEF Visitors
  <2>. QED
    BY <1>2, <1>3, <1>7, <2>1, <2>2 DEF CreateLook
<1>8. ASSUME NEW m \in Matches, CreateMatch(t, m) PROVE Exclusive'
  <2>1. Others
    <3>1. \A u \in Visits : visit[u].op = "complete" => visit[u].match # m /\ visit[u].match \in Matches
      BY <1>1, <1>8 DEF CreateMatch, Exclusive, Sound, VisitSound
    <3>2. \A k \in Matches : k # m => match'[k] = match[k]
      BY <1>1, <1>8 DEF CreateMatch, TypeOK
    <3>. QED
      BY <3>1, <3>2 DEF Exclusive
  <2>. QED
    BY <1>2, <1>4, <1>8, <2>1 DEF CreateMatch
<1>9. ASSUME NEW m \in Matches, NEW q \in SUBSET Players, CompleteLoad(t, m, q) PROVE Exclusive'
  <2>1. PICK l \in Leagues : l = match[m].league
    BY <1>1 DEF TypeOK, MatchRows
  <2>2. PICK v \in Visitors :
           /\ visit' = [visit EXCEPT ![t] = v]
           /\ v.op = "complete" /\ v.league = l /\ v.match = m
           /\ v.caught = {p \in Players : row[l][p] = None \/ Due(l, p)}
    BY <1>9, <2>1, CompleteLoadIs
  <2>3. /\ match' = match /\ match[m].status = "ACTIVE" /\ ~Completing(m)
        /\ \A p \in v.caught : ~Locked(l, p)
    BY <1>9, <2>1, <2>2 DEF CompleteLoad
  <2>4. \A u \in Visits : visit'[u] = IF u = t THEN v ELSE visit[u]
    BY <1>1, <2>2 DEF TypeOK
  <2>5. \A u \in Visits : visit[u].op = "complete" => visit[u].match # m
    BY <2>3 DEF Completing
  <2>6. \A u \in Visits : visit[u].league = l => v.caught \cap visit[u].caught = {}
    BY <2>3 DEF Locked
  <2>7. \A u \in Visits : visit'[u].op = "complete" => match'[visit'[u].match].status = "ACTIVE"
    BY <2>2, <2>3, <2>4 DEF Exclusive
  <2>8. \A u \in Visits : visit'[u].op # "complete" => visit'[u].caught = {}
    BY <2>2, <2>4 DEF Exclusive
  <2>9. ASSUME NEW a \in Visits, NEW b \in Visits, a # b, visit'[a].op = "complete", visit'[b].op = "complete"
        PROVE  /\ visit'[a].match # visit'[b].match
               /\ visit'[a].league = visit'[b].league => visit'[a].caught \cap visit'[b].caught = {}
    <3>1. CASE a = t
      BY <2>2, <2>4, <2>5, <2>6, <2>9, <3>1
    <3>2. CASE b = t
      BY <2>2, <2>4, <2>5, <2>6, <2>9, <3>2
    <3>3. CASE a # t /\ b # t
      BY <2>4, <2>9, <3>3 DEF Exclusive
    <3>. QED
      BY <3>1, <3>2, <3>3
  <2>. QED
    BY <2>7, <2>8, <2>9 DEF Exclusive
<1>10. CASE CompleteStore(t)
  <2>1. PICK m \in Matches : m = visit[t].match /\ visit[t].op = "complete"
    BY <1>1, <1>10 DEF CompleteStore, Sound, VisitSound
  <2>2. \A u \in Visits : u # t /\ visit[u].op = "complete" => visit[u].match # m /\ visit[u].match \in Matches
    BY <1>1, <2>1 DEF Exclusive, Sound, VisitSound
  <2>3. \A k \in Matches : k # m => match'[k] = match[k]
    BY <1>1, <1>10, <2>1 DEF CompleteStore, TypeOK
  <2>4. Others
    BY <2>2, <2>3 DEF Exclusive
  <2>. QED
    BY <1>2, <1>4, <1>10, <2>4 DEF CompleteStore
<1>11. ASSUME NEW m \in Matches, NEW op \in {"flip", "void"}, CorrectLook(t, m, op) PROVE Exclusive'
  <2>1. PICK v : v = [NoVisit EXCEPT !.op = op, !.league = match[m].league, !.match = m]
    OBVIOUS
  <2>2. match[m].league \in Leagues
    BY <1>1 DEF TypeOK, MatchRows
  <2>3. v \in Visitors /\ v.op = op /\ v.caught = {}
    BY <2>1, <2>2, NoVisitIs DEF Visitors
  <2>. QED
    BY <1>2, <1>3, <1>11, <2>1, <2>3 DEF CorrectLook
<1>12. CASE VoidMatch(t)
  <2>1. PICK m \in Matches : m = visit[t].match /\ visit[t].op = "void" /\ match[m].status = "COMPLETED"
    BY <1>1, <1>12 DEF VoidMatch, Correctable, Sound, VisitSound
  <2>2. \A u \in Visits : visit[u].op = "complete" => visit[u].match # m /\ visit[u].match \in Matches
    BY <1>1, <2>1 DEF Exclusive, Sound, VisitSound
  <2>3. \A k \in Matches : k # m => match'[k] = match[k]
    BY <1>1, <1>12, <2>1 DEF VoidMatch, TypeOK
  <2>4. Others
    BY <2>2, <2>3 DEF Exclusive
  <2>5. PICK v : v = [visit[t] EXCEPT !.op = "notify"]
    OBVIOUS
  <2>6. v \in Visitors /\ v.op = "notify" /\ v.caught = {}
    <3>1. visit[t] \in Visitors /\ visit[t].caught = {}
      BY <1>1, <2>1 DEF TypeOK, Exclusive
    <3>. QED
      BY <2>5, <3>1 DEF Visitors
  <2>7. visit' = [visit EXCEPT ![t] = v]
    BY <1>1, <1>12, <2>5 DEF VoidMatch, TypeOK
  <2>. QED
    BY <1>2, <2>4, <2>6, <2>7
<1>13. CASE FlipMatch(t)
  BY <1>2, <1>3, <1>4, <1>13 DEF FlipMatch
<1>. QED
  BY <1>5, <1>6, <1>7, <1>8, <1>9, <1>10, <1>11, <1>12, <1>13 DEF VisitStep

(* Every other step leaves handlers and matches alone, but for a            *)
(* cancellation, which keeps off a match being completed, and a restart.    *)
LEMMA OthersLeaveVisits ==
    ASSUME (\E b \in Batches : BatchStep(b)) \/ StaffStep \/ SyncStep \/ NextDay \/ UNCHANGED vars
    PROVE  UNCHANGED <<visit, match>>
<1>1. ASSUME NEW b \in Batches, BatchStep(b) PROVE UNCHANGED <<visit, match>>
  BY <1>1 DEF BatchStep, BatchStart, BatchLeague, BatchLoad, BatchStore, BatchLeagueDone, BatchFails
<1>2. ASSUME NEW l \in Leagues,
             \/ SetLeagueSeasonEndsAt(l) \/ ClearLeagueSeasonEndsAt(l) \/ StartLeagueCrunch(l)
             \/ ClearLeagueCrunch(l) \/ SetDecayEnabled(l) \/ ApplyDecayPreset(l) \/ ClearDecayModeSetting(l)
             \/ SetHeroChampionRolesEnabled(l) \/ SetHeroChampionRole(l)
      PROVE  UNCHANGED <<visit, match>>
  BY <1>2 DEF SetLeagueSeasonEndsAt, ClearLeagueSeasonEndsAt, StartLeagueCrunch, ClearLeagueCrunch,
              SetDecayEnabled, ApplyDecayPreset, ClearDecayModeSetting, SetHeroChampionRolesEnabled,
              SetHeroChampionRole, Configured
<1>3. CASE StaffStep
  BY <1>2, <1>3 DEF StaffStep, CreateLeague, BindChannel, UnbindChannel, BindEvent, UnbindEvent,
                    PreviewLeagueRollover, CancelLeagueRolloverDraft, RolloverLoad, RolloverCommit, RolloverRefused
<1>4. CASE SyncStep \/ NextDay \/ UNCHANGED vars
  BY <1>4 DEF SyncStep, SyncTick, SyncHeroChampionRoles, SyncDone, SyncFails, NextDay, vars
<1>. QED
  BY <1>1, <1>3, <1>4

LEMMA NextExclusive ==
    ASSUME IInv, Exclusive, [Next]_vars
    PROVE  Exclusive'
<1>1. CASE \E t \in Visits : VisitStep(t)
  BY <1>1, VisitExclusive
<1>2. CASE (\E b \in Batches : BatchStep(b)) \/ StaffStep \/ SyncStep \/ NextDay \/ UNCHANGED vars
  <2>1. UNCHANGED <<visit, match>>
    BY <1>2, OthersLeaveVisits
  <2>. QED
    BY <2>1, ExclusiveKept DEF Exclusive
<1>3. ASSUME NEW m \in Matches, CancelMatch(m) PROVE Exclusive'
  <2>1. \A u \in Visits : visit[u].op = "complete" => visit[u].match # m /\ visit[u].match \in Matches
    BY <1>3 DEF CancelMatch, Completing, IInv, Sound, VisitSound
  <2>2. visit' = visit /\ \A k \in Matches : k # m => match'[k] = match[k]
    BY <1>3 DEF CancelMatch, IInv, TypeOK
  <2>. QED
    BY <2>1, <2>2, ExclusiveKept DEF Exclusive
<1>4. CASE Restart
  BY <1>4, NoVisitIs, ExclusiveKept DEF Restart
<1>. QED
  BY <1>1, <1>2, <1>3, <1>4 DEF Next

-----------------------------------------------------------------------------
(* What most steps leave alone.                                             *)

(* The steps that write ratings.                                            *)
Writes ==
    \/ \E t \in Visits : CatchUpStore(t) \/ CompleteStore(t) \/ VoidMatch(t) \/ FlipMatch(t)
    \/ \E b \in Batches : BatchStore(b)
    \/ RolloverCommit

(* A league keeps what it continues, and once archived stays it.            *)
SeasonsStay ==
    \A k \in Leagues : /\ league'[k].pred = league[k].pred /\ league'[k].mode = league[k].mode
                       /\ league[k].status = "ARCHIVED" => league'[k].status = "ARCHIVED"

LEMMA NextSeasons ==
    ASSUME IInv, [Next]_vars, ~RolloverCommit
    PROVE  SeasonsStay
<1>1. TypeOK /\ Sound
  BY DEF IInv
<1>2. ASSUME NEW l \in Leagues, league' = MarkDirty(l) \/ MarkTried(l) PROVE SeasonsStay
  BY <1>1, <1>2, MarkDirtyIs, MarkTriedIs DEF SeasonsStay
<1>3. ASSUME NEW t \in Visits, VisitStep(t) PROVE SeasonsStay
  <2>1. visit[t].league \in Leagues
    BY <1>1 DEF TypeOK, Visitors
  <2>2. CASE CompleteStore(t) \/ NotifyLeagueRatingChanged(t) \/ FlipMatch(t)
    BY <1>2, <2>1, <2>2 DEF CompleteStore, NotifyLeagueRatingChanged, FlipMatch
  <2>3. CASE ~(CompleteStore(t) \/ NotifyLeagueRatingChanged(t) \/ FlipMatch(t))
    <3>1. league' = league
      BY <1>3, <2>3 DEF VisitStep, CatchUpLoad, CatchUpStore, CreateLook, CreateMatch, CompleteLoad, CorrectLook,
                        VoidMatch, Refused, tenancy
    <3>. QED
      BY <3>1 DEF SeasonsStay
  <2>. QED
    BY <2>2, <2>3
<1>4. ASSUME NEW b \in Batches, BatchStep(b) PROVE SeasonsStay
  <2>1. CASE BatchLeagueDone(b)
    <3>1. batch[b].hit => batch[b].league \in Leagues
      BY <1>1 DEF Sound, BatchSound, TypeOK, Ticks
    <3>2. CASE batch[b].hit
      BY <1>2, <2>1, <3>1, <3>2 DEF BatchLeagueDone
    <3>3. CASE ~batch[b].hit
      BY <2>1, <3>3 DEF BatchLeagueDone, SeasonsStay
    <3>. QED
      BY <3>2, <3>3
  <2>2. CASE ~BatchLeagueDone(b)
    <3>1. league' = league
      BY <1>4, <2>2 DEF BatchStep, BatchStart, BatchLeague, BatchLoad, BatchStore, BatchFails, tenancy
    <3>. QED
      BY <3>1 DEF SeasonsStay
  <2>. QED
    BY <2>1, <2>2
<1>5. CASE StaffStep
  <2>1. ASSUME NEW n \in Leagues, CreateLeague(n) PROVE SeasonsStay
    <3>1. NewLeague.pred = None /\ NewLeague.mode = None /\ NoLeague.pred = None /\ NoLeague.mode = None
      BY DEF NewLeague, NoLeague
    <3>2. league[n].status = "none" /\ league[n] = NoLeague
      BY <1>1, <2>1 DEF CreateLeague, Sound, LeagueSound
    <3>3. \A k \in Leagues : league'[k] = IF k = n THEN NewLeague ELSE league[k]
      BY <1>1, <2>1 DEF CreateLeague, TypeOK
    <3>. QED
      BY <3>1, <3>2, <3>3 DEF SeasonsStay
  <2>2. ASSUME NEW l \in Leagues,
               \/ SetLeagueSeasonEndsAt(l) \/ ClearLeagueSeasonEndsAt(l) \/ StartLeagueCrunch(l)
               \/ ClearLeagueCrunch(l) \/ SetDecayEnabled(l) \/ ApplyDecayPreset(l) \/ ClearDecayModeSetting(l)
               \/ SetHeroChampionRolesEnabled(l) \/ SetHeroChampionRole(l)
        PROVE  SeasonsStay
    <3>1. PICK kind : \E lg \in LeagueRows :
              /\ Configured(kind, l, lg) /\ lg.status = league[l].status /\ lg.pred = league[l].pred
              /\ lg.mode = league[l].mode
              /\ league[l].dirty => lg.dirty
      BY <2>2, SettingsSound
    <3>2. PICK lg \in LeagueRows :
              /\ Configured(kind, l, lg) /\ lg.status = league[l].status /\ lg.pred = league[l].pred
              /\ lg.mode = league[l].mode
      BY <3>1
    <3>3. \A k \in Leagues : league'[k] = IF k = l THEN lg ELSE league[k]
      BY <1>1, <3>2 DEF Configured, TypeOK
    <3>. QED
      BY <3>2, <3>3 DEF SeasonsStay
  <2>3. CASE \/ \E c \in Channels : (\E l \in Leagues : BindChannel(c, l)) \/ UnbindChannel(c) \/ BindEvent(c) \/ UnbindEvent(c)
             \/ \E l, n \in Leagues, mode \in Modes, d \in Drafts : PreviewLeagueRollover(l, n, mode, d)
             \/ \E d \in Drafts : CancelLeagueRolloverDraft(d) \/ RolloverLoad(d)
             \/ RolloverRefused
    <3>1. league' = league
      BY <2>3 DEF BindChannel, UnbindChannel, BindEvent, UnbindEvent, PreviewLeagueRollover,
                  CancelLeagueRolloverDraft, RolloverLoad, RolloverRefused, tenancy
    <3>. QED
      BY <3>1 DEF SeasonsStay
  <2>. QED
    BY <1>5, <2>1, <2>2, <2>3 DEF StaffStep
<1>6. CASE SyncDone
  <2>1. sync.league \in Leagues
    BY <1>1, <1>6 DEF SyncDone, TypeOK, Syncs
  <2>2. PICK lg : lg = [league[sync.league] EXCEPT !.dirty = FALSE]
    OBVIOUS
  <2>3. /\ lg.status = league[sync.league].status /\ lg.pred = league[sync.league].pred
        /\ lg.mode = league[sync.league].mode
    BY <1>1, <2>1, <2>2 DEF TypeOK, LeagueRows
  <2>4. league' = [league EXCEPT ![sync.league] = lg]
    BY <1>6, <2>2 DEF SyncDone
  <2>5. \A k \in Leagues : league'[k] = IF k = sync.league THEN lg ELSE league[k]
    BY <1>1, <2>4 DEF TypeOK
  <2>. QED
    BY <2>3, <2>5 DEF SeasonsStay
<1>7. ASSUME \/ SyncTick \/ (\E l \in Leagues : SyncHeroChampionRoles(l)) \/ SyncFails
             \/ (\E m \in Matches : CancelMatch(m)) \/ NextDay \/ Restart \/ UNCHANGED vars
      PROVE  SeasonsStay
  <2>1. league' = league
    BY <1>7 DEF SyncTick, SyncHeroChampionRoles, SyncFails, CancelMatch, NextDay, Restart, vars, tenancy
  <2>. QED
    BY <2>1 DEF SeasonsStay
<1>. QED
  BY <1>3, <1>4, <1>5, <1>6, <1>7 DEF Next, SyncStep

LEMMA QuietRows ==
    ASSUME [Next]_vars, ~Writes
    PROVE  UNCHANGED <<row, lost, redated>>
<1>1. ASSUME NEW t \in Visits, VisitStep(t) PROVE UNCHANGED <<row, lost, redated>>
  BY <1>1 DEF Writes, VisitStep, CatchUpLoad, CreateLook, CreateMatch, CompleteLoad, CorrectLook,
              NotifyLeagueRatingChanged, Refused, history
<1>2. ASSUME NEW b \in Batches, BatchStep(b) PROVE UNCHANGED <<row, lost, redated>>
  BY <1>2 DEF Writes, BatchStep, BatchStart, BatchLeague, BatchLoad, BatchLeagueDone, BatchFails, history
<1>3. ASSUME NEW l \in Leagues,
             \/ SetLeagueSeasonEndsAt(l) \/ ClearLeagueSeasonEndsAt(l) \/ StartLeagueCrunch(l)
             \/ ClearLeagueCrunch(l) \/ SetDecayEnabled(l) \/ ApplyDecayPreset(l) \/ ClearDecayModeSetting(l)
             \/ SetHeroChampionRolesEnabled(l) \/ SetHeroChampionRole(l)
      PROVE  UNCHANGED <<row, lost, redated>>
  BY <1>3 DEF SetLeagueSeasonEndsAt, ClearLeagueSeasonEndsAt, StartLeagueCrunch, ClearLeagueCrunch,
              SetDecayEnabled, ApplyDecayPreset, ClearDecayModeSetting, SetHeroChampionRolesEnabled,
              SetHeroChampionRole, Configured, history
<1>4. CASE StaffStep
  BY <1>3, <1>4 DEF Writes, StaffStep, CreateLeague, BindChannel, UnbindChannel, BindEvent, UnbindEvent,
                    PreviewLeagueRollover, CancelLeagueRolloverDraft, RolloverLoad, RolloverRefused, history
<1>5. CASE SyncStep \/ NextDay \/ Restart \/ (\E m \in Matches : CancelMatch(m)) \/ UNCHANGED vars
  BY <1>5 DEF SyncStep, SyncTick, SyncHeroChampionRoles, SyncDone, SyncFails, NextDay, Restart, CancelMatch,
              vars, history
<1>. QED
  BY <1>1, <1>2, <1>4, <1>5 DEF Next

(* Which matches are completed, and what they say, changes only when one    *)
(* is completed or voided.                                                  *)
SameResults ==
    \A m \in Matches :
        /\ match'[m].status = "COMPLETED" <=> match[m].status = "COMPLETED"
        /\ match[m].status = "COMPLETED" => match'[m] = match[m]

LEMMA NextResults ==
    ASSUME IInv, [Next]_vars, ~\E t \in Visits : CompleteStore(t) \/ VoidMatch(t)
    PROVE  SameResults
<1>1. TypeOK
  BY DEF IInv
<1>2. match' = match => SameResults
  BY DEF SameResults
<1>3. ASSUME NEW t \in Visits, VisitStep(t) PROVE SameResults
  <2>1. ASSUME NEW m \in Matches, CreateMatch(t, m) PROVE SameResults
    <3>1. PICK x : x = [NoMatch EXCEPT !.status = "ACTIVE", !.league = visit[t].league,
                                       !.late = ~IsLeagueWritable(visit[t].league)]
      OBVIOUS
    <3>2. x.status = "ACTIVE" /\ match[m].status = "none"
      BY <2>1, <3>1 DEF NoMatch, CreateMatch
    <3>3. \A k \in Matches : match'[k] = IF k = m THEN x ELSE match[k]
      BY <1>1, <2>1, <3>1 DEF CreateMatch, TypeOK
    <3>. QED
      BY <3>2, <3>3 DEF SameResults
  <2>2. CASE ~\E m \in Matches : CreateMatch(t, m)
    <3>1. match' = match
      BY <1>3, <2>2 DEF VisitStep, CatchUpLoad, CatchUpStore, CreateLook, CompleteLoad, CorrectLook,
                        NotifyLeagueRatingChanged, FlipMatch, Refused
    <3>. QED
      BY <1>2, <3>1
  <2>. QED
    BY <2>1, <2>2
<1>4. ASSUME NEW m \in Matches, CancelMatch(m) PROVE SameResults
  <2>1. PICK x : x = [match[m] EXCEPT !.status = "CANCELLED"]
    OBVIOUS
  <2>2. x.status = "CANCELLED" /\ match[m].status = "ACTIVE"
    BY <1>1, <1>4, <2>1 DEF CancelMatch, TypeOK, MatchRows
  <2>3. \A k \in Matches : match'[k] = IF k = m THEN x ELSE match[k]
    BY <1>1, <1>4, <2>1 DEF CancelMatch, TypeOK
  <2>. QED
    BY <2>2, <2>3 DEF SameResults
<1>5. CASE (\E b \in Batches : BatchStep(b)) \/ StaffStep \/ SyncStep \/ NextDay \/ UNCHANGED vars
  BY <1>2, <1>5, OthersLeaveVisits
<1>6. CASE Restart
  BY <1>2, <1>6 DEF Restart
<1>. QED
  BY <1>3, <1>4, <1>5, <1>6 DEF Next

-----------------------------------------------------------------------------
(* Results are carried.                                                     *)

(* The results a rating of the league holds: those of the completed matches *)
(* of its own and of the seasons it continues, but for a match that was     *)
(* created while the rollover was under way.                                *)
Results(l) ==
    {m \in Matches : /\ match[m].status = "COMPLETED" /\ match[m].league \in Seasons(l)
                     /\ match[m].league = l \/ ~match[m].late}

Holds(l, p) ==
    IF row[l][p] = None THEN Results(l) = {}
    ELSE row[l][p].won = Results(l) /\ (row[l][p].taxed => league[l].status = "ARCHIVED")

Carried == \A l \in Leagues, p \in Players : <<l, p>> \notin lost => Holds(l, p)

(* A rating's results are what they were.                                   *)
SameHeld(l, p) ==
    \/ row'[l][p] = row[l][p]
    \/ /\ row[l][p] # None /\ row'[l][p] # None
       /\ row'[l][p].won = row[l][p].won
       /\ row'[l][p].taxed => row[l][p].taxed

LEMMA HoldsKept ==
    ASSUME NEW l \in Leagues, NEW p \in Players, Holds(l, p), Results(l)' = Results(l), SameHeld(l, p),
           league[l].status = "ARCHIVED" => league'[l].status = "ARCHIVED"
    PROVE  Holds(l, p)'
<1>1. PICK res : res = Results(l) /\ res = Results(l)'
  OBVIOUS
<1>2. Holds(l, p)' <=> IF row'[l][p] = None THEN res = {}
                       ELSE row'[l][p].won = res /\ (row'[l][p].taxed => league'[l].status = "ARCHIVED")
  BY <1>1 DEF Holds
<1>3. IF row[l][p] = None THEN res = {}
      ELSE row[l][p].won = res /\ (row[l][p].taxed => league[l].status = "ARCHIVED")
  BY <1>1 DEF Holds
<1>. HIDE DEF Results, Holds
<1>4. CASE row'[l][p] = row[l][p]
  BY <1>2, <1>3, <1>4
<1>5. CASE row'[l][p] # row[l][p]
  BY <1>2, <1>3, <1>5 DEF SameHeld
<1>. QED
  BY <1>4, <1>5

LEMMA SameResultsKept ==
    ASSUME TypeOK, SameResults, SeasonsStay, NEW l \in Leagues
    PROVE  Results(l)' = Results(l)
<1>1. Seasons(l)' = Seasons(l)
  BY SeasonsKept DEF SeasonsStay
<1>2. Results(l)' = {m \in Matches : /\ match'[m].status = "COMPLETED" /\ match'[m].league \in Seasons(l)
                                     /\ match'[m].league = l \/ ~match'[m].late}
  BY <1>1 DEF Results
<1>. HIDE DEF Seasons
<1>3. ASSUME NEW m \in Matches PROVE m \in Results(l)' <=> m \in Results(l)
  BY <1>2 DEF SameResults, Results
<1>4. \A m \in Results(l) : m \in Matches
  BY DEF Results
<1>5. \A m \in Results(l)' : m \in Matches
  BY <1>2
<1>. QED
  BY <1>3, <1>4, <1>5

LEMMA CarriedKept ==
    ASSUME TypeOK, Carried, SameResults, SeasonsStay, lost \subseteq lost',
           \A l \in Leagues, p \in Players : <<l, p>> \notin lost' => SameHeld(l, p)
    PROVE  Carried'
<1>. SUFFICES ASSUME NEW l \in Leagues, NEW p \in Players, <<l, p>> \notin lost' PROVE Holds(l, p)'
  BY DEF Carried
<1>1. <<l, p>> \notin lost /\ SameHeld(l, p)
  OBVIOUS
<1>2. Holds(l, p)
  BY <1>1 DEF Carried
<1>3. Results(l)' = Results(l)
  BY SameResultsKept
<1>4. league[l].status = "ARCHIVED" => league'[l].status = "ARCHIVED"
  BY DEF SeasonsStay
<1>. QED
  BY <1>1, <1>2, <1>3, <1>4, HoldsKept

(* Decay takes no result.                                                   *)
LEMMA DecayCarries ==
    ASSUME IInv, Carried, NEW l \in Leagues, NEW p \in Players, NEW r \in Rows,
           row[l][p] # None, WriteDecay(l, p, r), SameResults, SeasonsStay
    PROVE  Carried'
<1>1. TypeOK
  BY DEF IInv
<1>2. /\ \A k \in Leagues, q \in Players : k # l \/ q # p => row'[k][q] = row[k][q]
      /\ row'[l][p] \in Rows
      /\ row'[l][p].won = r.won /\ row'[l][p].taxed = r.taxed
      /\ lost \subseteq lost'
      /\ <<l, p>> \notin lost' => r.won = row[l][p].won /\ r.taxed = row[l][p].taxed
  BY <1>1, WriteDecayIs
<1>3. ASSUME NEW k \in Leagues, NEW q \in Players, <<k, q>> \notin lost' PROVE SameHeld(k, q)
  <2>1. CASE k # l \/ q # p
    BY <1>2, <2>1 DEF SameHeld
  <2>2. CASE k = l /\ q = p
    BY <1>2, <1>3, <2>2, Apart DEF SameHeld
  <2>. QED
    BY <2>1, <2>2
<1>. QED
  BY <1>1, <1>2, <1>3, CarriedKept

(* A match completed adds its result to its league's ratings.  A season     *)
(* that continues this league has begun since the match was created, and    *)
(* does not count it.                                                       *)
LEMMA CompleteCarries ==
    ASSUME IInv, Exclusive, Carried, NEW t \in Visits, CompleteStore(t), SeasonsStay
    PROVE  Carried'
<1>1. PICK l, m : l = visit[t].league /\ m = visit[t].match
  OBVIOUS
<1>2. /\ l \in Leagues /\ m \in Matches /\ match[m].league = l
      /\ \A k \in Matches : k # m => match'[k] = match[k]
      /\ match'[m].league = l /\ match'[m].status = "COMPLETED" /\ match'[m].late = match[m].late
      /\ lost \subseteq lost'
      /\ \A p \in Players : <<l, p>> \notin lost' /\ row[l][p] # None =>
            visit[t].rows[p].won = row[l][p].won /\ visit[t].rows[p].taxed = row[l][p].taxed
  BY <1>1, CompleteStoreIs
<1>3. PICK rows \in [Players -> Rows] :
         /\ row' = [row EXCEPT ![l] = rows]
         /\ \A p \in Players :
               /\ row[l][p] = None => visit[t].rows[p] = DefaultRow
               /\ rows[p].won = visit[t].rows[p].won \cup {m} /\ rows[p].taxed = visit[t].rows[p].taxed
  <2>1. PICK rows, rated \in [Players -> Rows] :
           row' = [row EXCEPT ![l] = rows] /\ RatedBy(rows, rated, visit[t], l, m)
    BY <1>1, CompleteStoreIs
  <2>2. \A p \in Players : row[l][p] = None => visit[t].rows[p] = DefaultRow
    BY <2>1 DEF RatedBy
  <2>3. \A p \in Players : rows[p].won = visit[t].rows[p].won \cup {m} /\ rows[p].taxed = visit[t].rows[p].taxed
    BY <2>1 DEF RatedBy
  <2>. QED
    BY <2>1, <2>2, <2>3
<1>4. TypeOK /\ Sound /\ match[m].status = "ACTIVE"
  BY <1>1 DEF IInv, CompleteStore, Exclusive
<1>5. \A k \in Leagues : row'[k] = IF k = l THEN rows ELSE row[k]
  BY <1>3, <1>4 DEF TypeOK
<1>6. \A x \in Leagues : Seasons(x)' = Seasons(x)
  BY SeasonsKept DEF SeasonsStay
<1>7. \A x \in Leagues :
         Results(x)' = {k \in Matches : /\ match'[k].status = "COMPLETED" /\ match'[k].league \in Seasons(x)
                                        /\ match'[k].league = x \/ ~match'[k].late}
  BY <1>6 DEF Results
<1>8. l \in Seasons(l)
  BY <1>2, SeasonSelf
<1>9. \A x \in Leagues : x # l /\ l \in Seasons(x) => match[m].late
  <2>1. MatchSound(m)
    BY <1>2, <1>4 DEF Sound
  <2>2. \A x \in Leagues : x # l /\ l \in Seasons(x) => league[l].status = "ARCHIVED"
    BY <1>4, SeasonsOver
  <2>. QED
    BY <1>2, <1>4, <2>1, <2>2 DEF MatchSound
<1>10. Results(l)' = Results(l) \cup {m}
  <2>. HIDE DEF Seasons
  <2>1. \A k \in Matches : k # m => (k \in Results(l)' <=> k \in Results(l))
    BY <1>2, <1>7 DEF Results
  <2>2. m \in Results(l)'
    BY <1>2, <1>7, <1>8
  <2>3. (\A k \in Results(l) : k \in Matches) /\ (\A k \in Results(l)' : k \in Matches)
    BY <1>2, <1>7 DEF Results
  <2>. QED
    BY <1>2, <2>1, <2>2, <2>3
<1>11. ASSUME NEW x \in Leagues, x # l PROVE Results(x)' = Results(x)
  <2>. HIDE DEF Seasons
  <2>1. \A k \in Matches : k # m => (k \in Results(x)' <=> k \in Results(x))
    BY <1>2, <1>7 DEF Results
  <2>2. m \notin Results(x)' /\ m \notin Results(x)
    BY <1>2, <1>4, <1>7, <1>9, <1>11 DEF Results
  <2>3. (\A k \in Results(x) : k \in Matches) /\ (\A k \in Results(x)' : k \in Matches)
    BY <1>7 DEF Results
  <2>. QED
    BY <2>1, <2>2, <2>3
<1>. SUFFICES ASSUME NEW x \in Leagues, NEW p \in Players, <<x, p>> \notin lost' PROVE Holds(x, p)'
  BY DEF Carried
<1>12. Holds(x, p) /\ (league[x].status = "ARCHIVED" => league'[x].status = "ARCHIVED")
  BY <1>2 DEF Carried, SeasonsStay
<1>. HIDE DEF Results
<1>13. CASE x # l
  <2>1. SameHeld(x, p)
    BY <1>5, <1>13 DEF SameHeld
  <2>. QED
    BY <1>11, <1>12, <1>13, <2>1, HoldsKept
<1>14. CASE x = l
  <2>1. row'[l][p] = rows[p] /\ rows[p] \in Rows
    BY <1>2, <1>5
  <2>2. CASE row[l][p] = None
    <3>1. Results(l) = {} /\ rows[p].won = {m} /\ ~rows[p].taxed
      BY <1>3, <1>12, <1>14, <2>2 DEF Holds, DefaultRow
    <3>. QED
      BY <1>10, <1>14, <2>1, <3>1, Apart DEF Holds
  <2>3. CASE row[l][p] # None
    <3>1. rows[p].won = row[l][p].won \cup {m} /\ rows[p].taxed = row[l][p].taxed
      BY <1>2, <1>3, <1>14, <2>3
    <3>2. row[l][p].won = Results(l) /\ (row[l][p].taxed => league[l].status = "ARCHIVED")
      BY <1>12, <1>14, <2>3 DEF Holds
    <3>. QED
      BY <1>10, <1>12, <1>14, <2>1, <3>1, <3>2, Apart DEF Holds
  <2>. QED
    BY <2>2, <2>3
<1>. QED
  BY <1>13, <1>14

(* A void takes the result out of its league's ratings; what later seasons  *)
(* took over is excused.                                                    *)
LEMMA VoidCarries ==
    ASSUME IInv, Carried, NEW t \in Visits, VoidMatch(t), SeasonsStay
    PROVE  Carried'
<1>1. PICK l, m : l = visit[t].league /\ m = visit[t].match
  OBVIOUS
<1>2. /\ l \in Leagues /\ m \in Matches /\ match[m].league = l /\ match[m].status = "COMPLETED"
      /\ \A p \in Players : match[m].snap[p] \in Rows /\ row[l][p] \in Rows
      /\ \A k \in Matches : k # m => match'[k] = match[k]
      /\ match'[m].status = "CANCELLED"
  BY <1>1, VoidMatchIs
<1>3. PICK rows \in [Players -> Rows] :
         /\ row' = [row EXCEPT ![l] = rows]
         /\ \A p \in Players : rows[p].won = match[m].snap[p].won /\ rows[p].taxed = match[m].snap[p].taxed
  BY <1>1, VoidMatchIs
<1>4. TypeOK /\ lost' = lost \cup TakenBack(l, m)
  BY <1>1 DEF IInv, VoidMatch
<1>5. /\ lost \subseteq lost'
      /\ \A p \in Players : <<l, p>> \notin lost' =>
            row[l][p].won \ {m} = match[m].snap[p].won /\ row[l][p].taxed = match[m].snap[p].taxed
      /\ \A n \in Leagues \ {l}, p \in Players : l \in Seasons(n) => <<n, p>> \in lost'
  BY <1>2, <1>4, TakenBackIs
<1>6. \A k \in Leagues : row'[k] = IF k = l THEN rows ELSE row[k]
  BY <1>3, <1>4 DEF TypeOK
<1>7. \A x \in Leagues : Seasons(x)' = Seasons(x)
  BY SeasonsKept DEF SeasonsStay
<1>8. \A x \in Leagues :
         Results(x)' = {k \in Matches : /\ match'[k].status = "COMPLETED" /\ match'[k].league \in Seasons(x)
                                        /\ match'[k].league = x \/ ~match'[k].late}
  BY <1>7 DEF Results
<1>9. ASSUME NEW x \in Leagues PROVE Results(x)' = Results(x) \ {m}
  <2>. HIDE DEF Seasons
  <2>1. \A k \in Matches : k # m => (k \in Results(x)' <=> k \in Results(x))
    BY <1>2, <1>8 DEF Results
  <2>2. m \notin Results(x)'
    BY <1>2, <1>8
  <2>3. (\A k \in Results(x) : k \in Matches) /\ (\A k \in Results(x)' : k \in Matches)
    BY <1>8 DEF Results
  <2>. QED
    BY <2>1, <2>2, <2>3
<1>. SUFFICES ASSUME NEW x \in Leagues, NEW p \in Players, <<x, p>> \notin lost' PROVE Holds(x, p)'
  BY DEF Carried
<1>10. Holds(x, p) /\ (league[x].status = "ARCHIVED" => league'[x].status = "ARCHIVED")
  BY <1>5 DEF Carried, SeasonsStay
<1>11. CASE x # l
  <2>1. l \notin Seasons(x)
    BY <1>2, <1>5, <1>11
  <2>2. m \notin Results(x)
    BY <1>2, <2>1, Zenon DEF Results
  <2>3. Results(x)' = Results(x) /\ SameHeld(x, p)
    <3>. HIDE DEF Results
    <3>. QED
      BY <1>6, <1>9, <1>11, <2>2 DEF SameHeld
  <2>. QED
    BY <1>10, <2>3, HoldsKept
<1>12. CASE x = l
  <2>. HIDE DEF Results
  <2>1. row'[l][p] = rows[p] /\ rows[p] \in Rows
    BY <1>2, <1>6
  <2>2. rows[p].won = row[l][p].won \ {m} /\ rows[p].taxed = row[l][p].taxed
    BY <1>3, <1>5, <1>12
  <2>3. row[l][p].won = Results(l) /\ (row[l][p].taxed => league[l].status = "ARCHIVED")
    BY <1>2, <1>10, <1>12, Apart DEF Holds
  <2>. QED
    BY <1>9, <1>10, <1>12, <2>1, <2>2, <2>3, Apart DEF Holds
<1>. QED
  BY <1>11, <1>12

(* A flip takes it out and puts it in again.                                *)
LEMMA FlipCarries ==
    ASSUME IInv, Carried, NEW t \in Visits, FlipMatch(t), SameResults, SeasonsStay
    PROVE  Carried'
<1>1. PICK l, m : l = visit[t].league /\ m = visit[t].match
  OBVIOUS
<1>2. /\ l \in Leagues /\ m \in Matches /\ match[m].league = l /\ match[m].status = "COMPLETED"
      /\ \A p \in Players : match[m].snap[p] \in Rows /\ row[l][p] \in Rows
  BY <1>1, FlipMatchIs
<1>3. PICK rows \in [Players -> Rows] : row' = [row EXCEPT ![l] = rows] /\ Reflipped(rows, l, m)
  BY <1>1, FlipMatchIs
<1>4. TypeOK /\ lost' = lost \cup TakenBack(l, m)
  BY <1>1 DEF IInv, FlipMatch
<1>5. /\ lost \subseteq lost'
      /\ \A p \in Players : <<l, p>> \notin lost' =>
            row[l][p].won \ {m} = match[m].snap[p].won /\ row[l][p].taxed = match[m].snap[p].taxed
  BY <1>2, <1>4, TakenBackIs
<1>6. \A k \in Leagues : row'[k] = IF k = l THEN rows ELSE row[k]
  BY <1>3, <1>4 DEF TypeOK
<1>7. m \in Results(l)
  BY <1>2, SeasonSelf, Zenon DEF Results
<1>8. ASSUME NEW x \in Leagues, NEW p \in Players, <<x, p>> \notin lost' PROVE SameHeld(x, p)
  <2>1. CASE x # l
    BY <1>6, <2>1 DEF SameHeld
  <2>2. CASE x = l
    <3>. HIDE DEF Results
    <3>1. row'[l][p] = rows[p] /\ rows[p] \in Rows
      BY <1>2, <1>6
    <3>2. row[l][p].won = Results(l)
      <4>1. Holds(l, p)
        BY <1>2, <1>5, <1>8, <2>2 DEF Carried
      <4>. QED
        BY <1>2, <4>1, Apart DEF Holds
    <3>3. rows[p].won = (row[l][p].won \ {m}) \cup {m} /\ rows[p].taxed = row[l][p].taxed
      BY <1>3, <1>5, <1>8, <2>2 DEF Reflipped
    <3>4. rows[p].won = row[l][p].won
      BY <1>7, <3>2, <3>3
    <3>. QED
      BY <1>2, <2>2, <3>1, <3>3, <3>4, Apart DEF SameHeld
  <2>. QED
    BY <2>1, <2>2
<1>. QED
  BY <1>4, <1>5, <1>8, CarriedKept

(* The rollover hands the results over, or starts anew.                     *)
LEMMA RolloverCarries ==
    ASSUME IInv, Carried, RolloverCommit
    PROVE  Carried'
<1>1. PICK l, n, mode :
         l = draft[confirm.draft].source /\ n = draft[confirm.draft].name /\ mode = draft[confirm.draft].mode
  OBVIOUS
<1>2. /\ l \in Leagues /\ n \in Leagues /\ mode \in Modes /\ l # n
      /\ league[l].status = "ACTIVE" /\ league[n] = NoLeague
      /\ \A k \in Leagues : k # l /\ k # n => league'[k] = league[k]
      /\ league'[l].status = "ARCHIVED"
  BY <1>1, CommitLeaguesAre
<1>3. /\ \A k \in Leagues, p \in Players : k # l /\ k # n => row'[k][p] = row[k][p]
      /\ \A p \in Players : confirm.rows[p] = None => row'[l][p] = row[l][p] /\ row'[n][p] = None
      /\ \A p \in Players : p \notin confirm.taxed => row'[l][p] = row[l][p]
      /\ \A p \in Players : confirm.rows[p] # None =>
            /\ confirm.rows[p] \in Rows /\ row[l][p] \in Rows /\ row'[l][p] \in Rows
            /\ p \in confirm.taxed => row'[l][p].won = confirm.rows[p].won
            /\ row'[n][p] = IF mode = "hard" THEN DefaultRow ELSE confirm.rows[p]
  BY <1>1, CommitRowsAre
<1>4. /\ lost \subseteq lost'
      /\ \A p \in Players : p \in confirm.taxed /\ PutsBack(l, p, confirm.rows[p]) => <<l, p>> \in lost'
      /\ \A p \in Players : PutsBack(l, p, confirm.rows[p]) \/ <<l, p>> \in lost => <<n, p>> \in lost'
  BY <1>1, CommitLost
<1>5. /\ \A x \in Leagues : x # n => Seasons(x)' = Seasons(x)
      /\ mode = "hard" => Seasons(n)' = {n}
      /\ mode # "hard" => Seasons(n)' = {n} \cup Seasons(l)
  BY <1>1, SeasonsHandedOver
<1>6. TypeOK /\ Sound /\ match' = match
  BY DEF IInv, RolloverCommit
<1>7. /\ \A m \in Matches : match[m].status = "COMPLETED" => match[m].league # n
      /\ \A m \in Matches : match[m].league = l => ~match[m].late
  <2>1. \A m \in Matches : MatchSound(m)
    BY <1>6 DEF Sound
  <2>2. NoLeague.status = "none"
    BY DEF NoLeague, NewLeague
  <2>. QED
    BY <1>2, <2>1, <2>2 DEF MatchSound
<1>8. \A x \in Leagues : x # n => Results(x)' = Results(x)
  BY <1>5, <1>6 DEF Results
<1>9. Results(n)' = IF mode = "hard" THEN {} ELSE Results(l)
  <2>1. PICK ss : ss = Seasons(n)'
    OBVIOUS
  <2>2. Results(n)' = {m \in Matches : /\ match[m].status = "COMPLETED" /\ match[m].league \in ss
                                       /\ match[m].league = n \/ ~match[m].late}
    BY <1>6, <2>1 DEF Results
  <2>. HIDE DEF Seasons
  <2>3. CASE mode = "hard"
    BY <1>5, <1>7, <2>1, <2>2, <2>3
  <2>4. CASE mode # "hard"
    <3>1. ss = {n} \cup Seasons(l)
      BY <1>5, <2>1, <2>4
    <3>2. \A m \in Matches : m \in Results(n)' <=> m \in Results(l)
      BY <1>7, <2>2, <3>1 DEF Results
    <3>3. (\A m \in Results(n)' : m \in Matches) /\ (\A m \in Results(l) : m \in Matches)
      BY <2>2 DEF Results
    <3>4. Results(n)' = Results(l)
      BY <3>2, <3>3
    <3>. QED
      BY <2>4, <3>4
  <2>. QED
    BY <2>3, <2>4
<1>. SUFFICES ASSUME NEW x \in Leagues, NEW p \in Players, <<x, p>> \notin lost' PROVE Holds(x, p)'
  BY DEF Carried
<1>. HIDE DEF Results
<1>10. Holds(x, p) /\ (x = n => Holds(l, p))
  BY <1>2, <1>4 DEF Carried
<1>11. CASE x # l /\ x # n
  <2>1. SameHeld(x, p) /\ league'[x] = league[x]
    BY <1>2, <1>3, <1>11 DEF SameHeld
  <2>. QED
    BY <1>8, <1>10, <1>11, <2>1, HoldsKept
<1>12. CASE x = l
  <2>1. CASE row'[l][p] = row[l][p]
    BY <1>2, <1>8, <1>10, <1>12, <2>1 DEF Holds
  <2>2. CASE row'[l][p] # row[l][p]
    <3>1. p \in confirm.taxed /\ confirm.rows[p] # None
      BY <1>3, <2>2
    <3>2. row'[l][p] \in Rows /\ row[l][p] # None /\ row'[l][p].won = confirm.rows[p].won
      BY <1>3, <3>1, Apart
    <3>3. confirm.rows[p].won = row[l][p].won
      BY <1>4, <1>12, <3>1, <3>2 DEF PutsBack
    <3>. QED
      BY <1>2, <1>8, <1>10, <1>12, <3>2, <3>3, Apart DEF Holds
  <2>. QED
    BY <2>1, <2>2
<1>13. CASE x = n
  <2>1. ~PutsBack(l, p, confirm.rows[p])
    BY <1>4, <1>13
  <2>2. CASE confirm.rows[p] = None
    <3>1. row[l][p] = None
      BY <2>1, <2>2 DEF PutsBack
    <3>2. Results(l) = {} /\ row'[n][p] = None
      BY <1>3, <1>10, <1>13, <2>2, <3>1 DEF Holds
    <3>. QED
      BY <1>9, <1>13, <3>2 DEF Holds
  <2>3. CASE confirm.rows[p] # None
    <3>1. row[l][p] # None /\ confirm.rows[p] \in Rows
      BY <1>3, <2>3, Apart
    <3>2. confirm.rows[p].won = row[l][p].won /\ confirm.rows[p].taxed = row[l][p].taxed
      BY <2>1, <2>3, <3>1 DEF PutsBack
    <3>3. row[l][p].won = Results(l) /\ ~row[l][p].taxed
      BY <1>2, <1>10, <1>13, <3>1 DEF Holds
    <3>4. row'[n][p] # None /\ row'[n][p].won = Results(n)' /\ ~row'[n][p].taxed
      <4>1. CASE mode = "hard"
        BY <1>3, <1>9, <2>3, <4>1, Apart, DefaultRowIs DEF DefaultRow
      <4>2. CASE mode # "hard"
        BY <1>3, <1>9, <2>3, <3>2, <3>3, <4>2
      <4>. QED
        BY <4>1, <4>2
    <3>. QED
      BY <1>13, <3>4 DEF Holds
  <2>. QED
    BY <2>2, <2>3
<1>. QED
  BY <1>11, <1>12, <1>13

LEMMA NextCarries ==
    ASSUME IInv, Exclusive, Carried, [Next]_vars
    PROVE  Carried'
<1>1. TypeOK /\ Sound
  BY DEF IInv
<1>2. ASSUME NEW t \in Visits, CatchUpStore(t), SameResults, SeasonsStay PROVE Carried'
  <2>1. PICK l, p, r : l = visit[t].league /\ p = visit[t].player /\ r = visit[t].rows[p]
    OBVIOUS
  <2>2. l \in Leagues /\ visit[t].op = "catchup"
    BY <1>1, <1>2, <2>1 DEF TypeOK, Visitors, CatchUpStore
  <2>3. p \in Players /\ r \in Rows /\ row[l][p] # None
    BY <1>1, <2>1, <2>2 DEF Sound, VisitSound
  <2>4. WriteDecay(l, p, r)
    BY <1>2, <2>1 DEF CatchUpStore
  <2>. QED
    BY <1>2, <2>2, <2>3, <2>4, DecayCarries
<1>3. ASSUME NEW b \in Batches, BatchStore(b), SameResults, SeasonsStay PROVE Carried'
  <2>1. PICK l, p, r : l = batch[b].league /\ p = batch[b].player /\ r = batch[b].held
    OBVIOUS
  <2>2. l \in Leagues /\ p \in Players /\ r \in Rows /\ row[l][p] # None
    BY <1>1, <1>3, <2>1 DEF BatchStore, TypeOK, Ticks, Sound, BatchSound
  <2>3. WriteDecay(l, p, r)
    BY <1>3, <2>1 DEF BatchStore
  <2>. QED
    BY <1>3, <2>2, <2>3, DecayCarries
<1>4. CASE RolloverCommit
  BY <1>4, RolloverCarries
<1>5. CASE ~RolloverCommit
  <2>1. SeasonsStay
    BY <1>5, NextSeasons
  <2>2. CASE \E t \in Visits : CompleteStore(t) \/ VoidMatch(t)
    BY <2>1, <2>2, CompleteCarries, VoidCarries
  <2>3. CASE ~\E t \in Visits : CompleteStore(t) \/ VoidMatch(t)
    <3>1. SameResults
      BY <2>3, NextResults
    <3>2. CASE Writes
      BY <1>2, <1>3, <1>5, <2>1, <2>3, <3>1, <3>2, FlipCarries DEF Writes
    <3>3. CASE ~Writes
      <4>1. UNCHANGED <<row, lost>>
        BY <3>3, QuietRows
      <4>. QED
        BY <1>1, <2>1, <3>1, <4>1, CarriedKept DEF SameHeld
    <3>. QED
      BY <3>2, <3>3
  <2>. QED
    BY <2>2, <2>3
<1>. QED
  BY <1>4, <1>5

(* Ratings hold each league's results once: what a match, a correction, the  *)
(* idle decay or a rollover writes, a rating holds the results of its        *)
(* league's completed matches and of the seasons it continues, unless a late *)
(* write put something back; and no season in play is taxed.                 *)
THEOREM ResultsAreCarried == Spec => []ResultsCarried
<1>1. Init => Exclusive /\ Carried
  <2>. SUFFICES ASSUME Init PROVE Exclusive /\ Carried
    OBVIOUS
  <2>1. Exclusive
    BY DEF Init, NoVisit, Exclusive
  <2>2. \A m \in Matches : match[m].status = "none"
    BY DEF Init, NoMatch
  <2>3. \A l \in Leagues, p \in Players : row[l][p] = None
    BY DEF Init
  <2>4. Carried
    BY <2>2, <2>3 DEF Carried, Holds, Results
  <2>. QED
    BY <2>1, <2>4
<1>2. IInv /\ Exclusive /\ Carried /\ [Next]_vars => Exclusive' /\ Carried'
  BY NextExclusive, NextCarries
<1>3. Carried => ResultsCarried
  <2>. SUFFICES ASSUME Carried, NEW l \in Leagues, NEW p \in Players, row[l][p] # None, <<l, p>> \notin lost
                PROVE  /\ row[l][p].won = UNION {{m \in MatchesOf(s, "COMPLETED") : s = l \/ ~match[m].late} :
                                                    s \in Seasons(l)}
                       /\ row[l][p].taxed => league[l].status = "ARCHIVED"
    BY DEF ResultsCarried
  <2>1. Holds(l, p)
    BY DEF Carried
  <2>2. row[l][p].won = Results(l) /\ (row[l][p].taxed => league[l].status = "ARCHIVED")
    BY <2>1 DEF Holds
  <2>. DEFINE U == UNION {{m \in MatchesOf(s, "COMPLETED") : s = l \/ ~match[m].late} : s \in Seasons(l)}
  <2>. HIDE DEF Seasons
  <2>3. ASSUME NEW m \in Results(l) PROVE m \in U
    BY <2>3 DEF Results, MatchesOf
  <2>4. ASSUME NEW m \in U PROVE m \in Results(l)
    BY <2>4 DEF Results, MatchesOf
  <2>5. U = Results(l)
    BY <2>3, <2>4
  <2>. QED
    BY <2>2, <2>5
<1>. QED
  BY <1>1, <1>2, <1>3, SeasonInvariant, PTL DEF Spec

-----------------------------------------------------------------------------
(* No day is paid for twice.                                                *)

(* A day is settled for a row when the next pass of pending days does not   *)
(* charge it, or charges it nothing.                                        *)
Settled(x, d) == (x.activity # None /\ d <= x.activity) \/ (x.last # None /\ d <= x.last)
Before(r, x) == \A d \in Days : r.paid[d] > 0 => Settled(x, d)
Past(x) == (x.activity # None => x.activity <= today) /\ (x.last # None => x.last <= today)

(* What the row paid was within the grace and the day's cost.               *)
Earned(r, l, p) ==
    \A d \in Days : r.paid[d] > 0 =>
        \E preset \in Presets :
            /\ \E k \in DayCosts(Settings[preset]) : r.paid[d] <= k
            /\ \A played \in Played(l, p) :
                   d > played => \E g \in Graces(Settings[preset]) : d - played > g
Backed(r, l, p) == Earned(r, l, p) /\ Before(r, row[l][p])

(* What the rows in hand are made of: the stored one, the one a view or the *)
(* batch is about to write, a completion's, and a rollover's.               *)
RowFair(l, p) ==
    IF row[l][p] = None THEN Played(l, p) = {}
    ELSE /\ Past(row[l][p]) /\ Backed(row[l][p], l, p)
         /\ \A day \in Played(l, p) : row[l][p].activity # None /\ day <= row[l][p].activity

HeldFair(r, l, p) ==
    /\ Past(r) /\ Earned(r, l, p) /\ Before(r, r)
    /\ r.last # None /\ r.activity # None
    /\ row[l][p].activity # None /\ r.activity <= row[l][p].activity

CompletingFair(r, l, p, caught) ==
    IF caught
    THEN IF row[l][p] = None THEN r = DefaultRow
         ELSE /\ Past(r) /\ Earned(r, l, p) /\ Before(r, r)
              /\ r.activity = row[l][p].activity
              /\ \A d \in Days : Settled(row[l][p], d) => Settled(r, d)
    ELSE Backed(r, l, p)

ConfirmedFair(r, l, p) == Past(r) /\ Before(r, r) /\ Backed(r, l, p)

VisitFair(v, l, p) ==
    /\ v.op = "catchup" /\ v.league = l /\ v.player = p => HeldFair(v.rows[p], l, p)
    /\ v.op = "complete" /\ v.league = l => CompletingFair(v.rows[p], l, p, p \in v.caught)
BatchFair(b, l, p) == b.league = l /\ b.player = p => HeldFair(b.held, l, p)
MatchFair(m, l, p) == match[m].status = "COMPLETED" /\ match[m].league = l => Backed(match[m].snap[p], l, p)
ConfirmFair(l, p) ==
    confirm # NoConfirm =>
        (draft[confirm.draft].source = l /\ confirm.rows[p] # None => ConfirmedFair(confirm.rows[p], l, p))

FairAt(l, p) ==
    /\ RowFair(l, p)
    /\ \A t \in Visits : VisitFair(visit[t], l, p)
    /\ \A b \in Batches : BatchFair(batch[b], l, p)
    /\ \A m \in Matches : MatchFair(m, l, p)
    /\ ConfirmFair(l, p)

Fair ==
    /\ \A b \in Batches : batch[b].now <= today
    /\ \A l \in Leagues, p \in Players : <<l, p>> \notin lost \cup redated => FairAt(l, p)

(* The days played, and paid for.                                           *)
LEMMA PlayedAre ==
    ASSUME IInv, NEW l \in Leagues, NEW p \in Players
    PROVE  \A d \in Played(l, p) : d \in Days /\ d <= today
<1>. SUFFICES ASSUME NEW m \in Matches, match[m].day # None
              PROVE  match[m].day \in Days /\ match[m].day <= today
  BY DEF Played
<1>1. match[m] \in MatchRows /\ MatchSound(m)
  BY DEF IInv, TypeOK, Sound
<1>. QED
  BY <1>1 DEF MatchRows, MatchSound

LEMMA PaidBy ==
    ASSUME NEW r \in Rows, NEW x \in Rows, Before(r, x), Past(x), today \in Days
    PROVE  \A d \in Days : r.paid[d] > 0 => d <= today
<1>1. x.activity \in Days \cup {None} /\ x.last \in Days \cup {None}
  BY DEF Rows
<1>2. \A d \in Days : d \in Int
  BY DEF Days
<1>. QED
  BY <1>1, <1>2 DEF Before, Past, Settled

(* A game more, today, is after every day paid for.                         *)
LEMMA EarnedKept ==
    ASSUME IInv, NEW l \in Leagues, NEW p \in Players, NEW r \in Rows, Earned(r, l, p),
           Played(l, p)' \subseteq Played(l, p) \cup {today},
           \A d \in Days : r.paid[d] > 0 => d <= today
    PROVE  Earned(r, l, p)'
<1>1. today \in Int /\ \A d \in Days : d \in Int
  BY DEF IInv, TypeOK, Days
<1>2. PICK S, T : S = Played(l, p) /\ T = Played(l, p)'
  OBVIOUS
<1>. SUFFICES ASSUME NEW d \in Days, r.paid[d] > 0
              PROVE  \E preset \in Presets :
                        /\ \E k \in DayCosts(Settings[preset]) : r.paid[d] <= k
                        /\ \A played \in T :
                              d > played => \E g \in Graces(Settings[preset]) : d - played > g
  BY <1>2 DEF Earned
<1>3. PICK preset \in Presets :
         /\ \E k \in DayCosts(Settings[preset]) : r.paid[d] <= k
         /\ \A played \in S : d > played => \E g \in Graces(Settings[preset]) : d - played > g
  BY <1>2 DEF Earned
<1>4. ASSUME NEW played \in T, d > played
      PROVE  \E g \in Graces(Settings[preset]) : d - played > g
  <2>1. played # today
    BY <1>1, <1>4
  <2>2. played \in S
    BY <1>2, <2>1
  <2>. QED
    BY <1>3, <1>4, <2>2
<1>. QED
  BY <1>3, <1>4

(* A pass charges each day once, and none within the grace.                 *)
LEMMA ChargedFair ==
    ASSUME IInv, NEW l \in Leagues, NEW p \in Players, NEW r \in Rows, NEW y \in Rows,
           NEW now \in Days, now <= today, NEW preset \in Presets,
           r.activity \in Days, From(r) \in Days, From(r) < now,
           PaysFor(y, r, Settings[preset], now), y.activity = r.activity, y.last = now,
           Past(r), Earned(r, l, p), Before(r, r), \A day \in Played(l, p) : day <= r.activity
    PROVE  /\ Past(y) /\ Earned(y, l, p) /\ Before(y, y)
           /\ \A d \in Days : Settled(r, d) => Settled(y, d)
<1>1. /\ today \in Int /\ now \in Int /\ r.activity \in Int /\ From(r) \in Int
      /\ (r.last # None => r.last \in Int) /\ \A d \in Days : d \in Int
  BY DEF IInv, TypeOK, Days, Rows
<1>2. r.activity # None /\ now # None
  BY Apart
<1>3. r.last # None => From(r) = r.last
  BY DEF From
<1>4. \A d \in Days : y.paid[d] \in Nat /\ r.paid[d] \in Nat
  BY DEF Rows
<1>5. Past(y)
  BY <1>1, <1>2 DEF Past
<1>6. \A d \in Days : Settled(r, d) => Settled(y, d)
  BY <1>1, <1>2, <1>3 DEF Settled
<1>7. ASSUME NEW d \in Days, y.paid[d] # r.paid[d]
      PROVE  /\ d <= now /\ r.paid[d] = 0
             /\ \E k \in DayCosts(Settings[preset]) : y.paid[d] <= k
             /\ \E g \in Graces(Settings[preset]) : g \in Nat /\ d - r.activity > g
  <2>1. From(r) < d /\ d <= now
    BY <1>7 DEF PaysFor
  <2>2. PICK k \in DayCosts(Settings[preset]) : k \in Nat /\ y.paid[d] <= r.paid[d] + k
    BY <1>7 DEF PaysFor
  <2>3. PICK g \in Graces(Settings[preset]) : g \in Nat /\ d - r.activity > g
    BY <1>7 DEF PaysFor
  <2>4. ~(d <= r.activity)
    BY <1>1, <2>3
  <2>5. ~Settled(r, d)
    BY <1>1, <1>3, <2>1, <2>4 DEF Settled
  <2>6. r.paid[d] = 0
    <3>1. ~(r.paid[d] > 0)
      BY <2>5 DEF Before
    <3>. QED
      BY <1>4, <3>1
  <2>7. y.paid[d] <= k
    BY <1>4, <2>2, <2>6
  <2>. QED
    BY <2>1, <2>3, <2>6, <2>7
<1>8. Before(y, y)
  <2>. SUFFICES ASSUME NEW d \in Days, y.paid[d] > 0 PROVE Settled(y, d)
    BY DEF Before
  <2>1. CASE y.paid[d] = r.paid[d]
    BY <1>6, <2>1 DEF Before
  <2>2. CASE y.paid[d] # r.paid[d]
    BY <1>2, <1>7, <2>2 DEF Settled
  <2>. QED
    BY <2>1, <2>2
<1>9. Earned(y, l, p)
  <2>. SUFFICES ASSUME NEW d \in Days, y.paid[d] > 0
                PROVE  \E s \in Presets :
                          /\ \E k \in DayCosts(Settings[s]) : y.paid[d] <= k
                          /\ \A played \in Played(l, p) :
                                d > played => \E g \in Graces(Settings[s]) : d - played > g
    BY DEF Earned
  <2>1. CASE y.paid[d] = r.paid[d]
    <3>1. r.paid[d] > 0
      BY <2>1
    <3>2. PICK s \in Presets :
             /\ \E k \in DayCosts(Settings[s]) : r.paid[d] <= k
             /\ \A played \in Played(l, p) : d > played => \E g \in Graces(Settings[s]) : d - played > g
      BY <3>1 DEF Earned
    <3>. QED
      BY <2>1, <3>2
  <2>2. CASE y.paid[d] # r.paid[d]
    <3>1. PICK k \in DayCosts(Settings[preset]) : y.paid[d] <= k
      BY <1>7, <2>2
    <3>2. PICK g \in Graces(Settings[preset]) : g \in Nat /\ d - r.activity > g
      BY <1>7, <2>2
    <3>3. ASSUME NEW played \in Played(l, p) PROVE d - played > g
      <4>1. played \in Days /\ played <= r.activity
        BY PlayedAre
      <4>. QED
        BY <1>1, <3>2, <4>1
    <3>. QED
      BY <3>1, <3>2, <3>3
  <2>. QED
    BY <2>1, <2>2
<1>. QED
  BY <1>5, <1>6, <1>8, <1>9

-----------------------------------------------------------------------------
(* Who takes something in hand.                                             *)

LEMMA NextVisits ==
    ASSUME IInv, [Next]_vars, NEW t \in Visits, visit'[t] # visit[t], visit'[t].op \in {"catchup", "complete"}
    PROVE  \/ \E l \in Leagues : \E p \in Players : CatchUpLoad(t, l, p)
           \/ \E m \in Matches, q \in SUBSET Players : CompleteLoad(t, m, q)
<1>1. TypeOK
  BY DEF IInv
<1>2. visit' # visit
  OBVIOUS
<1>3. CASE Restart
  BY <1>3, NoVisitIs DEF Restart
<1>4. CASE \E m \in Matches : CancelMatch(m)
  BY <1>2, <1>4 DEF CancelMatch
<1>5. ~((\E b \in Batches : BatchStep(b)) \/ StaffStep \/ SyncStep \/ NextDay \/ UNCHANGED vars)
  BY <1>2, OthersLeaveVisits
<1>6. ASSUME NEW u \in Visits, VisitStep(u) PROVE u = t /\ VisitStep(t)
  <2>1. \E v : visit' = [visit EXCEPT ![u] = v]
    BY <1>6 DEF VisitStep, CatchUpLoad, CatchUpStore, CreateLook, CreateMatch, CompleteLoad, CompleteStore,
                CorrectLook, VoidMatch, NotifyLeagueRatingChanged, FlipMatch, Refused
  <2>. QED
    BY <1>1, <1>6, <2>1 DEF TypeOK
<1>7. CASE VisitStep(t)
  <2>1. CASE \/ CatchUpStore(t) \/ (\E m \in Matches : CreateMatch(t, m)) \/ CompleteStore(t)
             \/ NotifyLeagueRatingChanged(t) \/ FlipMatch(t) \/ Refused(t)
    <3>1. visit' = [visit EXCEPT ![t] = NoVisit]
      BY <2>1 DEF CatchUpStore, CreateMatch, CompleteStore, NotifyLeagueRatingChanged, FlipMatch, Refused
    <3>. QED
      BY <1>1, <3>1, NoVisitIs DEF TypeOK
  <2>2. ASSUME NEW l \in Leagues, CreateLook(t, l) PROVE FALSE
    <3>1. PICK v : v = [NoVisit EXCEPT !.op = "create", !.league = l]
      OBVIOUS
    <3>2. v.op = "create"
      BY <3>1, NoVisitIs DEF Visitors
    <3>. QED
      BY <1>1, <2>2, <3>1, <3>2 DEF CreateLook, TypeOK
  <2>3. ASSUME NEW m \in Matches, NEW op \in {"flip", "void"}, CorrectLook(t, m, op) PROVE FALSE
    <3>1. PICK v : v = [NoVisit EXCEPT !.op = op, !.league = match[m].league, !.match = m]
      OBVIOUS
    <3>2. v.op = op
      BY <3>1, NoVisitIs DEF Visitors
    <3>. QED
      BY <1>1, <2>3, <3>1, <3>2 DEF CorrectLook, TypeOK
  <2>4. CASE VoidMatch(t)
    <3>1. PICK v : v = [visit[t] EXCEPT !.op = "notify"]
      OBVIOUS
    <3>2. v.op = "notify"
      BY <1>1, <3>1 DEF TypeOK, Visitors
    <3>. QED
      BY <1>1, <2>4, <3>1, <3>2 DEF VoidMatch, TypeOK
  <2>. QED
    BY <1>7, <2>1, <2>2, <2>3, <2>4 DEF VisitStep
<1>. QED
  BY <1>3, <1>4, <1>5, <1>6, <1>7 DEF Next

LEMMA NextBatches ==
    ASSUME IInv, [Next]_vars, NEW b \in Batches, batch[b].now <= today
    PROVE  /\ batch'[b].now <= today
           /\ \/ batch'[b].player = None
              \/ /\ batch'[b].player = batch[b].player /\ batch'[b].league = batch[b].league
                 /\ batch'[b].held = batch[b].held
              \/ \E p \in Players : BatchLoad(b, p)
<1>1. TypeOK
  BY DEF IInv
<1>2. today \in Int /\ 0 <= today
  BY <1>1 DEF TypeOK, Days
<1>3. NoBatch.player = None /\ NoBatch.now = 0 /\ NoBatch \in Ticks
  BY NoBatchIs DEF NoBatch
<1>4. CASE Restart
  BY <1>2, <1>3, <1>4 DEF Restart
<1>5. CASE batch' = batch
  BY <1>5
<1>6. ASSUME NEW c \in Batches, BatchStep(c), c # b PROVE batch'[b] = batch[b]
  <2>1. \E x : batch' = [batch EXCEPT ![c] = x]
    BY <1>6 DEF BatchStep, BatchStart, BatchLeague, BatchLoad, BatchStore, BatchLeagueDone, BatchFails
  <2>. QED
    BY <1>1, <1>6, <2>1 DEF TypeOK
<1>7. PICK o \in Ticks : o = batch[b]
  BY <1>1 DEF TypeOK
<1>8. \A x : batch' = [batch EXCEPT ![b] = x] => batch'[b] = x
  BY <1>1 DEF TypeOK
<1>9. CASE BatchStep(b)
  <2>1. CASE BatchStart(b)
    <3>1. PICK x : x = [NoBatch EXCEPT !.on = TRUE, !.now = today,
                        !.leagues = {l \in Leagues : league[l].status = "ACTIVE" /\ league[l].decay}]
      OBVIOUS
    <3>2. x.player = None /\ x.now = today
      BY <1>3, <3>1 DEF Ticks
    <3>3. batch'[b] = x
      BY <1>8, <2>1, <3>1 DEF BatchStart
    <3>. QED
      BY <1>2, <3>2, <3>3
  <2>2. ASSUME NEW l \in Leagues, BatchLeague(b, l)
        PROVE  batch'[b].now = o.now /\ batch'[b].player = o.player /\ batch[b].league = None
    <3>1. PICK s : s = {p \in Players : IF row[l][p] = None THEN FALSE ELSE row[l][p].activity # None}
      OBVIOUS
    <3>2. PICK x : x = [o EXCEPT !.leagues = o.leagues \ {l}, !.league = l, !.todo = s]
      OBVIOUS
    <3>3. x.player = o.player /\ x.now = o.now
      BY <3>2 DEF Ticks
    <3>4. batch'[b] = x
      BY <1>7, <1>8, <2>2, <3>1, <3>2 DEF BatchLeague
    <3>. QED
      BY <2>2, <3>3, <3>4 DEF BatchLeague
  <2>3. ASSUME NEW l \in Leagues, BatchLeague(b, l)
        PROVE  batch'[b].now <= today /\ batch'[b].player = None
    <3>1. o.player # None => o.league # None
      BY <1>7 DEF IInv, Sound, BatchSound
    <3>. QED
      BY <1>7, <2>2, <2>3, <3>1
  <2>4. ASSUME NEW p \in Players, BatchLoad(b, p) PROVE batch'[b].now <= today
    <3>1. PICK x \in Ticks : batch' = [batch EXCEPT ![b] = x] /\ x.now = batch[b].now
      BY <2>4, BatchLoadIs
    <3>. QED
      BY <1>8, <3>1
  <2>5. CASE BatchStore(b)
    <3>1. PICK x : x = [o EXCEPT !.player = None, !.held = None, !.hit = TRUE]
      OBVIOUS
    <3>2. x.player = None /\ x.now = o.now
      BY <3>1 DEF Ticks
    <3>3. batch'[b] = x
      BY <1>7, <1>8, <2>5, <3>1 DEF BatchStore
    <3>. QED
      BY <1>7, <3>2, <3>3
  <2>6. CASE BatchLeagueDone(b)
    <3>1. PICK x : x = [o EXCEPT !.league = None, !.hit = FALSE]
      OBVIOUS
    <3>2. x.player = o.player /\ x.now = o.now /\ o.player = None
      BY <1>7, <2>6, <3>1 DEF Ticks, BatchLeagueDone
    <3>3. batch'[b] = x \/ batch'[b] = NoBatch
      BY <1>7, <1>8, <2>6, <3>1 DEF BatchLeagueDone
    <3>. QED
      BY <1>2, <1>3, <1>7, <3>2, <3>3
  <2>7. CASE BatchFails(b)
    BY <1>2, <1>3, <1>8, <2>7 DEF BatchFails
  <2>. QED
    BY <1>9, <2>1, <2>3, <2>4, <2>5, <2>6, <2>7 DEF BatchStep
<1>10. CASE (\E t \in Visits : VisitStep(t)) \/ (\E m \in Matches : CancelMatch(m)) \/ StaffStep \/ SyncStep
            \/ NextDay \/ UNCHANGED vars
  <2>1. batch' = batch
    <3>1. ASSUME NEW t \in Visits, VisitStep(t) PROVE batch' = batch
      BY <3>1 DEF VisitStep, CatchUpLoad, CatchUpStore, CreateLook, CreateMatch, CompleteLoad, CompleteStore,
                  CorrectLook, VoidMatch, NotifyLeagueRatingChanged, FlipMatch, Refused
    <3>2. ASSUME NEW l \in Leagues,
                 \/ SetLeagueSeasonEndsAt(l) \/ ClearLeagueSeasonEndsAt(l) \/ StartLeagueCrunch(l)
                 \/ ClearLeagueCrunch(l) \/ SetDecayEnabled(l) \/ ApplyDecayPreset(l) \/ ClearDecayModeSetting(l)
                 \/ SetHeroChampionRolesEnabled(l) \/ SetHeroChampionRole(l)
          PROVE  batch' = batch
      BY <3>2 DEF SetLeagueSeasonEndsAt, ClearLeagueSeasonEndsAt, StartLeagueCrunch, ClearLeagueCrunch,
                  SetDecayEnabled, ApplyDecayPreset, ClearDecayModeSetting, SetHeroChampionRolesEnabled,
                  SetHeroChampionRole, Configured
    <3>3. CASE StaffStep
      BY <3>2, <3>3 DEF StaffStep, CreateLeague, BindChannel, UnbindChannel, BindEvent, UnbindEvent,
                        PreviewLeagueRollover, CancelLeagueRolloverDraft, RolloverLoad, RolloverCommit, RolloverRefused
    <3>4. CASE (\E m \in Matches : CancelMatch(m)) \/ SyncStep \/ NextDay \/ UNCHANGED vars
      BY <3>4 DEF CancelMatch, SyncStep, SyncTick, SyncHeroChampionRoles, SyncDone, SyncFails, NextDay, vars
    <3>. QED
      BY <1>10, <3>1, <3>3, <3>4
  <2>. QED
    BY <1>5, <2>1
<1>. QED
  BY <1>4, <1>5, <1>6, <1>9, <1>10 DEF Next

LEMMA NextConfirm ==
    ASSUME [Next]_vars
    PROVE  \/ confirm' = NoConfirm
           \/ confirm' = confirm /\ draft' = draft
           \/ \E d \in Drafts : RolloverLoad(d)
<1>. DEFINE Same == confirm' = NoConfirm \/ (confirm' = confirm /\ draft' = draft)
<1>1. ASSUME NEW t \in Visits, VisitStep(t) PROVE Same
  BY <1>1 DEF VisitStep, CatchUpLoad, CatchUpStore, CreateLook, CreateMatch, CompleteLoad, CompleteStore,
              CorrectLook, VoidMatch, NotifyLeagueRatingChanged, FlipMatch, Refused, tenancy
<1>2. ASSUME NEW b \in Batches, BatchStep(b) PROVE Same
  BY <1>2 DEF BatchStep, BatchStart, BatchLeague, BatchLoad, BatchStore, BatchLeagueDone, BatchFails, tenancy
<1>3. ASSUME NEW l \in Leagues,
             \/ SetLeagueSeasonEndsAt(l) \/ ClearLeagueSeasonEndsAt(l) \/ StartLeagueCrunch(l)
             \/ ClearLeagueCrunch(l) \/ SetDecayEnabled(l) \/ ApplyDecayPreset(l) \/ ClearDecayModeSetting(l)
             \/ SetHeroChampionRolesEnabled(l) \/ SetHeroChampionRole(l)
      PROVE  Same
  BY <1>3 DEF SetLeagueSeasonEndsAt, ClearLeagueSeasonEndsAt, StartLeagueCrunch, ClearLeagueCrunch,
              SetDecayEnabled, ApplyDecayPreset, ClearDecayModeSetting, SetHeroChampionRolesEnabled,
              SetHeroChampionRole, Configured
<1>4. ASSUME StaffStep, ~\E d \in Drafts : RolloverLoad(d) PROVE Same
  BY <1>3, <1>4 DEF StaffStep, CreateLeague, BindChannel, UnbindChannel, BindEvent, UnbindEvent, Command,
                    PreviewLeagueRollover, CancelLeagueRolloverDraft, RolloverCommit, RolloverRefused, tenancy
<1>5. CASE (\E m \in Matches : CancelMatch(m)) \/ SyncStep \/ NextDay \/ Restart \/ UNCHANGED vars
  BY <1>5 DEF CancelMatch, SyncStep, SyncTick, SyncHeroChampionRoles, SyncDone, SyncFails, NextDay, Restart,
              vars, tenancy
<1>. QED
  BY <1>1, <1>2, <1>4, <1>5 DEF Next

(* A game is played when its match is completed, and stays played.          *)
SameGames ==
    \A m \in Matches :
        /\ match'[m].day = match[m].day
        /\ match[m].day # None => /\ match'[m].league = match[m].league /\ match'[m].quit = match[m].quit
                                  /\ match'[m].late = match[m].late

LEMMA SamePlayed ==
    ASSUME SameGames, SeasonsStay, NEW l \in Leagues, NEW p \in Players
    PROVE  Played(l, p)' = Played(l, p)
<1>1. PICK ss : ss = Seasons(l) /\ ss = Seasons(l)'
  BY SeasonsKept DEF SeasonsStay
<1>2. Played(l, p) = {match[m].day : m \in {x \in Matches : /\ match[x].league \in ss /\ ~match[x].late
                                                           /\ match[x].day # None /\ p \notin match[x].quit}}
  BY <1>1 DEF Played
<1>3. Played(l, p)' = {match'[m].day : m \in {x \in Matches : /\ match'[x].league \in ss /\ ~match'[x].late
                                                             /\ match'[x].day # None /\ p \notin match'[x].quit}}
  BY <1>1 DEF Played
<1>4. ASSUME NEW m \in Matches
      PROVE  (/\ match[m].league \in ss /\ ~match[m].late /\ match[m].day # None /\ p \notin match[m].quit)
             <=> (/\ match'[m].league \in ss /\ ~match'[m].late /\ match'[m].day # None /\ p \notin match'[m].quit)
  BY DEF SameGames
<1>5. ASSUME NEW d \in Played(l, p) PROVE d \in Played(l, p)'
  BY <1>2, <1>3, <1>4, <1>5 DEF SameGames
<1>6. ASSUME NEW d \in Played(l, p)' PROVE d \in Played(l, p)
  BY <1>2, <1>3, <1>4, <1>6 DEF SameGames
<1>. QED
  BY <1>5, <1>6

LEMMA NextGames ==
    ASSUME IInv, [Next]_vars, ~\E t \in Visits : CompleteStore(t)
    PROVE  SameGames
<1>1. TypeOK /\ Sound
  BY DEF IInv
<1>2. match' = match => SameGames
  BY DEF SameGames
<1>3. ASSUME NEW t \in Visits, VisitStep(t) PROVE SameGames
  <2>1. ASSUME NEW m \in Matches, CreateMatch(t, m) PROVE SameGames
    <3>1. PICK x : x = [NoMatch EXCEPT !.status = "ACTIVE", !.league = visit[t].league,
                                       !.late = ~IsLeagueWritable(visit[t].league)]
      OBVIOUS
    <3>2. x.day = None
      BY <3>1 DEF NoMatch
    <3>3. match[m].day = None
      BY <1>1, <2>1 DEF CreateMatch, Sound, MatchSound
    <3>4. \A k \in Matches : match'[k] = IF k = m THEN x ELSE match[k]
      BY <1>1, <2>1, <3>1 DEF CreateMatch, TypeOK
    <3>. QED
      BY <3>2, <3>3, <3>4 DEF SameGames
  <2>2. CASE VoidMatch(t)
    <3>1. PICK l, m : l = visit[t].league /\ m = visit[t].match
      OBVIOUS
    <3>2. /\ match[m].league = l
          /\ \A k \in Matches : k # m => match'[k] = match[k]
          /\ match'[m].league = l /\ match'[m].day = match[m].day
          /\ match'[m].late = match[m].late /\ match'[m].quit = match[m].quit
      BY <2>2, <3>1, VoidMatchIs
    <3>. QED
      BY <3>2 DEF SameGames
  <2>3. CASE ~VoidMatch(t) /\ ~\E m \in Matches : CreateMatch(t, m)
    <3>1. match' = match
      BY <1>3, <2>3 DEF VisitStep, CatchUpLoad, CatchUpStore, CreateLook, CompleteLoad, CorrectLook,
                        NotifyLeagueRatingChanged, FlipMatch, Refused
    <3>. QED
      BY <1>2, <3>1
  <2>. QED
    BY <2>1, <2>2, <2>3
<1>4. ASSUME NEW m \in Matches, CancelMatch(m) PROVE SameGames
  <2>1. PICK x : x = [match[m] EXCEPT !.status = "CANCELLED"]
    OBVIOUS
  <2>2. x.day = match[m].day /\ x.league = match[m].league /\ x.late = match[m].late /\ x.quit = match[m].quit
    BY <1>1, <2>1 DEF TypeOK, MatchRows
  <2>3. \A k \in Matches : match'[k] = IF k = m THEN x ELSE match[k]
    BY <1>1, <1>4, <2>1 DEF CancelMatch, TypeOK
  <2>. QED
    BY <2>2, <2>3 DEF SameGames
<1>5. CASE (\E b \in Batches : BatchStep(b)) \/ StaffStep \/ SyncStep \/ NextDay \/ UNCHANGED vars
  BY <1>2, <1>5, OthersLeaveVisits
<1>6. CASE Restart
  BY <1>2, <1>6 DEF Restart
<1>. QED
  BY <1>3, <1>4, <1>5, <1>6 DEF Next

LEMMA NextToday ==
    ASSUME IInv, [Next]_vars
    PROVE  today' = today \/ today' = today + 1
<1>1. ASSUME NEW t \in Visits, VisitStep(t) PROVE today' = today
  BY <1>1 DEF VisitStep, CatchUpLoad, CatchUpStore, CreateLook, CreateMatch, CompleteLoad, CompleteStore,
              CorrectLook, VoidMatch, NotifyLeagueRatingChanged, FlipMatch, Refused
<1>2. ASSUME NEW b \in Batches, BatchStep(b) PROVE today' = today
  BY <1>2 DEF BatchStep, BatchStart, BatchLeague, BatchLoad, BatchStore, BatchLeagueDone, BatchFails
<1>3. ASSUME NEW l \in Leagues,
             \/ SetLeagueSeasonEndsAt(l) \/ ClearLeagueSeasonEndsAt(l) \/ StartLeagueCrunch(l)
             \/ ClearLeagueCrunch(l) \/ SetDecayEnabled(l) \/ ApplyDecayPreset(l) \/ ClearDecayModeSetting(l)
             \/ SetHeroChampionRolesEnabled(l) \/ SetHeroChampionRole(l)
      PROVE  today' = today
  BY <1>3 DEF SetLeagueSeasonEndsAt, ClearLeagueSeasonEndsAt, StartLeagueCrunch, ClearLeagueCrunch,
              SetDecayEnabled, ApplyDecayPreset, ClearDecayModeSetting, SetHeroChampionRolesEnabled,
              SetHeroChampionRole, Configured
<1>4. CASE StaffStep
  BY <1>3, <1>4 DEF StaffStep, CreateLeague, BindChannel, UnbindChannel, BindEvent, UnbindEvent,
                    PreviewLeagueRollover, CancelLeagueRolloverDraft, RolloverLoad, RolloverCommit, RolloverRefused
<1>5. CASE (\E m \in Matches : CancelMatch(m)) \/ SyncStep \/ NextDay \/ Restart \/ UNCHANGED vars
  BY <1>5 DEF CancelMatch, SyncStep, SyncTick, SyncHeroChampionRoles, SyncDone, SyncFails, NextDay, Restart, vars
<1>. QED
  BY <1>1, <1>2, <1>4, <1>5 DEF Next

(* A stored row settles ever more days, and its activity moves on.          *)
RowGrows(l, p) ==
    row[l][p] # None =>
        /\ row'[l][p] # None
        /\ \A d \in Days : Settled(row[l][p], d) => Settled(row'[l][p], d)
        /\ row[l][p].activity # None =>
              row'[l][p].activity # None /\ row[l][p].activity <= row'[l][p].activity
PlayedGrows(l, p) == Played(l, p)' \subseteq Played(l, p) \cup {today}

LEMMA BackedKept ==
    ASSUME IInv, NEW l \in Leagues, NEW p \in Players, NEW r \in Rows, row[l][p] # None, Past(row[l][p]),
           Backed(r, l, p), RowGrows(l, p), PlayedGrows(l, p)
    PROVE  Backed(r, l, p)'
<1>1. row[l][p] \in Rows /\ today \in Days
  BY RowIs DEF IInv
<1>2. \A d \in Days : r.paid[d] > 0 => d <= today
  BY <1>1, PaidBy DEF Backed
<1>3. Earned(r, l, p)'
  BY <1>2, EarnedKept DEF Backed, PlayedGrows
<1>4. Before(r, row'[l][p])
  BY DEF Backed, Before, RowGrows
<1>. QED
  BY <1>3, <1>4 DEF Backed, Before, Settled

LEMMA PastKept ==
    ASSUME TypeOK, TypeOK', today <= today', NEW r \in Rows, Past(r)
    PROVE  Past(r)'
<1>1. /\ today \in Int /\ today' \in Int
      /\ (r.activity # None => r.activity \in Int) /\ (r.last # None => r.last \in Int)
  BY DEF TypeOK, Days, Rows
<1>. QED
  BY <1>1 DEF Past

LEMMA HeldKept ==
    ASSUME IInv, IInv', today <= today', NEW l \in Leagues, NEW p \in Players, NEW r \in Rows, row[l][p] # None,
           HeldFair(r, l, p), RowGrows(l, p), PlayedGrows(l, p)
    PROVE  HeldFair(r, l, p)'
<1>1. row[l][p] \in Rows /\ today \in Days /\ row'[l][p] \in Rows
  <2>1. row'[l][p] \in Rows \cup {None}
    BY DEF IInv, TypeOK
  <2>. QED
    BY <2>1, RowIs DEF IInv, RowGrows
<1>2. \A d \in Days : r.paid[d] > 0 => d <= today
  BY <1>1, PaidBy DEF HeldFair
<1>3. Earned(r, l, p)'
  BY <1>2, EarnedKept DEF HeldFair, PlayedGrows
<1>4. Past(r)'
  BY PastKept DEF HeldFair, IInv
<1>5. Before(r, r)'
  BY DEF HeldFair, Before, Settled
<1>6. row'[l][p].activity # None /\ r.activity <= row'[l][p].activity
  <2>1. /\ row[l][p].activity # None /\ r.activity # None /\ r.activity <= row[l][p].activity
        /\ row'[l][p].activity # None /\ row[l][p].activity <= row'[l][p].activity
    BY DEF HeldFair, RowGrows
  <2>2. row[l][p].activity \in Int /\ r.activity \in Int /\ row'[l][p].activity \in Int
    BY <1>1, <2>1 DEF Rows, Days
  <2>. QED
    BY <2>1, <2>2
<1>. QED
  BY <1>3, <1>4, <1>5, <1>6 DEF HeldFair

(* Nobody else writes a row that a completion holds.                        *)
LEMMA CompletingKept ==
    ASSUME IInv, IInv', today <= today', NEW l \in Leagues, NEW p \in Players, NEW r \in Rows,
           NEW v \in Visitors, r = v.rows[p], CompletingFair(r, l, p, p \in v.caught),
           row[l][p] = None => p \in v.caught, p \in v.caught => row'[l][p] = row[l][p],
           row[l][p] # None => Past(row[l][p]), RowGrows(l, p), PlayedGrows(l, p)
    PROVE  CompletingFair(r, l, p, p \in v.caught)'
<1>1. today \in Days
  BY DEF IInv, TypeOK
<1>2. CASE p \notin v.caught
  <2>1. Backed(r, l, p)'
    BY <1>2, BackedKept DEF CompletingFair
  <2>. QED
    BY <1>2, <2>1 DEF CompletingFair
<1>3. CASE p \in v.caught /\ row[l][p] = None
  BY <1>3 DEF CompletingFair
<1>4. CASE p \in v.caught /\ row[l][p] # None
  <2>1. /\ Past(r) /\ Earned(r, l, p) /\ Before(r, r)
        /\ r.activity = row[l][p].activity
        /\ \A d \in Days : Settled(row[l][p], d) => Settled(r, d)
    BY <1>4 DEF CompletingFair
  <2>2. \A d \in Days : r.paid[d] > 0 => d <= today
    BY <1>1, <2>1, PaidBy
  <2>3. Earned(r, l, p)'
    BY <2>1, <2>2, EarnedKept DEF PlayedGrows
  <2>4. Past(r)'
    BY <2>1, PastKept DEF IInv
  <2>5. Before(r, r)'
    BY <2>1 DEF Before, Settled
  <2>6. row'[l][p] # None /\ r.activity = row'[l][p].activity
    BY <1>4, <2>1
  <2>7. \A d \in Days : Settled(row'[l][p], d) => Settled(r, d)
    BY <1>4, <2>1
  <2>. QED
    BY <1>4, <2>3, <2>4, <2>5, <2>6, <2>7 DEF CompletingFair, Settled
<1>. QED
  BY <1>2, <1>3, <1>4

(* What is in hand stays fair while the stored row grows.                   *)
LEMMA VisitsKept ==
    ASSUME IInv, IInv', today <= today', NEW l \in Leagues, NEW p \in Players, NEW t \in Visits,
           visit'[t] = visit[t], VisitFair(visit[t], l, p),
           visit[t].op = "complete" /\ visit[t].league = l /\ p \in visit[t].caught => row'[l][p] = row[l][p],
           row[l][p] # None => Past(row[l][p]), RowGrows(l, p), PlayedGrows(l, p)
    PROVE  VisitFair(visit[t], l, p)'
<1>1. PICK v \in Visitors : v = visit[t] /\ v = visit'[t]
  BY DEF IInv, TypeOK
<1>2. VisitSound(v) /\ VisitFair(v, l, p)
  BY <1>1 DEF IInv, Sound
<1>3. PICK r : r = v.rows[p]
  OBVIOUS
<1>4. ASSUME v.op = "catchup", v.league = l, v.player = p PROVE HeldFair(r, l, p)'
  <2>1. r \in Rows /\ row[l][p] # None /\ HeldFair(r, l, p)
    BY <1>2, <1>3, <1>4 DEF VisitSound, VisitFair
  <2>. QED
    BY <2>1, HeldKept
<1>5. ASSUME v.op = "complete", v.league = l PROVE CompletingFair(r, l, p, p \in v.caught)'
  <2>1. r \in Rows /\ (row[l][p] = None => p \in v.caught)
    BY <1>2, <1>3, <1>5 DEF VisitSound
  <2>2. CompletingFair(r, l, p, p \in v.caught)
    BY <1>2, <1>3, <1>5 DEF VisitFair
  <2>3. p \in v.caught => row'[l][p] = row[l][p]
    BY <1>1, <1>5
  <2>. QED
    BY <1>3, <2>1, <2>2, <2>3, CompletingKept
<1>. QED
  BY <1>1, <1>3, <1>4, <1>5 DEF VisitFair

(* What a pass over the stored row puts in hand is fair.                    *)
LEMMA CaughtFair ==
    ASSUME IInv, NEW l \in Leagues, NEW p \in Players, RowFair(l, p), Due(l, p), NEW r, r = Caught(l, p)
    PROVE  /\ r \in Rows /\ HeldFair(r, l, p) /\ r.activity = row[l][p].activity
           /\ \A d \in Days : Settled(row[l][p], d) => Settled(r, d)
<1>1. TypeOK
  BY DEF IInv
<1>2. /\ row[l][p] \in Rows /\ r \in Rows /\ r.activity = row[l][p].activity /\ r.last = today
      /\ row[l][p].activity \in Days /\ From(row[l][p]) \in Days /\ From(row[l][p]) < today
      /\ PaysFor(r, row[l][p], Settings[league[l].preset], today)
  BY <1>1, CaughtIs
<1>3. PICK o \in Rows : o = row[l][p]
  BY <1>2
<1>4. today \in Days /\ today <= today /\ league[l].preset \in Presets
  BY <1>1 DEF TypeOK, LeagueRows, Days
<1>5. o # None /\ today # None /\ o.activity # None
  BY <1>2, <1>3, <1>4, Apart
<1>6. Past(o) /\ Earned(o, l, p) /\ Before(o, o) /\ \A day \in Played(l, p) : day <= o.activity
  BY <1>3, <1>5 DEF RowFair, Backed
<1>7. /\ Past(r) /\ Earned(r, l, p) /\ Before(r, r)
      /\ \A d \in Days : Settled(o, d) => Settled(r, d)
  BY <1>2, <1>3, <1>4, <1>6, ChargedFair
<1>8. o.activity <= o.activity
  BY <1>2, <1>3 DEF Days
<1>. QED
  BY <1>2, <1>3, <1>5, <1>7, <1>8 DEF HeldFair

LEMMA BatchLoadFair ==
    ASSUME IInv, NEW b \in Batches, NEW p \in Players, BatchLoad(b, p), batch[b].now <= today,
           NEW l, l = batch[b].league, RowFair(l, p), batch'[b].player # None
    PROVE  /\ l \in Leagues /\ batch'[b].league = l /\ batch'[b].player = p
           /\ batch'[b].held \in Rows /\ row[l][p] # None /\ HeldFair(batch'[b].held, l, p)
<1>1. TypeOK
  BY DEF IInv
<1>2. PICK x \in Ticks :
         /\ batch' = [batch EXCEPT ![b] = x]
         /\ x.leagues = batch[b].leagues /\ x.league = l /\ x.hit = batch[b].hit
         /\ x.now = batch[b].now /\ l \in Leagues
         /\ \/ x.player = None /\ x.held = None
            \/ /\ x.player = p /\ x.held \in Rows /\ row[l][p] \in Rows
               /\ x.held.won = row[l][p].won /\ x.held.taxed = row[l][p].taxed
               /\ x.held.activity = row[l][p].activity /\ x.held.last = batch[b].now
               /\ row[l][p].activity \in Days /\ From(row[l][p]) \in Days
               /\ From(row[l][p]) < batch[b].now
               /\ PaysFor(x.held, row[l][p], Settings[league[l].preset], batch[b].now)
  BY BatchLoadIs
<1>3. batch'[b] = x /\ x.player # None
  BY <1>1, <1>2 DEF TypeOK
<1>4. PICK r \in Rows, o \in Rows, now \in Days :
         r = x.held /\ o = row[l][p] /\ now = x.now
  BY <1>2, <1>3 DEF Ticks
<1>5. /\ r.activity = o.activity /\ r.last = now /\ now <= today
      /\ o.activity \in Days /\ From(o) \in Days /\ From(o) < now
      /\ PaysFor(r, o, Settings[league[l].preset], now)
  BY <1>2, <1>3, <1>4
<1>6. league[l].preset \in Presets
  BY <1>1, <1>2 DEF TypeOK, LeagueRows
<1>7. o # None /\ now # None /\ o.activity # None
  BY <1>5, Apart
<1>8. Past(o) /\ Earned(o, l, p) /\ Before(o, o) /\ \A day \in Played(l, p) : day <= o.activity
  BY <1>4, <1>7 DEF RowFair, Backed
<1>9. Past(r) /\ Earned(r, l, p) /\ Before(r, r)
  BY <1>2, <1>5, <1>6, <1>8, ChargedFair
<1>10. o.activity <= o.activity
  BY <1>5 DEF Days
<1>11. HeldFair(r, l, p)
  BY <1>4, <1>5, <1>7, <1>9, <1>10 DEF HeldFair
<1>. QED
  BY <1>2, <1>3, <1>4, <1>7, <1>11

LEMMA VisitsFair ==
    ASSUME IInv, IInv', [Next]_vars, today <= today', NEW l \in Leagues, NEW p \in Players,
           RowFair(l, p), \A t \in Visits : VisitFair(visit[t], l, p), RowGrows(l, p), PlayedGrows(l, p),
           \A t \in Visits : visit'[t] = visit[t] /\ visit[t].op = "complete" /\ visit[t].league = l
                             /\ p \in visit[t].caught => row'[l][p] = row[l][p],
           NEW t \in Visits
    PROVE  VisitFair(visit[t], l, p)'
<1>1. TypeOK /\ (row[l][p] # None => Past(row[l][p]))
  BY DEF IInv, RowFair
<1>2. CASE visit'[t] = visit[t]
  BY <1>1, <1>2, VisitsKept
<1>3. CASE visit'[t].op \notin {"catchup", "complete"}
  BY <1>3 DEF VisitFair
<1>4. ASSUME NEW k \in Leagues, NEW q \in Players, CatchUpLoad(t, k, q) PROVE VisitFair(visit[t], l, p)'
  <2>1. PICK rows : rows = [NoVisit.rows EXCEPT ![q] = Caught(k, q)]
    OBVIOUS
  <2>2. PICK v : v = [NoVisit EXCEPT !.op = "catchup", !.league = k, !.player = q, !.rows = rows]
    OBVIOUS
  <2>3. v.op = "catchup" /\ v.league = k /\ v.player = q /\ v.rows = rows
    BY <2>2, NoVisitIs DEF Visitors
  <2>4. visit'[t] = v
    BY <1>1, <1>4, <2>1, <2>2 DEF CatchUpLoad, TypeOK
  <2>5. rows[q] = Caught(k, q)
    BY <2>1, NoVisitIs
  <2>6. PICK r : r = Caught(l, p)
    OBVIOUS
  <2>7. ASSUME k = l, q = p PROVE HeldFair(r, l, p)'
    <3>1. Due(l, p)
      BY <1>4, <2>7 DEF CatchUpLoad
    <3>2. r \in Rows /\ HeldFair(r, l, p)
      BY <2>6, <3>1, CaughtFair
    <3>3. row[l][p] # None
      BY <3>1 DEF Due, Decays
    <3>. QED
      BY <3>2, <3>3, HeldKept
  <2>. QED
    BY <2>3, <2>4, <2>5, <2>6, <2>7 DEF VisitFair
<1>5. ASSUME NEW m \in Matches, NEW q \in SUBSET Players, CompleteLoad(t, m, q)
      PROVE  VisitFair(visit[t], l, p)'
  <2>1. PICK k : k = match[m].league
    OBVIOUS
  <2>2. PICK v \in Visitors :
           /\ visit' = [visit EXCEPT ![t] = v]
           /\ v.op = "complete" /\ v.league = k /\ v.match = m /\ v.quit = q
           /\ v.caught = {x \in Players : row[k][x] = None \/ Due(k, x)}
           /\ \A x \in Players :
                 LET r == row[k][x] IN
                 /\ r = None => v.rows[x] = DefaultRow
                 /\ r # None /\ Due(k, x) => v.rows[x] = Caught(k, x)
                 /\ r # None /\ ~Due(k, x) => v.rows[x] = r
                 /\ v.rows[x] \in Rows
    BY <1>5, <2>1, CompleteLoadIs
  <2>3. visit'[t] = v /\ row' = row
    BY <1>1, <1>5, <2>2 DEF CompleteLoad, TypeOK
  <2>4. PICK r \in Rows : r = v.rows[p]
    BY <2>2
  <2>5. ASSUME k = l PROVE CompletingFair(r, l, p, p \in v.caught)
    <3>1. /\ row[l][p] = None => r = DefaultRow /\ p \in v.caught
          /\ row[l][p] # None /\ Due(l, p) => r = Caught(l, p) /\ p \in v.caught
          /\ row[l][p] # None /\ ~Due(l, p) => r = row[l][p] /\ p \notin v.caught
      BY <2>2, <2>4, <2>5
    <3>2. CASE row[l][p] = None
      BY <3>1, <3>2 DEF CompletingFair
    <3>3. CASE row[l][p] # None /\ Due(l, p)
      BY <3>1, <3>3, CaughtFair DEF CompletingFair, HeldFair
    <3>4. CASE row[l][p] # None /\ ~Due(l, p)
      BY <3>1, <3>4 DEF CompletingFair, RowFair
    <3>. QED
      BY <3>2, <3>3, <3>4
  <2>6. ASSUME k = l PROVE CompletingFair(r, l, p, p \in v.caught)'
    <3>1. row[l][p] = None => p \in v.caught
      BY <2>2, <2>6
    <3>. QED
      BY <1>1, <2>3, <2>4, <2>5, <2>6, <3>1, CompletingKept
  <2>. QED
    BY <2>2, <2>3, <2>4, <2>6 DEF VisitFair
<1>. QED
  BY <1>2, <1>3, <1>4, <1>5, NextVisits

LEMMA BatchesFair ==
    ASSUME IInv, IInv', [Next]_vars, today <= today', NEW l \in Leagues, NEW p \in Players,
           RowFair(l, p), RowGrows(l, p), PlayedGrows(l, p),
           NEW b \in Batches, batch[b].now <= today, BatchFair(batch[b], l, p)
    PROVE  BatchFair(batch[b], l, p)'
<1>1. TypeOK /\ TypeOK' /\ None \notin Players
  BY Apart DEF IInv
<1>2. CASE batch'[b].player = None
  BY <1>1, <1>2 DEF BatchFair
<1>3. CASE /\ batch'[b].player = batch[b].player /\ batch'[b].league = batch[b].league
           /\ batch'[b].held = batch[b].held
  <2>1. PICK r : r = batch[b].held /\ r = batch'[b].held
    BY <1>3
  <2>2. ASSUME batch[b].league = l, batch[b].player = p PROVE HeldFair(r, l, p)'
    <3>1. r \in Rows /\ row[l][p] # None
      BY <1>1, <2>1, <2>2 DEF IInv, Sound, BatchSound
    <3>2. HeldFair(r, l, p)
      BY <2>1, <2>2 DEF BatchFair
    <3>. QED
      BY <3>1, <3>2, HeldKept
  <2>. QED
    BY <1>3, <2>1, <2>2 DEF BatchFair
<1>4. ASSUME NEW q \in Players, BatchLoad(b, q), batch'[b].player # None PROVE BatchFair(batch[b], l, p)'
  <2>. SUFFICES ASSUME batch'[b].league = l, batch'[b].player = p PROVE HeldFair(batch[b].held, l, p)'
    BY DEF BatchFair
  <2>1. PICK k : k = batch[b].league
    OBVIOUS
  <2>2. PICK x \in Ticks :
           batch' = [batch EXCEPT ![b] = x] /\ x.league = k /\ (x.player = None \/ x.player = q)
    BY <1>4, <2>1, BatchLoadIs
  <2>3. k = l /\ q = p
    BY <1>1, <1>4, <2>2 DEF TypeOK
  <2>4. PICK r : r = batch'[b].held
    OBVIOUS
  <2>5. r \in Rows /\ row[l][p] # None /\ HeldFair(r, l, p)
    BY <1>4, <2>1, <2>3, <2>4, BatchLoadFair
  <2>6. HeldFair(r, l, p)'
    BY <2>5, HeldKept
  <2>. QED
    BY <2>4, <2>6
<1>. QED
  BY <1>2, <1>3, <1>4, NextBatches

LEMMA ConfirmedKept ==
    ASSUME IInv, IInv', today <= today', NEW l \in Leagues, NEW p \in Players, NEW r \in Rows,
           row[l][p] # None, Past(row[l][p]), ConfirmedFair(r, l, p), RowGrows(l, p), PlayedGrows(l, p)
    PROVE  ConfirmedFair(r, l, p)'
<1>1. Backed(r, l, p)'
  BY BackedKept DEF ConfirmedFair
<1>2. Past(r)'
  BY PastKept DEF ConfirmedFair, IInv
<1>3. Before(r, r)'
  BY DEF ConfirmedFair, Before, Settled
<1>. QED
  BY <1>1, <1>2, <1>3 DEF ConfirmedFair

LEMMA ConfirmsFair ==
    ASSUME IInv, IInv', [Next]_vars, today <= today', NEW l \in Leagues, NEW p \in Players,
           RowFair(l, p), ConfirmFair(l, p), RowGrows(l, p), PlayedGrows(l, p)
    PROVE  ConfirmFair(l, p)'
<1>1. TypeOK /\ ConfirmSound /\ (row[l][p] # None => row[l][p] \in Rows /\ Past(row[l][p]))
  BY RowIs DEF IInv, Sound, RowFair
<1>2. CASE confirm' = NoConfirm
  BY <1>2 DEF ConfirmFair, NoConfirm
<1>3. CASE confirm' = confirm /\ draft' = draft /\ confirm' # NoConfirm
  <2>1. PICK r : r = confirm.rows[p] /\ r = confirm'.rows[p]
    BY <1>3
  <2>2. ASSUME draft[confirm.draft].source = l, r # None PROVE ConfirmedFair(r, l, p)'
    <3>1. row[l][p] # None
      BY <1>1, <1>3, <2>1, <2>2 DEF ConfirmSound
    <3>2. r \in Rows
      BY <1>1, <2>1, <2>2 DEF TypeOK, Confirmations
    <3>3. ConfirmedFair(r, l, p)
      BY <1>3, <2>1, <2>2 DEF ConfirmFair
    <3>. QED
      BY <1>1, <3>1, <3>2, <3>3, ConfirmedKept
  <2>. QED
    BY <1>3, <2>1, <2>2 DEF ConfirmFair
<1>4. ASSUME NEW d \in Drafts, RolloverLoad(d) PROVE ConfirmFair(l, p)'
  <2>1. /\ confirm' = [draft |-> d, source |-> league[draft[d].source], rows |-> row[draft[d].source],
                       taxed |-> Taxed(draft[d].source)]
        /\ draft' = draft /\ row' = row
    BY <1>4 DEF RolloverLoad, tenancy
  <2>2. PICK ss : ss = Taxed(draft[d].source)
    OBVIOUS
  <2>3. confirm'.draft = d /\ confirm'.rows = row[draft[d].source]
    BY <2>1, <2>2
  <2>4. PICK r : r = row[l][p]
    OBVIOUS
  <2>5. ASSUME r # None PROVE ConfirmedFair(r, l, p)'
    <3>1. ConfirmedFair(r, l, p)
      BY <2>4, <2>5 DEF RowFair, ConfirmedFair, Backed
    <3>. QED
      BY <1>1, <2>4, <2>5, <3>1, ConfirmedKept
  <2>. QED
    BY <2>1, <2>3, <2>4, <2>5 DEF ConfirmFair
<1>. QED
  BY <1>2, <1>3, <1>4, NextConfirm

(* A match keeps the snapshot it was completed with.                        *)
SnapKept(m) ==
    match'[m].status = "COMPLETED" =>
        match[m].status = "COMPLETED" /\ match'[m].league = match[m].league /\ match'[m].snap = match[m].snap

LEMMA MatchesFair ==
    ASSUME IInv, NEW l \in Leagues, NEW p \in Players, RowFair(l, p), RowGrows(l, p), PlayedGrows(l, p),
           NEW m \in Matches, MatchFair(m, l, p), SnapKept(m)
    PROVE  MatchFair(m, l, p)'
<1>1. PICK r : r = match'[m].snap[p]
  OBVIOUS
<1>2. ASSUME match'[m].status = "COMPLETED", match'[m].league = l PROVE Backed(r, l, p)'
  <2>1. match[m].status = "COMPLETED" /\ match[m].league = l /\ r = match[m].snap[p]
    BY <1>1, <1>2 DEF SnapKept
  <2>2. r \in Rows /\ row[l][p] # None
    BY <2>1 DEF IInv, Sound, MatchSound
  <2>3. Backed(r, l, p)
    BY <2>1 DEF MatchFair
  <2>. QED
    BY <2>2, <2>3, BackedKept DEF RowFair
<1>. QED
  BY <1>1, <1>2 DEF MatchFair

(* All in hand is fair after a step that leaves the stored row fair.        *)
LEMMA HandsFair ==
    ASSUME IInv, IInv', [Next]_vars, NEW l \in Leagues, NEW p \in Players,
           \A b \in Batches : batch[b].now <= today,
           FairAt(l, p), RowFair(l, p)', RowGrows(l, p), PlayedGrows(l, p),
           \A t \in Visits : visit'[t] = visit[t] /\ visit[t].op = "complete" /\ visit[t].league = l
                             /\ p \in visit[t].caught => row'[l][p] = row[l][p],
           \A m \in Matches : SnapKept(m) \/ MatchFair(m, l, p)'
    PROVE  FairAt(l, p)'
<1>1. today <= today'
  <2>1. today \in Int
    BY DEF IInv, TypeOK, Days
  <2>. QED
    BY <2>1, NextToday
<1>2. \A t \in Visits : VisitFair(visit[t], l, p)'
  BY <1>1, VisitsFair DEF FairAt
<1>3. \A b \in Batches : BatchFair(batch[b], l, p)'
  BY <1>1, BatchesFair DEF FairAt
<1>4. \A m \in Matches : MatchFair(m, l, p)'
  BY MatchesFair DEF FairAt
<1>5. ConfirmFair(l, p)'
  BY <1>1, ConfirmsFair DEF FairAt
<1>. QED
  BY <1>2, <1>3, <1>4, <1>5 DEF FairAt

(* A row nobody writes stays fair.                                          *)
LEMMA RestingRow ==
    ASSUME IInv, IInv', today <= today', NEW l \in Leagues, NEW p \in Players, RowFair(l, p),
           row'[l][p] = row[l][p], Played(l, p)' = Played(l, p)
    PROVE  RowFair(l, p)' /\ RowGrows(l, p) /\ PlayedGrows(l, p)
<1>1. PICK r, S : r = row[l][p] /\ r = row'[l][p] /\ S = Played(l, p) /\ S = Played(l, p)'
  OBVIOUS
<1>2. PlayedGrows(l, p)
  BY DEF PlayedGrows
<1>3. r # None => r \in Rows
  BY <1>1, RowIs DEF IInv
<1>4. RowGrows(l, p)
  <2>1. r # None /\ r.activity # None => r.activity <= r.activity
    BY <1>3 DEF Rows, Days
  <2>. QED
    BY <1>1, <2>1 DEF RowGrows
<1>5. CASE r = None
  BY <1>1, <1>2, <1>4, <1>5 DEF RowFair
<1>6. CASE r # None
  <2>1. Past(r) /\ Backed(r, l, p) /\ \A day \in S : r.activity # None /\ day <= r.activity
    BY <1>1, <1>6 DEF RowFair
  <2>2. Backed(r, l, p)'
    BY <1>1, <1>2, <1>3, <1>4, <1>6, <2>1, BackedKept
  <2>3. Past(r)'
    BY <1>3, <1>6, <2>1, PastKept DEF IInv
  <2>. QED
    BY <1>1, <1>2, <1>4, <1>6, <2>1, <2>2, <2>3 DEF RowFair
<1>. QED
  BY <1>5, <1>6

LEMMA OnlyMore ==
    ASSUME [Next]_vars
    PROVE  lost \subseteq lost' /\ redated \subseteq redated'
<1>1. CASE ~Writes
  BY <1>1, QuietRows
<1>2. ASSUME NEW t \in Visits, CatchUpStore(t) \/ CompleteStore(t) \/ VoidMatch(t) \/ FlipMatch(t)
      PROVE  lost \subseteq lost' /\ redated \subseteq redated'
  BY <1>2 DEF CatchUpStore, WriteDecay, CompleteStore, VoidMatch, FlipMatch
<1>3. ASSUME NEW b \in Batches, BatchStore(b) PROVE lost \subseteq lost' /\ redated \subseteq redated'
  BY <1>3 DEF BatchStore, WriteDecay
<1>4. CASE RolloverCommit
  BY <1>4 DEF RolloverCommit
<1>. QED
  BY <1>1, <1>2, <1>3, <1>4 DEF Writes

LEMMA SnapsKept ==
    ASSUME SameResults
    PROVE  \A m \in Matches : SnapKept(m)
BY DEF SameResults, SnapKept

LEMMA RestingFair ==
    ASSUME IInv, IInv', [Next]_vars, NEW l \in Leagues, NEW p \in Players,
           \A b \in Batches : batch[b].now <= today, FairAt(l, p),
           row'[l][p] = row[l][p], Played(l, p)' = Played(l, p),
           \A m \in Matches : SnapKept(m) \/ MatchFair(m, l, p)'
    PROVE  FairAt(l, p)'
<1>1. today <= today'
  <2>1. today \in Int
    BY DEF IInv, TypeOK, Days
  <2>. QED
    BY <2>1, NextToday
<1>2. RowFair(l, p)' /\ RowGrows(l, p) /\ PlayedGrows(l, p)
  BY <1>1, RestingRow DEF FairAt
<1>. QED
  BY <1>2, HandsFair

(* A catch-up or a tick writes what it held.                                *)
LEMMA DecayFair ==
    ASSUME IInv, IInv', [Next]_vars, NEW l \in Leagues, NEW p \in Players, NEW r \in Rows,
           \A b \in Batches : batch[b].now <= today, FairAt(l, p), row[l][p] # None, HeldFair(r, l, p),
           WriteDecay(l, p, r), <<l, p>> \notin lost', SameResults, Played(l, p)' = Played(l, p)
    PROVE  FairAt(l, p)'
<1>1. PICK o, y, S : o = row[l][p] /\ y = row'[l][p] /\ S = Played(l, p) /\ S = Played(l, p)'
  OBVIOUS
<1>2. /\ y \in Rows /\ y.paid = r.paid /\ y.activity = o.activity /\ y.last = r.last
      /\ o.last # None => ~(r.last < o.last)
  BY <1>1, WriteDecayIs DEF IInv
<1>3. o \in Rows /\ today \in Days /\ today <= today'
  <2>1. o \in Rows /\ today \in Days
    BY <1>1, RowIs DEF IInv
  <2>. QED
    BY <2>1, NextToday DEF Days
<1>4. /\ Past(r) /\ Earned(r, l, p) /\ Before(r, r) /\ r.last # None /\ r.activity # None
      /\ o.activity # None /\ r.activity <= o.activity
  BY <1>1 DEF HeldFair
<1>5. Past(o) /\ \A day \in S : o.activity # None /\ day <= o.activity
  BY <1>1 DEF FairAt, RowFair
<1>6. /\ r.activity \in Int /\ o.activity \in Int /\ r.last \in Int /\ (o.last # None => o.last \in Int)
      /\ \A d \in Days : d \in Int
  BY <1>3, <1>4 DEF Rows, Days
<1>7. \A d \in Days : Settled(r, d) => Settled(y, d)
  BY <1>2, <1>4, <1>6 DEF Settled
<1>8. \A d \in Days : Settled(o, d) => Settled(y, d)
  BY <1>2, <1>4, <1>6 DEF Settled
<1>9. PlayedGrows(l, p)
  BY <1>1 DEF PlayedGrows
<1>10. RowGrows(l, p)
  <2>1. y # None /\ o.activity <= y.activity /\ y.activity # None
    BY <1>2, <1>4, <1>6, Apart
  <2>. QED
    BY <1>1, <1>8, <2>1 DEF RowGrows
<1>11. Backed(y, l, p)'
  <2>1. \A d \in Days : r.paid[d] > 0 => d <= today
    BY <1>3, <1>4, PaidBy
  <2>2. Earned(r, l, p)'
    BY <1>4, <1>9, <2>1, EarnedKept DEF PlayedGrows
  <2>3. Earned(y, l, p)'
    BY <1>2, <2>2 DEF Earned
  <2>4. Before(y, y)
    BY <1>2, <1>4, <1>7 DEF Before
  <2>. QED
    BY <1>1, <2>3, <2>4 DEF Backed, Before, Settled
<1>12. Past(y)'
  <2>1. Past(y)
    BY <1>2, <1>4, <1>5 DEF Past
  <2>. QED
    BY <1>2, <1>3, <2>1, PastKept DEF IInv
<1>13. RowFair(l, p)'
  BY <1>1, <1>2, <1>5, <1>11, <1>12, Apart DEF RowFair
<1>14. \A t \in Visits : ~(visit[t].league = l /\ p \in visit[t].caught)
  BY DEF WriteDecay, Locked
<1>. QED
  BY <1>9, <1>10, <1>13, <1>14, HandsFair, SnapsKept

(* A void and a rollover's tax give a row back what it paid, and no dates.  *)
LEMMA TakenBackFair ==
    ASSUME IInv, IInv', NEW l \in Leagues, NEW p \in Players, NEW r \in Rows, today' = today,
           RowFair(l, p), row[l][p] # None, Backed(r, l, p), Played(l, p)' = Played(l, p),
           row'[l][p] \in Rows, row'[l][p].paid = r.paid, row'[l][p].activity = row[l][p].activity,
           row'[l][p].last = row[l][p].last
    PROVE  RowFair(l, p)' /\ RowGrows(l, p) /\ PlayedGrows(l, p)
<1>1. PICK o, y, S : o = row[l][p] /\ y = row'[l][p] /\ S = Played(l, p) /\ S = Played(l, p)'
  OBVIOUS
<1>2. /\ y \in Rows /\ y.paid = r.paid /\ y.activity = o.activity /\ y.last = o.last /\ y # None
      /\ o \in Rows /\ o # None
  BY <1>1, RowIs, Apart DEF IInv
<1>3. Past(o) /\ \A day \in S : o.activity # None /\ day <= o.activity
  BY <1>1, <1>2 DEF RowFair
<1>4. PlayedGrows(l, p)
  BY <1>1 DEF PlayedGrows
<1>5. RowGrows(l, p)
  <2>1. o.activity # None => o.activity <= y.activity
    BY <1>2 DEF Rows, Days
  <2>2. \A d \in Days : Settled(o, d) => Settled(y, d)
    BY <1>2 DEF Settled
  <2>. QED
    BY <1>1, <1>2, <2>1, <2>2 DEF RowGrows
<1>6. Backed(r, l, p)'
  BY <1>1, <1>3, <1>4, <1>5, BackedKept
<1>7. Backed(y, l, p)'
  BY <1>1, <1>2, <1>6 DEF Backed, Earned, Before
<1>8. Past(y)'
  BY <1>2, <1>3 DEF Past
<1>. QED
  BY <1>1, <1>2, <1>3, <1>4, <1>5, <1>7, <1>8 DEF RowFair

(* What a completion leaves of a row: rated, and caught up again.           *)
LEMMA RatedFair ==
    ASSUME IInv, NEW l \in Leagues, NEW p \in Players, NEW quit \in BOOLEAN, NEW caught \in BOOLEAN,
           today' = today, RowFair(l, p), NEW read \in Rows, CompletingFair(read, l, p, caught),
           row[l][p] = None => caught, NEW z \in Rows, z.paid = read.paid,
           ~quit => z.activity = today /\ z.last = None,
           quit /\ caught => z.activity = read.activity /\ z.last = read.last,
           quit /\ ~caught => z.activity = row[l][p].activity /\ z.last = row[l][p].last,
           NEW y \in Rows, y = row'[l][p], y.activity = z.activity,
           \/ y = z
           \/ /\ y.last = today /\ z.activity \in Days /\ From(z) \in Days /\ From(z) < today
              /\ PaysFor(y, z, Settings[league[l].preset], today),
           PlayedGrows(l, p), quit => Played(l, p)' \subseteq Played(l, p)
    PROVE  RowFair(l, p)' /\ RowGrows(l, p) /\ Backed(read, l, p)'
<1>1. PICK o, S, T : o = row[l][p] /\ S = Played(l, p) /\ T = Played(l, p)'
  OBVIOUS
<1>2. today \in Days /\ today \in Int /\ today # None /\ (o # None => o \in Rows) /\ y # None /\ z # None
  BY <1>1, RowIs, Apart DEF IInv, Days
<1>3. \A d \in Days : d \in Int
  BY DEF Days
<1>4. T \subseteq S \cup {today} /\ (quit => T \subseteq S)
  BY <1>1 DEF PlayedGrows
<1>5. \A d \in S : d \in Days /\ d <= today
  BY <1>1, PlayedAre
<1>6. o = None => read = DefaultRow /\ S = {} /\ caught
  BY <1>1 DEF CompletingFair, RowFair
<1>7. o # None => /\ Past(o) /\ Backed(o, l, p)
                  /\ \A day \in S : o.activity # None /\ day <= o.activity
  BY <1>1 DEF RowFair
<1>8. o # None /\ caught => /\ Past(read) /\ Earned(read, l, p) /\ Before(read, read)
                            /\ read.activity = o.activity
                            /\ \A d \in Days : Settled(o, d) => Settled(read, d)
  BY <1>1 DEF CompletingFair
<1>9. o # None /\ ~caught => Earned(read, l, p) /\ Before(read, o)
  BY <1>1 DEF CompletingFair, Backed
<1>10. o = None => read.activity = None /\ read.last = None /\ \A d \in Days : read.paid[d] = 0
  BY <1>6 DEF DefaultRow
<1>11. Earned(read, l, p)
  <2>1. CASE o = None
    BY <1>10, <2>1 DEF Earned
  <2>. QED
    BY <1>8, <1>9, <2>1
<1>12. \A d \in Days : read.paid[d] > 0 => d <= today
  <2>1. CASE o = None
    BY <1>10, <2>1
  <2>2. CASE o # None /\ caught
    BY <1>2, <1>8, <2>2, PaidBy
  <2>3. CASE o # None /\ ~caught
    BY <1>2, <1>7, <1>9, <2>3, PaidBy
  <2>. QED
    BY <2>1, <2>2, <2>3
<1>13. Earned(read, l, p)'
  BY <1>11, <1>12, EarnedKept DEF PlayedGrows
<1>14. Before(read, z)
  <2>. SUFFICES ASSUME NEW d \in Days, read.paid[d] > 0 PROVE Settled(z, d)
    BY DEF Before
  <2>1. CASE ~quit
    BY <1>2, <1>12, <2>1 DEF Settled
  <2>2. CASE o = None
    BY <1>3, <1>10, <2>2
  <2>3. CASE o # None /\ quit /\ caught
    BY <1>8, <2>3 DEF Before, Settled
  <2>4. CASE o # None /\ quit /\ ~caught
    BY <1>1, <1>9, <2>4 DEF Before, Settled
  <2>. QED
    BY <2>1, <2>2, <2>3, <2>4
<1>15. Past(z)
  <2>1. CASE ~quit
    BY <1>2, <2>1 DEF Past
  <2>2. CASE o = None
    BY <1>2, <1>6, <1>10, <2>1, <2>2 DEF Past
  <2>3. CASE o # None /\ quit /\ caught
    BY <1>8, <2>3 DEF Past
  <2>4. CASE o # None /\ quit /\ ~caught
    BY <1>1, <1>7, <2>4 DEF Past
  <2>. QED
    BY <2>1, <2>2, <2>3, <2>4
<1>16. ASSUME NEW day \in T PROVE z.activity # None /\ day <= z.activity
  <2>1. CASE ~quit
    BY <1>2, <1>4, <1>5, <2>1
  <2>2. CASE quit
    <3>1. day \in S /\ o # None
      BY <1>4, <1>6, <2>2
    <3>2. z.activity = o.activity
      BY <1>1, <1>8, <2>2, <3>1
    <3>. QED
      BY <1>7, <3>1, <3>2
  <2>. QED
    BY <2>1, <2>2
<1>17. ASSUME o # None, NEW d \in Days, Settled(o, d) PROVE Settled(z, d)
  <2>1. CASE ~quit
    <3>1. d <= today
      <4>1. /\ o.activity # None => o.activity \in Int /\ o.activity <= today
            /\ o.last # None => o.last \in Int /\ o.last <= today
        BY <1>2, <1>3, <1>7, <1>17 DEF Rows, Past
      <4>. QED
        BY <1>2, <1>3, <1>17, <4>1 DEF Settled
    <3>. QED
      BY <1>2, <2>1, <3>1 DEF Settled
  <2>2. CASE quit /\ caught
    BY <1>8, <1>17, <2>2 DEF Settled
  <2>3. CASE quit /\ ~caught
    BY <1>1, <1>17, <2>3 DEF Settled
  <2>. QED
    BY <2>1, <2>2, <2>3
<1>18. ASSUME o # None, o.activity # None PROVE z.activity # None /\ o.activity <= z.activity
  <2>1. o.activity \in Int
    BY <1>2, <1>3, <1>18 DEF Rows
  <2>2. CASE ~quit
    BY <1>2, <1>7, <1>18, <2>2 DEF Past
  <2>3. CASE quit
    BY <1>1, <1>8, <1>18, <2>1, <2>3
  <2>. QED
    BY <2>2, <2>3
<1>19. Before(z, z) /\ Earned(z, l, p)
  BY <1>11, <1>14 DEF Before, Earned
<1>20. /\ Past(y) /\ Earned(y, l, p)' /\ Before(y, y)
       /\ \A d \in Days : Settled(z, d) => Settled(y, d)
  <2>1. CASE y = z
    <3>1. Earned(y, l, p)'
      BY <1>13, <2>1 DEF Earned
    <3>. QED
      BY <1>15, <1>19, <2>1, <3>1
  <2>2. CASE y # z
    <3>1. PICK preset \in Presets : preset = league[l].preset
      BY DEF IInv, TypeOK, LeagueRows
    <3>2. /\ y.last = today /\ z.activity \in Days /\ From(z) \in Days /\ From(z) < today
          /\ PaysFor(y, z, Settings[preset], today)
      BY <2>2, <3>1
    <3>3. quit
      BY <1>2, <3>2 DEF From
    <3>4. o # None
      BY <1>2, <1>6, <1>10, <3>2, <3>3, Apart
    <3>5. \A day \in S : day <= z.activity
      BY <1>1, <1>7, <1>8, <3>3, <3>4
    <3>6. today <= today
      BY <1>2
    <3>7. /\ Past(y) /\ Earned(y, l, p) /\ Before(y, y)
          /\ \A d \in Days : Settled(z, d) => Settled(y, d)
      BY <1>1, <1>2, <1>15, <1>19, <3>2, <3>5, <3>6, ChargedFair
    <3>8. \A d \in Days : y.paid[d] > 0 => d <= today
      BY <1>2, <3>7, PaidBy
    <3>9. Played(l, p)' \subseteq Played(l, p) \cup {today}
      BY <1>1, <1>4
    <3>10. Earned(y, l, p)'
      BY <3>7, <3>8, <3>9, EarnedKept
    <3>. QED
      BY <3>7, <3>10
  <2>. QED
    BY <2>1, <2>2
<1>21. RowGrows(l, p)
  BY <1>1, <1>2, <1>17, <1>18, <1>20 DEF RowGrows
<1>22. Backed(read, l, p)'
  BY <1>13, <1>14, <1>20 DEF Backed, Before, Settled
<1>23. Backed(y, l, p)'
  BY <1>20 DEF Backed, Before, Settled
<1>24. Past(y)'
  BY <1>20 DEF Past
<1>25. RowFair(l, p)'
  BY <1>1, <1>2, <1>16, <1>23, <1>24 DEF RowFair
<1>. QED
  BY <1>21, <1>22, <1>25

(* A completion dates the ratings of those who stayed.                      *)
LEMMA CompleteFair ==
    ASSUME IInv, IInv', Exclusive, [Next]_vars, NEW t \in Visits, CompleteStore(t), SeasonsStay,
           NEW x \in Leagues, NEW p \in Players, \A b \in Batches : batch[b].now <= today, FairAt(x, p)
    PROVE  FairAt(x, p)'
<1>1. PICK l, m : l = visit[t].league /\ m = visit[t].match
  OBVIOUS
<1>2. /\ l \in Leagues /\ m \in Matches /\ match[m].league = l
      /\ \A k \in Matches : k # m => match'[k] = match[k]
      /\ match'[m].league = l /\ match'[m].day = today
      /\ match'[m].quit = visit[t].quit /\ match'[m].snap = visit[t].rows /\ match'[m].late = match[m].late
  BY <1>1, CompleteStoreIs
<1>3. PICK rows, rated \in [Players -> Rows] :
         row' = [row EXCEPT ![l] = rows] /\ RatedBy(rows, rated, visit[t], l, m)
  BY <1>1, CompleteStoreIs
<1>4. TypeOK /\ Sound /\ visit[t].op = "complete" /\ match[m].status = "ACTIVE" /\ today' = today
  BY <1>1 DEF IInv, CompleteStore, Exclusive
<1>5. \A k \in Leagues : row'[k] = IF k = l THEN rows ELSE row[k]
  BY <1>3, <1>4 DEF TypeOK
<1>6. \A k \in Matches : k # m => SnapKept(k)
  BY <1>2 DEF SnapKept
<1>7. Seasons(x)' = Seasons(x)
  BY SeasonsKept DEF SeasonsStay
<1>8. PICK ss : ss = Seasons(x) /\ ss = Seasons(x)'
  BY <1>7
<1>9. Played(x, p) = {match[k].day : k \in {z \in Matches : /\ match[z].league \in ss /\ ~match[z].late
                                                           /\ match[z].day # None /\ p \notin match[z].quit}}
  BY <1>8 DEF Played
<1>10. Played(x, p)' = {match'[k].day : k \in {z \in Matches : /\ match'[z].league \in ss /\ ~match'[z].late
                                                             /\ match'[z].day # None /\ p \notin match'[z].quit}}
  BY <1>8 DEF Played
<1>11. CASE x # l
  <2>1. l \notin ss \/ match[m].late
    <3>1. l \in ss => league[l].status = "ARCHIVED"
      BY <1>4, <1>8, <1>11, SeasonsOver
    <3>. QED
      BY <1>2, <1>4, <3>1 DEF Sound, MatchSound
  <2>2. ASSUME NEW d \in Played(x, p) PROVE d \in Played(x, p)'
    BY <1>2, <1>9, <1>10, <2>1, <2>2
  <2>3. ASSUME NEW d \in Played(x, p)' PROVE d \in Played(x, p)
    BY <1>2, <1>9, <1>10, <2>1, <2>3
  <2>4. Played(x, p)' = Played(x, p)
    BY <2>2, <2>3
  <2>5. MatchFair(m, x, p)'
    BY <1>2, <1>11 DEF MatchFair
  <2>6. row'[x][p] = row[x][p]
    BY <1>5, <1>11
  <2>. QED
    BY <1>6, <2>4, <2>5, <2>6, RestingFair
<1>12. CASE x = l
  <2>1. PICK read : read = visit[t].rows[p]
    OBVIOUS
  <2>. DEFINE quit == p \in visit[t].quit
  <2>. DEFINE caught == p \in visit[t].caught
  <2>2. PICK y \in Rows : y = rows[p] /\ y = row'[x][p]
    BY <1>5, <1>12
  <2>3. PICK z \in Rows : z = rated[p]
    OBVIOUS
  <2>4. read \in Rows /\ z.paid = read.paid
    BY <1>3, <2>1, <2>3 DEF RatedBy
  <2>5. /\ quit /\ caught => z.activity = read.activity /\ z.last = read.last
        /\ quit /\ ~caught => z.activity = row[x][p].activity /\ z.last = row[x][p].last
        /\ ~quit => z.activity = today /\ z.last = None
    BY <1>3, <1>12, <2>1, <2>3 DEF RatedBy
  <2>6. /\ y.activity = z.activity
         /\ \/ y = z
            \/ /\ y.last = today /\ z.activity \in Days /\ From(z) \in Days /\ From(z) < today
               /\ PaysFor(y, z, Settings[league[x].preset], today)
    <3>1. PICK games : games = Games(l) + 1
      OBVIOUS
    <3>2. y = CatchUpIfDue(x, z, games)
      BY <1>3, <1>12, <2>2, <2>3, <3>1 DEF RatedBy
    <3>. QED
      BY <1>4, <3>2, CatchUpIfDueIs
  <2>7. CompletingFair(read, x, p, caught) /\ (row[x][p] = None => caught)
    <3>1. VisitFair(visit[t], x, p) /\ VisitSound(visit[t])
      BY <1>4 DEF FairAt, Sound
    <3>. QED
      BY <1>1, <1>4, <1>12, <2>1, <3>1 DEF VisitFair, VisitSound
  <2>8. ASSUME NEW d \in Played(x, p)', d \notin Played(x, p) PROVE d = today /\ ~quit
    BY <1>2, <1>9, <1>10, <2>1, <2>8
  <2>9. PlayedGrows(x, p)
    BY <2>8 DEF PlayedGrows
  <2>10. quit => Played(x, p)' \subseteq Played(x, p)
    BY <2>8
  <2>11. RowFair(x, p)' /\ RowGrows(x, p) /\ Backed(read, x, p)'
    <3>1. RowFair(x, p) /\ quit \in BOOLEAN /\ caught \in BOOLEAN
      BY DEF FairAt
    <3>. HIDE DEF quit, caught
    <3>. QED
      BY <1>4, <2>2, <2>4, <2>5, <2>7, <2>9, <2>10, <2>6, <3>1, RatedFair
  <2>12. MatchFair(m, x, p)'
    <3>1. read = match'[m].snap[p]
      BY <1>2, <2>1
    <3>. QED
      BY <2>11, <3>1 DEF MatchFair
  <2>13. ASSUME NEW u \in Visits, visit'[u] = visit[u], visit[u].op = "complete", visit[u].league = x,
                p \in visit[u].caught
         PROVE  row'[x][p] = row[x][p]
    <3>1. visit' = [visit EXCEPT ![t] = NoVisit] /\ \A q \in Players \ visit[t].caught : ~Locked(l, q)
      BY <1>1 DEF CompleteStore
    <3>2. visit'[t] = NoVisit
      BY <1>4, <3>1 DEF TypeOK
    <3>3. u # t
      BY <2>13, <3>2, NoVisitIs
    <3>4. p \notin visit[t].caught
      BY <1>1, <1>4, <1>12, <2>13, <3>3 DEF Exclusive
    <3>. QED
      BY <1>12, <2>13, <3>1, <3>4 DEF Locked
  <2>. QED
    BY <1>6, <2>9, <2>11, <2>12, <2>13, HandsFair
<1>. QED
  BY <1>11, <1>12

(* A void gives back what the ratings had paid before the match.            *)
LEMMA VoidFair ==
    ASSUME IInv, IInv', Exclusive, [Next]_vars, NEW t \in Visits, VoidMatch(t), SeasonsStay, SameGames,
           NEW x \in Leagues, NEW p \in Players, \A b \in Batches : batch[b].now <= today, FairAt(x, p)
    PROVE  FairAt(x, p)'
<1>1. PICK l, m : l = visit[t].league /\ m = visit[t].match
  OBVIOUS
<1>2. /\ l \in Leagues /\ m \in Matches /\ match[m].league = l /\ match[m].status = "COMPLETED"
      /\ \A q \in Players : match[m].snap[q] \in Rows /\ row[l][q] \in Rows
      /\ \A k \in Matches : k # m => match'[k] = match[k]
      /\ match'[m].status = "CANCELLED"
  BY <1>1, VoidMatchIs
<1>3. PICK rows \in [Players -> Rows] :
         /\ row' = [row EXCEPT ![l] = rows]
         /\ \A q \in Players :
               /\ rows[q].paid = match[m].snap[q].paid
               /\ rows[q].activity = row[l][q].activity /\ rows[q].last = row[l][q].last
  BY <1>1, VoidMatchIs
<1>4. /\ TypeOK /\ today' = today
      /\ \A q \in Players : ~Locked(l, q)
  BY <1>1 DEF IInv, VoidMatch
<1>5. \A k \in Leagues : row'[k] = IF k = l THEN rows ELSE row[k]
  BY <1>3, <1>4 DEF TypeOK
<1>6. \A k \in Matches : SnapKept(k)
  BY <1>2 DEF SnapKept
<1>7. Played(x, p)' = Played(x, p)
  BY SamePlayed
<1>8. CASE x # l
  <2>1. row'[x][p] = row[x][p]
    BY <1>5, <1>8
  <2>. QED
    BY <1>6, <1>7, <2>1, RestingFair
<1>9. CASE x = l
  <2>1. PICK r : r = match[m].snap[p]
    OBVIOUS
  <2>2. Backed(r, x, p) /\ RowFair(x, p) /\ r \in Rows /\ row[x][p] # None
    BY <1>2, <1>9, <2>1, Apart DEF FairAt, MatchFair
  <2>3. /\ row'[x][p] \in Rows /\ row'[x][p].paid = r.paid
        /\ row'[x][p].activity = row[x][p].activity /\ row'[x][p].last = row[x][p].last
    BY <1>3, <1>5, <1>9, <2>1
  <2>4. RowFair(x, p)' /\ RowGrows(x, p) /\ PlayedGrows(x, p)
    BY <1>4, <1>7, <2>2, <2>3, TakenBackFair
  <2>5. \A u \in Visits : ~(visit[u].league = x /\ p \in visit[u].caught)
    BY <1>4, <1>9 DEF Locked
  <2>. QED
    BY <1>6, <2>4, <2>5, HandsFair
<1>. QED
  BY <1>8, <1>9

(* A flip dates a whole league's ratings back, which is excused.            *)
LEMMA FlipFair ==
    ASSUME IInv, IInv', [Next]_vars, NEW t \in Visits, FlipMatch(t), SameResults,
           NEW x \in Leagues, NEW p \in Players, Played(x, p)' = Played(x, p),
           \A b \in Batches : batch[b].now <= today, FairAt(x, p), <<x, p>> \notin redated'
    PROVE  FairAt(x, p)'
<1>1. PICK l, m : l = visit[t].league /\ m = visit[t].match
  OBVIOUS
<1>2. PICK rows \in [Players -> Rows] : row' = [row EXCEPT ![l] = rows]
  BY <1>1, FlipMatchIs
<1>3. x # l
  BY <1>1 DEF FlipMatch
<1>4. row'[x][p] = row[x][p]
  BY <1>2, <1>3 DEF IInv, TypeOK
<1>. QED
  BY <1>4, SnapsKept, RestingFair

(* A rollover taxes the season that ends, and hands its ratings over.       *)
LEMMA CommitFair ==
    ASSUME IInv, IInv', Exclusive, [Next]_vars, RolloverCommit,
           NEW l, l = draft[confirm.draft].source, NEW n, n = draft[confirm.draft].name,
           NEW x \in Leagues, NEW p \in Players, x # n, \A b \in Batches : batch[b].now <= today, FairAt(x, p)
    PROVE  FairAt(x, p)'
<1>1. PICK mode : mode = draft[confirm.draft].mode
  OBVIOUS
<1>2. l \in Leagues /\ n \in Leagues /\ l # n
  BY <1>1, CommitLeaguesAre
<1>3. /\ \A k \in Leagues, q \in Players : k # l /\ k # n => row'[k][q] = row[k][q]
      /\ \A q \in Players : confirm.rows[q] = None => row'[l][q] = row[l][q]
      /\ \A q \in Players : q \notin confirm.taxed => row'[l][q] = row[l][q]
      /\ \A q \in Players : confirm.rows[q] # None =>
            /\ confirm.rows[q] \in Rows /\ row[l][q] \in Rows /\ row'[l][q] \in Rows
            /\ row'[l][q].activity = row[l][q].activity /\ row'[l][q].last = row[l][q].last
            /\ q \in confirm.taxed => row'[l][q].paid = confirm.rows[q].paid
  BY <1>1, CommitRowsAre
<1>4. /\ TypeOK /\ Sound /\ match' = match /\ today' = today
      /\ confirm # NoConfirm /\ NoActiveMatches(l)
  BY DEF IInv, RolloverCommit
<1>5. \A k \in Matches : SnapKept(k)
  BY <1>4 DEF SnapKept
<1>6. Played(x, p)' = Played(x, p)
  <2>1. PICK ss : ss = Seasons(x) /\ ss = Seasons(x)'
    BY <1>1, SeasonsHandedOver
  <2>. QED
    BY <1>4, <2>1 DEF Played
<1>7. CASE row'[x][p] = row[x][p]
  BY <1>5, <1>6, <1>7, RestingFair
<1>8. CASE row'[x][p] # row[x][p]
  <2>1. PICK r : r = confirm.rows[p]
    OBVIOUS
  <2>2. x = l /\ r # None /\ p \in confirm.taxed
    BY <1>3, <1>8, <2>1
  <2>3. /\ r \in Rows /\ row[x][p] # None /\ row'[x][p] \in Rows /\ row'[x][p].paid = r.paid
        /\ row'[x][p].activity = row[x][p].activity /\ row'[x][p].last = row[x][p].last
    BY <1>3, <2>1, <2>2, Apart
  <2>4. Backed(r, x, p) /\ RowFair(x, p)
    BY <1>4, <2>1, <2>2 DEF FairAt, ConfirmFair, ConfirmedFair
  <2>5. RowFair(x, p)' /\ RowGrows(x, p) /\ PlayedGrows(x, p)
    BY <1>4, <1>6, <2>3, <2>4, TakenBackFair
  <2>6. \A u \in Visits : ~(visit[u].op = "complete" /\ visit[u].league = x)
    BY <1>4, <2>2 DEF Exclusive, Sound, VisitSound, NoActiveMatches, MatchesOf
  <2>. QED
    BY <1>5, <2>5, <2>6, HandsFair
<1>. QED
  BY <1>7, <1>8

LEMMA SuccessorFair ==
    ASSUME IInv, IInv', [Next]_vars, RolloverCommit,
           NEW l, l = draft[confirm.draft].source, NEW n, n = draft[confirm.draft].name,
           NEW p \in Players, <<l, p>> \notin lost \cup redated => FairAt(l, p), <<n, p>> \notin lost' \cup redated'
    PROVE  FairAt(n, p)'
<1>1. PICK mode : mode = draft[confirm.draft].mode
  OBVIOUS
<1>2. l \in Leagues /\ n \in Leagues /\ mode \in Modes /\ l # n /\ league[n] = NoLeague
  BY <1>1, CommitLeaguesAre
<1>3. PICK r, o, y : r = confirm.rows[p] /\ o = row[l][p] /\ y = row'[n][p]
  OBVIOUS
<1>4. /\ r = None => y = None
      /\ r # None => r \in Rows /\ o \in Rows /\ y = IF mode = "hard" THEN DefaultRow ELSE r
  BY <1>1, <1>3, CommitRowsAre
<1>5. /\ ~PutsBack(l, p, r) /\ <<l, p>> \notin lost \cup redated
      /\ r # None /\ o # None => r.activity = o.activity
  BY <1>3, CommitLost
<1>6. /\ TypeOK /\ Sound /\ match' = match /\ today' = today /\ visit' = visit /\ batch' = batch
      /\ confirm # NoConfirm /\ confirm' = NoConfirm
  BY DEF IInv, RolloverCommit
<1>7. league[n].status = "none"
  BY <1>2 DEF NoLeague, NewLeague
<1>8. \A m \in Matches : match[m].day # None \/ match[m].status = "COMPLETED" => match[m].league # n
  BY <1>6, <1>7 DEF Sound, MatchSound
<1>9. Played(n, p)' = IF mode = "hard" THEN {} ELSE Played(l, p)
  <2>1. PICK ss, tt : ss = Seasons(n)' /\ tt = Seasons(l)
    OBVIOUS
  <2>2. ss = IF mode = "hard" THEN {n} ELSE {n} \cup tt
    BY <1>1, <2>1, SeasonsHandedOver
  <2>3. Played(n, p)' = {match[k].day : k \in {z \in Matches : /\ match[z].league \in ss /\ ~match[z].late
                                                             /\ match[z].day # None /\ p \notin match[z].quit}}
    BY <1>6, <2>1 DEF Played
  <2>4. Played(l, p) = {match[k].day : k \in {z \in Matches : /\ match[z].league \in tt /\ ~match[z].late
                                                            /\ match[z].day # None /\ p \notin match[z].quit}}
    BY <2>1 DEF Played
  <2>5. CASE mode = "hard"
    BY <1>8, <2>2, <2>3, <2>5
  <2>6. CASE mode # "hard"
    <3>1. ASSUME NEW d \in Played(n, p)' PROVE d \in Played(l, p)
      BY <1>8, <2>2, <2>3, <2>4, <2>6, <3>1
    <3>2. ASSUME NEW d \in Played(l, p) PROVE d \in Played(n, p)'
      BY <1>8, <2>2, <2>3, <2>4, <2>6, <3>2
    <3>. QED
      BY <2>6, <3>1, <3>2
  <2>. QED
    BY <2>5, <2>6
<1>10. RowFair(l, p) /\ (r # None => ConfirmedFair(r, l, p))
  BY <1>3, <1>5, <1>6 DEF FairAt, ConfirmFair
<1>11. RowFair(n, p)'
  <2>1. CASE r = None
    <3>1. o = None
      BY <1>3, <1>5, <2>1 DEF PutsBack
    <3>2. Played(n, p)' = {} /\ y = None
      BY <1>3, <1>4, <1>9, <1>10, <2>1, <3>1 DEF RowFair
    <3>. QED
      BY <1>3, <3>2 DEF RowFair
  <2>2. CASE r # None /\ mode = "hard"
    <3>1. y = DefaultRow /\ y # None /\ Played(n, p)' = {}
      BY <1>4, <1>9, <2>2, Apart, DefaultRowIs
    <3>2. y.activity = None /\ y.last = None /\ \A d \in Days : y.paid[d] = 0
      BY <3>1 DEF DefaultRow
    <3>3. Past(y)' /\ Backed(y, n, p)'
      BY <3>2 DEF Past, Backed, Earned, Before
    <3>. QED
      BY <1>3, <3>1, <3>3 DEF RowFair
  <2>3. CASE r # None /\ mode # "hard"
    <3>1. y = r /\ o # None /\ r # None /\ r.activity = o.activity
      BY <1>4, <1>5, <2>3, Apart
    <3>2. PICK S : S = Played(l, p) /\ S = Played(n, p)'
      BY <1>9, <2>3
    <3>3. Past(r) /\ Before(r, r) /\ Earned(r, l, p) /\ \A day \in S : r.activity # None /\ day <= r.activity
      BY <1>3, <1>10, <3>1, <3>2 DEF RowFair, ConfirmedFair, Backed
    <3>4. Earned(r, n, p)'
      BY <3>2, <3>3 DEF Earned
    <3>5. Past(r)' /\ Backed(r, n, p)'
      BY <1>3, <1>6, <3>1, <3>3, <3>4 DEF Past, Backed, Before, Settled
    <3>. QED
      BY <1>3, <3>1, <3>2, <3>3, <3>5 DEF RowFair
  <2>. QED
    BY <2>1, <2>2, <2>3
<1>12. \A t \in Visits : VisitFair(visit[t], n, p)'
  BY <1>6, <1>7 DEF Sound, VisitSound, VisitFair
<1>13. \A b \in Batches : BatchFair(batch[b], n, p)'
  BY <1>6, <1>7, Apart DEF Sound, BatchSound, BatchFair
<1>14. \A m \in Matches : MatchFair(m, n, p)'
  BY <1>6, <1>8 DEF MatchFair
<1>15. ConfirmFair(n, p)'
  BY <1>6 DEF ConfirmFair
<1>. QED
  BY <1>11, <1>12, <1>13, <1>14, <1>15 DEF FairAt

LEMMA NextFair ==
    ASSUME IInv, IInv', Exclusive, Fair, [Next]_vars
    PROVE  Fair'
<1>1. TypeOK /\ Sound /\ \A b \in Batches : batch[b].now <= today
  BY DEF IInv, Fair
<1>2. ASSUME NEW b \in Batches PROVE (batch[b].now <= today)'
  <2>1. batch[b].now <= today \/ batch'[b].now <= today
    BY <1>1
  <2>2. batch'[b].now <= today
    BY <1>1, NextBatches
  <2>3. batch'[b].now \in Int /\ today \in Int
    <3>1. TypeOK'
      BY DEF IInv
    <3>. QED
      BY <1>1, <3>1 DEF TypeOK, Ticks, Days
  <2>. QED
    BY <2>2, <2>3, NextToday
<1>. SUFFICES ASSUME NEW l \in Leagues, NEW p \in Players, <<l, p>> \notin lost' \cup redated'
              PROVE  FairAt(l, p)'
  BY <1>2 DEF Fair
<1>3. <<l, p>> \notin lost \cup redated
  BY OnlyMore
<1>4. FairAt(l, p)
  BY <1>3 DEF Fair
<1>5. CASE RolloverCommit
  <2>1. PICK k, n : k = draft[confirm.draft].source /\ n = draft[confirm.draft].name
    OBVIOUS
  <2>2. CASE l = n
    <3>1. <<k, p>> \notin lost \cup redated => FairAt(k, p)
      <4>1. k \in Leagues
        BY <1>5, <2>1, CommitLeaguesAre
      <4>. QED
        BY <4>1 DEF Fair
    <3>. QED
      BY <1>5, <2>1, <2>2, <3>1, SuccessorFair
  <2>3. CASE l # n
    BY <1>1, <1>4, <1>5, <2>1, <2>3, CommitFair
  <2>. QED
    BY <2>2, <2>3
<1>6. CASE ~RolloverCommit
  <2>1. SeasonsStay
    BY <1>6, NextSeasons
  <2>2. CASE \E t \in Visits : CompleteStore(t)
    BY <1>1, <1>4, <2>1, <2>2, CompleteFair
  <2>3. CASE ~\E t \in Visits : CompleteStore(t)
    <3>1. SameGames /\ Played(l, p)' = Played(l, p)
      BY <2>1, <2>3, NextGames, SamePlayed
    <3>2. CASE \E t \in Visits : VoidMatch(t)
      BY <1>1, <1>4, <2>1, <3>1, <3>2, VoidFair
    <3>3. CASE ~\E t \in Visits : VoidMatch(t)
      <4>1. SameResults
        BY <2>3, <3>3, NextResults
      <4>2. ASSUME NEW t \in Visits, FlipMatch(t) PROVE FairAt(l, p)'
        BY <1>1, <1>4, <3>1, <4>1, <4>2, FlipFair
      <4>3. ASSUME NEW t \in Visits, CatchUpStore(t) PROVE FairAt(l, p)'
        <5>1. PICK k, q, r : k = visit[t].league /\ q = visit[t].player /\ r = visit[t].rows[q]
          OBVIOUS
        <5>2. k \in Leagues /\ visit[t].op = "catchup" /\ WriteDecay(k, q, r)
          BY <1>1, <4>3, <5>1 DEF TypeOK, Visitors, CatchUpStore
        <5>3. q \in Players /\ r \in Rows /\ row[k][q] # None
          BY <1>1, <5>1, <5>2 DEF Sound, VisitSound
        <5>4. CASE k = l /\ q = p
          <6>1. HeldFair(r, l, p)
            BY <1>4, <5>1, <5>2, <5>4 DEF FairAt, VisitFair
          <6>. QED
            BY <1>1, <1>4, <3>1, <4>1, <5>2, <5>3, <5>4, <6>1, DecayFair
        <5>5. CASE ~(k = l /\ q = p)
          <6>1. row'[l][p] = row[l][p]
            <7>1. \A i \in Leagues, j \in Players : i # k \/ j # q => row'[i][j] = row[i][j]
              BY <1>1, <5>2, <5>3, WriteDecayIs
            <7>. QED
              BY <5>5, <7>1
          <6>. QED
            BY <1>1, <1>4, <3>1, <4>1, <6>1, SnapsKept, RestingFair
        <5>. QED
          BY <5>4, <5>5
      <4>4. ASSUME NEW b \in Batches, BatchStore(b) PROVE FairAt(l, p)'
        <5>1. PICK k, q, r : k = batch[b].league /\ q = batch[b].player /\ r = batch[b].held
          OBVIOUS
        <5>2. k \in Leagues /\ q \in Players /\ r \in Rows /\ row[k][q] # None
          BY <1>1, <4>4, <5>1 DEF BatchStore, TypeOK, Ticks, Sound, BatchSound
        <5>3. WriteDecay(k, q, r)
          BY <4>4, <5>1 DEF BatchStore
        <5>4. CASE k = l /\ q = p
          <6>1. HeldFair(r, l, p)
            BY <1>4, <5>1, <5>4 DEF FairAt, BatchFair
          <6>. QED
            BY <1>1, <1>4, <3>1, <4>1, <5>2, <5>3, <5>4, <6>1, DecayFair
        <5>5. CASE ~(k = l /\ q = p)
          <6>1. row'[l][p] = row[l][p]
            <7>1. \A i \in Leagues, j \in Players : i # k \/ j # q => row'[i][j] = row[i][j]
              BY <1>1, <5>2, <5>3, WriteDecayIs
            <7>. QED
              BY <5>5, <7>1
          <6>. QED
            BY <1>1, <1>4, <3>1, <4>1, <6>1, SnapsKept, RestingFair
        <5>. QED
          BY <5>4, <5>5
      <4>5. CASE ~Writes
        <5>1. row'[l][p] = row[l][p]
          BY <4>5, QuietRows
        <5>. QED
          BY <1>1, <1>4, <3>1, <4>1, <5>1, SnapsKept, RestingFair
      <4>. QED
        BY <1>6, <2>3, <3>3, <4>2, <4>3, <4>4, <4>5 DEF Writes
    <3>. QED
      BY <3>2, <3>3
  <2>. QED
    BY <2>2, <2>3
<1>. QED
  BY <1>5, <1>6

(* Nobody pays twice: however many views, ticks of the batch, completions,  *)
(* corrections and rollovers work from the same rating, and whatever fails  *)
(* between what they read and what they write, no day costs more than a day *)
(* may, and none counts that lay within the grace after a game the player   *)
(* finished.                                                                *)
THEOREM GraceIsKept == Spec => []GraceKept
<1>1. Init => Exclusive /\ Fair
  <2>. SUFFICES ASSUME Init PROVE Exclusive /\ Fair
    OBVIOUS
  <2>1. Exclusive
    BY DEF Init, NoVisit, Exclusive
  <2>2. \A b \in Batches : batch[b].now <= today
    BY DEF Init, NoBatch
  <2>3. ASSUME NEW l \in Leagues, NEW p \in Players PROVE FairAt(l, p)
    <3>1. row[l][p] = None
      BY DEF Init
    <3>2. Played(l, p) = {}
      BY DEF Init, NoMatch, Played
    <3>3. (\A t \in Visits : visit[t].op = "idle") /\ (\A b \in Batches : batch[b].player = None)
      BY DEF Init, NoVisit, NoBatch
    <3>4. (\A m \in Matches : match[m].status = "none") /\ confirm = NoConfirm
      BY DEF Init, NoMatch
    <3>. QED
      BY <3>1, <3>2, <3>3, <3>4, Apart DEF FairAt, RowFair, VisitFair, BatchFair, MatchFair, ConfirmFair
  <2>. QED
    BY <2>1, <2>2, <2>3 DEF Fair
<1>2. IInv /\ IInv' /\ Exclusive /\ Fair /\ [Next]_vars => Exclusive' /\ Fair'
  BY NextExclusive, NextFair
<1>3. Fair => GraceKept
  <2>. SUFFICES ASSUME Fair, NEW l \in Leagues, NEW p \in Players,
                       row[l][p] # None, <<l, p>> \notin lost \cup redated
                PROVE  Earned(row[l][p], l, p)
    BY DEF GraceKept, Earned
  <2>. QED
    BY DEF Fair, FairAt, RowFair, Backed
<1>. QED
  BY <1>1, <1>2, <1>3, SeasonInvariant, PTL DEF Spec
=============================================================================

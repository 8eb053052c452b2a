-------------------------- MODULE LobbyDraftProofs --------------------------
(* Theorems about the captain draft of a lobby: what happens in it, module   *)
(* LobbyDraft, for any players, whoever has an account, and sides of any     *)
(* size; and, at the end, what happens around it, module LobbyFreeze.        *)
EXTENDS LobbyDraft, LobbyFreeze, FiniteSetTheorems, TLAPS

USE LobbyDraftAssumption

Seats(s) ==
    /\ s.participants = s.pool \cup s.roster[0] \cup s.roster[1]
    /\ s.pool \cap (s.roster[0] \cup s.roster[1]) = {}
    /\ s.roster[0] \cap s.roster[1] = {}

Captains(s) ==
    \A t \in Team :
        IF s.phase = "vote" THEN s.captain[t] = None /\ s.roster[t] = {}
                            ELSE s.captain[t] \in s.roster[t] \cap Linked

(* How far a draft has come.                                                 *)
Course(s) ==
    /\ s.sided <=> s.phase \in {"pick", "hero"}
    /\ ~s.sided => s.pickIndex = 0
    /\ s.phase \in {"coin", "side"} => \A t \in Team : s.roster[t] = {s.captain[t]}
    /\ s.phase = "hero" => s.pool = {}
    /\ s.phase # "hero" => s.heroLockedIn = {} /\ ~s.resolved

Ballots(s) ==
    \A v \in Players : s.votes[v] # {} =>
        v \in LinkedIn(s) /\ s.votes[v] \subseteq LinkedIn(s)

Good(s) == s \in States /\ Seats(s) /\ Captains(s) /\ Course(s) /\ Ballots(s)

LEMMA InitialGood ==
    ASSUME NEW ps \in SUBSET Players
    PROVE  Good(InitialState(ps))
<1>. DEFINE s == InitialState(ps)
<1>1. s \in States
  BY DEF InitialState, States, Phases, Team, NoVotes
<1>2. Seats(s) /\ Captains(s) /\ Course(s) /\ Ballots(s)
  BY DEF InitialState, Seats, Captains, Course, Ballots, Team, NoVotes, LinkedIn
<1>. QED
  BY <1>1, <1>2 DEF Good

LEMMA PickGood ==
    ASSUME NEW s, Good(s), s.phase = "pick", NEW p \in s.pool
    PROVE  Good(PickOne(s, p))
<1>. DEFINE u == PickingTeam(s, s.pickIndex)
            n == PickOne(s, p)
<1>1. u \in Team /\ s.pickIndex + 1 \in Nat /\ p \in Players
  BY DEF PickingTeam, Team, Other, Good, States
<1>2. n = [s EXCEPT !.roster = [s.roster EXCEPT ![u] = s.roster[u] \cup {p}],
                    !.joined = [s.joined EXCEPT ![p] = s.pickIndex + 1],
                    !.pool = s.pool \ {p}, !.pickIndex = s.pickIndex + 1,
                    !.phase = IF s.pool = {p} THEN "hero" ELSE "pick"]
  BY DEF PickOne, PhaseAfterPicks, Good, Course, States
<1>. HIDE DEF n, u
<1>3. n \in States
  <2>1. [s.roster EXCEPT ![u] = s.roster[u] \cup {p}] \in [Team -> SUBSET Players]
    BY <1>1 DEF Good, States
  <2>2. [s.joined EXCEPT ![p] = s.pickIndex + 1] \in [Players -> Nat]
    BY <1>1 DEF Good, States
  <2>3. (IF s.pool = {p} THEN "hero" ELSE "pick") \in Phases
    BY DEF Phases
  <2>4. s.pool \ {p} \in SUBSET Players
    BY DEF Good, States
  <2>. QED
    BY <1>1, <1>2, <2>1, <2>2, <2>3, <2>4 DEF Good, States
<1>4. Seats(n)
  BY <1>1, <1>2 DEF Good, States, Seats, Team
<1>5. Captains(n)
  BY <1>1, <1>2 DEF Good, States, Captains, Team
<1>6. Course(n)
  BY <1>1, <1>2 DEF Good, States, Course, Team
<1>7. Ballots(n)
  BY <1>1, <1>2 DEF Good, States, Ballots, Team, LinkedIn
<1>. QED
  BY <1>3, <1>4, <1>5, <1>6, <1>7 DEF Good, n

LEMMA LastPickGood ==
    ASSUME NEW s, Good(s)
    PROVE  Good(AutoLastPick(s))
<1>1. CASE s.phase = "pick" /\ Cardinality(s.pool) = 1
  <2>1. IsFiniteSet(s.pool)
    BY FS_Subset DEF Good, States
  <2>2. s.pool # {}
    BY <1>1, <2>1, FS_EmptySet
  <2>. QED
    BY <1>1, <2>2, PickGood DEF AutoLastPick
<1>2. CASE ~(s.phase = "pick" /\ Cardinality(s.pool) = 1)
  BY <1>2 DEF AutoLastPick
<1>. QED
  BY <1>1, <1>2

LEMMA CloseVoteGood ==
    ASSUME NEW s, Good(s), s.phase = "vote", NEW n \in CloseVote(s)
    PROVE  Good(n)
<1>1. PICK e \in TallyVotes(s) :
        n = [s EXCEPT !.phase = "coin", !.votes = NoVotes,
                      !.captain = [t \in Team |-> e[t + 1]],
                      !.roster = [t \in Team |-> {e[t + 1]}],
                      !.pool = s.participants \ {e[1], e[2]}]
  BY DEF CloseVote
<1>2. /\ e[1] \in s.participants \cap Linked /\ e[2] \in s.participants \cap Linked
      /\ e[1] # e[2]
  BY DEF TallyVotes, LinkedIn
<1>3. NoVotes \in [Players -> SUBSET Players]
  BY DEF NoVotes
<1>4. \A t \in Team : e[t + 1] \in s.participants \cap Linked
  BY <1>2 DEF Team
<1>5. n \in States
  BY ZenonT(40), <1>1, <1>3, <1>4 DEF Good, States, Phases
<1>6. Seats(n)
  BY <1>1, <1>2 DEF Good, States, Seats, Team
<1>7. Captains(n)
  BY <1>1, <1>4 DEF Good, States, Captains, Team
<1>8. Course(n)
  BY <1>1 DEF Good, States, Course
<1>9. Ballots(n)
  BY <1>1 DEF Good, States, Ballots, NoVotes
<1>. QED
  BY <1>5, <1>6, <1>7, <1>8, <1>9 DEF Good

LEMMA CoinGood ==
    ASSUME NEW s, Good(s), s.phase = "coin", NEW t \in Team
    PROVE  Good(ChosenCoin(s, t))
<1>1. Other(t) \in Team
  BY DEF Other, Team
<1>. QED
  BY <1>1 DEF ChosenCoin, Good, States, Phases, Seats, Captains, Course, Ballots, LinkedIn

LEMMA SideGood ==
    ASSUME NEW s, Good(s), s.phase = "side"
    PROVE  Good(ApplySide(s))
<1>. DEFINE n == [s EXCEPT !.sided = TRUE, !.phase = IF s.pool = {} THEN "hero" ELSE "pick"]
<1>1. Good(n)
  BY DEF Good, States, Phases, Seats, Captains, Course, Ballots, LinkedIn
<1>. QED
  BY <1>1, LastPickGood DEF ApplySide

LEMMA HeroesGood ==
    ASSUME NEW s, Good(s), s.phase = "hero", NEW n \in ResolveHeroPhase(s)
    PROVE  Good(n)
<1>1. n = [s EXCEPT !.resolved = TRUE]
  BY DEF ResolveHeroPhase
<1>. QED
  BY <1>1 DEF Good, States, Phases, Seats, Captains, Course, Ballots, LinkedIn

LEMMA ClosingGood ==
    ASSUME NEW s, Good(s), NEW n \in CloseEarlyIfDone(s)
    PROVE  Good(n)
BY CloseVoteGood, HeroesGood DEF CloseEarlyIfDone

LEMMA ReplacedGood ==
    ASSUME NEW s, Good(s), NEW p \in s.participants, NEW q \in Players \ s.participants,
           (\E t \in Team : s.captain[t] = p) => q \in Linked
    PROVE  Good(Replaced(s, p, q))
<1>. DEFINE n == Replaced(s, p, q)
<1>1. n = [s EXCEPT !.participants = (s.participants \ {p}) \cup {q},
                    !.pool = Swap(s.pool, p, q),
                    !.captain = [t \in Team |-> IF s.captain[t] = p THEN q ELSE s.captain[t]],
                    !.roster = [t \in Team |-> Swap(s.roster[t], p, q)],
                    !.joined = [s.joined EXCEPT ![q] = s.joined[p], ![p] = 0],
                    !.votes = WithoutVotesFor(s.votes, p),
                    !.heroLockedIn = s.heroLockedIn \ {p}]
  BY DEF Replaced
<1>2. p \in Players /\ q \in Players /\ p # q /\ p # None
  BY DEF Good, States
<1>3. WithoutVotesFor(s.votes, p) \in [Players -> SUBSET Players]
  BY DEF WithoutVotesFor, Good, States
<1>4. [s.joined EXCEPT ![q] = s.joined[p], ![p] = 0] \in [Players -> Nat]
  BY <1>2 DEF Good, States
<1>. HIDE DEF n
<1>5. n \in States
  <2>1. \A ps \in SUBSET Players : Swap(ps, p, q) \in SUBSET Players
    BY <1>2 DEF Swap
  <2>2. [t \in Team |-> Swap(s.roster[t], p, q)] \in [Team -> SUBSET Players]
    BY <2>1 DEF Good, States
  <2>3. [t \in Team |-> IF s.captain[t] = p THEN q ELSE s.captain[t]]
           \in [Team -> Players \cup {None}]
    BY <1>2 DEF Good, States
  <2>. QED
    BY <1>1, <1>2, <1>3, <1>4, <2>1, <2>2, <2>3 DEF Good, States
<1>6. Seats(n)
  BY <1>1, <1>2 DEF Swap, Good, States, Seats, Team
<1>7. Captains(n)
  BY <1>1, <1>2 DEF Swap, Good, States, Captains, Team
<1>8. Course(n)
  BY <1>1, <1>2 DEF Swap, Good, States, Course, Captains, Team
<1>9. Ballots(n)
  BY <1>1, <1>2 DEF WithoutVotesFor, LinkedIn, Good, States, Ballots
<1>. QED
  BY <1>5, <1>6, <1>7, <1>8, <1>9 DEF Good, n

(* What is left when p has gone, before anybody succeeds to a captain.       *)
LEMMA WithoutFacts ==
    ASSUME NEW s, Good(s), NEW p \in s.participants
    PROVE  LET n == Without(s, p) IN
           /\ n \in States /\ Seats(n) /\ Ballots(n)
           /\ n.phase = s.phase /\ n.captain = s.captain /\ n.sided = s.sided
           /\ n.pickIndex = s.pickIndex /\ n.resolved = s.resolved
           /\ n.firstPickTeam = s.firstPickTeam
           /\ n.participants = s.participants \ {p} /\ n.pool = s.pool \ {p}
           /\ n.heroLockedIn = s.heroLockedIn \ {p}
           /\ \A t \in Team : n.roster[t] = s.roster[t] \ {p}
<1>. DEFINE n == Without(s, p)
<1>1. n = [s EXCEPT !.participants = s.participants \ {p}, !.pool = s.pool \ {p},
                    !.roster = [t \in Team |-> s.roster[t] \ {p}],
                    !.joined = [s.joined EXCEPT ![p] = 0],
                    !.votes = WithoutVotesFor(s.votes, p),
                    !.heroLockedIn = s.heroLockedIn \ {p}]
  BY DEF Without
<1>2. WithoutVotesFor(s.votes, p) \in [Players -> SUBSET Players]
  BY DEF WithoutVotesFor, Good, States
<1>. HIDE DEF n
<1>3. n \in States
  BY <1>1, <1>2 DEF Good, States
<1>4. Seats(n)
  BY <1>1 DEF Good, States, Seats, Team
<1>5. Ballots(n)
  BY <1>1 DEF WithoutVotesFor, LinkedIn, Good, States, Ballots
<1>6. /\ n.phase = s.phase /\ n.captain = s.captain /\ n.sided = s.sided
      /\ n.pickIndex = s.pickIndex /\ n.resolved = s.resolved
      /\ n.firstPickTeam = s.firstPickTeam
      /\ n.participants = s.participants \ {p} /\ n.pool = s.pool \ {p}
      /\ n.heroLockedIn = s.heroLockedIn \ {p}
      /\ \A t \in Team : n.roster[t] = s.roster[t] \ {p}
  BY <1>1 DEF Good, States
<1>. QED
  BY <1>3, <1>4, <1>5, <1>6 DEF n

LEMMA SucceededGood ==
    ASSUME NEW s, Good(s), NEW p \in s.participants, NEW n \in Succeeded(s, p)
    PROVE  Good(n)
<1>. DEFINE w == Without(s, p)
<1>1. /\ w \in States /\ Seats(w) /\ Ballots(w)
      /\ w.phase = s.phase /\ w.captain = s.captain /\ w.sided = s.sided
      /\ w.pickIndex = s.pickIndex /\ w.resolved = s.resolved
      /\ w.participants = s.participants \ {p} /\ w.pool = s.pool \ {p}
      /\ w.heroLockedIn = s.heroLockedIn \ {p}
      /\ \A t \in Team : w.roster[t] = s.roster[t] \ {p}
  BY WithoutFacts
<1>. HIDE DEF w
<1>2. p # None
  BY DEF Good, States
<1>3. CASE \E t \in Team : s.captain[t] = p
  <2>1. PICK t \in Team : s.captain[t] = p /\ n \in {Promoted(w, t, q) : q \in Successors(w, t)}
    BY <1>3 DEF Succeeded, w
  <2>2. PICK q \in Successors(w, t) : n = Promoted(w, t, q)
    BY <2>1
  <2>3. q \in Linked /\ (q \in w.roster[t] \/ (q \in w.pool /\ w.roster[t] \cap Linked = {}))
    BY DEF Successors
  <2>4. n = [w EXCEPT !.captain = [w.captain EXCEPT ![t] = q],
                      !.roster = [w.roster EXCEPT ![t] = w.roster[t] \cup {q}],
                      !.pool = w.pool \ {q}]
    BY <2>2 DEF Promoted
  <2>5. q \in Players
    BY <2>3
  <2>6. s.phase # "vote"
    BY <2>1, <1>2 DEF Good, Captains
  <2>7. n \in States
    BY <1>1, <2>4, <2>5 DEF States
  <2>8. Seats(n)
    BY <1>1, <2>3, <2>4 DEF States, Seats, Team
  <2>9. Captains(n)
    BY <1>1, <1>2, <2>1, <2>3, <2>4, <2>6 DEF States, Captains, Good, Seats, Team
  <2>10. Course(n)
    BY <1>1, <1>2, <2>1, <2>3, <2>4, <2>6 DEF States, Course, Captains, Good, Seats, Team
  <2>11. Ballots(n)
    BY <1>1, <2>4 DEF States, Ballots, LinkedIn
  <2>. QED
    BY <2>7, <2>8, <2>9, <2>10, <2>11 DEF Good
<1>4. CASE ~\E t \in Team : s.captain[t] = p
  <2>1. n = w
    BY <1>4 DEF Succeeded, w
  <2>2. Captains(w) /\ Course(w)
    BY <1>1, <1>4 DEF Good, Captains, Course, Seats, Team
  <2>. QED
    BY <1>1, <2>1, <2>2 DEF Good
<1>. QED
  BY <1>3, <1>4

LEMMA SettledGood ==
    ASSUME NEW s, Good(s)
    PROVE  Good(PoolSettled(s))
<1>1. CASE s.phase = "pick" /\ s.pool = {}
  <2>1. PoolSettled(s) = [s EXCEPT !.phase = "hero"]
    BY <1>1 DEF PoolSettled, PhaseAfterPicks, Good, Course
  <2>. QED
    BY <1>1, <2>1 DEF Good, States, Phases, Seats, Captains, Course, Ballots, LinkedIn
<1>2. CASE ~(s.phase = "pick" /\ s.pool = {})
  BY <1>2, LastPickGood DEF PoolSettled
<1>. QED
  BY <1>1, <1>2
-----------------------------------------------------------------------------
(* What a step may do to those who are seated.                               *)
Kept(s, n) ==
    /\ \A t \in Team : s.roster[t] \cap n.participants \subseteq n.roster[t]
    /\ \A t \in Team : s.captain[t] \in n.participants => n.captain[t] = s.captain[t]
    /\ n.pickIndex >= s.pickIndex
    /\ s.sided => n.sided /\ n.firstPickTeam = s.firstPickTeam

Stays(s, n) == Kept(s, n) /\ n.participants = s.participants

LEMMA StaysReflexive ==
    ASSUME NEW s, Good(s)
    PROVE  Stays(s, s)
BY DEF Stays, Kept, Good, States

LEMMA KeptThenStays ==
    ASSUME NEW s, Good(s), NEW m, Good(m), NEW n, Good(n), Kept(s, m), Stays(m, n)
    PROVE  Kept(s, n)
<1>1. s.pickIndex \in Nat /\ m.pickIndex \in Nat /\ n.pickIndex \in Nat
  BY DEF Good, States
<1>2. n.pickIndex >= s.pickIndex
  BY <1>1 DEF Stays, Kept
<1>. QED
  BY <1>2 DEF Stays, Kept

LEMMA PickStays ==
    ASSUME NEW s, Good(s), s.phase = "pick", NEW p \in s.pool
    PROVE  Stays(s, PickOne(s, p))
<1>. DEFINE u == PickingTeam(s, s.pickIndex)
            n == PickOne(s, p)
<1>1. n = [s EXCEPT !.roster = [s.roster EXCEPT ![u] = s.roster[u] \cup {p}],
                    !.joined = [s.joined EXCEPT ![p] = s.pickIndex + 1],
                    !.pool = s.pool \ {p}, !.pickIndex = s.pickIndex + 1,
                    !.phase = IF s.pool = {p} THEN PhaseAfterPicks(s) ELSE "pick"]
  BY DEF PickOne
<1>. HIDE DEF n, u
<1>. QED
  BY <1>1 DEF Stays, Kept, Good, States, n

LEMMA LastPickStays ==
    ASSUME NEW s, Good(s)
    PROVE  Stays(s, AutoLastPick(s))
<1>1. CASE s.phase = "pick" /\ Cardinality(s.pool) = 1
  <2>1. s.pool # {}
    BY <1>1, FS_EmptySet
  <2>. QED
    BY <1>1, <2>1, PickStays DEF AutoLastPick
<1>2. CASE ~(s.phase = "pick" /\ Cardinality(s.pool) = 1)
  BY <1>2, StaysReflexive DEF AutoLastPick
<1>. QED
  BY <1>1, <1>2

LEMMA CloseVoteStays ==
    ASSUME NEW s, Good(s), s.phase = "vote", NEW n \in CloseVote(s)
    PROVE  Stays(s, n)
<1>1. PICK e \in TallyVotes(s) :
        n = [s EXCEPT !.phase = "coin", !.votes = NoVotes,
                      !.captain = [t \in Team |-> e[t + 1]],
                      !.roster = [t \in Team |-> {e[t + 1]}],
                      !.pool = s.participants \ {e[1], e[2]}]
  BY DEF CloseVote
<1>. QED
  BY <1>1 DEF Stays, Kept, Good, States, Captains, Course

LEMMA CoinStays ==
    ASSUME NEW s, Good(s), s.phase = "coin", NEW t \in Team
    PROVE  Stays(s, ChosenCoin(s, t))
BY DEF ChosenCoin, Stays, Kept, Good, States, Course

LEMMA SideStays ==
    ASSUME NEW s, Good(s), s.phase = "side"
    PROVE  Stays(s, ApplySide(s))
<1>. DEFINE n == [s EXCEPT !.sided = TRUE, !.phase = IF s.pool = {} THEN "hero" ELSE "pick"]
<1>1. Good(n)
  BY DEF Good, States, Phases, Seats, Captains, Course, Ballots, LinkedIn
<1>2. Stays(s, n)
  BY DEF Stays, Kept, Good, States, Course
<1>3. Stays(n, ApplySide(s)) /\ Good(ApplySide(s))
  BY <1>1, LastPickStays, LastPickGood DEF ApplySide
<1>. HIDE DEF n
<1>4. Kept(s, ApplySide(s))
  BY <1>1, <1>2, <1>3, KeptThenStays DEF Stays
<1>. QED
  BY <1>2, <1>3, <1>4 DEF Stays

LEMMA ApplyPickStays ==
    ASSUME NEW s, Good(s), s.phase = "pick", NEW p \in s.pool
    PROVE  Good(ApplyPick(s, p)) /\ Stays(s, ApplyPick(s, p))
<1>. DEFINE m == PickOne(s, p)
<1>1. Good(m) /\ Stays(s, m)
  BY PickGood, PickStays
<1>2. Stays(m, ApplyPick(s, p)) /\ Good(ApplyPick(s, p))
  BY <1>1, LastPickStays, LastPickGood DEF ApplyPick
<1>. HIDE DEF m
<1>3. Kept(s, ApplyPick(s, p))
  BY <1>1, <1>2, KeptThenStays DEF Stays
<1>. QED
  BY <1>1, <1>2, <1>3 DEF Stays

LEMMA HeroesStay ==
    ASSUME NEW s, Good(s), s.phase = "hero", NEW n \in ResolveHeroPhase(s)
    PROVE  Stays(s, n)
<1>1. n = [s EXCEPT !.resolved = TRUE]
  BY DEF ResolveHeroPhase
<1>. QED
  BY <1>1 DEF Stays, Kept, Good, States

LEMMA ClosingStays ==
    ASSUME NEW s, Good(s), NEW n \in CloseEarlyIfDone(s)
    PROVE  Stays(s, n)
BY CloseVoteStays, HeroesStay, StaysReflexive DEF CloseEarlyIfDone

LEMMA ReplacedKept ==
    ASSUME NEW s, Good(s), NEW p \in s.participants, NEW q \in Players \ s.participants
    PROVE  Kept(s, Replaced(s, p, q))
<1>. DEFINE n == Replaced(s, p, q)
<1>1. /\ n.participants = (s.participants \ {p}) \cup {q}
      /\ n.captain = [t \in Team |-> IF s.captain[t] = p THEN q ELSE s.captain[t]]
      /\ n.roster = [t \in Team |-> Swap(s.roster[t], p, q)]
      /\ n.pickIndex = s.pickIndex /\ n.sided = s.sided
      /\ n.firstPickTeam = s.firstPickTeam
  BY DEF Replaced, Good, States
<1>2. \A t \in Team : s.roster[t] \subseteq s.participants
  BY DEF Good, Seats, Team
<1>3. s.pickIndex \in Nat /\ p # q
  BY DEF Good, States
<1>. HIDE DEF n
<1>. QED
  BY <1>1, <1>2, <1>3 DEF Kept, Swap, n

LEMMA SucceededKept ==
    ASSUME NEW s, Good(s), NEW p \in s.participants, NEW n \in Succeeded(s, p)
    PROVE  Kept(s, n)
<1>. DEFINE w == Without(s, p)
<1>1. /\ w \in States
      /\ w.captain = s.captain /\ w.sided = s.sided /\ w.pickIndex = s.pickIndex
      /\ w.firstPickTeam = s.firstPickTeam /\ w.participants = s.participants \ {p}
      /\ \A t \in Team : w.roster[t] = s.roster[t] \ {p}
  BY WithoutFacts
<1>2. s.pickIndex \in Nat
  BY DEF Good, States
<1>. HIDE DEF w
<1>3. CASE \E t \in Team : s.captain[t] = p
  <2>1. PICK t \in Team : s.captain[t] = p /\ n \in {Promoted(w, t, q) : q \in Successors(w, t)}
    BY <1>3 DEF Succeeded, w
  <2>2. PICK q \in Successors(w, t) : n = Promoted(w, t, q)
    BY <2>1
  <2>3. n = [w EXCEPT !.captain = [w.captain EXCEPT ![t] = q],
                      !.roster = [w.roster EXCEPT ![t] = w.roster[t] \cup {q}],
                      !.pool = w.pool \ {q}]
    BY <2>2 DEF Promoted
  <2>4. /\ n.participants = w.participants /\ n.sided = w.sided
        /\ n.pickIndex = w.pickIndex /\ n.firstPickTeam = w.firstPickTeam
        /\ \A u \in Team \ {t} : n.captain[u] = w.captain[u]
        /\ \A u \in Team : w.roster[u] \subseteq n.roster[u]
    BY <1>1, <2>3 DEF States
  <2>. QED
    BY <1>1, <1>2, <2>1, <2>4 DEF Kept
<1>4. CASE ~\E t \in Team : s.captain[t] = p
  <2>1. n = w
    BY <1>4 DEF Succeeded, w
  <2>. QED
    BY <1>1, <1>2, <2>1 DEF Kept
<1>. QED
  BY <1>3, <1>4

LEMMA SettledStays ==
    ASSUME NEW s, Good(s)
    PROVE  Stays(s, PoolSettled(s))
<1>1. CASE s.phase = "pick" /\ s.pool = {}
  BY <1>1 DEF PoolSettled, Stays, Kept, Good, States
<1>2. CASE ~(s.phase = "pick" /\ s.pool = {})
  BY <1>2, LastPickStays DEF PoolSettled
<1>. QED
  BY <1>1, <1>2
-----------------------------------------------------------------------------
(* Somebody can act: in the picks, and where all act at once.                *)
PicksOpen(s) == s.phase = "pick" => Cardinality(s.pool) >= 2

Open(s) ==
    /\ PicksOpen(s)
    /\ s.phase = "vote" => \E p \in LinkedIn(s) : s.votes[p] = {}
    /\ s.phase = "hero" /\ ~s.resolved => ~(LinkedIn(s) \subseteq s.heroLockedIn)

LEMMA CardinalPool ==
    ASSUME NEW s, Good(s)
    PROVE  /\ IsFiniteSet(s.pool) /\ Cardinality(s.pool) \in Nat
           /\ Cardinality(s.pool) = 0 <=> s.pool = {}
<1>1. IsFiniteSet(s.pool)
  BY FS_Subset DEF Good, States
<1>. QED
  BY <1>1, FS_CardinalityType, FS_EmptySet

(* Nobody has asked for a hero yet, and the captains can.                    *)
LEMMA FreshHeroes ==
    ASSUME NEW s, Good(s), s.phase = "hero", s.heroLockedIn = {}
    PROVE  Open(s)
<1>1. s.captain[0] \in LinkedIn(s)
  BY DEF Good, Captains, Seats, LinkedIn, Team
<1>. QED
  BY <1>1 DEF Open, PicksOpen

LEMMA LastPickOpen ==
    ASSUME NEW s, Good(s), s.phase = "pick", s.pool # {}
    PROVE  Open(AutoLastPick(s))
<1>1. CASE Cardinality(s.pool) = 1
  <2>. DEFINE n == PickOne(s, CHOOSE p \in s.pool : TRUE)
  <2>1. AutoLastPick(s) = n /\ Good(n)
    BY <1>1, LastPickGood DEF AutoLastPick
  <2>2. PICK x : s.pool = {x}
    BY <1>1, CardinalPool, FS_Singleton
  <2>3. n.phase = PhaseAfterPicks(s) /\ n.heroLockedIn = s.heroLockedIn
    BY <2>2 DEF PickOne, Good, States
  <2>4. PhaseAfterPicks(s) = "hero" /\ s.heroLockedIn = {}
    BY DEF Good, Course, PhaseAfterPicks
  <2>. HIDE DEF n
  <2>. QED
    BY <2>1, <2>3, <2>4, FreshHeroes
<1>2. CASE Cardinality(s.pool) # 1
  <2>1. Cardinality(s.pool) >= 2
    BY <1>2, CardinalPool
  <2>. QED
    BY <1>2, <2>1 DEF AutoLastPick, Open, PicksOpen
<1>. QED
  BY <1>1, <1>2

LEMMA ApplyPickOpen ==
    ASSUME NEW s, Good(s), s.phase = "pick", NEW p \in s.pool
    PROVE  Open(ApplyPick(s, p))
<1>. DEFINE m == PickOne(s, p)
<1>1. Good(m)
  BY PickGood
<1>2. /\ m.phase = IF s.pool = {p} THEN PhaseAfterPicks(s) ELSE "pick"
      /\ m.heroLockedIn = s.heroLockedIn /\ m.pool = s.pool \ {p}
  BY DEF PickOne, Good, States
<1>3. PhaseAfterPicks(s) = "hero" /\ s.heroLockedIn = {}
  BY DEF Good, Course, PhaseAfterPicks
<1>. HIDE DEF m
<1>4. CASE s.pool = {p}
  BY <1>1, <1>2, <1>3, <1>4, FreshHeroes DEF ApplyPick, AutoLastPick, m
<1>5. CASE s.pool # {p}
  <2>1. m.phase = "pick" /\ m.pool # {}
    BY <1>2, <1>5
  <2>. QED
    BY <1>1, <2>1, LastPickOpen DEF ApplyPick, m
<1>. QED
  BY <1>4, <1>5

LEMMA SideOpen ==
    ASSUME NEW s, Good(s), s.phase = "side"
    PROVE  Open(ApplySide(s))
<1>. DEFINE n == [s EXCEPT !.sided = TRUE, !.phase = IF s.pool = {} THEN "hero" ELSE "pick"]
<1>1. Good(n)
  BY DEF Good, States, Phases, Seats, Captains, Course, Ballots, LinkedIn
<1>2. /\ n.phase = IF s.pool = {} THEN "hero" ELSE "pick"
      /\ n.pool = s.pool /\ n.heroLockedIn = {}
  BY DEF Good, States, Course
<1>3. ApplySide(s) = AutoLastPick(n)
  BY DEF ApplySide
<1>. HIDE DEF n
<1>4. CASE s.pool = {}
  BY <1>1, <1>2, <1>3, <1>4, FreshHeroes DEF AutoLastPick
<1>5. CASE s.pool # {}
  BY <1>1, <1>2, <1>3, <1>5, LastPickOpen
<1>. QED
  BY <1>4, <1>5

LEMMA ClosingOpen ==
    ASSUME NEW s, Good(s), PicksOpen(s), NEW n \in CloseEarlyIfDone(s)
    PROVE  Open(n)
<1>1. CASE s.phase = "vote" /\ \A p \in LinkedIn(s) : s.votes[p] # {}
  <2>1. n \in CloseVote(s)
    BY <1>1 DEF CloseEarlyIfDone
  <2>2. n.phase = "coin"
    BY <2>1 DEF CloseVote, Good, States
  <2>. QED
    BY <2>2 DEF Open, PicksOpen
<1>2. CASE s.phase = "hero" /\ LinkedIn(s) \subseteq s.heroLockedIn
  <2>1. n = [s EXCEPT !.resolved = TRUE]
    BY <1>2 DEF CloseEarlyIfDone, ResolveHeroPhase
  <2>2. n.resolved /\ n.phase = "hero"
    BY <1>2, <2>1 DEF Good, States
  <2>. QED
    BY <2>2 DEF Open, PicksOpen
<1>3. CASE /\ ~(s.phase = "vote" /\ \A p \in LinkedIn(s) : s.votes[p] # {})
           /\ ~(s.phase = "hero" /\ LinkedIn(s) \subseteq s.heroLockedIn)
  <2>1. n = s
    BY <1>3 DEF CloseEarlyIfDone
  <2>. QED
    BY <1>3, <2>1 DEF Open
<1>. QED
  BY <1>1, <1>2, <1>3

LEMMA SettledOpen ==
    ASSUME NEW s, Good(s)
    PROVE  PicksOpen(PoolSettled(s))
<1>1. CASE s.phase = "pick" /\ s.pool = {}
  <2>1. PoolSettled(s).phase = "hero"
    BY <1>1 DEF PoolSettled, PhaseAfterPicks, Good, Course, States
  <2>. QED
    BY <2>1 DEF PicksOpen
<1>2. CASE s.phase = "pick" /\ s.pool # {}
  BY <1>2, LastPickOpen DEF PoolSettled, Open
<1>3. CASE s.phase # "pick"
  BY <1>3 DEF PoolSettled, AutoLastPick, PicksOpen
<1>. QED
  BY <1>1, <1>2, <1>3

(* A newcomer for a leaver keeps the size of a list.                         *)
LEMMA SwapSize ==
    ASSUME NEW ps \in SUBSET Players, NEW p, NEW q, q \notin ps
    PROVE  Cardinality(Swap(ps, p, q)) = Cardinality(ps)
<1>1. IsFiniteSet(ps) /\ Cardinality(ps) \in Nat
  BY FS_Subset, FS_CardinalityType
<1>2. CASE p \in ps
  <2>1. /\ IsFiniteSet(ps \ {p})
        /\ Cardinality(ps \ {p}) = Cardinality(ps) - 1
    BY <1>1, <1>2, FS_RemoveElement
  <2>2. Cardinality((ps \ {p}) \cup {q}) = Cardinality(ps \ {p}) + 1
    BY <2>1, FS_AddElement
  <2>. QED
    BY <1>1, <1>2, <2>1, <2>2 DEF Swap
<1>3. CASE p \notin ps
  BY <1>3 DEF Swap
<1>. QED
  BY <1>2, <1>3

LEMMA ReplacedOpen ==
    ASSUME NEW s, Good(s), PicksOpen(s), NEW p \in s.participants,
           NEW q \in Players \ s.participants
    PROVE  PicksOpen(Replaced(s, p, q))
<1>1. Replaced(s, p, q).phase = s.phase /\ Replaced(s, p, q).pool = Swap(s.pool, p, q)
  BY DEF Replaced, Good, States
<1>2. q \notin s.pool /\ s.pool \in SUBSET Players
  BY DEF Good, Seats, States
<1>. QED
  BY <1>1, <1>2, SwapSize DEF PicksOpen
-----------------------------------------------------------------------------
(* Sizes. Of the picks made, Turns were team t's: the snake gives the first  *)
(* to pick the 1st, 4th, 5th, 8th, ... pick.                                 *)
Turns(s, t) ==
    s.pickIndex \div 2 +
    (IF s.pickIndex % 4 = (IF t = s.firstPickTeam THEN 1 ELSE 3) THEN 1 ELSE 0)

(* The picks that team t will make of those to come.                         *)
Coming(s, t) ==
    {i \in s.pickIndex .. s.pickIndex + Cardinality(s.pool) - 1 : PickingTeam(s, i) = t}

Sized(s) ==
    /\ Cardinality(s.participants) >= 4
    /\ s.phase = "vote" => Cardinality(s.participants) <= 2 * SideSlots
    /\ s.phase # "vote" => /\ Cardinality(s.pool) + s.pickIndex + 2 <= 2 * SideSlots
                           /\ \A t \in Team : ProjectedSize(s, t) >= 2
    /\ \A t \in Team : Cardinality(s.roster[t]) <= 1 + Turns(s, t)

LEMMA Finite ==
    ASSUME NEW s \in States
    PROVE  /\ IsFiniteSet(s.pool) /\ Cardinality(s.pool) \in Nat
           /\ IsFiniteSet(s.participants) /\ Cardinality(s.participants) \in Nat
           /\ \A t \in Team : IsFiniteSet(s.roster[t]) /\ Cardinality(s.roster[t]) \in Nat
           /\ s.pickIndex \in Nat
           /\ \A t \in Team : IsFiniteSet(Coming(s, t)) /\ Cardinality(Coming(s, t)) \in Nat
<1>1. /\ s.pool \subseteq Players /\ s.participants \subseteq Players
      /\ \A t \in Team : s.roster[t] \subseteq Players
      /\ s.pickIndex \in Nat
  BY DEF States
<1>2. /\ IsFiniteSet(s.pool) /\ Cardinality(s.pool) \in Nat
      /\ IsFiniteSet(s.participants) /\ Cardinality(s.participants) \in Nat
      /\ \A t \in Team : IsFiniteSet(s.roster[t]) /\ Cardinality(s.roster[t]) \in Nat
  BY <1>1, FS_Subset, FS_CardinalityType
<1>3. ASSUME NEW t \in Team
      PROVE  IsFiniteSet(Coming(s, t)) /\ Cardinality(Coming(s, t)) \in Nat
  <2>1. IsFiniteSet(s.pickIndex .. s.pickIndex + Cardinality(s.pool) - 1)
    BY <1>1, <1>2, FS_Interval
  <2>2. Coming(s, t) \subseteq s.pickIndex .. s.pickIndex + Cardinality(s.pool) - 1
    BY DEF Coming
  <2>. QED
    BY <2>1, <2>2, FS_Subset, FS_CardinalityType
<1>. QED
  BY <1>1, <1>2, <1>3

LEMMA OneMore ==
    ASSUME NEW S, IsFiniteSet(S), NEW x
    PROVE  /\ IsFiniteSet(S \cup {x}) /\ Cardinality(S \cup {x}) \in Nat
           /\ Cardinality(S \cup {x}) <= Cardinality(S) + 1
<1>1. IsFiniteSet(S \cup {x}) /\ Cardinality(S) \in Nat
  BY FS_AddElement, FS_CardinalityType
<1>2. Cardinality(S \cup {x}) = IF x \in S THEN Cardinality(S) ELSE Cardinality(S) + 1
  BY FS_AddElement
<1>. QED
  BY <1>1, <1>2

LEMMA OneLess ==
    ASSUME NEW S, IsFiniteSet(S), NEW x
    PROVE  Cardinality(S \ {x}) <= Cardinality(S)
<1>1. IsFiniteSet(S \ {x}) /\ Cardinality(S) \in Nat
  BY FS_RemoveElement, FS_CardinalityType
<1>2. Cardinality(S \ {x}) = IF x \in S THEN Cardinality(S) - 1 ELSE Cardinality(S)
  BY FS_RemoveElement
<1>. QED
  BY <1>1, <1>2

LEMMA One ==
    ASSUME NEW x
    PROVE  Cardinality({x}) = 1
BY FS_Singleton

LEMMA Projection ==
    \A s, t : ProjectedSize(s, t) = Cardinality(s.roster[t]) + Cardinality(Coming(s, t))
BY DEF ProjectedSize, Coming

(* The sum in ProjectedSize depends on these four fields only.               *)
LEMMA SameProjection ==
    ASSUME NEW s, NEW n, NEW t \in Team,
           n.firstPickTeam = s.firstPickTeam, n.pickIndex = s.pickIndex,
           Cardinality(n.pool) = Cardinality(s.pool),
           Cardinality(n.roster[t]) = Cardinality(s.roster[t])
    PROVE  ProjectedSize(n, t) = ProjectedSize(s, t)
BY DEF ProjectedSize, PickingTeam

(* A pick moves one seat from the picks to come to the roster.               *)
LEMMA PickSized ==
    ASSUME NEW s, Good(s), Sized(s), s.phase = "pick", NEW p \in s.pool
    PROVE  Sized(PickOne(s, p))
<1>. DEFINE u == PickingTeam(s, s.pickIndex)
            n == PickOne(s, p)
            k == s.pickIndex
<1>1. u \in Team /\ s.firstPickTeam \in Team
  BY DEF PickingTeam, Team, Other, Good, States
<1>2. /\ n.roster = [s.roster EXCEPT ![u] = s.roster[u] \cup {p}]
      /\ n.pool = s.pool \ {p} /\ n.pickIndex = k + 1
      /\ n.phase # "vote" /\ n.participants = s.participants
      /\ n.firstPickTeam = s.firstPickTeam
  BY DEF PickOne, PhaseAfterPicks, Good, States
<1>3. Good(n)
  BY PickGood
<1>4. s \in States /\ n \in States
  BY <1>3 DEF Good
<1>. HIDE DEF n, u
<1>5. Cardinality(n.pool) = Cardinality(s.pool) - 1
  <2>1. IsFiniteSet(s.pool)
    BY <1>4, Finite
  <2>. QED
    BY <1>2, <2>1, FS_RemoveElement
<1>6. Cardinality(n.roster[u]) = Cardinality(s.roster[u]) + 1
  <2>1. p \notin s.roster[u]
    BY <1>1 DEF Good, Seats, Team
  <2>2. n.roster[u] = s.roster[u] \cup {p}
    BY <1>1, <1>2, <1>4 DEF States
  <2>. QED
    BY <1>1, <1>4, <2>1, <2>2, Finite, FS_AddElement
<1>7. \A t \in Team \ {u} : n.roster[t] = s.roster[t]
  BY <1>1, <1>2, <1>4 DEF States
<1>8. Coming(n, u) = Coming(s, u) \ {k} /\ k \in Coming(s, u)
  <2>1. Cardinality(s.pool) \in Nat \ {0} /\ k \in Nat
    BY <1>4, Finite, FS_EmptySet
  <2>. QED
    BY <1>2, <1>5, <2>1 DEF Coming, PickingTeam, u
<1>9. \A t \in Team \ {u} : Coming(n, t) = Coming(s, t)
  <2>1. Cardinality(s.pool) \in Nat /\ k \in Nat
    BY <1>4, Finite
  <2>. QED
    BY <1>2, <1>5, <2>1 DEF Coming, PickingTeam, u
<1>10. ASSUME NEW t \in Team
       PROVE  ProjectedSize(n, t) = ProjectedSize(s, t)
  <2>1. CASE t = u
    <3>1. /\ IsFiniteSet(Coming(s, u)) /\ Cardinality(Coming(s, u)) \in Nat
          /\ Cardinality(s.roster[u]) \in Nat
      BY <1>1, <1>4, Finite
    <3>2. Cardinality(Coming(s, u) \ {k}) = Cardinality(Coming(s, u)) - 1
      BY <1>8, <3>1, FS_RemoveElement
    <3>3. /\ ProjectedSize(n, u) = Cardinality(n.roster[u]) + Cardinality(Coming(s, u) \ {k})
          /\ ProjectedSize(s, u) = Cardinality(s.roster[u]) + Cardinality(Coming(s, u))
      BY <1>8, Projection
    <3>. QED
      BY <1>6, <2>1, <3>1, <3>2, <3>3
  <2>2. CASE t # u
    BY <1>7, <1>9, <2>2, Projection
  <2>. QED
    BY <2>1, <2>2
<1>11. k \in Nat
  BY <1>4, Finite
<1>12. Turns(n, u) = Turns(s, u) + 1
  BY <1>1, <1>2, <1>11 DEF Turns, PickingTeam, Team, Other, u
<1>13. \A t \in Team \ {u} : Turns(n, t) = Turns(s, t)
  BY <1>1, <1>2, <1>11 DEF Turns, PickingTeam, Team, Other, u
<1>14. ASSUME NEW t \in Team
       PROVE  Cardinality(n.roster[t]) <= 1 + Turns(n, t)
  <2>1. Turns(s, t) \in Nat /\ Cardinality(s.roster[t]) \in Nat
    BY <1>4, <1>11, Finite DEF Turns
  <2>2. Cardinality(s.roster[t]) <= 1 + Turns(s, t)
    BY DEF Sized
  <2>. QED
    BY <1>6, <1>7, <1>12, <1>13, <2>1, <2>2
<1>15. Cardinality(n.pool) + n.pickIndex + 2 <= 2 * SideSlots
  BY <1>2, <1>4, <1>5, <1>11, Finite DEF Sized
<1>. QED
  BY <1>2, <1>10, <1>14, <1>15 DEF Sized, n
LEMMA LastPickSized ==
    ASSUME NEW s, Good(s), Sized(s)
    PROVE  Sized(AutoLastPick(s))
<1>1. CASE s.phase = "pick" /\ Cardinality(s.pool) = 1
  <2>1. s.pool # {}
    BY <1>1, FS_EmptySet
  <2>. QED
    BY <1>1, <2>1, PickSized DEF AutoLastPick
<1>2. CASE ~(s.phase = "pick" /\ Cardinality(s.pool) = 1)
  BY <1>2 DEF AutoLastPick
<1>. QED
  BY <1>1, <1>2

LEMMA ApplyPickSized ==
    ASSUME NEW s, Good(s), Sized(s), s.phase = "pick", NEW p \in s.pool
    PROVE  Sized(ApplyPick(s, p))
BY PickGood, PickSized, LastPickSized DEF ApplyPick

(* Before the picks, two in the pool are one for each team.                  *)
LEMMA TwoComing ==
    ASSUME NEW s \in States, s.pickIndex = 0, Cardinality(s.pool) >= 2, NEW t \in Team,
           Cardinality(s.roster[t]) = 1
    PROVE  ProjectedSize(s, t) >= 2 /\ Cardinality(s.roster[t]) <= 1 + Turns(s, t)
<1>1. Cardinality(s.pool) \in Nat /\ s.firstPickTeam \in Team
  BY Finite DEF States
<1>2. 0 \in Coming(s, t) \/ 1 \in Coming(s, t)
  BY <1>1 DEF Coming, PickingTeam, Team, Other
<1>3. IsFiniteSet(Coming(s, t)) /\ Cardinality(Coming(s, t)) \in Nat
  BY Finite
<1>4. Cardinality(Coming(s, t)) # 0
  BY <1>2, <1>3, FS_EmptySet
<1>5. ProjectedSize(s, t) = 1 + Cardinality(Coming(s, t))
  BY Projection
<1>6. Turns(s, t) = 0
  BY DEF Turns
<1>. QED
  BY <1>3, <1>4, <1>5, <1>6

LEMMA CloseVoteSized ==
    ASSUME NEW s, Good(s), Sized(s), s.phase = "vote", NEW n \in CloseVote(s)
    PROVE  Sized(n)
<1>1. PICK e \in TallyVotes(s) :
        n = [s EXCEPT !.phase = "coin", !.votes = NoVotes,
                      !.captain = [t \in Team |-> e[t + 1]],
                      !.roster = [t \in Team |-> {e[t + 1]}],
                      !.pool = s.participants \ {e[1], e[2]}]
  BY DEF CloseVote
<1>2. e[1] \in s.participants /\ e[2] \in s.participants /\ e[1] # e[2]
  BY DEF TallyVotes, LinkedIn
<1>3. /\ n.phase = "coin" /\ n.pool = (s.participants \ {e[1]}) \ {e[2]}
      /\ n.pickIndex = 0 /\ n.participants = s.participants
      /\ \A t \in Team : n.roster[t] = {e[t + 1]}
  BY <1>1 DEF Good, States, Course
<1>4. n \in States
  BY CloseVoteGood DEF Good
<1>5. IsFiniteSet(s.participants) /\ Cardinality(s.participants) \in Nat
  BY Finite DEF Good
<1>6. Cardinality(n.pool) = Cardinality(s.participants) - 2
  <2>1. /\ IsFiniteSet(s.participants \ {e[1]})
        /\ Cardinality(s.participants \ {e[1]}) = Cardinality(s.participants) - 1
    BY <1>2, <1>5, FS_RemoveElement
  <2>2. Cardinality((s.participants \ {e[1]}) \ {e[2]})
          = Cardinality(s.participants \ {e[1]}) - 1
    <3>1. PICK S : S = s.participants \ {e[1]}
      OBVIOUS
    <3>2. PICK c : c = e[2]
      OBVIOUS
    <3>3. IsFiniteSet(S) /\ c \in S
      BY <1>2, <2>1, <3>1, <3>2
    <3>4. Cardinality(S \ {c}) = Cardinality(S) - 1
      BY <3>3, FS_RemoveElement
    <3>. QED
      BY <3>1, <3>2, <3>4
  <2>. QED
    BY <1>3, <1>5, <2>1, <2>2
<1>7. ASSUME NEW t \in Team
      PROVE  Cardinality(n.roster[t]) = 1
  <2>1. n.roster[t] = {e[t + 1]}
    BY <1>3
  <2>. QED
    BY <2>1, One
<1>8. Cardinality(s.participants) >= 4 /\ Cardinality(s.participants) <= 2 * SideSlots
  BY DEF Sized
<1>9. Cardinality(n.pool) >= 2
  BY <1>5, <1>6, <1>8
<1>10. \A t \in Team : ProjectedSize(n, t) >= 2 /\ Cardinality(n.roster[t]) <= 1 + Turns(n, t)
  BY <1>3, <1>4, <1>7, <1>9, TwoComing
<1>11. Cardinality(n.pool) + n.pickIndex + 2 <= 2 * SideSlots
  BY <1>3, <1>5, <1>6, <1>8
<1>. QED
  BY <1>3, <1>8, <1>10, <1>11 DEF Sized

LEMMA CoinSized ==
    ASSUME NEW s, Good(s), Sized(s), s.phase = "coin", NEW u \in Team
    PROVE  Sized(ChosenCoin(s, u))
<1>. DEFINE n == ChosenCoin(s, u)
<1>1. /\ n.phase = "side" /\ n.pool = s.pool /\ n.pickIndex = 0 /\ s.pickIndex = 0
      /\ n.participants = s.participants /\ n.roster = s.roster
  BY DEF ChosenCoin, Good, States, Course
<1>2. n \in States /\ s \in States
  BY CoinGood DEF Good
<1>. HIDE DEF n
<1>3. \A t \in Team : s.roster[t] = {s.captain[t]}
  BY DEF Good, Course
<1>4. s.participants = (s.pool \cup {s.captain[0]}) \cup {s.captain[1]}
  BY <1>3 DEF Good, Seats, Team
<1>5. IsFiniteSet(s.pool) /\ Cardinality(s.pool) \in Nat
  BY <1>2, Finite
<1>6. Cardinality(s.pool) >= 2
  <2>1. /\ IsFiniteSet(s.pool \cup {s.captain[0]})
        /\ Cardinality(s.pool \cup {s.captain[0]}) <= Cardinality(s.pool) + 1
        /\ Cardinality(s.pool \cup {s.captain[0]}) \in Nat
    BY <1>5, OneMore
  <2>2. Cardinality(s.participants) <= Cardinality(s.pool \cup {s.captain[0]}) + 1
    BY <1>4, <2>1, OneMore
  <2>3. Cardinality(s.participants) >= 4 /\ Cardinality(s.participants) \in Nat
    BY <1>2, Finite DEF Sized
  <2>. QED
    BY <1>5, <2>1, <2>2, <2>3
<1>7. ASSUME NEW t \in Team
      PROVE  Cardinality(n.roster[t]) = 1
  <2>1. n.roster[t] = {s.captain[t]}
    BY <1>1, <1>3
  <2>. QED
    BY <2>1, One
<1>8. \A t \in Team : ProjectedSize(n, t) >= 2 /\ Cardinality(n.roster[t]) <= 1 + Turns(n, t)
  BY <1>1, <1>2, <1>6, <1>7, TwoComing
<1>. QED
  BY <1>1, <1>8 DEF Sized, n

(* A step that leaves the lists and the picks alone, and does not end a vote. *)
LEMMA SameSized ==
    ASSUME NEW s, Good(s), Sized(s), NEW n, n.phase = "vote" <=> s.phase = "vote",
           n.participants = s.participants, n.pool = s.pool,
           n.roster = s.roster, n.pickIndex = s.pickIndex,
           n.firstPickTeam = s.firstPickTeam
    PROVE  Sized(n)
<1>1. \A t \in Team : ProjectedSize(n, t) = ProjectedSize(s, t) /\ Turns(n, t) = Turns(s, t)
  BY SameProjection DEF Turns
<1>. QED
  BY <1>1 DEF Sized

LEMMA SideSized ==
    ASSUME NEW s, Good(s), Sized(s), s.phase = "side"
    PROVE  Sized(ApplySide(s))
<1>. DEFINE n == [s EXCEPT !.sided = TRUE, !.phase = IF s.pool = {} THEN "hero" ELSE "pick"]
<1>1. Good(n)
  BY DEF Good, States, Phases, Seats, Captains, Course, Ballots, LinkedIn
<1>2. /\ n.phase # "vote" /\ n.participants = s.participants /\ n.pool = s.pool
      /\ n.roster = s.roster /\ n.pickIndex = s.pickIndex
      /\ n.firstPickTeam = s.firstPickTeam
  BY DEF Good, States
<1>3. ApplySide(s) = AutoLastPick(n)
  BY DEF ApplySide
<1>. HIDE DEF n
<1>4. Sized(n)
  BY <1>2, SameSized
<1>. QED
  BY <1>1, <1>3, <1>4, LastPickSized

LEMMA HeroesSized ==
    ASSUME NEW s, Good(s), Sized(s), s.phase = "hero", NEW n \in ResolveHeroPhase(s)
    PROVE  Sized(n)
<1>1. n = [s EXCEPT !.resolved = TRUE]
  BY DEF ResolveHeroPhase
<1>2. /\ n.phase = s.phase /\ n.participants = s.participants /\ n.pool = s.pool
      /\ n.roster = s.roster /\ n.pickIndex = s.pickIndex
      /\ n.firstPickTeam = s.firstPickTeam
  BY <1>1 DEF Good, States
<1>. QED
  BY <1>2, SameSized

LEMMA ClosingSized ==
    ASSUME NEW s, Good(s), Sized(s), NEW n \in CloseEarlyIfDone(s)
    PROVE  Sized(n)
BY CloseVoteSized, HeroesSized DEF CloseEarlyIfDone

LEMMA SettledSized ==
    ASSUME NEW s, Good(s), Sized(s)
    PROVE  Sized(PoolSettled(s))
<1>1. CASE s.phase = "pick" /\ s.pool = {}
  <2>1. PoolSettled(s) = [s EXCEPT !.phase = "hero"]
    BY <1>1 DEF PoolSettled, PhaseAfterPicks, Good, Course
  <2>2. /\ PoolSettled(s).phase = "hero" /\ PoolSettled(s).participants = s.participants
        /\ PoolSettled(s).pool = s.pool /\ PoolSettled(s).roster = s.roster
        /\ PoolSettled(s).pickIndex = s.pickIndex
        /\ PoolSettled(s).firstPickTeam = s.firstPickTeam
    BY <2>1 DEF Good, States
  <2>. QED
    BY <1>1, <2>2, SameSized
<1>2. CASE ~(s.phase = "pick" /\ s.pool = {})
  BY <1>2, LastPickSized DEF PoolSettled
<1>. QED
  BY <1>1, <1>2

LEMMA ReplacedSized ==
    ASSUME NEW s, Good(s), Sized(s), NEW p \in s.participants,
           NEW q \in Players \ s.participants
    PROVE  Sized(Replaced(s, p, q))
<1>. DEFINE n == Replaced(s, p, q)
<1>1. /\ n.participants = Swap(s.participants, p, q) /\ n.pool = Swap(s.pool, p, q)
      /\ \A t \in Team : n.roster[t] = Swap(s.roster[t], p, q)
      /\ n.phase = s.phase /\ n.pickIndex = s.pickIndex
      /\ n.firstPickTeam = s.firstPickTeam
  BY DEF Replaced, Good, States, Swap
<1>2. /\ s.participants \in SUBSET Players /\ s.pool \in SUBSET Players /\ q \notin s.pool
      /\ \A t \in Team : s.roster[t] \in SUBSET Players /\ q \notin s.roster[t]
  BY DEF Good, States, Seats, Team
<1>. HIDE DEF n
<1>3. /\ Cardinality(n.participants) = Cardinality(s.participants)
      /\ Cardinality(n.pool) = Cardinality(s.pool)
      /\ \A t \in Team : Cardinality(n.roster[t]) = Cardinality(s.roster[t])
  BY <1>1, <1>2, SwapSize
<1>4. \A t \in Team : ProjectedSize(n, t) = ProjectedSize(s, t) /\ Turns(n, t) = Turns(s, t)
  BY <1>1, <1>3, SameProjection DEF Turns
<1>. QED
  BY <1>1, <1>3, <1>4 DEF Sized, n

(* removeParticipant refuses what would leave a team of one; nothing grows.  *)
LEMMA SucceededSized ==
    ASSUME NEW s, Good(s), Sized(s), NEW p \in s.participants, NEW n \in Succeeded(s, p),
           StaysPlayable(n)
    PROVE  Sized(n)
<1>. DEFINE w == Without(s, p)
<1>1. /\ w \in States /\ w.phase = s.phase
      /\ w.pickIndex = s.pickIndex /\ w.firstPickTeam = s.firstPickTeam
      /\ w.participants = s.participants \ {p} /\ w.pool = s.pool \ {p}
      /\ \A t \in Team : w.roster[t] = s.roster[t] \ {p}
  BY WithoutFacts
<1>2. s \in States
  BY DEF Good
<1>. HIDE DEF w
<1>3. /\ n.phase = s.phase /\ n.participants \subseteq s.participants
      /\ n.pool \subseteq s.pool /\ n.pickIndex = s.pickIndex
      /\ n.firstPickTeam = s.firstPickTeam
      /\ \A t \in Team : Cardinality(n.roster[t]) <= Cardinality(s.roster[t])
  <2>1. CASE \E t \in Team : s.captain[t] = p
    <3>1. PICK t \in Team : s.captain[t] = p /\ n \in {Promoted(w, t, q) : q \in Successors(w, t)}
      BY <2>1 DEF Succeeded, w
    <3>2. PICK q \in Successors(w, t) : n = Promoted(w, t, q)
      BY <3>1
    <3>3. n = [w EXCEPT !.captain = [w.captain EXCEPT ![t] = q],
                        !.roster = [w.roster EXCEPT ![t] = w.roster[t] \cup {q}],
                        !.pool = w.pool \ {q}]
      BY <3>2 DEF Promoted
    <3>4. /\ n.phase = s.phase /\ n.participants \subseteq s.participants
          /\ n.pool \subseteq s.pool /\ n.pickIndex = s.pickIndex
          /\ n.firstPickTeam = s.firstPickTeam
          /\ n.roster[t] = (s.roster[t] \ {p}) \cup {q}
          /\ \A u \in Team \ {t} : n.roster[u] = s.roster[u] \ {p}
      BY <1>1, <3>3 DEF States
    <3>5. p \in s.roster[t]
      <4>1. p # None
        BY <1>2 DEF States
      <4>. QED
        BY <3>1, <4>1 DEF Good, Captains
    <3>6. \A u \in Team : IsFiniteSet(s.roster[u]) /\ Cardinality(s.roster[u]) \in Nat
      BY <1>2, Finite
    <3>7. /\ IsFiniteSet(s.roster[t] \ {p})
          /\ Cardinality(s.roster[t] \ {p}) = Cardinality(s.roster[t]) - 1
      BY <3>5, <3>6, FS_RemoveElement
    <3>8. Cardinality(n.roster[t]) <= Cardinality(s.roster[t])
      <4>1. /\ Cardinality((s.roster[t] \ {p}) \cup {q}) \in Nat
            /\ Cardinality((s.roster[t] \ {p}) \cup {q})
                 <= Cardinality(s.roster[t] \ {p}) + 1
        BY <3>7, OneMore
      <4>. QED
        BY <3>4, <3>6, <3>7, <4>1
    <3>9. \A u \in Team \ {t} : Cardinality(n.roster[u]) <= Cardinality(s.roster[u])
      <4>1. \A u \in Team : Cardinality(s.roster[u] \ {p}) <= Cardinality(s.roster[u])
        BY <3>6, OneLess
      <4>. QED
        BY <3>4, <4>1
    <3>. QED
      BY <3>4, <3>8, <3>9
  <2>2. CASE ~\E t \in Team : s.captain[t] = p
    <3>1. n = w
      BY <2>2 DEF Succeeded, w
    <3>2. \A t \in Team : IsFiniteSet(s.roster[t]) /\ Cardinality(s.roster[t]) \in Nat
      BY <1>2, Finite
    <3>3. \A t \in Team : Cardinality(n.roster[t]) <= Cardinality(s.roster[t])
      <4>1. \A t \in Team : Cardinality(s.roster[t] \ {p}) <= Cardinality(s.roster[t])
        BY <3>2, OneLess
      <4>. QED
        BY <1>1, <3>1, <4>1
    <3>. QED
      BY <1>1, <3>1, <3>3
  <2>. QED
    BY <2>1, <2>2
<1>4. n \in States
  BY SucceededGood DEF Good
<1>5. /\ Cardinality(n.participants) <= Cardinality(s.participants)
      /\ Cardinality(n.pool) <= Cardinality(s.pool)
  BY <1>2, <1>3, Finite, FS_Subset
<1>6. /\ Cardinality(s.participants) \in Nat /\ Cardinality(s.pool) \in Nat
      /\ Cardinality(n.participants) \in Nat /\ Cardinality(n.pool) \in Nat
      /\ s.pickIndex \in Nat
      /\ \A t \in Team : Cardinality(n.roster[t]) \in Nat /\ Cardinality(s.roster[t]) \in Nat
  BY <1>2, <1>4, Finite
<1>7. Cardinality(n.participants) >= 4
  BY DEF StaysPlayable, LOBBY_DRAFT_MIN_PLAYERS
<1>8. n.phase = "vote" => Cardinality(n.participants) <= 2 * SideSlots
  BY <1>3, <1>5, <1>6 DEF Sized
<1>9. n.phase # "vote" => Cardinality(n.pool) + n.pickIndex + 2 <= 2 * SideSlots
  BY <1>3, <1>5, <1>6 DEF Sized
<1>10. n.phase # "vote" => \A t \in Team : ProjectedSize(n, t) >= 2
  BY DEF StaysPlayable
<1>11. ASSUME NEW t \in Team
       PROVE  Cardinality(n.roster[t]) <= 1 + Turns(n, t)
  <2>1. Turns(n, t) = Turns(s, t) /\ Turns(s, t) \in Nat
    BY <1>3, <1>6 DEF Turns
  <2>2. Cardinality(s.roster[t]) <= 1 + Turns(s, t)
    BY DEF Sized
  <2>. QED
    BY <1>3, <1>6, <2>1, <2>2
<1>. QED
  BY <1>7, <1>8, <1>9, <1>10, <1>11 DEF Sized
-----------------------------------------------------------------------------
DraftInv == Good(draft) /\ Open(draft) /\ Sized(draft)

(* What every step leads to. *)
Reached(s, n) == Good(n) /\ Open(n) /\ Sized(n) /\ Kept(s, n)

(* A draft that is closed early, if everybody has answered.                  *)
LEMMA ClosedReached ==
    ASSUME NEW s, Good(s), NEW m, Good(m), PicksOpen(m), Sized(m), Kept(s, m),
           NEW n \in CloseEarlyIfDone(m)
    PROVE  Reached(s, n)
<1>1. Good(n) /\ Open(n) /\ Sized(n) /\ Stays(m, n)
  BY ClosingGood, ClosingOpen, ClosingSized, ClosingStays
<1>. QED
  BY <1>1, KeptThenStays DEF Reached

LEMMA CastVoteReached ==
    ASSUME DraftInv, NEW v \in Linked, NEW keys \in SUBSET Linked, CastVote(v, keys)
    PROVE  Reached(draft, draft')
<1>. DEFINE m == [draft EXCEPT !.votes = [draft.votes EXCEPT ![v] = keys]]
<1>1. draft.phase = "vote" /\ v \in LinkedIn(draft) /\ keys \subseteq LinkedIn(draft)
  BY DEF CastVote
<1>2. draft' \in CloseEarlyIfDone(m)
  BY DEF CastVote
<1>3. keys \in SUBSET Players
  OBVIOUS
<1>4. /\ m.phase = draft.phase /\ m.participants = draft.participants /\ m.pool = draft.pool
      /\ m.roster = draft.roster /\ m.captain = draft.captain
      /\ m.pickIndex = draft.pickIndex /\ m.firstPickTeam = draft.firstPickTeam
      /\ m.sided = draft.sided /\ m.heroLockedIn = draft.heroLockedIn
      /\ m.resolved = draft.resolved /\ m \in States
      /\ m.votes = [draft.votes EXCEPT ![v] = keys] /\ draft \in States
  BY <1>3 DEF DraftInv, Good, States
<1>. HIDE DEF m
<1>5. Seats(m) /\ Captains(m) /\ Course(m)
  BY <1>4 DEF DraftInv, Good, Seats, Captains, Course
<1>6. Ballots(m)
  BY <1>1, <1>4 DEF DraftInv, Good, States, Ballots, LinkedIn
<1>7. Good(m) /\ Good(draft)
  BY <1>4, <1>5, <1>6 DEF DraftInv, Good
<1>8. PicksOpen(m)
  BY <1>1, <1>4 DEF PicksOpen
<1>9. Sized(m)
  BY <1>4, <1>7, SameSized DEF DraftInv
<1>10. Kept(draft, m)
  BY <1>4 DEF Kept, States
<1>. QED
  BY <1>2, <1>7, <1>8, <1>9, <1>10, ClosedReached

LEMMA LockInReached ==
    ASSUME DraftInv, NEW p \in Linked, LockIn(p)
    PROVE  Reached(draft, draft')
<1>. DEFINE m == [draft EXCEPT !.heroLockedIn = draft.heroLockedIn \cup {p}]
<1>1. draft.phase = "hero"
  BY DEF LockIn
<1>2. draft' \in CloseEarlyIfDone(m)
  BY DEF LockIn
<1>3. p \in Players
  OBVIOUS
<1>4. /\ m.phase = draft.phase /\ m.participants = draft.participants /\ m.pool = draft.pool
      /\ m.roster = draft.roster /\ m.captain = draft.captain
      /\ m.pickIndex = draft.pickIndex /\ m.firstPickTeam = draft.firstPickTeam
      /\ m.sided = draft.sided /\ m.votes = draft.votes
      /\ m.resolved = draft.resolved /\ m \in States /\ draft \in States
  BY <1>3 DEF DraftInv, Good, States
<1>. HIDE DEF m
<1>5. Seats(m) /\ Captains(m) /\ Course(m) /\ Ballots(m)
  BY <1>1, <1>4 DEF DraftInv, Good, Seats, Captains, Course, Ballots, LinkedIn
<1>6. Good(m) /\ Good(draft)
  BY <1>4, <1>5 DEF DraftInv, Good
<1>7. PicksOpen(m)
  BY <1>1, <1>4 DEF PicksOpen
<1>8. Sized(m)
  BY <1>4, <1>6, SameSized DEF DraftInv
<1>9. Kept(draft, m)
  BY <1>4 DEF Kept, States
<1>. QED
  BY <1>2, <1>6, <1>7, <1>8, <1>9, ClosedReached

LEMMA CoinReached ==
    ASSUME DraftInv, draft.phase = "coin", NEW t \in Team, draft' = ChosenCoin(draft, t)
    PROVE  Reached(draft, draft')
<1>1. Good(draft') /\ Sized(draft') /\ Kept(draft, draft')
  BY CoinGood, CoinSized, CoinStays DEF DraftInv, Stays
<1>2. draft'.phase = "side"
  BY DEF ChosenCoin, DraftInv, Good, States
<1>3. Open(draft')
  BY <1>2 DEF Open, PicksOpen
<1>. QED
  BY <1>1, <1>3 DEF Reached

LEMMA SideReached ==
    ASSUME DraftInv, draft.phase = "side", draft' = ApplySide(draft)
    PROVE  Reached(draft, draft')
<1>1. Good(draft') /\ Open(draft') /\ Sized(draft') /\ Stays(draft, draft')
  BY SideGood, SideOpen, SideSized, SideStays DEF DraftInv
<1>. QED
  BY <1>1 DEF Reached, Stays

LEMMA PickReached ==
    ASSUME DraftInv, draft.phase = "pick", NEW p \in draft.pool, draft' = ApplyPick(draft, p)
    PROVE  Reached(draft, draft')
<1>1. Good(draft') /\ Open(draft') /\ Sized(draft') /\ Stays(draft, draft')
  BY ApplyPickStays, ApplyPickOpen, ApplyPickSized DEF DraftInv
<1>. QED
  BY <1>1 DEF Reached, Stays

LEMMA TimeoutReached ==
    ASSUME DraftInv, Timeout
    PROVE  Reached(draft, draft')
<1>1. draft.phase \in Phases
  BY DEF DraftInv, Good, States
<1>2. CASE draft.phase = "vote"
  <2>1. draft' \in CloseVote(draft)
    BY <1>2 DEF Timeout
  <2>2. Good(draft') /\ Sized(draft') /\ Stays(draft, draft')
    BY <1>2, <2>1, CloseVoteGood, CloseVoteSized, CloseVoteStays DEF DraftInv
  <2>3. draft'.phase = "coin"
    BY <2>1 DEF CloseVote, DraftInv, Good, States
  <2>4. Open(draft')
    BY <2>3 DEF Open, PicksOpen
  <2>. QED
    BY <2>2, <2>4 DEF Reached, Stays
<1>3. CASE draft.phase = "coin"
  BY <1>3, CoinReached DEF Timeout
<1>4. CASE draft.phase = "side"
  BY <1>4, SideReached DEF Timeout
<1>5. CASE draft.phase = "pick"
  BY <1>5, PickReached DEF Timeout
<1>6. CASE draft.phase = "hero"
  <2>1. draft' \in ResolveHeroPhase(draft)
    BY <1>6 DEF Timeout
  <2>2. Good(draft') /\ Sized(draft') /\ Stays(draft, draft')
    BY <1>6, <2>1, HeroesGood, HeroesSized, HeroesStay DEF DraftInv
  <2>3. draft'.resolved /\ draft'.phase = "hero"
    BY <1>6, <2>1 DEF ResolveHeroPhase, DraftInv, Good, States
  <2>4. Open(draft')
    BY <2>3 DEF Open, PicksOpen
  <2>. QED
    BY <2>2, <2>4 DEF Reached, Stays
<1>. QED
  BY <1>1, <1>2, <1>3, <1>4, <1>5, <1>6 DEF Phases

LEMMA ReplaceReached ==
    ASSUME DraftInv, NEW p \in Players, NEW q \in Players, ReplaceParticipant(p, q)
    PROVE  Reached(draft, draft')
<1>. DEFINE m == Replaced(draft, p, q)
<1>1. /\ p \in draft.participants /\ q \in Players \ draft.participants
      /\ (\E t \in Team : draft.captain[t] = p) => q \in Linked
      /\ draft' \in CloseEarlyIfDone(m)
  BY DEF ReplaceParticipant
<1>2. Good(m) /\ PicksOpen(m) /\ Sized(m) /\ Kept(draft, m)
  BY <1>1, ReplacedGood, ReplacedOpen, ReplacedSized, ReplacedKept DEF DraftInv, Open
<1>. HIDE DEF m
<1>. QED
  BY <1>1, <1>2, ClosedReached DEF DraftInv

LEMMA RemoveReached ==
    ASSUME DraftInv, NEW p \in Players, RemoveParticipant(p)
    PROVE  Reached(draft, draft')
<1>1. PICK m \in Succeeded(draft, p) :
        StaysPlayable(m) /\ draft' \in CloseEarlyIfDone(PoolSettled(m))
  BY DEF RemoveParticipant
<1>2. p \in draft.participants
  BY DEF RemoveParticipant
<1>3. Good(m) /\ Sized(m) /\ Kept(draft, m)
  BY <1>1, <1>2, SucceededGood, SucceededSized, SucceededKept DEF DraftInv
<1>4. /\ Good(PoolSettled(m)) /\ PicksOpen(PoolSettled(m)) /\ Sized(PoolSettled(m))
      /\ Stays(m, PoolSettled(m))
  BY <1>3, SettledGood, SettledOpen, SettledSized, SettledStays
<1>5. Kept(draft, PoolSettled(m))
  BY <1>3, <1>4, KeptThenStays DEF DraftInv
<1>. QED
  BY <1>1, <1>4, <1>5, ClosedReached DEF DraftInv

LEMMA NextReached ==
    ASSUME DraftInv, Next
    PROVE  Reached(draft, draft')
<1>1. CASE \E v \in Linked, keys \in SUBSET Linked : CastVote(v, keys)
  BY <1>1, CastVoteReached
<1>2. CASE \E actor \in Linked, t \in Team : ChooseCoin(actor, t)
  BY <1>2, CoinReached DEF ChooseCoin
<1>3. CASE \E actor \in Linked : ChooseSide(actor)
  BY <1>3, SideReached DEF ChooseSide
<1>4. CASE \E actor \in Linked, p \in Players : PickPlayer(actor, p)
  BY <1>4, PickReached DEF PickPlayer
<1>5. CASE \E p \in Linked : LockIn(p)
  BY <1>5, LockInReached
<1>6. CASE \E p, q \in Players : ReplaceParticipant(p, q)
  BY <1>6, ReplaceReached
<1>7. CASE \E p \in Players : RemoveParticipant(p)
  BY <1>7, RemoveReached
<1>8. CASE Timeout
  BY <1>8, TimeoutReached
<1>. QED
  BY <1>1, <1>2, <1>3, <1>4, <1>5, <1>6, <1>7, <1>8 DEF Next, Act, Manage

LEMMA InitialInv == Init => DraftInv
<1>. SUFFICES ASSUME Init
              PROVE  DraftInv
  OBVIOUS
<1>1. PICK ps \in SUBSET Players : CanStart(ps) /\ draft = InitialState(ps)
  BY DEF Init
<1>2. Good(draft)
  BY <1>1, InitialGood
<1>3. /\ draft.phase = "vote" /\ draft.participants = ps /\ draft.pickIndex = 0
      /\ draft.votes = NoVotes /\ \A t \in Team : draft.roster[t] = {}
  BY <1>1 DEF InitialState
<1>4. Open(draft)
  <2>1. IsFiniteSet(ps \cap Linked) /\ Cardinality(ps \cap Linked) # 0
    BY <1>1, FS_Subset, FS_CardinalityType DEF CanStart, LOBBY_DRAFT_MIN_LINKED
  <2>2. PICK p : p \in ps \cap Linked
    BY <2>1, FS_EmptySet
  <2>. QED
    BY <1>3, <2>2 DEF Open, PicksOpen, LinkedIn, NoVotes
<1>5. Sized(draft)
  <2>1. \A t \in Team : Cardinality(draft.roster[t]) = 0
    BY <1>3, FS_EmptySet
  <2>2. \A t \in Team : Turns(draft, t) = 0
    BY <1>3 DEF Turns
  <2>. QED
    BY <1>1, <1>3, <2>1, <2>2 DEF Sized, CanStart, LOBBY_DRAFT_MIN_PLAYERS
<1>. QED
  BY <1>2, <1>4, <1>5 DEF DraftInv

(* In every reachable state the lists, captains, course and ballots fit      *)
(* together, somebody can act, and the teams' sizes are bounded both ways.   *)
THEOREM DraftInvariant == Spec => []DraftInv
<1>1. DraftInv /\ [Next]_draft => DraftInv'
  <2>. SUFFICES ASSUME DraftInv, [Next]_draft
                PROVE  DraftInv'
    OBVIOUS
  <2>1. CASE Next
    BY <2>1, NextReached DEF Reached, DraftInv
  <2>2. CASE UNCHANGED draft
    BY <2>2 DEF DraftInv
  <2>. QED
    BY <2>1, <2>2
<1>. QED
  BY <1>1, InitialInv, PTL DEF Spec

(* The type of the saved state holds for any players and sides of any size.  *)
THEOREM TypeCorrect == Spec => []TypeOK
<1>1. DraftInv => TypeOK
  BY DEF DraftInv, Good, TypeOK
<1>. QED
  BY <1>1, DraftInvariant, PTL

(* Whoever takes part is in the pool or on exactly one team.                 *)
THEOREM PlayersPartitioned == Spec => []Partition
<1>1. DraftInv => Partition
  BY DEF DraftInv, Good, Seats, Partition
<1>. QED
  BY <1>1, DraftInvariant, PTL

(* After the vote each team has a captain of its own who can act.            *)
THEOREM CaptainsAct == Spec => []CaptainsCanAct
<1>1. DraftInv => CaptainsCanAct
  BY DEF DraftInv, Good, Captains, CaptainsCanAct
<1>. QED
  BY <1>1, DraftInvariant, PTL

(* No ballot is by or for somebody who has left.                             *)
THEOREM VoteCurrent == Spec => []BallotsCurrent
<1>1. DraftInv => BallotsCurrent
  BY DEF DraftInv, Good, Ballots, BallotsCurrent
<1>. QED
  BY <1>1, DraftInvariant, PTL

(* The draft never waits for an answer that nobody is left to give.          *)
THEOREM NeverWaitsForNobody == Spec => []SomeoneToAct
<1>1. DraftInv => SomeoneToAct
  BY DEF DraftInv, Open, PicksOpen, SomeoneToAct
<1>. QED
  BY <1>1, DraftInvariant, PTL

(* Both sides have two players or more when heroes are chosen: nothing is    *)
(* left to come, so what was projected is what there is.                     *)
THEOREM AtLeastTwoEach == Spec => []TwoEach
<1>1. DraftInv => TwoEach
  <2>. SUFFICES ASSUME DraftInv, draft.phase = "hero", NEW t \in Team
                PROVE  Cardinality(draft.roster[t]) >= 2
    BY DEF TwoEach
  <2>1. draft \in States /\ draft.pool = {} /\ ProjectedSize(draft, t) >= 2
    BY DEF DraftInv, Good, Course, Sized
  <2>2. Cardinality(draft.pool) = 0 /\ draft.pickIndex \in Nat
    BY <2>1, Finite, FS_EmptySet
  <2>3. Coming(draft, t) = {}
    BY <2>2 DEF Coming
  <2>4. Cardinality(Coming(draft, t)) = 0 /\ Cardinality(draft.roster[t]) \in Nat
    BY <2>1, <2>3, Finite, FS_EmptySet
  <2>. QED
    BY <2>1, <2>4, Projection
<1>. QED
  BY <1>1, DraftInvariant, PTL

(* No team outgrows its side, so that everybody gets a hero: by the snake    *)
(* neither team is ever ahead by more than one of half the picks.            *)
THEOREM TeamsFit == Spec => []FitsSides
<1>1. DraftInv => FitsSides
  <2>. SUFFICES ASSUME DraftInv, NEW t \in Team
                PROVE  Cardinality(draft.roster[t]) <= SideSlots
    BY DEF FitsSides
  <2>1. /\ draft.pickIndex \in Nat /\ Cardinality(draft.roster[t]) \in Nat
        /\ Cardinality(draft.pool) \in Nat
    BY Finite DEF DraftInv, Good
  <2>2. Cardinality(draft.roster[t]) <= 1 + Turns(draft, t)
    BY DEF DraftInv, Sized
  <2>3. CASE draft.phase = "vote"
    <3>1. Turns(draft, t) = 0
      BY <2>3 DEF Turns, DraftInv, Good, Course
    <3>. QED
      BY <2>1, <2>2, <3>1
  <2>4. CASE draft.phase # "vote"
    <3>1. draft.pickIndex + 2 <= 2 * SideSlots
      BY <2>1, <2>4 DEF DraftInv, Sized
    <3>2. 1 + Turns(draft, t) <= SideSlots
      BY <2>1, <3>1 DEF Turns
    <3>3. Turns(draft, t) \in Nat
      BY <2>1 DEF Turns
    <3>. QED
      BY <2>1, <2>2, <3>2, <3>3
  <2>. QED
    BY <2>3, <2>4
<1>. QED
  BY <1>1, DraftInvariant, PTL

(* A step never takes a seat or a captaincy from somebody who stays.         *)
THEOREM SeatsAreKept == Spec => SeatsKept
<1>1. DraftInv /\ [Next]_draft => [Kept(draft, draft')]_draft
  BY NextReached DEF Reached
<1>2. SeatsKept <=> [][Kept(draft, draft')]_draft
  BY PTL DEF SeatsKept, Kept
<1>. QED
  BY <1>1, <1>2, DraftInvariant, PTL DEF Spec

(* The teams can always be dealt heroes.                                     *)
THEOREM TeamsAreWhole == Spec => []TeamsWhole
<1>. QED
  BY PlayersPartitioned, AtLeastTwoEach, TeamsFit, PTL DEF TeamsWhole

(* Somebody who is there can always answer.                                  *)
THEOREM AnswerPossible == Spec => []AlwaysAnswerable
<1>. QED
  BY CaptainsAct, NeverWaitsForNobody, VoteCurrent, PTL DEF AlwaysAnswerable

-----------------------------------------------------------------------------
(* Around a draft: the lobby, its rows and its timers (LobbyFreeze), for any *)
(* number of drafts, deadlines, handlers in flight, edits, failing calls and *)
(* restarts.                                                                 *)
USE LobbyFreezeAssumption

(* The inductive invariant. A roster that a draft wrote is that of a draft   *)
(* that is complete: a second finalization finds nothing left to do.         *)
RosterOfCompleted == roster \in Drafts => rows[roster].status = "COMPLETE"

FreezeInv == FreezeTypeOK /\ OneActive /\ RosterOfCompleted

-----------------------------------------------------------------------------
(* What a handler in flight carries.                                         *)
LEMMA TaskFields ==
    ASSUME NEW t \in Tasks
    PROVE  /\ t.op = "start" => t.base \in Rosters
           /\ t.op \in {"post", "rollBack", "saved", "apply", "applied", "timeout", "timeoutSave"}
                 => t.draft \in Drafts
           /\ t.op \in {"saved", "apply", "applied"}
                 => t.deadline \in Deadlines /\ t.resolved \in BOOLEAN /\ t.timed \in BOOLEAN
           /\ t.op = "saved" => [t EXCEPT !.op = "apply"] \in Tasks
           /\ t.op = "apply" => [t EXCEPT !.op = "applied"] \in Tasks
           /\ t.op = "post" => [t EXCEPT !.op = "rollBack"] \in Tasks
           /\ t.op = "timeoutSave" => t.seen \in 0..LastDeadline
           /\ t.op = "close" => t.to \in {"IN_PROGRESS", "CANCELLED"}
BY DEF Tasks

LEMMA IdleIsTask == Idle \in Tasks
BY DEF Idle, Tasks

LEMMA InitFreezeInv ==
    ASSUME FreezeInit
    PROVE  FreezeInv
<1>1. PICK past \in Pasts :
        /\ edits = past.edits /\ failures = past.failures /\ restarts = past.restarts
        /\ roster = past.edits
        /\ rows = [d \in Drafts |-> IF d \in past.cancelled
                                      THEN [NoRow EXCEPT !.status = "CANCELLED"]
                                      ELSE NoRow]
  BY DEF FreezeInit
<1>2. past \in [edits : 0..MaxEdits, failures : 0..MaxFailures,
               restarts : 0..MaxRestarts, cancelled : SUBSET Drafts]
  BY <1>1
<1>3. /\ past.edits \in 0..MaxEdits /\ past.failures \in 0..MaxFailures
      /\ past.restarts \in 0..MaxRestarts
  BY <1>2
<1>4. /\ NoRow \in RowStates
      /\ [NoRow EXCEPT !.status = "CANCELLED"] \in RowStates
  <2>1. 0 \in Rosters /\ 1 \in Deadlines
    BY DEF Rosters, Deadlines
  <2>2. NoRow \in RowStates
    BY <2>1 DEF NoRow, RowStates
  <2>. QED
    BY <2>2 DEF RowStates, Over
<1>5. rows \in [Drafts -> RowStates]
  BY <1>1, <1>4
<1>6. \A d \in Drafts : ~Active(d)
  BY <1>1 DEF Active, NoRow
<1>7. roster \in Rosters /\ roster \notin Drafts
  BY <1>1, <1>3 DEF Rosters
<1>8. /\ match = "PENDING" /\ timer \in [Drafts -> 0..Soon]
      /\ task \in [Handlers -> Tasks]
  BY IdleIsTask DEF FreezeInit, Soon
<1>. QED
  BY <1>1, <1>3, <1>5, <1>6, <1>7, <1>8
  DEF FreezeInv, FreezeTypeOK, OneActive, RosterOfCompleted

(* A handler's own step, which leaves rows and roster alone.                 *)
LEMMA OnlyTask ==
    ASSUME FreezeInv, UNCHANGED <<match, roster, rows>>, edits' \in 0..MaxEdits,
           failures' \in 0..MaxFailures, restarts' \in 0..MaxRestarts,
           task' \in [Handlers -> Tasks], timer' \in [Drafts -> 0..Soon]
    PROVE  FreezeInv'
BY DEF FreezeInv, FreezeTypeOK, OneActive, RosterOfCompleted, Active

(* A row that is rewritten without becoming active, and stays complete.      *)
LEMMA RowStep ==
    ASSUME FreezeInv, NEW d \in Drafts, NEW row,
           row \in RowStates,
           row.status = "ACTIVE" => Active(d),
           rows[d].status = "COMPLETE" => row.status = "COMPLETE",
           rows' = [rows EXCEPT ![d] = row], UNCHANGED <<match, roster, counters>>,
           task' \in [Handlers -> Tasks], timer' \in [Drafts -> 0..Soon]
    PROVE  FreezeInv'
BY DEF FreezeInv, FreezeTypeOK, OneActive, RosterOfCompleted, Active,
    counters

LEMMA AdvancedType ==
    ASSUME FreezeInv, NEW d \in Drafts, Active(d)
    PROVE  /\ Advanced(rows[d]) \in RowStates
           /\ Advanced(rows[d]).status = "ACTIVE"
           /\ rows[d].resolved => Advanced(rows[d]).resolved
<1>1. rows[d] \in RowStates
  BY DEF FreezeInv, FreezeTypeOK
<1>2. CASE rows[d].deadline < LastDeadline
  BY <1>1, <1>2 DEF Advanced, Active, Deadlines, RowStates
<1>3. CASE ~(rows[d].deadline < LastDeadline)
  BY <1>1, <1>3 DEF Advanced, Active, RowStates
<1>. QED
  BY <1>2, <1>3

LEMMA SavedType ==
    ASSUME NEW d \in Drafts, NEW timed \in BOOLEAN,
           NEW row \in RowStates
    PROVE  Saved(d, row, timed) \in Tasks
BY DEF Saved, Tasks, RowStates

LEMMA DeadlinesInTimer ==
    /\ Deadlines \subseteq 1..LastDeadline /\ LastDeadline \in 0..Soon
           /\ 1 \in 0..Soon /\ Soon \in 1..Soon
BY DEF Deadlines, Soon

(* cancelLobbyDraft, by whoever calls it.                                    *)
LEMMA CancelStep ==
    ASSUME FreezeInv, NEW d \in Drafts, Cancel(d),
           UNCHANGED <<match, roster, counters>>,
           task' \in [Handlers -> Tasks]
    PROVE  FreezeInv'
<1>1. CASE Active(d)
  <2>1. rows' = [rows EXCEPT ![d] = [rows[d] EXCEPT !.status = "CANCELLED"]]
    BY <1>1 DEF Cancel, FreezeInv, FreezeTypeOK
  <2>2. timer' \in [Drafts -> 0..Soon]
    BY <1>1, DeadlinesInTimer
    DEF Cancel, SetTimer, FreezeInv, FreezeTypeOK, Soon
  <2>3. [rows[d] EXCEPT !.status = "CANCELLED"] \in
            RowStates
    BY DEF FreezeInv, FreezeTypeOK, Over, RowStates
  <2>4. [rows[d] EXCEPT !.status = "CANCELLED"].status = "CANCELLED" /\ rows[d].status = "ACTIVE"
    BY <1>1 DEF FreezeInv, FreezeTypeOK, Active, RowStates
  <2>. QED
    BY <2>1, <2>2, <2>3, <2>4, RowStep
<1>2. CASE ~Active(d)
  BY <1>2, OnlyTask DEF Cancel, FreezeInv, FreezeTypeOK, counters
<1>. QED
  BY <1>1, <1>2

-----------------------------------------------------------------------------
(* Every step keeps the invariant.                                           *)

(* Steps that change no row and no roster: the handler, and maybe a timer.   *)
LEMMA QuietSteps ==
    ASSUME FreezeInv, NEW h \in Handlers,
           \/ StartLoad(h) \/ StartPost(h) \/ Arm(h)
           \/ ClearTimer(h) \/ TooEarly(h)
           \/ TimeoutLoad(h) \/ Fire(h) \/ EditLoad(h) \/ Fail(h)
           \/ \E to \in {"IN_PROGRESS", "CANCELLED"} : CloseLoad(h, to)
    PROVE  FreezeInv'
<1>. USE DEF Go, Done, SetTimer, counters
<1>0. /\ task[h] \in Tasks /\ timer \in [Drafts -> 0..Soon]
      /\ task \in [Handlers -> Tasks]
  BY DEF FreezeInv, FreezeTypeOK
<1>1. CASE StartLoad(h)
  <2>1. [op |-> "start", base |-> roster] \in Tasks
    BY DEF FreezeInv, FreezeTypeOK, Tasks
  <2>. QED
    BY <1>1, <2>1, OnlyTask DEF StartLoad, FreezeInv, FreezeTypeOK
<1>2. CASE StartPost(h)
  BY <1>0, <1>2, OnlyTask, IdleIsTask, TaskFields, DeadlinesInTimer
  DEF StartPost, FreezeInv, FreezeTypeOK
<1>3. CASE Arm(h)
  <2>1. task[h].draft \in Drafts /\ task[h].deadline \in Deadlines
    BY <1>0, <1>3, TaskFields DEF Arm
  <2>2. task[h].deadline \in 0..Soon
    BY <2>1 DEF Deadlines, Soon
  <2>. QED
    BY <1>0, <1>3, <2>1, <2>2, OnlyTask, IdleIsTask
    DEF Arm, FreezeInv, FreezeTypeOK
<1>4. CASE ClearTimer(h)
  <2>1. 0 \in 0..Soon
    BY DEF Soon
  <2>. QED
    BY <1>0, <1>4, <2>1, OnlyTask, IdleIsTask, TaskFields
    DEF ClearTimer, FreezeInv, FreezeTypeOK
<1>5. CASE TooEarly(h)
  <2>1. task[h].draft \in Drafts
    BY <1>0, <1>5, TaskFields DEF TooEarly
  <2>2. rows[task[h].draft].deadline \in 0..Soon
    BY <2>1 DEF FreezeInv, FreezeTypeOK, RowStates, Deadlines, Soon
  <2>. QED
    BY <1>0, <1>5, <2>1, <2>2, OnlyTask, IdleIsTask
    DEF TooEarly, FreezeInv, FreezeTypeOK
<1>6. CASE TimeoutLoad(h)
  <2>1. task[h].draft \in Drafts
    BY <1>0, <1>6, TaskFields DEF TimeoutLoad
  <2>2. SeenDeadline(task[h].draft) \in 0..LastDeadline
    BY <2>1
    DEF FreezeInv, FreezeTypeOK, RowStates, Deadlines, SeenDeadline
  <2>3. [op |-> "timeoutSave", draft |-> task[h].draft,
         seen |-> SeenDeadline(task[h].draft), timed |-> TRUE] \in Tasks
    BY <2>1, <2>2 DEF Tasks
  <2>. QED
    BY <1>0, <1>6, <2>3, OnlyTask, IdleIsTask
    DEF TimeoutLoad, FreezeInv, FreezeTypeOK
<1>7. CASE Fire(h)
  <2>1. PICK d \in Drafts :
          /\ timer[d] # 0
          /\ Go(h, [op |-> "timeout", draft |-> d, fired |-> timer[d], timed |-> TRUE])
          /\ SetTimer(d, 0)
    BY <1>7 DEF Fire
  <2>2. timer[d] \in 1..Soon /\ 0 \in 0..Soon
    BY <1>0, <2>1 DEF Soon
  <2>3. [op |-> "timeout", draft |-> d, fired |-> timer[d], timed |-> TRUE] \in Tasks
    BY <2>2 DEF Tasks
  <2>. QED
    BY <1>0, <1>7, <2>1, <2>2, <2>3, OnlyTask DEF Fire, FreezeInv, FreezeTypeOK
<1>8. CASE EditLoad(h)
  <2>1. [op |-> "edit"] \in Tasks
    BY DEF Tasks
  <2>2. edits' \in 0..MaxEdits
    BY <1>8 DEF EditLoad, FreezeInv, FreezeTypeOK
  <2>. QED
    BY <1>0, <1>8, <2>1, <2>2, OnlyTask DEF EditLoad, FreezeInv, FreezeTypeOK
<1>9. CASE Fail(h)
  <2>1. failures' \in 0..MaxFailures
    BY <1>9 DEF Fail, FreezeInv, FreezeTypeOK
  <2>2. task' \in [Handlers -> Tasks]
    BY <1>0, <1>9, IdleIsTask, TaskFields DEF Fail
  <2>3. timer' \in [Drafts -> 0..Soon]
    <3>1. CASE Timed(h)
      <4>1. task[h].draft \in Drafts
        BY <1>0, <3>1, TaskFields DEF Timed
      <4>. QED
        BY <1>0, <1>9, <3>1, <4>1 DEF Fail, Soon
    <3>2. CASE ~Timed(h)
      BY <1>0, <1>9, <3>2 DEF Fail
    <3>. QED
      BY <3>1, <3>2
  <2>. QED
    BY <1>9, <2>1, <2>2, <2>3, OnlyTask DEF Fail, FreezeInv, FreezeTypeOK
<1>10. ASSUME NEW to \in {"IN_PROGRESS", "CANCELLED"}, CloseLoad(h, to) PROVE FreezeInv'
  <2>1. [op |-> "close", to |-> to] \in Tasks
    BY DEF Tasks
  <2>. QED
    BY <1>0, <1>10, <2>1, OnlyTask DEF CloseLoad, FreezeInv, FreezeTypeOK
<1>. QED
  BY <1>1, <1>2, <1>3, <1>4, <1>5, <1>6, <1>7, <1>8, <1>9, <1>10

(* A new draft: the second look makes it the only active one.                *)
LEMMA CreateStep ==
    ASSUME FreezeInv, NEW h \in Handlers, StartCreate(h)
    PROVE  FreezeInv'
<1>1. task \in [Handlers -> Tasks] /\ task[h] \in Tasks /\ task[h].op = "start"
  BY DEF FreezeInv, FreezeTypeOK, StartCreate
<1>2. CASE NoneActive
  <2>1. PICK d \in Drafts :
          /\ rows[d].status = "NONE"
          /\ rows' = [rows EXCEPT ![d].status = "ACTIVE", ![d].base = task[h].base]
          /\ task' = [task EXCEPT ![h] = [op |-> "post", draft |-> d]]
    BY <1>2 DEF StartCreate, Go
  <2>2. task' \in [Handlers -> Tasks]
    <3>1. [op |-> "post", draft |-> d] \in Tasks
      BY DEF Tasks
    <3>. QED
      BY <1>1, <2>1, <3>1
  <2>3. rows' \in [Drafts -> RowStates]
    <3>1. task[h].base \in Rosters
      BY <1>1, TaskFields
    <3>. QED
      BY ZenonT(40), <2>1, <3>1 DEF FreezeInv, FreezeTypeOK, RowStates
  <2>4. \A e \in Drafts : e # d => rows'[e] = rows[e]
    BY <2>1 DEF FreezeInv, FreezeTypeOK
  <2>5. OneActive'
    BY <1>2, <2>4 DEF OneActive, NoneActive, Active
  <2>6. RosterOfCompleted'
    BY <2>1, <2>4 DEF FreezeInv, RosterOfCompleted, StartCreate
  <2>. QED
    BY <2>2, <2>3, <2>5, <2>6
    DEF FreezeInv, FreezeTypeOK, StartCreate, counters
<1>3. CASE ~NoneActive
  BY <1>1, <1>3, OnlyTask, IdleIsTask
  DEF StartCreate, Done, Go, counters, FreezeInv,
      FreezeTypeOK
<1>. QED
  BY <1>2, <1>3

(* Steps that cancel a draft that is still active.                           *)
LEMMA CancelSteps ==
    ASSUME FreezeInv, NEW h \in Handlers, NEW d \in Drafts,
           RollBack(h) \/ CancelByUser(d) \/ CancelDraft(h)
    PROVE  FreezeInv'
<1>1. task \in [Handlers -> Tasks] /\ task[h] \in Tasks
  BY DEF FreezeInv, FreezeTypeOK
<1>2. CASE RollBack(h)
  BY <1>1, <1>2, CancelStep, IdleIsTask, TaskFields
  DEF RollBack, Done, Go
<1>3. CASE CancelByUser(d)
  BY <1>1, <1>3, CancelStep DEF CancelByUser
<1>4. CASE CancelDraft(h)
  <2>1. task' \in [Handlers -> Tasks]
    BY <1>1, <1>4, IdleIsTask DEF CancelDraft, Done, Go
  <2>2. CASE \E e \in Drafts : Cancel(e)
    BY <1>4, <2>1, <2>2, CancelStep DEF CancelDraft
  <2>3. CASE UNCHANGED <<rows, timer>>
    BY <1>4, <2>1, <2>3, OnlyTask
    DEF CancelDraft, FreezeInv, FreezeTypeOK, counters
  <2>. QED
    BY <1>4, <2>2, <2>3 DEF CancelDraft
<1>. QED
  BY <1>2, <1>3, <1>4

(* Steps of the draft itself.                                                *)
LEMMA DraftSteps ==
    ASSUME FreezeInv, NEW h \in Handlers,
           (\E d \in Drafts : Click(h, d)) \/ TimeoutSave(h)
    PROVE  FreezeInv'
<1>1. /\ task \in [Handlers -> Tasks] /\ task[h] \in Tasks
      /\ timer \in [Drafts -> 0..Soon]
  BY DEF FreezeInv, FreezeTypeOK
<1>2. ASSUME NEW d \in Drafts, Active(d), NEW row \in {rows[d], Advanced(rows[d])},
             NEW timed \in BOOLEAN,
             rows' = [rows EXCEPT ![d] = row], Go(h, Saved(d, row, timed)),
             UNCHANGED <<match, roster, timer, counters>>
      PROVE  FreezeInv'
  <2>1. row \in RowStates /\ row.status = "ACTIVE"
    BY <1>2, AdvancedType DEF FreezeInv, FreezeTypeOK, Active
  <2>2. task' \in [Handlers -> Tasks]
    BY <1>1, <1>2, <2>1, SavedType DEF Go
  <2>3. rows[d].status # "COMPLETE"
    BY <1>2 DEF Active
  <2>. QED
    BY <1>1, <1>2, <2>1, <2>2, <2>3, RowStep
<1>3. ASSUME NEW d \in Drafts, Click(h, d) PROVE FreezeInv'
  BY <1>2, <1>3 DEF Click
<1>4. CASE TimeoutSave(h)
  <2>1. task[h].draft \in Drafts
    BY <1>1, <1>4, TaskFields DEF TimeoutSave
  <2>2. CASE Active(task[h].draft) /\ task[h].seen # 0
    BY <1>2, <1>4, <2>1, <2>2 DEF TimeoutSave
  <2>3. CASE ~(Active(task[h].draft) /\ task[h].seen # 0)
    BY <1>1, <1>4, <2>3, OnlyTask, IdleIsTask
    DEF TimeoutSave, Done, Go, counters, FreezeInv,
        FreezeTypeOK
  <2>. QED
    BY <2>2, <2>3
<1>. QED
  BY <1>3, <1>4

(* The end of a draft.                                                       *)
LEMMA EndSteps ==
    ASSUME FreezeInv, NEW h \in Handlers, Finalize(h) \/ Apply(h)
    PROVE  FreezeInv'
<1>1. /\ task \in [Handlers -> Tasks] /\ task[h] \in Tasks
      /\ timer \in [Drafts -> 0..Soon]
  BY DEF FreezeInv, FreezeTypeOK
<1>2. task[h].draft \in Drafts
  BY <1>1, TaskFields DEF Finalize, Apply
<1>3. CASE Finalize(h)
  <2>1. CASE match = "PENDING" /\ Active(task[h].draft)
    <3>1. PICK t \in Tasks : t = task[h]
      BY <1>1
    <3>2. [t EXCEPT !.op = "apply"] \in Tasks
      BY <1>3, <3>1, TaskFields DEF Finalize
    <3>3. /\ task' = [task EXCEPT ![h] = [t EXCEPT !.op = "apply"]]
          /\ UNCHANGED <<match, roster, rows, timer, edits, failures, restarts>>
      BY <1>3, <2>1, <3>1 DEF Finalize, Go, counters
    <3>4. task' \in [Handlers -> Tasks]
      BY <1>1, <3>2, <3>3
    <3>5. /\ edits' \in 0..MaxEdits /\ failures' \in 0..MaxFailures
          /\ restarts' \in 0..MaxRestarts /\ timer' \in [Drafts -> 0..Soon]
      BY <3>3 DEF FreezeInv, FreezeTypeOK
    <3>. QED
      BY <3>3, <3>4, <3>5, OnlyTask
  <2>2. CASE ~(match = "PENDING" /\ Active(task[h].draft))
    BY <1>1, <1>2, <1>3, <2>2, CancelStep, IdleIsTask
    DEF Finalize, Done, Go
  <2>. QED
    BY <2>1, <2>2
<1>4. CASE Apply(h)
  <2>1. CASE Active(task[h].draft)
    <3>. DEFINE d == task[h].draft
    <3>1. /\ roster' = d /\ rows' = [rows EXCEPT ![d].status = "COMPLETE"]
          /\ task' = [task EXCEPT ![h] = [task[h] EXCEPT !.op = "applied"]]
          /\ UNCHANGED <<match, timer, counters>>
      BY <1>4, <2>1 DEF Apply, Go
    <3>2. task' \in [Handlers -> Tasks]
      BY <1>1, <1>4, <3>1, TaskFields DEF Apply
    <3>3. rows' \in [Drafts -> RowStates] /\ roster' \in Rosters
      BY <1>2, <3>1
      DEF FreezeInv, FreezeTypeOK, RowStates, Over, Rosters
    <3>4. rows'[d].status = "COMPLETE" /\ \A e \in Drafts : e # d => rows'[e] = rows[e]
      BY <1>2, <3>1 DEF FreezeInv, FreezeTypeOK, RowStates
    <3>5. OneActive'
      BY <3>4 DEF FreezeInv, OneActive, Active
    <3>6. RosterOfCompleted'
      BY <3>1, <3>4 DEF RosterOfCompleted
    <3>. QED
      BY <3>1, <3>2, <3>3, <3>5, <3>6 DEF FreezeInv, FreezeTypeOK, counters
  <2>2. CASE ~Active(task[h].draft)
    BY <1>1, <1>4, <2>2, OnlyTask, IdleIsTask
    DEF Apply, Done, Go, counters, FreezeInv, FreezeTypeOK
  <2>. QED
    BY <2>1, <2>2
<1>. QED
  BY <1>3, <1>4

(* The lobby's own steps.                                                    *)
LEMMA LobbySteps ==
    ASSUME FreezeInv, NEW h \in Handlers,
           Edit(h) \/ Close(h) \/ Expire(h)
    PROVE  FreezeInv'
<1>1. task \in [Handlers -> Tasks] /\ task[h] \in Tasks
  BY DEF FreezeInv, FreezeTypeOK
<1>2. CASE Edit(h)
  <2>1. roster' \in Rosters /\ roster' \notin Drafts
    BY <1>2 DEF Edit, FreezeInv, FreezeTypeOK, Rosters
  <2>. QED
    BY <1>1, <1>2, <2>1, IdleIsTask
    DEF Edit, Done, Go, counters, FreezeInv, FreezeTypeOK,
        OneActive, Active, RosterOfCompleted
<1>3. ASSUME match' \in {"IN_PROGRESS", "CANCELLED"},
             task' = [task EXCEPT ![h] = [op |-> "closed"]],
             UNCHANGED <<roster, rows, timer, counters>>
      PROVE  FreezeInv'
  <2>1. [op |-> "closed"] \in Tasks
    BY DEF Tasks
  <2>. QED
    BY <1>1, <1>3, <2>1
    DEF counters, FreezeInv, FreezeTypeOK, OneActive, Active,
        RosterOfCompleted
<1>4. CASE Close(h)
  BY <1>1, <1>3, <1>4, TaskFields DEF Close, Go
<1>5. CASE Expire(h)
  BY <1>3, <1>5 DEF Expire, Go
<1>. QED
  BY <1>2, <1>4, <1>5

LEMMA RestartStep ==
    ASSUME FreezeInv, Restart
    PROVE  FreezeInv'
<1>1. restarts' \in 0..MaxRestarts
  BY DEF Restart, FreezeInv, FreezeTypeOK
<1>2. timer' \in [Drafts -> 0..Soon]
  <2>1. \A d \in Drafts : SeenDeadline(d) \in 0..Soon
    BY DEF FreezeInv, FreezeTypeOK, RowStates, Deadlines, SeenDeadline,
        Soon
  <2>. QED
    BY <2>1 DEF Restart, Soon
<1>3. task' \in [Handlers -> Tasks]
  <2>1. \A d \in Drafts : Saved(d, rows[d], FALSE) \in Tasks
    BY SavedType DEF FreezeInv, FreezeTypeOK
  <2>. QED
    BY <2>1, IdleIsTask DEF Restart
<1>. QED
  BY <1>1, <1>2, <1>3, OnlyTask DEF Restart, FreezeInv, FreezeTypeOK

LEMMA NextFreezeInv ==
    ASSUME FreezeInv, [FreezeNext]_vars
    PROVE  FreezeInv'
<1>1. CASE UNCHANGED vars
  BY <1>1, OnlyTask DEF vars, FreezeInv, FreezeTypeOK
<1>2. ASSUME NEW h \in Handlers,
            Request(h) \/ Continue(h) \/ Fire(h) \/ Fail(h)
      PROVE  FreezeInv'
  <2>1. CASE Request(h)
    BY <2>1, QuietSteps, DraftSteps, LobbySteps DEF Request
  <2>2. CASE Continue(h)
    <3>1. CASE RollBack(h) \/ CancelDraft(h)
      <4>1. CASE Drafts = {}
        BY <3>1, <4>1, TaskFields, IdleIsTask, OnlyTask
        DEF RollBack, CancelDraft, Done, Go, counters,
            FreezeInv, FreezeTypeOK
      <4>2. CASE Drafts # {}
        BY <3>1, <4>2, CancelSteps
      <4>. QED
        BY <4>1, <4>2
    <3>. QED
      BY <2>2, <3>1, QuietSteps, CreateStep, DraftSteps, EndSteps, LobbySteps
      DEF Continue
  <2>. QED
    BY <1>2, <2>1, <2>2, QuietSteps
<1>3. ASSUME NEW d \in Drafts, CancelByUser(d) PROVE FreezeInv'
  BY <1>3, CancelStep DEF CancelByUser, FreezeInv, FreezeTypeOK
<1>4. CASE Restart
  BY <1>4, RestartStep
<1>. QED
  BY <1>1, <1>2, <1>3, <1>4 DEF FreezeNext

(* The invariant of every behaviour.                                         *)
THEOREM FreezeInvariant == FreezeSpec => []FreezeInv
<1>1. FreezeInit => FreezeInv
  BY InitFreezeInv
<1>2. FreezeInv /\ [FreezeNext]_vars => FreezeInv'
  BY NextFreezeInv
<1>. QED
  BY <1>1, <1>2, PTL DEF FreezeSpec

(* Every variable keeps its type, and every handler carries what its next    *)
(* step needs (services/lobby-draft, match-service).                         *)
THEOREM FreezeTypeCorrect == FreezeSpec => []FreezeTypeOK
<1>1. FreezeSpec => []FreezeInv
  BY FreezeInvariant
<1>2. FreezeInv => FreezeTypeOK
  BY DEF FreezeInv
<1>. QED
  BY <1>1, <1>2, PTL

(* A lobby never has two active drafts (startLobbyDraft's lock).             *)
THEOREM OneDraft == FreezeSpec => []OneActive
<1>1. FreezeSpec => []FreezeInv
  BY FreezeInvariant
<1>2. FreezeInv => OneActive
  BY DEF FreezeInv
<1>. QED
  BY <1>1, <1>2, PTL

(* Both together, as the run checks them (startLobbyDraft).                  *)
THEOREM FreezeIsSound == FreezeSpec => []FreezeSound
<1>1. FreezeSpec => []FreezeInv
  BY FreezeInvariant
<1>2. FreezeInv => FreezeSound
  BY DEF FreezeInv, FreezeSound
<1>. QED
  BY <1>1, <1>2, PTL

-----------------------------------------------------------------------------
(* What a step may never do.                                                 *)

EndsStayStep ==
    \A d \in Drafts : /\ rows[d].status \in Over => rows'[d] = rows[d]
                      /\ rows[d].resolved => rows'[d].resolved

AppliedOnceStep ==
    \A d \in Drafts : (rows[d].status # "COMPLETE" /\ rows'[d].status = "COMPLETE")
                        <=> (roster # d /\ roster' = d)

LEMMA StillStep ==
    ASSUME UNCHANGED <<rows, roster>>
    PROVE  EndsStayStep /\ AppliedOnceStep
BY DEF EndsStayStep, AppliedOnceStep

(* A row that was not over is rewritten, and is not complete either after.   *)
LEMMA OpenRowStep ==
    ASSUME FreezeInv, NEW d \in Drafts, NEW row, UNCHANGED roster,
           rows' = [rows EXCEPT ![d] = row], rows[d].status \notin Over,
           row.status # "COMPLETE", rows[d].resolved => row.resolved
    PROVE  EndsStayStep /\ AppliedOnceStep
<1>1. /\ rows'[d] = row
      /\ \A e \in Drafts : e # d => rows'[e] = rows[e]
  BY DEF FreezeInv, FreezeTypeOK
<1>. QED
  BY <1>1 DEF EndsStayStep, AppliedOnceStep

LEMMA CancelKeeps ==
    ASSUME FreezeInv, NEW d \in Drafts, Cancel(d), UNCHANGED roster
    PROVE  EndsStayStep /\ AppliedOnceStep
<1>1. CASE Active(d)
  <2>1. /\ rows' = [rows EXCEPT ![d] = [rows[d] EXCEPT !.status = "CANCELLED"]]
        /\ rows[d] \in RowStates /\ rows[d].status = "ACTIVE"
    BY <1>1 DEF Cancel, Active, FreezeInv, FreezeTypeOK
  <2>2. /\ [rows[d] EXCEPT !.status = "CANCELLED"].status = "CANCELLED"
        /\ [rows[d] EXCEPT !.status = "CANCELLED"].resolved = rows[d].resolved
    BY <2>1 DEF RowStates
  <2>. QED
    BY <2>1, <2>2, OpenRowStep DEF Over
<1>2. CASE ~Active(d)
  BY <1>2, StillStep DEF Cancel
<1>. QED
  BY <1>1, <1>2

LEMMA AdvanceKeeps ==
    ASSUME FreezeInv, NEW d \in Drafts, Active(d),
           NEW row \in {rows[d], Advanced(rows[d])},
           rows' = [rows EXCEPT ![d] = row], UNCHANGED roster
    PROVE  EndsStayStep /\ AppliedOnceStep
<1>1. row.status = "ACTIVE" /\ rows[d].resolved => row.resolved
  BY AdvancedType DEF Active
<1>2. row.status = "ACTIVE"
  BY AdvancedType DEF Active
<1>. QED
  BY <1>1, <1>2, OpenRowStep DEF Active, Over

LEMMA CreateKeeps ==
    ASSUME FreezeInv, NEW h \in Handlers, StartCreate(h)
    PROVE  EndsStayStep /\ AppliedOnceStep
<1>1. CASE NoneActive
  <2>1. PICK d \in Drafts :
          /\ rows[d].status = "NONE"
          /\ rows' = [rows EXCEPT ![d].status = "ACTIVE", ![d].base = task[h].base]
    BY <1>1 DEF StartCreate
  <2>. DEFINE row == [rows[d] EXCEPT !.status = "ACTIVE", !.base = task[h].base]
  <2>2. rows' = [rows EXCEPT ![d] = row]
    BY <2>1 DEF FreezeInv, FreezeTypeOK
  <2>3. row.status = "ACTIVE" /\ row.resolved = rows[d].resolved
    BY DEF FreezeInv, FreezeTypeOK, RowStates
  <2>. HIDE DEF row
  <2>. QED
    BY <2>1, <2>2, <2>3, OpenRowStep DEF StartCreate, Over
<1>2. CASE ~NoneActive
  BY <1>2, StillStep DEF StartCreate
<1>. QED
  BY <1>1, <1>2

LEMMA ApplyKeeps ==
    ASSUME FreezeInv, NEW h \in Handlers, Apply(h)
    PROVE  EndsStayStep /\ AppliedOnceStep
<1>1. task[h].draft \in Drafts
  BY TaskFields DEF Apply, FreezeInv, FreezeTypeOK
<1>2. CASE Active(task[h].draft)
  <2>. DEFINE d == task[h].draft
  <2>1. roster' = d /\ rows' = [rows EXCEPT ![d].status = "COMPLETE"]
    BY <1>2 DEF Apply
  <2>2. /\ rows'[d].status = "COMPLETE" /\ rows'[d].resolved = rows[d].resolved
        /\ rows[d].status = "ACTIVE"
        /\ \A e \in Drafts : e # d => rows'[e] = rows[e]
    BY <1>1, <1>2, <2>1 DEF FreezeInv, FreezeTypeOK, RowStates, Active
  <2>3. roster # d
    BY <1>1, <2>2 DEF FreezeInv, RosterOfCompleted
  <2>4. EndsStayStep
    BY <1>1, <2>2 DEF EndsStayStep, Over
  <2>5. AppliedOnceStep
    BY <1>1, <2>1, <2>2, <2>3 DEF AppliedOnceStep
  <2>. QED
    BY <2>4, <2>5
<1>3. CASE ~Active(task[h].draft)
  BY <1>3, StillStep DEF Apply
<1>. QED
  BY <1>2, <1>3

LEMMA NextKeeps ==
    ASSUME FreezeInv, [FreezeNext]_vars
    PROVE  EndsStayStep /\ AppliedOnceStep
<1>1. CASE UNCHANGED vars
  BY <1>1, StillStep DEF vars
<1>2. ASSUME NEW h \in Handlers,
            Request(h) \/ Continue(h) \/ Fire(h) \/ Fail(h)
      PROVE  EndsStayStep /\ AppliedOnceStep
  <2>0. task[h] \in Tasks
    BY DEF FreezeInv, FreezeTypeOK
  <2>1. ASSUME NEW d \in Drafts, Click(h, d) PROVE EndsStayStep /\ AppliedOnceStep
    BY <2>1, AdvanceKeeps DEF Click
  <2>2. CASE TimeoutSave(h)
    BY <2>0, <2>2, TaskFields, AdvanceKeeps, StillStep DEF TimeoutSave
  <2>3. CASE Finalize(h)
    BY <2>0, <2>3, TaskFields, CancelKeeps, StillStep DEF Finalize
  <2>4. CASE RollBack(h)
    BY <2>0, <2>4, TaskFields, CancelKeeps DEF RollBack
  <2>5. CASE CancelDraft(h)
    BY <2>5, CancelKeeps, StillStep DEF CancelDraft
  <2>6. CASE Edit(h)
    <3>1. roster' \notin Drafts /\ UNCHANGED rows
      BY <2>6 DEF Edit, FreezeInv, FreezeTypeOK
    <3>. QED
      BY <3>1 DEF EndsStayStep, AppliedOnceStep
  <2>7. CASE \/ StartLoad(h) \/ EditLoad(h) \/ Expire(h)
             \/ StartPost(h) \/ Arm(h) \/ ClearTimer(h)
             \/ TooEarly(h) \/ TimeoutLoad(h) \/ Close(h)
             \/ Fire(h) \/ Fail(h)
             \/ \E to \in {"IN_PROGRESS", "CANCELLED"} : CloseLoad(h, to)
    BY <2>7, StillStep
    DEF StartLoad, EditLoad, Expire, StartPost, Arm,
        ClearTimer, TooEarly, TimeoutLoad,
        Close, Fire, Fail, CloseLoad
  <2>. QED
    BY <1>2, <2>1, <2>2, <2>3, <2>4, <2>5, <2>6, <2>7, CreateKeeps, ApplyKeeps
    DEF Request, Continue
<1>3. ASSUME NEW d \in Drafts, CancelByUser(d) PROVE EndsStayStep /\ AppliedOnceStep
  BY <1>3, CancelKeeps DEF CancelByUser
<1>4. CASE Restart
  BY <1>4, StillStep DEF Restart
<1>. QED
  BY <1>1, <1>2, <1>3, <1>4 DEF FreezeNext

(* A draft that is over stays as it ended (saveLobbyDraftState and           *)
(* cancelLobbyDraft write only an active row).                               *)
THEOREM DraftsStayOver == FreezeSpec => EndsStay
<1>1. FreezeInv /\ [FreezeNext]_vars => [EndsStayStep]_vars
  BY NextKeeps
<1>2. FreezeSpec => []FreezeInv
  BY FreezeInvariant
<1>. QED
  BY <1>1, <1>2, PTL DEF FreezeSpec, EndsStay, EndsStayStep

(* A draft's teams become the roster once, in the step that completes it     *)
(* (replaceMatchRoster with completeLobbyDraftId).                           *)
THEOREM DraftAppliedOnce == FreezeSpec => AppliedOnce
<1>1. FreezeInv /\ [FreezeNext]_vars => [AppliedOnceStep]_vars
  BY NextKeeps
<1>2. FreezeSpec => []FreezeInv
  BY FreezeInvariant
<1>. QED
  BY <1>1, <1>2, PTL DEF FreezeSpec, AppliedOnce, AppliedOnceStep

(* A draft's outcome stands, and the roster changes with it exactly once.    *)
THEOREM OutcomesAreKept == FreezeSpec => OutcomesStand
BY DraftsStayOver, DraftAppliedOnce DEF OutcomesStand
=============================================================================

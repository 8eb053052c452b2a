----------------------------- MODULE LobbyDraft -----------------------------
(* The captain draft of a lobby: its players elect two captains, the winner  *)
(* of a coin flip chooses between the first pick and the side, the captains  *)
(* pick in snake order, and everybody asks for heroes. Players may leave or  *)
(* be replaced at any moment.                                                *)
(*                                                                           *)
(* `draft' is the JSON column that holds a draft's state. A click, a leaver  *)
(* and the timeout each load it, compute the next one with a pure function   *)
(* and save it; a queue for each draft and the check of the saved version    *)
(* make that one step. Hero wishes, sides' names and texts are left out, and *)
(* the ballots, which nobody reads after the vote, are dropped with it.      *)
EXTENDS Naturals, FiniteSets

CONSTANTS
    Players,      \* those who may take part, by nick
    Linked,       \* the players with a Discord account: only they can act
    SideSlots,    \* seats of one side of the game
    MaxVotes,     \* names on one ballot
    None

LOBBY_DRAFT_MIN_PLAYERS == 4
LOBBY_DRAFT_MIN_LINKED == 2

ASSUME LobbyDraftAssumption ==
    /\ IsFiniteSet(Players) /\ Linked \subseteq Players
    /\ SideSlots \in Nat \ {0} /\ MaxVotes \in Nat \ {0}
    /\ None \notin Players \cup Nat

VARIABLE draft

Team == {0, 1}    \* 0 won the coin flip
Other(t) == 1 - t
Phases == {"vote", "coin", "side", "pick", "hero"}

(* Joined orders a roster: the number of the pick that brought a player.     *)
States == [
    phase : Phases, participants : SUBSET Players,
    votes : [Players -> SUBSET Players], pool : SUBSET Players,
    captain : [Team -> Players \cup {None}], roster : [Team -> SUBSET Players],
    joined : [Players -> Nat], pickIndex : Nat, firstPickTeam : Team,
    sideChooserTeam : Team, sided : BOOLEAN, heroLockedIn : SUBSET Players,
    resolved : BOOLEAN]
TypeOK == draft \in States

CanStart(ps) ==
    /\ Cardinality(ps) \in LOBBY_DRAFT_MIN_PLAYERS .. 2 * SideSlots
    /\ Cardinality(ps \cap Linked) >= LOBBY_DRAFT_MIN_LINKED

NoVotes == [p \in Players |-> {}]

InitialState(ps) ==
    [phase |-> "vote", participants |-> ps, votes |-> NoVotes, pool |-> ps,
     captain |-> [t \in Team |-> None], roster |-> [t \in Team |-> {}],
     joined |-> [p \in Players |-> 0], pickIndex |-> 0, firstPickTeam |-> 0,
     sideChooserTeam |-> 0, sided |-> FALSE, heroLockedIn |-> {},
     resolved |-> FALSE]

Init == \E ps \in SUBSET Players : CanStart(ps) /\ draft = InitialState(ps)
-----------------------------------------------------------------------------
LinkedIn(s) == s.participants \cap Linked

(* The team that makes pick number i: 0, 1, 1, 0, 0, 1, 1, ... from the one  *)
(* that picks first.                                                         *)
PickingTeam(s, i) ==
    IF ((i + 1) \div 2) % 2 = 0 THEN s.firstPickTeam ELSE Other(s.firstPickTeam)

OnClockTeam(s) ==
    CASE s.phase = "coin" -> 0
      [] s.phase = "side" -> s.sideChooserTeam
      [] s.phase = "pick" -> PickingTeam(s, s.pickIndex)

OnClock(actor) ==
    /\ draft.phase \in {"coin", "side", "pick"}
    /\ actor = draft.captain[OnClockTeam(draft)] /\ actor \in Linked

(* The pairs that the vote may elect, the coin's winner first: no one else   *)
(* has more votes than either.                                               *)
VoteCount(s, p) == Cardinality({v \in LinkedIn(s) : p \in s.votes[v]})
TallyVotes(s) ==
    {e \in LinkedIn(s) \X LinkedIn(s) :
        /\ e[1] # e[2]
        /\ \A c \in LinkedIn(s) \ {e[1], e[2]}, i \in {1, 2} :
              VoteCount(s, c) <= VoteCount(s, e[i])}

CloseVote(s) ==
    {[s EXCEPT !.phase = "coin", !.votes = NoVotes,
               !.captain = [t \in Team |-> e[t + 1]],
               !.roster = [t \in Team |-> {e[t + 1]}],
               !.pool = s.participants \ {e[1], e[2]}] : e \in TallyVotes(s)}

(* Assigning heroes fails on a side with more players than heroes.           *)
ResolveHeroPhase(s) ==
    {n \in {[s EXCEPT !.resolved = TRUE]} :
        \A t \in Team : Cardinality(s.roster[t]) <= SideSlots}

(* The states after a phase in which all act at once closes early, when      *)
(* everybody who can act has.                                                *)
CloseEarlyIfDone(s) ==
    CASE s.phase = "vote" /\ \A p \in LinkedIn(s) : s.votes[p] # {} -> CloseVote(s)
      [] s.phase = "hero" /\ LinkedIn(s) \subseteq s.heroLockedIn -> ResolveHeroPhase(s)
      [] OTHER -> {s}

PhaseAfterPicks(s) == IF s.sided THEN "hero" ELSE "side"

(* A slip of the kind the properties must catch: the pick is not counted.    *)
PickOneUncounted(s, p) ==
    [s EXCEPT !.roster[PickingTeam(s, s.pickIndex)] = @ \cup {p}, !.pool = @ \ {p},
              !.phase = IF s.pool = {p} THEN PhaseAfterPicks(s) ELSE "pick"]

PickOne(s, p) ==
    LET t == PickingTeam(s, s.pickIndex) IN
    [s EXCEPT !.roster[t] = @ \cup {p}, !.joined[p] = s.pickIndex + 1,
              !.pool = @ \ {p}, !.pickIndex = @ + 1,
              !.phase = IF s.pool = {p} THEN PhaseAfterPicks(s) ELSE "pick"]

(* With one player left there is no choice.                                  *)
AutoLastPick(s) ==
    IF s.phase = "pick" /\ Cardinality(s.pool) = 1
    THEN PickOne(s, CHOOSE p \in s.pool : TRUE) ELSE s

ApplyPick(s, p) == AutoLastPick(PickOne(s, p))

(* A slip: teams counted from one. *)
ChosenCoinFromOne(s, first) ==
    [s EXCEPT !.phase = "side", !.firstPickTeam = first, !.sideChooserTeam = first + 1]

ChosenCoin(s, first) ==
    [s EXCEPT !.phase = "side", !.firstPickTeam = first, !.sideChooserTeam = Other(first)]

ApplySide(s) ==
    AutoLastPick([s EXCEPT !.sided = TRUE, !.phase = IF s.pool = {} THEN "hero" ELSE "pick"])
-----------------------------------------------------------------------------
CastVote(v, keys) ==
    /\ draft.phase = "vote" /\ v \in LinkedIn(draft)
    /\ keys \subseteq LinkedIn(draft) /\ Cardinality(keys) \in 1 .. MaxVotes
    /\ draft' \in CloseEarlyIfDone([draft EXCEPT !.votes[v] = keys])

ChooseCoin(actor, first) ==
    /\ OnClock(actor) /\ draft.phase = "coin"
    /\ draft' = ChosenCoin(draft, first)

ChooseSide(actor) ==
    /\ OnClock(actor) /\ draft.phase = "side"
    /\ draft' = ApplySide(draft)

PickPlayer(actor, p) ==
    /\ OnClock(actor) /\ draft.phase = "pick" /\ p \in draft.pool
    /\ draft' = ApplyPick(draft, p)

LockIn(p) ==
    /\ draft.phase = "hero" /\ ~draft.resolved
    /\ p \in LinkedIn(draft) \ draft.heroLockedIn
    /\ \E t \in Team : p \in draft.roster[t]
    /\ draft' \in CloseEarlyIfDone([draft EXCEPT !.heroLockedIn = @ \cup {p}])

Timeout ==
    /\ ~draft.resolved
    /\ CASE draft.phase = "vote" -> draft' \in CloseVote(draft)
         [] draft.phase = "coin" -> \E t \in Team : draft' = ChosenCoin(draft, t)
         [] draft.phase = "side" -> draft' = ApplySide(draft)
         [] draft.phase = "pick" -> \E p \in draft.pool : draft' = ApplyPick(draft, p)
         [] draft.phase = "hero" -> draft' \in ResolveHeroPhase(draft)
-----------------------------------------------------------------------------
(* Two slips: only the leaver's own ballot goes; the newcomer gets no seat.  *)
WithoutOwnVote(votes, p) == [v \in Players |-> IF v = p THEN {} ELSE votes[v]]
SwapOutOnly(ps, p, q) == ps \ {p}

(* Leavers. Ballots by and for them go, and their hero choice.               *)
WithoutVotesFor(votes, p) == [v \in Players |-> IF v = p THEN {} ELSE votes[v] \ {p}]

Swap(ps, p, q) == IF p \in ps THEN (ps \ {p}) \cup {q} ELSE ps

(* The newcomer takes the leaver's place wherever it is.                     *)
Replaced(s, p, q) ==
    [s EXCEPT !.participants = (@ \ {p}) \cup {q}, !.pool = Swap(@, p, q),
              !.captain = [t \in Team |-> IF @[t] = p THEN q ELSE @[t]],
              !.roster = [t \in Team |-> Swap(@[t], p, q)],
              !.joined = [@ EXCEPT ![q] = s.joined[p], ![p] = 0],
              !.votes = WithoutVotesFor(@, p), !.heroLockedIn = @ \ {p}]

ReplaceParticipant(p, q) ==
    /\ ~draft.resolved
    /\ p \in draft.participants /\ q \in Players \ draft.participants
    /\ (\E t \in Team : draft.captain[t] = p) => q \in Linked
    /\ (draft.phase = "vote" /\ q \notin Linked)
          => Cardinality(LinkedIn(draft) \ {p}) >= LOBBY_DRAFT_MIN_LINKED
    /\ draft' \in CloseEarlyIfDone(Replaced(draft, p, q))

(* The sizes of the teams once the pool is picked.                           *)
ProjectedSize(s, t) ==
    Cardinality(s.roster[t]) +
    Cardinality({i \in s.pickIndex .. s.pickIndex + Cardinality(s.pool) - 1 :
                    PickingTeam(s, i) = t})

Without(s, p) ==
    [s EXCEPT !.participants = @ \ {p}, !.pool = @ \ {p},
              !.roster = [t \in Team |-> @[t] \ {p}], !.joined[p] = 0,
              !.votes = WithoutVotesFor(@, p), !.heroLockedIn = @ \ {p}]

(* Who may lead team t after its captain: the linked teammate who was        *)
(* drafted first, else anyone linked from the pool.                          *)
Successors(s, t) ==
    LET mates == s.roster[t] \cap Linked
    IN  IF mates # {} THEN {p \in mates : \A q \in mates : s.joined[p] <= s.joined[q]}
                      ELSE s.pool \cap Linked

(* A slip: the new captain starts a team of one. *)
PromotedAlone(s, t, p) ==
    [s EXCEPT !.captain[t] = p, !.roster[t] = {p}, !.pool = @ \ {p}]

Promoted(s, t, p) ==
    [s EXCEPT !.captain[t] = p, !.roster[t] = @ \cup {p}, !.pool = @ \ {p}]

Succeeded(s, p) ==
    IF \E t \in Team : s.captain[t] = p
    THEN LET t == CHOOSE u \in Team : s.captain[u] = p
         IN  {Promoted(Without(s, p), t, q) : q \in Successors(Without(s, p), t)}
    ELSE {Without(s, p)}

(* A slip: a pool that is down to one is left to the captain. *)
PoolSettledEmpty(s) ==
    IF s.phase = "pick" /\ s.pool = {} THEN [s EXCEPT !.phase = PhaseAfterPicks(s)] ELSE s

PoolSettled(s) ==
    IF s.phase = "pick" /\ s.pool = {} THEN [s EXCEPT !.phase = PhaseAfterPicks(s)]
                                       ELSE AutoLastPick(s)

StaysPlayable(s) ==
    /\ Cardinality(s.participants) >= LOBBY_DRAFT_MIN_PLAYERS
    /\ IF s.phase = "vote" THEN Cardinality(LinkedIn(s)) >= LOBBY_DRAFT_MIN_LINKED
                           ELSE \A t \in Team : ProjectedSize(s, t) >= 2
RemoveParticipant(p) ==
    /\ ~draft.resolved /\ p \in draft.participants
    /\ \E n \in Succeeded(draft, p) :
          StaysPlayable(n) /\ draft' \in CloseEarlyIfDone(PoolSettled(n))
-----------------------------------------------------------------------------
Act ==
    \/ \E v \in Linked, keys \in SUBSET Linked : CastVote(v, keys)
    \/ \E actor \in Linked, t \in Team : ChooseCoin(actor, t)
    \/ \E actor \in Linked : ChooseSide(actor)
    \/ \E actor \in Linked, p \in Players : PickPlayer(actor, p)
    \/ \E p \in Linked : LockIn(p)

Manage ==
    \/ \E p, q \in Players : ReplaceParticipant(p, q)
    \/ \E p \in Players : RemoveParticipant(p)

Next == Act \/ Manage \/ Timeout

Spec == Init /\ [][Next]_draft
-----------------------------------------------------------------------------
(* Everybody who takes part is in the pool or on one team, and on one only:  *)
(* picks, leavers, newcomers and successors move players between three lists *)
(* (applyPick, removeParticipant, replaceParticipant).                       *)
Partition ==
    /\ draft.participants = draft.pool \cup draft.roster[0] \cup draft.roster[1]
    /\ draft.pool \cap (draft.roster[0] \cup draft.roster[1]) = {}
    /\ draft.roster[0] \cap draft.roster[1] = {}

(* Once elected, each team has a captain, on that team, who can press the    *)
(* buttons, whoever left (removeParticipant's succession).                   *)
CaptainsCanAct ==
    draft.phase # "vote" =>
        \A t \in Team : draft.captain[t] \in draft.roster[t] \cap Linked

(* Both sides have two players or more when the heroes are chosen, whoever   *)
(* left and when: "Need at least 2v2" (projectedTeamSizes).                  *)
TwoEach == draft.phase = "hero" => \A t \in Team : Cardinality(draft.roster[t]) >= 2

(* No team outgrows its side, so that assignHeroes always has a hero for     *)
(* each: who left during the picks and who succeeded a captain from the pool *)
(* never makes the snake put too many on one side.                           *)
FitsSides == \A t \in Team : Cardinality(draft.roster[t]) <= SideSlots

(* A draft never waits for nobody: a vote or a hero phase that is open lacks *)
(* somebody's answer, and a captain who has the clock has a choice           *)
(* (closeEarlyIfDone, autoLastPick), also after those who were waited for    *)
(* have left.                                                                *)
SomeoneToAct ==
    /\ draft.phase = "vote" => \E p \in LinkedIn(draft) : draft.votes[p] = {}
    /\ draft.phase = "pick" => Cardinality(draft.pool) >= 2
    /\ draft.phase = "hero" /\ ~draft.resolved => ~(LinkedIn(draft) \subseteq draft.heroLockedIn)

(* The vote is among those who are there: no ballot by, or for, somebody who *)
(* left or cannot act (withoutVotesFor).                                     *)
BallotsCurrent ==
    \A v \in Players : draft.votes[v] # {} =>
        v \in LinkedIn(draft) /\ draft.votes[v] \subseteq LinkedIn(draft)

(* The teams are such as heroes can be dealt to, at every moment: nobody is  *)
(* lost or in two places, and neither side too small or too large.           *)
TeamsWhole == Partition /\ TwoEach /\ FitsSides

(* Somebody who is there can answer, and his answer counts, whoever left.    *)
AlwaysAnswerable == CaptainsCanAct /\ SomeoneToAct /\ BallotsCurrent

(* A player leaves a team only by leaving the draft, a captain is succeeded  *)
(* only when gone, and what was settled (sides, turn of the picks) stays.    *)
SeatsKept ==
    [][ /\ \A t \in Team : draft.roster[t] \cap draft'.participants \subseteq draft'.roster[t]
        /\ \A t \in Team : draft.captain[t] \in draft'.participants
                              => draft'.captain[t] = draft.captain[t]
        /\ draft'.pickIndex >= draft.pickIndex
        /\ draft.sided => draft'.sided /\ draft'.firstPickTeam = draft.firstPickTeam ]_draft
=============================================================================

---------------------------- MODULE CaptainDraft ----------------------------
(* The captain draft of a channel: moderators name captains and members and  *)
(* begin it; captains pick in a snake from the buttons of its live message   *)
(* or by command; moderators add, remove, replace, swap, move, undo, pick    *)
(* for somebody, rename, publish and cancel.                                 *)
(*                                                                           *)
(* Every handler loads the draft's row, works out a whole new state, and     *)
(* saves it over whatever the row has become. Then it redraws the live       *)
(* message (or posts another when that fails, and saves the whole state once *)
(* more for the new message's sake), and redraws the published teams.        *)
EXTENDS Naturals, Sequences, FiniteSets

CONSTANTS
    People,
    Linked,       \* those with a Discord account: only they act for themselves
    Lists,        \* the lists of people a command may name: a bound
    Jobs,         \* handlers under way at once
    Plans,        \* features used together: the bound of a run
    MaxDrafts,    \* drafts created in the channel: a bound
    MaxMessages,  \* live messages posted: a bound
    MaxEdits,     \* moderators' changes and overlaps: a bound
    None

ASSUME CaptainDraftAssumption ==
    /\ IsFiniteSet(People) /\ Linked \subseteq People /\ Lists \subseteq (SUBSET People) \ {{}}
    /\ MaxDrafts \in Nat /\ MaxMessages \in Nat /\ MaxEdits \in Nat \ {0}

VARIABLES
    draft,     \* the rows, by order of creation
    shown,     \* what each live message shows, by order of posting
    published, \* what the published teams of each draft show
    job,       \* the handlers under way
    stale,     \* what has been written over something newer
    edits,     \* moderators' changes and overlaps so far
    plan

vars == <<draft, shown, published, job, stale, edits, plan>>

Statuses == {"SETUP", "ACTIVE", "COMPLETE", "CANCELLED"}
ACTIVE_STATUSES == {"SETUP", "ACTIVE", "COMPLETE"}
Names == {"captain's", "own"}

(* The teams stand in the order of the draw. `even' is no part of the row:   *)
(* no moderator has changed a team's size.                                   *)
emptyDraftState ==
    [captains |-> {}, memberPool |-> {}, teams |-> << >>, pickIndex |-> 0, even |-> TRUE]
Teams == [captainKey : People, displayName : Names, roster : Seq(People)]
States == [captains : SUBSET People, memberPool : SUBSET People, teams : Seq(Teams),
           pickIndex : Nat, even : BOOLEAN]

(* A handler: its step, the draft, what it will save or has saved, the live  *)
(* message it knows (0 for none), whether it redraws that and the published  *)
(* teams, and whether nobody has saved the draft since it read it.           *)
Steps == {"idle", "create", "post", "begin", "save", "live", "repost", "resave", "refresh", "publish",
          "delete"}
Idle == [at |-> "idle", draft |-> 0, status |-> "SETUP", state |-> emptyDraftState,
         message |-> 0, live |-> FALSE, refresh |-> FALSE, fresh |-> TRUE]

TypeOK ==
    /\ draft \in Seq([status : Statuses, state : States, message : 0 .. MaxMessages])
    /\ shown \in Seq([status : Statuses, state : States] \cup {None})
    /\ published \in Seq(Seq(Teams) \cup {None}) /\ Len(published) = Len(draft)
    /\ \A j \in Jobs :
          /\ job[j].at \in Steps /\ job[j].draft \in 0 .. Len(draft)
          /\ job[j].status \in Statuses /\ job[j].state \in States
          /\ job[j].message \in 0 .. Len(shown)
          /\ {job[j].live, job[j].refresh, job[j].fresh} \subseteq BOOLEAN
    /\ stale \subseteq {"start", "draft", "message", "teams", "failed"}
    /\ edits \in 0 .. MaxEdits /\ plan \in Plans

Init ==
    /\ draft = << >> /\ shown = << >> /\ published = << >>
    /\ job = [j \in Jobs |-> Idle]
    /\ stale = {} /\ edits = 0 /\ plan \in Plans
-----------------------------------------------------------------------------
(* The states a change leads to: one, or none when it is refused.            *)
When(ok, s) == IF ok THEN {s} ELSE {}

Members(roster) == {roster[k] : k \in 1 .. Len(roster)}
Without(roster, p) ==
    LET at == CHOOSE k \in 1 .. Len(roster) : roster[k] = p IN
    [k \in 1 .. Len(roster) - 1 |-> IF k < at THEN roster[k] ELSE roster[k + 1]]

TeamsOf(s) == 1 .. Len(s.teams)
isCaptainKey(s, p) == \E t \in TeamsOf(s) : s.teams[t].captainKey = p
OnTeam(s, p, t) == p \in Members(s.teams[t].roster)
InDraft(s, p) == p \in s.captains \/ p \in s.memberPool \/ \E t \in TeamsOf(s) : OnTeam(s, p, t)
Located(s, p) == p \in s.memberPool \/ \E t \in TeamsOf(s) : OnTeam(s, p, t)

buildTeamsFromCaptains(order) ==
    [t \in 1 .. Len(order) |->
        [captainKey |-> order[t], displayName |-> "captain's", roster |-> <<order[t]>>]]
shufflePickOrder(captains) ==
    {order \in [1 .. Cardinality(captains) -> captains] : Members(order) = captains}

captainIndexForPick(i, n) == IF (i \div n) % 2 = 0 THEN i % n ELSE n - 1 - (i % n)
teamIndexForPick(s, i) == captainIndexForPick(i, Len(s.teams)) + 1
currentCaptainKey(s) == s.teams[teamIndexForPick(s, s.pickIndex)].captainKey

Joined(s, p, t) == [s EXCEPT !.teams[t].roster = Append(@, p)]

applyPick(s, p) ==
    When(p \in s.memberPool,
         [Joined(s, p, teamIndexForPick(s, s.pickIndex)) EXCEPT !.memberPool = @ \ {p},
                                                                !.pickIndex = @ + 1])

(* The last to join the team that picked last goes back, whoever that is.    *)
undoLastPick(s) ==
    LET t == teamIndexForPick(s, s.pickIndex - 1)
        roster == s.teams[t].roster
    IN  UNION {When(Len(roster) > 1,
                    [s EXCEPT !.teams[t].roster = SubSeq(roster, 1, Len(roster) - 1),
                              !.memberPool = @ \cup {roster[Len(roster)]},
                              !.pickIndex = @ - 1]) : x \in When(s.pickIndex > 0, 0)}

addToPool(s, p) == [s EXCEPT !.memberPool = @ \cup {p}]
removeFromPool(s, p) == When(p \in s.memberPool, [s EXCEPT !.memberPool = @ \ {p}])
addToTeam(s, p, t) == [Joined(s, p, t) EXCEPT !.memberPool = @ \ {p}, !.even = FALSE]

(* Somebody taken off a team waits in the pool, also of a complete draft.    *)
removeFromTeam(s, p) ==
    {[s EXCEPT !.teams[t].roster = Without(@, p), !.memberPool = @ \cup {p}, !.even = FALSE] :
        t \in {t \in TeamsOf(s) : OnTeam(s, p, t) /\ ~isCaptainKey(s, p)}}

Exchanged(p, x, y) == CASE p = x -> y [] p = y -> x [] OTHER -> p
InPlaces(s, x, y) ==
    [s EXCEPT !.memberPool = {Exchanged(p, x, y) : p \in @},
              !.teams = [t \in TeamsOf(s) |->
                  [s.teams[t] EXCEPT !.roster = [k \in 1 .. Len(@) |-> Exchanged(@[k], x, y)]]]]

(* The newcomer is nowhere in the draft, so exchanging puts him in place.    *)
replaceParticipant(s, p, newcomer) ==
    When(~isCaptainKey(s, p) /\ Located(s, p), InPlaces(s, p, newcomer))

(* Slip: captains may be swapped. *)
swapParticipantsAny(s, p, q) == When(Located(s, p) /\ Located(s, q), InPlaces(s, p, q))
swapParticipants(s, p, q) ==
    IF p = q THEN {s}
    ELSE When(/\ ~isCaptainKey(s, p) /\ ~isCaptainKey(s, q)
              /\ Located(s, p) /\ Located(s, q), InPlaces(s, p, q))

moveParticipant(s, p, t) ==
    UNION {{[Joined(x, p, t) EXCEPT !.memberPool = @ \ {p}, !.even = FALSE] :
               x \in IF p \in s.memberPool THEN {s} ELSE removeFromTeam(s, p)} :
           y \in When(~isCaptainKey(s, p) /\ ~OnTeam(s, p, t), 0)}

renameTeamInState(s, t) == [s EXCEPT !.teams[t].displayName = "own"]

nextStatusAfterMutation(status, s) ==
    IF status = "ACTIVE" /\ s.memberPool = {} /\ s.teams # << >> THEN "COMPLETE" ELSE status
-----------------------------------------------------------------------------
(* How a handler goes on. *)
Live == {d \in 1 .. Len(draft) : draft[d].status \in ACTIVE_STATUSES}
findActiveDraftForChannel == {d \in Live : \A e \in Live : e <= d}

(* Bound: moderators' changes, and handlers begun while another is at work;  *)
(* only one in a brief plan.                                                 *)
Busy == \E i \in Jobs : job[i] # Idle
Begin(j, task, change) ==
    /\ job[j] = Idle /\ (Busy => "overlap" \in plan)
    /\ Busy \/ change => edits < (IF "brief" \in plan THEN 1 ELSE MaxEdits)
    /\ edits' = IF Busy \/ change THEN edits + 1 ELSE edits
    /\ job' = [job EXCEPT ![j] = task]
    /\ UNCHANGED <<draft, shown, published, stale, plan>>

(* What a handler, having read a draft, will save over it.                   *)
Reads(d) == [Idle EXCEPT !.draft = d, !.message = draft[d].message]
Change(j, d, status, results) ==
    \E s \in results :
        Begin(j, [Reads(d) EXCEPT !.at = "save", !.status = status, !.state = s], FALSE)
Of(d) == draft[d].state
Open(d, statuses) == draft[d].status \in statuses

(* Whoever else is at work on the draft has an old reading from now on.      *)
Wrote(j, task) ==
    job' = [i \in Jobs |-> IF i = j THEN task
                           ELSE IF job[i] = Idle \/ job[i].draft # job[j].draft THEN job[i]
                           ELSE [job[i] EXCEPT !.fresh = FALSE]]
Noting(j, what) == stale' = IF job[j].fresh THEN stale ELSE stale \cup {what}
Goes(j, task) == job' = [job EXCEPT ![j] = task]

Refreshing(task) == IF task.refresh THEN [task EXCEPT !.at = "refresh"] ELSE Idle

(* A begun draft, and a message posted anew, save the message's number.      *)
saveDraftState(j) ==
    LET d == job[j].draft
        message == IF job[j].at = "save" THEN draft[d].message ELSE job[j].message
        saved == [job[j] EXCEPT !.message = message, !.fresh = TRUE]
    IN  /\ job[j].at \in {"save", "begin", "resave"}
        /\ draft' = [draft EXCEPT ![d] = [status |-> job[j].status, state |-> job[j].state,
                                          message |-> message]]
        /\ Noting(j, "draft")
        /\ Wrote(j, IF job[j].status = "CANCELLED" THEN [job[j] EXCEPT !.at = "delete"]
                    ELSE IF job[j].at = "save" /\ job[j].live /\ message # 0
                         THEN [saved EXCEPT !.at = "live"]
                    ELSE Refreshing(saved))
        /\ UNCHANGED <<shown, published, edits, plan>>

buildLiveDraftMessage(j) == [status |-> job[j].status, state |-> job[j].state]

(* A message that is gone cannot be edited; another is posted and the whole  *)
(* state saved again.                                                        *)
syncLiveDraftMessage(j) ==
    /\ \/ /\ job[j].at = "live" /\ shown[job[j].message] # None
          /\ shown' = [shown EXCEPT ![job[j].message] = buildLiveDraftMessage(j)]
          /\ Noting(j, "message") /\ Goes(j, Refreshing(job[j]))
       \/ /\ job[j].at = "live" /\ (shown[job[j].message] = None \/ "failures" \in plan)
          /\ shown' = shown /\ stale' = stale /\ Goes(j, [job[j] EXCEPT !.at = "repost"])
       \/ /\ job[j].at = "repost" /\ Len(shown) < MaxMessages
          /\ shown' = Append(shown, buildLiveDraftMessage(j))
          /\ Noting(j, "message")
          /\ Goes(j, [job[j] EXCEPT !.at = "resave", !.message = Len(shown')])
       \/ /\ job[j].at = "repost" /\ "failures" \in plan
          /\ shown' = shown /\ stale' = stale \cup {"failed"} /\ Goes(j, Refreshing(job[j]))
    /\ UNCHANGED <<draft, published, edits, plan>>

(* Drawing the teams is one step; their channel is left out.                 *)
publishTeamRosters(j) ==
    /\ published' = [published EXCEPT ![job[j].draft] = job[j].state.teams]
    /\ Noting(j, "teams")
refreshPublishedTeamsIfAny(j) ==
    /\ job[j].at = "refresh"
    /\ \/ published[job[j].draft] # None /\ publishTeamRosters(j)
       \/ published[job[j].draft] = None /\ UNCHANGED <<published, stale>>
       \/ /\ published[job[j].draft] # None /\ "failures" \in plan
          /\ published' = published /\ stale' = stale \cup {"failed"}
    /\ Goes(j, Idle) /\ UNCHANGED <<draft, shown, edits, plan>>
-----------------------------------------------------------------------------
(* Moderators set a draft up. Of two starts at once both may find none.      *)
(* Slip: a complete draft does not count. *)
startCaptainDraftBeside(j) ==
    /\ \A d \in findActiveDraftForChannel : Open(d, {"COMPLETE"})
    /\ Len(draft) < MaxDrafts /\ ("again" \in plan \/ draft = << >>)
    /\ Begin(j, [Idle EXCEPT !.at = "create"], FALSE)
startCaptainDraft(j) ==
    /\ findActiveDraftForChannel = {} /\ Len(draft) < MaxDrafts
    /\ ("again" \in plan \/ draft = << >>)
    /\ Begin(j, [Idle EXCEPT !.at = "create"], FALSE)

createDraft(j) ==
    /\ job[j].at = "create" /\ Len(draft) < MaxDrafts
    /\ draft' = Append(draft, [status |-> "SETUP", state |-> emptyDraftState, message |-> 0])
    /\ published' = Append(published, None)
    /\ Noting(j, "start") /\ Wrote(j, Idle)
    /\ UNCHANGED <<shown, edits, plan>>

setCaptains(j) ==
    \E d \in findActiveDraftForChannel, captains \in Lists :
        /\ Open(d, {"SETUP"}) /\ captains \cap Of(d).memberPool = {}
        /\ Change(j, d, "SETUP", {[emptyDraftState EXCEPT !.captains = captains,
                                                          !.memberPool = Of(d).memberPool]})

excludeCaptainsFromMembers(captains, members) == members \ captains
setMembers(j) ==
    \E d \in findActiveDraftForChannel, members \in Lists :
        /\ Open(d, {"SETUP"})
        /\ Change(j, d, "SETUP",
                  {[Of(d) EXCEPT !.memberPool =
                        excludeCaptainsFromMembers(Of(d).captains, members)]})

(* The message is posted before the draft is saved as begun.                 *)
beginCaptainDraft(j) ==
    \E d \in findActiveDraftForChannel :
        /\ Open(d, {"SETUP"})
        /\ Cardinality(Of(d).captains) >= 2 /\ Of(d).memberPool # {}
        /\ \E order \in shufflePickOrder(Of(d).captains) :
              Begin(j, [Reads(d) EXCEPT !.at = "post", !.status = "ACTIVE",
                            !.state = [Of(d) EXCEPT !.teams = buildTeamsFromCaptains(order),
                                                    !.pickIndex = 0]], FALSE)
PostLive(j) ==
    /\ job[j].at = "post" /\ Len(shown) < MaxMessages
    /\ shown' = Append(shown, buildLiveDraftMessage(j))
    /\ Goes(j, [job[j] EXCEPT !.at = "begin", !.message = Len(shown')])
    /\ UNCHANGED <<draft, published, stale, edits, plan>>

(* Cancelling deletes the message as the row named it when it was read.      *)
cancelCaptainDraft(j) ==
    \E d \in findActiveDraftForChannel : Change(j, d, "CANCELLED", {Of(d)})
DeleteLive(j) ==
    /\ job[j].at = "delete"
    /\ \/ job[j].message = 0 /\ UNCHANGED <<shown, stale>>
       \/ /\ job[j].message # 0 /\ shown' = [shown EXCEPT ![job[j].message] = None]
          /\ stale' = stale
       \/ /\ job[j].message # 0 /\ "failures" \in plan /\ shown' = shown
          /\ stale' = stale \cup {"failed"}
    /\ Goes(j, Idle) /\ UNCHANGED <<draft, published, edits, plan>>
-----------------------------------------------------------------------------
(* Picks: a captain with an account in turn, by a menu that names a draft,   *)
(* or by command; or a moderator for whoever is in turn.                     *)
assertCurrentCaptainPick(d) == Of(d).memberPool # {} /\ currentCaptainKey(Of(d)) \in Linked

Picks(j, d) ==
    \E p \in People : \E s \in applyPick(Of(d), p) :
        Begin(j, [Reads(d) EXCEPT !.at = "save", !.state = s, !.live = TRUE, !.refresh = TRUE,
                                  !.status = nextStatusAfterMutation("ACTIVE", s)], FALSE)

(* Slip: a draft that is over may be picked from. *)
applyCaptainDraftPickAnyhow(j, d) ==
    /\ Len(Of(d).teams) > 0 /\ assertCurrentCaptainPick(d) /\ Picks(j, d)
applyCaptainDraftPick(j, d) ==
    /\ Open(d, {"ACTIVE"}) /\ assertCurrentCaptainPick(d) /\ Picks(j, d)

handlePickSelect(j) == \E d \in 1 .. Len(draft) : applyCaptainDraftPick(j, d)
modForcePick(j) ==
    \E d \in findActiveDraftForChannel : Open(d, {"ACTIVE"}) /\ Picks(j, d)
-----------------------------------------------------------------------------
(* Moderators' changes. *)
assertPlayerNotInDraft(s, p) == ~InDraft(s, p)

(* Slip: the published teams of a complete draft are left as they are. *)
persistAndRefreshActive(j, d, results) ==
    /\ "mods" \in plan
    /\ \E s \in results :
          Begin(j, [Reads(d) EXCEPT !.at = "save", !.state = s, !.live = Open(d, {"ACTIVE"}),
                        !.refresh = Open(d, {"ACTIVE"}),
                        !.status = nextStatusAfterMutation(draft[d].status, s)], TRUE)
persistAndRefresh(j, d, results) ==
    /\ "mods" \in plan
    /\ \E s \in results :
          Begin(j, [Reads(d) EXCEPT !.at = "save", !.state = s, !.live = Open(d, {"ACTIVE"}),
                        !.refresh = Open(d, {"ACTIVE", "COMPLETE"}),
                        !.status = nextStatusAfterMutation(draft[d].status, s)], TRUE)

modAddPlayer(j, d) ==
    \E p \in People :
        /\ assertPlayerNotInDraft(Of(d), p)
        /\ \/ Open(d, {"SETUP", "ACTIVE"}) /\ persistAndRefresh(j, d, {addToPool(Of(d), p)})
           \/ /\ Open(d, {"ACTIVE", "COMPLETE"})
              /\ \E t \in TeamsOf(Of(d)) :
                    persistAndRefresh(j, d, {addToTeam(addToPool(Of(d), p), p, t)})

modRemovePlayer(j, d) ==
    \E p \in People :
        \/ persistAndRefresh(j, d, removeFromPool(Of(d), p))
        \/ p \notin Of(d).memberPool /\ persistAndRefresh(j, d, removeFromTeam(Of(d), p))

modReplacePlayer(j, d) ==
    \E p, q \in People :
        /\ assertPlayerNotInDraft(Of(d), q)
        /\ persistAndRefresh(j, d, replaceParticipant(Of(d), p, q))

modSwapPlayers(j, d) ==
    /\ Open(d, {"ACTIVE", "COMPLETE"})
    /\ \E p, q \in People : persistAndRefresh(j, d, swapParticipants(Of(d), p, q))

modMovePlayer(j, d) ==
    /\ Open(d, {"ACTIVE", "COMPLETE"})
    /\ \E p \in People, t \in TeamsOf(Of(d)) :
          persistAndRefresh(j, d, moveParticipant(Of(d), p, t))

modUndoPick(j, d) == Open(d, {"ACTIVE"}) /\ persistAndRefresh(j, d, undoLastPick(Of(d)))

(* A draft with nobody left to pick is complete, whatever its row says.      *)
Complete(d) == nextStatusAfterMutation(draft[d].status, Of(d)) = "COMPLETE"
Renames(j, d, t) ==
    /\ "publish" \in plan /\ Complete(d)
    /\ Begin(j, [Reads(d) EXCEPT !.at = "save", !.status = "COMPLETE", !.refresh = TRUE,
                                 !.state = renameTeamInState(Of(d), t)], FALSE)
modRenameTeam(j, d) == \E t \in TeamsOf(Of(d)) : Renames(j, d, t)
renameCaptainTeam(j, d) ==
    \E t \in TeamsOf(Of(d)) : Of(d).teams[t].captainKey \in Linked /\ Renames(j, d, t)

publishCaptainDraft(j, d) ==
    /\ "publish" \in plan /\ Complete(d)
    /\ Begin(j, [Reads(d) EXCEPT !.at = "publish", !.status = "COMPLETE", !.state = Of(d)], FALSE)
Publishes(j) ==
    /\ job[j].at = "publish" /\ publishTeamRosters(j) /\ Goes(j, Idle)
    /\ UNCHANGED <<draft, shown, edits, plan>>

draftCommands(j) ==
    \/ startCaptainDraft(j) \/ setCaptains(j) \/ setMembers(j) \/ beginCaptainDraft(j)
    \/ \E d \in findActiveDraftForChannel :
          \/ applyCaptainDraftPick(j, d) \/ renameCaptainTeam(j, d) \/ modRenameTeam(j, d)
          \/ publishCaptainDraft(j, d)

moderatorCommands(j) ==
    \/ modForcePick(j) \/ cancelCaptainDraft(j)
    \/ \E d \in findActiveDraftForChannel :
          \/ modAddPlayer(j, d) \/ modRemovePlayer(j, d) \/ modReplacePlayer(j, d)
          \/ modSwapPlayers(j, d) \/ modMovePlayer(j, d) \/ modUndoPick(j, d)

Next ==
    \E j \in Jobs :
        \/ draftCommands(j) \/ moderatorCommands(j) \/ handlePickSelect(j)
        \/ createDraft(j) \/ saveDraftState(j) \/ PostLive(j) \/ syncLiveDraftMessage(j)
        \/ refreshPublishedTeamsIfAny(j) \/ Publishes(j) \/ DeleteLive(j)

Spec == Init /\ [][Next]_vars
-----------------------------------------------------------------------------
(* In every row, whatever handlers overlapped, each captain leads the team   *)
(* that bears his name, nobody is in two places, and somebody is there to be *)
(* picked until the draft is complete (draft-logic.ts, under the             *)
(* moderators' changes).                                                     *)
Once(s) ==
    /\ \A t \in TeamsOf(s) :
          /\ s.teams[t].roster # << >> /\ s.teams[t].roster[1] = s.teams[t].captainKey
          /\ \A k \in 1 .. Len(s.teams[t].roster) :
                LET p == s.teams[t].roster[k] IN
                /\ p \notin s.memberPool /\ (p \in s.captains => k = 1)
                /\ \A u \in TeamsOf(s) : \A l \in 1 .. Len(s.teams[u].roster) :
                      s.teams[u].roster[l] = p => u = t /\ l = k
    /\ {s.teams[t].captainKey : t \in TeamsOf(s)} \in {{}, s.captains}
    /\ s.captains \cap s.memberPool = {}
Placed ==
    \A d \in 1 .. Len(draft) :
        Once(Of(d)) /\ (Open(d, {"ACTIVE"}) => Of(d).memberPool # {} /\ Of(d).teams # << >>)

(* Unless a moderator changed a team's size, each team has had the turns     *)
(* that the number of picks gives it in a snake, also when picks overlap,    *)
(* are undone, or their players replaced and swapped (applyPick).            *)
Turns(k, n, t) ==
    LET extra == IF (k \div n) % 2 = 0 THEN t <= k % n ELSE t > n - (k % n)
    IN  (k \div n) + (IF extra THEN 1 ELSE 0)
SnakeFair ==
    \A d \in 1 .. Len(draft) :
        Of(d).even =>
            \A t \in TeamsOf(Of(d)) :
                Len(Of(d).teams[t].roster) = 1 + Turns(Of(d).pickIndex, Len(Of(d).teams), t)

(* A cancelled draft stays so, unless a handler that read the draft before   *)
(* saves it (assertDraftStatus in every handler).                            *)
CancelledStays ==
    [][\A d \in 1 .. Len(draft) :
          draft[d].status = "CANCELLED" /\ draft'[d].status # "CANCELLED" => "draft" \in stale']_vars

(* The channel has one draft at a time, unless two starts overlap or a       *)
(* cancelled draft came back (startCaptainDraft).                            *)
OneLive == stale \cap {"start", "draft"} = {} => Cardinality(Live) <= 1

(* Once all handlers are done, the live message of an active draft shows     *)
(* what is stored, and the published teams are the stored ones, unless       *)
(* something was saved or drawn over a newer one or could not be drawn       *)
(* (syncLiveDraftMessage, refreshPublishedTeamsIfAny).                       *)
ShownAsStored ==
    (\A j \in Jobs : job[j] = Idle) /\ stale = {} =>
        \A d \in 1 .. Len(draft) :
            /\ Open(d, {"ACTIVE"}) =>
                  shown[draft[d].message] = [status |-> "ACTIVE", state |-> Of(d)]
            /\ published[d] # None /\ ~Open(d, {"CANCELLED"}) => published[d] = Of(d).teams

(* Whatever is stored is a draft captains could have come to: well typed,    *)
(* everybody in one place and every team with its turns of the snake.        *)
TeamsSound == TypeOK /\ Placed /\ SnakeFair
=============================================================================

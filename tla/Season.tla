-------------------------------- MODULE Season --------------------------------
(***************************************************************************)
(* The seasons of one guild: leagues, the channels bound to them, their    *)
(* players' ratings, and the handlers and schedulers that write those at   *)
(* the same time: matches rated and corrected, idle decay charged by       *)
(* whoever looks at a rating and by the nightly batch, the roles of the    *)
(* best players synchronised, and the rollover, which archives a league    *)
(* and opens its successor with the ratings it ended with.                 *)
(*                                                                         *)
(* A handler that reads, awaits and then writes is two actions.  Nothing   *)
(* locks a rating row but a write of the same transaction, so a write may  *)
(* undo what another handler wrote since the read; "lost" remembers where. *)
(***************************************************************************)
EXTENDS IdleDecay

CONSTANTS
    Players,        \* who plays every match
    Leagues,        \* the names leagues may have; First exists from the start
    First,
    Channels,       \* channels and categories of the guild
    Drafts,         \* rollover confirmations that may be open
    Visits,         \* slots for match handlers and for views of a rating
    Batches,        \* slots for ticks of the decay scheduler
    SeasonEnds,     \* the days staff may set a season to end on
    Plans,          \* bound: which kinds of handlers work in the same behaviour
    MaxStaff,       \* bound on staff's commands
    MaxFaults       \* bound on failing calls and restarts

Modes == {"hard", "soft", "continue"}

ASSUME SeasonAssumption ==
    /\ First \in Leagues /\ SeasonEnds \subseteq Days
    /\ MaxStaff \in Nat /\ MaxFaults \in Nat
    /\ Plans \subseteq SUBSET {"views", "batch", "corrections", "settings", "roles", "bindings", "rollover", "faults"}
    /\ None \notin Players \cup Leagues \cup Drafts \cup Matches \cup Rows \cup Modes

VARIABLES
    today,          \* UTC day
    league,         \* League rows
    row,            \* PlayerRating rows, per league and player
    match,          \* Match rows
    leagueOf,       \* LeagueChannelBinding: the league a channel is bound to
    eventBound,     \* channels with an EventChannelBinding
    draft,          \* LeagueRolloverDraft rows
    visit,          \* match handlers and catch-ups in flight
    batch,          \* ticks of the decay scheduler in flight
    batchDay,       \* lastBatchUtcDay, in the process's memory
    confirm,        \* the rollover being confirmed
    sync,           \* the tick of the role scheduler
    unsynced,       \* history: leagues whose roles have not seen a result
    missed,         \* history: leagues whose mark a tick cleared or a void never made
    lost,           \* history: ratings a late or backdated write put back
    redated,        \* history: ratings a flip dated back
    plan, staff, faults

bounds == <<plan, staff, faults>>
tenancy == <<league, leagueOf, eventBound, draft>>
history == <<unsynced, missed, lost, redated>>
vars == <<today, tenancy, row, match, visit, batch, batchDay, confirm, sync, history, bounds>>

-----------------------------------------------------------------------------
(* Rows and processes.                                                      *)

LeagueRows ==
    [status : {"none", "ACTIVE", "ARCHIVED"}, decay : BOOLEAN, ends : Days \cup {None},
     crunch : BOOLEAN, preset : Presets, roles : BOOLEAN, dirty : BOOLEAN,
     pred : Leagues \cup {None}, mode : Modes \cup {None}]

NewLeague == [status |-> "ACTIVE", decay |-> TRUE, ends |-> None, crunch |-> FALSE,
              preset |-> "none", roles |-> FALSE, dirty |-> FALSE, pred |-> None, mode |-> None]
NoLeague == [NewLeague EXCEPT !.status = "none"]

MatchRows ==
    [status : {"none", "ACTIVE", "COMPLETED", "CANCELLED"}, league : Leagues, day : Days \cup {None},
     quit : SUBSET Players, snap : [Players -> Rows \cup {None}], late : BOOLEAN]

Visitors ==
    [op : {"idle", "catchup", "create", "complete", "flip", "void", "notify"}, league : Leagues,
     player : Players \cup {None}, match : Matches \cup {None}, quit : SUBSET Players,
     rows : [Players -> Rows \cup {None}], caught : SUBSET Players]
Ticks ==
    [on : BOOLEAN, now : Days, leagues : SUBSET Leagues, league : Leagues \cup {None},
     todo : SUBSET Players, player : Players \cup {None}, held : Rows \cup {None}, hit : BOOLEAN]
Confirmations ==
    [draft : Drafts \cup {None}, source : LeagueRows, rows : [Players -> Rows \cup {None}],
     taxed : SUBSET Players]
Syncs == [on : BOOLEAN, leagues : SUBSET Leagues, league : Leagues \cup {None}]

NoMatch == [status |-> "none", league |-> First, day |-> None, quit |-> {},
            snap |-> [p \in Players |-> None], late |-> FALSE]

NoVisit == [op |-> "idle", league |-> First, player |-> None, match |-> None, quit |-> {},
            rows |-> [p \in Players |-> None], caught |-> {}]
NoBatch == [on |-> FALSE, now |-> 0, leagues |-> {}, league |-> None, todo |-> {},
            player |-> None, held |-> None, hit |-> FALSE]
NoConfirm == [draft |-> None, source |-> NoLeague, rows |-> [p \in Players |-> None], taxed |-> {}]
NoSync == [on |-> FALSE, leagues |-> {}, league |-> None]

IsLeagueWritable(l) == league[l].status = "ACTIVE"
IsLeagueAcceptingPlay(l) == IsLeagueWritable(l) /\ ~IsLeagueSeasonPaused(league[l], today)

(* A season and those its ratings continue.                                 *)
ClosedUnderCarrying(S) == \A n \in S : league[n].mode \in {"soft", "continue"} => league[n].pred \in S
Seasons(l) == {k \in Leagues : \A S \in SUBSET Leagues : l \in S /\ ClosedUnderCarrying(S) => k \in S}

MatchesOf(l, status) == {m \in Matches : match[m].league = l /\ match[m].status = status}
Games(l) == Cardinality(MatchesOf(l, "COMPLETED"))

(* A row written by a transaction still open: other writers wait for it.    *)
Locked(l, p) == \E t \in Visits : visit[t].league = l /\ p \in visit[t].caught

(* A write of a rating worked out from "read" puts back what came since.    *)
PutsBack(l, p, read) ==
    /\ row[l][p] # None
    /\ \/ read = None
       \/ read # None /\ (read.won # row[l][p].won \/ read.taxed # row[l][p].taxed)

MarkDirty(l) == [league EXCEPT ![l].dirty = TRUE]

(* A mark is tried once; outside a transaction a failing update is logged   *)
(* and forgotten.  Inside one it takes the transaction with it.             *)
MarkTried(l) ==
    \/ league' = MarkDirty(l) /\ UNCHANGED faults
    \/ "faults" \in plan /\ faults < MaxFaults /\ faults' = faults + 1 /\ UNCHANGED league

-----------------------------------------------------------------------------
(* Catch-up of one player's decay, by whoever looks at the rating.          *)

Due(l, p) == Decays(league[l], row[l][p], Games(l), today)
Caught(l, p) == CaughtUp(league[l], row[l][p], today)
CatchUpIfDue(l, r, games) ==
    IF Decays(league[l], r, games, today) THEN CaughtUp(league[l], r, today) ELSE r

(* The write: the columns decay owns, over the row as it is by now.         *)
WriteDecay(l, p, r) ==
    /\ ~Locked(l, p)
    /\ row' = [row EXCEPT ![l][p] = DecayWrite(@, r)]
    /\ lost' = lost \cup {x \in {<<l, p>>} : PutsBack(l, p, r) \/ (row[l][p].last # None /\ r.last < row[l][p].last)}

CatchUpLoad(t, l, p) ==
    /\ "views" \in plan /\ visit[t].op = "idle" /\ Due(l, p)
    /\ visit' = [visit EXCEPT ![t] = [NoVisit EXCEPT
                    !.op = "catchup", !.league = l, !.player = p, !.rows = [@ EXCEPT ![p] = Caught(l, p)]]]
    /\ UNCHANGED <<today, tenancy, row, match, batch, batchDay, confirm, sync, history, bounds>>

CatchUpStore(t) ==
    LET l == visit[t].league  p == visit[t].player IN
    /\ visit[t].op = "catchup"
    /\ WriteDecay(l, p, visit[t].rows[p])
    /\ visit' = [visit EXCEPT ![t] = NoVisit]
    /\ UNCHANGED <<today, tenancy, match, batch, batchDay, confirm, sync, unsynced, missed, redated, bounds>>

-----------------------------------------------------------------------------
(* Matches.                                                                 *)

(* A lobby is created after a look at its league.                           *)
CreateLook(t, l) ==
    /\ visit[t].op = "idle" /\ IsLeagueAcceptingPlay(l)
    /\ visit' = [visit EXCEPT ![t] = [NoVisit EXCEPT !.op = "create", !.league = l]]
    /\ UNCHANGED <<today, tenancy, row, match, batch, batchDay, confirm, sync, history, bounds>>

CreateMatch(t, m) ==
    /\ visit[t].op = "create" /\ match[m].status = "none"
    /\ match' = [match EXCEPT ![m] = [NoMatch EXCEPT
                    !.status = "ACTIVE", !.league = visit[t].league, !.late = ~IsLeagueWritable(visit[t].league)]]
    /\ visit' = [visit EXCEPT ![t] = NoVisit]
    /\ UNCHANGED <<today, tenancy, row, batch, batchDay, confirm, sync, history, bounds>>

(* Only the completion's transaction holds the match's row lock.            *)
Completing(m) == \E t \in Visits : visit[t].op = "complete" /\ visit[t].match = m

CancelMatch(m) ==
    /\ match[m].status = "ACTIVE" /\ ~Completing(m)
    /\ match' = [match EXCEPT ![m].status = "CANCELLED"]
    /\ UNCHANGED <<today, tenancy, row, visit, batch, batchDay, confirm, sync, history, bounds>>

(* A completion opens its transaction, creates missing rating rows, catches *)
(* up on decay (both lock the rows) and reads the ratings ...               *)
CompleteLoad(t, m, q) ==
    LET l == match[m].league
        written == {p \in Players : row[l][p] = None \/ Due(l, p)}
    IN
    /\ visit[t].op = "idle" /\ match[m].status = "ACTIVE" /\ ~Completing(m)
    /\ \A p \in written : ~Locked(l, p)
    /\ visit' = [visit EXCEPT ![t] = [NoVisit EXCEPT
                    !.op = "complete", !.league = l, !.match = m, !.quit = q, !.caught = written,
                    !.rows = [p \in Players |-> CASE row[l][p] = None -> DefaultRow
                                                  [] row[l][p] # None /\ Due(l, p) -> Caught(l, p)
                                                  [] OTHER -> row[l][p]]]]
    /\ UNCHANGED <<today, tenancy, row, match, batch, batchDay, confirm, sync, history, bounds>>

(* ... and commits new ones.  A quit is rated, but is no activity; the      *)
(* match counts for the last look at the ratings, which catches up again.   *)
Rated(cur, read, m, quit, caught, day) ==
    LET base == IF caught THEN read ELSE cur
        rated == MuWrite(base, [read EXCEPT !.won = @ \cup {m}])
    IN  IF quit THEN rated ELSE IdleDecayActivityReset(rated, day)

CompleteStore(t) ==
    LET v == visit[t]  l == v.league  m == v.match IN
    /\ v.op = "complete"
    /\ \A p \in Players \ v.caught : ~Locked(l, p)
    /\ row' = [row EXCEPT ![l] = [p \in Players |-> CatchUpIfDue(l,
                  Rated(row[l][p], v.rows[p], m, p \in v.quit, p \in v.caught, today), Games(l) + 1)]]
    /\ lost' = lost \cup {<<l, p>> : p \in {x \in Players : PutsBack(l, x, v.rows[x])}}
    /\ match' = [match EXCEPT ![m] = [@ EXCEPT !.status = "COMPLETED", !.day = today, !.quit = v.quit,
                                               !.snap = v.rows]]
    /\ league' = MarkDirty(l)
    /\ unsynced' = unsynced \cup {l}
    /\ visit' = [visit EXCEPT ![t] = NoVisit]
    /\ UNCHANGED <<today, leagueOf, eventBound, draft, batch, batchDay, confirm, sync, missed, redated, bounds>>

(* A correction is offered for a match completed within 24 hours, of a      *)
(* league that is not archived, and confirmed some time later.              *)
Correctable(m) == match[m].status = "COMPLETED" /\ today - match[m].day <= 1

CorrectLook(t, m, op) ==
    /\ "corrections" \in plan /\ visit[t].op = "idle" /\ Correctable(m) /\ IsLeagueWritable(match[m].league)
    /\ op \in {"flip", "void"}
    /\ visit' = [visit EXCEPT ![t] = [NoVisit EXCEPT !.op = op, !.league = match[m].league, !.match = m]]
    /\ UNCHANGED <<today, tenancy, row, match, batch, batchDay, confirm, sync, history, bounds>>

(* Restoring a snapshot takes back the results that came after it too, and  *)
(* the ratings a successor was seeded with keep what is taken back here.    *)
Restored(l, m, p) == MuWrite(row[l][p], match[m].snap[p])
TakenBack(l, m) ==
    {<<l, p>> : p \in {x \in Players : row[l][x].won \ {m} # match[m].snap[x].won
                                        \/ row[l][x].taxed # match[m].snap[x].taxed}}
    \cup {<<n, p>> : n \in {x \in Leagues \ {l} : l \in Seasons(x)}, p \in Players}

VoidMatch(t) ==
    LET l == visit[t].league  m == visit[t].match IN
    /\ visit[t].op = "void" /\ Correctable(m)
    /\ \A p \in Players : ~Locked(l, p)
    /\ row' = [row EXCEPT ![l] = [p \in Players |-> Restored(l, m, p)]]
    /\ lost' = lost \cup TakenBack(l, m)
    /\ match' = [match EXCEPT ![m].status = "CANCELLED"]
    /\ unsynced' = unsynced \cup {l}
    /\ visit' = [visit EXCEPT ![t].op = "notify"]
    /\ UNCHANGED <<today, tenancy, batch, batchDay, confirm, sync, missed, redated, bounds>>

(* The roles are marked after the transaction of a void has committed and   *)
(* the lobby's message is redrawn.  If either fails there is no mark.       *)
NotifyLeagueRatingChanged(t) ==
    LET l == visit[t].league IN
    /\ visit[t].op = "notify"
    /\ MarkTried(l)
    /\ missed' = missed \cup {k \in {l} : ~league'[k].dirty}
    /\ visit' = [visit EXCEPT ![t] = NoVisit]
    /\ UNCHANGED <<today, leagueOf, eventBound, draft, row, match, batch, batchDay, confirm, sync,
                   unsynced, lost, redated, plan, staff>>

(* A flip restores, catches up on the restored row, rates again as of the   *)
(* day of the match, and catches up from there.                             *)
Flipped(l, m, p) ==
    LET base == CatchUpIfDue(l, Restored(l, m, p), Games(l))
    IN  CatchUpIfDue(l, Rated(base, base, m, p \in match[m].quit, TRUE, match[m].day), Games(l))

FlipMatch(t) ==
    LET l == visit[t].league  m == visit[t].match IN
    /\ visit[t].op = "flip" /\ Correctable(m)
    /\ \A p \in Players : ~Locked(l, p)
    /\ row' = [row EXCEPT ![l] = [p \in Players |-> Flipped(l, m, p)]]
    /\ lost' = lost \cup TakenBack(l, m)
    /\ redated' = redated \cup {<<l, p>> : p \in Players}
    /\ league' = MarkDirty(l)
    /\ unsynced' = unsynced \cup {l}
    /\ visit' = [visit EXCEPT ![t] = NoVisit]
    /\ UNCHANGED <<today, leagueOf, eventBound, draft, match, batch, batchDay, confirm, sync, missed, bounds>>

(* A correction confirmed too late is refused, as is a lobby not created.   *)
Refused(t) ==
    /\ \/ visit[t].op \in {"flip", "void"} /\ ~Correctable(visit[t].match)
       \/ visit[t].op = "create"
    /\ visit' = [visit EXCEPT ![t] = NoVisit]
    /\ UNCHANGED <<today, tenancy, row, match, batch, batchDay, confirm, sync, history, bounds>>

-----------------------------------------------------------------------------
(* The nightly batch: every active league with decay, every row with        *)
(* activity, one at a time, as of the moment the tick began.                *)

BatchStart(b) ==
    /\ "batch" \in plan /\ ~batch[b].on /\ batchDay # today
    /\ batch' = [batch EXCEPT ![b] = [NoBatch EXCEPT
                    !.on = TRUE, !.now = today,
                    !.leagues = {l \in Leagues : league[l].status = "ACTIVE" /\ league[l].decay}]]
    /\ UNCHANGED <<today, tenancy, row, match, visit, batchDay, confirm, sync, history, bounds>>

BatchLeague(b, l) ==
    /\ batch[b].on /\ batch[b].league = None /\ l \in batch[b].leagues
    /\ batch' = [batch EXCEPT ![b] = [@ EXCEPT
                    !.leagues = batch[b].leagues \ {l}, !.league = l,
                    !.todo = {p \in Players : IF row[l][p] = None THEN FALSE ELSE row[l][p].activity # None}]]
    /\ UNCHANGED <<today, tenancy, row, match, visit, batchDay, confirm, sync, history, bounds>>

BatchLoad(b, p) ==
    LET l == batch[b].league  now == batch[b].now
        due == Decays(league[l], row[l][p], Games(l), now)
    IN
    /\ batch[b].league # None /\ batch[b].player = None /\ p \in batch[b].todo
    /\ batch' = [batch EXCEPT ![b] = [@ EXCEPT
                    !.todo = batch[b].todo \ {p},
                    !.player = IF due THEN p ELSE None,
                    !.held = IF due THEN CaughtUp(league[l], row[l][p], now) ELSE None]]
    /\ UNCHANGED <<today, tenancy, row, match, visit, batchDay, confirm, sync, history, bounds>>

BatchStore(b) ==
    /\ batch[b].player # None
    /\ WriteDecay(batch[b].league, batch[b].player, batch[b].held)
    /\ batch' = [batch EXCEPT ![b] = [@ EXCEPT !.player = None, !.held = None, !.hit = TRUE]]
    /\ UNCHANGED <<today, tenancy, match, visit, batchDay, confirm, sync, unsynced, missed, redated, bounds>>

(* A league is marked once its players are through, if it lost a rating;    *)
(* after the last league the day is done.                                   *)
BatchLeagueDone(b) ==
    LET last == batch[b].leagues = {} IN
    /\ batch[b].on /\ batch[b].player = None /\ batch[b].todo = {}
    /\ batch[b].league = None => last
    /\ IF batch[b].hit THEN MarkTried(batch[b].league) ELSE UNCHANGED <<league, faults>>
    /\ batch' = [batch EXCEPT ![b] = IF last THEN NoBatch ELSE [@ EXCEPT !.league = None, !.hit = FALSE]]
    /\ batchDay' = IF last THEN batch[b].now ELSE batchDay
    /\ UNCHANGED <<today, leagueOf, eventBound, draft, row, match, visit, confirm, sync, history, plan, staff>>

BatchFails(b) ==
    /\ batch[b].on /\ "faults" \in plan /\ faults < MaxFaults
    /\ faults' = faults + 1
    /\ batch' = [batch EXCEPT ![b] = NoBatch]
    /\ UNCHANGED <<today, tenancy, row, match, visit, batchDay, confirm, sync, history, plan, staff>>

-----------------------------------------------------------------------------
(* Staff.  One member of staff works at a time, and nobody else gives a     *)
(* command while a rollover is being confirmed.                             *)

Command(kind) == kind \in plan /\ staff < MaxStaff /\ staff' = staff + 1 /\ confirm = NoConfirm
Configured(kind, l, lg) ==
    /\ Command(kind) /\ IsLeagueWritable(l)
    /\ league' = [league EXCEPT ![l] = lg]
    /\ UNCHANGED <<today, leagueOf, eventBound, draft, row, match, visit, batch, batchDay, confirm, sync, history, plan, faults>>

CreateLeague(n) ==
    /\ Command("bindings") /\ league[n].status = "none"
    /\ league' = [league EXCEPT ![n] = NewLeague]
    /\ UNCHANGED <<today, leagueOf, eventBound, draft, row, match, visit, batch, batchDay, confirm, sync, history, plan, faults>>

(* What each service writes to the league's row ...                         *)
SeasonEndsAt(lg, e) == [lg EXCEPT !.ends = e]
CrunchStarted(lg) == [lg EXCEPT !.crunch = TRUE]
CrunchCleared(lg) == [lg EXCEPT !.crunch = FALSE]
DecayEnabled(lg, on) == [lg EXCEPT !.decay = on]
PresetApplied(lg) == [lg EXCEPT !.preset = "strict_crunch"]
OverridesCleared(lg) == [lg EXCEPT !.preset = "none"]
RolesEnabled(lg, on) == [lg EXCEPT !.roles = on, !.dirty = @ \/ on]
RoleMapped(lg) == [lg EXCEPT !.dirty = TRUE]

(* ... and the commands that have it written.                               *)
SetLeagueSeasonEndsAt(l) ==
    \E e \in SeasonEnds \ {league[l].ends} : Configured("settings", l, SeasonEndsAt(league[l], e))
ClearLeagueSeasonEndsAt(l) ==
    league[l].ends # None /\ Configured("settings", l, SeasonEndsAt(league[l], None))
StartLeagueCrunch(l) == ~league[l].crunch /\ Configured("settings", l, CrunchStarted(league[l]))
ClearLeagueCrunch(l) == league[l].crunch /\ Configured("settings", l, CrunchCleared(league[l]))
SetDecayEnabled(l) == Configured("settings", l, DecayEnabled(league[l], ~league[l].decay))
ApplyDecayPreset(l) == league[l].preset = "none" /\ Configured("settings", l, PresetApplied(league[l]))
ClearDecayModeSetting(l) ==
    league[l].preset # "none" /\ Configured("settings", l, OverridesCleared(league[l]))
SetHeroChampionRolesEnabled(l) == Configured("roles", l, RolesEnabled(league[l], ~league[l].roles))
SetHeroChampionRole(l) == ~league[l].dirty /\ Configured("roles", l, RoleMapped(league[l]))

BindChannel(c, l) ==
    /\ Command("bindings") /\ IsLeagueWritable(l) /\ c \notin eventBound
    /\ leagueOf' = [leagueOf EXCEPT ![c] = l]
    /\ UNCHANGED <<today, league, eventBound, draft, row, match, visit, batch, batchDay, confirm, sync, history, plan, faults>>

UnbindChannel(c) ==
    /\ Command("bindings") /\ leagueOf[c] # None
    /\ leagueOf' = [leagueOf EXCEPT ![c] = None]
    /\ UNCHANGED <<today, league, eventBound, draft, row, match, visit, batch, batchDay, confirm, sync, history, plan, faults>>

BindEvent(c) ==
    /\ Command("bindings") /\ leagueOf[c] = None
    /\ eventBound' = eventBound \cup {c}
    /\ UNCHANGED <<today, league, leagueOf, draft, row, match, visit, batch, batchDay, confirm, sync, history, plan, faults>>

UnbindEvent(c) ==
    /\ Command("bindings") /\ c \in eventBound
    /\ eventBound' = eventBound \ {c}
    /\ UNCHANGED <<today, league, leagueOf, draft, row, match, visit, batch, batchDay, confirm, sync, history, plan, faults>>

-----------------------------------------------------------------------------
(* Rollover.                                                                *)

(* Slip: a lobby that waits to be completed is overlooked.                  *)
NoActiveMatchesSeen(l) == \A m \in MatchesOf(l, "ACTIVE") : Completing(m)

NoActiveMatches(l) == MatchesOf(l, "ACTIVE") = {}

(* The preview opens a confirmation, and drops expired ones of the source.  *)
PreviewLeagueRollover(l, n, mode, d) ==
    /\ Command("rollover") /\ IsLeagueWritable(l) /\ league[n].status = "none"
    /\ draft[d] = None
    /\ NoActiveMatches(l)
    /\ \E expired \in SUBSET {x \in Drafts : IF draft[x] = None THEN FALSE ELSE draft[x].source = l} :
           draft' = [x \in Drafts |-> IF x = d THEN [source |-> l, name |-> n, mode |-> mode]
                                      ELSE IF x \in expired THEN None ELSE draft[x]]
    /\ UNCHANGED <<today, league, leagueOf, eventBound, row, match, visit, batch, batchDay, confirm, sync, history, plan, faults>>

CancelLeagueRolloverDraft(d) ==
    /\ confirm = NoConfirm /\ draft[d] # None
    /\ draft' = [draft EXCEPT ![d] = None]
    /\ UNCHANGED <<today, league, leagueOf, eventBound, row, match, visit, batch, batchDay, confirm, sync, history, bounds>>

(* The confirmation reads the source and its ratings, and who is to be      *)
(* taxed for quits ...                                                      *)
Taxed(l) == {p \in Players : \E m \in MatchesOf(l, "COMPLETED") : p \in match[m].quit}

RolloverLoad(d) ==
    LET l == draft[d].source IN
    /\ confirm = NoConfirm /\ draft[d] # None
    /\ league[l].status # "ARCHIVED"
    /\ confirm' = [draft |-> d, source |-> league[l], rows |-> row[l], taxed |-> Taxed(l)]
    /\ UNCHANGED <<today, tenancy, row, match, visit, batch, batchDay, sync, history, bounds>>

(* Slip: the successor starts from the taxed ratings.                       *)
SeedTaxed(mode, r) ==
    CASE r = None -> None
      [] r # None /\ mode = "hard" -> DefaultRow
      [] OTHER -> [r EXCEPT !.taxed = confirm.taxed # {}]

(* ... and then, in one transaction, taxes the ending season, opens the     *)
(* successor, seeds it from what was read, moves the bindings and archives. *)
Seed(mode, r) ==
    CASE r = None -> None
      [] r # None /\ mode = "hard" -> DefaultRow
      [] OTHER -> r

TaxedRow(p, cur, read) == IF p \in confirm.taxed THEN MuWrite(cur, [read EXCEPT !.taxed = TRUE]) ELSE cur

SuccessorLeagueCreateData(l, mode) ==
    LET s == confirm.source IN
    [NewLeague EXCEPT !.decay = IF mode = "continue" THEN FALSE ELSE s.decay, !.ends = s.ends,
                      !.crunch = s.crunch, !.preset = s.preset, !.roles = s.roles,
                      !.pred = l, !.mode = mode]
Archived(lg) == [lg EXCEPT !.status = "ARCHIVED", !.roles = FALSE]

RolloverCommit ==
    LET d == confirm.draft  l == draft[d].source  n == draft[d].name  mode == draft[d].mode
        back == {p \in Players : PutsBack(l, p, confirm.rows[p])}
        outdated == {p \in Players : IF confirm.rows[p] = None \/ row[l][p] = None THEN FALSE
                                     ELSE confirm.rows[p].activity # row[l][p].activity}
    IN
    /\ confirm # NoConfirm
    /\ NoActiveMatches(l) /\ league[n].status = "none"
    /\ league' = [league EXCEPT ![l] = Archived(@), ![n] = SuccessorLeagueCreateData(l, mode)]
    /\ row' = [row EXCEPT ![l] = [p \in Players |-> IF confirm.rows[p] = None THEN row[l][p]
                                                    ELSE TaxedRow(p, row[l][p], confirm.rows[p])],
                          ![n] = [p \in Players |-> Seed(mode, confirm.rows[p])]]
    /\ leagueOf' = [c \in Channels |-> IF leagueOf[c] = l THEN n ELSE leagueOf[c]]
    /\ draft' = [draft EXCEPT ![d] = None]
    /\ confirm' = NoConfirm
    /\ lost' = lost \cup {<<l, p>> : p \in back \cap confirm.taxed}
                    \cup {<<n, p>> : p \in back \cup outdated \cup {x \in Players : <<l, x>> \in lost}}
    /\ redated' = redated \cup {<<n, p>> : p \in {x \in Players : <<l, x>> \in redated}}
    /\ UNCHANGED <<today, eventBound, match, visit, batch, batchDay, sync, unsynced, missed, bounds>>

RolloverRefused ==
    /\ confirm # NoConfirm
    /\ \/ ~NoActiveMatches(draft[confirm.draft].source)
       \/ league[draft[confirm.draft].name].status # "none"
    /\ confirm' = NoConfirm
    /\ UNCHANGED <<today, tenancy, row, match, visit, batch, batchDay, sync, history, bounds>>

-----------------------------------------------------------------------------
(* The role scheduler: marked leagues in turn, the mark cleared at the end. *)

Marked == {l \in Leagues : league[l].status = "ACTIVE" /\ league[l].roles /\ league[l].dirty}

SyncTick ==
    /\ ~sync.on
    /\ Marked # {}
    /\ sync' = [NoSync EXCEPT !.on = TRUE, !.leagues = Marked]
    /\ UNCHANGED <<today, tenancy, row, match, visit, batch, batchDay, confirm, history, bounds>>

(* Slip: the mark is cleared before the roles are read.                     *)
SyncHeroChampionRolesLate(l) ==
    /\ sync.league = None /\ l \in sync.leagues
    /\ sync' = [sync EXCEPT !.leagues = @ \ {l}, !.league = l]
    /\ league' = [league EXCEPT ![l].dirty = FALSE]
    /\ UNCHANGED <<unsynced, missed, today, leagueOf, eventBound, draft, row, match, visit, batch, batchDay,
                   confirm, lost, redated, bounds>>

(* The best players are read; a league archived or disabled is skipped.     *)
SyncHeroChampionRoles(l) ==
    /\ sync.league = None /\ l \in sync.leagues
    /\ sync' = [sync EXCEPT !.leagues = @ \ {l}, !.league = l]
    /\ IF league[l].roles /\ league[l].status # "ARCHIVED"
       THEN unsynced' = unsynced \ {l} /\ missed' = missed \ {l}
       ELSE UNCHANGED <<unsynced, missed>>
    /\ UNCHANGED <<today, tenancy, row, match, visit, batch, batchDay, confirm, lost, redated, bounds>>

(* A mark made since the reading is cleared with the others.                *)
SyncDone ==
    /\ sync.league # None
    /\ league' = [league EXCEPT ![sync.league].dirty = FALSE]
    /\ missed' = missed \cup (unsynced \cap {sync.league})
    /\ sync' = [sync EXCEPT !.league = None, !.on = sync.leagues # {}]
    /\ UNCHANGED <<today, leagueOf, eventBound, draft, row, match, visit, batch, batchDay, confirm,
                   unsynced, lost, redated, bounds>>

(* A failing synchronisation leaves the mark and goes on with the next.     *)
SyncFails ==
    /\ sync.league # None /\ "faults" \in plan /\ faults < MaxFaults
    /\ faults' = faults + 1
    /\ sync' = [sync EXCEPT !.league = None, !.on = sync.leagues # {}]
    /\ UNCHANGED <<today, tenancy, row, match, visit, batch, batchDay, confirm, history, plan, staff>>

-----------------------------------------------------------------------------
(* Time and failures.                                                       *)

NextDay ==
    /\ today < MaxDay
    /\ today' = today + 1
    /\ UNCHANGED <<tenancy, row, match, visit, batch, batchDay, confirm, sync, history, bounds>>

(* Open transactions roll back; what was to follow a commit does not.       *)
Restart ==
    /\ "faults" \in plan /\ faults < MaxFaults
    /\ faults' = faults + 1
    /\ missed' = missed \cup {l \in Leagues : /\ ~league[l].dirty
                                             /\ \E t \in Visits : visit[t].op = "notify" /\ visit[t].league = l}
    /\ visit' = [t \in Visits |-> NoVisit]
    /\ batch' = [b \in Batches |-> NoBatch]
    /\ batchDay' = None
    /\ confirm' = NoConfirm
    /\ sync' = NoSync
    /\ UNCHANGED <<today, tenancy, row, match, unsynced, lost, redated, plan, staff>>

Init ==
    /\ today = 0
    /\ league = [l \in Leagues |-> IF l = First THEN NewLeague ELSE NoLeague]
    /\ row = [l \in Leagues |-> [p \in Players |-> None]]
    /\ match = [m \in Matches |-> NoMatch]
    /\ leagueOf = [c \in Channels |-> None] /\ eventBound = {}
    /\ draft = [d \in Drafts |-> None]
    /\ visit = [t \in Visits |-> NoVisit]
    /\ batch = [b \in Batches |-> NoBatch] /\ batchDay = None
    /\ confirm = NoConfirm /\ sync = NoSync
    /\ unsynced = {} /\ missed = {} /\ lost = {} /\ redated = {}
    /\ plan \in Plans /\ staff = 0 /\ faults = 0

VisitStep(t) ==
    \/ \E l \in Leagues : \E p \in Players : CatchUpLoad(t, l, p)
    \/ CatchUpStore(t)
    \/ \E l \in Leagues : CreateLook(t, l)
    \/ \E m \in Matches : CreateMatch(t, m)
    \/ \E m \in Matches, q \in SUBSET Players : CompleteLoad(t, m, q)
    \/ CompleteStore(t)
    \/ \E m \in Matches, op \in {"flip", "void"} : CorrectLook(t, m, op)
    \/ VoidMatch(t) \/ NotifyLeagueRatingChanged(t) \/ FlipMatch(t) \/ Refused(t)

BatchStep(b) ==
    \/ BatchStart(b)
    \/ \E l \in Leagues : BatchLeague(b, l)
    \/ \E p \in Players : BatchLoad(b, p)
    \/ BatchStore(b) \/ BatchLeagueDone(b) \/ BatchFails(b)

StaffStep ==
    \/ \E n \in Leagues : CreateLeague(n)
    \/ \E l \in Leagues : \/ SetLeagueSeasonEndsAt(l) \/ ClearLeagueSeasonEndsAt(l)
                          \/ StartLeagueCrunch(l) \/ ClearLeagueCrunch(l) \/ SetDecayEnabled(l)
                          \/ ApplyDecayPreset(l) \/ ClearDecayModeSetting(l)
                          \/ SetHeroChampionRolesEnabled(l) \/ SetHeroChampionRole(l)
    \/ \E c \in Channels : \/ \E l \in Leagues : BindChannel(c, l)
                           \/ UnbindChannel(c) \/ BindEvent(c) \/ UnbindEvent(c)
    \/ \E l, n \in Leagues, mode \in Modes, d \in Drafts : PreviewLeagueRollover(l, n, mode, d)
    \/ \E d \in Drafts : CancelLeagueRolloverDraft(d) \/ RolloverLoad(d)
    \/ RolloverCommit \/ RolloverRefused

SyncStep == SyncTick \/ (\E l \in Leagues : SyncHeroChampionRoles(l)) \/ SyncDone \/ SyncFails

Next ==
    \/ \E t \in Visits : VisitStep(t)
    \/ \E b \in Batches : BatchStep(b)
    \/ \E m \in Matches : CancelMatch(m)
    \/ StaffStep \/ SyncStep \/ NextDay \/ Restart

Spec == Init /\ [][Next]_vars

-----------------------------------------------------------------------------
(* Properties.                                                              *)

(* Every variable keeps its type.                                           *)
TypeOK ==
    /\ today \in Days
    /\ league \in [Leagues -> LeagueRows]
    /\ row \in [Leagues -> [Players -> Rows \cup {None}]]
    /\ match \in [Matches -> MatchRows]
    /\ leagueOf \in [Channels -> Leagues \cup {None}] /\ eventBound \subseteq Channels
    /\ draft \in [Drafts -> [source : Leagues, name : Leagues, mode : Modes] \cup {None}]
    /\ visit \in [Visits -> Visitors]
    /\ batch \in [Batches -> Ticks] /\ batchDay \in Days \cup {None}
    /\ confirm \in Confirmations /\ sync \in Syncs
    /\ unsynced \cup missed \subseteq Leagues
    /\ lost \cup redated \subseteq Leagues \X Players
    /\ staff \in 0..MaxStaff /\ faults \in 0..MaxFaults

(* The days p played for a rating in l.                                     *)
Played(l, p) ==
    {match[m].day : m \in {x \in Matches : /\ match[x].league \in Seasons(l) /\ ~match[x].late
                                            /\ match[x].day # None /\ p \notin match[x].quit}}

DayCosts(s) == {s.midTier1, s.midTier2, s.crunchTier1, s.crunchTier2}
Graces(s) == {s.midGrace, s.crunchGrace}

(* No day is paid for twice, and none within the grace after a game the     *)
(* player finished, however many views, ticks, completions and restarts     *)
(* work from the same rating: a day costs at most what a day may.  Ratings  *)
(* that a flip dated back or a late write put back are excused.             *)
GraceKept ==
    \A l \in Leagues, p \in Players :
        row[l][p] # None /\ <<l, p>> \notin lost \cup redated =>
            \A d \in Days : row[l][p].paid[d] > 0 =>
                \E preset \in Presets :
                    /\ \E k \in DayCosts(Settings[preset]) : row[l][p].paid[d] <= k
                    /\ \A played \in Played(l, p) :
                           d > played => \E g \in Graces(Settings[preset]) : d - played > g

(* A rating holds the results of its league's completed matches and of the  *)
(* seasons it continues, each league's once, whatever is corrected, taxed   *)
(* or rolled over, unless a late write put it back.  A season in play is    *)
(* not taxed.                                                               *)
ResultsCarried ==
    \A l \in Leagues, p \in Players :
        row[l][p] # None /\ <<l, p>> \notin lost =>
            /\ row[l][p].won = UNION {{m \in MatchesOf(s, "COMPLETED") : s = l \/ ~match[m].late} : s \in Seasons(l)}
            /\ row[l][p].taxed => league[l].status = "ARCHIVED"

(* An archived league has one successor, no channels, and no match in play  *)
(* but one whose creation overlapped the rollover; a channel belongs to an  *)
(* active league or to an event, never to both.                             *)
HandedOver ==
    /\ \A l \in Leagues : league[l].status = "ARCHIVED" => Cardinality({n \in Leagues : league[n].pred = l}) = 1
    /\ \A l \in Leagues : league[l].status = "ARCHIVED" => \A m \in MatchesOf(l, "ACTIVE") : match[m].late
    /\ \A c \in Channels : leagueOf[c] # None => IsLeagueWritable(leagueOf[c]) /\ c \notin eventBound

(* A league whose roles have not seen a result is marked, so that the next  *)
(* tick looks, or a void is about to mark it.  Excused are a mark made      *)
(* while a tick was at the league, which clears it, and a void's mark that  *)
(* was never made: the process ended, or the lobby's message or the update  *)
(* failed, between the commit and the mark.                                 *)
RolesMarked ==
    \A l \in unsynced : IsLeagueWritable(l) =>
        \/ league[l].dirty \/ l \in missed
        \/ \E t \in Visits : visit[t].op = "notify" /\ visit[t].league = l

(* Leagues follow each other: well typed, each archived one handed over to   *)
(* one successor with everything that was its own.                           *)
SeasonsFollow == TypeOK /\ HandedOver
=============================================================================

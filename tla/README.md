# TLA+ verification of trueskill-bot

The bot runs in-house leagues for Warcraft III games on Discord: lobbies are
opened and edited, captains draft teams and heroes, matches are started,
reported, approved, mitigated, corrected and voided, every completed match
changes its players' ratings, ratings decay, and seasons follow each other.
This directory holds TLA+ models of the parts where handlers that overlap,
restarts and failing calls can break a promise, the TLC runs that check them on
small instances, and proofs of the main theorems for every value of the
constants.

## 1. The system

A pnpm monorepo: `apps/bot` (the Discord bot and a small HTTP API, one Node
process), `apps/web` (a static page), `packages/db` (the Prisma schema over
PostgreSQL). The models are about `apps/bot/src`: its services, and the
commands and interaction handlers that call them.

What makes its behaviour hard:

* **One process, many handlers.** An interaction (button, menu, modal, slash
  command), an API request, a timer and the scheduled jobs each run as an async
  function. They interleave at every `await`.
* **READ COMMITTED, few locks.** Prisma transactions run at PostgreSQL's default
  level. Rows are locked (`SELECT ... FOR UPDATE`) only in
  `match-report.ts:107,126`, `match-approval.ts:81`,
  `match-mitigation-approval.ts:179,287` and `match-correction.ts:498`; starting a
  lobby's captain draft takes an advisory lock (`draft-actions.ts:407`). Every
  other check-then-write, in a transaction or not, may be overtaken.
* **State in JSON columns.** Drafts are one JSON value, read, changed and
  written back whole. The lobby draft saves it under an optimistic version and
  a queue per draft; the hero draft and the channel draft do not.
* **State in messages.** The report wizard carries its choices in the ids of
  its buttons; a lobby, a live draft and a prompt show what was true when they
  were drawn. Pages and messages outlive what they show.
* **Memory of the process.** Timers, the prompts already sent and the ticks in
  flight are lost by a restart; what boots again reads the rows.
* **Discord fails.** A message or a thread may not be posted after the row was
  written.

### Components

| component | state | operations | modelled in |
|---|---|---|---|
| match lifecycle (`services/match`) | `Match` status, approval winner, mitigation, report, results | create, edit, start, cancel, expire, upload, ingest, report, approve, reject, mitigate, flip, unquit, void | `MatchLifecycle` |
| reporting (`discord/interactions/match-interactions.ts`, `commands/match`) | button ids, private pages, marks, the request's message | the report and cancel wizards, marks, approval panels, commands | `ReportWizard` |
| rating ledger and counters (`services/rating`) | `PlayerRating` columns, snapshots, flags | apply, restore, sanction, count, reset | `RatingEffect`, `DisplayCounters` |
| rating decay | `PlayerRating` mu, day marks | catch-up, nightly batch | `IdleDecay`, `Season` |
| leagues and rollover | `League`, bindings, all ratings | preview, confirm, archive, seed, bind, release | `Season` |
| champion and rank roles | the league's dirty mark | mark, synchronise | `Season` |
| lobby seats (`services/lobby`) | `MatchPlayer` rows, locks, the lobby's message, freshness dates | add, claim, leave, remove, move, swap, remap, rename, lock, balance, import, screenshot, start, cancel | `LobbySeats` |
| lobby captain draft (`services/lobby-draft`) | `LobbyDraft` row, queue, timer | start, vote, coin, side, pick, lock in, replace, remove, cancel, timeout, finalize, boot | `LobbyDraft`, `LobbyFreeze` |
| channel captain draft (`services/captain-draft`) | `CaptainDraft` row, live and published messages | start, begin, pick, undo, swap, move, publish, cancel, ... | `CaptainDraft` |
| hero ban/pick draft (`services/hero-draft`) | `HeroDraft` row, timer | start, ban, pick, skip, page, cancel, timeout, boot | `HeroDraft` |
| host prompt (`services/wc3stats`) | prompted keys, ticks, prompt messages, league channels | poll, prompt, open, dismiss, configure | `HostPrompt` |
| leaderboards, statistics, releases, OCR, codecs, wc3stats parsing, events, guild and game configuration, observability, API plumbing, web, deploy | | | not modelled: section 6 |

They interact through rows and calls: a lobby (`LobbySeats`) is frozen by a
captain draft and takes its teams (`LobbyFreeze`, whose draft is `LobbyDraft`);
started, it becomes a match in progress (`MatchLifecycle`), reported through
pages (`ReportWizard`); its completion changes ratings (`RatingEffect`), counters
(`DisplayCounters`), and decay, roles and rollover work on the same rows
(`Season`). Each model contains the neighbours' writes that can overlap its own.

`PROJECT.json` lists every component, the hazards of this code at the line
where they bite with the properties that watch them, the source lines of every
definition, and a mutation for each checked property that must break it.

## 2. The modules

```
RatingEffect <-- MatchLifecycle -- MCMatchLifecycle     runs match_rows, match_mitigation_race
   (abstract)          +---------- MatchLifecycleProofs
              ReportWizard ------- MCReportWizard       run report_wizard
                       +---------- ReportWizardProofs
              DisplayCounters ---- MCDisplayCounters    run display_counters
                       +---------- DisplayCountersProofs
  IdleDecay <-- Season ----------- MCSeason             run season
                       +---------- SeasonProofs
              LobbySeats --------- MCLobbySeats         run lobby_seats
                       +---------- LobbySeatsProofs
              LobbyDraft --------- MCLobbyDraft         run lobby_draft
                       +---------- LobbyDraftProofs
              LobbyFreeze -------- MCLobbyFreeze        run lobby_freeze
                       +---------- LobbyDraftProofs
              CaptainDraft ------- MCCaptainDraft       run captain_draft
                       +---------- CaptainDraftProofs
              HeroDraft ---------- MCHeroDraft          runs hero_draft, hero_draft_stuck
                       +---------- HeroDraftProofs
              HostPrompt --------- MCHostPrompt         run host_prompt
                       +---------- LobbySeatsProofs
```

The same conventions hold everywhere.

* A handler in flight sits in a slot (`task`, `job`, `tx`, `visit`, `click`) and
  is cut where it awaits; what it carries over an `await` is in its record, so
  that stale values are really stale. A check and a write that one conditional
  `UPDATE`, one row lock or one synchronous stretch of code makes atomic are one
  step.
* A constant set of *settings*, *plans* or *pasts* says what a behaviour may
  contain (which handlers run, whether they overlap, whether calls fail), and
  the initial state picks one. So one run covers several combinations, each of
  them deep, where all at once would be too many states; a property that only
  holds for handlers in turn names the setting it needs.
* Where a lost race is the code's own, the model records it (`stale`, `lost`,
  `drift`, `missed`): a property then says exactly which overlap excuses it, and
  everything else still has to hold.
* Definitions keep the source's names. Definitions marked as slips are not used
  by the specifications: each states how a plausible bug would change the
  definition that follows, for the mutations of `PROJECT.json`.

### MatchLifecycle and RatingEffect

Every operation of `services/match` that changes a match's status, result,
report, mitigation decision or effect on the ratings. `...Read` and `...Write`
are the two halves of a handler that reads, awaits and writes without a lock
(`startMatch`, `cancelMatch`, `uploadMatchStats`, `requestMitigationApproval`,
`clearMatchQuitters`, ingest); operations that re-read under `FOR UPDATE`
(`completeMatch`, `rejectWaitingMatch`, `flipCompletedMatch`,
`voidCompletedMatch`, ...) are one step. `effect[m]` is what match `m` has done
to the ratings: nothing, applied with a winner and a percent, or restored from
its snapshots; `snaps[m]` says its snapshots exist. `HandlerDies` is an
exception between two steps of a handler; `IngestUndo` is the compensation the
ingest makes. `RatingEffect` is the promise to the ledger: a match is rated at
most once, corrected only after, and never again once taken back; `RatedOnce`
says that `MatchLifecycle` implements it. Flags and rosters are in
`ReportWizard` and `DisplayCounters`.

### ReportWizard

The pages by which staff end a match: winner, quitters, griefers, disconnects,
softening, confirmation; the cancel wizard; the menus that mark players; the
mitigation request and its message; the panel of a match that came through the
API; the `/match` commands. A page's `claim` is what its buttons' ids carry; a
click that writes is a job that checks the match and then writes. `result`
remembers how the match ended, by whom, through which page, and what was
written. Each member of staff has one private page; a request's message may fail
to be posted.

### DisplayCounters

The counters on a player's rating row and the flags on match rows, transaction
by transaction, statement by statement, with the row locks that the statements
take and READ COMMITTED reads. `Plan` lists a transaction's steps in the code's
order; a step that needs a lock another holds waits; a transaction may die.
`missed` collects the players whose history another transaction changed between
this one's count and its write, and `drift` those whose columns were stored from
such a count. The two queries of a count are one step.

### IdleDecay and Season

`IdleDecay` is the pure part of decay: which days are pending, and what each
costs (grace, tiers, streak cap, pauses). `Season` is a guild's leagues: matches
that are created, completed, flipped and voided, catch-up decay by whoever looks
at a rating, the nightly batch, the role synchronisation, channel bindings,
and the rollover with its preview, confirmation and transaction. A rating is
kept as what it is made of (`won`, `paid`, `taxed`, activity dates), not as a
number, so that losing a result or charging a day twice is visible. A
completion and a flip catch up on their players again before they commit
(`CatchUpIfDue`). A mark of the roles made outside a transaction is tried once and
may fail without anybody noticing (`MarkTried`, `mark-dirty.ts:25`); a void makes
its mark after it has committed and the lobby's message is redrawn, a step in which
the process may end or the call fail (`Restart`). `RolesMarked` is about results:
decay that lost its mark is not followed. One kind
of role stands for champion and rank roles, one player for all.

### LobbySeats

The roster of a lobby as rows (`row`), the locks on slots and sides, the status,
the message, and the date of the last manual edit (`authority`). Every edit
reads, computes and rewrites in a transaction of two steps that locks nothing;
then the message is drawn. `stale` says what an edit overtook, and whether
locks were set on a lobby no longer open (`setMatchPlayersLocked` looks at the
status, writes later, and has the message drawn as open). Imports carry the
date at which the game's list was seen. Refreshes run one at a time
(the code debounces them for 15 s); a menu is used once.

### LobbyDraft and LobbyFreeze

`LobbyDraft` is the engine of the lobby's captain draft (`draft-logic.ts`) on the
state it keeps in the `LobbyDraft` row: vote, coin, side, picks, heroes, and
leavers in each of them. Every operation of the code is load, pure function,
save, with a queue per draft in the process and a version check in the database,
retried on a conflict: it is one step here (five conflicts in a row make the code
give up the request, which then changes nothing). A roster is a set with the
number of the pick that brought each player (`joined`), which orders it as the
code's array does for the one decision that depends on the order, the succession
of a captain. Ballots are dropped when the vote closes: nothing reads them
later. Random choices (ties, coin, timeouts, a successor from the pool) are
nondeterministic. Which heroes players asked for, and who gets which, is left
out; assigning fails when a side has more players than heroes, and
`ResolveHeroPhase` keeps that refusal.

`LobbyFreeze` is a lobby, its roster and the drafts held for it:
`startLobbyDraft` in its three parts, clicks, the timeout, `finalize` with its
roster transaction cut between the read and the write, cancellation, roster
edits, start, cancellation and expiry of the match, failing calls, restarts. What
happens inside a draft is reduced to the deadline it has come to, and whether
heroes are assigned. A roster is known by where it came from: an edit's number,
or the draft whose teams it is; a draft's `base` documents the roster it was
started from. `Pasts` says how much of the bounded events a behaviour has used
up before it begins, and which drafts are over.

### CaptainDraft

The channel's draft: a row that every handler loads, recomputes and saves whole
(`state`), its live message, and the published teams. Handlers are jobs cut at
the load, the save and the drawing; a drawing that fails posts a new message and
saves once more. Drafts form a list, since two starts may overlap; the channel's
draft is the newest that is not over.

### HeroDraft

The row's status, the log of choices (the turn is its length), the timer, and
handlers that read the row and write it back whole: two that overlap overwrite
each other. A setting lets captains click what their panel no longer offers
(`stale`), a call fail (`failures`), handlers overlap (`overlap`). Time is not
counted: a timer may fire whenever it is set, and a deadline is named by the
turn it was set for. With overlapping handlers, two of which may set the
deadline of one turn, the model leaves open which of the two is later, more
than the code can do. A run follows a stretch of the sixteen turns
(`FirstTurn`, `LastTurn`) with the heroes that are left; the catalogue must
have at least one for each turn of the stretch (sixteen in all, as for the
games that use the draft). `HERO_DRAFT_SEQUENCE` itself is complete.

### HostPrompt

The poller that asks linked hosts in a channel of the league whether to open a
lobby for the game they host: ticks cut at the list, the database, each prompt
and its record in `promptedKeys` (`prompted`); the two buttons, whose handlers
create the match, edit the message and tell the match; the `/config` commands
that keep the prompt's channel and the lobby channel equal, each of which reads,
compares and writes; failing calls and restarts. One league; each game has a
host of its own, so that a cap on a host's lobbies is that on a game's;
`MaxPerTick` stands for `MAX_PROMPTS_PER_TICK`, which is 5.

## 3. The runs

| run | instance | distinct states | shows |
|---|---|---|---|
| `match_rows` | three matches, handlers in turn or overlapping | 1,449,785 | every completed match is rated and backed by a snapshot, nothing waits without a report when handlers take turns, ratings follow the results exactly (`LedgerExact`, the refinement `RatedOnce`), decisions close, lobbies are distinct |
| `match_mitigation_race` | the same, one request | violation | a match is put back to waiting after it was rated |
| `report_wizard` | two staff, one player, two jobs, two writes, nine plans | 1,484,106 | a wizard ends the match as its page said, approvals apply what was asked, no player is marked both ways |
| `display_counters` | two players, one a team, two matches, three transactions of which two overlap | 939,845 | counters equal the history, or the overlap is on record; a count made under the lock misses no other transaction's result; nobody is counted as quit and disconnected |
| `season` | one player, two leagues, three days | 2,081,286 | grace is kept, results are carried over decay and rollover, seasons follow one another, a result marks its league's roles, but for the lost marks of section 5 |
| `lobby_seats` | two players, three seats, two edits at once, ten plans | 491,407 | seats, locks, freshness of imports, and the message |
| `lobby_draft` | seven players, three a side | 6,879 | teams stay whole, somebody can always answer, seats are kept |
| `lobby_freeze` | two drafts, two deadlines, one failure, one restart | 602,540 | one active draft, its outcome stands, and it ends |
| `captain_draft` | two captains, three others, two drafts, two jobs | 373,375 | teams sound, one live draft, the message shows the row, a cancelled draft stays so, each but for the races named |
| `hero_draft` | three turns of the sixteen, overlapping handlers, failures | 1,272,300 | no hero twice, choices stand, and a calm draft settles |
| `hero_draft_stuck` | a click on a stale panel | violation | the draft is left without its timer |
| `host_prompt` | two games, staff, failures, one restart | 760,124 | prompts, one question a game, the lobby's message, and every host is asked |

`CHECK_DEADLOCK FALSE` everywhere: without requests the bot rests, and drafts,
matches and seasons end.

**Why the bounds are enough.** The races are between two handlers about one
row: two slots, and operations that lock the row as single steps beside them,
give every order of two handlers, and of one with any number of locked
operations. One failure and one restart fall at every step, and life goes on
after the last bounded event, so that bounds on edits, failures and restarts cut
no behaviour between them. Beyond that:

* *match_rows*: a third match lets two claim one game or one host while another
  is ingested. Overlapping handlers run on a lobby and an ingested match,
  handlers in turn (which may die) on all three.
* *display_counters*: one player a team; a completion, a correction, a sanction
  and a reset meet in every pair of overlapping transactions, after a first
  match that already counts.
* *season*: a player, two leagues, three days, and settings small enough that
  grace, both tiers, the streak cap and the floor are reached; each plan lets two
  or three kinds of handlers run beside matches and the clock. Nothing is
  followed past a rating that a late write has put back (`NothingLost`).
* *report_wizard*: a host and a moderator, two jobs, two writes, and one player
  on whom every mark can fall; a plan is a set of features used together.
* *lobby_seats*: two players on three seats, two of them on one team: a seat to
  fight for, a side to be locked to, and one to balance to.
* *lobby_draft*: seven players with three a side start with one too many to
  draft at once (a draft needs at most six), so that there is always a newcomer;
  four linked ones let both captains leave; three unlinked ones let the linked
  run out.
* *lobby_freeze*: two deadlines are the least for a timer to be early; two drafts
  with one of an edit, a failure and a restart spent, one draft with all three.
* *captain_draft*: two captains and three others, one of whom comes later; two
  drafts, two messages, two moderators' edits; two jobs.
* *hero_draft*: turns 10 to 12 hold a pick before a ban and two bans; the stuck
  draft's turns 5 to 7 a ban before picks.
* *host_prompt*: one game with staff, hosts, games, lobbies or overlaps changing;
  two games (more than a tick asks about) with failing calls and a restart; two
  overlapping commands with nobody to ask.

**Fairness.** Only in `hero_draft`, `hero_draft_stuck`, `lobby_freeze` and
`host_prompt`. Strong fairness of the timers' `Fire`: a `setTimeout` that is set
fires however busy the loop is, even if in the model the slots are at times all
taken. Weak fairness of every handler's `Continue` and of a tick's steps: the
event loop comes back to an awaited call; and of `StartTick`: the interval fires
every 45 seconds. Nothing is asked of users: no click is fair. `CalmSettles`
speaks of handlers in turn and calls that do not fail, because with either the
code leaves the draft without a timer until the bot restarts (`hero_draft_stuck`
shows the shortest way). `Decides` holds with one failing call; two, a start
whose first message fails and whose cancellation then fails too, leave an active
draft with no timer. `Applies` excuses a failed final write, which the code
tries again only at the next boot.

**Findings.** The two violations are disagreements between the code and its own
documents; `PROJECT.json` quotes both. In `match_mitigation_race` a status read
before an `await` is used after it and a rated match is put back to waiting for
approval; in `hero_draft_stuck` the timer is cleared before the check that may
refuse the click, and nothing sets it again.

## 4. The proofs

Checked by TLAPS, for any constants that satisfy the modules' assumptions.

* `MatchLifecycleProofs`: all properties of the run `match_rows`, for any number
  of matches, hosts and games. `TypeCorrect`, `RatingsAreBacked` (`RatingsBacked`,
  from `CompletedIsRated` and `RatedHasSnapshots`), `RatedAtMostOnce` (`RatedOnce`,
  the refinement of `RatingEffect`), `NoOrphansWait`, `LedgerIsExact`,
  `DecisionsAreClosed` (`Decided`) and `LobbiesAreDistinct`. Type correctness and `SnapshotBacked` are
  inductive together. `RatedWhenCompleted` needs `SnapshotBacked`: a match that
  was rated and is put back into play by a lost race cannot be completed again,
  because the code refuses to write snapshots that exist. The refinement follows
  from the invariant, one step per action that touches `effect`. What holds for
  handlers in turn (`LedgerExact`, `Decided`, `PendingLobbiesDistinct`) is about
  states in which a handler has read and not yet written: `SerialInv` says that
  at most one is at work and `Fits` what it may still assume of its match.
  `NoOrphanWaiting` excuses the handlers that died; `OrphanInv` says that every
  other ingest still at work will write the report it owes.
* `ReportWizardProofs`: `MarksAreSound` (`MarksSound`), `WizardEndsAsShown`
  (`EndsAsShown`), `ApprovalsAreAsked` (`ApprovedAsAsked`), for any staff, seats
  and number of clicks at work. A result is judged against a page that is long
  gone: `WizardInv` says of every page (`PageFits`) and of every job (`JobFits`)
  that what its claim says is still what the rows say, unless marks were written
  since it was drawn; each click passes that on (`Onwards`).
* `DisplayCountersProofs`: all four properties of the run, for any players,
  matches and transactions: `TypeCorrect`, `CountersHold` (`CountersExact`),
  `LockedCounts` (`LockedCountsStand`), `QuitHidesDc` (`NeverQuitAndDc`). The
  invariant says of every transaction what its plan still owes, which locks it
  holds for it, and that whoever it has changed it will count before it commits.
  `LockedCountsStand` is about what a count has missed by the time it is stored, not
  about the flags a moderator writes later.
* `HeroDraftProofs`: `DraftIsSound` (`DraftSound`), from `TypeCorrect`,
  `HeroesDistinct` and `CompleteDraftsFull`, and `ChosenStands` (`ChoicesStand`).
  A row alone is not inductive: a
  handler may write any log it read earlier. The invariant says of every log
  a handler carries what is said of the row's. For `ChosenStands`, `AloneInv` adds
  that without overlap a handler at work is alone and what it read is current, so
  that what it writes is the row's log with one choice on top (`OnTop`).
* `LobbySeatsProofs`: all four properties of the run, for any players, slots,
  users and edits at once: `SeatsAreSound` (`SeatsSound`), `MessageShowsStored`
  (`ShownAsStored`), `LocksStay` (`LocksKept`), `ListsGiveWay` (`ImportsFresh`).
  None is inductive, for a rewrite stores what was worked out from rows read
  before. `SeatsInv` says of every job that nobody has written after (`fresh`) that
  what it holds is current (`Current`): a balanced roster respects the locks that
  are stored, an import's date is after the last edit by hand, a start's roster has
  both teams, the rows read are the rows, and what a drawing will show is what is
  stored. A write makes every other job stale, and any other step changes nothing
  a fresh job relies on; so one lemma (`Turn`) serves every click and command, and
  one (`Write`) every write. The message is right, or a job is at work that will
  make it so (`Shown`).
* `LobbyDraftProofs`: every property of the run `lobby_draft`, for any players,
  any set of linked ones and sides of any size: `TypeCorrect`, `TeamsAreWhole`
  (`TeamsWhole`, from `PlayersPartitioned`, `CaptainsAct`, `AtLeastTwoEach` and
  `TeamsFit`), `AnswerPossible` (`AlwaysAnswerable`, from `VoteCurrent` and
  `NeverWaitsForNobody`), `SeatsAreKept` (`SeatsKept`). Each pure function of
  `draft-logic.ts` has its lemmas, what it keeps of each part of the invariant,
  and an action's step composes them. `Good` joins the lists, captains and
  ballots to how far the draft has come. `Sized` is why nobody goes without a
  hero or plays alone: a team has at most one player more than the snake has
  given it turns, the pool and the picks made never exceed two short of the
  seats (so the turns of either team are at most one short of its side), and the
  projected sizes that `removeParticipant` checks stay at least two because a
  pick moves one seat from the picks to come to the roster.
* The second part of `LobbyDraftProofs`, which extends both modules, is about
  `LobbyFreeze`. `FreezeIsSound` (`FreezeSound`, from `FreezeTypeCorrect` and
  `OneDraft`) and `OutcomesAreKept`
  (`OutcomesStand`, from `DraftsStayOver` and `DraftAppliedOnce`). That a draft
  is applied once needs that a roster that is a draft's teams belongs to a
  completed draft (`RosterOfCompleted`).
* `CaptainDraftProofs`: all four properties of the run, for any people, finitely
  many of them, any jobs, drafts, messages and changes by moderators, at least
  one (`MaxEdits > 0`, for a plan that names a few counts one). They are
  `DraftsStaySound` (`TeamsSound`), `OneDraftLive` (`OneLive`),
  `MessagesShowDrafts` (`ShownAsStored`) and `CancelledDraftsStay`
  (`CancelledStays`), from `DraftsInvariant`, in two parts.
  `StateInv`: a handler's copy is as sound as a stored row, since it may become
  one whatever has been stored meanwhile. A sound state's people are in one place
  each, its captains lead their teams, somebody is left to be picked while it is
  active, and its teams have their turns of the snake while it is `even`. Each
  pure function of `draft-logic.ts` keeps that (`Sane`): a pick gives the team in
  turn one player and the snake one turn (`NextTurn`), an undo takes both back,
  and what breaks the count clears `even`. A lobby's list deals everybody to one
  place because what it names is taken from the pool as it goes.
  `ShowInv`: a message belongs to one draft (`Own`), and one just posted is known
  to its handler alone (`Private`); a handler nobody has overtaken (`fresh`)
  knows its row (`Knows`), so a save by it revives nothing; while no start and no
  save has gone over a newer one, at most one draft is live and none if a handler
  is about to create one (`Alone`); and whatever is not shown yet, the last
  handler to save still owes (`Paid`). `SaveShow` and `NewsShow` carry these
  parts over a save and a drawing, whichever command they end.
* The second part of `LobbySeatsProofs`, which extends both modules, is about
  `HostPrompt`: the three safety properties of the run. `PromptsAreSound`
  (`PromptsSound`): the one command that has looked and not written would still
  keep the channels equal, because nothing else writes meanwhile.
  `HostsAskedOnce` (`AskedOnce`): whatever this process has asked is remembered or
  about to be by the tick that asked, and a tick that is about to ask finds no
  message of its game. `LobbiesAreShown` (`LobbyShown`): the message of a handler
  at work shows what the handler takes it to show, and no two handlers work on
  one message or one lobby.

* `SeasonProofs`: for any players, leagues, matches, settings, days, handlers and
  ticks at work, `SeasonsAlwaysFollow` (`SeasonsFollow`) and `RolesStayMarked`
  (`RolesMarked`), from `SeasonInvariant`. `Sound` says what each handler in flight
  may still assume of what it read: its league is there, the rating it is about to
  write was there when it read it and is still, the match it completes or corrects
  is of that league, and an archived league is the predecessor of one other. So
  the transaction of a rollover, which asks again only for matches in play and for
  the successor's name, archives a league that is still in play. One lemma a
  handler; `Grows` and the `Kept` lemmas are what they share: a step that removes
  no league, rating or match takes nothing away from the others.
  The pass of pending days (`computeDecayDelta`) is a function defined by recursion
  on the day; `ChainExists` and `PassIs` prove, by the least day that fails, that it
  exists and what it leaves of a rating.

  `ResultsAreCarried` (`ResultsCarried`) adds two invariants. `Exclusive`: a match
  being completed is in play, no two handlers complete one match, and no two hold
  the lock of one rating. `Carried`: a rating holds exactly `Results` of its league,
  and where there is no rating there is no result; the second half is what a
  completion that creates the rating, and a rollover that finds none to carry,
  rely on. `Seasons(l)`, the seasons a rating continues, is the least set closed
  under "carried over from"; `SeasonsHandedOver` proves that a rollover gives the
  successor its source's, or none, and changes nobody else's, `SeasonsOver` that
  all but the last are archived: so a match completed in a season others continue
  was created while its rollover was under way, and they do not count it.

  `GraceIsKept` (`GraceKept`) adds `Fair`, which says of every row in somebody's hand what
  is said of the stored one. A day is `Settled` for a row when its next pass will not
  charge it; a row pays only for days that are settled for it (`Before`) and that were
  earned by idleness (`Earned`). A view and a tick hold a row whose settled days only
  the stored one can outrun (`HeldFair`), for the stored row's activity moves on;
  a completion that caught up holds the row's lock, so nobody else moves it
  (`CompletingFair`, from `Exclusive`); the snapshot of a match and the rows a rollover
  has read are backed by whatever the stored row has become (`Backed`), which is why a
  void, which writes the snapshot's payments and keeps the row's dates, charges
  nothing again. `ChargedFair` is the pass itself, `EarnedKept` that a game finished
  today is after every day paid for, `HandsFair` what a step that writes a row owes to all
  who hold one. A rating is excused once a flip dated it back (`redated`) or a late
  write put something back (`lost`).

  Three theorems are about the pass alone (`ComputeDecayDelta`, `CaughtUp`), for any
  settings, row and days. `LateIsInTime`: catching up on one day and again later leaves
  what catching up once leaves, so that views, completions and the batch may come as
  they like. It needs the league to be in its crunch on both days or on neither, for
  the code asks that once, of the moment of the pass: without it the equation is
  false. (Mu is in whole ki here: the code's differ by what adding floating-point
  numbers in another order makes of them.) `FloorHolds`: a pass stops at the floor,
  takes nothing of a rating already below it, and puts what it takes on the streak.
  `StreakCapped`: outside the crunch no pass goes past the cap. They rest on
  `PassSteps` (a pass is its last day's charge over the pass of the days before) and
  `DayByDay`, an induction over days stated for a set and proved from its least
  counterexample, since the library's induction takes an operator.

Model-checked only: liveness (`CalmSettles`, `Ends`, `AllAsked`: fairness and
leads-to are out of the prover's reach).

## 5. What the code does not keep

Met while modelling. Each is in the models as the code has it; a property
excuses exactly that overlap, or a hazard in `PROJECT.json` says that none covers
it.

*Matches.* A handler that dies between the two writes of an ingest leaves a
match waiting for approval with no report, and no code repairs that. Rejecting a
mitigation returns the match to progress without asking the host cap, so a host
who has opened another lobby meanwhile has two (`match-mitigation-approval.ts:298`;
`2026-08-18-host-one-active-lobby-design.md:10`). Unquit passes on the winner it
read before the lock and so undoes an overlapping flip (`match-report.ts:900`;
`2026-08-25-match-unquit-design.md:32`). Two completions that share a player read
the same rating, and one update is lost (`rating-update.ts:417`).

*Reporting.* An Approve pressed on an old message may complete a match whose
request was rejected and asked again since. `ReportDcs` checks the status only. A
request whose message cannot be posted leaves the match waiting with nothing to
press. `mitigationApprovalMessageId` is stored and never consulted. The cancel
wizard's confirmation does not show the quitters it will record.

*Counters and seasons.* Counters may be stored from a count made before another
transaction's commit (`drift`). Catch-up on a read path changes ratings without
marking the roles dirty (`mark-dirty.ts:9`); the batch marks a league after its
whole loop; a tick of the roles clears marks that were set during it. A void
leaves its league unmarked until something else marks it when the process ends
after its commit, when the lobby's message cannot be redrawn
(`match-correction-interactions.ts:110`), or when the mark's own update fails, which
is logged and forgotten (`mark-dirty.ts:25`); the batch's mark
(`rating-decay.ts:527`) may be lost in the same ways. The days
of a pause are charged at the first catch-up after it, though
`docs/discord/staff/a7-rating-decay.md:19` says that decay stops. A flip dates a
player's activity back to the match's completion; a void or a correction restores
a mu from before the decay charged since. `startMatch` and `createMatch` ask the
league's status outside their transaction; `voidCompletedMatch` never asks. A
match completed and voided between a rollover's reading and its transaction leaves
the successor's ratings with the activity from before it.

*Lobbies.* Nothing in the database keeps two players from one slot: two
overlapping rewrites can do so, and every edit is then refused as a duplicate
slot until one is removed, while a start is not. A game list read before a manual
edit overwrites it. A drawing of a pending lobby that comes late puts buttons
back on one that started or was cancelled; so do locks set on it late, since
their handler has the lobby drawn as open whatever it has become
(`lobby/actions.ts:254`). A rewrite that read `PENDING` commits
after a start or a cancellation. Menus name a slot only, so a stale one acts on
whoever sits there now. Filling a lobby from a report's file does not count as a
manual edit.

*Drafts.* A lobby draft started from a roster read before an edit commits works
with people who are not there (`lobby-draft/draft-actions.ts:385`,
`match-service.ts:738`). A hero draft's timer handler that fails leaves no timer
(`draft-timer.ts:43`). In a channel draft, of two overlapping picks the later save
wins; reposting a message saves an old state, which may make a cancelled draft
active again; two starts leave two drafts, of which the older comes back when the
newer is cancelled; a live message is not drawn again once the draft is complete.

*Prompts.* Ticks have no guard: one longer than 45 seconds overlaps the next and a
host may be asked twice. Open and Dismiss pressed at once, a failing call, or a
restart can leave a lobby without a message. A restart forgets what was asked, so
a dismissed game is asked again. Two overlapping `/config` commands can leave the
two channels different, and the poller then skips the league. A prompt keeps its
buttons when the game got a lobby elsewhere. A host who opts out between a tick's
reading and its message is still pinged.

## 6. Not modelled

* The numbers: OpenSkill, ki, percentages, decay's amounts. A rating is what it is
  made of; the arithmetic is a pure function of that.
* Texts, embeds, pages of lists, permissions beyond host, moderator and captain,
  and the wording of refusals.
* Within the modelled components: assigning heroes to wishes and balancing's
  choice among fair teams (any fair one may be taken); how the wc3stats list is
  matched with a lobby, which only decides which slots an import names; the
  cooldown and the price of a rank reset; which member holds a role; the `isNewPlayer` flag that holds decay back
  (`rating-decay.ts:437`); the marks that a completion and a flip repeat after their
  transaction has already marked (`match.ts:1031`,
  `match-approval-interactions.ts:322`, `match-correction-interactions.ts:99`); a database
  call that fails inside a tick of the poller other than its reading and its post;
  several leagues sharing its cap; the pings and the team channel of the channel
  draft; `editLobbyPlayerNick` and `moveLobbyPlayer`, which nothing calls.
* Leaderboards, players and statistics: they read and aggregate. Events, guilds,
  games and docs: one upsert each. Releases: a note is posted and then recorded
  (a crash between the two posts it twice, `release-publish.ts:49`); dismissing is one conditional update. Observability: counters
  nothing reads back. API and Discord plumbing: dispatch, whose order is the
  models' interleaving. OCR, previews and codecs: text and heuristics without
  state. Web and deployment: a static page and scripts.

## 7. Next

1. `HeroAssign`: the augmenting-path assignment as a function, against the
   definition of a maximum matching, over bounded wishes.
2. An abstract ledger (the sum of the matches that stand) that `Season` implements
   when no write is late.

----------------------------- MODULE HostPrompt -----------------------------
(***************************************************************************)
(* The wc3stats host prompt: services/wc3stats/wc3stats-host-prompt*.ts.   *)
(* A timer polls the game list and asks, in a channel of the league, each  *)
(* linked host of a game whether to open a lobby for it; the host's two    *)
(* buttons open the lobby in place of the question, or delete it.  What    *)
(* has been asked is remembered in the process only.  A tick awaits the    *)
(* database, the game list and Discord in turn, and nothing keeps the next *)
(* one from starting meanwhile; a click and a configuration command await  *)
(* between looking and writing too.                                        *)
(*                                                                         *)
(* One league; a game has one host of its own.                             *)
(***************************************************************************)
EXTENDS Naturals, FiniteSets

CONSTANTS
    Games,        \* ids of the game list
    Channels,     \* Discord channels
    Ticks,        \* slots for ticks in flight
    Clicks,       \* slots for handlers of a button
    Admins,       \* slots for commands of the league's staff
    Messages,     \* ids of the messages the poller may post
    Lobbies,      \* ids of the matches that may be created
    MaxPerTick,   \* MAX_PROMPTS_PER_TICK
    MaxFailures,  \* bound on calls to Discord or wc3stats that fail
    MaxRestarts,  \* bound on restarts of the bot
    Settings,     \* what a behaviour may contain: see `setting'
    Nothing, Elsewhere

Configs == [prompt : Channels \cup {Nothing},  \* wc3statsHostPromptChannelId, while enabled
            pings : BOOLEAN,                \* wc3statsHostPromptPingsEnabled
            gate : BOOLEAN,                 \* lobbyChannelEnabled
            lobby : Channels \cup {Nothing},   \* lobbyChannelId
            play : BOOLEAN]                 \* active, not paused, import configured

(* The poller's check, and that of the two commands.                       *)
ChannelsMatch(c) ==
    c.gate /\ c.lobby # Nothing /\ c.prompt # Nothing => c.lobby = c.prompt

ASSUME PromptAssumption ==
    /\ MaxPerTick \in Nat \ {0}
    /\ MaxFailures \in Nat /\ MaxRestarts \in Nat
    /\ Nothing \notin Channels \cup Games \cup Messages \cup Lobbies
    /\ Elsewhere \notin Messages \cup {Nothing}
    /\ Settings \subseteq
         [overlap : SUBSET {"ticks", "clicks", "commands"}, \* what may overlap its like
          changes : SUBSET {"config", "hosts", "games", "lobbies"}, \* what may change
          faults : BOOLEAN,                                 \* failures and restarts
          games : SUBSET Games,
          config : {c \in Configs : ChannelsMatch(c)}]      \* to begin with

VARIABLES
    config,    \* the League row
    willing,   \* games whose host is linked and has not opted out
    listed,    \* games the list shows
    prompted,  \* promptedKeys
    tick,      \* ticks in flight
    msg,       \* messages posted
    lobby,     \* matches created for a game
    click,     \* button handlers in flight
    admin,     \* commands in flight
    failures, restarts,
    setting    \* chosen at the beginning, never changed

pollVars == <<prompted, tick>>
chatVars == <<msg, lobby, click>>
worldVars == <<willing, listed>>
faultVars == <<failures, restarts, setting>>
promptVars == <<config, worldVars, pollVars, chatVars, admin, faultVars>>

NoTick == [at |-> "idle", channel |-> Nothing, games |-> {}, game |-> Nothing, posted |-> 0]
TickStates == [at : {"idle", "fetch", "link", "next", "post", "record"},
               channel : Channels \cup {Nothing}, games : SUBSET Games,
               game : Games \cup {Nothing}, posted : 0..MaxPerTick]

(* boot: how many restarts there had been.                                 *)
NoMsg == [shows |-> "nothing", game |-> Nothing, channel |-> Nothing, boot |-> 0, lobby |-> Nothing]
MsgStates == [shows : {"nothing", "prompt", "lobby", "deleted"}, game : Games \cup {Nothing},
              channel : Channels \cup {Nothing}, boot : 0..MaxRestarts,
              lobby : Lobbies \cup {Nothing}]

NoLobby == [status |-> "none", game |-> Nothing, message |-> Nothing]
LobbyStates == [status : {"none", "active", "over"}, game : Games \cup {Nothing},
                message : Messages \cup {Nothing, Elsewhere}]

NoClick == [at |-> "idle", msg |-> Nothing, lobby |-> Nothing]
ClickStates == [at : {"idle", "check", "create", "edit", "attach", "delete"},
                msg : Messages \cup {Nothing}, lobby : Lobbies \cup {Nothing}]

NoCommand == [op |-> "idle", channel |-> Nothing]
Commands == [op : {"idle", "setPrompt", "setLobby", "moveLobby"},
             channel : Channels \cup {Nothing}]

PromptTypeOK ==
    /\ config \in Configs
    /\ willing \subseteq Games /\ listed \subseteq Games
    /\ prompted \subseteq Games
    /\ tick \in [Ticks -> TickStates]
    /\ msg \in [Messages -> MsgStates]
    /\ lobby \in [Lobbies -> LobbyStates]
    /\ click \in [Clicks -> ClickStates]
    /\ admin \in [Admins -> Commands]
    /\ failures \in 0..MaxFailures /\ restarts \in 0..MaxRestarts
    /\ setting \in Settings

PromptInit ==
    /\ setting \in Settings
    /\ config = setting.config
    /\ willing \in SUBSET setting.games
    /\ listed \in SUBSET setting.games
    /\ prompted = {}
    /\ tick = [t \in Ticks |-> NoTick]
    /\ msg = [i \in Messages |-> NoMsg]
    /\ lobby = [l \in Lobbies |-> NoLobby]
    /\ click = [k \in Clicks |-> NoClick]
    /\ admin = [a \in Admins |-> NoCommand]
    /\ failures = 0 /\ restarts = 0

-----------------------------------------------------------------------------
(* A tick of the poller.                                                   *)

Ready(c) == c.play /\ c.pings /\ c.prompt # Nothing /\ ChannelsMatch(c)

Active(g) == \E l \in Lobbies : lobby[l].game = g /\ lobby[l].status = "active"

OtherTicksIdle(t) == \A u \in Ticks \ {t} : tick[u] = NoTick

(* Slots and ids are taken in a fixed order: which one is used tells       *)
(* nothing.                                                                *)
FreeTick == CHOOSE t \in Ticks : tick[t] = NoTick
FreeClick == CHOOSE k \in Clicks : click[k] = NoClick
FreeAdmin == CHOOSE a \in Admins : admin[a] = NoCommand
FreshMessage == CHOOSE i \in Messages : msg[i] = NoMsg
FreshLobby == CHOOSE l \in Lobbies : lobby[l] = NoLobby

StartTick(t) ==
    /\ tick[t] = NoTick /\ t = FreeTick
    /\ "ticks" \in setting.overlap \/ OtherTicksIdle(t)
    /\ Ready(config)
    /\ tick' = [tick EXCEPT ![t] = [NoTick EXCEPT !.at = "fetch", !.channel = config.prompt]]
    /\ UNCHANGED <<config, worldVars, prompted, chatVars, admin, faultVars>>

FetchGamelist(t) ==
    /\ tick[t].at = "fetch"
    /\ tick' = [tick EXCEPT ![t].at = "link", ![t].games = listed]
    /\ UNCHANGED <<config, worldVars, prompted, chatVars, admin, faultVars>>

(* The games of the list whose host is to be asked.                        *)
filterGamelistForHostPrompt(games) == games \cap willing

(* Slip: the cap is taken off the list before the remembered games are.    *)
LoadLinkedPlayersCapped(t) ==
    /\ tick[t].at = "link"
    /\ LET wanted == filterGamelistForHostPrompt(tick[t].games)
           first == CHOOSE s \in SUBSET wanted :
                      Cardinality(s) = IF Cardinality(wanted) < MaxPerTick
                                         THEN Cardinality(wanted) ELSE MaxPerTick
       IN tick' = [tick EXCEPT ![t].at = "next", ![t].games = first]
    /\ UNCHANGED <<config, worldVars, prompted, chatVars, admin, faultVars>>

LoadLinkedPlayers(t) ==
    /\ tick[t].at = "link"
    /\ tick' = [tick EXCEPT ![t].at = "next", ![t].games = filterGamelistForHostPrompt(@)]
    /\ UNCHANGED <<config, worldVars, prompted, chatVars, admin, faultVars>>

(* The next game of the list, whichever it is, that is not remembered: it  *)
(* is remembered if it has a lobby already, else its host is to be asked.  *)
LookUp(t) ==
    /\ tick[t].at = "next"
    /\ tick[t].posted < MaxPerTick
    /\ \E g \in tick[t].games \ prompted :
         IF Active(g)
           THEN /\ prompted' = prompted \cup {g}
                /\ tick' = [tick EXCEPT ![t].games = @ \ {g}]
           ELSE /\ tick' = [tick EXCEPT ![t].at = "post", ![t].game = g,
                                        ![t].games = @ \ {g}]
                /\ UNCHANGED prompted
    /\ UNCHANGED <<config, worldVars, chatVars, admin, faultVars>>

Post(t) ==
    /\ tick[t].at = "post"
    /\ \E i \in Messages : msg[i] = NoMsg
    /\ msg' = [msg EXCEPT ![FreshMessage] = [NoMsg EXCEPT !.shows = "prompt",
                 !.game = tick[t].game, !.channel = tick[t].channel, !.boot = restarts]]
    /\ tick' = [tick EXCEPT ![t].at = "record"]
    /\ UNCHANGED <<config, worldVars, prompted, lobby, click, admin, faultVars>>

(* Slip: what was asked is not remembered.                                 *)
RecordPromptNot(t) ==
    /\ tick[t].at = "record"
    /\ tick' = [tick EXCEPT ![t].at = "next", ![t].game = Nothing, ![t].posted = @ + 1]
    /\ UNCHANGED <<config, worldVars, prompted, chatVars, admin, faultVars>>

RecordPrompt(t) ==
    /\ tick[t].at = "record"
    /\ prompted' = prompted \cup {tick[t].game}
    /\ tick' = [tick EXCEPT ![t].at = "next", ![t].game = Nothing, ![t].posted = @ + 1]
    /\ UNCHANGED <<config, worldVars, chatVars, admin, faultVars>>

EndTick(t) ==
    /\ tick[t].at = "next"
    /\ tick[t].posted = MaxPerTick \/ tick[t].games \subseteq prompted
    /\ tick' = [tick EXCEPT ![t] = NoTick]
    /\ UNCHANGED <<config, worldVars, prompted, chatVars, admin, faultVars>>

(* The list cannot be fetched: the tick is over.  The channel cannot be    *)
(* fetched or written to: the next game is tried.                          *)
FailTick(t) ==
    /\ setting.faults /\ failures < MaxFailures
    /\ failures' = failures + 1
    /\ \/ tick[t].at = "fetch" /\ tick' = [tick EXCEPT ![t] = NoTick]
       \/ /\ tick[t].at = "post"
          /\ tick' = [tick EXCEPT ![t].at = "next", ![t].game = Nothing]
    /\ UNCHANGED <<config, worldVars, prompted, chatVars, admin, restarts, setting>>

-----------------------------------------------------------------------------
(* The host's buttons.                                                     *)

HostIdle(g) == \A k \in Clicks : click[k] # NoClick => msg[click[k].msg].game # g

Press(k, i, at) ==
    /\ click[k] = NoClick /\ k = FreeClick
    /\ msg[i].shows = "prompt"
    /\ "clicks" \in setting.overlap \/ HostIdle(msg[i].game)
    /\ click' = [click EXCEPT ![k] = [NoClick EXCEPT !.at = at, !.msg = i]]
    /\ UNCHANGED <<config, worldVars, pollVars, msg, lobby, admin, faultVars>>

Then(k, at) == click' = [click EXCEPT ![k].at = at]
Return(k) == click' = [click EXCEPT ![k] = NoClick]

(* assertLeagueLobbyCreateChannel: the prompt may be of an earlier channel.*)
HandleOpen(k, i) ==
    /\ config.gate /\ config.lobby # Nothing => config.lobby = msg[i].channel
    /\ Press(k, i, "check")

HandleDismiss(k, i) == Press(k, i, "delete")

(* createPendingMatch looks before it writes; a refusal is an answer only. *)
CheckCreate(k) ==
    /\ click[k].at = "check"
    /\ IF config.play /\ ~Active(msg[click[k].msg].game) THEN Then(k, "create") ELSE Return(k)
    /\ UNCHANGED <<config, worldVars, pollVars, msg, lobby, admin, faultVars>>

CreatePendingMatch(k) ==
    /\ click[k].at = "create"
    /\ \E l \in Lobbies : lobby[l] = NoLobby
    /\ lobby' = [lobby EXCEPT ![FreshLobby] = [status |-> "active",
                   game |-> msg[click[k].msg].game, message |-> Nothing]]
    /\ click' = [click EXCEPT ![k].at = "edit", ![k].lobby = FreshLobby]
    /\ UNCHANGED <<config, worldVars, pollVars, msg, admin, faultVars>>

(* A message that was deleted meanwhile cannot be edited: the handler ends.*)
EditMessage(k) ==
    LET i == click[k].msg IN
    /\ click[k].at = "edit"
    /\ IF msg[i].shows = "deleted"
         THEN Return(k) /\ UNCHANGED msg
         ELSE /\ msg' = [msg EXCEPT ![i].shows = "lobby", ![i].lobby = click[k].lobby]
              /\ Then(k, "attach")
    /\ UNCHANGED <<config, worldVars, pollVars, lobby, admin, faultVars>>

(* Slip: the match does not learn its message.                             *)
AttachNoMessage(k) ==
    /\ click[k].at = "attach"
    /\ prompted' = prompted \cup {msg[click[k].msg].game}
    /\ Return(k)
    /\ UNCHANGED <<config, worldVars, tick, msg, lobby, admin, faultVars>>

AttachCreatedMatchMessage(k) ==
    /\ click[k].at = "attach"
    /\ lobby' = [lobby EXCEPT ![click[k].lobby].message = click[k].msg]
    /\ prompted' = prompted \cup {msg[click[k].msg].game}
    /\ Return(k)
    /\ UNCHANGED <<config, worldVars, tick, msg, admin, faultVars>>

(* The answer, then the deletion, then the game is remembered; deleting    *)
(* twice throws.                                                           *)
DeleteMessage(k) ==
    LET i == click[k].msg IN
    /\ click[k].at = "delete"
    /\ IF msg[i].shows = "deleted"
         THEN UNCHANGED <<msg, prompted>>
         ELSE /\ msg' = [msg EXCEPT ![i].shows = "deleted"]
              /\ prompted' = prompted \cup {msg[i].game}
    /\ Return(k)
    /\ UNCHANGED <<config, worldVars, tick, lobby, admin, faultVars>>

(* A call to Discord or the database fails: the handler ends there.        *)
FailClick(k) ==
    /\ setting.faults /\ failures < MaxFailures
    /\ click[k] # NoClick
    /\ failures' = failures + 1
    /\ Return(k)
    /\ UNCHANGED <<config, worldVars, pollVars, msg, lobby, admin, restarts, setting>>

(* /register_lobby for the same game, with a message of its own.           *)
RegisterLobby(g) ==
    /\ "lobbies" \in setting.changes
    /\ config.play /\ ~Active(g)
    /\ \E l \in Lobbies : lobby[l] = NoLobby
    /\ lobby' = [lobby EXCEPT ![FreshLobby] = [status |-> "active", game |-> g,
                                               message |-> Elsewhere]]
    /\ UNCHANGED <<config, worldVars, pollVars, msg, click, admin, faultVars>>

(* The match is cancelled or completed.                                    *)
EndLobby(l) ==
    /\ "lobbies" \in setting.changes
    /\ lobby[l].status = "active"
    /\ lobby' = [lobby EXCEPT ![l].status = "over"]
    /\ UNCHANGED <<config, worldVars, pollVars, msg, click, admin, faultVars>>

-----------------------------------------------------------------------------
(* The league's configuration: /config set and clear.  A command that sets *)
(* a channel reads the row, compares, and updates.                         *)

CommandsIdle == \A a \in Admins : admin[a] = NoCommand

MayConfigure ==
    /\ "config" \in setting.changes
    /\ "commands" \in setting.overlap \/ CommandsIdle
    /\ UNCHANGED <<worldVars, pollVars, chatVars, faultVars>>

(* Slip: the channel that was saved when the gate was last on is not       *)
(* compared with the prompt's.                                             *)
CheckLobbyChannelNew(a, c) ==
    /\ MayConfigure
    /\ admin[a] = NoCommand /\ a = FreeAdmin
    /\ \/ /\ config.lobby = c \/ ChannelsMatch([config EXCEPT !.gate = TRUE, !.lobby = c])
          /\ admin' = [admin EXCEPT ![a] = [op |-> "setLobby", channel |-> c]]
       \/ /\ config.gate /\ config.lobby # Nothing
          /\ ChannelsMatch([config EXCEPT !.lobby = c])
          /\ admin' = [admin EXCEPT ![a] = [op |-> "moveLobby", channel |-> c]]
    /\ UNCHANGED config

(* enabled:true, with a channel or with the one that is saved; or only a   *)
(* channel, while the gate is on.                                          *)
CheckLobbyChannel(a, c) ==
    /\ MayConfigure
    /\ admin[a] = NoCommand /\ a = FreeAdmin
    /\ ChannelsMatch([config EXCEPT !.gate = TRUE, !.lobby = c])
    /\ \/ admin' = [admin EXCEPT ![a] = [op |-> "setLobby", channel |-> c]]
       \/ /\ config.gate /\ config.lobby # Nothing
          /\ admin' = [admin EXCEPT ![a] = [op |-> "moveLobby", channel |-> c]]
    /\ UNCHANGED config

CheckHostPrompt(a, c) ==
    /\ MayConfigure
    /\ admin[a] = NoCommand /\ a = FreeAdmin
    /\ ChannelsMatch([config EXCEPT !.prompt = c])
    /\ admin' = [admin EXCEPT ![a] = [op |-> "setPrompt", channel |-> c]]
    /\ UNCHANGED config

UpdateLeague(a) ==
    /\ admin[a] # NoCommand
    /\ config' = CASE admin[a].op = "setPrompt" -> [config EXCEPT !.prompt = admin[a].channel]
                   [] admin[a].op = "moveLobby" -> [config EXCEPT !.lobby = admin[a].channel]
                   [] OTHER -> [config EXCEPT !.gate = TRUE, !.lobby = admin[a].channel]
    /\ admin' = [admin EXCEPT ![a] = NoCommand]
    /\ UNCHANGED <<worldVars, pollVars, chatVars, faultVars>>

(* Commands that look at nothing.  Switched off, the gate keeps its        *)
(* channel and the prompt loses its own.                                   *)
DisableLobbyChannel == config' = [config EXCEPT !.gate = FALSE]
clearLeagueLobbyChannel == config' = [config EXCEPT !.gate = FALSE, !.lobby = Nothing]
clearLeagueWc3statsHostPrompt == config' = [config EXCEPT !.prompt = Nothing]
setLeagueWc3statsHostPromptPings(on) == config' = [config EXCEPT !.pings = on]
(* A preset is applied, or the import's configuration cleared.             *)
SetImport(on) == config' = [config EXCEPT !.play = on]
(* A rollover archives the league.                                         *)
Archive == config' = [config EXCEPT !.play = FALSE, !.prompt = Nothing]

Configure ==
    /\ MayConfigure
    /\ \/ DisableLobbyChannel \/ clearLeagueLobbyChannel
       \/ clearLeagueWc3statsHostPrompt \/ Archive
       \/ \E on \in BOOLEAN : setLeagueWc3statsHostPromptPings(on) \/ SetImport(on)
    /\ UNCHANGED admin

-----------------------------------------------------------------------------
(* Hosts link, unlink or use /settings set host_prompt_pings; games appear *)
(* in the list and leave it.                                               *)
SetHostPromptPings(g) ==
    /\ "hosts" \in setting.changes
    /\ willing' = IF g \in willing THEN willing \ {g} ELSE willing \cup {g}
    /\ UNCHANGED <<config, listed, pollVars, chatVars, admin, faultVars>>

ListChanges(g) ==
    /\ "games" \in setting.changes
    /\ listed' = IF g \in listed THEN listed \ {g} ELSE listed \cup {g}
    /\ UNCHANGED <<config, willing, pollVars, chatVars, admin, faultVars>>

(* The process ends and starts again, without handlers and without memory. *)
Restart ==
    /\ setting.faults /\ restarts < MaxRestarts
    /\ restarts' = restarts + 1
    /\ prompted' = {}
    /\ tick' = [t \in Ticks |-> NoTick]
    /\ click' = [k \in Clicks |-> NoClick]
    /\ admin' = [a \in Admins |-> NoCommand]
    /\ UNCHANGED <<config, worldVars, msg, lobby, failures, setting>>

-----------------------------------------------------------------------------
TickStep(t) ==
    \/ FetchGamelist(t) \/ LoadLinkedPlayers(t) \/ LookUp(t) \/ Post(t)
    \/ RecordPrompt(t) \/ EndTick(t)

ClickStep(k) ==
    \/ CheckCreate(k) \/ CreatePendingMatch(k) \/ EditMessage(k)
    \/ AttachCreatedMatchMessage(k) \/ DeleteMessage(k)

PromptNext ==
    \/ \E t \in Ticks : StartTick(t) \/ TickStep(t) \/ FailTick(t)
    \/ \E k \in Clicks : ClickStep(k) \/ FailClick(k)
    \/ \E k \in Clicks, i \in Messages : HandleOpen(k, i) \/ HandleDismiss(k, i)
    \/ \E l \in Lobbies : EndLobby(l)
    \/ \E a \in Admins, c \in Channels : CheckLobbyChannel(a, c) \/ CheckHostPrompt(a, c)
    \/ \E a \in Admins : UpdateLeague(a)
    \/ Configure
    \/ \E g \in setting.games :
         RegisterLobby(g) \/ SetHostPromptPings(g) \/ ListChanges(g)
    \/ Restart

PromptSpec == PromptInit /\ [][PromptNext]_promptVars

(* The timer fires every 45 seconds, and what a tick awaits arrives.       *)
(* Nothing is asked of hosts and staff.                                    *)
FairSpec ==
    /\ PromptSpec
    /\ WF_promptVars(\E t \in Ticks : StartTick(t))
    /\ \A t \in Ticks : WF_promptVars(TickStep(t))
-----------------------------------------------------------------------------
(* "The wc3stats host prompt channel must match the lobby channel while    *)
(* the lobby channel is enabled": else every prompt of the league would be *)
(* one whose Open is refused.  The two commands keep it, whatever the gate *)
(* was before and whatever is saved, as long as they do not overlap.       *)
ChannelsAgree == "commands" \notin setting.overlap => ChannelsMatch(config)

(* The variables have their types, and the channels agree.                 *)
PromptsSound == PromptTypeOK /\ ChannelsAgree

(* One process asks about a game once, though the game stays in the list   *)
(* for many ticks: not again while the host is thinking, after a Dismiss,  *)
(* an Open, or the end of the lobby opened.  (Ticks that overlap do.)      *)
AskedOnce ==
    "ticks" \notin setting.overlap =>
        \A i, j \in Messages :
            i # j /\ msg[i].game # Nothing /\ msg[i].game = msg[j].game
              => msg[i].boot # msg[j].boot

Working(l) == \E k \in Clicks : click[k].lobby = l

(* A lobby opened from a prompt has taken the prompt's message, and knows  *)
(* it, once its handler is done: otherwise its host could neither see nor  *)
(* cancel it.  (Dismiss and Open pressed at once, a restart or a failing   *)
(* call can leave it without one.)                                         *)
LobbyShown ==
    "clicks" \notin setting.overlap /\ ~setting.faults =>
        \A l \in Lobbies :
            lobby[l].status # "none" /\ ~Working(l) /\ lobby[l].message # Elsewhere =>
                \E i \in Messages :
                    lobby[l].message = i /\ msg[i].shows = "lobby" /\ msg[i].lobby = l

Eligible(g) == Ready(config) /\ g \in listed \cap willing

(* A linked host is asked, or has a lobby, as long as his game stays in    *)
(* the list and the league ready: the cap on a tick's prompts, failing     *)
(* calls, slow ticks and restarts delay it only.                           *)
AllAsked == \A g \in Games : Eligible(g) ~> (g \in prompted \/ ~Eligible(g))
=============================================================================

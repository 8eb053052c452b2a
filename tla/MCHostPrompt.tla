---------------------------- MODULE MCHostPrompt ----------------------------
(* Instances of HostPrompt for TLC.                                        *)
EXTENDS HostPrompt

CONSTANTS g1, g2, c1

NewLeague == [prompt |-> Nothing, pings |-> TRUE, gate |-> FALSE, lobby |-> Nothing, play |-> TRUE]
Asking == [NewLeague EXCEPT !.prompt = c1]

Quietly == [overlap |-> {}, changes |-> {}, faults |-> FALSE, games |-> {g1}, config |-> Asking]

(* Staff change the configuration, and the host his mind.                  *)
Staff == [Quietly EXCEPT !.changes = {"config", "hosts"}, !.config = NewLeague]
(* Two commands at a time, nobody to be asked.                             *)
StaffAtOnce == [Staff EXCEPT !.overlap = {"commands"}, !.games = {}]
(* Two games, more than a tick asks about, with failures and restarts.     *)
Crowd == [Quietly EXCEPT !.faults = TRUE, !.games = {g1, g2}]
(* The game and its lobbies come and go, and the host changes his mind.    *)
Changing == [Quietly EXCEPT !.changes = {"games", "hosts", "lobbies"}]
(* Ticks and clicks that overlap.                                          *)
AtOnce == [Quietly EXCEPT !.overlap = {"ticks", "clicks"}, !.changes = {"lobbies"}]

OneOfThese == {Staff, StaffAtOnce, Crowd, Changing, AtOnce}
=============================================================================

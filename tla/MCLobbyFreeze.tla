---------------------------- MODULE MCLobbyFreeze ----------------------------
(* Small instances of LobbyFreeze.                                           *)
EXTENDS LobbyFreeze

CONSTANTS d1, d2

Before(e, f, r, ds) == [edits |-> e, failures |-> f, restarts |-> r, cancelled |-> ds]

(* Two drafts with a failing call, a restart or an edit; one draft with all  *)
(* of them.                                                                  *)
TwoOrAll == {Before(1, 0, 1, {}), Before(1, 1, 0, {}), Before(0, 1, 1, {}),
             Before(0, 0, 0, {d2})}
=============================================================================

---------------------------- MODULE MCLobbyDraft ----------------------------
(* Small instances of LobbyDraft: players are interchangeable among those    *)
(* with an account and among those without.                                  *)
EXTENDS LobbyDraft, TLC

Interchangeable == Permutations(Linked) \cup Permutations(Players \ Linked)
=============================================================================

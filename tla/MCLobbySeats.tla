---------------------------- MODULE MCLobbySeats ----------------------------
(* Two players on three seats, two of them on the first team.                *)
EXTENDS LobbySeats, TLC

CONSTANTS p1, p2, u1, j1, j2

MCSide == (1 :> 1) @@ (2 :> 1) @@ (3 :> 2)
MCPicks == {{1}, {1, 3}}
MCLists ==
    {seat \in [Players -> Slots \cup {None}] :
        {seat[p] : p \in Players} \in {{None}, {1, None}, {1, 3}}}
MCPlans ==
    {{"imports", "claims", "overlap", "brief"}, {"locks", "claims", "overlap", "brief"},
     {"locks", "balance", "claims"}, {"locks", "lifecycle", "overlap"}, {"menus", "overlap"}, {"menus", "teams"},
     {"lifecycle", "claims", "overlap"}, {"screens", "locks", "failures"},
     {"commands", "imports", "screens"}, {"menus", "lifecycle"}}
Symmetry == Permutations({p1, p2}) \cup Permutations({j1, j2})
=============================================================================

------------------------------ MODULE MCCombat ------------------------------
(* A corridor for Combat, in units of half a pixel: tiles of 32, players   *)
(* of 56 by 64, steps of 32, axes of 13 by 16 pixels shown twice as large. *)
EXTENDS Combat

At(x, y) == [x |-> x, y |-> y]

Corridor == <<[collider |-> TRUE, tiles |-> <<At(0, 0), At(6, 0)>>]>>
CorridorStart == At(32, 0)
CorridorEnd == At(136, 0)
CorridorMiddle == At(80, 0)
EnemyReports == {[pos |-> CorridorEnd, moves |-> <<"RIGHT">>, health |-> 20]}
Seen == {At(125, 16)}

InReach == -16..240

AxeOrigin == At(13, 16)
AxeX == (0 :> 26) @@ (1 :> 41) @@ (2 :> 32) @@ (3 :> 41)
AxeY == (0 :> 32) @@ (1 :> 41) @@ (2 :> 26) @@ (3 :> 41)

=============================================================================

----------------------------- MODULE MCReplica -----------------------------
(* A corridor for Replica, in units of 4 pixels: 16 wide, between two      *)
(* tiles; a player is 7 wide.                                              *)
EXTENDS Replica

At(x, y) == [x |-> x, y |-> y]

Corridor == <<[collider |-> TRUE, tiles |-> <<At(0, 0), At(5, 0)>>]>>
CorridorLeft == At(4, 0)
CorridorRight == At(12, 0)
CorridorCentre == At(8, 0)

=============================================================================

---------------------------- MODULE MCRoomServer ----------------------------
(* Model-checking instances of RoomServer.                                 *)
EXTENDS RoomServer, TLC

Symmetry == Permutations(Socket \ Probe)

=============================================================================

---------------------------- MODULE MCWorldSync -----------------------------
(* Model-checking instances of WorldSync.                                  *)
EXTENDS WorldSync

(* Each player throws one axe; or P two, so that the counters drift apart. *)
OneEach == [w \in Side |-> FirstId]
TwoAndOne == [w \in Side |-> IF w = P THEN FirstId + 1 ELSE FirstId]

=============================================================================

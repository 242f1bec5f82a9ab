---------------------------- MODULE Matchmaking -----------------------------
(***************************************************************************)
(* What the game server promises: players are matched two by two in the    *)
(* order in which they arrive, the earlier one on the left, and each       *)
(* player is matched once.                                                 *)
(***************************************************************************)
EXTENDS Integers, Sequences, FiniteSets

CONSTANT Player

VARIABLES
  arrived,  \* the players in order of arrival
  seated,   \* those who have been matched
  matches   \* the matches, <<left, right>>

vars == <<arrived, seated, matches>>

Init ==
  /\ arrived = <<>>
  /\ seated = {}
  /\ matches = {}

Unseated == {i \in 1..Len(arrived) : arrived[i] \notin seated}

(* A new player arrives while at most one is waiting.                      *)
Arrive(p) ==
  /\ \A i \in 1..Len(arrived) : arrived[i] # p
  /\ \A i, j \in Unseated : i = j
  /\ arrived' = Append(arrived, p)
  /\ UNCHANGED <<seated, matches>>

(* The two players that wait are matched.                                  *)
Match ==
  \E i, j \in Unseated :
    /\ i < j
    /\ matches' = matches \cup {<<arrived[i], arrived[j]>>}
    /\ seated' = seated \cup {arrived[i], arrived[j]}
    /\ UNCHANGED arrived

Next == Match \/ \E p \in Player : Arrive(p)

Spec == Init /\ [][Next]_vars

=============================================================================

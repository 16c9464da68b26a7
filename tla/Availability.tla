---------------------------- MODULE Availability ----------------------------
(***************************************************************************)
(* What the proxy promises about the game server's status: it is up from a *)
(* success on, and down from the Threshold-th miss in a row on.            *)
(***************************************************************************)
EXTENDS Naturals

CONSTANT Threshold    \* misses in a row that mark the server down

VARIABLES up, misses

Init ==
  /\ up = FALSE
  /\ misses = 0

Success ==
  /\ up' = TRUE
  /\ misses' = 0

EarlyMiss ==
  /\ misses + 1 < Threshold
  /\ misses' = misses + 1
  /\ up' = up

LastMiss ==
  /\ misses + 1 >= Threshold
  /\ misses' = Threshold
  /\ up' = FALSE

Next == Success \/ EarlyMiss \/ LastMiss

Spec == Init /\ [][Next]_<<up, misses>>
=============================================================================

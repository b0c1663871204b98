--------------------------- MODULE MCStateMachine ---------------------------
(***************************************************************************)
(* Instances of StateMachine for TLC: two controllers are enough for an    *)
(* owner and one other, three calls in flight for a transition, the one    *)
(* that undoes it and the one that overtakes the undoing.                  *)
(***************************************************************************)
EXTENDS StateMachine, TLC

\* The controllers are interchangeable in the safety runs.
Symmetry == Permutations(Devices)
=============================================================================

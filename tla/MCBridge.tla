------------------------------ MODULE MCBridge ------------------------------
(* Instances of Bridge for TLC. *)
EXTENDS Bridge

CONSTANTS j1, w1, w2, w3

\* manim.cfg is edited, and the edit undone.
Undone == [v \in 0..2 |-> v % 2]
=============================================================================

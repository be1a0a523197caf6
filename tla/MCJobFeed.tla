------------------------------ MODULE MCJobFeed ------------------------------
(* An instance of JobFeed for TLC. *)
EXTENDS JobFeed

CONSTANTS j1, j2

Published == JobEvents \cup ProgressEvents \cup {OtherEvent}
Symmetry == Permutations(Jobs)
=============================================================================

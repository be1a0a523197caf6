----------------------------- MODULE MCScheduler -----------------------------
(* Instances of Scheduler for TLC: whose jobs they are and which scene each renders. *)
EXTENDS Scheduler, TLC

CONSTANTS e1, e2, j1, j2, j3, s1

\* Two engines with one render of the same scene each.
TwoOwners == (j1 :> e1) @@ (j2 :> e2)
SameScene == (j1 :> s1) @@ (j2 :> s1)

\* Two renders on the engine that is stopped and resumed, one on the other.
WakingOwners == (j1 :> e1) @@ (j2 :> e2) @@ (j3 :> e1)
ThreeRenders == (j1 :> s1) @@ (j2 :> s1) @@ (j3 :> s1)

\* The job that shares the first engine with a render needs no scene.
TwoRenders == (j1 :> s1) @@ (j2 :> s1) @@ (j3 :> NoScene)
=============================================================================

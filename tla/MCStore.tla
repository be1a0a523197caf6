------------------------------ MODULE MCStore ------------------------------
(* Instances for TLC of what the engine keeps beyond a job: the result cache  *)
(* and what pruning leaves of it, the engines' leases, and the pictures of a  *)
(* scene.  They share no state: a behaviour runs one of them, its `focus`,    *)
(* and leaves the others as they start.                                       *)
EXTENDS ResultCache, Leases, SceneMedia

CONSTANTS j1, j2, j3, j4, p1, e1, e2, f1, f2, o1

VARIABLE focus

\* Two renders while files are edited twice, or once and the runtime is upgraded,
\* and one of them is cancelled or fails; nothing is pruned.
RunsOnly ==
  /\ \/ Edit \/ Upgrade \/ Warm
     \/ \E j \in {j1, j2} : Submission(j) \/ Cancel(j) \/ (RunStep(j) /\ (Fail(j) => j = j1))
  /\ files' = 2 => installed' = 0

\* Once a first render is done, a second, one that is rendered afresh and a reader
\* are submitted and run while history is pruned; those two renders may fail.
PrunesToo ==
  /\ Next
  /\ files' = files /\ installed' = installed /\ warm' = warm /\ cancelReq' = cancelReq
  /\ row'[j1] = "failed" => row[j1] = "failed"
  /\ \A j \in Jobs \ {j1} : at'[j] # "idle" => at[j1] = "done"

LeaseRests ==
  /\ state = [e \in Engines |-> "off"] /\ beat = [e \in Engines |-> -1]
  /\ since = [e \in Engines |-> 0] /\ last = since /\ woke = beat /\ ticks = since
  /\ work = [e \in Engines |-> "none"] /\ lost = {} /\ rested = {} /\ overdue = since

StoreInit ==
  /\ focus \in {"runs", "prunes", "leases", "media"}
  /\ Init
  /\ IF focus = "leases" THEN LeaseInit ELSE LeaseRests
  /\ MediaInit /\ home = f1

StoreNext ==
  \/ focus = "runs" /\ RunsOnly /\ UNCHANGED <<focus, leaseVars, mediaVars>>
  \/ focus = "prunes" /\ PrunesToo /\ UNCHANGED <<focus, leaseVars, mediaVars>>
  \/ focus = "leases" /\ LeaseNext /\ UNCHANGED <<focus, vars, mediaVars>>
  \/ focus = "media" /\ MediaNext /\ UNCHANGED <<focus, vars, leaseVars>>

StoreSpec == StoreInit /\ [][StoreNext]_<<focus, vars, leaseVars, mediaVars>>
============================================================================

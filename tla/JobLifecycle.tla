---------------------------- MODULE JobLifecycle ----------------------------
(***************************************************************************)
(* What the engine promises about a job, whoever runs it: a job row is     *)
(* queued, may run, and ends exactly once; its end is announced by its     *)
(* engine at most once, and only after it is recorded.  A terminal status  *)
(* carries the code of its error ("timeout", "engine_lost") or, for a      *)
(* cancellation, who asked for it ("client", "shutdown").                  *)
(***************************************************************************)
EXTENDS Naturals

CONSTANT Jobs

VARIABLES
  status,  \* jobs.status, with the error code of a terminal row
  told     \* how often the job's end was announced by its engine

vars == <<status, told>>

CancelledBy == {"client", "shutdown"}
Endings     == {"succeeded", "failed", "timeout", "engine_lost"} \cup CancelledBy
Unfinished  == {"queued", "running"}
Statuses    == {"absent"} \cup Unfinished \cup Endings

TypeOK ==
  /\ status \in [Jobs -> Statuses]
  /\ told \in [Jobs -> {0, 1}]

Init ==
  /\ status = [j \in Jobs |-> "absent"]
  /\ told = [j \in Jobs |-> 0]

Submit(j) ==
  /\ status[j] = "absent"
  /\ status' = [status EXCEPT ![j] = "queued"]
  /\ UNCHANGED told

Start(j) ==
  /\ status[j] = "queued"
  /\ status' = [status EXCEPT ![j] = "running"]
  /\ UNCHANGED told

\* A queued job ends only by cancellation; a running one in any way.
End(j, ending) ==
  /\ \/ status[j] = "queued" /\ ending \in CancelledBy
     \/ status[j] = "running" /\ ending \in Endings \ {"engine_lost"}
  /\ status' = [status EXCEPT ![j] = ending]
  /\ UNCHANGED told

\* The jobs of engines that disappeared, together.
Lose(lost) ==
  /\ \A j \in lost : status[j] \in Unfinished
  /\ status' = [j \in Jobs |-> IF j \in lost THEN "engine_lost" ELSE status[j]]
  /\ UNCHANGED told

Tell(j) ==
  /\ status[j] \in Endings
  /\ told[j] = 0
  /\ told' = [told EXCEPT ![j] = 1]
  /\ UNCHANGED status

Next ==
  \/ \E j \in Jobs : Submit(j) \/ Start(j) \/ Tell(j)
  \/ \E j \in Jobs, ending \in Endings : End(j, ending)
  \/ \E lost \in SUBSET Jobs : Lose(lost)

Spec == Init /\ [][Next]_vars

=============================================================================

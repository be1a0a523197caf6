------------------------------ MODULE Scheduler ------------------------------
(***************************************************************************)
(* The engines of one project: each process runs a scheduler (bounded      *)
(* queue, worker permits, one run per job) over the job store they share   *)
(* (rows, leases, scene locks), and may be shut down, crash or be frozen.  *)
(*                                                                         *)
(* A step is one store transaction with the in-memory work around it that  *)
(* nobody else can tell apart from it.  Time is not modelled: a lease may  *)
(* go stale once its engine stopped renewing it, and a run may time out    *)
(* whenever its timer is armed.                                            *)
(***************************************************************************)
EXTENDS Integers, Sequences, FiniteSets

CONSTANTS
  Engines, Jobs, Scenes,
  Owner,          \* the engine each job is submitted to (jobs.owner)
  SceneOf,        \* the scene lock each job needs, or NoScene
  NoScene, NoJob,
  Workers,        \* concurrent runs of one engine
  QueueCapacity,  \* jobs of one engine that may wait
  MayCancel,      \* the jobs clients cancel
  MayStop, MayCrash, MayFreeze,  \* the engines these happen to
  MayFail,        \* the engines whose store writes and directories may fail
  MayDrop         \* the jobs whose clients may disconnect from a server's handler

ASSUME OwnerAssumption   == Owner \in [Jobs -> Engines]
ASSUME SceneAssumption   == SceneOf \in [Jobs -> Scenes \cup {NoScene}]
ASSUME NoSceneAssumption == NoScene \notin Scenes
ASSUME NoJobAssumption   == NoJob \notin Jobs
ASSUME BoundsAssumption  == Workers \in Nat \ {0} /\ QueueCapacity \in Nat \ {0}

VARIABLES
  status, cancelReq, lock, lease,  \* the store: jobs, scene_locks, engine_leases
  outDir,                          \* jobs whose artifact directory exists
  mode, frozen, late,              \* the processes; late: an upkeep in flight at shutdown
  sub, queue, active, slot,        \* submissions, dispatch queue, active map, queue slots
  permit, token, told,             \* worker permits, cancellation tokens, announcements
  phase, outcome, runtime,         \* the runs and their runtime processes
  calls                            \* cancel_local calls in flight

storeVars  == <<status, cancelReq, lock, lease>>
procVars   == <<mode, frozen, late>>
waitVars   == <<sub, queue, active, slot, permit>>
runVars    == <<phase, outcome, runtime>>
cancelVars == <<token, calls>>
vars == <<storeVars, outDir, procVars, waitVars, told, runVars, cancelVars>>

CancelledBy == {"client", "shutdown"}
Endings     == {"succeeded", "failed", "timeout", "engine_lost"} \cup CancelledBy
Unfinished  == {"queued", "running"}

TypeOK ==
  /\ status \in [Jobs -> {"absent"} \cup Unfinished \cup Endings]
  /\ cancelReq \subseteq Jobs
  /\ lock \in [Scenes -> Jobs \cup {NoJob}]
  /\ lease \in [Engines -> {"none", "fresh", "stale"}]
  /\ outDir \subseteq Jobs
  /\ mode \in [Engines -> {"off", "up", "closing", "left", "gone", "dead"}]
  /\ frozen \subseteq Engines
  /\ late \subseteq Engines
  /\ sub \in [Jobs -> {"none", "admitted", "inserted", "done", "dropped"}]
  /\ queue \in [Engines -> Seq(Jobs)]
  /\ active \subseteq Jobs
  /\ slot \subseteq Jobs
  /\ permit \subseteq Jobs
  /\ token \in [Jobs -> {"none"} \cup CancelledBy]
  /\ told \in [Jobs -> Nat]
  /\ phase \in [Jobs -> {"idle", "picked", "locking", "conversing",
                         "finishing", "releasing", "ended"}]
  /\ outcome \in [Jobs -> {"none"} \cup (Endings \ {"engine_lost"})]
  /\ runtime \in [Jobs -> {"none", "busy", "answered"}]
  /\ calls \subseteq (Jobs \X CancelledBy \X {"marked", "unawaited", "won"})

Init ==
  /\ status = [j \in Jobs |-> "absent"]
  /\ cancelReq = {}
  /\ lock = [s \in Scenes |-> NoJob]
  /\ lease = [e \in Engines |-> "none"]
  /\ outDir = {}
  /\ mode = [e \in Engines |-> "off"]
  /\ frozen = {}
  /\ late = {}
  /\ sub = [j \in Jobs |-> "none"]
  /\ queue = [e \in Engines |-> <<>>]
  /\ active = {}
  /\ slot = {}
  /\ permit = {}
  /\ token = [j \in Jobs |-> "none"]
  /\ told = [j \in Jobs |-> 0]
  /\ phase = [j \in Jobs |-> "idle"]
  /\ outcome = [j \in Jobs |-> "none"]
  /\ runtime = [j \in Jobs |-> "none"]
  /\ calls = {}

Own(e) == {j \in Jobs : Owner[j] = e}

\* A process takes steps until it is gone, except while it is stopped.
Alive(e) == mode[e] \in {"up", "closing", "left"}
Runs(e)  == Alive(e) /\ e \notin frozen

-----------------------------------------------------------------------------
(* The store: leases.rs, locks.rs *)

\* Mutant: reap takes every other engine for dead.
LapsedIfOther(e, f) == f # e

\* Mutant: reap forgets the jobs whose lease is missing, not stale.
LapsedIfStale(e, f) == f # e /\ lease[f] = "stale"

\* An engine other than e whose lease e finds stale or missing.
Lapsed(e, f) == f # e /\ lease[f] # "fresh"

\* Mutant: reap without the status filter.
OrphansOfAnyStatus(e) == {j \in Jobs : Lapsed(e, Owner[j])}

Orphans(e) == {j \in Jobs : status[j] \in Unfinished /\ Lapsed(e, Owner[j])}

\* renew_lease: the leases after e's heartbeat.
Renewed(e) == [lease EXCEPT ![e] = "fresh"]

\* renew_lease, reap and remove_out_dirs, by engine e.
RenewAndReap(e) ==
  /\ status' = [j \in Jobs |-> IF j \in Orphans(e) THEN "engine_lost" ELSE status[j]]
  /\ lock' = [s \in Scenes |->
                IF lock[s] \in Jobs /\ Lapsed(e, Owner[lock[s]]) THEN NoJob ELSE lock[s]]
  /\ lease' = [f \in Engines |->
                IF f # e /\ lease[f] = "stale" THEN "none" ELSE Renewed(e)[f]]
  /\ outDir' = outDir \ Orphans(e)

\* Mutant: try_lock_scene clears the lock of any job that left the queue.
TakeableUnlessQueued(s) == lock[s] \in Jobs => status[lock[s]] # "queued"

\* try_lock_scene clears the lock of a job that already ended.
Takeable(s) == lock[s] \in Jobs => status[lock[s]] \in Endings

\* unlock_scene deletes by job, so it never frees another job's lock.
Unlocked(j) == [s \in Scenes |-> IF lock[s] = j THEN NoJob ELSE lock[s]]

-----------------------------------------------------------------------------
(* Cancellation: cancel from any engine, cancel_local on the one that owns the job *)

\* cancel_local up to its store call, for those of js in the active map: the
\* first reason given stays on the token.  A call is "marked" if its caller
\* waits for the store, and "unawaited" if that caller's future is dropped
\* meanwhile: the transaction is still made, and nothing after it.
CancelLocal(js, by, waits) ==
  /\ token' = [j \in Jobs |->
                 IF j \in js \cap active /\ token[j] = "none" THEN by ELSE token[j]]
  /\ calls' = calls \cup ((js \cap active) \X {by} \X {waits})

\* Mutants: the swap's result not looked at, and not negated.
ClaimAlways(j) == told[j] + 1
ClaimNever(j)  == told[j]

\* publish: whoever sees the terminal state first announces it.
ClaimPublication(j) == IF told[j] = 0 THEN 1 ELSE told[j]
Publish(j) == told' = [told EXCEPT ![j] = ClaimPublication(j)]

\* request_cancel by engine e, then cancel_local; the handler of a client that
\* disconnects is dropped at the first of the two, or at the second.
Cancel(e, j) ==
  /\ j \in MayCancel /\ Runs(e)
  /\ status[j] # "absent"
  /\ j \notin cancelReq
  /\ cancelReq' = IF status[j] \in Unfinished THEN cancelReq \cup {j} ELSE cancelReq
  /\ \/ CancelLocal({j} \cap Own(e), "client", "marked")
     \/ j \in MayDrop /\ CancelLocal({j} \cap Own(e), "client", "unawaited")
     \/ j \in MayDrop /\ UNCHANGED cancelVars
  /\ UNCHANGED <<status, lock, lease, outDir, procVars, waitVars, told, runVars>>

\* cancel_queued: only a job no worker has taken ends here.
CancelQueued(j, by, waits) ==
  /\ Runs(Owner[j])
  /\ waits \in {"marked", "unawaited"} /\ <<j, by, waits>> \in calls
  /\ status' = IF status[j] = "queued" THEN [status EXCEPT ![j] = by] ELSE status
  /\ calls' = (calls \ {<<j, by, waits>>}) \cup
                 {c \in {<<j, by, "won">>} : status[j] = "queued" /\ waits = "marked"}
  /\ UNCHANGED <<cancelReq, lock, lease, outDir, procVars, waitVars, token, told, runVars>>

\* Mutant: the slot is kept until the job is dropped.
LeaveQueueNever(j) == UNCHANGED slot

\* leave_queue
LeaveQueue(j) == slot' = slot \ {j}

CancelWon(j, by) ==
  /\ Runs(Owner[j])
  /\ <<j, by, "won">> \in calls
  /\ calls' = calls \ {<<j, by, "won">>}
  /\ LeaveQueue(j)
  /\ active' = active \ {j}
  /\ Publish(j)
  /\ UNCHANGED <<storeVars, outDir, procVars, sub, queue, permit, token, runVars>>

CancelFails(j, by, waits) ==
  /\ Owner[j] \in MayFail /\ Runs(Owner[j])
  /\ waits \in {"marked", "unawaited"} /\ <<j, by, waits>> \in calls
  /\ calls' = calls \ {<<j, by, waits>>}
  /\ UNCHANGED <<storeVars, outDir, procVars, waitVars, token, told, runVars>>

-----------------------------------------------------------------------------
(* The engine process *)

Boot(e) ==
  /\ mode[e] = "off"
  /\ mode' = [mode EXCEPT ![e] = "up"]
  /\ RenewAndReap(e)
  /\ UNCHANGED <<cancelReq, frozen, late, waitVars, told, runVars, cancelVars>>

\* Mutant: only queued jobs are polled for.
AskedWhileQueued(e) == {j \in Own(e) \cap cancelReq : status[j] = "queued"}

\* cancel_requests
Asked(e) == {j \in Own(e) \cap cancelReq : status[j] \in Unfinished}

\* One tick of maintenance; the cancel requests it reads are acted on.
Upkeep(e, reap) ==
  /\ Runs(e)
  /\ mode[e] = "up" \/ e \in late
  /\ late' = late \ {e}
  /\ IF reap THEN RenewAndReap(e)
             ELSE lease' = Renewed(e) /\ UNCHANGED <<status, lock, outDir>>
  /\ CancelLocal(Asked(e), "client", "marked")
  /\ UNCHANGED <<cancelReq, mode, frozen, waitVars, told, runVars>>

\* A heartbeat lapses once the engine is stopped, stopping or gone, or its
\* upkeep keeps failing.
GoStale(e) ==
  /\ lease[e] = "fresh"
  /\ e \in frozen \/ mode[e] # "up" \/ e \in MayFail
  /\ lease' = [lease EXCEPT ![e] = "stale"]
  /\ UNCHANGED <<status, cancelReq, lock, outDir, procVars, waitVars, told, runVars, cancelVars>>

\* shutdown: refuse submissions, then cancel_local for every active job.
Shutdown(e) ==
  /\ e \in MayStop /\ Runs(e) /\ mode[e] = "up"
  /\ mode' = [mode EXCEPT ![e] = "closing"]
  /\ late' \in {late, late \cup {e}}
  /\ CancelLocal(Own(e), "shutdown", "marked")
  /\ UNCHANGED <<storeVars, outDir, frozen, waitVars, told, runVars>>

\* shutdown's end: its calls returned and its jobs ended, or the grace period
\* elapsed; release_lease.
Leave(e) ==
  /\ Runs(e) /\ mode[e] = "closing"
  /\ \A c \in calls : ~ (Owner[c[1]] = e /\ c[2] = "shutdown" /\ c[3] # "unawaited")
  /\ mode' = [mode EXCEPT ![e] = "left"]
  /\ lease' = [lease EXCEPT ![e] = "none"]
  /\ lock' = [s \in Scenes |->
                IF lock[s] \in Jobs /\ Owner[lock[s]] = e THEN NoJob ELSE lock[s]]
  /\ UNCHANGED <<status, cancelReq, outDir, frozen, late, waitVars, told, runVars, cancelVars>>

\* A process that ends loses its memory; its runtimes and its rows outlive it.
Vanish(e, how) ==
  /\ mode' = [mode EXCEPT ![e] = how]
  /\ queue' = [queue EXCEPT ![e] = <<>>]
  /\ active' = active \ Own(e)
  /\ slot' = slot \ Own(e)
  /\ permit' = permit \ Own(e)
  /\ calls' = {c \in calls : Owner[c[1]] # e}
  /\ UNCHANGED <<storeVars, outDir, frozen, late, sub, token, told, runVars>>

Exit(e)  == mode[e] = "left" /\ Vanish(e, "gone")
Crash(e) == e \in MayCrash /\ mode[e] \in {"up", "closing"} /\ Vanish(e, "dead")

Freeze(e) ==
  /\ e \in MayFreeze /\ Runs(e)
  /\ frozen' = frozen \cup {e}
  /\ UNCHANGED <<storeVars, outDir, mode, late, waitVars, told, runVars, cancelVars>>

Thaw(e) ==
  /\ e \in frozen
  /\ frozen' = frozen \ {e}
  /\ UNCHANGED <<storeVars, outDir, mode, late, waitVars, told, runVars, cancelVars>>

-----------------------------------------------------------------------------
(* submit: a job that neither the cache nor an identical job answers.  A server
   drops the future of a request whose client disconnects. *)

\* Not closed, and a queue slot is free.
Admit(j) ==
  /\ Runs(Owner[j]) /\ mode[Owner[j]] = "up"
  /\ sub[j] = "none"
  /\ Cardinality(slot \cap Own(Owner[j])) < QueueCapacity
  /\ slot' = slot \cup {j}
  /\ sub' = [sub EXCEPT ![j] = "admitted"]
  /\ UNCHANGED <<storeVars, outDir, procVars, queue, active, permit, told, runVars, cancelVars>>

\* The insert runs on a thread of its own: once asked for it is made, even if
\* nobody waits for it any more.
Inserting(j) == sub[j] = "admitted" \/ (sub[j] = "dropped" /\ status[j] = "absent")

Insert(j) ==
  /\ Runs(Owner[j])
  /\ Inserting(j)
  /\ sub' = [sub EXCEPT ![j] = IF @ = "admitted" THEN "inserted" ELSE @]
  /\ status' = [status EXCEPT ![j] = "queued"]
  /\ UNCHANGED <<cancelReq, lock, lease, outDir, procVars, queue, active, slot, permit, told,
                 runVars, cancelVars>>

InsertFails(j) ==
  /\ Owner[j] \in MayFail /\ Runs(Owner[j])
  /\ Inserting(j)
  /\ sub' = [sub EXCEPT ![j] = "done"]
  /\ LeaveQueue(j)
  /\ UNCHANGED <<storeVars, outDir, procVars, queue, active, permit, told, runVars, cancelVars>>

\* The submission is dropped while it waits for the insert: its slot is free
\* again, its job enters neither the active map nor the dispatch queue.
Abandon(j) ==
  /\ j \in MayDrop /\ Runs(Owner[j])
  /\ sub[j] \in {"admitted", "inserted"}
  /\ sub' = [sub EXCEPT ![j] = "dropped"]
  /\ LeaveQueue(j)
  /\ UNCHANGED <<storeVars, outDir, procVars, queue, active, permit, told, runVars, cancelVars>>

\* The job enters the active map and the dispatch queue.  A submission that
\* raced shutdown cancels its own job: shutdown listed the active map before.
Enqueue(j) ==
  /\ Runs(Owner[j])
  /\ sub[j] = "inserted"
  /\ sub' = [sub EXCEPT ![j] = "done"]
  /\ active' = active \cup {j}
  /\ queue' = [queue EXCEPT ![Owner[j]] = Append(@, j)]
  /\ IF mode[Owner[j]] = "up" THEN UNCHANGED cancelVars
     ELSE /\ token' = [token EXCEPT ![j] = "shutdown"]
          /\ \E waits \in {"marked"} \cup {w \in {"unawaited"} : j \in MayDrop} :
               calls' = calls \cup {<<j, "shutdown", waits>>}
  /\ UNCHANGED <<storeVars, outDir, procVars, slot, permit, told, runVars>>

-----------------------------------------------------------------------------
(* dispatch and run *)

PermitFree(j) == Cardinality(permit \cap Own(Owner[j])) < Workers

\* The dispatcher takes a permit for the job in hand; its run leaves the queue.
Dispatch(e) ==
  /\ Runs(e)
  /\ queue[e] # <<>>
  /\ LET j == Head(queue[e]) IN
       /\ PermitFree(j)
       /\ queue' = [queue EXCEPT ![e] = Tail(@)]
       /\ permit' = permit \cup {j}
       /\ LeaveQueue(j)
       /\ phase' = [phase EXCEPT ![j] = "picked"]
  /\ UNCHANGED <<storeVars, outDir, procVars, sub, active, told, outcome, runtime, cancelVars>>

Settle(j, ending) ==
  /\ outcome' = [outcome EXCEPT ![j] = ending]
  /\ phase' = [phase EXCEPT ![j] = "finishing"]

\* set_running and create_out_dir; then a cancellation wins, then a directory
\* that could not be made.
StartRun(j) ==
  /\ Runs(Owner[j])
  /\ phase[j] = "picked" /\ status[j] = "queued"
  /\ status' = [status EXCEPT ![j] = "running"]
  /\ \/ /\ outDir' = outDir \cup {j}
        /\ IF token[j] # "none" THEN Settle(j, token[j])
           ELSE /\ phase' = [phase EXCEPT ![j] =
                               IF SceneOf[j] = NoScene THEN "conversing" ELSE "locking"]
                /\ UNCHANGED outcome
     \/ /\ Owner[j] \in MayFail
        /\ UNCHANGED outDir
        /\ Settle(j, IF token[j] # "none" THEN token[j] ELSE "failed")
  /\ UNCHANGED <<cancelReq, lock, lease, procVars, waitVars, told, runtime, cancelVars>>

\* The end of a run: out of the active map, its permit dropped.
EndRun(j) ==
  /\ phase' = [phase EXCEPT ![j] = "ended"]
  /\ active' = active \ {j}
  /\ permit' = permit \ {j}

\* set_running finds the job cancelled, or failed by another engine's reaper.
RefuseRun(j) ==
  /\ Runs(Owner[j])
  /\ phase[j] = "picked" /\ status[j] # "queued"
  /\ Publish(j)
  /\ EndRun(j)
  /\ UNCHANGED <<storeVars, outDir, procVars, sub, queue, slot, outcome, runtime, cancelVars>>

\* set_running or the finishing transaction fails: the row stays as it is.
RunFails(j) ==
  /\ Owner[j] \in MayFail /\ Runs(Owner[j])
  /\ phase[j] \in {"picked", "finishing"}
  /\ EndRun(j)
  /\ UNCHANGED <<storeVars, outDir, procVars, sub, queue, slot, told, outcome, runtime, cancelVars>>

\* A cancelled attempt kills its runtime, if any.  The timeout cancels it too,
\* and makes it a failure.
Abort(j, ending) ==
  /\ Runs(Owner[j])
  /\ phase[j] \in {"locking", "conversing"}
  /\ ending = "timeout" \/ (ending \in CancelledBy /\ ending = token[j])
  /\ runtime' = [runtime EXCEPT ![j] = "none"]
  /\ Settle(j, ending)
  /\ UNCHANGED <<storeVars, outDir, procVars, waitVars, told, cancelVars>>

\* lock_scene: a worker first, then the lock; the worker goes back if another
\* job holds it.
LockTry(j) ==
  /\ Runs(Owner[j])
  /\ phase[j] = "locking"
  /\ j \in permit \/ PermitFree(j)
  /\ IF Takeable(SceneOf[j])
     THEN /\ lock' = [lock EXCEPT ![SceneOf[j]] = j]
          /\ phase' = [phase EXCEPT ![j] = "conversing"]
          /\ permit' = permit \cup {j}
     ELSE permit' = permit \ {j} /\ UNCHANGED <<lock, phase>>
  /\ UNCHANGED <<status, cancelReq, lease, outDir, procVars, sub, queue, active, slot, told,
                 outcome, runtime, cancelVars>>

LockFails(j) ==
  /\ Owner[j] \in MayFail /\ Runs(Owner[j])
  /\ phase[j] = "locking" /\ j \in permit
  /\ Settle(j, "failed")
  /\ UNCHANGED <<storeVars, outDir, procVars, waitVars, told, runtime, cancelVars>>

-----------------------------------------------------------------------------
(* The conversation with the runtime process *)

\* A ready worker got the request line.
Deliver(j) ==
  /\ Runs(Owner[j])
  /\ phase[j] = "conversing" /\ runtime[j] = "none"
  /\ runtime' = [runtime EXCEPT ![j] = "busy"]
  /\ UNCHANGED <<storeVars, outDir, procVars, waitVars, told, phase, outcome, cancelVars>>

\* The process sent its terminal frame, or died; the engine may be stopped.
Answer(j) ==
  /\ runtime[j] = "busy" /\ Alive(Owner[j])
  /\ runtime' = [runtime EXCEPT ![j] = "answered"]
  /\ UNCHANGED <<storeVars, outDir, procVars, waitVars, told, phase, outcome, cancelVars>>

\* The worker watches its parent and ends with it.
Orphaned(j) ==
  /\ runtime[j] # "none" /\ ~ Alive(Owner[j])
  /\ runtime' = [runtime EXCEPT ![j] = "none"]
  /\ UNCHANGED <<storeVars, outDir, procVars, waitVars, told, phase, outcome, cancelVars>>

\* The answer is read and accepted, or is an error; or no worker got ready.
Converse(j) ==
  /\ Runs(Owner[j])
  /\ phase[j] = "conversing" /\ runtime[j] # "busy"
  /\ runtime' = [runtime EXCEPT ![j] = "none"]
  /\ \/ runtime[j] = "answered" /\ Settle(j, "succeeded")
     \/ Settle(j, "failed")
  /\ UNCHANGED <<storeVars, outDir, procVars, waitVars, told, cancelVars>>

-----------------------------------------------------------------------------
(* finish: the one terminal transition; then the lock, the directory, the event *)

\* finish_success ends only a running job, finish_error any unfinished one.
MayFinish(j) ==
  IF outcome[j] = "succeeded" THEN status[j] = "running" ELSE status[j] \in Unfinished

Finish(j) ==
  /\ Runs(Owner[j])
  /\ phase[j] = "finishing"
  /\ status' = IF MayFinish(j) THEN [status EXCEPT ![j] = outcome[j]] ELSE status
  /\ phase' = [phase EXCEPT ![j] = "releasing"]
  /\ UNCHANGED <<cancelReq, lock, lease, outDir, procVars, waitVars, told, outcome, runtime,
                 cancelVars>>

\* Mutant: a run that was asked to stop keeps nothing, even if it succeeded.
KeptUnlessCancelled(j) == status[j] = "succeeded" /\ token[j] = "none"

\* Finish::Ended with a success: only this run records one.
Kept(j) == status[j] = "succeeded"

Release(j) ==
  /\ Runs(Owner[j])
  /\ phase[j] = "releasing"
  /\ lock' = Unlocked(j)
  /\ outDir' = IF Kept(j) THEN outDir ELSE outDir \ {j}
  /\ outcome' = [outcome EXCEPT ![j] = "none"]
  /\ Publish(j)
  /\ EndRun(j)
  /\ UNCHANGED <<status, cancelReq, lease, procVars, sub, queue, slot, runtime, cancelVars>>

-----------------------------------------------------------------------------
EngineStep(e) ==
  \/ Boot(e) \/ GoStale(e) \/ Shutdown(e) \/ Leave(e) \/ Exit(e)
  \/ Crash(e) \/ Freeze(e) \/ Thaw(e) \/ Dispatch(e)
  \/ \E reap \in BOOLEAN : Upkeep(e, reap)

SubmitStep(j) == Admit(j) \/ Insert(j) \/ InsertFails(j) \/ Abandon(j) \/ Enqueue(j)

CancelStep(j, by) ==
  \/ CancelWon(j, by)
  \/ \E waits \in {"marked", "unawaited"} : CancelQueued(j, by, waits) \/ CancelFails(j, by, waits)

RunStep(j) ==
  \/ StartRun(j) \/ RefuseRun(j) \/ RunFails(j) \/ LockTry(j) \/ LockFails(j)
  \/ Deliver(j) \/ Converse(j) \/ Finish(j) \/ Release(j)

Next ==
  \/ \E e \in Engines : EngineStep(e) \/ \E j \in Jobs : Cancel(e, j)
  \/ \E j \in Jobs : SubmitStep(j) \/ RunStep(j) \/ Answer(j) \/ Orphaned(j)
  \/ \E j \in Jobs, ending \in CancelledBy \cup {"timeout"} : Abort(j, ending)
  \/ \E j \in Jobs, by \in CancelledBy : CancelStep(j, by)

Spec == Init /\ [][Next]_vars

\* The tasks of a process go on: its upkeep ticks (and a heartbeat that is
\* not renewed ages), its dispatcher and its runs proceed.  Nothing says that
\* a runtime ever answers.
FairEngine(e) ==
  WF_vars(Upkeep(e, TRUE)) /\ WF_vars(GoStale(e)) /\ WF_vars(Dispatch(e)) /\ WF_vars(Leave(e))

FairJob(j) ==
  /\ WF_vars(Insert(j) \/ Enqueue(j)) /\ WF_vars(RunStep(j))
  /\ \A by \in CancelledBy : WF_vars(CancelStep(j, by)) /\ WF_vars(Abort(j, by))

PatientSpec ==
  Spec /\ (\A e \in Engines : FairEngine(e)) /\ (\A j \in Jobs : FairJob(j))

\* Every attempt's timer fires in the end.
FairSpec == PatientSpec /\ \A j \in Jobs : WF_vars(Abort(j, "timeout"))

-----------------------------------------------------------------------------
(* Properties *)

\* Never shut down, killed or stopped, and its store always answers.
Healthy(e) == e \notin MayStop \cup MayCrash \cup MayFreeze \cup MayFail

\* Job j is in its engine's dispatch queue.
Waits(j) == \E i \in DOMAIN queue[Owner[j]] : queue[Owner[j]][i] = j

\* A render past lock_scene whose row is running, on an engine that has not
\* given up its lease on the way out.
LiveRender(j) ==
  /\ SceneOf[j] # NoScene
  /\ phase[j] = "conversing"
  /\ status[j] = "running"
  /\ mode[Owner[j]] \notin {"left", "gone"}

(* Renders and stills of one scene run one at a time across engines: of two
   renders of a scene whose rows say running, at most one is past lock_scene
   (execute.rs, lock_scene and scene_lock_key; locks.rs). *)
SceneExclusive ==
  \A j, k \in Jobs :
    LiveRender(j) /\ LiveRender(k) /\ SceneOf[j] = SceneOf[k] => j = k

(* The same of the runtime processes themselves, whatever the store says of
   their jobs: the comment on scene_lock_key taken at its word. *)
RuntimesOneAtATime ==
  \A j, k \in Jobs :
    SceneOf[j] # NoScene /\ SceneOf[j] = SceneOf[k]
      /\ runtime[j] = "busy" /\ runtime[k] = "busy" => j = k

(* A job has one terminal transition: whatever run, cancellation or reaper
   ended it, no later one changes its row (jobs.rs, finish and cancel_queued;
   leases.rs, reap). *)
OneEnding ==
  [][\A j \in Jobs : status[j] \in Endings => status'[j] = status[j]]_vars

(* The jobs of an engine that is never stopped and whose upkeep never fails
   are never failed as engine_lost, however other engines come, freeze, wake
   and reap (leases.rs, reap; mod.rs, Scheduler::start renews before it reaps). *)
HealthyEngineKeepsItsJobs ==
  \A j \in Jobs : Healthy(Owner[j]) => status[j] # "engine_lost"

(* A place in the bounded queue is held from before the insert until the job
   is picked or ended, and by nothing else: an early release would let the
   queue outgrow its capacity, a missed one would refuse submissions for good
   (mod.rs, submit and cancel_local; active.rs, leave_queue).  A row whose
   submission was dropped has no place in the queue, as it will not leave it;
   a job cancelled by a request that was dropped keeps its place until the
   dispatcher comes to it. *)
QueueAccounting ==
  /\ \A j \in Jobs :
       status[j] = "queued" /\ phase[j] = "idle" /\ sub[j] # "dropped" /\ Alive(Owner[j])
         => j \in slot
  /\ \A j \in slot :
       /\ phase[j] = "idle" /\ sub[j] # "dropped"
       /\ \/ sub[j] = "admitted"
          \/ status[j] \in {"queued", "engine_lost"}
          \/ \E by \in CancelledBy : <<j, by, "won">> \in calls
          \/ j \in MayDrop /\ Waits(j)

(* At most Workers runtime processes of an engine are at work at a time,
   although a run gives its worker back and takes one again while it waits for
   its scene (mod.rs, Slot; execute.rs, lock_scene). *)
WorkersBound ==
  \A e \in Engines :
    Alive(e) => Cardinality({j \in Own(e) : runtime[j] = "busy"}) <= Workers

(* Neither the queue's places nor the workers leak or are given away twice
   (mod.rs, submit; execute.rs, lock_scene). *)
CapacityIsKept == QueueAccounting /\ WorkersBound

(* A job's end is announced at most once by its engine, and never before it is
   recorded, although a cancellation and the run may both see it (mod.rs,
   publish; active.rs, claim_publication). *)
ToldOnce == \A j \in Jobs : told[j] <= 1 /\ (told[j] = 1 => status[j] \in Endings)

(* A succeeded job keeps its artifact directory, and a run that recorded
   nothing or lost to a reaper leaves none behind unless the store failed it
   (execute.rs, finish; maintenance.rs, remove_out_dirs). *)
KeptArtifacts ==
  \A j \in Jobs :
    /\ status[j] = "succeeded" => j \in outDir
    /\ phase[j] = "ended" /\ status[j] \in Endings \ {"succeeded"} /\ Owner[j] \notin MayFail
         => j \notin outDir

(* The first reason given wins, as the comment on Active::cancel says: a
   cancelled job's row names the reason its token holds. *)
FirstReasonWins ==
  \A j \in Jobs : status[j] \in CancelledBy => status[j] = token[j]

\* Where a step will find job j: its submission has yet to queue it, it waits
\* for the dispatcher, or its run goes on.
InHand(j) ==
  \/ sub[j] = "inserted" \/ Waits(j)
  \/ phase[j] \in {"picked", "locking", "conversing", "finishing"}

\* Not ended is in hand, known to a shutdown and to cancel requests, and if it
\* waits with a reason to end its cancellation is on its way; ended is
\* announced, or whoever sees that it ended will announce it.
Followed(j) ==
  /\ status[j] \in Unfinished => InHand(j) /\ (sub[j] = "done" => j \in active)
  /\ status[j] = "queued" /\ token[j] # "none" =>
       \E by \in CancelledBy, waits \in {"marked", "unawaited"} : <<j, by, waits>> \in calls
  /\ status[j] \in Endings /\ told[j] = 0 =>
       \/ InHand(j) \/ phase[j] = "releasing"
       \/ \E by \in CancelledBy : <<j, by, "won">> \in calls

\* A worker that job j keeps from others, its run has yet to give back; and its
\* scene, unless others may take that over.
GivesBack(j) ==
  /\ j \in permit => phase[j] \in {"picked", "locking", "conversing", "finishing", "releasing"}
  /\ Owner[j] \notin MayFail /\ (\E s \in Scenes : lock[s] = j)
       => status[j] \in Endings \/ phase[j] \in {"conversing", "finishing"}

\* All that a dropped submission leaves is its row: nothing runs for it, and
\* no other job waits for what it holds.
LeavesItsRow(j) ==
  /\ phase[j] = "idle" /\ ~ Waits(j)
  /\ j \notin slot \cup permit \cup active
  /\ \A s \in Scenes : lock[s] # j

(* No job of a process that goes on, even one that was stopped for a while or
   is shutting down, is left without a step that ends and announces it, nor
   keeps a worker or a scene for good, unless the store fails it or the server
   dropped its submission (mod.rs, submit and cancel_local; execute.rs, run and
   finish; active.rs; routes.rs, submit_job). *)
NoJobIsForgotten ==
  \A j \in Jobs :
    /\ Alive(Owner[j]) /\ Owner[j] \notin MayFail /\ sub[j] # "dropped" => Followed(j)
    /\ sub[j] = "dropped" => LeavesItsRow(j)
    /\ GivesBack(j)

\* A row nothing ends while its engine lives: its submission was dropped, or
\* the store failed its run.
Stranded(j) ==
  Alive(Owner[j]) /\ (sub[j] = "dropped" \/ (phase[j] = "ended" /\ status[j] \in Unfinished))

(* While a healthy engine is up, every unfinished job ends, its own or another
   engine's: by its run, its timeout, a cancellation, or the reaper; a stranded
   one once its engine is gone (execute.rs, execute; leases.rs, reap). *)
EveryJobEnds ==
  \A j \in Jobs, e \in Engines :
    Healthy(e) =>
      (status[j] \in Unfinished /\ mode[e] = "up" /\ ~ Stranded(j)
         ~> status[j] \in Endings \/ Stranded(j))

(* A cancellation ends a job of a healthy engine whichever engine took the
   request and however long the runtime would have worked; the request is not
   lost when it arrives before the job enters the active map, or its handler is
   dropped, but a job whose submission was dropped it does not reach (mod.rs,
   cancel; maintenance.rs, upkeep). *)
CancelTakesEffect ==
  \A j \in Jobs :
    Healthy(Owner[j]) => (j \in cancelReq ~> status[j] \in Endings \/ sub[j] = "dropped")

(* The same of every job, as the comment on cancel has it: "This engine's own
   jobs end at once (queued) or once their runtime is killed (running)". *)
CancelEndsOwnJobs ==
  \A j \in Jobs : Healthy(Owner[j]) => (j \in cancelReq ~> status[j] \in Endings)

(* A healthy engine announces the end of each of its jobs (execute.rs, run and
   finish; mod.rs, cancel_local). *)
EveryEndingTold ==
  \A j \in Jobs : Healthy(Owner[j]) => (status[j] \in Endings ~> told[j] = 1)

Lifecycle == INSTANCE JobLifecycle WITH Jobs <- Jobs, status <- status, told <- told

(* Every job follows the life cycle the engine promises. *)
RefinesLifecycle == Lifecycle!Spec

=============================================================================

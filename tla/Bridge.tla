------------------------------- MODULE Bridge -------------------------------
(***************************************************************************)
(* The bridge between one engine and its Python runtime processes: the     *)
(* keeper of one idle, preloaded worker (prewarm.rs), the acquisition of a *)
(* worker for a job (bridge/mod.rs), the conversation with it (worker.rs,  *)
(* execute.rs dispatch) and the process itself (protocol.py run_bridge).   *)
(*                                                                         *)
(* manim.cfg stands for everything a worker fixes when it starts: edits    *)
(* count its versions, a later version may have an earlier one's text, and *)
(* the key of a worker or a job is the text.  A request line is written in *)
(* two parts, since it may exceed what a pipe holds.  Time is abstracted:  *)
(* a deadline or a backoff may pass at any moment.  Of a worker that is    *)
(* retired or discarded in the background only its end is left to come.    *)
(***************************************************************************)
EXTENDS Integers, Sequences

CONSTANTS
  Jobs, Workers,  \* workers: identities of processes, used again once they ended
  NoWorker,
  Backoffs,       \* length of PrewarmPolicy.backoff
  MaxCfg,         \* bound on edits of manim.cfg
  Text,           \* the text of each version of it: an edit may bring an earlier one back
  MaxFaults,      \* bound on processes that die or break the protocol, and failed spawns
  MayCancel,      \* jobs that are cancelled or time out
  MayClose        \* whether the engine closes its bridge

ASSUME WorkerAssumption == NoWorker \notin Workers
ASSUME JobAssumption    == MayCancel \subseteq Jobs
ASSUME BoundAssumption  == Backoffs \in Nat /\ MaxCfg \in Nat /\ MaxFaults \in Nat
ASSUME TextAssumption   == Text \in [0..MaxCfg -> Nat]
ASSUME CloseAssumption  == MayClose \in BOOLEAN

VARIABLES
  cfg,                            \* the version of manim.cfg
  idle, key, failures, respawn,   \* the keeper; respawn: none, later, now
  closed,
  proc,                           \* the processes
  loaded,                         \* the version each imported
  out, sent,                      \* frames the engine has not read; parts of the request sent
  greeted,                        \* workers whose ready frame the engine has read
  at, direct, worker, jobKey, retried,  \* the calls of dispatch and, in direct, of run_direct
  cancelled, handled, faults      \* handled: how many processes began the job's request

keeperVars == <<idle, key, failures, respawn, closed>>
procVars   == <<proc, loaded, out, sent, greeted>>
setup      == <<direct, jobKey, retried>>
callVars   == <<at, worker, setup>>
vars == <<cfg, keeperVars, procVars, callVars, cancelled, handled, faults>>

NoCfg    == -1
Cfgs     == 0..MaxCfg
Texts    == {Text[v] : v \in Cfgs}
Frames   == {"ready", "result", "error", "junk"}

TypeOK ==
  /\ cfg \in Cfgs /\ key \in Texts
  /\ idle \in Workers \cup {NoWorker}
  /\ failures \in 0..(Backoffs + 1)
  /\ respawn \in {"none", "later", "now"}
  /\ closed \in BOOLEAN
  /\ proc \in [Workers -> {"none", "starting", "waiting", "handling", "answered", "exited",
                         "ending"}]
  /\ loaded \in [Workers -> Cfgs \cup {NoCfg}]
  /\ out \in [Workers -> Seq(Frames)]
  /\ sent \in [Workers -> 0..2]
  /\ greeted \subseteq Workers
  /\ at \in [Jobs -> {"idle", "waiting", "asking", "spawning", "startup", "stamping", "conversing",
                      "draining", "done"}]
  /\ direct \subseteq Jobs
  /\ worker \in [Jobs -> Workers \cup {NoWorker}]
  /\ jobKey \in [Jobs -> Texts \cup {NoCfg}]
  /\ retried \subseteq Jobs
  /\ cancelled \subseteq Jobs
  /\ handled \in [Jobs -> Nat]
  /\ faults \in 0..MaxFaults

\* start_prewarm: the first worker is spawned at the top of the keeper's loop.
Init ==
  /\ cfg = 0 /\ key = Text[0] /\ idle = NoWorker /\ failures = 0 /\ respawn = "now"
  /\ closed = FALSE
  /\ proc = [w \in Workers |-> "none"]
  /\ loaded = [w \in Workers |-> NoCfg]
  /\ out = [w \in Workers |-> <<>>]
  /\ sent = [w \in Workers |-> 0]
  /\ greeted = {}
  /\ at = [j \in Jobs |-> "idle"]
  /\ direct = {}
  /\ worker = [j \in Jobs |-> NoWorker]
  /\ jobKey = [j \in Jobs |-> NoCfg]
  /\ retried = {}
  /\ cancelled = {}
  /\ handled = [j \in Jobs |-> 0]
  /\ faults = 0

Fault == faults < MaxFaults /\ faults' = faults + 1

-----------------------------------------------------------------------------
(* The runtime process (protocol.py) *)

Running(w) == proc[w] \notin {"none", "exited", "ending"}

\* The process imports Manim, which reads manim.cfg, and writes its ready frame.
Ready(w) ==
  /\ proc[w] = "starting"
  /\ proc' = [proc EXCEPT ![w] = "waiting"]
  /\ loaded' = [loaded EXCEPT ![w] = cfg]
  /\ out' = [out EXCEPT ![w] = Append(@, "ready")]
  /\ UNCHANGED <<cfg, keeperVars, sent, greeted, callVars, cancelled, handled, faults>>

\* readline returns the whole request.
Handle(j) ==
  LET w == worker[j] IN
  /\ at[j] = "conversing" /\ proc[w] = "waiting" /\ sent[w] = 2
  /\ proc' = [proc EXCEPT ![w] = "handling"]
  /\ handled' = [handled EXCEPT ![j] = @ + 1]
  /\ UNCHANGED <<cfg, keeperVars, loaded, out, sent, greeted, callVars, cancelled, faults>>

\* handle_request ends with exactly one terminal frame; the process then exits.
Answer(w, frame) ==
  /\ proc[w] = "handling"
  /\ proc' = [proc EXCEPT ![w] = "answered"]
  /\ out' = [out EXCEPT ![w] = Append(@, frame)]
  /\ UNCHANGED <<cfg, keeperVars, loaded, sent, greeted, callVars, cancelled, handled, faults>>

\* Killed, out of memory, an import that fails.
Die(w) ==
  /\ Running(w) /\ proc[w] # "answered" /\ Fault
  /\ proc' = [proc EXCEPT ![w] = "exited"]
  /\ UNCHANGED <<cfg, keeperVars, loaded, out, sent, greeted, callVars, cancelled, handled>>

\* Another version of the runtime, or a library, writes what the protocol does not allow.
Misbehave(w) ==
  /\ Running(w) /\ proc[w] # "answered" /\ Fault
  /\ out' = [out EXCEPT ![w] = Append(@, "junk")]
  /\ UNCHANGED <<cfg, keeperVars, proc, loaded, sent, greeted, callVars, cancelled, handled>>

\* The identity of an ended process may be used again.
Gone(w) ==
  /\ proc' = [proc EXCEPT ![w] = "none"]
  /\ loaded' = [loaded EXCEPT ![w] = NoCfg]
  /\ out' = [out EXCEPT ![w] = <<>>]
  /\ sent' = [sent EXCEPT ![w] = 0]
  /\ greeted' = greeted \ {w}

\* The end of a retired or discarded process: it sees the end of its input, or is killed.
End(w) ==
  /\ proc[w] = "ending"
  /\ Gone(w)
  /\ UNCHANGED <<cfg, keeperVars, callVars, cancelled, handled, faults>>

-----------------------------------------------------------------------------
(* The keeper (prewarm.rs) *)

\* The identity of a new process, outside born: which one does not matter.
Unborn(born) == {w \in Workers \ born : proc[w] = "none"}
Newborn(born) == CHOOSE w \in Unborn(born) : TRUE

\* The workers born are spawned, the workers left are retired or discarded.
Spawned(born, left) ==
  /\ proc' = [w \in Workers |-> IF w \in born THEN "starting"
                                 ELSE IF w \in left THEN "ending" ELSE proc[w]]
  /\ loaded' = [w \in Workers |-> IF w \in left THEN NoCfg ELSE loaded[w]]
  /\ out' = [w \in Workers |-> IF w \in left THEN <<>> ELSE out[w]]
  /\ greeted' = greeted \ left

\* policy.backoff.get(failures - 1)
Backoff(n) == IF n <= Backoffs THEN "later" ELSE "none"

\* The top of the keeper's loop after a branch that ended with idle = i,
\* failures = n and respawn = r, spawned the workers born and let go of left: replenish.
Replenish(i, n, r, born, left) ==
  \/ /\ i # NoWorker \/ r # "now"
     /\ idle' = i /\ failures' = n /\ respawn' = r
     /\ Spawned(born, left) /\ UNCHANGED faults
  \/ /\ i = NoWorker /\ r = "now" /\ Unborn(born) # {}
     /\ idle' = Newborn(born) /\ failures' = n /\ respawn' = "none"
     /\ Spawned(born \cup {Newborn(born)}, left) /\ UNCHANGED faults
  \/ /\ i = NoWorker /\ r = "now" /\ Fault
     /\ idle' = NoWorker /\ failures' = n + 1 /\ respawn' = Backoff(n + 1)
     /\ Spawned(born, left)

\* The keeper's select is biased: takes go before everything but the close.
NoTake == \A j \in Jobs : at[j] # "asking"

\* The first loop, and every one after a backoff has passed.
Respawn ==
  /\ ~ closed /\ NoTake /\ idle = NoWorker /\ respawn # "none"
  /\ Replenish(NoWorker, failures, "now", {}, {})
  /\ UNCHANGED <<cfg, key, closed, sent, callVars, cancelled, handled>>

\* Keeper::failed: discard the idle worker and wait.
IdleFails == Replenish(NoWorker, failures + 1, Backoff(failures + 1), {}, {idle})

\* Worker::step and startup_line on the idle worker: the ready frame, a frame
\* before a request, the end of its stdout, or 120 s without ready.
IdleStep ==
  /\ ~ closed /\ NoTake /\ idle # NoWorker
  /\ \/ /\ out[idle] # <<>> /\ Head(out[idle]) = "ready" /\ idle \notin greeted
        /\ greeted' = greeted \cup {idle}
        /\ out' = [out EXCEPT ![idle] = Tail(@)]
        /\ UNCHANGED <<idle, failures, respawn, proc, loaded, faults>>
     \/ /\ out[idle] # <<>> /\ (Head(out[idle]) # "ready" \/ idle \in greeted)
        /\ IdleFails
     \/ out[idle] = <<>> /\ proc[idle] = "exited" /\ IdleFails
     \/ idle \notin greeted /\ IdleFails
  /\ UNCHANGED <<cfg, key, closed, sent, callVars, cancelled, handled>>

\* max_idle, fifteen minutes: by then the idle worker is ready and those retired before
\* it are gone.
Expire ==
  /\ ~ closed /\ NoTake /\ idle \in greeted
  /\ \A w \in Workers : proc[w] # "ending"
  /\ Replenish(NoWorker, failures, "now", {}, {idle})
  /\ UNCHANGED <<cfg, key, closed, sent, callVars, cancelled, handled>>

\* Mutant: any idle worker will do.
KeyChangesNever(j) == FALSE

\* key != self.key
KeyChanges(j) == jobKey[j] # key

\* A worker that died unnoticed stays idle: its next step reports the failure.
Left(w) == w

\* The reply to a take: the idle worker while it is alive, else none.
Reply(j, i, n, r, born, left) ==
  IF i # NoWorker /\ (i \in born \/ Running(i))
  THEN /\ worker' = [worker EXCEPT ![j] = i]
       /\ at' = [at EXCEPT ![j] = "startup"]
       /\ Replenish(NoWorker, 0, "now", born, left)
  ELSE /\ UNCHANGED worker
       /\ at' = [at EXCEPT ![j] = "spawning"]
       /\ Replenish(Left(i), n, r, born, left)

\* Keeper::hand_over: another key retires the idle worker and spawns one with
\* the job's key, which is handed over like any other.
HandOver(j) ==
  /\ at[j] = "asking" /\ ~ closed
  /\ IF KeyChanges(j)
     THEN /\ key' = jobKey[j]
          /\ \/ /\ Unborn({}) # {}
                /\ Reply(j, Newborn({}), 0, "none", {Newborn({})}, {idle})
             \/ /\ Fault
                /\ idle' = NoWorker /\ failures' = 1 /\ respawn' = Backoff(1)
                /\ Spawned({}, {idle})
                /\ at' = [at EXCEPT ![j] = "spawning"] /\ UNCHANGED worker
     ELSE key' = key /\ Reply(j, idle, failures, respawn, {}, {})
  /\ UNCHANGED <<cfg, closed, sent, setup, cancelled, handled>>

\* Mutant: the keeper stops, and that is all.
KeptIdle(w) == {}

\* Once out of its loop the keeper retires the idle worker.
Retired(w) == {w}

\* RuntimeBridge::close
Close ==
  /\ MayClose /\ ~ closed
  /\ closed' = TRUE
  /\ idle' = NoWorker /\ respawn' = "none"
  /\ Spawned({}, Retired(idle))
  /\ UNCHANGED <<cfg, key, failures, sent, callVars, cancelled, handled, faults>>

-----------------------------------------------------------------------------
(* A job's call: acquire, into_ready, converse (execute.rs dispatch; mod.rs run_direct) *)

\* What an edit writes may have been there before.
Edit ==
  /\ cfg < MaxCfg
  /\ cfg' = cfg + 1
  /\ UNCHANGED <<keeperVars, procVars, callVars, cancelled, handled, faults>>

\* The attempt's token: a cancellation or the job's timeout.
Cancel(j) ==
  /\ j \in MayCancel \ cancelled /\ at[j] \notin {"idle", "done"}
  /\ cancelled' = cancelled \cup {j}
  /\ UNCHANGED <<cfg, keeperVars, procVars, callVars, handled, faults>>

\* Inner::run computes the key as the job starts, before it waits for its scene.
Begin(j) ==
  /\ at[j] = "idle"
  /\ at' = [at EXCEPT ![j] = "waiting"]
  /\ jobKey' = [jobKey EXCEPT ![j] = Text[cfg]]
  /\ UNCHANGED <<cfg, keeperVars, procVars, direct, worker, retried, cancelled, handled,
                 faults>>

\* The call returns, with a result or why there is none; what it kept is gone.
Ends(j) ==
  /\ at' = [at EXCEPT ![j] = "done"]
  /\ jobKey' = [jobKey EXCEPT ![j] = NoCfg]
  /\ direct' = direct \ {j}
  /\ retried' = retried \ {j}
  /\ cancelled' = cancelled \ {j}
  /\ handled' = [handled EXCEPT ![j] = 0]

\* lock_scene: the job has its scene, or is cancelled before.
Wait(j) ==
  /\ at[j] = "waiting"
  /\ \/ at' = [at EXCEPT ![j] = "asking"] /\ UNCHANGED <<setup, cancelled, handled>>
     \/ j \in cancelled /\ Ends(j)
  /\ UNCHANGED <<cfg, keeperVars, procVars, worker, faults>>

\* run_direct, for init and discover, always spawns a worker of its own.
BeginDirect(j) ==
  /\ at[j] = "idle"
  /\ at' = [at EXCEPT ![j] = "spawning"]
  /\ direct' = direct \cup {j}
  /\ jobKey' = [jobKey EXCEPT ![j] = Text[cfg]]
  /\ UNCHANGED <<cfg, keeperVars, procVars, worker, retried, cancelled, handled, faults>>

\* A take that finds the keeper gone.
AskInVain(j) ==
  /\ at[j] = "asking" /\ closed
  /\ at' = [at EXCEPT ![j] = "spawning"]
  /\ UNCHANGED <<cfg, keeperVars, procVars, worker, setup, cancelled, handled, faults>>

SpawnOwn(j) ==
  /\ at[j] = "spawning"
  /\ \/ /\ Unborn({}) # {}
        /\ Spawned({Newborn({})}, {})
        /\ worker' = [worker EXCEPT ![j] = Newborn({})]
        /\ at' = [at EXCEPT ![j] = "startup"]
        /\ UNCHANGED <<setup, cancelled, handled, faults>>
     \/ Fault /\ Ends(j) /\ UNCHANGED <<proc, loaded, out, greeted, worker>>
  /\ UNCHANGED <<cfg, keeperVars, sent>>

\* into_ready is done: a job takes its start fingerprint, a direct call goes on.
Proceed(j) == at' = [at EXCEPT ![j] = IF j \in direct THEN "conversing" ELSE "stamping"]

\* into_ready with a worker whose ready frame is known.
IsReady(j) ==
  /\ at[j] = "startup" /\ worker[j] \in greeted
  /\ Proceed(j)
  /\ UNCHANGED <<cfg, keeperVars, procVars, worker, setup, cancelled, handled, faults>>

\* terminate_process_tree, drain_until_exit: the call goes on once the process is gone.
Terminated(w) == Gone(w)

\* The call returns with its process gone.
Return(j) ==
  /\ Terminated(worker[j])
  /\ worker' = [worker EXCEPT ![j] = NoWorker]
  /\ Ends(j)

\* Mutant: the token is looked at only until the worker is ready.
AbortedEarly(j) == j \in cancelled /\ at[j] = "startup" /\ Return(j)

Aborted(j) == j \in cancelled /\ Return(j)

\* A stdout line, the end of stdout or the 120 s deadline while the worker starts.
StartupStep(j) ==
  LET w == worker[j] IN
  /\ at[j] = "startup" /\ w \notin greeted
  /\ \/ /\ out[w] # <<>> /\ Head(out[w]) = "ready"
        /\ greeted' = greeted \cup {w}
        /\ out' = [out EXCEPT ![w] = Tail(@)]
        /\ Proceed(j)
        /\ UNCHANGED <<proc, loaded, sent, worker, setup, cancelled, handled>>
     \/ out[w] # <<>> /\ Head(out[w]) # "ready" /\ Return(j)
     \/ Return(j)
     \/ Aborted(j)
  /\ UNCHANGED <<cfg, keeperVars, faults>>

\* start_fingerprint hashes the project's files; what comes of it is ResultCache's.
Stamp(j) ==
  /\ at[j] = "stamping"
  /\ at' = [at EXCEPT ![j] = "conversing"]
  /\ UNCHANGED <<cfg, keeperVars, procVars, worker, setup, cancelled, handled, faults>>

Write(j) ==
  LET w == worker[j] IN
  /\ at[j] = "conversing" /\ sent[w] < 2 /\ proc[w] # "exited"
  /\ sent' = [sent EXCEPT ![w] = @ + 1]
  /\ UNCHANGED <<cfg, keeperVars, proc, loaded, out, greeted, callVars, cancelled, handled,
                 faults>>

\* Mutant: a worker that exits without an answer counts as one that never took the request.
UndeliveredIfExited(w) == proc[w] = "exited"

\* The write fails: nobody reads the pipe any more.
Undelivered(w) == proc[w] = "exited" /\ sent[w] < 2

\* A job is dispatched once more; a direct call is not.
WriteFails(j) ==
  LET w == worker[j] IN
  /\ at[j] = "conversing" /\ Undelivered(w)
  /\ IF j \in direct \cup retried
     THEN Return(j)
     ELSE /\ Terminated(w)
          /\ worker' = [worker EXCEPT ![j] = NoWorker]
          /\ at' = [at EXCEPT ![j] = "asking"]
          /\ retried' = retried \cup {j}
          /\ UNCHANGED <<direct, jobKey, cancelled, handled>>
  /\ UNCHANGED <<cfg, keeperVars, faults>>

\* The other branches of converse's select: a frame, the end of stdout, the token.
Converse(j) ==
  LET w == worker[j] IN
  /\ at[j] = "conversing"
  /\ \/ /\ out[w] # <<>> /\ Head(out[w]) \in {"result", "error"}
        /\ at' = [at EXCEPT ![j] = "draining"]
        /\ UNCHANGED <<procVars, worker, setup, cancelled, handled>>
     \/ out[w] # <<>> /\ Head(out[w]) \notin {"result", "error"} /\ Return(j)
     \/ out[w] = <<>> /\ proc[w] = "exited" /\ Return(j)
     \/ Aborted(j)
  /\ UNCHANGED <<cfg, keeperVars, faults>>

\* After a terminal frame the process exits, or is killed after five seconds.
Drain(j) ==
  /\ at[j] = "draining"
  /\ Return(j)
  /\ UNCHANGED <<cfg, keeperVars, faults>>

-----------------------------------------------------------------------------

RuntimeStep(w) ==
  \/ Ready(w) \/ Answer(w, "result") \/ Answer(w, "error")
  \/ Die(w) \/ Misbehave(w) \/ End(w)

KeeperStep == Respawn \/ IdleStep \/ Expire \/ Close

CallStep(j) ==
  \/ Wait(j) \/ HandOver(j) \/ AskInVain(j) \/ SpawnOwn(j) \/ IsReady(j)
  \/ StartupStep(j) \/ Stamp(j)
  \/ Write(j) \/ WriteFails(j) \/ Converse(j) \/ Drain(j)

Next ==
  \/ \E w \in Workers : RuntimeStep(w)
  \/ KeeperStep \/ Edit
  \/ \E j \in Jobs : Begin(j) \/ BeginDirect(j) \/ Cancel(j) \/ Handle(j) \/ CallStep(j)

Spec == Init /\ [][Next]_vars

\* The engine's own steps go on and a retired process ends; a runtime need never answer.
FairSpec ==
  /\ Spec
  /\ \A j \in Jobs : WF_vars(CallStep(j))
  /\ \A w \in Workers : WF_vars(End(w))

-----------------------------------------------------------------------------
(* Properties *)

(* A request is never begun twice, although a call whose request could not be
   written is made once more (worker.rs, converse; execute.rs, dispatch). *)
RequestRunsOnce == \A j \in Jobs : handled[j] <= 1

(* A process that works on a request belongs to a call that has not returned:
   once it has, the scene lock, the worker permit and the artifact directory
   are free of it (worker.rs, converse and into_ready; spawn.rs,
   terminate_process_tree). *)
WorkHasACall ==
  \A w \in Workers :
    proc[w] \in {"handling", "answered"} =>
      \E j \in Jobs : worker[j] = w /\ at[j] \in {"conversing", "draining"}

(* The manim.cfg had the text by its n-th version. *)
Had(text, n) == \E v \in 0..n : Text[v] = text

(* A job runs in a worker that imported the text of its key or one that
   replaced it, however workers were kept, handed over and replaced: never in
   one that started before that text was there (prewarm.rs, hand_over;
   execute.rs, run).  No more holds: the key of a worker is the text as it was
   before the worker started, so that one which imported an edit that was
   undone since is handed to the jobs of the text that is back. *)
WorkersAreCurrent ==
  \A j \in Jobs : at[j] \in {"conversing", "draining"} => Had(jobKey[j], loaded[worker[j]])

(* Without an idle worker the keeper has its next spawn scheduled, until too
   many failures in a row stopped it (prewarm.rs, hand_over and failed). *)
KeeperIsNeverStuck ==
  ~ closed /\ idle = NoWorker /\ failures <= Backoffs => respawn # "none"

(* Work is done at most once and for a caller: a request is never begun twice,
   and no process works on after its call returned and gave up the scene, the
   worker permit and the directory (worker.rs, converse; execute.rs, dispatch). *)
WorkIsForItsCaller == RequestRunsOnce /\ WorkHasACall

(* The idle worker serves who comes: one that is handed over imported the
   manim.cfg its job is keyed on, or one that replaced it, and the keeper that has none
   has the next one on its way (prewarm.rs, hand_over and failed). *)
IdleWorkersServe == WorkersAreCurrent /\ KeeperIsNeverStuck

(* A cancelled or timed out call returns whatever its worker does: in no wait,
   for the keeper, for ready, for an answer or for the exit, can it be stuck
   (worker.rs, into_ready and converse). *)
CancelledCallsReturn ==
  \A j \in Jobs : j \in cancelled ~> at[j] = "done"

(* Closing the bridge leaves no runtime process behind once the calls have
   returned (prewarm.rs, close). *)
CloseLeavesNothing ==
  closed /\ (\A j \in Jobs : at[j] \in {"idle", "done"}) ~>
    \/ \A w \in Workers : proc[w] = "none"
    \/ \E j \in Jobs : at[j] \notin {"idle", "done"}

=============================================================================

--------------------------- MODULE SchedulerProofs ---------------------------
(***************************************************************************)
(* Proofs about Scheduler, for every number of engines, jobs and scenes    *)
(* and whatever clients, crashes, stops and store failures do: rows and    *)
(* scene locks are right, endings are told once, an engine implements the  *)
(* life cycle it promises, and no job is left without a next step.         *)
(***************************************************************************)
EXTENDS Scheduler, FiniteSetTheorems, TLAPS

\* A run that is finishing has an outcome to record.
Settled == \A j \in Jobs : phase[j] = "finishing" => outcome[j] # "none"

TypeInv == TypeOK /\ Settled

LEMMA InitTypeInv == Init => TypeInv
  BY BoundsAssumption DEF Init, TypeInv, TypeOK, Settled, Unfinished, Endings, CancelledBy

LEMMA RenewAndReapType ==
  ASSUME TypeOK, NEW e \in Engines, RenewAndReap(e)
  PROVE  /\ status' \in [Jobs -> {"absent"} \cup Unfinished \cup Endings]
         /\ lock' \in [Scenes -> Jobs \cup {NoJob}]
         /\ lease' \in [Engines -> {"none", "fresh", "stale"}]
         /\ outDir' \subseteq Jobs
  BY DEF TypeOK, RenewAndReap, Renewed, Orphans, Lapsed, Unfinished, Endings

LEMMA CancelLocalType ==
  ASSUME TypeOK, NEW js \in SUBSET Jobs, NEW by \in CancelledBy,
         NEW waits \in {"marked", "unawaited"}, CancelLocal(js, by, waits)
  PROVE  /\ token' \in [Jobs -> {"none"} \cup CancelledBy]
         /\ calls' \subseteq (Jobs \X CancelledBy \X {"marked", "unawaited", "won"})
  BY DEF TypeOK, CancelLocal

\* A client's request for a job of another engine, or one whose handler is
\* dropped, may leave the job's engine as it was.
LEMMA CancelIsLocal ==
  ASSUME NEW e \in Engines, NEW j \in Jobs, Cancel(e, j)
  PROVE  \/ \E waits \in {"marked", "unawaited"} :
              /\ CancelLocal({j} \cap Own(e), "client", waits)
              /\ waits = "unawaited" => j \in MayDrop
         \/ UNCHANGED cancelVars
  BY DEF Cancel

LEMMA CancelType ==
  ASSUME TypeOK, NEW e \in Engines, NEW j \in Jobs, Cancel(e, j)
  PROVE  /\ token' \in [Jobs -> {"none"} \cup CancelledBy]
         /\ calls' \subseteq (Jobs \X CancelledBy \X {"marked", "unawaited", "won"})
<1>1. CASE UNCHANGED cancelVars
  BY <1>1 DEF cancelVars, TypeOK
<1>2. ASSUME NEW waits \in {"marked", "unawaited"}, CancelLocal({j} \cap Own(e), "client", waits)
      PROVE  /\ token' \in [Jobs -> {"none"} \cup CancelledBy]
             /\ calls' \subseteq (Jobs \X CancelledBy \X {"marked", "unawaited", "won"})
  <2>1. {j} \cap Own(e) \in SUBSET Jobs /\ "client" \in CancelledBy
    BY DEF CancelledBy
  <2> QED
    BY <1>2, <2>1, CancelLocalType
<1> QED
  BY <1>1, <1>2, CancelIsLocal

LEMMA PublishType ==
  ASSUME TypeOK, NEW j \in Jobs, Publish(j)
  PROVE  told' \in [Jobs -> Nat]
  BY DEF TypeOK, Publish, ClaimPublication

LEMMA EngineStepType ==
  ASSUME TypeInv, NEW e \in Engines, EngineStep(e)
  PROVE  TypeInv'
<1> USE DEF TypeInv, TypeOK, Settled
<1>1. CASE Boot(e)
  <2>1. RenewAndReap(e)
    BY <1>1 DEF Boot
  <2> QED
    BY <1>1, <2>1, RenewAndReapType DEF Boot, waitVars, runVars, cancelVars
<1>2. CASE GoStale(e)
  BY <1>2 DEF GoStale, procVars, waitVars, runVars, cancelVars
<1>3. CASE Shutdown(e)
  <2>1. CancelLocal(Own(e), "shutdown", "marked") /\ Own(e) \in SUBSET Jobs /\ "shutdown" \in CancelledBy
    BY <1>3 DEF Shutdown, Own, CancelledBy
  <2> QED
    BY <1>3, <2>1, CancelLocalType DEF Shutdown, storeVars, waitVars, runVars
<1>4. CASE Leave(e)
  BY <1>4 DEF Leave, waitVars, runVars, cancelVars
<1>5. CASE Exit(e)
  BY <1>5 DEF Exit, Vanish, Own, storeVars, runVars
<1>6. CASE Crash(e)
  BY <1>6 DEF Crash, Vanish, Own, storeVars, runVars
<1>7. CASE Freeze(e)
  BY <1>7 DEF Freeze, storeVars, waitVars, runVars, cancelVars
<1>8. CASE Thaw(e)
  BY <1>8 DEF Thaw, storeVars, waitVars, runVars, cancelVars
<1>9. CASE Dispatch(e)
  <2>1. Head(queue[e]) \in Jobs /\ Tail(queue[e]) \in Seq(Jobs)
    BY <1>9 DEF Dispatch
  <2> QED
    BY <1>9, <2>1 DEF Dispatch, LeaveQueue, storeVars, procVars, cancelVars
<1>10. ASSUME NEW reap \in BOOLEAN, Upkeep(e, reap)
       PROVE  TypeInv'
  <2>1. CancelLocal(Asked(e), "client", "marked") /\ Asked(e) \in SUBSET Jobs /\ "client" \in CancelledBy
    BY <1>10 DEF Upkeep, Asked, Own, CancelledBy
  <2>2. /\ status' \in [Jobs -> {"absent"} \cup Unfinished \cup Endings]
        /\ lock' \in [Scenes -> Jobs \cup {NoJob}]
        /\ lease' \in [Engines -> {"none", "fresh", "stale"}]
        /\ outDir' \subseteq Jobs
    <3>1. CASE reap
      BY <1>10, <3>1, RenewAndReapType DEF Upkeep
    <3>2. CASE ~reap
      BY <1>10, <3>2 DEF Upkeep, Renewed
    <3> QED
      BY <3>1, <3>2
  <2> QED
    BY <1>10, <2>1, <2>2, CancelLocalType DEF Upkeep, waitVars, runVars
<1> QED
  BY <1>1, <1>2, <1>3, <1>4, <1>5, <1>6, <1>7, <1>8, <1>9, <1>10 DEF EngineStep

LEMMA SubmitStepType ==
  ASSUME TypeInv, NEW j \in Jobs, SubmitStep(j)
  PROVE  TypeInv'
<1> USE DEF TypeInv, TypeOK, Settled
<1>1. CASE Admit(j)
  BY <1>1 DEF Admit, storeVars, procVars, runVars, cancelVars
<1>2. CASE Insert(j)
  BY <1>2 DEF Insert, Inserting, procVars, runVars, cancelVars, Unfinished
<1>3. CASE InsertFails(j)
  BY <1>3 DEF InsertFails, LeaveQueue, storeVars, procVars, runVars, cancelVars
<1>4. CASE Enqueue(j)
  <2>1. Owner[j] \in Engines
    BY OwnerAssumption
  <2>2. Append(queue[Owner[j]], j) \in Seq(Jobs)
    BY <2>1
  <2>3. \/ UNCHANGED <<token, calls>>
        \/ \E waits \in {"marked", "unawaited"} :
             token' = [token EXCEPT ![j] = "shutdown"] /\ calls' = calls \cup {<<j, "shutdown", waits>>}
    BY <1>4 DEF Enqueue, cancelVars
  <2>4. /\ token' \in [Jobs -> {"none"} \cup CancelledBy]
        /\ calls' \subseteq (Jobs \X CancelledBy \X {"marked", "unawaited", "won"})
    BY <2>3 DEF CancelledBy
  <2>5. /\ sub' = [sub EXCEPT ![j] = "done"] /\ active' = active \cup {j}
        /\ queue' = [queue EXCEPT ![Owner[j]] = Append(queue[Owner[j]], j)]
        /\ UNCHANGED <<storeVars, outDir, procVars, slot, permit, told, runVars>>
    BY <1>4 DEF Enqueue
  <2> QED
    BY <2>1, <2>2, <2>4, <2>5 DEF storeVars, procVars, runVars
<1>5. CASE Abandon(j)
  BY <1>5 DEF Abandon, LeaveQueue, storeVars, procVars, runVars, cancelVars
<1> QED
  BY <1>1, <1>2, <1>3, <1>4, <1>5 DEF SubmitStep

LEMMA CancelStepType ==
  ASSUME TypeInv, NEW j \in Jobs, NEW by \in CancelledBy, CancelStep(j, by)
  PROVE  TypeInv'
<1> USE DEF TypeInv, TypeOK, Settled
<1>1. ASSUME NEW waits \in {"marked", "unawaited"}, CancelQueued(j, by, waits)
      PROVE  TypeInv'
  BY <1>1 DEF CancelQueued, Endings, procVars, waitVars, runVars
<1>2. CASE CancelWon(j, by)
  BY <1>2, PublishType DEF CancelWon, LeaveQueue, storeVars, procVars, runVars
<1>3. ASSUME NEW waits \in {"marked", "unawaited"}, CancelFails(j, by, waits)
      PROVE  TypeInv'
  BY <1>3 DEF CancelFails, storeVars, procVars, waitVars, runVars
<1> QED
  BY <1>1, <1>2, <1>3 DEF CancelStep

\* What a run's own step may do to its phase and outcome.
RunTyped ==
  /\ phase' \in [Jobs -> {"idle", "picked", "locking", "conversing",
                          "finishing", "releasing", "ended"}]
  /\ outcome' \in [Jobs -> {"none"} \cup (Endings \ {"engine_lost"})]
  /\ Settled'

LEMMA SettleType ==
  ASSUME TypeInv, NEW j \in Jobs, NEW ending \in Endings \ {"engine_lost"}, Settle(j, ending)
  PROVE  RunTyped
  BY DEF TypeInv, TypeOK, Settled, Settle, RunTyped, Endings, CancelledBy

LEMMA MoveType ==
  ASSUME TypeInv, NEW j \in Jobs, UNCHANGED outcome,
         NEW p \in {"locking", "conversing"}, phase' = [phase EXCEPT ![j] = p]
  PROVE  RunTyped
  BY DEF TypeInv, TypeOK, Settled, RunTyped

LEMMA RunStepType ==
  ASSUME TypeInv, NEW j \in Jobs, RunStep(j)
  PROVE  TypeInv'
<1> USE DEF TypeInv, TypeOK, Settled
<1>1. CASE StartRun(j)
  <2>1. status' \in [Jobs -> {"absent"} \cup Unfinished \cup Endings] /\ outDir' \subseteq Jobs
    BY <1>1 DEF StartRun, Unfinished
  <2>2. \/ /\ \E p \in {"locking", "conversing"} : phase' = [phase EXCEPT ![j] = p]
           /\ UNCHANGED outcome
        \/ \E ending \in {token[j], "failed"} : token[j] # "none" /\ Settle(j, ending)
        \/ Settle(j, "failed")
    BY <1>1 DEF StartRun
  <2>3. token[j] # "none" => token[j] \in Endings \ {"engine_lost"}
    BY DEF Endings, CancelledBy
  <2>4. RunTyped
    BY <2>2, <2>3, SettleType, MoveType DEF Endings
  <2> QED
    BY <1>1, <2>1, <2>4 DEF StartRun, RunTyped, procVars, waitVars, cancelVars
<1>2. CASE RefuseRun(j)
  BY <1>2, PublishType DEF RefuseRun, EndRun, storeVars, procVars, cancelVars
<1>3. CASE RunFails(j)
  BY <1>3 DEF RunFails, EndRun, storeVars, procVars, cancelVars
<1>4. CASE LockTry(j)
  <2>1. permit' \subseteq Jobs
    BY <1>4 DEF LockTry
  <2>2. lock' \in [Scenes -> Jobs \cup {NoJob}]
    <3>1. lock' = lock \/ lock' = [lock EXCEPT ![SceneOf[j]] = j]
      BY <1>4 DEF LockTry
    <3> QED
      BY <3>1
  <2>3. phase' = phase \/ phase' = [phase EXCEPT ![j] = "conversing"]
    BY <1>4 DEF LockTry
  <2>4. /\ UNCHANGED <<status, cancelReq, lease, outDir, mode, frozen, late, sub, queue, active>>
        /\ UNCHANGED <<slot, told, outcome, runtime, token, calls>>
    BY <1>4 DEF LockTry, procVars, cancelVars
  <2>5. RunTyped
    BY <2>3, <2>4, MoveType DEF RunTyped
  <2> QED
    BY <2>1, <2>2, <2>4, <2>5 DEF RunTyped
<1>5. CASE LockFails(j)
  <2>1. RunTyped
    BY <1>5, SettleType DEF LockFails, Endings
  <2> QED
    BY <1>5, <2>1 DEF LockFails, RunTyped, storeVars, procVars, waitVars, cancelVars
<1>6. CASE Deliver(j)
  BY <1>6 DEF Deliver, storeVars, procVars, waitVars, cancelVars
<1>7. CASE Converse(j)
  <2>1. RunTyped
    BY <1>7, SettleType DEF Converse, Endings
  <2> QED
    BY <1>7, <2>1 DEF Converse, RunTyped, storeVars, procVars, waitVars, cancelVars
<1>8. CASE Finish(j)
  <2>1. outcome[j] \in Endings
    BY <1>8 DEF Finish
  <2> QED
    BY <1>8, <2>1 DEF Finish, procVars, waitVars, cancelVars
<1>9. CASE Release(j)
  <2>1. lock' \in [Scenes -> Jobs \cup {NoJob}] /\ outDir' \subseteq Jobs
    BY <1>9 DEF Release, Unlocked
  <2> QED
    BY <1>9, <2>1, PublishType DEF Release, EndRun, procVars, cancelVars
<1> QED
  BY <1>1, <1>2, <1>3, <1>4, <1>5, <1>6, <1>7, <1>8, <1>9 DEF RunStep

LEMMA NextType ==
  ASSUME TypeInv, [Next]_vars
  PROVE  TypeInv'
<1> USE DEF TypeInv, TypeOK, Settled
<1>1. ASSUME NEW e \in Engines, NEW j \in Jobs, Cancel(e, j)
      PROVE  TypeInv'
  <2>2. /\ token' \in [Jobs -> {"none"} \cup CancelledBy]
        /\ calls' \subseteq (Jobs \X CancelledBy \X {"marked", "unawaited", "won"})
    BY <1>1, CancelType
  <2>3. /\ cancelReq' \subseteq Jobs
        /\ UNCHANGED <<status, lock, lease, outDir, procVars, waitVars, told, runVars>>
    BY <1>1 DEF Cancel
  <2> QED
    BY <2>2, <2>3 DEF procVars, waitVars, runVars
<1>2. ASSUME NEW j \in Jobs, Answer(j) \/ Orphaned(j)
      PROVE  TypeInv'
  BY <1>2 DEF Answer, Orphaned, storeVars, procVars, waitVars, cancelVars
<1>3. ASSUME NEW j \in Jobs, NEW ending \in CancelledBy \cup {"timeout"}, Abort(j, ending)
      PROVE  TypeInv'
  BY <1>3 DEF Abort, Settle, Endings, CancelledBy, storeVars, procVars, waitVars, cancelVars
<1>4. CASE UNCHANGED vars
  BY <1>4 DEF vars, storeVars, procVars, waitVars, runVars, cancelVars
<1> HIDE DEF TypeInv
<1> QED
  BY <1>1, <1>2, <1>3, <1>4, EngineStepType, SubmitStepType, RunStepType, CancelStepType DEF Next

(* Every step keeps the state well formed; in particular no run ends without
   an outcome to record (execute.rs, finish). *)
THEOREM TypeCorrect == Spec => []TypeOK
<1>1. Spec => []TypeInv
  BY InitTypeInv, NextType, PTL DEF Spec
<1> QED
  BY <1>1, PTL DEF TypeInv

-----------------------------------------------------------------------------
(* Scenes are rendered one at a time: whoever renders a scene for a row that
   says running holds its lock.  It is inductive because every way to lose the
   lock (the reaper, a departing engine, the release) ends or disowns the
   render in the same step, and try_lock_scene only takes a lock over from a
   job whose row has ended. *)

LockInv == \A j \in Jobs : LiveRender(j) => lock[SceneOf[j]] = j

LEMMA LockInvExclusive == LockInv => SceneExclusive
  BY DEF LockInv, SceneExclusive

\* A step that begins no live render and leaves the locks alone.
Calm == lock' = lock /\ \A j \in Jobs : LiveRender(j)' => LiveRender(j)

LEMMA CalmKeepsLocks == LockInv /\ Calm => LockInv'
  BY DEF LockInv, Calm

LEMMA SameRowsCalm == UNCHANGED <<status, phase, mode, lock>> => Calm
  BY DEF Calm, LiveRender

LEMMA ReapKeepsLocks ==
  ASSUME TypeOK, LockInv, NEW e \in Engines, RenewAndReap(e), phase' = phase,
         mode' = mode \/ (mode[e] = "off" /\ mode' = [mode EXCEPT ![e] = "up"])
  PROVE  LockInv'
<1> SUFFICES ASSUME NEW j \in Jobs, LiveRender(j)'
             PROVE  lock'[SceneOf[j]] = j
  BY DEF LockInv
<1>1. Owner[j] \in Engines /\ SceneOf[j] \in Scenes
  BY OwnerAssumption, SceneAssumption DEF LiveRender
<1>2. status[j] = "running" /\ j \notin Orphans(e)
  BY DEF LiveRender, RenewAndReap, TypeOK
<1>3. LiveRender(j)
  BY <1>1, <1>2 DEF LiveRender, TypeOK
<1>4. lock[SceneOf[j]] = j /\ ~ Lapsed(e, Owner[j])
  BY <1>2, <1>3 DEF LockInv, Orphans, Unfinished
<1> QED
  BY <1>1, <1>4 DEF RenewAndReap

LEMMA EngineKeepsLocks ==
  ASSUME TypeOK, LockInv, NEW e \in Engines, EngineStep(e)
  PROVE  LockInv'
<1>1. CASE Boot(e)
  BY <1>1, ReapKeepsLocks DEF Boot, runVars
<1>2. CASE \E reap \in BOOLEAN : Upkeep(e, reap)
  <2>1. PICK reap \in BOOLEAN : Upkeep(e, reap)
    BY <1>2
  <2>2. CASE reap
    BY <2>1, <2>2, ReapKeepsLocks DEF Upkeep, runVars
  <2>3. CASE ~ reap
    BY <2>1, <2>3, SameRowsCalm, CalmKeepsLocks DEF Upkeep, runVars
  <2> QED
    BY <2>2, <2>3
<1>3. CASE GoStale(e) \/ Freeze(e) \/ Thaw(e)
  <2>1. UNCHANGED <<status, phase, mode, lock>>
    BY <1>3 DEF GoStale, Freeze, Thaw, storeVars, procVars, runVars
  <2> QED
    BY <2>1, SameRowsCalm, CalmKeepsLocks
<1>4. CASE Shutdown(e) \/ Exit(e) \/ Crash(e)
  <2>1. /\ UNCHANGED <<status, phase, lock>>
        /\ \E m \in {"closing", "gone", "dead"} : mode' = [mode EXCEPT ![e] = m]
        /\ mode[e] \in {"up", "closing"} \/ mode' = [mode EXCEPT ![e] = "gone"]
    BY <1>4 DEF Shutdown, Exit, Crash, Vanish, storeVars, runVars
  <2>2. Calm
    BY <2>1, OwnerAssumption DEF Calm, LiveRender, TypeOK
  <2> QED
    BY <2>2, CalmKeepsLocks
<1>5. CASE Leave(e)
  <2> SUFFICES ASSUME NEW j \in Jobs, LiveRender(j)'
               PROVE  lock'[SceneOf[j]] = j
    BY DEF LockInv
  <2>1. Owner[j] \in Engines /\ SceneOf[j] \in Scenes
    BY OwnerAssumption, SceneAssumption DEF LiveRender
  <2>2. Owner[j] # e /\ LiveRender(j)
    BY <1>5, <2>1 DEF Leave, LiveRender, runVars, TypeOK
  <2> QED
    BY <1>5, <2>1, <2>2 DEF Leave, LockInv
<1>6. CASE Dispatch(e)
  <2>1. /\ UNCHANGED <<status, mode, lock>>
        /\ phase' = [phase EXCEPT ![Head(queue[e])] = "picked"]
    BY <1>6 DEF Dispatch, storeVars, procVars
  <2>2. Calm
    BY <2>1 DEF Calm, LiveRender, TypeOK
  <2> QED
    BY <2>2, CalmKeepsLocks
<1> QED
  BY <1>1, <1>2, <1>3, <1>4, <1>5, <1>6 DEF EngineStep

LEMMA RunKeepsLocks ==
  ASSUME TypeOK, LockInv, NEW j \in Jobs, RunStep(j)
  PROVE  LockInv'
<1>1. CASE StartRun(j)
  <2>1. /\ UNCHANGED <<mode, lock>>
        /\ status' = [status EXCEPT ![j] = "running"]
        /\ phase' = [phase EXCEPT ![j] = phase'[j]]
        /\ phase'[j] = "conversing" => SceneOf[j] = NoScene
    BY <1>1 DEF StartRun, Settle, procVars, TypeOK
  <2>2. Calm
    BY <2>1 DEF Calm, LiveRender, TypeOK
  <2> QED
    BY <2>2, CalmKeepsLocks
<1>2. CASE LockTry(j)
  <2>1. CASE ~ Takeable(SceneOf[j])
    BY <1>2, <2>1, SameRowsCalm, CalmKeepsLocks DEF LockTry, procVars
  <2>2. ASSUME Takeable(SceneOf[j]), NEW k \in Jobs, LiveRender(k)'
        PROVE  lock'[SceneOf[k]] = k
    <3>1. /\ UNCHANGED <<status, mode>>
          /\ phase' = [phase EXCEPT ![j] = "conversing"]
          /\ lock' = [lock EXCEPT ![SceneOf[j]] = j]
      BY <1>2, <2>2 DEF LockTry, procVars
    <3>2. SceneOf[k] \in Scenes
      BY <2>2, SceneAssumption DEF LiveRender
    <3>3. CASE k = j
      BY <3>1, <3>2, <3>3 DEF TypeOK
    <3>4. CASE k # j
      <4>1. LiveRender(k)
        BY <2>2, <3>1, <3>4 DEF LiveRender, TypeOK
      <4>2. lock[SceneOf[k]] = k /\ status[k] \notin Endings
        BY <4>1 DEF LockInv, LiveRender, Endings, CancelledBy
      <4>3. SceneOf[k] # SceneOf[j]
        BY <2>2, <4>2 DEF Takeable
      <4> QED
        BY <3>1, <3>2, <4>2, <4>3 DEF TypeOK
    <3> QED
      BY <3>3, <3>4
  <2> QED
    BY <2>1, <2>2 DEF LockInv
<1>3. CASE Release(j)
  <2>1. /\ UNCHANGED <<status, mode>>
        /\ phase' = [phase EXCEPT ![j] = "ended"]
        /\ lock' = Unlocked(j)
    BY <1>3 DEF Release, EndRun, procVars
  <2> SUFFICES ASSUME NEW k \in Jobs, LiveRender(k)'
               PROVE  lock'[SceneOf[k]] = k
    BY DEF LockInv
  <2>2. k # j /\ LiveRender(k)
    BY <2>1 DEF LiveRender, TypeOK
  <2>3. SceneOf[k] \in Scenes /\ lock[SceneOf[k]] = k
    BY <2>2, SceneAssumption DEF LiveRender, LockInv
  <2> QED
    BY <2>1, <2>2, <2>3 DEF Unlocked
<1>4. CASE RefuseRun(j) \/ RunFails(j) \/ LockFails(j) \/ Converse(j)
  <2>1. /\ UNCHANGED <<status, mode, lock>>
        /\ phase' \in {[phase EXCEPT ![j] = "ended"], [phase EXCEPT ![j] = "finishing"]}
    BY <1>4 DEF RefuseRun, RunFails, LockFails, Converse, EndRun, Settle, storeVars, procVars
  <2>2. Calm
    BY <2>1 DEF Calm, LiveRender, TypeOK
  <2> QED
    BY <2>2, CalmKeepsLocks
<1>5. CASE Deliver(j)
  BY <1>5, SameRowsCalm, CalmKeepsLocks DEF Deliver, storeVars, procVars
<1>6. CASE Finish(j)
  <2>1. /\ UNCHANGED <<mode, lock>>
        /\ status' = [status EXCEPT ![j] = outcome[j]] \/ status' = status
        /\ phase' = [phase EXCEPT ![j] = "releasing"]
    BY <1>6 DEF Finish, procVars
  <2>2. Calm
    BY <2>1 DEF Calm, LiveRender, TypeOK
  <2> QED
    BY <2>2, CalmKeepsLocks
<1> QED
  BY <1>1, <1>2, <1>3, <1>4, <1>5, <1>6 DEF RunStep

LEMMA NextKeepsLocks ==
  ASSUME TypeOK, LockInv, [Next]_vars
  PROVE  LockInv'
<1>1. ASSUME NEW j \in Jobs, SubmitStep(j)
      PROVE  LockInv'
  <2>1. /\ UNCHANGED <<mode, lock, phase>>
        /\ status' = status \/ status' = [status EXCEPT ![j] = "queued"]
    BY <1>1 DEF SubmitStep, Admit, Insert, InsertFails, Abandon, Enqueue, storeVars, procVars, runVars
  <2>2. Calm
    BY <2>1 DEF Calm, LiveRender, TypeOK
  <2> QED
    BY <2>2, CalmKeepsLocks
<1>2. ASSUME NEW j \in Jobs, NEW by \in CancelledBy, CancelStep(j, by)
      PROVE  LockInv'
  <2>1. /\ UNCHANGED <<mode, lock, phase>>
        /\ status' = status \/ status' = [status EXCEPT ![j] = by]
    BY <1>2 DEF CancelStep, CancelQueued, CancelWon, CancelFails, storeVars, procVars, runVars
  <2>2. Calm
    BY <2>1 DEF Calm, LiveRender, TypeOK, CancelledBy
  <2> QED
    BY <2>2, CalmKeepsLocks
<1>3. ASSUME NEW j \in Jobs, NEW ending \in CancelledBy \cup {"timeout"}, Abort(j, ending)
      PROVE  LockInv'
  <2>1. /\ UNCHANGED <<status, mode, lock>>
        /\ phase' = [phase EXCEPT ![j] = "finishing"]
    BY <1>3 DEF Abort, Settle, storeVars, procVars
  <2>2. Calm
    BY <2>1 DEF Calm, LiveRender, TypeOK
  <2> QED
    BY <2>2, CalmKeepsLocks
<1>4. ASSUME NEW e \in Engines, NEW j \in Jobs, Cancel(e, j)
      PROVE  LockInv'
  BY <1>4, SameRowsCalm, CalmKeepsLocks DEF Cancel, procVars, runVars
<1>5. ASSUME NEW j \in Jobs, Answer(j) \/ Orphaned(j)
      PROVE  LockInv'
  BY <1>5, SameRowsCalm, CalmKeepsLocks DEF Answer, Orphaned, storeVars, procVars
<1>6. CASE UNCHANGED vars
  BY <1>6, SameRowsCalm, CalmKeepsLocks DEF vars, storeVars, procVars, runVars
<1> QED
  BY <1>1, <1>2, <1>3, <1>4, <1>5, <1>6, EngineKeepsLocks, RunKeepsLocks DEF Next

(* Two renders of one scene whose rows say running are never both past
   lock_scene, however engines come, stop, crash or fail each other's jobs
   (execute.rs, lock_scene; locks.rs; leases.rs, reap). *)
THEOREM ScenesAreExclusive == Spec => []SceneExclusive
<1>1. Init => LockInv
  BY DEF Init, LockInv, LiveRender
<1>2. Spec => []LockInv
  BY <1>1, TypeCorrect, NextKeepsLocks, PTL DEF Spec
<1> QED
  BY <1>2, LockInvExclusive, PTL

-----------------------------------------------------------------------------
(* One ending per job, announced once: where a job is (its submission, the
   dispatch queue, its run) bounds what its row can say. *)

Ready == {"queued"} \cup Endings
Live  == {"running"} \cup Endings

\* A job's row before it is inserted, and until it is enqueued.
SubmitInv ==
  \A j \in Jobs :
    /\ sub[j] \in {"none", "admitted"} => status[j] = "absent"
    /\ sub[j] = "inserted" => status[j] \in Ready
    /\ sub[j] = "dropped" => status[j] \in {"absent"} \cup Ready
    /\ sub[j] # "done" => phase[j] = "idle"

\* A job waits at most once, in its own engine's queue, before its run.
QueueInv ==
  \A e \in Engines : \A i \in 1..Len(queue[e]) :
    /\ Owner[queue[e][i]] = e
    /\ sub[queue[e][i]] = "done"
    /\ phase[queue[e][i]] = "idle"
    /\ status[queue[e][i]] \in Ready
    /\ \A k \in 1..Len(queue[e]) : queue[e][i] = queue[e][k] => i = k

\* The row of a job on its way through its run.
RunInv ==
  \A j \in Jobs :
    /\ phase[j] = "picked" => status[j] \in Ready
    /\ phase[j] \in {"locking", "conversing", "finishing"} => status[j] \in Live
    /\ phase[j] = "releasing" => status[j] \in Endings

\* A cancellation that won has ended the row.
WonInv == \A j \in Jobs, by \in CancelledBy : <<j, by, "won">> \in calls => status[j] \in Endings

RowInv == SubmitInv /\ QueueInv /\ RunInv /\ WonInv /\ ToldOnce

LEMMA InitRows == Init => RowInv
  BY DEF Init, RowInv, SubmitInv, QueueInv, RunInv, WonInv, ToldOnce

\* A step in which rows at most end, and nothing moves on its way to a run.
Ends(j) == status'[j] = status[j] \/ (status[j] \in Unfinished /\ status'[j] \in Endings)

LEMMA EndingKeepsRows ==
  ASSUME TypeOK, RowInv, \A j \in Jobs : Ends(j), UNCHANGED <<sub, phase, told>>,
         queue' = queue \/ \E e \in Engines : queue' = [queue EXCEPT ![e] = <<>>],
         \A j \in Jobs, by \in CancelledBy :
           <<j, by, "won">> \in calls' => <<j, by, "won">> \in calls \/ status'[j] \in Endings
  PROVE  RowInv'
<1> USE DEF Ends, Unfinished, Ready, Live, Endings, CancelledBy
<1>1. SubmitInv'
  BY DEF RowInv, SubmitInv
<1>2. QueueInv'
  <2> SUFFICES ASSUME NEW e \in Engines, NEW i \in 1..Len(queue'[e])
               PROVE  /\ Owner[queue'[e][i]] = e
                      /\ sub[queue'[e][i]] = "done"
                      /\ phase[queue'[e][i]] = "idle"
                      /\ status'[queue'[e][i]] \in Ready
                      /\ \A k \in 1..Len(queue'[e]) :
                           queue'[e][i] = queue'[e][k] => i = k
    BY DEF QueueInv
  <2>1. queue'[e] = queue[e]
    BY DEF TypeOK
  <2>2. queue[e][i] \in Jobs
    BY <2>1 DEF TypeOK
  <2> QED
    BY <2>1, <2>2 DEF RowInv, QueueInv
<1>3. RunInv'
  BY DEF RowInv, RunInv
<1>4. WonInv'
  BY DEF RowInv, WonInv
<1>5. ToldOnce'
  BY DEF RowInv, ToldOnce
<1> QED
  BY <1>1, <1>2, <1>3, <1>4, <1>5 DEF RowInv

\* A step of j's run from one of its phases to a later one.
LEMMA RunStepKeepsRows ==
  ASSUME TypeOK, RowInv, NEW j \in Jobs, phase[j] # "idle", NEW p, NEW s,
         UNCHANGED <<sub, queue, calls>>,
         phase' = [phase EXCEPT ![j] = p],
         status' = [status EXCEPT ![j] = s],
         p \in {"locking", "conversing", "finishing", "releasing", "ended"},
         status[j] \in Endings => s = status[j],
         p \in {"locking", "conversing", "finishing"} => s \in Live,
         p = "releasing" => s \in Endings,
         told' = told \/ (Publish(j) /\ s \in Endings)
  PROVE  RowInv'
<1>1. SubmitInv'
  BY DEF RowInv, SubmitInv, TypeOK
<1>2. QueueInv'
  <2> SUFFICES ASSUME NEW e \in Engines, NEW i \in 1..Len(queue[e])
               PROVE  /\ phase'[queue[e][i]] = "idle"
                      /\ status'[queue[e][i]] \in Ready
    BY DEF RowInv, QueueInv
  <2>1. queue[e][i] \in Jobs /\ queue[e][i] # j
    BY DEF RowInv, QueueInv, TypeOK
  <2> QED
    BY <2>1 DEF RowInv, QueueInv, TypeOK
<1>3. RunInv'
  BY DEF RowInv, RunInv, TypeOK
<1>4. WonInv'
  BY DEF RowInv, WonInv, TypeOK
<1>5. ToldOnce'
  BY DEF RowInv, ToldOnce, Publish, ClaimPublication, TypeOK
<1> QED
  BY <1>1, <1>2, <1>3, <1>4, <1>5 DEF RowInv

LEMMA ReapEnds ==
  ASSUME TypeOK, NEW e \in Engines, RenewAndReap(e)
  PROVE  \A j \in Jobs : Ends(j)
  BY DEF RenewAndReap, Orphans, Ends, Endings, TypeOK

LEMMA EngineKeepsRows ==
  ASSUME TypeOK, RowInv, NEW e \in Engines, EngineStep(e)
  PROVE  RowInv'
<1>1. CASE Boot(e)
  BY <1>1, ReapEnds, EndingKeepsRows DEF Boot, waitVars, runVars, cancelVars
<1>2. CASE \E reap \in BOOLEAN : Upkeep(e, reap)
  <2>1. PICK reap \in BOOLEAN : Upkeep(e, reap)
    BY <1>2
  <2>2. \A j \in Jobs : Ends(j)
    BY <2>1, ReapEnds DEF Upkeep, Ends
  <2>3. \A j \in Jobs, by \in CancelledBy :
          <<j, by, "won">> \in calls' => <<j, by, "won">> \in calls
    BY <2>1 DEF Upkeep, CancelLocal
  <2> QED
    BY <2>1, <2>2, <2>3, EndingKeepsRows DEF Upkeep, waitVars, runVars
<1>3. CASE Shutdown(e)
  <2>1. \A j \in Jobs, by \in CancelledBy :
          <<j, by, "won">> \in calls' => <<j, by, "won">> \in calls
    BY <1>3 DEF Shutdown, CancelLocal
  <2> QED
    BY <1>3, <2>1, EndingKeepsRows DEF Shutdown, Ends, storeVars, waitVars, runVars
<1>4. CASE GoStale(e) \/ Leave(e) \/ Freeze(e) \/ Thaw(e)
  <2>1. UNCHANGED <<status, sub, queue, phase, told, calls>>
    BY <1>4 DEF GoStale, Leave, Freeze, Thaw, storeVars, waitVars, runVars, cancelVars
  <2> QED
    BY <2>1, EndingKeepsRows DEF Ends
<1>5. CASE Exit(e) \/ Crash(e)
  <2>1. /\ UNCHANGED <<status, sub, phase, told>>
        /\ queue' = [queue EXCEPT ![e] = <<>>]
        /\ calls' \subseteq calls
    BY <1>5 DEF Exit, Crash, Vanish, storeVars, runVars
  <2> QED
    BY <2>1, EndingKeepsRows DEF Ends
<1>6. CASE Dispatch(e)
  <2> DEFINE j == Head(queue[e])
  <2>1. /\ queue[e] # <<>> /\ queue' = [queue EXCEPT ![e] = Tail(@)]
        /\ phase' = [phase EXCEPT ![j] = "picked"]
        /\ UNCHANGED <<status, sub, told, calls>>
    BY <1>6 DEF Dispatch, storeVars, cancelVars
  <2>2. queue[e] \in Seq(Jobs) /\ Len(queue[e]) \in Nat \ {0}
    BY <2>1 DEF TypeOK
  <2>3. j \in Jobs /\ j = queue[e][1]
    BY <2>1, <2>2
  <2>4. Owner[j] = e /\ sub[j] = "done" /\ status[j] \in Ready
    BY <2>2, <2>3 DEF RowInv, QueueInv
  <2>5. SubmitInv'
    BY <2>1, <2>3, <2>4 DEF RowInv, SubmitInv, TypeOK
  <2>6. QueueInv'
    <3>0. UNCHANGED <<sub, status>>
      BY <2>1
    <3> SUFFICES ASSUME NEW f \in Engines, NEW i \in 1..Len(queue'[f])
                 PROVE  /\ Owner[queue'[f][i]] = f
                        /\ sub[queue'[f][i]] = "done"
                        /\ phase'[queue'[f][i]] = "idle"
                        /\ status[queue'[f][i]] \in Ready
                        /\ \A k \in 1..Len(queue'[f]) :
                             queue'[f][i] = queue'[f][k] => i = k
      BY <3>0 DEF QueueInv
    <3>1. CASE f = e
      <4>1. queue'[e] = Tail(queue[e])
        BY <2>1 DEF TypeOK
      <4>2. /\ Len(queue'[e]) = Len(queue[e]) - 1
            /\ \A k \in 1..Len(queue'[e]) : queue'[e][k] = queue[e][k+1]
        BY <2>2, <4>1
      <4>3. \A k \in 1..Len(queue'[e]) :
              k+1 \in 1..Len(queue[e]) /\ queue[e][k+1] \in Jobs /\ queue[e][k+1] # j
        <5> SUFFICES ASSUME NEW k \in 1..Len(queue'[e])
                     PROVE  k+1 \in 1..Len(queue[e]) /\ queue[e][k+1] \in Jobs /\ queue[e][k+1] # j
          OBVIOUS
        <5>1. k+1 \in 1..Len(queue[e]) /\ 1 \in 1..Len(queue[e]) /\ k+1 # 1
          BY <2>2, <4>2
        <5> QED
          BY <2>2, <2>3, <5>1 DEF RowInv, QueueInv
      <4>4. /\ queue'[e][i] = queue[e][i+1] /\ i+1 \in 1..Len(queue[e])
            /\ phase'[queue[e][i+1]] = phase[queue[e][i+1]]
        BY <2>1, <3>1, <4>2, <4>3 DEF TypeOK
      <4>5. /\ Owner[queue[e][i+1]] = e
            /\ sub[queue[e][i+1]] = "done"
            /\ phase[queue[e][i+1]] = "idle"
            /\ status[queue[e][i+1]] \in Ready
            /\ \A k \in 1..Len(queue[e]) : queue[e][i+1] = queue[e][k] => i+1 = k
        BY <4>4 DEF RowInv, QueueInv
      <4>6. ASSUME NEW k \in 1..Len(queue'[e]), queue'[e][i] = queue'[e][k]
            PROVE  i = k
        <5>1. k+1 \in 1..Len(queue[e]) /\ queue'[e][k] = queue[e][k+1]
          BY <4>2, <4>3
        <5> QED
          BY <4>4, <4>5, <4>6, <5>1
      <4> QED
        BY <3>1, <4>4, <4>5, <4>6
    <3>2. CASE f # e
      <4>1. queue'[f] = queue[f] /\ queue[f][i] \in Jobs
        BY <2>1, <3>2 DEF TypeOK
      <4>2. queue[f][i] # j
        BY <2>4, <3>2, <4>1 DEF RowInv, QueueInv
      <4> QED
        BY <2>1, <4>1, <4>2 DEF RowInv, QueueInv, TypeOK
    <3> QED
      BY <3>1, <3>2
  <2>7. RunInv'
    BY <2>1, <2>3, <2>4 DEF RowInv, RunInv, TypeOK
  <2>8. WonInv' /\ ToldOnce'
    BY <2>1 DEF RowInv, WonInv, ToldOnce
  <2> QED
    BY <2>5, <2>6, <2>7, <2>8 DEF RowInv
<1> QED
  BY <1>1, <1>2, <1>3, <1>4, <1>5, <1>6 DEF EngineStep

LEMMA SubmitKeepsRows ==
  ASSUME TypeOK, RowInv, NEW j \in Jobs, SubmitStep(j)
  PROVE  RowInv'
<1>1. CASE Admit(j) \/ InsertFails(j) \/ Abandon(j)
  <2>1. /\ UNCHANGED <<status, queue, phase, told, calls>>
        /\ \/ sub[j] = "none" /\ sub' = [sub EXCEPT ![j] = "admitted"]
           \/ sub[j] \in {"admitted", "dropped"} /\ sub' = [sub EXCEPT ![j] = "done"]
           \/ sub[j] \in {"admitted", "inserted"} /\ sub' = [sub EXCEPT ![j] = "dropped"]
    BY <1>1 DEF Admit, InsertFails, Inserting, Abandon, storeVars, runVars, cancelVars
  <2>2. SubmitInv'
    BY <2>1 DEF RowInv, SubmitInv, TypeOK
  <2>3. QueueInv'
    <3>1. \A e \in Engines : \A i \in 1..Len(queue[e]) :
            queue[e][i] \in Jobs /\ queue[e][i] # j
      BY <2>1 DEF RowInv, QueueInv, TypeOK
    <3> QED
      BY <2>1, <3>1 DEF RowInv, QueueInv, TypeOK
  <2> QED
    BY <2>1, <2>2, <2>3 DEF RowInv, RunInv, WonInv, ToldOnce
<1>2. CASE Insert(j)
  <2>1. /\ UNCHANGED <<queue, phase, told, calls>>
        /\ sub[j] \in {"admitted", "dropped"} /\ (sub[j] = "dropped" => status[j] = "absent")
        /\ sub' = [sub EXCEPT ![j] = IF sub[j] = "admitted" THEN "inserted" ELSE sub[j]]
        /\ status' = [status EXCEPT ![j] = "queued"]
    BY <1>2 DEF Insert, Inserting, runVars, cancelVars
  <2>2. status[j] = "absent" /\ phase[j] = "idle"
    BY <2>1 DEF RowInv, SubmitInv
  <2>3. SubmitInv'
    BY <2>1, <2>2 DEF RowInv, SubmitInv, TypeOK, Ready
  <2>4. QueueInv'
    <3>1. \A e \in Engines : \A i \in 1..Len(queue[e]) :
            queue[e][i] \in Jobs /\ queue[e][i] # j
      BY <2>1 DEF RowInv, QueueInv, TypeOK
    <3> QED
      BY <2>1, <3>1 DEF RowInv, QueueInv, TypeOK
  <2>5. RunInv' /\ WonInv' /\ ToldOnce'
    BY <2>1, <2>2 DEF RowInv, RunInv, WonInv, ToldOnce, TypeOK, Endings, CancelledBy
  <2> QED
    BY <2>3, <2>4, <2>5 DEF RowInv
<1>3. CASE Enqueue(j)
  <2>1. /\ UNCHANGED <<status, phase, told>>
        /\ sub[j] = "inserted" /\ sub' = [sub EXCEPT ![j] = "done"]
        /\ queue' = [queue EXCEPT ![Owner[j]] = Append(@, j)]
        /\ \/ calls' = calls
           \/ \E waits \in {"marked", "unawaited"} : calls' = calls \cup {<<j, "shutdown", waits>>}
    BY <1>3 DEF Enqueue, storeVars, runVars, cancelVars
  <2>2. status[j] \in Ready /\ phase[j] = "idle" /\ Owner[j] \in Engines
    BY <2>1, OwnerAssumption DEF RowInv, SubmitInv
  <2>3. SubmitInv'
    BY <2>1 DEF RowInv, SubmitInv, TypeOK
  <2>4. QueueInv'
    <3>1. \A e \in Engines : \A i \in 1..Len(queue[e]) :
            queue[e][i] \in Jobs /\ queue[e][i] # j
      BY <2>1 DEF RowInv, QueueInv, TypeOK
    <3> SUFFICES ASSUME NEW e \in Engines, NEW i \in 1..Len(queue'[e])
                 PROVE  /\ Owner[queue'[e][i]] = e
                        /\ sub'[queue'[e][i]] = "done"
                        /\ phase[queue'[e][i]] = "idle"
                        /\ status[queue'[e][i]] \in Ready
                        /\ \A k \in 1..Len(queue'[e]) :
                             queue'[e][i] = queue'[e][k] => i = k
      BY <2>1 DEF QueueInv
    <3>2. CASE e = Owner[j]
      <4>1. queue[e] \in Seq(Jobs) /\ queue'[e] = Append(queue[e], j)
        BY <2>1, <3>2 DEF TypeOK
      <4>2. /\ Len(queue'[e]) = Len(queue[e]) + 1
            /\ queue'[e][Len(queue[e]) + 1] = j
            /\ \A k \in 1..Len(queue[e]) : queue'[e][k] = queue[e][k]
        BY <4>1
      <4>3. CASE i \in 1..Len(queue[e])
        <5>1. queue[e][i] \in Jobs /\ queue[e][i] # j /\ queue'[e][i] = queue[e][i]
          BY <3>1, <4>2, <4>3
        <5>2. /\ Owner[queue[e][i]] = e
              /\ sub[queue[e][i]] = "done"
              /\ phase[queue[e][i]] = "idle"
              /\ status[queue[e][i]] \in Ready
              /\ \A k \in 1..Len(queue[e]) : queue[e][i] = queue[e][k] => i = k
          BY <4>3 DEF RowInv, QueueInv
        <5>3. ASSUME NEW k \in 1..Len(queue'[e]), queue'[e][i] = queue'[e][k]
              PROVE  i = k
          <6>1. k \in 1..Len(queue[e]) \/ k = Len(queue[e]) + 1
            BY <4>1, <4>2
          <6> QED
            BY <4>2, <5>1, <5>2, <5>3, <6>1
        <5>4. sub'[queue[e][i]] = sub[queue[e][i]]
          BY <2>1, <5>1 DEF TypeOK
        <5> QED
          BY <5>1, <5>2, <5>3, <5>4
      <4>4. CASE i = Len(queue[e]) + 1
        <5>1. ASSUME NEW k \in 1..Len(queue'[e]), queue'[e][i] = queue'[e][k]
              PROVE  i = k
          <6>1. k \in 1..Len(queue[e]) \/ k = Len(queue[e]) + 1
            BY <4>1, <4>2
          <6>2. CASE k \in 1..Len(queue[e])
            BY <3>1, <4>2, <4>4, <5>1, <6>2
          <6> QED
            BY <4>4, <6>1, <6>2
        <5>2. queue'[e][i] = j /\ sub'[j] = "done"
          BY <2>1, <4>2, <4>4 DEF TypeOK
        <5> QED
          BY <2>2, <3>2, <5>1, <5>2
      <4>5. i \in 1..Len(queue[e]) \/ i = Len(queue[e]) + 1
        BY <4>1, <4>2
      <4> QED
        BY <4>3, <4>4, <4>5
    <3>3. CASE e # Owner[j]
      <4>1. queue'[e] = queue[e]
        BY <2>1, <3>3 DEF TypeOK
      <4>2. sub'[queue[e][i]] = sub[queue[e][i]]
        BY <2>1, <3>1, <4>1 DEF TypeOK
      <4> QED
        BY <4>1, <4>2 DEF RowInv, QueueInv
    <3> QED
      BY <3>2, <3>3
  <2>5. RunInv' /\ WonInv' /\ ToldOnce'
    BY <2>1 DEF RowInv, RunInv, WonInv, ToldOnce
  <2> QED
    BY <2>3, <2>4, <2>5 DEF RowInv
<1> QED
  BY <1>1, <1>2, <1>3 DEF SubmitStep

LEMMA RunKeepsRows ==
  ASSUME TypeInv, RowInv, NEW j \in Jobs, RunStep(j)
  PROVE  RowInv'
<1>1. CASE StartRun(j)
  <2>1. PICK p \in {"locking", "conversing", "finishing"} : phase' = [phase EXCEPT ![j] = p]
    BY <1>1 DEF StartRun, Settle
  <2>2. /\ phase[j] = "picked" /\ status[j] \notin Endings
        /\ status' = [status EXCEPT ![j] = "running"]
        /\ UNCHANGED <<sub, queue, told, calls>>
    BY <1>1 DEF StartRun, Endings, CancelledBy, waitVars, cancelVars
  <2> QED
    BY <2>1, <2>2, RunStepKeepsRows DEF TypeInv, Live
<1>2. CASE RefuseRun(j)
  <2>1. /\ phase[j] = "picked" /\ status[j] # "queued" /\ Publish(j)
        /\ phase' = [phase EXCEPT ![j] = "ended"]
        /\ UNCHANGED <<status, sub, queue, calls>>
    BY <1>2 DEF RefuseRun, EndRun, storeVars, cancelVars
  <2>2. status[j] \in Endings
    BY <2>1 DEF RowInv, RunInv, Ready
  <2>3. status' = [status EXCEPT ![j] = status[j]]
    BY <2>1 DEF TypeInv, TypeOK
  <2> QED
    BY <2>1, <2>2, <2>3, RunStepKeepsRows DEF TypeInv
<1>3. CASE RunFails(j)
  <2>1. /\ phase[j] \in {"picked", "finishing"}
        /\ phase' = [phase EXCEPT ![j] = "ended"]
        /\ UNCHANGED <<status, sub, queue, told, calls>>
    BY <1>3 DEF RunFails, EndRun, storeVars, cancelVars
  <2>2. status' = [status EXCEPT ![j] = status[j]]
    BY <2>1 DEF TypeInv, TypeOK
  <2> QED
    BY <2>1, <2>2, RunStepKeepsRows DEF TypeInv
<1>4. CASE LockTry(j) \/ LockFails(j) \/ Converse(j)
  <2>1. PICK p \in {phase[j], "conversing", "finishing"} : phase' = [phase EXCEPT ![j] = p]
    BY <1>4 DEF LockTry, LockFails, Converse, Settle, TypeInv, TypeOK
  <2>2. /\ phase[j] \in {"locking", "conversing"}
        /\ UNCHANGED <<status, sub, queue, told, calls>>
    BY <1>4 DEF LockTry, LockFails, Converse, storeVars, waitVars, cancelVars
  <2>3. status' = [status EXCEPT ![j] = status[j]] /\ status[j] \in Live
    BY <2>2 DEF RowInv, RunInv, TypeInv, TypeOK
  <2> QED
    BY <2>1, <2>2, <2>3, RunStepKeepsRows DEF TypeInv
<1>5. CASE Deliver(j)
  <2>1. UNCHANGED <<status, sub, queue, phase, told, calls>>
    BY <1>5 DEF Deliver, storeVars, waitVars, cancelVars
  <2> QED
    BY <2>1, EndingKeepsRows DEF Ends, TypeInv
<1>6. CASE Finish(j)
  <2>1. /\ phase[j] = "finishing" /\ phase' = [phase EXCEPT ![j] = "releasing"]
        /\ status' = IF MayFinish(j) THEN [status EXCEPT ![j] = outcome[j]] ELSE status
        /\ UNCHANGED <<sub, queue, told, calls>>
    BY <1>6 DEF Finish, waitVars, cancelVars
  <2>2. status[j] \in Live /\ outcome[j] \in Endings
    BY <2>1 DEF RowInv, RunInv, TypeInv, TypeOK, Settled
  <2>3. CASE MayFinish(j)
    <3>1. status[j] \notin Endings
      BY <2>3 DEF MayFinish, Unfinished, Endings, CancelledBy
    <3> QED
      BY <2>1, <2>2, <2>3, <3>1, RunStepKeepsRows DEF TypeInv
  <2>4. CASE ~ MayFinish(j)
    <3>1. status[j] \in Endings /\ status' = [status EXCEPT ![j] = status[j]]
      BY <2>1, <2>2, <2>4 DEF MayFinish, Live, Unfinished, TypeInv, TypeOK
    <3> QED
      BY <2>1, <3>1, RunStepKeepsRows DEF TypeInv
  <2> QED
    BY <2>3, <2>4
<1>7. CASE Release(j)
  <2>1. /\ phase[j] = "releasing" /\ phase' = [phase EXCEPT ![j] = "ended"] /\ Publish(j)
        /\ UNCHANGED <<status, sub, queue, calls>>
    BY <1>7 DEF Release, EndRun, cancelVars
  <2>2. status[j] \in Endings /\ status' = [status EXCEPT ![j] = status[j]]
    BY <2>1 DEF RowInv, RunInv, TypeInv, TypeOK
  <2> QED
    BY <2>1, <2>2, RunStepKeepsRows DEF TypeInv
<1> QED
  BY <1>1, <1>2, <1>3, <1>4, <1>5, <1>6, <1>7 DEF RunStep

LEMMA CancelKeepsRows ==
  ASSUME TypeOK, RowInv, NEW j \in Jobs, NEW by \in CancelledBy, CancelStep(j, by)
  PROVE  RowInv'
<1>1. ASSUME NEW waits \in {"marked", "unawaited"}, CancelQueued(j, by, waits)
      PROVE  RowInv'
  <2>1. /\ UNCHANGED <<sub, queue, phase, told>>
        /\ \/ /\ status[j] = "queued"
              /\ status' = [status EXCEPT ![j] = by]
              /\ calls' \subseteq calls \cup {<<j, by, "won">>}
           \/ status' = status /\ calls' \subseteq calls
    BY <1>1 DEF CancelQueued, waitVars, runVars
  <2>2. /\ \A k \in Jobs : Ends(k)
        /\ \A k \in Jobs, b \in CancelledBy :
             <<k, b, "won">> \in calls' => <<k, b, "won">> \in calls \/ status'[k] \in Endings
    BY <2>1 DEF Ends, Unfinished, Endings, TypeOK
  <2> QED
    BY <2>1, <2>2, EndingKeepsRows
<1>2. CASE CancelWon(j, by)
  <2>1. /\ UNCHANGED <<status, sub, queue, phase>>
        /\ calls' \subseteq calls /\ Publish(j) /\ status[j] \in Endings
    BY <1>2 DEF CancelWon, storeVars, runVars, RowInv, WonInv
  <2>2. ToldOnce'
    BY <2>1 DEF RowInv, ToldOnce, Publish, ClaimPublication, TypeOK
  <2> QED
    BY <2>1, <2>2 DEF RowInv, SubmitInv, QueueInv, RunInv, WonInv
<1>3. ASSUME NEW waits \in {"marked", "unawaited"}, CancelFails(j, by, waits)
      PROVE  RowInv'
  <2>1. UNCHANGED <<status, sub, queue, phase, told>> /\ calls' \subseteq calls
    BY <1>3 DEF CancelFails, storeVars, waitVars, runVars
  <2> QED
    BY <2>1, EndingKeepsRows DEF Ends
<1> QED
  BY <1>1, <1>2, <1>3 DEF CancelStep

LEMMA NextKeepsRows ==
  ASSUME TypeInv, RowInv, [Next]_vars
  PROVE  RowInv'
<1>1. ASSUME NEW e \in Engines, NEW j \in Jobs, Cancel(e, j)
      PROVE  RowInv'
  <2>1. /\ UNCHANGED <<status, sub, queue, phase, told>>
        /\ \A k \in Jobs, by \in CancelledBy :
             <<k, by, "won">> \in calls' => <<k, by, "won">> \in calls
    BY <1>1, CancelIsLocal DEF Cancel, CancelLocal, waitVars, runVars, cancelVars
  <2> QED
    BY <2>1, EndingKeepsRows DEF Ends, TypeInv
<1>2. ASSUME NEW j \in Jobs, Answer(j) \/ Orphaned(j)
      PROVE  RowInv'
  <2>1. UNCHANGED <<status, sub, queue, phase, told, calls>>
    BY <1>2 DEF Answer, Orphaned, storeVars, waitVars, cancelVars
  <2> QED
    BY <2>1, EndingKeepsRows DEF Ends, TypeInv
<1>3. ASSUME NEW j \in Jobs, NEW ending \in CancelledBy \cup {"timeout"}, Abort(j, ending)
      PROVE  RowInv'
  <2>1. /\ phase[j] \in {"locking", "conversing"}
        /\ phase' = [phase EXCEPT ![j] = "finishing"]
        /\ UNCHANGED <<status, sub, queue, told, calls>>
    BY <1>3 DEF Abort, Settle, storeVars, waitVars, cancelVars
  <2>2. status[j] \in Live /\ status' = [status EXCEPT ![j] = status[j]]
    BY <2>1 DEF RowInv, RunInv, TypeInv, TypeOK
  <2> QED
    BY <2>1, <2>2, RunStepKeepsRows DEF TypeInv
<1>4. CASE UNCHANGED vars
  <2>1. UNCHANGED <<status, sub, queue, phase, told, calls>>
    BY <1>4 DEF vars, storeVars, waitVars, runVars, cancelVars
  <2> QED
    BY <2>1, EndingKeepsRows DEF Ends, TypeInv
<1> QED
  BY <1>1, <1>2, <1>3, <1>4, EngineKeepsRows, SubmitKeepsRows, RunKeepsRows, CancelKeepsRows
  DEF Next, TypeInv

(* Where a job is bounds what its row says, in every reachable state: the
   invariant the next two results rest on (jobs.rs; execute.rs, run). *)
THEOREM RowsInvariant == Spec => [](TypeInv /\ RowInv)
<1>1. Init => TypeInv /\ RowInv
  BY InitTypeInv, InitRows
<1>2. TypeInv /\ RowInv /\ [Next]_vars => (TypeInv /\ RowInv)'
  BY NextType, NextKeepsRows
<1> QED
  BY <1>1, <1>2, PTL DEF Spec

(* An engine announces the end of a job at most once, and only after it is
   recorded, whatever run, cancellation or reaper ended it (mod.rs, publish;
   active.rs, claim_publication). *)
THEOREM AnnouncedOnce == Spec => []ToldOnce
<1>1. TypeInv /\ RowInv => ToldOnce
  BY DEF RowInv
<1> QED
  BY <1>1, RowsInvariant, PTL

-----------------------------------------------------------------------------
(* Every step of the engines is a step of the life cycle of one job, the loss
   of the jobs of vanished engines, or none of the life cycle's business. *)

LEMMA ReapIsLoss ==
  ASSUME NEW e \in Engines, RenewAndReap(e), told' = told
  PROVE  Lifecycle!Next
<1>1. Orphans(e) \in SUBSET Jobs
  BY DEF Orphans
<1>2. Lifecycle!Lose(Orphans(e))
  BY DEF RenewAndReap, Orphans, Unfinished, Lifecycle!Lose, Lifecycle!Unfinished
<1> QED
  BY <1>1, <1>2 DEF Lifecycle!Next

LEMMA PublishIsTell ==
  ASSUME TypeOK, ToldOnce, NEW j \in Jobs, status[j] \in Endings, Publish(j), status' = status
  PROVE  Lifecycle!Next \/ UNCHANGED <<status, told>>
<1>1. CASE told[j] = 0
  <2>1. Lifecycle!Tell(j)
    BY <1>1 DEF Publish, ClaimPublication, TypeOK, Endings, CancelledBy,
       Lifecycle!Tell, Lifecycle!Endings, Lifecycle!CancelledBy
  <2> QED
    BY <2>1 DEF Lifecycle!Next
<1>2. CASE told[j] # 0
  BY <1>2 DEF Publish, ClaimPublication, TypeOK
<1> QED
  BY <1>1, <1>2

LEMMA EngineFollowsLifecycle ==
  ASSUME NEW e \in Engines, EngineStep(e)
  PROVE  Lifecycle!Next \/ UNCHANGED <<status, told>>
<1>1. CASE Boot(e)
  BY <1>1, ReapIsLoss DEF Boot
<1>2. CASE \E reap \in BOOLEAN : Upkeep(e, reap)
  <2>1. PICK reap \in BOOLEAN : Upkeep(e, reap)
    BY <1>2
  <2>2. CASE reap
    BY <2>1, <2>2, ReapIsLoss DEF Upkeep
  <2>3. CASE ~ reap
    BY <2>1, <2>3 DEF Upkeep
  <2> QED
    BY <2>2, <2>3
<1>3. CASE \/ GoStale(e) \/ Shutdown(e) \/ Leave(e) \/ Exit(e)
           \/ Crash(e) \/ Freeze(e) \/ Thaw(e) \/ Dispatch(e)
  BY <1>3 DEF GoStale, Shutdown, Leave, Exit, Crash, Vanish, Freeze, Thaw, Dispatch, storeVars
<1> QED
  BY <1>1, <1>2, <1>3 DEF EngineStep

LEMMA RunFollowsLifecycle ==
  ASSUME TypeInv, RowInv, NEW j \in Jobs, RunStep(j)
  PROVE  Lifecycle!Next \/ UNCHANGED <<status, told>>
<1>1. CASE StartRun(j)
  <2>1. Lifecycle!Start(j)
    BY <1>1 DEF StartRun, Lifecycle!Start
  <2> QED
    BY <2>1 DEF Lifecycle!Next
<1>2. CASE RefuseRun(j)
  <2>1. Publish(j) /\ status' = status /\ status[j] \in Endings
    BY <1>2 DEF RefuseRun, storeVars, RowInv, RunInv, Ready
  <2> QED
    BY <2>1, PublishIsTell DEF TypeInv, RowInv
<1>3. CASE Finish(j)
  <2>1. status[j] \in Live /\ outcome[j] \in Endings \ {"engine_lost"}
    BY <1>3 DEF Finish, RowInv, RunInv, TypeInv, TypeOK, Settled
  <2>2. CASE MayFinish(j)
    <3>1. status[j] = "running"
      BY <2>1, <2>2 DEF MayFinish, Live, Unfinished, Endings, CancelledBy
    <3>2. Lifecycle!End(j, outcome[j]) /\ outcome[j] \in Lifecycle!Endings
      BY <1>3, <2>1, <2>2, <3>1
      DEF Finish, Endings, CancelledBy, Lifecycle!End, Lifecycle!Endings, Lifecycle!CancelledBy
    <3> QED
      BY <3>2 DEF Lifecycle!Next
  <2>3. CASE ~ MayFinish(j)
    BY <1>3, <2>3 DEF Finish
  <2> QED
    BY <2>2, <2>3
<1>4. CASE Release(j)
  <2>1. Publish(j) /\ status' = status /\ status[j] \in Endings
    BY <1>4 DEF Release, RowInv, RunInv
  <2> QED
    BY <2>1, PublishIsTell DEF TypeInv, RowInv
<1>5. CASE RunFails(j) \/ LockTry(j) \/ LockFails(j) \/ Deliver(j) \/ Converse(j)
  BY <1>5 DEF RunFails, LockTry, LockFails, Deliver, Converse, storeVars
<1> QED
  BY <1>1, <1>2, <1>3, <1>4, <1>5 DEF RunStep

LEMMA StepFollowsLifecycle ==
  ASSUME TypeInv, RowInv, [Next]_vars
  PROVE  Lifecycle!Next \/ UNCHANGED <<status, told>>
<1>1. ASSUME NEW j \in Jobs, SubmitStep(j)
      PROVE  Lifecycle!Next \/ UNCHANGED <<status, told>>
  <2>1. CASE Insert(j)
    <3>1. Lifecycle!Submit(j)
      BY <2>1 DEF Insert, Inserting, RowInv, SubmitInv, Lifecycle!Submit
    <3> QED
      BY <3>1 DEF Lifecycle!Next
  <2>2. CASE Admit(j) \/ InsertFails(j) \/ Abandon(j) \/ Enqueue(j)
    BY <2>2 DEF Admit, InsertFails, Abandon, Enqueue, storeVars
  <2> QED
    BY <1>1, <2>1, <2>2 DEF SubmitStep
<1>2. ASSUME NEW j \in Jobs, NEW by \in CancelledBy, CancelStep(j, by)
      PROVE  Lifecycle!Next \/ UNCHANGED <<status, told>>
  <2>1. ASSUME NEW waits \in {"marked", "unawaited"}, CancelQueued(j, by, waits)
        PROVE  Lifecycle!Next \/ UNCHANGED <<status, told>>
    <3>1. CASE status[j] = "queued"
      <4>1. Lifecycle!End(j, by) /\ by \in Lifecycle!Endings
        BY <2>1, <3>1
        DEF CancelQueued, CancelledBy, Lifecycle!End, Lifecycle!Endings, Lifecycle!CancelledBy
      <4> QED
        BY <4>1 DEF Lifecycle!Next
    <3>2. CASE status[j] # "queued"
      BY <2>1, <3>2 DEF CancelQueued
    <3> QED
      BY <3>1, <3>2
  <2>2. CASE CancelWon(j, by)
    <3>1. Publish(j) /\ status' = status /\ status[j] \in Endings
      BY <2>2 DEF CancelWon, storeVars, RowInv, WonInv
    <3> QED
      BY <3>1, PublishIsTell DEF TypeInv, RowInv
  <2>3. ASSUME NEW waits \in {"marked", "unawaited"}, CancelFails(j, by, waits)
        PROVE  UNCHANGED <<status, told>>
    BY <2>3 DEF CancelFails, storeVars
  <2> QED
    BY <1>2, <2>1, <2>2, <2>3 DEF CancelStep
<1>3. ASSUME NEW j \in Jobs, Answer(j) \/ Orphaned(j)
      PROVE  UNCHANGED <<status, told>>
  BY <1>3 DEF Answer, Orphaned, storeVars
<1>4. ASSUME NEW j \in Jobs, NEW ending \in CancelledBy \cup {"timeout"}, Abort(j, ending)
      PROVE  UNCHANGED <<status, told>>
  BY <1>4 DEF Abort, storeVars
<1>5. ASSUME NEW e \in Engines, NEW j \in Jobs, Cancel(e, j)
      PROVE  UNCHANGED <<status, told>>
  BY <1>5 DEF Cancel
<1>6. CASE UNCHANGED vars
  BY <1>6 DEF vars, storeVars
<1> QED
  BY <1>1, <1>2, <1>3, <1>4, <1>5, <1>6, EngineFollowsLifecycle, RunFollowsLifecycle DEF Next

(* The engines implement the life cycle of a job: a row is queued, may run,
   ends once, and its end is announced at most once (jobs.rs; leases.rs, reap;
   mod.rs, publish). *)
THEOREM ImplementsLifecycle == Spec => RefinesLifecycle
<1>1. Init => Lifecycle!Init
  BY DEF Init, Lifecycle!Init
<1>2. TypeInv /\ RowInv /\ [Next]_vars => [Lifecycle!Next]_(Lifecycle!vars)
  BY StepFollowsLifecycle DEF Lifecycle!vars
<1> QED
  BY <1>1, <1>2, RowsInvariant, PTL DEF Spec, RefinesLifecycle, Lifecycle!Spec

(* No step changes the row of a job that has ended, whoever ended it (jobs.rs,
   finish and cancel_queued; leases.rs, reap). *)
THEOREM EndsOnce == Spec => OneEnding
<1>1. ASSUME TypeInv, RowInv, [Next]_vars, NEW j \in Jobs, status[j] \in Endings
      PROVE  status'[j] = status[j]
  <2>1. CASE UNCHANGED <<status, told>>
    BY <2>1
  <2>2. CASE Lifecycle!Next
    <3>1. CASE \E k \in Jobs : Lifecycle!Submit(k) \/ Lifecycle!Start(k) \/ Lifecycle!Tell(k)
      BY <1>1, <3>1 DEF Lifecycle!Submit, Lifecycle!Start, Lifecycle!Tell, Endings, CancelledBy,
         TypeInv, TypeOK
    <3>2. CASE \E k \in Jobs, ending \in Lifecycle!Endings : Lifecycle!End(k, ending)
      BY <1>1, <3>2 DEF Lifecycle!End, Endings, CancelledBy, TypeInv, TypeOK
    <3>3. CASE \E lost \in SUBSET Jobs : Lifecycle!Lose(lost)
      BY <1>1, <3>3 DEF Lifecycle!Lose, Lifecycle!Unfinished, Endings, CancelledBy
    <3> QED
      BY <2>2, <3>1, <3>2, <3>3 DEF Lifecycle!Next
  <2> QED
    BY <1>1, <2>1, <2>2, StepFollowsLifecycle
<1>2. TypeInv /\ RowInv /\ [Next]_vars
        => [\A j \in Jobs : status[j] \in Endings => status'[j] = status[j]]_vars
  BY <1>1
<1> QED
  BY <1>2, RowsInvariant, PTL DEF Spec, OneEnding

-----------------------------------------------------------------------------
(* A healthy engine keeps its jobs: it renews its lease before it has any, and
   nothing but a stop or a failing upkeep lets the lease lapse, so no reaper
   ever finds it lapsed while it has unfinished rows. *)

\* A process that has not started submitted nothing; one that is never stopped
\* and never fails keeps its lease fresh for as long as it is up.
ProcessInv ==
  \A e \in Engines :
    /\ mode[e] = "off" => \A j \in Own(e) : sub[j] = "none"
    /\ Healthy(e) => /\ mode[e] \in {"off", "up"} /\ e \notin frozen
                     /\ mode[e] = "up" => lease[e] = "fresh"

HealthInv == ProcessInv /\ HealthyEngineKeepsItsJobs

\* A step that leaves the processes and their leases alone and loses no job.
LEMMA QuietKeepsHealth ==
  ASSUME HealthInv, UNCHANGED <<mode, frozen, lease>>,
         \A j \in Jobs : sub'[j] = sub[j] \/ mode[Owner[j]] # "off",
         \A j \in Jobs : status'[j] = "engine_lost" => status[j] = "engine_lost"
  PROVE  HealthInv'
<1>1. HealthyEngineKeepsItsJobs'
  BY DEF HealthInv, HealthyEngineKeepsItsJobs, Healthy
<1>2. ProcessInv'
  BY DEF HealthInv, ProcessInv, Own, Healthy
<1> QED
  BY <1>1, <1>2 DEF HealthInv

\* A reaper finds no healthy engine lapsed once that has jobs.
LEMMA ReapKeepsHealth ==
  ASSUME TypeOK, RowInv, HealthInv, NEW e \in Engines, RenewAndReap(e), UNCHANGED <<frozen, sub>>,
         mode' = mode \/ (mode[e] = "off" /\ mode' = [mode EXCEPT ![e] = "up"])
  PROVE  HealthInv'
<1>1. ASSUME NEW j \in Jobs, Healthy(Owner[j])
      PROVE  j \notin Orphans(e)
  <2>1. Owner[j] \in Engines /\ j \in Own(Owner[j])
    BY OwnerAssumption DEF Own
  <2>2. CASE mode[Owner[j]] = "up"
    BY <1>1, <2>1, <2>2 DEF HealthInv, ProcessInv, Orphans, Lapsed
  <2>3. CASE mode[Owner[j]] = "off"
    <3>1. status[j] = "absent"
      BY <2>1, <2>3 DEF HealthInv, ProcessInv, RowInv, SubmitInv
    <3> QED
      BY <3>1 DEF Orphans, Unfinished
  <2> QED
    BY <1>1, <2>1, <2>2, <2>3 DEF HealthInv, ProcessInv
<1>2. HealthyEngineKeepsItsJobs'
  BY <1>1 DEF HealthInv, HealthyEngineKeepsItsJobs, Healthy, RenewAndReap
<1>3. ProcessInv'
  <2> SUFFICES ASSUME NEW f \in Engines
               PROVE  /\ mode'[f] = "off" => \A j \in Own(f) : sub[j] = "none"
                      /\ Healthy(f) => /\ mode'[f] \in {"off", "up"} /\ f \notin frozen
                                       /\ mode'[f] = "up" => lease'[f] = "fresh"
    BY DEF ProcessInv, Own, Healthy
  <2>1. lease'[f] = IF f # e /\ lease[f] = "stale" THEN "none"
                    ELSE IF f = e THEN "fresh" ELSE lease[f]
    BY DEF RenewAndReap, Renewed, TypeOK
  <2>2. f # e => mode'[f] = mode[f]
    BY DEF TypeOK
  <2>3. f = e => mode'[f] = mode[f] \/ (mode[f] = "off" /\ mode'[f] = "up")
    BY DEF TypeOK
  <2> QED
    BY <2>1, <2>2, <2>3 DEF HealthInv, ProcessInv
<1> QED
  BY <1>2, <1>3 DEF HealthInv

LEMMA EngineKeepsHealth ==
  ASSUME TypeOK, RowInv, HealthInv, NEW e \in Engines, EngineStep(e)
  PROVE  HealthInv'
<1>1. CASE Boot(e)
  BY <1>1, ReapKeepsHealth DEF Boot, waitVars
<1>2. ASSUME NEW reap \in BOOLEAN, Upkeep(e, reap)
      PROVE  HealthInv'
  <2>1. CASE reap
    BY <1>2, <2>1, ReapKeepsHealth DEF Upkeep, waitVars
  <2>2. CASE ~ reap
    <3>1. UNCHANGED <<status, sub, mode, frozen>> /\ lease' = [lease EXCEPT ![e] = "fresh"]
      BY <1>2, <2>2 DEF Upkeep, Renewed, waitVars
    <3> QED
      BY <3>1 DEF HealthInv, ProcessInv, HealthyEngineKeepsItsJobs, Own, Healthy, TypeOK
  <2> QED
    BY <2>1, <2>2
<1>3. CASE Dispatch(e)
  BY <1>3, QuietKeepsHealth DEF Dispatch, storeVars, procVars
<1>4. CASE Leave(e) \/ Shutdown(e) \/ Exit(e) \/ Crash(e) \/ Freeze(e) \/ Thaw(e)
  <2>1. /\ UNCHANGED <<status, sub>>
        /\ \/ ~ Healthy(e)
           \/ mode[e] \notin {"off", "up"}
           \/ e \in frozen
    BY <1>4 DEF Leave, Shutdown, Exit, Crash, Freeze, Thaw, Vanish, storeVars, waitVars,
       Healthy, Alive, HealthInv, ProcessInv
  <2>2. ~ Healthy(e)
    BY <2>1 DEF HealthInv, ProcessInv
  <2>3. /\ frozen' \subseteq frozen \cup {e}
        /\ \A f \in Engines \ {e} : mode'[f] = mode[f] /\ lease'[f] = lease[f]
        /\ mode'[e] = "off" => mode[e] = "off"
    BY <1>4 DEF Leave, Shutdown, Exit, Crash, Freeze, Thaw, Vanish, storeVars, procVars,
       TypeOK
  <2>4. HealthyEngineKeepsItsJobs'
    BY <2>1 DEF HealthInv, HealthyEngineKeepsItsJobs, Healthy
  <2>5. ProcessInv'
    BY <2>1, <2>2, <2>3 DEF HealthInv, ProcessInv, Own, Healthy
  <2> QED
    BY <2>4, <2>5 DEF HealthInv
<1>5. CASE GoStale(e)
  <2>1. /\ UNCHANGED <<status, sub, mode, frozen>> /\ lease' = [lease EXCEPT ![e] = "stale"]
        /\ Healthy(e) => mode[e] # "up"
    BY <1>5 DEF GoStale, procVars, waitVars, Healthy, HealthInv, ProcessInv
  <2> QED
    BY <2>1 DEF HealthInv, ProcessInv, HealthyEngineKeepsItsJobs, Own, Healthy, TypeOK
<1> QED
  BY <1>1, <1>2, <1>3, <1>4, <1>5 DEF EngineStep

LEMMA NextKeepsHealth ==
  ASSUME TypeInv, RowInv, HealthInv, [Next]_vars
  PROVE  HealthInv'
<1>0. TypeOK
  BY DEF TypeInv
<1>1. ASSUME NEW j \in Jobs, SubmitStep(j)
      PROVE  HealthInv'
  <2>1. /\ UNCHANGED <<mode, frozen, lease>>
        /\ \A k \in Jobs : sub'[k] = sub[k] \/ mode[Owner[k]] # "off"
        /\ \A k \in Jobs : status'[k] = status[k] \/ status'[k] = "queued"
    BY <1>0, <1>1 DEF SubmitStep, Admit, Insert, InsertFails, Abandon, Enqueue, Runs, Alive,
       storeVars, procVars, TypeOK
  <2> QED
    BY <2>1, QuietKeepsHealth
<1>2. ASSUME NEW j \in Jobs, NEW by \in CancelledBy, CancelStep(j, by)
      PROVE  HealthInv'
  <2>1. /\ UNCHANGED <<mode, frozen, lease, sub>>
        /\ \A k \in Jobs : status'[k] = status[k] \/ status'[k] = by
    BY <1>0, <1>2 DEF CancelStep, CancelQueued, CancelWon, CancelFails, storeVars, procVars,
       waitVars, TypeOK
  <2> QED
    BY <2>1, QuietKeepsHealth DEF CancelledBy
<1>3. ASSUME NEW j \in Jobs, RunStep(j)
      PROVE  HealthInv'
  <2>1. CASE Finish(j)
    <3>1. /\ UNCHANGED <<mode, frozen, lease, sub>>
          /\ \A k \in Jobs : status'[k] = status[k] \/ status'[k] = outcome[j]
      BY <1>0, <2>1 DEF Finish, procVars, waitVars, TypeOK
    <3>2. outcome[j] # "engine_lost"
      BY <1>0 DEF TypeOK
    <3> QED
      BY <3>1, <3>2, QuietKeepsHealth
  <2>2. CASE StartRun(j)
    <3>1. /\ UNCHANGED <<mode, frozen, lease, sub>>
          /\ \A k \in Jobs : status'[k] = status[k] \/ status'[k] = "running"
      BY <1>0, <2>2 DEF StartRun, procVars, waitVars, TypeOK
    <3> QED
      BY <3>1, QuietKeepsHealth
  <2>3. CASE RefuseRun(j) \/ RunFails(j) \/ LockTry(j) \/ LockFails(j) \/ Deliver(j)
              \/ Converse(j) \/ Release(j)
    <3>1. UNCHANGED <<mode, frozen, lease, sub, status>>
      BY <2>3 DEF RefuseRun, RunFails, LockTry, LockFails, Deliver, Converse, Release, storeVars,
         procVars, waitVars
    <3> QED
      BY <3>1, QuietKeepsHealth
  <2> QED
    BY <1>3, <2>1, <2>2, <2>3 DEF RunStep
<1>4. ASSUME \/ UNCHANGED vars
             \/ \E j \in Jobs : Answer(j) \/ Orphaned(j)
             \/ \E e \in Engines, j \in Jobs : Cancel(e, j)
             \/ \E j \in Jobs, ending \in CancelledBy \cup {"timeout"} : Abort(j, ending)
      PROVE  HealthInv'
  <2>1. UNCHANGED <<mode, frozen, lease, sub, status>>
    BY <1>4 DEF Answer, Orphaned, Cancel, Abort, storeVars, procVars, waitVars, vars
  <2> QED
    BY <2>1, QuietKeepsHealth
<1> QED
  BY <1>0, <1>1, <1>2, <1>3, <1>4, EngineKeepsHealth DEF Next

(* The jobs of an engine that is never stopped and whose upkeep never fails
   are never failed as engine_lost, whatever the other engines do (leases.rs,
   reap; mod.rs, Scheduler::start renews before it reaps). *)
THEOREM HealthyEnginesKeepTheirJobs == Spec => []HealthyEngineKeepsItsJobs
<1>1. Init => HealthInv
  BY DEF Init, HealthInv, ProcessInv, HealthyEngineKeepsItsJobs, Own
<1>2. TypeInv /\ RowInv /\ HealthInv /\ [Next]_vars => HealthInv'
  BY NextKeepsHealth
<1>3. HealthInv => HealthyEngineKeepsItsJobs
  BY DEF HealthInv
<1> QED
  BY <1>1, <1>2, <1>3, RowsInvariant, PTL DEF Spec


-----------------------------------------------------------------------------
(* A job's directory exists from the start of its run to the end of it, and
   longer only if it succeeded. *)

OnDisk(j) ==
  /\ phase[j] \in {"idle", "picked"} => j \notin outDir
  /\ status[j] = "running" /\ phase[j] \in {"locking", "conversing"} => j \in outDir
  /\ status[j] = "running" /\ phase[j] = "finishing" /\ outcome[j] = "succeeded" => j \in outDir
  /\ status[j] = "succeeded" => j \in outDir
  /\ phase[j] = "ended" /\ Owner[j] \notin MayFail =>
       status[j] \in Endings /\ (status[j] = "succeeded" \/ j \notin outDir)

DiskInv == \A j \in Jobs : OnDisk(j)

LEMMA DiskInvKept == DiskInv => KeptArtifacts
  BY DEF DiskInv, OnDisk, KeptArtifacts

\* A step of one job.
LEMMA OneJobKeepsDisk ==
  ASSUME DiskInv, NEW j \in Jobs, OnDisk(j)',
         \A k \in Jobs \ {j} : /\ status'[k] = status[k] /\ phase'[k] = phase[k]
                              /\ outcome'[k] = outcome[k] /\ (k \in outDir' <=> k \in outDir)
  PROVE  DiskInv'
  BY DEF DiskInv, OnDisk

LEMMA SameKeepsDisk ==
  ASSUME DiskInv, UNCHANGED <<status, phase, outcome, outDir>>
  PROVE  DiskInv'
  BY DEF DiskInv, OnDisk

LEMMA ReapKeepsDisk ==
  ASSUME TypeOK, DiskInv, NEW e \in Engines, RenewAndReap(e), UNCHANGED <<phase, outcome>>
  PROVE  DiskInv'
<1> SUFFICES ASSUME NEW j \in Jobs
             PROVE  OnDisk(j)'
  BY DEF DiskInv
<1>1. CASE j \in Orphans(e)
  <2>1. status'[j] = "engine_lost" /\ j \notin outDir'
    BY <1>1 DEF RenewAndReap
  <2> QED
    BY <2>1 DEF OnDisk, Endings
<1>2. CASE j \notin Orphans(e)
  <2>1. status'[j] = status[j] /\ (j \in outDir' <=> j \in outDir)
    BY <1>2 DEF RenewAndReap
  <2> QED
    BY <2>1 DEF DiskInv, OnDisk
<1> QED
  BY <1>1, <1>2

LEMMA EngineKeepsDisk ==
  ASSUME TypeOK, RowInv, DiskInv, NEW e \in Engines, EngineStep(e)
  PROVE  DiskInv'
<1>1. CASE Boot(e)
  BY <1>1, ReapKeepsDisk DEF Boot, runVars
<1>2. ASSUME NEW reap \in BOOLEAN, Upkeep(e, reap)
      PROVE  DiskInv'
  <2>1. CASE reap
    BY <1>2, <2>1, ReapKeepsDisk DEF Upkeep, runVars
  <2>2. CASE ~ reap
    BY <1>2, <2>2, SameKeepsDisk DEF Upkeep, runVars
  <2> QED
    BY <2>1, <2>2
<1>3. CASE Dispatch(e)
  <2>1. PICK j \in Jobs : /\ j = queue[e][1] /\ 1 \in 1..Len(queue[e])
                          /\ phase' = [phase EXCEPT ![j] = "picked"]
    <3>1. queue[e] \in Seq(Jobs) /\ queue[e] # <<>>
      BY <1>3 DEF Dispatch, TypeOK
    <3>2. Head(queue[e]) \in Jobs /\ Head(queue[e]) = queue[e][1] /\ 1 \in 1..Len(queue[e])
      BY <3>1
    <3> QED
      BY <1>3, <3>2 DEF Dispatch
  <2>2. UNCHANGED <<status, outcome, outDir>>
    BY <1>3 DEF Dispatch, storeVars
  <2>3. phase[j] = "idle"
    BY <2>1 DEF RowInv, QueueInv
  <2>4. OnDisk(j)'
    BY <2>1, <2>2, <2>3 DEF DiskInv, OnDisk, TypeOK
  <2> QED
    BY <2>1, <2>2, <2>4, OneJobKeepsDisk DEF TypeOK
<1>4. CASE GoStale(e) \/ Leave(e) \/ Shutdown(e) \/ Exit(e) \/ Crash(e) \/ Freeze(e) \/ Thaw(e)
  BY <1>4, SameKeepsDisk DEF GoStale, Leave, Shutdown, Exit, Crash, Freeze, Thaw, Vanish,
     storeVars, runVars
<1> QED
  BY <1>1, <1>2, <1>3, <1>4 DEF EngineStep

LEMMA RunKeepsDisk ==
  ASSUME TypeInv, RowInv, DiskInv, NEW j \in Jobs, RunStep(j)
  PROVE  DiskInv'
<1>0. TypeOK /\ OnDisk(j)
  BY DEF TypeInv, DiskInv
<1>1. CASE StartRun(j)
  <2>1. /\ status'[j] = "running"
        /\ \/ phase'[j] = "finishing" /\ outcome'[j] # "succeeded"
           \/ phase'[j] \in {"locking", "conversing"} /\ j \in outDir'
    <3>1. /\ status' = [status EXCEPT ![j] = "running"] /\ j \in Jobs
          /\ phase \in [Jobs -> {"idle", "picked", "locking", "conversing",
                                 "finishing", "releasing", "ended"}]
          /\ status \in [Jobs -> {"absent"} \cup Unfinished \cup Endings]
          /\ DOMAIN outcome = Jobs /\ token[j] \in {"none", "client", "shutdown"}
      BY <1>0, <1>1 DEF StartRun, TypeOK, CancelledBy
    <3>2. status'[j] = "running"
      BY <3>1
    <3>3. CASE \E ending \in {"failed", "client", "shutdown"} : Settle(j, ending)
      <4>1. phase'[j] = "finishing" /\ outcome'[j] # "succeeded"
        BY <3>1, <3>3 DEF Settle
      <4> QED
        BY <3>2, <4>1
    <3>4. CASE /\ outDir' = outDir \cup {j}
               /\ phase' = [phase EXCEPT ![j] =
                              IF SceneOf[j] = NoScene THEN "conversing" ELSE "locking"]
      <4>1. j \in outDir'
        BY <3>4
      <4>2. phase'[j] \in {"locking", "conversing"}
        BY <3>1, <3>4
      <4> QED
        BY <3>2, <4>1, <4>2
    <3> QED
      BY <1>1, <3>1, <3>3, <3>4 DEF StartRun
  <2>2. OnDisk(j)'
    BY <2>1 DEF OnDisk
  <2>3. \A k \in Jobs \ {j} : /\ status'[k] = status[k] /\ phase'[k] = phase[k]
                             /\ outcome'[k] = outcome[k] /\ (k \in outDir' <=> k \in outDir)
    BY <1>0, <1>1 DEF StartRun, Settle, TypeOK
  <2> QED
    BY <2>2, <2>3, OneJobKeepsDisk
<1>2. CASE RefuseRun(j) \/ RunFails(j)
  <2>1. /\ phase' = [phase EXCEPT ![j] = "ended"] /\ UNCHANGED <<status, outcome, outDir>>
        /\ Owner[j] \in MayFail \/ (phase[j] = "picked" /\ status[j] # "queued")
    BY <1>2 DEF RefuseRun, RunFails, EndRun, storeVars
  <2>2. Owner[j] \in MayFail \/ (status[j] \in Endings /\ j \notin outDir)
    BY <1>0, <2>1 DEF OnDisk, RowInv, RunInv, Ready
  <2>3. OnDisk(j)'
    BY <1>0, <2>1, <2>2 DEF OnDisk, TypeOK
  <2> QED
    BY <1>0, <2>1, <2>3, OneJobKeepsDisk DEF TypeOK
<1>3. CASE LockTry(j)
  <2>1. /\ phase' = [phase EXCEPT ![j] = "conversing"] \/ phase' = phase
        /\ phase[j] = "locking" /\ UNCHANGED <<status, outcome, outDir>>
    BY <1>3 DEF LockTry
  <2>2. OnDisk(j)'
    BY <1>0, <2>1 DEF OnDisk, TypeOK
  <2> QED
    BY <1>0, <2>1, <2>2, OneJobKeepsDisk DEF TypeOK
<1>4. CASE LockFails(j) \/ Converse(j)
  <2>1. /\ phase' = [phase EXCEPT ![j] = "finishing"] /\ phase[j] \in {"locking", "conversing"}
        /\ UNCHANGED <<status, outDir>>
        /\ \A k \in Jobs \ {j} : outcome'[k] = outcome[k]
    BY <1>0, <1>4 DEF LockFails, Converse, Settle, storeVars, TypeOK
  <2>2. OnDisk(j)'
    BY <1>0, <2>1 DEF OnDisk, TypeOK
  <2> QED
    BY <1>0, <2>1, <2>2, OneJobKeepsDisk DEF TypeOK
<1>5. CASE Deliver(j)
  BY <1>5, SameKeepsDisk DEF Deliver, storeVars
<1>6. CASE Finish(j)
  <2>1. /\ phase' = [phase EXCEPT ![j] = "releasing"] /\ phase[j] = "finishing"
        /\ status' = [status EXCEPT ![j] = IF MayFinish(j) THEN outcome[j] ELSE status[j]]
        /\ UNCHANGED <<outcome, outDir>>
    BY <1>0, <1>6 DEF Finish, TypeOK
  <2>2. OnDisk(j)'
    BY <1>0, <2>1 DEF OnDisk, MayFinish, TypeOK
  <2> QED
    BY <1>0, <2>1, <2>2, OneJobKeepsDisk DEF TypeOK
<1>7. CASE Release(j)
  <2>1. /\ phase' = [phase EXCEPT ![j] = "ended"] /\ phase[j] = "releasing"
        /\ outcome' = [outcome EXCEPT ![j] = "none"]
        /\ outDir' = IF Kept(j) THEN outDir ELSE outDir \ {j}
        /\ UNCHANGED status
    BY <1>7 DEF Release, EndRun
  <2>2. status[j] \in Endings
    BY <2>1 DEF RowInv, RunInv
  <2>3. OnDisk(j)'
    BY <1>0, <2>1, <2>2 DEF OnDisk, Kept, TypeOK
  <2> QED
    BY <1>0, <2>1, <2>3, OneJobKeepsDisk DEF TypeOK
<1> QED
  BY <1>1, <1>2, <1>3, <1>4, <1>5, <1>6, <1>7 DEF RunStep

LEMMA NextKeepsDisk ==
  ASSUME TypeInv, RowInv, DiskInv, [Next]_vars
  PROVE  DiskInv'
<1>0. TypeOK
  BY DEF TypeInv
<1>1. ASSUME NEW j \in Jobs, SubmitStep(j)
      PROVE  DiskInv'
  <2>1. CASE Insert(j)
    <3>1. /\ status' = [status EXCEPT ![j] = "queued"] /\ UNCHANGED <<phase, outcome, outDir>>
          /\ phase[j] = "idle"
      BY <2>1 DEF Insert, Inserting, runVars, RowInv, SubmitInv
    <3>2. OnDisk(j)'
      BY <1>0, <3>1 DEF DiskInv, OnDisk, TypeOK
    <3> QED
      BY <1>0, <3>1, <3>2, OneJobKeepsDisk DEF TypeOK
  <2>2. CASE Admit(j) \/ InsertFails(j) \/ Abandon(j) \/ Enqueue(j)
    BY <2>2, SameKeepsDisk DEF Admit, InsertFails, Abandon, Enqueue, storeVars, runVars
  <2> QED
    BY <1>1, <2>1, <2>2 DEF SubmitStep
<1>2. ASSUME NEW j \in Jobs, NEW by \in CancelledBy, CancelStep(j, by)
      PROVE  DiskInv'
  <2>1. ASSUME NEW waits \in {"marked", "unawaited"}, CancelQueued(j, by, waits)
        PROVE  DiskInv'
    <3>1. /\ UNCHANGED <<phase, outcome, outDir>>
          /\ status' = status \/ (status[j] = "queued" /\ status' = [status EXCEPT ![j] = by])
      BY <2>1 DEF CancelQueued, runVars
    <3>2. CASE status' = status
      BY <3>1, <3>2, SameKeepsDisk
    <3>3. CASE status[j] = "queued" /\ status' = [status EXCEPT ![j] = by]
      <4>1. /\ phase[j] \in {"idle", "picked"} \/ Owner[j] \in MayFail \/ phase[j] # "ended"
            /\ status'[j] \in CancelledBy
        BY <1>0, <3>3 DEF DiskInv, OnDisk, TypeOK, Endings, CancelledBy
      <4>2. OnDisk(j)'
        BY <3>1, <4>1 DEF DiskInv, OnDisk, CancelledBy
      <4> QED
        BY <1>0, <3>1, <3>3, <4>2, OneJobKeepsDisk DEF TypeOK
    <3> QED
      BY <3>1, <3>2, <3>3
  <2>2. CASE CancelWon(j, by) \/ \E waits \in {"marked", "unawaited"} : CancelFails(j, by, waits)
    BY <2>2, SameKeepsDisk DEF CancelWon, CancelFails, storeVars, runVars
  <2> QED
    BY <1>2, <2>1, <2>2 DEF CancelStep
<1>3. ASSUME NEW j \in Jobs, NEW ending \in CancelledBy \cup {"timeout"}, Abort(j, ending)
      PROVE  DiskInv'
  <2>1. /\ phase' = [phase EXCEPT ![j] = "finishing"] /\ phase[j] \in {"locking", "conversing"}
        /\ UNCHANGED <<status, outDir>>
        /\ \A k \in Jobs \ {j} : outcome'[k] = outcome[k]
    BY <1>0, <1>3 DEF Abort, Settle, storeVars, TypeOK
  <2>2. OnDisk(j)'
    BY <1>0, <2>1 DEF DiskInv, OnDisk, TypeOK
  <2> QED
    BY <1>0, <2>1, <2>2, OneJobKeepsDisk DEF TypeOK
<1>4. ASSUME \/ UNCHANGED vars
             \/ \E j \in Jobs : Answer(j) \/ Orphaned(j)
             \/ \E e \in Engines, j \in Jobs : Cancel(e, j)
      PROVE  DiskInv'
  BY <1>4, SameKeepsDisk DEF Answer, Orphaned, Cancel, storeVars, runVars, vars
<1> QED
  BY <1>0, <1>1, <1>2, <1>3, <1>4, EngineKeepsDisk, RunKeepsDisk DEF Next

(* A succeeded job keeps its artifact directory, and a run that ended without a
   success leaves none behind unless the store failed it (execute.rs, finish;
   maintenance.rs, remove_out_dirs). *)
THEOREM ArtifactsAreKept == Spec => []KeptArtifacts
<1>1. Init => DiskInv
  BY DEF Init, DiskInv, OnDisk
<1>2. TypeInv /\ RowInv /\ DiskInv /\ [Next]_vars => DiskInv'
  BY NextKeepsDisk
<1> QED
  BY <1>1, <1>2, DiskInvKept, RowsInvariant, PTL DEF Spec


-----------------------------------------------------------------------------
(* The queue's places: a job holds one from its admission to its dispatch or
   its end, and loses it with its engine. *)

\* What comes later in a queue is in its tail.
LEMMA AllButTheFirst ==
  ASSUME NEW S, NEW q \in Seq(S), q # <<>>, NEW i \in 1..Len(q), i # 1
  PROVE  i - 1 \in DOMAIN Tail(q) /\ Tail(q)[i - 1] = q[i]
<1>1. Len(Tail(q)) = Len(q) - 1 /\ Tail(q) \in Seq(S)
  OBVIOUS
<1>2. i - 1 \in 1..Len(Tail(q))
  BY <1>1
<1> QED
  BY <1>1, <1>2

\* The dispatcher takes the first that waits; the others wait on.
LEMMA TheOthersWait ==
  ASSUME TypeOK, NEW e \in Engines, queue[e] # <<>>, queue' = [queue EXCEPT ![e] = Tail(queue[e])],
         NEW j \in Jobs, j # Head(queue[e]), Waits(j)
  PROVE  Waits(j)'
<1>1. Owner[j] \in Engines
  BY OwnerAssumption
<1>2. CASE Owner[j] # e
  BY <1>1, <1>2 DEF Waits, TypeOK
<1>3. CASE Owner[j] = e
  <2>1. queue[e] \in Seq(Jobs) /\ queue'[e] = Tail(queue[e]) /\ Len(queue[e]) \in Nat \ {0}
    BY DEF TypeOK
  <2>2. PICK i \in 1..Len(queue[e]) : queue[e][i] = j
    BY <1>3, <2>1 DEF Waits
  <2>3. i # 1
    BY <2>1, <2>2
  <2>4. i - 1 \in DOMAIN Tail(queue[e]) /\ Tail(queue[e])[i - 1] = j
    BY <2>1, <2>2, <2>3, AllButTheFirst
  <2> QED
    BY <1>3, <2>1, <2>4 DEF Waits
<1> QED
  BY <1>2, <1>3

\* Who is enqueued waits, and so do all who waited.
LEMMA AllWait ==
  ASSUME TypeOK, NEW j \in Jobs, queue' = [queue EXCEPT ![Owner[j]] = Append(queue[Owner[j]], j)]
  PROVE  Waits(j)' /\ \A k \in Jobs : Waits(k) => Waits(k)'
<1>1. \A k \in Jobs : Owner[k] \in Engines
  BY OwnerAssumption
<1>2. PICK e \in Engines : e = Owner[j]
  BY <1>1
<1>3. queue[e] \in Seq(Jobs) /\ queue'[e] = Append(queue[e], j)
  BY <1>2 DEF TypeOK
<1>4. /\ DOMAIN queue[e] = 1..Len(queue[e]) /\ DOMAIN queue'[e] = 1..(Len(queue[e]) + 1) /\ Len(queue[e]) \in Nat
      /\ queue'[e][Len(queue[e]) + 1] = j /\ \A i \in DOMAIN queue[e] : queue'[e][i] = queue[e][i]
  BY <1>3
<1>5. Waits(j)'
  BY <1>2, <1>4 DEF Waits
<1>6. ASSUME NEW k \in Jobs, Waits(k) PROVE Waits(k)'
  <2>1. PICK i \in DOMAIN queue[Owner[k]] : queue[Owner[k]][i] = k
    BY <1>6 DEF Waits
  <2>2. i \in DOMAIN queue'[Owner[k]] /\ queue'[Owner[k]][i] = k
    <3>1. CASE Owner[k] = e
      BY <1>4, <2>1, <3>1
    <3>2. CASE Owner[k] # e
      BY <1>1, <1>2, <2>1, <3>2 DEF TypeOK
    <3> QED
      BY <3>1, <3>2
  <2> QED
    BY <2>2 DEF Waits
<1> QED
  BY <1>5, <1>6

PlaceOf(j) ==
  /\ sub[j] = "admitted" /\ Alive(Owner[j]) => j \in slot
  /\ status[j] = "queued" /\ phase[j] = "idle" /\ sub[j] # "dropped" /\ Alive(Owner[j])
       => j \in slot /\ (sub[j] = "done" => Waits(j))
  /\ j \in slot =>
       /\ phase[j] = "idle" /\ sub[j] # "dropped"
       /\ \/ sub[j] = "admitted"
          \/ status[j] \in {"queued", "engine_lost"}
          \/ \E by \in CancelledBy : <<j, by, "won">> \in calls
          \/ j \in MayDrop /\ Waits(j)

\* Only a job its submission has handed over is cancelled, and only for a client
\* that may disconnect does nobody wait.
Called(j) ==
  /\ j \in active => sub[j] = "done"
  /\ \A by, waits : <<j, by, waits>> \in calls =>
       sub[j] = "done" /\ (waits = "unawaited" => j \in MayDrop)

PlaceInv == \A j \in Jobs : PlaceOf(j) /\ Called(j)

LEMMA PlacesAccountForQueue ==
  ASSUME TypeOK, PlaceInv
  PROVE  QueueAccounting
  BY DEF TypeOK, PlaceInv, PlaceOf, QueueAccounting

\* A step of one job.
LEMMA OneJobKeepsPlaces ==
  ASSUME PlaceInv, NEW j \in Jobs, PlaceOf(j)', Called(j)', UNCHANGED mode,
         \A k \in Jobs \ {j} : /\ status'[k] = status[k] /\ sub'[k] = sub[k]
                              /\ phase'[k] = phase[k] /\ (k \in slot' <=> k \in slot)
                              /\ (k \in active' => k \in active) /\ (Waits(k) => Waits(k)'),
         \A k \in Jobs \ {j} : \A by, waits : <<k, by, waits>> \in calls' <=> <<k, by, waits>> \in calls
  PROVE  PlaceInv'
<1> SUFFICES ASSUME NEW k \in Jobs \ {j}
             PROVE  PlaceOf(k)' /\ Called(k)'
  BY DEF PlaceInv
<1>1. PlaceOf(k) /\ Called(k) /\ (Alive(Owner[k])' <=> Alive(Owner[k]))
  BY DEF PlaceInv, Alive
<1>2. PlaceOf(k)'
  BY <1>1 DEF PlaceOf
<1>3. Called(k)'
  BY <1>1 DEF Called
<1> QED
  BY <1>2, <1>3

\* A step of a job that has left the queue.
LEMMA RunningKeepsPlaces ==
  ASSUME TypeOK, RowInv, PlaceInv, NEW j \in Jobs, phase[j] # "idle", phase'[j] # "idle",
         UNCHANGED <<mode, sub, slot, calls, queue>>, active' \subseteq active,
         \A k \in Jobs \ {j} : status'[k] = status[k] /\ phase'[k] = phase[k]
  PROVE  PlaceInv'
<1>1. sub[j] = "done" /\ j \notin slot
  BY DEF RowInv, SubmitInv, PlaceInv, PlaceOf, TypeOK
<1>2. PlaceOf(j)' /\ Called(j)'
  BY <1>1 DEF PlaceInv, PlaceOf, Called
<1>3. \A k \in Jobs : Waits(k) => Waits(k)'
  BY DEF Waits
<1> QED
  BY <1>2, <1>3, OneJobKeepsPlaces

\* A step that loses jobs or engines, or starts engines that have no jobs.
LEMMA LosingKeepsPlaces ==
  ASSUME RowInv, PlaceInv, UNCHANGED <<sub, phase, slot, queue, active>>,
         \A j \in Jobs : Alive(Owner[j])' => Alive(Owner[j]) \/ sub[j] = "none",
         \A j \in Jobs : status'[j] \in {status[j], "engine_lost"},
         \A j \in Jobs, by \in CancelledBy :
           <<j, by, "won">> \in calls => <<j, by, "won">> \in calls',
         \A j \in Jobs : \A by, waits : <<j, by, waits>> \in calls' =>
           <<j, by, waits>> \in calls \/ (j \in active /\ (waits = "unawaited" => j \in MayDrop))
  PROVE  PlaceInv'
<1> SUFFICES ASSUME NEW j \in Jobs
             PROVE  PlaceOf(j)' /\ Called(j)'
  BY DEF PlaceInv
<1>1. sub[j] = "none" => status[j] = "absent"
  BY DEF RowInv, SubmitInv
<1>2. PlaceOf(j) /\ Called(j)
  BY DEF PlaceInv
<1>3. Waits(j)' <=> Waits(j)
  BY DEF Waits
<1>4. Called(j)'
  BY <1>2 DEF Called
<1>5. PlaceOf(j)'
  BY <1>1, <1>2, <1>3 DEF PlaceOf
<1> QED
  BY <1>4, <1>5

\* What a cancellation adds to the calls.
LEMMA CancelAdds ==
  ASSUME TypeOK, NEW js \in SUBSET Jobs, NEW by \in CancelledBy, NEW waits, CancelLocal(js, by, waits)
  PROVE  /\ calls \subseteq calls'
         /\ \A j \in Jobs : \A b, w : <<j, b, w>> \in calls' =>
              <<j, b, w>> \in calls \/ (j \in active /\ j \in js /\ w = waits)
  BY DEF CancelLocal

LEMMA EngineKeepsPlaces ==
  ASSUME TypeOK, RowInv, HealthInv, PlaceInv, NEW e \in Engines, EngineStep(e)
  PROVE  PlaceInv'
<1>1. CASE Boot(e)
  <2>1. /\ mode[e] = "off" /\ mode' = [mode EXCEPT ![e] = "up"] /\ RenewAndReap(e)
        /\ UNCHANGED <<sub, phase, slot, queue, active, calls>>
    BY <1>1 DEF Boot, waitVars, runVars, cancelVars
  <2>2. \A j \in Jobs : Alive(Owner[j])' => Alive(Owner[j]) \/ sub[j] = "none"
    BY <2>1, OwnerAssumption DEF HealthInv, ProcessInv, Own, Alive, TypeOK
  <2> QED
    BY <2>1, <2>2, LosingKeepsPlaces DEF RenewAndReap
<1>2. ASSUME NEW reap \in BOOLEAN, Upkeep(e, reap)
      PROVE  PlaceInv'
  <2>1. /\ UNCHANGED <<mode, sub, phase, slot, queue, active>>
        /\ \A j \in Jobs : status'[j] \in {status[j], "engine_lost"}
    BY <1>2 DEF Upkeep, RenewAndReap, waitVars, runVars
  <2>2. CancelLocal(Asked(e), "client", "marked") /\ Asked(e) \in SUBSET Jobs /\ "client" \in CancelledBy
    BY <1>2 DEF Upkeep, Asked, Own, CancelledBy
  <2> QED
    BY <2>1, <2>2, CancelAdds, LosingKeepsPlaces DEF Alive
<1>3. CASE GoStale(e) \/ Freeze(e) \/ Thaw(e) \/ Leave(e) \/ Shutdown(e)
  <2>1. /\ UNCHANGED <<status, sub, phase, slot, queue, active>>
        /\ \/ mode' = mode
           \/ Alive(e) /\ \E m \in {"closing", "left"} : mode' = [mode EXCEPT ![e] = m]
    BY <1>3 DEF GoStale, Freeze, Thaw, Leave, Shutdown, storeVars, procVars, waitVars, runVars, Runs
  <2>2. /\ calls \subseteq calls'
        /\ \A j \in Jobs : \A by, waits : <<j, by, waits>> \in calls' =>
             <<j, by, waits>> \in calls \/ (j \in active /\ waits = "marked")
    <3>1. CASE Shutdown(e)
      <4>1. CancelLocal(Own(e), "shutdown", "marked") /\ Own(e) \in SUBSET Jobs /\ "shutdown" \in CancelledBy
        BY <3>1 DEF Shutdown, Own, CancelledBy
      <4> QED
        BY <4>1, CancelAdds
    <3>2. CASE ~ Shutdown(e)
      BY <1>3, <3>2 DEF GoStale, Freeze, Thaw, Leave, cancelVars
    <3> QED
      BY <3>1, <3>2
  <2>3. \A j \in Jobs : Alive(Owner[j])' => Alive(Owner[j])
    BY <2>1, OwnerAssumption DEF Alive, TypeOK
  <2> QED
    BY <2>1, <2>2, <2>3, LosingKeepsPlaces
<1>4. CASE Exit(e) \/ Crash(e)
  <2>1. /\ UNCHANGED <<status, sub, phase>> /\ slot' = slot \ Own(e) /\ active' = active \ Own(e)
        /\ queue' = [queue EXCEPT ![e] = <<>>]
        /\ mode'[e] \in {"gone", "dead"} /\ \A f \in Engines \ {e} : mode'[f] = mode[f]
        /\ calls' = {c \in calls : Owner[c[1]] # e}
    BY <1>4 DEF Exit, Crash, Vanish, storeVars, runVars, TypeOK
  <2> SUFFICES ASSUME NEW j \in Jobs
               PROVE  PlaceOf(j)' /\ Called(j)'
    BY DEF PlaceInv
  <2>2. Owner[j] \in Engines
    BY OwnerAssumption
  <2>3. CASE Owner[j] = e
    BY <2>1, <2>3 DEF PlaceInv, PlaceOf, Called, Own, Alive
  <2>4. CASE Owner[j] # e
    <3>1. (j \in slot' <=> j \in slot) /\ (Alive(Owner[j])' <=> Alive(Owner[j]))
      BY <2>1, <2>2, <2>4 DEF Own, Alive
    <3>2. \A by, waits : <<j, by, waits>> \in calls' <=> <<j, by, waits>> \in calls
      BY <2>1, <2>4
    <3>3. Waits(j)' <=> Waits(j)
      BY <2>1, <2>2, <2>4 DEF Waits, TypeOK
    <3> QED
      BY <2>1, <3>1, <3>2, <3>3 DEF PlaceInv, PlaceOf, Called
  <2> QED
    BY <2>3, <2>4
<1>5. CASE Dispatch(e)
  <2>1. PICK j \in Jobs : /\ phase' = [phase EXCEPT ![j] = "picked"]
                          /\ slot' = slot \ {j} /\ j = queue[e][1] /\ 1 \in 1..Len(queue[e])
                          /\ j = Head(queue[e])
    <3>1. queue[e] \in Seq(Jobs) /\ queue[e] # <<>>
      BY <1>5 DEF Dispatch, TypeOK
    <3>2. Head(queue[e]) \in Jobs /\ Head(queue[e]) = queue[e][1] /\ 1 \in 1..Len(queue[e])
      BY <3>1
    <3> QED
      BY <1>5, <3>2 DEF Dispatch, LeaveQueue
  <2>2. /\ UNCHANGED <<status, sub, mode, active, calls>>
        /\ queue[e] # <<>> /\ queue' = [queue EXCEPT ![e] = Tail(queue[e])]
    BY <1>5 DEF Dispatch, storeVars, procVars, cancelVars
  <2>3. sub[j] = "done"
    BY <2>1 DEF RowInv, QueueInv
  <2>4. PlaceOf(j)' /\ Called(j)'
    BY <2>1, <2>2, <2>3 DEF PlaceOf, PlaceInv, Called, TypeOK
  <2>5. \A k \in Jobs \ {j} : Waits(k) => Waits(k)'
    BY <2>1, <2>2, TheOthersWait
  <2> QED
    BY <2>1, <2>2, <2>4, <2>5, OneJobKeepsPlaces DEF TypeOK
<1> QED
  BY <1>1, <1>2, <1>3, <1>4, <1>5 DEF EngineStep

LEMMA SubmitKeepsPlaces ==
  ASSUME TypeOK, RowInv, PlaceInv, NEW j \in Jobs, SubmitStep(j)
  PROVE  PlaceInv'
<1>0. PlaceOf(j) /\ Called(j)
  BY DEF PlaceInv
<1>1. CASE Admit(j)
  <2>1. /\ sub[j] = "none" /\ sub' = [sub EXCEPT ![j] = "admitted"] /\ slot' = slot \cup {j}
        /\ UNCHANGED <<status, phase, mode, calls, active, queue>>
    BY <1>1 DEF Admit, storeVars, procVars, runVars, cancelVars
  <2>2. phase[j] = "idle" /\ status[j] = "absent"
    BY <2>1 DEF RowInv, SubmitInv
  <2>3. PlaceOf(j)' /\ Called(j)'
    BY <1>0, <2>1, <2>2 DEF PlaceOf, Called, TypeOK
  <2> QED
    BY <2>1, <2>3, OneJobKeepsPlaces DEF TypeOK, Waits
<1>2. CASE Insert(j)
  <2>1. /\ sub[j] \in {"admitted", "dropped"}
        /\ sub' = [sub EXCEPT ![j] = IF sub[j] = "admitted" THEN "inserted" ELSE sub[j]]
        /\ status' = [status EXCEPT ![j] = "queued"] /\ Alive(Owner[j])
        /\ UNCHANGED <<slot, phase, mode, calls, active, queue>>
    BY <1>2 DEF Insert, Inserting, procVars, runVars, cancelVars, Runs
  <2>2. PlaceOf(j)' /\ Called(j)'
    BY <1>0, <2>1 DEF PlaceOf, Called, TypeOK
  <2> QED
    BY <2>1, <2>2, OneJobKeepsPlaces DEF TypeOK, Waits
<1>3. CASE InsertFails(j)
  <2>1. /\ sub[j] = "admitted" \/ status[j] = "absent"
        /\ sub' = [sub EXCEPT ![j] = "done"] /\ slot' = slot \ {j}
        /\ UNCHANGED <<status, phase, mode, calls, active, queue>>
    BY <1>3 DEF InsertFails, Inserting, LeaveQueue, storeVars, procVars, runVars, cancelVars
  <2>2. status[j] = "absent"
    BY <2>1 DEF RowInv, SubmitInv
  <2>3. PlaceOf(j)' /\ Called(j)'
    BY <1>0, <2>1, <2>2 DEF PlaceOf, Called, TypeOK
  <2> QED
    BY <2>1, <2>3, OneJobKeepsPlaces DEF TypeOK, Waits
<1>4. CASE Abandon(j)
  <2>1. /\ sub[j] # "done" /\ sub' = [sub EXCEPT ![j] = "dropped"] /\ slot' = slot \ {j}
        /\ UNCHANGED <<status, phase, mode, calls, active, queue>>
    BY <1>4 DEF Abandon, LeaveQueue, storeVars, procVars, runVars, cancelVars
  <2>2. PlaceOf(j)' /\ Called(j)'
    BY <1>0, <2>1 DEF PlaceOf, Called, TypeOK
  <2> QED
    BY <2>1, <2>2, OneJobKeepsPlaces DEF TypeOK, Waits
<1>5. CASE Enqueue(j)
  <2>1. /\ sub[j] = "inserted" /\ sub' = [sub EXCEPT ![j] = "done"]
        /\ active' = active \cup {j} /\ queue' = [queue EXCEPT ![Owner[j]] = Append(queue[Owner[j]], j)]
        /\ UNCHANGED <<status, phase, mode, slot>>
    BY <1>5 DEF Enqueue, storeVars, procVars, runVars, cancelVars
  <2>2. \/ calls' = calls
        \/ \E waits : calls' = calls \cup {<<j, "shutdown", waits>>} /\ (waits = "unawaited" => j \in MayDrop)
    <3>1. CASE mode[Owner[j]] = "up"
      BY <1>5, <3>1 DEF Enqueue, cancelVars
    <3>2. CASE mode[Owner[j]] # "up"
      <4>1. PICK waits \in {"marked"} \cup {w \in {"unawaited"} : j \in MayDrop} :
              calls' = calls \cup {<<j, "shutdown", waits>>}
        BY <1>5, <3>2 DEF Enqueue
      <4>2. waits = "unawaited" => j \in MayDrop
        OBVIOUS
      <4> QED
        BY <4>1, <4>2
    <3> QED
      BY <3>1, <3>2
  <2>3. Waits(j)' /\ \A k \in Jobs : Waits(k) => Waits(k)'
    BY <2>1, AllWait
  <2>4. sub'[j] = "done"
    BY <2>1 DEF TypeOK
  <2>5. PlaceOf(j)'
    <3>1. \A by : <<j, by, "won">> \in calls => <<j, by, "won">> \in calls'
      BY <2>2
    <3> QED
      BY <1>0, <2>1, <2>3, <2>4, <3>1 DEF PlaceOf, Alive
  <2>6. Called(j)'
    BY <1>0, <2>1, <2>2, <2>4 DEF Called
  <2>7. \A k \in Jobs \ {j} : \A by, waits : <<k, by, waits>> \in calls' <=> <<k, by, waits>> \in calls
    BY <2>2
  <2> QED
    BY <2>1, <2>3, <2>5, <2>6, <2>7, OneJobKeepsPlaces DEF TypeOK
<1> QED
  BY <1>1, <1>2, <1>3, <1>4, <1>5 DEF SubmitStep

LEMMA CancelKeepsPlaces ==
  ASSUME TypeOK, RowInv, PlaceInv, NEW j \in Jobs, NEW by \in CancelledBy, CancelStep(j, by)
  PROVE  PlaceInv'
<1>0. PlaceOf(j) /\ Called(j)
  BY DEF PlaceInv
<1>1. ASSUME NEW waits \in {"marked", "unawaited"}, CancelQueued(j, by, waits), status[j] = "queued"
      PROVE  PlaceInv'
  <2>1. /\ status' = [status EXCEPT ![j] = by] /\ <<j, by, waits>> \in calls /\ Alive(Owner[j])
        /\ calls' = (calls \ {<<j, by, waits>>}) \cup {c \in {<<j, by, "won">>} : waits = "marked"}
        /\ UNCHANGED <<sub, phase, mode, slot, active, queue>>
    BY <1>1 DEF CancelQueued, procVars, waitVars, runVars, Runs
  <2>2. sub[j] = "done" /\ (waits = "unawaited" => j \in MayDrop)
    BY <1>0, <2>1 DEF Called
  <2>3. Waits(j)' <=> Waits(j)
    BY <2>1 DEF Waits
  <2>4. waits = "marked" => <<j, by, "won">> \in calls'
    BY <2>1
  <2>5. PlaceOf(j)'
    BY <1>0, <1>1, <2>1, <2>2, <2>3, <2>4 DEF PlaceOf, CancelledBy, Alive, TypeOK
  <2>6. Called(j)'
    BY <1>0, <2>1, <2>2 DEF Called
  <2>7. \A k \in Jobs \ {j} : \A b, w : <<k, b, w>> \in calls' <=> <<k, b, w>> \in calls
    BY <2>1
  <2> QED
    BY <2>1, <2>5, <2>6, <2>7, OneJobKeepsPlaces DEF TypeOK, Waits
<1>2. ASSUME NEW waits \in {"marked", "unawaited"},
             (CancelQueued(j, by, waits) /\ status[j] # "queued") \/ CancelFails(j, by, waits)
      PROVE  PlaceInv'
  <2>1. /\ calls' = calls \ {<<j, by, waits>>}
        /\ UNCHANGED <<status, sub, phase, mode, slot, active, queue>>
    BY <1>2 DEF CancelQueued, CancelFails, storeVars, procVars, waitVars, runVars
  <2>2. \A k \in Jobs, b \in CancelledBy :
          <<k, b, "won">> \in calls => <<k, b, "won">> \in calls'
    BY <2>1
  <2> QED
    BY <2>1, <2>2, LosingKeepsPlaces DEF Alive
<1>3. CASE CancelWon(j, by)
  <2>1. /\ <<j, by, "won">> \in calls /\ calls' = calls \ {<<j, by, "won">>} /\ active' = active \ {j}
        /\ slot' = slot \ {j} /\ UNCHANGED <<status, sub, phase, mode, queue>>
    BY <1>3 DEF CancelWon, LeaveQueue, storeVars, procVars, runVars
  <2>2. status[j] \in Endings
    BY <2>1 DEF RowInv, WonInv
  <2>3. sub[j] # "admitted" /\ status[j] # "queued"
    BY <2>2 DEF RowInv, SubmitInv, Endings, CancelledBy
  <2>4. PlaceOf(j)' /\ Called(j)'
    BY <1>0, <2>1, <2>3 DEF PlaceOf, Called
  <2>5. \A k \in Jobs \ {j} : \A b, w : <<k, b, w>> \in calls' <=> <<k, b, w>> \in calls
    BY <2>1
  <2> QED
    BY <2>1, <2>4, <2>5, OneJobKeepsPlaces DEF Waits
<1> QED
  BY <1>1, <1>2, <1>3 DEF CancelStep

LEMMA RunKeepsPlaces ==
  ASSUME TypeOK, RowInv, PlaceInv, NEW j \in Jobs, RunStep(j)
  PROVE  PlaceInv'
<1>1. UNCHANGED <<mode, sub, slot, calls, queue>> /\ active' \subseteq active
  BY DEF RunStep, StartRun, RefuseRun, RunFails, LockTry, LockFails, Deliver, Converse, Finish,
     Release, EndRun, procVars, waitVars, cancelVars
<1>2. \A k \in Jobs \ {j} : status'[k] = status[k] /\ phase'[k] = phase[k]
  <2>1. CASE StartRun(j) \/ Finish(j)
    BY <2>1 DEF StartRun, Finish, Settle, TypeOK
  <2>2. CASE RefuseRun(j) \/ RunFails(j) \/ Release(j)
    BY <2>2 DEF RefuseRun, RunFails, Release, EndRun, storeVars, TypeOK
  <2>3. CASE LockTry(j) \/ LockFails(j) \/ Deliver(j) \/ Converse(j)
    BY <2>3 DEF LockTry, LockFails, Deliver, Converse, Settle, storeVars, TypeOK
  <2> QED
    BY <2>1, <2>2, <2>3 DEF RunStep
<1>3. phase[j] # "idle" /\ phase'[j] # "idle"
  <2>1. CASE StartRun(j) \/ Finish(j)
    BY <2>1 DEF StartRun, Finish, Settle, TypeOK
  <2>2. CASE RefuseRun(j) \/ RunFails(j) \/ Release(j)
    BY <2>2 DEF RefuseRun, RunFails, Release, EndRun, storeVars, TypeOK
  <2>3. CASE LockTry(j) \/ LockFails(j) \/ Deliver(j) \/ Converse(j)
    BY <2>3 DEF LockTry, LockFails, Deliver, Converse, Settle, storeVars, TypeOK
  <2> QED
    BY <2>1, <2>2, <2>3 DEF RunStep
<1> QED
  BY <1>1, <1>2, <1>3, RunningKeepsPlaces

LEMMA NextKeepsPlaces ==
  ASSUME TypeOK, RowInv, HealthInv, PlaceInv, [Next]_vars
  PROVE  PlaceInv'
<1>1. ASSUME NEW j \in Jobs, NEW ending \in CancelledBy \cup {"timeout"}, Abort(j, ending)
      PROVE  PlaceInv'
  <2>1. /\ phase' = [phase EXCEPT ![j] = "finishing"] /\ phase[j] \in {"locking", "conversing"}
        /\ UNCHANGED <<status, mode, sub, slot, calls, active, queue>>
    BY <1>1 DEF Abort, Settle, storeVars, procVars, waitVars, cancelVars
  <2> QED
    BY <2>1, RunningKeepsPlaces DEF TypeOK
<1>2. ASSUME UNCHANGED vars \/ \E j \in Jobs : Answer(j) \/ Orphaned(j)
      PROVE  PlaceInv'
  <2>1. UNCHANGED <<status, mode, sub, phase, slot, queue, active, calls>>
    BY <1>2 DEF Answer, Orphaned, storeVars, procVars, waitVars, runVars, cancelVars, vars
  <2> QED
    BY <2>1, LosingKeepsPlaces DEF Alive
<1>3. ASSUME NEW e \in Engines, NEW j \in Jobs, Cancel(e, j)
      PROVE  PlaceInv'
  <2>1. UNCHANGED <<status, mode, sub, phase, slot, queue, active>>
    BY <1>3 DEF Cancel, procVars, waitVars, runVars
  <2>2. {j} \cap Own(e) \in SUBSET Jobs /\ "client" \in CancelledBy
    BY DEF CancelledBy
  <2>3. /\ calls \subseteq calls'
        /\ \A k \in Jobs : \A by, waits : <<k, by, waits>> \in calls' =>
             <<k, by, waits>> \in calls \/ (k \in active /\ (waits = "unawaited" => k \in MayDrop))
    <3>1. CASE UNCHANGED cancelVars
      BY <3>1 DEF cancelVars
    <3>2. ASSUME NEW waits \in {"marked", "unawaited"}, CancelLocal({j} \cap Own(e), "client", waits),
                 waits = "unawaited" => j \in MayDrop
          PROVE  <2>3!1 /\ <2>3!2
      BY <2>2, <3>2, CancelAdds
    <3> QED
      BY <1>3, <3>1, <3>2, CancelIsLocal
  <2> QED
    BY <2>1, <2>3, LosingKeepsPlaces DEF Alive
<1> QED
  BY <1>1, <1>2, <1>3, EngineKeepsPlaces, SubmitKeepsPlaces, CancelKeepsPlaces, RunKeepsPlaces DEF Next


-----------------------------------------------------------------------------
(* The workers: a runtime is at work only for a job that holds a permit. *)

PermitOf(j) ==
  /\ phase[j] \in {"picked", "conversing"} /\ Alive(Owner[j]) => j \in permit
  /\ runtime[j] = "busy" => phase[j] = "conversing"

PermitsCounted(e) ==
  IsFiniteSet(permit \cap Own(e)) /\ Cardinality(permit \cap Own(e)) <= Workers

PermitInv == (\A j \in Jobs : PermitOf(j)) /\ (\A e \in Engines : PermitsCounted(e))

LEMMA PermitsBoundWorkers ==
  ASSUME PermitInv
  PROVE  WorkersBound
<1> SUFFICES ASSUME NEW e \in Engines, Alive(e)
             PROVE  Cardinality({j \in Own(e) : runtime[j] = "busy"}) <= Workers
  BY DEF WorkersBound
<1> DEFINE busy == {j \in Own(e) : runtime[j] = "busy"}
<1>1. busy \subseteq permit \cap Own(e)
  BY DEF PermitInv, PermitOf, Own
<1>2. IsFiniteSet(permit \cap Own(e)) /\ Cardinality(permit \cap Own(e)) <= Workers
  BY DEF PermitInv, PermitsCounted
<1>3. IsFiniteSet(busy) /\ Cardinality(busy) <= Cardinality(permit \cap Own(e))
  BY <1>1, <1>2, FS_Subset
<1>4. Cardinality(busy) \in Nat /\ Cardinality(permit \cap Own(e)) \in Nat /\ Workers \in Nat
  BY <1>2, <1>3, FS_CardinalityType, BoundsAssumption
<1> QED
  BY <1>2, <1>3, <1>4

LEMMA FewerPermits ==
  ASSUME NEW e \in Engines, PermitsCounted(e), permit' \cap Own(e) \subseteq permit
  PROVE  PermitsCounted(e)'
<1>1. permit' \cap Own(e) \subseteq permit \cap Own(e)
  OBVIOUS
<1>2. IsFiniteSet(permit \cap Own(e)) /\ Cardinality(permit \cap Own(e)) <= Workers
  BY DEF PermitsCounted
<1>3. /\ IsFiniteSet(permit' \cap Own(e))
      /\ Cardinality(permit' \cap Own(e)) <= Cardinality(permit \cap Own(e))
  BY <1>1, <1>2, FS_Subset
<1>4. /\ Cardinality(permit' \cap Own(e)) \in Nat /\ Cardinality(permit \cap Own(e)) \in Nat
      /\ Workers \in Nat
  BY <1>2, <1>3, FS_CardinalityType, BoundsAssumption
<1>5. Cardinality(permit' \cap Own(e)) <= Workers
  BY <1>2, <1>3, <1>4
<1> QED
  BY <1>3, <1>5 DEF PermitsCounted, Own

\* The permits of an engine after one of its free permits is taken.
LEMMA PermitTaken ==
  ASSUME NEW j \in Jobs, j \in permit \/ PermitFree(j), permit' = permit \cup {j},
         NEW e \in Engines, PermitsCounted(e)
  PROVE  PermitsCounted(e)'
<1>1. CASE Owner[j] # e \/ j \in permit
  <2>1. permit' \cap Own(e) \subseteq permit
    BY <1>1 DEF Own
  <2> QED
    BY <2>1, FewerPermits
<1>2. CASE Owner[j] = e /\ j \notin permit
  <2>1. permit' \cap Own(e) = (permit \cap Own(e)) \cup {j} /\ j \notin permit \cap Own(e)
    BY <1>2 DEF Own
  <2>2. IsFiniteSet(permit \cap Own(e)) /\ Cardinality(permit \cap Own(e)) < Workers
    BY <1>2 DEF PermitsCounted, PermitFree
  <2>3. /\ IsFiniteSet(permit' \cap Own(e))
        /\ Cardinality(permit' \cap Own(e)) = Cardinality(permit \cap Own(e)) + 1
    BY <2>1, <2>2, FS_AddElement, SMTT(30)
  <2>4. Cardinality(permit \cap Own(e)) \in Nat /\ Workers \in Nat
    BY <2>2, FS_CardinalityType, BoundsAssumption
  <2>5. Cardinality(permit' \cap Own(e)) <= Workers
    BY <2>2, <2>3, <2>4
  <2> QED
    BY <2>3, <2>5 DEF PermitsCounted, Own
<1> QED
  BY <1>1, <1>2

\* A step of one job that takes no permit, or a free one.
LEMMA OneJobKeepsPermits ==
  ASSUME PermitInv, NEW j \in Jobs, PermitOf(j)', UNCHANGED mode,
         \A k \in Jobs \ {j} : phase'[k] = phase[k] /\ runtime'[k] = runtime[k],
         \/ permit' \in {permit, permit \ {j}}
         \/ permit' = permit \cup {j} /\ (j \in permit \/ PermitFree(j))
  PROVE  PermitInv'
<1>1. \A k \in Jobs \ {j} : k \in permit => k \in permit'
  OBVIOUS
<1>2. \A k \in Jobs : PermitOf(k)'
  BY <1>1 DEF PermitInv, PermitOf, Alive
<1>3. ASSUME NEW e \in Engines
      PROVE  PermitsCounted(e)'
  <2>1. PermitsCounted(e)
    BY DEF PermitInv
  <2>2. CASE permit' \cap Own(e) \subseteq permit
    BY <2>1, <2>2, FewerPermits
  <2>3. CASE permit' = permit \cup {j} /\ (j \in permit \/ PermitFree(j))
    BY <2>1, <2>3, PermitTaken
  <2> QED
    BY <2>2, <2>3
<1> QED
  BY <1>2, <1>3 DEF PermitInv

\* A step that takes no permit, and permits only from engines that are gone.
LEMMA SameKeepsPermits ==
  ASSUME PermitInv, UNCHANGED <<phase, runtime>>, permit' \subseteq permit,
         \A j \in Jobs : Alive(Owner[j])' => \/ Alive(Owner[j]) /\ (j \in permit => j \in permit')
                                           \/ phase[j] = "idle"
  PROVE  PermitInv'
<1>1. \A j \in Jobs : PermitOf(j)'
  BY DEF PermitInv, PermitOf
<1>2. ASSUME NEW e \in Engines
      PROVE  PermitsCounted(e)'
  BY FewerPermits DEF PermitInv
<1> QED
  BY <1>1, <1>2 DEF PermitInv

LEMMA EngineKeepsPermits ==
  ASSUME TypeOK, RowInv, HealthInv, PermitInv, NEW e \in Engines, EngineStep(e)
  PROVE  PermitInv'
<1>1. CASE Boot(e)
  <2>1. /\ mode[e] = "off" /\ mode' = [mode EXCEPT ![e] = "up"]
        /\ UNCHANGED <<phase, runtime, permit>>
    BY <1>1 DEF Boot, waitVars, runVars
  <2>2. \A j \in Jobs : Alive(Owner[j])' => Alive(Owner[j]) \/ phase[j] = "idle"
    BY <2>1, OwnerAssumption DEF HealthInv, ProcessInv, RowInv, SubmitInv, Own, Alive, TypeOK
  <2> QED
    BY <2>1, <2>2, SameKeepsPermits
<1>2. CASE Exit(e) \/ Crash(e)
  <2>1. /\ UNCHANGED <<phase, runtime>> /\ permit' = permit \ Own(e)
        /\ mode'[e] \in {"gone", "dead"} /\ \A f \in Engines \ {e} : mode'[f] = mode[f]
    BY <1>2 DEF Exit, Crash, Vanish, runVars, TypeOK
  <2>2. \A j \in Jobs : Alive(Owner[j])' => Alive(Owner[j]) /\ j \notin Own(e)
    BY <2>1, OwnerAssumption DEF Own, Alive
  <2> QED
    BY <2>1, <2>2, SameKeepsPermits
<1>3. CASE Dispatch(e)
  <2>1. PICK j \in Jobs : /\ phase' = [phase EXCEPT ![j] = "picked"] /\ PermitFree(j)
                          /\ permit' = permit \cup {j} /\ j = queue[e][1] /\ 1 \in 1..Len(queue[e])
    <3>1. queue[e] \in Seq(Jobs) /\ queue[e] # <<>>
      BY <1>3 DEF Dispatch, TypeOK
    <3>2. Head(queue[e]) \in Jobs /\ Head(queue[e]) = queue[e][1] /\ 1 \in 1..Len(queue[e])
      BY <3>1
    <3> QED
      BY <1>3, <3>2 DEF Dispatch
  <2>2. UNCHANGED <<mode, runtime>>
    BY <1>3 DEF Dispatch, procVars
  <2>3. phase[j] = "idle"
    BY <2>1 DEF RowInv, QueueInv
  <2>4. PermitOf(j)'
    BY <2>1, <2>2, <2>3 DEF PermitInv, PermitOf, TypeOK
  <2>5. \A k \in Jobs \ {j} : phase'[k] = phase[k] /\ runtime'[k] = runtime[k]
    BY <2>1, <2>2 DEF TypeOK
  <2> QED
    BY <2>1, <2>2, <2>4, <2>5, OneJobKeepsPermits
<1>4. CASE \/ GoStale(e) \/ Freeze(e) \/ Thaw(e) \/ Leave(e) \/ Shutdown(e)
           \/ \E reap \in BOOLEAN : Upkeep(e, reap)
  <2>1. /\ UNCHANGED <<phase, runtime, permit>>
        /\ \/ mode' = mode
           \/ Alive(e) /\ \E m \in {"closing", "left"} : mode' = [mode EXCEPT ![e] = m]
    BY <1>4 DEF GoStale, Freeze, Thaw, Leave, Shutdown, Upkeep, procVars, waitVars, runVars, Runs
  <2>2. \A j \in Jobs : Alive(Owner[j])' => Alive(Owner[j])
    BY <2>1, OwnerAssumption DEF Alive, TypeOK
  <2> QED
    BY <2>1, <2>2, SameKeepsPermits
<1> QED
  BY <1>1, <1>2, <1>3, <1>4 DEF EngineStep

LEMMA RunKeepsPermits ==
  ASSUME TypeOK, PermitInv, NEW j \in Jobs, RunStep(j)
  PROVE  PermitInv'
<1>0. PermitOf(j)
  BY DEF PermitInv
<1>1. CASE StartRun(j)
  <2>1. PICK p : phase' = [phase EXCEPT ![j] = p]
    BY <1>1 DEF StartRun, Settle
  <2>2. phase[j] = "picked" /\ UNCHANGED <<mode, permit, runtime>>
    BY <1>1 DEF StartRun, procVars, waitVars
  <2>3. PermitOf(j)'
    BY <1>0, <2>1, <2>2 DEF PermitOf, Alive, TypeOK
  <2> QED
    BY <2>1, <2>2, <2>3, OneJobKeepsPermits DEF TypeOK
<1>2. CASE RefuseRun(j) \/ RunFails(j) \/ Release(j)
  <2>1. /\ phase[j] \in {"picked", "finishing", "releasing"}
        /\ phase' = [phase EXCEPT ![j] = "ended"] /\ permit' = permit \ {j}
        /\ UNCHANGED <<mode, runtime>>
    BY <1>2 DEF RefuseRun, RunFails, Release, EndRun, procVars
  <2>2. PermitOf(j)'
    BY <1>0, <2>1 DEF PermitOf, TypeOK
  <2> QED
    BY <2>1, <2>2, OneJobKeepsPermits DEF TypeOK
<1>3. CASE LockTry(j)
  <2>1. /\ phase[j] = "locking" /\ (j \in permit \/ PermitFree(j)) /\ UNCHANGED <<mode, runtime>>
        /\ \/ phase' = [phase EXCEPT ![j] = "conversing"] /\ permit' = permit \cup {j}
           \/ phase' = phase /\ permit' = permit \ {j}
    BY <1>3 DEF LockTry, procVars
  <2>2. PermitOf(j)'
    BY <1>0, <2>1 DEF PermitOf, TypeOK
  <2> QED
    BY <2>1, <2>2, OneJobKeepsPermits DEF TypeOK
<1>4. CASE LockFails(j) \/ Finish(j)
  <2>1. /\ phase[j] \in {"locking", "finishing"} /\ UNCHANGED <<mode, permit, runtime>>
        /\ \E p \in {"finishing", "releasing"} : phase' = [phase EXCEPT ![j] = p]
    BY <1>4 DEF LockFails, Finish, Settle, procVars, waitVars
  <2>2. PermitOf(j)'
    BY <1>0, <2>1 DEF PermitOf, TypeOK
  <2> QED
    BY <2>1, <2>2, OneJobKeepsPermits DEF TypeOK
<1>5. CASE Deliver(j)
  <2>1. /\ phase[j] = "conversing" /\ UNCHANGED <<mode, permit, phase>>
        /\ runtime' = [runtime EXCEPT ![j] = "busy"]
    BY <1>5 DEF Deliver, procVars, waitVars
  <2>2. PermitOf(j)'
    BY <1>0, <2>1 DEF PermitOf, Alive
  <2> QED
    BY <2>1, <2>2, OneJobKeepsPermits DEF TypeOK
<1>6. CASE Converse(j)
  <2>1. /\ UNCHANGED <<mode, permit>> /\ runtime' = [runtime EXCEPT ![j] = "none"]
        /\ phase' = [phase EXCEPT ![j] = "finishing"]
    BY <1>6 DEF Converse, Settle, procVars, waitVars
  <2>2. PermitOf(j)'
    BY <2>1 DEF PermitOf, TypeOK
  <2> QED
    BY <2>1, <2>2, OneJobKeepsPermits DEF TypeOK
<1> QED
  BY <1>1, <1>2, <1>3, <1>4, <1>5, <1>6 DEF RunStep

LEMMA NextKeepsPermits ==
  ASSUME TypeOK, RowInv, HealthInv, PermitInv, [Next]_vars
  PROVE  PermitInv'
<1>1. ASSUME NEW j \in Jobs, NEW ending \in CancelledBy \cup {"timeout"}, Abort(j, ending)
      PROVE  PermitInv'
  <2>1. /\ UNCHANGED <<mode, permit>> /\ runtime' = [runtime EXCEPT ![j] = "none"]
        /\ phase' = [phase EXCEPT ![j] = "finishing"]
    BY <1>1 DEF Abort, Settle, procVars, waitVars
  <2>2. PermitOf(j)'
    BY <2>1 DEF PermitOf, TypeOK
  <2> QED
    BY <2>1, <2>2, OneJobKeepsPermits DEF TypeOK
<1>2. ASSUME NEW j \in Jobs, Answer(j) \/ Orphaned(j)
      PROVE  PermitInv'
  <2>1. /\ UNCHANGED <<mode, permit, phase>>
        /\ \E r \in {"answered", "none"} : runtime' = [runtime EXCEPT ![j] = r]
    BY <1>2 DEF Answer, Orphaned, procVars, waitVars, runVars
  <2>2. PermitOf(j)'
    BY <2>1 DEF PermitInv, PermitOf, Alive, TypeOK
  <2> QED
    BY <2>1, <2>2, OneJobKeepsPermits DEF TypeOK
<1>3. ASSUME \/ UNCHANGED vars
             \/ \E e \in Engines, j \in Jobs : Cancel(e, j)
             \/ \E j \in Jobs : SubmitStep(j)
             \/ \E j \in Jobs, by \in CancelledBy : CancelStep(j, by)
      PROVE  PermitInv'
  <2>1. UNCHANGED <<mode, phase, runtime, permit>>
    BY <1>3 DEF Cancel, SubmitStep, Admit, Insert, InsertFails, Abandon, Enqueue, CancelStep, CancelQueued,
       CancelWon, CancelFails, procVars, waitVars, runVars, vars
  <2> QED
    BY <2>1, SameKeepsPermits DEF Alive
<1> QED
  BY <1>1, <1>2, <1>3, EngineKeepsPermits, RunKeepsPermits DEF Next

(* A place in the queue is held exactly as long as its job waits, and no engine
   has more runtimes at work than it has workers (mod.rs, submit and Slot;
   active.rs, leave_queue; execute.rs, lock_scene). *)
THEOREM CapacityKept == Spec => []CapacityIsKept
<1> DEFINE CapInv == TypeInv /\ RowInv /\ HealthInv /\ PlaceInv /\ PermitInv
<1>1. Init => CapInv
  <2> SUFFICES ASSUME Init
               PROVE  CapInv
    OBVIOUS
  <2>1. HealthInv /\ PlaceInv
    BY DEF Init, HealthInv, ProcessInv, HealthyEngineKeepsItsJobs, Own, PlaceInv, PlaceOf, Called
  <2>2. ASSUME NEW e \in Engines
        PROVE  PermitsCounted(e)
    <3>1. permit \cap Own(e) = {}
      BY DEF Init
    <3> QED
      BY <3>1, FS_EmptySet, BoundsAssumption DEF PermitsCounted
  <2>3. PermitInv
    BY <2>2 DEF Init, PermitInv, PermitOf
  <2> QED
    BY <2>1, <2>3, InitTypeInv, InitRows
<1>2. CapInv /\ [Next]_vars => CapInv'
  BY NextType, NextKeepsRows, NextKeepsHealth, NextKeepsPlaces, NextKeepsPermits DEF TypeInv
<1>3. CapInv => CapacityIsKept
  BY PlacesAccountForQueue, PermitsBoundWorkers DEF CapacityIsKept, TypeInv
<1> QED
  BY <1>1, <1>2, <1>3, PTL DEF Spec

-----------------------------------------------------------------------------
(* No job is left without a step that ends and announces it. *)

\* Nobody can cancel a job that its submission has not handed over, nor does
\* it hold a scene.
Unheard(j) ==
  sub[j] # "done" => j \notin active /\ token[j] = "none" /\ \A s \in Scenes : lock[s] # j

HandOf(j) ==
  /\ Alive(Owner[j]) /\ Owner[j] \notin MayFail /\ sub[j] # "dropped" => Followed(j)
  /\ GivesBack(j) /\ Unheard(j)

HandInv == \A j \in Jobs : HandOf(j)

\* A cancellation of job j is on its way to the store.
Reached(j) == \E by \in CancelledBy, waits \in {"marked", "unawaited"} : <<j, by, waits>> \in calls

\* A step that does not move job j: its row may be failed, and it may be
\* cancelled if that is on its way then.
LEMMA StillInHand ==
  ASSUME TypeOK, NEW j \in Jobs, HandOf(j), Ends(j),
         sub'[j] = sub[j], phase'[j] = phase[j], told'[j] = told[j], Waits(j) => Waits(j)',
         j \in active' <=> j \in active, j \in permit' => j \in permit,
         \A s \in Scenes : lock'[s] = j => lock[s] = j,
         \A by, what : <<j, by, what>> \in calls => <<j, by, what>> \in calls',
         token'[j] = token[j] \/ (j \in active /\ Reached(j)'),
         Alive(Owner[j])' => Alive(Owner[j])
  PROVE  HandOf(j)'
<1>1. InHand(j) => InHand(j)'
  BY DEF InHand
<1>2. (Alive(Owner[j]) /\ Owner[j] \notin MayFail /\ sub[j] # "dropped" => Followed(j))'
  <2> SUFFICES ASSUME Alive(Owner[j])', Owner[j] \notin MayFail, sub[j] # "dropped"
               PROVE  Followed(j)'
    OBVIOUS
  <2>1. Followed(j)
    BY DEF HandOf
  <2>2. CASE status'[j] = status[j]
    BY <1>1, <2>1, <2>2 DEF Followed, Reached
  <2>3. CASE status[j] \in Unfinished /\ status'[j] \in Endings
    BY <1>1, <2>1, <2>3 DEF Followed, Reached, Unfinished, Endings, CancelledBy
  <2> QED
    BY <2>2, <2>3 DEF Ends
<1>3. GivesBack(j)'
  BY DEF HandOf, GivesBack, Ends, Unfinished, Endings, CancelledBy
<1>4. Unheard(j)'
  BY DEF HandOf, Unheard
<1> QED
  BY <1>2, <1>3, <1>4 DEF HandOf

\* Cancelling marks every job it gives a reason.
LEMMA CancelMarks ==
  ASSUME TypeOK, NEW js \in SUBSET Jobs, NEW by \in CancelledBy,
         NEW waits \in {"marked", "unawaited"}, CancelLocal(js, by, waits)
  PROVE  /\ calls \subseteq calls'
         /\ \A j \in Jobs : token'[j] = token[j] \/ (j \in active /\ Reached(j)')
<1>1. calls' = calls \cup ((js \cap active) \X {by} \X {waits})
  BY DEF CancelLocal
<1>2. ASSUME NEW j \in Jobs, token'[j] # token[j]
      PROVE  j \in active /\ Reached(j)'
  <2>1. j \in js \cap active
    BY <1>2 DEF CancelLocal
  <2>2. <<j, by, waits>> \in calls'
    BY <1>1, <2>1
  <2> QED
    BY <2>1, <2>2 DEF Reached
<1> QED
  BY <1>1, <1>2

\* A step that moves no job.
LEMMA NoneMoves ==
  ASSUME TypeOK, HandInv, UNCHANGED <<sub, queue, active, permit, phase, told>>,
         \A j \in Jobs : Ends(j),
         \A s \in Scenes : lock'[s] = lock[s] \/ lock'[s] = NoJob,
         calls \subseteq calls',
         \A j \in Jobs : token'[j] = token[j] \/ (j \in active /\ Reached(j)'),
         \A j \in Jobs : Alive(Owner[j])' => Alive(Owner[j])
  PROVE  HandInv'
<1> SUFFICES ASSUME NEW j \in Jobs PROVE HandOf(j)'
  BY DEF HandInv
<1>1. HandOf(j) /\ j # NoJob
  BY NoJobAssumption DEF HandInv
<1>2. \A s \in Scenes : lock'[s] = j => lock[s] = j
  BY <1>1
<1>3. Waits(j) => Waits(j)'
  BY DEF Waits
<1> QED
  BY <1>1, <1>2, <1>3, StillInHand

\* A reap only frees locks.
LEMMA ReapFrees ==
  ASSUME TypeOK, NEW e \in Engines, RenewAndReap(e)
  PROVE  \A s \in Scenes : lock'[s] = lock[s] \/ lock'[s] = NoJob
BY DEF RenewAndReap

\* The steps of an engine that move no job.
LEMMA EngineKeepsHand ==
  ASSUME TypeInv, RowInv, HealthInv, HandInv, NEW e \in Engines, EngineStep(e), ~ Dispatch(e)
  PROVE  HandInv'
<1>0. TypeOK
  BY DEF TypeInv
<1>1. CASE Boot(e)
  <2> SUFFICES ASSUME NEW j \in Jobs PROVE HandOf(j)'
    BY DEF HandInv
  <2>1. /\ RenewAndReap(e) /\ UNCHANGED <<sub, queue, active, permit, phase, told, token, calls>>
        /\ mode[e] = "off" /\ mode' = [mode EXCEPT ![e] = "up"]
    BY <1>1 DEF Boot, waitVars, runVars, cancelVars
  <2>2. Ends(j) /\ HandOf(j) /\ j # NoJob /\ Owner[j] \in Engines
    BY <1>0, <2>1, ReapEnds, OwnerAssumption, NoJobAssumption DEF HandInv
  <2>3. \A s \in Scenes : lock'[s] = j => lock[s] = j
    BY <1>0, <2>1, <2>2, ReapFrees
  <2>4. Waits(j)' <=> Waits(j)
    BY <2>1 DEF Waits
  <2>5. CASE Owner[j] # e
    <3>1. Alive(Owner[j])' => Alive(Owner[j])
      BY <1>0, <2>1, <2>2, <2>5 DEF Alive, TypeOK
    <3> QED
      BY <1>0, <2>1, <2>2, <2>3, <2>4, <3>1, StillInHand
  <2>6. CASE Owner[j] = e
    <3>1. sub[j] = "none" /\ status[j] = "absent"
      BY <2>1, <2>6 DEF HealthInv, ProcessInv, Own, RowInv, SubmitInv
    <3>2. status'[j] = "absent"
      BY <2>2, <3>1 DEF Ends, Unfinished
    <3>3. Followed(j)'
      BY <3>2 DEF Followed, Unfinished, Endings, CancelledBy
    <3>4. GivesBack(j)' /\ Unheard(j)'
      BY <2>1, <2>2, <2>3, <3>1, <3>2 DEF HandOf, GivesBack, Unheard
    <3> QED
      BY <3>3, <3>4 DEF HandOf
  <2> QED
    BY <2>5, <2>6
<1>2. ASSUME NEW reap \in BOOLEAN, Upkeep(e, reap) PROVE HandInv'
  <2>1. /\ CancelLocal(Asked(e), "client", "marked") /\ Asked(e) \in SUBSET Jobs /\ "client" \in CancelledBy
        /\ UNCHANGED <<sub, queue, active, permit, phase, told, mode>>
    BY <1>2 DEF Upkeep, Asked, Own, CancelledBy, waitVars, runVars
  <2>2. (\A j \in Jobs : Ends(j)) /\ (\A s \in Scenes : lock'[s] = lock[s] \/ lock'[s] = NoJob)
    BY <1>0, <1>2, ReapEnds, ReapFrees DEF Upkeep, Ends
  <2> QED
    BY <1>0, <2>1, <2>2, CancelMarks, NoneMoves DEF Alive
<1>3. CASE Shutdown(e)
  <2>1. /\ CancelLocal(Own(e), "shutdown", "marked") /\ Own(e) \in SUBSET Jobs /\ "shutdown" \in CancelledBy
        /\ UNCHANGED <<status, lock, sub, queue, active, permit, phase, told>>
        /\ mode[e] = "up" /\ mode' = [mode EXCEPT ![e] = "closing"]
    BY <1>3 DEF Shutdown, Own, CancelledBy, waitVars, runVars, storeVars
  <2>2. \A j \in Jobs : Alive(Owner[j])' => Alive(Owner[j])
    BY <1>0, <2>1, OwnerAssumption DEF Alive, TypeOK
  <2> QED
    BY <1>0, <2>1, <2>2, CancelMarks, NoneMoves DEF Ends
<1>4. CASE GoStale(e) \/ Leave(e) \/ Freeze(e) \/ Thaw(e)
  <2>1. UNCHANGED <<status, sub, queue, active, permit, phase, told, token, calls>>
    BY <1>4 DEF GoStale, Leave, Freeze, Thaw, storeVars, waitVars, runVars, cancelVars
  <2>2. \A s \in Scenes : lock'[s] = lock[s] \/ lock'[s] = NoJob
    BY <1>4 DEF GoStale, Leave, Freeze, Thaw, storeVars
  <2>3. \A j \in Jobs : Alive(Owner[j])' => Alive(Owner[j])
    BY <1>0, <1>4, OwnerAssumption DEF GoStale, Leave, Freeze, Thaw, procVars, Alive, TypeOK
  <2> QED
    BY <1>0, <2>1, <2>2, <2>3, NoneMoves DEF Ends
<1>5. CASE Exit(e) \/ Crash(e)
  <2>1. /\ UNCHANGED <<status, lock, sub, phase, told, token>> /\ calls' = {c \in calls : Owner[c[1]] # e}
        /\ queue' = [queue EXCEPT ![e] = <<>>] /\ active' = active \ Own(e) /\ permit' = permit \ Own(e)
        /\ \E how \in {"gone", "dead"} : mode' = [mode EXCEPT ![e] = how]
    BY <1>5 DEF Exit, Crash, Vanish, storeVars, runVars
  <2> SUFFICES ASSUME NEW j \in Jobs PROVE HandOf(j)'
    BY DEF HandInv
  <2>2. HandOf(j) /\ Owner[j] \in Engines
    BY OwnerAssumption DEF HandInv
  <2>3. CASE Owner[j] = e
    <3>1. ~ Alive(Owner[j])'
      BY <1>0, <2>1, <2>3 DEF Alive, TypeOK
    <3>2. GivesBack(j)' /\ Unheard(j)'
      BY <2>1, <2>2 DEF HandOf, GivesBack, Unheard
    <3> QED
      BY <3>1, <3>2 DEF HandOf
  <2>4. CASE Owner[j] # e
    <3>1. Alive(Owner[j])' => Alive(Owner[j])
      BY <1>0, <2>1, <2>2, <2>4 DEF Alive, TypeOK
    <3>2. Waits(j) => Waits(j)'
      BY <1>0, <2>1, <2>2, <2>4 DEF Waits, TypeOK
    <3>3. \A by, what : <<j, by, what>> \in calls => <<j, by, what>> \in calls'
      BY <2>1, <2>4
    <3>4. (j \in active' <=> j \in active) /\ (j \in permit' => j \in permit) /\ Ends(j)
      BY <2>1, <2>4 DEF Own, Ends
    <3> QED
      BY <1>0, <2>1, <2>2, <3>1, <3>2, <3>3, <3>4, StillInHand
  <2> QED
    BY <2>3, <2>4
<1> QED
  BY <1>1, <1>2, <1>3, <1>4, <1>5 DEF EngineStep

\* A step of the others leaves a job where it is.
LEMMA OneMoves ==
  ASSUME TypeOK, HandInv, NEW j \in Jobs, HandOf(j)', UNCHANGED mode,
         \A k \in Jobs \ {j} : Waits(k) => Waits(k)',
         \A k \in Jobs \ {j} :
           /\ status'[k] = status[k] /\ sub'[k] = sub[k] /\ phase'[k] = phase[k] /\ told'[k] = told[k]
           /\ token'[k] = token[k] /\ (k \in active' <=> k \in active) /\ (k \in permit' => k \in permit)
           /\ \A by, what : <<k, by, what>> \in calls => <<k, by, what>> \in calls'
           /\ \A s \in Scenes : lock'[s] = k => lock[s] = k
  PROVE  HandInv'
<1> SUFFICES ASSUME NEW k \in Jobs \ {j} PROVE HandOf(k)'
  BY DEF HandInv
<1>1. HandOf(k)
  BY DEF HandInv
<1>2. Alive(Owner[k])' => Alive(Owner[k])
  BY DEF Alive
<1> QED
  BY <1>1, <1>2, StillInHand DEF Ends

\* The dispatcher hands its job to a run.
LEMMA DispatchKeepsHand ==
  ASSUME TypeInv, RowInv, HandInv, NEW e \in Engines, Dispatch(e)
  PROVE  HandInv'
<1>0. TypeOK
  BY DEF TypeInv
<1>1. PICK j : j = Head(queue[e])
  OBVIOUS
<1>2. /\ queue[e] # <<>> /\ queue' = [queue EXCEPT ![e] = Tail(queue[e])]
      /\ phase' = [phase EXCEPT ![j] = "picked"] /\ permit' = permit \cup {j}
      /\ UNCHANGED <<status, lock, mode, sub, active, told, token, calls>>
  BY <1>1 DEF Dispatch, storeVars, procVars, cancelVars
<1>3. j \in Jobs /\ j = queue[e][1] /\ 1 \in 1..Len(queue[e])
  <2>1. queue[e] \in Seq(Jobs)
    BY <1>0 DEF TypeOK
  <2> QED
    BY <1>1, <1>2, <2>1
<1>4. sub[j] = "done" /\ phase[j] = "idle" /\ status[j] \in Ready /\ HandOf(j)
  BY <1>3 DEF RowInv, QueueInv, HandInv
<1>5. HandOf(j)'
  <2>1. InHand(j)' /\ phase'[j] = "picked"
    BY <1>0, <1>2, <1>3 DEF InHand, TypeOK
  <2>2. Followed(j) => Followed(j)'
    BY <1>2, <1>3, <2>1 DEF Followed
  <2>3. GivesBack(j)' /\ Unheard(j)'
    BY <1>2, <1>3, <1>4, <2>1 DEF HandOf, GivesBack, Unheard
  <2> QED
    BY <1>2, <1>4, <2>2, <2>3 DEF HandOf, Alive
<1>6. \A k \in Jobs \ {j} : Waits(k) => Waits(k)'
  BY <1>0, <1>1, <1>2, TheOthersWait
<1>7. \A k \in Jobs \ {j} : phase'[k] = phase[k] /\ (k \in permit' => k \in permit)
  BY <1>0, <1>2, <1>3 DEF TypeOK
<1> QED
  BY <1>0, <1>2, <1>3, <1>5, <1>6, <1>7, OneMoves

\* A submission hands its job to the dispatcher.
LEMMA SubmitKeepsHand ==
  ASSUME TypeInv, RowInv, HandInv, NEW j \in Jobs, SubmitStep(j)
  PROVE  HandInv'
<1>0. TypeOK /\ HandOf(j)
  BY DEF TypeInv, HandInv
<1>1. CASE Admit(j) \/ InsertFails(j)
  <2>1. /\ UNCHANGED <<status, lock, mode, queue, active, permit, phase, told, token, calls>>
        /\ sub[j] \in {"none", "admitted"} \/ (sub[j] = "dropped" /\ status[j] = "absent")
        /\ \E s \in {"admitted", "done"} : sub' = [sub EXCEPT ![j] = s]
    BY <1>1 DEF Admit, InsertFails, Inserting, storeVars, procVars, runVars, cancelVars
  <2>2. status[j] = "absent"
    BY <2>1 DEF RowInv, SubmitInv
  <2>3. Followed(j)'
    BY <2>1, <2>2 DEF Followed, Unfinished, Endings, CancelledBy
  <2>4. GivesBack(j)' /\ Unheard(j)'
    BY <1>0, <2>1 DEF HandOf, GivesBack, Unheard
  <2>5. HandOf(j)'
    BY <2>3, <2>4 DEF HandOf
  <2>6. \A k \in Jobs \ {j} : sub'[k] = sub[k] /\ (Waits(k) => Waits(k)')
    BY <1>0, <2>1 DEF TypeOK, Waits
  <2> QED
    BY <1>0, <2>1, <2>5, <2>6, OneMoves
<1>2. CASE Insert(j)
  <2>1. /\ UNCHANGED <<lock, mode, queue, active, permit, phase, told, token, calls>>
        /\ sub[j] = "admitted" \/ (sub[j] = "dropped" /\ status[j] = "absent")
        /\ sub' = [sub EXCEPT ![j] = IF sub[j] = "admitted" THEN "inserted" ELSE sub[j]]
        /\ status' = [status EXCEPT ![j] = "queued"]
    BY <1>2 DEF Insert, Inserting, procVars, runVars, cancelVars
  <2>2. /\ status[j] = "absent" /\ phase[j] = "idle" /\ sub'[j] \in {"inserted", "dropped"}
        /\ status'[j] = "queued"
    BY <1>0, <2>1 DEF RowInv, SubmitInv, TypeOK
  <2>3. token[j] = "none" /\ j \notin active
    BY <1>0, <2>1 DEF HandOf, Unheard
  <2>4. sub'[j] # "dropped" => Followed(j)'
    BY <2>1, <2>2, <2>3 DEF Followed, InHand, Unfinished, Endings, CancelledBy
  <2>5. GivesBack(j)' /\ Unheard(j)'
    BY <1>0, <2>1, <2>2, <2>3 DEF HandOf, GivesBack, Unheard, Endings, CancelledBy
  <2>6. HandOf(j)'
    BY <2>4, <2>5 DEF HandOf
  <2>7. \A k \in Jobs \ {j} : sub'[k] = sub[k] /\ status'[k] = status[k] /\ (Waits(k) => Waits(k)')
    BY <1>0, <2>1 DEF TypeOK, Waits
  <2> QED
    BY <1>0, <2>1, <2>6, <2>7, OneMoves
<1>3. CASE Enqueue(j)
  <2>1. /\ UNCHANGED <<status, lock, mode, permit, phase, told>>
        /\ sub[j] = "inserted" /\ sub' = [sub EXCEPT ![j] = "done"] /\ active' = active \cup {j}
        /\ queue' = [queue EXCEPT ![Owner[j]] = Append(queue[Owner[j]], j)]
    BY <1>3 DEF Enqueue, storeVars, procVars, runVars
  <2>2. Waits(j)' /\ \A k \in Jobs : Waits(k) => Waits(k)'
    BY <1>0, <2>1, AllWait
  <2>3. token[j] = "none" /\ phase[j] = "idle"
    BY <1>0, <2>1 DEF HandOf, Unheard, RowInv, SubmitInv
  <2>4. /\ calls \subseteq calls' /\ \A k \in Jobs \ {j} : token'[k] = token[k]
        /\ token'[j] # "none" => Reached(j)'
    <3>1. CASE UNCHANGED <<token, calls>>
      BY <2>3, <3>1
    <3>2. ASSUME NEW waits \in {"marked", "unawaited"},
                 token' = [token EXCEPT ![j] = "shutdown"] /\ calls' = calls \cup {<<j, "shutdown", waits>>}
          PROVE  <2>4
      <4>1. <<j, "shutdown", waits>> \in calls' /\ calls \subseteq calls'
        BY <3>2
      <4>2. Reached(j)'
        BY <4>1 DEF Reached, CancelledBy
      <4> QED
        BY <1>0, <3>2, <4>1, <4>2 DEF TypeOK
    <3>3. \/ UNCHANGED <<token, calls>>
          \/ \E waits \in {"marked", "unawaited"} :
               token' = [token EXCEPT ![j] = "shutdown"] /\ calls' = calls \cup {<<j, "shutdown", waits>>}
      BY <1>3 DEF Enqueue, cancelVars
    <3> QED
      BY <3>1, <3>2, <3>3
  <2>5. Followed(j)'
    <3>1. InHand(j)'
      BY <2>2 DEF InHand
    <3>2. j \in active'
      BY <2>1
    <3> QED
      BY <2>1, <2>3, <2>4, <3>1, <3>2 DEF Followed, Reached
  <2>6. GivesBack(j)' /\ Unheard(j)'
    BY <1>0, <2>1 DEF HandOf, GivesBack, Unheard, TypeOK
  <2>7. HandOf(j)'
    BY <2>5, <2>6 DEF HandOf
  <2>8. \A k \in Jobs \ {j} : sub'[k] = sub[k] /\ (k \in active' <=> k \in active)
    BY <1>0, <2>1 DEF TypeOK
  <2> QED
    BY <1>0, <2>1, <2>2, <2>4, <2>7, <2>8, OneMoves
<1>4. CASE Abandon(j)
  <2>1. /\ UNCHANGED <<status, lock, mode, queue, active, permit, phase, told, token, calls>>
        /\ sub[j] # "done" /\ sub' = [sub EXCEPT ![j] = "dropped"]
    BY <1>4 DEF Abandon, storeVars, procVars, runVars, cancelVars
  <2>2. sub'[j] = "dropped" /\ \A k \in Jobs \ {j} : sub'[k] = sub[k] /\ (Waits(k) => Waits(k)')
    BY <1>0, <2>1 DEF TypeOK, Waits
  <2>3. HandOf(j)'
    BY <1>0, <2>1, <2>2 DEF HandOf, GivesBack, Unheard
  <2> QED
    BY <1>0, <2>1, <2>2, <2>3, OneMoves
<1> QED
  BY <1>1, <1>2, <1>3, <1>4 DEF SubmitStep

\* A cancellation that found its job queued announces its end.
LEMMA CancelKeepsHand ==
  ASSUME TypeInv, RowInv, HandInv, NEW j \in Jobs, NEW by \in CancelledBy, CancelStep(j, by)
  PROVE  HandInv'
<1>0. TypeOK /\ HandOf(j)
  BY DEF TypeInv, HandInv
<1>1. ASSUME NEW waits \in {"marked", "unawaited"}, CancelQueued(j, by, waits)
      PROVE  HandInv'
  <2>1. /\ UNCHANGED <<lock, mode, sub, queue, active, permit, phase, told, token>>
        /\ status' = IF status[j] = "queued" THEN [status EXCEPT ![j] = by] ELSE status
        /\ calls \ {<<j, by, waits>>} \subseteq calls'
    BY <1>1 DEF CancelQueued, procVars, waitVars, runVars
  <2>2. \A k \in Jobs \ {j} : \A c, what : <<k, c, what>> \in calls => <<k, c, what>> \in calls'
    BY <2>1
  <2>3. \A c : <<j, c, "won">> \in calls => <<j, c, "won">> \in calls'
    BY <2>1
  <2>4. Waits(j)' <=> Waits(j)
    BY <2>1 DEF Waits
  <2>5. InHand(j)' <=> InHand(j)
    BY <2>1, <2>4 DEF InHand
  <2>6. Followed(j) => Followed(j)'
    <3>1. CASE status[j] = "queued"
      <4>1. status'[j] = by /\ by \notin Unfinished
        BY <1>0, <2>1, <3>1 DEF TypeOK, CancelledBy, Unfinished
      <4> QED
        BY <2>5, <3>1, <4>1 DEF Followed, Unfinished, CancelledBy
    <3>2. CASE status[j] # "queued"
      BY <2>1, <2>3, <2>5, <3>2 DEF Followed
    <3> QED
      BY <3>1, <3>2
  <2>7. GivesBack(j)' /\ Unheard(j)'
    <3>1. status'[j] = status[j] \/ status'[j] \in Endings
      BY <1>0, <2>1 DEF TypeOK, Endings
    <3> QED
      BY <1>0, <2>1, <3>1 DEF HandOf, GivesBack, Unheard
  <2>8. HandOf(j)'
    BY <1>0, <2>1, <2>6, <2>7 DEF HandOf, Alive
  <2>9. \A k \in Jobs \ {j} : status'[k] = status[k] /\ (Waits(k) => Waits(k)')
    BY <1>0, <2>1 DEF TypeOK, Waits
  <2> QED
    BY <1>0, <2>1, <2>2, <2>8, <2>9, OneMoves
<1>2. CASE CancelWon(j, by)
  <2>1. /\ UNCHANGED <<status, lock, mode, sub, queue, permit, phase, token>>
        /\ <<j, by, "won">> \in calls /\ calls' = calls \ {<<j, by, "won">>}
        /\ active' = active \ {j} /\ told' = [told EXCEPT ![j] = ClaimPublication(j)]
    BY <1>2 DEF CancelWon, Publish, storeVars, procVars, runVars
  <2>2. status[j] \in Endings /\ status[j] \notin Unfinished
    BY <2>1 DEF RowInv, WonInv, Endings, Unfinished, CancelledBy
  <2>3. told'[j] # 0
    BY <1>0, <2>1 DEF ClaimPublication, TypeOK
  <2>4. Followed(j)'
    BY <2>1, <2>2, <2>3 DEF Followed, Unfinished
  <2>5. GivesBack(j)' /\ Unheard(j)'
    BY <1>0, <2>1 DEF HandOf, GivesBack, Unheard
  <2>6. HandOf(j)'
    BY <2>4, <2>5 DEF HandOf
  <2>7. \A k \in Jobs \ {j} : told'[k] = told[k] /\ (k \in active' <=> k \in active) /\ (Waits(k) => Waits(k)')
    BY <1>0, <2>1 DEF TypeOK, Waits
  <2>8. \A k \in Jobs \ {j} : \A c, what : <<k, c, what>> \in calls => <<k, c, what>> \in calls'
    BY <2>1
  <2> QED
    BY <1>0, <2>1, <2>6, <2>7, <2>8, OneMoves
<1>3. ASSUME NEW waits \in {"marked", "unawaited"}, CancelFails(j, by, waits)
      PROVE  HandInv'
  <2>1. /\ UNCHANGED <<status, lock, mode, sub, queue, active, permit, phase, told, token>>
        /\ Owner[j] \in MayFail /\ calls' = calls \ {<<j, by, waits>>}
    BY <1>3 DEF CancelFails, storeVars, procVars, waitVars, runVars
  <2>2. HandOf(j)'
    BY <1>0, <2>1 DEF HandOf, GivesBack, Unheard
  <2>3. \A k \in Jobs \ {j} : Waits(k) => Waits(k)'
    BY <2>1 DEF Waits
  <2>4. \A k \in Jobs \ {j} : \A c, what : <<k, c, what>> \in calls => <<k, c, what>> \in calls'
    BY <2>1
  <2> QED
    BY <1>0, <2>1, <2>2, <2>3, <2>4, OneMoves
<1> QED
  BY <1>1, <1>2, <1>3 DEF CancelStep

\* A step of j's run that its row and what it holds follow.
LEMMA RunMoves ==
  ASSUME TypeOK, RowInv, HandInv, NEW j \in Jobs, UNCHANGED <<mode, sub, queue, token, calls>>,
         \A k \in Jobs \ {j} :
           /\ status'[k] = status[k] /\ phase'[k] = phase[k] /\ told'[k] = told[k]
           /\ (k \in active' <=> k \in active) /\ (k \in permit' => k \in permit)
           /\ \A s \in Scenes : lock'[s] = k => lock[s] = k,
         active' \subseteq active,
         phase[j] # "idle",
         Owner[j] \notin MayFail => Followed(j)' \/ ~ Followed(j),
         GivesBack(j)'
  PROVE  HandInv'
<1>1. HandOf(j)
  BY DEF HandInv
<1>2. Unheard(j)'
  BY DEF Unheard, RowInv, SubmitInv
<1>3. HandOf(j)'
  BY <1>1, <1>2 DEF HandOf, Alive
<1>4. \A k \in Jobs \ {j} : Waits(k) => Waits(k)'
  BY DEF Waits
<1> QED
  BY <1>3, <1>4, OneMoves

\* A run ends its row, then gives back what it held.
LEMMA RunKeepsHand ==
  ASSUME TypeInv, RowInv, HandInv, NEW j \in Jobs,
         RunStep(j) \/ \E ending \in CancelledBy \cup {"timeout"} : Abort(j, ending)
  PROVE  HandInv'
<1>0. TypeOK /\ HandOf(j) /\ GivesBack(j)
  BY DEF TypeInv, HandInv, HandOf
<1>r. /\ phase[j] = "picked" => status[j] \in Ready
      /\ phase[j] \in {"locking", "conversing", "finishing"} => status[j] \in Live
      /\ phase[j] = "releasing" => status[j] \in Endings
  BY DEF RowInv, RunInv
<1>1. CASE StartRun(j)
  <2>1. /\ UNCHANGED <<lock, mode, sub, queue, active, permit, told, token, calls>>
        /\ phase[j] = "picked" /\ status[j] = "queued" /\ status' = [status EXCEPT ![j] = "running"]
        /\ \E p \in {"conversing", "locking", "finishing"} : phase' = [phase EXCEPT ![j] = p]
    BY <1>1 DEF StartRun, Settle, procVars, waitVars, cancelVars
  <2>2. PICK p \in {"conversing", "locking", "finishing"} : phase' = [phase EXCEPT ![j] = p]
    BY <2>1
  <2>3. phase'[j] = p /\ status'[j] = "running"
    BY <1>0, <2>1, <2>2 DEF TypeOK
  <2>4. Followed(j) => Followed(j)'
    BY <2>1, <2>3 DEF Followed, InHand, Unfinished, Endings, CancelledBy
  <2>5. GivesBack(j)'
    BY <1>0, <2>1, <2>3 DEF GivesBack, Endings, CancelledBy
  <2>6. \A k \in Jobs \ {j} : status'[k] = status[k] /\ phase'[k] = phase[k]
    BY <1>0, <2>1, <2>2 DEF TypeOK
  <2> QED
    BY <1>0, <2>1, <2>4, <2>5, <2>6, RunMoves
<1>2. CASE RefuseRun(j) \/ Release(j)
  <2>1. /\ UNCHANGED <<status, mode, sub, queue, token, calls>> /\ phase[j] \in {"picked", "releasing"}
        /\ status[j] \in Endings
        /\ phase' = [phase EXCEPT ![j] = "ended"] /\ active' = active \ {j} /\ permit' = permit \ {j}
        /\ told' = [told EXCEPT ![j] = ClaimPublication(j)]
    BY <1>r, <1>2 DEF RefuseRun, Release, EndRun, Publish, Ready, storeVars, procVars, cancelVars
  <2>2. \A s \in Scenes : lock'[s] = lock[s] \/ lock'[s] = NoJob
    BY <1>2 DEF RefuseRun, Release, Unlocked, storeVars
  <2>3. told'[j] # 0 /\ status[j] \notin Unfinished
    BY <1>0, <2>1 DEF TypeOK, ClaimPublication, Endings, Unfinished, CancelledBy
  <2>4. Followed(j)'
    BY <2>1, <2>3 DEF Followed, Unfinished
  <2>5. GivesBack(j)'
    BY <2>1 DEF GivesBack
  <2>6. \A k \in Jobs \ {j} :
          /\ phase'[k] = phase[k] /\ told'[k] = told[k] /\ (k \in active' <=> k \in active)
          /\ (k \in permit' => k \in permit) /\ \A s \in Scenes : lock'[s] = k => lock[s] = k
    BY <1>0, <2>1, <2>2, NoJobAssumption DEF TypeOK
  <2> QED
    BY <1>0, <2>1, <2>4, <2>5, <2>6, RunMoves
<1>3. CASE RunFails(j)
  <2>1. /\ UNCHANGED <<status, lock, mode, sub, queue, told, token, calls>> /\ phase[j] \in {"picked", "finishing"}
        /\ Owner[j] \in MayFail
        /\ phase' = [phase EXCEPT ![j] = "ended"] /\ active' = active \ {j} /\ permit' = permit \ {j}
    BY <1>3 DEF RunFails, EndRun, storeVars, procVars, cancelVars
  <2>2. GivesBack(j)'
    BY <2>1 DEF GivesBack
  <2>3. \A k \in Jobs \ {j} :
          phase'[k] = phase[k] /\ (k \in active' <=> k \in active) /\ (k \in permit' => k \in permit)
    BY <1>0, <2>1 DEF TypeOK
  <2> QED
    BY <1>0, <2>1, <2>2, <2>3, RunMoves
<1>4. CASE LockTry(j)
  <2>1. /\ UNCHANGED <<status, mode, sub, queue, active, told, token, calls>> /\ phase[j] = "locking"
        /\ \/ /\ lock' = [lock EXCEPT ![SceneOf[j]] = j] /\ phase' = [phase EXCEPT ![j] = "conversing"]
              /\ permit' = permit \cup {j}
           \/ permit' = permit \ {j} /\ UNCHANGED <<lock, phase>>
    BY <1>4 DEF LockTry, procVars, cancelVars
  <2>2. phase'[j] \in {"locking", "conversing"}
    BY <1>0, <2>1 DEF TypeOK
  <2>3. Followed(j) => Followed(j)'
    BY <2>1, <2>2 DEF Followed, InHand
  <2>4. GivesBack(j)'
    <3>1. CASE phase'[j] = "conversing"
      BY <3>1 DEF GivesBack
    <3>2. CASE phase'[j] # "conversing"
      <4>1. UNCHANGED <<lock, phase>> /\ j \notin permit'
        BY <1>0, <2>1, <3>2 DEF TypeOK
      <4> QED
        BY <1>0, <2>1, <4>1 DEF GivesBack
    <3> QED
      BY <3>1, <3>2
  <2>5. \A k \in Jobs \ {j} :
          /\ phase'[k] = phase[k] /\ (k \in permit' => k \in permit)
          /\ \A s \in Scenes : lock'[s] = k => lock[s] = k
    BY <1>0, <2>1 DEF TypeOK
  <2> QED
    BY <1>0, <2>1, <2>3, <2>4, <2>5, RunMoves
<1>5. CASE LockFails(j) \/ Converse(j) \/ \E ending \in CancelledBy \cup {"timeout"} : Abort(j, ending)
  <2>1. /\ UNCHANGED <<status, lock, mode, sub, queue, active, permit, told, token, calls>>
        /\ phase[j] \in {"locking", "conversing"} /\ phase' = [phase EXCEPT ![j] = "finishing"]
    BY <1>5 DEF LockFails, Converse, Abort, Settle, storeVars, procVars, waitVars, cancelVars
  <2>2. phase'[j] = "finishing" /\ \A k \in Jobs \ {j} : phase'[k] = phase[k]
    BY <1>0, <2>1 DEF TypeOK
  <2>3. Followed(j) => Followed(j)'
    BY <2>1, <2>2 DEF Followed, InHand
  <2>4. GivesBack(j)'
    BY <1>0, <2>1, <2>2 DEF GivesBack
  <2> QED
    BY <1>0, <2>1, <2>2, <2>3, <2>4, RunMoves
<1>6. CASE Deliver(j)
  <2>1. UNCHANGED <<status, lock, mode, sub, queue, active, permit, phase, told, token, calls>> /\ phase[j] # "idle"
    BY <1>6 DEF Deliver, storeVars, procVars, waitVars, cancelVars
  <2>2. Followed(j) => Followed(j)'
    BY <2>1 DEF Followed, InHand, Waits
  <2>3. GivesBack(j)'
    BY <1>0, <2>1 DEF GivesBack
  <2> QED
    BY <1>0, <2>1, <2>2, <2>3, RunMoves
<1>7. CASE Finish(j)
  <2>1. /\ UNCHANGED <<lock, mode, sub, queue, active, permit, told, token, calls>> /\ phase[j] = "finishing"
        /\ phase' = [phase EXCEPT ![j] = "releasing"]
        /\ status' = IF MayFinish(j) THEN [status EXCEPT ![j] = outcome[j]] ELSE status
    BY <1>7 DEF Finish, procVars, waitVars, cancelVars
  <2>2. phase'[j] = "releasing" /\ \A k \in Jobs \ {j} : phase'[k] = phase[k] /\ status'[k] = status[k]
    BY <1>0, <2>1 DEF TypeOK
  <2>3. outcome[j] \in Endings
    BY <1>0, <2>1 DEF TypeInv, Settled, TypeOK
  <2>4. status'[j] \in Endings
    <3>1. CASE MayFinish(j)
      BY <1>0, <2>1, <2>3, <3>1 DEF TypeOK
    <3>2. CASE ~ MayFinish(j)
      BY <1>r, <2>1, <3>2 DEF MayFinish, Live, Unfinished
    <3> QED
      BY <3>1, <3>2
  <2>5. Followed(j)'
    BY <2>2, <2>4 DEF Followed, Endings, Unfinished, CancelledBy
  <2>6. GivesBack(j)'
    BY <2>2, <2>4 DEF GivesBack
  <2> QED
    BY <1>0, <2>1, <2>2, <2>5, <2>6, RunMoves
<1> QED
  BY <1>1, <1>2, <1>3, <1>4, <1>5, <1>6, <1>7 DEF RunStep

\* Every step keeps each job in hand.
LEMMA NextKeepsHand ==
  ASSUME TypeInv, RowInv, HealthInv, HandInv, [Next]_vars
  PROVE  HandInv'
<1>0. TypeOK
  BY DEF TypeInv
<1>1. ASSUME NEW e \in Engines, NEW j \in Jobs, Cancel(e, j) PROVE HandInv'
  <2>1. /\ {j} \cap Own(e) \in SUBSET Jobs /\ "client" \in CancelledBy
        /\ UNCHANGED <<status, lock, mode, sub, queue, active, permit, phase, told>>
    BY <1>1 DEF Cancel, CancelledBy, procVars, waitVars, runVars
  <2>2. /\ calls \subseteq calls'
        /\ \A k \in Jobs : token'[k] = token[k] \/ (k \in active /\ Reached(k)')
    BY <1>0, <1>1, <2>1, CancelIsLocal, CancelMarks DEF cancelVars
  <2> QED
    BY <1>0, <2>1, <2>2, NoneMoves DEF Ends, Alive
<1>2. CASE UNCHANGED vars \/ \E j \in Jobs : Answer(j) \/ Orphaned(j)
  <2>1. UNCHANGED <<status, lock, mode, sub, queue, active, permit, phase, told, token, calls>>
    BY <1>2 DEF Answer, Orphaned, vars, storeVars, procVars, waitVars, runVars, cancelVars
  <2> QED
    BY <1>0, <2>1, NoneMoves DEF Ends, Alive
<1> QED
  BY <1>1, <1>2, EngineKeepsHand, DispatchKeepsHand, SubmitKeepsHand, CancelKeepsHand, RunKeepsHand DEF Next, EngineStep

\* What a dropped submission's job has: its row.
LEMMA DroppedLeaveTheirRows ==
  ASSUME RowInv, PlaceInv, HandInv, NEW j \in Jobs, sub[j] = "dropped"
  PROVE  LeavesItsRow(j)
<1>1. phase[j] = "idle" /\ j \notin active /\ \A s \in Scenes : lock[s] # j
  BY DEF RowInv, SubmitInv, HandInv, HandOf, Unheard
<1>2. j \notin slot
  BY DEF PlaceInv, PlaceOf
<1>3. j \notin permit
  BY <1>1 DEF HandInv, HandOf, GivesBack
<1>4. ~ Waits(j)
  <2>1. Owner[j] \in Engines
    BY OwnerAssumption
  <2> QED
    BY <2>1 DEF Waits, RowInv, QueueInv
<1> QED
  BY <1>1, <1>2, <1>3, <1>4 DEF LeavesItsRow

(* While a process goes on, and unless its store fails it or the server dropped
   its submission, each of its jobs is where a step will end it, each that ended
   is announced or will be, and none keeps a worker or its scene for good,
   however engines stop, freeze, resume, crash, reap and cancel, and clients
   disconnect; a dropped submission leaves its row and nothing else (mod.rs,
   submit and cancel_local; execute.rs, run and finish; maintenance.rs, upkeep). *)
THEOREM NoJobIsLeft == Spec => []NoJobIsForgotten
<1> DEFINE LeftInv == TypeInv /\ RowInv /\ HealthInv /\ PlaceInv /\ HandInv
<1>1. Init => LeftInv
  <2>1. Init => HealthInv /\ PlaceInv
    BY DEF Init, HealthInv, ProcessInv, HealthyEngineKeepsItsJobs, Own, PlaceInv, PlaceOf, Called
  <2>2. ASSUME Init, NEW j \in Jobs PROVE HandOf(j)
    <3>1. j # NoJob
      BY NoJobAssumption
    <3> QED
      BY <2>2, <3>1 DEF Init, HandOf, Followed, GivesBack, Unheard, Unfinished, Endings, CancelledBy
  <2> QED
    BY <2>1, <2>2, InitTypeInv, InitRows DEF HandInv
<1>2. LeftInv /\ [Next]_vars => LeftInv'
  BY NextType, NextKeepsRows, NextKeepsHealth, NextKeepsPlaces, NextKeepsHand DEF TypeInv
<1>3. LeftInv => NoJobIsForgotten
  BY DroppedLeaveTheirRows DEF HandInv, HandOf, NoJobIsForgotten
<1> QED
  BY <1>1, <1>2, <1>3, PTL DEF Spec

=============================================================================

---------------------------- MODULE BridgeProofs ----------------------------
(***************************************************************************)
(* Whatever workers are kept, handed over, spawned, killed or found to     *)
(* misbehave, for any number of jobs and processes: a request is begun at  *)
(* most once and no process works on without its call, no job runs in a    *)
(* worker that started before its manim.cfg was there, and the keeper is   *)
(* never stuck.                                                            *)
(***************************************************************************)
EXTENDS Bridge, TLAPS

Talking == {"conversing", "draining"}
Holding == {"startup", "stamping"} \cup Talking

\* A process that has ended has left nothing behind; one that was sent part of a
\* request, or works on one, has a call; one that is ready has its manim.cfg.
ProcOK(w) ==
  /\ proc[w] \in {"none", "ending"} =>
       loaded[w] = NoCfg /\ out[w] = <<>> /\ w \notin greeted
  /\ w \in greeted \/ (\E i \in 1..Len(out[w]) : out[w][i] = "ready") => loaded[w] # NoCfg
  /\ sent[w] # 0 \/ proc[w] \in {"handling", "answered"} =>
       \E j \in Jobs : worker[j] = w /\ at[j] \in Talking

ProcInv == \A w \in Workers : ProcOK(w)

\* A call has a worker of its own, with its key's manim.cfg or a later one; the
\* worker that began its request does not begin another.
CallOK(j) ==
  /\ worker[j] # NoWorker <=> at[j] \in Holding
  /\ worker[j] # NoWorker =>
       /\ proc[worker[j]] \notin {"none", "ending"} /\ worker[j] # idle
       /\ loaded[worker[j]] # NoCfg => Had(jobKey[j], loaded[worker[j]])
       /\ \A k \in Jobs : worker[k] = worker[j] => k = j
  /\ at[j] \in Holding \ {"startup"} => loaded[worker[j]] # NoCfg
  /\ at[j] \notin {"idle", "done"} => Had(jobKey[j], cfg)
  /\ handled[j] # 0 =>
       /\ handled[j] = 1 /\ at[j] \in Talking
       /\ sent[worker[j]] = 2 /\ proc[worker[j]] \in {"handling", "answered", "exited"}

CallInv == \A j \in Jobs : CallOK(j)

\* The idle worker is a process, with the manim.cfg of the keeper's key or a later one.
IdleOK ==
  /\ idle # NoWorker =>
       /\ proc[idle] \notin {"none", "ending"}
       /\ loaded[idle] # NoCfg => Had(key, loaded[idle])
  /\ Had(key, cfg)

\* With i idle, n failures and r scheduled, the keeper spawns the next worker
\* unless it failed too often.
Goes(i, n, r) ==
  /\ n \in 0..(Backoffs + 1) /\ r \in {"none", "later", "now"}
  /\ i # NoWorker \/ r # "none" => n <= Backoffs
  /\ i = NoWorker /\ n <= Backoffs => r # "none"

KeeperInv ==
  /\ IdleOK
  /\ idle # NoWorker \/ respawn # "none" => failures <= Backoffs
  /\ KeeperIsNeverStuck

BridgeInv == TypeOK /\ ProcInv /\ CallInv /\ KeeperInv

-----------------------------------------------------------------------------
(* Frames *)

\* What was there by one version was there by the next.
LEMMA HadLater ==
  ASSUME NEW t, NEW m \in Nat, NEW n \in Nat, m <= n, Had(t, m)
  PROVE  Had(t, n)
BY DEF Had

\* What was there is a text of some version.
LEMMA HadIsText == ASSUME NEW t, NEW n \in Cfgs, Had(t, n) PROVE t \in Texts
BY BoundAssumption DEF Had, Texts, Cfgs

\* What is there now was there by now.
LEMMA HadNow == ASSUME NEW n \in Nat PROVE Had(Text[n], n)
BY DEF Had


\* A process nobody touches is as it was, its call included.
LEMMA ProcFrame ==
  ASSUME NEW w \in Workers, ProcOK(w),
         proc'[w] = proc[w], loaded'[w] = loaded[w], out'[w] = out[w], sent'[w] = sent[w],
         w \in greeted' <=> w \in greeted,
         \A j \in Jobs : worker[j] = w /\ at[j] \in Talking => worker'[j] = w /\ at'[j] \in Talking
  PROVE  ProcOK(w)'
BY DEF ProcOK

\* A call that does not move is as it was while its worker is.
LEMMA CallFrame ==
  ASSUME NEW j \in Jobs, TypeOK, CallOK(j),
         at'[j] = at[j], worker'[j] = worker[j], jobKey'[j] = jobKey[j],
         handled'[j] = handled[j], cfg' \in Nat, cfg <= cfg',
         worker[j] # NoWorker =>
           /\ proc'[worker[j]] = proc[worker[j]] /\ loaded'[worker[j]] = loaded[worker[j]]
           /\ sent'[worker[j]] = sent[worker[j]] /\ worker[j] # idle'
           /\ \A k \in Jobs : worker'[k] = worker[j] => worker[k] = worker[j]
  PROVE  CallOK(j)'
<1>1. at'[j] \notin {"idle", "done"} => Had(jobKey'[j], cfg')
  <2>1. cfg \in Nat
    BY BoundAssumption DEF TypeOK, Cfgs
  <2>. QED BY <2>1, HadLater DEF CallOK
<1>2. /\ at[j] \in Holding \ {"startup"} => worker[j] # NoWorker
      /\ worker'[j] # NoWorker <=> at'[j] \in Holding
      /\ handled[j] # 0 => worker[j] # NoWorker
  BY DEF CallOK, Holding, Talking
<1>. QED BY <1>1, <1>2 DEF CallOK

\* A new identity is one of an ended process.
LEMMA NewbornIs ==
  ASSUME NEW born, Unborn(born) # {}
  PROVE  Newborn(born) \in Workers \ born /\ proc[Newborn(born)] = "none"
BY DEF Unborn, Newborn

\* What the keeper's loop leaves: the workers it spawned, one of which may be idle.
LEMMA ReplenishEffect ==
  ASSUME TypeOK, NEW i \in Workers \cup {NoWorker}, NEW n, NEW r, NEW born, NEW left,
         Goes(i, n, r), Replenish(i, n, r, born, left)
  PROVE  /\ Goes(idle', failures', respawn') /\ faults' \in 0..MaxFaults
         /\ \/ idle' = i /\ Spawned(born, left)
            \/ /\ idle' \in Workers \ born /\ proc[idle'] = "none"
               /\ Spawned(born \cup {idle'}, left)
<1>. DEFINE G(a, b, c) == Goes(a, b, c)
<1>1. CASE (i # NoWorker \/ r # "now") /\ idle' = i /\ failures' = n /\ respawn' = r
           /\ Spawned(born, left) /\ UNCHANGED faults
  BY <1>1 DEF TypeOK
<1>2. CASE /\ i = NoWorker /\ r = "now" /\ Unborn(born) # {}
           /\ idle' = Newborn(born) /\ failures' = n /\ respawn' = "none"
           /\ Spawned(born \cup {Newborn(born)}, left) /\ UNCHANGED faults
  <2>1. idle' \in Workers \ born /\ proc[idle'] = "none"
    BY <1>2, NewbornIs
  <2>2. Goes(idle', failures', respawn')
    BY <1>2, <2>1, WorkerAssumption DEF Goes
  <2>. QED BY <1>2, <2>1, <2>2 DEF TypeOK
<1>3. CASE /\ i = NoWorker /\ r = "now" /\ Fault
           /\ idle' = NoWorker /\ failures' = n + 1 /\ respawn' = Backoff(n + 1)
           /\ Spawned(born, left)
  <2>1. n + 1 \in 0..(Backoffs + 1)
    BY <1>3, BoundAssumption DEF Goes
  <2>2. Goes(idle', failures', respawn')
    BY <1>3, <2>1, BoundAssumption DEF Goes, Backoff
  <2>. QED BY <1>3, <2>2, BoundAssumption DEF TypeOK, Fault
<1>. QED BY <1>1, <1>2, <1>3 DEF Replenish

\* The keeper's bookkeeping after such a step.
LEMMA KeeperGoes ==
  ASSUME Goes(idle', failures', respawn'), IdleOK'
  PROVE  KeeperInv'
BY DEF Goes, KeeperInv, KeeperIsNeverStuck

\* What spawning the workers born and letting go of those left does to each.
LEMMA SpawnedEach ==
  ASSUME TypeOK, ProcInv, NEW born \in SUBSET Workers, NEW left, Spawned(born, left),
         \A w \in born : proc[w] = "none" /\ w \notin left
  PROVE  \A w \in Workers :
           /\ w \notin born \cup left =>
                /\ proc'[w] = proc[w] /\ loaded'[w] = loaded[w] /\ out'[w] = out[w]
                /\ w \in greeted' <=> w \in greeted
           /\ w \in born => proc'[w] = "starting"
           /\ w \in left => proc'[w] = "ending"
           /\ w \in born \cup left => loaded'[w] = NoCfg /\ out'[w] = <<>> /\ w \notin greeted'
<1>. TAKE w \in Workers
<1>1. ProcOK(w)
  BY DEF ProcInv
<1>2. proc'[w] = (IF w \in born THEN "starting" ELSE IF w \in left THEN "ending" ELSE proc[w])
      /\ loaded'[w] = (IF w \in left THEN NoCfg ELSE loaded[w])
      /\ out'[w] = (IF w \in left THEN <<>> ELSE out[w])
      /\ greeted' = greeted \ left
  BY DEF Spawned
<1>3. w \in born =>
        /\ proc[w] = "none" /\ w \notin left
        /\ loaded[w] = NoCfg /\ out[w] = <<>> /\ w \notin greeted
  BY <1>1 DEF ProcOK
<1>. QED BY <1>2, <1>3

\* Its types.
LEMMA SpawnedTypes ==
  ASSUME TypeOK, NEW born \in SUBSET Workers, NEW left, Spawned(born, left)
  PROVE  /\ proc' \in [Workers -> {"none", "starting", "waiting", "handling", "answered", "exited",
                         "ending"}]
         /\ loaded' \in [Workers -> Cfgs \cup {NoCfg}]
         /\ out' \in [Workers -> Seq(Frames)]
         /\ greeted' \subseteq Workers
<1>1. <<>> \in Seq(Frames)
  OBVIOUS
<1>. QED BY <1>1 DEF TypeOK, Spawned

-----------------------------------------------------------------------------
(* Steps that spawn workers and let go of the idle one *)

\* The processes: those spawned were nobody's, the one let go of had no request.
LEMMA SpawnKeepsProcs ==
  ASSUME TypeOK, ProcInv, CallInv, NEW born \in SUBSET Workers, NEW left \in SUBSET {idle},
         Spawned(born, left), \A w \in born : proc[w] = "none", IdleOK,
         sent' = sent,
         \A j \in Jobs : at[j] \in Talking => worker'[j] = worker[j] /\ at'[j] \in Talking
  PROVE  ProcInv'
<1>1. \A w \in Workers :
        /\ w \notin born \cup left =>
             /\ proc'[w] = proc[w] /\ loaded'[w] = loaded[w] /\ out'[w] = out[w]
             /\ w \in greeted' <=> w \in greeted
        /\ w \in born => proc'[w] = "starting"
        /\ w \in left => proc'[w] = "ending"
        /\ w \in born \cup left => loaded'[w] = NoCfg /\ out'[w] = <<>> /\ w \notin greeted'
  <2>1. \A w \in born : w \notin left
    BY WorkerAssumption DEF IdleOK
  <2>. QED BY <2>1, SpawnedEach
<1>. SUFFICES ASSUME NEW w \in Workers PROVE ProcOK(w)'
  BY DEF ProcInv
<1>2. ProcOK(w)
  BY DEF ProcInv
<1>3. CASE w \notin born \cup left
  BY <1>1, <1>2, <1>3, ProcFrame
<1>4. CASE w \in born \cup left
  <2>1. \A j \in Jobs : worker[j] # w
    BY <1>4, WorkerAssumption DEF CallInv, CallOK, IdleOK, TypeOK
  <2>2. sent'[w] = 0
    BY <1>2, <2>1 DEF ProcOK
  <2>3. /\ proc'[w] \in {"starting", "ending"}
        /\ loaded'[w] = NoCfg /\ out'[w] = <<>> /\ w \notin greeted'
    BY <1>1, <1>4
  <2>. QED BY <2>2, <2>3 DEF ProcOK
<1>. QED BY <1>3, <1>4

\* A worker for job j, who asked for one or spawns its own: it is new, or was idle.
Gives(j, i, born, left) ==
  /\ at[j] \in {"asking", "spawning"}
  /\ at' = [at EXCEPT ![j] = "startup"]
  /\ worker' = [worker EXCEPT ![j] = i]
  /\ i \in Workers /\ i # idle'
  /\ \/ i \in born
     \/ /\ i = idle /\ i \notin left /\ proc[i] \notin {"none", "ending"}
        /\ loaded[i] # NoCfg => Had(jobKey[j], loaded[i])

\* What becomes of the calls meanwhile.
Calls(born, left) ==
  \/ UNCHANGED <<at, worker>>
  \/ \E j \in Jobs : at[j] = "asking" /\ at' = [at EXCEPT ![j] = "spawning"] /\ UNCHANGED worker
  \/ \E j \in Jobs, i \in Workers : Gives(j, i, born, left)

LEMMA SpawnKeepsCalls ==
  ASSUME TypeOK, ProcInv, CallInv, NEW born \in SUBSET Workers, NEW left \in SUBSET {idle},
         Spawned(born, left), \A w \in born : proc[w] = "none", IdleOK,
         UNCHANGED <<cfg, sent, handled, jobKey>>,
         idle' \in born \cup {NoWorker} \/ (idle' = idle /\ idle \notin left),
         Calls(born, left)
  PROVE  CallInv'
<1>1. \A w \in Workers :
        /\ w \notin born \cup left => proc'[w] = proc[w] /\ loaded'[w] = loaded[w]
        /\ w \in born => proc'[w] = "starting" /\ loaded'[w] = NoCfg
  <2>1. \A w \in born : w \notin left
    BY WorkerAssumption DEF IdleOK
  <2>. QED BY <2>1, SpawnedEach
<1>2. cfg' \in Nat /\ cfg <= cfg'
  BY BoundAssumption DEF TypeOK, Cfgs
<1>3. \A k \in Jobs : worker[k] # NoWorker =>
        /\ worker[k] \in Workers /\ worker[k] \notin born \cup left /\ worker[k] # idle'
        /\ worker[k] # idle
  BY DEF CallInv, CallOK, TypeOK
<1>4. \A k \in Jobs : CallOK(k)
  BY DEF CallInv
<1>5. CASE UNCHANGED <<at, worker>>
  <2>. SUFFICES ASSUME NEW k \in Jobs PROVE CallOK(k)'
    BY DEF CallInv
  <2>. QED BY <1>1, <1>2, <1>3, <1>4, <1>5, CallFrame
<1>6. ASSUME NEW j \in Jobs, at[j] = "asking", at' = [at EXCEPT ![j] = "spawning"], UNCHANGED worker
      PROVE  CallInv'
  <2>1. ASSUME NEW k \in Jobs, k # j PROVE CallOK(k)'
    <3>1. at'[k] = at[k]
      BY <1>6, <2>1 DEF TypeOK
    <3>. QED BY <1>1, <1>2, <1>3, <1>4, <1>6, <2>1, <3>1, CallFrame
  <2>2. CallOK(j)'
    <3>1. at'[j] = "spawning"
      BY <1>6 DEF TypeOK
    <3>. QED BY <1>4, <1>6, <3>1 DEF CallOK, Holding, Talking
  <2>. QED BY <2>1, <2>2 DEF CallInv
<1>7. ASSUME NEW j \in Jobs, NEW i \in Workers, Gives(j, i, born, left)
      PROVE  CallInv'
  <2>1. at'[j] = "startup" /\ worker'[j] = i /\ at[j] \in {"asking", "spawning"} /\ i # idle'
        /\ \A k \in Jobs : k # j => at'[k] = at[k] /\ worker'[k] = worker[k]
    BY <1>7 DEF Gives, TypeOK
  <2>2. \A k \in Jobs : worker[k] # i
    <3>1. i \in born \/ i = idle
      BY <1>7 DEF Gives
    <3>. QED BY <1>3, <3>1, WorkerAssumption
  <2>3. ASSUME NEW k \in Jobs, k # j PROVE CallOK(k)'
    <3>1. \A m \in Jobs : worker'[m] = worker[k] => worker[m] = worker[k]
      BY <2>1, <2>2
    <3>2. at'[k] = at[k] /\ worker'[k] = worker[k]
      BY <2>1, <2>3
    <3>. QED BY <1>1, <1>2, <1>3, <1>4, <3>1, <3>2, CallFrame
  <2>4. CallOK(j)'
    <3>1. proc'[i] \notin {"none", "ending"} /\ (loaded'[i] # NoCfg => Had(jobKey[j], loaded'[i]))
      BY <1>1, <1>7 DEF Gives
    <3>2. \A k \in Jobs : worker'[k] = i => k = j
      BY <2>1, <2>2
    <3>3. Had(jobKey[j], cfg) /\ handled[j] = 0
      BY <1>4, <2>1 DEF CallOK, Talking
    <3>. QED BY <2>1, <3>1, <3>2, <3>3, WorkerAssumption DEF CallOK, Holding, Talking
  <2>. QED BY <2>3, <2>4 DEF CallInv
<1>. QED BY <1>5, <1>6, <1>7 DEF Calls

\* The new idle worker.
LEMMA SpawnKeepsIdle ==
  ASSUME TypeOK, ProcInv, NEW born \in SUBSET Workers, NEW left \in SUBSET {idle},
         Spawned(born, left), \A w \in born : proc[w] = "none", IdleOK,
         cfg' = cfg, Had(key', cfg),
         idle' \in born \cup {NoWorker} \/ (key' = key /\ idle' = idle /\ idle \notin left)
  PROVE  IdleOK'
<1>1. \A w \in Workers :
        /\ w \notin born \cup left => proc'[w] = proc[w] /\ loaded'[w] = loaded[w]
        /\ w \in born => proc'[w] = "starting" /\ loaded'[w] = NoCfg
  <2>1. \A w \in born : w \notin left
    BY WorkerAssumption DEF IdleOK
  <2>. QED BY <2>1, SpawnedEach
<1>2. CASE idle' \in born \cup {NoWorker}
  BY <1>1, <1>2 DEF IdleOK
<1>3. CASE key' = key /\ idle' = idle /\ idle \notin left
  <2>1. idle # NoWorker => idle \in Workers \ (born \cup left)
    BY <1>3 DEF TypeOK, IdleOK
  <2>. QED BY <1>1, <1>3, <2>1 DEF IdleOK
<1>. QED BY <1>2, <1>3

-----------------------------------------------------------------------------
(* Steps of one process, of one call, and of a call with its process *)

SameProc(w) ==
  /\ proc'[w] = proc[w] /\ loaded'[w] = loaded[w] /\ out'[w] = out[w] /\ sent'[w] = sent[w]
  /\ w \in greeted' <=> w \in greeted

SameCall(j) ==
  at'[j] = at[j] /\ worker'[j] = worker[j] /\ jobKey'[j] = jobKey[j] /\ handled'[j] = handled[j]

\* A process still there is there, with the manim.cfg it had or has just read.
Stays(w) ==
  /\ proc[w] \notin {"none", "ending"} =>
       proc'[w] \notin {"none", "ending"} /\ loaded'[w] \in {loaded[w], cfg}

LEMMA ProcStep ==
  ASSUME TypeOK, ProcInv, CallInv, IdleOK, NEW w \in Workers,
         UNCHANGED <<cfg, idle, key, at, worker, jobKey, handled>>,
         \A v \in Workers \ {w} : SameProc(v), ProcOK(w)', Stays(w),
         \A j \in Jobs : worker[j] = w /\ handled[j] # 0 =>
           sent'[w] = sent[w] /\ (proc'[w] = proc[w] \/ proc'[w] \in {"answered", "exited"})
  PROVE  ProcInv' /\ CallInv' /\ IdleOK'
<1>1. ProcInv'
  <2>1. ASSUME NEW v \in Workers, v # w PROVE ProcOK(v)'
    BY <2>1, ProcFrame DEF ProcInv, SameProc
  <2>. QED BY <2>1 DEF ProcInv
<1>2. CallInv'
  <2>. SUFFICES ASSUME NEW k \in Jobs PROVE CallOK(k)'
    BY DEF CallInv
  <2>1. CallOK(k)
    BY DEF CallInv
  <2>2. CASE worker[k] # w
    <3>1. cfg' \in Nat /\ cfg <= cfg'
      BY BoundAssumption DEF TypeOK, Cfgs
    <3>2. worker[k] # NoWorker => worker[k] \in Workers \ {w} /\ worker[k] # idle'
      BY <2>1, <2>2 DEF CallOK, TypeOK
    <3>. QED BY <2>1, <3>1, <3>2, CallFrame DEF SameProc
  <2>3. CASE worker[k] = w
    <3>1. /\ proc[w] \notin {"none", "ending"} /\ w # idle /\ at[k] \in Holding
          /\ loaded[w] # NoCfg => Had(jobKey[k], loaded[w])
          /\ \A m \in Jobs : worker[m] = w => m = k
          /\ at[k] \in Holding \ {"startup"} => loaded[w] # NoCfg
          /\ at[k] \notin {"idle", "done"} => Had(jobKey[k], cfg)
      BY <2>1, <2>3, WorkerAssumption DEF CallOK
    <3>2. Had(jobKey[k], cfg)
      BY <3>1 DEF Holding, Talking, TypeOK, Cfgs
    <3>3. cfg # NoCfg
      BY DEF TypeOK, Cfgs, NoCfg
    <3>4. /\ proc'[w] \notin {"none", "ending"} /\ loaded'[w] \in {loaded[w], cfg}
      BY <3>1 DEF Stays
    <3>5. handled[k] # 0 =>
            /\ handled[k] = 1 /\ at[k] \in Talking
            /\ sent'[w] = 2 /\ proc'[w] \in {"handling", "answered", "exited"}
      BY <2>1, <2>3 DEF CallOK
    <3>. QED BY <2>3, <3>1, <3>2, <3>3, <3>4, <3>5, WorkerAssumption DEF CallOK
  <2>. QED BY <2>2, <2>3
<1>3. IdleOK'
  <2>1. CASE idle = w
    <3>1. Had(key, cfg) /\ proc[w] \notin {"none", "ending"} /\ (loaded[w] # NoCfg => Had(key, loaded[w]))
      BY <2>1, WorkerAssumption DEF IdleOK
    <3>. QED BY <2>1, <3>1 DEF IdleOK, Stays
  <2>2. CASE idle # w
    <3>1. idle # NoWorker => SameProc(idle)
      BY <2>2 DEF TypeOK
    <3>. QED BY <3>1 DEF IdleOK, SameProc
  <2>. QED BY <2>1, <2>2
<1>. QED BY <1>1, <1>2, <1>3

LEMMA CallMove ==
  ASSUME TypeOK, ProcInv, CallInv, IdleOK, NEW j \in Jobs,
         UNCHANGED <<idle, key, procVars>>, cfg' \in Nat, cfg <= cfg', worker' = worker,
         \A k \in Jobs \ {j} : SameCall(k), CallOK(j)', at[j] \in Talking => at'[j] \in Talking
  PROVE  ProcInv' /\ CallInv' /\ IdleOK'
<1>1. ProcInv'
  <2>. SUFFICES ASSUME NEW w \in Workers PROVE ProcOK(w)'
    BY DEF ProcInv
  <2>. QED BY ProcFrame DEF ProcInv, SameCall, procVars
<1>2. CallInv'
  <2>1. ASSUME NEW k \in Jobs, k # j PROVE CallOK(k)'
    <3>1. worker[k] # NoWorker => worker[k] # idle'
      BY DEF CallInv, CallOK
    <3>2. SameCall(k) /\ CallOK(k)
      BY <2>1 DEF CallInv
    <3>. QED BY <3>1, <3>2, CallFrame DEF SameCall, procVars
  <2>. QED BY <2>1 DEF CallInv
<1>3. IdleOK'
  <2>1. cfg \in Nat
    BY BoundAssumption DEF TypeOK, Cfgs
  <2>. QED BY <2>1, HadLater DEF IdleOK, procVars
<1>. QED BY <1>1, <1>2, <1>3

LEMMA CallAndProc ==
  ASSUME TypeOK, ProcInv, CallInv, IdleOK, NEW j \in Jobs, NEW w \in Workers, worker[j] = w,
         UNCHANGED <<cfg, idle, key>>, worker'[j] \in {w, NoWorker},
         \A v \in Workers \ {w} : SameProc(v), ProcOK(w)',
         \A k \in Jobs \ {j} : SameCall(k), CallOK(j)'
  PROVE  ProcInv' /\ CallInv' /\ IdleOK'
<1>1. /\ w # idle /\ \A k \in Jobs \ {j} : worker[k] # w
  BY WorkerAssumption DEF CallInv, CallOK
<1>2. ProcInv'
  <2>1. ASSUME NEW v \in Workers, v # w PROVE ProcOK(v)'
    <3>1. \A k \in Jobs : worker[k] = v /\ at[k] \in Talking => worker'[k] = v /\ at'[k] \in Talking
      BY <2>1 DEF SameCall
    <3>. QED BY <2>1, <3>1, ProcFrame DEF ProcInv, SameProc
  <2>. QED BY <2>1 DEF ProcInv
<1>3. CallInv'
  <2>1. ASSUME NEW k \in Jobs, k # j PROVE CallOK(k)'
    <3>1. cfg' \in Nat /\ cfg <= cfg'
      BY BoundAssumption DEF TypeOK, Cfgs
    <3>2. SameCall(k) /\ CallOK(k)
      BY <2>1 DEF CallInv
    <3>3. worker[k] # NoWorker => worker[k] \in Workers \ {w} /\ worker[k] # idle'
      BY <1>1, <2>1, <3>2 DEF CallOK, TypeOK
    <3>4. worker[k] # NoWorker => \A m \in Jobs : worker'[m] = worker[k] => worker[m] = worker[k]
      <4>1. \A m \in Jobs \ {j} : worker'[m] = worker[m]
        BY DEF SameCall
      <4>. QED BY <3>3, <4>1
    <3>. QED BY <3>1, <3>2, <3>3, <3>4, CallFrame DEF SameCall, SameProc
  <2>. QED BY <2>1 DEF CallInv
<1>4. IdleOK'
  <2>1. idle # NoWorker => SameProc(idle)
    BY <1>1 DEF TypeOK
  <2>. QED BY <2>1 DEF IdleOK, SameProc
<1>. QED BY <1>2, <1>3, <1>4

\* The keeper's bookkeeping when it does nothing.
LEMMA KeeperStays ==
  ASSUME KeeperInv, UNCHANGED <<idle, failures, respawn, closed>>, IdleOK'
  PROVE  KeeperInv'
BY DEF KeeperInv, KeeperIsNeverStuck

-----------------------------------------------------------------------------
(* The steps of a process *)

LEMMA TypeParts ==
  ASSUME TypeOK
  PROVE  /\ \A w \in Workers :
              /\ out[w] \in Seq(Frames) /\ sent[w] \in 0..2
              /\ loaded[w] \in Cfgs \cup {NoCfg}
         /\ cfg \in Cfgs /\ cfg # NoCfg
BY BoundAssumption DEF TypeOK, Cfgs, NoCfg

LEMMA ReadyKeeps ==
  ASSUME BridgeInv, NEW w \in Workers, Ready(w)
  PROVE  BridgeInv'
<1>. USE DEF BridgeInv
<1>1. /\ proc[w] = "starting" /\ proc'[w] = "waiting" /\ loaded'[w] = cfg
      /\ out' = [out EXCEPT ![w] = Append(@, "ready")]
      /\ sent' = sent /\ greeted' = greeted
      /\ \A v \in Workers \ {w} : SameProc(v)
      /\ UNCHANGED <<cfg, idle, key, failures, respawn, closed, at, worker, jobKey, handled>>
  BY DEF Ready, SameProc, TypeOK, keeperVars, callVars, setup
<1>2. TypeOK'
  <2>1. out' \in [Workers -> Seq(Frames)]
    BY <1>1 DEF TypeOK, Frames
  <2>. QED BY <2>1 DEF TypeOK, Ready, keeperVars, callVars, setup
<1>3. ProcOK(w) /\ cfg # NoCfg
  BY TypeParts DEF ProcInv
<1>4. ProcOK(w)'
  BY <1>1, <1>3 DEF ProcOK
<1>5. Stays(w)
  BY <1>1 DEF Stays
<1>6. \A j \in Jobs : worker[j] = w => handled[j] = 0
  BY <1>1 DEF CallInv, CallOK
<1>7. ProcInv' /\ CallInv' /\ IdleOK'
  BY <1>1, <1>4, <1>5, <1>6, ProcStep DEF KeeperInv
<1>. QED BY <1>1, <1>2, <1>7, KeeperStays

\* No frame but the first is a ready frame that was not one before.
LEMMA AppendOther ==
  ASSUME NEW q \in Seq(Frames), NEW f \in Frames, f # "ready",
         NEW i \in 1..Len(Append(q, f)), Append(q, f)[i] = "ready"
  PROVE  \E k \in 1..Len(q) : q[k] = "ready"
OBVIOUS

LEMMA TailOther ==
  ASSUME NEW q \in Seq(Frames), q # <<>>, NEW i \in 1..Len(Tail(q)), Tail(q)[i] = "ready"
  PROVE  \E k \in 1..Len(q) : q[k] = "ready"
<1>1. i + 1 \in 1..Len(q) /\ q[i + 1] = "ready"
  OBVIOUS
<1>. QED BY <1>1

LEMMA AnswerKeeps ==
  ASSUME BridgeInv, NEW w \in Workers, NEW f \in {"result", "error"}, Answer(w, f)
  PROVE  BridgeInv'
<1>. USE DEF BridgeInv
<1>1. /\ proc[w] = "handling" /\ proc'[w] = "answered" /\ loaded' = loaded
      /\ out' = [out EXCEPT ![w] = Append(@, f)] /\ out'[w] = Append(out[w], f)
      /\ sent' = sent /\ greeted' = greeted
      /\ \A v \in Workers \ {w} : SameProc(v)
      /\ UNCHANGED <<cfg, idle, key, failures, respawn, closed, at, worker, jobKey, handled>>
  BY DEF Answer, SameProc, TypeOK, keeperVars, callVars, setup
<1>2. TypeOK'
  <2>1. out' \in [Workers -> Seq(Frames)]
    BY <1>1 DEF TypeOK, Frames
  <2>. QED BY <2>1 DEF TypeOK, Answer, keeperVars, callVars, setup
<1>3. ProcOK(w) /\ out[w] \in Seq(Frames) /\ f \in Frames /\ f # "ready"
  BY TypeParts DEF ProcInv, Frames
<1>4. (\E i \in 1..Len(out'[w]) : out'[w][i] = "ready") =>
        \E i \in 1..Len(out[w]) : out[w][i] = "ready"
  BY <1>1, <1>3, AppendOther
<1>5. ProcOK(w)'
  BY <1>1, <1>3, <1>4 DEF ProcOK
<1>6. Stays(w)
  BY <1>1 DEF Stays
<1>7. ProcInv' /\ CallInv' /\ IdleOK'
  BY <1>1, <1>5, <1>6, ProcStep DEF KeeperInv
<1>. QED BY <1>1, <1>2, <1>7, KeeperStays

LEMMA DieKeeps ==
  ASSUME BridgeInv, NEW w \in Workers, Die(w)
  PROVE  BridgeInv'
<1>. USE DEF BridgeInv
<1>1. /\ proc[w] \notin {"none", "ending"} /\ proc'[w] = "exited" /\ loaded' = loaded /\ out' = out
      /\ sent' = sent /\ greeted' = greeted
      /\ \A v \in Workers \ {w} : SameProc(v)
      /\ UNCHANGED <<cfg, idle, key, failures, respawn, closed, at, worker, jobKey, handled>>
  BY DEF Die, Running, SameProc, TypeOK, keeperVars, callVars, setup
<1>2. TypeOK'
  BY BoundAssumption DEF TypeOK, Die, Fault, keeperVars, callVars, setup
<1>3. ProcOK(w)
  BY DEF ProcInv
<1>4. ProcOK(w)'
  BY <1>1, <1>3 DEF ProcOK
<1>5. Stays(w)
  BY <1>1 DEF Stays
<1>6. ProcInv' /\ CallInv' /\ IdleOK'
  BY <1>1, <1>4, <1>5, ProcStep DEF KeeperInv
<1>. QED BY <1>1, <1>2, <1>6, KeeperStays

LEMMA MisbehaveKeeps ==
  ASSUME BridgeInv, NEW w \in Workers, Misbehave(w)
  PROVE  BridgeInv'
<1>. USE DEF BridgeInv
<1>1. /\ proc[w] \notin {"none", "ending"} /\ proc' = proc /\ loaded' = loaded
      /\ out' = [out EXCEPT ![w] = Append(@, "junk")] /\ out'[w] = Append(out[w], "junk")
      /\ sent' = sent /\ greeted' = greeted
      /\ \A v \in Workers \ {w} : SameProc(v)
      /\ UNCHANGED <<cfg, idle, key, failures, respawn, closed, at, worker, jobKey, handled>>
  BY DEF Misbehave, Running, SameProc, TypeOK, keeperVars, callVars, setup
<1>2. TypeOK'
  <2>1. out' \in [Workers -> Seq(Frames)]
    BY <1>1 DEF TypeOK, Frames
  <2>. QED BY <2>1, BoundAssumption DEF TypeOK, Misbehave, Fault, keeperVars, callVars, setup
<1>3. ProcOK(w) /\ out[w] \in Seq(Frames) /\ "junk" \in Frames
  BY TypeParts DEF ProcInv, Frames
<1>4. (\E i \in 1..Len(out'[w]) : out'[w][i] = "ready") =>
        \E i \in 1..Len(out[w]) : out[w][i] = "ready"
  BY <1>1, <1>3, AppendOther
<1>5. ProcOK(w)'
  BY <1>1, <1>3, <1>4 DEF ProcOK
<1>6. Stays(w)
  BY <1>1 DEF Stays
<1>7. ProcInv' /\ CallInv' /\ IdleOK'
  BY <1>1, <1>5, <1>6, ProcStep DEF KeeperInv
<1>. QED BY <1>1, <1>2, <1>7, KeeperStays

\* What is left of a process that is gone.
LEMMA GoneEffect ==
  ASSUME TypeOK, NEW w \in Workers, Gone(w)
  PROVE  /\ proc'[w] = "none" /\ loaded'[w] = NoCfg /\ out'[w] = <<>> /\ sent'[w] = 0
         /\ w \notin greeted' /\ ProcOK(w)' /\ \A v \in Workers \ {w} : SameProc(v)
         /\ proc' \in [Workers -> {"none", "starting", "waiting", "handling", "answered", "exited",
                         "ending"}]
         /\ loaded' \in [Workers -> Cfgs \cup {NoCfg}]
         /\ out' \in [Workers -> Seq(Frames)] /\ sent' \in [Workers -> 0..2]
         /\ greeted' \subseteq Workers
<1>1. <<>> \in Seq(Frames)
  OBVIOUS
<1>2. /\ proc'[w] = "none" /\ loaded'[w] = NoCfg /\ out'[w] = <<>> /\ sent'[w] = 0
      /\ w \notin greeted'
  BY DEF Gone, TypeOK
<1>3. \A v \in Workers \ {w} : SameProc(v)
  BY DEF Gone, TypeOK, SameProc
<1>4. ProcOK(w)'
  BY <1>2 DEF ProcOK
<1>. QED BY <1>1, <1>2, <1>3, <1>4 DEF Gone, TypeOK

LEMMA EndKeeps ==
  ASSUME BridgeInv, NEW w \in Workers, End(w)
  PROVE  BridgeInv'
<1>. USE DEF BridgeInv
<1>1. /\ proc[w] = "ending" /\ Gone(w)
      /\ UNCHANGED <<cfg, idle, key, failures, respawn, closed, at, worker, jobKey, handled,
                    direct, retried, cancelled, faults>>
  BY DEF End, keeperVars, callVars, setup
<1>2. TypeOK'
  BY <1>1, GoneEffect DEF TypeOK
<1>3. Stays(w)
  BY <1>1 DEF Stays
<1>4. \A j \in Jobs : worker[j] # w
  BY <1>1, WorkerAssumption DEF CallInv, CallOK
<1>5. ProcInv' /\ CallInv' /\ IdleOK'
  BY <1>1, <1>3, <1>4, GoneEffect, ProcStep DEF KeeperInv
<1>. QED BY <1>1, <1>2, <1>5, KeeperStays

-----------------------------------------------------------------------------
(* The steps of a call with its worker *)

\* A call that talks has a worker, whose call it is.
LEMMA Holder ==
  ASSUME BridgeInv, NEW j \in Jobs, at[j] \in Holding
  PROVE  /\ worker[j] \in Workers /\ proc[worker[j]] \notin {"none", "ending"} /\ worker[j] # idle
         /\ ProcOK(worker[j]) /\ CallOK(j) /\ Had(jobKey[j], cfg)
         /\ \A k \in Jobs : worker[k] = worker[j] => k = j
<1>1. CallOK(j)
  BY DEF BridgeInv, CallInv
<1>2. at[j] \notin {"idle", "done"}
  BY DEF Holding, Talking
<1>3. worker[j] \in Workers
  BY <1>1 DEF CallOK, BridgeInv, TypeOK
<1>. QED BY <1>1, <1>2, <1>3, WorkerAssumption DEF CallOK, BridgeInv, ProcInv

LEMMA HandleKeeps ==
  ASSUME BridgeInv, NEW j \in Jobs, Handle(j)
  PROVE  BridgeInv'
<1>. USE DEF BridgeInv
<1>. DEFINE w == worker[j]
<1>1. at[j] = "conversing" /\ proc[w] = "waiting" /\ sent[w] = 2
  BY DEF Handle
<1>2. /\ w \in Workers /\ w # idle /\ ProcOK(w) /\ CallOK(j)
      /\ \A k \in Jobs : worker[k] = w => k = j
  BY <1>1, Holder DEF Holding, Talking
<1>3. handled[j] = 0
  BY <1>1, <1>2 DEF CallOK
<1>4. /\ proc'[w] = "handling" /\ handled'[j] = 1 /\ handled' = [handled EXCEPT ![j] = 1]
      /\ proc' = [proc EXCEPT ![w] = "handling"]
      /\ UNCHANGED <<cfg, idle, key, failures, respawn, closed, loaded, out, sent, greeted,
                    at, worker, jobKey, direct, retried, cancelled, faults>>
  BY <1>2, <1>3 DEF Handle, TypeOK, keeperVars, callVars, setup
<1>5. TypeOK'
  BY <1>4 DEF TypeOK
<1>6. \A v \in Workers \ {w} : SameProc(v)
  BY <1>4 DEF SameProc, TypeOK
<1>7. \A k \in Jobs \ {j} : SameCall(k)
  BY <1>4 DEF SameCall, TypeOK
<1>8. ProcOK(w)'
  BY <1>1, <1>2, <1>4 DEF ProcOK, Talking
<1>9. CallOK(j)'
  BY <1>1, <1>2, <1>4, <1>3 DEF CallOK, Talking
<1>10. worker'[j] \in {w, NoWorker}
  BY <1>4
<1>11. ProcInv' /\ CallInv' /\ IdleOK'
  BY <1>2, <1>4, <1>6, <1>7, <1>8, <1>9, <1>10, CallAndProc DEF KeeperInv
<1>. QED BY <1>4, <1>5, <1>11, KeeperStays

LEMMA WriteKeeps ==
  ASSUME BridgeInv, NEW j \in Jobs, Write(j)
  PROVE  BridgeInv'
<1>. USE DEF BridgeInv
<1>. DEFINE w == worker[j]
<1>1. at[j] = "conversing" /\ sent[w] < 2
  BY DEF Write
<1>2. /\ w \in Workers /\ w # idle /\ ProcOK(w) /\ CallOK(j)
      /\ \A k \in Jobs : worker[k] = w => k = j
  BY <1>1, Holder DEF Holding, Talking
<1>3. handled[j] = 0 /\ sent[w] \in 0..2
  BY <1>1, <1>2 DEF CallOK, TypeOK
<1>4. /\ sent' = [sent EXCEPT ![w] = sent[w] + 1] /\ sent[w] + 1 \in 0..2
      /\ UNCHANGED <<cfg, idle, key, failures, respawn, closed, proc, loaded, out, greeted,
                    at, worker, jobKey, direct, retried, cancelled, faults, handled>>
  BY <1>1, <1>2, <1>3 DEF Write, TypeOK, keeperVars, callVars, setup
<1>5. TypeOK'
  BY <1>4 DEF TypeOK
<1>6. \A v \in Workers \ {w} : SameProc(v)
  BY <1>4 DEF SameProc, TypeOK
<1>7. \A k \in Jobs \ {j} : SameCall(k)
  BY <1>4 DEF SameCall, TypeOK
<1>8. ProcOK(w)'
  BY <1>1, <1>2, <1>4 DEF ProcOK, Talking
<1>9. CallOK(j)'
  BY <1>1, <1>2, <1>4, <1>3 DEF CallOK, Talking
<1>10. worker'[j] \in {w, NoWorker}
  BY <1>4
<1>11. ProcInv' /\ CallInv' /\ IdleOK'
  BY <1>2, <1>4, <1>6, <1>7, <1>8, <1>9, <1>10, CallAndProc DEF KeeperInv
<1>. QED BY <1>4, <1>5, <1>11, KeeperStays

\* The call goes on without its worker.
Leaves(j, x) ==
  /\ Gone(worker[j])
  /\ worker' = [worker EXCEPT ![j] = NoWorker]
  /\ at' = [at EXCEPT ![j] = x]
  /\ \/ /\ x = "asking" /\ handled[j] = 0 /\ UNCHANGED <<jobKey, handled>>
     \/ /\ x = "done"
        /\ jobKey' = [jobKey EXCEPT ![j] = NoCfg] /\ handled' = [handled EXCEPT ![j] = 0]
  /\ direct' \subseteq direct /\ retried' \subseteq retried \cup {j}
  /\ cancelled' \subseteq cancelled
  /\ UNCHANGED <<cfg, keeperVars, faults>>

LEMMA Lets ==
  ASSUME BridgeInv, NEW j \in Jobs, at[j] \in Holding, NEW x, Leaves(j, x)
  PROVE  BridgeInv'
<1>. PICK w \in Workers : w = worker[j]
  BY Holder
<1>1. /\ w \in Workers /\ w # idle /\ Had(jobKey[j], cfg)
  BY Holder
<1>2. /\ TypeOK /\ ProcInv /\ CallInv /\ IdleOK /\ KeeperInv
  BY DEF BridgeInv, KeeperInv
<1>3. Gone(w) /\ UNCHANGED <<cfg, idle, key, failures, respawn, closed, faults>>
  BY DEF Leaves, keeperVars
<1>4. ProcOK(w)' /\ \A v \in Workers \ {w} : SameProc(v)
  BY <1>1, <1>2, <1>3, GoneEffect
<1>5. TypeOK'
  <2>1. jobKey' \in [Jobs -> Texts \cup {NoCfg}] /\ handled' \in [Jobs -> Nat]
    <3>1. CASE x = "asking"
      BY <1>2, <3>1 DEF TypeOK, Leaves
    <3>2. CASE x = "done"
      <4>1. jobKey' = [jobKey EXCEPT ![j] = NoCfg] /\ handled' = [handled EXCEPT ![j] = 0]
        BY <3>2 DEF Leaves
      <4>2. jobKey \in [Jobs -> Texts \cup {NoCfg}] /\ handled \in [Jobs -> Nat]
        BY <1>2 DEF TypeOK
      <4>. QED BY <4>1, <4>2
    <3>. QED BY <3>1, <3>2 DEF Leaves
  <2>2. at' \in [Jobs -> {"idle", "waiting", "asking", "spawning", "startup", "stamping",
                          "conversing", "draining", "done"}]
    BY <1>2 DEF TypeOK, Leaves
  <2>3. worker' \in [Jobs -> Workers \cup {NoWorker}]
    BY <1>2 DEF TypeOK, Leaves
  <2>4. direct' \subseteq Jobs /\ retried' \subseteq Jobs /\ cancelled' \subseteq Jobs
    BY <1>2 DEF TypeOK, Leaves
  <2>. QED BY <1>1, <1>2, <1>3, <2>1, <2>2, <2>3, <2>4, GoneEffect DEF TypeOK
<1>6. \A k \in Jobs \ {j} : SameCall(k)
  BY <1>2 DEF SameCall, TypeOK, Leaves
<1>7. CallOK(j)'
  <2>1. at'[j] \in {"asking", "done"} /\ at'[j] = x
    BY <1>2 DEF TypeOK, Leaves
  <2>2. worker'[j] = NoWorker /\ handled'[j] = 0
    BY <1>2 DEF TypeOK, Leaves
  <2>3. at'[j] = "asking" => Had(jobKey'[j], cfg')
    BY <1>1, <1>3, <2>1 DEF Leaves
  <2>. QED BY <2>1, <2>2, <2>3 DEF CallOK, Holding, Talking
<1>8. worker'[j] \in {w, NoWorker}
  BY <1>2 DEF Leaves, TypeOK
<1>9. ProcInv' /\ CallInv' /\ IdleOK'
  BY <1>1, <1>2, <1>3, <1>4, <1>6, <1>7, <1>8, CallAndProc
<1>. QED BY <1>2, <1>3, <1>5, <1>9, KeeperStays DEF BridgeInv

LEMMA ReturnKeeps ==
  ASSUME BridgeInv, NEW j \in Jobs, at[j] \in Holding, Return(j),
         UNCHANGED <<cfg, keeperVars, faults>>
  PROVE  BridgeInv'
<1>1. Leaves(j, "done")
  BY DEF Return, Terminated, Ends, Leaves
<1>. QED BY <1>1, Lets

LEMMA WriteFailsKeeps ==
  ASSUME BridgeInv, NEW j \in Jobs, WriteFails(j)
  PROVE  BridgeInv'
<1>1. at[j] = "conversing" /\ sent[worker[j]] < 2 /\ UNCHANGED <<cfg, keeperVars, faults>>
  BY DEF WriteFails, Undelivered
<1>2. at[j] \in Holding
  BY <1>1 DEF Holding, Talking
<1>3. CASE Return(j)
  BY <1>1, <1>2, <1>3, ReturnKeeps
<1>4. CASE ~ Return(j)
  <2>1. handled[j] = 0
    BY <1>1, <1>2, Holder DEF CallOK
  <2>2. Leaves(j, "asking")
    BY <1>1, <1>4, <2>1 DEF WriteFails, Terminated, Leaves
  <2>. QED BY <1>2, <2>2, Lets
<1>. QED BY <1>3, <1>4

LEMMA DrainKeeps ==
  ASSUME BridgeInv, NEW j \in Jobs, Drain(j)
  PROVE  BridgeInv'
BY ReturnKeeps DEF Drain, Holding, Talking

-----------------------------------------------------------------------------
(* The steps of a call alone *)

LEMMA Moves ==
  ASSUME BridgeInv, NEW j \in Jobs, NEW x, at' = [at EXCEPT ![j] = x],
         x \in {"idle", "waiting", "asking", "spawning", "startup", "stamping", "conversing",
                      "draining", "done"},
         UNCHANGED <<cfg, keeperVars, procVars, worker, faults>>, TypeOK',
         \A k \in Jobs \ {j} : jobKey'[k] = jobKey[k] /\ handled'[k] = handled[k],
         x \in Holding <=> at[j] \in Holding,
         at[j] = "startup" /\ x \in Holding \ {"startup"} => worker[j] \in greeted,
         at[j] \in Talking => x \in Talking,
         \/ x \in {"idle", "done"} \/ jobKey'[j] = Text[cfg]
         \/ jobKey'[j] = jobKey[j] /\ at[j] \notin {"idle", "done"},
         x \in Holding => jobKey'[j] = jobKey[j],
         handled'[j] = handled[j] \/ handled'[j] = 0
  PROVE  BridgeInv'
<1>. USE DEF BridgeInv
<1>1. UNCHANGED <<cfg, idle, key, failures, respawn, closed, proc, loaded, out, sent, greeted,
                  procVars>>
  BY DEF keeperVars, procVars
<1>2. at'[j] = x /\ \A k \in Jobs \ {j} : at'[k] = at[k]
  BY DEF TypeOK
<1>3. \A k \in Jobs \ {j} : SameCall(k)
  BY <1>2 DEF SameCall
<1>4. CallOK(j) /\ (worker[j] # NoWorker => ProcOK(worker[j]))
  BY DEF CallInv, TypeOK, ProcInv
<1>5. CallOK(j)'
  <2>1. x \in Holding \ {"startup"} => loaded[worker[j]] # NoCfg
    BY <1>4 DEF CallOK, ProcOK
  <2>2. x \notin {"idle", "done"} => Had(jobKey'[j], cfg)
    <3>1. cfg \in Nat
      BY BoundAssumption DEF TypeOK, Cfgs
    <3>. QED BY <1>4, <3>1, HadNow DEF CallOK
  <2>3. handled'[j] # 0 =>
       /\ handled'[j] = 1 /\ x \in Talking
       /\ sent[worker[j]] = 2 /\ proc[worker[j]] \in {"handling", "answered", "exited"}
    BY <1>4 DEF CallOK
  <2>4. /\ worker[j] # NoWorker <=> x \in Holding
        /\ worker[j] # NoWorker =>
           /\ proc[worker[j]] \notin {"none", "ending"} /\ worker[j] # idle
           /\ loaded[worker[j]] # NoCfg => Had(jobKey'[j], loaded[worker[j]])
           /\ \A k \in Jobs : worker[k] = worker[j] => k = j
    BY <1>4 DEF CallOK
  <2>. QED BY <1>1, <1>2, <2>1, <2>2, <2>3, <2>4 DEF CallOK
<1>6. cfg' \in Nat /\ cfg <= cfg'
  BY BoundAssumption, <1>1 DEF TypeOK, Cfgs
<1>7. ProcInv' /\ CallInv' /\ IdleOK'
  BY <1>1, <1>2, <1>3, <1>5, <1>6, CallMove DEF KeeperInv
<1>. QED BY <1>1, <1>7, KeeperStays

LEMMA BeginKeeps ==
  ASSUME BridgeInv, NEW j \in Jobs, Begin(j)
  PROVE  BridgeInv'
<1>1. /\ at[j] = "idle" /\ at' = [at EXCEPT ![j] = "waiting"]
      /\ jobKey' = [jobKey EXCEPT ![j] = Text[cfg]] /\ UNCHANGED <<direct, retried, cancelled, handled>>
      /\ UNCHANGED <<cfg, keeperVars, procVars, worker, faults>>
  BY DEF Begin
<1>2. TypeOK /\ "waiting" \notin Holding /\ "idle" \notin Holding /\ "idle" \notin Talking
  BY DEF BridgeInv, Holding, Talking
<1>3. TypeOK'
  <2>1. Text[cfg] \in Texts
    BY <1>2 DEF TypeOK, Texts
  <2>. QED BY <1>1, <1>2, <2>1 DEF TypeOK, keeperVars, procVars
<1>4. jobKey'[j] = Text[cfg] /\ \A k \in Jobs \ {j} : jobKey'[k] = jobKey[k]
  BY <1>1, <1>2 DEF TypeOK
<1>. QED BY <1>1, <1>2, <1>3, <1>4, Moves

LEMMA BeginDirectKeeps ==
  ASSUME BridgeInv, NEW j \in Jobs, BeginDirect(j)
  PROVE  BridgeInv'
<1>1. /\ at[j] = "idle" /\ at' = [at EXCEPT ![j] = "spawning"]
      /\ jobKey' = [jobKey EXCEPT ![j] = Text[cfg]] /\ UNCHANGED <<retried, cancelled, handled>>
      /\ direct' = direct \cup {j} /\ UNCHANGED <<cfg, keeperVars, procVars, worker, faults>>
  BY DEF BeginDirect
<1>2. TypeOK /\ "spawning" \notin Holding /\ "idle" \notin Holding /\ "idle" \notin Talking
  BY DEF BridgeInv, Holding, Talking
<1>3. TypeOK'
  <2>1. Text[cfg] \in Texts
    BY <1>2 DEF TypeOK, Texts
  <2>. QED BY <1>1, <1>2, <2>1 DEF TypeOK, keeperVars, procVars
<1>4. jobKey'[j] = Text[cfg] /\ \A k \in Jobs \ {j} : jobKey'[k] = jobKey[k]
  BY <1>1, <1>2 DEF TypeOK
<1>. QED BY <1>1, <1>2, <1>3, <1>4, Moves

\* The move of a call to x with nothing of its setup changed.
MovesOn(j, x) ==
  /\ at' = [at EXCEPT ![j] = x]
  /\ UNCHANGED <<cfg, keeperVars, procVars, worker, faults, setup, cancelled, handled>>

LEMMA MovesOnKeeps ==
  ASSUME BridgeInv, NEW j \in Jobs,
         NEW x \in {"asking", "spawning", "startup", "stamping", "conversing", "draining"},
         at[j] \notin {"idle", "done"}, MovesOn(j, x),
         x \in Holding <=> at[j] \in Holding,
         at[j] = "startup" /\ x \in Holding \ {"startup"} => worker[j] \in greeted,
         at[j] \in Talking => x \in Talking
  PROVE  BridgeInv'
<1>1. TypeOK
  BY DEF BridgeInv
<1>2. TypeOK'
  BY <1>1 DEF MovesOn, TypeOK, keeperVars, procVars, setup
<1>3. at' = [at EXCEPT ![j] = x] /\ UNCHANGED <<cfg, keeperVars, procVars, worker, faults>>
      /\ UNCHANGED <<jobKey, handled>>
  BY DEF MovesOn, setup
<1>. QED BY <1>2, <1>3, Moves

LEMMA WaitKeeps ==
  ASSUME BridgeInv, NEW j \in Jobs, Wait(j)
  PROVE  BridgeInv'
<1>1. at[j] = "waiting" /\ at[j] \notin Holding /\ at[j] \notin Talking /\ TypeOK
  BY DEF Wait, Holding, Talking, BridgeInv
<1>2. CASE MovesOn(j, "asking")
  BY <1>1, <1>2, MovesOnKeeps DEF Holding, Talking
<1>3. CASE Ends(j)
  <2>1. /\ at' = [at EXCEPT ![j] = "done"]
        /\ UNCHANGED <<cfg, keeperVars, procVars, worker, faults>>
        /\ jobKey' = [jobKey EXCEPT ![j] = NoCfg] /\ handled' = [handled EXCEPT ![j] = 0]
    BY <1>3 DEF Wait, Ends
  <2>2. jobKey \in [Jobs -> Texts \cup {NoCfg}] /\ handled \in [Jobs -> Nat]
    BY <1>1 DEF TypeOK
  <2>3. /\ jobKey' \in [Jobs -> Texts \cup {NoCfg}] /\ handled' \in [Jobs -> Nat] /\ handled'[j] = 0
        /\ \A k \in Jobs \ {j} : jobKey'[k] = jobKey[k] /\ handled'[k] = handled[k]
    BY <2>1, <2>2
  <2>4. TypeOK'
    BY <1>1, <1>3, <2>1, <2>3 DEF TypeOK, Ends, keeperVars, procVars
  <2>5. "done" \notin Holding
    BY DEF Holding, Talking
  <2>. QED BY <1>1, <2>1, <2>3, <2>4, <2>5, Moves
<1>. QED BY <1>2, <1>3 DEF Wait, MovesOn

LEMMA AskInVainKeeps ==
  ASSUME BridgeInv, NEW j \in Jobs, AskInVain(j)
  PROVE  BridgeInv'
<1>1. at[j] = "asking" /\ MovesOn(j, "spawning")
  BY DEF AskInVain, MovesOn
<1>. QED BY <1>1, MovesOnKeeps DEF Holding, Talking

LEMMA IsReadyKeeps ==
  ASSUME BridgeInv, NEW j \in Jobs, IsReady(j)
  PROVE  BridgeInv'
<1>1. /\ at[j] = "startup" /\ worker[j] \in greeted
      /\ \E x \in {"stamping", "conversing"} : MovesOn(j, x)
  BY DEF IsReady, Proceed, MovesOn
<1>. QED BY <1>1, MovesOnKeeps DEF Holding, Talking

LEMMA StampKeeps ==
  ASSUME BridgeInv, NEW j \in Jobs, Stamp(j)
  PROVE  BridgeInv'
<1>1. at[j] = "stamping" /\ MovesOn(j, "conversing")
  BY DEF Stamp, MovesOn
<1>. QED BY <1>1, MovesOnKeeps DEF Holding, Talking

LEMMA ConverseKeeps ==
  ASSUME BridgeInv, NEW j \in Jobs, Converse(j)
  PROVE  BridgeInv'
<1>1. at[j] = "conversing" /\ at[j] \in Holding
  BY DEF Converse, Holding, Talking
<1>2. CASE MovesOn(j, "draining")
  BY <1>1, <1>2, MovesOnKeeps DEF Holding, Talking
<1>3. CASE Return(j)
  BY <1>1, <1>3, ReturnKeeps DEF Converse
<1>. QED BY <1>2, <1>3 DEF Converse, MovesOn, Aborted

LEMMA StartupStepKeeps ==
  ASSUME BridgeInv, NEW j \in Jobs, StartupStep(j)
  PROVE  BridgeInv'
<1>1. at[j] = "startup" /\ at[j] \in Holding /\ UNCHANGED <<cfg, keeperVars, faults>>
  BY DEF StartupStep, Holding, Talking
<1>2. CASE Return(j)
  BY <1>1, <1>2, ReturnKeeps
<1>3. CASE ~ Return(j)
  <2>. PICK w \in Workers : w = worker[j]
    BY <1>1, Holder
  <2>1. /\ out[w] # <<>> /\ Head(out[w]) = "ready"
        /\ greeted' = greeted \cup {w} /\ out' = [out EXCEPT ![w] = Tail(@)]
        /\ \E x \in {"stamping", "conversing"} : at' = [at EXCEPT ![j] = x]
        /\ UNCHANGED <<proc, loaded, sent, worker, direct, jobKey, retried, cancelled, handled>>
    BY <1>3 DEF StartupStep, Proceed, Aborted, setup
  <2>2. /\ w # idle /\ ProcOK(w) /\ CallOK(j) /\ \A k \in Jobs : worker[k] = w => k = j
    BY <1>1, Holder
  <2>3. /\ TypeOK /\ ProcInv /\ CallInv /\ IdleOK /\ KeeperInv
    BY DEF BridgeInv, KeeperInv
  <2>4. out[w] \in Seq(Frames) /\ Tail(out[w]) \in Seq(Frames)
    BY <2>1, <2>3 DEF TypeOK
  <2>5. TypeOK'
    BY <1>1, <2>1, <2>3, <2>4 DEF TypeOK, keeperVars
  <2>6. 1 \in 1..Len(out[w]) /\ out[w][1] = "ready"
    BY <2>1, <2>4
  <2>7. loaded[w] # NoCfg /\ proc[w] \notin {"none", "ending"}
    BY <2>2, <2>6 DEF ProcOK
  <2>8. ProcOK(w)'
    BY <1>1, <2>1, <2>2, <2>7 DEF ProcOK, Talking
  <2>9. at'[j] \in {"stamping", "conversing"}
    BY <2>1, <2>3 DEF TypeOK
  <2>10. CallOK(j)'
    BY <1>1, <2>1, <2>2, <2>7, <2>9 DEF CallOK, Holding, Talking, keeperVars
  <2>11. \A v \in Workers \ {w} : SameProc(v)
    BY <2>1, <2>3 DEF SameProc, TypeOK
  <2>12. \A k \in Jobs \ {j} : SameCall(k)
    BY <2>1, <2>3 DEF SameCall, TypeOK
  <2>13. UNCHANGED <<idle, key, failures, respawn, closed>> /\ worker'[j] = w
    BY <1>1, <2>1 DEF keeperVars
  <2>14. ProcInv' /\ CallInv' /\ IdleOK'
    BY <1>1, <2>3, <2>8, <2>10, <2>11, <2>12, <2>13, CallAndProc
  <2>. QED BY <2>3, <2>5, <2>13, <2>14, KeeperStays DEF BridgeInv
<1>. QED BY <1>2, <1>3

\* An edit and a cancellation move no call.
LEMMA OutsideKeeps ==
  ASSUME BridgeInv, UNCHANGED <<keeperVars, procVars, callVars, handled, faults>>,
         \/ Edit
         \/ \E j \in Jobs : Cancel(j)
  PROVE  BridgeInv'
<1>1. /\ TypeOK /\ ProcInv /\ CallInv /\ IdleOK /\ KeeperInv
  BY DEF BridgeInv, KeeperInv
<1>2. cfg' \in Cfgs /\ cfg' \in Nat /\ cfg <= cfg' /\ cfg \in Nat
  BY <1>1, BoundAssumption DEF Edit, Cancel, TypeOK, Cfgs
<1>3. UNCHANGED <<idle, key, failures, respawn, closed, proc, loaded, out, sent, greeted, at,
                  worker, direct, jobKey, retried, handled, faults>>
  BY DEF keeperVars, procVars, callVars, setup
<1>4. TypeOK'
  <2>1. cancelled' \subseteq Jobs
    BY <1>1, JobAssumption DEF Edit, Cancel, TypeOK
  <2>. QED BY <1>1, <1>2, <1>3, <2>1 DEF TypeOK
<1>5. ProcInv'
  BY <1>1, <1>3, ProcFrame DEF ProcInv
<1>6. CallInv'
  <2>. SUFFICES ASSUME NEW k \in Jobs PROVE CallOK(k)'
    BY DEF CallInv
  <2>1. CallOK(k) /\ (worker[k] # NoWorker => worker[k] # idle')
    BY <1>1, <1>3 DEF CallInv, CallOK
  <2>. QED BY <1>1, <1>2, <1>3, <2>1, CallFrame
<1>7. IdleOK'
  BY <1>1, <1>2, <1>3, HadLater DEF IdleOK
<1>. QED BY <1>1, <1>3, <1>4, <1>5, <1>6, <1>7, KeeperStays DEF BridgeInv

-----------------------------------------------------------------------------
(* The steps of the keeper, and of a call that comes to its worker *)

\* One step for all of them: workers are spawned or let go of, calls told.
SpawnStep(born, left) ==
  /\ born \subseteq Workers /\ left \subseteq {idle} /\ Spawned(born, left)
  /\ \A w \in born : proc[w] = "none"
  /\ idle' \in born \cup {NoWorker} \/ (key' = key /\ idle' = idle /\ idle \notin left)
  /\ key' \in Texts /\ Had(key', cfg)
  /\ Calls(born, left)
  /\ faults' \in 0..MaxFaults
  /\ UNCHANGED <<cfg, sent, setup, cancelled, handled>>

LEMMA SpawnStepKeeps ==
  ASSUME BridgeInv, NEW born, NEW left, SpawnStep(born, left),
         failures' \in 0..(Backoffs + 1), respawn' \in {"none", "later", "now"}, closed' \in BOOLEAN
  PROVE  TypeOK' /\ ProcInv' /\ CallInv' /\ IdleOK'
<1>1. /\ TypeOK /\ ProcInv /\ CallInv /\ IdleOK
  BY DEF BridgeInv, KeeperInv
<1>2. /\ born \in SUBSET Workers /\ left \in SUBSET {idle} /\ Spawned(born, left)
      /\ \A w \in born : proc[w] = "none"
      /\ idle' \in born \cup {NoWorker} \/ (idle' = idle /\ idle \notin left)
      /\ idle' \in born \cup {NoWorker} \/ (key' = key /\ idle' = idle /\ idle \notin left)
      /\ key' \in Texts /\ Had(key', cfg) /\ Calls(born, left) /\ faults' \in 0..MaxFaults
      /\ UNCHANGED <<cfg, sent, handled, direct, jobKey, retried, cancelled>>
  BY DEF SpawnStep, setup
<1>3. /\ key' \in Texts /\ Had(key', cfg)
  BY <1>2
<1>4. \A j \in Jobs : at[j] \in Talking => worker'[j] = worker[j] /\ at'[j] \in Talking
  <2>. SUFFICES ASSUME NEW j \in Jobs, at[j] \in Talking
                PROVE  worker'[j] = worker[j] /\ at'[j] = at[j]
    OBVIOUS
  <2>1. at[j] \notin {"asking", "spawning"}
    BY DEF Talking
  <2>. QED BY <1>1, <1>2, <2>1 DEF Calls, Gives, TypeOK
<1>5. /\ at' \in [Jobs -> {"idle", "waiting", "asking", "spawning", "startup", "stamping",
                           "conversing", "draining", "done"}]
      /\ worker' \in [Jobs -> Workers \cup {NoWorker}]
  <2>1. CASE UNCHANGED <<at, worker>>
    BY <1>1, <2>1 DEF TypeOK
  <2>2. CASE \E j \in Jobs : /\ at[j] = "asking" /\ at' = [at EXCEPT ![j] = "spawning"]
                          /\ UNCHANGED worker
    BY <1>1, <2>2 DEF TypeOK
  <2>3. CASE \E j \in Jobs, i \in Workers : Gives(j, i, born, left)
    <3>. PICK j \in Jobs, i \in Workers : Gives(j, i, born, left)
      BY <2>3
    <3>. QED BY <1>1 DEF TypeOK, Gives
  <2>. QED BY <1>2, <2>1, <2>2, <2>3 DEF Calls
<1>6. TypeOK'
  <2>1. idle' \in Workers \cup {NoWorker}
    BY <1>1, <1>2 DEF TypeOK
  <2>. QED BY <1>1, <1>2, <1>3, <1>5, <2>1, SpawnedTypes DEF TypeOK
<1>7. ProcInv'
  BY <1>1, <1>2, <1>4, SpawnKeepsProcs
<1>8. CallInv'
  BY <1>1, <1>2, SpawnKeepsCalls
<1>9. IdleOK'
  BY <1>1, <1>2, <1>3, SpawnKeepsIdle
<1>. QED BY <1>6, <1>7, <1>8, <1>9

LEMMA GoesKeeps ==
  ASSUME BridgeInv, NEW born, NEW left, SpawnStep(born, left), Goes(idle', failures', respawn'),
         closed' \in BOOLEAN
  PROVE  BridgeInv'
BY SpawnStepKeeps, KeeperGoes DEF Goes, BridgeInv

\* The loop comes round after it let go of the workers left, perhaps to spawn the
\* next one: the calls do not move, or j is told what it has got.
LoopTurns(i, left) ==
  /\ i = NoWorker \/ (i = idle /\ idle \notin left)
  /\ UNCHANGED <<cfg, key, closed, sent, setup, cancelled, handled>>
  /\ \/ UNCHANGED <<at, worker>>
     \/ \E j \in Jobs : at[j] = "asking" /\ at' = [at EXCEPT ![j] = "spawning"] /\ UNCHANGED worker
     \/ /\ \E j \in Jobs : /\ at[j] = "asking" /\ at' = [at EXCEPT ![j] = "startup"]
                           /\ worker' = [worker EXCEPT ![j] = idle] /\ key = jobKey[j]
        /\ i = NoWorker /\ left = {} /\ idle # NoWorker

LEMMA ReplenishKeeps ==
  ASSUME BridgeInv, NEW i \in Workers \cup {NoWorker}, NEW n, NEW r,
         NEW left, left \subseteq {idle},
         Goes(i, n, r), Replenish(i, n, r, {}, left), LoopTurns(i, left)
  PROVE  BridgeInv'
<1>0. left \in SUBSET {idle} /\ LoopTurns(i, left)
  OBVIOUS
<1>1. /\ TypeOK /\ IdleOK /\ closed' \in BOOLEAN
  BY DEF BridgeInv, KeeperInv, TypeOK, LoopTurns
<1>2. /\ Goes(idle', failures', respawn') /\ faults' \in 0..MaxFaults
      /\ \/ idle' = i /\ Spawned({}, left)
         \/ /\ idle' \in Workers /\ proc[idle'] = "none"
            /\ Spawned({} \cup {idle'}, left)
  BY <1>1, ReplenishEffect
<1>3. PICK born \in SUBSET Workers :
        /\ Spawned(born, left) /\ (\A w \in born : proc[w] = "none")
        /\ (idle' = i /\ born = {}) \/ born = {idle'}
  <2>1. CASE idle' = i /\ Spawned({}, left)
    BY <2>1
  <2>2. CASE idle' \in Workers /\ proc[idle'] = "none" /\ Spawned({} \cup {idle'}, left)
    <3>1. {} \cup {idle'} = {idle'}
      OBVIOUS
    <3>. QED BY <2>2, <3>1
  <2>. QED BY <1>2, <2>1, <2>2
<1>4. Calls(born, left)
  <2>1. ASSUME NEW j \in Jobs, at[j] = "asking", at' = [at EXCEPT ![j] = "startup"],
               worker' = [worker EXCEPT ![j] = idle], key = jobKey[j],
               i = NoWorker, left = {}, idle # NoWorker
        PROVE  Gives(j, idle, born, left) /\ idle \in Workers
    <3>1. /\ idle \in Workers /\ proc[idle] \notin {"none", "ending"}
          /\ loaded[idle] # NoCfg => Had(key, loaded[idle])
      BY <1>1, <2>1 DEF TypeOK, IdleOK
    <3>2. idle # idle'
      BY <1>3, <2>1, <3>1
    <3>. QED BY <2>1, <3>1, <3>2 DEF Gives
  <2>. QED BY <2>1 DEF Calls, LoopTurns
<1>5. key' \in Texts /\ Had(key', cfg)
  BY <1>1, BoundAssumption DEF TypeOK, IdleOK, Cfgs, LoopTurns
<1>6. SpawnStep(born, left)
  BY <1>0, <1>2, <1>3, <1>4, <1>5 DEF SpawnStep, setup, LoopTurns
<1>. QED BY <1>1, <1>2, <1>6, GoesKeeps

\* What the keeper's bookkeeping is while it runs.
LEMMA KeeperRuns ==
  ASSUME BridgeInv, ~ closed
  PROVE  Goes(idle, failures, respawn) /\ Goes(NoWorker, 0, "now")
         /\ (idle # NoWorker => Goes(NoWorker, failures + 1, Backoff(failures + 1)))
         /\ (idle # NoWorker \/ respawn # "none" => Goes(NoWorker, failures, "now"))
<1>1. /\ failures \in 0..(Backoffs + 1) /\ respawn \in {"none", "later", "now"}
      /\ Backoffs \in Nat /\ KeeperIsNeverStuck
      /\ idle # NoWorker \/ respawn # "none" => failures <= Backoffs
  BY BoundAssumption DEF BridgeInv, KeeperInv, TypeOK
<1>. QED BY <1>1 DEF Goes, Backoff, KeeperIsNeverStuck

LEMMA RespawnKeeps ==
  ASSUME BridgeInv, Respawn
  PROVE  BridgeInv'
<1>1. /\ Goes(NoWorker, failures, "now") /\ Replenish(NoWorker, failures, "now", {}, {})
      /\ LoopTurns(NoWorker, {})
  BY KeeperRuns DEF Respawn, LoopTurns, callVars, setup
<1>. QED BY <1>1, ReplenishKeeps

LEMMA ExpireKeeps ==
  ASSUME BridgeInv, Expire
  PROVE  BridgeInv'
<1>1. idle # NoWorker
  BY WorkerAssumption DEF Expire, BridgeInv, TypeOK
<1>2. /\ Goes(NoWorker, failures, "now") /\ Replenish(NoWorker, failures, "now", {}, {idle})
      /\ LoopTurns(NoWorker, {idle})
  BY <1>1, KeeperRuns DEF Expire, LoopTurns, callVars, setup
<1>. QED BY <1>2, ReplenishKeeps

LEMMA IdleStepKeeps ==
  ASSUME BridgeInv, IdleStep
  PROVE  BridgeInv'
<1>1. /\ ~ closed /\ idle # NoWorker /\ idle \in Workers
      /\ UNCHANGED <<cfg, key, closed, sent, setup, cancelled, handled>> /\ UNCHANGED <<at, worker>>
  BY DEF IdleStep, callVars, BridgeInv, TypeOK
<1>2. CASE IdleFails
  <2>1. Goes(NoWorker, failures + 1, Backoff(failures + 1))
    BY <1>1, KeeperRuns
  <2>2. Replenish(NoWorker, failures + 1, Backoff(failures + 1), {}, {idle})
    BY <1>2 DEF IdleFails
  <2>3. LoopTurns(NoWorker, {idle})
    BY <1>1 DEF LoopTurns
  <2>. QED BY <2>1, <2>2, <2>3, ReplenishKeeps
<1>3. CASE ~ IdleFails
  <2>. PICK w \in Workers : w = idle
    BY <1>1
  <2>1. /\ out[w] # <<>> /\ Head(out[w]) = "ready"
        /\ greeted' = greeted \cup {w} /\ out' = [out EXCEPT ![w] = Tail(@)]
        /\ UNCHANGED <<idle, failures, respawn, proc, loaded, faults>>
    BY <1>3 DEF IdleStep
  <2>2. /\ TypeOK /\ ProcInv /\ CallInv /\ IdleOK /\ KeeperInv /\ ProcOK(w)
    BY DEF BridgeInv, KeeperInv, ProcInv
  <2>3. out[w] \in Seq(Frames) /\ Tail(out[w]) \in Seq(Frames)
    BY <2>1, <2>2 DEF TypeOK
  <2>4. TypeOK'
    BY <1>1, <2>1, <2>2, <2>3 DEF TypeOK, setup
  <2>5. 1 \in 1..Len(out[w]) /\ out[w][1] = "ready"
    BY <2>1, <2>3
  <2>6. loaded[w] # NoCfg /\ proc[w] \notin {"none", "ending"}
    BY <2>2, <2>5 DEF ProcOK
  <2>7. ProcOK(w)'
    BY <1>1, <2>1, <2>2, <2>6 DEF ProcOK
  <2>8. \A v \in Workers \ {w} : SameProc(v)
    BY <1>1, <2>1, <2>2 DEF SameProc, TypeOK
  <2>9. Stays(w)
    BY <2>1 DEF Stays
  <2>10. UNCHANGED <<cfg, idle, key, at, worker, jobKey, handled>> /\ sent' = sent /\ proc' = proc
    BY <1>1, <2>1 DEF setup
  <2>11. ProcInv' /\ CallInv' /\ IdleOK'
    BY <2>2, <2>7, <2>8, <2>9, <2>10, ProcStep
  <2>. QED BY <1>1, <2>1, <2>2, <2>4, <2>11, KeeperStays DEF BridgeInv
<1>. QED BY <1>2, <1>3

LEMMA CloseKeeps ==
  ASSUME BridgeInv, Close
  PROVE  BridgeInv'
<1>1. /\ closed' = TRUE /\ idle' = NoWorker /\ respawn' = "none" /\ Spawned({}, {idle})
      /\ UNCHANGED <<cfg, key, failures, sent, setup, cancelled, handled, faults>>
      /\ UNCHANGED <<at, worker>>
  BY DEF Close, Retired, callVars
<1>2. TypeOK /\ IdleOK
  BY DEF BridgeInv, KeeperInv
<1>3. key' \in Texts /\ Had(key', cfg) /\ failures' \in 0..(Backoffs + 1) /\ faults' \in 0..MaxFaults
  BY <1>1, <1>2, BoundAssumption DEF TypeOK, IdleOK, Cfgs
<1>4. SpawnStep({}, {idle})
  BY <1>1, <1>3 DEF SpawnStep, Calls, setup
<1>5. TypeOK' /\ ProcInv' /\ CallInv' /\ IdleOK'
  BY <1>1, <1>3, <1>4, SpawnStepKeeps
<1>6. KeeperInv'
  BY <1>1, <1>5 DEF KeeperInv, KeeperIsNeverStuck
<1>. QED BY <1>5, <1>6 DEF BridgeInv

LEMMA SpawnOwnKeeps ==
  ASSUME BridgeInv, NEW j \in Jobs, SpawnOwn(j)
  PROVE  BridgeInv'
<1>1. at[j] = "spawning" /\ UNCHANGED <<cfg, keeperVars, sent>> /\ TypeOK /\ IdleOK /\ KeeperInv
      /\ UNCHANGED <<idle, key, failures, respawn, closed>>
  BY DEF SpawnOwn, BridgeInv, KeeperInv, keeperVars
<1>2. ASSUME Unborn({}) # {}, Spawned({Newborn({})}, {}),
             worker' = [worker EXCEPT ![j] = Newborn({})], at' = [at EXCEPT ![j] = "startup"],
             UNCHANGED <<setup, cancelled, handled, faults>>
      PROVE  BridgeInv'
  <2>. PICK i \in Workers : i = Newborn({}) /\ proc[i] = "none"
    BY <1>2, NewbornIs
  <2>1. i # idle'
    BY <1>1, WorkerAssumption DEF IdleOK
  <2>2. Gives(j, i, {i}, {})
    BY <1>1, <1>2, <2>1 DEF Gives
  <2>3. key' \in Texts /\ Had(key', cfg) /\ faults' \in 0..MaxFaults
    BY <1>1, <1>2, BoundAssumption DEF TypeOK, IdleOK, Cfgs
  <2>4. Spawned({i}, {})
    BY <1>2
  <2>5. SpawnStep({i}, {})
    BY <1>1, <1>2, <2>2, <2>3, <2>4 DEF SpawnStep, Calls, setup
  <2>6. /\ failures' \in 0..(Backoffs + 1) /\ respawn' \in {"none", "later", "now"}
        /\ closed' \in BOOLEAN
    BY <1>1 DEF TypeOK
  <2>7. TypeOK' /\ ProcInv' /\ CallInv' /\ IdleOK'
    BY <2>5, <2>6, SpawnStepKeeps
  <2>. QED BY <1>1, <2>7, KeeperStays DEF BridgeInv
<1>3. ASSUME Fault, Ends(j), UNCHANGED <<proc, loaded, out, greeted, worker>>
      PROVE  BridgeInv'
  <2>1. /\ at' = [at EXCEPT ![j] = "done"] /\ faults' \in 0..MaxFaults
        /\ jobKey' = [jobKey EXCEPT ![j] = NoCfg] /\ handled' = [handled EXCEPT ![j] = 0]
        /\ direct' \subseteq direct /\ retried' \subseteq retried /\ cancelled' \subseteq cancelled
    BY <1>1, <1>3, BoundAssumption DEF Ends, Fault, TypeOK
  <2>2. jobKey \in [Jobs -> Texts \cup {NoCfg}] /\ handled \in [Jobs -> Nat]
    BY <1>1 DEF TypeOK
  <2>3. /\ jobKey' \in [Jobs -> Texts \cup {NoCfg}] /\ handled' \in [Jobs -> Nat] /\ handled'[j] = 0
        /\ \A k \in Jobs \ {j} : jobKey'[k] = jobKey[k] /\ handled'[k] = handled[k]
    BY <2>1, <2>2
  <2>4. TypeOK'
    BY <1>1, <1>3, <2>1, <2>3 DEF TypeOK
  <2>5. /\ \A k \in Jobs \ {j} : SameCall(k)
        /\ at'[j] = "done" /\ worker'[j] = worker[j]
    BY <1>1, <1>3, <2>1, <2>3 DEF SameCall, TypeOK
  <2>6. CallOK(j) /\ "done" \notin Holding /\ "spawning" \notin Holding /\ "spawning" \notin Talking
    BY DEF BridgeInv, CallInv, Holding, Talking
  <2>7. CallOK(j)'
    BY <1>1, <2>3, <2>5, <2>6 DEF CallOK
  <2>8. UNCHANGED <<idle, key, procVars>> /\ cfg' \in Nat /\ cfg <= cfg' /\ worker' = worker
    BY <1>1, <1>3, BoundAssumption DEF procVars, TypeOK, Cfgs
  <2>9. ProcInv' /\ CallInv' /\ IdleOK'
    BY <1>1, <2>5, <2>6, <2>7, <2>8, CallMove DEF BridgeInv
  <2>. QED BY <1>1, <2>4, <2>9, KeeperStays DEF BridgeInv
<1>. QED BY <1>2, <1>3 DEF SpawnOwn

LEMMA HandOverKeeps ==
  ASSUME BridgeInv, NEW j \in Jobs, HandOver(j)
  PROVE  BridgeInv'
<1>1. /\ at[j] = "asking" /\ ~ closed
      /\ UNCHANGED <<cfg, closed, sent, setup, cancelled, handled>>
      /\ TypeOK /\ IdleOK /\ CallOK(j)
  BY DEF HandOver, BridgeInv, KeeperInv, CallInv
<1>2. ASSUME key' = key, key = jobKey[j], Reply(j, idle, failures, respawn, {}, {})
      PROVE  BridgeInv'
  <2>1. CASE idle # NoWorker /\ Running(idle)
    <3>1. /\ worker' = [worker EXCEPT ![j] = idle] /\ at' = [at EXCEPT ![j] = "startup"]
          /\ Replenish(NoWorker, 0, "now", {}, {})
      BY <1>2, <2>1 DEF Reply
    <3>2. Goes(NoWorker, 0, "now")
      BY <1>1, KeeperRuns
    <3>3. LoopTurns(NoWorker, {})
      BY <1>1, <1>2, <2>1, <3>1 DEF LoopTurns
    <3>. QED BY <3>1, <3>2, <3>3, ReplenishKeeps
  <2>2. CASE ~ (idle # NoWorker /\ Running(idle))
    <3>1. /\ UNCHANGED worker /\ at' = [at EXCEPT ![j] = "spawning"]
          /\ Replenish(idle, failures, respawn, {}, {})
      BY <1>2, <2>2 DEF Reply, Left
    <3>2. Goes(idle, failures, respawn) /\ idle \in Workers \cup {NoWorker}
      BY <1>1, KeeperRuns DEF TypeOK
    <3>3. LoopTurns(idle, {})
      BY <1>1, <1>2, <3>1 DEF LoopTurns
    <3>. QED BY <3>1, <3>2, <3>3, ReplenishKeeps
  <2>. QED BY <2>1, <2>2
<1>3. Had(jobKey[j], cfg) /\ jobKey[j] \in Texts
  BY <1>1, HadIsText DEF CallOK, TypeOK
<1>4. ASSUME key' = jobKey[j], Unborn({}) # {},
             Reply(j, Newborn({}), 0, "none", {Newborn({})}, {idle})
      PROVE  BridgeInv'
  <2>. PICK i \in Workers : i = Newborn({}) /\ proc[i] = "none"
    BY <1>4, NewbornIs
  <2>1. /\ worker' = [worker EXCEPT ![j] = i] /\ at' = [at EXCEPT ![j] = "startup"]
        /\ Replenish(NoWorker, 0, "now", {i}, {idle})
    BY <1>4, WorkerAssumption DEF Reply
  <2>2. Goes(NoWorker, 0, "now")
    BY <1>1, KeeperRuns
  <2>3. /\ Goes(idle', failures', respawn') /\ faults' \in 0..MaxFaults
        /\ \/ idle' = NoWorker /\ Spawned({i}, {idle})
           \/ /\ idle' \in Workers \ {i} /\ proc[idle'] = "none"
              /\ Spawned({i} \cup {idle'}, {idle})
    BY <1>1, <2>1, <2>2, ReplenishEffect
  <2>4. PICK born \in SUBSET Workers :
          /\ Spawned(born, {idle}) /\ (\A w \in born : proc[w] = "none") /\ i \in born
          /\ idle' \in born \cup {NoWorker} /\ i # idle'
    <3>1. CASE idle' = NoWorker /\ Spawned({i}, {idle})
      BY <3>1, WorkerAssumption
    <3>2. CASE idle' \in Workers \ {i} /\ proc[idle'] = "none" /\ Spawned({i} \cup {idle'}, {idle})
      BY <3>2
    <3>. QED BY <2>3, <3>1, <3>2
  <2>5. Gives(j, i, born, {idle})
    BY <1>1, <2>1, <2>4 DEF Gives
  <2>6. SpawnStep(born, {idle})
    BY <1>1, <1>3, <1>4, <2>3, <2>4, <2>5 DEF SpawnStep, Calls, setup
  <2>. QED BY <1>1, <2>3, <2>6, GoesKeeps DEF TypeOK
<1>5. ASSUME key' = jobKey[j], Fault, idle' = NoWorker, failures' = 1, respawn' = Backoff(1),
             Spawned({}, {idle}), at' = [at EXCEPT ![j] = "spawning"], UNCHANGED worker
      PROVE  BridgeInv'
  <2>1. Goes(idle', failures', respawn')
    BY <1>5, BoundAssumption DEF Goes, Backoff
  <2>2. faults' \in 0..MaxFaults
    BY <1>1, <1>5, BoundAssumption DEF Fault, TypeOK
  <2>3. SpawnStep({}, {idle})
    BY <1>1, <1>3, <1>5, <2>2 DEF SpawnStep, Calls, setup
  <2>. QED BY <1>1, <2>1, <2>3, GoesKeeps DEF TypeOK
<1>. QED BY <1>2, <1>4, <1>5 DEF HandOver, KeyChanges

-----------------------------------------------------------------------------
(* The invariant *)

LEMMA BridgeInit ==
  ASSUME Init
  PROVE  BridgeInv
<1>1. TypeOK
  <2>1. <<>> \in Seq(Frames)
    OBVIOUS
  <2>2. /\ cfg \in Cfgs /\ key \in Texts /\ failures \in 0..(Backoffs + 1) /\ faults \in 0..MaxFaults
        /\ NoCfg \in Cfgs \cup {NoCfg} /\ 0 \in 0..2 /\ 0 \in Nat
    BY BoundAssumption DEF Init, Cfgs, Texts
  <2>3. /\ proc \in [Workers -> {"none", "starting", "waiting", "handling", "answered", "exited",
                         "ending"}]
        /\ loaded \in [Workers -> Cfgs \cup {NoCfg}] /\ out \in [Workers -> Seq(Frames)]
        /\ sent \in [Workers -> 0..2]
    BY <2>1, <2>2 DEF Init
  <2>4. /\ at \in [Jobs -> {"idle", "waiting", "asking", "spawning", "startup", "stamping",
                            "conversing", "draining", "done"}]
        /\ worker \in [Jobs -> Workers \cup {NoWorker}]
        /\ jobKey \in [Jobs -> Texts \cup {NoCfg}] /\ handled \in [Jobs -> Nat]
    BY <2>2 DEF Init
  <2>. QED BY <2>2, <2>3, <2>4 DEF Init, TypeOK
<1>2. ProcInv
  BY DEF Init, ProcInv, ProcOK
<1>3. CallInv
  BY DEF Init, CallInv, CallOK, Holding, Talking
<1>4. KeeperInv
  BY BoundAssumption, HadNow DEF Init, KeeperInv, IdleOK, KeeperIsNeverStuck
<1>. QED BY <1>1, <1>2, <1>3, <1>4 DEF BridgeInv

\* A step that changes nothing.
LEMMA StutterKeeps ==
  ASSUME BridgeInv, UNCHANGED vars
  PROVE  BridgeInv'
<1>1. UNCHANGED <<cfg, idle, key, failures, respawn, closed, proc, loaded, out, sent, greeted, at,
                  direct, worker, jobKey, retried, cancelled, handled, faults>>
  BY DEF vars, keeperVars, procVars, callVars, setup
<1>. USE <1>1
<1>5. TypeOK'
  BY DEF BridgeInv, TypeOK
<1>2. ProcInv'
  BY ProcFrame DEF BridgeInv, ProcInv
<1>3. CallInv'
  <2>. SUFFICES ASSUME NEW k \in Jobs PROVE CallOK(k)'
    BY DEF CallInv
  <2>1. CallOK(k) /\ TypeOK /\ cfg' \in Nat /\ cfg <= cfg'
    BY BoundAssumption DEF BridgeInv, CallInv, TypeOK, Cfgs
  <2>2. worker[k] # NoWorker => worker[k] # idle'
    BY <2>1 DEF CallOK
  <2>. QED BY <2>1, <2>2, CallFrame
<1>4. IdleOK'
  BY DEF BridgeInv, KeeperInv, IdleOK
<1>. QED BY <1>5, <1>2, <1>3, <1>4, KeeperStays DEF BridgeInv

LEMMA BridgeNext ==
  ASSUME BridgeInv, [Next]_vars
  PROVE  BridgeInv'
<1>1. ASSUME NEW w \in Workers, RuntimeStep(w) PROVE BridgeInv'
  BY <1>1, ReadyKeeps, AnswerKeeps, DieKeeps, MisbehaveKeeps, EndKeeps DEF RuntimeStep
<1>2. CASE KeeperStep
  BY <1>2, RespawnKeeps, IdleStepKeeps, ExpireKeeps, CloseKeeps DEF KeeperStep
<1>3. CASE Edit
  BY <1>3, OutsideKeeps DEF Edit
<1>4. ASSUME NEW j \in Jobs, Cancel(j) PROVE BridgeInv'
  BY <1>4, OutsideKeeps DEF Cancel
<1>5. ASSUME NEW j \in Jobs, CallStep(j) PROVE BridgeInv'
  BY <1>5, WaitKeeps, HandOverKeeps, AskInVainKeeps, SpawnOwnKeeps, IsReadyKeeps, StartupStepKeeps,
     StampKeeps, WriteKeeps, WriteFailsKeeps, ConverseKeeps, DrainKeeps DEF CallStep
<1>6. ASSUME NEW j \in Jobs, Begin(j) \/ BeginDirect(j) \/ Handle(j) PROVE BridgeInv'
  BY <1>6, BeginKeeps, BeginDirectKeeps, HandleKeeps
<1>. QED BY <1>1, <1>2, <1>3, <1>4, <1>5, <1>6, StutterKeeps DEF Next

LEMMA BridgeAlways == Spec => []BridgeInv
<1>1. Init => BridgeInv
  BY BridgeInit
<1>2. BridgeInv /\ [Next]_vars => BridgeInv'
  BY BridgeNext
<1>. QED BY <1>1, <1>2, PTL DEF Spec

(* The bridge's state has its types: no failure is counted past the backoffs, no
   worker is taken for one that is not a process (prewarm.rs; bridge/mod.rs). *)
THEOREM TypeCorrect == Spec => []TypeOK
<1>1. BridgeInv => TypeOK
  BY DEF BridgeInv
<1>. QED BY <1>1, BridgeAlways, PTL

(* For any number of jobs and runtime processes, a request is begun at most once,
   dispatched again or not, and no process works on a request whose call has
   returned (worker.rs, converse; execute.rs, dispatch). *)
THEOREM WorkHasItsCaller == Spec => []WorkIsForItsCaller
<1>1. BridgeInv => WorkIsForItsCaller
  <2>1. ASSUME BridgeInv, NEW j \in Jobs PROVE handled[j] <= 1
    <3>1. handled[j] \in Nat /\ (handled[j] # 0 => handled[j] = 1)
      BY <2>1 DEF BridgeInv, CallInv, CallOK, TypeOK
    <3>. QED BY <3>1
  <2>2. ASSUME BridgeInv, NEW w \in Workers, proc[w] \in {"handling", "answered"}
        PROVE  \E j \in Jobs : worker[j] = w /\ at[j] \in {"conversing", "draining"}
    BY <2>2 DEF BridgeInv, ProcInv, ProcOK, Talking
  <2>. QED BY <2>1, <2>2 DEF WorkIsForItsCaller, RequestRunsOnce, WorkHasACall
<1>. QED BY <1>1, BridgeAlways, PTL

(* For any number of jobs, processes, backoffs and edits of manim.cfg, undone or
   not, a job runs in a worker that imported the text of its key or one that
   replaced it, and the keeper that may go on is never without both a worker and
   the next one on its way (prewarm.rs, hand_over and failed). *)
THEOREM IdleWorkersAreOfUse == Spec => []IdleWorkersServe
<1>1. BridgeInv => IdleWorkersServe
  <2>1. ASSUME BridgeInv, NEW j \in Jobs, at[j] \in {"conversing", "draining"}
        PROVE  Had(jobKey[j], loaded[worker[j]])
    <3>1. /\ worker[j] \in Workers /\ CallOK(j) /\ Had(jobKey[j], cfg) /\ TypeOK
          /\ at[j] \in Holding \ {"startup"}
      BY <2>1, Holder DEF Holding, Talking, BridgeInv
    <3>2. loaded[worker[j]] # NoCfg /\ Had(jobKey[j], loaded[worker[j]])
      BY <3>1, WorkerAssumption DEF CallOK
    <3>. QED BY <3>2
  <2>2. ASSUME BridgeInv PROVE KeeperIsNeverStuck
    BY <2>2 DEF BridgeInv, KeeperInv
  <2>. QED BY <2>1, <2>2 DEF IdleWorkersServe, WorkersAreCurrent
<1>. QED BY <1>1, BridgeAlways, PTL
=============================================================================

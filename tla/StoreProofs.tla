---------------------------- MODULE StoreProofs ----------------------------
(***************************************************************************)
(* What the engine keeps beyond a job.  While the project's files never go *)
(* back to an earlier version, no entry of the result cache is wrong,      *)
(* whatever is edited, upgraded, cancelled or pruned while jobs run, and   *)
(* whatever a submission is answered with shows the files as they were     *)
(* then, or later.  No number of engines that prune takes anything that is *)
(* still shown, but from jobs that chose it too late to be seen.  While    *)
(* the ticks are late by less than the hold-back allows, the leases tell   *)
(* which engines live, however often the machine sleeps.  And the pictures *)
(* that are shown for a scene are of it, and current unless marked.        *)
(***************************************************************************)
EXTENDS ResultCache, Leases, SceneMedia, Induction, TLAPS

(* Result cache *)

\* What a run under way knows: its worker, the version it was hashed at and
\* the one it read, in this order, none newer than the files are.
RunInv ==
  /\ files \in Contents /\ installed \in Runtimes /\ warm \in Runtimes \cup {Unknown}
  /\ at \in [Jobs -> Stages]
  /\ worker \in [Jobs -> Runtimes \cup {Unknown}]
  /\ start \in [Jobs -> Keys \cup {NoKey}] /\ made \in [Jobs -> Keys \cup {NoKey}]
  /\ \A j \in Jobs : at[j] = "ready" => worker[j] \in Runtimes
  /\ \A j \in Jobs : at[j] \in {"stamped", "read", "ended"} =>
       /\ worker[j] \in Runtimes
       /\ \E c \in Contents : c <= files /\ start[j] = <<worker[j], c>>
  /\ \A j \in Jobs : at[j] \in {"read", "ended"} =>
       \E c, d \in Contents :
         /\ c <= d /\ d <= files
         /\ start[j] = <<worker[j], c>> /\ made[j] = <<worker[j], d>>

\* A cached job's run is over, so what it made stays what it was.
EntryInv ==
  /\ cache \in [Keys -> Jobs \cup {NoJob}]
  /\ \A k \in Keys : cache[k] # NoJob => at[cache[k]] = "done" /\ made[cache[k]] = k

CacheInv == RunInv /\ EntryInv

-----------------------------------------------------------------------------
LEMMA InitCacheInv == Init => CacheInv
PROOF
  <1> SUFFICES ASSUME Init PROVE CacheInv
    OBVIOUS
  <1>1. RunInv
    BY DEF Init, RunInv, Stages
  <1>2. EntryInv
    BY DEF Init, EntryInv
  <1> QED
    BY <1>1, <1>2 DEF CacheInv

(* A step that moves no run and puts nothing into the cache. *)
LEMMA OtherSteps ==
  ASSUME CacheInv, UNCHANGED <<runVars, at, files>>,
         installed' \in Runtimes, warm' \in Runtimes \cup {Unknown},
         cache' \in [Keys -> Jobs \cup {NoJob}],
         \A k \in Keys : cache'[k] \in {cache[k], NoJob}
  PROVE  CacheInv'
PROOF
  <1>1. RunInv'
    BY DEF CacheInv, RunInv, runVars
  <1>2. EntryInv'
    BY DEF CacheInv, EntryInv, runVars
  <1> QED
    BY <1>1, <1>2 DEF CacheInv

(* A step that moves one job outside its run, or ends its run early. *)
LEMMA QuietMoves ==
  ASSUME CacheInv, NEW j \in Jobs,
         NEW there \in Stages \ {"ready", "stamped", "read", "ended"},
         Go(j, there), at[j] = "done" => there = "done",
         UNCHANGED <<runVars, files, installed, warm>>,
         cache' \in [Keys -> Jobs \cup {NoJob}],
         \A k \in Keys : cache'[k] \in {cache[k], NoJob}
  PROVE  CacheInv'
PROOF
  <1>1. RunInv'
    BY DEF CacheInv, RunInv, runVars, Go
  <1>2. EntryInv'
    BY DEF CacheInv, RunInv, EntryInv, runVars, Go
  <1> QED
    BY <1>1, <1>2 DEF CacheInv

LEMMA EditKeepsCacheInv == ~ MayRevert /\ CacheInv /\ Edit => CacheInv'
PROOF
  <1> SUFFICES ASSUME ~ MayRevert, CacheInv, Edit PROVE CacheInv'
    OBVIOUS
  <1>1. files' \in Contents /\ files < files' /\ files \in Nat /\ files' \in Nat
    BY VersionsAssumption DEF Edit, CacheInv, RunInv
  <1>2. \A c \in Contents : c \in Nat
    BY VersionsAssumption
  <1>3. \A c \in Contents : c <= files => c <= files'
    BY <1>1, <1>2
  <1>4. RunInv'
    BY <1>1, <1>3 DEF Edit, CacheInv, RunInv, runVars, readyVars
  <1>5. EntryInv'
    BY DEF Edit, CacheInv, EntryInv, runVars
  <1> QED
    BY <1>4, <1>5 DEF CacheInv

LEMMA AcquireKeepsCacheInv ==
  ASSUME CacheInv, NEW j \in Jobs, Acquire(j)
  PROVE  CacheInv'
PROOF
  <1>1. \E r \in Runtimes : worker' = [worker EXCEPT ![j] = r]
    BY DEF Acquire, CacheInv, RunInv
  <1>2. UNCHANGED <<files, installed, start, made, cache>> /\ warm' \in Runtimes \cup {Unknown}
    BY DEF Acquire, worldVars, CacheInv, RunInv
  <1>3. at[j] = "acquiring" /\ at' = [at EXCEPT ![j] = "ready"]
    BY DEF Acquire, Go
  <1>4. RunInv'
    BY <1>1, <1>2, <1>3 DEF CacheInv, RunInv, Stages
  <1>5. EntryInv'
    BY <1>2, <1>3 DEF CacheInv, RunInv, EntryInv
  <1> QED
    BY <1>4, <1>5 DEF CacheInv

LEMMA StampKeepsCacheInv ==
  ASSUME CacheInv, NEW j \in Jobs, Stamp(j)
  PROVE  CacheInv'
PROOF
  <1>1. at[j] = "ready" /\ at' = [at EXCEPT ![j] = "stamped"]
    BY DEF Stamp, Go
  <1>2. start' = [start EXCEPT ![j] = <<worker[j], files>>]
    BY DEF Stamp, StartKey
  <1>3. UNCHANGED <<files, installed, warm, worker, made, cache>>
    BY DEF Stamp, worldVars, readyVars
  <1>4. worker[j] \in Runtimes /\ files \in Contents /\ files <= files
    BY <1>1, VersionsAssumption DEF CacheInv, RunInv
  <1>5. <<worker[j], files>> \in Keys
    BY <1>4 DEF Keys
  <1>6. RunInv'
    BY <1>1, <1>2, <1>3, <1>4, <1>5 DEF CacheInv, RunInv, Stages
  <1>7. EntryInv'
    BY <1>1, <1>3 DEF CacheInv, RunInv, EntryInv
  <1> QED
    BY <1>6, <1>7 DEF CacheInv

LEMMA ReadKeepsCacheInv ==
  ASSUME CacheInv, NEW j \in Jobs, Read(j)
  PROVE  CacheInv'
PROOF
  <1>1. at[j] = "stamped" /\ at' = [at EXCEPT ![j] = "read"]
    BY DEF Read, Go
  <1>2. made' = [made EXCEPT ![j] = <<worker[j], files>>]
    BY DEF Read
  <1>3. UNCHANGED <<files, installed, warm, worker, start, cache>>
    BY DEF Read, worldVars, readyVars
  <1>4. worker[j] \in Runtimes /\ files \in Contents /\ files <= files
    BY <1>1, VersionsAssumption DEF CacheInv, RunInv
  <1>5. <<worker[j], files>> \in Keys
    BY <1>4 DEF Keys
  <1>6. \E c, d \in Contents :
          /\ c <= d /\ d <= files
          /\ start[j] = <<worker[j], c>> /\ made'[j] = <<worker[j], d>>
    BY <1>1, <1>2, <1>4 DEF CacheInv, RunInv
  <1>7. RunInv'
    BY <1>1, <1>2, <1>3, <1>4, <1>5, <1>6 DEF CacheInv, RunInv, Stages
  <1>8. EntryInv'
    BY <1>1, <1>2, <1>3 DEF CacheInv, RunInv, EntryInv
  <1> QED
    BY <1>7, <1>8 DEF CacheInv

LEMMA SucceedKeepsCacheInv ==
  ASSUME CacheInv, NEW j \in Jobs, Succeed(j)
  PROVE  CacheInv'
PROOF
  <1>1. UNCHANGED <<files, installed, warm, cache, runVars>>
    BY DEF Succeed, worldVars, readyVars
  <1>2. CASE j \in Readers
    <2>1. at[j] = "acquiring" /\ Go(j, "done")
      BY <1>2 DEF Succeed
    <2>2. cache' \in [Keys -> Jobs \cup {NoJob}]
      BY <1>1 DEF CacheInv, EntryInv
    <2> QED
      BY <1>1, <2>1, <2>2, QuietMoves DEF Stages
  <1>3. CASE j \notin Readers
    <2>1. at[j] = "read" /\ at' = [at EXCEPT ![j] = "ended"]
      BY <1>3 DEF Succeed, Go
    <2>2. RunInv'
      BY <1>1, <2>1 DEF CacheInv, RunInv, Stages, runVars
    <2>3. EntryInv'
      BY <1>1, <2>1 DEF CacheInv, RunInv, EntryInv, runVars
    <2> QED
      BY <2>2, <2>3 DEF CacheInv
  <1> QED
    BY <1>2, <1>3

(* The heart of it: the files hash as they did at the start, so the version
   that was read between them is the same one. *)
LEMMA PutKeepsCacheInv ==
  ASSUME CacheInv, NEW j \in Jobs, Put(j)
  PROVE  CacheInv'
PROOF
  <1>1. at[j] = "ended" /\ at' = [at EXCEPT ![j] = "done"]
    BY DEF Put, Go
  <1>2. UNCHANGED <<files, installed, warm, runVars>>
    BY DEF Put, worldVars, readyVars
  <1>3. PICK c \in Contents, d \in Contents :
          /\ c <= d /\ d <= files
          /\ start[j] = <<worker[j], c>> /\ made[j] = <<worker[j], d>>
    BY <1>1 DEF CacheInv, RunInv
  <1>4. InputsUnchanged(j) => made[j] = start[j]
    <2> SUFFICES ASSUME InputsUnchanged(j) PROVE made[j] = start[j]
      OBVIOUS
    <2>1. c = files
      BY <1>3 DEF InputsUnchanged
    <2>2. c \in Nat /\ d \in Nat
      BY VersionsAssumption
    <2>3. c = d
      BY <1>3, <2>1, <2>2
    <2> QED
      BY <1>3, <2>3
  <1>5. start[j] \in Keys
    <2>1. worker[j] \in Runtimes
      BY <1>1 DEF CacheInv, RunInv
    <2> QED
      BY <1>3, <2>1 DEF Keys
  <1>6. RunInv'
    BY <1>1, <1>2 DEF CacheInv, RunInv, Stages, runVars
  <1>7. EntryInv'
    <2>1. CASE InputsUnchanged(j)
      <3>1. cache' = [cache EXCEPT ![start[j]] = j]
        BY <2>1 DEF Put
      <3>2. made[j] = start[j]
        BY <1>4, <2>1
      <3> QED
        BY <1>1, <1>2, <1>5, <3>1, <3>2 DEF CacheInv, RunInv, EntryInv, runVars
    <2>2. CASE ~ InputsUnchanged(j)
      <3>1. cache' = cache
        BY <2>2 DEF Put
      <3> QED
        BY <1>1, <1>2, <3>1 DEF CacheInv, RunInv, EntryInv, runVars
    <2> QED
      BY <2>1, <2>2
  <1> QED
    BY <1>6, <1>7 DEF CacheInv

LEMMA SubmissionKeepsCacheInv ==
  ASSUME CacheInv, NEW j \in Jobs, Submission(j)
  PROVE  CacheInv'
PROOF
  <1>0. cache \in [Keys -> Jobs \cup {NoJob}]
    BY DEF CacheInv, EntryInv
  <1>1. CASE Hash(j)
    <2>1. at[j] # "done" /\ (Go(j, "missed") \/ Go(j, "hashed"))
      BY <1>1 DEF Hash
    <2>2. UNCHANGED <<runVars, files, installed, warm, cache>>
      BY <1>1 DEF Hash, worldVars, readyVars
    <2> QED
      BY <1>0, <2>1, <2>2, QuietMoves DEF Stages
  <1>2. CASE Look(j)
    <2>1. at[j] # "done" /\ (Go(j, "hit") \/ Go(j, "looked"))
      BY <1>2 DEF Look
    <2>2. UNCHANGED <<runVars, files, installed, warm>>
      BY <1>2 DEF Look, worldVars, readyVars
    <2>3. cache' = cache \/ cache' = [cache EXCEPT ![asked[j]] = NoJob]
      BY <1>2 DEF Look
    <2>4. cache' \in [Keys -> Jobs \cup {NoJob}]
      BY <1>0, <2>3
    <2>5. \A k \in Keys : cache'[k] \in {cache[k], NoJob}
      BY <1>0, <2>3
    <2> QED
      BY <2>1, <2>2, <2>4, <2>5, QuietMoves DEF Stages
  <1>3. CASE InsertHit(j)
    <2>1. at[j] # "done" /\ Go(j, "done")
      BY <1>3 DEF InsertHit
    <2>2. UNCHANGED <<runVars, files, installed, warm, cache>>
      BY <1>3 DEF InsertHit, worldVars, readyVars
    <2> QED
      BY <1>0, <2>1, <2>2, QuietMoves DEF Stages
  <1>4. CASE Join(j)
    <2>1. at[j] # "done" /\ (Go(j, "missed") \/ Go(j, "done"))
      BY <1>4 DEF Join
    <2>2. UNCHANGED <<runVars, files, installed, warm, cache>>
      BY <1>4 DEF Join, worldVars, readyVars
    <2> QED
      BY <1>0, <2>1, <2>2, QuietMoves DEF Stages
  <1>5. CASE Insert(j)
    <2>1. at[j] # "done" /\ Go(j, "queued")
      BY <1>5 DEF Insert
    <2>2. UNCHANGED <<runVars, files, installed, warm, cache>>
      BY <1>5 DEF Insert, worldVars, readyVars
    <2> QED
      BY <1>0, <2>1, <2>2, QuietMoves DEF Stages
  <1> QED
    BY <1>1, <1>2, <1>3, <1>4, <1>5 DEF Submission

LEMMA RunStepKeepsCacheInv ==
  ASSUME CacheInv, NEW j \in Jobs, RunStep(j)
  PROVE  CacheInv'
PROOF
  <1>0. cache \in [Keys -> Jobs \cup {NoJob}]
    BY DEF CacheInv, EntryInv
  <1>1. CASE Run(j)
    <2>1. at[j] # "done" /\ Go(j, "acquiring")
      BY <1>1 DEF Run
    <2>2. UNCHANGED <<runVars, files, installed, warm, cache>>
      BY <1>1 DEF Run, worldVars, readyVars
    <2> QED
      BY <1>0, <2>1, <2>2, QuietMoves DEF Stages
  <1>2. CASE Fail(j)
    <2>1. Go(j, "done")
      BY <1>2 DEF Fail
    <2>2. UNCHANGED <<runVars, files, installed, warm, cache>>
      BY <1>2 DEF Fail, worldVars, readyVars
    <2> QED
      BY <1>0, <2>1, <2>2, QuietMoves DEF Stages
  <1> QED
    BY <1>1, <1>2, AcquireKeepsCacheInv, StampKeepsCacheInv, ReadKeepsCacheInv,
       SucceedKeepsCacheInv, PutKeepsCacheInv DEF RunStep

LEMMA PruningKeepsCacheInv ==
  ASSUME CacheInv, NEW p \in Pruners, Pruning(p)
  PROVE  CacheInv'
PROOF
  <1>0. cache \in [Keys -> Jobs \cup {NoJob}] /\ installed \in Runtimes
          /\ warm \in Runtimes \cup {Unknown}
    BY DEF CacheInv, RunInv, EntryInv
  <1>1. UNCHANGED <<runVars, at, files, installed, warm>>
    BY DEF Pruning, List, ReadLinks, Mark, Delete, Sweep, SweepCache, worldVars, readyVars
  <1>2. \/ cache' = cache
        \/ cache' = WithoutThem(prune[p].ids)
        \/ cache' = [k \in Keys |-> IF cache[k] \in dirs THEN cache[k] ELSE NoJob]
    BY DEF Pruning, List, ReadLinks, Mark, Delete, Sweep, SweepCache
  <1>3. cache' \in [Keys -> Jobs \cup {NoJob}]
    BY <1>0, <1>2 DEF WithoutThem
  <1>4. \A k \in Keys : cache'[k] \in {cache[k], NoJob}
    BY <1>0, <1>2 DEF WithoutThem
  <1> QED
    BY <1>0, <1>1, <1>3, <1>4, OtherSteps

LEMMA NextKeepsCacheInv == ~ MayRevert /\ CacheInv /\ [Next]_vars => CacheInv'
PROOF
  <1> SUFFICES ASSUME ~ MayRevert, CacheInv, [Next]_vars PROVE CacheInv'
    OBVIOUS
  <1>0. cache \in [Keys -> Jobs \cup {NoJob}] /\ installed \in Runtimes
          /\ warm \in Runtimes \cup {Unknown}
    BY DEF CacheInv, RunInv, EntryInv
  <1>1. CASE Edit
    BY <1>1, EditKeepsCacheInv
  <1>2. CASE Upgrade
    <2>1. UNCHANGED <<runVars, at, files, warm, cache>> /\ installed' \in Runtimes
      BY <1>2 DEF Upgrade, readyVars
    <2> QED
      BY <1>0, <2>1, OtherSteps
  <1>3. CASE Warm
    <2>1. UNCHANGED <<runVars, at, files, installed, cache>> /\ warm' \in Runtimes \cup {Unknown}
      BY <1>0, <1>3 DEF Warm, worldVars
    <2> QED
      BY <1>0, <2>1, OtherSteps
  <1>4. CASE \E j \in Jobs : Cancel(j)
    <2>1. UNCHANGED <<runVars, at, files, installed, warm, cache>>
      BY <1>4 DEF Cancel, worldVars, readyVars
    <2> QED
      BY <1>0, <2>1, OtherSteps
  <1>5. CASE UNCHANGED vars
    <2>1. UNCHANGED <<runVars, at, files, installed, warm, cache>>
      BY <1>5 DEF vars, worldVars, readyVars
    <2> QED
      BY <1>0, <2>1, OtherSteps
  <1> QED
    BY <1>1, <1>2, <1>3, <1>4, <1>5, SubmissionKeepsCacheInv, RunStepKeepsCacheInv,
       PruningKeepsCacheInv DEF Next

-----------------------------------------------------------------------------
(* While the files never go back to an earlier version, every entry of the
   cache is a render of exactly the files and the runtime its key names,
   whatever is edited, upgraded, cancelled or pruned in the meantime
   (execute.rs, start_fingerprint and finish). *)
THEOREM EntriesAreSound == ~ MayRevert /\ Spec => []CacheSound
PROOF
  <1>1. CacheInv => CacheSound
    BY DEF CacheInv, EntryInv, CacheSound
  <1>2. CASE ~ MayRevert
    <2>1. Init => CacheInv
      BY InitCacheInv
    <2>2. CacheInv /\ [Next]_vars => CacheInv'
      BY <1>2, NextKeepsCacheInv
    <2> QED
      BY <1>1, <2>1, <2>2, PTL DEF Spec
  <1>3. CASE MayRevert
    BY <1>3
  <1> QED
    BY <1>2, <1>3

-----------------------------------------------------------------------------
(* Types *)

\* A run has its worker from when it is ready.
TypeInv ==
  /\ TypeOK
  /\ \A j \in Jobs : at[j] \in {"ready", "stamped", "read", "ended"} => worker[j] \in Runtimes

LEMMA InitTypeInv == Init => TypeInv
  BY DEF Init, TypeInv, TypeOK, Stages

\* In the order o, no job of S was inserted after j.
Last(o, S, j) == \E i \in 1..Len(o) :
                   o[i] = j /\ \A k \in (i + 1)..Len(o) : o[k] \notin S

InOrder(j) == \E i \in 1..Len(order) : order[i] = j

LEMMA SomeLast ==
  ASSUME NEW o \in Seq(Jobs), NEW S, S # {}, \A j \in S : \E i \in 1..Len(o) : o[i] = j
  PROVE  \E j \in S : Last(o, S, j)
<1> DEFINE n == Len(o)
           T == {m \in 0..n : m < n /\ o[n - m] \in S}
<1>1. n \in Nat
  OBVIOUS
<1>2. PICK j \in S, i \in 1..n : o[i] = j
  OBVIOUS
<1>3. n - i \in T
  <2>1. n - i \in 0..n /\ n - i < n /\ n - (n - i) = i
    BY <1>1, <1>2
  <2> QED
    BY <1>2, <2>1
<1>4. PICK m \in T : \A k \in T : m <= k
  <2>1. T \in SUBSET Nat /\ T # {}
    BY <1>1, <1>3
  <2> HIDE DEF T
  <2> QED
    BY <2>1, Least
<1>5. n - m \in 1..n /\ o[n - m] \in S
  BY <1>1, <1>4
<1>6. ASSUME NEW k \in (n - m + 1)..n, o[k] \in S
      PROVE  FALSE
  <2>1. n - k \in 0..n /\ n - k < m /\ n - k < n /\ n - (n - k) = k /\ m \in Nat
    BY <1>1, <1>4, <1>6
  <2>2. n - k \in T
    BY <1>6, <2>1
  <2> QED
    BY <1>4, <2>1, <2>2
<1> QED
  BY <1>5, <1>6 DEF Last

LEMMA LastIsUnique ==
  ASSUME NEW o \in Seq(Jobs), NEW S, NEW a \in S, NEW b \in S, Last(o, S, a), Last(o, S, b)
  PROVE  a = b
<1>1. PICK i \in 1..Len(o) :
        o[i] = a /\ \A k \in (i + 1)..Len(o) : o[k] \notin S
  BY DEF Last
<1>2. PICK m \in 1..Len(o) :
        o[m] = b /\ \A k \in (m + 1)..Len(o) : o[k] \notin S
  BY DEF Last
<1>3. Len(o) \in Nat
  OBVIOUS
<1>4. ~ (i < m) /\ ~ (m < i)
  BY <1>1, <1>2, <1>3
<1> QED
  BY <1>1, <1>2, <1>3, <1>4

\* The newest job of a nonempty set of jobs that were inserted is one of them.
LEMMA NewestIsLast ==
  ASSUME order \in Seq(Jobs), NEW S, S # {}, \A j \in S : InOrder(j)
  PROVE  Newest(S) \in S /\ Last(order, S, Newest(S))
<1>1. \E j \in S : Last(order, S, j)
  BY SomeLast DEF InOrder
<1>2. DOMAIN order = 1..Len(order)
  OBVIOUS
<1>3. Newest(S) = CHOOSE j \in S : Last(order, S, j)
  BY <1>2 DEF Newest, Last
<1> QED
  BY <1>1, <1>3

\* Every row was inserted, and so was every job that runs.
Listed ==
  \A j \in Jobs :
    row[j] # "none" \/ at[j] \in {"queued", "acquiring", "ready", "stamped", "read", "ended"}
      => InOrder(j)

BaseInv == TypeInv /\ Listed

LEMMA LatestRenderType ==
  ASSUME BaseInv, LatestRender # NoJob
  PROVE  /\ LatestRender \in Jobs \ Readers /\ row[LatestRender] = "succeeded"
         /\ Home(LatestRender) \in dirs
<1> DEFINE S == {j \in Jobs \ Readers : row[j] = "succeeded" /\ Home(j) \in dirs}
<1>1. S # {}
  BY DEF LatestRender, Newest
<1>2. \A j \in S : InOrder(j)
  BY DEF BaseInv, Listed
<1>3. Newest(S) \in S
  BY <1>1, <1>2, NewestIsLast DEF BaseInv, TypeInv, TypeOK
<1> QED
  BY <1>3 DEF LatestRender

LEMMA GoType ==
  ASSUME TypeOK, NEW j \in Jobs, NEW there \in Stages, Go(j, there)
  PROVE  at' \in [Jobs -> Stages]
  BY DEF TypeOK, Go

LEMMA InsertRowType ==
  ASSUME BaseInv, NEW j \in Jobs, NEW status \in Unfinished \cup Terminal, InsertRow(j, status),
         NEW there \in Stages, at' = [at EXCEPT ![j] = there]
  PROVE  /\ row' \in [Jobs -> {"none", "pruned"} \cup Unfinished \cup Terminal]
         /\ order' \in Seq(Jobs)
         /\ key' \in [Jobs -> Keys \cup {NoKey}]
         /\ Listed'
<1>1. row' \in [Jobs -> {"none", "pruned"} \cup Unfinished \cup Terminal]
  BY DEF InsertRow, BaseInv, TypeInv, TypeOK
<1>2. order \in Seq(Jobs) /\ order' = Append(order, j)
  BY DEF InsertRow, BaseInv, TypeInv, TypeOK
<1>3. /\ order' \in Seq(Jobs) /\ Len(order') = Len(order) + 1 /\ order'[Len(order) + 1] = j
      /\ Len(order) \in Nat
      /\ \A i \in 1..Len(order) : i \in 1..Len(order') /\ order'[i] = order[i]
  BY <1>2
<1>4. key' \in [Jobs -> Keys \cup {NoKey}]
  BY DEF InsertRow, BaseInv, TypeInv, TypeOK
<1>5. InOrder(j)' /\ \A k \in Jobs : InOrder(k) => InOrder(k)'
  BY <1>3 DEF InOrder
<1>6. \A k \in Jobs \ {j} : row'[k] = row[k] /\ at'[k] = at[k]
  BY DEF InsertRow, BaseInv, TypeInv, TypeOK
<1> QED
  BY <1>1, <1>3, <1>4, <1>5, <1>6 DEF BaseInv, Listed

LEMMA SubmissionType ==
  ASSUME BaseInv, NEW j \in Jobs, Submission(j)
  PROVE  BaseInv'
<1> USE DEF BaseInv, TypeInv
<1>0. TypeOK /\ Listed
  OBVIOUS
<1>1. CASE Hash(j)
  <2>1. <<installed, files>> \in Keys
    BY DEF TypeOK, Keys
  <2>2. wanted' \in [Jobs -> Keys \cup {NoKey}] /\ at[j] = "idle"
    BY <1>1, <2>1 DEF Hash, TypeOK
  <2>3. link' \in [Jobs -> Jobs \cup {NoJob}]
    BY <1>1, LatestRenderType DEF Hash, TypeOK
  <2>4. asked' \in [Jobs -> Keys \cup {NoKey}]
    BY <1>1 DEF Hash, TypeOK, Keys
  <2>5. PICK there \in {"missed", "hashed"} : Go(j, there)
    BY <1>1 DEF Hash
  <2>6. at' \in [Jobs -> Stages] /\ at' = [at EXCEPT ![j] = there]
    BY <2>5, GoType DEF Stages, Go
  <2>7. UNCHANGED <<files, installed, known, warm, row, order, key, cached, cancelReq, dirs, cache,
                    joined, worker, start, made, prune>> /\ raced' \subseteq raced \cup {j}
    BY <1>1 DEF Hash, Chooses, worldVars, readyVars, runVars
  <2> QED
    BY <2>2, <2>3, <2>4, <2>6, <2>7 DEF TypeOK, Listed, InOrder
<1>2. CASE Look(j)
  <2>1. PICK there \in {"hit", "looked"} : Go(j, there)
    BY <1>2 DEF Look
  <2>2. at' \in [Jobs -> Stages] /\ at' = [at EXCEPT ![j] = there]
    BY <2>1, GoType DEF Stages, Go
  <2>3. link' \in [Jobs -> Jobs \cup {NoJob}] /\ cache' \in [Keys -> Jobs \cup {NoJob}]
    <3>1. CASE cache[asked[j]] # NoJob /\ Intact(cache[asked[j]])
      BY <1>2, <3>1 DEF Look, Intact, TypeOK
    <3>2. CASE ~ (cache[asked[j]] # NoJob /\ Intact(cache[asked[j]]))
      <4>1. cache' = [cache EXCEPT ![asked[j]] = NoJob] /\ link' = link
        BY <1>2, <3>2 DEF Look
      <4> QED
        BY <4>1 DEF TypeOK
    <3> QED
      BY <3>1, <3>2
  <2>4. UNCHANGED <<files, installed, known, warm, row, order, key, cached, cancelReq, dirs, asked,
                    joined, wanted, worker, start, made, prune>> /\ raced' \subseteq raced \cup {j}
    BY <1>2 DEF Look, Chooses, worldVars, readyVars, askVars, runVars
  <2> QED
    BY <2>2, <2>3, <2>4 DEF TypeOK, Listed, InOrder
<1>3. CASE InsertHit(j)
  <2>1. at' \in [Jobs -> Stages] /\ at' = [at EXCEPT ![j] = "done"]
    BY <1>3, GoType DEF InsertHit, Stages, Go
  <2>2. /\ row' \in [Jobs -> {"none", "pruned"} \cup Unfinished \cup Terminal]
        /\ order' \in Seq(Jobs) /\ key' \in [Jobs -> Keys \cup {NoKey}] /\ Listed'
    BY <1>3, <2>1, InsertRowType DEF InsertHit, Stages, Terminal
  <2>3. UNCHANGED <<files, installed, known, warm, link, cancelReq, dirs, cache, asked,
                    joined, wanted, worker, start, made, prune, raced>> /\ cached' = cached \cup {j}
    BY <1>3 DEF InsertHit, worldVars, readyVars, askVars, runVars
  <2> QED
    BY <2>1, <2>2, <2>3 DEF TypeOK
<1>4. CASE Join(j)
  <2>1. PICK there \in {"missed", "done"} : Go(j, there)
    BY <1>4 DEF Join
  <2>2. at' \in [Jobs -> Stages] /\ at' = [at EXCEPT ![j] = there]
    BY <2>1, GoType DEF Stages, Go
  <2>3. Joinable(j) \subseteq Jobs /\ \A k \in Joinable(j) : InOrder(k)
    BY DEF Listed, Joinable, Unfinished
  <2>4. Newest(Joinable(j)) \in Jobs \cup {NoJob}
    <3>1. CASE Joinable(j) = {}
      BY <3>1 DEF Newest
    <3>2. CASE Joinable(j) # {}
      BY <2>3, <3>2, NewestIsLast DEF TypeOK
    <3> QED
      BY <3>1, <3>2
  <2>5. /\ joined' = [joined EXCEPT ![j] = Newest(Joinable(j))]
        /\ UNCHANGED <<files, installed, known, warm, row, order, key, cached, link, cancelReq, dirs,
                       cache, asked, wanted, worker, start, made, prune, raced>>
    BY <1>4 DEF Join, worldVars, readyVars, rowVars, runVars
  <2>6. joined' \in [Jobs -> Jobs \cup {NoJob}]
    BY <2>4, <2>5 DEF TypeOK
  <2> QED
    BY <2>2, <2>5, <2>6 DEF TypeOK, Listed, InOrder
<1>5. CASE Insert(j)
  <2>1. at' \in [Jobs -> Stages] /\ at' = [at EXCEPT ![j] = "queued"]
    BY <1>5, GoType DEF Insert, Stages, Go
  <2>2. /\ row' \in [Jobs -> {"none", "pruned"} \cup Unfinished \cup Terminal]
        /\ order' \in Seq(Jobs) /\ key' \in [Jobs -> Keys \cup {NoKey}] /\ Listed'
    BY <1>5, <2>1, InsertRowType DEF Insert, Stages, Unfinished
  <2>3. UNCHANGED <<files, installed, known, warm, cached, link, cancelReq, dirs, cache, asked,
                    joined, wanted, worker, start, made, prune, raced>>
    BY <1>5 DEF Insert, worldVars, readyVars, askVars, runVars
  <2> QED
    BY <2>1, <2>2, <2>3 DEF TypeOK
<1> QED
  BY <1>1, <1>2, <1>3, <1>4, <1>5 DEF Submission

LEMMA RunStepType ==
  ASSUME BaseInv, NEW j \in Jobs, RunStep(j)
  PROVE  BaseInv'
<1> USE DEF BaseInv, TypeInv, TypeOK, Listed, InOrder
<1>1. CASE Run(j)
  BY <1>1 DEF Run, Go, Stages, Unfinished, worldVars, readyVars, askVars, runVars
<1>2. CASE Acquire(j)
  <2>1. PICK r \in Runtimes : worker' = [worker EXCEPT ![j] = r]
    BY <1>2 DEF Acquire
  <2>2. known' \in Runtimes \cup {Unknown} /\ warm' \in Runtimes \cup {Unknown}
    BY <1>2 DEF Acquire
  <2>3. at' = [at EXCEPT ![j] = "ready"] /\ "ready" \in Stages /\ at[j] = "acquiring"
    BY <1>2 DEF Acquire, Go, Stages
  <2>4. UNCHANGED <<files, installed, row, order, key, cached, link, cancelReq, dirs, cache, asked,
                    joined, wanted, start, made, prune, raced>>
    BY <1>2 DEF Acquire, worldVars, rowVars, askVars
  <2> QED
    BY <2>1, <2>2, <2>3, <2>4
<1>3. CASE Stamp(j)
  <2>1. StartKey(j) \in Keys
    BY <1>3 DEF Stamp, StartKey, Keys
  <2>2. /\ start' = [start EXCEPT ![j] = StartKey(j)] /\ key' = [key EXCEPT ![j] = StartKey(j)]
        /\ at' = [at EXCEPT ![j] = "stamped"] /\ "stamped" \in Stages /\ at[j] = "ready"
        /\ UNCHANGED <<files, installed, known, warm, row, order, cached, link, cancelReq, dirs, cache,
                       asked, joined, wanted, worker, made, prune, raced>>
    BY <1>3 DEF Stamp, Go, Stages, worldVars, readyVars, askVars
  <2> HIDE DEF StartKey
  <2> QED
    BY <2>1, <2>2
<1>4. CASE Read(j)
  <2>1. <<worker[j], files>> \in Keys
    BY <1>4 DEF Read, Keys
  <2>2. /\ made' = [made EXCEPT ![j] = <<worker[j], files>>]
        /\ at' = [at EXCEPT ![j] = "read"] /\ "read" \in Stages /\ at[j] = "stamped"
        /\ UNCHANGED <<files, installed, known, warm, row, order, key, cached, link, cancelReq, dirs,
                       cache, asked, joined, wanted, worker, start, prune, raced>>
    BY <1>4 DEF Read, Go, Stages, worldVars, readyVars, askVars, rowVars
  <2> QED
    BY <2>1, <2>2
<1>5. CASE Succeed(j)
  <2>1. PICK there \in {"done", "ended"} : at' = [at EXCEPT ![j] = there]
    BY <1>5 DEF Succeed, Go
  <2>2. there = "ended" => at[j] = "read"
    BY <1>5, <2>1 DEF Succeed, Go
  <2>3. /\ row' = [row EXCEPT ![j] = "succeeded"] /\ at[j] \in {"acquiring", "read"}
        /\ UNCHANGED <<files, installed, known, warm, order, key, cached, link, cancelReq, dirs, cache,
                       asked, joined, wanted, worker, start, made, prune, raced>>
    BY <1>5 DEF Succeed, worldVars, readyVars, askVars, runVars
  <2> QED
    BY <2>1, <2>2, <2>3 DEF Stages, Terminal
<1>6. CASE Fail(j)
  BY <1>6 DEF Fail, Go, Stages, Unfinished, Terminal, worldVars, readyVars, askVars, runVars
<1>7. CASE Put(j)
  <2>1. cache' \in [Keys -> Jobs \cup {NoJob}]
    <3>1. start[j] \in Keys
      BY <1>7 DEF Put
    <3> QED
      BY <1>7, <3>1 DEF Put
  <2>2. /\ at' = [at EXCEPT ![j] = "done"] /\ "done" \in Stages
        /\ UNCHANGED <<files, installed, known, warm, row, order, key, cached, link, cancelReq, dirs,
                       asked, joined, wanted, worker, start, made, prune, raced>>
    BY <1>7 DEF Put, Go, Stages, worldVars, readyVars, rowVars, askVars, runVars
  <2> QED
    BY <2>1, <2>2
<1> QED
  BY <1>1, <1>2, <1>3, <1>4, <1>5, <1>6, <1>7 DEF RunStep

\* What a pruner has in hand, by type.
Prunes == [step : {"idle", "listed", "linked", "marked", "deleted", "swept"},
           ids : SUBSET Jobs, seen : SUBSET Jobs]

LEMMA InHandType ==
  ASSUME prune \in [Pruners -> Prunes], NEW p \in Pruners, NEW ids \in SUBSET Jobs,
         NEW there \in {"listed", "marked", "deleted", "swept"}, InHand(p, there, ids)
  PROVE  prune' \in [Pruners -> Prunes]
<1>1. [prune[p] EXCEPT !.step = there, !.ids = ids] \in Prunes
  BY DEF Prunes
<1>2. prune' = [prune EXCEPT ![p] = [prune[p] EXCEPT !.step = there, !.ids = ids]]
  BY Zenon DEF InHand
<1> QED
  BY <1>1, <1>2, Zenon

LEMMA PruningType ==
  ASSUME BaseInv, NEW p \in Pruners, Pruning(p)
  PROVE  BaseInv'
<1> USE DEF BaseInv, TypeInv, TypeOK, Listed, InOrder
<1>1. /\ UNCHANGED <<files, installed, known, warm, order, key, cached, link, cancelReq, at, asked>>
      /\ UNCHANGED <<joined, wanted, worker, start, made>>
  BY DEF Pruning, List, ReadLinks, Mark, Delete, Sweep, SweepCache, worldVars, readyVars, rowVars, askVars,
     runVars
<1>2. raced' \subseteq raced \cup Jobs
  BY DEF Pruning, List, ReadLinks, Mark, Delete, Sweep, SweepCache, askVars, Choosing
<1>3. prune' \in [Pruners -> Prunes]
  <2>0. prune \in [Pruners -> Prunes]
    BY DEF Prunes
  <2>1. \A old \in 0..Len(order) : Candidates(old) \in SUBSET Jobs
    <3>1. \A old \in Nat : Candidates(old) \subseteq Jobs
      BY DEF Candidates, Rows
    <3> QED
      BY <3>1
  <2>2. CASE List(p)
    <3>1. PICK old \in 0..Len(order) : InHand(p, "listed", Candidates(old))
      BY <2>2 DEF List
    <3> QED
      BY <2>0, <2>1, <3>1, InHandType
  <2>3. CASE ReadLinks(p)
    <3>1. prune' = [prune EXCEPT ![p] = [prune[p] EXCEPT !.step = "linked", !.seen = Rows]]
      BY <2>3, Zenon DEF ReadLinks
    <3>2. prune[p] \in Prunes /\ Rows \in SUBSET Jobs
      BY <2>0 DEF Rows
    <3> HIDE DEF BaseInv, TypeInv, TypeOK
    <3>3. [prune[p] EXCEPT !.step = "linked", !.seen = Rows] \in Prunes
      BY <3>2 DEF Prunes
    <3> QED
      BY <2>0, <3>1, <3>3, Zenon
  <2>4. CASE SweepCache(p)
    BY <2>0, <2>4 DEF SweepCache, Prunes
  <2>5. CASE Mark(p) \/ Delete(p) \/ Sweep(p)
    <3>1. PICK there \in {"marked", "deleted", "swept"}, ids \in SUBSET prune[p].ids :
            InHand(p, there, ids)
      BY <2>5 DEF Mark, Delete, Sweep
    <3>2. ids \in SUBSET Jobs
      OBVIOUS
    <3> HIDE DEF BaseInv, TypeOK
    <3> QED
      BY <2>0, <3>1, <3>2, InHandType
  <2> QED
    BY <2>2, <2>3, <2>4, <2>5 DEF Pruning
<1>4. /\ row' \in [Jobs -> {"none", "pruned"} \cup Unfinished \cup Terminal]
      /\ \A j \in Jobs : row'[j] = row[j] \/ row[j] \in Terminal
  <2>1. row' = row \/ row' = [j \in Jobs |-> IF j \in prune[p].ids /\ row[j] \in Terminal
                                              THEN "pruned" ELSE row[j]]
    BY DEF Pruning, List, ReadLinks, Mark, Delete, Sweep, SweepCache, rowVars
  <2> QED
    BY <2>1
<1>5. dirs' \subseteq Jobs /\ cache' \in [Keys -> Jobs \cup {NoJob}]
  <2>1. \/ cache' = cache
        \/ cache' = [k \in Keys |-> IF cache[k] \in prune[p].ids THEN NoJob ELSE cache[k]]
        \/ cache' = [k \in Keys |-> IF cache[k] \in dirs THEN cache[k] ELSE NoJob]
    BY DEF Pruning, List, ReadLinks, Mark, Delete, Sweep, SweepCache, WithoutThem
  <2>2. dirs' \subseteq dirs
    BY DEF Pruning, List, ReadLinks, Mark, Delete, Sweep, SweepCache
  <2> QED
    BY <2>1, <2>2
<1> QED
  BY <1>1, <1>2, <1>3, <1>4, <1>5 DEF Terminal, Prunes

LEMMA NextBase ==
  ASSUME BaseInv, [Next]_vars
  PROVE  BaseInv'
<1> USE DEF BaseInv, TypeInv, TypeOK, Listed, InOrder
<1>1. CASE Edit \/ Upgrade \/ Warm
  <2>1. /\ files' \in Contents /\ installed' \in Runtimes
        /\ known' \in Runtimes \cup {Unknown} /\ warm' \in Runtimes \cup {Unknown}
    BY <1>1 DEF Edit, Upgrade, Warm, worldVars, readyVars
  <2>2. UNCHANGED <<row, order, key, cached, link, cancelReq, dirs, cache, at, asked, joined, wanted,
                    worker, start, made, prune, raced>>
    BY <1>1 DEF Edit, Upgrade, Warm, rowVars, askVars, runVars
  <2> QED
    BY <2>1, <2>2
<1>2. ASSUME NEW j \in Jobs, Cancel(j)
      PROVE  BaseInv'
  BY <1>2 DEF Cancel, worldVars, readyVars, askVars, runVars
<1>3. CASE UNCHANGED vars
  BY <1>3 DEF vars, worldVars, readyVars, rowVars, askVars, runVars
<1> HIDE DEF BaseInv
<1> QED
  BY <1>1, <1>2, <1>3, SubmissionType, RunStepType, PruningType DEF Next

(* Every variable keeps its type: what Newest chooses is a job that was
   inserted, and a run has a worker before its fingerprint is taken
   (mod.rs, plan; execute.rs, start_fingerprint). *)
THEOREM TypeCorrect == Spec => []TypeOK
<1>1. Init => BaseInv
  BY InitTypeInv DEF Init, BaseInv, Listed
<1>2. BaseInv => TypeOK
  BY DEF BaseInv, TypeInv
<1> QED
  BY <1>1, <1>2, NextBase, PTL DEF Spec

-----------------------------------------------------------------------------
(* Answers *)

\* What the row of a job and its recorded key say of how far its run has come.
StageInv ==
  \A j \in Jobs :
    /\ row[j] \in Unfinished => at[j] \in {"queued", "acquiring", "ready", "stamped", "read"}
    /\ at[j] \notin {"read", "ended", "done"} => made[j] = NoKey
    /\ at[j] \in {"stamped", "read"} => key[j] = start[j]

\* What was asked for is what was wanted, but for an upgrade no worker told of.
Asked(j) ==
  /\ wanted[j] \in Keys /\ asked[j] \in Keys
  /\ asked[j][2] = wanted[j][2] /\ asked[j][1] <= wanted[j][1]

AskInv ==
  /\ known # Unknown => known <= installed
  /\ \A j \in Jobs : wanted[j] # NoKey => wanted[j][2] <= files
  /\ \A j \in Jobs : at[j] \in {"hashed", "hit", "looked"} \/ j \in cached => Asked(j)

\* A cached answer is a job whose run is over and made what was asked for.
AnswerInv ==
  \A j \in Jobs : at[j] = "hit" \/ j \in cached =>
    /\ link[j] \in Jobs /\ at[link[j]] = "done" /\ made[link[j]] = asked[j]
    /\ j \in cached => at[j] = "done"

\* What a joined job has read is no older than what was wanted.
JoinInv ==
  \A j \in Jobs : joined[j] # NoJob =>
    /\ at[j] = "done" /\ wanted[j] \in Keys
    /\ made[joined[j]] # NoKey => made[joined[j]][2] >= wanted[j][2]

SubmitInv == AskInv /\ AnswerInv /\ JoinInv

LEMMA SubmitInvCurrent ==
  ASSUME TypeOK, SubmitInv
  PROVE  SubmissionsAreCurrent
<1>1. AnswersAreCurrent
  BY DEF TypeOK, SubmitInv, AskInv, AnswerInv, Asked, AnswersAreCurrent
<1>2. JoinsAreCurrent
  BY DEF SubmitInv, JoinInv, JoinsAreCurrent
<1> QED
  BY <1>1, <1>2 DEF SubmissionsAreCurrent

LEMMA VersionsAreNumbers ==
  ASSUME TypeOK
  PROVE  /\ files \in Nat /\ installed \in Nat
         /\ known # Unknown => known \in Nat
         /\ \A j \in Jobs : wanted[j] # NoKey => wanted[j][1] \in Nat /\ wanted[j][2] \in Nat
         /\ \A k \in Keys : k[1] \in Nat /\ k[2] \in Nat
  BY VersionsAssumption DEF TypeOK, Keys

\* A step that submits nothing: files and runtimes get newer, and a run reads
\* the files there are.
LEMMA QuietKeepsAnswers ==
  ASSUME BaseInv, BaseInv', SubmitInv, UNCHANGED <<wanted, asked, joined, cached, link>>,
         files <= files', installed <= installed', known' = known \/ known' = installed,
         \A j \in Jobs : at'[j] = at[j] \/ at'[j] \notin {"hashed", "hit", "looked"},
         \A j \in Jobs : at[j] = "done" => at'[j] = "done",
         \A j \in Jobs : made'[j] = made[j] \/ (at[j] # "done" /\ made'[j][2] = files)
  PROVE  SubmitInv'
<1>0. TypeOK /\ TypeOK'
  BY DEF BaseInv, TypeInv
<1>1. /\ files \in Nat /\ files' \in Nat
      /\ installed \in Nat /\ installed' \in Nat
      /\ known # Unknown => known \in Nat
      /\ \A j \in Jobs : wanted[j] # NoKey => wanted[j][2] \in Nat
  <2>1. files \in Contents /\ files' \in Contents /\ installed \in Runtimes /\ installed' \in Runtimes
    BY <1>0 DEF TypeOK
  <2> QED
    BY <1>0, <2>1, VersionsAreNumbers, VersionsAssumption
<1>2. AskInv'
  <2>1. known' # Unknown => known' <= installed'
    BY <1>1 DEF SubmitInv, AskInv
  <2>2. \A j \in Jobs : wanted[j] # NoKey => wanted[j][2] <= files'
    BY <1>1 DEF SubmitInv, AskInv
  <2>3. \A j \in Jobs : at'[j] \in {"hashed", "hit", "looked"} \/ j \in cached' => Asked(j)'
    BY DEF SubmitInv, AskInv, Asked
  <2> QED
    BY <2>1, <2>2, <2>3 DEF AskInv
<1>3. AnswerInv'
  BY DEF SubmitInv, AnswerInv
<1>4. JoinInv'
  <2> SUFFICES ASSUME NEW j \in Jobs, joined[j] # NoJob
               PROVE  /\ at'[j] = "done" /\ wanted[j] \in Keys
                      /\ made'[joined[j]] # NoKey => made'[joined[j]][2] >= wanted[j][2]
    BY DEF JoinInv
  <2>1. joined[j] \in Jobs
    BY <1>0 DEF TypeOK
  <2>2. at'[j] = "done" /\ wanted[j] \in Keys /\ wanted[j] # NoKey
    BY UnknownAssumption DEF SubmitInv, JoinInv, Keys
  <2>3. wanted[j][2] <= files
    BY <2>2 DEF SubmitInv, AskInv
  <2> QED
    BY <1>1, <2>1, <2>2, <2>3 DEF SubmitInv, JoinInv
<1> QED
  BY <1>2, <1>3, <1>4 DEF SubmitInv

LEMMA HashKeepsAnswers ==
  ASSUME BaseInv, BaseInv', SubmitInv, NEW j \in Jobs, Hash(j)
  PROVE  SubmitInv'
<1>0. TypeOK /\ TypeOK'
  BY DEF BaseInv, TypeInv
<1>1. /\ at[j] = "idle" /\ wanted' = [wanted EXCEPT ![j] = <<installed, files>>]
      /\ UNCHANGED <<files, installed, known, cached, joined, made>>
      /\ \/ at' = [at EXCEPT ![j] = "missed"] /\ asked' = asked
         \/ /\ at' = [at EXCEPT ![j] = "hashed"] /\ asked' = [asked EXCEPT ![j] = <<known, files>>]
            /\ known # Unknown
      /\ \A k \in Jobs \ {j} : link'[k] = link[k]
  BY <1>0 DEF Hash, Go, worldVars, readyVars, runVars, TypeOK
<1>2. /\ \A k \in Jobs \ {j} : /\ wanted'[k] = wanted[k] /\ asked'[k] = asked[k] /\ at'[k] = at[k]
                             /\ link'[k] = link[k]
      /\ wanted'[j] = <<installed, files>> /\ at'[j] \in {"missed", "hashed"}
      /\ j \notin cached /\ joined[j] = NoJob
  BY <1>0, <1>1 DEF TypeOK, SubmitInv, AnswerInv, JoinInv
<1>3. AskInv'
  <2>1. files \in Nat /\ installed \in Nat
    BY <1>0, VersionsAreNumbers
  <2>2. at'[j] = "hashed" => Asked(j)'
    <3>1. SUFFICES ASSUME at'[j] = "hashed"
                   PROVE  Asked(j)'
      OBVIOUS
    <3>2. asked'[j] = <<known, files>> /\ known \in Runtimes
      <4>1. at' # [at EXCEPT ![j] = "missed"]
        BY <1>0, <3>1 DEF TypeOK
      <4> QED
        BY <1>0, <1>1, <4>1 DEF TypeOK
    <3>3. <<known, files>> \in Keys /\ <<installed, files>> \in Keys
      BY <1>0, <3>2 DEF TypeOK, Keys
    <3> QED
      BY <1>1, <1>2, <3>2, <3>3, UnknownAssumption DEF Asked, SubmitInv, AskInv
  <2>3. \A k \in Jobs \ {j} : Asked(k) => Asked(k)'
    BY <1>2 DEF Asked
  <2> QED
    BY <1>1, <1>2, <2>1, <2>2, <2>3 DEF SubmitInv, AskInv
<1>4. AnswerInv'
  BY <1>1, <1>2 DEF SubmitInv, AnswerInv
<1>5. JoinInv'
  BY <1>1, <1>2 DEF SubmitInv, JoinInv
<1> QED
  BY <1>3, <1>4, <1>5 DEF SubmitInv

LEMMA LookKeepsAnswers ==
  ASSUME BaseInv, EntryInv, SubmitInv, NEW j \in Jobs, Look(j)
  PROVE  SubmitInv'
<1>0. TypeOK
  BY DEF BaseInv, TypeInv
<1>1. /\ at[j] = "hashed" /\ UNCHANGED <<files, installed, known, cached, asked, wanted, joined, made>>
      /\ \/ /\ at' = [at EXCEPT ![j] = "hit"] /\ cache[asked[j]] # NoJob
            /\ link' = [link EXCEPT ![j] = cache[asked[j]]]
         \/ at' = [at EXCEPT ![j] = "looked"] /\ link' = link
  BY DEF Look, Go, worldVars, readyVars, runVars, askVars
<1>2. asked[j] \in Keys /\ j \notin cached /\ joined[j] = NoJob /\ Asked(j)
  BY <1>1 DEF SubmitInv, AskInv, AnswerInv, JoinInv, Asked
<1>3. AskInv'
  BY <1>0, <1>1, <1>2 DEF SubmitInv, AskInv, Asked, TypeOK
<1>4. AnswerInv'
  <2> SUFFICES ASSUME NEW k \in Jobs, at'[k] = "hit" \/ k \in cached
               PROVE  /\ link'[k] \in Jobs /\ at'[link'[k]] = "done" /\ made[link'[k]] = asked[k]
                      /\ k \in cached => at'[k] = "done"
    BY <1>1 DEF AnswerInv
  <2>1. CASE k = j
    <3>1. cache[asked[j]] # NoJob /\ link'[j] = cache[asked[j]]
      BY <1>0, <1>1, <1>2, <2>1 DEF TypeOK
    <3>2. link'[j] \in Jobs /\ at[link'[j]] = "done" /\ made[link'[j]] = asked[j]
      BY <1>0, <1>2, <3>1 DEF EntryInv, TypeOK
    <3> QED
      BY <1>0, <1>1, <1>2, <2>1, <3>2 DEF TypeOK
  <2>2. CASE k # j
    BY <1>0, <1>1, <2>2 DEF SubmitInv, AnswerInv, TypeOK
  <2> QED
    BY <2>1, <2>2
<1>5. JoinInv'
  BY <1>0, <1>1 DEF SubmitInv, JoinInv, TypeOK
<1> QED
  BY <1>3, <1>4, <1>5 DEF SubmitInv

LEMMA JoinKeepsAnswers ==
  ASSUME BaseInv, RunInv, StageInv, SubmitInv, NEW j \in Jobs, Join(j)
  PROVE  SubmitInv'
<1>0. TypeOK
  BY DEF BaseInv, TypeInv
<1> DEFINE twin == Newest(Joinable(j))
<1>1. /\ at[j] = "looked" /\ UNCHANGED <<files, installed, known, cached, asked, wanted, made, link>>
      /\ joined' = [joined EXCEPT ![j] = twin]
      /\ at' = [at EXCEPT ![j] = IF Joinable(j) = {} THEN "missed" ELSE "done"]
  BY DEF Join, Go, worldVars, readyVars, rowVars, runVars
<1>2. Asked(j) /\ j \notin cached
  BY <1>1 DEF SubmitInv, AskInv, AnswerInv
<1>3. twin # NoJob =>
        /\ twin \in Jobs /\ Joinable(j) # {}
        /\ made[twin] # NoKey => made[twin][2] >= wanted[j][2]
  <2> SUFFICES ASSUME twin # NoJob
               PROVE  /\ twin \in Jobs /\ Joinable(j) # {}
                      /\ made[twin] # NoKey => made[twin][2] >= wanted[j][2]
    OBVIOUS
  <2>1. Joinable(j) # {}
    BY DEF Newest
  <2>2. \A k \in Joinable(j) : InOrder(k)
    BY DEF Joinable, Unfinished, BaseInv, Listed
  <2>3. twin \in Joinable(j)
    BY <1>0, <2>1, <2>2, NewestIsLast DEF TypeOK
  <2> HIDE DEF twin
  <2>4. twin \in Jobs /\ row[twin] \in Unfinished /\ key[twin] = asked[j]
    BY <2>3 DEF Joinable
  <2>5. ASSUME made[twin] # NoKey
        PROVE  made[twin][2] >= wanted[j][2]
    <3>1. at[twin] = "read" /\ start[twin] = asked[j]
      BY <2>4, <2>5 DEF StageInv
    <3>2. PICK c \in Contents, d \in Contents :
            c <= d /\ start[twin] = <<worker[twin], c>> /\ made[twin] = <<worker[twin], d>>
      BY <2>4, <3>1 DEF RunInv
    <3>3. wanted[j][2] = c /\ made[twin][2] = d /\ c \in Nat /\ d \in Nat
      BY <1>2, <3>1, <3>2, VersionsAssumption DEF Asked
    <3> QED
      BY <3>2, <3>3
  <2> QED
    BY <2>1, <2>4, <2>5
<1> HIDE DEF twin
<1>4. AskInv'
  BY <1>0, <1>1, <1>2 DEF SubmitInv, AskInv, Asked, TypeOK
<1>5. AnswerInv'
  BY <1>0, <1>1, <1>2 DEF SubmitInv, AnswerInv, TypeOK
<1>6. JoinInv'
  <2> SUFFICES ASSUME NEW k \in Jobs, joined'[k] # NoJob
               PROVE  /\ at'[k] = "done" /\ wanted[k] \in Keys
                      /\ made[joined'[k]] # NoKey => made[joined'[k]][2] >= wanted[k][2]
    BY <1>1 DEF JoinInv
  <2>1. CASE k = j
    BY <1>0, <1>1, <1>2, <1>3, <2>1 DEF Asked, TypeOK
  <2>2. CASE k # j
    BY <1>0, <1>1, <2>2 DEF SubmitInv, JoinInv, TypeOK
  <2> QED
    BY <2>1, <2>2
<1> QED
  BY <1>4, <1>5, <1>6 DEF SubmitInv

LEMMA InsertsKeepAnswers ==
  ASSUME BaseInv, SubmitInv, NEW j \in Jobs, InsertHit(j) \/ Insert(j)
  PROVE  SubmitInv'
<1>0. TypeOK
  BY DEF BaseInv, TypeInv
<1>1. /\ UNCHANGED <<files, installed, known, asked, wanted, joined, made, link>>
      /\ \/ at[j] = "hit" /\ at' = [at EXCEPT ![j] = "done"] /\ cached' = cached \cup {j}
         \/ at[j] = "missed" /\ at' = [at EXCEPT ![j] = "queued"] /\ cached' = cached
  BY DEF InsertHit, Insert, Go, worldVars, readyVars, runVars, askVars
<1>2. /\ AskInv'
  BY <1>0, <1>1 DEF SubmitInv, AskInv, Asked, TypeOK
<1>3. AnswerInv'
  BY <1>0, <1>1 DEF SubmitInv, AnswerInv, TypeOK
<1>4. JoinInv'
  BY <1>0, <1>1 DEF SubmitInv, JoinInv, TypeOK
<1> QED
  BY <1>2, <1>3, <1>4 DEF SubmitInv

LEMMA StageStep ==
  ASSUME BaseInv, StageInv, [Next]_vars
  PROVE  StageInv'
<1> USE DEF BaseInv, TypeInv, TypeOK
<1>1. ASSUME NEW j \in Jobs, Hash(j) \/ Look(j) \/ Join(j)
      PROVE  StageInv'
  <2>1. /\ UNCHANGED <<row, made, key, start>>
        /\ at[j] \in {"idle", "hashed", "looked"}
        /\ \E there \in {"missed", "hashed", "hit", "looked", "done"} :
             at' = [at EXCEPT ![j] = there]
    BY <1>1 DEF Hash, Look, Join, Go, rowVars, runVars
  <2> QED
    BY <2>1 DEF StageInv
<1>2. ASSUME NEW j \in Jobs, InsertHit(j) \/ Insert(j)
      PROVE  StageInv'
  <2>1. /\ UNCHANGED <<made, start>> /\ at[j] \in {"hit", "missed"}
        /\ key' = [key EXCEPT ![j] = asked[j]]
        /\ \/ at' = [at EXCEPT ![j] = "done"] /\ row' = [row EXCEPT ![j] = "succeeded"]
           \/ at' = [at EXCEPT ![j] = "queued"] /\ row' = [row EXCEPT ![j] = "queued"]
    BY <1>2 DEF InsertHit, Insert, InsertRow, Go, runVars
  <2> QED
    BY <2>1 DEF StageInv, Unfinished
<1>3. ASSUME NEW j \in Jobs, Run(j) \/ Acquire(j)
      PROVE  StageInv'
  <2>1. /\ UNCHANGED <<made, key, start>>
        /\ \/ /\ at[j] = "queued" /\ at' = [at EXCEPT ![j] = "acquiring"]
              /\ row' = [row EXCEPT ![j] = "running"]
           \/ at[j] = "acquiring" /\ at' = [at EXCEPT ![j] = "ready"] /\ row' = row
    BY <1>3 DEF Run, Acquire, Go, rowVars, runVars
  <2> QED
    BY <2>1 DEF StageInv, Unfinished
<1>4. ASSUME NEW j \in Jobs, Stamp(j)
      PROVE  StageInv'
  <2>1. /\ UNCHANGED <<made, row>> /\ at[j] = "ready" /\ at' = [at EXCEPT ![j] = "stamped"]
        /\ key' = [key EXCEPT ![j] = StartKey(j)] /\ start' = [start EXCEPT ![j] = StartKey(j)]
    BY <1>4 DEF Stamp, Go
  <2> QED
    BY <2>1 DEF StageInv
<1>5. ASSUME NEW j \in Jobs, Read(j)
      PROVE  StageInv'
  <2>1. /\ UNCHANGED <<row, key, start>> /\ at[j] = "stamped" /\ at' = [at EXCEPT ![j] = "read"]
        /\ \E k \in Keys \cup {<<worker[j], files>>} : made' = [made EXCEPT ![j] = k]
    BY <1>5 DEF Read, Go, rowVars
  <2> QED
    BY <2>1 DEF StageInv
<1>6. ASSUME NEW j \in Jobs, Succeed(j) \/ Fail(j) \/ Put(j)
      PROVE  StageInv'
  <2>1. /\ UNCHANGED <<made, key, start>>
        /\ \E there \in {"ended", "done"} : at' = [at EXCEPT ![j] = there]
        /\ \/ \E r \in Terminal : row' = [row EXCEPT ![j] = r]
           \/ row' = row /\ at[j] = "ended"
    BY <1>6 DEF Succeed, Fail, Put, Go, Terminal, rowVars, runVars
  <2> QED
    BY <2>1 DEF StageInv, Unfinished, Terminal
<1>7. ASSUME NEW p \in Pruners, Pruning(p)
      PROVE  StageInv'
  <2>1. /\ UNCHANGED <<made, key, start, at>>
        /\ row' = row \/ row' = [j \in Jobs |-> IF j \in prune[p].ids /\ row[j] \in Terminal
                                                THEN "pruned" ELSE row[j]]
    BY <1>7 DEF Pruning, List, ReadLinks, Mark, Delete, Sweep, SweepCache, rowVars, runVars
  <2> QED
    BY <2>1 DEF StageInv, Unfinished
<1>8. CASE Edit \/ Upgrade \/ Warm \/ (\E j \in Jobs : Cancel(j)) \/ UNCHANGED vars
  <2>1. UNCHANGED <<row, key, made, start, at>>
    BY <1>8 DEF Edit, Upgrade, Warm, Cancel, vars, rowVars, runVars
  <2> QED
    BY <2>1 DEF StageInv
<1> QED
  BY <1>1, <1>2, <1>3, <1>4, <1>5, <1>6, <1>7, <1>8 DEF Next, Submission, RunStep

LEMMA RunKeepsAnswers ==
  ASSUME BaseInv, BaseInv', StageInv, SubmitInv, NEW j \in Jobs, RunStep(j)
  PROVE  SubmitInv'
<1>0. TypeOK
  BY DEF BaseInv, TypeInv
<1>1. UNCHANGED <<wanted, asked, joined, cached, link, files, installed>>
  BY DEF RunStep, Run, Acquire, Stamp, Read, Succeed, Fail, Put, worldVars, rowVars, askVars
<1>2. known' = known \/ known' = installed
  BY DEF RunStep, Run, Acquire, Stamp, Read, Succeed, Fail, Put, readyVars
<1>3. \E there \in Stages \ {"hashed", "hit", "looked"} : at' = [at EXCEPT ![j] = there]
  BY DEF RunStep, Run, Acquire, Stamp, Read, Succeed, Fail, Put, Go, Stages
<1>4. at[j] # "done"
  BY DEF RunStep, Run, Acquire, Stamp, Read, Succeed, Fail, Put, StageInv
<1>5. made' = made \/ made' = [made EXCEPT ![j] = <<worker[j], files>>]
  BY DEF RunStep, Run, Acquire, Stamp, Read, Succeed, Fail, Put, runVars
<1>6. files <= files /\ installed <= installed
  <2>1. files \in Nat /\ installed \in Nat
    BY <1>0, VersionsAreNumbers
  <2> QED
    BY <2>1
<1>7. \A k \in Jobs : at'[k] = at[k] \/ at'[k] \notin {"hashed", "hit", "looked"}
  BY <1>0, <1>3 DEF TypeOK
<1>8. \A k \in Jobs : at[k] = "done" => at'[k] = "done"
  BY <1>0, <1>3, <1>4 DEF TypeOK
<1>9. \A k \in Jobs : made'[k] = made[k] \/ (at[k] # "done" /\ made'[k][2] = files)
  BY <1>0, <1>4, <1>5 DEF TypeOK
<1> QED
  BY <1>1, <1>2, <1>6, <1>7, <1>8, <1>9, QuietKeepsAnswers

LEMMA NextKeepsAnswers ==
  ASSUME ~ MayRevert, BaseInv, BaseInv', CacheInv, StageInv, SubmitInv, [Next]_vars
  PROVE  SubmitInv'
<1>0. TypeOK /\ RunInv /\ EntryInv
  BY DEF BaseInv, TypeInv, CacheInv
<1>1. ASSUME NEW j \in Jobs, Submission(j)
      PROVE  SubmitInv'
  BY <1>0, <1>1, HashKeepsAnswers, LookKeepsAnswers, JoinKeepsAnswers, InsertsKeepAnswers
  DEF Submission
<1>2. CASE \/ Edit \/ Upgrade \/ Warm \/ (\E j \in Jobs : Cancel(j)) \/ UNCHANGED vars
           \/ \E p \in Pruners : Pruning(p)
  <2>1. UNCHANGED <<wanted, asked, joined, cached, link, at, made>>
    BY <1>2 DEF Edit, Upgrade, Warm, Cancel, Pruning, List, ReadLinks, Mark, Delete, Sweep, SweepCache, vars,
       rowVars, askVars, runVars
  <2>2. /\ files' = files \/ files' > files
        /\ installed' = installed \/ installed' > installed
        /\ known' = known \/ known' = installed
    BY <1>2 DEF Edit, Upgrade, Warm, Cancel, Pruning, List, ReadLinks, Mark, Delete, Sweep, SweepCache, vars,
       worldVars, readyVars
  <2>3. files \in Nat /\ files' \in Nat /\ installed \in Nat /\ installed' \in Nat
    BY VersionsAssumption DEF BaseInv, TypeInv, TypeOK
  <2>4. files <= files' /\ installed <= installed'
    BY <2>2, <2>3
  <2> QED
    BY <2>1, <2>2, <2>4, QuietKeepsAnswers
<1> QED
  BY <1>1, <1>2, RunKeepsAnswers DEF Next

(* While the files do not go back, what a submission is answered with, from
   the cache or by joining a job, shows the files as they were then, or later
   (mod.rs, plan; execute.rs, finish). *)
THEOREM AnswersStayCurrent == ~ MayRevert /\ Spec => []SubmissionsAreCurrent
<1> DEFINE Inv == BaseInv /\ CacheInv /\ StageInv /\ SubmitInv
<1>1. CASE ~ MayRevert
  <2>1. Init => Inv
    <3>1. Init => BaseInv /\ CacheInv
      BY InitTypeInv, InitCacheInv DEF Init, BaseInv, Listed
    <3>2. Init => StageInv /\ SubmitInv
      BY DEF Init, StageInv, SubmitInv, AskInv, AnswerInv, JoinInv, Unfinished
    <3> QED
      BY <3>1, <3>2
  <2>2. Inv /\ [Next]_vars => Inv'
    BY <1>1, NextBase, NextKeepsCacheInv, StageStep, NextKeepsAnswers
  <2>3. Inv => SubmissionsAreCurrent
    BY SubmitInvCurrent DEF BaseInv, TypeInv
  <2> QED
    BY <2>1, <2>2, <2>3, PTL DEF Spec
<1>2. CASE MayRevert
  BY <1>2
<1> QED
  BY <1>1, <1>2

-----------------------------------------------------------------------------
(* What is shown *)

Asking == {"idle", "hashed", "hit", "looked", "missed"}
Going  == {"acquiring", "ready", "stamped", "read"}

\* A row is none before its job is inserted and unfinished while it runs; a run
\* has its directory; what is cached, and what it was cached from, is over.
RowInv ==
  /\ \A j \in Jobs :
       /\ at[j] \in Asking => row[j] = "none"
       /\ at[j] \in {"idle", "hashed", "looked"} => link[j] = NoJob
       /\ row[j] \in Unfinished <=> at[j] \in {"queued"} \cup Going
       /\ at[j] \in Going => j \in dirs
       /\ at[j] = "hit" \/ j \in cached => link[j] \in Jobs /\ at[link[j]] = "done"
       /\ j \in cached => at[j] = "done"
       /\ at[j] = "hashed" => asked[j] \in Keys
  /\ \A k \in Keys : cache[k] # NoJob => at[cache[k]] = "done"

\* A job that has begun is running.
RunsInv == \A j \in Jobs : at[j] \in Going => row[j] = "running"

\* A prune that has read the links may take what a later row links to.
Taking(p) == prune[p].step \in {"linked", "marked", "deleted"}

\* An answer from the cache has lost its artifacts.
Lost == \E j \in cached \cap raced : Home(j) \notin dirs

\* What a submission that found a source or an answer is about to insert.
SourceInv ==
  \A j \in Jobs \ raced :
    at[j] \in {"hit", "missed"} /\ link[j] # NoJob =>
      /\ row[link[j]] # "pruned"
      /\ at[j] = "hit" => link[j] \in dirs
      /\ \A p \in Pruners : ~ Taking(p)

\* What a pruner has in hand.
HandInv ==
  \A p \in Pruners :
    /\ prune[p].step \in {"idle", "swept"} => prune[p].ids = {}
    /\ \A j \in prune[p].ids : row[j] \in Terminal \cup {"pruned"}
    /\ prune[p].step = "deleted" => \A j \in prune[p].ids : row[j] = "pruned"
    /\ prune[p].step \in {"linked", "marked"} =>
         \A j \in Rows \ (raced \cup prune[p].seen) : link[j] = NoJob
    /\ prune[p].step = "marked" =>
         /\ LatestRender \in prune[p].ids => Lost
         /\ \A j \in Rows \ (raced \cup prune[p].ids) : link[j] \notin prune[p].ids

\* The directory of a pruned job is about to be swept.
SweptInv ==
  \A j \in dirs : row[j] = "pruned" =>
    \E p \in Pruners : prune[p].step = "deleted" /\ j \in prune[p].ids

ShowInv == RowInv /\ RunsInv /\ SourceInv /\ HandInv /\ SweptInv /\ LinksAreKept /\ ArtifactsAreKept

\* The renders a scene can show: LatestRender is the newest.
Renders == {j \in Jobs \ Readers : row[j] = "succeeded" /\ Home(j) \in dirs}

\* Fewer jobs have the same newest one as long as it is among them.
LEMMA NewestAmong ==
  ASSUME order \in Seq(Jobs), NEW T, NEW S \in SUBSET T, T # {}, \A j \in T : InOrder(j),
         Newest(T) \in S
  PROVE  Newest(S) = Newest(T)
<1>1. Last(order, T, Newest(T))
  BY NewestIsLast
<1>2. Last(order, S, Newest(T))
  BY <1>1 DEF Last
<1>3. Newest(S) \in S /\ Last(order, S, Newest(S))
  <2>1. S # {} /\ \A j \in S : InOrder(j)
    OBVIOUS
  <2> QED
    BY <2>1, NewestIsLast
<1> QED
  BY <1>2, <1>3, LastIsUnique

LEMMA LatestAmong ==
  ASSUME BaseInv, BaseInv', order' = order, Renders' \subseteq Renders,
         LatestRender # NoJob => LatestRender \in Renders'
  PROVE  LatestRender' = LatestRender
<1>1. order \in Seq(Jobs) /\ \A j \in Renders : InOrder(j)
  BY DEF BaseInv, TypeInv, TypeOK, Listed, Renders
<1>2. LatestRender = Newest(Renders) /\ LatestRender' = Newest(Renders')
  BY DEF LatestRender, Renders, Newest
<1>3. CASE Renders = {}
  BY <1>2, <1>3 DEF Newest
<1>4. CASE Renders # {}
  <2>1. Newest(Renders) \in Renders
    BY <1>1, <1>4, NewestIsLast
  <2>2. LatestRender # NoJob
    BY <1>2, <2>1, JobsAssumption DEF Renders
  <2> QED
    BY <1>1, <1>2, <1>4, <2>2, NewestAmong
<1> QED
  BY <1>3, <1>4

\* A render that is inserted or succeeds may become the newest.
LEMMA LatestOfMore ==
  ASSUME BaseInv, BaseInv', NEW j \in Jobs, order' \in {order, Append(order, j)},
         Renders' \in {Renders, Renders \cup {j}}
  PROVE  LatestRender' \in {LatestRender, j}
<1>1. /\ order \in Seq(Jobs) /\ \A k \in Renders : InOrder(k)
      /\ order' \in Seq(Jobs) /\ \A k \in Renders' : InOrder(k)'
  BY DEF BaseInv, TypeInv, TypeOK, Listed, Renders
<1>2. LatestRender = Newest(Renders) /\ LatestRender' = Newest(Renders)'
  BY DEF LatestRender, Renders, Newest
<1>3. CASE Renders' = {}
  <2>1. Renders = {}
    BY <1>3
  <2> QED
    BY <1>2, <1>3, <2>1 DEF Newest
<1>4. CASE Renders' # {}
  <2> DEFINE a == LatestRender'
  <2>1. a \in Renders' /\ Last(order', Renders', a)
    <3>1. \E k \in Renders' : Last(order', Renders', k)
      BY <1>1, <1>4, SomeLast DEF InOrder
    <3>2. DOMAIN order' = 1..Len(order')
      BY <1>1
    <3>3. a = CHOOSE k \in Renders' : Last(order', Renders', k)
      BY <1>2, <1>4, <3>2 DEF Newest, Last
    <3> QED
      BY <3>1, <3>3
  <2>2. SUFFICES ASSUME a # j PROVE a = LatestRender
    OBVIOUS
  <2>3. a \in Renders
    BY <2>1, <2>2
  <2>4. Last(order, Renders, a)
    <3>1. PICK i \in 1..Len(order') :
            order'[i] = a /\ \A k \in (i + 1)..Len(order') : order'[k] \notin Renders'
      BY <2>1 DEF Last
    <3>2. Len(order) \in Nat /\ Len(order') \in {Len(order), Len(order) + 1}
      BY <1>1
    <3>3. \A k \in 1..Len(order) : order'[k] = order[k]
      BY <1>1
    <3>4. i <= Len(order)
      BY <1>1, <2>2, <3>1, <3>2
    <3>5. order[i] = a
      BY <3>1, <3>2, <3>3, <3>4
    <3>6. ASSUME NEW k \in (i + 1)..Len(order)
          PROVE  order[k] \notin Renders
      <4>1. k \in 1..Len(order) /\ k \in (i + 1)..Len(order')
        BY <3>2, <3>4
      <4> QED
        BY <3>1, <3>3, <4>1
    <3> QED
      BY <3>2, <3>4, <3>5, <3>6 DEF Last
  <2>5. Newest(Renders) \in Renders /\ Last(order, Renders, Newest(Renders))
    <3>1. Renders # {}
      BY <2>3
    <3> QED
      BY <1>1, <3>1, NewestIsLast
  <2> QED
    BY <1>1, <1>2, <2>3, <2>4, <2>5, LastIsUnique
<1> QED
  BY <1>3, <1>4

-----------------------------------------------------------------------------
(* Submissions *)

\* A submission leaves the pruners and the directories alone, and the rows and
\* the answers of other jobs.
LEMMA SubmissionShape ==
  ASSUME BaseInv, ShowInv, NEW j \in Jobs, Submission(j)
  PROVE  /\ UNCHANGED <<dirs, prune>>
         /\ \A k \in Jobs \ {j} : /\ row'[k] = row[k] /\ link'[k] = link[k] /\ at'[k] = at[k]
                                  /\ asked'[k] = asked[k] /\ (k \in cached' <=> k \in cached)
         /\ \A k \in Keys : cache'[k] \in {cache[k], NoJob}
         /\ raced \subseteq raced' /\ raced' \subseteq raced \cup {j}
         /\ order' \in {order, Append(order, j)}
         /\ at[j] \in Asking
<1>0. TypeOK
  BY DEF BaseInv, TypeInv
<1>1. CASE Hash(j)
  BY <1>0, <1>1 DEF Hash, Go, Chooses, TypeOK, Asking
<1>2. CASE Look(j)
  BY <1>0, <1>2 DEF Look, Go, Chooses, TypeOK, rowVars, askVars, Asking
<1>3. CASE InsertHit(j)
  BY <1>0, <1>3 DEF InsertHit, InsertRow, Go, TypeOK, askVars, Asking
<1>4. CASE Join(j)
  BY <1>0, <1>4 DEF Join, Go, TypeOK, rowVars, Asking
<1>5. CASE Insert(j)
  BY <1>0, <1>5 DEF Insert, InsertRow, Go, TypeOK, askVars, Asking
<1> QED
  BY <1>1, <1>2, <1>3, <1>4, <1>5 DEF Submission

\* What a submission does to the job it submits.
LEMMA SubmissionOfItself ==
  ASSUME BaseInv, ShowInv, NEW j \in Jobs, Submission(j)
  PROVE  \/ /\ row'[j] = "none" /\ j \notin cached'
            /\ at'[j] = "hashed" => asked'[j] \in Keys
            /\ \/ at'[j] \in {"hashed", "looked", "done"} /\ link'[j] = NoJob
               \/ /\ at'[j] = "missed"
                  /\ link'[j] # NoJob => /\ link'[j] \in Jobs /\ row[link'[j]] = "succeeded"
                                         /\ j \notin raced' => \A p \in Pruners : ~ Taking(p)
               \/ /\ at'[j] = "hit"
                  /\ link'[j] \in dirs /\ at[link'[j]] = "done"
                  /\ j \notin raced' => /\ row[link'[j]] # "pruned"
                                        /\ \A p \in Pruners : ~ Taking(p)
         \/ /\ row'[j] = "succeeded" /\ j \in cached' /\ at'[j] = "done"
            /\ at[j] = "hit" /\ link'[j] = link[j]
         \/ /\ row'[j] = "queued" /\ j \notin cached' /\ at'[j] = "queued"
            /\ at[j] = "missed" /\ link'[j] = link[j]
<1>0. TypeOK
  BY DEF BaseInv, TypeInv
<1>1. CASE Hash(j)
  <2>1. /\ at[j] = "idle" /\ UNCHANGED <<row, cached>>
        /\ \/ /\ link' = [link EXCEPT ![j] = LatestRender] /\ at' = [at EXCEPT ![j] = "missed"]
              /\ LatestRender # NoJob /\ Chooses(j)
           \/ /\ \E there \in {"missed", "hashed"} : at' = [at EXCEPT ![j] = there]
              /\ link' = link
    BY <1>1 DEF Hash, Go
  <2>2. row[j] = "none" /\ link[j] = NoJob /\ j \notin cached
    BY <2>1 DEF ShowInv, RowInv, Asking
  <2>3. LatestRender # NoJob => LatestRender \in Jobs /\ row[LatestRender] = "succeeded"
    BY LatestRenderType
  <2>4. at'[j] = "hashed" => asked'[j] \in Keys
    BY <1>0, <1>1, UnknownAssumption DEF Hash, Go, TypeOK, Keys
  <2>5. Chooses(j) /\ j \notin raced' => \A p \in Pruners : ~ Taking(p)
    BY DEF Chooses, Taking
  <2> QED
    BY <1>0, <2>1, <2>2, <2>3, <2>4, <2>5 DEF TypeOK
<1>2. CASE Look(j)
  <2>1. /\ at[j] = "hashed" /\ UNCHANGED <<row, cached>>
        /\ \/ /\ cache[asked[j]] # NoJob /\ cache[asked[j]] \in dirs
              /\ link' = [link EXCEPT ![j] = cache[asked[j]]]
              /\ at' = [at EXCEPT ![j] = "hit"] /\ Chooses(j)
           \/ link' = link /\ at' = [at EXCEPT ![j] = "looked"]
    BY <1>2 DEF Look, Intact, Go, rowVars
  <2>2. row[j] = "none" /\ link[j] = NoJob /\ j \notin cached
    BY <2>1 DEF ShowInv, RowInv, Asking
  <2>3. Chooses(j) /\ j \notin raced' =>
          (\A p \in Pruners : ~ Taking(p)) /\ \A d \in dirs : row[d] # "pruned"
    BY DEF ShowInv, SweptInv, Chooses, Taking
  <2>4. asked[j] \in Keys
    BY <2>1 DEF ShowInv, RowInv
  <2>5. cache[asked[j]] # NoJob => at[cache[asked[j]]] = "done"
    BY <2>4 DEF ShowInv, RowInv
  <2> QED
    BY <1>0, <2>1, <2>2, <2>3, <2>5 DEF TypeOK
<1>3. CASE InsertHit(j)
  BY <1>0, <1>3 DEF InsertHit, InsertRow, Go, TypeOK
<1>4. CASE Join(j)
  <2>1. /\ at[j] = "looked" /\ UNCHANGED <<row, cached, link>>
        /\ \E there \in {"missed", "done"} : at' = [at EXCEPT ![j] = there]
    BY <1>4 DEF Join, Go, rowVars
  <2>2. row[j] = "none" /\ link[j] = NoJob /\ j \notin cached
    BY <2>1 DEF ShowInv, RowInv, Asking
  <2> QED
    BY <1>0, <2>1, <2>2 DEF TypeOK
<1>5. CASE Insert(j)
  <2>1. j \notin cached
    BY <1>5 DEF ShowInv, RowInv, Insert
  <2> QED
    BY <1>0, <1>5, <2>1 DEF Insert, InsertRow, Go, TypeOK
<1> QED
  BY <1>1, <1>2, <1>3, <1>4, <1>5 DEF Submission

LEMMA SubmissionKeepsShown ==
  ASSUME BaseInv, BaseInv', ShowInv, NEW j \in Jobs, Submission(j)
  PROVE  /\ ShowInv'
         /\ LatestRender # NoJob => row'[LatestRender] # "pruned"
<1>0. TypeOK /\ TypeOK'
  BY DEF BaseInv, TypeInv
<1>1. at[j] \in Asking
  BY SubmissionShape
<1>2. /\ UNCHANGED <<dirs, prune>>
      /\ \A k \in Jobs \ {j} : /\ row'[k] = row[k] /\ link'[k] = link[k] /\ at'[k] = at[k]
                               /\ asked'[k] = asked[k] /\ (k \in cached' <=> k \in cached)
      /\ \A k \in Keys : cache'[k] \in {cache[k], NoJob}
      /\ raced \subseteq raced' /\ raced' \subseteq raced \cup {j}
      /\ order' \in {order, Append(order, j)}
  BY SubmissionShape
<1>3. \/ /\ row'[j] = "none" /\ j \notin cached'
         /\ at'[j] = "hashed" => asked'[j] \in Keys
         /\ \/ at'[j] \in {"hashed", "looked", "done"} /\ link'[j] = NoJob
            \/ /\ at'[j] = "missed"
               /\ link'[j] # NoJob => /\ link'[j] \in Jobs /\ row[link'[j]] = "succeeded"
                                      /\ j \notin raced' => \A p \in Pruners : ~ Taking(p)
            \/ /\ at'[j] = "hit"
               /\ link'[j] \in dirs /\ at[link'[j]] = "done"
               /\ j \notin raced' => /\ row[link'[j]] # "pruned"
                                     /\ \A p \in Pruners : ~ Taking(p)
      \/ /\ row'[j] = "succeeded" /\ j \in cached' /\ at'[j] = "done"
         /\ at[j] = "hit" /\ link'[j] = link[j]
      \/ /\ row'[j] = "queued" /\ j \notin cached' /\ at'[j] = "queued"
         /\ at[j] = "missed" /\ link'[j] = link[j]
  BY SubmissionOfItself
<1>4. row[j] = "none" /\ row'[j] # "pruned" /\ j \notin cached
  BY <1>1, <1>3 DEF ShowInv, RowInv, Asking
<1>5. \A k \in Jobs : row'[k] = "pruned" <=> row[k] = "pruned"
  BY <1>2, <1>4
<1>6. \A k \in Jobs : at[k] = "done" => at'[k] = "done"
  BY <1>1, <1>2 DEF Asking
<1>7. RowInv'
  <2>1. \A k \in Keys : cache'[k] # NoJob => at'[cache'[k]] = "done"
    BY <1>0, <1>2, <1>6 DEF ShowInv, RowInv, TypeOK
  <2>2. \A k \in Jobs \ {j} :
          /\ at'[k] \in Asking => row'[k] = "none"
          /\ at'[k] \in {"idle", "hashed", "looked"} => link'[k] = NoJob
          /\ row'[k] \in Unfinished <=> at'[k] \in {"queued"} \cup Going
          /\ at'[k] \in Going => k \in dirs'
          /\ at'[k] = "hit" \/ k \in cached' => link'[k] \in Jobs /\ at'[link'[k]] = "done"
          /\ k \in cached' => at'[k] = "done"
          /\ at'[k] = "hashed" => asked'[k] \in Keys
    BY <1>2, <1>6 DEF ShowInv, RowInv
  <2>3. /\ at'[j] \in Asking => row'[j] = "none"
        /\ at'[j] \in {"idle", "hashed", "looked"} => link'[j] = NoJob
        /\ row'[j] \in Unfinished <=> at'[j] \in {"queued"} \cup Going
        /\ at'[j] \in Going => j \in dirs'
        /\ j \in cached' => at'[j] = "done"
        /\ at'[j] = "hashed" => asked'[j] \in Keys
    BY <1>3 DEF Asking, Going, Unfinished
  <2>4. at'[j] = "hit" \/ j \in cached' => link'[j] \in Jobs /\ at'[link'[j]] = "done"
    BY <1>0, <1>3, <1>6 DEF ShowInv, RowInv, TypeOK
  <2> QED
    BY <2>1, <2>2, <2>3, <2>4 DEF RowInv
<1>8. RunsInv' /\ SourceInv'
  <2>1. RunsInv'
    BY <1>2, <1>3 DEF ShowInv, RunsInv, Going
  <2>2. SourceInv'
    <3>1. \A p \in Pruners : Taking(p)' <=> Taking(p)
      BY <1>2 DEF Taking
    <3> SUFFICES ASSUME NEW k \in Jobs \ raced', at'[k] \in {"hit", "missed"}, link'[k] # NoJob
                 PROVE  /\ row'[link'[k]] # "pruned"
                        /\ at'[k] = "hit" => link'[k] \in dirs
                        /\ \A p \in Pruners : ~ Taking(p)
      BY <1>2, <3>1 DEF SourceInv
    <3>2. link'[k] \in Jobs
      BY <1>0 DEF TypeOK
    <3>3. CASE k = j
      BY <1>3, <1>5, <3>2, <3>3
    <3>4. CASE k # j
      BY <1>2, <1>5, <3>2, <3>4 DEF ShowInv, SourceInv
    <3> QED
      BY <3>3, <3>4
  <2> QED
    BY <2>1, <2>2
<1>9. /\ j \in Rows' /\ j \notin raced' /\ link'[j] # NoJob =>
             row[link[j]] # "pruned" /\ (at[j] = "hit" => link[j] \in dirs)
                /\ \A p \in Pruners : ~ Taking(p)
      /\ Rows' \subseteq Rows \cup {j} /\ j \notin Rows
  <2>1. Rows' \subseteq Rows \cup {j} /\ j \notin Rows
    BY <1>2, <1>4 DEF Rows, Unfinished, Terminal
  <2>2. j \in Rows' => at[j] \in {"hit", "missed"} /\ link'[j] = link[j]
    BY <1>3 DEF Rows, Unfinished, Terminal
  <2> QED
    BY <1>2, <2>1, <2>2 DEF ShowInv, SourceInv
<1>10. SweptInv'
  BY <1>0, <1>2, <1>5 DEF ShowInv, SweptInv, TypeOK
<1>11. LinksAreKept'
  <2> SUFFICES ASSUME NEW k \in Rows' \ raced', link'[k] # NoJob
               PROVE  row'[link'[k]] # "pruned"
    BY DEF LinksAreKept
  <2>1. k \in Jobs /\ link'[k] \in Jobs
    BY <1>0 DEF TypeOK, Rows
  <2>2. CASE k = j
    <3>1. link'[j] = link[j]
      BY <1>3, <2>2 DEF Rows, Unfinished, Terminal
    <3> QED
      BY <1>5, <1>9, <2>1, <2>2, <3>1
  <2>3. CASE k # j
    BY <1>2, <1>5, <1>9, <2>1, <2>3 DEF ShowInv, LinksAreKept
  <2> QED
    BY <2>2, <2>3
<1>12. ArtifactsAreKept'
  <2> SUFFICES ASSUME NEW k \in Rows' \ (Readers \cup (cached' \cap raced')), row'[k] = "succeeded"
               PROVE  Home(k)' \in dirs
    BY <1>2 DEF ArtifactsAreKept
  <2>1. CASE k = j
    <3>1. at[j] = "hit" /\ link'[j] = link[j] /\ j \in cached' /\ j \notin raced'
      BY <1>3, <2>1
    <3>2. link[j] \in Jobs
      BY <3>1 DEF ShowInv, RowInv
    <3> QED
      BY <1>9, <2>1, <3>1, <3>2, JobsAssumption DEF Home
  <2>2. CASE k # j
    <3>1. k \in Rows \ (Readers \cup (cached \cap raced)) /\ row[k] = "succeeded" /\ Home(k)' = Home(k)
      BY <1>2, <1>9, <2>2 DEF Rows, Home
    <3> QED
      BY <3>1 DEF ShowInv, ArtifactsAreKept
  <2> QED
    BY <2>1, <2>2
<1>13. LatestRender' \in {LatestRender, j}
  <2>1. \A k \in Jobs \ {j} : k \in Renders' <=> k \in Renders
    BY <1>2 DEF Renders, Home
  <2>2. j \notin Renders /\ Renders \subseteq Jobs /\ Renders' \subseteq Jobs
    BY <1>4 DEF Renders
  <2>3. Renders' \in {Renders, Renders \cup {j}}
    BY <2>1, <2>2
  <2> QED
    BY <1>2, <2>3, LatestOfMore
<1>14. Lost => Lost'
  <2> SUFFICES ASSUME NEW k \in cached \cap raced, Home(k) \notin dirs
               PROVE  Lost'
    BY DEF Lost
  <2>1. k \in Jobs \ {j}
    BY <1>0, <1>4 DEF TypeOK
  <2>2. k \in cached' \cap raced' /\ Home(k)' = Home(k)
    BY <1>2, <2>1 DEF Home
  <2> QED
    BY <1>2, <2>2 DEF Lost
<1>15. HandInv'
  <2> SUFFICES ASSUME NEW p \in Pruners
               PROVE  /\ prune[p].step \in {"idle", "swept"} => prune[p].ids = {}
                      /\ \A k \in prune[p].ids : row'[k] \in Terminal \cup {"pruned"}
                      /\ prune[p].step = "deleted" => \A k \in prune[p].ids : row'[k] = "pruned"
                      /\ prune[p].step \in {"linked", "marked"} =>
                           \A k \in Rows' \ (raced' \cup prune[p].seen) : link'[k] = NoJob
                      /\ prune[p].step = "marked" =>
                           /\ LatestRender' \in prune[p].ids => Lost'
                           /\ \A k \in Rows' \ (raced' \cup prune[p].ids) :
                                link'[k] \notin prune[p].ids
    BY <1>2 DEF HandInv
  <2>1. prune[p].ids \subseteq Jobs /\ prune[p].seen \subseteq Jobs /\ NoJob \notin prune[p].ids
    BY <1>0, JobsAssumption DEF TypeOK
  <2>2. j \notin prune[p].ids
    BY <1>4 DEF ShowInv, HandInv, Terminal
  <2>3. \A k \in prune[p].ids : row'[k] = row[k]
    BY <1>2, <2>1, <2>2
  <2>4. prune[p].step \in {"linked", "marked"} /\ j \in Rows' \ raced' => link'[j] = NoJob
    BY <1>9 DEF Taking
  <2>5. \A k \in Rows' \ raced' : k # j => k \in Rows \ raced /\ link'[k] = link[k]
    BY <1>2, <1>9 DEF Rows
  <2>6. prune[p].step = "marked" => (LatestRender' \in prune[p].ids => Lost')
    BY <1>13, <1>14, <2>2 DEF ShowInv, HandInv
  <2>7. prune[p].step \in {"linked", "marked"} =>
          \A k \in Rows' \ (raced' \cup prune[p].seen) : link'[k] = NoJob
    BY <2>4, <2>5 DEF ShowInv, HandInv
  <2>8. prune[p].step = "marked" =>
          \A k \in Rows' \ (raced' \cup prune[p].ids) : link'[k] \notin prune[p].ids
    BY <2>1, <2>4, <2>5 DEF ShowInv, HandInv
  <2> QED
    BY <2>3, <2>6, <2>7, <2>8 DEF ShowInv, HandInv
<1>16. LatestRender # NoJob => row'[LatestRender] # "pruned"
  BY <1>5, LatestRenderType
<1> QED
  BY <1>7, <1>8, <1>10, <1>11, <1>12, <1>15, <1>16 DEF ShowInv

-----------------------------------------------------------------------------
(* Runs *)

\* What a step of a run does to its row, its directory and the cache.
LEMMA RunShape ==
  ASSUME BaseInv, ShowInv, NEW j \in Jobs, RunStep(j)
  PROVE  /\ UNCHANGED <<order, cached, link, asked, prune, raced>>
         /\ \A k \in Jobs \ {j} : row'[k] = row[k] /\ at'[k] = at[k] /\ (k \in dirs' <=> k \in dirs)
         /\ \/ at'[j] \in Going /\ row'[j] = "running" /\ row[j] \in Unfinished /\ j \in dirs'
            \/ /\ at'[j] \in {"ended", "done"} /\ row'[j] = "succeeded" /\ row[j] = "running"
               /\ j \in dirs /\ j \in dirs'
            \/ at'[j] = "done" /\ row'[j] = "failed" /\ row[j] \in Unfinished
            \/ at[j] = "ended" /\ at'[j] = "done" /\ row'[j] = row[j] /\ dirs' = dirs
         /\ \A k \in Keys : cache'[k] = cache[k] \/ (cache'[k] = j /\ at'[j] = "done")
<1>0. TypeOK
  BY DEF BaseInv, TypeInv
<1>1. at[j] \in Going => row[j] \in Unfinished /\ j \in dirs
  BY DEF ShowInv, RowInv
<1>2. CASE Run(j)
  <2>1. row[j] \in Unfinished
    BY <1>2 DEF Run, ShowInv, RowInv
  <2> QED
    BY <1>0, <1>2, <2>1 DEF Run, Go, TypeOK, askVars, Going
<1>3. CASE Acquire(j) \/ Stamp(j) \/ Read(j)
  <2>1. /\ UNCHANGED <<row, order, cached, link, asked, prune, raced, dirs, cache>>
        /\ at[j] \in Going
        /\ \E there \in Going : at' = [at EXCEPT ![j] = there]
    BY <1>3 DEF Acquire, Stamp, Read, Go, askVars, rowVars, Going
  <2>2. row[j] = "running"
    BY <2>1 DEF ShowInv, RunsInv
  <2> QED
    BY <1>0, <1>1, <2>1, <2>2 DEF TypeOK
<1>4. CASE Succeed(j)
  <2>1. /\ UNCHANGED <<order, cached, link, asked, prune, raced, dirs, cache>>
        /\ at[j] \in Going /\ row' = [row EXCEPT ![j] = "succeeded"]
        /\ \E there \in {"ended", "done"} : at' = [at EXCEPT ![j] = there]
    BY <1>4 DEF Succeed, Go, askVars, Going
  <2>2. row[j] = "running"
    BY <2>1 DEF ShowInv, RunsInv
  <2> QED
    BY <1>0, <1>1, <2>1, <2>2 DEF TypeOK
<1>5. CASE Fail(j)
  BY <1>0, <1>5 DEF Fail, Go, askVars, TypeOK
<1>6. CASE Put(j)
  <2>1. /\ UNCHANGED <<row, order, cached, link, asked, prune, raced, dirs>>
        /\ at[j] = "ended" /\ at' = [at EXCEPT ![j] = "done"]
        /\ cache' = cache \/ cache' = [cache EXCEPT ![start[j]] = j]
    BY <1>6 DEF Put, Go, rowVars, askVars
  <2> QED
    BY <1>0, <2>1 DEF TypeOK
<1> QED
  BY <1>2, <1>3, <1>4, <1>5, <1>6 DEF RunStep

LEMMA RunKeepsShown ==
  ASSUME BaseInv, BaseInv', ShowInv, NEW j \in Jobs, RunStep(j)
  PROVE  /\ ShowInv'
         /\ LatestRender # NoJob => row'[LatestRender] # "pruned"
<1>0. TypeOK /\ TypeOK'
  BY DEF BaseInv, TypeInv
<1>1. /\ UNCHANGED <<order, cached, link, asked, prune, raced>>
      /\ \A k \in Jobs \ {j} : row'[k] = row[k] /\ at'[k] = at[k] /\ (k \in dirs' <=> k \in dirs)
      /\ \/ at'[j] \in Going /\ row'[j] = "running" /\ row[j] \in Unfinished /\ j \in dirs'
         \/ /\ at'[j] \in {"ended", "done"} /\ row'[j] = "succeeded" /\ row[j] = "running"
            /\ j \in dirs /\ j \in dirs'
         \/ at'[j] = "done" /\ row'[j] = "failed" /\ row[j] \in Unfinished
         \/ at[j] = "ended" /\ at'[j] = "done" /\ row'[j] = row[j] /\ dirs' = dirs
      /\ \A k \in Keys : cache'[k] = cache[k] \/ (cache'[k] = j /\ at'[j] = "done")
  BY RunShape
<1>2. at[j] \notin Asking \cup {"done"} /\ j \notin cached
  BY <1>1 DEF ShowInv, RowInv, Unfinished, Asking, Going
<1>3. \A k \in Jobs : /\ row'[k] = "pruned" <=> row[k] = "pruned"
                      /\ at[k] = "done" => at'[k] = "done" /\ (k \in dirs' <=> k \in dirs)
                      /\ row[k] \in Terminal \cup {"pruned"} => row'[k] = row[k]
  BY <1>1, <1>2 DEF Unfinished, Terminal
<1>4. Rows' = Rows
  BY <1>1 DEF Rows, Unfinished, Terminal
<1>5. \A k \in Jobs \ Readers :
        k # j /\ row[k] = "succeeded" => Home(k)' = Home(k) /\ (Home(k) \in dirs' <=> Home(k) \in dirs)
  BY <1>1, <1>3 DEF ShowInv, RowInv, Home
<1>6. Home(j)' = j /\ Home(j) = j
  BY <1>1, <1>2 DEF Home
<1>7. \/ Renders' = Renders
      \/ Renders' = Renders \cup {j} /\ row[j] \in Unfinished
  <2>1. CASE row'[j] = "succeeded" /\ row[j] = "running" /\ j \in dirs'
    BY <1>1, <1>5, <1>6, <2>1 DEF Renders, Unfinished
  <2>2. CASE row'[j] # "succeeded" /\ row[j] # "succeeded"
    BY <1>1, <1>5, <2>2 DEF Renders
  <2>3. CASE row'[j] = row[j] /\ dirs' = dirs
    BY <1>1, <1>5, <1>6, <2>3 DEF Renders
  <2> QED
    BY <1>1, <2>1, <2>2, <2>3 DEF Unfinished
<1>8. LatestRender' = LatestRender \/ (LatestRender' = j /\ row[j] \in Unfinished)
  <2>1. CASE Renders' = Renders
    <3>1. LatestRender # NoJob => LatestRender \in Renders
      BY LatestRenderType DEF Renders
    <3> QED
      BY <1>1, <2>1, <3>1, LatestAmong
  <2>2. CASE Renders' = Renders \cup {j} /\ row[j] \in Unfinished
    BY <1>1, <2>2, LatestOfMore
  <2> QED
    BY <1>7, <2>1, <2>2
<1>9. RowInv'
  <2>1. \A k \in Keys : cache'[k] # NoJob => at'[cache'[k]] = "done"
    BY <1>0, <1>1, <1>3 DEF ShowInv, RowInv, TypeOK
  <2>2. \A k \in Jobs :
          /\ at'[k] \in Asking => row'[k] = "none"
          /\ at'[k] \in {"idle", "hashed", "looked"} => link'[k] = NoJob
          /\ row'[k] \in Unfinished <=> at'[k] \in {"queued"} \cup Going
          /\ at'[k] \in Going => k \in dirs'
          /\ k \in cached' => at'[k] = "done"
          /\ at'[k] = "hashed" => asked'[k] \in Keys
    BY <1>1, <1>2 DEF ShowInv, RowInv, Unfinished, Going, Asking
  <2>3. \A k \in Jobs :
          at'[k] = "hit" \/ k \in cached' => link'[k] \in Jobs /\ at'[link'[k]] = "done"
    BY <1>1, <1>2, <1>3 DEF ShowInv, RowInv, Going
  <2> QED
    BY <2>1, <2>2, <2>3 DEF RowInv
<1>10. RunsInv'
  BY <1>1 DEF ShowInv, RunsInv, Going
<1>11. SourceInv'
  <2>1. \A k \in Jobs : at'[k] \in {"hit", "missed"} => at[k] = at'[k]
    BY <1>1 DEF Going
  <2>2. \A k \in Jobs : at'[k] = "hit" => (link[k] \in dirs' <=> link[k] \in dirs)
    BY <1>0, <1>1, <1>3, <2>1 DEF ShowInv, RowInv
  <2>3. \A p \in Pruners : Taking(p)' <=> Taking(p)
    BY <1>1 DEF Taking
  <2> QED
    BY <1>0, <1>1, <1>3, <2>1, <2>2, <2>3 DEF ShowInv, SourceInv, TypeOK
<1>12. Lost => Lost'
  <2>1. \A k \in cached : Home(k)' = Home(k) /\ (Home(k) \in dirs' <=> Home(k) \in dirs)
    BY <1>0, <1>1, <1>3 DEF ShowInv, RowInv, Home, TypeOK
  <2> QED
    BY <1>1, <2>1 DEF Lost
<1>13. HandInv'
  <2> SUFFICES ASSUME NEW p \in Pruners
               PROVE  /\ prune[p].step \in {"idle", "swept"} => prune[p].ids = {}
                      /\ \A k \in prune[p].ids : row'[k] \in Terminal \cup {"pruned"}
                      /\ prune[p].step = "deleted" => \A k \in prune[p].ids : row'[k] = "pruned"
                      /\ prune[p].step \in {"linked", "marked"} =>
                           \A k \in Rows' \ (raced' \cup prune[p].seen) : link'[k] = NoJob
                      /\ prune[p].step = "marked" =>
                           /\ LatestRender' \in prune[p].ids => Lost'
                           /\ \A k \in Rows' \ (raced' \cup prune[p].ids) :
                                link'[k] \notin prune[p].ids
    BY <1>1 DEF HandInv
  <2>1. prune[p].ids \subseteq Jobs
    BY <1>0 DEF TypeOK
  <2>2. j \in prune[p].ids => row[j] \notin Unfinished
    BY DEF ShowInv, HandInv, Unfinished, Terminal
  <2>4. prune[p].step = "marked" => (LatestRender' \in prune[p].ids => Lost')
    BY <1>8, <1>12, <2>2 DEF ShowInv, HandInv
  <2> QED
    BY <1>1, <1>3, <1>4, <2>1, <2>4 DEF ShowInv, HandInv
<1>14. SweptInv'
  BY <1>0, <1>1, <1>3 DEF ShowInv, SweptInv, TypeOK, Unfinished
<1>15. LinksAreKept'
  <2> SUFFICES ASSUME NEW k \in Rows \ raced, link[k] # NoJob
               PROVE  row'[link[k]] # "pruned"
    BY <1>1, <1>4 DEF LinksAreKept
  <2>1. link[k] \in Jobs
    BY <1>0 DEF TypeOK, Rows
  <2> QED
    BY <1>3, <2>1 DEF ShowInv, LinksAreKept
<1>16. ArtifactsAreKept'
  BY <1>1, <1>4, <1>5, <1>6 DEF ShowInv, ArtifactsAreKept, Rows
<1>17. LatestRender # NoJob => row'[LatestRender] # "pruned"
  BY <1>3, LatestRenderType
<1> QED
  BY <1>9, <1>10, <1>11, <1>13, <1>14, <1>15, <1>16, <1>17 DEF ShowInv

-----------------------------------------------------------------------------
(* Pruners *)

LEMMA SameLatest ==
  ASSUME UNCHANGED <<row, order, link, cached, dirs>>
  PROVE  LatestRender' = LatestRender /\ Rows' = Rows
<1>1. Rows' = Rows
  BY DEF Rows
<1>2. LatestRender = Newest(Renders) /\ LatestRender' = Newest(Renders')
  BY DEF LatestRender, Renders, Newest
<1>3. Renders' = Renders
  BY DEF Renders, Home
<1> QED
  BY <1>1, <1>2, <1>3

LEMMA SameShown ==
  ASSUME BaseInv, ShowInv, UNCHANGED <<row, order, link, cached, dirs, at, asked, raced>>,
         \A k \in Keys : cache'[k] \in {cache[k], NoJob},
         \A p \in Pruners : Taking(p)' => Taking(p)
  PROVE  /\ RowInv' /\ RunsInv' /\ SourceInv' /\ LinksAreKept' /\ ArtifactsAreKept'
         /\ LatestRender' = LatestRender /\ Rows' = Rows /\ (Lost' <=> Lost)
         /\ LatestRender # NoJob => row'[LatestRender] # "pruned"
<1>1. RowInv' /\ RunsInv'
  BY DEF ShowInv, RowInv, RunsInv
<1>2. SourceInv'
  BY DEF ShowInv, SourceInv
<1>3. LinksAreKept' /\ ArtifactsAreKept'
  BY DEF ShowInv, LinksAreKept, ArtifactsAreKept, Rows, Home
<1>4. Lost' <=> Lost
  BY DEF Lost, Home
<1>5. LatestRender # NoJob => row'[LatestRender] # "pruned"
  BY LatestRenderType
<1> QED
  BY <1>1, <1>2, <1>3, <1>4, <1>5, SameLatest

\* What a prune leaves in hand shows nothing and is linked from nothing else it saw.
LEMMA KeptIsShown ==
  ASSUME BaseInv, NEW ids \in SUBSET Jobs, NEW seen \in SUBSET Jobs
  PROVE  /\ LatestRender \notin ids \ Kept(ids, seen)
         /\ \A j \in seen \ (ids \ Kept(ids, seen)) : link[j] \notin ids \ Kept(ids, seen)
<1> DEFINE first == (seen \ ids) \cup Shown
<1>1. \A j \in Jobs :
        j \in Kept(ids, seen)
          <=> \A S \in SUBSET Jobs : first \subseteq S /\ Links(S \cap seen) \subseteq S => j \in S
  BY DEF Kept
<1>2. LatestRender \notin ids \ Kept(ids, seen)
  <2>1. LatestRender \in Jobs => LatestRender \in first
    BY DEF Shown
  <2> HIDE DEF first
  <2> QED
    BY <1>1, <2>1
<1>3. ASSUME NEW j \in seen \ (ids \ Kept(ids, seen)), link[j] \in ids
      PROVE  link[j] \in Kept(ids, seen)
  <2>1. j \in Jobs /\ (j \in first \/ j \in Kept(ids, seen))
    OBVIOUS
  <2>2. j \in Kept(ids, seen)
    <3> HIDE DEF first
    <3> QED
      BY <1>1, <2>1
  <2>3. \A S \in SUBSET Jobs : j \in S /\ Links(S \cap seen) \subseteq S => link[j] \in S
    BY <1>3 DEF Links
  <2> HIDE DEF first
  <2> QED
    BY <1>1, <1>3, <2>1, <2>2, <2>3
<1> QED
  BY <1>2, <1>3

LEMMA ListKeepsShown ==
  ASSUME BaseInv, ShowInv, NEW p \in Pruners, List(p)
  PROVE  /\ ShowInv'
         /\ LatestRender # NoJob => row'[LatestRender] # "pruned"
<1>0. TypeOK
  BY DEF BaseInv, TypeInv
<1>1. UNCHANGED <<row, order, link, cached, dirs, at, asked, raced, cache>>
  BY DEF List, rowVars, askVars
<1>2. PICK ids \in SUBSET Jobs :
        /\ prune' = [prune EXCEPT ![p].step = "listed", ![p].ids = ids]
        /\ \A j \in ids : row[j] \in Terminal
        /\ prune[p].step = "idle"
  <2>1. \A old \in Nat : Candidates(old) \in SUBSET Jobs /\ \A j \in Candidates(old) : row[j] \in Terminal
    BY DEF Candidates, Rows
  <2>2. PICK old \in 0..Len(order) : InHand(p, "listed", Candidates(old))
    BY DEF List
  <2>3. old \in Nat
    BY <1>0 DEF TypeOK
  <2> QED
    BY <2>1, <2>2, <2>3 DEF InHand, List
<1>3. /\ prune'[p].step = "listed" /\ prune'[p].ids = ids
      /\ \A q \in Pruners \ {p} : prune'[q] = prune[q]
  BY <1>0, <1>2 DEF TypeOK
<1>4. \A q \in Pruners : Taking(q)' => Taking(q)
  BY <1>3 DEF Taking
<1>5. /\ RowInv' /\ RunsInv' /\ SourceInv' /\ LinksAreKept' /\ ArtifactsAreKept'
      /\ LatestRender' = LatestRender /\ Rows' = Rows /\ (Lost' <=> Lost)
      /\ LatestRender # NoJob => row'[LatestRender] # "pruned"
  BY <1>1, <1>4, SameShown
<1>6. HandInv'
  BY <1>1, <1>2, <1>3, <1>5 DEF ShowInv, HandInv
<1>7. SweptInv'
  BY <1>1, <1>2, <1>3 DEF ShowInv, SweptInv
<1> QED
  BY <1>5, <1>6, <1>7 DEF ShowInv

\* From here on nothing is chosen that the prune does not know of or count as raced.
LEMMA ReadLinksKeepsShown ==
  ASSUME BaseInv, ShowInv, NEW p \in Pruners, ReadLinks(p)
  PROVE  /\ ShowInv'
         /\ LatestRender # NoJob => row'[LatestRender] # "pruned"
<1>0. TypeOK
  BY DEF BaseInv, TypeInv
<1>1. /\ UNCHANGED <<row, order, link, cached, dirs, at, asked, cache>>
      /\ prune' = [prune EXCEPT ![p].step = "linked", ![p].seen = Rows]
      /\ prune[p].step = "listed" /\ raced' = raced \cup Choosing
  BY DEF ReadLinks, rowVars
<1>2. /\ prune'[p].step = "linked" /\ prune'[p].ids = prune[p].ids /\ prune'[p].seen = Rows
      /\ \A q \in Pruners \ {p} : prune'[q] = prune[q]
  BY <1>0, <1>1 DEF TypeOK
<1>3. LatestRender' = LatestRender /\ Rows' = Rows
  BY <1>1, SameLatest
<1>4. RowInv' /\ RunsInv'
  BY <1>1 DEF ShowInv, RowInv, RunsInv
<1>5. SourceInv'
  BY <1>1 DEF SourceInv, Choosing
<1>6. LinksAreKept' /\ ArtifactsAreKept' /\ (Lost => Lost')
  BY <1>1, <1>3 DEF ShowInv, LinksAreKept, ArtifactsAreKept, Home, Lost
<1>7. HandInv'
  <2> SUFFICES ASSUME NEW q \in Pruners
               PROVE  /\ prune'[q].step \in {"idle", "swept"} => prune'[q].ids = {}
                      /\ \A k \in prune'[q].ids : row[k] \in Terminal \cup {"pruned"}
                      /\ prune'[q].step = "deleted" => \A k \in prune'[q].ids : row[k] = "pruned"
                      /\ prune'[q].step \in {"linked", "marked"} =>
                           \A k \in Rows \ (raced' \cup prune'[q].seen) : link[k] = NoJob
                      /\ prune'[q].step = "marked" =>
                           /\ LatestRender \in prune'[q].ids => Lost'
                           /\ \A k \in Rows \ (raced' \cup prune'[q].ids) : link[k] \notin prune'[q].ids
    BY <1>1, <1>3 DEF HandInv
  <2>1. CASE q = p
    BY <1>1, <1>2, <2>1 DEF ShowInv, HandInv
  <2>2. CASE q # p
    BY <1>1, <1>2, <1>6, <2>2 DEF ShowInv, HandInv
  <2> QED
    BY <2>1, <2>2
<1>8. SweptInv'
  BY <1>1, <1>2 DEF ShowInv, SweptInv
<1>9. LatestRender # NoJob => row'[LatestRender] # "pruned"
  BY <1>1, LatestRenderType
<1> QED
  BY <1>4, <1>5, <1>6, <1>7, <1>8, <1>9 DEF ShowInv

LEMMA MarkKeepsShown ==
  ASSUME BaseInv, ShowInv, NEW p \in Pruners, Mark(p)
  PROVE  /\ ShowInv'
         /\ LatestRender # NoJob => row'[LatestRender] # "pruned"
<1>0. TypeOK
  BY DEF BaseInv, TypeInv
<1> DEFINE ids == prune[p].ids
           seen == prune[p].seen
           left == ids \ Kept(ids, seen)
<1>1. UNCHANGED <<row, order, link, cached, dirs, at, asked, raced, cache>>
  BY DEF Mark, rowVars, askVars
<1>2. prune[p].step = "linked" /\ prune' = [prune EXCEPT ![p].step = "marked", ![p].ids = left]
  BY DEF Mark, InHand
<1>3. /\ prune'[p].step = "marked" /\ prune'[p].ids = left /\ prune'[p].seen = seen
      /\ \A q \in Pruners \ {p} : prune'[q] = prune[q]
  BY <1>0, <1>2 DEF TypeOK
<1>4. ids \in SUBSET Jobs /\ seen \in SUBSET Jobs /\ NoJob \notin ids
  BY <1>0, JobsAssumption DEF TypeOK
<1>5. LatestRender \notin left /\ \A j \in seen \ left : link[j] \notin left
  BY <1>4, KeptIsShown
<1>6. /\ \A j \in left : row[j] \in Terminal \cup {"pruned"}
      /\ \A j \in Rows \ (raced \cup seen) : link[j] = NoJob
  BY <1>2 DEF ShowInv, HandInv
<1>7. left \subseteq ids
  OBVIOUS
<1> HIDE DEF left, ids, seen
<1>8. \A j \in Rows \ (raced \cup left) : link[j] \notin left
  BY <1>4, <1>5, <1>6, <1>7
<1>9. \A q \in Pruners : Taking(q)' => Taking(q)
  BY <1>2, <1>3 DEF Taking
<1>10. /\ RowInv' /\ RunsInv' /\ SourceInv' /\ LinksAreKept' /\ ArtifactsAreKept'
       /\ LatestRender' = LatestRender /\ Rows' = Rows /\ (Lost' <=> Lost)
       /\ LatestRender # NoJob => row'[LatestRender] # "pruned"
  BY <1>1, <1>9, SameShown
<1>11. HandInv'
  BY <1>1, <1>3, <1>5, <1>6, <1>8, <1>10 DEF ShowInv, HandInv
<1>12. SweptInv'
  BY <1>1, <1>2, <1>3 DEF ShowInv, SweptInv
<1> QED
  BY <1>10, <1>11, <1>12 DEF ShowInv

LEMMA DeleteKeepsShown ==
  ASSUME BaseInv, BaseInv', ShowInv, NEW p \in Pruners, Delete(p)
  PROVE  /\ ShowInv'
         /\ LatestRender # NoJob /\ ~ Lost => row'[LatestRender] # "pruned"
<1>0. TypeOK
  BY DEF BaseInv, TypeInv
<1> DEFINE ids == prune[p].ids
<1>1. /\ prune[p].step = "marked"
      /\ row' = [j \in Jobs |-> IF j \in ids /\ row[j] \in Terminal THEN "pruned" ELSE row[j]]
      /\ \A k \in Keys : cache'[k] \in {cache[k], NoJob}
      /\ prune' = [prune EXCEPT ![p].step = "deleted", ![p].ids = ids]
      /\ UNCHANGED <<order, link, cached, dirs, at, asked, raced>>
  BY DEF Delete, WithoutThem, InHand, askVars
<1>2. /\ ids \subseteq Jobs /\ (LatestRender \in ids => Lost)
      /\ \A j \in Rows \ (raced \cup ids) : link[j] \notin ids
      /\ \A j \in ids : row[j] \in Terminal \cup {"pruned"}
  BY <1>0, <1>1 DEF ShowInv, HandInv, TypeOK
<1>3. /\ prune'[p].step = "deleted" /\ prune'[p].ids = ids
      /\ \A q \in Pruners \ {p} : prune'[q] = prune[q]
  BY <1>0, <1>1 DEF TypeOK
<1> HIDE DEF ids
<1>4. /\ \A j \in ids : row'[j] = "pruned"
      /\ \A j \in Jobs \ ids : row'[j] = row[j]
      /\ \A j \in Jobs : row[j] = "pruned" => row'[j] = "pruned"
      /\ \A j \in Jobs : row[j] \in Unfinished => row'[j] = row[j]
      /\ Rows' = Rows \ ids
  <2>1. \A j \in ids : row'[j] = "pruned"
    BY <1>1, <1>2
  <2>2. \A j \in Jobs \ ids : row'[j] = row[j]
    BY <1>1
  <2>3. \A j \in ids : row[j] \notin Unfinished
    BY <1>2 DEF Terminal, Unfinished
  <2> QED
    BY <2>1, <2>2, <2>3 DEF Rows, Unfinished, Terminal
<1>5. RowInv'
  <2>1. \A k \in Keys : cache'[k] # NoJob => at[cache'[k]] = "done"
    BY <1>1 DEF ShowInv, RowInv
  <2>2. \A j \in Jobs : row'[j] = row[j] \/ (row'[j] = "pruned" /\ row[j] \in Terminal \cup {"pruned"})
    BY <1>2, <1>4
  <2>3. \A j \in Jobs : /\ row[j] = "none" => row'[j] = "none"
                        /\ row'[j] \in Unfinished <=> row[j] \in Unfinished
    BY <2>2 DEF Unfinished, Terminal
  <2> QED
    BY <1>1, <2>1, <2>3 DEF ShowInv, RowInv
<1>6. RunsInv'
  BY <1>1, <1>4 DEF ShowInv, RunsInv, Unfinished
<1>7. SourceInv'
  <2>1. Taking(p)
    BY <1>1 DEF Taking
  <2> QED
    BY <1>1, <2>1 DEF ShowInv, SourceInv
<1>8. LatestRender # NoJob /\ LatestRender \notin ids =>
        LatestRender \in Renders /\ row'[LatestRender] = "succeeded"
  BY <1>4, LatestRenderType DEF Renders
<1>9. /\ LatestRender' = LatestRender \/ Lost
      /\ Lost => Lost'
  <2>1. Renders' \subseteq Renders
    BY <1>1, <1>4 DEF Renders, Home
  <2>2. LatestRender # NoJob /\ LatestRender \notin ids => LatestRender \in Renders'
    BY <1>1, <1>8 DEF Renders, Home
  <2>3. LatestRender \notin ids => LatestRender' = LatestRender
    BY <1>1, <2>1, <2>2, LatestAmong
  <2>4. Lost => Lost'
    BY <1>1 DEF Lost, Home
  <2> QED
    BY <1>2, <2>3, <2>4
<1>10. HandInv'
  <2> SUFFICES ASSUME NEW q \in Pruners
               PROVE  /\ prune'[q].step \in {"idle", "swept"} => prune'[q].ids = {}
                      /\ \A k \in prune'[q].ids : row'[k] \in Terminal \cup {"pruned"}
                      /\ prune'[q].step = "deleted" => \A k \in prune'[q].ids : row'[k] = "pruned"
                      /\ prune'[q].step \in {"linked", "marked"} =>
                           \A k \in Rows' \ (raced \cup prune'[q].seen) : link[k] = NoJob
                      /\ prune'[q].step = "marked" =>
                           /\ LatestRender' \in prune'[q].ids => Lost'
                           /\ \A k \in Rows' \ (raced \cup prune'[q].ids) : link[k] \notin prune'[q].ids
    BY <1>1 DEF HandInv
  <2>1. CASE q = p
    BY <1>2, <1>3, <1>4, <2>1
  <2>2. CASE q # p
    <3>1. \A k \in prune[q].ids : k \in Jobs
      BY <1>0 DEF TypeOK
    <3>2. prune'[q] = prune[q]
      BY <1>3, <2>2
    <3>3. prune[q].step = "marked" => (LatestRender' \in prune[q].ids => Lost')
      BY <1>9 DEF ShowInv, HandInv
    <3> QED
      BY <1>1, <1>4, <3>1, <3>2, <3>3 DEF ShowInv, HandInv
  <2> QED
    BY <2>1, <2>2
<1>11. SweptInv'
  <2> SUFFICES ASSUME NEW j \in dirs, row'[j] = "pruned"
               PROVE  \E q \in Pruners : prune'[q].step = "deleted" /\ j \in prune'[q].ids
    BY <1>1 DEF SweptInv
  <2>1. CASE j \in ids
    BY <1>3, <2>1
  <2>2. CASE j \notin ids
    <3>1. row[j] = "pruned"
      BY <1>0, <1>4, <2>2 DEF TypeOK
    <3>2. PICK q \in Pruners : prune[q].step = "deleted" /\ j \in prune[q].ids
      BY <3>1 DEF ShowInv, SweptInv
    <3> QED
      BY <1>1, <1>3, <3>2
  <2> QED
    BY <2>1, <2>2
<1>12. LinksAreKept'
  <2> SUFFICES ASSUME NEW j \in Rows \ (ids \cup raced), link[j] # NoJob
               PROVE  row'[link[j]] # "pruned"
    BY <1>1, <1>4 DEF LinksAreKept
  <2>1. link[j] \in Jobs \ ids
    BY <1>0, <1>2 DEF TypeOK, Rows
  <2> QED
    BY <1>4, <2>1 DEF ShowInv, LinksAreKept
<1>13. ArtifactsAreKept'
  BY <1>1, <1>4 DEF ShowInv, ArtifactsAreKept, Rows, Home
<1> QED
  BY <1>2, <1>5, <1>6, <1>7, <1>8, <1>10, <1>11, <1>12, <1>13 DEF ShowInv

LEMMA SweepKeepsShown ==
  ASSUME BaseInv, BaseInv', ShowInv, NEW p \in Pruners, Sweep(p)
  PROVE  /\ ShowInv'
         /\ LatestRender # NoJob => row'[LatestRender] # "pruned"
<1>0. TypeOK
  BY DEF BaseInv, TypeInv
<1> DEFINE ids == prune[p].ids
<1>1. /\ prune[p].step = "deleted"
      /\ dirs' = dirs \ ids
      /\ prune' = [prune EXCEPT ![p].step = "swept", ![p].ids = {}]
      /\ UNCHANGED <<row, order, link, cached, cache, at, asked, raced>>
  BY DEF Sweep, InHand, askVars, rowVars
<1>2. \A j \in ids : row[j] = "pruned"
  BY <1>1 DEF ShowInv, HandInv
<1>3. /\ prune'[p].step = "swept" /\ prune'[p].ids = {}
      /\ \A q \in Pruners \ {p} : prune'[q] = prune[q]
  BY <1>0, <1>1 DEF TypeOK
<1> HIDE DEF ids
<1>4. Rows' = Rows /\ \A j \in Rows : j \notin ids /\ (link[j] \in ids => j \in raced)
  BY <1>0, <1>1, <1>2, JobsAssumption DEF ShowInv, LinksAreKept, Rows, Unfinished, Terminal, TypeOK, ids
<1>5. \A j \in Rows \ (cached \cap raced) : Home(j)' = Home(j) /\ (Home(j) \in dirs' <=> Home(j) \in dirs)
  BY <1>1, <1>4 DEF Home
<1>6. RowInv'
  <2>1. \A j \in Jobs : at[j] \in Going => j \in dirs'
    BY <1>1, <1>4 DEF ShowInv, RowInv, Rows
  <2> QED
    BY <1>1, <2>1 DEF ShowInv, RowInv
<1>7. RunsInv' /\ SourceInv' /\ LinksAreKept'
  <2>1. Taking(p)
    BY <1>1 DEF Taking
  <2>2. SourceInv'
    BY <1>1, <2>1 DEF ShowInv, SourceInv
  <2> QED
    BY <1>1, <1>4, <2>2 DEF ShowInv, RunsInv, LinksAreKept
<1>8. ArtifactsAreKept'
  BY <1>1, <1>4, <1>5 DEF ShowInv, ArtifactsAreKept
<1>9. Lost => Lost'
  BY <1>1 DEF Lost, Home
<1>10. LatestRender' = LatestRender \/ Lost'
  <2> SUFFICES ASSUME ~ Lost' PROVE LatestRender' = LatestRender
    OBVIOUS
  <2>1. \A j \in cached \cap raced : Home(j) \in dirs'
    BY <1>1 DEF Lost, Home
  <2>2. \A j \in Rows : Home(j)' = Home(j) /\ (Home(j) \in dirs' <=> Home(j) \in dirs)
    BY <1>1, <1>5, <2>1 DEF Home
  <2>3. Renders' = Renders
    BY <1>1, <2>2 DEF Renders, Rows, Terminal
  <2>4. LatestRender # NoJob => LatestRender \in Renders
    BY LatestRenderType DEF Renders
  <2> QED
    BY <1>1, <2>3, <2>4, LatestAmong
<1>11. HandInv'
  <2> SUFFICES ASSUME NEW q \in Pruners
               PROVE  /\ prune'[q].step \in {"idle", "swept"} => prune'[q].ids = {}
                      /\ \A k \in prune'[q].ids : row[k] \in Terminal \cup {"pruned"}
                      /\ prune'[q].step = "deleted" => \A k \in prune'[q].ids : row[k] = "pruned"
                      /\ prune'[q].step \in {"linked", "marked"} =>
                           \A k \in Rows \ (raced \cup prune'[q].seen) : link[k] = NoJob
                      /\ prune'[q].step = "marked" =>
                           /\ LatestRender' \in prune'[q].ids => Lost'
                           /\ \A k \in Rows \ (raced \cup prune'[q].ids) : link[k] \notin prune'[q].ids
    BY <1>1, <1>4 DEF HandInv
  <2>1. CASE q = p
    BY <1>3, <2>1
  <2>2. CASE q # p
    <3>1. prune'[q] = prune[q]
      BY <1>3, <2>2
    <3>2. prune[q].step = "marked" => (LatestRender' \in prune[q].ids => Lost')
      BY <1>9, <1>10 DEF ShowInv, HandInv
    <3> QED
      BY <3>1, <3>2 DEF ShowInv, HandInv
  <2> QED
    BY <2>1, <2>2
<1>12. SweptInv'
  <2> SUFFICES ASSUME NEW j \in dirs \ ids, row[j] = "pruned"
               PROVE  \E q \in Pruners : prune'[q].step = "deleted" /\ j \in prune'[q].ids
    BY <1>1 DEF SweptInv
  <2>1. PICK q \in Pruners : prune[q].step = "deleted" /\ j \in prune[q].ids
    BY DEF ShowInv, SweptInv
  <2>2. q # p
    BY <2>1 DEF ids
  <2> QED
    BY <1>3, <2>1, <2>2
<1>13. LatestRender # NoJob => row'[LatestRender] # "pruned"
  BY <1>1, LatestRenderType
<1> QED
  BY <1>6, <1>7, <1>8, <1>11, <1>12, <1>13 DEF ShowInv

LEMMA SweepCacheKeepsShown ==
  ASSUME BaseInv, ShowInv, NEW p \in Pruners, SweepCache(p)
  PROVE  /\ ShowInv'
         /\ LatestRender # NoJob => row'[LatestRender] # "pruned"
<1>0. TypeOK
  BY DEF BaseInv, TypeInv
<1>1. /\ prune[p].step = "swept"
      /\ UNCHANGED <<row, order, link, cached, dirs, at, asked, raced>>
      /\ \A k \in Keys : cache'[k] \in {cache[k], NoJob}
      /\ prune' = [prune EXCEPT ![p] = [step |-> "idle", ids |-> {}, seen |-> {}]]
  BY DEF SweepCache, askVars, rowVars
<1>2. /\ prune'[p].step = "idle" /\ prune'[p].ids = {}
      /\ \A q \in Pruners \ {p} : prune'[q] = prune[q]
  BY <1>0, <1>1 DEF TypeOK
<1>3. \A q \in Pruners : Taking(q)' => Taking(q)
  BY <1>2 DEF Taking
<1>4. /\ RowInv' /\ RunsInv' /\ SourceInv' /\ LinksAreKept' /\ ArtifactsAreKept'
      /\ LatestRender' = LatestRender /\ Rows' = Rows /\ (Lost' <=> Lost)
      /\ LatestRender # NoJob => row'[LatestRender] # "pruned"
  BY <1>1, <1>3, SameShown
<1>5. HandInv'
  BY <1>1, <1>2, <1>4 DEF ShowInv, HandInv
<1>6. SweptInv'
  BY <1>1, <1>2 DEF ShowInv, SweptInv
<1> QED
  BY <1>4, <1>5, <1>6 DEF ShowInv

LEMMA NextKeepsShown ==
  ASSUME BaseInv, BaseInv', ShowInv, [Next]_vars
  PROVE  /\ ShowInv'
         /\ LatestRender # NoJob /\ ~ Lost => row'[LatestRender] # "pruned"
<1>1. CASE Edit \/ Upgrade \/ Warm \/ (\E j \in Jobs : Cancel(j)) \/ UNCHANGED vars
  <2>1. UNCHANGED <<row, order, link, cached, dirs, at, asked, raced, cache, prune>>
    BY <1>1 DEF Edit, Upgrade, Warm, Cancel, vars, rowVars, askVars
  <2>2. \A p \in Pruners : Taking(p)' => Taking(p)
    BY <2>1 DEF Taking
  <2>3. /\ RowInv' /\ RunsInv' /\ SourceInv' /\ LinksAreKept' /\ ArtifactsAreKept'
        /\ LatestRender' = LatestRender /\ Rows' = Rows /\ (Lost' <=> Lost)
        /\ LatestRender # NoJob => row'[LatestRender] # "pruned"
    BY <2>1, <2>2, SameShown
  <2>4. HandInv' /\ SweptInv'
    BY <2>1, <2>3 DEF ShowInv, HandInv, SweptInv
  <2> QED
    BY <2>3, <2>4 DEF ShowInv
<1>2. CASE \E p \in Pruners : Pruning(p)
  BY <1>2, ListKeepsShown, ReadLinksKeepsShown, MarkKeepsShown, DeleteKeepsShown,
     SweepKeepsShown, SweepCacheKeepsShown DEF Pruning
<1> QED
  BY <1>1, <1>2, SubmissionKeepsShown, RunKeepsShown DEF Next

(* No step of any number of pruning engines, whatever is submitted and run
   meanwhile, leaves a link or a succeeded render without what it shows, unless
   its job chose it while a prune had read the links (prune.rs, prune_jobs).
   Nor does one delete the newest render a scene can show while no such answer
   has lost its artifacts. *)
THEOREM PruneTakesNothingShown == Spec => PruningKeepsWhatIsShown
<1> DEFINE Inv == BaseInv /\ ShowInv
<1>1. Init => Inv
  <2>1. Init => BaseInv
    BY InitTypeInv DEF Init, BaseInv, Listed
  <2>2. Init => RowInv /\ RunsInv /\ SourceInv /\ HandInv /\ SweptInv
    BY DEF Init, RowInv, RunsInv, SourceInv, HandInv, SweptInv, Unfinished, Going, Asking
  <2>3. Init => LinksAreKept /\ ArtifactsAreKept
    BY DEF Init, LinksAreKept, ArtifactsAreKept, Rows
  <2> QED
    BY <2>1, <2>2, <2>3 DEF ShowInv
<1>2. Inv /\ [Next]_vars => Inv'
  BY NextBase, NextKeepsShown
<1>3. Inv /\ [Next]_vars =>
        [/\ LinksAreKept' /\ ArtifactsAreKept'
         /\ LatestRender # NoJob /\ (\A j \in cached \cap raced : Home(j) \in dirs) =>
              row'[LatestRender] # "pruned"]_vars
  BY NextBase, NextKeepsShown DEF ShowInv, Lost
<1> QED
  BY <1>1, <1>2, <1>3, PTL DEF Spec, PruningKeepsWhatIsShown

-----------------------------------------------------------------------------
(* Leases *)

\* The most that passes between two ticks, and between t of them.
Gap == 1 + Late
Slots(t) == t * Gap

\* What the hold-back is long enough for: a tick, and a whole upkeep of every engine.
Ticking  == Gap <= Freeze
Prompt   == Quiet /\ 2 * Gap < Freeze

\* The most that an awake engine's heartbeat has aged since its last upkeep.
Wait(e) == IF work[e] = "none" THEN since[e] ELSE Gap + since[e]

\* Why f does not take e for dead although e has not renewed its lease since the
\* machine slept: it slept for less than f notices, f has yet to see that it slept,
\* or f holds back.
Spared(e, f) ==
  \/ beat[e] <= Freeze + Wait(e)
  \/ work[f] = "none" /\ last[f] > Freeze
  \/ woke[f] # None /\ woke[f] <= Wait(e) /\ work[f] # "reap"

AliveInv ==
  /\ \A e \in lost : state[e] = "dead"
  /\ \A e \in Up : beat[e] # None
  /\ \A e \in Up \cap rested : beat[e] <= Wait(e)
  /\ \A e \in Up \ rested : \A f \in Up : Spared(e, f)

\* How far f is from the reap that fails the jobs of a dead engine, by how long
\* that is overdue.
Nearing(o, f) ==
  /\ last[f] > since[f] => o <= since[f]
  /\ work[f] = "reap" => o <= Freeze + Slots(ReapEvery + 1) + since[f]
  /\ work[f] # "reap" /\ woke[f] # None /\ woke[f] < Freeze => o <= woke[f] + Gap
  /\ work[f] # "reap" /\ (woke[f] = None \/ woke[f] >= Freeze) =>
       o <= Freeze + Slots(ticks[f] + 1) + since[f]

NoticeInv ==
  \A e \in Engines \ lost :
    /\ ~Unnoticed(e) => overdue[e] = 0
    /\ \A f \in Up : Nearing(overdue[e], f)

-----------------------------------------------------------------------------
(* Numbers *)

(* What the constants come to. *)
LEMMA Spans ==
  /\ Freeze \in Nat /\ 2 * Freeze <= Stale /\ Oldest = Stale + 1 /\ Gap \in Nat /\ Gap > 0
  /\ Deadline = Freeze + Slots(ReapEvery + 2) + 1
PROOF
  BY LeaseAssumption DEF Freeze, Oldest, Gap, Deadline, Slots

(* A slot for each tick. *)
LEMMA SlotsAdd ==
  /\ \A t \in Nat : Slots(t) \in Nat /\ Slots(t + 1) = Slots(t) + Gap
  /\ \A s, t \in Nat : s <= t => Slots(s) <= Slots(t)
PROOF
  <1>1. \A t, g \in Nat : t * g \in Nat /\ (t + 1) * g = t * g + g
    OBVIOUS
  <1>2. \A s, t, g \in Nat : s <= t => s * g <= t * g
    <2> SUFFICES ASSUME NEW s \in Nat, NEW t \in Nat, NEW g \in Nat, s <= t
                 PROVE  s * g <= t * g
      OBVIOUS
    <2>1. t - s \in Nat /\ t = s + (t - s)
      OBVIOUS
    <2>2. (t - s) * g \in Nat
      BY <2>1
    <2>3. t * g = s * g + (t - s) * g
      OBVIOUS
    <2> QED
      BY <2>2, <2>3
  <1> QED
    BY <1>1, <1>2, Spans DEF Slots

LEMMA DeadlineIsASpan == Deadline \in Nat
PROOF
  <1>1. ReapEvery + 2 \in Nat
    BY LeaseAssumption
  <1>2. Slots(ReapEvery + 2) \in Nat
    BY <1>1, SlotsAdd
  <1> QED
    BY <1>2, Spans

-----------------------------------------------------------------------------
(* What time and a renewal do *)

(* Ages grow with the wall clock, up to where no comparison looks. *)
LEMMA TimePasses ==
  ASSUME LeaseTypeOK, NEW d \in Nat, WallTime(d)
  PROVE  /\ beat' \in [Engines -> {None} \cup 0..Oldest]
         /\ last' \in [Engines -> 0..(Freeze + 1)]
         /\ woke' \in [Engines -> {None} \cup 0..Freeze]
         /\ \A e \in Engines :
              /\ beat'[e] = None <=> beat[e] = None
              /\ beat[e] # None => beat'[e] <= beat[e] + d
              /\ beat[e] # None /\ beat[e] > Stale => beat'[e] > Stale
         /\ \A e \in Up :
              /\ last'[e] <= last[e] + d
              /\ last[e] + d > Freeze => last'[e] > Freeze
              /\ woke'[e] = None <=> woke[e] = None
              /\ woke[e] # None => /\ woke'[e] <= woke[e] + d
                                   /\ woke'[e] < Freeze => woke'[e] = woke[e] + d
                                   /\ woke'[e] = Freeze => woke[e] + d >= Freeze
PROOF
  <1>0. /\ Stale \in Nat /\ Freeze \in Nat /\ Freeze + 1 \in Nat
        /\ Oldest = Stale + 1 /\ Oldest \in Nat
    BY Spans, LeaseAssumption
  <1>1. /\ beat' = [e \in Engines |-> Older(beat[e], d, Oldest)]
        /\ last' = [e \in Engines |-> IF e \in Up THEN Capped(last[e] + d, Freeze + 1) ELSE last[e]]
        /\ woke' = [e \in Engines |-> IF e \in Up THEN Older(woke[e], d, Freeze) ELSE woke[e]]
    BY DEF WallTime
  <1>2. /\ \A e \in Engines : beat[e] \in {None} \cup 0..Oldest
        /\ \A e \in Engines : last[e] \in 0..(Freeze + 1)
        /\ \A e \in Engines : woke[e] \in {None} \cup 0..Freeze
        /\ Up \subseteq Engines
    BY DEF LeaseTypeOK, Up
  <1>3. ASSUME NEW e \in Engines
        PROVE  /\ beat'[e] \in {None} \cup 0..Oldest
               /\ beat'[e] = None <=> beat[e] = None
               /\ beat[e] # None => beat'[e] <= beat[e] + d
               /\ beat[e] # None /\ beat[e] > Stale => beat'[e] > Stale
    <2>1. beat'[e] = Older(beat[e], d, Oldest)
      BY <1>1
    <2>2. beat[e] \in {None} \cup 0..Oldest
      BY <1>2
    <2>3. beat'[e] \in {None} \cup 0..Oldest
      BY <1>0, <2>1, <2>2 DEF Older, Capped, None
    <2>4. beat'[e] = None <=> beat[e] = None
      BY <1>0, <2>1, <2>2 DEF Older, Capped, None
    <2>5. ASSUME beat[e] # None
          PROVE  /\ beat'[e] <= beat[e] + d
                 /\ beat[e] + d <= Oldest => beat'[e] = beat[e] + d
                 /\ beat[e] + d > Oldest => beat'[e] = Oldest
      BY <1>0, <2>1, <2>2, <2>5 DEF Older, Capped, None
    <2>6. ASSUME beat[e] # None, beat[e] > Stale PROVE beat'[e] > Stale
      BY <1>0, <2>2, <2>5, <2>6
    <2> QED
      BY <2>3, <2>4, <2>5, <2>6
  <1>4. ASSUME NEW e \in Up
        PROVE  /\ last'[e] \in 0..(Freeze + 1) /\ last'[e] <= last[e] + d
               /\ last[e] + d > Freeze => last'[e] > Freeze
    <2>1. last'[e] = Capped(last[e] + d, Freeze + 1) /\ last[e] \in Nat
      BY <1>1, <1>2, <1>0
    <2>2. /\ last'[e] \in 0..(Freeze + 1) /\ last'[e] <= last[e] + d
          /\ last[e] + d <= Freeze + 1 => last'[e] = last[e] + d
          /\ last[e] + d > Freeze + 1 => last'[e] = Freeze + 1
      BY <1>0, <2>1 DEF Capped
    <2> QED
      BY <1>0, <2>1, <2>2
  <1>5. ASSUME NEW e \in Up
        PROVE  /\ woke'[e] \in {None} \cup 0..Freeze
               /\ woke'[e] = None <=> woke[e] = None
               /\ woke[e] # None => /\ woke'[e] <= woke[e] + d
                                    /\ woke'[e] < Freeze => woke'[e] = woke[e] + d
                                    /\ woke'[e] = Freeze => woke[e] + d >= Freeze
    <2>1. woke'[e] = Older(woke[e], d, Freeze) /\ woke[e] \in {None} \cup 0..Freeze
      BY <1>1, <1>2
    <2>2. woke'[e] \in {None} \cup 0..Freeze /\ (woke'[e] = None <=> woke[e] = None)
      BY <1>0, <2>1 DEF Older, Capped, None
    <2>3. ASSUME woke[e] # None
          PROVE  /\ woke'[e] <= woke[e] + d
                 /\ woke[e] + d <= Freeze => woke'[e] = woke[e] + d
                 /\ woke[e] + d > Freeze => woke'[e] = Freeze
      BY <1>0, <2>1, <2>3 DEF Older, Capped, None
    <2>4. ASSUME woke[e] # None
          PROVE  /\ woke'[e] < Freeze => woke'[e] = woke[e] + d
                 /\ woke'[e] = Freeze => woke[e] + d >= Freeze
      BY <1>0, <2>1, <2>3, <2>4 DEF None
    <2> QED
      BY <2>2, <2>3, <2>4
  <1>6. \A e \in Engines \ Up : last'[e] = last[e] /\ woke'[e] = woke[e]
    BY <1>1
  <1>7. beat' \in [Engines -> {None} \cup 0..Oldest]
    BY <1>1, <1>3
  <1>8. last' \in [Engines -> 0..(Freeze + 1)]
    BY <1>1, <1>2, <1>4, <1>6
  <1>9. woke' \in [Engines -> {None} \cup 0..Freeze]
    BY <1>1, <1>2, <1>5, <1>6
  <1> QED
    BY <1>3, <1>4, <1>5, <1>7, <1>8, <1>9

(* A renewal leaves every other lease as stale as it was, and takes away those
   that were, with the jobs. *)
LEMMA Renewal ==
  ASSUME LeaseTypeOK, NEW e \in Engines, NEW reap \in BOOLEAN, RenewLease(e, reap)
  PROVE  /\ beat' \in [Engines -> {None} \cup 0..Oldest] /\ lost' \subseteq Engines
         /\ lost \subseteq lost' /\ beat'[e] = 0
         /\ \A f \in Engines \ {e} :
              /\ StaleNow(f)' <=> StaleNow(f)
              /\ ~StaleNow(f) => beat'[f] = beat[f]
              /\ ~reap => beat'[f] = beat[f]
              /\ f \in lost' <=> f \in lost \/ (reap /\ state[f] # "off" /\ StaleNow(f))
         /\ e \in lost' <=> e \in lost
PROOF
  <1>0. Stale \in Nat /\ Oldest = Stale + 1
    BY Spans, LeaseAssumption
  <1>1. beat \in [Engines -> {None} \cup 0..Oldest] /\ lost \subseteq Engines
    BY DEF LeaseTypeOK
  <1>2. CASE reap
    <2>1. beat' = [f \in Engines |-> IF f = e THEN 0 ELSE IF beat[f] > Stale THEN None ELSE beat[f]]
      BY <1>2 DEF RenewLease
    <2>2. lost' = lost \cup {f \in Engines \ {e} : state[f] # "off" /\ StaleNow(f)}
      BY <1>2 DEF RenewLease
    <2>3. beat' \in [Engines -> {None} \cup 0..Oldest]
      BY <1>0, <1>1, <2>1
    <2>4. ASSUME NEW f \in Engines \ {e}
          PROVE  (StaleNow(f)' <=> StaleNow(f)) /\ (~StaleNow(f) => beat'[f] = beat[f])
      <3>1. beat'[f] = IF beat[f] > Stale THEN None ELSE beat[f]
        BY <2>1
      <3>2. beat[f] \in {None} \cup 0..Oldest
        BY <1>1
      <3> QED
        BY <1>0, <3>1, <3>2 DEF StaleNow, None
    <2>5. beat'[e] = 0
      BY <2>1
    <2>6. ASSUME NEW f \in Engines \ {e}
          PROVE  f \in lost' <=> f \in lost \/ (reap /\ state[f] # "off" /\ StaleNow(f))
      BY <1>2, <2>2
    <2> QED
      BY <1>1, <1>2, <2>2, <2>3, <2>4, <2>5, <2>6
  <1>3. CASE ~reap
    <2>1. beat' = [beat EXCEPT ![e] = 0] /\ lost' = lost
      BY <1>3 DEF RenewLease
    <2>2. beat' \in [Engines -> {None} \cup 0..Oldest]
      BY <1>0, <1>1, <2>1
    <2>3. \A f \in Engines \ {e} : beat'[f] = beat[f]
      BY <1>1, <2>1
    <2>4. \A f \in Engines \ {e} : StaleNow(f)' <=> StaleNow(f)
      BY <2>3 DEF StaleNow
    <2>5. beat'[e] = 0
      BY <1>1, <2>1
    <2> QED
      BY <1>1, <1>3, <2>1, <2>2, <2>3, <2>4, <2>5
  <1> QED
    BY <1>2, <1>3

-----------------------------------------------------------------------------
(* Types *)

(* Every step keeps the types. *)
LEMMA LeaseTypeStep == LeaseTypeOK /\ [LeaseNext]_leaseVars => LeaseTypeOK'
PROOF
  <1> SUFFICES ASSUME LeaseTypeOK, [LeaseNext]_leaseVars PROVE LeaseTypeOK'
    OBVIOUS
  <1>0. /\ Stale \in Nat /\ Freeze \in Nat /\ Oldest = Stale + 1 /\ Late \in Nat
        /\ ReapEvery \in Nat \ {0} /\ Deadline \in Nat
    BY Spans, DeadlineIsASpan, LeaseAssumption
  <1>1. CASE UNCHANGED leaseVars
    BY <1>1 DEF LeaseTypeOK, leaseVars
  <1>2. CASE Pass
    <2>1. /\ beat' \in [Engines -> {None} \cup 0..Oldest]
          /\ last' \in [Engines -> 0..(Freeze + 1)]
          /\ woke' \in [Engines -> {None} \cup 0..Freeze]
      BY <1>2, TimePasses DEF Pass
    <2>2. since' \in [Engines -> 0..(1 + Late)]
      <3>1. since' = [e \in Engines |-> IF e \in Up THEN since[e] + 1 ELSE since[e]]
        BY <1>2 DEF Pass
      <3>2. \A e \in Engines : since[e] \in 0..(1 + Late) /\ (e \in Up => since[e] <= Late)
        BY <1>2 DEF Pass, LeaseTypeOK
      <3> QED
        BY <1>0, <3>1, <3>2
    <2>3. overdue' \in [Engines -> 0..Deadline]
      <3>1. overdue' = [e \in Engines |->
                          IF Unnoticed(e) THEN Capped(overdue[e] + 1, Deadline) ELSE 0]
        BY <1>2 DEF Pass
      <3>2. \A e \in Engines : overdue[e] \in Nat
        BY <1>0 DEF LeaseTypeOK
      <3>3. \A e \in Engines : Capped(overdue[e] + 1, Deadline) \in 0..Deadline
        BY <1>0, <3>2 DEF Capped
      <3> QED
        BY <1>0, <3>1, <3>3
    <2>4. UNCHANGED <<state, ticks, work, lost, rested>>
      BY <1>2 DEF Pass
    <2> QED
      BY <2>1, <2>2, <2>3, <2>4 DEF LeaseTypeOK
  <1>3. ASSUME NEW e \in Engines, Start(e) PROVE LeaseTypeOK'
    <2>1. beat' \in [Engines -> {None} \cup 0..Oldest] /\ lost' \subseteq Engines
      BY <1>3, Renewal DEF Start
    <2>2. /\ state' \in [Engines -> {"off", "up", "dead"}] /\ rested' \subseteq Engines
          /\ since' \in [Engines -> 0..(1 + Late)] /\ last' \in [Engines -> 0..(Freeze + 1)]
      BY <1>0, <1>3 DEF Start, LeaseTypeOK
    <2>3. UNCHANGED <<woke, ticks, work, overdue>>
      BY <1>3 DEF Start
    <2> QED
      BY <2>1, <2>2, <2>3 DEF LeaseTypeOK
  <1>4. ASSUME NEW e \in Engines, Die(e) PROVE LeaseTypeOK'
    BY <1>4 DEF Die, LeaseTypeOK
  <1>5. ASSUME NEW e \in Engines, Tick(e) PROVE LeaseTypeOK'
    <2>1. woke' \in [Engines -> {None} \cup 0..Freeze]
      BY <1>0, <1>5 DEF Tick, WokeAt, LeaseTypeOK
    <2>2. since' \in [Engines -> 0..(1 + Late)] /\ last' \in [Engines -> 0..(Freeze + 1)]
      BY <1>0, <1>5 DEF Tick, LeaseTypeOK
    <2>3. ticks' \in [Engines -> 0..(ReapEvery - 1)]
      <3>1. ticks' = [ticks EXCEPT ![e] = (ticks[e] + 1) % ReapEvery]
        BY <1>5 DEF Tick
      <3>2. ticks[e] \in Nat /\ ticks \in [Engines -> 0..(ReapEvery - 1)]
        BY <1>0 DEF LeaseTypeOK
      <3>3. (ticks[e] + 1) % ReapEvery \in 0..(ReapEvery - 1)
        BY <1>0, <3>2
      <3> QED
        BY <3>1, <3>2, <3>3
    <2>4. work' \in [Engines -> {"none", "renew", "reap"}]
      BY <1>5 DEF Tick, LeaseTypeOK
    <2>5. UNCHANGED <<state, beat, lost, rested, overdue>>
      BY <1>5 DEF Tick
    <2> QED
      BY <2>1, <2>2, <2>3, <2>4, <2>5 DEF LeaseTypeOK
  <1>6. ASSUME NEW e \in Engines, Upkeep(e) PROVE LeaseTypeOK'
    <2>1. beat' \in [Engines -> {None} \cup 0..Oldest] /\ lost' \subseteq Engines
      BY <1>6, Renewal DEF Upkeep
    <2>2. work' \in [Engines -> {"none", "renew", "reap"}] /\ rested' \subseteq Engines
      BY <1>6 DEF Upkeep, LeaseTypeOK
    <2>3. UNCHANGED <<state, since, last, woke, ticks, overdue>>
      BY <1>6 DEF Upkeep
    <2> QED
      BY <2>1, <2>2, <2>3 DEF LeaseTypeOK
  <1>7. ASSUME NEW d \in Suspends, Suspend(d) PROVE LeaseTypeOK'
    <2>1. /\ beat' \in [Engines -> {None} \cup 0..Oldest]
          /\ last' \in [Engines -> 0..(Freeze + 1)]
          /\ woke' \in [Engines -> {None} \cup 0..Freeze]
      BY <1>7, TimePasses, LeaseAssumption DEF Suspend
    <2>2. rested' \subseteq Engines /\ overdue' \in [Engines -> 0..Deadline]
      BY <1>0, <1>7 DEF Suspend
    <2>3. UNCHANGED <<state, since, ticks, work, lost>>
      BY <1>7 DEF Suspend
    <2> QED
      BY <2>1, <2>2, <2>3 DEF LeaseTypeOK
  <1> QED
    BY <1>1, <1>2, <1>3, <1>4, <1>5, <1>6, <1>7 DEF LeaseNext

LEMMA LeaseTypeInit == LeaseInit => LeaseTypeOK
PROOF
  <1>1. /\ Stale \in Nat /\ Freeze \in Nat /\ Oldest = Stale + 1 /\ Late \in Nat
        /\ ReapEvery \in Nat \ {0} /\ Deadline \in Nat
    BY Spans, DeadlineIsASpan, LeaseAssumption
  <1> QED
    BY <1>1 DEF LeaseInit, LeaseTypeOK

(* The types of the leases, for any engines and any spans (Leases). *)
THEOREM LeasesTypeCorrect == LeaseSpec => []LeaseTypeOK
PROOF
  BY LeaseTypeInit, LeaseTypeStep, PTL DEF LeaseSpec

-----------------------------------------------------------------------------
(* Whoever is up keeps its jobs *)

LEMMA AliveInit == LeaseInit => AliveInv
PROOF
  <1> SUFFICES ASSUME LeaseInit PROVE AliveInv
    OBVIOUS
  <1>1. lost = {} /\ rested = Engines /\ Up \subseteq Engines
    BY DEF LeaseInit, Up
  <1>2. ASSUME NEW e \in Up PROVE beat[e] = 0 /\ Wait(e) = 0 /\ beat[e] # None
    <2>1. e \in Engines /\ state[e] = "up"
      BY <1>2 DEF Up
    <2>2. e \notin StartLate
      BY <2>1 DEF LeaseInit
    <2> QED
      BY <2>1, <2>2 DEF LeaseInit, Wait, None
  <1> QED
    BY <1>1, <1>2 DEF AliveInv

(* The ages of a reaper's own and of other engines' heartbeats. *)
LEMMA Ages ==
  ASSUME LeaseTypeOK
  PROVE  /\ Up \subseteq Engines
         /\ \A e \in Engines :
              /\ beat[e] \in Int /\ since[e] \in 0..Gap /\ last[e] \in Nat
              /\ woke[e] \in {None} \cup 0..Freeze
              /\ work[e] = "none" => Wait(e) = since[e]
              /\ work[e] # "none" => Wait(e) = Gap + since[e]
              /\ Wait(e) \in Nat /\ Wait(e) >= since[e] /\ Wait(e) <= 2 * Gap
PROOF
  <1>1. Up \subseteq Engines
    BY DEF Up
  <1>2. Gap \in Nat /\ Gap = 1 + Late /\ Freeze \in Nat /\ Oldest \in Nat
    BY Spans, LeaseAssumption DEF Gap
  <1>3. ASSUME NEW e \in Engines
        PROVE  /\ beat[e] \in Int /\ since[e] \in 0..Gap /\ last[e] \in Nat
               /\ woke[e] \in {None} \cup 0..Freeze
    BY <1>2 DEF LeaseTypeOK, None
  <1>4. ASSUME NEW e \in Engines
        PROVE  /\ work[e] = "none" => Wait(e) = since[e]
               /\ work[e] # "none" => Wait(e) = Gap + since[e]
    BY DEF Wait
  <1>5. ASSUME NEW e \in Engines
        PROVE  Wait(e) \in Nat /\ Wait(e) >= since[e] /\ Wait(e) <= 2 * Gap
    BY <1>2, <1>3, <1>4
  <1> QED
    BY <1>1, <1>3, <1>4, <1>5

(* Nobody who has rested looks stale, and nobody who has not to one that reaps. *)
LEMMA NobodyLooksStale ==
  ASSUME LeaseTypeOK, AliveInv, Prompt, NEW e \in Up
  PROVE  /\ e \in rested => ~StaleNow(e)
         /\ \A f \in Up : work[f] = "reap" => ~StaleNow(e)
PROOF
  <1>1. /\ Stale \in Nat /\ Freeze \in Nat /\ 2 * Freeze <= Stale /\ Gap \in Nat
        /\ 2 * Gap < Freeze
    BY Spans, LeaseAssumption DEF Prompt
  <1>2. e \in Engines /\ beat[e] \in Int /\ Wait(e) \in Nat /\ Wait(e) <= 2 * Gap
    BY Ages
  <1>3. beat[e] # None
    BY DEF AliveInv
  <1>4. ASSUME beat[e] <= Freeze + Wait(e) PROVE ~StaleNow(e)
    <2>1. beat[e] <= Stale
      BY <1>1, <1>2, <1>4
    <2> QED
      BY <1>1, <1>2, <1>3, <2>1 DEF StaleNow
  <1>5. ASSUME e \in rested PROVE ~StaleNow(e)
    <2>1. beat[e] <= Wait(e)
      BY <1>5 DEF AliveInv
    <2>2. beat[e] <= Freeze + Wait(e)
      BY <1>1, <1>2, <2>1
    <2> QED
      BY <1>4, <2>2
  <1>6. ASSUME NEW f \in Up, work[f] = "reap" PROVE ~StaleNow(e)
    <2>1. CASE e \in rested
      BY <1>5, <2>1
    <2>2. CASE e \notin rested
      <3>1. Spared(e, f)
        BY <2>2 DEF AliveInv
      <3>2. beat[e] <= Freeze + Wait(e)
        BY <1>6, <3>1 DEF Spared
      <3> QED
        BY <1>4, <3>2
    <2> QED
      BY <2>1, <2>2
  <1> QED
    BY <1>5, <1>6

(* A second passes. *)
LEMMA AlivePass ==
  ASSUME LeaseTypeOK, AliveInv, Pass
  PROVE  AliveInv'
PROOF
  <1>1. UNCHANGED <<state, ticks, work, lost, rested>> /\ Up' = Up /\ Up \subseteq Engines
    BY DEF Pass, Up
  <1>2. /\ \A e \in Engines : (beat'[e] = None <=> beat[e] = None)
                              /\ (beat[e] # None => beat'[e] <= beat[e] + 1)
        /\ \A e \in Up : /\ last[e] + 1 > Freeze => last'[e] > Freeze
                         /\ woke'[e] = None <=> woke[e] = None
                         /\ woke[e] # None => woke'[e] <= woke[e] + 1
        /\ \A e \in Engines : beat'[e] \in Int
        /\ \A e \in Up : woke'[e] \in Int
    <2>1. WallTime(1)
      BY DEF Pass
    <2>2. Freeze \in Nat /\ Oldest \in Nat
      BY Spans, LeaseAssumption
    <2> HIDE DEF Freeze, Oldest
    <2>3. /\ \A e \in Engines : (beat'[e] = None <=> beat[e] = None)
                              /\ (beat[e] # None => beat'[e] <= beat[e] + 1)
          /\ \A e \in Up : /\ last[e] + 1 > Freeze => last'[e] > Freeze
                           /\ woke'[e] = None <=> woke[e] = None
                           /\ woke[e] # None => woke'[e] <= woke[e] + 1
      BY <2>1, TimePasses
    <2>4. /\ beat' \in [Engines -> {None} \cup 0..Oldest]
          /\ woke' \in [Engines -> {None} \cup 0..Freeze]
      BY <2>1, TimePasses
    <2>5. \A e \in Engines : beat'[e] \in Int
      BY <2>2, <2>4 DEF None
    <2>6. \A e \in Up : woke'[e] \in Int
      BY <1>1, <2>2, <2>4 DEF None
    <2> QED
      BY <2>3, <2>5, <2>6
  <1>3. \A e \in Up : since'[e] = since[e] + 1
    BY <1>1 DEF Pass
  <1>4. Gap \in Nat /\ Freeze \in Nat
    BY Spans
  <1>5. \A e \in Up : Wait(e)' = Wait(e) + 1
    <2> SUFFICES ASSUME NEW e \in Up PROVE Wait(e)' = Wait(e) + 1
      OBVIOUS
    <2>1. since'[e] = since[e] + 1 /\ work'[e] = work[e] /\ since[e] \in Nat
      BY <1>1, <1>3, Ages
    <2> QED
      BY <1>4, <2>1 DEF Wait, Gap
  <1>6. \A e \in Up : beat[e] \in Int /\ Wait(e) \in Nat /\ last[e] \in Nat
                     /\ woke[e] \in {None} \cup 0..Freeze
    BY Ages
  <1>7. ASSUME NEW e \in Up PROVE beat'[e] # None /\ beat'[e] <= beat[e] + 1
    BY <1>1, <1>2, <1>7 DEF AliveInv
  <1>8. ASSUME NEW e \in Up \cap rested PROVE beat'[e] <= Wait(e)'
    <2>1. beat[e] <= Wait(e)
      BY DEF AliveInv
    <2> QED
      BY <1>1, <1>2, <1>5, <1>6, <1>7, <2>1
  <1>9. ASSUME NEW e \in Up \ rested, NEW f \in Up PROVE Spared(e, f)'
    <2>0. Spared(e, f)
      BY DEF AliveInv
    <2>1. CASE beat[e] <= Freeze + Wait(e)
      <3>1. beat'[e] <= Freeze + Wait(e)'
        BY <1>1, <1>2, <1>4, <1>5, <1>6, <1>7, <2>1
      <3> QED
        BY <3>1 DEF Spared, Freeze
    <2>2. CASE work[f] = "none" /\ last[f] > Freeze
      <3>1. work'[f] = "none" /\ last'[f] > Freeze
        BY <1>1, <1>2, <1>4, <1>6, <2>2
      <3> QED
        BY <3>1 DEF Spared, Freeze
    <2>3. CASE woke[f] # None /\ woke[f] <= Wait(e) /\ work[f] # "reap"
      <3>1. woke'[f] # None /\ work'[f] # "reap"
        BY <1>1, <1>2, <2>3
      <3>2. woke'[f] <= woke[f] + 1 /\ woke'[f] \in Int /\ woke[f] \in Int
        BY <1>2, <1>6, <2>3 DEF None
      <3>3. woke'[f] <= Wait(e)'
        BY <1>5, <1>6, <2>3, <3>2
      <3> QED
        BY <3>1, <3>3 DEF Spared
    <2> QED
      BY <2>0, <2>1, <2>2, <2>3 DEF Spared
  <1> QED
    BY <1>1, <1>7, <1>8, <1>9 DEF AliveInv

(* An engine starts, once everybody has rested. *)
LEMMA AliveStart ==
  ASSUME LeaseTypeOK, AliveInv, Prompt, NEW g \in Engines, Start(g)
  PROVE  AliveInv'
PROOF
  <1>1. /\ state[g] = "off" /\ Up \subseteq rested /\ state' = [state EXCEPT ![g] = "up"]
        /\ rested' = rested \cup {g} /\ since' = [since EXCEPT ![g] = 0] /\ work' = work
    BY DEF Start, Prompt
  <1>2. Up' = Up \cup {g} /\ Up \subseteq Engines /\ g \notin Up
    BY <1>1 DEF Up, LeaseTypeOK
  <1>3. /\ beat'[g] = 0 /\ (g \in lost' <=> g \in lost)
        /\ \A f \in Engines \ {g} :
             /\ ~StaleNow(f) => beat'[f] = beat[f]
             /\ f \in lost' => f \in lost \/ (state[f] # "off" /\ StaleNow(f))
        /\ lost' \subseteq Engines
    BY Renewal DEF Start
  <1>4. \A e \in Up : ~StaleNow(e)
    BY <1>1, NobodyLooksStale
  <1>5. \A e \in Up : beat'[e] = beat[e] /\ Wait(e)' = Wait(e)
    <2>1. \A e \in Up : e # g /\ since'[e] = since[e] /\ work'[e] = work[e]
      BY <1>1, <1>2 DEF LeaseTypeOK
    <2> QED
      BY <1>2, <1>3, <1>4, <2>1 DEF Wait
  <1>6. ASSUME NEW e \in lost' PROVE state'[e] = "dead"
    <2>1. CASE e = g
      BY <1>1, <1>3, <1>6, <2>1 DEF AliveInv
    <2>2. CASE e # g
      <3>1. state'[e] = state[e]
        BY <1>1, <1>3, <1>6, <2>2 DEF LeaseTypeOK
      <3>2. CASE e \in lost
        BY <3>1, <3>2 DEF AliveInv
      <3>3. CASE e \notin lost
        <4>1. state[e] # "off" /\ StaleNow(e) /\ e \in Engines
          BY <1>3, <1>6, <2>2, <3>3
        <4>2. state[e] # "up"
          BY <1>4, <4>1 DEF Up
        <4> QED
          BY <3>1, <4>1, <4>2 DEF LeaseTypeOK
      <3> QED
        BY <3>2, <3>3
    <2> QED
      BY <2>1, <2>2
  <1>7. beat'[g] # None /\ beat'[g] <= Wait(g)'
    <2>1. since'[g] = 0 /\ Gap \in Nat
      BY <1>1, Spans DEF LeaseTypeOK
    <2>2. Wait(g)' \in Nat
      BY <2>1 DEF Wait, Gap
    <2> QED
      BY <1>3, <2>2 DEF None
  <1>8. \A e \in Up : beat'[e] # None /\ beat'[e] <= Wait(e)'
    BY <1>1, <1>5 DEF AliveInv
  <1>9. Up' \ rested' = {}
    BY <1>1, <1>2
  <1> QED
    BY <1>2, <1>6, <1>7, <1>8, <1>9 DEF AliveInv

(* Who dies takes no other lease along. *)
LEMMA AliveDie ==
  ASSUME LeaseTypeOK, AliveInv, NEW g \in Engines, Die(g)
  PROVE  AliveInv'
PROOF
  <1>1. /\ state[g] = "up" /\ state' = [state EXCEPT ![g] = "dead"]
        /\ work' = [work EXCEPT ![g] = "none"]
        /\ UNCHANGED <<beat, since, last, woke, lost, rested>>
    BY DEF Die
  <1>2. Up' = Up \ {g} /\ Up \subseteq Engines
    BY <1>1 DEF Up, LeaseTypeOK
  <1>3. \A e \in Up' : work'[e] = work[e] /\ Wait(e)' = Wait(e)
    <2>1. \A e \in Up' : work'[e] = work[e]
      BY <1>1, <1>2 DEF LeaseTypeOK
    <2> QED
      BY <1>1, <2>1 DEF Wait, Gap
  <1>4. \A e \in lost' : state'[e] = "dead"
    BY <1>1 DEF AliveInv, LeaseTypeOK
  <1>5. \A e \in Up' : beat'[e] # None
    BY <1>1, <1>2 DEF AliveInv
  <1>6. \A e \in Up' \cap rested' : beat'[e] <= Wait(e)'
    BY <1>1, <1>2, <1>3 DEF AliveInv
  <1>7. ASSUME NEW e \in Up' \ rested', NEW f \in Up' PROVE Spared(e, f)'
    <2>1. Spared(e, f)
      BY <1>1, <1>2 DEF AliveInv
    <2>2. Wait(e)' = Wait(e) /\ work'[f] = work[f] /\ UNCHANGED <<beat, last, woke>>
      BY <1>1, <1>3
    <2> QED
      BY <2>1, <2>2 DEF Spared, Freeze
  <1> QED
    BY <1>4, <1>5, <1>6, <1>7 DEF AliveInv

(* A tick: whoever sees that the machine slept holds back, and goes on to for as
   long as anybody has yet to renew its lease. *)
LEMMA AliveTick ==
  ASSUME LeaseTypeOK, AliveInv, Prompt, NEW g \in Engines, Tick(g)
  PROVE  AliveInv'
PROOF
  <1>1. /\ state[g] = "up" /\ work[g] = "none"
        /\ woke' = [woke EXCEPT ![g] = WokeAt(g)]
        /\ since' = [since EXCEPT ![g] = 0]
        /\ last' = [last EXCEPT ![g] = 0]
        /\ work' = [work EXCEPT ![g] = IF Settled(g) /\ ReapDue(g) THEN "reap" ELSE "renew"]
        /\ UNCHANGED <<state, beat, lost, rested>>
    BY DEF Tick
  <1>2. Up' = Up /\ Up \subseteq Engines /\ g \in Up
    BY <1>1 DEF Up
  <1>3. Gap \in Nat /\ Freeze \in Nat /\ 2 * Gap < Freeze
    BY Spans DEF Prompt
  <1>4. \A e \in Up : beat[e] \in Int /\ Wait(e) \in Nat /\ Wait(e) <= 2 * Gap
                     /\ since[e] \in 0..Gap /\ woke[e] \in {None} \cup 0..Freeze
    BY Ages
  <1>5. ASSUME NEW e \in Up PROVE Wait(e)' \in Nat /\ Wait(e) <= Wait(e)'
    <2>1. CASE e = g
      <3>1. since'[e] = 0 /\ work'[e] # "none" /\ Wait(e) = since[e]
        BY <1>1, <1>2, <2>1, Ages DEF LeaseTypeOK
      <3>2. Wait(e)' = Gap
        BY <1>3, <3>1 DEF Wait, Gap
      <3> QED
        BY <1>3, <1>4, <3>1, <3>2
    <2>2. CASE e # g
      <3>1. since'[e] = since[e] /\ work'[e] = work[e]
        BY <1>1, <1>2, <2>2 DEF LeaseTypeOK
      <3>2. Wait(e)' = Wait(e)
        BY <3>1 DEF Wait, Gap
      <3> QED
        BY <1>4, <3>2
    <2> QED
      BY <2>1, <2>2
  <1>6. \A e \in lost' : state'[e] = "dead"
    BY <1>1 DEF AliveInv
  <1>7. \A e \in Up' : beat'[e] # None
    BY <1>1, <1>2 DEF AliveInv
  <1>8. ASSUME NEW e \in Up' \cap rested' PROVE beat'[e] <= Wait(e)'
    <2>1. beat[e] <= Wait(e) /\ beat'[e] = beat[e]
      BY <1>1, <1>2 DEF AliveInv
    <2> QED
      BY <1>2, <1>4, <1>5, <2>1
  <1>9. ASSUME NEW e \in Up' \ rested', NEW f \in Up' PROVE Spared(e, f)'
    <2>0. Spared(e, f) /\ e \in Up /\ f \in Up /\ beat'[e] = beat[e]
      BY <1>1, <1>2 DEF AliveInv
    <2>1. CASE beat[e] <= Freeze + Wait(e)
      <3>1. beat'[e] <= Freeze + Wait(e)'
        BY <1>3, <1>4, <1>5, <2>0, <2>1
      <3> QED
        BY <3>1 DEF Spared, Freeze
    <2>2. CASE f # g /\ ~(beat[e] <= Freeze + Wait(e))
      <3>1. last'[f] = last[f] /\ work'[f] = work[f] /\ woke'[f] = woke[f]
        BY <1>1, <1>2, <2>0, <2>2 DEF LeaseTypeOK
      <3>2. woke[f] # None /\ woke[f] <= Wait(e) => woke'[f] <= Wait(e)'
        BY <1>4, <1>5, <2>0, <3>1 DEF None
      <3> QED
        BY <2>0, <2>2, <3>1, <3>2 DEF Spared, Freeze
    <2>3. CASE f = g /\ ~(beat[e] <= Freeze + Wait(e))
      <3>1. WokeAt(g) # None /\ WokeAt(g) <= Wait(e) /\ WokeAt(g) \in Nat
        <4>1. CASE last[g] > Freeze
          BY <1>4, <2>0, <4>1 DEF WokeAt, None
        <4>2. CASE ~(last[g] > Freeze)
          <5>1. woke[g] # None /\ woke[g] <= Wait(e)
            BY <2>0, <2>3, <4>2 DEF Spared
          <5>2. woke[g] \in Nat
            BY <1>2, <1>3, <1>4, <5>1 DEF None
          <5> QED
            BY <4>2, <5>1, <5>2 DEF WokeAt
        <4> QED
          BY <4>1, <4>2
      <3>2. WokeAt(g) < Freeze
        BY <1>3, <1>4, <2>0, <3>1
      <3>3. ~Settled(g)
        BY <1>3, <3>1, <3>2 DEF Settled
      <3>4. work'[f] # "reap" /\ woke'[f] = WokeAt(g)
        BY <1>1, <2>3, <3>3 DEF LeaseTypeOK
      <3>5. woke'[f] <= Wait(e)'
        BY <1>4, <1>5, <2>0, <3>1, <3>4
      <3> QED
        BY <3>1, <3>4, <3>5 DEF Spared
    <2> QED
      BY <2>1, <2>2, <2>3
  <1> QED
    BY <1>6, <1>7, <1>8, <1>9 DEF AliveInv

(* The store work of an upkeep: its own lease is renewed, nobody else's who is up
   is taken away. *)
LEMMA AliveUpkeep ==
  ASSUME LeaseTypeOK, AliveInv, Prompt, NEW g \in Engines, Upkeep(g)
  PROVE  AliveInv'
PROOF
  <1>1. /\ state[g] = "up" /\ work[g] # "none" /\ work' = [work EXCEPT ![g] = "none"]
        /\ RenewLease(g, work[g] = "reap")
        /\ rested' = rested \cup {g} /\ UNCHANGED <<state, since, last, woke>>
    BY DEF Upkeep
  <1>2. Up' = Up /\ Up \subseteq Engines /\ g \in Up
    BY <1>1 DEF Up
  <1>3. /\ beat'[g] = 0 /\ (g \in lost' <=> g \in lost)
        /\ \A f \in Engines \ {g} :
             /\ ~StaleNow(f) => beat'[f] = beat[f]
             /\ ~(work[g] = "reap") => beat'[f] = beat[f]
             /\ f \in lost' <=>
                  f \in lost \/ (work[g] = "reap" /\ state[f] # "off" /\ StaleNow(f))
        /\ lost' \subseteq Engines
    BY <1>1, Renewal
  <1>4. ASSUME NEW e \in Up PROVE work[g] = "reap" => ~StaleNow(e)
    BY <1>2, NobodyLooksStale
  <1>5. \A e \in Up \ {g} : beat'[e] = beat[e]
    BY <1>2, <1>3, <1>4
  <1>6. \A e \in Up \ {g} : Wait(e)' = Wait(e) /\ work'[e] = work[e]
    <2>1. \A e \in Up \ {g} : work'[e] = work[e]
      BY <1>1, <1>2 DEF LeaseTypeOK
    <2> QED
      BY <1>1, <2>1 DEF Wait, Gap
  <1>7. ASSUME NEW e \in lost' PROVE state'[e] = "dead"
    <2>1. CASE e \in lost
      BY <1>1, <2>1 DEF AliveInv
    <2>2. CASE e \notin lost
      <3>1. e \in Engines /\ e # g /\ work[g] = "reap" /\ state[e] # "off" /\ StaleNow(e)
        BY <1>3, <1>7, <2>2
      <3>2. state[e] # "up"
        BY <1>4, <3>1 DEF Up
      <3> QED
        BY <1>1, <3>1, <3>2 DEF LeaseTypeOK
    <2> QED
      BY <2>1, <2>2
  <1>8. beat'[g] # None /\ beat'[g] <= Wait(g)'
    <2>1. Wait(g)' = since[g] /\ since[g] \in Nat
      BY <1>1, Ages DEF Wait, LeaseTypeOK
    <2> QED
      BY <1>3, <2>1 DEF None
  <1>9. ASSUME NEW e \in Up \ {g} PROVE beat'[e] # None /\ (e \in rested => beat'[e] <= Wait(e)')
    BY <1>5, <1>6 DEF AliveInv
  <1>10. ASSUME NEW e \in Up' \ rested', NEW f \in Up' PROVE Spared(e, f)'
    <2>1. e \in Up \ {g} /\ e \notin rested /\ f \in Up
      BY <1>1, <1>2
    <2>2. Spared(e, f) /\ beat'[e] = beat[e] /\ Wait(e)' = Wait(e)
      BY <1>5, <1>6, <2>1 DEF AliveInv
    <2>3. last'[f] = last[f] /\ woke'[f] = woke[f]
      BY <1>1
    <2>4. work'[f] = "none" \/ work'[f] = work[f]
      BY <1>1, <1>6, <2>1 DEF LeaseTypeOK
    <2>5. work[f] = "none" => work'[f] = "none"
      BY <2>4
    <2>6. work[f] # "reap" => work'[f] # "reap"
      BY <2>4
    <2> QED
      BY <2>2, <2>3, <2>5, <2>6 DEF Spared, Freeze
  <1> QED
    BY <1>1, <1>2, <1>7, <1>8, <1>9, <1>10 DEF AliveInv

(* The machine sleeps, with nobody's upkeep under way: for so short that no
   heartbeat is stale, or for long enough for everybody to see it. *)
LEMMA AliveSuspend ==
  ASSUME LeaseTypeOK, AliveInv, Prompt, NEW d \in Suspends, Suspend(d)
  PROVE  AliveInv'
PROOF
  <1>1. /\ Up \subseteq rested /\ \A e \in Up : work[e] = "none"
        /\ WallTime(d) /\ rested' = {} /\ UNCHANGED <<state, since, work, lost>>
    BY DEF Suspend, Prompt
  <1>2. Up' = Up /\ Up \subseteq Engines
    BY <1>1 DEF Up
  <1>3. d \in Nat /\ Freeze \in Nat /\ Oldest \in Nat /\ Gap \in Nat
    BY Spans, LeaseAssumption
  <1>4. /\ \A e \in Engines : (beat'[e] = None <=> beat[e] = None)
                              /\ (beat[e] # None => beat'[e] <= beat[e] + d)
        /\ \A e \in Up : last[e] + d > Freeze => last'[e] > Freeze
        /\ beat' \in [Engines -> {None} \cup 0..Oldest]
    BY <1>1, <1>3, TimePasses
  <1>5. \A e \in Engines : beat'[e] \in Int
    BY <1>3, <1>4 DEF None
  <1>6. \A e \in Up : beat[e] \in Int /\ Wait(e) \in Nat /\ last[e] \in Nat
    BY Ages
  <1>7. \A e \in Up : Wait(e)' = Wait(e)
    BY <1>1 DEF Wait, Gap
  <1>8. ASSUME NEW e \in Up PROVE beat'[e] # None /\ beat'[e] <= Wait(e) + d
    <2>1. beat[e] # None /\ beat[e] <= Wait(e)
      BY <1>1 DEF AliveInv
    <2>2. beat'[e] <= beat[e] + d /\ beat'[e] # None
      BY <1>2, <1>4, <2>1
    <2> QED
      BY <1>2, <1>3, <1>5, <1>6, <2>1, <2>2
  <1>9. ASSUME NEW e \in Up, NEW f \in Up PROVE Spared(e, f)'
    <2>1. CASE d <= Freeze
      <3>1. beat'[e] <= Freeze + Wait(e)'
        BY <1>2, <1>3, <1>5, <1>6, <1>7, <1>8, <2>1
      <3> QED
        BY <3>1 DEF Spared, Freeze
    <2>2. CASE ~(d <= Freeze)
      <3>1. last[f] + d > Freeze
        BY <1>3, <1>6, <2>2
      <3>2. last'[f] > Freeze /\ work'[f] = "none"
        BY <1>1, <1>4, <3>1
      <3> QED
        BY <3>2 DEF Spared, Freeze
    <2> QED
      BY <2>1, <2>2
  <1>10. \A e \in lost' : state'[e] = "dead"
    BY <1>1 DEF AliveInv
  <1> QED
    BY <1>1, <1>2, <1>8, <1>9, <1>10 DEF AliveInv

(* No step makes a living engine look dead to one that reaps. *)
LEMMA AliveStep == LeaseTypeOK /\ AliveInv /\ Prompt /\ [LeaseNext]_leaseVars => AliveInv'
PROOF
  <1> SUFFICES ASSUME LeaseTypeOK, AliveInv, Prompt, [LeaseNext]_leaseVars PROVE AliveInv'
    OBVIOUS
  <1>1. CASE UNCHANGED leaseVars
    BY <1>1 DEF AliveInv, Up, Spared, Wait, Freeze, Gap, leaseVars
  <1> QED
    BY <1>1, AlivePass, AliveStart, AliveDie, AliveTick, AliveUpkeep, AliveSuspend DEF LeaseNext

-----------------------------------------------------------------------------
(* Whoever died is noticed *)

\* What the sums below are made of.
Sums ==
  /\ Freeze \in Nat /\ Gap \in Nat /\ Gap > 0
  /\ Slots(ReapEvery) \in Nat /\ Slots(ReapEvery + 1) = Slots(ReapEvery) + Gap
  /\ \A f \in Up :
       /\ f \in Engines /\ since[f] \in 0..Gap /\ last[f] \in Nat
       /\ woke[f] \in {None} \cup 0..Freeze
       /\ ticks[f] \in 0..(ReapEvery - 1)
       /\ Slots(ticks[f] + 1) \in Nat /\ Slots(ticks[f] + 1) >= Gap
       /\ Slots(ticks[f] + 1) <= Slots(ReapEvery)
       /\ Slots(ticks[f] + 2) = Slots(ticks[f] + 1) + Gap
  /\ \A e \in Engines : overdue[e] \in Nat

(* The sums that the steps below work with are numbers. *)
LEMMA SumsAre == LeaseTypeOK => Sums
PROOF
  <1> SUFFICES ASSUME LeaseTypeOK PROVE Sums
    OBVIOUS
  <1>1. /\ Freeze \in Nat /\ Gap \in Nat /\ Gap > 0 /\ ReapEvery \in Nat \ {0}
        /\ Deadline \in Nat
    BY Spans, DeadlineIsASpan, LeaseAssumption
  <1>2. Slots(ReapEvery) \in Nat /\ Slots(ReapEvery + 1) = Slots(ReapEvery) + Gap
    BY <1>1, SlotsAdd
  <1>3. ASSUME NEW f \in Up
        PROVE  /\ f \in Engines /\ since[f] \in 0..Gap /\ last[f] \in Nat
               /\ woke[f] \in {None} \cup 0..Freeze
               /\ ticks[f] \in 0..(ReapEvery - 1)
               /\ Slots(ticks[f] + 1) \in Nat /\ Slots(ticks[f] + 1) >= Gap
               /\ Slots(ticks[f] + 1) <= Slots(ReapEvery)
               /\ Slots(ticks[f] + 2) = Slots(ticks[f] + 1) + Gap
    <2>1. /\ f \in Engines /\ since[f] \in 0..Gap /\ last[f] \in Nat
          /\ woke[f] \in {None} \cup 0..Freeze
      BY Ages
    <2>2. ticks[f] \in 0..(ReapEvery - 1)
      BY <2>1 DEF LeaseTypeOK
    <2> DEFINE t == ticks[f]
    <2>3. t \in Nat /\ t + 1 \in Nat /\ t + 1 <= ReapEvery /\ t + 2 = (t + 1) + 1
      BY <1>1, <2>2
    <2> HIDE DEF t
    <2>4. Slots(t) \in Nat /\ Slots(t + 1) = Slots(t) + Gap
      BY <2>3, SlotsAdd
    <2>5. Slots(t + 1) \in Nat /\ Slots((t + 1) + 1) = Slots(t + 1) + Gap
      BY <2>3, SlotsAdd
    <2>6. Slots(t + 1) <= Slots(ReapEvery)
      BY <1>1, <2>3, SlotsAdd
    <2>7. Slots(t + 1) >= Gap
      BY <1>1, <2>4
    <2> QED
      BY <2>1, <2>2, <2>3, <2>5, <2>6, <2>7 DEF t
  <1>4. \A e \in Engines : overdue[e] \in Nat
    BY <1>1 DEF LeaseTypeOK
  <1> QED
    BY <1>1, <1>2, <1>3, <1>4 DEF Sums

LEMMA SumsStay == LeaseTypeOK /\ [LeaseNext]_leaseVars => Sums'
PROOF
  <1>1. LeaseTypeOK' => Sums'
    BY SumsAre, PTL
  <1> QED
    BY <1>1, LeaseTypeStep

(* What is not overdue is in time. *)
LEMMA NothingOverdue == Sums => \A f \in Up : Nearing(0, f)
PROOF
  BY DEF Sums, Nearing, None

LEMMA NoticeInit == LeaseInit => NoticeInv
PROOF
  <1> SUFFICES ASSUME LeaseInit PROVE NoticeInv
    OBVIOUS
  <1>1. Sums
    BY LeaseTypeInit, SumsAre
  <1>2. \A e \in Engines : overdue[e] = 0
    BY DEF LeaseInit
  <1> QED
    BY <1>1, <1>2, NothingOverdue DEF NoticeInv

(* The step leaves an engine, and what is overdue, as they are. *)
LEMMA SameNearing ==
  ASSUME NEW f, NEW o, NEW p, o = p, Nearing(o, f),
         since'[f] = since[f], last'[f] = last[f], woke'[f] = woke[f], ticks'[f] = ticks[f],
         work'[f] = work[f]
  PROVE  Nearing(p, f)'
PROOF
  BY DEF Nearing, Freeze, Slots, Gap

(* A second brings a reaper nearer by as much as the death is overdue. *)
LEMMA NoticePass ==
  ASSUME LeaseTypeOK, NoticeInv, Ticking, Pass
  PROVE  NoticeInv'
PROOF
  <1>1. /\ UNCHANGED <<state, ticks, work, lost, rested>> /\ Up' = Up /\ Up \subseteq Engines
        /\ \A f \in Up : since'[f] = since[f] + 1
        /\ \A e \in Engines :
              overdue'[e] = IF Unnoticed(e) THEN Capped(overdue[e] + 1, Deadline) ELSE 0
        /\ WallTime(1)
    BY DEF Pass, Up
  <1>2. Sums /\ Sums' /\ Deadline \in Nat
    BY SumsAre, SumsStay, DeadlineIsASpan DEF LeaseNext
  <1>3. \A f \in Up :
          /\ last'[f] <= last[f] + 1
          /\ woke'[f] = None <=> woke[f] = None
          /\ woke[f] # None => /\ woke'[f] < Freeze => woke'[f] = woke[f] + 1
                               /\ woke'[f] = Freeze => woke[f] + 1 >= Freeze
    BY <1>1, TimePasses
  <1>4. ASSUME NEW e \in Engines \ lost, ~Unnoticed(e)' PROVE overdue'[e] = 0
    <2>1. ~Unnoticed(e)
      <3> SUFFICES ASSUME Unnoticed(e) PROVE FALSE
        OBVIOUS
      <3>1. state'[e] = "dead" /\ e \notin lost' /\ StaleNow(e)
        BY <1>1 DEF Unnoticed
      <3>2. StaleNow(e)'
        BY <1>1, <3>1, TimePasses DEF StaleNow
      <3> QED
        BY <1>4, <3>1, <3>2 DEF Unnoticed
    <2> QED
      BY <1>1, <2>1
  <1>5. ASSUME NEW e \in Engines \ lost, NEW f \in Up PROVE Nearing(overdue[e], f)'
    <2>0. Nearing(overdue[e], f)
      BY DEF NoticeInv
    <2>1. overdue'[e] \in Nat /\ overdue'[e] <= overdue[e] + 1 /\ overdue[e] \in Nat
      <3>1. overdue[e] \in Nat /\ overdue'[e] \in Nat
        BY <1>2 DEF Sums
      <3> QED
        BY <1>1, <1>2, <3>1 DEF Capped
    <2> DEFINE o == overdue[e]
               p == overdue'[e]
               now == ticks[f] + 1
    <2>2. /\ o \in Nat /\ p \in Nat /\ p <= o + 1
          /\ since[f] \in Nat /\ since'[f] = since[f] + 1 /\ last[f] \in Nat /\ last'[f] \in Nat
          /\ last'[f] <= last[f] + 1
          /\ Freeze \in Nat /\ Gap \in Nat /\ Slots(now) \in Nat /\ Slots(now) >= Gap
          /\ Slots(ReapEvery + 1) \in Nat
          /\ work'[f] = work[f] /\ ticks'[f] = ticks[f]
      <3>1. since[f] \in Nat /\ last[f] \in Nat /\ last'[f] \in Nat
        BY <1>1, <1>2 DEF Sums
      <3>2. /\ Freeze \in Nat /\ Gap \in Nat /\ Slots(now) \in Nat /\ Slots(now) >= Gap
            /\ Slots(ReapEvery + 1) \in Nat
        BY <1>2 DEF Sums
      <3> QED
        BY <1>1, <1>3, <2>1, <3>1, <3>2
    <2>3. /\ woke[f] # None => woke[f] \in 0..Freeze /\ woke'[f] \in 0..Freeze
          /\ woke'[f] = None <=> woke[f] = None
          /\ woke[f] # None => /\ woke'[f] < Freeze => woke'[f] = woke[f] + 1
                               /\ woke'[f] = Freeze => woke[f] + 1 >= Freeze
      <3>1. woke[f] \in {None} \cup 0..Freeze /\ woke'[f] \in {None} \cup 0..Freeze
        BY <1>1, <1>2 DEF Sums
      <3>2. /\ woke'[f] = None <=> woke[f] = None
            /\ woke[f] # None => /\ woke'[f] < Freeze => woke'[f] = woke[f] + 1
                                 /\ woke'[f] = Freeze => woke[f] + 1 >= Freeze
        BY <1>3
      <3> QED
        BY <3>1, <3>2
    <2> HIDE DEF o, p, now
    <2>4. Nearing(o, f) /\ now = ticks[f] + 1
      BY <2>0 DEF o, now
    <2>5. last'[f] > since'[f] => p <= since'[f]
      BY <2>2, <2>4 DEF Nearing
    <2>6. work'[f] = "reap" => p <= Freeze + Slots(ReapEvery + 1) + since'[f]
      BY <2>2, <2>4 DEF Nearing
    <2>7. ASSUME work'[f] # "reap", woke'[f] # None, woke'[f] < Freeze PROVE p <= woke'[f] + Gap
      <3>1. woke'[f] = woke[f] + 1 /\ woke[f] \in Nat /\ woke[f] < Freeze /\ woke[f] # None
        BY <2>2, <2>3, <2>7
      <3>2. o <= woke[f] + Gap
        BY <2>2, <2>4, <2>7, <3>1 DEF Nearing
      <3> QED
        BY <2>2, <3>1, <3>2
    <2>8. ASSUME work'[f] # "reap", woke'[f] = None \/ woke'[f] >= Freeze
          PROVE  p <= Freeze + Slots(now) + since'[f]
      <3>1. CASE woke[f] # None /\ woke[f] < Freeze
        <4>1. woke'[f] # None /\ woke'[f] = Freeze /\ woke[f] \in Nat /\ woke[f] + 1 >= Freeze
          BY <2>2, <2>3, <2>8, <3>1
        <4>2. o <= woke[f] + Gap
          BY <2>2, <2>4, <2>8, <3>1 DEF Nearing
        <4> QED
          BY <2>2, <3>1, <4>1, <4>2
      <3>2. CASE ~(woke[f] # None /\ woke[f] < Freeze)
        <4>1. woke[f] = None \/ woke[f] >= Freeze
          BY <2>2, <2>3, <3>2
        <4>2. o <= Freeze + Slots(now) + since[f]
          BY <2>2, <2>4, <2>8, <4>1 DEF Nearing
        <4> QED
          BY <2>2, <4>2
      <3> QED
        BY <3>1, <3>2
    <2>9. ticks'[f] + 1 = now
      BY <2>2, <2>4
    <2> QED
      BY <2>5, <2>6, <2>7, <2>8, <2>9 DEF Nearing, Freeze, Slots, Gap, p
  <1> QED
    BY <1>1, <1>4, <1>5 DEF NoticeInv

(* Whoever is failed, or has just started, is not overdue. *)
LEMMA NoticeStart ==
  ASSUME LeaseTypeOK, NoticeInv, NEW g \in Engines, Start(g)
  PROVE  NoticeInv'
PROOF
  <1>1. /\ state[g] = "off" /\ state' = [state EXCEPT ![g] = "up"]
        /\ since' = [since EXCEPT ![g] = 0] /\ last' = [last EXCEPT ![g] = 0]
        /\ UNCHANGED <<woke, ticks, work, overdue>> /\ RenewLease(g, TRUE)
    BY DEF Start
  <1>2. Sums'
    BY SumsStay DEF LeaseNext
  <1>3. /\ lost' \subseteq Engines /\ lost \subseteq lost'
        /\ \A f \in Engines \ {g} :
             f \in lost' <=> f \in lost \/ (state[f] # "off" /\ StaleNow(f))
    BY <1>1, Renewal
  <1>4. ASSUME NEW e \in Engines \ lost' PROVE overdue'[e] = 0
    <2>1. e \in Engines \ lost /\ overdue'[e] = overdue[e]
      BY <1>1, <1>3
    <2>2. ~Unnoticed(e)
      <3>1. CASE e = g
        BY <1>1, <3>1 DEF Unnoticed
      <3>2. CASE e # g
        BY <1>3, <3>2 DEF Unnoticed
      <3> QED
        BY <3>1, <3>2
    <2> QED
      BY <2>1, <2>2 DEF NoticeInv
  <1>5. \A f \in Up' : Nearing(0, f)'
    <2>1. (Sums => \A f \in Up : Nearing(0, f))'
      BY NothingOverdue, PTL
    <2> QED
      BY <1>2, <2>1
  <1>6. ASSUME NEW e \in Engines \ lost', NEW f \in Up' PROVE Nearing(overdue[e], f)'
    BY <1>4, <1>5
  <1> QED
    BY <1>4, <1>6 DEF NoticeInv

(* Whoever dies was not overdue. *)
LEMMA NoticeDie ==
  ASSUME LeaseTypeOK, NoticeInv, NEW g \in Engines, Die(g)
  PROVE  NoticeInv'
PROOF
  <1>1. /\ state[g] = "up" /\ state' = [state EXCEPT ![g] = "dead"]
        /\ work' = [work EXCEPT ![g] = "none"]
        /\ UNCHANGED <<beat, since, last, woke, ticks, lost, overdue>>
    BY DEF Die
  <1>2. \A f \in Up' : f \in Up /\ work'[f] = work[f]
    BY <1>1 DEF Up, LeaseTypeOK
  <1>3. ASSUME NEW e \in Engines \ lost, ~Unnoticed(e)' PROVE overdue'[e] = 0
    <2>1. ~Unnoticed(e)
      <3>1. CASE e = g
        BY <1>1, <3>1 DEF Unnoticed
      <3>2. CASE e # g
        BY <1>1, <1>3, <3>2 DEF Unnoticed, StaleNow, LeaseTypeOK
      <3> QED
        BY <3>1, <3>2
    <2> QED
      BY <1>1, <2>1 DEF NoticeInv
  <1>4. ASSUME NEW e \in Engines \ lost, NEW f \in Up' PROVE Nearing(overdue[e], f)'
    <2>1. Nearing(overdue[e], f)
      BY <1>2 DEF NoticeInv
    <2>2. /\ overdue[e] = overdue'[e] /\ since'[f] = since[f] /\ last'[f] = last[f]
          /\ woke'[f] = woke[f] /\ ticks'[f] = ticks[f] /\ work'[f] = work[f]
      BY <1>1, <1>2
    <2> QED
      BY <2>1, <2>2 DEF Nearing, Freeze, Slots, Gap
  <1> QED
    BY <1>1, <1>3, <1>4 DEF NoticeInv

(* The tick that sees that the machine slept is the first since; of the others,
   those that are due reap once the hold-back is over. *)
LEMMA NoticeTick ==
  ASSUME LeaseTypeOK, NoticeInv, Ticking, NEW g \in Engines, Tick(g)
  PROVE  NoticeInv'
PROOF
  <1>1. /\ state[g] = "up" /\ work[g] = "none"
        /\ woke' = [woke EXCEPT ![g] = WokeAt(g)]
        /\ since' = [since EXCEPT ![g] = 0]
        /\ last' = [last EXCEPT ![g] = 0]
        /\ ticks' = [ticks EXCEPT ![g] = (ticks[g] + 1) % ReapEvery]
        /\ work' = [work EXCEPT ![g] = IF Settled(g) /\ ReapDue(g) THEN "reap" ELSE "renew"]
        /\ UNCHANGED <<state, beat, lost, overdue>>
    BY DEF Tick
  <1>2. Up' = Up /\ Up \subseteq Engines /\ g \in Up /\ Sums /\ Gap <= Freeze
    BY <1>1, SumsAre DEF Up, Ticking
  <1>3. \A e \in Engines \ lost : ~Unnoticed(e)' => overdue'[e] = 0
    BY <1>1 DEF NoticeInv, Unnoticed, StaleNow
  <1>4. /\ woke'[g] = WokeAt(g) /\ since'[g] = 0 /\ last'[g] = 0
        /\ ticks'[g] = (ticks[g] + 1) % ReapEvery
        /\ work'[g] = IF Settled(g) /\ ReapDue(g) THEN "reap" ELSE "renew"
    BY <1>1 DEF LeaseTypeOK
  <1>5. ASSUME NEW e \in Engines \ lost PROVE Nearing(overdue[e], g)'
    <2> DEFINE o == overdue[e]
               now == ticks[g] + 1
    <2>0. Nearing(o, g)
      BY <1>2 DEF NoticeInv
    <2>1. /\ o \in Nat /\ since[g] \in 0..Gap /\ last[g] \in Nat
          /\ woke[g] \in {None} \cup 0..Freeze
          /\ Freeze \in Nat /\ Gap \in Nat /\ Gap > 0 /\ Gap <= Freeze
          /\ Slots(now) \in Nat /\ Slots(now) >= Gap /\ Slots(now) <= Slots(ReapEvery)
          /\ Slots(ticks[g] + 2) = Slots(now) + Gap
          /\ Slots(ReapEvery) \in Nat /\ Slots(ReapEvery + 1) = Slots(ReapEvery) + Gap
      BY <1>2 DEF Sums
    <2>2. ticks[g] \in 0..(ReapEvery - 1) /\ ReapEvery \in Nat \ {0}
      BY LeaseAssumption DEF LeaseTypeOK
    <2>3. now = ReapEvery => ticks'[g] = 0
      BY <1>4, <2>2
    <2>4. now # ReapEvery => ticks'[g] = now
      BY <1>4, <2>2
    <2> HIDE DEF o, now
    \* What is still to come of the hold-back.
    <2>5. ASSUME WokeAt(g) # None, WokeAt(g) < Freeze PROVE o <= WokeAt(g) + Gap
      <3>1. CASE last[g] > Freeze
        <4>1. WokeAt(g) = 0 /\ last[g] > since[g]
          BY <2>1, <3>1 DEF WokeAt
        <4> QED
          BY <2>0, <2>1, <4>1 DEF Nearing
      <3>2. CASE ~(last[g] > Freeze)
        <4>1. WokeAt(g) = woke[g] /\ work[g] # "reap"
          BY <1>1, <3>2 DEF WokeAt
        <4> QED
          BY <2>0, <2>5, <4>1 DEF Nearing
      <3> QED
        BY <3>1, <3>2
    <2>6. ASSUME WokeAt(g) = None \/ WokeAt(g) >= Freeze
          PROVE  o <= Freeze + Slots(now) + since[g] /\ Settled(g)
      <3>1. CASE last[g] > Freeze
        BY <2>1, <2>6, <3>1 DEF WokeAt, None
      <3>2. CASE ~(last[g] > Freeze)
        <4>1. WokeAt(g) = woke[g] /\ work[g] # "reap"
          BY <1>1, <3>2 DEF WokeAt
        <4>2. o <= Freeze + Slots(now) + since[g]
          BY <2>0, <2>6, <4>1 DEF Nearing, now
        <4> QED
          BY <2>6, <4>2 DEF Settled
      <3> QED
        BY <3>1, <3>2
    <2>7. work'[g] = "reap" => o <= Freeze + Slots(ReapEvery + 1) + since'[g]
      <3> SUFFICES ASSUME work'[g] = "reap" PROVE o <= Freeze + Slots(ReapEvery + 1) + since'[g]
        OBVIOUS
      <3>1. Settled(g)
        BY <1>4
      <3>2. o <= Freeze + Slots(now) + since[g]
        BY <2>6, <3>1 DEF Settled
      <3> QED
        BY <1>4, <2>1, <3>2
    <2>8. ASSUME work'[g] # "reap", woke'[g] # None, woke'[g] < Freeze PROVE o <= woke'[g] + Gap
      BY <1>4, <2>5, <2>8
    <2>9. ASSUME work'[g] # "reap", woke'[g] = None \/ woke'[g] >= Freeze
          PROVE  o <= Freeze + Slots(ticks'[g] + 1) + since'[g]
      <3>1. o <= Freeze + Slots(now) + since[g] /\ Settled(g)
        BY <1>4, <2>6, <2>9
      <3>2. now # ReapEvery
        BY <1>4, <2>9, <3>1 DEF ReapDue, now
      <3>3. ticks'[g] + 1 = ticks[g] + 2
        BY <2>2, <2>4, <3>2 DEF now
      <3> QED
        BY <1>4, <2>1, <3>1, <3>3
    <2>10. last'[g] > since'[g] => o <= since'[g]
      BY <1>4
    <2>11. o = overdue'[e]
      BY <1>1 DEF o
    <2> QED
      BY <2>7, <2>8, <2>9, <2>10, <2>11 DEF Nearing, Freeze, Slots, Gap
  <1>6. ASSUME NEW e \in Engines \ lost, NEW f \in Up, f # g PROVE Nearing(overdue[e], f)'
    <2>1. Nearing(overdue[e], f)
      BY DEF NoticeInv
    <2>2. /\ overdue[e] = overdue'[e] /\ since'[f] = since[f] /\ last'[f] = last[f]
          /\ woke'[f] = woke[f] /\ ticks'[f] = ticks[f] /\ work'[f] = work[f]
      BY <1>1, <1>2, <1>6 DEF LeaseTypeOK
    <2> QED
      BY <2>1, <2>2 DEF Nearing, Freeze, Slots, Gap
  <1> QED
    BY <1>1, <1>2, <1>3, <1>5, <1>6 DEF NoticeInv

(* A reap leaves nobody overdue, any other upkeep whoever is as it is. *)
LEMMA NoticeUpkeep ==
  ASSUME LeaseTypeOK, NoticeInv, NEW g \in Engines, Upkeep(g)
  PROVE  NoticeInv'
PROOF
  <1>1. /\ state[g] = "up" /\ work[g] # "none" /\ work' = [work EXCEPT ![g] = "none"]
        /\ RenewLease(g, work[g] = "reap")
        /\ UNCHANGED <<state, since, last, woke, ticks, overdue>>
    BY DEF Upkeep
  <1>2. Up' = Up /\ Up \subseteq Engines /\ g \in Up
    BY <1>1 DEF Up
  <1>3. /\ lost' \subseteq Engines /\ lost \subseteq lost'
        /\ \A f \in Engines \ {g} :
             /\ StaleNow(f)' <=> StaleNow(f)
             /\ f \in lost' <=>
                  f \in lost \/ (work[g] = "reap" /\ state[f] # "off" /\ StaleNow(f))
    BY <1>1, Renewal
  <1>4. ASSUME NEW e \in Engines \ lost', ~Unnoticed(e)' PROVE overdue'[e] = 0
    <2>1. ~Unnoticed(e)
      <3>1. CASE e = g
        BY <1>1, <3>1 DEF Unnoticed
      <3>2. CASE e # g
        BY <1>1, <1>3, <1>4, <3>2 DEF Unnoticed
      <3> QED
        BY <3>1, <3>2
    <2> QED
      BY <1>1, <1>3, <2>1 DEF NoticeInv
  <1>5. ASSUME work[g] = "reap", NEW e \in Engines \ lost' PROVE overdue'[e] = 0
    <2>1. ~Unnoticed(e)
      <3>1. CASE e = g
        BY <1>1, <3>1 DEF Unnoticed
      <3>2. CASE e # g
        BY <1>3, <1>5, <3>2 DEF Unnoticed
      <3> QED
        BY <3>1, <3>2
    <2> QED
      BY <1>1, <1>3, <2>1 DEF NoticeInv
  <1>6. \A f \in Up' : Nearing(0, f)'
    <2>1. (Sums => \A f \in Up : Nearing(0, f))'
      BY NothingOverdue, PTL
    <2> QED
      BY <2>1, SumsStay DEF LeaseNext
  <1>7. ASSUME NEW e \in Engines \ lost', NEW f \in Up' PROVE Nearing(overdue[e], f)'
    <2>1. CASE work[g] = "reap"
      BY <1>5, <1>6, <2>1
    <2>2. CASE work[g] # "reap"
      <3>1. Nearing(overdue[e], f)
        BY <1>2, <1>3 DEF NoticeInv
      <3>2. /\ overdue[e] = overdue'[e] /\ since'[f] = since[f] /\ last'[f] = last[f]
            /\ woke'[f] = woke[f] /\ ticks'[f] = ticks[f]
            /\ work'[f] = "reap" <=> work[f] = "reap"
        BY <1>1, <1>2, <2>2 DEF LeaseTypeOK
      <3> QED
        BY <3>1, <3>2 DEF Nearing, Freeze, Slots, Gap
    <2> QED
      BY <2>1, <2>2
  <1> QED
    BY <1>4, <1>7 DEF NoticeInv

(* A sleep starts what is overdue anew. *)
LEMMA NoticeSuspend ==
  ASSUME LeaseTypeOK, NEW d \in Suspends, Suspend(d)
  PROVE  NoticeInv'
PROOF
  <1>1. \A e \in Engines : overdue'[e] = 0
    BY DEF Suspend
  <1>2. (Sums => \A f \in Up : Nearing(0, f))'
    BY NothingOverdue, PTL
  <1>3. \A f \in Up' : Nearing(0, f)'
    BY <1>2, SumsStay DEF LeaseNext
  <1> QED
    BY <1>1, <1>3 DEF NoticeInv

(* No step leaves a dead engine behind the reaper that is to fail its jobs. *)
LEMMA NoticeStep == LeaseTypeOK /\ NoticeInv /\ Ticking /\ [LeaseNext]_leaseVars => NoticeInv'
PROOF
  <1> SUFFICES ASSUME LeaseTypeOK, NoticeInv, Ticking, [LeaseNext]_leaseVars PROVE NoticeInv'
    OBVIOUS
  <1>1. CASE UNCHANGED leaseVars
    BY <1>1 DEF NoticeInv, Unnoticed, StaleNow, Up, Nearing, Freeze, Gap, Slots, leaseVars
  <1> QED
    BY <1>1, NoticePass, NoticeStart, NoticeDie, NoticeTick, NoticeUpkeep, NoticeSuspend
    DEF LeaseNext

-----------------------------------------------------------------------------
(* The reap that fails them comes before the deadline. *)
LEMMA InTime == LeaseTypeOK /\ NoticeInv => DeadEnginesAreNoticed
PROOF
  <1> SUFFICES ASSUME LeaseTypeOK, NoticeInv, NEW f \in Up, NEW e \in Engines, Unnoticed(e)
               PROVE  overdue[e] < Deadline
    BY DEF DeadEnginesAreNoticed
  <1>1. Sums /\ Nearing(overdue[e], f)
    BY SumsAre DEF NoticeInv, Unnoticed
  <1>2. Deadline = Freeze + Slots(ReapEvery + 2) + 1
    BY Spans
  <1>3. /\ ReapEvery + 1 \in Nat /\ ReapEvery + 2 = (ReapEvery + 1) + 1
    BY LeaseAssumption
  <1>4. Slots(ReapEvery + 2) = Slots(ReapEvery + 1) + Gap
    BY <1>3, SlotsAdd
  <1> DEFINE o == overdue[e]
             now == ticks[f] + 1
  <1>5. /\ o \in Nat /\ since[f] \in 0..Gap /\ woke[f] \in {None} \cup 0..Freeze
        /\ Freeze \in Nat /\ Gap \in Nat
        /\ Slots(now) \in Nat /\ Slots(now) <= Slots(ReapEvery)
        /\ Slots(ReapEvery) \in Nat /\ Slots(ReapEvery + 1) = Slots(ReapEvery) + Gap
    BY <1>1 DEF Sums
  <1> HIDE DEF o, now
  <1>6. \/ o <= Freeze + Slots(ReapEvery + 1) + since[f]
        \/ woke[f] # None /\ woke[f] < Freeze /\ o <= woke[f] + Gap
        \/ o <= Freeze + Slots(now) + since[f]
    BY <1>1, <1>5 DEF Nearing, o, now, None
  <1>7. o < Freeze + Slots(ReapEvery + 2) + 1
    BY <1>4, <1>5, <1>6 DEF None
  <1> QED
    BY <1>2, <1>7 DEF o

(* For any engines, and while a tick with its upkeep comes within FREEZE_MILLIS,
   a dead engine's jobs are failed in time, however the machine sleeps
   (maintenance.rs, Thaw and upkeep; leases.rs, reap). *)
THEOREM TheDeadAreNoticed == Ticking => (LeaseSpec => []DeadEnginesAreNoticed)
PROOF
  <1> SUFFICES ASSUME Ticking PROVE LeaseSpec => []DeadEnginesAreNoticed
    OBVIOUS
  <1>1. LeaseTypeOK /\ NoticeInv /\ [LeaseNext]_leaseVars => NoticeInv'
    BY NoticeStep
  <1> QED
    BY <1>1, LeaseTypeInit, LeaseTypeStep, NoticeInit, InTime, PTL DEF LeaseSpec

(* For any engines that the machine lets finish their upkeep between two sleeps,
   and while two ticks come within less than FREEZE_MILLIS, whoever runs keeps its
   jobs and whoever died loses them in time, however long the sleeps and however
   many (maintenance.rs, Thaw; leases.rs, reap). *)
THEOREM LeasesTellTheLiving == Prompt => (LeaseSpec => []LeasesTellWhoLives)
PROOF
  <1> SUFFICES ASSUME Prompt PROVE LeaseSpec => []LeasesTellWhoLives
    OBVIOUS
  <1>1. Ticking
    BY Spans DEF Prompt, Ticking
  <1>2. LeaseTypeOK /\ AliveInv /\ [LeaseNext]_leaseVars => AliveInv'
    BY AliveStep
  <1>3. LeaseTypeOK /\ NoticeInv /\ [LeaseNext]_leaseVars => NoticeInv'
    BY <1>1, NoticeStep
  <1>4. LeaseTypeOK /\ AliveInv /\ NoticeInv => LeasesTellWhoLives
    <2>1. AliveInv => LiveEnginesKeepTheirJobs
      BY DEF AliveInv, LiveEnginesKeepTheirJobs, Up
    <2> QED
      BY <2>1, InTime DEF LeasesTellWhoLives
  <1> QED
    BY <1>2, <1>3, <1>4, LeaseTypeInit, LeaseTypeStep, AliveInit, NoticeInit, PTL DEF LeaseSpec

-----------------------------------------------------------------------------
(* Pictures of a scene *)

Places == JobDirs \cup Outputs
Prints == (SUBSET SceneFiles) \X [SceneFiles -> Texts]

JobRows ==
  [op : {"render", "export", "frame", "qa"}, searched : SUBSET SceneFiles,
   file : SceneFiles \cup {Nowhere}, revision : Texts \cup {Nowhere}, source : Nat,
   input : Places \cup {Nowhere}, at : Places,
   status : {"queued", "running", "made", "succeeded", "failed"}, print : Prints \cup {Nowhere},
   start : [SceneFiles -> Texts] \cup {Nowhere}, scene : SceneFiles \cup {Nowhere},
   saw : Shots \cup {Nowhere}]

SceneTypes ==
  /\ home \in SceneFiles /\ text \in [SceneFiles -> Texts] /\ found \in SceneFiles \cup {Nowhere}
  /\ jobs \in Seq(JobRows) /\ media \in [Places -> Shots \cup {Nowhere}]
  /\ results \in SUBSET [print : Prints, scene : SceneFiles, at : JobDirs]
  /\ \A f \in SceneFiles : text[f][1] = f

Pending(job) == job.status \in {"queued", "running"}

Still(l) ==
  /\ IF l \in JobDirs THEN l \in DOMAIN jobs ELSE \E j \in DOMAIN jobs : jobs[j].at = l
  /\ \A j \in DOMAIN jobs : jobs[j].at = l => ~Pending(jobs[j])

PlacesInv ==
  /\ \A j \in DOMAIN jobs :
       /\ jobs[j].at \in JobDirs => jobs[j].at <= j
       /\ Pending(jobs[j]) => \A k \in DOMAIN jobs : k # j => jobs[k].at # jobs[j].at
       /\ Pending(jobs[j]) => jobs[j].at = j \/ jobs[j].op = "export"
       /\ jobs[j].op = "export" <=> jobs[j].at \in Outputs
  /\ \A l \in JobDirs : media[l] # Nowhere => l \in DOMAIN jobs /\ jobs[l].at = l /\ jobs[l].op # "qa"

\* A text that f has or had
Was(t, f) == t \in Texts /\ t[1] = f /\ t[2] <= text[f][2]

TextInv == found = Nowhere => SpecFile # Nowhere

\* A picture of this file, not older than this revision if it is of the file.
Good(file, revision, shot) ==
  /\ shot.file = file /\ Was(shot.text, file)
  /\ revision \in Texts
  /\ revision[1] = file => revision[2] <= shot.text[2]

Final(job) == IF job.start # Nowhere THEN job.start[job.scene] ELSE job.revision

Sound(job) ==
  /\ job.op # "render" => job.start = Nowhere /\ job.scene = Nowhere
  /\ job.op # "render" /\ Pending(job) => job.input # Nowhere
  /\ job.file # Nowhere => job.revision \in Texts
  /\ job.status \in {"made", "succeeded"} => Still(job.at)
  /\ Pending(job) /\ job.op = "render" =>
       /\ job.revision # Nowhere /\ Was(job.revision, job.revision[1])
       /\ job.start # Nowhere => \A f \in SceneFiles : Was(job.start[f], f)
       /\ job.start # Nowhere => job.print = <<job.searched, job.start>>
  /\ Pending(job) /\ job.op # "render" /\ job.file # Nowhere =>
       /\ Still(job.input)
       /\ media[job.input] # Nowhere => Good(job.file, job.revision, media[job.input])
  /\ job.status = "made" /\ job.op = "render" =>
       /\ job.scene \in SceneFiles /\ Final(job) \in Texts
       /\ media[job.at] # Nowhere => Good(job.scene, Final(job), media[job.at])
       /\ job.start # Nowhere => job.print = <<job.searched, job.start>>
       /\ job.start # Nowhere => \A f \in SceneFiles : Was(job.start[f], f)
  /\ job.status \in {"made", "succeeded"} /\ job.op = "qa" /\ job.file # Nowhere =>
       job.saw # Nowhere /\ Good(job.file, job.revision, job.saw)
  /\ \/ job.status = "succeeded" /\ job.op # "qa"
     \/ job.status = "made" /\ job.op \in {"frame", "export"}
     => (job.file # Nowhere /\ media[job.at] # Nowhere => Good(job.file, job.revision, media[job.at]))

HitInv(hit) ==
  /\ Still(hit.at)
  /\ \A f \in SceneFiles : Was(hit.print[2][f], f)
  /\ media[hit.at] # Nowhere => media[hit.at] = Shot(hit.scene, hit.print[2][hit.scene])

AllRows == {jobs[j] : j \in DOMAIN jobs}

SceneInv ==
  /\ SceneTypes /\ PlacesInv /\ TextInv
  /\ \A job \in AllRows : Sound(job)
  /\ \A hit \in results : HitInv(hit)

-----------------------------------------------------------------------------
(* The newest *)

(* A nonempty set of numbers up to n has a maximum. *)
LEMMA HasMax ==
  ASSUME NEW n \in Nat, NEW S \in SUBSET (0..n), S # {}
  PROVE  Max(S) \in S
PROOF
  <1> DEFINE T == {m \in 0..n : n - m \in S}
  <1>1. T \in SUBSET Nat
    OBVIOUS
  <1>2. T # {}
    <2>1. PICK x \in S : TRUE
      OBVIOUS
    <2>2. n - x \in 0..n /\ n - (n - x) = x
      OBVIOUS
    <2> QED
      BY <2>1, <2>2
  <1>3. PICK m \in T : \A k \in T : m <= k
    <2> HIDE DEF T
    <2> QED
      BY <1>1, <1>2, Least
  <1>4. n - m \in S /\ m \in 0..n
    BY <1>3
  <1>5. ASSUME NEW y \in S PROVE n - m >= y
    <2>1. y \in 0..n /\ n - y \in 0..n /\ n - (n - y) = y
      OBVIOUS
    <2>2. n - y \in T
      BY <2>1
    <2>3. m <= n - y
      BY <1>3, <2>2
    <2> QED
      BY <1>4, <2>1, <2>3
  <1> QED
    BY <1>4, <1>5 DEF Max

(* The newest of a kind, where there is one, is of that kind. *)
LEMMA NewestIs ==
  ASSUME SceneTypes, NEW ops, NEW file, NewestOf(ops, file) # 0
  PROVE  LET j == NewestOf(ops, file) IN
         /\ j \in DOMAIN jobs /\ jobs[j].status = "succeeded" /\ jobs[j].op \in ops
         /\ file = Nowhere \/ jobs[j].file = file
         /\ Existing(j)
PROOF
  <1> DEFINE P(j) == /\ jobs[j].status = "succeeded" /\ jobs[j].op \in ops
                     /\ file = Nowhere \/ jobs[j].file = file
                     /\ Existing(j)
             S == {j \in DOMAIN jobs : P(j)}
             T == {0} \cup S
  <1>1. Len(jobs) \in Nat /\ DOMAIN jobs = 1..Len(jobs)
    BY DEF SceneTypes
  <1>2. T \in SUBSET (0..Len(jobs)) /\ T # {}
    BY <1>1
  <1>3. NewestOf(ops, file) = Max(T)
    BY DEF NewestOf
  <1>4. Max(T) \in T
    <2> HIDE DEF T
    <2> QED
      BY <1>1, <1>2, HasMax
  <1>5. NewestOf(ops, file) \in S
    BY <1>3, <1>4
  <1> QED
    BY <1>5

-----------------------------------------------------------------------------
(* What a step leaves true *)

\* Texts only get newer.
Grows == \A f \in SceneFiles :
           text'[f] \in Texts /\ text'[f][1] = f /\ text[f][2] <= text'[f][2]

\* What nobody has yet to write stays so, and is no other picture.
Remain == \A l \in Places : Still(l) => Still(l)' /\ media'[l] \in {media[l], Nowhere}

(* A version that was stays one that was. *)
LEMMA WasStays ==
  ASSUME SceneTypes, Grows, NEW t, NEW f \in SceneFiles, Was(t, f)
  PROVE  Was(t, f)'
PROOF
  <1>1. t \in Texts /\ t[1] = f /\ t[2] <= text[f][2] /\ text[f] \in Texts
    BY DEF SceneTypes, Was
  <1>2. text[f][2] <= text'[f][2] /\ text'[f] \in Texts
    BY DEF Grows
  <1>3. t[2] \in Nat /\ text[f][2] \in Nat /\ text'[f][2] \in Nat
    BY <1>1, <1>2 DEF Texts
  <1>4. t[2] <= text'[f][2]
    BY <1>1, <1>2, <1>3
  <1> QED
    BY <1>1, <1>4 DEF Was, Texts

(* So does a picture that is good for its revision. *)
LEMMA GoodStays ==
  ASSUME SceneTypes, Grows, NEW file \in SceneFiles, NEW revision, NEW shot,
         Good(file, revision, shot)
  PROVE  Good(file, revision, shot)'
PROOF
  <1>1. Was(shot.text, file)'
    BY WasStays DEF Good
  <1> QED
    BY <1>1 DEF Good, Texts

(* A picture that is what it was tells what it did. *)
LEMMA PictureStays ==
  ASSUME SceneTypes, Grows, NEW file \in SceneFiles, NEW revision, NEW l,
         media'[l] = media[l], Good(file, revision, media[l])
  PROVE  Good(file, revision, media[l])'
PROOF
  <1>1. Was(media[l].text, file)
    BY DEF Good
  <1> DEFINE t == media[l].text
  <1>2. Was(t, file)' /\ t = media'[l].text
    <2> HIDE DEF t
    <2>1. Was(t, file)
      BY <1>1 DEF t
    <2>2. t \in Texts /\ t[1] = file /\ t[2] <= text[file][2] /\ text[file] \in Texts
      BY <2>1 DEF Was, SceneTypes
    <2>3. text[file][2] <= text'[file][2] /\ text'[file] \in Texts
      BY DEF Grows
    <2>4. t[2] <= text'[file][2]
      BY <2>2, <2>3 DEF Texts
    <2> QED
      BY <2>2, <2>4 DEF Was, Texts, t
  <1> QED
    BY <1>2 DEF Good, Was, Texts

(* A row that a step leaves alone stays sound. *)
LEMMA SoundStays ==
  ASSUME SceneTypes, Grows, Remain, NEW job \in JobRows, Sound(job)
  PROVE  Sound(job)'
PROOF
  <1>0. /\ job.at \in Places /\ job.file \in SceneFiles \cup {Nowhere}
        /\ job.input \in Places \cup {Nowhere} /\ job.scene \in SceneFiles \cup {Nowhere}
        /\ job.revision \in Texts \cup {Nowhere}
    BY DEF JobRows
  <1>1. /\ job.op # "render" => job.start = Nowhere /\ job.scene = Nowhere
        /\ job.op # "render" /\ Pending(job) => job.input # Nowhere
        /\ job.file # Nowhere => job.revision \in Texts'
    BY DEF Sound, Texts
  <1>2. job.status \in {"made", "succeeded"} =>
          Still(job.at) /\ Still(job.at)' /\ media'[job.at] \in {media[job.at], Nowhere}
    BY <1>0 DEF Sound, Remain
  <1>3. ASSUME Pending(job), job.op = "render"
        PROVE  /\ job.revision # Nowhere /\ Was(job.revision, job.revision[1])'
               /\ job.start # Nowhere => \A f \in SceneFiles : Was(job.start[f], f)'
               /\ job.start # Nowhere => job.print = <<job.searched, job.start>>
    <2>1. /\ job.revision # Nowhere /\ Was(job.revision, job.revision[1])
          /\ job.start # Nowhere => \A f \in SceneFiles : Was(job.start[f], f)
          /\ job.start # Nowhere => job.print = <<job.searched, job.start>>
      BY <1>3 DEF Sound
    <2>2. job.revision[1] \in SceneFiles
      BY <1>0, <2>1 DEF Texts
    <2> QED
      BY <2>1, <2>2, WasStays
  <1>4. ASSUME Pending(job), job.op # "render", job.file # Nowhere
        PROVE  /\ Still(job.input)'
               /\ media'[job.input] # Nowhere => Good(job.file, job.revision, media[job.input])'
    <2>1. /\ Still(job.input)
          /\ media[job.input] # Nowhere => Good(job.file, job.revision, media[job.input])
          /\ job.input \in Places
      BY <1>0, <1>4 DEF Sound
    <2>2. Still(job.input)' /\ media'[job.input] \in {media[job.input], Nowhere}
      BY <2>1 DEF Remain
    <2> QED
      BY <1>0, <1>4, <2>1, <2>2, PictureStays
  <1>5. ASSUME job.status = "made", job.op = "render"
        PROVE  /\ job.scene \in SceneFiles /\ Final(job) \in Texts'
               /\ media'[job.at] # Nowhere => Good(job.scene, Final(job), media[job.at])'
               /\ job.start # Nowhere => job.print = <<job.searched, job.start>>
               /\ job.start # Nowhere => \A f \in SceneFiles : Was(job.start[f], f)'
    <2>1. /\ job.scene \in SceneFiles /\ Final(job) \in Texts
          /\ media[job.at] # Nowhere => Good(job.scene, Final(job), media[job.at])
          /\ job.start # Nowhere => job.print = <<job.searched, job.start>>
          /\ job.start # Nowhere => \A f \in SceneFiles : Was(job.start[f], f)
      BY <1>5 DEF Sound
    <2>2. media'[job.at] # Nowhere => Good(job.scene, Final(job), media[job.at])'
      BY <1>2, <1>5, <2>1, PictureStays
    <2>3. job.start # Nowhere => \A f \in SceneFiles : Was(job.start[f], f)'
      BY <2>1, WasStays
    <2> QED
      BY <2>1, <2>2, <2>3 DEF Texts
  <1>6. ASSUME job.status \in {"made", "succeeded"}, job.op = "qa", job.file # Nowhere
        PROVE  job.saw # Nowhere /\ Good(job.file, job.revision, job.saw)'
    <2>1. job.saw # Nowhere /\ Good(job.file, job.revision, job.saw)
      BY <1>6 DEF Sound
    <2> QED
      BY <1>0, <1>6, <2>1, GoodStays
  <1>7. ASSUME \/ job.status = "succeeded" /\ job.op # "qa"
               \/ job.status = "made" /\ job.op \in {"frame", "export"},
               job.file # Nowhere, media'[job.at] # Nowhere
        PROVE  Good(job.file, job.revision, media[job.at])'
    <2>1. media'[job.at] = media[job.at] /\ media[job.at] # Nowhere
      BY <1>2, <1>7
    <2>2. Good(job.file, job.revision, media[job.at])
      BY <1>7, <2>1 DEF Sound
    <2> QED
      BY <1>0, <1>7, <2>1, <2>2, PictureStays
  <1>8. job.status \in {"made", "succeeded"} => Still(job.at)'
    BY <1>2
  <1> QED
    BY <1>1, <1>3, <1>4, <1>5, <1>6, <1>7, <1>8 DEF Sound, Pending, Final

(* An entry of the result cache stays true. *)
LEMMA HitStays ==
  ASSUME SceneTypes, Grows, Remain, NEW hit \in results, HitInv(hit)
  PROVE  HitInv(hit)'
PROOF
  <1>1. hit.at \in Places
    BY DEF SceneTypes, Places
  <1>2. Still(hit.at)' /\ media'[hit.at] \in {media[hit.at], Nowhere}
    BY <1>1 DEF HitInv, Remain
  <1>3. \A f \in SceneFiles : Was(hit.print[2][f], f)'
    BY WasStays DEF HitInv
  <1> QED
    BY <1>2, <1>3 DEF HitInv, Shot

-----------------------------------------------------------------------------
(* Steps that change no job *)

\* What is at a place stays there, or goes.
Fades == \A l \in Places : media'[l] \in {media[l], Nowhere}

(* Steps that leave the jobs and the result cache alone. *)
LEMMA OtherScenes ==
  ASSUME SceneInv, Grows, Fades, UNCHANGED <<jobs, results>>,
         home' \in SceneFiles, text' \in [SceneFiles -> Texts], found' \in {found} \cup SceneFiles,
         media' \in [Places -> Shots \cup {Nowhere}]
  PROVE  SceneInv'
PROOF
  <1>0. SceneTypes /\ PlacesInv /\ TextInv
    BY DEF SceneInv
  <1>1. \A l \in Places : Still(l)' <=> Still(l)
    BY DEF Still, Pending
  <1>2. Remain
    BY <1>1 DEF Remain, Fades
  <1>3. SceneTypes'
    <2>1. \A f \in SceneFiles : text'[f][1] = f
      BY DEF Grows
    <2>2. found' \in SceneFiles \cup {Nowhere}
      BY <1>0 DEF SceneTypes
    <2> QED
      BY <1>0, <2>1, <2>2 DEF SceneTypes, Places, Texts, JobRows, Prints, Shots, JobDirs
  <1>4. PlacesInv'
    <2>1. \A l \in JobDirs : media'[l] # Nowhere => media[l] # Nowhere
      BY DEF Fades, Places
    <2> QED
      BY <1>0, <2>1 DEF PlacesInv, Pending, JobDirs
  <1>5. TextInv'
    BY <1>0, MediaAssumption DEF TextInv
  <1>6. \A job \in AllRows' : Sound(job)'
    <2> SUFFICES ASSUME NEW job \in AllRows PROVE Sound(job)'
      BY DEF AllRows
    <2>1. job \in JobRows /\ Sound(job)
      BY <1>0 DEF SceneInv, SceneTypes, AllRows
    <2> QED
      BY <1>0, <1>2, <2>1, SoundStays
  <1>7. \A hit \in results' : HitInv(hit)'
    BY <1>0, <1>2, HitStays DEF SceneInv
  <1> QED
    BY <1>3, <1>4, <1>5, <1>6, <1>7 DEF SceneInv

(* An edit, or a move of the scene to another file. *)
LEMMA EditFileKeeps ==
  ASSUME SceneInv, NEW f \in SceneFiles, EditFile(f) \/ Move(f)
  PROVE  SceneInv'
PROOF
  <1>0. /\ SceneTypes
        /\ \A g \in SceneFiles : text[g] \in Texts /\ text[g][1] = g /\ text[g][2] \in Nat
    BY DEF SceneInv, SceneTypes, Texts
  <1>1. \E S \in SUBSET SceneFiles :
          text' = [g \in SceneFiles |-> IF g \in S THEN <<g, text[g][2] + 1>> ELSE text[g]]
    <2>1. CASE EditFile(f)
      <3>1. text' = [g \in SceneFiles |-> IF g \in {f} THEN <<g, text[g][2] + 1>> ELSE text[g]]
        BY <1>0, <2>1 DEF EditFile, SceneTypes
      <3> QED
        BY <3>1
    <2>2. CASE Move(f)
      <3>1. text' = [g \in SceneFiles |-> IF g \in {f, home} THEN <<g, text[g][2] + 1>> ELSE text[g]]
        BY <2>2 DEF Move
      <3> QED
        BY <1>0, <3>1 DEF SceneTypes
    <2> QED
      BY <2>1, <2>2
  <1>2. PICK S \in SUBSET SceneFiles :
          text' = [g \in SceneFiles |-> IF g \in S THEN <<g, text[g][2] + 1>> ELSE text[g]]
    BY <1>1
  <1>3. \A g \in SceneFiles : text'[g] = IF g \in S THEN <<g, text[g][2] + 1>> ELSE text[g]
    BY <1>2
  <1>4. \A g \in SceneFiles :
          text'[g] \in Texts /\ text'[g][1] = g /\ text[g][2] <= text'[g][2]
    <2> SUFFICES ASSUME NEW g \in SceneFiles
                 PROVE  text'[g] \in Texts /\ text'[g][1] = g /\ text[g][2] <= text'[g][2]
      OBVIOUS
    <2>1. CASE g \in S
      <3>1. text'[g] = <<g, text[g][2] + 1>> /\ text[g][2] \in Nat
        BY <1>0, <1>3, <2>1
      <3> QED
        BY <3>1 DEF Texts
    <2>2. CASE g \notin S
      <3>1. text'[g] = text[g] /\ text[g][2] \in Nat
        BY <1>0, <1>3, <2>2
      <3> QED
        BY <1>0, <3>1
    <2> QED
      BY <2>1, <2>2
  <1>5. Grows /\ text' \in [SceneFiles -> Texts]
    BY <1>2, <1>4 DEF Grows
  <1>6. /\ UNCHANGED <<found, jobs, media, results>> /\ home' \in SceneFiles
    BY <1>0 DEF EditFile, Move, SceneTypes
  <1>7. Fades /\ media' \in [Places -> Shots \cup {Nowhere}]
    BY <1>0, <1>6 DEF Fades, SceneTypes
  <1> QED
    BY <1>5, <1>6, <1>7, OtherScenes

\* The texts that there are are not older than themselves.
LEMMA SameTexts == SceneTypes /\ text' = text => Grows
PROOF
  BY DEF SceneTypes, Grows, Texts

LEMMA RescanKeeps ==
  ASSUME SceneInv, Rescan
  PROVE  SceneInv'
PROOF
  <1>1. UNCHANGED <<home, text, jobs, media, results>> /\ found' = home /\ SceneTypes
    BY DEF Rescan, SceneInv
  <1>2. Grows /\ Fades
    BY <1>1, SameTexts DEF Fades
  <1> QED
    BY <1>1, <1>2, OtherScenes DEF SceneTypes

LEMMA RemoveKeeps ==
  ASSUME SceneInv, NEW l \in DOMAIN media, Remove(l)
  PROVE  SceneInv'
PROOF
  <1>1. /\ UNCHANGED <<home, text, found, jobs, results>> /\ SceneTypes
        /\ media' = [media EXCEPT ![l] = Nowhere]
    BY DEF Remove, SceneInv
  <1>2. Grows
    BY <1>1, SameTexts
  <1>3. Fades /\ media' \in [Places -> Shots \cup {Nowhere}]
    BY <1>1 DEF Fades, SceneTypes
  <1> QED
    BY <1>1, <1>2, <1>3, OtherScenes DEF SceneTypes

-----------------------------------------------------------------------------
(* Submissions *)

\* Where a new job may write, or has been found to have written.
MayHave(r) ==
  \/ /\ r.at \in JobDirs /\ r.at = Len(jobs) + 1 /\ r.op # "export"
  \/ /\ r.at \in Outputs /\ r.op = "export" /\ \A j \in DOMAIN jobs : jobs[j].at # r.at
  \/ /\ r.at \in JobDirs /\ r.op = "render" /\ Still(r.at) /\ r.status = "succeeded"

(* A submission adds a sound row. *)
LEMMA SubmissionKeeps ==
  ASSUME SceneInv, NEW r \in JobRows, MayHave(r), Len(jobs) < MaxJobs,
         jobs' = Append(jobs, r), UNCHANGED <<home, text, found, media>>,
         results' \in SUBSET results, r.status # "made",
         Remain => Sound(r)'
  PROVE  SceneInv'
PROOF
  <1> DEFINE n == Len(jobs)
  <1>0. SceneTypes /\ PlacesInv /\ TextInv /\ Grows /\ jobs \in Seq(JobRows)
    BY SameTexts DEF SceneInv, SceneTypes
  <1>1. /\ n \in Nat /\ DOMAIN jobs = 1..n /\ jobs' \in Seq(JobRows) /\ DOMAIN jobs' = 1..(n + 1)
        /\ jobs'[n + 1] = r /\ \A j \in DOMAIN jobs : jobs'[j] = jobs[j] /\ jobs[j] \in JobRows
    BY <1>0
  <1>2. /\ n + 1 \in JobDirs /\ DOMAIN jobs \subseteq JobDirs /\ n + 1 \notin DOMAIN jobs
        /\ n + 1 \in DOMAIN jobs' /\ DOMAIN jobs' = DOMAIN jobs \cup {n + 1}
    BY <1>1, MediaAssumption DEF JobDirs
  <1>3. JobDirs \cap Outputs = {} /\ Places = JobDirs \cup Outputs
    BY MediaAssumption DEF Places
  <1> HIDE DEF n
  <1>4. ASSUME NEW l \in Places, Still(l) PROVE r.at = l => ~Pending(r)
    <2>1. CASE r.at \in JobDirs /\ r.at = n + 1 /\ r.op # "export"
      <3>1. CASE l = n + 1
        BY <1>2, <1>4, <3>1 DEF Still
      <3> QED
        BY <2>1, <3>1
    <2>2. CASE r.at \in Outputs /\ \A j \in DOMAIN jobs : jobs[j].at # r.at
      <3>1. r.at # l
        BY <1>3, <1>4, <2>2 DEF Still
      <3> QED
        BY <3>1
    <2>3. CASE r.status = "succeeded"
      BY <2>3 DEF Pending
    <2> QED
      BY <2>1, <2>2, <2>3 DEF MayHave, n
  <1>5. Remain
    <2> SUFFICES ASSUME NEW l \in Places, Still(l) PROVE Still(l)'
      BY DEF Remain
    <2>1. IF l \in JobDirs THEN l \in DOMAIN jobs' ELSE \E j \in DOMAIN jobs' : jobs'[j].at = l
      BY <1>1, <1>2 DEF Still
    <2>2. \A j \in DOMAIN jobs' : jobs'[j].at = l => ~Pending(jobs'[j])
      BY <1>1, <1>2, <1>4 DEF Still
    <2> QED
      BY <2>1, <2>2 DEF Still, Pending, JobDirs
  <1>6. SceneTypes'
    <2>1. results' \in SUBSET [print : Prints, scene : SceneFiles, at : JobDirs]
      BY <1>0 DEF SceneTypes
    <2> QED
      BY <1>0, <1>1, <2>1 DEF SceneTypes, Places, Texts, JobRows, Prints, Shots, JobDirs
  <1>7. PlacesInv'
    <2>1. ASSUME NEW j \in DOMAIN jobs, NEW k \in DOMAIN jobs, Pending(jobs[j]), k # j
          PROVE  jobs[k].at # jobs[j].at
      BY <1>0, <2>1 DEF PlacesInv
    <2>2. ASSUME NEW j \in DOMAIN jobs, Pending(r) PROVE jobs[j].at # r.at
      <3>1. CASE r.at \in JobDirs /\ r.at = n + 1
        <4>1. jobs[j].at \in JobDirs => jobs[j].at <= j
          BY <1>0 DEF PlacesInv
        <4>2. j <= n /\ j \in Nat
          BY <1>1
        <4> QED
          BY <1>1, <3>1, <4>1, <4>2 DEF JobDirs
      <3>2. CASE r.status = "succeeded"
        BY <2>2, <3>2 DEF Pending
      <3> QED
        BY <3>1, <3>2 DEF MayHave, n
    <2>3. ASSUME NEW j \in DOMAIN jobs, Pending(jobs[j]) PROVE jobs[j].at # r.at
      <3>1. CASE r.at \in JobDirs /\ r.at = n + 1
        <4>1. jobs[j].at \in JobDirs => jobs[j].at <= j
          BY <1>0 DEF PlacesInv
        <4>2. j <= n /\ j \in Nat
          BY <1>1
        <4> QED
          BY <1>1, <3>1, <4>1, <4>2 DEF JobDirs
      <3>2. CASE Still(r.at)
        BY <2>3, <3>2 DEF Still
      <3> QED
        BY <3>1, <3>2 DEF MayHave, n
    <2>4. r.at \in JobDirs => r.at <= n + 1
      <3>1. CASE Still(r.at)
        BY <1>1, <3>1 DEF Still, JobDirs
      <3> QED
        BY <1>1, <1>3, <3>1 DEF MayHave, n, JobDirs
    <2>5. /\ r.op = "export" <=> r.at \in Outputs
          /\ Pending(r) => r.at = n + 1 \/ r.op = "export"
      BY <1>3 DEF MayHave, Pending, n
    <2>6. ASSUME NEW j \in DOMAIN jobs
          PROVE  /\ jobs[j].at \in JobDirs => jobs[j].at <= j
                 /\ Pending(jobs[j]) => jobs[j].at = j \/ jobs[j].op = "export"
                 /\ jobs[j].op = "export" <=> jobs[j].at \in Outputs
      BY <1>0 DEF PlacesInv
    <2>7. \A l \in JobDirs : media[l] # Nowhere =>
            l \in DOMAIN jobs /\ jobs[l].at = l /\ jobs[l].op # "qa"
      BY <1>0 DEF PlacesInv
    <2>8. \A j \in DOMAIN jobs' :
            /\ jobs'[j].at \in JobDirs => jobs'[j].at <= j
            /\ Pending(jobs'[j]) => jobs'[j].at = j \/ jobs'[j].op = "export"
            /\ jobs'[j].op = "export" <=> jobs'[j].at \in Outputs
      BY <1>1, <1>2, <2>4, <2>5, <2>6
    <2>9. \A j, k \in DOMAIN jobs' : Pending(jobs'[j]) /\ k # j => jobs'[k].at # jobs'[j].at
      BY <1>1, <1>2, <2>1, <2>2, <2>3
    <2>10. \A l \in JobDirs : media'[l] # Nowhere =>
            l \in DOMAIN jobs' /\ jobs'[l].at = l /\ jobs'[l].op # "qa"
      BY <1>1, <1>2, <2>7
    <2> QED
      BY <2>8, <2>9, <2>10 DEF PlacesInv, Pending, JobDirs
  <1>8. TextInv'
    BY <1>0 DEF TextInv
  <1>9. \A job \in AllRows' : Sound(job)'
    <2>1. AllRows' \subseteq AllRows \cup {r}
      BY <1>1, <1>2 DEF AllRows
    <2>2. ASSUME NEW job \in AllRows PROVE Sound(job)'
      <3>1. job \in JobRows /\ Sound(job)
        BY <1>1 DEF SceneInv, AllRows
      <3> QED
        BY <1>0, <1>5, <3>1, SoundStays
    <2> QED
      BY <1>5, <2>1, <2>2
  <1>10. \A hit \in results' : HitInv(hit)'
    BY <1>0, <1>5, HitStays DEF SceneInv
  <1> QED
    BY <1>6, <1>7, <1>8, <1>9, <1>10 DEF SceneInv

\* What the runs assume of the project and of how jobs name their sources.
Plain == (Indexed \/ SpecFile # Nowhere) /\ ~MayReuse /\ ~MayPeek

(* A row as it is inserted. *)
LEMMA NewRow ==
  ASSUME NEW op \in {"render", "export", "frame", "qa"}, NEW searched \in SUBSET SceneFiles,
         NEW file \in SceneFiles \cup {Nowhere}, NEW revision \in Texts \cup {Nowhere},
         NEW source \in Nat, NEW input \in Places \cup {Nowhere}, NEW place \in Places
  PROVE  LET r == Row(op, searched, file, revision, source, input, place) IN
         /\ r \in JobRows /\ r.op = op /\ r.searched = searched /\ r.file = file
         /\ r.revision = revision /\ r.input = input /\ r.at = place /\ r.status = "queued"
         /\ r.start = Nowhere /\ r.scene = Nowhere /\ r.print = Nowhere
PROOF
  BY DEF Row, JobRows

(* A row as it ends. *)
LEMMA OverRow ==
  ASSUME NEW job \in JobRows,
         NEW status \in {"queued", "running", "made", "succeeded", "failed"}
  PROVE  LET r == Over(job, status) IN
         /\ r \in JobRows /\ r.op = job.op /\ r.file = job.file /\ r.revision = job.revision
         /\ r.at = job.at /\ r.status = status /\ r.saw = job.saw
         /\ r.start = Nowhere /\ r.scene = Nowhere
PROOF
  <1>1. PICK r : r = Over(job, status)
    OBVIOUS
  <1>2. r = [job EXCEPT !.status = status, !.searched = {}, !.input = Nowhere,
                          !.print = Nowhere, !.start = Nowhere, !.scene = Nowhere]
    BY <1>1 DEF Over
  <1>3. /\ r.op = job.op /\ r.file = job.file /\ r.revision = job.revision
        /\ r.at = job.at /\ r.status = status /\ r.saw = job.saw
        /\ r.start = Nowhere /\ r.scene = Nowhere
    BY <1>2 DEF JobRows
  <1>4. r \in JobRows
    BY <1>2 DEF JobRows
  <1> QED
    BY <1>1, <1>3, <1>4

(* A job that reads the media of another, or of nobody known. *)
LEMMA ReadsKeeps ==
  ASSUME SceneInv, NEW op \in {"frame", "qa", "export"}, NEW j, NEW input \in Places, NEW place,
         \/ j = 0
         \/ j \in DOMAIN jobs /\ jobs[j].status = "succeeded" /\ jobs[j].op # "qa"
            /\ jobs[j].at = input,
         \/ op # "export" /\ place = Len(jobs) + 1
         \/ op = "export" /\ place \in Outputs /\ \A k \in DOMAIN jobs : jobs[k].at # place,
         Reads(op, j, input, place)
  PROVE  SceneInv'
PROOF
  <1>p. PICK r : r = IF j = 0 THEN Row(op, {}, Nowhere, Nowhere, 0, input, place)
                         ELSE Row(op, {}, jobs[j].file, Inherited(jobs[j]), j, input, place)
    OBVIOUS
  <1>0. SceneTypes /\ jobs \in Seq(JobRows) /\ Len(jobs) \in Nat
    BY DEF SceneInv, SceneTypes
  <1>1. /\ Len(jobs) < MaxJobs /\ jobs' = Append(jobs, r)
        /\ UNCHANGED <<home, text, found, media, results>>
    BY <1>p DEF Reads
  <1>2. place \in Places /\ (op # "export" => place \in JobDirs)
    BY <1>0, <1>1, MediaAssumption DEF Places, JobDirs
  <1>3. CASE j = 0
    <2>1. r = Row(op, {}, Nowhere, Nowhere, 0, input, place)
      BY <1>3, <1>p
    <2>2. /\ r \in JobRows /\ r.op = op /\ r.file = Nowhere /\ r.at = place
          /\ r.status = "queued" /\ r.start = Nowhere /\ r.scene = Nowhere
          /\ r.input = input /\ input # Nowhere
      BY <1>2, <2>1, NewRow, MediaAssumption DEF Places
    <2>3. MayHave(r)
      BY <1>2, <2>2 DEF MayHave
    <2>4. Sound(r)'
      BY <2>2 DEF Sound, Pending
    <2> QED
      BY <1>1, <2>2, <2>3, <2>4, SubmissionKeeps
  <1>4. CASE j # 0
    <2>p. PICK job : job = jobs[j]
      OBVIOUS
    <2>1. /\ job \in JobRows /\ Sound(job) /\ job.status = "succeeded" /\ job.op # "qa"
          /\ job.at = input /\ j \in Nat
      BY <1>0, <1>4, <2>p DEF SceneInv, AllRows
    <2>2. r = Row(op, {}, job.file, job.revision, j, input, place)
      BY <1>4, <1>p, <2>p DEF Inherited
    <2>3. job.file \in SceneFiles \cup {Nowhere} /\ job.revision \in Texts \cup {Nowhere}
      BY <2>1 DEF JobRows
    <2>4. /\ r \in JobRows /\ r.op = op /\ r.file = job.file /\ r.revision = job.revision
          /\ r.input = input /\ r.at = place
          /\ r.status = "queued" /\ r.start = Nowhere /\ r.scene = Nowhere
      BY <1>2, <2>1, <2>2, <2>3, NewRow
    <2>5. MayHave(r)
      BY <1>2, <2>4 DEF MayHave
    <2>6. Still(input) /\ input # Nowhere
      BY <2>1, MediaAssumption DEF Sound, Places
    <2>7. job.file # Nowhere => job.revision \in Texts
      BY <2>1 DEF Sound
    <2>8. job.file # Nowhere /\ media[input] # Nowhere => Good(job.file, job.revision, media[input])
      BY <2>1 DEF Sound
    <2>9. ASSUME Remain PROVE Sound(r)'
      <3>1. Still(input)'
        BY <2>6, <2>9 DEF Remain
      <3>2. job.file # Nowhere /\ media'[input] # Nowhere =>
              Good(job.file, job.revision, media[input])'
        BY <1>1, <2>8 DEF Good, Was
      <3> QED
        BY <2>4, <2>6, <2>7, <3>1, <3>2 DEF Sound, Pending, Texts
    <2> QED
      BY <1>1, <2>4, <2>5, <2>9, SubmissionKeeps
  <1> QED
    BY <1>3, <1>4

(* Whatever its source, a reader is filed where that is. *)
LEMMA SelectsKeeps ==
  ASSUME SceneInv, Plain, NEW op \in {"frame", "qa", "export"}, NEW from, "qa" \notin from, NEW place,
         \/ op # "export" /\ place = Len(jobs) + 1
         \/ op = "export" /\ place \in Outputs /\ \A k \in DOMAIN jobs : jobs[k].at # place,
         Selects(op, from, place)
  PROVE  SceneInv'
PROOF
  <1>0. SceneTypes /\ PlacesInv /\ jobs \in Seq(JobRows) /\ DOMAIN media = Places
    BY DEF SceneInv, SceneTypes
  <1>1. ASSUME NEW j \in DOMAIN jobs, NEW kinds, "qa" \notin kinds, FromRecord(op, j, kinds, place)
        PROVE  SceneInv'
    <2>1. jobs[j].status = "succeeded" /\ jobs[j].op # "qa" /\ Reads(op, j, jobs[j].at, place)
      BY <1>1 DEF FromRecord
    <2>2. jobs[j].at \in Places
      <3>1. jobs[j] \in JobRows
        BY <1>0
      <3> QED
        BY <3>1 DEF JobRows
    <2> QED
      BY <2>1, <2>2, ReadsKeeps
  <1>2. CASE FromRecord(op, NewestOf({"render"}, SpecFile), {"render"}, place)
    <2>1. NewestOf({"render"}, SpecFile) # 0
      BY <1>2 DEF FromRecord
    <2>2. NewestOf({"render"}, SpecFile) \in DOMAIN jobs
      BY <1>0, <2>1, NewestIs
    <2> QED
      BY <1>1, <1>2, <2>2
  <1>3. CASE \E j \in DOMAIN jobs : FromRecord(op, j, from, place)
    BY <1>1, <1>3
  <1>4. ASSUME NEW l \in DOMAIN media, FromPath(op, l, place) PROVE SceneInv'
    <2>1. media[l] # Nowhere /\ (l \in JobDirs => jobs[l].status = "succeeded") /\ l \in Places
      BY <1>0, <1>4 DEF FromPath, Plain
    <2>2. CASE l \in JobDirs
      <3>1. Reads(op, l, l, place)
        BY <1>4, <2>2 DEF FromPath
      <3>2. l \in DOMAIN jobs /\ jobs[l].at = l /\ jobs[l].op # "qa"
        BY <1>0, <2>1, <2>2 DEF PlacesInv
      <3> QED
        BY <2>1, <2>2, <3>1, <3>2, ReadsKeeps
    <2>3. CASE l \notin JobDirs
      <3>1. Reads(op, 0, l, place)
        BY <1>4, <2>3 DEF FromPath
      <3> QED
        BY <2>1, <3>1, ReadsKeeps
    <2> QED
      BY <2>2, <2>3
  <1> QED
    BY <1>2, <1>3, <1>4 DEF Selects

LEMMA SubmitReaderKeeps ==
  ASSUME SceneInv, Plain, SubmitFrame \/ SubmitQa \/ \E o \in Outputs : SubmitExport(o)
  PROVE  SceneInv'
PROOF
  <1>1. CASE SubmitFrame
    BY <1>1, SelectsKeeps DEF SubmitFrame, Videos
  <1>2. CASE SubmitQa
    BY <1>2, SelectsKeeps DEF SubmitQa, Videos
  <1>3. ASSUME NEW o \in Outputs, SubmitExport(o) PROVE SceneInv'
    <2>1. (\A k \in DOMAIN jobs : jobs[k].at # o) /\ Selects("export", Videos, o)
      BY <1>3 DEF SubmitExport, Plain
    <2> QED
      BY <2>1, SelectsKeeps DEF Videos
  <1> QED
    BY <1>1, <1>2, <1>3

(* A submission knows the scene's file, as it is. *)
LEMMA Associates ==
  ASSUME SceneTypes, TextInv, NEW named \in SceneFiles \cup {Nowhere}
  PROVE  LET file == Association(named) IN
         /\ file \in SceneFiles /\ Revision(file) = text[file]
         /\ Revision(file) \in Texts /\ Revision(file) # Nowhere
         /\ Was(Revision(file), file) /\ Revision(file)[1] = file
         /\ Searched(named) \in SUBSET SceneFiles
PROOF
  <1> DEFINE file == Association(named)
  <1>1. Searched(named) \in SUBSET SceneFiles
    BY MediaAssumption DEF Searched, Chosen
  <1>2. file \in SceneFiles
    BY MediaAssumption DEF Association, Chosen, SceneTypes, TextInv
  <1> HIDE DEF file
  <1>3. Revision(file) = text[file] /\ text[file] \in Texts /\ text[file][1] = file
    BY <1>2, MediaAssumption DEF Revision, SceneTypes
  <1>4. Revision(file) # Nowhere /\ Was(Revision(file), file)
    BY <1>3, MediaAssumption DEF Was, Texts
  <1> QED
    BY <1>1, <1>2, <1>3, <1>4 DEF file

(* A render, or the answer from the cache. *)
LEMMA SubmitRenderKeeps ==
  ASSUME SceneInv, NEW named \in SceneFiles \cup {Nowhere}, SubmitRender(named)
  PROVE  SceneInv'
PROOF
  <1> DEFINE print == Fingerprint(Searched(named))
             hits == {hit \in results : hit.print = print}
             intact == {hit \in hits : media[hit.at] # Nowhere}
  <1>p. PICK file, revision : file = Association(named) /\ revision = Revision(file)
    OBVIOUS
  <1>0. SceneTypes /\ TextInv /\ jobs \in Seq(JobRows) /\ Len(jobs) \in Nat
    BY DEF SceneInv, SceneTypes
  <1>1. /\ file \in SceneFiles /\ revision \in Texts /\ revision # Nowhere
        /\ revision = text[file] /\ Was(revision, file) /\ revision[1] = file
        /\ Searched(named) \in SUBSET SceneFiles
    BY <1>0, <1>p, Associates
  <1>2. Len(jobs) < MaxJobs /\ UNCHANGED <<home, text, found, media>>
    BY DEF SubmitRender
  <1>3. ASSUME NEW hit \in intact, Cached(named, hit) PROVE SceneInv'
    <2>1. /\ hit \in results /\ HitInv(hit) /\ hit.print = print /\ media[hit.at] # Nowhere
          /\ hit.scene \in SceneFiles /\ hit.at \in JobDirs
      BY <1>0 DEF SceneInv, SceneTypes
    <2> DEFINE row0 == Row("render", {}, hit.scene, revision, 0, Nowhere, hit.at)
    <2>p. PICK r : r = Over(row0, "succeeded")
      OBVIOUS
    <2>2. jobs' = Append(jobs, r) /\ results' = results
      BY <1>3, <1>p, <2>p DEF Cached
    <2>3. hit.print[2] = text
      BY <2>1 DEF Fingerprint
    <2>4. media[hit.at] = Shot(hit.scene, text[hit.scene])
      BY <2>1, <2>3 DEF HitInv
    <2> HIDE DEF print, hits, intact
    <2>5. row0 \in JobRows /\ row0.op = "render" /\ row0.file = hit.scene /\ row0.revision = revision
          /\ row0.at = hit.at
      BY <1>1, <2>1, NewRow DEF Places
    <2> HIDE DEF row0
    <2>6. /\ r \in JobRows /\ r.op = "render" /\ r.file = hit.scene /\ r.revision = revision
          /\ r.at = hit.at /\ r.status = "succeeded"
      BY <2>5, <2>p, OverRow
    <2>7. MayHave(r)
      BY <2>1, <2>6 DEF MayHave, HitInv
    <2>8. Good(hit.scene, revision, media[hit.at])
      <3>1. Shot(hit.scene, text[hit.scene]).file = hit.scene
            /\ Shot(hit.scene, text[hit.scene]).text = text[hit.scene]
        BY DEF Shot
      <3>2. text[hit.scene] \in Texts /\ text[hit.scene][1] = hit.scene
        BY <1>0, <2>1 DEF SceneTypes
      <3>3. text[hit.scene][2] \in Nat
        BY <3>2 DEF Texts
      <3>4. Was(text[hit.scene], hit.scene)
        BY <3>2, <3>3 DEF Was
      <3>5. revision[1] = hit.scene => revision[2] <= text[hit.scene][2]
        BY <1>1, <3>3
      <3> QED
        BY <1>1, <2>4, <3>1, <3>4, <3>5 DEF Good
    <2>9. ASSUME Remain PROVE Sound(r)'
      <3>1. Still(hit.at)'
        BY <2>1, <2>9 DEF Remain, HitInv, Places
      <3>2. Good(hit.scene, revision, media[hit.at])'
        BY <1>2, <2>8 DEF Good, Was
      <3> QED
        BY <1>1, <2>6, <3>1, <3>2 DEF Sound, Pending, Texts
    <2>10. results' \in SUBSET results
      BY <2>2
    <2>11. r.status # "made"
      BY <2>6
    <2> QED
      BY <1>2, <2>2, <2>6, <2>7, <2>9, <2>10, <2>11, SubmissionKeeps
  <1>4. ASSUME results' = results \ hits,
               jobs' = Append(jobs, [Row("render", Searched(named), file, revision, 0, Nowhere,
                                         Len(jobs) + 1) EXCEPT !.print = print])
        PROVE  SceneInv'
    <2> DEFINE row0 == Row("render", Searched(named), file, revision, 0, Nowhere, Len(jobs) + 1)
    <2>p. PICK r : r = [row0 EXCEPT !.print = print]
      OBVIOUS
    <2>1. print \in Prints
      BY <1>0, <1>1 DEF Fingerprint, Prints, SceneTypes
    <2>2. results' \in SUBSET results /\ jobs' = Append(jobs, r)
      BY <1>4, <2>p
    <2>3. Len(jobs) + 1 \in JobDirs
      BY <1>0, <1>2, MediaAssumption DEF JobDirs
    <2> HIDE DEF print, hits, intact
    <2>4. /\ row0 \in JobRows /\ row0.op = "render" /\ row0.file = file /\ row0.revision = revision
          /\ row0.at = Len(jobs) + 1 /\ row0.status = "queued" /\ row0.start = Nowhere
      BY <1>1, <2>3, NewRow DEF Places
    <2> HIDE DEF row0
    <2>5. /\ r \in JobRows /\ r.op = "render" /\ r.file = file /\ r.revision = revision
          /\ r.at = Len(jobs) + 1 /\ r.status = "queued" /\ r.start = Nowhere
      BY <2>1, <2>4, <2>p DEF JobRows
    <2>6. MayHave(r)
      BY <2>3, <2>5 DEF MayHave
    <2>7. Sound(r)'
      <3>1. Was(revision, revision[1])'
        BY <1>1, <1>2 DEF Was
      <3> QED
        BY <1>1, <2>5, <3>1 DEF Sound, Pending, Texts
    <2>8. r.status # "made"
      BY <2>5
    <2> QED
      BY <1>2, <2>2, <2>5, <2>6, <2>7, <2>8, SubmissionKeeps
  <1>5. \/ \E hit \in intact : Cached(named, hit)
        \/ /\ results' = results \ hits
           /\ jobs' = Append(jobs, [Row("render", Searched(named), file, revision, 0, Nowhere,
                                        Len(jobs) + 1) EXCEPT !.print = print])
    BY <1>p DEF SubmitRender
  <1> QED
    BY <1>3, <1>4, <1>5

-----------------------------------------------------------------------------
(* Runs *)

(* A job goes on: its row changes, and only its own place, while it has yet to
   write there. *)
LEMMA RowChanges ==
  ASSUME SceneInv, NEW j \in DOMAIN jobs, NEW r \in JobRows, jobs' = [jobs EXCEPT ![j] = r],
         UNCHANGED <<home, text, found>>,
         r.at = jobs[j].at, r.op = jobs[j].op, Pending(r) => Pending(jobs[j]),
         media' \in [Places -> Shots \cup {Nowhere}],
         \A l \in Places : \/ media'[l] \in {media[l], Nowhere}
                           \/ l = jobs[j].at /\ Pending(jobs[j]) /\ jobs[j].op # "qa",
         results' \in SUBSET [print : Prints, scene : SceneFiles, at : JobDirs],
         Remain => Sound(r)',
         Remain => \A hit \in results' : hit \in results \/ HitInv(hit)'
  PROVE  SceneInv'
PROOF
  <1>0. SceneTypes /\ PlacesInv /\ TextInv /\ Grows /\ jobs \in Seq(JobRows)
    BY SameTexts DEF SceneInv, SceneTypes
  <1>1. /\ jobs' \in Seq(JobRows) /\ DOMAIN jobs' = DOMAIN jobs /\ jobs'[j] = r
        /\ \A k \in DOMAIN jobs : (k # j => jobs'[k] = jobs[k]) /\ jobs[k] \in JobRows
    BY <1>0
  <1>2. \A k \in DOMAIN jobs : /\ jobs'[k].at = jobs[k].at /\ jobs'[k].op = jobs[k].op
                              /\ Pending(jobs'[k]) => Pending(jobs[k])
    BY <1>1
  <1>3. ASSUME NEW l \in Places, Still(l) PROVE Still(l)' /\ media'[l] \in {media[l], Nowhere}
    <2>1. \A k \in DOMAIN jobs' : jobs'[k].at = l => ~Pending(jobs'[k])
      BY <1>1, <1>2, <1>3 DEF Still
    <2>2. IF l \in JobDirs THEN l \in DOMAIN jobs' ELSE \E k \in DOMAIN jobs' : jobs'[k].at = l
      BY <1>1, <1>2, <1>3 DEF Still
    <2>3. ~(l = jobs[j].at /\ Pending(jobs[j]))
      BY <1>3 DEF Still
    <2> QED
      BY <2>1, <2>2, <2>3 DEF Still, Pending, JobDirs
  <1>4. Remain
    BY <1>3 DEF Remain
  <1>5. SceneTypes'
    BY <1>0, <1>1 DEF SceneTypes, Places, Texts, JobRows, Prints, Shots, JobDirs
  <1>6. PlacesInv'
    <2>1. \A k \in DOMAIN jobs :
            /\ jobs[k].at \in JobDirs => jobs[k].at <= k
            /\ Pending(jobs[k]) => \A i \in DOMAIN jobs : i # k => jobs[i].at # jobs[k].at
            /\ Pending(jobs[k]) => jobs[k].at = k \/ jobs[k].op = "export"
            /\ jobs[k].op = "export" <=> jobs[k].at \in Outputs
      BY <1>0 DEF PlacesInv
    <2>2. ASSUME NEW l \in JobDirs, media'[l] # Nowhere
          PROVE  l \in DOMAIN jobs /\ jobs[l].at = l /\ jobs[l].op # "qa"
      <3>1. CASE media[l] # Nowhere
        BY <1>0, <3>1 DEF PlacesInv
      <3>2. CASE l = jobs[j].at /\ Pending(jobs[j]) /\ jobs[j].op # "qa"
        <4>1. l \notin Outputs
          BY MediaAssumption
        <4> QED
          BY <2>1, <3>2, <4>1
      <3> QED
        BY <2>2, <3>1, <3>2 DEF Places
    <2>3. \A k \in DOMAIN jobs' :
            /\ jobs'[k].at \in JobDirs => jobs'[k].at <= k
            /\ Pending(jobs'[k]) => \A i \in DOMAIN jobs' : i # k => jobs'[i].at # jobs'[k].at
            /\ Pending(jobs'[k]) => jobs'[k].at = k \/ jobs'[k].op = "export"
            /\ jobs'[k].op = "export" <=> jobs'[k].at \in Outputs
      BY <1>1, <1>2, <2>1
    <2>4. \A l \in JobDirs : media'[l] # Nowhere =>
            l \in DOMAIN jobs' /\ jobs'[l].at = l /\ jobs'[l].op # "qa"
      BY <1>1, <1>2, <2>2
    <2> QED
      BY <2>3, <2>4 DEF PlacesInv, Pending, JobDirs
  <1>7. TextInv'
    BY <1>0 DEF TextInv
  <1>8. \A job \in AllRows' : Sound(job)'
    <2>1. AllRows' \subseteq AllRows \cup {r}
      BY <1>1 DEF AllRows
    <2>2. ASSUME NEW job \in AllRows PROVE Sound(job)'
      <3>1. job \in JobRows /\ Sound(job)
        BY <1>1 DEF SceneInv, AllRows
      <3> QED
        BY <1>0, <1>4, <3>1, SoundStays
    <2> QED
      BY <1>4, <2>1, <2>2
  <1>9. \A hit \in results' : HitInv(hit)'
    BY <1>0, <1>4, HitStays DEF SceneInv
  <1> QED
    BY <1>5, <1>6, <1>7, <1>8, <1>9 DEF SceneInv

(* The start fingerprint is of the texts as they are. *)
LEMMA BeginKeeps ==
  ASSUME SceneInv, NEW j \in DOMAIN jobs, Begin(j)
  PROVE  SceneInv'
PROOF
  <1>p. PICK job, r :
          job = jobs[j] /\ r = [job EXCEPT !.status = "running", !.start = text,
                                             !.print = Fingerprint(job.searched)]
    OBVIOUS
  <1>0. SceneTypes /\ jobs \in Seq(JobRows) /\ text \in [SceneFiles -> Texts]
    BY DEF SceneInv, SceneTypes
  <1>1. /\ job.status = "queued" /\ job.op = "render" /\ jobs' = [jobs EXCEPT ![j] = r]
        /\ UNCHANGED <<home, text, found, media, results>> /\ job \in JobRows /\ Sound(job)
    BY <1>0, <1>p DEF Begin, SceneInv, AllRows
  <1>2. Fingerprint(job.searched) \in Prints
    BY <1>0, <1>1 DEF Fingerprint, Prints, JobRows
  <1>3. /\ r \in JobRows /\ r.op = job.op /\ r.at = job.at /\ r.status = "running"
        /\ r.start = text /\ r.print = <<r.searched, text>> /\ r.revision = job.revision
        /\ r.file = job.file
    <2>1. r = [job EXCEPT !.status = "running", !.start = text,
                            !.print = Fingerprint(job.searched)]
      BY <1>p
    <2>2. /\ r.op = job.op /\ r.at = job.at /\ r.status = "running"
          /\ r.start = text /\ r.revision = job.revision /\ r.file = job.file
          /\ r.searched = job.searched /\ r.print = Fingerprint(job.searched)
      BY <1>1, <2>1 DEF JobRows
    <2>3. r \in JobRows
      BY <1>0, <1>1, <1>2, <2>1 DEF JobRows
    <2> QED
      BY <2>2, <2>3 DEF Fingerprint
  <1>4. Pending(job)
    BY <1>1 DEF Pending
  <1>5. Sound(r)'
    <2>1. job.revision # Nowhere /\ Was(job.revision, job.revision[1])
          /\ (job.file # Nowhere => job.revision \in Texts)
      BY <1>1, <1>4 DEF Sound
    <2>2. Was(r.revision, r.revision[1])'
      BY <1>1, <1>3, <2>1 DEF Was
    <2>3. \A f \in SceneFiles : Was(r.start[f], f)'
      <3> SUFFICES ASSUME NEW f \in SceneFiles PROVE Was(r.start[f], f)'
        OBVIOUS
      <3>1. text[f] \in Texts /\ text[f][1] = f
        BY <1>0 DEF SceneTypes
      <3>2. text[f][2] <= text[f][2]
        BY <3>1 DEF Texts
      <3> QED
        BY <1>1, <1>3, <3>1, <3>2 DEF Was
    <2> QED
      BY <1>1, <1>3, <2>1, <2>2, <2>3 DEF Sound, Pending, Texts
  <1>6. media' \in [Places -> Shots \cup {Nowhere}] /\ results' = results
        /\ results \in SUBSET [print : Prints, scene : SceneFiles, at : JobDirs]
    BY <1>0, <1>1 DEF SceneTypes
  <1> QED
    BY <1>1, <1>3, <1>4, <1>5, <1>6, <1>p, RowChanges

(* A job that fails takes its directory along. *)
LEMMA StopKeeps ==
  ASSUME SceneInv, NEW j \in DOMAIN jobs, Stop(j)
  PROVE  SceneInv'
PROOF
  <1>p. PICK job, r : job = jobs[j] /\ r = Over(job, "failed")
    OBVIOUS
  <1>0. SceneTypes /\ jobs \in Seq(JobRows)
    BY DEF SceneInv, SceneTypes
  <1>1. /\ jobs' = [jobs EXCEPT ![j] = r] /\ UNCHANGED <<home, text, found, results>>
        /\ job \in JobRows /\ Sound(job)
        /\ media' = IF job.at \in JobDirs THEN [media EXCEPT ![job.at] = Nowhere] ELSE media
    BY <1>0, <1>p DEF Stop, SceneInv, AllRows
  <1>2. /\ r \in JobRows /\ r.op = job.op /\ r.at = job.at /\ r.status = "failed"
        /\ r.start = Nowhere /\ r.scene = Nowhere /\ r.file = job.file
        /\ r.revision = job.revision
    BY <1>1, <1>p, OverRow
  <1>3. Sound(r)' /\ ~Pending(r)
    <2>1. job.file # Nowhere => job.revision \in Texts
      BY <1>1 DEF Sound
    <2> QED
      BY <1>2, <2>1 DEF Sound, Pending, Texts
  <1>4. /\ media' \in [Places -> Shots \cup {Nowhere}] /\ results' = results
        /\ results \in SUBSET [print : Prints, scene : SceneFiles, at : JobDirs]
        /\ \A l \in Places : media'[l] \in {media[l], Nowhere}
    BY <1>0, <1>1 DEF SceneTypes
  <1> QED
    BY <1>1, <1>2, <1>3, <1>4, <1>p, RowChanges

(* What the runtime reads is no older than what the row says. *)
LEMMA MakeKeeps ==
  ASSUME SceneInv, NEW j \in DOMAIN jobs, Make(j)
  PROVE  SceneInv'
PROOF
  <1>p. PICK job : job = jobs[j]
    OBVIOUS
  <1> DEFINE rendered == job.op = "render" /\ home \in job.searched
             copied == job.op # "render" /\ media[job.input] # Nowhere
  <1>q. PICK picture : picture = IF rendered THEN Shot(home, text[home]) ELSE media[job.input]
    OBVIOUS
  <1>0. /\ SceneTypes /\ PlacesInv /\ jobs \in Seq(JobRows) /\ media \in [Places -> Shots \cup {Nowhere}]
        /\ home \in SceneFiles /\ text[home] \in Texts /\ text[home][1] = home
        /\ text[home][2] \in Nat
        /\ results \in SUBSET [print : Prints, scene : SceneFiles, at : JobDirs]
    BY DEF SceneInv, SceneTypes, Texts
  <1>1. job \in JobRows /\ Sound(job) /\ UNCHANGED <<home, text, found, results>>
    BY <1>0, <1>p DEF Make, SceneInv, AllRows
  <1>2. Pending(job)
    BY <1>p DEF Make, Runs, Pending
  <1>3. /\ job.at \in Places /\ job.file \in SceneFiles \cup {Nowhere}
        /\ job.revision \in Texts \cup {Nowhere} /\ job.op \in {"render", "export", "frame", "qa"}
        /\ job.file # Nowhere => job.revision \in Texts
    BY <1>1 DEF JobRows, Sound
  <1>4. ASSUME jobs' = [jobs EXCEPT ![j] = Over(job, "failed")], media' = media
        PROVE  SceneInv'
    <2>p. PICK r : r = Over(job, "failed")
      OBVIOUS
    <2>1. /\ r \in JobRows /\ r.op = job.op /\ r.at = job.at /\ r.status = "failed"
          /\ r.start = Nowhere /\ r.scene = Nowhere /\ r.file = job.file
          /\ r.revision = job.revision
      BY <1>1, <2>p, OverRow
    <2>2. Sound(r)' /\ ~Pending(r)
      BY <1>3, <2>1 DEF Sound, Pending, Texts
    <2>3. jobs' = [jobs EXCEPT ![j] = r]
      BY <1>4, <2>p
    <2> QED
      BY <1>0, <1>1, <1>4, <1>p, <2>1, <2>2, <2>3, RowChanges
  <1>5. ASSUME rendered \/ copied,
               jobs' = [jobs EXCEPT ![j] =
                          [job EXCEPT !.status = "made", !.saw = IF job.op = "qa" THEN picture ELSE Nowhere,
                                      !.scene = IF rendered THEN home ELSE Nowhere]],
               media' = IF job.op = "qa" THEN media ELSE [media EXCEPT ![job.at] = picture]
        PROVE  SceneInv'
    <2>p. PICK r : r = [job EXCEPT !.status = "made",
                                       !.saw = IF job.op = "qa" THEN picture ELSE Nowhere,
                                       !.scene = IF rendered THEN home ELSE Nowhere]
      OBVIOUS
    <2>0. jobs' = [jobs EXCEPT ![j] = r]
      BY <1>5, <2>p
    <2>1. picture \in Shots
      <3>1. CASE rendered
        <4>1. picture = Shot(home, text[home])
          BY <1>q, <3>1
        <4> QED
          BY <1>0, <4>1 DEF Shot, Shots
      <3>2. CASE ~rendered
        <4>1. picture = media[job.input] /\ job.op # "render" /\ media[job.input] # Nowhere
          BY <1>5, <1>q, <3>2
        <4>2. job.input \in Places \cup {Nowhere}
          BY <1>1 DEF JobRows
        <4>3. job.input # Nowhere
          BY <1>1, <1>2, <4>1 DEF Sound
        <4> QED
          BY <1>0, <4>1, <4>2, <4>3
      <3> QED
        BY <3>1, <3>2
    <2>2. /\ r \in JobRows /\ r.op = job.op /\ r.at = job.at /\ r.status = "made"
          /\ r.start = job.start /\ r.file = job.file /\ r.revision = job.revision
          /\ r.print = job.print /\ r.searched = job.searched
          /\ r.saw = IF job.op = "qa" THEN picture ELSE Nowhere
          /\ r.scene = IF rendered THEN home ELSE Nowhere
      <3>p. PICK saw, scene : /\ saw = IF job.op = "qa" THEN picture ELSE Nowhere
                              /\ scene = IF rendered THEN home ELSE Nowhere
        OBVIOUS
      <3>1. saw \in Shots \cup {Nowhere} /\ scene \in SceneFiles \cup {Nowhere}
        BY <1>0, <2>1, <3>p
      <3>2. r = [job EXCEPT !.status = "made", !.saw = saw, !.scene = scene]
        BY <2>p, <3>p
      <3>3. /\ r \in JobRows /\ r.op = job.op /\ r.at = job.at /\ r.status = "made"
            /\ r.start = job.start /\ r.file = job.file /\ r.revision = job.revision
            /\ r.print = job.print /\ r.searched = job.searched
            /\ r.saw = saw /\ r.scene = scene
        BY <1>1, <3>1, <3>2 DEF JobRows
      <3> QED
        BY <3>3, <3>p
    <2>3. /\ media' \in [Places -> Shots \cup {Nowhere}]
          /\ \A l \in Places :
               media'[l] \in {media[l], Nowhere} \/ (l = job.at /\ Pending(job) /\ job.op # "qa")
          /\ job.op # "qa" => media'[job.at] = picture
      BY <1>0, <1>2, <1>3, <1>5, <2>1
    <2>4. ~Pending(r)
      BY <2>2 DEF Pending
    <2>5. Still(r.at)'
      <3>1. \A k \in DOMAIN jobs : k # j => jobs[k].at # job.at
        BY <1>0, <1>2, <1>p DEF PlacesInv
      <3>2. /\ DOMAIN jobs' = DOMAIN jobs /\ jobs'[j] = r
            /\ \A k \in DOMAIN jobs : k # j => jobs'[k] = jobs[k]
        BY <1>0, <2>0
      <3>3. \A k \in DOMAIN jobs' : jobs'[k].at = r.at => ~Pending(jobs'[k])
        BY <2>2, <2>4, <3>1, <3>2
      <3>4. r.at \in JobDirs => r.at \in DOMAIN jobs'
        <4>1. job.at = j \/ job.op = "export"
          BY <1>0, <1>2, <1>p DEF PlacesInv
        <4>2. job.op = "export" <=> job.at \in Outputs
          BY <1>0, <1>p DEF PlacesInv
        <4> QED
          BY <2>2, <3>2, <4>1, <4>2, MediaAssumption
      <3>5. IF r.at \in JobDirs THEN r.at \in DOMAIN jobs'
            ELSE \E k \in DOMAIN jobs' : jobs'[k].at = r.at
        BY <3>2, <3>4
      <3> QED
        BY <3>3, <3>5 DEF Still, Pending, JobDirs
    <2>6. CASE rendered
      <3>1. /\ r.op = "render" /\ r.scene = home /\ picture = Shot(home, text[home])
            /\ media'[r.at] = picture
        BY <1>q, <2>2, <2>3, <2>6
      <3>2. picture.file = home /\ picture.text = text[home]
        BY <3>1 DEF Shot
      <3>3. /\ job.revision # Nowhere /\ Was(job.revision, job.revision[1])
            /\ job.start # Nowhere => \A f \in SceneFiles : Was(job.start[f], f)
            /\ job.start # Nowhere => job.print = <<job.searched, job.start>>
        BY <1>1, <1>2, <2>6 DEF Sound
      <3>p. PICK final : final = IF r.start # Nowhere THEN r.start[r.scene] ELSE r.revision
        OBVIOUS
      <3>4. Final(r) = final
        BY <3>p DEF Final
      <3>5. final \in Texts /\ (final[1] = home => final[2] <= text[home][2])
        <4>1. CASE r.start # Nowhere
          <5>1. final = job.start[home] /\ Was(job.start[home], home)
            BY <1>0, <2>2, <3>1, <3>3, <3>p, <4>1
          <5> QED
            BY <5>1 DEF Was
        <4>2. CASE r.start = Nowhere
          <5>1. final = job.revision
            BY <2>2, <3>p, <4>2
          <5> QED
            BY <3>3, <5>1 DEF Was
        <4> QED
          BY <4>1, <4>2
      <3>6. Good(r.scene, final, media[r.at])'
        BY <1>0, <1>1, <3>1, <3>2, <3>5 DEF Good, Was, Texts
      <3>7. r.start # Nowhere => \A f \in SceneFiles : Was(r.start[f], f)'
        BY <1>1, <2>2, <3>3 DEF Was
      <3>8. Sound(r)'
        <4>1. r.status = "made" /\ r.op = "render" /\ ~Pending(r) /\ r.scene \in SceneFiles
          BY <1>0, <2>2, <2>4, <3>1
        <4>2. r.start # Nowhere => r.print = <<r.searched, r.start>>
          BY <2>2, <3>3
        <4>3. r.file # Nowhere => r.revision \in Texts
          BY <1>3, <2>2
        <4>4. Good(r.scene, Final(r), media[r.at])'
          BY <3>6, <3>p DEF Final
        <4> QED
          BY <2>5, <3>4, <3>5, <3>7, <4>1, <4>2, <4>3, <4>4 DEF Sound, Pending, Final, Texts
      <3> QED
        BY <1>0, <1>1, <1>p, <2>0, <2>2, <2>3, <2>4, <3>8, RowChanges
    <2>7. CASE ~rendered
      <3>1. /\ r.op # "render" /\ r.scene = Nowhere /\ picture = media[job.input]
            /\ media[job.input] # Nowhere /\ r.op \in {"export", "frame", "qa"}
        BY <1>3, <1>5, <1>q, <2>2, <2>7
      <3>2. job.start = Nowhere
        BY <1>1, <2>2, <3>1 DEF Sound
      <3>3. job.file # Nowhere => Good(job.file, job.revision, picture)
        BY <1>1, <1>2, <2>2, <3>1 DEF Sound
      <3>4. job.file # Nowhere => Good(job.file, job.revision, picture)'
        BY <1>1, <3>3 DEF Good, Was
      <3>5. job.file # Nowhere /\ job.op # "qa" => Good(job.file, job.revision, media[r.at])'
        BY <2>2, <2>3, <3>4 DEF Good, Was
      <3>6. r.op = "qa" => r.saw = picture /\ r.saw # Nowhere
        BY <2>1, <2>2, MediaAssumption
      <3>7. Sound(r)'
        BY <1>3, <2>2, <2>5, <3>1, <3>2, <3>4, <3>5, <3>6 DEF Sound, Pending, Texts
      <3> QED
        BY <1>0, <1>1, <1>p, <2>0, <2>2, <2>3, <2>4, <3>7, RowChanges
    <2> QED
      BY <2>6, <2>7
  <1> QED
    BY <1>4, <1>5, <1>p, <1>q DEF Make

(* A render is filed under the scene of its result, with the revision that the run
   began with; others as they were submitted. *)
LEMMA FinishKeeps ==
  ASSUME SceneInv, NEW j \in DOMAIN jobs, Finish(j)
  PROVE  SceneInv'
PROOF
  <1>p. PICK job : job = jobs[j]
    OBVIOUS
  <1>q. PICK file, revision :
          file = Filed(job) /\ revision = IF job.start # Nowhere THEN job.start[file] ELSE job.revision
    OBVIOUS
  <1>r. PICK r : r = [Over(job, "succeeded") EXCEPT !.file = file, !.revision = revision]
    OBVIOUS
  <1>0. /\ SceneTypes /\ PlacesInv /\ jobs \in Seq(JobRows) /\ media \in [Places -> Shots \cup {Nowhere}]
        /\ \A f \in SceneFiles : text[f] \in Texts /\ text[f][2] \in Nat /\ text[f][1] = f
        /\ results \in SUBSET [print : Prints, scene : SceneFiles, at : JobDirs]
    BY DEF SceneInv, SceneTypes, Texts
  <1>1. /\ job \in JobRows /\ Sound(job) /\ UNCHANGED <<home, text, found, media>>
        /\ job.status = "made"
    BY <1>0, <1>p DEF Finish, SceneInv, AllRows
  <1>2. /\ jobs' = [jobs EXCEPT ![j] = r]
        /\ results' = IF job.start # Nowhere /\ job.start = text
                      THEN {hit \in results : hit.print # job.print}
                           \cup {[print |-> job.print, scene |-> job.scene, at |-> job.at]}
                      ELSE results
    <2>1. jobs' = [jobs EXCEPT ![j] =
                     [Over(job, "succeeded") EXCEPT !.file = file,
                        !.revision = IF job.start # Nowhere THEN job.start[file] ELSE @]]
      BY <1>p, <1>q DEF Finish
    <2>2. Over(job, "succeeded").revision = job.revision
      BY <1>1, OverRow
    <2> QED
      BY <1>p, <1>q, <1>r, <2>1, <2>2 DEF Finish, Over
  <1>3. /\ job.op # "render" => /\ job.start = Nowhere /\ job.scene = Nowhere
                                /\ file = job.file /\ revision = job.revision
        /\ job.op = "render" => /\ job.scene \in SceneFiles /\ Final(job) \in Texts
                                /\ file = job.scene /\ revision = Final(job)
                                /\ media[job.at] # Nowhere => Good(file, revision, media[job.at])
                                /\ job.start # Nowhere => job.print = <<job.searched, job.start>>
                                /\ job.start # Nowhere => \A f \in SceneFiles : Was(job.start[f], f)
    <2>1. CASE job.op # "render"
      <3>1. job.start = Nowhere /\ job.scene = Nowhere
        BY <1>1, <2>1 DEF Sound
      <3> QED
        BY <1>q, <2>1, <3>1 DEF Filed
    <2>2. CASE job.op = "render"
      <3>1. /\ job.scene \in SceneFiles /\ Final(job) \in Texts
            /\ media[job.at] # Nowhere => Good(job.scene, Final(job), media[job.at])
            /\ job.start # Nowhere => job.print = <<job.searched, job.start>>
            /\ job.start # Nowhere => \A f \in SceneFiles : Was(job.start[f], f)
        BY <1>1, <2>2 DEF Sound
      <3>2. file = job.scene
        BY <1>q, <3>1, MediaAssumption DEF Filed
      <3>3. revision = Final(job)
        BY <1>q, <3>2 DEF Final
      <3> QED
        BY <2>2, <3>1, <3>2, <3>3
    <2> QED
      BY <2>1, <2>2
  <1>4. file \in SceneFiles \cup {Nowhere} /\ revision \in Texts \cup {Nowhere}
        /\ (file # Nowhere => revision \in Texts)
    <2>1. /\ job.file \in SceneFiles \cup {Nowhere} /\ job.revision \in Texts \cup {Nowhere}
          /\ job.file # Nowhere => job.revision \in Texts
      BY <1>1 DEF JobRows, Sound
    <2> QED
      BY <1>3, <2>1
  <1>5. /\ r \in JobRows /\ r.op = job.op /\ r.at = job.at /\ r.status = "succeeded"
        /\ r.file = file /\ r.revision = revision /\ r.saw = job.saw
        /\ r.start = Nowhere /\ r.scene = Nowhere
    <2>p. PICK over : over = Over(job, "succeeded")
      OBVIOUS
    <2>1. /\ over \in JobRows /\ over.op = job.op /\ over.at = job.at /\ over.status = "succeeded"
          /\ over.saw = job.saw /\ over.start = Nowhere /\ over.scene = Nowhere
      BY <1>1, <2>p, OverRow
    <2>2. r = [over EXCEPT !.file = file, !.revision = revision]
      BY <1>r, <2>p
    <2> QED
      BY <1>4, <2>1, <2>2 DEF JobRows
  <1>6. ASSUME Remain PROVE Sound(r)'
    <2>1. Still(r.at)'
      <3>1. Still(job.at) /\ job.at \in Places
        BY <1>1 DEF Sound, JobRows
      <3> QED
        BY <1>5, <1>6, <3>1 DEF Remain
    <2>2. ASSUME r.op = "qa", file # Nowhere
          PROVE  r.saw # Nowhere /\ Good(r.file, r.revision, r.saw)'
      <3>1. job.saw # Nowhere /\ Good(file, revision, job.saw)
        BY <1>1, <1>3, <1>5, <2>2 DEF Sound
      <3> QED
        BY <1>1, <1>5, <3>1 DEF Good, Was
    <2>3. ASSUME r.op # "qa", file # Nowhere, media[r.at] # Nowhere
          PROVE  Good(r.file, r.revision, media[r.at])'
      <3>1. Good(file, revision, media[job.at])
        <4>1. CASE job.op = "render"
          BY <1>3, <1>5, <2>3, <4>1
        <4>2. CASE job.op # "render"
          <5>1. job.op \in {"frame", "export"}
            BY <1>1, <1>5, <2>3, <4>2 DEF JobRows
          <5> QED
            BY <1>1, <1>3, <1>5, <2>3, <4>2, <5>1 DEF Sound
        <4> QED
          BY <4>1, <4>2
      <3> QED
        BY <1>1, <1>5, <3>1 DEF Good, Was
    <2>4. media'[r.at] = media[r.at]
      BY <1>1
    <2> QED
      BY <1>4, <1>5, <2>1, <2>2, <2>3, <2>4 DEF Sound, Pending, Texts
  <1>7. ASSUME Remain, NEW hit \in results', hit \notin results PROVE HitInv(hit)'
    <2>1. /\ job.start # Nowhere /\ job.start = text
          /\ hit = [print |-> job.print, scene |-> job.scene, at |-> job.at]
      BY <1>2, <1>7
    <2>2. job.op = "render"
      BY <1>3, <2>1
    <2>3. /\ hit.print[2] = text /\ hit.scene = job.scene /\ hit.scene \in SceneFiles /\ hit.at = job.at
          /\ \A f \in SceneFiles : Was(job.start[f], f)
      BY <1>3, <2>1, <2>2
    <2>4. Still(hit.at)'
      <3>1. Still(job.at) /\ job.at \in Places
        BY <1>1 DEF Sound, JobRows
      <3> QED
        BY <1>7, <2>3, <3>1 DEF Remain
    <2>5. ASSUME media[hit.at] # Nowhere PROVE media[hit.at] = Shot(hit.scene, text[hit.scene])
      <3>p. PICK shot : shot = media[hit.at]
        OBVIOUS
      <3>1. Good(hit.scene, text[hit.scene], shot)
        <4>1. Good(file, revision, media[job.at]) /\ file = job.scene /\ revision = job.start[job.scene]
          BY <1>3, <2>1, <2>2, <2>3, <2>5 DEF Final
        <4> QED
          BY <2>1, <2>3, <3>p, <4>1
      <3>2. shot \in Shots
        <4>1. hit.at \in Places
          BY <1>1, <2>3 DEF JobRows
        <4> QED
          BY <1>0, <2>5, <3>p, <4>1
      <3>3. /\ shot.text \in Texts /\ shot.text[1] = hit.scene /\ shot.text[2] <= text[hit.scene][2]
            /\ text[hit.scene][2] <= shot.text[2] /\ shot.file = hit.scene
        BY <1>0, <2>3, <3>1 DEF Good, Was
      <3>4. shot.text = text[hit.scene]
        <4>1. shot.text[2] = text[hit.scene][2]
          BY <1>0, <2>3, <3>3 DEF Texts
        <4> QED
          BY <1>0, <2>3, <3>3, <4>1 DEF Texts
      <3> QED
        BY <3>2, <3>3, <3>4, <3>p DEF Shots, Shot
    <2>6. \A f \in SceneFiles : Was(hit.print[2][f], f)'
      BY <1>1, <2>1, <2>3 DEF Was
    <2> QED
      BY <1>1, <2>3, <2>4, <2>5, <2>6 DEF HitInv, Shot
  <1>8. results' \in SUBSET [print : Prints, scene : SceneFiles, at : JobDirs]
    <2>1. ASSUME NEW hit \in results', hit \notin results
          PROVE  hit \in [print : Prints, scene : SceneFiles, at : JobDirs]
      <3>1. /\ job.start # Nowhere /\ job.start = text
            /\ hit = [print |-> job.print, scene |-> job.scene, at |-> job.at]
        BY <1>2, <2>1
      <3>2. job.op = "render" /\ job.scene \in SceneFiles /\ job.print = <<job.searched, job.start>>
        BY <1>3, <3>1
      <3>3. job.print \in Prints
        BY <1>0, <1>1, <3>1, <3>2 DEF JobRows, Prints, SceneTypes
      <3>4. job.at \in JobDirs
        <4>1. job.op = "export" <=> job.at \in Outputs
          BY <1>0, <1>p DEF PlacesInv
        <4> QED
          BY <1>1, <3>2, <4>1 DEF JobRows, Places
      <3> QED
        BY <3>1, <3>2, <3>3, <3>4
    <2> QED
      BY <1>0, <2>1
  <1>9. media' \in [Places -> Shots \cup {Nowhere}] /\ ~Pending(r)
        /\ \A l \in Places : media'[l] \in {media[l], Nowhere}
    BY <1>0, <1>1, <1>5 DEF Pending
  <1>10. Remain => \A hit \in results' : hit \in results \/ HitInv(hit)'
    BY <1>7
  <1> QED
    BY <1>1, <1>2, <1>5, <1>6, <1>8, <1>9, <1>10, <1>p, RowChanges

(* No step makes a picture lie. *)
LEMMA SceneStep == SceneInv /\ Plain /\ [MediaNext]_mediaVars => SceneInv'
PROOF
  <1> SUFFICES ASSUME SceneInv, Plain, [MediaNext]_mediaVars PROVE SceneInv'
    OBVIOUS
  <1>1. CASE UNCHANGED mediaVars
    <2>1. SceneTypes /\ UNCHANGED <<home, text, found, jobs, media, results>>
      BY <1>1 DEF mediaVars, SceneInv
    <2>2. Grows /\ Fades
      BY <2>1, SameTexts DEF Fades
    <2> QED
      BY <2>1, <2>2, OtherScenes DEF SceneTypes
  <1> QED
    BY <1>1, EditFileKeeps, RescanKeeps, RemoveKeeps, SubmitRenderKeeps, SubmitReaderKeeps,
       BeginKeeps, MakeKeeps, FinishKeeps, StopKeeps
    DEF MediaNext

LEMMA SceneStarts == Plain /\ MediaInit => SceneInv
PROOF
  <1> SUFFICES ASSUME Plain, MediaInit PROVE SceneInv
    OBVIOUS
  <1>1. SceneTypes
    BY DEF MediaInit, SceneTypes, Texts, Places
  <1>2. PlacesInv
    BY DEF MediaInit, PlacesInv, Places
  <1>3. TextInv
    BY MediaAssumption DEF MediaInit, TextInv, Plain
  <1>4. AllRows = {} /\ results = {}
    BY DEF MediaInit, AllRows
  <1> QED
    BY <1>1, <1>2, <1>3, <1>4 DEF SceneInv

-----------------------------------------------------------------------------
(* What is shown *)

(* A good picture that is of the revision is of the file as it is. *)
LEMMA GoodIsCurrent ==
  ASSUME SceneTypes, NEW file \in SceneFiles, NEW shot \in Shots, Good(file, text[file], shot)
  PROVE  shot = Shot(file, text[file])
PROOF
  <1>1. text[file] \in Texts /\ text[file][1] = file /\ text[file][2] \in Nat
    BY DEF SceneTypes, Texts
  <1>2. /\ shot.file = file /\ shot.text \in Texts /\ shot.text[1] = file
        /\ shot.text[2] <= text[file][2] /\ text[file][2] <= shot.text[2]
    BY <1>1 DEF Good, Was
  <1>3. shot.text[2] = text[file][2]
    BY <1>1, <1>2 DEF Texts
  <1>4. shot.text = text[file]
    BY <1>1, <1>2, <1>3 DEF Texts
  <1> QED
    BY <1>2, <1>4 DEF Shots, Shot

(* What is shown for a file is a good picture of it. *)
LEMMA ShownIsGood ==
  ASSUME SceneInv, NEW file \in SceneFiles, NEW j \in Latest(file)
  PROVE  /\ jobs[j].file = file /\ media[jobs[j].at] \in Shots
         /\ Good(file, jobs[j].revision, media[jobs[j].at])
PROOF
  <1>0. SceneTypes /\ jobs \in Seq(JobRows) /\ media \in [Places -> Shots \cup {Nowhere}]
    BY DEF SceneInv, SceneTypes
  <1>1. \E ops \in {{"render"}, {"frame"}} : j = NewestOf(ops, file) /\ j # 0
    BY DEF Latest
  <1>2. /\ j \in DOMAIN jobs /\ jobs[j].status = "succeeded" /\ jobs[j].op # "qa"
        /\ jobs[j].file = file /\ media[jobs[j].at] # Nowhere
    BY <1>0, <1>1, NewestIs, MediaAssumption DEF Existing
  <1>3. jobs[j] \in JobRows /\ Sound(jobs[j])
    BY <1>0, <1>2 DEF SceneInv, AllRows
  <1>4. jobs[j].at \in Places
    BY <1>3 DEF JobRows
  <1>5. Good(jobs[j].file, jobs[j].revision, media[jobs[j].at])
    BY <1>2, <1>3, MediaAssumption DEF Sound
  <1> QED
    BY <1>0, <1>2, <1>4, <1>5

(* The newest check of a file's scene saw a good picture of it. *)
LEMMA CheckedIsGood ==
  ASSUME SceneInv, NEW file \in SceneFiles, Checked(file) # {}
  PROVE  LET j == Max(Checked(file)) IN
         /\ jobs[j].file = file /\ jobs[j].saw \in Shots
         /\ Good(file, jobs[j].revision, jobs[j].saw)
PROOF
  <1>0. SceneTypes /\ jobs \in Seq(JobRows) /\ Len(jobs) \in Nat /\ DOMAIN jobs = 1..Len(jobs)
    BY DEF SceneInv, SceneTypes
  <1>1. Checked(file) \in SUBSET (0..Len(jobs))
    BY <1>0 DEF Checked
  <1>2. Max(Checked(file)) \in Checked(file)
    BY <1>0, <1>1, HasMax
  <1>p. PICK j : j = Max(Checked(file))
    OBVIOUS
  <1>3. /\ j \in DOMAIN jobs /\ jobs[j].op = "qa" /\ jobs[j].file = file
        /\ jobs[j].status = "succeeded"
    BY <1>2, <1>p DEF Checked
  <1>4. jobs[j] \in JobRows /\ Sound(jobs[j])
    BY <1>0, <1>3 DEF SceneInv, AllRows
  <1>5. jobs[j].saw # Nowhere /\ Good(jobs[j].file, jobs[j].revision, jobs[j].saw)
    BY <1>3, <1>4, MediaAssumption DEF Sound
  <1>6. jobs[j].saw \in Shots
    BY <1>4, <1>5 DEF JobRows
  <1> QED
    BY <1>3, <1>5, <1>6, <1>p

(* What is not marked has the revision of its file. *)
LEMMA NotOutdated ==
  ASSUME NEW file \in SceneFiles, NEW j, jobs[j].file = file, jobs[j].revision \in Texts,
         ~Outdated(j)
  PROVE  jobs[j].revision = text[file]
PROOF
  BY MediaAssumption DEF Outdated

(* Sound rows show true pictures. *)
LEMMA SceneInvTells == SceneInv => PicturesTellTheTruth
PROOF
  <1> SUFFICES ASSUME SceneInv PROVE PicturesTellTheTruth
    OBVIOUS
  <1>0. SceneTypes
    BY DEF SceneInv
  <1>1. NothingStaleLooksCurrent
    <2> SUFFICES ASSUME NEW file \in SceneFiles
                 PROVE  LET now == Shot(file, text[file]) checked == Checked(file) IN
                        /\ \A j \in Latest(file) : ~Outdated(j) => media[jobs[j].at] = now
                        /\ checked # {} /\ ~StaleFindings(Max(checked)) =>
                             jobs[Max(checked)].saw = now
      BY DEF NothingStaleLooksCurrent
    <2>1. ASSUME NEW j \in Latest(file), ~Outdated(j)
          PROVE  media[jobs[j].at] = Shot(file, text[file])
      <3>1. /\ jobs[j].file = file /\ media[jobs[j].at] \in Shots
            /\ Good(file, jobs[j].revision, media[jobs[j].at])
        BY ShownIsGood
      <3>2. jobs[j].revision = text[file]
        BY <2>1, <3>1, NotOutdated DEF Good
      <3> QED
        BY <1>0, <3>1, <3>2, GoodIsCurrent
    <2>2. ASSUME Checked(file) # {}, ~StaleFindings(Max(Checked(file)))
          PROVE  jobs[Max(Checked(file))].saw = Shot(file, text[file])
      <3>p. PICK j : j = Max(Checked(file))
        OBVIOUS
      <3>1. jobs[j].file = file /\ jobs[j].saw \in Shots /\ Good(file, jobs[j].revision, jobs[j].saw)
        BY <2>2, <3>p, CheckedIsGood
      <3>2. jobs[j].revision = text[file]
        BY <2>2, <3>1, <3>p, NotOutdated DEF Good, StaleFindings
      <3> QED
        BY <1>0, <3>1, <3>2, <3>p, GoodIsCurrent
    <2> QED
      BY <2>1, <2>2
  <1>2. FiledWhereItBelongs
    <2> SUFFICES ASSUME NEW file \in SceneFiles, NEW j \in Latest(file)
                 PROVE  LET shot == media[jobs[j].at] IN
                        /\ shot.file = file
                        /\ jobs[j].revision # Nowhere /\ jobs[j].revision[1] = file =>
                             jobs[j].revision[2] <= shot.text[2]
      BY DEF FiledWhereItBelongs
    <2>1. Good(file, jobs[j].revision, media[jobs[j].at])
      BY ShownIsGood
    <2> QED
      BY <2>1 DEF Good
  <1> QED
    BY <1>1, <1>2 DEF PicturesTellTheTruth

(* For any files, jobs and edits, and whatever fails: the pictures of a scene are of
   it, and current unless they are marked, while the scene's file is known when a
   render is submitted, no export replaces what an earlier one wrote, and no file of
   an unfinished job is named as a source (workspace/latest.rs, findings.rs). *)
THEOREM PicturesAreTrue == Plain => (MediaSpec => []PicturesTellTheTruth)
PROOF
  <1> SUFFICES ASSUME Plain PROVE MediaSpec => []PicturesTellTheTruth
    OBVIOUS
  <1>1. MediaInit => SceneInv
    BY SceneStarts
  <1>2. SceneInv /\ [MediaNext]_mediaVars => SceneInv'
    BY SceneStep
  <1> QED
    BY <1>1, <1>2, SceneInvTells, PTL DEF MediaSpec

-----------------------------------------------------------------------------
(* A job reads an earlier one. *)
Earlier == \A j \in DOMAIN jobs : jobs[j].source \in 0..(j - 1)

(* What a submission reads was submitted before it. *)
LEMMA AppendKeepsEarlier ==
  ASSUME SceneTypes, Earlier, NEW r, jobs' = Append(jobs, r), r.source \in 0..Len(jobs)
  PROVE  Earlier'
PROOF
  <1>1. Len(jobs) \in Nat /\ DOMAIN jobs = 1..Len(jobs) /\ jobs \in Seq(JobRows)
    BY DEF SceneTypes
  <1>2. /\ DOMAIN jobs' = 1..(Len(jobs) + 1) /\ jobs'[Len(jobs) + 1] = r
        /\ \A j \in 1..Len(jobs) : jobs'[j] = jobs[j]
    BY <1>1
  <1>3. ASSUME NEW j \in DOMAIN jobs' PROVE jobs'[j].source \in 0..(j - 1)
    <2>1. CASE j = Len(jobs) + 1
      BY <1>1, <1>2, <2>1
    <2>2. CASE j # Len(jobs) + 1
      <3>1. j \in 1..Len(jobs)
        BY <1>1, <1>2, <2>2
      <3> QED
        BY <1>1, <1>2, <3>1 DEF Earlier
    <2> QED
      BY <2>1, <2>2
  <1> QED
    BY <1>3 DEF Earlier

(* A run reads what its submission named. *)
LEMMA ExceptKeepsEarlier ==
  ASSUME SceneTypes, Earlier, NEW i \in DOMAIN jobs, NEW r, jobs' = [jobs EXCEPT ![i] = r],
         r.source = jobs[i].source
  PROVE  Earlier'
PROOF
  BY DEF Earlier, SceneTypes

(* So does any reader. *)
LEMMA ReadsKeepsEarlier ==
  ASSUME SceneTypes, Earlier, NEW op, NEW j \in 0..Len(jobs), NEW input, NEW place,
         Reads(op, j, input, place)
  PROVE  Earlier'
PROOF
  <1>1. PICK r : r = IF j = 0 THEN Row(op, {}, Nowhere, Nowhere, 0, input, place)
                         ELSE Row(op, {}, jobs[j].file, Inherited(jobs[j]), j, input, place)
    OBVIOUS
  <1>2. jobs' = Append(jobs, r)
    BY <1>1 DEF Reads
  <1>3. r.source = j
    BY <1>1 DEF Row
  <1> QED
    BY <1>2, <1>3, AppendKeepsEarlier

LEMMA SelectsKeepsEarlier ==
  ASSUME SceneInv, Earlier, NEW op, NEW from, NEW place, Selects(op, from, place), ~MayPeek
  PROVE  Earlier'
PROOF
  <1>0. /\ SceneTypes /\ Len(jobs) \in Nat /\ DOMAIN jobs = 1..Len(jobs)
        /\ \A l \in JobDirs : media[l] # Nowhere => l \in DOMAIN jobs
    BY DEF SceneInv, SceneTypes, PlacesInv
  <1>1. ASSUME NEW j \in DOMAIN jobs, NEW kinds, FromRecord(op, j, kinds, place) PROVE Earlier'
    <2>1. Reads(op, j, jobs[j].at, place) /\ j \in 0..Len(jobs)
      BY <1>0, <1>1 DEF FromRecord
    <2> QED
      BY <1>0, <2>1, ReadsKeepsEarlier
  <1>2. CASE FromRecord(op, NewestOf({"render"}, SpecFile), {"render"}, place)
    <2>1. NewestOf({"render"}, SpecFile) # 0
      BY <1>2 DEF FromRecord
    <2>2. NewestOf({"render"}, SpecFile) \in DOMAIN jobs
      BY <1>0, <2>1, NewestIs
    <2> QED
      BY <1>1, <1>2, <2>2
  <1>3. CASE \E j \in DOMAIN jobs : FromRecord(op, j, from, place)
    BY <1>1, <1>3
  <1>4. ASSUME NEW l \in DOMAIN media, FromPath(op, l, place) PROVE Earlier'
    <2>1. media[l] # Nowhere /\ Reads(op, IF l \in JobDirs THEN l ELSE 0, l, place)
      BY <1>4 DEF FromPath
    <2>2. (IF l \in JobDirs THEN l ELSE 0) \in 0..Len(jobs)
      BY <1>0, <2>1
    <2> QED
      BY <1>0, <2>1, <2>2, ReadsKeepsEarlier
  <1> QED
    BY <1>2, <1>3, <1>4 DEF Selects

LEMMA RunsKeepEarlier ==
  ASSUME SceneTypes, Earlier, NEW j \in DOMAIN jobs, Begin(j) \/ Make(j) \/ Finish(j) \/ Stop(j)
  PROVE  Earlier'
PROOF
  <1>p. PICK job : job = jobs[j]
    OBVIOUS
  <1>0. job \in JobRows
    BY <1>p DEF SceneTypes
  <1>1. CASE Begin(j)
    <2>1. PICK r : r = [job EXCEPT !.status = "running", !.start = text,
                                       !.print = Fingerprint(job.searched)]
      OBVIOUS
    <2>2. jobs' = [jobs EXCEPT ![j] = r]
      BY <1>1, <1>p, <2>1 DEF Begin
    <2>3. r.source = job.source
      BY <1>0, <2>1 DEF JobRows
    <2> QED
      BY <1>p, <2>2, <2>3, ExceptKeepsEarlier
  <1>2. ASSUME NEW status, jobs' = [jobs EXCEPT ![j] = Over(@, status)] PROVE Earlier'
    <2>1. PICK r : r = Over(job, status)
      OBVIOUS
    <2>2. r.source = job.source
      BY <1>0, <2>1 DEF Over, JobRows
    <2>3. jobs' = [jobs EXCEPT ![j] = r]
      BY <1>2, <1>p, <2>1
    <2> QED
      BY <1>p, <2>2, <2>3, ExceptKeepsEarlier
  <1>3. ASSUME NEW saw, NEW scene,
               jobs' = [jobs EXCEPT ![j] = [job EXCEPT !.status = "made", !.saw = saw,
                                                       !.scene = scene]]
        PROVE  Earlier'
    <2>1. PICK r : r = [job EXCEPT !.status = "made", !.saw = saw, !.scene = scene]
      OBVIOUS
    <2>2. r.source = job.source
      BY <1>0, <2>1 DEF JobRows
    <2> QED
      BY <1>3, <1>p, <2>1, <2>2, ExceptKeepsEarlier
  <1>4. CASE Make(j)
    BY <1>2, <1>3, <1>4, <1>p DEF Make
  <1>5. CASE Finish(j)
    <2>1. PICK over : over = Over(job, "succeeded")
      OBVIOUS
    <2>q. over \in JobRows
      BY <1>0, <2>1, OverRow
    <2>2. over.source = job.source
      BY <1>0, <2>1 DEF Over, JobRows
    <2>3. PICK file, revision :
            jobs' = [jobs EXCEPT ![j] = [over EXCEPT !.file = file, !.revision = revision]]
      BY <1>5, <1>p, <2>1 DEF Finish
    <2>4. PICK r : r = [over EXCEPT !.file = file, !.revision = revision]
      OBVIOUS
    <2>5. r.source = job.source
      BY <2>2, <2>q, <2>4 DEF JobRows
    <2> QED
      BY <1>p, <2>3, <2>4, <2>5, ExceptKeepsEarlier
  <1>6. CASE Stop(j)
    BY <1>2, <1>6 DEF Stop
  <1> QED
    BY <1>1, <1>4, <1>5, <1>6

LEMMA RendersKeepEarlier ==
  ASSUME SceneTypes, Earlier, NEW named, SubmitRender(named)
  PROVE  Earlier'
PROOF
  <1>0. Len(jobs) \in Nat
    BY DEF SceneTypes
  <1>1. ASSUME NEW hit, Cached(named, hit) PROVE Earlier'
    <2>1. PICK row0 : row0 = Row("render", {}, hit.scene, Revision(Association(named)), 0, Nowhere,
                                 hit.at)
      OBVIOUS
    <2>2. PICK r : r = Over(row0, "succeeded")
      OBVIOUS
    <2>3. r.source = 0
      BY <2>1, <2>2 DEF Over, Row
    <2>4. jobs' = Append(jobs, r)
      BY <1>1, <2>1, <2>2 DEF Cached
    <2> QED
      BY <1>0, <2>3, <2>4, AppendKeepsEarlier
  <1>2. ASSUME NEW print,
               jobs' = Append(jobs, [Row("render", Searched(named), Association(named),
                                         Revision(Association(named)), 0, Nowhere, Len(jobs) + 1)
                                       EXCEPT !.print = print])
        PROVE  Earlier'
    <2>1. PICK r : r = [Row("render", Searched(named), Association(named),
                                Revision(Association(named)), 0, Nowhere, Len(jobs) + 1)
                              EXCEPT !.print = print]
      OBVIOUS
    <2>2. r.source = 0
      BY <2>1 DEF Row
    <2>3. jobs' = Append(jobs, r)
      BY <1>2, <2>1
    <2> QED
      BY <1>0, <2>2, <2>3, AppendKeepsEarlier
  <1> QED
    BY <1>1, <1>2 DEF SubmitRender

LEMMA EarlierStep == SceneInv /\ Plain /\ Earlier /\ [MediaNext]_mediaVars => Earlier'
PROOF
  <1> SUFFICES ASSUME SceneInv, Plain, Earlier, [MediaNext]_mediaVars PROVE Earlier'
    OBVIOUS
  <1>0. SceneTypes
    BY DEF SceneInv
  <1>1. CASE UNCHANGED jobs
    BY <1>1 DEF Earlier
  <1>2. CASE \E named \in SceneFiles \cup {Nowhere} : SubmitRender(named)
    BY <1>0, <1>2, RendersKeepEarlier
  <1>3. CASE SubmitFrame \/ SubmitQa \/ \E o \in Outputs : SubmitExport(o)
    BY <1>3, SelectsKeepsEarlier DEF SubmitFrame, SubmitQa, SubmitExport, Plain
  <1>4. CASE \E j \in DOMAIN jobs : Begin(j) \/ Make(j) \/ Finish(j) \/ Stop(j)
    BY <1>0, <1>4, RunsKeepEarlier
  <1>5. UNCHANGED jobs \/ (\E named \in SceneFiles \cup {Nowhere} : SubmitRender(named))
        \/ (SubmitFrame \/ SubmitQa \/ \E o \in Outputs : SubmitExport(o))
        \/ (\E j \in DOMAIN jobs : Begin(j) \/ Make(j) \/ Finish(j) \/ Stop(j))
    BY DEF MediaNext, mediaVars, EditFile, Move, Rescan, Remove
  <1> QED
    BY <1>1, <1>2, <1>3, <1>4, <1>5

(* Under the same conditions the state is well formed, and a job reads only an
   earlier one (request/source.rs, select). *)
THEOREM PicturesTypeCorrect == Plain => (MediaSpec => []MediaTypeOK)
PROOF
  <1> SUFFICES ASSUME Plain PROVE MediaSpec => []MediaTypeOK
    OBVIOUS
  <1>1. MediaInit => SceneInv /\ Earlier
    BY SceneStarts DEF MediaInit, Earlier
  <1>2. SceneInv /\ Earlier /\ [MediaNext]_mediaVars => (SceneInv /\ Earlier)'
    BY SceneStep, EarlierStep
  <1>3. SceneInv /\ Earlier => MediaTypeOK
    <2> SUFFICES ASSUME SceneInv, Earlier PROVE MediaTypeOK
      OBVIOUS
    <2>1. SceneTypes
      BY DEF SceneInv
    <2>2. \A j \in DOMAIN jobs : jobs[j].file \in SceneFiles \cup {Nowhere} /\ jobs[j].at \in Places
      <3> SUFFICES ASSUME NEW j \in DOMAIN jobs
                   PROVE  jobs[j].file \in SceneFiles \cup {Nowhere} /\ jobs[j].at \in Places
        OBVIOUS
      <3>1. jobs[j] \in JobRows
        BY <2>1 DEF SceneTypes
      <3> QED
        BY <3>1 DEF JobRows
    <2>3. \A hit \in results : hit.scene \in SceneFiles /\ hit.at \in JobDirs
      BY <2>1 DEF SceneTypes
    <2> QED
      BY <2>1, <2>2, <2>3 DEF SceneTypes, MediaTypeOK, Earlier, Places
  <1> QED
    BY <1>1, <1>2, <1>3, PTL DEF MediaSpec
=============================================================================

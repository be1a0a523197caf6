---------------------------- MODULE ResultCache ----------------------------
(***************************************************************************)
(* The result cache of one project and the pruning of its history: what a  *)
(* submission is answered with (an earlier job's artifacts, a job under    *)
(* way, a job of its own), what a finished run leaves in the cache, and    *)
(* which rows and directories a prune deletes.                             *)
(*                                                                         *)
(* All jobs are renders of one scene with one task, or Readers, which take *)
(* the newest render as their source.  Queueing, locks, engines and their  *)
(* loss are Scheduler's; here a run may fail at any time.  A runtime reads *)
(* the files after the start fingerprint of its job was taken; manim.cfg,  *)
(* which it reads before, is Bridge's.                                     *)
(***************************************************************************)
EXTENDS Integers, Sequences, FiniteSets

CONSTANTS
  Jobs,
  Readers,         \* the jobs that read a render: export, qa, frames
  Fresh,           \* the renders submitted with fresh
  Contents,        \* versions of the project's files, in the order they are written
  Runtimes,        \* versions of the runtime, in the order they are installed
  Prewarm,         \* whether the engine keeps a worker ready (SchedulerConfig.prewarm)
  MayCancel,       \* the jobs clients cancel
  MayFail,         \* the jobs that may fail
  Pruners,         \* the engines that prune
  KeepJobs,        \* PrunePolicy.keep_jobs
  MayRevert,       \* whether the files may go back to an earlier version
  NoJob, NoKey, Unknown

ASSUME VersionsAssumption == Contents \subseteq Nat /\ Runtimes \subseteq Nat
ASSUME JobsAssumption     == Readers \subseteq Jobs /\ Fresh \subseteq Jobs /\ NoJob \notin Jobs
ASSUME InputsAssumption   == Prewarm \in BOOLEAN /\ MayCancel \subseteq Jobs /\ MayFail \subseteq Jobs
ASSUME PruneAssumption    == KeepJobs \in Nat /\ MayRevert \in BOOLEAN
ASSUME UnknownAssumption  == Unknown \notin Runtimes /\ NoKey \notin Runtimes \X Contents

VARIABLES
  files, installed,              \* what the project's files and the interpreter hold now
  known, warm,                   \* the identity of the latest ready frame; the prewarmed worker's
  row, order, key, cached, link, \* the jobs table; link: cached_from or source_job_id
  cancelReq,
  dirs,                          \* jobs whose artifact directory is on disk
  cache,                         \* fingerprint -> job
  at,                            \* how far a submission or its run has come
  asked, joined,                 \* what it asked for, submit fingerprint or NoKey; its coalesced job
  worker, start, made,           \* the run's worker, start fingerprint, and what it really read
  wanted,                        \* the files and runtime there were when it was submitted
  prune,                         \* each pruner's step, the jobs in hand, the rows it saw links of
  raced                          \* history: submissions whose link no prune under way could see

worldVars == <<files, installed>>
readyVars == <<known, warm>>
rowVars   == <<row, order, key, cached, link, cancelReq>>
askVars   == <<asked, joined, wanted, raced>>
runVars   == <<worker, start, made>>
vars == <<worldVars, readyVars, rowVars, dirs, cache, at, askVars, runVars, prune>>

Keys       == Runtimes \X Contents
Terminal   == {"succeeded", "failed"}
Unfinished == {"queued", "running"}
Stages     == {"idle", "hashed", "hit", "looked", "missed", "queued", "acquiring",
               "ready", "stamped", "read", "ended", "done"}
Rows       == {j \in Jobs : row[j] \in Unfinished \cup Terminal}

TypeOK ==
  /\ files \in Contents /\ installed \in Runtimes
  /\ known \in Runtimes \cup {Unknown} /\ warm \in Runtimes \cup {Unknown}
  /\ row \in [Jobs -> {"none", "pruned"} \cup Unfinished \cup Terminal]
  /\ order \in Seq(Jobs)
  /\ key \in [Jobs -> Keys \cup {NoKey}]
  /\ cached \subseteq Jobs /\ cancelReq \subseteq Jobs /\ dirs \subseteq Jobs
  /\ link \in [Jobs -> Jobs \cup {NoJob}]
  /\ cache \in [Keys -> Jobs \cup {NoJob}]
  /\ at \in [Jobs -> Stages]
  /\ asked \in [Jobs -> Keys \cup {NoKey}]
  /\ joined \in [Jobs -> Jobs \cup {NoJob}]
  /\ worker \in [Jobs -> Runtimes \cup {Unknown}]
  /\ start \in [Jobs -> Keys \cup {NoKey}] /\ made \in [Jobs -> Keys \cup {NoKey}]
  /\ \A j \in Jobs : at[j] \in {"stamped", "read", "ended"} => start[j] \in Keys
  /\ wanted \in [Jobs -> Keys \cup {NoKey}]
  /\ prune \in [Pruners -> [step : {"idle", "listed", "linked", "marked", "deleted", "swept"},
                            ids : SUBSET Jobs, seen : SUBSET Jobs]]
  /\ raced \subseteq Jobs

Init ==
  /\ files \in Contents /\ \A c \in Contents : files <= c
  /\ installed \in Runtimes /\ \A r \in Runtimes : installed <= r
  /\ known = Unknown /\ warm = Unknown
  /\ row = [j \in Jobs |-> "none"] /\ order = <<>>
  /\ key = [j \in Jobs |-> NoKey] /\ link = [j \in Jobs |-> NoJob]
  /\ cached = {} /\ cancelReq = {} /\ dirs = {}
  /\ cache = [k \in Keys |-> NoJob]
  /\ at = [j \in Jobs |-> "idle"]
  /\ asked = [j \in Jobs |-> NoKey] /\ wanted = [j \in Jobs |-> NoKey]
  /\ joined = [j \in Jobs |-> NoJob]
  /\ worker = [j \in Jobs |-> Unknown]
  /\ start = [j \in Jobs |-> NoKey] /\ made = [j \in Jobs |-> NoKey]
  /\ prune = [p \in Pruners |-> [step |-> "idle", ids |-> {}, seen |-> {}]]
  /\ raced = {}

Go(j, there) == at' = [at EXCEPT ![j] = there]

\* ORDER BY sequence DESC LIMIT 1, NoJob of none.
Newest(S) ==
  IF S = {} THEN NoJob
  ELSE CHOOSE j \in S : \E i \in DOMAIN order :
         order[i] = j /\ \A k \in (i + 1)..Len(order) : order[k] \notin S

\* A cached job's artifacts are in the directory of the job it was cached from.
Home(j) == IF j \in cached THEN link[j] ELSE j

\* latest_render: the newest succeeded render whose video is still on disk.
LatestRender == Newest({j \in Jobs \ Readers : row[j] = "succeeded" /\ Home(j) \in dirs})

-----------------------------------------------------------------------------
(* The world *)

Edit ==
  /\ \E c \in Contents : c # files /\ (MayRevert \/ c > files) /\ files' = c
  /\ UNCHANGED <<installed, readyVars, rowVars, dirs, cache, at, askVars, runVars, prune>>

Upgrade ==
  /\ \E r \in Runtimes : r > installed /\ installed' = r
  /\ UNCHANGED <<files, readyVars, rowVars, dirs, cache, at, askVars, runVars, prune>>

\* A prewarmed worker's ready frame.
Warm ==
  /\ Prewarm /\ warm = Unknown
  /\ warm' = installed /\ known' = installed
  /\ UNCHANGED <<worldVars, rowVars, dirs, cache, at, askVars, runVars, prune>>

-----------------------------------------------------------------------------
(* submit: plan and insert *)

\* The job chooses the one it links to, while a prune may have read the links.
Chooses(j) ==
  raced' = IF \E p \in Pruners : prune[p].step \in {"linked", "marked", "deleted"}
           THEN raced \cup {j} ELSE raced

\* plan: a reader selects its source, a render is hashed under the identity
\* known now.
Hash(j) ==
  /\ at[j] = "idle"
  /\ wanted' = [wanted EXCEPT ![j] = <<installed, files>>]
  /\ IF j \in Readers
     THEN /\ LatestRender # NoJob
          /\ link' = [link EXCEPT ![j] = LatestRender]
          /\ Chooses(j)
          /\ Go(j, "missed")
          /\ UNCHANGED asked
     ELSE /\ IF j \in Fresh \/ known = Unknown
             THEN Go(j, "missed") /\ UNCHANGED asked
             ELSE Go(j, "hashed") /\ asked' = [asked EXCEPT ![j] = <<known, files>>]
          /\ UNCHANGED <<link, raced>>
  /\ UNCHANGED <<worldVars, readyVars, row, order, key, cached, cancelReq, dirs, cache, joined,
                 runVars, prune>>

\* intact: the artifacts of the job the entry names are still there.
Intact(j) == j \in dirs

\* cache_get, and cache_delete for an entry whose artifacts are gone.
Look(j) ==
  /\ at[j] = "hashed"
  /\ LET found == cache[asked[j]] IN
       IF found # NoJob /\ Intact(found)
       THEN /\ link' = [link EXCEPT ![j] = found]
            /\ Chooses(j)
            /\ Go(j, "hit")
            /\ UNCHANGED cache
       ELSE /\ cache' = [cache EXCEPT ![asked[j]] = NoJob]
            /\ Go(j, "looked")
            /\ UNCHANGED <<link, raced>>
  /\ UNCHANGED <<worldVars, readyVars, row, order, key, cached, cancelReq, dirs, asked, joined,
                 wanted, runVars, prune>>

\* insert
InsertRow(j, status) ==
  /\ row' = [row EXCEPT ![j] = status]
  /\ key' = [key EXCEPT ![j] = asked[j]]
  /\ order' = Append(order, j)

\* insert_cached_job
InsertHit(j) ==
  /\ at[j] = "hit"
  /\ InsertRow(j, "succeeded")
  /\ cached' = cached \cup {j}
  /\ Go(j, "done")
  /\ UNCHANGED <<worldVars, readyVars, link, cancelReq, dirs, cache, askVars, runVars, prune>>

\* Mutant: any render of the scene under way will do.
JoinableScene(j) ==
  {k \in Jobs \ Readers : row[k] \in Unfinished /\ k \notin cancelReq}

\* active_job_with_fingerprint
Joinable(j) ==
  {k \in Jobs : row[k] \in Unfinished /\ key[k] = asked[j] /\ k \notin cancelReq}

Join(j) ==
  /\ at[j] = "looked"
  /\ joined' = [joined EXCEPT ![j] = Newest(Joinable(j))]
  /\ Go(j, IF Joinable(j) = {} THEN "missed" ELSE "done")
  /\ UNCHANGED <<worldVars, readyVars, rowVars, dirs, cache, asked, wanted, raced, runVars,
                 prune>>

Insert(j) ==
  /\ at[j] = "missed"
  /\ InsertRow(j, "queued")
  /\ Go(j, "queued")
  /\ UNCHANGED <<worldVars, readyVars, cached, link, cancelReq, dirs, cache, askVars, runVars,
                 prune>>

\* request_cancel
Cancel(j) ==
  /\ j \in MayCancel /\ row[j] \in Unfinished
  /\ cancelReq' = cancelReq \cup {j}
  /\ UNCHANGED <<worldVars, readyVars, row, order, key, cached, link, dirs, cache, at, askVars,
                 runVars, prune>>

-----------------------------------------------------------------------------
(* run *)

\* set_running, create_out_dir
Run(j) ==
  /\ at[j] = "queued"
  /\ row' = [row EXCEPT ![j] = "running"]
  /\ dirs' = dirs \cup {j}
  /\ Go(j, "acquiring")
  /\ UNCHANGED <<worldVars, readyVars, order, key, cached, link, cancelReq, cache, askVars,
                 runVars, prune>>

\* acquire: the prewarmed worker, or one spawned now.
Acquire(j) ==
  /\ at[j] = "acquiring" /\ j \notin Readers
  /\ \/ /\ warm # Unknown
        /\ worker' = [worker EXCEPT ![j] = warm]
        /\ warm' = Unknown /\ UNCHANGED known
     \/ /\ worker' = [worker EXCEPT ![j] = installed]
        /\ known' = installed /\ UNCHANGED warm
  /\ Go(j, "ready")
  /\ UNCHANGED <<worldVars, rowVars, dirs, cache, askVars, start, made, prune>>

\* The start fingerprint, under the identity of the worker that runs the job.
StartKey(j) == <<worker[j], files>>

\* start_fingerprint
Stamp(j) ==
  /\ at[j] = "ready"
  /\ start' = [start EXCEPT ![j] = StartKey(j)]
  /\ key' = [key EXCEPT ![j] = StartKey(j)]
  /\ Go(j, "stamped")
  /\ UNCHANGED <<worldVars, readyVars, row, order, cached, link, cancelReq, dirs, cache, askVars,
                 worker, made, prune>>

\* The runtime process imports the scene's files.
Read(j) ==
  /\ at[j] = "stamped"
  /\ made' = [made EXCEPT ![j] = <<worker[j], files>>]
  /\ Go(j, "read")
  /\ UNCHANGED <<worldVars, readyVars, rowVars, dirs, cache, askVars, worker, start, prune>>

\* finish_success; a reader needs the artifacts of its source.
Succeed(j) ==
  /\ IF j \in Readers THEN at[j] = "acquiring" /\ Home(link[j]) \in dirs
                      ELSE at[j] = "read"
  /\ row' = [row EXCEPT ![j] = "succeeded"]
  /\ Go(j, IF j \in Readers THEN "done" ELSE "ended")
  /\ UNCHANGED <<worldVars, readyVars, order, key, cached, link, cancelReq, dirs, cache, askVars,
                 runVars, prune>>

\* finish_error, or cancel_queued; a failed job keeps no directory.
Fail(j) ==
  /\ j \in MayFail \cup cancelReq /\ row[j] \in Unfinished
  /\ row' = [row EXCEPT ![j] = "failed"]
  /\ dirs' = dirs \ {j}
  /\ Go(j, "done")
  /\ UNCHANGED <<worldVars, readyVars, order, key, cached, link, cancelReq, cache, askVars,
                 runVars, prune>>

\* Mutant: every success is cached.
UnchangedAlways(j) == TRUE

\* The inputs hash to the start fingerprint again.
InputsUnchanged(j) == <<worker[j], files>> = start[j]

\* finish: a success whose inputs hash as they did at its start is cached.
Put(j) ==
  /\ at[j] = "ended"
  /\ cache' = IF InputsUnchanged(j) THEN [cache EXCEPT ![start[j]] = j] ELSE cache
  /\ Go(j, "done")
  /\ UNCHANGED <<worldVars, readyVars, rowVars, dirs, askVars, runVars, prune>>

-----------------------------------------------------------------------------
(* prune *)

InHand(p, there, ids) == prune' = [prune EXCEPT ![p].step = there, ![p].ids = ids]

\* prune_candidates: terminal rows past the newest KeepJobs or among the
\* first `old`, those created before the cutoff.
Candidates(old) ==
  LET ended == SelectSeq(order, LAMBDA j : row[j] \in Terminal) IN
  {j \in Rows : row[j] \in Terminal /\
     \E i \in DOMAIN ended :
       ended[i] = j /\ (i + KeepJobs <= Len(ended) \/
                        \E n \in 1..old : n <= Len(order) /\ order[n] = j)}

List(p) ==
  /\ prune[p].step = "idle"
  /\ \E old \in 0..Len(order) :
       Candidates(old) # {} /\ InHand(p, "listed", Candidates(old))
  /\ UNCHANGED <<worldVars, readyVars, rowVars, dirs, cache, at, askVars, runVars>>

\* Who has chosen a job to link to, and has no row that shows it yet.
Choosing == {j \in Jobs : at[j] \in {"hit", "missed"} /\ link[j] # NoJob}

\* job_links: of the rows there are now.
ReadLinks(p) ==
  /\ prune[p].step = "listed"
  /\ prune' = [prune EXCEPT ![p].step = "linked", ![p].seen = Rows]
  /\ raced' = raced \cup Choosing
  /\ UNCHANGED <<worldVars, readyVars, rowVars, dirs, cache, at, asked, joined, wanted, runVars>>

\* Mutant: no render is kept for its scene.
ShownNothing == {}

\* The jobs the rows of S were cached from or read.
Links(S) == {link[j] : j \in S} \cap Jobs

\* What views and default sources show.
Shown == {LatestRender} \cap Jobs

\* The least set with every job seen that is no candidate, every one that is shown,
\* and the links of those of them that were seen.
Kept(candidates, seen) ==
  LET first == (seen \ candidates) \cup Shown
  IN  {j \in Jobs : \A S \in SUBSET Jobs : first \subseteq S /\ Links(S \cap seen) \subseteq S => j \in S}

Mark(p) ==
  /\ prune[p].step = "linked"
  /\ InHand(p, "marked", prune[p].ids \ Kept(prune[p].ids, prune[p].seen))
  /\ UNCHANGED <<worldVars, readyVars, rowVars, dirs, cache, at, askVars, runVars>>

\* The cache rows but those of the jobs deleted.
WithoutThem(ids) == [k \in Keys |-> IF cache[k] \in ids THEN NoJob ELSE cache[k]]

\* delete_jobs
Delete(p) ==
  /\ prune[p].step = "marked"
  /\ row' = [j \in Jobs |->
               IF j \in prune[p].ids /\ row[j] \in Terminal THEN "pruned" ELSE row[j]]
  /\ cache' = WithoutThem(prune[p].ids)
  /\ InHand(p, "deleted", prune[p].ids)
  /\ UNCHANGED <<worldVars, readyVars, order, key, cached, link, cancelReq, dirs, at, askVars,
                 runVars>>

\* remove_out_dir of each
Sweep(p) ==
  /\ prune[p].step = "deleted"
  /\ dirs' = dirs \ prune[p].ids
  /\ InHand(p, "swept", {})
  /\ UNCHANGED <<worldVars, readyVars, rowVars, cache, at, askVars, runVars>>

\* prune_cache: the entries whose artifacts are gone.
SweepCache(p) ==
  /\ prune[p].step = "swept"
  /\ cache' = [k \in Keys |-> IF cache[k] \in dirs THEN cache[k] ELSE NoJob]
  /\ prune' = [prune EXCEPT ![p] = [step |-> "idle", ids |-> {}, seen |-> {}]]
  /\ UNCHANGED <<worldVars, readyVars, rowVars, dirs, at, askVars, runVars>>

-----------------------------------------------------------------------------
Submission(j) == Hash(j) \/ Look(j) \/ InsertHit(j) \/ Join(j) \/ Insert(j)
RunStep(j) ==
  Run(j) \/ Acquire(j) \/ Stamp(j) \/ Read(j) \/ Succeed(j) \/ Fail(j) \/ Put(j)
Pruning(p) ==
  List(p) \/ ReadLinks(p) \/ Mark(p) \/ Delete(p) \/ Sweep(p) \/ SweepCache(p)

Next ==
  \/ Edit \/ Upgrade \/ Warm
  \/ \E j \in Jobs : Submission(j) \/ Cancel(j) \/ RunStep(j)
  \/ \E p \in Pruners : Pruning(p)

Spec == Init /\ [][Next]_vars

-----------------------------------------------------------------------------
(* Properties *)

(* Whatever was edited, upgraded, prewarmed or running at the time, a cache
   entry's artifacts were made of the files and by the runtime its key stands
   for (execute.rs, start_fingerprint and finish). *)
CacheSound == \A k \in Keys : cache[k] # NoJob => made[cache[k]] = k

(* A cached answer is a render of the files there were at the submission, by
   the runtime there was or, while no worker has told of an upgrade, an older
   one (mod.rs, plan; docs/reference.md:49). *)
AnswersAreCurrent ==
  \A j \in cached : row[j] = "succeeded" =>
    made[link[j]][2] = wanted[j][2] /\ made[link[j]][1] <= wanted[j][1]

(* A submission that joined another job is answered by a render of the files
   as they were when it was submitted, or later (mod.rs, plan). *)
JoinsAreCurrent ==
  \A j \in Jobs : joined[j] # NoJob /\ made[joined[j]] # NoKey /\ wanted[j] # NoKey =>
    made[joined[j]][2] >= wanted[j][2]

(* Pruning keeps, transitively, every job that a job it keeps was cached from
   or read (prune.rs, prune_jobs), unless that job chose it while a prune that
   had read the links was under way: its row comes too late to be seen. *)
LinksAreKept ==
  \A j \in Rows \ raced : link[j] # NoJob => row[link[j]] # "pruned"

(* A succeeded render has its artifacts for as long as its row exists: no
   prune takes the directory of a job that a kept or cached job shows
   (prune.rs, prune_jobs and prune_cache; mod.rs, plan), but for an answer from
   the cache that raced with it. *)
ArtifactsAreKept ==
  \A j \in Rows \ (Readers \cup (cached \cap raced)) : row[j] = "succeeded" => Home(j) \in dirs

(* Whatever a submission is answered with, from the cache or by joining a job,
   shows the files as they were then, or later (mod.rs, plan). *)
SubmissionsAreCurrent == AnswersAreCurrent /\ JoinsAreCurrent

(* Pruning takes nothing that is still shown, whatever is submitted, runs and
   ends meanwhile: no job that a kept one came from, no artifact of a job that
   succeeded, and not the newest render a scene can show, however old it is
   (prune.rs, prune_jobs; docs/reference.md:71).  The jobs that chose their
   origin between a prune's reading of the links and its end are left out, and
   the newest render may go once an answer of theirs lost its artifacts. *)
PruningKeepsWhatIsShown ==
  [][/\ LinksAreKept' /\ ArtifactsAreKept'
     /\ LatestRender # NoJob /\ (\A j \in cached \cap raced : Home(j) \in dirs) =>
          row'[LatestRender] # "pruned"]_vars

=============================================================================

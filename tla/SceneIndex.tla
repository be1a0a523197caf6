----------------------------- MODULE SceneIndex -----------------------------
(***************************************************************************)
(* How the scenes a server shows follow the Python files of its project:   *)
(* the file watcher and the source editor ask for a refresh (watch.rs,     *)
(* routes.rs, state.rs), `discover` scans the files or answers from its    *)
(* cache (direct.rs, db/cache.rs), and the index merges what it reports    *)
(* with the last good parse of each file (workspace/scenes.rs).            *)
(***************************************************************************)
EXTENDS Integers, Sequences, SequencesExt, FiniteSets

CONSTANTS
  Files,
  Contents,        \* of a file
  Bad,             \* those that do not parse
  Gone,            \* a file that is not there
  None,            \* nothing
  Runtimes,        \* 1, and what is installed in its place
  Callers,         \* of `discover`: the server's index, and `inspect`
  Index,
  MayRevert,       \* the files that may hold again what they held before
  KeepDiscover,    \* KEEP_DISCOVER_RESULTS
  MaxChanges,      \* bound: changes of files
  MaxTurns         \* bound: scans that fail, installations, and calls of inspect

ASSUME IndexAssumption ==
  /\ Bad \subseteq Contents /\ Gone \notin Contents /\ None \notin Contents \cup {Gone}
  /\ Index \in Callers /\ MayRevert \subseteq Files
  /\ 1 \in Runtimes /\ Runtimes \subseteq Nat
  /\ KeepDiscover \in Nat \ {0} /\ MaxChanges \in Nat /\ MaxTurns \in Nat

VARIABLES
  disk,            \* the files
  held,            \* what each of them has held
  edits,           \* history: how often each was changed
  stamped,         \* files whose stamp is the one the watcher has
  revisions,       \* Shared.revisions
  changed,         \* the scan of the watcher has noted a change
  late,            \* writes of the source editor that have yet to be announced
  wanted, permit,  \* reindex_requested, and the Notify
  scan,            \* the calls of discover
  index,           \* the SceneIndex
  cache,           \* discover results, oldest first
  runtime,         \* what is installed, what this engine knows, and how often it learnt of another
  bounds

fileVars == <<disk, held, edits, stamped>>
watchVars == <<revisions, changed, late>>
askVars == <<wanted, permit>>
indexVars == <<fileVars, watchVars, askVars, scan, index, cache, runtime, bounds>>

States == Contents \cup {Gone}
Nothing == [of |-> None, failed |-> FALSE]
Idle == [phase |-> "idle", inputs |-> None, since |-> None, read |-> None, by |-> None, heard |-> 0]

IndexInit ==
  /\ disk \in [Files -> States]
  /\ held = [f \in Files |-> {disk[f]}] /\ edits = [f \in Files |-> 0]
  /\ stamped = Files /\ revisions = disk /\ changed = FALSE       \* the watcher's first scan
  /\ late = {}
  /\ wanted = TRUE /\ permit = TRUE                               \* `index` asks first
  /\ scan = [c \in Callers |-> Idle]
  /\ index = [refreshing |-> FALSE, indexed |-> FALSE, error |-> FALSE,
              scenes |-> [f \in Files |-> Nothing], lastGood |-> [f \in Files |-> None]]
  /\ cache = <<>>
  /\ runtime \in [installed : {1}, known : {None, 1}, learnt : {0}]
  /\ bounds = [changes |-> MaxChanges, turns |-> MaxTurns]

Turn == bounds.turns > 0 /\ bounds' = [bounds EXCEPT !.turns = @ - 1]

\* Mutant: a refresh that is under way is believed to see the change.
RequestUnlessRefreshing ==
  wanted' = (wanted \/ ~index.refreshing) /\ permit' = (permit \/ ~index.refreshing)

RequestReindex == wanted' = TRUE /\ permit' = TRUE

-----------------------------------------------------------------------------
(* Files, and who sees them change *)

Put(f, c) ==
  /\ bounds.changes > 0 /\ c # disk[f] /\ (f \in MayRevert \/ c \notin held[f])
  /\ bounds' = [bounds EXCEPT !.changes = @ - 1]
  /\ disk' = [disk EXCEPT ![f] = c]
  /\ held' = [held EXCEPT ![f] = @ \cup {c}]
  /\ edits' = [edits EXCEPT ![f] = @ + 1]
  /\ stamped' = stamped \ {f}

\* An editor, or another engine.
Outside(f, c) ==
  /\ Put(f, c)
  /\ UNCHANGED <<watchVars, askVars, scan, index, cache, runtime>>

\* source_write replaces the file,
Write(f, c) ==
  /\ c \in Contents /\ Put(f, c)
  /\ late' = late \cup {<<f, c>>}
  /\ UNCHANGED <<revisions, changed, askVars, scan, index, cache, runtime>>

\* and then announces its revision and asks for a refresh.
Announce(f, c) ==
  /\ <<f, c>> \in late
  /\ late' = late \ {<<f, c>>}
  /\ revisions' = [revisions EXCEPT ![f] = c]
  /\ RequestReindex
  /\ UNCHANGED <<fileVars, changed, scan, index, cache, runtime, bounds>>

\* The watcher's scan meets a stamp it does not have: `file_changed` tells whether the
\* revision is one that was not announced.
Look(f) ==
  /\ f \notin stamped
  /\ stamped' = stamped \cup {f}
  /\ revisions' = [revisions EXCEPT ![f] = disk[f]]
  /\ changed' = (changed \/ revisions[f] # disk[f])
  /\ UNCHANGED <<disk, held, edits, late, askVars, scan, index, cache, runtime, bounds>>

LookEnds ==
  /\ changed /\ changed' = FALSE
  /\ RequestReindex
  /\ UNCHANGED <<fileVars, revisions, late, scan, index, cache, runtime, bounds>>

\* A check of the environment that passes retries a scan that failed.
DoctorPasses ==
  /\ index.error /\ ~index.refreshing
  /\ RequestReindex
  /\ UNCHANGED <<fileVars, watchVars, scan, index, cache, runtime, bounds>>

-----------------------------------------------------------------------------
(* The runtime *)

\* Another Manim is installed: the workers there are keep the one they started with.
Install(v) ==
  /\ v # runtime.installed /\ Turn
  /\ runtime' = [runtime EXCEPT !.installed = v]
  /\ UNCHANGED <<fileVars, watchVars, askVars, scan, index, cache>>

\* A worker that is ready reports what it is.
Reports ==
  runtime' = [runtime EXCEPT !.known = runtime.installed,
                             !.learnt = IF runtime.known = runtime.installed THEN @ ELSE @ + 1]

\* That of a job does.
JobWorkerReady ==
  /\ runtime.known # runtime.installed
  /\ Reports
  /\ UNCHANGED <<fileVars, watchVars, askVars, scan, index, cache, bounds>>

-----------------------------------------------------------------------------
(* discover *)

At(c, phase) == scan[c].phase = phase
Go(c, phase) == scan' = [scan EXCEPT ![c].phase = phase]

\* The server's index wakes, lets requests gather, and claims them all.
Wake ==
  /\ At(Index, "idle") /\ permit
  /\ permit' = FALSE /\ Go(Index, "gather")
  /\ UNCHANGED <<fileVars, watchVars, wanted, index, cache, runtime, bounds>>

\* claim_reindex swaps the flag.
Claim ==
  /\ At(Index, "gather")
  /\ wanted' = FALSE
  /\ Go(Index, IF wanted THEN "asked" ELSE "idle")
  /\ index' = IF wanted THEN [index EXCEPT !.refreshing = TRUE] ELSE index
  /\ UNCHANGED <<fileVars, watchVars, permit, cache, runtime, bounds>>

\* `inspect` calls discover too.
Inspect(c) ==
  /\ c # Index /\ At(c, "idle") /\ Turn
  /\ Go(c, "asked")
  /\ UNCHANGED <<fileVars, watchVars, askVars, index, cache, runtime>>

CacheGet(key) == {i \in DOMAIN cache : cache[i].key = key}

\* prepare_discover hashes the files, and looks the scan up under the known runtime.
Prepare(c) ==
  /\ At(c, "asked")
  /\ LET hits == CacheGet(<<runtime.known, disk>>)
     IN scan' = [scan EXCEPT ![c] = IF hits # {}
                   THEN [Idle EXCEPT !.phase = "done", !.read = cache[CHOOSE i \in hits : TRUE].result]
                   ELSE [Idle EXCEPT !.phase = "hashed", !.inputs = disk, !.since = edits]]
  /\ UNCHANGED <<fileVars, watchVars, askVars, index, cache, runtime, bounds>>

\* A worker of what is installed now is ready for the scan.
WorkerReady(c) ==
  /\ At(c, "hashed")
  /\ Reports
  /\ scan' = [scan EXCEPT ![c].phase = "scanning", ![c].by = runtime.installed,
                          ![c].read = [f \in Files |-> None], ![c].heard = runtime'.learnt]
  /\ UNCHANGED <<fileVars, watchVars, askVars, index, cache, bounds>>

\* It reads one file after another.
ScanFile(c, f) ==
  /\ At(c, "scanning") /\ scan[c].read[f] = None
  /\ scan' = [scan EXCEPT ![c].read[f] = disk[f]]
  /\ UNCHANGED <<fileVars, watchVars, askVars, index, cache, runtime, bounds>>

\* Mutant: the files are not looked at again.
AsHashed(c) == TRUE

\* The files are what they were before the scan.
Unchanged(c) == disk = scan[c].inputs

\* What the scan leaves: its result under the files that were hashed and the runtime
\* that is known now.  And, which the code has not: who made it, which files were
\* changed meanwhile and back, and whether another runtime was reported.
Entry(c) ==
  [key |-> <<runtime.known, scan[c].inputs>>, result |-> scan[c].read, by |-> scan[c].by,
   undone |-> {f \in Files : edits[f] # scan[c].since[f] /\ disk[f] = scan[c].inputs[f]},
   told |-> runtime.learnt # scan[c].heard]

\* cache_put: the entry of a key there is already is replaced, and becomes the newest.
CachePut(e) ==
  LET old == CacheGet(e.key)
  IN Append(IF old = {} THEN cache ELSE RemoveAt(cache, CHOOSE i \in old : TRUE), e)

\* cache_discover
CacheScan(c) ==
  /\ At(c, "scanning") /\ \A f \in Files : scan[c].read[f] # None
  /\ cache' = IF Unchanged(c) THEN CachePut(Entry(c)) ELSE cache
  /\ Go(c, "done")
  /\ UNCHANGED <<fileVars, watchVars, askVars, index, runtime, bounds>>

\* The result of a scan, merged with the last good parse of each file that does not parse.
Merged(read) ==
  LET Good(f) == IF read[f] \in Bad THEN index.lastGood[f]
                 ELSE IF read[f] = Gone THEN None ELSE read[f]
  IN [refreshing |-> FALSE, indexed |-> TRUE, error |-> FALSE,
      scenes   |-> [f \in Files |-> IF Good(f) = None THEN Nothing
                                    ELSE [of |-> Good(f), failed |-> read[f] \in Bad]],
      lastGood |-> [f \in Files |-> Good(f)]]

\* Mutant: a failed refresh leaves no scenes.
DropScenes == [index EXCEPT !.refreshing = FALSE, !.error = TRUE,
                            !.scenes = [f \in Files |-> Nothing]]

KeepScenes == [index EXCEPT !.refreshing = FALSE, !.error = TRUE]

\* finish_refresh
Refreshed(c) ==
  /\ At(c, "done")
  /\ index' = IF c = Index THEN Merged(scan[c].read) ELSE index
  /\ scan' = [scan EXCEPT ![c] = Idle]
  /\ UNCHANGED <<fileVars, watchVars, askVars, cache, runtime, bounds>>

\* The scan fails, takes too long, or a file goes away before it is hashed.
ScanFails(c) ==
  /\ scan[c].phase \in {"asked", "hashed", "scanning"} /\ Turn
  /\ index' = IF c = Index THEN KeepScenes ELSE index
  /\ scan' = [scan EXCEPT ![c] = Idle]
  /\ UNCHANGED <<fileVars, watchVars, askVars, cache, runtime>>

\* trim_discover_cache
Trim ==
  /\ Len(cache) > KeepDiscover
  /\ cache' = SubSeq(cache, Len(cache) - KeepDiscover + 1, Len(cache))
  /\ UNCHANGED <<fileVars, watchVars, askVars, scan, index, runtime, bounds>>

-----------------------------------------------------------------------------
ScanStep(c) ==
  \/ Prepare(c) \/ WorkerReady(c) \/ CacheScan(c) \/ Refreshed(c)
  \/ \E f \in Files : ScanFile(c, f)

Watch == LookEnds \/ \E f \in Files : Look(f)

IndexNext ==
  \/ \E f \in Files, c \in States : Outside(f, c) \/ Write(f, c) \/ Announce(f, c)
  \/ Watch \/ DoctorPasses \/ Wake \/ Claim \/ JobWorkerReady \/ Trim
  \/ \E v \in Runtimes : Install(v)
  \/ \E c \in Callers : Inspect(c) \/ ScanStep(c) \/ ScanFails(c)

\* The watcher polls, requests of the editor return, and the index task and its scans run.
IndexFairness ==
  /\ WF_indexVars(Watch)
  /\ WF_indexVars(\E f \in Files, c \in Contents : Announce(f, c))
  /\ WF_indexVars(Wake \/ Claim \/ ScanStep(Index))

IndexSpec == IndexInit /\ [][IndexNext]_indexVars /\ IndexFairness

-----------------------------------------------------------------------------
IndexTypeOK ==
  /\ disk \in [Files -> States] /\ revisions \in [Files -> States]
  /\ stamped \subseteq Files /\ late \subseteq Files \X Contents
  /\ index.scenes \in [Files -> [of : Contents \cup {None}, failed : BOOLEAN]]
  /\ index.lastGood \in [Files -> (Contents \ Bad) \cup {None}]
  /\ \A i, j \in DOMAIN cache : cache[i].key = cache[j].key => i = j

Shows(f) ==
  IF disk[f] \in Bad THEN index.scenes[f].of = None \/ index.scenes[f].failed
  ELSE index.scenes[f] = IF disk[f] = Gone THEN Nothing ELSE [of |-> disk[f], failed |-> FALSE]

\* Every scene shown is that of its file; after a refresh that failed, of an older text.
\* A file that was changed and back while it was scanned may be shown as it was between.
IndexIsCurrent ==
  ~index.refreshing /\ (index.error \/ \A f \in Files \ MayRevert : Shows(f))

(* Once the files come to rest, so does the index, and it shows them, unless
   its newest refresh failed or a file went back to an older text; no request
   is lost between the watcher, the editor and a refresh that is already under
   way (watch.rs, index and scan; state.rs, request_reindex and claim_reindex). *)
IndexCatchesUp == <>[]IndexIsCurrent

(* While the watcher has seen every stamp and the index has nothing to do, it
   shows the files (the same code). *)
QuietIndexIsCurrent ==
  stamped = Files /\ ~changed /\ ~permit /\ At(Index, "idle") => IndexIsCurrent

(* A cached scan describes the files it is cached under, whatever changed while
   it ran, but for a file that was changed and back, which is hashed the same
   before and after; and the runtime it is cached under is that of the worker
   that made it, unless another reported its own meanwhile (direct.rs, discover
   and cache_discover). *)
EntriesDescribeTheirInputs ==
  \A i \in DOMAIN cache :
    /\ \A f \in Files \ cache[i].undone : cache[i].result[f] = cache[i].key[2][f]
    /\ cache[i].by = cache[i].key[1] \/ cache[i].told

(* The scenes of a file are taken off the index only by a scan that found the
   file gone, or that read another text of it: not by a scan that failed, and
   not because the file does not parse (workspace/scenes.rs, finish_refresh). *)
ScenesAreKept ==
  [][\A f \in Files :
       index.scenes[f].of # None /\ index'.scenes[f].of # index.scenes[f].of
         => /\ At(Index, "done")
            /\ scan[Index].read[f] \notin Bad]_indexVars

(* What the engine takes for the newest index, when it looks for the file of a
   scene or for the scenes of a file that is written, is the scan that last
   refreshed the index: "Scene ids in this file per the scene index at write
   time" (edit.rs:132; db/cache.rs, newest_discover). *)
NewestIsIndexed ==
  (index.indexed /\ ~index.error /\ ~index.refreshing /\ ~wanted /\ late = {} /\ ~changed
     /\ stamped = Files /\ \A f \in Files : Shows(f) /\ disk[f] \notin Bad)
    => cache = <<>> \/ Last(cache).result = disk
=============================================================================

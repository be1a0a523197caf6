# Formal models of Manim Director

TLA+ modules that model Manim Director from the scheduler to the workbench's
editor, the TLC configurations that check them on small instances, and TLAPS
proofs of what holds for every instance. Paths in this document are relative to `src/`; `engine/` stands for
`crates/manim-director-engine/src/`, `runtime/` for
`runtime/src/manim_director_runtime/` and `workbench/` for `workbench/src/`.

    cd tla
    tlc -workers 2 -config MCSchedulerEngines.cfg MCScheduler   # one run; PROJECT.json lists them all
    tlapm SchedulerProofs.tla                                 # one proof module

`PROJECT.json` has for every modelled definition the source lines it stands
for, for every property a mutation of the code that breaks it, and the list of
hazards the properties are for.

## The system

Several processes work on one project directory: engines (`serve`, the MCP
server, or one command of the CLI) which share an SQLite store and the files,
and the Python runtime processes each of them starts. Nothing else is shared.

| Part | State | Operations | Talks to |
|---|---|---|---|
| Scheduler (`engine/scheduler/mod.rs`, `execute.rs`, `active.rs`) | bounded queue, worker permits, active map, a token and a publication flag per job | submit, cancel, dispatch, run, time out, shut down | store, bridge, recorder, event channel |
| Store (`engine/db/`) | job rows, engine leases, scene locks, cache, logs, snapshots, runtime identity | one transaction per call | every engine, through SQLite |
| Maintenance (`scheduler/maintenance.rs`) | tick counter, the time it last woke | renew the lease, reap, poll cancel requests, prune | store, active map |
| Result cache and coalescing (`cache.rs`, `scheduler/runtime.rs`, `db/cache.rs`) | fingerprint to job, identity of the latest runtime | look up, join, insert, stamp, put | store, files |
| Pruning (`scheduler/prune.rs`) | the candidates in hand | list, mark, delete, sweep | store, artifact directories |
| Bridge (`engine/bridge/`) | one idle worker, its key, failures, next spawn | take, hand over, wait for ready, converse, retire | runtime processes |
| Runtime protocol (`runtime/protocol.py`) | one request | ready, progress, terminal frame, exit | stdin and stdout |
| Recorder (`scheduler/recorder.rs`, `db/logs.rs`) | a batch of log records, last progress | append, flush, truncate at the quota | store, event channel |
| Event hub (`engine/server/events.rs`) | ring of recent events, last sequence number | publish, start or resume a stream, read, resync | every publisher and every stream |
| Job feed (`engine/server/feed.rs`) | ranks already published, throttles, jobs of other engines | forward the engine's events, poll other engines' rows, flush progress | event channel, store, hub |
| Watchers (`engine/server/watch.rs`, `state.rs`) | file fingerprints, pending re-index | scan, re-index, publish | files, hub |
| Source editing (`engine/edit.rs`) | files, snapshots | read, write if the hash still matches | files, store |
| HTTP and MCP servers (`engine/server/`, `engine/mcp/`) | sessions | a request per call | scheduler, workspace queries |
| Workspace queries (`engine/workspace/`) | none | views over the store | store |
| Workbench event path (`workbench/api/events.ts`, `store/store.ts`, `store/reducer.ts`) | the client's copy of jobs and scenes, gate, buffer, reconnect state | connect, follow, resync, reconnect | event hub, state route |
| Workbench editor (`workbench/editor/`) | the editor's buffer, base version | autosave, resolve conflicts | source editing |
| Python tasks and scene kit (`runtime/`) | a scene's timeline, media cache | render, export, inspect | files |
| Core types and project specification, CLI, install scripts | configuration | parse, validate, layer profiles | - |

What makes it hard to test:

- Engines share rows and locks but no memory. Each acts on what it read some
  steps ago, and any of them may be killed, stopped (SIGSTOP), shut down, or
  asleep with the whole machine.
- A job's end has four possible authors: its run, a cancellation, a shutdown
  and another engine's reaper.
- A submission is checked, inserted and entered into memory in separate steps,
  while a shutdown or a prune goes on.
- Inputs (source files, `manim.cfg`, the interpreter) change while a job that
  hashed them runs, and workers are started before the job that uses them.
- Runtime processes die, hang or break the protocol at any moment.
- What a client shows has gone through a lossy channel, a ring that turns over, a
  stream that drops, a snapshot that was taken in between, and possibly two
  server processes.

Correctness of each part, in one line: *Scheduler and store* - one live render
per scene, each job ends exactly once and is announced once, nothing waits for
ever, artifacts exist exactly for successes; *leases* - the living are not
reaped and the dead are; *cache* - an entry was made of what its key says;
*pruning* - nothing a kept job shows disappears; *bridge* - a request runs at
most once, in a worker no older than its key, and leaves nothing behind; *event
path* - a client converges to the store and never goes back; *editing* - no
write is lost silently.

## Modules

| Module | Models | Code it follows |
|---|---|---|
| `JobLifecycle` | what the engine promises about a job | `core/operation.rs`, `docs/guide.md` |
| `Scheduler` | engines over the shared store | `scheduler/mod.rs`, `execute.rs`, `active.rs`, `maintenance.rs`, `db/jobs.rs`, `db/leases.rs`, `db/locks.rs` |
| `Leases` | the heartbeats of `Scheduler`, with a clock | `maintenance.rs`, `db/leases.rs` |
| `ResultCache` | submissions answered without a run, fingerprints, pruning | `mod.rs` (`plan`), `execute.rs`, `runtime.rs`, `db/cache.rs`, `prune.rs`, `latest.rs` |
| `SceneMedia` | what a job is filed under and what the workbench shows of a scene | `scheduler/request/`, `mod.rs` (`plan`), `execute.rs`, `workspace/latest.rs`, `workspace/findings.rs` |
| `Bridge` | keeper, calls and runtime processes | `bridge/`, `execute.rs` (`dispatch`), `runtime/protocol.py` |
| `ArtifactCheck` | the contract a job's artifacts are held to | `scheduler/artifacts.rs`, `execute.rs` (`accept_result`), `confine.rs` |
| `JobLog` | a job's log, from the worker to its followers | `recorder.rs`, `db/logs.rs`, `workbench/.../LogsDialog.tsx`, `mcp/tools.rs` |
| `SceneIndex` | discovery, its cache and the project's index | `direct.rs`, `db/cache.rs`, `workspace/scenes.rs`, `server/watch.rs`, `state.rs` |
| `Workspace` | the sections of a project and who publishes them when | `server/state.rs`, `watch.rs`, `feed.rs`, `routes.rs`, `workspace/` |
| `EventHub` | the ring of numbered events | `server/events.rs` |
| `JobFeed` (extends `EventHub`) | from transitions of this and other engines to events | `server/feed.rs`, `server/watch.rs`, `recorder.rs`, `scheduler/mod.rs` |
| `EventStream` (extends `JobFeed`) | streams, snapshots and the workbench that follows them | `server/events.rs`, `server/routes.rs`, `server/auth.rs`, `workbench/api/events.ts`, `workbench/store/` |
| `FileServing` | whole files, ranges and revalidations of a file that changes | `server/files.rs`, `workspace/artifacts.rs`, `workspace/jobs.rs` |
| `SourceWrite` | how engines write a source file | `edit.rs` |
| `EditorSession` (extends `SourceWrite`) | one document of the workbench's editor above it | `workbench/editor/session.ts`, `server/routes.rs`, `server/watch.rs` |
| `TextEdit` | reading pages and replacing lines by number | `edit.rs` (`read_source`, `replace_lines`) |
| `CommandLine` | the commands of the binary as processes | `cli/src/main.rs`, `serve.rs`, `signal.rs`, `scheduler/mod.rs` |
| `AgentServer` | the MCP server | `mcp/mod.rs`, `mcp/tools.rs` |
| `SchedulerProofs`, `BridgeProofs` | theorems about the module each is named for | |
| `StoreProofs` | theorems about `ResultCache`, `Leases` and `SceneMedia` | |
| `JobFeedProofs`, `StreamProofs` | theorems about `EventHub` and `JobFeed`; about `EventStream`, above them | |
| `FilesProofs` | theorems about `SourceWrite`, `EditorSession`, `FileServing`, `TextEdit` and `ArtifactCheck` | |
| `FrontProofs` | theorems about `CommandLine`, `AgentServer`, `SceneIndex`, `JobLog` and `Workspace` | |
| `Induction` | induction over numbers and the library's folds, for the proofs of `ResultCache`, the event path, the files and the fronts | |
| `MCScheduler`, `MCBridge`, `MCJobFeed`, `MCEventStream` | instances for TLC | |
| `MCStore`, `MCFiles`, `MCLogIndex`, `MCFronts` | instances of several components at once, see below | |

**Several components in one instance.** `MCStore`, `MCFiles`, `MCLogIndex` and
`MCFronts` extend components that share no state. A variable `focus`, chosen
by the initial state, says which of them runs; the others stay at rest, in a
state in which nothing fair of theirs is enabled. The states are the disjoint
union of the components' and every property is about one of them; it holds of
a behaviour with another focus because nothing moves there. This is one
question about "the files" or "the fronts" per run, not a composition: where
components interact (a writer and the editor, the feed and its clients), one
module extends the other.

**Type invariants.** Every module has one. They are no properties of the runs,
which keep to what could really be wrong; each was evaluated by TLC on the
instances of the runs, and those of `Scheduler`, `ResultCache`, `Bridge`,
`Leases`, `SceneMedia`, `SceneIndex` and `JobLog` are proved (`TypeCorrect`,
`LeasesTypeCorrect`, `PicturesTypeCorrect`, `IndexTypeCorrect`,
`LogTypeCorrect`), as are those of `EventHub`, `JobFeed`, `SourceWrite` and the
other modules with theorems as far as their proofs use them.

### Scheduler

One step is one store transaction together with the in-memory work around it
that no other actor can tell apart from it.

| Action | Code |
|---|---|
| `Admit`, `Insert`, `InsertFails`, `Enqueue` | `submit`: the closed check and the queue slot, `store.insert`, then the active map, the channel and the second closed check |
| `Abandon` | the client disconnects while its submission waits for the insert, and the server drops the handler's future: the slot is free, the insert goes on by itself (`Inserting`), and nothing follows it |
| `Cancel`, `CancelQueued`, `CancelWon`, `CancelFails` | `cancel` and `cancel_local`: request on the row, mark the token, `cancel_queued`, publish; a call is `"unawaited"` if its handler is dropped at `cancel_queued`, after which nothing is published, and none is made if it is dropped before |
| `Dispatch`, `StartRun`, `RefuseRun`, `RunFails` | the dispatcher; `run` with `set_running` and the artifact directory |
| `LockTry`, `LockFails` | `lock_scene`: a permit, then `try_lock_scene`, the permit given back if the scene is taken |
| `Deliver`, `Answer`, `Converse`, `Abort`, `Orphaned` | the conversation; the token and the timeout of `execute`; a runtime that follows its parent |
| `Finish`, `Release` | `finish`: the terminal transaction; then unlock, directory, event |
| `Boot`, `Upkeep`, `GoStale`, `Shutdown`, `Leave`, `Exit`, `Crash`, `Freeze`, `Thaw` | `start`, `upkeep`, a heartbeat that ages, `shutdown`, `release_lease`, and what happens to a process |

Abstractions: time (a lease may go stale whenever its engine does not renew it
and a timer may fire whenever it is armed); the confirmation that a submission
raced a shutdown is part of `Enqueue`; the shutdown's calls run concurrently
although the code awaits them in turn; reaping and the removal of the reaped
directories are one step; the owner and the scene of a job are constants, since
no statement of the store changes them. A job answered by the cache never
reaches this module, and the retry of an undelivered request is `Bridge`'s.
Only the handlers of HTTP requests are futures that may be dropped
(`server/routes.rs`); a message to the MCP server and a command of the CLI have a
task of their own that sees its submission through. `MayDrop` names the jobs of
clients that may disconnect.

### Leases

`Scheduler` assumes that the lease of a healthy engine is fresh. `Leases` says
when that is so: seconds pass, ticks come up to `Late` seconds late, the
machine sleeps (the wall clock goes on, the clock of the ticks does not), and
`Thaw` holds the reaper back after a sleep. Ages are kept only as far as a
comparison looks.

### ResultCache

All jobs are renders of one scene with one task, or readers of the newest
render. The files are one version number, which edits increase; so is the
runtime's. A submission goes through `Hash`, `Look`, then `InsertHit`, `Join` or
`Insert`, with anything in between; its run through `Run`, `Acquire`, `Stamp`
(start fingerprint), `Read` (what the runtime really imports), `Succeed`, `Put`.
A prune is `List` (the candidates), `ReadLinks`, `Mark` (what views show, and the
closure over the links that were read), `Delete`, `Sweep`, `SweepCache`, with
submissions between any two. `raced`, which the code has not, holds the jobs that
chose the job they link to between a prune's reading of the links and its end:
what the code promises of links it cannot keep for those, and the
properties leave them out and no others. The look-up merges
`cache_get`, the check that the artifacts are intact and the deletion of a
broken entry; the second hash and the insertion are one step. `KeepJobs = 1`
scales down the policy of at least fifty jobs.

### Bridge

The keeper is a task with a biased select: it serves a take before anything
else but its close (`NoTake`). A process goes from starting through waiting and
handling to answered, and may die or write nonsense anywhere before. A request
line is written in two parts, since it may exceed what a pipe holds, and a
process that exits without reading it makes the write fail. `manim.cfg` stands
for all that a worker fixes at its start: `cfg` and `loaded` count its versions,
keys are texts (`Text`, the hash of the code), and an edit may bring an earlier
text back. `Respawn`, `IdleStep`, `Expire`,
`HandOver` and `Close` are the branches of `Keeper::run`; `Begin`, `Wait`,
`AskInVain`, `SpawnOwn`, `StartupStep`, `IsReady`, `Stamp`, `Write`,
`WriteFails`, `Converse` and `Drain` follow `dispatch`, `acquire`, `into_ready`
and `converse`; `BeginDirect` is `run_direct`. Process identities are used
again after a process ended, so the number of processes over time is not
bounded, only the number at a time.

### SceneMedia

One scene, which its author may move from a file to another, and the jobs
about it. `SubmitRender`, `SubmitFrame`, `SubmitQa`... resolve the scene to the
files to search, the association and the revision the row is born with
(`SceneLookup`, `scene_target`, `source::select`); `Cached` answers from an
earlier result. `Begin` is the start fingerprint, `Make` what the runtime reads
by then, `Finish` the scene and revision the row ends with. `Rescan` is the
index, `Move` and `EditFile` the author. A picture is the file and text it was
made from, which the code never sees: the properties compare it with what
`scene_latest`, `Revisions::outdated` and `findings` derive from the rows.
Stills are rendered as videos are and contact sheets made as frames are, so one
of each pair stands for both; files are never reused as another job's output
(`MayReuse`), jobs do not read an unfinished job's file (`MayPeek`).

### ArtifactCheck

`Cases` are a task, the files its runtime reports and the report itself. A file
is what the disk and ffprobe say of it. `RejectAll` is `accept_result`,
`Examine` one artifact through `validate` (`Located`, `Inspected`,
`Mismatches`), `Conclude` the verdict. Rates are kept as the fractions the
probe prints: `RateFits` and `GifRate` are computed in integers, with the
tolerance of the code as a fraction.

### JobLog

`Report`, `ReportProgress` are the recorder's ends of the channel; `Take`, `Due`,
`IntervalPasses`, `AppendLogs`, `SetProgress`, `FlushFails`, `LastFlush` the
branches of `write_batches` and `flush`; `Close`, `Finish`, `Crash`, `Reap` the
end of the run. `FetchMore`, `HearsEnd`, `ServePage`, `ShowPage`, `PageFails`,
`Reopen` are the log dialog; `AskStatus`, `ReadRow`, `ReadLog` a `job_status`
call that pages through the log. A record is a number and a size.

### SceneIndex

`Look`, `LookEnds` are the watcher's scan of one file after another, `Announce`
the handler of a source write, `DoctorPasses` the retry; `Wake`, `Claim` the
index task with its flag and its permit; `Prepare`, `WorkerReady`, `ScanFile`,
`CacheScan` a discovery (hash, look up, scan, hash again, put), by the index
task or by `inspect`; `Refreshed` merges it, `ScanFails` keeps what was there.
A file is its content; `Bad` contents do not parse. `Install` puts another runtime
in the place of the one there is, `Reports` is what a ready worker tells the
engine. The files of `MayRevert` may go back to an older text. What is
cached says of itself, unlike the code, who made it (`by`), which files were changed
and back meanwhile (`undone`) and whether another runtime was reported (`told`).
The watcher's first scan, which announces nothing, is over before anything is
discovered; in the code it runs beside the first refresh (see Observations).

### Workspace

The facts (`director.yaml`, Python files, the catalog a worker reports, checks
and renders) have versions; a section shows the versions it was derived from
(`Derivations`). Five tasks derive sections on the blocking pool (`Loads`,
`ReadsRest`) and publish when they are done (`Publishes`), so that they overtake
each other: `publish_sections` of the index, files, catalog and feed tasks and
of each source write of `director.yaml`. An event replaces what its sections showed
(`published`), be it older or not. Two histories, which the code has not, say
what the properties need: the newest version that any event had of each section
(`newest`), and which sections were last published by a source write (`ofSave`).

### SourceWrite, EditorSession and TextEdit

A request of `write_source` is a writer: `Begin` (read, expected revision, edit,
validation), `TakeLock`, `Recheck`, `OpenSnapshot`, `SaveSnapshot`, `Rename`, with
`Fail` and `Crash` between any two; `Prune` sweeps snapshots and empty
directories; `Outside` is a program that takes no lock. `EditorSession` puts one
document above it: `Type`, `Save`, `SaveSent`, `SaveAnswered`, `SaveCut`,
`Reload`, `Overwrite`, `OverwriteAnswered`, `VerifyAnswered`, `LoadAnswered`,
`FileEvent`, `CutStream`, `Snapshot` are the methods and continuations of the
session, `RenameOfTab`, `Scan`, `Published`, `AskServed`, `LoadServed` the
server's side. A revision is the hash of the text, so a text stands for its
revision. `TextEdit` has the arithmetic of lines: `ReadPage`, `ReplaceLines` with
CRLF, a missing final newline and every range.

### FileServing

A request is two steps, since `serve` answers headers from metadata and opens
the file afterwards: `Ask` (`Located`, `RightVersion`, `RequestedRange`, `Headers`)
and `Send` or `Refuse`. `View` is the page that hands out URLs with versions;
`Replace` and `RemoveFile` are jobs, pruning and authors. The player, external,
keeps the bytes it got with their validator. `MayReplace = FALSE`: see the
observations.

### CommandLine and AgentServer

A command is a process with an engine of its own: `Start`, `Refused`,
`SubmitJob`, `Cached`, `Joined`, `Serve`, `ServeSubmit`, `Finished`, `Press` (a
signal at any moment), `Cancel`, `Settled`, `Shutdown`, `Exit`, and `Run`, `End`,
`ReapJob` for what the engines do with the jobs, in the detail a command can
see. A message to the MCP server is read (`Read`), handled by a task of its own
(`AnswerAtOnce`, `Submit`, `Status`, `WaitEnds`) and answered through the outbox
(`WriteAnswer`); `Stop` and `Leave` are `serve`'s ends and `run_mcp`.

### EventHub, JobFeed and EventStream

Each module extends the one before and adds its variables, so that one state has
the engine, the feed, the hub, one stream and one workbench.

| Action | Code |
|---|---|
| `Publish` | `EventHub::publish`: the next number, the ring, the oldest frame dropped |
| `Submit`, `Run`, `End`, `Reap`, `Report`, `Save` | what the serving engine stores, with the event still to be sent (`due`); `Recorder::progress` sends before it stores |
| `Tell` | `broadcast::Sender::send`, which overwrites the oldest event of a full channel |
| `OtherEngine` | an engine that shares only the store |
| `FeedBegin`, `FeedLagged`, `FeedEvent`, `FlushProgress`, `PublishDirty` | the branches of `feed::run`: lagged receivers publish a resync, ranks only rise (`Feed::job`), progress is throttled |
| `Poll`, `Polled` | `poll_foreign`: the query, then one record at a time |
| `PublishOther` | the watchers and the editor routes, of which only that they take a number matters here |
| `Stop`, `Start`, `SignIn` | the server process, with a new instance and a session of its own |
| `Pump`, `StreamOpens`, `StreamDrops`, `StreamFails` | the stream of `GET /api/events`: `EventHub::start`, `read`, `resync`; its `EventSource` |
| `ReadCursor`, `BuildSnapshot` | `GET /api/state`: the cursor first, the rows after |
| `Receive`, `Resynced` | `EventFeed`: the gate, and the buffer while a snapshot loads |
| `Connect`, `Connected`, `LoadFails`, `ProbeAnswers`, `RequestFails`, `Refresh`, `Ask`, `Tracked` | `WorkbenchStore`: rounds, the reconnect timer, the health check, the user's requests and their answers |

Abstractions: a job is a rank (queued, running, ended) and a progress count, so
that "older" and "newer" are numbers; an instance is a number that grows. The
user, the other engines, the broadcast channel and the browser's `EventSource`
are external, modelled from how the code uses them. A failed request, a dropped
stream, a reload and a question of the user's are taken from one budget
(`MaxTurns`), restarts from another (`MaxRestarts`).

## Runs

All passing runs are exhaustive.

| Run | Question | Instance | States |
|---|---|---|---|
| `scheduler_engines` | Everything that can happen to an engine (shutdown, kill, stop, store and disk failures) while a client cancels or disconnects: one live render (`SceneExclusive`), a healthy engine keeps its jobs (`HealthyEngineKeepsItsJobs`), one ending told once (`ToldOnce`), artifacts exactly for successes (`KeptArtifacts`), and the refinement of `JobLifecycle` (`RefinesLifecycle`) | 2 engines, 2 renders, 1 worker, 1 slot | 1.0 M |
| `scheduler_live` | Does every job end and is every end told? `EveryJobEnds`, `EveryEndingTold` | the same, one engine may leave or crash, its store and disk may fail, its client disconnect, `FairSpec` | 0.07 M |
| `scheduler_cancel` | Does a cancellation end a job although runtimes never answer, there is no timeout and the client disconnects (`CancelTakesEffect`)? Do slots and permits stay in order (`CapacityIsKept`)? | 3 jobs on 2 engines, two of them renders of one scene, 1 worker, 1 slot, `PatientSpec` | 0.04 M |
| `bridge` | Is a request run once and for its caller (`WorkIsForItsCaller`), in a current worker that the keeper can always hand out (`IdleWorkersServe`), and does nothing outlive its call or the bridge (`CancelledCallsReturn`, `CloseLeavesNothing`)? | 1 call, 3 processes at a time, 1 fault, an edit and its undoing, a cancellation, a close, `FairSpec` | 0.4 M |
| `job_feed` | Has the ring no gap (`RingIsContiguous`), and does it tell each job in the order it happened, with a lagging channel and polls in between (`EventsAreInOrder`)? | 2 jobs, 2 reports each, a channel of 1, a ring of 2, 1 other event | 2.3 M |
| `event_stream` | Does the workbench show what the store has whenever nothing is on its way (`NothingIsLost`), never go back (`AppliedInOrder`), and always have a way back (`NeverAbandoned`)? | 1 job, a channel of 1, a ring of 2, 1 restart, 1 failure or question, the question before the restart (`EarlySpec`) | 2.2 M |
| `files` | Is nothing typed or written lost or overwritten unseen (`NoEditIsLost`, `WritesLoseNothing`, `NothingUnseenIsOverwritten`)? Do line numbers mean what they say (`LineNumbersHold`)? Does a player get whole bytes of one file (`PlayersGetWhatTheyAskFor`)? Is an accepted artifact the one asked for (`AcceptedIsAsAsked`)? | a tab and an agent, 3 texts of which 1 is invalid, 1 snapshot kept, 3 faults or outside writes; 3 requests for files of up to 4 bytes; some 98 000 cases of artifacts; texts of up to 3 lines | 1.7 M |
| `store` | Does an entry hold what its key says (`CacheSound`), is an answer current and a join allowed (`SubmissionsAreCurrent`), does a prune keep all that is shown (`PruningKeepsWhatIsShown`), are the living kept and the dead noticed (`LeasesTellWhoLives`), and do pictures tell the truth about their scene (`PicturesTellTheTruth`)? | 2 renders, 3 versions of the files or 2 of the files and the runtime; two renders and a reader with a pruner; 2 engines, sleeps of 4, 6 and 12 s, a lease of 10 s; 3 jobs, 2 files, 2 edits | 1.6 M |
| `log_index` | Is a log whole or marked as cut for whoever has read it (`LogsAreWhole`), does everything reach it (`ReportsAreStored`)? Does the index follow the files (`IndexCatchesUp`), keep scenes it has no reason to drop (`ScenesAreKept`), and cache only what it saw (`EntriesDescribeTheirInputs`)? | 3 reports, a quota of 2 records or 3 bytes, batches of 2, pages of 2, 1 fault; 2 files, one of which may go back, 3 contents, 2 changes, 2 runtimes | 0.5 M |
| `fronts` | Is every change shown, and where the code keeps the order, shown last (`EveryChangeIsShown`)? Does every command return (`EveryCommandReturns`), cancel only its own job (`CtrlCCancelsOwnJob`) and exit with the truth (`ExitCodesTellTheTruth`)? Is every request of an agent answered, once (`EveryRequestIsAnswered`, `EndOfInputLosesNoAnswer`)? | 2 changes of facts, 5 tasks; 2 commands, 2 jobs, 2 signals each; 2 messages, 2 jobs | 0.26 M |
| `media_unindexed` | *(violated)* `NothingStaleLooksCurrent` without an index of the project | 1 file, 2 renders, 1 edit | 333 until violated |
| `scheduler_dropped` | *(violated)* `CancelEndsOwnJobs`: a cancellation ends every job of a healthy engine | 2 engines, 2 renders, one submission that may be dropped, `PatientSpec` | 2988 until violated |

**Why the bounds are enough.** The rules of the store compare one job with one
engine or with the job that holds one lock: two engines and two jobs of one
scene show every pair, a third job shows a queue that is full while a permit is
handed around. One worker and one slot make every wait possible; more only make
it rarer. In `Leases` a second engine is enough, since every decision is between
a reaper and one lease; the sleeps are shorter than half a lease, longer than
half, and longer than a lease, the three cases of `Thaw`. In `ResultCache` a
third version of the files distinguishes "the version read" from both the one
hashed before and the one hashed after; the runtime is upgraded where the files
change only once. For pruning, a reader and two renders of one scene make a chain of
links of every kind, and a submission that comes between any two steps of a prune. In `SceneMedia` three jobs are a render,
what is made from it, and a newer render, and two files are the one a scene is
in and the one it moved to. In `Bridge` one fault is a
death at any step of a process, a failed start or a partial write whose retry
goes through, and three processes are one with the call, one idle and one on its way
out. A retry that fails as well needs a second fault: `MaxFaults = 2`, the instance
otherwise the same, has 1.3 M states and no error, and takes too long to keep as a
run; that a request is run once is proved for any number of them
(`WorkHasItsCaller`). A second call meets the first only in the keeper. In the event path a channel of
one lags at the second event and a ring of two turns over at the third, while
a job has three transitions and a restart begins a new numbering; two jobs
are needed where the feed treats them together (the order of its memory of
endings, the ring), and one where a client compares what it has with one row. The
two budgets of `event_stream` allow one failure in either life of the server; a
question asked in the second life meets nothing that one asked in the first did
not.
In `SourceWrite` the lock and the two checks are between one writer and any
other; two writers and an outsider meet in every order, and a snapshot limit of
one makes every second write a pruning one. In the editor one load at a time
may be late behind a save, an event and a re-check; three budgeted steps
(outside writes, faults, cuts) allow a conflict whose resolution meets another.
In `JobLog` two records fill a batch, a page and the quota, and a third overflows
each. In `SceneIndex` two files are one that changes while the other is read,
two callers the index and an `inspect`, and two changes take a file of `MayRevert`
from a to b and back while it is scanned. In `Workspace` an older derivation needs
one change to be older than, and a second to be overtaken again.
`ArtifactCheck` and `TextEdit` enumerate their inputs: every field of a file
changed alone and the pairs the checks combine (format and alpha, extension
and container, rate and delay); every text of up to three lines of two words,
one empty, with and without CR and final newline, and every range of them.

**Deadlock** is not checked: every instance stops when its jobs are done and its
engines gone, or its bounds used up.

**Fairness.** `PatientSpec` asks for weak fairness of what tokio and the
maintenance interval drive: upkeep ticks, the dispatcher, each run's own steps,
each cancellation's steps, and the abort of a run whose token is cancelled. A
heartbeat nobody renews ages. Nothing asks a runtime process to answer.
`FairSpec` adds that the timer of a run fires, which `execute` arms for every
attempt. In these runs no engine is stopped and resumed for ever (that would
need strong fairness of the scheduler of the operating system); a permanent loss
is a crash. Submitting, cancelling, disconnecting, stopping and crashing are never
fair, nor does a submission that was dropped ever reach the dispatcher. In
`Bridge` the steps of a call and of the keeper's hand-over are weakly fair, as
are the ends of retired processes, which are killed after a grace period.
`LogFairness`: the recorder's task runs, its timers fire and its writes come
back; the followers need no fairness, as nothing eventual is claimed of them.
`IndexFairness`: the watcher polls, a source write's handler announces what it
wrote, the index task and its scans go on; a scan may fail, and then only a
retry the user or a passing doctor asks for comes. `WorkFairness`: each of the
five tasks goes on whenever it can and a blocking derivation returns.
`CliFairness`: a command takes its next step, each living engine reaps, and each job
is run and ended (it has a timeout). `AgentFairness`: tasks run, waits have
an end, the output takes what is written; no job need end. The event path has
no liveness property: its convergence is stated without fairness, as
`NothingIsLost` (wherever nothing is on its way the client is right) and
`NeverAbandoned` (a client without a stream has something pending that brings
it back).

## Proofs

Proved with TLAPS for every value of the constants that satisfies the named
assumptions (owners are engines, a lock needs a scene or none, bounds are
positive, versions are numbers). Every invariant and every action property that a
passing run checks is stated by a theorem. Of the liveness properties, which are
out of the prover's reach, four modules have the part that is safety: that a
state in which nothing is left to do is one in which all is done, or that
whatever is not done has a step ahead that does it. What TLC adds to these
is that the steps are taken.

`SchedulerProofs`:

- `TypeCorrect` - `Spec => []TypeOK`, with `Settled` (a run about to finish has
  an outcome), without which `Finish` could write a row that is no status.
- `ScenesAreExclusive` - `Spec => []SceneExclusive`. The property does not say
  why a second render cannot start, so it is strengthened to `LockInv`: a live
  render holds the lock of its scene. A reap that takes the lock of an engine
  fails its live renders in the same step, `try_lock_scene` takes a lock over
  only from a job whose row has ended, and `unlock_scene` gives back only the
  caller's.
- `RowsInvariant` - `RowInv`: where a job is (submission, dispatch queue, run,
  a cancellation that won) bounds what its row can say, and no job is twice in a
  queue. It is what rules out that a run starts a row that was never inserted, or
  that a cancellation and a run both end a row.
- `AnnouncedOnce`, `EndsOnce`, `ImplementsLifecycle` - from `RowInv`: the end is
  told at most once and only when recorded; a terminal row never changes; every
  step of the engines is a step of `JobLifecycle` or leaves it alone.
- `HealthyEnginesKeepTheirJobs` - `Spec => []HealthyEngineKeepsItsJobs`.
  `ProcessInv`: a process that has not started has submitted nothing, and one that
  is never stopped and whose upkeep never fails is up with a fresh lease once it
  has started (`Scheduler::start` renews before it reaps). So a reaper finds no
  such engine lapsed while it has rows to lose.
- `ArtifactsAreKept` - `Spec => []KeptArtifacts`. `DiskInv` ties the directory to
  the phase of its run: it is there from the start of the run, whoever ends the
  row as succeeded still has it, and whoever ends it otherwise removes it.
- `CapacityKept` - `Spec => []CapacityIsKept`, for any number of workers and
  places. `PlaceInv` says which jobs hold a place in the queue: those admitted or
  waiting, one that another engine failed, and one whose cancellation has won but
  has not yet given the place back; a dropped submission holds none, and its row is in
no queue (`LeavesItsRow`). `PermitInv`: a runtime is busy only in a
  conversation, whose job holds a permit, and the permits are counted.
- `NoJobIsLeft` - `Spec => []NoJobIsForgotten`, the safety part of `EveryJobEnds`,
  `CancelTakesEffect` and `EveryEndingTold`. A job of an engine that goes on is
  never dropped between the hands it passes through (its submission, the queue,
  its run, a cancellation): while it has not ended one of them has it, the active
  map knows it once it was submitted, and a cancellation that was marked is carried
  out; when it has ended, its run or the cancellation that won has yet to tell. And
  what it holds (a permit, its scene's lock) is held by a phase of its run that
  gives it back. `HandInv` adds that nobody can cancel a job
  its submission has yet to hand over (`Unheard`). Engines of `MayFail`, whose store
  calls may fail, are exempt from the first part only: what their jobs hold is still
  given back. So is a job whose submission was dropped, which nobody has in hand and
  which stays queued while its engine lives (see the next section): of it the theorem
  says that it holds no place, no worker and no scene, and is in no queue.

`StoreProofs`:

- `EntriesAreSound` - `~ MayRevert /\ Spec => []CacheSound`. `RunInv` orders the
  version hashed at the start, the version read and the present one; equal hashes
  at both ends then leave only one version in between. The assumption is needed:
  see below.
- `AnswersStayCurrent` - `~ MayRevert /\ Spec => []SubmissionsAreCurrent`. A cached
  answer is a job that is over and made what was asked for (`AnswerInv`); what a
  joined job reads is no older than what was wanted (`JoinInv`), as files do not go
  back.
- `PruneTakesNothingShown` - `Spec => PruningKeepsWhatIsShown`, an action property,
  for any number of pruners and whatever is submitted, runs and ends while they
  work. `ShowInv` says what a pruner has in hand between its transactions: no job in it
  is linked to by a row that stays, and nothing that happens meanwhile makes it so,
  except where a job chooses its origin after the links were read: those are the
  jobs of `raced`, whose links, and for answers of the cache whose
  artifacts, may go. The newest render of the scene is nobody's candidate for as long
  as those answers have theirs.
- `TypeCorrect` - `Spec => []TypeOK`, by way of the order of insertion (`Listed`),
  from which `Newest` takes its choice.
- `LeasesTellTheLiving` - `Prompt => (LeaseSpec => []LeasesTellWhoLives)`, for any
  engines, spans and sleeps. `AliveInv`: an engine that did its upkeep since the
  last sleep has a lease no older than that upkeep, and against one that has not
  nobody reaps: the sleep was shorter than what a reaper notices, the reaper has
  yet to see that it slept, or it holds back, and for longer than that engine
  needs (`Spared`). `NoticeInv`: how long a death is overdue bounds how far every
  engine is from the reap that fails the dead one's jobs (`Nearing`). `Prompt` says
  that the machine does not sleep in the middle of an upkeep (`Quiet`; false
  without it, see Observations) and that two ticks, however late, come within less
  than `FREEZE_MILLIS`: 5 s for ticks 1 s apart, which leaves each of them 1.5 s to
  be late.
- `TheDeadAreNoticed` - the half of it about the dead, which needs neither `Quiet`
  nor more than one tick within `FREEZE_MILLIS` (`Ticking`). `LeasesTypeCorrect` -
  `LeaseSpec => []LeaseTypeOK`.
- `PicturesAreTrue` - `Plain => (MediaSpec => []PicturesTellTheTruth)`, for any files,
  edits and jobs. A picture is good for a revision when it shows the scene in the
  file of that revision, in a text no older (`Good`). A row on its way has a revision
  of a text that was, and its input is a place nobody writes any more (`Still`)
  with a good picture; a row that is over has one itself (`Sound`), and so does a
  result in the cache (`HitInv`). Places are written once (`PlacesInv`), and
  versions only grow, so an unmarked row, whose revision is the present one, shows
  the present text. `Plain` is what the run `store` assumes: that a scene's file is
  known when a render of it is submitted, without which the property is false (see
  the next section), that no export overwrites another's output, and that no
  unfinished job's file is named as a source (see Observations).
- `PicturesTypeCorrect` - `Plain => (MediaSpec => []MediaTypeOK)`: besides, a job reads
  only what was submitted before it (`Earlier`).

`BridgeProofs`, from one inductive invariant `BridgeInv`:

- `WorkHasItsCaller` - `Spec => []WorkIsForItsCaller`. `CallInv`: a call has a worker
  of its own, which is not the idle one, and the worker that has begun its request
  has been sent all of it and begins no other; `ProcInv`: a process that was sent
  a request, or works on one, has a call that converses or drains.
- `IdleWorkersAreOfUse` - `Spec => []IdleWorkersServe`. The idle worker and that of
  each call have imported a `manim.cfg` at or after a version with the text of their
  key (`Had`, in `IdleOK` and `CallOK`), which edits and their undoing keep; the
  keeper has failed too often only when it neither has a worker nor waits for
  one (`KeeperInv`).
- `TypeCorrect` - `Spec => []TypeOK`.

`FrontProofs`: `SignalsReachOwnJobs` and `CodesAreTrue`
(`CliSpec => []CtrlCCancelsOwnJob`, `[]ExitCodesTellTheTruth`): a command cancels or
settles only where its job has it as the owner (`Own`), and one that is leaving
reports a row that has ended and keeps its end (`Code`, `JobsGoOn`).
`NoAnswerIsLost` (`AgentSpec => []EndOfInputLosesNoAnswer`): until the server stops,
the messages that want an answer are those with a task and, once each, those
with an answer written or waiting to be (`AnswerInv`); at the end of its input it
stops when neither a task nor a waiting answer is left.

About `SceneIndex`, also in `FrontProofs`:

- `ScenesStay` - `IndexSpec => ScenesAreKept`: what the index shows of a file is what
  its last good parse had (`ShownInv`), so only a scan changes it.
- `EntriesTellTheirInputs` - `IndexSpec => []EntriesDescribeTheirInputs`, with files
  that go back and runtimes that come and go. `SoundScan`: what a scan under way has
  read of a file is what it hashed unless the file changed since, and then the
  second hash differs or the file went back; and while no other runtime was
  learnt of since its worker was ready, the known one is that worker's.
- `IndexTypeCorrect` - the type invariant, and that no key of the cache has two
  entries (`KeysDiffer`).
- `TheIndexFollows` - `IndexSpec => []QuietIndexIsCurrent`, the safety part of
  `IndexCatchesUp`. For each file outside `MayRevert` (`Noticed`): the watcher will see a
  revision that was not announced, or has and will ask, or a refresh is wanted; or
  else the index shows the file, or the refresh under way has yet to read it, or
  read what it now is. A wanted refresh has its permit or is being claimed
  (`Woken`): the flag and the `Notify` never disagree for good. It needs that the
  revision of such a file, when it changes, is one it never had (`WasHeld`), and is
  false of others: see Observations.

About `JobLog`, in `FrontProofs`:

- `LogsStayWhole` - `LogSpec => []LogsAreWhole`, for any records, sizes, quotas, page
  limits and failures. `Pipeline`: the records sent are, in their order, those in
  the channel, those waiting at the writer, those of the batch in hand, and those
  that passed; the stored log is what passed, or (after a flush that failed) some of
  it, or what fits (`Tells`). `Sound`: the usage row is the number and the bytes of
  what is stored, which stays within the quota, and the marker is the last row
  exactly when it is truncated. `ShownIsLog`, `ReadIsLog`: the pages the dialog and
  the agent have read are a prefix of the log up to their cursor, and who has
  reason to stop has heard of the end first, after which the log does not grow.
- `LogTypeCorrect` - `LogSpec => []LogTypeOK`.
- `ReportsGetStored` - `LogSpec => []QuietLogIsStored`, the safety part of
  `ReportsAreStored`. What waits at the writer has a time set (`TimeIsSet`, what
  `StillDue` is for), and the newest progress is the last in the channel, or after
  it nothing but records is, and then it is what the writer holds, or the batch, or
  the row (`ProgressIsKept`).

About `Workspace`, in `FrontProofs`: `ViewsCatchUp` -
`WorkSpec => []QuietViewsAreCurrent`, the safety part of `EveryChangeIsShown`, for
any sections and interleavings of tasks, reads and publications. Of each section
and each fact it derives from (`AllFollowed`): some event had the
newest version, or a task that derives it has yet to read that fact or has read
it as it is, or the watcher, the catalog or the feed has yet to notice the
change. `ScansFollow` says the same of the index and the Python files, `Behind`
that nothing read or announced is ahead of the files, and `OneAtATime` that the
index and the file task publish nothing while they scan. That the last event is also
the newest, of the sections one task publishes (`InOrder`) and, but for a save's
event, of the scene list and the storyboard (`ListsFollow`: after every change of
`director.yaml` that another task announces, the index task publishes them once
more), is the rest (`PublishedInv`). Of the writers it is assumed that none is named
as one of the server's own tasks.

`FilesProofs`:

- `WritesAreSafe` (`WritesLoseNothing` for any writers, texts, crashes and snapshot
  limits). Under the lock a writer is alone (`OneHolder`), so nobody who takes the
  lock can undo its second check, and only an outsider can, who marks it as
  outrun (`CheckHolds`); nobody else adds a snapshot meanwhile, and a prune keeps
  at least the newest (`SavedIsNewest`, which needs `KeepSnapshots # 0`). The
  invariant of the three is `WritersAreSafe`.
- `EditorIsSafe`, `EditsAreKept`, `OverwritesAreSeen` - `NoEditIsLost` and the action
  property `NothingUnseenIsOverwritten` of the editor above those writers. The
  engine works for the tab on a text the save was shown, and writes the text of
  that save (`TabOK`); a save not sent yet expects what its buffer is based on, or
  what the user agreed to overwrite (`SaveOK`, `DocOK`); and what was typed last is
  the buffer's, with no load under way that may drop it (`UnsavedOK`).
- `PlayersAreServed` - `~ MayReplace => (ServingSpec => []PlayersGetWhatTheyAskFor)`,
  for any size of file and of piece and every range: while a request is answered
  the answer is that of the present file (`ServingInv`). The hypothesis is needed
  since `serve` reads the version and opens the file in two steps (see
  Observations).
- `LinesAreRight` - `TextSpec => []LineNumbersHold`, for texts and pages of any
  length: the pages read are a prefix of the text, and replacing lines leaves every
  line before and after, and the file's ending, as they were.
- `AcceptanceIsRight` - `CheckSpec => []AcceptedIsAsAsked`, for any number of
  artifacts of any size and rate. `CheckInv`: every artifact looked at so far is
  fine, and the total is the sum of their sizes. What the code's comparison of
  rates accepts is the rate asked for within its tolerance by multiplying both
  sides out, step by step, since the provers multiply no two unknowns by
  themselves. `CheckAssumption` says of the cases that sizes and rates are numbers,
  that a render asks for at least one frame per second, and that a GIF's rates are
  100 over a whole number, which is how the format keeps delays
  (`scheduler/artifacts.rs:446`).

`JobFeedProofs`:

- `RingStaysContiguous` - the ring's frames are numbered without a gap up to the
  last number given out, for every capacity: what lets `Lags` and `Honours` look at
  the oldest frame only.
- `TheStoryIsInOrder` (`EventsAreInOrder` for any jobs) joins two:
  under `FewJobs` (no more jobs than the feed remembers endings of,
  4096 in the code) `RanksAreInOrder` - of two events of one job in the ring the
  later has the higher rank - and `ProgressIsInOrder` - progress stands only
  between a job's start and its end. Neither is inductive: the invariant adds that
  what the feed remembers of a job is no less than what any event in the ring says,
  that no ending is forgotten (this is where `FewJobs` and a count of the
  remembered sequence are used), and that a report waits only for a job that was
  last published as running. A restart of the server, which empties both, is a
  step of `EventStream` and is model-checked there.
- What the feed owes its clients (`EngineTells`, `FeedTells`), used below.

`StreamProofs`, with restarts, lost streams, resyncs and failed requests:

- `TheWorkbenchComesBack` - `Spec => []NeverAbandoned`. It is part of the type
  invariant `TypedInv`, whose `PhaseInv` says which loads belong to a stream and
  which to its opening, and that only a server that runs has an open stream.
- `EventsAreAppliedInOrder` - `Spec => AppliedInOrder`, an action property, and
  `NothingIsDropped` - `Spec => []NothingIsSkipped`. `OrderInv`: what is on the wire goes on from what was received,
  number by number except for a resync, up to where the server reads next
  (`WireInv`); what waits during a resync goes on from the snapshot up to what was
  received (`BufferInv`); outside a resync all that was received is applied
  (`GateInv`). Applying what waited is a fold over the buffer; `ReplayUnfolds` gives
  its steps, and that it skips nothing is shown by the least index at which it
  would.
- `TheWorkbenchCatchesUp` - `PollFirst => (Spec => []NothingIsLost)`: with the
  above, that a workbench to which nothing is on its way (`Quiet`) shows every job
  as the store has it, for any jobs, capacities, restarts and failures. `Quiet`
  says nothing of how it got there, so the invariant follows each news from the
  store to the view. On the server (`TellInv`, in `JobFeedProofs`): nothing sent,
  read or published is ahead of the store, and the feed watches each
  unfinished job of another engine. A job whose newest rank was not published is
  `Owed`: its event is due or in the channel, the feed has read its record or will,
  or the channel has lagged and every client will be told to reload; `EngineTells` and
  `FeedTells` show that a step makes or keeps such a debt, or pays it with an
  event in the ring. At the workbench (`LearnInv`): if it follows this server process,
  from a snapshot it has or is about to apply, then for each job it has the newest
  rank, or the feed owes it, or a frame or a resync that tells is on the wire, in the
  buffer or in the ring ahead of the stream, or the ring has gone past the stream,
  which will be told. The steps need that nothing shown is ahead of the store
  (`ShownInv`), where each frame on the wire comes from (`SourceInv`: a stream
  that drops asks for it again), that the gate has caught up with what was
  received (`AppliedInv`), and that who is answered finds the feed at work
  (`ReadyInv`). Only the last needs `PollFirst`, and without it the property is
  false: see Observations.

`ImplementsLifecycle` goes through `Lifecycle == INSTANCE JobLifecycle` in
`Scheduler`, the same instance the run `scheduler_engines` checks as
`RefinesLifecycle`.

**Sums and folds.** The sizes of a log, the total of artifacts, the records kept
without the marker are folds of the library over sequences of any length, and
what a fold computes is an induction. The library's induction theorems take an
operator as a parameter, which no prover here can instantiate; `Induction` does
without: a set of numbers that holds 0 and the successor of each member is `Nat`
(`Inductively`), since otherwise there is a least counterexample (`Least`, from the
well-foundedness of `<`). With a fixed sequence the claims about its prefixes are
such a set. `FoldExists` shows that the function a fold chooses exists, and
`FoldIs` turns a fold into its values after each element.

**Not run properties.** `NoJobIsForgotten`, `QuietViewsAreCurrent`,
`QuietLogIsStored` and `QuietIndexIsCurrent` were evaluated by TLC before they were
proved, on the instances of `scheduler_engines` and `scheduler_cancel`, `fronts` and
`log_index`. They are no properties of the runs, whose liveness properties say
more on these instances.

Only model-checked is liveness: that a fair step is taken in the end. ENABLED and
fairness are outside what TLAPS proves here, so `EveryJobEnds`,
`CancelTakesEffect`, `EveryEndingTold`, `ReportsAreStored`, `IndexCatchesUp` and
`EveryChangeIsShown` are proved in their safety part only, and the temporal
properties of `Bridge`, `CommandLine` and `AgentServer` not at all.

## Where the code and its documents disagree

**A stale render looks current** (`media_unindexed`). When a render is answered
from the cache, `plan` takes the row's scene file from the cached result
(`scheduler/mod.rs:505`) but its revision from the association it resolved
before (`scheduler/mod.rs:514`), which is empty while no discovery is cached. A row
without a revision is never marked as outdated (`workspace/latest.rs:80`), so
after an edit the old video stands as current; `docs/reference.md:39` says latest
renders are "marked outdated once the scene file changes".

**A job nobody has** (`scheduler_dropped`). `submit_job` awaits `Scheduler::submit`
in the handler (`server/routes.rs:89`), and the server drops a handler's future when
its client disconnects. Dropped while it waits for the insert
(`scheduler/mod.rs:283`), which a blocking thread commits all the same, it
leaves a row that is queued, has no entry in the active map and is in no dispatch
queue. It never runs, and `cancel_local` finds nothing to cancel
(`scheduler/mod.rs:584`), though the comment on `cancel` says "This engine's own
jobs end at once (queued)" (`scheduler/mod.rs:311`). It ends as `engine_lost` when its
engine is gone. `CancelTakesEffect`, `EveryJobEnds` and `NoJobIsForgotten` leave
such rows out by name (`"dropped"`); that they hold nothing others wait for is
checked and proved.

## Observations

Smaller things met while modelling; those with a constant or a definition in
brackets can be reproduced with TLC.

*Scheduler, leases, cache, pruning*

- An engine that starts right after a sleep reaps its neighbours, since
  `Scheduler::start` (`mod.rs:174`) does not hold the reaper back as a running
  engine does; so does a machine that falls asleep between a tick's decision to
  reap and the reap, or twice between the ticks of one engine
  (`LeasesTellWhoLives` with `Quiet = FALSE`).
- The row may name the second of two reasons for a cancellation, that of the
  faster of two `cancel_queued` transactions (the comment on `Active::cancel`;
  `FirstReasonWins` with `MayCancel = {j1}` and `MayStop = {e1}`).
- Another engine reaps the jobs of an engine that was stopped past its lease and
  takes its scene lock, while its runtime process goes on (`docs/guide.md:221`;
  `RuntimesOneAtATime` with `MayFreeze = {e1}`). Rows and artifacts stay right.
- A row whose submission was dropped was never announced, as the feed polls only for
  the jobs of other engines; nor is an answer from the cache whose request was dropped
  (`mod.rs:262`). An identical submission joins the row and waits with it
  (`mod.rs:526`).
- An edit that is undone between two fingerprints goes unseen (`MayRevert = TRUE`
  of `ResultCache`); in the discovery cache a project that goes from a to b and
  back to a is taken for b by whoever asks for the newest entry
  (`db/cache.rs:61`; `NewestIsIndexed` of `SceneIndex`).
- After an upgrade of the interpreter's packages hits come from the old runtime
  until a worker started (`runtime.rs:50`).
- `cache_discover` takes the runtime that is known after the scan
  (`direct.rs:166`), which need not be "the identity of the worker that just ran it"
  (`direct.rs:156`): a job's worker may have reported another meanwhile (`told` in an
  entry). And a file that goes from a to b and back to a between the two hashes
  (`direct.rs:129`, `direct.rs:169`) may be cached as b under a (`undone`).
- A prune reads the links in one transaction and deletes rows in a later one
  (`prune.rs:64`, `prune.rs:100`); a submission in between may answer from, or read, a
  job that goes, against the comment on `prune_jobs` (`prune.rs:55`) and
  `docs/reference.md:71` (`raced`; `LinksAreKept` of all `Rows`). An engine that dies between
  the deletion and the sweep leaves directories nothing lists (`prune.rs:101`).
- A worker is spawned under the hash of `manim.cfg` as it was before
  (`prewarm.rs:23`, `runtime.rs:40`): one that imported an edit which was undone since
  is handed to the jobs of the text that is back (`WorkersAreCurrent` allows it).
- `manim.cfg` is read by a worker at its start, before the start fingerprint: an
  edit in between caches a render of the old configuration under the new
  (`execute.rs:193`). A worker that died idle is replaced only if `converse` sees
  the failed write before the end of stdout (`worker.rs:345`).
- Two exports to one output overwrite each other (`MayReuse = TRUE`); a frame of a
  still-running job's file inherits the association of its submission
  (`MayPeek = TRUE`); a stale index and a cached answer mark a current video as
  outdated.

*Logs, index, workspace*

- A flush that fails loses its batch without a marker. `fit_events` may answer an
  empty page with an unchanged cursor. The log dialog drops a remembered refetch
  when a page request fails. `print_progress` of the CLI stops at its first lag.
- `file_changed` compares revisions only, so a change that is undone between two
  polls of the watcher is no change; but a scan of the index in between may have
  read the text that is gone, and the index then shows it until the next change
  (`IndexIsCurrent` of the files of `MayRevert`). The watcher's first scan announces
  nothing and runs beside the first refresh (`watch.rs:82`): a change after the
  refresh read the file and before that scan is never announced.
- Derivations of several tasks overtake each other: an older one may be published
  later, and stays until the next change, as an event replaces the whole section
  (`state.rs:68`). TLC finds `spec`, `profiles`, `themes`, `project`, `latest` and
  `findings` stale for good, and after a source write of `director.yaml` also
  `scenes` and `storyboard` (`NothingOvertakes` or `OvertakenBySaves` of all sections).
  `publish_dirty` takes what is owed before it derives, so a failed derivation is
  not retried (`feed.rs:235`, `state.rs:72`). Starting a render does not republish
  findings (`findings.rs:85`). A valid `director.yaml` that is replaced by an
  invalid one before anybody loads it is never seen.

*Events*

- Progress is sent before it is stored (`recorder.rs:108`), so a snapshot may be
  older than events up to its cursor (`PublishedIsStored`). The workbench shows
  the older progress until the next report.
- A job of another engine that ends between the feed's first look at the store
  and its first poll, while a workbench loads its snapshot, is never announced
  (`docs/reference.md:205`; `NothingIsLost` with `PollFirst = FALSE`).
- An ending that was forgotten may be published again (`EventsAreInOrder` with
  `Remembered = 1` and two jobs). In the code that takes 4096 endings between two
  polls.

*Files and editor*

- `serve` takes its headers from the metadata and opens the file afterwards
  (`files.rs:134`), so a file replaced in between is sent under the older
  version (`PlayersGetWhatTheyAskFor` with `MayReplace = TRUE`).
- `replace_lines` drops an empty last line of a file without final newline, and a
  stray CR at the end of a CRLF file (`TextEdit` states what it keeps).
- A GIF at 1 fps may have a delay of 101, which is within the tolerance (a rate may
  be off by a hundredth of a frame per second, so `AcceptedIsAsAsked` allows as much); the rates
  of broadcasting (30000/1001) pass for whole ones.
- In the editor a late answer of a re-check or a load may clear or replace newer
  information until the next event; an overwrite of a clean buffer whose write
  fails shows other text than the disk's; a reload that drops edits also drops
  what was typed while it loaded; two threads may publish `file_changed` out of
  order, which the next save's conflict puts right.

*Commands and the MCP server*

- Ctrl-C before a command first polls its signal ends the process without a
  shutdown of its engine; during `cancel()` and `shutdown()` nobody hears it; a
  second one while the job settles is `process::exit(130)`, again without
  shutdown. One that races the end reports 130 for a job that succeeded. A full
  queue exits with 2.
- A signal to the MCP server drops the answers in flight.

## Not modelled, and the plan

`PROJECT.json` lists every component, with what is left out of those that are
partly modelled. Left, in the order planned:

1. Proofs: the refinements between an engine's parts that `Scheduler` takes as given
   (its leases, its bridge).
2. Request parameters: the checks of `core/params.rs`, profile layering, the bound
   on the length of MCP answers. Sequential, and covered by unit tests; to be
   written as functions against a reference definition.
3. The Python tasks' staging and the lock of their media cache.
4. Trimming of stills and contact sheets per profile in `ResultCache`, and
   timelines of `workspace/`.

Left out for good: drawing and media encoding in the Python runtime and the
workbench's rendering (not state but pictures), the wording of messages, the SQL
schema and its migrations, install and release scripts, which are sequential.

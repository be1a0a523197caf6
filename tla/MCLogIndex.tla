-------------------------- MODULE MCLogIndex --------------------------
(* Instances for TLC of the job log and of the project's index.  They share *)
(* no state: a behaviour runs one of them, its `focus`, and leaves the      *)
(* other at rest, where nothing fair of its own is enabled.                 *)
EXTENDS JobLog, SceneIndex

CONSTANTS f1, f2, a, b, c, ix, i2

VARIABLE focus

\* One follower of the log at a time: the workbench's dialog or an agent.
LogStarts == LogInit /\ (dialog = Shut \/ agent.phase = "none")
LogRests ==
  /\ runs = "over" /\ row = "running"
  /\ sent = <<>> /\ progressed = 0 /\ chan = <<>>
  /\ writer = [logs |-> <<>>, progress |-> 0, due |-> FALSE, recent |-> FALSE, batch |-> NoBatch,
               lost |-> FALSE, done |-> TRUE]
  /\ log = <<>> /\ usage = [records |-> 0, bytes |-> 0, truncated |-> FALSE] /\ saved = 0
  /\ faults = 0 /\ dialog = Shut
  /\ agent = [read |-> <<>>, cursor |-> 0, phase |-> "none", ended |-> FALSE, done |-> FALSE]

\* Of all files only those of `still` do not change.
IndexAt(asked, still, changes, turns, runtimeKnown) ==
  /\ disk = [f \in Files |-> a]
  /\ held = [f \in Files |-> IF f \in still THEN States ELSE {a}] /\ edits = [f \in Files |-> 0]
  /\ stamped = Files /\ revisions = disk /\ changed = FALSE /\ late = {}
  /\ wanted = asked /\ permit = asked
  /\ scan = [i \in Callers |-> Idle]
  /\ index = [refreshing |-> FALSE, indexed |-> ~asked, error |-> FALSE,
              scenes |-> [f \in Files |-> IF asked THEN Nothing ELSE [of |-> a, failed |-> FALSE]],
              lastGood |-> [f \in Files |-> IF asked THEN None ELSE a]]
  /\ cache = <<>>
  /\ runtime = [installed |-> 1, known |-> runtimeKnown, learnt |-> 0]
  /\ bounds = [changes |-> changes, turns |-> turns]

\* Two files that change, or one that changes while a scan fails, the runtime
\* is upgraded or `inspect` is called.
IndexStarts ==
  \E v \in {None, 1} :
    IndexAt(TRUE, {}, MaxChanges, 0, v) \/ IndexAt(TRUE, {f2}, 1, MaxTurns, v)
IndexRests == IndexAt(FALSE, Files, 0, 0, 1)

LogIndexInit ==
  /\ focus \in {"log", "index"}
  /\ IF focus = "log" THEN LogStarts ELSE LogRests
  /\ IF focus = "index" THEN IndexStarts ELSE IndexRests

LogIndexNext ==
  \/ focus = "log" /\ LogNext /\ UNCHANGED <<focus, indexVars>>
  \/ focus = "index" /\ IndexNext /\ UNCHANGED <<focus, logVars>>

LogIndexSpec ==
  /\ LogIndexInit
  /\ [][LogIndexNext]_<<focus, logVars, indexVars>>
  /\ LogFairness /\ IndexFairness
=============================================================================

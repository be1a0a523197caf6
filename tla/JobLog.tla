------------------------------- MODULE JobLog -------------------------------
(***************************************************************************)
(* From what a worker reports to what a follower of the job has read: the  *)
(* recorder batches log records and progress into the store (recorder.rs), *)
(* the store keeps each log within its quota (db/logs.rs), and a job's log *)
(* is paged by the workbench's log dialog (LogsDialog.tsx) and by an agent *)
(* that calls job_status (mcp/tools.rs).                                   *)
(***************************************************************************)
EXTENDS Integers, Sequences, SequencesExt, FiniteSetsExt

CONSTANTS
  Sizes,           \* of a record, in bytes
  FlushRecords,    \* FLUSH_RECORDS
  MaxRecords,      \* MAX_RECORDS_PER_JOB
  MaxBytes,        \* MAX_BYTES_PER_JOB
  PageSize,        \* of the dialog
  AgentLimit,      \* `limit` of job_status
  Budget,          \* bytes of events one answer of job_status has room for
  MaxReports,      \* bound: records and progress a worker reports
  MaxFaults        \* bound: writes and page requests that fail, and dialogs opened again

ASSUME LogAssumption ==
  /\ Sizes \subseteq Nat \ {0}
  /\ {FlushRecords, MaxRecords, MaxBytes, PageSize, AgentLimit} \subseteq Nat \ {0}
  /\ Budget \in Nat /\ \A size \in Sizes : size <= Budget
  /\ {MaxReports, MaxFaults} \subseteq Nat

VARIABLES
  runs,            \* the engine's run of the job: on, closing (its recorder), over, or dead with it
  row,             \* the stored job: running, ended by its engine, or reaped by another one
  sent,            \* the records reported, in order
  progressed,      \* the newest progress reported
  chan,            \* the recorder's channel
  writer,          \* write_batches
  log, usage,      \* the job's rows of `logs` and its row of `log_usage`
  saved,           \* the row's progress; 0 for null
  faults,          \* what may still fail
  dialog,          \* the workbench's log dialog
  agent            \* an agent that follows the job

recorderVars == <<runs, row, sent, progressed, chan, writer>>
storeVars == <<log, usage, saved>>
logVars == <<recorderVars, storeVars, faults, dialog, agent>>

Marker == [n |-> 0, size |-> 0]              \* 'Log truncated.'
Records == [n : 1..MaxReports, size : Sizes]

\* What a flush in progress still has to write; its stage is "idle" between two.
Batch(stage, logs, progress) == [stage |-> stage, logs |-> logs, progress |-> progress]
NoBatch == Batch("idle", <<>>, 0)

NoPage == [items |-> <<>>, full |-> FALSE]
Shut == [shown |-> <<>>, cursor |-> 0, phase |-> "shut", page |-> NoPage,
         refetch |-> FALSE, more |-> FALSE, active |-> TRUE, toast |-> FALSE]
Fresh == [Shut EXCEPT !.phase = "asked"]           \* the first effect of LogsBody

LogInit ==
  /\ runs = "on" /\ row = "running"
  /\ sent = <<>> /\ progressed = 0 /\ chan = <<>>
  /\ writer = [logs |-> <<>>, progress |-> 0, due |-> FALSE, recent |-> FALSE, batch |-> NoBatch,
               lost |-> FALSE, done |-> FALSE]
  /\ log = <<>> /\ usage = [records |-> 0, bytes |-> 0, truncated |-> FALSE] /\ saved = 0
  /\ faults = MaxFaults
  /\ dialog \in {Shut, Fresh}
  /\ agent \in [read : {<<>>}, cursor : {0}, phase : {"none", "idle"}, ended : {FALSE}, done : {FALSE}]

Fault == faults > 0 /\ faults' = faults - 1

-----------------------------------------------------------------------------
(* The recorder *)

\* Recorder::log, one piece of a message.
Report(size) ==
  /\ runs = "on" /\ Len(sent) + progressed < MaxReports
  /\ LET record == [n |-> Len(sent) + 1, size |-> size]
     IN sent' = Append(sent, record) /\ chan' = Append(chan, [log |-> TRUE, record |-> record])
  /\ UNCHANGED <<runs, row, progressed, writer, storeVars, faults, dialog, agent>>

\* Recorder::progress: the event goes out at once, and then to the writer.
ReportProgress ==
  /\ runs = "on" /\ Len(sent) + progressed < MaxReports
  /\ progressed' = progressed + 1
  /\ chan' = Append(chan, [log |-> FALSE, progress |-> progressed + 1])
  /\ UNCHANGED <<runs, row, sent, writer, storeVars, faults, dialog, agent>>

\* Mutant: what is left over after a flush has no time set for it.
DueOnlyOnce(w) == FALSE

\* After a flush took what it may, only progress may be left to save.
StillDue(w) == w.progress # 0

\* A flush takes the records, and the progress unless one was saved a moment ago.
Flushed(w) ==
  LET saves == w.progress # 0 /\ ~w.recent
      left == [w EXCEPT !.logs = <<>>, !.progress = IF saves THEN 0 ELSE @, !.recent = @ \/ saves]
  IN [left EXCEPT !.due = StillDue(left),
                  !.batch = IF w.logs = <<>> /\ ~saves THEN NoBatch
                            ELSE Batch("logs", w.logs, IF saves THEN w.progress ELSE 0)]

Writing == runs # "dead" /\ ~writer.done /\ writer.batch.stage = "idle"

\* write_batches receives: records are flushed by the batch, progress waits for its time.
Take ==
  /\ Writing /\ chan # <<>>
  /\ chan' = Tail(chan)
  /\ LET write == Head(chan) IN
     writer' = IF write.log
               THEN LET w == [writer EXCEPT !.logs = Append(@, write.record), !.due = TRUE]
                    IN IF Len(w.logs) >= FlushRecords THEN Flushed(w) ELSE w
               ELSE [writer EXCEPT !.progress = write.progress, !.due = TRUE]
  /\ UNCHANGED <<runs, row, sent, progressed, storeVars, faults, dialog, agent>>

Due ==
  /\ Writing /\ writer.due
  /\ writer' = Flushed(writer)
  /\ UNCHANGED <<runs, row, sent, progressed, chan, storeVars, faults, dialog, agent>>

\* PROGRESS_INTERVAL has passed since progress was last saved.
IntervalPasses ==
  /\ runs # "dead" /\ writer.recent
  /\ writer' = [writer EXCEPT !.recent = FALSE]
  /\ UNCHANGED <<runs, row, sent, progressed, chan, storeVars, faults, dialog, agent>>

\* append_logs, record by record: the first one past the quota becomes the marker.
Appended(s, record) ==
  IF s.usage.truncated THEN s
  ELSE IF s.usage.records >= MaxRecords \/ s.usage.bytes + record.size > MaxBytes
  THEN [log   |-> Append(s.log, Marker),
        usage |-> [s.usage EXCEPT !.records = @ + 1, !.truncated = TRUE]]
  ELSE [log   |-> Append(s.log, record),
        usage |-> [s.usage EXCEPT !.records = @ + 1, !.bytes = @ + record.size]]

\* flush, its first transaction.
AppendLogs ==
  /\ runs # "dead" /\ writer.batch.stage = "logs"
  /\ LET s == FoldLeft(Appended, [log |-> log, usage |-> usage], writer.batch.logs)
     IN log' = s.log /\ usage' = s.usage
  /\ writer' = [writer EXCEPT !.batch = IF @.progress = 0 THEN NoBatch
                                         ELSE Batch("progress", <<>>, @.progress)]
  /\ UNCHANGED <<runs, row, sent, progressed, chan, saved, faults, dialog, agent>>

\* And its second: the row of an ended job keeps its null.
SetProgress ==
  /\ runs # "dead" /\ writer.batch.stage = "progress"
  /\ saved' = IF row = "running" THEN writer.batch.progress ELSE saved
  /\ writer' = [writer EXCEPT !.batch = NoBatch]
  /\ UNCHANGED <<runs, row, sent, progressed, chan, log, usage, faults, dialog, agent>>

\* A batch that cannot be stored is dropped, with a warning of the engine's own.
FlushFails ==
  /\ runs # "dead" /\ writer.batch.stage # "idle" /\ Fault
  /\ writer' = [writer EXCEPT !.batch = NoBatch, !.lost = TRUE]
  /\ UNCHANGED <<runs, row, sent, progressed, chan, storeVars, dialog, agent>>

\* The run is over and drops its end of the channel (Recorder::close).
Close ==
  /\ runs = "on"
  /\ runs' = "closing"
  /\ UNCHANGED <<row, sent, progressed, chan, writer, storeVars, faults, dialog, agent>>

\* write_batches finds the channel closed and empty: a last flush, without progress.
LastFlush ==
  /\ Writing /\ runs = "closing" /\ chan = <<>>
  /\ writer' = [writer EXCEPT !.done = TRUE, !.logs = <<>>, !.progress = 0, !.due = FALSE,
                              !.batch = IF writer.logs = <<>> THEN NoBatch
                                        ELSE Batch("logs", writer.logs, 0)]
  /\ UNCHANGED <<runs, row, sent, progressed, chan, storeVars, faults, dialog, agent>>

\* Mutant: the row ends while the recorder still closes.
NotAwaited == TRUE

\* close waits for the writer.
WriterStopped == writer.done /\ writer.batch = NoBatch

\* finish, after close: the terminal transition, unless the row was reaped.
Finish ==
  /\ runs = "closing" /\ WriterStopped
  /\ runs' = "over"
  /\ row' = IF row = "running" THEN "ended" ELSE row
  /\ saved' = 0
  /\ UNCHANGED <<sent, progressed, chan, writer, log, usage, faults, dialog, agent>>

\* The engine dies with what its recorder held.
Crash ==
  /\ runs \in {"on", "closing"} /\ Fault
  /\ runs' = "dead" /\ chan' = <<>>
  /\ writer' = [writer EXCEPT !.logs = <<>>, !.progress = 0, !.due = FALSE, !.batch = NoBatch]
  /\ UNCHANGED <<row, sent, progressed, storeVars, dialog, agent>>

\* Another engine fails the job of one that is dead, or only slow; a slow one goes on.
Reap ==
  /\ row = "running"
  /\ (runs = "dead" /\ UNCHANGED faults) \/ (runs # "dead" /\ Fault)
  /\ row' = "reaped" /\ saved' = 0
  /\ UNCHANGED <<runs, sent, progressed, chan, writer, log, usage, dialog, agent>>

-----------------------------------------------------------------------------
(* Store::logs *)

\* A page is full when it holds as many records as were asked for; only then a cursor follows.
Page(after, limit) ==
  LET items == SubSeq(log, after + 1, Min({after + limit, Len(log)}))
  IN [items |-> items, full |-> Len(items) = limit]

-----------------------------------------------------------------------------
(* LogsDialog.tsx *)

\* fetchPage while a page is on its way.
Remember(d) == [d EXCEPT !.refetch = TRUE]

\* fetchPage
Fetch(d) == IF d.phase \in {"asked", "served"} THEN Remember(d)
            ELSE [d EXCEPT !.phase = "asked", !.refetch = FALSE]

\* The interval while the job is active, or the button.
FetchMore ==
  /\ dialog.phase # "shut" /\ (dialog.active \/ dialog.more)
  /\ dialog' = Fetch(dialog)
  /\ UNCHANGED <<recorderVars, storeVars, faults, agent>>

\* The browser hears that the job ended, and the effect runs again.
HearsEnd ==
  /\ row # "running" /\ dialog.phase # "shut" /\ dialog.active
  /\ dialog' = [Fetch(dialog) EXCEPT !.active = FALSE]
  /\ UNCHANGED <<recorderVars, storeVars, faults, agent>>

\* GET /api/jobs/{id}/logs
ServePage ==
  /\ dialog.phase = "asked"
  /\ dialog' = [dialog EXCEPT !.phase = "served", !.page = Page(dialog.cursor, PageSize)]
  /\ UNCHANGED <<recorderVars, storeVars, faults, agent>>

\* The answer is shown, and another page is asked for if one was wanted meanwhile.
ShowPage ==
  /\ dialog.phase = "served"
  /\ dialog' = [dialog EXCEPT !.shown = @ \o dialog.page.items,
                              !.cursor = @ + Len(dialog.page.items),
                              !.more = dialog.page.full, !.page = NoPage, !.toast = FALSE,
                              !.phase = IF dialog.refetch THEN "asked" ELSE "idle",
                              !.refetch = FALSE]
  /\ UNCHANGED <<recorderVars, storeVars, faults, agent>>

\* A request that fails is told to the user, and what was wanted meanwhile is not asked for.
PageFails ==
  /\ dialog.phase \in {"asked", "served"} /\ Fault
  /\ dialog' = [dialog EXCEPT !.phase = "idle", !.page = NoPage, !.toast = TRUE]
  /\ UNCHANGED <<recorderVars, storeVars, agent>>

\* The dialog is closed, or the page suspended, and it is opened again: it starts over.
Reopen ==
  /\ dialog \notin {Shut, Fresh} /\ Fault
  /\ \E active \in BOOLEAN :        \* what the browser has heard by now
       /\ row = "running" => active
       /\ dialog' = [Fresh EXCEPT !.active = active]
  /\ UNCHANGED <<recorderVars, storeVars, agent>>

-----------------------------------------------------------------------------
(* job_status, mcp/tools.rs *)

Bytes(records) == FoldLeft(LAMBDA sum, record : sum + record.size, 0, records)

\* As many records as fit the answer; the cursor continues after the last one of them.
Fits(items) ==
  SubSeq(items, 1, Max({k \in 0..Len(items) : Bytes(SubSeq(items, 1, k)) <= Budget}))

AskStatus ==
  /\ agent.phase = "idle" /\ ~agent.done
  /\ agent' = [agent EXCEPT !.phase = "row"]
  /\ UNCHANGED <<recorderVars, storeVars, faults, dialog>>

ReadRow ==
  /\ agent.phase = "row"
  /\ agent' = [agent EXCEPT !.phase = "log", !.ended = (row # "running")]
  /\ UNCHANGED <<recorderVars, storeVars, faults, dialog>>

\* The answer.  An agent calls again until a job that has ended answers with nothing more.
ReadLog ==
  /\ agent.phase = "log"
  /\ LET events == Fits(Page(agent.cursor, AgentLimit).items)
     IN agent' = [agent EXCEPT !.phase = "idle", !.read = @ \o events,
                               !.cursor = @ + Len(events),
                               !.done = agent.ended /\ events = <<>>]
  /\ UNCHANGED <<recorderVars, storeVars, faults, dialog>>

-----------------------------------------------------------------------------
RecorderStep ==
  \/ \E size \in Sizes : Report(size)
  \/ ReportProgress \/ Take \/ Due \/ IntervalPasses \/ AppendLogs \/ SetProgress \/ FlushFails
  \/ Close \/ LastFlush \/ Finish \/ Crash \/ Reap

FollowerStep ==
  \/ FetchMore \/ HearsEnd \/ ServePage \/ ShowPage \/ PageFails \/ Reopen
  \/ AskStatus \/ ReadRow \/ ReadLog

LogNext == RecorderStep \/ FollowerStep

\* The writer's task runs, its timers fire and its writes come back.
LogFairness ==
  /\ WF_logVars(Take \/ Due \/ LastFlush \/ AppendLogs \/ SetProgress)
  /\ WF_logVars(IntervalPasses)

LogSpec == LogInit /\ [][LogNext]_logVars /\ LogFairness

-----------------------------------------------------------------------------
LogTypeOK ==
  /\ runs \in {"on", "closing", "over", "dead"} /\ row \in {"running", "ended", "reaped"}
  /\ sent \in Seq(Records) /\ log \in Seq(Records \cup {Marker})
  /\ progressed \in 0..MaxReports /\ saved \in 0..progressed
  /\ usage \in [records : Nat, bytes : Nat, truncated : BOOLEAN]
  /\ dialog.phase \in {"shut", "idle", "asked", "served"} /\ agent.phase \in {"none", "idle", "row", "log"}

\* The stored records, without the marker.
Kept == FoldLeft(LAMBDA kept, record : IF record = Marker THEN kept ELSE Append(kept, record), <<>>, log)

(* A stored log tells where it stops being whole.  Unless a batch could not be
   stored, it is the first records the worker sent, in order, and no more than
   the quota; once the engine that ran the job has ended it, whatever is not
   there was cut by the quota, and the marker, once and last, says so
   (recorder.rs, close; db/logs.rs, append_logs). *)
LogTellsItsGaps ==
  /\ \A i \in DOMAIN log : log[i] = Marker => i = Len(log) /\ Len(Kept) < Len(sent)
  /\ Len(Kept) <= MaxRecords /\ Bytes(Kept) <= MaxBytes
  /\ ~writer.lost => IsPrefix(Kept, sent)
  /\ row = "ended" /\ ~writer.lost => Kept = sent \/ \E i \in DOMAIN log : log[i] = Marker

(* A follower that stopped because there is nothing more has read the whole log
   of a job its engine ended: the dialog once it knows of the end, asks for
   nothing, offers no further lines and shows no error, and an agent once an
   ended job had nothing to add (LogsDialog.tsx; mcp/tools.rs, job_status and
   fit_events; db/logs.rs, logs). *)
FollowersMissNothing ==
  row = "ended" =>
    /\ (dialog.phase = "idle" /\ ~dialog.active /\ ~dialog.more /\ ~dialog.toast)
         => dialog.shown = log
    /\ agent.done => agent.read = log

(* Whoever has read a log to its end has it all, or reads that it is cut (db/logs.rs,
   append_logs and logs; LogsDialog.tsx; mcp/tools.rs, fit_events). *)
LogsAreWhole == LogTellsItsGaps /\ FollowersMissNothing

\* The records are stored, unless the quota cut them, and the newest progress
\* for as long as the job runs; nothing is promised once a write failed.
AllIsStored ==
  \/ writer.lost \/ runs = "dead"
  \/ /\ Kept = sent \/ usage.truncated
     /\ saved = progressed \/ runs # "on" \/ row # "running"

(* While the engine lives and its writes succeed, whatever a worker reports is
   stored after a while though nothing more is reported (recorder.rs,
   write_batches). *)
ReportsAreStored == <>[]AllIsStored

(* The writer never stops short: with nothing sent to it, no time set and no
   batch in hand, all is stored (recorder.rs, write_batches and flush). *)
QuietLogIsStored == chan = <<>> /\ ~writer.due /\ writer.batch = NoBatch => AllIsStored
=============================================================================

----------------------------- MODULE EventStream -----------------------------
(***************************************************************************)
(* One workbench that follows a server's jobs: a snapshot, then the event  *)
(* stream, with resyncs, reconnects, restarts of the server and answers of *)
(* its own requests in between.                                            *)
(***************************************************************************)
EXTENDS JobFeed

CONSTANTS
  StreamBuffer,    \* STREAM_BUFFER
  MaxRestarts,     \* of the server
  MaxTurns         \* failed requests and streams, reloads and answers in between

ASSUME StreamAssumption ==
  StreamBuffer \in Nat /\ MaxRestarts \in Nat /\ MaxTurns \in Nat

VARIABLES
  wire, next,      \* the open stream: frames read from the ring but not received, and pump's next
  es,              \* the EventSource: none, connecting, open, or closed by an HTTP error
  lastId,          \* the id it reconnects with
  gate,            \* EventGate: its instance and the newest sequence number applied
  buffer,          \* EventFeed.buffer: events that wait for the snapshot of a resync
  load,            \* GET /api/state in flight, or NoLoad
  view,            \* the jobs shown
  retry,           \* the reconnect timer is set
  probe,           \* GET /api/health in flight after the stream dropped
  cookie,          \* the instance whose session this browser has
  reply,           \* the job view that answers a request of the user's, or NoReply
  turns            \* what may still come in between

streamVars == <<wire, next>>
clientVars == <<es, lastId, gate, buffer, load, view, retry, probe, cookie, reply>>
vars == <<feedVars, streamVars, clientVars, turns>>

NoLoad == [phase |-> "none", kind |-> "none"]
NoReply == [job |-> "none"]

\* Without an EventSource there is no id to reconnect with.
NoId == <<0, 0>>

\* EventFeed.buffer is not null: the feed loads a snapshot.
Buffering == load.kind = "resync"

Ids == Nat \X Nat
Views == [Jobs -> [rank : Ranks, prog : 0..MaxProgress]]
Frames == [id : Ids, event : JobEvents \cup ProgressEvents \cup {OtherEvent, Resync}]

TypeOK ==
  /\ HubTypeOK /\ FeedTypeOK
  /\ Range(wire) \subseteq Frames /\ next \in Nat
  /\ es \in {"none", "connecting", "open", "closed"}
  /\ lastId \in Ids /\ gate \in Ids
  /\ Range(buffer) \subseteq Frames
  /\ load.phase \in {"none", "sent", "cursor", "built"}
  /\ view \in Views
  /\ retry \in BOOLEAN /\ probe \in BOOLEAN
  /\ cookie \in Nat
  /\ turns \in 0..MaxTurns
  /\ es = "none" => ~Buffering
  /\ ~Buffering => buffer = <<>>

Init ==
  /\ FeedInit
  /\ wire = <<>> /\ next = 1
  /\ es = "none" /\ lastId = NoId /\ gate = <<1, 0>>
  /\ buffer = <<>> /\ load = NoLoad
  /\ view = [j \in Jobs |-> NoJob]
  /\ retry = TRUE                       \* the page calls connect
  /\ probe = FALSE /\ cookie = 1 /\ reply = NoReply
  /\ turns = MaxTurns

Turn == turns > 0 /\ turns' = turns - 1

Welcome == up /\ cookie = instance      \* auth.rs, guard_api

\* No stream is open, and with it no pump.
NoStream == wire' = <<>> /\ next' = 1

-----------------------------------------------------------------------------
(* The server process *)

\* It stops: what it had in memory is gone, and its streams and requests end.
Stop ==
  /\ up /\ instance <= MaxRestarts
  /\ up' = FALSE
  /\ due' = {} /\ bus' = <<>> /\ lagged' = FALSE
  /\ live' = [j \in Jobs |-> 0]
  /\ feed' = FreshFeed
  /\ es' = IF es = "open" THEN "connecting" ELSE es
  /\ probe' = (probe \/ es = "open")
  /\ NoStream
  /\ UNCHANGED <<hubVars, job, owner, others, lastId, gate, buffer, load, view, retry,
                 cookie, reply, turns>>

Start ==
  /\ ~up
  /\ up' = TRUE
  /\ HubRestart
  /\ UNCHANGED <<job, owner, live, due, bus, lagged, feed, others,
                 streamVars, clientVars, turns>>

\* The engine's new link is opened in this browser.
SignIn ==
  /\ up /\ cookie # instance
  /\ cookie' = instance
  /\ UNCHANGED <<feedVars, streamVars, es, lastId, gate, buffer, load, view, retry, probe,
                 reply, turns>>

\* pump, the loop: it reads on when what it read before fits the stream's buffer.
Pump ==
  /\ up /\ es = "open" /\ Len(wire) <= StreamBuffer /\ next <= last
  /\ next' = last + 1
  /\ LET frames == IF Lags(next) THEN <<ResyncFrame>> ELSE From(next)
     IN wire' = wire \o [i \in DOMAIN frames |->
                           [id |-> <<instance, frames[i].seq>>, event |-> frames[i].event]]
  /\ UNCHANGED <<feedVars, clientVars, turns>>

-----------------------------------------------------------------------------
(* GET /api/state *)

Serving == feed.phase = "on" \/ ~PollFirst

Loading(kind) == [phase |-> "sent", kind |-> kind]

\* routes.rs, workspace: the cursor is read first.
ReadCursor ==
  /\ load.phase = "sent" /\ Welcome /\ Serving
  /\ load' = [phase |-> "cursor", kind |-> load.kind, cursor |-> Cursor]
  /\ UNCHANGED <<feedVars, streamVars, es, lastId, gate, buffer, view, retry, probe, cookie,
                 reply, turns>>

BuildSnapshot ==
  /\ load.phase = "cursor" /\ up /\ load.cursor[1] = instance
  /\ load' = [phase |-> "built", kind |-> load.kind, cursor |-> load.cursor, jobs |-> job]
  /\ UNCHANGED <<feedVars, streamVars, es, lastId, gate, buffer, view, retry, probe, cookie,
                 reply, turns>>

SnapshotCursor == load.cursor

-----------------------------------------------------------------------------
(* reducer.ts *)

\* withJob: a job never moves backwards; of two running ones the newer progress is kept.
WithJob(v, e) ==
  LET old == v[e.job] IN
  IF e.rank < old.rank THEN v
  ELSE [v EXCEPT ![e.job] =
         [rank |-> e.rank,
          prog |-> IF e.rank = Running /\ old.rank = Running /\ old.prog > e.prog
                   THEN old.prog ELSE e.prog]]

\* applyEvent
Applied(v, e) ==
  IF e.type = "job" THEN WithJob(v, e)
  ELSE IF e.type = "progress" /\ v[e.job].rank = Running THEN [v EXCEPT ![e.job].prog = e.prog]
  ELSE v

-----------------------------------------------------------------------------
(* events.ts *)

\* Mutant: what was applied before is applied again.
AcceptReplays(g, f) ==
  IF f.id[1] # g[1] THEN "resync" ELSE IF f.event.type = "resync" THEN "resync" ELSE "apply"

\* EventGate.accept
Accept(g, f) ==
  IF f.id[1] # g[1] THEN "resync"
  ELSE IF f.id[2] <= g[2] THEN "drop"
  ELSE IF f.event.type = "resync" THEN "resync" ELSE "apply"

\* EventFeed.pass: what the gate and the view become, and whether a snapshot is needed.
Pass(s, f) ==
  LET decision == Accept(s.gate, f) IN
  IF s.again \/ decision = "drop" THEN s
  ELSE [gate  |-> IF f.id[1] = s.gate[1] THEN f.id ELSE s.gate,
        view  |-> IF decision = "apply" THEN Applied(s.view, f.event) ELSE s.view,
        again |-> decision = "resync"]

\* After the frames: a snapshot is loaded, with an empty buffer, or the stream is followed.
Take(s) ==
  /\ gate' = s.gate /\ view' = s.view /\ buffer' = <<>>
  /\ load' = IF s.again THEN Loading("resync") ELSE NoLoad

\* EventFeed.receive
Receive ==
  /\ es = "open" /\ wire # <<>>
  /\ wire' = Tail(wire)
  /\ lastId' = Head(wire).id
  /\ IF Buffering
     THEN buffer' = Append(buffer, Head(wire)) /\ UNCHANGED <<gate, view, load>>
     ELSE Take(Pass([gate |-> gate, view |-> view, again |-> FALSE], Head(wire)))
  /\ UNCHANGED <<feedVars, next, es, retry, probe, cookie, reply, turns>>

\* The buffer is replayed up to the first event that asks for another snapshot.
Replayed(s) == FoldLeft(Pass, s, buffer)

\* EventFeed.resync: the snapshot replaces everything, and what waited is replayed.
Resynced ==
  /\ load.phase = "built" /\ load.kind = "resync"
  /\ Take(Replayed([gate |-> SnapshotCursor, view |-> load.jobs, again |-> FALSE]))
  /\ UNCHANGED <<feedVars, streamVars, es, lastId, retry, probe, cookie, reply, turns>>

\* GET /api/events: a stream opens; what its cursor missed is replayed, or it starts with
\* a resync and live events.
StreamOpens ==
  /\ es = "connecting" /\ Welcome
  /\ es' = "open"
  /\ next' = StartAt(lastId)
  /\ wire' = IF Honours(lastId) THEN <<>>
             ELSE <<[id |-> Cursor, event |-> Resync]>>
  /\ UNCHANGED <<feedVars, lastId, gate, buffer, load, view, retry, probe, cookie, reply,
                 turns>>

-----------------------------------------------------------------------------
(* store.ts *)

\* A request or a stream fails, by itself or because this browser may not ask.
Fails == Turn \/ (~Welcome /\ UNCHANGED turns)

\* WorkbenchStore.stop: no feed, no reconnect pending; late answers are ignored.
NoFeed == es' = "none" /\ lastId' = NoId /\ buffer' = <<>> /\ NoStream /\ probe' = FALSE

\* WorkbenchStore.lost
Lost == NoFeed /\ load' = NoLoad /\ retry' = TRUE

\* WorkbenchStore.connect
StartRound == NoFeed /\ load' = Loading("connect") /\ retry' = FALSE

Connect ==
  /\ retry
  /\ StartRound
  /\ UNCHANGED <<feedVars, gate, view, cookie, reply, turns>>

\* connect, once the snapshot is there: the feed follows from its cursor.
Connected ==
  /\ load.phase = "built" /\ load.kind = "connect"
  /\ view' = load.jobs /\ gate' = SnapshotCursor /\ lastId' = SnapshotCursor
  /\ es' = "connecting" /\ load' = NoLoad
  /\ UNCHANGED <<feedVars, streamVars, buffer, retry, probe, cookie, reply, turns>>

\* A snapshot that fails, on connect or on a resync.  A request ends with its process.
LoadFails ==
  /\ load # NoLoad
  /\ \/ load.phase = "cursor" /\ load.cursor[1] # instance /\ UNCHANGED turns
     \/ Fails
  /\ Lost
  /\ UNCHANGED <<feedVars, gate, view, cookie, reply>>

\* Mutant: a stream the browser gave up on is left alone.
ProbedIdle == FALSE

\* streamDropped, the engine is up: only a stream the browser gave up on starts over.
Probed == es = "closed"

StreamDrops ==
  /\ es = "open" /\ Turn
  /\ es' = "connecting" /\ NoStream /\ probe' = TRUE
  /\ UNCHANGED <<feedVars, lastId, gate, buffer, load, view, retry, cookie, reply>>

\* 401 of another session, 429 too_many_streams, or no server to connect to.
StreamFails ==
  /\ es = "connecting" /\ Fails
  /\ up \/ ~probe
  /\ es' = IF up THEN "closed" ELSE es
  /\ lastId' = IF up THEN NoId ELSE lastId
  /\ probe' = TRUE
  /\ UNCHANGED <<feedVars, streamVars, gate, buffer, load, view, retry, cookie, reply>>

ProbeAnswers ==
  /\ probe /\ Welcome
  /\ retry' = (retry \/ Probed)
  /\ probe' = FALSE
  /\ UNCHANGED <<feedVars, streamVars, es, lastId, gate, buffer, load, view, cookie, reply,
                 turns>>

\* The health check, or a request of the user's, finds no engine or no session (perform).
RequestFails ==
  /\ \/ Turn
     \/ probe /\ ~Welcome /\ UNCHANGED turns
  /\ Lost
  /\ UNCHANGED <<feedVars, gate, view, cookie, reply>>

\* A submission or a cancellation is answered with the job as it is then.
Ask(j) ==
  /\ Turn /\ reply = NoReply /\ Welcome /\ Created(j)
  /\ reply' = JobEvent(j, job[j].rank, job[j].prog)
  /\ UNCHANGED <<feedVars, streamVars, es, lastId, gate, buffer, load, view, retry, probe, cookie>>

\* tracked: the answer is applied when it comes.
Tracked ==
  /\ reply # NoReply
  /\ view' = WithJob(view, reply)
  /\ reply' = NoReply
  /\ UNCHANGED <<feedVars, streamVars, es, lastId, gate, buffer, load, retry, probe, cookie,
                 turns>>

\* refresh: a resync unless one is under way, or a new round without a feed.
Refresh ==
  /\ Turn
  /\ \/ /\ es # "none" /\ ~Buffering
        /\ buffer' = <<>> /\ load' = Loading("resync")
        /\ UNCHANGED <<es, streamVars, lastId, retry, probe>>
     \/ es = "none" /\ StartRound
  /\ UNCHANGED <<feedVars, gate, view, cookie, reply>>

-----------------------------------------------------------------------------
ServerStep ==
  /\ FeedStep \/ EngineStep
  /\ UNCHANGED <<streamVars, clientVars, turns>>

Next ==
  \/ ServerStep \/ Stop \/ Start \/ SignIn \/ Pump
  \/ ReadCursor \/ BuildSnapshot \/ Receive \/ Resynced
  \/ StreamOpens \/ StreamDrops \/ StreamFails \/ ProbeAnswers \/ RequestFails
  \/ Connect \/ Connected \/ LoadFails \/ Tracked \/ Refresh
  \/ \E j \in Jobs : Ask(j)

Spec == Init /\ [][Next]_vars

-----------------------------------------------------------------------------
\* Nothing is on its way to the workbench any more.
Quiet == FeedIsDone /\ es = "open" /\ wire = <<>> /\ next = last + 1 /\ load = NoLoad

(* A workbench to which nothing is on its way shows every job as the store has
   it, whatever was lost, replayed, reordered or restarted before (feed.rs,
   events.rs, events.ts, store.ts). *)
NothingIsMissed == Quiet => \A j \in Jobs : view[j].rank = job[j].rank

\* What the workbench has, or will have once its snapshot is there.
Base == IF ~Buffering \/ load.phase = "sent" THEN gate ELSE load.cursor

\* Up to where the stream was read, or will be read again.
Reached == IF es = "open" THEN <<instance, next - 1>> ELSE lastId

OnTheWay == Range(wire) \cup Range(buffer)

(* No event is dropped without a resync: each event between what the workbench
   has and where its stream is read is on its way, or a resync after it is
   (events.rs, pump and start; events.ts, EventFeed). *)
NothingIsSkipped ==
  (/\ es \in {"open", "connecting"} /\ Base[1] = Reached[1]
   /\ Buffering => load.phase \in {"cursor", "built"})
  => \A seq \in (Base[2] + 1)..Reached[2] :
       \E f \in OnTheWay :
         /\ f.id[1] = Base[1]
         /\ f.id[2] = seq \/ (f.event = Resync /\ f.id[2] >= seq)

(* A snapshot holds every job as the events up to its cursor left it, or later:
   what comes after the cursor is all a client has to apply (routes.rs,
   workspace). *)
SnapshotCoversCursor ==
  load.phase = "built" /\ SnapshotCursor[1] = instance =>
    \A i \in DOMAIN ring :
      ring[i].event.type = "job" /\ ring[i].seq <= SnapshotCursor[2]
        => load.jobs[ring[i].event.job].rank >= ring[i].event.rank

(* Outside a resync the events of one server process are applied one after
   another without a gap, and a snapshot never takes the workbench back to
   events it has applied (events.ts, EventGate and EventFeed.resync). *)
AppliedInOrder ==
  [][gate'[1] = gate[1] =>
       /\ gate'[2] >= gate[2]
       /\ (~Buffering /\ ~Buffering' /\ es = "open") => gate'[2] <= gate[2] + 1]_vars

(* Whatever fails, the workbench comes back by itself: without a stream the
   browser reopens, it loads a snapshot, has a reconnect timer, or waits for the
   health check that sets one (store.ts, lost and streamDropped). *)
NeverAbandoned ==
  /\ es = "none" => load.kind = "connect" \/ retry
  /\ es = "closed" => probe \/ retry

(* Nothing that happens to a job is lost on the way to a workbench: every event
   it lacks is coming or is replaced by a resync, and when nothing comes any more
   it lacks none (events.rs, pump; events.ts, EventFeed; store.ts). *)
NothingIsLost == NothingIsMissed /\ NothingIsSkipped

=============================================================================

---------------------------- MODULE StreamProofs ----------------------------
(***************************************************************************)
(* What reaches a workbench through restarts, lost streams, resyncs and    *)
(* failed requests, for any jobs, capacities and buffers: it applies the   *)
(* events of a server process one after another, none is skipped without   *)
(* a resync, it always comes back by itself, and once nothing is on its    *)
(* way any more it shows every job as the store has it.                    *)
(***************************************************************************)
EXTENDS EventStream, JobFeedProofs, Induction

-----------------------------------------------------------------------------
(* Folds *)

\* The fold of the first n frames of b, from every subset of their places.
Iter(s0, b, n, g) ==
  g = [s \in SUBSET (1..n) |-> IF s = {} THEN s0 ELSE Pass(g[s \ {Max(s)}], b[Max(s)])]

LEMMA IterExists ==
  ASSUME NEW s0, NEW b, NEW n \in Nat
  PROVE  \E g : Iter(s0, b, n, g)
PROOF
  <1> DEFINE T == {k \in Nat : ~ \E g : Iter(s0, b, k, g)}
  <1> SUFFICES ASSUME T # {} PROVE FALSE
    OBVIOUS
  <1>1. PICK m \in T : \A k \in T : m <= k
    BY Least
  <1>2. CASE m = 0
    <2> DEFINE g == [s \in SUBSET (1..0) |-> s0]
    <2>1. \A s \in SUBSET (1..0) : s = {}
      OBVIOUS
    <2>2. Iter(s0, b, 0, g)
      BY <2>1 DEF Iter
    <2> QED
      BY <1>1, <1>2, <2>2
  <1>3. CASE m # 0
    <2>1. m - 1 \in Nat /\ m - 1 \notin T /\ m \in Nat
      BY <1>1, <1>3
    <2>2. PICK g : Iter(s0, b, m - 1, g)
      BY <2>1
    <2> DEFINE h == [s \in SUBSET (1..m) |->
                       IF m \in s THEN Pass(g[s \ {m}], b[m]) ELSE g[s]]
    <2>3. ASSUME NEW s \in SUBSET (1..m)
          PROVE  h[s] = IF s = {} THEN s0 ELSE Pass(h[s \ {Max(s)}], b[Max(s)])
      <3>1. CASE m \in s
        <4>1. Max(s) = m
          BY <2>1, <3>1, MaxIs
        <4>2. s \ {m} \in SUBSET (1..m) /\ m \notin s \ {m} /\ s # {}
          BY <3>1
        <4> QED
          BY <3>1, <4>1, <4>2
      <3>2. CASE m \notin s
        <4>1. s \in SUBSET (1..(m - 1))
          BY <2>1, <3>2
        <4>2. h[s] = IF s = {} THEN s0 ELSE Pass(g[s \ {Max(s)}], b[Max(s)])
          BY <2>2, <3>2, <4>1 DEF Iter
        <4>3. s \ {Max(s)} \in SUBSET (1..m) /\ m \notin s \ {Max(s)}
          BY <3>2
        <4> QED
          BY <4>2, <4>3
      <3> QED
        BY <3>1, <3>2
    <2>4. Iter(s0, b, m, h)
      BY <2>3 DEF Iter
    <2> QED
      BY <1>1, <2>4
  <1> QED
    BY <1>2, <1>3

(* The replay of the buffer takes one frame after the other. *)
LEMMA ReplayUnfolds ==
  ASSUME NEW s0, buffer \in Seq(Frames)
  PROVE  \E r : /\ r[0] = s0 /\ r[Len(buffer)] = Replayed(s0)
                /\ \A i \in 1..Len(buffer) : r[i] = Pass(r[i - 1], buffer[i])
PROOF
  <1> DEFINE n == Len(buffer)
  <1>1. n \in Nat /\ DOMAIN buffer = 1..n
    OBVIOUS
  <1> HIDE DEF n
  <1> DEFINE f == CHOOSE g : Iter(s0, buffer, n, g)
             r == [i \in 0..n |-> f[1..i]]
  <1>2. Replayed(s0) = f[1..n]
    BY <1>1 DEF Replayed, FoldLeft, MapThenFoldSet, Iter
  <1>3. Iter(s0, buffer, n, f)
    BY <1>1, IterExists
  <1> HIDE DEF f
  <1>4. r[0] = s0
    BY <1>1, <1>3 DEF Iter
  <1>5. ASSUME NEW i \in 1..n PROVE r[i] = Pass(r[i - 1], buffer[i])
    <2>1. 1..i \in SUBSET (1..n) /\ 1..i # {} /\ (1..i) \ {i} = 1..(i - 1) /\ i \in 1..i
      BY <1>1
    <2>2. Max(1..i) = i
      <3>1. 1..i \in SUBSET Int /\ i \in 1..i /\ \A m \in 1..i : m <= i
        BY <1>1
      <3> QED
        BY <3>1, MaxIs
    <2>3. f[1..i] = Pass(f[1..(i - 1)], buffer[i])
      BY <1>3, <2>1, <2>2 DEF Iter
    <2> QED
      BY <1>1, <2>3
  <1>6. r[n] = Replayed(s0)
    BY <1>1, <1>2
  <1> QED
    BY <1>4, <1>5, <1>6 DEF n

-----------------------------------------------------------------------------
(* The workbench *)

JobViews == [rank : Ranks, prog : 0..MaxProgress]
Kinds == {"connect", "resync"}
LoadStates ==
  {NoLoad} \cup [phase : {"sent"}, kind : Kinds]
    \cup [phase : {"cursor"}, kind : Kinds, cursor : Ids]
    \cup [phase : {"built"}, kind : Kinds, cursor : Ids, jobs : Views]
PassStates == [gate : Ids, view : Views, again : BOOLEAN]

ClientTyped ==
  /\ wire \in Seq(Frames) /\ next \in Nat \ {0}
  /\ es \in {"none", "connecting", "open", "closed"}
  /\ lastId \in Ids /\ gate \in Ids
  /\ buffer \in Seq(Frames) /\ load \in LoadStates /\ view \in Views
  /\ retry \in BOOLEAN /\ probe \in BOOLEAN /\ cookie \in Nat
  /\ reply \in {NoReply} \cup JobEvents /\ turns \in 0..MaxTurns
  /\ instance \in Nat \ {0}

\* A load of its own, a stream's or none; and a stream only of a server that runs.
PhaseInv ==
  /\ ~Buffering => buffer = <<>>
  /\ es = "none" => ~Buffering
  /\ load.kind = "connect" => es = "none"
  /\ es = "open" => up
  /\ es # "open" => wire = <<>>

TypedInv == ServerTyped /\ ClientTyped /\ PhaseInv /\ NeverAbandoned

(* What the reducer makes of a view is a view. *)
LEMMA AppliedTyped ==
  ASSUME NEW v \in Views, NEW e \in HubEvents
  PROVE  Applied(v, e) \in Views
PROOF
  <1>1. CASE e.type = "job"
    <2>1. e \in JobEvents
      BY <1>1 DEF HubEvents, FeedEvents, ProgressEvents, OtherEvent, Resync
    <2>2. e.job \in Jobs /\ e.rank \in Ranks /\ e.prog \in 0..MaxProgress
      BY <2>1 DEF JobEvents, Ranks, None, Queued, Terminal
    <2>3. v[e.job] \in JobViews
      BY <2>2 DEF Views, JobViews
    <2> DEFINE n == IF e.rank = Running /\ v[e.job].rank = Running /\ v[e.job].prog > e.prog
                    THEN v[e.job].prog ELSE e.prog
    <2>4. n \in 0..MaxProgress
      BY <2>2, <2>3 DEF JobViews
    <2>5. Applied(v, e) = v \/ Applied(v, e) = [v EXCEPT ![e.job] = [rank |-> e.rank, prog |-> n]]
      BY <1>1 DEF Applied, WithJob
    <2> HIDE DEF n
    <2> QED
      BY <2>2, <2>4, <2>5 DEF Views
  <1>2. CASE e.type = "progress"
    <2>1. e \in ProgressEvents
      BY <1>2 DEF HubEvents, FeedEvents, JobEvents, OtherEvent, Resync
    <2>2. e.job \in Jobs /\ e.prog \in 0..MaxProgress
      BY <2>1, FeedAssumption DEF ProgressEvents
    <2>3. Applied(v, e) = v \/ Applied(v, e) = [v EXCEPT ![e.job].prog = e.prog]
      BY <1>2 DEF Applied
    <2> QED
      BY <2>2, <2>3 DEF Views
  <1>3. CASE e.type # "job" /\ e.type # "progress"
    BY <1>3 DEF Applied
  <1> QED
    BY <1>1, <1>2, <1>3

LEMMA PassTyped ==
  ASSUME NEW s \in PassStates, NEW f \in Frames
  PROVE  Pass(s, f) \in PassStates
PROOF
  <1>1. s.gate \in Ids /\ s.view \in Views /\ f.id \in Ids /\ f.event \in HubEvents
    BY DEF PassStates, Frames, HubEvents, FeedEvents
  <1>2. Applied(s.view, f.event) \in Views
    BY <1>1, AppliedTyped
  <1>3. PICK d : d = Accept(s.gate, f)
    OBVIOUS
  <1>4. (d = "resync") \in BOOLEAN
    OBVIOUS
  <1> DEFINE g == IF f.id[1] = s.gate[1] THEN f.id ELSE s.gate
             v == IF d = "apply" THEN Applied(s.view, f.event) ELSE s.view
  <1>5. g \in Ids /\ v \in Views
    BY <1>1, <1>2
  <1>6. Pass(s, f) = s \/ Pass(s, f) = [gate |-> g, view |-> v, again |-> d = "resync"]
    BY <1>3 DEF Pass
  <1>7. PICK b \in BOOLEAN : b = (d = "resync")
    BY <1>4
  <1>8. Pass(s, f) = s \/ Pass(s, f) = [gate |-> g, view |-> v, again |-> b]
    BY <1>6, <1>7
  <1> HIDE DEF g, v
  <1> QED
    BY <1>5, <1>8 DEF PassStates

LEMMA ReplayTyped ==
  ASSUME NEW s0 \in PassStates, buffer \in Seq(Frames)
  PROVE  Replayed(s0) \in PassStates
PROOF
  <1>1. PICK r : /\ r[0] = s0 /\ r[Len(buffer)] = Replayed(s0)
                 /\ \A i \in 1..Len(buffer) : r[i] = Pass(r[i - 1], buffer[i])
    BY ReplayUnfolds
  <1> DEFINE T == {i \in 0..Len(buffer) : r[i] \notin PassStates}
  <1>2. Len(buffer) \in Nat /\ \A i \in 1..Len(buffer) : buffer[i] \in Frames
    OBVIOUS
  <1>3. CASE T = {}
    BY <1>1, <1>2, <1>3
  <1>4. CASE T # {}
    <2>0. T \in SUBSET Nat
      BY <1>2
    <2>1. PICK m \in T : \A k \in T : m <= k
      <3> HIDE DEF T
      <3> QED
        BY <2>0, <1>4, Least
    <2>2. m # 0
      BY <1>1, <2>1
    <2>3. m \in 1..Len(buffer) /\ m - 1 \in 0..Len(buffer) /\ m - 1 \notin T
      BY <1>2, <2>1, <2>2
    <2> QED
      BY <1>1, <1>2, <2>1, <2>3, PassTyped
  <1> QED
    BY <1>3, <1>4

LEMMA TakeTyped ==
  ASSUME NEW s \in PassStates, Take(s)
  PROVE  /\ gate' \in Ids /\ view' \in Views /\ buffer' = <<>>
         /\ load' \in LoadStates /\ load'.kind \in {"resync", "none"}
         /\ s.again => load' = Loading("resync")
         /\ ~s.again => load' = NoLoad
         /\ load'.kind = "resync" => s.again
PROOF
  BY DEF Take, PassStates, Loading, NoLoad, LoadStates, Kinds

(* What the frames of an open stream are made of. *)
LEMMA PumpTyped ==
  ASSUME ServerTyped, ClientTyped, Pump
  PROVE  wire' \in Seq(Frames) /\ next' \in Nat \ {0}
PROOF
  <1> DEFINE S == [seq : Nat, event : HubEvents]
             frames == IF Lags(next) THEN <<ResyncFrame>> ELSE From(next)
             read == [i \in DOMAIN frames |->
                        [id |-> <<instance, frames[i].seq>>, event |-> frames[i].event]]
  <1>1. ring \in Seq(S) /\ last \in Nat /\ next \in Nat /\ instance \in Nat
        /\ wire \in Seq(Frames)
    BY DEF ServerTyped, HubInv, HubTyped, ClientTyped
  <1>2. ResyncFrame \in S
    BY <1>1 DEF ResyncFrame, Frame, HubEvents
  <1>3. ASSUME ~Lags(next) PROVE From(next) \in Seq(S)
    <2>1. CASE ring = <<>>
      BY <1>1, <2>1 DEF From
    <2>2. CASE ring # <<>>
      <3>1. Head(ring).seq \in Nat /\ Head(ring).seq <= next
        <4>1. Head(ring) \in S
          BY <1>1, <2>2, HeadTailProperties
        <4> QED
          BY <1>1, <1>3, <2>2, <4>1 DEF Lags
      <3>2. next - Head(ring).seq + 1 \in 1..(Len(ring) + 1)
            \/ next - Head(ring).seq + 1 > Len(ring)
        BY <1>1, <3>1
      <3> HIDE DEF S
      <3> QED
        BY <1>1, <2>2, <3>1, SubSeqProperties DEF From
    <2> QED
      BY <2>1, <2>2
  <1>4. frames \in Seq(S)
    <2> HIDE DEF S
    <2>1. <<ResyncFrame>> \in Seq(S)
      BY <1>2
    <2> QED
      BY <1>3, <2>1
  <1> HIDE DEF frames
  <1>5. ASSUME NEW i \in DOMAIN frames
        PROVE  [id |-> <<instance, frames[i].seq>>, event |-> frames[i].event] \in Frames
    <2>1. frames[i] \in S
      <3> HIDE DEF S
      <3> QED
        BY <1>4
    <2> QED
      BY <1>1, <2>1 DEF Frames, Ids, HubEvents, FeedEvents
  <1>6. read \in Seq(Frames)
    BY <1>4, <1>5
  <1>7. wire' = wire \o read /\ next' = last + 1
    BY DEF Pump, frames
  <1> HIDE DEF read
  <1> QED
    BY <1>1, <1>6, <1>7

LEMMA FailsTyped ==
  ASSUME turns \in 0..MaxTurns, Turn \/ Fails \/ UNCHANGED turns
  PROVE  turns' \in 0..MaxTurns
PROOF
  BY StreamAssumption DEF Fails, Turn

\* What a round that starts, or the loss of the engine, leaves of the client.
LEMMA RoundTyped ==
  ASSUME ClientTyped, StartRound \/ Lost, UNCHANGED <<instance, gate, view, cookie, reply>>,
         turns' \in 0..MaxTurns
  PROVE  ClientTyped' /\ PhaseInv' /\ NeverAbandoned'
PROOF
  <1>1. /\ es' = "none" /\ lastId' = NoId /\ buffer' = <<>> /\ wire' = <<>> /\ next' = 1
        /\ probe' = FALSE
        /\ \/ load' = Loading("connect") /\ retry' = FALSE
           \/ load' = NoLoad /\ retry' = TRUE
    BY DEF StartRound, Lost, NoFeed, NoStream
  <1>2. NoId \in Ids /\ Loading("connect") \in LoadStates /\ NoLoad \in LoadStates
    BY DEF NoId, Ids, Loading, LoadStates, Kinds
  <1>3. load' \in LoadStates /\ load'.kind # "resync" /\ (load'.kind = "connect" \/ retry')
    BY <1>1, <1>2 DEF Loading, NoLoad
  <1>4. ClientTyped'
    <2>1. retry' \in BOOLEAN /\ probe' \in BOOLEAN
      BY <1>1
    <2>2. wire' \in Seq(Frames) /\ buffer' \in Seq(Frames) /\ next' \in Nat \ {0}
      BY <1>1
    <2>3. es' \in {"none", "connecting", "open", "closed"} /\ lastId' \in Ids
      BY <1>1, <1>2
    <2>4. gate' \in Ids /\ view' \in Views /\ cookie' \in Nat
          /\ reply' \in {NoReply} \cup JobEvents /\ instance' \in Nat \ {0}
      BY DEF ClientTyped
    <2> QED
      BY <1>3, <2>1, <2>2, <2>3, <2>4 DEF ClientTyped
  <1> QED
    BY <1>1, <1>3, <1>4 DEF PhaseInv, NeverAbandoned, Buffering

LEMMA TypedSteps ==
  ASSUME TypedInv, Next
  PROVE  ClientTyped' /\ PhaseInv' /\ NeverAbandoned'
PROOF
  <1> DEFINE Kept == ClientTyped' /\ PhaseInv' /\ NeverAbandoned'
  <1>0. ServerTyped /\ ClientTyped /\ PhaseInv /\ NeverAbandoned
    BY DEF TypedInv
  <1>1. CASE ServerStep
    <2>1. up' = up /\ instance' = instance
      BY <1>0, <1>1, ServerSteps DEF ServerStep, HubStep, Publish, hubVars
    <2>2. UNCHANGED <<wire, next, es, lastId, gate, buffer, load, view, retry, probe, cookie,
                      reply, turns>>
      BY <1>1 DEF ServerStep, streamVars, clientVars
    <2> QED
      BY <1>0, <2>1, <2>2 DEF ClientTyped, PhaseInv, NeverAbandoned, Buffering
  <1>2. CASE Stop
    BY <1>0, <1>2 DEF Stop, NoStream, ClientTyped, PhaseInv, NeverAbandoned, Buffering, hubVars
  <1>3. CASE Start
    <2>1. UNCHANGED <<wire, next, es, lastId, gate, buffer, load, view, retry, probe, cookie,
                      reply, turns>> /\ instance' = instance + 1 /\ up'
      BY <1>3 DEF Start, HubRestart, streamVars, clientVars
    <2> QED
      BY <1>0, <2>1 DEF ClientTyped, PhaseInv, NeverAbandoned, Buffering
  <1>4. CASE SignIn
    BY <1>0, <1>4
    DEF SignIn, ClientTyped, PhaseInv, NeverAbandoned, Buffering, feedVars, hubVars, engineVars,
        streamVars
  <1>5. CASE Pump
    <2>1. wire' \in Seq(Frames) /\ next' \in Nat \ {0}
      BY <1>0, <1>5, PumpTyped
    <2>2. UNCHANGED <<es, lastId, gate, buffer, load, view, retry, probe, cookie,
                      reply, turns, instance, up>> /\ es = "open"
      BY <1>5 DEF Pump, feedVars, hubVars, engineVars, clientVars
    <2> QED
      BY <1>0, <2>1, <2>2 DEF ClientTyped, PhaseInv, NeverAbandoned, Buffering
  <1>6. CASE ReadCursor \/ BuildSnapshot
    <2>1. Cursor \in Ids /\ job \in Views
      BY <1>0 DEF ServerTyped, HubInv, HubTyped, ClientTyped, EngineInv, Cursor, Ids, Views
    <2>2. UNCHANGED <<wire, next, es, lastId, gate, buffer, view, retry, probe, cookie,
                      reply, turns, instance, up>>
      BY <1>6 DEF ReadCursor, BuildSnapshot, feedVars, hubVars, engineVars, streamVars
    <2>3. load' \in LoadStates /\ load'.kind = load.kind
      BY <1>0, <1>6, <2>1
      DEF ReadCursor, BuildSnapshot, ClientTyped, LoadStates, NoLoad
    <2> QED
      BY <1>0, <2>2, <2>3 DEF ClientTyped, PhaseInv, NeverAbandoned, Buffering
  <1>7. CASE Receive
    <2>1. wire # <<>> /\ es = "open" /\ Head(wire) \in Frames /\ Tail(wire) \in Seq(Frames)
      BY <1>0, <1>7, HeadTailProperties DEF Receive, ClientTyped
    <2>2. /\ UNCHANGED <<next, es, retry, probe, cookie, reply, turns, instance, up>>
          /\ wire' = Tail(wire) /\ lastId' = Head(wire).id /\ Head(wire).id \in Ids
      BY <1>7, <2>1 DEF Receive, feedVars, hubVars, engineVars, Frames
    <2>3. CASE Buffering
      <3>1. buffer' = Append(buffer, Head(wire)) /\ UNCHANGED <<gate, view, load>>
        BY <1>7, <2>3 DEF Receive
      <3>2. buffer' \in Seq(Frames)
        BY <1>0, <2>1, <3>1 DEF ClientTyped
      <3> QED
        BY <1>0, <2>1, <2>2, <2>3, <3>1, <3>2 DEF ClientTyped, PhaseInv, NeverAbandoned, Buffering
    <2>4. CASE ~Buffering
      <3> DEFINE s == Pass([gate |-> gate, view |-> view, again |-> FALSE], Head(wire))
      <3>1. s \in PassStates
        <4>1. [gate |-> gate, view |-> view, again |-> FALSE] \in PassStates
          BY <1>0 DEF ClientTyped, PassStates
        <4> QED
          BY <2>1, <4>1, PassTyped
      <3>2. Take(s)
        BY <1>7, <2>4 DEF Receive
      <3> HIDE DEF s
      <3>3. /\ gate' \in Ids /\ view' \in Views /\ buffer' = <<>>
            /\ load' \in LoadStates /\ load'.kind \in {"resync", "none"}
        BY <3>1, <3>2, TakeTyped
      <3> QED
        BY <1>0, <2>1, <2>2, <3>3 DEF ClientTyped, PhaseInv, NeverAbandoned, Buffering
    <2> QED
      BY <2>3, <2>4
  <1>8. CASE Resynced
    <2> DEFINE s0 == [gate |-> load.cursor, view |-> load.jobs, again |-> FALSE]
    <2>1. load.phase = "built" /\ load.kind = "resync" /\ Take(Replayed(s0))
      BY <1>8 DEF Resynced, SnapshotCursor
    <2>2. load.cursor \in Ids /\ load.jobs \in Views
      BY <1>0, <2>1 DEF ClientTyped, LoadStates, NoLoad
    <2>3. s0 \in PassStates
      BY <2>2 DEF PassStates
    <2> HIDE DEF s0
    <2>4. Replayed(s0) \in PassStates
      BY <1>0, <2>3, ReplayTyped DEF ClientTyped
    <2>5. /\ gate' \in Ids /\ view' \in Views /\ buffer' = <<>>
          /\ load' \in LoadStates /\ load'.kind \in {"resync", "none"}
      BY <2>1, <2>4, TakeTyped
    <2>6. UNCHANGED <<wire, next, es, lastId, retry, probe, cookie, reply, turns, instance, up>>
      BY <1>8 DEF Resynced, feedVars, hubVars, engineVars, streamVars
    <2> QED
      BY <1>0, <2>1, <2>5, <2>6 DEF ClientTyped, PhaseInv, NeverAbandoned, Buffering
  <1>9. CASE StreamOpens
    <2>1. /\ es' = "open" /\ up /\ es = "connecting"
          /\ UNCHANGED <<lastId, gate, buffer, load, view, retry, probe, cookie,
                         reply, turns, instance, up>>
      BY <1>9 DEF StreamOpens, feedVars, hubVars, engineVars, Welcome
    <2>2. last \in Nat /\ Cursor \in Ids
      BY <1>0 DEF ServerTyped, HubInv, HubTyped, ClientTyped, Cursor, Ids
    <2>3. next' \in Nat \ {0}
      BY <1>0, <1>9, <2>2 DEF StreamOpens, StartAt, ClientTyped, Ids
    <2>4. [id |-> Cursor, event |-> Resync] \in Frames
      BY <2>2 DEF Frames
    <2>5. wire' \in Seq(Frames)
      BY <1>9, <2>4 DEF StreamOpens
    <2> QED
      BY <1>0, <2>1, <2>3, <2>5 DEF ClientTyped, PhaseInv, NeverAbandoned, Buffering
  <1>10. CASE Connect
    <2>1. StartRound /\ UNCHANGED <<instance, gate, view, cookie, reply, turns>>
      BY <1>10 DEF Connect, feedVars, hubVars
    <2>2. turns' \in 0..MaxTurns
      BY <1>0, <2>1 DEF ClientTyped
    <2> QED
      BY <1>0, <2>1, <2>2, RoundTyped
  <1>11. CASE Connected
    <2>1. /\ load.phase = "built" /\ load.kind = "connect"
          /\ view' = load.jobs /\ gate' = load.cursor /\ lastId' = load.cursor
          /\ es' = "connecting" /\ load' = NoLoad
          /\ UNCHANGED <<wire, next, buffer, retry, probe, cookie, reply, turns, instance, up>>
      BY <1>11 DEF Connected, SnapshotCursor, feedVars, hubVars, engineVars, streamVars
    <2>2. load.cursor \in Ids /\ load.jobs \in Views
      BY <1>0, <2>1 DEF ClientTyped, LoadStates, NoLoad
    <2>3. NoLoad \in LoadStates /\ NoLoad.kind # "connect" /\ NoLoad.kind # "resync"
      BY DEF LoadStates, NoLoad
    <2> QED
      BY <1>0, <2>1, <2>2, <2>3 DEF ClientTyped, PhaseInv, NeverAbandoned, Buffering
  <1>12. CASE LoadFails \/ RequestFails
    <2>1. Lost /\ UNCHANGED <<instance, gate, view, cookie, reply>>
      BY <1>12 DEF LoadFails, RequestFails, feedVars, hubVars
    <2>2. turns' \in 0..MaxTurns
      <3>1. Turn \/ Fails \/ UNCHANGED turns
        BY <1>12 DEF LoadFails, RequestFails
      <3> QED
        BY <1>0, <3>1, FailsTyped DEF ClientTyped
    <2> QED
      BY <1>0, <2>1, <2>2, RoundTyped
  <1>13. CASE StreamDrops
    <2>1. turns' \in 0..MaxTurns
      BY <1>0, <1>13, FailsTyped DEF ClientTyped, StreamDrops
    <2>2. /\ es = "open" /\ es' = "connecting" /\ wire' = <<>> /\ next' = 1 /\ probe' = TRUE
          /\ UNCHANGED <<lastId, gate, buffer, load, view, retry, cookie, reply, instance, up>>
      BY <1>13 DEF StreamDrops, NoStream, feedVars, hubVars, engineVars
    <2> QED
      BY <1>0, <2>1, <2>2 DEF ClientTyped, PhaseInv, NeverAbandoned, Buffering
  <1>14. CASE StreamFails
    <2>1. turns' \in 0..MaxTurns
      BY <1>0, <1>14, FailsTyped DEF ClientTyped, StreamFails
    <2>2. /\ es = "connecting" /\ es' \in {"closed", "connecting"} /\ lastId' \in {NoId, lastId}
          /\ probe' = TRUE
          /\ UNCHANGED <<wire, next, gate, buffer, load, view, retry, cookie, reply, instance, up>>
      BY <1>14 DEF StreamFails, feedVars, hubVars, engineVars, streamVars
    <2>3. NoId \in Ids
      BY DEF NoId, Ids
    <2> QED
      BY <1>0, <2>1, <2>2, <2>3 DEF ClientTyped, PhaseInv, NeverAbandoned, Buffering
  <1>15. CASE ProbeAnswers
    <2>1. /\ retry' = (retry \/ es = "closed") /\ probe' = FALSE
          /\ UNCHANGED <<wire, next, es, lastId, gate, buffer, load, view, cookie, reply, turns,
                         instance, up>>
      BY <1>15 DEF ProbeAnswers, Probed, feedVars, hubVars, engineVars, streamVars
    <2>2. retry' \in BOOLEAN /\ probe' \in BOOLEAN
      BY <2>1
    <2>3. (retry => retry') /\ (es = "closed" => retry')
      BY <2>1
    <2>4. ClientTyped'
      BY <1>0, <2>1, <2>2 DEF ClientTyped
    <2>5. PhaseInv'
      BY <1>0, <2>1 DEF PhaseInv, Buffering
    <2>6. NeverAbandoned'
      BY <1>0, <2>1, <2>3 DEF NeverAbandoned
    <2> QED
      BY <2>4, <2>5, <2>6
  <1>16. CASE Tracked
    <2>1. /\ reply # NoReply /\ view' = WithJob(view, reply) /\ reply' = NoReply
          /\ UNCHANGED <<wire, next, es, lastId, gate, buffer, load, retry, probe, cookie, turns,
                         instance, up>>
      BY <1>16 DEF Tracked, feedVars, hubVars, engineVars, streamVars
    <2>2. reply \in JobEvents
      BY <1>0, <2>1 DEF ClientTyped
    <2>3. Applied(view, reply) \in Views /\ reply.type = "job"
      BY <1>0, <2>2, AppliedTyped DEF ClientTyped, HubEvents, FeedEvents, JobEvents
    <2>4. view' \in Views
      BY <2>1, <2>3 DEF Applied
    <2> QED
      BY <1>0, <2>1, <2>4 DEF ClientTyped, PhaseInv, NeverAbandoned, Buffering
  <1>17. CASE Refresh
    <2>1. turns' \in 0..MaxTurns
      BY <1>0, <1>17, FailsTyped DEF ClientTyped, Refresh
    <2>2. UNCHANGED <<instance, up, gate, view, cookie, reply>>
      BY <1>17 DEF Refresh, feedVars, hubVars, engineVars
    <2>3. CASE StartRound
      BY <1>0, <2>1, <2>2, <2>3, RoundTyped
    <2>4. CASE /\ es # "none" /\ ~Buffering
               /\ buffer' = <<>> /\ load' = Loading("resync")
               /\ UNCHANGED <<es, streamVars, lastId, retry, probe>>
      <3>1. load' \in LoadStates /\ load'.kind = "resync"
        BY <2>4 DEF Loading, LoadStates, Kinds
      <3>2. UNCHANGED <<es, wire, next, lastId, retry, probe>>
        BY <2>4 DEF streamVars
      <3> QED
        BY <1>0, <2>1, <2>2, <2>4, <3>1, <3>2 DEF ClientTyped, PhaseInv, NeverAbandoned, Buffering
    <2> QED
      BY <1>17, <2>3, <2>4 DEF Refresh
  <1>18. ASSUME NEW j \in Jobs, Ask(j) PROVE Kept
    <2>1. turns' \in 0..MaxTurns
      BY <1>0, <1>18, FailsTyped DEF ClientTyped, Ask
    <2>2. /\ reply' = JobEvent(j, job[j].rank, job[j].prog) /\ job[j].rank # None
          /\ UNCHANGED <<wire, next, es, lastId, gate, buffer, load, view, retry, probe, cookie,
                         instance, up>>
      BY <1>18 DEF Ask, Created, feedVars, hubVars, engineVars, streamVars
    <2>3. job[j] \in JobViews
      BY <1>0 DEF ServerTyped, EngineInv, JobViews
    <2>4. reply' \in JobEvents
      BY <2>2, <2>3 DEF JobEvent, JobEvents, JobViews, Ranks, None, Queued, Terminal
    <2> QED
      BY <1>0, <2>1, <2>2, <2>4 DEF ClientTyped, PhaseInv, NeverAbandoned, Buffering
  <1> QED
    BY <1>1, <1>2, <1>3, <1>4, <1>5, <1>6, <1>7, <1>8, <1>9, <1>10, <1>11, <1>12, <1>13, <1>14,
       <1>15, <1>16, <1>17, <1>18 DEF Next

LEMMA ServerKept ==
  ASSUME TypedInv, Next
  PROVE  /\ ServerTyped'
         /\ \/ UNCHANGED hubVars
            \/ ServerStep /\ \E ev \in HubEvents : Publish(ev)
            \/ Start /\ HubRestart
PROOF
  <1>0. ServerTyped
    BY DEF TypedInv
  <1>1. CASE ServerStep
    <2>1. EngineInv' /\ feed' \in FeedStates /\ HubStep
      BY <1>0, <1>1, ServerSteps DEF ServerStep
    <2>2. CASE UNCHANGED hubVars
      BY <1>0, <2>1, <2>2 DEF ServerTyped, HubInv, HubTyped, RingIsContiguous, hubVars
    <2>3. ASSUME NEW ev \in HubEvents, Publish(ev) PROVE HubInv'
      BY <1>0, <2>3, PublishKeepsRing DEF ServerTyped, HubInv
    <2> QED
      BY <1>1, <2>1, <2>2, <2>3 DEF HubStep, ServerTyped
  <1>2. CASE Start
    <2>1. HubRestart /\ UNCHANGED <<job, live, due, bus, feed>>
      BY <1>2 DEF Start
    <2>2. HubInv'
      BY <2>1, HubAssumption DEF HubRestart, HubInv, HubTyped, RingIsContiguous
    <2> QED
      BY <1>0, <1>2, <2>1, <2>2 DEF ServerTyped, EngineInv
  <1>3. CASE Stop
    <2>1. live' \in [Jobs -> 0..MaxProgress] /\ feed' \in FeedStates
      <3>1. [j \in Jobs |-> None] \in [Jobs -> Ranks] /\ {} \in SUBSET Jobs
            /\ [j \in Jobs |-> 0] \in [Jobs -> 0..MaxProgress]
            /\ [j \in Jobs |-> Unwatched] \in [Jobs -> Unwatched..MaxProgress]
        BY FeedAssumption DEF Ranks, None, Terminal, Unwatched
      <3> QED
        BY <1>3, <3>1 DEF Stop, FreshFeed, FeedStates
    <2>2. UNCHANGED hubVars /\ job' = job /\ due' = {} /\ bus' = <<>>
      BY <1>3 DEF Stop
    <2>3. HubInv'
      BY <1>0, <2>2 DEF ServerTyped, HubInv, HubTyped, RingIsContiguous, hubVars
    <2>4. EngineInv'
      BY <1>0, <2>1, <2>2 DEF ServerTyped, EngineInv
    <2> QED
      BY <2>1, <2>2, <2>3, <2>4 DEF ServerTyped
  <1>4. CASE UNCHANGED feedVars
    <2>1. UNCHANGED <<hubVars, job, live, due, bus, feed>>
      BY <1>4 DEF feedVars, engineVars
    <2>2. HubInv'
      BY <1>0, <2>1 DEF ServerTyped, HubInv, HubTyped, RingIsContiguous, hubVars
    <2>3. EngineInv'
      BY <1>0, <2>1 DEF ServerTyped, EngineInv
    <2> QED
      BY <1>0, <2>1, <2>2, <2>3 DEF ServerTyped
  <1> QED
    BY <1>1, <1>2, <1>3, <1>4
    DEF Next, SignIn, Pump, ReadCursor, BuildSnapshot, Receive, Resynced, StreamOpens, StreamDrops,
        StreamFails, ProbeAnswers, RequestFails, Connect, Connected, LoadFails, Tracked, Refresh,
        Ask

LEMMA InitTyped == Init => TypedInv
PROOF
  <1> SUFFICES ASSUME Init PROVE TypedInv
    OBVIOUS
  <1>1. HubInv
    BY HubAssumption DEF Init, FeedInit, HubInit, HubInv, HubTyped, RingIsContiguous
  <1>2. feed \in FeedStates
    BY FeedAssumption
    DEF Init, FeedInit, FreshFeed, FeedStates, Ranks, None, Terminal, Unwatched
  <1>3. EngineInv
    BY FeedAssumption DEF Init, FeedInit, EngineInv, NoJob, Ranks, None, Terminal
  <1>4. ServerTyped
    BY <1>1, <1>2, <1>3 DEF ServerTyped
  <1>5. NoLoad \in LoadStates /\ NoId \in Ids /\ <<1, 0>> \in Ids
        /\ [j \in Jobs |-> NoJob] \in Views /\ instance = 1
    BY FeedAssumption DEF LoadStates, NoId, Ids, Views, NoJob, Ranks, None, Terminal, Init,
                         FeedInit, HubInit
  <1>6. ClientTyped
    <2>1. wire \in Seq(Frames) /\ buffer \in Seq(Frames) /\ next \in Nat \ {0}
      BY DEF Init
    <2>2. retry \in BOOLEAN /\ probe \in BOOLEAN /\ turns \in 0..MaxTurns
      <3>1. (retry <=> TRUE) /\ (probe <=> FALSE) /\ turns = MaxTurns
        BY DEF Init
      <3>2. turns \in 0..MaxTurns
        BY <3>1, StreamAssumption
      <3> QED
        BY <3>2, Zenon DEF Init
    <2>3. cookie \in Nat /\ reply \in {NoReply} \cup JobEvents /\ instance \in Nat \ {0}
      BY <1>5 DEF Init
    <2>4. lastId \in Ids /\ gate \in Ids /\ load \in LoadStates /\ view \in Views /\ es = "none"
      BY <1>5 DEF Init
    <2> QED
      BY <2>1, <2>2, <2>3, <2>4 DEF ClientTyped
  <1> QED
    BY <1>4, <1>6 DEF Init, TypedInv, PhaseInv, NeverAbandoned, Buffering, NoLoad

LEMMA TypedKept == TypedInv /\ [Next]_vars => TypedInv'
PROOF
  <1> SUFFICES ASSUME TypedInv, [Next]_vars PROVE TypedInv'
    OBVIOUS
  <1>1. CASE Next
    BY <1>1, TypedSteps, ServerKept DEF TypedInv
  <1>2. CASE UNCHANGED vars
    <2>1. UNCHANGED <<hubVars, job, live, due, bus, feed, up>>
          /\ UNCHANGED <<wire, next, es, lastId, gate, buffer, load, view, retry, probe, cookie,
                         reply, turns>>
      BY <1>2 DEF vars, feedVars, engineVars, streamVars, clientVars
    <2>2. ServerTyped'
      BY <2>1 DEF TypedInv, ServerTyped, HubInv, HubTyped, RingIsContiguous, hubVars, EngineInv
    <2>3. ClientTyped' /\ PhaseInv' /\ NeverAbandoned'
      BY <2>1 DEF TypedInv, ClientTyped, PhaseInv, NeverAbandoned, Buffering, hubVars
    <2> QED
      BY <2>2, <2>3 DEF TypedInv
  <1> QED
    BY <1>1, <1>2

(* Whatever fails, the workbench comes back by itself: without a stream it loads
   a snapshot or has a reconnect timer, and a stream the browser gave up on is
   seen by the health check or by the timer (store.ts, lost and streamDropped). *)
THEOREM TheWorkbenchComesBack == Spec => []NeverAbandoned
PROOF
  <1>1. Init => TypedInv
    BY InitTyped
  <1>2. TypedInv /\ [Next]_vars => TypedInv'
    BY TypedKept
  <1>3. TypedInv => NeverAbandoned
    BY DEF TypedInv
  <1> QED
    BY <1>1, <1>2, <1>3, PTL DEF Spec

-----------------------------------------------------------------------------
(* The order of events *)

Upto(p, q) == p[1] < q[1] \/ (p[1] = q[1] /\ p[2] <= q[2])
Before(p, q) == p[1] < q[1] \/ (p[1] = q[1] /\ p[2] < q[2])
Following(p) == <<p[1], p[2] + 1>>

\* A frame that may come after the event p: the next event, or a resync.
Follows(p, f) == f.id = Following(p) \/ (f.event = Resync /\ Before(p, f.id))

Line(s) == \A i \in 2..Len(s) : Follows(s[i - 1].id, s[i])

CursorRead == load.phase \in {"cursor", "built"}
Reads == es \in {"open", "connecting"}

IdsInv ==
  /\ Upto(lastId, Cursor) /\ Upto(gate, Cursor)
  /\ CursorRead => Upto(load.cursor, Cursor) /\ Upto(gate, load.cursor)
  /\ \A i \in 1..Len(wire) : Upto(wire[i].id, Cursor)
  /\ \A i \in 1..Len(buffer) : Upto(buffer[i].id, Cursor)

\* What is on the wire goes on from what was received, up to what pump has read.
WireInv ==
  es = "open" =>
    /\ Line(wire)
    /\ wire # <<>> => Follows(lastId, wire[1])
    /\ (IF wire = <<>> THEN lastId ELSE wire[Len(wire)].id) = <<instance, next - 1>>
    /\ next <= last + 1

\* What waits goes on from the snapshot, or has a resync, up to what was received.
BufferInv ==
  Reads =>
    /\ Line(buffer)
    /\ buffer # <<>> => buffer[Len(buffer)].id = lastId
    /\ \A i \in 1..Len(buffer) : Upto(buffer[i].id, lastId)
    /\ CursorRead /\ Buffering =>
         IF buffer = <<>> THEN Upto(lastId, load.cursor)
         ELSE buffer[1].event = Resync \/ Upto(buffer[1].id, Following(load.cursor))

\* What was received has been applied.
GateInv == Reads /\ ~Buffering /\ lastId[1] = gate[1] => lastId[2] <= gate[2]

OrderInv == IdsInv /\ WireInv /\ BufferInv /\ GateInv

LEMMA BeforeFollowing ==
  ASSUME NEW p \in Ids, NEW q \in Ids
  PROVE  /\ Before(p, q) => Upto(Following(p), q)
         /\ Upto(p, q) /\ Upto(q, p) => p = q
         /\ Upto(p, q) => Upto(Following(p), Following(q))
PROOF
  BY DEF Upto, Before, Following, Ids

LEMMA UptoIsOrder ==
  ASSUME NEW p \in Ids, NEW q \in Ids, NEW r \in Ids
  PROVE  /\ Upto(p, p) /\ (Upto(p, q) /\ Upto(q, r) => Upto(p, r))
         /\ (Before(p, q) => Upto(p, q)) /\ (Upto(p, q) \/ Before(q, p))
         /\ Before(p, Following(p)) /\ Following(p) \in Ids
PROOF
  BY DEF Upto, Before, Following, Ids

LEMMA FollowsRises ==
  ASSUME NEW p \in Ids, NEW f \in Frames, Follows(p, f)
  PROVE  Before(p, f.id) /\ Upto(p, f.id)
PROOF
  <1>1. f.id \in Ids
    BY DEF Frames
  <1> QED
    BY <1>1 DEF Follows, Following, Before, Upto, Ids

LEMMA LineAppends ==
  ASSUME NEW s \in Seq(Frames), NEW f \in Frames, Line(s),
         s # <<>> => Follows(s[Len(s)].id, f)
  PROVE  Line(Append(s, f))
PROOF
  <1> DEFINE t == Append(s, f)
  <1>1. Len(t) = Len(s) + 1 /\ t[Len(s) + 1] = f /\ (\A i \in 1..Len(s) : t[i] = s[i])
        /\ Len(s) \in Nat
    BY AppendProperties
  <1> HIDE DEF t
  <1> SUFFICES ASSUME NEW i \in 2..Len(t) PROVE Follows(t[i - 1].id, t[i])
    BY DEF Line, t
  <1>2. CASE i = Len(t)
    BY <1>1, <1>2
  <1>3. CASE i # Len(t)
    <2>1. i \in 2..Len(s) /\ i - 1 \in 1..Len(s) /\ i \in 1..Len(s)
      BY <1>1, <1>3
    <2> QED
      BY <1>1, <2>1 DEF Line
  <1> QED
    BY <1>2, <1>3

LEMMA LinesJoin ==
  ASSUME NEW s \in Seq(Frames), NEW t \in Seq(Frames), Line(s), Line(t), t # <<>>,
         s # <<>> => Follows(s[Len(s)].id, t[1])
  PROVE  Line(s \o t)
PROOF
  <1> DEFINE u == s \o t
  <1>1. /\ Len(u) = Len(s) + Len(t) /\ Len(s) \in Nat /\ Len(t) \in Nat
        /\ \A i \in 1..Len(s) : u[i] = s[i]
        /\ \A i \in 1..Len(t) : u[Len(s) + i] = t[i]
    BY ConcatProperties
  <1> HIDE DEF u
  <1> SUFFICES ASSUME NEW i \in 2..Len(u) PROVE Follows(u[i - 1].id, u[i])
    BY DEF Line, u
  <1>2. CASE i <= Len(s)
    <2>1. i \in 2..Len(s) /\ i - 1 \in 1..Len(s) /\ i \in 1..Len(s)
      BY <1>1, <1>2
    <2> QED
      BY <1>1, <2>1 DEF Line
  <1>3. CASE i = Len(s) + 1
    <2>1. i - 1 \in 1..Len(s) /\ 1 \in 1..Len(t) /\ s # <<>> /\ i - 1 = Len(s)
      BY <1>1, <1>3
    <2>2. u[i] = t[1] /\ u[i - 1] = s[Len(s)]
      BY <1>1, <1>3, <2>1
    <2> QED
      BY <2>1, <2>2
  <1>4. CASE i > Len(s) + 1
    <2> DEFINE k == i - Len(s)
    <2>1. k \in 2..Len(t) /\ k - 1 \in 1..Len(t) /\ k \in 1..Len(t)
          /\ i = Len(s) + k /\ i - 1 = Len(s) + (k - 1)
      BY <1>1, <1>4
    <2> HIDE DEF k
    <2>2. u[i] = t[k] /\ u[i - 1] = t[k - 1]
      BY <1>1, <2>1
    <2> QED
      BY <2>1, <2>2 DEF Line
  <1> QED
    BY <1>1, <1>2, <1>3, <1>4

LEMMA LineGoesOn ==
  ASSUME NEW s \in Seq(Frames), s # <<>>, Line(s)
  PROVE  /\ Line(Tail(s)) /\ Head(s) = s[1] /\ Head(s) \in Frames
         /\ Tail(s) \in Seq(Frames) /\ Len(Tail(s)) = Len(s) - 1 /\ Len(s) \in Nat \ {0}
         /\ \A i \in 1..Len(Tail(s)) : i + 1 \in 1..Len(s) /\ Tail(s)[i] = s[i + 1]
         /\ Tail(s) # <<>> => Follows(s[1].id, Tail(s)[1])
         /\ Tail(s) # <<>> => Tail(s)[Len(Tail(s))] = s[Len(s)]
PROOF
  <1> DEFINE t == Tail(s)
  <1>1. /\ t \in Seq(Frames) /\ Len(t) = Len(s) - 1 /\ Len(s) \in Nat \ {0}
        /\ Head(s) = s[1] /\ Head(s) \in Frames
        /\ \A i \in 1..Len(t) : t[i] = s[i + 1]
    BY HeadTailProperties
  <1> HIDE DEF t
  <1>2. ASSUME NEW i \in 2..Len(t) PROVE Follows(t[i - 1].id, t[i])
    <2>1. i \in 1..Len(t) /\ i - 1 \in 1..Len(t) /\ i + 1 \in 2..Len(s) /\ (i + 1) - 1 = i
          /\ (i - 1) + 1 = i
      BY <1>1
    <2>2. t[i] = s[i + 1] /\ t[i - 1] = s[i]
      BY <1>1, <2>1
    <2> QED
      BY <2>1, <2>2 DEF Line
  <1>3. ASSUME t # <<>> PROVE Follows(s[1].id, t[1]) /\ t[Len(t)] = s[Len(s)]
    <2>1. Len(t) \in 1..Len(t) /\ 1 \in 1..Len(t) /\ 2 \in 2..Len(s) /\ Len(t) + 1 = Len(s)
      BY <1>1, <1>3
    <2>2. t[1] = s[2] /\ t[Len(t)] = s[Len(s)]
      BY <1>1, <2>1
    <2>3. Follows(s[2 - 1].id, s[2])
      BY <2>1 DEF Line
    <2> QED
      BY <2>2, <2>3
  <1>4. Line(t)
    BY <1>2 DEF Line
  <1> QED
    BY <1>1, <1>3, <1>4 DEF t

(* Each event that a line of frames passes is in it, or a resync after it is. *)
LEMMA LineCovers ==
  ASSUME NEW s \in Seq(Frames), s # <<>>, Line(s), NEW x \in Ids,
         s[1].event = Resync \/ Upto(s[1].id, x), Upto(x, s[Len(s)].id)
  PROVE  \E i \in 1..Len(s) : Upto(x, s[i].id) /\ (s[i].id = x \/ s[i].event = Resync)
PROOF
  <1> DEFINE T == {i \in 1..Len(s) : Upto(x, s[i].id)}
  <1>0. Len(s) \in Nat \ {0} /\ \A i \in 1..Len(s) : s[i] \in Frames
    OBVIOUS
  <1>1. Len(s) \in Nat \ {0} /\ \A i \in 1..Len(s) : s[i] \in Frames /\ s[i].id \in Ids
    BY <1>0 DEF Frames
  <1>2. T \in SUBSET Nat /\ T # {}
    BY <1>1
  <1>3. PICK m \in T : \A n \in T : m <= n
    <2> HIDE DEF T
    <2> QED
      BY <1>2, Least
  <1>4. CASE m = 1
    BY <1>1, <1>3, <1>4, BeforeFollowing
  <1>5. CASE m # 1
    <2>1. m \in 2..Len(s) /\ m - 1 \in 1..Len(s) /\ m - 1 \notin T
      BY <1>1, <1>3, <1>5
    <2>2. Before(s[m - 1].id, x)
      BY <1>1, <2>1, UptoIsOrder
    <2>3. Follows(s[m - 1].id, s[m])
      BY <2>1 DEF Line
    <2>4. s[m].event = Resync \/ Upto(s[m].id, x)
      BY <1>1, <2>1, <2>2, <2>3, BeforeFollowing DEF Follows
    <2> QED
      BY <1>1, <1>3, <2>4, BeforeFollowing
  <1> QED
    BY <1>4, <1>5

\* A frame of the stream that tells of the ring's frame g.
Carries(f, g) == f.id = <<instance, g.seq>> /\ f.event = g.event

\* What pump reads: a resync if it lags, or else the frames it has not read.
ReadsRing(read) ==
  \/ read = <<[id |-> Cursor, event |-> Resync]>> /\ next <= last - Len(ring)
  \/ /\ next > last - Len(ring)
     /\ \A i \in 1..Len(read) : \E k \in 1..Len(ring) : Carries(read[i], ring[k])
     /\ \A k \in 1..Len(ring) :
          ring[k].seq >= next => \E i \in 1..Len(read) : Carries(read[i], ring[k])

(* What pump reads goes on from what it read before. *)
LEMMA PumpReads ==
  ASSUME ServerTyped, ClientTyped, Pump
  PROVE  \E read \in Seq(Frames) :
           /\ wire' = wire \o read /\ read # <<>> /\ Line(read)
           /\ Follows(<<instance, next - 1>>, read[1])
           /\ read[Len(read)].id = Cursor
           /\ \A i \in 1..Len(read) : Upto(read[i].id, Cursor)
           /\ ReadsRing(read)
PROOF
  <1> DEFINE S == [seq : Nat, event : HubEvents]
             frames == IF Lags(next) THEN <<ResyncFrame>> ELSE From(next)
             read == [i \in DOMAIN frames |->
                        [id |-> <<instance, frames[i].seq>>, event |-> frames[i].event]]
  <1>1. /\ ring \in Seq(S) /\ last \in Nat /\ next \in Nat \ {0} /\ instance \in Nat
        /\ next <= last /\ Len(ring) \in Nat /\ Len(ring) <= last
        /\ ring # <<>>
        /\ \A i \in 1..Len(ring) : ring[i].seq = last - Len(ring) + i
    BY DEF ServerTyped, HubInv, HubTyped, RingIsContiguous, ClientTyped, Pump
  <1>2. /\ frames \in Seq(S)
        /\ \/ /\ frames = <<ResyncFrame>>
              /\ next <= last - Len(ring)
           \/ /\ Len(frames) = last - next + 1 /\ next > last - Len(ring)
              /\ \A i \in 1..Len(frames) :
                   /\ frames[i].seq = next + i - 1
                   /\ next - last + Len(ring) + i - 1 \in 1..Len(ring)
                   /\ frames[i] = ring[next - last + Len(ring) + i - 1]
    <2>1. CASE Lags(next)
      <3>1. ResyncFrame \in S
        BY <1>1 DEF ResyncFrame, Frame, HubEvents
      <3>2. next <= last - Len(ring)
        <4>1. Head(ring) = ring[1] /\ 1 \in 1..Len(ring) /\ ring[1].seq = last - Len(ring) + 1
          BY <1>1
        <4> QED
          BY <1>1, <2>1, <4>1 DEF Lags
      <3>3. frames = <<ResyncFrame>>
        BY <2>1
      <3> HIDE DEF S, frames
      <3> QED
        BY <3>1, <3>2, <3>3
    <2>2. CASE ~Lags(next)
      <3>1. Head(ring) = ring[1] /\ 1 \in 1..Len(ring)
        BY <1>1
      <3> DEFINE h == last - Len(ring) + 1
                 m == next - h + 1
      <3>2. Head(ring).seq = h /\ h <= next
        BY <1>1, <2>2, <3>1 DEF Lags
      <3>3. m \in 1..Len(ring) /\ Len(ring) - m + 1 = last - next + 1
        BY <1>1, <3>2
      <3>4. frames = SubSeq(ring, m, Len(ring))
        BY <1>1, <2>2, <3>2 DEF From
      <3>5. /\ frames \in Seq(S) /\ Len(frames) = Len(ring) - m + 1
            /\ \A i \in 1..(Len(ring) - m + 1) : frames[i] = ring[m + i - 1]
        <4> DEFINE n == Len(ring)
        <4>1. ring \in Seq(S) /\ n \in 1..Len(ring) /\ m \in 1..Len(ring) /\ m <= n + 1
          BY <1>1, <3>3
        <4> HIDE DEF S, m, n, frames
        <4>2. /\ SubSeq(ring, m, n) \in Seq(S)
              /\ Len(SubSeq(ring, m, n)) = IF m <= n THEN n - m + 1 ELSE 0
              /\ \A i \in 1..(n - m + 1) : SubSeq(ring, m, n)[i] = ring[m + i - 1]
          BY <4>1, SubSeqProperties, SMTT(30)
        <4> QED
          BY <3>3, <3>4, <4>2 DEF n
      <3>7. m = next - last + Len(ring)
        BY <1>1
      <3>6. ASSUME NEW i \in 1..Len(frames)
            PROVE  /\ frames[i].seq = next + i - 1
                   /\ m + i - 1 \in 1..Len(ring) /\ frames[i] = ring[m + i - 1]
        <4>0. m \in Nat /\ last - Len(ring) + (m + i - 1) = next + i - 1
          BY <1>1, <3>3
        <4> HIDE DEF m, frames
        <4>1. i \in 1..(Len(ring) - m + 1)
          BY <3>5
        <4>2. m + i - 1 \in 1..Len(ring)
          BY <1>1, <3>3, <4>1
        <4>3. frames[i] = ring[m + i - 1]
          BY <3>5, <4>1
        <4>4. ring[m + i - 1].seq = last - Len(ring) + (m + i - 1)
          BY <1>1, <4>2
        <4> QED
          BY <4>0, <4>2, <4>3, <4>4
      <3>8. next > last - Len(ring)
        BY <1>1, <3>2
      <3>9. \A i \in 1..Len(frames) :
              /\ frames[i].seq = next + i - 1
              /\ next - last + Len(ring) + i - 1 \in 1..Len(ring)
              /\ frames[i] = ring[next - last + Len(ring) + i - 1]
        BY <3>6, <3>7
      <3> HIDE DEF S, frames, m
      <3> QED
        BY <1>1, <3>3, <3>5, <3>8, <3>9
    <2> QED
      BY <2>1, <2>2
  <1>3. wire' = wire \o read
    BY DEF Pump
  <1> HIDE DEF frames
  <1>4. /\ DOMAIN frames = 1..Len(frames) /\ Len(frames) \in Nat \ {0}
        /\ \A i \in 1..Len(frames) : frames[i] \in S
    <2> HIDE DEF S
    <2>1. Len(frames) # 0
      <3>1. CASE frames = <<ResyncFrame>>
        BY <3>1
      <3>2. CASE Len(frames) = last - next + 1
        BY <1>1, <3>2
      <3> QED
        BY <1>2, <3>1, <3>2
    <2> QED
      BY <1>2, <2>1
  <1>5. ASSUME NEW i \in 1..Len(frames)
        PROVE  read[i] \in Frames /\ read[i].id = <<instance, frames[i].seq>>
               /\ read[i].event = frames[i].event
    BY <1>1, <1>4 DEF Frames, Ids, HubEvents, FeedEvents
  <1>6. read \in Seq(Frames) /\ Len(read) = Len(frames) /\ read # <<>>
    BY <1>4, <1>5
  <1> HIDE DEF read
  <1>7. CASE frames = <<ResyncFrame>> /\ next <= last - Len(ring)
    <2>1. Len(read) = 1 /\ read[1].id = Cursor /\ read[1].event = Resync /\ Cursor \in Ids
      BY <1>1, <1>5, <1>6, <1>7 DEF ResyncFrame, Frame, Cursor, Ids
    <2>2. Line(read) /\ \A i \in 1..Len(read) : Upto(read[i].id, Cursor)
      BY <2>1, UptoIsOrder DEF Line
    <2>3. Before(<<instance, next - 1>>, Cursor)
      BY <1>1 DEF Before, Cursor
    <2>4. read = <<[id |-> Cursor, event |-> Resync]>>
      <3>1. read[1] = [id |-> Cursor, event |-> Resync]
        <4>1. read[1] \in Frames
          BY <1>6, <2>1
        <4> QED
          BY <2>1, <4>1 DEF Frames
      <3> QED
        BY <1>6, <2>1, <3>1
    <2> QED
      BY <1>3, <1>6, <1>7, <2>1, <2>2, <2>3, <2>4 DEF Follows, ReadsRing
  <1>8. CASE /\ Len(frames) = last - next + 1 /\ next > last - Len(ring)
             /\ \A i \in 1..Len(frames) :
                  /\ frames[i].seq = next + i - 1
                  /\ next - last + Len(ring) + i - 1 \in 1..Len(ring)
                  /\ frames[i] = ring[next - last + Len(ring) + i - 1]
    <2>0. Len(read) = last - next + 1 /\ \A i \in 1..Len(read) : frames[i].seq = next + i - 1
      BY <1>6, <1>8
    <2>1. \A i \in 1..Len(read) : read[i].id = <<instance, next + i - 1>>
      BY <1>5, <1>6, <2>0
    <2>2. Line(read)
      <3> SUFFICES ASSUME NEW i \in 2..Len(read) PROVE Follows(read[i - 1].id, read[i])
        BY DEF Line
      <3>1. i \in 1..Len(read) /\ i - 1 \in 1..Len(read)
        BY <1>4, <1>6
      <3>2. read[i].id = <<instance, next + i - 1>>
            /\ read[i - 1].id = <<instance, next + (i - 1) - 1>>
        BY <2>1, <3>1
      <3>3. next + i - 1 = (next + (i - 1) - 1) + 1
        BY <1>1, <3>1
      <3> QED
        BY <3>2, <3>3 DEF Follows, Following
    <2>3. \A i \in 1..Len(read) : Upto(read[i].id, Cursor)
      BY <1>1, <2>0, <2>1 DEF Upto, Cursor
    <2>4. 1 \in 1..Len(read) /\ Len(read) \in 1..Len(read)
      BY <1>4, <1>6
    <2>5. Follows(<<instance, next - 1>>, read[1])
      BY <1>1, <2>1, <2>4 DEF Follows, Following
    <2>6. read[Len(read)].id = Cursor
      <3>1. read[Len(read)].id = <<instance, next + Len(read) - 1>>
        BY <2>1, <2>4
      <3>2. next + Len(read) - 1 = last
        BY <1>1, <2>0
      <3> QED
        BY <3>1, <3>2 DEF Cursor
    <2> DEFINE m == next - last + Len(ring)
    <2>7. ASSUME NEW i \in 1..Len(read)
          PROVE  m + i - 1 \in 1..Len(ring) /\ Carries(read[i], ring[m + i - 1])
      <3>1. i \in 1..Len(frames)
        BY <1>6
      <3>2. m + i - 1 \in 1..Len(ring) /\ frames[i] = ring[m + i - 1]
        BY <1>8, <3>1
      <3> HIDE DEF m
      <3> QED
        BY <1>5, <3>1, <3>2 DEF Carries
    <2>8. ASSUME NEW k \in 1..Len(ring), ring[k].seq >= next
          PROVE  \E i \in 1..Len(read) : Carries(read[i], ring[k])
      <3> DEFINE i == k - m + 1
      <3>1. ring[k].seq = last - Len(ring) + k
        BY <1>1
      <3>2. i \in 1..Len(read) /\ m + i - 1 = k
        BY <1>1, <2>0, <2>8, <3>1
      <3> HIDE DEF i, m
      <3> QED
        BY <2>7, <3>2
    <2>9. ReadsRing(read)
      <3> HIDE DEF m
      <3> QED
        BY <1>8, <2>7, <2>8 DEF ReadsRing
    <2> QED
      BY <1>3, <1>6, <2>2, <2>3, <2>5, <2>6, <2>9
  <1> QED
    BY <1>2, <1>7, <1>8

(* The gate only rises, to what it has seen; and unless another snapshot is asked
   for, it has the frame. *)
LEMMA PassInOrder ==
  ASSUME NEW s \in PassStates, NEW f \in Frames
  PROVE  /\ Upto(s.gate, Pass(s, f).gate) /\ Pass(s, f).gate \in {s.gate, f.id}
         /\ ~Pass(s, f).again /\ f.id[1] = Pass(s, f).gate[1] => f.id[2] <= Pass(s, f).gate[2]
         /\ Pass(s, f).gate # s.gate /\ ~Pass(s, f).again => f.event # Resync
PROOF
  <1>1. s.gate \in Ids /\ f.id \in Ids
    BY DEF PassStates, Frames
  <1>2. CASE s.again \/ Accept(s.gate, f) = "drop"
    <2>1. Pass(s, f) = s
      BY <1>2 DEF Pass
    <2> QED
      BY <1>1, <1>2, <2>1 DEF Accept, Upto, Ids
  <1>3. CASE ~(s.again \/ Accept(s.gate, f) = "drop")
    <2>1. /\ Pass(s, f).gate = IF f.id[1] = s.gate[1] THEN f.id ELSE s.gate
          /\ Pass(s, f).again <=> Accept(s.gate, f) = "resync"
      BY <1>3 DEF Pass
    <2>2. f.id[1] = s.gate[1] => s.gate[2] < f.id[2]
      BY <1>1, <1>3 DEF Accept, Ids
    <2>3. f.event.type = "resync" => Accept(s.gate, f) # "apply"
      BY DEF Accept
    <2>4. f.event = Resync => f.event.type = "resync"
      BY DEF Resync
    <2>5. Accept(s.gate, f) \in {"resync", "apply", "drop"}
          /\ (f.id[1] # s.gate[1] => Accept(s.gate, f) = "resync")
      BY DEF Accept
    <2> QED
      BY <1>1, <1>3, <2>1, <2>2, <2>3, <2>4, <2>5 DEF Upto, Ids
  <1> QED
    BY <1>2, <1>3

\* The gates between the snapshot and the last frame of the buffer.
LEMMA ReplayInOrder ==
  ASSUME NEW s0 \in PassStates, buffer \in Seq(Frames), NEW top \in Ids, Upto(s0.gate, top),
         \A i \in 1..Len(buffer) : Upto(buffer[i].id, top)
  PROVE  LET s == Replayed(s0) IN
         /\ s \in PassStates /\ Upto(s0.gate, s.gate) /\ Upto(s.gate, top)
         /\ buffer = <<>> => s = s0
         /\ buffer # <<>> /\ ~s.again /\ buffer[Len(buffer)].id[1] = s.gate[1]
              => buffer[Len(buffer)].id[2] <= s.gate[2]
PROOF
  <1>1. PICK r : /\ r[0] = s0 /\ r[Len(buffer)] = Replayed(s0)
                 /\ \A i \in 1..Len(buffer) : r[i] = Pass(r[i - 1], buffer[i])
    BY ReplayUnfolds
  <1> DEFINE Good(s) == s \in PassStates /\ Upto(s0.gate, s.gate) /\ Upto(s.gate, top)
             T == {i \in 0..Len(buffer) : ~Good(r[i])}
  <1>2. Len(buffer) \in Nat /\ \A i \in 1..Len(buffer) : buffer[i] \in Frames
    OBVIOUS
  <1>3. \A s \in PassStates : s.gate \in Ids
    BY DEF PassStates
  <1>4. ASSUME NEW s, NEW f \in Frames, Good(s), Upto(f.id, top) PROVE Good(Pass(s, f))
    <2>1. Pass(s, f) \in PassStates
      BY <1>4, PassTyped
    <2>2. Upto(s.gate, Pass(s, f).gate) /\ Pass(s, f).gate \in {s.gate, f.id}
      BY <1>4, PassInOrder
    <2>3. Upto(Pass(s, f).gate, top)
      BY <1>4, <2>2
    <2>4. Upto(s0.gate, Pass(s, f).gate)
      BY <1>3, <1>4, <2>1, <2>2, UptoIsOrder
    <2> QED
      BY <2>1, <2>3, <2>4
  <1>5. Good(r[0])
    BY <1>1, <1>3, UptoIsOrder
  <1> HIDE DEF Good
  <1>6. T = {}
    <2> SUFFICES ASSUME T # {} PROVE FALSE
      OBVIOUS
    <2>0. T \in SUBSET Nat
      BY <1>2
    <2>1. PICK m \in T : \A k \in T : m <= k
      <3> HIDE DEF T
      <3> QED
        BY <2>0, Least
    <2>2. m # 0
      BY <1>5, <2>1
    <2>3. m \in 1..Len(buffer) /\ m - 1 \in 0..Len(buffer) /\ m - 1 \notin T
      BY <1>2, <2>1, <2>2
    <2> QED
      BY <1>1, <1>2, <1>4, <2>1, <2>3
  <1>7. \A i \in 0..Len(buffer) : Good(r[i])
    BY <1>6
  <1>8. Good(Replayed(s0))
    BY <1>1, <1>2, <1>7
  <1>9. buffer = <<>> => Replayed(s0) = s0
    BY <1>1
  <1>10. ASSUME buffer # <<>>, ~Replayed(s0).again,
                buffer[Len(buffer)].id[1] = Replayed(s0).gate[1]
         PROVE  buffer[Len(buffer)].id[2] <= Replayed(s0).gate[2]
    <2> DEFINE n == Len(buffer)
    <2>1. n \in 1..n /\ n - 1 \in 0..n
      BY <1>2, <1>10
    <2>2. Replayed(s0) = Pass(r[n - 1], buffer[n]) /\ buffer[n] \in Frames
      BY <1>1, <1>2, <2>1
    <2>3. r[n - 1] \in PassStates
      BY <1>7, <2>1 DEF Good
    <2> QED
      BY <1>10, <2>2, <2>3, PassInOrder
  <1> QED
    BY <1>8, <1>9, <1>10 DEF Good

LEMMA CursorRises ==
  ASSUME TypedInv, Next
  PROVE  Cursor \in Ids /\ Cursor' \in Ids /\ Upto(Cursor, Cursor')
PROOF
  <1>1. instance \in Nat /\ last \in Nat
    BY DEF TypedInv, ClientTyped, ServerTyped, HubInv, HubTyped
  <1>2. CASE UNCHANGED hubVars
    BY <1>1, <1>2 DEF Cursor, Upto, Ids, hubVars
  <1>3. ASSUME NEW ev \in HubEvents, Publish(ev)
        PROVE  Cursor \in Ids /\ Cursor' \in Ids /\ Upto(Cursor, Cursor')
    BY <1>1, <1>3 DEF Cursor, Upto, Ids, Publish
  <1>4. CASE HubRestart
    BY <1>1, <1>4 DEF Cursor, Upto, Ids, HubRestart
  <1> QED
    BY <1>2, <1>3, <1>4, ServerKept

\* What the order is about.
orderVars == <<es, wire, next, lastId, gate, buffer, load>>

ReadTyped ==
  /\ wire \in Seq(Frames) /\ buffer \in Seq(Frames) /\ next \in Nat \ {0}
  /\ lastId \in Ids /\ gate \in Ids /\ load \in LoadStates
  /\ instance \in Nat /\ last \in Nat /\ Cursor \in Ids
  /\ \A i \in 1..Len(wire) : wire[i] \in Frames /\ wire[i].id \in Ids
  /\ \A i \in 1..Len(buffer) : buffer[i] \in Frames /\ buffer[i].id \in Ids
  /\ CursorRead => load.cursor \in Ids

LEMMA TypedRead == TypedInv => ReadTyped
PROOF
  <1> SUFFICES ASSUME TypedInv PROVE ReadTyped
    OBVIOUS
  <1>1. wire \in Seq(Frames) /\ buffer \in Seq(Frames) /\ next \in Nat \ {0}
        /\ lastId \in Ids /\ gate \in Ids /\ load \in LoadStates
        /\ instance \in Nat /\ last \in Nat
    BY DEF TypedInv, ClientTyped, ServerTyped, HubInv, HubTyped
  <1>2. Cursor \in Ids
    BY <1>1 DEF Cursor, Ids
  <1>3. \A f \in Frames : f.id \in Ids
    BY DEF Frames
  <1>4. CursorRead => load.cursor \in Ids
    BY <1>1 DEF CursorRead, LoadStates, NoLoad
  <1> QED
    BY <1>1, <1>2, <1>3, <1>4 DEF ReadTyped

LEMMA SameOrder ==
  ASSUME ReadTyped, Cursor' \in Ids, Upto(Cursor, Cursor'), OrderInv, UNCHANGED orderVars,
         es = "open" => instance' = instance /\ last' \in Nat /\ last' >= last
  PROVE  OrderInv'
PROOF
  <1>1. UNCHANGED <<es, wire, next, lastId, gate, buffer, load>>
    BY DEF orderVars
  <1>2. \A p \in Ids : Upto(p, Cursor) => Upto(p, Cursor')
    BY UptoIsOrder DEF ReadTyped
  <1>3. IdsInv'
    BY <1>1, <1>2 DEF OrderInv, IdsInv, ReadTyped, CursorRead
  <1>4. WireInv'
    BY <1>1 DEF OrderInv, WireInv, ReadTyped, Line
  <1>5. BufferInv' /\ GateInv'
    BY <1>1 DEF OrderInv, BufferInv, GateInv, Line, Reads, CursorRead, Buffering
  <1> QED
    BY <1>3, <1>4, <1>5 DEF OrderInv

LEMMA RoundOrder ==
  ASSUME TypedInv, OrderInv, StartRound \/ Lost, UNCHANGED <<hubVars, gate>>
  PROVE  OrderInv'
PROOF
  <1>1. /\ es' = "none" /\ lastId' = NoId /\ buffer' = <<>> /\ wire' = <<>> /\ gate' = gate
        /\ Cursor' = Cursor
        /\ load' = Loading("connect") \/ load' = NoLoad
    BY DEF StartRound, Lost, NoFeed, NoStream, Cursor, hubVars
  <1>2. ~CursorRead' /\ ~Reads' /\ es' # "open"
    BY <1>1 DEF CursorRead, Reads, Loading, NoLoad
  <1>3. Upto(NoId, Cursor)
    BY TypedRead DEF ReadTyped, NoId, Upto, Cursor
  <1>4. IdsInv'
    BY <1>1, <1>2, <1>3 DEF OrderInv, IdsInv
  <1> QED
    BY <1>2, <1>4 DEF OrderInv, WireInv, BufferInv, GateInv

LEMMA ReceiveOrder ==
  ASSUME TypedInv, OrderInv, Receive
  PROVE  OrderInv'
PROOF
  <1> DEFINE f == Head(wire)
  <1>0. ReadTyped /\ IdsInv /\ WireInv /\ BufferInv /\ GateInv
    BY TypedRead DEF OrderInv
  <1>1. /\ es = "open" /\ es' = "open" /\ wire # <<>> /\ wire' = Tail(wire) /\ lastId' = f.id
        /\ next' = next /\ Cursor' = Cursor /\ instance' = instance /\ last' = last
    BY DEF Receive, feedVars, hubVars, Cursor
  <1>2. /\ Line(Tail(wire)) /\ f = wire[1] /\ f \in Frames
        /\ Tail(wire) \in Seq(Frames) /\ Len(Tail(wire)) = Len(wire) - 1 /\ Len(wire) \in Nat \ {0}
        /\ \A i \in 1..Len(Tail(wire)) : i + 1 \in 1..Len(wire) /\ Tail(wire)[i] = wire[i + 1]
        /\ Tail(wire) # <<>> => Follows(wire[1].id, Tail(wire)[1])
        /\ Tail(wire) # <<>> => Tail(wire)[Len(Tail(wire))] = wire[Len(wire)]
    BY <1>0, <1>1, LineGoesOn DEF ReadTyped, WireInv
  <1>3. f.id \in Ids /\ Upto(f.id, Cursor) /\ Follows(lastId, f) /\ Upto(lastId, f.id)
    <2>1. 1 \in 1..Len(wire)
      BY <1>2
    <2>2. Upto(wire[1].id, Cursor) /\ wire[1].id \in Ids
      BY <1>0, <2>1 DEF IdsInv, ReadTyped
    <2>3. Follows(lastId, f)
      BY <1>0, <1>1, <1>2 DEF WireInv
    <2> QED
      BY <1>0, <1>2, <2>2, <2>3, FollowsRises DEF ReadTyped
  <1> HIDE DEF f
  <1>4. \A i \in 1..Len(wire') : Upto(wire'[i].id, Cursor')
    BY <1>0, <1>1, <1>2 DEF IdsInv
  <1>5. WireInv'
    <2>1. CASE Tail(wire) = <<>>
      <3>1. Len(wire) = 1
        <4> DEFINE t == Tail(wire)
        <4>1. t = <<>> /\ Len(t) = Len(wire) - 1 /\ Len(wire) \in Nat
          BY <1>2, <2>1
        <4> HIDE DEF t
        <4>2. Len(t) = 0
          BY <4>1
        <4> QED
          BY <4>1, <4>2
      <3>2. lastId' = <<instance, next - 1>> /\ next <= last + 1
        BY <1>0, <1>1, <1>2, <3>1 DEF WireInv
      <3> QED
        BY <1>1, <1>2, <2>1, <3>2 DEF WireInv
    <2>2. CASE Tail(wire) # <<>>
      <3>1. wire[Len(wire)].id = <<instance, next - 1>> /\ next <= last + 1
        BY <1>0, <1>1 DEF WireInv
      <3> QED
        BY <1>1, <1>2, <2>2, <3>1 DEF WireInv
    <2> QED
      BY <2>1, <2>2
  <1>6. CASE Buffering
    <2>1. /\ buffer' = Append(buffer, f) /\ UNCHANGED <<gate, load>>
      BY <1>6 DEF Receive, f
    <2>2. /\ Len(buffer') = Len(buffer) + 1 /\ buffer'[Len(buffer) + 1] = f
          /\ Len(buffer) \in Nat /\ buffer' # <<>>
          /\ \A i \in 1..Len(buffer) : buffer'[i] = buffer[i]
      BY <1>0, <1>2, <2>1, AppendProperties DEF ReadTyped
    <2>3. \A i \in 1..Len(buffer') : i \in 1..Len(buffer) \/ i = Len(buffer) + 1
      BY <2>2
    <2>4. IdsInv'
      <3>1. \A i \in 1..Len(buffer') : Upto(buffer'[i].id, Cursor')
        BY <1>0, <1>1, <1>3, <2>2, <2>3 DEF IdsInv
      <3> QED
        BY <1>0, <1>1, <1>3, <1>4, <2>1, <3>1 DEF IdsInv, CursorRead
    <2>5. Reads
      BY <1>1 DEF Reads
    <2>6. Line(buffer')
      BY <1>0, <1>2, <1>3, <2>1, <2>5, LineAppends DEF ReadTyped, BufferInv
    <2>7. \A i \in 1..Len(buffer') : Upto(buffer'[i].id, lastId')
      <3>1. ASSUME NEW i \in 1..Len(buffer) PROVE Upto(buffer[i].id, f.id)
        <4>1. Upto(buffer[i].id, lastId) /\ buffer[i].id \in Ids /\ lastId \in Ids
          BY <1>0, <2>5 DEF BufferInv, ReadTyped
        <4> QED
          BY <1>3, <4>1, UptoIsOrder
      <3>2. Upto(f.id, f.id)
        BY <1>3, UptoIsOrder
      <3> QED
        BY <1>1, <2>2, <2>3, <3>1, <3>2
    <2>8. ASSUME CursorRead'
          PROVE  buffer'[1].event = Resync \/ Upto(buffer'[1].id, Following(load'.cursor))
      <3>1. CursorRead
        BY <2>1, <2>8 DEF CursorRead
      <3>2. CASE buffer = <<>>
        <4>1. Upto(lastId, load.cursor) /\ buffer'[1] = f /\ load.cursor \in Ids
          BY <1>0, <1>6, <2>2, <2>5, <3>1, <3>2 DEF BufferInv, ReadTyped
        <4>2. Upto(Following(lastId), Following(load.cursor))
          BY <1>0, <4>1, BeforeFollowing DEF ReadTyped
        <4> QED
          BY <1>3, <2>1, <4>1, <4>2 DEF Follows
      <3>3. CASE buffer # <<>>
        <4>1. buffer'[1] = buffer[1]
          BY <1>0, <2>2, <3>3 DEF ReadTyped
        <4> QED
          BY <1>0, <1>6, <2>1, <2>5, <3>1, <3>3, <4>1 DEF BufferInv
      <3> QED
        BY <3>2, <3>3
    <2>9. BufferInv'
      BY <1>1, <2>2, <2>6, <2>7, <2>8 DEF BufferInv
    <2>10. GateInv'
      BY <1>6, <2>1 DEF GateInv, Buffering
    <2> QED
      BY <1>5, <2>4, <2>9, <2>10 DEF OrderInv
  <1>7. CASE ~Buffering
    <2> DEFINE s0 == [gate |-> gate, view |-> view, again |-> FALSE]
               s == Pass(s0, f)
    <2>1. s0 \in PassStates /\ s0.gate = gate
      BY DEF TypedInv, ClientTyped, PassStates
    <2>2. /\ gate' = s.gate /\ buffer' = <<>>
          /\ load' = IF s.again THEN Loading("resync") ELSE NoLoad
      BY <1>7 DEF Receive, Take, f
    <2> HIDE DEF s0
    <2>3. /\ s.gate \in {gate, f.id}
          /\ ~s.again /\ f.id[1] = s.gate[1] => f.id[2] <= s.gate[2]
      BY <1>2, <2>1, PassInOrder
    <2> HIDE DEF s
    <2>4. ~CursorRead' /\ (~Buffering' => ~s.again)
      BY <2>2 DEF CursorRead, Loading, NoLoad, Buffering
    <2>5. IdsInv'
      BY <1>0, <1>1, <1>3, <1>4, <2>2, <2>3, <2>4 DEF IdsInv
    <2>6. BufferInv'
      BY <2>2, <2>4 DEF BufferInv, Line
    <2>7. GateInv'
      BY <1>1, <2>2, <2>3, <2>4 DEF GateInv
    <2> QED
      BY <1>5, <2>5, <2>6, <2>7 DEF OrderInv
  <1> QED
    BY <1>6, <1>7

LEMMA ResyncOrder ==
  ASSUME TypedInv, OrderInv, Resynced
  PROVE  OrderInv' /\ Upto(gate, gate')
PROOF
  <1> DEFINE s0 == [gate |-> load.cursor, view |-> load.jobs, again |-> FALSE]
             s == Replayed(s0)
  <1>0. ReadTyped /\ IdsInv /\ WireInv /\ BufferInv /\ GateInv
    BY TypedRead DEF OrderInv
  <1>1. load.phase = "built" /\ load.kind = "resync" /\ CursorRead /\ Buffering
    BY DEF Resynced, CursorRead, Buffering
  <1>2. load.cursor \in Ids /\ Upto(load.cursor, Cursor) /\ Upto(gate, load.cursor)
    BY <1>0, <1>1 DEF ReadTyped, IdsInv
  <1>3. s0 \in PassStates /\ s0.gate = load.cursor /\ ~s0.again
    BY <1>1 DEF TypedInv, ClientTyped, LoadStates, NoLoad, PassStates
  <1>4. Take(s)
    BY DEF Resynced, SnapshotCursor
  <1> HIDE DEF s0
  <1>5. /\ Upto(load.cursor, s.gate) /\ Upto(s.gate, Cursor) /\ s \in PassStates
        /\ buffer = <<>> => s = s0
        /\ buffer # <<>> /\ ~s.again /\ buffer[Len(buffer)].id[1] = s.gate[1]
             => buffer[Len(buffer)].id[2] <= s.gate[2]
    BY <1>0, <1>2, <1>3, ReplayInOrder DEF ReadTyped, IdsInv
  <1> HIDE DEF s
  <1>6. /\ UNCHANGED <<wire, next, es, lastId>> /\ Cursor' = Cursor
        /\ instance' = instance /\ last' = last
    BY DEF Resynced, feedVars, hubVars, streamVars, Cursor
  <1>7. /\ gate' = s.gate /\ buffer' = <<>> /\ load' = IF s.again THEN Loading("resync") ELSE NoLoad
    BY <1>4 DEF Take
  <1>8. ~CursorRead' /\ (~Buffering' => ~s.again)
    BY <1>7 DEF CursorRead, Loading, NoLoad, Buffering
  <1>9. gate' \in Ids
    BY <1>5, <1>7 DEF PassStates
  <1>10. IdsInv'
    BY <1>0, <1>5, <1>6, <1>7, <1>8 DEF IdsInv
  <1>11. WireInv'
    BY <1>0, <1>6 DEF WireInv, Line
  <1>12. BufferInv'
    BY <1>7, <1>8 DEF BufferInv, Line
  <1>13. GateInv'
    <2> SUFFICES ASSUME Reads, ~s.again, lastId[1] = s.gate[1] PROVE lastId[2] <= s.gate[2]
      BY <1>6, <1>7, <1>8 DEF GateInv, Reads
    <2>1. CASE buffer = <<>>
      <3>1. s.gate = load.cursor /\ Upto(lastId, load.cursor)
        BY <1>0, <1>1, <1>3, <1>5, <2>1 DEF BufferInv
      <3> QED
        BY <1>0, <1>2, <3>1 DEF Upto, ReadTyped, Ids
    <2>2. CASE buffer # <<>>
      BY <1>0, <1>5, <2>2 DEF BufferInv
    <2> QED
      BY <2>1, <2>2
  <1>14. Upto(gate, gate')
    <2>1. gate \in Ids /\ load.cursor \in Ids /\ gate' \in Ids
      BY <1>0, <1>2, <1>9 DEF ReadTyped
    <2>2. Upto(gate, load.cursor) /\ Upto(load.cursor, gate')
      BY <1>2, <1>5, <1>7
    <2> QED
      BY <2>1, <2>2, UptoIsOrder
  <1> QED
    BY <1>10, <1>11, <1>12, <1>13, <1>14 DEF OrderInv

LEMMA PumpOrder ==
  ASSUME TypedInv, OrderInv, Pump
  PROVE  OrderInv'
PROOF
  <1>0. ReadTyped /\ IdsInv /\ WireInv /\ BufferInv /\ GateInv
    BY TypedRead DEF OrderInv
  <1>1. PICK read \in Seq(Frames) :
           /\ wire' = wire \o read /\ read # <<>> /\ Line(read)
           /\ Follows(<<instance, next - 1>>, read[1])
           /\ read[Len(read)].id = Cursor
           /\ \A i \in 1..Len(read) : Upto(read[i].id, Cursor)
    BY PumpReads DEF TypedInv
  <1>2. /\ es = "open" /\ next' = last + 1
        /\ UNCHANGED <<es, lastId, gate, buffer, load>> /\ Cursor' = Cursor
        /\ instance' = instance /\ last' = last
    BY DEF Pump, feedVars, hubVars, clientVars, Cursor
  <1>3. /\ Len(wire') = Len(wire) + Len(read) /\ Len(wire) \in Nat /\ Len(read) \in Nat \ {0}
        /\ \A i \in 1..Len(wire) : wire'[i] = wire[i]
        /\ \A i \in 1..Len(read) : wire'[Len(wire) + i] = read[i]
    BY <1>0, <1>1, ConcatProperties DEF ReadTyped
  <1>4. \A i \in 1..Len(wire') : Upto(wire'[i].id, Cursor)
    <2> SUFFICES ASSUME NEW i \in 1..Len(wire') PROVE Upto(wire'[i].id, Cursor)
      OBVIOUS
    <2>1. CASE i \in 1..Len(wire)
      BY <1>0, <1>3, <2>1 DEF IdsInv
    <2>2. CASE i \notin 1..Len(wire)
      <3>1. i - Len(wire) \in 1..Len(read) /\ i = Len(wire) + (i - Len(wire))
        BY <1>3, <2>2
      <3> QED
        BY <1>1, <1>3, <3>1
    <2> QED
      BY <2>1, <2>2
  <1>5. IdsInv'
    BY <1>0, <1>2, <1>4 DEF IdsInv, CursorRead
  <1>6. Line(wire')
    <2>1. wire # <<>> => Follows(wire[Len(wire)].id, read[1])
      BY <1>0, <1>1, <1>2 DEF WireInv
    <2> QED
      BY <1>0, <1>1, <1>2, <2>1, LinesJoin DEF WireInv, ReadTyped
  <1>7. Follows(lastId, wire'[1])
    <2>1. CASE wire = <<>>
      <3>1. wire'[1] = read[1]
        BY <1>3, <2>1
      <3> QED
        BY <1>0, <1>1, <1>2, <2>1, <3>1 DEF WireInv
    <2>2. CASE wire # <<>>
      <3>1. wire'[1] = wire[1]
        BY <1>0, <1>3, <2>2 DEF ReadTyped
      <3> QED
        BY <1>0, <1>2, <2>2, <3>1 DEF WireInv
    <2> QED
      BY <2>1, <2>2
  <1>8. wire' # <<>> /\ wire'[Len(wire')].id = <<instance, next' - 1>>
    <2>1. wire'[Len(wire')] = read[Len(read)] /\ Len(wire') # 0
      BY <1>3
    <2>2. next' - 1 = last
      BY <1>0, <1>2 DEF ReadTyped
    <2>3. wire' # <<>>
      BY <2>1
    <2> QED
      BY <1>1, <2>1, <2>2, <2>3 DEF Cursor
  <1>9. WireInv'
    BY <1>0, <1>2, <1>6, <1>7, <1>8 DEF WireInv, ReadTyped
  <1>10. BufferInv' /\ GateInv'
    BY <1>0, <1>2 DEF BufferInv, GateInv, Reads, CursorRead, Buffering, Line
  <1> QED
    BY <1>5, <1>9, <1>10 DEF OrderInv

LEMMA OpenOrder ==
  ASSUME TypedInv, OrderInv, StreamOpens
  PROVE  OrderInv'
PROOF
  <1>0. ReadTyped /\ IdsInv /\ WireInv /\ BufferInv /\ GateInv
    BY TypedRead DEF OrderInv
  <1>1. /\ es = "connecting" /\ es' = "open" /\ next' = StartAt(lastId)
        /\ wire' = IF Honours(lastId) THEN <<>> ELSE <<[id |-> Cursor, event |-> Resync]>>
        /\ UNCHANGED <<lastId, gate, buffer, load>> /\ Cursor' = Cursor
        /\ instance' = instance /\ last' = last
    BY DEF StreamOpens, feedVars, hubVars, Cursor
  <1>2. IdsInv'
    <2>1. \A i \in 1..Len(wire') : Upto(wire'[i].id, Cursor)
      BY <1>0, <1>1, UptoIsOrder DEF ReadTyped
    <2> QED
      BY <1>0, <1>1, <2>1 DEF IdsInv, CursorRead
  <1>3. WireInv'
    <2>1. CASE Honours(lastId)
      <3>1. /\ wire' = <<>> /\ next' = lastId[2] + 1 /\ lastId[1] = instance /\ lastId[2] <= last
        BY <1>1, <2>1 DEF StartAt, Honours
      <3>2. lastId = <<instance, next' - 1>> /\ next' <= last + 1
        BY <1>0, <3>1 DEF ReadTyped, Ids
      <3> QED
        BY <1>1, <3>1, <3>2 DEF WireInv, Line
    <2>2. CASE ~Honours(lastId)
      <3>1. /\ Len(wire') = 1 /\ wire'[1] = [id |-> Cursor, event |-> Resync] /\ next' = last + 1
            /\ wire' # <<>>
        BY <1>1, <2>2 DEF StartAt
      <3>2. Before(lastId, Cursor)
        <4>1. Upto(lastId, Cursor) /\ lastId # Cursor
          BY <1>0, <2>2 DEF IdsInv, Honours, HeldSince, Cursor, ReadTyped
        <4> QED
          BY <1>0, <4>1, SMTT(30) DEF Upto, Before, ReadTyped, Ids
      <3>3. Cursor = <<instance, next' - 1>> /\ next' <= last + 1
        BY <1>0, <3>1 DEF Cursor, ReadTyped
      <3> QED
        BY <1>1, <3>1, <3>2, <3>3 DEF WireInv, Line, Follows
    <2> QED
      BY <2>1, <2>2
  <1>4. BufferInv' /\ GateInv'
    BY <1>0, <1>1 DEF BufferInv, GateInv, Reads, CursorRead, Buffering, Line
  <1> QED
    BY <1>2, <1>3, <1>4 DEF OrderInv

LEMMA OrderSteps ==
  ASSUME TypedInv, OrderInv, Next
  PROVE  OrderInv'
PROOF
  <1>0. ReadTyped /\ IdsInv /\ WireInv /\ BufferInv /\ GateInv /\ PhaseInv
    BY TypedRead DEF OrderInv, TypedInv
  <1>1. Cursor' \in Ids /\ Upto(Cursor, Cursor')
    BY CursorRises
  <1>2. CASE ServerStep
    <2>1. UNCHANGED orderVars
      BY <1>2 DEF ServerStep, streamVars, clientVars, orderVars
    <2>2. instance' = instance /\ last' \in Nat /\ last' >= last
      <3>1. HubStep
        BY <1>2, ServerSteps DEF ServerStep, TypedInv
      <3> QED
        BY <1>0, <3>1 DEF HubStep, hubVars, Publish, ReadTyped
    <2> QED
      BY <1>0, <1>1, <2>1, <2>2, SameOrder
  <1>3. CASE Start
    <2>1. UNCHANGED orderVars /\ es # "open"
      BY <1>0, <1>3 DEF Start, streamVars, clientVars, orderVars, PhaseInv
    <2> QED
      BY <1>0, <1>1, <2>1, SameOrder
  <1>4. CASE SignIn \/ ProbeAnswers \/ Tracked \/ \E j \in Jobs : Ask(j)
    <2>1. UNCHANGED orderVars /\ instance' = instance /\ last' = last
      BY <1>4 DEF SignIn, ProbeAnswers, Tracked, Ask, streamVars, orderVars, feedVars, hubVars
    <2> QED
      BY <1>0, <1>1, <2>1, SameOrder DEF ReadTyped
  <1>5. CASE Connect \/ LoadFails \/ RequestFails
    <2>1. (StartRound \/ Lost) /\ UNCHANGED <<hubVars, gate>>
      BY <1>5 DEF Connect, LoadFails, RequestFails, feedVars
    <2> QED
      BY <2>1, RoundOrder
  <1>6. CASE Refresh
    <2>1. CASE StartRound
      <3>1. UNCHANGED <<hubVars, gate>>
        BY <1>6 DEF Refresh, feedVars
      <3> QED
        BY <2>1, <3>1, RoundOrder
    <2>2. CASE /\ es # "none" /\ ~Buffering
               /\ buffer' = <<>> /\ load' = Loading("resync")
               /\ UNCHANGED <<es, streamVars, lastId, retry, probe>>
      <3>1. /\ UNCHANGED <<es, wire, next, lastId, gate>> /\ Cursor' = Cursor
            /\ instance' = instance /\ last' = last
        BY <1>6, <2>2 DEF Refresh, feedVars, hubVars, streamVars, Cursor
      <3>2. ~CursorRead' /\ Buffering' /\ buffer' = <<>>
        BY <2>2 DEF CursorRead, Loading, Buffering
      <3>3. IdsInv'
        BY <1>0, <3>1, <3>2 DEF IdsInv
      <3>4. WireInv'
        BY <1>0, <3>1 DEF WireInv, Line
      <3>5. BufferInv' /\ GateInv'
        BY <3>2 DEF BufferInv, GateInv, Line
      <3> QED
        BY <3>3, <3>4, <3>5 DEF OrderInv
    <2> QED
      BY <1>6, <2>1, <2>2 DEF Refresh
  <1>7. CASE Stop \/ StreamDrops \/ StreamFails
    <2>1. /\ wire' = <<>> /\ UNCHANGED <<gate, buffer, load>> /\ Cursor' = Cursor
          /\ es' # "open"
          /\ \/ lastId' = lastId /\ (Reads' => Reads)
             \/ lastId' = NoId /\ ~Reads'
      <3>1. CASE Stop
        BY <1>0, <3>1 DEF Stop, NoStream, hubVars, Cursor, Reads
      <3>2. CASE StreamDrops
        BY <3>2 DEF StreamDrops, NoStream, feedVars, hubVars, Cursor, Reads
      <3>3. CASE StreamFails
        BY <1>0, <3>3 DEF StreamFails, feedVars, hubVars, streamVars, Cursor, Reads, PhaseInv
      <3> QED
        BY <1>7, <3>1, <3>2, <3>3
    <2>2. Upto(NoId, Cursor)
      BY <1>0 DEF ReadTyped, NoId, Upto, Cursor
    <2>3. IdsInv'
      BY <1>0, <2>1, <2>2 DEF IdsInv, CursorRead
    <2>4. WireInv'
      BY <2>1 DEF WireInv
    <2>5. BufferInv' /\ GateInv'
      BY <1>0, <2>1 DEF BufferInv, GateInv, CursorRead, Buffering, Line
    <2> QED
      BY <2>3, <2>4, <2>5 DEF OrderInv
  <1>8. CASE ReadCursor
    <2>1. /\ UNCHANGED <<wire, next, es, lastId, gate, buffer>> /\ Cursor' = Cursor
          /\ instance' = instance /\ last' = last
          /\ load'.cursor = Cursor /\ load'.kind = load.kind
      BY <1>8 DEF ReadCursor, feedVars, hubVars, streamVars, Cursor
    <2>2. IdsInv'
      BY <1>0, <2>1, UptoIsOrder DEF IdsInv, ReadTyped
    <2>3. WireInv'
      BY <1>0, <2>1 DEF WireInv, Line
    <2>4. BufferInv'
      <3>1. buffer # <<>> => Upto(buffer[1].id, Following(Cursor))
        <4> SUFFICES ASSUME buffer # <<>> PROVE Upto(buffer[1].id, Following(Cursor))
          OBVIOUS
        <4>1. 1 \in 1..Len(buffer)
          BY <1>0 DEF ReadTyped
        <4>2. buffer[1].id \in Ids /\ Upto(buffer[1].id, Cursor)
          BY <1>0, <4>1 DEF ReadTyped, IdsInv
        <4> QED
          BY <1>0, <4>2, UptoIsOrder DEF ReadTyped
      <3> QED
        BY <1>0, <2>1, <3>1 DEF BufferInv, Reads, Line, IdsInv
    <2>5. GateInv'
      BY <1>0, <2>1 DEF GateInv, Reads, Buffering
    <2> QED
      BY <2>2, <2>3, <2>4, <2>5 DEF OrderInv
  <1>9. CASE BuildSnapshot
    <2>1. /\ UNCHANGED <<wire, next, es, lastId, gate, buffer>> /\ Cursor' = Cursor
          /\ instance' = instance /\ last' = last
          /\ load'.cursor = load.cursor /\ load'.kind = load.kind /\ CursorRead
      BY <1>9 DEF BuildSnapshot, feedVars, hubVars, streamVars, Cursor, CursorRead
    <2>2. IdsInv'
      BY <1>0, <2>1 DEF IdsInv
    <2>3. WireInv' /\ GateInv'
      BY <1>0, <2>1 DEF WireInv, Line, GateInv, Reads, Buffering
    <2>4. BufferInv'
      BY <1>0, <2>1 DEF BufferInv, Reads, Line, Buffering
    <2> QED
      BY <2>2, <2>3, <2>4 DEF OrderInv
  <1>10. CASE Connected
    <2>1. /\ gate' = load.cursor /\ lastId' = load.cursor /\ es' = "connecting" /\ load' = NoLoad
          /\ UNCHANGED <<wire, buffer>> /\ Cursor' = Cursor
          /\ load.kind = "connect" /\ CursorRead
      BY <1>10 DEF Connected, SnapshotCursor, feedVars, hubVars, streamVars, Cursor, CursorRead
    <2>2. ~CursorRead' /\ buffer' = <<>>
      BY <1>0, <2>1 DEF CursorRead, NoLoad, PhaseInv, Buffering
    <2>3. IdsInv'
      BY <1>0, <2>1, <2>2 DEF IdsInv
    <2>4. WireInv' /\ BufferInv'
      BY <2>1, <2>2 DEF WireInv, BufferInv, Line
    <2>5. GateInv'
      BY <1>0, <2>1 DEF GateInv, ReadTyped, Ids
    <2> QED
      BY <2>3, <2>4, <2>5 DEF OrderInv
  <1>11. CASE Receive
    BY <1>11, ReceiveOrder
  <1>12. CASE Resynced
    BY <1>12, ResyncOrder
  <1>13. CASE Pump
    BY <1>13, PumpOrder
  <1>14. CASE StreamOpens
    BY <1>14, OpenOrder
  <1> QED
    BY <1>2, <1>3, <1>4, <1>5, <1>6, <1>7, <1>8, <1>9, <1>10, <1>11, <1>12, <1>13, <1>14 DEF Next

LEMMA InitOrder == Init => OrderInv
PROOF
  <1> SUFFICES ASSUME Init PROVE OrderInv
    OBVIOUS
  <1>1. /\ wire = <<>> /\ buffer = <<>> /\ es = "none" /\ lastId = <<0, 0>> /\ gate = <<1, 0>>
        /\ Cursor = <<1, 0>> /\ ~CursorRead
    BY DEF Init, FeedInit, HubInit, Cursor, CursorRead, NoLoad, NoId
  <1>2. IdsInv
    BY <1>1 DEF IdsInv, Upto
  <1> QED
    BY <1>1, <1>2 DEF OrderInv, WireInv, BufferInv, GateInv, Reads

StreamInv == TypedInv /\ OrderInv

LEMMA InvariantOfStream == Spec => []StreamInv
PROOF
  <1>1. Init => StreamInv
    BY InitTyped, InitOrder DEF StreamInv
  <1>2. StreamInv /\ [Next]_vars => StreamInv'
    <2> SUFFICES ASSUME StreamInv, [Next]_vars PROVE StreamInv'
      OBVIOUS
    <2>1. TypedInv' /\ TypedInv /\ OrderInv
      BY TypedKept DEF StreamInv
    <2>2. CASE Next
      BY <2>1, <2>2, OrderSteps DEF StreamInv
    <2>3. CASE UNCHANGED vars
      <3>1. UNCHANGED orderVars /\ Cursor' = Cursor /\ instance' = instance /\ last' = last
        BY <2>3 DEF vars, streamVars, clientVars, feedVars, hubVars, orderVars, Cursor
      <3>2. ReadTyped
        BY <2>1, TypedRead
      <3>3. Cursor' \in Ids /\ Upto(Cursor, Cursor') /\ last' \in Nat /\ last' >= last
        BY <3>1, <3>2, UptoIsOrder DEF ReadTyped
      <3> QED
        BY <2>1, <3>1, <3>2, <3>3, SameOrder DEF StreamInv
    <2> QED
      BY <2>2, <2>3
  <1> QED
    BY <1>1, <1>2, PTL DEF Spec

LEMMA LinesSkipNothing ==
  ASSUME TypedInv, OrderInv
  PROVE  NothingIsSkipped
PROOF
  <1>0. ReadTyped /\ IdsInv /\ WireInv /\ BufferInv /\ GateInv /\ PhaseInv
    BY TypedRead DEF OrderInv, TypedInv
  <1> SUFFICES ASSUME Reads, Base[1] = Reached[1], Buffering => CursorRead,
                      NEW seq \in (Base[2] + 1)..Reached[2]
               PROVE  \E f \in OnTheWay :
                        /\ f.id[1] = Base[1]
                        /\ f.id[2] = seq \/ (f.event = Resync /\ f.id[2] >= seq)
    BY DEF NothingIsSkipped, Reads, CursorRead
  <1>1. /\ Base = IF Buffering THEN load.cursor ELSE gate
        /\ Base \in Ids
    <2>1. Buffering => load.phase # "sent"
      BY DEF CursorRead
    <2> QED
      BY <1>0, <2>1 DEF Base, ReadTyped
  <1>2. /\ Reached = (IF wire = <<>> THEN lastId ELSE wire[Len(wire)].id)
        /\ Reached \in Ids /\ (es = "open" => Reached[1] = instance)
    <2>1. CASE es = "open"
      BY <1>0, <2>1 DEF Reached, WireInv, ReadTyped, Ids
    <2>2. CASE es # "open"
      BY <1>0, <2>2 DEF Reached, PhaseInv, ReadTyped
    <2> QED
      BY <2>1, <2>2
  <1> DEFINE x == <<Base[1], seq>>
  <1>3. x \in Ids /\ Before(Base, x) /\ Upto(x, Reached) /\ seq \in Nat
        /\ x[1] = Base[1] /\ x[2] = seq
    BY <1>1, <1>2 DEF Ids, Before, Upto
  <1>4. ASSUME NEW f \in OnTheWay, f.id \in Ids, Upto(x, f.id), f.id = x \/ f.event = Resync,
               f.id[1] <= Reached[1]
        PROVE  \E g \in OnTheWay :
                  /\ g.id[1] = Base[1]
                  /\ g.id[2] = seq \/ (g.event = Resync /\ g.id[2] >= seq)
    <2>1. f.id[1] = Base[1] /\ (f.id[2] = seq \/ (f.event = Resync /\ f.id[2] >= seq))
      BY <1>1, <1>2, <1>3, <1>4 DEF Upto, Ids
    <2> QED
      BY <2>1
  <1> HIDE DEF x
  <1>8. lastId[1] <= Reached[1]
    <2>1. CASE es = "open"
      <3>1. lastId \in Ids /\ Upto(lastId, Cursor) /\ Cursor \in Ids /\ Cursor[1] = Reached[1]
        BY <1>0, <1>2, <2>1 DEF ReadTyped, IdsInv, Cursor
      <3> QED
        BY <3>1 DEF Upto, Ids
    <2>2. CASE es # "open"
      BY <1>0, <2>2 DEF Reached, ReadTyped, Ids
    <2> QED
      BY <2>1, <2>2
  \* The event is still on the wire.
  <1>5. ASSUME Before(lastId, x), Upto(x, Reached)
        PROVE  \E f \in OnTheWay : f.id \in Ids /\ Upto(x, f.id) /\ f.id[1] <= Reached[1]
                                  /\ (f.id = x \/ f.event = Resync)
    <2>1. wire # <<>> /\ es = "open"
      <3>1. CASE wire = <<>>
        BY <1>0, <1>2, <1>3, <1>5, <3>1 DEF Before, Upto, ReadTyped, Ids
      <3> QED
        BY <1>0, <3>1 DEF PhaseInv
    <2>2. Line(wire) /\ Follows(lastId, wire[1])
      BY <1>0, <2>1 DEF WireInv
    <2>3. wire[1].event = Resync \/ Upto(wire[1].id, x)
      BY <1>0, <1>3, <1>5, <2>2, BeforeFollowing DEF Follows, ReadTyped
    <2>4. wire \in Seq(Frames) /\ Upto(x, wire[Len(wire)].id)
      BY <1>0, <1>2, <1>5, <2>1 DEF ReadTyped
    <2>5. PICK i \in 1..Len(wire) :
            Upto(x, wire[i].id) /\ (wire[i].id = x \/ wire[i].event = Resync)
      BY <1>3, <2>1, <2>2, <2>3, <2>4, LineCovers
    <2>6. wire[i] \in OnTheWay
      BY <2>4 DEF OnTheWay, Range
    <2>7. wire[i].id \in Ids /\ wire[i].id[1] <= Reached[1]
      <3>1. wire[i].id \in Ids /\ Upto(wire[i].id, Cursor) /\ Cursor \in Ids
            /\ Cursor[1] = Reached[1]
        BY <1>0, <1>2, <2>1 DEF ReadTyped, IdsInv, Cursor
      <3> QED
        BY <3>1 DEF Upto, Ids
    <2> QED
      BY <2>5, <2>6, <2>7
  <1>6. CASE ~Buffering
    <2>1. Before(lastId, x)
      <3>1. Base = gate /\ lastId[1] <= Base[1] /\ lastId \in Ids
        BY <1>0, <1>1, <1>6, <1>8 DEF ReadTyped
      <3>2. lastId[1] = gate[1] => lastId[2] <= gate[2]
        BY <1>0, <1>6 DEF GateInv
      <3> QED
        BY <1>1, <1>3, <3>1, <3>2 DEF Before, Ids
    <2> QED
      BY <1>3, <1>4, <1>5, <2>1
  <1>7. CASE Buffering
    <2>1. CASE Before(lastId, x)
      BY <1>3, <1>4, <1>5, <2>1
    <2>2. CASE ~Before(lastId, x)
      <3>1. Upto(x, lastId)
        BY <1>0, <1>3, <2>2, UptoIsOrder DEF ReadTyped
      <3>2. buffer # <<>>
        <4>1. CASE buffer = <<>>
          BY <1>0, <1>1, <1>3, <1>7, <3>1, <4>1, SMTT(30)
          DEF BufferInv, Upto, Before, ReadTyped, Ids
        <4> QED
          BY <4>1
      <3>3. /\ Line(buffer) /\ buffer[Len(buffer)].id = lastId
            /\ buffer[1].event = Resync \/ Upto(buffer[1].id, Following(Base))
        BY <1>0, <1>1, <1>7, <3>2 DEF BufferInv
      <3>4. Upto(Following(Base), x) /\ Following(Base) \in Ids
        BY <1>1, <1>3, BeforeFollowing, UptoIsOrder
      <3>5. buffer \in Seq(Frames) /\ 1 \in 1..Len(buffer) /\ buffer[1].id \in Ids
        BY <1>0, <3>2 DEF ReadTyped
      <3>6. buffer[1].event = Resync \/ Upto(buffer[1].id, x)
        BY <1>3, <3>3, <3>4, <3>5, UptoIsOrder
      <3>7. PICK i \in 1..Len(buffer) :
              Upto(x, buffer[i].id) /\ (buffer[i].id = x \/ buffer[i].event = Resync)
        BY <1>3, <3>1, <3>2, <3>3, <3>5, <3>6, LineCovers
      <3>8. buffer[i] \in OnTheWay
        BY <3>5 DEF OnTheWay, Range
      <3>9. buffer[i].id \in Ids /\ buffer[i].id[1] <= Reached[1]
        <4>1. buffer[i].id \in Ids /\ Upto(buffer[i].id, lastId)
          BY <1>0 DEF ReadTyped, BufferInv
        <4>2. lastId[1] <= Reached[1] /\ lastId \in Ids
          BY <1>0, <1>8 DEF ReadTyped
        <4> QED
          BY <1>2, <4>1, <4>2 DEF Upto, Ids
      <3> QED
        BY <1>4, <3>7, <3>8, <3>9
    <2> QED
      BY <2>1, <2>2
  <1> QED
    BY <1>6, <1>7

(* No event is dropped without a resync: each event between what the workbench
   has and where its stream is read is on its way, or a resync after it is,
   through reconnects, restarts of the server and resyncs (events.rs, pump and
   start; events.ts, EventFeed). *)
THEOREM NothingIsDropped == Spec => []NothingIsSkipped
PROOF
  <1>1. Spec => []StreamInv
    BY InvariantOfStream
  <1>2. StreamInv => NothingIsSkipped
    BY LinesSkipNothing DEF StreamInv
  <1> QED
    BY <1>1, <1>2, PTL

Ordered ==
  gate'[1] = gate[1] =>
    /\ gate'[2] >= gate[2]
    /\ (~Buffering /\ ~Buffering' /\ es = "open") => gate'[2] <= gate[2] + 1

LEMMA StepsApplyInOrder ==
  ASSUME StreamInv, [Next]_vars
  PROVE  Ordered
PROOF
  <1>0. ReadTyped /\ IdsInv /\ WireInv /\ BufferInv /\ GateInv /\ PhaseInv /\ TypedInv /\ OrderInv
    BY TypedRead DEF StreamInv, OrderInv, TypedInv
  <1>1. CASE gate' = gate
    BY <1>0, <1>1 DEF Ordered, ReadTyped, Ids
  <1>2. CASE Receive
    <2> DEFINE f == Head(wire)
               s0 == [gate |-> gate, view |-> view, again |-> FALSE]
               s == Pass(s0, f)
    <2>1. CASE Buffering
      BY <1>1, <1>2, <2>1 DEF Receive
    <2>2. CASE ~Buffering
      <3>1. s0 \in PassStates /\ s0.gate = gate
        BY <1>0 DEF TypedInv, ClientTyped, PassStates
      <3>2. /\ gate' = s.gate /\ load' = IF s.again THEN Loading("resync") ELSE NoLoad
            /\ es = "open" /\ wire # <<>>
        BY <1>2, <2>2 DEF Receive, Take
      <3> HIDE DEF s0
      <3>3. f \in Frames /\ f = wire[1] /\ f.id \in Ids /\ Follows(lastId, f)
        <4>1. wire \in Seq(Frames) /\ 1 \in 1..Len(wire)
          BY <1>0, <3>2 DEF ReadTyped
        <4>2. f = wire[1]
          BY <4>1, <3>2
        <4> QED
          BY <1>0, <3>2, <4>1, <4>2 DEF ReadTyped, WireInv
      <3> HIDE DEF f
      <3>4. /\ Upto(gate, s.gate) /\ s.gate \in {gate, f.id}
            /\ s.gate # gate /\ ~s.again => f.event # Resync
        BY <3>1, <3>3, PassInOrder
      <3> HIDE DEF s
      <3>5. ~Buffering' => ~s.again
        BY <3>2 DEF Buffering, Loading
      <3>6. gate \in Ids /\ gate' \in Ids
        BY <1>0, <3>2, <3>3, <3>4 DEF ReadTyped
      <3>7. gate'[1] = gate[1] => gate'[2] >= gate[2]
        BY <3>2, <3>4, <3>6 DEF Upto, Ids
      <3>8. ASSUME gate' # gate, gate'[1] = gate[1], ~Buffering' PROVE gate'[2] <= gate[2] + 1
        <4>1. gate' = f.id /\ f.id = Following(lastId)
          BY <3>2, <3>3, <3>4, <3>5, <3>8 DEF Follows
        <4>2. lastId[1] = gate[1] /\ gate'[2] = lastId[2] + 1
          BY <3>8, <4>1 DEF Following
        <4>3. lastId[2] <= gate[2]
          BY <1>0, <2>2, <3>2, <4>2 DEF GateInv, Reads
        <4> QED
          BY <1>0, <3>6, <4>2, <4>3 DEF ReadTyped, Ids
      <3> QED
        BY <1>1, <3>7, <3>8 DEF Ordered
    <2> QED
      BY <2>1, <2>2
  <1>3. CASE Resynced
    <2>1. Upto(gate, gate') /\ gate' \in Ids /\ Buffering
      <3>1. TypedInv'
        BY <1>0, TypedKept
      <3>2. gate' \in Ids
        BY <3>1 DEF TypedInv, ClientTyped
      <3> QED
        BY <1>0, <1>3, <3>2, ResyncOrder DEF Resynced, Buffering
    <2> QED
      BY <1>0, <2>1 DEF Ordered, Upto, ReadTyped, Ids
  <1>4. CASE Connected
    <2>1. gate' = load.cursor /\ load.kind = "connect" /\ CursorRead
      BY <1>4 DEF Connected, SnapshotCursor, CursorRead
    <2>2. Upto(gate, gate') /\ es # "open" /\ gate' \in Ids
      BY <1>0, <2>1 DEF IdsInv, PhaseInv, ReadTyped
    <2> QED
      BY <1>0, <2>2 DEF Ordered, Upto, ReadTyped, Ids
  <1>5. CASE ~Receive /\ ~Resynced /\ ~Connected
    <2>1. gate' = gate
      BY <1>5
      DEF Next, vars, ServerStep, Stop, Start, SignIn, Pump, ReadCursor, BuildSnapshot, StreamOpens,
          StreamDrops, StreamFails, ProbeAnswers, RequestFails, Connect, LoadFails, Tracked,
          Refresh, Ask, clientVars
    <2> QED
      BY <1>1, <2>1
  <1> QED
    BY <1>2, <1>3, <1>4, <1>5

(* Outside a resync the events of one server process are applied one after
   another without a gap, and a snapshot never takes the workbench back to
   events it has applied (events.ts, EventGate and EventFeed.resync). *)
THEOREM EventsAreAppliedInOrder == Spec => AppliedInOrder
PROOF
  <1>1. Spec => []StreamInv
    BY InvariantOfStream
  <1>2. StreamInv /\ [Next]_vars =>
          [gate'[1] = gate[1] =>
             /\ gate'[2] >= gate[2]
             /\ (~Buffering /\ ~Buffering' /\ es = "open") => gate'[2] <= gate[2] + 1]_vars
    BY StepsApplyInOrder DEF Ordered
  <1> QED
    BY <1>1, <1>2, PTL DEF Spec, AppliedInOrder

-----------------------------------------------------------------------------
(* The view learns from what it is told *)

\* Before is a strict order that goes with Upto.
LEMMA BeforeIsOrder ==
  ASSUME NEW p \in Ids, NEW q \in Ids, NEW r \in Ids
  PROVE  /\ Before(p, q) /\ Before(q, r) => Before(p, r)
         /\ Before(p, q) /\ Upto(q, r) => Before(p, r)
         /\ Upto(p, q) /\ Before(q, r) => Before(p, r)
         /\ ~(Before(p, q) /\ Upto(q, p))
BY DEF Before, Upto, Ids

\* What a sequence of frames holds.
LEMMA FramesOf ==
  ASSUME NEW s \in Seq(Frames)
  PROVE  /\ Len(s) \in Nat
         /\ \A k \in 1..Len(s) : s[k] \in Frames /\ s[k].id \in Ids /\ s[k].event \in HubEvents
PROOF
  <1>1. \A f \in Frames : f.id \in Ids /\ f.event \in HubEvents
    BY DEF Frames, HubEvents, FeedEvents
  <1>2. \A k \in 1..Len(s) : s[k] \in Frames
    OBVIOUS
  <1> QED
    BY <1>1, <1>2

\* The numbers of a line rise.
LEMMA LineRises ==
  ASSUME NEW s \in Seq(Frames), Line(s)
  PROVE  \A i \in 1..Len(s) : \A k \in (i + 1)..Len(s) : Before(s[i].id, s[k].id)
PROOF
  <1> SUFFICES ASSUME NEW i \in 1..Len(s) PROVE \A k \in (i + 1)..Len(s) : Before(s[i].id, s[k].id)
    OBVIOUS
  <1>0. Len(s) \in Nat /\ \A k \in 1..Len(s) : s[k] \in Frames /\ s[k].id \in Ids
    BY FramesOf
  <1> DEFINE T == {k \in (i + 1)..Len(s) : ~ Before(s[i].id, s[k].id)}
  <1>1. ASSUME T # {} PROVE FALSE
    <2>1. T \in SUBSET Nat
      BY <1>0
    <2>2. PICK m \in T : \A k \in T : m <= k
      <3> HIDE DEF T
      <3> QED
        BY <1>1, <2>1, Least
    <2>3. m \in 2..Len(s) /\ m - 1 \in 1..Len(s) /\ m \in 1..Len(s) /\ i <= m - 1
      BY <1>0, <2>2
    <2>4. Before(s[m - 1].id, s[m].id)
      BY <1>0, <2>3, FollowsRises DEF Line
    <2>5. CASE m - 1 = i
      BY <2>2, <2>4, <2>5
    <2>6. CASE m - 1 # i
      <3>1. m - 1 \in (i + 1)..Len(s) /\ m - 1 \notin T
        BY <1>0, <2>2, <2>3, <2>6
      <3>2. Before(s[i].id, s[m - 1].id)
        BY <3>1
      <3>3. s[i].id \in Ids /\ s[m - 1].id \in Ids /\ s[m].id \in Ids
        BY <1>0, <2>3
      <3>4. Before(s[i].id, s[m].id)
        BY <2>4, <3>2, <3>3, BeforeIsOrder
      <3> QED
        BY <2>2, <3>4
    <2> QED
      BY <2>5, <2>6
  <1> QED
    BY <1>1

\* No job of the view is ahead of its row.
Shows(v) == \A j \in Jobs : v[j].rank <= job[j].rank
\* No job moves backwards from one view to the other.
Gains(v, w) == \A j \in Jobs : v[j].rank <= w[j].rank
\* What the event says of a job the view has.
HasHeard(v, e) == e # Resync /\ (e.type = "job" => e.rank <= v[e.job].rank)

\* An event that is applied brings the view forward, at most to the store.
LEMMA AppliedGains ==
  ASSUME EngineInv, NEW v \in Views, NEW e \in HubEvents, Behind(e), Shows(v)
  PROVE  /\ Shows(Applied(v, e)) /\ Gains(v, Applied(v, e))
         /\ e.type = "job" => e.rank <= Applied(v, e)[e.job].rank
PROOF
  <1>1. \A j \in Jobs : v[j].rank \in 0..3 /\ v[j].rank <= job[j].rank /\ v[j] \in JobViews
    BY DEF Views, JobViews, Shows, Ranks, None, Terminal
  <1>2. CASE e.type = "job"
    <2>1. e \in JobEvents
      BY <1>2 DEF HubEvents, FeedEvents, ProgressEvents, OtherEvent, Resync
    <2>2. e.job \in Jobs /\ e.rank \in 1..3 /\ e.rank <= job[e.job].rank
      BY <1>2, <2>1 DEF JobEvents, Queued, Terminal, Behind
    <2> DEFINE n == IF e.rank = Running /\ v[e.job].rank = Running /\ v[e.job].prog > e.prog
                    THEN v[e.job].prog ELSE e.prog
    <2>3. \/ Applied(v, e) = v /\ e.rank < v[e.job].rank
          \/ /\ Applied(v, e) = [v EXCEPT ![e.job] = [rank |-> e.rank, prog |-> n]]
             /\ ~ e.rank < v[e.job].rank
      BY <1>2 DEF Applied, WithJob
    <2> HIDE DEF n
    <2>4. CASE Applied(v, e) = v /\ e.rank < v[e.job].rank
      BY <1>1, <2>2, <2>4 DEF Shows, Gains
    <2>5. CASE /\ Applied(v, e) = [v EXCEPT ![e.job] = [rank |-> e.rank, prog |-> n]]
               /\ ~ e.rank < v[e.job].rank
      <3> DEFINE w == Applied(v, e)
      <3>1. w[e.job].rank = e.rank /\ \A j \in Jobs : j # e.job => w[j] = v[j]
        BY <2>2, <2>5 DEF Views
      <3> HIDE DEF w
      <3>2. \A j \in Jobs : v[j].rank <= w[j].rank /\ w[j].rank <= job[j].rank
        BY <1>1, <2>2, <2>5, <3>1
      <3>3. e.rank <= w[e.job].rank
        BY <2>2, <3>1
      <3> QED
        BY <3>2, <3>3 DEF w, Shows, Gains
    <2> QED
      BY <2>3, <2>4, <2>5
  <1>3. CASE e.type # "job"
    <2>1. \A j \in Jobs : Applied(v, e)[j].rank = v[j].rank
      <3>1. CASE e.type = "progress"
        <4>1. e \in ProgressEvents
          BY <3>1 DEF HubEvents, FeedEvents, JobEvents, OtherEvent, Resync
        <4>2. e.job \in Jobs
          BY <4>1 DEF ProgressEvents
        <4>3. Applied(v, e) = v \/ Applied(v, e) = [v EXCEPT ![e.job].prog = e.prog]
          BY <3>1 DEF Applied
        <4> QED
          BY <4>2, <4>3 DEF Views
      <3>2. CASE e.type # "progress"
        BY <1>3, <3>2 DEF Applied
      <3> QED
        BY <3>1, <3>2
    <2> QED
      BY <1>1, <1>3, <2>1 DEF Shows, Gains
  <1> QED
    BY <1>2, <1>3

\* Past the gate a frame is heard, or a snapshot is asked for.
LEMMA PassLearns ==
  ASSUME EngineInv, NEW s \in PassStates, NEW f \in Frames, Behind(f.event), Shows(s.view)
  PROVE  LET t == Pass(s, f) IN
         /\ t \in PassStates /\ t.gate[1] = s.gate[1] /\ t.gate \in {s.gate, f.id}
         /\ Shows(t.view) /\ Gains(s.view, t.view)
         /\ ~t.again =>
              /\ ~s.again /\ f.id[1] = s.gate[1] /\ Upto(f.id, t.gate)
              /\ ~Upto(f.id, s.gate) => t.gate = f.id /\ HasHeard(t.view, f.event)
PROOF
  <1> DEFINE t == Pass(s, f)
  <1>1. /\ s.gate \in Ids /\ s.view \in Views /\ f.id \in Ids /\ f.event \in HubEvents
        /\ s.again \in BOOLEAN
    BY DEF PassStates, Frames, HubEvents, FeedEvents
  <1>2. t \in PassStates
    BY PassTyped
  <1>3. Gains(s.view, s.view)
    BY <1>1 DEF Gains, Views, Ranks, None, Terminal
  <1>4. /\ f.id[1] \in Nat /\ f.id[2] \in Nat /\ s.gate[1] \in Nat /\ s.gate[2] \in Nat
    BY <1>1 DEF Ids
  <1>5. CASE s.again
    <2>1. t = s
      BY <1>5 DEF Pass
    <2> QED
      BY <1>2, <1>3, <1>5, <2>1
  <1>6. CASE ~s.again
    <2>1. CASE f.id[1] # s.gate[1]
      <3>1. t = [gate |-> s.gate, view |-> s.view, again |-> TRUE]
        BY <1>6, <2>1 DEF Pass, Accept
      <3> QED
        BY <1>2, <1>3, <3>1
    <2>2. CASE f.id[1] = s.gate[1] /\ f.id[2] <= s.gate[2]
      <3>1. t = s
        BY <2>2 DEF Pass, Accept
      <3>2. Upto(f.id, s.gate)
        BY <2>2 DEF Upto
      <3> QED
        BY <1>2, <1>3, <1>6, <2>2, <3>1, <3>2
    <2>3. CASE f.id[1] = s.gate[1] /\ ~(f.id[2] <= s.gate[2]) /\ f.event.type = "resync"
      <3>1. t = [gate |-> f.id, view |-> s.view, again |-> TRUE]
        BY <1>6, <2>3 DEF Pass, Accept
      <3> QED
        BY <1>2, <1>3, <2>3, <3>1
    <2>4. CASE f.id[1] = s.gate[1] /\ ~(f.id[2] <= s.gate[2]) /\ f.event.type # "resync"
      <3>1. t = [gate |-> f.id, view |-> Applied(s.view, f.event), again |-> FALSE]
        BY <1>6, <2>4 DEF Pass, Accept
      <3>2. f.event # Resync
        BY <2>4 DEF Resync
      <3>3. /\ Shows(Applied(s.view, f.event)) /\ Gains(s.view, Applied(s.view, f.event))
            /\ f.event.type = "job" => f.event.rank <= Applied(s.view, f.event)[f.event.job].rank
        BY <1>1, AppliedGains
      <3>4. Upto(f.id, f.id)
        BY <1>4 DEF Upto
      <3> QED
        BY <1>2, <1>6, <2>4, <3>1, <3>2, <3>3, <3>4 DEF HasHeard
    <2> QED
      BY <2>1, <2>2, <2>3, <2>4
  <1> QED
    BY <1>5, <1>6

(* What waited, replayed on a snapshot: the view only gains, the gate stands at the
   snapshot or at what was replayed, and unless another snapshot is asked for all
   that waited is of the snapshot's process and heard. *)
LEMMA ReplayLearns ==
  ASSUME EngineInv, buffer \in Seq(Frames), NEW s0 \in PassStates, Shows(s0.view),
         \A i \in 1..Len(buffer) : Behind(buffer[i].event)
  PROVE  LET s == Replayed(s0) IN
         /\ s \in PassStates /\ s.gate[1] = s0.gate[1]
         /\ Shows(s.view) /\ Gains(s0.view, s.view)
         /\ s.gate = s0.gate \/ \E i \in 1..Len(buffer) : s.gate = buffer[i].id
         /\ Line(buffer) /\ ~s.again =>
              \A i \in 1..Len(buffer) :
                /\ buffer[i].id[1] = s.gate[1] /\ Upto(buffer[i].id, s.gate)
                /\ ~Upto(buffer[i].id, s0.gate) => HasHeard(s.view, buffer[i].event)
PROOF
  <1>1. PICK r : /\ r[0] = s0 /\ r[Len(buffer)] = Replayed(s0)
                 /\ \A i \in 1..Len(buffer) : r[i] = Pass(r[i - 1], buffer[i])
    BY ReplayUnfolds
  <1>2. Len(buffer) \in Nat /\ \A i \in 1..Len(buffer) :
          buffer[i] \in Frames /\ buffer[i].id \in Ids /\ buffer[i].event \in HubEvents
    BY FramesOf
  <1>3. Line(buffer) => \A i \in 1..Len(buffer) : \A k \in (i + 1)..Len(buffer) :
          Before(buffer[i].id, buffer[k].id)
    BY LineRises
  <1>4. \A s \in PassStates : s.gate \in Ids /\ s.view \in Views
    BY DEF PassStates
  <1> DEFINE Good(m) ==
        /\ r[m] \in PassStates /\ r[m].gate[1] = s0.gate[1]
        /\ Shows(r[m].view) /\ Gains(s0.view, r[m].view)
        /\ r[m].gate = s0.gate \/ \E i \in 1..m : r[m].gate = buffer[i].id
        /\ Line(buffer) /\ ~r[m].again =>
              \A i \in 1..m :
                /\ buffer[i].id[1] = s0.gate[1] /\ Upto(buffer[i].id, r[m].gate)
                /\ ~Upto(buffer[i].id, s0.gate) => HasHeard(r[m].view, buffer[i].event)
  <1>5. Good(0)
    <2>1. Gains(s0.view, s0.view)
      <3>1. \A j \in Jobs : s0.view[j].rank \in 0..3
        BY <1>4 DEF Views, Ranks, None, Terminal
      <3> QED
        BY <3>1 DEF Gains
    <2> QED
      BY <1>1, <2>1
  <1>6. ASSUME NEW m \in 1..Len(buffer), Good(m - 1) PROVE Good(m)
    <2> DEFINE s == r[m - 1]
               t == r[m]
               f == buffer[m]
    <2>1. /\ s \in PassStates /\ s.gate[1] = s0.gate[1] /\ Shows(s.view) /\ Gains(s0.view, s.view)
          /\ f \in Frames /\ f.id \in Ids /\ f.event \in HubEvents /\ Behind(f.event)
          /\ m - 1 \in Nat /\ m \in Nat /\ m - 1 < m
      BY <1>2, <1>6
    <2>2. s.gate = s0.gate \/ \E i \in 1..(m - 1) : s.gate = buffer[i].id
      BY <1>6
    <2>3. Line(buffer) /\ ~s.again =>
            \A i \in 1..(m - 1) :
              /\ buffer[i].id[1] = s0.gate[1] /\ Upto(buffer[i].id, s.gate)
              /\ ~Upto(buffer[i].id, s0.gate) => HasHeard(s.view, buffer[i].event)
      BY <1>6
    <2>4. t = Pass(s, f)
      BY <1>1, <1>6
    <2> HIDE DEF s, t, f
    <2>5. /\ t \in PassStates /\ t.gate[1] = s.gate[1] /\ t.gate \in {s.gate, f.id}
          /\ Shows(t.view) /\ Gains(s.view, t.view)
          /\ ~t.again =>
               /\ ~s.again /\ f.id[1] = s.gate[1] /\ Upto(f.id, t.gate)
               /\ ~Upto(f.id, s.gate) => t.gate = f.id /\ HasHeard(t.view, f.event)
      BY <2>1, <2>4, PassLearns
    <2>6. Gains(s0.view, t.view)
      <3>1. \A j \in Jobs : /\ s0.view[j].rank \in 0..3 /\ s.view[j].rank \in 0..3
                            /\ t.view[j].rank \in 0..3
        BY <1>4, <2>1, <2>5 DEF Views, Ranks, None, Terminal
      <3> QED
        BY <2>1, <2>5, <3>1 DEF Gains
    <2>7. t.gate = s0.gate \/ \E i \in 1..m : t.gate = buffer[i].id
      <3>1. CASE t.gate = s.gate
        BY <2>1, <2>2, <3>1
      <3>2. CASE t.gate = f.id
        BY <1>6, <2>1, <3>2 DEF f
      <3> QED
        BY <2>5, <3>1, <3>2
    <2>8. ASSUME Line(buffer), ~t.again, NEW i \in 1..m
          PROVE  /\ buffer[i].id[1] = s0.gate[1] /\ Upto(buffer[i].id, t.gate)
                 /\ ~Upto(buffer[i].id, s0.gate) => HasHeard(t.view, buffer[i].event)
      <3>0. Line(buffer) /\ ~s.again /\ f.id[1] = s.gate[1] /\ Upto(f.id, t.gate)
            /\ (~Upto(f.id, s.gate) => t.gate = f.id /\ HasHeard(t.view, f.event))
        BY <2>5, <2>8
      <3>1. CASE i = m
        <4>1. buffer[i] = f
          BY <3>1 DEF f
        <4>2. ASSUME Upto(f.id, s.gate) PROVE Upto(f.id, s0.gate)
          <5>1. CASE s.gate = s0.gate
            BY <4>2, <5>1
          <5>2. ASSUME NEW k \in 1..(m - 1), s.gate = buffer[k].id PROVE FALSE
            <6>1. k \in 1..Len(buffer) /\ m \in (k + 1)..Len(buffer)
              BY <1>2, <1>6, <2>1
            <6>2. Before(buffer[k].id, buffer[m].id) /\ buffer[k].id \in Ids
              BY <1>2, <1>3, <2>8, <6>1
            <6>3. Before(s.gate, f.id) /\ s.gate \in Ids
              BY <5>2, <6>2 DEF f
            <6> QED
              BY <2>1, <4>2, <6>3, BeforeIsOrder
          <5> QED
            BY <2>2, <5>1, <5>2
        <4> QED
          BY <2>1, <3>0, <4>1, <4>2
      <3>2. CASE i # m
        <4>1. i \in 1..(m - 1) /\ i \in 1..Len(buffer)
          BY <1>2, <1>6, <2>1, <3>2
        <4>2. /\ buffer[i].id[1] = s0.gate[1] /\ Upto(buffer[i].id, s.gate)
              /\ ~Upto(buffer[i].id, s0.gate) => HasHeard(s.view, buffer[i].event)
              /\ buffer[i].id \in Ids /\ buffer[i].event \in HubEvents
          BY <1>2, <2>3, <3>0, <4>1
        <4>3. Upto(buffer[i].id, t.gate)
          <5>1. Upto(s.gate, t.gate)
            BY <2>1, <2>4, PassInOrder
          <5>2. s.gate \in Ids /\ t.gate \in Ids
            BY <1>4, <2>1, <2>5
          <5> QED
            BY <4>2, <5>1, <5>2, UptoIsOrder
        <4>4. HasHeard(s.view, buffer[i].event) => HasHeard(t.view, buffer[i].event)
          <5> SUFFICES ASSUME HasHeard(s.view, buffer[i].event), buffer[i].event.type = "job"
                       PROVE  buffer[i].event.rank <= t.view[buffer[i].event.job].rank
            BY DEF HasHeard
          <5>1. buffer[i].event \in JobEvents
            BY <4>2 DEF HubEvents, FeedEvents, ProgressEvents, OtherEvent, Resync
          <5> DEFINE e == buffer[i].event
          <5>2. e.job \in Jobs /\ e.rank \in 1..3 /\ e.rank <= s.view[e.job].rank
            BY <5>1 DEF JobEvents, Queued, Terminal, HasHeard
          <5>3. s.view[e.job].rank \in 0..3 /\ t.view[e.job].rank \in 0..3
            BY <1>4, <2>1, <2>5, <5>2 DEF Views, Ranks, None, Terminal
          <5>4. s.view[e.job].rank <= t.view[e.job].rank
            BY <2>5, <5>2 DEF Gains
          <5> HIDE DEF e
          <5>5. e.rank <= t.view[e.job].rank
            BY <5>2, <5>3, <5>4
          <5> QED
            BY <5>5 DEF e
        <4> QED
          BY <4>2, <4>3, <4>4
      <3> QED
        BY <3>1, <3>2
    <2> QED
      BY <2>1, <2>5, <2>6, <2>7, <2>8 DEF t
  <1> DEFINE T == {m \in 0..Len(buffer) : ~Good(m)}
  <1> HIDE DEF Good
  <1>7. T = {}
    <2> SUFFICES ASSUME T # {} PROVE FALSE
      OBVIOUS
    <2>0. T \in SUBSET Nat
      BY <1>2
    <2>1. PICK m \in T : \A k \in T : m <= k
      <3> HIDE DEF T
      <3> QED
        BY <2>0, Least
    <2>2. m # 0
      BY <1>5, <2>1
    <2>3. m \in 1..Len(buffer) /\ m - 1 \in 0..Len(buffer) /\ m - 1 \notin T
      BY <1>2, <2>1, <2>2
    <2> QED
      BY <1>6, <2>1, <2>3
  <1>8. Good(Len(buffer))
    BY <1>2, <1>7
  <1> QED
    BY <1>1, <1>8 DEF Good

(* The server keeps its promises, and no job moves backwards. *)
LEMMA TellSteps ==
  ASSUME TypedInv, TellInv, Next
  PROVE  TellInv' /\ RanksRise
PROOF
  <1>0. /\ ServerTyped /\ EngineInv /\ instance \in Nat \ {0}
        /\ RankInv /\ OwnInv /\ WatchInv
    BY DEF TypedInv, ServerTyped, ClientTyped, TellInv
  <1>1. CASE ServerStep
    <2>1. CASE EngineStep
      BY <1>0, <2>1, EngineTells
    <2>2. CASE FeedStep
      <3>1. TellInv' /\ job' = job
        BY <1>0, <2>2, FeedTells DEF FeedKeeps
      <3> QED
        BY <1>0, <3>1, RanksStay
    <2> QED
      BY <1>1, <2>1, <2>2 DEF ServerStep
  <1>2. CASE Start
    <2>1. /\ ~up /\ (up' <=> TRUE) /\ instance' = instance + 1 /\ ring' = <<>>
          /\ job' = job /\ owner' = owner /\ due' = due /\ bus' = bus /\ lagged' = lagged
          /\ feed' = feed
      BY <1>2 DEF Start, HubRestart
    <2>2. feed.phase = "off" /\ feed.polled = {}
      BY <1>0, <2>1 DEF OwnInv
    <2>3. RankInv'
      BY <1>0, <2>1 DEF RankInv, Behind
    <2>4. OwnInv'
      <3>1. \A j \in Jobs : owner[j] \in Nat /\ owner[j] <= instance
        BY <1>0 DEF OwnInv
      <3>2. \A j \in Jobs : owner'[j] <= instance' /\ (~Created(j)' => owner'[j] = Elsewhere)
        BY <1>0, <2>1, <3>1 DEF OwnInv, Created
      <3>3. \A j \in feed'.seen : Created(j)'
        BY <1>0, <2>1 DEF OwnInv, Created
      <3>4. \A j \in Jobs : ~PolledJob(j)'
        BY <2>1, <2>2 DEF PolledJob
      <3> QED
        BY <1>0, <2>1, <2>2, <3>2, <3>3, <3>4 DEF OwnInv
    <2>5. WatchInv'
      BY <2>1, <2>2 DEF WatchInv
    <2> QED
      BY <1>0, <2>1, <2>3, <2>4, <2>5, RanksStay DEF TellInv
  <1>3. CASE Stop
    <2>1. /\ (up' <=> FALSE) /\ UNCHANGED hubVars /\ instance' = instance /\ ring' = ring
          /\ job' = job /\ owner' = owner
          /\ due' = {} /\ bus' = <<>> /\ feed' = FreshFeed
      BY <1>3 DEF Stop, hubVars
    <2>2. /\ feed'.phase = "off" /\ feed'.polled = {} /\ feed'.seen = {}
          /\ \A j \in Jobs : feed'.published[j] = 0
      BY <2>1 DEF FreshFeed, None
    <2>3. RankInv'
      <3>1. \A j \in Jobs : job[j].rank \in 0..3
        BY <1>0 DEF EngineInv, Ranks, None, Terminal
      <3>2. Range(bus') = {}
        BY <2>1 DEF Range
      <3>3. \A i \in 1..Len(ring') : Behind(ring[i].event)'
        BY <1>0, <2>1 DEF RankInv, Behind
      <3>4. \A j \in Jobs : feed'.published[j] <= job'[j].rank
        BY <2>1, <2>2, <3>1
      <3> QED
        BY <2>1, <2>2, <3>2, <3>3, <3>4 DEF RankInv
    <2>4. OwnInv'
      <3>1. \A j \in Jobs : owner'[j] <= instance' /\ (~Created(j)' => owner'[j] = Elsewhere)
        BY <1>0, <2>1 DEF OwnInv, Created
      <3>2. \A j \in Jobs : ~PolledJob(j)'
        BY <2>2 DEF PolledJob
      <3> QED
        BY <1>0, <2>1, <2>2, <3>1, <3>2 DEF OwnInv
    <2>5. WatchInv'
      BY <2>2 DEF WatchInv
    <2> QED
      BY <1>0, <2>1, <2>3, <2>4, <2>5, RanksStay DEF TellInv
  <1>4. CASE UNCHANGED feedVars
    <2>1. UNCHANGED <<instance, ring, last, up, job, owner, due, bus, lagged, feed>>
      BY <1>4 DEF feedVars, hubVars, engineVars
    <2>2. RankInv'
      BY <1>0, <2>1 DEF RankInv, Behind
    <2>3. OwnInv'
      BY <1>0, <2>1 DEF OwnInv, Created, PolledJob, Mine
    <2>4. WatchInv'
      BY <1>0, <2>1 DEF WatchInv, PolledJob, Mine
    <2> QED
      BY <1>0, <2>1, <2>2, <2>3, <2>4, RanksStay DEF TellInv
  <1> QED
    BY <1>1, <1>2, <1>3, <1>4
    DEF Next, SignIn, Pump, ReadCursor, BuildSnapshot, Receive, Resynced, StreamOpens, StreamDrops,
        StreamFails, ProbeAnswers, RequestFails, Connect, Connected, LoadFails, Tracked, Refresh,
        Ask

\* At the start there is nothing to tell.
LEMMA InitTells == Init => TellInv
PROOF
  <1> SUFFICES ASSUME Init PROVE TellInv
    OBVIOUS
  <1>1. /\ instance = 1 /\ ring = <<>> /\ (up <=> TRUE) /\ due = {} /\ bus = <<>>
        /\ feed = FreshFeed /\ owner = [j \in Jobs |-> Elsewhere]
        /\ job = [j \in Jobs |-> NoJob]
    BY DEF Init, FeedInit, HubInit
  <1>2. /\ feed.phase = "off" /\ feed.polled = {} /\ feed.seen = {}
        /\ \A j \in Jobs : feed.published[j] = 0 /\ job[j].rank = 0 /\ owner[j] = 0
    BY <1>1 DEF FreshFeed, None, NoJob, Elsewhere
  <1>3. Range(bus) = {}
    BY <1>1 DEF Range
  <1>4. RankInv
    BY <1>1, <1>2, <1>3 DEF RankInv
  <1>5. OwnInv
    <2>1. owner \in [Jobs -> Nat]
      BY <1>1 DEF Elsewhere
    <2> QED
      BY <1>1, <1>2, <2>1 DEF OwnInv, PolledJob, Elsewhere
  <1>6. WatchInv
    BY <1>2 DEF WatchInv
  <1> QED
    BY <1>4, <1>5, <1>6 DEF TellInv

-----------------------------------------------------------------------------
(* Nothing shown is ahead of the store *)

\* Nothing on its way to the workbench, nor what it shows, is ahead of the store.
ShownInv ==
  /\ \A i \in 1..Len(wire) : Behind(wire[i].event)
  /\ \A i \in 1..Len(buffer) : Behind(buffer[i].event)
  /\ Shows(view)
  /\ load.phase = "built" => Shows(load.jobs)
  /\ reply # NoReply => Behind(reply)

\* Behind the store as the step leaves it.
StillBehind(e) == e.type = "job" => e.rank <= job'[e.job].rank
\* A view is not ahead of the store after the step.
StillShows(v) == \A j \in Jobs : v[j].rank <= job'[j].rank

\* What was not ahead of the store is not ahead of it after a step.
LEMMA ShownStill ==
  ASSUME TypedInv, TellInv, ShownInv, RanksRise
  PROVE  /\ \A i \in 1..Len(wire) : StillBehind(wire[i].event)
         /\ \A i \in 1..Len(buffer) : StillBehind(buffer[i].event)
         /\ StillShows(view) /\ StillShows(job)
         /\ load.phase = "built" => StillShows(load.jobs)
         /\ reply # NoReply => StillBehind(reply)
         /\ \A i \in 1..Len(ring) : StillBehind(ring[i].event)
PROOF
  <1>0. /\ wire \in Seq(Frames) /\ buffer \in Seq(Frames) /\ view \in Views /\ load \in LoadStates
        /\ reply \in {NoReply} \cup JobEvents
        /\ HubInv /\ \A i \in 1..Len(ring) : Behind(ring[i].event)
    BY DEF TypedInv, ClientTyped, ServerTyped, TellInv, RankInv
  <1>1. ASSUME NEW e \in HubEvents, Behind(e) PROVE StillBehind(e)
    <2>1. CASE e.type = "job"
      <3>1. e.job \in Jobs /\ e.rank \in Nat
        BY <2>1 DEF HubEvents, FeedEvents, JobEvents, ProgressEvents, OtherEvent, Resync, Queued,
                    Terminal
      <3> QED
        BY <1>1, <3>1 DEF Behind, StillBehind, RanksRise
    <2> QED
      BY <2>1 DEF StillBehind
  <1>2. ASSUME NEW v \in Views, Shows(v) PROVE StillShows(v)
    <2>1. \A j \in Jobs : v[j].rank \in 0..3
      BY DEF Views, Ranks, None, Terminal
    <2> QED
      BY <1>2, <2>1 DEF Shows, StillShows, RanksRise
  <1>3. \A i \in 1..Len(wire) : wire[i].event \in HubEvents
    BY <1>0, FramesOf
  <1>4. \A i \in 1..Len(buffer) : buffer[i].event \in HubEvents
    BY <1>0, FramesOf
  <1>5. load.phase = "built" => load.jobs \in Views
    BY <1>0 DEF LoadStates, NoLoad
  <1>6. reply # NoReply => reply \in HubEvents
    BY <1>0 DEF HubEvents, FeedEvents
  <1>7. \A i \in 1..Len(ring) : ring[i].event \in HubEvents
    <2> DEFINE F == [seq : Nat, event : HubEvents]
    <2>1. ring \in Seq(F)
      BY <1>0 DEF HubInv, HubTyped
    <2>2. \A f \in F : f.event \in HubEvents
      OBVIOUS
    <2> HIDE DEF F
    <2>3. \A i \in 1..Len(ring) : ring[i] \in F
      BY <2>1
    <2> QED
      BY <2>2, <2>3
  <1>8. StillShows(job)
    BY DEF StillShows, RanksRise
  <1>9. /\ \A i \in 1..Len(wire) : StillBehind(wire[i].event)
        /\ \A i \in 1..Len(buffer) : StillBehind(buffer[i].event)
    BY <1>1, <1>3, <1>4 DEF ShownInv
  <1>10. \A i \in 1..Len(ring) : StillBehind(ring[i].event)
    BY <1>0, <1>1, <1>7
  <1>11. /\ load.phase = "built" => StillShows(load.jobs)
         /\ StillShows(view)
    BY <1>0, <1>2, <1>5 DEF ShownInv
  <1>12. reply # NoReply => StillBehind(reply)
    BY <1>1, <1>6 DEF ShownInv
  <1> QED
    BY <1>8, <1>9, <1>10, <1>11, <1>12

\* ShownInv of the next state, spelled out.
ShownNext ==
  /\ \A i \in 1..Len(wire') : StillBehind(wire'[i].event)
  /\ \A i \in 1..Len(buffer') : StillBehind(buffer'[i].event)
  /\ StillShows(view')
  /\ load'.phase = "built" => StillShows(load'.jobs)
  /\ reply' # NoReply => StillBehind(reply')

\* No step gets a view or a frame ahead of the store.
LEMMA ShownSteps ==
  ASSUME TypedInv, TellInv, OrderInv, ShownInv, Next
  PROVE  ShownInv'
PROOF
  <1> SUFFICES ShownNext
    BY DEF ShownNext, ShownInv, Behind, StillBehind, Shows, StillShows
  <1>0. RanksRise
    BY TellSteps
  <1>1. /\ \A i \in 1..Len(wire) : StillBehind(wire[i].event)
        /\ \A i \in 1..Len(buffer) : StillBehind(buffer[i].event)
        /\ StillShows(view) /\ StillShows(job)
        /\ load.phase = "built" => StillShows(load.jobs)
        /\ reply # NoReply => StillBehind(reply)
        /\ \A i \in 1..Len(ring) : StillBehind(ring[i].event)
    BY <1>0, ShownStill
  <1>2. /\ ServerTyped /\ ClientTyped /\ EngineInv /\ PhaseInv
        /\ wire \in Seq(Frames) /\ buffer \in Seq(Frames) /\ view \in Views
    BY DEF TypedInv, ServerTyped, ClientTyped
  <1>3. StillBehind(Resync)
    BY DEF Resync, StillBehind
  <1>4. ASSUME UNCHANGED <<wire, buffer, view, load, reply>> PROVE ShownNext
    BY <1>1, <1>4 DEF ShownNext
  <1>5. CASE ServerStep \/ Start \/ SignIn \/ StreamFails \/ ProbeAnswers
    <2>1. UNCHANGED <<wire, buffer, view, load, reply>>
      BY <1>5 DEF ServerStep, Start, SignIn, StreamFails, ProbeAnswers, streamVars, clientVars
    <2> QED
      BY <1>4, <2>1
  <1>6. CASE Stop \/ StreamDrops
    <2>1. wire' = <<>> /\ UNCHANGED <<buffer, view, load, reply>>
      BY <1>6 DEF Stop, StreamDrops, NoStream
    <2> QED
      BY <1>1, <2>1 DEF ShownNext
  <1>7. CASE Pump
    <2>1. UNCHANGED <<buffer, view, load, reply>>
      BY <1>7 DEF Pump, clientVars
    <2>2. PICK read \in Seq(Frames) : wire' = wire \o read /\ ReadsRing(read)
      BY <1>2, <1>7, PumpReads
    <2>3. \A i \in 1..Len(read) : StillBehind(read[i].event)
      <3>1. CASE read = <<[id |-> Cursor, event |-> Resync]>>
        BY <1>3, <3>1
      <3>2. CASE \A i \in 1..Len(read) : \E k \in 1..Len(ring) : Carries(read[i], ring[k])
        BY <1>1, <3>2 DEF Carries
      <3> QED
        BY <2>2, <3>1, <3>2 DEF ReadsRing
    <2>4. /\ Len(wire') = Len(wire) + Len(read) /\ Len(wire) \in Nat /\ Len(read) \in Nat
          /\ \A i \in 1..Len(wire) : wire'[i] = wire[i]
          /\ \A i \in 1..Len(read) : wire'[Len(wire) + i] = read[i]
      BY <1>2, <2>2, ConcatProperties
    <2>5. \A i \in 1..Len(wire') : StillBehind(wire'[i].event)
      <3> SUFFICES ASSUME NEW i \in 1..Len(wire') PROVE StillBehind(wire'[i].event)
        OBVIOUS
      <3>1. CASE i <= Len(wire)
        BY <1>1, <2>4, <3>1
      <3>2. CASE i > Len(wire)
        <4> DEFINE k == i - Len(wire)
        <4>1. k \in 1..Len(read) /\ i = Len(wire) + k
          BY <2>4, <3>2
        <4> HIDE DEF k
        <4> QED
          BY <2>3, <2>4, <4>1
      <3> QED
        BY <2>4, <3>1, <3>2
    <2> QED
      BY <1>1, <2>1, <2>5 DEF ShownNext
  <1>8. CASE ReadCursor \/ BuildSnapshot
    <2>1. UNCHANGED <<wire, buffer, view, reply>>
      BY <1>8 DEF ReadCursor, BuildSnapshot, streamVars
    <2>2. load'.phase = "built" => StillShows(load'.jobs)
      BY <1>1, <1>8 DEF ReadCursor, BuildSnapshot
    <2> QED
      BY <1>1, <2>1, <2>2 DEF ShownNext
  <1>9. CASE Receive
    <2>1. /\ wire # <<>> /\ wire' = Tail(wire) /\ reply' = reply /\ job' = job
      BY <1>9 DEF Receive, feedVars, engineVars
    <2>2. \A i \in 1..Len(wire') : StillBehind(wire'[i].event)
      <3> DEFINE t == Tail(wire)
      <3>1. Len(t) = Len(wire) - 1 /\ Len(wire) \in Nat
            /\ \A i \in 1..Len(t) : i + 1 \in 1..Len(wire) /\ t[i] = wire[i + 1]
        BY <1>2, <2>1, HeadTailProperties
      <3> HIDE DEF t
      <3>2. \A i \in 1..Len(t) : StillBehind(t[i].event)
        BY <1>1, <3>1
      <3> QED
        BY <2>1, <3>2 DEF t
    <2>3. /\ Head(wire) \in Frames /\ Behind(Head(wire).event) /\ StillBehind(Head(wire).event)
      <3>1. Head(wire) = wire[1] /\ 1 \in 1..Len(wire) /\ Head(wire) \in Frames
        BY <1>2, <2>1, HeadTailProperties
      <3> QED
        BY <1>1, <3>1 DEF ShownInv
    <2>4. CASE Buffering
      <3>1. buffer' = Append(buffer, Head(wire)) /\ UNCHANGED <<view, load>>
        BY <1>9, <2>4 DEF Receive
      <3>2. \A i \in 1..Len(buffer') : StillBehind(buffer'[i].event)
        <4> DEFINE h == Head(wire)
        <4>0. h \in Frames /\ StillBehind(h.event) /\ buffer' = Append(buffer, h)
          BY <2>3, <3>1
        <4> HIDE DEF h
        <4>1. /\ Len(buffer') = Len(buffer) + 1 /\ buffer'[Len(buffer) + 1] = h
              /\ Len(buffer) \in Nat /\ \A i \in 1..Len(buffer) : buffer'[i] = buffer[i]
          BY <1>2, <4>0, AppendProperties
        <4> SUFFICES ASSUME NEW i \in 1..Len(buffer') PROVE StillBehind(buffer'[i].event)
          OBVIOUS
        <4>2. i \in 1..Len(buffer) \/ i = Len(buffer) + 1
          BY <4>1
        <4> QED
          BY <1>1, <4>0, <4>1, <4>2
      <3> QED
        BY <1>1, <2>1, <2>2, <3>1, <3>2 DEF ShownNext
    <2>5. CASE ~Buffering
      <3> DEFINE s0 == [gate |-> gate, view |-> view, again |-> FALSE]
                 s == Pass(s0, Head(wire))
      <3>1. s0 \in PassStates /\ s0.view = view /\ Shows(s0.view)
        BY <1>2 DEF ClientTyped, PassStates, ShownInv
      <3> HIDE DEF s0
      <3>2. s \in PassStates /\ Shows(s.view)
        BY <1>2, <2>3, <3>1, PassLearns
      <3>3. Take(s)
        BY <1>9, <2>5 DEF Receive, s0
      <3> HIDE DEF s
      <3>4. view' = s.view /\ buffer' = <<>> /\ load'.phase # "built"
        BY <3>3 DEF Take, Loading, NoLoad
      <3>5. StillShows(view')
        BY <2>1, <3>2, <3>4 DEF Shows, StillShows
      <3> QED
        BY <1>1, <2>1, <2>2, <3>4, <3>5 DEF ShownNext
    <2> QED
      BY <2>4, <2>5
  <1>10. CASE Resynced
    <2> DEFINE s0 == [gate |-> load.cursor, view |-> load.jobs, again |-> FALSE]
               s == Replayed(s0)
    <2>1. /\ load.phase = "built" /\ load.kind = "resync" /\ Take(s)
          /\ UNCHANGED <<wire, reply>> /\ job' = job
      BY <1>10 DEF Resynced, SnapshotCursor, feedVars, engineVars, streamVars
    <2>2. load.cursor \in Ids /\ load.jobs \in Views
      BY <1>2, <2>1 DEF ClientTyped, LoadStates, NoLoad
    <2>3. s0 \in PassStates /\ s0.view = load.jobs /\ Shows(s0.view)
      BY <2>1, <2>2 DEF PassStates, ShownInv
    <2> HIDE DEF s0
    <2>5. s \in PassStates /\ Shows(s.view)
      BY <1>2, <2>3, ReplayLearns DEF ShownInv
    <2> HIDE DEF s
    <2>6. view' = s.view /\ buffer' = <<>> /\ load'.phase # "built"
      BY <2>1 DEF Take, Loading, NoLoad
    <2>7. StillShows(view')
      BY <2>1, <2>5, <2>6 DEF Shows, StillShows
    <2> QED
      BY <1>1, <2>1, <2>6, <2>7 DEF ShownNext
  <1>11. CASE StreamOpens
    <2>1. UNCHANGED <<buffer, view, load, reply>>
          /\ wire' \in {<<>>, <<[id |-> Cursor, event |-> Resync]>>}
      BY <1>11 DEF StreamOpens
    <2>2. \A i \in 1..Len(wire') : StillBehind(wire'[i].event)
      BY <1>3, <2>1
    <2> QED
      BY <1>1, <2>1, <2>2 DEF ShownNext
  <1>12. ASSUME StartRound \/ Lost, UNCHANGED <<view, reply>> PROVE ShownNext
    <2>1. wire' = <<>> /\ buffer' = <<>> /\ load'.phase # "built"
      BY <1>12 DEF StartRound, Lost, NoFeed, NoStream, Loading, NoLoad
    <2> QED
      BY <1>1, <1>12, <2>1 DEF ShownNext
  <1>13. CASE Connect \/ LoadFails \/ RequestFails
    BY <1>12, <1>13 DEF Connect, LoadFails, RequestFails
  <1>14. CASE Connected
    <2>1. /\ load.phase = "built" /\ view' = load.jobs /\ load' = NoLoad
          /\ UNCHANGED <<wire, buffer, reply>>
      BY <1>14 DEF Connected, streamVars
    <2>2. load'.phase # "built"
      BY <2>1 DEF NoLoad
    <2> QED
      BY <1>1, <2>1, <2>2 DEF ShownNext
  <1>15. CASE Tracked
    <2>1. /\ reply # NoReply /\ view' = WithJob(view, reply) /\ reply' = NoReply
          /\ UNCHANGED <<wire, buffer, load>> /\ job' = job
      BY <1>15 DEF Tracked, feedVars, engineVars, streamVars
    <2>2. reply \in JobEvents /\ Behind(reply)
      BY <1>2, <2>1 DEF ClientTyped, ShownInv
    <2>3. reply \in HubEvents /\ reply.type = "job"
      BY <2>2 DEF HubEvents, FeedEvents, JobEvents
    <2>4. Shows(Applied(view, reply))
      BY <1>2, <2>2, <2>3, AppliedGains DEF ShownInv
    <2>5. view' = Applied(view, reply)
      BY <2>1, <2>3 DEF Applied
    <2>6. StillShows(view')
      BY <2>1, <2>4, <2>5 DEF Shows, StillShows
    <2> QED
      BY <1>1, <2>1, <2>6 DEF ShownNext
  <1>16. CASE Refresh
    <2>1. UNCHANGED <<view, reply>>
      BY <1>16 DEF Refresh
    <2>2. CASE StartRound
      BY <1>12, <2>1, <2>2
    <2>3. CASE buffer' = <<>> /\ load' = Loading("resync") /\ wire' = wire
      <3>1. load'.phase # "built"
        BY <2>3 DEF Loading
      <3> QED
        BY <1>1, <2>1, <2>3, <3>1 DEF ShownNext
    <2> QED
      BY <1>16, <2>2, <2>3 DEF Refresh, streamVars
  <1>17. ASSUME NEW j \in Jobs, Ask(j) PROVE ShownNext
    <2>1. /\ reply' = JobEvent(j, job[j].rank, job[j].prog)
          /\ UNCHANGED <<wire, buffer, view, load>>
      BY <1>17 DEF Ask, streamVars
    <2>2. reply'.rank = job[j].rank /\ reply'.job = j
      BY <2>1 DEF JobEvent
    <2>3. reply' # NoReply => StillBehind(reply')
      BY <1>1, <2>2 DEF StillBehind, StillShows
    <2> QED
      BY <1>1, <2>1, <2>3 DEF ShownNext
  <1> QED
    BY <1>5, <1>6, <1>7, <1>8, <1>9, <1>10, <1>11, <1>13, <1>14, <1>15, <1>16, <1>17 DEF Next

-----------------------------------------------------------------------------
(* The ring, and what was read of it *)

(* What a publication leaves in the ring, and what it pushes out. *)
LEMMA HubMoves ==
  ASSUME HubInv, UNCHANGED hubVars \/ \E ev \in HubEvents : Publish(ev)
  PROVE  /\ instance' = instance /\ last \in Nat /\ last' \in Nat /\ last <= last'
         /\ Len(ring) \in Nat /\ Len(ring') \in Nat /\ Len(ring) <= last
         /\ last - Len(ring) <= last' - Len(ring')
         /\ \A i \in 1..Len(ring) :
              /\ ring[i].seq = last - Len(ring) + i
              /\ \/ \E k \in 1..Len(ring') : ring'[k] = ring[i]
                 \/ ring[i].seq <= last' - Len(ring')
PROOF
  <1>1. /\ last \in Nat /\ Len(ring) \in Nat /\ Len(ring) <= last
        /\ \A i \in 1..Len(ring) : ring[i].seq = last - Len(ring) + i
    BY DEF HubInv, HubTyped, RingIsContiguous
  <1>2. CASE UNCHANGED hubVars
    <2>1. instance' = instance /\ last' = last /\ ring' = ring
      BY <1>2 DEF hubVars
    <2> QED
      BY <1>1, <2>1
  <1>3. ASSUME NEW ev \in HubEvents, Publish(ev)
        PROVE  /\ last' = last + 1 /\ instance' = instance /\ Len(ring') \in Nat
               /\ last - Len(ring) <= last' - Len(ring')
               /\ \A i \in 1..Len(ring) :
                    \/ \E k \in 1..Len(ring') : ring'[k] = ring[i]
                    \/ ring[i].seq <= last' - Len(ring')
    <2>1. last' = last + 1 /\ instance' = instance
      BY <1>3 DEF Publish
    <2>2. /\ Len(ring') \in Nat /\ Leaving \in {0, 1} /\ Len(ring') = Len(ring) + 1 - Leaving
          /\ \A i \in 1..(Len(ring') - 1) :
               i + Leaving \in 1..Len(ring) /\ ring'[i] = ring[i + Leaving]
      BY <1>3, PublishedFrames DEF HubInv
    <2>3. last - Len(ring) <= last' - Len(ring')
      BY <1>1, <2>1, <2>2
    <2>4. ASSUME NEW i \in 1..Len(ring)
          PROVE  \/ \E k \in 1..Len(ring') : ring'[k] = ring[i]
                 \/ ring[i].seq <= last' - Len(ring')
      <3>1. CASE i - Leaving >= 1
        <4> DEFINE k == i - Leaving
        <4>1. k \in 1..(Len(ring') - 1) /\ k \in 1..Len(ring') /\ k + Leaving = i
          BY <2>2, <3>1
        <4> HIDE DEF k
        <4>2. ring'[k] = ring[i]
          BY <2>2, <4>1
        <4> QED
          BY <4>1, <4>2
      <3>2. CASE ~(i - Leaving >= 1)
        <4>1. i = 1 /\ Leaving = 1 /\ Len(ring') = Len(ring)
          BY <2>2, <3>2
        <4> QED
          BY <1>1, <2>1, <4>1
      <3> QED
        BY <3>1, <3>2
    <2> QED
      BY <2>1, <2>2, <2>3, <2>4
  <1> QED
    BY <1>1, <1>2, <1>3

\* What a step does to the hub and to the process that has it.
LEMMA HubSteps ==
  ASSUME TypedInv, Next
  PROVE  \/ up' = up /\ (UNCHANGED hubVars \/ \E ev \in HubEvents : Publish(ev))
         \/ Stop /\ UNCHANGED hubVars
         \/ Start /\ HubRestart
PROOF
  <1>1. CASE ServerStep
    <2>1. HubStep /\ up' = up
      BY <1>1, ServerSteps DEF ServerStep, TypedInv
    <2> QED
      BY <2>1 DEF HubStep
  <1>2. CASE Stop
    BY <1>2 DEF Stop
  <1>3. CASE Start
    BY <1>3 DEF Start
  <1>4. CASE UNCHANGED feedVars
    BY <1>4 DEF feedVars, engineVars
  <1> QED
    BY <1>1, <1>2, <1>3, <1>4
    DEF Next, SignIn, Pump, ReadCursor, BuildSnapshot, Receive, Resynced, StreamOpens, StreamDrops,
        StreamFails, ProbeAnswers, RequestFails, Connect, Connected, LoadFails, Tracked, Refresh,
        Ask

\* The gate stays in the snapshot's process.
LEMMA ReplayGate ==
  ASSUME buffer \in Seq(Frames), NEW s0 \in PassStates
  PROVE  Replayed(s0).gate[1] = s0.gate[1]
PROOF
  <1>1. PICK r : /\ r[0] = s0 /\ r[Len(buffer)] = Replayed(s0)
                 /\ \A i \in 1..Len(buffer) : r[i] = Pass(r[i - 1], buffer[i])
    BY ReplayUnfolds
  <1>2. Len(buffer) \in Nat
    OBVIOUS
  <1>3. ASSUME NEW s, NEW f PROVE Pass(s, f).gate[1] = s.gate[1]
    BY DEF Pass
  <1> DEFINE T == {i \in 0..Len(buffer) : r[i].gate[1] # s0.gate[1]}
  <1>4. T = {}
    <2> SUFFICES ASSUME T # {} PROVE FALSE
      OBVIOUS
    <2>0. T \in SUBSET Nat
      BY <1>2
    <2>1. PICK m \in T : \A k \in T : m <= k
      <3> HIDE DEF T
      <3> QED
        BY <2>0, Least
    <2>2. m # 0
      BY <1>1, <2>1
    <2>3. m \in 1..Len(buffer) /\ m - 1 \in 0..Len(buffer) /\ m - 1 \notin T
      BY <1>2, <2>1, <2>2
    <2>4. r[m] = Pass(r[m - 1], buffer[m]) /\ r[m - 1].gate[1] = s0.gate[1]
      BY <1>1, <2>3
    <2> QED
      BY <1>3, <2>1, <2>4
  <1> QED
    BY <1>1, <1>2, <1>4

-----------------------------------------------------------------------------
\* The feed of the process that made the snapshot, or that the gate stands in, polls.
ReadyInv ==
  /\ CursorRead /\ up /\ load.cursor[1] = instance => feed.phase = "on"
  /\ Reads /\ up /\ gate[1] = instance => feed.phase = "on"

\* What was received of an older process counts for nothing.
AppliedInv == Reads /\ ~Buffering => Upto(lastId, gate)

\* A frame is the ring's, or was; or it is the resync of a stream that could not go on
\* after q.
Sourced(f, q) ==
  /\ f.id[1] = instance
  /\ \/ f.id[2] <= last - Len(ring)
     \/ \E i \in 1..Len(ring) : Carries(f, ring[i])
     \/ f.event = Resync /\ (q[1] # instance \/ q[2] + 1 <= last - Len(ring))

\* What came before the k-th frame of the wire.
Before1(k) == IF k = 1 THEN lastId ELSE wire[k - 1].id

\* Every frame on the wire has its source.
SourceInv == \A k \in 1..Len(wire) : Sourced(wire[k], Before1(k))

\* While it runs, a process does not lose its feed.
LEMMA FeedStaysOn ==
  ASSUME TypedInv, TellInv, Next, up', feed.phase = "on"
  PROVE  feed'.phase = "on" /\ up
PROOF
  <1>1. ServerTyped /\ OwnInv /\ instance \in Nat \ {0}
    BY DEF TypedInv, TellInv, ClientTyped
  <1>2. up
    BY <1>1 DEF OwnInv
  <1>3. CASE ServerStep
    <2>1. CASE EngineStep
      BY <1>1, <2>1, EngineMoves
    <2>2. CASE FeedStep
      BY <1>1, <1>2, <2>2, FeedTells
    <2> QED
      BY <1>2, <1>3, <2>1, <2>2 DEF ServerStep
  <1>4. CASE UNCHANGED feedVars
    BY <1>2, <1>4 DEF feedVars
  <1> QED
    BY <1>2, <1>3, <1>4
    DEF Next, Stop, Start, SignIn, Pump, ReadCursor, BuildSnapshot, Receive, Resynced, StreamOpens,
        StreamDrops, StreamFails, ProbeAnswers, RequestFails, Connect, Connected, LoadFails,
        Tracked,
        Refresh, Ask

\* If the server polls before it answers, a snapshot finds the feed at work.
LEMMA ReadySteps ==
  ASSUME TypedInv, TellInv, OrderInv, ReadyInv, PollFirst, Next
  PROVE  ReadyInv'
PROOF
  <1>0. /\ ReadTyped /\ IdsInv /\ PhaseInv /\ instance \in Nat \ {0}
    BY TypedRead DEF OrderInv, TypedInv, ClientTyped
  <1>1. feed.phase = "on" /\ up' => feed'.phase = "on"
    BY FeedStaysOn
  <1>2. \/ instance' = instance /\ (up' => up)
        \/ /\ instance' = instance + 1 /\ ~up
           /\ UNCHANGED <<es, load, gate>>
    BY HubSteps DEF hubVars, Publish, HubRestart, Stop, Start, clientVars
  <1>3. ASSUME CursorRead' /\ up' /\ load'.cursor[1] = instance'
        PROVE  feed'.phase = "on"
    <2>1. CASE load' = load
      <3>1. CursorRead /\ load.cursor[1] <= instance
        BY <1>0, <1>3, <2>1 DEF CursorRead, IdsInv, Upto, Cursor, ReadTyped, Ids
      <3>2. instance' = instance /\ up
        BY <1>0, <1>2, <1>3, <2>1, <3>1 DEF ReadTyped, Ids
      <3> QED
        BY <1>1, <1>3, <2>1, <3>1, <3>2 DEF ReadyInv
    <2>2. CASE ReadCursor
      BY <1>1, <1>3, <2>2 DEF ReadCursor, Serving
    <2>3. CASE BuildSnapshot
      <3>1. /\ CursorRead /\ up /\ load.cursor[1] = instance
        BY <2>3 DEF BuildSnapshot, CursorRead
      <3> QED
        BY <1>1, <1>3, <3>1 DEF ReadyInv
    <2>4. CASE load'.phase \in {"none", "sent"}
      BY <1>3, <2>4 DEF CursorRead
    <2> QED
      BY <2>1, <2>2, <2>3, <2>4
      DEF Next, ServerStep, Stop, Start, SignIn, Pump, Receive, Resynced, StreamOpens, Take,
          StreamDrops, StreamFails, ProbeAnswers, RequestFails, Connect, Connected, LoadFails,
          Tracked, Refresh, Ask, clientVars, StartRound, Lost, Loading, NoLoad
  <1>4. ASSUME Reads' /\ up' /\ gate'[1] = instance'
        PROVE  feed'.phase = "on"
    <2>1. CASE Reads /\ gate'[1] = gate[1]
      <3>1. gate[1] <= instance /\ gate[1] \in Nat
        BY <1>0 DEF IdsInv, Upto, Cursor, ReadTyped, Ids
      <3>2. instance' = instance /\ up
        BY <1>0, <1>2, <1>4, <2>1, <3>1
      <3> QED
        BY <1>1, <1>4, <2>1, <3>2 DEF ReadyInv
    <2>2. CASE CursorRead /\ gate'[1] = load.cursor[1] /\ instance' = instance
      <3>0. instance' # instance + 1
        BY <1>0, <2>2
      <3>1. up
        BY <1>2, <1>4, <3>0
      <3> QED
        BY <1>1, <1>4, <2>2, <3>1 DEF ReadyInv
    <2>3. CASE Receive
      <3>1. es = "open" /\ es' = es /\ wire # <<>> /\ Head(wire) \in Frames
        BY <1>0, <2>3, HeadTailProperties DEF Receive, ReadTyped
      <3>2. CASE Buffering
        BY <2>1, <2>3, <3>1, <3>2 DEF Receive, Reads
      <3>3. CASE ~Buffering
        <4> DEFINE s0 == [gate |-> gate, view |-> view, again |-> FALSE]
        <4>1. gate' = Pass(s0, Head(wire)).gate
          BY <2>3, <3>3 DEF Receive, Take
        <4>2. s0 \in PassStates /\ s0.gate = gate
          BY DEF TypedInv, ClientTyped, PassStates
        <4> HIDE DEF s0
        <4>3. Upto(gate, gate') /\ gate' \in {gate, Head(wire).id}
          BY <3>1, <4>1, <4>2, PassInOrder
        <4>4. Head(wire).id[1] # gate[1] => gate' = gate
          BY <4>1, <4>2 DEF Pass
        <4>5. gate'[1] = gate[1]
          BY <4>3, <4>4
        <4> QED
          BY <2>1, <3>1, <4>5 DEF Reads
      <3> QED
        BY <3>2, <3>3
    <2>4. CASE Resynced
      <3> DEFINE s0 == [gate |-> load.cursor, view |-> load.jobs, again |-> FALSE]
      <3>1. /\ load.phase = "built" /\ gate' = Replayed(s0).gate /\ instance' = instance
        BY <2>4 DEF Resynced, SnapshotCursor, Take, feedVars, hubVars
      <3>2. load.cursor \in Ids /\ load.jobs \in Views
        BY <3>1 DEF TypedInv, ClientTyped, LoadStates, NoLoad
      <3>3. s0 \in PassStates /\ s0.gate = load.cursor
        BY <3>2 DEF PassStates
      <3> HIDE DEF s0
      <3>4. Replayed(s0).gate[1] = load.cursor[1]
        BY <3>3, ReplayGate DEF TypedInv, ClientTyped
      <3> QED
        BY <2>2, <3>1, <3>4 DEF CursorRead
    <2>5. CASE Connected
      <3>1. load.phase = "built" /\ gate' = load.cursor /\ instance' = instance
        BY <2>5 DEF Connected, SnapshotCursor, feedVars, hubVars
      <3> QED
        BY <2>2, <3>1 DEF CursorRead
    <2>6. CASE ~Reads'
      BY <1>4, <2>6
    <2> QED
      BY <2>1, <2>3, <2>4, <2>5, <2>6
      DEF Next, ServerStep, Stop, Start, SignIn, Pump, ReadCursor, BuildSnapshot, StreamOpens,
          StreamDrops, StreamFails, ProbeAnswers, RequestFails, Connect, LoadFails, Lost, NoFeed,
          Tracked, Refresh, Ask, clientVars, StartRound, Reads
  <1> QED
    BY <1>3, <1>4 DEF ReadyInv

\* Outside a resync the gate has caught up with what was received.
LEMMA AppliedSteps ==
  ASSUME TypedInv, TellInv, OrderInv, ShownInv, AppliedInv, Next
  PROVE  AppliedInv'
PROOF
  <1>0. /\ ReadTyped /\ IdsInv /\ WireInv /\ BufferInv /\ PhaseInv /\ ClientTyped /\ EngineInv
    BY TypedRead DEF OrderInv, TypedInv, ServerTyped
  <1> SUFFICES ASSUME Reads', ~Buffering' PROVE Upto(lastId', gate')
    BY DEF AppliedInv
  <1>1. CASE Reads /\ ~Buffering /\ lastId' = lastId /\ gate' = gate
    BY <1>1 DEF AppliedInv
  <1>2. CASE Receive
    <2>1. /\ es = "open" /\ wire # <<>> /\ lastId' = Head(wire).id
      BY <1>2 DEF Receive
    <2>2. CASE Buffering
      BY <1>2, <2>2 DEF Receive, Buffering
    <2>3. CASE ~Buffering
      <3> DEFINE s0 == [gate |-> gate, view |-> view, again |-> FALSE]
                 s == Pass(s0, Head(wire))
      <3>1. s0 \in PassStates /\ Shows(s0.view)
        BY <1>0 DEF ClientTyped, PassStates, ShownInv
      <3>2. Head(wire) = wire[1] /\ 1 \in 1..Len(wire) /\ Head(wire) \in Frames
        BY <1>0, <2>1, HeadTailProperties DEF ReadTyped
      <3>3. Behind(Head(wire).event)
        BY <3>2 DEF ShownInv
      <3> HIDE DEF s0
      <3>4. ~s.again => Upto(Head(wire).id, s.gate)
        BY <1>0, <3>1, <3>2, <3>3, PassLearns
      <3>5. Take(s)
        BY <1>2, <2>3 DEF Receive, s0
      <3> HIDE DEF s
      <3>6. gate' = s.gate /\ ~s.again
        BY <3>5 DEF Take, Buffering, Loading
      <3> QED
        BY <2>1, <3>4, <3>6
    <2> QED
      BY <2>2, <2>3
  <1>3. CASE Resynced
    <2> DEFINE s0 == [gate |-> load.cursor, view |-> load.jobs, again |-> FALSE]
               s == Replayed(s0)
    <2>1. /\ load.phase = "built" /\ load.kind = "resync" /\ Take(s)
          /\ lastId' = lastId /\ es' = es
      BY <1>3 DEF Resynced, SnapshotCursor
    <2>2. load.cursor \in Ids /\ load.jobs \in Views
      BY <1>0, <2>1 DEF ClientTyped, LoadStates, NoLoad
    <2>3. s0 \in PassStates /\ s0.view = load.jobs /\ Shows(s0.view) /\ s0.gate = load.cursor
      BY <2>1, <2>2 DEF PassStates, ShownInv
    <2>4. Reads /\ Buffering /\ CursorRead
      BY <2>1 DEF Reads, Buffering, CursorRead
    <2> HIDE DEF s0
    <2>5. /\ Line(buffer)
          /\ buffer # <<>> => buffer[Len(buffer)].id = lastId
          /\ buffer = <<>> => Upto(lastId, load.cursor)
      BY <1>0, <2>4 DEF BufferInv
    <2>6. \A i \in 1..Len(buffer) : Behind(buffer[i].event)
      BY DEF ShownInv
    <2>7. /\ s.gate = s0.gate \/ \E i \in 1..Len(buffer) : s.gate = buffer[i].id
          /\ ~s.again => \A i \in 1..Len(buffer) : Upto(buffer[i].id, s.gate)
      BY <1>0, <2>3, <2>5, <2>6, ReplayLearns DEF ReadTyped
    <2> HIDE DEF s
    <2>8. gate' = s.gate /\ ~s.again
      BY <2>1 DEF Take, Buffering, Loading
    <2>9. CASE buffer = <<>>
      <3>1. Len(buffer) = 0
        BY <2>9
      <3> QED
        BY <2>1, <2>3, <2>5, <2>7, <2>8, <2>9, <3>1
    <2>10. CASE buffer # <<>>
      <3>1. Len(buffer) \in 1..Len(buffer)
        BY <1>0, <2>10 DEF ReadTyped
      <3> QED
        BY <2>1, <2>5, <2>7, <2>8, <2>10, <3>1
    <2> QED
      BY <2>9, <2>10
  <1>4. CASE Connected
    <2>1. lastId' = gate' /\ gate' \in Ids
      BY <1>0, <1>4 DEF Connected, SnapshotCursor, ClientTyped, LoadStates, NoLoad
    <2> QED
      BY <2>1, UptoIsOrder
  <1>5. CASE ServerStep \/ Start \/ SignIn \/ Pump \/ ProbeAnswers \/ Tracked
             \/ ReadCursor \/ BuildSnapshot \/ \E j \in Jobs : Ask(j)
    <2>1. es' = es /\ lastId' = lastId /\ gate' = gate /\ load'.kind = load.kind
      BY <1>5 DEF ServerStep, Start, SignIn, Pump, ProbeAnswers, Tracked, ReadCursor, BuildSnapshot,
                  Ask, clientVars
    <2> QED
      BY <1>1, <2>1 DEF Reads, Buffering
  <1>6. CASE Stop \/ StreamOpens \/ StreamDrops \/ StreamFails
    <2>1. /\ gate' = gate /\ load' = load
          /\ es # "open" => es' = es \/ es = "connecting"
          /\ (es' \in {"open", "connecting"} => lastId' = lastId)
      BY <1>6 DEF Stop, StreamOpens, StreamDrops, StreamFails
    <2>2. Reads
      BY <2>1 DEF Reads
    <2> QED
      BY <1>1, <2>1, <2>2 DEF Reads, Buffering
  <1>7. CASE StartRound \/ Lost
    BY <1>7 DEF StartRound, Lost, NoFeed, Reads
  <1>8. CASE Refresh /\ ~StartRound
    BY <1>8 DEF Refresh, Buffering, Loading
  <1> QED
    BY <1>2, <1>3, <1>4, <1>5, <1>6, <1>7, <1>8 DEF Next, Connect, LoadFails, RequestFails

(* While the process lives, what was the ring's frame still is, or was. *)
LEMMA SourcedStays ==
  ASSUME TypedInv, UNCHANGED hubVars \/ \E ev \in HubEvents : Publish(ev),
         NEW f \in Frames, NEW q \in Ids, Sourced(f, q)
  PROVE  /\ f.id[1] = instance'
         /\ \/ f.id[2] <= last' - Len(ring')
            \/ \E i \in 1..Len(ring') :
                   f.id = <<instance', ring'[i].seq>> /\ f.event = ring'[i].event
            \/ f.event = Resync /\ (q[1] # instance' \/ q[2] + 1 <= last' - Len(ring'))
PROOF
  <1>1. /\ instance' = instance /\ last \in Nat /\ last' \in Nat /\ last <= last'
        /\ Len(ring) \in Nat /\ Len(ring') \in Nat /\ Len(ring) <= last
        /\ last - Len(ring) <= last' - Len(ring')
        /\ \A i \in 1..Len(ring) :
             /\ ring[i].seq = last - Len(ring) + i
             /\ \/ \E k \in 1..Len(ring') : ring'[k] = ring[i]
                \/ ring[i].seq <= last' - Len(ring')
    BY HubMoves DEF TypedInv, ServerTyped
  <1>2. f.id[1] \in Nat /\ f.id[2] \in Nat /\ q[2] \in Nat
    BY DEF Frames, Ids
  <1>3. f.id[1] = instance'
    BY <1>1 DEF Sourced
  <1>4. CASE f.id[2] <= last - Len(ring)
    BY <1>1, <1>2, <1>3, <1>4
  <1>5. ASSUME NEW i \in 1..Len(ring), Carries(f, ring[i])
        PROVE  \/ f.id[2] <= last' - Len(ring')
               \/ \E k \in 1..Len(ring') :
                    f.id = <<instance', ring'[k].seq>> /\ f.event = ring'[k].event
    <2>1. f.id = <<instance', ring[i].seq>> /\ f.event = ring[i].event /\ f.id[2] = ring[i].seq
      BY <1>1, <1>5 DEF Carries
    <2>2. CASE \E k \in 1..Len(ring') : ring'[k] = ring[i]
      BY <2>1, <2>2
    <2>3. CASE ring[i].seq <= last' - Len(ring')
      BY <2>1, <2>3
    <2> QED
      BY <1>1, <2>2, <2>3
  <1>6. CASE f.event = Resync /\ (q[1] # instance \/ q[2] + 1 <= last - Len(ring))
    <2>1. q[1] # instance' \/ q[2] + 1 <= last' - Len(ring')
      BY <1>1, <1>2, <1>6
    <2> QED
      BY <1>3, <1>6, <2>1
  <1> QED
    BY <1>3, <1>4, <1>5, <1>6 DEF Sourced

\* Each step keeps the source of the frames on the wire.
LEMMA SourceSteps ==
  ASSUME TypedInv, OrderInv, SourceInv, Next
  PROVE  SourceInv'
PROOF
  <1> DEFINE Held(f, q) ==
        /\ f.id[1] = instance'
        /\ \/ f.id[2] <= last' - Len(ring')
           \/ \E i \in 1..Len(ring') :
                   f.id = <<instance', ring'[i].seq>> /\ f.event = ring'[i].event
           \/ f.event = Resync /\ (q[1] # instance' \/ q[2] + 1 <= last' - Len(ring'))
  <1>0. /\ ReadTyped /\ IdsInv /\ WireInv /\ PhaseInv /\ ClientTyped /\ ServerTyped
        /\ Len(wire) \in Nat
        /\ \A k \in 1..Len(wire) : wire[k] \in Frames /\ wire[k].id \in Ids
    BY TypedRead, FramesOf DEF OrderInv, TypedInv, ReadTyped
  <1> SUFFICES ASSUME NEW k \in 1..Len(wire')
               PROVE  Held(wire'[k], IF k = 1 THEN lastId' ELSE wire'[k - 1].id)
    BY DEF SourceInv, Sourced, Before1, Carries
  <1>1. \A i \in 1..Len(wire) :
          Before1(i) = (IF i = 1 THEN lastId ELSE wire[i - 1].id) /\ Before1(i) \in Ids
    <2> SUFFICES ASSUME NEW i \in 1..Len(wire) PROVE Before1(i) \in Ids
      BY DEF Before1
    <2>1. CASE i = 1
      BY <1>0, <2>1 DEF Before1, ReadTyped
    <2>2. CASE i # 1
      <3>1. i - 1 \in 1..Len(wire)
        BY <1>0, <2>2
      <3> QED
        BY <1>0, <2>2, <3>1 DEF Before1
    <2> QED
      BY <2>1, <2>2
  <1>2. ASSUME UNCHANGED hubVars \/ \E ev \in HubEvents : Publish(ev), NEW i \in 1..Len(wire)
        PROVE  Held(wire[i], IF i = 1 THEN lastId ELSE wire[i - 1].id)
    <2> DEFINE f == wire[i]
               q == Before1(i)
    <2>1. f \in Frames /\ q \in Ids /\ Sourced(f, q)
      BY <1>0, <1>1 DEF SourceInv
    <2>2. q = IF i = 1 THEN lastId ELSE wire[i - 1].id
      BY DEF Before1
    <2> HIDE DEF f, q
    <2>3. Held(f, q)
      BY <1>2, <2>1, SourcedStays
    <2> HIDE DEF Held
    <2> QED
      BY <2>2, <2>3 DEF f
  <1> HIDE DEF Held
  <1>3. CASE wire' = wire /\ lastId' = lastId
             /\ (UNCHANGED hubVars \/ \E ev \in HubEvents : Publish(ev))
    BY <1>2, <1>3
  <1>4. CASE wire' = <<>>
    BY <1>4
  <1>5. CASE Pump
    <2>1. /\ lastId' = lastId /\ UNCHANGED hubVars /\ es = "open"
          /\ instance' = instance /\ last' = last /\ ring' = ring
      BY <1>5 DEF Pump, feedVars, hubVars, clientVars
    <2>2. PICK read \in Seq(Frames) :
            /\ wire' = wire \o read /\ ReadsRing(read) /\ read[Len(read)].id = Cursor
            /\ \A i \in 1..Len(read) : Upto(read[i].id, Cursor)
      BY <1>0, <1>5, PumpReads
    <2>3. /\ Len(wire') = Len(wire) + Len(read) /\ Len(read) \in Nat
          /\ \A i \in 1..Len(wire) : wire'[i] = wire[i]
          /\ \A i \in 1..Len(read) : wire'[Len(wire) + i] = read[i]
      BY <1>0, <2>2, ConcatProperties DEF ReadTyped
    <2>4. CASE k <= Len(wire)
      <3>1. k \in 1..Len(wire) /\ (k # 1 => k - 1 \in 1..Len(wire))
        BY <1>0, <2>3, <2>4
      <3>2. wire'[k] = wire[k] /\ (k # 1 => wire'[k - 1] = wire[k - 1])
        BY <2>3, <3>1
      <3>3. Held(wire[k], IF k = 1 THEN lastId ELSE wire[k - 1].id)
        BY <1>2, <2>1, <3>1
      <3> QED
        BY <2>1, <3>2, <3>3
    <2>5. CASE k > Len(wire)
      <3> DEFINE n == k - Len(wire)
      <3>1. n \in 1..Len(read) /\ k = Len(wire) + n
        BY <1>0, <2>3, <2>5
      <3> HIDE DEF n
      <3>2. wire'[k] = read[n]
        BY <2>3, <3>1
      <3>3. CASE \A i \in 1..Len(read) : \E m \in 1..Len(ring) : Carries(read[i], ring[m])
        <4>1. PICK m \in 1..Len(ring) : Carries(read[n], ring[m])
          BY <3>1, <3>3
        <4>2. read[n].id = <<instance', ring'[m].seq>> /\ read[n].event = ring'[m].event
              /\ m \in 1..Len(ring') /\ read[n].id[1] = instance'
          BY <2>1, <4>1 DEF Carries
        <4> QED
          BY <3>2, <4>2 DEF Held
      <3>4. CASE read = <<[id |-> Cursor, event |-> Resync]>> /\ next <= last - Len(ring)
        <4>1. n = 1 /\ read[n].event = Resync /\ read[n].id[1] = instance'
          BY <2>1, <3>1, <3>4 DEF Cursor
        <4>2. (IF wire = <<>> THEN lastId ELSE wire[Len(wire)].id) = <<instance, next - 1>>
          BY <1>0, <2>1 DEF WireInv
        <4>3. (IF k = 1 THEN lastId' ELSE wire'[k - 1].id) = <<instance, next - 1>>
          <5>1. CASE k = 1
            <6>1. wire = <<>>
              BY <1>0, <3>1, <4>1, <5>1 DEF ReadTyped
            <6> QED
              BY <2>1, <4>2, <5>1, <6>1
          <5>2. CASE k # 1
            <6>1. k - 1 = Len(wire) /\ Len(wire) \in 1..Len(wire) /\ wire # <<>>
              BY <1>0, <3>1, <4>1, <5>2
            <6>2. wire'[k - 1] = wire[Len(wire)]
              BY <2>3, <6>1
            <6> QED
              BY <4>2, <5>2, <6>1, <6>2
          <5> QED
            BY <5>1, <5>2
        <4>4. next - 1 + 1 <= last' - Len(ring')
          BY <1>0, <2>1, <3>4 DEF ReadTyped
        <4> QED
          BY <3>2, <4>1, <4>3, <4>4 DEF Held
      <3> QED
        BY <2>2, <3>3, <3>4 DEF ReadsRing
    <2> QED
      BY <1>0, <2>3, <2>4, <2>5
  <1>6. CASE Receive
    <2>1. /\ wire # <<>> /\ wire' = Tail(wire) /\ lastId' = Head(wire).id /\ UNCHANGED hubVars
      BY <1>6 DEF Receive, feedVars
    <2> DEFINE t == Tail(wire)
    <2>2. /\ Head(wire) = wire[1] /\ Len(t) = Len(wire) - 1
          /\ \A i \in 1..Len(t) : i + 1 \in 1..Len(wire) /\ t[i] = wire[i + 1]
      BY <1>0, <2>1, HeadTailProperties DEF ReadTyped
    <2> HIDE DEF t
    <2>3. wire' = t /\ k \in 1..Len(t) /\ k + 1 \in 1..Len(wire) /\ t[k] = wire[k + 1]
      BY <2>1, <2>2 DEF t
    <2>4. Held(wire[k + 1], IF k + 1 = 1 THEN lastId ELSE wire[(k + 1) - 1].id)
      BY <1>2, <2>1, <2>3
    <2>5. (k + 1) - 1 = k /\ k + 1 # 1
      BY <1>0, <2>3
    <2>6. (IF k = 1 THEN lastId' ELSE wire'[k - 1].id) = wire[k].id
      <3>1. CASE k = 1
        BY <2>1, <2>2, <3>1
      <3>2. CASE k # 1
        <4>1. k - 1 \in 1..Len(t) /\ (k - 1) + 1 = k
          BY <1>0, <2>2, <2>3, <3>2
        <4> QED
          BY <2>2, <2>3, <3>2, <4>1
      <3> QED
        BY <3>1, <3>2
    <2> QED
      BY <2>3, <2>4, <2>5, <2>6
  <1>7. CASE StreamOpens
    <2>1. /\ wire' = IF Honours(lastId) THEN <<>> ELSE <<[id |-> Cursor, event |-> Resync]>>
          /\ lastId' = lastId /\ instance' = instance /\ last' = last /\ ring' = ring
      BY <1>7 DEF StreamOpens, feedVars, hubVars
    <2>2. CASE ~Honours(lastId)
      <3>1. k = 1 /\ wire'[k] = [id |-> Cursor, event |-> Resync]
        BY <2>1, <2>2
      <3>2. wire'[k].id[1] = instance' /\ wire'[k].event = Resync
        BY <2>1, <3>1 DEF Cursor
      <3>3. lastId[1] # instance \/ lastId[2] + 1 <= last - Len(ring)
        <4> SUFFICES ASSUME lastId[1] = instance PROVE lastId[2] + 1 <= last - Len(ring)
          OBVIOUS
        <4>1. lastId[2] \in Nat /\ lastId[2] <= last
          BY <1>0 DEF IdsInv, Upto, Cursor, ReadTyped, Ids
        <4>2. lastId[2] # last /\ ~(ring # <<>> /\ Head(ring).seq <= lastId[2] + 1)
          BY <2>2, <4>1 DEF Honours, HeldSince
        <4>3. /\ last \in Nat /\ Len(ring) \in Nat
              /\ ring # <<>> => Head(ring).seq = last - Len(ring) + 1
              /\ last > 0 => ring # <<>>
          <5>1. /\ last \in Nat /\ Len(ring) \in Nat /\ (last > 0 => ring # <<>>)
                /\ \A i \in 1..Len(ring) : ring[i].seq = last - Len(ring) + i
            BY <1>0 DEF ServerTyped, HubInv, HubTyped, RingIsContiguous
          <5>2. ring # <<>> => Head(ring) = ring[1] /\ 1 \in 1..Len(ring)
            BY <1>0, <5>1 DEF ServerTyped, HubInv, HubTyped
          <5> QED
            BY <5>1, <5>2
        <4> QED
          BY <4>1, <4>2, <4>3
      <3> QED
        BY <2>1, <3>1, <3>2, <3>3 DEF Held
    <2> QED
      BY <1>4, <2>1, <2>2
  <1>8. CASE Stop \/ Start \/ StreamDrops \/ StreamFails \/ StartRound \/ Lost \/ Connected
    <2>1. CASE Stop \/ StreamDrops \/ StartRound \/ Lost
      BY <1>4, <2>1 DEF Stop, StreamDrops, StartRound, Lost, NoFeed, NoStream
    <2>2. CASE Start \/ StreamFails \/ Connected
      <3>1. wire' = wire /\ es # "open"
        BY <1>0, <2>2 DEF Start, StreamFails, Connected, PhaseInv, streamVars
      <3> QED
        BY <1>0, <1>4, <3>1 DEF PhaseInv
    <2> QED
      BY <1>8, <2>1, <2>2
  <1>9. CASE Refresh /\ ~StartRound
    BY <1>3, <1>9 DEF Refresh, streamVars, feedVars
  <1>10. CASE ServerStep
    <2>1. wire' = wire /\ lastId' = lastId
      BY <1>10 DEF ServerStep, streamVars, clientVars
    <2> QED
      BY <1>0, <1>3, <1>10, <2>1, ServerSteps DEF ServerStep, HubStep
  <1>11. CASE SignIn \/ ProbeAnswers \/ Tracked \/ ReadCursor \/ BuildSnapshot \/ Resynced
              \/ \E j \in Jobs : Ask(j)
    <2>1. wire' = wire /\ lastId' = lastId /\ UNCHANGED hubVars
      BY <1>11 DEF SignIn, ProbeAnswers, Tracked, ReadCursor, BuildSnapshot, Resynced, Ask,
                   streamVars, feedVars
    <2> QED
      BY <1>3, <2>1
  <1> QED
    BY <1>5, <1>6, <1>7, <1>8, <1>9, <1>10, <1>11 DEF Next, Connect, LoadFails, RequestFails

-----------------------------------------------------------------------------
(* What a workbench has yet to learn *)

\* What the workbench has, or will have once its snapshot is there, and up to where.
Built == load.phase = "built"
\* The jobs it has.
Has == IF Built THEN load.jobs ELSE view
\* Up to where it has them.
At == IF Built THEN load.cursor ELSE gate

\* It follows the stream, or will from its snapshot on.
Follower == es # "closed" /\ (Built \/ (Reads /\ ~Buffering))

\* From here on the ring is read to it, or will be.
Onward ==
  IF es = "open" THEN next
  ELSE IF es = "none" THEN At[2] + 1
  ELSE IF lastId[1] = instance THEN lastId[2] + 1 ELSE 0

\* A frame that was read tells of the job.
OnItsWay(j) == \E f \in OnTheWay : f.id[1] = At[1] /\ f.id[2] > At[2] /\ Tells(j, f.event)
\* A frame that will be read tells of the job.
InTheRing(j) ==
  \E i \in 1..Len(ring) : /\ ring[i].seq > At[2] /\ ring[i].seq >= Onward
                          /\ Tells(j, ring[i].event)

\* What it lacks has left the ring: a resync will tell.
TooLate == Onward <= last - Len(ring) /\ At[2] < last

\* The workbench has the job's rank, or will learn of it.
Learns(j) == job[j].rank <= Has[j].rank \/ Owed(j) \/ OnItsWay(j) \/ InTheRing(j) \/ TooLate

\* A workbench that follows this process learns of every job.
LearnInv ==
  Follower /\ up /\ At[1] = instance => feed.phase = "on" /\ \A j \in Jobs : Learns(j)

-----------------------------------------------------------------------------
\* Types and bounds of these.
LEMMA LearnFacts ==
  ASSUME TypedInv, OrderInv
  PROVE  /\ At \in Ids /\ At[1] \in Nat /\ At[2] \in Nat /\ Onward \in Nat /\ Has \in Views
         /\ Upto(At, Cursor) /\ (At[1] = instance => At[2] <= last /\ Onward <= last + 1)
         /\ instance \in Nat \ {0} /\ last \in Nat /\ Len(ring) \in Nat /\ Len(ring) <= last
         /\ \A i \in 1..Len(ring) : ring[i].seq \in Nat /\ ring[i].seq <= last
         /\ \A j \in Jobs : job[j].rank \in 0..3 /\ Has[j].rank \in 0..3
PROOF
  <1>0. /\ ServerTyped /\ ClientTyped /\ ReadTyped /\ IdsInv /\ WireInv /\ HubInv /\ EngineInv
    BY TypedRead DEF TypedInv, ServerTyped, OrderInv
  <1>1. /\ last \in Nat /\ Len(ring) \in Nat /\ Len(ring) <= last /\ instance \in Nat \ {0}
        /\ \A i \in 1..Len(ring) : ring[i].seq = last - Len(ring) + i
    BY <1>0 DEF HubInv, HubTyped, RingIsContiguous, ClientTyped
  <1>2. /\ At \in Ids /\ Has \in Views /\ Upto(At, Cursor)
    <2>1. CASE Built
      BY <1>0, <2>1 DEF Built, At, Has, ClientTyped, LoadStates, NoLoad, IdsInv, CursorRead
    <2>2. CASE ~Built
      BY <1>0, <2>2 DEF At, Has, ClientTyped, IdsInv
    <2> QED
      BY <2>1, <2>2
  <1>3. At[1] \in Nat /\ At[2] \in Nat /\ (At[1] = instance => At[2] <= last)
    BY <1>1, <1>2 DEF Ids, Upto, Cursor
  <1>4. lastId[1] \in Nat /\ lastId[2] \in Nat /\ (lastId[1] = instance => lastId[2] <= last)
    BY <1>0, <1>1 DEF ReadTyped, Ids, IdsInv, Upto, Cursor
  <1>5. Onward \in Nat /\ (At[1] = instance => Onward <= last + 1)
    <2>1. next \in Nat /\ (es = "open" => next <= last + 1)
      BY <1>0 DEF ReadTyped, WireInv
    <2> HIDE DEF At
    <2>2. CASE es = "open"
      BY <2>1, <2>2 DEF Onward
    <2>3. CASE es = "none"
      <3>1. Onward = At[2] + 1
        BY <2>3 DEF Onward
      <3> QED
        BY <1>1, <1>3, <3>1
    <2>4. CASE es # "open" /\ es # "none"
      <3>1. Onward = IF lastId[1] = instance THEN lastId[2] + 1 ELSE 0
        BY <2>4 DEF Onward
      <3> QED
        BY <1>1, <1>4, <3>1
    <2> QED
      BY <2>2, <2>3, <2>4
  <1>6. \A j \in Jobs : job[j].rank \in 0..3 /\ Has[j].rank \in 0..3
    BY <1>0, <1>2 DEF EngineInv, Views, Ranks, None, Terminal
  <1> QED
    BY <1>1, <1>2, <1>3, <1>5, <1>6

\* The frames of the open stream come after the last one received.
LEMMA WireRises ==
  ASSUME TypedInv, OrderInv, es = "open"
  PROVE  /\ Upto(lastId, <<instance, next - 1>>)
         /\ \A k \in 1..Len(wire) :
              Before(lastId, wire[k].id) /\ Upto(wire[k].id, <<instance, next - 1>>)
         /\ \A k \in 2..Len(wire) : Before(wire[1].id, wire[k].id)
PROOF
  <1>0. /\ ReadTyped /\ Line(wire) /\ (wire # <<>> => Follows(lastId, wire[1]))
        /\ (IF wire = <<>> THEN lastId ELSE wire[Len(wire)].id) = <<instance, next - 1>>
    BY TypedRead DEF OrderInv, WireInv
  <1> DEFINE top == <<instance, next - 1>>
  <1>1. /\ wire \in Seq(Frames) /\ Len(wire) \in Nat /\ lastId \in Ids /\ top \in Ids
        /\ \A k \in 1..Len(wire) : wire[k] \in Frames /\ wire[k].id \in Ids
    <2>1. next - 1 \in Nat /\ instance \in Nat
      BY <1>0 DEF ReadTyped
    <2>2. top \in Ids
      BY <2>1 DEF Ids
    <2> HIDE DEF top
    <2> QED
      BY <1>0, <2>2, FramesOf DEF ReadTyped
  <1> HIDE DEF top
  <1>2. CASE wire = <<>>
    BY <1>0, <1>1, <1>2, UptoIsOrder DEF top
  <1>3. CASE wire # <<>>
    <2>1. 1 \in 1..Len(wire) /\ Len(wire) \in 1..Len(wire)
      BY <1>1, <1>3
    <2>2. wire[Len(wire)].id = top
      BY <1>0, <1>3 DEF top
    <2>3. Before(lastId, wire[1].id)
      BY <1>0, <1>1, <1>3, <2>1, FollowsRises
    <2>4. \A i \in 1..Len(wire) : \A k \in (i + 1)..Len(wire) : Before(wire[i].id, wire[k].id)
      BY <1>0, <1>1, LineRises
    <2>5. \A k \in 2..Len(wire) : Before(wire[1].id, wire[k].id)
      BY <1>1, <2>1, <2>4
    <2>6. ASSUME NEW k \in 1..Len(wire) PROVE Before(lastId, wire[k].id)
      <3>1. CASE k = 1
        BY <2>3, <3>1
      <3>2. CASE k # 1
        <4>1. k \in 2..Len(wire)
          BY <1>1, <3>2
        <4> QED
          BY <1>1, <2>1, <2>3, <2>5, <4>1, BeforeIsOrder
      <3> QED
        BY <3>1, <3>2
    <2>7. ASSUME NEW k \in 1..Len(wire) PROVE Upto(wire[k].id, top)
      <3>1. CASE k = Len(wire)
        BY <1>1, <2>1, <2>2, <3>1, UptoIsOrder
      <3>2. CASE k # Len(wire)
        <4>1. Len(wire) \in (k + 1)..Len(wire)
          BY <1>1, <3>2
        <4>2. Before(wire[k].id, top)
          BY <2>2, <2>4, <4>1
        <4>3. wire[k].id \in Ids
          BY <1>1
        <4> QED
          BY <1>1, <4>2, <4>3, UptoIsOrder
      <3> QED
        BY <3>1, <3>2
    <2>8. Upto(lastId, top)
      <3>1. Before(lastId, top)
        BY <2>1, <2>2, <2>6
      <3> QED
        BY <1>1, <3>1, UptoIsOrder
    <2> QED
      BY <2>5, <2>6, <2>7, <2>8 DEF top
  <1> QED
    BY <1>2, <1>3

\* A stream goes on after the last frame received.
LEMMA OnwardIsAhead ==
  ASSUME TypedInv, OrderInv, Reads, NEW p \in Ids, Upto(p, lastId), p[1] = instance
  PROVE  p[2] < Onward
PROOF
  <1>0. /\ ReadTyped /\ IdsInv
    BY TypedRead DEF OrderInv
  <1>1. /\ lastId[1] \in Nat /\ lastId[2] \in Nat /\ p[1] \in Nat /\ p[2] \in Nat
        /\ instance \in Nat /\ next \in Nat \ {0} /\ lastId[1] <= instance
    BY <1>0 DEF ReadTyped, Ids, IdsInv, Upto, Cursor
  <1>2. lastId[1] = instance /\ p[2] <= lastId[2]
    BY <1>1 DEF Upto
  <1>3. CASE es = "open"
    <2>1. Upto(lastId, <<instance, next - 1>>)
      BY <1>3, WireRises
    <2>2. lastId[2] <= next - 1
      BY <1>1, <1>2, <2>1 DEF Upto
    <2> QED
      BY <1>1, <1>2, <1>3, <2>2 DEF Onward
  <1>4. CASE es = "connecting"
    BY <1>1, <1>2, <1>4 DEF Onward
  <1> QED
    BY <1>3, <1>4 DEF Reads

(* A step that leaves the server alone takes nothing from a workbench that gains. *)
LEMMA StillLearns ==
  ASSUME TypedInv, OrderInv, UNCHANGED feedVars, NEW j \in Jobs, Learns(j),
         Has'[j].rank \in 0..3, Has[j].rank <= Has'[j].rank,
         OnItsWay(j) => Learns(j)',
         InTheRing(j) => Learns(j)',
         TooLate => Learns(j)'
  PROVE  Learns(j)'
PROOF
  <1>1. job' = job /\ (Owed(j) => Owed(j)')
    <2>1. UNCHANGED <<job, owner, up, instance, due, bus, lagged, feed>>
      BY DEF feedVars, engineVars, hubVars
    <2> QED
      BY <2>1 DEF Owed, Sources, PolledJob, Created, Mine, Polls
  <1>2. job[j].rank \in 0..3 /\ Has[j].rank \in 0..3
    BY LearnFacts
  <1>3. job[j].rank <= Has[j].rank => job'[j].rank <= Has'[j].rank
    <2>1. job'[j].rank = job[j].rank
      BY <1>1
    <2> HIDE DEF Has
    <2> QED
      BY <1>2, <2>1
  <1> HIDE DEF Has
  <1> QED
    BY <1>1, <1>3 DEF Learns

\* A step that moves nothing of this back keeps it.
LEMMA LearnsOn ==
  ASSUME TypedInv, OrderInv, UNCHANGED feedVars, NEW j \in Jobs, Learns(j),
         At' = At, Has'[j].rank \in 0..3, Has[j].rank <= Has'[j].rank,
         Onward' \in Nat, Onward' <= Onward, OnTheWay \subseteq OnTheWay'
  PROVE  Learns(j)'
PROOF
  <1>0. /\ Onward \in Nat /\ last \in Nat /\ Len(ring) \in Nat
        /\ \A i \in 1..Len(ring) : ring[i].seq \in Nat
    BY LearnFacts
  <1>1. job' = job /\ ring' = ring /\ last' = last
    BY DEF feedVars, engineVars, hubVars
  <1>2. OnItsWay(j) => OnItsWay(j)'
    <2> HIDE DEF At, OnTheWay
    <2> QED
      BY <1>1 DEF OnItsWay, Tells
  <1>3. InTheRing(j) => InTheRing(j)'
    <2> HIDE DEF At, Onward
    <2> QED
      BY <1>0, <1>1 DEF InTheRing, Tells
  <1>4. TooLate => TooLate'
    <2> HIDE DEF At, Onward
    <2>1. Onward <= last - Len(ring) => Onward' <= last' - Len(ring')
      BY <1>0, <1>1
    <2> QED
      BY <1>1, <2>1 DEF TooLate
  <1> QED
    BY <1>2, <1>3, <1>4, StillLearns DEF Learns

(* The server's own steps. *)
LEMMA ServerLearns ==
  ASSUME TypedInv, OrderInv, TellInv, LearnInv, ServerStep
  PROVE  LearnInv'
PROOF
  <1>0. /\ ServerTyped /\ HubInv /\ EngineInv /\ instance \in Nat \ {0}
    BY DEF TypedInv, ServerTyped, ClientTyped
  <1>1. /\ up' = up /\ (UNCHANGED hubVars \/ \E ev \in HubEvents : Publish(ev))
        /\ UNCHANGED <<wire, next, es, lastId, gate, buffer, load, view>>
    BY <1>0, ServerSteps DEF ServerStep, HubStep, streamVars, clientVars
  <1>2. /\ instance' = instance /\ last \in Nat /\ last' \in Nat /\ last <= last'
        /\ Len(ring) \in Nat /\ Len(ring') \in Nat
        /\ last - Len(ring) <= last' - Len(ring')
        /\ \A i \in 1..Len(ring) :
             \/ \E k \in 1..Len(ring') : ring'[k] = ring[i]
             \/ ring[i].seq <= last' - Len(ring')
    BY <1>0, <1>1, HubMoves
  <1>3. /\ At' = At /\ Has' = Has /\ OnTheWay' = OnTheWay /\ (Follower' <=> Follower)
    BY <1>1 DEF At, Has, Built, OnTheWay, Follower, Reads, Buffering
  <1>4. Onward' = Onward
    BY <1>1, <1>2, <1>3 DEF Onward
  <1>5. /\ At[2] \in Nat /\ Onward \in Nat
        /\ At[1] = instance => At[2] <= last /\ Onward <= last + 1
        /\ \A i \in 1..Len(ring) : ring[i].seq \in Nat /\ ring[i].seq <= last
    BY LearnFacts
  <1> SUFFICES ASSUME Follower', up', At'[1] = instance'
               PROVE  feed'.phase = "on" /\ \A j \in Jobs : Learns(j)'
    BY DEF LearnInv
  <1>6. Follower /\ up /\ At[1] = instance
    BY <1>1, <1>2, <1>3
  <1>7. feed.phase = "on" /\ \A j \in Jobs : Learns(j)
    BY <1>6 DEF LearnInv
  <1> HIDE DEF At, Has, Onward, OnTheWay
  <1>8. TooLate => TooLate'
    <2>1. Onward <= last - Len(ring) => Onward <= last' - Len(ring')
      BY <1>2, <1>5
    <2>2. At[2] < last => At[2] < last'
      BY <1>2, <1>5
    <2> QED
      BY <1>3, <1>4, <2>1, <2>2 DEF TooLate
  <1>9. ASSUME NEW j \in Jobs, job'[j].rank = job[j].rank, Learns(j), Owed(j) => Learns(j)'
        PROVE  Learns(j)'
    <2>1. \A e : Tells(j, e) => Tells(j, e)'
      BY <1>9 DEF Tells
    <2>2. OnItsWay(j) => OnItsWay(j)'
      BY <1>3, <1>9 DEF OnItsWay, Tells
    <2>3. ASSUME NEW i \in 1..Len(ring), ring[i].seq > At[2], ring[i].seq >= Onward,
                 Tells(j, ring[i].event)
          PROVE  InTheRing(j)' \/ TooLate'
      <3>1. CASE \E k \in 1..Len(ring') : ring'[k] = ring[i]
        BY <1>3, <1>4, <1>9, <2>3, <3>1 DEF InTheRing, Tells
      <3>2. CASE ring[i].seq <= last' - Len(ring')
        <4>1. Onward <= last' - Len(ring') /\ At[2] < last'
          BY <1>2, <1>5, <2>3, <3>2
        <4> QED
          BY <1>3, <1>4, <4>1 DEF TooLate
      <3> QED
        BY <1>2, <3>1, <3>2
    <2>4. InTheRing(j) => Learns(j)'
      BY <2>3 DEF InTheRing, Learns
    <2>5. job[j].rank <= Has[j].rank => job'[j].rank <= Has'[j].rank
      BY <1>3, <1>9
    <2> QED
      BY <1>8, <1>9, <2>2, <2>4, <2>5 DEF Learns
  <1>10. CASE EngineStep
    <2>1. \A j \in Jobs : IF job'[j].rank = job[j].rank THEN Owed(j) => Owed(j)' ELSE Owed(j)'
      BY <1>0, <1>7, <1>10, EngineTells
    <2>2. feed'.phase = "on"
      BY <1>0, <1>7, <1>10, EngineMoves DEF TellInv
    <2>3. ASSUME NEW j \in Jobs PROVE Learns(j)'
      <3>1. CASE job'[j].rank = job[j].rank
        BY <1>7, <1>9, <2>1, <3>1 DEF Learns
      <3>2. CASE job'[j].rank # job[j].rank
        BY <2>1, <3>2 DEF Learns
      <3> QED
        BY <3>1, <3>2
    <2> QED
      BY <2>2, <2>3
  <1>11. CASE FeedStep
    <2>1. /\ job' = job /\ feed'.phase = "on" /\ \A j \in Jobs : Paid(j)
      BY <1>0, <1>7, <1>11, FeedTells DEF FeedKeeps
    <2>2. ASSUME NEW j \in Jobs, NEW ev \in HubEvents, Publish(ev), Tells(j, ev)
          PROVE  InTheRing(j)'
      <3>1. /\ Len(ring') = Len(ring) + 1 - Leaving /\ Leaving \in {0, 1}
            /\ ring'[Len(ring')] = [seq |-> last + 1, event |-> ev]
        BY <1>0, <2>2, PublishedFrames DEF HubInv
      <3>2. Len(ring') \in 1..Len(ring')
        <4>1. Leaving = 1 => Len(ring) >= 1
          BY <1>0, <1>2, HubAssumption DEF Leaving
        <4> QED
          BY <1>2, <3>1, <4>1
      <3>3. ring'[Len(ring')].seq = last + 1 /\ ring'[Len(ring')].event = ev
        BY <3>1
      <3>4. last + 1 > At[2] /\ last + 1 >= Onward
        BY <1>2, <1>5, <1>6
      <3>5. Tells(j, ev)'
        BY <2>1, <2>2 DEF Tells
      <3> DEFINE k == Len(ring')
      <3>6. k \in 1..Len(ring') /\ ring'[k].seq > At'[2] /\ ring'[k].seq >= Onward'
            /\ ring'[k].event = ev
        BY <1>3, <1>4, <3>2, <3>3, <3>4
      <3> HIDE DEF k
      <3> QED
        BY <2>1, <3>5, <3>6 DEF InTheRing, Tells
    <2>3. ASSUME NEW j \in Jobs PROVE Learns(j)'
      <3>1. Owed(j) => Learns(j)'
        BY <2>1, <2>2 DEF Paid, Learns
      <3> QED
        BY <1>7, <1>9, <2>1, <3>1
    <2> QED
      BY <2>1, <2>3
  <1> QED
    BY <1>10, <1>11 DEF ServerStep

\* The range of a sequence of frames.
LEMMA RangeOf ==
  ASSUME NEW s \in Seq(Frames)
  PROVE  /\ \A i \in 1..Len(s) : s[i] \in Range(s)
         /\ \A f \in Range(s) : \E i \in 1..Len(s) : f = s[i]
BY DEF Range

\* What the pump reads is on its way.
LEMMA PumpLearns ==
  ASSUME TypedInv, OrderInv, LearnInv, Pump
  PROVE  LearnInv'
PROOF
  <1>0. /\ ServerTyped /\ ClientTyped /\ ReadTyped
        /\ At \in Ids /\ At[2] \in Nat /\ Has \in Views /\ last \in Nat /\ Len(ring) \in Nat
        /\ \A i \in 1..Len(ring) : ring[i].seq \in Nat /\ ring[i].seq <= last
        /\ \A j \in Jobs : job[j].rank \in 0..3 /\ Has[j].rank \in 0..3
    BY TypedRead, LearnFacts DEF TypedInv
  <1>1. /\ es = "open" /\ UNCHANGED feedVars
        /\ UNCHANGED <<es, lastId, gate, buffer, load, view>>
        /\ UNCHANGED <<instance, last, ring, job, up, feed>>
    BY DEF Pump, clientVars, feedVars, hubVars, engineVars
  <1>2. At' = At /\ Has' = Has /\ (Follower' <=> Follower) /\ Onward = next
    BY <1>1 DEF At, Has, Built, Follower, Reads, Buffering, Onward
  <1>3. PICK read \in Seq(Frames) :
          /\ wire' = wire \o read /\ read # <<>> /\ ReadsRing(read)
    BY <1>0, PumpReads
  <1>4. /\ Range(wire) \subseteq Range(wire') /\ Range(read) \subseteq Range(wire')
    <2>0. wire \in Seq(Frames)
      BY <1>0 DEF ReadTyped
    <2>1. /\ Len(wire') = Len(wire) + Len(read) /\ Len(wire) \in Nat /\ Len(read) \in Nat
          /\ wire' \in Seq(Frames)
          /\ \A i \in 1..Len(wire) : wire'[i] = wire[i]
          /\ \A i \in 1..Len(read) : wire'[Len(wire) + i] = read[i]
      BY <1>0, <1>3, ConcatProperties DEF ReadTyped
    <2>2. ASSUME NEW i \in 1..Len(wire) PROVE wire[i] \in Range(wire')
      <3>1. i \in 1..Len(wire') /\ wire'[i] = wire[i]
        BY <2>1
      <3> QED
        BY <2>1, <3>1, RangeOf
    <2>3. ASSUME NEW i \in 1..Len(read) PROVE read[i] \in Range(wire')
      <3>1. Len(wire) + i \in 1..Len(wire')
        BY <2>1
      <3> QED
        BY <2>1, <3>1, RangeOf
    <2> QED
      BY <1>3, <2>0, <2>2, <2>3, RangeOf
  <1>5. OnTheWay \subseteq OnTheWay' /\ Range(read) \subseteq OnTheWay'
    BY <1>1, <1>4 DEF OnTheWay
  <1> SUFFICES ASSUME Follower', up', At'[1] = instance'
               PROVE  feed'.phase = "on" /\ \A j \in Jobs : Learns(j)'
    BY DEF LearnInv
  <1>6. At[1] = instance /\ feed.phase = "on" /\ \A j \in Jobs : Learns(j)
    BY <1>1, <1>2 DEF LearnInv
  <1> HIDE DEF At, Has, Onward, OnTheWay
  <1>7. ASSUME NEW j \in Jobs PROVE OnItsWay(j) => OnItsWay(j)'
    BY <1>1, <1>2, <1>5 DEF OnItsWay, Tells
  <1>8. CASE read = <<[id |-> Cursor, event |-> Resync]>>
    <2>1. [id |-> Cursor, event |-> Resync] \in OnTheWay'
      <3>1. Len(read) = 1 /\ read[1] = [id |-> Cursor, event |-> Resync]
        BY <1>8
      <3> QED
        BY <1>3, <1>5, <3>1 DEF Range
    <2>2. ASSUME NEW j \in Jobs, At[2] < last PROVE OnItsWay(j)'
      <3> DEFINE f == [id |-> Cursor, event |-> Resync]
      <3>1. f \in OnTheWay' /\ f.id[1] = At'[1] /\ f.id[2] > At'[2] /\ f.event = Resync
        BY <1>0, <1>1, <1>2, <1>6, <2>1, <2>2 DEF Cursor
      <3> HIDE DEF f
      <3> QED
        BY <3>1 DEF OnItsWay, Tells
    <2>3. ASSUME NEW j \in Jobs PROVE Learns(j)'
      <3>1. InTheRing(j) => Learns(j)'
        <4>1. InTheRing(j) => At[2] < last
          BY <1>0 DEF InTheRing
        <4> QED
          BY <2>2, <4>1 DEF Learns
      <3>2. TooLate => Learns(j)'
        BY <2>2 DEF TooLate, Learns
      <3>3. Has'[j].rank \in 0..3 /\ Has[j].rank <= Has'[j].rank
        BY <1>0, <1>2
      <3>4. OnItsWay(j) => Learns(j)'
        BY <1>7 DEF Learns
      <3> QED
        BY <1>1, <1>6, <3>1, <3>2, <3>3, <3>4, StillLearns
    <2> QED
      BY <1>1, <1>6, <2>3
  <1>9. CASE /\ next > last - Len(ring)
             /\ \A k \in 1..Len(ring) :
                  ring[k].seq >= next => \E i \in 1..Len(read) : Carries(read[i], ring[k])
    <2>1. ASSUME NEW j \in Jobs PROVE InTheRing(j) => OnItsWay(j)'
      <3> SUFFICES ASSUME NEW k \in 1..Len(ring), ring[k].seq > At[2], ring[k].seq >= next,
                          Tells(j, ring[k].event)
                   PROVE  OnItsWay(j)'
        BY <1>2 DEF InTheRing
      <3>1. PICK i \in 1..Len(read) : Carries(read[i], ring[k])
        BY <1>9
      <3>2. read[i] \in OnTheWay'
        BY <1>3, <1>5 DEF Range
      <3> DEFINE f == read[i]
      <3>3. /\ f \in OnTheWay' /\ f.id[1] = At'[1] /\ f.id[2] > At'[2] /\ f.event = ring[k].event
        BY <1>1, <1>2, <1>6, <3>1, <3>2 DEF Carries
      <3> HIDE DEF f
      <3> QED
        BY <1>1, <3>3 DEF OnItsWay, Tells
    <2>2. ~TooLate
      <3>1. ~(next <= last - Len(ring))
        BY <1>0, <1>9 DEF ReadTyped
      <3> QED
        BY <1>2, <3>1 DEF TooLate
    <2>3. ASSUME NEW j \in Jobs PROVE Learns(j)'
      <3>1. InTheRing(j) => Learns(j)'
        BY <2>1 DEF Learns
      <3>2. TooLate => Learns(j)'
        BY <2>2
      <3>3. Has'[j].rank \in 0..3 /\ Has[j].rank <= Has'[j].rank
        BY <1>0, <1>2
      <3>4. OnItsWay(j) => Learns(j)'
        BY <1>7 DEF Learns
      <3> QED
        BY <1>1, <1>6, <3>1, <3>2, <3>3, <3>4, StillLearns
    <2> QED
      BY <1>1, <1>6, <2>3
  <1> QED
    BY <1>3, <1>8, <1>9 DEF ReadsRing

\* A stream that opens again goes on where it was, or tells that it cannot.
LEMMA OpenLearns ==
  ASSUME TypedInv, OrderInv, LearnInv, StreamOpens
  PROVE  LearnInv'
PROOF
  <1>0. /\ ReadTyped /\ PhaseInv
        /\ At \in Ids /\ At[2] \in Nat /\ Has \in Views /\ last \in Nat /\ Len(ring) \in Nat
        /\ Onward \in Nat
        /\ \A i \in 1..Len(ring) : ring[i].seq \in Nat /\ ring[i].seq <= last
        /\ \A j \in Jobs : job[j].rank \in 0..3 /\ Has[j].rank \in 0..3
    BY TypedRead, LearnFacts DEF TypedInv
  <1>1. /\ es = "connecting" /\ es' = "open" /\ next' = StartAt(lastId) /\ UNCHANGED feedVars
        /\ wire' = IF Honours(lastId) THEN <<>> ELSE <<[id |-> Cursor, event |-> Resync]>>
        /\ UNCHANGED <<lastId, gate, buffer, load, view>>
        /\ UNCHANGED <<instance, last, ring, job, up, feed>>
    BY DEF StreamOpens, feedVars, hubVars, engineVars
  <1>2. At' = At /\ Has' = Has /\ (Follower' <=> Follower) /\ Onward' = next'
        /\ Onward = IF lastId[1] = instance THEN lastId[2] + 1 ELSE 0
    BY <1>1 DEF At, Has, Built, Follower, Reads, Buffering, Onward
  <1>3. OnTheWay \subseteq OnTheWay' /\ Range(wire') \subseteq OnTheWay'
    <2>1. Range(wire) = {}
      BY <1>0, <1>1 DEF PhaseInv, Range
    <2> QED
      BY <1>1, <2>1 DEF OnTheWay
  <1> SUFFICES ASSUME Follower', up', At'[1] = instance'
               PROVE  feed'.phase = "on" /\ \A j \in Jobs : Learns(j)'
    BY DEF LearnInv
  <1>4. At[1] = instance /\ feed.phase = "on" /\ \A j \in Jobs : Learns(j)
    BY <1>1, <1>2 DEF LearnInv
  <1> HIDE DEF At, Has, Onward, OnTheWay
  <1>5. ASSUME NEW j \in Jobs PROVE Has'[j].rank \in 0..3 /\ Has[j].rank <= Has'[j].rank
    BY <1>0, <1>2
  <1>6. CASE Honours(lastId)
    <2>1. Onward' = Onward
      BY <1>1, <1>2, <1>6 DEF StartAt, Honours
    <2>2. Onward' \in Nat /\ Onward' <= Onward
      BY <1>0, <2>1
    <2> QED
      BY <1>1, <1>2, <1>3, <1>4, <1>5, <2>2, LearnsOn
  <1>7. CASE ~Honours(lastId)
    <2>1. [id |-> Cursor, event |-> Resync] \in OnTheWay'
      <3>1. Len(wire') = 1 /\ wire'[1] = [id |-> Cursor, event |-> Resync]
            /\ wire' = <<[id |-> Cursor, event |-> Resync]>>
        BY <1>1, <1>7
      <3>2. [id |-> Cursor, event |-> Resync] \in Range(wire')
        BY <3>1 DEF Range
      <3> QED
        BY <1>3, <3>2
    <2>2. ASSUME NEW j \in Jobs, At[2] < last PROVE OnItsWay(j)'
      <3> DEFINE f == [id |-> Cursor, event |-> Resync]
      <3>1. f \in OnTheWay' /\ f.id[1] = At'[1] /\ f.id[2] > At'[2] /\ f.event = Resync
        BY <1>0, <1>1, <1>2, <1>4, <2>1, <2>2 DEF Cursor
      <3> HIDE DEF f
      <3> QED
        BY <3>1 DEF OnItsWay, Tells
    <2>3. ASSUME NEW j \in Jobs PROVE Learns(j)'
      <3>1. InTheRing(j) => Learns(j)'
        <4>1. InTheRing(j) => At[2] < last
          BY <1>0 DEF InTheRing
        <4> QED
          BY <2>2, <4>1 DEF Learns
      <3>2. TooLate => Learns(j)'
        BY <2>2 DEF TooLate, Learns
      <3>3. OnItsWay(j) => OnItsWay(j)'
        BY <1>1, <1>2, <1>3 DEF OnItsWay, Tells
      <3>4. OnItsWay(j) => Learns(j)'
        BY <3>3 DEF Learns
      <3> QED
        BY <1>1, <1>4, <1>5, <3>1, <3>2, <3>4, StillLearns
    <2> QED
      BY <1>1, <1>4, <2>3
  <1> QED
    BY <1>6, <1>7

\* What is received is buffered for the snapshot, applied, or answered with another one.
LEMMA ReceiveLearns ==
  ASSUME TypedInv, OrderInv, TellInv, ShownInv, LearnInv, Receive
  PROVE  LearnInv'
PROOF
  <1>0. /\ ServerTyped /\ EngineInv /\ ClientTyped /\ ReadTyped /\ PhaseInv
        /\ At \in Ids /\ At[2] \in Nat /\ Has \in Views /\ last \in Nat /\ Len(ring) \in Nat
        /\ \A i \in 1..Len(ring) : ring[i].seq \in Nat /\ ring[i].seq <= last
        /\ \A j \in Jobs : job[j].rank \in 0..3 /\ Has[j].rank \in 0..3
    BY TypedRead, LearnFacts DEF TypedInv, ServerTyped
  <1>1. /\ es = "open" /\ wire # <<>> /\ UNCHANGED feedVars /\ UNCHANGED <<es, next>>
        /\ UNCHANGED <<instance, last, ring, job, up, feed>>
        /\ wire' = Tail(wire) /\ lastId' = Head(wire).id
    BY DEF Receive, feedVars, hubVars, engineVars
  <1> DEFINE h == Head(wire)
             t == Tail(wire)
  <1>2. /\ h = wire[1] /\ h \in Frames /\ 1 \in 1..Len(wire) /\ Len(wire) \in Nat
        /\ t \in Seq(Frames) /\ Len(t) = Len(wire) - 1
        /\ \A i \in 1..Len(t) : t[i] = wire[i + 1]
    BY <1>0, <1>1, HeadTailProperties DEF ReadTyped
  <1> HIDE DEF t
  <1>3. \A i \in 2..Len(wire) : wire[i] \in Range(t)
    <2> SUFFICES ASSUME NEW i \in 2..Len(wire) PROVE wire[i] \in Range(t)
      OBVIOUS
    <2>1. i - 1 \in 1..Len(t) /\ (i - 1) + 1 = i
      BY <1>2
    <2>2. t[i - 1] = wire[i]
      BY <1>2, <2>1
    <2> QED
      BY <1>2, <2>1, <2>2, RangeOf
  <1> HIDE DEF h
  <1>4. wire \in Seq(Frames) /\ buffer \in Seq(Frames) /\ wire' = t
    BY <1>0, <1>1 DEF ReadTyped, t
  <1>5. Range(wire) \subseteq {h} \cup Range(t)
    <2> SUFFICES ASSUME NEW f \in Range(wire) PROVE f \in {h} \cup Range(t)
      OBVIOUS
    <2>1. PICK i \in 1..Len(wire) : f = wire[i]
      BY <1>4, RangeOf
    <2>2. CASE i = 1
      BY <1>2, <2>1, <2>2
    <2>3. CASE i # 1
      <3>1. i \in 2..Len(wire)
        BY <1>2, <2>3
      <3> QED
        BY <1>3, <2>1, <3>1
    <2> QED
      BY <2>2, <2>3
  <1>6. Onward = next /\ Onward' = next
    BY <1>1 DEF Onward
  <1> SUFFICES ASSUME Follower', up', At'[1] = instance'
               PROVE  feed'.phase = "on" /\ \A j \in Jobs : Learns(j)'
    BY DEF LearnInv
  <1>7. CASE Buffering
    <2>1. buffer' = Append(buffer, h) /\ UNCHANGED <<gate, view, load>>
      BY <1>7 DEF Receive, h
    <2>2. At' = At /\ Has' = Has /\ (Follower' <=> Follower)
      BY <1>1, <2>1 DEF At, Has, Built, Follower, Reads, Buffering
    <2>3. Range(buffer) \cup {h} \subseteq Range(buffer')
      <3>1. /\ buffer' \in Seq(Frames) /\ Len(buffer') = Len(buffer) + 1
            /\ Len(buffer) \in Nat /\ buffer'[Len(buffer) + 1] = h
            /\ \A i \in 1..Len(buffer) : buffer'[i] = buffer[i]
        BY <1>2, <1>4, <2>1, AppendProperties
      <3>2. Len(buffer) + 1 \in 1..Len(buffer')
            /\ \A i \in 1..Len(buffer) : i \in 1..Len(buffer')
        BY <3>1
      <3>3. h \in Range(buffer')
        BY <3>1, <3>2, RangeOf
      <3>4. ASSUME NEW f \in Range(buffer) PROVE f \in Range(buffer')
        <4>1. PICK i \in 1..Len(buffer) : f = buffer[i]
          BY <1>4, RangeOf
        <4> QED
          BY <3>1, <3>2, <4>1, RangeOf
      <3> QED
        BY <3>3, <3>4
    <2>4. OnTheWay \subseteq OnTheWay'
      BY <1>4, <1>5, <2>3 DEF OnTheWay
    <2>5. feed'.phase = "on" /\ \A j \in Jobs : Learns(j)
      BY <1>1, <2>2 DEF LearnInv
    <2>6. ASSUME NEW j \in Jobs
          PROVE  /\ Has'[j].rank \in 0..3 /\ Has[j].rank <= Has'[j].rank
                 /\ Onward' \in Nat /\ Onward' <= Onward
      BY <1>0, <1>6, <2>2 DEF ReadTyped
    <2> QED
      BY <1>1, <2>2, <2>4, <2>5, <2>6, LearnsOn
  <1>8. CASE ~Buffering
    <2> DEFINE s0 == [gate |-> gate, view |-> view, again |-> FALSE]
               s == Pass(s0, h)
    <2>1. ~Built /\ At = gate /\ Has = view /\ buffer = <<>>
      <3>1. ~Built
        BY <1>0, <1>1, <1>8 DEF Built, ClientTyped, LoadStates, NoLoad, Kinds, PhaseInv, Buffering
      <3> QED
        BY <1>0, <1>8, <3>1 DEF At, Has, PhaseInv
    <2>2. Take(s)
      BY <1>8 DEF Receive, h
    <2>3. s0 \in PassStates /\ Shows(s0.view) /\ s0.gate = gate /\ s0.view = view
      BY <1>0 DEF ClientTyped, PassStates, ShownInv
    <2>4. Behind(h.event)
      BY <1>2 DEF ShownInv
    <2> HIDE DEF s0
    <2>5. /\ s \in PassStates /\ s.gate \in {gate, h.id} /\ Gains(view, s.view)
          /\ ~s.again => /\ h.id[1] = gate[1]
                         /\ ~Upto(h.id, gate) => HasHeard(s.view, h.event)
      BY <1>0, <1>2, <2>3, <2>4, PassLearns
    <2> HIDE DEF s
    <2>6. /\ gate' = s.gate /\ view' = s.view /\ buffer' = <<>>
          /\ load' = IF s.again THEN Loading("resync") ELSE NoLoad
      BY <2>2 DEF Take
    <2>7. ~s.again
      BY <2>6 DEF Follower, Built, Buffering, Loading
    <2>8. At' = gate' /\ Has' = view'
      BY <2>6, <2>7 DEF At, Has, Built, NoLoad
    <2>9. Follower
      BY <1>1, <1>8 DEF Follower, Reads
    <2>10. /\ At' \in {At, h.id} /\ h.id[1] = At[1] /\ Gains(Has, Has')
           /\ ~Upto(h.id, At) => HasHeard(Has', h.event)
      BY <2>1, <2>5, <2>6, <2>7, <2>8
    <2>11. /\ h.id \in Ids /\ h.id[1] \in Nat /\ h.id[2] \in Nat /\ At'[2] \in Nat
           /\ At'[1] = At[1] /\ At[1] = instance
           /\ next \in Nat /\ h.id[2] < next
      <3>1. h.id \in Ids /\ h.id[1] \in Nat /\ h.id[2] \in Nat
        BY <1>2 DEF Frames, Ids
      <3>2. At'[2] \in Nat /\ At'[1] = At[1] /\ At[1] = instance
        <4> HIDE DEF At
        <4> QED
          BY <1>0, <1>1, <2>10, <3>1
      <3>3. Upto(h.id, <<instance, next - 1>>)
        BY <1>1, <1>2, WireRises
      <3>4. h.id[1] = instance /\ next \in Nat
        BY <1>0, <2>10, <3>2 DEF ReadTyped
      <3> QED
        BY <3>1, <3>2, <3>3, <3>4 DEF Upto
    <2>12. feed'.phase = "on" /\ \A j \in Jobs : Learns(j)
      BY <1>1, <2>9, <2>11 DEF LearnInv
    <2>13. OnTheWay \subseteq {h} \cup Range(t) /\ OnTheWay' = Range(t)
      <3>1. Range(buffer) = {} /\ Range(buffer') = {}
        BY <2>1, <2>6 DEF Range
      <3>2. OnTheWay = Range(wire) \cup Range(buffer) /\ OnTheWay' = Range(t) \cup Range(buffer')
        BY <1>4 DEF OnTheWay
      <3> QED
        BY <1>5, <3>1, <3>2
    <2>14. ASSUME NEW f \in Range(t), f.id[1] = At[1], f.id[2] > At[2] PROVE f.id[2] > At'[2]
      <3>1. PICK i \in 1..Len(t) : f = t[i]
        BY <1>2, RangeOf
      <3>2. i + 1 \in 2..Len(wire) /\ f = wire[i + 1]
        BY <1>2, <3>1
      <3>3. Before(h.id, f.id)
        BY <1>1, <1>2, <3>2, WireRises
      <3>4. f.id[1] \in Nat /\ f.id[2] \in Nat
        <4>1. f \in Frames
          BY <1>2, <3>1
        <4> QED
          BY <4>1 DEF Frames, Ids
      <3> HIDE DEF At
      <3>5. h.id[2] < f.id[2]
        BY <2>10, <2>11, <3>3, <3>4, <2>14 DEF Before
      <3> QED
        BY <2>10, <2>14, <3>5
    <2> HIDE DEF At, Has, Onward, OnTheWay
    <2>15. ASSUME NEW j \in Jobs PROVE Learns(j)'
      <3>1. Has'[j].rank \in 0..3 /\ Has[j].rank <= Has'[j].rank
        <4>1. Has' \in Views
          BY <2>5, <2>6, <2>8 DEF PassStates
        <4> QED
          BY <2>10, <4>1 DEF Gains, Views, Ranks, None, Terminal
      <3>2. ASSUME NEW f \in OnTheWay, f.id[1] = At[1], f.id[2] > At[2], Tells(j, f.event)
            PROVE  Learns(j)'
        <4>1. CASE f \in Range(t)
          <5>1. f \in OnTheWay' /\ f.id[1] = At'[1] /\ f.id[2] > At'[2]
            BY <2>11, <2>13, <2>14, <3>2, <4>1
          <5> QED
            BY <1>1, <3>2, <5>1 DEF OnItsWay, Tells, Learns
        <4>2. CASE f = h
          <5>1. ~Upto(h.id, At)
            BY <1>0, <2>11, <3>2, <4>2 DEF Upto
          <5>2. HasHeard(Has', f.event) /\ Tells(j, f.event)
            BY <2>10, <3>2, <4>2, <5>1
          <5>3. job'[j].rank <= Has'[j].rank
            BY <1>1, <5>2 DEF HasHeard, Tells
          <5> QED
            BY <5>3 DEF Learns
        <4> QED
          BY <2>13, <4>1, <4>2
      <3>3. OnItsWay(j) => Learns(j)'
        BY <3>2 DEF OnItsWay
      <3>4. ASSUME NEW i \in 1..Len(ring), ring[i].seq > At[2], ring[i].seq >= Onward,
                   Tells(j, ring[i].event)
            PROVE  Learns(j)'
        <4>1. ring[i].seq > At'[2] /\ ring'[i].seq >= Onward'
          BY <1>0, <1>1, <1>6, <2>10, <2>11, <3>4
        <4> QED
          BY <1>1, <3>4, <4>1 DEF InTheRing, Tells, Learns
      <3>5. InTheRing(j) => Learns(j)'
        BY <3>4 DEF InTheRing
      <3>6. TooLate => TooLate'
        <4> SUFFICES ASSUME next <= last - Len(ring), At[2] < last
                     PROVE  At'[2] < last
          BY <1>1, <1>6 DEF TooLate
        <4> QED
          BY <1>0, <2>10, <2>11
      <3> QED
        BY <1>1, <2>12, <3>1, <3>3, <3>5, <3>6, StillLearns DEF Learns
    <2> QED
      BY <2>12, <2>15
  <1> QED
    BY <1>7, <1>8

\* The snapshot of a resync has all up to its cursor, and what waited comes on top.
LEMMA ResyncLearns ==
  ASSUME TypedInv, OrderInv, TellInv, ShownInv, LearnInv, Resynced
  PROVE  LearnInv'
PROOF
  <1>0. /\ ServerTyped /\ EngineInv /\ ClientTyped /\ ReadTyped /\ PhaseInv
        /\ At \in Ids /\ At[1] \in Nat /\ At[2] \in Nat /\ Has \in Views
        /\ last \in Nat /\ Len(ring) \in Nat /\ Onward \in Nat
        /\ \A i \in 1..Len(ring) : ring[i].seq \in Nat /\ ring[i].seq <= last
        /\ \A j \in Jobs : job[j].rank \in 0..3 /\ Has[j].rank \in 0..3
        /\ buffer \in Seq(Frames) /\ wire \in Seq(Frames) /\ lastId \in Ids
    BY TypedRead, LearnFacts DEF TypedInv, ServerTyped, ReadTyped
  <1> DEFINE s0 == [gate |-> load.cursor, view |-> load.jobs, again |-> FALSE]
             s == Replayed(s0)
  <1>1. /\ load.phase = "built" /\ load.kind = "resync" /\ Take(s)
        /\ UNCHANGED feedVars /\ UNCHANGED <<wire, next, es, lastId>>
        /\ UNCHANGED <<instance, last, ring, job, up, feed>>
    BY DEF Resynced, SnapshotCursor, feedVars, hubVars, engineVars, streamVars
  <1>2. At = load.cursor /\ Has = load.jobs /\ Built /\ Buffering
    BY <1>1 DEF At, Has, Built, Buffering
  <1>3. s0 \in PassStates /\ s0.view = Has /\ Shows(s0.view) /\ s0.gate = At
    BY <1>0, <1>1, <1>2 DEF PassStates, ShownInv
  <1> HIDE DEF s0
  <1>4. /\ s \in PassStates /\ s.gate[1] = At[1] /\ Gains(Has, s.view)
        /\ s.gate = At \/ \E i \in 1..Len(buffer) : s.gate = buffer[i].id
        /\ Line(buffer) /\ ~s.again =>
             \A i \in 1..Len(buffer) :
               ~Upto(buffer[i].id, At) => HasHeard(s.view, buffer[i].event)
    BY <1>0, <1>3, ReplayLearns DEF ShownInv
  <1> HIDE DEF s
  <1>5. /\ gate' = s.gate /\ view' = s.view /\ buffer' = <<>>
        /\ load' = IF s.again THEN Loading("resync") ELSE NoLoad
    BY <1>1 DEF Take
  <1> SUFFICES ASSUME Follower', up', At'[1] = instance'
               PROVE  feed'.phase = "on" /\ \A j \in Jobs : Learns(j)'
    BY DEF LearnInv
  <1>6. ~s.again
    BY <1>5 DEF Follower, Built, Buffering, Loading
  <1>7. At' = s.gate /\ Has' = s.view /\ OnTheWay' = Range(wire)
    BY <1>1, <1>5, <1>6 DEF At, Has, Built, NoLoad, OnTheWay, Range
  <1>8. Reads /\ Follower
    BY <1>0, <1>1, <1>2 DEF Reads, Follower, PhaseInv, ClientTyped
  <1>9. At'[1] = At[1] /\ At[1] = instance /\ At' \in Ids /\ At'[2] \in Nat
    <2>1. s.gate \in Ids
      BY <1>4 DEF PassStates
    <2> HIDE DEF At
    <2> QED
      BY <1>1, <1>4, <1>7, <2>1 DEF Ids
  <1>10. feed'.phase = "on" /\ \A j \in Jobs : Learns(j)
    BY <1>1, <1>8, <1>9 DEF LearnInv
  <1>11. Onward' = Onward
    BY <1>1, <1>8 DEF Onward, Reads
  <1>12. Line(buffer) /\ \A i \in 1..Len(buffer) : Upto(buffer[i].id, lastId)
    BY <1>8 DEF OrderInv, BufferInv
  <1> HIDE DEF At, Has, Onward, OnTheWay
  <1>13. At' = At \/ (Upto(At', lastId) /\ At'[2] < Onward)
    <2>1. CASE s.gate = At
      BY <1>7, <2>1
    <2>2. CASE \E i \in 1..Len(buffer) : s.gate = buffer[i].id
      <3>1. Upto(s.gate, lastId) /\ s.gate \in Ids /\ s.gate[1] = instance
        BY <1>4, <1>9, <1>12, <2>2 DEF PassStates
      <3>2. s.gate[2] < Onward
        BY <1>8, <3>1, OnwardIsAhead
      <3> QED
        BY <1>7, <3>1, <3>2
    <2> QED
      BY <1>4, <2>1, <2>2
  <1>14. ASSUME NEW j \in Jobs PROVE Learns(j)'
    <2>1. Has'[j].rank \in 0..3 /\ Has[j].rank <= Has'[j].rank
      <3>1. Has' \in Views
        BY <1>4, <1>7 DEF PassStates
      <3> QED
        BY <1>4, <1>7, <3>1 DEF Gains, Views, Ranks, None, Terminal
    <2>2. ASSUME NEW f \in Range(buffer), f.id[1] = At[1], f.id[2] > At[2], Tells(j, f.event)
          PROVE  Learns(j)'
      <3>1. PICK i \in 1..Len(buffer) : f = buffer[i]
        BY <1>0, RangeOf
      <3>2. f.id[1] \in Nat /\ f.id[2] \in Nat
        <4>1. f \in Frames
          BY <1>0, <3>1, FramesOf
        <4> QED
          BY <4>1 DEF Frames, Ids
      <3>3. ~Upto(f.id, At)
        BY <1>0, <2>2, <3>2 DEF Upto
      <3>4. HasHeard(Has', f.event) /\ Tells(j, f.event)
        BY <1>4, <1>6, <1>7, <1>12, <2>2, <3>1, <3>3
      <3>5. job'[j].rank <= Has'[j].rank
        BY <1>1, <3>4 DEF HasHeard, Tells
      <3> QED
        BY <3>5 DEF Learns
    <2>3. ASSUME NEW f \in Range(wire), f.id[1] = At[1], f.id[2] > At[2], Tells(j, f.event)
          PROVE  Learns(j)'
      <3>1. PICK i \in 1..Len(wire) : f = wire[i]
        BY <1>0, RangeOf
      <3>2. f.id[1] \in Nat /\ f.id[2] \in Nat /\ f.id \in Ids
        <4>1. f \in Frames
          BY <1>0, <3>1, FramesOf
        <4> QED
          BY <4>1 DEF Frames, Ids
      <3>3. f.id[2] > At'[2]
        <4>1. CASE At' = At
          BY <2>3, <4>1
        <4>2. CASE Upto(At', lastId)
          <5>1. es = "open"
            <6>1. wire # <<>>
              BY <3>1
            <6> QED
              BY <1>0, <6>1 DEF PhaseInv
          <5>2. Before(lastId, f.id)
            BY <3>1, <5>1, WireRises
          <5>3. Before(At', f.id)
            BY <1>0, <1>9, <3>2, <4>2, <5>2, BeforeIsOrder
          <5> QED
            BY <1>0, <1>9, <2>3, <3>2, <5>3 DEF Before
        <4> QED
          BY <1>13, <4>1, <4>2
      <3> QED
        BY <1>1, <1>7, <1>9, <2>3, <3>3 DEF OnItsWay, Tells, Learns
    <2>4. OnItsWay(j) => Learns(j)'
      BY <2>2, <2>3 DEF OnItsWay, OnTheWay
    <2>5. ASSUME NEW i \in 1..Len(ring), ring[i].seq > At[2], ring[i].seq >= Onward,
                 Tells(j, ring[i].event)
          PROVE  Learns(j)'
      <3>1. ring[i].seq > At'[2] /\ ring[i].seq >= Onward'
        BY <1>0, <1>9, <1>11, <1>13, <2>5
      <3> QED
        BY <1>1, <2>5, <3>1 DEF InTheRing, Tells, Learns
    <2>6. InTheRing(j) => Learns(j)'
      BY <2>5 DEF InTheRing
    <2>7. TooLate => TooLate'
      <3> SUFFICES ASSUME Onward <= last - Len(ring), At[2] < last
                   PROVE  At'[2] < last
        BY <1>1, <1>11 DEF TooLate
      <3> QED
        BY <1>0, <1>9, <1>13
    <2> QED
      BY <1>1, <1>10, <2>1, <2>4, <2>6, <2>7, StillLearns DEF Learns
  <1> QED
    BY <1>10, <1>14

\* What was on the wire is in the ring still, or has left it: the stream asks for it again.
LEMMA DropLearns ==
  ASSUME TypedInv, OrderInv, SourceInv, LearnInv, StreamDrops
  PROVE  LearnInv'
PROOF
  <1>0. /\ ReadTyped /\ PhaseInv /\ IdsInv
        /\ At \in Ids /\ At[1] \in Nat /\ At[2] \in Nat /\ Has \in Views
        /\ last \in Nat /\ Len(ring) \in Nat /\ Onward \in Nat /\ Len(ring) <= last
        /\ \A i \in 1..Len(ring) : ring[i].seq \in Nat /\ ring[i].seq <= last
        /\ \A j \in Jobs : job[j].rank \in 0..3 /\ Has[j].rank \in 0..3
        /\ buffer \in Seq(Frames) /\ wire \in Seq(Frames) /\ lastId \in Ids
        /\ lastId[1] \in Nat /\ lastId[2] \in Nat /\ instance \in Nat /\ next \in Nat \ {0}
    BY TypedRead, LearnFacts DEF TypedInv, ReadTyped, OrderInv, Ids
  <1>1. /\ es = "open" /\ es' = "connecting" /\ wire' = <<>> /\ UNCHANGED feedVars
        /\ UNCHANGED <<lastId, gate, buffer, load, view>>
        /\ UNCHANGED <<instance, last, ring, job, up, feed>>
    BY DEF StreamDrops, NoStream, feedVars, hubVars, engineVars
  <1>2. At' = At /\ Has' = Has /\ (Follower' <=> Follower) /\ Onward = next
        /\ OnTheWay' = Range(buffer)
        /\ Onward' = IF lastId[1] = instance THEN lastId[2] + 1 ELSE 0
    BY <1>1 DEF At, Has, Built, Follower, Reads, Buffering, Onward, OnTheWay, Range
  <1> SUFFICES ASSUME Follower', up', At'[1] = instance'
               PROVE  feed'.phase = "on" /\ \A j \in Jobs : Learns(j)'
    BY DEF LearnInv
  <1>3. At[1] = instance /\ feed.phase = "on" /\ \A j \in Jobs : Learns(j)
    BY <1>1, <1>2 DEF LearnInv
  <1> HIDE DEF At, Has, Onward
  <1>4. Onward' \in Nat /\ Onward' <= Onward
    <2>1. Upto(lastId, <<instance, next - 1>>)
      BY <1>1, WireRises
    <2>2. lastId[1] = instance => lastId[2] <= next - 1
      BY <1>0, <2>1 DEF Upto
    <2>3. /\ lastId[2] \in Nat /\ next \in Nat \ {0} /\ Onward = next
          /\ Onward' = IF lastId[1] = instance THEN lastId[2] + 1 ELSE 0
      BY <1>0, <1>2
    <2>4. CASE lastId[1] = instance
      BY <2>2, <2>3, <2>4
    <2>5. CASE lastId[1] # instance
      BY <2>3, <2>5
    <2> QED
      BY <2>4, <2>5
  <1>5. ASSUME NEW j \in Jobs PROVE Learns(j)'
    <2>1. Has'[j].rank \in 0..3 /\ Has[j].rank <= Has'[j].rank
      BY <1>0, <1>2
    <2>2. ASSUME NEW f \in Range(buffer), f.id[1] = At[1], f.id[2] > At[2], Tells(j, f.event)
          PROVE  Learns(j)'
      BY <1>1, <1>2, <2>2 DEF OnItsWay, Tells, Learns
    <2>3. ASSUME NEW f \in Range(wire), f.id[1] = At[1], f.id[2] > At[2], Tells(j, f.event)
          PROVE  Learns(j)'
      <3>1. PICK k \in 1..Len(wire) : f = wire[k]
        BY <1>0, RangeOf
      <3>2. f.id[1] \in Nat /\ f.id[2] \in Nat /\ f.id \in Ids /\ f.id[2] <= last
        <4>1. f \in Frames /\ Upto(f.id, Cursor)
          BY <1>0, <3>1, FramesOf DEF IdsInv
        <4> QED
          BY <1>0, <1>3, <2>3, <4>1 DEF Frames, Ids, Upto, Cursor
      <3>3. Sourced(f, Before1(k))
        BY <3>1 DEF SourceInv
      <3>4. At[2] < last
        BY <1>0, <2>3, <3>2
      <3>5. Onward' <= f.id[2]
        <4>1. Before(lastId, f.id)
          BY <1>1, <3>1, WireRises
        <4>2. lastId[1] = instance => lastId[2] < f.id[2]
          BY <1>0, <1>3, <2>3, <3>2, <4>1 DEF Before
        <4>3. /\ lastId[2] \in Nat
              /\ Onward' = IF lastId[1] = instance THEN lastId[2] + 1 ELSE 0
          BY <1>0, <1>2
        <4>4. CASE lastId[1] = instance
          BY <3>2, <4>2, <4>3, <4>4
        <4>5. CASE lastId[1] # instance
          BY <3>2, <4>3, <4>5
        <4> QED
          BY <4>4, <4>5
      <3>6. CASE f.id[2] <= last - Len(ring)
        <4>1. Onward' <= last - Len(ring)
          BY <1>0, <1>4, <3>2, <3>5, <3>6
        <4> QED
          BY <1>1, <1>2, <3>4, <4>1 DEF TooLate, Learns
      <3>7. ASSUME NEW i \in 1..Len(ring), Carries(f, ring[i]) PROVE Learns(j)'
        <4>1. ring[i].seq = f.id[2] /\ ring[i].event = f.event
          BY <3>7 DEF Carries
        <4>2. ring'[i].seq > At'[2] /\ ring'[i].seq >= Onward' /\ Tells(j, ring[i].event)
          BY <1>1, <1>2, <2>3, <3>5, <4>1
        <4> QED
          BY <1>1, <4>2 DEF InTheRing, Tells, Learns
      <3>8. CASE /\ f.event = Resync
                 /\ Before1(k)[1] # instance \/ Before1(k)[2] + 1 <= last - Len(ring)
        <4>1. Onward' <= last - Len(ring)
          <5>1. CASE k = 1
            BY <1>0, <1>2, <3>8, <5>1 DEF Before1
          <5>2. CASE k # 1
            <6>1. k - 1 \in 1..Len(wire) /\ Before1(k) = wire[k - 1].id
              BY <1>0, <5>2, FramesOf DEF Before1
            <6>2. Before1(k)[1] = instance /\ Before(lastId, Before1(k))
              BY <1>1, <6>1, WireRises DEF SourceInv, Sourced
            <6>3. Before1(k)[2] \in Nat
              BY <1>0, <6>1 DEF ReadTyped, Ids
            <6>4. lastId[1] = instance => lastId[2] < Before1(k)[2]
              BY <1>0, <6>2, <6>3 DEF Before
            <6> QED
              BY <1>0, <1>2, <3>8, <6>2, <6>3, <6>4
          <5> QED
            BY <5>1, <5>2
        <4> QED
          BY <1>1, <1>2, <3>4, <4>1 DEF TooLate, Learns
      <3> QED
        BY <3>3, <3>6, <3>7, <3>8 DEF Sourced
    <2>4. OnItsWay(j) => Learns(j)'
      BY <2>2, <2>3 DEF OnItsWay, OnTheWay
    <2>5. ASSUME NEW i \in 1..Len(ring), ring[i].seq > At[2], ring[i].seq >= Onward,
                 Tells(j, ring[i].event)
          PROVE  Learns(j)'
      <3>1. ring[i].seq > At'[2] /\ ring[i].seq >= Onward'
        BY <1>0, <1>2, <1>4, <2>5
      <3> QED
        BY <1>1, <2>5, <3>1 DEF InTheRing, Tells, Learns
    <2>6. InTheRing(j) => Learns(j)'
      BY <2>5 DEF InTheRing
    <2>7. TooLate => TooLate'
      <3>1. Onward <= last - Len(ring) => Onward' <= last - Len(ring)
        BY <1>0, <1>4
      <3> QED
        BY <1>1, <1>2, <3>1 DEF TooLate
    <2> QED
      BY <1>1, <1>3, <2>1, <2>4, <2>6, <2>7, StillLearns DEF Learns
  <1> QED
    BY <1>1, <1>3, <1>5

\* Every step leaves each job known or coming.
LEMMA LearnSteps ==
  ASSUME TypedInv, OrderInv, TellInv, ShownInv, ReadyInv, SourceInv, LearnInv, Next
  PROVE  LearnInv'
PROOF
  <1>0. /\ ReadTyped /\ PhaseInv /\ ClientTyped /\ EngineInv
        /\ At \in Ids /\ At[1] \in Nat /\ At[2] \in Nat /\ Has \in Views /\ Onward \in Nat
        /\ Upto(At, Cursor) /\ instance \in Nat \ {0}
        /\ \A j \in Jobs : job[j].rank \in 0..3 /\ Has[j].rank \in 0..3
    BY TypedRead, LearnFacts DEF TypedInv, ServerTyped
  <1>1. CASE ~Follower'
    BY <1>1 DEF LearnInv
  <1>2. CASE Stop
    BY <1>2 DEF Stop, LearnInv
  <1>3. CASE Start
    <2>1. /\ instance' = instance + 1 /\ UNCHANGED <<gate, load>>
      BY <1>3 DEF Start, HubRestart, clientVars
    <2>2. At' = At
      BY <2>1 DEF At, Built
    <2>3. At[1] <= instance
      BY <1>0 DEF Upto, Cursor
    <2> HIDE DEF At
    <2>4. At'[1] # instance'
      BY <1>0, <2>1, <2>2, <2>3
    <2> QED
      BY <2>4 DEF LearnInv
  <1>4. CASE ReadCursor
    <2>1. /\ load.phase = "sent" /\ load'.phase = "cursor" /\ load'.kind = load.kind /\ es' = es
      BY <1>4 DEF ReadCursor
    <2>2. load.kind \in {"connect", "resync"}
      BY <1>0, <2>1 DEF ClientTyped, LoadStates, NoLoad, Kinds
    <2>3. ~Follower'
      BY <1>0, <2>1, <2>2 DEF Follower, Built, Reads, Buffering, PhaseInv
    <2> QED
      BY <1>1, <2>3
  <1>5. CASE BuildSnapshot
    <2>1. /\ CursorRead /\ up /\ load.cursor[1] = instance /\ feed' = feed /\ job' = job
          /\ load'.phase = "built" /\ load'.jobs = job
      BY <1>5 DEF BuildSnapshot, CursorRead, feedVars, engineVars
    <2>2. feed'.phase = "on"
      BY <2>1 DEF ReadyInv
    <2>3. Has' = job
      BY <2>1 DEF Has, Built
    <2>4. \A j \in Jobs : job'[j].rank <= Has'[j].rank
      BY <1>0, <2>1, <2>3
    <2> QED
      BY <2>2, <2>4 DEF LearnInv, Learns
  <1>6. CASE StreamFails
    <2>1. (up => es' = "closed") /\ up' = up
      BY <1>6 DEF StreamFails, feedVars, engineVars
    <2> QED
      BY <2>1 DEF LearnInv, Follower
  <1>7. CASE StartRound \/ Lost
    <2>1. es' = "none" /\ load'.phase # "built"
      BY <1>7 DEF StartRound, Lost, NoFeed, Loading, NoLoad
    <2> QED
      BY <1>1, <2>1 DEF Follower, Built, Reads
  <1>8. CASE Refresh /\ ~StartRound
    <2>1. load' = Loading("resync")
      BY <1>8 DEF Refresh
    <2> QED
      BY <1>1, <2>1 DEF Follower, Built, Buffering, Loading
  <1>9. ASSUME UNCHANGED feedVars, At' = At, Onward' = Onward, OnTheWay' = OnTheWay,
               Follower' <=> Follower,
               \A j \in Jobs : Has'[j].rank \in 0..3 /\ Has[j].rank <= Has'[j].rank
        PROVE  LearnInv'
    <2>1. UNCHANGED <<instance, up, feed>>
      BY <1>9 DEF feedVars, hubVars, engineVars
    <2> SUFFICES ASSUME Follower', up', At'[1] = instance'
                 PROVE  feed'.phase = "on" /\ \A j \in Jobs : Learns(j)'
      BY DEF LearnInv
    <2> HIDE DEF At, Has, Onward, OnTheWay, Follower
    <2>2. feed'.phase = "on" /\ \A j \in Jobs : Learns(j)
      BY <1>9, <2>1 DEF LearnInv
    <2>3. Onward' \in Nat /\ Onward' <= Onward
      BY <1>0, <1>9
    <2> QED
      BY <1>9, <2>2, <2>3, LearnsOn
  <1>10. CASE SignIn \/ ProbeAnswers \/ \E j \in Jobs : Ask(j)
    <2>1. /\ UNCHANGED feedVars
          /\ UNCHANGED <<wire, next, es, lastId, gate, buffer, load, view, instance>>
      BY <1>10 DEF SignIn, ProbeAnswers, Ask, streamVars, feedVars, hubVars
    <2>2. At' = At /\ Has' = Has /\ OnTheWay' = OnTheWay /\ (Follower' <=> Follower)
      BY <2>1 DEF At, Has, Built, OnTheWay, Follower, Reads, Buffering
    <2>3. Onward' = Onward
      BY <2>1, <2>2 DEF Onward
    <2>4. \A j \in Jobs : Has'[j].rank \in 0..3 /\ Has[j].rank <= Has'[j].rank
      <3> HIDE DEF Has
      <3> QED
        BY <1>0, <2>2
    <2> QED
      BY <1>9, <2>1, <2>2, <2>3, <2>4
  <1>11. CASE Tracked
    <2>1. /\ UNCHANGED feedVars /\ reply # NoReply /\ view' = WithJob(view, reply)
          /\ UNCHANGED <<wire, next, es, lastId, gate, buffer, load, instance>>
      BY <1>11 DEF Tracked, streamVars, feedVars, hubVars
    <2>2. At' = At /\ OnTheWay' = OnTheWay /\ (Follower' <=> Follower) /\ (Built' <=> Built)
      BY <2>1 DEF At, Built, OnTheWay, Follower, Reads, Buffering
    <2>3. Onward' = Onward
      BY <2>1, <2>2 DEF Onward
    <2>4. reply \in JobEvents /\ Behind(reply) /\ view \in Views /\ Shows(view)
      BY <1>0, <2>1 DEF ClientTyped, ShownInv
    <2>5. reply \in HubEvents /\ reply.type = "job"
      BY <2>4 DEF HubEvents, FeedEvents, JobEvents
    <2>6. Gains(view, Applied(view, reply)) /\ Applied(view, reply) \in Views
      BY <1>0, <2>4, <2>5, AppliedGains, AppliedTyped
    <2>7. view' = Applied(view, reply)
      BY <2>1, <2>5 DEF Applied
    <2>8. \A j \in Jobs : view'[j].rank \in 0..3 /\ view[j].rank <= view'[j].rank
      BY <2>6, <2>7 DEF Gains, Views, Ranks, None, Terminal
    <2>9. \A j \in Jobs : Has'[j].rank \in 0..3 /\ Has[j].rank <= Has'[j].rank
      <3>1. CASE Built
        <4>1. Has' = Has
          BY <2>1, <2>2, <3>1 DEF Has
        <4> HIDE DEF Has
        <4> QED
          BY <1>0, <4>1
      <3>2. CASE ~Built
        <4>1. Has' = view' /\ Has = view
          BY <2>2, <3>2 DEF Has
        <4> HIDE DEF Has
        <4> QED
          BY <2>8, <4>1
      <3> QED
        BY <3>1, <3>2
    <2> QED
      BY <1>9, <2>1, <2>2, <2>3, <2>9
  <1>12. CASE Connected
    <2>1. /\ UNCHANGED feedVars /\ load.phase = "built" /\ load.kind = "connect"
          /\ view' = load.jobs /\ gate' = load.cursor /\ lastId' = load.cursor
          /\ es' = "connecting" /\ load' = NoLoad /\ UNCHANGED <<wire, buffer, instance>>
      BY <1>12 DEF Connected, SnapshotCursor, streamVars, feedVars, hubVars
    <2>2. es = "none"
      BY <1>0, <2>1 DEF PhaseInv
    <2>3. /\ Built /\ ~Built' /\ At = load.cursor /\ At' = load.cursor
          /\ Has = load.jobs /\ Has' = load.jobs /\ OnTheWay' = OnTheWay
      BY <2>1 DEF Built, At, Has, OnTheWay, NoLoad
    <2>4. Follower /\ Follower'
      BY <2>1, <2>2, <2>3 DEF Follower, Reads, Buffering, NoLoad
    <2>5. \A j \in Jobs : Has'[j].rank \in 0..3 /\ Has[j].rank <= Has'[j].rank
      <3> HIDE DEF Has
      <3> QED
        BY <1>0, <2>3
    <2>6. CASE At[1] = instance
      <3>1. Onward = load.cursor[2] + 1 /\ Onward' = load.cursor[2] + 1
        BY <2>1, <2>2, <2>3, <2>6 DEF Onward
      <3> QED
        BY <1>9, <2>1, <2>3, <2>4, <2>5, <3>1
    <2>7. CASE At[1] # instance
      BY <2>1, <2>3, <2>7 DEF LearnInv
    <2> QED
      BY <2>6, <2>7
  <1>13. CASE ServerStep
    BY <1>13, ServerLearns
  <1>14. CASE Pump \/ StreamOpens \/ Receive \/ Resynced \/ StreamDrops
    BY <1>14, PumpLearns, OpenLearns, ReceiveLearns, ResyncLearns, DropLearns
  <1> QED
    BY <1>2, <1>3, <1>4, <1>5, <1>6, <1>7, <1>8, <1>10, <1>11, <1>12, <1>13, <1>14
    DEF Next, Connect, LoadFails, RequestFails

-----------------------------------------------------------------------------
\* All that a workbench relies on to follow.
FollowInv == TellInv /\ ShownInv /\ ReadyInv /\ AppliedInv /\ SourceInv /\ LearnInv

\* It holds at the start.
LEMMA InitFollows == Init => FollowInv
PROOF
  <1> SUFFICES ASSUME Init PROVE FollowInv
    OBVIOUS
  <1>1. /\ wire = <<>> /\ buffer = <<>> /\ es = "none" /\ load = NoLoad /\ reply = NoReply
        /\ view = [j \in Jobs |-> NoJob] /\ job = [j \in Jobs |-> NoJob]
    BY DEF Init, FeedInit
  <1>2. load.phase = "none" /\ ~Reads
    BY <1>1 DEF NoLoad, Reads
  <1>3. ShownInv
    <2>1. Shows(view)
      BY <1>1 DEF Shows, NoJob, None
    <2> QED
      BY <1>1, <1>2, <2>1 DEF ShownInv
  <1>4. ReadyInv /\ AppliedInv /\ SourceInv
    BY <1>1, <1>2 DEF ReadyInv, CursorRead, AppliedInv, SourceInv
  <1>5. LearnInv
    BY <1>1, <1>2 DEF LearnInv, Follower, Built
  <1> QED
    BY <1>3, <1>4, <1>5, InitTells DEF FollowInv

\* Every step keeps it.
LEMMA FollowKept ==
  ASSUME PollFirst, StreamInv, FollowInv, [Next]_vars
  PROVE  FollowInv'
PROOF
  <1>1. /\ TypedInv /\ OrderInv /\ TellInv /\ ShownInv /\ ReadyInv /\ AppliedInv
        /\ SourceInv /\ LearnInv
    BY DEF StreamInv, FollowInv
  <1>2. CASE Next
    BY <1>1, <1>2, TellSteps, ShownSteps, ReadySteps, AppliedSteps, SourceSteps, LearnSteps
    DEF FollowInv
  <1>3. CASE UNCHANGED vars
    <2>1. /\ UNCHANGED <<instance, ring, last, up, job, owner, live, due, bus, lagged, feed>>
          /\ UNCHANGED <<wire, next, es, lastId, gate, buffer, load, view, reply>>
      BY <1>3 DEF vars, feedVars, hubVars, engineVars, streamVars, clientVars
    <2>2. TellInv'
      BY <1>1, <2>1 DEF TellInv, RankInv, OwnInv, WatchInv, Behind, Created, PolledJob, Mine
    <2>3. ShownInv' /\ ReadyInv' /\ AppliedInv'
      BY <1>1, <2>1 DEF ShownInv, Behind, Shows, ReadyInv, AppliedInv, CursorRead, Reads, Buffering
    <2>4. SourceInv'
      BY <1>1, <2>1 DEF SourceInv, Sourced, Before1, Carries
    <2>5. LearnInv'
      BY <1>1, <2>1 DEF LearnInv, Follower, Built, Reads, Buffering, At, Learns, Has, Owed, Sources,
         PolledJob, Created, Mine, Polls, OnItsWay, OnTheWay, InTheRing, TooLate, Onward, Tells
    <2> QED
      BY <2>2, <2>3, <2>4, <2>5 DEF FollowInv
  <1> QED
    BY <1>2, <1>3

\* When nothing is on its way any more, nothing is left to be learned.
LEMMA QuietShowsAll ==
  ASSUME StreamInv, FollowInv
  PROVE  NothingIsMissed
PROOF
  <1> SUFFICES ASSUME Quiet, NEW j \in Jobs PROVE view[j].rank = job[j].rank
    BY DEF NothingIsMissed
  <1>0. /\ TypedInv /\ OrderInv /\ ReadTyped /\ IdsInv /\ PhaseInv /\ WireInv /\ ShownInv
        /\ AppliedInv /\ LearnInv
        /\ last \in Nat /\ Len(ring) \in Nat /\ instance \in Nat
        /\ At[2] \in Nat /\ Has[j].rank \in 0..3 /\ job[j].rank \in 0..3
        /\ \A i \in 1..Len(ring) : ring[i].seq \in Nat /\ ring[i].seq <= last
    BY TypedRead, LearnFacts DEF StreamInv, FollowInv, OrderInv, TypedInv, ReadTyped
  <1>1. /\ FeedIsDone /\ es = "open" /\ wire = <<>> /\ next = last + 1 /\ load = NoLoad
    BY DEF Quiet
  <1>2. /\ ~Built /\ ~Buffering /\ Reads /\ buffer = <<>> /\ At = gate /\ Has = view
    BY <1>0, <1>1 DEF Built, Buffering, NoLoad, Reads, PhaseInv, At, Has
  <1>3. lastId = Cursor
    BY <1>0, <1>1 DEF WireInv, Cursor
  <1>4. gate = Cursor
    <2>1. Upto(Cursor, gate) /\ Upto(gate, Cursor) /\ gate \in Ids /\ Cursor \in Ids
      BY <1>0, <1>2, <1>3 DEF AppliedInv, IdsInv, ReadTyped
    <2> QED
      BY <2>1, BeforeFollowing
  <1>5. Follower /\ up /\ At[1] = instance /\ At[2] = last
    BY <1>0, <1>1, <1>2, <1>4 DEF Follower, PhaseInv, Cursor
  <1>6. Learns(j)
    BY <1>0, <1>5 DEF LearnInv
  <1>7. ~OnItsWay(j)
    <2>1. OnTheWay = {}
      BY <1>1, <1>2 DEF OnTheWay, Range
    <2> QED
      BY <2>1 DEF OnItsWay
  <1> HIDE DEF At, Has
  <1>8. ~InTheRing(j) /\ ~TooLate
    BY <1>0, <1>5 DEF InTheRing, TooLate
  <1>9. ~Owed(j)
    <2>1. /\ due = {} /\ Range(bus) = {} /\ ~lagged /\ feed.polled = {}
          /\ j \in PollResult => feed.published[j] >= job[j].rank
      BY <1>1 DEF FeedIsDone, FeedIdle, Range
    <2>2. feed.published[j] \in 0..3
      BY <1>0 DEF StreamInv, TypedInv, ServerTyped, FeedStates, Ranks, None, Terminal
    <2>3. Sources(j) => j \in PollResult
      BY <2>1 DEF Sources, PolledJob, PollResult
    <2> QED
      BY <1>0, <2>1, <2>2, <2>3 DEF Owed
  <1>10. job[j].rank <= view[j].rank
    BY <1>2, <1>6, <1>7, <1>8, <1>9 DEF Learns
  <1>11. view[j].rank <= job[j].rank /\ view[j].rank \in 0..3
    BY <1>0, <1>2 DEF ShownInv, Shows
  <1> QED
    BY <1>0, <1>10, <1>11

(* Nothing that happens to a job is lost on the way to a workbench, if the server
   polls the store before it answers: every event it lacks is coming or is
   replaced by a resync, and once nothing comes any more it shows every job as the
   store has it (events.rs, pump; events.ts, EventFeed; store.ts). *)
THEOREM TheWorkbenchCatchesUp == PollFirst => (Spec => []NothingIsLost)
PROOF
  <1> SUFFICES ASSUME PollFirst PROVE Spec => []NothingIsLost
    OBVIOUS
  <1>1. Init => FollowInv
    BY InitFollows
  <1>2. StreamInv /\ FollowInv /\ [Next]_vars => FollowInv'
    BY FollowKept
  <1>3. StreamInv /\ FollowInv => NothingIsLost
    BY QuietShowsAll, LinesSkipNothing DEF StreamInv, NothingIsLost
  <1> QED
    BY <1>1, <1>2, <1>3, InvariantOfStream, PTL DEF Spec
=============================================================================

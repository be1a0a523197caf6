--------------------------- MODULE JobFeedProofs ---------------------------
(***************************************************************************)
(* The ring of the event hub has no gap, whatever is published and however *)
(* often the server restarts; and what the feed publishes about a job is   *)
(* in order, for any jobs, any interleaving of engines and polls and any   *)
(* losses of the broadcast channel, as long as the feed remembers the      *)
(* ending of every job.  Whatever it remembers, what it has yet to tell of *)
(* a job it tells, or makes every client reload.                           *)
(***************************************************************************)
EXTENDS JobFeed, SequenceTheorems, FiniteSetTheorems, TLAPS

\* The hub with events of E.
HubTyped(E) == last \in Nat /\ ring \in Seq([seq : Nat, event : E])

\* How many frames leave the ring for the next one.
Leaving == IF Len(ring) = RingCapacity THEN 1 ELSE 0

LEMMA PushedFrames ==
  ASSUME NEW S, ring \in Seq(S), NEW f \in S
  PROVE  /\ Len(ring) \in Nat /\ Leaving \in {0, 1}
         /\ Pushed(f) \in Seq(S)
         /\ Len(Pushed(f)) = Len(ring) + 1 - Leaving
         /\ Pushed(f)[Len(ring) + 1 - Leaving] = f
         /\ \A i \in 1..(Len(ring) - Leaving) : Pushed(f)[i] = ring[i + Leaving]
PROOF
  <1>1. CASE Len(ring) = RingCapacity
    <2>1. ring # <<>>
      BY <1>1, HubAssumption
    <2>2. /\ Tail(ring) \in Seq(S) /\ Len(Tail(ring)) = Len(ring) - 1
          /\ \A i \in 1..Len(Tail(ring)) : Tail(ring)[i] = ring[i + 1]
      BY <2>1, HeadTailProperties
    <2>3. Pushed(f) = Append(Tail(ring), f)
      BY <1>1 DEF Pushed
    <2>4. /\ Pushed(f) \in Seq(S) /\ Len(Pushed(f)) = Len(ring)
          /\ \A i \in 1..(Len(ring) - 1) : Pushed(f)[i] = Tail(ring)[i]
          /\ Pushed(f)[Len(ring)] = f
      BY <2>2, <2>3, AppendProperties
    <2> QED
      BY <1>1, <2>2, <2>4 DEF Leaving
  <1>2. CASE Len(ring) # RingCapacity
    <2>1. Pushed(f) = Append(ring, f)
      BY <1>2 DEF Pushed
    <2> QED
      BY <1>2, <2>1, AppendProperties DEF Leaving
  <1> QED
    BY <1>1, <1>2

(* What a reader of the ring sees of a publication. *)
LEMMA PublishedFrames ==
  ASSUME NEW E, HubTyped(E), NEW ev \in E, Publish(ev)
  PROVE  /\ Len(ring) \in Nat /\ Len(ring') \in Nat /\ Leaving \in {0, 1}
         /\ ring' \in Seq([seq : Nat, event : E])
         /\ last' = last + 1
         /\ Len(ring') = Len(ring) + 1 - Leaving
         /\ ring'[Len(ring')] = [seq |-> last + 1, event |-> ev]
         /\ \A i \in 1..(Len(ring') - 1) :
              i + Leaving \in 1..Len(ring) /\ ring'[i] = ring[i + Leaving]
PROOF
  <1> DEFINE S == [seq : Nat, event : E]
             f == Frame(last + 1, ev)
  <1>1. f \in S /\ f = [seq |-> last + 1, event |-> ev] /\ ring \in Seq(S)
    BY DEF HubTyped, Frame
  <1>2. ring' = Pushed(f) /\ last' = last + 1
    BY DEF Publish
  <1> HIDE DEF S, f
  <1>3. /\ Len(ring) \in Nat /\ Leaving \in {0, 1}
        /\ ring' \in Seq(S)
        /\ Len(ring') = Len(ring) + 1 - Leaving
        /\ ring'[Len(ring) + 1 - Leaving] = f
        /\ \A i \in 1..(Len(ring) - Leaving) : ring'[i] = ring[i + Leaving]
    BY <1>1, <1>2, PushedFrames
  <1>4. Len(ring') \in Nat
    BY <1>3
  <1>5. ring'[Len(ring')] = [seq |-> last + 1, event |-> ev]
    BY <1>1, <1>3
  <1>6. ASSUME NEW i \in 1..(Len(ring') - 1)
        PROVE  i + Leaving \in 1..Len(ring) /\ ring'[i] = ring[i + Leaving]
    <2>1. i \in 1..(Len(ring) - Leaving)
      BY <1>3
    <2> QED
      BY <2>1, <1>3
  <1> QED
    BY <1>2, <1>3, <1>4, <1>5, <1>6 DEF S

LEMMA PublishKeepsRing ==
  ASSUME NEW E, HubTyped(E), RingIsContiguous, NEW ev \in E, Publish(ev)
  PROVE  HubTyped(E)' /\ RingIsContiguous'
PROOF
  <1>0. /\ Len(ring) \in Nat /\ Len(ring') \in Nat /\ Leaving \in {0, 1}
        /\ ring' \in Seq([seq : Nat, event : E])
        /\ last' = last + 1
        /\ Len(ring') = Len(ring) + 1 - Leaving
        /\ ring'[Len(ring')] = [seq |-> last + 1, event |-> ev]
        /\ \A i \in 1..(Len(ring') - 1) :
             i + Leaving \in 1..Len(ring) /\ ring'[i] = ring[i + Leaving]
    BY PublishedFrames
  <1>1. last \in Nat /\ Len(ring) <= last /\ Len(ring) <= RingCapacity
    BY DEF HubTyped, RingIsContiguous
  <1>2. /\ Len(ring') <= RingCapacity /\ Len(ring') <= last' /\ Len(ring') > 0
        /\ last' \in Nat
    BY <1>1, <1>0, HubAssumption DEF Leaving
  <1>3. ASSUME NEW i \in 1..Len(ring') PROVE ring'[i].seq = last' - Len(ring') + i
    <2>1. CASE i = Len(ring')
      BY <2>1, <1>1, <1>0
    <2>2. CASE i # Len(ring')
      <3>1. i \in 1..(Len(ring') - 1)
        BY <2>2, <1>0
      <3>2. i + Leaving \in 1..Len(ring) /\ ring'[i] = ring[i + Leaving]
        BY <3>1, <1>0
      <3>3. ring[i + Leaving].seq = last - Len(ring) + (i + Leaving)
        BY <3>2 DEF HubTyped, RingIsContiguous
      <3> QED
        BY <3>1, <3>2, <3>3, <1>1, <1>0
    <2> QED
      BY <2>1, <2>2
  <1>4. ring' # <<>>
    BY <1>2
  <1> QED
    BY <1>2, <1>3, <1>4, <1>0 DEF HubTyped, RingIsContiguous

(* The ring holds the newest events, numbered without a gap up to the last: what
   EventHub::start and EventHub::read rely on when they compare a cursor with
   the oldest frame. *)
THEOREM RingStaysContiguous == HubSpec => []RingIsContiguous
PROOF
  <1> DEFINE E == Events \cup {Resync}
             Inv == HubTyped(E) /\ RingIsContiguous
  <1>1. HubInit => Inv
    BY HubAssumption DEF HubInit, HubTyped, RingIsContiguous
  <1>2. Inv /\ [HubNext]_hubVars => Inv'
    <2> SUFFICES ASSUME Inv, [HubNext]_hubVars PROVE Inv'
      OBVIOUS
    <2>1. CASE HubRestart
      BY <2>1, HubAssumption DEF HubRestart, HubTyped, RingIsContiguous
    <2>2. ASSUME NEW event \in E, Publish(event) PROVE Inv'
      BY <2>2, PublishKeepsRing
    <2>3. CASE UNCHANGED hubVars
      BY <2>3 DEF hubVars, HubTyped, RingIsContiguous
    <2> QED
      BY <2>1, <2>2, <2>3 DEF HubNext
  <1>3. Inv => RingIsContiguous
    OBVIOUS
  <1> QED
    BY <1>1, <1>2, <1>3, PTL DEF HubSpec

-----------------------------------------------------------------------------
(* The feed *)

FeedEvents == JobEvents \cup ProgressEvents
HubEvents == FeedEvents \cup {OtherEvent, Resync}

HubInv == HubTyped(HubEvents) /\ RingIsContiguous

EngineInv ==
  /\ job \in [Jobs -> [rank : Ranks, prog : 0..MaxProgress]]
  /\ live \in [Jobs -> 0..MaxProgress]
  /\ due \subseteq [job : Jobs, rank : Queued..Terminal]
  /\ bus \in Seq(FeedEvents)

FeedStates ==
  [phase : {"off", "new", "on"}, seen : SUBSET Jobs, published : [Jobs -> Ranks],
   finished : Seq(Jobs), pending : [Jobs -> 0..MaxProgress], throttled : SUBSET Jobs,
   watched : [Jobs -> Unwatched..MaxProgress], polled : SUBSET FeedEvents, dirty : BOOLEAN]

\* No job ends twice for the feed, and no progress waits of a job that does not run.
FeedInv ==
  /\ feed \in FeedStates
  /\ \A i, k \in DOMAIN feed.finished : feed.finished[i] = feed.finished[k] => i = k
  /\ \A i \in DOMAIN feed.finished : feed.published[feed.finished[i]] = Terminal
  /\ \A j \in Jobs : feed.pending[j] > 0 => feed.published[j] = Running

\* What the feed remembers is no less than what the ring says.
RingInv ==
  /\ RanksOnlyRise /\ ProgressWhileRunning
  /\ \A i \in DOMAIN ring :
       /\ ring[i].event.type = "job" =>
            ring[i].event.rank <= feed.published[ring[i].event.job]
       /\ ring[i].event.type = "progress" =>
            feed.published[ring[i].event.job] >= Running

Inv == HubInv /\ EngineInv /\ FeedInv /\ RingInv

-----------------------------------------------------------------------------
(* The ring *)

LEMMA PublishKeepsHub ==
  ASSUME HubInv, NEW ev \in HubEvents, Publish(ev)
  PROVE  HubInv'
BY PublishKeepsRing DEF HubInv

LEMMA Domains ==
  ASSUME NEW S, NEW s \in Seq(S)
  PROVE  Len(s) \in Nat /\ DOMAIN s = 1..Len(s) /\ \A i \in DOMAIN s : s[i] \in S
OBVIOUS

(* After a publication a frame is the new one or one of those before. *)
LEMMA OldFrames ==
  ASSUME HubInv, NEW ev \in HubEvents, Publish(ev)
  PROVE  /\ DOMAIN ring' = 1..Len(ring') /\ Len(ring') \in Nat
         /\ ring'[Len(ring')].event = ev
         /\ \A i \in DOMAIN ring' : i # Len(ring') =>
              i < Len(ring') /\ i + Leaving \in DOMAIN ring /\ ring'[i] = ring[i + Leaving]
         /\ \A i, k \in DOMAIN ring' : i + Leaving < k + Leaving <=> i < k
         /\ \A i \in DOMAIN ring : ring[i].event \in HubEvents
PROOF
  <1>1. /\ Len(ring) \in Nat /\ Len(ring') \in Nat /\ Leaving \in {0, 1}
        /\ ring' \in Seq([seq : Nat, event : HubEvents])
        /\ Len(ring') = Len(ring) + 1 - Leaving
        /\ ring'[Len(ring')] = [seq |-> last + 1, event |-> ev]
        /\ \A i \in 1..(Len(ring') - 1) :
             i + Leaving \in 1..Len(ring) /\ ring'[i] = ring[i + Leaving]
    BY PublishedFrames DEF HubInv
  <1>2. ring \in Seq([seq : Nat, event : HubEvents])
    BY DEF HubInv, HubTyped
  <1>3. DOMAIN ring' = 1..Len(ring') /\ DOMAIN ring = 1..Len(ring)
    BY <1>1, <1>2, Domains
  <1>4. ASSUME NEW i \in DOMAIN ring', i # Len(ring')
        PROVE  i < Len(ring') /\ i + Leaving \in DOMAIN ring /\ ring'[i] = ring[i + Leaving]
    <2>1. i \in 1..(Len(ring') - 1)
      BY <1>1, <1>3, <1>4
    <2>2. i + Leaving \in 1..Len(ring) /\ ring'[i] = ring[i + Leaving]
      BY <2>1, <1>1
    <2>3. i < Len(ring')
      BY <2>1, <1>1
    <2> QED
      BY <2>2, <2>3, <1>3
  <1>5. \A i, k \in DOMAIN ring' : i + Leaving < k + Leaving <=> i < k
    BY <1>1, <1>3, SMTT(30)
  <1>6. ASSUME NEW i \in DOMAIN ring PROVE ring[i].event \in HubEvents
    <2>1. ring[i] \in [seq : Nat, event : HubEvents]
      BY <1>2, Domains
    <2> QED
      BY <2>1
  <1> QED
    BY <1>1, <1>3, <1>4, <1>5, <1>6

(* A publication keeps the order if the rank of a job is new and progress is of
   a job last published as running. *)
LEMMA PublishKeepsOrder ==
  ASSUME HubInv, RingInv, NEW ev \in HubEvents, Publish(ev),
         feed.published \in [Jobs -> Ranks], feed'.published \in [Jobs -> Ranks],
         \A j \in Jobs : feed.published[j] <= feed'.published[j],
         ev.type = "job" =>
           feed.published[ev.job] < ev.rank /\ ev.rank <= feed'.published[ev.job],
         ev.type = "progress" => feed.published[ev.job] = Running
  PROVE  RingInv'
PROOF
  <1>1. /\ DOMAIN ring' = 1..Len(ring') /\ Len(ring') \in Nat
        /\ ring'[Len(ring')].event = ev
        /\ \A i \in DOMAIN ring' : i # Len(ring') =>
             i < Len(ring') /\ i + Leaving \in DOMAIN ring /\ ring'[i] = ring[i + Leaving]
        /\ \A i, k \in DOMAIN ring' : i + Leaving < k + Leaving <=> i < k
        /\ \A i \in DOMAIN ring : ring[i].event \in HubEvents
    BY OldFrames
  <1>2. \A e \in HubEvents :
          /\ e.type = "job" => e.job \in Jobs /\ e.rank \in 1..3
          /\ e.type = "progress" => e.job \in Jobs
    BY DEF HubEvents, FeedEvents, JobEvents, ProgressEvents, OtherEvent, Resync, Queued, Terminal
  <1>3. \A j \in Jobs : feed.published[j] \in 0..3 /\ feed'.published[j] \in 0..3
    BY DEF Ranks, None, Terminal
  <1>4. RanksOnlyRise'
    <2> SUFFICES ASSUME NEW i \in DOMAIN ring', NEW k \in DOMAIN ring', i < k,
                        ring'[i].event.type = "job", ring'[k].event.type = "job",
                        ring'[i].event.job = ring'[k].event.job
                 PROVE  ring'[i].event.rank < ring'[k].event.rank
      BY DEF RanksOnlyRise
    <2>1. i # Len(ring') /\ i \in Nat /\ k \in Nat
      BY <1>1
    <2>2. i + Leaving \in DOMAIN ring /\ ring'[i] = ring[i + Leaving]
      BY <2>1, <1>1
    <2>3. CASE k = Len(ring')
      <3>1. ring[i + Leaving].event.rank <= feed.published[ev.job]
        BY <2>2, <2>3, <1>1 DEF RingInv
      <3>2. ring[i + Leaving].event.rank \in Nat
        BY <2>2, <1>1, <1>2
      <3>3. ev.job \in Jobs /\ ev.rank \in Nat /\ feed.published[ev.job] < ev.rank
        BY <2>3, <1>1, <1>2
      <3> QED
        BY <3>1, <3>2, <3>3, <2>2, <2>3, <1>1, <1>3
    <2>4. CASE k # Len(ring')
      <3>1. k + Leaving \in DOMAIN ring /\ ring'[k] = ring[k + Leaving]
        BY <2>4, <1>1
      <3>2. i + Leaving < k + Leaving
        BY <2>1, <1>1
      <3> QED
        BY <2>2, <3>1, <3>2 DEF RingInv, RanksOnlyRise
    <2> QED
      BY <2>3, <2>4
  <1>5. ProgressWhileRunning'
    <2> SUFFICES ASSUME NEW i \in DOMAIN ring', NEW k \in DOMAIN ring',
                        ring'[i].event.type = "job", ring'[k].event.type = "progress",
                        ring'[i].event.job = ring'[k].event.job
                 PROVE  IF i < k THEN ring'[i].event.rank < Terminal
                                 ELSE ring'[i].event.rank = Terminal
      BY DEF ProgressWhileRunning
    <2>1. i \in Nat /\ k \in Nat /\ i <= Len(ring') /\ k <= Len(ring')
      BY <1>1
    <2>2. CASE i = Len(ring')
      <3>1. k # Len(ring')
        BY <2>2
      <3>2. k + Leaving \in DOMAIN ring /\ ring'[k] = ring[k + Leaving] /\ k < i
        BY <3>1, <2>2, <1>1
      <3>3. feed.published[ev.job] >= Running /\ ev.job \in Jobs /\ ev.type = "job"
        BY <2>2, <3>2, <1>2, <1>1 DEF RingInv
      <3>4. ev.rank = Terminal
        BY <3>3, <1>2, <1>3 DEF Running, Terminal
      <3> QED
        BY <2>1, <2>2, <3>2, <3>4, <1>1
    <2>3. CASE i # Len(ring') /\ k = Len(ring')
      <3>1. i + Leaving \in DOMAIN ring /\ ring'[i] = ring[i + Leaving] /\ i < k
        BY <2>3, <1>1
      <3>2. ring[i + Leaving].event.rank <= Running
        BY <2>3, <3>1, <1>1, <1>2 DEF RingInv
      <3> QED
        BY <3>1, <3>2, <1>2, <1>1 DEF Running, Terminal
    <2>4. CASE i # Len(ring') /\ k # Len(ring')
      <3>1. /\ i + Leaving \in DOMAIN ring /\ ring'[i] = ring[i + Leaving]
            /\ k + Leaving \in DOMAIN ring /\ ring'[k] = ring[k + Leaving]
        BY <2>4, <1>1
      <3>2. i + Leaving < k + Leaving <=> i < k
        BY <2>1, <1>1
      <3> QED
        BY <3>1, <3>2 DEF RingInv, ProgressWhileRunning
    <2> QED
      BY <2>2, <2>3, <2>4
  <1>6. ASSUME NEW i \in DOMAIN ring'
         PROVE  /\ ring'[i].event.type = "job" =>
                     ring'[i].event.rank <= feed'.published[ring'[i].event.job]
                /\ ring'[i].event.type = "progress" =>
                     feed'.published[ring'[i].event.job] >= Running
    <2>1. CASE i = Len(ring')
      BY <2>1, <1>2, <1>3, <1>1 DEF Running
    <2>2. CASE i # Len(ring')
      <3> DEFINE e == ring[i + Leaving].event
      <3>1. i + Leaving \in DOMAIN ring /\ ring'[i].event = e
        BY <2>2, <1>1
      <3>2. e \in HubEvents
        BY <3>1, <1>1
      <3>3. /\ e.type = "job" => e.rank <= feed.published[e.job]
            /\ e.type = "progress" => feed.published[e.job] >= Running
        BY <3>1 DEF RingInv
      <3> HIDE DEF e
      <3>4. /\ e.type = "job" => e.job \in Jobs /\ e.rank \in 1..3
            /\ e.type = "progress" => e.job \in Jobs
        BY <3>2, <1>2
      <3>5. e.type = "job" => e.rank <= feed'.published[e.job]
        BY <3>3, <3>4, <1>3
      <3>6. e.type = "progress" => feed'.published[e.job] >= Running
        BY <3>3, <3>4, <1>3 DEF Running
      <3> QED
        BY <3>1, <3>5, <3>6
    <2> QED
      BY <2>1, <2>2
  <1> QED
    BY <1>4, <1>5, <1>6 DEF RingInv

-----------------------------------------------------------------------------
(* The feed *)

\* The feed remembers the ending of every job.
FewJobs == Cardinality(Jobs) <= Remembered

LEMMA DistinctFit ==
  ASSUME NEW s \in Seq(Jobs), \A i, k \in DOMAIN s : s[i] = s[k] => i = k
  PROVE  Len(s) <= Cardinality(Jobs)
PROOF
  <1>1. Len(s) \in Nat /\ DOMAIN s = 1..Len(s) /\ s \in [1..Len(s) -> Jobs]
    BY Domains
  <1>2. s \in Injection(1..Len(s), Jobs)
    BY <1>1 DEF Injection, IsInjective
  <1>3. Cardinality(1..Len(s)) <= Cardinality(Jobs)
    BY <1>2, FS_Injection, FeedAssumption
  <1>4. Cardinality(1..Len(s)) = Len(s)
    <2>1. Cardinality(1..Len(s)) = IF 1 > Len(s) THEN 0 ELSE Len(s) - 1 + 1
      BY <1>1, FS_Interval
    <2>2. CASE 1 > Len(s)
      BY <1>1, <2>1, <2>2
    <2>3. CASE ~(1 > Len(s))
      BY <1>1, <2>1, <2>3
    <2> QED
      BY <2>2, <2>3
  <1> QED
    BY <1>3, <1>4

(* One more ending is remembered without another one being forgotten. *)
LEMMA EndingsFit ==
  ASSUME FewJobs, FeedInv, NEW j \in Jobs, feed.published[j] # Terminal
  PROVE  LET s == Append(feed.finished, j) IN
         /\ s \in Seq(Jobs)
         /\ \A i, k \in DOMAIN s : s[i] = s[k] => i = k
         /\ \A i \in DOMAIN s : s[i] = j \/ feed.published[s[i]] = Terminal
         /\ ~(Len(s) > Remembered)
PROOF
  <1> DEFINE t == feed.finished
             s == Append(t, j)
  <1>1. t \in Seq(Jobs)
    BY DEF FeedInv, FeedStates
  <1>2. \A i, k \in DOMAIN t : t[i] = t[k] => i = k
    BY DEF FeedInv
  <1>3. \A i \in DOMAIN t : feed.published[t[i]] = Terminal
    BY DEF FeedInv
  <1> HIDE DEF t
  <1>4. /\ s \in Seq(Jobs) /\ Len(s) = Len(t) + 1 /\ s[Len(t) + 1] = j
        /\ \A i \in 1..Len(t) : s[i] = t[i]
    BY <1>1, AppendProperties
  <1>5. Len(t) \in Nat /\ DOMAIN t = 1..Len(t)
    BY <1>1, Domains
  <1>6. DOMAIN s = 1..(Len(t) + 1)
    BY <1>4, Domains
  <1> HIDE DEF s
  <1>7. \A i \in DOMAIN s : i = Len(t) + 1 \/ i \in DOMAIN t
    BY <1>5, <1>6
  <1>8. \A i \in DOMAIN s : s[i] = j \/ feed.published[s[i]] = Terminal
    BY <1>3, <1>4, <1>5, <1>7
  <1>9. \A i, k \in DOMAIN s : s[i] = s[k] => i = k
    BY <1>2, <1>3, <1>4, <1>5, <1>7
  <1>10. Len(s) <= Cardinality(Jobs)
    BY <1>4, <1>9, DistinctFit
  <1>11. Cardinality(Jobs) \in Nat /\ Len(s) \in Nat /\ Remembered \in Nat
    BY <1>4, <1>5, FS_CardinalityType, FeedAssumption
  <1>12. ~(Len(s) > Remembered)
    BY <1>10, <1>11 DEF FewJobs
  <1> QED
    BY <1>4, <1>8, <1>9, <1>12 DEF s, t

\* f differs from the feed in nothing that order depends on.
SameMemory(f) ==
  /\ f \in FeedStates
  /\ f.published = feed.published /\ f.finished = feed.finished /\ f.pending = feed.pending

PathInv == HubInv /\ FeedInv /\ RingInv

LEMMA SameMemoryKeeps ==
  ASSUME PathInv, SameMemory(feed'), UNCHANGED hubVars
  PROVE  PathInv'
PROOF
  <1>1. HubInv'
    BY DEF PathInv, HubInv, HubTyped, RingIsContiguous, hubVars
  <1>2. FeedInv'
    BY DEF PathInv, FeedInv, SameMemory
  <1>3. RingInv'
    BY DEF PathInv, RingInv, SameMemory, RanksOnlyRise, ProgressWhileRunning, hubVars
  <1> QED
    BY <1>1, <1>2, <1>3 DEF PathInv

(* A publication about no job. *)
LEMMA OtherPublications ==
  ASSUME PathInv, SameMemory(feed'), NEW ev \in {OtherEvent, Resync}, Publish(ev)
  PROVE  PathInv'
PROOF
  <1>1. ev \in HubEvents /\ ev.type # "job" /\ ev.type # "progress"
    BY DEF HubEvents, OtherEvent, Resync
  <1>2. HubInv'
    BY <1>1, PublishKeepsHub DEF PathInv
  <1>3. FeedInv'
    BY DEF PathInv, FeedInv, SameMemory
  <1>4. feed.published \in [Jobs -> Ranks] /\ feed'.published = feed.published
    BY DEF SameMemory, PathInv, FeedInv, FeedStates
  <1>5. \A j \in Jobs : feed.published[j] <= feed'.published[j]
    BY <1>4 DEF Ranks, None, Terminal
  <1>6. RingInv'
    BY <1>1, <1>4, <1>5, PublishKeepsOrder DEF PathInv
  <1> QED
    BY <1>2, <1>3, <1>6 DEF PathInv

LEMMA Updates ==
  ASSUME NEW S, NEW T, NEW g \in [S -> T], NEW x, NEW y \in T
  PROVE  [g EXCEPT ![x] = y] \in [S -> T]
OBVIOUS

LEMMA FeedJobKeeps ==
  ASSUME PathInv, FewJobs, NEW f, SameMemory(f), NEW e \in JobEvents, FeedJob(f, e)
  PROVE  PathInv'
PROOF
  <1>1. CASE ~IsNews(e)
    BY <1>1, SameMemoryKeeps DEF FeedJob, SameMemory
  <1>2. CASE IsNews(e)
    <2>1. e \in HubEvents /\ e.type = "job" /\ e.job \in Jobs /\ e.rank \in 1..3
      BY DEF HubEvents, FeedEvents, JobEvents, Queued, Terminal
    <2>2. Publish(e)
      BY <1>2 DEF FeedJob
    <2>3. /\ f \in FeedStates /\ f.published = feed.published
          /\ f.finished = feed.finished /\ f.pending = feed.pending
      BY DEF SameMemory
    <2>4. feed.published \in [Jobs -> Ranks] /\ feed.published[e.job] < e.rank
      BY <1>2, <2>3 DEF IsNews, FeedStates
    <2>5. /\ feed' \in FeedStates
          /\ feed'.published = [feed.published EXCEPT ![e.job] = e.rank]
          /\ \A i, k \in DOMAIN feed'.finished : feed'.finished[i] = feed'.finished[k] => i = k
          /\ \A i \in DOMAIN feed'.finished : feed'.published[feed'.finished[i]] = Terminal
          /\ \A j \in Jobs : feed'.pending[j] > 0 => feed'.published[j] = Running
      <3>1. CASE e.rank = Terminal
        <4> DEFINE s == Append(feed.finished, e.job)
        <4>1. feed.published[e.job] # Terminal
          BY <2>4, <3>1 DEF Terminal
        <4>2. /\ s \in Seq(Jobs)
              /\ \A i, k \in DOMAIN s : s[i] = s[k] => i = k
              /\ \A i \in DOMAIN s : s[i] = e.job \/ feed.published[s[i]] = Terminal
              /\ ~(Len(s) > Remembered)
          BY <2>1, <4>1, EndingsFit DEF PathInv
        <4>3. feed' = [f EXCEPT !.finished = s,
                                !.published = [f.published EXCEPT ![e.job] = Terminal],
                                !.pending[e.job] = 0, !.throttled = @ \ {e.job},
                                !.dirty = TRUE]
          <5>1. feed' = Settled(f, e)
            BY <1>2, <3>1 DEF FeedJob
          <5>2. Append(f.finished, e.job) = s /\ ~(Len(Append(f.finished, e.job)) > Remembered)
            BY <2>3, <4>2
          <5> QED
            BY <5>1, <5>2 DEF Settled
        <4> HIDE DEF s
        <4>4. /\ feed'.published = [feed.published EXCEPT ![e.job] = e.rank]
              /\ feed'.finished = s
              /\ feed'.pending = [feed.pending EXCEPT ![e.job] = 0]
              /\ feed' \in FeedStates
          <5>1. [f.published EXCEPT ![e.job] = Terminal] \in [Jobs -> Ranks]
            <6>1. Terminal \in Ranks
              BY DEF Ranks, None, Terminal
            <6> QED
              BY <2>3, <2>4, <6>1, Updates
          <5>2. [f.pending EXCEPT ![e.job] = 0] \in [Jobs -> 0..MaxProgress]
            <6>1. 0 \in 0..MaxProgress
              BY FeedAssumption
            <6>2. f.pending \in [Jobs -> 0..MaxProgress]
              BY <2>3 DEF FeedStates
            <6> QED
              BY <6>1, <6>2, Updates
          <5>3. f.throttled \ {e.job} \in SUBSET Jobs
            BY <2>3 DEF FeedStates
          <5> QED
            BY <2>3, <3>1, <4>2, <4>3, <5>1, <5>2, <5>3 DEF FeedStates
        <4>5. \A i \in DOMAIN s : feed'.published[s[i]] = Terminal
          <5> SUFFICES ASSUME NEW i \in DOMAIN s PROVE feed'.published[s[i]] = Terminal
            OBVIOUS
          <5>1. s[i] \in Jobs
            BY <4>2, Domains
          <5> QED
            BY <5>1, <2>4, <3>1, <4>2, <4>4
        <4>6. \A j \in Jobs : feed.pending[j] > 0 => feed.published[j] = Running
          BY DEF PathInv, FeedInv
        <4>7. feed.pending \in [Jobs -> 0..MaxProgress]
          BY <2>3 DEF FeedStates
        <4> QED
          BY <2>4, <4>2, <4>4, <4>5, <4>6, <4>7
      <3>2. CASE e.rank # Terminal
        <4>1. feed' = [f EXCEPT !.published[e.job] = e.rank]
          BY <1>2, <3>2 DEF FeedJob
        <4>2. /\ feed'.published = [feed.published EXCEPT ![e.job] = e.rank]
              /\ feed'.finished = feed.finished /\ feed'.pending = feed.pending
              /\ feed' \in FeedStates
          <5>1. [f.published EXCEPT ![e.job] = e.rank] \in [Jobs -> Ranks]
            <6>1. e.rank \in Ranks
              BY <2>1 DEF Ranks, None, Terminal
            <6> QED
              BY <2>3, <2>4, <6>1, Updates
          <5> QED
            BY <2>3, <4>1, <5>1 DEF FeedStates
        <4>3. feed.published[e.job] # Terminal /\ feed.published[e.job] # Running
          BY <2>1, <2>4, <3>2 DEF Terminal, Running
        <4>4. \A i \in DOMAIN feed.finished : feed.finished[i] \in Jobs
          BY <2>3, Domains DEF FeedStates
        <4> QED
          BY <2>4, <4>2, <4>3, <4>4 DEF PathInv, FeedInv
      <3> QED
        BY <3>1, <3>2
    <2>6. FeedInv'
      BY <2>5 DEF FeedInv
    <2>7. HubInv'
      BY <2>1, <2>2, PublishKeepsHub DEF PathInv
    <2>8. feed'.published \in [Jobs -> Ranks]
      BY <2>5 DEF FeedStates
    <2>9. /\ \A j \in Jobs : feed.published[j] <= feed'.published[j]
          /\ e.rank <= feed'.published[e.job]
      BY <2>1, <2>4, <2>5, <2>8 DEF Ranks, None, Terminal
    <2>10. RingInv'
      BY <2>1, <2>2, <2>4, <2>8, <2>9, PublishKeepsOrder DEF PathInv
    <2> QED
      BY <2>6, <2>7, <2>10 DEF PathInv
  <1> QED
    BY <1>1, <1>2

LEMMA FeedProgressKeeps ==
  ASSUME PathInv, NEW f, SameMemory(f), NEW e \in ProgressEvents, FeedProgress(f, e)
  PROVE  PathInv'
PROOF
  <1>1. /\ f \in FeedStates /\ f.published = feed.published
        /\ f.finished = feed.finished /\ f.pending = feed.pending
    BY DEF SameMemory
  <1>2. /\ e \in HubEvents /\ e.type = "progress" /\ e.job \in Jobs
        /\ 0 \in 0..MaxProgress /\ e.prog \in 0..MaxProgress
    BY FeedAssumption DEF HubEvents, FeedEvents, ProgressEvents
  <1>3. f.pending \in [Jobs -> 0..MaxProgress] /\ f.published \in [Jobs -> Ranks]
    BY <1>1 DEF FeedStates
  <1>4. CASE feed' = f /\ UNCHANGED hubVars
    BY <1>4, SameMemoryKeeps
  <1>5. ASSUME NEW p \in 0..MaxProgress, NEW t \in SUBSET Jobs, TakesProgress(e.job),
               feed' = [f EXCEPT !.pending[e.job] = p, !.throttled = t]
        PROVE  FeedInv' /\ feed'.published = feed.published
    <2>1. [f.pending EXCEPT ![e.job] = p] \in [Jobs -> 0..MaxProgress]
      BY <1>3, Updates
    <2>2. /\ feed' \in FeedStates /\ feed'.published = feed.published
          /\ feed'.finished = feed.finished
          /\ feed'.pending = [feed.pending EXCEPT ![e.job] = p]
      BY <1>1, <1>5, <2>1 DEF FeedStates
    <2>3. feed.published[e.job] = Running
      BY <1>5 DEF TakesProgress
    <2> QED
      BY <1>1, <1>2, <1>3, <2>2, <2>3 DEF PathInv, FeedInv
  <1>6. CASE /\ TakesProgress(e.job)
             /\ feed' = [f EXCEPT !.pending[e.job] = 0, !.throttled = @ \cup {e.job}]
             /\ Publish(e)
    <2>1. f.throttled \cup {e.job} \in SUBSET Jobs
      BY <1>1, <1>2 DEF FeedStates
    <2>2. FeedInv' /\ feed'.published = feed.published
      BY <1>2, <1>5, <1>6, <2>1
    <2>3. HubInv'
      BY <1>2, <1>6, PublishKeepsHub DEF PathInv
    <2>4. /\ feed.published \in [Jobs -> Ranks] /\ feed'.published \in [Jobs -> Ranks]
          /\ feed.published[e.job] = Running
      BY <1>1, <1>3, <1>6, <2>2 DEF TakesProgress
    <2>5. \A j \in Jobs : feed.published[j] <= feed'.published[j]
      BY <2>2, <2>4 DEF Ranks, None, Terminal
    <2>6. RingInv'
      BY <1>2, <1>6, <2>4, <2>5, PublishKeepsOrder DEF PathInv
    <2> QED
      BY <2>2, <2>3, <2>6 DEF PathInv
  <1>7. CASE /\ TakesProgress(e.job) /\ e.job \in f.throttled
             /\ feed' = [f EXCEPT !.pending[e.job] = e.prog]
             /\ UNCHANGED hubVars
    <2>1. feed' = [f EXCEPT !.pending[e.job] = e.prog, !.throttled = f.throttled]
      BY <1>1, <1>7 DEF FeedStates
    <2>2. f.throttled \in SUBSET Jobs
      BY <1>1 DEF FeedStates
    <2>3. FeedInv' /\ feed'.published = feed.published
      BY <1>2, <1>5, <1>7, <2>1, <2>2
    <2>4. HubInv'
      BY <1>7 DEF PathInv, HubInv, HubTyped, RingIsContiguous, hubVars
    <2>5. RingInv'
      BY <1>7, <2>3 DEF PathInv, RingInv, RanksOnlyRise, ProgressWhileRunning, hubVars
    <2> QED
      BY <2>3, <2>4, <2>5 DEF PathInv
  <1> QED
    BY <1>4, <1>6, <1>7 DEF FeedProgress

-----------------------------------------------------------------------------
(* The engine's steps do not touch the ring or the feed *)

LEMMA SendKeeps ==
  ASSUME EngineInv, NEW ev \in FeedEvents, SendOnBus(ev)
  PROVE  bus' \in Seq(FeedEvents)
PROOF
  <1>1. bus \in Seq(FeedEvents)
    BY DEF EngineInv
  <1>2. CASE Len(bus) = BusCapacity
    <2>1. bus # <<>>
      BY <1>2, FeedAssumption
    <2> QED
      BY <1>1, <1>2, <2>1, HeadTailProperties, AppendProperties DEF SendOnBus
  <1>3. CASE Len(bus) # BusCapacity
    BY <1>1, <1>3, AppendProperties DEF SendOnBus
  <1> QED
    BY <1>2, <1>3

LEMMA StoreKeeps ==
  ASSUME EngineInv, NEW j \in Jobs, NEW r \in Ranks, Store(j, r)
  PROVE  /\ job' \in [Jobs -> [rank : Ranks, prog : 0..MaxProgress]]
         /\ live' \in [Jobs -> 0..MaxProgress]
PROOF
  <1>1. 0 \in 0..MaxProgress
    BY FeedAssumption
  <1>2. [rank |-> r, prog |-> 0] \in [rank : Ranks, prog : 0..MaxProgress]
    BY <1>1
  <1> QED
    BY <1>1, <1>2, Updates DEF EngineInv, Store

LEMMA StoreAndTellKeeps ==
  ASSUME EngineInv, NEW j \in Jobs, NEW r \in Queued..Terminal, StoreAndTell(j, r),
         UNCHANGED bus
  PROVE  EngineInv'
PROOF
  <1>1. r \in Ranks
    BY DEF Ranks, None, Queued, Terminal
  <1>2. /\ job' \in [Jobs -> [rank : Ranks, prog : 0..MaxProgress]]
        /\ live' \in [Jobs -> 0..MaxProgress]
    BY <1>1, StoreKeeps DEF StoreAndTell
  <1> QED
    BY <1>2 DEF EngineInv, StoreAndTell

LEMMA EngineSteps ==
  ASSUME EngineInv, EngineStep, ~PublishOther
  PROVE  EngineInv' /\ UNCHANGED <<hubVars, feed>>
PROOF
  <1>1. Queued \in Queued..Terminal /\ Running \in Queued..Terminal /\ Terminal \in Queued..Terminal
    BY DEF Queued, Running, Terminal
  <1>2. ASSUME NEW j \in Jobs, NEW r \in {Queued, Terminal}, Submit(j, r)
        PROVE  EngineInv' /\ UNCHANGED <<hubVars, feed>>
    BY <1>1, <1>2, StoreAndTellKeeps DEF Submit
  <1>3. ASSUME NEW j \in Jobs, Run(j)
        PROVE  EngineInv' /\ UNCHANGED <<hubVars, feed>>
    BY <1>1, <1>3, StoreAndTellKeeps DEF Run
  <1>4. ASSUME NEW j \in Jobs, End(j)
        PROVE  EngineInv' /\ UNCHANGED <<hubVars, feed>>
    BY <1>1, <1>4, StoreAndTellKeeps DEF End
  <1>5. ASSUME NEW j \in Jobs, Reap(j)
        PROVE  EngineInv' /\ UNCHANGED <<hubVars, feed>>
    BY <1>1, <1>5, StoreAndTellKeeps DEF Reap
  <1>6. ASSUME NEW j \in Jobs, Report(j)
        PROVE  EngineInv' /\ UNCHANGED <<hubVars, feed>>
    <2>1. live[j] \in 0..MaxProgress /\ live[j] + 1 \in 1..MaxProgress
      BY <1>6, FeedAssumption DEF EngineInv, Report
    <2>2. ProgressEvent(j, live[j] + 1) \in FeedEvents
      BY <2>1 DEF ProgressEvent, ProgressEvents, FeedEvents
    <2>3. bus' \in Seq(FeedEvents)
      BY <1>6, <2>2, SendKeeps DEF Report
    <2>4. live' \in [Jobs -> 0..MaxProgress]
      BY <1>6, <2>1, Updates, FeedAssumption DEF EngineInv, Report
    <2> QED
      BY <1>6, <2>3, <2>4 DEF EngineInv, Report
  <1>7. ASSUME NEW j \in Jobs, Save(j)
        PROVE  EngineInv' /\ UNCHANGED <<hubVars, feed>>
    BY <1>7 DEF EngineInv, Save
  <1>8. ASSUME NEW j \in Jobs, OtherEngine(j)
        PROVE  EngineInv' /\ UNCHANGED <<hubVars, feed>>
    <2>1. /\ job' \in [Jobs -> [rank : Ranks, prog : 0..MaxProgress]]
          /\ live' \in [Jobs -> 0..MaxProgress]
      <3>1. CASE \E r \in Ranks : Store(j, r)
        BY <3>1, StoreKeeps
      <3>2. CASE /\ job[j].prog < MaxProgress
                 /\ job' = [job EXCEPT ![j].prog = @ + 1] /\ UNCHANGED live
        <4>1. job[j] \in [rank : Ranks, prog : 0..MaxProgress]
          BY DEF EngineInv
        <4>2. [job[j] EXCEPT !.prog = @ + 1] \in [rank : Ranks, prog : 0..MaxProgress]
          BY <4>1, <3>2, FeedAssumption
        <4>3. job' = [job EXCEPT ![j] = [job[j] EXCEPT !.prog = @ + 1]]
          BY <3>2 DEF EngineInv
        <4> QED
          BY <3>2, <4>2, <4>3, Updates DEF EngineInv
      <3>3. Queued \in Ranks /\ Running \in Ranks /\ Terminal \in Ranks
        BY DEF Ranks, None, Queued, Running, Terminal
      <3> QED
        BY <1>8, <3>1, <3>2, <3>3 DEF OtherEngine
    <2> QED
      BY <1>8, <2>1 DEF EngineInv, OtherEngine
  <1>9. ASSUME NEW d \in due, Tell(d)
        PROVE  EngineInv' /\ UNCHANGED <<hubVars, feed>>
    <2>1. JobEvent(d.job, d.rank, 0) \in FeedEvents
      BY FeedAssumption DEF EngineInv, JobEvent, JobEvents, FeedEvents
    <2>2. bus' \in Seq(FeedEvents)
      BY <1>9, <2>1, SendKeeps DEF Tell
    <2> QED
      BY <1>9, <2>2 DEF EngineInv, Tell
  <1> QED
    BY <1>2, <1>3, <1>4, <1>5, <1>6, <1>7, <1>8, <1>9 DEF EngineStep

-----------------------------------------------------------------------------
(* The feed's steps *)

LEMMA FeedSteps ==
  ASSUME Inv, FewJobs, FeedStep
  PROVE  EngineInv' /\ PathInv'
PROOF
  <1>1. PathInv /\ EngineInv /\ SameMemory(feed) /\ feed \in FeedStates
    BY DEF Inv, PathInv, FeedInv, SameMemory
  <1>2. CASE FeedBegin
    <2>1. {j \in Jobs : Created(j)} \in SUBSET Jobs
      OBVIOUS
    <2>2. SameMemory(feed')
      BY <1>1, <1>2, <2>1 DEF FeedBegin, SameMemory, FeedStates
    <2> QED
      BY <1>1, <1>2, <2>2, SameMemoryKeeps DEF FeedBegin, EngineInv, engineVars
  <1>3. CASE FeedLagged
    BY <1>1, <1>3, OtherPublications DEF FeedLagged, EngineInv, SameMemory
  <1>4. CASE FeedEvent
    <2>1. Head(bus) \in FeedEvents /\ bus' \in Seq(FeedEvents)
      BY <1>1, <1>4, HeadTailProperties DEF FeedEvent, EngineInv
    <2>2. EngineInv'
      BY <1>1, <1>4, <2>1 DEF FeedEvent, EngineInv
    <2>3. CASE Head(bus).type = "job"
      <3>1. Head(bus) \in JobEvents
        BY <2>1, <2>3 DEF FeedEvents, ProgressEvents
      <3> QED
        BY <1>1, <1>4, <2>2, <2>3, <3>1, FeedJobKeeps DEF FeedEvent
    <2>4. CASE Head(bus).type # "job"
      <3>1. Head(bus) \in ProgressEvents
        BY <2>1, <2>4 DEF FeedEvents, JobEvents
      <3> QED
        BY <1>1, <1>4, <2>2, <2>4, <3>1, FeedProgressKeeps DEF FeedEvent
    <2> QED
      BY <2>3, <2>4
  <1>5. CASE Poll
    <2>1. \A j \in PollResult : JobEvent(j, job[j].rank, job[j].prog) \in JobEvents
      BY <1>1 DEF PollResult, Created, EngineInv, JobEvent, JobEvents, Ranks, None, Queued, Terminal
    <2>2. {JobEvent(j, job[j].rank, job[j].prog) : j \in PollResult} \in SUBSET FeedEvents
      BY <2>1 DEF FeedEvents
    <2>3. feed.seen \cup PollResult \in SUBSET Jobs
      BY <1>1 DEF FeedStates, PollResult
    <2>4. SameMemory(feed')
      BY <1>1, <1>5, <2>2, <2>3 DEF Poll, SameMemory, FeedStates
    <2> QED
      BY <1>1, <1>5, <2>4, SameMemoryKeeps DEF Poll, EngineInv, engineVars
  <1>6. CASE PublishDirty
    <2>1. SameMemory(feed')
      BY <1>1, <1>6 DEF PublishDirty, SameMemory, FeedStates
    <2> QED
      BY <1>1, <1>6, <2>1, OtherPublications DEF PublishDirty, EngineInv, engineVars
  <1>7. ASSUME NEW e \in feed.polled, Polled(e)
        PROVE  EngineInv' /\ PathInv'
    <2> DEFINE rest == feed.polled \ {e}
               again == IF e.prog > 0 /\ feed.watched[e.job] # e.prog
                        THEN rest \cup {ProgressEvent(e.job, e.prog)} ELSE rest
    <2>1. e \in FeedEvents /\ rest \in SUBSET FeedEvents
      BY <1>1 DEF FeedStates
    <2>2. EngineInv'
      BY <1>1, <1>7 DEF Polled, EngineInv, engineVars
    <2>3. CASE e.type = "progress" /\ FeedProgress([feed EXCEPT !.polled = rest], e)
      <3>1. e \in ProgressEvents
        BY <2>1, <2>3 DEF FeedEvents, JobEvents
      <3>2. SameMemory([feed EXCEPT !.polled = rest])
        BY <1>1, <2>1 DEF SameMemory, FeedStates
      <3> QED
        BY <1>1, <2>2, <2>3, <3>1, <3>2, FeedProgressKeeps
    <2>4. ASSUME NEW q \in SUBSET FeedEvents, NEW w \in Unwatched..MaxProgress, e.type = "job",
                 FeedJob([feed EXCEPT !.polled = q, !.watched[e.job] = w], e)
          PROVE  PathInv'
      <3>1. e \in JobEvents
        BY <2>1, <2>4 DEF FeedEvents, ProgressEvents
      <3>2. feed.watched \in [Jobs -> Unwatched..MaxProgress]
        BY <1>1 DEF FeedStates
      <3>3. [feed.watched EXCEPT ![e.job] = w] \in [Jobs -> Unwatched..MaxProgress]
        BY <3>2, Updates
      <3>4. SameMemory([feed EXCEPT !.polled = q, !.watched[e.job] = w])
        BY <1>1, <3>3 DEF SameMemory, FeedStates
      <3> QED
        BY <1>1, <2>4, <3>1, <3>4, FeedJobKeeps
    <2>5. CASE /\ e.type = "job" /\ e.rank = Running
               /\ FeedJob([feed EXCEPT !.polled = again, !.watched[e.job] = e.prog], e)
      <3>1. e \in JobEvents
        BY <2>1, <2>5 DEF FeedEvents, ProgressEvents
      <3>2. e.job \in Jobs /\ e.prog \in 0..MaxProgress /\ e.prog \in Unwatched..MaxProgress
        BY <3>1, FeedAssumption DEF JobEvents, Unwatched
      <3>3. e.prog > 0 => ProgressEvent(e.job, e.prog) \in FeedEvents
        BY <3>2, FeedAssumption DEF ProgressEvent, ProgressEvents, FeedEvents
      <3>4. again \in SUBSET FeedEvents
        BY <2>1, <3>3
      <3> QED
        BY <2>2, <2>4, <2>5, <3>2, <3>4
    <2>6. CASE /\ e.type = "job" /\ e.rank # Running
               /\ FeedJob([feed EXCEPT !.polled = rest,
                            !.watched[e.job] = IF e.rank = Queued THEN 0 ELSE Unwatched], e)
      <3>1. (IF e.rank = Queued THEN 0 ELSE Unwatched) \in Unwatched..MaxProgress
        BY FeedAssumption DEF Unwatched
      <3> QED
        BY <2>1, <2>2, <2>4, <2>6, <3>1
    <2> QED
      BY <1>7, <2>3, <2>5, <2>6, <2>2 DEF Polled
  <1>8. ASSUME NEW j \in Jobs, FlushProgress(j)
        PROVE  EngineInv' /\ PathInv'
    <2>1. /\ feed.pending[j] > 0 /\ feed' = [feed EXCEPT !.pending[j] = 0]
          /\ Publish(ProgressEvent(j, feed.pending[j])) /\ UNCHANGED engineVars
      BY <1>8 DEF FlushProgress
    <2>2. feed.published[j] = Running /\ feed.pending[j] \in 1..MaxProgress
      BY <1>1, <2>1, FeedAssumption DEF PathInv, FeedInv, FeedStates
    <2>3. /\ ProgressEvent(j, feed.pending[j]) \in HubEvents
          /\ ProgressEvent(j, feed.pending[j]).type = "progress"
          /\ ProgressEvent(j, feed.pending[j]).job = j
      BY <2>2 DEF ProgressEvent, ProgressEvents, FeedEvents, HubEvents
    <2>4. feed.pending \in [Jobs -> 0..MaxProgress] /\ 0 \in 0..MaxProgress
      BY <1>1, FeedAssumption DEF FeedStates
    <2>5. [feed.pending EXCEPT ![j] = 0] \in [Jobs -> 0..MaxProgress]
      BY <2>4, Updates
    <2>6. /\ feed' \in FeedStates /\ feed'.published = feed.published
          /\ feed'.finished = feed.finished
          /\ feed'.pending = [feed.pending EXCEPT ![j] = 0]
      BY <1>1, <2>1, <2>5 DEF FeedStates
    <2>7. FeedInv'
      BY <1>1, <2>4, <2>6 DEF PathInv, FeedInv
    <2>8. HubInv'
      BY <1>1, <2>1, <2>3, PublishKeepsHub DEF PathInv
    <2>9. feed.published \in [Jobs -> Ranks]
      BY <1>1 DEF FeedStates
    <2>10. \A k \in Jobs : feed.published[k] <= feed'.published[k]
      BY <2>6, <2>9 DEF Ranks, None, Terminal
    <2>11. RingInv'
      <3>1. feed'.published \in [Jobs -> Ranks]
        BY <2>6, <2>9
      <3> QED
        BY <1>1, <2>1, <2>2, <2>3, <2>9, <2>10, <3>1, PublishKeepsOrder DEF PathInv
    <2>12. EngineInv'
      BY <1>1, <2>1 DEF EngineInv, engineVars
    <2> QED
      BY <2>7, <2>8, <2>11, <2>12 DEF PathInv
  <1> QED
    BY <1>2, <1>3, <1>4, <1>5, <1>6, <1>7, <1>8 DEF FeedStep

-----------------------------------------------------------------------------
LEMMA InitInv == FeedInit => Inv
PROOF
  <1> SUFFICES ASSUME FeedInit PROVE Inv
    OBVIOUS
  <1>1. 0 \in 0..MaxProgress /\ Unwatched \in Unwatched..MaxProgress /\ None \in Ranks
    BY FeedAssumption DEF Unwatched, Ranks, None, Terminal
  <1>2. ring = <<>> /\ last = 0
    BY DEF FeedInit, HubInit
  <1>3. HubInv
    BY <1>2, HubAssumption DEF HubInv, HubTyped, RingIsContiguous
  <1>4. EngineInv
    BY <1>1 DEF FeedInit, EngineInv, NoJob
  <1>5. FreshFeed \in FeedStates
    BY <1>1 DEF FreshFeed, FeedStates
  <1>6. FeedInv
    BY <1>5 DEF FeedInit, FeedInv, FreshFeed
  <1>7. RingInv
    BY <1>2 DEF RingInv, RanksOnlyRise, ProgressWhileRunning
  <1> QED
    BY <1>3, <1>4, <1>6, <1>7 DEF Inv

LEMMA InvariantOfFeed ==
  ASSUME FewJobs
  PROVE  FeedSpec => []Inv
PROOF
  <1>1. Inv /\ [FeedNext]_feedVars => Inv'
    <2> SUFFICES ASSUME Inv, [FeedNext]_feedVars PROVE Inv'
      OBVIOUS
    <2>1. PathInv /\ EngineInv /\ SameMemory(feed)
      BY DEF Inv, PathInv, FeedInv, SameMemory
    <2>2. CASE FeedStep
      BY <2>2, FeedSteps DEF PathInv, Inv
    <2>3. CASE EngineStep /\ ~PublishOther
      <3>1. EngineInv' /\ UNCHANGED <<hubVars, feed>>
        BY <2>1, <2>3, EngineSteps
      <3> QED
        BY <2>1, <3>1, SameMemoryKeeps DEF PathInv, Inv, SameMemory
    <2>4. CASE PublishOther
      BY <2>1, <2>4, OtherPublications
         DEF PublishOther, PathInv, Inv, SameMemory, EngineInv, engineVars
    <2>5. CASE UNCHANGED feedVars
      BY <2>1, <2>5, SameMemoryKeeps
         DEF feedVars, PathInv, Inv, SameMemory, EngineInv, engineVars
    <2> QED
      BY <2>2, <2>3, <2>4, <2>5 DEF FeedNext
  <1> QED
    BY <1>1, InitInv, PTL DEF FeedSpec

(* Each rank of a job is published at most once and ranks only rise, whatever
   the engines, the poller and the broadcast channel do: Feed::job. *)
THEOREM RanksAreInOrder ==
  ASSUME FewJobs
  PROVE  FeedSpec => []RanksOnlyRise
PROOF
  <1>1. Inv => RanksOnlyRise
    BY DEF Inv, RingInv
  <1> QED
    BY <1>1, InvariantOfFeed, PTL

(* Progress of a job is published only between its start and its end, although
   a report may wait in the throttle: Feed::progress and Feed::flush_progress. *)
THEOREM ProgressIsInOrder ==
  ASSUME FewJobs
  PROVE  FeedSpec => []ProgressWhileRunning
PROOF
  <1>1. Inv => ProgressWhileRunning
    BY DEF Inv, RingInv
  <1> QED
    BY <1>1, InvariantOfFeed, PTL

(* The events of a job tell its story in order: Feed. *)
THEOREM TheStoryIsInOrder ==
  ASSUME FewJobs
  PROVE  FeedSpec => []EventsAreInOrder
PROOF
  <1>1. Inv => EventsAreInOrder
    BY DEF Inv, RingInv, EventsAreInOrder
  <1> QED
    BY <1>1, InvariantOfFeed, PTL

-----------------------------------------------------------------------------
(* A step of the server *)

\* What a step of the server publishes, if anything.
HubStep == UNCHANGED hubVars \/ (up /\ \E ev \in HubEvents : Publish(ev))

ServerTyped == HubInv /\ EngineInv /\ feed \in FeedStates

LEMMA FeedJobTyped ==
  ASSUME NEW f \in FeedStates, NEW e \in JobEvents, FeedJob(f, e)
  PROVE  feed' \in FeedStates /\ (UNCHANGED hubVars \/ \E ev \in HubEvents : Publish(ev))
PROOF
  <1>1. CASE ~IsNews(e)
    BY <1>1 DEF FeedJob
  <1>2. CASE IsNews(e)
    <2>1. e \in HubEvents /\ e.job \in Jobs /\ e.rank \in Ranks
      BY DEF HubEvents, FeedEvents, JobEvents, Ranks, None, Queued, Terminal
    <2>2. Publish(e)
      BY <1>2 DEF FeedJob
    <2>3. /\ f.published \in [Jobs -> Ranks] /\ f.finished \in Seq(Jobs)
          /\ f.pending \in [Jobs -> 0..MaxProgress] /\ f.throttled \in SUBSET Jobs
      BY DEF FeedStates
    <2>4. CASE e.rank = Terminal
      <3> DEFINE s == Append(f.finished, e.job)
                 over == Len(s) > Remembered
                 p == [f.published EXCEPT ![e.job] = Terminal]
                 fin == IF over THEN Tail(s) ELSE s
                 pub == IF over THEN [p EXCEPT ![Head(s)] = None] ELSE p
                 pen == [f.pending EXCEPT ![e.job] = 0]
      <3>1. s \in Seq(Jobs) /\ s # <<>>
        BY <2>1, <2>3, AppendProperties
      <3>2. Head(s) \in Jobs /\ Tail(s) \in Seq(Jobs)
        BY <3>1, HeadTailProperties
      <3>3. Terminal \in Ranks /\ None \in Ranks /\ 0 \in 0..MaxProgress
        BY FeedAssumption DEF Ranks, None, Terminal
      <3>4. feed' = [f EXCEPT !.finished = fin, !.published = pub, !.pending = pen,
                              !.throttled = f.throttled \ {e.job}, !.dirty = TRUE]
        BY <1>2, <2>4 DEF FeedJob, Settled, FeedStates
      <3> HIDE DEF s
      <3>5. fin \in Seq(Jobs)
        BY <3>1, <3>2
      <3>6. p \in [Jobs -> Ranks]
        BY <2>1, <2>3, <3>3, Updates
      <3> HIDE DEF p
      <3>7. pub \in [Jobs -> Ranks]
        BY <3>2, <3>3, <3>6, Updates
      <3>8. pen \in [Jobs -> 0..MaxProgress]
        BY <2>1, <2>3, <3>3, Updates
      <3> HIDE DEF fin, pub, pen, over
      <3>9. f.throttled \ {e.job} \in SUBSET Jobs
        BY <2>3
      <3> QED
        BY <2>1, <2>2, <3>4, <3>5, <3>7, <3>8, <3>9 DEF FeedStates
    <2>5. CASE e.rank # Terminal
      <3>1. feed' = [f EXCEPT !.published[e.job] = e.rank]
        BY <1>2, <2>5 DEF FeedJob
      <3>2. [f.published EXCEPT ![e.job] = e.rank] \in [Jobs -> Ranks]
        BY <2>1, <2>3, Updates
      <3> QED
        BY <2>1, <2>2, <3>1, <3>2 DEF FeedStates
    <2> QED
      BY <2>4, <2>5
  <1> QED
    BY <1>1, <1>2

LEMMA FeedProgressTyped ==
  ASSUME NEW f \in FeedStates, NEW e \in ProgressEvents, FeedProgress(f, e)
  PROVE  feed' \in FeedStates /\ (UNCHANGED hubVars \/ \E ev \in HubEvents : Publish(ev))
PROOF
  <1>1. e \in HubEvents /\ e.job \in Jobs /\ e.prog \in 0..MaxProgress /\ 0 \in 0..MaxProgress
    BY FeedAssumption DEF HubEvents, FeedEvents, ProgressEvents
  <1>2. f.pending \in [Jobs -> 0..MaxProgress] /\ f.throttled \in SUBSET Jobs
    BY DEF FeedStates
  <1>3. \A p \in 0..MaxProgress : [f.pending EXCEPT ![e.job] = p] \in [Jobs -> 0..MaxProgress]
    BY <1>2, Updates
  <1>4. f.throttled \cup {e.job} \in SUBSET Jobs
    BY <1>1, <1>2
  <1>5. CASE feed' = f /\ UNCHANGED hubVars
    BY <1>5
  <1>6. CASE /\ feed' = [f EXCEPT !.pending[e.job] = 0, !.throttled = @ \cup {e.job}]
             /\ Publish(e)
    BY <1>1, <1>3, <1>4, <1>6 DEF FeedStates
  <1>7. CASE /\ feed' = [f EXCEPT !.pending[e.job] = e.prog]
             /\ UNCHANGED hubVars
    BY <1>1, <1>3, <1>7 DEF FeedStates
  <1> QED
    BY <1>5, <1>6, <1>7 DEF FeedProgress

LEMMA PolledTyped ==
  ASSUME feed \in FeedStates, NEW e \in feed.polled, Polled(e)
  PROVE  /\ feed' \in FeedStates /\ UNCHANGED engineVars
         /\ UNCHANGED hubVars \/ \E ev \in HubEvents : Publish(ev)
PROOF
  <1> DEFINE rest == feed.polled \ {e}
             again == IF e.prog > 0 /\ feed.watched[e.job] # e.prog
                      THEN rest \cup {ProgressEvent(e.job, e.prog)} ELSE rest
             Goal == /\ feed' \in FeedStates
                     /\ UNCHANGED hubVars \/ \E ev \in HubEvents : Publish(ev)
  <1>1. e \in FeedEvents /\ rest \in SUBSET FeedEvents
    BY DEF FeedStates
  <1>2. feed.watched \in [Jobs -> Unwatched..MaxProgress]
    BY DEF FeedStates
  <1>3. ASSUME e.type = "progress", FeedProgress([feed EXCEPT !.polled = rest], e)
        PROVE  Goal
    <2>1. e \in ProgressEvents
      BY <1>1, <1>3 DEF FeedEvents, JobEvents
    <2>2. [feed EXCEPT !.polled = rest] \in FeedStates
      BY <1>1 DEF FeedStates
    <2> QED
      BY <1>3, <2>1, <2>2, FeedProgressTyped
  <1>4. ASSUME NEW q \in SUBSET FeedEvents, NEW w \in Unwatched..MaxProgress, e.type = "job",
               FeedJob([feed EXCEPT !.polled = q, !.watched[e.job] = w], e)
        PROVE  Goal
    <2>1. e \in JobEvents
      BY <1>1, <1>4 DEF FeedEvents, ProgressEvents
    <2>2. [feed.watched EXCEPT ![e.job] = w] \in [Jobs -> Unwatched..MaxProgress]
      BY <1>2, Updates
    <2>3. [feed EXCEPT !.polled = q, !.watched[e.job] = w] \in FeedStates
      BY <2>2 DEF FeedStates
    <2> QED
      BY <1>4, <2>1, <2>3, FeedJobTyped
  <1>5. ASSUME e.type = "job", e.rank = Running,
               FeedJob([feed EXCEPT !.polled = again, !.watched[e.job] = e.prog], e)
        PROVE  Goal
    <2>1. e \in JobEvents
      BY <1>1, <1>5 DEF FeedEvents, ProgressEvents
    <2>2. e.job \in Jobs /\ e.prog \in 0..MaxProgress /\ e.prog \in Unwatched..MaxProgress
      BY <2>1, FeedAssumption DEF JobEvents, Unwatched
    <2>3. e.prog > 0 => ProgressEvent(e.job, e.prog) \in FeedEvents
      BY <2>2, FeedAssumption DEF ProgressEvent, ProgressEvents, FeedEvents
    <2>4. again \in SUBSET FeedEvents
      BY <1>1, <2>3
    <2> QED
      BY <1>4, <1>5, <2>2, <2>4
  <1>6. ASSUME e.type = "job", e.rank # Running,
               FeedJob([feed EXCEPT !.polled = rest,
                          !.watched[e.job] = IF e.rank = Queued THEN 0 ELSE Unwatched], e)
        PROVE  Goal
    <2>1. (IF e.rank = Queued THEN 0 ELSE Unwatched) \in Unwatched..MaxProgress
      BY FeedAssumption DEF Unwatched
    <2> QED
      BY <1>1, <1>4, <1>6, <2>1
  <1>7. UNCHANGED engineVars
    BY DEF Polled
  <1>8. Goal
    BY <1>3, <1>5, <1>6 DEF Polled
  <1> QED
    BY <1>7, <1>8

LEMMA ServerSteps ==
  ASSUME ServerTyped, FeedStep \/ EngineStep
  PROVE  EngineInv' /\ feed' \in FeedStates /\ HubStep /\ up' = up
PROOF
  <1>1. EngineInv /\ feed \in FeedStates
    BY DEF ServerTyped
  <1>2. OtherEvent \in HubEvents /\ Resync \in HubEvents
    BY DEF HubEvents
  <1>3. CASE FeedBegin
    <2>1. {j \in Jobs : Created(j)} \in SUBSET Jobs
      OBVIOUS
    <2> QED
      BY <1>1, <1>3, <2>1 DEF FeedBegin, FeedStates, EngineInv, engineVars, HubStep
  <1>4. CASE FeedLagged
    BY <1>1, <1>2, <1>4 DEF FeedLagged, FeedIdle, EngineInv, HubStep
  <1>5. CASE FeedEvent
    <2>1. Head(bus) \in FeedEvents /\ bus' \in Seq(FeedEvents)
      BY <1>1, <1>5, HeadTailProperties DEF FeedEvent, EngineInv
    <2>2. EngineInv' /\ up /\ up' = up
      BY <1>1, <1>5, <2>1 DEF FeedEvent, FeedIdle, EngineInv
    <2>3. CASE Head(bus).type = "job"
      <3>1. Head(bus) \in JobEvents
        BY <2>1, <2>3 DEF FeedEvents, ProgressEvents
      <3> QED
        BY <1>1, <1>5, <2>2, <2>3, <3>1, FeedJobTyped DEF FeedEvent, HubStep
    <2>4. CASE Head(bus).type # "job"
      <3>1. Head(bus) \in ProgressEvents
        BY <2>1, <2>4 DEF FeedEvents, JobEvents
      <3> QED
        BY <1>1, <1>5, <2>2, <2>4, <3>1, FeedProgressTyped DEF FeedEvent, HubStep
    <2> QED
      BY <2>3, <2>4
  <1>6. CASE Poll
    <2>1. \A j \in PollResult : JobEvent(j, job[j].rank, job[j].prog) \in JobEvents
      BY <1>1 DEF PollResult, Created, EngineInv, JobEvent, JobEvents, Ranks, None, Queued, Terminal
    <2>2. {JobEvent(j, job[j].rank, job[j].prog) : j \in PollResult} \in SUBSET FeedEvents
      BY <2>1 DEF FeedEvents
    <2>3. feed.seen \cup PollResult \in SUBSET Jobs
      BY <1>1 DEF FeedStates, PollResult
    <2> QED
      BY <1>1, <1>6, <2>2, <2>3 DEF Poll, FeedStates, EngineInv, engineVars, HubStep
  <1>7. CASE PublishDirty
    BY <1>1, <1>2, <1>7 DEF PublishDirty, FeedStates, EngineInv, engineVars, HubStep
  <1>8. ASSUME NEW e \in feed.polled, Polled(e)
        PROVE  EngineInv' /\ feed' \in FeedStates /\ HubStep /\ up' = up
    <2>1. up
      BY <1>8 DEF Polled
    <2> QED
      BY <1>1, <1>8, <2>1, PolledTyped DEF EngineInv, engineVars, HubStep
  <1>9. ASSUME NEW j \in Jobs, FlushProgress(j)
        PROVE  EngineInv' /\ feed' \in FeedStates /\ HubStep /\ up' = up
    <2>1. feed.pending \in [Jobs -> 0..MaxProgress] /\ 0 \in 0..MaxProgress
      BY <1>1, FeedAssumption DEF FeedStates
    <2>2. feed.pending[j] \in 1..MaxProgress
      BY <1>9, <2>1, FeedAssumption DEF FlushProgress
    <2>3. ProgressEvent(j, feed.pending[j]) \in HubEvents
      BY <2>2 DEF ProgressEvent, ProgressEvents, FeedEvents, HubEvents
    <2>4. [feed.pending EXCEPT ![j] = 0] \in [Jobs -> 0..MaxProgress]
      BY <2>1, Updates
    <2> QED
      BY <1>1, <1>9, <2>3, <2>4
      DEF FlushProgress, FeedIdle, FeedStates, EngineInv, engineVars, HubStep
  <1>10. CASE PublishOther
    BY <1>1, <1>2, <1>10 DEF PublishOther, EngineInv, engineVars, HubStep
  <1>11. CASE EngineStep /\ ~PublishOther
    <2>1. EngineInv' /\ UNCHANGED <<hubVars, feed>>
      BY <1>1, <1>11, EngineSteps
    <2>2. up' = up
      BY <1>11 DEF EngineStep, Submit, Run, End, Reap, Report, Save, OtherEngine, Tell
    <2> QED
      BY <1>1, <2>1, <2>2 DEF HubStep
  <1> QED
    BY <1>3, <1>4, <1>5, <1>6, <1>7, <1>8, <1>9, <1>10, <1>11 DEF FeedStep

-----------------------------------------------------------------------------
(* What the feed owes its clients *)

\* No event or record is ahead of its row.
Behind(e) == e.type = "job" => e.rank <= job[e.job].rank

\* Nothing published, sent or read is ahead of the store.
RankInv ==
  /\ \A j \in Jobs : feed.published[j] <= job[j].rank
  /\ \A d \in due : d.rank <= job[d.job].rank
  /\ \A e \in Range(bus) \cup feed.polled : Behind(e)
  /\ \A i \in 1..Len(ring) : Behind(ring[i].event)

\* The feed has read the job and not yet handled what it read.
PolledJob(j) == \E e \in feed.polled : e.type = "job" /\ e.job = j

\* A job of this engine stays one; what the feed has seen or read of others exists.
OwnInv ==
  /\ owner \in [Jobs -> Nat]
  /\ \A j \in Jobs : owner[j] <= instance /\ (~Created(j) => owner[j] = Elsewhere)
  /\ \A j \in feed.seen : Created(j)
  /\ \A j \in Jobs : PolledJob(j) => Created(j) /\ ~Mine(j)
  /\ ~up => feed.phase = "off"
  /\ feed.phase # "on" => feed.polled = {}

\* The feed keeps an eye on each unfinished job of another engine.
WatchInv ==
  feed.phase = "on" =>
    \A j \in feed.seen :
      ~Mine(j) /\ job[j].rank # Terminal => feed.watched[j] # Unwatched \/ PolledJob(j)

\* What the feed keeps so that nothing is left untold.
TellInv == RankInv /\ OwnInv /\ WatchInv

\* The feed has yet to publish something that tells a client of the job's rank.
Sources(j) ==
  \/ \E d \in due : d.job = j /\ d.rank = job[j].rank
  \/ \E e \in Range(bus) : e.type = "job" /\ e.job = j /\ e.rank = job[j].rank
  \/ PolledJob(j)
  \/ Created(j) /\ ~Mine(j) /\ Polls(j)
\* The rank of the job is still to be told.
Owed(j) == lagged \/ (feed.published[j] < job[j].rank /\ Sources(j))

\* Whoever hears of the event learns the rank of the job.
Tells(j, e) == e = Resync \/ (e.type = "job" /\ e.job = j /\ e.rank = job[j].rank)

(* What the feed's handlers of a transition and of progress do besides. *)
LEMMA FeedJobEffect ==
  ASSUME NEW f \in FeedStates, NEW e \in JobEvents, f.published = feed.published, FeedJob(f, e)
  PROVE  /\ feed' \in FeedStates
         /\ feed'.seen = f.seen /\ feed'.phase = f.phase
         /\ feed'.polled = f.polled /\ feed'.watched = f.watched
         /\ \A j \in Jobs : \/ feed'.published[j] <= f.published[j]
                            \/ j = e.job /\ feed'.published[j] <= e.rank
         /\ \/ f.published[e.job] < e.rank /\ Publish(e)
            \/ f.published[e.job] >= e.rank /\ UNCHANGED hubVars
PROOF
  <1>0. /\ feed' \in FeedStates /\ e.job \in Jobs /\ e.rank \in Queued..Terminal
        /\ f.published \in [Jobs -> Ranks] /\ f.finished \in Seq(Jobs)
    BY FeedJobTyped DEF FeedStates, JobEvents
  <1>1. CASE ~IsNews(e)
    <2>1. feed' = f /\ UNCHANGED hubVars
      BY <1>1 DEF FeedJob
    <2>2. f.published[e.job] >= e.rank
      BY <1>0, <1>1 DEF IsNews, Ranks, None, Queued, Terminal
    <2>3. \A j \in Jobs : f.published[j] <= f.published[j]
      BY <1>0 DEF Ranks, None, Terminal
    <2> QED
      BY <1>0, <2>1, <2>2, <2>3
  <1>2. CASE IsNews(e)
    <2>1. f.published[e.job] < e.rank /\ Publish(e)
      BY <1>2 DEF IsNews, FeedJob
    <2>2. CASE e.rank = Terminal
      <3> DEFINE s == Append(f.finished, e.job)
                 over == Len(s) > Remembered
                 p == [f.published EXCEPT ![e.job] = Terminal]
                 fin == IF over THEN Tail(s) ELSE s
                 pub == IF over THEN [p EXCEPT ![Head(s)] = None] ELSE p
                 pen == [f.pending EXCEPT ![e.job] = 0]
      <3>1. feed' = [f EXCEPT !.finished = fin, !.published = pub, !.pending = pen,
                              !.throttled = f.throttled \ {e.job}, !.dirty = TRUE]
        BY <1>2, <2>2 DEF FeedJob, Settled, FeedStates
      <3>2. s \in Seq(Jobs) /\ s # <<>>
        BY <1>0, AppendProperties
      <3>3. Head(s) \in Jobs
        BY <3>2, HeadTailProperties
      <3> HIDE DEF s
      <3>4. p \in [Jobs -> Ranks] /\ p[e.job] = Terminal
            /\ \A j \in Jobs : j # e.job => p[j] = f.published[j]
        BY <1>0 DEF Ranks, None, Terminal
      <3> HIDE DEF p
      <3>5. \A j \in Jobs : pub[j] = p[j] \/ pub[j] = None
        BY <3>3, <3>4
      <3> HIDE DEF fin, pub, pen, over
      <3>6. /\ feed'.seen = f.seen /\ feed'.phase = f.phase /\ feed'.polled = f.polled
            /\ feed'.watched = f.watched /\ feed'.published = pub
        BY <3>1 DEF FeedStates
      <3>7. ASSUME NEW j \in Jobs
            PROVE  \/ pub[j] <= f.published[j]
                   \/ j = e.job /\ pub[j] <= e.rank
        <4>1. f.published[j] \in 0..3 /\ None = 0 /\ Terminal = 3
          BY <1>0 DEF Ranks, None, Terminal
        <4> QED
          BY <2>2, <3>4, <3>5, <4>1
      <3> QED
        BY <1>0, <2>1, <3>6, <3>7
    <2>3. CASE e.rank # Terminal
      <3> DEFINE p == [f.published EXCEPT ![e.job] = e.rank]
      <3>1. feed' = [f EXCEPT !.published = p]
        BY <1>2, <2>3 DEF FeedJob, FeedStates
      <3>2. p[e.job] = e.rank /\ \A j \in Jobs : j # e.job => p[j] = f.published[j]
        BY <1>0
      <3> HIDE DEF p
      <3>3. /\ feed'.seen = f.seen /\ feed'.phase = f.phase /\ feed'.polled = f.polled
            /\ feed'.watched = f.watched /\ feed'.published = p
        BY <3>1 DEF FeedStates
      <3>4. ASSUME NEW j \in Jobs
            PROVE  \/ p[j] <= f.published[j]
                   \/ j = e.job /\ p[j] <= e.rank
        <4>1. f.published[j] \in 0..3 /\ e.rank \in Nat
          BY <1>0 DEF Ranks, None, Terminal, Queued
        <4> QED
          BY <3>2, <4>1
      <3> QED
        BY <1>0, <2>1, <3>3, <3>4
    <2> QED
      BY <2>2, <2>3
  <1> QED
    BY <1>1, <1>2

\* Progress leaves alone all the feed keeps of ranks.
LEMMA FeedProgressEffect ==
  ASSUME NEW f \in FeedStates, NEW e \in ProgressEvents, FeedProgress(f, e)
  PROVE  /\ feed' \in FeedStates
         /\ feed'.seen = f.seen /\ feed'.phase = f.phase
         /\ feed'.polled = f.polled /\ feed'.watched = f.watched
         /\ feed'.published = f.published
         /\ Publish(e) \/ UNCHANGED hubVars
PROOF
  <1>0. feed' \in FeedStates
    BY FeedProgressTyped
  <1>1. CASE feed' = f /\ UNCHANGED hubVars
    BY <1>0, <1>1
  <1>2. CASE /\ feed' = [f EXCEPT !.pending[e.job] = 0, !.throttled = @ \cup {e.job}]
             /\ Publish(e)
    BY <1>0, <1>2 DEF FeedStates
  <1>3. CASE /\ feed' = [f EXCEPT !.pending[e.job] = e.prog]
             /\ UNCHANGED hubVars
    BY <1>0, <1>3 DEF FeedStates
  <1> QED
    BY <1>1, <1>2, <1>3 DEF FeedProgress

\* What the channel loses, the feed is told it lost.
LEMMA SendEffect ==
  ASSUME bus \in Seq(FeedEvents), NEW e \in FeedEvents, SendOnBus(e)
  PROVE  /\ Range(bus') \subseteq Range(bus) \cup {e} /\ e \in Range(bus')
         /\ lagged => lagged'
         /\ lagged' \/ Range(bus) \subseteq Range(bus')
PROOF
  <1>1. CASE Len(bus) = BusCapacity
    <2>1. bus' = Append(Tail(bus), e) /\ (lagged' <=> TRUE)
      BY <1>1 DEF SendOnBus
    <2>2. bus # <<>>
      BY <1>1, FeedAssumption
    <2>3. /\ Tail(bus) \in Seq(FeedEvents) /\ Len(Tail(bus)) = Len(bus) - 1 /\ Len(bus) \in Nat
          /\ \A i \in 1..Len(Tail(bus)) : Tail(bus)[i] = bus[i + 1]
      BY <2>2, HeadTailProperties
    <2> DEFINE t == Tail(bus)
    <2> HIDE DEF t
    <2>4. /\ bus' = Append(t, e) /\ t \in Seq(FeedEvents) /\ Len(t) = Len(bus) - 1
          /\ \A i \in 1..Len(t) : t[i] = bus[i + 1]
      BY <2>1, <2>3 DEF t
    <2>5. /\ Len(bus') = Len(t) + 1 /\ bus'[Len(t) + 1] = e /\ Len(t) \in Nat
          /\ \A i \in 1..Len(t) : bus'[i] = t[i]
      BY <2>4, AppendProperties
    <2>6. bus' \in Seq(FeedEvents)
      BY <2>4
    <2>7. ASSUME NEW i \in 1..Len(bus') PROVE bus'[i] \in Range(bus) \cup {e}
      <3>1. CASE i = Len(t) + 1
        BY <2>5, <3>1
      <3>2. CASE i # Len(t) + 1
        <4>0. Len(t) = Len(bus) - 1 /\ Len(bus) \in Nat /\ Len(bus') = Len(t) + 1
          BY <2>3, <2>4, <2>5
        <4>1. i \in 1..Len(t) /\ i + 1 \in 1..Len(bus)
          BY <3>2, <4>0
        <4>2. bus'[i] = bus[i + 1]
          BY <2>4, <2>5, <4>1
        <4> QED
          BY <4>1, <4>2 DEF Range
      <3> QED
        BY <3>1, <3>2
    <2>8. Range(bus') \subseteq Range(bus) \cup {e}
      BY <2>6, <2>7 DEF Range
    <2>9. e \in Range(bus')
      BY <2>5, <2>6 DEF Range
    <2> QED
      BY <2>1, <2>8, <2>9
  <1>2. CASE Len(bus) # BusCapacity
    <2>1. bus' = Append(bus, e) /\ lagged' = lagged
      BY <1>2 DEF SendOnBus
    <2>2. /\ Len(bus') = Len(bus) + 1 /\ bus'[Len(bus) + 1] = e /\ Len(bus) \in Nat
          /\ \A i \in 1..Len(bus) : bus'[i] = bus[i]
      BY <2>1, AppendProperties
    <2>3. bus' \in Seq(FeedEvents)
      BY <2>1
    <2>4. \A i \in 1..Len(bus') : i \in 1..Len(bus) \/ i = Len(bus) + 1
      BY <2>2
    <2>5. Range(bus') \subseteq Range(bus) \cup {e}
      BY <2>2, <2>3, <2>4 DEF Range
    <2>6. Range(bus) \subseteq Range(bus') /\ e \in Range(bus')
      BY <2>2, <2>3 DEF Range
    <2> QED
      BY <2>1, <2>5, <2>6
  <1> QED
    BY <1>1, <1>2

-----------------------------------------------------------------------------
(* The engines *)

\* Job k gets the rank r, and its event is due unless another engine stored it.
Moves(k, r) ==
  /\ job[k].rank < r /\ job'[k].rank = r
  /\ \A j \in Jobs : j # k => job'[j].rank = job[j].rank
  /\ \/ /\ due' = due \cup {[job |-> k, rank |-> r]}
        /\ owner' = owner \/ (owner' = [owner EXCEPT ![k] = instance] /\ ~Created(k) /\ up)
     \/ due' = due /\ owner' = owner /\ ~Mine(k) /\ (Created(k) => job[k].rank # Terminal)
  /\ UNCHANGED <<bus, lagged>>

\* No rank changes; something may be sent.
Sends ==
  /\ \A j \in Jobs : job'[j].rank = job[j].rank
  /\ owner' = owner
  /\ \/ UNCHANGED <<due, bus, lagged>>
     \/ due' = due /\ \E e \in ProgressEvents : SendOnBus(e)
     \/ \E d \in due : due' = due \ {d} /\ SendOnBus(JobEvent(d.job, d.rank, 0))

\* An engine moves one job, or only sends.
LEMMA EngineMoves ==
  ASSUME ServerTyped, OwnInv, instance \in Nat \ {0}, EngineStep
  PROVE  /\ feed' = feed /\ up' = up /\ instance' = instance
         /\ Sends \/ \E k \in Jobs, r \in Queued..Terminal : Moves(k, r)
         /\ UNCHANGED hubVars \/ (Sends /\ UNCHANGED engineVars /\ Publish(OtherEvent))
PROOF
  <1>0. /\ job \in [Jobs -> [rank : Ranks, prog : 0..MaxProgress]] /\ owner \in [Jobs -> Nat]
        /\ \A j \in Jobs : job[j].rank \in 0..3 /\ (~Created(j) => owner[j] = Elsewhere)
    BY DEF ServerTyped, EngineInv, OwnInv, Ranks, None, Terminal
  <1> DEFINE Goal ==
         /\ feed' = feed /\ up' = up /\ instance' = instance
         /\ Sends \/ \E k \in Jobs, r \in Queued..Terminal : Moves(k, r)
         /\ UNCHANGED hubVars \/ (Sends /\ UNCHANGED engineVars /\ Publish(OtherEvent))
  <1>1. ASSUME NEW k \in Jobs, NEW r \in Queued..Terminal, Store(k, r)
        PROVE  job'[k].rank = r /\ \A j \in Jobs : j # k => job'[j].rank = job[j].rank
    BY <1>0, <1>1 DEF Store
  <1>2. ASSUME NEW k \in Jobs, NEW r \in {Queued, Terminal}, Submit(k, r) PROVE Goal
    <2>1. StoreAndTell(k, r) /\ up /\ ~Created(k) /\ owner' = [owner EXCEPT ![k] = instance]
          /\ UNCHANGED <<hubVars, up, bus, lagged, feed>>
      BY <1>2 DEF Submit
    <2>2. r \in Queued..Terminal /\ job[k].rank < r
      BY <1>0, <2>1 DEF Created, None, Queued, Terminal
    <2>3. Moves(k, r)
      BY <1>0, <1>1, <2>1, <2>2 DEF StoreAndTell, Moves
    <2> QED
      BY <2>1, <2>2, <2>3 DEF hubVars
  <1>3. ASSUME NEW k \in Jobs, NEW r \in {Running, Terminal}, job[k].rank < r, StoreAndTell(k, r),
               UNCHANGED <<hubVars, up, owner, bus, lagged, feed>>
        PROVE  Goal
    <2>1. r \in Queued..Terminal
      BY DEF Queued, Running, Terminal
    <2>2. Moves(k, r)
      BY <1>1, <1>3, <2>1 DEF StoreAndTell, Moves
    <2> QED
      BY <1>3, <2>1, <2>2 DEF hubVars
  <1>4. ASSUME NEW k \in Jobs, Run(k) PROVE Goal
    BY <1>3, <1>4 DEF Run, Queued, Running
  <1>5. ASSUME NEW k \in Jobs, End(k) PROVE Goal
    BY <1>3, <1>5 DEF End, Queued, Running, Terminal
  <1>6. ASSUME NEW k \in Jobs, Reap(k) PROVE Goal
    BY <1>3, <1>6 DEF Reap, Queued, Running, Terminal
  <1>7. ASSUME NEW k \in Jobs, Report(k) PROVE Goal
    <2>1. live[k] + 1 \in 1..MaxProgress /\ job' = job /\ due' = due /\ owner' = owner
          /\ SendOnBus(ProgressEvent(k, live[k] + 1)) /\ UNCHANGED <<hubVars, up, feed>>
      BY <1>7, FeedAssumption DEF Report, ServerTyped, EngineInv
    <2>2. ProgressEvent(k, live[k] + 1) \in ProgressEvents
      BY <2>1 DEF ProgressEvent, ProgressEvents
    <2> QED
      BY <2>1, <2>2 DEF Sends, hubVars
  <1>8. ASSUME NEW k \in Jobs, Save(k) PROVE Goal
    <2>1. \A j \in Jobs : job'[j].rank = job[j].rank
      BY <1>0, <1>8 DEF Save
    <2> QED
      BY <1>8, <2>1 DEF Save, Sends, hubVars
  <1>9. ASSUME NEW k \in Jobs, OtherEngine(k) PROVE Goal
    <2>0. UNCHANGED <<hubVars, up, owner, due, bus, lagged, feed>>
      BY <1>9 DEF OtherEngine
    <2>1. ASSUME NEW r \in Queued..Terminal, Store(k, r), job[k].rank < r, ~Mine(k),
                 Created(k) => job[k].rank # Terminal
          PROVE  Goal
      <3>1. Moves(k, r)
        BY <1>1, <2>0, <2>1 DEF Moves
      <3> QED
        BY <2>0, <3>1 DEF hubVars
    <2>2. CASE ~Created(k) /\ \E r \in {Queued, Terminal} : Store(k, r)
      <3>1. PICK r \in {Queued, Terminal} : Store(k, r)
        BY <2>2
      <3>2. r \in Queued..Terminal /\ job[k].rank < r
        BY <1>0, <2>2, <3>1 DEF Created, None, Queued, Terminal
      <3>3. ~Mine(k)
        BY <1>0, <2>2 DEF Mine, Elsewhere, ServerTyped
      <3> QED
        BY <2>1, <2>2, <3>1, <3>2, <3>3
    <2>3. CASE owner[k] = Elsewhere /\ job[k].rank = Queued /\ Store(k, Running)
      BY <2>1, <2>3 DEF Mine, Elsewhere, Queued, Running, Terminal
    <2>4. CASE ~Mine(k) /\ job[k].rank \in {Queued, Running} /\ Store(k, Terminal)
      BY <2>1, <2>4 DEF Queued, Running, Terminal
    <2>5. CASE /\ owner[k] = Elsewhere /\ job[k].rank = Running /\ job[k].prog < MaxProgress
               /\ job' = [job EXCEPT ![k].prog = @ + 1] /\ UNCHANGED live
      <3>1. \A j \in Jobs : job'[j].rank = job[j].rank
        BY <1>0, <2>5
      <3> QED
        BY <2>0, <3>1 DEF Sends, hubVars
    <2> QED
      BY <1>9, <2>2, <2>3, <2>4, <2>5 DEF OtherEngine
  <1>10. ASSUME NEW d \in due, Tell(d) PROVE Goal
    BY <1>10 DEF Tell, Sends, hubVars
  <1>11. CASE PublishOther
    BY <1>11 DEF PublishOther, Sends, engineVars, Publish
  <1> QED
    BY <1>2, <1>4, <1>5, <1>6, <1>7, <1>8, <1>9, <1>10, <1>11 DEF EngineStep

\* No job moves backwards.
RanksRise == \A j \in Jobs : job[j].rank \in 0..3 /\ job'[j].rank \in 0..3
                             /\ job[j].rank <= job'[j].rank

\* What is not ahead of the store does not get ahead of it.
LEMMA BehindStays ==
  ASSUME RanksRise, NEW e \in HubEvents, Behind(e)
  PROVE  Behind(e)'
PROOF
  <1>1. CASE e.type = "job"
    <2>1. e \in JobEvents
      BY <1>1 DEF HubEvents, FeedEvents, ProgressEvents, OtherEvent, Resync
    <2>2. e.job \in Jobs /\ e.rank \in Nat
      BY <2>1 DEF JobEvents, Queued, Terminal
    <2> QED
      BY <1>1, <2>2 DEF Behind, RanksRise
  <1>2. CASE e.type # "job"
    BY <1>2 DEF Behind
  <1> QED
    BY <1>1, <1>2

\* Nor does the ring with one more event.
LEMMA RingBehind ==
  ASSUME HubInv, RanksRise, \A i \in 1..Len(ring) : Behind(ring[i].event),
         UNCHANGED hubVars \/ \E ev \in HubEvents : Publish(ev) /\ Behind(ev)'
  PROVE  \A i \in 1..Len(ring') : Behind(ring[i].event)'
PROOF
  <1>1. \A i \in 1..Len(ring) : ring[i].event \in HubEvents
    <2> DEFINE F == [seq : Nat, event : HubEvents]
    <2>1. ring \in Seq(F)
      BY DEF HubInv, HubTyped
    <2>2. \A f \in F : f.event \in HubEvents
      OBVIOUS
    <2> HIDE DEF F
    <2>3. \A i \in 1..Len(ring) : ring[i] \in F
      BY <2>1
    <2> QED
      BY <2>2, <2>3
  <1>2. CASE UNCHANGED hubVars
    <2>1. ring' = ring
      BY <1>2 DEF hubVars
    <2>2. \A i \in 1..Len(ring) : Behind(ring[i].event)'
      <3> SUFFICES ASSUME NEW i \in 1..Len(ring) PROVE Behind(ring[i].event)'
        OBVIOUS
      <3>1. \A e \in HubEvents : Behind(e) => Behind(e)'
        BY BehindStays
      <3>2. ring[i].event \in HubEvents /\ Behind(ring[i].event) /\ ring'[i] = ring[i]
        BY <1>1, <2>1
      <3> QED
        BY <3>1, <3>2 DEF Behind
    <2> QED
      BY <2>1, <2>2
  <1>3. ASSUME NEW ev \in HubEvents, Publish(ev), Behind(ev)'
        PROVE  \A i \in 1..Len(ring') : Behind(ring[i].event)'
    <2>1. /\ Len(ring) \in Nat /\ Len(ring') \in Nat
          /\ ring'[Len(ring')] = [seq |-> last + 1, event |-> ev]
          /\ \A i \in 1..(Len(ring') - 1) :
               i + Leaving \in 1..Len(ring) /\ ring'[i] = ring[i + Leaving]
      BY <1>3, PublishedFrames DEF HubInv
    <2> SUFFICES ASSUME NEW i \in 1..Len(ring') PROVE Behind(ring[i].event)'
      OBVIOUS
    <2>2. CASE i = Len(ring')
      <3>1. ring'[i].event = ev
        BY <2>1, <2>2
      <3> QED
        BY <1>3, <3>1 DEF Behind
    <2>3. CASE i # Len(ring')
      <3>1. i \in 1..(Len(ring') - 1)
        BY <2>1, <2>3
      <3>2. i + Leaving \in 1..Len(ring) /\ ring'[i].event = ring[i + Leaving].event
        BY <2>1, <3>1
      <3>3. \A e \in HubEvents : Behind(e) => Behind(e)'
        BY BehindStays
      <3>4. ring[i + Leaving].event \in HubEvents /\ Behind(ring[i + Leaving].event)
        BY <1>1, <3>2
      <3> QED
        BY <3>2, <3>3, <3>4 DEF Behind
    <2> QED
      BY <2>2, <2>3
  <1> QED
    BY <1>2, <1>3

(* What an engine stores, the feed owes to its clients; and it stays owed. *)
LEMMA EngineTells ==
  ASSUME ServerTyped, TellInv, instance \in Nat \ {0}, EngineStep
  PROVE  /\ TellInv' /\ RanksRise
         /\ \A j \in Jobs :
              IF job'[j].rank = job[j].rank THEN Owed(j) => Owed(j)'
              ELSE feed.phase = "on" => Owed(j)'
PROOF
  <1>0. /\ HubInv /\ EngineInv /\ feed \in FeedStates /\ RankInv /\ OwnInv /\ WatchInv
    BY DEF ServerTyped, TellInv
  <1>1. /\ feed' = feed /\ up' = up /\ instance' = instance
        /\ Sends \/ \E k \in Jobs, r \in Queued..Terminal : Moves(k, r)
        /\ UNCHANGED hubVars \/ (Sends /\ UNCHANGED engineVars /\ Publish(OtherEvent))
    BY <1>0, EngineMoves
  <1>2. \A j \in Jobs : job[j].rank \in 0..3 /\ feed.published[j] \in 0..3
    BY <1>0 DEF EngineInv, FeedStates, Ranks, None, Terminal
  <1>3. RanksRise /\ \A j \in Jobs : job'[j].rank \in 0..3
    BY <1>1, <1>2 DEF Sends, Moves, RanksRise, Queued, Terminal
  <1>4. OtherEvent \in HubEvents /\ Behind(OtherEvent)'
    BY DEF HubEvents, OtherEvent, Behind
  <1>5. \A i \in 1..Len(ring') : Behind(ring[i].event)'
    BY <1>0, <1>1, <1>3, <1>4, RingBehind DEF RankInv
  <1>6. \A d \in due : d.job \in Jobs /\ d.rank \in Queued..Terminal /\ d.rank <= job[d.job].rank
    BY <1>0 DEF EngineInv, RankInv
  <1>7. \A e \in Range(bus) \cup feed.polled : e \in HubEvents /\ Behind(e)'
    <2>1. \A e \in Range(bus) \cup feed.polled : e \in HubEvents
      BY <1>0 DEF EngineInv, FeedStates, HubEvents, Range
    <2> QED
      BY <1>0, <1>3, <2>1, BehindStays DEF RankInv
  <1>8. \A j \in Jobs : PolledJob(j)' <=> PolledJob(j)
    BY <1>1 DEF PolledJob
  <1>9. CASE Sends
    <2>1. owner' = owner /\ \A j \in Jobs : job'[j].rank = job[j].rank
      BY <1>9 DEF Sends
    <2>2. \A j \in Jobs : (Mine(j)' <=> Mine(j)) /\ (Created(j)' <=> Created(j))
                          /\ (Polls(j)' <=> Polls(j))
      BY <1>1, <2>1 DEF Mine, Created, Polls
    <2>3. OwnInv' /\ WatchInv'
      BY <1>0, <1>1, <1>8, <2>1, <2>2 DEF OwnInv, WatchInv, FeedStates
    <2>4. /\ due' \subseteq due /\ (lagged => lagged')
          /\ \A e \in Range(bus') : e \in Range(bus) \/ Behind(e)'
          /\ \A d \in due : \/ d \in due' \/ lagged'
                            \/ \E e \in Range(bus') :
                                  e.type = "job" /\ e.job = d.job /\ e.rank = d.rank
          /\ lagged' \/ Range(bus) \subseteq Range(bus')
      <3>1. CASE UNCHANGED <<due, bus, lagged>>
        BY <3>1
      <3>2. ASSUME NEW e \in ProgressEvents, due' = due, SendOnBus(e)
            PROVE  /\ due' \subseteq due /\ (lagged => lagged')
                   /\ Range(bus') \subseteq Range(bus) \cup {e} /\ e.type = "progress"
                   /\ lagged' \/ Range(bus) \subseteq Range(bus')
        <4>1. e \in FeedEvents /\ e.type = "progress"
          BY DEF FeedEvents, ProgressEvents
        <4> QED
          BY <1>0, <3>2, <4>1, SendEffect DEF EngineInv
      <3>3. ASSUME NEW d \in due, due' = due \ {d}, SendOnBus(JobEvent(d.job, d.rank, 0))
            PROVE  \E e \in JobEvents :
                     /\ e.job = d.job /\ e.rank = d.rank /\ e.type = "job"
                     /\ Range(bus') \subseteq Range(bus) \cup {e} /\ e \in Range(bus')
                     /\ (lagged => lagged') /\ (lagged' \/ Range(bus) \subseteq Range(bus'))
        <4> DEFINE e == JobEvent(d.job, d.rank, 0)
        <4>1. e \in JobEvents /\ e.job = d.job /\ e.rank = d.rank /\ e.type = "job"
          BY <1>6, FeedAssumption DEF JobEvent, JobEvents
        <4> HIDE DEF e
        <4>2. e \in FeedEvents
          BY <4>1 DEF FeedEvents
        <4>3. SendOnBus(e)
          BY <3>3 DEF e
        <4>4. /\ Range(bus') \subseteq Range(bus) \cup {e} /\ e \in Range(bus')
              /\ (lagged => lagged') /\ (lagged' \/ Range(bus) \subseteq Range(bus'))
          BY <1>0, <4>2, <4>3, SendEffect DEF EngineInv
        <4> QED
          BY <4>1, <4>4
      <3>4. ASSUME NEW d \in due, due' = due \ {d}, SendOnBus(JobEvent(d.job, d.rank, 0))
            PROVE  /\ \A e \in Range(bus') : e \in Range(bus) \/ Behind(e)'
                   /\ \E e \in Range(bus') : e.type = "job" /\ e.job = d.job /\ e.rank = d.rank
                   /\ (lagged => lagged') /\ (lagged' \/ Range(bus) \subseteq Range(bus'))
        <4>1. PICK e \in JobEvents :
                     /\ e.job = d.job /\ e.rank = d.rank /\ e.type = "job"
                     /\ Range(bus') \subseteq Range(bus) \cup {e} /\ e \in Range(bus')
                     /\ (lagged => lagged') /\ (lagged' \/ Range(bus) \subseteq Range(bus'))
          BY <3>3, <3>4
        <4>2. Behind(e)'
          BY <1>6, <2>1, <4>1 DEF Behind
        <4> QED
          BY <4>1, <4>2
      <3>5. CASE \E e \in ProgressEvents : due' = due /\ SendOnBus(e)
        <4>1. PICK e \in ProgressEvents : due' = due /\ SendOnBus(e)
          BY <3>5
        <4>2. Behind(e)'
          BY <3>2, <4>1 DEF Behind
        <4> QED
          BY <3>2, <4>1, <4>2
      <3>6. CASE \E d \in due : due' = due \ {d} /\ SendOnBus(JobEvent(d.job, d.rank, 0))
        <4>1. PICK d \in due : due' = due \ {d} /\ SendOnBus(JobEvent(d.job, d.rank, 0))
          BY <3>6
        <4>2. /\ \A e \in Range(bus') : e \in Range(bus) \/ Behind(e)'
              /\ \E e \in Range(bus') : e.type = "job" /\ e.job = d.job /\ e.rank = d.rank
              /\ (lagged => lagged') /\ (lagged' \/ Range(bus) \subseteq Range(bus'))
          BY <3>4, <4>1
        <4> QED
          BY <4>1, <4>2
      <3> QED
        BY <1>9, <3>1, <3>5, <3>6 DEF Sends
    <2>5. RankInv'
      <3>1. \A d \in due' : d.rank <= job'[d.job].rank
        BY <1>6, <2>1, <2>4
      <3>2. \A e \in Range(bus') \cup feed'.polled : Behind(e)'
        BY <1>1, <1>7, <2>4
      <3> QED
        BY <1>0, <1>1, <1>5, <2>1, <3>1, <3>2 DEF RankInv
    <2>6. ASSUME NEW j \in Jobs, Owed(j) PROVE Owed(j)'
      <3>1. CASE lagged'
        BY <3>1 DEF Owed
      <3>2. CASE ~lagged'
        <4>1. ~lagged /\ feed.published[j] < job[j].rank /\ Sources(j)
          BY <2>4, <2>6, <3>2 DEF Owed
        <4>2. ASSUME NEW d \in due, d.job = j, d.rank = job[j].rank PROVE Sources(j)'
          BY <2>1, <2>4, <3>2, <4>2 DEF Sources
        <4>3. ASSUME NEW e \in Range(bus), e.type = "job", e.job = j, e.rank = job[j].rank
              PROVE  Sources(j)'
          BY <2>1, <2>4, <3>2, <4>3 DEF Sources
        <4>4. ASSUME PolledJob(j) PROVE Sources(j)'
          BY <1>8, <4>4 DEF Sources
        <4>5. ASSUME Created(j), ~Mine(j), Polls(j) PROVE Sources(j)'
          BY <2>2, <4>5 DEF Sources
        <4>6. Sources(j)'
          BY <4>1, <4>2, <4>3, <4>4, <4>5 DEF Sources
        <4> QED
          BY <1>1, <2>1, <4>1, <4>6 DEF Owed
      <3> QED
        BY <3>1, <3>2
    <2> QED
      BY <1>3, <2>1, <2>3, <2>5, <2>6 DEF TellInv
  <1>10. ASSUME NEW k \in Jobs, NEW r \in Queued..Terminal, Moves(k, r)
         PROVE  /\ TellInv'
                /\ \A j \in Jobs :
                     IF job'[j].rank = job[j].rank THEN Owed(j) => Owed(j)'
                     ELSE feed.phase = "on" => Owed(j)'
    <2>1. /\ job[k].rank < r /\ job'[k].rank = r /\ r # None
          /\ \A j \in Jobs : j # k => job'[j].rank = job[j].rank /\ owner'[j] = owner[j]
          /\ bus' = bus /\ lagged' = lagged /\ due \subseteq due'
      BY <1>0, <1>10 DEF Moves, OwnInv, Queued, None, Terminal
    <2>2. \A j \in Jobs : j # k => (Mine(j)' <=> Mine(j)) /\ (Created(j)' <=> Created(j))
                                   /\ (Polls(j)' <=> Polls(j))
      BY <1>1, <2>1 DEF Mine, Created, Polls
    <2>3. \/ [job |-> k, rank |-> r] \in due' /\ due' = due \cup {[job |-> k, rank |-> r]}
          \/ /\ due' = due /\ owner' = owner /\ ~Mine(k) /\ ~Mine(k)'
             /\ (Created(k) => job[k].rank # Terminal)
      BY <1>1, <1>10 DEF Moves, Mine
    <2>4. /\ Created(k)' /\ (Mine(k) => Mine(k)') /\ (Created(k) /\ ~Mine(k) => ~Mine(k)')
          /\ owner' \in [Jobs -> Nat] /\ owner'[k] <= instance
      BY <1>0, <1>1, <1>10, <2>1 DEF Moves, Mine, Created, OwnInv
    <2>5. RankInv'
      <3>1. \A d \in due' : d.rank <= job'[d.job].rank
        BY <1>2, <1>6, <2>1, <2>3 DEF Queued, Terminal
      <3>2. \A j \in Jobs : feed'.published[j] <= job'[j].rank
        BY <1>0, <1>1, <1>2, <1>3 DEF RankInv, RanksRise
      <3>3. \A e \in Range(bus') \cup feed'.polled : Behind(e)'
        BY <1>1, <1>7, <2>1
      <3> QED
        BY <1>5, <3>1, <3>2, <3>3 DEF RankInv
    <2>6. OwnInv'
      <3>1. \A j \in Jobs : owner'[j] <= instance' /\ (~Created(j)' => owner'[j] = Elsewhere)
        BY <1>0, <1>1, <2>1, <2>2, <2>4 DEF OwnInv
      <3>2. \A j \in feed'.seen : Created(j)'
        BY <1>0, <1>1, <2>2, <2>4 DEF OwnInv, FeedStates
      <3>3. \A j \in Jobs : PolledJob(j)' => Created(j)' /\ ~Mine(j)'
        BY <1>0, <1>8, <2>2, <2>4 DEF OwnInv
      <3> QED
        BY <1>0, <1>1, <2>4, <3>1, <3>2, <3>3 DEF OwnInv
    <2>7. WatchInv'
      <3> SUFFICES ASSUME feed.phase = "on", NEW j \in feed.seen, ~Mine(j)', job'[j].rank # Terminal
                   PROVE  feed.watched[j] # Unwatched \/ PolledJob(j)
        BY <1>0, <1>1, <1>8 DEF WatchInv, FeedStates
      <3>1. j \in Jobs
        BY <1>0 DEF FeedStates
      <3>2. ~Mine(j)
        BY <2>2, <2>4, <3>1
      <3>3. job[j].rank # Terminal
        BY <1>2, <1>3, <2>1, <3>1 DEF RanksRise, Terminal, Queued
      <3> QED
        BY <1>0, <3>2, <3>3 DEF WatchInv
    <2>8. ASSUME NEW j \in Jobs, job'[j].rank = job[j].rank, Owed(j) PROVE Owed(j)'
      <3>1. j # k
        BY <1>2, <2>1, <2>8
      <3>2. Sources(j) => Sources(j)'
        BY <1>8, <2>1, <2>2, <2>8, <3>1 DEF Sources
      <3> QED
        BY <1>1, <2>1, <2>8, <3>2 DEF Owed
    <2>9. ASSUME NEW j \in Jobs, job'[j].rank # job[j].rank, feed.phase = "on" PROVE Owed(j)'
      <3>1. j = k
        BY <2>1, <2>9
      <3>2. feed'.published[k] < job'[k].rank
        BY <1>0, <1>1, <1>2, <2>1 DEF RankInv, Queued, Terminal
      <3>3. CASE [job |-> k, rank |-> r] \in due'
        <4>1. Sources(k)'
          BY <2>1, <3>3 DEF Sources
        <4> QED
          BY <3>1, <3>2, <4>1 DEF Owed
      <3>4. CASE ~Mine(k) /\ ~Mine(k)' /\ (Created(k) => job[k].rank # Terminal)
        <4>1. CASE k \notin feed.seen
          <5>1. Polls(k)'
            BY <1>1, <4>1 DEF Polls
          <5>2. Sources(k)'
            BY <2>4, <3>4, <5>1 DEF Sources
          <5> QED
            BY <3>1, <3>2, <5>2 DEF Owed
        <4>2. CASE k \in feed.seen
          <5>1. feed.watched[k] # Unwatched \/ PolledJob(k)
            BY <1>0, <2>9, <3>4, <4>2 DEF WatchInv, OwnInv
          <5>2. Polls(k)' \/ PolledJob(k)'
            BY <1>1, <1>8, <5>1 DEF Polls
          <5>3. Sources(k)'
            BY <2>4, <3>4, <5>2 DEF Sources
          <5> QED
            BY <3>1, <3>2, <5>3 DEF Owed
        <4> QED
          BY <4>1, <4>2
      <3> QED
        BY <2>3, <3>3, <3>4
    <2> QED
      BY <2>5, <2>6, <2>7, <2>8, <2>9 DEF TellInv
  <1> QED
    BY <1>1, <1>3, <1>9, <1>10

-----------------------------------------------------------------------------
(* The feed pays what it owes *)

\* What is owed for j stays owed, or is published.
Paid(j) == Owed(j) => Owed(j)' \/ \E ev \in HubEvents : Publish(ev) /\ Tells(j, ev)

\* What the feed publishes is not ahead of the store.
HubTells == UNCHANGED hubVars \/ \E ev \in HubEvents : Publish(ev) /\ Behind(ev)'

\* The feed stores nothing.
FeedKeeps == UNCHANGED <<job, owner, up, due>> /\ instance' = instance

\* Where nothing is stored no rank changes.
LEMMA RanksStay ==
  ASSUME EngineInv, job' = job
  PROVE  RanksRise
PROOF
  <1>1. \A j \in Jobs : job[j].rank \in 0..3
    BY DEF EngineInv, Ranks, None, Terminal
  <1> QED
    BY <1>1 DEF RanksRise

\* A publication does not restart the server.
LEMMA PublishKeepsInstance ==
  ASSUME HubTells
  PROVE  instance' = instance
BY DEF HubTells, Publish, hubVars

(* A step of the feed that neither takes nor reads anything about the ranks of jobs. *)
LEMMA FeedIdlesOn ==
  ASSUME ServerTyped, TellInv, feed' \in FeedStates, UNCHANGED engineVars, HubTells,
         feed'.published = feed.published, feed'.seen = feed.seen,
         feed'.watched = feed.watched, feed'.phase = feed.phase,
         \A j \in Jobs : PolledJob(j)' <=> PolledJob(j),
         feed'.polled \subseteq feed.polled \cup ProgressEvents,
         feed.phase # "on" => feed'.polled = {}
  PROVE  /\ TellInv' /\ FeedKeeps /\ \A j \in Jobs : Paid(j)
PROOF
  <1>0. /\ HubInv /\ EngineInv /\ feed \in FeedStates /\ RankInv /\ OwnInv /\ WatchInv
    BY DEF ServerTyped, TellInv
  <1>1. FeedKeeps /\ bus' = bus /\ lagged' = lagged
    BY PublishKeepsInstance DEF FeedKeeps, engineVars
  <1>2. RanksRise
    BY <1>0, <1>1, RanksStay DEF FeedKeeps
  <1>3. \A j \in Jobs : (Mine(j)' <=> Mine(j)) /\ (Created(j)' <=> Created(j))
                        /\ (Polls(j)' <=> Polls(j))
    BY <1>1 DEF FeedKeeps, Mine, Created, Polls
  <1>4. \A i \in 1..Len(ring') : Behind(ring[i].event)'
    BY <1>0, <1>2, RingBehind DEF RankInv, HubTells
  <1>5. \A e \in Range(bus') \cup feed'.polled : Behind(e)'
    <2> SUFFICES ASSUME NEW e \in Range(bus) \cup feed.polled \cup ProgressEvents
                 PROVE  Behind(e)'
      BY <1>1
    <2>1. CASE e \in ProgressEvents
      BY <2>1 DEF ProgressEvents, Behind
    <2>2. CASE e \in Range(bus) \cup feed.polled
      BY <1>0, <1>1, <2>2 DEF RankInv, Behind, FeedKeeps
    <2> QED
      BY <2>1, <2>2
  <1>6. RankInv'
    BY <1>0, <1>1, <1>4, <1>5 DEF RankInv, FeedKeeps
  <1>7. OwnInv'
    BY <1>0, <1>1, <1>3 DEF OwnInv, FeedKeeps, FeedStates
  <1>8. WatchInv'
    BY <1>0, <1>1, <1>3 DEF WatchInv, FeedKeeps, FeedStates
  <1>9. ASSUME NEW j \in Jobs PROVE Paid(j)
    <2>1. Sources(j) => Sources(j)'
      BY <1>1, <1>3 DEF Sources, FeedKeeps
    <2> QED
      BY <1>1, <2>1 DEF Owed, Paid, FeedKeeps
  <1> QED
    BY <1>1, <1>6, <1>7, <1>8, <1>9 DEF TellInv

(* A transition is handled: it is news, and published, or the feed has published
   as much of its job.  The feed handles one it was sent or one it has read. *)
LEMMA FeedTakesJob ==
  ASSUME ServerTyped, TellInv, up, NEW f \in FeedStates, NEW e \in JobEvents, FeedJob(f, e),
         UNCHANGED <<job, owner, up, due>>, lagged' = lagged, Behind(e),
         f.published = feed.published, f.seen = feed.seen, f.phase = feed.phase,
         Range(bus') \subseteq Range(bus), f.polled \subseteq feed.polled \cup ProgressEvents,
         \A j \in Jobs \ {e.job} :
           /\ (\E p \in f.polled : p.type = "job" /\ p.job = j) <=> PolledJob(j)
           /\ f.watched[j] = feed.watched[j],
         (\E p \in f.polled : p.type = "job" /\ p.job = e.job) => PolledJob(e.job),
         \/ f.polled = feed.polled /\ f.watched = feed.watched
         \/ PolledJob(e.job) /\ (e.rank # Terminal => f.watched[e.job] # Unwatched),
         \A b \in Range(bus) \ Range(bus') : b = e \/ b.type # "job",
         feed.phase # "on" => f.polled = {}
  PROVE  TellInv' /\ FeedKeeps /\ \A j \in Jobs : Paid(j)
PROOF
  <1>0. /\ HubInv /\ EngineInv /\ feed \in FeedStates /\ RankInv /\ OwnInv /\ WatchInv
    BY DEF ServerTyped, TellInv
  <1>1. /\ feed' \in FeedStates
        /\ feed'.seen = feed.seen /\ feed'.phase = feed.phase
        /\ feed'.polled = f.polled /\ feed'.watched = f.watched
        /\ \A j \in Jobs : \/ feed'.published[j] <= feed.published[j]
                           \/ j = e.job /\ feed'.published[j] <= e.rank
        /\ \/ feed.published[e.job] < e.rank /\ Publish(e)
           \/ feed.published[e.job] >= e.rank /\ UNCHANGED hubVars
    BY FeedJobEffect
  <1>2. /\ e \in HubEvents /\ e.job \in Jobs /\ e.rank \in 1..3 /\ e.type = "job"
        /\ e.rank <= job[e.job].rank
    BY DEF HubEvents, FeedEvents, JobEvents, Queued, Terminal, Behind
  <1>3. HubTells
    BY <1>1, <1>2 DEF HubTells, Behind
  <1>4. FeedKeeps
    BY <1>3, PublishKeepsInstance DEF FeedKeeps
  <1>5. \A j \in Jobs : /\ job[j].rank \in 0..3 /\ feed.published[j] \in 0..3
                        /\ feed'.published[j] \in 0..3
    BY <1>0, <1>1 DEF EngineInv, FeedStates, Ranks, None, Terminal
  <1>6. RanksRise
    BY <1>0, RanksStay
  <1>7. \A j \in Jobs : (Mine(j)' <=> Mine(j)) /\ (Created(j)' <=> Created(j))
    BY <1>4 DEF FeedKeeps, Mine, Created
  <1>8. /\ \A j \in Jobs : PolledJob(j)' => PolledJob(j)
        /\ \A j \in Jobs \ {e.job} : PolledJob(j)' <=> PolledJob(j)
    BY <1>1 DEF PolledJob
  <1>9. /\ \A j \in Jobs \ {e.job} : Polls(j)' <=> Polls(j)
        /\ feed'.watched[e.job] # Unwatched => Polls(e.job)'
        /\ feed'.watched = feed.watched => (Polls(e.job)' <=> Polls(e.job))
    BY <1>1 DEF Polls
  <1>10. RankInv'
    <2>1. \A i \in 1..Len(ring') : Behind(ring[i].event)'
      BY <1>0, <1>3, <1>6, RingBehind DEF RankInv, HubTells
    <2>2. ASSUME NEW p \in Range(bus') \cup feed'.polled PROVE Behind(p)'
      <3>1. CASE p \in ProgressEvents
        BY <3>1 DEF ProgressEvents, Behind
      <3>2. CASE p \in Range(bus) \cup feed.polled
        BY <1>0, <3>2 DEF RankInv, Behind
      <3> QED
        BY <1>1, <3>1, <3>2
    <2>3. \A j \in Jobs : feed'.published[j] <= job'[j].rank
      <3> SUFFICES ASSUME NEW j \in Jobs PROVE feed'.published[j] <= job[j].rank
        OBVIOUS
      <3>1. feed.published[j] <= job[j].rank
        BY <1>0 DEF RankInv
      <3> QED
        BY <1>1, <1>2, <1>5, <3>1
    <2> QED
      BY <1>0, <2>1, <2>2, <2>3 DEF RankInv
  <1>11. OwnInv'
    BY <1>0, <1>1, <1>4, <1>7, <1>8 DEF OwnInv, FeedKeeps, FeedStates
  <1>12. WatchInv'
    <2> SUFFICES ASSUME feed.phase = "on", NEW j \in feed.seen, ~Mine(j), job[j].rank # Terminal
                 PROVE  feed'.watched[j] # Unwatched \/ PolledJob(j)'
      BY <1>0, <1>1, <1>7 DEF WatchInv, FeedStates
    <2>1. j \in Jobs /\ (feed.watched[j] # Unwatched \/ PolledJob(j))
      BY <1>0 DEF FeedStates, WatchInv
    <2>2. CASE j # e.job
      BY <1>1, <1>8, <2>1, <2>2
    <2>3. CASE j = e.job
      <3>1. e.rank # Terminal
        BY <1>2, <1>5, <2>1, <2>3 DEF Terminal
      <3>2. CASE f.polled = feed.polled /\ f.watched = feed.watched
        BY <1>1, <2>1, <3>2 DEF PolledJob
      <3>3. CASE f.watched[e.job] # Unwatched
        BY <1>1, <2>3, <3>3
      <3> QED
        BY <3>1, <3>2, <3>3
    <2> QED
      BY <2>2, <2>3
  <1>13. ASSUME NEW j \in Jobs PROVE Paid(j)
    <2> SUFFICES ASSUME ~lagged, feed.published[j] < job[j].rank, Sources(j)
                 PROVE  Owed(j)' \/ \E ev \in HubEvents : Publish(ev) /\ Tells(j, ev)
      BY DEF Paid, Owed
    <2>1. CASE e.job = j /\ e.rank = job[j].rank
      <3>1. feed.published[e.job] < e.rank
        BY <2>1
      <3>2. Publish(e)
        BY <1>1, <1>2, <1>5, <3>1
      <3> QED
        BY <1>2, <2>1, <3>2 DEF Tells
    <2>2. CASE ~(e.job = j /\ e.rank = job[j].rank)
      <3>1. feed'.published[j] < job'[j].rank
        BY <1>1, <1>2, <1>5, <2>2
      <3>2. Sources(j)'
        <4>1. ASSUME NEW d \in due, d.job = j, d.rank = job[j].rank PROVE Sources(j)'
          BY <4>1 DEF Sources
        <4>2. ASSUME NEW b \in Range(bus), b.type = "job", b.job = j, b.rank = job[j].rank
              PROVE  Sources(j)'
          BY <2>2, <4>2 DEF Sources
        <4>3. CASE j # e.job
          BY <1>7, <1>8, <1>9, <4>1, <4>2, <4>3 DEF Sources
        <4>4. CASE j = e.job /\ f.polled = feed.polled /\ f.watched = feed.watched
          <5>1. PolledJob(j)' <=> PolledJob(j)
            BY <1>1, <4>4 DEF PolledJob
          <5> QED
            BY <1>1, <1>7, <1>9, <4>1, <4>2, <4>4, <5>1 DEF Sources
        <4>5. CASE j = e.job /\ PolledJob(j) /\ (e.rank # Terminal => f.watched[j] # Unwatched)
          <5>1. e.rank # Terminal
            BY <1>2, <1>5, <2>2, <4>5 DEF Terminal
          <5>2. Polls(j)'
            BY <1>1, <1>9, <4>5, <5>1
          <5>3. Created(j)' /\ ~Mine(j)'
            BY <1>0, <1>7, <4>5 DEF OwnInv
          <5> QED
            BY <5>2, <5>3 DEF Sources
        <4> QED
          BY <4>3, <4>4, <4>5
      <3> QED
        BY <3>1, <3>2 DEF Owed
    <2> QED
      BY <2>1, <2>2
  <1> QED
    BY <1>4, <1>10, <1>11, <1>12, <1>13 DEF TellInv

\* A record that was read is told, or is no news.
LEMMA PolledTells ==
  ASSUME ServerTyped, TellInv, NEW e \in feed.polled, Polled(e)
  PROVE  TellInv' /\ FeedKeeps /\ feed'.phase = "on" /\ \A j \in Jobs : Paid(j)
PROOF
  <1> DEFINE rest == feed.polled \ {e}
             again == IF e.prog > 0 /\ feed.watched[e.job] # e.prog
                      THEN rest \cup {ProgressEvent(e.job, e.prog)} ELSE rest
             Goal == TellInv' /\ FeedKeeps /\ feed'.phase = "on" /\ \A j \in Jobs : Paid(j)
  <1>0. /\ HubInv /\ EngineInv /\ feed \in FeedStates /\ RankInv /\ OwnInv /\ WatchInv
    BY DEF ServerTyped, TellInv
  <1>1. e \in FeedEvents /\ rest \in SUBSET FeedEvents /\ UNCHANGED engineVars /\ up
    BY <1>0 DEF FeedStates, Polled
  <1>2. feed.watched \in [Jobs -> Unwatched..MaxProgress]
    BY <1>0 DEF FeedStates
  <1>3. feed.phase = "on" /\ Behind(e)
    BY <1>0 DEF OwnInv, RankInv
  <1>4. ASSUME e.type = "progress", FeedProgress([feed EXCEPT !.polled = rest], e)
        PROVE  Goal
    <2> DEFINE f == [feed EXCEPT !.polled = rest]
    <2>1. e \in ProgressEvents
      BY <1>1, <1>4 DEF FeedEvents, JobEvents
    <2>2. /\ f \in FeedStates /\ f.published = feed.published /\ f.seen = feed.seen
          /\ f.watched = feed.watched /\ f.phase = feed.phase /\ f.polled = rest
      BY <1>0, <1>1 DEF FeedStates
    <2> HIDE DEF f
    <2>3. FeedProgress(f, e)
      BY <1>4 DEF f
    <2>4. /\ feed' \in FeedStates
          /\ feed'.seen = feed.seen /\ feed'.phase = feed.phase
          /\ feed'.polled = rest /\ feed'.watched = feed.watched
          /\ feed'.published = feed.published
          /\ Publish(e) \/ UNCHANGED hubVars
      BY <2>1, <2>2, <2>3, FeedProgressEffect
    <2>5. HubTells
      BY <2>1, <2>4 DEF HubTells, HubEvents, FeedEvents, ProgressEvents, Behind
    <2>6. \A j \in Jobs : PolledJob(j)' <=> PolledJob(j)
      BY <1>4, <2>4 DEF PolledJob
    <2> QED
      BY <1>1, <1>3, <2>4, <2>5, <2>6, FeedIdlesOn
  <1>5. ASSUME NEW q \in SUBSET FeedEvents, NEW w \in Unwatched..MaxProgress, e.type = "job",
               FeedJob([feed EXCEPT !.polled = q, !.watched[e.job] = w], e),
               q \subseteq rest \cup ProgressEvents, rest \subseteq q,
               e.rank # Terminal => w # Unwatched
        PROVE  Goal
    <2> DEFINE f == [feed EXCEPT !.polled = q, !.watched[e.job] = w]
    <2>1. e \in JobEvents /\ e.job \in Jobs
      BY <1>1, <1>5 DEF FeedEvents, ProgressEvents, JobEvents
    <2>2. [feed.watched EXCEPT ![e.job] = w] \in [Jobs -> Unwatched..MaxProgress]
      BY <1>2, Updates
    <2>3. /\ f \in FeedStates /\ f.published = feed.published /\ f.seen = feed.seen
          /\ f.watched = [feed.watched EXCEPT ![e.job] = w] /\ f.phase = feed.phase
          /\ f.polled = q
      BY <1>0, <2>2 DEF FeedStates
    <2> HIDE DEF f
    <2>4. FeedJob(f, e)
      BY <1>5 DEF f
    <2>5. f.watched[e.job] = w /\ \A j \in Jobs \ {e.job} : f.watched[j] = feed.watched[j]
      BY <1>2, <2>1, <2>3
    <2>6. PolledJob(e.job)
      BY <1>5 DEF PolledJob
    <2>7. \A j \in Jobs \ {e.job} :
            (\E p \in f.polled : p.type = "job" /\ p.job = j) <=> PolledJob(j)
      BY <1>5, <2>3 DEF PolledJob, ProgressEvents
    <2>9. feed'.phase = "on"
      BY <1>3, <2>1, <2>3, <2>4, FeedJobEffect
    <2>8. /\ UNCHANGED <<job, owner, up, due>> /\ lagged' = lagged /\ bus' = bus
          /\ f.polled \subseteq feed.polled \cup ProgressEvents
      BY <1>1, <1>5, <2>3 DEF engineVars
    <2> QED
      BY <1>1, <1>3, <1>5, <2>1, <2>3, <2>4, <2>5, <2>6, <2>7, <2>8, <2>9, FeedTakesJob
  <1>6. ASSUME e.type = "job", e.rank = Running,
               FeedJob([feed EXCEPT !.polled = again, !.watched[e.job] = e.prog], e)
        PROVE  Goal
    <2>1. e \in JobEvents
      BY <1>1, <1>6 DEF FeedEvents, ProgressEvents
    <2>2. e.job \in Jobs /\ e.prog \in 0..MaxProgress /\ e.prog \in Unwatched..MaxProgress
          /\ e.prog # Unwatched
      BY <2>1, FeedAssumption DEF JobEvents, Unwatched
    <2>3. e.prog > 0 => ProgressEvent(e.job, e.prog) \in ProgressEvents
      BY <2>2, FeedAssumption DEF ProgressEvent, ProgressEvents
    <2>4. again \in SUBSET FeedEvents /\ again \subseteq rest \cup ProgressEvents
          /\ rest \subseteq again
      BY <1>1, <2>3 DEF FeedEvents
    <2> QED
      BY <1>5, <1>6, <2>2, <2>4
  <1>7. ASSUME e.type = "job", e.rank # Running,
               FeedJob([feed EXCEPT !.polled = rest,
                          !.watched[e.job] = IF e.rank = Queued THEN 0 ELSE Unwatched], e)
        PROVE  Goal
    <2> DEFINE w == IF e.rank = Queued THEN 0 ELSE Unwatched
    <2>1. w \in Unwatched..MaxProgress
      BY FeedAssumption DEF Unwatched
    <2>2. e.rank \in {Queued, Terminal}
      <3>1. e \in JobEvents
        BY <1>1, <1>7 DEF FeedEvents, ProgressEvents
      <3> QED
        BY <1>7, <3>1 DEF JobEvents, Queued, Running, Terminal
    <2>3. e.rank # Terminal => w # Unwatched
      BY <2>2 DEF Unwatched
    <2>4. FeedJob([feed EXCEPT !.polled = rest, !.watched[e.job] = w], e)
      BY <1>7
    <2> HIDE DEF w
    <2> QED
      BY <1>1, <1>5, <1>7, <2>1, <2>3, <2>4
  <1> QED
    BY <1>4, <1>6, <1>7 DEF Polled

(* What the feed owes, it goes on owing or publishes. *)
LEMMA FeedTells ==
  ASSUME ServerTyped, TellInv, FeedStep
  PROVE  /\ TellInv' /\ FeedKeeps /\ (feed.phase = "on" => feed'.phase = "on")
         /\ feed.phase = "on" => \A j \in Jobs : Paid(j)
PROOF
  <1> DEFINE Goal == /\ TellInv' /\ FeedKeeps /\ (feed.phase = "on" => feed'.phase = "on")
                     /\ feed.phase = "on" => \A j \in Jobs : Paid(j)
  <1>0. /\ HubInv /\ EngineInv /\ feed \in FeedStates /\ RankInv /\ OwnInv /\ WatchInv
    BY DEF ServerTyped, TellInv
  <1>1. feed' \in FeedStates
    BY ServerSteps
  <1>2. RanksRise \/ job' # job
    BY <1>0, RanksStay
  <1>3. CASE FeedBegin
    <2>1. /\ feed.phase = "off" /\ up /\ UNCHANGED hubVars /\ UNCHANGED engineVars
          /\ feed'.phase = "new" /\ feed'.seen = {j \in Jobs : Created(j)}
          /\ feed'.polled = feed.polled /\ feed'.published = feed.published
      BY <1>0, <1>3 DEF FeedBegin, FeedStates
    <2>2. FeedKeeps /\ bus' = bus
      BY <2>1 DEF FeedKeeps, engineVars, hubVars
    <2>3. \A i \in 1..Len(ring') : Behind(ring[i].event)'
      BY <1>0, <1>2, <2>1, <2>2, RingBehind DEF RankInv, FeedKeeps
    <2>4. RankInv'
      BY <1>0, <2>1, <2>2, <2>3 DEF RankInv, FeedKeeps, Behind
    <2>5. \A j \in Jobs : (Mine(j)' <=> Mine(j)) /\ (Created(j)' <=> Created(j))
                          /\ (PolledJob(j)' <=> PolledJob(j))
      BY <2>1, <2>2 DEF Mine, Created, FeedKeeps, PolledJob
    <2>6. OwnInv'
      BY <1>0, <2>1, <2>2, <2>5 DEF OwnInv, FeedKeeps
    <2>7. WatchInv'
      BY <2>1 DEF WatchInv
    <2> QED
      BY <2>1, <2>2, <2>4, <2>6, <2>7 DEF TellInv
  <1>4. CASE FeedLagged
    <2>1. /\ up /\ feed' = feed /\ Publish(Resync) /\ UNCHANGED <<job, owner, up, due, bus>>
          /\ Resync \in HubEvents /\ Behind(Resync)'
      BY <1>4 DEF FeedLagged, FeedIdle, HubEvents, Behind, Resync
    <2>2. FeedKeeps
      BY <2>1 DEF FeedKeeps, Publish
    <2>3. \A i \in 1..Len(ring') : Behind(ring[i].event)'
      BY <1>0, <1>2, <2>1, RingBehind DEF RankInv
    <2>4. RankInv'
      BY <1>0, <2>1, <2>3 DEF RankInv, Behind
    <2>5. \A j \in Jobs : (Mine(j)' <=> Mine(j)) /\ (Created(j)' <=> Created(j))
                          /\ (PolledJob(j)' <=> PolledJob(j))
      BY <2>1, <2>2 DEF Mine, Created, FeedKeeps, PolledJob
    <2>6. OwnInv' /\ WatchInv'
      BY <1>0, <2>1, <2>2, <2>5 DEF OwnInv, WatchInv, FeedKeeps, FeedStates
    <2>7. \A j \in Jobs : Paid(j)
      BY <2>1 DEF Paid, Tells
    <2> QED
      BY <2>1, <2>2, <2>4, <2>6, <2>7 DEF TellInv
  <1>5. CASE FeedEvent
    <2>1. /\ up /\ bus # <<>> /\ bus' = Tail(bus) /\ UNCHANGED <<job, owner, up, due>>
          /\ lagged' = lagged /\ feed.polled = {} /\ bus \in Seq(FeedEvents)
          /\ IF Head(bus).type = "job" THEN FeedJob(feed, Head(bus))
             ELSE FeedProgress(feed, Head(bus))
      BY <1>0, <1>5 DEF FeedEvent, FeedIdle, EngineInv
    <2>2. PICK e \in FeedEvents :
            /\ e = Head(bus) /\ e \in Range(bus) /\ Range(bus') \subseteq Range(bus)
            /\ \A b \in Range(bus) \ Range(bus') : b = e
      <3> DEFINE t == Tail(bus)
      <3>1. /\ Head(bus) = bus[1] /\ Head(bus) \in FeedEvents /\ Len(bus) \in Nat \ {0}
            /\ t \in Seq(FeedEvents) /\ Len(t) = Len(bus) - 1
            /\ \A i \in 1..Len(t) : t[i] = bus[i + 1]
        BY <2>1, HeadTailProperties
      <3>2. bus' = t
        BY <2>1
      <3> HIDE DEF t
      <3>3. Range(bus) = {bus[i] : i \in 1..Len(bus)} /\ Range(t) = {t[i] : i \in 1..Len(t)}
        <4>1. DOMAIN bus = 1..Len(bus) /\ DOMAIN t = 1..Len(t)
          BY <2>1, <3>1
        <4> QED
          BY <4>1 DEF Range
      <3>4. Head(bus) \in Range(bus)
        BY <3>1, <3>3
      <3>5. Range(t) \subseteq Range(bus)
        BY <3>1, <3>3
      <3>6. ASSUME NEW i \in 1..Len(bus) PROVE bus[i] = Head(bus) \/ bus[i] \in Range(t)
        <4>1. CASE i = 1
          BY <3>1, <4>1
        <4>2. CASE i # 1
          <5>1. i - 1 \in 1..Len(t) /\ t[i - 1] = bus[(i - 1) + 1] /\ (i - 1) + 1 = i
            BY <3>1, <4>2
          <5> QED
            BY <3>3, <5>1
        <4> QED
          BY <4>1, <4>2
      <3> QED
        BY <3>1, <3>2, <3>3, <3>4, <3>5, <3>6
    <2>3. Behind(e)
      BY <1>0, <2>2 DEF RankInv
    <2>4. CASE e.type = "job"
      <3>1. e \in JobEvents
        BY <2>2, <2>4 DEF FeedEvents, ProgressEvents
      <3>2. FeedJob(feed, e)
        BY <2>1, <2>2, <2>4
      <3>3. \A j \in Jobs : (\E p \in feed.polled : p.type = "job" /\ p.job = j) <=> PolledJob(j)
        BY DEF PolledJob
      <3>4. e.job \in Jobs
        BY <3>1 DEF JobEvents
      <3>5. TellInv' /\ FeedKeeps /\ \A j \in Jobs : Paid(j)
        BY <1>0, <2>1, <2>2, <2>3, <3>1, <3>2, <3>3, <3>4, FeedTakesJob
      <3>6. feed'.phase = feed.phase
        BY <1>0, <3>1, <3>2, FeedJobEffect
      <3> QED
        BY <3>5, <3>6
    <2>5. CASE e.type # "job"
      <3>1. e \in ProgressEvents
        BY <2>2, <2>5 DEF FeedEvents, JobEvents
      <3>2. /\ feed'.seen = feed.seen /\ feed'.phase = feed.phase
            /\ feed'.polled = feed.polled /\ feed'.watched = feed.watched
            /\ feed'.published = feed.published
            /\ Publish(e) \/ UNCHANGED hubVars
        BY <1>0, <2>1, <2>2, <2>5, <3>1, FeedProgressEffect
      <3>3. HubTells /\ Behind(e)'
        BY <3>1, <3>2 DEF HubTells, HubEvents, FeedEvents, ProgressEvents, Behind
      <3>4. FeedKeeps
        BY <2>1, <3>3, PublishKeepsInstance DEF FeedKeeps
      <3>5. \A i \in 1..Len(ring') : Behind(ring[i].event)'
        BY <1>0, <1>2, <2>1, <3>3, RingBehind DEF RankInv, HubTells
      <3>6. RankInv'
        BY <1>0, <2>1, <2>2, <3>2, <3>5 DEF RankInv, Behind
      <3>7. \A j \in Jobs : (Mine(j)' <=> Mine(j)) /\ (Created(j)' <=> Created(j))
                            /\ (PolledJob(j)' <=> PolledJob(j)) /\ (Polls(j)' <=> Polls(j))
        BY <3>2, <3>4 DEF Mine, Created, FeedKeeps, PolledJob, Polls
      <3>8. OwnInv' /\ WatchInv'
        BY <1>0, <3>2, <3>4, <3>7 DEF OwnInv, WatchInv, FeedKeeps, FeedStates
      <3>9. ASSUME NEW j \in Jobs PROVE Paid(j)
        <4>1. Sources(j) => Sources(j)'
          BY <2>1, <2>2, <2>5, <3>7 DEF Sources
        <4> QED
          BY <2>1, <3>2, <4>1 DEF Paid, Owed
      <3> QED
        BY <3>2, <3>4, <3>6, <3>8, <3>9 DEF TellInv
    <2> QED
      BY <2>4, <2>5
  <1>6. CASE Poll
    <2>1. /\ up /\ feed.polled = {} /\ UNCHANGED hubVars /\ UNCHANGED engineVars
          /\ feed'.phase = "on" /\ feed'.seen = feed.seen \cup PollResult
          /\ feed'.polled = {JobEvent(j, job[j].rank, job[j].prog) : j \in PollResult}
          /\ feed'.published = feed.published /\ feed'.watched = feed.watched
      BY <1>0, <1>6 DEF Poll, FeedIdle, FeedStates
    <2>2. FeedKeeps /\ bus' = bus /\ lagged' = lagged
      BY <2>1 DEF FeedKeeps, engineVars, hubVars
    <2>3. \A i \in 1..Len(ring') : Behind(ring[i].event)'
      BY <1>0, <1>2, <2>1, <2>2, RingBehind DEF RankInv, FeedKeeps
    <2>9. /\ PollResult \subseteq Jobs
          /\ \A j \in Jobs : j \in PollResult <=> Created(j) /\ ~Mine(j) /\ Polls(j)
      BY DEF PollResult
    <2>10. /\ \A p \in feed'.polled : \E k \in PollResult :
                p.type = "job" /\ p.job = k /\ p.rank = job[k].rank
           /\ \A k \in PollResult : \E p \in feed'.polled : p.type = "job" /\ p.job = k
      <3> DEFINE ev(k) == JobEvent(k, job[k].rank, job[k].prog)
      <3>1. \A k \in PollResult : ev(k).type = "job" /\ ev(k).job = k /\ ev(k).rank = job[k].rank
        BY DEF JobEvent
      <3> HIDE DEF ev
      <3>2. feed'.polled = {ev(k) : k \in PollResult}
        BY <2>1 DEF ev
      <3> QED
        BY <3>1, <3>2
    <2>4. \A j \in Jobs : (Mine(j)' <=> Mine(j)) /\ (Created(j)' <=> Created(j))
                          /\ (PolledJob(j)' <=> j \in PollResult)
      <3>1. \A j \in Jobs : (Mine(j)' <=> Mine(j)) /\ (Created(j)' <=> Created(j))
        BY <2>2 DEF Mine, Created, FeedKeeps
      <3>2. \A j \in Jobs : PolledJob(j)' <=> j \in PollResult
        BY <2>10 DEF PolledJob
      <3> QED
        BY <3>1, <3>2
    <2>5. RankInv'
      <3>1. \A e \in feed'.polled : Behind(e)'
        <4>1. \A j \in Jobs : job[j].rank \in 0..3
          BY <1>0 DEF EngineInv, Ranks, None, Terminal
        <4>2. \A j \in Jobs : job[j].rank <= job[j].rank
          BY <4>1
        <4> QED
          BY <2>2, <2>9, <2>10, <4>2 DEF Behind, FeedKeeps
      <3>2. \A e \in Range(bus') : Behind(e)'
        BY <1>0, <2>2 DEF RankInv, Behind, FeedKeeps
      <3> QED
        BY <1>0, <2>1, <2>2, <2>3, <3>1, <3>2 DEF RankInv, FeedKeeps
    <2>6. OwnInv'
      <3>1. \A j \in feed'.seen : Created(j)'
        BY <1>0, <2>1, <2>4, <2>9 DEF OwnInv, FeedStates
      <3>2. \A j \in Jobs : PolledJob(j)' => Created(j)' /\ ~Mine(j)'
        BY <2>4, <2>9
      <3>3. up' /\ feed'.phase = "on" /\ owner' = owner /\ instance' = instance
        BY <2>1, <2>2 DEF FeedKeeps
      <3> QED
        BY <1>0, <2>4, <3>1, <3>2, <3>3 DEF OwnInv
    <2>7. WatchInv'
      <3> SUFFICES ASSUME NEW j \in feed.seen \cup PollResult, ~Mine(j), job[j].rank # Terminal
                   PROVE  j \in PollResult
        <4>1. feed'.seen = feed.seen \cup PollResult /\ feed'.seen \subseteq Jobs /\ job' = job
          BY <1>0, <2>1, <2>2, <2>9 DEF FeedStates, FeedKeeps
        <4> QED
          BY <2>4, <4>1 DEF WatchInv
      <3>1. CASE j \in PollResult
        BY <3>1
      <3>2. CASE j \in feed.seen
        <4>1. j \in Jobs /\ Created(j) /\ job[j].rank \in 0..3
          BY <1>0, <3>2 DEF FeedStates, OwnInv, EngineInv, Ranks, None, Terminal
        <4>2. job[j].rank \in {Queued, Running}
          BY <4>1 DEF Created, None, Queued, Running, Terminal
        <4> QED
          BY <2>9, <4>1, <4>2 DEF Polls
      <3> QED
        BY <3>1, <3>2
    <2>8. ASSUME NEW j \in Jobs PROVE Paid(j)
      <3>1. Sources(j) => Sources(j)'
        <4>1. ~PolledJob(j)
          BY <2>1 DEF PolledJob
        <4>2. Created(j) /\ ~Mine(j) /\ Polls(j) => PolledJob(j)'
          BY <2>4, <2>9
        <4> QED
          BY <2>2, <4>1, <4>2 DEF Sources, FeedKeeps
      <3> QED
        BY <2>1, <2>2, <3>1 DEF Paid, Owed, FeedKeeps
    <2> QED
      BY <2>1, <2>2, <2>5, <2>6, <2>7, <2>8 DEF TellInv
  <1>7. ASSUME UNCHANGED engineVars, HubTells, feed'.published = feed.published,
               feed'.seen = feed.seen, feed'.watched = feed.watched,
               feed'.phase = feed.phase, feed'.polled = feed.polled
        PROVE  Goal
    <2>1. \A j \in Jobs : PolledJob(j)' <=> PolledJob(j)
      BY <1>7 DEF PolledJob
    <2>2. feed.phase # "on" => feed'.polled = {}
      BY <1>0, <1>7 DEF OwnInv
    <2> QED
      BY <1>1, <1>7, <2>1, <2>2, FeedIdlesOn
  <1>8. CASE PublishDirty
    <2>1. HubTells
      BY <1>8 DEF PublishDirty, HubTells, HubEvents, OtherEvent, Behind
    <2> QED
      BY <1>0, <1>7, <1>8, <2>1 DEF PublishDirty, FeedStates
  <1>9. ASSUME NEW e \in feed.polled, Polled(e) PROVE Goal
    BY <1>9, PolledTells
  <1>10. ASSUME NEW j \in Jobs, FlushProgress(j) PROVE Goal
    <2>1. feed.pending[j] \in 1..MaxProgress
      BY <1>0, <1>10, FeedAssumption DEF FlushProgress, FeedStates
    <2>2. HubTells
      BY <1>10, <2>1
      DEF FlushProgress, HubTells, HubEvents, FeedEvents, ProgressEvents, ProgressEvent, Behind
    <2> QED
      BY <1>0, <1>7, <1>10, <2>2 DEF FlushProgress, FeedStates
  <1> QED
    BY <1>3, <1>4, <1>5, <1>6, <1>8, <1>9, <1>10 DEF FeedStep
=============================================================================

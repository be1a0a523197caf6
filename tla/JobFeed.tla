------------------------------- MODULE JobFeed -------------------------------
(***************************************************************************)
(* The task that turns job transitions into events: those of this engine   *)
(* from its broadcast channel, those of other engines by polling the       *)
(* shared store.  The store and the engines are kept to what the feed and  *)
(* its readers see of them; Scheduler has the rest.                        *)
(*                                                                         *)
(* A job is a pair of its rank (a status, the three endings being one) and *)
(* its progress, which only counts up.                                     *)
(***************************************************************************)
EXTENDS EventHub, FiniteSets, SequencesExt

CONSTANTS
  Jobs,            \* each submitted to the serving engine or to another one
  BusCapacity,     \* of the broadcast channel
  Remembered,      \* REMEMBERED
  MaxProgress,     \* progress reports of a job
  MaxOther,        \* events published by the watchers and the source editor
  PollFirst        \* the feed has polled once before a client asks anything

ASSUME FeedAssumption ==
  /\ IsFiniteSet(Jobs)
  /\ BusCapacity \in Nat \ {0} /\ Remembered \in Nat \ {0}
  /\ MaxProgress \in Nat /\ MaxOther \in Nat /\ PollFirst \in BOOLEAN

VARIABLES
  up,              \* the server process runs
  job,             \* the stored rows
  owner,           \* the instance that accepted the job, or Elsewhere
  live,            \* progress the job has reported; its recorder saves it later
  due,             \* stored transitions of which the engine has yet to send the event
  bus, lagged,     \* the feed's receiver of the broadcast channel
  feed,
  others           \* events other publishers may still publish

engineVars == <<up, job, owner, live, due, bus, lagged>>
feedVars == <<hubVars, engineVars, feed, others>>

None == 0   Queued == 1   Running == 2   Terminal == 3
Ranks == None..Terminal
Elsewhere == 0
Unwatched == -1

NoJob == [rank |-> None, prog |-> 0]
JobEvent(j, r, p) == [type |-> "job", job |-> j, rank |-> r, prog |-> p]
ProgressEvent(j, p) == [type |-> "progress", job |-> j, prog |-> p]
OtherEvent == [type |-> "other"]

JobEvents == [type : {"job"}, job : Jobs, rank : Queued..Terminal, prog : 0..MaxProgress]
ProgressEvents == [type : {"progress"}, job : Jobs, prog : 1..MaxProgress]

FreshFeed ==
  [phase     |-> "off",
   seen      |-> {},                             \* jobs of a sequence up to foreign_after
   published |-> [j \in Jobs |-> None],
   finished  |-> <<>>,
   pending   |-> [j \in Jobs |-> 0],             \* Throttle.pending
   throttled |-> {},                             \* jobs with a Throttle
   watched   |-> [j \in Jobs |-> Unwatched],     \* foreign_active
   polled    |-> {},                             \* records read, not yet handled
   dirty     |-> FALSE]

FeedTypeOK ==
  /\ up \in BOOLEAN /\ lagged \in BOOLEAN /\ others \in 0..MaxOther
  /\ job \in [Jobs -> [rank : Ranks, prog : 0..MaxProgress]]
  /\ owner \in [Jobs -> Nat] /\ live \in [Jobs -> 0..MaxProgress]
  /\ due \subseteq [job : Jobs, rank : Queued..Terminal]
  /\ Len(bus) <= BusCapacity /\ Range(bus) \subseteq JobEvents \cup ProgressEvents
  /\ feed.phase \in {"off", "new", "on"} /\ feed.dirty \in BOOLEAN
  /\ feed.published \in [Jobs -> Ranks] /\ feed.pending \in [Jobs -> 0..MaxProgress]
  /\ feed.watched \in [Jobs -> Unwatched..MaxProgress]
  /\ feed.seen \subseteq Jobs /\ feed.throttled \subseteq Jobs
  /\ Range(feed.finished) \subseteq Jobs /\ Len(feed.finished) <= Remembered
  /\ feed.polled \subseteq JobEvents \cup ProgressEvents

FeedInit ==
  /\ HubInit
  /\ up = TRUE
  /\ job = [j \in Jobs |-> NoJob]
  /\ owner = [j \in Jobs |-> Elsewhere]
  /\ live = [j \in Jobs |-> 0]
  /\ due = {} /\ bus = <<>> /\ lagged = FALSE
  /\ feed = FreshFeed
  /\ others = MaxOther

Mine(j) == up /\ owner[j] = instance
Created(j) == job[j].rank # None

-----------------------------------------------------------------------------
(* The engine: what it stores and what it sends *)

\* broadcast::Sender::send: the oldest event of a full channel is overwritten, and the
\* receiver is told that it lagged.
SendOnBus(event) ==
  IF Len(bus) = BusCapacity
  THEN bus' = Append(Tail(bus), event) /\ lagged' = TRUE
  ELSE bus' = Append(bus, event) /\ UNCHANGED lagged

\* A transition is stored, and its event is still to be sent.
Store(j, r) ==
  /\ job' = [job EXCEPT ![j] = [rank |-> r, prog |-> 0]]
  /\ live' = [live EXCEPT ![j] = 0]

StoreAndTell(j, r) == Store(j, r) /\ due' = due \cup {[job |-> j, rank |-> r]}

\* Scheduler::submit: a new job, or one the cache answered.
Submit(j, r) ==
  /\ up /\ ~Created(j) /\ r \in {Queued, Terminal}
  /\ StoreAndTell(j, r)
  /\ owner' = [owner EXCEPT ![j] = instance]
  /\ UNCHANGED <<hubVars, up, bus, lagged, feed, others>>

\* Inner::run: the job is handed over only after its queued event was sent.
Run(j) ==
  /\ Mine(j) /\ job[j].rank = Queued /\ \A d \in due : d.job # j
  /\ StoreAndTell(j, Running)
  /\ UNCHANGED <<hubVars, up, owner, bus, lagged, feed, others>>

\* Inner::finish, or Inner::cancel_local for a queued job, which may come between the
\* insertion of the job and its queued event.
End(j) ==
  /\ Mine(j)
  /\ \/ job[j].rank = Queued
     \/ job[j].rank = Running /\ \A d \in due : d.job # j
  /\ StoreAndTell(j, Terminal)
  /\ UNCHANGED <<hubVars, up, owner, bus, lagged, feed, others>>

\* The reaper of this engine fails a job of a dead one (maintenance.rs, upkeep).
Reap(j) ==
  /\ up /\ ~Mine(j) /\ job[j].rank \in {Queued, Running}
  /\ StoreAndTell(j, Terminal)
  /\ UNCHANGED <<hubVars, up, owner, bus, lagged, feed, others>>

\* The stored transition's event is sent.
Tell(d) ==
  /\ up /\ d \in due
  /\ due' = due \ {d}
  /\ SendOnBus(JobEvent(d.job, d.rank, 0))
  /\ UNCHANGED <<hubVars, up, job, owner, live, feed, others>>

\* Recorder::progress: sent at once, written later.
Report(j) ==
  /\ Mine(j) /\ job[j].rank = Running /\ live[j] < MaxProgress /\ \A d \in due : d.job # j
  /\ live' = [live EXCEPT ![j] = @ + 1]
  /\ SendOnBus(ProgressEvent(j, live[j] + 1))
  /\ UNCHANGED <<hubVars, up, job, owner, due, feed, others>>

\* write_batches: the newest progress is saved.
Save(j) ==
  /\ Mine(j) /\ job[j].rank = Running /\ job[j].prog < live[j]
  /\ job' = [job EXCEPT ![j].prog = live[j]]
  /\ UNCHANGED <<hubVars, up, owner, live, due, bus, lagged, feed, others>>

\* Another engine: it submits, runs, reports on and ends its jobs, and its reaper ends
\* those of a dead server process.
OtherEngine(j) ==
  /\ \/ ~Created(j) /\ \E r \in {Queued, Terminal} : Store(j, r)
     \/ owner[j] = Elsewhere /\ job[j].rank = Queued /\ Store(j, Running)
     \/ ~Mine(j) /\ job[j].rank \in {Queued, Running} /\ Store(j, Terminal)
     \/ /\ owner[j] = Elsewhere /\ job[j].rank = Running /\ job[j].prog < MaxProgress
        /\ job' = [job EXCEPT ![j].prog = @ + 1] /\ UNCHANGED live
  /\ UNCHANGED <<hubVars, up, owner, due, bus, lagged, feed, others>>

-----------------------------------------------------------------------------
(* feed.rs *)

\* run: foreign_after is the store's last sequence.
FeedBegin ==
  /\ up /\ feed.phase = "off"
  /\ feed' = [feed EXCEPT !.phase = "new", !.seen = {j \in Jobs : Created(j)}]
  /\ UNCHANGED <<hubVars, engineVars, others>>

\* Mutant: any rank but the one published last is news.
IsNewsTwice(e) == feed.published[e.job] # e.rank

\* Feed::job: each rank of a job is published at most once.
IsNews(e) == feed.published[e.job] < e.rank

\* Feed::job, for a job that ended: its throttle goes, its sections are dirty, and the
\* oldest remembered ending is forgotten.
Settled(f, e) ==
  LET finished == Append(f.finished, e.job)
      over == Len(finished) > Remembered
      published == [f.published EXCEPT ![e.job] = Terminal]
  IN [f EXCEPT !.finished = IF over THEN Tail(finished) ELSE finished,
               !.published = IF over THEN [published EXCEPT ![Head(finished)] = None]
                                     ELSE published,
               !.pending[e.job] = 0, !.throttled = @ \ {e.job},
               !.dirty = TRUE]

\* Feed::job from feed state f.
FeedJob(f, e) ==
  IF ~IsNews(e) THEN feed' = f /\ UNCHANGED hubVars
  ELSE /\ feed' = IF e.rank = Terminal THEN Settled(f, e)
                  ELSE [f EXCEPT !.published[e.job] = e.rank]
       /\ Publish(e)

TakesProgress(j) == feed.published[j] = Running

\* Feed::progress from feed state f: the first report goes out, a later one goes out or
\* waits, as the time since the last one has it.
FeedProgress(f, e) ==
  \/ ~TakesProgress(e.job) /\ feed' = f /\ UNCHANGED hubVars
  \/ /\ TakesProgress(e.job)
     /\ feed' = [f EXCEPT !.pending[e.job] = 0, !.throttled = @ \cup {e.job}]
     /\ Publish(e)
  \/ /\ TakesProgress(e.job) /\ e.job \in f.throttled
     /\ feed' = [f EXCEPT !.pending[e.job] = e.prog]
     /\ UNCHANGED hubVars

\* After each turn of the loop: the burst of transitions is out, their patches go next.
PatchDue == feed.dirty /\ bus = <<>> /\ ~lagged

FeedIdle == up /\ feed.phase # "off" /\ feed.polled = {} /\ ~PatchDue

\* Events were lost: every client must reload.
FeedLagged ==
  /\ FeedIdle /\ lagged
  /\ Publish(Resync)
  /\ lagged' = FALSE
  /\ UNCHANGED <<up, job, owner, live, due, bus, feed, others>>

FeedEvent ==
  /\ FeedIdle /\ ~lagged /\ bus # <<>>
  /\ bus' = Tail(bus)
  /\ IF Head(bus).type = "job" THEN FeedJob(feed, Head(bus)) ELSE FeedProgress(feed, Head(bus))
  /\ UNCHANGED <<up, job, owner, live, due, lagged, others>>

\* Mutant: a job is not looked at again once it has ended.
PollsActive(j) == j \notin feed.seen \/ job[j].rank \in {Queued, Running}

\* Store::foreign_jobs: new jobs, unfinished ones, and those unfinished when last seen.
Polls(j) ==
  \/ j \notin feed.seen
  \/ job[j].rank \in {Queued, Running}
  \/ feed.watched[j] # Unwatched

PollResult == {j \in Jobs : Created(j) /\ ~Mine(j) /\ Polls(j)}

\* Feed::poll_foreign, the query.
Poll ==
  /\ FeedIdle
  /\ feed' = [feed EXCEPT
       !.phase = "on",
       !.seen = @ \cup PollResult,
       !.polled = {JobEvent(j, job[j].rank, job[j].prog) : j \in PollResult}]
  /\ UNCHANGED <<hubVars, engineVars, others>>

\* Feed::poll_foreign, one record: its rank, then its progress if that is new.
Polled(e) ==
  /\ up /\ e \in feed.polled
  /\ LET rest == feed.polled \ {e}
         again == IF e.prog > 0 /\ feed.watched[e.job] # e.prog
                  THEN rest \cup {ProgressEvent(e.job, e.prog)} ELSE rest
     IN \/ e.type = "progress" /\ FeedProgress([feed EXCEPT !.polled = rest], e)
        \/ /\ e.type = "job" /\ e.rank = Running
           /\ FeedJob([feed EXCEPT !.polled = again, !.watched[e.job] = e.prog], e)
        \/ /\ e.type = "job" /\ e.rank # Running
           /\ FeedJob([feed EXCEPT !.polled = rest,
                         !.watched[e.job] = IF e.rank = Queued THEN 0 ELSE Unwatched], e)
  /\ UNCHANGED <<engineVars, others>>

\* Feed::flush_progress, for one job.
FlushProgress(j) ==
  /\ FeedIdle /\ feed.pending[j] > 0
  /\ feed' = [feed EXCEPT !.pending[j] = 0]
  /\ Publish(ProgressEvent(j, feed.pending[j]))
  /\ UNCHANGED <<engineVars, others>>

\* Feed::publish_dirty
PublishDirty ==
  /\ up /\ feed.polled = {} /\ PatchDue
  /\ feed' = [feed EXCEPT !.dirty = FALSE]
  /\ Publish(OtherEvent)
  /\ UNCHANGED <<engineVars, others>>

\* The watchers and the source editor publish too.
PublishOther ==
  /\ up /\ others > 0
  /\ others' = others - 1
  /\ Publish(OtherEvent)
  /\ UNCHANGED <<engineVars, feed>>

FeedStep ==
  \/ FeedBegin \/ FeedLagged \/ FeedEvent \/ Poll \/ PublishDirty
  \/ \E e \in feed.polled : Polled(e)
  \/ \E j \in Jobs : FlushProgress(j)

EngineStep ==
  \/ \E j \in Jobs :
       \/ \E r \in {Queued, Terminal} : Submit(j, r)
       \/ Run(j) \/ End(j) \/ Reap(j) \/ Report(j) \/ Save(j) \/ OtherEngine(j)
  \/ \E d \in due : Tell(d)
  \/ PublishOther

FeedNext == FeedStep \/ EngineStep

FeedSpec == FeedInit /\ [][FeedNext]_feedVars

\* What the feed has nothing left to say about: a poll would find no news.
FeedIsDone ==
  /\ FeedIdle /\ feed.phase = "on" /\ due = {} /\ bus = <<>> /\ ~lagged
  /\ \A j \in PollResult : feed.published[j] >= job[j].rank

-----------------------------------------------------------------------------
(* Each rank of a job is published at most once and ranks only rise, although
   the reaper and the poller both see a transition and a cancellation can be
   sent before the submission it cancels (feed.rs, Feed::job). *)
RanksOnlyRise ==
  \A i, k \in DOMAIN ring :
    i < k /\ ring[i].event.type = "job" /\ ring[k].event.type = "job"
      /\ ring[i].event.job = ring[k].event.job
      => ring[i].event.rank < ring[k].event.rank

(* No progress of a job is published after its end or before its start, though
   a report may wait in the throttle while the job ends (feed.rs, progress and
   flush_progress). *)
ProgressWhileRunning ==
  \A i, k \in DOMAIN ring :
    ring[i].event.type = "job" /\ ring[k].event.type = "progress"
      /\ ring[i].event.job = ring[k].event.job
      => IF i < k THEN ring[i].event.rank < Terminal ELSE ring[i].event.rank = Terminal

(* The story that the events tell of a job is in order (feed.rs, Feed). *)
EventsAreInOrder == RanksOnlyRise /\ ProgressWhileRunning

(* What is published is committed and visible, as the comment on
   EventHub::publish asks of its callers: no event is ahead of the stored row. *)
PublishedIsStored ==
  \A i \in DOMAIN ring :
    LET e == ring[i].event IN
    /\ e.type = "job" => e.rank <= job[e.job].rank
    /\ e.type = "progress" => e.prog <= job[e.job].prog \/ job[e.job].rank = Terminal
=============================================================================

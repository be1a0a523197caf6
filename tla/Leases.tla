------------------------------- MODULE Leases -------------------------------
(***************************************************************************)
(* Heartbeats, stale leases and system suspends, in seconds.  Scheduler    *)
(* lets a lease lapse at any time its engine is not renewing it; here the  *)
(* clock is explicit.  The wall clock goes on through a suspend, the clock *)
(* the ticks are scheduled by does not.                                    *)
(*                                                                         *)
(* Ages are kept only as far as any comparison looks at them.              *)
(***************************************************************************)
EXTENDS Integers

CONSTANTS
  Engines,
  Stale,         \* LEASE_STALE_MILLIS
  ReapEvery,     \* REAP_EVERY_TICKS
  Late,          \* the most a tick, or its work, may come late
  Suspends,      \* how long the machine may sleep
  Quiet,         \* it sleeps only with every engine between ticks, all having done their
                 \* upkeep since it last woke, and engines start only then
  StartLate,     \* engines that start after time began to pass
  MayDie         \* engines that may be killed

ASSUME LeaseAssumption ==
  /\ Stale \in Nat \ {0} /\ ReapEvery \in Nat \ {0} /\ Late \in Nat
  /\ Suspends \subseteq Nat \ {0} /\ Quiet \in BOOLEAN
  /\ StartLate \subseteq Engines /\ MayDie \subseteq Engines

VARIABLES
  state,    \* off, up or dead
  beat,     \* age of the lease's heartbeat, or None without a lease
  since,    \* monotonic time since the engine's last tick
  last,     \* wall time since its last tick: now - Thaw.last
  woke,     \* wall time since it woke from a freeze: now - Thaw.woke, or None
  ticks,    \* ticks modulo ReapEvery
  work,     \* the upkeep in flight: none, renew, reap
  lost,     \* engines whose unfinished jobs a reaper failed
  rested,   \* engines that did their upkeep since the last suspend
  overdue   \* time awake since a dead engine's lease is stale and the last suspend

leaseVars == <<state, beat, since, last, woke, ticks, work, lost, rested, overdue>>

None   == -1
Freeze == Stale \div 2          \* FREEZE_MILLIS
Oldest == Stale + 1             \* any age past Stale is as good
Deadline == Freeze + (ReapEvery + 2) * (1 + Late) + 1
Capped(n, cap) == IF n > cap THEN cap ELSE n
Older(age, d, cap) == IF age = None THEN None ELSE Capped(age + d, cap)

LeaseTypeOK ==
  /\ state \in [Engines -> {"off", "up", "dead"}]
  /\ beat \in [Engines -> {None} \cup 0..Oldest]
  /\ since \in [Engines -> 0..(1 + Late)]
  /\ last \in [Engines -> 0..(Freeze + 1)]
  /\ woke \in [Engines -> {None} \cup 0..Freeze]
  /\ ticks \in [Engines -> 0..(ReapEvery - 1)]
  /\ work \in [Engines -> {"none", "renew", "reap"}]
  /\ lost \subseteq Engines
  /\ rested \subseteq Engines
  /\ overdue \in [Engines -> 0..Deadline]

LeaseInit ==
  /\ state = [e \in Engines |-> IF e \in StartLate THEN "off" ELSE "up"]
  /\ beat = [e \in Engines |-> IF e \in StartLate THEN None ELSE 0]
  /\ since = [e \in Engines |-> 0]
  /\ last = [e \in Engines |-> 0]
  /\ woke = [e \in Engines |-> None]
  /\ ticks = [e \in Engines |-> 0]
  /\ work = [e \in Engines |-> "none"]
  /\ lost = {}
  /\ rested = Engines
  /\ overdue = [e \in Engines |-> 0]

Up == {e \in Engines : state[e] = "up"}

-----------------------------------------------------------------------------
(* leases.rs *)

\* Stale or missing, as reap sees it.
StaleNow(f) == beat[f] = None \/ beat[f] > Stale

\* renew_lease by e, and reap if it is due.
RenewLease(e, reap) ==
  IF reap
  THEN /\ beat' = [f \in Engines |->
                     IF f = e THEN 0 ELSE IF beat[f] > Stale THEN None ELSE beat[f]]
       /\ lost' = lost \cup {f \in Engines \ {e} : state[f] # "off" /\ StaleNow(f)}
  ELSE beat' = [beat EXCEPT ![e] = 0] /\ UNCHANGED lost

\* Scheduler::start: it renews its lease and reaps at once.
Start(e) ==
  /\ state[e] = "off" /\ (Quiet => Up \subseteq rested)
  /\ state' = [state EXCEPT ![e] = "up"]
  /\ RenewLease(e, TRUE)
  /\ rested' = rested \cup {e}
  /\ since' = [since EXCEPT ![e] = 0]
  /\ last' = [last EXCEPT ![e] = 0]
  /\ UNCHANGED <<woke, ticks, work, overdue>>

Die(e) ==
  /\ e \in MayDie /\ state[e] = "up"
  /\ state' = [state EXCEPT ![e] = "dead"]
  /\ work' = [work EXCEPT ![e] = "none"]
  /\ UNCHANGED <<beat, since, last, woke, ticks, lost, rested, overdue>>

-----------------------------------------------------------------------------
(* maintenance.rs *)

\* Thaw::settled: the time since this engine woke, from this tick's point of view.
WokeAt(e) == IF last[e] > Freeze THEN 0 ELSE woke[e]

\* Mutant: no hold-back.
SettledAlways(e) == TRUE

\* Thaw::settled
Settled(e) == WokeAt(e) = None \/ WokeAt(e) >= Freeze

\* tick % REAP_EVERY_TICKS == 0
ReapDue(e) == ticks[e] + 1 = ReapEvery

\* A tick decides whether this upkeep reaps.
Tick(e) ==
  /\ state[e] = "up" /\ work[e] = "none" /\ since[e] >= 1
  /\ woke' = [woke EXCEPT ![e] = WokeAt(e)]
  /\ last' = [last EXCEPT ![e] = 0]
  /\ since' = [since EXCEPT ![e] = 0]
  /\ ticks' = [ticks EXCEPT ![e] = (@ + 1) % ReapEvery]
  /\ work' = [work EXCEPT ![e] = IF Settled(e) /\ ReapDue(e) THEN "reap" ELSE "renew"]
  /\ UNCHANGED <<state, beat, lost, rested, overdue>>

\* The store work of the upkeep, with the time it is then.
Upkeep(e) ==
  /\ state[e] = "up" /\ work[e] # "none"
  /\ RenewLease(e, work[e] = "reap")
  /\ work' = [work EXCEPT ![e] = "none"]
  /\ rested' = rested \cup {e}
  /\ UNCHANGED <<state, since, last, woke, ticks, overdue>>

-----------------------------------------------------------------------------
(* Time *)

\* Dead, stale, and its jobs not failed yet.
Unnoticed(e) == state[e] = "dead" /\ StaleNow(e) /\ e \notin lost

WallTime(d) ==
  /\ beat' = [e \in Engines |-> Older(beat[e], d, Oldest)]
  /\ last' = [e \in Engines |-> IF e \in Up THEN Capped(last[e] + d, Freeze + 1) ELSE last[e]]
  /\ woke' = [e \in Engines |-> IF e \in Up THEN Older(woke[e], d, Freeze) ELSE woke[e]]

\* A second passes, which no engine's tick or upkeep may sleep through.
Pass ==
  /\ \A e \in Up : since[e] <= Late
  /\ since' = [e \in Engines |-> IF e \in Up THEN since[e] + 1 ELSE since[e]]
  /\ overdue' = [e \in Engines |-> IF Unnoticed(e) THEN Capped(overdue[e] + 1, Deadline) ELSE 0]
  /\ WallTime(1)
  /\ UNCHANGED <<state, ticks, work, lost, rested>>

\* The machine sleeps for d seconds.
Suspend(d) ==
  /\ Quiet => Up \subseteq rested /\ \A e \in Up : work[e] = "none"
  /\ WallTime(d)
  /\ rested' = {}
  /\ overdue' = [e \in Engines |-> 0]
  /\ UNCHANGED <<state, since, ticks, work, lost>>

LeaseNext ==
  \/ Pass
  \/ \E e \in Engines : Start(e) \/ Die(e) \/ Tick(e) \/ Upkeep(e)
  \/ \E d \in Suspends : Suspend(d)

LeaseSpec == LeaseInit /\ [][LeaseNext]_leaseVars

-----------------------------------------------------------------------------
(* Properties *)

(* The jobs of an engine that runs whenever the machine does are not failed
   as engine_lost, although every heartbeat looks stale when the machine wakes
   up (maintenance.rs, Thaw; leases.rs, reap). *)
LiveEnginesKeepTheirJobs == \A e \in Up : e \notin lost

(* While some engine is up and the machine awake, the jobs of a dead one are
   failed, once its lease is stale, within the hold-back, the tick that starts
   it, a reap interval and the lateness of the ticks: neither the hold-back nor
   the reap interval postpones it for good (maintenance.rs, spawn and upkeep). *)
DeadEnginesAreNoticed ==
  Up # {} => \A e \in Engines : Unnoticed(e) => overdue[e] < Deadline

(* A heartbeat tells who lives: whoever runs keeps its jobs, and whoever died
   loses them in time (leases.rs, reap; maintenance.rs, spawn). *)
LeasesTellWhoLives == LiveEnginesKeepTheirJobs /\ DeadEnginesAreNoticed

=============================================================================

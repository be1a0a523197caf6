------------------------------ MODULE EventHub ------------------------------
(***************************************************************************)
(* The event hub of one server process: a ring of the newest events, each  *)
(* with the next sequence number.  A stream reads it from a place of its   *)
(* own; where it cannot go on without a gap it says so with a resync.      *)
(*                                                                         *)
(* An id is <<instance, seq>>; the instance grows with every restart of    *)
(* the server.                                                             *)
(***************************************************************************)
EXTENDS Integers, Sequences

CONSTANTS
  RingCapacity,
  Events           \* what may be published

ASSUME HubAssumption == RingCapacity \in Nat \ {0}

VARIABLES
  instance,
  ring,            \* Ring.frames, oldest first
  last             \* Ring.last

hubVars == <<instance, ring, last>>

Resync == [type |-> "resync"]

HubInit == instance = 1 /\ ring = <<>> /\ last = 0

\* EventHub::new, in a process of its own.
HubRestart == instance' = instance + 1 /\ ring' = <<>> /\ last' = 0

Frame(seq, event) == [seq |-> seq, event |-> event]

\* Mutant: the newest frame makes room instead of the oldest.
PushedBack(f) ==
  Append(IF Len(ring) = RingCapacity THEN SubSeq(ring, 1, Len(ring) - 1) ELSE ring, f)

\* The ring with one more frame; the oldest leaves a full one.
Pushed(f) ==
  Append(IF Len(ring) = RingCapacity THEN Tail(ring) ELSE ring, f)

Publish(event) ==
  /\ last' = last + 1
  /\ ring' = Pushed(Frame(last + 1, event))
  /\ UNCHANGED instance

\* EventHub::cursor
Cursor == <<instance, last>>

\* Every event after seq is still in the ring.
HeldSince(seq) == seq = last \/ (ring # <<>> /\ Head(ring).seq <= seq + 1)

\* EventHub::start refuses a cursor of another process, or of the future, as unknown
\* and one whose next event left the ring as expired.
Honours(id) == id[1] = instance /\ id[2] <= last /\ HeldSince(id[2])

\* The first sequence number a stream with this cursor reads.
StartAt(id) == IF Honours(id) THEN id[2] + 1 ELSE last + 1

\* EventHub::read: some frame from next on has left the ring.
Lags(next) == ring # <<>> /\ Head(ring).seq > next

\* EventHub::read
From(next) == IF ring = <<>> THEN ring ELSE SubSeq(ring, next - Head(ring).seq + 1, Len(ring))

\* EventHub::resync: the id is that of the newest event.
ResyncFrame == Frame(last, Resync)

HubTypeOK ==
  /\ instance \in Nat /\ last \in Nat
  /\ ring \in Seq([seq : Nat, event : Events \cup {Resync}])

\* The ring holds the newest events, numbered without a gap up to the last.
RingIsContiguous ==
  /\ Len(ring) <= RingCapacity /\ Len(ring) <= last
  /\ \A i \in 1..Len(ring) : ring[i].seq = last - Len(ring) + i
  /\ last > 0 => ring # <<>>

HubNext == HubRestart \/ \E event \in Events \cup {Resync} : Publish(event)

HubSpec == HubInit /\ [][HubNext]_hubVars
=============================================================================

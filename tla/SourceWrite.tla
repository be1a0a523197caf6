---------------------------- MODULE SourceWrite ----------------------------
(***************************************************************************)
(* How the engine writes one source file (edit.rs).  Requests of several   *)
(* clients, in one engine or in several, are writers; editors outside the  *)
(* engine replace the file whenever they like; an engine may die between   *)
(* any two steps; pruning sweeps the undo snapshots meanwhile.             *)
(*                                                                         *)
(* A text stands for its revision: the revision is the hash of the bytes.  *)
(***************************************************************************)
EXTENDS Integers, Sequences, FiniteSets

CONSTANTS
  Writers,        \* requests in progress at once
  Texts,          \* contents of the file
  Valid,          \* those small enough and accepted by the syntax check
  NoFile,         \* "there is no file" (a revision of null)
  KeepSnapshots,  \* undo versions pruning keeps of each file
  MaxSnapshots    \* bound: snapshots taken in a behaviour

ASSUME TextsAssumption == Valid \subseteq Texts /\ NoFile \notin Texts
ASSUME KeepAssumption == KeepSnapshots \in Nat \ {0} /\ MaxSnapshots \in Nat

VARIABLES
  disk,   \* the file
  wr,     \* the writers
  snaps,  \* every snapshot taken of the file, in the order of its directory's name
  undo    \* the numbers of those still there

sourceVars == <<disk, wr, snaps, undo>>

Contents == Texts \cup {NoFile}
Holding == {"locked", "checked", "opened", "swept", "saved"}
Steps == {"idle", "validated"} \cup Holding
Answers == {"none", "ok", "unchanged", "conflict", "invalid", "error"}

\* A request: the step it is at, the text it was computed from, the text it
\* puts there, what it answered and the revision the answer reports, and
\* whether somebody outside the engine wrote after its last look at the file.
Requests == [step : Steps, base : Contents, next : Texts \cup {NoFile},
             answer : Answers, current : Contents, outrun : BOOLEAN]
Idle == [step |-> "idle", base |-> NoFile, next |-> NoFile,
         answer |-> "none", current |-> NoFile, outrun |-> FALSE]
Answered(answer, current) == [Idle EXCEPT !.answer = answer, !.current = current]

SourceInit ==
  /\ disk \in Contents
  /\ wr = [w \in Writers |-> Idle]
  /\ snaps = <<>>
  /\ undo = {}

----------------------------------------------------------------------------
At(w, step) == wr[w].step = step
Go(w, step) == wr' = [wr EXCEPT ![w].step = step]
Answer(w, answer, current) == wr' = [wr EXCEPT ![w] = Answered(answer, current)]

\* `write_source` up to the lock: reads the file, compares the revision the
\* client expects, computes the edit and validates it.  An edit that changes
\* nothing takes no lock and writes nothing.
Begin(w, expected, next) ==
  /\ At(w, "idle")
  /\ IF expected # disk THEN Answer(w, "conflict", disk)
     ELSE IF next = disk THEN Answer(w, "unchanged", disk)
     ELSE IF next \notin Valid THEN Answer(w, "invalid", disk)
     ELSE wr' = [wr EXCEPT ![w] = [Idle EXCEPT !.step = "validated", !.base = disk, !.next = next]]
  /\ UNCHANGED <<disk, snaps, undo>>

\* A writer that opens the lock file and never waits for the lock.
LockUnheld(w) == w \in Writers

\* The per-file lock, shared with every engine of the project; it goes with
\* the handle, so also with its process.
LockFree(w) == \A v \in Writers \ {w} : wr[v].step \notin Holding

TakeLock(w) ==
  /\ At(w, "validated")
  /\ LockFree(w)
  /\ Go(w, "locked")
  /\ UNCHANGED <<disk, snaps, undo>>

\* The file must still be exactly what the edit was computed from.
Recheck(w) ==
  /\ At(w, "locked")
  /\ IF disk # wr[w].base THEN Answer(w, "conflict", disk)
     ELSE wr' = [wr EXCEPT ![w].step = "checked", ![w].outrun = FALSE]
  /\ UNCHANGED <<disk, snaps, undo>>

\* The snapshot's directory, named by the time of day and so after every earlier one ...
OpenSnapshot(w) ==
  /\ At(w, "checked")
  /\ wr[w].base # NoFile
  /\ Len(snaps) < MaxSnapshots
  /\ Go(w, "opened")
  /\ UNCHANGED <<disk, snaps, undo>>

\* ... and the replaced text in it.
SaveSnapshot(w) ==
  /\ At(w, "opened")
  /\ snaps' = Append(snaps, wr[w].base)
  /\ undo' = undo \cup {Len(snaps) + 1}
  /\ Go(w, "saved")
  /\ UNCHANGED disk

Saved(w) == At(w, "saved") \/ (At(w, "checked") /\ wr[w].base = NoFile)

\* `atomic_write`: a complete temporary file is renamed over the target.
Rename(w) ==
  /\ Saved(w)
  /\ disk' = wr[w].next
  /\ Answer(w, "ok", wr[w].next)
  /\ UNCHANGED <<snaps, undo>>

\* Any step may fail: no syntax check, no parent directory or one outside the
\* project, no lock, a snapshot whose new directory pruning removed, a full
\* disk.  The handle drops and nothing was written.
Fail(w) ==
  /\ ~At(w, "idle")
  /\ Answer(w, "error", NoFile)
  /\ UNCHANGED <<disk, snaps, undo>>

\* The engine dies; the operating system drops its locks.
Crash(w) ==
  /\ ~At(w, "idle")
  /\ wr' = [wr EXCEPT ![w] = Idle]
  /\ UNCHANGED <<disk, snaps, undo>>

\* Sorted the wrong way round.
Oldest == {i \in undo : Cardinality({j \in undo : j < i}) < KeepSnapshots}

\* `prune_snapshots` keeps the newest versions of a file and removes every
\* empty directory, a snapshot's that was only just made included.
Newest == {i \in undo : Cardinality({j \in undo : j > i}) < KeepSnapshots}

Prune ==
  /\ undo' = Newest
  /\ \E swept \in SUBSET {w \in Writers : At(w, "opened")} :
       wr' = [w \in Writers |-> IF w \in swept THEN [wr[w] EXCEPT !.step = "swept"] ELSE wr[w]]
  /\ UNCHANGED <<disk, snaps>>

\* An editor, a formatter or a checkout writes or deletes the file.
Outside(text) ==
  /\ disk' = text
  /\ text # disk
  /\ wr' = [w \in Writers |-> [wr[w] EXCEPT !.outrun = wr[w].step \in Holding]]
  /\ UNCHANGED <<snaps, undo>>

WriterStep(w) ==
  \/ TakeLock(w) \/ Recheck(w) \/ OpenSnapshot(w) \/ SaveSnapshot(w) \/ Rename(w) \/ Fail(w)

----------------------------------------------------------------------------
SourceNext ==
  \/ \E w \in Writers : WriterStep(w) \/ Crash(w)
  \/ \E w \in Writers, expected \in Contents, next \in Texts : Begin(w, expected, next)
  \/ Prune
  \/ \E text \in Contents : Outside(text)

SourceSpec == SourceInit /\ [][SourceNext]_sourceVars

SourceTypeOK ==
  /\ disk \in Contents
  /\ wr \in [Writers -> Requests]
  /\ snaps \in Seq(Texts)
  /\ undo \subseteq 1 .. Len(snaps)

Renames(w) == Saved(w) /\ wr'[w] = Answered("ok", wr[w].next)

\* "Two concurrent writers can never both succeed from the same revision"
\* (edit.rs:221): a write replaces exactly the text it was computed from,
\* unless a program that takes no lock wrote since the check under the lock.
NoUpdateIsLost == [][\A w \in Writers : Renames(w) => disk = wr[w].base \/ wr[w].outrun]_sourceVars

\* Whatever a write computed its edit from is among the file's undo versions
\* by the time the file is replaced, however many engines write, die and
\* prune meanwhile, and it is the newest version there.
ReplacedIsKept ==
  [][\A w \in Writers : Renames(w) =>
       \/ wr[w].base = NoFile
       \/ \E i \in undo : snaps[i] = wr[w].base /\ \A j \in undo : j <= i]_sourceVars

(* A write takes no other writer's text away for good: it replaces only what it
   was computed from, and keeps that for undo (edit.rs, write_source). *)
WritesLoseNothing == NoUpdateIsLost /\ ReplacedIsKept

\* What the proofs rest on: one writer at a time is past the lock, and what it
\* checked is still there unless somebody outside wrote.
OneHolder == \A w, v \in Writers : wr[w].step \in Holding /\ wr[v].step \in Holding => w = v
CheckHolds ==
  \A w \in Writers : wr[w].step \in Holding \ {"locked"} => disk = wr[w].base \/ wr[w].outrun
============================================================================

----------------------------- MODULE FilesProofs -----------------------------
(***************************************************************************)
(* What happens to files, for any number of writers, files, texts and      *)
(* limits: a write of a source file loses nothing; the editor loses no     *)
(* edit of the user's and overwrites nothing the user has not seen;        *)
(* players get the bytes they ask for; the numbers of lines mean what they *)
(* say; a render that is accepted is the one that was asked for.           *)
(***************************************************************************)
EXTENDS EditorSession, FileServing, TextEdit, ArtifactCheck, Induction, FiniteSetTheorems, TLAPS

-----------------------------------------------------------------------------
(* Writing a source file *)

\* The text a writer is about to replace is the newest undo version.
SavedIsNewest ==
  \A w \in Writers : At(w, "saved") =>
    \E i \in undo : snaps[i] = wr[w].base /\ \A j \in undo : j <= i

\* Only a file that exists has a snapshot.
OpenedHasText == \A w \in Writers : At(w, "opened") => wr[w].base # NoFile

SourceInv == SourceTypeOK /\ OneHolder /\ CheckHolds /\ SavedIsNewest /\ OpenedHasText

-----------------------------------------------------------------------------
(* Requests *)

(* An answered request is a request. *)
LEMMA AnsweredType ==
  ASSUME NEW a \in Answers, NEW c \in Contents
  PROVE  Answered(a, c) \in Requests /\ Answered(a, c).step = "idle"
BY DEF Answered, Idle, Requests, Steps, Contents, Answers

(* A request that goes on to another step is a request, otherwise as before. *)
LEMMA StepType ==
  ASSUME NEW r \in Requests, NEW s \in Steps
  PROVE  LET n == [r EXCEPT !.step = s]
         IN n \in Requests /\ n.step = s /\ n.base = r.base /\ n.outrun = r.outrun
BY DEF Requests

(* So is one whose check under the lock has passed. *)
LEMMA CheckedType ==
  ASSUME NEW r \in Requests
  PROVE  LET n == [r EXCEPT !.step = "checked", !.outrun = FALSE]
         IN n \in Requests /\ n.step = "checked" /\ n.base = r.base
BY DEF Requests, Steps, Holding

(* So is one after a write from outside. *)
LEMMA OutrunType ==
  ASSUME NEW r \in Requests, NEW b \in BOOLEAN
  PROVE  LET n == [r EXCEPT !.outrun = b]
         IN n \in Requests /\ n.step = r.step /\ n.base = r.base /\ n.outrun = b
BY DEF Requests

(* One request of the function changes. *)
LEMMA OneChanges ==
  ASSUME wr \in [Writers -> Requests], NEW w \in Writers, NEW r \in Requests,
         wr' = [wr EXCEPT ![w] = r]
  PROVE  /\ wr' \in [Writers -> Requests]
         /\ wr'[w] = r
         /\ \A v \in Writers \ {w} : wr'[v] = wr[v]
OBVIOUS

-----------------------------------------------------------------------------
(* Steps of one writer *)

(* A writer's step keeps the invariant when past the lock it is alone, past the
   check it has what it checked, once saved its text is the newest version, and
   when it changes the file or its versions only while it is alone. *)
LEMMA WriterMoves ==
  ASSUME SourceInv, NEW w \in Writers, NEW r \in Requests,
         wr' = [wr EXCEPT ![w] = r],
         r.step \in Holding => \A v \in Writers \ {w} : wr[v].step \notin Holding,
         r.step \in Holding \ {"locked"} => disk' = r.base \/ r.outrun,
         r.step = "saved" => \E i \in undo' : snaps'[i] = r.base /\ \A j \in undo' : j <= i,
         r.step = "opened" => r.base # NoFile,
         \/ UNCHANGED <<disk, snaps, undo>>
         \/ \A v \in Writers \ {w} : wr[v].step \notin Holding
  PROVE  /\ wr' \in [Writers -> Requests]
         /\ OneHolder' /\ CheckHolds' /\ SavedIsNewest' /\ OpenedHasText'
<1>1. /\ wr' \in [Writers -> Requests]
      /\ wr'[w] = r
      /\ \A v \in Writers \ {w} : wr'[v] = wr[v]
  BY OneChanges DEF SourceInv, SourceTypeOK
<1>2. OneHolder'
  BY <1>1 DEF SourceInv, OneHolder
<1>3. ASSUME NEW v \in Writers, (wr[v].step \in Holding \ {"locked"})'
      PROVE  (disk = wr[v].base \/ wr[v].outrun)'
  <2>1. CASE v = w  BY <2>1, <1>1, <1>3
  <2>2. CASE v # w
    <3>1. wr'[v] = wr[v]  BY <2>2, <1>1
    <3>2. wr[v].step \in Holding  BY <3>1, <1>3
    <3>3. UNCHANGED disk  BY <3>2, <2>2
    <3> QED  BY <3>1, <3>3, <1>3 DEF SourceInv, CheckHolds
  <2> QED  BY <2>1, <2>2
<1>4. ASSUME NEW v \in Writers, At(v, "saved")'
      PROVE  (\E i \in undo : snaps[i] = wr[v].base /\ \A j \in undo : j <= i)'
  <2>1. CASE v = w  BY <2>1, <1>1, <1>4 DEF At
  <2>2. CASE v # w
    <3>1. wr'[v] = wr[v]  BY <2>2, <1>1
    <3>2. At(v, "saved")  BY <3>1, <1>4 DEF At
    <3>3. wr[v].step \in Holding  BY <3>2 DEF At, Holding
    <3>4. UNCHANGED <<snaps, undo>>  BY <3>3, <2>2
    <3> QED  BY <3>1, <3>2, <3>4 DEF SourceInv, SavedIsNewest
  <2> QED  BY <2>1, <2>2
<1>5. OpenedHasText'
  BY <1>1 DEF SourceInv, OpenedHasText, At
<1> QED  BY <1>1, <1>2, <1>3, <1>4, <1>5 DEF CheckHolds, SavedIsNewest

(* A request that ends leaves the invariant to the others. *)
LEMMA Ending ==
  ASSUME SourceInv, NEW w \in Writers, NEW r \in Requests, r.step = "idle",
         wr' = [wr EXCEPT ![w] = r], UNCHANGED <<disk, snaps, undo>>
  PROVE  SourceInv'
<1>1. r.step \notin Holding  BY DEF Holding
<1>2. wr' \in [Writers -> Requests] /\ OneHolder' /\ CheckHolds' /\ SavedIsNewest' /\ OpenedHasText'
  <2>1. r.step # "saved"  OBVIOUS
  <2> QED  BY <1>1, <2>1, WriterMoves
<1> QED  BY <1>2 DEF SourceInv, SourceTypeOK

(* A writer past the lock is alone there. *)
LEMMA Alone ==
  ASSUME SourceInv, NEW w \in Writers, wr[w].step \in Holding
  PROVE  \A v \in Writers \ {w} : wr[v].step \notin Holding
BY DEF SourceInv, OneHolder

(* Taking the lock. *)
LEMMA TakeLockKeeps ==
  ASSUME SourceInv, NEW w \in Writers, TakeLock(w)
  PROVE  SourceInv'
<1> DEFINE r == [wr[w] EXCEPT !.step = "locked"]
<1>1. wr[w] \in Requests  BY DEF SourceInv, SourceTypeOK
<1>2. r \in Requests /\ r.step = "locked"  BY <1>1, StepType DEF Steps, Holding
<1>3. wr' = [wr EXCEPT ![w] = r]  BY DEF TakeLock, Go
<1>4. UNCHANGED <<disk, snaps, undo>>  BY DEF TakeLock
<1>5. \A v \in Writers \ {w} : wr[v].step \notin Holding  BY DEF TakeLock, LockFree
<1> HIDE DEF r
<1>6. wr' \in [Writers -> Requests] /\ OneHolder' /\ CheckHolds' /\ SavedIsNewest' /\ OpenedHasText'
  BY <1>2, <1>3, <1>4, <1>5, WriterMoves
<1> QED  BY <1>4, <1>6 DEF SourceInv, SourceTypeOK

(* The check under the lock. *)
LEMMA RecheckKeeps ==
  ASSUME SourceInv, NEW w \in Writers, Recheck(w)
  PROVE  SourceInv'
<1>0. wr[w] \in Requests /\ disk \in Contents  BY DEF SourceInv, SourceTypeOK
<1>1. CASE disk # wr[w].base
  <2>1. wr' = [wr EXCEPT ![w] = Answered("conflict", disk)]  BY <1>1 DEF Recheck, Answer
  <2>2. "conflict" \in Answers  BY DEF Answers
  <2>3. Answered("conflict", disk) \in Requests /\ Answered("conflict", disk).step = "idle"
    BY <2>2, <1>0, AnsweredType
  <2>4. UNCHANGED <<disk, snaps, undo>>  BY DEF Recheck
  <2> QED  BY <2>1, <2>3, <2>4, Ending
<1>2. CASE disk = wr[w].base
  <2> DEFINE r == [wr[w] EXCEPT !.step = "checked", !.outrun = FALSE]
  <2>1. r \in Requests /\ r.step = "checked" /\ r.base = wr[w].base  BY <1>0, CheckedType
  <2>2. wr' = [wr EXCEPT ![w] = r]  BY <1>2 DEF Recheck
  <2>3. UNCHANGED <<disk, snaps, undo>>  BY DEF Recheck
  <2>4. \A v \in Writers \ {w} : wr[v].step \notin Holding
    BY Alone DEF Recheck, At, Holding
  <2>5. disk' = r.base  BY <2>1, <2>3, <1>2
  <2> HIDE DEF r
  <2>6. wr' \in [Writers -> Requests] /\ OneHolder' /\ CheckHolds' /\ SavedIsNewest' /\ OpenedHasText'
    BY <2>1, <2>2, <2>3, <2>4, <2>5, WriterMoves
  <2> QED  BY <2>3, <2>6 DEF SourceInv, SourceTypeOK
<1> QED  BY <1>1, <1>2

(* Making a snapshot's directory. *)
LEMMA OpenSnapshotKeeps ==
  ASSUME SourceInv, NEW w \in Writers, OpenSnapshot(w)
  PROVE  SourceInv'
<1> DEFINE r == [wr[w] EXCEPT !.step = "opened"]
<1>1. wr[w] \in Requests  BY DEF SourceInv, SourceTypeOK
<1>2. r \in Requests /\ r.step = "opened" /\ r.base = wr[w].base /\ r.outrun = wr[w].outrun
  BY <1>1, StepType DEF Steps, Holding
<1>3. wr' = [wr EXCEPT ![w] = r]  BY DEF OpenSnapshot, Go
<1>4. UNCHANGED <<disk, snaps, undo>>  BY DEF OpenSnapshot
<1>5. wr[w].step \in Holding \ {"locked"}  BY DEF OpenSnapshot, At, Holding
<1>6. \A v \in Writers \ {w} : wr[v].step \notin Holding  BY <1>5, Alone
<1>7. disk' = r.base \/ r.outrun  BY <1>2, <1>4, <1>5 DEF SourceInv, CheckHolds
<1> HIDE DEF r
<1>9. r.base # NoFile  BY <1>2 DEF OpenSnapshot
<1>8. wr' \in [Writers -> Requests] /\ OneHolder' /\ CheckHolds' /\ SavedIsNewest' /\ OpenedHasText'
  BY <1>2, <1>3, <1>4, <1>6, <1>7, <1>9, WriterMoves
<1> QED  BY <1>4, <1>8 DEF SourceInv, SourceTypeOK

(* Writing the snapshot: its number is higher than every earlier one's. *)
LEMMA SaveSnapshotKeeps ==
  ASSUME SourceInv, NEW w \in Writers, SaveSnapshot(w)
  PROVE  SourceInv'
<1> DEFINE r == [wr[w] EXCEPT !.step = "saved"]
<1>1. wr[w] \in Requests /\ snaps \in Seq(Texts) /\ undo \subseteq 1 .. Len(snaps)
  BY DEF SourceInv, SourceTypeOK
<1>2. r \in Requests /\ r.step = "saved" /\ r.base = wr[w].base /\ r.outrun = wr[w].outrun
  BY <1>1, StepType DEF Steps, Holding
<1>3. wr' = [wr EXCEPT ![w] = r]  BY DEF SaveSnapshot, Go
<1>4. /\ disk' = disk
      /\ snaps' = Append(snaps, wr[w].base)
      /\ undo' = undo \cup {Len(snaps) + 1}
  BY DEF SaveSnapshot
<1>5. wr[w].step \in Holding \ {"locked"}  BY DEF SaveSnapshot, At, Holding
<1>6. \A v \in Writers \ {w} : wr[v].step \notin Holding  BY <1>5, Alone
<1>7. disk' = r.base \/ r.outrun  BY <1>2, <1>4, <1>5 DEF SourceInv, CheckHolds
<1>8. wr[w].base \in Texts
  BY <1>1 DEF SourceInv, OpenedHasText, SaveSnapshot, Requests, Contents
<1>9. \E i \in undo' : snaps'[i] = r.base /\ \A j \in undo' : j <= i
  <2>1. Len(snaps) + 1 \in undo'  BY <1>4
  <2>2. snaps'[Len(snaps) + 1] = r.base  BY <1>1, <1>2, <1>4, <1>8
  <2>3. \A j \in undo' : j <= Len(snaps) + 1  BY <1>1, <1>4
  <2> QED  BY <2>1, <2>2, <2>3
<1> HIDE DEF r
<1>10. wr' \in [Writers -> Requests] /\ OneHolder' /\ CheckHolds' /\ SavedIsNewest' /\ OpenedHasText'
  BY <1>2, <1>3, <1>6, <1>7, <1>9, WriterMoves
<1>11. snaps' \in Seq(Texts) /\ Len(snaps') = Len(snaps) + 1 /\ Len(snaps) \in Nat
  BY <1>1, <1>4, <1>8
<1>12. undo' \subseteq 1 .. Len(snaps')
  <2>1. \A j \in undo' : j \in 1 .. Len(snaps) \/ j = Len(snaps) + 1  BY <1>1, <1>4
  <2>2. \A n \in Nat : Len(snaps') = n + 1 /\ Len(snaps) = n
          => \A j : j \in 1 .. n \/ j = n + 1 => j \in 1 .. n + 1
    OBVIOUS
  <2>3. \A j \in undo' : j \in 1 .. Len(snaps) + 1  BY <2>1, <2>2, <1>11
  <2> QED  BY <2>3, <1>11
<1> QED  BY <1>4, <1>10, <1>11, <1>12 DEF SourceInv, SourceTypeOK
(* Replacing the file: nobody else is past the lock, so nobody's check is undone. *)
LEMMA RenameKeeps ==
  ASSUME SourceInv, NEW w \in Writers, Rename(w)
  PROVE  SourceInv'
<1> DEFINE r == Answered("ok", wr[w].next)
<1>1. wr[w] \in Requests  BY DEF SourceInv, SourceTypeOK
<1>2. wr[w].next \in Contents  BY <1>1 DEF Requests, Contents
<1>3. "ok" \in Answers  BY DEF Answers
<1>4. r \in Requests /\ r.step = "idle"  BY <1>2, <1>3, AnsweredType
<1>5. wr' = [wr EXCEPT ![w] = r]  BY DEF Rename, Answer
<1>6. disk' = wr[w].next /\ UNCHANGED <<snaps, undo>>  BY DEF Rename
<1>7. wr[w].step \in Holding  BY DEF Rename, Saved, At, Holding
<1>8. \A v \in Writers \ {w} : wr[v].step \notin Holding  BY <1>7, Alone
<1>9. r.step \notin Holding /\ r.step # "saved" /\ r.step # "opened"  BY <1>4 DEF Holding
<1> HIDE DEF r
<1>10. wr' \in [Writers -> Requests] /\ OneHolder' /\ CheckHolds' /\ SavedIsNewest' /\ OpenedHasText'
  BY <1>4, <1>5, <1>8, <1>9, WriterMoves
<1> QED  BY <1>2, <1>6, <1>10 DEF SourceInv, SourceTypeOK

(* Failing at any step, or dying with the engine. *)
LEMMA FailKeeps ==
  ASSUME SourceInv, NEW w \in Writers, Fail(w) \/ Crash(w)
  PROVE  SourceInv'
<1>1. CASE Fail(w)
  <2>1. "error" \in Answers /\ NoFile \in Contents  BY DEF Answers, Contents
  <2> QED  BY <1>1, <2>1, AnsweredType, Ending DEF Fail, Answer
<1>2. CASE Crash(w)
  <2>1. Idle \in Requests /\ Idle.step = "idle"
    BY DEF Idle, Requests, Steps, Contents, Answers
  <2> QED  BY <1>2, <2>1, Ending DEF Crash
<1> QED  BY <1>1, <1>2

(* The request up to the lock. *)
LEMMA BeginKeeps ==
  ASSUME SourceInv, NEW w \in Writers, NEW expected \in Contents, NEW new \in Texts,
         Begin(w, expected, new)
  PROVE  SourceInv'
<1>0. disk \in Contents /\ UNCHANGED <<disk, snaps, undo>>
  BY DEF SourceInv, SourceTypeOK, Begin
<1>1. CASE \E a \in {"conflict", "unchanged", "invalid"} : Answer(w, a, disk)
  <2>1. PICK a \in {"conflict", "unchanged", "invalid"} : Answer(w, a, disk)  BY <1>1
  <2>2. a \in Answers  BY DEF Answers
  <2> QED  BY <2>1, <2>2, <1>0, AnsweredType, Ending DEF Answer
<1>2. CASE wr' = [wr EXCEPT ![w] = [Idle EXCEPT !.step = "validated", !.base = disk, !.next = new]]
  <2> DEFINE r == [Idle EXCEPT !.step = "validated", !.base = disk, !.next = new]
  <2>1. r \in Requests /\ r.step = "validated"
    BY <1>0 DEF Idle, Requests, Steps, Contents, Answers
  <2>2. r.step \notin Holding /\ r.step # "saved" /\ r.step # "opened"  BY <2>1 DEF Holding
  <2>3. wr' = [wr EXCEPT ![w] = r]  BY <1>2
  <2> HIDE DEF r
  <2>4. wr' \in [Writers -> Requests] /\ OneHolder' /\ CheckHolds' /\ SavedIsNewest' /\ OpenedHasText'
    BY <2>1, <2>2, <2>3, <1>0, WriterMoves
  <2> QED  BY <1>0, <2>4 DEF SourceInv, SourceTypeOK
<1> QED  BY <1>1, <1>2 DEF Begin

-----------------------------------------------------------------------------
(* Steps of others *)

(* The newest version outlives every prune, since at least one is kept. *)
LEMMA PruneKeeps ==
  ASSUME SourceInv, Prune
  PROVE  SourceInv'
<1>1. PICK swept \in SUBSET {w \in Writers : At(w, "opened")} :
        wr' = [w \in Writers |-> IF w \in swept THEN [wr[w] EXCEPT !.step = "swept"] ELSE wr[w]]
  BY DEF Prune
<1>2. undo' = Newest /\ UNCHANGED <<disk, snaps>>  BY DEF Prune
<1>3. wr \in [Writers -> Requests] /\ undo \subseteq 1 .. Len(snaps) /\ snaps \in Seq(Texts)
  BY DEF SourceInv, SourceTypeOK
<1>4. undo' \subseteq undo  BY <1>2 DEF Newest
<1>5. ASSUME NEW w \in Writers
      PROVE  /\ wr'[w] \in Requests
             /\ wr'[w].base = wr[w].base /\ wr'[w].outrun = wr[w].outrun
             /\ \/ wr'[w].step = wr[w].step
                \/ wr[w].step = "opened" /\ wr'[w].step = "swept"
  <2>1. wr[w] \in Requests  BY <1>3
  <2>2. CASE w \in swept
    <3>1. wr'[w] = [wr[w] EXCEPT !.step = "swept"]  BY <1>1, <2>2
    <3>2. wr[w].step = "opened"  BY <2>2 DEF At
    <3>3. "swept" \in Steps  BY DEF Steps, Holding
    <3> QED  BY <2>1, <3>1, <3>2, <3>3, StepType
  <2>3. CASE w \notin swept  BY <1>1, <2>1, <2>3
  <2> QED  BY <2>2, <2>3
<1>6. wr' \in [Writers -> Requests]  BY <1>1, <1>5
<1>7. SourceTypeOK'  BY <1>2, <1>3, <1>4, <1>6 DEF SourceInv, SourceTypeOK
<1>8. \A w \in Writers : wr'[w].step \in Holding => wr[w].step \in Holding
  BY <1>5 DEF Holding
<1>9. OneHolder'  BY <1>8 DEF SourceInv, OneHolder
<1>10. CheckHolds'
  <2>1. \A w \in Writers : wr'[w].step \in Holding \ {"locked"} => wr[w].step \in Holding \ {"locked"}
    BY <1>5 DEF Holding
  <2> QED  BY <1>2, <1>5, <2>1 DEF SourceInv, CheckHolds
<1>11. SavedIsNewest'
  <2> SUFFICES ASSUME NEW w \in Writers, At(w, "saved")'
               PROVE  (\E i \in undo : snaps[i] = wr[w].base /\ \A j \in undo : j <= i)'
    BY DEF SavedIsNewest
  <2>1. At(w, "saved") /\ wr'[w].base = wr[w].base  BY <1>5 DEF At
  <2>2. PICK i \in undo : snaps[i] = wr[w].base /\ \A j \in undo : j <= i
    BY <2>1 DEF SourceInv, SavedIsNewest
  <2>3. {j \in undo : j > i} = {}
    <3>1. i \in Int /\ \A j \in undo : j \in Int /\ j <= i  BY <1>3, <2>2
    <3>2. \A j \in undo : ~(j > i)  BY <3>1
    <3> QED  BY <3>2, Zenon
  <2>4. Cardinality({j \in undo : j > i}) < KeepSnapshots
    BY <2>3, FS_EmptySet, KeepAssumption
  <2>5. i \in undo'  BY <1>2, <2>2, <2>4 DEF Newest
  <2> QED  BY <1>2, <1>4, <2>1, <2>2, <2>5
<1>12. OpenedHasText'  BY <1>5 DEF SourceInv, OpenedHasText, At
<1> QED  BY <1>7, <1>9, <1>10, <1>11, <1>12 DEF SourceInv

(* A program that takes no lock marks whoever has checked as outrun. *)
LEMMA OutsideKeeps ==
  ASSUME SourceInv, NEW text \in Contents, Outside(text)
  PROVE  SourceInv'
<1>1. /\ disk' = text /\ UNCHANGED <<snaps, undo>>
      /\ wr' = [w \in Writers |-> [wr[w] EXCEPT !.outrun = wr[w].step \in Holding]]
  BY DEF Outside
<1>2. ASSUME NEW w \in Writers
      PROVE  /\ wr'[w] \in Requests /\ wr'[w].step = wr[w].step /\ wr'[w].base = wr[w].base
             /\ wr[w].step \in Holding => wr'[w].outrun
  <2>1. wr[w] \in Requests  BY DEF SourceInv, SourceTypeOK
  <2> DEFINE past == wr[w].step \in Holding
  <2>2. past \in BOOLEAN  OBVIOUS
  <2>3. wr'[w] = [wr[w] EXCEPT !.outrun = past]  BY <1>1
  <2> HIDE DEF past
  <2>4. wr'[w] \in Requests /\ wr'[w].step = wr[w].step /\ wr'[w].base = wr[w].base /\ wr'[w].outrun = past
    BY <2>1, <2>2, <2>3, OutrunType
  <2> QED  BY <2>4 DEF past
<1>3. wr' \in [Writers -> Requests]  BY <1>1, <1>2
<1>4. SourceTypeOK'  BY <1>1, <1>3 DEF SourceInv, SourceTypeOK
<1>5. OneHolder'  BY <1>2 DEF SourceInv, OneHolder
<1>6. CheckHolds'  BY <1>2 DEF CheckHolds
<1>7. SavedIsNewest'  BY <1>1, <1>2 DEF SourceInv, SavedIsNewest, At
<1>8. OpenedHasText'  BY <1>2 DEF SourceInv, OpenedHasText, At
<1> QED  BY <1>4, <1>5, <1>6, <1>7, <1>8 DEF SourceInv

-----------------------------------------------------------------------------
(* A step of any writer, of pruning or from outside keeps the invariant. *)
LEMMA SourceNextKeeps ==
  ASSUME SourceInv, [SourceNext]_sourceVars
  PROVE  SourceInv'
<1>1. ASSUME NEW w \in Writers, WriterStep(w) \/ Crash(w) PROVE SourceInv'
  BY <1>1, TakeLockKeeps, RecheckKeeps, OpenSnapshotKeeps, SaveSnapshotKeeps, RenameKeeps,
     FailKeeps DEF WriterStep
<1>2. ASSUME NEW w \in Writers, NEW expected \in Contents, NEW new \in Texts,
             Begin(w, expected, new)
      PROVE  SourceInv'
  BY <1>2, BeginKeeps
<1>3. CASE Prune  BY <1>3, PruneKeeps
<1>4. ASSUME NEW text \in Contents, Outside(text) PROVE SourceInv'
  BY <1>4, OutsideKeeps
<1>5. CASE UNCHANGED sourceVars
  BY <1>5 DEF sourceVars, SourceInv, SourceTypeOK, OneHolder, CheckHolds, SavedIsNewest,
              OpenedHasText, At
<1> QED  BY <1>1, <1>2, <1>3, <1>4, <1>5 DEF SourceNext

(* It holds before anything was written. *)
LEMMA SourceStarts ==
  ASSUME SourceInit
  PROVE  SourceInv
<1>1. Idle \in Requests /\ Idle.step = "idle"
  BY DEF Idle, Requests, Steps, Contents, Answers
<1>2. "idle" \notin Holding  BY DEF Holding
<1>3. SourceTypeOK  BY <1>1 DEF SourceInit, SourceTypeOK
<1>4. \A w \in Writers : wr[w].step = "idle"  BY <1>1 DEF SourceInit
<1> QED  BY <1>2, <1>3, <1>4
         DEF SourceInv, OneHolder, CheckHolds, SavedIsNewest, OpenedHasText, At

(* The lock, the check and the snapshot hold for every writer in every state
   (edit.rs, write_source). *)
THEOREM WritersAreSafe == SourceSpec => []SourceInv
<1>1. SourceInit => SourceInv
  BY SourceStarts
<1>2. SourceInv /\ [SourceNext]_sourceVars => SourceInv'
  BY SourceNextKeeps
<1> QED  BY <1>1, <1>2, PTL DEF SourceSpec

(* A write replaces only what it was computed from, and what it replaces is the
   newest undo version, whatever the writers, outsiders, crashes and prunes
   (edit.rs, write_source). *)
THEOREM WritesAreSafe == SourceSpec => WritesLoseNothing
<1>1. ASSUME SourceInv, NEW w \in Writers, Renames(w)
      PROVE  disk = wr[w].base \/ wr[w].outrun
  BY <1>1 DEF SourceInv, CheckHolds, Renames, Saved, At, Holding
<1>2. ASSUME SourceInv, NEW w \in Writers, Renames(w)
      PROVE  \/ wr[w].base = NoFile
             \/ \E i \in undo : snaps[i] = wr[w].base /\ \A j \in undo : j <= i
  BY <1>2 DEF SourceInv, SavedIsNewest, Renames, Saved
<1>3. SourceInv => [\A w \in Writers : Renames(w) => disk = wr[w].base \/ wr[w].outrun]_sourceVars
  BY <1>1
<1>4. SourceInv => [\A w \in Writers : Renames(w) =>
                      \/ wr[w].base = NoFile
                      \/ \E i \in undo : snaps[i] = wr[w].base /\ \A j \in undo : j <= i]_sourceVars
  BY <1>2
<1> QED  BY <1>3, <1>4, WritersAreSafe, PTL DEF WritesLoseNothing, NoUpdateIsLost, ReplacedIsKept

-----------------------------------------------------------------------------
(* The editor *)

\* The tab's request in the engine replaces what the save was shown, with its text.
TabOK ==
  /\ wr[Tab].step # "idle" => wr[Tab].base \in shown
  /\ save.sent =>
       /\ wr[Tab].step # "idle" => wr[Tab].next = save.text
       /\ wr[Tab].step = "idle" /\ wr[Tab].answer \in {"ok", "unchanged"} =>
            wr[Tab].current = save.text

\* A save not sent yet expects what its buffer is based on, or what the user agreed to.
SaveOK == save # NoSave /\ ~ save.sent => save.expected \in save.basis
DocOK == doc.revision \in {doc.saved, agreed, NoFile}

\* What was typed last is not on disk and in the buffer, and it is not there to be
\* dropped.
UnsavedOK ==
  /\ unsaved # Nothing => unsaved = doc.buffer /\ doc.buffer # doc.saved
  /\ (\E i \in Slots : loads[i].discard) => unsaved = Nothing

EditorInv ==
  /\ SourceInv /\ EditorTypeOK
  /\ TabOK /\ SaveOK /\ DocOK /\ UnsavedOK

\* What reconciling a document changes is whether there is an issue.
LEMMA ReconciledIs ==
  ASSUME NEW d \in Docs, NEW r, NEW busy
  PROVE  /\ Reconciled(d, r, busy) \in Docs
         /\ Reconciled(d, r, busy).buffer = d.buffer
         /\ Reconciled(d, r, busy).saved = d.saved
         /\ Reconciled(d, r, busy).revision = d.revision
<1>1. ASSUME NEW i \in Issues
      PROVE  LET n == [d EXCEPT !.issue = i]
             IN n \in Docs /\ n.buffer = d.buffer /\ n.saved = d.saved /\ n.revision = d.revision
  BY DEF Docs
<1>2. {"none", "changed", "deleted"} \subseteq Issues /\ d.issue \in Issues
  BY DEF Issues, Docs
<1>3. [d EXCEPT !.issue = IF @ \in {"changed", "deleted"} THEN "none" ELSE @]
       = [d EXCEPT !.issue = IF d.issue \in {"changed", "deleted"} THEN "none" ELSE d.issue]
  BY DEF Docs
<1>. QED BY <1>1, <1>2, <1>3 DEF Reconciled

\* The steps below the tab: what its own request in the engine becomes.
TabGoesOn ==
  \/ /\ wr'[Tab].base = wr[Tab].base /\ wr'[Tab].next = wr[Tab].next
     /\ wr'[Tab].answer = wr[Tab].answer /\ wr'[Tab].current = wr[Tab].current
     /\ wr'[Tab].step = "idle" <=> wr[Tab].step = "idle"
  \/ /\ wr[Tab].step # "idle" /\ wr'[Tab].step = "idle"
     /\ wr'[Tab].answer \in {"ok", "unchanged"} => wr'[Tab].current = wr[Tab].next

\* What holds of the tab's request goes on holding.
LEMMA TabKeeps ==
  ASSUME TabOK, TabGoesOn, shown' = shown,
         \/ save' = save
         \/ ~ save'.sent
  PROVE  TabOK'
BY DEF TabOK, TabGoesOn

\* A step of the writers, with the tab's among them.
LEMMA WritersGoOn ==
  ASSUME SourceInv, wr' \in [Writers -> Requests],
         \/ \E w \in Writers : TakeLock(w) \/ Recheck(w) \/ OpenSnapshot(w) \/ SaveSnapshot(w)
                              \/ Rename(w) \/ Fail(w) \/ Crash(w)
         \/ \E w \in Writers \ {Tab}, new \in Texts : Begin(w, disk, new)
         \/ Prune
         \/ \E text \in Contents : Outside(text)
         \/ wr' = wr
  PROVE  TabGoesOn
<1>1. /\ Tab \in Writers /\ wr \in [Writers -> Requests] /\ wr[Tab] \in Requests
      /\ wr'[Tab] \in Requests
  BY TabAssumption DEF SourceInv, SourceTypeOK
<1>2. ASSUME NEW w \in Writers, w # Tab, NEW r, wr' = [wr EXCEPT ![w] = r] PROVE TabGoesOn
  <2>1. wr'[Tab] = wr[Tab]
    BY <1>1, <1>2
  <2>. QED BY <2>1 DEF TabGoesOn
<1>3. ASSUME wr[Tab].step # "idle", NEW s \in Steps \ {"idle"}, wr' = [wr EXCEPT ![Tab].step = s]
      PROVE  TabGoesOn
  <2>1. wr'[Tab] = [wr[Tab] EXCEPT !.step = s]
    BY <1>1, <1>3
  <2>. QED BY <1>1, <1>3, <2>1 DEF TabGoesOn, Requests
<1>4. ASSUME wr[Tab].step # "idle", NEW a \in {"ok", "conflict", "error", "none"}, NEW c,
             wr' = [wr EXCEPT ![Tab] = Answered(a, c)], a = "ok" => c = wr[Tab].next
      PROVE  TabGoesOn
  <2>1. wr'[Tab] = Answered(a, c)
    BY <1>1, <1>4
  <2>2. Answered(a, c).step = "idle" /\ Answered(a, c).answer = a /\ Answered(a, c).current = c
    BY DEF Answered, Idle
  <2>. QED BY <1>4, <2>1, <2>2 DEF TabGoesOn
<1>5. ASSUME NEW w \in Writers, TakeLock(w) \/ OpenSnapshot(w) \/ SaveSnapshot(w) PROVE TabGoesOn
  <2>1. CASE w # Tab
    <3>1. \E s : wr' = [wr EXCEPT ![w].step = s]
      BY <1>5 DEF TakeLock, OpenSnapshot, SaveSnapshot, Go
    <3>. PICK s : wr' = [wr EXCEPT ![w].step = s]
      BY <3>1
    <3>2. wr'[Tab] = wr[Tab]
      BY <1>1, <2>1
    <3>. QED BY <3>2 DEF TabGoesOn
  <2>2. CASE w = Tab
    <3>1. \E s \in Steps \ {"idle"} : wr' = [wr EXCEPT ![Tab].step = s] /\ wr[Tab].step # "idle"
      BY <1>5, <2>2 DEF TakeLock, OpenSnapshot, SaveSnapshot, Go, At, Steps, Holding
    <3>. QED BY <1>3, <3>1
  <2>. QED BY <2>1, <2>2
<1>6. ASSUME NEW w \in Writers, Rename(w) \/ Fail(w) PROVE TabGoesOn
  <2>1. /\ wr[w].step # "idle"
        /\ \E a \in {"ok", "error"} : \E c :
             wr' = [wr EXCEPT ![w] = Answered(a, c)] /\ (a = "ok" => c = wr[w].next)
    BY <1>6 DEF Rename, Fail, Saved, At, Answer
  <2>. QED BY <1>2, <1>4, <2>1
<1>7. ASSUME NEW w \in Writers, Recheck(w) PROVE TabGoesOn
  <2>1. wr[w].step = "locked"
    BY <1>7 DEF Recheck, At
  <2>2. CASE wr' = [wr EXCEPT ![w] = Answered("conflict", disk)]
    BY <1>2, <1>4, <2>1, <2>2
  <2>3. CASE wr' = [wr EXCEPT ![w].step = "checked", ![w].outrun = FALSE]
    <3>1. CASE w # Tab
      <4>1. wr'[Tab] = wr[Tab]
        BY <1>1, <2>3, <3>1
      <4>. QED BY <4>1 DEF TabGoesOn
    <3>2. CASE w = Tab
      <4>1. wr'[Tab] = [wr[Tab] EXCEPT !.step = "checked", !.outrun = FALSE]
        BY <1>1, <2>3, <3>2
      <4>. QED BY <1>1, <2>1, <3>2, <4>1 DEF TabGoesOn, Requests
    <3>. QED BY <3>1, <3>2
  <2>. QED BY <1>7, <2>2, <2>3 DEF Recheck, Answer
<1>8. ASSUME NEW w \in Writers \ {Tab}, NEW new \in Texts, Begin(w, disk, new) PROVE TabGoesOn
  <2>1. \E r : wr' = [wr EXCEPT ![w] = r]
    BY <1>8 DEF Begin, Answer
  <2>. QED BY <1>2, <2>1
<1>9. CASE Prune
  <2>1. wr'[Tab] = wr[Tab] \/ (At(Tab, "opened") /\ wr'[Tab] = [wr[Tab] EXCEPT !.step = "swept"])
    BY <1>1, <1>9 DEF Prune
  <2>. QED BY <1>1, <2>1 DEF TabGoesOn, At, Requests
<1>10. ASSUME NEW text \in Contents, Outside(text) PROVE TabGoesOn
  <2>1. wr'[Tab] = [wr[Tab] EXCEPT !.outrun = wr[Tab].step \in Holding]
    BY <1>1, <1>10 DEF Outside
  <2>2. PICK b : b = (wr[Tab].step \in Holding)
    OBVIOUS
  <2>3. wr'[Tab] = [wr[Tab] EXCEPT !.outrun = b]
    BY <2>1, <2>2
  <2>. QED BY <1>1, <2>3 DEF TabGoesOn, Requests
<1>11. ASSUME NEW w \in Writers, Crash(w) PROVE TabGoesOn
  <2>1. wr[w].step # "idle" /\ wr' = [wr EXCEPT ![w] = Idle]
    BY <1>11 DEF Crash, At
  <2>2. CASE w = Tab
    BY <1>1, <2>1, <2>2 DEF Idle, TabGoesOn
  <2>. QED BY <1>2, <2>1, <2>2
<1>12. CASE wr' = wr
  BY <1>12 DEF TabGoesOn
<1>. QED BY <1>5, <1>6, <1>7, <1>8, <1>9, <1>10, <1>11, <1>12

\* What is said of the tab and of what is under way to it, the source apart.
TabTypeOK ==
  /\ doc \in Docs
  /\ told \in Contents
  /\ save \in [text : Texts, expected : Contents, basis : SUBSET Contents, sent : BOOLEAN]
              \cup {NoSave}
  /\ loads \in [Slots -> [discard : BOOLEAN, text : Texts \cup {Nothing, Pending}]]
  /\ asks \in [{"verify", "overwrite"} -> Contents \cup {Nothing, Pending}]
  /\ events \in Seq(Contents)
  /\ sending \in [{"save", "watch"} -> Contents \cup {Nothing}]
  /\ unsaved \in Texts \cup {Nothing} /\ agreed \in Contents

LEMMA EditorParts ==
  /\ EditorInv <=> SourceInv /\ TabTypeOK /\ TabOK /\ SaveOK /\ DocOK /\ UnsavedOK
  /\ EditorInv' <=> SourceInv' /\ TabTypeOK' /\ TabOK' /\ SaveOK' /\ DocOK' /\ UnsavedOK'
BY DEF EditorInv, EditorTypeOK, TabTypeOK, SourceInv

\* A step below the tab.
LEMMA BelowKeeps ==
  ASSUME EditorInv, SourceInv', TabGoesOn, UNCHANGED <<doc, save, loads, unsaved, agreed, shown>>,
         TabTypeOK'
  PROVE  EditorInv'
<1>1. TabOK' /\ SaveOK' /\ DocOK' /\ UnsavedOK'
  BY TabKeeps DEF EditorInv, SaveOK, DocOK, UnsavedOK
<1>. QED BY <1>1, EditorParts

\* A step that tells the tab something, or has it ask.
LEMMA TabMoves ==
  ASSUME EditorInv, SourceInv', wr' = wr, shown' = shown,
         save' = save \/ ~ save'.sent, TabTypeOK', SaveOK', DocOK', UnsavedOK'
  PROVE  EditorInv'
<1>1. TabGoesOn
  BY DEF TabGoesOn
<1>2. TabOK'
  BY <1>1, TabKeeps DEF EditorInv
<1>. QED BY <1>2, EditorParts

LEMMA TypeKeeps ==
  ASSUME EditorInv, SourceInv', NEW text \in Texts, Type(text)
  PROVE  EditorInv'
<1>1. /\ doc' = [doc EXCEPT !.buffer = text] /\ doc \in Docs
      /\ TabTypeOK /\ DocOK /\ UnsavedOK /\ SaveOK
      /\ UNCHANGED <<wr, told, save, loads, asks, events, sending, agreed, shown>>
  BY EditorParts DEF Type, TabTypeOK, sourceVars, serverVars
<1>2. /\ doc' \in Docs /\ doc'.buffer = text
      /\ doc'.saved = doc.saved /\ doc'.revision = doc.revision
  BY <1>1 DEF Docs
<1>3. unsaved' = IF text = doc.saved \/ \E i \in Slots : loads[i].discard THEN Nothing ELSE text
  BY DEF Type
<1>4. TabTypeOK'
  BY <1>1, <1>2, <1>3 DEF TabTypeOK
<1>5. UnsavedOK'
  BY <1>1, <1>2, <1>3 DEF UnsavedOK
<1>6. DocOK' /\ SaveOK'
  BY <1>1, <1>2 DEF DocOK, SaveOK
<1>. QED BY <1>1, <1>4, <1>5, <1>6, TabMoves

\* A save of the document d expects what is in its basis.
LEMMA SavingIs ==
  ASSUME NEW d \in Docs, NEW consent \in Contents, d.revision \in {d.saved, consent, NoFile}
  PROVE  LET n == Saving(d, consent)
         IN /\ n \in [text : Texts, expected : Contents, basis : SUBSET Contents, sent : BOOLEAN]
            /\ ~ n.sent /\ n.expected \in n.basis
<1>1. /\ d.buffer \in Texts /\ d.saved \in Contents /\ d.revision \in Contents
      /\ NoFile \in Contents
  BY DEF Docs, Contents
<1>. QED BY <1>1 DEF Saving, Expected

LEMMA SaveKeeps ==
  ASSUME EditorInv, SourceInv', Save
  PROVE  EditorInv'
<1>1. /\ save' = Saving(doc, agreed) /\ TabTypeOK /\ DocOK /\ UnsavedOK
      /\ UNCHANGED <<wr, doc, told, loads, asks, events, sending, unsaved, agreed, shown>>
  BY EditorParts DEF Save, TabTypeOK, sourceVars, serverVars, ghosts
<1>2. /\ save' \in [text : Texts, expected : Contents, basis : SUBSET Contents, sent : BOOLEAN]
      /\ ~ save'.sent /\ save'.expected \in save'.basis
  BY <1>1, SavingIs DEF TabTypeOK, DocOK
<1>3. TabTypeOK' /\ SaveOK' /\ DocOK' /\ UnsavedOK'
  BY <1>1, <1>2 DEF TabTypeOK, SaveOK, DocOK, UnsavedOK
<1>. QED BY <1>1, <1>2, <1>3, TabMoves

LEMMA SaveSentKeeps ==
  ASSUME EditorInv, SourceInv', SaveSent
  PROVE  EditorInv'
<1>1. /\ save # NoSave /\ ~ save.sent /\ Begin(Tab, save.expected, save.text)
      /\ save' = [save EXCEPT !.sent = TRUE] /\ shown' = save.basis
      /\ UNCHANGED <<doc, told, loads, asks, events, sending, unsaved, agreed>>
  BY DEF SaveSent, serverVars
<1>2. /\ SourceInv /\ TabTypeOK /\ TabOK /\ SaveOK /\ DocOK /\ UnsavedOK
      /\ Tab \in Writers /\ wr \in [Writers -> Requests]
  BY EditorParts, TabAssumption DEF SourceInv, SourceTypeOK
<1>3. save \in [text : Texts, expected : Contents, basis : SUBSET Contents, sent : BOOLEAN]
  BY <1>1, <1>2 DEF TabTypeOK
<1>4. /\ save' \in [text : Texts, expected : Contents, basis : SUBSET Contents, sent : BOOLEAN]
      /\ save'.sent /\ save'.text = save.text
  BY <1>1, <1>3
<1>5. TabOK'
  <2>1. save.expected \in shown'
    BY <1>1, <1>2 DEF SaveOK
  <2>2. CASE save.expected # disk
    <3>1. wr'[Tab] = Answered("conflict", disk)
      BY <1>1, <1>2, <2>2 DEF Begin, Answer
    <3>. QED BY <3>1, <1>4 DEF TabOK, Answered, Idle
  <2>3. CASE save.expected = disk /\ save.text = disk
    <3>1. wr'[Tab] = Answered("unchanged", disk)
      BY <1>1, <1>2, <2>3 DEF Begin, Answer
    <3>. QED BY <3>1, <1>4, <2>3 DEF TabOK, Answered, Idle
  <2>4. CASE save.expected = disk /\ save.text # disk /\ save.text \notin Valid
    <3>1. wr'[Tab] = Answered("invalid", disk)
      BY <1>1, <1>2, <2>4 DEF Begin, Answer
    <3>. QED BY <3>1, <1>4 DEF TabOK, Answered, Idle
  <2>5. CASE save.expected = disk /\ save.text # disk /\ save.text \in Valid
    <3>1. wr'[Tab] = [Idle EXCEPT !.step = "validated", !.base = disk, !.next = save.text]
      BY <1>1, <1>2, <2>5 DEF Begin
    <3>. QED BY <3>1, <1>4, <2>1, <2>5 DEF TabOK, Idle
  <2>. QED BY <2>2, <2>3, <2>4, <2>5
<1>6. TabTypeOK' /\ SaveOK' /\ DocOK' /\ UnsavedOK'
  BY <1>1, <1>2, <1>4 DEF TabTypeOK, SaveOK, DocOK, UnsavedOK
<1>. QED BY <1>5, <1>6, EditorParts

\* What hearing of a revision does.
LEMMA HearIs ==
  ASSUME NEW d \in Docs, NEW r \in Contents, NEW busy, Hear(d, r, busy), TabTypeOK
  PROVE  /\ told' \in Contents /\ doc' \in Docs
         /\ doc'.buffer = d.buffer /\ doc'.saved = d.saved /\ doc'.revision = d.revision
         /\ loads' \in [Slots -> [discard : BOOLEAN, text : Texts \cup {Nothing, Pending}]]
         /\ \A i \in Slots : loads'[i].discard => loads[i].discard
<1>1. /\ told' = r /\ doc' = Reconciled(d, r, busy) /\ (StartLoad(FALSE) \/ UNCHANGED loads)
      /\ loads \in [Slots -> [discard : BOOLEAN, text : Texts \cup {Nothing, Pending}]]
  BY DEF Hear, TabTypeOK
<1>2. CASE StartLoad(FALSE)
  <2>. DEFINE new == [discard |-> FALSE, text |-> Pending]
  <2>1. PICK i \in Slots : loads' = [loads EXCEPT ![i] = new]
    BY <1>2 DEF StartLoad
  <2>2. new \in [discard : BOOLEAN, text : Texts \cup {Nothing, Pending}] /\ ~ new.discard
    OBVIOUS
  <2>. HIDE DEF new
  <2>3. /\ loads' \in [Slots -> [discard : BOOLEAN, text : Texts \cup {Nothing, Pending}]]
        /\ \A k \in Slots : loads'[k] = loads[k] \/ loads'[k] = new
    BY <1>1, <2>1, <2>2
  <2>. QED BY <1>1, <2>2, <2>3, ReconciledIs
<1>3. CASE UNCHANGED loads
  BY <1>1, <1>3, ReconciledIs
<1>. QED BY <1>1, <1>2, <1>3

LEMMA SaveAnsweredKeeps ==
  ASSUME EditorInv, SourceInv', SaveAnswered
  PROVE  EditorInv'
<1>1. /\ save.sent /\ At(Tab, "idle") /\ (SaveOk \/ SaveConflict \/ SaveInvalid \/ SaveFailed)
      /\ save' = NoSave /\ wr' = [wr EXCEPT ![Tab] = Idle] /\ shown' = {}
      /\ UNCHANGED <<asks, events, sending>>
  BY DEF SaveAnswered, serverVars
<1>2. /\ SourceInv /\ TabTypeOK /\ TabOK /\ SaveOK /\ DocOK /\ UnsavedOK
      /\ Tab \in Writers /\ wr \in [Writers -> Requests]
  BY EditorParts, TabAssumption DEF SourceInv, SourceTypeOK
<1>3. /\ wr'[Tab] = Idle /\ Idle.step = "idle" /\ wr[Tab].current \in Contents
      /\ ~ NoSave.sent /\ save # NoSave
  BY <1>1, <1>2 DEF Idle, NoSave, Requests
<1>4. TabOK' /\ SaveOK'
  BY <1>1, <1>3 DEF TabOK, SaveOK, Idle
<1>5. ASSUME SaveOk PROVE TabTypeOK' /\ DocOK' /\ UnsavedOK'
  <2>1. /\ save \in [text : Texts, expected : Contents, basis : SUBSET Contents, sent : BOOLEAN]
        /\ told \in Contents /\ doc \in Docs
    BY <1>3, <1>2 DEF TabTypeOK
  <2>2. wr[Tab].current = save.text
    BY <1>1, <1>2, <1>5 DEF SaveOk, TabOK, At
  <2>. DEFINE d == [doc EXCEPT !.revision = wr[Tab].current, !.saved = save.text, !.issue = "none"]
              r == IF told = save.expected THEN wr[Tab].current ELSE told
  <2>3. /\ d \in Docs /\ r \in Contents
        /\ d.revision = save.text /\ d.saved = save.text /\ d.buffer = doc.buffer
    BY <1>3, <2>1, <2>2 DEF Docs, Issues
  <2>4. /\ Hear(d, r, FALSE) /\ unsaved' = (IF unsaved = save.text THEN Nothing ELSE unsaved)
        /\ agreed' = NoFile
    BY <1>5 DEF SaveOk
  <2>. HIDE DEF d, r
  <2>5. /\ told' \in Contents /\ doc' \in Docs
        /\ doc'.buffer = doc.buffer /\ doc'.saved = save.text /\ doc'.revision = save.text
        /\ loads' \in [Slots -> [discard : BOOLEAN, text : Texts \cup {Nothing, Pending}]]
        /\ \A i \in Slots : loads'[i].discard => loads[i].discard
    BY <1>2, <2>3, <2>4, HearIs
  <2>6. NoFile \in Contents /\ agreed' = NoFile
    BY <2>4 DEF Contents
  <2>7. TabTypeOK'
    BY <1>1, <1>2, <2>4, <2>5, <2>6 DEF TabTypeOK
  <2>8. UnsavedOK'
    BY <1>2, <2>4, <2>5 DEF UnsavedOK
  <2>. QED BY <2>5, <2>7, <2>8 DEF DocOK
<1>6. ASSUME SaveConflict \/ SaveInvalid \/ SaveFailed PROVE TabTypeOK' /\ DocOK' /\ UnsavedOK'
  <2>1. /\ UNCHANGED <<loads, unsaved, agreed>> /\ (told' = told \/ told' = wr[Tab].current)
        /\ doc' = doc \/ \E i \in Issues : doc' = [doc EXCEPT !.issue = i]
    BY <1>6 DEF SaveConflict, SaveInvalid, SaveFailed, Issues
  <2>2. /\ doc' \in Docs /\ doc'.buffer = doc.buffer /\ doc'.saved = doc.saved
        /\ doc'.revision = doc.revision
    BY <1>2, <2>1 DEF TabTypeOK, Docs
  <2>3. TabTypeOK'
    BY <1>1, <1>2, <1>3, <2>1, <2>2 DEF TabTypeOK
  <2>. QED BY <1>2, <2>1, <2>2, <2>3 DEF DocOK, UnsavedOK
<1>. QED BY <1>1, <1>4, <1>5, <1>6, EditorParts

LEMMA SaveCutKeeps ==
  ASSUME EditorInv, SourceInv', SaveCut
  PROVE  EditorInv'
<1>1. /\ save' = NoSave /\ TabTypeOK /\ DocOK /\ UnsavedOK /\ ~ NoSave.sent
      /\ UNCHANGED <<wr, doc, told, loads, asks, events, sending, unsaved, agreed, shown>>
  BY EditorParts DEF SaveCut, TabTypeOK, sourceVars, serverVars, ghosts, NoSave
<1>2. TabTypeOK' /\ SaveOK' /\ DocOK' /\ UnsavedOK'
  BY <1>1 DEF TabTypeOK, SaveOK, DocOK, UnsavedOK
<1>. QED BY <1>1, <1>2, TabMoves

LEMMA ReloadKeeps ==
  ASSUME EditorInv, SourceInv', Reload
  PROVE  EditorInv'
<1>. DEFINE new == [discard |-> TRUE, text |-> Pending]
<1>1. /\ TabTypeOK /\ DocOK /\ SaveOK /\ unsaved' = Nothing
      /\ \E i \in Slots : loads' = [loads EXCEPT ![i] = new]
      /\ UNCHANGED <<wr, doc, told, save, asks, events, sending, agreed, shown>>
  BY EditorParts DEF Reload, StartLoad, sourceVars, serverVars
<1>2. new \in [discard : BOOLEAN, text : Texts \cup {Nothing, Pending}]
  OBVIOUS
<1>. HIDE DEF new
<1>3. loads' \in [Slots -> [discard : BOOLEAN, text : Texts \cup {Nothing, Pending}]]
  BY <1>1, <1>2 DEF TabTypeOK
<1>4. TabTypeOK' /\ SaveOK' /\ DocOK' /\ UnsavedOK'
  BY <1>1, <1>3 DEF TabTypeOK, SaveOK, DocOK, UnsavedOK
<1>. QED BY <1>1, <1>4, TabMoves

LEMMA OverwriteAnsweredKeeps ==
  ASSUME EditorInv, SourceInv', OverwriteAnswered
  PROVE  EditorInv'
<1>. DEFINE current == asks["overwrite"]
            d == [doc EXCEPT !.revision = current, !.issue = "none"]
<1>1. /\ current \in Contents /\ told' = current /\ doc' = d /\ agreed' = current
      /\ save' = IF save = NoSave THEN Saving(d, current) ELSE save
      /\ asks' = [asks EXCEPT !["overwrite"] = Nothing]
      /\ UNCHANGED <<wr, loads, events, sending, unsaved, shown>>
  BY DEF OverwriteAnswered, sourceVars, serverVars
<1>2. TabTypeOK /\ SaveOK /\ UnsavedOK
  BY EditorParts
<1>3. /\ d \in Docs /\ d.revision = current /\ d.buffer = doc.buffer /\ d.saved = doc.saved
  BY <1>1, <1>2 DEF TabTypeOK, Docs, Issues
<1>. HIDE DEF d, current
<1>4. LET n == Saving(d, current)
      IN /\ n \in [text : Texts, expected : Contents, basis : SUBSET Contents, sent : BOOLEAN]
         /\ ~ n.sent /\ n.expected \in n.basis
  BY <1>1, <1>3, SavingIs
<1>5. /\ save' \in [text : Texts, expected : Contents, basis : SUBSET Contents, sent : BOOLEAN]
                    \cup {NoSave}
      /\ save' = save \/ (~ save'.sent /\ save'.expected \in save'.basis)
  BY <1>1, <1>2, <1>4 DEF TabTypeOK
<1>6. asks' \in [{"verify", "overwrite"} -> Contents \cup {Nothing, Pending}]
  BY <1>1, <1>2 DEF TabTypeOK
<1>7. TabTypeOK'
  BY <1>1, <1>2, <1>3, <1>5, <1>6 DEF TabTypeOK
<1>8. SaveOK'
  BY <1>2, <1>5 DEF SaveOK
<1>9. DocOK' /\ UnsavedOK'
  BY <1>1, <1>2, <1>3 DEF DocOK, UnsavedOK
<1>. QED BY <1>1, <1>5, <1>7, <1>8, <1>9, TabMoves

\* The tab hears of a revision, from an event or from an answer.
LEMMA DiskChangedKeeps ==
  ASSUME EditorInv, SourceInv', NEW r \in Contents, DiskChanged(r),
         UNCHANGED <<wr, save, sending, unsaved, agreed, shown>>,
         asks' \in [{"verify", "overwrite"} -> Contents \cup {Nothing, Pending}],
         events' \in Seq(Contents)
  PROVE  EditorInv'
<1>1. TabTypeOK /\ SaveOK /\ DocOK /\ UnsavedOK
  BY EditorParts
<1>2. doc \in Docs
  BY <1>1 DEF TabTypeOK
<1>3. Hear(doc, r, save # NoSave)
  BY DEF DiskChanged
<1>4. /\ told' \in Contents /\ doc' \in Docs
      /\ doc'.buffer = doc.buffer /\ doc'.saved = doc.saved /\ doc'.revision = doc.revision
      /\ loads' \in [Slots -> [discard : BOOLEAN, text : Texts \cup {Nothing, Pending}]]
      /\ \A i \in Slots : loads'[i].discard => loads[i].discard
  BY <1>1, <1>2, <1>3, HearIs
<1>5. TabTypeOK'
  BY <1>1, <1>4 DEF TabTypeOK
<1>6. SaveOK' /\ DocOK' /\ UnsavedOK'
  BY <1>1, <1>4 DEF SaveOK, DocOK, UnsavedOK
<1>. QED BY <1>5, <1>6, TabMoves

LEMMA HeardKeeps ==
  ASSUME EditorInv, SourceInv', VerifyAnswered \/ FileEvent
  PROVE  EditorInv'
<1>1. TabTypeOK
  BY EditorParts
<1>2. CASE VerifyAnswered
  <2>1. /\ asks["verify"] \in Contents /\ DiskChanged(asks["verify"])
        /\ asks' = [asks EXCEPT !["verify"] = Nothing]
        /\ UNCHANGED <<wr, save, events, sending, unsaved, agreed, shown>>
    BY <1>2 DEF VerifyAnswered, sourceVars, serverVars, ghosts
  <2>2. /\ asks' \in [{"verify", "overwrite"} -> Contents \cup {Nothing, Pending}]
        /\ events' \in Seq(Contents)
    BY <1>1, <2>1 DEF TabTypeOK
  <2>. QED BY <2>1, <2>2, DiskChangedKeeps
<1>3. CASE FileEvent
  <2>1. /\ events # <<>> /\ DiskChanged(Head(events)) /\ events' = Tail(events)
        /\ UNCHANGED <<wr, save, asks, sending, unsaved, agreed, shown>>
    BY <1>3 DEF FileEvent, sourceVars, serverVars, ghosts
  <2>2. Head(events) \in Contents /\ events' \in Seq(Contents)
    BY <1>1, <2>1 DEF TabTypeOK
  <2>. QED BY <1>1, <2>1, <2>2, DiskChangedKeeps DEF TabTypeOK
<1>. QED BY <1>2, <1>3

\* What the tab asked for is read, or a question goes out.
LEMMA AsksKeep ==
  ASSUME EditorInv, SourceInv', Overwrite \/ Snapshot \/ \E k \in DOMAIN asks : AskServed(k)
  PROVE  EditorInv'
<1>1. TabTypeOK /\ SaveOK /\ DocOK /\ UnsavedOK /\ disk \in Contents
  BY EditorParts DEF SourceInv, SourceTypeOK
<1>2. /\ UNCHANGED <<wr, doc, told, save, loads, events, sending, unsaved, agreed, shown>>
      /\ \E k, v : asks' = [asks EXCEPT ![k] = v] /\ v \in Contents \cup {Nothing, Pending}
  BY <1>1 DEF Overwrite, Snapshot, AskServed, sourceVars, serverVars, ghosts
<1>3. asks' \in [{"verify", "overwrite"} -> Contents \cup {Nothing, Pending}]
  BY <1>1, <1>2 DEF TabTypeOK
<1>4. TabTypeOK' /\ SaveOK' /\ DocOK' /\ UnsavedOK'
  BY <1>1, <1>2, <1>3 DEF TabTypeOK, SaveOK, DocOK, UnsavedOK
<1>. QED BY <1>2, <1>4, TabMoves

LEMMA LoadServedKeeps ==
  ASSUME EditorInv, SourceInv', NEW i \in Slots, LoadServed(i)
  PROVE  EditorInv'
<1>1. TabTypeOK /\ SaveOK /\ DocOK /\ UnsavedOK /\ disk \in Contents
  BY EditorParts DEF SourceInv, SourceTypeOK
<1>2. /\ UNCHANGED <<wr, doc, told, save, asks, events, sending, unsaved, agreed, shown>>
      /\ loads' = [loads EXCEPT ![i] = IF disk = NoFile THEN NoLoad
                                       ELSE [loads[i] EXCEPT !.text = disk]]
  BY DEF LoadServed, sourceVars, serverVars, ghosts
<1>. DEFINE new == IF disk = NoFile THEN NoLoad ELSE [loads[i] EXCEPT !.text = disk]
<1>3. /\ new \in [discard : BOOLEAN, text : Texts \cup {Nothing, Pending}]
      /\ new.discard => loads[i].discard
  BY <1>1 DEF TabTypeOK, NoLoad, Contents
<1>4. loads' = [loads EXCEPT ![i] = new]
  BY <1>2
<1>. HIDE DEF new
<1>5. /\ loads' \in [Slots -> [discard : BOOLEAN, text : Texts \cup {Nothing, Pending}]]
      /\ \A k \in Slots : loads'[k].discard => loads[k].discard
  BY <1>1, <1>3, <1>4 DEF TabTypeOK
<1>6. TabTypeOK' /\ SaveOK' /\ DocOK' /\ UnsavedOK'
  BY <1>1, <1>2, <1>5 DEF TabTypeOK, SaveOK, DocOK, UnsavedOK
<1>. QED BY <1>2, <1>6, TabMoves

\* A document loaded takes the place of the buffer only when nothing was typed into it
\* that is not on disk, or the user gave that up.
LEMMA LoadAnsweredKeeps ==
  ASSUME EditorInv, SourceInv', NEW i \in Slots, LoadAnswered(i)
  PROVE  EditorInv'
<1>1. TabTypeOK /\ SaveOK /\ DocOK /\ UnsavedOK
  BY EditorParts
<1>2. /\ UNCHANGED <<wr, save, asks, events, sending, unsaved, agreed, shown>>
      /\ loads[i].text \in Texts /\ loads' = [loads EXCEPT ![i] = NoLoad]
  BY DEF LoadAnswered, sourceVars, serverVars, ghosts
<1>3. /\ loads' \in [Slots -> [discard : BOOLEAN, text : Texts \cup {Nothing, Pending}]]
      /\ \A k \in Slots : loads'[k].discard => loads[k].discard
  <2>1. NoLoad \in [discard : BOOLEAN, text : Texts \cup {Nothing, Pending}] /\ ~ NoLoad.discard
    BY DEF NoLoad
  <2>. QED BY <1>1, <1>2, <2>1 DEF TabTypeOK
<1>4. CASE KeepsEdits(loads[i].discard)
  <2>1. doc' = [doc EXCEPT !.issue = "changed"] /\ told' = told
    BY <1>4 DEF LoadAnswered
  <2>2. /\ doc' \in Docs /\ doc'.buffer = doc.buffer /\ doc'.saved = doc.saved
        /\ doc'.revision = doc.revision
    BY <1>1, <2>1 DEF TabTypeOK, Docs, Issues
  <2>3. TabTypeOK' /\ SaveOK' /\ DocOK' /\ UnsavedOK'
    BY <1>1, <1>2, <1>3, <2>1, <2>2 DEF TabTypeOK, SaveOK, DocOK, UnsavedOK
  <2>. QED BY <1>2, <2>3, TabMoves
<1>5. CASE ~ KeepsEdits(loads[i].discard)
  <2>1. /\ doc' = [buffer |-> loads[i].text, saved |-> loads[i].text,
                   revision |-> loads[i].text, issue |-> "none"]
        /\ told' = loads[i].text
    BY <1>5 DEF LoadAnswered
  <2>2. doc' \in Docs /\ told' \in Contents /\ doc'.revision = doc'.saved
    BY <1>2, <2>1 DEF Docs, Contents, Issues
  <2>3. unsaved = Nothing
    BY <1>1, <1>5 DEF KeepsEdits, Dirty, UnsavedOK
  <2>4. TabTypeOK' /\ SaveOK' /\ DocOK' /\ UnsavedOK'
    BY <1>1, <1>2, <1>3, <2>2, <2>3 DEF TabTypeOK, SaveOK, DocOK, UnsavedOK
  <2>. QED BY <1>2, <2>4, TabMoves
<1>. QED BY <1>4, <1>5

\* What goes on below the tab and on the way to it.
LEMMA ServerKeeps ==
  ASSUME EditorInv, SourceInv',
         \/ CutStream \/ RenameOfTab \/ TabWriter \/ Scan \/ Outsider \/ Faults
         \/ \E by \in DOMAIN sending : Published(by)
         \/ \E w \in Writers \ {Tab} : OtherWriter(w)
  PROVE  EditorInv'
<1>1. /\ TabTypeOK /\ SourceInv /\ Tab \in Writers /\ wr' \in [Writers -> Requests]
      /\ disk \in Contents
  BY EditorParts, TabAssumption DEF SourceInv, SourceTypeOK
<1>2. UNCHANGED <<doc, told, save, loads, asks, unsaved, agreed, shown>>
  BY DEF CutStream, RenameOfTab, TabWriter, Scan, Outsider, Faults, Published, OtherWriter,
         tabVars, ghosts
<1>3. TabGoesOn
  <2>1. CASE CutStream \/ Scan \/ \E by \in DOMAIN sending : Published(by)
    <3>1. wr' = wr
      BY <2>1 DEF CutStream, Scan, Published, sourceVars
    <3>. QED BY <1>1, <3>1, WritersGoOn
  <2>2. CASE RenameOfTab \/ TabWriter
    <3>1. TakeLock(Tab) \/ Recheck(Tab) \/ OpenSnapshot(Tab) \/ SaveSnapshot(Tab) \/ Rename(Tab)
      BY <2>2 DEF RenameOfTab, TabWriter
    <3>. QED BY <1>1, <3>1, WritersGoOn
  <2>3. CASE Outsider
    BY <1>1, <2>3, WritersGoOn DEF Outsider
  <2>4. CASE Faults
    BY <1>1, <2>4, WritersGoOn DEF Faults
  <2>5. ASSUME NEW w \in Writers \ {Tab}, OtherWriter(w) PROVE TabGoesOn
    BY <1>1, <2>5, WritersGoOn DEF OtherWriter
  <2>. QED BY <2>1, <2>2, <2>3, <2>4, <2>5
<1>4. events' \in Seq(Contents) /\ sending' \in [{"save", "watch"} -> Contents \cup {Nothing}]
  <2>1. CASE \/ CutStream \/ TabWriter \/ Outsider \/ Faults
             \/ \E w \in Writers \ {Tab} : OtherWriter(w)
    <3>1. (events' = events \/ events' = <<>>) /\ sending' = sending
      BY <2>1 DEF CutStream, TabWriter, Outsider, Faults, OtherWriter, serverVars
    <3>2. <<>> \in Seq(Contents)
      OBVIOUS
    <3>3. events \in Seq(Contents) /\ sending \in [{"save", "watch"} -> Contents \cup {Nothing}]
      BY <1>1 DEF TabTypeOK
    <3>4. events' \in Seq(Contents)
      BY <3>1, <3>2, <3>3, Zenon
    <3>. QED BY <3>1, <3>3, <3>4
  <2>2. CASE RenameOfTab \/ Scan
    <3>1. \E by, r : Record(by, r) /\ r \in Contents
      <4>1. CASE RenameOfTab
        <5>1. Record("save", wr[Tab].next) /\ disk' = wr[Tab].next
          BY <4>1 DEF RenameOfTab, Rename
        <5>2. disk' \in Contents
          BY DEF SourceInv, SourceTypeOK
        <5>. QED BY <5>1, <5>2
      <4>2. CASE Scan
        BY <1>1, <4>2 DEF Scan
      <4>. QED BY <2>2, <4>1, <4>2
    <3>2. \E by, r : sending' = [sending EXCEPT ![by] = r] /\ r \in Contents \cup {Nothing}
      BY <3>1 DEF Record
    <3>3. events' = events
      BY <2>2 DEF RenameOfTab, Scan
    <3>. QED BY <1>1, <3>2, <3>3 DEF TabTypeOK
  <2>3. ASSUME NEW by \in DOMAIN sending, Published(by)
        PROVE  /\ events' \in Seq(Contents)
               /\ sending' \in [{"save", "watch"} -> Contents \cup {Nothing}]
    <3>1. /\ sending[by] # Nothing /\ sending' = [sending EXCEPT ![by] = Nothing]
          /\ (events' = events \/ events' = Append(events, sending[by]))
      BY <2>3 DEF Published
    <3>2. events \in Seq(Contents) /\ sending \in [{"save", "watch"} -> Contents \cup {Nothing}]
      BY <1>1 DEF TabTypeOK
    <3>3. sending[by] \in Contents
      BY <3>1, <3>2
    <3>4. Append(events, sending[by]) \in Seq(Contents)
      BY <3>2, <3>3
    <3>5. events' \in Seq(Contents)
      BY <3>1, <3>2, <3>4, Zenon
    <3>. QED BY <3>1, <3>2, <3>5
  <2>. QED BY <2>1, <2>2, <2>3
<1>5. TabTypeOK'
  BY <1>1, <1>2, <1>4 DEF TabTypeOK
<1>. QED BY <1>2, <1>3, <1>5, BelowKeeps

-----------------------------------------------------------------------------
\* The writers' own invariant holds with the tab above them.
LEMMA EditorSourceKeeps ==
  ASSUME EditorInv, EditorNext
  PROVE  SourceInv'
<1>1. /\ SourceInv /\ TabTypeOK /\ Tab \in Writers
  BY EditorParts, TabAssumption
<1>2. ASSUME UNCHANGED sourceVars PROVE SourceInv'
  BY <1>1, <1>2, SourceNextKeeps
<1>3. CASE \/ \E text \in Texts : Type(text)
           \/ Save \/ SaveCut \/ Reload \/ Overwrite \/ OverwriteAnswered \/ VerifyAnswered
           \/ \E k \in DOMAIN asks : AskServed(k)
           \/ \E i \in Slots : LoadServed(i) \/ LoadAnswered(i)
           \/ FileEvent \/ CutStream \/ Snapshot \/ Scan
           \/ \E by \in DOMAIN sending : Published(by)
  <2>1. UNCHANGED sourceVars
    BY <1>3 DEF Type, Save, SaveCut, Reload, Overwrite, OverwriteAnswered, VerifyAnswered,
                AskServed, LoadServed, LoadAnswered, FileEvent, CutStream, Snapshot, Scan, Published
  <2>. QED BY <1>2, <2>1
<1>4. CASE SaveSent
  <2>1. Begin(Tab, save.expected, save.text) /\ save # NoSave
    BY <1>4 DEF SaveSent
  <2>2. save \in [text : Texts, expected : Contents, basis : SUBSET Contents, sent : BOOLEAN]
    BY <1>1, <2>1 DEF TabTypeOK
  <2>3. save.expected \in Contents /\ save.text \in Texts
    BY <2>2
  <2>. QED BY <1>1, <2>1, <2>3, BeginKeeps
<1>5. CASE SaveAnswered
  <2>1. wr' = [wr EXCEPT ![Tab] = Idle] /\ UNCHANGED <<disk, snaps, undo>>
    BY <1>5 DEF SaveAnswered
  <2>2. Idle \in Requests /\ Idle.step = "idle"
    BY DEF Idle, Requests, Steps, Contents, Answers
  <2>. QED BY <1>1, <2>1, <2>2, Ending
<1>6. CASE RenameOfTab \/ TabWriter
  <2>1. WriterStep(Tab)
    BY <1>6 DEF RenameOfTab, TabWriter, WriterStep
  <2>. QED BY <1>1, <2>1, SourceNextKeeps DEF SourceNext
<1>7. ASSUME NEW w \in Writers \ {Tab}, OtherWriter(w) PROVE SourceInv'
  <2>1. WriterStep(w) \/ \E new \in Texts : Begin(w, disk, new)
    BY <1>7 DEF OtherWriter, WriterStep
  <2>2. disk \in Contents
    BY <1>1 DEF SourceInv, SourceTypeOK
  <2>. QED BY <1>1, <2>1, <2>2, SourceNextKeeps DEF SourceNext
<1>8. CASE Outsider \/ Faults
  <2>1. \/ Prune \/ \E w \in Writers : Fail(w) \/ Crash(w)
        \/ \E text \in Contents : Outside(text)
    BY <1>8 DEF Outsider, Faults
  <2>. QED BY <1>1, <2>1, SourceNextKeeps DEF SourceNext, WriterStep
<1>. QED BY <1>3, <1>4, <1>5, <1>6, <1>7, <1>8 DEF EditorNext

LEMMA EditorStarts ==
  ASSUME EditorInit
  PROVE  EditorInv
<1>1. SourceInv /\ disk \in Texts /\ Tab \in Writers
  BY SourceStarts, TabAssumption DEF EditorInit
<1>2. /\ doc = [buffer |-> disk, saved |-> disk, revision |-> disk, issue |-> "none"]
      /\ told = disk /\ save = NoSave /\ loads = [i \in Slots |-> NoLoad]
      /\ asks = [k \in {"verify", "overwrite"} |-> Nothing] /\ events = <<>>
      /\ sending = [p \in {"save", "watch"} |-> Nothing]
      /\ unsaved = Nothing /\ agreed = NoFile /\ shown = {}
      /\ wr = [w \in Writers |-> Idle]
  BY DEF EditorInit, SourceInit
<1>3. /\ doc \in Docs /\ doc.revision = doc.saved /\ told \in Contents /\ agreed \in Contents
  BY <1>1, <1>2 DEF Docs, Issues, Contents
<1>4. TabTypeOK
  BY <1>2, <1>3 DEF TabTypeOK, NoLoad
<1>5. TabOK /\ SaveOK /\ DocOK /\ UnsavedOK
  BY <1>1, <1>2, <1>3 DEF TabOK, SaveOK, DocOK, UnsavedOK, NoSave, Idle
<1>. QED BY <1>1, <1>4, <1>5, EditorParts

LEMMA EditorNextKeeps ==
  ASSUME EditorInv, [EditorNext]_vars
  PROVE  EditorInv'
<1>1. CASE UNCHANGED vars
  <2>1. UNCHANGED <<sourceVars, doc, told, save, loads, asks, events, sending, unsaved, agreed,
                    shown, wr>>
    BY <1>1 DEF vars, tabVars, serverVars, ghosts, sourceVars
  <2>2. SourceInv'
    BY <2>1, EditorParts, SourceNextKeeps
  <2>3. TabTypeOK' /\ SaveOK' /\ DocOK' /\ UnsavedOK'
    BY <2>1, EditorParts DEF TabTypeOK, SaveOK, DocOK, UnsavedOK
  <2>. QED BY <2>1, <2>2, <2>3, TabMoves
<1>2. CASE EditorNext
  <2>1. SourceInv'
    BY <1>2, EditorSourceKeeps
  <2>. QED BY <1>2, <2>1, TypeKeeps, SaveKeeps, SaveSentKeeps, SaveAnsweredKeeps, SaveCutKeeps,
              ReloadKeeps, OverwriteAnsweredKeeps, HeardKeeps, AsksKeep, LoadServedKeeps,
              LoadAnsweredKeeps, ServerKeeps DEF EditorNext
<1>. QED BY <1>1, <1>2

\* The state of a tab, of its requests and of what goes on beneath it, in every
\* behaviour (session.ts, edit.rs, routes.rs and watch.rs).
THEOREM EditorIsSafe == EditorSpec => []EditorInv
<1>1. EditorInit => EditorInv
  BY EditorStarts
<1>2. EditorInv /\ [EditorNext]_vars => EditorInv'
  BY EditorNextKeeps
<1>. QED BY <1>1, <1>2, PTL DEF EditorSpec

\* What was typed last stays in the buffer until it is on disk or the user drops it
\* (session.ts, `#reload`, `#reconcile`).
THEOREM EditsAreKept == EditorSpec => []NoEditIsLost
<1>1. EditorInv => NoEditIsLost
  BY DEF EditorInv, UnsavedOK, NoEditIsLost
<1>. QED BY <1>1, EditorIsSafe, PTL

\* A save of the tab's replaces only what its buffer was based on or the user agreed to
\* overwrite (session.ts, `#save`, `overwrite`; edit.rs, write_source).
THEOREM OverwritesAreSeen == EditorSpec => NothingUnseenIsOverwritten
<1>1. EditorInv => [Renames(Tab) => wr[Tab].base \in shown]_vars
  BY DEF EditorInv, TabOK, Renames, Saved, At
<1>. QED BY <1>1, EditorIsSafe, PTL DEF NothingUnseenIsOverwritten

-----------------------------------------------------------------------------
(* Files served *)

\* The bytes a Range header names of a file of so many.
Named(r, size) ==
  {i \in 0..size - 1 :
     CASE r.range.form = "from"    -> i >= r.range.first
       [] r.range.form = "between" -> i >= r.range.first /\ i <= r.range.last
       [] r.range.form = "suffix"  -> i >= size - r.range.length
       [] OTHER -> TRUE}

\* A range answered with a part is the bytes it names, and one that cannot be answered
\* names none.
RangeOK(r, size, q) ==
  /\ q.first \in Int /\ q.last \in Int
  /\ q.kind = "whole" => q.first = 0 /\ q.last = size - 1
  /\ q.kind = "part" =>
       /\ SameCopy(r)
       /\ q.first..q.last = Named(r, size) /\ Named(r, size) # {}
  /\ q.kind = "unsatisfiable" /\ r.range.form \notin {"unreadable", "repeated"} =>
       Named(r, size) = {}
  /\ q.kind \in {"whole", "part", "unsatisfiable"}

LEMMA PartOK ==
  ASSUME NEW r, NEW size \in Nat, NEW f \in Int, NEW l \in Int, SameCopy(r),
         f..l = Named(r, size), Named(r, size) # {}
  PROVE  RangeOK(r, size, [kind |-> "part", first |-> f, last |-> l])
<1>. DEFINE q == [kind |-> "part", first |-> f, last |-> l]
<1>1. q.kind = "part" /\ q.first = f /\ q.last = l
  OBVIOUS
<1>. HIDE DEF q
<1>2. RangeOK(r, size, q)
  BY <1>1 DEF RangeOK
<1>. QED BY <1>2 DEF q

LEMMA NoneOK ==
  ASSUME NEW r, NEW size \in Nat,
         r.range.form \notin {"unreadable", "repeated"} => Named(r, size) = {}
  PROVE  RangeOK(r, size, [kind |-> "unsatisfiable", first |-> 0, last |-> size - 1])
<1>. DEFINE q == [kind |-> "unsatisfiable", first |-> 0, last |-> size - 1]
<1>1. q.kind = "unsatisfiable" /\ q.first \in Int /\ q.last \in Int
  OBVIOUS
<1>. HIDE DEF q
<1>2. RangeOK(r, size, q)
  BY <1>1 DEF RangeOK
<1>. QED BY <1>2 DEF q

LEMMA FromOK ==
  ASSUME NEW r, NEW size \in Nat, r.range.form = "from", r.range.first \in Nat, SameCopy(r)
  PROVE  RangeOK(r, size, RequestedRange(r, size))
<1>. DEFINE f == r.range.first
<1>1. r.range # Whole
  BY DEF Whole
<1>2. RequestedRange(r, size)
       = IF f >= size THEN [kind |-> "unsatisfiable", first |-> 0, last |-> size - 1]
         ELSE [kind |-> "part", first |-> f, last |-> size - 1]
  BY <1>1 DEF RequestedRange, Clamped
<1>3. Named(r, size) = {i \in 0..size - 1 : i >= f}
  BY DEF Named
<1>4. CASE f >= size
  <2>1. Named(r, size) = {}
    BY <1>3, <1>4
  <2>. QED BY <1>2, <1>4, <2>1, NoneOK
<1>5. CASE ~ (f >= size)
  <2>1. f..size - 1 = Named(r, size) /\ f \in Named(r, size)
    BY <1>3, <1>5
  <2>2. f \in Int /\ size - 1 \in Int
    OBVIOUS
  <2>. QED BY <1>2, <1>5, <2>1, <2>2, PartOK
<1>. QED BY <1>4, <1>5

LEMMA BetweenOK ==
  ASSUME NEW r, NEW size \in Nat, r.range.form = "between",
         r.range.first \in Nat, r.range.last \in Nat, SameCopy(r)
  PROVE  RangeOK(r, size, RequestedRange(r, size))
<1>. DEFINE f == r.range.first
            l == r.range.last
<1>1. r.range # Whole
  BY DEF Whole
<1>2. RequestedRange(r, size)
       = IF f >= size \/ f > l THEN [kind |-> "unsatisfiable", first |-> 0, last |-> size - 1]
         ELSE [kind |-> "part", first |-> f, last |-> IF l < size - 1 THEN l ELSE size - 1]
  BY <1>1 DEF RequestedRange, Clamped
<1>3. Named(r, size) = {i \in 0..size - 1 : i >= f /\ i <= l}
  BY DEF Named
<1>4. CASE f >= size \/ f > l
  <2>1. Named(r, size) = {}
    BY <1>3, <1>4
  <2>. QED BY <1>2, <1>4, <2>1, NoneOK
<1>5. CASE ~ (f >= size \/ f > l)
  <2>1. CASE l < size - 1
    <3>1. f..l = Named(r, size) /\ f \in Named(r, size)
      BY <1>3, <1>5, <2>1
    <3>. QED BY <1>2, <1>5, <2>1, <3>1, PartOK
  <2>2. CASE ~ (l < size - 1)
    <3>1. f..size - 1 = Named(r, size) /\ f \in Named(r, size)
      BY <1>3, <1>5, <2>2
    <3>. QED BY <1>2, <1>5, <2>2, <3>1, PartOK
  <2>. QED BY <2>1, <2>2
<1>. QED BY <1>4, <1>5

LEMMA SuffixOK ==
  ASSUME NEW r, NEW size \in Nat, r.range.form = "suffix", r.range.length \in Nat, SameCopy(r)
  PROVE  RangeOK(r, size, RequestedRange(r, size))
<1>. DEFINE n == r.range.length
<1>1. r.range # Whole
  BY DEF Whole
<1>2. RequestedRange(r, size)
       = IF n = 0 \/ size = 0 THEN [kind |-> "unsatisfiable", first |-> 0, last |-> size - 1]
         ELSE [kind |-> "part", first |-> IF size > n THEN size - n ELSE 0, last |-> size - 1]
  BY <1>1 DEF RequestedRange, Clamped
<1>3. Named(r, size) = {i \in 0..size - 1 : i >= size - n}
  BY DEF Named
<1>4. CASE n = 0 \/ size = 0
  <2>1. Named(r, size) = {}
    BY <1>3, <1>4
  <2>. QED BY <1>2, <1>4, <2>1, NoneOK
<1>5. CASE ~ (n = 0 \/ size = 0)
  <2>1. CASE size > n
    <3>1. (size - n)..size - 1 = Named(r, size) /\ size - n \in Named(r, size)
      BY <1>3, <1>5, <2>1
    <3>. QED BY <1>2, <1>5, <2>1, <3>1, PartOK
  <2>2. CASE ~ (size > n)
    <3>1. 0..size - 1 = Named(r, size) /\ 0 \in Named(r, size)
      BY <1>3, <1>5, <2>2
    <3>. QED BY <1>2, <1>5, <2>2, <3>1, PartOK
  <2>. QED BY <2>1, <2>2
<1>. QED BY <1>4, <1>5

\* What a Range header may say.
LEMMA FormsAre ==
  ASSUME NEW g \in Ranges
  PROVE  /\ \/ g = Whole
            \/ g.form \in {"repeated", "other unit", "unreadable", "from", "between", "suffix"}
         /\ g.form = "from" => g.first \in Nat
         /\ g.form = "between" => g.first \in Nat /\ g.last \in Nat
         /\ g.form = "suffix" => g.length \in Nat
<1>1. CASE g = Whole
  BY <1>1 DEF Whole
<1>2. CASE g \in {[form |-> "repeated"], [form |-> "other unit"], [form |-> "unreadable"]}
  <2>1. ASSUME NEW f \in {"repeated", "other unit", "unreadable"}, g = [form |-> f]
        PROVE  g.form = f
    BY <2>1
  <2>. QED BY <1>2, <2>1
<1>3. CASE g \in [form : {"from"}, first : Numbers]
  BY <1>3, ServingAssumption
<1>4. CASE g \in [form : {"between"}, first : Numbers, last : Numbers]
  BY <1>4, ServingAssumption
<1>5. CASE g \in [form : {"suffix"}, length : Numbers]
  BY <1>5, ServingAssumption
<1>. QED BY <1>1, <1>2, <1>3, <1>4, <1>5 DEF Ranges

LEMMA RequestedRangeIs ==
  ASSUME NEW r, r.range \in Ranges, NEW size \in Nat
  PROVE  RangeOK(r, size, RequestedRange(r, size))
<1>. DEFINE whole == [kind |-> "whole", first |-> 0, last |-> size - 1]
            none  == [kind |-> "unsatisfiable", first |-> 0, last |-> size - 1]
<1>1. RangeOK(r, size, whole)
  BY DEF RangeOK
<1>2. r.range.form \in {"unreadable", "repeated"} => RangeOK(r, size, none)
  BY NoneOK
<1>3. CASE \/ r.range = Whole \/ r.range.form = "other unit"
           \/ r.range.form # "repeated" /\ ~ SameCopy(r)
  <2>1. r.range = Whole \/ r.range.form # "repeated"
    BY <1>3
  <2>2. RequestedRange(r, size) = whole
    BY <1>3, <2>1 DEF RequestedRange
  <2>. QED BY <1>1, <2>2
<1>4. CASE r.range # Whole /\ r.range.form = "repeated"
  <2>1. RequestedRange(r, size) = none
    BY <1>4 DEF RequestedRange
  <2>. QED BY <1>2, <1>4, <2>1
<1>5. CASE SameCopy(r) /\ r.range.form = "unreadable"
  <2>1. r.range # Whole
    BY <1>5 DEF Whole
  <2>2. RequestedRange(r, size) = none
    BY <1>5, <2>1 DEF RequestedRange
  <2>. QED BY <1>2, <1>5, <2>2
<1>6. CASE SameCopy(r) /\ r.range.form \in {"from", "between", "suffix"}
  <2>1. /\ r.range.form = "from" => r.range.first \in Nat
        /\ r.range.form = "between" => r.range.first \in Nat /\ r.range.last \in Nat
        /\ r.range.form = "suffix" => r.range.length \in Nat
    BY <1>6, FormsAre
  <2>. QED BY <1>6, <2>1, FromOK, BetweenOK, SuffixOK
<1>7. \/ r.range = Whole
      \/ r.range.form \in {"repeated", "other unit", "unreadable", "from", "between", "suffix"}
  BY FormsAre
<1>. QED BY <1>3, <1>4, <1>5, <1>6, <1>7

\* What the server says of a request is right about the file as it is.
HeadersOK(r, a) ==
  /\ a.status \in {206, 200} =>
       /\ url \in {0, file.version} /\ a.version = file.version
       /\ a.first \in Int /\ a.length \in Int
  /\ a.status = 206 =>
       /\ SameCopy(r)
       /\ a.first..a.first + a.length - 1 = Named(r, file.size)
       /\ Named(r, file.size) # {}
  /\ a.status = 200 => a.first..a.first + a.length - 1 = 0..file.size - 1
  /\ a.status = 416 /\ r.range.form \notin {"unreadable", "repeated"} => Named(r, file.size) = {}

LEMMA HeadersAre ==
  ASSUME NEW r, r.range \in Ranges, file.size \in Nat \cup {Gone}
  PROVE  HeadersOK(r, Headers(r))
<1>. DEFINE q == RequestedRange(r, file.size)
            of(status) == [status |-> status, version |-> file.version, size |-> file.size,
                           first |-> q.first, length |-> q.last - q.first + 1]
<1>a. PICK a : a = Headers(r)
  OBVIOUS
<1>0. ASSUME NEW n, n \notin {200, 206, 416}, a = Refusal(n) PROVE HeadersOK(r, a)
  <2>1. a.status = n
    BY <1>0 DEF Refusal, NoAnswer
  <2>. QED BY <1>0, <2>1 DEF HeadersOK
<1>1. ASSUME Located # 200 PROVE HeadersOK(r, a)
  <2>1. a = Refusal(Located) /\ Located \in {400, 404, 413}
    BY <1>a, <1>1 DEF Headers, Located
  <2>2. Located \notin {200, 206, 416}
    BY <2>1
  <2>. QED BY <1>0, <2>1, <2>2
<1>2. ASSUME Located = 200 /\ ~ RightVersion PROVE HeadersOK(r, a)
  <2>1. a = Refusal(410)
    BY <1>a, <1>2 DEF Headers
  <2>. QED BY <1>0, <2>1
<1>3. ASSUME Located = 200 /\ RightVersion PROVE HeadersOK(r, a)
  <2>1. file.size \in Nat
    BY <1>3 DEF Located, Exists
  <2>2. RangeOK(r, file.size, q)
    BY <2>1, RequestedRangeIs
  <2>3. url \in {0, file.version}
    BY <1>3 DEF RightVersion
  <2>4. a = IF r.noneMatch = file.version THEN of(304)
            ELSE IF q.kind = "unsatisfiable" THEN Refusal(416)
            ELSE of(IF q.kind = "part" THEN 206 ELSE 200)
    BY <1>a, <1>3 DEF Headers
  <2>. HIDE DEF q
  <2>5. CASE r.noneMatch = file.version
    <3>1. a.status = 304
      BY <2>4, <2>5
    <3>. QED BY <3>1 DEF HeadersOK
  <2>6. CASE r.noneMatch # file.version /\ q.kind = "unsatisfiable"
    <3>1. a.status = 416
      BY <2>4, <2>6 DEF Refusal, NoAnswer
    <3>. QED BY <2>2, <2>6, <3>1 DEF HeadersOK, RangeOK
  <2>7. CASE r.noneMatch # file.version /\ q.kind # "unsatisfiable"
    <3>1. /\ a.status = (IF q.kind = "part" THEN 206 ELSE 200) /\ a.version = file.version
          /\ a.first = q.first /\ a.length = q.last - q.first + 1
      BY <2>4, <2>7
    <3>2. q.first \in Int /\ q.last \in Int
      BY <2>2 DEF RangeOK
    <3>3. a.first + a.length - 1 = q.last /\ a.first \in Int /\ a.length \in Int
      BY <3>1, <3>2
    <3>4. CASE q.kind = "part"
      BY <2>2, <2>3, <3>1, <3>3, <3>4 DEF RangeOK, HeadersOK
    <3>5. CASE q.kind = "whole"
      BY <2>2, <2>3, <3>1, <3>3, <3>5 DEF RangeOK, HeadersOK
    <3>. QED BY <2>2, <2>7, <3>4, <3>5 DEF RangeOK
  <2>. QED BY <2>5, <2>6, <2>7
<1>4. HeadersOK(r, a)
  BY <1>1, <1>2, <1>3
<1>. QED BY <1>a, <1>4

\* While a request is answered its answer is right about the file, which nobody replaces
\* meanwhile.
ServingInv ==
  /\ file.size \in Nat \cup {Gone}
  /\ ~ Free =>
       /\ request.range \in Ranges /\ request.ifRange \in {0, copy.tag}
       /\ answer = Headers(request)
  /\ CopiesAreOfOneVersion

LEMMA SendKeeps ==
  ASSUME ServingInv, Send
  PROVE  ServingInv'
<1>1. ~ Free /\ Free' /\ UNCHANGED <<file, url>>
  BY DEF Send, Free, NoAnswer
<1>2. /\ answer = Headers(request) /\ request.range \in Ranges /\ request.ifRange \in {0, copy.tag}
      /\ file.size \in Nat \cup {Gone} /\ CopiesAreOfOneVersion
  BY <1>1 DEF ServingInv
<1>3. /\ url \in {0, file.version} /\ answer.version = file.version
      /\ answer.status = 206 => SameCopy(request)
  BY <1>2, HeadersAre DEF Send, HeadersOK
<1>4. CopiesAreOfOneVersion'
  <2>1. CASE copy' = copy
    BY <1>1, <1>2, <2>1 DEF CopiesAreOfOneVersion
  <2>2. ASSUME NEW bytes \in SUBSET Bytes(file.version, answer.first, answer.length), Keep(bytes)
        PROVE  CopiesAreOfOneVersion'
    <3>1. \A b \in bytes : b[1] = file.version
      BY <2>2 DEF Bytes
    <3>2. CASE answer.status = 206 /\ request.ifRange # 0
      <4>1. copy' = [copy EXCEPT !.bytes = copy.bytes \cup bytes] /\ copy.tag = file.version
        BY <1>2, <1>3, <2>2, <3>2 DEF Keep, SameCopy
      <4>2. CASE copy'.bytes = copy.bytes \cup bytes /\ copy'.tag = copy.tag
        BY <1>1, <1>2, <1>3, <3>1, <4>1, <4>2 DEF CopiesAreOfOneVersion
      <4>. QED BY <4>1, <4>2
    <3>3. CASE ~ (answer.status = 206 /\ request.ifRange # 0)
      <4>1. copy' = [tag |-> answer.version, bytes |-> bytes]
        BY <2>2, <3>3 DEF Keep
      <4>. QED BY <1>1, <1>3, <3>1, <4>1 DEF CopiesAreOfOneVersion
    <3>. QED BY <3>2, <3>3
  <2>3. \/ copy' = copy
        \/ \E bytes \in SUBSET Bytes(file.version, answer.first, answer.length) : Keep(bytes)
    BY DEF Send
  <2>. QED BY <2>1, <2>2, <2>3
<1>. QED BY <1>1, <1>2, <1>4 DEF ServingInv

LEMMA ServingKeeps ==
  ASSUME ServingInv, ~ MayReplace, [ServingNext]_servingVars
  PROVE  ServingInv'
<1>1. CASE UNCHANGED servingVars
  <2>1. UNCHANGED <<file, place, url, copy, request, answer>>
    BY <1>1 DEF servingVars
  <2>2. Headers(request)' = Headers(request)
    BY <2>1 DEF Headers, Located, RightVersion, RequestedRange, SameCopy, Exists
  <2>3. CopiesAreOfOneVersion' <=> CopiesAreOfOneVersion
    BY <2>1 DEF CopiesAreOfOneVersion
  <2>. QED BY <2>1, <2>2, <2>3 DEF ServingInv, Free
<1>2. ASSUME NEW size \in Sizes, Replace(size) PROVE ServingInv'
  <2>1. /\ Free' /\ file' = [version |-> file.version + 1, size |-> size]
        /\ UNCHANGED <<copy, url>> /\ size \in Nat
    BY <1>2, ServingAssumption DEF Replace, Free
  <2>. QED BY <2>1 DEF ServingInv, CopiesAreOfOneVersion
<1>3. CASE RemoveFile
  <2>1. /\ Free' /\ file' = [version |-> file.version + 1, size |-> Gone]
        /\ UNCHANGED <<copy, url>>
    BY <1>3 DEF RemoveFile, Free
  <2>. QED BY <2>1 DEF ServingInv, CopiesAreOfOneVersion
<1>4. CASE View
  <2>1. Free' /\ copy' = NoCopy /\ file' = file
    BY <1>4 DEF View, Free
  <2>. QED BY <2>1 DEF ServingInv, CopiesAreOfOneVersion, NoCopy
<1>5. CASE Refuse
  <2>1. Free' /\ UNCHANGED <<file, copy, url>>
    BY <1>5 DEF Refuse, Free
  <2>. QED BY <2>1 DEF ServingInv, CopiesAreOfOneVersion
<1>6. ASSUME NEW range \in Ranges, Ask(range) PROVE ServingInv'
  <2>1. PICK ifRange \in {0, copy.tag}, noneMatch \in {0, copy.tag}, head \in BOOLEAN :
          LET r == [range |-> range, ifRange |-> ifRange, noneMatch |-> noneMatch, head |-> head]
          IN request' = r /\ answer' = Headers(r)
    BY <1>6 DEF Ask
  <2>2. UNCHANGED <<file, place, url, copy>>
    BY <1>6 DEF Ask
  <2>3. request'.range \in Ranges /\ request'.ifRange \in {0, copy.tag}
    BY <2>1
  <2>4. answer' = Headers(request)'
    <3>1. answer' = Headers(request')
      BY <2>1
    <3>2. Headers(request)' = Headers(request')
      BY <2>2 DEF Headers, Located, RightVersion, RequestedRange, SameCopy, Exists
    <3>. QED BY <3>1, <3>2
  <2>. QED BY <2>2, <2>3, <2>4 DEF ServingInv, CopiesAreOfOneVersion
<1>7. CASE Send
  BY <1>7, SendKeeps
<1>. QED BY <1>1, <1>2, <1>3, <1>4, <1>5, <1>6, <1>7 DEF ServingNext

LEMMA ServingStarts ==
  ASSUME ServingInit
  PROVE  ServingInv
<1>1. file.size \in Nat /\ answer = NoAnswer /\ copy = NoCopy
  BY ServingAssumption DEF ServingInit
<1>. QED BY <1>1 DEF ServingInv, Free, CopiesAreOfOneVersion, NoCopy

\* Their places make a range of bytes.
PlacesOf(v, f, n) == {b[2] : b \in Bytes(v, f, n)}

LEMMA BytesAre ==
  ASSUME NEW v, NEW f \in Int, NEW n \in Int
  PROVE  PlacesOf(v, f, n) = f..f + n - 1
<1>1. \A i \in f..f + n - 1 : <<v, i>> \in Bytes(v, f, n) /\ <<v, i>>[2] = i
  BY DEF Bytes
<1>2. \A b \in Bytes(v, f, n) : b[2] \in f..f + n - 1
  BY DEF Bytes
<1>3. ASSUME NEW i \in f..f + n - 1 PROVE i \in PlacesOf(v, f, n)
  <2>1. \E b \in Bytes(v, f, n) : b[2] = i
    BY <1>1
  <2>. QED BY <2>1 DEF PlacesOf
<1>. QED BY <1>2, <1>3 DEF PlacesOf

\* A player gets the bytes it asked for, all of one version of the file, when no file is
\* replaced in the middle of a request (files.rs, serve).
THEOREM PlayersAreServed == ~ MayReplace => (ServingSpec => []PlayersGetWhatTheyAskFor)
<1>. SUFFICES ASSUME ~ MayReplace PROVE ServingSpec => []PlayersGetWhatTheyAskFor
  OBVIOUS
<1>1. ServingInit => ServingInv
  BY ServingStarts
<1>2. ServingInv /\ [ServingNext]_servingVars => ServingInv'
  BY ServingKeeps
<1>3. ASSUME ServingInv PROVE PlayersGetWhatTheyAskFor
  <2>1. CASE Free
    BY <1>3, <2>1 DEF ServingInv, PlayersGetWhatTheyAskFor, RangesAreExact, Free, NoAnswer
  <2>2. CASE ~ Free
    <3>1. /\ answer = Headers(request) /\ request.range \in Ranges
          /\ file.size \in Nat \cup {Gone} /\ CopiesAreOfOneVersion
      BY <1>3, <2>2 DEF ServingInv
    <3>. DEFINE sent == PlacesOf(answer.version, answer.first, answer.length)
    <3>2. HeadersOK(request, answer)
      BY <3>1, HeadersAre
    <3>3. answer.status \in {206, 200} =>
            sent = answer.first..answer.first + answer.length - 1
      <4>1. ASSUME answer.status \in {206, 200} PROVE answer.first \in Int /\ answer.length \in Int
        BY <3>2, <4>1 DEF HeadersOK
      <4>. QED BY <4>1, BytesAre
    <3>. HIDE DEF sent
    <3>4. RangesAreExact
      BY <3>2, <3>3 DEF RangesAreExact, HeadersOK, Named, PlacesOf, sent
    <3>. QED BY <3>1, <3>4 DEF PlayersGetWhatTheyAskFor
  <2>. QED BY <2>1, <2>2
<1>. QED BY <1>1, <1>2, <1>3, PTL DEF ServingSpec

-----------------------------------------------------------------------------
(* Lines of a text *)

\* Sequences are equal when they have the same elements in the same places.
LEMMA SameSequence ==
  ASSUME NEW X, NEW s \in Seq(X), NEW t \in Seq(X), Len(s) = Len(t),
         \A i \in 1..Len(s) : s[i] = t[i]
  PROVE  s = t
OBVIOUS

\* What it is to be a prefix, place by place.
LEMMA PrefixIs ==
  ASSUME NEW X, NEW s \in Seq(X), NEW t \in Seq(X)
  PROVE  IsPrefix(s, t) <=> Len(s) <= Len(t) /\ \A i \in 1..Len(s) : s[i] = t[i]
<1>1. CASE Len(s) <= Len(t)
  <2>1. /\ SubSeq(s, 1, Len(s)) \in Seq(X) /\ SubSeq(t, 1, Len(s)) \in Seq(X)
        /\ Len(SubSeq(s, 1, Len(s))) = Len(s) /\ Len(SubSeq(t, 1, Len(s))) = Len(s)
        /\ \A i \in 1..Len(s) : SubSeq(s, 1, Len(s))[i] = s[i] /\ SubSeq(t, 1, Len(s))[i] = t[i]
    BY <1>1
  <2>. QED BY <1>1, <2>1, SameSequence DEF IsPrefix
<1>2. CASE ~ (Len(s) <= Len(t))
  BY <1>2 DEF IsPrefix
<1>. QED BY <1>1, <1>2

\* The page after the last one read.
LEMMA PrefixGrows ==
  ASSUME NEW X, NEW s \in Seq(X), NEW t \in Seq(X), IsPrefix(s, t),
         NEW end \in Int, Len(s) <= end, end <= Len(t)
  PROVE  LET n == s \o SubSeq(t, Len(s) + 1, end)
         IN n \in Seq(X) /\ IsPrefix(n, t)
<1>. DEFINE p == SubSeq(t, Len(s) + 1, end)
            n == s \o p
<1>1. /\ p \in Seq(X) /\ Len(p) = end - Len(s)
      /\ \A i \in 1..end - Len(s) : p[i] = t[i + Len(s)]
  OBVIOUS
<1>. HIDE DEF p
<1>2. /\ n \in Seq(X) /\ Len(n) = end
      /\ \A i \in 1..end : n[i] = IF i <= Len(s) THEN s[i] ELSE p[i - Len(s)]
  BY <1>1
<1>. HIDE DEF n
<1>3. \A i \in 1..Len(s) : s[i] = t[i]
  BY PrefixIs
<1>4. ASSUME NEW i \in 1..end PROVE n[i] = t[i]
  <2>1. CASE i <= Len(s)
    BY <1>2, <1>3, <2>1
  <2>2. CASE ~ (i <= Len(s))
    <3>1. i - Len(s) \in 1..end - Len(s) /\ i - Len(s) + Len(s) = i
      BY <2>2
    <3>. QED BY <1>1, <1>2, <2>2, <3>1
  <2>. QED BY <2>1, <2>2
<1>5. IsPrefix(n, t)
  BY <1>2, <1>4, PrefixIs
<1>. QED BY <1>2, <1>5 DEF n, p

-----------------------------------------------------------------------------
\* Bare lines are lines, and in a CRLF file none keeps its CR.
LEMMA BareIs ==
  ASSUME NEW s \in Seq(Lines), NEW crlf
  PROVE  LET n == Bare(s, crlf)
         IN /\ n \in Seq(Lines) /\ Len(n) = Len(s)
            /\ crlf => \A i \in 1..Len(s) : n[i].says = s[i].says /\ ~ n[i].cr
            /\ ~ crlf => n = s
<1>. DEFINE n == Bare(s, crlf)
<1>1. DOMAIN s = 1..Len(s) /\ Len(s) \in Nat /\ \A i \in 1..Len(s) : s[i] \in Lines
  OBVIOUS
<1>2. /\ n = [i \in 1..Len(s) |-> IF crlf THEN [s[i] EXCEPT !.cr = FALSE] ELSE s[i]]
  BY <1>1 DEF Bare
<1>3. \A i \in 1..Len(s) : n[i] = IF crlf THEN [s[i] EXCEPT !.cr = FALSE] ELSE s[i]
  BY <1>2
<1>4. \A i \in 1..Len(s) : [s[i] EXCEPT !.cr = FALSE] \in Lines
                            /\ ~ [s[i] EXCEPT !.cr = FALSE].cr
                            /\ [s[i] EXCEPT !.cr = FALSE].says = s[i].says
  BY <1>1 DEF Lines
<1>5. DOMAIN n = 1..Len(s) /\ \A i \in 1..Len(s) : n[i] \in Lines
  BY <1>1, <1>2, <1>3, <1>4
<1>. HIDE DEF n
<1>6. n \in [1..Len(s) -> Lines]
  BY <1>2, <1>5
<1>7. n \in Seq(Lines) /\ Len(n) = Len(s)
  BY <1>1, <1>6
<1>8. ~ crlf => n = s
  BY <1>3, <1>7, SameSequence
<1>. QED BY <1>3, <1>4, <1>7, <1>8 DEF n

\* Lines joined with the file's ending: only the CR is added, and to every line a newline
\* follows.
LEMMA JoinedIs ==
  ASSUME NEW s \in Seq(Lines), NEW crlf, NEW final
  PROVE  LET n == Joined(s, crlf, final)
         IN /\ n \in Seq(Lines) /\ Len(n) = Len(s)
            /\ \A i \in 1..Len(s) :
                 n[i] = IF crlf /\ (final \/ i < Len(s)) THEN [s[i] EXCEPT !.cr = TRUE] ELSE s[i]
<1>. DEFINE n == Joined(s, crlf, final)
<1>1. DOMAIN s = 1..Len(s) /\ Len(s) \in Nat /\ \A i \in 1..Len(s) : s[i] \in Lines
  OBVIOUS
<1>2. n = [i \in 1..Len(s) |->
             IF crlf /\ (final \/ i < Len(s)) THEN [s[i] EXCEPT !.cr = TRUE] ELSE s[i]]
  BY <1>1 DEF Joined
<1>3. \A i \in 1..Len(s) :
        n[i] = IF crlf /\ (final \/ i < Len(s)) THEN [s[i] EXCEPT !.cr = TRUE] ELSE s[i]
  BY <1>2
<1>4. \A i \in 1..Len(s) : [s[i] EXCEPT !.cr = TRUE] \in Lines
  BY <1>1 DEF Lines
<1>5. \A i \in 1..Len(s) : n[i] \in Lines
  BY <1>1, <1>3, <1>4
<1>6. DOMAIN n = 1..Len(s)
  BY <1>2
<1>7. n = [i \in 1..Len(s) |-> n[i]]
  BY <1>2, <1>3
<1>. HIDE DEF n
<1>8. n \in [1..Len(s) -> Lines]
  BY <1>5, <1>7
<1>9. n \in Seq(Lines) /\ Len(n) = Len(s)
  BY <1>1, <1>8
<1>. QED BY <1>3, <1>9 DEF n

\* Replacing lines of a sequence leaves lines.
LEMMA SplicedIs ==
  ASSUME NEW s \in Seq(Lines), NEW by \in Seq(Lines), NEW f \in Nat, NEW l \in Nat,
         InRange(f, l, Len(s))
  PROVE  Spliced(s, f, l, by) \in Seq(Lines)
<1>1. SubSeq(s, 1, f - 1) \in Seq(Lines) /\ SubSeq(s, l + 1, Len(s)) \in Seq(Lines)
  BY DEF InRange
<1>. QED BY <1>1 DEF Spliced

\* A text whose last line is not blank is written as it is; a blank last line goes.
LEMMA WrittenIs ==
  ASSUME NEW s \in Seq(Lines), NEW final \in BOOLEAN
  PROVE  LET t == Written(s, final)
         IN /\ t.lines \in Seq(Lines) /\ t.final \in BOOLEAN
            /\ s # <<>> /\ (final \/ Last(s) # Blank) => t.lines = s /\ t.final = final
<1>1. CASE s = <<>>
  BY <1>1 DEF Written
<1>2. CASE s # <<>> /\ (final \/ Last(s) # Blank)
  BY <1>2 DEF Written
<1>3. CASE s # <<>> /\ ~ (final \/ Last(s) # Blank)
  <2>1. SubSeq(s, 1, Len(s) - 1) \in Seq(Lines) /\ (Len(s) > 1) \in BOOLEAN
    BY <1>3
  <2>2. Written(s, final) = [lines |-> Front(s), final |-> Len(s) > 1]
    BY <1>3 DEF Written
  <2>. QED BY <1>3, <2>1, <2>2 DEF Front
<1>. QED BY <1>1, <1>2, <1>3

\* The edit of a text: its lines, bare, with the replacement's in their place.
Replaced(t, f, l, by) ==
  Spliced(Bare(t.lines, IsCrlf(t)), f, l, Bare(by.lines, IsCrlf(t)))
Edited(t, f, l, by) ==
  Written(Joined(Replaced(t, f, l, by), IsCrlf(t), t.final), t.final)

Text == [lines : Seq(Lines), final : BOOLEAN]
Edits == [first : Nat, last : Nat, by : Text]

\* What a client has read is the beginning of the text, and what an edit makes of the text
\* is what it says.
TextInv ==
  /\ source \in Text
  /\ read \in Seq(Lines) /\ IsPrefix(read, source.lines)
  /\ edited # source =>
       /\ edit \in Edits /\ InRange(edit.first, edit.last, Len(source.lines))
       /\ edited = Edited(source, edit.first, edit.last, edit.by)

LEMMA TextsAreText ==
  ASSUME NEW n \in Nat
  PROVE  TextsOf(n) \subseteq Text
<1>. SUFFICES ASSUME NEW t \in TextsOf(n) PROVE t \in Text
  OBVIOUS
<1>1. PICK lines \in BoundedSeq(Lines, n), final \in BOOLEAN : t = Written(lines, final)
  BY DEF TextsOf
<1>2. lines \in Seq(Lines)
  BY DEF BoundedSeq, SeqOf
<1>3. t.lines \in Seq(Lines) /\ t.final \in BOOLEAN
  BY <1>1, <1>2, WrittenIs
<1>4. t = [lines |-> t.lines, final |-> t.final]
  BY <1>1 DEF Written
<1>. QED BY <1>3, <1>4 DEF Text

LEMMA ReadPageKeeps ==
  ASSUME TextInv, NEW last \in Nat, ReadPage(last)
  PROVE  TextInv'
<1>. DEFINE count == Len(source.lines)
            end == PageEnd(Len(read) + 1, last, count)
<1>1. /\ source.lines \in Seq(Lines) /\ read \in Seq(Lines) /\ IsPrefix(read, source.lines)
      /\ count \in Nat /\ Len(read) \in Nat
  BY DEF TextInv, Text
<1>2. /\ end >= Len(read) + 1 - 1
      /\ read' = read \o SubSeq(source.lines, Len(read) + 1, end)
      /\ UNCHANGED <<source, edited, edit>>
  BY DEF ReadPage
<1>3. end \in Int /\ end <= count
  BY <1>1, PageAssumption DEF PageEnd
<1>. HIDE DEF end
<1>4. Len(read) <= end
  BY <1>1, <1>2, <1>3
<1>5. read' \in Seq(Lines) /\ IsPrefix(read', source.lines)
  BY <1>1, <1>2, <1>3, <1>4, PrefixGrows
<1>. QED BY <1>2, <1>5 DEF TextInv

LEMMA ReplaceLinesKeeps ==
  ASSUME TextInv, NEW f \in Nat, NEW l \in Nat, NEW by \in Text, ReplaceLines(f, l, by)
  PROVE  TextInv'
<1>1. /\ InRange(f, l, Len(source.lines)) /\ edited' = Edited(source, f, l, by)
      /\ UNCHANGED <<source, read>>
  BY DEF ReplaceLines, Edited, Replaced
<1>2. edit' = [first |-> f, last |-> l, by |-> by]
  BY DEF ReplaceLines
<1>3. edit' \in Edits /\ edit'.first = f /\ edit'.last = l /\ edit'.by = by
  BY <1>2 DEF Edits
<1>. QED BY <1>1, <1>3 DEF TextInv

\* An edit of a text keeps the lines around it, the line ending and the end of the text.
LEMMA EditedHolds ==
  ASSUME NEW t \in Text, NEW by \in Text, NEW f \in Nat, NEW l \in Nat,
         InRange(f, l, Len(t.lines)),
         Replaced(t, f, l, by) # <<>>, t.final \/ Last(Replaced(t, f, l, by)) # Blank
  PROVE  LET n == Edited(t, f, l, by)
         IN /\ n.final = t.final
            /\ Bare(n.lines, IsCrlf(t)) = Replaced(t, f, l, by)
            /\ \A i \in Ended(n) : IsCrlf(t) => n.lines[i].cr
<1>. DEFINE r == Replaced(t, f, l, by)
            j == Joined(r, IsCrlf(t), t.final)
            n == Edited(t, f, l, by)
<1>1. t.lines \in Seq(Lines) /\ by.lines \in Seq(Lines) /\ t.final \in BOOLEAN
  BY DEF Text
<1>2. /\ Bare(t.lines, IsCrlf(t)) \in Seq(Lines) /\ Bare(by.lines, IsCrlf(t)) \in Seq(Lines)
      /\ Len(Bare(t.lines, IsCrlf(t))) = Len(t.lines)
  BY <1>1, BareIs
<1>3. r \in Seq(Lines)
  BY <1>2, SplicedIs DEF Replaced
<1>4. ASSUME IsCrlf(t) PROVE \A i \in 1..Len(r) : ~ r[i].cr
  <2>. DEFINE s == Bare(t.lines, IsCrlf(t))
              b == Bare(by.lines, IsCrlf(t))
  <2>1. /\ s \in Seq(Lines) /\ b \in Seq(Lines) /\ Len(s) = Len(t.lines)
        /\ (\A i \in 1..Len(s) : ~ s[i].cr) /\ (\A i \in 1..Len(b) : ~ b[i].cr)
    BY <1>1, <1>4, BareIs
  <2>2. r = SubSeq(s, 1, f - 1) \o b \o SubSeq(s, l + 1, Len(s))
    BY DEF Replaced, Spliced
  <2>. HIDE DEF s, b, r
  <2>. DEFINE x == SubSeq(s, 1, f - 1)
              z == SubSeq(s, l + 1, Len(s))
  <2>3. /\ x \in Seq(Lines) /\ z \in Seq(Lines)
        /\ (\A i \in 1..Len(x) : ~ x[i].cr) /\ (\A i \in 1..Len(z) : ~ z[i].cr)
    BY <2>1 DEF InRange
  <2>4. r = (x \o b) \o z
    BY <2>2
  <2>. HIDE DEF x, z
  <2>5. x \o b \in Seq(Lines) /\ \A i \in 1..Len(x \o b) : ~ (x \o b)[i].cr
    BY <2>1, <2>3
  <2>. DEFINE xb == x \o b
  <2>6. xb \in Seq(Lines) /\ (\A i \in 1..Len(xb) : ~ xb[i].cr) /\ r = xb \o z
    BY <2>4, <2>5
  <2>. HIDE DEF xb
  <2>. QED BY <2>3, <2>6
<1>5. r # <<>> /\ (t.final \/ Last(r) # Blank) /\ n = Written(j, t.final)
  BY DEF Edited
<1>. HIDE DEF r, n
<1>6. /\ j \in Seq(Lines) /\ Len(j) = Len(r)
      /\ \A i \in 1..Len(r) :
           j[i] = IF IsCrlf(t) /\ (t.final \/ i < Len(r)) THEN [r[i] EXCEPT !.cr = TRUE] ELSE r[i]
  BY <1>1, <1>3, JoinedIs
<1>. HIDE DEF j
<1>7. Len(r) \in Nat /\ Len(r) > 0 /\ j # <<>>
  BY <1>3, <1>5, <1>6
<1>8. t.final \/ Last(j) # Blank
  <2>1. CASE t.final
    BY <2>1
  <2>2. CASE ~ t.final
    <3>. PICK k \in 1..Len(r) : k = Len(r) /\ ~ (k < Len(r))
      BY <1>7
    <3>1. j[Len(r)] = r[Len(r)]
      BY <1>6, <2>2
    <3>. QED BY <1>5, <1>6, <2>2, <3>1 DEF Last
  <2>. QED BY <2>1, <2>2
<1>9. n.lines = j /\ n.final = t.final
  BY <1>1, <1>5, <1>6, <1>7, <1>8, WrittenIs
<1>10. Bare(n.lines, IsCrlf(t)) = r
  <2>1. CASE ~ IsCrlf(t)
    <3>1. \A i \in 1..Len(r) : j[i] = r[i]
      BY <1>6, <2>1
    <3>2. j = r
      BY <1>3, <1>6, <3>1, SameSequence
    <3>. QED BY <1>3, <1>9, <2>1, <3>2, BareIs
  <2>2. CASE IsCrlf(t)
    <3>. DEFINE bj == Bare(j, IsCrlf(t))
    <3>0. j \in Seq(Lines) /\ Len(j) = Len(r)
      BY <1>6
    <3>1. /\ bj \in Seq(Lines) /\ Len(bj) = Len(r)
          /\ \A i \in 1..Len(r) : bj[i].says = j[i].says /\ ~ bj[i].cr
      BY <2>2, <3>0, BareIs
    <3>. HIDE DEF bj
    <3>2. ASSUME NEW i \in 1..Len(r) PROVE bj[i] = r[i]
      <4>1. r[i] \in Lines /\ ~ r[i].cr
        BY <1>3, <1>4, <2>2
      <4>2. j[i] = r[i] \/ j[i] = [r[i] EXCEPT !.cr = TRUE]
        BY <1>6
      <4>3. j[i].says = r[i].says
        BY <4>1, <4>2 DEF Lines
      <4>4. bj[i] \in Lines
        BY <3>1
      <4>. QED BY <3>1, <4>1, <4>3, <4>4 DEF Lines
    <3>3. bj = r
      BY <1>3, <3>1, <3>2, SameSequence
    <3>. QED BY <1>9, <3>3 DEF bj
  <2>. QED BY <2>1, <2>2
<1>11. ASSUME NEW i \in Ended(n), IsCrlf(t) PROVE n.lines[i].cr
  <2>1. i \in 1..Len(r) /\ (t.final \/ i < Len(r))
    BY <1>6, <1>7, <1>9 DEF Ended
  <2>2. j[i] = [r[i] EXCEPT !.cr = TRUE] /\ r[i] \in Lines
    BY <1>3, <1>6, <1>11, <2>1
  <2>. QED BY <1>9, <2>2 DEF Lines
<1>. QED BY <1>9, <1>10, <1>11 DEF r, n

\* The numbers of lines mean what they say (edit.rs, read_source and replace_lines).
THEOREM LinesAreRight == TextSpec => []LineNumbersHold
<1>1. TextInit => TextInv
  <2>. SUFFICES ASSUME TextInit PROVE TextInv
    OBVIOUS
  <2>1. source \in Text /\ read = <<>> /\ edited = source
    BY TextsAreText, PageAssumption DEF TextInit
  <2>2. source.lines \in Seq(Lines)
    BY <2>1 DEF Text
  <2>3. read \in Seq(Lines) /\ Len(read) = 0
    BY <2>1
  <2>4. IsPrefix(read, source.lines)
    <3>1. Len(source.lines) \in Nat
      BY <2>2
    <3>2. Len(read) <= Len(source.lines) /\ \A i \in 1..Len(read) : read[i] = source.lines[i]
      BY <2>3, <3>1
    <3>. QED BY <2>2, <2>3, <3>2, PrefixIs
  <2>. QED BY <2>1, <2>3, <2>4 DEF TextInv
<1>2. TextInv /\ [TextNext]_textVars => TextInv'
  <2>. SUFFICES ASSUME TextInv, [TextNext]_textVars PROVE TextInv'
    OBVIOUS
  <2>1. ASSUME NEW last \in 0..MaxLines + 1, ReadPage(last) PROVE TextInv'
    BY <2>1, ReadPageKeeps, PageAssumption
  <2>2. ASSUME NEW f \in 0..MaxLines + 1, NEW l \in 0..MaxLines + 1, NEW by \in TextsOf(1),
               ReplaceLines(f, l, by)
        PROVE  TextInv'
    <3>1. by \in Text /\ f \in Nat /\ l \in Nat
      BY TextsAreText, PageAssumption
    <3>. QED BY <2>2, <3>1, ReplaceLinesKeeps
  <2>3. CASE UNCHANGED textVars
    BY <2>3 DEF textVars, TextInv
  <2>. QED BY <2>1, <2>2, <2>3 DEF TextNext
<1>3. ASSUME TextInv PROVE LineNumbersHold
  <2>. DEFINE crlf  == IsCrlf(source)
              asked == SubSeq(Shown(source), 1, edit.first - 1) \o Bare(edit.by.lines, crlf)
                       \o SubSeq(Shown(source), edit.last + 1, Len(source.lines))
  <2>1. ASSUME edited # source, asked # <<>>, source.final \/ Last(asked) # Blank
        PROVE  /\ edited.final = source.final
               /\ Bare(edited.lines, crlf) = asked
               /\ \A i \in Ended(edited) : crlf => edited.lines[i].cr
    <3>1. /\ source \in Text /\ edit.by \in Text /\ edit.first \in Nat /\ edit.last \in Nat
          /\ InRange(edit.first, edit.last, Len(source.lines))
          /\ edited = Edited(source, edit.first, edit.last, edit.by)
      BY <1>3, <2>1 DEF TextInv, Edits
    <3>2. Len(Bare(source.lines, IsCrlf(source))) = Len(source.lines)
      BY <3>1, BareIs DEF Text
    <3>3. asked = Replaced(source, edit.first, edit.last, edit.by)
      BY <3>2 DEF Replaced, Spliced, Shown
    <3>. HIDE DEF asked
    <3>. QED BY <2>1, <3>1, <3>3, EditedHolds
  <2>2. IsPrefix(read, source.lines)
    BY <1>3 DEF TextInv
  <2>. QED BY <2>1, <2>2 DEF LineNumbersHold
<1>. QED BY <1>1, <1>2, <1>3, PTL DEF TextSpec

-----------------------------------------------------------------------------
(* What a job made *)

(* Weight adds up the bytes one by one. *)
Weighs(h, s, n) ==
  h[0] = 0 /\ Weight(s) = h[n] /\ \A k \in 0..(n - 1) : h[k + 1] = h[k] + s[k + 1].bytes

(* The library's fold is that sum. *)
LEMMA WeightFolds ==
  ASSUME NEW R, NEW s \in Seq(R), NEW n \in Nat, n = Len(s), \A r \in R : r.bytes \in Nat
  PROVE  \E h \in [0..n -> Nat] : Weighs(h, s, n)
<1>1. n = Len(s) /\ DOMAIN s = 1..n
  OBVIOUS
<1> DEFINE By(z) == z = [x \in SUBSET DOMAIN s |->
                           IF x = {} THEN 0 ELSE LET i == Max(x) IN z[x \ {i}] + s[i].bytes]
<1>2. PICK step : step = [p \in Nat \X (1..n) |-> p[1] + s[p[2]].bytes]
  OBVIOUS
<1>3. step \in [Nat \X (1..n) -> Nat]
  <2>1. \A i \in 1..n : s[i].bytes \in Nat
    BY <1>1
  <2> QED
    BY <1>2, <2>1
<1>4. \E z : By(z)
  <2>1. PICK z \in [SUBSET (1..n) -> Nat] : Folds(z, 1..n, 0, step)
    BY <1>3, FoldExists
  <2>2. ASSUME NEW x \in SUBSET (1..n), x # {}
        PROVE  z[x] = z[x \ {Max(x)}] + s[Max(x)].bytes
    <3>1. z[x] = step[<<z[x \ {Max(x)}], Max(x)>>] /\ z[x \ {Max(x)}] \in Nat
      BY <2>1, <2>2 DEF Folds
    <3> QED
      BY <1>2, <2>2, <3>1, MaxAmong
  <2>3. z = [x \in SUBSET (1..n) |-> IF x = {} THEN 0 ELSE z[x \ {Max(x)}] + s[Max(x)].bytes]
    BY <2>1, <2>2 DEF Folds
  <2> QED
    BY <1>1, <2>3
<1>5. PICK z : By(z) /\ Weight(s) = z[DOMAIN s]
  <2>1. By(CHOOSE z : By(z))
    BY <1>4
  <2>2. Weight(s) = (CHOOSE z : By(z))[DOMAIN s]
    BY DEF Weight, FoldLeft, MapThenFoldSet
  <2> HIDE DEF By
  <2> QED
    BY <2>1, <2>2
<1>6. FoldsWithin(Nat, z, n, 0, step)
  <2>1. \A x \in SUBSET (1..n) : z[x] = IF x = {} THEN 0 ELSE z[x \ {Max(x)}] + s[Max(x)].bytes
    BY <1>1, <1>5
  <2> QED
    BY <1>2, <2>1, MaxAmong DEF FoldsWithin
<1>7. PICK h \in [0..n -> Nat] : Walks(h, n, 0, step, z[1..n])
  <2> HIDE DEF By
  <2> QED
    BY <1>3, <1>6, FoldIs
<1>8. ASSUME NEW k \in 0..(n - 1) PROVE h[k + 1] = h[k] + s[k + 1].bytes
  <2>1. h[k] \in Nat /\ k + 1 \in 1..n
    OBVIOUS
  <2> QED
    BY <1>2, <1>7, <2>1 DEF Walks
<1> QED
  BY <1>1, <1>5, <1>7, <1>8 DEF Walks, Weighs

(* One file more adds its bytes to the weight. *)
LEMMA WeightAppend ==
  ASSUME NEW R, NEW s \in Seq(R), NEW r \in R, \A x \in R : x.bytes \in Nat
  PROVE  /\ Weight(<<>>) = 0 /\ Weight(s) \in Nat
         /\ Weight(Append(s, r)) = Weight(s) + r.bytes
<1>1. PICK n \in Nat : n = Len(s)
  OBVIOUS
<1>2. PICK longer : longer = Append(s, r)
  OBVIOUS
<1>3. /\ longer \in Seq(R) /\ Len(longer) = n + 1 /\ n + 1 \in Nat
      /\ longer[n + 1] = r /\ \A i \in 1..n : longer[i] = s[i]
  BY <1>1, <1>2
<1>4. Weight(<<>>) = 0
  <2>1. <<>> \in Seq(R) /\ 0 = Len(<<>>) /\ 0 \in Nat
    OBVIOUS
  <2>2. \E h \in [0..0 -> Nat] : Weighs(h, <<>>, 0)
    BY <2>1, WeightFolds
  <2> QED
    BY <2>2 DEF Weighs
<1>5. PICK h \in [0..n -> Nat] : Weighs(h, s, n)
  BY <1>1, WeightFolds
<1>6. PICK g \in [0..(n + 1) -> Nat] : Weighs(g, longer, n + 1)
  BY <1>3, WeightFolds
<1> USE DEF Weighs
<1>7. ASSUME NEW k \in 0..(n - 1), h[k] = g[k] PROVE h[k + 1] = g[k + 1]
  <2>1. k + 1 \in 1..n /\ k \in 0..((n + 1) - 1)
    OBVIOUS
  <2>2. longer[k + 1] = s[k + 1]
    BY <1>3, <2>1
  <2> QED
    BY <1>5, <1>6, <1>7, <2>1, <2>2
<1>8. h[n] = g[n]
  <2> DEFINE T == {k \in 0..n : h[k] = g[k]}
  <2>1. 0 \in T /\ T \in SUBSET (0..n)
    BY <1>5, <1>6
  <2>2. \A k \in 0..(n - 1) : k \in T => k + 1 \in T
    <3>1. \A k \in 0..(n - 1) : k + 1 \in 0..n
      OBVIOUS
    <3> QED
      BY <1>7, <3>1
  <2>3. n \in 0..n
    OBVIOUS
  <2> HIDE DEF T
  <2>4. T = 0..n
    BY <2>1, <2>2, Stepwise
  <2> QED
    BY <2>3, <2>4 DEF T
<1>9. h[n] \in Nat /\ g[n + 1] = g[n] + r.bytes
  <2>1. n \in 0..((n + 1) - 1) /\ n \in 0..n
    OBVIOUS
  <2> QED
    BY <1>3, <1>6, <2>1
<1> QED
  BY <1>2, <1>4, <1>5, <1>6, <1>8, <1>9

(* What a file of the size and of the rate it has may be. *)
Measured(a) ==
  /\ a.bytes \in Nat /\ a.avg \in Nat \X Nat /\ a.base \in Nat \X Nat
  /\ a.ext = "gif" => WholeDelay(a.avg) /\ WholeDelay(a.base)

(* A common factor cancels. *)
LEMMA Cancels ==
  ASSUME NEW a \in Int, NEW b \in Int, NEW c \in Nat \ {0}, a * c <= b * c
  PROVE  a <= b
OBVIOUS

(* It cancels from an equation. *)
LEMMA CancelsEqual ==
  ASSUME NEW a \in Int, NEW b \in Int, NEW c \in Nat \ {0}, a * c = b * c
  PROVE  a = b
BY Cancels

(* It leaves an absolute value. *)
LEMMA AbsScales ==
  ASSUME NEW a \in Int, NEW c \in Nat \ {0}
  PROVE  Abs(a * c) = Abs(a) * c /\ Abs(a) \in Nat
<1>1. CASE a >= 0
  <2>1. a * c >= 0
    BY <1>1
  <2> QED
    BY <1>1, <2>1 DEF Abs
<1>2. CASE a < 0
  <2>1. a * c < 0
    BY <1>2
  <2> QED
    BY <1>2, <2>1 DEF Abs
<1> QED
  BY <1>1, <1>2

(* A delay of n hundredths of a second passes for one of k. *)
Lasts(p, q, n) == p * n = 100 * q

Passes(p, q, n, k) == RateFits(<<p, q>>, <<100, k>>) <=> n = k \/ (n = 101 /\ k = 100)

(* At a whole delay of a centisecond or more, the rate fits where it differs
   by no more than a hundredth of a frame. *)
LEMMA DelayFits ==
  ASSUME NEW p \in Nat \ {0}, NEW q \in Nat \ {0}, NEW n \in Nat \ {0}, Lasts(p, q, n), NEW k \in 1..100
  PROVE  Passes(p, q, n, k)
<1> USE DEF Lasts, Passes
<1>1. PICK d : d = Abs(k - n)
  OBVIOUS
<1>2. d \in Nat /\ (d = 0 <=> n = k) /\ (k >= n => d = k - n) /\ (k < n => d = n - k)
  BY <1>1 DEF Abs
<1>3. PICK apart : apart = Apart(<<p, q>>, <<100, k>>)
  OBVIOUS
<1>4. apart = <<d * p, q * k>>
  <2>1. p * k - 100 * q = (k - n) * p
    BY p * k - p * n = (k - n) * p
  <2>2. Abs((k - n) * p) = d * p
    BY <1>1, AbsScales
  <2> QED
    BY <1>3, <2>1, <2>2 DEF Apart
<1>5. RateFits(<<p, q>>, <<100, k>>) <=> (d * p) * (1000 * k) <= 100 * (q * k) \/ (d * p) * 100 <= 1 * (q * k)
  <2>1. <<p, q>> # NoRate
    BY DEF NoRate
  <2> QED
    BY <1>3, <1>4, <2>1 DEF RateFits, AtMost
<1>6. (d * p) * (1000 * k) <= 100 * (q * k) <=> 1000 * d <= n
  <2>1. PICK c \in Nat \ {0} : c = p * k
    OBVIOUS
  <2>2. 100 * (q * k) = n * c
    BY <2>1
  <2>3. (d * p) * (1000 * k) = (1000 * d) * c
    BY <1>2, <2>1
  <2>4. (1000 * d) * c <= n * c => 1000 * d <= n
    BY <1>2, Cancels
  <2>5. 1000 * d <= n => (1000 * d) * c <= n * c
    BY <1>2
  <2> QED
    BY <2>2, <2>3, <2>4, <2>5
<1>7. (d * p) * 100 <= 1 * (q * k) <=> 10000 * d <= n * k
  <2>1. 100 * (1 * (q * k)) = (n * k) * p
    OBVIOUS
  <2>2. 100 * ((d * p) * 100) = (10000 * d) * p
    BY <1>2
  <2>3. (10000 * d) * p <= (n * k) * p => 10000 * d <= n * k
    BY <1>2, Cancels
  <2>4. 10000 * d <= n * k => (10000 * d) * p <= (n * k) * p
    BY <1>2
  <2> QED
    BY <1>2, <2>1, <2>2, <2>3, <2>4
<1>8. 1000 * d <= n => n = k
  BY <1>2
<1>9. 10000 * d <= n * k => n = k \/ (n = 101 /\ k = 100)
  <2> SUFFICES ASSUME 10000 * d <= n * k, n # k PROVE n = 101 /\ k = 100
    OBVIOUS
  <2>1. CASE n < k
    <3>1. n * k <= 100 * 100 /\ d >= 1 /\ n * k < 100 * 100
      BY <1>2, <2>1
    <3> QED
      BY <1>2, <3>1
  <2>2. CASE n > k
    <3>1. n = k + d /\ d >= 1
      BY <1>2, <2>2
    <3>2. n * k = k * k + d * k
      BY <1>2, <3>1
    <3>3. k * k <= 10000 /\ d * k <= d * 100
      BY <1>2
    <3>4. d * 9900 <= 10000
      BY <1>2, <3>2, <3>3
    <3>5. d = 1
      BY <1>2, <3>1, <3>4
    <3>6. k # 100 => k * k <= 99 * 99 /\ k <= 99
      OBVIOUS
    <3> QED
      BY <3>1, <3>2, <3>5, <3>6
  <2> QED
    BY <2>1, <2>2
<1>10. n = 101 /\ k = 100 => 10000 * d <= n * k
  BY <1>2
<1>11. n = k => 1000 * d <= n
  BY <1>2
<1> QED
  BY <1>5, <1>6, <1>7, <1>8, <1>9, <1>10, <1>11

(* The two whole delays around 100/fps. *)
Around(fast, slow, fps) ==
  /\ fast \in 1..100 /\ slow \in 1..100 /\ (slow = fast \/ slow = fast + 1)
  /\ fps > 100 => fast = 1 /\ slow = 1
  /\ fps <= 100 => /\ fast * fps <= 100 /\ 100 < (fast + 1) * fps
                   /\ (slow - 1) * fps < 100 /\ 100 <= slow * fps

(* The delays FFmpeg chooses between are those next to the asked one. *)
LEMMA Delays ==
  ASSUME NEW fps \in Nat \ {0}, NEW fast, fast = IF fps > 100 THEN 1 ELSE 100 \div fps,
         NEW slow, slow = (99 + fps) \div fps
  PROVE  Around(fast, slow, fps)
<1>1. slow \in Nat /\ slow * fps <= 99 + fps /\ 99 + fps < (slow + 1) * fps
  OBVIOUS
<1>2. CASE fps > 100
  <2>1. fast = 1
    BY <1>2
  <2>2. slow >= 1 
    BY <1>1, <1>2, Cancels
  <2>3. slow < 2
    <3>1. 2 * fps > 99 + fps
      BY <1>2
    <3>2. 2 <= slow => 2 * fps <= slow * fps
      BY <1>1
    <3> QED
      BY <1>1, <3>1, <3>2
  <2> QED
    BY <1>1, <1>2, <2>1, <2>2, <2>3 DEF Around
<1>3. CASE fps <= 100
  <2>1. fast \in Nat /\ fast * fps <= 100 /\ 100 < (fast + 1) * fps
    BY <1>3
  <2>2. (slow - 1) * fps <= 99 /\ 100 <= slow * fps
    BY <1>1
  <2>3. fast >= 1
    BY <1>3, <2>1
  <2>4. fast <= slow
    <3>1. fast >= slow + 1 => fast * fps >= (slow + 1) * fps
      BY <1>1, <2>1
    <3>2. (slow + 1) * fps > 100
      BY <1>1, <2>2
    <3> QED
      BY <1>1, <2>1, <3>1, <3>2
  <2>5. slow <= fast + 1
    <3>1. slow - 1 >= fast + 1 => (slow - 1) * fps >= (fast + 1) * fps
      BY <1>1, <2>1
    <3> QED
      BY <1>1, <2>1, <2>2, <3>1
  <2>6. slow <= 100
    <3>1. slow - 1 >= 100 => (slow - 1) * fps >= 100 * fps
      BY <1>1
    <3> QED
      BY <1>1, <2>2, <3>1
  <2>7. fast <= 100
    BY <2>4, <2>6, <1>1, <2>1
  <2> QED
    BY <1>1, <1>3, <2>1, <2>2, <2>3, <2>4, <2>5, <2>6, <2>7 DEF Around
<1> QED
  BY <1>2, <1>3

(* The check of a GIF's rate (expected_gif_fps) is right: it accepts the rates
   a whole delay next to the asked one plays at. *)
LEMMA GifFits ==
  ASSUME NEW p \in Nat \ {0}, NEW q \in Nat \ {0}, NEW n \in Nat \ {0}, p * n = 100 * q, NEW fps \in Nat \ {0}
  PROVE  RateFits(<<p, q>>, GifRate(fps, <<p, q>>)) <=> GifPlays(<<p, q>>, fps)
<1>1. PICK fast : fast = IF fps > 100 THEN 1 ELSE 100 \div fps
  OBVIOUS
<1>2. PICK slow : slow = (99 + fps) \div fps
  OBVIOUS
<1>3. /\ fast \in 1..100 /\ slow \in 1..100 /\ (slow = fast \/ slow = fast + 1)
      /\ fps > 100 => fast = 1 /\ slow = 1
      /\ fps <= 100 => /\ fast * fps <= 100 /\ 100 < (fast + 1) * fps
                       /\ (slow - 1) * fps < 100 /\ 100 <= slow * fps
  <2>1. Around(fast, slow, fps)
    BY <1>1, <1>2, Delays
  <2> QED
    BY <2>1 DEF Around
<1>4. PICK rate : rate = GifRate(fps, <<p, q>>)
  OBVIOUS
<1>5. PICK k \in {fast, slow} : rate = <<100, k>> /\ (n \in {fast, slow} => k = n)
  <2>1. \A j \in 1..100 : Apart(<<100, j>>, <<p, q>>) = <<Abs(n - j) * p, j * q>>
    <3> TAKE j \in 1..100
    <3>1. 100 * q - p * j = (n - j) * p
      BY p * n - p * j = (n - j) * p
    <3>2. Abs((n - j) * p) = Abs(n - j) * p
      BY AbsScales
    <3> QED
      BY <3>1, <3>2 DEF Apart
  <2>2. rate = IF AtMost(Apart(<<100, fast>>, <<p, q>>), Apart(<<100, slow>>, <<p, q>>)) THEN <<100, fast>>
                                                                                       ELSE <<100, slow>>
    <3>1. <<p, q>> # NoRate
      BY DEF NoRate
    <3> QED
      BY <1>1, <1>2, <1>4, <3>1 DEF GifRate
  <2>3. PICK f \in Nat, s \in Nat : f = Abs(n - fast) /\ s = Abs(n - slow) /\ (f = 0 <=> n = fast) /\ (s = 0 <=> n = slow)
    <3>1. PICK x \in Int, y \in Int : x = n - fast /\ y = n - slow
      BY <1>3
    <3>2. Abs(x) \in Nat /\ Abs(y) \in Nat /\ (Abs(x) = 0 <=> x = 0) /\ (Abs(y) = 0 <=> y = 0)
      BY DEF Abs
    <3>3. (x = 0 <=> n = fast) /\ (y = 0 <=> n = slow)
      BY <1>3, <3>1
    <3> QED
      BY <3>1, <3>2, <3>3
  <2>4. AtMost(Apart(<<100, fast>>, <<p, q>>), Apart(<<100, slow>>, <<p, q>>))
          <=> (f * p) * (slow * q) <= (s * p) * (fast * q)
    <3>1. Apart(<<100, fast>>, <<p, q>>) = <<f * p, fast * q>> /\ Apart(<<100, slow>>, <<p, q>>) = <<s * p, slow * q>>
      BY <1>3, <2>1, <2>3
    <3>2. <<f * p, fast * q>>[1] = f * p /\ <<f * p, fast * q>>[2] = fast * q
          /\ <<s * p, slow * q>>[1] = s * p /\ <<s * p, slow * q>>[2] = slow * q
      OBVIOUS
    <3> QED
      BY <3>1, <3>2 DEF AtMost
  <2>5. n = fast => (f * p) * (slow * q) <= (s * p) * (fast * q)
    <3>1. n = fast => (f * p) * (slow * q) = 0
      BY <1>3, <2>3
    <3>2. (s * p) * (fast * q) >= 0
      BY <1>3
    <3> QED
      BY <3>1, <3>2
  <2>6. n = slow /\ n # fast => ~ ((f * p) * (slow * q) <= (s * p) * (fast * q))
    <3>1. n = slow => (s * p) * (fast * q) = 0
      BY <1>3, <2>3
    <3>2. n # fast => f * p > 0 /\ f * p \in Nat
      BY <2>3
    <3>3. slow * q > 0 /\ slow * q \in Nat
      BY <1>3
    <3>4. n # fast => (f * p) * (slow * q) > 0
      BY <3>2, <3>3
    <3> QED
      BY <3>1, <3>4
  <2> QED
    BY <2>2, <2>4, <2>5, <2>6
<1>6. RateFits(<<p, q>>, rate) <=> n = k \/ (n = 101 /\ k = 100)
  <2>1. k \in 1..100
    BY <1>3
  <2>2. PICK j \in 1..100 : j = k
    BY <2>1
  <2>3. RateFits(<<p, q>>, <<100, j>>) <=> n = j \/ (n = 101 /\ j = 100)
    <3>1. Lasts(p, q, n)
      BY DEF Lasts
    <3>2. Passes(p, q, n, j)
      BY <3>1, DelayFits
    <3> QED
      BY <3>2 DEF Passes
  <2>4. rate = <<100, j>>
    BY <1>5, <2>2
  <2> QED
    BY <2>2, <2>3, <2>4
<1>7. Near(<<p, q>>, fps) <=> (n = 100 /\ fps = 1) \/ (n = 101 /\ fps = 1) \/ fps * n = 100
  <2>1. PICK d \in Nat : d = Abs(100 - fps * n)
    BY DEF Abs
  <2>2. Abs(p - fps * q) * 100 = d * p
    <3>1. 100 * (p - fps * q) = (100 - fps * n) * p
      <4>1. 100 * (fps * q) = (fps * n) * p
        OBVIOUS
      <4>2. 100 * (p - fps * q) = 100 * p - 100 * (fps * q)
        OBVIOUS
      <4>3. (100 - fps * n) * p = 100 * p - (fps * n) * p
        OBVIOUS
      <4> QED
        BY <4>1, <4>2, <4>3
    <3>2. Abs((100 - fps * n) * p) = d * p
      BY <2>1, AbsScales
    <3>3. Abs((p - fps * q) * 100) = Abs(p - fps * q) * 100
      BY AbsScales
    <3>4. (p - fps * q) * 100 = 100 * (p - fps * q)
      OBVIOUS
    <3> QED
      BY <3>1, <3>2, <3>3, <3>4
  <2>3. Near(<<p, q>>, fps) <=> d * p <= q
    BY <2>2 DEF Near
  <2>4. d * p <= q <=> 100 * d <= n
    <3>1. 100 * (d * p) = (100 * d) * p /\ 100 * q = n * p
      OBVIOUS
    <3>2. (100 * d) * p <= n * p => 100 * d <= n
      BY Cancels
    <3>3. 100 * d <= n => (100 * d) * p <= n * p
      OBVIOUS
    <3> QED
      BY <3>1, <3>2, <3>3
  <2>5. fps = 1 => (100 * d <= n <=> n \in {100, 101})
    BY <2>1 DEF Abs
  <2>6. fps >= 2 => (100 * d <= n <=> fps * n = 100)
    <3>1. fps >= 2 => fps * n >= 2 * n
      OBVIOUS
    <3>2. PICK m \in Nat : m = fps * n
      OBVIOUS
    <3> QED
      BY <2>1, <3>1, <3>2 DEF Abs
  <2> QED
    BY <2>3, <2>4, <2>5, <2>6
<1>8. (\E i \in 1..100 : /\ p * i = 100 * q
                         /\ \/ (i - 1) * fps < 100 /\ 100 < (i + 1) * fps
                            \/ fps > 100 /\ i = 1)
      <=> n \in {fast, slow}
  <2>1. ASSUME NEW i \in 1..100, p * i = 100 * q PROVE i = n
    BY <2>1, CancelsEqual
  <2>2. ASSUME n \in 1..100, (n - 1) * fps < 100, 100 < (n + 1) * fps PROVE n \in {fast, slow}
    <3>1. CASE fps > 100
      <4>1. n - 1 < 1
        <5>1. n - 1 >= 1 => (n - 1) * fps >= fps
          OBVIOUS
        <5> QED
          BY <2>2, <3>1, <5>1
      <4> QED
        BY <1>3, <3>1, <4>1
    <3>2. CASE fps <= 100
      <4>1. n <= slow
        <5>1. n - 1 >= slow => (n - 1) * fps >= slow * fps
          BY <1>3
        <5> QED
          BY <1>3, <2>2, <3>2, <5>1
      <4>2. n >= fast
        <5>1. n + 1 <= fast => (n + 1) * fps <= fast * fps
          BY <1>3
        <5> QED
          BY <1>3, <2>2, <3>2, <5>1
      <4> QED
        BY <1>3, <4>1, <4>2
    <3> QED
      BY <3>1, <3>2
  <2>3. ASSUME n \in {fast, slow}
        PROVE  n \in 1..100 /\ (((n - 1) * fps < 100 /\ 100 < (n + 1) * fps) \/ (fps > 100 /\ n = 1))
    <3>1. n \in 1..100
      BY <1>3, <2>3
    <3>2. fps > 100 => n = 1
      BY <1>3, <2>3
    <3>3. ASSUME fps <= 100 PROVE (n - 1) * fps < 100 /\ 100 < (n + 1) * fps
      <4>1. (n - 1) * fps <= (slow - 1) * fps
        BY <1>3, <2>3
      <4>2. (fast + 1) * fps <= (n + 1) * fps
        BY <1>3, <2>3
      <4> QED
        BY <1>3, <3>1, <3>3, <4>1, <4>2
    <3> QED
      BY <3>1, <3>2, <3>3
  <2> QED
    BY <2>1, <2>2, <2>3
<1>9. GifPlays(<<p, q>>, fps) <=> n \in {fast, slow} \/ (n = 101 /\ fps = 1)
  <2>1. fps = 1 => fast = 100 /\ slow = 100
    BY <1>3
  <2>2. fps * n = 100 => n = slow
    <3>1. fps * n = 100 => fps <= 100
      OBVIOUS
    <3>2. fps * n = 100 /\ n > slow => (n - 1) * fps >= slow * fps
      BY <1>3
    <3>3. fps * n = 100 /\ n < slow => n * fps <= (slow - 1) * fps
      BY <1>3
    <3>4. (n - 1) * fps = fps * n - fps /\ n * fps = fps * n
      OBVIOUS
    <3>5. fps * n = 100 => ~ (n > slow) /\ ~ (n < slow)
      <4>1. ASSUME fps * n = 100, n > slow PROVE FALSE
        BY <1>3, <3>1, <3>2, <3>4, <4>1
      <4>2. ASSUME fps * n = 100, n < slow PROVE FALSE
        BY <1>3, <3>1, <3>3, <3>4, <4>2
      <4> QED
        BY <4>1, <4>2
    <3> QED
      BY <1>3, <3>5
  <2>3. GifPlays(<<p, q>>, fps) <=> n \in {fast, slow} \/ Near(<<p, q>>, fps)
    BY <1>8 DEF GifPlays
  <2>4. n = 100 /\ fps = 1 => n \in {fast, slow}
    BY <2>1
  <2>5. fps * n = 100 => n \in {fast, slow}
    BY <2>2
  <2> QED
    BY <1>7, <2>3, <2>4, <2>5, Zenon
<1>10. k = 100 <=> fps = 1
  <2>1. fps = 1 => fast = 100 /\ slow = 100
    BY <1>3
  <2>2. fps >= 2 => slow <= 50
    <3>1. fps >= 2 /\ slow >= 51 => (slow - 1) * fps >= 50 * 2
      BY <1>3
    <3> QED
      BY <1>3, <3>1
  <2> QED
    BY <1>3, <2>1, <2>2
<1>11. n = k <=> n \in {fast, slow}
  BY <1>5
<1>12. RateFits(<<p, q>>, rate) <=> GifPlays(<<p, q>>, fps)
  BY <1>6, <1>9, <1>10, <1>11, Zenon
<1> QED
  BY <1>4, <1>12, Zenon

(* The check of a video's rate is right. *)
LEMMA VideoFits ==
  ASSUME NEW p \in Nat \ {0}, NEW q \in Nat \ {0}, NEW fps \in Nat \ {0}
  PROVE  RateFits(<<p, q>>, <<fps, 1>>) <=> VideoPlays(<<p, q>>, fps)
<1>1. PICK d \in Nat : d = Abs(p - fps * q)
  <2>1. PICK x \in Int : x = p - fps * q
    OBVIOUS
  <2>2. Abs(x) \in Nat
    BY DEF Abs
  <2> QED
    BY <2>1, <2>2
<1>2. Apart(<<p, q>>, <<fps, 1>>) = <<d, q>>
  BY <1>1 DEF Apart
<1>3. <<p, q>> # NoRate
  BY DEF NoRate
<1>4. RateFits(<<p, q>>, <<fps, 1>>) <=> d * 1000 <= fps * q \/ d * 100 <= q
  BY <1>2, <1>3 DEF RateFits, AtMost
<1> QED
  BY <1>1, <1>4 DEF VideoPlays, Near
Played(a) == IF IsRate(a.avg) THEN a.avg ELSE a.base
AskedRate(a) == IF task.format = "gif" THEN GifRate(task.fps, Fps(a)) ELSE <<task.fps, 1>>
Plays(a) == /\ IsRate(Played(a))
            /\ IF task.format = "gif" THEN GifPlays(Played(a), task.fps) ELSE VideoPlays(Played(a), task.fps)

(* So the check of the rate of what a job made is right. *)
LEMMA RateIs ==
  ASSUME NEW a, Measured(a), a.ext \in Moving, a.ext = task.format, task.fps \in Nat \ {0}
  PROVE  RateFits(Fps(a), AskedRate(a)) <=> Plays(a)
<1>1. PICK played : played = Played(a)
  OBVIOUS
<1>2. /\ played \in Nat \X Nat /\ Fps(a) = (IF IsRate(played) THEN played ELSE NoRate)
      /\ a.ext = "gif" => WholeDelay(played)
  BY <1>1 DEF Played, Fps, Measured
<1>3. PICK p \in Nat, q \in Nat : played = <<p, q>>
  BY <1>2
<1>4. PICK fps \in Nat \ {0} : fps = task.fps
  OBVIOUS
<1>5. CASE ~ IsRate(played)
  <2>1. Fps(a) = NoRate
    BY <1>2, <1>5
  <2>2. ~ RateFits(Fps(a), AskedRate(a))
    BY <2>1 DEF RateFits
  <2>3. ~ Plays(a)
    BY <1>1, <1>5 DEF Plays
  <2> QED
    BY <2>2, <2>3
<1>6. CASE IsRate(played)
  <2>1. p \in Nat \ {0} /\ q \in Nat \ {0} /\ Fps(a) = <<p, q>>
    BY <1>2, <1>3, <1>6 DEF IsRate
  <2>2. CASE task.format = "gif"
    <3>1. (100 * q) % p = 0
      BY <1>2, <1>3, <2>1, <2>2 DEF WholeDelay
    <3>2. PICK n : n = (100 * q) \div p
      OBVIOUS
    <3>3. n \in Nat \ {0} /\ p * n = 100 * q
      <4>1. PICK x \in Nat \ {0} : x = 100 * q
        BY <2>1
      <4>2. n = x \div p /\ x % p = 0
        BY <3>1, <3>2, <4>1
      <4>3. n \in Nat /\ x = p * n
        BY <2>1, <4>2
      <4> QED
        BY <4>1, <4>3
    <3>4. RateFits(<<p, q>>, GifRate(fps, <<p, q>>)) <=> GifPlays(<<p, q>>, fps)
      BY <2>1, <3>3, GifFits
    <3>5. AskedRate(a) = GifRate(fps, <<p, q>>)
      BY <1>4, <2>1, <2>2 DEF AskedRate
    <3>6. Plays(a) <=> GifPlays(<<p, q>>, fps)
      BY <1>1, <1>3, <1>4, <1>6, <2>2 DEF Plays
    <3> QED
      BY <2>1, <3>4, <3>5, <3>6, Zenon
  <2>3. CASE task.format # "gif"
    <3>1. RateFits(<<p, q>>, <<fps, 1>>) <=> VideoPlays(<<p, q>>, fps)
      BY <2>1, VideoFits
    <3>2. AskedRate(a) = <<fps, 1>>
      BY <1>4, <2>3 DEF AskedRate
    <3>3. Plays(a) <=> VideoPlays(<<p, q>>, fps)
      BY <1>1, <1>3, <1>4, <1>6, <2>3 DEF Plays
    <3> QED
      BY <2>1, <3>1, <3>2, <3>3, Zenon
  <2> QED
    BY <2>2, <2>3
<1> QED
  BY <1>5, <1>6

(* What is asked of a render. *)
Asked == task.op = "render" => task.fps \in Nat \ {0} /\ task.format \in Moving

(* And all of the check of a render. *)
LEMMA VideoIs ==
  ASSUME Asked, NEW a, Measured(a), task.op = "render", a.kind = "video"
  PROVE  /\ Examined(a) = "fine" => VideoIsAsAsked(a)
         /\ VideoIsAsAsked(a) => Examined(a) # "contract"
<1>1. task.fps \in Nat \ {0} /\ task.format \in Moving
  BY DEF Asked
<1>2. Mismatches(a) = Size(a, task.width, task.height) \cup Differs("container", a.ext # task.format)
                      \cup Rate(a, AskedRate(a)) \cup Alpha(a, task.alpha)
  BY DEF Mismatches, AskedRate
<1>3. /\ Size(a, task.width, task.height) = {} <=> a.width = task.width /\ a.height = task.height
      /\ Differs("container", a.ext # task.format) = {} <=> a.ext = task.format
      /\ Rate(a, AskedRate(a)) = {} <=> RateFits(Fps(a), AskedRate(a))
      /\ Alpha(a, task.alpha) = {} <=> (task.alpha => HasAlpha(a))
  BY DEF Size, Differs, Rate, Alpha
<1>4. Mismatches(a) = {} <=> /\ a.width = task.width /\ a.height = task.height /\ a.ext = task.format
                             /\ RateFits(Fps(a), AskedRate(a)) /\ (task.alpha => HasAlpha(a))
  BY <1>2, <1>3
<1>5. VideoIsAsAsked(a) <=> /\ a.probes /\ a.stream /\ a.families \cap Families(a.ext) # {}
                            /\ a.width = task.width /\ a.height = task.height /\ a.ext = task.format
                            /\ Plays(a) /\ (task.alpha => HasAlpha(a))
  BY DEF VideoIsAsAsked, Plays, Played, HasAlpha
<1>6. a.ext = task.format => (RateFits(Fps(a), AskedRate(a)) <=> Plays(a))
  BY <1>1, RateIs
<1>7. a.kind \in AllowedKinds(task.op) /\ a.kind \in Visual
  BY DEF AllowedKinds, Visual
<1>8. /\ Inspected(a) = "fine" => a.ext \in Moving /\ Measurable(a)
      /\ a.ext \in Moving => Inspected(a) \in {"fine", "probe"}
  BY DEF Inspected
<1>9. Confined(a) \in {"missing", "location", "fine"}
  BY DEF Confined
<1>10. ASSUME Examined(a) = "fine" PROVE VideoIsAsAsked(a)
  <2>1. Inspected(a) = "fine" /\ Mismatches(a) = {}
    BY <1>7, <1>10 DEF Examined
  <2> QED
    BY <1>4, <1>5, <1>6, <1>8, <2>1 DEF Measurable
<1>11. ASSUME VideoIsAsAsked(a), Examined(a) = "contract" PROVE FALSE
  <2>1. a.ext \in Moving /\ Mismatches(a) = {}
    BY <1>1, <1>4, <1>5, <1>6, <1>11
  <2> QED
    BY <1>7, <1>8, <1>9, <1>11, <2>1 DEF Examined
<1> QED
  BY <1>10, <1>11

(* Every result is one of the jobs', checked up to the next file; what ends the
   check is what it found. *)
Checked == next - 1
Verdict(i) == Examined(result[i])
CheckInv ==
  /\ \E c \in Cases : task = c.task /\ result = c.result /\ report = c.report
  /\ next \in 1..(Len(result) + 1) /\ total = Weight(SubSeq(result, 1, Checked))
  /\ \A i \in 1..Checked : Verdict(i) = "fine"
  /\ verdict = "accepted" => next \notin Files /\ total <= Budget
  /\ verdict = "contract" => \/ Objection = "contract"
                             \/ \E i \in Files : Verdict(i) = "contract"

(* Every file of a result was measured. *)
LEMMA ResultIs ==
  ASSUME CheckInv
  PROVE  /\ Asked /\ \E R : result \in Seq(R) /\ \A a \in R : Measured(a)
<1>1. PICK c \in Cases : task = c.task /\ result = c.result
  BY DEF CheckInv
<1>2. /\ c.task.op = "render" => c.task.fps \in Nat \ {0} /\ c.task.format \in {"mp4", "mov", "webm", "gif"}
      /\ c.result \in Seq({c.result[i] : i \in DOMAIN c.result})
      /\ \A i \in DOMAIN c.result :
           /\ c.result[i].bytes \in Nat /\ {c.result[i].avg, c.result[i].base} \subseteq Nat \X Nat
           /\ c.result[i].ext = "gif" => WholeDelay(c.result[i].avg) /\ WholeDelay(c.result[i].base)
  BY CheckAssumption
<1>3. Asked
  BY <1>1, <1>2 DEF Asked, Moving
<1>4. \A a \in {result[i] : i \in DOMAIN result} : Measured(a)
  <2>1. ASSUME NEW i \in DOMAIN c.result PROVE Measured(c.result[i])
    BY <1>2, <2>1 DEF Measured
  <2> QED
    BY <1>1, <2>1
<1> QED
  BY <1>1, <1>2, <1>3, <1>4

(* A job starts with the invariant. *)
LEMMA InitCheckInv == CheckInit => CheckInv
<1> SUFFICES ASSUME CheckInit PROVE CheckInv
  OBVIOUS
<1>1. PICK c \in Cases : task = c.task /\ result = c.result /\ report = c.report
  BY DEF CheckInit
<1>2. PICK R : R = {result[i] : i \in DOMAIN result}
  OBVIOUS
<1>3. result \in Seq(R)
  BY <1>1, <1>2, CheckAssumption
<1>4. Len(result) \in Nat /\ next \in 1..(Len(result) + 1) /\ Checked = 0
  BY <1>3 DEF CheckInit, Checked
<1>5. total = Weight(SubSeq(result, 1, Checked))
  <2>1. SubSeq(result, 1, 0) = <<>>
    BY <1>3
  <2>2. Weight(<<>>) = 0
    <3>1. PICK z : z = [bytes |-> 0]
      OBVIOUS
    <3>2. <<>> \in Seq({z}) /\ z \in {z} /\ \A x \in {z} : x.bytes \in Nat
      BY <3>1
    <3> QED
      BY <3>2, WeightAppend
  <2> QED
    BY <1>4, <2>1, <2>2 DEF CheckInit
<1> QED
  BY <1>1, <1>4, <1>5 DEF CheckInit, CheckInv

(* Every step keeps it. *)
LEMMA CheckInvStep == CheckInv /\ [CheckNext]_checkVars => CheckInv'
<1> SUFFICES ASSUME CheckInv, CheckNext \/ UNCHANGED checkVars PROVE CheckInv'
  OBVIOUS
<1>1. PICK R : result \in Seq(R) /\ \A a \in R : Measured(a)
  BY ResultIs
<1>2. PICK n \in Nat : n = Len(result)
  BY <1>1
<1>3. next \in 1..(n + 1) /\ Checked \in 0..n /\ Checked = next - 1
  BY <1>2 DEF CheckInv, Checked
<1>4. Budget \in Nat
  BY CheckAssumption
<1>5. total \in Nat
  <2>1. PICK s : s = SubSeq(result, 1, Checked)
    OBVIOUS
  <2>2. s \in Seq(R)
    BY <1>1, <1>2, <1>3, <2>1
  <2>3. \A x \in R : x.bytes \in Nat
    BY <1>1 DEF Measured
  <2>4. Weight(s) \in Nat
    <3>1. CASE R = {}
      <4>1. PICK z : z = [bytes |-> 0]
        OBVIOUS
      <4>2. s \in Seq({z}) /\ z \in {z} /\ \A x \in {z} : x.bytes \in Nat
        BY <2>2, <3>1, <4>1
      <4> QED
        BY <4>2, WeightAppend
    <3>2. CASE R # {}
      <4>1. PICK r \in R : TRUE
        BY <3>2
      <4> QED
        BY <2>2, <2>3, WeightAppend
    <3> QED
      BY <3>1, <3>2
  <2> QED
    BY <2>1, <2>4 DEF CheckInv
<1>6. UNCHANGED <<task, result, report>>
  BY DEF CheckNext, RejectAll, Examine, Conclude, checkVars
<1>7. Objection' = Objection /\ Files' = Files /\ \A i : Verdict(i)' = Verdict(i)
  BY <1>6 DEF Objection, Files, Verdict, Examined, Mismatches
<1>8. \E c \in Cases : task' = c.task /\ result' = c.result /\ report' = c.report
  BY <1>6 DEF CheckInv
<1>9. /\ \A i \in 1..Checked : Verdict(i) = "fine"
      /\ verdict = "accepted" => next \notin Files /\ total <= Budget
      /\ verdict = "contract" => Objection = "contract" \/ \E i \in Files : Verdict(i) = "contract"
  BY DEF CheckInv
<1>10. CASE UNCHANGED <<next, total>>
  <2>1. Checked' = Checked
    BY <1>10 DEF Checked
  <2>2. next' \in 1..(Len(result') + 1) /\ total' = Weight(SubSeq(result', 1, Checked'))
    BY <1>6, <1>10, <2>1 DEF CheckInv
  <2>3. \A i \in 1..Checked' : Verdict(i)' = "fine"
    BY <1>7, <1>9, <2>1
  <2>4. verdict' = "accepted" => next' \notin Files' /\ total' <= Budget
    <3>1. CASE Conclude
      BY <1>4, <1>5, <1>7, <1>10, <3>1 DEF Conclude
    <3>2. CASE verdict' # "accepted"
      BY <3>2
    <3>3. CASE UNCHANGED checkVars
      BY <1>7, <1>9, <3>3 DEF checkVars
    <3>4. verdict' = "accepted" => Conclude \/ UNCHANGED checkVars
      <4>1. Objection # "accepted"
        BY DEF Objection
      <4>2. \A i : Verdict(i) # "accepted"
        <5>1. ASSUME NEW a, Examined(a) = "accepted" PROVE FALSE
          <6>1. a.kind \in AllowedKinds(task.op)
            BY <5>1 DEF Examined
          <6>2. a.kind \in {"video", "section", "image", "sheet", "archive", "captions", "timeline", "file"}
            BY <6>1 DEF AllowedKinds
          <6>3. Inspected(a) # "accepted"
            BY <6>2 DEF Inspected
          <6>4. Confined(a) # "accepted"
            BY DEF Confined
          <6> QED
            BY <5>1, <6>3, <6>4 DEF Examined
        <5> QED
          BY <5>1 DEF Verdict
      <4>3. Examine => verdict' # "accepted"
        BY <4>2 DEF Examine, Verdict
      <4>4. RejectAll => verdict' # "accepted"
        BY <4>1 DEF RejectAll
      <4> QED
        BY <4>3, <4>4 DEF CheckNext
    <3> QED
      BY <3>1, <3>2, <3>3, <3>4
  <2>5. verdict' = "contract" => Objection' = "contract" \/ \E i \in Files' : Verdict(i)' = "contract"
    <3>1. CASE RejectAll
      BY <1>7, <3>1 DEF RejectAll
    <3>2. CASE Examine
      <4>1. verdict' = "contract" => verdict = "contract" \/ Verdict(next) = "contract"
        BY <3>2 DEF Examine, Verdict
      <4>2. PICK i \in Files : i = next
        BY <3>2 DEF Examine
      <4>3. Verdict(i) = Verdict(next)
        BY <4>2 DEF Verdict
      <4> QED
        BY <1>7, <1>9, <4>1, <4>2, <4>3
    <3>3. CASE Conclude
      BY <3>3 DEF Conclude
    <3>4. CASE UNCHANGED checkVars
      BY <1>7, <1>9, <3>4 DEF checkVars
    <3> QED
      BY <3>1, <3>2, <3>3, <3>4 DEF CheckNext
  <2> QED
    BY <1>8, <2>2, <2>3, <2>4, <2>5 DEF CheckInv
<1>11. CASE Examine /\ ~ UNCHANGED <<next, total>>
  <2>1. next \in Files /\ Verdict(next) = "fine" /\ next' = next + 1 /\ total' = total + result[next].bytes
        /\ verdict' = "none"
    BY <1>11 DEF Examine, Verdict
  <2>2. PICK k \in 1..n : k = next
    BY <1>2, <2>1 DEF Files
  <2>3. PICK s : s = SubSeq(result, 1, k - 1)
    OBVIOUS
  <2>4. PICK t : t = SubSeq(result, 1, k)
    OBVIOUS
  <2>5. PICK r \in R : r = result[k]
    BY <1>1, <1>2
  <2>6. s \in Seq(R) /\ Len(s) = k - 1 /\ \A i \in 1..(k - 1) : s[i] = result[i]
    BY <1>1, <1>2, <2>3
  <2>7. t \in Seq(R) /\ Len(t) = k /\ \A i \in 1..k : t[i] = result[i]
    BY <1>1, <1>2, <2>4
  <2>8. t = Append(s, r)
    <3>1. PICK longer : longer = Append(s, r)
      OBVIOUS
    <3>2. longer \in Seq(R) /\ Len(longer) = k /\ longer[k] = r /\ \A i \in 1..(k - 1) : longer[i] = s[i]
      BY <2>6, <3>1
    <3>3. \A i \in 1..k : i = k \/ i \in 1..(k - 1)
      OBVIOUS
    <3>4. \A i \in 1..k : longer[i] = t[i]
      BY <2>5, <2>6, <2>7, <3>2, <3>3
    <3>5. longer = [i \in 1..k |-> t[i]] /\ t = [i \in 1..k |-> t[i]]
      BY <2>7, <3>2, <3>4
    <3> QED
      BY <3>1, <3>5
  <2>9. Weight(t) = Weight(s) + r.bytes
    <3>1. \A x \in R : x.bytes \in Nat
      BY <1>1 DEF Measured
    <3> QED
      BY <2>6, <2>8, <3>1, WeightAppend
  <2>10. Checked = k - 1 /\ Checked' = k
    BY <2>1, <2>2 DEF Checked
  <2>11. total' = Weight(SubSeq(result', 1, Checked'))
    <3>1. total = Weight(s)
      BY <2>3, <2>10 DEF CheckInv
    <3>2. SubSeq(result', 1, Checked') = t
      BY <1>6, <2>4, <2>10
    <3> QED
      BY <2>1, <2>2, <2>5, <2>9, <3>1, <3>2
  <2>12. \A i \in 1..Checked' : Verdict(i)' = "fine"
    <3>1. \A i \in 1..k : i = k \/ i \in 1..(k - 1)
      OBVIOUS
    <3> QED
      BY <1>7, <1>9, <2>1, <2>2, <2>10, <3>1
  <2>13. next' \in 1..(Len(result') + 1)
    BY <1>2, <1>6, <2>1, <2>2
  <2> QED
    BY <1>8, <2>1, <2>11, <2>12, <2>13 DEF CheckInv
<1>12. UNCHANGED <<next, total>> \/ Examine
  BY DEF CheckNext, RejectAll, Conclude, checkVars
<1> QED
  BY <1>10, <1>11, <1>12

(* It gives the property: what was accepted is what was asked for. *)
LEMMA CheckInvAccepts == CheckInv => AcceptedIsAsAsked
<1> SUFFICES ASSUME CheckInv PROVE AcceptedIsAsAsked
  OBVIOUS
<1>1. PICK R : result \in Seq(R) /\ \A a \in R : Measured(a)
  BY ResultIs
<1>2. PICK n \in Nat : n = Len(result)
  BY <1>1
<1>3. \A i \in Files : Measured(result[i])
  BY <1>1 DEF Files
<1>4. Asked
  BY ResultIs
<1>5. ASSUME verdict = "accepted"
      PROVE  /\ \A i \in Files : result[i].place = Location(task) /\ (result[i].bytes > 0 \/ result[i].kind = "file")
             /\ Weight(result) <= Budget
             /\ task.op = "render" => \A i \in Files : result[i].kind = "video" => VideoIsAsAsked(result[i])
  <2>1. next \notin Files /\ total <= Budget /\ next \in 1..(n + 1) /\ total = Weight(SubSeq(result, 1, Checked))
    BY <1>2, <1>5 DEF CheckInv
  <2>2. Checked = n
    BY <1>2, <2>1 DEF Checked, Files
  <2>3. SubSeq(result, 1, n) = result
    <3>1. SubSeq(result, 1, n) = [i \in 1..n |-> result[i]]
      BY <1>1, <1>2
    <3>2. result = [i \in 1..n |-> result[i]]
      BY <1>1, <1>2
    <3> QED
      BY <3>1, <3>2
  <2>4. ASSUME NEW i \in Files PROVE Examined(result[i]) = "fine"
    BY <1>2, <2>2, <2>4 DEF CheckInv, Verdict, Files
  <2>5. \A i \in Files : result[i].place = Location(task) /\ (result[i].bytes > 0 \/ result[i].kind = "file")
    <3> TAKE i \in Files
    <3>1. PICK a : a = result[i]
      OBVIOUS
    <3>2. Examined(a) = "fine" /\ a.bytes \in Nat
      BY <1>3, <2>4, <3>1 DEF Measured
    <3>3. a.place = Location(task) /\ ~(a.bytes = 0 /\ a.kind # "file")
      BY <3>2 DEF Examined
    <3> QED
      BY <3>1, <3>2, <3>3
  <2>6. ASSUME task.op = "render", NEW i \in Files, result[i].kind = "video" PROVE VideoIsAsAsked(result[i])
    <3>1. PICK a : a = result[i]
      OBVIOUS
    <3>2. VideoIsAsAsked(a)
      BY <1>3, <1>4, <2>4, <2>6, <3>1, VideoIs
    <3> QED
      BY <3>1, <3>2
  <2> QED
    BY <2>1, <2>2, <2>3, <2>5, <2>6
<1>6. ASSUME verdict = "contract", task.op = "render", Len(result) = 1
      PROVE  ~(result[1].kind = "video" /\ VideoIsAsAsked(result[1]))
  <2>1. SUFFICES ASSUME result[1].kind = "video", VideoIsAsAsked(result[1]) PROVE FALSE
    OBVIOUS
  <2>2. Files = {1}
    BY <1>6 DEF Files
  <2>3. Objection # "contract"
    <3>1. {i \in Files : result[i].kind = "video"} = {1}
      BY <2>1, <2>2
    <3>2. Cardinality({1}) = 1
      BY FS_Singleton
    <3> QED
      BY <3>1, <3>2 DEF Objection
  <2>4. Examined(result[1]) = "contract"
    BY <1>6, <2>2, <2>3 DEF CheckInv, Verdict
  <2>5. PICK a : a = result[1]
    OBVIOUS
  <2>6. Examined(a) # "contract"
    BY <1>3, <1>4, <1>6, <2>1, <2>2, <2>5, VideoIs
  <2> QED
    BY <2>4, <2>5, <2>6
<1> QED
  BY <1>5, <1>6 DEF AcceptedIsAsAsked

(* Whatever jobs there are, a check accepts what was asked for and refuses no
   render that is (artifacts.rs, validate, contract, check_fps and gif_rate). *)
THEOREM AcceptanceIsRight == CheckSpec => []AcceptedIsAsAsked
<1>1. CheckInit => CheckInv
  BY InitCheckInv
<1>2. CheckInv /\ [CheckNext]_checkVars => CheckInv'
  BY CheckInvStep
<1>3. CheckInv => AcceptedIsAsAsked
  BY CheckInvAccepts
<1> QED
  BY <1>1, <1>2, <1>3, PTL DEF CheckSpec
=============================================================================

--------------------------- MODULE EditorSession ---------------------------
(***************************************************************************)
(* One document open in the workbench's editor (session.ts), the engine's  *)
(* writes beneath it (SourceWrite), and what tells the editor that the     *)
(* file moved on: the announcement of a write (server/routes.rs), the      *)
(* watcher's scans (server/watch.rs), and a re-check after the event       *)
(* stream was lost.  Other clients write through other engine processes.   *)
(***************************************************************************)
EXTENDS SourceWrite

CONSTANTS
  Tab,       \* the writer that serves this tab's saves
  MaxLoads,  \* bound: loads of the file in flight
  MaxSpent   \* bound: things others, the user's typing and faults do

ASSUME TabAssumption == Tab \in Writers /\ MaxLoads \in Nat \ {0} /\ MaxSpent \in Nat

VARIABLES
  doc,      \* the open document
  told,     \* `#disk`: the newest revision the editor heard of
  save,     \* the save in flight, or NoSave
  loads,    \* the loads in flight
  asks,     \* what the engine answered to a revision query in flight
  events,   \* `file` events under way to the tab
  offline,  \* the stream is cut
  known,    \* `Shared::revisions` of the file: the last revision announced
  sending,  \* recorded there and not published yet, by the save's handler and by the watcher
  stamped,  \* the watcher saw the file's present modification time and size
  unsaved,  \* the text the user typed last, unless it was on disk or the user gave it up
  agreed,   \* the revision the user agreed to overwrite with the next save
  shown,    \* what the save in the engine may replace: what its buffer was based on, or agreed
  spent

tabVars == <<doc, told, save, loads, asks>>
serverVars == <<known, sending, stamped>>
ghosts == <<unsaved, agreed, shown>>
vars == <<sourceVars, tabVars, events, offline, serverVars, ghosts, spent>>

Nothing == "nothing"
Pending == "pending"
Issues == {"none", "changed", "deleted", "invalid"}
Docs == [buffer : Texts, saved : Texts, revision : Contents, issue : Issues]
NoSave == [text |-> NoFile, expected |-> NoFile, basis |-> {}, sent |-> FALSE]
NoLoad == [discard |-> FALSE, text |-> Nothing]
Slots == 1 .. MaxLoads

Dirty(d) == d.buffer # d.saved

EditorInit ==
  /\ SourceInit /\ disk \in Texts
  /\ doc = [buffer |-> disk, saved |-> disk, revision |-> disk, issue |-> "none"]
  /\ told = disk
  /\ save = NoSave
  /\ loads = [i \in Slots |-> NoLoad]
  /\ asks = [k \in {"verify", "overwrite"} |-> Nothing]
  /\ events = <<>> /\ offline = FALSE
  /\ known = disk /\ stamped = TRUE
  /\ sending = [p \in {"save", "watch"} |-> Nothing]
  /\ unsaved = Nothing /\ agreed = NoFile /\ shown = {}
  /\ spent = 0

Spend == spent < MaxSpent /\ spent' = spent + 1
Touched == stamped' = FALSE

----------------------------------------------------------------------------
(* The tab *)

\* `#reconcile` with the newest revision heard of: nothing while a save is in
\* flight, whose answer decides first.
Reconciled(d, disk_, busy) ==
  IF busy THEN d
  ELSE IF disk_ = d.revision
    THEN [d EXCEPT !.issue = IF @ \in {"changed", "deleted"} THEN "none" ELSE @]
  ELSE IF disk_ = NoFile THEN [d EXCEPT !.issue = "deleted"]
  ELSE IF Dirty(d) THEN [d EXCEPT !.issue = "changed"]
  ELSE d
Reloads(d, disk_, busy) == ~busy /\ disk_ \notin {d.revision, NoFile} /\ ~Dirty(d)

StartLoad(discard) ==
  \E i \in Slots : /\ loads[i] = NoLoad
                   /\ loads' = [loads EXCEPT ![i] = [discard |-> discard, text |-> Pending]]

\* What follows hearing `disk_`, from the document as `d`.
Hear(d, disk_, busy) ==
  /\ told' = disk_
  /\ doc' = Reconciled(d, disk_, busy)
  /\ IF Reloads(d, disk_, busy) THEN StartLoad(FALSE) ELSE UNCHANGED loads

DiskChanged(disk_) == Hear(doc, disk_, save # NoSave)

Type(text) ==
  /\ Spend /\ text # doc.buffer
  /\ doc' = [doc EXCEPT !.buffer = text]
  /\ unsaved' = IF text = doc.saved \/ \E i \in Slots : loads[i].discard THEN Nothing ELSE text
  /\ UNCHANGED <<sourceVars, told, save, loads, asks, events, offline, serverVars, agreed, shown>>

\* Mutant: a save that expects what the editor last heard, not what its buffer is based on.
ExpectedAsTold(d) == IF d.issue = "deleted" THEN NoFile ELSE told

\* `#save`: refused while the file is known to have changed; recreating a
\* deleted file must not find one there.
Expected(d) == IF d.issue = "deleted" THEN NoFile ELSE d.revision
Saving(d, consent) == [text |-> d.buffer, expected |-> Expected(d),
                       basis |-> {d.saved, consent, NoFile}, sent |-> FALSE]

Save ==
  /\ save = NoSave
  /\ Dirty(doc) \/ doc.issue # "none"
  /\ doc.issue # "changed"
  /\ save' = Saving(doc, agreed)
  /\ UNCHANGED <<sourceVars, doc, told, loads, asks, events, offline, serverVars, ghosts, spent>>

SaveSent ==
  /\ save # NoSave /\ ~save.sent
  /\ Begin(Tab, save.expected, save.text)
  /\ save' = [save EXCEPT !.sent = TRUE]
  /\ shown' = save.basis
  /\ UNCHANGED <<doc, told, loads, asks, events, offline, serverVars, unsaved, agreed, spent>>

\* The answer, which the handler sends once it announced the write.
SaveOk ==
  LET revision == wr[Tab].current
      d == [doc EXCEPT !.revision = revision, !.saved = save.text, !.issue = "none"] IN
  /\ wr[Tab].answer \in {"ok", "unchanged"}
  /\ Hear(d, IF told = save.expected THEN revision ELSE told, FALSE)
  /\ unsaved' = IF unsaved = save.text THEN Nothing ELSE unsaved
  /\ agreed' = NoFile

SaveConflict ==
  /\ wr[Tab].answer = "conflict"
  /\ told' = wr[Tab].current
  /\ doc' = [doc EXCEPT !.issue = IF wr[Tab].current = NoFile THEN "deleted" ELSE "changed"]
  /\ UNCHANGED <<loads, unsaved, agreed>>

SaveInvalid ==
  /\ wr[Tab].answer = "invalid"
  /\ doc' = [doc EXCEPT !.issue = "invalid"]
  /\ UNCHANGED <<told, loads, unsaved, agreed>>

SaveFailed == wr[Tab].answer \in {"error", "none"} /\ UNCHANGED <<doc, told, loads, unsaved, agreed>>

SaveAnswered ==
  /\ save.sent /\ At(Tab, "idle") /\ sending["save"] = Nothing
  /\ SaveOk \/ SaveConflict \/ SaveInvalid \/ SaveFailed
  /\ save' = NoSave
  /\ wr' = [wr EXCEPT ![Tab] = Idle] /\ shown' = {}
  /\ UNCHANGED <<disk, snaps, undo, asks, events, offline, serverVars, spent>>

\* The connection drops while the engine goes on.
SaveCut ==
  /\ Spend /\ save.sent
  /\ save' = NoSave
  /\ UNCHANGED <<sourceVars, doc, told, loads, asks, events, offline, serverVars, ghosts>>

\* The banner's buttons, there only when the file changed under the buffer.
Reload ==
  /\ doc.issue = "changed"
  /\ StartLoad(TRUE)
  /\ unsaved' = Nothing
  /\ UNCHANGED <<sourceVars, doc, told, save, asks, events, offline, serverVars, agreed, shown, spent>>

Overwrite ==
  /\ doc.issue = "changed" /\ save = NoSave /\ asks["overwrite"] = Nothing
  /\ asks' = [asks EXCEPT !["overwrite"] = Pending]
  /\ UNCHANGED <<sourceVars, doc, told, save, loads, events, offline, serverVars, ghosts, spent>>

\* `overwrite` goes on to save against the revision it was told; a save in
\* flight by then is waited for (and Save stays possible after it).
OverwriteAnswered ==
  LET current == asks["overwrite"]
      d == [doc EXCEPT !.revision = current, !.issue = "none"] IN
  /\ current \in Contents
  /\ told' = current
  /\ doc' = d
  /\ agreed' = current
  /\ save' = IF save = NoSave THEN Saving(d, current) ELSE save
  /\ asks' = [asks EXCEPT !["overwrite"] = Nothing]
  /\ UNCHANGED <<sourceVars, loads, events, offline, serverVars, unsaved, shown, spent>>

VerifyAnswered ==
  /\ asks["verify"] \in Contents
  /\ DiskChanged(asks["verify"])
  /\ asks' = [asks EXCEPT !["verify"] = Nothing]
  /\ UNCHANGED <<sourceVars, save, events, offline, serverVars, ghosts, spent>>

\* `current_revision` or the first page of a load, in the engine.
AskServed(k) ==
  /\ asks[k] = Pending
  /\ asks' = [asks EXCEPT ![k] = disk]
  /\ UNCHANGED <<sourceVars, doc, told, save, loads, events, offline, serverVars, ghosts, spent>>

LoadServed(i) ==
  /\ loads[i].text = Pending
  /\ loads' = [loads EXCEPT ![i] = IF disk = NoFile THEN NoLoad ELSE [@ EXCEPT !.text = disk]]
  /\ UNCHANGED <<sourceVars, doc, told, save, asks, events, offline, serverVars, ghosts, spent>>

\* Mutant: the reload forgets that the user may have typed while it loaded.
KeepsNoEdits(discard) == ~discard /\ FALSE

\* `#reload` with the document loaded: edits made meanwhile win, unless the
\* user chose to drop them.
KeepsEdits(discard) == ~discard /\ Dirty(doc)

LoadAnswered(i) ==
  LET text == loads[i].text IN
  /\ text \in Texts
  /\ loads' = [loads EXCEPT ![i] = NoLoad]
  /\ IF KeepsEdits(loads[i].discard)
     THEN doc' = [doc EXCEPT !.issue = "changed"] /\ UNCHANGED told
     ELSE doc' = [buffer |-> text, saved |-> text, revision |-> text, issue |-> "none"] /\ told' = text
  /\ UNCHANGED <<sourceVars, save, asks, events, offline, serverVars, ghosts, spent>>

FileEvent ==
  /\ events # <<>>
  /\ DiskChanged(Head(events))
  /\ events' = Tail(events)
  /\ UNCHANGED <<sourceVars, save, asks, offline, serverVars, ghosts, spent>>

\* The stream is cut: what was under way is lost.  With the next snapshot the
\* tab re-reads the revision of every open file.
CutStream ==
  /\ Spend /\ ~offline
  /\ offline' = TRUE /\ events' = <<>>
  /\ UNCHANGED <<sourceVars, tabVars, serverVars, ghosts>>

Snapshot ==
  /\ offline /\ asks["verify"] = Nothing
  /\ offline' = FALSE
  /\ asks' = [asks EXCEPT !["verify"] = Pending]
  /\ UNCHANGED <<sourceVars, doc, told, save, loads, events, serverVars, ghosts, spent>>

----------------------------------------------------------------------------
(* The server *)

\* `file_changed` records the revision under a lock and publishes after it.
Record(by, revision) ==
  /\ known' = revision
  /\ sending' = [sending EXCEPT ![by] = IF revision = known THEN Nothing ELSE revision]

\* The handler of this tab's save announces what it wrote.
RenameOfTab ==
  /\ Rename(Tab)
  /\ Touched
  /\ Record("save", wr[Tab].next)
  /\ UNCHANGED <<tabVars, events, offline, ghosts, spent>>

\* The next scan, which finds the file's time or size changed.
Scan ==
  /\ ~stamped /\ sending["watch"] = Nothing
  /\ stamped' = TRUE
  /\ Record("watch", disk)
  /\ UNCHANGED <<sourceVars, tabVars, events, offline, ghosts, spent>>

Published(by) ==
  /\ sending[by] # Nothing
  /\ sending' = [sending EXCEPT ![by] = Nothing]
  /\ events' = IF offline THEN events ELSE Append(events, sending[by])
  /\ UNCHANGED <<sourceVars, tabVars, offline, known, stamped, ghosts, spent>>

\* Everything below the tab's own requests.
OtherWriter(w) ==
  /\ \/ Rename(w) /\ Touched /\ UNCHANGED spent
     \/ TakeLock(w) /\ UNCHANGED <<stamped, spent>>
     \/ Recheck(w) /\ UNCHANGED <<stamped, spent>>
     \/ OpenSnapshot(w) /\ UNCHANGED <<stamped, spent>>
     \/ SaveSnapshot(w) /\ UNCHANGED <<stamped, spent>>
     \/ \E next \in Texts : Begin(w, disk, next) /\ Spend /\ UNCHANGED stamped
  /\ UNCHANGED <<tabVars, events, offline, known, sending, ghosts>>

TabWriter ==
  /\ \/ TakeLock(Tab) \/ Recheck(Tab) \/ OpenSnapshot(Tab) \/ SaveSnapshot(Tab)
  /\ UNCHANGED <<tabVars, events, offline, serverVars, ghosts, spent>>

Outsider ==
  /\ Spend /\ Touched
  /\ \E text \in Contents : Outside(text)
  /\ UNCHANGED <<tabVars, events, offline, known, sending, ghosts>>

Faults ==
  /\ Spend
  /\ Prune \/ \E w \in Writers : Fail(w) \/ Crash(w)
  /\ UNCHANGED <<tabVars, events, offline, serverVars, ghosts>>

----------------------------------------------------------------------------
EditorNext ==
  \/ \E text \in Texts : Type(text)
  \/ Save \/ SaveSent \/ SaveAnswered \/ SaveCut
  \/ Reload \/ Overwrite \/ OverwriteAnswered \/ VerifyAnswered
  \/ \E k \in DOMAIN asks : AskServed(k)
  \/ \E i \in Slots : LoadServed(i) \/ LoadAnswered(i)
  \/ FileEvent \/ CutStream \/ Snapshot
  \/ RenameOfTab \/ TabWriter \/ Scan \/ \E by \in DOMAIN sending : Published(by)
  \/ \E w \in Writers \ {Tab} : OtherWriter(w)
  \/ Outsider \/ Faults

EditorSpec == EditorInit /\ [][EditorNext]_vars

EditorTypeOK ==
  /\ SourceTypeOK
  /\ doc \in Docs
  /\ told \in Contents
  /\ save \in [text : Texts, expected : Contents, basis : SUBSET Contents, sent : BOOLEAN] \cup {NoSave}
  /\ loads \in [Slots -> [discard : BOOLEAN, text : Texts \cup {Nothing, Pending}]]
  /\ asks \in [{"verify", "overwrite"} -> Contents \cup {Nothing, Pending}]
  /\ events \in Seq(Contents)
  /\ sending \in [{"save", "watch"} -> Contents \cup {Nothing}]
  /\ unsaved \in Texts \cup {Nothing} /\ agreed \in Contents

\* What the user typed last is in the buffer, or it was on disk, or the user
\* chose to drop it: no reload, late answer or event replaces it.
NoEditIsLost == unsaved \in {Nothing, doc.buffer}

\* A save replaces only a text the buffer was based on when it was sent, or
\* one the user agreed to overwrite, whatever the editor was told or answered
\* in the meantime.
NothingUnseenIsOverwritten ==
  [][Renames(Tab) => wr[Tab].base \in shown]_vars
============================================================================

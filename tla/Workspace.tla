----------------------------- MODULE Workspace -----------------------------
(***************************************************************************)
(* How the views of a project stay current in the workbench.  The server's *)
(* tasks derive sections from what they read and publish them as workspace *)
(* events (server/state.rs, watch.rs, feed.rs, routes.rs; derivations in   *)
(* workspace/mod.rs and project.rs).  A derivation runs on the blocking    *)
(* pool and its event goes out when it is done, so those of several tasks  *)
(* overtake each other.  What a section shows is the versions of the facts *)
(* it was derived from; SceneIndex has the scan's own details, JobFeed the *)
(* events of jobs, EventStream the clients.                                *)
(***************************************************************************)
EXTENDS Integers, FiniteSetsExt

CONSTANTS
  Writers,         \* requests that save director.yaml in the workbench
  ValidSpecs,      \* which of its versions are valid
  MaxFacts         \* bound: changes of anything the views derive from

\* Version 0 is the defaults, which stand in until a valid file was read.
ASSUME WorkspaceAssumption ==
  /\ MaxFacts \in Nat /\ ValidSpecs \subseteq Nat /\ 0 \in ValidSpecs
  /\ Writers \cap {"index", "files", "catalog", "feed"} = {}

VARIABLES
  facts,           \* the version of everything the views derive from
  lastValid,       \* SpecTracker: the valid director.yaml read last
  announced,       \* the files' versions as last announced
  reindex,         \* whether a refresh of the scene index is requested
  indexer,         \* the index task, and the Python files its scan found
  scanned,
  watcher,         \* the files task
  known,           \* the catalog the catalog task saw last
  unheard,         \* endings of jobs on their way to the feed
  dirty,           \* the sections the feed owes
  tasks,           \* each task's publication: where it is and what it read
  published,       \* what each section shows: the version of each fact its last event has
  newest,          \* history: the newest version of each fact in any event, by section
  ofSave           \* history: the sections whose last event is of a save in the workbench

taskVars == <<announced, reindex, indexer, scanned, watcher, known, unheard, dirty, tasks, lastValid>>
eventVars == <<published, newest, ofSave>>
workVars == <<facts, eventVars, taskVars>>

\* What jobs change, what others change, and the index, made from the python files.
Endings  == {"renders", "checks", "exports"}
OnDisk   == {"spec", "python"}
Facts    == Endings \cup OnDisk \cup {"catalog", "index"}
Tasks    == {"index", "files", "catalog", "feed"} \cup Writers
Versions == 0..MaxFacts

\* The facts that each section of workspace::sections is derived from.
Derivations ==
  [project     |-> {"spec", "catalog", "exports"},
   spec        |-> {"spec"},
   profiles    |-> {"spec"},
   themes      |-> {"spec", "catalog"},
   scenes      |-> {"spec", "index"},
   storyboard  |-> {"spec", "index"},
   scene_index |-> {"index"},
   latest      |-> {"spec", "index", "python", "renders"},
   findings    |-> {"spec", "index", "catalog", "python", "renders", "checks"},
   doctor      |-> {"checks"}]
Sections == DOMAIN Derivations

SpecSections    == {"spec", "project", "profiles", "themes", "storyboard", "scenes", "findings"}
IndexSections   == {"scene_index", "scenes", "storyboard", "latest", "findings"}
CatalogSections == {"themes", "project", "findings"}

\* Mutant: a render's ending concerns its video only.
VideoOnly(ending) == IF ending = "checks" THEN {"doctor", "findings"}
                     ELSE IF ending = "renders" THEN {"latest"} ELSE {"project"}

AffectedSections(ending) ==
  CASE ending = "renders" -> {"latest", "findings"}
    [] ending = "checks"  -> {"doctor", "findings"}
    [] ending = "exports" -> {"project"}

Resting == [at |-> "rest"]

WorkInit ==
  /\ facts = [f \in Facts |-> 0]
  /\ lastValid = 0
  /\ announced = [f \in OnDisk |-> 0]
  /\ reindex = TRUE
  /\ indexer = "waits" /\ scanned = 0 /\ watcher = "waits"
  /\ known = 0
  /\ unheard = {} /\ dirty = {}
  /\ tasks = [t \in Tasks |-> Resting]
  /\ published = [s \in Sections |-> [f \in Facts |-> 0]] /\ newest = published
  /\ ofSave = {}

Changes == MapThenSumSet(LAMBDA f : facts[f], Facts \ {"index"})
Change(f) == /\ Changes < MaxFacts
             /\ facts' = [facts EXCEPT ![f] = @ + 1]

-----------------------------------------------------------------------------
(* What changes *)

FileIsEdited(f) == Change(f) /\ UNCHANGED <<eventVars, taskVars>>
WorkerReports == Change("catalog") /\ UNCHANGED <<eventVars, taskVars>>

JobEnds(ending) ==
  /\ Change(ending)
  /\ unheard' = unheard \cup {ending}
  /\ UNCHANGED <<eventVars, announced, reindex, indexer, scanned, watcher, known, dirty, tasks, lastValid>>

-----------------------------------------------------------------------------
(* publish_sections: load the spec, read the rest, publish *)

Asked(wanted) == [at |-> "asked", wanted |-> wanted]

\* SpecTracker::load: an invalid file leaves the last valid spec.
Loads(t) ==
  /\ tasks[t].at = "asked"
  /\ lastValid' = IF facts["spec"] \in ValidSpecs THEN facts["spec"] ELSE lastValid
  /\ tasks' = [tasks EXCEPT ![t] = [at |-> "loaded", wanted |-> @.wanted,
                                    status |-> facts["spec"], spec |-> lastValid']]
  /\ UNCHANGED <<facts, eventVars, announced, reindex, indexer, scanned, watcher, known, unheard, dirty>>

ReadsRest(t) ==
  /\ tasks[t].at = "loaded"
  /\ tasks' = [tasks EXCEPT ![t] = [at |-> "derived", wanted |-> @.wanted, status |-> @.status,
                                    read |-> [facts EXCEPT !["spec"] = tasks[t].spec]]]
  /\ UNCHANGED <<facts, eventVars, announced, reindex, indexer, scanned, watcher, known, unheard, dirty, lastValid>>

\* What t's event says of s.
Says(t, s) ==
  [f \in Facts |-> IF f \notin Derivations[s] THEN 0
                   ELSE IF s = "spec" THEN tasks[t].status ELSE tasks[t].read[f]]

\* The event replaces what its sections show, be it older or not.
Publishes(t) ==
  /\ tasks[t].at = "derived"
  /\ published' = [s \in Sections |-> IF s \in tasks[t].wanted THEN Says(t, s) ELSE published[s]]
  /\ newest' = [s \in Sections |-> [f \in Facts |-> Max({newest[s][f], published'[s][f]})]]
  /\ ofSave' = IF t \in Writers THEN ofSave \cup tasks[t].wanted ELSE ofSave \ tasks[t].wanted
  /\ tasks' = [tasks EXCEPT ![t] = Resting]
  /\ UNCHANGED <<facts, announced, reindex, indexer, scanned, watcher, known, unheard, dirty, lastValid>>

-----------------------------------------------------------------------------
(* The tasks; each waits for its publication *)

\* index: a requested refresh announces itself, scans, and publishes what it found.
ClaimReindex ==
  /\ indexer = "waits" /\ reindex
  /\ reindex' = FALSE
  /\ indexer' = "begun"
  /\ tasks' = [tasks EXCEPT !["index"] = Asked({"scene_index"})]
  /\ UNCHANGED <<scanned, facts, eventVars, announced, watcher, known, unheard, dirty, lastValid>>

ScanBegins ==
  /\ indexer = "begun" /\ tasks["index"] = Resting
  /\ indexer' = "scans" /\ scanned' = facts["python"]
  /\ UNCHANGED <<facts, eventVars, announced, reindex, watcher, known, unheard, dirty, tasks, lastValid>>

FinishRefresh ==
  /\ indexer = "scans"
  /\ facts' = [facts EXCEPT !["index"] = scanned]
  /\ indexer' = "done"
  /\ tasks' = [tasks EXCEPT !["index"] = Asked(IndexSections)]
  /\ UNCHANGED <<scanned, eventVars, announced, reindex, watcher, known, unheard, dirty, lastValid>>

IndexShown ==
  /\ indexer = "done" /\ tasks["index"] = Resting
  /\ indexer' = "waits"
  /\ UNCHANGED <<scanned, facts, eventVars, announced, reindex, watcher, known, unheard, dirty, tasks, lastValid>>

\* files: the scan announces what changed; a change of director.yaml is shown first.
ScanFiles ==
  /\ watcher = "waits"
  /\ \E f \in OnDisk : announced[f] # facts[f]
  /\ announced' = [f \in OnDisk |-> facts[f]]
  /\ IF announced["spec"] # facts["spec"]
     THEN /\ watcher' = "shows"
          /\ tasks' = [tasks EXCEPT !["files"] = Asked(SpecSections)]
          /\ UNCHANGED reindex
     ELSE /\ reindex' = TRUE
          /\ UNCHANGED <<scanned, watcher, tasks>>
  /\ UNCHANGED <<facts, eventVars, indexer, scanned, known, unheard, dirty, lastValid>>

FilesShown ==
  /\ watcher = "shows" /\ tasks["files"] = Resting
  /\ watcher' = "waits"
  /\ reindex' = TRUE
  /\ UNCHANGED <<facts, eventVars, announced, indexer, scanned, known, unheard, dirty, tasks, lastValid>>

SeesCatalog ==
  /\ tasks["catalog"] = Resting /\ known # facts["catalog"]
  /\ known' = facts["catalog"]
  /\ tasks' = [tasks EXCEPT !["catalog"] = Asked(CatalogSections)]
  /\ UNCHANGED <<facts, eventVars, announced, reindex, indexer, scanned, watcher, unheard, dirty, lastValid>>

\* Feed::job: an ending's sections are owed until the burst is over.
HearsEnding(ending) ==
  /\ tasks["feed"] = Resting /\ ending \in unheard
  /\ unheard' = unheard \ {ending}
  /\ dirty' = dirty \cup AffectedSections(ending)
  /\ UNCHANGED <<facts, eventVars, announced, reindex, indexer, scanned, watcher, known, tasks, lastValid>>

PublishDirty ==
  /\ tasks["feed"] = Resting /\ unheard = {} /\ dirty # {}
  /\ tasks' = [tasks EXCEPT !["feed"] = Asked(dirty)]
  /\ dirty' = {}
  /\ UNCHANGED <<facts, eventVars, announced, reindex, indexer, scanned, watcher, known, unheard, lastValid>>

\* source_write of director.yaml, whose sections are published on a task of their own.
SaveSpec(w) ==
  /\ tasks[w] = Resting
  /\ Change("spec")
  /\ announced' = [announced EXCEPT !["spec"] = facts'["spec"]]
  /\ reindex' = TRUE
  /\ tasks' = [tasks EXCEPT ![w] = Asked(SpecSections)]
  /\ UNCHANGED <<eventVars, indexer, scanned, watcher, known, unheard, dirty, lastValid>>

-----------------------------------------------------------------------------
Derives(t)  == Loads(t) \/ ReadsRest(t) \/ Publishes(t)
IndexTask   == ClaimReindex \/ ScanBegins \/ FinishRefresh \/ IndexShown \/ Derives("index")
FilesTask   == ScanFiles \/ FilesShown \/ Derives("files")
CatalogTask == SeesCatalog \/ Derives("catalog")
FeedTask    == PublishDirty \/ Derives("feed") \/ \E ending \in Endings : HearsEnding(ending)

WorkNext ==
  \/ IndexTask \/ FilesTask \/ CatalogTask \/ FeedTask \/ WorkerReports
  \/ \E w \in Writers : Derives(w)
  \/ \E f \in OnDisk : FileIsEdited(f)
  \/ \E ending \in Endings : JobEnds(ending)
  \/ \E w \in Writers : SaveSpec(w)

\* Tokio polls every task that can go on, and blocking derivations return.
WorkFairness ==
  /\ WF_workVars(IndexTask) /\ WF_workVars(FilesTask)
  /\ WF_workVars(CatalogTask) /\ WF_workVars(FeedTask)
  /\ \A w \in Writers : WF_workVars(Derives(w))

WorkSpec == WorkInit /\ [][WorkNext]_workVars /\ WorkFairness

-----------------------------------------------------------------------------
WorkTypeOK ==
  /\ facts \in [Facts -> Versions] /\ lastValid \in Versions /\ known \in Versions
  /\ announced \in [OnDisk -> Versions] /\ reindex \in BOOLEAN
  /\ indexer \in {"waits", "begun", "scans", "done"} /\ scanned \in Versions /\ watcher \in {"waits", "shows"}
  /\ unheard \subseteq Endings /\ dirty \subseteq Sections
  /\ published \in [Sections -> [Facts -> Versions]] /\ newest \in [Sections -> [Facts -> Versions]]
  /\ ofSave \subseteq Sections

\* Some event showed each section from the newest version of everything it derives
\* from, and the scene list from a scan of the newest Python files; while
\* director.yaml is invalid only its status is new.
AllWasShown ==
  /\ \A s \in Sections : \A f \in Derivations[s] :
       \/ newest[s][f] = facts[f]
       \/ f = "spec" /\ s # "spec" /\ facts["spec"] \notin ValidSpecs
  /\ facts["index"] = facts["python"]

\* Sections that one task publishes, one derivation after the other, show what came last.
NothingOvertakes == \A s \in {"scene_index", "doctor"} : published[s] = newest[s]

\* What the index task publishes after each announced change of director.yaml is
\* overtaken for good by a save's event alone.
OvertakenBySaves == \A s \in {"scenes", "storyboard"} \ ofSave : published[s] = newest[s]

(* Every change is shown, once nothing changes any more, though the tasks that
   derive sections run side by side, coalesce their causes and publish only what
   they believe a change affects (server/watch.rs; feed.rs, affected_sections).
   An older derivation may be published after it and stay, but not where one
   task publishes the section, nor, but for a save's, in the scene list. *)
EveryChangeIsShown == <>[](AllWasShown /\ NothingOvertakes /\ OvertakenBySaves)

\* No task has anything to do.
Quiet ==
  /\ \A t \in Tasks : tasks[t] = Resting
  /\ indexer = "waits" /\ ~reindex /\ watcher = "waits" /\ unheard = {} /\ dirty = {}
  /\ announced = [f \in OnDisk |-> facts[f]] /\ known = facts["catalog"]

(* Nothing is left behind: when no task has anything to do, whatever happened
   before, every section was shown as it is now, and is still where no other
   task's older derivation may stay (server/watch.rs; feed.rs,
   affected_sections; routes.rs, source_write). *)
QuietViewsAreCurrent == NothingOvertakes /\ (Quiet => AllWasShown /\ OvertakenBySaves)
=============================================================================

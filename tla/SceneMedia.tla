----------------------------- MODULE SceneMedia -----------------------------
(***************************************************************************)
(* What the workbench shows of a scene: its newest render and what other   *)
(* jobs made from it.  A submission resolves the scene to its files and a  *)
(* default source to the newest render (scheduler/request), a run reads    *)
(* them some time later (scheduler/execute.rs), and the view says of every *)
(* item whether the scene's file has changed since (workspace/latest.rs).  *)
(* There is one scene, which its author may move from a file to another.   *)
(* Stills are rendered as videos are, and contact sheets are made as       *)
(* frames are.  Pruning is ResultCache's.                                  *)
(***************************************************************************)
EXTENDS Integers, Sequences, FiniteSetsExt

CONSTANTS
  SceneFiles,      \* the project's Python files
  SpecFile,        \* the scene's file by director.yaml, or Nowhere
  Outputs,         \* what exports write, outside the engine's directories
  Indexed,         \* whether a discover result is cached from the start
  MayReuse,        \* whether an export may write where an earlier one did
  MayPeek,         \* whether a file of a job that has not ended may be named as a source
  MayStop,         \* whether a run or the hashing before it may fail
  MaxJobs,         \* bound: submissions
  MaxEdits,        \* bound: versions of the project's files
  Nowhere

JobDirs == 1..MaxJobs
Texts   == SceneFiles \X Nat                       \* a file's versions
Shot(file, of) == [file |-> file, text |-> of]     \* a picture of the scene in this text of this file
Shots   == [file : SceneFiles, text : Texts]

ASSUME MediaAssumption ==
  /\ SpecFile \in SceneFiles \cup {Nowhere} /\ {MaxJobs, MaxEdits} \subseteq Nat
  /\ {Indexed, MayReuse, MayPeek, MayStop} \subseteq BOOLEAN
  /\ Outputs \cap JobDirs = {}
  /\ Nowhere \notin SceneFiles \cup JobDirs \cup Outputs
  /\ Nowhere \notin Texts /\ Nowhere \notin Shots /\ Nowhere \notin [SceneFiles -> Texts]

VARIABLES
  home,            \* the file that holds the scene
  text,            \* each file's text; no two versions of two files are alike
  found,           \* where the newest discover result has the scene
  jobs,            \* the jobs' rows, in the order of their submission
  media,           \* the video or image at each job's directory and each output
  results          \* the result cache

mediaVars == <<home, text, found, jobs, media, results>>

MediaInit ==
  /\ home \in SceneFiles
  /\ text = [f \in SceneFiles |-> <<f, 0>>]
  /\ found = IF Indexed THEN home ELSE Nowhere
  /\ jobs = <<>>
  /\ media = [l \in JobDirs \cup Outputs |-> Nowhere]
  /\ results = {}

Versions == MapThenSumSet(LAMBDA f : text[f][2], SceneFiles)

-----------------------------------------------------------------------------
(* What a job's row answers *)

Existing(j) == media[jobs[j].at] # Nowhere         \* artifacts::existing
NewestOf(ops, file) ==                               \* newest_with; 0 for none
  Max({0} \cup {j \in DOMAIN jobs :
        /\ jobs[j].status = "succeeded" /\ jobs[j].op \in ops
        /\ file = Nowhere \/ jobs[j].file = file
        /\ Existing(j)})

\* SceneLookup and scene_target: the files to search, and the job's association.
Chosen(named) == IF named # Nowhere THEN named ELSE SpecFile
Searched(named) == IF Chosen(named) # Nowhere THEN {Chosen(named)} ELSE SceneFiles
Association(named) == IF Chosen(named) # Nowhere THEN Chosen(named) ELSE found

Revision(file) == IF file = Nowhere THEN Nowhere ELSE text[file]     \* scene_revision

Fingerprint(searched) == <<searched, text>>

Row(op, searched, file, revision, source, input, at) ==
  [op |-> op, searched |-> searched, file |-> file, revision |-> revision, source |-> source,
   input |-> input, at |-> at, status |-> "queued", print |-> Nowhere, start |-> Nowhere,
   scene |-> Nowhere, saw |-> Nowhere]

\* The row of a job that is over: what only its submission and its run look at is gone.
Over(job, status) ==
  [job EXCEPT !.status = status, !.searched = {}, !.input = Nowhere, !.print = Nowhere,
              !.start = Nowhere, !.scene = Nowhere]

-----------------------------------------------------------------------------
(* The author, the index, and whoever clears up *)

EditFile(f) ==
  /\ Versions < MaxEdits
  /\ text' = [text EXCEPT ![f] = <<f, @[2] + 1>>]
  /\ UNCHANGED <<home, found, jobs, media, results>>

Move(f) ==
  /\ f # home /\ Versions + 1 < MaxEdits
  /\ home' = f
  /\ text' = [g \in SceneFiles |-> IF g \in {f, home} THEN <<g, text[g][2] + 1>> ELSE text[g]]
  /\ UNCHANGED <<found, jobs, media, results>>

Rescan ==
  /\ found # home /\ found' = home
  /\ UNCHANGED <<home, text, jobs, media, results>>

Remove(l) ==
  /\ media[l] # Nowhere
  /\ media' = [media EXCEPT ![l] = Nowhere]
  /\ UNCHANGED <<home, text, found, jobs, results>>

-----------------------------------------------------------------------------
(* Submissions: Inner::plan and insert *)

\* A result is reused while its artifacts are intact; the answer's scene is the result's.
Cached(named, hit) ==
  LET row == Row("render", {}, hit.scene, Revision(Association(named)), 0, Nowhere, hit.at)
  IN /\ jobs' = Append(jobs, Over(row, "succeeded"))
     /\ UNCHANGED results

SubmitRender(named) ==
  LET print == Fingerprint(Searched(named))
      hits == {hit \in results : hit.print = print}
      intact == {hit \in hits : media[hit.at] # Nowhere}
  IN /\ Len(jobs) < MaxJobs
     /\ IF intact # {}
        THEN \E hit \in intact : Cached(named, hit)
        ELSE /\ \A j \in DOMAIN jobs :          \* else it joins that job
                  jobs[j].print = print => jobs[j].status \notin {"queued", "running"}
             /\ results' = results \ hits
             /\ jobs' = Append(jobs, [Row("render", Searched(named), Association(named),
                                          Revision(Association(named)), 0, Nowhere, Len(jobs) + 1)
                                        EXCEPT !.print = print])
     /\ UNCHANGED <<home, text, found, media>>

\* Mutant: the revision is that of the file as it is now.
AsItIsNow(job) == Revision(job.file)

\* Jobs that read another job's media inherit its scene association.
Inherited(job) == job.revision

\* ResolvedJob::reading
Reads(op, j, input, at) ==
  /\ Len(jobs) < MaxJobs
  /\ jobs' = Append(jobs, IF j = 0 THEN Row(op, {}, Nowhere, Nowhere, 0, input, at)
                          ELSE Row(op, {}, jobs[j].file, Inherited(jobs[j]), j, input, at))
  /\ UNCHANGED <<home, text, found, media, results>>

FromRecord(op, j, from, at) ==
  /\ j # 0 /\ jobs[j].status = "succeeded" /\ jobs[j].op \in from /\ Existing(j)
  /\ Reads(op, j, jobs[j].at, at)

FromPath(op, l, at) ==
  /\ media[l] # Nowhere
  /\ l \in JobDirs /\ ~MayPeek => jobs[l].status = "succeeded"
  /\ Reads(op, IF l \in JobDirs THEN l ELSE 0, l, at)         \* producing_job

\* source::select: the newest render, a job of one of these operations, or a file.
Selects(op, from, at) ==
  \/ FromRecord(op, NewestOf({"render"}, SpecFile), {"render"}, at)
  \/ \E j \in DOMAIN jobs : FromRecord(op, j, from, at)
  \/ \E l \in DOMAIN media : FromPath(op, l, at)

Videos == {"render", "export"}
SubmitFrame == Selects("frame", Videos, Len(jobs) + 1)
SubmitQa    == Selects("qa", Videos \cup {"frame"}, Len(jobs) + 1)

SubmitExport(o) ==
  /\ MayReuse \/ \A j \in DOMAIN jobs : jobs[j].at # o
  /\ Selects("export", Videos, o)

-----------------------------------------------------------------------------
(* Runs *)

\* start_fingerprint: taken before the worker has the request, and stored.
Begin(j) ==
  /\ jobs[j].status = "queued" /\ jobs[j].op = "render"
  /\ jobs' = [jobs EXCEPT ![j] = [@ EXCEPT !.status = "running", !.start = text,
                                            !.print = Fingerprint(jobs[j].searched)]]
  /\ UNCHANGED <<home, text, found, media, results>>

\* Only renders are hashed, and the run goes on where that fails.
Runs(job) == IF job.op = "render" /\ ~MayStop THEN job.status = "running"
             ELSE job.status \in {"queued", "running"}

\* The runtime reads its input and writes the media of its result.
Make(j) ==
  /\ Runs(jobs[j])
  /\ LET job == jobs[j]
         rendered == job.op = "render" /\ home \in job.searched
         copied == job.op # "render" /\ media[job.input] # Nowhere
         picture == IF rendered THEN Shot(home, text[home]) ELSE media[job.input]
     IN IF rendered \/ copied
        THEN /\ jobs' = [jobs EXCEPT ![j] = [job EXCEPT !.status = "made",
                               !.saw = IF job.op = "qa" THEN picture ELSE Nowhere,
                               !.scene = IF rendered THEN home ELSE Nowhere]]
             /\ media' = IF job.op = "qa" THEN media ELSE [media EXCEPT ![job.at] = picture]
        ELSE /\ jobs' = [jobs EXCEPT ![j] = Over(@, "failed")]
             /\ UNCHANGED media
  /\ UNCHANGED <<home, text, found, results>>

\* A qa's frames are optional; any other job's media must be there.
Validated(j) == jobs[j].op = "qa" \/ Existing(j)

\* finish: the result's scene and the start fingerprint's revision of it, where there are such.
Filed(job) == IF job.scene # Nowhere THEN job.scene ELSE job.file

Finish(j) ==
  /\ jobs[j].status = "made" /\ Validated(j)
  /\ LET job == jobs[j]
         file == Filed(job)
     IN /\ jobs' = [jobs EXCEPT ![j] = [Over(job, "succeeded") EXCEPT !.file = file,
                                !.revision = IF job.start # Nowhere THEN job.start[file] ELSE @]]
        /\ results' = IF job.start # Nowhere /\ job.start = text
                      THEN {hit \in results : hit.print # job.print}
                           \cup {[print |-> job.print, scene |-> job.scene, at |-> job.at]}
                      ELSE results
  /\ UNCHANGED <<home, text, found, media>>

\* The run fails, is cancelled, or its media are not what was asked for.
Stop(j) ==
  /\ jobs[j].status \in {"queued", "running", "made"}
  /\ MayStop \/ (jobs[j].status = "made" /\ ~Validated(j))
  /\ jobs' = [jobs EXCEPT ![j] = Over(@, "failed")]
  /\ media' = IF jobs[j].at \in JobDirs THEN [media EXCEPT ![jobs[j].at] = Nowhere] ELSE media
  /\ UNCHANGED <<home, text, found, results>>

MediaNext ==
  \/ \E f \in SceneFiles : EditFile(f) \/ Move(f)
  \/ Rescan
  \/ \E l \in DOMAIN media : Remove(l)
  \/ \E named \in SceneFiles \cup {Nowhere} : SubmitRender(named)
  \/ SubmitFrame \/ SubmitQa
  \/ \E o \in Outputs : SubmitExport(o)
  \/ \E j \in DOMAIN jobs : Begin(j) \/ Make(j) \/ Finish(j) \/ Stop(j)

MediaSpec == MediaInit /\ [][MediaNext]_mediaVars

-----------------------------------------------------------------------------
MediaTypeOK ==
  /\ home \in SceneFiles /\ text \in [SceneFiles -> Texts] /\ found \in SceneFiles \cup {Nowhere}
  /\ media \in [JobDirs \cup Outputs -> Shots \cup {Nowhere}]
  /\ \A hit \in results : hit.scene \in SceneFiles /\ hit.at \in JobDirs
  /\ \A j \in DOMAIN jobs :
       /\ jobs[j].file \in SceneFiles \cup {Nowhere} /\ jobs[j].at \in DOMAIN media
       /\ jobs[j].source \in 0..(j - 1)

\* scene_latest: the newest render of the file's scene and the newest image, where there are such.
Latest(file) == {NewestOf({"render"}, file), NewestOf({"frame"}, file)} \ {0}

\* Revisions::outdated
Outdated(j) == jobs[j].revision # Nowhere /\ jobs[j].file # Nowhere
               /\ jobs[j].revision # text[jobs[j].file]

\* findings: the newest qa of the scene, current while it is of what is shown.
Checked(file) == {j \in DOMAIN jobs : jobs[j].op = "qa" /\ jobs[j].file = file
                                      /\ jobs[j].status = "succeeded"}
StaleFindings(j) == jobs[j].source \notin Latest(jobs[j].file) \/ Outdated(j)

(* Nothing stale looks current: a video or an image that the workbench shows
   for a scene and does not mark as outdated shows that scene as its file has it
   now, and so did the one that qa findings not marked so are about, whatever
   was edited, moved, rendered, answered from the cache, exported or removed
   between the submission, the run and the view (workspace/latest.rs,
   LatestBase.outdated; workspace/findings.rs). *)
NothingStaleLooksCurrent ==
  \A file \in SceneFiles :
    LET now == Shot(file, text[file]) checked == Checked(file) IN
    /\ \A j \in Latest(file) : ~Outdated(j) => media[jobs[j].at] = now
    /\ checked # {} /\ ~StaleFindings(Max(checked)) => jobs[Max(checked)].saw = now

(* What is shown for a scene was made of it: the video or image filed under a
   file is of the scene in that file, in a text no older than the revision the
   job recorded (request/mod.rs, reading; execute.rs, finish). *)
FiledWhereItBelongs ==
  \A file \in SceneFiles : \A j \in Latest(file) :
    LET shot == media[jobs[j].at] IN
    /\ shot.file = file
    /\ jobs[j].revision # Nowhere /\ jobs[j].revision[1] = file => jobs[j].revision[2] <= shot.text[2]

(* The pictures of a scene in the workbench are of that scene, and current
   unless they are marked (workspace/latest.rs; workspace/findings.rs). *)
PicturesTellTheTruth == NothingStaleLooksCurrent /\ FiledWhereItBelongs
=============================================================================

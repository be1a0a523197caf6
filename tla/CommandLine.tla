---------------------------- MODULE CommandLine ----------------------------
(***************************************************************************)
(* The commands of the `manim-director` binary on one project, each a      *)
(* process with an engine of its own (cli/src/main.rs, serve.rs; wait and  *)
(* shutdown of scheduler/mod.rs).  They share the job store: a command may *)
(* join the job of another one, which may end, be interrupted or be killed *)
(* while both wait for it.  Of jobs only what commands see is kept; their  *)
(* life inside an engine is Scheduler's.                                   *)
(***************************************************************************)
EXTENDS Integers, FiniteSets

CONSTANTS
  Commands,      \* processes
  Jobs,          \* rows of the store
  NoJob,         \* the command has none
  MaxPresses     \* bound: Ctrl-C keys pressed on each command

ASSUME CommandsAssumption ==
  /\ NoJob \notin Jobs
  /\ MaxPresses \in Nat

VARIABLES cmd, job
cliVars == <<cmd, job>>

Active   == {"queued", "running"}
Terminal == {"succeeded", "failed", "cancelled"}
Free     == [status |-> "none", error |-> "none", owner |-> NoJob, stop |-> FALSE, askedBy |-> {}]

\* The kinds of error a command tells apart, and its exit codes.
Errors == {"input", "engine", "job"}
ErrorCode(error) == CASE error = "input" -> 2 [] error = "engine" -> 3 [] error = "job" -> 1
Interrupted == 130
Codes == {0, 1, 2, 3, Interrupted}

Places == {"typed", "opening", "waiting", "cancelling", "settling", "serving",
           "leaving", "closing", "exited", "killed"}

CliTypeOK ==
  /\ cmd \in [Commands -> [at : Places, job : Jobs \cup {NoJob}, mine : BOOLEAN, listening : BOOLEAN,
                           shown : Terminal \cup Active \cup {"none"}, code : Codes, presses : 0..MaxPresses]]
  /\ job \in [Jobs -> [status : Active \cup Terminal \cup {"none"}, error : {"none", "engine", "job"},
                       owner : Commands \cup {NoJob}, stop : BOOLEAN, askedBy : SUBSET Commands]]

CliInit ==
  /\ cmd = [c \in Commands |-> [at |-> "typed", job |-> NoJob, mine |-> FALSE, listening |-> FALSE,
                                shown |-> "none", code |-> 0, presses |-> 0]]
  /\ job = [j \in Jobs |-> Free]

----------------------------------------------------------------------------
Is(c, place) == cmd[c].at = place
Alive(c)     == cmd[c].at \notin {"typed", "exited", "killed"}
Owned(c)     == {j \in Jobs : job[j].owner = c /\ job[j].status \in Active}
Ended(j)     == job[j].status \in Terminal
Goes(c, place) == cmd' = [cmd EXCEPT ![c].at = place]
Leaves(c, code, shown) ==
  cmd' = [cmd EXCEPT ![c].at = "leaving", ![c].code = code, ![c].shown = shown]

\* Mutant: whatever ended, ended well.
AlwaysFine(status, error) == IF error = "engine" THEN 3 ELSE 0

ExitCode(status, error) ==
  IF status = "succeeded" THEN 0 ELSE IF error = "engine" THEN 3 ELSE 1

\* A command finds its project, or a scratch directory for what needs none.
Start(c) ==
  /\ Is(c, "typed")
  /\ \/ Goes(c, "opening")
     \/ \E error \in {"input", "engine"} :
          cmd' = [cmd EXCEPT ![c].at = "exited", ![c].code = ErrorCode(error)]
  /\ UNCHANGED job

\* `Failure::report`: the submission was refused, the port taken, the summary not made.
Refused(c, error) ==
  /\ Is(c, "opening")
  /\ Leaves(c, ErrorCode(error), "none")
  /\ UNCHANGED job

InspectFile(c) ==
  /\ Is(c, "opening")
  /\ Leaves(c, 0, "none")
  /\ UNCHANGED job

New(c, j, status) ==
  /\ job[j] = Free
  /\ job' = [job EXCEPT ![j] = [Free EXCEPT !.status = status, !.owner = c]]

\* Mutant: whoever waits for a job may cancel it.
WaitsAsOwner(c, j, mine) ==
  cmd' = [cmd EXCEPT ![c].at = "waiting", ![c].job = j, ![c].mine = TRUE, ![c].listening = TRUE]

\* `submit_and_report`: listens for signals once it waits for its job.
Waits(c, j, mine) ==
  cmd' = [cmd EXCEPT ![c].at = "waiting", ![c].job = j, ![c].mine = mine, ![c].listening = TRUE]

SubmitJob(c, j) ==
  /\ Is(c, "opening")
  /\ New(c, j, "queued")
  /\ Waits(c, j, TRUE)

Cached(c, j) ==
  /\ Is(c, "opening")
  /\ New(c, j, "succeeded")
  /\ cmd' = [cmd EXCEPT ![c].at = "leaving", ![c].job = j, ![c].shown = "succeeded"]

\* A coalesced job belongs to the client that started it.
Joined(c, j) ==
  /\ Is(c, "opening")
  /\ job[j].status \in Active /\ job[j].askedBy = {}
  /\ Waits(c, j, FALSE)
  /\ UNCHANGED job

\* The server listens from its first poll on; its browser submits jobs.
Serve(c) ==
  /\ Is(c, "opening")
  /\ cmd' = [cmd EXCEPT ![c].at = "serving", ![c].listening = TRUE]
  /\ UNCHANGED job

ServeSubmit(c, j) ==
  /\ Is(c, "serving")
  /\ New(c, j, "queued")
  /\ UNCHANGED cmd

\* Mutant: only the engine that runs a job tells of its end.
OwnEnd(c) == cmd[c].mine /\ Ended(cmd[c].job)

\* `Scheduler::wait` reads the row again at each event and four times a second.
SeesEnd(c) == Ended(cmd[c].job)

Finished(c) ==
  /\ Is(c, "waiting")
  /\ SeesEnd(c)
  /\ LET j == cmd[c].job IN Leaves(c, ExitCode(job[j].status, job[j].error), job[j].status)
  /\ UNCHANGED job

\* SIGINT or SIGTERM.  Until the command first listens it ends the process; when
\* it has listened and does not at present, nothing hears it; pressed while
\* the command settles, it ends the process at once.
Press(c) ==
  /\ Alive(c) /\ cmd[c].presses < MaxPresses
  /\ LET pressed == [cmd[c] EXCEPT !.presses = @ + 1]
         now     == IF cmd[c].job = NoJob THEN "none" ELSE job[cmd[c].job].status
     IN cmd' = [cmd EXCEPT ![c] =
          IF Is(c, "settling") \/ ~cmd[c].listening
            THEN [pressed EXCEPT !.at = "killed", !.code = Interrupted]
          ELSE IF Is(c, "waiting") /\ cmd[c].mine THEN [pressed EXCEPT !.at = "cancelling"]
          ELSE IF Is(c, "waiting")
            THEN [pressed EXCEPT !.at = "leaving", !.code = Interrupted, !.shown = now]
          ELSE IF Is(c, "serving") THEN [pressed EXCEPT !.at = "leaving"]
          ELSE pressed]
  /\ UNCHANGED job

\* What cancelling jobs does: the queued ones end at once, the running ones are told.
Cancelled(js, who) ==
  [j \in Jobs |-> IF j \notin js \/ job[j].status \notin Active THEN job[j]
                  ELSE [job[j] EXCEPT !.askedBy = @ \cup who, !.stop = TRUE,
                          !.status = IF job[j].status = "queued" THEN "cancelled" ELSE @,
                          !.error = IF job[j].status = "queued" THEN "job" ELSE @]]

Cancel(c) ==
  /\ Is(c, "cancelling")
  /\ job' = Cancelled({cmd[c].job}, {c})
  /\ Goes(c, "settling")

Settled(c) ==
  /\ Is(c, "settling")
  /\ Ended(cmd[c].job)
  /\ Leaves(c, Interrupted, job[cmd[c].job].status)
  /\ UNCHANGED job

\* `Scheduler::shutdown`: cancels the engine's own jobs ...
Shutdown(c) ==
  /\ Is(c, "leaving")
  /\ job' = Cancelled(Owned(c), {})
  /\ Goes(c, "closing")

\* ... and waits for them, but not longer than SHUTDOWN_GRACE.
Exit(c) ==
  /\ Is(c, "closing")
  /\ Goes(c, "exited")
  /\ UNCHANGED job

----------------------------------------------------------------------------
\* The owner's engine takes a queued job and ends a running one (Scheduler).
Run(j) ==
  /\ job[j].status = "queued"
  /\ Alive(job[j].owner) /\ ~Is(job[j].owner, "closing")
  /\ job' = [job EXCEPT ![j].status = "running"]
  /\ UNCHANGED cmd

End(j, status, error) ==
  /\ job[j].status = "running"
  /\ Alive(job[j].owner)
  /\ status = "cancelled" => job[j].stop
  /\ error = "none" <=> status = "succeeded"
  /\ job' = [job EXCEPT ![j].status = status, ![j].error = error]
  /\ UNCHANGED cmd

\* Any other engine's upkeep fails the jobs of one that is gone.
ReapJob(c, j) ==
  /\ Alive(c)
  /\ job[j].status \in Active /\ ~Alive(job[j].owner)
  /\ job' = [job EXCEPT ![j].status = "failed", ![j].error = "engine"]
  /\ UNCHANGED cmd

EndsSomehow(j) == \E status \in Terminal, error \in {"none", "engine", "job"} : End(j, status, error)

GoesOn(c) == Finished(c) \/ Cancel(c) \/ Settled(c) \/ Shutdown(c) \/ Exit(c)

CliNext ==
  \/ \E c \in Commands :
       \/ Start(c) \/ InspectFile(c) \/ Serve(c) \/ Press(c) \/ GoesOn(c)
       \/ \E error \in Errors : Refused(c, error)
       \/ \E j \in Jobs : SubmitJob(c, j) \/ Cached(c, j) \/ Joined(c, j) \/ ServeSubmit(c, j) \/ ReapJob(c, j)
  \/ \E j \in Jobs : Run(j) \/ EndsSomehow(j)

\* A process takes its next step; an engine takes and ends its jobs, which
\* have a timeout, and reaps those of the dead.
CliFairness ==
  /\ \A c \in Commands :
       /\ WF_cliVars(GoesOn(c))
       /\ WF_cliVars(\E j \in Jobs : ReapJob(c, j))
  /\ \A j \in Jobs : WF_cliVars(Run(j) \/ EndsSomehow(j))

CliSpec == CliInit /\ [][CliNext]_cliVars /\ CliFairness

----------------------------------------------------------------------------
(* Ctrl-C on a command cancels no job but one that this command started: a
   job it joined keeps running for its client (main.rs, submit_and_report).
   It takes one command's submission, another's joining it and its signal. *)
CtrlCCancelsOwnJob ==
  \A j \in Jobs : job[j].askedBy \subseteq {job[j].owner}

(* A command exits 0 only when its job succeeded, 130 only when somebody
   interrupted it, and it reports an end of its job that the store keeps
   (main.rs, exit_code, report and submit_and_report). *)
ExitCodesTellTheTruth ==
  \A c \in Commands :
    LET j == cmd[c].job IN
    (Is(c, "exited") /\ j # NoJob) =>
      /\ cmd[c].code = 0 => job[j].status = "succeeded"
      /\ cmd[c].code = Interrupted => cmd[c].presses > 0
      /\ cmd[c].code # Interrupted => cmd[c].shown \in Terminal
      /\ cmd[c].shown \in Terminal => cmd[c].shown = job[j].status

(* Once no more commands are typed, no command waits for a job or for itself:
   each has returned, whoever owned its job and even when that one was killed
   (scheduler/mod.rs, wait; maintenance.rs, upkeep; main.rs, submit_and_report). *)
EveryCommandReturns ==
  <>[](\A c \in Commands : cmd[c].at \in {"typed", "opening", "serving", "exited", "killed"})
=============================================================================

---------------------------- MODULE FrontProofs ----------------------------
(***************************************************************************)
(* What the clients of the engine are told is true, for any number of      *)
(* commands, jobs, messages, records and scans: Ctrl-C cancels no other    *)
(* client's job and an exit code says how the job ended; a server whose    *)
(* input has ended leaves no answer unwritten; the scene index and its     *)
(* cache say what the files held; a log tells what it misses, and whoever  *)
(* follows it to the end has all of it; when nothing is left to do, every  *)
(* section of a project was shown as its newest files and jobs make it.    *)
(***************************************************************************)
EXTENDS JobLog, SceneIndex, Workspace, CommandLine, AgentServer, Induction, SequenceTheorems, TLAPS

-----------------------------------------------------------------------------
(* The command line *)

CmdType ==
  [at : Places, job : Jobs \cup {NoJob}, mine : BOOLEAN, listening : BOOLEAN,
   shown : Terminal \cup Active \cup {"none"}, code : Codes, presses : 0..MaxPresses]

JobType ==
  [status : Active \cup Terminal \cup {"none"}, error : {"none", "engine", "job"},
   owner : Commands \cup {NoJob}, stop : BOOLEAN, askedBy : SUBSET Commands]

CliTyped == cmd \in [Commands -> CmdType] /\ job \in [Jobs -> JobType]

\* A command's job exists; it is its own where the command may cancel it.
Own(c) ==
  /\ cmd[c].at \in {"typed", "opening", "serving"} => cmd[c].job = NoJob
  /\ cmd[c].at \in {"waiting", "cancelling", "settling"} => cmd[c].job # NoJob
  /\ cmd[c].job # NoJob => job[cmd[c].job].status # "none"
  /\ cmd[c].job # NoJob /\ cmd[c].mine => job[cmd[c].job].owner = c
  /\ cmd[c].at \in {"cancelling", "settling"} => cmd[c].mine

\* What a command that leaves will have said.
Code(c) ==
  /\ cmd[c].at \in {"typed", "opening", "serving", "waiting", "cancelling", "settling"} =>
       cmd[c].code = 0
  /\ cmd[c].at \in {"cancelling", "settling"} => cmd[c].presses > 0
  /\ cmd[c].at \in {"leaving", "closing", "exited"} /\ cmd[c].job # NoJob =>
       /\ cmd[c].code = 0 => job[cmd[c].job].status = "succeeded"
       /\ cmd[c].code = Interrupted => cmd[c].presses > 0
       /\ cmd[c].code # Interrupted => cmd[c].shown \in Terminal
       /\ cmd[c].shown \in Terminal => cmd[c].shown = job[cmd[c].job].status

CliInv == CliTyped /\ (\A c \in Commands : Own(c) /\ Code(c)) /\ CtrlCCancelsOwnJob

\* A row keeps its owner, and its end.
JobsGoOn ==
  \A j \in Jobs : job[j].status # "none" =>
    /\ job'[j].owner = job[j].owner /\ job'[j].status # "none"
    /\ job[j].status \in Terminal => job'[j].status = job[j].status

\* A command that does not move is as right as it was, whatever its job does.
LEMMA OthersKeep ==
  ASSUME CliTyped, JobsGoOn, NEW c \in Commands, cmd'[c] = cmd[c], Own(c), Code(c)
  PROVE  Own(c)' /\ Code(c)'
<1>1. cmd[c].job # NoJob => cmd[c].job \in Jobs
  BY DEF CliTyped, CmdType
<1>2. Own(c)'
  BY <1>1 DEF Own, JobsGoOn
<1>3. cmd[c].job # NoJob /\ job[cmd[c].job].status \in Terminal =>
        job'[cmd[c].job].status = job[cmd[c].job].status
  BY <1>1 DEF JobsGoOn, Own, Terminal
<1>4. Code(c)'
  BY <1>3 DEF Code, Terminal
<1> QED
  BY <1>2, <1>4

\* Every step moves one command at most.
LEMMA OneCommandKeeps ==
  ASSUME CliInv, CliTyped', JobsGoOn, CtrlCCancelsOwnJob', NEW c \in Commands,
         \A d \in Commands \ {c} : cmd'[d] = cmd[d], Own(c)' /\ Code(c)'
  PROVE  CliInv'
  BY OthersKeep DEF CliInv

\* Nor does a step of the jobs alone disturb a command.
LEMMA JobsOnlyKeep ==
  ASSUME CliInv, CliTyped', JobsGoOn, CtrlCCancelsOwnJob', cmd' = cmd
  PROVE  CliInv'
  BY OthersKeep DEF CliInv

\* The places, codes and states by name.
LEMMA Names ==
  /\ {"typed", "opening", "waiting", "cancelling", "settling", "serving", "leaving", "closing",
      "exited", "killed"} = Places
  /\ {0, 1, 2, 3, 130} = Codes /\ Interrupted = 130
  /\ Active \cup Terminal = {"queued", "running", "succeeded", "failed", "cancelled"}
  BY DEF Places, Codes, Interrupted, Active, Terminal

\* Most commands' steps change where they are, and their code and last report.
LEMMA MoveTyped ==
  ASSUME CliTyped, NEW c \in Commands, NEW place \in Places, NEW code \in Codes,
         NEW shown \in Terminal \cup Active \cup {"none"},
         cmd' = [cmd EXCEPT ![c].at = place, ![c].code = code, ![c].shown = shown]
  PROVE  /\ cmd' \in [Commands -> CmdType]
         /\ \A d \in Commands \ {c} : cmd'[d] = cmd[d]
         /\ cmd'[c].at = place /\ cmd'[c].code = code /\ cmd'[c].shown = shown
         /\ cmd'[c].job = cmd[c].job /\ cmd'[c].mine = cmd[c].mine
         /\ cmd'[c].presses = cmd[c].presses
<1> DEFINE new == [cmd[c] EXCEPT !.at = place, !.code = code, !.shown = shown]
<1>1. cmd[c] \in CmdType /\ cmd' = [cmd EXCEPT ![c] = new]
  BY DEF CliTyped
<1>2. /\ new \in CmdType /\ new.at = place /\ new.code = code /\ new.shown = shown
      /\ new.job = cmd[c].job /\ new.mine = cmd[c].mine /\ new.presses = cmd[c].presses
  BY <1>1 DEF CmdType
<1> HIDE DEF new
<1>3. cmd'[c] = new /\ \A d \in Commands \ {c} : cmd'[d] = cmd[d]
  BY <1>1 DEF CliTyped
<1>4. cmd' \in [Commands -> CmdType]
  BY <1>1, <1>2 DEF CliTyped
<1> QED
  BY <1>2, <1>3, <1>4

\* Starting, ending and leaving: the job stays what it was.
LEMMA CommandMoves ==
  ASSUME CliInv, NEW c \in Commands,
         \/ Start(c) \/ InspectFile(c) \/ Finished(c) \/ Settled(c) \/ Exit(c)
         \/ \E error \in Errors : Refused(c, error)
  PROVE  CliInv'
<1>0. /\ CliTyped /\ Own(c) /\ Code(c)
      /\ cmd[c].code \in Codes /\ cmd[c].shown \in Terminal \cup Active \cup {"none"}
      /\ cmd[c].job # NoJob => cmd[c].job \in Jobs
  BY DEF CliInv, CliTyped, CmdType
<1>1. job' = job
  BY DEF Start, InspectFile, Finished, Settled, Exit, Refused
<1>2. JobsGoOn /\ CtrlCCancelsOwnJob'
  BY <1>1 DEF JobsGoOn, CliInv, CtrlCCancelsOwnJob
<1>3. SUFFICES /\ cmd' \in [Commands -> CmdType]
               /\ \A d \in Commands \ {c} : cmd'[d] = cmd[d]
               /\ Own(c)' /\ Code(c)'
  BY <1>0, <1>1, <1>2, OneCommandKeeps DEF CliTyped
<1>4. CASE Start(c)
  <2>1. PICK place \in {"opening", "exited"}, code \in Codes :
          /\ cmd' = [cmd EXCEPT ![c].at = place, ![c].code = code]
          /\ place = "opening" => code = 0
          /\ cmd[c].at = "typed"
    <3>1. CASE Goes(c, "opening")
      <4>1. cmd' = [cmd EXCEPT ![c].at = "opening", ![c].code = cmd[c].code]
        BY <1>0, <3>1 DEF Goes, CliTyped, CmdType
      <4>2. cmd[c].code = 0 /\ cmd[c].at = "typed"
        BY <1>0, <1>4 DEF Start, Is, Code
      <4> QED
        BY <1>0, <4>1, <4>2
    <3>2. CASE \E error \in {"input", "engine"} :
                 cmd' = [cmd EXCEPT ![c].at = "exited", ![c].code = ErrorCode(error)]
      <4>1. \A error \in {"input", "engine"} : ErrorCode(error) \in Codes
        BY DEF ErrorCode, Codes
      <4> QED
        BY <1>4, <3>2, <4>1 DEF Start, Is
    <3> QED
      BY <1>4, <3>1, <3>2 DEF Start
  <2>2. cmd' = [cmd EXCEPT ![c].at = place, ![c].code = code, ![c].shown = cmd[c].shown]
    BY <1>0, <2>1 DEF CliTyped, CmdType
  <2>3. place \in Places
    BY Names
  <2>4. /\ cmd' \in [Commands -> CmdType]
        /\ \A d \in Commands \ {c} : cmd'[d] = cmd[d]
        /\ cmd'[c].at = place /\ cmd'[c].code = code /\ cmd'[c].shown = cmd[c].shown
        /\ cmd'[c].job = cmd[c].job /\ cmd'[c].mine = cmd[c].mine
        /\ cmd'[c].presses = cmd[c].presses
    <3>1. PICK shown \in Terminal \cup Active \cup {"none"} : shown = cmd[c].shown
      BY <1>0 DEF CliTyped, CmdType
    <3>2. CliTyped /\ cmd' = [cmd EXCEPT ![c].at = place, ![c].code = code, ![c].shown = shown]
      BY <1>0, <2>2, <3>1
    <3>3. /\ cmd' \in [Commands -> CmdType]
          /\ \A d \in Commands \ {c} : cmd'[d] = cmd[d]
          /\ cmd'[c].at = place /\ cmd'[c].code = code /\ cmd'[c].shown = shown
          /\ cmd'[c].job = cmd[c].job /\ cmd'[c].mine = cmd[c].mine
          /\ cmd'[c].presses = cmd[c].presses
      BY <2>3, <3>2, MoveTyped
    <3> QED
      BY <3>1, <3>3
  <2> QED
    BY <1>0, <1>1, <2>1, <2>4 DEF Own, Code
<1>5. CASE InspectFile(c) \/ \E error \in Errors : Refused(c, error)
  <2>1. PICK code \in Codes : Leaves(c, code, "none") /\ cmd[c].at = "opening"
    BY <1>5 DEF InspectFile, Refused, Errors, ErrorCode, Codes, Is
  <2>2. "leaving" \in Places
    BY Names
  <2>3. /\ cmd' \in [Commands -> CmdType]
        /\ \A d \in Commands \ {c} : cmd'[d] = cmd[d]
        /\ cmd'[c].at = "leaving" /\ cmd'[c].code = code /\ cmd'[c].shown = "none"
        /\ cmd'[c].job = cmd[c].job /\ cmd'[c].mine = cmd[c].mine
        /\ cmd'[c].presses = cmd[c].presses
    BY <1>0, <2>1, <2>2, MoveTyped DEF Leaves
  <2> QED
    BY <1>0, <1>1, <2>1, <2>3 DEF Own, Code
<1>6. CASE Finished(c) \/ Settled(c)
  <2> DEFINE status == job[cmd[c].job].status
  <2>1. /\ cmd[c].at \in {"waiting", "settling"} /\ cmd[c].job # NoJob
        /\ status \in Terminal
    BY <1>0, <1>6 DEF Finished, Settled, SeesEnd, Ended, Is, Own
  <2>2. PICK code \in Codes :
             /\ Leaves(c, code, status)
             /\ code = 0 => status = "succeeded"
             /\ code = Interrupted => cmd[c].presses > 0
    <3>1. CASE Finished(c)
      BY <3>1 DEF Finished, ExitCode, Codes, Interrupted
    <3>2. CASE Settled(c)
      BY <1>0, <3>2 DEF Settled, Is, Code, Codes, Interrupted
    <3> QED
      BY <1>6, <3>1, <3>2
  <2>3. "leaving" \in Places
    BY Names
  <2>4. status \in Terminal \cup Active \cup {"none"} /\ status # "none"
    BY <2>1 DEF Terminal
  <2>5. cmd' = [cmd EXCEPT ![c].at = "leaving", ![c].code = code, ![c].shown = status]
    BY <2>2 DEF Leaves
  <2>6. /\ cmd' \in [Commands -> CmdType]
        /\ \A d \in Commands \ {c} : cmd'[d] = cmd[d]
        /\ cmd'[c].at = "leaving" /\ cmd'[c].code = code /\ cmd'[c].shown = status
        /\ cmd'[c].job = cmd[c].job /\ cmd'[c].mine = cmd[c].mine
        /\ cmd'[c].presses = cmd[c].presses
    <3> HIDE DEF status
    <3> QED
      BY <1>0, <2>3, <2>4, <2>5, MoveTyped
  <2> QED
    BY <1>0, <1>1, <2>1, <2>2, <2>6 DEF Own, Code
<1>7. CASE Exit(c)
  <2>1. cmd[c].at = "closing" /\ "exited" \in Places /\ cmd' = [cmd EXCEPT ![c].at = "exited"]
    BY <1>7, Names DEF Exit, Is, Goes
  <2>2. /\ cmd' \in [Commands -> CmdType]
        /\ \A d \in Commands \ {c} : cmd'[d] = cmd[d]
        /\ cmd'[c].at = "exited" /\ cmd'[c].code = cmd[c].code /\ cmd'[c].shown = cmd[c].shown
        /\ cmd'[c].job = cmd[c].job /\ cmd'[c].mine = cmd[c].mine
        /\ cmd'[c].presses = cmd[c].presses
    BY <1>0, <2>1 DEF CliTyped, CmdType
  <2> QED
    BY <1>0, <1>1, <2>1, <2>2 DEF Own, Code
<1> QED
  BY <1>4, <1>5, <1>6, <1>7

\* Listening for signals: the server, and the command that joined a job.
LEMMA ListenersKeep ==
  ASSUME CliInv, NEW c \in Commands, Serve(c) \/ \E j \in Jobs : Joined(c, j)
  PROVE  CliInv'
<1>0. /\ CliTyped /\ Own(c) /\ Code(c) /\ cmd \in [Commands -> CmdType]
  BY DEF CliInv, CliTyped
<1>1. job' = job /\ cmd[c].at = "opening"
  BY DEF Serve, Joined, Is
<1>2. JobsGoOn /\ CtrlCCancelsOwnJob'
  BY <1>1 DEF JobsGoOn, CliInv, CtrlCCancelsOwnJob
<1>3. SUFFICES /\ cmd' \in [Commands -> CmdType]
               /\ \A d \in Commands \ {c} : cmd'[d] = cmd[d]
               /\ Own(c)' /\ Code(c)'
  BY <1>0, <1>1, <1>2, OneCommandKeeps DEF CliTyped
<1>4. "serving" \in Places /\ "waiting" \in Places
  BY Names
<1>5. CASE Serve(c)
  <2>1. cmd' = [cmd EXCEPT ![c].at = "serving", ![c].listening = TRUE]
    BY <1>5 DEF Serve
  <2>2. /\ cmd' \in [Commands -> CmdType]
        /\ \A d \in Commands \ {c} : cmd'[d] = cmd[d]
        /\ cmd'[c].at = "serving" /\ cmd'[c].code = cmd[c].code /\ cmd'[c].job = cmd[c].job
    BY <1>0, <1>4, <2>1 DEF CmdType
  <2> QED
    BY <1>0, <1>1, <2>2 DEF Own, Code
<1>6. ASSUME NEW j \in Jobs, Joined(c, j)
      PROVE  /\ cmd' \in [Commands -> CmdType]
             /\ \A d \in Commands \ {c} : cmd'[d] = cmd[d]
             /\ Own(c)' /\ Code(c)'
  <2>1. /\ cmd' = [cmd EXCEPT ![c].at = "waiting", ![c].job = j, ![c].mine = FALSE,
                              ![c].listening = TRUE]
        /\ job[j].status # "none"
    BY <1>6 DEF Joined, Waits, Active
  <2>2. /\ cmd' \in [Commands -> CmdType]
        /\ \A d \in Commands \ {c} : cmd'[d] = cmd[d]
        /\ cmd'[c].at = "waiting" /\ cmd'[c].code = cmd[c].code /\ cmd'[c].job = j
        /\ ~ cmd'[c].mine
    <3>1. cmd'[c] = [cmd[c] EXCEPT !.at = "waiting", !.job = j, !.mine = FALSE, !.listening = TRUE]
      BY <1>0, <2>1
    <3>2. /\ cmd'[c] \in CmdType
          /\ cmd'[c].at = "waiting" /\ cmd'[c].code = cmd[c].code /\ cmd'[c].job = j
          /\ ~ cmd'[c].mine
      <4>1. cmd[c] \in CmdType
        BY <1>0
      <4> QED
        BY <1>4, <3>1, <4>1 DEF CmdType
    <3> QED
      BY <1>0, <2>1, <3>2
  <2> QED
    BY <1>0, <1>1, <2>1, <2>2, CommandsAssumption DEF Own, Code
<1> QED
  BY <1>5, <1>6

\* Ctrl-C, wherever it finds the command.
LEMMA PressKeeps ==
  ASSUME CliInv, NEW c \in Commands, Press(c)
  PROVE  CliInv'
<1>0. CliTyped /\ Own(c) /\ Code(c) /\ cmd \in [Commands -> CmdType]
  BY DEF CliInv, CliTyped
<1> DEFINE now     == IF cmd[c].job = NoJob THEN "none" ELSE job[cmd[c].job].status
           pressed == [cmd[c] EXCEPT !.presses = @ + 1]
<1>1. /\ job' = job /\ cmd[c].presses < MaxPresses
      /\ \/ cmd' = [cmd EXCEPT ![c] = [pressed EXCEPT !.at = "killed", !.code = Interrupted]]
         \/ /\ cmd' = [cmd EXCEPT ![c] = [pressed EXCEPT !.at = "cancelling"]]
            /\ cmd[c].at = "waiting" /\ cmd[c].mine
         \/ /\ cmd' = [cmd EXCEPT ![c] = [pressed EXCEPT !.at = "leaving", !.code = Interrupted,
                                                         !.shown = now]]
            /\ cmd[c].at = "waiting"
         \/ /\ cmd' = [cmd EXCEPT ![c] = [pressed EXCEPT !.at = "leaving"]]
            /\ cmd[c].at = "serving"
         \/ cmd' = [cmd EXCEPT ![c] = pressed]
  BY DEF Press, Is
<1>2. JobsGoOn /\ CtrlCCancelsOwnJob'
  BY <1>1 DEF JobsGoOn, CliInv, CtrlCCancelsOwnJob
<1>3. /\ {"killed", "cancelling", "leaving"} \subseteq Places /\ Interrupted \in Codes
      /\ now \in Terminal \cup Active \cup {"none"}
  BY <1>0, Names DEF CliTyped, CmdType, JobType
<1> HIDE DEF now
<1>4. cmd[c].presses + 1 \in 0..MaxPresses /\ cmd[c].presses + 1 > 0 /\ cmd[c].presses \in Nat
  BY <1>0, <1>1, CommandsAssumption DEF CmdType
<1>5. /\ pressed \in CmdType
      /\ [pressed EXCEPT !.at = "killed", !.code = Interrupted] \in CmdType
      /\ [pressed EXCEPT !.at = "cancelling"] \in CmdType
      /\ [pressed EXCEPT !.at = "leaving", !.code = Interrupted, !.shown = now] \in CmdType
      /\ [pressed EXCEPT !.at = "leaving"] \in CmdType
  BY <1>0, <1>3, <1>4 DEF CmdType
<1>6. /\ pressed.presses > 0
      /\ pressed.at = cmd[c].at /\ pressed.job = cmd[c].job /\ pressed.mine = cmd[c].mine
      /\ pressed.code = cmd[c].code /\ pressed.shown = cmd[c].shown
  BY <1>0, <1>4 DEF CmdType
<1> HIDE DEF pressed
<1>7. CliTyped' /\ \A d \in Commands \ {c} : cmd'[d] = cmd[d]
  BY <1>0, <1>1, <1>5 DEF CliTyped
<1>8. /\ cmd'[c].presses > 0 /\ cmd'[c].job = cmd[c].job /\ cmd'[c].mine = cmd[c].mine
      /\ \/ cmd'[c].at = "killed"
         \/ /\ cmd'[c].at = "cancelling" /\ cmd'[c].code = cmd[c].code
            /\ cmd[c].at = "waiting" /\ cmd[c].mine
         \/ /\ cmd'[c].at = "leaving" /\ cmd'[c].code = Interrupted /\ cmd'[c].shown = now
            /\ cmd[c].at = "waiting"
         \/ cmd'[c].at = "leaving" /\ cmd[c].at = "serving"
         \/ /\ cmd'[c].at = cmd[c].at /\ cmd'[c].code = cmd[c].code
            /\ cmd'[c].shown = cmd[c].shown
  <2>1. /\ pressed \in CmdType
        /\ \A r : cmd' = [cmd EXCEPT ![c] = r] => cmd'[c] = r
    BY <1>0, <1>5
  <2>2. \/ cmd'[c] = [pressed EXCEPT !.at = "killed", !.code = Interrupted]
        \/ /\ cmd'[c] = [pressed EXCEPT !.at = "cancelling"]
           /\ cmd[c].at = "waiting" /\ cmd[c].mine
        \/ /\ cmd'[c] = [pressed EXCEPT !.at = "leaving", !.code = Interrupted, !.shown = now]
           /\ cmd[c].at = "waiting"
        \/ cmd'[c] = [pressed EXCEPT !.at = "leaving"] /\ cmd[c].at = "serving"
        \/ cmd'[c] = pressed
    BY <1>1, <2>1
  <2> QED
    BY <1>6, <2>1, <2>2 DEF CmdType
<1>9. Own(c)' /\ Code(c)'
  BY <1>0, <1>1, <1>8 DEF Own, Code, now, Interrupted
<1> QED
  BY <1>2, <1>7, <1>9, OneCommandKeeps

\* A new row disturbs no other and has asked nobody to stop.
LEMMA NewJobKeeps ==
  ASSUME CliTyped, CtrlCCancelsOwnJob, NEW c \in Commands, NEW j \in Jobs,
         NEW status \in Active \cup Terminal, New(c, j, status)
  PROVE  /\ JobsGoOn /\ CtrlCCancelsOwnJob' /\ job' \in [Jobs -> JobType]
         /\ job'[j].owner = c /\ job'[j].status = status /\ status # "none"
<1> DEFINE new == [Free EXCEPT !.status = status, !.owner = c]
<1>1. job[j].status = "none" /\ job' = [job EXCEPT ![j] = new]
  BY DEF New, Free
<1>2. Free \in JobType /\ Free.askedBy = {} /\ status # "none"
  BY DEF Free, JobType, Active, Terminal
<1>3. new \in JobType /\ new.owner = c /\ new.status = status /\ new.askedBy = {}
  BY <1>2 DEF JobType
<1> HIDE DEF new
<1>4. job' \in [Jobs -> JobType] /\ job'[j] = new /\ \A k \in Jobs \ {j} : job'[k] = job[k]
  BY <1>1, <1>3 DEF CliTyped
<1> QED
  BY <1>1, <1>2, <1>3, <1>4 DEF JobsGoOn, CtrlCCancelsOwnJob

\* Cancelling asks jobs to stop, on behalf of their owner or of nobody.
LEMMA CancelledKeeps ==
  ASSUME CliTyped, CtrlCCancelsOwnJob, NEW js \in SUBSET Jobs, NEW who \in SUBSET Commands,
         \A j \in js : who \subseteq {job[j].owner}, job' = Cancelled(js, who)
  PROVE  JobsGoOn /\ CtrlCCancelsOwnJob' /\ job' \in [Jobs -> JobType]
<1>1. \A j \in Jobs :
        \/ job'[j] = job[j]
        \/ /\ j \in js /\ job[j].status \in Active
           /\ job'[j] = [job[j] EXCEPT !.askedBy = @ \cup who, !.stop = TRUE,
                           !.status = IF job[j].status = "queued" THEN "cancelled" ELSE @,
                           !.error = IF job[j].status = "queued" THEN "job" ELSE @]
  BY DEF Cancelled
<1>2. \A j \in Jobs : job[j] \in JobType
  BY DEF CliTyped
<1>3. \A j \in Jobs :
        \/ job'[j] = job[j] /\ job'[j] \in JobType
        \/ /\ j \in js /\ job[j].status \in Active /\ job'[j] \in JobType
           /\ job'[j].owner = job[j].owner /\ job'[j].askedBy = job[j].askedBy \cup who
           /\ job'[j].status # "none"
  <2> TAKE j \in Jobs
  <2>1. CASE job'[j] = job[j]
    BY <1>2, <2>1
  <2>2. CASE job'[j] # job[j]
    <3>1. /\ j \in js /\ job[j].status \in Active
          /\ job'[j] = [job[j] EXCEPT !.askedBy = @ \cup who, !.stop = TRUE,
                          !.status = IF job[j].status = "queued" THEN "cancelled" ELSE @,
                          !.error = IF job[j].status = "queued" THEN "job" ELSE @]
      BY <1>1, <2>2
    <3>2. /\ job'[j] \in JobType /\ job'[j].owner = job[j].owner
          /\ job'[j].askedBy = job[j].askedBy \cup who /\ job'[j].status # "none"
      <4>1. job[j] \in JobType
        BY <1>2
      <4> DEFINE asked == job[j].askedBy \cup who
                 st == IF job[j].status = "queued" THEN "cancelled" ELSE job[j].status
                 er == IF job[j].status = "queued" THEN "job" ELSE job[j].error
      <4>2. job'[j] = [job[j] EXCEPT !.askedBy = asked, !.stop = TRUE, !.status = st, !.error = er]
        BY <3>1, <4>1 DEF JobType
      <4>3. /\ asked \in SUBSET Commands /\ er \in {"none", "engine", "job"}
            /\ st \in Active \cup Terminal /\ st # "none"
        BY <3>1, <4>1 DEF JobType, Active, Terminal
      <4> HIDE DEF st, er
      <4> QED
        BY <4>1, <4>2, <4>3 DEF JobType
    <3> QED
      BY <3>1, <3>2
  <2> QED
    BY <2>1, <2>2
<1>4. JobsGoOn
  BY <1>3 DEF JobsGoOn, Active, Terminal
<1>5. CtrlCCancelsOwnJob'
  BY <1>3 DEF CtrlCCancelsOwnJob
<1>6. job' = [j \in Jobs |-> job'[j]]
  BY DEF Cancelled
<1> QED
  BY <1>3, <1>4, <1>5, <1>6

\* A command, or the browser of a server, submits a job.
LEMMA SubmittingKeeps ==
  ASSUME CliInv, NEW c \in Commands, NEW j \in Jobs,
         SubmitJob(c, j) \/ Cached(c, j) \/ ServeSubmit(c, j)
  PROVE  CliInv'
<1>0. CliTyped /\ Own(c) /\ Code(c) /\ CtrlCCancelsOwnJob
  BY DEF CliInv
<1>1. PICK status \in Active \cup Terminal : New(c, j, status)
  BY DEF SubmitJob, Cached, ServeSubmit, Active, Terminal
<1>2. /\ JobsGoOn /\ CtrlCCancelsOwnJob'
      /\ job' \in [Jobs -> JobType]
      /\ job'[j].owner = c /\ job'[j].status = status /\ status # "none"
  BY <1>0, <1>1, NewJobKeeps
<1>3. CASE SubmitJob(c, j)
  <2>1. cmd[c].at = "opening" /\ cmd[c] \in CmdType /\ "waiting" \in Places
    BY <1>0, <1>3, Names DEF SubmitJob, Is, CliTyped
  <2>2. cmd' = [cmd EXCEPT ![c] = [cmd[c] EXCEPT !.at = "waiting", !.job = j, !.mine = TRUE,
                                                 !.listening = TRUE]]
    BY <1>3 DEF SubmitJob, Waits
  <2>3. cmd'[c] = [cmd[c] EXCEPT !.at = "waiting", !.job = j, !.mine = TRUE, !.listening = TRUE]
    BY <1>0, <2>2 DEF CliTyped
  <2>4. /\ cmd'[c] \in CmdType
        /\ cmd'[c].at = "waiting" /\ cmd'[c].code = cmd[c].code /\ cmd'[c].job = j
    BY <2>1, <2>3 DEF CmdType
  <2>5. CliTyped' /\ \A d \in Commands \ {c} : cmd'[d] = cmd[d]
    BY <1>0, <1>2, <2>2, <2>3, <2>4 DEF CliTyped
  <2>6. Own(c)' /\ Code(c)'
    BY <1>0, <1>2, <2>1, <2>4, CommandsAssumption DEF Own, Code
  <2> QED
    BY <1>2, <2>5, <2>6, OneCommandKeeps
<1>4. CASE Cached(c, j)
  <2>1. /\ cmd[c].at = "opening" /\ cmd[c] \in CmdType /\ "leaving" \in Places
        /\ "succeeded" \in Terminal
    BY <1>0, <1>4, Names DEF Cached, Is, CliTyped, Terminal
  <2>2. cmd' = [cmd EXCEPT ![c] = [cmd[c] EXCEPT !.at = "leaving", !.job = j,
                                                 !.shown = "succeeded"]]
    BY <1>4 DEF Cached
  <2>3. cmd'[c] = [cmd[c] EXCEPT !.at = "leaving", !.job = j, !.shown = "succeeded"]
    BY <1>0, <2>2 DEF CliTyped
  <2>4. /\ cmd'[c] \in CmdType
        /\ cmd'[c].at = "leaving" /\ cmd'[c].code = cmd[c].code /\ cmd'[c].job = j
        /\ cmd'[c].shown = "succeeded" /\ cmd'[c].mine = cmd[c].mine
    BY <2>1, <2>3 DEF CmdType
  <2>5. CliTyped' /\ \A d \in Commands \ {c} : cmd'[d] = cmd[d]
    BY <1>0, <1>2, <2>2, <2>3, <2>4 DEF CliTyped
  <2>6. job'[j].status = "succeeded"
    <3>1. New(c, j, "succeeded") /\ "succeeded" \in Active \cup Terminal
      BY <1>4 DEF Cached, Terminal
    <3> QED
      BY <1>0, <3>1, NewJobKeeps
  <2>7. Own(c)' /\ Code(c)'
    BY <1>0, <1>2, <2>1, <2>4, <2>6, CommandsAssumption DEF Own, Code, Interrupted
  <2> QED
    BY <1>2, <2>5, <2>7, OneCommandKeeps
<1>5. CASE ServeSubmit(c, j)
  <2>1. cmd' = cmd /\ CliTyped'
    BY <1>0, <1>2, <1>5 DEF CliTyped, ServeSubmit
  <2> QED
    BY <1>2, <2>1, JobsOnlyKeep
<1> QED
  BY <1>3, <1>4, <1>5

\* Ctrl-C cancels the job of this command, shutdown all jobs of its engine.
LEMMA CancellingKeeps ==
  ASSUME CliInv, NEW c \in Commands, Cancel(c) \/ Shutdown(c)
  PROVE  CliInv'
<1>0. CliTyped /\ Own(c) /\ Code(c) /\ CtrlCCancelsOwnJob
  BY DEF CliInv
<1>1. /\ JobsGoOn /\ CtrlCCancelsOwnJob'
      /\ job' \in [Jobs -> JobType]
  <2>1. CASE Cancel(c)
    <3>1. cmd[c].job \in Jobs /\ job[cmd[c].job].owner = c
      BY <1>0, <2>1 DEF Cancel, Is, Own, CliTyped, CmdType
    <3>2. job' = Cancelled({cmd[c].job}, {c})
      BY <2>1 DEF Cancel
    <3> QED
      BY <1>0, <3>1, <3>2, CancelledKeeps
  <2>2. CASE Shutdown(c)
    <3>1. job' = Cancelled(Owned(c), {}) /\ Owned(c) \subseteq Jobs
      BY <2>2 DEF Shutdown, Owned
    <3> QED
      BY <1>0, <3>1, CancelledKeeps
  <2> QED
    BY <2>1, <2>2
<1>2. \/ cmd[c].at = "cancelling" /\ Goes(c, "settling")
      \/ cmd[c].at = "leaving" /\ Goes(c, "closing")
  BY DEF Cancel, Shutdown, Is
<1>3. {"settling", "closing"} \subseteq Places /\ cmd[c] \in CmdType
  BY <1>0, Names DEF CliTyped
<1>4. cmd[c].job # NoJob => cmd[c].job \in Jobs
  BY <1>3 DEF CmdType
<1>5. \E place \in {"settling", "closing"} :
        /\ cmd' = [cmd EXCEPT ![c] = [cmd[c] EXCEPT !.at = place]]
        /\ cmd'[c] = [cmd[c] EXCEPT !.at = place]
        /\ place = "settling" => cmd[c].at = "cancelling"
        /\ place = "closing" => cmd[c].at = "leaving"
  BY <1>0, <1>2 DEF Goes, CliTyped
<1>6. /\ cmd'[c] \in CmdType /\ cmd'[c].job = cmd[c].job /\ cmd'[c].mine = cmd[c].mine
      /\ cmd'[c].code = cmd[c].code /\ cmd'[c].shown = cmd[c].shown
      /\ cmd'[c].presses = cmd[c].presses
      /\ \/ cmd'[c].at = "settling" /\ cmd[c].at = "cancelling"
         \/ cmd'[c].at = "closing" /\ cmd[c].at = "leaving"
  BY <1>3, <1>5 DEF CmdType
<1>9. CliTyped' /\ \A d \in Commands \ {c} : cmd'[d] = cmd[d]
  BY <1>0, <1>1, <1>5, <1>6 DEF CliTyped
<1>7. Own(c)'
  BY <1>0, <1>1, <1>4, <1>6 DEF Own, JobsGoOn
<1>8. Code(c)'
  BY <1>0, <1>1, <1>4, <1>6 DEF Code, Own, JobsGoOn, Terminal
<1> QED
  BY <1>1, <1>7, <1>8, <1>9, OneCommandKeeps

\* Jobs run, end and are reaped.
LEMMA EnginesKeep ==
  ASSUME CliInv, NEW j \in Jobs, Run(j) \/ EndsSomehow(j) \/ \E c \in Commands : ReapJob(c, j)
  PROVE  CliInv'
<1>0. CliTyped /\ CtrlCCancelsOwnJob
  BY DEF CliInv
<1>1. /\ cmd' = cmd /\ job[j].status \in Active
      /\ \E status \in Active \cup Terminal, error \in {"none", "engine", "job"} :
           job' = [job EXCEPT ![j].status = status, ![j].error = error]
  <2>1. CASE Run(j)
    <3>1. job[j] \in JobType /\ job' = [job EXCEPT ![j] = [job[j] EXCEPT !.status = "running"]]
      BY <1>0, <2>1 DEF Run, CliTyped
    <3>2. /\ [job[j] EXCEPT !.status = "running", !.error = job[j].error]
               = [job[j] EXCEPT !.status = "running"]
          /\ job[j].error \in {"none", "engine", "job"}
      BY <3>1 DEF JobType
    <3>3. job' = [job EXCEPT ![j].status = "running", ![j].error = job[j].error]
      BY <3>1, <3>2
    <3> QED
      BY <2>1, <3>2, <3>3 DEF Run, Active
  <2>2. CASE EndsSomehow(j)
    BY <2>2 DEF EndsSomehow, End, Active
  <2>3. CASE \E c \in Commands : ReapJob(c, j)
    BY <2>3 DEF ReapJob, Terminal
  <2> QED
    BY <2>1, <2>2, <2>3
<1>2. PICK status \in Active \cup Terminal, error \in {"none", "engine", "job"} :
        job' = [job EXCEPT ![j] = [job[j] EXCEPT !.status = status, !.error = error]]
  <2>1. PICK status \in Active \cup Terminal, error \in {"none", "engine", "job"} :
          job' = [job EXCEPT ![j].status = status, ![j].error = error]
    BY <1>1
  <2>2. job' = [job EXCEPT ![j] = [job[j] EXCEPT !.status = status, !.error = error]]
    BY <1>0, <2>1 DEF CliTyped
  <2> QED
    BY <2>2
<1>4. /\ job[j] \in JobType /\ job'[j] = [job[j] EXCEPT !.status = status, !.error = error]
      /\ \A k \in Jobs \ {j} : job'[k] = job[k]
  BY <1>0, <1>2 DEF CliTyped
<1>5. /\ job'[j] \in JobType /\ job'[j].owner = job[j].owner /\ job'[j].askedBy = job[j].askedBy
      /\ job'[j].status # "none"
  BY <1>4 DEF JobType, Active, Terminal
<1>6. JobsGoOn /\ CtrlCCancelsOwnJob'
  BY <1>0, <1>1, <1>4, <1>5 DEF JobsGoOn, CtrlCCancelsOwnJob, Active, Terminal
<1>3. CliTyped'
  BY <1>0, <1>1, <1>2, <1>4, <1>5 DEF CliTyped
<1> QED
  BY <1>1, <1>3, <1>6, JobsOnlyKeep

\* CliInv is inductive.
LEMMA CliInductive == /\ CliInit => CliInv
                      /\ CliInv /\ [CliNext]_cliVars => CliInv'
<1>1. CliInit => CliInv
  <2>1. CliInit => CliTyped
    <3>1. Free \in JobType
      BY DEF Free, JobType
    <3>2. [at |-> "typed", job |-> NoJob, mine |-> FALSE, listening |-> FALSE, shown |-> "none",
           code |-> 0, presses |-> 0] \in CmdType
      BY CommandsAssumption DEF CmdType, Places, Codes
    <3> QED
      BY <3>1, <3>2 DEF CliInit, CliTyped
  <2>2. CliInit => \A c \in Commands : Own(c) /\ Code(c)
    BY DEF CliInit, Own, Code
  <2>3. CliInit => CtrlCCancelsOwnJob
    BY DEF CliInit, CtrlCCancelsOwnJob, Free
  <2> QED
    BY <2>1, <2>2, <2>3 DEF CliInv
<1>2. CliInv /\ [CliNext]_cliVars => CliInv'
  <2>1. CliInv /\ UNCHANGED cliVars => CliInv'
    BY DEF CliInv, cliVars, CliTyped, Own, Code, CtrlCCancelsOwnJob
  <2>2. CliInv /\ CliNext => CliInv'
    BY CommandMoves, ListenersKeep, PressKeeps, SubmittingKeeps, CancellingKeeps, EnginesKeep
    DEF CliNext, GoesOn
  <2> QED
    BY <2>1, <2>2
<1> QED
  BY <1>1, <1>2

(* Ctrl-C cancels no job but one that this command started, however many
   commands share the store (main.rs, submit_and_report). *)
THEOREM SignalsReachOwnJobs == CliSpec => []CtrlCCancelsOwnJob
<1>1. CliInv => CtrlCCancelsOwnJob
  BY DEF CliInv
<1> QED
  BY <1>1, CliInductive, PTL DEF CliSpec

(* What a command's exit code and its last report say of its job is so, and
   stays so: the job's end no longer changes (main.rs, exit_code and report). *)
THEOREM CodesAreTrue == CliSpec => []ExitCodesTellTheTruth
<1>1. CliInv => ExitCodesTellTheTruth
  BY DEF CliInv, Code, ExitCodesTellTheTruth, Is
<1> QED
  BY <1>1, CliInductive, PTL DEF CliSpec

-----------------------------------------------------------------------------
(* The MCP server *)

\* Appending what a sequence did not hold.
LEMMA AppendNew ==
  ASSUME NEW S, NEW s \in Seq(S), NEW e \in S, IsInjective(s), e \notin ToSet(s)
  PROVE  /\ Append(s, e) \in Seq(S) /\ IsInjective(Append(s, e))
         /\ ToSet(Append(s, e)) = ToSet(s) \cup {e}
<1>1. /\ Append(s, e) \in Seq(S) /\ DOMAIN s = 1..Len(s) /\ DOMAIN Append(s, e) = 1..(Len(s) + 1)
      /\ Len(s) \in Nat /\ Append(s, e)[Len(s) + 1] = e
      /\ \A i \in 1..Len(s) : Append(s, e)[i] = s[i]
  OBVIOUS
<1>2. IsInjective(Append(s, e))
  BY <1>1 DEF IsInjective, ToSet
<1>3. ToSet(Append(s, e)) = ToSet(s) \cup {e}
  BY <1>1 DEF ToSet
<1> QED
  BY <1>1, <1>2, <1>3

\* Taking the head off a sequence without duplicates.
LEMMA TakeHead ==
  ASSUME NEW S, NEW s \in Seq(S), IsInjective(s), s # <<>>
  PROVE  /\ Head(s) \in S /\ Tail(s) \in Seq(S) /\ IsInjective(Tail(s))
         /\ Head(s) \notin ToSet(Tail(s)) /\ ToSet(s) = ToSet(Tail(s)) \cup {Head(s)}
<1>1. /\ Head(s) \in S /\ Tail(s) \in Seq(S) /\ DOMAIN s = 1..Len(s) /\ Head(s) = s[1]
      /\ Len(s) \in Nat /\ Len(s) >= 1 /\ DOMAIN Tail(s) = 1..(Len(s) - 1)
      /\ \A i \in 1..(Len(s) - 1) : Tail(s)[i] = s[i + 1]
  OBVIOUS
<1>2. \A i, k \in 1..Len(s) : s[i] = s[k] => i = k
  BY <1>1 DEF IsInjective
<1>3. IsInjective(Tail(s))
  <2> SUFFICES ASSUME NEW i \in 1..(Len(s) - 1), NEW k \in 1..(Len(s) - 1), Tail(s)[i] = Tail(s)[k]
               PROVE  i = k
    BY <1>1 DEF IsInjective
  <2>1. i + 1 \in 1..Len(s) /\ k + 1 \in 1..Len(s) /\ s[i + 1] = s[k + 1]
    BY <1>1
  <2> QED
    BY <1>2, <2>1
<1>4. Head(s) \notin ToSet(Tail(s))
  <2> SUFFICES ASSUME NEW i \in 1..(Len(s) - 1), Tail(s)[i] = s[1]
               PROVE  FALSE
    BY <1>1 DEF ToSet
  <2>1. i + 1 \in 1..Len(s) /\ 1 \in 1..Len(s) /\ s[i + 1] = s[1] /\ i + 1 # 1
    BY <1>1
  <2> QED
    BY <1>2, <2>1
<1>5. ToSet(s) = ToSet(Tail(s)) \cup {Head(s)}
  <2>1. ASSUME NEW i \in 1..Len(s)
        PROVE  s[i] \in ToSet(Tail(s)) \cup {Head(s)}
    <3>1. CASE i = 1
      BY <1>1, <3>1
    <3>2. CASE i # 1
      <4>1. i - 1 \in 1..(Len(s) - 1) /\ Tail(s)[i - 1] = s[i]
        BY <1>1, <3>2
      <4> QED
        BY <1>1, <4>1 DEF ToSet
    <3> QED
      BY <3>1, <3>2
  <2>2. \A i \in 1..(Len(s) - 1) : i + 1 \in 1..Len(s) /\ 1 \in 1..Len(s)
    BY <1>1
  <2> QED
    BY <1>1, <2>1, <2>2 DEF ToSet
<1> QED
  BY <1>1, <1>3, <1>4, <1>5

Wanting == {m \in Messages : line[m].kind \notin Silent \cup {"unread"}}
Pending == {m \in Messages : line[m].at \in {"spawned", "waiting"}}
Told    == ToSet(written) \cup ToSet(outbox)

\* Every message that wants an answer is being answered, or has one answer,
\* written or about to be; until the server stops otherwise, none is missing.
AnswerInv ==
  /\ \A m \in Messages : line[m].kind \in Silent \cup {"unread"} <=> line[m].at = "none"
  /\ IsInjective(written) /\ IsInjective(outbox) /\ ToSet(written) \cap ToSet(outbox) = {}
  /\ Told \cap Pending = {} /\ Told \subseteq Wanting
  /\ Serving \/ server = "eof" => Wanting = Pending \cup Told
  /\ server = "eof" => outbox = <<>> /\ Pending = {}

LineType ==
  [kind : Kinds \cup {"unread"}, at : {"none", "spawned", "waiting", "answered"},
   job : Work \cup {NoWork}]

AgentTyped ==
  /\ line \in [Messages -> LineType]
  /\ outbox \in Seq(Messages) /\ written \in Seq(Messages)
  /\ server \in {"serving", "signal", "eof", "broken", "gone"}

AgentInv == AgentTyped /\ AnswerInv

\* The answer to m goes out, or is dropped by a server that has stopped.
LEMMA AnswerKeeps ==
  ASSUME AgentInv, NEW m \in Pending, NEW j \in Work \cup {NoWork}, Answer(m, j),
         UNCHANGED <<written, server>>
  PROVE  AgentInv'
<1>1. /\ m \in Messages /\ line[m] \in LineType /\ m \notin Told
      /\ outbox \in Seq(Messages) /\ IsInjective(outbox)
  BY DEF AgentInv, AgentTyped, AnswerInv, Pending
<1>2. /\ line' = [line EXCEPT ![m] = [line[m] EXCEPT !.at = "answered", !.job = j]]
      /\ outbox' = IF Serving THEN Append(outbox, m) ELSE outbox
  BY DEF Answer
<1>3. /\ line'[m] \in LineType /\ line'[m].at = "answered" /\ line'[m].kind = line[m].kind
      /\ \A k \in Messages \ {m} : line'[k] = line[k]
      /\ line' \in [Messages -> LineType]
  <2>1. line'[m] = [line[m] EXCEPT !.at = "answered", !.job = j]
    BY <1>1, <1>2 DEF AgentInv, AgentTyped
  <2>2. line'[m] \in LineType /\ line'[m].at = "answered" /\ line'[m].kind = line[m].kind
    BY <1>1, <2>1 DEF LineType
  <2> QED
    BY <1>2, <2>1, <2>2 DEF AgentInv, AgentTyped
<1>4. /\ Pending' = Pending \ {m} /\ Wanting' = Wanting
      /\ \A k \in Messages : line'[k].kind \in Silent \cup {"unread"} <=> line'[k].at = "none"
  <2>1. line[m].at # "none"
    BY DEF Pending
  <2> QED
    BY <1>1, <1>3, <2>1 DEF Pending, Wanting, AgentInv, AnswerInv
<1>5. m \in Wanting /\ server # "eof"
  BY <1>1 DEF AgentInv, AnswerInv, Wanting, Pending
<1>6. CASE Serving
  <2>1. /\ outbox' \in Seq(Messages) /\ IsInjective(outbox')
        /\ ToSet(outbox') = ToSet(outbox) \cup {m}
    BY <1>1, <1>2, <1>6, AppendNew DEF Told
  <2> QED
    BY <1>1, <1>3, <1>4, <1>5, <2>1 DEF AgentInv, AgentTyped, AnswerInv, Told, Serving
<1>7. CASE ~ Serving
  <2>1. outbox' = outbox
    BY <1>2, <1>7
  <2> QED
    BY <1>3, <1>4, <1>5, <1>7, <2>1 DEF AgentInv, AgentTyped, AnswerInv, Told, Serving
<1> QED
  BY <1>6, <1>7

Wait(m, j) == line' = [line EXCEPT ![m].at = "waiting", ![m].job = j]

\* A tool waits for its job.
LEMMA WaitKeeps ==
  ASSUME AgentInv, NEW m \in Pending, NEW j \in Work \cup {NoWork}, Wait(m, j),
         UNCHANGED <<outbox, written, server>>
  PROVE  AgentInv'
<1>1. m \in Messages /\ line[m] \in LineType
  BY DEF AgentInv, AgentTyped, Pending
<1>2. line'[m] = [line[m] EXCEPT !.at = "waiting", !.job = j]
  BY <1>1 DEF AgentInv, AgentTyped, Wait
<1>3. line'[m] \in LineType /\ line'[m].at = "waiting" /\ line'[m].kind = line[m].kind
  BY <1>1, <1>2 DEF LineType
<1>4. line' \in [Messages -> LineType] /\ \A k \in Messages \ {m} : line'[k] = line[k]
  BY <1>1, <1>2, <1>3 DEF AgentInv, AgentTyped, Wait
<1>5. Pending' = Pending /\ Wanting' = Wanting
  BY <1>1, <1>3, <1>4 DEF Pending, Wanting
<1>6. \A k \in Messages : line'[k].kind \in Silent \cup {"unread"} <=> line'[k].at = "none"
  BY <1>1, <1>3, <1>4 DEF AgentInv, AnswerInv, Pending
<1> QED
  BY <1>4, <1>5, <1>6 DEF AgentInv, AgentTyped, AnswerInv, Told, Serving

\* A message comes in; garbage is answered at once.
LEMMA ReadKeeps ==
  ASSUME AgentInv, NEW m \in Messages, NEW kind \in Kinds, Read(m, kind)
  PROVE  AgentInv'
<1> DEFINE there == IF kind \in Silent THEN "none"
                    ELSE IF kind = "garbage" THEN "answered" ELSE "spawned"
<1>1. /\ Serving /\ line[m].kind = "unread" /\ UNCHANGED <<written, server>>
      /\ line' = [line EXCEPT ![m] = [kind |-> kind, job |-> NoWork, at |-> there]]
      /\ outbox' = IF kind = "garbage" THEN Append(outbox, m) ELSE outbox
  BY DEF Read
<1>2. /\ line'[m].kind = kind /\ line'[m].at = there
      /\ line' \in [Messages -> LineType] /\ \A k \in Messages \ {m} : line'[k] = line[k]
  <2>1. there \in {"none", "spawned", "waiting", "answered"}
    OBVIOUS
  <2> HIDE DEF there
  <2>2. [kind |-> kind, job |-> NoWork, at |-> there] \in LineType
    BY <2>1 DEF LineType
  <2> QED
    BY <1>1, <2>2 DEF AgentInv, AgentTyped
<1>3. m \notin Wanting /\ m \notin Pending /\ m \notin Told
  BY <1>1 DEF Wanting, Pending, AgentInv, AnswerInv
<1>4. "garbage" \notin Silent /\ "unread" \notin Kinds
  BY DEF Silent, Kinds
<1>5. \A k \in Messages : line'[k].kind \in Silent \cup {"unread"} <=> line'[k].at = "none"
  BY <1>2, <1>4 DEF AgentInv, AnswerInv
<1>6. /\ Wanting' = IF kind \in Silent THEN Wanting ELSE Wanting \cup {m}
      /\ Pending' = IF kind \in Silent \cup {"garbage"} THEN Pending ELSE Pending \cup {m}
  BY <1>2, <1>3, <1>4 DEF Wanting, Pending
<1> HIDE DEF there
<1>7. CASE kind = "garbage"
  <2>1. /\ outbox' \in Seq(Messages) /\ IsInjective(outbox')
        /\ ToSet(outbox') = ToSet(outbox) \cup {m}
    BY <1>1, <1>3, <1>7, AppendNew DEF AgentInv, AgentTyped, AnswerInv, Told
  <2> QED
    BY <1>1, <1>2, <1>3, <1>4, <1>5, <1>6, <1>7, <2>1
    DEF AgentInv, AgentTyped, AnswerInv, Told, Serving
<1>8. CASE kind # "garbage"
  <2>1. outbox' = outbox
    BY <1>1, <1>8
  <2> QED
    BY <1>1, <1>2, <1>3, <1>5, <1>6, <1>8, <2>1 DEF AgentInv, AgentTyped, AnswerInv, Told, Serving
<1> QED
  BY <1>7, <1>8

\* The next answer is written.
LEMMA WriteKeeps ==
  ASSUME AgentInv, WriteAnswer
  PROVE  AgentInv'
<1> DEFINE m == Head(outbox)
<1>1. /\ outbox \in Seq(Messages) /\ outbox # <<>> /\ IsInjective(outbox)
      /\ written \in Seq(Messages) /\ IsInjective(written)
      /\ ToSet(written) \cap ToSet(outbox) = {}
      /\ written' = Append(written, m) /\ outbox' = Tail(outbox)
      /\ UNCHANGED <<line, server>>
  BY DEF AgentInv, AgentTyped, AnswerInv, WriteAnswer
<1>2. /\ m \in Messages /\ outbox' \in Seq(Messages) /\ IsInjective(outbox')
      /\ m \notin ToSet(outbox') /\ ToSet(outbox) = ToSet(outbox') \cup {m}
  BY <1>1, TakeHead
<1> HIDE DEF m
<1>3. /\ written' \in Seq(Messages) /\ IsInjective(written')
      /\ ToSet(written') = ToSet(written) \cup {m}
  BY <1>1, <1>2, AppendNew
<1>4. Told' = Told /\ Pending' = Pending /\ Wanting' = Wanting /\ server # "eof"
  BY <1>1, <1>2, <1>3 DEF Told, Pending, Wanting, WriteAnswer, Serving
<1> QED
  BY <1>1, <1>2, <1>3, <1>4 DEF AgentInv, AgentTyped, AnswerInv, Serving

\* AgentInv is inductive.
LEMMA AgentInductive == /\ AgentInit => AgentInv
                        /\ AgentInv /\ [AgentNext]_agentVars => AgentInv'
<1>1. AgentInit => AgentInv
  <2> SUFFICES ASSUME AgentInit
               PROVE  AgentInv
    OBVIOUS
  <2>1. AgentTyped
    BY DEF AgentInit, AgentTyped, LineType
  <2>2. /\ IsInjective(written) /\ IsInjective(outbox) /\ Told = {}
    BY DEF AgentInit, IsInjective, ToSet, Told
  <2>3. /\ Wanting = {} /\ Pending = {} /\ server = "serving"
        /\ \A m \in Messages : line[m].kind \in Silent \cup {"unread"} <=> line[m].at = "none"
    BY DEF AgentInit, Wanting, Pending
  <2> QED
    BY <2>1, <2>2, <2>3 DEF AgentInv, AnswerInv, Told
<1>2. ASSUME AgentInv, AgentNext
      PROVE  AgentInv'
  <2>1. ASSUME NEW m \in Messages, AnswerAtOnce(m) \/ WaitEnds(m)
        PROVE  AgentInv'
    <3>1. m \in Pending /\ line[m].job \in Work \cup {NoWork}
      BY <1>2, <2>1 DEF AnswerAtOnce, WaitEnds, Pending, AgentInv, AgentTyped, LineType
    <3> QED
      BY <1>2, <2>1, <3>1, AnswerKeeps DEF AnswerAtOnce, WaitEnds
  <2>2. ASSUME NEW m \in Messages, NEW j \in Work, Submit(m, j) \/ Status(m, j)
        PROVE  AgentInv'
    <3>1. m \in Pending
      BY <2>2 DEF Submit, Status, Handles, Pending
    <3>2. \/ Answer(m, j) /\ UNCHANGED <<written, server>>
          \/ Wait(m, j) /\ UNCHANGED <<outbox, written, server>>
      BY <2>2 DEF Submit, Status, Settle, Wait
    <3> QED
      BY <1>2, <3>1, <3>2, AnswerKeeps, WaitKeeps
  <2>3. CASE EndInput \/ \E j \in Work : WorkEnds(j)
    <3>1. UNCHANGED <<line, outbox, written, server>>
      BY <2>3 DEF EndInput, WorkEnds
    <3> QED
      BY <1>2, <3>1 DEF AgentInv, AgentTyped, AnswerInv, Told, Pending, Wanting, Serving
  <2>4. CASE Leave \/ \E why \in {"signal", "eof", "broken"} : Stop(why)
    <3>1. /\ UNCHANGED <<line, outbox, written>> /\ server' \in {"gone", "signal", "eof", "broken"}
          /\ server' = "eof" => Serving /\ outbox = <<>> /\ Pending = {}
      BY <2>4 DEF Leave, Stop, Drained, Pending
    <3> QED
      BY <1>2, <3>1 DEF AgentInv, AgentTyped, AnswerInv, Told, Pending, Wanting, Serving
  <2> QED
    BY <1>2, <2>1, <2>2, <2>3, <2>4, ReadKeeps, WriteKeeps DEF AgentNext
<1>3. AgentInv /\ UNCHANGED agentVars => AgentInv'
  BY DEF AgentInv, AgentTyped, AnswerInv, Told, Pending, Wanting, Serving, agentVars
<1> QED
  BY <1>1, <1>2, <1>3

(* A server that stopped at the end of its input has written one answer to
   every message that wanted one, in whatever order its tasks came to theirs
   (mcp/mod.rs, serve and dispatch). *)
THEOREM NoAnswerIsLost == AgentSpec => []EndOfInputLosesNoAnswer
<1>1. AgentInv => EndOfInputLosesNoAnswer
  <2> SUFFICES ASSUME AgentInv
               PROVE  EndOfInputLosesNoAnswer
    OBVIOUS
  <2>1. server = "eof" => ToSet(outbox) = {}
    BY DEF AgentInv, AnswerInv, ToSet
  <2> QED
    BY <2>1 DEF AgentInv, AnswerInv, Told, Wanting, EndOfInputLosesNoAnswer
<1> QED
  BY <1>1, AgentInductive, PTL DEF AgentSpec

-----------------------------------------------------------------------------
(* The scene index *)

Inputs == [Files -> States]
Reads == [Files -> States \cup {None}]
Knowable == Runtimes \cup {None}

Entries == [key : Knowable \X Inputs, result : Inputs, by : Runtimes \cup {None}, undone : SUBSET Files, told : BOOLEAN]
SceneViews == [of : Contents \cup {None}, failed : BOOLEAN]
Indexes == [refreshing : BOOLEAN, indexed : BOOLEAN, error : BOOLEAN,
            scenes : [Files -> SceneViews], lastGood : [Files -> (Contents \ Bad) \cup {None}]]
Phases == {"idle", "gather", "asked", "hashed", "scanning", "done"}
Scans == [phase : Phases, inputs : Inputs \cup {None}, since : [Files -> Nat] \cup {None}, read : Reads \cup {None},
          by : Runtimes \cup {None}, heard : Nat]
RuntimeStates == [installed : Runtimes, known : Knowable, learnt : Nat]

\* A scan under way has what it has come to: its inputs, and then all it read.
ScanInv ==
  /\ scan \in [Callers -> Scans]
  /\ \A c \in Callers :
       /\ scan[c].phase \in {"hashed", "scanning"} => scan[c].inputs \in Inputs /\ scan[c].since \in [Files -> Nat]
       /\ scan[c].phase = "scanning" => scan[c].read \in Reads
       /\ scan[c].phase = "done" => scan[c].read \in Inputs

\* The scenes shown are those of the last good parse.
ShownInv ==
  /\ index \in Indexes
  /\ \A f \in Files : index.scenes[f].of = index.lastGood[f]

FilesInv ==
  /\ disk \in Inputs /\ revisions \in Inputs
  /\ held \in [Files -> SUBSET States] /\ \A f \in Files : disk[f] \in held[f]
  /\ edits \in [Files -> Nat]
  /\ stamped \subseteq Files /\ late \subseteq Files \X Contents
  /\ runtime \in RuntimeStates

KeysDiffer == \A i, j \in DOMAIN cache : cache[i].key = cache[j].key => i = j

IndexInv ==
  /\ FilesInv /\ ScanInv /\ ShownInv
  /\ cache \in Seq(Entries) /\ KeysDiffer

\* What a scan under way has read of a file is what was hashed, unless the file changed
\* since, which then is what it was only if it may go back; and no runtime is known but
\* that of its worker, unless another was learnt of since.
SoundScan(s) ==
  /\ s.phase \in {"hashed", "scanning"} =>
       \A f \in Files :
         /\ s.since[f] <= edits[f]
         /\ edits[f] = s.since[f] =>
              /\ disk[f] = s.inputs[f]
              /\ s.phase = "scanning" => s.read[f] \in {None, s.inputs[f]}
         /\ f \notin MayRevert =>
              /\ s.inputs[f] \in held[f]
              /\ edits[f] = s.since[f] \/ disk[f] # s.inputs[f]
  /\ s.phase = "scanning" =>
       s.heard <= runtime.learnt /\ (runtime.learnt = s.heard => runtime.known = s.by)

ScansInv == \A c \in Callers : SoundScan(scan[c])

\* Only a file that may go back was changed and back under an entry.
UndoneMayRevert == \A i \in DOMAIN cache : cache[i].undone \subseteq MayRevert

SoundInv == IndexInv /\ ScansInv /\ UndoneMayRevert /\ EntriesDescribeTheirInputs

-----------------------------------------------------------------------------
(* The cache *)

LEMMA RemovedAt ==
  ASSUME NEW S, NEW s \in Seq(S), NEW i \in DOMAIN s
  PROVE  /\ RemoveAt(s, i) \in Seq(S)
         /\ Len(RemoveAt(s, i)) = Len(s) - 1
         /\ \A k \in 1..(Len(s) - 1) :
              RemoveAt(s, i)[k] = IF k < i THEN s[k] ELSE s[k + 1]
PROOF
  <1> DEFINE a == SubSeq(s, 1, i - 1)
             b == SubSeq(s, i + 1, Len(s))
  <1>1. i \in 1..Len(s) /\ Len(s) \in Nat
    OBVIOUS
  <1>2. /\ a \in Seq(S) /\ Len(a) = i - 1
        /\ \A k \in 1..(i - 1) : a[k] = s[k]
    BY <1>1, SubSeqProperties
  <1>3. /\ b \in Seq(S) /\ Len(b) = Len(s) - i
        /\ \A k \in 1..(Len(s) - i) : b[k] = s[i + k]
    BY <1>1, SubSeqProperties
  <1>4. RemoveAt(s, i) = a \o b
    BY DEF RemoveAt
  <1> HIDE DEF a, b
  <1>5. /\ a \o b \in Seq(S) /\ Len(a \o b) = Len(a) + Len(b)
        /\ \A k \in 1..(Len(a) + Len(b)) :
             (a \o b)[k] = IF k <= Len(a) THEN a[k] ELSE b[k - Len(a)]
    BY <1>2, <1>3, ConcatProperties
  <1>6. ASSUME NEW k \in 1..(Len(s) - 1)
        PROVE  (a \o b)[k] = IF k < i THEN s[k] ELSE s[k + 1]
    <2>1. CASE k < i
      <3>1. k \in 1..(i - 1) /\ k <= Len(a) /\ k \in 1..(Len(a) + Len(b))
        BY <2>1, <1>1, <1>2, <1>3
      <3>2. (a \o b)[k] = a[k]
        BY <3>1, <1>5
      <3>3. a[k] = s[k]
        BY <3>1, <1>2
      <3> QED
        BY <2>1, <3>2, <3>3
    <2>2. CASE ~(k < i)
      <3>1. k - (i - 1) \in 1..(Len(s) - i) /\ i + (k - (i - 1)) = k + 1
        BY <2>2, <1>1
      <3>2. k \in 1..(Len(a) + Len(b)) /\ ~(k <= Len(a)) /\ Len(a) = i - 1
        BY <2>2, <1>1, <1>2, <1>3
      <3>3. (a \o b)[k] = b[k - (i - 1)]
        BY <3>2, <1>5
      <3> QED
        BY <2>2, <3>1, <3>3, <1>3
    <2> QED
      BY <2>1, <2>2
  <1>7. Len(a \o b) = Len(s) - 1
    BY <1>1, <1>2, <1>3, <1>5
  <1> QED
    BY <1>4, <1>5, <1>6, <1>7

(* Every entry but the newest was there before, and the newest's key is its own. *)
LEMMA CachePutKeeps ==
  ASSUME cache \in Seq(Entries), KeysDiffer, NEW e \in Entries
  PROVE  /\ CachePut(e) \in Seq(Entries)
         /\ \A k \in DOMAIN CachePut(e) :
              CachePut(e)[k] = e \/ \E i \in DOMAIN cache : CachePut(e)[k] = cache[i]
         /\ \A k, l \in DOMAIN CachePut(e) : CachePut(e)[k].key = CachePut(e)[l].key => k = l
PROOF
  <1> DEFINE old == CacheGet(e.key)
             rest == IF old = {} THEN cache ELSE RemoveAt(cache, CHOOSE i \in old : TRUE)
  <1>0. CachePut(e) = Append(rest, e)
    BY DEF CachePut
  <1>1. /\ rest \in Seq(Entries)
        /\ \A k \in DOMAIN rest : \E i \in DOMAIN cache : rest[k] = cache[i]
        /\ \A k \in DOMAIN rest : rest[k].key # e.key
        /\ \A k, l \in DOMAIN rest : rest[k].key = rest[l].key => k = l
    <2>1. CASE old = {}
      BY <2>1 DEF CacheGet, KeysDiffer
    <2>2. CASE old # {}
      <3>1. PICK n \in DOMAIN cache : n = (CHOOSE i \in old : TRUE) /\ cache[n].key = e.key
        BY <2>2 DEF CacheGet
      <3>2. rest = RemoveAt(cache, n)
        BY <2>2, <3>1
      <3> HIDE DEF rest, old
      <3>3. /\ rest \in Seq(Entries) /\ Len(rest) = Len(cache) - 1
            /\ \A k \in 1..(Len(cache) - 1) :
                 rest[k] = IF k < n THEN cache[k] ELSE cache[k + 1]
        BY <3>2, RemovedAt
      <3>4. /\ DOMAIN rest = 1..(Len(cache) - 1) /\ DOMAIN cache = 1..Len(cache)
            /\ Len(cache) \in Nat
        BY <3>3
      <3> DEFINE from(k) == IF k < n THEN k ELSE k + 1
      <3>5. ASSUME NEW k \in DOMAIN rest
            PROVE  from(k) \in DOMAIN cache \ {n} /\ rest[k] = cache[from(k)]
        <4>1. n \in 1..Len(cache) /\ k \in 1..(Len(cache) - 1) /\ Len(cache) \in Nat
          BY <3>4
        <4>2. from(k) \in 1..Len(cache) /\ from(k) # n
          BY <4>1
        <4>3. rest[k] = IF k < n THEN cache[k] ELSE cache[k + 1]
          BY <4>1, <3>3
        <4> QED
          BY <4>2, <4>3, <3>4
      <3>6. \A k, l \in DOMAIN rest : from(k) = from(l) => k = l
        BY <3>1, <3>4
      <3> HIDE DEF from
      <3> QED
        BY <3>1, <3>3, <3>5, <3>6 DEF KeysDiffer
    <2> QED
      BY <2>1, <2>2
  <1> HIDE DEF rest, old
  <1>2. /\ Append(rest, e) \in Seq(Entries) /\ Len(Append(rest, e)) = Len(rest) + 1
        /\ Append(rest, e)[Len(rest) + 1] = e
        /\ \A k \in 1..Len(rest) : Append(rest, e)[k] = rest[k]
    BY <1>1, AppendProperties
  <1>3. /\ DOMAIN Append(rest, e) = 1..(Len(rest) + 1)
        /\ DOMAIN rest = 1..Len(rest) /\ Len(rest) \in Nat
    BY <1>1, <1>2
  <1> QED
    BY <1>0, <1>1, <1>2, <1>3

-----------------------------------------------------------------------------
(* The files, the scans and the index *)

LEMMA InitIndexInv == IndexInit => SoundInv
PROOF
  <1> SUFFICES ASSUME IndexInit PROVE SoundInv
    OBVIOUS
  <1>1. FilesInv
    BY IndexAssumption DEF IndexInit, FilesInv, Inputs, States, Knowable, RuntimeStates
  <1>2. ScanInv
    BY DEF IndexInit, ScanInv, Idle, Scans, Phases
  <1>3. index \in Indexes
    BY DEF IndexInit, Indexes, SceneViews, Nothing
  <1>4. ShownInv
    BY <1>3 DEF IndexInit, ShownInv, Nothing
  <1>5. cache = <<>> /\ cache \in Seq(Entries) /\ DOMAIN cache = {}
    BY DEF IndexInit
  <1>6. ScansInv
    BY DEF IndexInit, ScansInv, SoundScan, Idle
  <1>7. UndoneMayRevert
    BY <1>5 DEF UndoneMayRevert
  <1> QED
    BY <1>1, <1>2, <1>4, <1>5, <1>6, <1>7 DEF IndexInv, KeysDiffer, EntriesDescribeTheirInputs, SoundInv

(* A file is written, announced or looked at. *)
LEMMA FileSteps ==
  ASSUME IndexInv, NEW f \in Files, NEW c \in States,
         Outside(f, c) \/ Write(f, c) \/ Announce(f, c) \/ Look(f)
  PROVE  IndexInv' /\ UNCHANGED <<scan, index, cache>>
PROOF
  <1>1. UNCHANGED <<scan, index, cache>>
    BY DEF Outside, Write, Announce, Look
  <1>2. FilesInv'
    <2> USE DEF IndexInv, FilesInv, Inputs
    <2>1. ASSUME Put(f, c)
          PROVE  /\ disk' \in Inputs /\ stamped' \subseteq Files
                 /\ held' \in [Files -> SUBSET States] /\ \A g \in Files : disk'[g] \in held'[g]
                 /\ edits' \in [Files -> Nat]
      BY <2>1 DEF Put
    <2>2. CASE Outside(f, c)
      BY <2>1, <2>2 DEF Outside, watchVars
    <2>3. CASE Write(f, c)
      <3>1. late' \subseteq Files \X Contents
        BY <2>3 DEF Write
      <3> QED
        BY <2>1, <2>3, <3>1 DEF Write
    <2>4. CASE Announce(f, c)
      <3>1. late' \subseteq Files \X Contents /\ revisions' \in Inputs
        BY <2>4 DEF Announce
      <3> QED
        BY <2>4, <3>1 DEF Announce, fileVars
    <2>5. CASE Look(f)
      <3>1. stamped' \subseteq Files /\ revisions' \in Inputs
        BY <2>5 DEF Look
      <3> QED
        BY <2>5, <3>1 DEF Look
    <2> QED
      BY <2>2, <2>3, <2>4, <2>5
  <1> QED
    BY <1>1, <1>2 DEF IndexInv, ScanInv, ShownInv, KeysDiffer

(* What a worker reports is a runtime there is. *)
LEMMA ReportsKeep ==
  ASSUME IndexInv, Reports
  PROVE  runtime' \in RuntimeStates
<1> DEFINE n == IF runtime.known = runtime.installed THEN runtime.learnt ELSE runtime.learnt + 1
<1>1. n \in Nat
  BY DEF IndexInv, FilesInv, RuntimeStates
<1>2. runtime' = [runtime EXCEPT !.known = runtime.installed, !.learnt = n]
  BY DEF Reports
<1> HIDE DEF n
<1> QED
  BY <1>1, <1>2 DEF IndexInv, FilesInv, RuntimeStates, Knowable

(* A request for a refresh, a new runtime or a new entry on the engine. *)
LEMMA OtherSteps ==
  ASSUME IndexInv, LookEnds \/ DoctorPasses \/ JobWorkerReady \/ \E v \in Runtimes : Install(v)
  PROVE  IndexInv' /\ UNCHANGED <<fileVars, scan, index, cache>>
PROOF
  <1>1. /\ UNCHANGED <<fileVars, scan, index, cache, revisions, late>>
        /\ runtime' \in RuntimeStates
    <2>1. CASE LookEnds
      BY <2>1 DEF LookEnds, IndexInv, FilesInv
    <2>2. CASE DoctorPasses
      BY <2>2 DEF DoctorPasses, watchVars, IndexInv, FilesInv
    <2>3. CASE JobWorkerReady
      BY <2>3, ReportsKeep DEF JobWorkerReady, watchVars, IndexInv, FilesInv
    <2>4. ASSUME NEW v \in Runtimes, Install(v) PROVE <1>1!1 /\ <1>1!2
      BY <2>4 DEF Install, watchVars, IndexInv, FilesInv, Knowable, RuntimeStates
    <2> QED
      BY <2>1, <2>2, <2>3, <2>4
  <1> QED
    BY <1>1 DEF IndexInv, FilesInv, fileVars, ScanInv, ShownInv, KeysDiffer

(* The files as a scan of c leaves them, whatever becomes of it. *)
LEMMA FilesUntouched ==
  ASSUME IndexInv, UNCHANGED <<fileVars, watchVars>>,
         runtime' \in RuntimeStates
  PROVE  FilesInv'
BY DEF IndexInv, FilesInv, fileVars, watchVars

(* One scan changes: the others stay as they are. *)
LEMMA OneScan ==
  ASSUME ScanInv, NEW c \in Callers, NEW s \in Scans, scan' = [scan EXCEPT ![c] = s],
         s.phase \in {"hashed", "scanning"} => s.inputs \in Inputs /\ s.since \in [Files -> Nat],
         s.phase = "scanning" => s.read \in Reads,
         s.phase = "done" => s.read \in Inputs
  PROVE  ScanInv'
PROOF
  <1>1. scan' \in [Callers -> Scans] /\ scan'[c] = s /\ \A d \in Callers \ {c} : scan'[d] = scan[d]
    BY DEF ScanInv
  <1> QED
    BY <1>1 DEF ScanInv

(* A scan goes on to a phase that keeps what it has. *)
LEMMA ScanGoes ==
  ASSUME ScanInv, NEW c \in Callers, NEW p \in Phases, Go(c, p),
         p \in {"idle", "gather", "asked"} \/ (p = "done" /\ scan[c].read \in Inputs)
  PROVE  ScanInv'
PROOF
  <1> DEFINE s == [scan[c] EXCEPT !.phase = p]
  <1>1. scan[c] \in Scans
    BY DEF ScanInv
  <1>2. s \in Scans /\ s.phase = p /\ s.read = scan[c].read
    BY <1>1 DEF Scans
  <1>3. scan' = [scan EXCEPT ![c] = s]
    BY DEF Go, ScanInv
  <1> HIDE DEF s
  <1> QED
    BY <1>2, <1>3, OneScan

LEMMA AskSteps ==
  ASSUME IndexInv, Wake \/ Claim \/ \E c \in Callers : Inspect(c)
  PROVE  IndexInv' /\ UNCHANGED <<fileVars, cache>>
PROOF
  <1>1. ScanInv'
    <2>1. PICK c \in Callers : Go(c, "gather") \/ Go(c, "asked") \/ Go(c, "idle")
      BY IndexAssumption DEF Wake, Claim, Inspect
    <2> USE DEF IndexInv, Phases
    <2>2. CASE Go(c, "gather")
      BY <2>2, ScanGoes
    <2>3. CASE Go(c, "asked")
      BY <2>3, ScanGoes
    <2>4. CASE Go(c, "idle")
      BY <2>4, ScanGoes
    <2> QED
      BY <2>1, <2>2, <2>3, <2>4
  <1>2. ShownInv'
    <2>1. index' = index \/ index' = [index EXCEPT !.refreshing = TRUE]
      BY DEF Wake, Claim, Inspect
    <2> QED
      BY <2>1 DEF IndexInv, ShownInv, Indexes
  <1>3. UNCHANGED <<fileVars, watchVars, cache, runtime>>
    BY DEF Wake, Claim, Inspect
  <1> QED
    BY <1>1, <1>2, <1>3, FilesUntouched DEF IndexInv, FilesInv, KeysDiffer

LEMMA PrepareStep ==
  ASSUME IndexInv, NEW c \in Callers, Prepare(c)
  PROVE  IndexInv' /\ UNCHANGED <<fileVars, cache>>
PROOF
  <1> DEFINE hits == CacheGet(<<runtime.known, disk>>)
  <1>1. CASE hits # {}
    <2> DEFINE n == CHOOSE i \in hits : TRUE
               s == [Idle EXCEPT !.phase = "done", !.read = cache[n].result]
    <2>1. n \in DOMAIN cache
      BY <1>1 DEF CacheGet
    <2>3. scan' = [scan EXCEPT ![c] = s]
      BY <1>1 DEF Prepare
    <2> HIDE DEF n
    <2>2. cache[n].result \in Inputs
      <3>1. cache[n] \in Entries
        BY <2>1 DEF IndexInv
      <3> QED
        BY <3>1 DEF Entries
    <2>4. s \in Scans /\ s.phase = "done" /\ s.read \in Inputs
      BY <2>2 DEF Idle, Scans, Phases, Inputs, Reads
    <2> HIDE DEF s
    <2>5. ScanInv'
      BY <2>3, <2>4, OneScan DEF IndexInv
    <2> QED
      BY <2>5, FilesUntouched DEF Prepare, IndexInv, FilesInv, ShownInv, KeysDiffer
  <1>2. CASE hits = {}
    <2> DEFINE s == [Idle EXCEPT !.phase = "hashed", !.inputs = disk, !.since = edits]
    <2>1. scan' = [scan EXCEPT ![c] = s]
      BY <1>2 DEF Prepare
    <2>2. s \in Scans /\ s.phase = "hashed" /\ s.inputs \in Inputs /\ s.since \in [Files -> Nat]
      BY DEF IndexInv, FilesInv, Idle, Scans, Phases
    <2> HIDE DEF s
    <2>3. ScanInv'
      BY <2>1, <2>2, OneScan DEF IndexInv
    <2> QED
      BY <2>3, FilesUntouched DEF Prepare, IndexInv, FilesInv, ShownInv, KeysDiffer
  <1> QED
    BY <1>1, <1>2

LEMMA WorkerReadyStep ==
  ASSUME IndexInv, NEW c \in Callers, WorkerReady(c)
  PROVE  IndexInv' /\ UNCHANGED <<fileVars, cache>>
PROOF
  <1> DEFINE s == [scan[c] EXCEPT !.phase = "scanning", !.by = runtime.installed,
                                  !.read = [f \in Files |-> None], !.heard = runtime'.learnt]
  <1>1. runtime' \in RuntimeStates
    BY ReportsKeep DEF WorkerReady
  <1>2. scan[c] \in Scans /\ scan[c].inputs \in Inputs /\ scan[c].since \in [Files -> Nat] /\ [f \in Files |-> None] \in Reads
    BY DEF WorkerReady, At, IndexInv, ScanInv, Reads
  <1>3. /\ s \in Scans /\ s.phase = "scanning" /\ s.inputs \in Inputs /\ s.since \in [Files -> Nat]
        /\ s.read = [f \in Files |-> None]
    BY <1>1, <1>2 DEF Scans, Phases, IndexInv, FilesInv, RuntimeStates
  <1>4. scan' = [scan EXCEPT ![c] = s]
    BY DEF WorkerReady, IndexInv, ScanInv
  <1> HIDE DEF s
  <1>5. ScanInv'
    BY <1>2, <1>3, <1>4, OneScan DEF IndexInv
  <1> QED
    BY <1>1, <1>5, FilesUntouched DEF WorkerReady, IndexInv, ShownInv, KeysDiffer

LEMMA ScanFileStep ==
  ASSUME IndexInv, NEW c \in Callers, NEW f \in Files, ScanFile(c, f)
  PROVE  IndexInv' /\ UNCHANGED <<fileVars, cache>>
PROOF
  <1> DEFINE s == [scan[c] EXCEPT !.read = [scan[c].read EXCEPT ![f] = disk[f]]]
  <1>1. /\ scan[c] \in Scans /\ scan[c].inputs \in Inputs /\ scan[c].phase = "scanning"
        /\ scan[c].since \in [Files -> Nat]
        /\ scan[c].read \in Reads /\ disk[f] \in States
    BY DEF ScanFile, At, IndexInv, ScanInv, FilesInv, Inputs
  <1>2. [scan[c].read EXCEPT ![f] = disk[f]] \in Reads
    BY <1>1 DEF Reads
  <1>3. /\ s \in Scans /\ s.phase = "scanning" /\ s.inputs \in Inputs /\ s.since \in [Files -> Nat]
        /\ s.read \in Reads
    BY <1>1, <1>2 DEF Scans
  <1>4. scan' = [scan EXCEPT ![c] = s]
    BY DEF ScanFile, IndexInv, ScanInv
  <1> HIDE DEF s
  <1>5. ScanInv'
    BY <1>3, <1>4, OneScan DEF IndexInv
  <1> QED
    BY <1>5, FilesUntouched DEF ScanFile, IndexInv, FilesInv, ShownInv, KeysDiffer

LEMMA WholeRead ==
  ASSUME NEW r \in Reads, \A f \in Files : r[f] # None
  PROVE  r \in Inputs
BY DEF Reads, Inputs

(* What a scan leaves is an entry. *)
LEMMA EntryIs ==
  ASSUME IndexInv, NEW c \in Callers, CacheScan(c)
  PROVE  /\ Entry(c) \in Entries /\ Entry(c).key = <<runtime.known, scan[c].inputs>> /\ Entry(c).result = scan[c].read
         /\ Entry(c).by = scan[c].by /\ (runtime.learnt # scan[c].heard => Entry(c).told)
         /\ Entry(c).undone = {f \in Files : edits[f] # scan[c].since[f] /\ disk[f] = scan[c].inputs[f]}
<1>1. scan[c].read \in Inputs /\ scan[c].inputs \in Inputs /\ runtime.known \in Knowable
  BY WholeRead DEF CacheScan, At, IndexInv, ScanInv, FilesInv, RuntimeStates
<1>2. scan[c].by \in Runtimes \cup {None}
  BY DEF IndexInv, ScanInv, Scans
<1>3. PICK undone \in SUBSET Files :
        undone = {f \in Files : edits[f] # scan[c].since[f] /\ disk[f] = scan[c].inputs[f]}
  OBVIOUS
<1>4. PICK told \in BOOLEAN : told = (runtime.learnt # scan[c].heard)
  OBVIOUS
<1>5. Entry(c) = [key |-> <<runtime.known, scan[c].inputs>>, result |-> scan[c].read, by |-> scan[c].by,
                  undone |-> undone, told |-> told]
  BY <1>3, <1>4 DEF Entry
<1>6. runtime.learnt # scan[c].heard => Entry(c).told
  <2>1. Entry(c).told = told
    BY <1>5
  <2> QED
    BY <1>4, <2>1, Zenon
<1> QED
  BY <1>1, <1>2, <1>3, <1>5, <1>6 DEF Entries

LEMMA CacheScanStep ==
  ASSUME IndexInv, NEW c \in Callers, CacheScan(c)
  PROVE  IndexInv' /\ UNCHANGED fileVars
PROOF
  <1>1. scan[c].read \in Inputs
    BY WholeRead DEF CacheScan, At, IndexInv, ScanInv, FilesInv
  <1>2. Entry(c) \in Entries
    BY EntryIs
  <1>3. PICK e \in Entries : cache' = CachePut(e) \/ cache' = cache
    BY <1>2 DEF CacheScan
  <1>4. cache' \in Seq(Entries) /\ KeysDiffer'
    BY <1>2, <1>3, CachePutKeeps DEF IndexInv, KeysDiffer
  <1>5. ScanInv'
    BY <1>1, ScanGoes DEF CacheScan, Phases, IndexInv
  <1> QED
    BY <1>4, <1>5, FilesUntouched DEF CacheScan, IndexInv, FilesInv, ShownInv

(* The index after a refresh: what does not parse keeps its last good parse. *)
LEMMA MergedIndex ==
  ASSUME IndexInv, NEW read \in Inputs
  PROVE  /\ Merged(read) \in Indexes
         /\ \A f \in Files :
              /\ Merged(read).scenes[f].of = Merged(read).lastGood[f]
              /\ read[f] \in Bad => Merged(read).lastGood[f] = index.lastGood[f]
PROOF
  <1> DEFINE Good(f) == IF read[f] \in Bad THEN index.lastGood[f]
                        ELSE IF read[f] = Gone THEN None ELSE read[f]
             scenes == [f \in Files |-> IF Good(f) = None THEN Nothing
                                        ELSE [of |-> Good(f), failed |-> read[f] \in Bad]]
             lastGood == [f \in Files |-> Good(f)]
  <1>1. ASSUME NEW f \in Files
        PROVE  Good(f) \in (Contents \ Bad) \cup {None}
    BY DEF IndexInv, ShownInv, Indexes, Inputs, States
  <1>2. Merged(read) = [refreshing |-> FALSE, indexed |-> TRUE, error |-> FALSE,
                        scenes |-> scenes, lastGood |-> lastGood]
    BY DEF Merged
  <1>3. ASSUME NEW f \in Files
        PROVE  scenes[f] \in SceneViews /\ scenes[f].of = lastGood[f]
    <2>1. PICK b \in BOOLEAN : b = (read[f] \in Bad)
      <3>1. (read[f] \in Bad) \in BOOLEAN
        OBVIOUS
      <3> QED
        BY <3>1, Zenon
    <2>2. scenes[f] = IF Good(f) = None THEN Nothing ELSE [of |-> Good(f), failed |-> b]
      BY <2>1
    <2> HIDE DEF Good
    <2> QED
      BY <2>2, <1>1 DEF Nothing, SceneViews
  <1>4. \A f \in Files : read[f] \in Bad => lastGood[f] = index.lastGood[f]
    OBVIOUS
  <1>5. lastGood \in [Files -> (Contents \ Bad) \cup {None}]
    BY <1>1
  <1> HIDE DEF lastGood
  <1>6. scenes \in [Files -> SceneViews]
    BY <1>3
  <1> HIDE DEF scenes
  <1> QED
    BY <1>2, <1>3, <1>4, <1>5, <1>6 DEF Indexes

LEMMA RefreshStep ==
  ASSUME IndexInv, NEW c \in Callers, Refreshed(c) \/ ScanFails(c)
  PROVE  IndexInv' /\ UNCHANGED <<fileVars, cache>>
PROOF
  <1>1. ScanInv'
    <2>1. scan' = [scan EXCEPT ![c] = Idle]
      BY DEF Refreshed, ScanFails
    <2>2. Idle \in Scans /\ Idle.phase = "idle"
      BY DEF Idle, Scans, Phases
    <2> QED
      BY <2>1, <2>2, OneScan DEF IndexInv
  <1>2. ShownInv'
    <2>1. CASE Refreshed(c)
      <3>1. scan[c].read \in Inputs
        BY <2>1 DEF Refreshed, At, IndexInv, ScanInv
      <3>2. index' = Merged(scan[c].read) \/ index' = index
        BY <2>1 DEF Refreshed
      <3> QED
        BY <3>1, <3>2, MergedIndex DEF IndexInv, ShownInv
    <2>2. CASE ScanFails(c)
      BY <2>2 DEF ScanFails, KeepScenes, IndexInv, ShownInv, Indexes
    <2> QED
      BY <2>1, <2>2
  <1>3. UNCHANGED <<fileVars, watchVars, cache, runtime>>
    BY DEF Refreshed, ScanFails
  <1> QED
    BY <1>1, <1>2, <1>3, FilesUntouched DEF IndexInv, FilesInv, KeysDiffer

LEMMA TrimStep ==
  ASSUME IndexInv, Trim
  PROVE  /\ IndexInv' /\ UNCHANGED <<fileVars, scan>>
         /\ \A i \in DOMAIN cache' : \E k \in DOMAIN cache : cache'[i] = cache[k]
PROOF
  <1> DEFINE n == Len(cache)
             k == n - KeepDiscover
  <1>1. n \in Nat /\ k \in Nat /\ k > 0 /\ k + 1 \in 1..n /\ DOMAIN cache = 1..n
    BY IndexAssumption DEF Trim, IndexInv
  <1>2. cache' = SubSeq(cache, k + 1, n)
    BY DEF Trim
  <1>3. /\ cache' \in Seq(Entries) /\ Len(cache') = n - k
        /\ \A i \in 1..(n - k) : cache'[i] = cache[k + i]
    BY <1>1, <1>2, SubSeqProperties DEF IndexInv
  <1> HIDE DEF n, k
  <1>4. /\ DOMAIN cache' = 1..(n - k)
        /\ \A i \in 1..(n - k) : k + i \in DOMAIN cache
    <2>1. cache' \in Seq(Entries) /\ Len(cache') = n - k
      BY <1>3
    <2>2. DOMAIN cache' = 1..(n - k)
      BY <2>1
    <2>3. \A i \in 1..(n - k) : k + i \in DOMAIN cache
      BY <1>1
    <2> QED
      BY <2>2, <2>3
  <1>5. KeysDiffer'
    <2> SUFFICES ASSUME NEW i \in 1..(n - k), NEW l \in 1..(n - k), cache'[i].key = cache'[l].key
                 PROVE  i = l
      BY <1>4 DEF KeysDiffer
    <2>1. k + i = k + l
      BY <1>3, <1>4 DEF IndexInv, KeysDiffer
    <2> QED
      BY <2>1, <1>1
  <1>6. UNCHANGED <<fileVars, watchVars, runtime, scan, index>>
    BY DEF Trim
  <1> QED
    BY <1>3, <1>4, <1>5, <1>6, FilesUntouched DEF IndexInv, FilesInv, ScanInv, ShownInv

LEMMA IndexStep == IndexInv /\ [IndexNext]_indexVars => IndexInv'
PROOF
  <1> SUFFICES ASSUME IndexInv, [IndexNext]_indexVars PROVE IndexInv'
    OBVIOUS
  <1>1. ASSUME NEW f \in Files, NEW c \in States, Outside(f, c) \/ Write(f, c) \/ Announce(f, c)
        PROVE  IndexInv'
    BY <1>1, FileSteps
  <1>2. ASSUME NEW f \in Files, Look(f) PROVE IndexInv'
    <2>1. PICK c \in States : c = Gone
      BY DEF States
    <2> QED
      BY <1>2, FileSteps
  <1>3. ASSUME LookEnds \/ DoctorPasses \/ JobWorkerReady \/ \E v \in Runtimes : Install(v)
        PROVE  IndexInv'
    BY <1>3, OtherSteps
  <1>4. ASSUME Wake \/ Claim \/ \E c \in Callers : Inspect(c) PROVE IndexInv'
    BY <1>4, AskSteps
  <1>5. ASSUME NEW c \in Callers, ScanStep(c) \/ ScanFails(c) PROVE IndexInv'
    <2>1. CASE Prepare(c)
      BY <2>1, PrepareStep
    <2>2. CASE WorkerReady(c)
      BY <2>2, WorkerReadyStep
    <2>3. CASE CacheScan(c)
      BY <2>3, CacheScanStep
    <2>4. CASE Refreshed(c) \/ ScanFails(c)
      BY <2>4, RefreshStep
    <2>5. ASSUME NEW f \in Files, ScanFile(c, f) PROVE IndexInv'
      BY <2>5, ScanFileStep
    <2> QED
      BY <1>5, <2>1, <2>2, <2>3, <2>4, <2>5 DEF ScanStep
  <1>6. CASE Trim
    BY <1>6, TrimStep
  <1>7. CASE UNCHANGED indexVars
    BY <1>7 DEF indexVars, fileVars, watchVars, askVars, IndexInv, FilesInv, ScanInv, ShownInv,
                KeysDiffer
  <1> QED
    BY <1>1, <1>2, <1>3, <1>4, <1>5, <1>6, <1>7 DEF IndexNext, Watch

(* The state of the files, the scans, the index and the cache is well formed,
   no key has two entries, and the scenes shown are those of the last good
   parse of their files. *)
THEOREM IndexTypeCorrect == IndexSpec => []IndexTypeOK
PROOF
  <1>1. IndexInv => IndexTypeOK
    BY DEF IndexInv, IndexTypeOK, FilesInv, ShownInv, Indexes, SceneViews, Inputs, KeysDiffer
  <1>2. IndexInit => IndexInv
    BY InitIndexInv DEF SoundInv
  <1> QED
    BY <1>1, <1>2, IndexStep, PTL DEF IndexSpec

(* A failed scan, a file that does not parse, an upgrade or an edit takes no
   scene off the index: only a scan that is done and read another text, or
   found no file. *)
THEOREM ScenesStay == IndexSpec => ScenesAreKept
PROOF
  <1>1. IndexInv /\ [IndexNext]_indexVars =>
          [\A f \in Files :
             index.scenes[f].of # None /\ index'.scenes[f].of # index.scenes[f].of
               => /\ At(Index, "done")
                  /\ scan[Index].read[f] \notin Bad]_indexVars
    <2> SUFFICES ASSUME IndexInv, IndexNext,
                        NEW f \in Files, index'.scenes[f].of # index.scenes[f].of
                 PROVE  At(Index, "done") /\ scan[Index].read[f] \notin Bad
      OBVIOUS
    <2>1. index' = index \/ index'.scenes = index.scenes
            \/ (Refreshed(Index) /\ index' = Merged(scan[Index].read))
      <3>1. ASSUME NEW c \in Callers, Refreshed(c) \/ ScanFails(c) PROVE <2>1
        BY <3>1 DEF Refreshed, ScanFails, KeepScenes, IndexInv, ShownInv, Indexes
      <3>2. CASE Claim
        BY <3>2 DEF Claim, IndexInv, ShownInv, Indexes
      <3> QED
        BY <3>1, <3>2
           DEF IndexNext, Watch, Outside, Write, Announce, Look, LookEnds, DoctorPasses, Install,
               JobWorkerReady, Wake, Inspect, ScanStep, Prepare, WorkerReady, ScanFile, CacheScan,
               Trim
    <2>2. Refreshed(Index) /\ index' = Merged(scan[Index].read)
      BY <2>1
    <2>3. At(Index, "done") /\ scan[Index].read \in Inputs
      BY <2>2, IndexAssumption DEF Refreshed, At, IndexInv, ScanInv
    <2>4. scan[Index].read[f] \notin Bad
      BY <2>2, <2>3, MergedIndex DEF IndexInv, ShownInv
    <2> QED
      BY <2>3, <2>4
  <1>2. IndexInit => IndexInv
    BY InitIndexInv DEF SoundInv
  <1> QED
    BY <1>1, <1>2, IndexStep, PTL DEF IndexSpec, ScenesAreKept

-----------------------------------------------------------------------------
(* Scans, and the files they read *)

(* A scan under way stays sound whatever is written, reported or read. *)
LEMMA ScansStep ==
  ASSUME IndexInv, ScansInv, [IndexNext]_indexVars
  PROVE  ScansInv'
PROOF
  <1> DEFINE Learns == /\ runtime'.learnt = runtime.learnt => runtime'.known = runtime.known
                       /\ runtime'.learnt >= runtime.learnt
             Rests == UNCHANGED <<disk, held, edits>> /\ Learns
  <1>1. ASSUME NEW f \in Files, NEW v \in States, Outside(f, v) \/ Write(f, v)
        PROVE  ScansInv'
    <2>1. /\ UNCHANGED <<scan, runtime>>
          /\ disk' = [disk EXCEPT ![f] = v] /\ (f \in MayRevert \/ v \notin held[f])
          /\ held' = [held EXCEPT ![f] = @ \cup {v}] /\ edits' = [edits EXCEPT ![f] = @ + 1]
      BY <1>1 DEF Outside, Write, Put
    <2> SUFFICES ASSUME NEW c \in Callers PROVE SoundScan(scan[c])'
      BY DEF ScansInv
    <2>2. SoundScan(scan[c]) /\ (scan[c].phase \in {"hashed", "scanning"} => scan[c].since \in [Files -> Nat])
      BY DEF ScansInv, IndexInv, ScanInv
    <2>3. /\ edits[f] \in Nat /\ edits'[f] = edits[f] + 1 /\ disk'[f] = v
          /\ \A g \in Files : held[g] \subseteq held'[g]
          /\ \A g \in Files \ {f} : edits'[g] = edits[g] /\ disk'[g] = disk[g]
      BY <2>1 DEF IndexInv, FilesInv, Inputs
    <2>4. ASSUME scan[c].phase \in {"hashed", "scanning"}, NEW g \in Files
          PROVE  /\ scan[c].since[g] <= edits'[g]
                 /\ edits'[g] = scan[c].since[g] =>
                      /\ disk'[g] = scan[c].inputs[g]
                      /\ scan[c].phase = "scanning" => scan[c].read[g] \in {None, scan[c].inputs[g]}
                 /\ g \notin MayRevert =>
                      /\ scan[c].inputs[g] \in held'[g]
                      /\ edits'[g] = scan[c].since[g] \/ disk'[g] # scan[c].inputs[g]
      <3>1. CASE g # f
        BY <2>2, <2>3, <2>4, <3>1 DEF SoundScan
      <3>2. CASE g = f
        <4>1. scan[c].since[f] \in Nat /\ scan[c].since[f] <= edits[f]
          BY <2>2, <2>4 DEF SoundScan
        <4>2. f \notin MayRevert => scan[c].inputs[f] \in held[f] /\ v \notin held[f]
          BY <2>1, <2>2, <2>4 DEF SoundScan
        <4> QED
          BY <2>3, <3>2, <4>1, <4>2
      <3> QED
        BY <3>1, <3>2
    <2> QED
      BY <2>1, <2>2, <2>4 DEF SoundScan
  <1>2. ASSUME Rests, NEW c \in Callers, scan'[c] = scan[c] PROVE SoundScan(scan[c])'
    <2>1. /\ SoundScan(scan[c]) /\ scan[c].heard \in Nat
          /\ runtime.learnt \in Nat /\ runtime'.learnt \in Int
      <3>1. runtime.learnt \in Nat /\ runtime'.learnt \in Int
        <4>1. IndexInv'
          BY IndexStep
        <4> QED
          BY <4>1 DEF IndexInv, FilesInv, RuntimeStates
      <3> QED
        BY <3>1 DEF ScansInv, IndexInv, ScanInv, Scans
    <2>2. scan[c].phase = "scanning" =>
            scan[c].heard <= runtime'.learnt /\ (runtime'.learnt = scan[c].heard => runtime'.known = scan[c].by)
      BY <1>2, <2>1 DEF SoundScan
    <2> QED
      BY <1>2, <2>1, <2>2 DEF SoundScan
  <1>3. ASSUME NEW c \in Callers, scan'[c].phase \notin {"hashed", "scanning"} PROVE SoundScan(scan[c])'
    BY <1>3 DEF SoundScan
  <1>4. Reports => Learns
    BY DEF Reports, IndexInv, FilesInv, RuntimeStates
  <1>5. UNCHANGED runtime => Learns
    BY DEF IndexInv, FilesInv, RuntimeStates
  <1>6. ASSUME \E f \in Files, c \in States : Announce(f, c) PROVE ScansInv'
    <2>1. Rests /\ UNCHANGED scan
      BY <1>5, <1>6 DEF Announce, fileVars
    <2> QED
      BY <1>2, <2>1 DEF ScansInv
  <1>7. ASSUME Watch \/ DoctorPasses \/ JobWorkerReady \/ Trim \/ \E v \in Runtimes : Install(v) PROVE ScansInv'
    <2>1. UNCHANGED <<disk, held, edits, scan>>
      BY <1>7 DEF Watch, Look, LookEnds, DoctorPasses, JobWorkerReady, Trim, Install, fileVars
    <2>2. Learns
      <3>1. CASE JobWorkerReady
        BY <1>4, <3>1 DEF JobWorkerReady
      <3>2. ASSUME NEW v \in Runtimes, Install(v) PROVE Learns
        BY <3>2 DEF Install, IndexInv, FilesInv, RuntimeStates
      <3>3. CASE Watch \/ DoctorPasses \/ Trim
        BY <1>5, <3>3 DEF Watch, Look, LookEnds, DoctorPasses, Trim
      <3> QED
        BY <1>7, <3>1, <3>2, <3>3
    <2> QED
      BY <1>2, <2>1, <2>2 DEF ScansInv
  <1>8. ASSUME Wake \/ Claim \/ \E c \in Callers : Inspect(c) PROVE ScansInv'
    <2>1. PICK c \in Callers, p \in {"gather", "asked", "idle"} : Go(c, p) /\ UNCHANGED <<disk, held, edits, runtime>>
      BY <1>8, IndexAssumption DEF Wake, Claim, Inspect, fileVars
    <2>2. scan'[c].phase = p /\ \A d \in Callers \ {c} : scan'[d] = scan[d]
      BY <2>1 DEF Go, IndexInv, ScanInv, Scans
    <2>3. Rests /\ p \notin {"hashed", "scanning"}
      BY <1>5, <2>1
    <2> HIDE DEF Rests
    <2>4. ASSUME NEW d \in Callers PROVE SoundScan(scan[d])'
      <3>1. CASE d = c
        BY <1>3, <2>2, <2>3, <3>1
      <3>2. CASE d # c
        BY <1>2, <2>2, <2>3, <3>2
      <3> QED
        BY <3>1, <3>2
    <2> QED
      BY <2>4 DEF ScansInv
  <1>9. ASSUME NEW c \in Callers, ScanStep(c) \/ ScanFails(c) PROVE ScansInv'
    <2>1. UNCHANGED <<disk, held, edits>> /\ (Reports \/ UNCHANGED runtime) /\ \A d \in Callers \ {c} : scan'[d] = scan[d]
      BY <1>9 DEF ScanStep, Prepare, WorkerReady, ScanFile, CacheScan, Refreshed, ScanFails, Go,
                  fileVars, IndexInv, ScanInv
    <2>2. Rests
      BY <1>4, <1>5, <2>1
    <2>3. SoundScan(scan[c])'
      <3>1. CASE Prepare(c)
        <4>1. CASE CacheGet(<<runtime.known, disk>>) # {}
          <5>1. scan'[c].phase = "done"
            BY <3>1, <4>1 DEF Prepare, Idle, IndexInv, ScanInv
          <5> QED
            BY <1>3, <5>1
        <4>2. CASE CacheGet(<<runtime.known, disk>>) = {}
          <5>1. scan'[c].phase = "hashed" /\ scan'[c].inputs = disk /\ scan'[c].since = edits
            BY <3>1, <4>2 DEF Prepare, Idle, IndexInv, ScanInv
          <5>2. \A f \in Files : edits[f] \in Nat /\ disk[f] \in held[f]
            BY DEF IndexInv, FilesInv
          <5> QED
            BY <2>1, <5>1, <5>2 DEF SoundScan
        <4> QED
          BY <4>1, <4>2
      <3>2. CASE WorkerReady(c)
        <4>1. /\ scan'[c].phase = "scanning" /\ scan'[c].inputs = scan[c].inputs /\ scan'[c].since = scan[c].since
              /\ scan'[c].read = [f \in Files |-> None] /\ scan'[c].by = runtime.installed
              /\ scan'[c].heard = runtime'.learnt
          BY <3>2 DEF WorkerReady, IndexInv, ScanInv, Scans
        <4>2. runtime'.known = runtime.installed /\ runtime'.learnt \in Nat
          BY <3>2 DEF WorkerReady, Reports, IndexInv, FilesInv, RuntimeStates
        <4>3. SoundScan(scan[c]) /\ scan[c].phase = "hashed"
          BY <3>2 DEF WorkerReady, At, ScansInv
        <4> QED
          BY <2>1, <4>1, <4>2, <4>3 DEF SoundScan
      <3>3. ASSUME NEW f \in Files, ScanFile(c, f) PROVE SoundScan(scan[c])'
        <4>1. /\ scan[c].phase = "scanning" /\ scan[c].read \in Reads /\ scan[c] \in Scans /\ UNCHANGED runtime
              /\ scan' = [scan EXCEPT ![c].read[f] = disk[f]]
          BY <3>3 DEF ScanFile, At, IndexInv, ScanInv
        <4>2. /\ scan'[c].phase = "scanning" /\ scan'[c].inputs = scan[c].inputs /\ scan'[c].since = scan[c].since
              /\ scan'[c].by = scan[c].by /\ scan'[c].heard = scan[c].heard
              /\ scan'[c].read = [scan[c].read EXCEPT ![f] = disk[f]]
          BY <4>1 DEF IndexInv, ScanInv, Scans
        <4>3. SoundScan(scan[c])
          BY DEF ScansInv
        <4>4. \A g \in Files : edits[g] = scan[c].since[g] => scan'[c].read[g] \in {None, scan[c].inputs[g]}
          BY <4>1, <4>2, <4>3 DEF SoundScan, Reads
        <4> QED
          BY <2>1, <4>1, <4>2, <4>3, <4>4 DEF SoundScan
      <3>4. CASE CacheScan(c)
        <4>1. scan'[c].phase = "done"
          BY <3>4 DEF CacheScan, Go, IndexInv, ScanInv, Scans
        <4> QED
          BY <1>3, <4>1
      <3>5. CASE Refreshed(c) \/ ScanFails(c)
        <4>1. scan'[c].phase = "idle"
          BY <3>5 DEF Refreshed, ScanFails, Idle, IndexInv, ScanInv
        <4> QED
          BY <1>3, <4>1
      <3> QED
        BY <1>9, <3>1, <3>2, <3>3, <3>4, <3>5 DEF ScanStep
    <2> HIDE DEF Rests
    <2>4. ASSUME NEW d \in Callers PROVE SoundScan(scan[d])'
      <3>1. CASE d = c
        BY <2>3, <3>1
      <3>2. CASE d # c
        BY <1>2, <2>1, <2>2, <3>2
      <3> QED
        BY <3>1, <3>2
    <2> QED
      BY <2>4 DEF ScansInv
  <1>10. ASSUME UNCHANGED indexVars PROVE ScansInv'
    BY <1>10 DEF indexVars, fileVars, ScansInv, SoundScan
  <1> QED
    BY <1>1, <1>6, <1>7, <1>8, <1>9, <1>10 DEF IndexNext

(* A scan is cached only when the files are what was hashed: then so is all it
   read of those that did not change and back, and its worker is what is known
   now, unless another told what it is. *)
LEMMA EntriesStep ==
  ASSUME IndexInv, ScansInv, UndoneMayRevert, EntriesDescribeTheirInputs, [IndexNext]_indexVars
  PROVE  UndoneMayRevert' /\ EntriesDescribeTheirInputs'
PROOF
  <1> DEFINE SoundEntry(e) ==
        /\ \A f \in Files \ e.undone : e.result[f] = e.key[2][f]
        /\ e.by = e.key[1] \/ e.told
        /\ e.undone \subseteq MayRevert
  <1>0. \A i \in DOMAIN cache : SoundEntry(cache[i])
    BY DEF UndoneMayRevert, EntriesDescribeTheirInputs
  <1>1. ASSUME NEW c \in Callers, CacheScan(c), cache' # cache
        PROVE  \A i \in DOMAIN cache' : SoundEntry(cache'[i])
    <2> DEFINE e == Entry(c)
    <2>1. cache' = CachePut(e) /\ disk = scan[c].inputs
      BY <1>1 DEF CacheScan, Unchanged
    <2>2. /\ e \in Entries /\ e.key = <<runtime.known, scan[c].inputs>> /\ e.result = scan[c].read
          /\ e.by = scan[c].by /\ (runtime.learnt # scan[c].heard => e.told)
          /\ e.undone = {f \in Files : edits[f] # scan[c].since[f] /\ disk[f] = scan[c].inputs[f]}
      BY <1>1, EntryIs
    <2> HIDE DEF e
    <2>3. SoundScan(scan[c]) /\ scan[c].phase = "scanning" /\ \A f \in Files : scan[c].read[f] # None
      BY <1>1 DEF CacheScan, At, ScansInv
    <2>4. ASSUME NEW f \in Files \ e.undone PROVE e.result[f] = e.key[2][f]
      <3>1. edits[f] = scan[c].since[f]
        BY <2>1, <2>2, <2>4
      <3> QED
        BY <2>2, <2>3, <3>1 DEF SoundScan
    <2>5. e.by = e.key[1] \/ e.told
      BY <2>2, <2>3 DEF SoundScan
    <2>6. e.undone \subseteq MayRevert
      BY <2>2, <2>3 DEF SoundScan
    <2>7. \A k \in DOMAIN CachePut(e) :
            CachePut(e)[k] = e \/ \E i \in DOMAIN cache : CachePut(e)[k] = cache[i]
      BY <2>2, CachePutKeeps DEF IndexInv
    <2>8. SoundEntry(e)
      BY <2>4, <2>5, <2>6
    <2> HIDE DEF SoundEntry
    <2> QED
      BY <1>0, <2>1, <2>7, <2>8
  <1>2. ASSUME Trim PROVE \A i \in DOMAIN cache' : SoundEntry(cache'[i])
    <2> HIDE DEF SoundEntry
    <2> QED
      BY <1>0, <1>2, TrimStep
  <1>3. \/ Trim \/ cache' = cache
        \/ \E c \in Callers : CacheScan(c) /\ cache' # cache
    BY DEF IndexNext, Watch, Outside, Write, Announce, Look, LookEnds, DoctorPasses, Install,
           JobWorkerReady, Wake, Claim, Inspect, ScanStep, Prepare, WorkerReady, ScanFile,
           Refreshed, ScanFails, indexVars
  <1>4. \A i \in DOMAIN cache' : SoundEntry(cache'[i])
    <2> HIDE DEF SoundEntry
    <2> QED
      BY <1>0, <1>1, <1>2, <1>3
  <1> QED
    BY <1>4 DEF UndoneMayRevert, EntriesDescribeTheirInputs

LEMMA SoundStep == SoundInv /\ [IndexNext]_indexVars => SoundInv'
BY IndexStep, ScansStep, EntriesStep DEF SoundInv

(* Whatever is written while a scan hashes and reads, and whichever runtime it
   ends under, what is cached under some files is what those hold that were not
   changed and back meanwhile, and was made by the runtime it is cached under,
   unless another was reported after its worker was. *)
THEOREM EntriesTellTheirInputs == IndexSpec => []EntriesDescribeTheirInputs
PROOF
  <1>1. SoundInv => EntriesDescribeTheirInputs
    BY DEF SoundInv
  <1> QED
    BY <1>1, InitIndexInv, SoundStep, PTL DEF IndexSpec

-----------------------------------------------------------------------------
(* No change of a file is left out of the index *)

(* What was announced or seen of a file, it has held. *)
WasHeld ==
  /\ \A f \in Files : revisions[f] \in held[f]
  /\ \A f \in Files, v \in Contents : <<f, v>> \in late => v \in held[f]

Calm == scan[Index].phase \in {"idle", "gather"}

(* A refresh is under way exactly while its scan is; one that is wanted will come. *)
Woken ==
  /\ index.refreshing => ~Calm
  /\ wanted => permit \/ At(Index, "gather")

(* A change will be noticed by the watcher, or was, and a refresh asked for. *)
Coming(f) == (f \notin stamped /\ revisions[f] # disk[f]) \/ changed \/ wanted

(* Without a refresh to come the index shows the file, or the refresh that is
   under way has yet to read it, or has read what it is. *)
InStep(f) ==
  /\ Calm => index.error \/ Shows(f)
  /\ scan[Index].phase = "scanning" => scan[Index].read[f] \in {None, disk[f]}
  /\ scan[Index].phase = "done" => scan[Index].read[f] = disk[f]

Noticed == \A f \in Files \ MayRevert : Coming(f) \/ InStep(f)

RestInv == WasHeld /\ Woken /\ Noticed

(* Every step keeps it. *)
LEMMA WasHeldStep ==
  ASSUME IndexInv, WasHeld, [IndexNext]_indexVars
  PROVE  WasHeld'
<1> USE DEF WasHeld, IndexInv, FilesInv
<1>1. ASSUME NEW f \in Files, NEW v \in States, Outside(f, v) \/ Write(f, v) PROVE WasHeld'
  <2>1. /\ held' = [held EXCEPT ![f] = @ \cup {v}] /\ revisions' = revisions
        /\ late' \subseteq late \cup {<<f, v>>}
    BY <1>1 DEF Outside, Write, Put, watchVars
  <2>2. /\ \A g \in Files : held[g] \subseteq held'[g]
        /\ v \in held'[f]
    BY <2>1
  <2>3. \A g \in Files, w \in Contents : <<g, w>> \in late' => <<g, w>> \in late \/ (g = f /\ w = v)
    BY <2>1
  <2> QED
    BY <2>1, <2>2, <2>3
<1>2. ASSUME NEW f \in Files, NEW v \in States, Announce(f, v) PROVE WasHeld'
  <2>1. /\ held' = held /\ revisions' = [revisions EXCEPT ![f] = v] /\ late' \subseteq late /\ <<f, v>> \in late
    BY <1>2 DEF Announce, fileVars
  <2>2. v \in held[f]
    BY <2>1
  <2> QED
    BY <2>1, <2>2 DEF Inputs
<1>3. ASSUME NEW f \in Files, Look(f) PROVE WasHeld'
  <2>1. held' = held /\ revisions' = [revisions EXCEPT ![f] = disk[f]] /\ late' = late
    BY <1>3 DEF Look
  <2> QED
    BY <2>1 DEF Inputs
<1>4. CASE UNCHANGED <<held, revisions, late>>
  BY <1>4
<1> QED
  BY <1>1, <1>2, <1>3, <1>4
     DEF IndexNext, Watch, LookEnds, DoctorPasses, Install, JobWorkerReady, Wake, Claim, Inspect, ScanStep, Prepare,
         WorkerReady, ScanFile, CacheScan, Refreshed, ScanFails, Trim, indexVars, fileVars, watchVars

(* No request for a refresh is lost while one is under way. *)
LEMMA WokenStep ==
  ASSUME IndexInv, Woken, [IndexNext]_indexVars
  PROVE  Woken'
<1> USE DEF Woken, Calm, At
<1>t. /\ index \in [refreshing : BOOLEAN, indexed : BOOLEAN, error : BOOLEAN,
                    scenes : [Files -> SceneViews], lastGood : [Files -> (Contents \ Bad) \cup {None}]]
      /\ Index \in Callers /\ scan \in [Callers -> Scans]
      /\ scan[Index] \in [phase : Phases, inputs : Inputs \cup {None}, since : [Files -> Nat] \cup {None},
                          read : Reads \cup {None}, by : Runtimes \cup {None}, heard : Nat]
  BY IndexAssumption DEF IndexInv, ShownInv, Indexes, ScanInv, Scans
<1>1. CASE UNCHANGED <<scan, index>> /\ (UNCHANGED askVars \/ permit')
  BY <1>1 DEF askVars
<1>2. CASE Wake
  <2>1. scan'[Index].phase = "gather" /\ index' = index
    BY <1>2, <1>t DEF Wake, Go
  <2> QED
    BY <1>2, <1>t, <2>1 DEF Wake
<1>3. CASE Claim
  <2>1. /\ wanted' = FALSE /\ scan'[Index].phase = (IF wanted THEN "asked" ELSE "idle")
        /\ scan[Index].phase = "gather"
        /\ ~wanted => index' = index
    BY <1>3, <1>t DEF Claim, Go
  <2> QED
    BY <2>1
<1>4. ASSUME NEW c \in Callers, Inspect(c) PROVE Woken'
  <2>1. scan'[Index] = scan[Index] /\ UNCHANGED <<index, wanted, permit>>
    BY <1>4, <1>t DEF Inspect, Go, askVars
  <2> QED
    BY <2>1
<1>5. ASSUME NEW c \in Callers, ScanStep(c) \/ ScanFails(c) PROVE Woken'
  <2>1. UNCHANGED askVars /\ scan[c].phase \notin {"idle", "gather"}
    BY <1>5 DEF ScanStep, Prepare, WorkerReady, CacheScan, Refreshed, ScanFile, ScanFails
  <2>2. CASE c # Index
    <3>1. scan'[Index] = scan[Index] /\ index' = index
      BY <1>5, <1>t, <2>2 DEF ScanStep, Prepare, WorkerReady, CacheScan, Refreshed, ScanFile, ScanFails, Go
    <3> QED
      BY <2>1, <3>1 DEF askVars
  <2>3. CASE c = Index
    <3>1. wanted => permit
      BY <2>1, <2>3
    <3>2. CASE Refreshed(c) \/ ScanFails(c)
      <4>1. ~index'.refreshing
        <5>1. CASE Refreshed(c)
          <6>1. PICK r : r = scan[Index].read /\ index' = Merged(r)
            BY <2>3, <5>1 DEF Refreshed
          <6>2. PICK scenes, good : Merged(r) = [refreshing |-> FALSE, indexed |-> TRUE, error |-> FALSE,
                                                 scenes |-> scenes, lastGood |-> good]
            BY DEF Merged
          <6> QED
            BY <6>1, <6>2
        <5>2. CASE ScanFails(c)
          BY <1>t, <2>3, <5>2 DEF ScanFails, KeepScenes
        <5> QED
          BY <3>2, <5>1, <5>2
      <4> QED
        BY <2>1, <3>1, <4>1 DEF askVars
    <3>3. ASSUME Prepare(c) \/ WorkerReady(c) \/ CacheScan(c) \/ \E f \in Files : ScanFile(c, f) PROVE Woken'
      <4>1. scan'[Index].phase \notin {"idle", "gather"}
        <5>1. CASE Prepare(c)
          <6>1. PICK s \in {[Idle EXCEPT !.phase = "hashed", !.inputs = disk, !.since = edits]}
                        \cup {[Idle EXCEPT !.phase = "done", !.read = r] : r \in {cache[i].result : i \in DOMAIN cache}} :
                  scan' = [scan EXCEPT ![c] = s]
            BY <5>1 DEF Prepare, CacheGet
          <6>2. s.phase \in {"hashed", "done"}
            BY DEF Idle
          <6> QED
            BY <1>t, <2>3, <6>1, <6>2
        <5>2. CASE WorkerReady(c)
          BY <1>t, <2>3, <5>2 DEF WorkerReady
        <5>3. CASE CacheScan(c)
          BY <1>t, <2>3, <5>3 DEF CacheScan, Go
        <5>4. ASSUME NEW f \in Files, ScanFile(c, f) PROVE scan'[Index].phase \notin {"idle", "gather"}
          BY <1>t, <2>3, <5>4 DEF ScanFile
        <5> QED
          BY <3>3, <5>1, <5>2, <5>3, <5>4
      <4> QED
        BY <2>1, <3>1, <4>1 DEF askVars
    <3> QED
      BY <1>5, <3>2, <3>3 DEF ScanStep
  <2> QED
    BY <2>2, <2>3
<1> QED
  BY <1>1, <1>2, <1>3, <1>4, <1>5
     DEF IndexNext, Watch, Outside, Write, Announce, Look, LookEnds, DoctorPasses, Install, JobWorkerReady, Trim,
         RequestReindex, indexVars

(* A file that changes has a revision it never had, so the watcher will notice. *)
LEMMA EditIsComing ==
  ASSUME IndexInv, WasHeld, Noticed, NEW f \in Files, NEW v \in States, Outside(f, v) \/ Write(f, v)
  PROVE  Noticed'
<1>1. /\ disk' = [disk EXCEPT ![f] = v] /\ (f \in MayRevert \/ v \notin held[f]) /\ stamped' = stamped \ {f}
      /\ UNCHANGED <<revisions, changed, wanted, scan, index>>
  BY DEF Outside, Write, Put, watchVars, askVars
<1>2. f \notin MayRevert => f \notin stamped' /\ revisions'[f] # disk'[f]
  BY <1>1 DEF IndexInv, FilesInv, Inputs, WasHeld
<1>3. ASSUME NEW g \in Files \ MayRevert, g # f PROVE Coming(g)' \/ InStep(g)'
  <2>1. disk'[g] = disk[g] /\ (g \in stamped' <=> g \in stamped)
    BY <1>1, <1>3 DEF IndexInv, FilesInv, Inputs
  <2>2. Coming(g) \/ InStep(g)
    BY DEF Noticed
  <2> QED
    BY <1>1, <2>1, <2>2 DEF Coming, InStep, Calm, Shows
<1> QED
  BY <1>2, <1>3 DEF Noticed, Coming

(* A refresh that read the file as it is shows it. *)
LEMMA MergedShows ==
  ASSUME IndexInv, NEW read \in Inputs, NEW f \in Files, read[f] = disk[f], index' = Merged(read), disk' = disk
  PROVE  Shows(f)'
<1> DEFINE Good(g) == IF read[g] \in Bad THEN index.lastGood[g]
                      ELSE IF read[g] = Gone THEN None ELSE read[g]
<1>b. PICK b \in BOOLEAN : b = (read[f] \in Bad)
  <2>1. (read[f] \in Bad) \in BOOLEAN
    OBVIOUS
  <2> QED
    BY <2>1, Zenon
<1>1. index'.scenes[f] = IF Good(f) = None THEN Nothing ELSE [of |-> Good(f), failed |-> b]
  <2>1. index'.scenes = [g \in Files |-> IF Good(g) = None THEN Nothing
                                        ELSE [of |-> Good(g), failed |-> read[g] \in Bad]]
    BY DEF Merged
  <2> HIDE DEF Good
  <2> QED
    BY <1>b, <2>1
<1>2. CASE disk[f] \in Bad
  <2>1. b = TRUE
    BY <1>b, <1>2
  <2> HIDE DEF Good
  <2> QED
    BY <1>1, <1>2, <2>1 DEF Shows, Nothing
<1>3. CASE disk[f] \notin Bad /\ disk[f] = Gone
  BY <1>1, <1>3 DEF Shows
<1>4. CASE disk[f] \notin Bad /\ disk[f] # Gone
  <2>1. Good(f) = disk[f] /\ disk[f] # None
    BY <1>4, IndexAssumption DEF IndexInv, FilesInv, Inputs, States
  <2>3. b = FALSE
    BY <1>b, <1>4
  <2>2. index'.scenes[f] = [of |-> disk[f], failed |-> FALSE]
    BY <1>1, <2>1, <2>3
  <2> QED
    BY <1>4, <2>2 DEF Shows
<1> QED
  BY <1>2, <1>3, <1>4

(* The steps of a scan. *)
LEMMA ScanNoticed ==
  ASSUME IndexInv, UndoneMayRevert, EntriesDescribeTheirInputs, Noticed, NEW c \in Callers, ScanStep(c) \/ ScanFails(c)
  PROVE  Noticed'
<1>t. /\ index \in [refreshing : BOOLEAN, indexed : BOOLEAN, error : BOOLEAN,
                    scenes : [Files -> SceneViews], lastGood : [Files -> (Contents \ Bad) \cup {None}]]
      /\ Index \in Callers /\ scan \in [Callers -> Scans]
      /\ scan[Index] \in [phase : Phases, inputs : Inputs \cup {None}, since : [Files -> Nat] \cup {None},
                          read : Reads \cup {None}, by : Runtimes \cup {None}, heard : Nat]
  BY IndexAssumption DEF IndexInv, ShownInv, Indexes, ScanInv, Scans
<1>1. UNCHANGED <<disk, stamped, revisions, changed, wanted>> /\ scan[c].phase \notin {"idle", "gather"}
  BY DEF ScanStep, Prepare, WorkerReady, CacheScan, Refreshed, ScanFile, ScanFails, At, fileVars, watchVars, askVars
<1> SUFFICES ASSUME NEW f \in Files \ MayRevert PROVE Coming(f)' \/ InStep(f)'
  BY DEF Noticed
<1>2. CASE Coming(f)
  BY <1>1, <1>2 DEF Coming
<1>3. CASE c # Index
  <2>1. scan'[Index] = scan[Index] /\ index' = index
    BY <1>t, <1>3 DEF ScanStep, Prepare, WorkerReady, CacheScan, Refreshed, ScanFile, ScanFails, Go
  <2>2. Coming(f) \/ InStep(f)
    BY DEF Noticed
  <2> QED
    BY <1>1, <2>1, <2>2 DEF Coming, InStep, Calm, Shows
<1>4. ASSUME c = Index, InStep(f) PROVE InStep(f)'
  <2>1. CASE Prepare(c)
    <3> DEFINE hits == CacheGet(<<runtime.known, disk>>)
    <3>1. CASE hits # {}
      <4> DEFINE n == CHOOSE i \in hits : TRUE
      <4>1. scan' = [scan EXCEPT ![c] = [Idle EXCEPT !.phase = "done", !.read = cache[n].result]]
        BY <2>1, <3>1 DEF Prepare
      <4>2. n \in DOMAIN cache /\ cache[n].key = <<runtime.known, disk>>
        BY <3>1 DEF CacheGet
      <4> HIDE DEF n
      <4>3. cache[n].result[f] = disk[f]
        BY <4>2 DEF EntriesDescribeTheirInputs, UndoneMayRevert
      <4>4. scan'[Index].phase = "done" /\ scan'[Index].read[f] = disk[f]
        BY <1>t, <1>4, <4>1, <4>3 DEF Idle
      <4> QED
        BY <1>1, <4>4 DEF InStep, Calm
    <3>2. CASE hits = {}
      <4>1. scan' = [scan EXCEPT ![c] = [Idle EXCEPT !.phase = "hashed", !.inputs = disk, !.since = edits]]
        BY <2>1, <3>2 DEF Prepare
      <4>2. scan'[Index].phase = "hashed"
        BY <1>t, <1>4, <4>1 DEF Idle
      <4> QED
        BY <4>2 DEF InStep, Calm
    <3> QED
      BY <3>1, <3>2
  <2>2. CASE WorkerReady(c)
    <3>1. scan'[Index].phase = "scanning" /\ scan'[Index].read = [g \in Files |-> None]
      BY <1>t, <1>4, <2>2 DEF WorkerReady
    <3> QED
      BY <3>1 DEF InStep, Calm
  <2>3. ASSUME NEW g \in Files, ScanFile(c, g) PROVE InStep(f)'
    <3>1. scan[Index].phase = "scanning" /\ scan[Index].read \in Reads
      BY <1>4, <2>3 DEF ScanFile, At, IndexInv, ScanInv
    <3>2. scan'[Index].phase = "scanning" /\ scan'[Index].read = [scan[Index].read EXCEPT ![g] = disk[g]]
      BY <1>t, <1>4, <2>3, <3>1 DEF ScanFile
    <3>3. scan'[Index].read[f] \in {None, disk[f]}
      BY <1>4, <3>1, <3>2 DEF InStep, Reads
    <3> QED
      BY <1>1, <3>2, <3>3 DEF InStep, Calm
  <2>4. CASE CacheScan(c)
    <3>1. scan[Index].phase = "scanning" /\ scan[Index].read[f] # None
      BY <1>4, <2>4 DEF CacheScan, At
    <3>2. scan'[Index].phase = "done" /\ scan'[Index].read = scan[Index].read
      BY <1>t, <1>4, <2>4 DEF CacheScan, Go
    <3> QED
      BY <1>1, <1>4, <3>1, <3>2 DEF InStep, Calm
  <2>5. CASE Refreshed(c)
    <3>1. scan'[Index] = Idle /\ scan[Index].phase = "done" /\ scan[Index].read \in Inputs /\ index' = Merged(scan[Index].read)
      BY <1>t, <1>4, <2>5 DEF Refreshed, At, IndexInv, ScanInv
    <3>2. PICK read \in Inputs : read = scan[Index].read /\ read[f] = disk[f]
      BY <1>4, <3>1 DEF InStep
    <3>3. Shows(f)'
      BY <1>1, <3>1, <3>2, MergedShows
    <3> QED
      BY <3>1, <3>3 DEF InStep, Idle
  <2>6. CASE ScanFails(c)
    <3>1. scan'[Index] = Idle /\ index'.error
      BY <1>t, <1>4, <2>6 DEF ScanFails, KeepScenes
    <3> QED
      BY <3>1 DEF InStep, Idle
  <2> QED
    BY <2>1, <2>2, <2>3, <2>4, <2>5, <2>6 DEF ScanStep
<1> QED
  BY <1>2, <1>3, <1>4 DEF Noticed

(* Every step keeps each file noticed. *)
LEMMA NoticedStep ==
  ASSUME IndexInv, UndoneMayRevert, EntriesDescribeTheirInputs, WasHeld, Noticed, [IndexNext]_indexVars
  PROVE  Noticed'
<1>t. /\ index \in [refreshing : BOOLEAN, indexed : BOOLEAN, error : BOOLEAN,
                    scenes : [Files -> SceneViews], lastGood : [Files -> (Contents \ Bad) \cup {None}]]
      /\ Index \in Callers /\ scan \in [Callers -> Scans]
      /\ scan[Index] \in [phase : Phases, inputs : Inputs \cup {None}, since : [Files -> Nat] \cup {None},
                          read : Reads \cup {None}, by : Runtimes \cup {None}, heard : Nat]
  BY IndexAssumption DEF IndexInv, ShownInv, Indexes, ScanInv, Scans
<1>w. ASSUME wanted' PROVE Noticed'
  BY <1>w DEF Noticed, Coming
<1>1. ASSUME NEW f \in Files, NEW v \in States, Outside(f, v) \/ Write(f, v) PROVE Noticed'
  BY <1>1, EditIsComing
<1>2. CASE (\E f \in Files, v \in States : Announce(f, v)) \/ LookEnds \/ DoctorPasses
  BY <1>2, <1>w DEF Announce, LookEnds, DoctorPasses, RequestReindex
<1>3. ASSUME NEW f \in Files, Look(f) PROVE Noticed'
  <2>1. /\ UNCHANGED <<disk, wanted, scan, index>> /\ stamped' = stamped \cup {f}
        /\ revisions' = [revisions EXCEPT ![f] = disk[f]] /\ changed' = (changed \/ revisions[f] # disk[f])
    BY <1>3 DEF Look, askVars
  <2>2. ASSUME NEW g \in Files \ MayRevert PROVE Coming(g)' \/ InStep(g)'
    <3>1. Coming(g) \/ InStep(g)
      BY DEF Noticed
    <3>2. InStep(g) => InStep(g)'
      BY <2>1 DEF InStep, Calm, Shows
    <3>3. CASE Coming(g) /\ g = f
      BY <2>1, <3>3 DEF Coming
    <3>4. CASE Coming(g) /\ g # f
      <4>1. revisions'[g] = revisions[g] /\ (g \in stamped' <=> g \in stamped)
        BY <2>1, <3>4 DEF IndexInv, FilesInv, Inputs
      <4> QED
        BY <2>1, <3>4, <4>1 DEF Coming
    <3> QED
      BY <3>1, <3>2, <3>3, <3>4
  <2> QED
    BY <2>2 DEF Noticed
<1>4. CASE JobWorkerReady \/ Trim \/ (\E v \in Runtimes : Install(v)) \/ UNCHANGED indexVars
  <2>1. UNCHANGED <<disk, stamped, revisions, changed, wanted, scan, index>>
    BY <1>4 DEF JobWorkerReady, Trim, Install, indexVars, fileVars, watchVars, askVars
  <2> QED
    BY <2>1 DEF Noticed, Coming, InStep, Calm, Shows
<1>5. CASE Wake
  <2>1. /\ UNCHANGED <<disk, stamped, revisions, changed, wanted, index>>
        /\ scan[Index].phase = "idle" /\ scan'[Index].phase = "gather"
    BY <1>5, <1>t DEF Wake, Go, At, fileVars, watchVars
  <2> QED
    BY <2>1 DEF Noticed, Coming, InStep, Calm, Shows
<1>6. CASE Claim
  <2>1. UNCHANGED <<disk, stamped, revisions, changed>> /\ scan[Index].phase = "gather"
    BY <1>6 DEF Claim, At, fileVars, watchVars
  <2>2. CASE wanted
    <3>1. scan'[Index].phase = "asked"
      BY <1>6, <1>t, <2>2 DEF Claim, Go
    <3> QED
      BY <3>1 DEF Noticed, InStep, Calm
  <2>3. CASE ~wanted
    <3>1. scan'[Index].phase = "idle" /\ UNCHANGED index
      BY <1>6, <1>t, <2>3 DEF Claim, Go
    <3> QED
      BY <2>1, <2>3, <3>1 DEF Noticed, Coming, InStep, Calm, Shows
  <2> QED
    BY <2>2, <2>3
<1>7. ASSUME NEW c \in Callers, Inspect(c) PROVE Noticed'
  <2>1. UNCHANGED <<disk, stamped, revisions, changed, wanted, index>> /\ scan'[Index] = scan[Index]
    BY <1>7, <1>t DEF Inspect, Go, fileVars, watchVars, askVars
  <2> QED
    BY <2>1 DEF Noticed, Coming, InStep, Calm, Shows
<1>8. ASSUME NEW c \in Callers, ScanStep(c) \/ ScanFails(c) PROVE Noticed'
  BY <1>8, ScanNoticed
<1> QED
  BY <1>1, <1>2, <1>3, <1>4, <1>5, <1>6, <1>7, <1>8 DEF IndexNext, Watch

(* However edits, saves, announcements and the reads of a scan interleave, an
   index that has nothing to do, with no stamp the watcher has not seen, shows
   every file as it is that goes back to no text it held before, unless its
   newest refresh failed (watch.rs, index and scan; state.rs, request_reindex
   and claim_reindex). *)
THEOREM TheIndexFollows == IndexSpec => []QuietIndexIsCurrent
<1>1. IndexInit => SoundInv /\ RestInv
  <2> SUFFICES ASSUME IndexInit PROVE SoundInv /\ RestInv
    OBVIOUS
  <2>1. SoundInv
    BY InitIndexInv DEF SoundInv
  <2>2. WasHeld /\ Noticed
    BY DEF IndexInit, WasHeld, Noticed, Coming
  <2>3. Woken
    BY DEF IndexInit, Woken
  <2> QED
    BY <2>1, <2>2, <2>3 DEF RestInv
<1>2. SoundInv /\ RestInv /\ [IndexNext]_indexVars => (SoundInv /\ RestInv)'
  <2>1. SoundInv /\ [IndexNext]_indexVars => SoundInv'
    BY SoundStep
  <2>2. SoundInv /\ RestInv /\ [IndexNext]_indexVars => RestInv'
    BY WasHeldStep, WokenStep, NoticedStep DEF SoundInv, RestInv
  <2> QED
    BY <2>1, <2>2
<1>3. SoundInv /\ RestInv => QuietIndexIsCurrent
  <2> SUFFICES ASSUME SoundInv, RestInv, stamped = Files, ~changed, ~permit, At(Index, "idle")
               PROVE  IndexIsCurrent
    BY DEF QuietIndexIsCurrent
  <2>1. ~index.refreshing /\ ~wanted
    BY DEF RestInv, Woken, Calm, At
  <2>2. \A f \in Files \ MayRevert : InStep(f)
    BY <2>1 DEF RestInv, Noticed, Coming
  <2> QED
    BY <2>1, <2>2 DEF IndexIsCurrent, InStep, Calm, At
<1> QED
  BY <1>1, <1>2, <1>3, PTL DEF IndexSpec

-----------------------------------------------------------------------------
(* The log of a job *)

Lines == Records \cup {Marker}
StoreStates == [log : Seq(Lines), usage : [records : Nat, bytes : Nat, truncated : BOOLEAN]]

Writes == [log : {TRUE}, record : Records] \cup [log : {FALSE}, progress : 0..MaxReports]
Batches == [stage : {"idle", "logs", "progress"}, logs : Seq(Records), progress : 0..MaxReports]
WriterStates == [logs : Seq(Records), progress : 0..MaxReports, due : BOOLEAN, recent : BOOLEAN,
            batch : Batches, lost : BOOLEAN, done : BOOLEAN]
Dialogs == [shown : Seq(Lines), cursor : Nat, phase : {"shut", "idle", "asked", "served"},
            page : [items : Seq(Lines), full : BOOLEAN],
            refetch : BOOLEAN, more : BOOLEAN, active : BOOLEAN, toast : BOOLEAN]
Agents == [read : Seq(Lines), cursor : Nat, phase : {"none", "idle", "row", "log"},
           ended : BOOLEAN, done : BOOLEAN]

RecorderTypes ==
  /\ runs \in {"on", "closing", "over", "dead"} /\ row \in {"running", "ended", "reaped"}
  /\ sent \in Seq(Records) /\ progressed \in 0..MaxReports
  /\ chan \in Seq(Writes) /\ writer \in WriterStates

(* No progress is known anywhere that was not reported. *)
ProgressWasReported ==
  /\ saved \in 0..progressed /\ writer.progress <= progressed /\ writer.batch.progress <= progressed
  /\ \A i \in 1..Len(chan) : ~chan[i].log => chan[i].progress <= progressed

Held(s) == Len(s.log) - IF s.usage.truncated THEN 1 ELSE 0

Sound(s) ==
  /\ s.usage.truncated => s.log # <<>>
  /\ \A i \in 1..Len(s.log) : s.log[i] = Marker <=> (s.usage.truncated /\ i = Len(s.log))
  /\ s.usage.records = Len(s.log) /\ Held(s) <= MaxRecords
  /\ s.usage.bytes = Bytes(SubSeq(s.log, 1, Held(s))) /\ s.usage.bytes <= MaxBytes

(* A log is no longer than what passed the writer; unless a batch was lost it
   begins as the records sent do, and while its engine lives it has all that
   passed or is cut. *)
Tells(s, passed, sq, lost, alive) ==
  /\ Len(s.log) <= passed
  /\ ~lost => /\ (alive /\ ~s.usage.truncated) => Len(s.log) = passed
              /\ \A i \in 1..Held(s) : s.log[i] = sq[i]

Stored == [log |-> log, usage |-> usage]

(* The counts of records sent up to each write in the channel. *)
Through(ch, sq, c) ==
  /\ c[Len(ch)] = Len(sq)
  /\ \A i \in 1..Len(ch) :
       IF ch[i].log THEN c[i] = c[i - 1] + 1 /\ ch[i].record = sq[c[i]] ELSE c[i] = c[i - 1]

(* Of the first n records the last wait at the writer, and others before them
   are being written. *)
Waiting(sq, n, logs, batch) ==
  /\ Len(logs) + Len(batch) <= n
  /\ \A i \in 1..Len(logs) : logs[i] = sq[(n - Len(logs)) + i]
  /\ \A i \in 1..Len(batch) : batch[i] = sq[(n - Len(logs) - Len(batch)) + i]

Flows(ch, sq, logs, batch, s, lost, alive) ==
  \E c \in [0..Len(ch) -> 0..Len(sq)] :
    /\ Through(ch, sq, c) /\ Waiting(sq, c[0], logs, batch)
    /\ Tells(s, c[0] - Len(logs) - Len(batch), sq, lost, alive)

Pipeline == Flows(chan, sent, writer.logs, writer.batch.logs, Stored, writer.lost, runs # "dead")

Stages ==
  /\ writer.batch.stage # "logs" => writer.batch.logs = <<>>
  /\ writer.batch.stage = "idle" => writer.batch = NoBatch
  /\ runs = "dead" => chan = <<>> /\ writer.logs = <<>> /\ writer.batch = NoBatch
  /\ writer.done /\ runs # "dead" => chan = <<>> /\ writer.logs = <<>> /\ runs # "on"
  /\ runs = "over" => writer.done /\ writer.batch = NoBatch
  /\ row = "ended" => runs = "over"

ShownIsLog ==
  /\ dialog.cursor = Len(dialog.shown) /\ dialog.cursor + Len(dialog.page.items) <= Len(log)
  /\ \A i \in 1..dialog.cursor : dialog.shown[i] = log[i]
  /\ \A i \in 1..Len(dialog.page.items) : dialog.page.items[i] = log[dialog.cursor + i]
  /\ ~dialog.active => row # "running"
  /\ row = "ended" /\ ~dialog.active =>
       /\ dialog.phase = "idle" /\ ~dialog.toast /\ ~dialog.more => dialog.cursor = Len(log)
       /\ dialog.phase = "served" /\ ~dialog.refetch =>
            dialog.page.full \/ dialog.cursor + Len(dialog.page.items) = Len(log)
  /\ dialog.phase # "served" => dialog.page = NoPage
  /\ dialog.phase = "shut" => dialog.active
ReadIsLog ==
  /\ agent.cursor = Len(agent.read) /\ agent.cursor <= Len(log)
  /\ \A i \in 1..agent.cursor : agent.read[i] = log[i]
  /\ agent.ended \/ agent.done => row # "running"
  /\ row = "ended" /\ agent.done => agent.cursor = Len(log)
FollowerTypes == dialog \in Dialogs /\ agent \in Agents

LogInv ==
  /\ RecorderTypes /\ ProgressWasReported /\ Stages
  /\ Stored \in StoreStates /\ Sound(Stored) /\ Pipeline
  /\ FollowerTypes /\ ShownIsLog /\ ReadIsLog


(* Bytes adds up the sizes one by one. *)
Adds(h, s, n) ==
  h[0] = 0 /\ Bytes(s) = h[n] /\ \A k \in 0..(n - 1) : h[k + 1] = h[k] + s[k + 1].size

(* The library's fold is that sum. *)
LEMMA BytesFolds ==
  ASSUME NEW R, NEW s \in Seq(R), NEW n \in Nat, n = Len(s), \A r \in R : r.size \in Nat
  PROVE  \E h \in [0..n -> Nat] : Adds(h, s, n)
<1>1. n = Len(s) /\ DOMAIN s = 1..n
  OBVIOUS
<1> DEFINE By(z) == z = [x \in SUBSET DOMAIN s |->
                           IF x = {} THEN 0 ELSE LET i == Max(x) IN z[x \ {i}] + s[i].size]
<1>2. PICK step : step = [p \in Nat \X (1..n) |-> p[1] + s[p[2]].size]
  OBVIOUS
<1>3. step \in [Nat \X (1..n) -> Nat]
  <2>1. \A i \in 1..n : s[i].size \in Nat
    BY <1>1
  <2> QED
    BY <1>2, <2>1
<1>4. \E z : By(z)
  <2>1. PICK z \in [SUBSET (1..n) -> Nat] : Folds(z, 1..n, 0, step)
    BY <1>3, FoldExists
  <2>2. ASSUME NEW x \in SUBSET (1..n), x # {}
        PROVE  z[x] = z[x \ {Max(x)}] + s[Max(x)].size
    <3>1. z[x] = step[<<z[x \ {Max(x)}], Max(x)>>] /\ z[x \ {Max(x)}] \in Nat
      BY <2>1, <2>2 DEF Folds
    <3> QED
      BY <1>2, <2>2, <3>1, MaxAmong
  <2>3. z = [x \in SUBSET (1..n) |-> IF x = {} THEN 0 ELSE z[x \ {Max(x)}] + s[Max(x)].size]
    BY <2>1, <2>2 DEF Folds
  <2> QED
    BY <1>1, <2>3
<1>5. PICK z : By(z) /\ Bytes(s) = z[DOMAIN s]
  <2>1. By(CHOOSE z : By(z))
    BY <1>4
  <2>2. Bytes(s) = (CHOOSE z : By(z))[DOMAIN s]
    BY DEF Bytes, FoldLeft, MapThenFoldSet
  <2> HIDE DEF By
  <2> QED
    BY <2>1, <2>2
<1>6. FoldsWithin(Nat, z, n, 0, step)
  <2>1. \A x \in SUBSET (1..n) : z[x] = IF x = {} THEN 0 ELSE z[x \ {Max(x)}] + s[Max(x)].size
    BY <1>1, <1>5
  <2> QED
    BY <1>2, <2>1, MaxAmong DEF FoldsWithin
<1>7. PICK h \in [0..n -> Nat] : Walks(h, n, 0, step, z[1..n])
  <2> HIDE DEF By
  <2> QED
    BY <1>3, <1>6, FoldIs
<1>8. ASSUME NEW k \in 0..(n - 1) PROVE h[k + 1] = h[k] + s[k + 1].size
  <2>1. h[k] \in Nat /\ k + 1 \in 1..n
    OBVIOUS
  <2> QED
    BY <1>2, <1>7, <2>1 DEF Walks
<1> QED
  BY <1>1, <1>5, <1>7, <1>8 DEF Walks, Adds

(* One record more adds its size to the bytes of a log. *)
LEMMA BytesAppend ==
  ASSUME NEW R, NEW s \in Seq(R), NEW r \in R, \A x \in R : x.size \in Nat
  PROVE  /\ Bytes(<<>>) = 0 /\ Bytes(s) \in Nat
         /\ Bytes(Append(s, r)) = Bytes(s) + r.size
<1>1. PICK n \in Nat : n = Len(s)
  OBVIOUS
<1>2. PICK longer : longer = Append(s, r)
  OBVIOUS
<1>3. /\ longer \in Seq(R) /\ Len(longer) = n + 1 /\ n + 1 \in Nat
      /\ longer[n + 1] = r /\ \A i \in 1..n : longer[i] = s[i]
  BY <1>1, <1>2
<1>4. Bytes(<<>>) = 0
  <2>1. <<>> \in Seq(R) /\ 0 = Len(<<>>) /\ 0 \in Nat
    OBVIOUS
  <2>2. \E h \in [0..0 -> Nat] : Adds(h, <<>>, 0)
    BY <2>1, BytesFolds
  <2> QED
    BY <2>2 DEF Adds
<1>5. PICK h \in [0..n -> Nat] : Adds(h, s, n)
  BY <1>1, BytesFolds
<1>6. PICK g \in [0..(n + 1) -> Nat] : Adds(g, longer, n + 1)
  BY <1>3, BytesFolds
<1> USE DEF Adds
<1>7. ASSUME NEW k \in 0..(n - 1), h[k] = g[k] PROVE h[k + 1] = g[k + 1]
  <2>1. k + 1 \in 1..n /\ k \in 0..((n + 1) - 1)
    OBVIOUS
  <2>2. longer[k + 1] = s[k + 1]
    BY <1>3, <2>1
  <2> QED
    BY <1>5, <1>6, <1>7, <2>1, <2>2
<1>8. h[n] = g[n]
  <2> DEFINE T == {k \in 0..n : h[k] = g[k]}
  <2>1. 0 \in T /\ T \in SUBSET (0..n)
    BY <1>5, <1>6
  <2>2. \A k \in 0..(n - 1) : k \in T => k + 1 \in T
    <3>1. \A k \in 0..(n - 1) : k + 1 \in 0..n
      OBVIOUS
    <3> QED
      BY <1>7, <3>1
  <2>3. n \in 0..n
    OBVIOUS
  <2> HIDE DEF T
  <2>4. T = 0..n
    BY <2>1, <2>2, Stepwise
  <2> QED
    BY <2>3, <2>4 DEF T
<1>9. h[n] \in Nat /\ g[n + 1] = g[n] + r.size
  <2>1. n \in 0..((n + 1) - 1) /\ n \in 0..n
    OBVIOUS
  <2> QED
    BY <1>3, <1>6, <2>1
<1> QED
  BY <1>2, <1>4, <1>5, <1>6, <1>8, <1>9

(* What is kept of a log is what comes before its marker. *)
LEMMA KeptIs ==
  ASSUME NEW R, log \in Seq(R), NEW m \in 0..Len(log),
         \A i \in 1..Len(log) : log[i] = Marker <=> i > m
  PROVE  Kept = SubSeq(log, 1, m)
<1>1. PICK n \in Nat : n = Len(log) /\ DOMAIN log = 1..n
  OBVIOUS
<1>2. PICK s \in Seq(R) : s = log /\ n = Len(s) /\ DOMAIN s = 1..n
  BY <1>1
<1> DEFINE By(z) == z = [x \in SUBSET DOMAIN log |->
              IF x = {} THEN <<>>
              ELSE LET i == Max(x) IN IF log[i] = Marker THEN z[x \ {i}] ELSE Append(z[x \ {i}], log[i])]
<1>3. PICK step : step = [p \in Seq(R) \X (1..n) |-> IF s[p[2]] = Marker THEN p[1] ELSE Append(p[1], s[p[2]])]
  OBVIOUS
<1>4. step \in [Seq(R) \X (1..n) -> Seq(R)] /\ <<>> \in Seq(R)
  <2>1. \A i \in 1..n : s[i] \in R
    BY <1>2
  <2> QED
    BY <1>3, <2>1
<1>5. \E z : By(z)
  <2>1. PICK z \in [SUBSET (1..n) -> Seq(R)] : Folds(z, 1..n, <<>>, step)
    BY <1>4, FoldExists
  <2>2. ASSUME NEW x \in SUBSET (1..n), x # {}
        PROVE  z[x] = IF s[Max(x)] = Marker THEN z[x \ {Max(x)}] ELSE Append(z[x \ {Max(x)}], s[Max(x)])
    <3>1. z[x] = step[<<z[x \ {Max(x)}], Max(x)>>] /\ z[x \ {Max(x)}] \in Seq(R)
      BY <2>1, <2>2 DEF Folds
    <3> QED
      BY <1>3, <2>2, <3>1, MaxAmong
  <2>3. z = [x \in SUBSET (1..n) |->
               IF x = {} THEN <<>>
               ELSE IF s[Max(x)] = Marker THEN z[x \ {Max(x)}] ELSE Append(z[x \ {Max(x)}], s[Max(x)])]
    BY <2>1, <2>2 DEF Folds
  <2> QED
    BY <1>1, <1>2, <2>3
<1>6. PICK z : By(z) /\ Kept = z[DOMAIN log]
  <2>1. By(CHOOSE z : By(z))
    BY <1>5
  <2>2. Kept = (CHOOSE z : By(z))[DOMAIN log]
    BY DEF Kept, FoldLeft, MapThenFoldSet
  <2> HIDE DEF By
  <2> QED
    BY <2>1, <2>2
<1>7. FoldsWithin(Seq(R), z, n, <<>>, step)
  <2>1. \A x \in SUBSET (1..n) :
          z[x] = IF x = {} THEN <<>>
                 ELSE IF s[Max(x)] = Marker THEN z[x \ {Max(x)}] ELSE Append(z[x \ {Max(x)}], s[Max(x)])
    BY <1>1, <1>2, <1>6
  <2> QED
    BY <1>3, <2>1, MaxAmong DEF FoldsWithin
<1>8. PICK h \in [0..n -> Seq(R)] : Walks(h, n, <<>>, step, z[1..n])
  <2> HIDE DEF By
  <2> QED
    BY <1>4, <1>7, FoldIs
<1> DEFINE T == {k \in 0..n : h[k] = SubSeq(s, 1, IF k <= m THEN k ELSE m)}
<1>9. 0 \in T /\ T \in SUBSET (0..n)
  BY <1>1, <1>8 DEF Walks
<1>10. ASSUME NEW k \in 0..(n - 1), k \in T PROVE k + 1 \in T
  <2>1. h[k] \in Seq(R) /\ k + 1 \in 1..n /\ k \in Nat /\ s[k + 1] \in R
    BY <1>2
  <2>2. h[k + 1] = IF s[k + 1] = Marker THEN h[k] ELSE Append(h[k], s[k + 1])
    BY <1>3, <1>8, <2>1 DEF Walks
  <2>3. s[k + 1] = Marker <=> k + 1 > m
    BY <1>1, <1>2, <2>1
  <2>4. CASE k + 1 > m
    <3>1. h[k + 1] = h[k]
      BY <2>2, <2>3, <2>4
    <3>2. h[k] = SubSeq(s, 1, m)
      BY <1>1, <1>10, <2>1, <2>4
    <3> QED
      BY <1>1, <2>1, <2>4, <3>1, <3>2
  <2>5. CASE k + 1 <= m
    <3>1. h[k + 1] = Append(h[k], s[k + 1]) /\ h[k] = SubSeq(s, 1, k)
      BY <1>1, <1>10, <2>1, <2>2, <2>3, <2>5
    <3>2. Append(SubSeq(s, 1, k), s[k + 1]) = SubSeq(s, 1, k + 1)
      BY <1>2, <2>1
    <3>3. h[k + 1] = SubSeq(s, 1, k + 1) /\ k + 1 \in 0..n
      BY <2>1, <3>1, <3>2
    <3> QED
      BY <2>5, <3>3
  <2> QED
    BY <1>1, <2>1, <2>4, <2>5
<1>11. T = 0..n
  <2> HIDE DEF T, By
  <2> QED
    BY <1>9, <1>10, Stepwise
<1>12. h[n] = SubSeq(s, 1, m)
  <2>1. n \in T /\ m \in Nat /\ m <= n
    BY <1>1, <1>11
  <2> QED
    BY <2>1
<1> QED
  BY <1>1, <1>2, <1>6, <1>8, <1>12 DEF Walks

(* What a batch leaves, appended record by record. *)
Appends(h, first, records, n) ==
  /\ h[0] = first /\ FoldLeft(Appended, first, records) = h[n]
  /\ \A k \in 0..(n - 1) : h[k + 1] = Appended(h[k], records[k + 1])

(* A batch is appended record by record. *)
LEMMA AppendedFolds ==
  ASSUME NEW V, NEW first \in V, NEW records \in Seq(Records), NEW n \in Nat, n = Len(records),
         \A s \in V, r \in Records : Appended(s, r) \in V
  PROVE  \E h \in [0..n -> V] : Appends(h, first, records, n)
<1>1. n = Len(records) /\ DOMAIN records = 1..n /\ \A i \in 1..n : records[i] \in Records
  OBVIOUS
<1> DEFINE By(z) == z = [x \in SUBSET DOMAIN records |->
                           IF x = {} THEN first ELSE LET i == Max(x) IN Appended(z[x \ {i}], records[i])]
<1>2. PICK step : step = [p \in V \X (1..n) |-> Appended(p[1], records[p[2]])]
  OBVIOUS
<1>3. step \in [V \X (1..n) -> V]
  BY <1>1, <1>2
<1>4. \E z : By(z)
  <2>1. PICK z \in [SUBSET (1..n) -> V] : Folds(z, 1..n, first, step)
    BY <1>3, FoldExists
  <2>2. ASSUME NEW x \in SUBSET (1..n), x # {}
        PROVE  z[x] = Appended(z[x \ {Max(x)}], records[Max(x)])
    <3>1. z[x] = step[<<z[x \ {Max(x)}], Max(x)>>] /\ z[x \ {Max(x)}] \in V
      BY <2>1, <2>2 DEF Folds
    <3> QED
      BY <1>2, <2>2, <3>1, MaxAmong
  <2>3. z = [x \in SUBSET (1..n) |->
               IF x = {} THEN first ELSE Appended(z[x \ {Max(x)}], records[Max(x)])]
    BY <2>1, <2>2 DEF Folds
  <2> QED
    BY <1>1, <2>3
<1>5. PICK z : By(z) /\ FoldLeft(Appended, first, records) = z[DOMAIN records]
  <2>1. By(CHOOSE z : By(z))
    BY <1>4
  <2>2. FoldLeft(Appended, first, records) = (CHOOSE z : By(z))[DOMAIN records]
    BY DEF FoldLeft, MapThenFoldSet
  <2> HIDE DEF By
  <2> QED
    BY <2>1, <2>2
<1>6. FoldsWithin(V, z, n, first, step)
  <2>1. \A x \in SUBSET (1..n) :
          z[x] = IF x = {} THEN first ELSE Appended(z[x \ {Max(x)}], records[Max(x)])
    BY <1>1, <1>5
  <2> QED
    BY <1>2, <2>1, MaxAmong DEF FoldsWithin
<1>7. PICK h \in [0..n -> V] : Walks(h, n, first, step, z[1..n])
  <2> HIDE DEF By
  <2> QED
    BY <1>3, <1>6, FoldIs
<1>8. ASSUME NEW k \in 0..(n - 1) PROVE h[k + 1] = Appended(h[k], records[k + 1])
  <2>1. h[k] \in V /\ k + 1 \in 1..n
    OBVIOUS
  <2> QED
    BY <1>2, <1>7, <2>1 DEF Walks
<1> QED
  BY <1>1, <1>5, <1>7, <1>8 DEF Walks, Appends

(* What the log holds has a size, and no record is the marker. *)
LEMMA LinesAre ==
  /\ \A r \in Records : r.size \in Nat /\ r # Marker
  /\ \A r \in Lines : r.size \in Nat
  /\ MaxRecords \in Nat /\ MaxBytes \in Nat
<1>1. Sizes \subseteq Nat /\ MaxRecords \in Nat /\ MaxBytes \in Nat
  BY LogAssumption
<1>2. ASSUME NEW r \in Records PROVE r.size \in Nat /\ r # Marker
  <2>1. r.size \in Sizes /\ r.n \in 1..MaxReports
    BY DEF Records
  <2>2. r.n # Marker.n
    BY <2>1 DEF Marker
  <2> QED
    BY <1>1, <2>1, <2>2
<1> QED
  BY <1>1, <1>2 DEF Lines, Marker

(* append_job_log: a record is stored whole, or the marker ends the log, or
   the log had ended; usage goes on counting what is stored. *)
LEMMA AppendedIs ==
  ASSUME NEW s \in StoreStates, Sound(s), NEW r \in Records, NEW new, new = Appended(s, r)
  PROVE  /\ new \in StoreStates /\ Sound(new)
         /\ \/ s.usage.truncated /\ new = s
            \/ ~s.usage.truncated /\ new.usage.truncated /\ new.log = Append(s.log, Marker)
            \/ ~s.usage.truncated /\ ~new.usage.truncated /\ new.log = Append(s.log, r)
<1> USE DEF StoreStates
<1>1. CASE s.usage.truncated
  BY <1>1 DEF Appended
<1>2. CASE ~s.usage.truncated /\ (s.usage.records >= MaxRecords \/ s.usage.bytes + r.size > MaxBytes)
  <2>1. PICK n \in Nat : n = Len(s.log)
    OBVIOUS
  <2>2. /\ new.log = Append(s.log, Marker)
        /\ new.usage = [s.usage EXCEPT !.records = @ + 1, !.truncated = TRUE]
        /\ new = [log |-> new.log, usage |-> new.usage]
    BY <1>2 DEF Appended
  <2>11. PICK u \in [records : Nat, bytes : Nat, truncated : BOOLEAN] : u = s.usage
    OBVIOUS
  <2>3. /\ new.usage.records = s.usage.records + 1 /\ new.usage.truncated /\ new.usage.bytes = s.usage.bytes
        /\ new.usage \in [records : Nat, bytes : Nat, truncated : BOOLEAN]
    <3>1. new.usage = [u EXCEPT !.records = u.records + 1, !.truncated = TRUE]
      BY <2>2, <2>11
    <3>2. new.usage = [records |-> u.records + 1, bytes |-> u.bytes, truncated |-> TRUE]
      BY <3>1
    <3>3. new.usage.records = u.records + 1 /\ new.usage.bytes = u.bytes /\ new.usage.truncated
      BY <3>2
    <3>4. u.records + 1 \in Nat /\ u.bytes \in Nat
      OBVIOUS
    <3>5. new.usage \in [records : Nat, bytes : Nat, truncated : BOOLEAN]
      BY <3>2, <3>4
    <3> QED
      BY <2>11, <3>3, <3>5
  <2>4. /\ new.log \in Seq(Lines) /\ Len(new.log) = n + 1 /\ new.log[n + 1] = Marker
        /\ \A i \in 1..n : new.log[i] = s.log[i]
    BY <2>1, <2>2 DEF Lines
  <2>5. Held(new) = n /\ Held(s) = n
    BY <1>2, <2>1, <2>3, <2>4 DEF Held
  <2>6. SubSeq(new.log, 1, n) = SubSeq(s.log, 1, n)
    BY <2>1, <2>4
  <2>7. \A i \in 1..(n + 1) : new.log[i] = Marker <=> i = n + 1
    <3> TAKE i \in 1..(n + 1)
    <3>1. CASE i = n + 1
      BY <2>4, <3>1
    <3>2. CASE i # n + 1
      <4>1. i \in 1..n
        BY <3>2
      <4> QED
        BY <1>2, <2>1, <2>4, <3>2, <4>1 DEF Sound
    <3> QED
      BY <3>1, <3>2
  <2>8. new.log # <<>>
    BY <2>4
  <2>9. Sound(new)
    <3>1. s.usage.records = n /\ n <= MaxRecords /\ s.usage.bytes = Bytes(SubSeq(s.log, 1, n)) /\ s.usage.bytes <= MaxBytes
      BY <2>1, <2>5 DEF Sound
    <3>2. new.usage.records = Len(new.log) /\ Held(new) <= MaxRecords
      BY <2>3, <2>4, <2>5, <3>1
    <3>3. new.usage.bytes = Bytes(SubSeq(new.log, 1, Held(new))) /\ new.usage.bytes <= MaxBytes
      BY <2>3, <2>5, <2>6, <3>1
    <3>4. \A i \in 1..Len(new.log) : new.log[i] = Marker <=> (new.usage.truncated /\ i = Len(new.log))
      BY <2>3, <2>4, <2>7
    <3> QED
      BY <2>3, <2>4, <2>8, <3>2, <3>3, <3>4 DEF Sound
  <2> QED
    BY <1>2, <2>2, <2>3, <2>4, <2>9
<1>3. CASE ~s.usage.truncated /\ ~ (s.usage.records >= MaxRecords \/ s.usage.bytes + r.size > MaxBytes)
  <2>1. PICK n \in Nat : n = Len(s.log)
    OBVIOUS
  <2>2. /\ new.log = Append(s.log, r)
        /\ new.usage = [s.usage EXCEPT !.records = @ + 1, !.bytes = @ + r.size]
        /\ new = [log |-> new.log, usage |-> new.usage]
    BY <1>3 DEF Appended
  <2>3. /\ new.usage.records = s.usage.records + 1 /\ ~new.usage.truncated
        /\ new.usage.bytes = s.usage.bytes + r.size
        /\ new.usage \in [records : Nat, bytes : Nat, truncated : BOOLEAN]
    <3>1. PICK u \in [records : Nat, bytes : Nat, truncated : BOOLEAN] : u = s.usage
      OBVIOUS
    <3>2. new.usage = [u EXCEPT !.records = u.records + 1, !.bytes = u.bytes + r.size] /\ r.size \in Nat
      BY <2>2, <3>1, LinesAre
    <3>3. new.usage = [records |-> u.records + 1, bytes |-> u.bytes + r.size, truncated |-> u.truncated]
      BY <3>2
    <3>4. /\ new.usage.records = u.records + 1 /\ new.usage.bytes = u.bytes + r.size
          /\ new.usage.truncated = u.truncated
      BY <3>3
    <3>5. u.records + 1 \in Nat /\ u.bytes + r.size \in Nat
      BY <3>2
    <3>6. new.usage \in [records : Nat, bytes : Nat, truncated : BOOLEAN]
      BY <3>3, <3>5
    <3> QED
      BY <1>3, <3>1, <3>4, <3>6
  <2>4. /\ new.log \in Seq(Lines) /\ Len(new.log) = n + 1 /\ new.log[n + 1] = r
        /\ \A i \in 1..n : new.log[i] = s.log[i]
    BY <2>1, <2>2 DEF Lines
  <2>5. Held(new) = n + 1 /\ Held(s) = n
    BY <1>3, <2>1, <2>3, <2>4 DEF Held
  <2>6. SubSeq(new.log, 1, n + 1) = new.log /\ SubSeq(s.log, 1, n) = s.log
    BY <2>1, <2>4
  <2>7. \A i \in 1..(n + 1) : new.log[i] # Marker
    <3> TAKE i \in 1..(n + 1)
    <3>1. CASE i = n + 1
      BY <2>4, <3>1, LinesAre
    <3>2. CASE i # n + 1
      <4>1. i \in 1..n
        BY <3>2
      <4> QED
        BY <1>3, <2>1, <2>4, <3>2, <4>1 DEF Sound
    <3> QED
      BY <3>1, <3>2
  <2>8. Bytes(new.log) = Bytes(s.log) + r.size
    BY <2>2, BytesAppend, LinesAre DEF Lines
  <2>9. s.usage.bytes = Bytes(s.log) /\ s.usage.records = n
    BY <2>1, <2>5, <2>6 DEF Sound
  <2>10. n + 1 <= MaxRecords /\ s.usage.bytes + r.size <= MaxBytes
    BY <1>3, <2>9, LinesAre
  <2>11. Sound(new)
    BY <2>1, <2>3, <2>4, <2>5, <2>6, <2>7, <2>8, <2>9, <2>10 DEF Sound
  <2> QED
    BY <1>3, <2>2, <2>3, <2>4, <2>11
<1> QED
  BY <1>1, <1>2, <1>3

Grows(s, t) == Len(s) <= Len(t) /\ \A i \in 1..Len(s) : t[i] = s[i]

(* A log that grows twice grows. *)
LEMMA GrowsTwice ==
  ASSUME NEW R, NEW s \in Seq(R), NEW t \in Seq(R), NEW u \in Seq(R), Grows(s, t), Grows(t, u)
  PROVE  Grows(s, u)
<1>1. Len(s) \in Nat /\ Len(t) \in Nat /\ Len(u) \in Nat
  OBVIOUS
<1>2. \A i \in 1..Len(s) : i \in 1..Len(t)
  BY <1>1 DEF Grows
<1> QED
  BY <1>1, <1>2 DEF Grows

(* The next of the records sent, appended, keeps the log a beginning of them. *)
LEMMA AppendedGrows ==
  ASSUME NEW s \in StoreStates, Sound(s), NEW r \in Records, NEW new, new = Appended(s, r),
         NEW passed \in Nat, NEW sq, NEW lost, Tells(s, passed, sq, lost, TRUE), r = sq[passed + 1]
  PROVE  /\ new \in StoreStates /\ Sound(new) /\ Grows(s.log, new.log)
         /\ Tells(new, passed + 1, sq, lost, TRUE)
<1>1. PICK n \in Nat : n = Len(s.log) /\ s.log \in Seq(Lines)
  BY DEF StoreStates
<1>2. new \in StoreStates /\ Sound(new)
  BY AppendedIs
<1>3. n <= passed /\ (~lost => (~s.usage.truncated => n = passed) /\ \A i \in 1..Held(s) : s.log[i] = sq[i])
  BY <1>1 DEF Tells
<1>4. CASE s.usage.truncated /\ new = s
  <2>1. Grows(s.log, new.log)
    BY <1>1, <1>4 DEF Grows
  <2>2. Tells(new, passed + 1, sq, lost, TRUE)
    BY <1>1, <1>3, <1>4 DEF Tells
  <2> QED
    BY <1>2, <2>1, <2>2
<1>5. ASSUME NEW x \in Lines, ~s.usage.truncated, new.log = Append(s.log, x)
      PROVE  /\ Grows(s.log, new.log) /\ Len(new.log) = n + 1 /\ new.log[n + 1] = x /\ Held(s) = n
             /\ \A i \in 1..n : new.log[i] = s.log[i]
  BY <1>1, <1>5 DEF Grows, Held
<1>6. CASE ~s.usage.truncated /\ new.usage.truncated /\ new.log = Append(s.log, Marker)
  <2>1. /\ Grows(s.log, new.log) /\ Len(new.log) = n + 1 /\ Held(s) = n
        /\ \A i \in 1..n : new.log[i] = s.log[i]
    BY <1>5, <1>6 DEF Lines
  <2>2. Held(new) = n
    BY <1>6, <2>1 DEF Held
  <2>3. Tells(new, passed + 1, sq, lost, TRUE)
    BY <1>3, <1>6, <2>1, <2>2 DEF Tells
  <2> QED
    BY <1>2, <2>1, <2>3
<1>7. CASE ~s.usage.truncated /\ ~new.usage.truncated /\ new.log = Append(s.log, r)
  <2>1. /\ Grows(s.log, new.log) /\ Len(new.log) = n + 1 /\ Held(s) = n /\ new.log[n + 1] = r
        /\ \A i \in 1..n : new.log[i] = s.log[i]
    BY <1>5, <1>7 DEF Lines
  <2>2. Held(new) = n + 1
    BY <1>7, <2>1 DEF Held
  <2>3. ASSUME ~lost, NEW i \in 1..(n + 1) PROVE new.log[i] = sq[i]
    <3>1. CASE i = n + 1
      BY <1>3, <1>7, <2>1, <2>3, <3>1
    <3>2. CASE i # n + 1
      <4>1. i \in 1..n
        BY <3>2
      <4> QED
        BY <1>3, <2>1, <2>3, <4>1
    <3> QED
      BY <3>1, <3>2
  <2>4. Tells(new, passed + 1, sq, lost, TRUE)
    BY <1>3, <1>7, <2>1, <2>2, <2>3 DEF Tells
  <2> QED
    BY <1>2, <2>1, <2>4
<1> QED
  BY <1>4, <1>6, <1>7, AppendedIs

(* A batch that is stored leaves a sound log that tells of all that passed. *)
LEMMA BatchGrows ==
  ASSUME NEW first \in StoreStates, Sound(first), NEW records \in Seq(Records),
         NEW passed \in Nat, NEW sq, NEW lost, Tells(first, passed, sq, lost, TRUE),
         \A i \in 1..Len(records) : records[i] = sq[passed + i],
         NEW last, last = FoldLeft(Appended, first, records)
  PROVE  /\ last \in StoreStates /\ Sound(last) /\ Grows(first.log, last.log)
         /\ Tells(last, passed + Len(records), sq, lost, TRUE)
<1>1. PICK n \in Nat : n = Len(records)
  OBVIOUS
<1>2. PICK V : V = {s \in StoreStates : Sound(s)}
  OBVIOUS
<1>3. first \in V /\ \A s \in V, r \in Records : Appended(s, r) \in V
  BY <1>2, AppendedIs
<1>4. PICK h \in [0..n -> V] : Appends(h, first, records, n)
  BY <1>1, <1>3, AppendedFolds
<1> DEFINE T == {k \in 0..n : Grows(first.log, h[k].log) /\ Tells(h[k], passed + k, sq, lost, TRUE)}
<1>5. 0 \in T /\ T \in SUBSET (0..n)
  <2>1. h[0] = first /\ passed + 0 = passed /\ 0 \in 0..n
    BY <1>4 DEF Appends
  <2>2. Grows(first.log, first.log)
    BY DEF Grows, StoreStates
  <2> QED
    BY <2>1, <2>2
<1>6. ASSUME NEW k \in 0..(n - 1), k \in T PROVE k + 1 \in T
  <2>1. k \in 0..n /\ k + 1 \in 0..n /\ k + 1 \in 1..n /\ passed + k \in Nat
    OBVIOUS
  <2>2. h[k] \in StoreStates /\ Sound(h[k])
    BY <1>2, <2>1
  <2>3. records[k + 1] \in Records /\ records[k + 1] = sq[(passed + k) + 1]
    BY <1>1, <2>1
  <2>4. h[k + 1] = Appended(h[k], records[k + 1])
    BY <1>4 DEF Appends
  <2>5. Tells(h[k], passed + k, sq, lost, TRUE) /\ Grows(first.log, h[k].log)
    BY <1>6
  <2>6. Grows(h[k].log, h[k + 1].log) /\ Tells(h[k + 1], (passed + k) + 1, sq, lost, TRUE) /\ h[k + 1] \in StoreStates
    <3>1. PICK new : new = h[k + 1]
      OBVIOUS
    <3>o. PICK old \in StoreStates : old = h[k]
      BY <2>2
    <3>r. PICK r \in Records : r = records[k + 1]
      BY <2>3
    <3>p. PICK p \in Nat : p = passed + k
      BY <2>1
    <3>2. Sound(old) /\ new = Appended(old, r) /\ Tells(old, p, sq, lost, TRUE) /\ r = sq[p + 1]
      BY <2>2, <2>3, <2>4, <2>5, <3>1, <3>o, <3>r, <3>p
    <3> HIDE DEF T
    <3>3. Grows(old.log, new.log) /\ Tells(new, p + 1, sq, lost, TRUE) /\ new \in StoreStates
      BY <3>2, AppendedGrows
    <3> QED
      BY <3>1, <3>o, <3>p, <3>3
  <2>7. Grows(first.log, h[k + 1].log)
    <3>1. first.log \in Seq(Lines) /\ h[k].log \in Seq(Lines) /\ h[k + 1].log \in Seq(Lines)
      BY <2>2, <2>6 DEF StoreStates
    <3> HIDE DEF T
    <3> QED
      BY <2>5, <2>6, <3>1, GrowsTwice
  <2>8. (passed + k) + 1 = passed + (k + 1)
    BY <2>1
  <2> QED
    BY <2>1, <2>6, <2>7, <2>8
<1>7. T = 0..n
  <2> HIDE DEF T
  <2> QED
    BY <1>5, <1>6, Stepwise
<1>8. n \in T /\ n \in 0..n
  <2>1. n \in 0..n
    OBVIOUS
  <2> QED
    BY <1>7, <2>1
<1>9. last = h[n] /\ h[n] \in StoreStates /\ Sound(h[n])
  BY <1>2, <1>4, <1>8 DEF Appends
<1> QED
  BY <1>1, <1>8, <1>9

-----------------------------------------------------------------------------
(* A flush takes the waiting records as they are, and nothing else. *)
LEMMA FlushedIs ==
  ASSUME NEW w \in WriterStates
  PROVE  /\ Flushed(w) \in WriterStates
         /\ Flushed(w).logs = <<>> /\ Flushed(w).done = w.done /\ Flushed(w).lost = w.lost
         /\ Flushed(w).batch.logs = w.logs
         /\ Flushed(w).batch.stage \in {"idle", "logs"}
         /\ Flushed(w).batch.stage = "idle" => Flushed(w).batch = NoBatch
         /\ Flushed(w).progress \in {0, w.progress} /\ Flushed(w).batch.progress \in {0, w.progress}
         /\ Flushed(w).progress # 0 => Flushed(w).due
         /\ \/ Flushed(w).progress = 0 /\ Flushed(w).batch.progress = w.progress
            \/ Flushed(w).progress = w.progress /\ Flushed(w).batch.progress = 0
<1>1. PICK saves \in BOOLEAN : saves = (w.progress # 0 /\ ~w.recent)
  OBVIOUS
<1>2. PICK left : left = [w EXCEPT !.logs = <<>>, !.progress = IF saves THEN 0 ELSE @, !.recent = @ \/ saves]
  OBVIOUS
<1>3. PICK batch : batch = IF w.logs = <<>> /\ ~saves THEN NoBatch ELSE Batch("logs", w.logs, IF saves THEN w.progress ELSE 0)
  OBVIOUS
<1>4. Flushed(w) = [left EXCEPT !.due = StillDue(left), !.batch = batch]
  BY <1>1, <1>2, <1>3 DEF Flushed
<1>5. left = [logs |-> <<>>, progress |-> IF saves THEN 0 ELSE w.progress, due |-> w.due,
              recent |-> w.recent \/ saves, batch |-> w.batch, lost |-> w.lost, done |-> w.done]
  BY <1>2 DEF WriterStates
<1>6. Flushed(w) = [logs |-> <<>>, progress |-> IF saves THEN 0 ELSE w.progress, due |-> StillDue(left),
                    recent |-> w.recent \/ saves, batch |-> batch, lost |-> w.lost, done |-> w.done]
  BY <1>4, <1>5
<1>7. batch \in Batches /\ batch.logs = w.logs /\ batch.stage \in {"idle", "logs"}
      /\ (batch.stage = "idle" => batch = NoBatch) /\ batch.progress \in {0, w.progress}
  <2>1. 0 \in 0..MaxReports
    BY LogAssumption
  <2> QED
    BY <1>3, <2>1 DEF NoBatch, Batch, Batches, WriterStates
<1>8. StillDue(left) \in BOOLEAN
  BY DEF StillDue
<1>9. (IF saves THEN 0 ELSE w.progress) \in 0..MaxReports /\ (w.recent \/ saves) \in BOOLEAN
  BY LogAssumption DEF WriterStates
<1>10. <<>> \in Seq(Records) /\ w.lost \in BOOLEAN /\ w.done \in BOOLEAN
  BY DEF WriterStates
<1>11. Flushed(w) \in WriterStates
  BY <1>6, <1>7, <1>8, <1>9, <1>10 DEF WriterStates
<1>12. PICK f : f = Flushed(w)
  OBVIOUS
<1>13. f.progress = left.progress /\ f.due = StillDue(left) /\ f.batch.progress = batch.progress
  BY <1>5, <1>6, <1>12
<1>14. \/ f.progress = 0 /\ f.batch.progress = w.progress
       \/ f.progress = w.progress /\ f.batch.progress = 0
  <2>1. batch.progress = IF saves THEN w.progress ELSE 0
    BY <1>3 DEF NoBatch, Batch
  <2> QED
    BY <1>5, <1>13, <2>1
<1>15. f.progress # 0 => f.due
  BY <1>13 DEF StillDue
<1> QED
  BY <1>6, <1>7, <1>11, <1>12, <1>14, <1>15

FollowersOnly == UNCHANGED <<recorderVars, storeVars>>

(* The followers of a log write nothing of it. *)
LEMMA FollowersLeave ==
  ASSUME FollowerStep \/ UNCHANGED logVars
  PROVE  FollowersOnly
  BY DEF FollowersOnly, FollowerStep, FetchMore, HearsEnd, ServePage, ShowPage, PageFails, Reopen, AskStatus,
         ReadRow, ReadLog, logVars

(* What a record or progress is on its way in. *)
LEMMA WritesAre ==
  /\ \A record \in Records : [log |-> TRUE, record |-> record] \in Writes
  /\ \A n \in 0..MaxReports : [log |-> FALSE, progress |-> n] \in Writes
  /\ \A write \in Writes : /\ write.log \in BOOLEAN
                           /\ write.log => write.record \in Records
                           /\ ~write.log => write.progress \in 0..MaxReports
  /\ <<>> \in Seq(Records) /\ <<>> \in Seq(Writes) /\ NoBatch \in Batches /\ 0 \in 0..MaxReports
<1>1. 0 \in 0..MaxReports
  BY LogAssumption
<1>2. ASSUME NEW write \in Writes
      PROVE  /\ write.log \in BOOLEAN
             /\ write.log => write.record \in Records
             /\ ~write.log => write.progress \in 0..MaxReports
  <2>1. CASE write \in [log : {TRUE}, record : Records]
    BY <2>1
  <2>2. CASE write \in [log : {FALSE}, progress : 0..MaxReports]
    BY <2>2
  <2> QED
    BY <2>1, <2>2 DEF Writes
<1>3. NoBatch \in Batches
  BY <1>1 DEF NoBatch, Batch, Batches
<1>4. /\ \A record \in Records : [log |-> TRUE, record |-> record] \in Writes
      /\ \A n \in 0..MaxReports : [log |-> FALSE, progress |-> n] \in Writes
  BY DEF Writes
<1>5. <<>> \in Seq(Records) /\ <<>> \in Seq(Writes)
  OBVIOUS
<1> QED
  BY <1>1, <1>2, <1>3, <1>4, <1>5

(* Every step keeps the types of the recorder and the writer. *)
LEMMA RecorderTypesStep ==
  ASSUME RecorderTypes, LogNext \/ UNCHANGED logVars
  PROVE  RecorderTypes'
<1> USE DEF RecorderTypes
<1>t. writer \in [logs : Seq(Records), progress : 0..MaxReports, due : BOOLEAN, recent : BOOLEAN,
                  batch : Batches, lost : BOOLEAN, done : BOOLEAN]
  BY DEF WriterStates
<1>0. CASE FollowersOnly
  BY <1>0 DEF FollowersOnly, recorderVars
<1>1. ASSUME NEW size \in Sizes, Report(size) PROVE RecorderTypes'
  <2>1. PICK n \in Nat : n = Len(sent) /\ n + 1 \in 1..MaxReports
    BY <1>1, LogAssumption DEF Report
  <2>2. PICK record \in Records : record = [n |-> n + 1, size |-> size]
    BY <2>1 DEF Records
  <2>3. sent' = Append(sent, record) /\ chan' = Append(chan, [log |-> TRUE, record |-> record])
    BY <1>1, <2>1, <2>2 DEF Report
  <2> QED
    BY <1>1, <2>3, WritesAre DEF Report
<1>2. CASE ReportProgress
  <2>1. progressed' \in 0..MaxReports
    <3>1. Len(sent) \in Nat
      OBVIOUS
    <3> QED
      BY <1>2, <3>1, LogAssumption DEF ReportProgress
  <2> QED
    BY <1>2, <2>1, WritesAre DEF ReportProgress
<1>3. CASE Take
  <2>1. Head(chan) \in Writes /\ Tail(chan) \in Seq(Writes)
    BY <1>3 DEF Take
  <2>2. PICK write \in Writes : write = Head(chan)
    BY <2>1
  <2>3. CASE write.log
    <3>1. PICK w : w = [writer EXCEPT !.logs = Append(@, write.record), !.due = TRUE]
      OBVIOUS
    <3>2. w \in WriterStates
      <4>1. Append(writer.logs, write.record) \in Seq(Records)
        BY <1>t, <2>3, WritesAre
      <4> QED
        BY <1>t, <3>1, <4>1 DEF WriterStates
    <3>3. writer' \in {Flushed(w), w}
      BY <1>3, <2>2, <2>3, <3>1 DEF Take
    <3>4. writer' \in WriterStates
      BY <3>2, <3>3, FlushedIs
    <3> QED
      BY <1>3, <2>1, <3>4 DEF Take
  <2>4. CASE ~write.log
    <3>1. writer' = [writer EXCEPT !.progress = write.progress, !.due = TRUE]
      BY <1>3, <2>2, <2>4 DEF Take
    <3>2. writer' \in WriterStates
      BY <1>t, <2>4, <3>1, WritesAre DEF WriterStates
    <3> QED
      BY <1>3, <2>1, <3>2 DEF Take
  <2> QED
    BY <2>3, <2>4
<1>4. CASE Due
  BY <1>4, FlushedIs DEF Due
<1>5. CASE IntervalPasses \/ FlushFails
  BY <1>5, <1>t, WritesAre DEF IntervalPasses, FlushFails, WriterStates
<1>6. CASE AppendLogs
  <2>1. PICK batch : batch = IF writer.batch.progress = 0 THEN NoBatch ELSE Batch("progress", <<>>, writer.batch.progress)
    OBVIOUS
  <2>2. batch \in Batches
    BY <1>t, <2>1, WritesAre DEF Batch, Batches
  <2>3. writer' = [writer EXCEPT !.batch = batch]
    BY <1>6, <1>t, <2>1 DEF AppendLogs
  <2> QED
    BY <1>6, <1>t, <2>2, <2>3 DEF AppendLogs, WriterStates
<1>7. CASE SetProgress
  BY <1>7, <1>t, WritesAre DEF SetProgress, WriterStates
<1>8. CASE Close \/ Finish \/ Reap
  BY <1>8 DEF Close, Finish, Reap
<1>9. CASE LastFlush
  <2>1. PICK batch : batch = IF writer.logs = <<>> THEN NoBatch ELSE Batch("logs", writer.logs, 0)
    OBVIOUS
  <2>2. batch \in Batches
    BY <1>t, <2>1, WritesAre DEF Batch, Batches
  <2>3. writer' = [writer EXCEPT !.done = TRUE, !.logs = <<>>, !.progress = 0, !.due = FALSE, !.batch = batch]
    BY <1>9, <2>1 DEF LastFlush
  <2> QED
    BY <1>9, <1>t, <2>2, <2>3, WritesAre DEF LastFlush, WriterStates
<1>10. CASE Crash
  BY <1>10, <1>t, WritesAre DEF Crash, WriterStates
<1> QED
  BY <1>0, <1>1, <1>2, <1>3, <1>4, <1>5, <1>6, <1>7, <1>8, <1>9, <1>10, FollowersLeave
     DEF LogNext, RecorderStep

(* Every step keeps progress within what was reported. *)
LEMMA ProgressStep ==
  ASSUME RecorderTypes, ProgressWasReported, LogNext \/ UNCHANGED logVars
  PROVE  ProgressWasReported'
<1> USE DEF ProgressWasReported
<1>t. /\ writer \in [logs : Seq(Records), progress : 0..MaxReports, due : BOOLEAN, recent : BOOLEAN,
                     batch : Batches, lost : BOOLEAN, done : BOOLEAN]
      /\ writer.batch.progress \in 0..MaxReports /\ progressed \in Nat /\ chan \in Seq(Writes)
  BY DEF RecorderTypes, WriterStates, Batches
<1>0. CASE FollowersOnly
  BY <1>0 DEF FollowersOnly, recorderVars, storeVars
<1>1. ASSUME NEW size \in Sizes, Report(size) PROVE ProgressWasReported'
  <2>1. PICK write : write = [log |-> TRUE, record |-> [n |-> Len(sent) + 1, size |-> size]]
    OBVIOUS
  <2>2. chan' = Append(chan, write) /\ write.log
    BY <1>1, <2>1 DEF Report
  <2>3. \A i \in 1..Len(chan') : ~chan'[i].log => i \in 1..Len(chan) /\ chan'[i] = chan[i]
    BY <1>t, <2>2
  <2> QED
    BY <1>1, <2>3 DEF Report, storeVars
<1>2. CASE ReportProgress
  <2>1. PICK write : write = [log |-> FALSE, progress |-> progressed + 1]
    OBVIOUS
  <2>2. chan' = Append(chan, write) /\ write.progress = progressed + 1 /\ progressed' = progressed + 1
    BY <1>2, <2>1 DEF ReportProgress
  <2>3. \A i \in 1..Len(chan') : chan'[i] = write \/ (i \in 1..Len(chan) /\ chan'[i] = chan[i])
    BY <1>t, <2>2
  <2>4. \A i \in 1..Len(chan) : ~chan[i].log => chan[i].progress \in 0..MaxReports
    <3>1. \A i \in 1..Len(chan) : chan[i] \in Writes
      BY <1>t
    <3> QED
      BY <3>1, WritesAre
  <2>5. \A i \in 1..Len(chan') : ~chan'[i].log => chan'[i].progress <= progressed'
    BY <1>t, <2>2, <2>3, <2>4
  <2>6. /\ saved' \in 0..progressed' /\ writer'.progress <= progressed'
        /\ writer'.batch.progress <= progressed'
    BY <1>2, <1>t, <2>2 DEF ReportProgress, storeVars
  <2> QED
    BY <2>5, <2>6
<1>3. CASE Take
  <2>1. /\ chan # <<>> /\ chan' = Tail(chan) /\ 1 \in 1..Len(chan)
        /\ \A i \in 1..Len(chan') : i + 1 \in 1..Len(chan) /\ chan'[i] = chan[i + 1]
    BY <1>3, <1>t DEF Take
  <2>2. writer'.progress <= progressed /\ writer'.batch.progress <= progressed
    <3>1. PICK write \in Writes : write = chan[1] /\ write = Head(chan)
      BY <1>t, <2>1
    <3>2. CASE write.log
      <4>1. PICK w : w = [writer EXCEPT !.logs = Append(@, write.record), !.due = TRUE]
        OBVIOUS
      <4>2. w \in WriterStates /\ w.progress = writer.progress /\ w.batch = writer.batch
        <5>1. Append(writer.logs, write.record) \in Seq(Records)
          BY <1>t, <3>2, WritesAre
        <5> QED
          BY <1>t, <4>1, <5>1 DEF WriterStates
      <4>3. writer' \in {Flushed(w), w}
        BY <1>3, <3>1, <3>2, <4>1 DEF Take
      <4> QED
        BY <1>t, <4>2, <4>3, FlushedIs
    <3>3. CASE ~write.log
      <4>1. writer' = [writer EXCEPT !.progress = write.progress, !.due = TRUE]
        BY <1>3, <3>1, <3>3 DEF Take
      <4>2. writer'.progress = write.progress /\ writer'.batch = writer.batch
        BY <1>t, <4>1
      <4> QED
        BY <2>1, <3>1, <3>3, <4>2
    <3> QED
      BY <3>2, <3>3
  <2> QED
    BY <1>3, <2>1, <2>2 DEF Take, storeVars
<1>4. CASE Due
  <2>1. writer \in WriterStates /\ writer' = Flushed(writer)
    BY <1>4 DEF Due, RecorderTypes
  <2>2. writer'.progress <= progressed /\ writer'.batch.progress <= progressed
    BY <1>t, <2>1, FlushedIs
  <2> QED
    BY <1>4, <2>2 DEF Due, storeVars
<1>5. CASE IntervalPasses \/ FlushFails \/ Crash
  <2>1. writer'.progress \in {0, writer.progress} /\ writer'.batch.progress \in {0, writer.batch.progress}
    <3>1. CASE IntervalPasses
      BY <3>1, <1>t DEF IntervalPasses
    <3>2. CASE FlushFails
      BY <3>2, <1>t DEF FlushFails, NoBatch, Batch
    <3>3. CASE Crash
      <4>1. writer'.progress = 0 /\ writer'.batch = NoBatch
        BY <3>3, <1>t DEF Crash
      <4> QED
        BY <4>1 DEF NoBatch, Batch
    <3> QED
      BY <1>5, <3>1, <3>2, <3>3
  <2>2. UNCHANGED <<saved, progressed>> /\ chan' \in {chan, <<>>}
    BY <1>5 DEF IntervalPasses, FlushFails, Crash, storeVars
  <2> QED
    BY <1>t, <2>1, <2>2
<1>6. CASE AppendLogs
  <2>1. PICK batch : batch = IF writer.batch.progress = 0 THEN NoBatch ELSE Batch("progress", <<>>, writer.batch.progress)
    OBVIOUS
  <2>2. writer' = [writer EXCEPT !.batch = batch] /\ batch.progress \in {0, writer.batch.progress}
    BY <1>6, <1>t, <2>1 DEF AppendLogs, NoBatch, Batch
  <2>3. writer'.progress = writer.progress /\ writer'.batch = batch
    BY <1>t, <2>2
  <2> QED
    BY <1>6, <1>t, <2>2, <2>3 DEF AppendLogs
<1>7. CASE SetProgress
  <2>1. writer'.progress = writer.progress /\ writer'.batch.progress = 0
    BY <1>7, <1>t DEF SetProgress, NoBatch, Batch
  <2> QED
    BY <1>7, <1>t, <2>1 DEF SetProgress
<1>8. CASE Close \/ Finish \/ Reap
  BY <1>8, <1>t DEF Close, Finish, Reap, storeVars
<1>9. CASE LastFlush
  <2>1. PICK batch : batch = IF writer.logs = <<>> THEN NoBatch ELSE Batch("logs", writer.logs, 0)
    OBVIOUS
  <2>2. /\ writer' = [writer EXCEPT !.done = TRUE, !.logs = <<>>, !.progress = 0, !.due = FALSE, !.batch = batch]
        /\ batch.progress = 0
    BY <1>9, <2>1 DEF LastFlush, NoBatch, Batch
  <2>3. writer'.progress = 0 /\ writer'.batch = batch
    BY <1>t, <2>2
  <2> QED
    BY <1>9, <1>t, <2>2, <2>3 DEF LastFlush, storeVars
<1> QED
  BY <1>0, <1>1, <1>2, <1>3, <1>4, <1>5, <1>6, <1>7, <1>8, <1>9, FollowersLeave
     DEF LogNext, RecorderStep

(* Every step keeps what each stage of a job leaves behind it. *)
LEMMA StagesStep ==
  ASSUME RecorderTypes, Stages, LogNext \/ UNCHANGED logVars
  PROVE  Stages'
<1> USE DEF Stages
<1>t. /\ writer \in [logs : Seq(Records), progress : 0..MaxReports, due : BOOLEAN, recent : BOOLEAN,
                     batch : Batches, lost : BOOLEAN, done : BOOLEAN]
      /\ writer.batch \in [stage : {"idle", "logs", "progress"}, logs : Seq(Records), progress : 0..MaxReports]
      /\ runs \in {"on", "closing", "over", "dead"} /\ row \in {"running", "ended", "reaped"}
      /\ chan \in Seq(Writes) /\ writer \in WriterStates
  BY DEF RecorderTypes, WriterStates, Batches
<1>n. NoBatch.stage = "idle" /\ NoBatch.logs = <<>>
  BY DEF NoBatch, Batch
<1>0. CASE FollowersOnly
  BY <1>0 DEF FollowersOnly, recorderVars
<1>1. CASE ReportProgress \/ \E size \in Sizes : Report(size)
  BY <1>1 DEF Report, ReportProgress
<1>2. CASE Take
  <2>1. PICK write \in Writes : write = Head(chan)
    BY <1>2, <1>t DEF Take
  <2>2. ~writer.done /\ runs # "dead" /\ runs # "over" /\ row # "ended" /\ writer.batch = NoBatch
    BY <1>2 DEF Take, Writing
  <2>3. /\ ~writer'.done /\ (writer'.batch.stage # "logs" => writer'.batch.logs = <<>>)
        /\ (writer'.batch.stage = "idle" => writer'.batch = NoBatch)
    <3>1. CASE write.log
      <4>1. PICK w : w = [writer EXCEPT !.logs = Append(@, write.record), !.due = TRUE]
        OBVIOUS
      <4>2. w \in WriterStates /\ w.done = writer.done /\ w.batch = writer.batch
        <5>1. Append(writer.logs, write.record) \in Seq(Records)
          BY <1>t, <3>1, WritesAre
        <5> QED
          BY <1>t, <4>1, <5>1 DEF WriterStates
      <4>3. writer' \in {Flushed(w), w}
        BY <1>2, <2>1, <3>1, <4>1 DEF Take
      <4>4. CASE writer' = w
        BY <1>n, <2>2, <4>2, <4>4
      <4>5. CASE writer' = Flushed(w)
        <5>1. PICK f : f = Flushed(w)
          OBVIOUS
        <5>2. f.done = w.done /\ f.batch.stage \in {"idle", "logs"} /\ (f.batch.stage = "idle" => f.batch = NoBatch)
          BY <4>2, <5>1, FlushedIs
        <5> QED
          BY <1>n, <2>2, <4>2, <4>5, <5>1, <5>2
      <4> QED
        BY <4>3, <4>4, <4>5
    <3>2. CASE ~write.log
      <4>1. writer' = [writer EXCEPT !.progress = write.progress, !.due = TRUE]
        BY <1>2, <2>1, <3>2 DEF Take
      <4>2. writer'.done = writer.done /\ writer'.batch = writer.batch
        BY <1>t, <4>1
      <4> QED
        BY <1>n, <2>2, <4>2
    <3> QED
      BY <3>1, <3>2
  <2> QED
    BY <1>2, <2>2, <2>3 DEF Take
<1>3. CASE Due
  <2>1. ~writer.done /\ runs # "dead" /\ runs # "over" /\ row # "ended" /\ writer.batch = NoBatch
    BY <1>3 DEF Due, Writing
  <2>2. PICK f : f = Flushed(writer)
    OBVIOUS
  <2>3. f.done = writer.done /\ f.batch.stage \in {"idle", "logs"} /\ (f.batch.stage = "idle" => f.batch = NoBatch)
    BY <1>t, <2>2, FlushedIs
  <2> QED
    BY <1>3, <1>n, <2>1, <2>2, <2>3 DEF Due
<1>4. CASE IntervalPasses
  <2>1. /\ writer'.logs = writer.logs /\ writer'.batch = writer.batch /\ writer'.done = writer.done
    BY <1>4, <1>t DEF IntervalPasses
  <2> QED
    BY <1>4, <2>1 DEF IntervalPasses
<1>5. CASE FlushFails \/ SetProgress
  <2>1. writer'.logs = writer.logs /\ writer'.batch = NoBatch /\ writer'.done = writer.done
    BY <1>5, <1>t DEF FlushFails, SetProgress
  <2> QED
    BY <1>5, <1>n, <2>1 DEF FlushFails, SetProgress
<1>6. CASE AppendLogs
  <2>1. PICK batch : batch = IF writer.batch.progress = 0 THEN NoBatch ELSE Batch("progress", <<>>, writer.batch.progress)
    OBVIOUS
  <2>2. writer'.logs = writer.logs /\ writer'.batch = batch /\ writer'.done = writer.done
    BY <1>6, <1>t, <2>1 DEF AppendLogs
  <2>3. batch.logs = <<>> /\ (batch.stage = "idle" => batch = NoBatch)
    BY <1>n, <2>1 DEF Batch
  <2>4. runs # "dead" /\ writer.batch # NoBatch
    BY <1>6, <1>n DEF AppendLogs
  <2> QED
    BY <1>6, <2>2, <2>3, <2>4 DEF AppendLogs
<1>7. CASE Close \/ Finish \/ Reap
  BY <1>7 DEF Close, Finish, Reap, WriterStopped
<1>8. CASE LastFlush
  <2>1. PICK batch : batch = IF writer.logs = <<>> THEN NoBatch ELSE Batch("logs", writer.logs, 0)
    OBVIOUS
  <2>2. writer' = [writer EXCEPT !.done = TRUE, !.logs = <<>>, !.progress = 0, !.due = FALSE, !.batch = batch]
    BY <1>8, <2>1 DEF LastFlush
  <2>3. writer'.logs = <<>> /\ writer'.batch = batch /\ writer'.done
    BY <1>t, <2>2
  <2>4. /\ (batch.stage # "logs" => batch.logs = <<>>) /\ (batch.stage = "idle" => batch = NoBatch)
    BY <1>n, <2>1 DEF Batch
  <2> QED
    BY <1>8, <2>3, <2>4 DEF LastFlush, Writing
<1>9. CASE Crash
  <2>1. writer'.logs = <<>> /\ writer'.batch = NoBatch
    BY <1>9, <1>t DEF Crash
  <2> QED
    BY <1>9, <1>n, <2>1 DEF Crash
<1> QED
  BY <1>0, <1>1, <1>2, <1>3, <1>4, <1>5, <1>6, <1>7, <1>8, <1>9, FollowersLeave
     DEF LogNext, RecorderStep

-----------------------------------------------------------------------------
(* The flow of records *)

(* A log holds no more records than entries: a truncated one ends in a note. *)
LEMMA HeldWithin ==
  ASSUME NEW s, Len(s.log) \in Nat
  PROVE  Held(s) \in Int /\ Held(s) <= Len(s.log)
<1>1. CASE s.usage.truncated
  <2>1. Held(s) = Len(s.log) - 1
    BY <1>1 DEF Held
  <2> QED
    BY <2>1
<1>2. CASE ~ s.usage.truncated
  <2>1. Held(s) = Len(s.log) - 0
    BY <1>2 DEF Held
  <2> QED
    BY <2>1
<1> QED
  BY <1>1, <1>2

LEMMA FlowsReported ==
  ASSUME NEW ch \in Seq(Writes), NEW sq \in Seq(Records), NEW logs \in Seq(Records), NEW batch \in Seq(Records),
         NEW s \in StoreStates, NEW lost, NEW alive, Flows(ch, sq, logs, batch, s, lost, alive),
         NEW r \in Records, NEW ch2, NEW sq2, ch2 = Append(ch, [log |-> TRUE, record |-> r]), sq2 = Append(sq, r)
  PROVE  Flows(ch2, sq2, logs, batch, s, lost, alive)
<1>1. PICK n \in Nat, m \in Nat : n = Len(ch) /\ m = Len(sq)
  OBVIOUS
<1>2. PICK c \in [0..n -> 0..m] :
        /\ Through(ch, sq, c) /\ Waiting(sq, c[0], logs, batch)
        /\ Tells(s, c[0] - Len(logs) - Len(batch), sq, lost, alive)
  BY <1>1 DEF Flows
<1>3. PICK write : write = [log |-> TRUE, record |-> r]
  OBVIOUS
<1>4. /\ Len(ch2) = n + 1 /\ ch2[n + 1] = write /\ \A i \in 1..n : ch2[i] = ch[i]
      /\ Len(sq2) = m + 1 /\ sq2[m + 1] = r /\ \A i \in 1..m : sq2[i] = sq[i]
  <2>1. write \in Writes
    BY <1>3, WritesAre
  <2> QED
    BY <1>1, <1>3, <2>1
<1>5. PICK d : d = [k \in 0..(n + 1) |-> IF k <= n THEN c[k] ELSE m + 1]
  OBVIOUS
<1>6. d \in [0..(n + 1) -> 0..(m + 1)]
  <2>1. ASSUME NEW k \in 0..(n + 1) PROVE d[k] \in 0..(m + 1)
    <3>1. CASE k <= n
      <4>1. k \in 0..n /\ c[k] \in 0..m /\ d[k] = c[k]
        BY <1>5, <3>1
      <4> QED
        BY <4>1
    <3>2. CASE ~ (k <= n)
      BY <1>5, <3>2
    <3> QED
      BY <3>1, <3>2
  <2> QED
    BY <1>5, <2>1
<1>7. \A k \in 0..n : d[k] = c[k] /\ c[k] \in 0..m
  BY <1>5
<1>8. d[n + 1] = m + 1 /\ c[n] = m
  BY <1>1, <1>2, <1>5 DEF Through
<1>9. Through(ch2, sq2, d)
  <2>1. ASSUME NEW i \in 1..(n + 1)
        PROVE  IF ch2[i].log THEN d[i] = d[i - 1] + 1 /\ ch2[i].record = sq2[d[i]] ELSE d[i] = d[i - 1]
    <3>1. CASE i = n + 1
      <4>1. d[i - 1] = m
        BY <1>7, <1>8, <3>1
      <4> QED
        BY <1>3, <1>4, <1>8, <3>1, <4>1
    <3>2. CASE i # n + 1
      <4>1. i \in 1..n /\ i \in 0..n /\ i - 1 \in 0..n
        BY <3>2
      <4>2. IF ch[i].log THEN c[i] = c[i - 1] + 1 /\ ch[i].record = sq[c[i]] ELSE c[i] = c[i - 1]
        BY <1>1, <1>2, <4>1 DEF Through
      <4>3. d[i] = c[i] /\ d[i - 1] = c[i - 1] /\ ch2[i] = ch[i] /\ c[i] \in 0..m /\ c[i - 1] \in 0..m
        BY <1>4, <1>7, <4>1
      <4>4. c[i] = c[i - 1] + 1 => sq2[c[i]] = sq[c[i]]
        BY <1>4, <4>3
      <4> QED
        BY <4>2, <4>3, <4>4
    <3> QED
      BY <3>1, <3>2
  <2> QED
    BY <1>4, <1>8, <2>1 DEF Through
<1>10. /\ Len(logs) \in Nat /\ Len(batch) \in Nat /\ d[0] = c[0] /\ c[0] \in 0..m /\ Len(logs) + Len(batch) <= c[0]
  <2>1. 0 \in 0..n
    OBVIOUS
  <2> QED
    BY <1>2, <1>7, <2>1 DEF Waiting
<1>11. Waiting(sq2, d[0], logs, batch)
  <2>1. \A i \in 1..Len(logs) : (c[0] - Len(logs)) + i \in 1..m
    BY <1>10
  <2>2. \A i \in 1..Len(batch) : (c[0] - Len(logs) - Len(batch)) + i \in 1..m
    BY <1>10
  <2> QED
    BY <1>2, <1>4, <1>10, <2>1, <2>2 DEF Waiting
<1>12. Tells(s, d[0] - Len(logs) - Len(batch), sq2, lost, alive)
  <2>1. Len(s.log) \in Nat /\ Len(s.log) <= c[0] - Len(logs) - Len(batch)
    BY <1>2 DEF Tells, StoreStates
  <2>2. Held(s) \in Int /\ Held(s) <= Len(s.log)
    BY <2>1, HeldWithin
  <2>3. c[0] \in Nat /\ c[0] <= m
    BY <1>10
  <2>4. Held(s) <= m
    BY <1>10, <2>1, <2>2, <2>3
  <2>5. \A i \in 1..Held(s) : i \in 1..m
    BY <2>2, <2>4
  <2>6. \A i \in 1..Held(s) : sq2[i] = sq[i]
    BY <1>4, <2>5
  <2> QED
    BY <1>2, <1>10, <2>1, <2>6 DEF Tells
<1>13. Len(ch2) = n + 1 /\ Len(sq2) = m + 1
  BY <1>4
<1> QED
  BY <1>6, <1>9, <1>11, <1>12, <1>13 DEF Flows

(* Progress sent between records changes nothing for the records. *)
LEMMA FlowsNoted ==
  ASSUME NEW ch \in Seq(Writes), NEW sq \in Seq(Records), NEW logs \in Seq(Records), NEW batch \in Seq(Records),
         NEW s, NEW lost, NEW alive, Flows(ch, sq, logs, batch, s, lost, alive),
         NEW write \in Writes, ~write.log, NEW ch2, ch2 = Append(ch, write)
  PROVE  Flows(ch2, sq, logs, batch, s, lost, alive)
<1>1. PICK n \in Nat, m \in Nat : n = Len(ch) /\ m = Len(sq)
  OBVIOUS
<1>2. PICK c \in [0..n -> 0..m] :
        /\ Through(ch, sq, c) /\ Waiting(sq, c[0], logs, batch)
        /\ Tells(s, c[0] - Len(logs) - Len(batch), sq, lost, alive)
  BY <1>1 DEF Flows
<1>3. Len(ch2) = n + 1 /\ ch2[n + 1] = write /\ \A i \in 1..n : ch2[i] = ch[i]
  BY <1>1
<1>4. PICK d : d = [k \in 0..(n + 1) |-> IF k <= n THEN c[k] ELSE m]
  OBVIOUS
<1>5. /\ d \in [0..(n + 1) -> 0..m] /\ d[n + 1] = m /\ c[n] = m /\ d[0] = c[0]
      /\ \A k \in 0..n : d[k] = c[k]
  <2>1. c[n] = m
    BY <1>1, <1>2 DEF Through
  <2>2. ASSUME NEW k \in 0..(n + 1) PROVE d[k] \in 0..m /\ (k \in 0..n => d[k] = c[k])
    <3>1. CASE k <= n
      <4>1. k \in 0..n /\ c[k] \in 0..m /\ d[k] = c[k]
        BY <1>4, <3>1
      <4> QED
        BY <4>1
    <3>2. CASE ~ (k <= n)
      BY <1>4, <3>2
    <3> QED
      BY <3>1, <3>2
  <2>3. 0 \in 0..n /\ \A k \in 0..n : k \in 0..(n + 1)
    OBVIOUS
  <2> QED
    BY <1>4, <2>1, <2>2, <2>3
<1>6. Through(ch2, sq, d)
  <2>1. ASSUME NEW i \in 1..(n + 1)
        PROVE  IF ch2[i].log THEN d[i] = d[i - 1] + 1 /\ ch2[i].record = sq[d[i]] ELSE d[i] = d[i - 1]
    <3>1. CASE i = n + 1
      <4>1. n \in 0..n /\ i - 1 = n
        BY <3>1
      <4> QED
        BY <1>3, <1>5, <3>1, <4>1
    <3>2. CASE i # n + 1
      <4>1. i \in 1..n /\ i \in 0..n /\ i - 1 \in 0..n
        BY <3>2
      <4>2. IF ch[i].log THEN c[i] = c[i - 1] + 1 /\ ch[i].record = sq[c[i]] ELSE c[i] = c[i - 1]
        BY <1>1, <1>2, <4>1 DEF Through
      <4> QED
        BY <1>3, <1>5, <4>1, <4>2
    <3> QED
      BY <3>1, <3>2
  <2> QED
    BY <1>1, <1>3, <1>5, <2>1 DEF Through
<1> QED
  BY <1>1, <1>2, <1>3, <1>5, <1>6 DEF Flows

(* The writer takes the first write. *)
LEMMA FlowsTaken ==
  ASSUME NEW ch \in Seq(Writes), NEW sq \in Seq(Records), NEW logs \in Seq(Records), NEW batch \in Seq(Records),
         NEW s, NEW lost, NEW alive, Flows(ch, sq, logs, batch, s, lost, alive),
         ch # <<>>, NEW write, write = ch[1], NEW rest, rest = Tail(ch),
         NEW taken, taken = IF write.log THEN Append(logs, write.record) ELSE logs
  PROVE  Flows(rest, sq, taken, batch, s, lost, alive)
<1>1. PICK n \in Nat, m \in Nat : n = Len(ch) /\ m = Len(sq) /\ 1 \in 1..n /\ n - 1 \in Nat
  OBVIOUS
<1>2. PICK c \in [0..n -> 0..m] :
        /\ Through(ch, sq, c) /\ Waiting(sq, c[0], logs, batch)
        /\ Tells(s, c[0] - Len(logs) - Len(batch), sq, lost, alive)
  BY <1>1 DEF Flows
<1>3. Len(rest) = n - 1 /\ \A i \in 1..(n - 1) : i + 1 \in 1..n /\ rest[i] = ch[i + 1]
  BY <1>1
<1>4. PICK d : d = [k \in 0..(n - 1) |-> c[k + 1]]
  OBVIOUS
<1>5. d \in [0..(n - 1) -> 0..m] /\ \A k \in 0..(n - 1) : d[k] = c[k + 1]
  <2>1. \A k \in 0..(n - 1) : k + 1 \in 0..n
    BY <1>1
  <2> QED
    BY <1>4, <2>1
<1>6. Through(rest, sq, d)
  <2>1. d[n - 1] = m
    <3>1. n - 1 \in 0..(n - 1) /\ (n - 1) + 1 = n
      BY <1>1
    <3> QED
      BY <1>1, <1>2, <1>5, <3>1 DEF Through
  <2>2. ASSUME NEW i \in 1..(n - 1)
        PROVE  IF rest[i].log THEN d[i] = d[i - 1] + 1 /\ rest[i].record = sq[d[i]] ELSE d[i] = d[i - 1]
    <3>1. i + 1 \in 1..n /\ i \in 0..(n - 1) /\ i - 1 \in 0..(n - 1) /\ (i + 1) - 1 = i /\ (i - 1) + 1 = i
      BY <1>1
    <3>2. IF ch[i + 1].log THEN c[i + 1] = c[(i + 1) - 1] + 1 /\ ch[i + 1].record = sq[c[i + 1]]
          ELSE c[i + 1] = c[(i + 1) - 1]
      BY <1>1, <1>2, <3>1 DEF Through
    <3> QED
      BY <1>3, <1>5, <3>1, <3>2
  <2> QED
    BY <1>1, <1>3, <2>1, <2>2 DEF Through
<1>7. IF write.log THEN c[1] = c[0] + 1 /\ write.record = sq[c[1]] ELSE c[1] = c[0]
  <2>1. IF ch[1].log THEN c[1] = c[1 - 1] + 1 /\ ch[1].record = sq[c[1]] ELSE c[1] = c[1 - 1]
    BY <1>1, <1>2 DEF Through
  <2> QED
    BY <2>1
<1>8. d[0] = c[1] /\ c[0] \in 0..m
  <2>1. 0 \in 0..(n - 1) /\ 0 \in 0..n
    BY <1>1
  <2> QED
    BY <1>5, <2>1
<1>9. PICK a \in Nat, b \in Nat : a = Len(logs) /\ b = Len(batch)
  OBVIOUS
<1>10. Waiting(sq, d[0], taken, batch) /\ d[0] - Len(taken) - Len(batch) = c[0] - Len(logs) - Len(batch)
  <2>1. CASE ~write.log
    BY <1>2, <1>7, <1>8, <2>1
  <2>2. CASE write.log
    <3>1. write.record \in Records
      <4>1. write \in Writes
        BY <1>1
      <4> QED
        BY <2>2, <4>1, WritesAre
    <3>2. Len(taken) = a + 1 /\ taken[a + 1] = write.record /\ \A i \in 1..a : taken[i] = logs[i]
      BY <1>9, <2>2, <3>1
    <3>3. PICK k \in Nat : k = c[0] /\ d[0] = k + 1
      BY <1>7, <1>8, <2>2
    <3>4. /\ a + b <= k /\ write.record = sq[k + 1]
          /\ \A i \in 1..a : logs[i] = sq[(k - a) + i]
          /\ \A i \in 1..b : batch[i] = sq[(k - a - b) + i]
      BY <1>2, <1>7, <1>8, <1>9, <2>2, <3>3 DEF Waiting
    <3>5. (k + 1) - (a + 1) = k - a /\ (k + 1) - (a + 1) - b = k - a - b /\ (k - a) + (a + 1) = k + 1
      OBVIOUS
    <3>6. \A i \in 1..(a + 1) : taken[i] = sq[((k + 1) - (a + 1)) + i]
      <4> TAKE i \in 1..(a + 1)
      <4>1. i = a + 1 \/ i \in 1..a
        OBVIOUS
      <4> QED
        BY <3>2, <3>4, <3>5, <4>1
    <3>7. (a + 1) + b <= k + 1
      BY <3>4
    <3>8. \A i \in 1..b : batch[i] = sq[((k + 1) - (a + 1) - b) + i]
      BY <3>4, <3>5
    <3>9. Waiting(sq, k + 1, taken, batch)
      <4>1. PICK x \in Nat, y \in Nat : x = k + 1 /\ y = a + 1
        OBVIOUS
      <4>2. Len(taken) = y /\ Len(batch) = b
        BY <1>9, <3>2, <4>1
      <4>3. /\ y + b <= x /\ (\A i \in 1..y : taken[i] = sq[(x - y) + i])
            /\ \A i \in 1..b : batch[i] = sq[(x - y - b) + i]
        BY <3>6, <3>7, <3>8, <4>1
      <4>4. Waiting(sq, x, taken, batch)
        BY <4>2, <4>3 DEF Waiting
      <4> QED
        BY <4>1, <4>4
    <3> QED
      BY <1>9, <3>2, <3>3, <3>5, <3>9
  <2> QED
    BY <2>1, <2>2
<1> QED
  BY <1>1, <1>2, <1>3, <1>5, <1>6, <1>10 DEF Flows

(* The writer begins to write what it took. *)
LEMMA FlowsFlushed ==
  ASSUME NEW ch \in Seq(Writes), NEW sq \in Seq(Records), NEW logs \in Seq(Records), NEW batch \in Seq(Records), batch = <<>>,
         NEW s, NEW lost, NEW alive, Flows(ch, sq, logs, batch, s, lost, alive)
  PROVE  Flows(ch, sq, batch, logs, s, lost, alive)
<1>1. PICK c \in [0..Len(ch) -> 0..Len(sq)] :
        /\ Through(ch, sq, c) /\ Waiting(sq, c[0], logs, batch)
        /\ Tells(s, c[0] - Len(logs) - Len(batch), sq, lost, alive)
  BY DEF Flows
<1>2. PICK k \in 0..Len(sq) : k = c[0]
  <2>1. 0 \in 0..Len(ch)
    OBVIOUS
  <2> QED
    BY <2>1
<1>3. PICK a \in Nat : a = Len(logs) /\ Len(batch) = 0
  OBVIOUS
<1>4. k \in Nat /\ a <= k /\ \A i \in 1..a : logs[i] = sq[(k - a) + i]
  BY <1>1, <1>2, <1>3 DEF Waiting
<1>5. Waiting(sq, k, batch, logs) /\ k - Len(batch) - Len(logs) = k - Len(logs) - Len(batch)
  BY <1>3, <1>4 DEF Waiting
<1> QED
  BY <1>1, <1>2, <1>5 DEF Flows

(* What was written has passed, stored or lost. *)
LEMMA FlowsWritten ==
  ASSUME NEW ch \in Seq(Writes), NEW sq \in Seq(Records), NEW logs \in Seq(Records), NEW batch \in Seq(Records),
         NEW s \in StoreStates, Sound(s), NEW lost, NEW alive, Flows(ch, sq, logs, batch, s, lost, alive),
         NEW last, last = FoldLeft(Appended, s, batch)
  PROVE  /\ Flows(ch, sq, logs, <<>>, s, TRUE, alive)
         /\ alive = TRUE => /\ Flows(ch, sq, logs, <<>>, last, lost, alive)
                            /\ last \in StoreStates /\ Sound(last) /\ Grows(s.log, last.log)
<1>1. PICK c \in [0..Len(ch) -> 0..Len(sq)] :
        /\ Through(ch, sq, c) /\ Waiting(sq, c[0], logs, batch)
        /\ Tells(s, c[0] - Len(logs) - Len(batch), sq, lost, alive)
  BY DEF Flows
<1>2. PICK k \in 0..Len(sq) : k = c[0]
  <2>1. 0 \in 0..Len(ch)
    OBVIOUS
  <2> QED
    BY <2>1
<1>3. PICK a \in Nat, b \in Nat : a = Len(logs) /\ b = Len(batch)
  OBVIOUS
<1>4. /\ k \in Nat /\ a + b <= k /\ (\A i \in 1..a : logs[i] = sq[(k - a) + i])
      /\ \A i \in 1..b : batch[i] = sq[(k - a - b) + i]
  BY <1>1, <1>2, <1>3 DEF Waiting
<1>5. PICK p \in Nat : p = k - a - b /\ p + b = k - a
  BY <1>4
<1>6. PICK none : none = <<>> /\ Len(none) = 0
  OBVIOUS
<1>7. Waiting(sq, k, logs, none) /\ k - a - Len(none) = p + b
  BY <1>3, <1>4, <1>5, <1>6 DEF Waiting
<1>8. Tells(s, p, sq, lost, alive)
  BY <1>1, <1>2, <1>3, <1>5
<1>9. Tells(s, p + b, sq, TRUE, alive)
  <2>1. Len(s.log) \in Nat
    BY DEF StoreStates
  <2> QED
    BY <1>8, <2>1 DEF Tells
<1>10. Flows(ch, sq, logs, none, s, TRUE, alive)
  BY <1>1, <1>2, <1>3, <1>7, <1>9 DEF Flows
<1>11. ASSUME alive = TRUE
       PROVE  /\ Flows(ch, sq, logs, none, last, lost, alive)
              /\ last \in StoreStates /\ Sound(last) /\ Grows(s.log, last.log)
  <2>1. Tells(s, p, sq, lost, TRUE) /\ \A i \in 1..Len(batch) : batch[i] = sq[p + i]
    BY <1>3, <1>4, <1>5, <1>8, <1>11
  <2>2. /\ last \in StoreStates /\ Sound(last) /\ Grows(s.log, last.log)
        /\ Tells(last, p + Len(batch), sq, lost, TRUE)
    BY <2>1, BatchGrows
  <2>3. Tells(last, p + b, sq, lost, alive)
    BY <1>3, <1>11, <2>2
  <2>4. Flows(ch, sq, logs, none, last, lost, alive)
    BY <1>1, <1>2, <1>3, <1>7, <2>3 DEF Flows
  <2> QED
    BY <2>2, <2>4
<1> QED
  BY <1>6, <1>10, <1>11

(* An engine that dies has sent what it sent. *)
LEMMA FlowsEnded ==
  ASSUME NEW ch \in Seq(Writes), NEW sq \in Seq(Records), NEW logs \in Seq(Records), NEW batch \in Seq(Records),
         NEW s \in StoreStates, NEW lost, NEW alive, Flows(ch, sq, logs, batch, s, lost, alive)
  PROVE  Flows(<<>>, sq, <<>>, <<>>, s, lost, FALSE)
<1>1. PICK c \in [0..Len(ch) -> 0..Len(sq)] :
        /\ Through(ch, sq, c) /\ Waiting(sq, c[0], logs, batch)
        /\ Tells(s, c[0] - Len(logs) - Len(batch), sq, lost, alive)
  BY DEF Flows
<1>2. PICK k \in 0..Len(sq) : k = c[0]
  <2>1. 0 \in 0..Len(ch)
    OBVIOUS
  <2> QED
    BY <2>1
<1>3. PICK m \in Nat : m = Len(sq)
  OBVIOUS
<1>4. PICK none : none = <<>> /\ Len(none) = 0
  OBVIOUS
<1>5. PICK d : d = [i \in 0..0 |-> m]
  OBVIOUS
<1>6. d \in [0..0 -> 0..m] /\ d[0] = m
  BY <1>5
<1>7. Through(none, sq, d) /\ Waiting(sq, m, none, none)
  BY <1>3, <1>4, <1>6 DEF Through, Waiting
<1>8. Tells(s, m, sq, lost, FALSE)
  <2>1. Len(s.log) \in Nat /\ Len(logs) \in Nat /\ Len(batch) \in Nat
    BY DEF StoreStates
  <2> QED
    BY <1>1, <1>2, <1>3, <2>1 DEF Tells
<1>9. m - Len(none) - Len(none) = m
  BY <1>4
<1>10. Flows(none, sq, none, none, s, lost, FALSE)
  BY <1>3, <1>4, <1>6, <1>7, <1>8, <1>9 DEF Flows
<1> QED
  BY <1>4, <1>10

PipelineInv == RecorderTypes /\ Stages /\ Stored \in StoreStates /\ Sound(Stored) /\ Pipeline

(* Every step keeps the records in the order they were sent, wherever they are:
   in the channel, at the writer, in the batch or in the log; the log only
   grows, and no more after its job ended. *)
LEMMA PipelineStep ==
  ASSUME PipelineInv, RecorderTypes', LogNext \/ UNCHANGED logVars
  PROVE  /\ Stored' \in StoreStates /\ Sound(Stored') /\ Pipeline'
         /\ Grows(log, log') /\ (row = "ended" => log' = log)
<1> USE DEF PipelineInv
<1>t. /\ writer \in [logs : Seq(Records), progress : 0..MaxReports, due : BOOLEAN, recent : BOOLEAN,
                     batch : Batches, lost : BOOLEAN, done : BOOLEAN]
      /\ writer.batch \in [stage : {"idle", "logs", "progress"}, logs : Seq(Records), progress : 0..MaxReports]
      /\ writer.logs \in Seq(Records) /\ writer.batch.logs \in Seq(Records) /\ sent \in Seq(Records)
      /\ chan \in Seq(Writes) /\ writer \in WriterStates /\ Stored.log = log /\ log \in Seq(Lines)
  BY DEF RecorderTypes, WriterStates, Batches, Stored, StoreStates
<1>n. NoBatch.stage = "idle" /\ NoBatch.logs = <<>>
  BY DEF NoBatch, Batch
<1>g. Grows(log, log)
  BY <1>t DEF Grows
<1> DEFINE FlowsOn == Flows(chan', sent', writer'.logs, writer'.batch.logs, Stored', writer'.lost, runs' # "dead")
<1>v. Stored \in StoreStates /\ Sound(Stored)
  OBVIOUS
<1>ch. PICK ch \in Seq(Writes) : ch = chan
  BY <1>t
<1>sq. PICK sq \in Seq(Records) : sq = sent
  BY <1>t
<1>lo. PICK logs \in Seq(Records) : logs = writer.logs
  BY <1>t
<1>ba. PICK batched \in Seq(Records) : batched = writer.batch.logs
  BY <1>t
<1>st. PICK s \in StoreStates : s = Stored /\ Sound(s)
  BY <1>v
<1>ls. PICK lost : lost = writer.lost
  OBVIOUS
<1>al. PICK alive \in BOOLEAN : alive = (runs # "dead")
  OBVIOUS
<1>r. Flows(ch, sq, logs, batched, s, lost, alive)
  BY <1>ch, <1>sq, <1>lo, <1>ba, <1>st, <1>ls, <1>al DEF Pipeline
<1>e. /\ ch = chan /\ sq = sent /\ logs = writer.logs /\ batched = writer.batch.logs /\ s = Stored
      /\ lost = writer.lost /\ alive = (runs # "dead")
  BY <1>ch, <1>sq, <1>lo, <1>ba, <1>st, <1>ls, <1>al
<1>f. Flows(chan, sent, writer.logs, writer.batch.logs, Stored, writer.lost, runs # "dead")
  BY DEF Pipeline
<1> SUFFICES /\ Stored' \in StoreStates /\ Sound(Stored') /\ FlowsOn
             /\ Grows(log, log') /\ (row = "ended" => log' = log)
  BY DEF Pipeline
<1>s. ASSUME UNCHANGED <<log, usage>>
      PROVE  Stored' = Stored /\ Stored' \in StoreStates /\ Sound(Stored') /\ Grows(log, log') /\ log' = log
  <2>1. Stored' = Stored
    BY <1>s DEF Stored
  <2> QED
    BY <1>s, <1>g, <2>1
<1> HIDE DEF PipelineInv
<1>0. CASE FollowersOnly
  <2>1. UNCHANGED <<runs, sent, chan, writer, log, usage>>
    BY <1>0 DEF FollowersOnly, recorderVars, storeVars
  <2> QED
    BY <1>f, <1>s, <2>1
<1>1. ASSUME NEW size \in Sizes, Report(size) PROVE FlowsOn /\ UNCHANGED <<log, usage>>
  <2>1. PICK record : record = [n |-> Len(sent) + 1, size |-> size]
    OBVIOUS
  <2>2. sent' = Append(sent, record) /\ chan' = Append(chan, [log |-> TRUE, record |-> record])
    BY <1>1, <2>1 DEF Report
  <2>3. record \in Records
    <3>1. sent'[Len(sent) + 1] = record /\ Len(sent) + 1 \in 1..Len(sent') /\ sent' \in Seq(Records)
      BY <1>t, <2>2 DEF RecorderTypes
    <3> QED
      BY <3>1
  <2>4. UNCHANGED <<runs, writer, log, usage>>
    BY <1>1 DEF Report, storeVars
  <2>a. PICK ch2, sq2 : ch2 = chan' /\ sq2 = sent'
    OBVIOUS
  <2>b. ch2 = Append(ch, [log |-> TRUE, record |-> record]) /\ sq2 = Append(sq, record)
    BY <1>e, <2>2, <2>a
  <2>c. Flows(ch2, sq2, logs, batched, s, lost, alive)
    BY <1>r, <2>3, <2>b, FlowsReported
  <2>5. Flows(chan', sent', writer.logs, writer.batch.logs, Stored, writer.lost, runs # "dead")
    BY <1>e, <2>a, <2>c
  <2> QED
    BY <1>s, <2>4, <2>5
<1>2. CASE ReportProgress
  <2>1. PICK write : write = [log |-> FALSE, progress |-> progressed + 1]
    OBVIOUS
  <2>2. write \in Writes /\ ~write.log
    <3>1. progressed + 1 \in 0..MaxReports
      BY <1>2 DEF ReportProgress, RecorderTypes
    <3> QED
      BY <2>1, <3>1, WritesAre
  <2>3. chan' = Append(chan, write) /\ UNCHANGED <<runs, sent, writer, log, usage>>
    BY <1>2, <2>1 DEF ReportProgress, storeVars
  <2>4. Flows(chan', sent, writer.logs, writer.batch.logs, Stored, writer.lost, runs # "dead")
    BY <1>f, <1>t, <2>2, <2>3, FlowsNoted
  <2> QED
    BY <1>s, <2>3, <2>4
<1>3. CASE Take
  <2>1. /\ chan # <<>> /\ chan' = Tail(chan) /\ UNCHANGED <<runs, sent, log, usage>>
        /\ writer.batch.logs = <<>> /\ writer.batch = NoBatch
    BY <1>3, <1>n DEF Take, storeVars, Writing, Stages, PipelineInv
  <2>2. PICK write \in Writes : write = Head(chan) /\ write = chan[1]
    BY <1>t, <2>1
  <2>3. PICK taken : taken = IF write.log THEN Append(writer.logs, write.record) ELSE writer.logs
    OBVIOUS
  <2>4. Flows(chan', sent, taken, writer.batch.logs, Stored, writer.lost, runs # "dead")
    <3>1. PICK rest : rest = chan'
      OBVIOUS
    <3>2. ch # <<>> /\ write = ch[1] /\ rest = Tail(ch) /\ taken = IF write.log THEN Append(logs, write.record) ELSE logs
      BY <1>e, <2>1, <2>2, <2>3, <3>1
    <3>3. Flows(rest, sq, taken, batched, s, lost, alive)
      BY <1>r, <3>2, FlowsTaken
    <3> QED
      BY <1>e, <3>1, <3>3
  <2>5. CASE write.log
    <3>1. PICK w : w = [writer EXCEPT !.logs = Append(@, write.record), !.due = TRUE]
      OBVIOUS
    <3>2. w.logs = taken /\ taken \in Seq(Records) /\ w.batch = writer.batch /\ w.lost = writer.lost /\ w \in WriterStates
      <4>1. Append(writer.logs, write.record) \in Seq(Records)
        BY <1>t, <2>5, WritesAre
      <4>2. taken = Append(writer.logs, write.record)
        BY <2>3, <2>5
      <4> QED
        BY <1>t, <3>1, <4>1, <4>2 DEF WriterStates
    <3>3. writer' \in {Flushed(w), w}
      BY <1>3, <2>2, <2>5, <3>1 DEF Take
    <3>4. CASE writer' = w
      BY <1>s, <2>1, <2>4, <3>2, <3>4
    <3>5. CASE writer' = Flushed(w)
      <4>1. Flows(chan', sent, writer.batch.logs, taken, Stored, writer.lost, runs # "dead")
        <5>1. chan' \in Seq(Writes)
          BY DEF RecorderTypes
        <5> QED
          BY <1>t, <2>1, <2>4, <3>2, <5>1, FlowsFlushed
      <4>2. writer'.logs = writer.batch.logs /\ writer'.batch.logs = taken /\ writer'.lost = writer.lost
        BY <2>1, <3>2, <3>5, FlushedIs
      <4> QED
        BY <1>s, <2>1, <4>1, <4>2
    <3> QED
      BY <3>3, <3>4, <3>5
  <2>6. CASE ~write.log
    <3>1. writer' = [writer EXCEPT !.progress = write.progress, !.due = TRUE]
      BY <1>3, <2>2, <2>6 DEF Take
    <3>2. writer'.logs = taken /\ writer'.batch = writer.batch /\ writer'.lost = writer.lost
      BY <1>t, <2>3, <2>6, <3>1
    <3> QED
      BY <1>s, <2>1, <2>4, <3>2
  <2> QED
    BY <2>5, <2>6
<1>4. CASE Due
  <2>1. /\ UNCHANGED <<runs, sent, chan, log, usage>> /\ writer.batch.logs = <<>> /\ writer' = Flushed(writer)
    BY <1>4, <1>n DEF Due, storeVars, Writing, Stages, PipelineInv
  <2>2. Flows(chan, sent, writer.batch.logs, writer.logs, Stored, writer.lost, runs # "dead")
    BY <1>f, <1>t, <2>1, FlowsFlushed
  <2>3. writer'.logs = writer.batch.logs /\ writer'.batch.logs = writer.logs /\ writer'.lost = writer.lost
    BY <1>t, <2>1, FlushedIs
  <2> QED
    BY <1>s, <2>1, <2>2, <2>3
<1>5. CASE IntervalPasses
  <2>1. UNCHANGED <<runs, sent, chan, log, usage>>
    BY <1>5 DEF IntervalPasses, storeVars
  <2>2. writer'.logs = writer.logs /\ writer'.batch = writer.batch /\ writer'.lost = writer.lost
    BY <1>5, <1>t DEF IntervalPasses
  <2> QED
    BY <1>f, <1>s, <2>1, <2>2
<1>6. CASE AppendLogs
  <2>1. PICK batch : batch = IF writer.batch.progress = 0 THEN NoBatch ELSE Batch("progress", <<>>, writer.batch.progress)
    OBVIOUS
  <2>2. writer'.logs = writer.logs /\ writer'.batch = batch /\ writer'.lost = writer.lost
    BY <1>6, <1>t, <2>1 DEF AppendLogs
  <2>3. batch.logs = <<>>
    BY <1>n, <2>1 DEF Batch
  <2>4. PICK last : last = FoldLeft(Appended, Stored, writer.batch.logs)
    OBVIOUS
  <2>5. /\ (runs # "dead") = TRUE /\ UNCHANGED <<runs, sent, chan>>
        /\ log' = last.log /\ usage' = last.usage /\ row # "ended"
    BY <1>6, <1>n, <2>4 DEF AppendLogs, Stored, Stages, PipelineInv
  <2>6. /\ Flows(chan, sent, writer.logs, <<>>, last, writer.lost, runs # "dead")
        /\ last \in StoreStates /\ Sound(last) /\ Grows(Stored.log, last.log)
    <3>1. last = FoldLeft(Appended, s, batched) /\ alive = TRUE
      BY <1>e, <2>4, <2>5
    <3>2. /\ Flows(ch, sq, logs, <<>>, last, lost, alive)
          /\ last \in StoreStates /\ Sound(last) /\ Grows(s.log, last.log)
      BY <1>r, <1>st, <3>1, FlowsWritten
    <3> QED
      BY <1>e, <3>2
  <2>7. Stored' = last
    BY <2>5, <2>6 DEF Stored, StoreStates
  <2> QED
    BY <1>t, <2>2, <2>3, <2>5, <2>6, <2>7
<1>7. CASE SetProgress
  <2>1. writer'.logs = writer.logs /\ writer'.batch.logs = <<>> /\ writer'.lost = writer.lost
    BY <1>7, <1>t, <1>n DEF SetProgress
  <2>2. writer.batch.logs = <<>> /\ UNCHANGED <<runs, sent, chan, log, usage>>
    BY <1>7 DEF SetProgress, Stages, PipelineInv
  <2> QED
    BY <1>f, <1>s, <2>1, <2>2
<1>8. CASE FlushFails
  <2>1. writer'.logs = writer.logs /\ writer'.batch.logs = <<>> /\ writer'.lost = TRUE
    BY <1>8, <1>t, <1>n DEF FlushFails
  <2>2. UNCHANGED <<runs, sent, chan, log, usage>>
    BY <1>8 DEF FlushFails, storeVars
  <2>3. Flows(chan, sent, writer.logs, <<>>, Stored, TRUE, runs # "dead")
    <3>1. PICK last : last = FoldLeft(Appended, s, batched)
      OBVIOUS
    <3>2. Flows(ch, sq, logs, <<>>, s, TRUE, alive)
      BY <1>r, <1>st, <3>1, FlowsWritten
    <3> QED
      BY <1>e, <3>2
  <2> QED
    BY <1>s, <2>1, <2>2, <2>3
<1>9. CASE Close \/ Finish \/ Reap
  <2>1. UNCHANGED <<sent, chan, writer, log, usage>> /\ (runs' # "dead") = (runs # "dead")
    BY <1>9 DEF Close, Finish, Reap, storeVars
  <2> QED
    BY <1>f, <1>s, <2>1
<1>10. CASE LastFlush
  <2>1. PICK batch : batch = IF writer.logs = <<>> THEN NoBatch ELSE Batch("logs", writer.logs, 0)
    OBVIOUS
  <2>2. writer' = [writer EXCEPT !.done = TRUE, !.logs = <<>>, !.progress = 0, !.due = FALSE, !.batch = batch]
    BY <1>10, <2>1 DEF LastFlush
  <2>3. writer'.logs = <<>> /\ writer'.batch = batch /\ writer'.lost = writer.lost
    BY <1>t, <2>2
  <2>4. batch.logs = writer.logs
    BY <1>n, <2>1 DEF Batch
  <2>5. /\ UNCHANGED <<runs, sent, chan, log, usage>> /\ writer.batch.logs = <<>>
    BY <1>10, <1>n DEF LastFlush, storeVars, Writing, Stages, PipelineInv
  <2>6. Flows(chan, sent, writer.batch.logs, writer.logs, Stored, writer.lost, runs # "dead")
    BY <1>f, <1>t, <2>5, FlowsFlushed
  <2> QED
    BY <1>s, <2>3, <2>4, <2>5, <2>6
<1>11. CASE Crash
  <2>1. writer'.logs = <<>> /\ writer'.batch.logs = <<>> /\ writer'.lost = writer.lost
    BY <1>11, <1>t, <1>n DEF Crash
  <2>2. UNCHANGED <<sent, log, usage>> /\ chan' = <<>> /\ (runs' # "dead") = FALSE
    BY <1>11 DEF Crash, storeVars
  <2>3. Flows(<<>>, sent, <<>>, <<>>, Stored, writer.lost, FALSE)
    <3>1. Flows(<<>>, sq, <<>>, <<>>, s, lost, FALSE)
      BY <1>r, FlowsEnded
    <3> QED
      BY <1>e, <3>1
  <2> QED
    BY <1>s, <2>1, <2>2, <2>3
<1> QED
  BY <1>s, <1>0, <1>1, <1>2, <1>3, <1>4, <1>5, <1>6, <1>7, <1>8, <1>9, <1>10, <1>11, FollowersLeave
     DEF LogNext, RecorderStep

-----------------------------------------------------------------------------
(* What followers read *)

(* A page of the log after a cursor; one that is not full is the last. *)
IsPage(page, after) ==
  /\ page \in [items : Seq(Lines), full : BOOLEAN]
  /\ after + Len(page.items) <= Len(log)
  /\ \A i \in 1..Len(page.items) : page.items[i] = log[after + i]
  /\ ~page.full \/ page.items = <<>> => after + Len(page.items) = Len(log)

(* A page of the log is what follows the cursor, and is full unless it
   reaches the end. *)
LEMMA PageIs ==
  ASSUME log \in Seq(Lines), NEW after \in 0..Len(log), NEW limit \in Nat \ {0},
         NEW page, page = Page(after, limit)
  PROVE  IsPage(page, after)
<1>1. PICK n \in Nat : n = Len(log)
  OBVIOUS
<1>2. PICK last \in Nat : last = IF after + limit <= n THEN after + limit ELSE n
  <2>1. after + limit \in Nat
    OBVIOUS
  <2> QED
    BY <2>1
<1>3. Min({after + limit, n}) = last
  BY <1>1, <1>2 DEF Min
<1>4. PICK items : items = SubSeq(log, after + 1, last)
  OBVIOUS
<1>5. /\ items \in Seq(Lines) /\ Len(items) = last - after /\ after <= last /\ last <= n
      /\ \A i \in 1..(last - after) : items[i] = log[after + i]
  <2>1. after <= last /\ last <= n /\ after \in Nat
    BY <1>1, <1>2
  <2>2. items \in Seq(Lines) /\ Len(items) = last - after
    BY <1>1, <1>4, <2>1
  <2>3. \A i \in 1..(last - after) : items[i] = log[after + i]
    BY <1>1, <1>4, <2>1
  <2> QED
    BY <2>1, <2>2, <2>3
<1>6. page = [items |-> items, full |-> Len(items) = limit]
  BY <1>1, <1>3, <1>4 DEF Page
<1>7. page.items = items /\ page.full = (Len(items) = limit)
  BY <1>6
<1>8. Len(items) # limit \/ items = <<>> => last = n
  <2>1. items = <<>> => Len(items) = 0
    OBVIOUS
  <2> QED
    BY <1>1, <1>2, <1>5, <2>1
<1>9. page \in [items : Seq(Lines), full : BOOLEAN]
  BY <1>5, <1>6
<1>10. after + Len(page.items) = last
  BY <1>5, <1>7
<1> QED
  BY <1>1, <1>5, <1>7, <1>8, <1>9, <1>10 DEF IsPage

(* What fits of a page (fit_events) is a beginning of it, and never nothing of
   something. *)
LEMMA FitsIs ==
  ASSUME NEW items \in Seq(Lines)
  PROVE  \E k \in 0..Len(items) : Fits(items) = SubSeq(items, 1, k) /\ (k = 0 => items = <<>>)
<1>1. PICK n \in Nat : n = Len(items)
  OBVIOUS
<1>2. PICK K : K = {k \in 0..n : Bytes(SubSeq(items, 1, k)) <= Budget}
  OBVIOUS
<1>3. Fits(items) = SubSeq(items, 1, Max(K))
  BY <1>1, <1>2 DEF Fits
<1>4. ASSUME items # <<>> PROVE 1 \in K
  <2>1. PICK r \in Lines : r = items[1] /\ 1 \in 0..n
    BY <1>1, <1>4
  <2>2. SubSeq(items, 1, 1) = Append(<<>>, r)
    <3>1. PICK one, other : one = SubSeq(items, 1, 1) /\ other = Append(<<>>, r)
      OBVIOUS
    <3>2. Len(items) >= 1
      BY <1>4
    <3>3. one \in Seq(Lines) /\ Len(one) = 1 /\ one[1] = r
      BY <2>1, <3>1, <3>2
    <3>4. <<>> \in Seq(Lines) /\ Len(<<>>) = 0
      OBVIOUS
    <3>5. other \in Seq(Lines) /\ Len(other) = 1 /\ other[1] = r
      BY <3>1, <3>4
    <3>6. one = [i \in 1..1 |-> r] /\ other = [i \in 1..1 |-> r]
      BY <3>3, <3>5
    <3> QED
      BY <3>1, <3>6
  <2>3. Bytes(Append(<<>>, r)) = r.size
    <3>1. <<>> \in Seq(Lines)
      OBVIOUS
    <3>2. Bytes(<<>>) = 0 /\ Bytes(Append(<<>>, r)) = Bytes(<<>>) + r.size
      BY <3>1, BytesAppend, LinesAre
    <3> QED
      BY <3>2, LinesAre
  <2>4. r.size <= Budget
    <3>1. CASE r \in Records
      BY <3>1, LogAssumption DEF Records
    <3>2. CASE r = Marker
      BY <3>2, LogAssumption DEF Marker
    <3> QED
      BY <3>1, <3>2 DEF Lines
  <2> QED
    BY <1>2, <2>1, <2>2, <2>3, <2>4
<1>5. 0 \in K
  <2>1. SubSeq(items, 1, 0) = <<>>
    OBVIOUS
  <2>2. Bytes(<<>>) = 0
    <3>1. <<>> \in Seq(Lines) /\ Marker \in Lines
      BY DEF Lines
    <3> QED
      BY <3>1, BytesAppend, LinesAre
  <2>3. 0 <= Budget /\ 0 \in 0..n
    BY LogAssumption
  <2> QED
    BY <1>2, <2>1, <2>2, <2>3
<1>6. Max(K) \in K /\ \A k \in K : k <= Max(K)
  <2>1. K \in SUBSET Nat /\ K # {} /\ \A k \in K : k <= n
    BY <1>2, <1>5
  <2> QED
    BY <2>1, MaxIn
<1>7. PICK k \in 0..n : k = Max(K)
  BY <1>2, <1>6
<1>8. k = 0 => items = <<>>
  BY <1>4, <1>6, <1>7
<1> QED
  BY <1>1, <1>3, <1>7, <1>8

(* One sequence after the other. *)
Joins(both, s, t) ==
  /\ Len(both) = Len(s) + Len(t)
  /\ \A i \in 1..Len(s) : both[i] = s[i]
  /\ \A i \in 1..(Len(s) + Len(t)) : i \notin 1..Len(s) => both[i] = t[i - Len(s)]

(* What is shown, a page longer. *)
LEMMA JoinedIs ==
  ASSUME NEW R, NEW s \in Seq(R), NEW t \in Seq(R), NEW both, both = s \o t
  PROVE  both \in Seq(R) /\ Joins(both, s, t)
<1>1. PICK a \in Nat, b \in Nat : a = Len(s) /\ b = Len(t)
  OBVIOUS
<1>2. both \in Seq(R) /\ Len(both) = a + b
  BY <1>1
<1>3. \A i \in 1..a : both[i] = s[i]
  BY <1>1
<1>4. ASSUME NEW i \in 1..(a + b), i \notin 1..a PROVE both[i] = t[i - a]
  BY <1>1, <1>4
<1> QED
  BY <1>1, <1>2, <1>3, <1>4 DEF Joins

(* A row that has ended stays as it is. *)
LEMMA RowStays ==
  ASSUME LogNext \/ UNCHANGED logVars, row # "running"
  PROVE  row' = row
  BY FollowersLeave
     DEF LogNext, RecorderStep, FollowersOnly, recorderVars, storeVars, Report, ReportProgress, Take, Due, IntervalPasses,
         AppendLogs, SetProgress, FlushFails, Close, LastFlush, Finish, Crash, Reap

(* The recorder changes nothing of the followers. *)
LEMMA RecorderLeaves ==
  ASSUME RecorderStep \/ UNCHANGED logVars
  PROVE  UNCHANGED <<dialog, agent>>
  BY DEF RecorderStep, Report, ReportProgress, Take, Due, IntervalPasses, AppendLogs, SetProgress, FlushFails,
         Close, LastFlush, Finish, Crash, Reap, logVars

FollowersInv == FollowerTypes /\ ShownIsLog /\ ReadIsLog

(* A log that only grows stays what its followers have shown or read. *)
LEMMA RecorderKeepsFollowers ==
  ASSUME FollowersInv, Stored \in StoreStates, Stored' \in StoreStates, RecorderStep \/ UNCHANGED logVars,
         Grows(log, log'), row = "ended" => log' = log
  PROVE  FollowersInv'
<1>1. UNCHANGED <<dialog, agent>> /\ (row # "running" => row' = row)
  BY RecorderLeaves, RowStays DEF LogNext
<1>2. Len(log) \in Nat /\ Len(log') \in Nat /\ Len(log) <= Len(log') /\ \A i \in 1..Len(log) : log'[i] = log[i]
  BY DEF Grows, Stored, StoreStates
<1>3. /\ dialog.cursor \in Nat /\ Len(dialog.page.items) \in Nat /\ agent.cursor \in Nat
      /\ dialog.active \in BOOLEAN /\ agent.done \in BOOLEAN
  BY DEF FollowersInv, FollowerTypes, Dialogs, Agents
<1>4. FollowerTypes'
  BY <1>1 DEF FollowersInv, FollowerTypes
<1>5. ShownIsLog'
  <2> USE DEF FollowersInv, ShownIsLog
  <2>1. /\ \A i \in 1..dialog.cursor : i \in 1..Len(log)
        /\ \A i \in 1..Len(dialog.page.items) : dialog.cursor + i \in 1..Len(log)
    <3>1. PICK a \in Nat, b \in Nat, n \in Nat : a = dialog.cursor /\ b = Len(dialog.page.items) /\ n = Len(log)
      BY <1>2, <1>3
    <3>2. a + b <= n
      BY <3>1
    <3>3. (\A i \in 1..a : i \in 1..n) /\ \A i \in 1..b : a + i \in 1..n
      BY <3>2
    <3> QED
      BY <3>1, <3>3
  <2>2. /\ dialog.cursor + Len(dialog.page.items) <= Len(log')
        /\ \A i \in 1..dialog.cursor : dialog.shown[i] = log'[i]
        /\ \A i \in 1..Len(dialog.page.items) : dialog.page.items[i] = log'[dialog.cursor + i]
    <3>1. dialog.cursor + Len(dialog.page.items) <= Len(log')
      <4>1. PICK a \in Nat, b \in Nat, n \in Nat, m \in Nat :
               a = dialog.cursor /\ b = Len(dialog.page.items) /\ n = Len(log) /\ m = Len(log')
        BY <1>2, <1>3
      <4>2. a + b <= n /\ n <= m
        BY <4>1, <1>2
      <4>3. a + b <= m
        BY <4>2
      <4> QED
        BY <4>1, <4>3
    <3>2. \A i \in 1..dialog.cursor : dialog.shown[i] = log'[i]
      BY <1>2, <2>1
    <3>3. \A i \in 1..Len(dialog.page.items) : dialog.page.items[i] = log'[dialog.cursor + i]
      BY <1>2, <2>1
    <3> QED
      BY <3>1, <3>2, <3>3
  <2>3. ~dialog.active => row' # "running"
    BY <1>1
  <2>4. row' = "ended" /\ ~dialog.active => row = "ended" /\ log' = log
    BY <1>1
  <2> QED
    BY <1>1, <2>2, <2>3, <2>4
<1>6. ReadIsLog'
  <2> USE DEF FollowersInv, ReadIsLog
  <2>1. agent.cursor <= Len(log') /\ \A i \in 1..agent.cursor : agent.read[i] = log'[i]
    BY <1>2, <1>3
  <2>2. row' = "ended" /\ agent.done => row = "ended" /\ log' = log
    BY <1>1
  <2> QED
    BY <1>1, <2>1, <2>2
<1> QED
  BY <1>4, <1>5, <1>6 DEF FollowersInv

(* A step of a follower shows or reads what the log has next. *)
LEMMA FollowersKeep ==
  ASSUME FollowersInv, Stored \in StoreStates, FollowerStep
  PROVE  FollowersInv'
<1>1. UNCHANGED <<log, row>>
  BY FollowersLeave DEF FollowersOnly, recorderVars, storeVars
<1>t. /\ dialog \in [shown : Seq(Lines), cursor : Nat, phase : {"shut", "idle", "asked", "served"},
                     page : [items : Seq(Lines), full : BOOLEAN],
                     refetch : BOOLEAN, more : BOOLEAN, active : BOOLEAN, toast : BOOLEAN]
      /\ agent \in [read : Seq(Lines), cursor : Nat, phase : {"none", "idle", "row", "log"},
                    ended : BOOLEAN, done : BOOLEAN]
      /\ dialog.page \in [items : Seq(Lines), full : BOOLEAN] /\ dialog.page.items \in Seq(Lines)
      /\ log \in Seq(Lines) /\ dialog \in Dialogs /\ agent \in Agents
      /\ PageSize \in Nat \ {0} /\ AgentLimit \in Nat \ {0}
  BY LogAssumption DEF FollowersInv, FollowerTypes, Dialogs, Agents, Stored, StoreStates
<1>i. ShownIsLog /\ ReadIsLog
  BY DEF FollowersInv
<1>n. NoPage \in [items : Seq(Lines), full : BOOLEAN] /\ Len(NoPage.items) = 0
  BY DEF NoPage
<1>p. PICK blank \in [items : Seq(Lines), full : BOOLEAN] : blank = NoPage /\ Len(blank.items) = 0
  BY <1>n
<1>2. ASSUME dialog' \in Dialogs, agent' = agent, ShownIsLog' PROVE FollowersInv'
  BY <1>1, <1>2, <1>i, <1>t DEF FollowersInv, FollowerTypes, ReadIsLog
<1>3. ASSUME agent' \in Agents, dialog' = dialog, ReadIsLog' PROVE FollowersInv'
  BY <1>1, <1>3, <1>i, <1>t DEF FollowersInv, FollowerTypes, ShownIsLog
<1>4. ASSUME NEW d \in Dialogs, d.phase # "shut", NEW f, f = Fetch(d)
      PROVE  /\ f \in Dialogs /\ f.phase \in {"asked", "served"} /\ f.shown = d.shown /\ f.cursor = d.cursor
             /\ f.page = d.page /\ f.active = d.active
             /\ f.phase = "served" => d.phase = "served" /\ f.refetch
             /\ f.phase = "asked" => d.phase # "served"
  BY <1>4 DEF Fetch, Remember, Dialogs
<1>5. CASE FetchMore \/ HearsEnd
  <2>1. PICK f : f = Fetch(dialog)
    OBVIOUS
  <2>2. /\ f \in Dialogs /\ f.phase \in {"asked", "served"} /\ f.shown = dialog.shown /\ f.cursor = dialog.cursor
        /\ f.page = dialog.page /\ f.active = dialog.active
        /\ f.phase = "served" => dialog.phase = "served" /\ f.refetch
        /\ f.phase = "asked" => dialog.phase # "served"
    BY <1>4, <1>5, <1>t, <2>1 DEF FetchMore, HearsEnd
  <2>3. agent' = agent /\ (dialog' = f \/ (dialog' = [f EXCEPT !.active = FALSE] /\ row # "running"))
    BY <1>5, <2>1 DEF FetchMore, HearsEnd
  <2>4. /\ dialog' \in Dialogs /\ dialog'.phase = f.phase /\ dialog'.shown = f.shown /\ dialog'.cursor = f.cursor
        /\ dialog'.page = f.page /\ dialog'.refetch = f.refetch
        /\ dialog'.active = f.active \/ (row # "running" /\ ~dialog'.active)
    BY <2>2, <2>3 DEF Dialogs
  <2>5. ShownIsLog'
    <3>0. dialog'.cursor = dialog.cursor /\ dialog'.shown = dialog.shown /\ dialog'.page = dialog.page /\ log' = log
      BY <1>1, <2>2, <2>4
    <3>1. /\ dialog'.cursor = Len(dialog'.shown) /\ dialog'.cursor + Len(dialog'.page.items) <= Len(log')
          /\ \A i \in 1..dialog'.cursor : dialog'.shown[i] = log'[i]
          /\ \A i \in 1..Len(dialog'.page.items) : dialog'.page.items[i] = log'[dialog'.cursor + i]
      <4>1. /\ dialog.cursor = Len(dialog.shown) /\ dialog.cursor + Len(dialog.page.items) <= Len(log)
            /\ \A i \in 1..dialog.cursor : dialog.shown[i] = log[i]
            /\ \A i \in 1..Len(dialog.page.items) : dialog.page.items[i] = log[dialog.cursor + i]
        BY <1>i DEF ShownIsLog
      <4> QED
        BY <3>0, <4>1
    <3>2. ~dialog'.active => row' # "running"
      BY <1>1, <1>i, <2>2, <2>4 DEF ShownIsLog
    <3>3. /\ dialog'.phase \in {"asked", "served"} /\ (dialog'.phase = "served" => dialog'.refetch)
          /\ (dialog'.phase # "served" => dialog'.page = NoPage)
      <4>1. dialog.phase # "served" => dialog.page = NoPage
        BY <1>i DEF ShownIsLog
      <4> QED
        BY <2>2, <2>4, <4>1
    <3> QED
      BY <3>1, <3>2, <3>3 DEF ShownIsLog
  <2> QED
    BY <1>2, <2>3, <2>4, <2>5
<1>c. dialog.cursor \in 0..Len(log) /\ dialog.cursor = Len(dialog.shown) /\ agent.cursor \in 0..Len(log) /\ agent.cursor = Len(agent.read)
  <2>1. Len(log) \in Nat /\ Len(dialog.page.items) \in Nat
    BY <1>t
  <2> QED
    BY <1>t, <1>i, <2>1 DEF ShownIsLog, ReadIsLog
<1>6. CASE ServePage
  <2>1. PICK page : page = Page(dialog.cursor, PageSize)
    OBVIOUS
  <2>2. /\ page \in [items : Seq(Lines), full : BOOLEAN]
        /\ dialog.cursor + Len(page.items) <= Len(log)
        /\ \A i \in 1..Len(page.items) : page.items[i] = log[dialog.cursor + i]
        /\ ~page.full => dialog.cursor + Len(page.items) = Len(log)
    <3>1. PICK after \in 0..Len(log), limit \in Nat \ {0} : after = dialog.cursor /\ limit = PageSize
      BY <1>t, <1>c
    <3>2. log \in Seq(Lines) /\ page = Page(after, limit)
      BY <1>t, <2>1, <3>1
    <3>3. IsPage(page, after)
      BY <3>2, PageIs
    <3> QED
      BY <3>1, <3>3 DEF IsPage
  <2>3. dialog' = [dialog EXCEPT !.phase = "served", !.page = page] /\ agent' = agent
    BY <1>6, <2>1 DEF ServePage
  <2>4. /\ dialog' \in Dialogs /\ dialog'.phase = "served" /\ dialog'.page = page
        /\ dialog'.shown = dialog.shown /\ dialog'.cursor = dialog.cursor /\ dialog'.active = dialog.active
    BY <1>t, <2>2, <2>3 DEF Dialogs
  <2>5. ShownIsLog'
    BY <1>1, <1>i, <2>2, <2>4 DEF ShownIsLog
  <2> QED
    BY <1>2, <2>3, <2>4, <2>5
<1>7. CASE ShowPage
  <2>1. PICK items \in Seq(Lines) : items = dialog.page.items
    BY <1>t
  <2>2. PICK shown : shown = dialog.shown \o items
    OBVIOUS
  <2>3. PICK a \in Nat, b \in Nat : a = dialog.cursor /\ b = Len(items) /\ a = Len(dialog.shown)
    BY <1>t, <1>c, <2>1
  <2>4. shown \in Seq(Lines) /\ Len(shown) = a + b /\ (\A i \in 1..a : shown[i] = dialog.shown[i])
        /\ \A i \in 1..(a + b) : i \notin 1..a => shown[i] = items[i - a]
    BY <1>t, <2>1, <2>2, <2>3
  <2>5. dialog' = [dialog EXCEPT !.shown = shown, !.cursor = a + b, !.more = dialog.page.full, !.page = blank,
                                 !.toast = FALSE, !.phase = IF dialog.refetch THEN "asked" ELSE "idle", !.refetch = FALSE]
        /\ agent' = agent /\ dialog.phase = "served"
    BY <1>7, <1>p, <1>t, <2>1, <2>2, <2>3 DEF ShowPage
  <2>6. /\ dialog' \in Dialogs /\ dialog'.shown = shown /\ dialog'.cursor = a + b /\ dialog'.more = dialog.page.full
        /\ dialog'.page = blank /\ dialog'.phase \in {"asked", "idle"} /\ (dialog'.phase = "idle" => ~dialog.refetch)
        /\ dialog'.active = dialog.active
    <3>1. (IF dialog.refetch THEN "asked" ELSE "idle") \in {"asked", "idle"} /\ dialog.page.full \in BOOLEAN /\ a + b \in Nat
      BY <1>t
    <3> QED
      BY <1>t, <2>4, <2>5, <3>1 DEF Dialogs
  <2>7. a + b <= Len(log) /\ \A i \in 1..(a + b) : shown[i] = log[i]
    <3>1. /\ a + b <= Len(log) /\ (\A i \in 1..a : dialog.shown[i] = log[i])
          /\ \A i \in 1..b : items[i] = log[a + i]
      BY <1>i, <2>1, <2>3 DEF ShownIsLog
    <3>2. ASSUME NEW i \in 1..(a + b) PROVE shown[i] = log[i]
      <4>1. CASE i \in 1..a
        BY <2>4, <3>1, <4>1
      <4>2. CASE i \notin 1..a
        <5>1. i - a \in 1..b /\ a + (i - a) = i
          BY <4>2
        <5> QED
          BY <2>4, <3>1, <4>2, <5>1
      <4> QED
        BY <4>1, <4>2
    <3> QED
      BY <3>1, <3>2
  <2>8. row = "ended" /\ ~dialog.active /\ ~dialog.refetch => dialog.page.full \/ a + b = Len(log)
    BY <1>i, <2>1, <2>3, <2>5 DEF ShownIsLog
  <2>9. ShownIsLog'
    <3>1. dialog'.cursor = Len(dialog'.shown) /\ dialog'.cursor + Len(dialog'.page.items) <= Len(log')
      BY <1>1, <1>p, <2>4, <2>6, <2>7
    <3>2. \A i \in 1..dialog'.cursor : dialog'.shown[i] = log'[i]
      BY <1>1, <2>6, <2>7
    <3>3. \A i \in 1..Len(dialog'.page.items) : dialog'.page.items[i] = log'[dialog'.cursor + i]
      BY <1>p, <2>6
    <3>4. row' = "ended" /\ ~dialog'.active /\ dialog'.phase = "idle" /\ ~dialog'.more => dialog'.cursor = Len(log')
      BY <1>1, <2>6, <2>8
    <3>5. ~dialog'.active => row' # "running"
      BY <1>1, <1>i, <2>6 DEF ShownIsLog
    <3> QED
      BY <1>p, <2>6, <3>1, <3>2, <3>3, <3>4, <3>5 DEF ShownIsLog
  <2> QED
    BY <1>2, <2>5, <2>6, <2>9
<1>8. CASE PageFails
  <2>1. dialog' = [dialog EXCEPT !.phase = "idle", !.page = blank, !.toast = TRUE] /\ agent' = agent
    BY <1>8, <1>p DEF PageFails
  <2>2. /\ dialog' \in Dialogs /\ dialog'.phase = "idle" /\ dialog'.page = blank /\ dialog'.toast
        /\ dialog'.shown = dialog.shown /\ dialog'.cursor = dialog.cursor /\ dialog'.active = dialog.active
    BY <1>t, <2>1 DEF Dialogs
  <2>3. dialog.cursor + Len(blank.items) <= Len(log)
    BY <1>c, <1>p
  <2>4. ShownIsLog'
    BY <1>1, <1>i, <1>p, <2>2, <2>3 DEF ShownIsLog
  <2> QED
    BY <1>2, <2>1, <2>2, <2>4
<1>9. CASE Reopen
  <2>1. PICK active \in BOOLEAN : (row = "running" => active) /\ dialog' = [Fresh EXCEPT !.active = active] /\ agent' = agent
    BY <1>9 DEF Reopen
  <2>2. dialog' = [shown |-> <<>>, cursor |-> 0, phase |-> "asked", page |-> blank, refetch |-> FALSE, more |-> FALSE,
                   active |-> active, toast |-> FALSE]
    BY <1>p, <2>1 DEF Fresh, Shut
  <2>3. /\ dialog' \in Dialogs /\ dialog'.phase = "asked" /\ dialog'.page = blank
        /\ dialog'.shown = <<>> /\ dialog'.cursor = 0 /\ dialog'.active = active
    BY <2>2 DEF Dialogs
  <2>4. Len(<<>>) = 0 /\ 0 <= Len(log)
    BY <1>t
  <2>5. ShownIsLog'
    BY <1>1, <1>p, <2>1, <2>3, <2>4 DEF ShownIsLog
  <2> QED
    BY <1>2, <2>1, <2>3, <2>5
<1>10. CASE AskStatus
  <2>1. agent' = [agent EXCEPT !.phase = "row"] /\ dialog' = dialog
    BY <1>10 DEF AskStatus
  <2>2. /\ agent' \in Agents /\ agent'.read = agent.read /\ agent'.cursor = agent.cursor /\ agent'.ended = agent.ended
        /\ agent'.done = agent.done
    BY <1>t, <2>1 DEF Agents
  <2>3. ReadIsLog'
    BY <1>1, <1>i, <2>2 DEF ReadIsLog
  <2> QED
    BY <1>3, <2>1, <2>2, <2>3
<1>11. CASE ReadRow
  <2>1. agent' = [agent EXCEPT !.phase = "log", !.ended = (row # "running")] /\ dialog' = dialog
    BY <1>11 DEF ReadRow
  <2>2. /\ agent' \in Agents /\ agent'.read = agent.read /\ agent'.cursor = agent.cursor
        /\ agent'.ended = (row # "running") /\ agent'.done = agent.done
    BY <1>t, <2>1 DEF Agents
  <2>3. ReadIsLog'
    BY <1>1, <1>i, <2>2 DEF ReadIsLog
  <2> QED
    BY <1>3, <2>1, <2>2, <2>3
<1>12. CASE ReadLog
  <2>1. PICK page : page = Page(agent.cursor, AgentLimit)
    OBVIOUS
  <2>2. /\ page \in [items : Seq(Lines), full : BOOLEAN]
        /\ agent.cursor + Len(page.items) <= Len(log)
        /\ \A i \in 1..Len(page.items) : page.items[i] = log[agent.cursor + i]
        /\ page.items = <<>> => agent.cursor + Len(page.items) = Len(log)
    <3>1. PICK after \in 0..Len(log), limit \in Nat \ {0} : after = agent.cursor /\ limit = AgentLimit
      BY <1>t, <1>c
    <3>2. log \in Seq(Lines) /\ page = Page(after, limit)
      BY <1>t, <2>1, <3>1
    <3>3. IsPage(page, after)
      BY <3>2, PageIs
    <3> QED
      BY <3>1, <3>3 DEF IsPage
  <2>3. PICK items \in Seq(Lines) : items = page.items
    BY <2>2
  <2>4. PICK k \in 0..Len(items) : Fits(items) = SubSeq(items, 1, k) /\ (k = 0 => items = <<>>)
    BY <2>3, FitsIs
  <2>5. PICK events : events = Fits(items)
    OBVIOUS
  <2>6. events \in Seq(Lines) /\ Len(events) = k /\ (\A i \in 1..k : events[i] = items[i]) /\ (events = <<>> => k = 0)
    <3>1. Len(items) \in Nat /\ k \in Nat /\ k <= Len(items)
      OBVIOUS
    <3> QED
      BY <2>4, <2>5, <3>1
  <2>7. PICK read : read = agent.read \o events
    OBVIOUS
  <2>8. PICK a \in Nat : a = agent.cursor /\ a = Len(agent.read)
    BY <1>c
  <2>9. read \in Seq(Lines) /\ Len(read) = a + k /\ (\A i \in 1..a : read[i] = agent.read[i])
        /\ \A i \in 1..(a + k) : i \notin 1..a => read[i] = events[i - a]
    <3>1. PICK first \in Seq(Lines) : first = agent.read /\ a = Len(first)
      BY <1>t, <2>8
    <3>2. events \in Seq(Lines) /\ Len(events) = k /\ read = first \o events
      BY <2>6, <2>7, <3>1
    <3>3. read \in Seq(Lines) /\ Len(read) = a + k /\ (\A i \in 1..a : read[i] = first[i])
          /\ \A i \in 1..(a + k) : i \notin 1..a => read[i] = events[i - a]
      <4>1. PICK second \in Seq(Lines), b \in Nat : second = events /\ b = Len(second) /\ b = k
        BY <3>2
      <4>2. read = first \o second /\ Len(first) = a
        BY <3>1, <3>2, <4>1
      <4>3. read \in Seq(Lines) /\ Joins(read, first, second)
        BY <4>2, JoinedIs
      <4> QED
        BY <4>1, <4>2, <4>3 DEF Joins
    <3> QED
      BY <3>1, <3>3
  <2>10. /\ agent' = [agent EXCEPT !.phase = "idle", !.read = read, !.cursor = a + k,
                                   !.done = agent.ended /\ events = <<>>]
         /\ dialog' = dialog
    BY <1>12, <1>t, <2>1, <2>3, <2>5, <2>6, <2>7, <2>8 DEF ReadLog
  <2>11. /\ agent' \in Agents /\ agent'.read = read /\ agent'.cursor = a + k
         /\ agent'.ended = agent.ended /\ agent'.done = (agent.ended /\ events = <<>>)
    <3>1. a + k \in Nat /\ (agent.ended /\ events = <<>>) \in BOOLEAN
      OBVIOUS
    <3> QED
      BY <1>t, <2>9, <2>10, <3>1 DEF Agents
  <2>12. a + k <= Len(log) /\ \A i \in 1..(a + k) : read[i] = log[i]
    <3>1. a + k <= Len(log)
      BY <1>t, <2>2, <2>3, <2>8
    <3>2. ASSUME NEW i \in 1..(a + k) PROVE read[i] = log[i]
      <4>1. CASE i \in 1..a
        BY <1>i, <2>8, <2>9, <4>1 DEF ReadIsLog
      <4>2. CASE i \notin 1..a
        <5>1. i - a \in 1..k /\ a + (i - a) = i /\ i - a \in 1..Len(items)
          BY <4>2
        <5> QED
          <6>1. read[i] = events[i - a] /\ events[i - a] = items[i - a]
            BY <2>6, <2>9, <4>2, <5>1
          <6>2. items[i - a] = log[a + (i - a)]
            BY <2>2, <2>3, <2>8, <5>1
          <6> QED
            BY <5>1, <6>1, <6>2
      <4> QED
        BY <4>1, <4>2
    <3> QED
      BY <3>1, <3>2
  <2>13. events = <<>> => a + k = Len(log)
    BY <2>2, <2>3, <2>4, <2>6, <2>8
  <2>14. ReadIsLog'
    BY <1>1, <1>i, <2>9, <2>11, <2>12, <2>13 DEF ReadIsLog
  <2> QED
    BY <1>3, <2>10, <2>11, <2>14
<1> QED
  BY <1>5, <1>6, <1>7, <1>8, <1>9, <1>10, <1>11, <1>12 DEF FollowerStep
(* A job starts with nothing sent, stored or read. *)
LEMMA InitLogInv == LogInit => LogInv
<1> SUFFICES ASSUME LogInit PROVE LogInv
  OBVIOUS
<1> USE DEF LogInit
<1>1. /\ <<>> \in Seq(Records) /\ <<>> \in Seq(Writes) /\ <<>> \in Seq(Lines) /\ Len(<<>>) = 0
      /\ NoBatch \in Batches /\ 0 \in 0..MaxReports
  BY WritesAre
<1>2. PICK w : w = [logs |-> <<>>, progress |-> 0, due |-> FALSE, recent |-> FALSE, batch |-> NoBatch,
                    lost |-> FALSE, done |-> FALSE]
  OBVIOUS
<1>3. writer = w /\ w \in WriterStates /\ w.logs = <<>> /\ w.batch = NoBatch /\ w.progress = 0 /\ ~w.done
  BY <1>1, <1>2 DEF WriterStates
<1>4. RecorderTypes
  BY <1>1, <1>3 DEF RecorderTypes
<1>5. NoBatch.progress = 0 /\ NoBatch.logs = <<>> /\ NoBatch.stage = "idle"
  BY DEF NoBatch, Batch
<1>6. ProgressWasReported
  BY <1>1, <1>3, <1>5 DEF ProgressWasReported
<1>7. Stages
  BY <1>1, <1>3, <1>5 DEF Stages
<1>8. PICK u : u = [records |-> 0, bytes |-> 0, truncated |-> FALSE]
  OBVIOUS
<1>9. /\ Stored = [log |-> <<>>, usage |-> u] /\ u.records = 0 /\ u.bytes = 0 /\ ~u.truncated
      /\ u \in [records : Nat, bytes : Nat, truncated : BOOLEAN]
  BY <1>8 DEF Stored
<1>10. Stored \in StoreStates /\ Stored.log = <<>> /\ Stored.usage = u
  BY <1>1, <1>9 DEF StoreStates
<1>11. Held(Stored) = 0
  BY <1>1, <1>9, <1>10 DEF Held
<1>12. Sound(Stored)
  <2>1. Bytes(<<>>) = 0
    <3>1. <<>> \in Seq(Lines) /\ Marker \in Lines
      BY <1>1 DEF Lines
    <3> QED
      BY <3>1, BytesAppend, LinesAre
  <2>3. SubSeq(<<>>, 1, 0) = <<>>
    OBVIOUS
  <2>4. Stored.usage.bytes = Bytes(SubSeq(Stored.log, 1, Held(Stored)))
    BY <1>9, <1>10, <1>11, <2>1, <2>3
  <2>2. 0 <= MaxRecords /\ 0 <= MaxBytes
    BY LinesAre
  <2> QED
    BY <1>1, <1>9, <1>10, <1>11, <2>2, <2>4 DEF Sound
<1>13. Pipeline
  <2>1. PICK c : c = [i \in 0..0 |-> 0]
    OBVIOUS
  <2>2. c \in [0..Len(chan) -> 0..Len(sent)] /\ c[0] = 0
    BY <1>1, <2>1
  <2>3. Through(chan, sent, c)
    BY <1>1, <2>2 DEF Through
  <2>4. Waiting(sent, c[0], writer.logs, writer.batch.logs)
    BY <1>1, <1>3, <1>5, <2>2 DEF Waiting
  <2>5. Tells(Stored, c[0] - Len(writer.logs) - Len(writer.batch.logs), sent, writer.lost, runs # "dead")
    BY <1>1, <1>3, <1>5, <1>10, <1>11, <2>2 DEF Tells
  <2> QED
    BY <2>2, <2>3, <2>4, <2>5 DEF Pipeline, Flows
<1>14. /\ NoPage \in [items : Seq(Lines), full : BOOLEAN] /\ NoPage.items = <<>>
  BY <1>1 DEF NoPage
<1>15. PICK blank : blank = NoPage
  OBVIOUS
<1>16. PICK phase \in {"shut", "asked"} :
         dialog = [shown |-> <<>>, cursor |-> 0, phase |-> phase, page |-> blank,
                   refetch |-> FALSE, more |-> FALSE, active |-> TRUE, toast |-> FALSE]
  BY <1>15 DEF Shut, Fresh
<1>17. /\ dialog \in Dialogs /\ dialog.shown = <<>> /\ dialog.cursor = 0 /\ dialog.page = NoPage
       /\ dialog.phase = phase /\ dialog.active
  BY <1>1, <1>14, <1>15, <1>16 DEF Dialogs
<1>a. PICK phase2 \in {"none", "idle"} :
        agent = [read |-> <<>>, cursor |-> 0, phase |-> phase2, ended |-> FALSE, done |-> FALSE]
  OBVIOUS
<1>18. /\ agent \in Agents /\ agent.read = <<>> /\ agent.cursor = 0 /\ ~agent.ended /\ ~agent.done
  BY <1>1, <1>a DEF Agents
<1>19. ShownIsLog /\ ReadIsLog
  BY <1>1, <1>14, <1>17, <1>18 DEF ShownIsLog, ReadIsLog
<1> QED
  BY <1>4, <1>6, <1>7, <1>10, <1>12, <1>13, <1>17, <1>18, <1>19 DEF LogInv, FollowerTypes

(* Every step keeps the invariant. *)
LEMMA LogInvStep == LogInv /\ [LogNext]_logVars => LogInv'
<1> SUFFICES ASSUME LogInv, LogNext \/ UNCHANGED logVars PROVE LogInv'
  OBVIOUS
<1>1. RecorderTypes /\ ProgressWasReported /\ Stages /\ PipelineInv /\ FollowersInv /\ Stored \in StoreStates
  BY DEF LogInv, PipelineInv, FollowersInv
<1>2. RecorderTypes'
  BY <1>1, RecorderTypesStep
<1>3. ProgressWasReported'
  BY <1>1, ProgressStep
<1>4. Stages'
  BY <1>1, StagesStep
<1>5. /\ Stored' \in StoreStates /\ Sound(Stored') /\ Pipeline'
      /\ Grows(log, log') /\ (row = "ended" => log' = log)
  BY <1>1, <1>2, PipelineStep
<1>6. FollowersInv'
  <2>1. CASE RecorderStep \/ UNCHANGED logVars
    BY <1>1, <1>5, <2>1, RecorderKeepsFollowers
  <2>2. CASE FollowerStep
    BY <1>1, <2>2, FollowersKeep
  <2> QED
    BY <2>1, <2>2 DEF LogNext
<1>7. (Sound(Stored))'
  BY <1>5 DEF Stored, Sound, Held
<1> QED
  BY <1>2, <1>3, <1>4, <1>5, <1>6, <1>7 DEF LogInv, FollowersInv

(* So every behaviour has it. *)
LEMMA LogInvHolds == LogSpec => []LogInv
<1>1. LogInit => LogInv
  BY InitLogInv
<1>2. LogInv /\ [LogNext]_logVars => LogInv'
  BY LogInvStep
<1> QED
  BY <1>1, <1>2, PTL DEF LogSpec

(* It types the variables. *)
LEMMA LogInvTypes == LogInv => LogTypeOK
<1> SUFFICES ASSUME LogInv PROVE LogTypeOK
  OBVIOUS
<1>1. log \in Seq(Records \cup {Marker}) /\ usage \in [records : Nat, bytes : Nat, truncated : BOOLEAN]
  BY DEF LogInv, Stored, StoreStates, Lines
<1>2. dialog.phase \in {"shut", "idle", "asked", "served"} /\ agent.phase \in {"none", "idle", "row", "log"}
  BY DEF LogInv, FollowerTypes, Dialogs, Agents
<1>3. /\ runs \in {"on", "closing", "over", "dead"} /\ row \in {"running", "ended", "reaped"}
      /\ sent \in Seq(Records) /\ progressed \in 0..MaxReports /\ saved \in 0..progressed
  BY DEF LogInv, RecorderTypes, ProgressWasReported
<1> QED
  BY <1>1, <1>2, <1>3 DEF LogTypeOK

(* It gives LogTellsItsGaps: a stored log is a beginning of what was reported,
   ends in the marker where it was cut, and is whole where nothing was lost. *)
LEMMA LogInvTells == LogInv => LogTellsItsGaps
<1> SUFFICES ASSUME LogInv PROVE LogTellsItsGaps
  OBVIOUS
<1>1. /\ log \in Seq(Lines) /\ sent \in Seq(Records) /\ usage.truncated \in BOOLEAN
      /\ Stored.log = log /\ Stored.usage = usage
  BY DEF LogInv, RecorderTypes, Stored, StoreStates
<1>2. PICK n \in Nat, all \in Nat : n = Len(log) /\ all = Len(sent)
  BY <1>1
<1>3. PICK m : m = Held(Stored)
  OBVIOUS
<1>4. m \in 0..n /\ m = n - (IF usage.truncated THEN 1 ELSE 0)
  <2>1. usage.truncated => n # 0
    BY <1>1, <1>2 DEF LogInv, Sound
  <2> QED
    BY <1>1, <1>2, <1>3, <2>1 DEF Held
<1>5. \A i \in 1..n : log[i] = Marker <=> (usage.truncated /\ i = n)
  BY <1>1, <1>2 DEF LogInv, Sound
<1>6. Kept = SubSeq(log, 1, m)
  <2>1. m \in 0..Len(log)
    BY <1>2, <1>4
  <2>2. ASSUME NEW i \in 1..Len(log) PROVE log[i] = Marker <=> i > m
    <3>1. i \in 1..n /\ (i > m <=> (usage.truncated /\ i = n))
      BY <1>1, <1>2, <1>4
    <3> QED
      BY <1>5, <3>1
  <2> QED
    BY <1>1, <2>1, <2>2, KeptIs
<1>7. PICK kept \in Seq(Lines) : kept = Kept /\ Len(kept) = m /\ kept = [i \in 1..m |-> log[i]]
  <2>1. PICK s \in Seq(Lines) : s = log /\ Len(s) = n
    BY <1>1, <1>2
  <2>2. PICK part : part = SubSeq(s, 1, m)
    OBVIOUS
  <2>3. part \in Seq(Lines) /\ Len(part) = m
    BY <1>4, <2>1, <2>2
  <2>4. part = [i \in 1..m |-> s[i]]
    BY <1>4, <2>1, <2>2
  <2> QED
    BY <1>6, <2>1, <2>2, <2>3, <2>4
<1>8. m <= MaxRecords /\ Bytes(Kept) <= MaxBytes
  BY <1>1, <1>2, <1>3, <1>6 DEF LogInv, Sound
<1>9. PICK c \in [0..Len(chan) -> 0..Len(sent)] :
        /\ Through(chan, sent, c) /\ Waiting(sent, c[0], writer.logs, writer.batch.logs)
        /\ Tells(Stored, c[0] - Len(writer.logs) - Len(writer.batch.logs), sent, writer.lost, runs # "dead")
  BY DEF LogInv, Pipeline, Flows
<1>10. PICK taken \in 0..all, waiting \in Nat, batched \in Nat :
         taken = c[0] /\ waiting = Len(writer.logs) /\ batched = Len(writer.batch.logs)
  <2>1. chan \in Seq(Writes) /\ writer.logs \in Seq(Records) /\ writer.batch.logs \in Seq(Records)
    BY DEF LogInv, RecorderTypes, WriterStates, Batches
  <2>2. 0 \in 0..Len(chan) /\ Len(writer.logs) \in Nat /\ Len(writer.batch.logs) \in Nat
    BY <2>1
  <2> QED
    BY <1>2, <2>2
<1>11. n <= taken - waiting - batched /\ n <= all
  <2>1. n <= taken - waiting - batched
    BY <1>1, <1>2, <1>9, <1>10 DEF Tells
  <2> QED
    BY <2>1
<1>12. ~writer.lost => \A i \in 1..m : kept[i] = sent[i]
  <2>1. ~writer.lost => \A i \in 1..m : log[i] = sent[i]
    BY <1>1, <1>3, <1>9 DEF Tells
  <2> QED
    BY <1>7, <2>1
<1>13. row = "ended" /\ ~writer.lost /\ ~usage.truncated => n = all
  <2> SUFFICES ASSUME row = "ended", ~writer.lost, ~usage.truncated PROVE n = all
    OBVIOUS
  <2>1. runs = "over" /\ chan = <<>> /\ writer.logs = <<>> /\ writer.batch = NoBatch
    BY DEF LogInv, Stages
  <2>2. waiting = 0 /\ batched = 0 /\ Len(chan) = 0
    BY <1>10, <2>1 DEF NoBatch, Batch
  <2>3. taken = all
    BY <1>2, <1>9, <1>10, <2>2 DEF Through
  <2>4. n = taken - waiting - batched
    BY <1>1, <1>2, <1>9, <1>10, <2>1 DEF Tells
  <2> QED
    BY <2>2, <2>3, <2>4
<1>14. ASSUME ~writer.lost PROVE IsPrefix(Kept, sent)
  <2>1. m <= all
    BY <1>4, <1>11
  <2>2. SubSeq(kept, 1, m) = [i \in 1..m |-> sent[i]]
    <3>1. SubSeq(kept, 1, m) = [i \in 1..m |-> kept[i]]
      BY <1>4, <1>7
    <3> QED
      BY <1>12, <1>14, <3>1
  <2>3. SubSeq(sent, 1, m) = [i \in 1..m |-> sent[i]]
    BY <1>1, <1>2, <1>4, <2>1
  <2> QED
    BY <1>2, <1>7, <2>1, <2>2, <2>3 DEF IsPrefix
<1>15. ASSUME row = "ended", ~writer.lost PROVE Kept = sent \/ \E i \in DOMAIN log : log[i] = Marker
  <2>1. CASE usage.truncated
    <3>1. n \in 1..n /\ DOMAIN log = 1..n
      BY <1>1, <1>2, <1>4, <2>1
    <3> QED
      BY <1>5, <2>1, <3>1
  <2>2. CASE ~usage.truncated
    <3>1. m = all
      BY <1>4, <1>13, <1>15, <2>2
    <3>2. kept = [i \in 1..m |-> sent[i]]
      BY <1>7, <1>12, <1>15
    <3>3. sent = [i \in 1..all |-> sent[i]]
      BY <1>1, <1>2
    <3> QED
      BY <1>7, <3>1, <3>2, <3>3
  <2> QED
    BY <2>1, <2>2
<1>16. ASSUME NEW i \in DOMAIN log, log[i] = Marker PROVE i = Len(log) /\ Len(Kept) < Len(sent)
  <2>1. i \in 1..n
    BY <1>1, <1>2
  <2>2. usage.truncated /\ i = n
    BY <1>5, <1>16, <2>1
  <2>3. m < all
    BY <1>4, <1>11, <2>2
  <2> QED
    BY <1>2, <1>7, <2>2, <2>3
<1>17. Len(Kept) <= MaxRecords
  BY <1>7, <1>8
<1> QED
  BY <1>8, <1>14, <1>15, <1>16, <1>17 DEF LogTellsItsGaps

(* It gives FollowersMissNothing: a follower that is told the end has it all. *)
LEMMA LogInvFollowed == LogInv => FollowersMissNothing
<1> SUFFICES ASSUME LogInv, row = "ended" PROVE
      /\ (dialog.phase = "idle" /\ ~dialog.active /\ ~dialog.more /\ ~dialog.toast) => dialog.shown = log
      /\ agent.done => agent.read = log
  BY DEF FollowersMissNothing
<1>1. log \in Seq(Lines) /\ dialog.shown \in Seq(Lines) /\ agent.read \in Seq(Lines)
  BY DEF LogInv, Stored, StoreStates, FollowerTypes, Dialogs, Agents
<1>2. PICK n \in Nat : n = Len(log)
  BY <1>1
<1>3. log = [i \in 1..n |-> log[i]]
  BY <1>1, <1>2
<1>4. ASSUME dialog.phase = "idle", ~dialog.active, ~dialog.more, ~dialog.toast PROVE dialog.shown = log
  <2>1. Len(dialog.shown) = n /\ \A i \in 1..n : dialog.shown[i] = log[i]
    BY <1>2, <1>4 DEF LogInv, ShownIsLog
  <2>2. PICK shown \in Seq(Lines) : shown = dialog.shown
    BY <1>1
  <2>3. shown = [i \in 1..n |-> shown[i]]
    BY <2>1, <2>2
  <2> QED
    BY <1>3, <2>1, <2>2, <2>3
<1>5. ASSUME agent.done PROVE agent.read = log
  <2>1. Len(agent.read) = n /\ \A i \in 1..n : agent.read[i] = log[i]
    BY <1>2, <1>5 DEF LogInv, ReadIsLog
  <2>2. PICK read \in Seq(Lines) : read = agent.read
    BY <1>1
  <2>3. read = [i \in 1..n |-> read[i]]
    BY <2>1, <2>2
  <2> QED
    BY <1>3, <2>1, <2>2, <2>3
<1> QED
  BY <1>4, <1>5

(* Type correctness of the recorder, the stored log and its followers. *)
THEOREM LogTypeCorrect == LogSpec => []LogTypeOK
BY LogInvHolds, LogInvTypes, PTL

(* Whatever sizes, quotas and page limits there are, a stored log begins as what
   the worker sent and says where it stops, and a follower that stops has read
   it all (recorder.rs, write_batches and close; db/logs.rs, append_logs and
   logs; LogsDialog.tsx; mcp/tools.rs, fit_events). *)
THEOREM LogsStayWhole == LogSpec => []LogsAreWhole
<1>1. LogInv => LogsAreWhole
  BY LogInvTells, LogInvFollowed DEF LogsAreWhole
<1> QED
  BY LogInvHolds, <1>1, PTL

-----------------------------------------------------------------------------
(* No report is left out of the log *)

(* A record or progress that waits has a time set, and what is batched last is progress. *)
TimeIsSet ==
  /\ writer.logs # <<>> \/ writer.progress # 0 => writer.due
  /\ writer.batch.stage = "progress" => writer.batch.progress # 0

(* The newest progress is the last sent, or what follows it there are records
   and it is what the writer knows last. *)
NewestIn(ch, latest, reported) ==
  \/ \E i \in 1..Len(ch) :
       /\ ~ch[i].log /\ ch[i].progress = reported /\ reported # 0
       /\ \A k \in 1..Len(ch) : k > i => ch[k].log
  \/ latest = reported /\ \A k \in 1..Len(ch) : ch[k].log
LatestOf(waits, batched, last) == IF waits # 0 THEN waits ELSE IF batched # 0 THEN batched ELSE last
StillReports == runs = "on" /\ row = "running" /\ ~writer.lost
ProgressIsKept ==
  StillReports => NewestIn(chan, LatestOf(writer.progress, writer.batch.progress, saved), progressed)

StoredInv == TimeIsSet /\ ProgressIsKept

(* A record sent after it hides no progress. *)
LEMMA NewestBefore ==
  ASSUME NEW ch \in Seq(Writes), NEW latest, NEW reported, NewestIn(ch, latest, reported),
         NEW write \in Writes, write.log, NEW ch2, ch2 = Append(ch, write)
  PROVE  NewestIn(ch2, latest, reported)
<1>1. PICK n \in Nat : n = Len(ch)
  OBVIOUS
<1>2. Len(ch2) = n + 1 /\ ch2[n + 1] = write /\ \A i \in 1..n : ch2[i] = ch[i]
  BY <1>1
<1>3. \A k \in 1..(n + 1) : k \in 1..n \/ ch2[k].log
  <2> TAKE k \in 1..(n + 1)
  <2>1. k \in 1..n \/ k = n + 1
    OBVIOUS
  <2> QED
    BY <1>2, <2>1
<1>4. CASE latest = reported /\ \A k \in 1..n : ch[k].log
  BY <1>2, <1>3, <1>4 DEF NewestIn
<1>5. ASSUME NEW i \in 1..n, ~ch[i].log, ch[i].progress = reported, reported # 0,
             \A k \in 1..n : k > i => ch[k].log
      PROVE  NewestIn(ch2, latest, reported)
  <2>1. i \in 1..(n + 1) /\ ch2[i] = ch[i]
    BY <1>2
  <2>2. \A k \in 1..(n + 1) : k > i => ch2[k].log
    BY <1>2, <1>3, <1>5
  <2> QED
    BY <1>2, <1>5, <2>1, <2>2 DEF NewestIn
<1> QED
  BY <1>1, <1>4, <1>5 DEF NewestIn

(* Progress that is sent is the newest. *)
LEMMA NewestSent ==
  ASSUME NEW ch \in Seq(Writes), NEW latest, NEW write \in Writes, ~write.log, write.progress # 0,
         NEW ch2, ch2 = Append(ch, write)
  PROVE  NewestIn(ch2, latest, write.progress)
<1>1. PICK n \in Nat : n = Len(ch)
  OBVIOUS
<1>2. Len(ch2) = n + 1 /\ ch2[n + 1] = write
  BY <1>1
<1>3. n + 1 \in 1..(n + 1) /\ \A k \in 1..(n + 1) : ~ (k > n + 1)
  OBVIOUS
<1> QED
  BY <1>2, <1>3 DEF NewestIn

(* The writer takes the first write; if that is progress, it is what it knows last. *)
LEMMA NewestTaken ==
  ASSUME NEW ch \in Seq(Writes), ch # <<>>, NEW latest, NEW reported, NewestIn(ch, latest, reported),
         NEW write, write = ch[1], NEW rest, rest = Tail(ch),
         NEW now, IF write.log THEN now = latest ELSE write.progress # 0 => now = write.progress
  PROVE  NewestIn(rest, now, reported)
<1>1. PICK n \in Nat : n = Len(ch) /\ 1 \in 1..n
  OBVIOUS
<1>2. Len(rest) = n - 1 /\ \A i \in 1..(n - 1) : i + 1 \in 1..n /\ rest[i] = ch[i + 1]
  BY <1>1
<1>3. CASE latest = reported /\ \A k \in 1..n : ch[k].log
  <2>1. write.log /\ now = reported
    BY <1>1, <1>3
  <2> QED
    BY <1>2, <1>3, <2>1 DEF NewestIn
<1>4. ASSUME NEW i \in 1..n, ~ch[i].log, ch[i].progress = reported, reported # 0,
             \A k \in 1..n : k > i => ch[k].log
      PROVE  NewestIn(rest, now, reported)
  <2>1. CASE i = 1
    <3>1. now = reported
      BY <1>4, <2>1
    <3>2. \A k \in 1..(n - 1) : rest[k].log
      <4> TAKE k \in 1..(n - 1)
      <4>1. k + 1 \in 1..n /\ k + 1 > i
        BY <1>2, <2>1
      <4> QED
        BY <1>2, <1>4, <4>1
    <3> QED
      BY <1>2, <3>1, <3>2 DEF NewestIn
  <2>2. CASE i # 1
    <3>1. PICK j \in 1..(n - 1) : j + 1 = i
      <4>1. i - 1 \in 1..(n - 1) /\ (i - 1) + 1 = i
        BY <2>2
      <4> QED
        BY <4>1
    <3>2. rest[j] = ch[i]
      BY <1>2, <3>1
    <3>3. \A k \in 1..(n - 1) : k > j => rest[k].log
      <4> TAKE k \in 1..(n - 1)
      <4> HAVE k > j
      <4>1. k + 1 \in 1..n /\ k + 1 > i
        BY <1>2, <3>1
      <4> QED
        BY <1>2, <1>4, <4>1
    <3> QED
      BY <1>2, <1>4, <3>2, <3>3 DEF NewestIn
  <2> QED
    BY <2>1, <2>2
<1> QED
  BY <1>1, <1>3, <1>4 DEF NewestIn

(* Every step keeps that a time is set. *)
LEMMA TimeIsSetStep ==
  ASSUME RecorderTypes, Stages, TimeIsSet, LogNext \/ UNCHANGED logVars
  PROVE  TimeIsSet'
<1> USE DEF TimeIsSet
<1>t. /\ writer \in [logs : Seq(Records), progress : 0..MaxReports, due : BOOLEAN, recent : BOOLEAN,
                     batch : Batches, lost : BOOLEAN, done : BOOLEAN]
      /\ writer \in WriterStates /\ chan \in Seq(Writes)
  BY DEF RecorderTypes, WriterStates
<1>n. NoBatch.stage = "idle"
  BY DEF NoBatch, Batch
<1>0. CASE UNCHANGED writer
  BY <1>0
<1>1. ASSUME NEW w \in WriterStates, writer' = Flushed(w) PROVE TimeIsSet'
  <2>1. PICK f : f = Flushed(w)
    OBVIOUS
  <2>2. f.logs = <<>> /\ (f.progress # 0 => f.due) /\ f.batch.stage # "progress"
    BY <2>1, FlushedIs
  <2> QED
    BY <1>1, <2>1, <2>2
<1>2. CASE Take
  <2>1. PICK write \in Writes : write = Head(chan)
    BY <1>2, <1>t DEF Take
  <2>2. CASE write.log
    <3>1. PICK w : w = [writer EXCEPT !.logs = Append(@, write.record), !.due = TRUE]
      OBVIOUS
    <3>2. w \in WriterStates /\ w.batch = writer.batch /\ w.due
      <4>1. Append(writer.logs, write.record) \in Seq(Records)
        BY <1>t, <2>2, WritesAre
      <4> QED
        BY <1>t, <3>1, <4>1 DEF WriterStates
    <3>3. writer' \in {Flushed(w), w}
      BY <1>2, <2>1, <2>2, <3>1 DEF Take
    <3>4. CASE writer' = Flushed(w)
      BY <1>1, <3>2, <3>4
    <3>5. CASE writer' = w
      BY <3>2, <3>5
    <3> QED
      BY <3>3, <3>4, <3>5
  <2>3. CASE ~write.log
    <3>1. writer' = [writer EXCEPT !.progress = write.progress, !.due = TRUE]
      BY <1>2, <2>1, <2>3 DEF Take
    <3>2. writer'.due /\ writer'.batch = writer.batch
      BY <1>t, <3>1
    <3> QED
      BY <3>2
  <2> QED
    BY <2>2, <2>3
<1>3. CASE Due
  BY <1>1, <1>3, <1>t DEF Due
<1>4. CASE IntervalPasses
  <2>1. /\ writer'.logs = writer.logs /\ writer'.progress = writer.progress
        /\ writer'.due = writer.due /\ writer'.batch = writer.batch
    BY <1>4, <1>t DEF IntervalPasses
  <2> QED
    BY <2>1
<1>5. ASSUME NEW batch, writer' = [writer EXCEPT !.batch = batch], batch.stage = "progress" => batch.progress # 0
      PROVE  TimeIsSet'
  <2>1. /\ writer'.logs = writer.logs /\ writer'.progress = writer.progress
        /\ writer'.due = writer.due /\ writer'.batch = batch
    BY <1>5, <1>t
  <2> QED
    BY <1>5, <2>1
<1>6. CASE AppendLogs
  <2>1. PICK batch : batch = IF writer.batch.progress = 0 THEN NoBatch ELSE Batch("progress", <<>>, writer.batch.progress)
    OBVIOUS
  <2>2. writer' = [writer EXCEPT !.batch = batch] /\ (batch.stage = "progress" => batch.progress # 0)
    BY <1>6, <1>t, <2>1 DEF AppendLogs, NoBatch, Batch
  <2> QED
    BY <1>5, <2>2
<1>7. CASE SetProgress
  BY <1>5, <1>7, <1>n DEF SetProgress
<1>8. CASE FlushFails
  <2>1. writer' = [writer EXCEPT !.batch = NoBatch, !.lost = TRUE]
    BY <1>8 DEF FlushFails
  <2>2. /\ writer'.logs = writer.logs /\ writer'.progress = writer.progress
        /\ writer'.due = writer.due /\ writer'.batch = NoBatch
    BY <1>t, <2>1
  <2> QED
    BY <1>n, <2>2
<1>9. CASE LastFlush
  <2>1. PICK batch : batch = IF writer.logs = <<>> THEN NoBatch ELSE Batch("logs", writer.logs, 0)
    OBVIOUS
  <2>2. /\ writer' = [writer EXCEPT !.done = TRUE, !.logs = <<>>, !.progress = 0, !.due = FALSE, !.batch = batch]
        /\ batch.stage # "progress"
    BY <1>9, <2>1 DEF LastFlush, NoBatch, Batch
  <2>3. writer'.logs = <<>> /\ writer'.progress = 0 /\ writer'.batch = batch
    BY <1>t, <2>2
  <2> QED
    BY <2>2, <2>3
<1>10. CASE Crash
  <2>1. writer' = [writer EXCEPT !.logs = <<>>, !.progress = 0, !.due = FALSE, !.batch = NoBatch]
    BY <1>10 DEF Crash
  <2>2. writer'.logs = <<>> /\ writer'.progress = 0 /\ writer'.batch = NoBatch
    BY <1>t, <2>1
  <2> QED
    BY <1>n, <2>2
<1>11. CASE FollowersOnly \/ (\E size \in Sizes : Report(size)) \/ ReportProgress \/ Close \/ Finish \/ Reap
  BY <1>0, <1>11 DEF FollowersOnly, recorderVars, Report, ReportProgress, Close, Finish, Reap
<1> QED
  BY <1>2, <1>3, <1>4, <1>6, <1>7, <1>8, <1>9, <1>10, <1>11, FollowersLeave DEF LogNext, RecorderStep

(* Every step keeps the newest progress where it will be stored. *)
LEMMA ProgressIsKeptStep ==
  ASSUME RecorderTypes, ProgressWasReported, Stages, TimeIsSet, ProgressIsKept, LogNext \/ UNCHANGED logVars
  PROVE  ProgressIsKept'
<1> DEFINE Latest == LatestOf(writer.progress, writer.batch.progress, saved)
<1>t. /\ writer \in [logs : Seq(Records), progress : 0..MaxReports, due : BOOLEAN, recent : BOOLEAN,
                     batch : Batches, lost : BOOLEAN, done : BOOLEAN]
      /\ writer \in WriterStates /\ chan \in Seq(Writes) /\ progressed \in Nat
  BY DEF RecorderTypes, WriterStates
<1>n. NoBatch.progress = 0
  BY DEF NoBatch, Batch
<1>0. ASSUME NEW latest, LatestOf(writer'.progress, writer'.batch.progress, saved') = latest,
             StillReports' => StillReports /\ NewestIn(chan', latest, progressed')
      PROVE  ProgressIsKept'
  BY <1>0 DEF ProgressIsKept
<1>s. ASSUME UNCHANGED <<chan, progressed>>, LatestOf(writer'.progress, writer'.batch.progress, saved') = Latest,
             StillReports' => StillReports
      PROVE  ProgressIsKept'
  BY <1>s DEF ProgressIsKept
<1>e. ASSUME ~StillReports' PROVE ProgressIsKept'
  BY <1>e DEF ProgressIsKept
<1>1. ASSUME NEW size \in Sizes, Report(size) PROVE ProgressIsKept'
  <2>1. PICK write : write = [log |-> TRUE, record |-> [n |-> Len(sent) + 1, size |-> size]]
    OBVIOUS
  <2>2. chan' = Append(chan, write) /\ write.log /\ UNCHANGED <<progressed, writer, saved, runs, row>>
    BY <1>1, <2>1 DEF Report, storeVars
  <2>3. write \in Writes
    <3>1. [n |-> Len(sent) + 1, size |-> size] \in Records
      <4>1. Len(sent) \in Nat /\ MaxReports \in Nat /\ Len(sent) + 1 \in 1..MaxReports
        BY <1>1, <1>t, LogAssumption DEF Report, RecorderTypes
      <4> QED
        BY <4>1 DEF Records
    <3> QED
      BY <2>1, <3>1, WritesAre
  <2>4. ASSUME StillReports PROVE NewestIn(chan', Latest, progressed)
    <3>1. PICK ch2 : ch2 = Append(chan, write)
      OBVIOUS
    <3>2. NewestIn(chan, Latest, progressed)
      BY <2>4 DEF ProgressIsKept
    <3> HIDE DEF Latest
    <3> QED
      BY <1>t, <2>2, <2>3, <3>1, <3>2, NewestBefore
  <2> QED
    BY <2>2, <2>4 DEF ProgressIsKept, StillReports
<1>2. CASE ReportProgress
  <2>1. PICK write : write = [log |-> FALSE, progress |-> progressed + 1]
    OBVIOUS
  <2>2. /\ chan' = Append(chan, write) /\ ~write.log /\ write.progress = progressed' /\ progressed' = progressed + 1
        /\ UNCHANGED <<writer, saved>>
    BY <1>2, <2>1 DEF ReportProgress, storeVars
  <2>3. write \in Writes /\ write.progress # 0
    <3>1. progressed + 1 \in 0..MaxReports
      <4>1. Len(sent) \in Nat /\ MaxReports \in Nat /\ Len(sent) + progressed < MaxReports
        BY <1>2, LogAssumption DEF ReportProgress, RecorderTypes
      <4> QED
        BY <1>t, <4>1
    <3> QED
      BY <1>t, <2>1, <3>1, WritesAre
  <2>4. NewestIn(chan', Latest, progressed')
    <3>1. PICK ch2 : ch2 = Append(chan, write)
      OBVIOUS
    <3>2. NewestIn(ch2, Latest, write.progress)
      <4> HIDE DEF Latest
      <4> QED
        BY <1>t, <2>2, <2>3, <3>1, NewestSent
    <3> QED
      BY <2>2, <3>1, <3>2
  <2> QED
    BY <2>2, <2>4 DEF ProgressIsKept
<1>f. ASSUME NEW w \in WriterStates, w.batch = NoBatch
      PROVE  LatestOf(Flushed(w).progress, Flushed(w).batch.progress, saved) = LatestOf(w.progress, w.batch.progress, saved)
  <2>1. PICK f : f = Flushed(w)
    OBVIOUS
  <2>2. \/ f.progress = 0 /\ f.batch.progress = w.progress
        \/ f.progress = w.progress /\ f.batch.progress = 0
    BY <2>1, FlushedIs
  <2> QED
    BY <1>n, <1>f, <2>1, <2>2 DEF LatestOf
<1>3. CASE Take
  <2>1. PICK write : write = chan[1] /\ write = Head(chan) /\ write \in Writes
    BY <1>3, <1>t DEF Take
  <2>2. chan # <<>> /\ chan' = Tail(chan) /\ writer.batch = NoBatch /\ UNCHANGED <<runs, row, progressed, saved>>
    BY <1>3 DEF Take, Writing, Stages, storeVars
  <2>3. /\ writer'.lost = writer.lost
        /\ IF write.log THEN LatestOf(writer'.progress, writer'.batch.progress, saved) = Latest
           ELSE write.progress # 0 => LatestOf(writer'.progress, writer'.batch.progress, saved) = write.progress
    <3>1. CASE write.log
      <4>1. PICK w : w = [writer EXCEPT !.logs = Append(@, write.record), !.due = TRUE]
        OBVIOUS
      <4>2. w \in WriterStates /\ w.progress = writer.progress /\ w.batch = writer.batch /\ w.lost = writer.lost
        <5>1. Append(writer.logs, write.record) \in Seq(Records)
          BY <1>t, <2>1, <3>1, WritesAre
        <5> QED
          BY <1>t, <4>1, <5>1 DEF WriterStates
      <4>3. writer' \in {Flushed(w), w}
        BY <1>3, <2>1, <3>1, <4>1 DEF Take
      <4>4. Flushed(w).lost = w.lost
        BY <4>2, FlushedIs
      <4>5. LatestOf(w.progress, w.batch.progress, saved) = Latest
        BY <4>2
      <4>6. LatestOf(Flushed(w).progress, Flushed(w).batch.progress, saved) = Latest
        BY <1>f, <2>2, <4>2, <4>5
      <4> HIDE DEF Latest
      <4> QED
        BY <3>1, <4>2, <4>3, <4>4, <4>5, <4>6
    <3>2. CASE ~write.log
      <4>1. writer' = [writer EXCEPT !.progress = write.progress, !.due = TRUE]
        BY <1>3, <2>1, <3>2 DEF Take
      <4>2. writer'.progress = write.progress /\ writer'.lost = writer.lost
        BY <1>t, <4>1
      <4> QED
        BY <3>2, <4>2 DEF LatestOf
    <3> QED
      BY <3>1, <3>2
  <2>4. PICK now : now = LatestOf(writer'.progress, writer'.batch.progress, saved)
    OBVIOUS
  <2>5. ASSUME StillReports PROVE NewestIn(chan', now, progressed)
    <3>1. PICK rest : rest = Tail(chan)
      OBVIOUS
    <3>2. NewestIn(chan, Latest, progressed)
      BY <2>5 DEF ProgressIsKept
    <3>3. IF write.log THEN now = Latest ELSE write.progress # 0 => now = write.progress
      BY <2>3, <2>4
    <3>4. NewestIn(rest, now, progressed)
      <4> HIDE DEF Latest
      <4> QED
        BY <1>t, <2>1, <2>2, <3>1, <3>2, <3>3, NewestTaken
    <3> QED
      BY <2>2, <3>1, <3>4
  <2> QED
    BY <2>2, <2>3, <2>4, <2>5 DEF ProgressIsKept, StillReports
<1>4. CASE Due
  <2>1. writer' = Flushed(writer) /\ writer.batch = NoBatch /\ UNCHANGED <<chan, runs, row, progressed, saved>>
    BY <1>4 DEF Due, Writing, Stages, storeVars
  <2>2. writer'.lost = writer.lost
    BY <1>t, <2>1, FlushedIs
  <2>3. LatestOf(writer'.progress, writer'.batch.progress, saved') = Latest
    BY <1>f, <1>t, <2>1
  <2> QED
    BY <1>s, <2>1, <2>2, <2>3 DEF StillReports
<1>5. CASE IntervalPasses
  <2>1. /\ writer'.progress = writer.progress /\ writer'.batch = writer.batch /\ writer'.lost = writer.lost
        /\ UNCHANGED <<chan, runs, row, progressed, saved>>
    BY <1>5, <1>t DEF IntervalPasses, storeVars
  <2> QED
    BY <1>s, <2>1 DEF StillReports
<1>6. CASE AppendLogs
  <2>1. PICK batch : batch = IF writer.batch.progress = 0 THEN NoBatch ELSE Batch("progress", <<>>, writer.batch.progress)
    OBVIOUS
  <2>2. writer' = [writer EXCEPT !.batch = batch] /\ batch.progress = writer.batch.progress
    BY <1>6, <1>t, <2>1 DEF AppendLogs, NoBatch, Batch
  <2>3. /\ writer'.progress = writer.progress /\ writer'.batch = batch /\ writer'.lost = writer.lost
        /\ UNCHANGED <<chan, runs, row, progressed, saved>>
    BY <1>6, <1>t, <2>2 DEF AppendLogs
  <2> QED
    BY <1>s, <2>2, <2>3 DEF StillReports
<1>7. CASE SetProgress
  <2>1. /\ writer'.progress = writer.progress /\ writer'.batch = NoBatch /\ writer'.lost = writer.lost
        /\ saved' = (IF row = "running" THEN writer.batch.progress ELSE saved)
        /\ UNCHANGED <<chan, runs, row, progressed>>
    BY <1>7, <1>t DEF SetProgress
  <2>2. writer.batch.progress # 0
    BY <1>7 DEF SetProgress, TimeIsSet
  <2>3. CASE row = "running"
    <3>1. LatestOf(writer'.progress, writer'.batch.progress, saved') = Latest
      BY <1>n, <2>1, <2>2, <2>3 DEF LatestOf
    <3> QED
      BY <1>s, <2>1, <3>1 DEF StillReports
  <2>4. CASE row # "running"
    BY <1>e, <2>1, <2>4 DEF StillReports
  <2> QED
    BY <2>3, <2>4
<1>8. CASE FlushFails
  <2>1. writer'.lost
    BY <1>8, <1>t DEF FlushFails
  <2> QED
    BY <1>e, <2>1 DEF StillReports
<1>9. CASE Close \/ LastFlush \/ Finish \/ Crash \/ Reap
  <2>1. ~StillReports'
    BY <1>9 DEF StillReports, Close, LastFlush, Finish, Crash, Reap
  <2> QED
    BY <1>e, <2>1
<1>10. CASE FollowersOnly
  BY <1>s, <1>10 DEF FollowersOnly, recorderVars, storeVars, StillReports
<1> QED
  BY <1>1, <1>2, <1>3, <1>4, <1>5, <1>6, <1>7, <1>8, <1>9, <1>10, FollowersLeave DEF LogNext, RecorderStep

(* So every behaviour has it. *)
LEMMA StoredInvHolds == LogSpec => []StoredInv
<1>1. LogInit => StoredInv
  <2> SUFFICES ASSUME LogInit PROVE StoredInv
    OBVIOUS
  <2>1. writer.logs = <<>> /\ writer.progress = 0 /\ writer.batch = NoBatch /\ saved = 0 /\ progressed = 0 /\ chan = <<>>
    BY DEF LogInit
  <2>2. NoBatch.progress = 0 /\ NoBatch.stage = "idle"
    BY DEF NoBatch, Batch
  <2>3. TimeIsSet
    BY <2>1, <2>2 DEF TimeIsSet
  <2>4. LatestOf(0, 0, 0) = 0 /\ \A k \in 1..Len(chan) : chan[k].log
    BY <2>1 DEF LatestOf
  <2> QED
    BY <2>1, <2>2, <2>3, <2>4 DEF StoredInv, ProgressIsKept, NewestIn
<1>2. LogInv /\ StoredInv /\ [LogNext]_logVars => StoredInv'
  BY TimeIsSetStep, ProgressIsKeptStep DEF StoredInv, LogInv
<1>3. LogSpec => []LogInv
  BY LogInvHolds
<1> QED
  BY <1>1, <1>2, <1>3, PTL DEF LogSpec

(* What is on no way to the log is in it. *)
LEMMA QuietRecords ==
  ASSUME LogInv, chan = <<>>, writer.logs = <<>>, writer.batch = NoBatch, ~writer.lost, runs # "dead", ~usage.truncated
  PROVE  Kept = sent
<1>1. /\ log \in Seq(Lines) /\ sent \in Seq(Records) /\ Stored.log = log /\ Stored.usage = usage
  BY DEF LogInv, RecorderTypes, Stored, StoreStates
<1>2. PICK n \in Nat, all \in Nat : n = Len(log) /\ all = Len(sent)
  BY <1>1
<1>3. Held(Stored) = n
  <2>1. Held(Stored) = n - 0
    BY <1>1, <1>2 DEF Held
  <2> QED
    BY <2>1
<1>4. PICK c \in [0..0 -> 0..Len(sent)] :
        /\ Through(<<>>, sent, c) /\ Waiting(sent, c[0], <<>>, <<>>)
        /\ Tells(Stored, c[0] - Len(<<>>) - Len(<<>>), sent, writer.lost, runs # "dead")
  <2>1. writer.batch.logs = <<>> /\ Len(<<>>) = 0
    BY DEF NoBatch, Batch
  <2> QED
    BY <2>1 DEF LogInv, Pipeline, Flows
<1>5. n = all /\ \A i \in 1..n : log[i] = sent[i]
  <2>1. c[0] = all
    BY <1>2, <1>4 DEF Through
  <2>2. Tells(Stored, all, sent, writer.lost, runs # "dead")
    BY <1>4, <2>1
  <2> QED
    BY <1>1, <1>2, <1>3, <2>2 DEF Tells
<1>6. \A i \in 1..n : log[i] = Marker <=> i > n
  BY <1>1, <1>2 DEF LogInv, Sound
<1>7. Kept = SubSeq(log, 1, n)
  <2>1. n \in 0..Len(log) /\ \A i \in 1..Len(log) : log[i] = Marker <=> i > n
    BY <1>2, <1>6
  <2> QED
    BY <1>1, <2>1, KeptIs
<1>8. SubSeq(log, 1, n) = [i \in 1..n |-> log[i]] /\ sent = [i \in 1..all |-> sent[i]]
  BY <1>1, <1>2
<1> QED
  BY <1>5, <1>7, <1>8

(* When the writer has nothing to take, to flush or to write, whatever a worker
   reported is stored: of ReportsAreStored what is left is that the writer and
   its timers go on (recorder.rs, write_batches and flush). *)
THEOREM ReportsGetStored == LogSpec => []QuietLogIsStored
<1>1. LogInv /\ StoredInv => QuietLogIsStored
  <2> SUFFICES ASSUME LogInv, StoredInv, chan = <<>>, ~writer.due, writer.batch = NoBatch,
                      ~writer.lost, runs # "dead"
               PROVE  /\ Kept = sent \/ usage.truncated
                      /\ saved = progressed \/ runs # "on" \/ row # "running"
    BY DEF QuietLogIsStored, AllIsStored
  <2>1. writer.logs = <<>> /\ writer.progress = 0 /\ writer.batch.progress = 0
    BY DEF StoredInv, TimeIsSet, NoBatch, Batch
  <2>2. Kept = sent \/ usage.truncated
    BY <2>1, QuietRecords
  <2>3. ASSUME runs = "on", row = "running" PROVE saved = progressed
    <3>1. NewestIn(chan, LatestOf(0, 0, saved), progressed)
      BY <2>1, <2>3 DEF StoredInv, ProgressIsKept, StillReports
    <3>2. Len(chan) = 0
      OBVIOUS
    <3> QED
      BY <3>1, <3>2 DEF NewestIn, LatestOf
  <2> QED
    BY <2>2, <2>3
<1>2. LogSpec => []LogInv /\ []StoredInv
  BY LogInvHolds, StoredInvHolds
<1> QED
  BY <1>1, <1>2, PTL

-----------------------------------------------------------------------------
(* The views of a project *)

Numbers == [Facts -> Nat]
TaskStates ==
  {Resting} \cup [at : {"asked"}, wanted : SUBSET Sections]
  \cup [at : {"loaded"}, wanted : SUBSET Sections, status : Nat, spec : Nat]
  \cup [at : {"derived"}, wanted : SUBSET Sections, status : Nat, read : Numbers]

ViewTypes ==
  /\ facts \in Numbers /\ lastValid \in Nat /\ announced \in [OnDisk -> Nat] /\ known \in Nat /\ scanned \in Nat
  /\ published \in [Sections -> Numbers] /\ newest \in [Sections -> Numbers] /\ ofSave \subseteq Sections
  /\ dirty \subseteq Sections /\ tasks \in [Tasks -> TaskStates]

(* Nothing that was read, announced or published is ahead of the facts, nor an event of the newest. *)
NotAhead(task, now) ==
  /\ task.at = "loaded" => task.status <= now["spec"] /\ task.spec <= now["spec"]
  /\ task.at = "derived" => task.status <= now["spec"] /\ \A f \in Facts : task.read[f] <= now[f]
Behind ==
  /\ lastValid <= facts["spec"] /\ \A f \in OnDisk : announced[f] <= facts[f]
  /\ known <= facts["catalog"] /\ facts["index"] <= scanned /\ scanned <= facts["python"]
  /\ \A s \in Sections, f \in Facts : published[s][f] <= newest[s][f] /\ newest[s][f] <= facts[f]
  /\ \A t \in Tasks : NotAhead(tasks[t], facts)

(* A task is asked for nothing while a publication of its own is under way. *)
OneAtATime ==
  /\ indexer \in {"begun", "done"} \/ tasks["index"] = Resting
  /\ watcher = "shows" \/ tasks["files"] = Resting

(* A version is the present one; an invalid director.yaml is passed over. *)
Present(f, v, now) == v = now[f] \/ (f = "spec" /\ now["spec"] \notin ValidSpecs)
ShowsFact(s, f, shown, now) == IF s = "spec" THEN shown[s][f] = now[f] ELSE Present(f, shown[s][f], now)

(* A task that will publish a section with what is new of a fact. *)
Brings(task, s, f, now) ==
  \/ task.at = "asked" /\ s \in task.wanted
  \/ /\ task.at = "loaded" /\ s \in task.wanted
     /\ f = "spec" => task.status = now[f] /\ Present(f, task.spec, now)
  \/ /\ task.at = "derived" /\ s \in task.wanted
     /\ IF s = "spec" THEN task.status = now[f] ELSE Present(f, task.read[f], now)

(* What a task has yet to hear of, and will ask for the section then. *)
ScanAhead == reindex \/ watcher = "shows" \/ indexer \in {"begun", "scans"}
Owed(s, f) ==
  \/ f \in Endings /\ (f \in unheard \/ s \in dirty)
  \/ f = "catalog" /\ known # facts[f]
  \/ f \in OnDisk /\ announced[f] # facts[f]
  \/ f = "spec" /\ s = "latest" /\ ScanAhead
  \/ f = "python" /\ ScanAhead

Followed(s, f) == ShowsFact(s, f, newest, facts) \/ Owed(s, f) \/ \E t \in Tasks : Brings(tasks[t], s, f, facts)
AllFollowed == \A s \in Sections : \A f \in Derivations[s] : Followed(s, f)
ScansFollow ==
  \/ facts["index"] = facts["python"] \/ announced["python"] # facts["python"]
  \/ reindex \/ watcher = "shows" \/ indexer = "begun" \/ (indexer = "scans" /\ scanned = facts["python"])

ViewInv == ViewTypes /\ Behind /\ OneAtATime /\ AllFollowed /\ ScansFollow

(* Which sections are derived from what. *)
LEMMA Derived ==
  /\ \A s \in Sections : Derivations[s] \subseteq Facts
  /\ \A s \in Sections :
       /\ s = "spec" => Derivations[s] = {"spec"}
       /\ "spec" \in Derivations[s] => s \in SpecSections \/ s = "latest"
       /\ "index" \in Derivations[s] \/ "python" \in Derivations[s] => s \in IndexSections
       /\ "catalog" \in Derivations[s] => s \in CatalogSections
       /\ \A e \in Endings : e \in Derivations[s] => s \in AffectedSections(e)
  /\ SpecSections \subseteq Sections /\ IndexSections \subseteq Sections /\ CatalogSections \subseteq Sections
  /\ "scene_index" \in Sections /\ "latest" \in IndexSections
  /\ \A e \in Endings : AffectedSections(e) \subseteq Sections
<1>1. Sections = {"project", "spec", "profiles", "themes", "scenes", "storyboard", "scene_index", "latest",
                  "findings", "doctor"}
  BY DEF Sections, Derivations
<1>2. /\ Derivations["project"] = {"spec", "catalog", "exports"} /\ Derivations["spec"] = {"spec"}
      /\ Derivations["profiles"] = {"spec"} /\ Derivations["themes"] = {"spec", "catalog"}
      /\ Derivations["scenes"] = {"spec", "index"} /\ Derivations["storyboard"] = {"spec", "index"}
      /\ Derivations["scene_index"] = {"index"} /\ Derivations["latest"] = {"spec", "index", "python", "renders"}
      /\ Derivations["findings"] = {"spec", "index", "catalog", "python", "renders", "checks"}
      /\ Derivations["doctor"] = {"checks"}
  BY DEF Derivations
<1> QED
  BY <1>1, <1>2 DEF SpecSections, IndexSections, CatalogSections, Endings, AffectedSections, Facts, OnDisk

(* The tasks of the server and the writers are tasks, and no writer is the indexer or the file task. *)
LEMMA TasksAre ==
  /\ {"index", "files", "catalog", "feed"} \subseteq Tasks /\ Writers \subseteq Tasks
  /\ \A w \in Writers : w # "index" /\ w # "files"
  /\ Resting.at = "rest"
BY WorkspaceAssumption DEF Tasks, Resting

(* What a task is at says what it carries. *)
LEMMA StatesAre ==
  /\ \A W \in SUBSET Sections : Asked(W) \in TaskStates /\ Asked(W).at = "asked" /\ Asked(W).wanted = W
  /\ Resting \in TaskStates
  /\ \A x \in TaskStates :
       /\ x.at \in {"rest", "asked", "loaded", "derived"}
       /\ x.at = "asked" => x.wanted \in SUBSET Sections
       /\ x.at = "loaded" => x.wanted \in SUBSET Sections /\ x.status \in Nat /\ x.spec \in Nat
       /\ x.at = "derived" => x.wanted \in SUBSET Sections /\ x.status \in Nat /\ x.read \in Numbers
<1>1. \A W \in SUBSET Sections : Asked(W) \in TaskStates /\ Asked(W).at = "asked" /\ Asked(W).wanted = W
  BY DEF Asked, TaskStates
<1>2. Resting \in TaskStates
  BY DEF TaskStates
<1>3. ASSUME NEW x \in TaskStates
      PROVE  /\ x.at \in {"rest", "asked", "loaded", "derived"}
             /\ x.at = "asked" => x.wanted \in SUBSET Sections
             /\ x.at = "loaded" => x.wanted \in SUBSET Sections /\ x.status \in Nat /\ x.spec \in Nat
             /\ x.at = "derived" => x.wanted \in SUBSET Sections /\ x.status \in Nat /\ x.read \in Numbers
  <2>1. CASE x = Resting
    BY <2>1 DEF Resting
  <2>2. CASE x \in [at : {"asked"}, wanted : SUBSET Sections]
    BY <2>2
  <2>3. CASE x \in [at : {"loaded"}, wanted : SUBSET Sections, status : Nat, spec : Nat]
    BY <2>3
  <2>4. CASE x \in [at : {"derived"}, wanted : SUBSET Sections, status : Nat, read : Numbers]
    BY <2>4
  <2> QED
    BY <2>1, <2>2, <2>3, <2>4 DEF TaskStates
<1> QED
  BY <1>1, <1>2, <1>3

(* The facts are numbers, of which "index" is the only one set back to another. *)
FactsAre ==
  /\ \A f \in Facts : facts[f] \in Nat
  /\ OnDisk \subseteq Facts /\ Endings \subseteq Facts /\ "catalog" \in Facts /\ "index" \in Facts
  /\ "spec" \in OnDisk /\ "python" \in OnDisk /\ "index" \notin OnDisk /\ "index" \notin Endings
  /\ "catalog" \notin OnDisk /\ "catalog" \notin Endings /\ OnDisk \cap Endings = {}

(* The types say what the facts are. *)
LEMMA FactsHold == ViewTypes => FactsAre
BY DEF ViewTypes, Numbers, FactsAre, Facts, OnDisk, Endings

(* The steps, by what they change. *)
Turned(t, state) == tasks' = [tasks EXCEPT ![t] = state]

(* Something changes that the tasks have yet to hear of. *)
Surprises ==
  \/ \E f \in OnDisk : FileIsEdited(f)
  \/ WorkerReports \/ \E ending \in Endings : JobEnds(ending)

(* A task asks itself for sections. *)
Asks(t, W) == Turned(t, Asked(W)) /\ W \subseteq Sections /\ t \in Tasks /\ tasks[t] = Resting

(* A change from outside is one more version of one fact, and what announces it is kept. *)
LEMMA OutsideIs ==
  ASSUME ViewTypes, Surprises
  PROVE  /\ \E g \in Facts \ {"index"} :
              /\ facts' = [facts EXCEPT ![g] = @ + 1]
              /\ IF g \in Endings THEN unheard' = unheard \cup {g} ELSE unheard' = unheard
         /\ UNCHANGED <<published, newest, ofSave>>
         /\ UNCHANGED <<announced, reindex, indexer, scanned, watcher, known, dirty, tasks, lastValid>>
<1>0. FactsAre
  BY FactsHold
<1>1. ASSUME NEW f \in OnDisk, FileIsEdited(f)
      PROVE  /\ f \in Facts \ {"index"} /\ f \notin Endings
             /\ facts' = [facts EXCEPT ![f] = @ + 1] /\ UNCHANGED <<eventVars, taskVars>>
  BY <1>0, <1>1 DEF FileIsEdited, Change, FactsAre
<1>2. ASSUME WorkerReports
      PROVE  /\ "catalog" \in Facts \ {"index"} /\ "catalog" \notin Endings
             /\ facts' = [facts EXCEPT !["catalog"] = @ + 1] /\ UNCHANGED <<eventVars, taskVars>>
  BY <1>0, <1>2 DEF WorkerReports, Change, FactsAre
<1>3. ASSUME NEW ending \in Endings, JobEnds(ending)
      PROVE  /\ ending \in Facts \ {"index"}
             /\ facts' = [facts EXCEPT ![ending] = @ + 1] /\ unheard' = unheard \cup {ending}
             /\ UNCHANGED <<eventVars, announced, reindex, indexer, scanned, watcher, known, dirty, tasks, lastValid>>
  BY <1>0, <1>3 DEF JobEnds, Change, FactsAre
<1> QED
  BY <1>1, <1>2, <1>3 DEF Surprises, taskVars, eventVars

(* The tasks of the server, what they do apart from deriving. *)
TaskMoves ==
  \/ ClaimReindex \/ ScanBegins \/ FinishRefresh \/ IndexShown \/ ScanFiles \/ FilesShown
  \/ SeesCatalog \/ PublishDirty \/ \E ending \in Endings : HearsEnding(ending)

(* Each step is one of the world, a move of a task, a save or a step of a derivation. *)
LEMMA StepIs ==
  ASSUME WorkNext \/ UNCHANGED workVars
  PROVE  \/ Surprises \/ TaskMoves \/ UNCHANGED workVars
         \/ \E w \in Writers : SaveSpec(w)
         \/ \E t \in Tasks : Loads(t) \/ ReadsRest(t) \/ Publishes(t)
BY TasksAre DEF WorkNext, IndexTask, FilesTask, CatalogTask, FeedTask, Derives, Surprises, TaskMoves

(* Only a publication changes what is shown. *)
LEMMA EventsStay ==
  ASSUME WorkNext \/ UNCHANGED workVars, \A t \in Tasks : ~Publishes(t)
  PROVE  UNCHANGED <<published, newest, ofSave>>
<1>1. ASSUME NEW t \in Tasks, Loads(t) \/ ReadsRest(t) PROVE UNCHANGED eventVars
  BY <1>1 DEF Loads, ReadsRest
<1>2. CASE TaskMoves
  BY <1>2 DEF TaskMoves, ClaimReindex, ScanBegins, FinishRefresh, IndexShown, ScanFiles, FilesShown, SeesCatalog,
              PublishDirty, HearsEnding, eventVars
<1>3. CASE Surprises
  BY <1>3 DEF Surprises, FileIsEdited, WorkerReports, JobEnds, eventVars
<1>4. ASSUME NEW w \in Writers, SaveSpec(w) PROVE UNCHANGED eventVars
  BY <1>4 DEF SaveSpec
<1> QED
  BY <1>1, <1>2, <1>3, <1>4, StepIs DEF eventVars, workVars

(* Of two numbers the greater. *)
LEMMA MaxOfTwo ==
  ASSUME NEW a \in Nat, NEW b \in Nat
  PROVE  Max({a, b}) = IF a > b THEN a ELSE b
<1>1. PICK m : m = IF a > b THEN a ELSE b
  OBVIOUS
<1>2. {a, b} \in SUBSET Int /\ m \in {a, b} /\ \A n \in {a, b} : n <= m
  BY <1>1
<1> QED
  BY <1>1, <1>2, MaxIs

(* What a derivation says of a fact, and nothing of a fact it does not derive from. *)
Said(x, s, f) == IF f \notin Derivations[s] THEN 0 ELSE IF s = "spec" THEN x.status ELSE x.read[f]

(* What an event makes of what was shown, and of the newest. *)
LEMMA PublishesIs ==
  ASSUME ViewTypes, NEW t \in Tasks, Publishes(t)
  PROVE  /\ tasks[t] \in TaskStates /\ tasks[t].at = "derived"
         /\ published' \in [Sections -> Numbers] /\ newest' \in [Sections -> Numbers] /\ ofSave' \subseteq Sections
         /\ \A s \in Sections, f \in Facts :
              /\ Said(tasks[t], s, f) \in Nat
              /\ published'[s][f] = IF s \in tasks[t].wanted THEN Said(tasks[t], s, f) ELSE published[s][f]
              /\ newest'[s][f] = IF newest[s][f] > published'[s][f] THEN newest[s][f] ELSE published'[s][f]
<1>0. PICK x \in TaskStates : x = tasks[t] /\ x.at = "derived"
  BY DEF ViewTypes, Publishes
<1>1. x.status \in Nat /\ x.read \in Numbers /\ x.wanted \in SUBSET Sections
  BY <1>0, StatesAre
<1>2. \A s \in Sections, f \in Facts : Said(x, s, f) \in Nat
  BY <1>1 DEF Said, Numbers
<1>3. \A s \in Sections : Says(t, s) \in Numbers /\ \A f \in Facts : Says(t, s)[f] = Said(x, s, f)
  BY <1>0, <1>2 DEF Says, Said, Numbers
<1>4. published' = [s \in Sections |-> IF s \in x.wanted THEN Says(t, s) ELSE published[s]]
  BY <1>0 DEF Publishes
<1>5. /\ published' \in [Sections -> Numbers]
      /\ \A s \in Sections, f \in Facts :
           published'[s][f] = IF s \in x.wanted THEN Said(x, s, f) ELSE published[s][f]
  BY <1>3, <1>4 DEF ViewTypes
<1>6. \A s \in Sections, f \in Facts : newest[s][f] \in Nat /\ published'[s][f] \in Nat
  BY <1>5 DEF ViewTypes, Numbers
<1>7. newest' = [s \in Sections |-> [f \in Facts |-> Max({newest[s][f], published'[s][f]})]]
  BY DEF Publishes
<1>8. \A s \in Sections, f \in Facts :
        newest'[s][f] = IF newest[s][f] > published'[s][f] THEN newest[s][f] ELSE published'[s][f]
  BY <1>6, <1>7, MaxOfTwo
<1>9. newest' \in [Sections -> Numbers]
  <2>1. \A s \in Sections, f \in Facts : newest'[s][f] \in Nat
    BY <1>6, <1>8
  <2> QED
    BY <1>7, <2>1 DEF Numbers
<1>10. ofSave' \subseteq Sections
  BY <1>0, <1>1 DEF Publishes, ViewTypes
<1> QED
  BY <1>0, <1>2, <1>5, <1>8, <1>9, <1>10

(* Every step keeps the types. *)
LEMMA ViewTypesStep ==
  ASSUME ViewTypes, OneAtATime, WorkNext \/ UNCHANGED workVars
  PROVE  ViewTypes'
<1> USE DEF ViewTypes, eventVars
<1>0. FactsAre /\ \A t \in Tasks : tasks[t] \in TaskStates
  BY FactsHold
<1>a. ASSUME NEW t, NEW W, Asks(t, W) PROVE tasks' \in [Tasks -> TaskStates]
  BY <1>a, StatesAre DEF Asks, Turned
<1>1. CASE Surprises
  <2>1. PICK g \in Facts : facts' = [facts EXCEPT ![g] = facts[g] + 1]
    BY <1>1, OutsideIs
  <2>2. facts' \in Numbers
    BY <1>0, <2>1 DEF Numbers, FactsAre
  <2> QED
    BY <1>1, <2>2, OutsideIs
<1>2. ASSUME NEW t \in Tasks, Loads(t) PROVE ViewTypes'
  <2>1. lastValid' \in Nat /\ facts["spec"] \in Nat
    BY <1>0, <1>2 DEF Loads, FactsAre
  <2>2. PICK x : x = [at |-> "loaded", wanted |-> tasks[t].wanted, status |-> facts["spec"], spec |-> lastValid']
    OBVIOUS
  <2>3. tasks[t].wanted \in SUBSET Sections
    BY <1>0, <1>2, StatesAre DEF Loads
  <2>4. x \in TaskStates
    BY <2>1, <2>2, <2>3 DEF TaskStates
  <2>5. tasks' = [tasks EXCEPT ![t] = x]
    BY <1>2, <2>2 DEF Loads
  <2> QED
    BY <1>2, <2>1, <2>4, <2>5 DEF Loads
<1>3. ASSUME NEW t \in Tasks, ReadsRest(t) PROVE ViewTypes'
  <2>1. PICK r : r = [facts EXCEPT !["spec"] = tasks[t].spec]
    OBVIOUS
  <2>2. PICK x : x = [at |-> "derived", wanted |-> tasks[t].wanted, status |-> tasks[t].status, read |-> r]
    OBVIOUS
  <2>3. tasks[t].wanted \in SUBSET Sections /\ tasks[t].status \in Nat /\ tasks[t].spec \in Nat
    BY <1>0, <1>3, StatesAre DEF ReadsRest
  <2>4. r \in Numbers
    BY <2>1, <2>3 DEF Numbers
  <2>5. x \in TaskStates
    BY <2>2, <2>3, <2>4 DEF TaskStates
  <2>6. tasks' = [tasks EXCEPT ![t] = x]
    BY <1>3, <2>1, <2>2 DEF ReadsRest
  <2> QED
    BY <1>3, <2>5, <2>6 DEF ReadsRest
<1>4. ASSUME NEW t \in Tasks, Publishes(t) PROVE ViewTypes'
  <2>1. tasks' \in [Tasks -> TaskStates]
    BY <1>4, StatesAre DEF Publishes
  <2> QED
    BY <1>4, <2>1, PublishesIs DEF Publishes
<1>5. CASE \E w \in Writers : SaveSpec(w)
  <2>1. PICK w \in Writers : SaveSpec(w)
    BY <1>5
  <2>2. facts' = [facts EXCEPT !["spec"] = facts["spec"] + 1] /\ facts' \in Numbers
    BY <1>0, <2>1 DEF SaveSpec, Change, FactsAre, Numbers
  <2>3. announced' = [announced EXCEPT !["spec"] = facts'["spec"]] /\ facts'["spec"] \in Nat
    BY <1>0, <2>1, <2>2 DEF SaveSpec, Numbers, FactsAre
  <2>4. announced' \in [OnDisk -> Nat]
    BY <2>3
  <2>5. Asks(w, SpecSections)
    BY <2>1, TasksAre, Derived DEF SaveSpec, Asks, Turned
  <2> QED
    BY <1>a, <2>1, <2>2, <2>4, <2>5 DEF SaveSpec
<1>6. CASE TaskMoves
  <2>1. \A t \in {"index", "files", "catalog", "feed"} : t \in Tasks
    BY TasksAre
  <2>2. CASE ClaimReindex
    <3>1. Asks("index", {"scene_index"})
      BY <2>1, <2>2, Derived DEF ClaimReindex, Asks, Turned, OneAtATime
    <3> QED
      BY <1>a, <2>2, <3>1 DEF ClaimReindex
  <2>3. CASE FinishRefresh
    <3>1. Asks("index", IndexSections)
      BY <2>1, <2>3, Derived DEF FinishRefresh, Asks, Turned, OneAtATime
    <3>2. facts' \in Numbers
      BY <2>3 DEF FinishRefresh, Numbers
    <3> QED
      BY <1>a, <2>3, <3>1, <3>2 DEF FinishRefresh
  <2>4. CASE ScanFiles
    <3>1. CASE announced["spec"] # facts["spec"]
      <4>1. Asks("files", SpecSections)
        BY <2>1, <2>4, <3>1, Derived DEF ScanFiles, Asks, Turned, OneAtATime
      <4> QED
        BY <1>0, <1>a, <2>4, <3>1, <4>1 DEF ScanFiles, FactsAre
    <3>2. CASE announced["spec"] = facts["spec"]
      BY <1>0, <2>4, <3>2 DEF ScanFiles, FactsAre
    <3> QED
      BY <3>1, <3>2
  <2>5. CASE SeesCatalog
    <3>1. Asks("catalog", CatalogSections)
      BY <2>1, <2>5, Derived DEF SeesCatalog, Asks, Turned
    <3> QED
      BY <1>0, <1>a, <2>5, <3>1 DEF SeesCatalog, FactsAre
  <2>6. CASE PublishDirty
    <3>1. Asks("feed", dirty)
      BY <2>1, <2>6 DEF PublishDirty, Asks, Turned
    <3> QED
      BY <1>0, <1>a, <2>6, <3>1 DEF PublishDirty, FactsAre
  <2>7. CASE \E ending \in Endings : HearsEnding(ending)
    <3>1. PICK ending \in Endings : HearsEnding(ending)
      BY <2>7
    <3>2. dirty' \subseteq Sections
      BY <3>1, Derived DEF HearsEnding
    <3> QED
      BY <3>1, <3>2 DEF HearsEnding
  <2>8. CASE ScanBegins
    BY <1>0, <2>8 DEF ScanBegins, FactsAre, OnDisk
  <2>9. CASE IndexShown \/ FilesShown
    BY <2>9 DEF IndexShown, FilesShown
  <2> QED
    BY <1>6, <2>2, <2>3, <2>4, <2>5, <2>6, <2>7, <2>8, <2>9 DEF TaskMoves
<1>7. CASE UNCHANGED workVars
  BY <1>7 DEF workVars, taskVars
<1> QED
  BY <1>1, <1>2, <1>3, <1>4, <1>5, <1>6, <1>7, StepIs

(* A task that rests or has been asked has read nothing. *)
LEMMA AskedIsBehind ==
  /\ \A W, now : NotAhead(Asked(W), now)
  /\ \A now : NotAhead(Resting, now)
BY DEF NotAhead, Asked, Resting

(* What a task read is not ahead of facts that go on. *)
LEMMA BehindGoesOn ==
  ASSUME NEW now \in Numbers, NEW g \in Facts, NEW n \in Nat, now[g] <= n, NEW next, next = [now EXCEPT ![g] = n],
         NEW x \in TaskStates, NotAhead(x, now)
  PROVE  NotAhead(x, next)
<1>0. "spec" \in Facts
  BY DEF Facts, OnDisk
<1>1. \A f \in Facts : now[f] <= next[f] /\ now[f] \in Nat /\ next[f] \in Nat
  BY <1>0 DEF Numbers
<1>2. CASE x.at = "loaded"
  <2>1. x.status \in Nat /\ x.spec \in Nat
    BY <1>2, StatesAre
  <2> QED
    BY <1>0, <1>1, <1>2, <2>1 DEF NotAhead
<1>3. CASE x.at = "derived"
  <2>1. x.status \in Nat /\ \A f \in Facts : x.read[f] \in Nat
    BY <1>3, StatesAre DEF Numbers
  <2> QED
    BY <1>0, <1>1, <1>3, <2>1 DEF NotAhead
<1> QED
  BY <1>2, <1>3 DEF NotAhead

(* Nor is anything else. *)
LEMMA BehindStep ==
  ASSUME ViewTypes, ViewTypes', Behind, WorkNext \/ UNCHANGED workVars
  PROVE  Behind'
<1> DEFINE Others == /\ lastValid <= facts["spec"] /\ \A f \in OnDisk : announced[f] <= facts[f]
                     /\ known <= facts["catalog"] /\ facts["index"] <= scanned /\ scanned <= facts["python"]
                     /\ \A s \in Sections, f \in Facts : published[s][f] <= newest[s][f] /\ newest[s][f] <= facts[f]
<1>0. FactsAre /\ "spec" \in Facts /\ "python" \in Facts /\ \A t \in Tasks : tasks[t] \in TaskStates
  BY FactsHold DEF FactsAre, ViewTypes
<1>1. /\ tasks \in [Tasks -> TaskStates] /\ \A t \in Tasks : NotAhead(tasks[t], facts)
      /\ facts \in Numbers /\ published \in [Sections -> Numbers] /\ announced \in [OnDisk -> Nat]
      /\ newest \in [Sections -> Numbers] /\ \A f \in Facts : facts[f] \in Nat
      /\ known \in Nat /\ scanned \in Nat /\ lastValid \in Nat
  BY DEF Behind, ViewTypes, Numbers
<1>o. Others
  BY DEF Behind
<1>q. ASSUME Others', \A t \in Tasks : NotAhead(tasks'[t], facts') PROVE Behind'
  BY <1>q DEF Behind
<1>a. ASSUME NEW t \in Tasks, NEW x, tasks' = [tasks EXCEPT ![t] = x], NotAhead(x, facts'),
             \A u \in Tasks : NotAhead(tasks[u], facts')
      PROVE  \A u \in Tasks : NotAhead(tasks'[u], facts')
  BY <1>a, <1>1
<1>b. ASSUME NEW g \in Facts, NEW n \in Nat, facts[g] <= n, facts' = [facts EXCEPT ![g] = n]
      PROVE  /\ \A u \in Tasks : NotAhead(tasks[u], facts')
             /\ \A f \in Facts : facts[f] <= facts'[f] /\ facts'[f] \in Nat
             /\ \A f \in Facts \ {g} : facts'[f] = facts[f]
             /\ facts'[g] = n
  <2>1. \A u \in Tasks : NotAhead(tasks[u], facts')
    BY <1>1, <1>b, BehindGoesOn
  <2>2. \A f \in Facts : facts'[f] = IF f = g THEN n ELSE facts[f]
    BY <1>1, <1>b DEF Numbers
  <2>3. \A f \in Facts : facts[f] \in Nat /\ n \in Nat /\ facts[g] <= n
    BY <1>1, <1>b
  <2>4. ASSUME NEW f \in Facts PROVE facts[f] <= facts'[f] /\ facts'[f] \in Nat
    BY <2>2, <2>3
  <2> QED
    BY <2>1, <2>2, <2>4
<1>p. \A s \in Sections, f \in Facts : published[s][f] \in Nat /\ newest[s][f] \in Nat
  BY <1>1 DEF Numbers
<1>2. CASE Surprises
  <2>1. PICK g \in Facts \ {"index"} : facts' = [facts EXCEPT ![g] = facts[g] + 1]
    BY <1>2, OutsideIs
  <2>2. UNCHANGED <<published, newest, announced, scanned, known, tasks, lastValid>>
    BY <1>2, OutsideIs
  <2>3. PICK n \in Nat : n = facts[g] + 1
    BY <1>1
  <2>4. /\ \A u \in Tasks : NotAhead(tasks[u], facts')
        /\ \A f \in Facts : facts[f] <= facts'[f] /\ facts'[f] \in Nat
        /\ \A f \in Facts \ {g} : facts'[f] = facts[f]
    <3>1. facts' = [facts EXCEPT ![g] = n] /\ facts[g] <= n
      BY <1>1, <2>1, <2>3
    <3> QED
      BY <1>b, <3>1
  <2>5. Others'
    BY <1>0, <1>1, <1>o, <1>p, <2>1, <2>2, <2>4 DEF FactsAre
  <2> QED
    BY <1>q, <2>2, <2>4, <2>5
<1>3. ASSUME NEW t \in Tasks, Loads(t) PROVE Behind'
  <2>1. PICK x : x = [at |-> "loaded", wanted |-> tasks[t].wanted, status |-> facts["spec"], spec |-> lastValid']
    OBVIOUS
  <2>2. tasks' = [tasks EXCEPT ![t] = x] /\ UNCHANGED <<facts, published, newest, announced, scanned, known>>
    BY <1>3, <2>1 DEF Loads, eventVars
  <2>3. lastValid' <= facts["spec"]
    BY <1>0, <1>1, <1>3, <1>o DEF Loads
  <2>4. NotAhead(x, facts')
    BY <1>0, <1>1, <2>1, <2>2, <2>3 DEF NotAhead
  <2>5. \A u \in Tasks : NotAhead(tasks[u], facts')
    BY <1>1, <2>2
  <2> QED
    BY <1>a, <1>o, <1>q, <2>2, <2>3, <2>4, <2>5
<1>4. ASSUME NEW t \in Tasks, ReadsRest(t) PROVE Behind'
  <2>1. PICK x : x = [at |-> "derived", wanted |-> tasks[t].wanted, status |-> tasks[t].status,
                      read |-> [facts EXCEPT !["spec"] = tasks[t].spec]]
    OBVIOUS
  <2>2. tasks' = [tasks EXCEPT ![t] = x] /\ UNCHANGED <<facts, published, newest, announced, scanned, known, lastValid>>
    BY <1>4, <2>1 DEF ReadsRest, eventVars
  <2>3. tasks[t].status <= facts["spec"] /\ tasks[t].spec <= facts["spec"]
    BY <1>1, <1>4 DEF ReadsRest, NotAhead
  <2>4. \A f \in Facts : x.read[f] <= facts[f]
    BY <1>0, <1>1, <2>1, <2>3 DEF Numbers
  <2>5. NotAhead(x, facts')
    BY <2>1, <2>2, <2>3, <2>4 DEF NotAhead
  <2>6. \A u \in Tasks : NotAhead(tasks[u], facts')
    BY <1>1, <2>2
  <2> QED
    BY <1>a, <1>o, <1>q, <2>2, <2>5, <2>6
<1>5. ASSUME NEW t \in Tasks, Publishes(t) PROVE Behind'
  <2>1. PICK x \in TaskStates : x = tasks[t] /\ x.at = "derived" /\ NotAhead(x, facts)
    BY <1>1, <1>5 DEF Publishes
  <2>2. ASSUME NEW s \in Sections, NEW f \in Facts
        PROVE  published'[s][f] <= newest'[s][f] /\ newest'[s][f] <= facts[f]
    <3>1. s = "spec" /\ f \in Derivations[s] => f = "spec"
      BY Derived
    <3>2. Said(x, s, f) <= facts[f] /\ Said(x, s, f) \in Nat
      BY <1>1, <1>5, <2>1, <3>1, PublishesIs DEF NotAhead, Said
    <3>3. published[s][f] <= newest[s][f] /\ newest[s][f] <= facts[f]
      BY <1>o
    <3>4. /\ published'[s][f] = IF s \in x.wanted THEN Said(x, s, f) ELSE published[s][f]
          /\ newest'[s][f] = IF newest[s][f] > published'[s][f] THEN newest[s][f] ELSE published'[s][f]
      BY <1>5, <2>1, PublishesIs
    <3> QED
      BY <1>1, <1>p, <3>2, <3>3, <3>4
  <2>3. tasks' = [tasks EXCEPT ![t] = Resting] /\ UNCHANGED <<facts, announced, scanned, known, lastValid>>
    BY <1>5 DEF Publishes
  <2>4. Others'
    BY <1>o, <2>2, <2>3
  <2>5. \A u \in Tasks : NotAhead(tasks[u], facts')
    BY <1>1, <2>3
  <2>6. NotAhead(Resting, facts')
    BY AskedIsBehind
  <2> HIDE DEF Others
  <2> QED
    BY <1>a, <1>q, <2>3, <2>4, <2>5, <2>6
<1>6. CASE \E w \in Writers : SaveSpec(w)
  <2>1. PICK w \in Writers : SaveSpec(w)
    BY <1>6
  <2>2. PICK n \in Nat : n = facts["spec"] + 1
    BY <1>0, <1>1
  <2>3. facts' = [facts EXCEPT !["spec"] = n]
    BY <2>1, <2>2 DEF SaveSpec, Change
  <2>4. /\ \A u \in Tasks : NotAhead(tasks[u], facts')
        /\ \A f \in Facts : facts[f] <= facts'[f] /\ facts'[f] \in Nat
        /\ \A f \in Facts \ {"spec"} : facts'[f] = facts[f]
    <3>1. facts["spec"] <= n
      BY <1>0, <1>1, <2>2
    <3> QED
      BY <1>0, <1>b, <2>3, <3>1
  <2>5. /\ announced' = [announced EXCEPT !["spec"] = facts'["spec"]]
        /\ UNCHANGED <<published, newest, scanned, known, lastValid>>
        /\ tasks' = [tasks EXCEPT ![w] = Asked(SpecSections)]
    BY <2>1 DEF SaveSpec, eventVars
  <2>6. Others'
    BY <1>0, <1>1, <1>o, <1>p, <2>4, <2>5 DEF FactsAre
  <2>7. w \in Tasks /\ NotAhead(Asked(SpecSections), facts')
    BY TasksAre, AskedIsBehind
  <2> HIDE DEF Others
  <2> QED
    BY <1>a, <1>q, <2>4, <2>5, <2>6, <2>7
<1>7. CASE TaskMoves /\ ~FinishRefresh
  <2>1. /\ UNCHANGED <<facts, published, newest, lastValid>>
        /\ known' = known \/ known' = facts["catalog"]
        /\ announced' = announced \/ announced' = [f \in OnDisk |-> facts[f]]
        /\ scanned' = scanned \/ scanned' = facts["python"]
        /\ \/ tasks' = tasks
           \/ \E t \in Tasks : \E W : tasks' = [tasks EXCEPT ![t] = Asked(W)]
    BY <1>7, TasksAre DEF TaskMoves, ClaimReindex, ScanBegins, IndexShown, ScanFiles, FilesShown, SeesCatalog,
                          PublishDirty, HearsEnding, eventVars
  <2>2. Others'
    BY <1>0, <1>1, <1>o, <2>1 DEF FactsAre
  <2>3. \A u \in Tasks : NotAhead(tasks[u], facts')
    BY <1>1, <2>1
  <2> HIDE DEF Others
  <2>4. \A u \in Tasks : NotAhead(tasks'[u], facts')
    BY <1>a, <2>1, <2>3, AskedIsBehind
  <2> QED
    BY <1>q, <2>2, <2>4
<1>8. CASE FinishRefresh
  <2>1. facts' = [facts EXCEPT !["index"] = scanned] /\ facts["index"] <= scanned
    BY <1>8, <1>o DEF FinishRefresh
  <2>2. /\ \A u \in Tasks : NotAhead(tasks[u], facts')
        /\ \A f \in Facts : facts[f] <= facts'[f] /\ facts'[f] \in Nat
        /\ \A f \in Facts \ {"index"} : facts'[f] = facts[f]
        /\ facts'["index"] = scanned
    BY <1>0, <1>1, <1>b, <2>1 DEF FactsAre
  <2>3. /\ UNCHANGED <<published, newest, scanned, known, lastValid, announced>>
        /\ tasks' = [tasks EXCEPT !["index"] = Asked(IndexSections)]
    BY <1>8 DEF FinishRefresh, eventVars
  <2>4. Others'
    BY <1>0, <1>1, <1>o, <1>p, <2>2, <2>3 DEF FactsAre, OnDisk
  <2>5. "index" \in Tasks /\ NotAhead(Asked(IndexSections), facts')
    BY TasksAre, AskedIsBehind
  <2> HIDE DEF Others
  <2> QED
    BY <1>a, <1>q, <2>2, <2>3, <2>4, <2>5
<1>9. CASE UNCHANGED workVars
  BY <1>9 DEF workVars, taskVars, eventVars, Behind
<1> QED
  BY <1>2, <1>3, <1>4, <1>5, <1>6, <1>7, <1>8, <1>9, StepIs

(* A task is asked only when it rests. *)
LEMMA OneAtATimeStep ==
  ASSUME ViewTypes, OneAtATime, WorkNext \/ UNCHANGED workVars
  PROVE  OneAtATime'
<1>0. /\ DOMAIN tasks = Tasks /\ tasks \in [Tasks -> TaskStates]
      /\ "index" \in Tasks /\ "files" \in Tasks /\ Resting.at = "rest"
  BY TasksAre DEF ViewTypes
<1>1. CASE Surprises
  BY <1>1, OutsideIs DEF OneAtATime
<1>2. ASSUME NEW t \in Tasks, Loads(t) \/ ReadsRest(t) \/ Publishes(t) PROVE OneAtATime'
  <2>1. /\ tasks[t] # Resting /\ UNCHANGED <<indexer, watcher>>
        /\ \A u \in Tasks : u # t => tasks'[u] = tasks[u]
    BY <1>0, <1>2 DEF Loads, ReadsRest, Publishes
  <2> QED
    BY <1>0, <2>1 DEF OneAtATime
<1>3. ASSUME NEW w \in Writers, SaveSpec(w) PROVE OneAtATime'
  <2>1. w # "index" /\ w # "files"
    BY TasksAre
  <2> QED
    BY <1>0, <1>3, <2>1 DEF SaveSpec, OneAtATime
<1>4. CASE TaskMoves
  BY <1>0, <1>4 DEF OneAtATime, TaskMoves, ClaimReindex, ScanBegins, FinishRefresh, IndexShown, ScanFiles, FilesShown,
                    SeesCatalog, PublishDirty, HearsEnding
<1>5. CASE UNCHANGED workVars
  BY <1>5 DEF workVars, taskVars, OneAtATime
<1> QED
  BY <1>1, <1>2, <1>3, <1>4, <1>5, StepIs

(* The index is of the newest Python files, or a scan of them will come. *)
LEMMA ScansFollowStep ==
  ASSUME ViewTypes, Behind, ScansFollow, WorkNext \/ UNCHANGED workVars
  PROVE  ScansFollow'
<1>0. /\ FactsAre /\ "python" \in Facts /\ "index" \in Facts /\ "spec" \in Facts
      /\ facts \in Numbers /\ facts["python"] \in Nat /\ facts["index"] \in Nat
      /\ scanned \in Nat /\ announced["python"] \in Nat
      /\ facts["index"] <= scanned /\ scanned <= facts["python"] /\ announced["python"] <= facts["python"]
  BY FactsHold DEF FactsAre, ViewTypes, Behind
<1>1. CASE Surprises
  <2>1. PICK g \in Facts \ {"index"} : facts' = [facts EXCEPT ![g] = facts[g] + 1]
    BY <1>1, OutsideIs
  <2>2. UNCHANGED <<announced, reindex, indexer, scanned, watcher>>
    BY <1>1, OutsideIs
  <2>3. facts'["index"] = facts["index"]
    BY <1>0, <2>1 DEF Numbers
  <2>4. facts'["python"] = IF g = "python" THEN facts["python"] + 1 ELSE facts["python"]
    BY <1>0, <2>1 DEF Numbers
  <2>5. CASE g = "python"
    BY <1>0, <2>2, <2>4, <2>5 DEF ScansFollow
  <2>6. CASE g # "python"
    BY <2>2, <2>3, <2>4, <2>6 DEF ScansFollow
  <2> QED
    BY <2>5, <2>6
<1>2. ASSUME NEW t \in Tasks, Loads(t) \/ ReadsRest(t) \/ Publishes(t) PROVE ScansFollow'
  BY <1>2 DEF Loads, ReadsRest, Publishes, ScansFollow
<1>3. ASSUME NEW w \in Writers, SaveSpec(w) PROVE ScansFollow'
  BY <1>3 DEF SaveSpec, ScansFollow
<1>4. CASE FinishRefresh
  <2>1. facts'["index"] = scanned /\ facts'["python"] = facts["python"]
    BY <1>0, <1>4 DEF FinishRefresh, Numbers
  <2>2. UNCHANGED <<announced, reindex, scanned, watcher>> /\ indexer = "scans"
    BY <1>4 DEF FinishRefresh
  <2> QED
    BY <1>0, <2>1, <2>2 DEF ScansFollow
<1>5. CASE TaskMoves /\ ~FinishRefresh
  BY <1>0, <1>5 DEF TaskMoves, ScansFollow, ClaimReindex, ScanBegins, IndexShown, ScanFiles, FilesShown,
                    SeesCatalog, PublishDirty, HearsEnding
<1>6. CASE UNCHANGED workVars
  BY <1>6 DEF workVars, taskVars, ScansFollow
<1> QED
  BY <1>1, <1>2, <1>3, <1>4, <1>5, <1>6, StepIs

(* Of a fact that did not change as much is shown or on its way as before. *)
LEMMA AsBefore ==
  ASSUME NEW f, NEW now, NEW next, next[f] = now[f]
  PROVE  /\ \A v : Present(f, v, now) <=> Present(f, v, next)
         /\ \A s, shown : ShowsFact(s, f, shown, now) <=> ShowsFact(s, f, shown, next)
         /\ \A task, s : Brings(task, s, f, now) <=> Brings(task, s, f, next)
<1>1. \A v : Present(f, v, now) <=> Present(f, v, next)
  BY DEF Present
<1>2. \A s, shown : ShowsFact(s, f, shown, now) <=> ShowsFact(s, f, shown, next)
  BY <1>1 DEF ShowsFact
<1>3. ASSUME NEW task, NEW s PROVE Brings(task, s, f, now) <=> Brings(task, s, f, next)
  BY <1>1 DEF Brings
<1> QED
  BY <1>1, <1>2, <1>3

(* A task that is asked for a section brings it; one that rests brings nothing. *)
LEMMA AskedBrings ==
  /\ \A W \in SUBSET Sections : \A f, now : \A s \in W : Brings(Asked(W), s, f, now)
  /\ \A s, f, now : ~Brings(Resting, s, f, now)
BY StatesAre DEF Brings, Resting, Asked

(* A step that asks a resting task, or none, and forgets no section that is due. *)
LEMMA AskingFollows ==
  ASSUME ViewTypes, NEW s, NEW f, Followed(s, f), facts'[f] = facts[f], newest' = newest,
         NEW t, NEW W, tasks' = tasks \/ Asks(t, W),
         Owed(s, f) => Owed(s, f)' \/ (Asks(t, W) /\ s \in W)
  PROVE  Followed(s, f)'
<1>0. tasks \in [Tasks -> TaskStates]
  BY DEF ViewTypes
<1>1. CASE ShowsFact(s, f, newest, facts)
  <2>1. ShowsFact(s, f, newest, facts')
    BY <1>1, AsBefore
  <2> QED
    BY <2>1 DEF Followed
<1>2. ASSUME NEW u \in Tasks, Brings(tasks[u], s, f, facts) PROVE Followed(s, f)'
  <2>1. tasks'[u] = tasks[u]
    BY <1>0, <1>2, AskedBrings DEF Asks, Turned
  <2>2. Brings(tasks'[u], s, f, facts')
    BY <1>2, <2>1, AsBefore
  <2> QED
    BY <2>2 DEF Followed
<1>3. CASE Asks(t, W) /\ s \in W
  <2>1. tasks'[t] = Asked(W) /\ t \in Tasks
    BY <1>0, <1>3 DEF Asks, Turned
  <2>2. Brings(tasks'[t], s, f, facts')
    BY <1>3, <2>1, AskedBrings DEF Asks
  <2> QED
    BY <2>1, <2>2 DEF Followed
<1>4. CASE Owed(s, f)'
  BY <1>4 DEF Followed
<1> QED
  BY <1>1, <1>2, <1>3, <1>4 DEF Followed

(* A derivation brings what its task was asked for. *)
LEMMA LoadsFollows ==
  ASSUME ViewTypes, NEW s \in Sections, NEW f \in Derivations[s], Followed(s, f), NEW t \in Tasks, Loads(t) \/ ReadsRest(t)
  PROVE  Followed(s, f)'
<1>0. /\ tasks \in [Tasks -> TaskStates] /\ facts \in Numbers /\ f \in Facts
      /\ UNCHANGED <<facts, newest, announced, reindex, indexer, watcher, known, unheard, dirty>>
  BY Derived DEF ViewTypes, Loads, ReadsRest, eventVars
<1>1. CASE ShowsFact(s, f, newest, facts)
  BY <1>0, <1>1 DEF Followed
<1>2. CASE Owed(s, f)
  <2>1. Owed(s, f)'
    BY <1>0, <1>2 DEF Owed, ScanAhead
  <2> QED
    BY <2>1 DEF Followed
<1>3. ASSUME NEW u \in Tasks, Brings(tasks[u], s, f, facts) PROVE Followed(s, f)'
  <2>1. CASE u # t
    <3>1. tasks'[u] = tasks[u]
      BY <1>0, <2>1 DEF Loads, ReadsRest
    <3> QED
      BY <1>0, <1>3, <3>1 DEF Followed
  <2>2. CASE u = t /\ Loads(t)
    <3>1. PICK x : x = [at |-> "loaded", wanted |-> tasks[t].wanted, status |-> facts["spec"], spec |-> lastValid']
      OBVIOUS
    <3>2. tasks'[t] = x /\ tasks[t].at = "asked"
      BY <1>0, <2>2, <3>1 DEF Loads
    <3>3. s \in x.wanted
      BY <1>3, <2>2, <3>1, <3>2 DEF Brings
    <3>4. Present("spec", x.spec, facts)
      BY <2>2, <3>1 DEF Loads, Present
    <3>5. Brings(x, s, f, facts)
      BY <3>1, <3>3, <3>4 DEF Brings
    <3> QED
      BY <1>0, <3>2, <3>5 DEF Followed
  <2>3. CASE u = t /\ ReadsRest(t)
    <3>1. PICK x : x = [at |-> "derived", wanted |-> tasks[t].wanted, status |-> tasks[t].status,
                        read |-> [facts EXCEPT !["spec"] = tasks[t].spec]]
      OBVIOUS
    <3>2. tasks'[t] = x /\ tasks[t].at = "loaded"
      BY <1>0, <2>3, <3>1 DEF ReadsRest
    <3>3. s \in x.wanted /\ (f = "spec" => x.status = facts[f] /\ Present(f, tasks[t].spec, facts))
      BY <1>3, <2>3, <3>1, <3>2 DEF Brings
    <3>4. x.read[f] = IF f = "spec" THEN tasks[t].spec ELSE facts[f]
      BY <1>0, <3>1 DEF Numbers
    <3>5. s = "spec" => f = "spec"
      BY Derived
    <3>6. Present(f, x.read[f], facts)
      BY <3>3, <3>4 DEF Present
    <3>7. Brings(x, s, f, facts)
      BY <3>1, <3>3, <3>5, <3>6 DEF Brings
    <3> QED
      BY <1>0, <3>2, <3>7 DEF Followed
  <2> QED
    BY <2>1, <2>2, <2>3
<1> QED
  BY <1>1, <1>2, <1>3 DEF Followed

(* What it publishes is no newer than the facts, and of what is due as new as they. *)
LEMMA PublishesFollows ==
  ASSUME ViewTypes, Behind, NEW s \in Sections, NEW f \in Derivations[s], Followed(s, f), NEW t \in Tasks, Publishes(t)
  PROVE  Followed(s, f)'
<1>0. /\ tasks \in [Tasks -> TaskStates] /\ facts \in Numbers /\ newest \in [Sections -> Numbers]
      /\ f \in Facts /\ facts[f] \in Nat /\ newest[s][f] \in Nat /\ newest[s][f] <= facts[f]
      /\ published[s][f] \in Nat /\ published[s][f] <= newest[s][f]
      /\ UNCHANGED <<facts, announced, reindex, indexer, watcher, known, unheard, dirty>>
  BY Derived DEF ViewTypes, Behind, Publishes, Numbers
<1>1. PICK x \in TaskStates : x = tasks[t] /\ x.at = "derived" /\ NotAhead(x, facts)
  BY <1>0 DEF Publishes, Behind
<1>2. PICK v : v = IF s = "spec" THEN x.status ELSE x.read[f]
  OBVIOUS
<1>3. v \in Nat /\ v <= facts[f]
  <2>1. x.status \in Nat /\ x.read \in Numbers
    BY <1>1, StatesAre
  <2>2. s = "spec" => f = "spec"
    BY Derived
  <2> QED
    BY <1>0, <1>1, <1>2, <2>1, <2>2 DEF NotAhead, Numbers
<1>4. /\ published'[s][f] = IF s \in x.wanted THEN v ELSE published[s][f]
      /\ newest'[s][f] = IF newest[s][f] > published'[s][f] THEN newest[s][f] ELSE published'[s][f]
  BY <1>0, <1>1, <1>2, PublishesIs DEF Said
<1>5. /\ newest[s][f] = facts[f] => newest'[s][f] = facts[f]
      /\ s \in x.wanted /\ v = facts[f] => newest'[s][f] = facts[f]
  BY <1>0, <1>3, <1>4
<1>6. CASE ShowsFact(s, f, newest, facts)
  BY <1>0, <1>5, <1>6 DEF Followed, ShowsFact, Present
<1>7. CASE Owed(s, f)
  <2>1. Owed(s, f)'
    BY <1>0, <1>7 DEF Owed, ScanAhead
  <2> QED
    BY <2>1 DEF Followed
<1>8. ASSUME NEW u \in Tasks, Brings(tasks[u], s, f, facts) PROVE Followed(s, f)'
  <2>1. CASE u # t
    <3>1. tasks'[u] = tasks[u]
      BY <1>0, <2>1 DEF Publishes
    <3> QED
      BY <1>0, <1>8, <3>1 DEF Followed
  <2>2. CASE u = t
    <3>1. s \in x.wanted /\ IF s = "spec" THEN v = facts[f] ELSE Present(f, v, facts)
      BY <1>1, <1>2, <1>8, <2>2 DEF Brings
    <3>2. ShowsFact(s, f, newest', facts)
      BY <1>5, <3>1 DEF ShowsFact, Present
    <3> QED
      BY <1>0, <3>2 DEF Followed
  <2> QED
    BY <2>1, <2>2
<1> QED
  BY <1>6, <1>7, <1>8 DEF Followed

(* Who must tell the tasks of a change does. *)
LEMMA OutsideFollows ==
  ASSUME ViewTypes, Behind, NEW s \in Sections, NEW f \in Derivations[s], Followed(s, f), Surprises
  PROVE  Followed(s, f)'
<1>0. /\ facts \in Numbers /\ f \in Facts /\ facts[f] \in Nat
      /\ UNCHANGED <<newest, announced, reindex, indexer, watcher, known, dirty, tasks>>
  BY Derived, OutsideIs DEF ViewTypes, Numbers
<1>1. PICK g \in Facts \ {"index"} :
        /\ facts' = [facts EXCEPT ![g] = facts[g] + 1]
        /\ IF g \in Endings THEN unheard' = unheard \cup {g} ELSE unheard' = unheard
  BY OutsideIs
<1>2. CASE f = g
  <2>1. facts'[f] = facts[f] + 1
    BY <1>0, <1>1, <1>2 DEF Numbers
  <2>2. f \in Endings \/ f \in OnDisk \/ f = "catalog"
    BY <1>1, <1>2 DEF Facts
  <2>3. /\ f \in OnDisk => announced[f] \in Nat /\ announced[f] <= facts[f]
        /\ f = "catalog" => known \in Nat /\ known <= facts[f]
    BY DEF ViewTypes, Behind
  <2>4. Owed(s, f)'
    BY <1>0, <1>1, <1>2, <2>1, <2>2, <2>3 DEF Owed
  <2> QED
    BY <2>4 DEF Followed
<1>3. CASE f # g
  <2>1. facts'[f] = facts[f]
    BY <1>0, <1>1, <1>3 DEF Numbers
  <2>2. Owed(s, f) => Owed(s, f)'
    BY <1>0, <1>1, <2>1 DEF Owed, ScanAhead
  <2> QED
    BY <1>0, <2>1, <2>2, AskingFollows
<1> QED
  BY <1>2, <1>3

(* A save announces its own version and asks for what it affects. *)
LEMMA SaveFollows ==
  ASSUME ViewTypes, NEW s \in Sections, NEW f \in Derivations[s], Followed(s, f), NEW w \in Writers, SaveSpec(w)
  PROVE  Followed(s, f)'
<1>0. /\ facts \in Numbers /\ f \in Facts /\ announced \in [OnDisk -> Nat] /\ "spec" \in OnDisk
      /\ Asks(w, SpecSections) /\ reindex' = TRUE
      /\ facts' = [facts EXCEPT !["spec"] = facts["spec"] + 1]
      /\ announced' = [announced EXCEPT !["spec"] = facts'["spec"]]
      /\ UNCHANGED <<newest, indexer, watcher, known, unheard, dirty>>
  BY Derived, TasksAre DEF ViewTypes, SaveSpec, Change, Asks, Turned, OnDisk, eventVars
<1>1. CASE f = "spec" /\ s = "latest"
  <2>1. Owed(s, f)'
    BY <1>0, <1>1 DEF Owed, ScanAhead
  <2> QED
    BY <2>1 DEF Followed
<1>2. CASE f = "spec" /\ s # "latest"
  <2>1. s \in SpecSections
    BY <1>2, Derived
  <2>2. tasks'[w] = Asked(SpecSections) /\ w \in Tasks
    BY <1>0 DEF Asks, Turned, ViewTypes
  <2>3. Brings(tasks'[w], s, f, facts')
    BY <2>1, <2>2, AskedBrings, Derived
  <2> QED
    BY <2>2, <2>3 DEF Followed
<1>3. CASE f # "spec"
  <2>1. facts'[f] = facts[f]
    BY <1>0, <1>3 DEF Numbers
  <2>2. Owed(s, f) => Owed(s, f)'
    BY <1>0, <1>3, <2>1 DEF Owed, ScanAhead
  <2> QED
    BY <1>0, <2>1, <2>2, AskingFollows
<1> QED
  BY <1>1, <1>2, <1>3

(* Whatever a task stops owing it asks for. *)
LEMMA MovesFollow ==
  ASSUME ViewTypes, OneAtATime, NEW s \in Sections, NEW f \in Derivations[s], Followed(s, f), TaskMoves
  PROVE  Followed(s, f)'
<1> USE DEF eventVars
<1>0. /\ facts \in Numbers /\ f \in Facts /\ announced \in [OnDisk -> Nat] /\ FactsAre
      /\ \A t \in {"index", "files", "catalog", "feed"} : t \in Tasks
  BY Derived, TasksAre, FactsHold DEF ViewTypes
<1>d. /\ "spec" \in Derivations[s] => s \in SpecSections \/ s = "latest"
      /\ "index" \in Derivations[s] \/ "python" \in Derivations[s] => s \in IndexSections
      /\ "catalog" \in Derivations[s] => s \in CatalogSections
      /\ \A e \in Endings : e \in Derivations[s] => s \in AffectedSections(e)
      /\ "latest" \in IndexSections
      /\ SpecSections \subseteq Sections /\ IndexSections \subseteq Sections /\ CatalogSections \subseteq Sections
      /\ {"scene_index"} \subseteq Sections
  BY Derived
<1>1. CASE ClaimReindex
  <2>1. Asks("index", {"scene_index"})
    BY <1>0, <1>1, <1>d DEF ClaimReindex, Asks, Turned, OneAtATime
  <2>2. Owed(s, f) => Owed(s, f)'
    BY <1>1 DEF ClaimReindex, Owed, ScanAhead
  <2> QED
    BY <1>1, <2>1, <2>2, AskingFollows DEF ClaimReindex
<1>2. CASE FinishRefresh
  <2>1. Asks("index", IndexSections)
    BY <1>0, <1>2, <1>d DEF FinishRefresh, Asks, Turned, OneAtATime
  <2>2. tasks'["index"] = Asked(IndexSections) /\ "index" \in Tasks
    BY <2>1 DEF Asks, Turned, ViewTypes
  <2>3. CASE s \in IndexSections
    <3>1. Brings(tasks'["index"], s, f, facts')
      BY <1>d, <2>2, <2>3, AskedBrings
    <3> QED
      BY <2>2, <3>1 DEF Followed
  <2>4. CASE s \notin IndexSections
    <3>1. f # "index" /\ f # "python" /\ s # "latest"
      BY <1>d, <2>4
    <3>2. facts'[f] = facts[f] /\ facts'["catalog"] = facts["catalog"]
      BY <1>0, <1>2, <3>1 DEF FinishRefresh, Numbers
    <3>3. Owed(s, f) => Owed(s, f)'
      BY <1>2, <3>1, <3>2 DEF FinishRefresh, Owed, ScanAhead
    <3> QED
      BY <1>2, <2>1, <3>2, <3>3, AskingFollows DEF FinishRefresh
  <2> QED
    BY <2>3, <2>4
<1>3. CASE ScanFiles /\ announced["spec"] # facts["spec"]
  <2>1. Asks("files", SpecSections) /\ UNCHANGED <<facts, newest>>
    BY <1>0, <1>3, <1>d DEF ScanFiles, Asks, Turned, OneAtATime
  <2>2. Owed(s, f) => Owed(s, f)' \/ s \in SpecSections
    BY <1>3, <1>d DEF ScanFiles, Owed, ScanAhead, OnDisk
  <2> QED
    BY <2>1, <2>2, AskingFollows
<1>4. CASE ScanFiles /\ announced["spec"] = facts["spec"]
  <2>1. UNCHANGED <<facts, newest, tasks>>
    BY <1>4 DEF ScanFiles
  <2>2. Owed(s, f) => Owed(s, f)'
    BY <1>4 DEF ScanFiles, Owed, ScanAhead, OnDisk
  <2> QED
    BY <2>1, <2>2, AskingFollows
<1>5. CASE SeesCatalog
  <2>1. Asks("catalog", CatalogSections) /\ UNCHANGED <<facts, newest>>
    BY <1>0, <1>5, <1>d DEF SeesCatalog, Asks, Turned
  <2>2. Owed(s, f) => Owed(s, f)' \/ s \in CatalogSections
    BY <1>5, <1>d DEF SeesCatalog, Owed, ScanAhead
  <2> QED
    BY <2>1, <2>2, AskingFollows
<1>6. CASE PublishDirty
  <2>1. Asks("feed", dirty) /\ UNCHANGED <<facts, newest>>
    BY <1>0, <1>6 DEF PublishDirty, Asks, Turned, ViewTypes
  <2>2. Owed(s, f) => Owed(s, f)' \/ s \in dirty
    BY <1>6 DEF PublishDirty, Owed, ScanAhead
  <2> QED
    BY <2>1, <2>2, AskingFollows
<1>7. ASSUME NEW ending \in Endings, HearsEnding(ending) PROVE Followed(s, f)'
  <2>1. UNCHANGED <<facts, newest, tasks>>
    BY <1>7 DEF HearsEnding
  <2>2. Owed(s, f) => Owed(s, f)'
    BY <1>7, <1>d DEF HearsEnding, Owed, ScanAhead
  <2> QED
    BY <2>1, <2>2, AskingFollows
<1>8. CASE ScanBegins \/ IndexShown \/ FilesShown
  <2>1. UNCHANGED <<facts, newest, tasks>>
    BY <1>8 DEF ScanBegins, IndexShown, FilesShown
  <2>2. Owed(s, f) => Owed(s, f)'
    BY <1>8 DEF ScanBegins, IndexShown, FilesShown, Owed, ScanAhead
  <2> QED
    BY <2>1, <2>2, AskingFollows
<1> QED
  BY <1>1, <1>2, <1>3, <1>4, <1>5, <1>6, <1>7, <1>8 DEF TaskMoves

(* Each step keeps every section shown or on its way. *)
LEMMA AllFollowedStep ==
  ASSUME ViewTypes, Behind, OneAtATime, AllFollowed, WorkNext \/ UNCHANGED workVars
  PROVE  AllFollowed'
<1>1. SUFFICES ASSUME NEW s \in Sections, NEW f \in Derivations[s] PROVE Followed(s, f)'
  BY DEF AllFollowed
<1>2. Followed(s, f)
  BY DEF AllFollowed
<1>3. CASE UNCHANGED workVars
  BY <1>2, <1>3 DEF workVars, taskVars, eventVars, Followed, Owed, ScanAhead
<1> QED
  BY <1>2, <1>3, StepIs, LoadsFollows, PublishesFollows, OutsideFollows, SaveFollows, MovesFollow

(* The views begin as the invariant says, *)
LEMMA InitViewInv == WorkInit => ViewInv
<1> SUFFICES ASSUME WorkInit PROVE ViewInv
  OBVIOUS
<1>1. /\ facts = [f \in Facts |-> 0] /\ lastValid = 0 /\ announced = [f \in OnDisk |-> 0] /\ reindex = TRUE
      /\ indexer = "waits" /\ scanned = 0 /\ watcher = "waits" /\ known = 0 /\ unheard = {} /\ dirty = {}
      /\ tasks = [t \in Tasks |-> Resting] /\ published = [s \in Sections |-> [f \in Facts |-> 0]]
      /\ newest = published /\ ofSave = {}
  BY DEF WorkInit
<1>2. "index" \in Tasks /\ "files" \in Tasks /\ OnDisk \subseteq Facts /\ "catalog" \in Facts /\ "index" \in Facts
      /\ "python" \in Facts /\ "spec" \in Facts
  BY TasksAre DEF Facts, OnDisk
<1>3. ViewTypes
  BY <1>1, StatesAre DEF ViewTypes, Numbers
<1>4. Behind
  BY <1>1, <1>2, AskedIsBehind DEF Behind
<1>5. OneAtATime
  BY <1>1, <1>2 DEF OneAtATime
<1>6. AllFollowed
  BY <1>1, Derived DEF AllFollowed, Followed, ShowsFact, Present
<1>7. ScansFollow
  BY <1>1 DEF ScansFollow
<1> QED
  BY <1>3, <1>4, <1>5, <1>6, <1>7 DEF ViewInv

(* and each step keeps it. *)
LEMMA ViewInvStep == ViewInv /\ [WorkNext]_workVars => ViewInv'
<1> SUFFICES ASSUME ViewInv, WorkNext \/ UNCHANGED workVars PROVE ViewInv'
  OBVIOUS
<1>1. ViewTypes'
  BY ViewTypesStep DEF ViewInv
<1>2. Behind'
  BY <1>1, BehindStep DEF ViewInv
<1>3. OneAtATime'
  BY OneAtATimeStep DEF ViewInv
<1>4. AllFollowed'
  BY AllFollowedStep DEF ViewInv
<1>5. ScansFollow'
  BY ScansFollowStep DEF ViewInv
<1> QED
  BY <1>1, <1>2, <1>3, <1>4, <1>5 DEF ViewInv

(* Each task is asked for sections of its own; the feed for those of endings. *)
FeedSections == {"latest", "findings", "doctor", "project"}
Share(t) == IF t = "index" THEN IF indexer = "begun" THEN {"scene_index"} ELSE IndexSections
          ELSE IF t = "catalog" THEN CatalogSections ELSE SpecSections
OwnSections ==
  /\ dirty \subseteq FeedSections
  /\ \A t \in Tasks :
       \/ tasks[t] = Resting
       \/ IF t = "feed" THEN tasks[t].wanted \subseteq FeedSections ELSE tasks[t].wanted = Share(t)

(* Who publishes which section. *)
LEMMA OwnersAre ==
  ASSUME ViewTypes, OneAtATime, OwnSections, NEW t \in Tasks, tasks[t] # Resting
  PROVE  /\ "scene_index" \in tasks[t].wanted => t = "index"
         /\ "doctor" \in tasks[t].wanted => t = "feed"
         /\ \A s \in {"scenes", "storyboard"} :
              s \in tasks[t].wanted => t \in Writers \/ t = "files" \/ (t = "index" /\ indexer = "done")
         /\ t = "index" => indexer = "begun" \/ (indexer = "done" /\ IndexSections \subseteq tasks[t].wanted)
         /\ t = "files" => watcher = "shows"
<1>1. IF t = "feed" THEN tasks[t].wanted \subseteq FeedSections ELSE tasks[t].wanted = Share(t)
  BY DEF OwnSections
<1>2. t \in {"index", "files", "catalog", "feed"} \cup Writers
  BY DEF Tasks
<1>3. t = "index" => indexer \in {"begun", "done"}
  BY DEF OneAtATime, ViewTypes
<1>4. t = "files" => watcher = "shows"
  BY DEF OneAtATime, ViewTypes
<1> QED
  BY <1>1, <1>2, <1>3, <1>4 DEF Share, FeedSections, SpecSections, IndexSections, CatalogSections

(* Each step keeps every task to its own sections. *)
LEMMA OwnSectionsStep ==
  ASSUME ViewTypes, OneAtATime, OwnSections, WorkNext \/ UNCHANGED workVars
  PROVE  OwnSections'
<1>0. /\ tasks \in [Tasks -> TaskStates] /\ \A t \in {"index", "files", "catalog", "feed"} : t \in Tasks
      /\ \A w \in Writers : w \in Tasks /\ w \notin {"index", "files", "catalog", "feed"}
  BY TasksAre, WorkspaceAssumption DEF ViewTypes
<1>w. \A W : Asked(W).wanted = W
  BY DEF Asked
<1> DEFINE Suits(t, x) == x = Resting \/ IF t = "feed" THEN x.wanted \subseteq FeedSections ELSE x.wanted = Share(t)
<1>f. dirty \subseteq FeedSections /\ \A t \in Tasks : Suits(t, tasks[t])
  BY DEF OwnSections
<1>1. CASE Surprises
  BY <1>1, OutsideIs DEF OwnSections, Share
<1>2. ASSUME NEW t \in Tasks, Loads(t) \/ ReadsRest(t) \/ Publishes(t) PROVE OwnSections'
  <2>1. UNCHANGED <<indexer, dirty>> /\ tasks[t] # Resting
    BY <1>2, TasksAre DEF Loads, ReadsRest, Publishes
  <2>2. PICK x : tasks' = [tasks EXCEPT ![t] = x] /\ (x = Resting \/ x.wanted = tasks[t].wanted)
    <3>1. CASE Loads(t)
      <4>1. PICK x : x = [at |-> "loaded", wanted |-> tasks[t].wanted, status |-> facts["spec"], spec |-> lastValid']
        OBVIOUS
      <4>2. tasks' = [tasks EXCEPT ![t] = x] /\ x.wanted = tasks[t].wanted
        BY <3>1, <4>1 DEF Loads
      <4> QED
        BY <4>2
    <3>2. CASE ReadsRest(t)
      <4>1. PICK x : x = [at |-> "derived", wanted |-> tasks[t].wanted, status |-> tasks[t].status,
                          read |-> [facts EXCEPT !["spec"] = tasks[t].spec]]
        OBVIOUS
      <4>2. tasks' = [tasks EXCEPT ![t] = x] /\ x.wanted = tasks[t].wanted
        BY <3>2, <4>1 DEF ReadsRest
      <4> QED
        BY <4>2
    <3>3. CASE Publishes(t)
      BY <3>3 DEF Publishes
    <3> QED
      BY <1>2, <3>1, <3>2, <3>3
  <2>3. Suits(t, x)
    BY <1>f, <2>1, <2>2
  <2>4. \A u \in Tasks : Suits(u, tasks'[u])
    BY <1>0, <1>f, <2>2, <2>3
  <2> QED
    BY <1>f, <2>1, <2>4 DEF OwnSections, Share
<1>3. ASSUME NEW w \in Writers, SaveSpec(w) PROVE OwnSections'
  <2>1. tasks' = [tasks EXCEPT ![w] = Asked(SpecSections)] /\ UNCHANGED <<indexer, dirty>>
    BY <1>3 DEF SaveSpec
  <2>2. Suits(w, Asked(SpecSections))
    BY <1>0, <1>w DEF Share
  <2>3. \A u \in Tasks : Suits(u, tasks'[u])
    BY <1>0, <1>f, <2>1, <2>2
  <2> QED
    BY <1>f, <2>1, <2>3 DEF OwnSections, Share
<1>4. CASE ClaimReindex \/ ScanBegins \/ FinishRefresh \/ IndexShown
  <2>1. /\ tasks["index"] = Resting /\ UNCHANGED dirty
        /\ \/ tasks' = tasks
           \/ indexer' = "begun" /\ tasks' = [tasks EXCEPT !["index"] = Asked({"scene_index"})]
           \/ indexer' = "done" /\ tasks' = [tasks EXCEPT !["index"] = Asked(IndexSections)]
    BY <1>4 DEF ClaimReindex, ScanBegins, FinishRefresh, IndexShown, OneAtATime
  <2>2. \A u \in Tasks \ {"index"} : Suits(u, tasks'[u]) /\ tasks'[u] = tasks[u]
    BY <1>0, <1>f, <2>1
  <2>3. tasks'["index"] = Resting \/ tasks'["index"].wanted = Share("index")'
    BY <1>0, <1>w, <2>1 DEF Share
  <2>4. \A u \in Tasks : u # "index" => Share(u)' = Share(u)
    BY DEF Share
  <2> QED
    BY <1>f, <2>1, <2>2, <2>3, <2>4 DEF OwnSections
<1>5. CASE ScanFiles \/ FilesShown \/ SeesCatalog \/ PublishDirty
  <2>1. UNCHANGED indexer /\ dirty' \subseteq FeedSections
    BY <1>5, <1>f DEF ScanFiles, FilesShown, SeesCatalog, PublishDirty
  <2>2. \/ tasks' = tasks
        \/ tasks' = [tasks EXCEPT !["files"] = Asked(SpecSections)]
        \/ tasks' = [tasks EXCEPT !["catalog"] = Asked(CatalogSections)]
        \/ tasks' = [tasks EXCEPT !["feed"] = Asked(dirty)]
    BY <1>5 DEF ScanFiles, FilesShown, SeesCatalog, PublishDirty
  <2>3. /\ Suits("files", Asked(SpecSections)) /\ Suits("catalog", Asked(CatalogSections))
        /\ Suits("feed", Asked(dirty))
    BY <1>f, <1>w DEF Share
  <2>4. \A u \in Tasks : Suits(u, tasks'[u])
    BY <1>0, <1>f, <2>2, <2>3
  <2> QED
    BY <2>1, <2>4 DEF OwnSections, Share
<1>6. ASSUME NEW ending \in Endings, HearsEnding(ending) PROVE OwnSections'
  <2>1. AffectedSections(ending) \subseteq FeedSections
    BY DEF AffectedSections, FeedSections, Endings
  <2> QED
    BY <1>6, <1>f, <2>1 DEF HearsEnding, OwnSections, Share
<1>7. CASE UNCHANGED workVars
  BY <1>7 DEF workVars, taskVars, OwnSections, Share
<1> QED
  BY <1>1, <1>2, <1>3, <1>4, <1>5, <1>6, <1>7, StepIs DEF TaskMoves

(* A fact that a section is not derived from says nothing of it; *)
NothingElse == \A s \in Sections : \A f \in Facts \ Derivations[s] : newest[s][f] = 0

(* what was loaded is no newer than the valid director.yaml that was read last; *)
LoadedIsRead ==
  /\ \A t \in Tasks : /\ tasks[t].at = "loaded" => tasks[t].spec <= lastValid
                      /\ tasks[t].at = "derived" => tasks[t].read["spec"] <= lastValid
  /\ \A s \in Sections \ {"spec"} : newest[s]["spec"] <= lastValid

(* the index does not change while its task shows it; *)
IndexIsRead == indexer = "done" /\ tasks["index"].at = "derived" => tasks["index"].read["index"] = facts["index"]

(* and the sections of one task are read in order. *)
InOrder ==
  \A s \in {"scene_index", "doctor"} : \A t \in Tasks :
    tasks[t].at = "derived" /\ s \in tasks[t].wanted
      => \A f \in Derivations[s] : newest[s][f] <= tasks[t].read[f]

(* The index task shows the spec that is valid now, or will be asked again. *)
ValidNow == IF facts["spec"] \in ValidSpecs THEN facts["spec"] ELSE lastValid
Again == announced["spec"] # facts["spec"] \/ watcher = "shows" \/ reindex
IndexIsValid ==
  indexer = "done" =>
    /\ tasks["index"].at = "loaded" => tasks["index"].spec = ValidNow \/ Again
    /\ tasks["index"].at = "derived" => tasks["index"].read["spec"] = ValidNow \/ Again

(* A list of scenes that is not of the newest was a save's, or is going to be replaced. *)
Redone == Again \/ indexer \in {"begun", "scans"} \/ (indexer = "done" /\ tasks["index"] # Resting)
ListsFollow == \A s \in {"scenes", "storyboard"} \ ofSave : published[s] = newest[s] \/ Redone

PublishedInv ==
  /\ OwnSections /\ NothingElse /\ LoadedIsRead /\ IndexIsRead
  /\ InOrder /\ NothingOvertakes /\ IndexIsValid /\ ListsFollow

(* What a derivation step makes of its task, and that it leaves the others alone. *)
LEMMA DerivesIs ==
  ASSUME ViewTypes, NEW t \in Tasks, Loads(t) \/ ReadsRest(t)
  PROVE  /\ UNCHANGED <<facts, published, newest, ofSave, announced, reindex, indexer, watcher>>
         /\ \A u \in Tasks \ {t} : tasks'[u] = tasks[u]
         /\ tasks[t] # Resting /\ tasks'[t] # Resting /\ tasks'[t].wanted = tasks[t].wanted
         /\ Loads(t) => /\ tasks'[t].at = "loaded" /\ tasks'[t].spec = lastValid' /\ lastValid' = ValidNow
         /\ ReadsRest(t) => /\ tasks[t].at = "loaded" /\ tasks'[t].at = "derived" /\ UNCHANGED lastValid
                            /\ tasks'[t].read = [facts EXCEPT !["spec"] = tasks[t].spec]
<1>0. tasks \in [Tasks -> TaskStates] /\ Resting.at = "rest"
  BY TasksAre DEF ViewTypes
<1>1. CASE Loads(t)
  <2>1. PICK x : x = [at |-> "loaded", wanted |-> tasks[t].wanted, status |-> facts["spec"], spec |-> lastValid']
    OBVIOUS
  <2>2. tasks' = [tasks EXCEPT ![t] = x] /\ tasks[t].at = "asked" /\ lastValid' = ValidNow
    BY <1>1, <2>1 DEF Loads, ValidNow
  <2>3. x.at = "loaded" /\ x.spec = lastValid' /\ x.wanted = tasks[t].wanted
    BY <2>1
  <2>4. tasks'[t] = x /\ \A u \in Tasks \ {t} : tasks'[u] = tasks[u]
    BY <1>0, <2>2
  <2> QED
    BY <1>0, <1>1, <2>2, <2>3, <2>4 DEF Loads, ReadsRest, eventVars
<1>2. CASE ReadsRest(t)
  <2>1. PICK x : x = [at |-> "derived", wanted |-> tasks[t].wanted, status |-> tasks[t].status,
                      read |-> [facts EXCEPT !["spec"] = tasks[t].spec]]
    OBVIOUS
  <2>2. tasks' = [tasks EXCEPT ![t] = x] /\ tasks[t].at = "loaded"
    BY <1>2, <2>1 DEF ReadsRest
  <2>3. x.at = "derived" /\ x.read = [facts EXCEPT !["spec"] = tasks[t].spec] /\ x.wanted = tasks[t].wanted
    BY <2>1
  <2>4. tasks'[t] = x /\ \A u \in Tasks \ {t} : tasks'[u] = tasks[u]
    BY <1>0, <2>2
  <2> QED
    BY <1>0, <1>2, <2>2, <2>3, <2>4 DEF Loads, ReadsRest, eventVars
<1> QED
  BY <1>1, <1>2

(* An event leaves its task at rest, and says nothing that is not so of a fact the section is not derived from. *)
LEMMA PublishesLeaves ==
  ASSUME ViewTypes, NEW t \in Tasks, Publishes(t)
  PROVE  /\ UNCHANGED <<facts, announced, reindex, indexer, watcher, lastValid>>
         /\ tasks[t] # Resting /\ tasks'[t] = Resting /\ \A u \in Tasks \ {t} : tasks'[u] = tasks[u]
BY TasksAre DEF ViewTypes, Publishes

(* The facts go on. *)
LEMMA FactsGoOn ==
  ASSUME ViewTypes, Behind, WorkNext \/ UNCHANGED workVars
  PROVE  \A f \in Facts : facts[f] <= facts'[f]
<1>0. FactsAre /\ facts \in Numbers /\ facts["index"] <= scanned /\ scanned \in Nat
  BY FactsHold DEF ViewTypes, Behind
<1>1. CASE UNCHANGED facts
  BY <1>0, <1>1 DEF FactsAre
<1>2. CASE Surprises \/ \E w \in Writers : SaveSpec(w)
  <2>1. PICK g \in Facts : facts' = [facts EXCEPT ![g] = facts[g] + 1]
    BY <1>0, <1>2, OutsideIs DEF SaveSpec, Change, FactsAre
  <2>2. \A f \in Facts : facts'[f] = IF f = g THEN facts[f] + 1 ELSE facts[f]
    BY <1>0, <2>1 DEF Numbers
  <2> QED
    BY <1>0, <2>2 DEF FactsAre
<1>3. CASE FinishRefresh
  <2>1. \A f \in Facts : facts'[f] = IF f = "index" THEN scanned ELSE facts[f]
    BY <1>0, <1>3 DEF FinishRefresh, Numbers
  <2> QED
    BY <1>0, <2>1 DEF FactsAre
<1>4. CASE TaskMoves /\ ~FinishRefresh
  <2>1. UNCHANGED facts
    BY <1>4 DEF TaskMoves, ClaimReindex, ScanBegins, IndexShown, ScanFiles, FilesShown, SeesCatalog, PublishDirty, HearsEnding
  <2> QED
    BY <1>1, <2>1
<1>5. ASSUME NEW t \in Tasks, Loads(t) \/ ReadsRest(t) \/ Publishes(t) PROVE UNCHANGED facts
  BY <1>5 DEF Loads, ReadsRest, Publishes
<1>6. CASE UNCHANGED workVars
  BY <1>1, <1>6 DEF workVars
<1> QED
  BY <1>1, <1>2, <1>3, <1>4, <1>5, <1>6, StepIs

(* A task that does not derive, or publish, is as it was, or at rest and asked. *)
LEMMA OthersAre ==
  ASSUME ViewTypes, OneAtATime, WorkNext \/ UNCHANGED workVars,
         \A t \in Tasks : ~(Loads(t) \/ ReadsRest(t) \/ Publishes(t))
  PROVE  /\ UNCHANGED <<published, newest, ofSave, lastValid>>
         /\ \A t \in Tasks : tasks'[t] = tasks[t] \/ (tasks[t] = Resting /\ tasks'[t].at = "asked")
<1>0. /\ tasks \in [Tasks -> TaskStates] /\ \A t \in {"index", "files", "catalog", "feed"} : t \in Tasks
      /\ \A w \in Writers : w \in Tasks
  BY TasksAre DEF ViewTypes
<1>a. ASSUME NEW u \in Tasks, NEW W, tasks[u] = Resting, tasks' = [tasks EXCEPT ![u] = Asked(W)]
      PROVE  \A t \in Tasks : tasks'[t] = tasks[t] \/ (tasks[t] = Resting /\ tasks'[t].at = "asked")
  BY <1>0, <1>a DEF Asked
<1>1. UNCHANGED <<published, newest, ofSave>>
  BY EventsStay
<1>2. CASE Surprises
  BY <1>1, <1>2, OutsideIs
<1>3. ASSUME NEW w \in Writers, SaveSpec(w) 
      PROVE  /\ UNCHANGED <<published, newest, ofSave, lastValid>>
             /\ \A t \in Tasks : tasks'[t] = tasks[t] \/ (tasks[t] = Resting /\ tasks'[t].at = "asked")
  <2>1. tasks[w] = Resting /\ tasks' = [tasks EXCEPT ![w] = Asked(SpecSections)] /\ UNCHANGED lastValid /\ w \in Tasks
    BY <1>0, <1>3 DEF SaveSpec
  <2> QED
    BY <1>1, <1>a, <2>1
<1>4. CASE TaskMoves
  <2>1. UNCHANGED lastValid
    BY <1>4 DEF TaskMoves, ClaimReindex, ScanBegins, FinishRefresh, IndexShown, ScanFiles, FilesShown, SeesCatalog,
                PublishDirty, HearsEnding
  <2>2. tasks' = tasks \/ \E u \in Tasks : \E W : tasks[u] = Resting /\ tasks' = [tasks EXCEPT ![u] = Asked(W)]
    BY <1>0, <1>4 DEF TaskMoves, ClaimReindex, ScanBegins, FinishRefresh, IndexShown, ScanFiles, FilesShown,
                      SeesCatalog, PublishDirty, HearsEnding, OneAtATime
  <2> QED
    BY <1>1, <1>a, <2>1, <2>2
<1>5. CASE UNCHANGED workVars
  BY <1>1, <1>5 DEF workVars, taskVars
<1> QED
  BY <1>2, <1>3, <1>4, <1>5, StepIs

(* What a section is not derived from stays without a version. *)
LEMMA NothingElseStep ==
  ASSUME ViewTypes, Behind, NothingElse, WorkNext \/ UNCHANGED workVars
  PROVE  NothingElse'
<1>1. CASE \A t \in Tasks : ~Publishes(t)
  BY <1>1, EventsStay DEF NothingElse
<1>2. ASSUME NEW t \in Tasks, Publishes(t), NEW s \in Sections, NEW f \in Facts \ Derivations[s]
      PROVE  newest'[s][f] = 0
  <2>1. newest[s][f] = 0 /\ published[s][f] <= newest[s][f] /\ published[s][f] \in Nat
    BY DEF NothingElse, Behind, ViewTypes, Numbers
  <2>2. Said(tasks[t], s, f) = 0
    BY DEF Said
  <2> QED
    BY <1>2, <2>1, <2>2, PublishesIs
<1> QED
  BY <1>1, <1>2 DEF NothingElse

(* SpecTracker goes on from one valid director.yaml to a newer one. *)
LEMMA LoadedIsReadStep ==
  ASSUME ViewTypes, OneAtATime, Behind, LoadedIsRead, WorkNext \/ UNCHANGED workVars
  PROVE  LoadedIsRead'
<1>0. /\ lastValid \in Nat /\ facts["spec"] \in Nat /\ lastValid <= facts["spec"] /\ "spec" \in Facts
      /\ \A x \in TaskStates : /\ x.at = "loaded" => x.spec \in Nat
                               /\ x.at = "derived" => x.read["spec"] \in Nat
      /\ \A t \in Tasks : tasks[t] \in TaskStates
      /\ \A s \in Sections : newest[s]["spec"] \in Nat /\ published[s]["spec"] \in Nat
  BY FactsHold, StatesAre DEF ViewTypes, Behind, FactsAre, Numbers
<1>1. ASSUME NEW t \in Tasks, Loads(t) PROVE LoadedIsRead'
  <2>1. lastValid' \in Nat /\ lastValid <= lastValid'
    BY <1>0, <1>1 DEF Loads
  <2>2. tasks'[t].at = "loaded" /\ tasks'[t].spec = lastValid' /\ newest' = newest
    BY <1>1, DerivesIs
  <2>3. \A u \in Tasks \ {t} : tasks'[u] = tasks[u]
    BY <1>1, DerivesIs
  <2> QED
    BY <1>0, <2>1, <2>2, <2>3 DEF LoadedIsRead
<1>2. ASSUME NEW t \in Tasks, ReadsRest(t) PROVE LoadedIsRead'
  <2>1. /\ tasks[t].at = "loaded" /\ tasks'[t].at = "derived" /\ lastValid' = lastValid /\ newest' = newest
        /\ tasks'[t].read = [facts EXCEPT !["spec"] = tasks[t].spec]
    BY <1>2, DerivesIs
  <2>2. \A u \in Tasks \ {t} : tasks'[u] = tasks[u]
    BY <1>2, DerivesIs
  <2>3. tasks'[t].read["spec"] = tasks[t].spec
    BY <1>0, <2>1 DEF ViewTypes, Numbers
  <2> QED
    BY <2>1, <2>2, <2>3 DEF LoadedIsRead
<1>3. ASSUME NEW t \in Tasks, Publishes(t) PROVE LoadedIsRead'
  <2>1. lastValid' = lastValid /\ tasks'[t] = Resting /\ \A u \in Tasks \ {t} : tasks'[u] = tasks[u]
    BY <1>3, PublishesLeaves
  <2>2. ASSUME NEW s \in Sections \ {"spec"} PROVE newest'[s]["spec"] <= lastValid
    <3>1. tasks[t].read["spec"] <= lastValid /\ tasks[t].read["spec"] \in Nat
      BY <1>0, <1>3 DEF LoadedIsRead, Publishes
    <3>2. newest[s]["spec"] <= lastValid /\ published[s]["spec"] <= newest[s]["spec"]
      BY <1>0 DEF LoadedIsRead, Behind
    <3>3. Said(tasks[t], s, "spec") <= lastValid
      BY <1>0, <3>1 DEF Said
    <3>4. published'[s]["spec"] <= lastValid
      BY <1>0, <1>3, <3>2, <3>3, PublishesIs
    <3> QED
      BY <1>0, <1>3, <3>2, <3>4, PublishesIs
  <2> QED
    BY <2>1, <2>2, TasksAre DEF LoadedIsRead
<1>4. CASE \A t \in Tasks : ~(Loads(t) \/ ReadsRest(t) \/ Publishes(t))
  BY <1>4, OthersAre DEF LoadedIsRead
<1> QED
  BY <1>1, <1>2, <1>3, <1>4

(* What the index task and its index do in a step. *)
LEMMA IndexerIs ==
  ASSUME ViewTypes, OneAtATime, WorkNext \/ UNCHANGED workVars
  PROVE  \/ FinishRefresh
         \/ facts'["index"] = facts["index"] /\ (indexer' = "done" => indexer = "done")
<1>0. FactsAre /\ facts \in Numbers
  BY FactsHold DEF ViewTypes
<1>1. CASE Surprises
  <2>1. PICK g \in Facts \ {"index"} : facts' = [facts EXCEPT ![g] = facts[g] + 1]
    BY <1>1, OutsideIs
  <2>2. indexer' = indexer
    BY <1>1, OutsideIs
  <2> QED
    BY <1>0, <2>1, <2>2 DEF FactsAre, Numbers
<1>2. ASSUME NEW t \in Tasks, Loads(t) \/ ReadsRest(t) \/ Publishes(t) PROVE UNCHANGED <<facts, indexer>>
  BY <1>2 DEF Loads, ReadsRest, Publishes
<1>3. ASSUME NEW w \in Writers, SaveSpec(w) PROVE facts'["index"] = facts["index"] /\ indexer' = indexer
  BY <1>0, <1>3 DEF SaveSpec, Change, FactsAre, Numbers
<1>4. CASE TaskMoves /\ ~FinishRefresh
  BY <1>4 DEF TaskMoves, ClaimReindex, ScanBegins, IndexShown, ScanFiles, FilesShown, SeesCatalog, PublishDirty, HearsEnding
<1>5. CASE UNCHANGED workVars
  BY <1>5 DEF workVars, taskVars
<1> QED
  BY <1>1, <1>2, <1>3, <1>4, <1>5, StepIs

(* No refresh ends while the index task shows one (server/watch.rs, index). *)
LEMMA IndexIsReadStep ==
  ASSUME ViewTypes, OneAtATime, IndexIsRead, WorkNext \/ UNCHANGED workVars
  PROVE  IndexIsRead'
<1>0. "index" \in Tasks /\ tasks \in [Tasks -> TaskStates] /\ facts \in Numbers /\ FactsAre /\ Resting.at = "rest"
  BY TasksAre, FactsHold DEF ViewTypes
<1>1. CASE FinishRefresh
  <2>1. tasks'["index"] = Asked(IndexSections)
    BY <1>0, <1>1 DEF FinishRefresh
  <2> QED
    BY <2>1 DEF IndexIsRead, Asked
<1>2. CASE ~FinishRefresh
  <2>1. facts'["index"] = facts["index"] /\ (indexer' = "done" => indexer = "done")
    BY <1>2, IndexerIs
  <2>2. CASE ReadsRest("index")
    <3>1. tasks'["index"].read = [facts EXCEPT !["spec"] = tasks["index"].spec] /\ facts' = facts
      BY <1>0, <2>2, DerivesIs
    <3>2. tasks'["index"].read["index"] = facts'["index"]
      BY <1>0, <3>1 DEF Numbers, FactsAre
    <3> QED
      BY <3>2 DEF IndexIsRead
  <2>3. CASE Loads("index")
    BY <1>0, <2>3, DerivesIs DEF IndexIsRead
  <2>4. CASE Publishes("index")
    BY <1>0, <2>4, PublishesLeaves DEF IndexIsRead
  <2>5. CASE ~(Loads("index") \/ ReadsRest("index") \/ Publishes("index"))
    <3>1. tasks'["index"] = tasks["index"] \/ tasks'["index"].at = "asked"
      <4>1. ASSUME NEW t \in Tasks, Loads(t) \/ ReadsRest(t) PROVE tasks'["index"] = tasks["index"]
        <5>1. t # "index"
          BY <2>5, <4>1
        <5>2. \A u \in Tasks \ {t} : tasks'[u] = tasks[u]
          BY <4>1, DerivesIs
        <5> QED
          BY <1>0, <5>1, <5>2
      <4>2. ASSUME NEW t \in Tasks, Publishes(t) PROVE tasks'["index"] = tasks["index"]
        BY <1>0, <2>5, <4>2, PublishesLeaves
      <4> QED
        BY <1>0, <4>1, <4>2, OthersAre
    <3> QED
      BY <2>1, <3>1 DEF IndexIsRead
  <2> QED
    BY <2>2, <2>3, <2>4, <2>5
<1> QED
  BY <1>1, <1>2

(* A task derives a section of its own after it published the one before. *)
LEMMA InOrderStep ==
  ASSUME ViewTypes, OneAtATime, Behind, OwnSections, InOrder, WorkNext \/ UNCHANGED workVars
  PROVE  InOrder'
<1>1. SUFFICES ASSUME NEW s \in {"scene_index", "doctor"}, NEW t \in Tasks, tasks'[t].at = "derived",
                      s \in tasks'[t].wanted, NEW f \in Derivations[s]
               PROVE  newest'[s][f] <= tasks'[t].read[f]
  BY DEF InOrder
<1>0. /\ s \in Sections /\ f \in Facts /\ f # "spec" /\ tasks \in [Tasks -> TaskStates] /\ facts \in Numbers
      /\ newest[s][f] \in Nat /\ published[s][f] \in Nat /\ published[s][f] <= newest[s][f] /\ newest[s][f] <= facts[f]
  <2>1. "scene_index" \in Sections /\ "doctor" \in Sections /\ f # "spec"
    BY <1>1 DEF Sections, Derivations
  <2> QED
    BY <2>1, Derived DEF ViewTypes, Numbers, Behind
<1>2. CASE ReadsRest(t)
  <2>1. tasks'[t].read = [facts EXCEPT !["spec"] = tasks[t].spec] /\ newest' = newest
    BY <1>2, DerivesIs
  <2>2. tasks'[t].read[f] = facts[f]
    BY <1>0, <2>1 DEF Numbers
  <2> QED
    BY <1>0, <2>1, <2>2
<1>3. ASSUME NEW u \in Tasks, Publishes(u) PROVE newest'[s][f] <= tasks'[t].read[f]
  <2>1. u # t /\ tasks'[t] = tasks[t] /\ tasks[t] # Resting /\ tasks[u] # Resting
    BY <1>1, <1>3, PublishesLeaves, TasksAre
  <2>2. s \notin tasks[u].wanted
    BY <1>1, <2>1, OwnersAre
  <2>3. newest'[s][f] = newest[s][f]
    BY <1>0, <1>3, <2>2, PublishesIs
  <2> QED
    BY <1>1, <2>1, <2>3 DEF InOrder
<1>4. CASE ~ReadsRest(t) /\ \A u \in Tasks : ~Publishes(u)
  <2>1. newest' = newest
    BY <1>4, EventsStay
  <2>2. tasks'[t] = tasks[t]
    <3>1. ASSUME NEW u \in Tasks, Loads(u) \/ ReadsRest(u) PROVE tasks'[t] = tasks[t]
      BY <1>1, <1>4, <3>1, DerivesIs
    <3> QED
      BY <1>1, <1>4, <3>1, OthersAre
  <2> QED
    BY <1>1, <2>1, <2>2 DEF InOrder
<1> QED
  BY <1>2, <1>3, <1>4

(* So its event never takes a section back. *)
LEMMA NothingOvertakesStep ==
  ASSUME ViewTypes, OneAtATime, Behind, NothingElse, InOrder, NothingOvertakes, WorkNext \/ UNCHANGED workVars
  PROVE  NothingOvertakes'
<1>1. CASE \A t \in Tasks : ~Publishes(t)
  BY <1>1, EventsStay DEF NothingOvertakes
<1>2. ASSUME NEW t \in Tasks, Publishes(t), NEW s \in {"scene_index", "doctor"} PROVE published'[s] = newest'[s]
  <2>0. s \in Sections /\ s # "spec"
    BY DEF Sections, Derivations
  <2>1. ASSUME NEW f \in Facts PROVE published'[s][f] = newest'[s][f]
    <3>0. published[s][f] = newest[s][f] /\ newest[s][f] \in Nat /\ Said(tasks[t], s, f) \in Nat
      BY <1>2, <2>0, PublishesIs DEF NothingOvertakes, ViewTypes, Numbers
    <3>1. CASE s \in tasks[t].wanted /\ f \in Derivations[s]
      <4>1. newest[s][f] <= Said(tasks[t], s, f)
        BY <1>2, <2>0, <3>1, PublishesIs DEF InOrder, Said
      <4> QED
        BY <1>2, <2>0, <3>0, <3>1, <4>1, PublishesIs
    <3>2. CASE s \in tasks[t].wanted /\ f \notin Derivations[s]
      <4>1. newest[s][f] = 0 /\ Said(tasks[t], s, f) = 0
        BY <2>0, <3>2 DEF NothingElse, Said
      <4> QED
        BY <1>2, <2>0, <3>0, <3>2, <4>1, PublishesIs
    <3>3. CASE s \notin tasks[t].wanted
      BY <1>2, <2>0, <3>0, <3>3, PublishesIs
    <3> QED
      BY <3>1, <3>2, <3>3
  <2>2. published'[s] \in Numbers /\ newest'[s] \in Numbers
    BY <1>2, <2>0, PublishesIs
  <2> QED
    BY <2>1, <2>2 DEF Numbers
<1> QED
  BY <1>1, <1>2 DEF NothingOvertakes

(* Another director.yaml than the valid one that is read now is going to be asked for. *)
LEMMA AgainStays ==
  ASSUME ViewTypes, OneAtATime, Behind, WorkNext \/ UNCHANGED workVars, ~ClaimReindex
  PROVE  /\ Again => Again'
         /\ ValidNow' = ValidNow \/ Again'
<1>0. /\ FactsAre /\ facts \in Numbers /\ announced \in [OnDisk -> Nat]
      /\ announced["spec"] <= facts["spec"] /\ facts["spec"] \in Nat /\ announced["spec"] \in Nat
  BY FactsHold DEF ViewTypes, Behind, FactsAre
<1>1. CASE Surprises
  <2>1. PICK g \in Facts \ {"index"} : facts' = [facts EXCEPT ![g] = facts[g] + 1]
    BY <1>1, OutsideIs
  <2>2. UNCHANGED <<announced, watcher, reindex, lastValid>>
    BY <1>1, OutsideIs
  <2>3. facts'["spec"] = IF g = "spec" THEN facts["spec"] + 1 ELSE facts["spec"]
    BY <1>0, <2>1 DEF Numbers, FactsAre
  <2>4. CASE g = "spec"
    <3>1. announced'["spec"] # facts'["spec"]
      BY <1>0, <2>2, <2>3, <2>4
    <3> QED
      BY <3>1 DEF Again
  <2>5. CASE g # "spec"
    BY <2>2, <2>3, <2>5 DEF Again, ValidNow
  <2> QED
    BY <2>4, <2>5
<1>2. ASSUME NEW t \in Tasks, Loads(t) PROVE UNCHANGED <<announced, facts, watcher, reindex>> /\ ValidNow' = ValidNow
  BY <1>2 DEF Loads, ValidNow
<1>3. ASSUME NEW t \in Tasks, ReadsRest(t) \/ Publishes(t) PROVE UNCHANGED <<announced, facts, watcher, reindex, lastValid>>
  BY <1>3 DEF ReadsRest, Publishes
<1>4. ASSUME NEW w \in Writers, SaveSpec(w) PROVE Again'
  BY <1>4 DEF SaveSpec, Again
<1>5. CASE FinishRefresh
  <2>1. facts'["spec"] = facts["spec"] /\ UNCHANGED <<announced, watcher, reindex, lastValid>>
    BY <1>0, <1>5 DEF FinishRefresh, Numbers, FactsAre
  <2> QED
    BY <2>1 DEF Again, ValidNow
<1>6. CASE ScanFiles \/ FilesShown
  <2>1. UNCHANGED <<facts, lastValid>> /\ Again'
    BY <1>6 DEF ScanFiles, FilesShown, Again
  <2> QED
    BY <2>1
<1>7. CASE ScanBegins \/ IndexShown \/ SeesCatalog \/ PublishDirty \/ \E ending \in Endings : HearsEnding(ending)
  <2>1. UNCHANGED <<announced, facts, watcher, reindex, lastValid>>
    BY <1>7 DEF ScanBegins, IndexShown, SeesCatalog, PublishDirty, HearsEnding
  <2> QED
    BY <2>1 DEF Again, ValidNow
<1>8. CASE UNCHANGED workVars
  BY <1>8 DEF workVars, taskVars, Again, ValidNow
<1> QED
  BY <1>1, <1>2, <1>3, <1>4, <1>5, <1>6, <1>7, <1>8, StepIs DEF TaskMoves, Again, ValidNow

(* A director.yaml that becomes valid after the index task loaded it asks for another refresh. *)
LEMMA IndexIsValidStep ==
  ASSUME ViewTypes, OneAtATime, Behind, IndexIsValid, WorkNext \/ UNCHANGED workVars
  PROVE  IndexIsValid'
<1>0. "index" \in Tasks /\ tasks \in [Tasks -> TaskStates] /\ facts \in Numbers /\ FactsAre /\ Resting.at = "rest"
  BY TasksAre, FactsHold DEF ViewTypes
<1>1. CASE FinishRefresh
  <2>1. tasks'["index"] = Asked(IndexSections)
    BY <1>0, <1>1 DEF FinishRefresh
  <2> QED
    BY <2>1 DEF IndexIsValid, Asked
<1>2. CASE ClaimReindex
  BY <1>2 DEF ClaimReindex, IndexIsValid
<1>3. CASE ~FinishRefresh /\ ~ClaimReindex
  <2>1. indexer' = "done" => indexer = "done"
    BY <1>3, IndexerIs
  <2>2. (Again => Again') /\ (ValidNow' = ValidNow \/ Again')
    BY <1>3, AgainStays
  <2>3. CASE ReadsRest("index")
    <3>1. /\ tasks'["index"].read = [facts EXCEPT !["spec"] = tasks["index"].spec]
          /\ tasks'["index"].at = "derived" /\ tasks["index"].at = "loaded"
      BY <1>0, <2>3, DerivesIs
    <3>2. tasks'["index"].read["spec"] = tasks["index"].spec
      BY <1>0, <3>1 DEF Numbers, FactsAre
    <3> QED
      BY <2>1, <2>2, <3>1, <3>2 DEF IndexIsValid
  <2>4. CASE Loads("index")
    BY <1>0, <2>2, <2>4, DerivesIs DEF IndexIsValid
  <2>5. CASE Publishes("index")
    BY <1>0, <2>5, PublishesLeaves DEF IndexIsValid
  <2>6. CASE ~(Loads("index") \/ ReadsRest("index") \/ Publishes("index"))
    <3>1. tasks'["index"] = tasks["index"] \/ tasks'["index"].at = "asked"
      <4>1. ASSUME NEW t \in Tasks, Loads(t) \/ ReadsRest(t) PROVE tasks'["index"] = tasks["index"]
        <5>1. t # "index"
          BY <2>6, <4>1
        <5>2. \A u \in Tasks \ {t} : tasks'[u] = tasks[u]
          BY <4>1, DerivesIs
        <5> QED
          BY <1>0, <5>1, <5>2
      <4>2. ASSUME NEW t \in Tasks, Publishes(t) PROVE tasks'["index"] = tasks["index"]
        BY <1>0, <2>6, <4>2, PublishesLeaves
      <4> QED
        BY <1>0, <4>1, <4>2, OthersAre
    <3> QED
      BY <2>1, <2>2, <3>1 DEF IndexIsValid
  <2> QED
    BY <2>3, <2>4, <2>5, <2>6
<1> QED
  BY <1>1, <1>2, <1>3

(* A list that is to be replaced stays so until the index task replaces it. *)
LEMMA RedoneStays ==
  ASSUME ViewTypes, OneAtATime, Behind, WorkNext \/ UNCHANGED workVars, ~Publishes("index"), Redone
  PROVE  Redone'
<1>0. "index" \in Tasks /\ tasks \in [Tasks -> TaskStates]
  BY TasksAre DEF ViewTypes
<1>1. CASE ClaimReindex \/ ScanBegins
  BY <1>1 DEF ClaimReindex, ScanBegins, Redone
<1>2. CASE FinishRefresh
  <2>1. tasks'["index"] = Asked(IndexSections) /\ indexer' = "done"
    BY <1>0, <1>2 DEF FinishRefresh
  <2> QED
    BY <2>1 DEF Redone, Asked, Resting
<1>3. CASE ~ClaimReindex /\ ~ScanBegins /\ ~FinishRefresh
  <2>1. Again => Again'
    BY <1>3, AgainStays
  <2>2. CASE IndexShown
    <3>1. Again
      BY <2>2 DEF IndexShown, Redone
    <3> QED
      BY <2>1, <3>1 DEF Redone
  <2>3. CASE ~IndexShown
    <3>1. indexer' = indexer
      <4>1. ASSUME NEW t \in Tasks, Loads(t) \/ ReadsRest(t) \/ Publishes(t) PROVE indexer' = indexer
        BY <4>1 DEF Loads, ReadsRest, Publishes
      <4>2. CASE Surprises
        BY <4>2, OutsideIs
      <4>3. ASSUME NEW w \in Writers, SaveSpec(w) PROVE indexer' = indexer
        BY <4>3 DEF SaveSpec
      <4>4. CASE TaskMoves
        BY <1>3, <2>3, <4>4 DEF TaskMoves, ScanFiles, FilesShown, SeesCatalog, PublishDirty, HearsEnding
      <4>5. CASE UNCHANGED workVars
        BY <4>5 DEF workVars, taskVars
      <4> QED
        BY <4>1, <4>2, <4>3, <4>4, <4>5, StepIs
    <3>2. tasks["index"] # Resting => tasks'["index"] # Resting
      <4>1. ASSUME NEW t \in Tasks, Loads(t) \/ ReadsRest(t), tasks["index"] # Resting PROVE tasks'["index"] # Resting
        BY <1>0, <4>1, DerivesIs
      <4>2. ASSUME NEW t \in Tasks, Publishes(t) PROVE tasks'["index"] = tasks["index"]
        BY <1>0, <4>2, PublishesLeaves
      <4> QED
        BY <1>0, <4>1, <4>2, OthersAre
    <3> QED
      BY <2>1, <3>1, <3>2 DEF Redone
  <2> QED
    BY <2>2, <2>3
<1> QED
  BY <1>1, <1>2, <1>3

(* What the index task publishes of the valid spec is the newest of all. *)
LEMMA IndexShows ==
  ASSUME ViewTypes, OneAtATime, Behind, PublishedInv, Publishes("index"), indexer = "done", ~Again,
         NEW s \in {"scenes", "storyboard"}
  PROVE  published'[s] = newest'[s]
<1> DEFINE x == tasks["index"]
<1>0. /\ "index" \in Tasks /\ x.at = "derived" /\ x # Resting /\ s \in Sections /\ s # "spec" /\ "spec" \in Facts
      /\ Derivations[s] = {"spec", "index"} /\ s \in IndexSections /\ "index" \in Facts
      /\ published'[s] \in Numbers /\ newest'[s] \in Numbers
  <2>1. "index" \in Tasks /\ x.at = "derived" /\ x # Resting
    BY TasksAre DEF Publishes
  <2>2. /\ s \in Sections /\ s # "spec" /\ "spec" \in Facts /\ "index" \in Facts
        /\ Derivations[s] = {"spec", "index"} /\ s \in IndexSections
    BY DEF Sections, Derivations, IndexSections, Facts, OnDisk
  <2> QED
    BY <2>1, <2>2, PublishesIs
<1>1. s \in x.wanted
  BY <1>0, OwnersAre DEF PublishedInv
<1>2. x.read["spec"] = ValidNow /\ x.read["spec"] <= lastValid /\ x.read["index"] = facts["index"]
  BY <1>0 DEF PublishedInv, IndexIsValid, LoadedIsRead, IndexIsRead
<1>3. /\ newest[s]["spec"] <= lastValid /\ lastValid <= facts["spec"] /\ newest[s]["index"] <= facts["index"]
      /\ lastValid \in Nat /\ facts["spec"] \in Nat /\ facts["index"] \in Nat
      /\ newest[s]["spec"] \in Nat /\ newest[s]["index"] \in Nat
  BY <1>0 DEF PublishedInv, LoadedIsRead, Behind, ViewTypes, Numbers
<1>4. newest[s]["spec"] <= x.read["spec"] /\ newest[s]["index"] <= x.read["index"]
  BY <1>2, <1>3 DEF ValidNow
<1>5. ASSUME NEW f \in Facts PROVE published'[s][f] = newest'[s][f]
  <2>1. CASE f \in Derivations[s]
    <3>1. Said(x, s, f) = x.read[f] /\ newest[s][f] <= x.read[f] /\ newest[s][f] \in Nat /\ Said(x, s, f) \in Nat
      BY <1>0, <1>3, <1>4, <2>1, PublishesIs DEF Said
    <3> QED
      BY <1>0, <1>1, <3>1, PublishesIs
  <2>2. CASE f \notin Derivations[s]
    <3>1. Said(x, s, f) = 0 /\ newest[s][f] = 0
      BY <1>0, <2>2 DEF Said, PublishedInv, NothingElse
    <3> QED
      BY <1>0, <1>1, <3>1, PublishesIs
  <2> QED
    BY <2>1, <2>2
<1> QED
  BY <1>0, <1>5 DEF Numbers

(* Whoever may take the scene list back, but for a save, is followed by a refresh. *)
LEMMA ListsFollowStep ==
  ASSUME ViewTypes, OneAtATime, Behind, PublishedInv, WorkNext \/ UNCHANGED workVars
  PROVE  ListsFollow'
<1>0. ListsFollow /\ OwnSections /\ "index" \in Tasks /\ Resting.at = "rest"
  BY TasksAre DEF PublishedInv
<1>1. CASE \A t \in Tasks : ~Publishes(t)
  BY <1>0, <1>1, EventsStay, RedoneStays DEF ListsFollow
<1>2. ASSUME NEW t \in Tasks, Publishes(t), NEW s \in {"scenes", "storyboard"} \ ofSave'
      PROVE  published'[s] = newest'[s] \/ Redone'
  <2>0. s \in Sections /\ tasks[t] # Resting /\ UNCHANGED <<facts, announced, reindex, indexer, watcher, lastValid>>
    BY <1>2, PublishesLeaves DEF Sections, Derivations
  <2>1. CASE s \notin tasks[t].wanted
    <3>1. s \notin ofSave
      BY <1>2, <2>1 DEF Publishes
    <3>2. ASSUME NEW f \in Facts PROVE published'[s][f] = published[s][f] /\ newest'[s][f] = newest[s][f]
      <4>1. published[s][f] <= newest[s][f] /\ published[s][f] \in Nat /\ newest[s][f] \in Nat
        BY <2>0 DEF Behind, ViewTypes, Numbers
      <4>2. published'[s][f] = published[s][f]
        BY <1>2, <2>0, <2>1, PublishesIs
      <4>3. newest'[s][f] = IF newest[s][f] > published'[s][f] THEN newest[s][f] ELSE published'[s][f]
        BY <1>2, <2>0, PublishesIs
      <4> QED
        BY <4>1, <4>2, <4>3
    <3>3. published'[s] = published[s] /\ newest'[s] = newest[s]
      <4>1. /\ published'[s] \in Numbers /\ newest'[s] \in Numbers
            /\ published[s] \in Numbers /\ newest[s] \in Numbers
        BY <1>2, <2>0, PublishesIs DEF ViewTypes
      <4> QED
        BY <3>2, <4>1 DEF Numbers
    <3>4. CASE published[s] = newest[s]
      BY <3>3, <3>4
    <3>5. CASE Redone /\ t # "index"
      <4>1. tasks'["index"] = tasks["index"]
        BY <1>0, <1>2, <3>5, PublishesLeaves
      <4> QED
        BY <2>0, <3>5, <4>1 DEF Redone, Again
    <3>6. CASE Redone /\ t = "index"
      <4>1. indexer = "begun"
        BY <1>0, <2>0, <2>1, <3>6, OwnersAre DEF IndexSections
      <4> QED
        BY <2>0, <4>1 DEF Redone
    <3> QED
      BY <1>0, <3>1, <3>4, <3>5, <3>6 DEF ListsFollow
  <2>2. CASE s \in tasks[t].wanted
    <3>1. t \notin Writers
      BY <1>2, <2>0, <2>2, PublishesIs DEF Publishes, ViewTypes
    <3>2. t = "files" \/ (t = "index" /\ indexer = "done")
      BY <1>0, <2>0, <2>2, <3>1, OwnersAre
    <3>3. CASE t = "files"
      <4>1. watcher = "shows"
        BY <1>0, <2>0, <3>3, OwnersAre
      <4> QED
        BY <2>0, <4>1 DEF Redone, Again
    <3>4. CASE t = "index" /\ indexer = "done" /\ ~Again
      BY <1>2, <3>4, IndexShows
    <3>5. CASE Again
      BY <2>0, <3>5 DEF Redone, Again
    <3> QED
      BY <3>2, <3>3, <3>4, <3>5
  <2> QED
    BY <2>1, <2>2
<1> QED
  BY <1>1, <1>2 DEF ListsFollow

(* Each step keeps all of these, *)
LEMMA PublishedInvStep ==
  ASSUME ViewInv, PublishedInv, WorkNext \/ UNCHANGED workVars
  PROVE  PublishedInv'
BY OwnSectionsStep, NothingElseStep, LoadedIsReadStep, IndexIsReadStep, InOrderStep, NothingOvertakesStep,
   IndexIsValidStep, ListsFollowStep DEF ViewInv, PublishedInv

(* which hold at first. *)
LEMMA InitPublishedInv == WorkInit => PublishedInv
<1> SUFFICES ASSUME WorkInit PROVE PublishedInv
  OBVIOUS
<1>1. /\ lastValid = 0 /\ indexer = "waits" /\ dirty = {} /\ newest = published
      /\ tasks = [t \in Tasks |-> Resting] /\ published = [s \in Sections |-> [f \in Facts |-> 0]]
  BY DEF WorkInit
<1>2. Resting.at = "rest" /\ "index" \in Tasks /\ "spec" \in Facts /\ {"scene_index", "doctor"} \subseteq Sections
      /\ {"scenes", "storyboard"} \subseteq Sections
  BY TasksAre DEF Facts, OnDisk, Sections, Derivations
<1>3. OwnSections /\ NothingElse /\ IndexIsRead /\ InOrder
  BY <1>1, <1>2 DEF OwnSections, NothingElse, IndexIsRead, InOrder
<1>4. LoadedIsRead
  BY <1>1, <1>2 DEF LoadedIsRead
<1>5. NothingOvertakes /\ IndexIsValid /\ ListsFollow
  BY <1>1, <1>2 DEF NothingOvertakes, IndexIsValid, ListsFollow
<1> QED
  BY <1>3, <1>4, <1>5 DEF PublishedInv

(* Whatever tasks overtook each other, and whatever changed while they derived:
   once none of them has anything left to do every section was shown of the
   newest of all it is derived from.  An older derivation may have come after;
   but never where one task publishes the section, nor, unless it is a save's,
   in the scene list (server/watch.rs; state.rs, publish; feed.rs,
   affected_sections; routes.rs, source_write). *)
THEOREM ViewsCatchUp == WorkSpec => []QuietViewsAreCurrent
<1>1. ViewInv /\ PublishedInv => QuietViewsAreCurrent
  <2> SUFFICES ASSUME ViewInv, PublishedInv PROVE NothingOvertakes /\ (Quiet => AllWasShown /\ OvertakenBySaves)
    BY DEF QuietViewsAreCurrent
  <2>0. SUFFICES ASSUME Quiet PROVE AllWasShown /\ OvertakenBySaves
    BY DEF PublishedInv
  <2>1. \A t \in Tasks : \A s, f : ~Brings(tasks[t], s, f, facts)
    BY <2>0, AskedBrings DEF Quiet
  <2>2. \A s \in Sections : \A f \in Derivations[s] : ~Owed(s, f)
    BY <2>0 DEF Quiet, Owed, ScanAhead
  <2>3. \A s \in Sections : \A f \in Derivations[s] : ShowsFact(s, f, newest, facts)
    BY <2>1, <2>2 DEF ViewInv, AllFollowed, Followed
  <2>4. facts["index"] = facts["python"]
    BY <2>0 DEF ViewInv, ScansFollow, Quiet, OnDisk
  <2>5. AllWasShown
    BY <2>3, <2>4 DEF AllWasShown, ShowsFact, Present
  <2>6. OvertakenBySaves
    BY <2>0 DEF PublishedInv, ListsFollow, Redone, Again, Quiet, OnDisk, OvertakenBySaves
  <2> QED
    BY <2>5, <2>6
<1>2. WorkInit => ViewInv /\ PublishedInv
  BY InitViewInv, InitPublishedInv
<1>3. ViewInv /\ PublishedInv /\ [WorkNext]_workVars => (ViewInv /\ PublishedInv)'
  BY ViewInvStep, PublishedInvStep
<1> QED
  BY <1>1, <1>2, <1>3, PTL DEF WorkSpec
=============================================================================

---------------------------- MODULE AgentServer ----------------------------
(***************************************************************************)
(* The MCP server an agent talks to over stdin and stdout (mcp/mod.rs and  *)
(* mcp/tools.rs).  Each message is handled by a task of its own, so answers*)
(* come in any order; a tool that works on a job waits for it up to the    *)
(* wait the agent asked for, however long the job takes.                   *)
(***************************************************************************)
EXTENDS Integers, Sequences, FiniteSets, SequencesExt

CONSTANTS
  Messages,   \* lines the agent sends
  Work        \* jobs the store can hold

VARIABLES
  line,       \* each message: what it is, where its handling is, its job
  input,      \* stdin is open or has ended
  outbox,     \* answers not written yet
  written,    \* answers written
  server,     \* "serving", or why it stopped
  work        \* the jobs

agentVars == <<line, input, outbox, written, server, work>>

\* A line may be nothing, not JSON, a notification, an invalid request, a
\* method answered at once, or a tool that submits a job or looks at one.
Kinds  == {"blank", "garbage", "notice", "invalid", "plain", "submit", "status"}
Silent == {"blank", "notice"}
NoWork == "no job"

AgentTypeOK ==
  /\ line \in [Messages -> [kind : Kinds \cup {"unread"}, at : {"none", "spawned", "waiting", "answered"},
                            job : Work \cup {NoWork}]]
  /\ input \in {"open", "ended"} /\ server \in {"serving", "signal", "eof", "broken", "gone"}
  /\ outbox \in Seq(Messages) /\ written \in Seq(Messages)
  /\ work \in [Work -> {"none", "active", "ended"}]

AgentInit ==
  /\ line = [m \in Messages |-> [kind |-> "unread", at |-> "none", job |-> NoWork]]
  /\ input = "open" /\ server = "serving"
  /\ outbox = <<>> /\ written = <<>>
  /\ work \in [Work -> {"none", "active"}]

Serving == server = "serving"

\* An answer sent after the server has returned has nowhere to go.
Answer(m, job) ==
  /\ line' = [line EXCEPT ![m].at = "answered", ![m].job = job]
  /\ outbox' = IF Serving THEN Append(outbox, m) ELSE outbox

----------------------------------------------------------------------------
\* `dispatch`: garbage is answered here, everything else by a new task;
\* `handle` answers no message without an id, whatever its method.
Read(m, kind) ==
  /\ Serving /\ input = "open"
  /\ line[m].kind = "unread"
  /\ line' = [line EXCEPT ![m] = [kind |-> kind, job |-> NoWork,
                at |-> IF kind \in Silent THEN "none" ELSE IF kind = "garbage" THEN "answered" ELSE "spawned"]]
  /\ outbox' = IF kind = "garbage" THEN Append(outbox, m) ELSE outbox
  /\ UNCHANGED <<input, written, server, work>>

EndInput ==
  /\ Serving /\ input = "open"
  /\ input' = "ended"
  /\ UNCHANGED <<line, outbox, written, server, work>>

Handles(m, kind) == line[m].at = "spawned" /\ line[m].kind = kind

\* Errors and the tools that have no job are answered without waiting.
AnswerAtOnce(m) ==
  /\ line[m].at = "spawned"
  /\ Answer(m, NoWork)
  /\ UNCHANGED <<input, written, server, work>>

\* `settle`: a job that has ended, or a wait of zero, is answered now.
Settle(m, j, state) ==
  \/ Answer(m, j)
  \/ /\ state # "ended"
     /\ line' = [line EXCEPT ![m].at = "waiting", ![m].job = j]
     /\ UNCHANGED outbox

\* `submit`: a new job, one from the cache, or one that is active already.
Submit(m, j) ==
  /\ Handles(m, "submit")
  /\ \E state \in IF work[j] = "none" THEN {"active", "ended"} ELSE {work[j]} :
       /\ work' = [work EXCEPT ![j] = state]
       /\ Settle(m, j, state)
  /\ UNCHANGED <<input, written, server>>

\* `job_status`, which may cancel: a queued job ends at once.
Status(m, j) ==
  /\ Handles(m, "status")
  /\ work[j] # "none"
  /\ \E state \in IF work[j] = "active" THEN {"active", "ended"} ELSE {"ended"} :
       /\ work' = [work EXCEPT ![j] = state]
       /\ Settle(m, j, state)
  /\ UNCHANGED <<input, written, server>>

\* Mutant: the wait has no end of its own.
OnlyTheEnd(m) == work[line[m].job] = "ended"

\* The wait is over with the job, or when its seconds have passed, at most MAX_WAIT_SECONDS.
WaitIsOver(m) == work[line[m].job] \in {"ended", "active"}

WaitEnds(m) ==
  /\ line[m].at = "waiting"
  /\ WaitIsOver(m)
  /\ Answer(m, line[m].job)
  /\ UNCHANGED <<input, written, server, work>>

WriteAnswer ==
  /\ Serving /\ outbox # <<>>
  /\ written' = Append(written, Head(outbox))
  /\ outbox' = Tail(outbox)
  /\ UNCHANGED <<line, input, server, work>>

\* Mutant: the server leaves when it has nothing to write.
NothingToWrite == input = "ended" /\ outbox = <<>>

\* The outbox closes when the last task that could answer is done.
Drained == input = "ended" /\ outbox = <<>> /\ \A m \in Messages : line[m].at \notin {"spawned", "waiting"}

Stop(why) ==
  /\ Serving
  /\ why = "eof" => Drained
  /\ server' = why
  /\ UNCHANGED <<line, input, outbox, written, work>>

\* `run_mcp`: cancels the engine's jobs and gives up its lease.
Leave ==
  /\ server \in {"signal", "eof", "broken"}
  /\ server' = "gone"
  /\ work' = [j \in Work |-> IF work[j] = "active" THEN "ended" ELSE work[j]]
  /\ UNCHANGED <<line, input, outbox, written>>

WorkEnds(j) ==
  /\ work[j] = "active"
  /\ work' = [work EXCEPT ![j] = "ended"]
  /\ UNCHANGED <<line, input, outbox, written, server>>

AgentNext ==
  \/ \E m \in Messages :
       \/ AnswerAtOnce(m) \/ WaitEnds(m)
       \/ \E kind \in Kinds : Read(m, kind)
       \/ \E j \in Work : Submit(m, j) \/ Status(m, j)
  \/ EndInput \/ WriteAnswer \/ Leave
  \/ \E why \in {"signal", "eof", "broken"} : Stop(why)
  \/ \E j \in Work : WorkEnds(j)

\* Tasks run, waits elapse and the output takes what is written.  No job need end.
AgentFairness ==
  /\ \A m \in Messages : WF_agentVars(AnswerAtOnce(m) \/ WaitEnds(m))
  /\ WF_agentVars(WriteAnswer)

AgentSpec == AgentInit /\ [][AgentNext]_agentVars /\ AgentFairness

----------------------------------------------------------------------------
(* A server that stopped at the end of its input has answered every message
   that wanted an answer, and never twice (mcp/mod.rs, serve): answers still
   being made when the input ended are written before it returns. *)
EndOfInputLosesNoAnswer ==
  /\ IsInjective(written)
  /\ server = "eof" =>
       ToSet(written) = {m \in Messages : line[m].kind \notin Silent \cup {"unread"}}

(* Every request is answered although its job may never end and other tools
   wait for theirs, unless the server is stopped (mcp/mod.rs, serve and dispatch; tools.rs, settle). *)
EveryRequestIsAnswered ==
  <>[](Serving => outbox = <<>> /\ \A m \in Messages : line[m].at \notin {"spawned", "waiting"})
=============================================================================

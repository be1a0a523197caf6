-------------------------- MODULE MCFronts --------------------------
(* Instances for TLC of what people and agents see: the workbench's views,  *)
(* the command line and the MCP server.  They share no state: a behaviour   *)
(* runs one of them, its `focus`, and leaves the others at rest, where      *)
(* nothing fair of theirs is enabled.                                       *)
EXTENDS Workspace, CommandLine, AgentServer

CONSTANTS w1, c1, c2, j1, j2, r1, r2, m1, m2

VARIABLE focus

WorkRests ==
  /\ facts = [f \in Facts |-> 0] /\ lastValid = 0 /\ announced = [f \in OnDisk |-> 0]
  /\ reindex = FALSE /\ indexer = "waits" /\ scanned = 0 /\ watcher = "waits"
  /\ known = 0 /\ unheard = {} /\ dirty = {}
  /\ tasks = [t \in Tasks |-> Resting]
  /\ published = [s \in Sections |-> [f \in Facts |-> 0]] /\ newest = published /\ ofSave = {}

AgentRests == AgentInit /\ work = [w \in Work |-> "none"]

FrontsInit ==
  /\ focus \in {"views", "commands", "agent"}
  /\ IF focus = "views" THEN WorkInit ELSE WorkRests
  /\ CliInit
  /\ IF focus = "agent" THEN AgentInit ELSE AgentRests

FrontsNext ==
  \/ focus = "views" /\ WorkNext /\ UNCHANGED <<focus, cliVars, agentVars>>
  \/ focus = "commands" /\ CliNext /\ UNCHANGED <<focus, workVars, agentVars>>
  \/ focus = "agent" /\ AgentNext /\ UNCHANGED <<focus, workVars, cliVars>>

FrontsSpec ==
  /\ FrontsInit
  /\ [][FrontsNext]_<<focus, workVars, cliVars, agentVars>>
  /\ WorkFairness /\ CliFairness /\ AgentFairness
=============================================================================

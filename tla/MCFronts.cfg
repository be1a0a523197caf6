\* The workbench's views of two facts; two commands that may share jobs; two
\* messages to the MCP server that may share work.  One at a time.
SPECIFICATION FrontsSpec
CONSTANTS
  \* Workspace
  w1 = w1
  Writers = {w1}
  ValidSpecs = {0, 1}
  MaxFacts = 2
  \* CommandLine
  c1 = c1  c2 = c2  j1 = j1  j2 = j2
  Commands = {c1, c2}
  Jobs = {j1, j2}
  NoJob = NoJob
  MaxPresses = 2
  \* AgentServer
  m1 = m1  m2 = m2  r1 = r1  r2 = r2
  Messages = {m1, m2}
  Work = {r1, r2}
INVARIANTS CtrlCCancelsOwnJob ExitCodesTellTheTruth EndOfInputLosesNoAnswer
PROPERTIES EveryChangeIsShown EveryCommandReturns EveryRequestIsAnswered
CHECK_DEADLOCK FALSE

\* The log of one job; the index of two files of a project.  One at a time.
SPECIFICATION LogIndexSpec
CONSTANTS
  \* JobLog
  Sizes = {1, 2}
  FlushRecords = 2
  MaxRecords = 2
  MaxBytes = 3
  PageSize = 2
  AgentLimit = 2
  Budget = 2
  MaxReports = 3
  MaxFaults = 1
  \* SceneIndex
  f1 = f1  f2 = f2  a = a  b = b  c = c  ix = ix  i2 = i2
  Files = {f1, f2}
  Contents = {a, b, c}
  Bad = {c}
  Gone = Gone
  None = None
  Runtimes = {1, 2}
  Callers = {ix, i2}
  Index = ix
  MayRevert = {f2}
  KeepDiscover = 1
  MaxChanges = 2
  MaxTurns = 1
INVARIANTS LogsAreWhole EntriesDescribeTheirInputs
PROPERTIES ReportsAreStored ScenesAreKept IndexCatchesUp
CHECK_DEADLOCK FALSE

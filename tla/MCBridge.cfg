CONSTANTS
  j1 = j1  w1 = w1  w2 = w2  w3 = w3
  Jobs = {j1}
  Workers = {w1, w2, w3}
  NoWorker = NoWorker
  Backoffs = 1
  MaxCfg = 2
  Text <- Undone
  MaxFaults = 1
  MayCancel = {j1}
  MayClose = TRUE
SPECIFICATION FairSpec
CHECK_DEADLOCK FALSE
INVARIANTS WorkIsForItsCaller IdleWorkersServe
PROPERTIES CancelledCallsReturn CloseLeavesNothing

\* Cancellation with runtimes that may never answer and no timeout: two jobs on an engine with one
\* worker and one queue slot, and a render of the same scene as one of them on another engine.
CONSTANTS
  e1 = e1  e2 = e2  j1 = j1  j2 = j2  j3 = j3  s1 = s1
  Engines = {e1, e2}
  Jobs = {j1, j2, j3}
  Scenes = {s1}
  Owner <- WakingOwners
  SceneOf <- TwoRenders
  NoScene = NoScene
  NoJob = NoJob
  Workers = 1
  QueueCapacity = 1
  MayCancel = {j1}
  MayStop = {}
  MayCrash = {}
  MayFreeze = {}
  MayFail = {}
  MayDrop = {j1}
SPECIFICATION PatientSpec
CHECK_DEADLOCK FALSE
INVARIANT CapacityIsKept
PROPERTY CancelTakesEffect

\* A submission whose client disconnects, and a cancellation of its job.
CONSTANTS
  e1 = e1  e2 = e2  j1 = j1  j2 = j2  j3 = j3  s1 = s1
  Engines = {e1, e2}
  Jobs = {j1, j2}
  Scenes = {s1}
  Owner <- TwoOwners
  SceneOf <- SameScene
  NoScene = NoScene
  NoJob = NoJob
  Workers = 1
  QueueCapacity = 1
  MayCancel = {j1}
  MayStop = {}
  MayCrash = {}
  MayFreeze = {}
  MayFail = {}
  MayDrop = {j1}
SPECIFICATION PatientSpec
CHECK_DEADLOCK FALSE
PROPERTY CancelEndsOwnJobs

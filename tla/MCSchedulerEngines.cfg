\* Two engines, one render of the same scene each; one engine stops, crashes, freezes and meets store and disk failures.
CONSTANTS
  e1 = e1  e2 = e2  j1 = j1  j2 = j2  j3 = j3  s1 = s1
  Engines = {e1, e2}
  Jobs = {j1, j2}
  Scenes = {s1}
  Owner <- TwoOwners
  SceneOf <- SameScene
  NoScene = NoScene
  NoJob = NoJob
  Workers = 1
  QueueCapacity = 1
  MayCancel = {j1}
  MayStop = {e1}
  MayCrash = {e1}
  MayFreeze = {e1}
  MayFail = {e1}
  MayDrop = {j1}
SPECIFICATION Spec
CHECK_DEADLOCK FALSE
INVARIANTS SceneExclusive HealthyEngineKeepsItsJobs KeptArtifacts ToldOnce
PROPERTY RefinesLifecycle

\* Fair runs of two engines, one of which stops, crashes, and meets store and disk failures.
CONSTANTS
  e1 = e1  e2 = e2  j1 = j1  j2 = j2  j3 = j3  s1 = s1
  Engines = {e1, e2}
  Jobs = {j1, j2}
  Scenes = {s1}
  Owner <- TwoOwners
  SceneOf <- SameScene
  NoScene = NoScene
  NoJob = NoJob
  Workers = 1
  QueueCapacity = 1
  MayCancel = {}
  MayStop = {e1}
  MayCrash = {e1}
  MayFreeze = {}
  MayFail = {e1}
  MayDrop = {j1}
SPECIFICATION FairSpec
CHECK_DEADLOCK FALSE
PROPERTIES EveryJobEnds EveryEndingTold

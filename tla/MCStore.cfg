\* Three renders and a reader of one; two engines on a machine that sleeps; a scene
\* whose file is edited and moved between three jobs.  One at a time.
SPECIFICATION StoreSpec
CONSTANTS
  \* ResultCache
  j1 = j1  j2 = j2  j3 = j3  j4 = j4  p1 = p1
  NoJob = NoJob  NoKey = NoKey  Unknown = Unknown
  Jobs = {j1, j2, j3, j4}
  Readers = {j3}
  Fresh = {j4}
  Contents = {0, 1, 2}
  Runtimes = {0, 1}
  Prewarm = TRUE
  MayCancel = {j1}
  MayFail = {j1, j2, j4}
  Pruners = {p1}
  KeepJobs = 1
  MayRevert = FALSE
  \* Leases, in seconds
  e1 = e1  e2 = e2
  Engines = {e1, e2}
  Stale = 10
  ReapEvery = 2
  Late = 1
  Suspends = {4, 6, 12}
  Quiet = TRUE
  StartLate = {e2}
  MayDie = {e1}
  \* SceneMedia
  f1 = f1  f2 = f2  o1 = o1
  SceneFiles = {f1, f2}
  SpecFile = Nowhere
  Nowhere = Nowhere
  Outputs = {o1}
  Indexed = TRUE
  MayReuse = FALSE
  MayPeek = FALSE
  MayStop = FALSE
  MaxJobs = 3
  MaxEdits = 2
INVARIANTS CacheSound SubmissionsAreCurrent LeasesTellWhoLives PicturesTellTheTruth
PROPERTIES PruningKeepsWhatIsShown
CHECK_DEADLOCK FALSE

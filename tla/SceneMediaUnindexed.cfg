\* No scan of the project is cached when the scene is first rendered.
SPECIFICATION MediaSpec
CONSTANTS
  SceneFiles = {f1}
  SpecFile = Nowhere
  Nowhere = Nowhere
  Outputs = {}
  Indexed = FALSE
  MayReuse = FALSE
  MayPeek = FALSE
  MayStop = FALSE
  MaxJobs = 2
  MaxEdits = 1
INVARIANT NothingStaleLooksCurrent
CHECK_DEADLOCK FALSE

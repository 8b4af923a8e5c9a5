SPECIFICATION Spec
CONSTANTS
  Projects = {1, 2}
  Artifacts = {1, 2, 3, 4}
  None = None
  ProjectOf <- TwoProjects
  Size <- OneLarge
  MaxRecords = 2
  MaxBytes = 3
  MaxFaults = 2
  MaxCrashes = 2
INVARIANTS
  AnsweredArtifactsKept
  RefusalNeedsGhost
PROPERTIES
  ImplementsShelf
CHECK_DEADLOCK FALSE

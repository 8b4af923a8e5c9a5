SPECIFICATION Spec
CONSTANTS
  Targets = {1, 2, 3}
  Values = {"v1", "v2"}
  None = None
  Names = {"n1", "n2"}
  MaxTargets = 2
  MaxFaults = 2
  MaxCrashes = 2
INVARIANTS
  AnsweredRecordsKept
  MemoryIsDisk
  ContextsKeepTheirTarget
  RefusalNeedsLostStaging
PROPERTIES
  ImplementsShelf
CHECK_DEADLOCK FALSE

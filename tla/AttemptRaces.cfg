SPECIFICATION FairSpec
CONSTANTS
  j1 = j1
  a1 = a1  a2 = a2
  r1 = r1  r2 = r2
  b1 = b1
  None = None
  Projects = {j1}
  Attempts = {a1, a2}
  ProjectOf <- OneProject
  Requests = {r1, r2}
  Bindings = {b1}
  MaxTerminal = 1
  MaxContexts = 2
  MaxGeneration = 2
  MaxRevision = 1
INVARIANTS
  RunKeepsItsHold
  CancelledNeverProposes
PROPERTIES
  EndedIsFinal
  SlotIsFreed

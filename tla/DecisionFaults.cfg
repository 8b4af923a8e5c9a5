SPECIFICATION Spec
CONSTANTS
  p1 = p1  p2 = p2
  t1 = t1  t2 = t2
  None = None
  Genesis = Genesis
  Proposals <- Two
  Tokens = {t1, t2}
  Blocked <- OneBlocked
  ClockMayStepBack = TRUE
  FaultSites <- AllSites
  MaxFaults = 2
  MaxCrashes = 2
SYMMETRY TokenSymmetry
INVARIANTS
  DecidedAsApproved
  MemoryFollows
  OneOpenReview
  StoresAgree
PROPERTIES
  ImplementsHumanDecision
  RecordsAreFinal

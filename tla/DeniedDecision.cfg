SPECIFICATION Spec
CONSTANTS
  p1 = p1  p2 = p2
  t1 = t1  t2 = t2
  None = None
  Genesis = Genesis
  Proposals <- Two
  Tokens = {t1}
  Blocked <- OneBlocked
  ClockMayStepBack = FALSE
  FaultSites <- RepositorySites
  MaxFaults = 2
  MaxCrashes = 1
INVARIANTS
  CommittedNeverDenied

SPECIFICATION Spec
CONSTANTS
  j1 = j1  j2 = j2  j3 = j3
  p1 = p1  p2 = p2
  o1 = o1  o2 = o2  o3 = o3
  Projects = {j1, j2, j3}
  Proposals = {p1, p2}
  Objects = {o1, o2, o3}
  ProjectOf <- TwoProposals
  Base <- SharedBase
  Site <- SharedSite
  Rank <- Order
  Legacy <- OneLegacy
  MaxProjects = 2
  FaultSites = {"drop"}
  MaxFaults = 0
  MaxCrashes = 1
INVARIANTS
  StartupAccepts
CHECK_DEADLOCK FALSE

SPECIFICATION Spec
CONSTANTS
  Sessions = {s1, s2}
  Previews = {p1, p2}
  Requests = {r1, r2}
  Files = {f1, f2}
  Index = f1
  Versions = {v1}
  None = None
  MaxSessions = 1
  MaxPreviews = 1
  MaxProjects = 2
  SessionTtl = 1
  PreviewTtl = 1
  MaxTime = 2
  MaxEdits = 1
  MaxFaults = 1
  MaxCrashes = 1
SYMMETRY Symmetry
INVARIANTS
  ConfirmedOnce
  ImportedIsReviewed
CHECK_DEADLOCK FALSE

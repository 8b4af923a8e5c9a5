SPECIFICATION Spec
CONSTANTS
    p1 = p1
    None = None
    Attempts <- OneAttempt
    Tasks <- ThreeTasks
    MaxFaults = 2
CHECK_DEADLOCK FALSE
INVARIANTS
    RestShowsProject
    OneDecision
    DecisionLocks
PROPERTY
    PageSettles

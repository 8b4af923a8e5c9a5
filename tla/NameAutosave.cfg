SPECIFICATION EditorSpec
CONSTANTS
    A = A
    B = B
    C = C
    Names <- MCNames
    FirstName = A
    BadName = BadName
    MaxSequence = 5
    MaxSaveFaults = 1
    MaxReloads = 1
CHECK_DEADLOCK FALSE
INVARIANT
    StoredAsShown
PROPERTIES
    NoBlindOverwrite
    AutosaveSettles

CONSTANTS
    LabelOrder <- Labels
    LIBVAL_NSEC3 = TRUE
    NSEC3_MAX_ITER = {}
    Contents <- AllContents
    QNames <- AbsentName
    Cuts <- NoCuts
    HashMults = {1}
    MaxRRsets = 3
SPECIFICATION Spec
INVARIANT NameDenialIsSound
CHECK_DEADLOCK FALSE

CONSTANTS
    LabelOrder <- Labels
    LIBVAL_NSEC3 = TRUE
    NSEC3_MAX_ITER = {}
    Contents <- AllContents
    QNames <- AskedNames
    Cuts <- NoCuts
    HashMults = {1, 3, 5}
    MaxRRsets = 3
SPECIFICATION Spec
INVARIANT TypeDenialIsSound
INVARIANT HonestNoDataAccepted
INVARIANT Nsec3NameDenialIsSound
INVARIANT HonestNameErrorAccepted
CHECK_DEADLOCK FALSE

CONSTANTS
    LabelOrder <- Labels
    LIBVAL_NSEC3 = TRUE
    NSEC3_MAX_ITER = {}
    Contents <- CutContents
    QNames <- CutName
    Cuts <- CutName
    HashMults = {1}
    MaxRRsets = 2
SPECIFICATION Spec
INVARIANT TypeDenialIsSound
CHECK_DEADLOCK FALSE

CONSTANTS
    RRTypes <- MixedTypes
    QTypes <- QueryMX
    Junk <- ZeroByte
SPECIFICATION Spec
INVARIANT IsTypeSetDecodes
CHECK_DEADLOCK FALSE

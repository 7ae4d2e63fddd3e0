CONSTANTS
    Now = 10
    SIG_ACCEPT_WINDOW = 2
    LIBVAL_NSEC3 = TRUE
    Names <- MCNames
    Zones <- MCZones
    Root = "root"
    Parent <- MCParent
    QName = "www"
    SignedChoices <- DataTrees
    Islands <- NoIslands
    ZoneKey <- MCZoneKey
    KX = "KX"
    Attacks <- DataAttacks
    ForgeSigners <- SignersLeaf
    ForgeTypes <- DataTypes
    Cached <- WarmCache
SPECIFICATION Spec
INVARIANT TypeOK
INVARIANT TrustedAnswerIsGenuine
INVARIANT NoNullPendingDereference
INVARIANT HonestOutcome
PROPERTY ResolveReturns
PROPERTY QueryLifecycleRefined

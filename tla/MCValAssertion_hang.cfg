CONSTANTS
    Now = 10
    SIG_ACCEPT_WINDOW = 2
    LIBVAL_NSEC3 = TRUE
    Names <- MCNames
    Zones <- MCZones
    Root = "root"
    Parent <- MCParent
    QName = "www"
    SignedChoices <- AllSigned
    Islands <- NoIslands
    ZoneKey <- MCZoneKey
    KX = "KX"
    Attacks <- KeyForgery
    ForgeSigners <- SignersAll
    ForgeTypes <- AllTypes
    Cached <- NoCache
SPECIFICATION Spec
INVARIANT TrustWalkTerminates

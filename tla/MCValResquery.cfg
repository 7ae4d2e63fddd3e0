\* One resolution of c.z.t by iteration from the root hints, any response
\* of which may be spoofed; spoofed DNAMEs sit above the name asked.
CONSTANTS
    QName <- C
    QType = "A"
    NSLIST = FALSE
    TrustAnchors <- TrustedZ
    MaxLabels = 2
    Respond <- MCRespond
    Hosts <- GluelessHosts
    SelfGlue = FALSE
    SelfDname = FALSE
SPECIFICATION Spec
INVARIANT TypeOK
INVARIANT HonestNeverRejected
PROPERTY ResolutionEnds

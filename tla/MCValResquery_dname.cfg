\* As MCValResquery.cfg, but a spoofed DNAME may be owned by the name asked
\* itself: process_cname_dname_responses rewrites it without registering.
CONSTANTS
    QName <- C
    QType = "A"
    NSLIST = FALSE
    TrustAnchors <- TrustedZ
    MaxLabels = 2
    Respond <- MCRespond
    Hosts <- GluelessHosts
    SelfGlue = FALSE
    SelfDname = TRUE
SPECIFICATION Spec
PROPERTY ResolutionEnds

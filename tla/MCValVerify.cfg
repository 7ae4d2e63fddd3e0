\* Soundness of verify_next_assertion against the spec's reference for a
\* verified set, at Now = 10 with a window of 2, in a LIBVAL_NSEC3 build,
\* with signer names of two wire lengths.
\* The call returns after one step, so the final states have no successor.
CONSTANTS
    Now = 10
    SIG_ACCEPT_WINDOW = 2
    LIBVAL_NSEC3 = TRUE
    SignerLens = {1, 2}
SPECIFICATION Spec
INVARIANT VerifiedOnlyIfSomeSigChecks
CHECK_DEADLOCK FALSE

\* Completeness of verify_next_assertion when the RRSIGs of a set have
\* signer names of different wire lengths (val_verify.c 376-377, 451).
\* The call returns after one step, so the final states have no successor.
CONSTANTS
    Now = 10
    SIG_ACCEPT_WINDOW = 2
    LIBVAL_NSEC3 = TRUE
    SignerLens = {1, 2}
SPECIFICATION Spec
INVARIANT SomeSigChecksIsVerified
CHECK_DEADLOCK FALSE

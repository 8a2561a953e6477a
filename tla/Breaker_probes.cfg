SPECIFICATION Spec
CONSTANTS
    Requests = {r1, r2}
    Threshold = 2
    RecoveryTimeout = 2
    Streaming = FALSE
    Restores = FALSE
    Null = null
INVARIANT HalfOpenAdmitsOne

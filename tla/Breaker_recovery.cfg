SPECIFICATION FairSpec
CONSTANTS
    Requests = {r1, r2}
    Threshold = 2
    RecoveryTimeout = 1
    Streaming = FALSE
    Restores = FALSE
    Null = null
PROPERTIES OpenIsProbed Recovers

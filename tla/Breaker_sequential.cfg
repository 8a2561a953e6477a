SPECIFICATION Spec
CONSTANTS
    Requests = {r1}
    Threshold = 3
    RecoveryTimeout = 3
    Streaming = FALSE
    Restores = FALSE
    Null = null
PROPERTY FollowsContract

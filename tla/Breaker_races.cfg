SPECIFICATION Spec
CONSTANTS
    Requests = {r1, r2}
    Threshold = 2
    RecoveryTimeout = 1
    Streaming = TRUE
    Restores = TRUE
    Null = null
SYMMETRY Symmetry
INVARIANTS TypeOK OpenedAtMatchesState ClosedBelowThreshold

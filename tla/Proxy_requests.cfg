CONSTANTS
    Requests = {r1, r2}
    Targets = {t1}
    MaxRetries = 1
    Settings <- TwoModes
    Crashes = TRUE
    Null = Null
SPECIFICATION Spec
SYMMETRY Symmetry
INVARIANTS TypeOK CallsBounded RowsTellOutcome BodyTellsEnd
PROPERTY NoWayBack

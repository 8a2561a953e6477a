SPECIFICATION MCSpec
CONSTANTS
    WatchTask = {t1, t2}
    Reporter = {t1, t2}
    UpReplica = {t1, t2}
    CatTask = {t1, t2}
    Incident = {i1, i2}
    Batch = {i1, i2}
    Admin = {i1, i2}
    CatRoute = {i1, i2}
    BkBackup = {i1, i2}
    BkRoute = {r1}
    BkKey = {k1}
    Path = {p1}
    None = None
    NoRoute = NoRoute
    MaxStarted = 4
    MaxBackups = 1
    MaxVersion = 2
    MaxChecks = 3
    LastVersion = 3
    MaxRequests = 5
    MaxWrites = 3
SYMMETRY MCSymmetry
INVARIANTS
    OperationsTypesOK
    OneOpenIncident
    DismissedStays
    TimelineTellsStatus
    OutageHasIncident
    NoticeThrottled
    RestoreGivesBack
    NoPhantomUpdate
    LiveUnmangled
    VersionsComplete
    ReadYourWrites
CHECK_DEADLOCK FALSE

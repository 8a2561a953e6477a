SPECIFICATION MCSpec
CONSTANTS
    Reqs = {r1, r2}
    Calls = {r1, r2}
    Tabs = {r1, r2}
    Attempts = {r1, r2}
    Replicas = {r1, r2}
    Sids = {x1, x2}
    Users = {x1, x2}
    Tokens = {x1, x2}
    Codes = {c1}
    Invites = {i1, i2}
    NoSid = NoSid
    Nobody = Nobody
    NoToken = NoToken
    MaxAttempts = 2
    MaxFresh = 3
    MaxVersion = 1
    Limit = 2
    Window = 2
    Hour = 2
    MaxTime = 5
    MaxLate = 1
SYMMETRY MCSymmetry
INVARIANTS
    AccountsTypesOK
    PasswordBound
    ChallengeOnce
    TwoFactorExact
    AdminRemains
    OwnerRemains
    OneInvite
    RateHolds
PROPERTIES
    WithdrawnStaysWithdrawn
    DeadCookieNearsLogin
CHECK_DEADLOCK FALSE

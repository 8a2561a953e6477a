SPECIFICATION BrowserFairSpec
CONSTANTS
    Tabs = {t1}
    Tokens = {k1}
    NoToken = NoToken
PROPERTY FallbackReachesLogin
CHECK_DEADLOCK FALSE

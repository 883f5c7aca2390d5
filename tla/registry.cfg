CONSTANTS
    t1 = t1
    t2 = t2
    h1 = h1
    h2 = h2
    Tenants = {t1, t2}
    Hostnames = {h1, h2}
    Tokens <- OverlappingTokens
    NumConns = 3
    MaxConnections = 2
    PresenceMayFail = TRUE
    NoHandle = NoHandle
    NoConn = NoConn
SPECIFICATION FairSpec
CHECK_DEADLOCK FALSE
INVARIANTS
    IndexesAgree
PROPERTIES
    StaleDisconnectIsHarmless
    ReplacedHandlerEnds

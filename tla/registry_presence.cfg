CONSTANTS
    t1 = t1
    t2 = t2
    h1 = h1
    h2 = h2
    Tenants = {t1, t2}
    Hostnames = {h1, h2}
    Tokens <- OneTenantTokens
    NumConns = 2
    MaxConnections = 2
    PresenceMayFail = FALSE
    NoHandle = NoHandle
    NoConn = NoConn
SPECIFICATION Spec
CHECK_DEADLOCK FALSE
INVARIANT PresenceMatchesRegistry

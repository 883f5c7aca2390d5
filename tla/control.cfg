SPECIFICATION ControlSpec
SYMMETRY EdgeSymmetry
CONSTANTS
    t1 = t1
    t2 = t2
    h1 = h1
    h2 = h2
    e1 = e1
    e2 = e2
    Tenants = {t1}
    NumHandlers = 2
    TenantOf <- OneTenant
    Watched = 1
    TTL = 2
    MaxTicks = 1
    MaxFailures = 1
    None = None
    NoDigest = NoDigest
    Edges = {e1, e2}
    Owners = {t1, t2}
    Hostnames = {h1, h2}
    Tokens <- SharedHostname
    NumClaims = 3
    CacheTTL = 1
    AnswerDelay = 1
    MaxAdmin = 1
    NoTenant = NoTenant
INVARIANTS
    OwnSetCoversRoutes
    WithdrawnStaysGone
    PeerForgetsWithdrawn
    NoSharedHostname
    ConfirmationWasTrue
PROPERTIES
    CoalescedIsPublished
    NothingAfterStop
    AcceptedWasOwner
CHECK_DEADLOCK FALSE

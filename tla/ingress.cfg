SPECIFICATION IngressSpec
CONSTANTS
    r1 = r1
    r2 = r2
    r3 = r3
    t1 = t1
    t2 = t2
    p1 = p1
    s1 = s1
    s2 = s2
    s3 = s3
    s4 = s4
    ip1 = ip1
    ip2 = ip2
    ip3 = ip3
    edge2 = edge2
    edge3 = edge3
    waf = waf
    geo = geo
    Tasks = {r1, r2, r3}
    Keys = {t1, t2, p1}
    TenantKey <- TenantOf
    PeerKey <- PeerOf
    Limit <- Budgets
    Sems = {s1, s2, s3, s4}
    NoSem = NoSem
    Workers = {1, 2}
    Clients = {ip1, ip2, ip3}
    Amounts = {1, 2}
    Burst = 3
    MaxEntries = 2
    IdleTtl = 2
    SweepInterval = 2
    NoBucket = NoBucket
    NoTake = NoTake
    Listeners = {1}
    Addresses = {ip1, ip2}
    Policies <- TcpPolicies
    Connections = {1, 2, 3}
    NoAdmission = NoAdmission
    NoConnection = NoConnection
    Sources = {ip1, ip2}
    Numbers = {1}
    Ingress = edge1
    Peer = edge2
    MaxReplies = 2
    MaxPending = 1
    MaxBreaks = 1
    MaxReplaced = 1
    MaxRestarts = 1
    HttpConns = {1, 2, 3}
    MaxHttp = 2
    Tenants = {t1, t2}
    HttpPeers <- PeersInOrder
    Self = edge1
    Configs <- PolicyLoads
    Slots <- PluginSlots
    Threads = {1, 2, 3, 4}
    HttpStarts <- Starts
    NoTenant = NoTenant
    NoJob = NoJob
    NoClient = NoClient
    n1 = n1
    n2 = n2
    n3 = n3
    ByocNames = {n1, n2}
    ManagedNames = {n3}
    NumCerts = 2
    MaxFileEdits = 4
    NoCert = NoCert
    Broken = Broken
    NoReload = NoReload
INVARIANTS
    LimitRespected
    BucketsMatchIdeal
    CountsMatchPermits
    ReplyMatches
    DeliveredAsRouted
    PluginsNotOlder
    PluginBudget
PROPERTY
    CertificatesKept
CHECK_DEADLOCK FALSE

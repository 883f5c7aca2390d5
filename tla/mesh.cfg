SPECIFICATION FairSpec
CONSTANTS
    p1 = p1
    p2 = p2
    Peers = {p1, p2}
    Ranked <- TwoPeers
    Advertisers <- FirstBehindBoth
    NumRequests = 2
    MaxConns = 2
    NoConn = NoConn
INVARIANTS
    PayloadOnce
    OneAttemptPerCooldown
PROPERTIES
    LiveConnectionKept
    RequestIsAnswered
CHECK_DEADLOCK FALSE

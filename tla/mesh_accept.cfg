SPECIFICATION FairSpec
CONSTANTS
    p1 = p1
    p2 = p2
    Peers = {p1, p2}
    Ranked <- TwoPeers
    Advertisers <- FirstBehindBoth
    NumRequests = 1
    MaxConns = 2
    NoConn = NoConn
PROPERTY RetriedBeforeAcceptance
CHECK_DEADLOCK FALSE

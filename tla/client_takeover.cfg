CONSTANTS
    p1 = p1
    p2 = p2
    e1 = e1
    e2 = e2
    Processes = {p1, p2}
    Edges = {e1, e2}
    Configurations <- SharedToken
    InitialBackoff = 2
    MaxBackoff = 4
    ReplacedRetryDelay = 4
    DrainTimeout = 1
    MaxStreams = 1
    MaxDatagrams = 1
    NoLink = NoLink
    Dead = Dead
    Free = Free
SPECIFICATION Spec
CHECK_DEADLOCK FALSE
PROPERTY TakeoverRespected

CONSTANTS
    e1 = e1
    e2 = e2
    Edges = {e1, e2}
    NoEdge = NoEdge
    SingleWriter = e1
    None = None
    VolatileValkey = FALSE
    Configs <- TwoTtls
    Foreign <- OthersRecord
    MaxGeneration = 2
    MaxFaults = 1
    MaxEdits = 1
    MaxReconfigs = 1
SPECIFICATION FairSpec
PROPERTIES
    PartialChangeResumed

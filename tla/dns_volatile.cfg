CONSTANTS
    e1 = e1
    e2 = e2
    Edges = {e1, e2}
    NoEdge = NoEdge
    SingleWriter = e1
    None = None
    VolatileValkey = TRUE
    Configs <- OneTtl
    Foreign <- OthersRecord
    MaxGeneration = 2
    MaxFaults = 2
    MaxEdits = 0
    MaxReconfigs = 0
SPECIFICATION Spec
PROPERTIES
    WriterMovesForward

CONSTANTS
    e1 = e1
    e2 = e2
    t1 = t1
    o1 = o1
    o2 = o2
    w1 = w1
    Edges = {e1, e2}
    NoEdge = NoEdge
    KeptGenerations = 2
    MaxFaults = 2
    MaxDue = 1
    Tokens = {t1}
    MaxHttpFaults = 1
    Orders = {o1, o2}
    NoOrder = NoOrder
    OperatorValues = {w1}
    MaxAttempts = 2
    MaxTxtFaults = 1
    MaxEdits = 1
SPECIFICATION AcmeSpec
INVARIANTS
    CurrentIsOnDisk
    ConfirmedIsServed
    LeftoverIsJournaled
    ValueStaysWhileNeeded
PROPERTIES
    ImplementsRegister
    NoNeedlessOrder
    RenewalHappens
    ResponsesWithdrawn
    OperatorValuesKept

CONSTANTS
    APs = {a, b}
    NoAP = NoAP
    TryMax = 2
    SockCap = 3
    Ops = {"connect"}
    Noise = {}
    MayDie = FALSE
    MonCap = 2
    MaxCalls = 1
SYMMETRY APSymmetry
SPECIFICATION Spec
INVARIANT ConnectSuccessMeansConnected
CHECK_DEADLOCK FALSE

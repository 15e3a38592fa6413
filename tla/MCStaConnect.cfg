CONSTANTS
    APs = {a, b}
    NoAP = NoAP
    TryMax = 2
    SockCap = 2
    Ops = {"connect", "disconnect", "auto"}
    Noise = {"OTHER"}
    MayDie = TRUE
    MonCap = 2
    MaxCalls = 2
SYMMETRY APSymmetry
SPECIFICATION Spec
INVARIANT TypeOK
INVARIANT NetConnectedReal
INVARIANT SuccessIsNews
CHECK_DEADLOCK FALSE

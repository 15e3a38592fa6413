CONSTANTS
    APs = {a}
    NoAP = NoAP
    TryMax = 3
    SockCap = 1
    Ops = {"connect", "disconnect", "auto", "scan"}
    Noise = {"SCAN_FAILED"}
    MayDie = TRUE
    MonCap = 2
    MaxCalls = 2
SPECIFICATION FairSpec
PROPERTY CallsReturn
CHECK_DEADLOCK FALSE

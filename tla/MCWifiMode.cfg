CONSTANTS
    Switchable <- AllModes
    Faults <- FaultKinds
    MaxCalls = 7
SPECIFICATION Spec
INVARIANT OneDaemon
INVARIANT CurrentEnabled
INVARIANT ModeServed
CHECK_DEADLOCK FALSE

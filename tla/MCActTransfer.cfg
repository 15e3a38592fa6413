CONSTANTS
    Callers = {c1, c2, c3}
    NoCaller = NoCaller
    QueueLen = 1
    MaxCalls = 2
SPECIFICATION FairSpec
INVARIANT OneRequest
INVARIANT NoUseAfterFree
INVARIANT OkMeansServed
INVARIANT PostNeverFails
PROPERTY EveryCallReturns
CHECK_DEADLOCK FALSE

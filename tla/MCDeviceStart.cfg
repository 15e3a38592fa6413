SPECIFICATION FairStart
CONSTANTS
    SyncTries = 10
    Polls = 20
INVARIANTS
    P2pSeesMedia
PROPERTIES
    OnlineStartsP2p
    LinkRepaired

SPECIFICATION RawSpec
CONSTANTS
    Settings <- MCSettings
    NoSetting = NoSetting
    Resolutions = {0, 4, 6}
    Arrivals <- MCArrivals
    ByZero <- MCByZero
    MaxSets = 2
    MaxMaps = 2
INVARIANTS
    FrameExact
    TakenIsMeant
PROPERTIES
    ReportMirrorsRequest
    QueryShowsHeld
CHECK_DEADLOCK FALSE

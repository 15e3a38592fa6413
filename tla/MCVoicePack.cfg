SPECIFICATION FairSpec
CONSTANTS
    Langs = {la, lb}
    Versions = {v1, v2}
    None = None
    Torn = Torn
    MaxRequests = 3
    MaxFaults = 2
    MaxCrashes = 2
INVARIANTS
    VersionEarned
    FirstInstallCrashSafe
PROPERTIES
    InstalledIsInUse
    DownloadAnswered
CHECK_DEADLOCK FALSE

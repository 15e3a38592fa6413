SPECIFICATION FairSpec
CONSTANTS
    m1 = m1
    m2 = m2
    main = main
    extra = extra
    Maps = {m1, m2}
    Files = {main, extra}
    FilesOf <- MCFilesOf
    Ids = {1, 2}
    Earlier = {1}
    CurrIds = {0}
    NoMap = NoMap
    NoId = NoId
    MaxCommands = 2
    MaxRobot = 1
INVARIANTS
    TypeOK
    ReportedIsReal
    SelfNamed
    SaveFaithful
    UseFaithful
PROPERTY
    PhoneAnswered
CHECK_DEADLOCK FALSE

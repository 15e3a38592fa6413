SPECIFICATION MCSpec
CONSTANTS
    go = go
    setting = setting
    Dps = {go, setting}
    Classes <- MCClasses
    Values = {0, 1}
    Default = 0
    ReportOrder <- MCOrder
    Go = go
    Batches <- MCBatches
    Hour = 2
    MaxLife = 2
    Budgets <- MCBudgets
INVARIANTS
    CloudIsCurrent
    LifeIsCurrent
    StartLast
PROPERTY
    ChangesArrive
CHECK_DEADLOCK FALSE

CONSTANTS
    MaxTrans = 2
    FileMax = 2
    Requests <- SomeRequests
    MaxEvents = 5
SPECIFICATION FairSpec
INVARIANT RightPhone
INVARIANT FinishAnswers
PROPERTY NoFileForgotten
PROPERTY CancelSilences

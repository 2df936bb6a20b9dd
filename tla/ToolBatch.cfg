CONSTANTS
    N = 2
    Kinds <- AllKinds
    HasPeek = TRUE
    MaxSteer = 1
SPECIFICATION FairSpec
INVARIANTS
    ExclusiveRunsAlone
    EveryCallAnswered
    ReportedTruly
PROPERTIES
    NoExecuteAfterAbort
    BatchReturns
    SteerEndsBatch

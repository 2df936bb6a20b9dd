CONSTANTS
    HarmonyModel = TRUE
    MaxCalls = 2
    MaxQueue = 3
SPECIFICATION FairSpec
INVARIANTS
    TypeOK
    CleanEnd
    OnlyCompleteCalls
PROPERTIES
    CallEnds

CONSTANTS
    SteeringAll = FALSE
    FollowUpAll = FALSE
    HasDeadline = FALSE
    HarmonyModel = FALSE
    HooksFail = TRUE
    MaxPaused = 1
    MaxSoft = 0
    MaxHarmony = 0
    SoftIds = 0
    NumMsgs = 4
    MaxCalls = 1
    MaxToolTurns = 1
    MaxRuns = 2
SPECIFICATION Spec
CHECK_DEADLOCK FALSE
INVARIANTS
    QueuesIntact
PROPERTIES
    AbortLeavesQueues
    StopsComplete

CONSTANTS
    SteeringAll = TRUE
    FollowUpAll = TRUE
    HasDeadline = TRUE
    HarmonyModel = TRUE
    HooksFail = TRUE
    MaxPaused = 2
    MaxSoft = 2
    MaxHarmony = 2
    SoftIds = 2
    NumMsgs = 2
    MaxCalls = 2
    MaxToolTurns = 2
    MaxRuns = 2
SPECIFICATION FairSpec
CHECK_DEADLOCK FALSE
INVARIANTS
    ModelCallsSound
    DirectivesHonoured
PROPERTIES
    RunEnds

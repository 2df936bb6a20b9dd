CONSTANTS
    HandlersLag = FALSE
    MaxForces = 2
    MaxPrompts = 2
    MaxTurns = 4
    MaxAborts = 1
    MaxToggles = 2
    MaxThrows = 1
SPECIFICATION TCSpec
INVARIANTS
    ForceAccounted
    TodoEndsWithPrompt
CHECK_DEADLOCK FALSE

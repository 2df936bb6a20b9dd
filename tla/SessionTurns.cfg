SPECIFICATION Spec
CONSTANTS
    DrainCap = 2
    WakeCap = 2
    WakeRowCap = 1
    NumMsgs = 3
    MaxPrompts = 1
    Aborts = {a1}
INVARIANTS  OnePlace BusyOnlyWhileLive
PROPERTY NotStranded
CHECK_DEADLOCK FALSE

CONSTANTS
    Runs = {1, 2}
    Ids = {a, b}
    Owners = {o, p}
    Batched = {1}
    Pollers = {1}
    MaxRunning = 1
    MaxFails = 0
SPECIFICATION Spec
SYMMETRY IdSymmetry
CHECK_DEADLOCK FALSE
INVARIANTS
    CancelledIsOver
    AccountedFor
PROPERTIES
    HandedOnce

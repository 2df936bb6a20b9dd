CONSTANTS
    Runs = {1, 2}
    Ids = {1}
    Owners = {1}
    Batched = {}
    Pollers = {1}
    MaxRunning = 1
    MaxFails = 1
SPECIFICATION FairSpec
CHECK_DEADLOCK FALSE
INVARIANTS
    AtMostOnce
PROPERTIES
    ResultArrives

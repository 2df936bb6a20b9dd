CONSTANTS
    Events = {"e1", "e2"}
    IssueOf <- SameIssue
    Slots = {"s1", "s2"}
    MaxRetries = 1
    MaxRestarts = 1
    MaxCancels = 1
    MaxReruns = 1
SPECIFICATION Spec
INVARIANTS
    OneClientPerIssue
PROPERTIES
    StopFailsNothing
    ImplementsLedger
    AllSettle

CONSTANTS
    f = f
    g = g
    j = j
    s = s
    Fanouts = {f, g}
    Gated = {f}
    ItemsOf <- MCItemsOf
    LimitOf <- MCLimitOf
    Singles = {j, s}
    Jobs = {j}
    Max = 2
SPECIFICATION Spec
INVARIANTS
    PermitsCounted
    TruthfulReturn
PROPERTIES
    NobodyOvertakes
    EverythingSettles
CHECK_DEADLOCK FALSE

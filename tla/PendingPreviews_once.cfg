CONSTANTS
    a = a
    b = b
    c = c
    d = d
    e = e
    Calls = {a, b, c}
    MaxPreviews = 1
SYMMETRY MCSymmetry
SPECIFICATION Spec
INVARIANT
    AppliedOnce
CHECK_DEADLOCK FALSE

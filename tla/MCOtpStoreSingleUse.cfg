\* Two calls present the right code at the same time.
SPECIFICATION Spec
CONSTANTS
    Code = {k1, k2}
    Caller = {c1, c2}
    Empty = Empty
    MaxAttempts = 2
    RateLimitMax = 2
    Faults = FALSE
    MaxSerial = 2
    MaxCount = 3
    MaxHash = 9
SYMMETRY Symmetry
CHECK_DEADLOCK FALSE
INVARIANTS
    CodeSingleUse

\* Two calls race over two codes; calls stop anywhere, commands whose errors
\* are ignored fail, and time passes.
SPECIFICATION FairSpec
CONSTANTS
    Code = {k1, k2}
    Caller = {c1, c2}
    Empty = Empty
    MaxAttempts = 2
    RateLimitMax = 1
    Faults = TRUE
    MaxSerial = 2
    MaxCount = 2
    MaxHash = 4
\* The supply of serials is finite.
CHECK_DEADLOCK FALSE
INVARIANTS
    TypeOK
    AnswersBounded
    EndedIsGone
    WindowLimit
    OnlyIssuedAccepted
PROPERTIES
    LimitLifts

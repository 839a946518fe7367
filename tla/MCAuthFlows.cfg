\* Two requests and two flow tokens; every request may stop anywhere.
SPECIFICATION Spec
CONSTANTS
    Caller = {c1, c2}
    Fingerprint = {d1}
    NoFp = NoFp
    MaxAttempts = 2
    Stops = TRUE
    MaxFlow = 2
SYMMETRY Symmetry
CHECK_DEADLOCK FALSE
INVARIANTS
    TypeOK
    DeviceNeedsProof
    ReactivationNeedsDormancy
    FlowAnswersBounded

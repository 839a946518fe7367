\* The account is deleted between the read and the write of a reactivation.
SPECIFICATION FairSpec
CONSTANTS
    Caller = {c1}
    Fingerprint = {d1}
    NoFp = NoFp
    MaxAttempts = 2
    Stops = FALSE
    MaxFlow = 1
CHECK_DEADLOCK FALSE
PROPERTIES
    MovesFollowDomain

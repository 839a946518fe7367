\* Two identity and two board processes; errors, crashes and new host names.
SPECIFICATION Spec
CONSTANTS
    MaxUser = 2
    Relay = {r1, r2}
    Consumer = {c1, c2}
    None = None
    RelayBatch = 2
    ReadCount = 2
    MaxFaults = 2
    Errors = {"start", "read", "handle", "ack"}
    NewHostOnRestart = TRUE
SYMMETRY Symmetry
CHECK_DEADLOCK FALSE
INVARIANTS
    TypeOK
    NoPhantomUser
    PublishedIsInStream
    AckedIsApplied
    ExclusiveMessages

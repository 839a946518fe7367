\* A recreated board container has another host name.
SPECIFICATION FairSpec
CONSTANTS
    MaxUser = 1
    Relay = {r1}
    Consumer = {c1}
    None = None
    RelayBatch = 2
    ReadCount = 2
    MaxFaults = 1
    Errors = {}
    NewHostOnRestart = TRUE
CHECK_DEADLOCK FALSE
PROPERTIES
    Replicated

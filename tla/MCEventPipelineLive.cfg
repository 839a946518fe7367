\* One board process that crashes and comes back under its name.
SPECIFICATION FairSpec
CONSTANTS
    MaxUser = 3
    Relay = {r1}
    Consumer = {c1}
    None = None
    RelayBatch = 2
    ReadCount = 2
    MaxFaults = 2
    Errors = {}
    NewHostOnRestart = FALSE
CHECK_DEADLOCK FALSE
PROPERTIES
    Replicated
    ReadModelRefinement

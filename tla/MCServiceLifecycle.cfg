\* Either service with three requests of any kind.
SPECIFICATION FairSpec
CONSTANTS
    Request = {r1, r2, r3}
\* The process ends.
CHECK_DEADLOCK FALSE
INVARIANTS
    TypeOK
    NoUseAfterClose
    NoRequestDropped
PROPERTIES
    ShutdownEnds

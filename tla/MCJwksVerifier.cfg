\* Two concurrent calls, one key rotation, three outages or cancellations;
\* requests keep coming and outages end.
SPECIFICATION FairSpec
CONSTANTS
    Caller = {c1, c2}
    TripAfter = 2
    MaxKid = 2
    MaxTrouble = 3
INVARIANTS
    TypeOK
    OneRefetchPerCooldown
PROPERTIES
    NeverWithoutKeys
    RotationPropagates

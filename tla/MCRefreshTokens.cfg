\* Two families, two users, two concurrent calls; every script may be resent once.
SPECIFICATION Spec
CONSTANTS
    Token = {t1, t2, t3, t4, t5}
    Family = {f1, f2}
    User = {u1, u2}
    Caller = {c1, c2}
    None = None
    MaxRetries = 1
SYMMETRY Symmetry
\* The supply of tokens and families is finite, the program's is not.
CHECK_DEADLOCK FALSE
INVARIANTS
    TypeOK
    SingleUse
    ReplayKillsFamily
    CurrentResolves
    FamilyHasOneOwner
    AlarmMeansRerun
PROPERTIES
    DeadStaysDead
    SessionRefinement

\* Two tabs, two calls and two refreshes at once.
SPECIFICATION Spec
CONSTANTS
    Tab = {t1, t2}
    Family = {a, b}
    Call = {c1, c2}
    Flight = {f1, f2}
    None = None
    MaxLoads = 1
INVARIANTS
    TypeOK
    StoredIsCurrent
    AlarmNeedsCause
    PostedOnce
SYMMETRY Symmetry

----------------------------- MODULE ReadModel -----------------------------
(***************************************************************************)
(* What user replication promises the board service: an author row appears *)
(* for a user that signed up, once and for good, and sooner or later it    *)
(* appears for every one of them.                                          *)
(***************************************************************************)
CONSTANT UserId

VARIABLES
    signedUp,   \* users in the identity database
    known       \* users in the board's authors table

readModelVars == <<signedUp, known>>

ReadModelInit == signedUp = {} /\ known = {}

SignUp(u) ==
    /\ u \notin signedUp
    /\ signedUp' = signedUp \cup {u}
    /\ UNCHANGED known

Replicate(u) ==
    /\ u \in signedUp \ known
    /\ known' = known \cup {u}
    /\ UNCHANGED signedUp

ReadModelNext == \E u \in UserId : SignUp(u) \/ Replicate(u)

ReadModelSafety == ReadModelInit /\ [][ReadModelNext]_readModelVars

ReadModelSpec ==
    /\ ReadModelSafety
    /\ \A u \in UserId : WF_readModelVars(Replicate(u))
=============================================================================

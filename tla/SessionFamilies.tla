-------------------------- MODULE SessionFamilies --------------------------
(***************************************************************************)
(* What refresh-token rotation promises a relying party, without Redis,    *)
(* round trips or retries: a login session (a family) is held by exactly   *)
(* one token at a time; the holder can be replaced by a token that never   *)
(* held any session before; the session ends once and for good.            *)
(***************************************************************************)
CONSTANTS Token, Family, Unborn, Ended

VARIABLES
    holder,   \* per family: Unborn, the one token that is good, or Ended
    spent     \* tokens that held a session once and do so no more

sessionVars == <<holder, spent>>

SessionInit ==
    /\ holder = [f \in Family |-> Unborn]
    /\ spent = {}

\* A token that neither holds nor held a session.
Fresh(t) == t \notin spent /\ \A f \in Family : holder[f] # t

Login(f, t) ==
    /\ holder[f] = Unborn
    /\ Fresh(t)
    /\ holder' = [holder EXCEPT ![f] = t]
    /\ UNCHANGED spent

Exchange(f, t) ==
    /\ holder[f] \in Token
    /\ Fresh(t)
    /\ holder' = [holder EXCEPT ![f] = t]
    /\ spent' = spent \cup {holder[f]}

End(f) ==
    /\ holder[f] \in Token
    /\ holder' = [holder EXCEPT ![f] = Ended]
    /\ spent' = spent \cup {holder[f]}

SessionNext == \E f \in Family : (\E t \in Token : Login(f, t) \/ Exchange(f, t)) \/ End(f)

SessionSpec == SessionInit /\ [][SessionNext]_sessionVars
=============================================================================

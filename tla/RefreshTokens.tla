--------------------------- MODULE RefreshTokens ---------------------------
(***************************************************************************)
(* Refresh-token rotation with reuse detection:                            *)
(* services/identity/internal/rtr/store.go.                                *)
(*                                                                         *)
(* Redis keeps two kinds of keys, both with the refresh TTL:               *)
(*   rt:token:<t>    the record {user_id, family} of token t    (tokenRec) *)
(*   rt:family:<f>   the current token of family f              (famCur)   *)
(*                                                                         *)
(* Store.Rotate is two round trips: a GET of the presented token's record  *)
(* and an atomic script.  Any number of callers run it at once, each stops *)
(* between the two, and go-redis sends the script again when the reply of  *)
(* an executed one is lost.  Everything Redis does in one command, script  *)
(* or MULTI/EXEC is one step here.                                         *)
(***************************************************************************)
EXTENDS Naturals, FiniteSets

CONSTANTS
    Token,      \* the 256-bit values newOpaqueToken can draw for a token
    Family,     \* the values it can draw for a family
    User,       \* user ids
    Caller,     \* concurrent Rotate calls
    None,       \* redis.Nil
    MaxRetries  \* how often the Redis client resends one command

ASSUME NoneAssumption == None \notin Token \cup Family \cup User
ASSUME TokensAreOpaque == "unborn" \notin Token /\ "ended" \notin Token
ASSUME RetriesAssumption == MaxRetries \in Nat

VARIABLES
    tokenRec,   \* rt:token:*
    famCur,     \* rt:family:*
    caller,     \* the Rotate calls in progress
    minted,     \* tokens drawn so far: a draw never repeats
    opened,     \* families drawn so far
    handed,     \* tokens returned to a client: only those can be presented
    \* History, read by no action's effect on the state above
    origin,     \* the record a token was first stored with
    parent,     \* the token a token was stored in exchange for
    runs,       \* how often the script ran for the token (2: twice or more)
    alarms      \* tokens whose presentation returned ErrReuseDetected

redisVars == <<tokenRec, famCur>>
history == <<origin, parent, runs, alarms>>
vars == <<tokenRec, famCur, caller, minted, opened, handed, origin, parent, runs, alarms>>

Record == [user : User, family : Family]

\* No record: the key does not exist.
NoRec == [user |-> None, family |-> None]

Idle == [pc |-> "idle", old |-> None, new |-> None, rec |-> NoRec, tries |-> 0]

InScript ==
    [pc : {"script"}, old : Token, new : Token, rec : Record, tries : 0..MaxRetries]

\* The history counters only tell "never", "once" and "again" apart.
Again(n) == IF n = 0 THEN 1 ELSE 2

TypeOK ==
    /\ tokenRec \in [Token -> Record \cup {NoRec}]
    /\ famCur \in [Family -> Token \cup {None}]
    /\ caller \in [Caller -> InScript \cup {Idle}]
    /\ minted \subseteq Token
    /\ opened \subseteq Family
    /\ handed \subseteq Token
    /\ origin \in [Token -> Record \cup {NoRec}]
    /\ parent \in [Token -> Token \cup {None}]
    /\ runs \in [Token -> 0..2]
    /\ alarms \subseteq Token

Init ==
    /\ tokenRec = [t \in Token |-> NoRec]
    /\ famCur = [f \in Family |-> None]
    /\ caller = [c \in Caller |-> Idle]
    /\ minted = {}
    /\ opened = {}
    /\ handed = {}
    /\ origin = [t \in Token |-> NoRec]
    /\ parent = [t \in Token |-> None]
    /\ runs = [t \in Token |-> 0]
    /\ alarms = {}

-----------------------------------------------------------------------------
(* Freshness: newOpaqueToken draws 256 random bits, so no draw repeats.    *)

\* Mutant: a draw that may repeat.
MayRepeat(v) == TRUE

FreshToken(t) == t \notin minted
FreshFamily(f) == f \notin opened

-----------------------------------------------------------------------------
(* Issue: a login starts a family.  save writes both keys in one MULTI.    *)

\* The reply reaches the login ("answered") or is lost after the write.
Issue(u, f, t, answered) ==
    /\ FreshToken(t)
    /\ FreshFamily(f)
    /\ minted' = minted \cup {t}
    /\ opened' = opened \cup {f}
    /\ tokenRec' = [tokenRec EXCEPT ![t] = [user |-> u, family |-> f]]
    /\ famCur' = [famCur EXCEPT ![f] = t]
    /\ handed' = IF answered THEN handed \cup {t} ELSE handed
    /\ origin' = [origin EXCEPT ![t] = [user |-> u, family |-> f]]
    /\ UNCHANGED <<caller, parent, runs, alarms>>

-----------------------------------------------------------------------------
(* Rotate, first round trip: GET rt:token:<old>.  A miss returns           *)
(* ErrInvalidToken and changes nothing; on a hit the call draws the new    *)
(* token and goes on with the record it read.                              *)

LookupHit(c, t, n) ==
    /\ caller[c] = Idle
    /\ t \in handed
    /\ tokenRec[t] # NoRec
    /\ FreshToken(n)
    /\ minted' = minted \cup {n}
    /\ caller' = [caller EXCEPT ![c] = [pc |-> "script", old |-> t, new |-> n,
                                        rec |-> tokenRec[t], tries |-> 0]]
    /\ UNCHANGED <<tokenRec, famCur, opened, handed, origin, parent, runs, alarms>>

-----------------------------------------------------------------------------
(* Rotate, second round trip: rotateScript.                                *)

\* The family key is gone: the script returns -1 and writes nothing.
FamilyGone(w) == famCur[w.rec.family] = None

\* Mutant: any token of a live family will do.
IsCurrent_NoCompare(w) == ~FamilyGone(w)

\* The presented token is the family's current one.
IsCurrent(w) == famCur[w.rec.family] = w.old

\* Mutant: the record is kept in the store, where the other calls write theirs.
StoreSuccessor_SharedRecord(w) ==
    \E c \in Caller :
        LET rec == [user |-> caller[c].rec.user, family |-> w.rec.family] IN
        /\ caller[c].pc = "script"
        /\ tokenRec' = [tokenRec EXCEPT ![w.new] = rec]
        /\ famCur' = [famCur EXCEPT ![w.rec.family] = w.new]
        /\ origin' = [origin EXCEPT ![w.new] = rec]
        /\ parent' = [parent EXCEPT ![w.new] = w.old]

\* The two SETs of a successful rotation.
StoreSuccessor(w) ==
    /\ tokenRec' = [tokenRec EXCEPT ![w.new] = w.rec]
    /\ famCur' = [famCur EXCEPT ![w.rec.family] = w.new]
    /\ origin' = [origin EXCEPT ![w.new] = w.rec]
    /\ parent' = [parent EXCEPT ![w.new] = w.old]

\* Mutant: reuse is reported and the family lives on.
DeleteFamily_Nothing(w) == UNCHANGED <<tokenRec, famCur, origin, parent>>

\* Mutant: the token key is deleted, the family key is not.
DeleteFamily_TokenOnly(w) ==
    /\ tokenRec' = [tokenRec EXCEPT ![famCur[w.rec.family]] = NoRec]
    /\ UNCHANGED <<famCur, origin, parent>>

\* The two DELs of reuse detection: the family and its current token.
DeleteFamily(w) ==
    /\ famCur' = [famCur EXCEPT ![w.rec.family] = None]
    /\ tokenRec' = [tokenRec EXCEPT ![famCur[w.rec.family]] = NoRec]
    /\ UNCHANGED <<origin, parent>>

\* Mutant: a missing family key is not told from a current token.
ScriptEffect_NoNilCheck(w) ==
    \/ ~FamilyGone(w) /\ ~IsCurrent(w) /\ DeleteFamily(w)
    \/ (FamilyGone(w) \/ IsCurrent(w)) /\ StoreSuccessor(w)

\* What the script does to the two kinds of keys for the call w.
ScriptEffect(w) ==
    \/ FamilyGone(w) /\ UNCHANGED <<tokenRec, famCur, origin, parent>>
    \/ ~FamilyGone(w) /\ ~IsCurrent(w) /\ DeleteFamily(w)
    \/ ~FamilyGone(w) /\ IsCurrent(w) /\ StoreSuccessor(w)

\* Mutant: the results 0 and -1 are treated alike.
DetectsReuse_OnMiss(w) == ~IsCurrent(w)

\* The script returns 0.
DetectsReuse(w) == ~FamilyGone(w) /\ ~IsCurrent(w)

\* The reply arrives: 1 hands the new token out, 0 is ErrReuseDetected and
\* -1 is ErrInvalidToken.
RunScript(c) ==
    LET w == caller[c] IN
    /\ w.pc = "script"
    /\ ScriptEffect(w)
    /\ caller' = [caller EXCEPT ![c] = Idle]
    /\ handed' = IF IsCurrent(w) THEN handed \cup {w.new} ELSE handed
    /\ alarms' = IF DetectsReuse(w) THEN alarms \cup {w.old} ELSE alarms
    /\ runs' = [runs EXCEPT ![w.old] = Again(@)]
    /\ UNCHANGED <<minted, opened>>

\* Mutant: one retry too many.
MayResend_OffByOne(w) == w.tries <= MaxRetries

MayResend(w) == w.tries < MaxRetries

\* The script ran but its reply was lost: the client library sends the same
\* command again, or Rotate returns the error once the retries are used up.
RunScriptReplyLost(c) ==
    LET w == caller[c] IN
    /\ w.pc = "script"
    /\ ScriptEffect(w)
    /\ caller' = [caller EXCEPT ![c] =
                    IF MayResend(w) THEN [w EXCEPT !.tries = @ + 1] ELSE Idle]
    /\ runs' = [runs EXCEPT ![w.old] = Again(@)]
    /\ UNCHANGED <<minted, opened, handed, alarms>>

\* The rotation succeeds, but Refresh then fails to load the user or to build
\* the JWTs: the new token is stored and nobody gets it.
RefreshFails(c) ==
    LET w == caller[c] IN
    /\ w.pc = "script"
    /\ IsCurrent(w)
    /\ ScriptEffect(w)
    /\ caller' = [caller EXCEPT ![c] = Idle]
    /\ runs' = [runs EXCEPT ![w.old] = Again(@)]
    /\ UNCHANGED <<minted, opened, handed, alarms>>

\* The call ends without (another) run of the script: its context is
\* cancelled, Redis cannot be reached, or the process dies.
Abandon(c) ==
    /\ caller[c].pc = "script"
    /\ caller' = [caller EXCEPT ![c] = Idle]
    /\ UNCHANGED <<redisVars, minted, opened, handed, history>>

-----------------------------------------------------------------------------
(* RevokeFamily: one DEL of the family key and of the tokens passed along. *)
(* Nothing in the repository calls it yet; by its name and comment a logout*)
(* passes tokens of that family, and the model assumes that it does.       *)

RevokeFamily(f, ts) ==
    /\ f \in opened
    /\ \A t \in ts : tokenRec[t].family = f
    /\ famCur' = [famCur EXCEPT ![f] = None]
    /\ tokenRec' = [t \in Token |-> IF t \in ts THEN NoRec ELSE tokenRec[t]]
    /\ UNCHANGED <<caller, minted, opened, handed, history>>

-----------------------------------------------------------------------------
(* Expiry.  Every SET uses the same TTL and a family's tokens are stored   *)
(* one after the other, so they expire in that order, and the current      *)
(* token, written together with the family key, expires together with it.  *)

ParentGone(t) == parent[t] # None => tokenRec[parent[t]] = NoRec

ExpireToken(t) ==
    /\ tokenRec[t] # NoRec
    /\ famCur[tokenRec[t].family] # t
    /\ ParentGone(t)
    /\ tokenRec' = [tokenRec EXCEPT ![t] = NoRec]
    /\ UNCHANGED <<famCur, caller, minted, opened, handed, history>>

ExpireFamily(f) ==
    /\ famCur[f] # None
    /\ ParentGone(famCur[f])
    /\ tokenRec' = [tokenRec EXCEPT ![famCur[f]] = NoRec]
    /\ famCur' = [famCur EXCEPT ![f] = None]
    /\ UNCHANGED <<caller, minted, opened, handed, history>>

-----------------------------------------------------------------------------

Rotate(c) ==
    \/ \E t, n \in Token : LookupHit(c, t, n)
    \/ RunScript(c)
    \/ RunScriptReplyLost(c)
    \/ RefreshFails(c)
    \/ Abandon(c)

Next ==
    \/ \E u \in User, f \in Family, t \in Token, answered \in BOOLEAN :
            Issue(u, f, t, answered)
    \/ \E c \in Caller : Rotate(c)
    \/ \E f \in Family, ts \in SUBSET Token : RevokeFamily(f, ts)
    \/ \E t \in Token : ExpireToken(t)
    \/ \E f \in Family : ExpireFamily(f)

Spec == Init /\ [][Next]_vars

-----------------------------------------------------------------------------
(* Properties.                                                             *)

\* A family that was opened and has no current token: logged out, revoked
\* or expired.
Dead(f) == f \in opened /\ famCur[f] = None

\* A refresh token is good for one rotation: however many calls present it
\* at the same time, and however often the client library repeats a script,
\* Rotate never stores two successors of one token.
SingleUse ==
    \A s, t \in Token : (parent[s] # None /\ parent[s] = parent[t]) => s = t

\* Reuse detection: once the script has run twice for one token, whoever
\* presented it, the token's family has no current token any more.
ReplayKillsFamily ==
    \A t \in Token : runs[t] = 2 => Dead(origin[t].family)

\* The two keys agree: the current token of a family resolves to a record
\* that names that family, so that its holder can rotate it.
CurrentResolves ==
    \A f \in Family : famCur[f] # None => tokenRec[famCur[f]].family = f

\* All tokens a family ever had belong to the user who logged in: a rotation
\* passes on the record it read before the script.
FamilyHasOneOwner ==
    \A s, t \in Token :
        (origin[s] # NoRec /\ origin[s].family = origin[t].family)
            => origin[s].user = origin[t].user

\* A revoked, logged out or expired family never gets a current token again,
\* whatever the calls do that read one of its tokens before.
DeadStaysDead == [][\A f \in Family : Dead(f) => Dead(f)']_vars

\* ErrReuseDetected is no false alarm about the store: it is returned only
\* for a token for which the script ran twice, and never because a family
\* was revoked or expired in the meantime.
AlarmMeansRerun == \A t \in alarms : runs[t] = 2

-----------------------------------------------------------------------------
(* Refinement.  The session a family stands for is held by the token its   *)
(* key names; a token is spent when it was stored and is current nowhere.  *)

Holder == [f \in Family |->
    IF f \notin opened THEN "unborn"
    ELSE IF famCur[f] = None THEN "ended" ELSE famCur[f]]

Spent == {t \in Token : origin[t] # NoRec /\ \A f \in Family : famCur[f] # t}

Sessions == INSTANCE SessionFamilies
    WITH Unborn <- "unborn", Ended <- "ended", holder <- Holder, spent <- Spent

\* Rotation over two keys, two round trips and repeated scripts implements
\* the sessions it promises: one holder at a time, no token ever holds a
\* session again, an ended session stays ended.
SessionRefinement == Sessions!SessionSpec
=============================================================================

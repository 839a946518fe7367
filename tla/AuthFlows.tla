------------------------------ MODULE AuthFlows ------------------------------
(***************************************************************************)
(* Login, signup, reactivation and device verification for one phone       *)
(* number:                                                                 *)
(*   usecase    services/identity/internal/usecase/auth.go                 *)
(*   accounts   services/identity/internal/domain/user.go                  *)
(*              services/identity/internal/repo/mysql/user_repo.go         *)
(*   flow JWTs  services/identity/internal/token/issuer.go                 *)
(*   limiter    services/identity/internal/devverify/limiter.go            *)
(*                                                                         *)
(* Rows, counters and flow tokens of different phone numbers never meet,   *)
(* and a unique key ties a phone number to one user.  Every SQL statement  *)
(* and every Redis command is a step; other calls, and whoever else writes *)
(* the users table, run between two of them.  The one-time code in front   *)
(* of VerifyOtp is OtpStore, the refresh token behind it RefreshTokens.    *)
(***************************************************************************)
EXTENDS Naturals, FiniteSets

CONSTANTS
    Caller,        \* concurrent requests
    Fingerprint,   \* device fingerprints
    NoFp,          \* the fingerprint a client left out
    MaxAttempts,   \* devverify.MaxAttempts
    Stops,         \* whether a request may stop between two steps
    MaxFlow        \* bound: flow tokens issued

ASSUME FlowsAssumption ==
    /\ IsFiniteSet(Caller)
    /\ MaxAttempts \in Nat \ {0} /\ MaxFlow \in Nat /\ Stops \in BOOLEAN
    /\ NoFp \notin Fingerprint

VARIABLES
    status,     \* the status column of the users row, "NONE" without a row
    devices,    \* user_devices
    flow,       \* flow tokens: their purpose, or "unissued", or "expired"
    limiter,    \* devverify:attempts:<user>
    call,       \* the requests in progress
    \* History
    origin,     \* per flow token: issued for a dormant account, whose status an
                \* operator has moved since or not
    proved,     \* devices whose owner proved control of the account
    solved,     \* a right registration month was given
    wrong       \* per flow token: wrong months answered before that

history == <<origin, proved, solved, wrong>>
vars == <<status, devices, flow, limiter, call, origin, proved, solved, wrong>>

FlowId == 1..MaxFlow
Fp == Fingerprint \cup {NoFp}

-----------------------------------------------------------------------------
(* The account life cycle (domain.transitions).  PENDING is never stored.  *)

Status == {"ACTIVE", "DORMANT", "SUSPENDED", "DELETED"}

transitions ==
    [ACTIVE    |-> {"DORMANT", "SUSPENDED", "DELETED"},
     DORMANT   |-> {"ACTIVE", "SUSPENDED", "DELETED"},
     SUSPENDED |-> {"ACTIVE", "DELETED"},
     DELETED   |-> {}]

CanTransitionTo(s, target) == target \in transitions[s]

-----------------------------------------------------------------------------

Purpose == {"signup", "reactivation", "device_verify"}

Idle == [pc |-> "idle", fp |-> NoFp, flow |-> 0]

NoCounter == [count |-> 0, ttl |-> FALSE, older |-> {}]

TypeOK ==
    /\ status \in Status \cup {"NONE"}
    /\ devices \subseteq Fingerprint
    /\ flow \in [FlowId -> Purpose \cup {"unissued", "expired"}]
    /\ limiter \in [count : 0..(MaxAttempts + 1), ttl : BOOLEAN, older : SUBSET FlowId]
    /\ call \in [Caller -> [pc : Purpose \cup {"idle", "device", "activate", "window", "find",
                                            "reset", "upsert", "issue"},
                            fp : Fp, flow : 0..MaxFlow]]
    /\ origin \in [FlowId -> {"other", "dormant", "moved"}]
    /\ proved \subseteq Fingerprint
    /\ solved \in BOOLEAN
    /\ wrong \in [FlowId -> Nat]

\* The phone number is new, or signed up long ago without a fingerprint.
Init ==
    /\ status \in {"NONE", "ACTIVE"}
    /\ devices = {}
    /\ flow = [f \in FlowId |-> "unissued"]
    /\ limiter = NoCounter
    /\ call = [c \in Caller |-> Idle]
    /\ origin = [f \in FlowId |-> "other"]
    /\ proved = {}
    /\ solved = FALSE
    /\ wrong = [f \in FlowId |-> 0]

\* A client that left its fingerprint out proves nothing about a device.
Proves(fp) == proved \cup ({fp} \ {NoFp})

Goto(c, step) == call' = [call EXCEPT ![c] = step]
At(pc, fp, f) == [pc |-> pc, fp |-> fp, flow |-> f]

\* Issuer.FlowToken: flow tokens are numbered in the order they are issued.
IssueFlow(purpose) ==
    \E f \in FlowId :
        /\ flow[f] = "unissued" /\ \A g \in FlowId : g < f => flow[g] # "unissued"
        /\ flow' = [flow EXCEPT ![f] = purpose]
        /\ origin' = [origin EXCEPT ![f] = IF status = "DORMANT" THEN "dormant" ELSE "other"]

\* Mutant: any flow token opens any flow.
VerifyFlowToken_AnyPurpose(f, purpose) == flow[f] \in Purpose

\* Issuer.VerifyFlowToken: signed, not expired, issued for this purpose.  The
\* token is not consumed.
VerifyFlowToken(f, purpose) == flow[f] = purpose

-----------------------------------------------------------------------------
(* UserRepo: one SQL statement, or one transaction, each.                  *)

\* "NONE" is ErrUserNotFound.
FindByCredential == status
FindByID == status

\* A second user with the same phone number violates the credential's unique
\* key: ErrCredentialConflict.
CreateUser(s) == status = "NONE" /\ status' = s

\* UPDATE ... WHERE id = ?: whatever the row holds by now.
UpdateStatus(s) == status' = s

IsDeviceKnown(fp) == fp \in devices

-----------------------------------------------------------------------------
(* VerifyOtp, once the code was accepted.                                  *)

\* FindByCredential and the switch over the status: no user, a dormant one,
\* an active one; any other status is ErrLoginNotAllowed.
VerifyOtp(c, fp) ==
    /\ call[c] = Idle
    /\ \/ /\ FindByCredential = "NONE"
          /\ IssueFlow("signup")
          /\ UNCHANGED call
       \/ /\ FindByCredential = "DORMANT"
          /\ IssueFlow("reactivation")
          /\ UNCHANGED call
       \/ /\ FindByCredential = "ACTIVE"
          /\ Goto(c, At(IF fp = NoFp THEN "issue" ELSE "device", fp, 0))
          /\ UNCHANGED <<flow, origin>>
    /\ UNCHANGED <<status, devices, limiter, proved, solved, wrong>>

\* Mutant: the unknown device is registered while it waits for verification.
UnknownDevice_Registered(c) ==
    /\ IssueFlow("device_verify")
    /\ devices' = devices \cup {call[c].fp}
    /\ Goto(c, Idle)

\* An unknown device gets a flow token and is deliberately not registered.
UnknownDevice(c) ==
    /\ IssueFlow("device_verify")
    /\ UNCHANGED devices
    /\ Goto(c, Idle)

\* IsDeviceKnown.
CheckDevice(c) ==
    /\ call[c].pc = "device"
    /\ \/ /\ IsDeviceKnown(call[c].fp)
          /\ Goto(c, At("upsert", call[c].fp, 0))
          /\ UNCHANGED <<devices, flow, origin>>
       \/ /\ ~IsDeviceKnown(call[c].fp)
          /\ UnknownDevice(c)
    /\ UNCHANGED <<status, limiter, proved, solved, wrong>>

-----------------------------------------------------------------------------
(* CompleteSignup, CompleteReactivation and VerifyDevice.                  *)

\* The first lines of the three: VerifyFlowToken against the clock.  The token
\* may expire, and a counter end, before the request's next step.
PresentFlow(c, f, fp, purpose) ==
    /\ call[c] = Idle
    /\ VerifyFlowToken(f, purpose)
    /\ Goto(c, At(purpose, fp, f))
    /\ UNCHANGED <<status, devices, flow, limiter, history>>

\* CompleteSignup: PENDING becomes ACTIVE before the user is stored.
CompleteSignup(c) ==
    /\ call[c].pc = "signup"
    /\ \/ /\ CreateUser("ACTIVE")
          /\ proved' = Proves(call[c].fp)
          /\ Goto(c, At("upsert", call[c].fp, 0))
       \/ /\ status # "NONE"
          /\ Goto(c, Idle)
          /\ UNCHANGED <<status, proved>>
    /\ UNCHANGED <<devices, flow, limiter, origin, solved, wrong>>

\* CompleteReactivation, with the privacy consent given: FindByID, and
\* TransitionTo on the copy it returned.
ReactivationFind(c) ==
    /\ call[c].pc = "reactivation"
    /\ Goto(c, IF FindByID # "NONE" /\ CanTransitionTo(FindByID, "ACTIVE")
               THEN [call[c] EXCEPT !.pc = "activate"] ELSE Idle)
    /\ UNCHANGED <<status, devices, flow, limiter, history>>

\* The row becomes ACTIVE.
Activate(c) ==
    /\ call[c].pc = "activate"
    /\ UpdateStatus("ACTIVE")
    /\ proved' = Proves(call[c].fp)
    /\ Goto(c, At("upsert", call[c].fp, 0))
    /\ UNCHANGED <<devices, flow, limiter, origin, solved, wrong>>

\* Mutant: only the first attempt over the cap is refused.
OverCap_Once(count) == count = MaxAttempts + 1

OverCap(count) == count > MaxAttempts

\* Limiter.Attempt: INCR.  A count over the cap is not told apart further.
Attempt(c) ==
    LET count == limiter.count + 1 IN
    /\ call[c].pc = "device_verify"
    /\ limiter' = [limiter EXCEPT !.count = IF @ > MaxAttempts THEN @ ELSE count]
    /\ Goto(c, IF count = 1 THEN [call[c] EXCEPT !.pc = "window"]
               ELSE IF OverCap(count) THEN Idle
               ELSE [call[c] EXCEPT !.pc = "find"])
    /\ UNCHANGED <<status, devices, flow, history>>

LiveFlows == {f \in FlowId : flow[f] \in Purpose}

\* Limiter.Attempt: EXPIRE after the first INCR, its error ignored.  The
\* window is as long as a flow token's life, so the tokens issued before it
\* are dead when it ends.
AttemptWindow(c) ==
    /\ call[c].pc = "window"
    /\ \E done \in IF Stops THEN BOOLEAN ELSE {TRUE} :
            limiter' = IF done /\ limiter.count > 0
                       THEN [limiter EXCEPT !.ttl = TRUE, !.older = LiveFlows]
                       ELSE limiter
    /\ Goto(c, [call[c] EXCEPT !.pc = "find"])
    /\ UNCHANGED <<status, devices, flow, history>>

\* FindByID, whatever the status, and the comparison of the month.
CompareMonth(c, right) ==
    /\ call[c].pc = "find"
    /\ FindByID # "NONE"
    /\ Goto(c, IF right THEN [call[c] EXCEPT !.pc = "reset"] ELSE Idle)
    /\ wrong' = IF right \/ solved THEN wrong ELSE [wrong EXCEPT ![call[c].flow] = @ + 1]
    /\ UNCHANGED <<status, devices, flow, limiter, origin, proved, solved>>

\* Limiter.Reset.
Reset(c) ==
    /\ call[c].pc = "reset"
    /\ limiter' = NoCounter
    /\ proved' = Proves(call[c].fp)
    /\ solved' = TRUE
    /\ wrong' = [f \in FlowId |-> 0]
    /\ Goto(c, At("upsert", call[c].fp, 0))
    /\ UNCHANGED <<status, devices, flow, origin>>

-----------------------------------------------------------------------------
(* finishLogin and issueTokens: the end of every flow that hands out tokens.*)

\* Mutant: a device is stored without a fingerprint.
UpsertDevice_NoCheck(c) ==
    /\ call[c].pc = "upsert"
    /\ devices' = devices \cup {call[c].fp}
    /\ Goto(c, At("issue", NoFp, 0))
    /\ UNCHANGED <<status, flow, limiter, history>>

\* UpsertDevice: a client without a fingerprint leaves no row.
UpsertDevice(c) ==
    /\ call[c].pc = "upsert"
    /\ devices' = IF call[c].fp = NoFp THEN devices ELSE devices \cup {call[c].fp}
    /\ Goto(c, At("issue", NoFp, 0))
    /\ UNCHANGED <<status, flow, limiter, history>>

\* TouchLastLogin, GetProfile, two JWTs and
\* rtr.Issue: a new refresh-token family, see RefreshTokens.
IssueTokens(c) ==
    /\ call[c].pc = "issue"
    /\ Goto(c, Idle)
    /\ UNCHANGED <<status, devices, flow, limiter, history>>

-----------------------------------------------------------------------------
(* The environment.                                                        *)

\* The request ends between two steps.
Stop(c) ==
    /\ Stops
    /\ call[c] # Idle
    /\ Goto(c, Idle)
    /\ UNCHANGED <<status, devices, flow, limiter, history>>

\* An operator, or the dormancy sweep, changes the status along the domain's
\* transitions.
Administer(s) ==
    /\ status # "NONE" /\ CanTransitionTo(status, s)
    /\ status' = s
    /\ origin' = [f \in FlowId |-> IF origin[f] = "dormant" THEN "moved" ELSE origin[f]]
    /\ UNCHANGED <<devices, flow, limiter, call, proved, solved, wrong>>

\* Flow tokens live equally long, so they expire in the order of issue.
ExpireFlow(f) ==
    /\ flow[f] \in Purpose
    /\ \A g \in FlowId : g < f => flow[g] = "expired"
    /\ flow' = [flow EXCEPT ![f] = "expired"]
    /\ UNCHANGED <<status, devices, limiter, call, history>>

ExpireLimiter ==
    /\ limiter.ttl
    /\ limiter.older \cap LiveFlows = {}
    /\ limiter' = NoCounter
    /\ UNCHANGED <<status, devices, flow, call, history>>

-----------------------------------------------------------------------------

Request(c) ==
    \/ \E fp \in Fp : VerifyOtp(c, fp)
    \/ \E f \in FlowId, fp \in Fp, purpose \in Purpose : PresentFlow(c, f, fp, purpose)
    \/ CheckDevice(c)
    \/ CompleteSignup(c)
    \/ ReactivationFind(c)
    \/ Activate(c)
    \/ Attempt(c)
    \/ AttemptWindow(c)
    \/ \E right \in BOOLEAN : CompareMonth(c, right)
    \/ Reset(c)
    \/ UpsertDevice(c)
    \/ IssueTokens(c)
    \/ Stop(c)

Next ==
    \/ \E c \in Caller : Request(c)
    \/ \E s \in Status : Administer(s)
    \/ \E f \in FlowId : ExpireFlow(f)
    \/ ExpireLimiter

Spec == Init /\ [][Next]_vars

\* A request that was started runs on.
Continue(c) ==
    \/ CheckDevice(c) \/ CompleteSignup(c) \/ ReactivationFind(c) \/ Activate(c)
    \/ Attempt(c) \/ AttemptWindow(c) \/ Reset(c) \/ UpsertDevice(c) \/ IssueTokens(c)
    \/ \E right \in BOOLEAN : CompareMonth(c, right)

FairSpec == Spec /\ \A c \in Caller : WF_vars(Continue(c))

-----------------------------------------------------------------------------
(* Properties.                                                             *)

\* A device is registered only for someone who proved control of the account
\* (signed it up, reactivated it or knew its registration month), in whatever
\* order requests interleave: an unknown device is never let in by the login
\* that found it unknown.
DeviceNeedsProof == devices \subseteq proved

\* A request that is about to reactivate the account holds a flow token that
\* VerifyOtp issued while the account was dormant, and the row it is about to
\* overwrite is dormant still, or active again by another request, unless an
\* operator has moved the status after the token was issued.
ReactivationNeedsDormancy ==
    \A c \in Caller : call[c].pc = "activate" =>
        /\ origin[call[c].flow] # "other"
        /\ origin[call[c].flow] = "dormant" => status \in {"DORMANT", "ACTIVE"}

\* A flow token outlives the counter it was issued under by less than one
\* window, which is worth 2 * MaxAttempts - 1 wrong months.  Only the requests
\* that had passed VerifyFlowToken when the token expired, and reach INCR in a
\* later window, add to them: until someone knows the month, one flow token
\* answers no more than that, however requests race, wait and stop.
FlowAnswersBounded ==
    \A f \in FlowId : wrong[f] <= 2 * MaxAttempts - 1 + Cardinality(Caller)

\* "DELETED: terminal": a user's status moves along domain.transitions only.
MovesFollowDomain ==
    [][status \notin {"NONE", status'} => CanTransitionTo(status, status')]_vars
=============================================================================

--------------------------- MODULE AuthFlowsProofs ---------------------------
(***************************************************************************)
(* Proofs about AuthFlows, for any finite number of concurrent requests,   *)
(* any fingerprints, any number of flow tokens and any cap on attempts.    *)
(***************************************************************************)
EXTENDS AuthFlows, FiniteSetTheorems, TLAPS

\* A request that is about to store a device has proved control of the
\* account, or found the device among the stored ones.
ProofInv ==
    /\ DeviceNeedsProof
    /\ \A c \in Caller : call[c].pc = "upsert" /\ call[c].fp # NoFp => call[c].fp \in proved

\* Reactivation flows come from a dormant account, and so does what requests
\* in the middle of one hold; only an operator moves such an account anywhere
\* but to ACTIVE.
Reactivating(d) == call[d].pc \in {"reactivation", "activate"}
HoldsDormant(d) ==
    /\ call[d].flow \in FlowId
    /\ flow[call[d].flow] # "unissued" /\ origin[call[d].flow] # "other"

DormancyInv ==
    /\ \A f \in FlowId : origin[f] = "dormant" => status \in {"DORMANT", "ACTIVE"}
    /\ \A f \in FlowId : flow[f] = "reactivation" => origin[f] # "other"
    /\ \A d \in Caller : Reactivating(d) => HoldsDormant(d)

\* The inductive invariant of the flows.
FlowsInv == TypeOK /\ ProofInv /\ DormancyInv

-----------------------------------------------------------------------------

\* A request, and what Goto does with one.
Place == [pc : Purpose \cup {"idle", "device", "activate", "window", "find", "reset", "upsert",
                             "issue"},
          fp : Fp, flow : 0..MaxFlow]

Counter == [count : 0..(MaxAttempts + 1), ttl : BOOLEAN, older : SUBSET FlowId]

LEMMA GotoPlace ==
    ASSUME TypeOK, NEW c \in Caller, NEW step \in Place, Goto(c, step)
    PROVE  /\ call' \in [Caller -> Place]
           /\ call'[c] = step
           /\ \A d \in Caller \ {c} : call'[d] = call[d]
  BY DEF TypeOK, Goto, Place

\* Every place a request goes to is one.
LEMMA Places ==
    /\ Idle \in Place /\ Idle.pc = "idle"
    /\ \A pc \in Purpose \cup {"device", "issue", "upsert"}, fp \in Fp, f \in 0..MaxFlow :
            /\ At(pc, fp, f) \in Place
            /\ At(pc, fp, f).pc = pc /\ At(pc, fp, f).fp = fp /\ At(pc, fp, f).flow = f
    /\ \A w \in Place, pc \in {"activate", "window", "find", "reset"} :
            /\ [w EXCEPT !.pc = pc] \in Place
            /\ [w EXCEPT !.pc = pc].pc = pc
            /\ [w EXCEPT !.pc = pc].fp = w.fp
            /\ [w EXCEPT !.pc = pc].flow = w.flow
    /\ 0 \in 0..MaxFlow /\ NoFp \in Fp /\ FlowId \subseteq 0..MaxFlow
  BY FlowsAssumption DEF Idle, At, Place, Fp, FlowId

\* A request goes on with the next step of its flow.
LEMMA MoveOn ==
    ASSUME TypeOK, NEW c \in Caller, NEW pc \in {"activate", "window", "find", "reset"},
           Goto(c, [call[c] EXCEPT !.pc = pc])
    PROVE  /\ call' \in [Caller -> Place]
           /\ call'[c].pc = pc /\ call'[c].fp = call[c].fp /\ call'[c].flow = call[c].flow
           /\ \A d \in Caller \ {c} : call'[d] = call[d]
  BY DEF TypeOK, Goto, Place

\* A request begins, or leaves its flow token behind.
LEMMA GoTo ==
    ASSUME TypeOK, NEW c \in Caller, NEW pc \in Purpose \cup {"device", "issue", "upsert"},
           NEW fp \in Fp, NEW f \in 0..MaxFlow, Goto(c, At(pc, fp, f))
    PROVE  /\ call' \in [Caller -> Place]
           /\ call'[c].pc = pc /\ call'[c].fp = fp /\ call'[c].flow = f
           /\ \A d \in Caller \ {c} : call'[d] = call[d]
<1>1. call'[c] = At(pc, fp, f)
  BY GotoPlace, Places
<1>2. QED
  BY <1>1, GotoPlace, Places

\* A request ends.
LEMMA GoIdle ==
    ASSUME TypeOK, NEW c \in Caller, Goto(c, Idle)
    PROVE  /\ call' \in [Caller -> Place] /\ call'[c] = Idle /\ call'[c].pc = "idle"
           /\ \A d \in Caller \ {c} : call'[d] = call[d]
<1>1. call'[c] = Idle
  BY GotoPlace, Places
<1>2. QED
  BY <1>1, GotoPlace, Places

\* The service starts in the invariant.
LEMMA InitFlowsInv == Init => FlowsInv
<1> SUFFICES ASSUME Init
             PROVE  FlowsInv
  OBVIOUS
<1>1. call \in [Caller -> Place] /\ limiter \in Counter
  BY Places, FlowsAssumption DEF Init, NoCounter, Counter
<1>2. TypeOK
  BY <1>1 DEF Init, TypeOK, Status, Place, Counter
<1>3. ProofInv /\ DormancyInv
  BY Places DEF Init, ProofInv, DeviceNeedsProof, DormancyInv, Reactivating
<1>4. QED
  BY <1>2, <1>3 DEF FlowsInv

\* A new flow token changes one entry, from unissued to its purpose.
LEMMA IssueFlowEntry ==
    ASSUME TypeOK, NEW purpose \in Purpose, IssueFlow(purpose)
    PROVE  /\ \E f \in FlowId :
                /\ flow[f] = "unissued" /\ flow'[f] = purpose
                /\ origin'[f] = IF status = "DORMANT" THEN "dormant" ELSE "other"
                /\ \A g \in FlowId \ {f} : flow'[g] = flow[g] /\ origin'[g] = origin[g]
           /\ flow' \in [FlowId -> Purpose \cup {"unissued", "expired"}]
           /\ origin' \in [FlowId -> {"other", "dormant", "moved"}]
  BY DEF TypeOK, IssueFlow

\* A new flow token keeps to the dormancy: a reactivation token is issued for
\* a dormant account.
LEMMA IssueKeepsDormancy ==
    ASSUME FlowsInv, NEW purpose \in Purpose, IssueFlow(purpose),
           purpose = "reactivation" => status = "DORMANT", UNCHANGED status,
           \A d \in Caller : call'[d] = call[d] \/ call'[d].pc = "idle"
    PROVE  DormancyInv'
<1>1. PICK f \in FlowId :
            /\ flow[f] = "unissued" /\ flow'[f] = purpose
            /\ origin'[f] = IF status = "DORMANT" THEN "dormant" ELSE "other"
            /\ \A g \in FlowId \ {f} : flow'[g] = flow[g] /\ origin'[g] = origin[g]
  BY IssueFlowEntry DEF FlowsInv
<1>2. \A g \in FlowId : origin'[g] = "dormant" => status' \in {"DORMANT", "ACTIVE"}
  BY <1>1 DEF FlowsInv, DormancyInv
<1>3. \A g \in FlowId : flow'[g] = "reactivation" => origin'[g] # "other"
  BY <1>1 DEF FlowsInv, DormancyInv
<1>4. ASSUME NEW d \in Caller, Reactivating(d)'
      PROVE  HoldsDormant(d)'
  <2>1. call'[d] = call[d] /\ HoldsDormant(d)
    BY <1>4 DEF Reactivating, FlowsInv, DormancyInv
  <2>2. call[d].flow # f
    BY <1>1, <2>1 DEF HoldsDormant
  <2>3. QED
    BY <1>1, <2>1, <2>2 DEF HoldsDormant
<1>5. QED
  BY <1>2, <1>3, <1>4 DEF DormancyInv

\* Without a new flow token, and without an operator, the dormancy is kept
\* by every request that holds the token of a dormant account or none.
LEMMA KeepsDormancy ==
    ASSUME FlowsInv, UNCHANGED origin, status' \in {status, "ACTIVE"},
           \A f \in FlowId : flow'[f] = flow[f] \/ flow'[f] = "expired",
           \A d \in Caller : Reactivating(d)' =>
                \/ call'[d].flow = call[d].flow /\ Reactivating(d)
                \/ call'[d].flow \in FlowId /\ flow[call'[d].flow] = "reactivation"
    PROVE  DormancyInv'
<1>1. \A g \in FlowId : origin'[g] = "dormant" => status' \in {"DORMANT", "ACTIVE"}
  BY DEF FlowsInv, DormancyInv
<1>2. \A g \in FlowId : flow'[g] = "reactivation" => origin'[g] # "other"
  BY DEF FlowsInv, DormancyInv
<1>3. ASSUME NEW d \in Caller, Reactivating(d)'
      PROVE  HoldsDormant(d)'
  <2>1. /\ call'[d].flow \in FlowId /\ flow[call'[d].flow] # "unissued"
        /\ origin[call'[d].flow] # "other"
    BY <1>3 DEF FlowsInv, DormancyInv, HoldsDormant
  <2>2. QED
    BY <2>1 DEF HoldsDormant
<1>4. QED
  BY <1>1, <1>2, <1>3 DEF DormancyInv

-----------------------------------------------------------------------------
(* One lemma for each group of actions.                                    *)

\* VerifyOtp: a flow token for the status at hand, or on with the login.
LEMMA VerifyOtpStep ==
    ASSUME FlowsInv, NEW c \in Caller, NEW fp \in Fp, VerifyOtp(c, fp)
    PROVE  FlowsInv'
<1>0. UNCHANGED <<status, devices, limiter, proved, solved, wrong>>
  BY DEF VerifyOtp
<1>1. ASSUME NEW p \in {"signup", "reactivation"}, IssueFlow(p),
             p = "reactivation" => status = "DORMANT", call' = call
      PROVE  FlowsInv'
  <2>1. p \in Purpose
    BY DEF Purpose
  <2>2. TypeOK'
    BY <1>0, <1>1, <2>1, IssueFlowEntry DEF FlowsInv, TypeOK
  <2>3. ProofInv'
    BY <1>0, <1>1 DEF FlowsInv, ProofInv, DeviceNeedsProof
  <2>4. DormancyInv'
    BY <1>0, <1>1, <2>1, IssueKeepsDormancy
  <2>5. QED
    BY <2>2, <2>3, <2>4 DEF FlowsInv
<1>2. ASSUME NEW pc \in {"issue", "device"}, Goto(c, At(pc, fp, 0)), UNCHANGED <<flow, origin>>
      PROVE  FlowsInv'
  <2>1. /\ call' \in [Caller -> Place] /\ call'[c].pc = pc
        /\ \A d \in Caller \ {c} : call'[d] = call[d]
    <3>1. /\ 0 \in 0..MaxFlow /\ TypeOK
          /\ pc \in Purpose \cup {"device", "issue", "upsert"}
      BY Places DEF FlowsInv
    <3>2. QED
      BY <1>2, <3>1, GoTo
  <2>2. TypeOK'
    BY <1>0, <1>2, <2>1 DEF FlowsInv, TypeOK, Place
  <2>3. ProofInv'
    BY <1>0, <1>2, <2>1 DEF FlowsInv, ProofInv, DeviceNeedsProof
  <2>4. DormancyInv'
    BY <1>0, <1>2, <2>1, KeepsDormancy DEF Reactivating
  <2>5. QED
    BY <2>2, <2>3, <2>4 DEF FlowsInv
<1>3. \/ IssueFlow("signup") /\ call' = call
      \/ IssueFlow("reactivation") /\ status = "DORMANT" /\ call' = call
      \/ /\ Goto(c, At(IF fp = NoFp THEN "issue" ELSE "device", fp, 0))
         /\ UNCHANGED <<flow, origin>>
  BY DEF VerifyOtp, FindByCredential
<1>4. QED
  BY <1>1, <1>2, <1>3

\* CheckDevice: a known device goes on, an unknown one gets a flow token.
LEMMA CheckDeviceStep ==
    ASSUME FlowsInv, NEW c \in Caller, CheckDevice(c)
    PROVE  FlowsInv'
<1>0. call[c] \in Place /\ UNCHANGED <<status, limiter, proved, solved, wrong>>
  BY DEF CheckDevice, FlowsInv, TypeOK, Place
<1>1. CASE IsDeviceKnown(call[c].fp)
  <2>1. Goto(c, At("upsert", call[c].fp, 0)) /\ UNCHANGED <<devices, flow, origin>>
    BY <1>1 DEF CheckDevice
  <2>2. /\ call' \in [Caller -> Place] /\ call'[c].pc = "upsert" /\ call'[c].fp = call[c].fp
        /\ \A d \in Caller \ {c} : call'[d] = call[d]
    <3>1. call[c].fp \in Fp
      BY <1>0 DEF Place
    <3>2. QED
      BY <2>1, <3>1, Places, GoTo DEF FlowsInv
  <2>3. TypeOK'
    BY <1>0, <2>1, <2>2 DEF FlowsInv, TypeOK, Place
  <2>4. ProofInv'
    BY <1>0, <1>1, <2>1, <2>2 DEF IsDeviceKnown, FlowsInv, ProofInv, DeviceNeedsProof
  <2>5. DormancyInv'
    BY <1>0, <2>1, <2>2, KeepsDormancy DEF Reactivating
  <2>6. QED
    BY <2>3, <2>4, <2>5 DEF FlowsInv
<1>2. CASE ~IsDeviceKnown(call[c].fp)
  <2>1. IssueFlow("device_verify") /\ Goto(c, Idle) /\ UNCHANGED devices
    BY <1>2 DEF CheckDevice, UnknownDevice
  <2>2. /\ call' \in [Caller -> Place] /\ call'[c].pc = "idle"
        /\ \A d \in Caller \ {c} : call'[d] = call[d]
    BY <2>1, GoIdle DEF FlowsInv
  <2>3. TypeOK'
    BY <1>0, <2>1, <2>2, IssueFlowEntry DEF FlowsInv, TypeOK, Place, Purpose
  <2>4. ProofInv'
    BY <1>0, <2>1, <2>2 DEF FlowsInv, ProofInv, DeviceNeedsProof
  <2>5. DormancyInv'
    BY <1>0, <2>1, <2>2, IssueKeepsDormancy DEF Purpose
  <2>6. QED
    BY <2>3, <2>4, <2>5 DEF FlowsInv
<1>3. QED
  BY <1>1, <1>2

\* A signup, a reactivation or a right month: the account is this client's,
\* and so is the device it is about to store.
LEMMA ProvedStep ==
    ASSUME FlowsInv, NEW c \in Caller, Goto(c, At("upsert", call[c].fp, 0)),
           proved' = Proves(call[c].fp), status' \in {status, "ACTIVE"},
           UNCHANGED <<devices, flow, origin>>,
           limiter' \in Counter, wrong' \in [FlowId -> Nat], solved' \in BOOLEAN
    PROVE  FlowsInv'
<1>1. call[c].fp \in Fp
  BY DEF FlowsInv, TypeOK
<1>2. /\ call' \in [Caller -> Place] /\ call'[c].pc = "upsert" /\ call'[c].fp = call[c].fp
      /\ \A d \in Caller \ {c} : call'[d] = call[d]
  <2>1. TypeOK /\ "upsert" \in Purpose \cup {"device", "issue", "upsert"} /\ 0 \in 0..MaxFlow
    BY Places DEF FlowsInv
  <2>2. QED
    BY <1>1, <2>1, GoTo
<1>3. TypeOK'
  BY <1>1, <1>2 DEF FlowsInv, TypeOK, Place, Status, Counter, Proves, Fp
<1>4. ProofInv'
  BY <1>2 DEF FlowsInv, ProofInv, DeviceNeedsProof, Proves
<1>5. DormancyInv'
  BY <1>2, KeepsDormancy DEF Reactivating
<1>6. QED
  BY <1>3, <1>4, <1>5 DEF FlowsInv

\* UpsertDevice: only what the request carries is stored.
LEMMA UpsertStep ==
    ASSUME FlowsInv, NEW c \in Caller, UpsertDevice(c)
    PROVE  FlowsInv'
<1>1. call[c] \in Place /\ call[c].pc = "upsert"
  BY DEF FlowsInv, TypeOK, Place, UpsertDevice
<1>2. /\ call' \in [Caller -> Place] /\ call'[c].pc = "issue"
      /\ \A d \in Caller \ {c} : call'[d] = call[d]
  BY Places, GoTo DEF UpsertDevice, FlowsInv
<1>3. /\ devices' \subseteq devices \cup {call[c].fp}
      /\ devices' # devices => call[c].fp # NoFp
      /\ UNCHANGED <<status, flow, limiter, origin, proved, solved, wrong>>
  BY DEF UpsertDevice, history
<1>4. TypeOK'
  <2>1. devices' \subseteq Fingerprint
    BY <1>1, <1>3 DEF FlowsInv, TypeOK, Place, Fp
  <2>2. QED
    BY <1>2, <1>3, <2>1 DEF FlowsInv, TypeOK, Place
<1>5. ProofInv'
  BY <1>1, <1>2, <1>3 DEF FlowsInv, ProofInv, DeviceNeedsProof
<1>6. DormancyInv'
  BY <1>2, <1>3, KeepsDormancy DEF Reactivating
<1>7. QED
  BY <1>4, <1>5, <1>6 DEF FlowsInv

\* A request moves on and only the counters change with it.
LEMMA QuietStep ==
    ASSUME FlowsInv, NEW c \in Caller, call' \in [Caller -> Place],
           \A d \in Caller \ {c} : call'[d] = call[d],
           call'[c].pc # "upsert",
           Reactivating(c)' =>
                \/ call'[c].flow = call[c].flow /\ Reactivating(c)
                \/ call'[c].flow \in FlowId /\ flow[call'[c].flow] = "reactivation",
           UNCHANGED <<status, devices, flow, origin, proved, solved>>,
           limiter' \in Counter, wrong' \in [FlowId -> Nat]
    PROVE  FlowsInv'
<1>1. TypeOK'
  BY DEF FlowsInv, TypeOK, Place, Counter
<1>2. ProofInv'
  BY DEF FlowsInv, ProofInv, DeviceNeedsProof
<1>3. DormancyInv'
  <2>1. \A d \in Caller : Reactivating(d)' =>
                \/ call'[d].flow = call[d].flow /\ Reactivating(d)
                \/ call'[d].flow \in FlowId /\ flow[call'[d].flow] = "reactivation"
    BY DEF Reactivating
  <2>2. QED
    BY <2>1, KeepsDormancy
<1>4. QED
  BY <1>1, <1>2, <1>3 DEF FlowsInv

\* A request begins with a flow token of the right purpose in hand.
LEMMA PresentStep ==
    ASSUME FlowsInv, NEW c \in Caller, NEW f \in FlowId, NEW fp \in Fp, NEW purpose \in Purpose,
           PresentFlow(c, f, fp, purpose)
    PROVE  FlowsInv'
<1>1. /\ call' \in [Caller -> Place] /\ call'[c].pc = purpose /\ call'[c].flow = f
      /\ \A d \in Caller \ {c} : call'[d] = call[d]
  BY Places, GoTo DEF PresentFlow, FlowsInv
<1>2. /\ UNCHANGED <<status, devices, flow, origin, proved, solved>>
      /\ limiter' \in Counter /\ wrong' \in [FlowId -> Nat]
  BY DEF PresentFlow, history, FlowsInv, TypeOK, Counter
<1>3. call'[c].pc # "upsert" /\ (Reactivating(c)' => flow[f] = "reactivation")
  BY <1>1 DEF PresentFlow, VerifyFlowToken, Reactivating, Purpose
<1>4. QED
  BY <1>1, <1>2, <1>3, QuietStep

\* INCR and EXPIRE, the reads, the comparison of the month, the tokens, the
\* end of a request.
LEMMA GoOnStep ==
    ASSUME FlowsInv, NEW c \in Caller,
           \/ Attempt(c) \/ AttemptWindow(c) \/ (\E right \in BOOLEAN : CompareMonth(c, right))
           \/ ReactivationFind(c) \/ IssueTokens(c) \/ Stop(c)
           \/ (CompleteSignup(c) /\ status # "NONE")
    PROVE  FlowsInv'
<1> DEFINE Moved == /\ call' \in [Caller -> Place] /\ call'[c].pc # "upsert"
                    /\ Reactivating(c)' => call'[c].flow = call[c].flow /\ Reactivating(c)
                    /\ \A d \in Caller \ {c} : call'[d] = call[d]
<1>1. Moved
  <2>1. \/ Goto(c, Idle)
        \/ \E pc \in {"window", "find", "reset"} : Goto(c, [call[c] EXCEPT !.pc = pc])
        \/ Goto(c, [call[c] EXCEPT !.pc = "activate"]) /\ call[c].pc = "reactivation"
    BY DEF Attempt, AttemptWindow, CompareMonth, ReactivationFind, IssueTokens, Stop,
       CompleteSignup, CreateUser
  <2>2. CASE Goto(c, Idle)
    BY <2>2, GoIdle DEF FlowsInv, Reactivating
  <2>3. ASSUME NEW pc \in {"window", "find", "reset"}, Goto(c, [call[c] EXCEPT !.pc = pc])
        PROVE  Moved
    BY <2>3, MoveOn DEF FlowsInv, Reactivating
  <2>4. CASE Goto(c, [call[c] EXCEPT !.pc = "activate"]) /\ call[c].pc = "reactivation"
    BY <2>4, MoveOn DEF FlowsInv, Reactivating
  <2> HIDE DEF Moved
  <2>5. QED
    BY <2>1, <2>2, <2>3, <2>4
<1>2. UNCHANGED <<status, devices, flow, origin, proved, solved>>
  BY DEF Attempt, AttemptWindow, CompareMonth, ReactivationFind, IssueTokens, Stop,
     CompleteSignup, CreateUser, history
<1>3. limiter' \in Counter
  <2>1. limiter \in Counter /\ LiveFlows \in SUBSET FlowId
    BY DEF FlowsInv, TypeOK, Counter, LiveFlows
  <2>2. [limiter EXCEPT !.ttl = TRUE, !.older = LiveFlows] \in Counter
    BY <2>1 DEF Counter
  <2>3. [limiter EXCEPT !.count = IF @ > MaxAttempts THEN @ ELSE limiter.count + 1] \in Counter
    BY <2>1, FlowsAssumption DEF Counter
  <2>4. \/ limiter' = limiter \/ limiter' = [limiter EXCEPT !.ttl = TRUE, !.older = LiveFlows]
        \/ limiter' = [limiter EXCEPT !.count = IF @ > MaxAttempts THEN @ ELSE limiter.count + 1]
    BY DEF Attempt, AttemptWindow, CompareMonth, ReactivationFind, IssueTokens, Stop,
       CompleteSignup
  <2>5. QED
    BY <2>1, <2>2, <2>3, <2>4
<1>4. wrong' \in [FlowId -> Nat]
  <2>1. wrong \in [FlowId -> Nat]
    BY DEF FlowsInv, TypeOK
  <2>2. \/ wrong' = wrong \/ wrong' = [wrong EXCEPT ![call[c].flow] = @ + 1]
    BY DEF Attempt, AttemptWindow, CompareMonth, ReactivationFind, IssueTokens, Stop,
       CompleteSignup, history
  <2>3. QED
    BY <2>1, <2>2
<1>5. QED
  BY <1>1, <1>2, <1>3, <1>4, QuietStep

\* The three ways to prove control of the account.
LEMMA ControlStep ==
    ASSUME FlowsInv, NEW c \in Caller,
           (CompleteSignup(c) /\ status = "NONE") \/ Activate(c) \/ Reset(c)
    PROVE  FlowsInv'
<1>1. /\ Goto(c, At("upsert", call[c].fp, 0)) /\ proved' = Proves(call[c].fp)
      /\ status' \in {status, "ACTIVE"} /\ UNCHANGED <<devices, flow, origin>>
  BY DEF CompleteSignup, CreateUser, Activate, UpdateStatus, Reset
<1>2. \/ UNCHANGED <<limiter, wrong, solved>>
      \/ limiter' = NoCounter /\ wrong' = [f \in FlowId |-> 0] /\ solved' = TRUE
  BY DEF CompleteSignup, Activate, Reset
<1>3. /\ limiter' \in Counter /\ wrong' \in [FlowId -> Nat] /\ solved' \in BOOLEAN
  <2>1. limiter \in Counter /\ wrong \in [FlowId -> Nat] /\ solved \in BOOLEAN
    BY DEF FlowsInv, TypeOK, Counter
  <2>2. NoCounter \in Counter
    BY FlowsAssumption DEF NoCounter, Counter
  <2>3. CASE UNCHANGED <<limiter, wrong, solved>>
    BY <2>1, <2>3
  <2>4. CASE limiter' = NoCounter /\ wrong' = [f \in FlowId |-> 0] /\ solved' = TRUE
    BY <2>2, <2>4
  <2>5. QED
    BY <1>2, <2>3, <2>4
<1>4. QED
  BY <1>1, <1>3, ProvedStep

\* Operators, and time.
LEMMA EnvironmentStep ==
    ASSUME FlowsInv,
           \/ \E s \in Status : Administer(s)
           \/ \E f \in FlowId : ExpireFlow(f)
           \/ ExpireLimiter
    PROVE  FlowsInv'
<1>1. ASSUME NEW s \in Status, Administer(s)
      PROVE  FlowsInv'
  <2>1. /\ origin' \in [FlowId -> {"other", "dormant", "moved"}]
        /\ \A f \in FlowId : /\ origin'[f] # "dormant"
                             /\ origin[f] # "other" => origin'[f] # "other"
    BY <1>1 DEF Administer, FlowsInv, TypeOK
  <2>2. UNCHANGED <<devices, flow, limiter, call, proved, solved, wrong>> /\ status' \in Status
    BY <1>1 DEF Administer
  <2>3. TypeOK'
    BY <2>1, <2>2 DEF FlowsInv, TypeOK
  <2>4. ProofInv'
    BY <2>2 DEF FlowsInv, ProofInv, DeviceNeedsProof
  <2>5. DormancyInv'
    BY <2>1, <2>2 DEF FlowsInv, DormancyInv, Reactivating, HoldsDormant
  <2>6. QED
    BY <2>3, <2>4, <2>5 DEF FlowsInv
<1>2. ASSUME NEW f \in FlowId, ExpireFlow(f)
      PROVE  FlowsInv'
  <2>1. /\ UNCHANGED <<status, devices, limiter, call, origin, proved, solved, wrong>>
        /\ flow' \in [FlowId -> Purpose \cup {"unissued", "expired"}]
        /\ \A g \in FlowId : flow'[g] = flow[g] \/ flow'[g] = "expired"
    BY <1>2 DEF ExpireFlow, history, FlowsInv, TypeOK
  <2>2. TypeOK'
    BY <2>1 DEF FlowsInv, TypeOK
  <2>3. ProofInv'
    BY <2>1 DEF FlowsInv, ProofInv, DeviceNeedsProof
  <2>4. DormancyInv'
    BY <2>1, KeepsDormancy DEF Reactivating
  <2>5. QED
    BY <2>2, <2>3, <2>4 DEF FlowsInv
<1>3. CASE ExpireLimiter
  <2>1. limiter' \in Counter
    BY <1>3, FlowsAssumption DEF ExpireLimiter, NoCounter, Counter
  <2>2. UNCHANGED <<status, devices, flow, call, origin, proved, solved, wrong>>
    BY <1>3 DEF ExpireLimiter, history
  <2>3. TypeOK'
    BY <2>1, <2>2 DEF FlowsInv, TypeOK, Counter
  <2>4. ProofInv' /\ DormancyInv'
    BY <2>2 DEF FlowsInv, ProofInv, DeviceNeedsProof, DormancyInv, Reactivating, HoldsDormant
  <2>5. QED
    BY <2>3, <2>4 DEF FlowsInv
<1>4. QED
  BY <1>1, <1>2, <1>3

\* Every step preserves the invariant of the flows.
LEMMA NextFlowsInv == FlowsInv /\ [Next]_vars => FlowsInv'
<1> SUFFICES ASSUME FlowsInv, [Next]_vars
             PROVE  FlowsInv'
  OBVIOUS
<1>1. ASSUME NEW c \in Caller, Request(c)
      PROVE  FlowsInv'
  BY <1>1, VerifyOtpStep, CheckDeviceStep, ControlStep, UpsertStep, PresentStep,
     GoOnStep DEF Request
<1>2. CASE UNCHANGED vars
  BY <1>2 DEF vars, FlowsInv, TypeOK, ProofInv, DeviceNeedsProof, DormancyInv, Reactivating,
     HoldsDormant
<1>3. QED
  BY <1>1, <1>2, EnvironmentStep DEF Next

\* The invariant holds of every behaviour.
THEOREM FlowsInvariance == Spec => []FlowsInv
  BY InitFlowsInv, NextFlowsInv, PTL DEF Spec

\* Every variable keeps its type.
THEOREM TypeCorrect == Spec => []TypeOK
<1>1. FlowsInv => TypeOK
  BY DEF FlowsInv
<1>2. QED
  BY <1>1, FlowsInvariance, PTL

\* A device is stored only for someone who proved control of the account.
THEOREM DevicesAreProved == Spec => []DeviceNeedsProof
<1>1. FlowsInv => DeviceNeedsProof
  BY DEF FlowsInv, ProofInv
<1>2. QED
  BY <1>1, FlowsInvariance, PTL

\* A request reactivates with a flow token that was issued while the account
\* was dormant, and overwrites another status than DORMANT or ACTIVE only if an
\* operator has set it after that.
THEOREM ReactivatesDormant == Spec => []ReactivationNeedsDormancy
<1>1. FlowsInv => ReactivationNeedsDormancy
  BY DEF FlowsInv, DormancyInv, Reactivating, HoldsDormant, ReactivationNeedsDormancy
<1>2. QED
  BY <1>1, FlowsInvariance, PTL

-----------------------------------------------------------------------------
(* The limiter.  A flow token that lives pays for its answers with attempts *)
(* of at most two counters: the one it was issued under, whose first        *)
(* attempt was made before it existed, and the next one, which cannot end   *)
(* before it does.  When it expires, nobody can present it any more, and    *)
(* the requests that hold it answer at most once each.                      *)

\* Attempts counted under the cap that have not been answered yet, and with
\* them the requests that have yet to be counted.
Answering(f) == {c \in Caller : call[c].pc \in {"window", "find"} /\ call[c].flow = f}
Pending(f) == {c \in Caller : /\ call[c].pc \in {"device_verify", "window", "find"}
                              /\ call[c].flow = f}

\* What flow token f has used up, and may have used up once nothing is
\* pending, and what the counter has let through.
Spent(f) == wrong[f] + Cardinality(Answering(f))
Total(f) == wrong[f] + Cardinality(Pending(f))
Used == IF limiter.count > MaxAttempts THEN MaxAttempts ELSE limiter.count

\* A window belongs to a counter.
CounterInv == limiter.ttl => limiter.count > 0

\* A flow token that does not exist has not been used.
UnissuedInv ==
    \A f \in FlowId : flow[f] = "unissued" =>
        wrong[f] = 0 /\ Pending(f) = {} /\ f \notin limiter.older

\* What a living flow token may have used, by its age and the counter's.
Budget(f) ==
    /\ flow[f] \in Purpose => Spent(f) <= Used + (MaxAttempts - 1)
    /\ flow[f] \in Purpose /\ limiter.ttl /\ f \notin limiter.older => Spent(f) <= Used - 1

BudgetInv == ~solved => \A f \in FlowId : Budget(f)

\* The inductive invariant of the limiter.
LimiterInv == CounterInv /\ UnissuedInv /\ BudgetInv

\* What any flow token may come to, dead or alive.
Ceiling == 2 * MaxAttempts - 1 + Cardinality(Caller)
CeilingInv == ~solved => \A f \in FlowId : Total(f) <= Ceiling

\* There are finitely many requests, so attempts can be counted.
LEMMA RequestSets ==
    ASSUME NEW S \in SUBSET Caller
    PROVE  /\ IsFiniteSet(S) /\ Cardinality(S) \in Nat /\ Cardinality(Caller) \in Nat
           /\ Cardinality(S) <= Cardinality(Caller)
<1>1. IsFiniteSet(Caller) /\ S \subseteq Caller
  BY FlowsAssumption
<1>2. IsFiniteSet(S) /\ Cardinality(S) <= Cardinality(Caller)
  BY <1>1, FS_Subset, Zenon
<1>3. QED
  BY <1>1, <1>2, FS_CardinalityType, Zenon

\* A smaller set of requests counts no more.
LEMMA FewerRequests ==
    ASSUME NEW S \in SUBSET Caller, NEW T \in SUBSET S
    PROVE  Cardinality(T) <= Cardinality(S)
<1>1. IsFiniteSet(S) /\ T \subseteq S
  BY RequestSets
<1>2. QED
  BY <1>1, FS_Subset, Zenon

\* One request changes a count by at most one.
LEMMA OneMoves ==
    ASSUME NEW c \in Caller, NEW S \in SUBSET Caller, NEW T \in SUBSET Caller,
           c \in T => T = S \cup {c}, c \notin T => T = S \ {c}
    PROVE  /\ Cardinality(T) <= Cardinality(S) + 1
           /\ c \in S \/ c \notin T => Cardinality(T) <= Cardinality(S)
           /\ c \in S /\ c \notin T => Cardinality(T) = Cardinality(S) - 1
<1>1. IsFiniteSet(S) /\ Cardinality(S) \in Nat
  BY RequestSets
<1>2. c \notin S => Cardinality(S \cup {c}) = Cardinality(S) + 1
  BY <1>1, FS_AddElement
<1>3. ASSUME c \in S
      PROVE  Cardinality(S \ {c}) = Cardinality(S) - 1
  BY <1>1, <1>3, FS_RemoveElement, Zenon
<1>4. CASE c \in T /\ c \in S
  <2>1. T = S
    BY <1>4
  <2>2. QED
    BY <1>1, <1>4, <2>1
<1>5. CASE c \in T /\ c \notin S
  <2>1. Cardinality(T) = Cardinality(S) + 1
    BY <1>2, <1>5
  <2>2. QED
    BY <1>1, <1>5, <2>1
<1>6. CASE c \notin T /\ c \in S
  <2>1. Cardinality(T) = Cardinality(S) - 1
    BY <1>3, <1>6
  <2>2. QED
    BY <1>1, <1>6, <2>1
<1>7. CASE c \notin T /\ c \notin S
  <2>1. T = S
    BY <1>7
  <2>2. QED
    BY <1>1, <1>7, <2>1
<1>8. QED
  BY <1>4, <1>5, <1>6, <1>7

\* What a flow token has used, and the counter, are numbers.
LEMMA Numbers ==
    ASSUME TypeOK
    PROVE  /\ \A f \in FlowId : /\ wrong[f] \in Nat
                                /\ Cardinality(Answering(f)) \in Nat
                                /\ Cardinality(Pending(f)) \in Nat
                                /\ Spent(f) \in Nat /\ Total(f) \in Nat
           /\ limiter.count \in Nat /\ Used \in 0..MaxAttempts /\ MaxAttempts \in Nat \ {0}
<1>1. MaxAttempts \in Nat \ {0} /\ limiter.count \in Nat /\ wrong \in [FlowId -> Nat]
  BY FlowsAssumption DEF TypeOK
<1>2. Used \in 0..MaxAttempts
  BY <1>1 DEF Used
<1>3. ASSUME NEW f \in FlowId
      PROVE  Cardinality(Answering(f)) \in Nat /\ Cardinality(Pending(f)) \in Nat
  <2>1. Answering(f) \in SUBSET Caller /\ Pending(f) \in SUBSET Caller
    BY DEF Answering, Pending
  <2>2. QED
    BY <2>1, RequestSets
<1>4. QED
  BY <1>1, <1>2, <1>3 DEF Spent, Total

\* The same in the next state.
LEMMA NumbersNext ==
    ASSUME TypeOK'
    PROVE  \A f \in FlowId : /\ wrong'[f] \in Nat
                             /\ Cardinality(Answering(f)') \in Nat
                             /\ Cardinality(Pending(f)') \in Nat
                             /\ Spent(f)' \in Nat /\ Total(f)' \in Nat
<1>1. wrong' \in [FlowId -> Nat]
  BY DEF TypeOK
<1>2. ASSUME NEW f \in FlowId
      PROVE  Cardinality(Answering(f)') \in Nat /\ Cardinality(Pending(f)') \in Nat
  <2>1. Answering(f)' \in SUBSET Caller /\ Pending(f)' \in SUBSET Caller
    BY DEF Answering, Pending
  <2>2. QED
    BY <2>1, RequestSets
<1>3. QED
  BY <1>1, <1>2 DEF Spent, Total

\* A request that goes on or ends, or starts an attempt, changes the counts of
\* one flow token by at most one.
LEMMA AnsweringMoves ==
    ASSUME NEW c \in Caller, NEW f \in FlowId,
           \A d \in Caller \ {c} : call'[d] = call[d]
    PROVE  /\ Cardinality(Answering(f)') <= Cardinality(Answering(f)) + 1
           /\ c \in Answering(f) \/ c \notin Answering(f)' =>
                Cardinality(Answering(f)') <= Cardinality(Answering(f))
           /\ c \in Answering(f) /\ c \notin Answering(f)' =>
                Cardinality(Answering(f)') = Cardinality(Answering(f)) - 1
<1> DEFINE S == Answering(f)
           T == Answering(f)'
<1>1. /\ S \in SUBSET Caller /\ T \in SUBSET Caller
      /\ c \in T => T = S \cup {c}
      /\ c \notin T => T = S \ {c}
  BY DEF Answering
<1> HIDE DEF S, T
<1>2. /\ Cardinality(T) <= Cardinality(S) + 1
      /\ c \in S \/ c \notin T => Cardinality(T) <= Cardinality(S)
      /\ c \in S /\ c \notin T => Cardinality(T) = Cardinality(S) - 1
  BY <1>1, OneMoves
<1>3. QED
  BY <1>2 DEF S, T

LEMMA PendingMoves ==
    ASSUME NEW c \in Caller, NEW f \in FlowId,
           \A d \in Caller \ {c} : call'[d] = call[d]
    PROVE  /\ c \in Pending(f) \/ c \notin Pending(f)' =>
                /\ Pending(f)' \subseteq Pending(f)
                /\ Cardinality(Pending(f)') <= Cardinality(Pending(f))
           /\ c \in Pending(f) /\ c \notin Pending(f)' =>
                Cardinality(Pending(f)') = Cardinality(Pending(f)) - 1
<1> DEFINE S == Pending(f)
           T == Pending(f)'
<1>1. /\ S \in SUBSET Caller /\ T \in SUBSET Caller
      /\ c \in T => T = S \cup {c}
      /\ c \notin T => T = S \ {c}
  BY DEF Pending
<1> HIDE DEF S, T
<1>2. /\ c \in S \/ c \notin T => Cardinality(T) <= Cardinality(S)
      /\ c \in S /\ c \notin T => Cardinality(T) = Cardinality(S) - 1
  BY <1>1, OneMoves
<1>3. c \in S \/ c \notin T => T \subseteq S
  BY <1>1
<1>4. QED
  BY <1>2, <1>3 DEF S, T

\* A living flow token has answered less than two counters let through.
LEMMA LivingBudget ==
    ASSUME FlowsInv, LimiterInv, ~solved, NEW f \in FlowId, flow[f] \in Purpose
    PROVE  Spent(f) <= 2 * MaxAttempts - 1
<1>1. Used \in 0..MaxAttempts /\ MaxAttempts \in Nat \ {0} /\ Spent(f) \in Nat
  BY Numbers DEF FlowsInv
<1>2. Spent(f) <= Used + (MaxAttempts - 1)
  BY DEF LimiterInv, BudgetInv, Budget
<1>3. QED
  BY <1>1, <1>2

\* Nothing has been used at the start.
LEMMA InitLimiterInv == Init => LimiterInv /\ CeilingInv /\ FlowAnswersBounded
<1> SUFFICES ASSUME Init
             PROVE  LimiterInv /\ CeilingInv /\ FlowAnswersBounded
  OBVIOUS
<1>1. \A f \in FlowId : /\ Answering(f) = {} /\ Pending(f) = {}
                        /\ wrong[f] = 0 /\ flow[f] = "unissued"
  BY Places DEF Init, Answering, Pending
<1>2. Cardinality({}) = 0 /\ Cardinality(Caller) \in Nat /\ MaxAttempts \in Nat \ {0}
  BY FS_EmptySet, RequestSets, FlowsAssumption
<1>3. CounterInv /\ UnissuedInv
  BY <1>1 DEF Init, NoCounter, CounterInv, UnissuedInv
<1>4. BudgetInv
  BY <1>1 DEF BudgetInv, Budget, Purpose
<1>5. CeilingInv /\ FlowAnswersBounded
  BY <1>1, <1>2 DEF CeilingInv, Total, Ceiling, FlowAnswersBounded
<1>6. QED
  BY <1>3, <1>4, <1>5 DEF LimiterInv

\* A step that counts no attempt keeps the budgets: flow tokens may be issued
\* or expire, requests may begin, go on or end.
LEMMA BudgetsKept ==
    ASSUME FlowsInv, FlowsInv', LimiterInv,
           \A f \in FlowId : Cardinality(Answering(f)') <= Cardinality(Answering(f)),
           \A f \in FlowId : flow'[f] = "unissued" => Pending(f)' \subseteq Pending(f),
           \A f \in FlowId : flow'[f] \in Purpose => flow[f] \in Purpose \cup {"unissued"},
           \A f \in FlowId : flow'[f] = "unissued" => flow[f] = "unissued",
           UNCHANGED <<limiter, wrong>>, solved => solved'
    PROVE  LimiterInv'
<1>1. CounterInv' /\ UnissuedInv'
  BY DEF LimiterInv, CounterInv, UnissuedInv
<1>2. ASSUME NEW f \in FlowId, ~solved'
      PROVE  Budget(f)'
  <2>1. /\ wrong[f] \in Nat /\ Cardinality(Answering(f)) \in Nat
        /\ Used \in 0..MaxAttempts /\ MaxAttempts \in Nat \ {0}
    BY Numbers DEF FlowsInv
  <2>2. Cardinality(Answering(f)') \in Nat
    BY NumbersNext DEF FlowsInv
  <2>3. Spent(f)' <= Spent(f) /\ Used' = Used /\ Spent(f) \in Nat /\ Spent(f)' \in Nat
    BY <2>1, <2>2 DEF Spent, Used
  <2>4. Budget(f)
    BY <1>2 DEF LimiterInv, BudgetInv
  <2>5. limiter.ttl => Used >= 1
    BY <2>1, Numbers DEF LimiterInv, CounterInv, Used, FlowsInv
  <2>6. CASE flow[f] = "unissued"
    <3>1. Spent(f) = 0
      <4>1. wrong[f] = 0 /\ Answering(f) = {}
        BY <2>6 DEF LimiterInv, UnissuedInv, Answering, Pending
      <4>2. Cardinality({}) = 0
        BY FS_EmptySet
      <4>3. QED
        BY <4>1, <4>2 DEF Spent
    <3>2. QED
      BY <2>1, <2>3, <2>5, <3>1 DEF Budget
  <2>7. CASE flow[f] # "unissued"
    BY <2>1, <2>3, <2>4, <2>7 DEF Budget
  <2>8. QED
    BY <2>6, <2>7
<1>3. BudgetInv'
  BY <1>2 DEF BudgetInv
<1>4. QED
  BY <1>1, <1>3 DEF LimiterInv

\* A request that leaves the attempts alone: a login, a signup, a
\* reactivation, a right month, an end.
Apart(c) ==
    \/ \E fp \in Fp : VerifyOtp(c, fp)
    \/ CompleteSignup(c) \/ ReactivationFind(c) \/ CheckDevice(c) \/ Activate(c)
    \/ CompareMonth(c, TRUE) \/ UpsertDevice(c) \/ IssueTokens(c) \/ Stop(c)

LEMMA ApartMoves ==
    ASSUME FlowsInv, NEW c \in Caller, Apart(c)
    PROVE  /\ UNCHANGED <<limiter, wrong, solved>>
           /\ \A d \in Caller \ {c} : call'[d] = call[d]
           /\ call' = call \/ call'[c].pc \notin {"device_verify", "window", "find"}
<1>0. UNCHANGED <<limiter, wrong, solved>>
  BY DEF Apart, VerifyOtp, CompleteSignup, ReactivationFind, CheckDevice, Activate, CompareMonth,
     UpsertDevice, IssueTokens, Stop, history
<1>1. \/ call' = call \/ Goto(c, Idle)
      \/ \E pc \in {"reset", "activate"} : Goto(c, [call[c] EXCEPT !.pc = pc])
      \/ \E pc \in {"device", "upsert", "issue"}, fp \in Fp : Goto(c, At(pc, fp, 0))
  <2>1. call[c].fp \in Fp /\ NoFp \in Fp
    BY DEF FlowsInv, TypeOK, Fp
  <2>2. QED
    BY <2>1 DEF Apart, VerifyOtp, CompleteSignup, ReactivationFind, CheckDevice, UnknownDevice,
       Activate, CompareMonth, UpsertDevice, IssueTokens, Stop
<1>2. CASE Goto(c, Idle)
  BY <1>0, <1>2, GoIdle DEF FlowsInv
<1>3. ASSUME NEW pc \in {"reset", "activate"}, Goto(c, [call[c] EXCEPT !.pc = pc])
      PROVE  /\ call'[c].pc = pc
             /\ \A d \in Caller \ {c} : call'[d] = call[d]
  BY <1>3, MoveOn DEF FlowsInv
<1>4. ASSUME NEW pc \in {"device", "upsert", "issue"}, NEW fp \in Fp, Goto(c, At(pc, fp, 0))
      PROVE  /\ call'[c].pc = pc
             /\ \A d \in Caller \ {c} : call'[d] = call[d]
  <2>1. TypeOK /\ pc \in Purpose \cup {"device", "issue", "upsert"} /\ 0 \in 0..MaxFlow
    BY Places DEF FlowsInv
  <2>2. QED
    BY <1>4, <2>1, GoTo
<1>5. QED
  BY <1>0, <1>1, <1>2, <1>3, <1>4

LEMMA OtherRequest ==
    ASSUME FlowsInv, FlowsInv', LimiterInv, NEW c \in Caller, Apart(c)
    PROVE  LimiterInv' /\ \A f \in FlowId : Total(f)' <= Total(f)
<1>1. /\ UNCHANGED <<limiter, wrong, solved>>
      /\ \A d \in Caller \ {c} : call'[d] = call[d]
      /\ call' = call \/ call'[c].pc \notin {"device_verify", "window", "find"}
  BY ApartMoves
<1>2. ASSUME NEW f \in FlowId
      PROVE  /\ flow'[f] \in Purpose => flow[f] \in Purpose \cup {"unissued"}
             /\ flow'[f] = "unissued" => flow[f] = "unissued"
  <2>1. \/ flow' = flow
        \/ IssueFlow("signup") \/ IssueFlow("reactivation") \/ IssueFlow("device_verify")
    BY DEF Apart, VerifyOtp, CompleteSignup, ReactivationFind, CheckDevice, UnknownDevice, Activate,
       CompareMonth, UpsertDevice, IssueTokens, Stop
  <2>2. QED
    BY <2>1 DEF IssueFlow, FlowsInv, TypeOK, Purpose
<1>3. ASSUME NEW f \in FlowId
      PROVE  Answering(f)' \subseteq Answering(f) /\ Pending(f)' \subseteq Pending(f)
  BY <1>1 DEF Answering, Pending
<1>4. ASSUME NEW f \in FlowId
      PROVE  /\ Cardinality(Answering(f)') <= Cardinality(Answering(f))
             /\ Cardinality(Pending(f)') <= Cardinality(Pending(f))
  <2>1. Answering(f) \in SUBSET Caller /\ Pending(f) \in SUBSET Caller
    BY DEF Answering, Pending
  <2>2. QED
    BY <1>3, <2>1, FewerRequests
<1>5. LimiterInv'
  BY <1>1, <1>2, <1>3, <1>4, BudgetsKept
<1>6. ASSUME NEW f \in FlowId
      PROVE  Total(f)' <= Total(f)
  BY <1>1, <1>4, Numbers, NumbersNext DEF Total, FlowsInv
<1>7. QED
  BY <1>5, <1>6

\* One more request may come to an attempt with flow token f.
Grows(f) == flow[f] \in Purpose /\ wrong'[f] = wrong[f]

\* A flow token is presented: it lives, and nothing is counted yet.
LEMMA Presented ==
    ASSUME FlowsInv, FlowsInv', LimiterInv, NEW c \in Caller, NEW g \in FlowId, NEW fp \in Fp,
           NEW purpose \in Purpose, PresentFlow(c, g, fp, purpose)
    PROVE  LimiterInv' /\ \A f \in FlowId : Grows(f) \/ Total(f)' <= Total(f)
<1>1. /\ call'[c].pc = purpose /\ call'[c].flow = g
      /\ \A d \in Caller \ {c} : call'[d] = call[d]
  BY Places, GoTo DEF PresentFlow, FlowsInv
<1>2. /\ UNCHANGED <<flow, limiter, wrong, solved>>
      /\ flow[g] \in Purpose /\ call[c].pc = "idle"
  BY DEF PresentFlow, VerifyFlowToken, history, Idle
<1>3. ASSUME NEW f \in FlowId
      PROVE  Answering(f)' = Answering(f) /\ (f # g => Pending(f)' = Pending(f))
  BY <1>1, <1>2 DEF Answering, Pending, Purpose
<1>4. \A f \in FlowId : Cardinality(Answering(f)') <= Cardinality(Answering(f))
  BY <1>3, Numbers DEF FlowsInv
<1>5. \A f \in FlowId : flow'[f] = "unissued" => Pending(f)' \subseteq Pending(f)
  BY <1>2, <1>3 DEF Purpose
<1>6. LimiterInv'
  BY <1>2, <1>4, <1>5, BudgetsKept
<1>7. \A f \in FlowId : Grows(f) \/ Total(f)' <= Total(f)
  BY <1>2, <1>3, Numbers DEF Total, Grows, FlowsInv
<1>8. QED
  BY <1>6, <1>7

\* INCR: an attempt under the cap is paid for by the counter.
LEMMA AttemptPays ==
    ASSUME FlowsInv, FlowsInv', LimiterInv, NEW c \in Caller, Attempt(c)
    PROVE  LimiterInv' /\ \A f \in FlowId : Total(f)' <= Total(f)
<1> DEFINE g == call[c].flow
<1>1. /\ call[c].pc = "device_verify"
      /\ limiter' = [limiter EXCEPT !.count = IF @ > MaxAttempts THEN @ ELSE limiter.count + 1]
      /\ UNCHANGED <<status, devices, flow, origin, proved, solved, wrong>>
  BY DEF Attempt, history
<1>2. /\ limiter'.ttl = limiter.ttl /\ limiter'.older = limiter.older
      /\ limiter.count \in Nat /\ MaxAttempts \in Nat \ {0} /\ limiter'.count >= limiter.count
      /\ limiter'.count \in Nat
      /\ limiter.count < MaxAttempts => limiter'.count = limiter.count + 1
  BY <1>1, Numbers DEF FlowsInv, TypeOK
<1>3. /\ \A d \in Caller \ {c} : call'[d] = call[d]
      /\ \/ call'[c].pc = "idle"
         \/ /\ call'[c].pc \in {"window", "find"} /\ call'[c].flow = g
            /\ limiter.count < MaxAttempts
  <2>1. \/ Goto(c, Idle)
        \/ /\ \E pc \in {"window", "find"} : Goto(c, [call[c] EXCEPT !.pc = pc])
           /\ limiter.count + 1 = 1 \/ ~OverCap(limiter.count + 1)
    BY DEF Attempt
  <2>2. limiter.count + 1 = 1 \/ ~OverCap(limiter.count + 1) => limiter.count < MaxAttempts
    BY <1>2 DEF OverCap
  <2>3. CASE Goto(c, Idle)
    BY <2>3, GoIdle DEF FlowsInv
  <2>4. ASSUME NEW pc \in {"window", "find"}, Goto(c, [call[c] EXCEPT !.pc = pc])
        PROVE  /\ \A d \in Caller \ {c} : call'[d] = call[d]
               /\ call'[c].pc \in {"window", "find"} /\ call'[c].flow = g
    BY <2>4, MoveOn DEF FlowsInv
  <2>5. QED
    BY <2>1, <2>2, <2>3, <2>4
<1>4. g \in FlowId => c \in Pending(g)
  BY <1>1 DEF Pending
<1>5. \A f \in FlowId : /\ f # g => c \notin Answering(f)' /\ c \notin Pending(f)'
                        /\ c \in Answering(f)' => limiter.count < MaxAttempts
  BY <1>3 DEF Answering, Pending
<1> HIDE DEF g
<1>6. /\ Used \in Nat /\ Used' \in Nat /\ Used <= Used'
      /\ limiter.count < MaxAttempts => Used' = Used + 1
      /\ Used' <= MaxAttempts
  BY <1>2 DEF Used
<1>7. ASSUME NEW f \in FlowId
      PROVE  /\ Pending(f)' \subseteq Pending(f)
             /\ Cardinality(Pending(f)') <= Cardinality(Pending(f))
  BY <1>3, <1>4, <1>5, PendingMoves
<1>8. CounterInv'
  BY <1>2 DEF LimiterInv, CounterInv
<1>9. UnissuedInv'
  BY <1>1, <1>2, <1>7 DEF LimiterInv, UnissuedInv
<1>10. ASSUME NEW f \in FlowId, ~solved'
       PROVE  Budget(f)'
  <2>1. wrong[f] \in Nat /\ Cardinality(Answering(f)) \in Nat /\ Spent(f) \in Nat
    BY Numbers DEF FlowsInv
  <2>2. Cardinality(Answering(f)') \in Nat /\ Spent(f)' \in Nat
    BY NumbersNext DEF FlowsInv
  <2>3. /\ Cardinality(Answering(f)') <= Cardinality(Answering(f)) + 1
        /\ c \notin Answering(f)' => Cardinality(Answering(f)') <= Cardinality(Answering(f))
    BY <1>3, AnsweringMoves
  <2>4. /\ Spent(f)' <= Spent(f) + 1
        /\ c \notin Answering(f)' => Spent(f)' <= Spent(f)
    BY <1>1, <2>1, <2>2, <2>3 DEF Spent
  <2>5. Budget(f)
    BY <1>1, <1>10 DEF LimiterInv, BudgetInv
  <2>6. CASE c \notin Answering(f)'
    BY <1>1, <1>2, <1>6, <2>1, <2>2, <2>4, <2>5, <2>6 DEF Budget
  <2>7. CASE c \in Answering(f)'
    <3>1. Used' = Used + 1
      BY <1>5, <1>6, <2>7
    <3>2. QED
      BY <1>1, <1>2, <1>6, <2>1, <2>2, <2>4, <2>5, <3>1 DEF Budget
  <2>8. QED
    BY <2>6, <2>7
<1>11. LimiterInv'
  BY <1>8, <1>9, <1>10 DEF LimiterInv, BudgetInv
<1>12. \A f \in FlowId : Total(f)' <= Total(f)
  BY <1>1, <1>7, Numbers, NumbersNext DEF Total, FlowsInv
<1>13. QED
  BY <1>11, <1>12

\* EXPIRE: every live flow token now ends before the counter does.
LEMMA WindowOpens ==
    ASSUME FlowsInv, FlowsInv', LimiterInv, NEW c \in Caller, AttemptWindow(c)
    PROVE  LimiterInv' /\ \A f \in FlowId : Total(f)' <= Total(f)
<1>1. /\ call'[c].pc = "find" /\ call'[c].flow = call[c].flow
      /\ \A d \in Caller \ {c} : call'[d] = call[d]
  BY MoveOn DEF AttemptWindow, FlowsInv
<1>2. UNCHANGED <<status, devices, flow, origin, proved, solved, wrong>>
  BY DEF AttemptWindow, history
<1>3. \A f \in FlowId : Answering(f)' = Answering(f) /\ Pending(f)' = Pending(f)
  BY <1>1 DEF Answering, Pending, AttemptWindow
<1>4. /\ limiter'.count = limiter.count
      /\ limiter' # limiter => /\ limiter.count > 0
                               /\ limiter'.older = LiveFlows
  BY DEF AttemptWindow, FlowsInv, TypeOK
<1>5. CounterInv'
  BY <1>4 DEF LimiterInv, CounterInv
<1>6. UnissuedInv'
  BY <1>2, <1>3, <1>4 DEF LimiterInv, UnissuedInv, LiveFlows, Purpose
<1>7. ASSUME NEW f \in FlowId, ~solved'
      PROVE  Budget(f)'
  <2>1. Spent(f)' = Spent(f) /\ Used' = Used
    BY <1>2, <1>3, <1>4 DEF Spent, Used
  <2>2. Budget(f)
    BY <1>2, <1>7 DEF LimiterInv, BudgetInv
  <2>3. limiter' # limiter /\ flow[f] \in Purpose => f \in limiter'.older
    BY <1>4 DEF LiveFlows
  <2>4. QED
    BY <1>2, <2>1, <2>2, <2>3 DEF Budget
<1>8. LimiterInv'
  BY <1>5, <1>6, <1>7 DEF LimiterInv, BudgetInv
<1>9. \A f \in FlowId : Total(f)' <= Total(f)
  BY <1>2, <1>3, Numbers DEF Total, FlowsInv
<1>10. QED
  BY <1>8, <1>9

\* A wrong month: what was waiting for an answer has one.
LEMMA WrongMonth ==
    ASSUME FlowsInv, FlowsInv', LimiterInv, NEW c \in Caller, CompareMonth(c, FALSE)
    PROVE  LimiterInv' /\ \A f \in FlowId : Total(f)' <= Total(f)
<1> DEFINE g == call[c].flow
<1>1. /\ call[c].pc = "find" /\ call'[c].pc = "idle"
      /\ \A d \in Caller \ {c} : call'[d] = call[d]
      /\ UNCHANGED <<flow, limiter, solved>>
      /\ wrong' = IF solved THEN wrong ELSE [wrong EXCEPT ![g] = @ + 1]
  BY GoIdle DEF CompareMonth, FlowsInv
<1>2. g \in FlowId => c \in Answering(g) /\ c \in Pending(g)
  BY <1>1 DEF Answering, Pending
<1>3. \A f \in FlowId : c \notin Answering(f)' /\ c \notin Pending(f)'
  BY <1>1 DEF Answering, Pending
<1>4. \A f \in FlowId : wrong'[f] = IF ~solved /\ f = g THEN wrong[f] + 1 ELSE wrong[f]
  BY <1>1 DEF FlowsInv, TypeOK
<1> HIDE DEF g
<1>5. CounterInv'
  BY <1>1 DEF LimiterInv, CounterInv
<1>6. UnissuedInv'
  <2>1. ASSUME NEW f \in FlowId, flow'[f] = "unissued"
        PROVE  wrong'[f] = 0 /\ Pending(f)' = {} /\ f \notin limiter'.older
    <3>1. flow[f] = "unissued" /\ Pending(f) = {}
      BY <1>1, <2>1 DEF LimiterInv, UnissuedInv
    <3>2. f # g
      BY <1>2, <3>1
    <3>3. Pending(f)' \subseteq Pending(f)
      BY <1>1, <1>3, PendingMoves
    <3>4. QED
      BY <1>1, <1>4, <3>1, <3>2, <3>3 DEF LimiterInv, UnissuedInv
  <2>2. QED
    BY <2>1 DEF UnissuedInv
<1>7. ASSUME NEW f \in FlowId
      PROVE  Spent(f)' <= Spent(f) /\ Total(f)' <= Total(f)
  <2>1. /\ wrong[f] \in Nat /\ Cardinality(Answering(f)) \in Nat
        /\ Cardinality(Pending(f)) \in Nat
    BY Numbers DEF FlowsInv
  <2>2. Cardinality(Answering(f)') \in Nat /\ Cardinality(Pending(f)') \in Nat
    BY NumbersNext DEF FlowsInv
  <2>3. /\ Cardinality(Answering(f)') <= Cardinality(Answering(f))
        /\ Cardinality(Pending(f)') <= Cardinality(Pending(f))
        /\ f = g => /\ Cardinality(Answering(f)') = Cardinality(Answering(f)) - 1
                    /\ Cardinality(Pending(f)') = Cardinality(Pending(f)) - 1
    BY <1>1, <1>2, <1>3, AnsweringMoves, PendingMoves
  <2>4. QED
    BY <1>4, <2>1, <2>2, <2>3 DEF Spent, Total
<1>8. ASSUME NEW f \in FlowId, ~solved
      PROVE  Budget(f)'
  <2>1. Spent(f) \in Nat /\ Spent(f)' \in Nat /\ MaxAttempts \in Nat \ {0}
    BY Numbers, NumbersNext DEF FlowsInv
  <2>2. Budget(f)
    BY <1>8 DEF LimiterInv, BudgetInv
  <2>3. Used' = Used /\ Used \in Nat
    BY <1>1, Numbers DEF Used, FlowsInv
  <2>4. QED
    BY <1>1, <1>7, <2>1, <2>2, <2>3 DEF Budget
<1>9. LimiterInv'
  BY <1>1, <1>5, <1>6, <1>8 DEF LimiterInv, BudgetInv
<1>10. QED
  BY <1>7, <1>9

\* Someone knew the month: nothing is counted from now on.
LEMMA Solved ==
    ASSUME FlowsInv, FlowsInv', LimiterInv, NEW c \in Caller, Reset(c)
    PROVE  LimiterInv' /\ solved' /\ FlowAnswersBounded'
<1>1. /\ call'[c].pc = "upsert" /\ \A d \in Caller \ {c} : call'[d] = call[d]
  <2>1. call[c].fp \in Fp
    BY DEF FlowsInv, TypeOK
  <2>2. QED
    BY <2>1, Places, GoTo DEF Reset, FlowsInv
<1>2. \A f \in FlowId : Pending(f)' \subseteq Pending(f)
  BY <1>1 DEF Pending
<1>3. /\ limiter' = NoCounter /\ solved' /\ flow' = flow
      /\ \A f \in FlowId : wrong'[f] = 0
  BY DEF Reset
<1>4. CounterInv' /\ UnissuedInv'
  BY <1>2, <1>3 DEF NoCounter, LimiterInv, CounterInv, UnissuedInv
<1>5. FlowAnswersBounded'
  <2>1. Cardinality(Caller) \in Nat /\ MaxAttempts \in Nat \ {0}
    BY RequestSets, FlowsAssumption
  <2>2. QED
    BY <1>3, <2>1 DEF FlowAnswersBounded
<1>6. QED
  BY <1>3, <1>4, <1>5 DEF LimiterInv, BudgetInv

\* The counter ends: a flow token that lives on was issued under it.
LEMMA CounterEnds ==
    ASSUME FlowsInv, FlowsInv', LimiterInv, ExpireLimiter
    PROVE  LimiterInv' /\ \A f \in FlowId : Total(f)' <= Total(f)
<1>1. /\ UNCHANGED <<flow, call, solved, wrong>>
      /\ limiter.ttl /\ limiter' = NoCounter
      /\ \A f \in FlowId : flow[f] \in Purpose => f \notin limiter.older
  BY DEF ExpireLimiter, history, LiveFlows
<1>2. \A f \in FlowId : Answering(f)' = Answering(f) /\ Pending(f)' = Pending(f)
  BY <1>1 DEF Answering, Pending
<1>3. CounterInv' /\ UnissuedInv'
  BY <1>1, <1>2 DEF NoCounter, LimiterInv, CounterInv, UnissuedInv
<1>4. ASSUME NEW f \in FlowId, ~solved'
      PROVE  Budget(f)'
  <2>1. Budget(f)
    BY <1>1, <1>4 DEF LimiterInv, BudgetInv
  <2>2. Used \in 0..MaxAttempts /\ MaxAttempts \in Nat \ {0} /\ Spent(f) \in Nat
    BY Numbers DEF FlowsInv
  <2>3. Spent(f)' = Spent(f)
    BY <1>1, <1>2 DEF Spent
  <2>4. Used' = 0 /\ limiter'.ttl = FALSE
    BY <1>1, <2>2 DEF Used, NoCounter
  <2>5. QED
    BY <1>1, <2>1, <2>2, <2>3, <2>4 DEF Budget
<1>5. LimiterInv'
  BY <1>3, <1>4 DEF LimiterInv, BudgetInv
<1>6. \A f \in FlowId : Total(f)' <= Total(f)
  BY <1>1, <1>2, Numbers DEF Total, FlowsInv
<1>7. QED
  BY <1>5, <1>6

\* Operators do not touch the limiter; an expired flow token is not used again.
LEMMA OthersAct ==
    ASSUME FlowsInv, FlowsInv', LimiterInv,
           (\E s \in Status : Administer(s)) \/ (\E f \in FlowId : ExpireFlow(f))
    PROVE  LimiterInv' /\ \A f \in FlowId : Total(f)' <= Total(f)
<1>1. UNCHANGED <<call, limiter, wrong, solved>>
  BY DEF Administer, ExpireFlow, history
<1>2. /\ \A f \in FlowId : flow'[f] \in Purpose => flow[f] \in Purpose \cup {"unissued"}
      /\ \A f \in FlowId : flow'[f] = "unissued" => flow[f] = "unissued"
  BY DEF Administer, ExpireFlow, FlowsInv, TypeOK, Purpose
<1>3. \A f \in FlowId : Answering(f)' = Answering(f) /\ Pending(f)' = Pending(f)
  BY <1>1 DEF Answering, Pending
<1>4. \A f \in FlowId : Cardinality(Answering(f)') <= Cardinality(Answering(f))
  BY <1>3, Numbers DEF FlowsInv
<1>5. LimiterInv'
  BY <1>1, <1>2, <1>3, <1>4, BudgetsKept
<1>6. \A f \in FlowId : Total(f)' <= Total(f)
  BY <1>1, <1>3, Numbers DEF Total, FlowsInv
<1>7. QED
  BY <1>5, <1>6

\* Every step keeps the limiter's invariant; it adds to what a flow token may
\* come to only while the token lives, and a right month ends the count.
LEMMA NextLimiter ==
    ASSUME FlowsInv, FlowsInv', LimiterInv, [Next]_vars
    PROVE  /\ LimiterInv'
           /\ \/ \A f \in FlowId : Grows(f) \/ Total(f)' <= Total(f)
              \/ solved' /\ FlowAnswersBounded'
<1>1. ASSUME NEW c \in Caller, Request(c)
      PROVE  /\ LimiterInv'
             /\ \/ \A f \in FlowId : Grows(f) \/ Total(f)' <= Total(f)
                \/ solved' /\ FlowAnswersBounded'
  <2>1. CASE \E f \in FlowId, fp \in Fp, purpose \in Purpose : PresentFlow(c, f, fp, purpose)
    BY <2>1, Presented
  <2>2. CASE Attempt(c)
    BY <2>2, AttemptPays
  <2>3. CASE AttemptWindow(c)
    BY <2>3, WindowOpens
  <2>4. CASE CompareMonth(c, FALSE)
    BY <2>4, WrongMonth
  <2>5. CASE Reset(c)
    BY <2>5, Solved
  <2>6. CASE Apart(c)
    BY <2>6, OtherRequest
  <2>7. ASSUME NEW right \in BOOLEAN, CompareMonth(c, right)
        PROVE  CompareMonth(c, TRUE) \/ CompareMonth(c, FALSE)
    BY <2>7, Zenon
  <2>8. QED
    BY <1>1, <2>1, <2>2, <2>3, <2>4, <2>5, <2>6, <2>7 DEF Request, Apart
<1>2. CASE UNCHANGED vars
  <2>1. \A f \in FlowId : Answering(f)' = Answering(f) /\ Pending(f)' = Pending(f)
    BY <1>2 DEF vars, Answering, Pending
  <2>2. \A f \in FlowId : Budget(f)' = Budget(f)
    BY <1>2, <2>1 DEF vars, Budget, Spent, Used
  <2>3. LimiterInv'
    BY <1>2, <2>1, <2>2 DEF vars, LimiterInv, CounterInv, UnissuedInv, BudgetInv
  <2>4. \A f \in FlowId : Total(f)' <= Total(f)
    BY <1>2, <2>1, Numbers DEF vars, Total, FlowsInv
  <2>5. QED
    BY <2>3, <2>4
<1>3. QED
  BY <1>1, <1>2, CounterEnds, OthersAct DEF Next

\* Nothing is counted after a right month.
LEMMA WrongUntilSolved ==
    ASSUME [Next]_vars, solved
    PROVE  solved' /\ (wrong' = wrong \/ \A f \in FlowId : wrong'[f] = 0)
  BY DEF Next, Request, vars, history, VerifyOtp, PresentFlow, CheckDevice, CompleteSignup,
     ReactivationFind, Activate, Attempt, AttemptWindow, CompareMonth, Reset, UpsertDevice,
     IssueTokens, Stop, Administer, ExpireFlow, ExpireLimiter

\* Every step keeps the ceiling.  The flow token that a step adds to lives, so
\* its answers are within two counters, and there are no more requests to
\* come than there are callers.
LEMMA NextCeiling ==
    FlowsInv /\ FlowsInv' /\ LimiterInv /\ CeilingInv /\ FlowAnswersBounded /\ [Next]_vars =>
        LimiterInv' /\ CeilingInv' /\ FlowAnswersBounded'
<1> SUFFICES ASSUME FlowsInv, FlowsInv', LimiterInv, CeilingInv, FlowAnswersBounded, [Next]_vars
             PROVE  LimiterInv' /\ CeilingInv' /\ FlowAnswersBounded'
  OBVIOUS
<1>0. Cardinality(Caller) \in Nat /\ MaxAttempts \in Nat \ {0} /\ Ceiling \in Nat
  BY RequestSets, FlowsAssumption DEF Ceiling
<1>1. CASE solved
  BY <1>0, <1>1, NextLimiter, WrongUntilSolved DEF CeilingInv, FlowAnswersBounded
<1>2. CASE ~solved /\ solved' /\ FlowAnswersBounded'
  BY <1>2, NextLimiter DEF CeilingInv
<1>3. CASE ~solved /\ \A f \in FlowId : Grows(f) \/ Total(f)' <= Total(f)
  <2>1. ASSUME NEW f \in FlowId
        PROVE  Total(f)' <= Ceiling
    <3>1. /\ wrong[f] \in Nat /\ Total(f) \in Nat /\ Spent(f) \in Nat
          /\ Cardinality(Answering(f)) \in Nat
      BY Numbers DEF FlowsInv
    <3>2. wrong'[f] \in Nat /\ Cardinality(Pending(f)') \in Nat /\ Total(f)' \in Nat
      BY NumbersNext DEF FlowsInv
    <3>3. CASE Total(f)' <= Total(f)
      BY <1>0, <1>3, <3>1, <3>2, <3>3 DEF CeilingInv
    <3>4. CASE Grows(f)
      <4>1. wrong'[f] = wrong[f] /\ flow[f] \in Purpose
        BY <3>4 DEF Grows
      <4>2. wrong[f] <= 2 * MaxAttempts - 1
        BY <1>0, <1>3, <3>1, <4>1, LivingBudget DEF Spent
      <4>3. Cardinality(Pending(f)') <= Cardinality(Caller)
        <5>1. Pending(f)' \in SUBSET Caller
          BY DEF Pending
        <5>2. QED
          BY <5>1, RequestSets
      <4>4. QED
        BY <1>0, <3>1, <3>2, <4>1, <4>2, <4>3 DEF Total, Ceiling
    <3>5. QED
      BY <1>3, <3>3, <3>4
  <2>2. ASSUME NEW f \in FlowId
        PROVE  wrong'[f] <= Ceiling
    <3>1. wrong'[f] \in Nat /\ Cardinality(Pending(f)') \in Nat
      BY NumbersNext DEF FlowsInv
    <3>2. QED
      BY <1>0, <2>1, <3>1 DEF Total
  <2>3. CeilingInv' /\ FlowAnswersBounded'
    <3>1. Ceiling' = Ceiling
      BY DEF Ceiling
    <3>2. QED
      BY <2>1, <2>2, <3>1 DEF CeilingInv, FlowAnswersBounded, Ceiling
  <2>4. QED
    BY <2>3, NextLimiter
<1>4. QED
  BY <1>1, <1>2, <1>3, NextLimiter

\* Until someone knows the registration month, a flow token answers at most
\* 2 * MaxAttempts - 1 wrong months, and one more for every request that was
\* waiting for the limiter when the token expired: for any number of requests
\* that race, stop between INCR and EXPIRE, or answer after their counter ended.
THEOREM AnswersAreBounded == Spec => []FlowAnswersBounded
  BY InitLimiterInv, NextCeiling, FlowsInvariance, PTL DEF Spec
=============================================================================

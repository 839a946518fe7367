------------------------- MODULE JwksVerifierProofs -------------------------
(***************************************************************************)
(* Proofs about JwksVerifier, for any number of concurrent Verify calls,   *)
(* keys, outages and any threshold of the breaker.                         *)
(***************************************************************************)
EXTENDS JwksVerifier, TLAPS

Fetching(c) == call[c].pc = "fetch" /\ call[c].counted

\* Only a reply with keys is stored, and it was served by the provider.
ReplyInv ==
    /\ \A c \in Caller : call[c].pc = "swap" => call[c].got # {}
    /\ \A c \in Caller : \A k \in call[c].got : k <= current
    /\ \A k \in keys : k <= current

\* The breaker counts failures while it is closed, and only of fetches it
\* admitted in its present state: none while open.
BreakerInv ==
    /\ breaker.state # "closed" => breaker.fails = 0
    /\ breaker.state = "open" => \A c \in Caller : ~Fetching(c)
    /\ \A c \in Caller : call[c].counted => call[c].pc = "fetch"

\* A half-open breaker lets a single probe through to the provider, however
\* many calls wait for one (breakerSettings leaves MaxRequests at one): any
\* two fetches it counts are the same.
SingleProbe ==
    breaker.state = "half" =>
        \A c, d \in Caller : Fetching(c) /\ Fetching(d) => c = d

\* The inductive invariant.
IInv == TypeOK /\ ReplyInv /\ BreakerInv /\ SingleProbe

-----------------------------------------------------------------------------
(* Typing.                                                                 *)

\* What a call is.
Call == [pc : {"idle", "lookup", "miss", "execute", "fetch", "swap", "again"},
         kid : 0..MaxKid, why : {"stale", "miss", "late"}, got : SUBSET Kid, counted : BOOLEAN]

\* A call at rest is a call.
LEMMA IdleIsCall == Idle \in Call
  BY VerifierAssumption DEF Idle, Call

\* A failed refresh leaves a call that holds no keys and is not counted.
LEMMA RefreshFailedCall ==
    ASSUME NEW w \in Call
    PROVE  LET u == RefreshFailed([w EXCEPT !.counted = FALSE])
           IN  u \in Call /\ u.pc \in {"idle", "lookup"} /\ ~u.counted
                          /\ u.got \subseteq w.got
  BY IdleIsCall DEF RefreshFailed, Call, Idle

\* Forgetting the admitted fetches changes nothing else about the calls.
LEMMA ForgetCalls ==
    ASSUME NEW calls \in [Caller -> Call]
    PROVE  /\ Forget(calls) \in [Caller -> Call]
           /\ \A c \in Caller : /\ ~Forget(calls)[c].counted
                                /\ Forget(calls)[c].pc = calls[c].pc
                                /\ Forget(calls)[c].got = calls[c].got
  BY DEF Forget, Call

\* The verifier starts in the invariant.
LEMMA InitIInv == Init => IInv
<1> SUFFICES ASSUME Init
             PROVE  IInv
  OBVIOUS
<1>1. TypeOK
  <2>1. call \in [Caller -> Call]
    BY IdleIsCall DEF Init
  <2>2. breaker \in [state : {"closed", "open", "half"}, fails : 0..(TripAfter - 1)]
    BY VerifierAssumption DEF Init, Closed
  <2>3. /\ current \in Kid /\ live \subseteq Kid /\ keys \subseteq Kid
        /\ trouble \in 0..MaxTrouble /\ misses \in Nat
    BY VerifierAssumption DEF Init, Kid
  <2>4. QED
    BY <2>1, <2>2, <2>3 DEF Init, TypeOK, Call
<1>2. ReplyInv /\ BreakerInv /\ SingleProbe
  BY DEF Init, ReplyInv, BreakerInv, SingleProbe, Fetching, Idle, Closed
<1>3. QED
  BY <1>1, <1>2 DEF IInv

-----------------------------------------------------------------------------
(* One lemma for each group of actions.                                    *)

\* The provider: a new key only adds to what may have been served.
LEMMA ProviderStep ==
    ASSUME IInv, RotateKey \/ GoDown \/ ComeUp \/ (\E k \in Kid : ExpireTokens(k))
    PROVE  IInv'
<1> USE VerifierAssumption DEF IInv, TypeOK, ReplyInv, BreakerInv, SingleProbe,
        Fetching, Kid, cache
<1>1. CASE RotateKey
  <2>1. TypeOK'
    BY <1>1 DEF RotateKey
  <2>2. ReplyInv'
    BY <1>1 DEF RotateKey
  <2>3. BreakerInv' /\ SingleProbe'
    BY <1>1 DEF RotateKey
  <2>4. QED
    BY <2>1, <2>2, <2>3
<1>2. CASE GoDown
  <2>1. trouble' \in 0..MaxTrouble
    BY <1>2 DEF GoDown
  <2>2. QED
    BY <1>2, <2>1 DEF GoDown
<1>3. CASE ComeUp
  BY <1>3 DEF ComeUp
<1>4. CASE \E k \in Kid : ExpireTokens(k)
  BY <1>4 DEF ExpireTokens
<1>5. QED
  BY <1>1, <1>2, <1>3, <1>4

\* Time: what becomes stale, cools down or times out.
LEMMA TimeStep ==
    ASSUME IInv, BecomeStale \/ CoolDown \/ BreakerTimeout
    PROVE  IInv'
<1> USE VerifierAssumption DEF IInv, TypeOK, ReplyInv, BreakerInv, SingleProbe,
        Fetching, provider, cache
<1>1. CASE BecomeStale
  BY <1>1 DEF BecomeStale
<1>2. CASE CoolDown
  <2>1. /\ UNCHANGED <<current, up, live, keys, stale, breaker, trouble>>
        /\ cooling' \in BOOLEAN /\ misses' \in Nat
    BY <1>2 DEF CoolDown
  <2>2. call \in [Caller -> Call]
    BY DEF Call
  <2>3. /\ call' \in [Caller -> Call]
        /\ \A c \in Caller : /\ call'[c].pc = call[c].pc /\ call'[c].got = call[c].got
                             /\ call'[c].counted = call[c].counted
    <3>1. call' = [c \in Caller |-> IF Cleared(c) THEN [call[c] EXCEPT !.why = "late"] ELSE call[c]]
      BY <1>2 DEF CoolDown
    <3> HIDE DEF IInv
    <3>2. ASSUME NEW w \in Call
          PROVE  LET u == [w EXCEPT !.why = "late"]
                 IN  u \in Call /\ u.pc = w.pc /\ u.got = w.got /\ u.counted = w.counted
      BY DEF Call
    <3>3. QED
      BY <2>2, <3>1, <3>2
  <2>4. TypeOK'
    BY <2>1, <2>3 DEF Call
  <2>5. ReplyInv' /\ BreakerInv' /\ SingleProbe'
    BY <2>1, <2>3
  <2>6. QED
    BY <2>4, <2>5
<1>3. CASE BreakerTimeout
  <2>1. call \in [Caller -> Call]
    BY DEF Call
  <2>2. breaker' = [state |-> "half", fails |-> 0] /\ call' = Forget(call)
    BY <1>3 DEF BreakerTimeout
  <2>3. QED
    BY <1>3, <2>1, <2>2, ForgetCalls DEF BreakerTimeout, Call
<1>4. QED
  BY <1>1, <1>2, <1>3

\* A call begins, looks a kid up or ends, and holds no reply.
LEMMA QuietCall ==
    ASSUME IInv, NEW c \in Caller, NEW w \in Call, call' = [call EXCEPT ![c] = w],
           w.pc \notin {"fetch", "swap"}, w.got \subseteq call[c].got, ~w.counted,
           cooling' \in BOOLEAN, misses' \in Nat,
           UNCHANGED <<current, up, live, keys, stale, breaker, trouble>>
    PROVE  IInv'
<1>1. call \in [Caller -> Call]
  BY DEF IInv, TypeOK, Call
<1>2. /\ call' \in [Caller -> Call] /\ call'[c] = w
      /\ \A d \in Caller \ {c} : call'[d] = call[d]
  BY <1>1
<1>3. TypeOK'
  BY <1>2 DEF IInv, TypeOK, Call
<1>4. ReplyInv'
  BY <1>2 DEF IInv, ReplyInv
<1>5. BreakerInv' /\ SingleProbe'
  BY <1>2 DEF IInv, BreakerInv, SingleProbe, Fetching
<1>6. QED
  BY <1>3, <1>4, <1>5 DEF IInv

\* The lookups, with and without a refetch.
LEMMA LookupStep ==
    ASSUME IInv, NEW c \in Caller, Present(c) \/ Reject(c) \/ KeyFor(c)
    PROVE  IInv'
<1>0. /\ call \in [Caller -> Call] /\ call[c] \in Call /\ misses \in Nat /\ cooling \in BOOLEAN
      /\ call[c].counted => call[c].pc = "fetch"
  BY DEF IInv, TypeOK, BreakerInv, Call
<1>1. UNCHANGED <<current, up, live, keys, stale, breaker, trouble>>
  BY DEF Present, Verify, Reject, KeyFor, LookupHit, LookupMiss, MissCooling, MissRefetch,
     LookupAgain, provider, cache
<1>2. cooling' \in BOOLEAN /\ misses' \in Nat
  BY <1>0 DEF Present, Verify, Reject, KeyFor, LookupHit, LookupMiss, MissCooling, MissRefetch,
     LookupAgain
<1>3. CASE Present(c)
  <2>1. PICK kid \in 0..MaxKid : Verify(c, kid)
    BY <1>3 DEF Present
  <2>2. PICK w : w = [Idle EXCEPT !.pc = IF stale THEN "execute" ELSE "lookup", !.kid = kid]
    OBVIOUS
  <2>3. w \in Call /\ w.pc \in {"execute", "lookup"} /\ w.got = {} /\ ~w.counted
    BY <2>2, IdleIsCall DEF Call, Idle
  <2>4. call' = [call EXCEPT ![c] = w]
    BY <2>1, <2>2 DEF Verify
  <2>5. QED
    BY <1>1, <1>2, <2>3, <2>4, QuietCall
<1>4. CASE Return(c)
  <2>1. call' = [call EXCEPT ![c] = Idle]
    BY <1>4 DEF Return
  <2>2. Idle.pc = "idle" /\ Idle.got = {} /\ ~Idle.counted
    BY DEF Idle
  <2>3. QED
    BY <1>1, <1>2, <2>1, <2>2, IdleIsCall, QuietCall
<1>5. CASE LookupMiss(c)
  <2>1. PICK w : w = [call[c] EXCEPT !.pc = "miss"]
    OBVIOUS
  <2>2. w \in Call /\ w.pc = "miss" /\ w.got = call[c].got /\ w.counted = call[c].counted
    BY <1>0, <2>1 DEF Call
  <2>3. call' = [call EXCEPT ![c] = w] /\ ~call[c].counted
    BY <1>0, <1>5, <2>1 DEF LookupMiss
  <2>4. QED
    BY <1>1, <1>2, <2>2, <2>3, QuietCall
<1>6. CASE MissRefetch(c)
  <2>1. PICK w : w = [call[c] EXCEPT !.pc = "execute", !.why = "miss"]
    OBVIOUS
  <2>2. w \in Call /\ w.pc = "execute" /\ w.got = call[c].got /\ w.counted = call[c].counted
    BY <1>0, <2>1 DEF Call
  <2>3. call' = [call EXCEPT ![c] = w] /\ ~call[c].counted
    BY <1>0, <1>6, <2>1 DEF MissRefetch
  <2>4. QED
    BY <1>1, <1>2, <2>2, <2>3, QuietCall
<1>7. QED
  BY <1>3, <1>4, <1>5, <1>6 DEF Reject, KeyFor, LookupHit, MissCooling, LookupAgain

\* The breaker admits a fetch or refuses it.
LEMMA ExecuteStep ==
    ASSUME IInv, NEW c \in Caller, Execute(c)
    PROVE  IInv'
<1> USE VerifierAssumption DEF IInv, TypeOK, ReplyInv, BreakerInv, SingleProbe,
        Fetching, Idle, Execute, provider, cache
<1>1. CASE Admits
  <2> DEFINE next == [call[c] EXCEPT !.pc = "fetch", !.counted = TRUE]
  <2>1. call' = [call EXCEPT ![c] = next] /\ call \in [Caller -> Call]
    BY <1>1 DEF Call
  <2>2. /\ UNCHANGED <<provider, cache, cooling>> /\ UNCHANGED <<breaker, trouble>>
        /\ misses' \in Nat
    OBVIOUS
  <2>3. next \in Call /\ next.pc = "fetch" /\ next.got = call[c].got /\ next.counted
    <3> HIDE DEF IInv, Execute
    <3>1. call[c] \in Call
      BY <2>1
    <3>2. QED
      BY <3>1 DEF Call
  <2> HIDE DEF next
  <2>4. /\ call' \in [Caller -> Call] /\ call'[c] = next
        /\ \A d \in Caller \ {c} : call'[d] = call[d]
    BY <2>1, <2>3
  <2>5. TypeOK'
    BY <2>2, <2>4 DEF Call
  <2>6. ReplyInv'
    BY <2>2, <2>3, <2>4
  <2>7. BreakerInv' /\ SingleProbe'
    BY <1>1, <2>2, <2>3, <2>4 DEF Admits, Probing
  <2>8. QED
    BY <2>5, <2>6, <2>7
<1>2. CASE ~Admits
  BY <1>2 DEF RefreshFailed
<1>3. QED
  BY <1>1, <1>2

\* A reply: the call takes the key served now to its swap.
LEMMA FetchSucceedsStep ==
    ASSUME IInv, NEW c \in Caller, FetchSucceeds(c)
    PROVE  IInv'
<1> DEFINE done == [call EXCEPT ![c].pc = "swap", ![c].got = Served, ![c].counted = FALSE]
<1> USE VerifierAssumption DEF IInv, TypeOK, ReplyInv, BreakerInv, SingleProbe,
        Fetching, Kid, provider, cache
<1>1. call \in [Caller -> Call]
  BY DEF Call
<1>2. /\ done \in [Caller -> Call]
      /\ done[c].pc = "swap" /\ done[c].got = {current} /\ ~done[c].counted
      /\ \A d \in Caller \ {c} : done[d] = call[d]
  <2>1. Served = {current} /\ Served \in SUBSET Kid
    BY DEF Served
  <2>2. call[c] \in Call
    BY <1>1
  <2> DEFINE next == [call[c] EXCEPT !.pc = "swap", !.got = Served, !.counted = FALSE]
  <2> HIDE DEF IInv, Kid
  <2>3. next \in Call /\ next.pc = "swap" /\ next.got = Served /\ ~next.counted
    BY <2>1, <2>2 DEF Call
  <2>4. done = [call EXCEPT ![c] = next]
    OBVIOUS
  <2> HIDE DEF next, done
  <2>5. QED
    BY <1>1, <2>1, <2>3, <2>4
<1>0. UNCHANGED <<provider, cache, cooling, trouble, misses>> /\ current \in Nat
  BY DEF FetchSucceeds
<1> HIDE DEF Kid
<1>3. CASE call[c].counted /\ breaker.state = "half"
  <2>1. call' = Forget(done) /\ breaker' = Closed
    BY <1>3 DEF FetchSucceeds
  <2> HIDE DEF done
  <2>2. /\ call' \in [Caller -> Call]
        /\ \A d \in Caller : /\ ~call'[d].counted
                             /\ call'[d].pc = done[d].pc /\ call'[d].got = done[d].got
    BY <2>1, <1>2, ForgetCalls
  <2>3. ReplyInv'
    <3>1. call'[c].got = {current} /\ \A d \in Caller \ {c} : call'[d].got = call[d].got
                                  /\ call'[d].pc = call[d].pc
      BY <1>2, <2>2
    <3>2. UNCHANGED <<current, keys>>
      BY <1>0
    <3> HIDE DEF TypeOK, BreakerInv, SingleProbe
    <3>3. QED
      BY <1>0, <3>1, <3>2
  <2>4. BreakerInv' /\ SingleProbe'
    BY <2>1, <2>2 DEF Closed
  <2>5. TypeOK'
    <3>1. breaker' \in [state : {"closed", "open", "half"}, fails : 0..(TripAfter - 1)]
      BY <2>1 DEF Closed
    <3>2. QED
      BY <1>0, <2>2, <3>1 DEF Call
  <2>6. QED
    BY <1>0, <2>3, <2>4, <2>5
<1>4. CASE ~(call[c].counted /\ breaker.state = "half")
  <2>1. call' = done /\ breaker' = IF call[c].counted THEN Closed ELSE breaker
    BY <1>4 DEF FetchSucceeds
  <2> HIDE DEF done
  <2>2. ReplyInv'
    <3>1. call'[c].got = {current} /\ \A d \in Caller \ {c} : call'[d] = call[d]
      BY <1>2, <2>1
    <3>2. UNCHANGED <<current, keys>>
      BY <1>0
    <3> HIDE DEF TypeOK, BreakerInv, SingleProbe
    <3>3. QED
      BY <1>0, <3>1, <3>2
  <2>3. BreakerInv' /\ SingleProbe'
    BY <1>2, <2>1 DEF Closed
  <2>4. TypeOK'
    <3>1. breaker' \in [state : {"closed", "open", "half"}, fails : 0..(TripAfter - 1)]
      BY <2>1 DEF Closed
    <3>2. QED
      BY <1>0, <1>2, <2>1, <3>1 DEF Call
  <2>5. QED
    BY <1>0, <2>2, <2>3, <2>4
<1>5. QED
  BY <1>3, <1>4

\* A failed fetch: the cache is untouched, the breaker counts or opens.
LEMMA FailStep ==
    ASSUME IInv, NEW c \in Caller, call[c].pc = "fetch", Fail(c),
           trouble' \in 0..MaxTrouble, UNCHANGED <<provider, cooling, misses>>
    PROVE  IInv'
<1> DEFINE done == [call EXCEPT ![c] = RefreshFailed([@ EXCEPT !.counted = FALSE])]
           trips == call[c].counted /\ Trips(breaker)
<1> USE VerifierAssumption DEF IInv, TypeOK, ReplyInv, BreakerInv, SingleProbe,
        Fetching, Kid, provider, cache, KeepCache
<1>1. call \in [Caller -> Call]
  BY DEF Call
<1>2. /\ done \in [Caller -> Call]
      /\ done[c].pc \in {"idle", "lookup"} /\ ~done[c].counted
      /\ done[c].got \subseteq call[c].got
      /\ \A d \in Caller \ {c} : done[d] = call[d]
  BY <1>1, RefreshFailedCall
<1>0. UNCHANGED <<keys, stale>>
  BY DEF Fail
<1> HIDE DEF Kid
<1>3. CASE trips
  <2>1. call' = Forget(done) /\ breaker' = Open
    BY <1>3 DEF Fail
  <2> HIDE DEF done
  <2>2. /\ call' \in [Caller -> Call]
        /\ \A d \in Caller : /\ ~call'[d].counted
                             /\ call'[d].pc = done[d].pc /\ call'[d].got = done[d].got
    BY <2>1, <1>2, ForgetCalls
  <2>3. ReplyInv'
    BY <1>0, <1>2, <2>2
  <2>4. BreakerInv' /\ SingleProbe'
    BY <2>1, <2>2 DEF Open
  <2>5. TypeOK'
    <3>1. breaker' \in [state : {"closed", "open", "half"}, fails : 0..(TripAfter - 1)]
      BY <2>1 DEF Open
    <3>2. QED
      BY <1>0, <2>2, <3>1 DEF Call
  <2>6. QED
    BY <2>3, <2>4, <2>5
<1>4. CASE ~trips
  <2>1. call' = done
    BY <1>4 DEF Fail
  <2>2. breaker' = IF call[c].counted THEN [breaker EXCEPT !.fails = @ + 1] ELSE breaker
    BY <1>4 DEF Fail
  <2>3. call[c].counted => breaker.state = "closed" /\ breaker.fails + 1 < TripAfter
    BY <1>4 DEF Trips
  <2> HIDE DEF done
  <2>4. /\ breaker' \in [state : {"closed", "open", "half"}, fails : 0..(TripAfter - 1)]
        /\ breaker'.state = breaker.state
        /\ breaker.state # "closed" => breaker'.fails = 0
    BY <2>2, <2>3
  <2>5. ReplyInv'
    BY <1>0, <1>2, <2>1
  <2>6. BreakerInv' /\ SingleProbe'
    BY <1>2, <2>1, <2>4
  <2>7. TypeOK'
    BY <1>0, <1>2, <2>1, <2>4 DEF Call
  <2>8. QED
    BY <2>5, <2>6, <2>7
<1>5. QED
  BY <1>3, <1>4

\* The cache becomes what the call fetched.
LEMMA SwapStep ==
    ASSUME IInv, NEW c \in Caller, Swap(c)
    PROVE  IInv'
  BY VerifierAssumption
     DEF IInv, TypeOK, ReplyInv, BreakerInv, SingleProbe, Fetching, provider,
         Swap, Swapped

-----------------------------------------------------------------------------

\* Every step of the verifier and its surroundings preserves the invariant.
LEMMA NextIInv == IInv /\ [Next]_vars => IInv'
<1> SUFFICES ASSUME IInv, [Next]_vars
             PROVE  IInv'
  OBVIOUS
<1>1. CASE RotateKey \/ GoDown \/ ComeUp \/ (\E k \in Kid : ExpireTokens(k))
  BY <1>1, ProviderStep
<1>2. CASE BecomeStale \/ CoolDown \/ BreakerTimeout
  BY <1>2, TimeStep
<1>3. ASSUME NEW c \in Caller, Present(c) \/ Step(c) \/ FetchCancelled(c)
      PROVE  IInv'
  <2>1. CASE Present(c) \/ Reject(c) \/ KeyFor(c)
    BY <2>1, LookupStep
  <2>2. CASE Execute(c)
    BY <2>2, ExecuteStep
  <2>3. CASE FetchSucceeds(c)
    BY <2>3, FetchSucceedsStep
  <2>4. CASE FetchFails(c)
    <3>1. trouble' \in 0..MaxTrouble
      BY <2>4 DEF FetchFails, IInv, TypeOK
    <3>2. QED
      BY <2>4, <3>1, FailStep DEF FetchFails
  <2>5. CASE FetchCancelled(c)
    <3>1. trouble' \in 0..MaxTrouble
      BY <2>5, VerifierAssumption DEF FetchCancelled, IInv, TypeOK
    <3>2. QED
      BY <2>5, <3>1, FailStep DEF FetchCancelled
  <2>6. CASE Swap(c)
    BY <2>6, SwapStep
  <2>7. QED
    BY <1>3, <2>1, <2>2, <2>3, <2>4, <2>5, <2>6 DEF Step, Fetch
<1>4. CASE UNCHANGED vars
  BY <1>4 DEF vars, IInv, TypeOK, ReplyInv, BreakerInv, SingleProbe, Fetching
<1>5. QED
  BY <1>1, <1>2, <1>3, <1>4 DEF Next

\* The invariant holds of every behaviour of the verifier.
THEOREM Invariance == Spec => []IInv
  BY InitIInv, NextIInv, PTL DEF Spec

\* Every variable keeps its type; the breaker's count of failures never
\* reaches the threshold without opening it.
THEOREM TypeCorrect == Spec => []TypeOK
<1>1. IInv => TypeOK
  BY DEF IInv
<1>2. QED
  BY <1>1, Invariance, PTL

-----------------------------------------------------------------------------
(* The cooldown.  Two calls that missed the same kid both come to the write *)
(* lock; the one that has it first starts the cooldown the other one meets. *)

\* At most one of the calls that this cooldown let through has yet to reach
\* the breaker, and then none of them has sent a request.
CooldownInv ==
    /\ misses <= 1
    /\ ~cooling => misses = 0 /\ \A c \in Caller : ~Cleared(c)
    /\ \A c \in Caller : Cleared(c) => misses = 0
    /\ \A c, d \in Caller : Cleared(c) /\ Cleared(d) => c = d

\* A step that lets no call through and sends no request.
LEMMA CooldownKept ==
    ASSUME CooldownInv, UNCHANGED <<cooling, misses>>,
           \A d \in Caller : Cleared(d)' => Cleared(d)
    PROVE  CooldownInv'
  BY DEF CooldownInv

\* A call gets to another place than the one before the breaker.
LEMMA NotCleared ==
    ASSUME IInv, CooldownInv, NEW c \in Caller, UNCHANGED <<cooling, misses>>,
           \A d \in Caller \ {c} : call'[d] = call[d],
           call'[c].pc # "execute" \/ call'[c].why = "stale"
    PROVE  CooldownInv'
<1>1. \A d \in Caller : Cleared(d)' => Cleared(d)
  BY DEF Cleared
<1>2. QED
  BY <1>1, CooldownKept

\* The write lock: within the cooldown the call is rejected, otherwise it is
\* the one that this cooldown lets through.
LEMMA KeyForCooldown ==
    ASSUME IInv, CooldownInv, NEW c \in Caller, Present(c) \/ Reject(c) \/ KeyFor(c)
    PROVE  CooldownInv'
<1>0. call \in [Caller -> Call] /\ misses \in Nat
  BY DEF IInv, TypeOK, Call
<1>1. CASE Present(c)
  <2>1. PICK kid \in 0..MaxKid : Verify(c, kid)
    BY <1>1 DEF Present
  <2>2. PICK w : w = [Idle EXCEPT !.pc = IF stale THEN "execute" ELSE "lookup", !.kid = kid]
    OBVIOUS
  <2>3. w.why = "stale"
    BY <2>2 DEF Idle
  <2>4. call' = [call EXCEPT ![c] = w] /\ UNCHANGED <<cooling, misses>>
    BY <2>1, <2>2 DEF Verify
  <2>5. QED
    BY <1>0, <2>3, <2>4, NotCleared
<1>2. CASE Return(c) /\ UNCHANGED <<cooling, misses>>
  <2>1. call'[c] = Idle /\ \A d \in Caller \ {c} : call'[d] = call[d]
    BY <1>0, <1>2 DEF Return
  <2>2. call'[c].pc # "execute"
    BY <2>1 DEF Idle
  <2>3. QED
    BY <1>2, <2>1, <2>2, NotCleared
<1>3. CASE LookupMiss(c)
  <2>1. call'[c].pc = "miss" /\ \A d \in Caller \ {c} : call'[d] = call[d]
    BY <1>0, <1>3 DEF LookupMiss, Call
  <2>2. UNCHANGED <<cooling, misses>>
    BY <1>3 DEF LookupMiss
  <2>3. QED
    BY <2>1, <2>2, NotCleared
<1>4. CASE MissRefetch(c)
  <2>1. \A d \in Caller \ {c} : call'[d] = call[d]
    BY <1>0, <1>4 DEF MissRefetch
  <2>2. ~cooling /\ cooling' /\ misses' = misses
    BY <1>4 DEF MissRefetch
  <2>3. \A d \in Caller \ {c} : ~Cleared(d)'
    BY <2>1, <2>2 DEF Cleared, CooldownInv
  <2>4. QED
    BY <2>2, <2>3 DEF CooldownInv
<1>5. QED
  BY <1>1, <1>2, <1>3, <1>4 DEF Reject, KeyFor, LookupHit, MissCooling, LookupAgain

\* The breaker: the request of the one call that was let through is sent, or
\* refused.
LEMMA ExecuteCooldown ==
    ASSUME IInv, CooldownInv, NEW c \in Caller, Execute(c)
    PROVE  CooldownInv'
<1>0. call \in [Caller -> Call] /\ call[c] \in Call /\ misses \in Nat
  BY DEF IInv, TypeOK, Call
<1>1. PICK w : w = IF Admits THEN [call[c] EXCEPT !.pc = "fetch", !.counted = TRUE]
                   ELSE RefreshFailed(call[c])
  OBVIOUS
<1>2. w.pc # "execute"
  BY <1>0, <1>1 DEF Call, RefreshFailed, Idle
<1>3. call' = [call EXCEPT ![c] = w] /\ call[c].pc = "execute" /\ UNCHANGED cooling
  BY <1>1 DEF Execute
<1>4. ~Cleared(c)' /\ \A d \in Caller \ {c} : Cleared(d)' => Cleared(d)
  BY <1>0, <1>2, <1>3 DEF Cleared
<1>5. CASE misses' = misses
  BY <1>3, <1>4, <1>5, CooldownKept
<1>6. CASE misses' # misses
  <2>1. misses' = misses + 1 /\ Cleared(c)
    BY <1>3, <1>6 DEF Execute, Cleared
  <2>2. misses' = 1 /\ cooling
    BY <2>1 DEF CooldownInv
  <2>3. \A d \in Caller : ~Cleared(d)'
    BY <1>4, <2>1 DEF CooldownInv
  <2>4. QED
    BY <1>3, <2>2, <2>3 DEF CooldownInv
<1>7. QED
  BY <1>5, <1>6

\* The cooldown ends: what it let through is late from now on.
LEMMA EndCooldown ==
    ASSUME IInv, CooldownInv, CoolDown
    PROVE  CooldownInv'
<1>1. call \in [Caller -> Call] /\ misses' = 0
  BY DEF IInv, TypeOK, Call, CoolDown
<1>2. \A c \in Caller : ~Cleared(c)'
  <2>1. ASSUME NEW w \in Call
        PROVE  [w EXCEPT !.why = "late"].why = "late"
    BY DEF Call
  <2>2. \A c \in Caller : call'[c] = IF Cleared(c) THEN [call[c] EXCEPT !.why = "late"] ELSE call[c]
    BY DEF CoolDown
  <2>3. QED
    BY <1>1, <2>1, <2>2 DEF Cleared
<1>3. QED
  BY <1>1, <1>2 DEF CooldownInv

\* The rest of a fetch: no call gets back to the place before the breaker.
LEMMA FetchCooldown ==
    ASSUME IInv, CooldownInv, NEW c \in Caller,
           Fetch(c) \/ FetchCancelled(c) \/ Swap(c)
    PROVE  CooldownInv'
<1>0. call \in [Caller -> Call] /\ call[c] \in Call
  BY DEF IInv, TypeOK, Call
<1>1. UNCHANGED <<cooling, misses>>
  BY DEF Fetch, FetchSucceeds, FetchFails, FetchCancelled, Swap
<1>2. PICK w \in Call : /\ w.pc # "execute"
                        /\ \/ call' = [call EXCEPT ![c] = w]
                           \/ call' = Forget([call EXCEPT ![c] = w])
  <2>1. CASE FetchSucceeds(c)
    <3>1. PICK w : w = [call[c] EXCEPT !.pc = "swap", !.got = Served, !.counted = FALSE]
      OBVIOUS
    <3>2. w \in Call /\ w.pc = "swap"
      <4>1. Served \in SUBSET Kid
        BY DEF Served, IInv, TypeOK
      <4>2. QED
        BY <1>0, <3>1, <4>1 DEF Call
    <3>3. call' = [call EXCEPT ![c] = w] \/ call' = Forget([call EXCEPT ![c] = w])
      BY <2>1, <3>1 DEF FetchSucceeds
    <3>4. QED
      BY <3>2, <3>3
  <2>2. CASE Fail(c)
    <3>1. PICK w : w = RefreshFailed([call[c] EXCEPT !.counted = FALSE])
      OBVIOUS
    <3>2. w \in Call /\ w.pc \in {"idle", "lookup"}
      BY <1>0, <3>1, RefreshFailedCall
    <3>3. call' = [call EXCEPT ![c] = w] \/ call' = Forget([call EXCEPT ![c] = w])
      BY <2>2, <3>1 DEF Fail
    <3>4. QED
      BY <3>2, <3>3
  <2>3. CASE Swap(c)
    <3>1. PICK w : w = [call[c] EXCEPT !.pc = IF call[c].why = "stale" THEN "lookup" ELSE "again",
                                       !.got = {}]
      OBVIOUS
    <3>2. w \in Call /\ w.pc \in {"lookup", "again"}
      BY <1>0, <3>1 DEF Call
    <3>3. call' = [call EXCEPT ![c] = w]
      BY <2>3, <3>1 DEF Swap
    <3>4. QED
      BY <3>2, <3>3
  <2>4. QED
    BY <2>1, <2>2, <2>3 DEF Fetch, FetchFails, FetchCancelled
<1>3. PICK calls \in [Caller -> Call] :
         /\ calls[c] = w /\ \A d \in Caller \ {c} : calls[d] = call[d]
         /\ call' = calls \/ call' = Forget(calls)
  BY <1>0, <1>2
<1>4. \A d \in Caller : call'[d].pc = calls[d].pc /\ call'[d].why = calls[d].why
  <2>1. \A d \in Caller : Forget(calls)[d].pc = calls[d].pc /\ Forget(calls)[d].why = calls[d].why
    BY <1>3 DEF Forget, Call
  <2>2. QED
    BY <1>3, <2>1
<1>5. \A d \in Caller : Cleared(d)' => Cleared(d)
  BY <1>2, <1>3, <1>4 DEF Cleared
<1>6. QED
  BY <1>1, <1>5, CooldownKept

\* Every step preserves the invariant of the cooldown.
LEMMA NextCooldownInv == IInv /\ CooldownInv /\ [Next]_vars => CooldownInv'
<1> SUFFICES ASSUME IInv, CooldownInv, [Next]_vars
             PROVE  CooldownInv'
  OBVIOUS
<1>1. CASE \/ RotateKey \/ GoDown \/ ComeUp \/ (\E k \in Kid : ExpireTokens(k)) \/ BecomeStale
           \/ UNCHANGED vars
  <2>1. UNCHANGED <<call, cooling, misses>>
    BY <1>1 DEF RotateKey, GoDown, ComeUp, ExpireTokens, BecomeStale, vars
  <2>2. QED
    BY <2>1, CooldownKept DEF Cleared
<1>2. CASE BreakerTimeout
  <2>1. call \in [Caller -> Call] /\ call' = Forget(call) /\ UNCHANGED <<cooling, misses>>
    BY <1>2 DEF BreakerTimeout, IInv, TypeOK, Call
  <2>2. \A d \in Caller : Forget(call)[d].pc = call[d].pc /\ Forget(call)[d].why = call[d].why
    BY <2>1 DEF Forget, Call
  <2>3. QED
    BY <2>1, <2>2, CooldownKept DEF Cleared
<1>3. CASE CoolDown
  BY <1>3, EndCooldown
<1>4. ASSUME NEW c \in Caller, Present(c) \/ Step(c) \/ FetchCancelled(c)
      PROVE  CooldownInv'
  BY <1>4, KeyForCooldown, ExecuteCooldown, FetchCooldown DEF Step
<1>5. QED
  BY <1>1, <1>2, <1>3, <1>4 DEF Next

\* keyFor sends the provider one refetch per cooldown, for any number of calls
\* that have missed a kid when the first of them has the write lock.
THEOREM RefetchLimit == Spec => []OneRefetchPerCooldown
<1>1. Init => CooldownInv
  BY DEF Init, CooldownInv, Cleared, Idle
<1>2. CooldownInv => OneRefetchPerCooldown
  BY DEF CooldownInv, OneRefetchPerCooldown
<1>3. QED
  BY <1>1, <1>2, NextCooldownInv, Invariance, PTL DEF Spec

-----------------------------------------------------------------------------
(* The breaker and the cache.                                              *)

\* A half-open breaker sends the provider one probe at a time.
THEOREM ProbeIsSingle == Spec => []SingleProbe
<1>1. IInv => SingleProbe
  BY DEF IInv
<1>2. QED
  BY <1>1, Invariance, PTL

\* Once the verifier has keys no step leaves it without: refresh replaces the
\* cache by a reply with a key or not at all.
THEOREM KeysAreKept == Spec => NeverWithoutKeys
<1>1. ASSUME IInv, [Next]_vars, keys # {}
      PROVE  keys' # {}
  <2>1. CASE \E c \in Caller : Swap(c)
    BY <1>1, <2>1 DEF Swap, Swapped, IInv, ReplyInv
  <2>2. CASE UNCHANGED keys
    BY <1>1, <2>2
  <2>3. (\E c \in Caller : Swap(c)) \/ UNCHANGED keys
    BY <1>1 DEF Next, vars, cache, RotateKey, GoDown, ComeUp, ExpireTokens, Present, Verify,
       Step, Reject, KeyFor, LookupHit, LookupMiss, MissCooling, MissRefetch, LookupAgain, Execute,
       Fetch, FetchSucceeds, FetchFails, FetchCancelled, Fail, KeepCache, BecomeStale, CoolDown,
       BreakerTimeout
  <2>4. QED
    BY <2>1, <2>2, <2>3
<1>2. IInv /\ [Next]_vars => [keys # {} => keys' # {}]_vars
  BY <1>1
<1>3. QED
  BY <1>2, Invariance, PTL DEF Spec, NeverWithoutKeys
=============================================================================

---------------------------- MODULE JwksVerifier ----------------------------
(***************************************************************************)
(* Access-token verification with a cached JWKS: pkg/jwks/verifier.go, the *)
(* identity provider's JWKS endpoint in front of it                        *)
(* (services/identity/internal/token, .../delivery/http/handler.go) and    *)
(* the gobreaker circuit breaker around the fetch.                         *)
(*                                                                         *)
(* The signing keys of the provider are numbered in the order it uses      *)
(* them; a token is told apart by the kid that signed it, 0 being a kid    *)
(* nobody ever had.  Every critical section of the verifier's mutex and of *)
(* the breaker's is a step, and so is the HTTP exchange; any number of     *)
(* Verify calls run at once.  Durations are not modelled: what becomes     *)
(* stale, cools down or times out does so at any moment.                   *)
(***************************************************************************)
EXTENDS Naturals

CONSTANTS
    Caller,      \* concurrent Verify calls
    TripAfter,   \* consecutive failures that open the breaker (6)
    MaxKid,      \* bound: signing keys used
    MaxTrouble   \* bound: outages of the provider and cancelled requests

ASSUME VerifierAssumption ==
    TripAfter \in Nat \ {0} /\ MaxKid \in Nat \ {0} /\ MaxTrouble \in Nat

VARIABLES
    current,    \* the key the provider signs with
    up,         \* the provider answers
    live,       \* keys with tokens that have not expired
    keys,       \* Verifier.keys: the cached kids
    stale,      \* Verifier.fetchedAt is longer ago than CacheTTL
    cooling,    \* Verifier.lastMissRefresh is less than RefreshCooldown ago
    breaker,    \* the circuit breaker: its state and consecutive failures
    call,       \* the Verify calls in progress
    trouble,    \* outages and cancellations so far
    misses      \* history: fetches for an unknown kid by the calls that this
                \* cooldown let through

vars == <<current, up, live, keys, stale, cooling, breaker, call, trouble, misses>>

Kid == 1..MaxKid

\* A call: where it is, the kid of its token, why it fetches, what it got,
\* and whether the breaker still is in the state that admitted its fetch.
\* History: "late" is a miss that waited until its cooldown was over.
Idle == [pc |-> "idle", kid |-> 0, why |-> "stale", got |-> {}, counted |-> FALSE]

TypeOK ==
    /\ current \in Kid /\ up \in BOOLEAN /\ live \subseteq Kid
    /\ keys \subseteq Kid /\ stale \in BOOLEAN /\ cooling \in BOOLEAN
    /\ breaker \in [state : {"closed", "open", "half"}, fails : 0..(TripAfter - 1)]
    /\ call \in [Caller -> [pc : {"idle", "lookup", "miss", "execute", "fetch", "swap", "again"},
                            kid : 0..MaxKid, why : {"stale", "miss", "late"},
                            got : SUBSET Kid, counted : BOOLEAN]]
    /\ trouble \in 0..MaxTrouble
    /\ misses \in Nat

Closed == [state |-> "closed", fails |-> 0]
Open == [state |-> "open", fails |-> 0]

Init ==
    /\ current = 1 /\ up = TRUE /\ live = {1}
    /\ keys = {} /\ stale = TRUE /\ cooling = FALSE
    /\ breaker = Closed
    /\ call = [c \in Caller |-> Idle]
    /\ trouble = 0
    /\ misses = 0

provider == <<current, up, live>>
cache == <<keys, stale>>

Return(c) == call' = [call EXCEPT ![c] = Idle]

-----------------------------------------------------------------------------
(* The provider.                                                           *)

\* NewHandler passes the one signing key on to JWKSHandler.
Served == {current}

\* The provider is restarted with another key: LoadOrGenerateKey finds a new
\* file, or none.
RotateKey ==
    /\ current < MaxKid
    /\ current' = current + 1
    /\ live' = live \cup {current + 1}
    /\ UNCHANGED <<up, cache, cooling, breaker, call, trouble, misses>>

\* The tokens of a former key have all expired.
ExpireTokens(k) ==
    /\ k \in live \ {current}
    /\ live' = live \ {k}
    /\ UNCHANGED <<current, up, cache, cooling, breaker, call, trouble, misses>>

GoDown ==
    /\ up /\ trouble < MaxTrouble
    /\ up' = FALSE
    /\ trouble' = trouble + 1
    /\ UNCHANGED <<current, live, cache, cooling, breaker, call, misses>>

ComeUp ==
    /\ ~up
    /\ up' = TRUE
    /\ UNCHANGED <<current, live, cache, cooling, breaker, call, trouble, misses>>

-----------------------------------------------------------------------------
(* Verify and keyFor.                                                      *)

\* refreshIfStale reads the age of the cache: a stale one is refreshed first.
Verify(c, kid) ==
    /\ call[c] = Idle
    /\ call' = [call EXCEPT ![c] = [Idle EXCEPT !.pc = IF stale THEN "execute" ELSE "lookup",
                                                !.kid = kid]]
    /\ UNCHANGED <<provider, cache, cooling, breaker, trouble, misses>>

\* A token without a kid, or with another algorithm, is rejected unseen.
Reject(c) ==
    /\ call[c].pc = "lookup"
    /\ call[c].kid = 0
    /\ Return(c)
    /\ UNCHANGED <<provider, cache, cooling, breaker, trouble, misses>>

\* keyFor, under the read lock: the cached key is used, stale or not.
LookupHit(c) ==
    /\ call[c].pc = "lookup"
    /\ call[c].kid \in keys
    /\ Return(c)
    /\ UNCHANGED <<provider, cache, cooling, breaker, trouble, misses>>

\* keyFor, under the read lock: no such kid.  The lock is given up; the cache
\* and the cooldown may change before the call has the write lock.
LookupMiss(c) ==
    /\ call[c].pc = "lookup"
    /\ call[c].kid \notin keys
    /\ call' = [call EXCEPT ![c].pc = "miss"]
    /\ UNCHANGED <<provider, cache, cooling, breaker, trouble, misses>>

\* keyFor, under the write lock: within the cooldown the token is rejected,
\* without another look at the cache.
MissCooling(c) ==
    /\ call[c].pc = "miss"
    /\ cooling
    /\ Return(c)
    /\ UNCHANGED <<provider, cache, cooling, breaker, trouble, misses>>

\* keyFor, under the write lock: otherwise the cooldown starts and the call
\* goes on to refetch.
MissRefetch(c) ==
    /\ call[c].pc = "miss"
    /\ ~cooling
    /\ cooling' = TRUE
    /\ call' = [call EXCEPT ![c].pc = "execute", ![c].why = "miss"]
    /\ UNCHANGED <<provider, cache, breaker, trouble, misses>>

\* keyFor: the lookup after a refetch accepts or rejects the token.
LookupAgain(c) ==
    /\ call[c].pc = "again"
    /\ Return(c)
    /\ UNCHANGED <<provider, cache, cooling, breaker, trouble, misses>>

\* Mutant: the cooldown is looked at together with the cache, and not again
\* under the write lock that starts it.
KeyFor_CheckedTooEarly(c) ==
    \/ LookupHit(c)
    \/ LookupMiss(c) /\ ~cooling
    \/ /\ call[c].pc = "lookup" /\ call[c].kid \notin keys /\ cooling
       /\ Return(c)
       /\ UNCHANGED <<provider, cache, cooling, breaker, trouble, misses>>
    \/ /\ call[c].pc = "miss"
       /\ cooling' = TRUE
       /\ call' = [call EXCEPT ![c].pc = "execute", ![c].why = "miss"]
       /\ UNCHANGED <<provider, cache, breaker, trouble, misses>>
    \/ LookupAgain(c)

\* keyFor, its critical sections in their order.
KeyFor(c) ==
    LookupHit(c) \/ LookupMiss(c) \/ MissCooling(c) \/ MissRefetch(c) \/ LookupAgain(c)

-----------------------------------------------------------------------------
(* refresh, through the breaker.                                           *)

\* A failed refresh: Verify goes on with the cache it has, keyFor gives up.
RefreshFailed(w) == IF w.why = "stale" THEN [w EXCEPT !.pc = "lookup"] ELSE Idle

\* A probe of the half-open breaker is under way.
Probing == \E c \in Caller : call[c].pc = "fetch" /\ call[c].counted

\* gobreaker: a closed breaker admits every fetch, a half-open one a single
\* probe.
Admits == breaker.state = "closed" \/ (breaker.state = "half" /\ ~Probing)

\* breaker.Execute, before the fetch.
Execute(c) ==
    /\ call[c].pc = "execute"
    /\ call' = [call EXCEPT ![c] = IF Admits THEN [@ EXCEPT !.pc = "fetch", !.counted = TRUE]
                                   ELSE RefreshFailed(@)]
    /\ misses' = IF Admits /\ call[c].why = "miss" THEN misses + 1 ELSE misses
    /\ UNCHANGED <<provider, cache, cooling, breaker, trouble>>

\* A new state of the breaker forgets the fetches admitted before.
Forget(calls) == [c \in Caller |-> [calls[c] EXCEPT !.counted = FALSE]]

\* breaker.Execute, after a fetch that succeeded: what the provider serves at
\* this moment is the reply.
FetchSucceeds(c) ==
    LET done == [call EXCEPT ![c].pc = "swap", ![c].got = Served, ![c].counted = FALSE]
        counts == call[c].counted
    IN  /\ call[c].pc = "fetch"
        /\ up
        /\ breaker' = IF counts THEN Closed ELSE breaker
        /\ call' = IF counts /\ breaker.state = "half" THEN Forget(done) ELSE done
        /\ UNCHANGED <<provider, cache, cooling, trouble, misses>>

\* Mutant: the reply is stored before its error is looked at.
KeepCache_Cleared == keys' = {} /\ UNCHANGED stale

\* What a failed fetch does to the cache: nothing.
KeepCache == UNCHANGED <<keys, stale>>

\* Mutant: one failure more than configured.
Trips_OffByOne(b) == b.state = "half" \/ b.fails = TripAfter

\* gobreaker: the failure at hand opens breaker b.
Trips(b) == b.state = "half" \/ b.fails + 1 = TripAfter

\* breaker.Execute, after a fetch that failed: too many in a row, or a failed
\* probe, open the breaker.
Fail(c) ==
    LET done == [call EXCEPT ![c] = RefreshFailed([@ EXCEPT !.counted = FALSE])]
        counts == call[c].counted
        trips == counts /\ Trips(breaker)
    IN  /\ breaker' = IF trips THEN Open
                      ELSE IF counts THEN [breaker EXCEPT !.fails = @ + 1] ELSE breaker
        /\ call' = IF trips THEN Forget(done) ELSE done
        /\ KeepCache

\* The provider is down, or answers with an error or without a usable key.
FetchFails(c) ==
    /\ call[c].pc = "fetch"
    /\ ~up
    /\ Fail(c)
    /\ UNCHANGED <<provider, cooling, trouble, misses>>

\* The fetch runs under the request's context: a client that goes away fails
\* it, with the provider up.
FetchCancelled(c) ==
    /\ call[c].pc = "fetch"
    /\ trouble < MaxTrouble
    /\ trouble' = trouble + 1
    /\ Fail(c)
    /\ UNCHANGED <<provider, cooling, misses>>

\* Mutant: the cache is filled once.
Swapped_Once(c) == keys' = (IF keys = {} THEN call[c].got ELSE keys) /\ stale' = FALSE

\* The cache becomes what this call fetched, even if another call has stored
\* a newer reply by now.
Swapped(c) == keys' = call[c].got /\ stale' = FALSE

Swap(c) ==
    /\ call[c].pc = "swap"
    /\ Swapped(c)
    /\ call' = [call EXCEPT ![c].pc = IF call[c].why = "stale" THEN "lookup" ELSE "again",
                            ![c].got = {}]
    /\ UNCHANGED <<provider, cooling, breaker, trouble, misses>>

-----------------------------------------------------------------------------
(* Time.                                                                   *)

BecomeStale ==
    /\ ~stale
    /\ stale' = TRUE
    /\ UNCHANGED <<provider, keys, cooling, breaker, call, trouble, misses>>

\* The cooldown let the call through, and it has not reached the breaker yet.
Cleared(c) == call[c].pc = "execute" /\ call[c].why = "miss"

\* The cooldown is over; what it let through and is still waiting is late.
CoolDown ==
    /\ cooling
    /\ cooling' = FALSE
    /\ misses' = 0
    /\ call' = [c \in Caller |-> IF Cleared(c) THEN [call[c] EXCEPT !.why = "late"] ELSE call[c]]
    /\ UNCHANGED <<provider, cache, breaker, trouble>>

\* BreakerTimeout after it opened the breaker becomes half-open.
BreakerTimeout ==
    /\ breaker.state = "open"
    /\ breaker' = [state |-> "half", fails |-> 0]
    /\ call' = Forget(call)
    /\ UNCHANGED <<provider, cache, cooling, trouble, misses>>

-----------------------------------------------------------------------------

Present(c) == \E kid \in 0..MaxKid : (kid = 0 \/ kid \in live) /\ Verify(c, kid)

Fetch(c) == FetchSucceeds(c) \/ FetchFails(c)

Step(c) ==
    Reject(c) \/ KeyFor(c) \/ Execute(c) \/ Fetch(c) \/ Swap(c)

Next ==
    \/ RotateKey \/ GoDown \/ ComeUp
    \/ \E k \in Kid : ExpireTokens(k)
    \/ \E c \in Caller : Present(c) \/ Step(c) \/ FetchCancelled(c)
    \/ BecomeStale \/ CoolDown \/ BreakerTimeout

Spec == Init /\ [][Next]_vars

\* Requests keep coming and run on, time passes, outages end.
Fairness ==
    /\ \A c \in Caller : WF_vars(Present(c)) /\ WF_vars(Step(c))
    /\ WF_vars(ComeUp)
    /\ WF_vars(BecomeStale) /\ WF_vars(CoolDown) /\ WF_vars(BreakerTimeout)

FairSpec == Spec /\ Fairness

-----------------------------------------------------------------------------
(* Properties.                                                             *)

\* A flood of unknown kids costs the provider one refetch per cooldown: of the
\* calls that one cooldown lets through, at most one sends a request, however
\* many have missed the kid by the time the first of them has the write lock,
\* and wherever they wait.
OneRefetchPerCooldown == misses <= 1

\* The verifier keeps working while the provider is down: once it has keys,
\* no failed, cancelled or refused refresh leaves it without.
NeverWithoutKeys == [][keys # {} => keys' # {}]_vars

\* Key rotation propagates: after the last rotation the cache ends up with the
\* current key and keeps it, although a slow call may overwrite a newer reply,
\* cancelled requests may open the breaker and the provider may be down.
RotationPropagates == <>[](current \in keys)
=============================================================================

------------------------------ MODULE OtpStore ------------------------------
(***************************************************************************)
(* One-time codes for one phone number:                                    *)
(* services/identity/internal/otp/store.go and the handlers in front of it.*)
(* Keys of different phones never meet, so one phone is the whole story.   *)
(*                                                                         *)
(*   otp:code:<phone>   hash {code, attempts} with the code TTL     (hash) *)
(*   otp:rl:<phone>     request counter with the window TTL         (rl)   *)
(*                                                                         *)
(* Request and Verify send one Redis command after the other; other calls  *)
(* run between two of them, and a call may stop after each of them.  No    *)
(* clock is modelled: a key with a TTL may expire at any moment.           *)
(***************************************************************************)
EXTENDS Naturals, FiniteSets

CONSTANTS
    Code,          \* the six-digit codes
    Caller,        \* concurrent Request and Verify calls
    Empty,         \* the empty string: a request field or hash field left out
    MaxAttempts,
    RateLimitMax,
    Faults,        \* whether calls may stop half-way and commands may fail
    MaxSerial,     \* bound: codes stored in one behaviour
    MaxCount,      \* bound: the request counter
    MaxHash        \* bound: the attempts counter

ASSUME LimitsAssumption ==
    /\ IsFiniteSet(Caller)
    /\ MaxAttempts \in Nat \ {0} /\ RateLimitMax \in Nat \ {0}
    /\ MaxSerial \in Nat /\ MaxCount \in Nat /\ MaxCount > RateLimitMax
    /\ MaxHash \in Nat
ASSUME EmptyAssumption == Empty \notin Code
ASSUME FaultsAssumption == Faults \in BOOLEAN

VARIABLES
    hash,      \* otp:code:<phone>
    rl,        \* otp:rl:<phone>
    call,      \* the calls in progress
    \* History
    last,      \* number of codes stored: the serial of the latest one
    issued,    \* codes stored for requests admitted in the current window
    score,     \* per serial: wrong answers, acceptances, and the end of it
    slipped    \* what a failed or missing command left behind: the counter
               \* without its TTL, codes that were to be deleted

vars == <<hash, rl, call, last, issued, score, slipped>>

Serial == 1..MaxSerial

\* Without a code in it (serial 0) a hash is what HINCRBY made of a missing key.
Absent == [present |-> FALSE, code |-> Empty, attempts |-> 0, ttl |-> FALSE, serial |-> 0]

\* A call is idle, in Request (window, store) or in Verify (count, burn,
\* consume); it remembers the serial it read and whether the window it was
\* admitted in is still open.
Idle == [pc |-> "idle", serial |-> 0, open |-> FALSE]

Step(pc, serial, open) == [pc |-> pc, serial |-> serial, open |-> open]

\* The wrong answers one code can give: see AnswersBounded.
MaxAnswers == MaxAttempts - 1 + Cardinality(Caller)

\* The code is past its limit only where its DEL did not happen.
TypeOK ==
    /\ hash \in [present : BOOLEAN, code : Code \cup {Empty}, ttl : BOOLEAN,
                 attempts : 0..MaxHash, serial : 0..MaxSerial]
    /\ hash.serial \in slipped.codes \/ hash.attempts <= MaxAnswers
    /\ rl \in [count : 0..MaxCount, ttl : BOOLEAN]
    /\ call \in [Caller -> [pc : {"idle", "window", "store", "count", "burn", "consume"},
                            serial : 0..MaxSerial, open : BOOLEAN]]
    /\ last \in 0..MaxSerial
    /\ issued \in 0..MaxSerial
    /\ score \in [Serial -> [wrong : Nat, accepted : Nat, ended : BOOLEAN]]
    /\ slipped \in [window : BOOLEAN, codes : SUBSET (0..MaxSerial)]

Init ==
    /\ hash = Absent
    /\ rl = [count |-> 0, ttl |-> FALSE]
    /\ call = [c \in Caller |-> Idle]
    /\ last = 0
    /\ issued = 0
    /\ score = [s \in Serial |-> [wrong |-> 0, accepted |-> 0, ended |-> FALSE]]
    /\ slipped = [window |-> FALSE, codes |-> {}]

Goto(c, step) == call' = [call EXCEPT ![c] = step]
Finish(c) == Goto(c, Idle)

-----------------------------------------------------------------------------
(* Request.                                                                *)

\* Mutant: the limit lets one request more through.
OverLimit_OffByOne(count) == count > RateLimitMax + 1

OverLimit(count) == count > RateLimitMax

\* INCR of the counter; the first request of a window goes on to set the TTL,
\* one over the limit returns ErrRateLimited.
RequestIncr(c) ==
    LET count == rl.count + 1 IN
    /\ call[c] = Idle
    /\ count <= MaxCount /\ last < MaxSerial
    /\ rl' = [rl EXCEPT !.count = count]
    /\ Goto(c, IF count = 1 THEN Step("window", 0, TRUE)
               ELSE IF OverLimit(count) THEN Idle ELSE Step("store", 0, TRUE))
    /\ UNCHANGED <<hash, last, issued, score, slipped>>

\* Mutant: the counter is never given a TTL.
RequestExpire_Skipped(c) ==
    /\ call[c].pc = "window"
    /\ Goto(c, [call[c] EXCEPT !.pc = "store"])
    /\ UNCHANGED <<hash, rl, last, issued, score, slipped>>

\* EXPIRE of the counter.  An error of this command is ignored.
RequestExpire(c) ==
    /\ call[c].pc = "window"
    /\ \E done \in IF Faults THEN BOOLEAN ELSE {TRUE} :
            /\ rl' = IF done /\ rl.count > 0 THEN [rl EXCEPT !.ttl = TRUE] ELSE rl
            /\ slipped' = [slipped EXCEPT !.window = @ \/ ~done]
    /\ Goto(c, [call[c] EXCEPT !.pc = "store"])
    /\ UNCHANGED <<hash, last, issued, score>>

\* HSET and EXPIRE of a fresh code in one MULTI, whatever was there before.
RequestStore(c) ==
    /\ call[c].pc = "store"
    /\ last < MaxSerial
    /\ \E k \in Code :
            hash' = [present |-> TRUE, code |-> k, attempts |-> 0, ttl |-> TRUE,
                     serial |-> last + 1]
    /\ last' = last + 1
    /\ issued' = IF call[c].open THEN issued + 1 ELSE issued
    /\ Finish(c)
    /\ UNCHANGED <<rl, score, slipped>>

-----------------------------------------------------------------------------
(* Verify.                                                                 *)

\* Mutant: the handler passes an empty code on.
HandlerAccepts_Any(guess) == TRUE

\* The gRPC handler rejects a call without a code.
HandlerAccepts(guess) == guess # Empty

\* HGETALL and the comparison with what it returned.  An empty reply is
\* ErrInvalidCode at once.
VerifyRead(c, guess) ==
    /\ call[c] = Idle
    /\ HandlerAccepts(guess)
    /\ hash.present
    /\ Goto(c, Step(IF hash.code = guess THEN "consume" ELSE "count", hash.serial, FALSE))
    /\ UNCHANGED <<hash, rl, last, issued, score, slipped>>

\* What HINCRBY makes of the hash: a missing key becomes a hash that has
\* attempts and nothing else.
Counted == [hash EXCEPT !.present = TRUE, !.attempts = @ + 1]

\* A wrong answer about serial s goes out.  The count of a code whose DEL
\* failed is of no interest.
WrongAnswer(s) == IF s \in slipped.codes \cup {0} THEN score ELSE [score EXCEPT ![s].wrong = @ + 1]

\* Mutant: the counter is compared with > and not with >=.
TooMany_OffByOne(attempts) == attempts > MaxAttempts

TooMany(attempts) == attempts >= MaxAttempts

\* HINCRBY; below the limit the call returns ErrInvalidCode.
VerifyCount(c) ==
    /\ call[c].pc = "count"
    /\ hash.attempts < MaxHash
    /\ hash' = Counted
    /\ score' = WrongAnswer(call[c].serial)
    /\ Goto(c, IF TooMany(Counted.attempts) THEN [call[c] EXCEPT !.pc = "burn"] ELSE Idle)
    /\ UNCHANGED <<rl, last, issued, slipped>>

\* Serial s is reported as used up, by a success or by too many failures.
Ended(s, wins) ==
    IF s = 0 THEN score
    ELSE [score EXCEPT ![s].ended = TRUE, ![s].accepted = @ + wins]

\* The DEL of serial s, and of what the key holds by now, did not happen.
Undeleted(s) == [slipped EXCEPT !.codes = @ \cup {s, hash.serial}]

\* DEL after too many failures; an error of this command is ignored, so that
\* under Faults the code may stay.
VerifyBurn(c) ==
    /\ call[c].pc = "burn"
    /\ \E done \in IF Faults THEN BOOLEAN ELSE {TRUE} :
            /\ hash' = IF done THEN Absent ELSE hash
            /\ slipped' = IF done THEN slipped ELSE Undeleted(call[c].serial)
    /\ score' = Ended(call[c].serial, 0)
    /\ Finish(c)
    /\ UNCHANGED <<rl, last, issued>>

\* Mutant: a code that was accepted is left in the store.
VerifyConsume_Kept(c) ==
    /\ call[c].pc = "consume"
    /\ score' = Ended(call[c].serial, 1)
    /\ Finish(c)
    /\ UNCHANGED <<hash, rl, last, issued, slipped>>

\* DEL after a match, whatever the key holds by now; then Verify succeeds.
VerifyConsume(c) ==
    /\ call[c].pc = "consume"
    /\ hash' = Absent
    /\ score' = Ended(call[c].serial, 1)
    /\ Finish(c)
    /\ UNCHANGED <<rl, last, issued, slipped>>

-----------------------------------------------------------------------------
(* The environment.                                                        *)

\* The call ends between two commands: an error, a cancelled context or the
\* end of the process.
Stop(c) ==
    /\ Faults
    /\ call[c] # Idle
    /\ slipped' = CASE call[c].pc = "window" -> [slipped EXCEPT !.window = TRUE]
                    [] call[c].pc = "burn" -> Undeleted(call[c].serial)
                    [] OTHER -> slipped
    /\ Finish(c)
    /\ UNCHANGED <<hash, rl, last, issued, score>>

ExpireCode ==
    /\ hash.ttl
    /\ hash' = Absent
    /\ UNCHANGED <<rl, call, last, issued, score, slipped>>

\* The window ends; calls it admitted may still be on their way to store.
ExpireWindow ==
    /\ rl.ttl
    /\ rl' = [count |-> 0, ttl |-> FALSE]
    /\ issued' = 0
    /\ call' = [c \in Caller |-> [call[c] EXCEPT !.open = FALSE]]
    /\ UNCHANGED <<hash, last, score, slipped>>

-----------------------------------------------------------------------------

Request(c) == RequestIncr(c) \/ RequestExpire(c) \/ RequestStore(c)

\* A call that was started runs on.
Continue(c) ==
    RequestExpire(c) \/ RequestStore(c) \/ VerifyCount(c) \/ VerifyBurn(c) \/ VerifyConsume(c)

Verify(c) ==
    \/ \E guess \in Code \cup {Empty} : VerifyRead(c, guess)
    \/ VerifyCount(c)
    \/ VerifyBurn(c)
    \/ VerifyConsume(c)

Next ==
    \/ \E c \in Caller : Request(c) \/ Verify(c) \/ Stop(c)
    \/ ExpireCode
    \/ ExpireWindow

\* Started calls go on and time passes.
Fairness ==
    /\ \A c \in Caller : WF_vars(Continue(c))
    /\ WF_vars(ExpireCode)
    /\ WF_vars(ExpireWindow)

Spec == Init /\ [][Next]_vars
FairSpec == Spec /\ Fairness

-----------------------------------------------------------------------------
(* Properties.                                                             *)

\* No more than RateLimitMax codes go out for the requests of one window.
WindowLimit == issued <= RateLimitMax

\* Concurrent Verify calls read the hash before they count; still one code
\* answers at most MaxAttempts - 1 + |Caller| wrong guesses before it is gone,
\* unless the DEL that ends it fails.
AnswersBounded ==
    \A s \in Serial \ slipped.codes : score[s].wrong <= MaxAnswers

\* "the stored code is consumed on success and after too many failures": a
\* code reported as used up is not in the store, whatever happened since,
\* unless its DEL failed.
EndedIsGone ==
    hash.serial \in Serial \ slipped.codes => ~score[hash.serial].ended

\* Verify succeeds only against a code that Request stored: the hash a late
\* HINCRBY leaves behind, which has no code, is never accepted.
OnlyIssuedAccepted == \A c \in Caller : call[c].pc = "consume" => call[c].serial # 0

\* A phone over the request limit can ask for codes again some day, unless
\* the EXPIRE of its counter failed or was never sent.
LimitLifts == (rl.count > RateLimitMax) ~> (rl.count = 0 \/ slipped.window)

\* "Codes are single-use": no code is accepted twice.
CodeSingleUse == \A s \in Serial : score[s].accepted <= 1
=============================================================================

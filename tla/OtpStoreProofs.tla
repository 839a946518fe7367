--------------------------- MODULE OtpStoreProofs ---------------------------
(***************************************************************************)
(* Proofs about OtpStore, for any set of codes, any finite number of       *)
(* concurrent calls and any limits, with and without faults.               *)
(***************************************************************************)
EXTENDS OtpStore, FiniteSetTheorems, TLAPS

HashType == [present : BOOLEAN, code : Code \cup {Empty}, ttl : BOOLEAN,
             attempts : 0..MaxHash, serial : 0..MaxSerial]
CallType == [pc : {"idle", "window", "store", "count", "burn", "consume"},
             serial : 0..MaxSerial, open : BOOLEAN]
ScoreType == [wrong : Nat, accepted : Nat, ended : BOOLEAN]
SlippedType == [window : BOOLEAN, codes : SUBSET (0..MaxSerial)]

\* TypeOK but for the limit of the attempts counter.
Types ==
    /\ hash \in HashType
    /\ rl \in [count : 0..MaxCount, ttl : BOOLEAN]
    /\ call \in [Caller -> CallType]
    /\ last \in 0..MaxSerial
    /\ issued \in 0..MaxSerial
    /\ score \in [Serial -> ScoreType]
    /\ slipped \in SlippedType

\* Serials are handed out in order, and a hash without one has no code.
SerialInv ==
    /\ hash.serial = 0 <=> hash.code = Empty
    /\ ~hash.present => hash.serial = 0
    /\ hash.serial <= last
    /\ \A c \in Caller : call[c].serial <= last
    /\ \A s \in Serial : s > last => score[s].wrong = 0 /\ ~score[s].ended
    /\ issued <= last

\* The inductive invariant of the store.
StoreInv == Types /\ SerialInv /\ OnlyIssuedAccepted /\ EndedIsGone

-----------------------------------------------------------------------------

\* A call moves: the others stay where they are.
LEMMA GotoCall ==
    ASSUME Types, NEW c \in Caller, NEW step \in CallType, Goto(c, step)
    PROVE  /\ call' \in [Caller -> CallType] /\ call'[c] = step
           /\ \A d \in Caller \ {c} : call'[d] = call[d]
  BY DEF Types, Goto

\* Where calls go.
LEMMA Steps ==
    /\ Idle \in CallType
    /\ \A pc \in {"window", "store", "count", "consume"}, s \in 0..MaxSerial, o \in BOOLEAN :
            Step(pc, s, o) \in CallType
  BY LimitsAssumption DEF Idle, Step, CallType

\* A call goes on to its next command.
LEMMA MoveOn ==
    ASSUME Types, NEW c \in Caller, NEW pc \in {"store", "burn"},
           Goto(c, [call[c] EXCEPT !.pc = pc])
    PROVE  /\ call' \in [Caller -> CallType]
           /\ call'[c].pc = pc /\ call'[c].serial = call[c].serial /\ call'[c].open = call[c].open
           /\ \A d \in Caller \ {c} : call'[d] = call[d]
  BY DEF Types, Goto, CallType

\* A missing key.
LEMMA AbsentHash == Absent \in HashType /\ Absent.serial = 0 /\ Absent.code = Empty
  BY LimitsAssumption DEF Absent, HashType

\* HINCRBY touches nothing but the counter.
LEMMA CountedHash ==
    ASSUME hash \in HashType, hash.attempts < MaxHash
    PROVE  /\ Counted \in HashType /\ Counted.present
           /\ Counted.attempts = hash.attempts + 1
           /\ Counted.serial = hash.serial /\ Counted.code = hash.code
<1>1. hash.attempts + 1 \in 0..MaxHash
  BY LimitsAssumption DEF HashType
<1> DEFINE n == hash.attempts + 1
<1>2. Counted = [hash EXCEPT !.present = TRUE, !.attempts = n]
  BY DEF Counted
<1> HIDE DEF n
<1>3. QED
  BY <1>1, <1>2 DEF HashType, n

\* A wrong answer about one serial.
LEMMA WrongScore ==
    ASSUME Types, NEW s \in 0..MaxSerial
    PROVE  /\ WrongAnswer(s) \in [Serial -> ScoreType]
           /\ \A t \in Serial : WrongAnswer(s)[t].ended = score[t].ended
           /\ \A t \in Serial : WrongAnswer(s)[t].wrong =
                IF t = s /\ s \notin slipped.codes THEN score[t].wrong + 1 ELSE score[t].wrong
<1>1. CASE s \in slipped.codes \cup {0}
  BY <1>1, LimitsAssumption DEF WrongAnswer, Types, Serial
<1>2. CASE s \notin slipped.codes \cup {0}
  <2>1. s \in Serial /\ score \in [Serial -> ScoreType]
    BY <1>2, LimitsAssumption DEF Types, Serial
  <2> DEFINE w == [score[s] EXCEPT !.wrong = @ + 1]
  <2>2. WrongAnswer(s) = [score EXCEPT ![s] = w]
    BY <1>2, Zenon DEF WrongAnswer
  <2>3. /\ w \in ScoreType /\ w.wrong = score[s].wrong + 1 /\ w.ended = score[s].ended
    BY <2>1 DEF ScoreType
  <2> HIDE DEF w
  <2>4. QED
    BY <1>2, <2>1, <2>2, <2>3
<1>3. QED
  BY <1>1, <1>2

\* The end of one serial.
LEMMA EndedScore ==
    ASSUME Types, NEW s \in 0..MaxSerial, NEW wins \in {0, 1}
    PROVE  /\ Ended(s, wins) \in [Serial -> ScoreType]
           /\ \A t \in Serial : Ended(s, wins)[t].wrong = score[t].wrong
           /\ \A t \in Serial \ {s} : Ended(s, wins)[t].ended = score[t].ended
<1>1. CASE s = 0
  BY <1>1 DEF Ended, Types
<1>2. CASE s # 0
  <2>1. s \in Serial /\ score \in [Serial -> ScoreType]
    BY <1>2, LimitsAssumption DEF Types, Serial
  <2> DEFINE n == score[s].accepted + wins
             w == [score[s] EXCEPT !.ended = TRUE, !.accepted = n]
  <2>2. Ended(s, wins) = [score EXCEPT ![s] = w]
    BY <1>2, <2>1 DEF Ended, ScoreType
  <2>3. n \in Nat
    BY <2>1 DEF ScoreType
  <2> HIDE DEF n
  <2>4. w \in ScoreType /\ w.wrong = score[s].wrong
    BY <2>1, <2>3 DEF ScoreType
  <2> HIDE DEF w
  <2>5. QED
    BY <2>1, <2>2, <2>4
<1>3. QED
  BY <1>1, <1>2

\* A DEL that did not happen leaves the code of the call and that of the key.
LEMMA UndeletedCodes ==
    ASSUME Types, NEW s \in 0..MaxSerial
    PROVE  /\ Undeleted(s) \in SlippedType
           /\ Undeleted(s).codes = slipped.codes \cup {s, hash.serial}
  BY DEF Undeleted, Types, SlippedType, HashType

\* The store starts in the invariant.
LEMMA InitStoreInv == Init => StoreInv
<1> SUFFICES ASSUME Init
             PROVE  StoreInv
  OBVIOUS
<1>1. Types
  BY AbsentHash, Steps, LimitsAssumption DEF Init, Types, ScoreType, SlippedType
<1>2. SerialInv
  BY AbsentHash, LimitsAssumption DEF Init, SerialInv, Idle
<1>3. OnlyIssuedAccepted /\ EndedIsGone
  BY AbsentHash DEF Init, OnlyIssuedAccepted, EndedIsGone, Idle, Serial
<1>4. QED
  BY <1>1, <1>2, <1>3 DEF StoreInv

-----------------------------------------------------------------------------
(* One lemma for each group of actions.                                    *)

\* INCR and EXPIRE of the counter touch no code.
LEMMA CounterStep ==
    ASSUME StoreInv, NEW c \in Caller, RequestIncr(c) \/ RequestExpire(c)
    PROVE  StoreInv'
<1> USE DEF StoreInv
<1>1. /\ call' \in [Caller -> CallType]
      /\ call'[c].pc \in {"idle", "window", "store"} /\ call'[c].serial <= last
      /\ \A d \in Caller \ {c} : call'[d] = call[d]
  <2>1. CASE RequestIncr(c)
    <3>1. PICK step \in {Idle, Step("window", 0, TRUE), Step("store", 0, TRUE)} : Goto(c, step)
      BY <2>1 DEF RequestIncr
    <3>2. step \in CallType /\ step.pc \in {"idle", "window", "store"} /\ step.serial = 0
      <4>1. 0 \in 0..MaxSerial /\ TRUE \in BOOLEAN
        BY LimitsAssumption
      <4>2. step \in CallType
        BY <4>1, Steps
      <4>3. QED
        BY <4>2 DEF Idle, Step
    <3>3. /\ call' \in [Caller -> CallType] /\ call'[c] = step
          /\ \A d \in Caller \ {c} : call'[d] = call[d]
      BY <3>1, <3>2, GotoCall
    <3>4. QED
      BY <3>2, <3>3, LimitsAssumption DEF Types
  <2>2. CASE RequestExpire(c)
    BY <2>2, MoveOn DEF RequestExpire, SerialInv
  <2>3. QED
    BY <2>1, <2>2
<1>2. UNCHANGED <<hash, last, issued, score>>
  BY DEF RequestIncr, RequestExpire
<1>3. slipped' \in SlippedType /\ slipped'.codes = slipped.codes
  BY DEF RequestIncr, RequestExpire, Types, SlippedType
<1>4. rl' \in [count : 0..MaxCount, ttl : BOOLEAN]
  <2>1. CASE RequestIncr(c)
    <3>1. rl.count + 1 \in 0..MaxCount
      BY <2>1, LimitsAssumption DEF RequestIncr, Types
    <3>2. QED
      BY <2>1, <3>1 DEF RequestIncr, Types
  <2>2. CASE RequestExpire(c)
    BY <2>2 DEF RequestExpire, Types
  <2>3. QED
    BY <2>1, <2>2
<1>5. Types'
  BY <1>1, <1>2, <1>3, <1>4 DEF Types, HashType, CallType, ScoreType, SlippedType, Serial
<1>6. SerialInv'
  BY <1>1, <1>2 DEF SerialInv, Serial
<1>7. OnlyIssuedAccepted' /\ EndedIsGone'
  BY <1>1, <1>2, <1>3 DEF OnlyIssuedAccepted, EndedIsGone
<1>8. QED
  BY <1>5, <1>6, <1>7

\* A fresh code under the next serial.
LEMMA StoreStep ==
    ASSUME StoreInv, NEW c \in Caller, RequestStore(c)
    PROVE  StoreInv'
<1> USE DEF StoreInv
<1>1. /\ call' \in [Caller -> CallType] /\ call'[c] = Idle
      /\ \A d \in Caller \ {c} : call'[d] = call[d]
  BY Steps, GotoCall DEF RequestStore, Finish
<1>2. /\ last' = last + 1 /\ last' \in 1..MaxSerial
      /\ issued' \in 0..MaxSerial /\ issued' <= last'
      /\ UNCHANGED <<rl, score, slipped>>
  BY LimitsAssumption DEF RequestStore, Types, SerialInv
<1>3. /\ hash' \in HashType /\ hash'.present
      /\ hash'.serial = last' /\ hash'.code # Empty /\ hash'.attempts = 0
  <2>1. PICK k \in Code : hash' = [present |-> TRUE, code |-> k, attempts |-> 0, ttl |-> TRUE,
                                   serial |-> last + 1]
    BY DEF RequestStore
  <2>2. k # Empty /\ 0 \in 0..MaxHash /\ last + 1 \in 0..MaxSerial
    BY <1>2, EmptyAssumption, LimitsAssumption
  <2>3. QED
    BY <1>2, <2>1, <2>2 DEF HashType
<1>4. Types'
  BY <1>1, <1>2, <1>3, LimitsAssumption DEF Types, HashType, CallType, ScoreType, SlippedType,
     Serial
<1>5. SerialInv'
  <2>1. \A d \in Caller : call'[d].serial <= last'
    <3>1. \A d \in Caller : call[d].serial \in Nat /\ call[d].serial <= last
      BY DEF Types, CallType, SerialInv
    <3>2. QED
      BY <1>1, <1>2, <3>1, LimitsAssumption DEF Idle, Types
  <2>2. \A s \in Serial : s > last' => score'[s].wrong = 0 /\ ~score'[s].ended
    BY <1>2, LimitsAssumption DEF SerialInv, Serial, Types
  <2>3. QED
    BY <1>2, <1>3, <2>1, <2>2 DEF SerialInv, Serial
<1>6. OnlyIssuedAccepted'
  BY <1>1 DEF OnlyIssuedAccepted, Idle
<1>7. EndedIsGone'
  <2>1. last' \in Serial /\ last' > last
    BY <1>2 DEF Serial, Types
  <2>2. QED
    BY <1>2, <1>3, <2>1 DEF EndedIsGone, SerialInv
<1>8. QED
  BY <1>4, <1>5, <1>6, <1>7

\* HGETALL: a match needs a code.
LEMMA ReadStep ==
    ASSUME StoreInv, NEW c \in Caller, NEW guess \in Code \cup {Empty}, VerifyRead(c, guess)
    PROVE  StoreInv'
<1> USE DEF StoreInv
<1>1. PICK pc \in {"count", "consume"} :
         /\ Goto(c, Step(pc, hash.serial, FALSE))
         /\ pc = "consume" => hash.code # Empty
  BY DEF VerifyRead, HandlerAccepts
<1>2. hash.serial \in 0..MaxSerial
  BY DEF Types, HashType
<1>3. Step(pc, hash.serial, FALSE) \in CallType
  BY <1>1, <1>2, Steps
<1>4. /\ call' \in [Caller -> CallType] /\ call'[c] = Step(pc, hash.serial, FALSE)
      /\ \A d \in Caller \ {c} : call'[d] = call[d]
  BY <1>1, <1>3, GotoCall
<1>5. call'[c].pc = pc /\ call'[c].serial = hash.serial
  BY <1>4 DEF Step
<1>6. UNCHANGED <<hash, rl, last, issued, score, slipped>>
  BY DEF VerifyRead
<1>7. Types'
  BY <1>4, <1>6 DEF Types, HashType, CallType, ScoreType, SlippedType, Serial
<1>8. SerialInv'
  BY <1>4, <1>5, <1>6 DEF SerialInv, Serial
<1>9. OnlyIssuedAccepted'
  BY <1>1, <1>4, <1>5 DEF OnlyIssuedAccepted, SerialInv
<1>10. EndedIsGone'
  BY <1>6 DEF EndedIsGone, Serial
<1>11. QED
  BY <1>7, <1>8, <1>9, <1>10

\* HINCRBY, whatever the key holds.
LEMMA CountStep ==
    ASSUME StoreInv, NEW c \in Caller, VerifyCount(c)
    PROVE  StoreInv'
<1> USE DEF StoreInv
<1>1. /\ call' \in [Caller -> CallType]
      /\ call'[c].pc \in {"idle", "burn"} /\ call'[c].serial <= last
      /\ \A d \in Caller \ {c} : call'[d] = call[d]
  <2>1. CASE Goto(c, Idle)
    <3>1. /\ call' \in [Caller -> CallType] /\ call'[c] = Idle
          /\ \A d \in Caller \ {c} : call'[d] = call[d]
      BY <2>1, Steps, GotoCall
    <3>2. QED
      BY <3>1, LimitsAssumption DEF Idle, Types
  <2>2. CASE Goto(c, [call[c] EXCEPT !.pc = "burn"])
    BY <2>2, MoveOn DEF SerialInv
  <2>3. QED
    BY <2>1, <2>2 DEF VerifyCount
<1>2. /\ hash' \in HashType /\ hash'.present
      /\ hash'.serial = hash.serial /\ hash'.code = hash.code
  BY CountedHash DEF VerifyCount, Types
<1>3. call[c].serial \in 0..MaxSerial
  BY DEF Types, CallType
<1>4. /\ score' \in [Serial -> ScoreType]
      /\ \A t \in Serial : score'[t].ended = score[t].ended
      /\ \A t \in Serial : t > last => score'[t].wrong = score[t].wrong
  <2>1. \A t \in Serial : t > last => t # call[c].serial
    BY <1>3, LimitsAssumption DEF SerialInv, Serial, Types
  <2>2. QED
    BY <1>3, <2>1, WrongScore DEF VerifyCount
<1>5. UNCHANGED <<rl, last, issued, slipped>>
  BY DEF VerifyCount
<1>6. Types'
  BY <1>1, <1>2, <1>4, <1>5 DEF Types, HashType, CallType, ScoreType, SlippedType, Serial
<1>7. SerialInv'
  BY <1>1, <1>2, <1>4, <1>5 DEF SerialInv, Serial
<1>8. OnlyIssuedAccepted' /\ EndedIsGone'
  BY <1>1, <1>2, <1>4, <1>5 DEF OnlyIssuedAccepted, EndedIsGone, Serial
<1>9. QED
  BY <1>6, <1>7, <1>8

\* A call ends: the key is empty, or what it holds was to be deleted, or
\* nothing was reported about any code.
LEMMA EndStep ==
    ASSUME StoreInv, NEW c \in Caller, VerifyBurn(c) \/ VerifyConsume(c) \/ Stop(c)
    PROVE  StoreInv'
<1> USE DEF StoreInv
<1> DEFINE s == call[c].serial
<1>1. s \in 0..MaxSerial /\ s <= last
  BY DEF Types, CallType, SerialInv
<1>2. /\ call' \in [Caller -> CallType] /\ call'[c] = Idle
      /\ \A d \in Caller \ {c} : call'[d] = call[d]
  BY Steps, GotoCall DEF VerifyBurn, VerifyConsume, Stop, Finish
<1>3. UNCHANGED <<rl, last, issued>>
  BY DEF VerifyBurn, VerifyConsume, Stop
<1>4. hash' = hash \/ hash' = Absent
  BY DEF VerifyBurn, VerifyConsume, Stop
<1>5. score' = score \/ \E wins \in {0, 1} : score' = Ended(s, wins)
  BY DEF VerifyBurn, VerifyConsume, Stop
<1>6. /\ score' \in [Serial -> ScoreType]
      /\ \A t \in Serial : score'[t].wrong = score[t].wrong
      /\ \A t \in Serial \ {s} : score'[t].ended = score[t].ended
  <2>1. score \in [Serial -> ScoreType]
    BY DEF Types
  <2>2. QED
    BY <1>1, <1>5, <2>1, EndedScore
<1>7. /\ slipped' \in SlippedType /\ slipped.codes \subseteq slipped'.codes
  <2>1. slipped \in SlippedType
    BY DEF Types
  <2>2. \/ slipped' = slipped \/ slipped' = [slipped EXCEPT !.window = TRUE]
        \/ slipped' = Undeleted(s)
    BY DEF VerifyBurn, VerifyConsume, Stop
  <2>3. /\ [slipped EXCEPT !.window = TRUE] \in SlippedType
        /\ [slipped EXCEPT !.window = TRUE].codes = slipped.codes
    BY <2>1 DEF SlippedType
  <2>4. QED
    BY <1>1, <2>1, <2>2, <2>3, UndeletedCodes
<1>8. hash' = Absent \/ hash.serial \in slipped'.codes \/ (hash' = hash /\ score' = score)
  BY <1>1, UndeletedCodes DEF VerifyBurn, VerifyConsume, Stop
<1> HIDE DEF s
<1>9. Types'
  <2>1. hash' \in HashType
    BY <1>4, AbsentHash DEF Types
  <2>2. QED
    BY <1>2, <1>3, <1>6, <1>7, <2>1 DEF Types, HashType, CallType, ScoreType, SlippedType, Serial
<1>10. SerialInv'
  <2>1. /\ hash'.serial = 0 <=> hash'.code = Empty
        /\ ~hash'.present => hash'.serial = 0
        /\ hash'.serial <= last
    BY <1>4, AbsentHash, LimitsAssumption DEF SerialInv, Types
  <2>2. \A d \in Caller : call'[d].serial <= last
    BY <1>2, LimitsAssumption DEF SerialInv, Idle, Types
  <2>3. \A t \in Serial : t > last => score'[t].wrong = 0 /\ ~score'[t].ended
    <3>1. \A t \in Serial : t > last => t # s
      BY <1>1, LimitsAssumption DEF Serial, Types
    <3>2. QED
      BY <1>6, <3>1 DEF SerialInv
  <2>4. QED
    BY <1>3, <2>1, <2>2, <2>3 DEF SerialInv, Serial
<1>11. OnlyIssuedAccepted'
  BY <1>2 DEF OnlyIssuedAccepted, Idle
<1>12. EndedIsGone'
  BY <1>4, <1>7, <1>8, AbsentHash DEF EndedIsGone, Serial
<1>13. QED
  BY <1>9, <1>10, <1>11, <1>12

\* The TTLs run out.
LEMMA ExpiryStep ==
    ASSUME StoreInv, ExpireCode \/ ExpireWindow
    PROVE  StoreInv'
<1> USE DEF StoreInv
<1>1. CASE ExpireCode
  <2>1. hash' = Absent /\ UNCHANGED <<rl, call, last, issued, score, slipped>>
    BY <1>1 DEF ExpireCode
  <2>2. Types'
    BY <2>1, AbsentHash DEF Types, HashType, CallType, ScoreType, SlippedType, Serial
  <2>3. SerialInv'
    BY <2>1, AbsentHash, LimitsAssumption DEF SerialInv, Serial, Types
  <2>4. OnlyIssuedAccepted' /\ EndedIsGone'
    BY <2>1, AbsentHash DEF OnlyIssuedAccepted, EndedIsGone, Serial
  <2>5. QED
    BY <2>2, <2>3, <2>4
<1>2. CASE ExpireWindow
  <2>1. /\ rl' = [count |-> 0, ttl |-> FALSE] /\ issued' = 0
        /\ UNCHANGED <<hash, last, score, slipped>>
    BY <1>2 DEF ExpireWindow
  <2>2. /\ call' \in [Caller -> CallType]
        /\ \A c \in Caller : call'[c].pc = call[c].pc /\ call'[c].serial = call[c].serial
    <3>1. /\ call \in [Caller -> CallType]
          /\ call' = [c \in Caller |-> [call[c] EXCEPT !.open = FALSE]]
      BY <1>2 DEF ExpireWindow, Types
    <3>2. ASSUME NEW c \in Caller
          PROVE  LET r == [call[c] EXCEPT !.open = FALSE]
                 IN  r \in CallType /\ r.pc = call[c].pc /\ r.serial = call[c].serial
      <4>1. call[c] \in CallType
        BY <3>1
      <4>2. QED
        BY <4>1 DEF CallType
    <3>3. QED
      BY <3>1, <3>2
  <2>3. Types'
    BY <2>1, <2>2, LimitsAssumption DEF Types, HashType, CallType, ScoreType, SlippedType, Serial
  <2>4. SerialInv'
    BY <2>1, <2>2, LimitsAssumption DEF SerialInv, Serial, Types
  <2>5. OnlyIssuedAccepted' /\ EndedIsGone'
    BY <2>1, <2>2 DEF OnlyIssuedAccepted, EndedIsGone, Serial
  <2>6. QED
    BY <2>3, <2>4, <2>5
<1>3. QED
  BY <1>1, <1>2

\* Every step preserves the invariant of the store.
LEMMA NextStoreInv == StoreInv /\ [Next]_vars => StoreInv'
<1> SUFFICES ASSUME StoreInv, [Next]_vars
             PROVE  StoreInv'
  OBVIOUS
<1>1. CASE UNCHANGED vars
  BY <1>1 DEF vars, StoreInv, Types, HashType, CallType, ScoreType, SlippedType, SerialInv,
     OnlyIssuedAccepted, EndedIsGone, Serial
<1>2. ASSUME NEW c \in Caller, Request(c) \/ Verify(c) \/ Stop(c)
      PROVE  StoreInv'
  BY <1>2, CounterStep, StoreStep, ReadStep, CountStep, EndStep DEF Request, Verify
<1>3. CASE ExpireCode \/ ExpireWindow
  BY <1>3, ExpiryStep
<1>4. QED
  BY <1>1, <1>2, <1>3 DEF Next

\* The store of codes, whatever calls run at once and wherever they stop:
\* serials in order, no code without a serial, and what was used up is gone.
THEOREM StoreInvariance == Spec => []StoreInv
<1>1. QED
  BY InitStoreInv, NextStoreInv, PTL DEF Spec

\* The hash that a late HINCRBY leaves behind is never accepted, for any codes,
\* callers and limits.
THEOREM AcceptedWasIssued == Spec => []OnlyIssuedAccepted
<1>1. StoreInv => OnlyIssuedAccepted
  BY DEF StoreInv
<1>2. QED
  BY <1>1, StoreInvariance, PTL

\* A code reported as used up stays out of the store unless its DEL failed,
\* for any codes, callers and limits.
THEOREM UsedUpIsGone == Spec => []EndedIsGone
<1>1. StoreInv => EndedIsGone
  BY DEF StoreInv
<1>2. QED
  BY <1>1, StoreInvariance, PTL

-----------------------------------------------------------------------------
(* Counting the calls.                                                     *)

\* One element more, one less or as many.
LEMMA OneMoves ==
    ASSUME NEW S, NEW T, NEW c, IsFiniteSet(S), T \ {c} = S \ {c}
    PROVE  /\ Cardinality(S) \in Nat /\ Cardinality(T) \in Nat
           /\ (c \in T /\ c \notin S) => Cardinality(T) = Cardinality(S) + 1
           /\ (c \notin T /\ c \in S) => Cardinality(T) + 1 = Cardinality(S)
           /\ (c \in T <=> c \in S) => Cardinality(T) = Cardinality(S)
<1>1. Cardinality(S) \in Nat
  BY FS_CardinalityType
<1>2. CASE c \in T /\ c \notin S
  <2>1. T = S \cup {c}
    BY <1>2
  <2>2. QED
    BY <1>1, <1>2, <2>1, FS_AddElement
<1>3. CASE c \notin T /\ c \in S
  <2>1. T = S \ {c}
    BY <1>3
  <2>2. IsFiniteSet(T) /\ Cardinality(T) = Cardinality(S) - 1
    BY <1>3, <2>1, FS_RemoveElement
  <2>3. Cardinality(T) \in Nat
    BY <2>2, FS_CardinalityType
  <2>4. QED
    BY <1>1, <1>3, <2>2, <2>3
<1>4. CASE c \in T <=> c \in S
  <2>1. T = S
    BY <1>4
  <2>2. QED
    BY <1>1, <1>4, <2>1
<1>5. QED
  BY <1>2, <1>3, <1>4

\* The requests of the current window that may still store a code.
Admitted == {c \in Caller : call[c].pc \in {"window", "store"} /\ call[c].open}

\* The calls about to answer a wrong guess at serial s, and the calls about to
\* delete a code that had too many of them.
Counting(s) == {c \in Caller : call[c].pc = "count" /\ call[c].serial = s}
Burning == {c \in Caller : call[c].pc = "burn"}

\* The calls in one place are part of all the calls.
LEMMA CallSets ==
    /\ IsFiniteSet(Admitted) /\ Cardinality(Admitted) \in Nat
    /\ IsFiniteSet(Burning) /\ Cardinality(Burning) \in Nat
    /\ Cardinality(Burning) <= Cardinality(Caller)
    /\ Cardinality(Caller) \in Nat
    /\ \A s : /\ IsFiniteSet(Counting(s)) /\ Cardinality(Counting(s)) \in Nat
             /\ Cardinality(Burning) + Cardinality(Counting(s)) <= Cardinality(Caller)
<1>1. IsFiniteSet(Caller) /\ Cardinality(Caller) \in Nat
  BY LimitsAssumption, FS_CardinalityType
<1>2. Admitted \subseteq Caller /\ Burning \subseteq Caller
  BY DEF Admitted, Burning
<1>3. /\ IsFiniteSet(Admitted) /\ Cardinality(Admitted) \in Nat
      /\ IsFiniteSet(Burning) /\ Cardinality(Burning) \in Nat
      /\ Cardinality(Burning) <= Cardinality(Caller)
  BY <1>1, <1>2, FS_Subset, FS_CardinalityType
<1>4. ASSUME NEW s
      PROVE  /\ IsFiniteSet(Counting(s)) /\ Cardinality(Counting(s)) \in Nat
             /\ Cardinality(Burning) + Cardinality(Counting(s)) <= Cardinality(Caller)
  <2>1. Counting(s) \subseteq Caller /\ Burning \cap Counting(s) = {}
    BY DEF Counting, Burning
  <2>2. IsFiniteSet(Counting(s)) /\ Cardinality(Counting(s)) \in Nat
    BY <1>1, <2>1, FS_Subset, FS_CardinalityType
  <2>3. Cardinality(Burning \cup Counting(s)) =
            Cardinality(Burning) + Cardinality(Counting(s))
    <3>1. Cardinality(Burning \cup Counting(s)) =
              Cardinality(Burning) + Cardinality(Counting(s))
                - Cardinality(Burning \cap Counting(s))
      BY <1>3, <2>2, FS_Union
    <3>2. Cardinality(Burning \cap Counting(s)) = 0
      BY <2>1, FS_EmptySet
    <3>3. QED
      BY <1>3, <2>2, <3>1, <3>2
  <2>4. Cardinality(Burning \cup Counting(s)) <= Cardinality(Caller)
    <3>1. Burning \cup Counting(s) \subseteq Caller
      BY <1>2, <2>1
    <3>2. QED
      BY <1>1, <3>1, FS_Subset
  <2>5. QED
    BY <2>2, <2>3, <2>4
<1>5. QED
  BY <1>1, <1>3, <1>4

\* The same after a step.
LEMMA PrimedSets ==
    \A s : /\ Cardinality((Counting(s))') \in Nat
          /\ Cardinality(Burning') \in Nat
          /\ Cardinality(Burning') + Cardinality((Counting(s))') <= Cardinality(Caller)
<1> DEFINE Sets ==
        \A s : /\ Cardinality(Counting(s)) \in Nat
              /\ Cardinality(Burning) \in Nat
              /\ Cardinality(Burning) + Cardinality(Counting(s)) <= Cardinality(Caller)
<1>1. Sets
  BY CallSets
<1> HIDE DEF Sets
<1>2. Sets'
  BY <1>1, PTL
<1>3. QED
  BY <1>2 DEF Sets

\* What a step of one call does to the sets of calls.
LEMMA CallMoves ==
    ASSUME NEW c \in Caller, \A d \in Caller \ {c} : call'[d] = call[d]
    PROVE  /\ Admitted' \ {c} = Admitted \ {c}
           /\ Burning' \ {c} = Burning \ {c}
           /\ \A s : (Counting(s))' \ {c} = Counting(s) \ {c}
<1>1. Admitted' \ {c} = Admitted \ {c}
  BY DEF Admitted
<1>2. Burning' \ {c} = Burning \ {c}
  BY DEF Burning
<1>3. ASSUME NEW s PROVE (Counting(s))' \ {c} = Counting(s) \ {c}
  BY DEF Counting
<1>4. QED
  BY <1>1, <1>2, <1>3

\* A step of one call is a step of that call only.
LEMMA OthersStay ==
    ASSUME Types, NEW c \in Caller, Request(c) \/ Verify(c) \/ Stop(c)
    PROVE  \A d \in Caller \ {c} : call'[d] = call[d]
<1>1. PICK step : Goto(c, step)
  BY DEF Request, Verify, Stop, RequestIncr, RequestExpire, RequestStore, VerifyRead, VerifyCount,
     VerifyBurn, VerifyConsume, Finish
<1>2. QED
  BY <1>1 DEF Goto, Types

\* Verify and Stop lead to the commands of Verify or to the end of the call.
LEMMA WhereCallsGo ==
    ASSUME Types, NEW c \in Caller, Verify(c) \/ Stop(c)
    PROVE  call'[c].pc \in {"idle", "count", "burn", "consume"}
<1>1. CASE \E guess \in Code \cup {Empty} : VerifyRead(c, guess)
  <2>1. PICK pc \in {"count", "consume"} : Goto(c, Step(pc, hash.serial, FALSE))
    BY <1>1 DEF VerifyRead
  <2>2. QED
    BY <2>1 DEF Goto, Step, Types
<1>2. CASE Goto(c, Idle)
  BY <1>2 DEF Goto, Idle, Types
<1>3. CASE Goto(c, [call[c] EXCEPT !.pc = "burn"])
  BY <1>3, MoveOn
<1>4. QED
  BY <1>1, <1>2, <1>3 DEF Verify, VerifyCount, VerifyBurn, VerifyConsume, Stop, Finish

-----------------------------------------------------------------------------
(* The request limit.                                                      *)

\* The codes stored in this window and those still to come were all counted,
\* and those that came over the limit were turned away.
WindowInv ==
    /\ issued + Cardinality(Admitted) <= rl.count
    /\ issued + Cardinality(Admitted) <= RateLimitMax

\* INCR admits one call at most, within the limit.
LEMMA IncrWindow ==
    ASSUME StoreInv, WindowInv, NEW c \in Caller, RequestIncr(c)
    PROVE  WindowInv'
<1>1. Types /\ issued \in Nat /\ rl.count \in Nat /\ RateLimitMax \in Nat \ {0}
  BY LimitsAssumption DEF StoreInv, Types
<1>2. Admitted' \ {c} = Admitted \ {c}
  BY <1>1, OthersStay, CallMoves DEF Request
<1>3. c \notin Admitted
  BY DEF RequestIncr, Admitted, Idle
<1>4. issued' = issued /\ rl'.count = rl.count + 1
  BY <1>1 DEF RequestIncr, Types
<1>5. /\ Cardinality(Admitted') \in Nat /\ Cardinality(Admitted) \in Nat
      /\ c \in Admitted' => Cardinality(Admitted') = Cardinality(Admitted) + 1
      /\ c \notin Admitted' => Cardinality(Admitted') = Cardinality(Admitted)
  BY <1>2, <1>3, CallSets, OneMoves
<1>6. c \notin Admitted' \/ rl.count + 1 <= RateLimitMax
  <2>1. CASE rl.count + 1 = 1 \/ ~OverLimit(rl.count + 1)
    BY <1>1, <2>1 DEF OverLimit
  <2>2. CASE rl.count + 1 # 1 /\ OverLimit(rl.count + 1)
    <3>1. call' = [call EXCEPT ![c] = Idle]
      BY <2>2 DEF RequestIncr, Goto
    <3>2. call'[c].pc = "idle"
      BY <1>1, <3>1 DEF Types, Idle
    <3>3. QED
      BY <3>2 DEF Admitted
  <2>3. QED
    BY <2>1, <2>2
<1>7. QED
  BY <1>1, <1>4, <1>5, <1>6 DEF WindowInv

\* A call that stores a code is no longer on its way to one.
LEMMA StoreWindow ==
    ASSUME StoreInv, WindowInv, NEW c \in Caller, RequestStore(c)
    PROVE  WindowInv'
<1>1. Types /\ issued \in Nat /\ rl.count \in Nat /\ RateLimitMax \in Nat \ {0}
  BY LimitsAssumption DEF StoreInv, Types
<1>2. Admitted' \ {c} = Admitted \ {c}
  BY <1>1, OthersStay, CallMoves DEF Request
<1>3. c \notin Admitted'
  <2>1. call'[c].pc = "idle"
    BY <1>1 DEF RequestStore, Finish, Goto, Idle, Types
  <2>2. QED
    BY <2>1 DEF Admitted
<1>4. rl' = rl /\ issued' = IF c \in Admitted THEN issued + 1 ELSE issued
  BY DEF RequestStore, Admitted
<1>5. /\ Cardinality(Admitted') \in Nat /\ Cardinality(Admitted) \in Nat
      /\ c \in Admitted => Cardinality(Admitted') + 1 = Cardinality(Admitted)
      /\ c \notin Admitted => Cardinality(Admitted') = Cardinality(Admitted)
  BY <1>2, <1>3, CallSets, OneMoves
<1>6. QED
  BY <1>1, <1>4, <1>5 DEF WindowInv

\* Every other step of a call admits nobody.
LEMMA OtherWindow ==
    ASSUME StoreInv, WindowInv, NEW c \in Caller, RequestExpire(c) \/ Verify(c) \/ Stop(c)
    PROVE  WindowInv'
<1>1. Types /\ issued \in Nat /\ rl.count \in Nat /\ RateLimitMax \in Nat \ {0}
  BY LimitsAssumption DEF StoreInv, Types
<1>2. Admitted' \ {c} = Admitted \ {c}
  BY <1>1, OthersStay, CallMoves DEF Request
<1>3. rl'.count = rl.count /\ issued' = issued
  BY <1>1 DEF RequestExpire, Verify, VerifyRead, VerifyCount, VerifyBurn, VerifyConsume, Stop, Types
<1>4. c \in Admitted' => c \in Admitted
  <2>1. CASE RequestExpire(c)
    <3>1. call'[c].open = call[c].open /\ call[c].pc = "window"
      BY <1>1, <2>1 DEF RequestExpire, Goto, Types, CallType
    <3>2. QED
      BY <3>1 DEF Admitted
  <2>2. CASE Verify(c) \/ Stop(c)
    <3>1. call'[c].pc \in {"idle", "count", "burn", "consume"}
      BY <1>1, <2>2, WhereCallsGo
    <3>2. QED
      BY <3>1 DEF Admitted
  <2>3. QED
    BY <2>1, <2>2
<1>5. /\ Cardinality(Admitted') \in Nat /\ Cardinality(Admitted) \in Nat
      /\ Cardinality(Admitted') <= Cardinality(Admitted)
  BY <1>2, <1>4, CallSets, OneMoves
<1>6. QED
  BY <1>1, <1>3, <1>5 DEF WindowInv

\* Every step preserves the invariant of the window.
LEMMA NextWindowInv == StoreInv /\ WindowInv /\ [Next]_vars => WindowInv'
<1> SUFFICES ASSUME StoreInv, WindowInv, [Next]_vars
             PROVE  WindowInv'
  OBVIOUS
<1>1. CASE UNCHANGED vars
  BY <1>1 DEF vars, WindowInv, Admitted
<1>2. ASSUME NEW c \in Caller, Request(c) \/ Verify(c) \/ Stop(c)
      PROVE  WindowInv'
  BY <1>2, IncrWindow, StoreWindow, OtherWindow DEF Request
<1>3. CASE ExpireCode
  BY <1>3 DEF ExpireCode, WindowInv, Admitted
<1>4. CASE ExpireWindow
  <2>1. \A c \in Caller : call'[c].open = FALSE
    BY <1>4 DEF ExpireWindow, StoreInv, Types, CallType
  <2>2. Admitted' = {}
    BY <2>1 DEF Admitted
  <2>3. issued' = 0 /\ rl'.count = 0
    BY <1>4 DEF ExpireWindow
  <2>4. QED
    BY <2>2, <2>3, FS_EmptySet, LimitsAssumption DEF WindowInv
<1>5. QED
  BY <1>1, <1>2, <1>3, <1>4 DEF Next

\* No more than RateLimitMax codes are stored for the requests of one window,
\* for any number of concurrent requests and wherever they stop.
THEOREM WindowIsLimited == Spec => []WindowLimit
<1>1. Init => WindowInv
  <2> SUFFICES ASSUME Init
               PROVE  WindowInv
    OBVIOUS
  <2>1. Admitted = {}
    BY DEF Init, Admitted, Idle
  <2>2. QED
    BY <2>1, FS_EmptySet, LimitsAssumption DEF Init, WindowInv
<1>2. StoreInv /\ WindowInv => WindowLimit
  <2>1. StoreInv => issued \in Nat
    BY DEF StoreInv, Types
  <2>2. QED
    BY <2>1, CallSets, LimitsAssumption DEF WindowInv, WindowLimit
<1>3. QED
  BY <1>1, <1>2, StoreInvariance, NextWindowInv, PTL DEF Spec

-----------------------------------------------------------------------------
(* The attempts limit.                                                     *)

\* The counter passes the limit only by calls that are about to delete the
\* code.
AttemptsInv ==
    hash.serial \notin slipped.codes =>
        hash.attempts <= MaxAttempts - 1 + Cardinality(Burning)

\* Every wrong answer about the code in the key was counted there.
CountedInv ==
    hash.serial \in Serial \ slipped.codes => score[hash.serial].wrong <= hash.attempts

\* The wrong answers about one code, those still to come included.
AnswersInv ==
    \A s \in Serial \ slipped.codes :
        score[s].wrong + Cardinality(Counting(s)) <= MaxAnswers

\* The inductive invariant of the attempts.
LimitInv == AttemptsInv /\ CountedInv /\ AnswersInv

\* The numbers that are compared.
LEMMA Numbers ==
    ASSUME StoreInv
    PROVE  /\ MaxAttempts \in Nat \ {0} /\ hash.attempts \in Nat /\ hash.serial \in 0..MaxSerial
           /\ \A s \in Serial : score[s].wrong \in Nat
           /\ \A d \in Caller : call[d].serial \in 0..MaxSerial
  BY LimitsAssumption DEF StoreInv, Types, HashType, ScoreType, CallType

\* A step that moves no call to or from the places that count, and leaves the
\* hash and the answers alone or empties the key.
LEMMA QuietLimit ==
    ASSUME StoreInv, LimitInv, hash' = hash \/ hash' = Absent,
           slipped.codes \subseteq slipped'.codes,
           \A s \in Serial : score'[s].wrong = score[s].wrong,
           \/ hash' = Absent \/ hash.serial \in slipped'.codes
           \/ Cardinality(Burning') = Cardinality(Burning),
           Cardinality(Burning') \in Nat,
           \A s \in Serial : /\ Cardinality((Counting(s))') \in Nat
                            /\ Cardinality((Counting(s))') <= Cardinality(Counting(s))
    PROVE  LimitInv'
<1>1. AttemptsInv'
  <2>1. CASE hash' = Absent
    BY <2>1, Numbers DEF AttemptsInv, Absent
  <2>2. CASE hash' = hash /\ hash' # Absent
    BY <2>2, Numbers DEF AttemptsInv, LimitInv
  <2>3. QED
    BY <2>1, <2>2
<1>2. CountedInv'
  <2>1. CASE hash' = Absent
    BY <2>1, AbsentHash DEF CountedInv, Serial
  <2>2. CASE hash' = hash
    BY <2>2 DEF CountedInv, LimitInv, Serial
  <2>3. QED
    BY <2>1, <2>2
<1>3. AnswersInv'
  <2> SUFFICES ASSUME NEW s \in Serial \ slipped'.codes
               PROVE  score'[s].wrong + Cardinality((Counting(s))') <= MaxAnswers
    BY DEF AnswersInv, Serial, MaxAnswers
  <2>1. score[s].wrong + Cardinality(Counting(s)) <= MaxAnswers
    BY DEF AnswersInv, LimitInv
  <2>2. MaxAnswers \in Nat
    BY CallSets, Numbers DEF MaxAnswers
  <2>3. QED
    BY <2>1, <2>2, CallSets, Numbers
<1>4. QED
  BY <1>1, <1>2, <1>3 DEF LimitInv

\* Request: nobody counts and nobody burns.
LEMMA RequestLimit ==
    ASSUME StoreInv, LimitInv, NEW c \in Caller, RequestIncr(c) \/ RequestExpire(c)
    PROVE  LimitInv'
<1>1. Types
  BY DEF StoreInv
<1>2. \A d \in Caller \ {c} : call'[d] = call[d]
  BY <1>1, OthersStay DEF Request
<1>3. call[c].pc \in {"idle", "window"} /\ call'[c].pc \in {"idle", "window", "store"}
  <2>1. CASE RequestIncr(c)
    <3>1. PICK step \in {Idle, Step("window", 0, TRUE), Step("store", 0, TRUE)} : Goto(c, step)
      BY <2>1 DEF RequestIncr
    <3>2. call'[c] = step
      BY <1>1, <3>1 DEF Goto, Types
    <3>3. QED
      BY <2>1, <3>2 DEF RequestIncr, Idle, Step
  <2>2. CASE RequestExpire(c)
    BY <1>1, <2>2, MoveOn DEF RequestExpire
  <2>3. QED
    BY <2>1, <2>2
<1>4. Burning' = Burning /\ \A s : (Counting(s))' = Counting(s)
  BY <1>2, <1>3 DEF Burning, Counting
<1>5. /\ hash' = hash /\ score' = score /\ slipped'.codes = slipped.codes
  BY <1>1 DEF RequestIncr, RequestExpire, Types, SlippedType
<1>6. QED
  BY <1>4, <1>5, CallSets, QuietLimit

\* A fresh code has no answers yet.
LEMMA StoreLimit ==
    ASSUME StoreInv, LimitInv, NEW c \in Caller, RequestStore(c)
    PROVE  LimitInv'
<1>1. Types
  BY DEF StoreInv
<1>2. \A d \in Caller \ {c} : call'[d] = call[d]
  BY <1>1, OthersStay DEF Request
<1>3. call[c].pc = "store" /\ call'[c].pc = "idle"
  BY <1>1 DEF RequestStore, Finish, Goto, Idle, Types
<1>4. Burning' = Burning /\ \A s : (Counting(s))' = Counting(s)
  BY <1>2, <1>3 DEF Burning, Counting
<1>5. /\ hash'.attempts = 0 /\ hash'.serial = last + 1 /\ UNCHANGED <<score, slipped>>
  BY DEF RequestStore
<1>6. AttemptsInv'
  BY <1>4, <1>5, CallSets, Numbers DEF AttemptsInv
<1>7. CountedInv'
  <2>1. last + 1 > last
    BY LimitsAssumption DEF StoreInv, Types
  <2>2. last + 1 \in Serial => score[last + 1].wrong = 0
    BY <2>1 DEF StoreInv, SerialInv
  <2>3. QED
    BY <1>5, <2>2 DEF CountedInv, Serial
<1>8. AnswersInv'
  BY <1>4, <1>5 DEF LimitInv, AnswersInv, Serial, MaxAnswers
<1>9. QED
  BY <1>6, <1>7, <1>8 DEF LimitInv

\* HGETALL: the calls that wait for their count and those that burn are
\* different calls, so the code in the key has room for one more.
LEMMA ReadLimit ==
    ASSUME StoreInv, LimitInv, NEW c \in Caller, NEW guess \in Code \cup {Empty},
           VerifyRead(c, guess)
    PROVE  LimitInv'
<1>1. Types
  BY DEF StoreInv
<1>2. \A d \in Caller \ {c} : call'[d] = call[d]
  BY <1>1, OthersStay DEF Verify
<1>3. UNCHANGED <<hash, score, slipped>>
  BY DEF VerifyRead
<1>4. PICK pc \in {"count", "consume"} : Goto(c, Step(pc, hash.serial, FALSE))
  BY DEF VerifyRead
<1>5. call[c].pc = "idle" /\ call'[c].pc = pc /\ call'[c].serial = hash.serial
  BY <1>1, <1>4 DEF VerifyRead, Idle, Goto, Step, Types
<1>6. Burning' = Burning
  BY <1>2, <1>5 DEF Burning
<1>7. \A s : s # hash.serial => (Counting(s))' = Counting(s)
  BY <1>2, <1>5 DEF Counting
<1>8. AttemptsInv' /\ CountedInv'
  BY <1>3, <1>6 DEF LimitInv, AttemptsInv, CountedInv, Serial
<1>9. AnswersInv'
  <2> SUFFICES ASSUME NEW s \in Serial \ slipped.codes
               PROVE  score[s].wrong + Cardinality((Counting(s))') <= MaxAnswers
    BY <1>3 DEF AnswersInv, Serial, MaxAnswers
  <2>1. CASE s # hash.serial
    BY <1>7, <2>1 DEF LimitInv, AnswersInv
  <2>2. CASE s = hash.serial
    <3>1. score[s].wrong <= MaxAttempts - 1 + Cardinality(Burning)
      <4>1. score[s].wrong <= hash.attempts
        BY <2>2 DEF LimitInv, CountedInv
      <4>2. hash.attempts <= MaxAttempts - 1 + Cardinality(Burning)
        BY <2>2 DEF LimitInv, AttemptsInv
      <4>3. QED
        BY <4>1, <4>2, CallSets, Numbers
    <3>2. /\ Cardinality((Counting(s))') \in Nat
          /\ Cardinality(Burning) + Cardinality((Counting(s))') <= Cardinality(Caller)
      BY <1>6, PrimedSets
    <3>3. QED
      BY <3>1, <3>2, CallSets, Numbers DEF MaxAnswers
  <2>3. QED
    BY <2>1, <2>2
<1>10. QED
  BY <1>8, <1>9 DEF LimitInv

\* HINCRBY: the answer that was to come is given and counted, and a call that
\* takes the counter to the limit goes on to burn the code.
LEMMA CountLimit ==
    ASSUME StoreInv, LimitInv, NEW c \in Caller, VerifyCount(c)
    PROVE  LimitInv'
<1>0. PICK t \in 0..MaxSerial : t = call[c].serial
  BY Numbers
<1>1. Types
  BY DEF StoreInv
<1>2. \A d \in Caller \ {c} : call'[d] = call[d]
  BY <1>1, OthersStay DEF Verify
<1>3. /\ slipped' = slipped
      /\ hash'.attempts = hash.attempts + 1 /\ hash'.serial = hash.serial
      /\ call[c].pc = "count"
  BY <1>0, <1>1, Numbers, CountedHash DEF VerifyCount, Types
<1>4. \A s \in Serial : score'[s].wrong =
          IF s = t /\ t \notin slipped.codes THEN score[s].wrong + 1 ELSE score[s].wrong
  BY <1>0, <1>1, <1>3, WrongScore DEF VerifyCount
<1>5. /\ call'[c].pc \in {"idle", "burn"}
      /\ hash.attempts + 1 >= MaxAttempts => call'[c].pc = "burn"
  <2>1. CASE hash.attempts + 1 >= MaxAttempts
    <3>1. Goto(c, [call[c] EXCEPT !.pc = "burn"])
      BY <1>1, <2>1, CountedHash DEF VerifyCount, TooMany, Types
    <3>2. QED
      BY <1>1, <3>1, MoveOn
  <2>2. CASE ~(hash.attempts + 1 >= MaxAttempts)
    <3>1. Goto(c, Idle)
      BY <1>1, <2>2, CountedHash DEF VerifyCount, TooMany, Types
    <3>2. QED
      BY <1>1, <2>2, <3>1 DEF Goto, Idle, Types
  <2>3. QED
    BY <2>1, <2>2
<1>6. /\ Cardinality(Burning') \in Nat /\ Cardinality(Burning) \in Nat
      /\ Cardinality(Burning) <= Cardinality(Burning')
      /\ call'[c].pc = "burn" => Cardinality(Burning') = Cardinality(Burning) + 1
  <2>1. c \notin Burning /\ (c \in Burning' <=> call'[c].pc = "burn")
    BY <1>3 DEF Burning
  <2>2. Burning' \ {c} = Burning \ {c}
    BY <1>2, CallMoves
  <2>3. QED
    BY <2>1, <2>2, CallSets, OneMoves
<1>7. \A s \in Serial \ {t} : (Counting(s))' = Counting(s)
  BY <1>0, <1>2, <1>3, <1>5 DEF Counting
<1>8. /\ Cardinality((Counting(t))') \in Nat
      /\ Cardinality((Counting(t))') + 1 = Cardinality(Counting(t))
  <2>1. c \in Counting(t) /\ c \notin (Counting(t))'
    BY <1>0, <1>3, <1>5 DEF Counting
  <2>2. (Counting(t))' \ {c} = Counting(t) \ {c}
    BY <1>2, CallMoves
  <2>3. QED
    BY <2>1, <2>2, CallSets, OneMoves
<1>9. AttemptsInv'
  BY <1>3, <1>5, <1>6, Numbers DEF LimitInv, AttemptsInv
<1>10. CountedInv'
  <2> SUFFICES ASSUME hash.serial \in Serial \ slipped.codes
               PROVE  score'[hash.serial].wrong <= hash.attempts + 1
    BY <1>3 DEF CountedInv, Serial
  <2>1. score[hash.serial].wrong <= hash.attempts
    BY DEF LimitInv, CountedInv
  <2>2. QED
    BY <1>4, <2>1, Numbers
<1>11. AnswersInv'
  <2> SUFFICES ASSUME NEW s \in Serial \ slipped.codes
               PROVE  score'[s].wrong + Cardinality((Counting(s))') <= MaxAnswers
    BY <1>3 DEF AnswersInv, Serial, MaxAnswers
  <2>1. score[s].wrong + Cardinality(Counting(s)) <= MaxAnswers
    BY DEF LimitInv, AnswersInv
  <2>2. CASE s = t
    BY <1>4, <1>8, <2>1, <2>2, CallSets, Numbers
  <2>3. CASE s # t
    BY <1>4, <1>7, <2>1, <2>3
  <2>4. QED
    BY <2>2, <2>3
<1>12. QED
  BY <1>9, <1>10, <1>11 DEF LimitInv

\* A call ends.  One that was to burn the code has emptied the key, or the
\* code is one whose DEL did not happen.
LEMMA EndLimit ==
    ASSUME StoreInv, LimitInv, NEW c \in Caller, VerifyBurn(c) \/ VerifyConsume(c) \/ Stop(c)
    PROVE  LimitInv'
<1>1. Types
  BY DEF StoreInv
<1>2. \A d \in Caller \ {c} : call'[d] = call[d]
  BY <1>1, OthersStay DEF Verify
<1>3. call'[c].pc = "idle"
  <2>1. Goto(c, Idle)
    BY DEF VerifyBurn, VerifyConsume, Stop, Finish
  <2>2. QED
    BY <1>1, <2>1 DEF Goto, Idle, Types
<1>4. hash' = hash \/ hash' = Absent
  BY DEF VerifyBurn, VerifyConsume, Stop
<1>5. \A s \in Serial : score'[s].wrong = score[s].wrong
  <2>1. score' = score \/ \E wins \in {0, 1} : score' = Ended(call[c].serial, wins)
    BY DEF VerifyBurn, VerifyConsume, Stop
  <2>2. QED
    BY <1>1, <2>1, Numbers, EndedScore
<1>6. slipped.codes \subseteq slipped'.codes
  <2>1. \/ slipped' = slipped \/ slipped' = [slipped EXCEPT !.window = TRUE]
        \/ slipped' = Undeleted(call[c].serial)
    BY DEF VerifyBurn, VerifyConsume, Stop
  <2>2. [slipped EXCEPT !.window = TRUE].codes = slipped.codes
    BY <1>1 DEF Types, SlippedType
  <2>3. QED
    BY <1>1, <2>1, <2>2, Numbers, UndeletedCodes
<1>7. call[c].pc = "burn" => hash' = Absent \/ hash.serial \in slipped'.codes
  BY <1>1, Numbers, UndeletedCodes DEF VerifyBurn, VerifyConsume, Stop
<1>8. call[c].pc # "burn" => Burning' = Burning
  BY <1>2, <1>3 DEF Burning
<1>9. \A s \in Serial : /\ Cardinality((Counting(s))') \in Nat
                       /\ Cardinality((Counting(s))') <= Cardinality(Counting(s))
  <2> TAKE s \in Serial
  <2>1. (Counting(s))' \subseteq Counting(s)
    BY <1>2, <1>3 DEF Counting
  <2>2. QED
    BY <2>1, CallSets, PrimedSets, FS_Subset
<1>10. Cardinality(Burning') \in Nat
  BY PrimedSets
<1>11. QED
  BY <1>4, <1>5, <1>6, <1>7, <1>8, <1>9, <1>10, QuietLimit

\* Every step preserves the invariant of the attempts.
LEMMA NextLimitInv == StoreInv /\ LimitInv /\ [Next]_vars => LimitInv'
<1> SUFFICES ASSUME StoreInv, LimitInv, [Next]_vars
             PROVE  LimitInv'
  OBVIOUS
<1>1. ASSUME NEW c \in Caller, Request(c) \/ Verify(c) \/ Stop(c)
      PROVE  LimitInv'
  BY <1>1, RequestLimit, StoreLimit, ReadLimit, CountLimit, EndLimit DEF Request, Verify
<1>2. CASE ExpireCode \/ ExpireWindow \/ UNCHANGED vars
  <2>1. /\ hash' = hash \/ hash' = Absent
        /\ UNCHANGED <<score, slipped>>
    BY <1>2 DEF ExpireCode, ExpireWindow, vars
  <2>2. \A c \in Caller : call'[c].pc = call[c].pc /\ call'[c].serial = call[c].serial
    BY <1>2 DEF ExpireCode, ExpireWindow, vars, StoreInv, Types, CallType
  <2>3. Burning' = Burning /\ \A s : (Counting(s))' = Counting(s)
    BY <2>2 DEF Burning, Counting
  <2>4. QED
    BY <2>1, <2>3, CallSets, QuietLimit
<1>3. QED
  BY <1>1, <1>2 DEF Next

\* The invariant of the attempts holds throughout.
LEMMA LimitInvariance == Spec => []LimitInv
<1>1. Init => LimitInv
  <2> SUFFICES ASSUME Init
               PROVE  LimitInv
    OBVIOUS
  <2>1. /\ hash.attempts = 0 /\ hash.serial = 0
        /\ \A s \in Serial : score[s].wrong = 0
    BY DEF Init, Absent
  <2>2. \A s : Counting(s) = {}
    BY DEF Init, Counting, Idle
  <2>3. MaxAnswers \in Nat
    BY CallSets, LimitsAssumption DEF MaxAnswers
  <2>4. QED
    BY <2>1, <2>2, <2>3, CallSets, FS_EmptySet, LimitsAssumption
       DEF LimitInv, AttemptsInv, CountedInv, AnswersInv, Serial
<1>2. QED
  BY <1>1, StoreInvariance, NextLimitInv, PTL DEF Spec

\* One code answers at most MaxAttempts - 1 + |Caller| wrong guesses before it
\* is gone, unless its DEL failed: for any finite number of callers, each of
\* which may read the hash before the others count.
THEOREM WrongAnswersAreBounded == Spec => []AnswersBounded
<1>1. StoreInv /\ LimitInv => AnswersBounded
  <2> SUFFICES ASSUME StoreInv, LimitInv, NEW s \in Serial \ slipped.codes
               PROVE  score[s].wrong <= MaxAnswers
    BY DEF AnswersBounded
  <2>1. score[s].wrong + Cardinality(Counting(s)) <= MaxAnswers
    BY DEF LimitInv, AnswersInv
  <2>2. MaxAnswers \in Nat
    BY CallSets, LimitsAssumption DEF MaxAnswers
  <2>3. QED
    BY <2>1, <2>2, CallSets, Numbers
<1>2. QED
  BY <1>1, StoreInvariance, LimitInvariance, PTL

\* Types, and the attempts counter stays within MaxAnswers unless a DEL failed.
THEOREM TypeCorrect == Spec => []TypeOK
<1>1. StoreInv /\ LimitInv => TypeOK
  <2> SUFFICES ASSUME StoreInv, LimitInv
               PROVE  TypeOK
    OBVIOUS
  <2>1. hash.serial \in slipped.codes \/ hash.attempts <= MaxAnswers
    <3> SUFFICES ASSUME hash.serial \notin slipped.codes
                 PROVE  hash.attempts <= MaxAnswers
      OBVIOUS
    <3>1. hash.attempts <= MaxAttempts - 1 + Cardinality(Burning)
      BY DEF LimitInv, AttemptsInv
    <3>2. QED
      BY <3>1, CallSets, Numbers DEF MaxAnswers
  <2>2. QED
    BY <2>1 DEF StoreInv, Types, TypeOK, HashType, CallType, ScoreType, SlippedType
<1>2. QED
  BY <1>1, StoreInvariance, LimitInvariance, PTL
=============================================================================

------------------------- MODULE EventPipelineProofs -------------------------
(***************************************************************************)
(* Proofs about EventPipeline, for any number of users, relays, board      *)
(* processes and faults, any batch sizes and any choice of the commands    *)
(* that may fail.                                                          *)
(***************************************************************************)
EXTENDS EventPipeline, FiniteSetTheorems, WellFoundedInduction, TLAPS

\* An entry of the stream, and the consumer of a board process.
Entry == [user : UserId, state : {"new", "pending", "acked"},
          owner : ((Consumer \cup {None}) \X (0..(MaxFaults + 1))) \cup {None}]

Worker == [pc : {"down", "stopped", "read", "handle", "ack"}, cursor : {"0", ">"},
           msgs : SUBSET DOMAIN stream, host : 0..(MaxFaults + 1)]

InStream(u) == \E i \in DOMAIN stream : stream[i].user = u

\* Redis only appends to the stream, and a host name changes with a crash.
ShapeInv ==
    /\ stream \in Seq(Entry)
    /\ \A c \in Consumer : cons[c].host <= faults + 1

\* A relay works on committed rows, and its row is in the stream when it is
\* about to be marked.
RelayInv ==
    \A r \in Relay :
        /\ relay[r].batch \subseteq Users
        /\ relay[r].pc = "mark" => relay[r].batch # {} /\ InStream(Min(relay[r].batch))

\* What a consumer works on was delivered to its name; a process of the same
\* name may have acknowledged it since.
OwnerInv ==
    \A c \in Consumer : \A i \in cons[c].msgs :
        stream[i].state # "new" /\ stream[i].owner = NameOf(c)

\* A consumer acknowledges what it has applied.
AckInv ==
    \A c \in Consumer : cons[c].pc = "ack" => stream[Min(cons[c].msgs)].user \in authors

\* The inductive invariant.
IInv ==
    /\ TypeOK /\ ShapeInv /\ RelayInv /\ OwnerInv /\ AckInv
    /\ NoPhantomUser /\ PublishedIsInStream /\ AckedIsApplied

-----------------------------------------------------------------------------
(* The operators of the model.                                             *)

\* Min of a set of numbers is its least element: < is well-founded.
LEMMA MinIsLeast ==
    ASSUME NEW S \in SUBSET Nat, S # {}
    PROVE  Min(S) \in S /\ \A y \in S : Min(S) <= y
<1> DEFINE Less == {p \in Nat \X Nat : p[1] < p[2]}
<1>1. IsWellFoundedOn(Less, Nat)
  BY NatLessThanWellFounded DEF OpToRel
<1>2. PICK x \in S : \A y \in S : ~(<<y, x>> \in Less)
  <2> HIDE DEF Less
  <2> QED
    BY <1>1, WFMin, Zenon
<1>3. ASSUME NEW y \in S
      PROVE  x <= y
  <2>1. x \in Nat /\ y \in Nat /\ ~(<<y, x>> \in Less)
    BY <1>2
  <2>2. QED
    BY <2>1
<1>4. QED
  BY <1>3 DEF Min

\* A batch is part of what there is, and not empty when there is something.
LEMMA FirstNPart ==
    ASSUME NEW S \in SUBSET Nat, NEW n \in Nat \ {0}
    PROVE  FirstN(S, n) \subseteq S /\ (S # {} => FirstN(S, n) # {})
<1>1. ASSUME S # {}
      PROVE  Min(S) \in FirstN(S, n)
  <2>1. Min(S) \in S /\ \A y \in S : Min(S) <= y
    BY <1>1, MinIsLeast
  <2>2. ASSUME NEW y \in S
        PROVE  y <= Min(S) <=> y = Min(S)
    <3>1. y \in Nat /\ Min(S) \in Nat /\ Min(S) <= y
      BY <2>1
    <3>2. QED
      BY <3>1
  <2>3. {y \in S : y <= Min(S)} = {Min(S)}
    BY <2>1, <2>2
  <2>4. \A x : Cardinality({x}) = 1
    BY FS_Singleton, Zenon
  <2>5. Cardinality({y \in S : y <= Min(S)}) <= n
    BY <2>3, <2>4
  <2>6. QED
    BY <2>1, <2>5 DEF FirstN
<1>2. QED
  BY <1>1 DEF FirstN

\* XADD puts one entry behind the others.
LEMMA AppendEntry ==
    ASSUME NEW E, NEW s \in Seq(E), NEW e \in E
    PROVE  /\ Append(s, e) \in Seq(E)
           /\ DOMAIN Append(s, e) = DOMAIN s \cup {Len(s) + 1}
           /\ \A i \in DOMAIN s : Append(s, e)[i] = s[i]
           /\ Append(s, e)[Len(s) + 1] = e
  OBVIOUS

\* The group's bookkeeping changes entries and leaves the stream a sequence.
LEMMA SameLength ==
    ASSUME NEW E, NEW s \in Seq(E), NEW t \in [DOMAIN s -> E]
    PROVE  t \in Seq(E)
  OBVIOUS

\* What the typing of a state says, in the terms used here.
LEMMA Typing ==
    ASSUME TypeOK
    PROVE  /\ cons \in [Consumer -> Worker]
           /\ \A i \in DOMAIN stream : stream[i] \in Entry
           /\ \A c \in Consumer : cons[c].msgs \subseteq DOMAIN stream
           /\ \A r \in Relay : relay[r].batch \subseteq UserId
  BY DEF TypeOK, Worker, Entry

\* The message at hand, and the row at hand, are among those of the batch.
LEMMA Heads ==
    ASSUME TypeOK, ShapeInv
    PROVE  /\ \A c \in Consumer : cons[c].msgs # {} => Min(cons[c].msgs) \in cons[c].msgs
           /\ \A r \in Relay : relay[r].batch # {} => Min(relay[r].batch) \in relay[r].batch
<1>1. ASSUME NEW c \in Consumer
      PROVE  cons[c].msgs \in SUBSET Nat
  <2>1. DOMAIN stream \subseteq Nat
    BY DEF ShapeInv
  <2>2. QED
    BY <2>1, Typing
<1>2. ASSUME NEW r \in Relay
      PROVE  relay[r].batch \in SUBSET Nat
  <2>1. UserId \subseteq Nat
    BY PipelineAssumption DEF UserId
  <2>2. QED
    BY <2>1, Typing
<1>3. QED
  BY <1>1, <1>2, MinIsLeast

\* The pipeline starts in the invariant.
LEMMA InitIInv == Init => IInv
<1> SUFFICES ASSUME Init
             PROVE  IInv
  OBVIOUS
<1>1. stream = <<>> /\ DOMAIN stream = {} /\ stream \in Seq(Entry)
  BY DEF Init
<1>2. TypeOK
  <2>1. 0 \in 0..MaxFaults /\ {0, 1} \subseteq 0..(MaxFaults + 1)
    BY PipelineAssumption
  <2>2. PICK host \in {0, 1} : cons = [c \in Consumer |-> Down(host)]
    BY DEF Init
  <2>3. Down(host) \in Worker /\ Down(host).msgs = {} /\ Down(host).pc = "down"
    BY <2>1 DEF Down, Worker
  <2>4. /\ cons \in [Consumer -> Worker]
        /\ \A c \in Consumer : cons[c].msgs = {} /\ cons[c].pc = "down"
    BY <2>2, <2>3
  <2>5. relay \in [Relay -> [pc : {"add", "mark"}, batch : SUBSET UserId]]
    BY DEF Init, IdleRelay
  <2>6. QED
    BY <1>1, <2>1, <2>4, <2>5 DEF Init, TypeOK, Worker
<1>3. ShapeInv
  BY <1>1 DEF Init, ShapeInv, Down
<1>4. RelayInv /\ OwnerInv /\ AckInv
  BY DEF Init, RelayInv, OwnerInv, AckInv, IdleRelay, Down
<1>5. NoPhantomUser /\ PublishedIsInStream /\ AckedIsApplied
  BY <1>1 DEF Init, NoPhantomUser, PublishedIsInStream, AckedIsApplied
<1>6. QED
  BY <1>2, <1>3, <1>4, <1>5 DEF IInv

-----------------------------------------------------------------------------
(* Signup and the relay.                                                   *)

\* A transaction begins or ends: committed users stay committed.
LEMMA CreateStep ==
    ASSUME IInv, NEW u \in UserId, BeginCreate(u) \/ EndCreate(u)
    PROVE  IInv'
<1>1. /\ Users \subseteq Users'
      /\ tx' \in [UserId -> {"none", "open", "committed", "rolledback"}]
      /\ UNCHANGED <<published, relay, stream, group, cons, authors, faults>>
  BY DEF IInv, TypeOK, BeginCreate, EndCreate, Users
<1>2. TypeOK'
  BY <1>1 DEF IInv, TypeOK
<1>3. ShapeInv' /\ OwnerInv' /\ AckInv' /\ PublishedIsInStream' /\ AckedIsApplied'
  BY <1>1 DEF IInv, ShapeInv, OwnerInv, NameOf, AckInv, PublishedIsInStream, AckedIsApplied
<1>4. RelayInv' /\ NoPhantomUser'
  BY <1>1 DEF IInv, RelayInv, InStream, NoPhantomUser
<1>5. QED
  BY <1>2, <1>3, <1>4 DEF IInv

\* A poll reads committed rows; a failure drops the batch.
LEMMA RelayBatchStep ==
    ASSUME IInv, NEW r \in Relay, RelayPoll(r) \/ RelayFail(r)
    PROVE  IInv'
<1> DEFINE batch == FirstN(Unpublished, RelayBatch)
<1>1. batch \subseteq Users
  <2>1. Unpublished \in SUBSET Nat
    BY PipelineAssumption DEF Unpublished, Users, UserId
  <2>2. QED
    BY <2>1, PipelineAssumption, FirstNPart DEF Unpublished
<1>2. Users \subseteq UserId
  BY DEF Users
<1> HIDE DEF batch
<1>3. /\ relay' \in [Relay -> [pc : {"add", "mark"}, batch : SUBSET UserId]]
      /\ relay'[r].pc = "add" /\ relay'[r].batch \subseteq Users
      /\ \A q \in Relay \ {r} : relay'[q] = relay[q]
  <2>1. CASE RelayPoll(r)
    BY <2>1, <1>1, <1>2 DEF IInv, TypeOK, RelayPoll, IdleRelay, batch
  <2>2. CASE RelayFail(r)
    BY <2>2 DEF IInv, TypeOK, RelayFail, IdleRelay
  <2>3. QED
    BY <2>1, <2>2
<1>4. /\ faults' \in 0..MaxFaults /\ faults <= faults'
      /\ UNCHANGED <<tx, published, stream, group, cons, authors>>
  BY PipelineAssumption DEF IInv, TypeOK, RelayPoll, RelayFail, Fault
<1>5. TypeOK'
  BY <1>3, <1>4 DEF IInv, TypeOK
<1>6. ShapeInv'
  BY <1>4 DEF IInv, TypeOK, ShapeInv
<1>7. RelayInv'
  BY <1>3, <1>4 DEF IInv, RelayInv, InStream, Users
<1>8. OwnerInv' /\ AckInv' /\ NoPhantomUser' /\ PublishedIsInStream' /\ AckedIsApplied'
  BY <1>4 DEF IInv, OwnerInv, NameOf, AckInv, NoPhantomUser, Users, PublishedIsInStream,
     AckedIsApplied
<1>9. QED
  BY <1>5, <1>6, <1>7, <1>8 DEF IInv

\* XADD: the event of a committed user joins the stream.
LEMMA RelayAddStep ==
    ASSUME IInv, NEW r \in Relay, RelayAdd(r)
    PROVE  IInv'
<1> DEFINE u == Min(relay[r].batch)
           e == [user |-> u, state |-> "new", owner |-> None]
           n == Len(stream) + 1
<1>1. u \in relay[r].batch /\ u \in Users /\ u \in UserId
  BY Heads DEF IInv, RelayAdd, RelayInv, Users
<1>2. stream \in Seq(Entry) /\ e \in Entry
  BY <1>1 DEF IInv, ShapeInv, Entry
<1>3. /\ stream' = Append(stream, e)
      /\ relay' = [relay EXCEPT ![r].pc = "mark"]
      /\ relay[r].batch # {}
      /\ UNCHANGED <<tx, published, group, cons, authors, faults>>
  BY DEF RelayAdd
<1> HIDE DEF u
<1>4. /\ stream' \in Seq(Entry)
      /\ DOMAIN stream' = DOMAIN stream \cup {n}
      /\ \A i \in DOMAIN stream : stream'[i] = stream[i]
      /\ stream'[n] = e
  BY <1>2, <1>3, AppendEntry
<1> HIDE DEF n
<1>5. /\ \A i \in DOMAIN stream' : stream'[i] \in Entry
      /\ \A c \in Consumer : cons[c].msgs \subseteq DOMAIN stream
  BY <1>2, <1>4, Typing DEF IInv
<1>6. TypeOK'
  <2>1. cons' \in [Consumer -> Worker']
    BY <1>3, <1>4 DEF IInv, TypeOK, Worker
  <2> DEFINE R == [pc : {"add", "mark"}, batch : SUBSET UserId]
             w == [relay[r] EXCEPT !.pc = "mark"]
  <2>2. relay' \in [Relay -> R]
    <3>1. relay \in [Relay -> R] /\ relay' = [relay EXCEPT ![r] = w]
      BY <1>3 DEF IInv, TypeOK
    <3>2. w \in R
      BY <3>1
    <3> HIDE DEF R, w
    <3>3. QED
      BY <3>1, <3>2
  <2>3. QED
    BY <1>3, <1>5, <2>1, <2>2 DEF IInv, TypeOK, Worker, Entry
<1>7. ShapeInv'
  BY <1>3, <1>4 DEF IInv, ShapeInv, Entry
<1>8. RelayInv'
  <2>1. /\ relay'[r].batch = relay[r].batch
        /\ \A q \in Relay \ {r} : relay'[q] = relay[q]
    BY <1>3 DEF IInv, TypeOK
  <2>2. /\ \E i \in DOMAIN stream' : stream'[i].user = u
        /\ \A v \in UserId : InStream(v) => \E i \in DOMAIN stream' : stream'[i].user = v
    BY <1>4 DEF InStream
  <2>3. ASSUME NEW q \in Relay
        PROVE  relay'[q].batch \subseteq Users'
    BY <1>3, <2>1 DEF IInv, RelayInv, Users
  <2>4. ASSUME NEW q \in Relay, relay'[q].pc = "mark"
        PROVE  /\ relay'[q].batch # {}
               /\ \E i \in DOMAIN stream' : stream'[i].user = Min(relay'[q].batch)
    <3>1. CASE q = r
      BY <1>3, <2>1, <2>2, <3>1 DEF u
    <3>2. CASE q # r
      <4>1. relay'[q] = relay[q] /\ relay[q].batch # {} /\ InStream(Min(relay[q].batch))
        BY <2>1, <2>4, <3>2 DEF IInv, RelayInv
      <4>2. Min(relay[q].batch) \in UserId
        BY <4>1, Heads, Typing DEF IInv
      <4>3. QED
        BY <4>1, <4>2, <2>2
    <3>3. QED
      BY <3>1, <3>2
  <2>5. QED
    BY <2>3, <2>4 DEF RelayInv, InStream
<1>9. OwnerInv'
  BY <1>3, <1>4, <1>5 DEF IInv, OwnerInv, NameOf
<1>10. AckInv'
  <2>1. \A c \in Consumer : cons[c].pc = "ack" => Min(cons[c].msgs) \in DOMAIN stream
    BY <1>5, Heads DEF IInv, TypeOK
  <2>2. QED
    BY <1>3, <1>4, <2>1 DEF IInv, AckInv
<1>11. NoPhantomUser' /\ PublishedIsInStream' /\ AckedIsApplied'
  BY <1>1, <1>3, <1>4 DEF IInv, NoPhantomUser, Users, PublishedIsInStream, AckedIsApplied
<1>12. QED
  BY <1>6, <1>7, <1>8, <1>9, <1>10, <1>11 DEF IInv

\* The row just added is marked.
LEMMA RelayMarkStep ==
    ASSUME IInv, NEW r \in Relay, RelayMark(r)
    PROVE  IInv'
<1> DEFINE u == Min(relay[r].batch)
<1>1. /\ u \in UserId /\ InStream(u)
  BY Heads, Typing DEF IInv, RelayMark, RelayInv
<1>2. /\ published' = published \cup {u}
      /\ relay' = [relay EXCEPT ![r] = [pc |-> "add", batch |-> @.batch \ {u}]]
      /\ UNCHANGED <<tx, stream, group, cons, authors, faults>>
  BY DEF RelayMark, MarkedRows
<1> HIDE DEF u
<1>3. /\ relay' \in [Relay -> [pc : {"add", "mark"}, batch : SUBSET UserId]]
      /\ relay'[r].pc = "add" /\ relay'[r].batch \subseteq relay[r].batch
      /\ \A q \in Relay \ {r} : relay'[q] = relay[q]
  BY <1>2 DEF IInv, TypeOK
<1>4. TypeOK'
  BY <1>1, <1>2, <1>3 DEF IInv, TypeOK
<1>5. RelayInv'
  BY <1>2, <1>3 DEF IInv, RelayInv, InStream, Users
<1>6. ShapeInv' /\ OwnerInv' /\ AckInv' /\ NoPhantomUser' /\ AckedIsApplied'
  BY <1>2 DEF IInv, ShapeInv, OwnerInv, NameOf, AckInv, NoPhantomUser, Users, AckedIsApplied
<1>7. PublishedIsInStream'
  BY <1>1, <1>2 DEF IInv, PublishedIsInStream, InStream
<1>8. QED
  BY <1>4, <1>5, <1>6, <1>7 DEF IInv

-----------------------------------------------------------------------------
(* The consumer.                                                           *)

\* A consumer never touches the identity side, nor the user of an entry.
LEMMA IdentitySide ==
    ASSUME IInv, UNCHANGED <<tx, published, relay>>,
           DOMAIN stream' = DOMAIN stream,
           \A i \in DOMAIN stream : stream'[i].user = stream[i].user,
           authors' \subseteq Users
    PROVE  RelayInv' /\ NoPhantomUser' /\ PublishedIsInStream'
  BY DEF IInv, RelayInv, InStream, NoPhantomUser, PublishedIsInStream, Users

\* The parts of the typing a consumer's step can disturb.
LEMMA ConsumerTyping ==
    ASSUME IInv, UNCHANGED <<tx, published, relay>>,
           DOMAIN stream' = DOMAIN stream,
           \A i \in DOMAIN stream : stream'[i] \in Entry,
           cons' \in [Consumer -> Worker],
           \A c \in Consumer : cons'[c].msgs # {} <=> cons'[c].pc \in {"handle", "ack"},
           group' \in BOOLEAN, authors' \subseteq Users, faults' \in 0..MaxFaults
    PROVE  TypeOK'
<1>1. authors' \subseteq UserId
  BY DEF Users
<1>2. cons' \in [Consumer -> Worker']
  BY DEF Worker
<1>3. QED
  BY <1>1, <1>2 DEF IInv, TypeOK, Worker, Entry

\* Steps that change nothing but the consumer's place, and drop messages.
LEMMA QuietConsumer ==
    ASSUME IInv, NEW c \in Consumer,
           UNCHANGED <<tx, published, relay, stream, authors>>,
           group' \in BOOLEAN, faults' \in 0..MaxFaults, faults <= faults',
           cons' \in [Consumer -> Worker],
           \A d \in Consumer \ {c} : cons'[d] = cons[d],
           cons'[c].pc # "ack",
           cons'[c].msgs # {} <=> cons'[c].pc = "handle",
           cons'[c].host <= faults' + 1,
           \A i \in cons'[c].msgs : stream[i].state # "new" /\ stream[i].owner = NameOf(c)'
    PROVE  IInv'
<1>1. authors' \subseteq Users
  BY DEF IInv, NoPhantomUser
<1>2. RelayInv' /\ NoPhantomUser' /\ PublishedIsInStream'
  BY <1>1, IdentitySide
<1>3. TypeOK'
  <2>1. \A d \in Consumer : cons'[d].msgs # {} <=> cons'[d].pc \in {"handle", "ack"}
    BY DEF IInv, TypeOK
  <2>2. \A i \in DOMAIN stream : stream'[i] \in Entry
    BY Typing DEF IInv
  <2>3. QED
    BY <1>1, <2>1, <2>2, ConsumerTyping
<1>4. ShapeInv'
  BY PipelineAssumption DEF IInv, ShapeInv, Entry, TypeOK
<1>5. OwnerInv'
  BY DEF IInv, OwnerInv, NameOf
<1>6. AckInv' /\ AckedIsApplied'
  BY DEF IInv, AckInv, AckedIsApplied
<1>7. QED
  BY <1>2, <1>3, <1>4, <1>5, <1>6 DEF IInv

\* Run creates the group, or gives up.
LEMMA StartStep ==
    ASSUME IInv, NEW c \in Consumer, Start(c) \/ StartFails(c)
    PROVE  IInv'
<1>1. cons \in [Consumer -> Worker] /\ cons[c].host <= faults + 1 /\ cons[c].msgs = {}
  BY Typing DEF IInv, ShapeInv, TypeOK, Start, StartFails
<1>2. /\ cons' \in [Consumer -> Worker]
      /\ \A d \in Consumer \ {c} : cons'[d] = cons[d]
      /\ cons'[c].pc \in {"read", "stopped"} /\ cons'[c].msgs = {}
      /\ cons'[c].host = cons[c].host
  BY <1>1 DEF Start, StartFails, Worker
<1>3. UNCHANGED <<tx, published, relay, stream, authors>> /\ group' \in BOOLEAN
  BY DEF Start, StartOfGroup, StartFails, IInv, TypeOK
<1>4. faults' \in 0..MaxFaults /\ faults <= faults' /\ faults \in Nat
  BY PipelineAssumption DEF Start, StartFails, Error, Fault, IInv, TypeOK
<1>5. cons'[c].host <= faults' + 1
  <2>1. cons[c].host \in Nat
    BY <1>1 DEF Worker
  <2>2. QED
    BY <1>1, <1>2, <1>4, <2>1
<1>6. QED
  BY <1>2, <1>3, <1>4, <1>5, QuietConsumer

\* The drain reads what is pending under this consumer's name.
LEMMA ReadPendingStep ==
    ASSUME IInv, NEW c \in Consumer, ReadPending(c)
    PROVE  IInv'
<1> DEFINE ms == FirstN(PendingOf(c), ReadCount)
<1>1. cons \in [Consumer -> Worker] /\ cons[c].host <= faults + 1 /\ cons[c].msgs = {}
  BY Typing DEF IInv, ShapeInv, TypeOK, ReadPending
<1>2. ms \subseteq PendingOf(c) /\ (PendingOf(c) # {} => ms # {})
  <2>1. PendingOf(c) \in SUBSET Nat
    BY DEF IInv, ShapeInv, PendingOf
  <2>2. QED
    BY <2>1, PipelineAssumption, FirstNPart
<1>3. /\ UNCHANGED <<tx, published, relay, stream, group, authors, faults>>
      /\ group \in BOOLEAN /\ faults \in 0..MaxFaults /\ faults <= faults
  BY PipelineAssumption DEF ReadPending, IInv, TypeOK
<1>4. ms \subseteq DOMAIN stream
  BY <1>2 DEF PendingOf
<1>5. \A i \in ms : stream[i].state # "new" /\ stream[i].owner = NameOf(c)
  BY <1>2 DEF PendingOf
<1> HIDE DEF ms
<1>6. CASE PendingOf(c) = {}
  <2>1. /\ cons' \in [Consumer -> Worker]
        /\ \A d \in Consumer \ {c} : cons'[d] = cons[d]
        /\ cons'[c].pc = "read" /\ cons'[c].msgs = {} /\ cons'[c].host = cons[c].host
    BY <1>1, <1>6 DEF ReadPending, Worker
  <2>2. QED
    BY <1>1, <1>3, <2>1, QuietConsumer
<1>7. CASE PendingOf(c) # {}
  <2>1. /\ cons' \in [Consumer -> Worker]
        /\ \A d \in Consumer \ {c} : cons'[d] = cons[d]
        /\ cons'[c].pc = "handle" /\ cons'[c].msgs = ms /\ cons'[c].host = cons[c].host
    BY <1>1, <1>4, <1>7 DEF ReadPending, Worker, ms
  <2>2. QED
    <3>1. NameOf(c)' = NameOf(c)
      BY <2>1 DEF NameOf
    <3>2. QED
      BY <1>1, <1>2, <1>3, <1>5, <1>7, <2>1, <3>1, QuietConsumer
<1>8. QED
  BY <1>6, <1>7

\* The group delivers new entries to one consumer, or their reply is lost.
LEMMA ReadNewStep ==
    ASSUME IInv, NEW c \in Consumer, ReadNew(c) \/ ReadNewReplyLost(c)
    PROVE  IInv'
<1> DEFINE ms == FirstN(New, ReadCount)
<1>1. ms \subseteq New /\ ms # {}
  <2>1. New \in SUBSET Nat
    BY DEF IInv, ShapeInv, New
  <2>2. QED
    BY <2>1, PipelineAssumption, FirstNPart DEF ReadNew, ReadNewReplyLost
<1>2. /\ ms \subseteq DOMAIN stream
      /\ \A i \in ms : stream[i].state = "new"
  BY <1>1 DEF New
<1>3. /\ cons \in [Consumer -> Worker] /\ cons[c].host \in 0..(MaxFaults + 1)
      /\ cons[c].msgs = {} /\ cons[c].pc = "read"
      /\ \A i \in DOMAIN stream : stream[i] \in Entry
      /\ \A d \in Consumer : cons[d].msgs \subseteq DOMAIN stream
  BY Typing DEF IInv, TypeOK, ReadNew, ReadNewReplyLost
<1>4. /\ Deliver(c, ms)
      /\ cons' = cons \/ cons' = [cons EXCEPT ![c].pc = "handle", ![c].msgs = ms]
      /\ UNCHANGED <<tx, published, relay, group, authors>>
      /\ faults' \in 0..MaxFaults /\ faults <= faults'
  BY PipelineAssumption DEF ReadNew, ReadNewReplyLost, Error, Fault, IInv, TypeOK
<1> HIDE DEF ms
<1>5. /\ DOMAIN stream' = DOMAIN stream
      /\ \A i \in ms : stream'[i] = [stream[i] EXCEPT !.state = "pending", !.owner = NameOf(c)]
      /\ \A i \in DOMAIN stream \ ms : stream'[i] = stream[i]
      /\ stream' = [i \in DOMAIN stream |-> stream'[i]]
  BY <1>2, <1>4 DEF Deliver
<1>6. /\ \A i \in ms : /\ stream'[i] \in Entry /\ stream'[i].user = stream[i].user
                       /\ stream'[i].state = "pending" /\ stream'[i].owner = NameOf(c)
  <2>1. NameOf(c) \in (Consumer \cup {None}) \X (0..(MaxFaults + 1))
    BY <1>3, PipelineAssumption DEF NameOf
  <2> DEFINE Taken(e) == [e EXCEPT !.state = "pending", !.owner = NameOf(c)]
  <2>2. ASSUME NEW e \in Entry
        PROVE  /\ Taken(e) \in Entry /\ Taken(e).user = e.user
               /\ Taken(e).state = "pending" /\ Taken(e).owner = NameOf(c)
    BY <2>1 DEF Entry
  <2>3. \A i \in ms : stream[i] \in Entry /\ stream'[i] = Taken(stream[i])
    BY <1>2, <1>3, <1>5
  <2> HIDE DEF Taken
  <2>4. QED
    BY <2>2, <2>3
<1>7. /\ cons' \in [Consumer -> Worker]
      /\ \A d \in Consumer \ {c} : cons'[d] = cons[d]
      /\ cons'[c].pc # "ack"
      /\ cons'[c].msgs # {} <=> cons'[c].pc = "handle"
      /\ cons'[c].host = cons[c].host
      /\ cons'[c].msgs \subseteq ms
  BY <1>1, <1>2, <1>3, <1>4 DEF Worker
<1>8. \A i \in DOMAIN stream : stream'[i] \in Entry /\ stream'[i].user = stream[i].user
  BY <1>3, <1>5, <1>6
<1>9. authors' \subseteq Users
  BY <1>4 DEF IInv, NoPhantomUser
<1>10. RelayInv' /\ NoPhantomUser' /\ PublishedIsInStream'
  BY <1>4, <1>5, <1>8, <1>9, IdentitySide
<1>11. TypeOK'
  <2>1. \A d \in Consumer : cons'[d].msgs # {} <=> cons'[d].pc \in {"handle", "ack"}
    BY <1>7 DEF IInv, TypeOK
  <2>2. group' \in BOOLEAN
    BY <1>4 DEF IInv, TypeOK
  <2>3. QED
    BY <1>4, <1>5, <1>7, <1>8, <1>9, <2>1, <2>2, ConsumerTyping
<1>12. ShapeInv'
  <2>1. stream' \in [DOMAIN stream -> Entry]
    BY <1>5, <1>8
  <2>2. stream' \in Seq(Entry)
    BY <2>1, SameLength DEF IInv, ShapeInv
  <2>3. \A d \in Consumer : cons'[d].host <= faults' + 1
    <3>1. \A d \in Consumer : cons'[d].host = cons[d].host /\ cons[d].host <= faults + 1
      BY <1>7 DEF IInv, ShapeInv
    <3>2. \A d \in Consumer : cons[d].host \in Nat
      BY <1>3 DEF Worker
    <3>3. QED
      BY <1>4, <3>1, <3>2 DEF IInv, TypeOK
  <2>4. QED
    BY <2>2, <2>3 DEF ShapeInv, Entry
<1>13. OwnerInv'
  <2>0. \A d \in Consumer : NameOf(d)' = NameOf(d)
    BY <1>7 DEF NameOf
  <2>1. ASSUME NEW d \in Consumer \ {c}, NEW i \in cons[d].msgs
        PROVE  i \notin ms /\ i \in DOMAIN stream
    BY <1>2, <1>3 DEF IInv, OwnerInv
  <2>2. ASSUME NEW d \in Consumer, NEW i \in cons'[d].msgs
        PROVE  stream'[i].state # "new" /\ stream'[i].owner = NameOf(d)'
    <3>1. CASE d = c
      BY <1>6, <1>7, <2>0, <2>2, <3>1
    <3>2. CASE d # c
      <4>1. cons'[d] = cons[d] /\ i \in cons[d].msgs
        BY <1>7, <2>2, <3>2
      <4>2. stream'[i] = stream[i]
        BY <1>5, <2>1, <3>2, <4>1
      <4>3. QED
        BY <2>0, <4>1, <4>2 DEF IInv, OwnerInv
    <3>3. QED
      BY <3>1, <3>2
  <2>3. QED
    BY <2>2 DEF OwnerInv
<1>14. AckInv'
  <2>1. ASSUME NEW d \in Consumer, cons'[d].pc = "ack"
        PROVE  stream'[Min(cons'[d].msgs)].user \in authors'
    <3>1. d # c /\ cons'[d] = cons[d] /\ cons[d].pc = "ack"
      BY <1>7, <2>1
    <3>2. Min(cons[d].msgs) \in DOMAIN stream
      BY <1>3, <3>1, Heads DEF IInv, TypeOK
    <3>3. QED
      BY <1>4, <1>8, <3>1, <3>2 DEF IInv, AckInv
  <2>2. QED
    BY <2>1 DEF AckInv
<1>15. AckedIsApplied'
  <2>1. ASSUME NEW i \in DOMAIN stream', stream'[i].state = "acked"
        PROVE  stream'[i].user \in authors'
    <3>1. i \in DOMAIN stream \ ms
      BY <1>5, <1>6, <2>1
    <3>2. QED
      BY <1>4, <1>5, <2>1, <3>1 DEF IInv, AckedIsApplied
  <2>2. QED
    BY <2>1 DEF AckedIsApplied
<1>16. QED
  BY <1>10, <1>11, <1>12, <1>13, <1>14, <1>15 DEF IInv

\* After a message the consumer keeps the rest of its messages.
LEMMA NextMessageKeeps ==
    ASSUME IInv, NEW c \in Consumer, cons[c].pc \in {"handle", "ack"}, NextMessage(c)
    PROVE  /\ cons' \in [Consumer -> Worker]
           /\ \A d \in Consumer \ {c} : cons'[d] = cons[d]
           /\ cons'[c].pc # "ack"
           /\ cons'[c].msgs # {} <=> cons'[c].pc = "handle"
           /\ cons'[c].host = cons[c].host
           /\ cons'[c].msgs = cons[c].msgs \ {Min(cons[c].msgs)}
<1> DEFINE rest == cons[c].msgs \ {Min(cons[c].msgs)}
<1>1. cons \in [Consumer -> Worker]
  BY Typing DEF IInv
<1> DEFINE step == IF rest = {} THEN "read" ELSE "handle"
           w == [cons[c] EXCEPT !.msgs = rest, !.pc = step]
<1>2. cons' = [cons EXCEPT ![c] = w] /\ rest \subseteq cons[c].msgs
  BY DEF NextMessage
<1> HIDE DEF rest
<1>5. cons[c] \in Worker /\ step \in {"read", "handle"} /\ (rest # {} <=> step = "handle")
  BY <1>1
<1> HIDE DEF step
<1>6. w \in Worker /\ w.pc = step /\ w.msgs = rest /\ w.host = cons[c].host
  BY <1>2, <1>5 DEF Worker
<1> HIDE DEF w
<1>3. /\ cons' \in [Consumer -> Worker]
      /\ \A d \in Consumer \ {c} : cons'[d] = cons[d]
      /\ cons'[c].pc # "ack"
      /\ cons'[c].msgs # {} <=> cons'[c].pc = "handle"
      /\ cons'[c].host = cons[c].host
      /\ cons'[c].msgs = rest
  BY <1>1, <1>2, <1>5, <1>6
<1>4. QED
  BY <1>3 DEF rest

\* The author row is written: the message may be acknowledged.
LEMMA HandleStep ==
    ASSUME IInv, NEW c \in Consumer, Handle(c)
    PROVE  IInv'
<1> DEFINE m == Min(cons[c].msgs)
<1>1. /\ cons \in [Consumer -> Worker] /\ cons[c].msgs # {} /\ m \in DOMAIN stream
  BY Heads, Typing DEF IInv, TypeOK, Handle
<1>2. /\ authors' = authors \cup {stream[m].user}
      /\ cons' = [cons EXCEPT ![c].pc = "ack"]
      /\ UNCHANGED <<tx, published, relay, stream, group, faults>>
  BY DEF Handle
<1>3. authors' \subseteq Users /\ authors \subseteq authors'
  BY <1>1, <1>2 DEF IInv, NoPhantomUser
<1> HIDE DEF m
<1>4. /\ cons' \in [Consumer -> Worker]
      /\ \A d \in Consumer : /\ cons'[d].msgs = cons[d].msgs /\ cons'[d].host = cons[d].host
                             /\ d # c => cons'[d] = cons[d]
      /\ cons'[c].pc = "ack"
  BY <1>1, <1>2 DEF Worker
<1>5. TypeOK'
  <2>1. \A d \in Consumer : cons'[d].msgs # {} <=> cons'[d].pc \in {"handle", "ack"}
    BY <1>1, <1>4 DEF IInv, TypeOK
  <2>2. \A i \in DOMAIN stream : stream'[i] \in Entry
    BY <1>2, Typing DEF IInv
  <2>3. group' \in BOOLEAN /\ faults' \in 0..MaxFaults
    BY <1>2 DEF IInv, TypeOK
  <2>4. QED
    BY <1>2, <1>3, <1>4, <2>1, <2>2, <2>3, ConsumerTyping
<1>6. RelayInv' /\ NoPhantomUser' /\ PublishedIsInStream'
  BY <1>2, <1>3, IdentitySide
<1>7. ShapeInv'
  BY <1>2, <1>4 DEF IInv, ShapeInv, Entry
<1>8. OwnerInv'
  BY <1>2, <1>4 DEF IInv, OwnerInv, NameOf
<1>9. AckInv'
  <2>1. ASSUME NEW d \in Consumer, cons'[d].pc = "ack"
        PROVE  stream'[Min(cons'[d].msgs)].user \in authors'
    <3>1. CASE d = c
      BY <1>2, <1>4, <3>1 DEF m
    <3>2. CASE d # c
      BY <1>2, <1>3, <1>4, <2>1, <3>2 DEF IInv, AckInv
    <3>3. QED
      BY <3>1, <3>2
  <2>2. QED
    BY <2>1 DEF AckInv
<1>10. AckedIsApplied'
  BY <1>2, <1>3 DEF IInv, AckedIsApplied
<1>11. QED
  BY <1>5, <1>6, <1>7, <1>8, <1>9, <1>10 DEF IInv

\* A failure in handle or in XACK leaves the message pending.
LEMMA MessageFailsStep ==
    ASSUME IInv, NEW c \in Consumer, HandleFails(c) \/ AckFails(c)
    PROVE  IInv'
<1>1. /\ cons[c].pc \in {"handle", "ack"} /\ NextMessage(c)
      /\ UNCHANGED <<tx, published, relay, stream, group, authors>>
  BY DEF HandleFails, AfterFailure, AckFails
<1>2. /\ faults' \in 0..MaxFaults /\ faults <= faults' /\ faults \in Nat
  BY PipelineAssumption DEF HandleFails, AckFails, Error, Fault, IInv, TypeOK
<1>3. /\ cons' \in [Consumer -> Worker]
      /\ \A d \in Consumer \ {c} : cons'[d] = cons[d]
      /\ cons'[c].pc # "ack"
      /\ cons'[c].msgs # {} <=> cons'[c].pc = "handle"
      /\ cons'[c].host = cons[c].host
      /\ cons'[c].msgs \subseteq cons[c].msgs
  BY <1>1, NextMessageKeeps
<1>4. cons[c].host <= faults' + 1
  <2>1. cons[c].host \in Nat /\ cons[c].host <= faults + 1
    BY Typing DEF IInv, ShapeInv, Worker
  <2>2. QED
    BY <1>2, <2>1
<1>5. \A i \in cons'[c].msgs : stream[i].state # "new" /\ stream[i].owner = NameOf(c)'
  BY <1>3 DEF IInv, OwnerInv, NameOf
<1>6. group' \in BOOLEAN
  BY <1>1 DEF IInv, TypeOK
<1>7. QED
  BY <1>1, <1>2, <1>3, <1>4, <1>5, <1>6, QuietConsumer

\* A board process ends with nothing in hand.
LEMMA CrashStep ==
    ASSUME IInv, NEW c \in Consumer, Crash(c)
    PROVE  IInv'
<1> DEFINE host == IF NewHostOnRestart /\ cons[c].host # 0 THEN cons[c].host + 1 ELSE cons[c].host
<1>1. cons \in [Consumer -> Worker] /\ cons[c].host \in Nat /\ cons[c].host <= faults + 1
  BY Typing DEF IInv, ShapeInv, Worker
<1>2. faults' \in 0..MaxFaults /\ faults' = faults + 1 /\ faults \in Nat
  BY PipelineAssumption DEF Crash, Fault, IInv, TypeOK
<1>3. /\ UNCHANGED <<tx, published, relay, stream, group, authors>>
      /\ cons' = [cons EXCEPT ![c] = Down(host)]
  BY DEF Crash
<1>4. host \in 0..(MaxFaults + 1) /\ host <= faults' + 1
  BY <1>1, <1>2, PipelineAssumption
<1> HIDE DEF host
<1>5. /\ cons' \in [Consumer -> Worker]
      /\ \A d \in Consumer \ {c} : cons'[d] = cons[d]
      /\ cons'[c].pc = "down" /\ cons'[c].msgs = {} /\ cons'[c].host <= faults' + 1
  BY <1>1, <1>3, <1>4 DEF Down, Worker
<1>6. group' \in BOOLEAN /\ faults <= faults'
  BY <1>2, <1>3 DEF IInv, TypeOK
<1>7. QED
  BY <1>2, <1>3, <1>5, <1>6, QuietConsumer

\* XACK: the entry was applied, and it stays with the name it went to.
LEMMA AckStep ==
    ASSUME IInv, NEW c \in Consumer, Ack(c)
    PROVE  IInv'
<1> DEFINE m == Min(cons[c].msgs)
<1>1. /\ cons[c].pc = "ack" /\ NextMessage(c)
      /\ stream' = [stream EXCEPT ![m].state = "acked"]
      /\ UNCHANGED <<tx, published, relay, group, authors, faults>>
  BY DEF Ack
<1>2. /\ m \in cons[c].msgs /\ m \in DOMAIN stream /\ stream[m].user \in authors
      /\ \A i \in DOMAIN stream : stream[i] \in Entry
      /\ \A d \in Consumer : cons[d].msgs \subseteq DOMAIN stream
      /\ cons \in [Consumer -> Worker]
  BY <1>1, Heads, Typing DEF IInv, TypeOK, AckInv
<1>3. /\ cons' \in [Consumer -> Worker]
      /\ \A d \in Consumer \ {c} : cons'[d] = cons[d]
      /\ cons'[c].pc # "ack"
      /\ cons'[c].msgs # {} <=> cons'[c].pc = "handle"
      /\ cons'[c].host = cons[c].host
      /\ cons'[c].msgs = cons[c].msgs \ {m}
  BY <1>1, NextMessageKeeps
<1> HIDE DEF m
<1>4. /\ DOMAIN stream' = DOMAIN stream
      /\ stream'[m] \in Entry /\ stream'[m].user = stream[m].user
      /\ stream'[m].state = "acked" /\ stream'[m].owner = stream[m].owner
      /\ \A i \in DOMAIN stream \ {m} : stream'[i] = stream[i]
      /\ stream' \in [DOMAIN stream -> Entry]
  <2>1. stream \in [DOMAIN stream -> Entry]
    BY DEF IInv, ShapeInv
  <2>2. [stream[m] EXCEPT !.state = "acked"] \in Entry
    BY <1>2 DEF Entry
  <2>3. /\ [stream[m] EXCEPT !.state = "acked"].user = stream[m].user
        /\ [stream[m] EXCEPT !.state = "acked"].state = "acked"
        /\ [stream[m] EXCEPT !.state = "acked"].owner = stream[m].owner
    BY <1>2 DEF Entry
  <2>4. stream' = [stream EXCEPT ![m] = [stream[m] EXCEPT !.state = "acked"]]
    BY <1>1
  <2>5. stream'[m] = [stream[m] EXCEPT !.state = "acked"]
    BY <1>2, <2>1, <2>4
  <2>6. QED
    BY <1>2, <2>1, <2>2, <2>3, <2>4, <2>5
<1>5. \A i \in DOMAIN stream : stream'[i] \in Entry /\ stream'[i].user = stream[i].user
  BY <1>2, <1>4
<1>6. authors' \subseteq Users
  BY <1>1 DEF IInv, NoPhantomUser
<1>7. RelayInv' /\ NoPhantomUser' /\ PublishedIsInStream'
  BY <1>1, <1>4, <1>5, <1>6, IdentitySide
<1>8. TypeOK'
  <2>1. \A d \in Consumer : cons'[d].msgs # {} <=> cons'[d].pc \in {"handle", "ack"}
    BY <1>3 DEF IInv, TypeOK
  <2>2. group' \in BOOLEAN /\ faults' \in 0..MaxFaults
    BY <1>1 DEF IInv, TypeOK
  <2>3. QED
    BY <1>1, <1>3, <1>4, <1>5, <1>6, <2>1, <2>2, ConsumerTyping
<1>9. ShapeInv'
  <2>1. stream' \in Seq(Entry)
    BY <1>4, SameLength DEF IInv, ShapeInv
  <2>2. \A d \in Consumer : cons'[d].host <= faults' + 1
    BY <1>1, <1>3 DEF IInv, ShapeInv
  <2>3. QED
    BY <2>1, <2>2 DEF ShapeInv, Entry
<1>10. OwnerInv'
  <2>1. ASSUME NEW d \in Consumer, NEW i \in cons'[d].msgs
        PROVE  stream'[i].state # "new" /\ stream'[i].owner = NameOf(d)'
    <3>1. i \in cons[d].msgs /\ i \in DOMAIN stream
      BY <1>2, <1>3, <2>1
    <3>2. NameOf(d)' = NameOf(d)
      BY <1>3 DEF NameOf
    <3>3. stream[i].state # "new" /\ stream[i].owner = NameOf(d)
      BY <3>1 DEF IInv, OwnerInv
    <3>4. CASE i = m
      BY <1>4, <3>2, <3>3, <3>4
    <3>5. CASE i # m
      BY <1>4, <3>1, <3>2, <3>3, <3>5
    <3>6. QED
      BY <3>4, <3>5
  <2>2. QED
    BY <2>1 DEF OwnerInv
<1>11. AckInv'
  <2>1. ASSUME NEW d \in Consumer, cons'[d].pc = "ack"
        PROVE  stream'[Min(cons'[d].msgs)].user \in authors'
    <3>1. cons'[d] = cons[d] /\ cons[d].pc = "ack"
      BY <1>3, <2>1
    <3>2. Min(cons[d].msgs) \in DOMAIN stream
      BY <1>2, <3>1, Heads DEF IInv, TypeOK
    <3>3. QED
      BY <1>1, <1>5, <3>1, <3>2 DEF IInv, AckInv
  <2>2. QED
    BY <2>1 DEF AckInv
<1>12. AckedIsApplied'
  <2>1. ASSUME NEW i \in DOMAIN stream', stream'[i].state = "acked"
        PROVE  stream'[i].user \in authors'
    <3>1. CASE i = m
      BY <1>1, <1>2, <1>4, <3>1
    <3>2. CASE i # m
      BY <1>1, <1>4, <2>1, <3>2 DEF IInv, AckedIsApplied
    <3>3. QED
      BY <3>1, <3>2
  <2>2. QED
    BY <2>1 DEF AckedIsApplied
<1>13. QED
  BY <1>7, <1>8, <1>9, <1>10, <1>11, <1>12 DEF IInv

-----------------------------------------------------------------------------

\* Every step of the pipeline preserves the invariant.
LEMMA NextIInv == IInv /\ [Next]_vars => IInv'
<1> SUFFICES ASSUME IInv, [Next]_vars
             PROVE  IInv'
  OBVIOUS
<1>1. ASSUME NEW u \in UserId, BeginCreate(u) \/ EndCreate(u)
      PROVE  IInv'
  BY <1>1, CreateStep
<1>2. ASSUME NEW r \in Relay, RelayStep(r) \/ RelayFail(r)
      PROVE  IInv'
  BY <1>2, RelayBatchStep, RelayAddStep, RelayMarkStep DEF RelayStep
<1>3. ASSUME NEW c \in Consumer,
             \/ ConsumerStep(c) \/ StartFails(c) \/ ReadNewReplyLost(c)
             \/ HandleFails(c) \/ AckFails(c) \/ Crash(c)
      PROVE  IInv'
  BY <1>3, StartStep, ReadPendingStep, ReadNewStep, HandleStep, MessageFailsStep, AckStep,
     CrashStep DEF ConsumerStep
<1>4. CASE UNCHANGED vars
  BY <1>4 DEF vars, IInv, TypeOK, ShapeInv, RelayInv, InStream, OwnerInv, NameOf, AckInv,
     NoPhantomUser, PublishedIsInStream, AckedIsApplied, Users, Entry
<1>5. QED
  BY <1>1, <1>2, <1>3, <1>4 DEF Next

\* The invariant holds of every behaviour of the pipeline.
THEOREM Invariance == Spec => []IInv
  BY InitIInv, NextIInv, PTL DEF Spec

\* Every variable keeps its type: a consumer has messages in hand exactly
\* while it handles or acknowledges one.
THEOREM TypeCorrect == Spec => []TypeOK
<1>1. IInv => TypeOK
  BY DEF IInv
<1>2. QED
  BY <1>1, Invariance, PTL

\* Neither the relay nor a consumer invents a user, whatever they repeat.
THEOREM PhantomFree == Spec => []NoPhantomUser
<1>1. IInv => NoPhantomUser
  BY DEF IInv
<1>2. QED
  BY <1>1, Invariance, PTL

\* A row is marked published only once its event is in the stream.
THEOREM OutboxIsPublished == Spec => []PublishedIsInStream
<1>1. IInv => PublishedIsInStream
  BY DEF IInv
<1>2. QED
  BY <1>1, Invariance, PTL

\* An acknowledged event has been applied.
THEOREM AtLeastOnce == Spec => []AckedIsApplied
<1>1. IInv => AckedIsApplied
  BY DEF IInv
<1>2. QED
  BY <1>1, Invariance, PTL

\* No two board processes with names of their own work on the same entry.
THEOREM Exclusive == Spec => []ExclusiveMessages
<1>1. IInv => ExclusiveMessages
  BY DEF IInv, OwnerInv, ExclusiveMessages
<1>2. QED
  BY <1>1, Invariance, PTL

\* The pipeline implements the safety part of the read model: a commit is a
\* sign-up, the first time an event is handled is a replication, and every
\* other step, the handling of a duplicate included, changes neither.
THEOREM ReadModelSteps == Spec => Model!ReadModelSafety
<1>1. Init => Model!ReadModelInit
  BY DEF Init, Users, Model!ReadModelInit
<1>2. IInv /\ [Next]_vars => [Model!ReadModelNext]_(Model!readModelVars)
  <2> SUFFICES ASSUME IInv, [Next]_vars
               PROVE  Model!ReadModelNext \/ UNCHANGED <<Users, authors>>
    BY DEF Model!readModelVars
  <2>1. ASSUME NEW u \in UserId, EndCreate(u)
        PROVE  Model!SignUp(u) \/ UNCHANGED <<Users, authors>>
    <3>1. PICK end \in {"committed", "rolledback"} : tx' = [tx EXCEPT ![u] = end]
      BY <2>1 DEF EndCreate
    <3>2. tx \in [UserId -> {"none", "open", "committed", "rolledback"}] /\ tx[u] = "open"
      BY <2>1 DEF EndCreate, IInv, TypeOK
    <3>3. CASE end = "committed"
      BY <2>1, <3>1, <3>2, <3>3 DEF EndCreate, Users, Model!SignUp
    <3>4. CASE end = "rolledback"
      BY <2>1, <3>1, <3>2, <3>4 DEF EndCreate, Users
    <3>5. QED
      BY <3>3, <3>4
  <2>2. ASSUME NEW c \in Consumer, Handle(c)
        PROVE  (\E u \in UserId : Model!Replicate(u)) \/ UNCHANGED <<Users, authors>>
    <3>1. PICK u \in Users : authors' = authors \cup {u}
      <4>1. Min(cons[c].msgs) \in DOMAIN stream
        BY <2>2, Heads, Typing DEF Handle, IInv, TypeOK
      <4>2. QED
        BY <2>2, <4>1 DEF Handle, IInv, NoPhantomUser
    <3>2. UNCHANGED Users /\ u \in UserId
      BY <2>2 DEF Handle, Users
    <3>3. CASE u \in authors
      BY <3>1, <3>2, <3>3
    <3>4. CASE u \notin authors
      BY <3>1, <3>2, <3>4 DEF Model!Replicate
    <3>5. QED
      BY <3>3, <3>4
  <2>3. ASSUME NEW u \in UserId, BeginCreate(u)
        PROVE  UNCHANGED <<Users, authors>>
    BY <2>3 DEF BeginCreate, Users, IInv, TypeOK
  <2>4. ASSUME UNCHANGED <<tx, authors>>
        PROVE  UNCHANGED <<Users, authors>>
    BY <2>4 DEF Users
  <2>5. \/ \E u \in UserId : BeginCreate(u) \/ EndCreate(u)
        \/ \E c \in Consumer : Handle(c)
        \/ UNCHANGED <<tx, authors>>
    BY DEF Next, vars, RelayStep, RelayPoll, RelayAdd, RelayMark, RelayFail, ConsumerStep,
       Start, ReadPending, ReadNew, Ack, StartFails, ReadNewReplyLost, HandleFails, AckFails,
       Crash
  <2>6. QED
    BY <2>1, <2>2, <2>3, <2>4, <2>5 DEF Model!ReadModelNext
<1>3. QED
  BY <1>1, <1>2, Invariance, PTL DEF Spec, Model!ReadModelSafety
=============================================================================

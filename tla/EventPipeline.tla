--------------------------- MODULE EventPipeline ---------------------------
(***************************************************************************)
(* From signup to the board's author table:                                *)
(*   CreateUser      services/identity/internal/repo/mysql/user_repo.go    *)
(*   outbox relay    services/identity/internal/outbox/relay.go            *)
(*   event consumer  services/board/internal/consumer/consumer.go          *)
(* with the outbox table and the Redis stream "events:user" (consumer      *)
(* group "board") between them.                                            *)
(*                                                                         *)
(* A user's id, its outbox row and its event are one number.  A stream     *)
(* entry is "new" until the group delivers it, "pending" for the consumer  *)
(* name it was delivered to, and "acked" after XACK.                       *)
(***************************************************************************)
EXTENDS Naturals, Sequences, FiniteSets, FiniteSetsExt

CONSTANTS
    MaxUser,            \* bound: users that sign up
    Relay,              \* relay goroutines, one per identity process
    Consumer,           \* consumer goroutines, one per board process
    None,
    RelayBatch,         \* rows one poll reads (100)
    ReadCount,          \* entries one XREADGROUP returns (10)
    MaxFaults,          \* bound: faults of any kind in one behaviour
    Errors,             \* commands that may fail while the process goes on
    NewHostOnRestart    \* a restarted board process has another host name

ASSUME PipelineAssumption ==
    /\ MaxUser \in Nat /\ MaxFaults \in Nat
    /\ RelayBatch \in Nat \ {0} /\ ReadCount \in Nat \ {0}
    /\ Errors \subseteq {"start", "read", "handle", "ack"}
    /\ NewHostOnRestart \in BOOLEAN

VARIABLES
    tx,          \* per user id: the state of the transaction of CreateUser
    published,   \* outbox rows with published_at set
    relay,       \* per relay: the rest of its batch, and what comes next
    stream,      \* events:user with the group's bookkeeping
    group,       \* the consumer group exists
    cons,        \* per board process: its consumer
    authors,     \* rows of the board's authors table
    faults       \* faults so far

vars == <<tx, published, relay, stream, group, cons, authors, faults>>

UserId == 1..MaxUser

\* The rows other transactions see.
Users == {u \in UserId : tx[u] = "committed"}

\* The n smallest elements of a set of numbers.
FirstN(S, n) == {x \in S : Cardinality({y \in S : y <= x}) <= n}

IdleRelay == [pc |-> "add", batch |-> {}]

\* The XREADGROUP name of the process that reads: its host name, or, when the
\* host name is unavailable (host 0), the one fallback they all share.
NameOf(c) == IF cons[c].host = 0 THEN <<None, 0>> ELSE <<c, cons[c].host>>

Down(host) == [pc |-> "down", cursor |-> "0", msgs |-> {}, host |-> host]

TypeOK ==
    /\ tx \in [UserId -> {"none", "open", "committed", "rolledback"}]
    /\ published \subseteq UserId
    /\ relay \in [Relay -> [pc : {"add", "mark"}, batch : SUBSET UserId]]
    /\ \A i \in DOMAIN stream :
            stream[i] \in [user : UserId, state : {"new", "pending", "acked"},
                           owner : ((Consumer \cup {None}) \X (0..(MaxFaults + 1))) \cup {None}]
    /\ group \in BOOLEAN
    /\ cons \in [Consumer -> [pc : {"down", "stopped", "read", "handle", "ack"}, cursor : {"0", ">"},
                              msgs : SUBSET DOMAIN stream, host : 0..(MaxFaults + 1)]]
    /\ \A c \in Consumer : cons[c].msgs # {} <=> cons[c].pc \in {"handle", "ack"}
    /\ authors \subseteq UserId
    /\ faults \in 0..MaxFaults

\* The hosts have names, or they have none.
Init ==
    /\ tx = [u \in UserId |-> "none"]
    /\ published = {}
    /\ relay = [r \in Relay |-> IdleRelay]
    /\ stream = <<>>
    /\ group = FALSE
    /\ \E host \in {0, 1} : cons = [c \in Consumer |-> Down(host)]
    /\ authors = {}
    /\ faults = 0

Fault == faults < MaxFaults /\ faults' = faults + 1

\* A command of this kind fails; the process notices and goes on.
Error(kind) == kind \in Errors /\ Fault

-----------------------------------------------------------------------------
(* CreateUser: user, credential, profile and outbox row in one transaction.*)
(* Ids are handed out when the rows are inserted, so transactions commit   *)
(* out of id order.                                                        *)

BeginCreate(u) ==
    /\ tx[u] = "none"
    /\ \A v \in UserId : v < u => tx[v] # "none"
    /\ tx' = [tx EXCEPT ![u] = "open"]
    /\ UNCHANGED <<published, relay, stream, group, cons, authors, faults>>

\* Commit, or rollback on an error such as a duplicate credential.
EndCreate(u) ==
    /\ tx[u] = "open"
    /\ \E end \in {"committed", "rolledback"} : tx' = [tx EXCEPT ![u] = end]
    /\ UNCHANGED <<published, relay, stream, group, cons, authors, faults>>

-----------------------------------------------------------------------------
(* The relay.                                                              *)

\* Mutant: a poll that also reads rows whose transaction is still open.
Unpublished_DirtyRead == {u \in UserId : tx[u] \in {"open", "committed"}} \ published

\* SELECT ... WHERE published_at IS NULL
Unpublished == Users \ published

\* A tick: read a batch in id order.
RelayPoll(r) ==
    /\ relay[r] = IdleRelay
    /\ Unpublished # {}
    /\ relay' = [relay EXCEPT ![r].batch = FirstN(Unpublished, RelayBatch)]
    /\ UNCHANGED <<tx, published, stream, group, cons, authors, faults>>

\* XADD of the next row.
RelayAdd(r) ==
    /\ relay[r].pc = "add" /\ relay[r].batch # {}
    /\ stream' = Append(stream, [user |-> Min(relay[r].batch), state |-> "new", owner |-> None])
    /\ relay' = [relay EXCEPT ![r].pc = "mark"]
    /\ UNCHANGED <<tx, published, group, cons, authors, faults>>

\* Mutant: every row of the batch is marked with the first one.
MarkedRows_Batch(r) == relay[r].batch

MarkedRows(r) == {Min(relay[r].batch)}

\* UPDATE outbox SET published_at of the row just added.
RelayMark(r) ==
    /\ relay[r].pc = "mark"
    /\ published' = published \cup MarkedRows(r)
    /\ relay' = [relay EXCEPT ![r] = [pc |-> "add", batch |-> @.batch \ {Min(@.batch)}]]
    /\ UNCHANGED <<tx, stream, group, cons, authors, faults>>

\* An error, or the end of the process, drops the rest of the batch; the next
\* tick starts over.
RelayFail(r) ==
    /\ Fault
    /\ relay[r].batch # {}
    /\ relay' = [relay EXCEPT ![r] = IdleRelay]
    /\ UNCHANGED <<tx, published, stream, group, cons, authors>>

-----------------------------------------------------------------------------
(* The consumer.                                                           *)

\* Mutant: a group created at "$" skips what the stream holds already.
StartOfGroup_Dollar ==
    [i \in DOMAIN stream |-> IF group THEN stream[i] ELSE [stream[i] EXCEPT !.state = "acked"]]

\* XGROUP CREATE at id "0" leaves every entry to be delivered; BUSYGROUP is
\* no error.
StartOfGroup == stream

\* Run: create the group, then drain from cursor "0".
Start(c) ==
    /\ cons[c].pc = "down"
    /\ stream' = StartOfGroup
    /\ group' = TRUE
    /\ cons' = [cons EXCEPT ![c].pc = "read"]
    /\ UNCHANGED <<tx, published, relay, authors, faults>>

\* XGROUP CREATE fails with another error: Run returns, for good.
StartFails(c) ==
    /\ Error("start")
    /\ cons[c].pc = "down"
    /\ cons' = [cons EXCEPT ![c].pc = "stopped"]
    /\ UNCHANGED <<tx, published, relay, stream, group, authors>>

New == {i \in DOMAIN stream : stream[i].state = "new"}

\* Mutant: the drain does not look at the consumer name.
PendingOf_Anyone(c) == {i \in DOMAIN stream : stream[i].state = "pending"}

PendingOf(c) == {i \in DOMAIN stream : stream[i].state = "pending" /\ stream[i].owner = NameOf(c)}

\* Mutant: the consumer starts at ">" and never drains.
ReadPending_Skip(c) ==
    /\ cons[c].pc = "read" /\ cons[c].cursor = "0"
    /\ cons' = [cons EXCEPT ![c].cursor = ">"]
    /\ UNCHANGED <<tx, published, relay, stream, group, authors, faults>>

\* XREADGROUP with cursor "0": this consumer name's pending entries.  When
\* there are none the loop goes on with cursor ">".
ReadPending(c) ==
    /\ cons[c].pc = "read" /\ cons[c].cursor = "0"
    /\ cons' = IF PendingOf(c) = {}
               THEN [cons EXCEPT ![c].cursor = ">"]
               ELSE [cons EXCEPT ![c].pc = "handle", ![c].msgs = FirstN(PendingOf(c), ReadCount)]
    /\ UNCHANGED <<tx, published, relay, stream, group, authors, faults>>

\* The group delivers the next new entries to consumer c.
Deliver(c, ms) ==
    stream' = [i \in DOMAIN stream |->
        IF i \in ms THEN [stream[i] EXCEPT !.state = "pending", !.owner = NameOf(c)]
        ELSE stream[i]]

\* XREADGROUP with cursor ">".
ReadNew(c) ==
    LET ms == FirstN(New, ReadCount) IN
    /\ cons[c].pc = "read" /\ cons[c].cursor = ">"
    /\ New # {}
    /\ Deliver(c, ms)
    /\ cons' = [cons EXCEPT ![c].pc = "handle", ![c].msgs = ms]
    /\ UNCHANGED <<tx, published, relay, group, authors, faults>>

\* The entries are delivered but the reply is lost: the loop sleeps and reads
\* on with the same cursor.
ReadNewReplyLost(c) ==
    /\ Error("read")
    /\ cons[c].pc = "read" /\ cons[c].cursor = ">"
    /\ New # {}
    /\ Deliver(c, FirstN(New, ReadCount))
    /\ UNCHANGED <<tx, published, relay, group, cons, authors>>

\* Mutant: the loop does not notice that it handled the last message.
NextMessage_NoEnd(c) == cons' = [cons EXCEPT ![c].msgs = @ \ {Min(@)}, ![c].pc = "handle"]

\* The loop goes on with the next message, or reads again after the last.
NextMessage(c) ==
    LET rest == cons[c].msgs \ {Min(cons[c].msgs)} IN
    cons' = [cons EXCEPT ![c].msgs = rest, ![c].pc = IF rest = {} THEN "read" ELSE "handle"]

\* handle: upsertAuthor.
Handle(c) ==
    /\ cons[c].pc = "handle"
    /\ authors' = authors \cup {stream[Min(cons[c].msgs)].user}
    /\ cons' = [cons EXCEPT ![c].pc = "ack"]
    /\ UNCHANGED <<tx, published, relay, stream, group, faults>>

\* Mutant: a message whose handling failed is acknowledged all the same.
AfterFailure_Ack(c) ==
    stream' = [stream EXCEPT ![Min(cons[c].msgs)].state = "acked"]

\* After a failure the message is left unacked.
AfterFailure(c) == UNCHANGED stream

\* handle returns an error and the loop continues with the next message.
HandleFails(c) ==
    /\ Error("handle")
    /\ cons[c].pc = "handle"
    /\ AfterFailure(c)
    /\ NextMessage(c)
    /\ UNCHANGED <<tx, published, relay, group, authors>>

\* XACK.
Ack(c) ==
    /\ cons[c].pc = "ack"
    /\ stream' = [stream EXCEPT ![Min(cons[c].msgs)].state = "acked"]
    /\ NextMessage(c)
    /\ UNCHANGED <<tx, published, relay, group, authors, faults>>

\* XACK fails; its error is ignored.
AckFails(c) ==
    /\ Error("ack")
    /\ cons[c].pc = "ack"
    /\ NextMessage(c)
    /\ UNCHANGED <<tx, published, relay, stream, group, authors>>

\* The board process ends; what it was delivered stays pending under the
\* name it had.
Crash(c) ==
    /\ Fault
    /\ cons[c].pc # "down"
    /\ cons' = [cons EXCEPT ![c] =
                    Down(IF NewHostOnRestart /\ @.host # 0 THEN @.host + 1 ELSE @.host)]
    /\ UNCHANGED <<tx, published, relay, stream, group, authors>>

-----------------------------------------------------------------------------

RelayStep(r) == RelayPoll(r) \/ RelayAdd(r) \/ RelayMark(r)

ConsumerStep(c) ==
    Start(c) \/ ReadPending(c) \/ ReadNew(c) \/ Handle(c) \/ Ack(c)

Next ==
    \/ \E u \in UserId : BeginCreate(u) \/ EndCreate(u)
    \/ \E r \in Relay : RelayStep(r) \/ RelayFail(r)
    \/ \E c \in Consumer :
          \/ ConsumerStep(c) \/ StartFails(c) \/ ReadNewReplyLost(c)
          \/ HandleFails(c) \/ AckFails(c) \/ Crash(c)

\* The relay's ticker goes on, and a board process runs on and is started
\* again after a crash.
Fairness ==
    /\ \A r \in Relay : WF_vars(RelayStep(r))
    /\ \A c \in Consumer : WF_vars(ConsumerStep(c))

Spec == Init /\ [][Next]_vars
FairSpec == Spec /\ Fairness

-----------------------------------------------------------------------------
(* Properties.                                                             *)

\* Transactional outbox: whatever the relay and the consumers repeat, an
\* event or an author row exists only for a user whose transaction committed.
NoPhantomUser ==
    /\ \A i \in DOMAIN stream : stream[i].user \in Users
    /\ authors \subseteq Users

\* An outbox row is marked published only when its event is in the stream.
PublishedIsInStream ==
    \A u \in published : \E i \in DOMAIN stream : stream[i].user = u

\* At-least-once: an acknowledged event has been applied, whatever failed.
AckedIsApplied ==
    \A i \in DOMAIN stream : stream[i].state = "acked" => stream[i].user \in authors

\* A consumer group shares the stream out: no two board processes with names of
\* their own work on the same entry, drains after a crash included.  Processes
\* that fell back on the same name drain each other's entries.
ExclusiveMessages ==
    \A c, d \in Consumer : NameOf(c) # NameOf(d) => cons[c].msgs \cap cons[d].msgs = {}

\* Every user that signs up becomes an author on the board.
Replicated == \A u \in UserId : (tx[u] = "committed") ~> (u \in authors)

\* The pipeline implements the read model: authors only ever grows by users
\* that signed up, and it grows by every one of them.
Model == INSTANCE ReadModel WITH signedUp <- Users, known <- authors
ReadModelRefinement == Model!ReadModelSpec
=============================================================================

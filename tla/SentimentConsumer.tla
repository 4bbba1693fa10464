-------------------------- MODULE SentimentConsumer --------------------------
(***************************************************************************)
(* The Kafka consumer process: poll a batch, run inference, write it to    *)
(* TimescaleDB, push it to Redis, commit the offsets one by one.  The      *)
(* process may be stopped by a signal or die at any step, every external   *)
(* call may fail, and Docker starts a new process when one dies.           *)
(*                                                                         *)
(* One partition (the broker auto-creates the topic with its default of    *)
(* one) and one consumer process (one container, one group member).        *)
(* Offsets count from 1; "committed" is the next offset the group would    *)
(* read, as in Kafka.  Inference reads and writes nothing shared, so it is *)
(* part of the step that leaves the poll; an exception in it is a Crash.   *)
(*                                                                         *)
(* An operator named for a bug (StartPositionLatest, ...) is a mutated form *)
(* of the one after it; the specification uses none of them.               *)
(***************************************************************************)
EXTENDS Naturals, Sequences, Functions

CONSTANTS
    Kinds,        \* kinds of message the topic may carry
    MaxOffset,    \* bound: messages ever published
    BatchSize,    \* batch_size of the constructor, 16 in production
    MaxFaults     \* bound: signals, crashes and failed calls

ASSUME KindsAssumption == Kinds \subseteq {"ok", "malformed", "poison"}
ASSUME MaxOffsetAssumption == MaxOffset \in Nat
ASSUME BatchSizeAssumption == BatchSize \in Nat \ {0}
ASSUME MaxFaultsAssumption == MaxFaults \in Nat

VARIABLES
    topic,        \* the partition's log: the kind of each message
    committed,    \* the group's committed offset, kept by the broker
    rows,         \* rows of sentiment_results per offset (TimescaleDB)
    cached,       \* offsets whose result was pushed to Redis
    pc,           \* where the process is; "down" and "closed": no process
    running,      \* self._running
    position,     \* the next offset poll() returns to this process
    batch,        \* offsets of the batch in hand
    abandoned,    \* offsets whose last handling ended in the except branch
    faults        \* faults so far
vars == <<topic, committed, rows, cached, pc, running, position,
          batch, abandoned, faults>>

Offsets == 1 .. MaxOffset
Looping == {"poll", "write", "cache", "commit"}
Up == Looping \union {"constructed"}
Stored == {o \in Offsets : rows[o] > 0}
IsArticle(o) == o \in DOMAIN topic /\ topic[o] = "ok"

Init ==
    /\ topic = <<>>
    /\ committed = 1
    /\ rows = [o \in Offsets |-> 0]
    /\ cached = {}
    /\ pc = "down"
    /\ running = FALSE
    /\ position = 1
    /\ batch = <<>>
    /\ abandoned = {}
    /\ faults = 0
-----------------------------------------------------------------------------
\* Spend one fault of the budget.
Fault ==
    /\ faults < MaxFaults
    /\ faults' = faults + 1

\* The process is gone, and with it everything it held in memory.
Die ==
    /\ pc' = "down"
    /\ running' = FALSE
    /\ position' = committed
    /\ batch' = <<>>

NextIterationForever == batch' = <<>> /\ pc' = "poll"

\* The test of the run loop, reached at the end of an iteration.
NextIteration ==
    /\ batch' = <<>>
    /\ pc' = IF running THEN "poll" ELSE "closed"

\* Where a new process reads from: the group's committed offset (earliest if
\* there is none).
StartPositionLatest == Len(topic) + 1
StartPositionOldest == 1
StartPosition == committed

\* The offset commit(message) hands to the broker.
NextOffsetSkipping == Head(batch) + 2
NextOffset == Head(batch) + 1

\* The rows once the transaction of write_batch has committed: a plain
\* insert, for the generated key makes ON CONFLICT DO NOTHING idle.
InsertedUncommitted == rows
InsertedTwice == [o \in Offsets |-> IF o \in Range(batch) THEN rows[o] + 2 ELSE rows[o]]
Inserted == [o \in Offsets |-> IF o \in Range(batch) THEN rows[o] + 1 ELSE rows[o]]
-----------------------------------------------------------------------------
\* ENVIRONMENT: a producer appends a message.
Produce(k) ==
    /\ Len(topic) < MaxOffset
    /\ topic' = Append(topic, k)
    /\ UNCHANGED <<committed, rows, cached, pc, running, position,
                   batch, abandoned, faults>>

\* __init__: subscribe and install the signal handlers.  The new process
\* reads from the committed offset, so what was abandoned above it is owed
\* again.
Construct ==
    /\ pc' = "constructed"
    /\ running' = FALSE
    /\ position' = StartPosition
    /\ abandoned' = {o \in abandoned : o < committed}
    /\ UNCHANGED <<topic, committed, rows, cached, batch, faults>>

\* Docker's "restart: unless-stopped" brings back a process that died.
Restart == pc = "down" /\ Construct

\* An operator starts the container after a graceful stop.
StartAgain == pc = "closed" /\ Construct

\* run() sets the flag unconditionally and enters the loop.
Run ==
    /\ pc = "constructed"
    /\ running' = TRUE
    /\ pc' = "poll"
    /\ UNCHANGED <<topic, committed, rows, cached, position, batch,
                   abandoned, faults>>

\* stop(), run by the handlers of SIGTERM and SIGINT between two steps.
Stop ==
    /\ pc \in Up
    /\ Fault
    /\ running' = FALSE
    /\ UNCHANGED <<topic, committed, rows, cached, pc, position, batch, abandoned>>

\* The process is killed, or an exception leaves run().
Crash ==
    /\ pc \in Up
    /\ Fault
    /\ Die
    /\ UNCHANGED <<topic, committed, rows, cached, abandoned>>
-----------------------------------------------------------------------------
CanPoll ==
    /\ pc = "poll"
    /\ Len(batch) < BatchSize
    /\ position \in DOMAIN topic

PollArticle ==
    /\ CanPoll
    /\ topic[position] = "ok"
    /\ batch' = Append(batch, position)
    /\ position' = position + 1
    /\ UNCHANGED <<topic, committed, rows, cached, pc, running,
                   abandoned, faults>>

\* JSONDecodeError or KeyError: logged, counted and skipped.
PollMalformed ==
    /\ CanPoll
    /\ topic[position] = "malformed"
    /\ position' = position + 1
    /\ UNCHANGED <<topic, committed, rows, cached, pc, running, batch,
                   abandoned, faults>>

PollPoisonSkipped ==
    /\ CanPoll
    /\ topic[position] = "poison"
    /\ position' = position + 1
    /\ UNCHANGED <<topic, committed, rows, cached, pc, running, batch,
                   abandoned, faults>>

\* Any other exception of _deserialise leaves run(): the batch in hand is
\* lost with the process.
PollPoison ==
    /\ CanPoll
    /\ topic[position] = "poison"
    /\ Die
    /\ UNCHANGED <<topic, committed, rows, cached, abandoned, faults>>

EndPollDroppingOnStop ==
    /\ pc = "poll"
    /\ IF batch = <<>> \/ ~running THEN NextIteration
                                   ELSE pc' = "write" /\ UNCHANGED batch
    /\ UNCHANGED <<topic, committed, rows, cached, running, position,
                   abandoned, faults>>

EndPollWhenFull ==
    /\ pc = "poll"
    /\ Len(batch) = BatchSize
    /\ pc' = "write"
    /\ UNCHANGED <<topic, committed, rows, cached, running, position,
                   batch, abandoned, faults>>

\* The deadline has passed or the batch is full.
EndPoll ==
    /\ pc = "poll"
    /\ IF batch = <<>> THEN NextIteration
                       ELSE pc' = "write" /\ UNCHANGED batch
    /\ UNCHANGED <<topic, committed, rows, cached, running, position,
                   abandoned, faults>>

WriteBatch ==
    /\ pc = "write"
    /\ rows' = Inserted
    /\ pc' = "cache"
    /\ UNCHANGED <<topic, committed, cached, running, position, batch,
                   abandoned, faults>>

\* The except branch: log and return.  The offsets are not committed, but
\* the consumer's position stays beyond them.
Abandon ==
    /\ Fault
    /\ abandoned' = abandoned \union Range(batch)
    /\ NextIteration
    /\ UNCHANGED <<topic, committed, running, position>>

\* write_batch raises; its transaction may have been committed all the same.
WriteBatchFails ==
    /\ pc = "write"
    /\ rows' \in {rows, Inserted}
    /\ Abandon
    /\ UNCHANGED cached

CacheResults ==
    /\ pc = "cache"
    /\ cached' = cached \union Range(batch)
    /\ pc' = "commit"
    /\ UNCHANGED <<topic, committed, rows, running, position, batch,
                   abandoned, faults>>

\* cache_results raises, before or after its pipeline was executed.
CacheResultsFails ==
    /\ pc = "cache"
    /\ cached' \in {cached, cached \union Range(batch)}
    /\ Abandon
    /\ UNCHANGED rows

\* One synchronous commit per message, in the order they were polled.
CommitOne ==
    /\ pc = "commit"
    /\ committed' = NextOffset
    /\ IF Len(batch) = 1 THEN NextIteration
                         ELSE batch' = Tail(batch) /\ UNCHANGED pc
    /\ UNCHANGED <<topic, rows, cached, running, position, abandoned,
                   faults>>

\* commit() raises outside the try, after or before the broker applied it.
CommitFails ==
    /\ pc = "commit"
    /\ Fault
    /\ committed' \in {committed, NextOffset}
    /\ pc' = "down"
    /\ running' = FALSE
    /\ position' = committed'
    /\ batch' = <<>>
    /\ UNCHANGED <<topic, rows, cached, abandoned>>
-----------------------------------------------------------------------------
PollStep == PollArticle \/ PollMalformed \/ PollPoison \/ EndPoll
ProcessStep == WriteBatch \/ CacheResults \/ CommitOne
FaultStep == Stop \/ Crash \/ WriteBatchFails \/ CacheResultsFails \/ CommitFails

Next ==
    \/ \E k \in Kinds : Produce(k)
    \/ Restart \/ StartAgain \/ Run
    \/ PollStep
    \/ ProcessStep
    \/ FaultStep

Spec == Init /\ [][Next]_vars

\* The process keeps executing while it is up and Docker restarts it when it
\* has died.  Nothing forces a producer, a signal, a failure, or an operator.
Fairness ==
    /\ WF_vars(Run \/ PollStep \/ ProcessStep)
    /\ WF_vars(Restart)

LiveSpec == Spec /\ Fairness
-----------------------------------------------------------------------------
\* Every variable has its type (the state declared in __init__ and run()).
TypeOK ==
    /\ topic \in Seq(Kinds)
    /\ Len(topic) <= MaxOffset
    /\ committed \in Nat
    /\ rows \in [Offsets -> Nat]
    /\ cached \subseteq Offsets
    /\ pc \in Up \union {"down", "closed"}
    /\ running \in BOOLEAN
    /\ position \in Nat
    /\ batch \in Seq(Offsets)
    /\ abandoned \subseteq Offsets
    /\ faults \in 0 .. MaxFaults

\* The process has read a prefix of the topic that extends the committed one
\* and holds no poison.
ReadPrefix ==
    /\ 1 <= committed
    /\ committed <= position
    /\ position <= Len(topic) + 1
    /\ \A o \in DOMAIN topic : o < position => topic[o] # "poison"

\* The batch holds uncommitted articles in the order they were polled.
BatchInOrder ==
    /\ \A i \in DOMAIN batch :
          /\ committed <= batch[i] /\ batch[i] < position
          /\ IsArticle(batch[i])
    /\ \A i, j \in DOMAIN batch : i < j => batch[i] < batch[j]
    /\ pc \in {"write", "cache", "commit"} => batch # <<>>
    /\ pc \in {"down", "constructed", "closed"} => batch = <<>>

\* Every article read and not committed is in hand or abandoned: the batch
\* and the commits leave no gap between them.
NoGap ==
    \A o \in DOMAIN topic :
        IsArticle(o) /\ committed <= o /\ o < position =>
            o \in Range(batch) \union abandoned

\* Only articles are stored, given up or shown.
OnlyArticles == \A o \in Stored \union abandoned \union cached : IsArticle(o)

\* After write_batch the whole batch is in the database.
BatchWritten == pc \in {"cache", "commit"} => Range(batch) \subseteq Stored

\* DuplicateBudget, made inductive: the one insertion that needs no fault is
\* that of an article whose commit is done or under way.
Delivered(o) ==
    o < committed \/ (pc \in {"cache", "commit"} /\ o \in Range(batch))
RowsBudget ==
    \A o \in Offsets : rows[o] <= IF Delivered(o) THEN faults + 1 ELSE faults

\* The committed offset never passes an article that is not in the database,
\* unless the except branch of _process_batch let it go.
NoSilentLoss ==
    \A o \in DOMAIN topic :
        IsArticle(o) /\ o < committed => o \in Stored \union abandoned

\* An article is inserted once, plus at most once for every fault: a batch is
\* written again only when a fault stood between its write and its commit.
DuplicateBudget == \A o \in Offsets : rows[o] <= 1 + faults

\* Redis (the latest list and the realtime channel) never shows a result that
\* the database does not hold: write_batch precedes cache_results.
CacheBehindDb == cached \subseteq Stored

\* The inductive invariant behind the safety properties of this module.
IndInv ==
    /\ TypeOK
    /\ ReadPrefix
    /\ BatchInOrder
    /\ NoGap
    /\ OnlyArticles
    /\ BatchWritten
    /\ RowsBudget
    /\ NoSilentLoss
    /\ CacheBehindDb

\* A graceful stop drains: when the consumer has closed, every article it had
\* polled is committed, except those of abandoned batches.
GracefulDrain ==
    pc = "closed" =>
        \A o \in DOMAIN topic :
            IsArticle(o) /\ committed <= o /\ o < position => o \in abandoned

\* A message whose deserialisation raises anything but the two caught
\* exceptions is never passed: the group stays before it.
PoisonBarrier ==
    \A o \in DOMAIN topic : topic[o] = "poison" => committed <= o

\* Once an offset is committed, no run of the process inserts its article
\* again, and the commit is never undone.
CommittedNeverReprocessed ==
    [][/\ committed <= committed'
       /\ \A o \in Offsets : o < committed => rows'[o] = rows[o]]_vars

\* The consumer keeps the delivery contract.
Contract == INSTANCE DeliveryContract WITH
    published <- Len(topic),
    owed <- {o \in DOMAIN topic : topic[o] = "ok"},
    stored <- Stored,
    waived <- abandoned,
    acked <- committed
ContractSpec == Contract!Spec

\* Unless the topic holds a poison message, every article is eventually
\* committed or abandoned, or the consumer is stopped and left so.
EventuallyCommitted ==
    \A o \in Offsets :
        IsArticle(o) ~>
            \/ committed > o \/ o \in abandoned \/ pc = "closed"
            \/ \E q \in DOMAIN topic : topic[q] = "poison"

\* A stop signal that reaches the loop ends it: the process closes or dies.
StopEndsLoop == (pc \in Looping /\ ~running) ~> pc \in {"closed", "down"}

\* "at-least-once (offsets committed only after successful DB write)": what
\* the header of kafka_consumer.py says of every committed article.
AtLeastOnce ==
    \A o \in DOMAIN topic : IsArticle(o) /\ o < committed => o \in Stored
=============================================================================

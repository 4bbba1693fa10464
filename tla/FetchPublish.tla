---------------------------- MODULE FetchPublish ----------------------------
(***************************************************************************)
(* The ingestion side: Prefect runs of fetch_and_publish_task.  A run      *)
(* fetches articles, drops those it has seen (exact hash or SimHash near   *)
(* duplicate), marks the others as seen in Redis, keeps the newest and     *)
(* publishes them to Kafka, with tenacity's attempts, the dead-letter      *)
(* topic, librdkafka's asynchronous delivery and Prefect's retries.        *)
(*                                                                         *)
(* An article is the number of its place by age; a larger one is newer.    *)
(* The exact key and the SimHash key of an article are set together with   *)
(* one time to live, so one mark stands for both, and Near is reflexive.   *)
(* Redis drops a mark after 24 h, or earlier for want of memory; a run    *)
(* that then lets the same article through again keeps two copies of it,   *)
(* the model one.                                                          *)
(* Prefect's task cache (4 min) only spares runs: a run that starts is one *)
(* whose result was not cached.                                            *)
(*                                                                         *)
(* An operator named for a bug (KnownInProcess, ...) is a mutated form of  *)
(* the one after it; the specification uses none of them.                  *)
(***************************************************************************)
EXTENDS Naturals, Sequences, FiniteSetsExt

CONSTANTS
    Runs,           \* task runs that may overlap
    MaxArticle,     \* articles are 1 .. MaxArticle
    NearPairs,      \* pairs of distinct articles at Hamming distance < 4
    Feeds,          \* what the sources may return, in their order
    MaxPerFetch,    \* settings.news.max_articles_per_fetch
    MaxAttempts,    \* stop_after_attempt(5)
    MaxRetries,     \* retries=3 of the task
    MaxStarts,      \* bound: runs that Prefect starts
    MaxFaults       \* bound: failures of any kind

Articles == 1 .. MaxArticle
Near(a, b) == a = b \/ <<a, b>> \in NearPairs \/ <<b, a>> \in NearPairs

ASSUME FeedsAssumption == Feeds \subseteq Seq(Articles)
ASSUME RunsAssumption == IsFiniteSet(Runs)
ASSUME BoundsAssumption ==
    /\ MaxArticle \in Nat /\ MaxPerFetch \in Nat \ {0}
    /\ MaxAttempts \in Nat \ {0} /\ MaxRetries \in Nat
    /\ MaxStarts \in Nat /\ MaxFaults \in Nat

VARIABLES
    run,         \* the state of each run, a record like NoRun
    marks,       \* articles marked in Redis, for 24 h
    published,   \* how often each article reached the news topic, within
                 \* the 24 h of its mark
    dlq,         \* how often each article was sent to the dead-letter topic
    cutOff,      \* marked articles cut off by max_articles_per_fetch
    fellBack,    \* some fetcher did without Redis
    overlapped,  \* some run fetched while another had not ended
    evicted,     \* articles whose mark went while a run held them, until a
                 \* later mark goes when no run does
    started,     \* runs started so far
    faults       \* failures so far
history == <<fellBack, overlapped, evicted>>
vars == <<run, marks, published, dlq, cutOff, history, started, faults>>

\* A run that has nothing in memory.
NoRun == [pc |-> "idle", todo |-> <<>>, inMemory |-> FALSE, seen |-> {},
          kept |-> {}, queue |-> {}, attempt |-> 0, tries |-> 0]

Init ==
    /\ run = [r \in Runs |-> NoRun]
    /\ marks = {}
    /\ published = [a \in Articles |-> 0]
    /\ dlq = [a \in Articles |-> 0]
    /\ cutOff = {}
    /\ fellBack = FALSE
    /\ overlapped = FALSE
    /\ evicted = {}
    /\ started = 0
    /\ faults = 0
-----------------------------------------------------------------------------
Fault ==
    /\ faults < MaxFaults
    /\ faults' = faults + 1

At(r, place) == run[r].pc = place
Candidate(r) == Head(run[r].todo)

\* The article a run publishes next: sorted newest first.
NextToSend(r) == Max(run[r].kept)

\* unique[:max_articles_per_fetch], once sorted.
Newest(S) == {a \in S : Cardinality({b \in S : b > a}) < MaxPerFetch}

\* What a fetcher compares with: Redis, or its own sets.
KnownInProcess(r) == run[r].seen
KnownInRedis(r) == marks
Known(r) == IF run[r].inMemory THEN run[r].seen ELSE marks

\* The articles in the hands of a run, at whatever stage.
InHand(r) ==
    run[r].kept \union run[r].queue \union (IF At(r, "mark") THEN {Candidate(r)} ELSE {})
Held == UNION {InHand(r) : r \in Runs}
-----------------------------------------------------------------------------
\* NewsFetcher() and the source adapters: Redis is tried once, and if it
\* does not answer the fetcher works with its own, empty sets.
Fetch(r, n) ==
    \E feed \in Feeds, lost \in BOOLEAN :
        /\ run' = [run EXCEPT ![r] = [NoRun EXCEPT !.pc = "dedup", !.todo = feed,
                                                   !.inMemory = lost, !.tries = n]]
        /\ IF lost THEN Fault /\ fellBack' = TRUE ELSE UNCHANGED <<faults, fellBack>>
        /\ overlapped' = (overlapped \/ \E q \in Runs \ {r} : ~At(q, "idle"))
        /\ UNCHANGED <<marks, published, dlq, cutOff, evicted>>

Start(r) ==
    /\ At(r, "idle")
    /\ started < MaxStarts
    /\ started' = started + 1
    /\ Fetch(r, 0)

\* Prefect runs the task again, with a new fetcher, 30 s after it failed.
Retry(r) ==
    /\ At(r, "retry")
    /\ Fetch(r, run[r].tries + 1)
    /\ UNCHANGED started

CheckStuckOnDuplicate(r) ==
    /\ At(r, "dedup") /\ run[r].todo # <<>>
    /\ ~\E k \in Known(r) : Near(Candidate(r), k)
    /\ run' = [run EXCEPT ![r].pc = "mark"]
    /\ UNCHANGED <<marks, published, dlq, cutOff, history, started, faults>>

\* Both stages of _deduplicate read; a duplicate is skipped.
Check(r) ==
    /\ At(r, "dedup") /\ run[r].todo # <<>>
    /\ run' = IF \E k \in Known(r) : Near(Candidate(r), k)
              THEN [run EXCEPT ![r].todo = Tail(@)]
              ELSE [run EXCEPT ![r].pc = "mark"]
    /\ UNCHANGED <<marks, published, dlq, cutOff, history, started, faults>>

MarkForgotten(r) ==
    /\ At(r, "mark")
    /\ run' = [run EXCEPT ![r].pc = "dedup", ![r].todo = Tail(@),
                          ![r].kept = @ \union {Candidate(r)}]
    /\ UNCHANGED <<marks, published, dlq, cutOff, history, started, faults>>

\* Mark the candidate as seen, where this fetcher keeps its marks, and yield it.
Mark(r) ==
    /\ At(r, "mark")
    /\ run' = [run EXCEPT ![r].pc = "dedup", ![r].todo = Tail(@),
                          ![r].kept = @ \union {Candidate(r)},
                          ![r].seen = IF run[r].inMemory THEN @ \union {Candidate(r)} ELSE @]
    /\ marks' = IF run[r].inMemory THEN marks ELSE marks \union {Candidate(r)}
    /\ UNCHANGED <<published, dlq, cutOff, history, started, faults>>

\* End of fetch_all: sort newest first and cut.
Cut(r) ==
    /\ At(r, "dedup") /\ run[r].todo = <<>>
    /\ run' = [run EXCEPT ![r].pc = "publish", ![r].kept = Newest(@)]
    /\ cutOff' = cutOff \union (run[r].kept \ Newest(run[r].kept))
    /\ UNCHANGED <<marks, published, dlq, history, started, faults>>

\* An exception leaves fetch_all: from an adapter that does not catch it,
\* before the first check, or from Redis, which may have set the candidate's
\* marks.
FetchFails(r) ==
    /\ At(r, "dedup") \/ At(r, "mark")
    /\ run[r].inMemory => At(r, "dedup") /\ run[r].kept = {}
    /\ Fault
    /\ run' = [run EXCEPT ![r] = [NoRun EXCEPT !.pc = "unwind", !.tries = run[r].tries]]
    /\ marks' \in {marks} \union
          (IF At(r, "mark") /\ ~run[r].inMemory THEN {marks \union {Candidate(r)}} ELSE {})
    /\ UNCHANGED <<published, dlq, cutOff, history, started>>
-----------------------------------------------------------------------------
\* stop_after_attempt(5).
LastAttempt(r) == run[r].attempt + 1 = MaxAttempts

\* _publish_one: the message is in librdkafka's buffer.
Produce(r) ==
    /\ At(r, "publish") /\ run[r].kept # {}
    /\ run' = [run EXCEPT ![r].kept = @ \ {NextToSend(r)},
                          ![r].queue = @ \union {NextToSend(r)}, ![r].attempt = 0]
    /\ UNCHANGED <<marks, published, dlq, cutOff, history, started, faults>>

\* KafkaException: the article goes to the dead-letter topic, on every failed
\* attempt and unless that fails too; tenacity tries again, and after the
\* last attempt raises an error that ends publish_batch.
ProduceFails(r) ==
    /\ At(r, "publish") /\ run[r].kept # {}
    /\ Fault
    /\ dlq' \in {dlq, [dlq EXCEPT ![NextToSend(r)] = @ + 1]}
    /\ IF LastAttempt(r)
       THEN run' = [run EXCEPT ![r].pc = "unwind", ![r].kept = {}, ![r].attempt = 0]
       ELSE run' = [run EXCEPT ![r].attempt = @ + 1]
    /\ UNCHANGED <<marks, published, cutOff, history, started>>

\* The buffer is full: BufferError is not a KafkaException, so nothing is
\* retried, and publish_batch ends; so it does when the message for the
\* dead-letter topic finds the buffer full.
BufferFull(r) ==
    /\ At(r, "publish") /\ run[r].kept # {}
    /\ Fault
    /\ run' = [run EXCEPT ![r].pc = "unwind", ![r].kept = {}, ![r].attempt = 0]
    /\ UNCHANGED <<marks, published, dlq, cutOff, history, started>>

\* The broker has acknowledged the message (acks=all, idempotent).
Deliver(r, a) ==
    /\ a \in run[r].queue
    /\ run' = [run EXCEPT ![r].queue = @ \ {a}]
    /\ published' = [published EXCEPT ![a] = @ + 1]
    /\ UNCHANGED <<marks, dlq, cutOff, history, started, faults>>

\* librdkafka gives up after its own retries (delivery.timeout.ms): the
\* callback logs it.
DeliveryFails(r, a) ==
    /\ a \in run[r].queue
    /\ Fault
    /\ run' = [run EXCEPT ![r].queue = @ \ {a}]
    /\ UNCHANGED <<marks, published, dlq, cutOff, history, started>>

FinishWithoutFlush(r) ==
    /\ At(r, "publish") /\ run[r].kept = {}
    /\ run' = [run EXCEPT ![r] = NoRun]
    /\ UNCHANGED <<marks, published, dlq, cutOff, history, started, faults>>

\* The flush of publish_batch has emptied the buffer, for delivery.timeout.ms
\* is no longer than it waits; the task is done.
Finish(r) ==
    /\ At(r, "publish") /\ run[r].kept = {} /\ run[r].queue = {}
    /\ run' = [run EXCEPT ![r] = NoRun]
    /\ UNCHANGED <<marks, published, dlq, cutOff, history, started, faults>>

\* __exit__ has flushed what was buffered, and the failed task is retried or
\* given up.
Unwind(r) ==
    /\ At(r, "unwind") /\ run[r].queue = {}
    /\ run' = [run EXCEPT ![r] = IF run[r].tries < MaxRetries
                                 THEN [NoRun EXCEPT !.pc = "retry", !.tries = run[r].tries]
                                 ELSE NoRun]
    /\ UNCHANGED <<marks, published, dlq, cutOff, history, started, faults>>

\* The worker process is killed; what it had buffered is lost.
Kill(r) ==
    /\ ~At(r, "idle")
    /\ Fault
    /\ run' = [run EXCEPT ![r] = NoRun]
    /\ UNCHANGED <<marks, published, dlq, cutOff, history, started>>

\* Redis drops a mark: 24 h later, or at any time if it has reached its
\* maxmemory (allkeys-lru).
Expire(a) ==
    /\ a \in marks
    /\ marks' = marks \ {a}
    /\ published' = [published EXCEPT ![a] = 0]
    /\ cutOff' = cutOff \ {a}
    /\ evicted' = IF a \in Held THEN evicted \union {a} ELSE evicted \ {a}
    /\ UNCHANGED <<run, dlq, fellBack, overlapped, started, faults>>
-----------------------------------------------------------------------------
Progress(r) ==
    \/ Retry(r) \/ Check(r) \/ Mark(r) \/ Cut(r)
    \/ Produce(r) \/ Finish(r) \/ Unwind(r)
    \/ \E a \in Articles : Deliver(r, a)

Failure(r) ==
    \/ FetchFails(r) \/ ProduceFails(r) \/ BufferFull(r) \/ Kill(r)
    \/ \E a \in Articles : DeliveryFails(r, a)

Next ==
    \/ \E r \in Runs : Start(r) \/ Progress(r) \/ Failure(r)
    \/ \E a \in Articles : Expire(a)

Spec == Init /\ [][Next]_vars

\* A run that has started keeps running, librdkafka keeps delivering, and
\* Prefect retries; nothing forces a start, a failure or an expiry.
Fairness == \A r \in Runs : WF_vars(Progress(r))

LiveSpec == Spec /\ Fairness
-----------------------------------------------------------------------------
\* As long as every fetcher reaches Redis, and Redis drops no mark while a run
\* holds the article: within the life of their marks no article is published
\* twice and no two near duplicates are, unless runs overlap; and even then an
\* article is published at most once for each run that can be under way, for
\* only those that checked it before the first mark let it through.
NoLiveDuplicates ==
    ~fellBack =>
        /\ ~overlapped =>
              \A a, b \in Articles \ evicted :
                  published[a] > 0 /\ published[b] > 0 /\ Near(a, b) =>
                      a = b /\ published[a] = 1
        /\ \A a \in Articles \ evicted : published[a] <= Cardinality(Runs)

\* "Dedup works correctly within a single run": without Redis a run never lets
\* through an article it has let through, or a near duplicate; with Redis it
\* does so only where Redis dropped the mark of the earlier one while a run
\* still held it.
SingleRunDistinct ==
    \A r \in Runs : At(r, "mark") =>
        \A k \in run[r].kept :
            Near(Candidate(r), k) => ~run[r].inMemory /\ k \in evicted

\* Without failures, what was let through and has left the hands of its run
\* is in the topic, unless it was cut off.
NothingForgotten ==
    faults = 0 =>
        \A a \in marks \ (Held \union cutOff) : published[a] > 0

\* A mark is a verdict: once its run has let go of a marked article, no run
\* and no retry takes it up again while the mark lives, to publish it or to
\* send it to the dead-letter topic once more.  What failed after it was marked
\* is therefore lost for the rest of the 24 h.
MarkIsFinal ==
    [][~fellBack' =>
          \A a \in (marks \ Held) \intersect marks' :
              /\ a \notin Held'
              /\ published'[a] = published[a] /\ dlq'[a] = dlq[a]]_vars

\* Every run comes to an end.
RunEnds == \A r \in Runs : ~At(r, "idle") ~> At(r, "idle")
-----------------------------------------------------------------------------
Records ==
    [pc : {"idle", "dedup", "mark", "publish", "unwind", "retry"},
     todo : Seq(Articles), inMemory : BOOLEAN,
     seen : SUBSET Articles, kept : SUBSET Articles, queue : SUBSET Articles,
     attempt : Nat, tries : Nat]

\* Every variable has its type.
TypeOK ==
    /\ run \in [Runs -> Records]
    /\ marks \subseteq Articles
    /\ published \in [Articles -> Nat] /\ dlq \in [Articles -> Nat]
    /\ cutOff \subseteq Articles
    /\ fellBack \in BOOLEAN /\ overlapped \in BOOLEAN /\ evicted \subseteq Articles
    /\ started \in Nat /\ faults \in Nat

\* What a run holds at each place in its code, and that it knows what it holds.
RunInv(r) ==
    /\ At(r, "mark") => run[r].todo # <<>>
    /\ run[r].pc \in {"idle", "dedup", "mark", "retry"} => run[r].queue = {}
    /\ run[r].pc \in {"idle", "unwind", "retry"} => run[r].kept = {}
    /\ run[r].kept \intersect run[r].queue = {}
    /\ run[r].pc \in {"unwind", "retry"} => faults > 0
    /\ run[r].inMemory => fellBack
    /\ run[r].inMemory /\ run[r].pc \in {"dedup", "mark"} => run[r].kept \subseteq run[r].seen
    /\ ~run[r].inMemory => run[r].kept \union run[r].queue \subseteq marks \union evicted
    /\ At(r, "mark") =>
          \A k \in run[r].kept :
              Near(Candidate(r), k) => ~run[r].inMemory /\ k \in evicted

\* With Redis, and unless a mark goes early, what is published or will be is
\* counted: each run publishes an article once at most, and none starts to
\* after the first has marked it.
CountedByRuns ==
    ~fellBack =>
        \A a \in Articles \ evicted :
            /\ published[a] > 0 => a \in marks
            /\ published[a] + Cardinality({r \in Runs : a \in InHand(r)}) <= Cardinality(Runs)

\* With Redis and one run at a time, the marks are pairwise distinct texts.
OneAtATime ==
    ~fellBack /\ ~overlapped =>
        /\ \A q, r \in Runs : ~At(q, "idle") /\ ~At(r, "idle") => q = r
        /\ \A a \in Articles \ evicted :
              published[a] <= 1 /\ (a \in Held => published[a] = 0)
        /\ \A a, b \in marks : Near(a, b) => a = b
        /\ \A r \in Runs : At(r, "mark") => \A k \in marks : ~Near(Candidate(r), k)

\* The inductive invariant behind the theorems on this module.
IndInv ==
    /\ TypeOK
    /\ \A r \in Runs : RunInv(r)
    /\ NothingForgotten
    /\ CountedByRuns
    /\ OneAtATime
=============================================================================

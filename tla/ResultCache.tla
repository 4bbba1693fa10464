----------------------------- MODULE ResultCache -----------------------------
(***************************************************************************)
(* What the consumer's batches leave in Redis for the API to serve: the    *)
(* sorted set of the latest results, the realtime channel and one hash of  *)
(* aggregates per ticker.  cache_results runs after write_batch, one batch *)
(* at a time; its two pipelines are transactions that redis-py may repeat  *)
(* when a reply is lost, and keys expire or are evicted at any time.       *)
(*                                                                         *)
(* A result is its article, a number by published_at.  Its JSON text holds *)
(* processed_at too, so a member of the sorted set is an article and the   *)
(* call that cached it; so is a row of the table, which has no key that a  *)
(* second insert of the article would violate.  Sentiments other than      *)
(* positive are alike here, and percentages are fractions, not rounded.    *)
(*                                                                         *)
(* NewestButOne, NewAggregatesAdded and WriteFailsUnnoticed are mutated    *)
(* forms of the operators after them; the specification uses none of them. *)
(***************************************************************************)
EXTENDS Naturals, FiniteSets

CONSTANTS
    MaxArticle,     \* bound: articles are 1 .. MaxArticle
    Tickers,        \* ticker symbols
    TickersOf,      \* the tickers of each article
    Positive,       \* the articles classified as positive
    MaxLatest,      \* size of the sorted set, 1000 in production
    MaxBatch,       \* batch_size of the consumer
    MaxCalls,       \* bound: batches processed
    MaxFaults,      \* bound: failed calls and lost replies
    MaxExpiries     \* bound: keys that expire or are evicted

Articles == 1 .. MaxArticle

ASSUME DataAssumption == /\ MaxArticle \in Nat
                         /\ TickersOf \in [Articles -> SUBSET Tickers]
                         /\ Positive \subseteq Articles
ASSUME SizeAssumption == /\ MaxLatest \in Nat \ {0} /\ MaxBatch \in Nat \ {0}
                         /\ MaxCalls \in Nat /\ MaxFaults \in Nat
                         /\ MaxExpiries \in Nat

VARIABLES
    pc,          \* where cache_results is: "idle", "list" or "count"
    batch,       \* the articles of the batch in hand
    call,        \* batches so far; the number of the one in hand
    stored,      \* the rows of sentiment_results
    latest,      \* pulsede:latest; empty if there is no such key
    added,       \* members added since that key was last absent
    channel,     \* members ever sent to pulsede:realtime
    ticker,      \* pulsede:ticker:{ticker}; a count of 0 if no such key
    toRead,      \* tickers of the batch whose count is still to be read
    existing,    \* the counts read
    counted,     \* members counted in each ticker's key since its birth
    faults,
    expiries
vars == <<pc, batch, call, stored, latest, added, channel, ticker, toRead,
          existing, counted, faults, expiries>>
tickerVars == <<ticker, counted>>
listVars == <<latest, added, channel>>

Members == Articles \X (1 .. MaxCalls)
Batches == {B \in SUBSET Articles : B # {} /\ Cardinality(B) <= MaxBatch}
NoHash == [count |-> 0, positive |-> 0, of |-> 0]

Init ==
    /\ pc = "idle" /\ batch = {} /\ call = 0
    /\ stored = {}
    /\ latest = {} /\ added = {} /\ channel = {}
    /\ ticker = [t \in Tickers |-> NoHash]
    /\ toRead = {}
    /\ existing = [t \in Tickers |-> 0]
    /\ counted = [t \in Tickers |-> {}]
    /\ faults = 0 /\ expiries = 0
-----------------------------------------------------------------------------
Fault ==
    /\ faults < MaxFaults
    /\ faults' = faults + 1

BatchMembers == batch \X {call}
Newer(m, k) == m[1] > k[1] \/ (m[1] = k[1] /\ m[2] > k[2])

NewestOf(S, n) == {m \in S : Cardinality({k \in S : Newer(k, m)}) < n}

\* zremrangebyrank(key, 0, -1001): what stays.
NewestButOne(S) == NewestOf(S, MaxLatest - 1)
Newest(S) == NewestOf(S, MaxLatest)

Items(t) == {a \in batch : t \in TickersOf[a]}
BatchTickers == {t \in Tickers : Items(t) # {}}

\* int(hget(key, "article_count") or 0).
Existing(t) == ticker[t].count

\* The mapping that hset writes: shares of this batch, a count of all.
NewAggregatesAdded(t) ==
    [count |-> ticker[t].count + Cardinality(Items(t)),
     positive |-> Cardinality(Items(t) \intersect Positive),
     of |-> Cardinality(Items(t))]
NewAggregates(t) ==
    [count |-> existing[t] + Cardinality(Items(t)),
     positive |-> Cardinality(Items(t) \intersect Positive),
     of |-> Cardinality(Items(t))]
-----------------------------------------------------------------------------
Take(B) ==
    /\ pc = "idle" /\ call < MaxCalls
    /\ call' = call + 1

\* write_batch succeeds and cache_results is called.  The batch may hold
\* articles of an earlier one that was read again.
Write(B) ==
    /\ Take(B)
    /\ batch' = B
    /\ stored' = stored \union (B \X {call + 1})
    /\ pc' = "list"
    /\ UNCHANGED <<listVars, tickerVars, toRead, existing, faults, expiries>>

WriteFailsUnnoticed(B) ==
    /\ Take(B)
    /\ Fault
    /\ stored' \in {stored, stored \union (B \X {call + 1})}
    /\ batch' = B
    /\ pc' = "list"
    /\ UNCHANGED <<listVars, tickerVars, toRead, existing, expiries>>

\* write_batch raises: cache_results is not called.
WriteFails(B) ==
    /\ Take(B)
    /\ Fault
    /\ stored' \in {stored, stored \union (B \X {call + 1})}
    /\ UNCHANGED <<pc, batch, listVars, tickerVars, toRead, existing, expiries>>

\* The first pipeline: ZADD and PUBLISH for each result, trim, expire.
ListPipeline ==
    /\ pc = "list"
    /\ latest' = Newest(latest \union BatchMembers)
    /\ added' = BatchMembers \union (IF latest = {} THEN {} ELSE added)
    /\ channel' = channel \union BatchMembers
    /\ UNCHANGED <<batch, call, stored, tickerVars, existing, expiries>>

ListResults ==
    /\ ListPipeline
    /\ toRead' = BatchTickers
    /\ pc' = "count"
    /\ UNCHANGED faults

\* The reply is lost: the pipeline is executed once more, or raises.
ListRepeated ==
    /\ ListPipeline
    /\ Fault
    /\ UNCHANGED <<pc, toRead>>

\* One HGET, outside any transaction.
ReadCount(t) ==
    /\ pc = "count" /\ t \in toRead
    /\ existing' = [existing EXCEPT ![t] = Existing(t)]
    /\ toRead' = toRead \ {t}
    /\ UNCHANGED <<pc, batch, call, stored, listVars, tickerVars, faults, expiries>>

\* The second pipeline: HSET and EXPIRE for each ticker of the batch.
SetPipeline ==
    /\ pc = "count" /\ toRead = {}
    /\ ticker' = [t \in Tickers |->
                    IF t \in BatchTickers THEN NewAggregates(t) ELSE ticker[t]]
    /\ LET new(t) == {m \in BatchMembers : m[1] \in Items(t)}
       IN  counted' = [t \in Tickers |->
                 new(t) \union (IF ticker[t].count = 0 THEN {} ELSE counted[t])]
    /\ UNCHANGED <<call, stored, listVars, toRead, expiries>>

SetTickers ==
    /\ SetPipeline
    /\ pc' = "idle" /\ batch' = {}
    /\ existing' = [t \in Tickers |-> 0]
    /\ UNCHANGED faults

SetRepeated ==
    /\ SetPipeline
    /\ Fault
    /\ UNCHANGED <<pc, batch, existing>>

\* A command raises, or the process dies: the rest of cache_results is not
\* done.
Fail ==
    /\ pc # "idle"
    /\ Fault
    /\ pc' = "idle" /\ batch' = {} /\ toRead' = {}
    /\ existing' = [t \in Tickers |-> 0]
    /\ UNCHANGED <<call, stored, listVars, tickerVars, expiries>>

\* An hour, or five minutes, without a write; or an eviction.
ExpireLatest ==
    /\ latest # {} /\ expiries < MaxExpiries
    /\ latest' = {}
    /\ expiries' = expiries + 1
    /\ UNCHANGED <<pc, batch, call, stored, added, channel, tickerVars, toRead,
                   existing, faults>>

ExpireTicker(t) ==
    /\ ticker[t].count > 0 /\ expiries < MaxExpiries
    /\ ticker' = [ticker EXCEPT ![t] = NoHash]
    /\ expiries' = expiries + 1
    /\ UNCHANGED <<pc, batch, call, stored, listVars, toRead, existing, counted,
                   faults>>
-----------------------------------------------------------------------------
Next ==
    \/ \E B \in Batches : Write(B) \/ WriteFails(B)
    \/ ListResults \/ ListRepeated
    \/ \E t \in Tickers : ReadCount(t) \/ ExpireTicker(t)
    \/ SetTickers \/ SetRepeated
    \/ Fail
    \/ ExpireLatest

Spec == Init /\ [][Next]_vars
-----------------------------------------------------------------------------
\* article_count is at least the number of results counted since the key's
\* birth and at most the number of rows that name the ticker, however often a
\* pipeline is repeated and whenever the key expires between the HGET and the
\* HSET: the cache never reports more articles than the database can show.
TickerCountBounds ==
    \A t \in Tickers :
        ticker[t].count > 0 =>
            /\ Cardinality(counted[t]) <= ticker[t].count
            /\ ticker[t].count <= Cardinality({m \in stored : t \in TickersOf[m[1]]})
-----------------------------------------------------------------------------
Hashes == [count : Nat, positive : Nat, of : Nat]
Rows(t) == {m \in stored : t \in TickersOf[m[1]]}
EarlierRows(t) == {m \in Rows(t) : m[2] < call}
ItemRows(t) == Items(t) \X {call}

\* Every variable has its type; only a call of cache_results holds anything.
TypeOK ==
    /\ pc \in {"idle", "list", "count"}
    /\ batch \in SUBSET Articles
    /\ call \in Nat
    /\ stored \in SUBSET (Articles \X (0 .. call))
    /\ added \in SUBSET stored /\ channel \in SUBSET stored
    /\ ticker \in [Tickers -> Hashes]
    /\ existing \in [Tickers -> Nat]
    /\ toRead \in SUBSET Tickers
    /\ counted \in [Tickers -> SUBSET (Articles \X Nat)]
    /\ pc # "idle" => BatchMembers \subseteq stored
    /\ pc # "count" => toRead = {}

\* Trimming after every batch leaves what trimming once would leave.
ListIsTrimmed == latest # {} => latest = Newest(added)

\* What counts towards a ticker is stored.
CountedStored == \A t \in Tickers : counted[t] \subseteq Rows(t)

\* Until its count is read, a ticker's key counts earlier rows only; so does
\* the count read, which covers what the key counted before this batch, or
\* the key has expired.
CountsEarlier ==
    \A t \in Tickers :
        /\ pc = "list" \/ t \in toRead =>
              ticker[t].count <= Cardinality(EarlierRows(t))
        /\ pc = "count" /\ t \in BatchTickers \ toRead =>
              /\ existing[t] <= Cardinality(EarlierRows(t))
              /\ ticker[t].count > 0 =>
                    Cardinality(counted[t] \ ItemRows(t)) <= existing[t]

\* The inductive invariant behind the theorems on this module.
IndInv ==
    /\ TypeOK
    /\ ListIsTrimmed
    /\ CountedStored
    /\ CountsEarlier
    /\ TickerCountBounds
=============================================================================

# PulseDE: TLA+ models and proofs

PulseDE fetches financial news, publishes it to Kafka, classifies the sentiment
of each article with an ensemble of three models, stores the results in
TimescaleDB, shows the recent ones through Redis, and serves them over REST, a
websocket and dashboards. This directory holds TLA+ modules of the parts of the
program that carry state from one step to the next, the TLC configurations that
check them, and proofs that TLAPS checks. `PROJECT.json` relates every
definition to the lines it models.

To check a model: `tlc -config consumer.cfg MCSentimentConsumer.tla`.
To check the proofs of a module: `tlapm SentimentConsumerProofs.tla`.

## 1. Inventory of the system

```
 NewsAPI, RSS, Alpha Vantage
        | _fetch_*                          Redis: dedup marks (24 h)
        v                                     ^ exists / scan / setex
 NewsFetcher.fetch_all ---- _deduplicate -----+
        | newest 100
        v
 ArticleProducer.publish_batch --> Kafka news topic --> SentimentConsumer.run
        |                                                 | extract_batch, predict
        +--> Kafka dead-letter topic                      | write_batch --> TimescaleDB
   (one Prefect task: fetch_and_publish_task)             | cache_results --> Redis
                                                          | commit offsets --> Kafka
 FastAPI: rate limit (Redis), latest/ticker (Redis, else TimescaleDB), hourly,
          analyse (ensemble), websocket (Redis pub/sub)
 Prefect: drift_check_flow (TimescaleDB --> DriftDetector --> MLflow)
```

| Component (source) | State it keeps | Operations | What is hard | What makes it correct |
|---|---|---|---|---|
| Consumer (`processing/kafka_consumer.py`) | position and batch in memory; committed offset at the broker | `run`, `stop`, `_poll_batch`, `_process_batch` | a crash, signal or failed call at any step; restart by Docker; offsets committed one by one | no committed article is lost; duplicates only after faults; a stop drains |
| Fetcher (`ingestion/news_fetcher.py`) | marks in Redis or in the process | `fetch_all`, `_deduplicate` | check and mark are separate round trips; fallback to memory; marking before publishing | no duplicate reaches the topic; nothing is lost silently |
| Producer (`ingestion/kafka_producer.py`) | librdkafka's buffer | `publish_batch`, `_publish_one`, `_send_to_dlq`, `close` | three layers of retries; asynchronous delivery | every run ends; what fails for good is in the dead-letter topic |
| Flows (`orchestration/pipeline.py`) | Prefect's run state | fetch task (3 retries), drift task (2 retries) | retries after partial work; overlapping runs | a retry repairs; runs do not disturb each other |
| Timescale writer (`storage/timescale_writer.py`) | table, hypertable, aggregate | `_bootstrap`, `write_batch`, queries | a swallowed error in an aborted transaction; inserts without a key | a batch is all or nothing; the schema is complete |
| Redis cache (`storage/redis_cache.py`) | sorted set of the latest 1000, ticker hashes, channel, rate counters | `cache_results`, `get_latest`, `get_ticker_summary`, `is_rate_limited` | expiry and eviction between steps; repeated pipelines; read-modify-write over two round trips | what is cached is stored; aggregates describe what they count; the limit holds |
| API (`serving/api.py`) | singletons, `_active_ws` | admission, cache-then-database reads, websocket loop | stale or partial cache; sockets that vanish | no answer invents or hides results; sockets are released |
| Ensemble (`ml/ensemble.py`) | weights, temperature, dropout mode | `predict`, `calibrate_temperature` | labels of three models mapped to three classes | probabilities of the right class |
| Features (`ml/feature_engineering.py`) | lazily loaded pipelines | `extract` | fallback chain of the impact class | pure function of the text |
| Evaluator (`ml/evaluator.py`) | none | `evaluate`, `_ece` | bounds of bins | the metrics mean what they say |
| Drift detector (`monitoring/drift_detector.py`) | reference window | `set_reference`, `check` | empty bins, small windows | alerts exactly at the thresholds |
| Lite mode (`run_lite.py`) | SQLite file | one pass of the whole pipeline | accumulation over runs, 500-row window | each article once |
| Dashboards, containers, CI | – | presentation, deployment | reconnect loop | – |

`PROJECT.json` lists, under "hazards", where in these files each difficulty
bites and which property watches it; those without a property say why there is
none.

## 2. Plan

In this order; all but the last two are here.

1. `DeliveryContract`, `SentimentConsumer`: the path from the topic to the
   database, with its abstract contract. Proved.
2. `RateLimiter`. Proved.
3. `FetchPublish`: from the sources to the topic. Proved.
4. `Calibration`: the calibration error. Proved.
5. `ResultCache` and `ServingReads`: the sorted set, trimming, ticker
   aggregates, expiry, repeated pipelines, and what the API reads from cache and
   table. Proved.
6. `SchemaBootstrap`: the start of several writers against one database, with
   PostgreSQL's aborted transactions. Proved.
7. `RealtimeSocket`: channel, handlers of the sockets, `_active_ws`. Proved.
8. `DriftDetector` with `DriftCheck` and `LiteRun`: what the statistics can
   answer, the hourly flow and the lite mode that ask them. Proved.
9. `Features`, `Ensemble`, composed by `Inference`: one process that classifies.
   Proved.
10. `Pipeline`, to come: composes `FetchPublish` with the consumer, the topic and
    the committed offset shared; end to end: what was let through is stored or
    abandoned. Today `DeliveryContract` is the seam: its producer side is
    `Publish`, which `Deliver` of `FetchPublish` does in the code.
11. A consumer group with two members and rebalancing, to come (the compose file
    starts one, the documentation speaks of scaling).

## 3. Modules

### `SentimentConsumer` and `DeliveryContract`

One partition, one consumer process. State: `topic`, `committed` (broker);
`rows` (TimescaleDB, rows per offset); `cached` (Redis); `pc`, `running`,
`position`, `batch` (process); `abandoned` and `faults` are observations.

| Action | Code |
|---|---|
| `Restart`, `StartAgain` (`Construct`) | a new process: `__init__`, position at the group's offset |
| `Run` | `run` sets `_running` and enters the loop |
| `Stop` | signal handler, between any two steps |
| `PollArticle`, `PollMalformed`, `PollPoison`, `EndPoll` | `_poll_batch`: an article, a caught error, an error that leaves `run`, the deadline or a full batch |
| `WriteBatch`, `WriteBatchFails` | `write_batch`; a failure may come after the commit of the transaction |
| `CacheResults`, `CacheResultsFails` | `cache_results` |
| `CommitOne`, `CommitFails` | one synchronous commit per message; a failure may come after the broker applied it |
| `Crash` | a kill, or an exception of inference |

Messages are of three kinds: an article, a malformed one (`JSONDecodeError`,
`KeyError`: skipped) and poison (anything else, such as a date that does not
parse: the exception ends the process). `write_batch` is a plain insert: the
primary key is generated, so `ON CONFLICT DO NOTHING` has nothing to do.
`DeliveryContract` says what a user of the pipeline may rely on: the committed
offset passes only what is settled, settled means stored or waived, and neither
is undone. "Waived" is what the `except` branch gives up.

### `RateLimiter`

`count` and `expireAt` are the Redis key of one client; `hits` and `admits` are
histories. The names of its specification begin with `Limiter`, as its proofs
stand beside those of the other half of `redis_cache.py`. INCR and EXPIRE are
one transaction and one action, shared by `Admit`, `Refuse` and `LoseReply`.
`Evict` is Redis under `allkeys-lru`.

### `FetchPublish`

Each `run[r]` is one execution of `fetch_and_publish_task`, a record of its
place in the code (`dedup`, `mark`, `publish`, `unwind`, `retry`) and of what it
holds; several may be under way. Articles are numbered by age, so that "newest
first" is "largest first"; near duplicates are pairs of a relation that is not
transitive, as Hamming distance is not.

| Action | Code |
|---|---|
| `Start`, `Retry` (`Fetch`) | a new `NewsFetcher`, the adapters' articles, and Redis or its own sets |
| `Check`, `Mark` | the two halves of `_deduplicate`, separate round trips to Redis |
| `Cut` | sorting, and `unique[:max_articles_per_fetch]` |
| `FetchFails` | an exception that leaves `fetch_all`, perhaps with the marks set |
| `Produce`, `ProduceFails`, `BufferFull` | `_publish_one`: buffered, failed and retried by tenacity (with the dead-letter topic on every failed attempt), or ended by `BufferError` |
| `Deliver`, `DeliveryFails` | librdkafka, at any time after `Produce` |
| `Finish`, `Unwind` | the flush of `publish_batch` or of `__exit__`; Prefect retries or gives up |
| `Kill`, `Expire` | the worker dies; Redis drops a mark, after its 24 h or earlier for want of memory, and with it ends the count of publications under it |

The reads of one `Check` (`EXISTS`, then a scan) are one step; in a run of its
own nothing changes between them, and in an overlap the check is only as good as
its last read. `Expire` may take any mark at any time, that of an article in the
hands of a run included (`allkeys-lru`, `infra/docker-compose.yml:136`). `evicted`
remembers such articles, until a mark of theirs goes while no run holds them;
`overlapped` and `fellBack` are histories too, and the properties speak of all
three. A run that lets an article through again after such an eviction holds two
copies in the code and one in the model; of an evicted article
`NoLiveDuplicates` claims nothing.

### `Calibration`

A state is an evaluation set. Confidences are multiples of 1/20 and the error is
kept as an integer, the code's value times 20 times the number of samples.
`EvalSpec` lets the set grow row by row.

### `ResultCache` and `ServingReads`

`cache_results` of one consumer, command by command: `ListResults` is the first
pipeline (ZADD and PUBLISH per result, ZREMRANGEBYRANK, EXPIRE), `ReadCount` one
HGET per ticker, `SetTickers` the second pipeline. Each pipeline is a
MULTI/EXEC transaction and one action; `ListRepeated` and `SetRepeated` are the
same pipeline executed when its reply is lost, after which redis-py sends it
again or raises (`Fail`). `ExpireLatest` and `ExpireTicker` come between any two
steps: the keys live an hour and five minutes, and Redis evicts under
`allkeys-lru`. A member of the sorted set is an article with the number of the
call that cached it, since its JSON text holds `processed_at`: an article that
is read again after a crash is a second member. `added`, `channel` and `counted`
are histories.

`ServingReads` adds what the API answers: `GetLatest` and `GetTicker` ask Redis
and, if it holds nothing, the table (`QueryRecent`, `QueryByTicker`). They change
nothing, so they are operators on a state of `ResultCache`, and a property about
them holds for a request that arrives between any two steps of the consumer.

### `SchemaBootstrap`

Every process that constructs a `TimescaleWriter` runs `_bootstrap`; `pc[p]` is
its statement, `own[p]` what its open transaction created, `db` what is
committed. `Swallow` is `except Exception: pass`, and sets `aborted[p]`, because
PostgreSQL has aborted the transaction; in an aborted transaction `CreateIndexes`
raises (`Raise`: `engine.begin()` rolls back, the constructor raises, Docker
starts the process again) and `Commit` is a rollback that tells nobody.
`CREATE TABLE IF NOT EXISTS` is two steps, the look and the insertion into the
catalogue: the second waits for a rival's transaction and raises if that
committed.

### `RealtimeSocket`

The handlers of `/ws/realtime` in one worker process, a coroutine per socket:
`Accept`, `Subscribe` (`_active_ws.add`, then `get_pubsub`), then `Read` and
`Send` in turn. `SubscribeFails` raises outside the `try`; `ReadFails` runs the
`finally` but not the branch that discards the socket; `SendToGone` is
`WebSocketDisconnect`, the only way out of `_active_ws`. `Leave` is the client's
going, which the server notices by a send only. `Publish` is the consumer's;
Redis delivers a message to the subscriptions that are open (`open`, which the
code does not keep anywhere, unlike `active`), and `queue[s]` is what it holds
for them. `Resubscribe` is redis-py connecting anew after a time-out: what was
queued is gone.

### `DriftDetector`, `DriftCheck`, `LiteRun`

The detector's statistics are sums of logarithms. `DriftDetector` states what
must hold of its answers and leaves any other answer possible: the same shares
give no alert by PSI or chi-squared; an empty bin counts as 1e-6, so that a
share of 1/49 of a window in a bin that is empty in the other always alerts
(k/n ln(10^6 k/n) passes 0.2 between k/n = 1/50 and 1/49); nothing is said of the
JS divergence, which compares labels with mean probabilities.

`DriftCheck` is the hourly flow: `ReadReference` and `ReadCurrent` are two
queries with their own `NOW()`, between which rows are inserted (`Insert`, also
late ones) and time passes (`Tick`); ties at the limit of a query fall any way.
`AttemptFails` is an exception of a query and Prefect's retry. The gates (50 and
10 rows) end a task as `skipped`; `late` is a history.

`LiteRun` is `run_lite.py`: overlapping runs on one SQLite file, with live
articles that repeat or demo articles of the run's own, `SaveResults` (INSERT OR
IGNORE, one transaction), `LoadResults` (the newest 500), the gates of the
evaluation and of the drift check, the comparison of the two halves, and the
hint "run again N more time(s)". `FetchDemo` makes one demo article, since
`datetime.now()` is called for each (`run_lite.py:203`): the time may stand still
between two articles and does not go back, and the dates of runs that make
theirs at the same time interleave. Live articles bring the date of their
publication (`LiveDate`). Rows with the same date come in any order, where the
newest rows are loaded (`LoadResults`) and where they are cut in two (`Halves`).
`demoSince` counts the demo runs saved after a hint. `Fail` is an exception or
the process's death anywhere.

### `Features`, `Ensemble`, `Inference`

`Ensemble` is `predict` on one text: each model's own labels mapped to the three
classes (`Row`, with a later label overwriting an earlier one of its class), the
weighted average, the first of the largest; and the mode that every pass sets,
since the dropout passes leave the primary model in training mode. What a model
gives without dropout is a function of the text (`out`), with dropout anything.
`CalibrateTemperature` picks any positive value. `Features` is `extract`:
tickers with the blocklist and the order of first occurrences, sectors (both
`Found`, a recursive function over the text: what a table has for its elements,
listed once), hedges, word tests, the chain keyword, zero-shot pipeline,
"unknown" for the impact, and the two pipelines, loaded when first needed and
tried again after a failed load.
`Inference` composes them into one process, which the consumer's articles
(`ProcessArticle`), requests (`Analyse`) and calibrations go through.

## 4. Runs

| Run | Question | Bounds |
|---|---|---|
| `consumer` | the inductive invariant, five safety properties, one action property, the contract; every article ends committed or abandoned, a stop ends the loop | 4 messages of any kind, batches of 2, 3 faults |
| `consumer_at_least_once` (violation) | the header's "at-least-once" | 3 messages, no poison, 2 faults |
| `rate_limiter` | inductive invariant, window bound, bound under eviction, refusals | limit 2, window 3, time 7, 6 hits, 2 evictions |
| `fetch_publish` | duplicates with and without overlap, losses, finality of marks, termination | 2 runs, 3 articles in a chain of near duplicates, 2 feeds that repeat and overlap, cut at 1, 2 attempts, 1 retry, 2 starts, 2 faults of any kind, any number of evictions |
| `calibration` | the error never hides the miscalibration of the whole set | 15 bins as in the code, 3 samples, all confidences from 7/20 to 1 |
| `calibration_certain` (violation) | the unit test of the worst case | 2 samples |
| `result_cache` | pages without holes, nothing served that is not stored, counts under repetition and expiry | 3 articles on 2 tickers, a sorted set of 2, pages and row limits up to 2, one article outside the hours asked for, batches of 2, 3 batches, 2 faults, 2 expiries |
| `schema_bootstrap` | inductive invariant, all or nothing, ready means schema, all become ready | 3 processes, 3 faults |
| `realtime` | order and completeness of each client's stream, who stays in `_active_ws`, every message is settled | 2 sockets, 3 messages, 2 faults |
| `drift_check` | rows in bins empty in the reference came in a race; equal windows are quiet by PSI and chi-squared; every task ends | 3 kinds of rows, windows of 1 and 2 units, limits 3 and 4, gates 1 and 2, 2 attempts, 4 rows, 3 units of time |
| `lite_run` | first results stay, the hint suffices, an even number of demo runs dated in turn is quiet | 3 runs (symmetric), 2 live articles of dates 0 and 1, 2 demo articles, 2 instants, batches of 2, 5 rows loaded, gates 2 and 4 |
| `inference` | answers repeat, labels are mapped right, order of tickers, failures are not remembered | every row of fifths of three models, temperatures 1 and 2; or three sure models and texts of up to three words, 1 fault |

Why the bounds suffice: the consumer's batch of 2 is the smallest with a
commit in its middle; four messages give two full batches, the first of which
can be abandoned and overtaken; three faults allow a failure, a crash and a
signal in one behaviour. The limiter's limit of 2 with 6 hits lets two quotas be
spent and a third begin, and time 7 holds two windows. In `fetch_publish` two
runs may overlap or follow one another, and the retry of each makes a third and
a fourth fetch; two faults allow a lost reply and the failure of the retry; the cut at 1 drops
one of the two distinct articles of each feed. In `result_cache` a sorted set of
two and batches of two make every batch after the first trim; three batches give
one to count, one to repeat and one after an expiry. Three processes give
`schema_bootstrap` a builder, one that waits for it and one that finds the
schema. Two sockets in `realtime` can be on either side of a message, and one of
them can fail in each of the two ways. In `drift_check` the limits (3, 4) are
reached and the gates (1, 2) missed with four rows, and time passes the end of
both windows. Three runs of `lite_run` give two that overlap and one after them;
three demo runs exceed the 5 rows that are loaded. Two instants let one run date
its articles before another, at the same time, or interleaved with it: without
its premise `InTurn`, TLC finds `EvenDemoRunsQuiet` violated by two runs that
date their articles at the same time. The rows of fifths of
`inference` contain every order of three classes, ties included. Deadlock is not
checked where a model stops at a bound (`MaxTime`, `MaxHits`, `MaxStarts`,
`MaxSamples`, `MaxCalls`, `MaxMessages`) or at its end (every process is
ready, every run of the lite mode is done); the runs of the consumer, of
`inference` and of `drift_check` check it.

Each property is also checked against a mutated definition (operators named
for a bug, such as `StartPositionLatest`), which breaks it.

### What the violations show

* **A failed batch is lost** (`consumer_at_least_once`). The `except` branch
  relies on "the next consumer restart", but the loop goes on and the next
  commit passes the batch. `NoSilentLoss` is what remains true: only abandoned
  batches are lost.
* **Certain predictions do not count** (`calibration_certain`): the last bin
  excludes 1.

### Other disagreements met while modelling

The actions named show them; no run checks them.

* The limiter is not a "sliding window": every hit, a refused one too, renews the
  key (`IncrExpire`). A client that asks every 59 s is refused from the 61st
  request on, and until it pauses for a window. `WindowBound` and
  `RefusalMeansNoRest` are what it does hold (`WindowBound` is the case of
  `EvictionBound` without evictions, stated for itself because it is the limit as
  the code means it).
* Nothing limits concurrency, although `pipeline.py:11` says that overlapping
  runs are prevented: `NoLiveDuplicates` allows one copy per run in an overlap.
* The dead-letter topic takes an article on its first failed attempt
  (`ProduceFails`), not when "max retries" are spent (`kafka_producer.py:5`), and
  never takes one whose delivery librdkafka gives up (`DeliveryFails`).
* `timescaledb_schema_ready` is logged even if the aggregate's exception was
  swallowed and the commit rolled the table back (`timescale_writer.py:130`).
  `ReadyMeansSchema` is what remains true. A database without the extension does
  not "fail silently", as `infra/db/init.sql` says: `CreateIndexes` raises in the
  aborted transaction.
* A signal between the constructor and `run()` is forgotten, since `Run`
  overwrites the flag.
* A ticker's summary gives the shares of the last batch next to the count of all
  (`NewAggregates`).
* The lite mode prints its number of "new rows saved" for ignored duplicates
  too (`run_lite.py:254`, `SaveResults`), and its README table names 3 dropout
  passes where the code makes 5.
* `uncertain_fraction` of the evaluator has a threshold of its own, 0.15
  (`evaluator.py:143`), whatever the ensemble's threshold is set to.

## 5. Fairness

The consumer: weak fairness of its own steps (`Run`, polling, writing, caching,
committing), since the process keeps executing, and of `Restart`, since Docker
restarts a container that exited (`unless-stopped`). `EndPoll` is one of the
steps because the deadline of the poll always comes. Nothing forces a message, a
signal, a failure, or the operator's `StartAgain`. Faults are finite, so that a
call that fails may fail again only so often.

Fetching: weak fairness of the progress of every run, its retries included
(Prefect retries after 30 s, and librdkafka delivers or gives up within
`delivery.timeout.ms`); starts, failures and expiries are never forced.

Bootstrap: weak fairness of each process's sound steps and of its start
(`unless-stopped` restarts the API and the consumer, Prefect's retries construct
the writer of the drift flow anew, a bounded number of times); the failures are
finite, and `EventuallyReady` speaks of a process that is started again each
time.

Sockets: weak fairness of each handler's steps, for the event loop resumes every
coroutine whose wait is over; messages, failures and the client's going are not
forced. So `MessageSettled` promises a message its end, and does not promise that
a socket whose client has gone is ever noticed.

Drift: weak fairness of the steps of a started task, failed attempts among them:
whichever way each goes, the attempts are finite.

## 6. Proofs

All for every value of the constants, under the assumptions named in the
modules (bounds are natural numbers, batch size and limit are positive, the
windows and gates are ordered as in the code, the weights of the models are not
all zero and a model's label map names its three labels differently). In each,
`Invariance` proves the inductive invariant `IndInv`, which includes type
correctness, and the properties follow from it (`LimiterInvariance` and
`LimiterInv` for the rate limiter). Every safety invariant and every action
property of the runs is proved.

`SentimentConsumerProofs`. None of the safety
properties is inductive alone. That a commit passes only stored articles needs
to know that the batch is in the database when it is being committed
(`BatchWritten`), that the batch lists its offsets in increasing order below the
position (`BatchInOrder`), and that nothing lies between what is committed and
what is in hand (`NoGap`); these in turn need that the committed offset never
passes the position (`ReadPrefix`). `RowsBudget` strengthens the bound on
duplicates: an article that is neither committed nor past its insertion has at
most one row per fault. From `IndInv` follow `NoSilentLossHolds`,
`DuplicateBudgetHolds`, `CacheBehindDbHolds`, `GracefulDrainHolds`,
`PoisonBarrierHolds`, the action property `CommittedNeverReprocessedHolds`, and
`ContractHolds`: every step is a step of `DeliveryContract` or leaves its
variables alone.

`FetchPublishProofs`. For any finite set of runs. `NoLiveDuplicatesHolds` has two
halves. Without overlap (`OneAtATime`) the marks are pairwise distinct texts and
what is in hand is not yet published. With overlap (`CountedByRuns`) the
publications of an article and the runs that hold it are together at most as
many as the runs: once it is marked, no further run takes it up, and each run
publishes what it holds once. Both halves except the articles in `evicted`, to
which `Expire` moves what loses its mark in the hands of a run.
`SingleRunDistinctHolds` needs that a run without Redis remembers what it keeps,
and that with Redis everything a run keeps is marked or evicted (`RunInv`): so
only an early eviction lets a near duplicate into the same run.
`MarkIsFinalHolds` and `NothingForgottenHolds` are a case per action of who holds
a marked article; that a failed attempt dead-letters nothing but what its run
holds is `NextIsKept`.

`RedisCacheProofs`, the cache. `PageIsTopHolds` says that trimming after every
batch leaves what trimming once would (`ListIsTrimmed`): the step is `TrimOnce`,
the newest n of (the newest n of S, and T) are the newest n of S and T. Its core
is `LeftOutBelow`, that a member left out is below n members that are kept,
proved by mapping each member to its rank. `TickerCountBoundsHolds` needs that
the counts read at `ReadCount` are counts of earlier batches (`CountsEarlier`),
as a repeated pipeline writes the same sum again. `ServedIsStoredHolds` covers
the answers from both stores and the channel.

`RedisCacheProofs`, the rate limiter. `EvictionBound` speaks of admissions
`Limit * (1 + evictions)` places apart. Inductively (`LiveAdmits`) the
admissions can be cut in two: the first b lie a whole window back, and the
others are at most as many as the evicted keys could grant and the living one
has granted (`Spent`). An eviction moves `Spent` to the account of the evicted;
an expiry moves the cut to the end, since every admission lies a window before
the living key's end. `WindowBoundHolds` is the case without evictions.
`RefusalMeansNoRestHolds` rests on `LiveHits`: the hits that the key counts are
the last ones, without a rest between them.

`SchemaBootstrapProofs`. For any number of processes and failures.
All or nothing alone is not inductive: that a commit brings the whole schema
needs to know what a transaction has built at each statement (`BuiltInOrder`),
where it can be aborted (`AbortedWhere`: the hypertable's exception gets no
further than the indexes), and that only one transaction
builds at a time (`OneBuilder`), which rests on the wait in `CreateTable`.

`RealtimeSocketProofs`. `StreamInOrderHolds`: what a client has received, what its
handler holds and what Redis keeps for it are one sequence, which `Publish`
extends and every other step shortens at its end or leaves alone; that the new
message is larger needs `NothingAhead`, and that a subscription begins empty
`NothingHeld`. `LeakBoundHolds` counts: only a failure adds to the sockets that
stay in `_active_ws` without a subscription.

`DriftCheckProofs`. `OutlierNeedsRaceHolds`: as the reference window is longer and
its limit larger, an uncut reference holds every row that the second query can
return, unless it was inserted in between (`ReferenceStillWhole`,
`CurrentWithin`), however far the clock has moved. So no row lies in a bin that
only the reference leaves empty, unless it came late; a bin that only the
current window leaves empty is not covered, and may alert without a race.
`YoungSystemQuietHolds` adds that an uncut current window holds the reference's
rows of its hours (`CurrentWhole`): if the whole reference lies within them and
no late row was read, both are the same set, and PSI and the chi-squared test
are quiet. Of the JS divergence nothing is claimed.

`LiteRunProofs`. `HintSufficesHolds`: the rows at the hint and `DemoSize` for each
demo run saved since are all in the table (`HintCovers`), because a run's demo
articles are in the table only after it saved (`DemoUnsaved`), so that none is
ignored as a duplicate; N = (missing div `DemoSize`) + 1 runs are enough.
`FirstResultStaysHolds` is the action property that follows from INSERT OR
IGNORE under any overlap.

`EvenDemoRunsQuietHolds` is about the comparison that follows the evaluation: a
run that loaded only demo rows, of an even number of whole runs and fewer than
the window, sees two halves with the same confidences and labels, provided that
of any two of the runs one had dated all of its articles before the other dated
its first (`InTurn`). How they overlapped in saving and loading does not matter.
It needs `DriftInv` beside `IndInv` (`DriftInvariance`): an article has one row,
which says what its headline says; a transaction saves all of a run's demo rows
or none (`WholeRuns`); and what is loaded below the window is the whole table
(`RowsWhole`, `LoadedWhole`). None of this asks in which order the runs dated
their articles. Two facts about the operators make it a statement about halves.
`CutBetweenRuns`: a cut that went through one run would leave every other run
whole on one side, since their dates do not mix, and then the number of newer
rows would not be a multiple of `DemoSize`; so the newer half is the rows of half
the runs. `SharesOfRuns`: each run's demo rows say the same of the same
headlines, so that rows of `k` whole runs have `k` times the shares of one. What
`DriftDetector` says of equal shares does the rest. With an odd number of runs,
or with dates that interleave, the cut goes through a run, and with live rows it
goes anywhere; of those nothing is claimed.

`MLProofs`, features and ensemble. `RepeatableHolds` needs that every answer
given so far is `Answer(out, t)` of a temperature (`EnsembleInv`): `Predict`
sets the mode before it asks a model, so that what the dropout passes of earlier
calls left behind does not matter. `UnanimityDecidesHolds` is about the
operators: through `Canonical` each model's row puts first what the model puts
first, whatever it calls it (`LabelAssumption`); the weighted sum of three rows
that are all largest at one class is largest there; and `ArgMax` finds it.
`HeadlineTickersFirstHolds` is about `Found` and holds for every text: what is
found in the headline is a prefix of what is found in headline and body, and
nothing is found twice. Sectors are `Found` in the tickers, so that the same
lemmas apply a second time; that a run's last article is one of the texts is
`LastIsOfText`. `UnknownOnlyByFaultHolds` is inductive as it stands.

`MLProofs`, calibration. `GapBoundHolds`: the samples with a confidence below 1
are the disjoint union of the masks of the bins, since the bins `j / NBins`
cover [0, 1) and are half-open; a sum over the whole set is then the sum of the
sums over the bins, for correct answers as for confidences; and the absolute
value of a sum is at most the sum of the absolute values.

The last three are induction over data, for which the library's theorems cannot
be used here (they take a predicate as a parameter). `NaturalInduction` states
induction for a set of numbers instead of a predicate, and its proof is the
pigeonhole principle: if the set has 0 and the successor of each element but not
m, adding 1 maps its numbers up to m, one to one, into those other than 0, which
are one fewer. With it, `Recursion` shows
that the recursive functions of the modules have the values that their
definitions say (the provers cannot assume it of a `CHOOSE`), and the folds of
the community modules behind `SumFunctionOnSet` are unfolded in the same way.

Only model-checked: the liveness properties `EventuallyCommitted`, `StopEndsLoop`,
`RunEnds`, `MessageSettled`, `TaskEnds` and `EventuallyReady`, since fairness and
ENABLED are out of the prover's reach.

## 7. Abstractions and what is left out

* Several partitions and a consumer group of several members (section 2, 11).
  The topic is auto-created with one partition and one consumer is started.
* `max.poll.interval.ms`: an inference of more than five minutes, after which the
  broker would take the partition away, is taken as a crash.
* The two dedup keys of an article are set in one transaction with one time to
  live and are one mark. Redis evicting just one of them is not modelled; that it
  evicts both at any time is.
* `ResultCache` keeps percentages as fractions, and two sentiments; averages of
  confidence and uncertainty behave as the percentages do. The read of a cached
  page is one step, as it is one command.
* The three indexes of `SchemaBootstrap` are one object, and a killed process's
  session ends at once.
* The dead-letter topic is what was sent to it; its own delivery is not followed,
  and of how often the attempts of one run send an article there nothing is
  claimed. `MarkIsFinal` says that no later run or retry sends it again.
* `Ensemble` keeps the order of the classes and not their values: logarithms
  divided by a positive temperature keep the order (the model assumes a positive
  temperature and weights that are not negative, which the defaults are; the
  code checks only that the weights sum to 1, and neither configuration nor the
  optimiser of `calibrate_temperature` is kept from a temperature of 0 or
  below), so the class is that of the average and the confidence a function of
  the average and the temperature.
  Rounding to four places is left out. The words of a text are atoms, and a
  keyword of several words is one of them. The features come before the
  prediction in the code; as neither reads what the other leaves, the two are
  one step.
* PSI, chi-squared and JS divergence are the implications of `DriftDetector`;
  `OutlierShare` = 49 depends on the clip of 1e-6 and the threshold of 0.2.
* The blocking read of the websocket's handler (`get_message` of the synchronous
  client, on the event loop) delays the other handlers. That is a matter of
  time, and the model takes a read as one step.

Not modelled: the dashboards (drawing, and a listener thread that connects again
for ever; its queue is read by nothing, and a thread writes `session_state`),
logging, metrics, tracing and MLflow (output; a failure of MLflow is caught), the
Avro schema (data that nothing executes), tokens and the health probe of the API
(one call whose result is passed on), `query_hourly_rollup` (a view that
PostgreSQL keeps), the metrics that scikit-learn computes, softmax, entropy and
the gradient descent of the temperature (real-number functions), and the reading
of the environment: configuration values are constants.

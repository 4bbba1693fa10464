---------------------------- MODULE ServingReads ----------------------------
(***************************************************************************)
(* What the API answers from the two stores that ResultCache describes:    *)
(* GET /v1/sentiment/latest and /ticker/{ticker} ask Redis first and the   *)
(* database only if Redis holds nothing, without comparing the two.  The   *)
(* reads change no state, so they are operators on a state; an answer may  *)
(* fall anywhere between two steps of cache_results.                       *)
(***************************************************************************)
EXTENDS ResultCache

CONSTANTS
    MaxPage,        \* the largest n a caller may ask for, 500 in production
    MaxRows,        \* LIMIT of query_by_ticker, 200 in production
    Recent          \* the articles published within the hours asked for

ASSUME PageAssumption == MaxPage \in 1 .. MaxLatest /\ MaxRows \in Nat \ {0}
ASSUME RecentAssumption == Recent \subseteq Articles
-----------------------------------------------------------------------------
\* query_recent(hours, limit = n): ORDER BY published_at DESC LIMIT n.
QueryRecent(n) == NewestOf({m \in stored : m[1] \in Recent}, n)

\* query_by_ticker(ticker, hours).
QueryByTicker(t) ==
    NewestOf({m \in stored : m[1] \in Recent /\ t \in TickersOf[m[1]]}, MaxRows)

\* get_latest: a cached list answers alone, however short it is.
GetLatest(n) == IF latest # {} THEN NewestOf(latest, n) ELSE QueryRecent(n)

\* get_ticker: the hash, the aggregates of the rows, or 404.
Aggregates(rows) ==
    [count |-> Cardinality(rows),
     positive |-> Cardinality({m \in rows : m[1] \in Positive}),
     of |-> Cardinality(rows)]
GetTicker(t) ==
    CASE ticker[t].count > 0  -> [source |-> "cache", data |-> ticker[t]]
      [] ticker[t].count = 0 /\ QueryByTicker(t) # {} ->
             [source |-> "db", data |-> Aggregates(QueryByTicker(t))]
      [] OTHER -> [source |-> "404", data |-> NoHash]
-----------------------------------------------------------------------------
\* A page of the latest results leaves out nothing but what is older: of all
\* results added since the cached list was born - or of all recent rows, when
\* there is no list - one that is missing from a page of n is older than n
\* others that the page shows.  Trimming after every batch, in whatever order
\* the results arrive, never makes a hole in a page.
PageIsTop ==
    \A n \in 1 .. MaxPage :
        LET page  == GetLatest(n)
            known == IF latest # {} THEN added ELSE {m \in stored : m[1] \in Recent}
        IN  /\ page \subseteq known
            /\ \A m \in known \ page :
                  Cardinality({k \in page : Newer(k, m)}) = n

\* Whatever the API or the channel shows is in the database, however the
\* steps of the consumer fail: a reader who follows a result to its row finds
\* it, and a ticker that the API counts has at least one row.
ServedIsStored ==
    /\ channel \union GetLatest(MaxPage) \subseteq stored
    /\ \A t \in Tickers :
          GetTicker(t).source # "404" =>
              \E m \in stored : t \in TickersOf[m[1]]
=============================================================================

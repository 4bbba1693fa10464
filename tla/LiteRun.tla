------------------------------ MODULE LiteRun ------------------------------
(***************************************************************************)
(* Lite mode: each start of run_lite.py fetches live articles or makes     *)
(* demo articles, classifies them, saves the results in one SQLite file,   *)
(* loads the newest rows of all runs and compares their older half with    *)
(* the newer one.  Several runs may overlap on the file; saving is one     *)
(* transaction, loading one query.                                         *)
(*                                                                         *)
(* An article is a pair, and its content hash is the pair itself:          *)
(* <<"live", a>> for the live article a, and <<r, i>> for the i-th demo    *)
(* headline of run r, whose URL holds the run's id.  A run dates its demo  *)
(* articles one by one, each with the time at which it makes it, and runs  *)
(* that make theirs at the same time interleave; live articles bring the   *)
(* date of their publication.  The same headline always gets the same bin  *)
(* and label: the classifying pass has no dropout.                         *)
(*                                                                         *)
(* DemoWithoutRunId, KeptReplacing and HalvesOffByOne are mutated forms of *)
(* the operators after them; the specification uses none of them.          *)
(***************************************************************************)
EXTENDS DriftDetector, Sequences

CONSTANTS
    Runs,          \* bound: the runs ever started
    MaxLive,       \* bound: live articles are 1 .. MaxLive
    LiveDate,      \* when they were published
    MaxClock,      \* bound: the time
    DemoSize,      \* demo headlines, 15 in the code
    BatchSize,     \* articles classified in a run, 30 in the code
    Window,        \* rows loaded, 500 in the code
    EvalMin,       \* rows needed for the evaluation, 10 in the code
    DriftMin,      \* rows needed for the drift check, 20 in the code
    Kind           \* bin and label of the headline with a given number

Live == {"live"} \X (1 .. MaxLive)
DemoWithoutRunId(r) == {CHOOSE q \in Runs : TRUE} \X (1 .. DemoSize)
\* The URL http://demo.com/{run_id}/{i} enters the content hash.
DemoArticles(r) == {r} \X (1 .. DemoSize)

ASSUME RunsAssumption ==
    /\ "live" \notin Runs /\ MaxLive \in Nat
    /\ LiveDate \in [1 .. MaxLive -> Nat] /\ MaxClock \in Nat
ASSUME SizeAssumption ==
    /\ DemoSize \in Nat \ {0} /\ BatchSize \in Nat \ {0} /\ DemoSize <= BatchSize
    /\ Window \in Nat /\ EvalMin \in Nat /\ DriftMin \in Nat
    /\ EvalMin <= DriftMin /\ DriftMin <= Window
ASSUME KindAssumption ==
    \A i \in (1 .. DemoSize) \union (1 .. MaxLive) : {"bin", "label"} = DOMAIN Kind[i]

VARIABLES
    pc,        \* where main is: "new", "dating" while it makes demo
               \* articles, "fetched", "saved", "loaded", "evaluated", "done",
               \* or "failed" after an exception
    dated,     \* the dates of the demo articles that a run has made so far
    batch,     \* the articles a run classifies
    table,     \* sentiment_results: rows with the run that saved them
    loaded,    \* what load_results returned
    report,    \* the drift report, a set with at most one element
    hint,      \* "run again N more time(s)"; 0 if not printed
    demoSince, \* demo runs that saved since the hint
    clock      \* the time, which does not go back
vars == <<pc, dated, batch, table, loaded, report, hint, demoSince, clock>>

Init ==
    /\ pc = [r \in Runs |-> "new"]
    /\ dated = [r \in Runs |-> <<>>]
    /\ batch = [r \in Runs |-> {}]
    /\ table = {}
    /\ loaded = [r \in Runs |-> {}]
    /\ report = [r \in Runs |-> {}]
    /\ hint = [r \in Runs |-> 0]
    /\ demoSince = [r \in Runs |-> 0]
    /\ clock = 0
-----------------------------------------------------------------------------
Goto(r, from, to) == pc[r] = from /\ pc' = [pc EXCEPT ![r] = to]

Published(a, r) == IF a[1] = "live" THEN LiveDate[a[2]] ELSE dated[r][a[2]]
Articles == {row.article : row \in table}
Row(a, r) == [article |-> a, by |-> r, at |-> Published(a, r),
              bin |-> Kind[a[2]].bin, label |-> Kind[a[2]].label]
KeptReplacing(r) == {row \in table : row.article \notin batch[r]}
\* INSERT OR IGNORE: the rows that stay.
Kept(r) == table

\* fetch_news_live drops what it has seen in this run, and the batch is cut.
FetchLive(r) ==
    /\ Goto(r, "new", "fetched")
    /\ \E A \in SUBSET {a \in Live : LiveDate[a[2]] <= clock} \ {{}} :
          /\ Cardinality(A) <= BatchSize
          /\ batch' = [batch EXCEPT ![r] = A]
    /\ UNCHANGED <<dated, table, loaded, report, hint, demoSince, clock>>

\* No key, no network or nothing found: the next demo article, dated with
\* datetime.now(), which may be what another article got.
FetchDemo(r) ==
    /\ pc[r] \in {"new", "dating"}
    /\ clock' \in {clock, clock + 1} /\ clock' <= MaxClock
    /\ dated' = [dated EXCEPT ![r] = Append(@, clock')]
    /\ IF Len(dated[r]) + 1 < DemoSize
         THEN /\ pc' = [pc EXCEPT ![r] = "dating"]
              /\ UNCHANGED batch
         ELSE /\ pc' = [pc EXCEPT ![r] = "fetched"]
              /\ batch' = [batch EXCEPT ![r] = DemoArticles(r)]
    /\ UNCHANGED <<table, loaded, report, hint, demoSince>>

\* Loading the models or the inference raises, or the process dies.
Fail(r) ==
    /\ pc[r] \in {"dating", "fetched", "saved", "loaded", "evaluated"}
    /\ pc' = [pc EXCEPT ![r] = "failed"]
    /\ dated' = [dated EXCEPT ![r] = <<>>]
    /\ batch' = [batch EXCEPT ![r] = {}]
    /\ loaded' = [loaded EXCEPT ![r] = {}]
    /\ UNCHANGED <<table, report, hint, demoSince, clock>>

SaveResults(r) ==
    /\ Goto(r, "fetched", "saved")
    /\ table' = Kept(r) \union
          {Row(a, r) : a \in batch[r] \ {row.article : row \in Kept(r)}}
    /\ demoSince' = [q \in Runs |->
          IF hint[q] > 0 /\ dated[r] # <<>> THEN demoSince[q] + 1 ELSE demoSince[q]]
    /\ batch' = [batch EXCEPT ![r] = {}]
    /\ UNCHANGED <<dated, loaded, report, hint, clock>>

\* load_results: ORDER BY published_at DESC LIMIT 500.
LoadResults(r) ==
    /\ Goto(r, "saved", "loaded")
    /\ \E T \in TopSets(table, Window) : loaded' = [loaded EXCEPT ![r] = T]
    /\ UNCHANGED <<dated, batch, table, report, hint, demoSince, clock>>

Total(r) == Cardinality(loaded[r])

TooFewToEvaluate(r) ==
    /\ Total(r) < EvalMin
    /\ Goto(r, "loaded", "done")
    /\ loaded' = [loaded EXCEPT ![r] = {}]
    /\ UNCHANGED <<dated, batch, table, report, hint, demoSince, clock>>

\* evaluate raises if a class is missing: that is Fail.
Evaluate(r) ==
    /\ Total(r) >= EvalMin
    /\ Goto(r, "loaded", "evaluated")
    /\ UNCHANGED <<dated, batch, table, loaded, report, hint, demoSince, clock>>

HalvesOffByOne(r) ==
    {[older |-> loaded[r] \ T, newer |-> T] : T \in TopSets(loaded[r], Total(r) \div 2 + 1)}
\* all_rows[mid:] and all_rows[:mid].
Halves(r) ==
    {[older |-> loaded[r] \ T, newer |-> T] : T \in TopSets(loaded[r], Total(r) \div 2)}

CheckDrift(r) ==
    /\ Total(r) >= DriftMin
    /\ Goto(r, "evaluated", "done")
    /\ \E h \in Halves(r) : \E c \in Check(h.older, h.newer) :
          report' = [report EXCEPT ![r] = {c}]
    /\ UNCHANGED <<dated, batch, table, loaded, hint, demoSince, clock>>

TooFewForDrift(r) ==
    /\ Total(r) < DriftMin
    /\ Goto(r, "evaluated", "done")
    /\ hint' = [hint EXCEPT ![r] = (DriftMin - Total(r)) \div DemoSize + 1]
    /\ loaded' = [loaded EXCEPT ![r] = {}]
    /\ UNCHANGED <<dated, batch, table, report, demoSince, clock>>
-----------------------------------------------------------------------------
Next ==
    \E r \in Runs :
        \/ FetchLive(r) \/ FetchDemo(r)
        \/ SaveResults(r) \/ LoadResults(r)
        \/ TooFewToEvaluate(r) \/ Evaluate(r)
        \/ CheckDrift(r) \/ TooFewForDrift(r)
        \/ Fail(r)

Spec == Init /\ [][Next]_vars
-----------------------------------------------------------------------------
\* The result that a run saved for an article stays, however many later runs,
\* overlapping or not, classify the article again, and no article gets a
\* second row: what the dashboard shows of an article never changes.
FirstResultStays ==
    [][/\ table \subseteq table'
       /\ Articles \intersect {row.article : row \in table' \ table} = {}]_vars

\* "Run again N more time(s)" is enough: once N demo runs have saved after the
\* hint, a run that loads gets the rows that the drift check needs, for the
\* demo articles of every run are articles of their own, and the limit of the
\* query, wherever it cuts, leaves as many.
HintSuffices ==
    \A r \in Runs :
        hint[r] > 0 /\ demoSince[r] >= hint[r] =>
            \A T \in TopSets(table, Window) : Cardinality(T) >= DriftMin

RowsOf(L, q) == {x \in L : x.article[1] = q}

\* Of any two runs with rows in L, one dated all of its articles before the
\* other dated its first.
InTurn(L) ==
    \A p, q \in Runs :
        \/ p = q
        \/ \A x \in RowsOf(L, p), y \in RowsOf(L, q) : x.at < y.at
        \/ \A x \in RowsOf(L, p), y \in RowsOf(L, q) : y.at < x.at

\* An even number of demo runs looks stable: if the runs made their articles
\* one after the other, however they overlapped in what followed, the halves
\* hold the same number of whole runs, each run classified the same headlines,
\* and neither the confidences nor the labels alert.  Of runs that made their
\* articles at the same time the property says nothing: their dates
\* interleave, the cut goes through runs, and the check may alert.
EvenDemoRunsQuiet ==
    \A r \in Runs :
        /\ report[r] # {}
        /\ \A x \in loaded[r] : x.article[1] # "live"
        /\ (Total(r) \div DemoSize) % 2 = 0 /\ Total(r) % DemoSize = 0
        /\ Total(r) < Window
        /\ InTurn(loaded[r])
        => \A c \in report[r] : ~c.psi /\ ~c.label
-----------------------------------------------------------------------------
Stages == {"new", "dating", "fetched", "saved", "loaded", "evaluated", "done", "failed"}

\* Every variable has its type; a run classifies live articles or its own.
TypeOK ==
    /\ pc \in [Runs -> Stages]
    /\ dated \in [Runs -> Seq(Nat)]
    /\ batch \in [Runs -> SUBSET (Live \union (Runs \X (1 .. DemoSize)))]
    /\ \A r \in Runs : batch[r] \subseteq Live \union DemoArticles(r)
    /\ IsFiniteSet(table)
    /\ loaded \in [Runs -> SUBSET table]
    /\ report \in [Runs -> SUBSET [psi : BOOLEAN, label : BOOLEAN, js : BOOLEAN]]
    /\ hint \in [Runs -> Nat] /\ demoSince \in [Runs -> Nat]
    /\ clock \in Nat

\* The demo articles of a run enter the table when it saves, and not before.
DemoUnsaved ==
    /\ \A row \in table :
          \/ row.article \in Live
          \/ \E r \in Runs : /\ row.article \in DemoArticles(r)
                             /\ pc[r] \notin {"new", "dating", "fetched"}
    /\ \A r \in Runs :
          /\ pc[r] = "new" => dated[r] = <<>>
          /\ pc[r] = "dating" => Len(dated[r]) < DemoSize
          /\ pc[r] = "fetched" =>
                IF dated[r] = <<>> THEN batch[r] \subseteq Live
                ELSE batch[r] = DemoArticles(r) /\ Len(dated[r]) = DemoSize

\* A hint was computed from at most as many rows as there are now without the
\* demo runs that saved since.
HintCovers ==
    \A r \in Runs :
        IF hint[r] = 0 THEN demoSince[r] = 0
        ELSE \E n \in 0 .. DriftMin :
                /\ hint[r] = (DriftMin - n) \div DemoSize + 1
                /\ n + demoSince[r] * DemoSize <= Cardinality(table)

\* The hint is the last that a run prints.
HintIsLast == \A r \in Runs : hint[r] # 0 => pc[r] = "done"

\* The inductive invariant behind the theorems on this module.
IndInv == TypeOK /\ DemoUnsaved /\ HintIsLast /\ HintCovers

\* A run's demo rows are all there, or none is.
WholeRuns(S) ==
    \A x \in S :
        \/ x.article \in Live
        \/ \E r \in Runs : /\ x.article \in DemoArticles(r)
                           /\ DemoArticles(r) \subseteq {y.article : y \in S}

\* An article has one row, which says of it what its headline says; what a
\* run loads below the window is a whole table.
RowsWhole ==
    /\ \A x, y \in table : x.article = y.article => x = y
    /\ \A x \in table : /\ x.at \in Nat
                       /\ x.bin = Kind[x.article[2]].bin
                       /\ x.label = Kind[x.article[2]].label
    /\ WholeRuns(table)
    /\ \A r \in Runs : Total(r) < Window => WholeRuns(loaded[r])

\* The report is the last thing that a run writes.
ReportIsLast == \A r \in Runs : report[r] # {} => pc[r] = "done"

\* What the theorem on the drift report needs beside IndInv.
DriftInv == RowsWhole /\ ReportIsLast /\ EvenDemoRunsQuiet
=============================================================================

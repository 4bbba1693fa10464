----------------------------- MODULE DriftCheck -----------------------------
(***************************************************************************)
(* The hourly drift flow: check_drift_task reads a reference window and a  *)
(* current window of sentiment_results by two queries, each a transaction  *)
(* of its own with its own NOW(), while the consumer goes on inserting,    *)
(* and Prefect repeats a task that raised.  Then DriftDetector compares    *)
(* the two and MLflow may or may not take the result.                      *)
(*                                                                         *)
(* Time is a count of units; a window of h units holds the rows published  *)
(* in this unit and the h before it.  Articles arrive late, and rows of    *)
(* one unit come in any order.                                             *)
(*                                                                         *)
(* CurrentCutEarly, SameAttempt and ReferenceBefore are mutated forms of   *)
(* the operators after them; the specification uses none of them.          *)
(***************************************************************************)
EXTENDS DriftDetector

CONSTANTS
    Kinds,          \* the bins and labels that results have
    LookbackHours,  \* of the current window, 1 in production
    ReferenceHours, \* of the reference window, 24 in production
    CurrentLimit, ReferenceLimit,   \* rows read, 500 and 2000
    CurrentMin, ReferenceMin,       \* rows needed, 10 and 50
    MaxAttempts,    \* 3: the first one and two retries
    MaxRows,        \* bound: rows inserted
    MaxNow          \* bound: the time

ASSUME WindowAssumption ==
    /\ {LookbackHours, ReferenceHours, MaxRows, MaxNow} \subseteq Nat
    /\ LookbackHours <= ReferenceHours
ASSUME SizeAssumption ==
    /\ {CurrentMin, ReferenceMin, MaxAttempts} \subseteq Nat \ {0}
    /\ CurrentLimit \in Nat /\ CurrentMin <= CurrentLimit
    /\ ReferenceLimit \in Nat /\ ReferenceMin <= ReferenceLimit
    /\ CurrentLimit <= ReferenceLimit

VARIABLES
    now,
    table,      \* rows of sentiment_results
    pc,         \* "idle", "reference", "current", "check", "skipped",
                \* "reported" or "failed" after the last attempt
    attempt,
    reference,  \* the rows read first
    late,       \* the rows inserted between the two reads
    current,    \* the rows read second
    readAt,     \* the time of the second read
    report      \* what the task returns: {} or a set of one report
vars == <<now, table, pc, attempt, reference, late, current, readAt, report>>
taskVars == <<pc, attempt, reference, current, readAt, report>>

Init ==
    /\ now = 0 /\ table = {} /\ pc = "idle" /\ attempt = 1
    /\ reference = {} /\ late = {} /\ current = {} /\ readAt = 0 /\ report = {}
-----------------------------------------------------------------------------
\* query_recent(hours, limit).
QueryRecent(hours, limit) == TopSets({r \in table : r.at + hours >= now}, limit)

Insert ==
    /\ Cardinality(table) < MaxRows
    /\ \E k \in Kinds, t \in 0 .. now :
          LET row == [id |-> Cardinality(table), at |-> t, bin |-> k.bin, label |-> k.label]
          IN  /\ table' = table \union {row}
              /\ late' = IF pc = "current" THEN late \union {row} ELSE late
    /\ UNCHANGED <<now, taskVars>>

Tick ==
    /\ now < MaxNow
    /\ now' = now + 1
    /\ UNCHANGED <<table, late, taskVars>>

\* The flow is scheduled: an attempt makes a new writer and a new detector.
Start ==
    /\ pc = "idle"
    /\ pc' = "reference"
    /\ UNCHANGED <<now, table, late, attempt, reference, current, readAt, report>>

Enough(R, n) == Cardinality(R) >= n

ReferenceBefore ==
    TopSets({r \in table : r.at + ReferenceHours >= now /\ r.at + LookbackHours < now},
            ReferenceLimit)
ReferenceWindow == QueryRecent(ReferenceHours, ReferenceLimit)
ReadReference ==
    /\ pc = "reference"
    /\ reference' \in ReferenceWindow
    /\ late' = {}
    /\ pc' = IF Enough(reference', ReferenceMin) THEN "current" ELSE "skipped"
    /\ UNCHANGED <<now, table, attempt, current, readAt, report>>

CurrentCutEarly == QueryRecent(LookbackHours, CurrentLimit - 1)
CurrentWindow == QueryRecent(LookbackHours, CurrentLimit)
ReadCurrent ==
    /\ pc = "current"
    /\ current' \in CurrentWindow
    /\ readAt' = now
    /\ pc' = IF Enough(current', CurrentMin) THEN "check" ELSE "skipped"
    /\ UNCHANGED <<now, table, attempt, reference, late, report>>

\* The gauges are set, MLflow is told if it can be, the report is returned.
Compare ==
    /\ pc = "check"
    /\ \E c \in Check(reference, current) : report' = {c}
    /\ pc' = "reported"
    /\ UNCHANGED <<now, table, attempt, reference, late, current, readAt>>

SameAttempt(a) == a
NextAttempt(a) == a + 1
\* The database raises: the attempt ends, and the next one starts anew.
AttemptFails ==
    /\ pc \in {"reference", "current"}
    /\ IF attempt < MaxAttempts
         THEN pc' = "reference" /\ attempt' = NextAttempt(attempt)
         ELSE pc' = "failed" /\ attempt' = attempt
    /\ reference' = {}
    /\ UNCHANGED <<now, table, late, current, readAt, report>>

\* The next run of the flow.
Finish ==
    /\ pc \in {"skipped", "reported", "failed"}
    /\ pc' = "idle" /\ attempt' = 1
    /\ reference' = {} /\ late' = {} /\ current' = {} /\ readAt' = 0 /\ report' = {}
    /\ UNCHANGED <<now, table>>
-----------------------------------------------------------------------------
Task == ReadReference \/ ReadCurrent \/ Compare \/ AttemptFails

Next == Insert \/ Tick \/ Start \/ Task \/ Finish

\* Prefect's worker runs a task that it has started, and its retries.
Spec == Init /\ [][Next]_vars /\ WF_vars(Task)
-----------------------------------------------------------------------------
WholeReference == Cardinality(reference) < ReferenceLimit

\* Only a row that was inserted between the two queries lies in a bin that the
\* reference leaves empty, where one row in 49 is enough for an alert: the
\* reference window holds the current one, unless the limit cut the first query
\* or a row came after it.  A bin that only the current window leaves empty is
\* another matter, and may alert without either.
OutlierNeedsRace ==
    pc \in {"check", "reported"} /\ WholeReference =>
        \A r \in current : With(reference, "bin", r.bin) = {} => r \in late

\* While everything that the reference query returned lies within the lookback
\* window, the two windows are the same, and neither PSI nor the chi-squared
\* test alerts, unless a limit cut a query or a row read by the second query
\* came after the first.  Nothing is said of the JS divergence.
YoungSystemQuiet ==
    /\ pc = "reported" /\ WholeReference /\ Cardinality(current) < CurrentLimit
    /\ late \intersect current = {}
    /\ \A r \in reference : r.at + LookbackHours >= readAt
    => \A c \in report : ~c.psi /\ ~c.label

\* A started task ends, with a report, for want of rows, or after its last
\* attempt.
TaskEnds == (pc = "reference") ~> (pc \in {"skipped", "reported", "failed"})
-----------------------------------------------------------------------------
\* Time and the times of rows are numbers, and the windows are parts of the
\* finite table.
TypeOK ==
    /\ now \in Nat /\ readAt \in Nat
    /\ IsFiniteSet(table) /\ \A r \in table : r.at \in Nat
    /\ pc \in {"idle", "reference", "current", "check", "skipped", "reported", "failed"}
    /\ reference \subseteq table /\ current \subseteq table

\* Between the reads, an uncut reference window and the rows inserted since
\* are all that it would hold if it were read again.
ReferenceStillWhole ==
    pc = "current" /\ WholeReference =>
        \A r \in table : r.at + ReferenceHours >= now => r \in reference \union late

\* Beside rows inserted between the reads, the current window lies within an
\* uncut reference window.
CurrentWithin ==
    pc \in {"check", "reported"} /\ WholeReference => current \subseteq reference \union late

\* An uncut current window holds what the reference window holds of its hours.
CurrentWhole ==
    pc \in {"check", "reported"} /\ Cardinality(current) < CurrentLimit =>
        \A r \in reference : r.at + LookbackHours >= readAt => r \in current

\* The inductive invariant behind the theorems on this module.
IndInv ==
    /\ TypeOK
    /\ ReferenceStillWhole
    /\ CurrentWithin
    /\ CurrentWhole
    /\ pc = "reported" => report \subseteq Check(reference, current)
=============================================================================

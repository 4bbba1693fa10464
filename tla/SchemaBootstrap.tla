--------------------------- MODULE SchemaBootstrap ---------------------------
(***************************************************************************)
(* TimescaleWriter() of several processes that start against one database: *)
(* the consumer and every worker of the API.  Each runs _bootstrap: four   *)
(* statements in one transaction, of which two may fail and the code goes  *)
(* on.  PostgreSQL makes DDL transactional: once a statement has failed,   *)
(* every later one of the transaction raises, and COMMIT rolls back        *)
(* without an error.                                                       *)
(*                                                                         *)
(* CREATE ... IF NOT EXISTS first looks at what is committed and then      *)
(* inserts into the catalogue, where it waits for a transaction that has   *)
(* inserted the same name, and raises if that one committed.               *)
(*                                                                         *)
(* RaiseInTransaction, SwallowInSavepoint, StartOnce and CommittedAnyway   *)
(* are mutated forms of the operators after them; the specification uses   *)
(* none of them.                                                           *)
(***************************************************************************)
EXTENDS Naturals

CONSTANTS
    Procs,       \* processes that construct a TimescaleWriter
    MaxFaults    \* bound: statements that fail, processes that are killed

ASSUME MaxFaultsAssumption == MaxFaults \in Nat

VARIABLES
    pc,         \* the statement a process is at; "ready" or "failed" at the end
    own,        \* what its open transaction has created
    aborted,    \* its transaction has seen an error
    swallowed,  \* statements whose exception its bootstrap passed over
    db,         \* what is committed
    faults
vars == <<pc, own, aborted, swallowed, db, faults>>

\* Creating the hypertable converts the table; three indexes count as one.
Objects == {"table", "hypertable", "indexes", "aggregate"}
Places == {"down", "table", "insert", "hypertable", "indexes", "aggregate",
           "commit", "ready", "failed"}

Init ==
    /\ pc = [p \in Procs |-> "down"]
    /\ own = [p \in Procs |-> {}]
    /\ aborted = [p \in Procs |-> FALSE]
    /\ swallowed = [p \in Procs |-> {}]
    /\ db = {}
    /\ faults = 0
-----------------------------------------------------------------------------
Fault ==
    /\ faults < MaxFaults
    /\ faults' = faults + 1

Goto(p, place) == pc' = [pc EXCEPT ![p] = place]
HeldByOther(p, object) == \E q \in Procs \ {p} : object \in own[q]

\* Once PostgreSQL knows the object or has no rival for it, it is there.
Create(p, object) ==
    /\ ~aborted[p]
    /\ object \in db \/ ~HeldByOther(p, object)
    /\ own' = [own EXCEPT ![p] = @ \union ({object} \ db)]

RaiseInTransaction(p) ==
    /\ Goto(p, "failed")
    /\ UNCHANGED <<own, aborted>>

\* An exception leaves engine.begin(): roll back, and TimescaleWriter() raises.
Raise(p) ==
    /\ Goto(p, "failed")
    /\ own' = [own EXCEPT ![p] = {}]
    /\ aborted' = [aborted EXCEPT ![p] = FALSE]

SwallowInSavepoint(p, statement) ==
    /\ swallowed' = [swallowed EXCEPT ![p] = @ \union {statement}]
    /\ UNCHANGED <<own, aborted, db>>

\* except Exception: pass.
Swallow(p, statement) ==
    /\ aborted' = [aborted EXCEPT ![p] = TRUE]
    /\ swallowed' = [swallowed EXCEPT ![p] = @ \union {statement}]
    /\ UNCHANGED <<own, db>>
-----------------------------------------------------------------------------
StartOnce(p) ==
    /\ pc[p] = "down"
    /\ Goto(p, "table")
    /\ swallowed' = [swallowed EXCEPT ![p] = {}]
    /\ UNCHANGED <<own, aborted, db, faults>>

\* The process starts, or Docker starts it again.
Start(p) ==
    /\ pc[p] \in {"down", "failed"}
    /\ Goto(p, "table")
    /\ swallowed' = [swallowed EXCEPT ![p] = {}]
    /\ UNCHANGED <<own, aborted, db, faults>>

\* CREATE TABLE IF NOT EXISTS: the look.
LookForTable(p) ==
    /\ pc[p] = "table"
    /\ Goto(p, IF "table" \in db THEN "hypertable" ELSE "insert")
    /\ UNCHANGED <<own, aborted, swallowed, db, faults>>

\* CREATE TABLE IF NOT EXISTS: the insertion.  A rival has committed the
\* table since the look: a unique violation.
CreateTable(p) ==
    /\ pc[p] = "insert"
    /\ ~HeldByOther(p, "table")
    /\ IF "table" \in db
       THEN Raise(p)
       ELSE Create(p, "table") /\ Goto(p, "hypertable") /\ UNCHANGED aborted
    /\ UNCHANGED <<swallowed, db, faults>>

\* create_hypertable(..., if_not_exists => TRUE).
CreateHypertable(p) ==
    /\ pc[p] = "hypertable"
    /\ Create(p, "hypertable")
    /\ Goto(p, "indexes")
    /\ UNCHANGED <<aborted, swallowed, db, faults>>

\* As without the extension that infra/db/init.sql creates.
HypertableFails(p) ==
    /\ pc[p] = "hypertable"
    /\ Fault
    /\ Swallow(p, "hypertable")
    /\ Goto(p, "indexes")

\* CREATE INDEX IF NOT EXISTS, outside any try: in an aborted transaction it
\* raises.
CreateIndexes(p) ==
    /\ pc[p] = "indexes"
    /\ IF aborted[p]
       THEN Raise(p)
       ELSE Create(p, "indexes") /\ Goto(p, "aggregate") /\ UNCHANGED aborted
    /\ UNCHANGED <<swallowed, db, faults>>

\* CREATE MATERIALIZED VIEW IF NOT EXISTS ... WITH (timescaledb.continuous).
CreateAggregate(p) ==
    /\ pc[p] = "aggregate"
    /\ Create(p, "aggregate")
    /\ Goto(p, "commit")
    /\ UNCHANGED <<aborted, swallowed, db, faults>>

\* As in an edition of TimescaleDB without continuous aggregates.
AggregateFails(p) ==
    /\ pc[p] = "aggregate"
    /\ Fault
    /\ Swallow(p, "aggregate")
    /\ Goto(p, "commit")

\* What COMMIT leaves in the database.
CommittedAnyway(p) == db \union own[p]
Committed(p) == IF aborted[p] THEN db ELSE db \union own[p]

\* The end of engine.begin(); an aborted transaction is rolled back, and no
\* exception tells.
Commit(p) ==
    /\ pc[p] = "commit"
    /\ db' = Committed(p)
    /\ own' = [own EXCEPT ![p] = {}]
    /\ aborted' = [aborted EXCEPT ![p] = FALSE]
    /\ Goto(p, "ready")
    /\ UNCHANGED <<swallowed, faults>>

\* A statement without a try of its own fails, or the process is killed.
Fail(p) ==
    /\ pc[p] \notin {"down", "ready", "failed"}
    /\ Fault
    /\ Raise(p)
    /\ UNCHANGED <<swallowed, db>>
-----------------------------------------------------------------------------
Bootstrap(p) ==
    \/ Start(p) \/ LookForTable(p) \/ CreateTable(p) \/ CreateHypertable(p)
    \/ CreateIndexes(p) \/ CreateAggregate(p) \/ Commit(p)

Next ==
    \E p \in Procs :
        \/ Bootstrap(p)
        \/ HypertableFails(p) \/ AggregateFails(p) \/ Fail(p)

Spec == Init /\ [][Next]_vars

\* Docker starts every process and restarts it; PostgreSQL answers.
LiveSpec == Spec /\ \A p \in Procs : WF_vars(Bootstrap(p))

Ready(p) == pc[p] = "ready"
-----------------------------------------------------------------------------
\* Every variable has its type, and only an open transaction holds anything.
TypeOK ==
    /\ pc \in [Procs -> Places]
    /\ own \in [Procs -> SUBSET Objects]
    /\ aborted \in [Procs -> BOOLEAN]
    /\ swallowed \in [Procs -> SUBSET {"hypertable", "aggregate"}]
    /\ db \subseteq Objects
    /\ faults \in 0 .. MaxFaults
    /\ \A p \in Procs :
          pc[p] \in {"down", "table", "insert", "ready", "failed"} =>
              own[p] = {} /\ ~aborted[p]

\* The schema is committed whole or not at all, whichever processes race,
\* fail and start again: never a table without its indexes or its aggregate.
AllOrNothing == db = {} \/ db = Objects

\* A process whose bootstrap returned has the schema, unless an exception of
\* the aggregate was passed over; an exception of create_hypertable never lets
\* a bootstrap return, passed over or not.
ReadyMeansSchema ==
    \A p \in Procs :
        Ready(p) => /\ "hypertable" \notin swallowed[p]
                    /\ "aggregate" \in swallowed[p] \/ db = Objects

\* What a transaction has built when it reaches each place, statement by
\* statement, if it builds at all.
Built == [hypertable |-> {"table"},
          indexes |-> {"table", "hypertable"},
          aggregate |-> {"table", "hypertable", "indexes"},
          commit |-> Objects]

\* A sound transaction has built what the statements before its place create,
\* or found all of it.
BuiltInOrder ==
    \A p \in Procs :
        pc[p] \in DOMAIN Built /\ ~aborted[p] =>
            IF db = Objects THEN own[p] = {} ELSE own[p] = Built[pc[p]]

\* A transaction is aborted only between the hypertable and the indexes, or
\* by the aggregate; the hypertable's exception gets no further than the
\* indexes.
AbortedWhere ==
    \A p \in Procs :
        /\ aborted[p] =>
              \/ pc[p] = "indexes"
              \/ pc[p] = "commit" /\ "aggregate" \in swallowed[p]
        /\ "hypertable" \in swallowed[p] =>
              pc[p] = "failed" \/ (pc[p] = "indexes" /\ aborted[p])

\* Who builds has the table, is alone, and finds nothing committed.
OneBuilder ==
    /\ \A p \in Procs : own[p] # {} => "table" \in own[p] /\ db = {}
    /\ \A p, q \in Procs : "table" \in own[p] \intersect own[q] => p = q

\* The inductive invariant behind the theorems on this module.
IndInv ==
    /\ TypeOK
    /\ AllOrNothing
    /\ BuiltInOrder
    /\ AbortedWhere
    /\ OneBuilder
    /\ ReadyMeansSchema

\* Rivals that raise because another was first are restarted: in the end
\* every process is ready, with the schema unless each of them passed over
\* an exception of the aggregate.
EventuallyReady ==
    <>[](\A p \in Procs : Ready(p) /\ (db = Objects \/ "aggregate" \in swallowed[p]))
=============================================================================

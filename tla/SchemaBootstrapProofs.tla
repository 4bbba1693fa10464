----------------------- MODULE SchemaBootstrapProofs -----------------------
(***************************************************************************)
(* However many processes race to create the schema, fail and start again: *)
(* it is committed whole or not at all, and a process whose bootstrap      *)
(* returned has it, unless it passed over an exception of the aggregate.   *)
(***************************************************************************)
EXTENDS SchemaBootstrap, TLAPS

USE MaxFaultsAssumption

\* The invariant holds before any process has started.
LEMMA InitIndInv == Init => IndInv
<1> SUFFICES ASSUME Init
             PROVE  IndInv
  OBVIOUS
<1>1. TypeOK
  BY DEF Init, TypeOK, Places, Objects
<1>2. AllOrNothing /\ BuiltInOrder /\ AbortedWhere /\ OneBuilder /\ ReadyMeansSchema
  BY DEF Init, AllOrNothing, BuiltInOrder, Built, AbortedWhere, OneBuilder,
         ReadyMeansSchema, Ready
<1> QED
  BY <1>1, <1>2 DEF IndInv

\* The end of a transaction without effect, by an exception, keeps the
\* invariant.
LEMMA RaiseKeeps ==
    ASSUME IndInv, NEW p \in Procs, Raise(p), db' = db, swallowed' = swallowed,
           faults' \in 0 .. MaxFaults
    PROVE  IndInv'
<1>1. TypeOK'
  BY DEF IndInv, TypeOK, Raise, Goto, Places
<1>2. AllOrNothing' /\ OneBuilder'
  BY DEF IndInv, AllOrNothing, OneBuilder, Raise, TypeOK
<1>3. BuiltInOrder' /\ AbortedWhere' /\ ReadyMeansSchema'
  BY DEF IndInv, TypeOK, BuiltInOrder, Built, AbortedWhere, ReadyMeansSchema, Ready,
         Raise, Goto
<1> QED
  BY <1>1, <1>2, <1>3 DEF IndInv

\* A sound transaction that has reached the place before p's next one builds
\* what is missing and goes there.
LEMMA CreateKeeps ==
    ASSUME IndInv, NEW p \in Procs, NEW object \in Objects, NEW place \in DOMAIN Built,
           Create(p, object), Goto(p, place), UNCHANGED <<aborted, swallowed, db, faults>>,
           \/ /\ pc[p] = "insert" /\ object = "table" /\ "table" \notin db
              /\ ~HeldByOther(p, "table")
           \/ pc[p] \in DOMAIN Built,
           pc[p] \in DOMAIN Built => Built[place] = Built[pc[p]] \union {object},
           pc[p] = "insert" => Built[place] = {object}
    PROVE  IndInv'
<1>1. ~aborted[p] /\ own' = [own EXCEPT ![p] = own[p] \union ({object} \ db)]
  BY DEF Create
<1>2. pc' = [pc EXCEPT ![p] = place]
  BY DEF Goto
<1>3. place \in {"hypertable", "indexes", "aggregate", "commit"}
  BY DEF Built
<1>4. TypeOK'
  BY <1>1, <1>2, <1>3 DEF IndInv, TypeOK, Places
<1>5. "hypertable" \notin swallowed[p]
  BY <1>1 DEF IndInv, AbortedWhere, Built
<1>6. AllOrNothing' /\ AbortedWhere' /\ ReadyMeansSchema'
  BY <1>1, <1>2, <1>3, <1>5
  DEF IndInv, TypeOK, AllOrNothing, AbortedWhere, ReadyMeansSchema, Ready
<1>7. CASE db = Objects
  <2>1. own[p] = {} /\ own' = own
    BY <1>1, <1>7 DEF IndInv, TypeOK, OneBuilder, Objects
  <2>2. OneBuilder'
    BY <2>1 DEF IndInv, OneBuilder
  <2>3. BuiltInOrder'
    BY <1>1, <1>2, <1>3, <1>7, <2>1 DEF IndInv, TypeOK, BuiltInOrder, OneBuilder, Objects
  <2> QED
    BY <1>4, <1>6, <2>2, <2>3 DEF IndInv
<1>8. CASE db = {}
  <2>1. own[p] \union {object} = Built[place]
    BY <1>1, <1>8 DEF IndInv, TypeOK, BuiltInOrder, Objects
  <2>2. own' = [own EXCEPT ![p] = Built[place]]
    BY <1>1, <1>8, <2>1
  <2>3. "table" \in Built[place]
    BY <1>3 DEF Built, Objects
  <2>4. pc[p] \in DOMAIN Built => "table" \in own[p]
    BY <1>1, <1>8 DEF IndInv, BuiltInOrder, Built, Objects
  <2>5. \A q \in Procs \ {p} : "table" \notin own[q]
    BY <2>4 DEF IndInv, OneBuilder, HeldByOther
  <2>6. OneBuilder'
    BY <1>8, <2>2, <2>3, <2>5 DEF IndInv, TypeOK, OneBuilder
  <2>7. BuiltInOrder'
    BY <1>1, <1>2, <1>8, <2>2 DEF IndInv, TypeOK, BuiltInOrder, Objects
  <2> QED
    BY <1>4, <1>6, <2>6, <2>7 DEF IndInv
<1> QED
  BY <1>7, <1>8 DEF IndInv, AllOrNothing

\* A swallowed exception leaves an aborted transaction, at a place where the
\* invariant expects one.
LEMMA SwallowKeeps ==
    ASSUME IndInv, NEW p \in Procs,
           NEW statement \in {"hypertable", "aggregate"}, NEW place,
           Swallow(p, statement), Goto(p, place),
           pc[p] \in DOMAIN Built, faults' \in 0 .. MaxFaults,
           \/ place = "indexes"
           \/ place = "commit" /\ statement = "aggregate" /\ pc[p] = "aggregate"
    PROVE  IndInv'
<1>1. /\ aborted' = [aborted EXCEPT ![p] = TRUE] /\ own' = own /\ db' = db
      /\ swallowed' = [swallowed EXCEPT ![p] = swallowed[p] \union {statement}]
      /\ pc' = [pc EXCEPT ![p] = place]
  BY DEF Swallow, Goto
<1>2. TypeOK'
  BY <1>1 DEF IndInv, TypeOK, Places
<1>3. AllOrNothing' /\ OneBuilder'
  BY <1>1 DEF IndInv, AllOrNothing, OneBuilder
<1>4. BuiltInOrder'
  BY <1>1 DEF IndInv, TypeOK, BuiltInOrder
<1>5. AbortedWhere'
  BY <1>1 DEF IndInv, TypeOK, AbortedWhere
<1>6. ReadyMeansSchema'
  BY <1>1 DEF IndInv, TypeOK, ReadyMeansSchema, Ready
<1> QED
  BY <1>2, <1>3, <1>4, <1>5, <1>6 DEF IndInv

\* COMMIT adds the whole schema or nothing.
LEMMA CommitKeeps ==
    ASSUME IndInv, NEW p \in Procs, Commit(p)
    PROVE  IndInv'
<1>1. /\ pc[p] = "commit" /\ db' = Committed(p) /\ own' = [own EXCEPT ![p] = {}]
      /\ aborted' = [aborted EXCEPT ![p] = FALSE] /\ pc' = [pc EXCEPT ![p] = "ready"]
      /\ swallowed' = swallowed /\ faults' = faults
  BY DEF Commit, Goto
<1>2. CASE aborted[p]
  <2>1. db' = db /\ "aggregate" \in swallowed[p]
    BY <1>1, <1>2 DEF Committed, IndInv, AbortedWhere
  <2>2. TypeOK' /\ AllOrNothing' /\ OneBuilder'
    BY <1>1, <2>1 DEF IndInv, TypeOK, AllOrNothing, OneBuilder, Places
  <2>3. BuiltInOrder' /\ AbortedWhere' /\ ReadyMeansSchema'
    BY <1>1, <2>1 DEF IndInv, TypeOK, BuiltInOrder, Built, AbortedWhere, ReadyMeansSchema,
                      Ready
  <2> QED
    BY <2>2, <2>3 DEF IndInv
<1>3. CASE ~aborted[p]
  <2>1. db' = Objects
    BY <1>1, <1>3 DEF Committed, IndInv, TypeOK, AllOrNothing, BuiltInOrder, Built
  <2>2. \A q \in Procs : q # p => own[q] = {}
    BY <1>1, <1>3 DEF IndInv, TypeOK, OneBuilder, BuiltInOrder, Built, Objects
  <2>3. own' = [q \in Procs |-> {}]
    BY <1>1, <2>2 DEF IndInv, TypeOK
  <2>4. TypeOK'
    BY <1>1, <2>1, <2>3 DEF IndInv, TypeOK, Places
  <2>5. AllOrNothing' /\ OneBuilder' /\ BuiltInOrder'
    BY <2>1, <2>3 DEF AllOrNothing, OneBuilder, BuiltInOrder
  <2>6. ReadyMeansSchema'
    BY <1>1, <2>1 DEF IndInv, TypeOK, AbortedWhere, ReadyMeansSchema, Ready
  <2>7. AbortedWhere'
    BY <1>1 DEF IndInv, TypeOK, AbortedWhere
  <2> QED
    BY <2>4, <2>5, <2>6, <2>7 DEF IndInv
<1> QED
  BY <1>2, <1>3

\* Start and the look at the table change only the place.
LEMMA StartLookKeeps ==
    ASSUME IndInv, NEW p \in Procs, Start(p) \/ LookForTable(p)
    PROVE  IndInv'
<1>1. CASE Start(p)
  <2>1. TypeOK'
    BY <1>1 DEF IndInv, TypeOK, Start, Goto, Places
  <2>2. AllOrNothing' /\ OneBuilder'
    BY <1>1 DEF IndInv, AllOrNothing, OneBuilder, Start
  <2>3. BuiltInOrder' /\ AbortedWhere' /\ ReadyMeansSchema'
    BY <1>1 DEF IndInv, TypeOK, BuiltInOrder, Built, AbortedWhere, ReadyMeansSchema, Ready,
                Start, Goto
  <2> QED
    BY <2>1, <2>2, <2>3 DEF IndInv
<1>2. CASE LookForTable(p)
  <2>1. TypeOK'
    BY <1>2 DEF IndInv, TypeOK, LookForTable, Goto, Places
  <2>2. AllOrNothing' /\ OneBuilder'
    BY <1>2 DEF IndInv, AllOrNothing, OneBuilder, LookForTable
  <2>3. own[p] = {} /\ ~aborted[p] /\ ("table" \in db => db = Objects)
    BY <1>2 DEF IndInv, TypeOK, AllOrNothing, LookForTable
  <2>4. BuiltInOrder' /\ AbortedWhere' /\ ReadyMeansSchema'
    BY <1>2, <2>3 DEF IndInv, TypeOK, BuiltInOrder, Built, AbortedWhere, ReadyMeansSchema,
                      Ready, LookForTable, Goto
  <2> QED
    BY <2>1, <2>2, <2>4 DEF IndInv
<1> QED
  BY <1>1, <1>2

\* Every step keeps the invariant.
LEMMA NextIndInv == IndInv /\ [Next]_vars => IndInv'
<1> SUFFICES ASSUME IndInv, [Next]_vars
             PROVE  IndInv'
  OBVIOUS
<1> USE DEF Built
<1>1. ASSUME NEW p \in Procs, Start(p) \/ LookForTable(p)
      PROVE  IndInv'
  BY <1>1, StartLookKeeps
<1>2. ASSUME NEW p \in Procs, CreateTable(p)
      PROVE  IndInv'
  <2>1. CASE "table" \in db
    <3>1. Raise(p) /\ db' = db /\ swallowed' = swallowed /\ faults' \in 0 .. MaxFaults
      BY <1>2, <2>1 DEF CreateTable, IndInv, TypeOK
    <3> QED
      BY <3>1, RaiseKeeps
  <2>2. CASE "table" \notin db
    <3>1. /\ Create(p, "table") /\ Goto(p, "hypertable") /\ pc[p] = "insert"
          /\ ~HeldByOther(p, "table") /\ UNCHANGED <<aborted, swallowed, db, faults>>
      BY <1>2, <2>2 DEF CreateTable
    <3>2. "table" \in Objects /\ "hypertable" \in DOMAIN Built /\ "insert" \notin DOMAIN Built
      BY DEF Objects
    <3> QED
      BY <2>2, <3>1, <3>2, CreateKeeps
  <2> QED
    BY <2>1, <2>2
<1>3. ASSUME NEW p \in Procs, CreateHypertable(p)
      PROVE  IndInv'
  <2>1. /\ Create(p, "hypertable") /\ Goto(p, "indexes") /\ pc[p] = "hypertable"
        /\ UNCHANGED <<aborted, swallowed, db, faults>>
    BY <1>3 DEF CreateHypertable
  <2>2. /\ "hypertable" \in Objects /\ "indexes" \in DOMAIN Built
        /\ Built["indexes"] = Built["hypertable"] \union {"hypertable"}
    BY DEF Objects
  <2> QED
    BY <2>1, <2>2, CreateKeeps
<1>4. ASSUME NEW p \in Procs, CreateIndexes(p)
      PROVE  IndInv'
  <2>1. CASE aborted[p]
    <3>1. Raise(p) /\ db' = db /\ swallowed' = swallowed /\ faults' \in 0 .. MaxFaults
      BY <1>4, <2>1 DEF CreateIndexes, IndInv, TypeOK
    <3> QED
      BY <3>1, RaiseKeeps
  <2>2. CASE ~aborted[p]
    <3>1. /\ Create(p, "indexes") /\ Goto(p, "aggregate") /\ pc[p] = "indexes"
          /\ UNCHANGED <<aborted, swallowed, db, faults>>
      BY <1>4, <2>2 DEF CreateIndexes
    <3>2. /\ "indexes" \in Objects /\ "aggregate" \in DOMAIN Built
          /\ Built["aggregate"] = Built["indexes"] \union {"indexes"}
      BY DEF Objects
    <3> QED
      BY <3>1, <3>2, CreateKeeps
  <2> QED
    BY <2>1, <2>2
<1>5. ASSUME NEW p \in Procs, CreateAggregate(p)
      PROVE  IndInv'
  <2>1. /\ Create(p, "aggregate") /\ Goto(p, "commit") /\ pc[p] = "aggregate"
        /\ UNCHANGED <<aborted, swallowed, db, faults>>
    BY <1>5 DEF CreateAggregate
  <2>2. /\ "aggregate" \in Objects /\ "commit" \in DOMAIN Built
        /\ Built["commit"] = Built["aggregate"] \union {"aggregate"}
    BY DEF Objects
  <2> QED
    BY <2>1, <2>2, CreateKeeps
<1>6. ASSUME NEW p \in Procs, HypertableFails(p)
      PROVE  IndInv'
  <2>1. /\ Swallow(p, "hypertable") /\ Goto(p, "indexes") /\ pc[p] \in DOMAIN Built
        /\ faults' \in 0 .. MaxFaults
    BY <1>6 DEF HypertableFails, Fault, IndInv, TypeOK
  <2> QED
    BY <2>1, SwallowKeeps
<1>7. ASSUME NEW p \in Procs, AggregateFails(p)
      PROVE  IndInv'
  <2>1. /\ Swallow(p, "aggregate") /\ Goto(p, "commit") /\ pc[p] = "aggregate"
        /\ faults' \in 0 .. MaxFaults
    BY <1>7 DEF AggregateFails, Fault, IndInv, TypeOK
  <2> QED
    BY <2>1, SwallowKeeps
<1>8. ASSUME NEW p \in Procs, Fail(p)
      PROVE  IndInv'
  <2>1. Raise(p) /\ db' = db /\ swallowed' = swallowed /\ faults' \in 0 .. MaxFaults
    BY <1>8 DEF Fail, Fault, IndInv, TypeOK
  <2> QED
    BY <2>1, RaiseKeeps
<1>9. CASE UNCHANGED vars
  BY <1>9 DEF vars, IndInv, TypeOK, AllOrNothing, BuiltInOrder, AbortedWhere, OneBuilder,
              ReadyMeansSchema, Ready
<1> QED
  BY <1>1, <1>2, <1>3, <1>4, <1>5, <1>6, <1>7, <1>8, <1>9, CommitKeeps
  DEF Next, Bootstrap
-----------------------------------------------------------------------------
\* The inductive invariant of _bootstrap, type correctness included.
THEOREM Invariance == Spec => []IndInv
  BY InitIndInv, NextIndInv, PTL DEF Spec

\* The transaction of _bootstrap commits the whole schema or nothing, for any
\* number of processes.
THEOREM AllOrNothingHolds == Spec => []AllOrNothing
<1>1. IndInv => AllOrNothing
  BY DEF IndInv
<1> QED
  BY <1>1, Invariance, PTL

\* When TimescaleWriter() has returned, the schema is there, unless the
\* exception of the aggregate was swallowed.
THEOREM ReadyMeansSchemaHolds == Spec => []ReadyMeansSchema
<1>1. IndInv => ReadyMeansSchema
  BY DEF IndInv
<1> QED
  BY <1>1, Invariance, PTL
=============================================================================

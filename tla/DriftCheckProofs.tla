-------------------------- MODULE DriftCheckProofs --------------------------
(***************************************************************************)
(* What the two reads of check_drift_task guarantee to the detector, for   *)
(* any windows, limits and number of rows.                                 *)
(***************************************************************************)
EXTENDS DriftCheck, FiniteSetTheorems, TLAPS

-----------------------------------------------------------------------------
\* A query returns rows of the table within its hours, and all of them if it
\* returns fewer than its limit.
LEMMA QueryWhole ==
    ASSUME IsFiniteSet(table), NEW hours \in Nat, NEW limit \in Nat,
           NEW T \in QueryRecent(hours, limit)
    PROVE  /\ T \subseteq table
           /\ \A r \in T : r.at + hours >= now
           /\ Cardinality(T) < limit => \A r \in table : r.at + hours >= now => r \in T
<1> DEFINE S == {r \in table : r.at + hours >= now}
<1>1. T \subseteq S /\ Cardinality(T) = IF Cardinality(S) < limit THEN Cardinality(S) ELSE limit
  BY DEF QueryRecent, TopSets
<1>2. IsFiniteSet(S)
  BY FS_Subset
<1>3. Cardinality(T) < limit => Cardinality(T) = Cardinality(S)
  BY <1>1
<1>4. Cardinality(T) = Cardinality(S) => T = S
  BY <1>1, <1>2, FS_Subset
<1> QED
  BY <1>1, <1>3, <1>4

\* Two equal windows alert neither by their confidences nor by their labels.
LEMMA SameQuiet ==
    ASSUME NEW R, NEW c \in Check(R, R)
    PROVE  ~c.psi /\ ~c.label
<1>1. SameShares(R, R, "bin") /\ SameShares(R, R, "label")
  BY DEF SameShares
<1>2. c.psi \in PsiAlerts(R, R) /\ c.label \in LabelAlerts(R, R)
  BY DEF Check
<1> QED
  BY <1>1, <1>2 DEF PsiAlerts, LabelAlerts
-----------------------------------------------------------------------------
\* The invariant holds before the first run of the flow.
LEMMA InitIndInv == Init => IndInv
  BY FS_EmptySet DEF Init, IndInv, TypeOK, ReferenceStillWhole, CurrentWithin, CurrentWhole

\* A new row counts as late between the reads, and leaves both windows alone.
LEMMA InsertStep == ASSUME IndInv, Insert PROVE IndInv'
<1>1. PICK k \in Kinds, t \in 0 .. now :
        LET row == [id |-> Cardinality(table), at |-> t, bin |-> k.bin, label |-> k.label]
        IN  /\ table' = table \union {row}
            /\ late' = IF pc = "current" THEN late \union {row} ELSE late
  BY DEF Insert
<1> DEFINE row == [id |-> Cardinality(table), at |-> t, bin |-> k.bin, label |-> k.label]
<1>2. table' = table \union {row} /\ row.at \in Nat
      /\ (pc = "current" => late' = late \union {row}) /\ (pc # "current" => late' = late)
  <2>1. t \in Nat /\ row.at = t
    BY DEF IndInv, TypeOK
  <2>2. table' = table \union {row}
        /\ late' = IF pc = "current" THEN late \union {row} ELSE late
    BY <1>1, Zenon
  <2> QED
    BY <2>1, <2>2
<1>3. UNCHANGED <<now, pc, attempt, reference, current, readAt, report>>
  BY DEF Insert, taskVars
<1> HIDE DEF row
<1>4. TypeOK'
  <2>1. IsFiniteSet(table')
    BY <1>2, FS_AddElement DEF IndInv, TypeOK
  <2> QED
    BY <1>2, <1>3, <2>1 DEF IndInv, TypeOK
<1>5. ReferenceStillWhole' /\ CurrentWithin' /\ CurrentWhole'
  BY <1>2, <1>3 DEF IndInv, ReferenceStillWhole, CurrentWithin, CurrentWhole, WholeReference
<1> QED
  BY <1>3, <1>4, <1>5 DEF IndInv

\* As time passes fewer rows are within the hours of a window.
LEMMA TickStep == ASSUME IndInv, Tick PROVE IndInv'
<1>1. now' = now + 1
      /\ UNCHANGED <<table, late, pc, attempt, reference, current, readAt, report>>
  BY DEF Tick, taskVars
<1>2. TypeOK'
  BY <1>1 DEF IndInv, TypeOK
<1>3. ReferenceStillWhole'
  <2>1. ASSUME NEW r \in table, r.at + ReferenceHours >= now + 1
        PROVE  r.at + ReferenceHours >= now
    BY <2>1, WindowAssumption DEF IndInv, TypeOK
  <2> QED
    BY <1>1, <2>1 DEF IndInv, ReferenceStillWhole, WholeReference
<1>4. CurrentWithin' /\ CurrentWhole'
  BY <1>1 DEF IndInv, CurrentWithin, CurrentWhole, WholeReference
<1> QED
  BY <1>1, <1>2, <1>3, <1>4 DEF IndInv

\* Starting, failing and finishing leave the task outside the states that the
\* invariant speaks of.
LEMMA OutsideSteps == ASSUME IndInv, Start \/ AttemptFails \/ Finish PROVE IndInv'
<1>1. pc' \in {"idle", "reference", "failed"} /\ UNCHANGED <<now, table>>
      /\ reference' \in {reference, {}} /\ current' \in {current, {}}
      /\ readAt' \in {readAt, 0}
  BY DEF Start, AttemptFails, Finish
<1> QED
  BY <1>1 DEF IndInv, TypeOK, ReferenceStillWhole, CurrentWithin, CurrentWhole

\* The first query.
LEMMA ReadReferenceStep == ASSUME IndInv, ReadReference PROVE IndInv'
<1>1. /\ reference' \in QueryRecent(ReferenceHours, ReferenceLimit)
      /\ pc' \in {"current", "skipped"}
      /\ UNCHANGED <<now, table, attempt, current, readAt, report>>
  BY DEF ReadReference, ReferenceWindow
<1>2. /\ reference' \subseteq table
      /\ Cardinality(reference') < ReferenceLimit =>
            \A r \in table : r.at + ReferenceHours >= now => r \in reference'
  BY <1>1, QueryWhole, WindowAssumption, SizeAssumption DEF IndInv, TypeOK
<1> QED
  BY <1>1, <1>2 DEF IndInv, TypeOK, ReferenceStillWhole, CurrentWithin, CurrentWhole, WholeReference

\* The second query: its hours lie within those of the first, and time has
\* only passed since.
LEMMA ReadCurrentStep == ASSUME IndInv, ReadCurrent PROVE IndInv'
<1>1. /\ pc = "current" /\ pc' \in {"check", "skipped"} /\ readAt' = now
      /\ current' \in QueryRecent(LookbackHours, CurrentLimit)
      /\ UNCHANGED <<now, table, attempt, reference, late, report>>
  BY DEF ReadCurrent, CurrentWindow
<1>2. /\ current' \subseteq table
      /\ \A r \in current' : r.at + LookbackHours >= now
      /\ Cardinality(current') < CurrentLimit =>
            \A r \in table : r.at + LookbackHours >= now => r \in current'
  BY <1>1, QueryWhole, WindowAssumption, SizeAssumption DEF IndInv, TypeOK
<1>3. CurrentWithin'
  <2>1. ASSUME NEW r \in current'
        PROVE  r \in table /\ r.at + ReferenceHours >= now
    BY <1>2, WindowAssumption DEF IndInv, TypeOK
  <2> QED
    BY <1>1, <2>1 DEF IndInv, ReferenceStillWhole, CurrentWithin, WholeReference
<1>4. CurrentWhole'
  BY <1>1, <1>2 DEF IndInv, TypeOK, CurrentWhole
<1>5. TypeOK' /\ ReferenceStillWhole'
  BY <1>1, <1>2 DEF IndInv, TypeOK, ReferenceStillWhole
<1> QED
  BY <1>1, <1>3, <1>4, <1>5 DEF IndInv

\* The comparison reads both windows and changes neither.
LEMMA CompareStep == ASSUME IndInv, Compare PROVE IndInv'
<1>1. /\ pc = "check" /\ pc' = "reported"
      /\ UNCHANGED <<now, table, attempt, reference, late, current, readAt>>
      /\ report' \subseteq Check(reference, current)
  BY DEF Compare
<1>2. Check(reference, current)' = Check(reference, current)
  BY <1>1
<1> QED
  BY <1>1, <1>2 DEF IndInv, TypeOK, ReferenceStillWhole, CurrentWithin, CurrentWhole, WholeReference
-----------------------------------------------------------------------------
\* Insertions, the clock and every step of the task keep the invariant.
THEOREM Invariance == Spec => []IndInv
<1>1. IndInv /\ [Next]_vars => IndInv'
  <2> SUFFICES ASSUME IndInv, [Next]_vars
               PROVE  IndInv'
    OBVIOUS
  <2>1. CASE UNCHANGED vars
    BY <2>1 DEF vars, IndInv, TypeOK, ReferenceStillWhole, CurrentWithin, CurrentWhole, WholeReference
  <2> QED
    BY <2>1, InsertStep, TickStep, OutsideSteps, ReadReferenceStep, ReadCurrentStep, CompareStep
    DEF Next, Task
<1> QED
  BY InitIndInv, <1>1, PTL DEF Spec

\* For any windows and limits: unless the reference query was cut, a result in
\* a bin that the reference leaves empty was inserted between the two queries.
THEOREM OutlierNeedsRaceHolds == Spec => []OutlierNeedsRace
<1>1. ASSUME IndInv, pc \in {"check", "reported"}, WholeReference,
             NEW r \in current, With(reference, "bin", r.bin) = {}
      PROVE  r \in late
  <2>1. r \notin reference
    BY <1>1 DEF With
  <2> QED
    BY <1>1, <2>1 DEF IndInv, CurrentWithin
<1>2. IndInv => OutlierNeedsRace
  BY <1>1 DEF OutlierNeedsRace
<1> QED
  BY Invariance, <1>2, PTL

\* For any windows and limits: if no limit cut a query, no result that the
\* second query returned came after the first, and all that the first returned
\* lies within the lookback window, neither PSI nor chi-squared alerts.
THEOREM YoungSystemQuietHolds == Spec => []YoungSystemQuiet
<1>1. ASSUME IndInv, pc = "reported", WholeReference,
             Cardinality(current) < CurrentLimit, late \intersect current = {},
             \A r \in reference : r.at + LookbackHours >= readAt,
             NEW c \in report
      PROVE  ~c.psi /\ ~c.label
  <2>1. current = reference
    BY <1>1 DEF IndInv, CurrentWithin, CurrentWhole
  <2>2. c \in Check(reference, reference)
    BY <1>1, <2>1 DEF IndInv
  <2> QED
    BY <2>2, SameQuiet
<1>2. IndInv => YoungSystemQuiet
  BY <1>1 DEF YoungSystemQuiet
<1> QED
  BY Invariance, <1>2, PTL
=============================================================================

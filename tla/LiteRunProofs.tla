--------------------------- MODULE LiteRunProofs ---------------------------
(***************************************************************************)
(* Theorems about LiteRun, for all runs, however they overlap, and all     *)
(* sizes: what a run saved for an article stays, the hint to run again is  *)
(* sufficient, and the two halves of an even number of demo runs that      *)
(* dated their articles in turn, which the last part takes apart run by    *)
(* run, never alert.                                                       *)
(***************************************************************************)
EXTENDS LiteRun, FiniteSetTheorems, TLAPS

\* A number is its quotient and its remainder.
LEMMA DivMod ==
    ASSUME NEW d \in Nat, NEW n \in Nat \ {0}
    PROVE  d \div n \in Nat /\ d % n \in 0 .. n - 1 /\ d = n * (d \div n) + (d % n)
  OBVIOUS

\* One more date makes the list of dates one longer.
LEMMA OneMoreDate ==
    ASSUME NEW s \in Seq(Nat), NEW d \in Nat
    PROVE  /\ Append(s, d) \in Seq(Nat) /\ Append(s, d) # <<>>
           /\ Len(Append(s, d)) = Len(s) + 1 /\ Len(s) \in Nat
  OBVIOUS

\* d // n + 1 runs of n results are more than d results.
LEMMA RunsEnough ==
    ASSUME NEW d \in Nat, NEW n \in Nat \ {0}, NEW k \in Nat, k >= d \div n + 1
    PROVE  k * n > d
<1>1. d \div n \in Nat /\ d = n * (d \div n) + (d % n) /\ d % n \in 0 .. n - 1
  BY DivMod
<1>2. (d \div n + 1) * n > d
  <2> DEFINE q == d \div n
             m == d % n
  <2>1. q \in Nat /\ m \in 0 .. n - 1 /\ d = n * q + m
    BY <1>1
  <2> HIDE DEF q, m
  <2>2. (q + 1) * n = n * q + n
    BY <2>1
  <2>3. n * q \in Nat
    BY <2>1
  <2>4. (q + 1) * n > d
    BY <2>1, <2>2, <2>3
  <2> QED  BY <2>4 DEF q
<1>3. k * n >= (d \div n + 1) * n
  <2> DEFINE q == d \div n + 1
  <2>1. q \in Nat /\ k >= q
    BY <1>1
  <2> HIDE DEF q
  <2>2. PICK j \in Nat : k = q + j
    <3>1. k - q \in Nat /\ k = q + (k - q)
      BY <2>1
    <3> QED  BY <3>1
  <2>3. k * n = q * n + j * n /\ j * n \in Nat /\ q * n \in Nat
    BY <2>1, <2>2
  <2>4. k * n >= q * n
    BY <2>3
  <2> QED  BY <2>4 DEF q
<1>4. k * n \in Nat /\ (d \div n + 1) * n \in Nat
  BY <1>1
<1> QED  BY <1>2, <1>3, <1>4

\* The demo articles of a run are DemoSize many.
LEMMA DemoFinite ==
    ASSUME NEW r \in Runs
    PROVE  IsFiniteSet(DemoArticles(r)) /\ Cardinality(DemoArticles(r)) = DemoSize
<1>1. DemoSize \in Nat /\ DemoSize > 0
  BY SizeAssumption
<1>2. IsFiniteSet(1 .. DemoSize) /\ Cardinality(1 .. DemoSize) = DemoSize
  <2>1. /\ IsFiniteSet(1 .. DemoSize)
        /\ Cardinality(1 .. DemoSize) = IF 1 > DemoSize THEN 0 ELSE DemoSize - 1 + 1
    BY <1>1, FS_Interval
  <2> QED  BY <1>1, <2>1
<1>3. IsFiniteSet({r}) /\ Cardinality({r}) = 1
  BY FS_Singleton
<1>4. IsFiniteSet({r} \X (1 .. DemoSize)) /\
      Cardinality({r} \X (1 .. DemoSize)) = Cardinality({r}) * Cardinality(1 .. DemoSize)
  BY <1>2, <1>3, FS_Product
<1> QED  BY <1>1, <1>2, <1>3, <1>4 DEF DemoArticles

\* There are finitely many live articles.
LEMMA LiveFinite == IsFiniteSet(Live)
<1>1. IsFiniteSet(1 .. MaxLive)
  BY RunsAssumption, FS_Interval
<1>2. IsFiniteSet({"live"})
  BY FS_Singleton
<1> QED  BY <1>1, <1>2, FS_Product DEF Live

\* As many rows as articles.
LEMMA RowsOfArticles ==
    ASSUME NEW D, IsFiniteSet(D), NEW r
    PROVE  /\ IsFiniteSet({Row(a, r) : a \in D})
           /\ Cardinality({Row(a, r) : a \in D}) = Cardinality(D)
<1> DEFINE N == {Row(a, r) : a \in D}
           f == [a \in D |-> Row(a, r)]
<1>1. \A a, b \in D : Row(a, r) = Row(b, r) => a = b
  <2>1. \A a \in D : Row(a, r).article = a
    BY DEF Row
  <2> QED  BY <2>1
<1>2. f \in Bijection(D, N)
  BY <1>1 DEF Bijection, Injection, Surjection, IsInjective
<1>3. ExistsBijection(D, N)
  BY <1>2 DEF ExistsBijection
<1> QED  BY <1>3, FS_Bijection

\* Saving adds a row for each article that has none, and DemoSize rows for a
\* run with demo articles.
LEMMA SaveStep ==
    ASSUME IndInv, NEW r \in Runs, SaveResults(r)
    PROVE  /\ IsFiniteSet(table') /\ table \subseteq table'
           /\ \A row \in table' \ table : row.article \in batch[r]
           /\ Cardinality(table) \in Nat /\ Cardinality(table') \in Nat
           /\ Cardinality(table) <= Cardinality(table')
           /\ dated[r] # <<>> => Cardinality(table') = Cardinality(table) + DemoSize
<1> DEFINE D == batch[r] \ {row.article : row \in table}
           N == {Row(a, r) : a \in D}
<1>1. table' = table \union N /\ pc[r] = "fetched"
  BY DEF SaveResults, Kept, Goto
<1>2. IsFiniteSet(D)
  <2>1. IsFiniteSet(Live \union DemoArticles(r))
    BY LiveFinite, DemoFinite, FS_Union
  <2>2. D \subseteq Live \union DemoArticles(r)
    BY DEF IndInv, TypeOK
  <2> QED  BY <2>1, <2>2, FS_Subset
<1>3. IsFiniteSet(N) /\ Cardinality(N) = Cardinality(D)
  BY <1>2, RowsOfArticles
<1>4. \A row \in N : row.article \in D
  BY DEF Row
<1>5. IsFiniteSet(table)
  BY DEF IndInv, TypeOK
<1> HIDE DEF N
<1>6. N \intersect table = {}
  BY <1>4
<1> HIDE DEF D
<1>7. IsFiniteSet(table') /\ Cardinality(table') = Cardinality(table) + Cardinality(N)
  <2>1. /\ IsFiniteSet(table \union N)
        /\ Cardinality(table \union N) =
             Cardinality(table) + Cardinality(N) - Cardinality(table \intersect N)
    BY <1>3, <1>5, FS_Union
  <2>2. Cardinality(table \intersect N) = 0
    BY <1>6, FS_EmptySet
  <2>3. Cardinality(table) \in Nat /\ Cardinality(N) \in Nat
    BY <1>3, <1>5, FS_CardinalityType
  <2> QED  BY <1>1, <2>1, <2>2, <2>3
<1>8. Cardinality(table) \in Nat /\ Cardinality(N) \in Nat
  BY <1>3, <1>5, FS_CardinalityType
<1>9. ASSUME dated[r] # <<>>  PROVE Cardinality(N) = DemoSize
  <2>1. batch[r] = DemoArticles(r)
    BY <1>1, <1>9 DEF IndInv, DemoUnsaved
  <2>2. \A row \in table : row.article \notin DemoArticles(r)
    <3> SUFFICES ASSUME NEW row \in table, row.article \in DemoArticles(r)  PROVE FALSE
      OBVIOUS
    <3>1. row.article[1] = r
      BY DEF DemoArticles
    <3>2. CASE row.article \in Live
      BY <3>1, <3>2, RunsAssumption DEF Live
    <3>3. ASSUME NEW q \in Runs, row.article \in DemoArticles(q), pc[q] \notin {"new", "dating", "fetched"}
          PROVE  FALSE
      <4>1. q = r
        BY <3>1, <3>3 DEF DemoArticles
      <4> QED  BY <4>1, <3>3, <1>1
    <3> QED  BY <3>2, <3>3 DEF IndInv, DemoUnsaved
  <2>3. D = DemoArticles(r)
    BY <2>1, <2>2 DEF D
  <2> QED  BY <1>3, <2>3, DemoFinite
<1>10. \A row \in table' \ table : row.article \in batch[r]
  BY <1>1, <1>4 DEF D
<1>11. table \subseteq table'
  BY <1>1
<1> QED  BY <1>7, <1>8, <1>9, <1>10, <1>11

\* What the steps other than saving do to the invariant: the table stays, and
\* a run goes forward.
LEMMA OtherStep ==
    ASSUME IndInv, NEW r \in Runs,
           \/ FetchLive(r) \/ FetchDemo(r) \/ LoadResults(r) \/ TooFewToEvaluate(r)
           \/ Evaluate(r) \/ CheckDrift(r) \/ Fail(r)
    PROVE  IndInv'
<1> USE DEF IndInv
<1>1. UNCHANGED <<table, hint, demoSince>>
  BY DEF FetchLive, FetchDemo, LoadResults, TooFewToEvaluate, Evaluate, CheckDrift, Fail
<1>2. HintCovers' /\ HintIsLast'
  <2>1. HintCovers'
    BY <1>1 DEF HintCovers
  <2>2. pc[r] # "done" /\ \A q \in Runs \ {r} : pc'[q] = pc[q]
    BY DEF FetchLive, FetchDemo, LoadResults, TooFewToEvaluate, Evaluate, CheckDrift, Fail,
           Goto, TypeOK
  <2> QED  BY <1>1, <2>1, <2>2 DEF HintIsLast
<1>3. \E to \in Stages \ {"new"} :
         /\ pc' = [pc EXCEPT ![r] = to]
         /\ to \in {"dating", "fetched"} => pc[r] \in {"new", "dating"}
  BY DEF FetchLive, FetchDemo, LoadResults, TooFewToEvaluate, Evaluate, CheckDrift, Fail,
         Goto, Stages
<1>4. pc' \in [Runs -> Stages] /\ pc'[r] # "new" /\ \A q \in Runs \ {r} : pc'[q] = pc[q]
  BY <1>3 DEF TypeOK
<1>5. \A row \in table' :
         \/ row.article \in Live
         \/ \E q \in Runs : row.article \in DemoArticles(q) /\ pc'[q] \notin {"new", "dating", "fetched"}
  <2>1. \A q \in Runs : pc[q] \notin {"new", "dating", "fetched"} => pc'[q] \notin {"new", "dating", "fetched"}
    BY <1>3, <1>4 DEF TypeOK
  <2> QED  BY <1>1, <2>1 DEF DemoUnsaved
<1>6. CASE FetchLive(r)
  <2>1. PICK A \in SUBSET Live : batch' = [batch EXCEPT ![r] = A]
    BY <1>6 DEF FetchLive
  <2>2. pc[r] = "new" /\ UNCHANGED <<dated, loaded, report, clock>> /\ pc'[r] = "fetched"
    BY <1>6 DEF FetchLive, Goto, TypeOK
  <2>3. TypeOK'
    BY <1>1, <1>4, <2>1, <2>2 DEF TypeOK
  <2>4. dated'[r] = <<>> /\ batch'[r] \subseteq Live
    BY <2>1, <2>2 DEF DemoUnsaved, TypeOK
  <2>5. \A q \in Runs \ {r} : dated'[q] = dated[q] /\ batch'[q] = batch[q]
    BY <2>1, <2>2 DEF TypeOK
  <2>6. DemoUnsaved'
    BY <1>4, <1>5, <2>2, <2>4, <2>5 DEF DemoUnsaved
  <2> QED  BY <1>2, <2>3, <2>6
<1>7. CASE FetchDemo(r)
  <2>1. /\ pc[r] \in {"new", "dating"} /\ clock' \in {clock, clock + 1}
        /\ dated' = [dated EXCEPT ![r] = Append(@, clock')]
        /\ UNCHANGED <<loaded, report>>
    BY <1>7 DEF FetchDemo
  <2>2. \/ /\ Len(dated[r]) + 1 < DemoSize
           /\ pc' = [pc EXCEPT ![r] = "dating"] /\ batch' = batch
        \/ /\ ~(Len(dated[r]) + 1 < DemoSize)
           /\ pc' = [pc EXCEPT ![r] = "fetched"]
           /\ batch' = [batch EXCEPT ![r] = DemoArticles(r)]
    BY <1>7 DEF FetchDemo
  <2>3. DemoArticles(r) \subseteq Runs \X (1 .. DemoSize)
    BY DEF DemoArticles
  <2>4. clock' \in Nat /\ dated[r] \in Seq(Nat) /\ dated'[r] = Append(dated[r], clock')
    BY <2>1 DEF TypeOK
  <2>5. /\ dated'[r] \in Seq(Nat) /\ Len(dated'[r]) = Len(dated[r]) + 1
        /\ Len(dated[r]) \in Nat /\ dated'[r] # <<>>
    BY <2>4, OneMoreDate
  <2>6. TypeOK'
    <3>1. dated' \in [Runs -> Seq(Nat)]
      BY <2>1, <2>5, <2>4 DEF TypeOK
    <3>2. /\ batch' \in [Runs -> SUBSET (Live \union (Runs \X (1 .. DemoSize)))]
          /\ \A q \in Runs : batch'[q] \subseteq Live \union DemoArticles(q)
      <4>1. CASE batch' = batch
        BY <4>1 DEF TypeOK
      <4>2. CASE batch' = [batch EXCEPT ![r] = DemoArticles(r)]
        <5>1. batch' \in [Runs -> SUBSET (Live \union (Runs \X (1 .. DemoSize)))]
          BY <2>3, <4>2 DEF TypeOK
        <5>2. batch'[r] = DemoArticles(r) /\ \A q \in Runs \ {r} : batch'[q] = batch[q]
          BY <4>2 DEF TypeOK
        <5>3. \A q \in Runs : batch[q] \subseteq Live \union DemoArticles(q)
          BY DEF TypeOK
        <5> QED  BY <5>1, <5>2, <5>3
      <4> QED  BY <2>2, <4>1, <4>2
    <3> QED  BY <1>1, <1>4, <2>1, <2>4, <3>1, <3>2 DEF TypeOK
  <2>7. Len(dated[r]) < DemoSize /\ DemoSize \in Nat
    <3>1. DemoSize \in Nat /\ DemoSize > 0
      BY SizeAssumption
    <3>2. pc[r] = "new" => dated[r] = <<>>
      BY DEF DemoUnsaved
    <3>3. pc[r] = "dating" => Len(dated[r]) < DemoSize
      BY DEF DemoUnsaved
    <3> QED  BY <2>1, <3>1, <3>2, <3>3
  <2>8. /\ pc'[r] # "new"
        /\ pc'[r] = "dating" => Len(dated'[r]) < DemoSize
        /\ pc'[r] = "fetched" => batch'[r] = DemoArticles(r) /\ Len(dated'[r]) = DemoSize
    <3>1. CASE /\ Len(dated[r]) + 1 < DemoSize
               /\ pc' = [pc EXCEPT ![r] = "dating"] /\ batch' = batch
      <4>1. pc'[r] = "dating"
        BY <3>1 DEF TypeOK
      <4> QED  BY <2>5, <3>1, <4>1
    <3>2. CASE /\ ~(Len(dated[r]) + 1 < DemoSize)
               /\ pc' = [pc EXCEPT ![r] = "fetched"]
               /\ batch' = [batch EXCEPT ![r] = DemoArticles(r)]
      <4>1. pc'[r] = "fetched" /\ batch'[r] = DemoArticles(r)
        BY <3>2 DEF TypeOK
      <4>2. Len(dated'[r]) = DemoSize
        BY <2>5, <2>7, <3>2
      <4> QED  BY <4>1, <4>2
    <3> QED  BY <2>2, <3>1, <3>2
  <2>9. \A q \in Runs \ {r} : dated'[q] = dated[q] /\ batch'[q] = batch[q]
    BY <2>1, <2>2 DEF TypeOK
  <2>10. DemoUnsaved'
    BY <1>4, <1>5, <2>5, <2>8, <2>9 DEF DemoUnsaved
  <2> QED  BY <1>2, <2>6, <2>10
<1>8. CASE \/ LoadResults(r) \/ TooFewToEvaluate(r) \/ Evaluate(r) \/ CheckDrift(r) \/ Fail(r)
  <2>1. (dated' = dated \/ dated' = [dated EXCEPT ![r] = <<>>]) /\ clock' = clock
    BY <1>8 DEF LoadResults, TooFewToEvaluate, Evaluate, CheckDrift, Fail
  <2>2. batch' = batch \/ batch' = [batch EXCEPT ![r] = {}]
    BY <1>8 DEF LoadResults, TooFewToEvaluate, Evaluate, CheckDrift, Fail
  <2>3. loaded' \in [Runs -> SUBSET table]
    <3>1. \A T \in TopSets(table, Window) : T \subseteq table
      BY DEF TopSets
    <3> QED  BY <1>8, <3>1
             DEF LoadResults, TooFewToEvaluate, Evaluate, CheckDrift, Fail, TypeOK
  <2>4. pc'[r] \notin {"new", "dating", "fetched"}
    BY <1>8 DEF LoadResults, TooFewToEvaluate, Evaluate, CheckDrift, Fail, Goto, TypeOK
  <2>5. report' \in [Runs -> SUBSET [psi : BOOLEAN, label : BOOLEAN, js : BOOLEAN]]
    <3>1. \A R, S : Check(R, S) \subseteq
             [psi : BOOLEAN, label : BOOLEAN, js : BOOLEAN]
      BY DEF Check, PsiAlerts, LabelAlerts
    <3>2. CASE report' = report
      BY <3>2 DEF TypeOK
    <3>3. ASSUME NEW h \in Halves(r), NEW c \in Check(h.older, h.newer),
                 report' = [report EXCEPT ![r] = {c}]
          PROVE  report' \in [Runs -> SUBSET [psi : BOOLEAN, label : BOOLEAN, js : BOOLEAN]]
      BY <3>1, <3>3 DEF TypeOK
    <3> QED
      BY <1>8, <3>2, <3>3 DEF LoadResults, TooFewToEvaluate, Evaluate, CheckDrift, Fail
  <2>6. TypeOK'
    <3>1. dated' \in [Runs -> Seq(Nat)]
      <4>1. <<>> \in Seq(Nat)
        OBVIOUS
      <4> QED  BY <2>1, <4>1 DEF TypeOK
    <3> QED  BY <1>1, <1>4, <2>1, <2>2, <2>3, <2>5, <3>1 DEF TypeOK
  <2>7. \A q \in Runs \ {r} : dated'[q] = dated[q] /\ batch'[q] = batch[q]
    BY <2>1, <2>2 DEF TypeOK
  <2>8. DemoUnsaved'
    BY <1>4, <1>5, <2>4, <2>7 DEF DemoUnsaved
  <2> QED  BY <1>2, <2>6, <2>8
<1> QED  BY <1>6, <1>7, <1>8

\* Saving leaves the invariant: a demo run pays its share of every hint.
LEMMA SaveKeeps ==
    ASSUME IndInv, NEW r \in Runs, SaveResults(r)
    PROVE  IndInv'
<1> USE DEF IndInv
<1>1. /\ pc[r] = "fetched" /\ pc' = [pc EXCEPT ![r] = "saved"]
      /\ batch' = [batch EXCEPT ![r] = {}]
      /\ UNCHANGED <<dated, loaded, report, hint, clock>>
      /\ demoSince' = [q \in Runs |->
            IF hint[q] > 0 /\ dated[r] # <<>> THEN demoSince[q] + 1 ELSE demoSince[q]]
  BY DEF SaveResults, Goto
<1>2. /\ IsFiniteSet(table') /\ table \subseteq table'
      /\ \A row \in table' \ table : row.article \in batch[r]
      /\ Cardinality(table) \in Nat /\ Cardinality(table') \in Nat
      /\ Cardinality(table) <= Cardinality(table')
      /\ dated[r] # <<>> => Cardinality(table') = Cardinality(table) + DemoSize
  BY SaveStep
<1>3. pc' \in [Runs -> Stages] /\ pc'[r] = "saved" /\ \A q \in Runs \ {r} : pc'[q] = pc[q]
  BY <1>1 DEF TypeOK, Stages
<1>4. TypeOK'
  <2>1. demoSince' \in [Runs -> Nat]
    BY <1>1 DEF TypeOK
  <2>2. loaded' \in [Runs -> SUBSET table']
    BY <1>1, <1>2 DEF TypeOK
  <2> QED  BY <1>1, <1>2, <1>3, <2>1, <2>2 DEF TypeOK
<1>5. DemoUnsaved'
  <2>1. ASSUME NEW row \in table'
        PROVE  \/ row.article \in Live
               \/ \E q \in Runs : row.article \in DemoArticles(q) /\ pc'[q] \notin {"new", "dating", "fetched"}
    <3>1. CASE row \in table
      BY <1>1, <1>3, <3>1 DEF DemoUnsaved
    <3>2. CASE row \notin table
      <4>1. row.article \in Live \union DemoArticles(r)
        BY <1>2, <3>2 DEF TypeOK
      <4> QED  BY <4>1, <1>3
    <3> QED  BY <3>1, <3>2
  <2>2. ASSUME NEW q \in Runs
        PROVE  /\ pc'[q] = "new" => dated'[q] = <<>>
               /\ pc'[q] = "dating" => Len(dated'[q]) < DemoSize
               /\ pc'[q] = "fetched" =>
                     IF dated'[q] = <<>> THEN batch'[q] \subseteq Live
                     ELSE batch'[q] = DemoArticles(q) /\ Len(dated'[q]) = DemoSize
    <3>1. CASE q = r
      BY <1>3, <3>1
    <3>2. CASE q # r
      <4>1. pc'[q] = pc[q] /\ dated'[q] = dated[q] /\ batch'[q] = batch[q]
        BY <1>1, <1>3, <3>2 DEF TypeOK
      <4> QED  BY <4>1 DEF DemoUnsaved
    <3> QED  BY <3>1, <3>2
  <2> QED  BY <2>1, <2>2 DEF DemoUnsaved
<1>6. HintCovers'
  <2> SUFFICES ASSUME NEW q \in Runs
               PROVE  IF hint[q] = 0 THEN demoSince'[q] = 0
                      ELSE \E n \in 0 .. DriftMin :
                              /\ hint[q] = (DriftMin - n) \div DemoSize + 1
                              /\ n + demoSince'[q] * DemoSize <= Cardinality(table')
    BY <1>1 DEF HintCovers
  <2>1. hint[q] \in Nat /\ demoSince[q] \in Nat
    BY DEF TypeOK
  <2>2. CASE hint[q] = 0
    BY <1>1, <2>2 DEF HintCovers
  <2>3. CASE hint[q] # 0
    <3>1. PICK n \in 0 .. DriftMin :
             /\ hint[q] = (DriftMin - n) \div DemoSize + 1
             /\ n + demoSince[q] * DemoSize <= Cardinality(table)
      BY <2>3 DEF HintCovers
    <3>2. /\ DemoSize \in Nat /\ n \in Nat
          /\ demoSince[q] * DemoSize \in Nat
          /\ (demoSince[q] + 1) * DemoSize = demoSince[q] * DemoSize + DemoSize
      <4>1. DemoSize \in Nat /\ DriftMin \in Nat
        BY SizeAssumption
      <4> QED  BY <4>1, <2>1
    <3>3. n + demoSince'[q] * DemoSize <= Cardinality(table')
      <4>1. CASE dated[r] # <<>>
        <5>1. demoSince'[q] = demoSince[q] + 1
          BY <1>1, <2>1, <2>3, <4>1
        <5> HIDE DEF IndInv
        <5>2. Cardinality(table') = Cardinality(table) + DemoSize
          BY <1>2, <4>1
        <5>3. demoSince'[q] * DemoSize = demoSince[q] * DemoSize + DemoSize
          BY <3>2, <5>1
        <5> QED  BY <1>2, <3>1, <3>2, <5>2, <5>3
      <4>2. CASE dated[r] = <<>>
        <5>1. demoSince'[q] = demoSince[q]
          BY <1>1, <4>2
        <5> QED  BY <1>2, <3>1, <3>2, <5>1
      <4> QED  BY <4>1, <4>2
    <3> QED  BY <2>3, <3>1, <3>3
  <2> QED  BY <2>2, <2>3
<1>7. HintIsLast'
  BY <1>1, <1>3 DEF HintIsLast
<1> QED  BY <1>4, <1>5, <1>6, <1>7

\* Printing a hint leaves the invariant: it is computed from rows that the
\* table has.
LEMMA HintStep ==
    ASSUME IndInv, NEW r \in Runs, TooFewForDrift(r)
    PROVE  IndInv'
<1> USE DEF IndInv
<1>1. /\ pc[r] = "evaluated" /\ pc' = [pc EXCEPT ![r] = "done"]
      /\ Total(r) < DriftMin
      /\ hint' = [hint EXCEPT ![r] = (DriftMin - Total(r)) \div DemoSize + 1]
      /\ loaded' = [loaded EXCEPT ![r] = {}]
      /\ UNCHANGED <<dated, batch, table, report, demoSince, clock>>
  BY DEF TooFewForDrift, Goto
<1>2. Total(r) \in Nat /\ Total(r) <= Cardinality(table)
  <2>1. loaded[r] \subseteq table /\ IsFiniteSet(table)
    BY DEF TypeOK
  <2>2. IsFiniteSet(loaded[r]) /\ Cardinality(loaded[r]) <= Cardinality(table)
    BY <2>1, FS_Subset
  <2> QED  BY <2>2, FS_CardinalityType DEF Total
<1>3. DriftMin \in Nat /\ DemoSize \in Nat /\ DemoSize > 0
  BY SizeAssumption
<1>4. (DriftMin - Total(r)) \div DemoSize + 1 \in Nat
  <2>1. DriftMin - Total(r) \in Nat
    BY <1>1, <1>2, <1>3
  <2> QED  BY <2>1, <1>3
<1>5. TypeOK'
  BY <1>1, <1>4 DEF TypeOK, Stages
<1>6. DemoUnsaved'
  BY <1>1 DEF DemoUnsaved, TypeOK
<1>7. HintCovers'
  <2> SUFFICES ASSUME NEW q \in Runs
               PROVE  IF hint'[q] = 0 THEN demoSince[q] = 0
                      ELSE \E n \in 0 .. DriftMin :
                              /\ hint'[q] = (DriftMin - n) \div DemoSize + 1
                              /\ n + demoSince[q] * DemoSize <= Cardinality(table)
    BY <1>1 DEF HintCovers
  <2>1. CASE q # r
    <3>1. hint'[q] = hint[q]
      BY <1>1, <2>1 DEF TypeOK
    <3> QED  BY <3>1 DEF HintCovers
  <2>2. CASE q = r
    <3>1. hint'[r] = (DriftMin - Total(r)) \div DemoSize + 1
      BY <1>1 DEF TypeOK
    <3>2. demoSince[r] = 0
      BY <1>1 DEF HintIsLast, HintCovers
    <3>3. Total(r) \in 0 .. DriftMin /\ Total(r) + demoSince[r] * DemoSize <= Cardinality(table)
      BY <1>1, <1>2, <1>3, <3>2
    <3>4. hint'[r] # 0
      <4>1. DriftMin - Total(r) \in Nat
        BY <1>1, <1>2, <1>3
      <4>2. (DriftMin - Total(r)) \div DemoSize \in Nat
        BY <4>1, <1>3
      <4> QED  BY <3>1, <4>2
    <3> QED  BY <2>2, <3>1, <3>3, <3>4
  <2> QED  BY <2>1, <2>2
<1>8. HintIsLast'
  BY <1>1 DEF HintIsLast, TypeOK
<1> QED  BY <1>5, <1>6, <1>7, <1>8

\* Every step preserves the invariant.
LEMMA Step == IndInv /\ [Next]_vars => IndInv'
<1> SUFFICES ASSUME IndInv, [Next]_vars  PROVE IndInv'
  OBVIOUS
<1>1. CASE UNCHANGED vars
  BY <1>1 DEF vars, IndInv, TypeOK, DemoUnsaved, HintIsLast, HintCovers
<1>2. ASSUME NEW r \in Runs,
             \/ FetchLive(r) \/ FetchDemo(r) \/ LoadResults(r) \/ TooFewToEvaluate(r)
             \/ Evaluate(r) \/ CheckDrift(r) \/ Fail(r)
      PROVE  IndInv'
  BY <1>2, OtherStep
<1>3. ASSUME NEW r \in Runs, SaveResults(r)  PROVE IndInv'
  BY <1>3, SaveKeeps
<1>4. ASSUME NEW r \in Runs, TooFewForDrift(r)  PROVE IndInv'
  BY <1>4, HintStep
<1> QED  BY <1>1, <1>2, <1>3, <1>4 DEF Next

\* The invariant holds before the first run.
LEMMA Start == Init => IndInv
<1> SUFFICES ASSUME Init  PROVE IndInv
  OBVIOUS
<1>1. TypeOK
  BY FS_EmptySet DEF Init, TypeOK, Stages
<1>2. DemoUnsaved /\ HintIsLast /\ HintCovers
  BY DEF Init, DemoUnsaved, HintIsLast, HintCovers
<1> QED  BY <1>1, <1>2 DEF IndInv
-----------------------------------------------------------------------------
\* The invariant of the lite mode holds for any number of overlapping runs.
THEOREM Invariance == Spec => []IndInv
<1>1. Init => IndInv
  BY Start
<1>2. IndInv /\ [Next]_vars => IndInv'
  BY Step
<1> QED  BY <1>1, <1>2, PTL DEF Spec

\* After the hint "run again N more time(s)", N demo runs bring the rows that
\* the drift check needs, and load_results returns as many (lines 338 and 82).
THEOREM HintSufficesHolds == Spec => []HintSuffices
<1>1. IndInv => HintSuffices
  <2> SUFFICES ASSUME IndInv, NEW r \in Runs, hint[r] > 0, demoSince[r] >= hint[r],
                      NEW T \in TopSets(table, Window)
               PROVE  Cardinality(T) >= DriftMin
    BY DEF HintSuffices
  <2>1. PICK n \in 0 .. DriftMin :
           /\ hint[r] = (DriftMin - n) \div DemoSize + 1
           /\ n + demoSince[r] * DemoSize <= Cardinality(table)
    BY DEF IndInv, HintCovers
  <2>2. /\ DriftMin \in Nat /\ DemoSize \in Nat \ {0} /\ DriftMin - n \in Nat
        /\ demoSince[r] \in Nat /\ Cardinality(table) \in Nat
    BY SizeAssumption, FS_CardinalityType DEF IndInv, TypeOK
  <2>3. demoSince[r] >= (DriftMin - n) \div DemoSize + 1
    BY <2>1
  <2>4. demoSince[r] * DemoSize > DriftMin - n
    BY <2>2, <2>3, RunsEnough
  <2>5. demoSince[r] * DemoSize \in Nat /\ n \in Nat
    BY <2>2
  <2>6. Cardinality(table) >= DriftMin
    BY <2>1, <2>2, <2>4, <2>5
  <2>7. Cardinality(T) = IF Cardinality(table) < Window THEN Cardinality(table) ELSE Window
    BY DEF TopSets
  <2> QED  BY <2>6, <2>7, SizeAssumption
<1> QED  BY <1>1, Invariance, PTL

\* The row that a run saved for an article stays, and the article never gets
\* another.
THEOREM FirstResultStaysHolds == Spec => FirstResultStays
<1>1. [Next]_vars => [/\ table \subseteq table'
                      /\ Articles \intersect {row.article : row \in table' \ table} = {}]_vars
  <2> SUFFICES ASSUME Next
               PROVE  /\ table \subseteq table'
                      /\ Articles \intersect {row.article : row \in table' \ table} = {}
    OBVIOUS
  <2>1. ASSUME NEW r \in Runs, SaveResults(r)
        PROVE  /\ table \subseteq table'
               /\ Articles \intersect {row.article : row \in table' \ table} = {}
    <3>1. table' = table \union {Row(a, r) : a \in batch[r] \ {row.article : row \in table}}
      BY <2>1 DEF SaveResults, Kept
    <3>2. \A a : Row(a, r).article = a
      BY DEF Row
    <3> QED  BY <3>1, <3>2 DEF Articles
  <2>2. CASE table' = table
    BY <2>2
  <2> QED  BY <2>1, <2>2 DEF Next, FetchLive, FetchDemo, LoadResults, TooFewToEvaluate,
              Evaluate, CheckDrift, TooFewForDrift, Fail
<1> QED  BY <1>1, PTL DEF Spec, FirstResultStays
-----------------------------------------------------------------------------
\* More runs make more rows.
LEMMA MoreRuns ==
    ASSUME NEW a \in Nat, NEW b \in Nat, NEW n \in Nat \ {0}
    PROVE  /\ a * n \in Nat /\ b * n \in Nat /\ (a + 1) * n = a * n + n
           /\ a <= b => a * n <= b * n
           /\ a < b => a * n + n <= b * n
           /\ a * n = b * n => a = b
<1>1. a * n \in Nat /\ b * n \in Nat /\ (a + 1) * n = a * n + n
  OBVIOUS
<1>2. ASSUME NEW x \in Nat, NEW y \in Nat, x < y  PROVE x * n + n <= y * n
  <2>1. PICK d \in Nat : y = (x + 1) + d
    <3>1. y - (x + 1) \in Nat /\ y = (x + 1) + (y - (x + 1))
      BY <1>2
    <3> QED
      BY <3>1
  <2>2. y * n = x * n + n + d * n /\ d * n \in Nat /\ x * n \in Nat
    BY <2>1
  <2> QED
    BY <2>2
<1>3. a < b => a * n + n <= b * n
  BY <1>2
<1>4. b < a => b * n + n <= a * n
  BY <1>2
<1>5. a < b \/ a = b \/ b < a
  OBVIOUS
<1> QED
  BY <1>1, <1>3, <1>4, <1>5

\* The rows of the demo runs P for the headlines I.
Block(L, P, I) == {x \in L : x.article[1] \in P /\ x.article[2] \in I}

\* L has one row for each headline of each run in Q, and no other rows.
Whole(L, Q) == [x \in L |-> x.article] \in Bijection(L, Q \X (1 .. DemoSize))

LEMMA BlockSize ==
    ASSUME NEW L, NEW Q, IsFiniteSet(Q), Whole(L, Q),
           NEW P \in SUBSET Q, NEW I \in SUBSET (1 .. DemoSize)
    PROVE  /\ IsFiniteSet(Block(L, P, I))
           /\ Cardinality(Block(L, P, I)) = Cardinality(P) * Cardinality(I)
           /\ Cardinality(P) \in Nat /\ Cardinality(I) \in Nat
<1> DEFINE B == Block(L, P, I)
           f == [x \in L |-> x.article]
           g == [x \in B |-> x.article]
<1>1. IsFiniteSet(P) /\ IsFiniteSet(I) /\ Cardinality(P) \in Nat /\ Cardinality(I) \in Nat
  <2>1. IsFiniteSet(1 .. DemoSize)
    BY SizeAssumption, FS_Interval
  <2> QED
    BY <2>1, FS_Subset, FS_CardinalityType
<1>2. IsFiniteSet(P \X I) /\ Cardinality(P \X I) = Cardinality(P) * Cardinality(I)
  BY <1>1, FS_Product
<1>3. f \in Bijection(L, Q \X (1 .. DemoSize))
  BY DEF Whole
<1>4. \A x \in L : x.article \in Q \X (1 .. DemoSize)
  BY <1>3 DEF Bijection, Injection
<1>5. \A x, y \in L : x.article = y.article => x = y
  BY <1>3 DEF Bijection, Injection, IsInjective
<1>6. \A a \in Q \X (1 .. DemoSize) : \E x \in L : x.article = a
  BY <1>3 DEF Bijection, Surjection
<1> HIDE DEF f
<1>7. g \in Injection(B, P \X I)
  BY <1>4, <1>5 DEF Block, Injection, IsInjective
<1>8. g \in Surjection(B, P \X I)
  <2>1. ASSUME NEW a \in P \X I  PROVE \E x \in B : g[x] = a
    <3>1. PICK x \in L : x.article = a
      BY <1>6
    <3>2. x \in B
      BY <3>1 DEF Block
    <3> QED
      BY <3>1, <3>2
  <2>2. g \in [B -> P \X I]
    BY <1>7 DEF Injection
  <2> HIDE DEF g, B
  <2> QED
    BY <2>1, <2>2 DEF Surjection
<1> HIDE DEF B, g
<1>9. IsFiniteSet(B) /\ Cardinality(B) = Cardinality(P \X I)
  BY <1>2, <1>7, <1>8, FS_Injection
<1> QED
  BY <1>1, <1>2, <1>9 DEF B

\* A run has DemoSize rows.
LEMMA RunsSize ==
    ASSUME NEW L, NEW Q, IsFiniteSet(Q), Whole(L, Q), NEW P \in SUBSET Q
    PROVE  /\ IsFiniteSet(Block(L, P, 1 .. DemoSize))
           /\ Cardinality(Block(L, P, 1 .. DemoSize)) = Cardinality(P) * DemoSize
           /\ Cardinality(P) \in Nat
<1> DEFINE D == 1 .. DemoSize
<1>1. D \in SUBSET (1 .. DemoSize)
  OBVIOUS
<1>2. Cardinality(D) = DemoSize
  <2>1. Cardinality(D) = IF 1 > DemoSize THEN 0 ELSE DemoSize - 1 + 1
    BY SizeAssumption, FS_Interval
  <2> QED
    BY <2>1, SizeAssumption
<1> HIDE DEF D
<1>3. /\ IsFiniteSet(Block(L, P, D))
      /\ Cardinality(Block(L, P, D)) = Cardinality(P) * Cardinality(D)
      /\ Cardinality(P) \in Nat
  BY <1>1, BlockSize
<1> QED
  BY <1>2, <1>3 DEF D

\* As many runs show the same shares, of bins as of labels.
LEMMA SharesOfRuns ==
    ASSUME NEW L, NEW Q, IsFiniteSet(Q), Whole(L, Q),
           NEW P \in SUBSET Q, NEW R \in SUBSET Q, Cardinality(P) = Cardinality(R),
           NEW f, NEW K, \A x \in L : x[f] = K[x.article[2]]
    PROVE  SameShares(Block(L, P, 1 .. DemoSize), Block(L, R, 1 .. DemoSize), f)
<1> DEFINE D == 1 .. DemoSize
           I(v) == {i \in D : K[i] = v}
<1>1. ASSUME NEW v, NEW T \in SUBSET Q
      PROVE  /\ Cardinality(With(Block(L, T, D), f, v)) = Cardinality(T) * Cardinality(I(v))
             /\ Cardinality(Block(L, T, D)) = Cardinality(T) * DemoSize
  <2>1. With(Block(L, T, D), f, v) = Block(L, T, I(v))
    BY DEF With, Block
  <2>2. I(v) \in SUBSET (1 .. DemoSize)
    OBVIOUS
  <2> HIDE DEF I
  <2>3. Cardinality(Block(L, T, I(v))) = Cardinality(T) * Cardinality(I(v))
    BY <2>2, BlockSize
  <2>4. Cardinality(Block(L, T, D)) = Cardinality(T) * DemoSize
    BY RunsSize
  <2> QED
    BY <2>1, <2>3, <2>4
<1> HIDE DEF D, I
<1> SUFFICES ASSUME NEW v
             PROVE  Cardinality(With(Block(L, P, D), f, v)) * Cardinality(Block(L, R, D)) =
                    Cardinality(With(Block(L, R, D), f, v)) * Cardinality(Block(L, P, D))
  BY DEF SameShares, D
<1>2. /\ Cardinality(With(Block(L, P, D), f, v)) = Cardinality(P) * Cardinality(I(v))
      /\ Cardinality(Block(L, P, D)) = Cardinality(P) * DemoSize
  BY <1>1
<1>3. /\ Cardinality(With(Block(L, R, D), f, v)) = Cardinality(P) * Cardinality(I(v))
      /\ Cardinality(Block(L, R, D)) = Cardinality(P) * DemoSize
  BY <1>1
<1> QED
  BY <1>2, <1>3

\* If the runs of Q were dated in turn, the h * DemoSize newest rows are those
\* of h whole runs: a cut through one run would leave every other run whole,
\* and the number of rows would not fit.
LEMMA CutBetweenRuns ==
    ASSUME NEW L, NEW Q, IsFiniteSet(Q), Whole(L, Q),
           \A x \in L : x.at \in Nat,
           \A p, q \in Q :
              \/ p = q
              \/ \A x \in RowsOf(L, p), y \in RowsOf(L, q) : x.at < y.at
              \/ \A x \in RowsOf(L, p), y \in RowsOf(L, q) : y.at < x.at,
           NEW h \in Nat, h <= Cardinality(Q),
           NEW T \in TopSets(L, h * DemoSize)
    PROVE  \E P \in SUBSET Q : T = Block(L, P, 1 .. DemoSize) /\ Cardinality(P) = h
<1> DEFINE D == 1 .. DemoSize
           P == {q \in Q : RowsOf(L, q) \subseteq T}
           k == Cardinality(P)
<1>1. DemoSize \in Nat \ {0}
  BY SizeAssumption
<1>2. \A x \in L : x.article[1] \in Q /\ x.article[2] \in D
  BY DEF Whole, Bijection, Injection
<1>3. L = Block(L, Q, D)
  BY <1>2 DEF Block
<1>4. Cardinality(L) = Cardinality(Q) * DemoSize /\ Cardinality(Q) \in Nat /\ IsFiniteSet(L)
  BY <1>3, RunsSize
<1>5. h * DemoSize <= Cardinality(L) /\ h * DemoSize \in Nat /\ Cardinality(L) \in Nat
  BY <1>1, <1>4, MoreRuns
<1>6. Cardinality(T) = h * DemoSize /\ T \subseteq L /\ \A t \in T, u \in L \ T : t.at >= u.at
  <2>1. /\ Cardinality(T) = IF Cardinality(L) < h * DemoSize THEN Cardinality(L) ELSE h * DemoSize
        /\ T \in SUBSET L /\ \A t \in T, u \in L \ T : t.at >= u.at
    BY DEF TopSets
  <2> QED
    BY <1>5, <2>1
<1>7. P \in SUBSET Q
  OBVIOUS
<1>8. /\ IsFiniteSet(Block(L, P, D)) /\ Cardinality(Block(L, P, D)) = k * DemoSize
      /\ k \in Nat
  BY <1>7, RunsSize
<1>9. Block(L, P, D) \subseteq T
  BY DEF Block, RowsOf
<1>10. ASSUME NEW x \in T, x.article[1] \notin P  PROVE FALSE
  <2> DEFINE q == x.article[1]
             C == T \intersect RowsOf(L, q)
  <2>1. q \in Q /\ x \in RowsOf(L, q) /\ x \in L
    BY <1>2, <1>6 DEF RowsOf
  <2>2. PICK z \in RowsOf(L, q) : z \notin T
    BY <1>10, <2>1
  <2>3. z \in L
    BY DEF RowsOf
  <2>4. ASSUME NEW y \in T, y.article[1] # q  PROVE y.article[1] \in P
    <3> DEFINE p == y.article[1]
    <3>1. p \in Q /\ y \in RowsOf(L, p) /\ y \in L
      BY <1>2, <1>6 DEF RowsOf
    <3>2. y.at >= z.at /\ y.at \in Nat /\ z.at \in Nat /\ x.at \in Nat
      BY <1>6, <2>1, <2>2, <2>3, <3>1
    <3>3. \A u \in RowsOf(L, p) : x.at < u.at
      <4>1. \/ \A u \in RowsOf(L, p), v \in RowsOf(L, q) : u.at < v.at
            \/ \A u \in RowsOf(L, p), v \in RowsOf(L, q) : v.at < u.at
        BY <2>1, <2>4, <3>1
      <4>2. ~(y.at < z.at)
        BY <3>2
      <4> QED
        BY <2>1, <2>2, <3>1, <4>1, <4>2
    <3>4. ASSUME NEW u \in RowsOf(L, p), u \notin T  PROVE FALSE
      <4>1. u \in L /\ u.at \in Nat
        BY DEF RowsOf
      <4>2. x.at >= u.at
        BY <1>6, <3>4, <4>1
      <4> QED
        BY <3>2, <3>3, <4>1, <4>2
    <3> QED
      BY <3>1, <3>4
  <2>5. T = Block(L, P, D) \union C
    <3>1. ASSUME NEW y \in T  PROVE y \in Block(L, P, D) \union C
      <4>1. CASE y.article[1] = q
        BY <1>6, <4>1 DEF RowsOf
      <4>2. CASE y.article[1] # q
        BY <1>2, <1>6, <2>4, <4>2 DEF Block
      <4> QED
        BY <4>1, <4>2
    <3> QED
      BY <1>9, <3>1
  <2>6. Block(L, P, D) \intersect C = {}
    BY <1>10 DEF Block, RowsOf
  <2>7. /\ IsFiniteSet(RowsOf(L, q)) /\ Cardinality(RowsOf(L, q)) = DemoSize
    <3>1. RowsOf(L, q) = Block(L, {q}, D)
      BY <1>2 DEF RowsOf, Block
    <3>2. Cardinality({q}) = 1 /\ {q} \in SUBSET Q
      BY <2>1, FS_Singleton
    <3> HIDE DEF q
    <3>3. IsFiniteSet(Block(L, {q}, D)) /\ Cardinality(Block(L, {q}, D)) = 1 * DemoSize
      BY <3>2, RunsSize
    <3> QED
      BY <1>1, <3>1, <3>3
  <2>8. IsFiniteSet(C) /\ Cardinality(C) \in 1 .. DemoSize - 1
    <3>1. C \in SUBSET RowsOf(L, q) /\ C # RowsOf(L, q) /\ x \in C
      BY <2>1, <2>2
    <3> HIDE DEF C, q
    <3>2. /\ IsFiniteSet(C) /\ Cardinality(C) <= DemoSize /\ Cardinality(C) # DemoSize
      BY <2>7, <3>1, FS_Subset
    <3>3. Cardinality(C) # 0 /\ Cardinality(C) \in Nat
      BY <3>1, <3>2, FS_EmptySet, FS_CardinalityType
    <3> QED
      BY <1>1, <3>2, <3>3
  <2> HIDE DEF C, q, D, P, k
  <2>9. Cardinality(T) = k * DemoSize + Cardinality(C)
    <3>1. Cardinality(Block(L, P, D) \union C) =
            Cardinality(Block(L, P, D)) + Cardinality(C) - Cardinality(Block(L, P, D) \intersect C)
      BY <1>8, <2>8, FS_Union
    <3>2. Cardinality(Block(L, P, D) \intersect C) = 0
      BY <2>6, FS_EmptySet
    <3>3. k * DemoSize \in Nat /\ Cardinality(C) \in Nat
      BY <1>1, <1>8, <2>8
    <3> QED
      BY <1>8, <2>5, <3>1, <3>2, <3>3
  <2>10. /\ k < h => k * DemoSize + DemoSize <= h * DemoSize
         /\ h <= k => h * DemoSize <= k * DemoSize
         /\ k * DemoSize \in Nat
    BY <1>1, <1>8, MoreRuns
  <2> QED
    BY <1>1, <1>5, <1>6, <1>8, <2>8, <2>9, <2>10
<1>11. T = Block(L, P, D)
  <2>1. \A x \in T : x \in Block(L, P, D)
    BY <1>2, <1>6, <1>10 DEF Block
  <2> QED
    BY <1>9, <2>1
<1>12. k = h
  <2> HIDE DEF k, P, D
  <2>1. k * DemoSize = h * DemoSize
    BY <1>6, <1>8, <1>11
  <2> QED
    BY <1>1, <1>8, <2>1, MoreRuns
<1> QED
  BY <1>7, <1>11, <1>12

\* The halves of an even number of whole runs that were dated in turn are as
\* many runs each, and then the drift check finds nothing in bins and labels.
LEMMA EvenRunsQuiet ==
    ASSUME NEW L, NEW Q, IsFiniteSet(Q), Whole(L, Q),
           \A x \in L : x.at \in Nat,
           \A p, q \in Q :
              \/ p = q
              \/ \A x \in RowsOf(L, p), y \in RowsOf(L, q) : x.at < y.at
              \/ \A x \in RowsOf(L, p), y \in RowsOf(L, q) : y.at < x.at,
           \A x \in L : x.bin = Kind[x.article[2]].bin /\ x.label = Kind[x.article[2]].label,
           (Cardinality(L) \div DemoSize) % 2 = 0,
           NEW S \in TopSets(L, Cardinality(L) \div 2),
           NEW c \in Check(L \ S, S)
    PROVE  ~c.psi /\ ~c.label
<1> DEFINE D == 1 .. DemoSize
           n == Cardinality(Q)
           h == n \div 2
<1>1. DemoSize \in Nat \ {0}
  BY SizeAssumption
<1>2. L = Block(L, Q, D)
  <2>1. \A x \in L : x.article \in Q \X (1 .. DemoSize)
    BY DEF Whole, Bijection, Injection
  <2> QED
    BY <2>1 DEF Block
<1>3. Cardinality(L) = n * DemoSize /\ n \in Nat
  BY <1>2, RunsSize
<1>4. n = 2 * h /\ h \in Nat /\ Cardinality(L) \div 2 = h * DemoSize
  <2> HIDE DEF n
  <2>1. Cardinality(L) \div DemoSize = n
    <3> DEFINE q == Cardinality(L) \div DemoSize
               m == Cardinality(L) % DemoSize
    <3>1. q \in Nat /\ m \in 0 .. DemoSize - 1 /\ n * DemoSize = q * DemoSize + m
      <4>1. Cardinality(L) \in Nat
        BY <1>1, <1>3
      <4>2. q \in Nat /\ m \in 0 .. DemoSize - 1 /\ Cardinality(L) = DemoSize * q + m
        BY <4>1, <1>1, DivMod
      <4> HIDE DEF q, m
      <4>3. DemoSize * q = q * DemoSize
        BY <4>2, <1>1
      <4> QED
        BY <1>3, <4>2, <4>3
    <3> HIDE DEF q, m
    <3>2. /\ n < q => n * DemoSize + DemoSize <= q * DemoSize
          /\ q < n => q * DemoSize + DemoSize <= n * DemoSize
          /\ n * DemoSize \in Nat /\ q * DemoSize \in Nat
      BY <1>1, <1>3, <3>1, MoreRuns
    <3>3. n = q
      BY <1>1, <1>3, <3>1, <3>2
    <3> QED
      BY <3>3 DEF q
  <2>2. n % 2 = 0
    BY <2>1
  <2>3. n = 2 * h /\ h \in Nat
    BY <1>3, <2>2
  <2> HIDE DEF h
  <2>4. h * DemoSize \in Nat /\ n * DemoSize = 2 * (h * DemoSize)
    BY <1>1, <2>3
  <2>5. (2 * (h * DemoSize)) \div 2 = h * DemoSize
    <3> DEFINE k == h * DemoSize
    <3>1. k \in Nat
      BY <2>4
    <3> HIDE DEF k
    <3>2. (2 * k) \div 2 = k
      BY <3>1
    <3> QED
      BY <3>2 DEF k
  <2> QED
    BY <1>3, <2>3, <2>4, <2>5
<1> HIDE DEF h
<1>5. PICK P \in SUBSET Q : S = Block(L, P, D) /\ Cardinality(P) = h
  <2>1. h <= Cardinality(Q)
    <3>1. n = 2 * h /\ h \in Nat
      BY <1>4
    <3> HIDE DEF n
    <3>2. h <= n
      BY <3>1
    <3> QED
      BY <3>2 DEF n
  <2>2. S \in TopSets(L, h * DemoSize)
    BY <1>4
  <2> QED
    BY <1>4, <2>1, <2>2, CutBetweenRuns
<1>6. Cardinality(P) = h
  BY <1>5
<1>7. L \ S = Block(L, Q \ P, D)
  BY <1>2, <1>5 DEF Block
<1>8. P \in SUBSET Q /\ Q \ P \in SUBSET Q
  OBVIOUS
<1>9. Cardinality(Q \ P) = h
  <2>1. IsFiniteSet(P) /\ IsFiniteSet(Q \ P)
    BY <1>8, FS_Subset
  <2>2. Q = P \union (Q \ P) /\ P \intersect (Q \ P) = {}
    BY <1>8
  <2>3. Cardinality(Q) = Cardinality(P) + Cardinality(Q \ P) - Cardinality(P \intersect (Q \ P))
    BY <2>1, <2>2, FS_Union
  <2>4. Cardinality(P \intersect (Q \ P)) = 0 /\ Cardinality(Q \ P) \in Nat
    BY <2>1, <2>2, FS_EmptySet, FS_CardinalityType
  <2> QED
    BY <1>4, <1>6, <2>3, <2>4
<1>10. SameShares(L \ S, S, "bin") /\ SameShares(L \ S, S, "label")
  <2> DEFINE B == [i \in D |-> Kind[i].bin]
             C == [i \in D |-> Kind[i].label]
  <2>1. \A x \in L : x.article[2] \in D
    BY <1>2 DEF Block
  <2>2. (\A x \in L : x["bin"] = B[x.article[2]]) /\ (\A x \in L : x["label"] = C[x.article[2]])
    BY <2>1
  <2> HIDE DEF B, C
  <2>3. SameShares(Block(L, Q \ P, 1 .. DemoSize), Block(L, P, 1 .. DemoSize), "bin")
    BY <1>6, <1>8, <1>9, <2>2, SharesOfRuns
  <2>4. SameShares(Block(L, Q \ P, 1 .. DemoSize), Block(L, P, 1 .. DemoSize), "label")
    BY <1>6, <1>8, <1>9, <2>2, SharesOfRuns
  <2> QED
    BY <1>5, <1>7, <2>3, <2>4
<1>11. c.psi \in PsiAlerts(L \ S, S) /\ c.label \in LabelAlerts(L \ S, S)
  BY DEF Check
<1> QED
  BY <1>10, <1>11 DEF PsiAlerts, LabelAlerts
-----------------------------------------------------------------------------
\* What is loaded is the whole table if it does not fill the window.
LEMMA LoadedWhole ==
    ASSUME IndInv, NEW T \in TopSets(table, Window), Cardinality(T) < Window
    PROVE  T = table
<1>1. /\ T \in SUBSET table /\ IsFiniteSet(table)
      /\ Cardinality(T) = IF Cardinality(table) < Window THEN Cardinality(table) ELSE Window
  BY DEF TopSets, IndInv, TypeOK
<1>2. Cardinality(T) = Cardinality(table)
  <2>1. Window \in Nat /\ Cardinality(table) \in Nat
    BY <1>1, SizeAssumption, FS_CardinalityType
  <2> QED
    BY <1>1, <2>1
<1> QED
  BY <1>1, <1>2, FS_Subset

\* An even number of whole demo runs, dated in turn, gets a report without
\* these alerts.
LEMMA QuietReport ==
    ASSUME IndInv, DriftInv, NEW r \in Runs, NEW h \in Halves(r),
           NEW c \in Check(h.older, h.newer),
           \A x \in loaded[r] : x.article[1] # "live",
           (Total(r) \div DemoSize) % 2 = 0, Total(r) < Window,
           InTurn(loaded[r])
    PROVE  ~c.psi /\ ~c.label
<1> DEFINE L == loaded[r]
           Q == {x.article[1] : x \in L}
<1>1. L \subseteq table /\ IsFiniteSet(L)
  BY FS_Subset DEF IndInv, TypeOK
<1>2. ASSUME NEW x \in L
      PROVE  \E q \in Runs : /\ x.article \in DemoArticles(q)
                             /\ DemoArticles(q) \subseteq {y.article : y \in L}
  <2>1. x.article \notin Live
    BY DEF Live
  <2> QED
    BY <2>1 DEF DriftInv, RowsWhole, WholeRuns
<1>3. \A q \in Q : q \in Runs /\ DemoArticles(q) \subseteq {y.article : y \in L}
  BY <1>2 DEF DemoArticles
<1>4. IsFiniteSet(Q)
  <2> DEFINE f == [x \in L |-> x.article[1]]
  <2>1. f \in Surjection(L, Q)
    BY DEF Surjection
  <2> HIDE DEF f, L, Q
  <2> QED
    BY <1>1, <2>1, FS_Surjection DEF L
<1>5. Whole(L, Q)
  <2> DEFINE f == [x \in L |-> x.article]
             A == Q \X (1 .. DemoSize)
  <2>1. \A x \in L : x.article \in A
    BY <1>2 DEF DemoArticles
  <2>2. \A x, y \in L : x.article = y.article => x = y
    BY <1>1 DEF DriftInv, RowsWhole
  <2>3. \A a \in A : \E x \in L : x.article = a
    BY <1>3 DEF DemoArticles
  <2> HIDE DEF L, A
  <2>4. f \in Bijection(L, A)
    BY <2>1, <2>2, <2>3 DEF Bijection, Injection, Surjection, IsInjective
  <2> QED
    BY <2>4 DEF Whole, A
<1>6. \A x \in L : /\ x.at \in Nat
                   /\ x.bin = Kind[x.article[2]].bin /\ x.label = Kind[x.article[2]].label
  BY <1>1 DEF DriftInv, RowsWhole
<1>7. \A p, q \in Q :
         \/ p = q
         \/ \A x \in RowsOf(L, p), y \in RowsOf(L, q) : x.at < y.at
         \/ \A x \in RowsOf(L, p), y \in RowsOf(L, q) : y.at < x.at
  BY <1>3 DEF InTurn
<1>8. PICK S \in TopSets(L, Cardinality(L) \div 2) : h = [older |-> L \ S, newer |-> S]
  BY DEF Halves, Total
<1>9. c \in Check(L \ S, S)
  BY <1>8
<1>10. (Cardinality(L) \div DemoSize) % 2 = 0
  BY DEF Total
<1> HIDE DEF L, Q
<1> QED
  BY <1>4, <1>5, <1>6, <1>7, <1>9, <1>10, EvenRunsQuiet

\* A step that saves nothing leaves rows and earlier reports as they are.
LEMMA DriftOther ==
    ASSUME IndInv, DriftInv, NEW r \in Runs,
           table' = table,
           pc[r] # "done" /\ \E to \in Stages : pc' = [pc EXCEPT ![r] = to],
           \/ loaded' = loaded
           \/ loaded' = [loaded EXCEPT ![r] = {}]
           \/ \E T \in TopSets(table, Window) : loaded' = [loaded EXCEPT ![r] = T],
           \/ report' = report
           \/ /\ pc'[r] = "done" /\ loaded' = loaded
              /\ \E h \in Halves(r) : \E c \in Check(h.older, h.newer) :
                    report' = [report EXCEPT ![r] = {c}]
    PROVE  DriftInv'
<1>1. \A q \in Runs \ {r} : pc'[q] = pc[q] /\ loaded'[q] = loaded[q]
  BY DEF IndInv, TypeOK
<1>2. WholeRuns(table)
  BY DEF DriftInv, RowsWhole
<1>3. ASSUME NEW q \in Runs, Cardinality(loaded'[q]) < Window
      PROVE  WholeRuns(loaded'[q])
  <2>1. CASE loaded'[q] = loaded[q]
    BY <1>3, <2>1 DEF DriftInv, RowsWhole, Total
  <2>2. CASE loaded'[q] = {}
    BY <2>2 DEF WholeRuns
  <2>3. ASSUME NEW T \in TopSets(table, Window), loaded'[q] = T  PROVE WholeRuns(loaded'[q])
    <3>1. loaded'[q] = table
      BY <1>3, <2>3, LoadedWhole
    <3> QED
      BY <1>2, <3>1
  <2> QED
    BY <1>1, <2>1, <2>2, <2>3 DEF IndInv, TypeOK
<1>4. RowsWhole'
  <2>1. /\ \A x, y \in table' : x.article = y.article => x = y
        /\ \A x \in table' : /\ x.at \in Nat
                            /\ x.bin = Kind[x.article[2]].bin
                            /\ x.label = Kind[x.article[2]].label
    BY DEF DriftInv, RowsWhole
  <2>2. WholeRuns(table)'
    BY <1>2 DEF WholeRuns
  <2>3. \A q \in Runs : Total(q)' < Window => WholeRuns(loaded[q])'
    BY <1>3 DEF Total, WholeRuns
  <2> QED
    BY <2>1, <2>2, <2>3 DEF RowsWhole
<1>5. report[r] = {}
  BY DEF DriftInv, ReportIsLast
<1>6. ReportIsLast'
  <2>1. ASSUME NEW q \in Runs \ {r}  PROVE report'[q] = report[q]
    BY DEF IndInv, TypeOK
  <2>2. report'[r] # {} => pc'[r] = "done"
    BY <1>5
  <2> QED
    BY <1>1, <2>1, <2>2 DEF DriftInv, ReportIsLast
<1>7. EvenDemoRunsQuiet'
  <2> SUFFICES ASSUME NEW q \in Runs, NEW c \in report'[q],
                      \A x \in loaded'[q] : x.article[1] # "live",
                      (Cardinality(loaded'[q]) \div DemoSize) % 2 = 0,
                      Cardinality(loaded'[q]) % DemoSize = 0,
                      Cardinality(loaded'[q]) < Window,
                      InTurn(loaded'[q])
               PROVE  ~c.psi /\ ~c.label
    BY DEF EvenDemoRunsQuiet, Total, InTurn, RowsOf
  <2>1. CASE q # r
    <3>1. report'[q] = report[q] /\ loaded'[q] = loaded[q]
      BY <1>1, <2>1 DEF IndInv, TypeOK
    <3> QED
      BY <3>1 DEF DriftInv, EvenDemoRunsQuiet, Total
  <2>2. CASE q = r
    <3>1. (\E h \in Halves(r) : c \in Check(h.older, h.newer)) /\ loaded' = loaded
      BY <1>5, <2>2 DEF IndInv, TypeOK
    <3> QED
      BY <2>2, <3>1, QuietReport DEF Total
  <2> QED
    BY <2>1, <2>2
<1> QED
  BY <1>4, <1>6, <1>7 DEF DriftInv

\* Saving brings all demo rows of a run at once, or live rows only.
LEMMA DriftSave ==
    ASSUME IndInv, DriftInv, NEW r \in Runs, SaveResults(r)
    PROVE  DriftInv'
<1> DEFINE D == batch[r] \ {row.article : row \in table}
           N == {Row(a, r) : a \in D}
<1>1. /\ table' = table \union N /\ pc[r] = "fetched" /\ pc' = [pc EXCEPT ![r] = "saved"]
      /\ UNCHANGED <<loaded, report>>
  BY DEF SaveResults, Kept, Goto
<1>2. \/ dated[r] = <<>> /\ batch[r] \subseteq Live
      \/ Len(dated[r]) = DemoSize /\ batch[r] = DemoArticles(r)
  BY <1>1 DEF IndInv, DemoUnsaved
<1>3. \A a \in batch[r] : Published(a, r) \in Nat
  <2>1. CASE dated[r] = <<>> /\ batch[r] \subseteq Live
    BY <2>1, RunsAssumption DEF Live, Published
  <2>2. CASE Len(dated[r]) = DemoSize /\ batch[r] = DemoArticles(r)
    <3>1. dated[r] \in Seq(Nat) /\ \A i \in 1 .. DemoSize : dated[r][i] \in Nat
      BY <2>2 DEF IndInv, TypeOK
    <3>2. \A a \in DemoArticles(r) : a[1] # "live" /\ a[2] \in 1 .. DemoSize
      BY RunsAssumption DEF DemoArticles
    <3> QED
      BY <2>2, <3>1, <3>2 DEF Published
  <2> QED
    BY <1>2, <2>1, <2>2
<1>4. \A x \in N : /\ x.article \in D /\ x = Row(x.article, r)
                   /\ x.at = Published(x.article, r)
                   /\ x.bin = Kind[x.article[2]].bin /\ x.label = Kind[x.article[2]].label
  <2>1. \A a : /\ Row(a, r).article = a /\ Row(a, r).at = Published(a, r)
              /\ Row(a, r).bin = Kind[a[2]].bin /\ Row(a, r).label = Kind[a[2]].label
    <3> HIDE DEF N, D
    <3>1. \A a : Row(a, r).article = a
      BY DEF Row
    <3>2. \A a : Row(a, r).at = Published(a, r)
      BY DEF Row
    <3>3. \A a : Row(a, r).bin = Kind[a[2]].bin
      BY DEF Row
    <3>4. \A a : Row(a, r).label = Kind[a[2]].label
      BY DEF Row
    <3> QED
      BY <3>1, <3>2, <3>3, <3>4
  <2>2. \A x \in N : \E a \in D : x = Row(a, r)
    OBVIOUS
  <2> HIDE DEF N, D
  <2> QED
    BY <2>1, <2>2
<1>5. ASSUME NEW a \in D  PROVE \E y \in N : y.article = a
  <2>1. Row(a, r) \in N
    OBVIOUS
  <2>2. Row(a, r).article = a
    BY DEF Row
  <2> QED
    BY <2>1, <2>2
<1> HIDE DEF N
<1>6. \A x, y \in table' : x.article = y.article => x = y
  <2> SUFFICES ASSUME NEW x \in table', NEW y \in table', x.article = y.article  PROVE x = y
    OBVIOUS
  <2>1. CASE x \in table /\ y \in table
    BY <2>1 DEF DriftInv, RowsWhole
  <2>2. CASE x \in N /\ y \in N
    BY <1>4, <2>2
  <2>3. CASE (x \in N /\ y \in table) \/ (x \in table /\ y \in N)
    BY <1>4, <2>3
  <2> QED
    BY <1>1, <2>1, <2>2, <2>3
<1>7. \A x \in table' : /\ x.at \in Nat
                        /\ x.bin = Kind[x.article[2]].bin
                        /\ x.label = Kind[x.article[2]].label
  BY <1>1, <1>3, <1>4 DEF DriftInv, RowsWhole
<1>8. ASSUME NEW x \in table'
      PROVE  \/ x.article \in Live
             \/ \E q \in Runs : /\ x.article \in DemoArticles(q)
                                /\ DemoArticles(q) \subseteq {y.article : y \in table'}
  <2>1. CASE x \in table
    <3>1. \/ x.article \in Live
          \/ \E q \in Runs : /\ x.article \in DemoArticles(q)
                             /\ DemoArticles(q) \subseteq {y.article : y \in table}
      BY <2>1 DEF DriftInv, RowsWhole, WholeRuns
    <3> QED
      BY <1>1, <3>1
  <2>2. CASE x \in N
    <3>1. CASE batch[r] \subseteq Live
      BY <1>4, <2>2, <3>1
    <3>2. CASE batch[r] = DemoArticles(r)
      <4>1. \A a \in DemoArticles(r) : \E y \in table' : y.article = a
        BY <1>1, <1>5, <3>2
      <4> QED
        BY <1>4, <2>2, <3>2, <4>1
    <3> QED
      BY <1>2, <3>1, <3>2
  <2> QED
    BY <1>1, <2>1, <2>2
<1>9. RowsWhole'
  <2>1. \A q \in Runs : Total(q)' < Window => WholeRuns(loaded[q])'
    BY <1>1 DEF DriftInv, RowsWhole, WholeRuns, Total
  <2> QED
    BY <1>6, <1>7, <1>8, <2>1 DEF RowsWhole, WholeRuns
<1>10. ReportIsLast'
  BY <1>1 DEF DriftInv, ReportIsLast, IndInv, TypeOK
<1>11. EvenDemoRunsQuiet'
  BY <1>1 DEF DriftInv, EvenDemoRunsQuiet, Total, InTurn, RowsOf
<1> QED
  BY <1>9, <1>10, <1>11 DEF DriftInv

\* Every step preserves what the drift report needs.
LEMMA DriftStep == IndInv /\ DriftInv /\ [Next]_vars => DriftInv'
<1> SUFFICES ASSUME IndInv, DriftInv, [Next]_vars  PROVE DriftInv'
  OBVIOUS
<1>1. CASE UNCHANGED vars
  <2>1. UNCHANGED <<pc, table, loaded, report>>
    BY <1>1 DEF vars
  <2>2. RowsWhole' /\ ReportIsLast'
    BY <2>1 DEF DriftInv, RowsWhole, WholeRuns, Total, ReportIsLast
  <2>3. EvenDemoRunsQuiet'
    BY <2>1 DEF DriftInv, EvenDemoRunsQuiet, Total, InTurn, RowsOf
  <2> QED
    BY <2>2, <2>3 DEF DriftInv
<1>2. ASSUME NEW r \in Runs, SaveResults(r)  PROVE DriftInv'
  BY <1>2, DriftSave
<1>3. ASSUME NEW r \in Runs,
             \/ FetchLive(r) \/ FetchDemo(r) \/ LoadResults(r) \/ TooFewToEvaluate(r)
             \/ Evaluate(r) \/ CheckDrift(r) \/ TooFewForDrift(r) \/ Fail(r)
      PROVE  DriftInv'
  <2>1. table' = table
    BY <1>3 DEF FetchLive, FetchDemo, LoadResults, TooFewToEvaluate, Evaluate, CheckDrift,
       TooFewForDrift, Fail
  <2>2. pc[r] # "done" /\ \E to \in Stages : pc' = [pc EXCEPT ![r] = to]
    BY <1>3 DEF FetchLive, FetchDemo, LoadResults, TooFewToEvaluate, Evaluate, CheckDrift,
       TooFewForDrift, Fail, Goto, Stages
  <2>3. \/ loaded' = loaded
        \/ loaded' = [loaded EXCEPT ![r] = {}]
        \/ \E T \in TopSets(table, Window) : loaded' = [loaded EXCEPT ![r] = T]
    BY <1>3 DEF FetchLive, FetchDemo, LoadResults, TooFewToEvaluate, Evaluate, CheckDrift,
       TooFewForDrift, Fail
  <2>4. \/ report' = report
        \/ /\ pc'[r] = "done" /\ loaded' = loaded
           /\ \E h \in Halves(r) : \E c \in Check(h.older, h.newer) :
                 report' = [report EXCEPT ![r] = {c}]
    BY <1>3 DEF FetchLive, FetchDemo, LoadResults, TooFewToEvaluate, Evaluate, CheckDrift,
       TooFewForDrift, Fail, Goto, IndInv, TypeOK
  <2> QED
    BY <2>1, <2>2, <2>3, <2>4, DriftOther
<1> QED
  BY <1>1, <1>2, <1>3 DEF Next

\* The demo rows of a run come together, and what is loaded below the window
\* is the whole table, however runs overlap in dating, saving and loading
\* (save_results and load_results).
THEOREM DriftInvariance == Spec => []DriftInv
<1>1. Init => DriftInv
  BY DEF Init, DriftInv, RowsWhole, WholeRuns, ReportIsLast, EvenDemoRunsQuiet
<1>2. IndInv /\ DriftInv /\ [Next]_vars => DriftInv'
  BY DriftStep
<1> QED
  BY <1>1, <1>2, Invariance, PTL DEF Spec

\* An even number of demo runs that dated their articles one run after the
\* other is never reported as a drift of confidences or labels, in whatever
\* order they saved and loaded (step 6 of main).
THEOREM EvenDemoRunsQuietHolds == Spec => []EvenDemoRunsQuiet
<1>1. DriftInv => EvenDemoRunsQuiet
  BY DEF DriftInv
<1> QED
  BY <1>1, DriftInvariance, PTL
=============================================================================

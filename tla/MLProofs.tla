------------------------------ MODULE MLProofs ------------------------------
(***************************************************************************)
(* Theorems about what src/ml computes: the answers of the ensemble and    *)
(* the features of an article (Inference), for all label names, weights    *)
(* and texts, and the calibration error of the evaluator (Calibration),    *)
(* for all numbers of bins and samples.                                    *)
(*                                                                         *)
(* What the recursive functions of these modules compute is shown by       *)
(* induction over their data.  NaturalInduction gets it from the pigeon-   *)
(* hole principle: if T contained 0 and n + 1 with every n, but not m,     *)
(* adding 1 would map the numbers of T up to m into those without 0.       *)
(***************************************************************************)
EXTENDS Inference, Calibration, FiniteSetTheorems, TLAPS

\* A set of numbers with 0 and the successor of each element has all numbers.
LEMMA NaturalInduction ==
    ASSUME NEW T, T \subseteq Nat, 0 \in T, \A n \in T : n + 1 \in T
    PROVE T = Nat
<1> SUFFICES ASSUME NEW m \in Nat, m \notin T  PROVE FALSE
  OBVIOUS
<1> DEFINE S == T \intersect (0 .. m)
           U == S \ {0}
           f == [n \in S |-> n + 1]
<1>1. IsFiniteSet(S) /\ IsFiniteSet(U)
  <2>1. IsFiniteSet(0 .. m)
    BY FS_Interval
  <2> QED
    BY <2>1, FS_Subset
<1>2. Cardinality(U) = Cardinality(S) - 1
  <2>1. 0 \in S
    OBVIOUS
  <2> QED
    BY <1>1, <2>1, FS_RemoveElement
<1>3. Cardinality(U) < Cardinality(S)
  BY <1>1, <1>2, FS_CardinalityType
<1>4. f \in [S -> U]
  OBVIOUS
<1>5. \E x, y \in S : x # y /\ f[x] = f[y]
  <2> HIDE DEF S, U, f
  <2> QED
    BY <1>1, <1>3, <1>4, FS_PigeonHole
<1> QED
  BY <1>5

\* Recursion along 1 .. n has a solution.
Solvable(n, V, base, step) ==
    \E d \in [0 .. n -> V] :
        d[0] = base /\ \A i \in 1 .. n : d[i] = step[i][d[i - 1]]
LEMMA Recursion ==
    ASSUME NEW n \in Nat, NEW V, NEW base \in V, NEW step \in [1 .. n -> [V -> V]]
    PROVE  Solvable(n, V, base, step)
<1> DEFINE Solves(d, k) ==
              d[0] = base /\ \A i \in 1 .. k : d[i] = step[i][d[i - 1]]
           T == {k \in Nat : k <= n => \E d \in [0 .. k -> V] : Solves(d, k)}
<1>1. 0 \in T
  <2>1. [i \in 0 .. 0 |-> base] \in [0 .. 0 -> V] /\ Solves([i \in 0 .. 0 |-> base], 0)
    OBVIOUS
  <2> QED
    BY <2>1
<1>2. ASSUME NEW k \in T  PROVE k + 1 \in T
  <2>1. ASSUME k + 1 <= n
        PROVE  \E e \in [0 .. k + 1 -> V] : Solves(e, k + 1)
    <3>1. PICK d \in [0 .. k -> V] : Solves(d, k)
      BY <2>1
    <3> DEFINE e == [i \in 0 .. k + 1 |-> IF i <= k THEN d[i] ELSE step[k + 1][d[k]]]
    <3>2. step[k + 1][d[k]] \in V
      BY <2>1
    <3>3. e \in [0 .. k + 1 -> V]
      BY <3>2
    <3>4. e[0] = base
      BY <3>1
    <3>5. ASSUME NEW i \in 1 .. k + 1  PROVE e[i] = step[i][e[i - 1]]
      <4>1. CASE i <= k
        BY <3>1, <4>1
      <4>2. CASE i = k + 1
        <5>1. i - 1 = k /\ e[k] = d[k] /\ e[i] = step[k + 1][d[k]]
          BY <4>2
        <5> QED
          BY <4>2, <5>1
      <4> QED
        BY <4>1, <4>2
    <3> QED
      BY <3>3, <3>4, <3>5
  <2>2. k + 1 \in Nat
    OBVIOUS
  <2> HIDE DEF Solves
  <2> QED
    BY <2>1, <2>2
<1>3. T = Nat
  <2> HIDE DEF T
  <2>1. T \subseteq Nat
    BY DEF T
  <2> QED
    BY <1>1, <1>2, <2>1, NaturalInduction
<1>4. n \in T
  BY <1>3
<1> QED
  BY <1>4 DEF Solvable
-----------------------------------------------------------------------------
\* Found runs through its sequence and lists what it meets.
Traced(f, s, V) ==
    \E d \in [0 .. Len(s) -> Seq(V)] :
        /\ Found(f, s) = d[Len(s)]
        /\ d[0] = <<>>
        /\ \A i \in 1 .. Len(s) : d[i] = Listed(d[i - 1], f, s[i])

LEMMA FoundSteps ==
    ASSUME NEW f, NEW W, NEW s \in Seq(W), NEW V, \A x \in DOMAIN f : f[x] \in V
    PROVE  Traced(f, s, V)
<1> DEFINE n == Len(s)
           step == [i \in 1 .. n |-> [v \in Seq(V) |-> Listed(v, f, s[i])]]
<1>1. step \in [1 .. n -> [Seq(V) -> Seq(V)]]
  BY DEF Listed
<1>2. PICK d \in [0 .. n -> Seq(V)] :
         d[0] = <<>> /\ \A i \in 1 .. n : d[i] = step[i][d[i - 1]]
  <2>1. <<>> \in Seq(V)
    OBVIOUS
  <2>2. n \in Nat
    OBVIOUS
  <2>3. Solvable(n, Seq(V), <<>>, step)
    <3> HIDE DEF step, n
    <3> QED
      BY <1>1, <2>1, <2>2, Recursion
  <2> QED
    BY <2>3 DEF Solvable
<1>3. \A i \in 1 .. n : d[i] = Listed(d[i - 1], f, s[i])
  <2> SUFFICES ASSUME NEW i \in 1 .. n  PROVE d[i] = Listed(d[i - 1], f, s[i])
    OBVIOUS
  <2>1. i - 1 \in 0 .. n
    OBVIOUS
  <2>2. d[i - 1] \in Seq(V)
    BY <2>1
  <2>3. step[i][d[i - 1]] = Listed(d[i - 1], f, s[i])
    BY <2>2
  <2> QED
    BY <1>2, <2>3
<1> DEFINE Eq(g) == g = [i \in 0 .. n |-> IF i = 0 THEN <<>> ELSE Listed(g[i - 1], f, s[i])]
           c == CHOOSE g : Eq(g)
<1>4. Eq(d)
  <2>1. d = [i \in 0 .. n |-> d[i]]
    OBVIOUS
  <2>2. \A i \in 0 .. n : d[i] = IF i = 0 THEN <<>> ELSE Listed(d[i - 1], f, s[i])
    BY <1>2, <1>3
  <2> QED
    BY <2>1, <2>2
<1>5. Eq(c)
  BY <1>4
<1> HIDE DEF step
<1>6. \A i \in 0 .. n : c[i] = d[i]
  <2> DEFINE T == {k \in Nat : k <= n => c[k] = d[k]}
  <2>1. 0 \in T
    <3> HIDE DEF c
    <3> QED
      BY <1>2, <1>5
  <2>2. ASSUME NEW k \in T  PROVE k + 1 \in T
    <3> SUFFICES ASSUME k + 1 <= n  PROVE c[k + 1] = d[k + 1]
      OBVIOUS
    <3>1. c[k + 1] = Listed(c[k], f, s[k + 1])
      <4> HIDE DEF c
      <4> QED
        BY <1>5
    <3> QED
      BY <1>3, <3>1
  <2>3. T = Nat
    <3> HIDE DEF T
    <3>1. T \subseteq Nat
      BY DEF T
    <3> QED
      BY <2>1, <2>2, <3>1, NaturalInduction
  <2> QED
    BY <2>3
<1>7. Found(f, s) = c[n]
  BY DEF Found
<1>8. Found(f, s) = d[n]
  <2>1. n \in 0 .. n
    OBVIOUS
  <2> HIDE DEF c, n
  <2> QED
    BY <1>6, <1>7, <2>1
<1> QED
  BY <1>2, <1>3, <1>8 DEF Traced

\* What Found lists is in V, without repetition.
LEMMA FoundDistinct ==
    ASSUME NEW f, NEW W, NEW s \in Seq(W), NEW V, \A x \in DOMAIN f : f[x] \in V
    PROVE  /\ Found(f, s) \in Seq(V)
           /\ \A i, j \in 1 .. Len(Found(f, s)) :
                 Found(f, s)[i] = Found(f, s)[j] => i = j
<1>1. PICK d \in [0 .. Len(s) -> Seq(V)] :
              /\ Found(f, s) = d[Len(s)]
              /\ d[0] = <<>>
              /\ \A i \in 1 .. Len(s) : d[i] = Listed(d[i - 1], f, s[i])
  <2>1. Traced(f, s, V)
    BY FoundSteps
  <2> QED
    BY <2>1 DEF Traced
<1> DEFINE Simple(q) == \A i, j \in 1 .. Len(q) : q[i] = q[j] => i = j
           T == {k \in Nat : k <= Len(s) => Simple(d[k])}
<1>2. 0 \in T
  BY <1>1
<1>3. ASSUME NEW k \in T  PROVE k + 1 \in T
  <2> SUFFICES ASSUME k + 1 <= Len(s)  PROVE Simple(d[k + 1])
    OBVIOUS
  <2>1. d[k] \in Seq(V) /\ Simple(d[k])
    OBVIOUS
  <2>2. k + 1 \in 1 .. Len(s) /\ (k + 1) - 1 = k
    OBVIOUS
  <2>3. d[k + 1] = Listed(d[k], f, s[k + 1])
    BY <1>1, <2>2
  <2>4. CASE s[k + 1] \notin DOMAIN f \/ Contains(d[k], f[s[k + 1]])
    BY <2>1, <2>3, <2>4 DEF Listed
  <2>5. CASE s[k + 1] \in DOMAIN f /\ ~Contains(d[k], f[s[k + 1]])
    <3>1. d[k + 1] = Append(d[k], f[s[k + 1]]) /\ f[s[k + 1]] \in V
      BY <2>3, <2>5 DEF Listed
    <3>2. \A i \in 1 .. Len(d[k]) : d[k][i] # f[s[k + 1]]
      BY <2>5 DEF Contains
    <3> QED
      BY <2>1, <3>1, <3>2
  <2> QED
    BY <2>4, <2>5
<1>4. T = Nat
  <2> HIDE DEF T
  <2>1. T \subseteq Nat
    BY DEF T
  <2> QED
    BY <1>2, <1>3, <2>1, NaturalInduction
<1>5. Len(s) \in T
  BY <1>4
<1> QED
  BY <1>1, <1>5

\* Reading on never takes back what a prefix gave.
LEMMA FoundPrefix ==
    ASSUME NEW f, NEW W, NEW s \in Seq(W), NEW t \in Seq(W), IsPrefix(s, t)
    PROVE  IsPrefix(Found(f, s), Found(f, t))
<1> DEFINE V == {f[x] : x \in DOMAIN f}
<1>0. \A x \in DOMAIN f : f[x] \in V
  OBVIOUS
<1> HIDE DEF V
<1>1. PICK d \in [0 .. Len(s) -> Seq(V)] :
              /\ Found(f, s) = d[Len(s)]
              /\ d[0] = <<>>
              /\ \A i \in 1 .. Len(s) : d[i] = Listed(d[i - 1], f, s[i])
  <2>1. Traced(f, s, V)
    BY <1>0, FoundSteps
  <2> QED
    BY <2>1 DEF Traced
<1>2. PICK e \in [0 .. Len(t) -> Seq(V)] :
              /\ Found(f, t) = e[Len(t)]
              /\ e[0] = <<>>
              /\ \A i \in 1 .. Len(t) : e[i] = Listed(e[i - 1], f, t[i])
  <2>1. Traced(f, t, V)
    BY <1>0, FoundSteps
  <2> QED
    BY <2>1 DEF Traced
<1>3. Len(s) \in Nat /\ Len(t) \in Nat /\ Len(s) <= Len(t)
  BY DEF IsPrefix
<1>4. \A i \in 1 .. Len(s) : s[i] = t[i]
  <2>1. SubSeq(s, 1, Len(s)) = SubSeq(t, 1, Len(s))
    BY DEF IsPrefix
  <2> QED
    BY <1>3, <2>1
<1>5. \A k \in Nat : k <= Len(s) => d[k] = e[k]
  <2> DEFINE T == {k \in Nat : k <= Len(s) => d[k] = e[k]}
  <2>1. 0 \in T
    BY <1>1, <1>2
  <2>2. ASSUME NEW k \in T  PROVE k + 1 \in T
    <3> SUFFICES ASSUME k + 1 <= Len(s)  PROVE d[k + 1] = e[k + 1]
      OBVIOUS
    <3>1. k + 1 \in 1 .. Len(s) /\ k + 1 \in 1 .. Len(t) /\ (k + 1) - 1 = k
      BY <1>3
    <3>2. d[k + 1] = Listed(d[k], f, s[k + 1]) /\ e[k + 1] = Listed(e[k], f, t[k + 1])
      BY <1>1, <1>2, <3>1
    <3>3. d[k] = e[k] /\ s[k + 1] = t[k + 1]
      BY <1>4, <3>1
    <3> QED
      BY <3>2, <3>3
  <2>3. T = Nat
    <3> HIDE DEF T
    <3>1. T \subseteq Nat
      BY DEF T
    <3> QED
      BY <2>1, <2>2, <3>1, NaturalInduction
  <2> QED
    BY <2>3
<1>6. \A k \in Nat : Len(s) + k <= Len(t) => IsPrefix(e[Len(s)], e[Len(s) + k])
  <2> DEFINE T == {k \in Nat : Len(s) + k <= Len(t) => IsPrefix(e[Len(s)], e[Len(s) + k])}
             p == e[Len(s)]
  <2>0. p \in Seq(V)
    BY <1>3
  <2>1. 0 \in T
    <3>1. Len(s) + 0 = Len(s)
      BY <1>3
    <3>2. IsPrefix(p, p)
      BY <2>0 DEF IsPrefix
    <3> QED
      BY <3>1, <3>2
  <2>2. ASSUME NEW k \in T  PROVE k + 1 \in T
    <3> DEFINE i == Len(s) + (k + 1)
    <3> SUFFICES ASSUME i <= Len(t)  PROVE IsPrefix(p, e[i])
      OBVIOUS
    <3>1. i \in 1 .. Len(t) /\ i - 1 = Len(s) + k /\ i - 1 \in 0 .. Len(t)
      BY <1>3
    <3>2. e[i] = Listed(e[i - 1], f, t[i])
      BY <1>2, <3>1
    <3>3. IsPrefix(p, e[i - 1]) /\ e[i - 1] \in Seq(V)
      BY <3>1
    <3>4. CASE t[i] \notin DOMAIN f \/ Contains(e[i - 1], f[t[i]])
      BY <3>2, <3>3, <3>4 DEF Listed
    <3>5. CASE t[i] \in DOMAIN f /\ ~Contains(e[i - 1], f[t[i]])
      <4>1. f[t[i]] \in V
        BY <1>0, <3>5
      <4>2. e[i] = Append(e[i - 1], f[t[i]])
        BY <3>2, <3>5 DEF Listed
      <4> HIDE DEF p, i
      <4> QED
        BY <2>0, <3>3, <4>1, <4>2 DEF IsPrefix
    <3> QED
      BY <3>4, <3>5
  <2>3. T = Nat
    <3> HIDE DEF T
    <3>1. T \subseteq Nat
      BY DEF T
    <3> QED
      BY <2>1, <2>2, <3>1, NaturalInduction
  <2> QED
    BY <2>3
<1>7. Len(t) - Len(s) \in Nat /\ Len(s) + (Len(t) - Len(s)) = Len(t)
  BY <1>3
<1>8. IsPrefix(e[Len(s)], e[Len(t)])
  <2>1. Len(s) + (Len(t) - Len(s)) <= Len(t)
    BY <1>3, <1>7
  <2>2. IsPrefix(e[Len(s)], e[Len(s) + (Len(t) - Len(s))])
    BY <1>6, <1>7, <2>1
  <2> QED
    BY <1>7, <2>2
<1>9. d[Len(s)] = e[Len(s)]
  BY <1>3, <1>5
<1> QED
  BY <1>1, <1>2, <1>8, <1>9
-----------------------------------------------------------------------------
\* predict answers what the models give without dropout.
LEMMA PredictStep == EnsembleInv /\ Predict => EnsembleInv'
<1> SUFFICES ASSUME EnsembleInv, Predict
             PROVE  EnsembleInv'
  OBVIOUS
<1>1. \A m \in Models : Mode(m, FALSE) = "eval"
  BY DEF Mode
<1>2. PICK noise \in {out} :
         LET raws == [m \in Models |-> IF Mode(m, FALSE) = "eval" THEN out[m] ELSE noise[m]]
             p    == Average(raws)
         IN  /\ answers' = answers \union
                   {[sentiment |-> Sentiments[ArgMax(p)],
                     confidence |-> <<p[ArgMax(p)], temperature>>]}
             /\ mode' = [m \in Models |-> Mode(m, m = 1)]
             /\ UNCHANGED <<temperature, out>>
  <2>1. ~\E m \in Models : Mode(m, FALSE) = "train"
    BY <1>1
  <2> QED
    BY <2>1 DEF Predict
<1>3. [m \in Models |-> IF Mode(m, FALSE) = "eval" THEN out[m] ELSE noise[m]] = out
  <2>1. out = [m \in Models |-> out[m]]
    BY DEF EnsembleInv
  <2> QED
    BY <1>1, <2>1
<1>4. answers' = answers \union {Answer(out, temperature)}
  BY <1>2, <1>3 DEF Answer
<1>5. out' = out /\ temperature' = temperature
  BY <1>2
<1>6. mode' \in [Models -> {"train", "eval"}]
  BY <1>2 DEF Mode
<1> QED
  BY <1>4, <1>5, <1>6 DEF EnsembleInv

\* A learned temperature touches no earlier answer.
LEMMA CalibrateStep == EnsembleInv /\ CalibrateTemperature => EnsembleInv'
BY DEF EnsembleInv, CalibrateTemperature

\* What extract leaves, whichever of the pipelines fail.
LEMMA ExtractStep ==
    ASSUME FeaturesInv, NEW headline, NEW body, Extract(headline, body)
    PROVE  /\ FeaturesInv'
           /\ last' # <<>>
           /\ last'.headline = headline
           /\ last'.tickers = Tickers(headline \o body)
           /\ last'.sectors = Sectors(last'.tickers)
<1>1. PICK n \in IF headline = <<>> THEN NotCalled(ner) ELSE Outcomes(ner),
           z \in IF KeywordImpact(headline) # {} THEN NotCalled(zsc) ELSE Outcomes(zsc) :
         /\ faults + n.fault + z.fault <= MaxFaults
         /\ faults' = faults + n.fault + z.fault
         /\ ner' = n.state /\ zsc' = z.state
         /\ \E impact \in Impacts(headline, z.ok) :
               LET words == headline \o body
               IN  /\ last' = [headline |-> headline, entities |-> n.ok,
                               tickers |-> Tickers(words),
                               sectors |-> Sectors(Tickers(words)),
                               isForwardLooking |-> Some(words, ForwardLooking),
                               hasNegation |-> Some(words, Negations),
                               hedge |-> <<HedgeCount(words), Len(words)>>,
                               impact |-> impact]
                   /\ unknown' = unknown + IF impact = "unknown" THEN 1 ELSE 0
  BY DEF Extract
<1>2. n.fault \in 0 .. 1 /\ n.state \in {ner, "loaded"}
  BY <1>1 DEF NotCalled, Outcomes
<1>3. z.fault \in 0 .. 1 /\ z.state \in {zsc, "loaded"}
  BY <1>1 DEF NotCalled, Outcomes
<1>4. PICK impact \in Impacts(headline, z.ok) :
         /\ last'.headline = headline /\ last'.impact = impact /\ last' # <<>>
         /\ last'.tickers = Tickers(headline \o body)
         /\ last'.sectors = Sectors(last'.tickers)
         /\ unknown' = unknown + IF impact = "unknown" THEN 1 ELSE 0
  BY <1>1
<1>5. impact = "unknown" => KeywordImpact(headline) = {} /\ z.fault = 1
  <2> SUFFICES ASSUME impact = "unknown"
               PROVE  KeywordImpact(headline) = {} /\ z.fault = 1
    OBVIOUS
  <2>1. KeywordImpact(headline) = {}
    BY <1>4 DEF Impacts, KeywordImpact
  <2>2. ~z.ok
    BY <1>4, <2>1 DEF Impacts
  <2> QED
    BY <1>1, <2>1, <2>2 DEF Outcomes
<1>6. faults' \in 0 .. MaxFaults /\ unknown' \in Nat /\ unknown' <= faults'
  BY <1>1, <1>2, <1>3, <1>4, <1>5, FaultAssumption DEF FeaturesInv, UnknownOnlyByFault
<1>7. last'.impact = "unknown" => KeywordImpact(last'.headline) = {}
  BY <1>4, <1>5
<1>8. {ner', zsc'} \subseteq {"none", "loaded"}
  BY <1>1, <1>2, <1>3 DEF FeaturesInv
<1> QED
  BY <1>4, <1>6, <1>7, <1>8 DEF FeaturesInv, UnknownOnlyByFault, KeywordImpact, Some
-----------------------------------------------------------------------------
\* Every step preserves the inductive invariant.
LEMMA NextIndInv == IndInv /\ [Next]_vars => IndInv'
<1> SUFFICES ASSUME IndInv, [Next]_vars
             PROVE  IndInv'
  OBVIOUS
<1> USE DEF IndInv
<1>1. CASE ProcessArticle
  <2>1. PICK t \in texts : Extract(t[1], t[2])
    BY <1>1 DEF ProcessArticle
  <2>2. EnsembleInv'
    BY <1>1, PredictStep DEF ProcessArticle
  <2>3. texts' = texts
    BY <1>1 DEF ProcessArticle
  <2>4. /\ FeaturesInv'
        /\ last'.headline = t[1]
        /\ last'.tickers = Tickers(t[1] \o t[2])
        /\ last'.sectors = Sectors(last'.tickers)
    BY <2>1, ExtractStep
  <2> QED
    BY <2>2, <2>3, <2>4 DEF LastIsOfText
<1>2. CASE Analyse
  <2>1. EnsembleInv'
    BY <1>2, PredictStep DEF Analyse
  <2>2. UNCHANGED <<ner, zsc, faults, unknown, last, texts>>
    BY <1>2 DEF Analyse, featureVars
  <2> QED
    BY <2>1, <2>2 DEF FeaturesInv, LastIsOfText, UnknownOnlyByFault
<1>3. CASE Calibrate
  <2>1. EnsembleInv'
    BY <1>3, CalibrateStep DEF Calibrate
  <2>2. UNCHANGED <<ner, zsc, faults, unknown, last, texts>>
    BY <1>3 DEF Calibrate, featureVars
  <2> QED
    BY <2>1, <2>2 DEF FeaturesInv, LastIsOfText, UnknownOnlyByFault
<1>4. CASE UNCHANGED vars
  <2>1. UNCHANGED <<mode, temperature, out, answers, ner, zsc, faults, unknown, last, texts>>
    BY <1>4 DEF vars, ensembleVars, featureVars
  <2> QED
    BY <2>1 DEF EnsembleInv, FeaturesInv, LastIsOfText, UnknownOnlyByFault
<1> QED
  BY <1>1, <1>2, <1>3, <1>4 DEF Next

\* The invariant holds before the first article.
LEMMA InitIndInv == Init => IndInv
<1> SUFFICES ASSUME Init
             PROVE  IndInv
  OBVIOUS
<1>1. PICK w \in Workloads : EnsembleInit(w.out) /\ texts = w.texts
  BY DEF Init
<1>2. EnsembleInv
  BY <1>1, WorkloadAssumption DEF EnsembleInit, EnsembleInv
<1>3. FeaturesInv /\ LastIsOfText
  BY FaultAssumption DEF Init, FeaturesInit, FeaturesInv, UnknownOnlyByFault, LastIsOfText
<1> QED
  BY <1>1, <1>2, <1>3, WorkloadAssumption DEF IndInv

\* Whatever the texts, the models and the failures: the inductive invariant.
THEOREM Invariance == Spec => []IndInv
BY InitIndInv, NextIndInv, PTL DEF Spec
-----------------------------------------------------------------------------
\* The same text always gets the same class, and the same confidence at the
\* same temperature (SentimentEnsemble.predict after any number of calls).
THEOREM RepeatableHolds == Spec => []Repeatable
<1>1. IndInv => Repeatable
  <2> SUFFICES ASSUME IndInv, NEW a \in answers, NEW b \in answers
               PROVE  /\ a.sentiment = b.sentiment
                      /\ a.confidence[2] = b.confidence[2] => a = b
    BY DEF Repeatable
  <2>1. PICK t \in Temperatures : a = Answer(out, t)
    BY DEF IndInv, EnsembleInv
  <2>2. PICK u \in Temperatures : b = Answer(out, u)
    BY DEF IndInv, EnsembleInv
  <2> QED
    BY <2>1, <2>2 DEF Answer
<1> QED
  BY <1>1, Invariance, PTL

\* An unknown impact costs a failure of a pipeline each
\* (_classify_market_impact and the lazy loading of the pipelines).
THEOREM UnknownOnlyByFaultHolds == Spec => []UnknownOnlyByFault
<1>1. IndInv => UnknownOnlyByFault
  BY DEF IndInv, FeaturesInv
<1> QED
  BY <1>1, Invariance, PTL

\* A larger factor makes a larger product.
LEMMA Products ==
    ASSUME NEW w \in Nat, NEW x \in Nat, NEW y \in Nat, y < x
    PROVE  /\ w * x \in Nat /\ w * y \in Nat
           /\ w * y <= w * x
           /\ w > 0 => w * y < w * x
<1>1. w * x = w * y + w * (x - y)
  OBVIOUS
<1>2. w * (x - y) >= 0 /\ (w > 0 => w * (x - y) > 0)
  OBVIOUS
<1> QED
  BY <1>1, <1>2

\* The label a model puts first gives its probability to its class, and no
\* other class of the model gets as much.
LEMMA FirstRow ==
    ASSUME NEW m \in Models, NEW raw \in RawRows, NEW c \in 1 .. 3, NEW i \in 1 .. 3,
           \A k \in 1 .. 3 \ {i} : raw[k] < raw[i],
           LabelMaps[m][RawLabels[m][i]] = Sentiments[c]
    PROVE  /\ Row(m, raw) \in [1 .. 3 -> Nat]
           /\ \A d \in 1 .. 3 \ {c} : Row(m, raw)[d] < Row(m, raw)[c]
<1> DEFINE I(d) == {k \in 1 .. 3 : Canonical(m, k) = Sentiments[d]}
<1>1. \A k \in 1 .. 3 : raw[k] \in Nat
  BY GranuleAssumption DEF RawRows
<1>2. \A k \in 1 .. 3 : Canonical(m, k) = LabelMaps[m][RawLabels[m][k]]
  BY LabelAssumption DEF Canonical
<1>3. \A k \in 1 .. 3 \ {i} : Canonical(m, k) # Canonical(m, i)
  BY <1>2, LabelAssumption
<1>4. I(c) = {i}
  BY <1>2, <1>3
<1>5. \A d \in 1 .. 3 \ {c} : i \notin I(d)
  BY <1>2 DEF Sentiments
<1>6. ASSUME NEW d \in 1 .. 3, NEW J \in SUBSET (1 .. 3), J # {}
      PROVE  (CHOOSE k \in J : \A j \in J : j <= k) \in J
  <2>1. CASE 3 \in J
    BY <2>1, \A j \in J : j <= 3
  <2>2. CASE 3 \notin J /\ 2 \in J
    BY <2>2, \A j \in J : j <= 2
  <2>3. CASE 3 \notin J /\ 2 \notin J
    <3>1. \A j \in J : j = 1
      BY <2>3
    <3>2. PICK j \in J : TRUE
      BY <1>6
    <3>3. j \in J /\ \A k \in J : k <= j
      BY <3>1
    <3> QED
      BY <3>3
  <2> QED
    BY <2>1, <2>2, <2>3
<1>7. \A d \in 1 .. 3 :
         Row(m, raw)[d] = IF I(d) = {} THEN 0 ELSE raw[CHOOSE k \in I(d) : \A j \in I(d) : j <= k]
  BY DEF Row
<1>8. Row(m, raw)[c] = raw[i]
  <2>1. (CHOOSE k \in I(c) : \A j \in I(c) : j <= k) = i
    BY <1>4
  <2> QED
    BY <1>4, <1>7, <2>1
<1>9. \A d \in 1 .. 3 : \/ Row(m, raw)[d] = 0
                         \/ \E k \in I(d) : Row(m, raw)[d] = raw[k]
  <2> SUFFICES ASSUME NEW d \in 1 .. 3, I(d) # {}
               PROVE  \E k \in I(d) : Row(m, raw)[d] = raw[k]
    BY <1>7
  <2> DEFINE J == I(d)
  <2>1. J \in SUBSET (1 .. 3)
    OBVIOUS
  <2>2. Row(m, raw)[d] = raw[CHOOSE k \in J : \A j \in J : j <= k]
    BY <1>7
  <2> HIDE DEF J
  <2>3. (CHOOSE k \in J : \A j \in J : j <= k) \in J
    BY <1>6, <2>1 DEF J
  <2> QED
    BY <2>2, <2>3 DEF J
<1>10. \A d \in 1 .. 3 \ {c} : Row(m, raw)[d] < Row(m, raw)[c]
  <2> SUFFICES ASSUME NEW d \in 1 .. 3 \ {c}  PROVE Row(m, raw)[d] < raw[i]
    BY <1>8
  <2>1. PICK k \in 1 .. 3 \ {i} : raw[k] < raw[i]
    OBVIOUS
  <2>2. raw[i] > 0
    BY <1>1, <2>1
  <2> QED
    BY <1>5, <1>9, <2>2
<1>11. Row(m, raw) \in [1 .. 3 -> Nat]
  <2>1. \A d \in 1 .. 3 : Row(m, raw)[d] \in Nat
    BY <1>1, <1>9
  <2>2. Row(m, raw) = [d \in 1 .. 3 |-> Row(m, raw)[d]]
    BY DEF Row
  <2> QED
    BY <2>1, <2>2
<1> QED
  BY <1>10, <1>11

\* When every model puts a class first, so does the weighted average.
LEMMA AverageFirst ==
    ASSUME NEW raws \in [Models -> RawRows], NEW c \in 1 .. 3,
           \A m \in Models : \E i \in 1 .. 3 :
              /\ \A k \in 1 .. 3 \ {i} : raws[m][k] < raws[m][i]
              /\ LabelMaps[m][RawLabels[m][i]] = Sentiments[c]
    PROVE  ArgMax(Average(raws)) = c
<1> DEFINE R(m) == Row(m, raws[m])
           x(m) == Weights[m] * R(m)[c]
           y(m, d) == Weights[m] * R(m)[d]
           P == Average(raws)
<1>1. ASSUME NEW m \in Models
      PROVE  /\ R(m) \in [1 .. 3 -> Nat]
             /\ \A d \in 1 .. 3 \ {c} : R(m)[d] < R(m)[c]
  <2>1. PICK i \in 1 .. 3 : /\ \A k \in 1 .. 3 \ {i} : raws[m][k] < raws[m][i]
                            /\ LabelMaps[m][RawLabels[m][i]] = Sentiments[c]
    OBVIOUS
  <2> QED
    BY <2>1, FirstRow
<1>2. ASSUME NEW m \in Models, NEW d \in 1 .. 3 \ {c}
      PROVE  /\ x(m) \in Nat /\ y(m, d) \in Nat
             /\ y(m, d) <= x(m)
             /\ Weights[m] > 0 => y(m, d) < x(m)
  <2>1. Weights[m] \in Nat /\ R(m)[c] \in Nat /\ R(m)[d] \in Nat /\ R(m)[d] < R(m)[c]
    BY <1>1, WeightAssumption
  <2> HIDE DEF R
  <2> QED
    BY <2>1, Products
<1>3. ASSUME NEW d \in 1 .. 3 \ {c}  PROVE P[d] < P[c] /\ ~(P[c] < P[d]) /\ P[c] # P[d]
  <2>1. P[d] = y(1, d) + y(2, d) + y(3, d) /\ P[c] = x(1) + x(2) + x(3)
    BY DEF Average
  <2> HIDE DEF x, y, P
  <2>2. 1 \in Models /\ 2 \in Models /\ 3 \in Models
    BY WeightAssumption
  <2>3. /\ x(1) \in Nat /\ x(2) \in Nat /\ x(3) \in Nat
        /\ y(1, d) \in Nat /\ y(2, d) \in Nat /\ y(3, d) \in Nat
        /\ y(1, d) <= x(1) /\ y(2, d) <= x(2) /\ y(3, d) <= x(3)
    BY <1>2, <2>2
  <2>4. y(1, d) < x(1) \/ y(2, d) < x(2) \/ y(3, d) < x(3)
    <3>1. PICK m \in Models : Weights[m] > 0
      BY WeightAssumption
    <3>2. y(m, d) < x(m)
      BY <1>2, <3>1
    <3> QED
      BY <3>2, WeightAssumption
  <2> QED
    BY <2>1, <2>3, <2>4
<1> HIDE DEF P
<1>4. ArgMax(P) = c
  BY <1>3 DEF ArgMax
<1> QED
  BY <1>4 DEF P

\* What all models put first is the answer, whatever the names and the order
\* of their labels (_LABEL_MAPS, the weighted average and its argmax).
THEOREM UnanimityDecidesHolds == Spec => []UnanimityDecides
<1>1. IndInv => UnanimityDecides
  <2> SUFFICES ASSUME IndInv, NEW c \in 1 .. 3, NEW a \in answers,
                      \A m \in Models : \E l \in RawFirst(m) : LabelMaps[m][l] = Sentiments[c]
               PROVE  a.sentiment = Sentiments[c]
    BY DEF UnanimityDecides
  <2>1. ASSUME NEW m \in Models
        PROVE  \E i \in 1 .. 3 : /\ \A k \in 1 .. 3 \ {i} : out[m][k] < out[m][i]
                                 /\ LabelMaps[m][RawLabels[m][i]] = Sentiments[c]
    BY DEF RawFirst
  <2>2. out \in [Models -> RawRows]
    BY DEF IndInv, EnsembleInv
  <2>3. ArgMax(Average(out)) = c
    BY <2>1, <2>2, AverageFirst
  <2>4. PICK t \in Temperatures : a = Answer(out, t)
    BY DEF IndInv, EnsembleInv
  <2> QED
    BY <2>3, <2>4 DEF Answer
<1> QED
  BY <1>1, Invariance, PTL
-----------------------------------------------------------------------------
\* A sequence that lists nothing twice has as many elements as places.
LEMMA PlacesOfSimple ==
    ASSUME NEW V, NEW q \in Seq(V),
           \A i, j \in 1 .. Len(q) : q[i] = q[j] => i = j
    PROVE  Cardinality(ToSet(q)) = Len(q)
<1> DEFINE D == 1 .. Len(q)
           g == [i \in D |-> q[i]]
<1>1. g \in Bijection(D, ToSet(q))
  BY DEF ToSet, Bijection, Injection, Surjection, IsInjective
<1>2. IsFiniteSet(D) /\ Cardinality(D) = Len(q)
  <2> DEFINE n == Len(q)
  <2>1. n \in Nat
    OBVIOUS
  <2> HIDE DEF n
  <2>2. IsFiniteSet(1 .. n) /\ Cardinality(1 .. n) = IF 1 > n THEN 0 ELSE n - 1 + 1
    BY <2>1, FS_Interval
  <2>3. IsFiniteSet(1 .. n) /\ Cardinality(1 .. n) = n
    BY <2>1, <2>2
  <2> QED
    BY <2>3 DEF n
<1>3. Cardinality(ToSet(q)) = Cardinality(D)
  <2>1. ExistsBijection(D, ToSet(q))
    BY <1>1 DEF ExistsBijection
  <2> HIDE DEF D
  <2> QED
    BY <1>2, <2>1, FS_Bijection
<1> QED
  BY <1>2, <1>3

LEMMA ConcatPrefix ==
    ASSUME NEW V, NEW h \in Seq(V), NEW b \in Seq(V)
    PROVE  h \o b \in Seq(V) /\ IsPrefix(h, h \o b)
<1> DEFINE w == h \o b
           n == Len(h)
<1>1. w \in Seq(V) /\ n \in Nat /\ n <= Len(w) /\ \A i \in 1 .. n : w[i] = h[i]
  OBVIOUS
<1> HIDE DEF w, n
<1>2. SubSeq(w, 1, n) \in Seq(V) /\ Len(SubSeq(w, 1, n)) = n
  BY <1>1
<1>3. SubSeq(h, 1, n) = SubSeq(w, 1, n)
  BY <1>1 DEF n
<1> QED
  BY <1>1, <1>3 DEF IsPrefix, w, n

\* Reading on never takes back what the headline gave, and nothing is listed
\* twice (dict.fromkeys in extract, over headline and body).
THEOREM HeadlineTickersFirstHolds == Spec => []HeadlineTickersFirst
<1>1. IndInv => HeadlineTickersFirst
  <2> SUFFICES ASSUME IndInv, last # <<>>
               PROVE  LET own == Tickers(last.headline)
                      IN  /\ IsPrefix(own, last.tickers)
                          /\ IsPrefix(Sectors(own), last.sectors)
                          /\ Cardinality(ToSet(last.tickers)) = Len(last.tickers)
                          /\ Cardinality(ToSet(last.sectors)) = Len(last.sectors)
    BY DEF HeadlineTickersFirst
  <2>1. PICK t \in texts : /\ last.headline = t[1]
                           /\ last.tickers = Tickers(t[1] \o t[2])
                           /\ last.sectors = Sectors(last.tickers)
    BY DEF IndInv, LastIsOfText
  <2> DEFINE h == t[1]
             w == h \o t[2]
             f == [x \in TickerWords |-> TickerIn[x]]
             V == {f[x] : x \in DOMAIN f}
             S == {SectorOf[x] : x \in DOMAIN SectorOf}
  <2>2. h \in Seq(STRING) /\ w \in Seq(STRING) /\ IsPrefix(h, w)
    <3>1. h \in Seq(STRING) /\ t[2] \in Seq(STRING)
      BY DEF IndInv
    <3> QED
      BY <3>1, ConcatPrefix
  <2>3. (\A x \in DOMAIN f : f[x] \in V) /\ (\A x \in DOMAIN SectorOf : SectorOf[x] \in S)
    OBVIOUS
  <2> HIDE DEF h, w, f, V, S
  <2>4. IsPrefix(Found(f, h), Found(f, w))
    BY <2>2, FoundPrefix
  <2>5. Found(f, h) \in Seq(V) /\ Found(f, w) \in Seq(V)
    BY <2>2, <2>3, FoundDistinct
  <2>6. IsPrefix(Found(SectorOf, Found(f, h)), Found(SectorOf, Found(f, w)))
    BY <2>4, <2>5, FoundPrefix
  <2>7. Cardinality(ToSet(Found(f, w))) = Len(Found(f, w))
    <3>1. \A i, j \in 1 .. Len(Found(f, w)) : Found(f, w)[i] = Found(f, w)[j] => i = j
      BY <2>2, <2>3, FoundDistinct
    <3> QED
      BY <2>5, <3>1, PlacesOfSimple
  <2>8. LET q == Found(SectorOf, Found(f, w)) IN Cardinality(ToSet(q)) = Len(q)
    <3> DEFINE q == Found(SectorOf, Found(f, w))
    <3>1. q \in Seq(S) /\ \A i, j \in 1 .. Len(q) : q[i] = q[j] => i = j
      BY <2>3, <2>5, FoundDistinct
    <3> HIDE DEF q
    <3> QED
      BY <3>1, PlacesOfSimple DEF q
  <2>9. /\ Tickers(last.headline) = Found(f, h) /\ last.tickers = Found(f, w)
        /\ last.sectors = Found(SectorOf, Found(f, w))
        /\ Sectors(Found(f, h)) = Found(SectorOf, Found(f, h))
    BY <2>1 DEF Tickers, Sectors, f, h, w
  <2> QED
    BY <2>4, <2>6, <2>7, <2>8, <2>9
<1> QED
  BY <1>1, Invariance, PTL
-----------------------------------------------------------------------------
\* What a sum over the subsets of S is built from, one element after the other.
Pick(s) == CHOOSE x \in s : TRUE
Sums(g, f, S) ==
    g = [s \in SUBSET S |-> IF s = {} THEN 0 ELSE f[Pick(s)] + g[s \ {Pick(s)}]]

LEMMA PickRemoved ==
    ASSUME NEW s, IsFiniteSet(s), s # {}
    PROVE  /\ Pick(s) \in s /\ IsFiniteSet(s \ {Pick(s)})
           /\ Cardinality(s) \in Nat /\ Cardinality(s \ {Pick(s)}) \in Nat
           /\ Cardinality(s) = Cardinality(s \ {Pick(s)}) + 1
<1>1. Pick(s) \in s
  BY DEF Pick
<1>2. /\ IsFiniteSet(s \ {Pick(s)})
      /\ Cardinality(s \ {Pick(s)}) = Cardinality(s) - 1
  BY <1>1, FS_RemoveElement
<1>3. Cardinality(s) \in Nat /\ Cardinality(s \ {Pick(s)}) \in Nat
  BY <1>2, FS_CardinalityType
<1> QED
  BY <1>1, <1>2, <1>3

\* Two ways to add up the same numbers agree.
LEMMA SumsAgree ==
    ASSUME NEW f, NEW A, NEW B, NEW g, NEW h, Sums(g, f, A), Sums(h, f, B),
           \A x \in A : f[x] \in Int,
           NEW s \in SUBSET A, s \in SUBSET B, IsFiniteSet(s)
    PROVE  g[s] = h[s] /\ g[s] \in Int
<1> DEFINE Same(k) == \A r \in SUBSET s : Cardinality(r) = k => g[r] = h[r] /\ g[r] \in Int
           T == {k \in Nat : Same(k)}
<1>1. ASSUME NEW r \in SUBSET s
      PROVE  /\ g[r] = IF r = {} THEN 0 ELSE f[Pick(r)] + g[r \ {Pick(r)}]
             /\ h[r] = IF r = {} THEN 0 ELSE f[Pick(r)] + h[r \ {Pick(r)}]
  <2>1. r \in SUBSET A /\ r \in SUBSET B
    OBVIOUS
  <2>2. g[r] = IF r = {} THEN 0 ELSE f[Pick(r)] + g[r \ {Pick(r)}]
    BY <2>1 DEF Sums
  <2>3. h[r] = IF r = {} THEN 0 ELSE f[Pick(r)] + h[r \ {Pick(r)}]
    BY <2>1 DEF Sums
  <2> QED
    BY <2>2, <2>3
<1>2. \A r \in SUBSET s : IsFiniteSet(r)
  BY FS_Subset
<1>3. Same(0)
  <2> SUFFICES ASSUME NEW r \in SUBSET s, Cardinality(r) = 0
               PROVE  g[r] = h[r] /\ g[r] \in Int
    OBVIOUS
  <2>1. r = {}
    BY <1>2, FS_EmptySet
  <2>2. g[r] = 0
    BY <1>1, <2>1
  <2>3. h[r] = 0
    BY <1>1, <2>1
  <2> QED
    BY <2>2, <2>3
<1>4. ASSUME NEW k \in Nat, Same(k)  PROVE Same(k + 1)
  <2> SUFFICES ASSUME NEW r \in SUBSET s, Cardinality(r) = k + 1
               PROVE  g[r] = h[r] /\ g[r] \in Int
    OBVIOUS
  <2>1. r # {}
    BY <1>2, FS_EmptySet
  <2> DEFINE q == r \ {Pick(r)}
  <2>2. Pick(r) \in r /\ Cardinality(r) = Cardinality(q) + 1 /\ Cardinality(q) \in Nat
    BY <1>2, <2>1, PickRemoved
  <2>3. Cardinality(q) = k
    BY <2>2
  <2>4. q \in SUBSET s
    OBVIOUS
  <2>5. g[q] = h[q] /\ g[q] \in Int
    BY <1>4, <2>3, <2>4
  <2>6. f[Pick(r)] \in Int
    BY <2>2
  <2>7. g[r] = f[Pick(r)] + g[q] /\ h[r] = f[Pick(r)] + h[q]
    BY <1>1, <2>1
  <2> HIDE DEF q
  <2> QED
    BY <2>5, <2>6, <2>7
<1>5. T = Nat
  <2>1. 0 \in T /\ (\A k \in T : k + 1 \in T) /\ T \subseteq Nat
    <3> HIDE DEF Same
    <3> QED
      BY <1>3, <1>4
  <2> HIDE DEF T
  <2> QED
    BY <2>1, NaturalInduction
<1>6. Cardinality(s) \in T
  BY <1>5, FS_CardinalityType
<1> QED
  BY <1>6

\* The numbers of a finite set have a sum.
LEMMA SumsExist ==
    ASSUME NEW f, NEW S, IsFiniteSet(S)
    PROVE  \E g : Sums(g, f, S)
<1> DEFINE Next1(h) == [s \in SUBSET S |-> IF s = {} THEN 0 ELSE f[Pick(s)] + h[s \ {Pick(s)}]]
           Good(h, k) == /\ h = [s \in SUBSET S |-> h[s]]
                         /\ \A s \in SUBSET S : Cardinality(s) <= k => h[s] = Next1(h)[s]
           T == {k \in Nat : \E h : Good(h, k)}
<1>1. \A s \in SUBSET S : /\ IsFiniteSet(s) /\ Cardinality(s) \in Nat
                          /\ Cardinality(s) <= Cardinality(S)
  BY FS_Subset, FS_CardinalityType
<1>2. Good([s \in SUBSET S |-> 0], 0)
  <2>1. ASSUME NEW s \in SUBSET S, Cardinality(s) <= 0  PROVE s = {}
    <3>1. Cardinality(s) = 0
      BY <1>1, <2>1
    <3> QED
      BY <1>1, <3>1, FS_EmptySet
  <2> QED
    BY <2>1
<1>3. ASSUME NEW k \in Nat, NEW h, Good(h, k)  PROVE Good(Next1(h), k + 1)
  <2> DEFINE g == Next1(h)
  <2>1. \A s \in SUBSET S : Cardinality(s) <= k => g[s] = h[s]
    BY <1>3
  <2>2. ASSUME NEW s \in SUBSET S, Cardinality(s) <= k + 1  PROVE g[s] = Next1(g)[s]
    <3>1. CASE s = {}
      BY <3>1
    <3>2. CASE s # {}
      <4> DEFINE q == s \ {Pick(s)}
      <4>1. Cardinality(s) = Cardinality(q) + 1 /\ Cardinality(q) \in Nat
        BY <1>1, <3>2, PickRemoved
      <4>2. q \in SUBSET S /\ Cardinality(q) <= k
        BY <2>2, <4>1
      <4>3. g[q] = h[q]
        BY <2>1, <4>2
      <4>4. g[s] = f[Pick(s)] + h[q] /\ Next1(g)[s] = f[Pick(s)] + g[q]
        BY <3>2
      <4> QED
        BY <4>3, <4>4
    <3> QED
      BY <3>1, <3>2
  <2>3. g = [s \in SUBSET S |-> g[s]]
    OBVIOUS
  <2> QED
    BY <2>2, <2>3
<1>4. T = Nat
  <2> HIDE DEF Good
  <2>1. 0 \in T
    BY <1>2
  <2>2. \A k \in T : k + 1 \in T
    <3> HIDE DEF Next1
    <3> QED
      BY <1>3
  <2>3. T \subseteq Nat
    OBVIOUS
  <2> HIDE DEF T
  <2> QED
    BY <2>1, <2>2, <2>3, NaturalInduction
<1>5. PICK h : Good(h, Cardinality(S))
  BY <1>4, FS_CardinalityType
<1>6. h = [s \in SUBSET S |-> IF s = {} THEN 0 ELSE f[Pick(s)] + h[s \ {Pick(s)}]]
  <2>1. \A s \in SUBSET S : h[s] = Next1(h)[s]
    BY <1>1, <1>5
  <2> QED
    BY <1>5, <2>1
<1> QED
  BY <1>6 DEF Sums

\* A sum over a finite set is that of its subsets.
SumOver(f, S) == SumFunctionOnSet(f, S)
Summed(f, S) ==
    \E g : Sums(g, f, S) /\ \A s \in SUBSET S : SumOver(f, s) = g[s] /\ g[s] \in Int

LEMMA SumTraced ==
    ASSUME NEW f, NEW S, IsFiniteSet(S), \A x \in S : f[x] \in Int
    PROVE  Summed(f, S)
<1>1. ASSUME NEW s, IsFiniteSet(s)
      PROVE  \E g : Sums(g, f, s) /\ SumOver(f, s) = g[s]
  <2>1. SumFunctionOnSet(f, s) = (CHOOSE g : Sums(g, f, s))[s]
    BY DEF SumFunctionOnSet, FoldFunctionOnSet, MapThenFoldSet, Sums, Pick
  <2>2. \E g : Sums(g, f, s)
    BY <1>1, SumsExist
  <2> QED
    BY <2>1, <2>2 DEF SumOver
<1>2. PICK g : Sums(g, f, S)
  BY SumsExist
<1>3. ASSUME NEW s \in SUBSET S  PROVE SumOver(f, s) = g[s] /\ g[s] \in Int
  <2>1. IsFiniteSet(s)
    BY FS_Subset
  <2>2. PICK h : Sums(h, f, s) /\ SumOver(f, s) = h[s]
    BY <1>1, <2>1
  <2>3. g[s] = h[s] /\ g[s] \in Int
    BY <1>2, <2>1, <2>2, SumsAgree
  <2> QED
    BY <2>2, <2>3
<1> QED
  BY <1>2, <1>3 DEF Summed

LEMMA SumStep ==
    ASSUME NEW f, NEW S, IsFiniteSet(S), \A x \in S : f[x] \in Int
    PROVE  /\ SumOver(f, S) \in Int
           /\ S = {} => SumOver(f, S) = 0
           /\ S # {} => SumOver(f, S) = f[Pick(S)] + SumOver(f, S \ {Pick(S)})
<1>1. PICK g : Sums(g, f, S) /\ \A s \in SUBSET S : SumOver(f, s) = g[s] /\ g[s] \in Int
  <2>1. Summed(f, S)
    BY SumTraced
  <2> QED
    BY <2>1 DEF Summed
<1>2. S \in SUBSET S /\ S \ {Pick(S)} \in SUBSET S
  OBVIOUS
<1>3. g[S] = IF S = {} THEN 0 ELSE f[Pick(S)] + g[S \ {Pick(S)}]
  BY <1>1, <1>2 DEF Sums
<1>4. SumOver(f, S) = g[S] /\ g[S] \in Int /\ SumOver(f, S \ {Pick(S)}) = g[S \ {Pick(S)}]
  BY <1>1, <1>2
<1> QED
  BY <1>3, <1>4

\* Any element of a sum may be added last.
LEMMA SumRemove ==
    ASSUME NEW f, NEW S, IsFiniteSet(S), \A x \in S : f[x] \in Int, NEW x \in S
    PROVE  SumOver(f, S) = f[x] + SumOver(f, S \ {x})
<1> DEFINE Removes(k) == \A s \in SUBSET S : Cardinality(s) = k =>
                        \A y \in s : SumOver(f, s) = f[y] + SumOver(f, s \ {y})
           T == {k \in Nat : Removes(k)}
<1>1. \A s \in SUBSET S : IsFiniteSet(s) /\ SumOver(f, s) \in Int
  <2> SUFFICES ASSUME NEW s \in SUBSET S  PROVE IsFiniteSet(s) /\ SumOver(f, s) \in Int
    OBVIOUS
  <2>1. IsFiniteSet(s)
    BY FS_Subset
  <2> QED
    BY <2>1, SumStep
<1>2. Removes(0)
  BY <1>1, FS_EmptySet
<1>3. ASSUME NEW k \in Nat, Removes(k)  PROVE Removes(k + 1)
  <2> SUFFICES ASSUME NEW s \in SUBSET S, Cardinality(s) = k + 1, NEW y \in s
               PROVE  SumOver(f, s) = f[y] + SumOver(f, s \ {y})
    OBVIOUS
  <2> DEFINE p == Pick(s)
  <2>1. p \in s /\ Cardinality(s \ {p}) = k /\ Cardinality(s \ {y}) = k
    <3>1. /\ p \in s /\ Cardinality(s) = Cardinality(s \ {p}) + 1
          /\ Cardinality(s \ {p}) \in Nat
      BY <1>1, PickRemoved
    <3>2. Cardinality(s \ {y}) = Cardinality(s) - 1
      BY <1>1, FS_RemoveElement
    <3> QED
      BY <3>1, <3>2
  <2>2. SumOver(f, s) = f[p] + SumOver(f, s \ {p})
    <3>1. s # {} /\ IsFiniteSet(s) /\ \A z \in s : f[z] \in Int
      BY <1>1
    <3> QED
      BY <3>1, SumStep
  <2> HIDE DEF p
  <2>3. CASE y # p
    <3> DEFINE q == (s \ {p}) \ {y}
    <3>1. SumOver(f, s \ {p}) = f[y] + SumOver(f, q)
      <4>1. s \ {p} \in SUBSET S /\ y \in s \ {p}
        BY <2>3
      <4> QED
        BY <1>3, <2>1, <4>1
    <3>2. SumOver(f, s \ {y}) = f[p] + SumOver(f, q)
      <4>1. s \ {y} \in SUBSET S /\ p \in s \ {y}
        BY <2>1, <2>3
      <4>2. (s \ {y}) \ {p} = q
        OBVIOUS
      <4> HIDE DEF q
      <4> QED
        BY <1>3, <2>1, <4>1, <4>2
    <3>3. q \in SUBSET S /\ f[p] \in Int /\ f[y] \in Int
      BY <2>1
    <3>4. SumOver(f, q) \in Int
      BY <1>1, <3>3
    <3> HIDE DEF q
    <3> QED
      BY <2>2, <3>1, <3>2, <3>3, <3>4
  <2>4. CASE y = p
    BY <2>2, <2>4
  <2> QED
    BY <2>3, <2>4
<1>4. T = Nat
  <2>1. 0 \in T /\ (\A k \in T : k + 1 \in T) /\ T \subseteq Nat
    <3> HIDE DEF Removes
    <3> QED
      BY <1>2, <1>3
  <2> HIDE DEF T
  <2> QED
    BY <2>1, NaturalInduction
<1>5. Cardinality(S) \in T
  BY <1>4, FS_CardinalityType
<1> QED
  BY <1>5

\* The sum over two sets without a common element.
LEMMA SumUnion ==
    ASSUME NEW f, NEW A, NEW B, IsFiniteSet(A), IsFiniteSet(B), A \intersect B = {},
           \A x \in A \union B : f[x] \in Int
    PROVE  SumOver(f, A \union B) = SumOver(f, A) + SumOver(f, B)
<1> DEFINE Adds(k) == \A b \in SUBSET B : Cardinality(b) = k =>
                         SumOver(f, A \union b) = SumOver(f, A) + SumOver(f, b)
           T == {k \in Nat : Adds(k)}
<1>1. \A b \in SUBSET B : /\ IsFiniteSet(b) /\ IsFiniteSet(A \union b)
                          /\ SumOver(f, A \union b) \in Int /\ SumOver(f, b) \in Int
  <2> SUFFICES ASSUME NEW b \in SUBSET B
               PROVE  /\ IsFiniteSet(b) /\ IsFiniteSet(A \union b)
                      /\ SumOver(f, A \union b) \in Int /\ SumOver(f, b) \in Int
    OBVIOUS
  <2>1. IsFiniteSet(b)
    BY FS_Subset
  <2>2. IsFiniteSet(A \union b)
    BY <2>1, FS_Union
  <2>3. (\A x \in b : f[x] \in Int) /\ (\A x \in A \union b : f[x] \in Int)
    OBVIOUS
  <2> QED
    BY <2>1, <2>2, <2>3, SumStep
<1>2. SumOver(f, A) \in Int /\ SumOver(f, {}) = 0
  <2>1. SumOver(f, A) \in Int
    BY SumStep
  <2>2. IsFiniteSet({}) /\ \A x \in {} : f[x] \in Int
    BY FS_EmptySet
  <2>3. SumOver(f, {}) = 0
    BY <2>2, SumStep
  <2> QED
    BY <2>1, <2>3
<1>3. Adds(0)
  <2> SUFFICES ASSUME NEW b \in SUBSET B, Cardinality(b) = 0
               PROVE  SumOver(f, A \union b) = SumOver(f, A) + SumOver(f, b)
    OBVIOUS
  <2>1. b = {} /\ A \union b = A
    BY <1>1, FS_EmptySet
  <2> QED
    BY <1>2, <2>1
<1>4. ASSUME NEW k \in Nat, Adds(k)  PROVE Adds(k + 1)
  <2> SUFFICES ASSUME NEW b \in SUBSET B, Cardinality(b) = k + 1
               PROVE  SumOver(f, A \union b) = SumOver(f, A) + SumOver(f, b)
    OBVIOUS
  <2>1. b # {}
    BY FS_EmptySet
  <2> DEFINE y == Pick(b)
             c == b \ {y}
  <2>2. y \in b /\ Cardinality(b) = Cardinality(c) + 1 /\ Cardinality(c) \in Nat
    BY <1>1, <2>1, PickRemoved
  <2>3. c \in SUBSET B /\ Cardinality(c) = k
    BY <2>2
  <2>4. SumOver(f, A \union c) = SumOver(f, A) + SumOver(f, c)
    BY <1>4, <2>3
  <2> HIDE DEF y
  <2>5. SumOver(f, b) = f[y] + SumOver(f, c)
    <3>1. IsFiniteSet(b) /\ \A x \in b : f[x] \in Int
      BY <1>1
    <3> QED
      BY <2>2, <3>1, SumRemove
  <2>6. SumOver(f, A \union b) = f[y] + SumOver(f, A \union c)
    <3> DEFINE u == A \union b
    <3>1. IsFiniteSet(u) /\ (\A x \in u : f[x] \in Int) /\ y \in u
      BY <1>1, <2>2
    <3>2. u \ {y} = A \union c
      BY <2>2
    <3> HIDE DEF u, c
    <3>3. SumOver(f, u) = f[y] + SumOver(f, u \ {y})
      BY <3>1, SumRemove
    <3> QED
      BY <3>2, <3>3 DEF u
  <2>7. f[y] \in Int /\ SumOver(f, c) \in Int
    BY <1>1, <2>2, <2>3
  <2> HIDE DEF c
  <2> QED
    BY <1>2, <2>4, <2>5, <2>6, <2>7
<1>5. T = Nat
  <2>1. 0 \in T /\ (\A k \in T : k + 1 \in T) /\ T \subseteq Nat
    <3> HIDE DEF Adds
    <3> QED
      BY <1>3, <1>4
  <2> HIDE DEF T
  <2> QED
    BY <2>1, NaturalInduction
<1>6. Cardinality(B) \in T
  BY <1>5, FS_CardinalityType
<1> QED
  BY <1>6
-----------------------------------------------------------------------------
\* GapOf before the absolute value, for the samples in I, those in ok correct.
Off(conf, ok, I) == Scale * Cardinality(I \intersect ok) - SumOver(conf, I)

LEMMA OffUnion ==
    ASSUME NEW D, IsFiniteSet(D), NEW conf \in [D -> Int], NEW ok,
           NEW A \in SUBSET D, NEW B \in SUBSET D, A \intersect B = {}
    PROVE  /\ Off(conf, ok, A) \in Int /\ Off(conf, ok, B) \in Int
           /\ Off(conf, ok, A \union B) = Off(conf, ok, A) + Off(conf, ok, B)
           /\ Off(conf, ok, {}) = 0
<1> DEFINE a == A \intersect ok
           b == B \intersect ok
<1>1. /\ IsFiniteSet(A) /\ IsFiniteSet(B) /\ IsFiniteSet(a) /\ IsFiniteSet(b)
      /\ Cardinality(a) \in Nat /\ Cardinality(b) \in Nat
  <2>1. a \in SUBSET D /\ b \in SUBSET D
    OBVIOUS
  <2> HIDE DEF a, b
  <2> QED
    BY <2>1, FS_Subset, FS_CardinalityType
<1>2. (\A x \in A : conf[x] \in Int) /\ (\A x \in B : conf[x] \in Int)
  OBVIOUS
<1>3. SumOver(conf, A) \in Int /\ SumOver(conf, B) \in Int
  BY <1>1, <1>2, SumStep
<1>4. SumOver(conf, A \union B) = SumOver(conf, A) + SumOver(conf, B)
  <2>1. \A x \in A \union B : conf[x] \in Int
    OBVIOUS
  <2> QED
    BY <1>1, <2>1, SumUnion
<1>5. Cardinality((A \union B) \intersect ok) = Cardinality(a) + Cardinality(b)
  <2>1. (A \union B) \intersect ok = a \union b /\ a \intersect b = {}
    OBVIOUS
  <2> HIDE DEF a, b
  <2>2. Cardinality(a \union b) = Cardinality(a) + Cardinality(b) - Cardinality(a \intersect b)
    BY <1>1, FS_Union
  <2>3. Cardinality(a \intersect b) = 0
    BY <2>1, FS_EmptySet
  <2>4. Cardinality(a \union b) = Cardinality(a) + Cardinality(b)
    BY <1>1, <2>2, <2>3
  <2>5. Cardinality((A \union B) \intersect ok) = Cardinality(a \union b)
    BY <2>1
  <2> QED
    BY <2>4, <2>5
<1>6. Off(conf, ok, {}) = 0
  <2>1. SumOver(conf, {}) = 0
    <3>1. IsFiniteSet({}) /\ \A x \in {} : conf[x] \in Int
      BY FS_EmptySet
    <3> QED
      BY <3>1, SumStep
  <2>2. Cardinality({} \intersect ok) = 0
    <3>1. {} \intersect ok = {}
      OBVIOUS
    <3> QED
      BY <3>1, FS_EmptySet
  <2>3. Off(conf, ok, {}) = Scale * Cardinality({} \intersect ok) - SumOver(conf, {})
    BY DEF Off
  <2>4. Scale * 0 - 0 = 0
    BY ScaleAssumption
  <2> QED
    BY <2>1, <2>2, <2>3, <2>4
<1> HIDE DEF a, b
<1>7. Scale * (Cardinality(a) + Cardinality(b)) = Scale * Cardinality(a) + Scale * Cardinality(b)
      /\ Scale * Cardinality(a) \in Int /\ Scale * Cardinality(b) \in Int
  BY <1>1, ScaleAssumption
<1>8. /\ Off(conf, ok, A) = Scale * Cardinality(a) - SumOver(conf, A)
      /\ Off(conf, ok, B) = Scale * Cardinality(b) - SumOver(conf, B)
      /\ Off(conf, ok, A \union B) =
            Scale * (Cardinality(a) + Cardinality(b)) - (SumOver(conf, A) + SumOver(conf, B))
  BY <1>4, <1>5 DEF Off, a, b
<1> QED
  BY <1>3, <1>6, <1>7, <1>8

\* The gaps of n bins without common samples are at least that of their union.
Bins(M, n, D) ==
    /\ M \in [0 .. n - 1 -> SUBSET D]
    /\ \A i, j \in 0 .. n - 1 : i # j => M[i] \intersect M[j] = {}
GapShows(conf, ok, M, n) ==
    AbsInt(Off(conf, ok, UNION {M[j] : j \in 0 .. n - 1}))
       <= SumOver([j \in 0 .. n - 1 |-> AbsInt(Off(conf, ok, M[j]))], 0 .. n - 1)

LEMMA GapsOfBins ==
    ASSUME NEW D, IsFiniteSet(D), NEW conf \in [D -> Int], NEW ok, NEW n \in Nat,
           NEW M, Bins(M, n, D)
    PROVE  GapShows(conf, ok, M, n)
<1> DEFINE gap == [j \in 0 .. n - 1 |-> AbsInt(Off(conf, ok, M[j]))]
           U(k) == UNION {M[j] : j \in 0 .. k - 1}
           Bounded(k) == AbsInt(Off(conf, ok, U(k))) <= SumOver(gap, 0 .. k - 1)
           T == {k \in Nat : k <= n => Bounded(k)}
<1>0. /\ M \in [0 .. n - 1 -> SUBSET D]
      /\ \A i, j \in 0 .. n - 1 : i # j => M[i] \intersect M[j] = {}
  BY DEF Bins
<1>1. \A j \in 0 .. n - 1 : Off(conf, ok, M[j]) \in Int /\ gap[j] \in Int
  <2> SUFFICES ASSUME NEW j \in 0 .. n - 1
               PROVE  Off(conf, ok, M[j]) \in Int /\ gap[j] \in Int
    OBVIOUS
  <2>1. M[j] \in SUBSET D /\ {} \in SUBSET D /\ M[j] \intersect {} = {}
    BY <1>0
  <2>2. Off(conf, ok, M[j]) \in Int
    BY <2>1, OffUnion
  <2> QED
    BY <2>2 DEF AbsInt
<1>2. Bounded(0)
  <2>1. U(0) = {} /\ 0 .. 0 - 1 = {}
    OBVIOUS
  <2>2. Off(conf, ok, {}) = 0
    <3>1. {} \in SUBSET D /\ {} \intersect {} = {}
      OBVIOUS
    <3> QED
      BY <3>1, OffUnion
  <2>3. SumOver(gap, {}) = 0
    <3>1. IsFiniteSet({}) /\ \A x \in {} : gap[x] \in Int
      BY FS_EmptySet
    <3> QED
      BY <3>1, SumStep
  <2> HIDE DEF U, gap
  <2>4. Off(conf, ok, U(0)) = 0
    BY <2>1, <2>2
  <2>5. SumOver(gap, 0 .. 0 - 1) = 0
    BY <2>1, <2>3
  <2> QED
    BY <2>4, <2>5 DEF AbsInt
<1>3. ASSUME NEW k \in Nat, k + 1 <= n, Bounded(k)  PROVE Bounded(k + 1)
  <2>1. U(k + 1) = U(k) \union M[k]
    <3>1. 0 .. (k + 1) - 1 = (0 .. k - 1) \union {k}
      BY <1>3
    <3> QED
      BY <3>1
  <2>2. U(k) \intersect M[k] = {} /\ U(k) \in SUBSET D /\ M[k] \in SUBSET D
    BY <1>0, <1>3
  <2> HIDE DEF U
  <2>3. /\ Off(conf, ok, U(k)) \in Int /\ Off(conf, ok, M[k]) \in Int
        /\ Off(conf, ok, U(k + 1)) = Off(conf, ok, U(k)) + Off(conf, ok, M[k])
    <3> DEFINE A == U(k)
               B == M[k]
    <3>1. A \in SUBSET D /\ B \in SUBSET D /\ A \intersect B = {}
      BY <2>2
    <3>4. U(k + 1) = A \union B
      BY <2>1
    <3> HIDE DEF A, B, gap, Bounded
    <3>2. Off(conf, ok, A) \in Int /\ Off(conf, ok, B) \in Int
      BY <3>1, OffUnion
    <3>3. Off(conf, ok, A \union B) = Off(conf, ok, A) + Off(conf, ok, B)
      BY <3>1, OffUnion
    <3> QED
      BY <3>2, <3>3, <3>4 DEF A, B
  <2>4. SumOver(gap, 0 .. (k + 1) - 1) = gap[k] + SumOver(gap, 0 .. k - 1) /\ SumOver(gap, 0 .. k - 1) \in Int
    <3> DEFINE J == 0 .. (k + 1) - 1
               K == 0 .. k - 1
    <3>1. IsFiniteSet(J) /\ IsFiniteSet(K)
      BY FS_Interval
    <3>2. (\A x \in J : gap[x] \in Int) /\ (\A x \in K : gap[x] \in Int)
      <4>1. \A x \in J \union K : x \in 0 .. n - 1
        BY <1>3
      <4> HIDE DEF gap, J, K
      <4> QED
        BY <1>1, <4>1
    <3>3. k \in J /\ J \ {k} = K
      OBVIOUS
    <3> HIDE DEF J, K, gap
    <3>4. SumOver(gap, J) = gap[k] + SumOver(gap, J \ {k})
      BY <3>1, <3>2, <3>3, SumRemove
    <3>5. SumOver(gap, K) \in Int
      BY <3>1, <3>2, SumStep
    <3> QED
      BY <3>3, <3>4, <3>5 DEF J, K
  <2>5. gap[k] = AbsInt(Off(conf, ok, M[k]))
    BY <1>3
  <2> HIDE DEF gap
  <2> QED
    BY <1>3, <2>3, <2>4, <2>5 DEF AbsInt
<1>4. T = Nat
  <2>1. 0 \in T /\ T \subseteq Nat
    <3> HIDE DEF Bounded
    <3> QED
      BY <1>2
  <2>2. ASSUME NEW k \in T  PROVE k + 1 \in T
    <3> HIDE DEF Bounded
    <3> QED
      BY <1>3
  <2> HIDE DEF T
  <2> QED
    BY <2>1, <2>2, NaturalInduction
<1>5. n \in T
  BY <1>4
<1> QED
  BY <1>5 DEF GapShows

\* A confidence below 1 lies in one of the bins, and in one only.
LEMMA BinOfConfidence ==
    ASSUME NEW s, s.conf \in Nat
    PROVE  /\ s.conf < Scale => \E j \in 0 .. NBins - 1 : InBin(s, j)
           /\ \A i, j \in 0 .. NBins - 1 : InBin(s, i) /\ InBin(s, j) => i = j
<1> DEFINE n == s.conf * NBins
<1>1. n \in Nat /\ NBins \in Nat \ {0} /\ Scale \in Nat \ {0}
  BY NBinsAssumption, ScaleAssumption
<1>2. ASSUME NEW i \in Nat, NEW j \in Nat, i < j  PROVE (i + 1) * Scale <= j * Scale
  <2>1. PICK d \in Nat : j = (i + 1) + d
    <3>1. j - (i + 1) \in Nat /\ j = (i + 1) + (j - (i + 1))
      BY <1>2
    <3> QED
      BY <3>1
  <2>2. j * Scale = (i + 1) * Scale + d * Scale /\ d * Scale \in Nat /\ (i + 1) * Scale \in Nat
    BY <1>1, <2>1
  <2> QED
    BY <2>2
<1>3. ASSUME NEW i \in 0 .. NBins - 1, NEW j \in 0 .. NBins - 1, InBin(s, i), InBin(s, j), i < j
      PROVE  FALSE
  <2>1. (i + 1) * Scale <= j * Scale
    BY <1>2, <1>3
  <2>2. n < (i + 1) * Scale /\ j * Scale <= n
    BY <1>3 DEF InBin
  <2>3. (i + 1) * Scale \in Nat /\ j * Scale \in Nat
    BY <1>1
  <2> HIDE DEF n
  <2> QED
    BY <1>1, <2>1, <2>2, <2>3
<1>4. ASSUME s.conf < Scale  PROVE \E j \in 0 .. NBins - 1 : InBin(s, j)
  <2> DEFINE j == n \div Scale
             m == n % Scale
  <2>1. j \in Nat /\ m \in 0 .. Scale - 1 /\ n = Scale * j + m
    <3> HIDE DEF n
    <3> QED
      BY <1>1
  <2> HIDE DEF j, m
  <2>2. /\ Scale * j = j * Scale /\ (j + 1) * Scale = j * Scale + Scale
        /\ j * Scale \in Nat /\ NBins * Scale \in Nat
    BY <1>1, <2>1
  <2>3. j * Scale <= n /\ n < (j + 1) * Scale
    <3> HIDE DEF n
    <3> QED
      BY <1>1, <2>1, <2>2
  <2>4. n < NBins * Scale
    <3>1. PICK d \in Nat \ {0} : Scale = s.conf + d
      <4>1. Scale - s.conf \in Nat \ {0} /\ Scale = s.conf + (Scale - s.conf)
        BY <1>1, <1>4
      <4> QED
        BY <4>1
    <3>2. NBins * Scale = n + NBins * d
      BY <1>1, <3>1
    <3>3. NBins * d > 0 /\ NBins * d \in Nat
      BY <1>1, <3>1
    <3> HIDE DEF n
    <3> QED
      BY <1>1, <3>2, <3>3
  <2>5. j < NBins
    <3>1. SUFFICES ASSUME NBins <= j  PROVE FALSE
      BY <1>1, <2>1
    <3>2. NBins < j \/ NBins = j
      BY <1>1, <2>1, <3>1
    <3>3. NBins * Scale <= j * Scale
      <4>1. CASE NBins = j
        BY <2>2, <4>1
      <4>2. CASE NBins < j
        <5>1. (NBins + 1) * Scale <= j * Scale
          BY <1>1, <1>2, <2>1, <4>2
        <5>2. (NBins + 1) * Scale = NBins * Scale + Scale
          BY <1>1
        <5> QED
          BY <1>1, <2>2, <5>1, <5>2
      <4> QED
        BY <3>2, <4>1, <4>2
    <3> HIDE DEF n
    <3> QED
      BY <1>1, <2>2, <2>3, <2>4, <3>3
  <2>6. j \in 0 .. NBins - 1
    BY <1>1, <2>1, <2>5
  <2> QED
    BY <2>3, <2>6 DEF InBin
<1>5. \A i, j \in 0 .. NBins - 1 : i = j \/ i < j \/ j < i
  BY <1>1
<1> QED
  BY <1>3, <1>4, <1>5

\* The evaluation set consists of rows.
THEOREM EvalTyped == EvalSpec => []EvalTypeOK
<1>1. EvalInit => EvalTypeOK
  BY MaxSamplesAssumption DEF EvalInit, EvalTypeOK
<1>2. EvalTypeOK /\ [EvalNext]_samples => EvalTypeOK'
  <2> SUFFICES ASSUME EvalTypeOK, [EvalNext]_samples  PROVE EvalTypeOK'
    OBVIOUS
  <2>1. CASE UNCHANGED samples
    BY <2>1 DEF EvalTypeOK
  <2>2. ASSUME NEW s \in Samples, AddSample(s)  PROVE EvalTypeOK'
    <3>1. samples' = Append(samples, s) /\ Len(samples) < MaxSamples /\ samples \in Seq(Samples)
      BY <2>2 DEF AddSample, EvalTypeOK
    <3>2. samples' \in Seq(Samples) /\ Len(samples') = Len(samples) + 1 /\ Len(samples) \in Nat
      BY <3>1
    <3> QED
      BY <3>1, <3>2, MaxSamplesAssumption DEF EvalTypeOK
  <2> QED
    BY <2>1, <2>2 DEF EvalNext
<1> QED
  BY <1>1, <1>2, PTL DEF EvalSpec

\* Binning never hides the miscalibration of the whole set as long as no
\* confidence is 1 (_ece), for any number of bins and samples.
THEOREM GapBoundHolds == EvalSpec => []GapBound
<1>1. EvalTypeOK => GapBound
  <2> SUFFICES ASSUME EvalTypeOK, NoCertainty  PROVE GapOf(DOMAIN samples) <= Ece
    BY DEF GapBound
  <2> DEFINE D == DOMAIN samples
             conf == [i \in D |-> samples[i].conf]
             ok == {i \in D : samples[i].correct}
             M == [j \in 0 .. NBins - 1 |-> Mask(j)]
  <2>1. IsFiniteSet(D) /\ \A i \in D : samples[i] \in Samples
    <3>1. D = 1 .. Len(samples) /\ Len(samples) \in Nat
      BY DEF EvalTypeOK
    <3>2. IsFiniteSet(1 .. Len(samples))
      BY <3>1, FS_Interval
    <3> QED
      BY <3>1, <3>2 DEF EvalTypeOK
  <2>2. \A i \in D : samples[i].conf \in Nat
    BY <2>1, ScaleAssumption DEF Samples, Confidences
  <2>3. conf \in [D -> Int]
    BY <2>2
  <2>4. M \in [0 .. NBins - 1 -> SUBSET D]
    BY DEF Mask
  <2>5. \A i, j \in 0 .. NBins - 1 : i # j => M[i] \intersect M[j] = {}
    BY <2>2, BinOfConfidence DEF Mask
  <2>6. UNION {M[j] : j \in 0 .. NBins - 1} = D
    <3>1. \A i \in D : \E j \in 0 .. NBins - 1 : InBin(samples[i], j)
      BY <2>2, BinOfConfidence DEF NoCertainty
    <3> QED
      BY <3>1 DEF Mask
  <2>7. ASSUME NEW I \in SUBSET D  PROVE GapOf(I) = AbsInt(Off(conf, ok, I))
    <3>1. {i \in I : samples[i].correct} = I \intersect ok
      OBVIOUS
    <3> QED
      BY <3>1 DEF GapOf, Correct, Confidence, Off, SumOver
  <2>8. Ece = SumOver([j \in 0 .. NBins - 1 |-> AbsInt(Off(conf, ok, M[j]))], 0 .. NBins - 1)
    <3>1. \A j \in 0 .. NBins - 1 : GapOf(Mask(j)) = AbsInt(Off(conf, ok, M[j]))
      BY <2>7 DEF Mask
    <3>2. [j \in 0 .. NBins - 1 |-> GapOf(Mask(j))] =
             [j \in 0 .. NBins - 1 |-> AbsInt(Off(conf, ok, M[j]))]
      BY <3>1
    <3>3. Ece = SumOver([j \in 0 .. NBins - 1 |-> GapOf(Mask(j))], 0 .. NBins - 1)
      BY DEF Ece, SumOver, SumFunction, SumFunctionOnSet, FoldFunction, FoldFunctionOnSet
    <3> QED
      BY <3>2, <3>3
  <2>9. GapOf(D) = AbsInt(Off(conf, ok, D))
    BY <2>7
  <2>10. NBins \in Nat
    BY NBinsAssumption
  <2> HIDE DEF D, conf, ok, M
  <2>11. Bins(M, NBins, D)
    BY <2>4, <2>5 DEF Bins
  <2>12. GapShows(conf, ok, M, NBins)
    BY <2>1, <2>3, <2>10, <2>11, GapsOfBins
  <2>13. GapOf(D) <= Ece
    BY <2>6, <2>8, <2>9, <2>12 DEF GapShows
  <2> QED
    BY <2>13 DEF D
<1> QED
  BY <1>1, EvalTyped, PTL
=============================================================================

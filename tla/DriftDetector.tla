--------------------------- MODULE DriftDetector ---------------------------
(***************************************************************************)
(* What DriftDetector.check can answer for two sets of results, read with  *)
(* set_reference from the first, and which rows a query hands it.  A       *)
(* result is a record with at least its time of publication, its           *)
(* confidence bin (of ten) and its label.                                  *)
(*                                                                         *)
(* The three statistics are sums of logarithms; what the models need of    *)
(* them is when they must or cannot cross their thresholds, and any answer *)
(* is possible otherwise:                                                  *)
(*   - every term (c - r) * ln(c / r) of the PSI is at least 0, and all    *)
(*     are 0 if the shares are the same: then the PSI is 0;                *)
(*   - an empty bin counts as 1e-6: k of n results in a bin that the other *)
(*     set leaves empty add k/n * ln(k/n * 1e6), which is more than the    *)
(*     threshold of 0.2 if k/n >= 1/49 and less if k/n <= 1/50;            *)
(*   - with the same shares of labels the chi-squared table has equal      *)
(*     rows, and p is 1;                                                   *)
(*   - the JS divergence compares the labels of the reference with the     *)
(*     mean probabilities of the current results, two different            *)
(*     quantities: nothing about it follows from bins and labels.          *)
(***************************************************************************)
EXTENDS Naturals, FiniteSets

\* ORDER BY published_at DESC LIMIT n, with ties in any order.
TopSets(S, n) ==
    {T \in SUBSET S :
        /\ Cardinality(T) = IF Cardinality(S) < n THEN Cardinality(S) ELSE n
        /\ \A t \in T, u \in S \ T : t.at >= u.at}

\* 1 / OutlierShare of a window in a bin empty elsewhere crosses the threshold.
OutlierShare == 49

With(R, field, v) == {r \in R : r[field] = v}

SameShares(R, S, field) ==
    \A v \in {r[field] : r \in R \union S} :
        Cardinality(With(R, field, v)) * Cardinality(S) =
        Cardinality(With(S, field, v)) * Cardinality(R)

\* A bin that R leaves empty holds enough of S to alert alone.
OutlierBin(R, S) ==
    \E r \in S : /\ With(R, "bin", r.bin) = {}
                 /\ OutlierShare * Cardinality(With(S, "bin", r.bin)) >= Cardinality(S)

PsiAlerts(reference, current) ==
    {a \in BOOLEAN :
        /\ SameShares(reference, current, "bin") => ~a
        /\ OutlierBin(reference, current) \/ OutlierBin(current, reference) => a}

LabelAlerts(reference, current) ==
    {a \in BOOLEAN : SameShares(reference, current, "label") => ~a}

\* The reports that check may return; is_drifting is psi \/ label \/ js.
Check(reference, current) ==
    [psi : PsiAlerts(reference, current),
     label : LabelAlerts(reference, current),
     js : BOOLEAN]
=============================================================================

---------------------------- MODULE Calibration ----------------------------
(***************************************************************************)
(* The expected calibration error of the evaluator: samples are put into   *)
(* NBins bins by the confidence of their prediction, and the error is the  *)
(* sum over the bins of |correct - confidence|, each bin weighted by its   *)
(* samples.  A state is an evaluation set; it grows by one sample a step.  *)
(*                                                                         *)
(* A confidence is a multiple of 1 / Scale, and Ece is the code's value    *)
(* times Scale * Len(samples), which is an integer.  Rounding of floats is *)
(* left out; the bounds 0 and 1 of the bins are exact in the code too.     *)
(*                                                                         *)
(* InBinAboveLow is a mutated form of InBin, and is used by nothing.       *)
(***************************************************************************)
EXTENDS Integers, Sequences, FiniteSets, Functions

CONSTANTS
    NBins,        \* n_bins = 15
    Scale,        \* confidences are multiples of 1 / Scale
    MaxSamples    \* bound on the evaluation set

ASSUME NBinsAssumption == NBins \in Nat \ {0}
ASSUME ScaleAssumption == Scale \in Nat \ {0}
ASSUME MaxSamplesAssumption == MaxSamples \in Nat

VARIABLE samples    \* what _ece keeps of y_true and y_proba, row by row

\* The largest of three probabilities is at least a third.
Confidences == {c \in 1 .. Scale : 3 * c >= Scale}
Samples == [conf : Confidences, correct : BOOLEAN]

EvalInit == samples = <<>>

\* The evaluation set has one row more.
AddSample(s) ==
    /\ Len(samples) < MaxSamples
    /\ samples' = Append(samples, s)

EvalNext == \E s \in Samples : AddSample(s)

EvalSpec == EvalInit /\ [][EvalNext]_samples
-----------------------------------------------------------------------------
AbsInt(n) == IF n < 0 THEN -n ELSE n

\* (confidences >= lo) & (confidences < hi), where lo = j / NBins.
InBinAboveLow(s, j) ==
    /\ j * Scale < s.conf * NBins
    /\ s.conf * NBins < (j + 1) * Scale
InBin(s, j) ==
    /\ j * Scale <= s.conf * NBins
    /\ s.conf * NBins < (j + 1) * Scale

Mask(j) == {i \in DOMAIN samples : InBin(samples[i], j)}

Correct(I) == Cardinality({i \in I : samples[i].correct})
Confidence(I) == SumFunctionOnSet([i \in DOMAIN samples |-> samples[i].conf], I)

\* |accuracy - mean confidence| of the samples in I, times Cardinality(I).
GapOf(I) == AbsInt(Scale * Correct(I) - Confidence(I))

\* An empty bin adds nothing.
Ece == SumFunction([j \in 0 .. NBins - 1 |-> GapOf(Mask(j))])

NoCertainty == \A i \in DOMAIN samples : samples[i].conf < Scale
-----------------------------------------------------------------------------
\* Binning never hides miscalibration of the whole set: the error is at
\* least |accuracy - mean confidence|, as long as no confidence is 1.
GapBound == NoCertainty => GapOf(DOMAIN samples) <= Ece

\* "100% confidence always wrong -> ECE should be high": the error exceeds a
\* half (tests/unit/test_ml.py:253-259).
CertainAndWrongShows ==
    /\ samples # <<>>
    /\ \A i \in DOMAIN samples : samples[i].conf = Scale /\ ~samples[i].correct
    => 2 * Ece > Scale * Len(samples)
-----------------------------------------------------------------------------
\* The evaluation set consists of rows.
EvalTypeOK == samples \in Seq(Samples) /\ Len(samples) <= MaxSamples
=============================================================================

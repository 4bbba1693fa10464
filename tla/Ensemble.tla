------------------------------ MODULE Ensemble ------------------------------
(***************************************************************************)
(* SentimentEnsemble.predict on one text: each model's pass without        *)
(* dropout, the mapping of its own labels to the three classes, the        *)
(* weighted average, and the dropout passes of the primary model, which    *)
(* leave it in training mode.                                              *)
(*                                                                         *)
(* Probabilities are counted in Granules, weights in tenths.  Without      *)
(* dropout a model always gives the same row for the text, with dropout    *)
(* any row.  Dividing logarithms by a positive temperature keeps their     *)
(* order: the class is read from the average itself, and the confidence is *)
(* a function of the average and the temperature.  Rounding is left out.   *)
(*                                                                         *)
(* CanonicalByIndex and ModeSticky are mutated forms of the operators      *)
(* after them; the definitions use neither.                                *)
(***************************************************************************)
EXTENDS Naturals, FiniteSets

CONSTANTS
    Weights,        \* of the models, the primary first
    RawLabels,      \* id2label of each model
    LabelMaps,      \* _LABEL_MAPS
    Granules,
    Temperatures    \* the values that calibrate_temperature may learn

Models == DOMAIN Weights
Sentiments == <<"positive", "negative", "neutral">>
RawRows == {p \in [1 .. 3 -> 0 .. Granules] : p[1] + p[2] + p[3] = Granules}

ASSUME GranuleAssumption == Granules \in Nat \ {0}
\* The validated weights are shares of 1.
ASSUME WeightAssumption ==
    /\ Models = {1, 2, 3} /\ \A m \in Models : Weights[m] \in Nat
    /\ \E m \in Models : Weights[m] > 0
\* The map of a model names each of its labels, and no two alike.
ASSUME LabelAssumption ==
    \A m \in Models, i \in 1 .. 3 :
        /\ RawLabels[m][i] \in DOMAIN LabelMaps[m]
        /\ \A j \in 1 .. 3 \ {i} :
              LabelMaps[m][RawLabels[m][i]] # LabelMaps[m][RawLabels[m][j]]
ASSUME TemperatureAssumption == Temperatures \subseteq Nat \ {0} /\ Temperatures # {}

VARIABLES
    mode,           \* "train" or "eval" of each model
    temperature,
    out,            \* what each model gives for the text without dropout
    answers         \* what predict has answered for it
ensembleVars == <<mode, temperature, out, answers>>

EnsembleInit(o) ==
    /\ out = o
    /\ mode = [m \in Models |-> "eval"]
    /\ temperature \in Temperatures
    /\ answers = {}
-----------------------------------------------------------------------------
CanonicalByIndex(m, i) == Sentiments[i]
Canonical(m, i) ==
    IF RawLabels[m][i] \in DOMAIN LabelMaps[m] THEN LabelMaps[m][RawLabels[m][i]]
                                               ELSE "neutral"

\* row[canonical.value] = prob: a later label of the same class overwrites.
Row(m, raw) ==
    [c \in 1 .. 3 |->
        LET I == {i \in 1 .. 3 : Canonical(m, i) = Sentiments[c]}
        IN  IF I = {} THEN 0 ELSE raw[CHOOSE i \in I : \A j \in I : j <= i]]

Average(raws) ==
    [c \in 1 .. 3 |-> Weights[1] * Row(1, raws[1])[c] + Weights[2] * Row(2, raws[2])[c]
                      + Weights[3] * Row(3, raws[3])[c]]

\* argmax: the first of the largest.
ArgMax(p) == CHOOSE c \in 1 .. 3 : \A d \in 1 .. 3 : p[d] < p[c] \/ (p[d] = p[c] /\ c <= d)

ModeSticky(m, dropout) == IF dropout THEN "train" ELSE mode[m]
\* The mode that a pass sets before it runs.
Mode(m, dropout) == IF dropout THEN "train" ELSE "eval"

Predict ==
    \E noise \in IF \E m \in Models : Mode(m, FALSE) = "train"
                   THEN [Models -> RawRows] ELSE {out} :
      LET raws == [m \in Models |-> IF Mode(m, FALSE) = "eval" THEN out[m] ELSE noise[m]]
          p    == Average(raws)
      IN  /\ answers' = answers \union
                {[sentiment |-> Sentiments[ArgMax(p)],
                  confidence |-> <<p[ArgMax(p)], temperature>>]}
          /\ mode' = [m \in Models |-> Mode(m, m = 1)]
          /\ UNCHANGED <<temperature, out>>

CalibrateTemperature ==
    /\ temperature' \in Temperatures \ {temperature}
    /\ UNCHANGED <<mode, out, answers>>
-----------------------------------------------------------------------------
\* The same text always gets the same class, and with the same temperature
\* the same confidence, although every call leaves the primary model in
\* training mode: no dropout leaks from the uncertainty passes of one call
\* into the probabilities of the next.
Repeatable ==
    \A a, b \in answers :
        /\ a.sentiment = b.sentiment
        /\ a.confidence[2] = b.confidence[2] => a = b

\* What all models put first is the answer: whatever the order and the names
\* of a model's own labels, the mapping gives each class its own probability.
RawFirst(m) == {RawLabels[m][i] : i \in {j \in 1 .. 3 : \A k \in 1 .. 3 \ {j} : out[m][k] < out[m][j]}}
UnanimityDecides ==
    \A c \in 1 .. 3 :
        (\A m \in Models : \E l \in RawFirst(m) : LabelMaps[m][l] = Sentiments[c]) =>
            \A a \in answers : a.sentiment = Sentiments[c]
-----------------------------------------------------------------------------
\* What predict answers for probabilities without dropout at a temperature.
Answer(raws, t) ==
    [sentiment |-> Sentiments[ArgMax(Average(raws))],
     confidence |-> <<Average(raws)[ArgMax(Average(raws))], t>>]

\* Every answer so far is that of the models without dropout.
EnsembleInv ==
    /\ out \in [Models -> RawRows]
    /\ mode \in [Models -> {"train", "eval"}]
    /\ temperature \in Temperatures
    /\ answers \subseteq {Answer(out, t) : t \in Temperatures}
=============================================================================

----------------------------- MODULE Inference -----------------------------
(***************************************************************************)
(* Inference in one process, which holds one ensemble.  The consumer       *)
(* classifies an article and extracts its features, one after the other    *)
(* with nothing between them; the API only classifies, in a handler that   *)
(* does not await; whoever holds the ensemble may calibrate its            *)
(* temperature.  The classified text stays the same, as when an article    *)
(* is read again or posted again; the words of the articles vary.          *)
(***************************************************************************)
EXTENDS Ensemble, Features

CONSTANT Workloads   \* bound: what the models give and the texts that occur

ASSUME WorkloadAssumption ==
    \A w \in Workloads : w.out \in [Models -> RawRows]
                         /\ w.texts \subseteq Seq(STRING) \X Seq(STRING)

VARIABLE texts       \* pairs of headline and body

vars == <<ensembleVars, featureVars, texts>>

Init ==
    /\ FeaturesInit
    /\ \E w \in Workloads : EnsembleInit(w.out) /\ texts = w.texts

\* extract_batch and predict: neither reads what the other leaves.
ProcessArticle ==
    /\ Predict
    /\ \E t \in texts : Extract(t[1], t[2])
    /\ UNCHANGED texts

\* POST /v1/sentiment/analyse.
Analyse == Predict /\ UNCHANGED <<featureVars, texts>>

Calibrate == CalibrateTemperature /\ UNCHANGED <<featureVars, texts>>

Next == ProcessArticle \/ Analyse \/ Calibrate

Spec == Init /\ [][Next]_vars
-----------------------------------------------------------------------------
\* The features of the last article are those of one of the texts.
LastIsOfText ==
    last # <<>> =>
        \E t \in texts : /\ last.headline = t[1]
                        /\ last.tickers = Tickers(t[1] \o t[2])
                        /\ last.sectors = Sectors(last.tickers)

\* The inductive invariant behind the theorems on this module.
IndInv ==
    /\ EnsembleInv
    /\ FeaturesInv
    /\ texts \subseteq Seq(STRING) \X Seq(STRING)
    /\ LastIsOfText
=============================================================================

------------------------------ MODULE Features ------------------------------
(***************************************************************************)
(* FinancialFeatureExtractor: what it reads from a headline and a body,    *)
(* and its two neural pipelines, which are loaded when first needed and    *)
(* may fail to load or to answer.                                          *)
(*                                                                         *)
(* A text is a sequence of words; what the word lists, the regular         *)
(* expressions and the keywords say of a word is a constant.  Keywords of  *)
(* several words count as one.                                             *)
(*                                                                         *)
(* ListedLast and OutcomesRemembered are mutated forms of the operators    *)
(* after them; the definitions use neither.                                *)
(***************************************************************************)
EXTENDS Naturals, Sequences, SequencesExt

CONSTANTS
    TickerIn,   \* the capital letters of each word that _TICKER_RE finds in
    TooShort,   \* tickers of one letter
    Blocklist,  \* _TICKER_BLOCKLIST
    SectorOf,   \* _TICKER_TO_SECTOR
    Hedges, Negations, ForwardLooking, HighImpact, MediumImpact,
    MaxFaults   \* bound: failures of a pipeline

ASSUME FaultAssumption == MaxFaults \in Nat

VARIABLES
    ner, zsc,   \* "none" until a pipeline is loaded, then "loaded"
    faults,     \* failures of the pipelines to load or to answer
    unknown,    \* articles whose market impact is unknown
    last        \* the text and the features of the last article, if any
featureVars == <<ner, zsc, faults, unknown, last>>

FeaturesInit ==
    /\ ner = "none" /\ zsc = "none"
    /\ faults = 0 /\ unknown = 0 /\ last = <<>>
-----------------------------------------------------------------------------
ListedLast(found, f, x) ==
    IF x \notin DOMAIN f THEN found
    ELSE Append(SelectSeq(found, LAMBDA v : v # f[x]), f[x])
\* dict.fromkeys: what f has for the elements of s, at its first occurrence.
Listed(found, f, x) ==
    IF x \notin DOMAIN f \/ Contains(found, f[x]) THEN found ELSE Append(found, f[x])
Found(f, s) ==
    LET found[i \in 0 .. Len(s)] ==
            IF i = 0 THEN <<>> ELSE Listed(found[i - 1], f, s[i])
    IN  found[Len(s)]

\* The words with a ticker that is neither blocked nor too short.
TickerWords == {w \in DOMAIN TickerIn : TickerIn[w] \notin Blocklist \union TooShort}
Tickers(words) == Found([w \in TickerWords |-> TickerIn[w]], words)
Sectors(tickers) == Found(SectorOf, tickers)
HedgeCount(words) == Len(SelectSeq(words, LAMBDA w : w \in Hedges))
Some(words, list) == \E i \in 1 .. Len(words) : words[i] \in list

\* A load that fails leaves nothing behind, and the next article tries again.
OutcomesRemembered(p) ==
    CASE p = "none"   -> {[state |-> "loaded", ok |-> TRUE, fault |-> 0],
                          [state |-> "broken", ok |-> FALSE, fault |-> 1]}
      [] p = "loaded" -> {[state |-> "loaded", ok |-> TRUE, fault |-> 0],
                          [state |-> "loaded", ok |-> FALSE, fault |-> 1]}
      [] OTHER        -> {[state |-> "broken", ok |-> FALSE, fault |-> 0]}
Outcomes(p) ==
    {[state |-> "loaded", ok |-> TRUE, fault |-> 0],
     [state |-> "loaded", ok |-> FALSE, fault |-> 1],
     [state |-> p, ok |-> FALSE, fault |-> 1]}
NotCalled(p) == {[state |-> p, ok |-> TRUE, fault |-> 0]}

KeywordImpact(headline) ==
    CASE Some(headline, HighImpact) -> {"high"}
      [] ~Some(headline, HighImpact) /\ Some(headline, MediumImpact) -> {"medium"}
      [] OTHER -> {}
Impacts(headline, answered) ==
    CASE KeywordImpact(headline) # {} -> KeywordImpact(headline)
      [] KeywordImpact(headline) = {} /\ answered -> {"high", "medium", "low"}
      [] OTHER -> {"unknown"}

\* extract(headline, body): the entities and the impact are the headline's.
Extract(headline, body) ==
    \E n \in IF headline = <<>> THEN NotCalled(ner) ELSE Outcomes(ner),
       z \in IF KeywordImpact(headline) # {} THEN NotCalled(zsc) ELSE Outcomes(zsc) :
      /\ faults + n.fault + z.fault <= MaxFaults
      /\ faults' = faults + n.fault + z.fault
      /\ ner' = n.state /\ zsc' = z.state
      /\ \E impact \in Impacts(headline, z.ok) :
            LET words == headline \o body
            IN  /\ last' = [headline |-> headline, entities |-> n.ok,
                            tickers |-> Tickers(words),
                            sectors |-> Sectors(Tickers(words)),
                            isForwardLooking |-> Some(words, ForwardLooking),
                            hasNegation |-> Some(words, Negations),
                            hedge |-> <<HedgeCount(words), Len(words)>>,
                            impact |-> impact]
                /\ unknown' = unknown + IF impact = "unknown" THEN 1 ELSE 0
-----------------------------------------------------------------------------
\* Reading on never takes back what the headline gave: the tickers and the
\* sectors of an article begin with those of its headline, in that order, and
\* none is listed twice, whatever the body repeats.
HeadlineTickersFirst ==
    last # <<>> =>
        LET own == Tickers(last.headline)
        IN  /\ IsPrefix(own, last.tickers)
            /\ IsPrefix(Sectors(own), last.sectors)
            /\ Cardinality(ToSet(last.tickers)) = Len(last.tickers)
            /\ Cardinality(ToSet(last.sectors)) = Len(last.sectors)

\* An unknown impact costs a failure each: a failure to load or to answer
\* harms the article in hand only, and a keyword needs no pipeline.
UnknownOnlyByFault ==
    /\ unknown <= faults
    /\ last # <<>> => (last.impact = "unknown" => KeywordImpact(last.headline) = {})
-----------------------------------------------------------------------------
\* The counters are numbers, and an impact is unknown only after a failure.
FeaturesInv ==
    /\ faults \in 0 .. MaxFaults /\ unknown \in Nat
    /\ {ner, zsc} \subseteq {"none", "loaded"}
    /\ UnknownOnlyByFault
=============================================================================

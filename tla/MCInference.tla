---------------------------- MODULE MCInference ----------------------------
\* A small instance of Inference: the three models with their own labels and
\* probabilities in fifths.  Either the models give anything for a text that
\* the API classifies again and again, or they are sure and the consumer reads
\* articles of up to three words.
EXTENDS Inference, TLC

TenthWeights == <<5, 3, 2>>
ModelLabels == <<<<"positive", "negative", "neutral">>,
                 <<"Neutral", "Positive", "Negative">>,
                 <<"negative", "neutral", "positive">>>>
Lower == [l \in {"positive", "negative", "neutral"} |-> l]
Maps == <<Lower,
          "Positive" :> "positive" @@ "Negative" :> "negative" @@ "Neutral" :> "neutral",
          Lower>>

Capitals == "AAPL" :> "AAPL" @@ "MSFT's" :> "MSFT" @@ "XOM" :> "XOM" @@ "CEO" :> "CEO"
SectorTable == "AAPL" :> "Technology" @@ "MSFT" :> "Technology" @@ "XOM" :> "Energy"
TickerTexts == {"AAPL", "MSFT's", "XOM", "CEO"}
OneOrTwo(S) == {<<a>> : a \in S} \union (S \X S)
ShortTexts ==
    (OneOrTwo(TickerTexts) \X {<<>>, <<"XOM">>})
    \union {<<<<>>, <<"may">>>>, <<<<"surge", "revenue">>, <<>>>>, <<<<"revenue">>, <<"surge">>>>}
AnyOut == {[out |-> o, texts |-> {}] : o \in [Models -> RawRows]}
Sure == [m \in Models |-> <<Granules, 0, 0>>]
BothLoads == AnyOut \union {[out |-> Sure, texts |-> ShortTexts]}
=============================================================================

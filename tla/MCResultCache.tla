--------------------------- MODULE MCResultCache ---------------------------
\* A small instance of ResultCache and of what the API reads from it: three
\* articles on two tickers, of which one article names both.
EXTENDS ServingReads, TLC

CONSTANTS aapl, msft

TwoTickers == {aapl, msft}
Mentions == 1 :> {aapl} @@ 2 :> {aapl, msft} @@ 3 :> {}
FirstPositive == {1}
AllButOldest == {2, 3}
=============================================================================

SPECIFICATION Spec
CONSTANTS
    aapl = aapl
    msft = msft
    MaxArticle = 3
    Tickers <- TwoTickers
    TickersOf <- Mentions
    Positive <- FirstPositive
    MaxLatest = 2
    MaxPage = 2
    MaxRows = 2
    Recent <- AllButOldest
    MaxBatch = 2
    MaxCalls = 3
    MaxFaults = 2
    MaxExpiries = 2
CHECK_DEADLOCK FALSE
INVARIANTS
    PageIsTop
    ServedIsStored
    TickerCountBounds

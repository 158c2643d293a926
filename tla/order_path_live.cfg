\* One decision, one thread whose job may be cancelled under it; fair passes.
SPECIFICATION FairSpec
CONSTANTS
    i1 = i1
    i2 = i2
    w1 = w1
    w2 = w2
    eurusd = eurusd
    Accounts = {1}
    Decisions = {1}
    Intents = {i1, i2}
    Workers = {w1}
    Symbols = {eurusd}
    Symbol <- SameSymbol
    TradedAs <- SameSymbol
    MaxOpen = 1
    JobTimeouts = TRUE
    Paper = FALSE
    NoIntent = NoIntent
PROPERTIES
    PassEnds
    HaltStopsTrading

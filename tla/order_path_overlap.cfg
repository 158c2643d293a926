\* A pass that outlives its cancelled job, beside the next one.
SPECIFICATION Spec
CONSTANTS
    i1 = i1
    i2 = i2
    w1 = w1
    w2 = w2
    eurusd = eurusd
    Accounts = {1}
    Decisions = {1}
    Intents = {i1, i2}
    Workers = {w1, w2}
    Symbols = {eurusd}
    Symbol <- SameSymbol
    TradedAs <- SameSymbol
    MaxOpen = 2
    JobTimeouts = TRUE
    Paper = FALSE
    NoIntent = NoIntent
SYMMETRY IntentSymmetry
INVARIANT AtMostOnce

\* One account, two decisions on one instrument, two intents: every fault of
\* the worker, the bridge and the terminal, passes never overlapping.
SPECIFICATION Spec
CONSTANTS
    i1 = i1
    i2 = i2
    w1 = w1
    w2 = w2
    eurusd = eurusd
    Accounts = {1}
    Decisions = {1, 2}
    Intents = {i1, i2}
    Workers = {w1}
    Symbols = {eurusd}
    Symbol <- SameSymbol
    TradedAs <- SameSymbol
    MaxOpen = 2
    JobTimeouts = FALSE
    Paper = FALSE
    NoIntent = NoIntent
SYMMETRY IntentSymmetry
INVARIANTS
    TypeOK
    AtMostOnce
    EveryDealIsOnRecord
    NeverSentIsProof
    FilledIsDealt
    
PROPERTIES
    RecordMovesForward
    KeepsPromise

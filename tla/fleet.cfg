SPECIFICATION Spec
CONSTANTS
    prop = prop
    demo = demo
    eurusd = eurusd
    usdjpy = usdjpy
    gbpchf = gbpchf
    stretch = stretch
    carry = carry
    Accounts = {prop, demo}
    Prop = {prop}
    Symbols = {eurusd, usdjpy, gbpchf}
    Base <- First
    Quote <- Second
    Decisions <- Opinions
    Books <- FewBooks
    Silenced = {}
    Brains <- OwnBrain
    SymbolCap = 1
    OwnCap = 1
    PropCap = 1
    OpenCap = 2
INVARIANTS
    TypeOK
    
PROPERTIES
    FleetCapKept
    PropCapKept
    

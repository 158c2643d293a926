SPECIFICATION Spec
CONSTANTS
    Slots = {1, 2, 3}
    Start = 800
    Allowance = 40
    TotalLoss = 120
    Goal = 830
    DaysNeeded = 1
    Percent = 8
    LotStep = 4
    Conviction <- HalfOrFull
    PerCycle = 1
    Tick = 4
    ReadAhead = FALSE
    LastDay = 2
INVARIANTS
    TypeOK
    
    
CHECK_DEADLOCK FALSE

SPECIFICATION Spec
CONSTANTS
    Slots = {1}
    Start = 1600
    Allowance = 80
    TotalLoss = 160
    Goal = 1610
    DaysNeeded = 1
    Percent = 1
    LotStep = 1
    Conviction <- Full
    PerCycle = 1
    Tick = 1
    ReadAhead = FALSE
    LastDay = 2
INVARIANT DayLossIsTodays
CHECK_DEADLOCK FALSE

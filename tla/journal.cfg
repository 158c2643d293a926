SPECIFICATION Spec
CONSTANTS
    public = public
    broker = broker
    gold = gold
    incumbent = incumbent
    Series = {public, broker}
    Public = public
    Hourly = {public}
    Symbols = {gold}
    Listed = {gold}
    Offered = {gold}
    Traded = {gold}
    Strategies = {incumbent}
    Incumbent = incumbent
    LastSlot = 4
    FixedAt = 2
    Horizon = 2
    Limit = 1
    MinSection = 1
    MaxFeedLag = 1
    StaleAfter = 1
    FreshFor = 1
    MaxDecisions = 3
    MaxRescores = 1
    Ranges <- FewRanges
    Close = 10
    Stop = 2
    Target = 3
    Coin <- AllLong
    Unscored <- NoKeys
    Misread <- Wrong
    FetchFails = FALSE
    Watched <- Watch
INVARIANTS
    TypeOK
    
PROPERTIES
    HistoryStands
    RetractionKept
    AnsweredIsClosed
CHECK_DEADLOCK FALSE

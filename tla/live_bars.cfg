\* Two workers, a bar that comes late, one restatement, one fault.
SPECIFICATION FairSpec
CONSTANTS
    LastBar = 3
    FileDepth = 3
    Restatable = 2
    RewriteBars = 1
    StoredLookback = 3
    Bucket = 2
    MinParts = 1
    RestateBuckets = 0
    DeriveLookback = 4
    Overrun = 1
    MaxTries = 3
    MaxUpsets = 1
    MaxCollects = 1
    None = None
INVARIANTS
    TypeOK
    KnowledgeInOrder
PROPERTIES
    CandlesOnlyGrow
    
    
CHECK_DEADLOCK FALSE

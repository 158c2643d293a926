\* Two passes that overlap, a provider that corrects a bar once.
SPECIFICATION Spec
CONSTANTS
    p1 = p1
    p2 = p2
    Passes = {p1, p2}
    LastBar = 2
    Width = 2
    MaxClock = 6
    Lag = 1
    MaxSaid = 2
    Depth = 4
    Refresh = 4
    ChunkBars = 1
    MaxRetries = 1
    Nobody = Nobody
INVARIANTS
    TypeOK
    KnowledgeInOrder
PROPERTIES
    AsOfIsRepeatable
    PassIsStored
CHECK_DEADLOCK FALSE

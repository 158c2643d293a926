\* A bar that is corrected after a newer one has arrived.
SPECIFICATION Spec
CONSTANTS
    p1 = p1
    p2 = p2
    Passes = {p1, p2}
    LastBar = 2
    Width = 2
    MaxClock = 6
    Lag = 1
    MaxSaid = 2
    Depth = 4
    Refresh = 4
    ChunkBars = 1
    MaxRetries = 1
    Nobody = Nobody
PROPERTY RecentIsRight
CHECK_DEADLOCK FALSE

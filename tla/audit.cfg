\* Two writers, retention that deletes, and one row edited or deleted by hand.
SPECIFICATION Spec
CONSTANTS
    api = api
    collector = collector
    Writers = {api, collector}
    MaxEvents = 2
    MaxClock = 3
    Keep = 1
    Tail = 2
    Nobody = Nobody
INVARIANTS
    TypeOK
    UntouchedVerifies
    
    NoFalseAlarm
CHECK_DEADLOCK FALSE

\* One position of any shape, on an account that trails or one that is locked
\* over the weekend.
SPECIFICATION FairSpec
CONSTANTS
    t1 = t1
    prop = prop
    swing = swing
    Tickets = {t1}
    Accounts = {prop, swing}
    Shapes <- EveryOne
    Prices <- Crossings
    Trailing = {swing}
    Locked = {prop}
    NoShape = NoShape
INVARIANTS
    TypeOK
    MovesLockIn
PROPERTIES
    StopNeverWidens
    StoplessIsNamed

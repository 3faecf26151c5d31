SPECIFICATION FairSpec
CONSTANTS
    Caller = {c1, c2}
    SeqSpace = 5
    MaxInFlight = 1
    RxCap = 2
    EventQueue = 1
    MaxOps = 3
    None = None
INVARIANTS NoOrphanEntry ClosedIsEmpty
PROPERTIES ReactorStops
CHECK_DEADLOCK FALSE

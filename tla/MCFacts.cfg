SPECIFICATION FairSpec
CONSTANTS
    a = a
    mapped = mapped
    b = b
    Ip = {a, mapped, b}
    Key <- Unmapped
    Capacity = 1
    FullReputation = 1
    RetentionDays = 1
    HookDays = 1
    MaxOps = 3
    None = None
INVARIANTS PenaltiesKept CleanStopLandsAll
PROPERTIES RepeatsEscalate
CHECK_DEADLOCK FALSE

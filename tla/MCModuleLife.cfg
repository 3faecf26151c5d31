SPECIFICATION FairSpec
CONSTANTS
    t = t
    n = n
    w = w
    KeyOrder <- TwoKeys
    Temporary = {t}
    WlOrder <- OneWl
    Covers <- WlCovers
    Page = 1
    Limits = {1, 2}
    Process = {p1, p2}
    MaxOps = 5
    None = None
INVARIANTS HookSeesTables FailedLoadLeavesNothing SteadyBansSaved
CHECK_DEADLOCK FALSE
PROPERTIES StateFileKept LostLeaseIsNoticed

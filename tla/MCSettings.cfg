\* Two requests, a channel of one directive, three operations.
SPECIFICATION SettingsSpec
CONSTANTS
    j = j
    k = k
    None = None
    Jail <- MCJail
    Service <- MCService
    MaxJails = 2
    Main <- MCMain
    Over <- MCOver
    Backup <- MCBackup
    PutRequest <- MCRequest
    p = p
    q = q
    Saved <- MCSaved
    SavedOver <- MCSavedOver
    Backups <- MCBackups
    Section = {0, 3}
    KernelBan = {5}
    MaxQueue = 1
    MaxOps = 3
SYMMETRY Symmetry
INVARIANTS SettledFollowsFile KernelSettled AcceptedIsLoadable
PROPERTY WishesReachThePanel
\* A file that does not load keeps the daemon down.
CHECK_DEADLOCK FALSE

SPECIFICATION Spec
CONSTANTS
    a = a
    b = b
    NCpu = 2
    Addr = {a, b}
    NBucket = 2
    BucketOf <- OwnBucket
    NSlot = 2
    SlotOf <- SameSlot
    Node = {n1, n2, n3}
    MaxEntries = 2
    Batch = 2
    MaxOps = 3
    None = None
SYMMETRY Entries
INVARIANTS SlotOwned OneEntry NoDangling
CHECK_DEADLOCK FALSE

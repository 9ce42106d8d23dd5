CONSTANTS
    t1 = t1
    t2 = t2
    t3 = t3
    t4 = t4
    swap = swap
    None = None
    Sig = {t1, t2, t3, t4}
    MaxSlot = 3
    InitialSlot = 3
    Chain <- MCChain
    SlotOf <- MCSlotOf
    UpTo <- MCUpTo
    BatchSize = 2
    Table = {swap}
    Addr = {}
    Calls <- MCCalls
    Faults = {"shutdown"}
    Jobs <- MCOneJob
    MaxRuns = 1
SPECIFICATION Spec
CHECK_DEADLOCK FALSE
INVARIANT SavedChunkIsComplete

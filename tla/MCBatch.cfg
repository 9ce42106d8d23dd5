CONSTANTS
    t1 = t1
    t2 = t2
    t3 = t3
    t4 = t4
    swap = swap
    None = None
    Sig = {t1, t2, t3, t4}
    MaxSlot = 3
    InitialSlot = 0
    Chain <- MCChain
    SlotOf <- MCSlotOf
    UpTo <- MCUpTo
    BatchSize = 2
    Table = {swap}
    Addr = {}
    Calls <- MCCalls
    Faults = {"fetch", "ix", "block", "read", "commit", "page", "shutdown", "crash"}
    Jobs <- MCJobs
    MaxRuns = 2
SPECIFICATION Spec
CHECK_DEADLOCK FALSE
INVARIANTS
    TypeOK
    LossAccounted
    SplitNeedsSharedSlot
    WholeJobIndexed
PROPERTIES
    MarkOnlyAdvances
    JobSettles
    ImplementsStore

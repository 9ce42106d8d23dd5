CONSTANTS
    t1 = t1
    t2 = t2
    t3 = t3
    t4 = t4
    t5 = t5
    None = None
    Sig = {t1, t2, t3, t4, t5}
    MaxSlot = 4
    InitialSlot = 1
    Chain <- MCChain
    SlotOf <- MCSlotOf
    UpTo <- MCUpTo
    BatchSize = 2
    ChanSize = 1
    Table = {}
    Addr = {}
    Calls <- MCCalls
    Faults = {"shutdown"}
    MaxRuns = 1
SPECIFICATION Spec
CHECK_DEADLOCK FALSE
PROPERTY SignalEndsProcess

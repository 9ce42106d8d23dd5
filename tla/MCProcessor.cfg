CONSTANTS
    t1 = t1
    t2 = t2
    t3 = t3
    swap = swap
    stake = stake
    acc = acc
    None = None
    Sig = {t1, t2, t3}
    MaxSlot = 2
    InitialSlot = 1
    Chain <- MCChain
    SlotOf <- MCSlotOf
    UpTo <- MCUpTo
    BatchSize = 2
    Table = {swap, stake}
    Addr = {acc}
    Calls <- MCCalls
    Faults = {"fetch", "ix", "account", "db", "commit", "shutdown", "crash"}
    Workloads <- MCWorkloads
SPECIFICATION Spec
INVARIANTS
    TypeOK
    CheckpointBacked
    StoredTxHasItsCalls
    OneRowPerTable
    OkMeansIndexed
    AccountRowsBacked
PROPERTIES
    CallEnds
    ImplementsStore

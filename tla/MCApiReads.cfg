CONSTANTS
    t1 = t1
    t2 = t2
    t3 = t3
    t4 = t4
    swap = swap
    stake = stake
    acc = acc
    None = None
    Sig = {t1, t2, t3, t4}
    SlotOf <- MCSlotOf
    TablesOf <- MCTablesOf
    SlotMark = {1}
    Table = {swap, stake}
    Addr = {acc}
    Touches <- MCTouches
    PageSize = 2
    BucketSize = 2
    MaxCommits = 3
SPECIFICATION Spec
INVARIANTS
    TypeOK
    StatsAddUp
    CheckpointCanBeFollowed
    SeriesCoversTotal
    PagesMissOnlyTies
    LatestNeverGoesBack

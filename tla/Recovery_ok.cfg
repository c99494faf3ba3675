SPECIFICATION FairSpec
CONSTANTS
    ram = ram
    qmdb = qmdb
    duckfs = duckfs
    all = all
    pair = pair
    bad = bad
    Memory = {ram}
    Disk = {qmdb, duckfs}
    Cursor = {duckfs}
    CommitOrder <- ModuleOrder
    Batch = {all, pair, bad}
    Own = {pair}
    Rejected = {bad}
    Repeating = {}
    Writes <- BatchWrites
    WindowDepth = 2
    IdleBlocks = 2
    MaxHeight = 3
    MaxEpoch = 1
    MaxCrashes = 2
CHECK_DEADLOCK FALSE
INVARIANTS TypeOK RecoveredIsAgreed RefusedForCause
PROPERTIES NothingForgotten CatchesUp

SPECIFICATION Spec
CONSTANTS
    ram = ram
    qmdb = qmdb
    duckfs = duckfs
    all = all
    pair = pair
    bad = bad
    Memory = {ram}
    Disk = {qmdb, duckfs}
    Cursor = {duckfs}
    CommitOrder <- ModuleOrder
    Batch = {all, pair, bad}
    Own = {all}
    Rejected = {bad}
    Repeating = {pair}
    Writes <- BatchWrites
    WindowDepth = 2
    IdleBlocks = 2
    MaxHeight = 3
    MaxEpoch = 1
    MaxCrashes = 1
CHECK_DEADLOCK FALSE
INVARIANT RecoveredIsAgreed

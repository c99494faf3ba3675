SPECIFICATION FairSpec
CONSTANTS
    mod = mod
    ext = ext
    w1 = w1
    w2 = w2
    None = None
    Id = {1, 2, 3}
    Origin = {mod, ext}
    Owner <- IdOwner
    LiveCap <- OriginCap
    Worker = {w1, w2}
    Policy = "strict"
    Requests <- Asked
    ResultBytes = {1}
    ExhaustedBytes = 1
    DefaultLease = 1
    CrankBudget = 1
    MaxRetained = 2
    MaxRetainedBytes = 2
    PendingPage = 2
    PendingPageBytes = 2
    MaxNow = 2
    MaxTriggers = 3
CHECK_DEADLOCK FALSE
INVARIANTS IndexesAgree
PROPERTIES LedgerBounded ImplementsAsyncWork OneExecutor OverdueReached DeadlineHonoured

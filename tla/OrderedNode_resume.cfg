SPECIFICATION Spec
CONSTANTS
    A = A
    B = B
    a1 = a1
    a2 = a2
    b1 = b1
    x = x
    Junk = Junk
    Frame <- FewFrames
    Origin <- Origins
    OriginOf <- FewOrigin
    SeqOf <- FewSeq
    SizeOf <- FewSize
    Foreign <- ForeignAll
    Recovered <- RecoveredX
    MaxCustodyFrames = 3
    MaxCustodyBytes = 4
    MaxPerOrigin = 2
    BatchBytes = 2
    BatchMembers = 2
    FlushBatches = 2
    WindowHeights = 2
    Delay = 1
    Clients = "retry"
    Ascending = FALSE
    AdvanceRejects = TRUE
    MaxView = 3
    MaxEpoch = 1
CHECK_DEADLOCK FALSE
INVARIANTS CustodyAccounted ChainOrdered NoReplayInWindow BoundaryIsTip

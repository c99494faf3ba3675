SPECIFICATION FairSpec
CONSTANTS
    A = A
    B = B
    a1 = a1
    a2 = a2
    b1 = b1
    x = x
    Junk = Junk
    Frame <- Frames
    Origin <- Origins
    OriginOf <- Origin4
    SeqOf <- Seq4
    SizeOf <- Size4
    Foreign <- ForeignX
    Recovered <- Genesis
    MaxCustodyFrames = 3
    MaxCustodyBytes = 4
    MaxPerOrigin = 2
    BatchBytes = 2
    BatchMembers = 2
    FlushBatches = 2
    WindowHeights = 2
    Delay = 1
    Clients = "inorder"
    Ascending = TRUE
    AdvanceRejects = FALSE
    MaxView = 3
    MaxEpoch = 1
CHECK_DEADLOCK FALSE
INVARIANTS TypeOK AcceptedOnceInOrder NeverOutOfOrder
PROPERTIES AcceptedResolves

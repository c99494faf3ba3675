SPECIFICATION FairSpec
CONSTANTS
    k1 = k1
    k2 = k2
    c1 = c1
    c2 = c2
    None = None
    Key <- Keys
    Call <- Calls
    MaxNumber = 3
    MaxPerBlock = 2
    MaxReplays = 2
    MaxFaults = 1
INVARIANTS QueuesSound OnceInOrder
PROPERTIES NeverSameBlock QueuesDrain

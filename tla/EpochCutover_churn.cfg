\* A net-zero block and a restart.
CONSTANTS
    p = p
    q = q
    k = k
    Key <- Keys
    WellFormed <- Keys
    MaxMembers = 3
    Validator <- Both
    Genesis <- Founded
    Block <- WithChurn
    Delay = 2
    Crashes = 1
    ReadFaults <- NoFault
    MaxView <- Views42
    MaxEpoch = 1
SPECIFICATION Spec
INVARIANTS
    SameChain
CHECK_DEADLOCK FALSE

\* One crash anywhere, checkpoints anywhere between passes.
CONSTANTS
    p = p
    q = q
    k = k
    Key <- Keys
    WellFormed <- Keys
    MaxMembers = 3
    Validator <- Both
    Genesis <- Founded
    Block <- WithGrant
    Delay = 2
    Crashes = 1
    ReadFaults <- NoFault
    MaxView <- Views41
    MaxEpoch = 1
SPECIFICATION Spec
CHECK_DEADLOCK FALSE
INVARIANTS BoundaryAgreed
PROPERTIES ImplementsAgreedChain

\* Validator reads that fail.
CONSTANTS
    p = p
    q = q
    k = k
    Key <- Keys
    WellFormed <- Keys
    MaxMembers = 3
    Validator <- Both
    Genesis <- Founded
    Block <- Changes
    Delay = 2
    Crashes = 0
    ReadFaults <- ValsFault
    MaxView <- Views42
    MaxEpoch = 1
SPECIFICATION Spec
INVARIANTS
    ArmedByChange
CHECK_DEADLOCK FALSE

\* Blocks of up to three operations.
CONSTANTS
    k1 = k1
    k2 = k2
    k3 = k3
    bad = bad
    Key <- Keys
    WellFormed <- GoodKeys
    Genesis <- Founders
    MaxMembers = 2
    Retained = 2
    MaxOps = 3
    MaxGeneration = 3
    MaxRoot = 5
SPECIFICATION Spec
CHECK_DEADLOCK FALSE
INVARIANTS TiersSound WindowIsHistory
PROPERTIES ChangeMovesRoot

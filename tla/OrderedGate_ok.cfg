\* Reports in any order, the live tip first included, and repeated; a digest
\* may be certified at two views.
CONSTANTS
    d1 = d1
    d2 = d2
    None = None
    Digest <- Digests2
    MaxView = 3
    CacheCap = 1
    Retain = 2
    MaxQueue = 3
    MaxPending = 2
    Resolver = TRUE
    Refinalize = TRUE
SPECIFICATION FairSpec
CHECK_DEADLOCK FALSE
INVARIANTS TypeOK ExactlyOnce NothingLost FloorCoversReleased
PROPERTIES CanonicalRelease EveryFinalizationReleased

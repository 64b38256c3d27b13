CONSTANTS
    Null = Null
    Queries = {q1, q2}
    Tids = {t1}
    Shards = {s1, s2}
    LookupRetries = 1
    TTLs = {0, 2}
    LookupTimeout = 1
    BodyTime = 1
    MaxFaults = 2
    MaxMoves = 2
SPECIFICATION FairSpec
INVARIANTS
    TypeOK
    BoundedStaleness
    CacheFresh
PROPERTIES
    Ends
CHECK_DEADLOCK FALSE

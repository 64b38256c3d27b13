CONSTANTS
    q1 = q1
    q2 = q2
    h1 = h1
    h2 = h2
    c1 = c1
    Null = Null
    Nothing = Nothing
    Queries = {q1, q2}
    Texts <- MCTexts
    CacheMax = 1
    MaxFaults = 1
    Shards <- MCShards
    Workloads <- MCWorkloads
    LocalClients = {c1}
    CopyThreshold = 3
    UnnestThreshold = 2
SPECIFICATION FairSpec
INVARIANTS
    TypeOK
    CacheSound
    AnswerExact
    LocalClean
PROPERTIES
    Answered
CHECK_DEADLOCK FALSE

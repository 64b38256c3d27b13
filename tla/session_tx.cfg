CONSTANTS
    s1 = s1
    s2 = s2
    tA = tA
    tB = tB
    tC = tC
    hA = hA
    hB = hB
    a1 = a1
    b1 = b1
    Null = Null
    Session = {s1, s2}
    Tid = {tA, tB, tC}
    Shard = {hA, hB}
    Client = {a1, b1}
    ShardOf <- MCShardOf
    HostOf <- MCHostOf
    Batches <- TxBatches
    MaxBuffer = 1
    MaxSent <- ThreeAndTwo
    Faults = {"lookup", "connect", "sql", "backend"}
SPECIFICATION Spec
INVARIANTS
    TypeOK
    RoutedByTid
    TxOnOneShard
    TxOwnsClient
    ReturnedClean
    NoOrphanClient
    CommittedOnly
    CommitKeepsAll
PROPERTIES
    TidSpent
    PinHolds
CHECK_DEADLOCK FALSE

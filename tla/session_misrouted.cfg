CONSTANTS
    s1 = s1
    s2 = s2
    tA = tA
    tB = tB
    tC = tC
    hA = hA
    hB = hB
    a1 = a1
    b1 = b1
    Null = Null
    Session = {s1}
    Tid = {tA, tB, tC}
    Shard = {hA, hB}
    Client = {a1, b1}
    ShardOf <- MCShardOf
    HostOf <- MCHostOf
    Batches <- SingleStatements
    MaxBuffer = 4
    MaxSent <- FiveAlone
    Faults = {"socket", "connect"}
SPECIFICATION Spec
INVARIANTS
    RoutedByTid
CHECK_DEADLOCK FALSE

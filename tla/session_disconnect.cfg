CONSTANTS
    s1 = s1
    s2 = s2
    tA = tA
    tB = tB
    tC = tC
    hA = hA
    hB = hB
    a1 = a1
    b1 = b1
    Null = Null
    Session = {s1, s2}
    Tid = {tA, tB, tC}
    Shard = {hA, hB}
    Client = {a1, b1}
    ShardOf <- MCShardOf
    HostOf <- MCHostOf
    Batches <- DisconnectBatches
    MaxBuffer = 2
    MaxSent <- ThreeAndTwo
    Faults = {"socket", "connect", "sql"}
SPECIFICATION Spec
INVARIANTS
    ConnectedRowsRight
    CommitKeepsAll
CHECK_DEADLOCK FALSE

CONSTANTS
    Null = Null
    Undef = Undef
    All = All
    pool1 = pool1
    client1 = client1
    tid1 = tid1
    Pools = {pool1}
    Checkouts = {client1}
    Tids = {tid1}
    Shards = {s1, s2}
    Offers <- SomeOffers
    Policies = {"all", "best_effort"}
    MaxRetries = 1
    MaxRequests = 2
    MaxFaults = 2
SPECIFICATION FairSpec
INVARIANTS
    TypeOK
    TxOneConnection
    HonestAnswer
    NoLeakedClient
PROPERTIES
    Answered
CHECK_DEADLOCK FALSE

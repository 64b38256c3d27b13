CONSTANTS
    client = client
    orders = orders
    jobs = jobs
    q1 = q1
    q2 = q2
    w1 = w1
    w2 = w2
    w3 = w3
    Null = Null
    Target = {client}
    Checkout = {client}
    Caller = {q1, q2}
    Key = {orders, jobs}
    Command = {"LISTEN", "UNLISTEN", "UNLISTEN *", "NOTIFY", "RELEASE"}
    MaxCommands = 3
    MaxPublished = 1
    MaxFaults = 1
    Stream = {w1, w2, w3}
    Faults = {"late", "stream", "restart", "close"}
SPECIFICATION FairSpec
INVARIANTS
    TypeOK
    AtMostOnce
    ClosedStops
PROPERTIES
    WatchRestored
    Restored
CHECK_DEADLOCK FALSE

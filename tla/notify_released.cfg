CONSTANTS
    client = client
    orders = orders
    jobs = jobs
    q1 = q1
    q2 = q2
    w1 = w1
    w2 = w2
    w3 = w3
    Null = Null
    Target = {client}
    Checkout = {client}
    Caller = {q1}
    Key = {orders}
    Command = {"LISTEN", "RELEASE"}
    MaxCommands = 2
    MaxPublished = 0
    MaxFaults = 0
    Stream = {w1, w2}
    Faults = {}
SPECIFICATION Spec
INVARIANTS
    ReleasedStopsWatching
CHECK_DEADLOCK FALSE

CONSTANTS
    client = client
    orders = orders
    jobs = jobs
    q1 = q1
    q2 = q2
    w1 = w1
    w2 = w2
    w3 = w3
    Null = Null
    Target = {client}
    Checkout = {client}
    Caller = {q1}
    Key = {orders, jobs}
    Command = {"LISTEN"}
    MaxCommands = 2
    MaxPublished = 0
    MaxFaults = 1
    Stream = {w1, w2}
    Faults = {"restart"}
SPECIFICATION Spec
INVARIANTS
    Resubscribed
CHECK_DEADLOCK FALSE

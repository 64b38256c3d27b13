CONSTANTS
    Null = Null
    Passwords = {TRUE, FALSE}
    MaxSent = 5
    Faults = {"begin", "commit", "data"}
SPECIFICATION FairSpec
INVARIANTS
    TypeOK
    ReadyInOrder
    StatusHonest
    ExecutesBound
    Authenticated
PROPERTIES
    Answered
CHECK_DEADLOCK FALSE

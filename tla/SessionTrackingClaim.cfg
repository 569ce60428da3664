SPECIFICATION Spec
CONSTANTS
    Users = {u1}
    Sessions = {a, b}
    TTL = 2
    Timeout = 1
    StaleAfter = 3
    MaxTime = 5
    DbMayFail = FALSE
INVARIANTS
    EveryRequestRecorded

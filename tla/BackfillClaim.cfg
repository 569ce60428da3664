SPECIFICATION Spec
CONSTANTS
    Views = {v1, v2}
    IPs = {ip1, ip2}
    NoIP = NoIP
    Window = 1
    DayLen = 2
    Lookback = 3
    MaxTime = 5
    DbMayFail = FALSE
PROPERTIES
    BackfillIdempotent

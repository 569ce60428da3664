SPECIFICATION Spec
CONSTANTS
    Conns = {c1, c2}
    Tasks = {t1}
    WriteTimeout = 3
    Heartbeat = 6
    ShutdownTimeout = 2
    MaxEvents = 2
INVARIANTS
    TypeOK
    StreamsEndByHeartbeat
    NoGaps
    PoolOutlivesRequests
    CutOffOnlyIfLong
PROPERTIES
    ShutdownEnds
CHECK_DEADLOCK FALSE

SPECIFICATION Spec
CONSTANTS
    Conns = {c1}
    Tasks = {t1}
    WriteTimeout = 3
    Heartbeat = 6
    ShutdownTimeout = 2
    MaxEvents = 2
PROPERTIES
    HeartbeatKeepsAlive
CHECK_DEADLOCK FALSE

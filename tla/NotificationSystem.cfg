SPECIFICATION MCSpec
CONSTANTS
    u1 = u1
    u2 = u2
    c1 = c1
    c2 = c2
    s1 = s1
    s2 = s2
    Users = {u1, u2}
    Calls = {c1, c2}
    Streams = {s1, s2}
    Window = 1
    MaxTime = 0
    DbMayFail = TRUE
    Capacity = 1
    None = None
ACTION_CONSTRAINT TablesFixed
INVARIANTS
    NoMissedNotification
    OnlyOwnNotifications
    BadgeBehindOnlyByOverlap
PROPERTIES
    PushedOrDropped

SPECIFICATION Spec
CONSTANTS
    Users = {u1, u2}
    Calls = {c1, c2}
    Window = 2
    MaxTime = 3
    DbMayFail = TRUE
INVARIANTS
    TypeOK
    UnreadDuplicatesOverlapped
    CountIncludesOwnRow
PROPERTIES
    FollowLeadsToNotification

SPECIFICATION MCSpec
CONSTANTS
    Fields = {public, digest}
    Public = public
    DefaultOn = {public}
    Updates = {w1, w2}
    Gets = {g1}
    Views = {v1}
    DbMayFail = TRUE
    u1 = u1
    u2 = u2
    u3 = u3
    n1 = n1
    n2 = n2
    n3 = n3
    r1 = r1
    Users = {u1, u2, u3}
    Names = {n1, n2, n3}
    None = None
    Owner = u1
    Requests = {r1, r2}
    Viewers = {u1, None}
    DefaultLimit = 1
    MaxLimit = 2
    MaxInt32 = 7
    RawLimits = {0, 3, 9, 16}
    RawOffsets = {0, 1, 15}
    MaxChanges = 2
CONSTRAINT
    UsefulWalks
INVARIANTS
    DirectoryTypeOK
    LostOnlyByOverlap
    PrivacyKept
    ConflictOnlyByRace
    WalkExact
    PaginationSane
    WalkPrivacyKept
CHECK_DEADLOCK FALSE

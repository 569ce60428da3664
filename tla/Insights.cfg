SPECIFICATION MCSpec
CONSTANTS
    v1 = v1
    ReportBy = 4
    Views = {v1, v2}
    IPs = {ip1}
    NoIP = NoIP
    Window = 1
    DayLen = 2
    Lookback = 3
    MaxTime = 5
    DbMayFail = TRUE
    Followers = {f1}
    Never = Never
    Period = 2
    Breakdowns = 2
CONSTRAINT
    Apart
INVARIANTS
    ReportTypeOK
    RepeatViewsOverlapped
    CountersExact
    MetricRepeatable
    ReportConsistent

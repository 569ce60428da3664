SPECIFICATION Spec
CONSTANTS
    IPs = {ip1, ip2}
    Cost = 2
    Cap = 4
    StaleAfter = 4
    SweepEvery = 2
    MaxTime = 7
INVARIANTS
    TypeOK
    AdmissionBound
    EntriesExpire
PROPERTIES
    PacedNeverDenied
    ImplementsTokenBucket

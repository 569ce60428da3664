SPECIFICATION Spec
CONSTANTS
    Users = {u1}
    Streams = {s1, s2}
    Publishers = {p1, p2}
    Capacity = 1
    None = None
INVARIANTS
    TypeOK
    RegistryExact
PROPERTIES
    PublishReturns
    StreamEnds

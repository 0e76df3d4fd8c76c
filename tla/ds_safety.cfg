SPECIFICATION Spec
CONSTANTS
    Clients = {p1, p2, p3}
    Schemas = {s1, s2}
    NoSchema = NoSchema
    Conns = {c1, c2, c3}
    None = None
    Size = 2
    MaxWait = 1
    InitSql = TRUE
SYMMETRY Symmetric
INVARIANTS
    OneOwner
    QueuedIsFree
    WithinMaxCon
    ActiveMatches
    ReusesBeforeOpening
PROPERTIES
    ImplementsLease

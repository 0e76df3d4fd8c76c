SPECIFICATION Spec
CONSTANTS
    Clients = {p1, p2}
    Schemas = {s1, s2}
    NoSchema = NoSchema
    Conns = {c1, c2}
    None = None
    Size = 2
    MaxWait = 1
    InitSql = FALSE
INVARIANTS
    OnWantedDatabase

SPECIFICATION LiveSpec
CONSTANTS
    s1 = s1 s2 = s2 s3 = s3 u1 = u1 u2 = u2 d1 = d1 d2 = d2 h1 = h1 h2 = h2
    Clients = {s1, s2, s3}
    Conns = {c1, c2}
    None = None
    Size = 1
    Users <- MCUsers
    Stranger = Stranger
    Schemas <- MCSchemas
    NoDb = NoDb
    Grants <- MCGrants
    Benchmark <- MCBenchmark
    Host <- MCHost
    White <- MCWhite
    DefaultAccount = u1
    Buffers = 3
    MaxStmts = 2
    MaxBatch = 2
INVARIANTS
    BorrowMatchesBinding
    OnlyAdmittedQueries
    BenchmarkKept
    RegistryExact
PROPERTY
    QueryEnds

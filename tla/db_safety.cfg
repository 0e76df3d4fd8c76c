SPECIFICATION Spec
CONSTANTS
    Hosts = {h1, h2}
    RandomHosts = {h2}
    Count = 2
    MinCons = {0, 2}
    Clients = {p1}
    Startup = Startup
    Absent = Absent
    Broken = Broken
    Begins <- BinaryBegins
INVARIANTS
    TypeOK
    SentToInitialised
    RefusedForCause
    FileNamesWorking

SPECIFICATION Spec
CONSTANTS
    Users = {u1, u2, u3}
    ChunkSize = 3
    PageSize = 3
    PageCount = 4
    Sizes = {0, 1, 3, 4, 7, 12}
SYMMETRY Symmetric
INVARIANTS
    CountsBuffers
    WithinLimit
    NoSleeperFits
\* Every user may end up waiting in resize for room its own buffer takes.
CHECK_DEADLOCK FALSE

SPECIFICATION LiveSpec
CONSTANTS
    Names = {n1, n2}
    Jobs = {j1, j2}
    Workers = {w1, w2, w3}
    Users = {u1}
    None = None
INVARIANTS
    SerialRuns
PROPERTIES
    CancelWaits
    PeriodicGoesOn
    WaitsReturn

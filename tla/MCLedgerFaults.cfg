SPECIFICATION Spec
CONSTANTS
    User = {u1}
    Request = {r1, r2, r3}
    Ops = {"deposit", "grant", "increase", "read"}
    Amount = {1}
    InitBalance = 1
    Task = {}
    Lookups = 0
    PoolSize = 2
    Faults = {"lockExpiry", "cacheSet", "commit", "crash",
              "release", "answer"}
    None = None
SYMMETRY Symmetry
INVARIANTS NothingInvented SuccessIsDurable FailureHasNoEffect

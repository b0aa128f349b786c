SPECIFICATION Spec
CONSTANTS
    Swap = {s1, s2}
    User = {u1}
    Kinds = {"deposit", "withdraw"}
    Permits = {"none", "malformed"}
    Worker = {w1}
    Managers = 2
    BatchLimit = 2
    Life = 1
    MaxNow = 0
    MaxTxs = 2
    Faults = {"ackLost", "rpc", "redis", "db", "mark", "broadcast", "crash", "slowCommit"}
    None = None
SYMMETRY Symmetry
INVARIANTS TypeOK RowsNameCalls PaidOnce

SPECIFICATION Spec
CONSTANTS
    Swap = {s1, s2}
    User = {u1}
    Kinds = {"deposit", "withdraw"}
    Permits = {"none", "signed"}
    Worker = {w1, w2}
    Managers = 2
    BatchLimit = 2
    Life = 0
    MaxNow = 1
    MaxTxs = 2
    Faults = {"amqp", "db", "broadcast", "lockExpiry", "spoil"}
    None = None
SYMMETRY Symmetry
INVARIANTS PaidOnce PaidIsRecorded
PROPERTY OneOutcome

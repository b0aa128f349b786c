SPECIFICATION Spec
CONSTANTS
    Swap = {s1}
    User = {u1}
    Kinds = {"withdraw"}
    Permits = {"none", "signed"}
    Worker = {w1}
    Managers = 2
    BatchLimit = 2
    Life = 1
    MaxNow = 0
    MaxTxs = 2
    Faults = {}
    None = None
INVARIANT OnlyInvalidFails

SPECIFICATION FairSpec
CONSTANTS
    Swap = {s1, s2, s3}
    User = {u1}
    Kinds = {"deposit", "withdraw"}
    Permits = {"none", "signed"}
    Worker = {w1, w2}
    Managers = 2
    BatchLimit = 2
    Life = 1
    MaxNow = 0
    MaxTxs = 3
    Faults = {}
    None = None
INVARIANT NothingForgotten
PROPERTY Settled

SPECIFICATION Spec
CONSTANTS
    Tx = {t1, t2}
    Wallet = {a}
    BatchSize = 2
    MaxCalls = 3
    Faults = {"refuse", "timeout", "crash", "save", "db", "emit"}
SYMMETRY SymmetryTx
INVARIANTS TypeOK NothingSkipped OwnSwapsSettled StatusFollowsChain

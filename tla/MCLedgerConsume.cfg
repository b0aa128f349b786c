SPECIFICATION Spec
CONSTANTS
    User = {u1}
    Request = {r1, r2}
    Ops = {"consume"}
    Amount = {2}
    InitBalance = 2
    Task = {}
    Lookups = 0
    PoolSize = 4
    Faults = {}
    None = None
INVARIANT ConsumptionsAreCovered

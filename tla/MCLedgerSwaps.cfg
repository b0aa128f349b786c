SPECIFICATION FairSpec
CONSTANTS
    User = {u1, u2}
    Request = {r1, r2}
    Ops = {"deposit", "increase", "withdraw"}
    Amount = {1, 2}
    InitBalance = 2
    Task = {t1}
    Lookups = 1
    PoolSize = 2
    Faults = {"publish"}
    None = None
INVARIANTS TypeOK CacheCoherent SentIsBooked LockExclusive StallsOnlyNested
PROPERTIES CoveredLedger Answered
CHECK_DEADLOCK FALSE

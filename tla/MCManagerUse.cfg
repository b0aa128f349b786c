CONSTANTS
    User = {u1}
    Manager = {m1, u1}
    Owner = Owner
    Relayer = Relayer
    Pool = Pool
    Zero = Zero
    Amount = {2}
    Rate = {0, 3}
    InitRate = 2
    InitPool = 6
    InitTokens = 2
    Allowance = {2}
    Scale = 4
    MaxUint = 8
    MaxTime = 1
    MaxNonce = 1
    MaxSigned = 2
    MaxCalls = 2
    None = None
SPECIFICATION Spec
INVARIANTS
    TypeOK
    SingleUse
    BalancesAreAccounted
PROPERTIES
    UsedInOrder
    SwitchesHold

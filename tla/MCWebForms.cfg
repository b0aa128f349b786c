SPECIFICATION Spec
CONSTANTS
    Kinds = {"grant", "consume", "deposit", "withdraw"}
    Queries = {"point"}
    MaxClicks = 2
    Faults = {"timeout", "rpc", "fetch"}
INVARIANTS TypeOK ReadYourWrites FailedForAReason
PROPERTIES LoadingEnds CatchesUp

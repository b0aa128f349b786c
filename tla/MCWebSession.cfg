SPECIFICATION Spec
CONSTANTS
    Wallet = {a, b}
    Panels = 2
    MaxUsers = 2
    Faults = {"timeout", "chain", "crash"}
    None = None
SYMMETRY SymmetryWallet
INVARIANTS TypeOK AcceptedIsDeclared SessionIsBacked OneUserPerWallet PendingIsDeclared

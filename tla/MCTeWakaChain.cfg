SPECIFICATION Spec
CONSTANTS
    Node = {n1, n2}
    Claim = {c1}
    None = None
    DumpHeight = 2
    MaxHeight = 4
    MaxWork = 2
    MaxCrashes = 1
SYMMETRY MCSymmetry
INVARIANTS
    TypeOK
    PaidOnce
    PaidRemembered
    NoSplitOverPaidClaim
CHECK_DEADLOCK FALSE

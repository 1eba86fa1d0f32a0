SPECIFICATION Spec
CONSTANTS
    Users = {a, b}
    MaxCopies = 1
    MaxQueue = 2
    MaxTogether = 3
SYMMETRY Permuted
INVARIANTS
    TypeOK
    Consent
    OwnProfileIsCurrent
    MutualWhenCalm
CHECK_DEADLOCK FALSE

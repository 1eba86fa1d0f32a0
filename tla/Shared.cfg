SPECIFICATION Spec
CONSTANTS
    s1 = s1
    s2 = s2
    running = running
    reading = reading
    Users = {a, b}
    Ids = {s1, s2}
    Names = {running, reading}
    NameOf <- TwoNames
    MaxCopies = 1
    MaxUnderWay = 2
SYMMETRY Permuted
INVARIANTS
    TypeOK
    OnlyChosen
    RecordsAgree

    
CHECK_DEADLOCK FALSE

SPECIFICATION Spec
CONSTANTS
    People = {p1, p2}
    Me = me
    BatchSize = 2
    MaxLoads = 2
    MaxChanges = 1
INVARIANTS
    TypeOK
    NobodyMissing
    
    RowsExist
CHECK_DEADLOCK FALSE

SPECIFICATION Spec
CONSTANTS
    TicksPerDay = 2
    Streaks = {s1, s2}
    DaySets <- TwoPlans
    Features = {"edit", "relaunch"}
    LastDay = 2
    MaxQueue = 1
INVARIANTS
    TypeOK
PROPERTIES
    CompletionsSurvive
    
CHECK_DEADLOCK FALSE

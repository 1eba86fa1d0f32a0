SPECIFICATION Spec
CONSTANTS
    TicksPerDay = 2
    Streaks = {s1}
    DaySets <- EveryDay
    Features = {}
    LastDay = 2
    MaxQueue = 1
PROPERTIES
    ExpiredMustBeReset
CHECK_DEADLOCK FALSE

SPECIFICATION Spec
CONSTANTS
    TicksPerDay = 2
    Streaks = {s1}
    DaySets <- EveryDay
    Features = {"settings", "delete", "friend", "relaunch", "hasty"}
    LastDay = 2
    MaxQueue = 1
INVARIANTS
    AgreesWhenQuiet
PROPERTIES
    RepairReachesCloud
CHECK_DEADLOCK FALSE

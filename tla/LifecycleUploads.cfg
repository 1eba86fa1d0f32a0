SPECIFICATION FairSpec
CONSTANTS
    TicksPerDay = 2
    Streaks = {s1}
    DaySets <- EveryDay
    Features = {"image", "relaunch", "hasty"}
    LastDay = 2
    MaxQueue = 2
INVARIANTS
    NumberBounded
    AgreesWhenQuiet
PROPERTIES
    VerificationSettles
    ExpiredIsRepaired
CHECK_DEADLOCK FALSE

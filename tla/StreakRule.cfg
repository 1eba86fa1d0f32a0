SPECIFICATION RemindersSpec
CONSTANTS
    TicksPerDay = 2
    DaySets <- MCDaySets
    StartDays <- MCStartDays
    LastDay = 9
    Times <- MCTimes
INVARIANTS
    TypeOK
    NumberCountsDays
    NoMissedDay
    ExpiredOnlyIfMissed
    MissedIsExpired
    DeadlineIsNextReminderDay
    RemindersAreRight
CHECK_DEADLOCK FALSE

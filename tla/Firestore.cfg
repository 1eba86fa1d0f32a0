SPECIFICATION FairSpec
CONSTANTS
    Clients = {c1, c2}
    Users = {u1, u2}
    Owner = u1
    Shared = {c1}
    Forbidden = {2}
    MaxPending = 1
    MaxWrites = 3
    MaxFailures = 1
INVARIANTS
    TypeOK
    AnswersMatch
    ToldTheTruth
    NothingLost
PROPERTIES
    Implements
    WritesSettle
    EveryoneSees
CHECK_DEADLOCK FALSE

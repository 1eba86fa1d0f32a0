SPECIFICATION FairSpec
CONSTANTS
    Email = {e1}
    Google = {g1}
    Facebook = {f1}
    None = None
    Slips <- Orderly
    MaxRestarts = 1
INVARIANTS
    TypeOK
    OwnDocument
    InTheirDocument
PROPERTIES
    NothingErased
    ProfileArrives
CHECK_DEADLOCK FALSE

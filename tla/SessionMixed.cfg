SPECIFICATION Spec
CONSTANTS
    Email = {e1}
    Google = {g1}
    Facebook = {f1}
    None = None
    Slips <- Careless
    MaxRestarts = 0
INVARIANTS
    SavesOwnProfile
CHECK_DEADLOCK FALSE

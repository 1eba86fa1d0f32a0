SPECIFICATION Spec
CONSTANTS
    s1 = s1
    s2 = s2
    running = running
    reading = reading
    Users = {a}
    Ids = {s1, s2}
    Names = {running, reading}
    NameOf <- TwoNames
    MaxCopies = 1
    MaxUnderWay = 1
PROPERTIES
    UnsubscribesFromOne
CHECK_DEADLOCK FALSE

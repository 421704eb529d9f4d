CONSTANTS
    Reqs = {r1, r2}
    People = {"ann"}
    Tokens = {"t1", "t2"}
    MaxUsers = 3
    MaxSessions = 1
    MaxKeys = 2
    MaxRequests = 3
    MaxStarts = 2
    MaxCommands = 0
SPECIFICATION Spec
SYMMETRY Symmetry
PROPERTY
    LastAdminStays
CHECK_DEADLOCK FALSE

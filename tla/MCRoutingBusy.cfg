CONSTANTS
    Tables <- SomeTables
    Fallbacks <- Chains
    Policies <- Open
    Strategies <- AllStrategies
    Reqs = {r1, r2}
    MaxRequests = 4
    MaxEdits = 0
SPECIFICATION Spec
SYMMETRY Symmetry
PROPERTY
    FewestInFlightFirst
CHECK_DEADLOCK FALSE

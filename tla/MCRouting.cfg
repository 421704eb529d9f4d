CONSTANTS
    Tables <- SomeTables
    Fallbacks <- Chains
    Policies <- SomePolicies
    Strategies <- AllStrategies
    Reqs = {r1, r2}
    MaxRequests = 3
    MaxEdits = 1
SPECIFICATION Spec
SYMMETRY Symmetry
CONSTRAINT OneNarrow
INVARIANT
    RotationIsEven
PROPERTY
    ListedIsServed
    GrantDecides
CHECK_DEADLOCK FALSE

CONSTANTS
    Inputs <- SomeInputs
    TaskTypes <- SomeTaskTypes
    MaxInputs = 3
    Chains <- SomeChains
SPECIFICATION EmbedSpec
INVARIANT VectorsAreOfInputs
CHECK_DEADLOCK FALSE

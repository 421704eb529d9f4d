CONSTANTS
    Turns <- MCTurns
    Keys <- MCKeys
    KeyOf <- MCKeyOf
    RequestOf <- MCRequestOf
    QueueSize = 2
    BatchFlush = 2
    Policies <- MCRetain
    Calls = {"export"}
    MaxFaults = 0
    MaxCrashes = 0
    MaxForgets = 1
SPECIFICATION Spec
INVARIANT ExportIsComplete

CONSTANTS
    Turns <- MCTurns1
    Keys <- MCKeys1
    KeyOf <- MCKeyOf1
    RequestOf <- MCRequestOf1
    QueueSize = 2
    BatchFlush = 2
    Policies <- MCPolicies
    Calls = {"export", "flush", "rotate", "shutdown"}
    MaxFaults = 1
    MaxCrashes = 0
    MaxForgets = 1
SPECIFICATION FairSpec
PROPERTIES
    InFlightSettles
    ExportEnds

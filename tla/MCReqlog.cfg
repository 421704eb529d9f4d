CONSTANTS
    Turns <- MCTurns
    Keys <- MCKeys
    KeyOf <- MCKeyOf
    RequestOf <- MCRequestOf
    QueueSize = 2
    BatchFlush = 2
    Policies <- MCRetain
    Calls = {"forget"}
    MaxFaults = 1
    MaxCrashes = 1
    MaxForgets = 1
SPECIFICATION Spec
INVARIANTS
    Accounted
    DedupKeyNamesTurn
    ErasedIsGone
PROPERTIES
    AgeIsKept
    ImplementsArchive

CONSTANTS
    m1 = m1
    m2 = m2
    n1 = n1
    n2 = n2
    n3 = n3
    p1 = p1
    Models = {m1, m2, m3}
    Names = {n1, n2, n3, n4}
    Providers = {p1, p2}
    Handlers = {h1, h2}
    Operations <- AllOperations
    MaxOps = 3
    MaxFaults = 1
SPECIFICATION MCSpec
SYMMETRY Symmetry
INVARIANTS
    SerialTable
    SerialNames
    SerialRoutes
PROPERTIES
    RenameKeepsNames
    OwnWriteIsServed
    ReapsOnlyUnseen

CONSTANTS
    m1 = m1
    m2 = m2
    n1 = n1
    n2 = n2
    n3 = n3
    p1 = p1
    Models = {m1, m2}
    Names = {n1, n2, n3}
    Providers = {p1}
    Handlers = {h1, h2}
    Operations = {"delete_deployment", "delete_alias"}
    MaxOps = 2
    MaxFaults = 0
SPECIFICATION MCSpec
SYMMETRY Symmetry
INVARIANT TableIsCurrent

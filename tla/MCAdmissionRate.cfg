CONSTANTS
    c1 = c1
    c2 = c2
    c3 = c3
    c4 = c4
    video = video
    Calls = {c1, c2, video}
    Keys <- MCKeys
    KeyOf <- MCKeyOf
    Videos = {video}
    Subjects = {}
    SubjectsOf <- MCNobody
    Window = 2
    Grain = 2
    LimitSets <- MCRates
    Budgets <- MCNoBudgets
    Tokens = {0, 2}
    MaxLag = 1
    MaxTime = 3
    MaxDays = 0
    MaxChanges = 1
SPECIFICATION Spec
SYMMETRY Symmetry
INVARIANTS
    WindowBound
PROPERTIES
    ImplementsBuckets

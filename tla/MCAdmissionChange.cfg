CONSTANTS
    c1 = c1
    c2 = c2
    c3 = c3
    c4 = c4
    video = video
    Calls = {c1, c2, c3, c4}
    Keys <- MCKeys
    KeyOf <- MCKeyOf
    Videos = {}
    Subjects = {}
    SubjectsOf <- MCNobody
    Window = 3
    Grain = 1
    LimitSets <- MCRpmDown
    Budgets <- MCNoBudgets
    Tokens = {0}
    MaxLag = 0
    MaxTime = 5
    MaxDays = 0
    MaxChanges = 1
SPECIFICATION Spec
SYMMETRY Symmetry
INVARIANT LoweredLimitBound

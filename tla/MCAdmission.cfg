CONSTANTS
    c1 = c1
    c2 = c2
    c3 = c3
    c4 = c4
    video = video
    Calls = {c1, c2}
    Keys <- MCKeys
    KeyOf <- MCKeyOf
    Videos = {}
    Subjects <- MCSubjects
    SubjectsOf <- MCSubjectsOf
    Window = 1
    Grain = 1
    LimitSets <- MCCaps
    Budgets <- MCBudgets
    Tokens = {1}
    MaxLag = 0
    MaxTime = 0
    MaxDays = 1
    MaxChanges = 1
SPECIFICATION Spec
SYMMETRY Symmetry
INVARIANTS
    SlotsBalance
    HandlersWithinCap
    SpentOutIsRefused

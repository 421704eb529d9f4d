---------------------------- MODULE MCAdmission ----------------------------
EXTENDS Admission, TLC

CONSTANTS c1, c2, c3, c4, video

\* One key, whose turns are alike.
MCKeys == {"k"}
MCKeyOf == [c \in Calls |-> "k"]
Symmetry == Permutations(Calls \ Videos)

\* The key and its team; or nobody, where budgets are not the question.
MCSubjects == {"key", "team"}
MCSubjectsOf == [k |-> <<"key", "team">>]
MCNobody == [k |-> <<>>]

\* A cap of one handler and of two.
MCCaps == {[rpm |-> 0, tpm |-> 0, max |-> 1], [rpm |-> 2, tpm |-> 1, max |-> 2]}
MCRates == {[rpm |-> 1, tpm |-> 2, max |-> 0], [rpm |-> 2, tpm |-> 1, max |-> 0]}
MCRpmDown == {[rpm |-> 1, tpm |-> 0, max |-> 0], [rpm |-> 3, tpm |-> 0, max |-> 0]}

MCNoBudgets == {NoBudget}
MCBudgets == {NoBudget, [limit |-> 1, period |-> "day"], [limit |-> 2, period |-> "total"]}
=============================================================================

------------------------------ MODULE MCReqlog ------------------------------
EXTENDS Reqlog

\* Two turns of two keys, whose callers gave the same request id.
MCTurns == {"t1", "t2"}
MCKeys == {"k1", "k2"}
MCKeyOf == [t1 |-> "k1", t2 |-> "k2"]
MCRequestOf == [t1 |-> "q", t2 |-> "q"]

\* One turn.
MCTurns1 == {"t1"}
MCKeys1 == {"k1"}
MCKeyOf1 == [t1 |-> "k1"]
MCRequestOf1 == [t1 |-> "q"]

MCRetain == {[enabled |-> TRUE, retains |-> TRUE]}
MCPolicies == [enabled : BOOLEAN, retains : BOOLEAN]
=============================================================================

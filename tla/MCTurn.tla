------------------------------- MODULE MCTurn -------------------------------
EXTENDS Turn

\* Two deployments of one universe and one of each other universe, so that a
\* route can hold a failover target and candidates to pass over.
MCKindOf == [c1 |-> "chat", c2 |-> "chat", e1 |-> "embed", m1 |-> "media"]
MCDeployments == DOMAIN MCKindOf
MCRoutes == {<<>>, <<"c1">>, <<"c1", "c2">>, <<"e1", "c2">>, <<"m1", "e1">>}
MCHasTeam == [r1 |-> TRUE]
MCRequests == {"r1"}
=============================================================================

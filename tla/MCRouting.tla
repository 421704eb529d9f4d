----------------------------- MODULE MCRouting ------------------------------
(* Two models of two providers, the first with two deployments and falling *)
(* back to the second and, needlessly, to itself.                          *)
EXTENDS Routing, TLC

Symmetry == Permutations(Reqs)

D(m, p) == [model |-> m, provider |-> p]
Chains == [smart |-> <<"cheap", "smart">>, cheap |-> <<>>]
Full == [smart |-> <<D("m1", "p1"), D("m1", "p2")>>, cheap |-> <<D("m2", "p2")>>]
Partial == [smart |-> <<D("m1", "p2")>>, cheap |-> <<D("m2", "p1"), D("m2", "p2")>>]
SomeTables == {Full, Partial}

SomePolicies ==
    {Unrestricted,
     [Unrestricted EXCEPT !.allowed_provider_ids = {"p1"}],
     [Unrestricted EXCEPT !.allowed_provider_ids = {"p2"}, !.denied_model_ids = {"m1"}],
     [Unrestricted EXCEPT !.allowed_model_ids = {"m1"}, !.denied_provider_ids = {"p2"}]}
AllStrategies == {"simple", "round_robin", "least_busy"}

Open == {Unrestricted}

(* Bound: of the requests at work only one has a grant that denies it      *)
(* something, or was shown a list; the others are there for the counters.  *)
(* A client that was shown a list uses it under the access it had.         *)
Plain(r) == /\ req[r].key = Unrestricted /\ req[r].team = Unrestricted /\ ~req[r].failed
            /\ shown[r] = Unasked
OneNarrow ==
    /\ \A r, q \in Reqs : r = q \/ Plain(r) \/ Plain(q)
    /\ \A r \in Reqs : shown[r] # Unasked /\ req[r].pc # "idle" =>
          shown[r].access = req[r].access
=============================================================================

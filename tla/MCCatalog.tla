----------------------------- MODULE MCCatalog -----------------------------
EXTENDS Catalog, TLC

CONSTANTS m1, m2, n1, n2, n3, p1

\* Starts that differ only in what the models, names and providers are called
\* behave alike: one of them stands for all.
MCInit ==
    /\ Init
    /\ name[m1] = n1 /\ name[m2] = n2 /\ alias[n3] = m1 /\ provider[p1] = 1

MCSpec == MCInit /\ [][Next]_vars

Symmetry == Permutations(Handlers)

AllOperations ==
    {"create_model", "create_deployment", "delete_deployment", "rename_model",
     "create_alias", "delete_alias", "delete_provider"}
=============================================================================

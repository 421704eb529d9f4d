------------------------------ MODULE Catalog ------------------------------
(***************************************************************************)
(* The catalog of models, aliases, providers and deployments: the admin    *)
(* handlers that change it in the store, the reload that follows each      *)
(* change, and the routing table the gateway resolves names against.       *)
(*                                                                         *)
(* Code: yb-server/src/admin.rs and state.rs, yb-store/src/sqlite.rs,      *)
(* yb-gateway/src/router.rs.                                               *)
(*                                                                         *)
(* Each query of the store is a step, but for rename_model, which is one   *)
(* transaction. A handler is dropped where it waits when its client hangs  *)
(* up.                                                                     *)
(***************************************************************************)
EXTENDS Integers, FiniteSets

CONSTANTS
    Models,      \* model ids
    Names,       \* public names
    Providers,   \* provider names
    Handlers,    \* admin handlers that may run at once
    Operations,  \* what they may be asked for
    MaxOps,      \* bound: operations in one behaviour
    MaxFaults    \* bound: reloads that fail, and clients that hang up

None == "-"
ASSUME NoneAssumption == None \notin Models \cup Names \cup Providers
ASSUME OperationsAssumption ==
    Operations \subseteq {"create_model", "create_deployment", "delete_deployment",
                          "rename_model", "create_alias", "delete_alias",
                          "delete_provider"}
ASSUME BoundsAssumption == MaxOps \in Nat /\ MaxFaults \in Nat

Deployments == Models \X Providers

VARIABLES
    name,      \* models.name by id, None for an id not given yet
    alias,     \* model_aliases: the model id of an alias
    provider,  \* how often a provider of this name was made or deleted: when odd,
               \* there is one, and this is its id
    deployed,  \* live rows of deployments, one upstream model each
    snap,      \* DeploymentRouter.snapshot: [models, aliases]
    pc,        \* where a handler is
    req,       \* what it was asked for: [op, name, target, model, provider]
    got,       \* what it has read: [model, provider, models, aliases]
    ops,       \* operations begun
    faults,    \* reloads failed and clients gone
    alone,     \* history: no operation overlapped another or was abandoned
    borne,     \* history: <<n, m>> when n has been a name or an alias of m
    claim,     \* history: [dep, live]: what a handler made of a deployment, until
               \* another one makes something else of it
    unseen     \* history: deployments made since a handler that is about to delete
               \* their provider looked for them

dbVars == <<name, alias, provider, deployed>>
vars == <<dbVars, snap, pc, req, got, ops, faults, alone, borne, claim, unseen>>

NoReq == [op |-> None, name |-> None, target |-> None, model |-> None, provider |-> None]
EmptyTable == [n \in Names |-> {}]
NoAliases == [n \in Names |-> None]
Nothing == [model |-> None, provider |-> 0, models |-> EmptyTable, aliases |-> NoAliases]
NoClaim == [dep |-> <<None, None>>, live |-> FALSE]

Places == {"idle", "alias_free", "insert_model", "insert_provider",
           "insert_deployment", "target", "model_free", "upsert", "write",
           "in_use", "remove", "list_deployments", "list_aliases", "install"}

Tables == [models : [Names -> SUBSET Deployments], aliases : [Names -> Names \cup {None}]]

TypeOK ==
    /\ name \in [Models -> Names \cup {None}]
    /\ alias \in [Names -> Models \cup {None}]
    /\ provider \in [Providers -> Nat]
    /\ deployed \subseteq Deployments
    /\ snap \in Tables
    /\ pc \in [Handlers -> Places]
    /\ req \in [Handlers -> [op : Operations \cup {None}, name : Names \cup {None},
                             target : Names \cup {None}, model : Models \cup {None},
                             provider : Providers \cup {None}]]
    /\ got \in [Handlers -> [model : Models \cup {None}, provider : Nat,
                             models : [Names -> SUBSET Deployments],
                             aliases : [Names -> Names \cup {None}]]]
    /\ claim \in [Handlers -> {NoClaim} \cup [dep : Deployments, live : BOOLEAN]]
    /\ ops \in Nat /\ faults \in Nat /\ alone \in BOOLEAN
    /\ borne \subseteq Names \X Models
    /\ unseen \in [Handlers -> SUBSET Deployments]

-----------------------------------------------------------------------------
(* What the queries of a reload answer, and the routing table.             *)

\* list_deployments, grouped by the model's name (Snapshot::build).
ListDeployments == [n \in Names |-> {d \in deployed : name[d[1]] = n}]

\* Mutant: the target is the model's id.
ListAliasesById == alias

\* list_aliases: the target is the model's present name.
ListAliases == [n \in Names |-> IF alias[n] = None THEN None ELSE name[alias[n]]]

\* One hop of Snapshot::canonical: a model of the snapshot shadows an alias.
Hop(s, n) == IF s.models[n] = {} /\ s.aliases[n] # None THEN s.aliases[n] ELSE n

\* Snapshot::canonical: at most eight hops.
Canonical(s, n) ==
    LET after[i \in 0..8] == IF i = 0 THEN n ELSE Hop(s, after[i - 1])
    IN  after[8]

\* The deployments Router::resolve answers for a name, before its filters.
Candidates(s, n) == s.models[Canonical(s, n)]

\* Two models, each deployed, one of them with a second name.
Init ==
    /\ \E m1, m2 \in Models, n1, n2, a \in Names, p \in Providers :
          /\ m1 # m2 /\ Cardinality({n1, n2, a}) = 3
          /\ name = [m \in Models |-> CASE m = m1 -> n1 [] m = m2 -> n2 [] OTHER -> None]
          /\ alias = [n \in Names |-> IF n = a THEN m1 ELSE None]
          /\ provider = [q \in Providers |-> IF q = p THEN 1 ELSE 0]
          /\ deployed = {m1, m2} \X {p}
          /\ borne = {<<n1, m1>>, <<n2, m2>>, <<a, m1>>}
    /\ snap = [models |-> ListDeployments, aliases |-> ListAliases]
    /\ pc = [h \in Handlers |-> "idle"]
    /\ req = [h \in Handlers |-> NoReq]
    /\ got = [h \in Handlers |-> Nothing]
    /\ claim = [h \in Handlers |-> NoClaim]
    /\ ops = 0 /\ faults = 0 /\ alone = TRUE
    /\ unseen = [h \in Handlers |-> {}]

-----------------------------------------------------------------------------
(* Helpers.                                                                *)

Goes(h, place) == pc' = [pc EXCEPT ![h] = place]

\* The handler answers, with an error or not.
Answers(h) ==
    /\ Goes(h, "idle")
    /\ req' = [req EXCEPT ![h] = NoReq]
    /\ got' = [got EXCEPT ![h] = Nothing]

\* h has made d live or not: what others made of it no longer counts.
Claims(h, d, live) ==
    claim' = [g \in Handlers |->
        CASE g = h -> [dep |-> d, live |-> live]
          [] g # h /\ claim[g].dep = d -> NoClaim
          [] OTHER -> claim[g]]

\* There is a provider of this name.
Present(p) == provider[p] % 2 = 1

Unclaims(ds) ==
    claim' = [g \in Handlers |-> IF claim[g].dep \in ds THEN NoClaim ELSE claim[g]]

-----------------------------------------------------------------------------
(* The handlers up to their write.                                         *)

FirstPlace(op) ==
    CASE op \in {"create_model", "create_deployment"} -> "alias_free"
      [] op = "create_alias" -> "target"
      [] op = "delete_provider" -> "in_use"
      [] OTHER -> "write"

Creating == {"create_model", "create_deployment"}

\* What a request of each kind names. create_alias refuses an alias of its own
\* name. There is an id left for each model that is being created.
Requests ==
    {x \in [op : Operations, name : Names \cup {None}, target : Names \cup {None},
            model : Models \cup {None}, provider : Providers \cup {None}] :
        /\ x.name = None <=> x.op \in {"delete_deployment", "delete_provider"}
        /\ x.target = None <=> x.op # "create_alias"
        /\ x.model = None <=> x.op \notin {"rename_model", "delete_deployment"}
        /\ x.provider = None <=>
              x.op \notin {"create_deployment", "delete_deployment", "delete_provider"}
        /\ x.op = "create_alias" => x.name # x.target}

Begin(h) ==
    /\ pc[h] = "idle" /\ ops < MaxOps
    /\ \E x \in Requests :
          /\ x.model # None => name[x.model] # None
          /\ x.op \in Creating =>
                Cardinality({g \in Handlers : req[g].op \in Creating})
                   < Cardinality({m \in Models : name[m] = None})
          /\ req' = [req EXCEPT ![h] = x]
          /\ got' = IF x.op = "delete_provider"
                      THEN [got EXCEPT ![h].provider = provider[x.provider]] ELSE got
          /\ Goes(h, FirstPlace(x.op))
    /\ ops' = ops + 1
    /\ alone' = (alone /\ \A g \in Handlers : pc[g] = "idle")
    /\ claim' = [claim EXCEPT ![h] = NoClaim]
    /\ UNCHANGED <<dbVars, snap, faults, borne, unseen>>

\* ensure_model: the name must not be an alias.
AliasFree(h) ==
    /\ pc[h] = "alias_free"
    /\ IF alias[req[h].name] # None
         THEN Answers(h)
         ELSE Goes(h, "insert_model") /\ UNCHANGED <<req, got>>
    /\ UNCHANGED <<dbVars, snap, ops, faults, alone, borne, claim, unseen>>

\* ensure_model: INSERT ... ON CONFLICT(name), one statement.
InsertModel(h) ==
    /\ pc[h] = "insert_model"
    /\ \E m \in Models :
          /\ \/ name[m] = req[h].name /\ UNCHANGED <<name, borne>>
             \/ /\ name[m] = None /\ \A x \in Models : name[x] # req[h].name
                /\ name' = [name EXCEPT ![m] = req[h].name]
                /\ borne' = borne \cup {<<req[h].name, m>>}
          /\ got' = [got EXCEPT ![h].model = m]
    /\ Goes(h, IF req[h].op = "create_model" THEN "list_deployments"
                                             ELSE "insert_provider")
    /\ UNCHANGED <<alias, provider, deployed, snap, req, ops, faults, alone, claim, unseen>>

\* ensure_provider, one statement.
InsertProvider(h) ==
    /\ pc[h] = "insert_provider"
    /\ LET p == req[h].provider IN
         /\ provider' = [provider EXCEPT ![p] = IF Present(p) THEN @ ELSE @ + 1]
         /\ got' = [got EXCEPT ![h].provider = provider'[p]]
    /\ Goes(h, "insert_deployment")
    /\ UNCHANGED <<name, alias, deployed, snap, req, ops, faults, alone, borne, claim, unseen>>

\* The row is refused when its provider is gone or it exists already.
InsertDeployment(h) ==
    /\ pc[h] = "insert_deployment"
    /\ LET d == <<got[h].model, req[h].provider>> IN
         IF provider[req[h].provider] # got[h].provider \/ d \in deployed
           THEN Answers(h) /\ UNCHANGED <<deployed, claim, unseen>>
           ELSE /\ deployed' = deployed \cup {d}
                /\ Claims(h, d, TRUE)
                /\ unseen' = [g \in Handlers |->
                      IF pc[g] = "remove" /\ req[g].provider = req[h].provider
                        THEN unseen[g] \cup {d} ELSE unseen[g]]
                /\ Goes(h, "list_deployments")
                /\ UNCHANGED <<req, got>>
    /\ UNCHANGED <<name, alias, provider, snap, ops, faults, alone, borne>>

\* create_alias: the target must be a model's name.
Target(h) ==
    /\ pc[h] = "target"
    /\ IF \E m \in Models : name[m] = req[h].target
         THEN /\ \E m \in Models : /\ name[m] = req[h].target
                                   /\ got' = [got EXCEPT ![h].model = m]
              /\ Goes(h, "model_free") /\ UNCHANGED req
         ELSE Answers(h)
    /\ UNCHANGED <<dbVars, snap, ops, faults, alone, borne, claim, unseen>>

\* Mutant: the alias may be a model's name.
ModelFreeUnchecked(h) ==
    /\ pc[h] = "model_free"
    /\ Goes(h, "upsert")
    /\ UNCHANGED <<dbVars, snap, req, got, ops, faults, alone, borne, claim, unseen>>

\* create_alias: the alias must not be a model's name.
ModelFree(h) ==
    /\ pc[h] = "model_free"
    /\ IF \E m \in Models : name[m] = req[h].name
         THEN Answers(h)
         ELSE Goes(h, "upsert") /\ UNCHANGED <<req, got>>
    /\ UNCHANGED <<dbVars, snap, ops, faults, alone, borne, claim, unseen>>

\* upsert_alias
Upsert(h) ==
    /\ pc[h] = "upsert"
    /\ alias' = [alias EXCEPT ![req[h].name] = got[h].model]
    /\ borne' = borne \cup {<<req[h].name, got[h].model>>}
    /\ Goes(h, "list_deployments")
    /\ UNCHANGED <<name, provider, deployed, snap, req, got, ops, faults, alone, claim, unseen>>

\* Mutant: the old name is not kept.
RenameModelNoAlias(h) ==
    LET m == req[h].model
        n == req[h].name
    IN
    /\ pc[h] = "write" /\ req[h].op = "rename_model"
    /\ IF (\E x \in Models \ {m} : name[x] = n) \/ alias[n] \notin {None, m}
         THEN Answers(h) /\ UNCHANGED <<name, alias, borne>>
         ELSE /\ name' = [name EXCEPT ![m] = n]
              /\ alias' = [alias EXCEPT ![n] = None]
              /\ borne' = borne \cup {<<n, m>>}
              /\ Goes(h, "list_deployments") /\ UNCHANGED <<req, got>>
    /\ UNCHANGED <<provider, deployed, snap, ops, faults, alone, claim, unseen>>

\* rename_model: the new name belongs to no other model and is no other model's
\* alias; an alias of this one is consumed, and the old name becomes one.
RenameModel(h) ==
    LET m == req[h].model
        n == req[h].name
    IN
    /\ pc[h] = "write" /\ req[h].op = "rename_model"
    /\ CASE name[m] = n ->
              Goes(h, "list_deployments") /\ UNCHANGED <<name, alias, borne, req, got>>
         [] name[m] # n /\ ((\E x \in Models \ {m} : name[x] = n) \/ alias[n] \notin {None, m}) ->
              Answers(h) /\ UNCHANGED <<name, alias, borne>>
         [] OTHER ->
              /\ name' = [name EXCEPT ![m] = n]
              /\ alias' = [alias EXCEPT ![n] = None, ![name[m]] = m]
              /\ borne' = borne \cup {<<n, m>>}
              /\ Goes(h, "list_deployments") /\ UNCHANGED <<req, got>>
    /\ UNCHANGED <<provider, deployed, snap, ops, faults, alone, claim, unseen>>

DeleteAlias(h) ==
    /\ pc[h] = "write" /\ req[h].op = "delete_alias"
    /\ alias' = [alias EXCEPT ![req[h].name] = None]
    /\ Goes(h, "list_deployments")
    /\ UNCHANGED <<name, provider, deployed, snap, req, got, ops, faults, alone, borne, claim, unseen>>

\* A soft delete; one that finds nothing is no error.
DeleteDeployment(h) ==
    /\ pc[h] = "write" /\ req[h].op = "delete_deployment"
    /\ LET d == <<req[h].model, req[h].provider>> IN
         /\ deployed' = deployed \ {d}
         /\ Claims(h, d, FALSE)
    /\ Goes(h, "list_deployments")
    /\ UNCHANGED <<name, alias, provider, snap, req, got, ops, faults, alone, borne, unseen>>

\* Mutant: the provider's deployments are not looked at.
InUseUnchecked(h) ==
    /\ pc[h] = "in_use"
    /\ Goes(h, "remove")
    /\ UNCHANGED <<dbVars, snap, req, got, ops, faults, alone, borne, claim, unseen>>

\* delete_provider: refused while the provider of this id has deployments.
InUse(h) ==
    /\ pc[h] = "in_use"
    /\ IF \E d \in deployed : d[2] = req[h].provider /\ provider[d[2]] = got[h].provider
         THEN Answers(h)
         ELSE Goes(h, "remove") /\ UNCHANGED <<req, got>>
    /\ UNCHANGED <<dbVars, snap, ops, faults, alone, borne, claim, unseen>>

\* DELETE FROM providers, by the id, which cascades.
Remove(h) ==
    /\ pc[h] = "remove"
    /\ LET p == req[h].provider
           ds == {d \in deployed : d[2] = p}
       IN IF Present(p) /\ provider[p] = got[h].provider
            THEN /\ provider' = [provider EXCEPT ![p] = @ + 1]
                 /\ deployed' = deployed \ ds
                 /\ Unclaims(ds)
            ELSE UNCHANGED <<provider, deployed, claim>>
    /\ unseen' = [unseen EXCEPT ![h] = {}]
    /\ Goes(h, "list_deployments")
    /\ UNCHANGED <<name, alias, snap, req, got, ops, faults, alone, borne>>

-----------------------------------------------------------------------------
(* reload_models.                                                          *)

\* Mutant: the table is read from what is installed, not from the store.
ReadDeploymentsStale(h) ==
    /\ pc[h] = "list_deployments"
    /\ got' = [got EXCEPT ![h].models = snap.models]
    /\ Goes(h, "list_aliases")
    /\ UNCHANGED <<dbVars, snap, req, ops, faults, alone, borne, claim, unseen>>

ReadDeployments(h) ==
    /\ pc[h] = "list_deployments"
    /\ got' = [got EXCEPT ![h].models = ListDeployments]
    /\ Goes(h, "list_aliases")
    /\ UNCHANGED <<dbVars, snap, req, ops, faults, alone, borne, claim, unseen>>

\* Mutant: the aliases are kept as they were.
ReadAliasesStale(h) ==
    /\ pc[h] = "list_aliases"
    /\ got' = [got EXCEPT ![h].aliases = snap.aliases]
    /\ Goes(h, "install")
    /\ UNCHANGED <<dbVars, snap, req, ops, faults, alone, borne, claim, unseen>>

ReadAliases(h) ==
    /\ pc[h] = "list_aliases"
    /\ got' = [got EXCEPT ![h].aliases = ListAliases]
    /\ Goes(h, "install")
    /\ UNCHANGED <<dbVars, snap, req, ops, faults, alone, borne, claim, unseen>>

\* DeploymentRouter::reload, and the answer.
Install(h) ==
    /\ pc[h] = "install"
    /\ snap' = [models |-> got[h].models, aliases |-> got[h].aliases]
    /\ Answers(h)
    /\ UNCHANGED <<dbVars, ops, faults, alone, borne, claim, unseen>>

\* A query of the reload fails, or the client hangs up and the handler is
\* dropped: nothing is undone.
Abandoned(h) ==
    /\ pc[h] # "idle" /\ faults < MaxFaults
    /\ faults' = faults + 1
    /\ alone' = FALSE
    /\ unseen' = [unseen EXCEPT ![h] = {}]
    /\ Answers(h)
    /\ UNCHANGED <<dbVars, snap, ops, borne, claim>>

\* No operation is left to do.
Rest == ops = MaxOps /\ (\A h \in Handlers : pc[h] = "idle") /\ UNCHANGED vars

HandlerStep(h) ==
    \/ AliasFree(h) \/ InsertModel(h) \/ InsertProvider(h) \/ InsertDeployment(h)
    \/ Target(h) \/ ModelFree(h) \/ Upsert(h)
    \/ RenameModel(h) \/ DeleteAlias(h) \/ DeleteDeployment(h) \/ InUse(h) \/ Remove(h)
    \/ ReadDeployments(h) \/ ReadAliases(h) \/ Install(h)

Next == (\E h \in Handlers : Begin(h) \/ HandlerStep(h) \/ Abandoned(h)) \/ Rest

Spec == Init /\ [][Next]_vars

-----------------------------------------------------------------------------
(* Properties.                                                             *)

\* The model a name stands for in the store: a model's own name comes first.
MeantBy(n) ==
    IF \E m \in Models : name[m] = n
      THEN {m \in Models : name[m] = n}
      ELSE {alias[n]} \ {None}

\* Renaming breaks no client: every name that stood for a model before a model
\* changed its name stands for the same one after it, and no two models share a
\* name, whoever else writes at the same time (store.rs:133-143, rename_model).
RenameKeepsNames ==
    [][(\E m \in Models : name[m] # None /\ name'[m] # name[m]) =>
          /\ \A n \in Names : MeantBy(n) # {} => MeantBy(n)' = MeantBy(n)
          /\ \A m, x \in Models : m # x /\ name'[m] # None => name'[m] # name'[x]]_vars

\* A handler that answers has its own deployment or deletion in the table it
\* installs, unless another one changed that deployment since, however reloads
\* overlap.
OwnWriteIsServed ==
    [][\A h \in Handlers :
          pc[h] = "install" /\ pc'[h] = "idle" /\ faults' = faults /\ claim[h] # NoClaim =>
             (claim[h].live <=> \E n \in Names : claim[h].dep \in snap'.models[n])]_vars

\* delete_provider looks for live deployments in one query and deletes with a
\* cascade in another (sqlite.rs:1301-1319). Whoever makes and deletes deployments
\* and providers of the same name meanwhile, all that it takes with it was made
\* between the two: nothing that was there when it looked, and nothing of a provider
\* that was made anew.
ReapsOnlyUnseen ==
    [][\A h \in Handlers :
          pc[h] = "remove" /\ pc'[h] # "remove" =>
             \A d \in deployed \ deployed' : d \in unseen[h] /\ provider[d[2]] = got[h].provider]_vars

-----------------------------------------------------------------------------
(* What the docs say of the catalog. With operations that overlap, or one  *)
(* that is abandoned, the model refutes each; without, they hold.          *)

\* README:51 "changes hot-reload without a restart"; state.rs:59 the table is
\* rebuilt "from the current database deployments". When no handler is at work
\* the table is the store's.
TableIsCurrent ==
    (\A h \in Handlers : pc[h] = "idle") =>
       snap = [models |-> ListDeployments, aliases |-> ListAliases]

\* sqlite.rs:1093 and admin.rs:1557 "A name is either a model's or an alias's,
\* never both".
NameIsOneThing ==
    \A n \in Names : alias[n] # None => \A m \in Models : name[m] # n

\* model.rs:323-324 requests for an alias "resolve as if they named the model's
\* own name". A request is routed to no model that never had the name it gives.
NoForeignRoute ==
    \A n \in Names : \A d \in Candidates(snap, n) : <<n, d[1]>> \in borne

\* 0000_initial.sql:176 "Deleting a provider that still has *live* deployments is
\* refused in the store".
NoLiveDeploymentReaped ==
    [][\A h \in Handlers :
          pc[h] = "remove" /\ pc'[h] = "list_deployments" => deployed' = deployed]_vars

\* As long as operations come one at a time and none is abandoned, the table is
\* the store's after each of them: reload_models at the end of every handler.
SerialTable == alone => TableIsCurrent

\* Under the same condition the checks of ensure_model, create_alias and
\* rename_model keep the names of models and aliases apart.
SerialNames == alone => NameIsOneThing

\* Under the same condition no sequence of renames, new aliases, deletions and
\* creations over old names makes a name reach a model that never had it.
SerialRoutes == alone => NoForeignRoute
=============================================================================

--------------------------- MODULE CatalogProofs ----------------------------
(***************************************************************************)
(* Proofs about Catalog, for any models, names, providers and handlers and *)
(* any bounds.                                                             *)
(***************************************************************************)
EXTENDS Catalog, FiniteSetTheorems, TLAPS

-----------------------------------------------------------------------------
(* Type correctness, with what a handler has in hand at each place.        *)

\* What a handler has read, and what it was asked for.
Results == [model : Models \cup {None}, provider : Nat,
            models : [Names -> SUBSET Deployments],
            aliases : [Names -> Names \cup {None}]]

ReqType == [op : Operations \cup {None}, name : Names \cup {None},
            target : Names \cup {None}, model : Models \cup {None},
            provider : Providers \cup {None}]

\* At each place the request is one that leads there, and a model that is about to
\* be written has been read.
InHand(h) ==
    /\ pc[h] # "idle" => req[h] \in Requests
    /\ pc[h] \in {"alias_free", "insert_model"} => req[h].op \in Creating
    /\ pc[h] \in {"insert_provider", "insert_deployment"} => req[h].op = "create_deployment"
    /\ pc[h] \in {"target", "model_free", "upsert"} => req[h].op = "create_alias"
    /\ pc[h] = "write" => req[h].op \in {"rename_model", "delete_alias", "delete_deployment"}
    /\ pc[h] \in {"in_use", "remove"} => req[h].op = "delete_provider"
    /\ pc[h] \in {"insert_provider", "insert_deployment", "model_free", "upsert"} =>
          got[h].model \in Models

TypeInv == TypeOK /\ \A h \in Handlers : InHand(h)

\* What a request of each kind names (the bodies the admin handlers take).
LEMMA RequestsType ==
    ASSUME NEW x \in Requests
    PROVE  /\ x \in ReqType
           /\ x.op \in Operations
           /\ x.op \notin {"delete_deployment", "delete_provider"} => x.name \in Names
           /\ x.op \in {"rename_model", "delete_deployment"} => x.model \in Models
           /\ x.op \in {"create_deployment", "delete_deployment", "delete_provider"} =>
                 x.provider \in Providers
           /\ x.op = "create_alias" => x.target \in Names /\ x.name # x.target
  BY NoneAssumption DEF Requests, ReqType

\* What list_deployments and list_aliases answer.
LEMMA ListsType ==
    ASSUME TypeOK
    PROVE  /\ ListDeployments \in [Names -> SUBSET Deployments]
           /\ ListAliases \in [Names -> Names \cup {None}]
  <1>1. ListDeployments \in [Names -> SUBSET Deployments]
    BY DEF TypeOK, ListDeployments
  <1>2. ListAliases \in [Names -> Names \cup {None}]
    BY DEF TypeOK, ListAliases
  <1> QED
    BY <1>1, <1>2

\* A handler begins with nothing in hand.
LEMMA NothingType == Nothing \in Results /\ NoReq \in ReqType
  BY DEF Nothing, Results, EmptyTable, NoAliases, NoReq, ReqType

-----------------------------------------------------------------------------
(* The inductive invariants.                                               *)

\* No two models share a name.
NamesApart ==
    \A m, x \in Models : m # x /\ name[m] # None => name[m] # name[x]

\* What refers to a model refers to one that has a name.
Named ==
    /\ \A d \in deployed : name[d[1]] # None
    /\ \A n \in Names : alias[n] # None => name[alias[n]] # None
    /\ \A h \in Handlers :
          pc[h] \in {"insert_provider", "insert_deployment", "model_free", "upsert"} =>
             name[got[h].model] # None

\* The history has every name and alias there is.
Recorded ==
    /\ \A m \in Models : name[m] # None => <<name[m], m>> \in borne
    /\ \A n \in Names : alias[n] # None => <<n, alias[n]>> \in borne

\* A claim is what the store has of the deployment, and what the handler has read
\* since.
ClaimHolds(h) ==
    claim[h] # NoClaim =>
       /\ claim[h].live <=> claim[h].dep \in deployed
       /\ pc[h] \in {"list_aliases", "install"} =>
             (claim[h].live <=> \E n \in Names : claim[h].dep \in got[h].models[n])

Stored == [models |-> ListDeployments, aliases |-> ListAliases]
Reloading == {"list_deployments", "list_aliases", "install"}

\* A table in which a name is one hop from a model that has had it.
Routed(s) ==
    \A n \in Names :
       /\ Hop(s, Hop(s, n)) = Hop(s, n)
       /\ \A d \in s.models[Hop(s, n)] : <<n, d[1]>> \in borne

\* One operation at a time: what was checked still holds, and outside of a reload
\* the table is the store's.
Serial ==
    /\ \A g, h \in Handlers : pc[g] # "idle" /\ pc[h] # "idle" => g = h
    /\ NameIsOneThing
    /\ Routed(snap)
    /\ (\A h \in Handlers : pc[h] \notin Reloading) => snap = Stored
    /\ \A h \in Handlers :
          /\ pc[h] = "insert_model" => alias[req[h].name] = None
          /\ pc[h] = "upsert" => \A m \in Models : name[m] # req[h].name
          /\ pc[h] \in {"list_aliases", "install"} => got[h].models = ListDeployments
          /\ pc[h] = "install" => got[h].aliases = ListAliases

\* The provider that h looked at is not younger than the one there is; while it is
\* the same, all its deployments were made since h looked.
Watched(h) ==
    /\ pc[h] \in {"in_use", "remove"} => got[h].provider <= provider[req[h].provider]
    /\ pc[h] = "remove" /\ provider[req[h].provider] = got[h].provider =>
          \A d \in deployed : d[2] = req[h].provider => d \in unseen[h]

CatalogInv ==
    /\ TypeInv
    /\ NamesApart
    /\ Named
    /\ Recorded
    /\ \A h \in Handlers : Watched(h)
    /\ \A h \in Handlers : ClaimHolds(h)
    /\ alone => Serial


-----------------------------------------------------------------------------
(* Type correctness.                                                       *)

\* An answer leaves the handler with nothing in hand.
LEMMA AnswersType ==
    ASSUME TypeInv, NEW h \in Handlers, Answers(h)
    PROVE  /\ pc' \in [Handlers -> Places]
           /\ req' \in [Handlers -> ReqType]
           /\ got' \in [Handlers -> Results]
           /\ \A g \in Handlers : InHand(g)'
  <1> USE DEF TypeInv, TypeOK
  <1>1. pc' \in [Handlers -> Places] /\ pc'[h] = "idle"
    BY DEF Answers, Goes, Places
  <1>2. req' \in [Handlers -> ReqType] /\ got' \in [Handlers -> Results]
    BY NothingType DEF Answers, ReqType, Results
  <1>3. ASSUME NEW g \in Handlers PROVE InHand(g)'
    <2>1. CASE g = h
      BY <1>1, <2>1 DEF InHand
    <2>2. CASE g # h
      <3>1. pc'[g] = pc[g] /\ req'[g] = req[g] /\ got'[g] = got[g]
        BY <2>2 DEF Answers, Goes
      <3> QED
        BY <3>1 DEF InHand
    <2> QED
      BY <2>1, <2>2
  <1> QED
    BY <1>1, <1>2, <1>3

\* A step that moves h alone and leaves what it was asked for.
LEMMA GoesType ==
    ASSUME TypeInv, NEW h \in Handlers, NEW place \in Places, Goes(h, place),
           req' = req, got' \in [Handlers -> Results],
           \A g \in Handlers : g # h => got'[g] = got[g],
           InHand(h)'
    PROVE  /\ pc' \in [Handlers -> Places]
           /\ \A g \in Handlers : InHand(g)'
  <1>1. pc' \in [Handlers -> Places]
    BY DEF TypeInv, TypeOK, Goes
  <1>2. ASSUME NEW g \in Handlers PROVE InHand(g)'
    <2>1. CASE g # h
      <3>1. pc'[g] = pc[g] /\ req'[g] = req[g] /\ got'[g] = got[g]
        BY <2>1 DEF TypeInv, TypeOK, Goes
      <3> QED
        BY <3>1 DEF InHand, TypeInv
    <2> QED
      BY <2>1
  <1> QED
    BY <1>1, <1>2

\* What a claim writes.
LEMMA ClaimsType ==
    ASSUME TypeOK, NEW h \in Handlers, NEW d \in Deployments, NEW live \in BOOLEAN,
           Claims(h, d, live)
    PROVE  claim' \in [Handlers -> {NoClaim} \cup [dep : Deployments, live : BOOLEAN]]
  BY DEF TypeOK, Claims

\* The first state is well typed.
LEMMA TypeInit == Init => TypeInv
  <1> SUFFICES ASSUME Init PROVE TypeInv
    OBVIOUS
  <1>1. PICK m1 \in Models, m2 \in Models, n1 \in Names, n2 \in Names, a \in Names,
             p \in Providers :
          /\ name = [m \in Models |-> CASE m = m1 -> n1 [] m = m2 -> n2 [] OTHER -> None]
          /\ alias = [n \in Names |-> IF n = a THEN m1 ELSE None]
          /\ provider = [q \in Providers |-> IF q = p THEN 1 ELSE 0]
          /\ deployed = {m1, m2} \X {p}
          /\ borne = {<<n1, m1>>, <<n2, m2>>, <<a, m1>>}
    BY DEF Init
  <1>2. /\ name \in [Models -> Names \cup {None}]
        /\ alias \in [Names -> Models \cup {None}]
        /\ provider \in [Providers -> Nat]
        /\ borne \subseteq Names \X Models
    BY <1>1
  <1>3. deployed \subseteq Deployments
    BY <1>1 DEF Deployments
  <1>4. snap \in Tables
    <2>1. /\ ListDeployments \in [Names -> SUBSET Deployments]
          /\ ListAliases \in [Names -> Names \cup {None}]
      BY <1>2, <1>3 DEF ListDeployments, ListAliases
    <2> QED
      BY <2>1 DEF Init, Tables
  <1>5. /\ pc \in [Handlers -> Places]
        /\ req \in [Handlers -> ReqType]
        /\ got \in [Handlers -> Results]
    BY NothingType DEF Init, Places, ReqType
  <1>6. /\ claim \in [Handlers -> {NoClaim} \cup [dep : Deployments, live : BOOLEAN]]
        /\ ops \in Nat /\ faults \in Nat /\ alone \in BOOLEAN
        /\ unseen \in [Handlers -> SUBSET Deployments]
    BY DEF Init
  <1>7. \A h \in Handlers : InHand(h)
    BY DEF Init, InHand
  <1> QED
    BY <1>2, <1>3, <1>4, <1>5, <1>6, <1>7 DEF TypeInv, TypeOK, ReqType, Results

\* A step that answers, or goes on with the same request, keeps the types when what
\* it writes in the store does.
LEMMA TypeStep ==
    ASSUME TypeInv, NEW h \in Handlers, HandlerStep(h)
    PROVE  TypeInv'
  <1> USE DEF TypeInv
  <1>0. /\ TypeOK /\ InHand(h)
        /\ \A g \in Handlers : InHand(g)
        /\ req \in [Handlers -> ReqType] /\ got \in [Handlers -> Results]
        /\ pc \in [Handlers -> Places]
    BY DEF TypeOK, ReqType, Results
  <1>1. CASE AliasFree(h)
    <2>1. CASE Answers(h)
      BY <1>1, <2>1, AnswersType DEF AliasFree, TypeOK, dbVars, ReqType, Results
    <2>2. CASE ~Answers(h)
      <3>1. Goes(h, "insert_model") /\ UNCHANGED <<req, got>> /\ "insert_model" \in Places
        BY <1>1, <2>2 DEF AliasFree, Places
      <3>2. pc'[h] = "insert_model" /\ pc[h] = "alias_free"
        BY <1>0, <1>1, <3>1 DEF Goes, AliasFree
      <3>3. InHand(h)'
        BY <1>0, <3>1, <3>2 DEF InHand
      <3>4. pc' \in [Handlers -> Places] /\ \A g \in Handlers : InHand(g)'
        BY <1>0, <3>1, <3>3, GoesType
      <3> QED
        BY <1>0, <1>1, <3>1, <3>4 DEF AliasFree, TypeOK, dbVars
    <2> QED
      BY <2>1, <2>2
  <1>2. CASE InsertModel(h)
    <2> DEFINE place == IF req[h].op = "create_model" THEN "list_deployments"
                                                      ELSE "insert_provider"
    <2>1. req[h] \in Requests /\ req[h].op \in Creating
      BY <1>0, <1>2 DEF InHand, InsertModel
    <2>2. req[h].name \in Names
      BY <2>1, RequestsType DEF Creating
    <2>3. PICK m \in Models :
            /\ \/ name[m] = req[h].name /\ UNCHANGED <<name, borne>>
               \/ /\ name' = [name EXCEPT ![m] = req[h].name]
                  /\ borne' = borne \cup {<<req[h].name, m>>}
            /\ got' = [got EXCEPT ![h].model = m]
      BY <1>2 DEF InsertModel
    <2>4. name' \in [Models -> Names \cup {None}] /\ borne' \subseteq Names \X Models
      <3>1. name' \in [Models -> Names \cup {None}]
        BY <1>0, <2>2, <2>3 DEF TypeOK
      <3>2. borne' \subseteq Names \X Models
        <4>1. <<req[h].name, m>> \in Names \X Models /\ borne \subseteq Names \X Models
          BY <1>0, <2>2, <2>3 DEF TypeOK
        <4> QED
          BY <2>3, <4>1
      <3> QED
        BY <3>1, <3>2
    <2>5. /\ got' \in [Handlers -> Results] /\ got'[h].model = m
          /\ \A g \in Handlers : g # h => got'[g] = got[g]
      BY <1>0, <2>3 DEF Results
    <2>6. Goes(h, place) /\ req' = req /\ place \in Places
      BY <1>2 DEF InsertModel, Places
    <2>7. pc'[h] = place
      BY <1>0, <2>6 DEF Goes
    <2>8. InHand(h)'
      BY <2>1, <2>5, <2>6, <2>7 DEF InHand, Creating
    <2>9. pc' \in [Handlers -> Places] /\ \A g \in Handlers : InHand(g)'
      BY <2>5, <2>6, <2>8, GoesType
    <2> QED
      BY <1>0, <1>2, <2>4, <2>5, <2>6, <2>9 DEF InsertModel, TypeOK, Results
  <1>3. CASE InsertProvider(h)
    <2>1. req[h] \in Requests /\ req[h].op = "create_deployment" /\ got[h].model \in Models
      BY <1>0, <1>3 DEF InHand, InsertProvider
    <2>2. req[h].provider \in Providers
      BY <2>1, RequestsType
    <2>3. provider' \in [Providers -> Nat]
      BY <1>0, <1>3, <2>2 DEF InsertProvider, TypeOK
    <2>4. /\ got' \in [Handlers -> Results] /\ got'[h].model = got[h].model
          /\ \A g \in Handlers : g # h => got'[g] = got[g]
      <3>1. PICK i \in Nat : got' = [got EXCEPT ![h].provider = i]
        BY <1>3, <2>2, <2>3 DEF InsertProvider
      <3> QED
        BY <1>0, <3>1 DEF Results
    <2>5. Goes(h, "insert_deployment") /\ req' = req /\ "insert_deployment" \in Places
      BY <1>3 DEF InsertProvider, Places
    <2>6. pc'[h] = "insert_deployment"
      BY <1>0, <2>5 DEF Goes
    <2>7. InHand(h)'
      BY <2>1, <2>4, <2>5, <2>6 DEF InHand
    <2>8. pc' \in [Handlers -> Places] /\ \A g \in Handlers : InHand(g)'
      BY <2>4, <2>5, <2>7, GoesType
    <2> QED
      BY <1>0, <1>3, <2>3, <2>4, <2>5, <2>8 DEF InsertProvider, TypeOK, Results
  <1>4. CASE InsertDeployment(h)
    <2> DEFINE d == <<got[h].model, req[h].provider>>
    <2>1. /\ req[h] \in Requests /\ req[h].op = "create_deployment"
          /\ got[h].model \in Models
      BY <1>0, <1>4 DEF InHand, InsertDeployment
    <2>2. d \in Deployments
      BY <2>1, RequestsType DEF Deployments
    <2>3. CASE Answers(h) /\ UNCHANGED <<deployed, claim, unseen>>
      BY <1>4, <2>3, AnswersType DEF InsertDeployment, TypeOK, ReqType, Results
    <2>4. CASE ~(Answers(h) /\ UNCHANGED <<deployed, claim, unseen>>)
      <3>1. /\ deployed' = deployed \cup {d} /\ Claims(h, d, TRUE)
            /\ Goes(h, "list_deployments") /\ UNCHANGED <<req, got>>
            /\ "list_deployments" \in Places
        BY <1>4, <2>4 DEF InsertDeployment, Places
      <3>2. pc'[h] = "list_deployments"
        BY <1>0, <3>1 DEF Goes
      <3>3. InHand(h)'
        BY <2>1, <3>1, <3>2 DEF InHand
      <3>4. pc' \in [Handlers -> Places] /\ \A g \in Handlers : InHand(g)'
        BY <1>0, <3>1, <3>3, GoesType
      <3>5. claim' \in [Handlers -> {NoClaim} \cup [dep : Deployments, live : BOOLEAN]]
        BY <1>0, <2>2, <3>1, ClaimsType
      <3>6. deployed' \subseteq Deployments
        BY <1>0, <2>2, <3>1 DEF TypeOK
      <3>7. unseen' \in [Handlers -> SUBSET Deployments]
        <4>1. unseen' = [g \in Handlers |->
                  IF pc[g] = "remove" /\ req[g].provider = req[h].provider
                    THEN unseen[g] \cup {d} ELSE unseen[g]]
          BY <1>4, <2>4 DEF InsertDeployment
        <4> QED
          BY <1>0, <2>2, <4>1 DEF TypeOK
      <3> QED
        BY <1>0, <1>4, <3>1, <3>4, <3>5, <3>6, <3>7 DEF InsertDeployment, TypeOK
    <2> QED
      BY <2>3, <2>4
  <1>5. CASE Target(h)
    <2>1. CASE Answers(h)
      BY <1>5, <2>1, AnswersType DEF Target, TypeOK, dbVars, ReqType, Results
    <2>2. CASE ~Answers(h)
      <3>1. PICK m \in Models : got' = [got EXCEPT ![h].model = m]
        BY <1>5, <2>2 DEF Target
      <3>2. /\ got' \in [Handlers -> Results] /\ got'[h].model = m
            /\ \A g \in Handlers : g # h => got'[g] = got[g]
        BY <1>0, <3>1 DEF Results
      <3>3. Goes(h, "model_free") /\ req' = req /\ "model_free" \in Places /\ pc[h] = "target"
        BY <1>5, <2>2 DEF Target, Places
      <3>4. pc'[h] = "model_free"
        BY <1>0, <3>3 DEF Goes
      <3>5. InHand(h)'
        BY <1>0, <3>2, <3>3, <3>4 DEF InHand
      <3>6. pc' \in [Handlers -> Places] /\ \A g \in Handlers : InHand(g)'
        BY <3>2, <3>3, <3>5, GoesType
      <3> QED
        BY <1>0, <1>5, <3>2, <3>3, <3>6 DEF Target, TypeOK, dbVars, Results
    <2> QED
      BY <2>1, <2>2
  <1>6. CASE ModelFree(h)
    <2>1. CASE Answers(h)
      BY <1>6, <2>1, AnswersType DEF ModelFree, TypeOK, dbVars, ReqType, Results
    <2>2. CASE ~Answers(h)
      <3>1. Goes(h, "upsert") /\ UNCHANGED <<req, got>> /\ "upsert" \in Places
        BY <1>6, <2>2 DEF ModelFree, Places
      <3>2. pc'[h] = "upsert" /\ pc[h] = "model_free"
        BY <1>0, <1>6, <3>1 DEF Goes, ModelFree
      <3>3. InHand(h)'
        BY <1>0, <3>1, <3>2 DEF InHand
      <3>4. pc' \in [Handlers -> Places] /\ \A g \in Handlers : InHand(g)'
        BY <1>0, <3>1, <3>3, GoesType
      <3> QED
        BY <1>0, <1>6, <3>1, <3>4 DEF ModelFree, TypeOK, dbVars
    <2> QED
      BY <2>1, <2>2
  <1>7. CASE Upsert(h)
    <2>1. /\ req[h] \in Requests /\ req[h].op = "create_alias" /\ got[h].model \in Models
      BY <1>0, <1>7 DEF InHand, Upsert
    <2>2. req[h].name \in Names
      BY <2>1, RequestsType
    <2>3. Goes(h, "list_deployments") /\ UNCHANGED <<req, got>> /\ "list_deployments" \in Places
      BY <1>7 DEF Upsert, Places
    <2>4. pc'[h] = "list_deployments"
      BY <1>0, <2>3 DEF Goes
    <2>5. InHand(h)'
      BY <2>1, <2>3, <2>4 DEF InHand
    <2>6. pc' \in [Handlers -> Places] /\ \A g \in Handlers : InHand(g)'
      BY <1>0, <2>3, <2>5, GoesType
    <2>7. alias' \in [Names -> Models \cup {None}] /\ borne' \subseteq Names \X Models
      BY <1>0, <1>7, <2>1, <2>2 DEF Upsert, TypeOK
    <2> QED
      BY <1>0, <1>7, <2>3, <2>6, <2>7 DEF Upsert, TypeOK
  <1>8. CASE RenameModel(h)
    <2> DEFINE m == req[h].model
               n == req[h].name
    <2>1. req[h] \in Requests /\ req[h].op = "rename_model"
      BY <1>0, <1>8 DEF InHand, RenameModel
    <2>2. m \in Models /\ n \in Names
      BY <2>1, RequestsType
    <2>3. CASE Answers(h) /\ UNCHANGED <<name, alias, borne>>
      BY <1>8, <2>3, AnswersType DEF RenameModel, TypeOK, ReqType, Results
    <2>4. CASE ~(Answers(h) /\ UNCHANGED <<name, alias, borne>>)
      <3>1. Goes(h, "list_deployments") /\ UNCHANGED <<req, got>> /\ "list_deployments" \in Places
        BY <1>8, <2>4 DEF RenameModel, Places
      <3>2. \/ UNCHANGED <<name, alias, borne>>
            \/ /\ name' = [name EXCEPT ![m] = n]
               /\ alias' = [alias EXCEPT ![n] = None, ![name[m]] = m]
               /\ borne' = borne \cup {<<n, m>>}
        BY <1>8, <2>4 DEF RenameModel
      <3>3. /\ name' \in [Models -> Names \cup {None}]
            /\ alias' \in [Names -> Models \cup {None}]
            /\ borne' \subseteq Names \X Models
        <4>1. CASE UNCHANGED <<name, alias, borne>>
          BY <1>0, <4>1 DEF TypeOK
        <4>2. CASE /\ name' = [name EXCEPT ![m] = n]
                   /\ alias' = [alias EXCEPT ![n] = None, ![name[m]] = m]
                   /\ borne' = borne \cup {<<n, m>>}
          <5>1. name' \in [Models -> Names \cup {None}]
            BY <1>0, <2>2, <4>2 DEF TypeOK
          <5>2. alias' \in [Names -> Models \cup {None}]
            <6> DEFINE freed == [alias EXCEPT ![n] = None]
            <6>1. freed \in [Names -> Models \cup {None}]
              BY <1>0 DEF TypeOK
            <6>2. alias' = [freed EXCEPT ![name[m]] = m]
              BY <4>2
            <6> QED
              BY <2>2, <6>1, <6>2
          <5>3. borne' \subseteq Names \X Models
            BY <1>0, <2>2, <4>2 DEF TypeOK
          <5> QED
            BY <5>1, <5>2, <5>3
        <4> QED
          BY <3>2, <4>1, <4>2
      <3>4. pc'[h] = "list_deployments"
        BY <1>0, <3>1 DEF Goes
      <3>5. InHand(h)'
        BY <2>1, <3>1, <3>4 DEF InHand
      <3>6. pc' \in [Handlers -> Places] /\ \A g \in Handlers : InHand(g)'
        BY <1>0, <3>1, <3>5, GoesType
      <3> QED
        BY <1>0, <1>8, <3>1, <3>3, <3>6 DEF RenameModel, TypeOK
    <2> QED
      BY <2>3, <2>4
  <1>9. CASE DeleteAlias(h)
    <2>1. /\ Goes(h, "list_deployments") /\ UNCHANGED <<req, got>>
          /\ "list_deployments" \in Places /\ req[h] \in Requests
      BY <1>0, <1>9 DEF DeleteAlias, Places, InHand
    <2>2. pc'[h] = "list_deployments"
      BY <1>0, <2>1 DEF Goes
    <2>3. InHand(h)'
      BY <2>1, <2>2 DEF InHand
    <2>4. pc' \in [Handlers -> Places] /\ \A g \in Handlers : InHand(g)'
      BY <1>0, <2>1, <2>3, GoesType
    <2>5. alias' \in [Names -> Models \cup {None}]
      BY <1>0, <1>9 DEF DeleteAlias, TypeOK
    <2> QED
      BY <1>0, <1>9, <2>1, <2>4, <2>5 DEF DeleteAlias, TypeOK
  <1>10. CASE DeleteDeployment(h)
    <2> DEFINE d == <<req[h].model, req[h].provider>>
    <2>1. /\ Goes(h, "list_deployments") /\ UNCHANGED <<req, got>>
          /\ "list_deployments" \in Places /\ req[h] \in Requests
          /\ req[h].op = "delete_deployment"
      BY <1>0, <1>10 DEF DeleteDeployment, Places, InHand
    <2>2. d \in Deployments
      BY <2>1, RequestsType DEF Deployments
    <2>3. claim' \in [Handlers -> {NoClaim} \cup [dep : Deployments, live : BOOLEAN]]
      BY <1>0, <1>10, <2>2, ClaimsType DEF DeleteDeployment
    <2>4. pc'[h] = "list_deployments"
      BY <1>0, <2>1 DEF Goes
    <2>5. InHand(h)'
      BY <2>1, <2>4 DEF InHand
    <2>6. pc' \in [Handlers -> Places] /\ \A g \in Handlers : InHand(g)'
      BY <1>0, <2>1, <2>5, GoesType
    <2>7. deployed' \subseteq Deployments
      BY <1>0, <1>10 DEF DeleteDeployment, TypeOK
    <2> QED
      BY <1>0, <1>10, <2>1, <2>3, <2>6, <2>7 DEF DeleteDeployment, TypeOK
  <1>11. CASE InUse(h)
    <2>1. CASE Answers(h)
      BY <1>11, <2>1, AnswersType DEF InUse, TypeOK, dbVars, ReqType, Results
    <2>2. CASE ~Answers(h)
      <3>1. Goes(h, "remove") /\ UNCHANGED <<req, got>> /\ "remove" \in Places
        BY <1>11, <2>2 DEF InUse, Places
      <3>2. pc'[h] = "remove" /\ pc[h] = "in_use"
        BY <1>0, <1>11, <3>1 DEF Goes, InUse
      <3>3. InHand(h)'
        BY <1>0, <3>1, <3>2 DEF InHand
      <3>4. pc' \in [Handlers -> Places] /\ \A g \in Handlers : InHand(g)'
        BY <1>0, <3>1, <3>3, GoesType
      <3> QED
        BY <1>0, <1>11, <3>1, <3>4 DEF InUse, TypeOK, dbVars
    <2> QED
      BY <2>1, <2>2
  <1>12. CASE Remove(h)
    <2>1. /\ Goes(h, "list_deployments") /\ UNCHANGED <<req, got>>
          /\ "list_deployments" \in Places /\ req[h] \in Requests
      BY <1>0, <1>12 DEF Remove, Places, InHand
    <2>2. pc'[h] = "list_deployments"
      BY <1>0, <2>1 DEF Goes
    <2>3. InHand(h)'
      BY <2>1, <2>2 DEF InHand
    <2>4. pc' \in [Handlers -> Places] /\ \A g \in Handlers : InHand(g)'
      BY <1>0, <2>1, <2>3, GoesType
    <2>5. provider' \in [Providers -> Nat]
      <3>1. req[h].op = "delete_provider"
        BY <1>0, <1>12 DEF InHand, Remove
      <3>2. req[h].provider \in Providers
        BY <2>1, <3>1, RequestsType
      <3>3. \/ provider' = provider
            \/ provider' = [provider EXCEPT ![req[h].provider] = @ + 1]
        BY <1>12 DEF Remove
      <3>4. provider \in [Providers -> Nat]
        BY <1>0 DEF TypeOK
      <3>5. provider[req[h].provider] + 1 \in Nat
        BY <3>2, <3>4
      <3> QED
        BY <3>3, <3>4, <3>5
    <2>6. deployed' \subseteq Deployments /\ unseen' \in [Handlers -> SUBSET Deployments]
      <3>1. deployed' \subseteq Deployments
        BY <1>0, <1>12 DEF Remove, TypeOK
      <3>2. unseen' = [unseen EXCEPT ![h] = {}]
        BY <1>12 DEF Remove
      <3> QED
        BY <1>0, <3>1, <3>2 DEF TypeOK
    <2>7. claim' \in [Handlers -> {NoClaim} \cup [dep : Deployments, live : BOOLEAN]]
      BY <1>0, <1>12 DEF Remove, Unclaims, TypeOK
    <2> QED
      BY <1>0, <1>12, <2>1, <2>4, <2>5, <2>6, <2>7 DEF Remove, TypeOK
  <1>13. CASE ReadDeployments(h)
    <2>1. /\ got' \in [Handlers -> Results]
          /\ \A g \in Handlers : g # h => got'[g] = got[g]
      BY <1>0, <1>13, ListsType DEF ReadDeployments, Results
    <2>2. Goes(h, "list_aliases") /\ req' = req /\ "list_aliases" \in Places /\ req[h] \in Requests
      BY <1>0, <1>13 DEF ReadDeployments, Places, InHand
    <2>3. pc'[h] = "list_aliases"
      BY <1>0, <2>2 DEF Goes
    <2>4. InHand(h)'
      BY <2>2, <2>3 DEF InHand
    <2>5. pc' \in [Handlers -> Places] /\ \A g \in Handlers : InHand(g)'
      BY <2>1, <2>2, <2>4, GoesType
    <2> QED
      BY <1>0, <1>13, <2>1, <2>2, <2>5 DEF ReadDeployments, TypeOK, dbVars, Results
  <1>14. CASE ReadAliases(h)
    <2>1. /\ got' \in [Handlers -> Results]
          /\ \A g \in Handlers : g # h => got'[g] = got[g]
      BY <1>0, <1>14, ListsType DEF ReadAliases, Results
    <2>2. Goes(h, "install") /\ req' = req /\ "install" \in Places /\ req[h] \in Requests
      BY <1>0, <1>14 DEF ReadAliases, Places, InHand
    <2>3. pc'[h] = "install"
      BY <1>0, <2>2 DEF Goes
    <2>4. InHand(h)'
      BY <2>2, <2>3 DEF InHand
    <2>5. pc' \in [Handlers -> Places] /\ \A g \in Handlers : InHand(g)'
      BY <2>1, <2>2, <2>4, GoesType
    <2> QED
      BY <1>0, <1>14, <2>1, <2>2, <2>5 DEF ReadAliases, TypeOK, dbVars, Results
  <1>15. CASE Install(h)
    <2>1. snap' \in Tables
      BY <1>0, <1>15 DEF Install, Tables, Results
    <2> QED
      BY <1>0, <1>15, <2>1, AnswersType DEF Install, TypeOK, dbVars, ReqType, Results
  <1> QED
    BY <1>1, <1>2, <1>3, <1>4, <1>5, <1>6, <1>7, <1>8, <1>9, <1>10, <1>11, <1>12,
       <1>13, <1>14, <1>15 DEF HandlerStep

\* A handler that begins reads at most its own provider's id.
LEMMA BeginReads ==
    ASSUME TypeInv, NEW h \in Handlers, Begin(h)
    PROVE  /\ got' \in [Handlers -> Results]
           /\ \A g \in Handlers : g # h => got'[g] = got[g]
  <1>1. got \in [Handlers -> Results] /\ provider \in [Providers -> Nat]
    BY DEF TypeInv, TypeOK, Results
  <1>2. PICK x \in Requests :
          got' = IF x.op = "delete_provider"
                   THEN [got EXCEPT ![h].provider = provider[x.provider]] ELSE got
    BY DEF Begin
  <1>3. x.op = "delete_provider" => provider[x.provider] \in Nat
    BY <1>1, RequestsType
  <1>4. CASE x.op = "delete_provider"
    BY <1>1, <1>2, <1>3, <1>4 DEF Results
  <1>5. CASE x.op # "delete_provider"
    BY <1>1, <1>2, <1>5
  <1> QED
    BY <1>4, <1>5

\* Beginning, abandoning and resting keep the types.
LEMMA TypeNext == TypeInv /\ [Next]_vars => TypeInv'
  <1> SUFFICES ASSUME TypeInv, [Next]_vars PROVE TypeInv'
    OBVIOUS
  <1>0. /\ TypeOK /\ \A g \in Handlers : InHand(g)
        /\ pc \in [Handlers -> Places] /\ req \in [Handlers -> ReqType]
    BY DEF TypeInv, TypeOK, ReqType
  <1>1. ASSUME NEW h \in Handlers, Begin(h) PROVE TypeInv'
    <2>1. PICK x \in Requests : /\ req' = [req EXCEPT ![h] = x] /\ Goes(h, FirstPlace(x.op))
      BY <1>1 DEF Begin
    <2>2. FirstPlace(x.op) \in Places
      BY DEF FirstPlace, Places
    <2>3. pc' \in [Handlers -> Places] /\ pc'[h] = FirstPlace(x.op)
      BY <1>0, <2>1, <2>2 DEF Goes
    <2>4. req' \in [Handlers -> ReqType] /\ req'[h] = x
      BY <1>0, <2>1, RequestsType DEF ReqType
    <2>5. ASSUME NEW g \in Handlers PROVE InHand(g)'
      <3>1. CASE g = h
        <4>1. x.op \in Operations
          BY RequestsType
        <4> QED
          BY <2>1, <2>3, <2>4, <3>1, <4>1, OperationsAssumption
             DEF InHand, FirstPlace, Creating
      <3>2. CASE g # h
        <4>1. pc'[g] = pc[g] /\ req'[g] = req[g] /\ got'[g] = got[g]
          BY <1>0, <1>1, <2>1, <3>2, BeginReads DEF Goes
        <4> QED
          BY <1>0, <4>1 DEF InHand
      <3> QED
        BY <3>1, <3>2
    <2>6. /\ claim' \in [Handlers -> {NoClaim} \cup [dep : Deployments, live : BOOLEAN]]
          /\ ops' \in Nat /\ alone' \in BOOLEAN
      BY <1>0, <1>1 DEF Begin, TypeOK
    <2>7. got' \in [Handlers -> Results]
      BY <1>1, BeginReads
    <2> QED
      BY <1>0, <1>1, <2>3, <2>4, <2>5, <2>6, <2>7
         DEF Begin, TypeInv, TypeOK, dbVars, ReqType, Results
  <1>2. ASSUME NEW h \in Handlers, Abandoned(h) PROVE TypeInv'
    <2>0. faults \in Nat /\ faults' = faults + 1
      BY <1>0, <1>2 DEF Abandoned, TypeOK
    <2>1. faults' \in Nat
      BY <2>0
    <2>3. alone' \in BOOLEAN
      BY <1>2, Zenon DEF Abandoned
    <2>2. Answers(h)
      BY <1>2 DEF Abandoned
    <2>4. unseen' \in [Handlers -> SUBSET Deployments]
      <3>1. unseen' = [unseen EXCEPT ![h] = {}]
        BY <1>2 DEF Abandoned
      <3> QED
        BY <1>0, <3>1 DEF TypeOK
    <2> QED
      BY <1>0, <1>2, <2>1, <2>2, <2>3, <2>4, AnswersType
         DEF Abandoned, TypeInv, TypeOK, dbVars, ReqType, Results
  <1>3. CASE UNCHANGED vars
    <2>1. TypeOK'
      BY <1>0, <1>3, ListsType DEF vars, dbVars, TypeOK
    <2>2. \A g \in Handlers : InHand(g)'
      BY <1>0, <1>3 DEF vars, InHand
    <2> QED
      BY <2>1, <2>2 DEF TypeInv
  <1> QED
    BY <1>1, <1>2, <1>3, TypeStep DEF Next, Rest

-----------------------------------------------------------------------------
(* Names.                                                                  *)

\* A handler's step moves no other handler.
LEMMA OthersStay ==
    ASSUME TypeInv, NEW h \in Handlers, NEW g \in Handlers, g # h,
           HandlerStep(h) \/ Abandoned(h)
    PROVE  pc'[g] = pc[g] /\ req'[g] = req[g] /\ got'[g] = got[g]
  <1>1. pc \in [Handlers -> Places] /\ req \in [Handlers -> ReqType] /\ got \in [Handlers -> Results]
    BY DEF TypeInv, TypeOK, ReqType, Results
  <1>2. pc'[g] = pc[g]
    BY <1>1 DEF HandlerStep, AliasFree, InsertModel, InsertProvider, InsertDeployment,
            Target, ModelFree, Upsert, RenameModel, DeleteAlias, DeleteDeployment, InUse,
            Remove, ReadDeployments, ReadAliases, Install, Abandoned, Answers, Goes
  <1>3. req'[g] = req[g]
    BY <1>1 DEF HandlerStep, AliasFree, InsertModel, InsertProvider, InsertDeployment,
            Target, ModelFree, Upsert, RenameModel, DeleteAlias, DeleteDeployment, InUse,
            Remove, ReadDeployments, ReadAliases, Install, Abandoned, Answers, Goes
  <1>4. got'[g] = got[g]
    BY <1>1 DEF HandlerStep, AliasFree, InsertModel, InsertProvider, InsertDeployment,
            Target, ModelFree, Upsert, RenameModel, DeleteAlias, DeleteDeployment, InUse,
            Remove, ReadDeployments, ReadAliases, Install, Abandoned, Answers, Goes
  <1> QED
    BY <1>2, <1>3, <1>4

\* A rename that renames.
Renames(h) ==
    LET m == req[h].model
        n == req[h].name
    IN  /\ name[m] # n
        /\ \A x \in Models \ {m} : name[x] # n
        /\ alias[n] \in {None, m}
        /\ name' = [name EXCEPT ![m] = n]
        /\ alias' = [alias EXCEPT ![n] = None, ![name[m]] = m]
        /\ borne' = borne \cup {<<n, m>>}
        /\ pc' = [pc EXCEPT ![h] = "list_deployments"]
        /\ req' = req /\ got' = got

\* rename_model renames, or leaves the names as they are.
LEMMA RenameCases ==
    ASSUME NEW h \in Handlers, RenameModel(h)
    PROVE  \/ Renames(h)
           \/ /\ UNCHANGED <<name, alias, borne>>
              /\ \/ name[req[h].model] = req[h].name /\ Goes(h, "list_deployments")
                    /\ UNCHANGED <<req, got>>
                 \/ Answers(h)
  BY DEF RenameModel, Renames, Goes

\* The only steps that change a name: a new model, and a rename.
LEMMA NameCases ==
    ASSUME TypeInv, NEW h \in Handlers, HandlerStep(h)
    PROVE  \/ UNCHANGED name
           \/ InsertModel(h)
           \/ RenameModel(h) /\ Renames(h)
  BY RenameCases DEF HandlerStep, AliasFree, InsertProvider, InsertDeployment, Target, ModelFree,
     Upsert, DeleteAlias, DeleteDeployment, InUse, Remove, ReadDeployments, ReadAliases,
     Install, dbVars

\* The only steps that change an alias, or the history of names.
LEMMA AliasCases ==
    ASSUME TypeInv, NEW h \in Handlers, HandlerStep(h)
    PROVE  \/ UNCHANGED <<alias, borne>>
           \/ InsertModel(h)
           \/ Upsert(h)
           \/ RenameModel(h) /\ Renames(h)
           \/ DeleteAlias(h)
  BY RenameCases DEF HandlerStep, AliasFree, InsertProvider, InsertDeployment, Target, ModelFree,
     Upsert, DeleteAlias, DeleteDeployment, InUse, Remove, ReadDeployments, ReadAliases,
     Install, dbVars

\* A new model takes an id without a name and a name no model has.
LEMMA InsertModelCases ==
    ASSUME TypeInv, NEW h \in Handlers, InsertModel(h)
    PROVE  \E m \in Models :
              /\ \/ name[m] = req[h].name /\ name' = name /\ borne' = borne
                 \/ /\ name[m] = None /\ \A x \in Models : name[x] # req[h].name
                    /\ name' = [name EXCEPT ![m] = req[h].name]
                    /\ borne' = borne \cup {<<req[h].name, m>>}
              /\ got'[h].model = m
              /\ name'[m] = req[h].name
              /\ req[h].name \in Names
              /\ alias' = alias /\ deployed' = deployed
              /\ alone' = alone /\ snap' = snap
  <1>1. PICK m \in Models :
          /\ \/ name[m] = req[h].name /\ UNCHANGED <<name, borne>>
             \/ /\ name[m] = None /\ \A x \in Models : name[x] # req[h].name
                /\ name' = [name EXCEPT ![m] = req[h].name]
                /\ borne' = borne \cup {<<req[h].name, m>>}
          /\ got' = [got EXCEPT ![h].model = m]
    BY DEF InsertModel
  <1>2. got'[h].model = m
    BY <1>1 DEF TypeInv, TypeOK
  <1>3. req[h] \in Requests /\ req[h].op \in Creating
    BY DEF TypeInv, InHand, InsertModel
  <1>4. req[h].name \in Names
    BY <1>3, RequestsType DEF Creating
  <1>5. name'[m] = req[h].name
    BY <1>1 DEF TypeInv, TypeOK
  <1> QED
    BY <1>1, <1>2, <1>4, <1>5 DEF InsertModel

\* A model that has a name keeps having one.
LEMMA NameStays ==
    ASSUME TypeInv, NEW h \in Handlers, HandlerStep(h), NEW m \in Models, name[m] # None
    PROVE  name'[m] # None
  <1>1. name \in [Models -> Names \cup {None}]
    BY DEF TypeInv, TypeOK
  <1>2. CASE InsertModel(h)
    BY <1>1, <1>2, InsertModelCases
  <1>3. CASE RenameModel(h) /\ Renames(h)
    <2>1. req[h] \in Requests /\ req[h].op = "rename_model"
      BY <1>3 DEF TypeInv, InHand, RenameModel
    <2>2. req[h].name \in Names
      BY <2>1, RequestsType
    <2> QED
      BY <1>1, <1>3, <2>2, NoneAssumption DEF Renames
  <1> QED
    BY <1>2, <1>3, NameCases

\* No step gives a model the name of another.
LEMMA NamesApartStep ==
    ASSUME TypeInv, NamesApart, NEW h \in Handlers, HandlerStep(h)
    PROVE  NamesApart'
  <1>1. name \in [Models -> Names \cup {None}]
    BY DEF TypeInv, TypeOK
  <1>2. CASE InsertModel(h)
    BY <1>1, <1>2, InsertModelCases DEF NamesApart
  <1>3. CASE RenameModel(h) /\ Renames(h)
    <2>1. req[h].model \in Models
      <3>1. req[h] \in Requests /\ req[h].op = "rename_model"
        BY <1>3 DEF TypeInv, InHand, RenameModel
      <3> QED
        BY <3>1, RequestsType
    <2> QED
      BY <1>1, <1>3, <2>1 DEF NamesApart, Renames
  <1>4. CASE UNCHANGED name
    BY <1>4 DEF NamesApart
  <1> QED
    BY <1>2, <1>3, <1>4, NameCases

\* The only steps that change the live deployments.
LEMMA DeployedCases ==
    ASSUME NEW h \in Handlers, HandlerStep(h)
    PROVE  \/ UNCHANGED <<deployed, claim>>
           \/ /\ InsertDeployment(h)
              /\ deployed' = deployed \cup {<<got[h].model, req[h].provider>>}
              /\ Claims(h, <<got[h].model, req[h].provider>>, TRUE)
              /\ Goes(h, "list_deployments") /\ UNCHANGED <<req, got>>
           \/ DeleteDeployment(h)
           \/ Remove(h)
  BY DEF HandlerStep, AliasFree, InsertModel, InsertProvider, InsertDeployment, Target, ModelFree,
     Upsert, RenameModel, DeleteAlias, DeleteDeployment, InUse, Remove, ReadDeployments,
     ReadAliases, Install, dbVars

\* What a rename is asked for.
LEMMA RenameAsked ==
    ASSUME TypeInv, NEW h \in Handlers, RenameModel(h)
    PROVE  req[h].model \in Models /\ req[h].name \in Names
  <1>1. req[h] \in Requests /\ req[h].op = "rename_model"
    BY DEF TypeInv, InHand, RenameModel
  <1> QED
    BY <1>1, RequestsType

\* What an upsert writes.
LEMMA UpsertAsked ==
    ASSUME TypeInv, NEW h \in Handlers, Upsert(h)
    PROVE  req[h].name \in Names /\ got[h].model \in Models
  <1>1. req[h] \in Requests /\ req[h].op = "create_alias" /\ got[h].model \in Models
    BY DEF TypeInv, InHand, Upsert
  <1> QED
    BY <1>1, RequestsType

\* A model is named before anything refers to it.
LEMMA NamedStep ==
    ASSUME TypeInv, Named, NEW h \in Handlers, HandlerStep(h)
    PROVE  Named'
  <1>0. /\ name \in [Models -> Names \cup {None}] /\ alias \in [Names -> Models \cup {None}]
        /\ deployed \subseteq Deployments /\ TypeInv'
        /\ pc \in [Handlers -> Places] /\ got \in [Handlers -> Results]
    BY TypeStep DEF TypeInv, TypeOK, Results
  <1>1. \A d \in deployed' : name'[d[1]] # None
    <2>1. \A d \in deployed' : d \in deployed \/ name[d[1]] # None
      <3>1. CASE /\ InsertDeployment(h)
                 /\ deployed' = deployed \cup {<<got[h].model, req[h].provider>>}
        BY <3>1 DEF Named, InsertDeployment
      <3>2. CASE deployed' \subseteq deployed
        BY <3>2
      <3> QED
        BY <3>1, <3>2, DeployedCases DEF DeleteDeployment, Remove
    <2>2. \A d \in deployed' : d[1] \in Models
      BY <1>0 DEF TypeInv, TypeOK, Deployments
    <2> QED
      BY <2>1, <2>2, NameStays DEF Named
  <1>2. ASSUME NEW n \in Names, alias'[n] # None PROVE name'[alias'[n]] # None
    <2>1. CASE alias'[n] = alias[n]
      BY <1>0, <1>2, <2>1, NameStays DEF Named
    <2>2. CASE Upsert(h)
      <3>1. req[h].name \in Names /\ got[h].model \in Models /\ name[got[h].model] # None
        BY <2>2, UpsertAsked DEF Named, Upsert
      <3>2. alias'[n] = alias[n] \/ alias'[n] = got[h].model
        BY <1>0, <2>2, <3>1 DEF Upsert
      <3> QED
        BY <2>1, <3>1, <3>2, NameStays
    <2>3. CASE RenameModel(h) /\ Renames(h)
      <3>1. req[h].model \in Models /\ req[h].name \in Names
        BY <2>3, RenameAsked
      <3>2. alias'[n] \in {alias[n], None, req[h].model}
        BY <1>0, <2>3 DEF Renames
      <3>3. name'[req[h].model] = req[h].name
        BY <1>0, <2>3, <3>1 DEF Renames
      <3> QED
        BY <1>2, <2>1, <3>1, <3>2, <3>3, NoneAssumption
    <2>4. CASE DeleteAlias(h)
      <3>1. alias'[n] \in {alias[n], None}
        BY <1>0, <2>4 DEF DeleteAlias
      <3> QED
        BY <1>2, <2>1, <3>1
    <2>5. CASE InsertModel(h)
      BY <2>1, <2>5 DEF InsertModel
    <2> QED
      BY <2>1, <2>2, <2>3, <2>4, <2>5, AliasCases
  <1>3. ASSUME NEW g \in Handlers,
               pc'[g] \in {"insert_provider", "insert_deployment", "model_free", "upsert"}
        PROVE  name'[got'[g].model] # None
    <2>1. CASE pc[g] \in {"insert_provider", "insert_deployment", "model_free", "upsert"}
               /\ got'[g].model = got[g].model
      <3>1. got[g].model \in Models /\ name[got[g].model] # None
        BY <2>1 DEF Named, TypeInv, InHand
      <3> QED
        BY <2>1, <3>1, NameStays
    <2>2. CASE g # h
      BY <1>3, <2>1, <2>2, OthersStay
    <2>3. CASE g = h /\ InsertModel(h)
      BY <2>3, InsertModelCases, NoneAssumption
    <2>4. CASE g = h /\ Target(h)
      <3>1. CASE Answers(h)
        BY <1>0, <1>3, <2>4, <3>1 DEF Answers, Goes
      <3>2. CASE ~Answers(h)
        <4>1. PICK m \in Models : name[m] = req[h].target /\ got' = [got EXCEPT ![h].model = m]
          BY <2>4, <3>2 DEF Target
        <4>2. got'[h].model = m
          BY <1>0, <4>1 DEF Results
        <4>3. req[h].target \in Names
          <5>1. req[h] \in Requests /\ req[h].op = "create_alias"
            BY <2>4 DEF Target, TypeInv, InHand
          <5> QED
            BY <5>1, RequestsType
        <4> QED
          BY <2>4, <4>1, <4>2, <4>3, NameStays, NoneAssumption
      <3> QED
        BY <3>1, <3>2
    <2>5. CASE g = h /\ InsertProvider(h)
      <3>1. got'[h].model = got[h].model
        BY <1>0, <2>5 DEF InsertProvider, Results
      <3> QED
        BY <2>1, <2>5, <3>1 DEF InsertProvider
    <2>6. CASE g = h /\ ModelFree(h)
      <3>1. CASE Answers(h)
        BY <1>0, <1>3, <2>6, <3>1 DEF Answers, Goes
      <3>2. CASE ~Answers(h)
        BY <2>1, <2>6, <3>2 DEF ModelFree
      <3> QED
        BY <3>1, <3>2
    <2>7. CASE g = h /\ ~(InsertModel(h) \/ Target(h) \/ InsertProvider(h) \/ ModelFree(h))
      <3>1. pc'[h] \in {"idle", "insert_model", "list_deployments", "remove",
                        "list_aliases", "install"}
        BY <1>0, <2>7 DEF HandlerStep, AliasFree, InsertDeployment, Upsert, RenameModel,
           DeleteAlias, DeleteDeployment, InUse, Remove, ReadDeployments, ReadAliases,
           Install, Answers, Goes
      <3> QED
        BY <1>3, <2>7, <3>1
    <2> QED
      BY <2>2, <2>3, <2>4, <2>5, <2>6, <2>7
  <1> QED
    BY <1>1, <1>2, <1>3 DEF Named

\* The history takes in every new name and alias.
LEMMA RecordedStep ==
    ASSUME TypeInv, Recorded, NEW h \in Handlers, HandlerStep(h)
    PROVE  Recorded' /\ borne \subseteq borne'
  <1>0. /\ name \in [Models -> Names \cup {None}] /\ alias \in [Names -> Models \cup {None}]
    BY DEF TypeInv, TypeOK
  <1>1. CASE UNCHANGED <<name, alias, borne>>
    BY <1>1 DEF Recorded
  <1>2. CASE InsertModel(h)
    <2>1. PICK m \in Models :
              /\ \/ name' = name /\ borne' = borne
                 \/ /\ name' = [name EXCEPT ![m] = req[h].name]
                    /\ borne' = borne \cup {<<req[h].name, m>>}
              /\ alias' = alias
      BY <1>2, InsertModelCases
    <2>2. borne \subseteq borne'
      BY <2>1
    <2>3. ASSUME NEW x \in Models, name'[x] # None PROVE <<name'[x], x>> \in borne'
      BY <1>0, <2>1, <2>3 DEF Recorded
    <2> QED
      BY <2>1, <2>2, <2>3 DEF Recorded
  <1>3. CASE Upsert(h)
    <2>1. req[h].name \in Names /\ got[h].model \in Models
      BY <1>3, UpsertAsked
    <2>2. /\ alias' = [alias EXCEPT ![req[h].name] = got[h].model]
          /\ borne' = borne \cup {<<req[h].name, got[h].model>>}
          /\ name' = name
      BY <1>3 DEF Upsert
    <2>3. ASSUME NEW n \in Names, alias'[n] # None PROVE <<n, alias'[n]>> \in borne'
      BY <1>0, <2>1, <2>2, <2>3 DEF Recorded
    <2> QED
      BY <2>2, <2>3 DEF Recorded
  <1>4. CASE RenameModel(h) /\ Renames(h)
    <2> DEFINE m == req[h].model
               n == req[h].name
    <2>1. m \in Models /\ n \in Names
      BY <1>4, RenameAsked
    <2>2. /\ name' = [name EXCEPT ![m] = n]
          /\ alias' = [alias EXCEPT ![n] = None, ![name[m]] = m]
          /\ borne' = borne \cup {<<n, m>>}
      BY <1>4 DEF Renames
    <2>3. ASSUME NEW x \in Models, name'[x] # None PROVE <<name'[x], x>> \in borne'
      BY <1>0, <2>1, <2>2, <2>3 DEF Recorded
    <2>4. ASSUME NEW k \in Names, alias'[k] # None PROVE <<k, alias'[k]>> \in borne'
      <3>1. CASE k = name[m]
        <4>1. alias'[k] = m
          BY <1>0, <2>2, <3>1
        <4>2. <<name[m], m>> \in borne
          BY <2>1, <3>1, NoneAssumption DEF Recorded
        <4> QED
          BY <2>2, <3>1, <4>1, <4>2
      <3>2. CASE k # name[m]
        <4>1. alias'[k] \in {None, alias[k]}
          BY <1>0, <2>2, <3>2
        <4> QED
          BY <2>2, <2>4, <4>1 DEF Recorded
      <3> QED
        BY <3>1, <3>2
    <2> QED
      BY <2>2, <2>3, <2>4 DEF Recorded
  <1>5. CASE DeleteAlias(h)
    <2>1. \A k \in Names : alias'[k] \in {None, alias[k]}
      BY <1>0, <1>5 DEF DeleteAlias
    <2> QED
      BY <1>5, <2>1 DEF Recorded, DeleteAlias
  <1> QED
    BY <1>1, <1>2, <1>3, <1>4, <1>5, AliasCases, NameCases

-----------------------------------------------------------------------------
(* A handler's own write.                                                  *)

\* What a handler has read of the deployments is what it read last.
LEMMA ModelsRead ==
    ASSUME TypeInv, NEW h \in Handlers, HandlerStep(h),
           pc'[h] \in {"list_aliases", "install"}
    PROVE  \/ ReadDeployments(h) /\ got'[h].models = ListDeployments
           \/ ReadAliases(h) /\ pc[h] = "list_aliases" /\ got'[h].models = got[h].models
  <1>0. pc \in [Handlers -> Places] /\ got \in [Handlers -> Results]
    BY DEF TypeInv, TypeOK, Results
  <1>1. ReadDeployments(h) \/ ReadAliases(h)
    BY <1>0 DEF HandlerStep, AliasFree, InsertModel, InsertProvider, InsertDeployment,
       Target, ModelFree, Upsert, RenameModel, DeleteAlias, DeleteDeployment, InUse, Remove,
       Install, Answers, Goes
  <1> QED
    BY <1>0, <1>1 DEF ReadDeployments, ReadAliases, Results

\* Another's write takes a claim away or leaves it true; a handler reads what it
\* has claimed.
LEMMA ClaimStep ==
    ASSUME TypeInv, Named, \A g \in Handlers : ClaimHolds(g),
           NEW h \in Handlers, HandlerStep(h), NEW g \in Handlers
    PROVE  ClaimHolds(g)'
  <1>0. /\ name \in [Models -> Names \cup {None}] /\ deployed \subseteq Deployments
        /\ claim \in [Handlers -> {NoClaim} \cup [dep : Deployments, live : BOOLEAN]]
        /\ pc \in [Handlers -> Places]
    BY DEF TypeInv, TypeOK
  <1>1. CASE UNCHANGED <<deployed, claim>>
    <2>1. CASE g # h
      BY <1>1, <2>1, OthersStay DEF ClaimHolds
    <2>2. CASE g = h /\ pc'[h] \in {"list_aliases", "install"}
      <3>1. CASE got'[h].models = ListDeployments
        <4>1. ASSUME claim[h] # NoClaim
              PROVE  claim[h].dep \in deployed
                        <=> \E n \in Names : claim[h].dep \in ListDeployments[n]
          <5>1. claim[h].dep[1] \in Models
            BY <1>0, <4>1 DEF Deployments
          <5> QED
            BY <1>0, <5>1 DEF Named, ListDeployments
        <4> QED
          BY <1>1, <2>2, <3>1, <4>1 DEF ClaimHolds
      <3>2. CASE pc[h] = "list_aliases" /\ got'[h].models = got[h].models
        BY <1>1, <2>2, <3>2 DEF ClaimHolds
      <3> QED
        BY <2>2, <3>1, <3>2, ModelsRead
    <2>3. CASE g = h /\ pc'[h] \notin {"list_aliases", "install"}
      BY <1>1, <2>3 DEF ClaimHolds
    <2> QED
      BY <2>1, <2>2, <2>3
  <1>2. ASSUME NEW d, NEW live \in BOOLEAN, Claims(h, d, live), Goes(h, "list_deployments"),
               deployed' = IF live THEN deployed \cup {d} ELSE deployed \ {d}
        PROVE  ClaimHolds(g)'
    <2>1. CASE g = h
      <3>1. claim'[h] = [dep |-> d, live |-> live] /\ pc'[h] = "list_deployments"
        BY <1>0, <1>2 DEF Claims, Goes
      <3> QED
        BY <1>2, <2>1, <3>1 DEF ClaimHolds
    <2>2. CASE g # h
      <3>1. claim'[g] = IF claim[g].dep = d THEN NoClaim ELSE claim[g]
        BY <1>2, <2>2 DEF Claims
      <3>2. pc'[g] = pc[g] /\ got'[g] = got[g]
        BY <2>2, OthersStay
      <3> QED
        BY <1>2, <3>1, <3>2 DEF ClaimHolds
    <2> QED
      BY <2>1, <2>2
  <1>3. CASE Remove(h) /\ ~UNCHANGED <<deployed, claim>>
    <2> DEFINE ds == {d \in deployed : d[2] = req[h].provider}
    <2>1. deployed' = deployed \ ds /\ Unclaims(ds) /\ Goes(h, "list_deployments")
      BY <1>3 DEF Remove
    <2>2. claim'[g] = IF claim[g].dep \in ds THEN NoClaim ELSE claim[g]
      BY <2>1 DEF Unclaims
    <2>3. CASE g = h
      <3>1. pc'[h] = "list_deployments"
        BY <1>0, <2>1 DEF Goes
      <3> QED
        BY <2>1, <2>2, <2>3, <3>1 DEF ClaimHolds
    <2>4. CASE g # h
      <3>1. pc'[g] = pc[g] /\ got'[g] = got[g]
        BY <2>4, OthersStay
      <3> QED
        BY <2>1, <2>2, <3>1 DEF ClaimHolds
    <2> QED
      BY <2>3, <2>4
  <1>4. CASE DeleteDeployment(h)
    BY <1>2, <1>4 DEF DeleteDeployment
  <1>5. CASE /\ deployed' = deployed \cup {<<got[h].model, req[h].provider>>}
             /\ Claims(h, <<got[h].model, req[h].provider>>, TRUE)
             /\ Goes(h, "list_deployments")
    BY <1>2, <1>5
  <1> QED
    BY <1>1, <1>3, <1>4, <1>5, DeployedCases

-----------------------------------------------------------------------------
(* Providers that are about to be deleted.                                 *)

\* A handler that begins to delete a provider has the id of the one there is.
LEMMA BeginWatched ==
    ASSUME TypeInv, \A g \in Handlers : Watched(g), NEW h \in Handlers, Begin(h),
           NEW g \in Handlers
    PROVE  Watched(g)'
  <1>0. /\ pc \in [Handlers -> Places] /\ req \in [Handlers -> ReqType]
        /\ got \in [Handlers -> Results] /\ provider \in [Providers -> Nat]
    BY DEF TypeInv, TypeOK, ReqType, Results
  <1>1. PICK x \in Requests :
          /\ req' = [req EXCEPT ![h] = x]
          /\ got' = IF x.op = "delete_provider"
                      THEN [got EXCEPT ![h].provider = provider[x.provider]] ELSE got
          /\ Goes(h, FirstPlace(x.op))
    BY DEF Begin
  <1>2. UNCHANGED <<provider, deployed, unseen>>
    BY DEF Begin, dbVars
  <1>3. CASE g = h
    <2>1. req'[h] = x /\ pc'[h] = FirstPlace(x.op)
      BY <1>0, <1>1 DEF Goes
    <2>2. FirstPlace(x.op) # "remove" /\ (FirstPlace(x.op) = "in_use" => x.op = "delete_provider")
      BY DEF FirstPlace
    <2>3. x.op = "delete_provider" =>
             got'[h].provider = provider[x.provider] /\ provider[x.provider] \in Nat
      BY <1>0, <1>1, RequestsType DEF Results
    <2> QED
      BY <1>2, <1>3, <2>1, <2>2, <2>3 DEF Watched
  <1>4. CASE g # h
    <2>1. pc'[g] = pc[g] /\ req'[g] = req[g] /\ got'[g] = got[g]
      BY <1>0, <1>1, <1>4, BeginReads DEF Goes
    <2> QED
      BY <1>2, <2>1 DEF Watched
  <1> QED
    BY <1>3, <1>4

\* Ids only grow, and a deployment made while another handler is about to delete
\* its provider is new to that handler.
LEMMA WatchedStep ==
    ASSUME TypeInv, \A g \in Handlers : Watched(g), NEW h \in Handlers, HandlerStep(h),
           NEW g \in Handlers
    PROVE  Watched(g)'
  <1>0. /\ pc \in [Handlers -> Places] /\ req \in [Handlers -> ReqType]
        /\ got \in [Handlers -> Results] /\ provider \in [Providers -> Nat]
        /\ unseen \in [Handlers -> SUBSET Deployments]
    BY DEF TypeInv, TypeOK, ReqType, Results
  <1>1. CASE g = h
    <2>1. CASE InUse(h)
      <3>1. CASE Answers(h)
        BY <1>0, <1>1, <3>1 DEF Answers, Goes, Watched
      <3>2. CASE ~Answers(h)
        <4>1. /\ ~(\E d \in deployed :
                     d[2] = req[h].provider /\ provider[d[2]] = got[h].provider)
              /\ UNCHANGED <<req, got, provider, deployed>>
          BY <2>1, <3>2 DEF InUse, dbVars
        <4>2. got[h].provider <= provider[req[h].provider]
          BY <2>1 DEF InUse, Watched
        <4> QED
          BY <1>1, <4>1, <4>2 DEF Watched
      <3> QED
        BY <3>1, <3>2
    <2>2. CASE ~InUse(h)
      <3>1. pc'[h] \notin {"in_use", "remove"}
        BY <1>0, <2>2 DEF HandlerStep, AliasFree, InsertModel, InsertProvider,
           InsertDeployment, Target, ModelFree, Upsert, RenameModel, DeleteAlias,
           DeleteDeployment, Remove, ReadDeployments, ReadAliases, Install, Goes, Answers
      <3> QED
        BY <1>1, <3>1 DEF Watched
    <2> QED
      BY <2>1, <2>2
  <1>2. CASE g # h
    <2>0. pc'[g] = pc[g] /\ req'[g] = req[g] /\ got'[g] = got[g]
      BY <1>2, OthersStay
    <2>1. CASE pc[g] \notin {"in_use", "remove"}
      BY <2>0, <2>1 DEF Watched
    <2>2. CASE pc[g] \in {"in_use", "remove"}
      <3> DEFINE p == req[g].provider
      <3>1. req[g] \in Requests /\ req[g].op = "delete_provider"
        BY <2>2 DEF TypeInv, InHand
      <3>2. p \in Providers /\ provider[p] \in Nat /\ got[g].provider \in Nat
        BY <1>0, <3>1, RequestsType DEF Results
      <3>3. provider'[p] \in {provider[p], provider[p] + 1}
        BY <1>0, <3>2 DEF HandlerStep, AliasFree, InsertModel, InsertProvider,
           InsertDeployment, Target, ModelFree, Upsert, RenameModel, DeleteAlias,
           DeleteDeployment, InUse, Remove, ReadDeployments, ReadAliases, Install, dbVars
      <3>4. ASSUME pc[g] = "remove", NEW d \in deployed' \ deployed, d[2] = p
            PROVE  d \in unseen'[g]
        <4>1. CASE InsertDeployment(h)
          <5>1. d = <<got[h].model, req[h].provider>>
            BY <3>4, <4>1 DEF InsertDeployment
          <5>2. d[2] = req[h].provider
            BY <5>1
          <5>3. unseen' = [k \in Handlers |->
                   IF pc[k] = "remove" /\ req[k].provider = req[h].provider
                     THEN unseen[k] \cup {<<got[h].model, req[h].provider>>} ELSE unseen[k]]
            BY <3>4, <4>1 DEF InsertDeployment
          <5> QED
            BY <3>4, <5>1, <5>2, <5>3
        <4>2. CASE ~InsertDeployment(h)
          BY <3>4, <4>2 DEF HandlerStep, AliasFree, InsertModel, InsertProvider, Target,
             ModelFree, Upsert, RenameModel, DeleteAlias, DeleteDeployment, InUse, Remove,
             ReadDeployments, ReadAliases, Install, dbVars
        <4> QED
          BY <4>1, <4>2
      <3>5. unseen[g] \subseteq unseen'[g]
        BY <1>0, <1>2 DEF HandlerStep, AliasFree, InsertModel, InsertProvider,
           InsertDeployment, Target, ModelFree, Upsert, RenameModel, DeleteAlias,
           DeleteDeployment, InUse, Remove, ReadDeployments, ReadAliases, Install
      <3>6. got'[g].provider <= provider'[req'[g].provider]
        BY <2>0, <2>2, <3>2, <3>3 DEF Watched
      <3>7. provider'[p] = got[g].provider => provider[p] = got[g].provider
        BY <2>2, <3>2, <3>3 DEF Watched
      <3> QED
        BY <2>0, <3>4, <3>5, <3>6, <3>7 DEF Watched
    <2> QED
      BY <2>1, <2>2
  <1> QED
    BY <1>1, <1>2

-----------------------------------------------------------------------------
(* One operation at a time.                                                *)

\* A table read from the store when names are one thing routes a name, by at most
\* one hop, to a model that has had it.
LEMMA StoredRouted ==
    ASSUME TypeInv, NamesApart, Named, Recorded, NameIsOneThing
    PROVE  Routed(Stored)
  <1>0. /\ name \in [Models -> Names \cup {None}] /\ alias \in [Names -> Models \cup {None}]
        /\ deployed \subseteq Models \X Providers
    BY DEF TypeInv, TypeOK, Deployments
  <1>1. ASSUME NEW n \in Names
        PROVE  /\ Stored.models[n] = {d \in deployed : name[d[1]] = n}
               /\ Stored.aliases[n] = IF alias[n] = None THEN None ELSE name[alias[n]]
    BY DEF Stored, ListDeployments, ListAliases
  <1>2. SUFFICES ASSUME NEW n \in Names
                 PROVE  /\ Hop(Stored, Hop(Stored, n)) = Hop(Stored, n)
                        /\ \A d \in Stored.models[Hop(Stored, n)] : <<n, d[1]>> \in borne
    BY DEF Routed
  <1>3. CASE Hop(Stored, n) = n
    <2>1. ASSUME NEW d \in Stored.models[n] PROVE <<n, d[1]>> \in borne
      <3>1. d[1] \in Models /\ name[d[1]] = n
        BY <1>0, <1>1, <2>1
      <3> QED
        BY <3>1, NoneAssumption DEF Recorded
    <2> QED
      BY <1>3, <2>1
  <1>4. CASE Hop(Stored, n) # n
    <2>1. /\ Stored.aliases[n] # None
          /\ Hop(Stored, n) = Stored.aliases[n]
      BY <1>4 DEF Hop
    <2>2. alias[n] \in Models /\ Hop(Stored, n) = name[alias[n]]
      BY <1>0, <1>1, <2>1
    <2> DEFINE t == name[alias[n]]
    <2>3. t \in Names
      BY <1>0, <1>1, <2>1, <2>2
    <2>4. alias[t] = None
      BY <2>2, <2>3 DEF NameIsOneThing
    <2>5. Hop(Stored, t) = t
      <3>1. Stored.aliases[t] = None
        BY <1>1, <2>3, <2>4
      <3> QED
        BY <3>1 DEF Hop
    <2>6. ASSUME NEW d \in Stored.models[t] PROVE <<n, d[1]>> \in borne
      <3>1. d[1] \in Models /\ name[d[1]] = t
        BY <1>0, <1>1, <2>3, <2>6
      <3>2. d[1] = alias[n]
        BY <2>2, <2>3, <3>1, NoneAssumption DEF NamesApart
      <3> QED
        BY <2>2, <3>2, NoneAssumption DEF Recorded
    <2> QED
      BY <2>2, <2>5, <2>6
  <1> QED
    BY <1>3, <1>4

\* Steps that leave the lists of the store as they are: a model that is new has
\* neither a deployment nor an alias.
LEMMA StoredKept ==
    ASSUME TypeInv, Named, NEW h \in Handlers, HandlerStep(h),
           UNCHANGED <<alias, deployed>>, UNCHANGED name \/ InsertModel(h)
    PROVE  ListDeployments' = ListDeployments /\ ListAliases' = ListAliases
  <1>1. CASE UNCHANGED name
    BY <1>1 DEF ListDeployments, ListAliases
  <1>2. CASE InsertModel(h) /\ name' # name
    <2>1. PICK m \in Models : name[m] = None /\ name' = [name EXCEPT ![m] = req[h].name]
      BY <1>2, InsertModelCases
    <2>2. name \in [Models -> Names \cup {None}]
      BY DEF TypeInv, TypeOK
    <2>3. \A d \in deployed : name'[d[1]] = name[d[1]]
      BY <2>1, <2>2 DEF Named
    <2>4. \A n \in Names : alias[n] # None => name'[alias[n]] = name[alias[n]]
      BY <2>1, <2>2 DEF Named
    <2> QED
      BY <2>3, <2>4 DEF ListDeployments, ListAliases
  <1> QED
    BY <1>1, <1>2

\* One operation at a time keeps what models and aliases are called apart.
LEMMA OneThingStep ==
    ASSUME TypeInv, NamesApart, Serial, NEW h \in Handlers, HandlerStep(h)
    PROVE  NameIsOneThing'
  <1>0. /\ name \in [Models -> Names \cup {None}] /\ alias \in [Names -> Models \cup {None}]
        /\ NameIsOneThing
    BY DEF TypeInv, TypeOK, Serial
  <1>1. CASE UNCHANGED <<name, alias>>
    BY <1>0, <1>1 DEF NameIsOneThing
  <1>2. CASE InsertModel(h)
    <2>1. alias[req[h].name] = None
      BY <1>2 DEF Serial, InsertModel
    <2> QED
      BY <1>0, <1>2, <2>1, InsertModelCases DEF NameIsOneThing
  <1>3. CASE Upsert(h)
    <2>1. \A m \in Models : name[m] # req[h].name
      BY <1>3 DEF Serial, Upsert
    <2>2. alias' = [alias EXCEPT ![req[h].name] = got[h].model] /\ name' = name
      BY <1>3 DEF Upsert
    <2> QED
      BY <1>0, <2>1, <2>2 DEF NameIsOneThing
  <1>4. CASE RenameModel(h) /\ Renames(h)
    <2> DEFINE m == req[h].model
               n == req[h].name
    <2>1. m \in Models /\ n \in Names
      BY <1>4, RenameAsked
    <2>2. /\ name[m] # n /\ \A x \in Models \ {m} : name[x] # n
          /\ name' = [name EXCEPT ![m] = n]
          /\ alias' = [alias EXCEPT ![n] = None, ![name[m]] = m]
      BY <1>4 DEF Renames
    <2>3. SUFFICES ASSUME NEW k \in Names, alias'[k] # None, NEW x \in Models
                   PROVE  name'[x] # k
      BY DEF NameIsOneThing
    <2>4. k # n
      BY <1>0, <2>1, <2>2, <2>3
    <2>5. CASE x = m
      BY <1>0, <2>1, <2>2, <2>4, <2>5
    <2>6. CASE x # m
      <3>1. name'[x] = name[x]
        BY <1>0, <2>2, <2>6
      <3>2. CASE k = name[m]
        BY <2>1, <2>6, <3>1, <3>2, NoneAssumption DEF NamesApart
      <3>3. CASE k # name[m]
        <4>1. alias'[k] = alias[k]
          BY <1>0, <2>2, <2>4, <3>3
        <4> QED
          BY <1>0, <2>3, <3>1, <4>1 DEF NameIsOneThing
      <3> QED
        BY <3>2, <3>3
    <2> QED
      BY <2>5, <2>6
  <1>5. CASE DeleteAlias(h)
    <2>1. (\A k \in Names : alias'[k] \in {None, alias[k]}) /\ name' = name
      BY <1>0, <1>5 DEF DeleteAlias
    <2> QED
      BY <1>0, <2>1 DEF NameIsOneThing
  <1> QED
    BY <1>1, <1>2, <1>3, <1>4, <1>5, AliasCases, NameCases

\* One operation at a time: each check still holds when the write it guards is
\* made, and the table that is installed is the store's.
LEMMA SerialStep ==
    ASSUME TypeInv, NamesApart, Named, Recorded, Serial, NEW h \in Handlers, HandlerStep(h)
    PROVE  Serial'
  <1>0. pc \in [Handlers -> Places] /\ pc[h] # "idle"
    BY DEF TypeInv, TypeOK, HandlerStep, AliasFree, InsertModel, InsertProvider,
       InsertDeployment, Target, ModelFree, Upsert, RenameModel, DeleteAlias,
       DeleteDeployment, InUse, Remove, ReadDeployments, ReadAliases, Install
  <1>1. \A g \in Handlers : g # h => pc[g] = "idle" /\ pc'[g] = "idle"
    BY <1>0, OthersStay DEF Serial
  <1>2. NameIsOneThing'
    BY OneThingStep
  <1>4. CASE Install(h)
    <2>1. got[h].models = ListDeployments /\ got[h].aliases = ListAliases
      BY <1>4 DEF Serial, Install
    <2>2. snap' = Stored
      BY <1>4, <2>1 DEF Install, Stored
    <2>3. UNCHANGED <<name, alias, deployed, borne>>
      BY <1>4 DEF Install, dbVars
    <2>4. Stored' = Stored
      BY <2>3 DEF Stored, ListDeployments, ListAliases
    <2>5. Routed(snap)'
      <3>1. Routed(Stored)
        BY StoredRouted DEF Serial
      <3> QED
        BY <2>2, <2>3, <3>1 DEF Routed, Hop
    <2>6. pc'[h] = "idle"
      BY <1>0, <1>4 DEF Install, Answers, Goes
    <2> QED
      BY <1>1, <1>2, <2>2, <2>4, <2>5, <2>6 DEF Serial
  <1>5. CASE ~Install(h)
    <2>1. snap' = snap
      BY <1>5 DEF HandlerStep, AliasFree, InsertModel, InsertProvider, InsertDeployment,
         Target, ModelFree, Upsert, RenameModel, DeleteAlias, DeleteDeployment, InUse,
         Remove, ReadDeployments, ReadAliases
    <2>2. Routed(snap)'
      <3>1. borne \subseteq borne'
        BY RecordedStep
      <3> QED
        BY <2>1, <3>1 DEF Serial, Routed, Hop
    <2>3. ASSUME pc'[h] \notin Reloading
          PROVE  snap' = Stored'
      <3>1. pc[h] \notin Reloading
        BY <1>0, <1>5, <2>3 DEF HandlerStep, AliasFree, InsertModel, InsertProvider,
           InsertDeployment, Target, ModelFree, Upsert, RenameModel, DeleteAlias,
           DeleteDeployment, InUse, Remove, ReadDeployments, ReadAliases, Goes, Reloading
      <3>2. snap = Stored
        BY <1>1, <3>1 DEF Serial, Reloading
      <3>3. UNCHANGED <<alias, deployed>> /\ (UNCHANGED name \/ InsertModel(h))
        BY <1>0, <1>5, <2>3 DEF HandlerStep, AliasFree, InsertModel, InsertProvider,
           InsertDeployment, Target, ModelFree, Upsert, RenameModel, DeleteAlias,
           DeleteDeployment, InUse, Remove, ReadDeployments, ReadAliases, Goes, Reloading,
           dbVars
      <3> QED
        BY <2>1, <3>2, <3>3, StoredKept DEF Stored
    <2>4. pc'[h] = "insert_model" => alias'[req'[h].name] = None
      BY <1>0, <1>5 DEF HandlerStep, AliasFree, InsertModel, InsertProvider,
         InsertDeployment, Target, ModelFree, Upsert, RenameModel, DeleteAlias,
         DeleteDeployment, InUse, Remove, ReadDeployments, ReadAliases, Goes, Answers, dbVars
    <2>5. pc'[h] = "upsert" => \A m \in Models : name'[m] # req'[h].name
      BY <1>0, <1>5 DEF HandlerStep, AliasFree, InsertModel, InsertProvider,
         InsertDeployment, Target, ModelFree, Upsert, RenameModel, DeleteAlias,
         DeleteDeployment, InUse, Remove, ReadDeployments, ReadAliases, Goes, Answers, dbVars
    <2>7. ASSUME pc'[h] \in {"list_aliases", "install"}
          PROVE  got'[h].models = ListDeployments'
      <3>1. \/ ReadDeployments(h) /\ got'[h].models = ListDeployments
            \/ ReadAliases(h) /\ pc[h] = "list_aliases" /\ got'[h].models = got[h].models
        BY <2>7, ModelsRead
      <3>2. UNCHANGED <<name, alias, deployed>>
        BY <3>1 DEF ReadDeployments, ReadAliases, dbVars
      <3>3. ListDeployments' = ListDeployments
        BY <3>2 DEF ListDeployments
      <3> QED
        BY <3>1, <3>3 DEF Serial
    <2>8. ASSUME pc'[h] = "install"
          PROVE  got'[h].aliases = ListAliases'
      <3>1. ReadAliases(h)
        BY <1>0, <2>8, ModelsRead DEF ReadDeployments, Goes
      <3>2. got'[h].aliases = ListAliases
        BY <3>1 DEF ReadAliases, TypeInv, TypeOK
      <3>3. ListAliases' = ListAliases
        BY <3>1 DEF ReadAliases, dbVars, ListAliases
      <3> QED
        BY <3>2, <3>3
    <2> QED
      BY <1>1, <1>2, <2>2, <2>3, <2>4, <2>5, <2>7, <2>8 DEF Serial
  <1> QED
    BY <1>4, <1>5

\* Where one hop ends, eight hops end.
LEMMA CanonicalIsHop ==
    ASSUME NEW s, NEW n, Hop(s, Hop(s, n)) = Hop(s, n)
    PROVE  Canonical(s, n) = Hop(s, n)
  <1> DEFINE F(g) == [i \in 0..8 |-> IF i = 0 THEN n ELSE Hop(s, g[i - 1])]
             after == CHOOSE g : g = F(g)
             hops == [i \in 0..8 |-> IF i = 0 THEN n ELSE Hop(s, n)]
  <1>1. hops = F(hops)
    <2>1. \A i \in 0..8 : i # 0 => i - 1 \in 0..8 /\ (i - 1 = 0 \/ i - 1 # 0)
      OBVIOUS
    <2>2. \A i \in 0..8 : i # 0 => Hop(s, hops[i - 1]) = Hop(s, n)
      BY <2>1
    <2> QED
      BY <2>2
  <1>2. \E g : g = F(g)
    BY <1>1
  <1>3. after = F(after)
    BY <1>2
  <1> HIDE DEF after
  <1>4. \A i \in 0..8 : after[i] = IF i = 0 THEN n ELSE Hop(s, after[i - 1])
    BY <1>3
  <1>5. after[1] = Hop(s, n)
    BY <1>4
  <1>6. after[2] = Hop(s, n) /\ after[3] = Hop(s, n) /\ after[4] = Hop(s, n)
    BY <1>4, <1>5
  <1>7. after[5] = Hop(s, n) /\ after[6] = Hop(s, n) /\ after[7] = Hop(s, n) /\ after[8] = Hop(s, n)
    BY <1>4, <1>6
  <1> QED
    BY <1>7 DEF Canonical, after

\* Three names that are three are apart.
LEMMA ThreeApart ==
    ASSUME NEW x, NEW y, NEW z, Cardinality({x, y, z}) = 3
    PROVE  x # y /\ x # z /\ y # z
  <1>1. \A u, v : Cardinality({u, v}) # 3
    <2> SUFFICES ASSUME NEW u, NEW v PROVE Cardinality({u, v}) # 3
      OBVIOUS
    <2>1. IsFiniteSet({u}) /\ Cardinality({u}) = 1
      BY FS_Singleton
    <2>2. Cardinality({u} \cup {v}) \in {1, 2}
      BY <2>1, FS_AddElement
    <2> QED
      BY <2>2, {u, v} = {u} \cup {v}
  <1>2. x = y => {x, y, z} = {x, z}
    OBVIOUS
  <1>3. x = z => {x, y, z} = {x, y}
    OBVIOUS
  <1>4. y = z => {x, y, z} = {x, y}
    OBVIOUS
  <1> QED
    BY <1>1, <1>2, <1>3, <1>4

-----------------------------------------------------------------------------
(* The inductive invariant, and the theorems.                              *)

\* The first catalog has its names apart, recorded and installed.
LEMMA CatalogInit == Init => CatalogInv
  <1> SUFFICES ASSUME Init PROVE CatalogInv
    OBVIOUS
  <1>0. TypeInv
    BY TypeInit
  <1>1. PICK m1 \in Models, m2 \in Models, n1 \in Names, n2 \in Names, a \in Names,
             p \in Providers :
          /\ m1 # m2 /\ Cardinality({n1, n2, a}) = 3
          /\ name = [m \in Models |-> CASE m = m1 -> n1 [] m = m2 -> n2 [] OTHER -> None]
          /\ alias = [n \in Names |-> IF n = a THEN m1 ELSE None]
          /\ provider = [q \in Providers |-> IF q = p THEN 1 ELSE 0]
          /\ deployed = {m1, m2} \X {p}
          /\ borne = {<<n1, m1>>, <<n2, m2>>, <<a, m1>>}
    BY DEF Init
  <1>2. n1 # n2 /\ n1 # a /\ n2 # a
    BY <1>1, ThreeApart
  <1>3. \A m \in Models : name[m] = IF m = m1 THEN n1 ELSE IF m = m2 THEN n2 ELSE None
    BY <1>1
  <1>4. NamesApart
    BY <1>2, <1>3, NoneAssumption DEF NamesApart
  <1>5. \A h \in Handlers : pc[h] = "idle" /\ claim[h] = NoClaim
    BY DEF Init
  <1>6. Named
    <2>1. \A d \in deployed : d[1] \in {m1, m2}
      BY <1>1
    <2> QED
      BY <1>1, <1>3, <1>5, <2>1, NoneAssumption DEF Named
  <1>7. Recorded
    BY <1>1, <1>3 DEF Recorded
  <1>8. NameIsOneThing
    BY <1>1, <1>2, <1>3, NoneAssumption DEF NameIsOneThing
  <1>9. snap = Stored
    BY DEF Init, Stored
  <1>10. Serial
    BY <1>0, <1>4, <1>5, <1>6, <1>7, <1>8, <1>9, StoredRouted DEF Serial
  <1> QED
    BY <1>0, <1>4, <1>5, <1>6, <1>7, <1>10 DEF CatalogInv, ClaimHolds, Watched

\* Every step of a handler, a begin, a hang-up and a rest keep the invariant.
LEMMA CatalogNext == CatalogInv /\ [Next]_vars => CatalogInv'
  <1> SUFFICES ASSUME CatalogInv, [Next]_vars PROVE CatalogInv'
    OBVIOUS
  <1> USE DEF CatalogInv
  <1>0. TypeInv' /\ TypeInv
    BY TypeNext
  <1>1. ASSUME NEW h \in Handlers, Begin(h) PROVE CatalogInv'
    <2>1. PICK x \in Requests : /\ req' = [req EXCEPT ![h] = x] /\ Goes(h, FirstPlace(x.op))
      BY <1>1 DEF Begin
    <2>2. UNCHANGED <<name, alias, deployed, borne, snap>> /\ pc[h] = "idle"
      BY <1>1 DEF Begin, dbVars
    <2>0. \A g \in Handlers : g # h => got'[g] = got[g]
      BY <1>0, <1>1, BeginReads
    <2>3. pc' = [pc EXCEPT ![h] = FirstPlace(x.op)] /\ pc \in [Handlers -> Places]
      BY <1>0, <2>1 DEF Goes, TypeInv, TypeOK
    <2>4. FirstPlace(x.op) \in {"alias_free", "target", "in_use", "write"}
      BY DEF FirstPlace
    <2>5. NamesApart' /\ Recorded'
      BY <2>2 DEF NamesApart, Recorded
    <2>6. Named'
      <3>1. ASSUME NEW g \in Handlers,
                   pc'[g] \in {"insert_provider", "insert_deployment", "model_free", "upsert"}
            PROVE  got'[g] = got[g] /\ pc'[g] = pc[g]
        BY <2>0, <2>3, <2>4, <3>1
      <3> QED
        BY <2>2, <3>1 DEF Named
    <2>7. ASSUME NEW g \in Handlers PROVE ClaimHolds(g)'
      <3>1. claim' = [claim EXCEPT ![h] = NoClaim]
            /\ claim \in [Handlers -> {NoClaim} \cup [dep : Deployments, live : BOOLEAN]]
        BY <1>0, <1>1 DEF Begin, TypeInv, TypeOK
      <3>2. CASE g = h
        BY <3>1, <3>2 DEF ClaimHolds
      <3>3. CASE g # h
        <4>1. claim'[g] = claim[g] /\ pc'[g] = pc[g] /\ got'[g] = got[g] /\ deployed' = deployed
          BY <2>0, <2>2, <2>3, <3>1, <3>3
        <4> QED
          BY <4>1 DEF ClaimHolds
      <3> QED
        BY <3>2, <3>3
    <2>8. ASSUME alone' PROVE Serial'
      <3>1. alone /\ \A g \in Handlers : pc[g] = "idle"
        BY <1>1, <2>8 DEF Begin
      <3>2. Serial /\ snap = Stored
        BY <3>1 DEF Serial, Reloading
      <3>3. \A g \in Handlers : pc'[g] = IF g = h THEN FirstPlace(x.op) ELSE "idle"
        BY <2>3, <3>1
      <3>4. Stored' = Stored /\ snap' = snap
        BY <2>2 DEF Stored, ListDeployments, ListAliases
      <3>5. Routed(snap)' /\ NameIsOneThing'
        BY <2>2, <3>2 DEF Serial, Routed, Hop, NameIsOneThing
      <3> QED
        BY <2>2, <2>4, <3>2, <3>3, <3>4, <3>5 DEF Serial
    <2>9. ASSUME NEW g \in Handlers PROVE Watched(g)'
      BY <1>0, <1>1, BeginWatched
    <2> QED
      BY <1>0, <2>5, <2>6, <2>7, <2>8, <2>9
  <1>2. ASSUME NEW h \in Handlers, Abandoned(h) PROVE CatalogInv'
    <2>1. UNCHANGED <<name, alias, deployed, borne, claim>> /\ ~alone' /\ Answers(h)
      BY <1>2 DEF Abandoned, dbVars
    <2>2. pc'[h] = "idle"
      BY <1>0, <2>1 DEF Answers, Goes, TypeInv, TypeOK
    <2>3. \A g \in Handlers : g # h => pc'[g] = pc[g] /\ got'[g] = got[g]
      BY <1>0, <1>2, OthersStay
    <2>4. NamesApart' /\ Recorded'
      BY <2>1 DEF NamesApart, Recorded
    <2>5. Named'
      <3>1. ASSUME NEW g \in Handlers,
                   pc'[g] \in {"insert_provider", "insert_deployment", "model_free", "upsert"}
            PROVE  pc'[g] = pc[g] /\ got'[g] = got[g]
        BY <2>2, <2>3, <3>1
      <3> QED
        BY <2>1, <3>1 DEF Named
    <2>6. ASSUME NEW g \in Handlers PROVE ClaimHolds(g)'
      <3>1. CASE g = h
        BY <2>1, <2>2, <3>1 DEF ClaimHolds
      <3>2. CASE g # h
        BY <2>1, <2>3, <3>2 DEF ClaimHolds
      <3> QED
        BY <3>1, <3>2
    <2>7. ASSUME NEW g \in Handlers PROVE Watched(g)'
      <3>1. CASE g = h
        BY <2>2, <3>1 DEF Watched
      <3>2. CASE g # h
        <4>1. UNCHANGED <<provider, deployed>> /\ unseen'[g] = unseen[g] /\ req'[g] = req[g]
          BY <1>0, <1>2, <3>2, OthersStay DEF Abandoned, dbVars, TypeInv, TypeOK
        <4> QED
          BY <2>3, <3>2, <4>1 DEF Watched
      <3> QED
        BY <3>1, <3>2
    <2> QED
      BY <1>0, <2>1, <2>4, <2>5, <2>6, <2>7
  <1>3. CASE UNCHANGED vars
    <2>1. NamesApart' /\ Recorded' /\ Named'
      BY <1>3 DEF vars, dbVars, NamesApart, Recorded, Named
    <2>2. \A g \in Handlers : ClaimHolds(g)' /\ Watched(g)'
      BY <1>3 DEF vars, dbVars, ClaimHolds, Watched
    <2>3. Serial => Serial'
      <3>1. ListDeployments' = ListDeployments /\ ListAliases' = ListAliases
        BY <1>3 DEF vars, dbVars, ListDeployments, ListAliases
      <3>2. Routed(snap) => Routed(snap)'
        BY <1>3 DEF vars, Routed, Hop
      <3>3. NameIsOneThing => NameIsOneThing'
        BY <1>3 DEF vars, dbVars, NameIsOneThing
      <3> QED
        BY <1>3, <3>1, <3>2, <3>3 DEF vars, dbVars, Serial, Stored
    <2> QED
      BY <1>0, <1>3, <2>1, <2>2, <2>3 DEF vars
  <1>4. ASSUME NEW h \in Handlers, HandlerStep(h) PROVE CatalogInv'
    <2>1. alone' = alone
      BY <1>4 DEF HandlerStep, AliasFree, InsertModel, InsertProvider, InsertDeployment,
         Target, ModelFree, Upsert, RenameModel, DeleteAlias, DeleteDeployment, InUse,
         Remove, ReadDeployments, ReadAliases, Install
    <2>2. NamesApart' /\ Named' /\ Recorded'
      BY <1>4, NamesApartStep, NamedStep, RecordedStep
    <2>3. \A g \in Handlers : ClaimHolds(g)' /\ Watched(g)'
      BY <1>4, ClaimStep, WatchedStep
    <2>4. alone => Serial'
      BY <1>4, SerialStep
    <2> QED
      BY <1>0, <2>1, <2>2, <2>3, <2>4
  <1> QED
    BY <1>1, <1>2, <1>3, <1>4 DEF Next, Rest

\* In every behaviour the store, the handlers and the table stay as CatalogInv says.
THEOREM CatalogInvHolds == Spec => []CatalogInv
  BY CatalogInit, CatalogNext, PTL DEF Spec

\* The catalog's variables keep their types.
THEOREM TypeCorrect == Spec => []TypeOK
  <1>1. CatalogInv => TypeOK
    BY DEF CatalogInv, TypeInv
  <1> QED
    BY <1>1, CatalogInvHolds, PTL

\* As long as operations of the admin API come one at a time and none is abandoned,
\* the routing table is the store's whenever no handler is at work (reload_models).
THEOREM SerialTableHolds == Spec => []SerialTable
  <1>1. CatalogInv => SerialTable
    BY DEF CatalogInv, Serial, SerialTable, TableIsCurrent, Stored, Reloading
  <1> QED
    BY <1>1, CatalogInvHolds, PTL

\* Under the same condition no name is both a model's and an alias's, after any
\* number of renames, creations and deletions.
THEOREM SerialNamesHolds == Spec => []SerialNames
  <1>1. CatalogInv => SerialNames
    BY DEF CatalogInv, Serial, SerialNames
  <1> QED
    BY <1>1, CatalogInvHolds, PTL

\* Under the same condition a name is routed only to models that have had it
\* (Snapshot::canonical over the installed table).
THEOREM SerialRoutesHolds == Spec => []SerialRoutes
  <1>1. CatalogInv => SerialRoutes
    <2> SUFFICES ASSUME CatalogInv, alone, NEW n \in Names, NEW d \in Candidates(snap, n)
                 PROVE  <<n, d[1]>> \in borne
      BY DEF SerialRoutes, NoForeignRoute
    <2>1. Hop(snap, Hop(snap, n)) = Hop(snap, n)
      BY DEF CatalogInv, Serial, Routed
    <2>2. Canonical(snap, n) = Hop(snap, n)
      BY <2>1, CanonicalIsHop
    <2> QED
      BY <2>2 DEF CatalogInv, Serial, Routed, Candidates
  <1> QED
    BY <1>1, CatalogInvHolds, PTL

\* Whatever delete_provider's cascade takes was made after it had looked for live
\* deployments, whoever else is at work (SqliteStore::delete_provider).
THEOREM ReapsOnlyUnseenHolds == Spec => ReapsOnlyUnseen
  <1> DEFINE Late == \A h \in Handlers :
               pc[h] = "remove" /\ pc'[h] # "remove" =>
                  \A d \in deployed \ deployed' :
                     d \in unseen[h] /\ provider[d[2]] = got[h].provider
  <1>1. CatalogInv /\ [Next]_vars => [Late]_vars
    <2> SUFFICES ASSUME CatalogInv, Next, NEW h \in Handlers, pc[h] = "remove",
                        pc'[h] # "remove", NEW d \in deployed \ deployed'
                 PROVE  d \in unseen[h] /\ provider[d[2]] = got[h].provider
      OBVIOUS
    <2>0. pc \in [Handlers -> Places] /\ TypeInv /\ Watched(h)
      BY DEF CatalogInv, TypeInv, TypeOK
    <2>1. ~UNCHANGED dbVars
      BY DEF dbVars
    <2>2. PICK g \in Handlers : HandlerStep(g)
      BY <2>1 DEF Next, Rest, Begin, Abandoned, vars
    <2>3. g = h
      BY <2>0, <2>2, OthersStay
    <2>4. Remove(h)
      BY <2>2, <2>3 DEF HandlerStep, AliasFree, InsertModel, InsertProvider, InsertDeployment,
         Target, ModelFree, Upsert, RenameModel, DeleteAlias, DeleteDeployment, InUse,
         ReadDeployments, ReadAliases, Install
    <2>5. d[2] = req[h].provider /\ provider[req[h].provider] = got[h].provider
      BY <2>4 DEF Remove
    <2> QED
      BY <2>0, <2>5 DEF Watched
  <1> QED
    BY <1>1, CatalogInvHolds, PTL DEF Spec, ReapsOnlyUnseen

\* However handlers overlap, one that answers serves its own deployment or deletion
\* (create_deployment, delete_deployment and the reload that ends them).
THEOREM OwnWriteIsServedHolds == Spec => OwnWriteIsServed
  <1> DEFINE Own == \A h \in Handlers :
               pc[h] = "install" /\ pc'[h] = "idle" /\ faults' = faults /\ claim[h] # NoClaim =>
                  (claim[h].live <=> \E n \in Names : claim[h].dep \in snap'.models[n])
  <1>1. CatalogInv /\ [Next]_vars => [Own]_vars
    <2> SUFFICES ASSUME CatalogInv, Next, NEW h \in Handlers, pc[h] = "install",
                        pc'[h] = "idle", faults' = faults, claim[h] # NoClaim
                 PROVE  claim[h].live <=> \E n \in Names : claim[h].dep \in snap'.models[n]
      OBVIOUS
    <2>0. pc \in [Handlers -> Places] /\ TypeInv /\ faults \in Nat
      BY DEF CatalogInv, TypeInv, TypeOK
    <2>1. \A g \in Handlers : ~Abandoned(g)
      BY <2>0 DEF Abandoned
    <2>2. PICK g \in Handlers : Begin(g) \/ HandlerStep(g)
      BY <2>1 DEF Next, Rest
    <2>3. g = h /\ ~Begin(g)
      <3>1. g # h => pc'[h] = pc[h]
        <4>1. CASE HandlerStep(g)
          BY <2>0, <4>1, OthersStay
        <4>2. CASE Begin(g)
          BY <2>0, <4>2 DEF Begin, Goes
        <4> QED
          BY <2>2, <4>1, <4>2
      <3> QED
        BY <3>1 DEF Begin
    <2>4. Install(h)
      BY <2>2, <2>3 DEF HandlerStep, AliasFree, InsertModel, InsertProvider, InsertDeployment,
         Target, ModelFree, Upsert, RenameModel, DeleteAlias, DeleteDeployment, InUse, Remove,
         ReadDeployments, ReadAliases
    <2>5. snap'.models = got[h].models
      BY <2>4 DEF Install
    <2> QED
      BY <2>5 DEF CatalogInv, ClaimHolds
  <1> QED
    BY <1>1, CatalogInvHolds, PTL DEF Spec, OwnWriteIsServed

\* A rename leaves every name that meant a model meaning it.
LEMMA RenamesKeepsMeaning ==
    ASSUME TypeInv, NamesApart, NEW h \in Handlers, RenameModel(h), Renames(h),
           NEW k \in Names, MeantBy(k) # {}, name[req[h].model] # None
    PROVE  MeantBy(k)' = MeantBy(k)
  <1> DEFINE m == req[h].model
             n == req[h].name
  <1>0. /\ name \in [Models -> Names \cup {None}] /\ alias \in [Names -> Models \cup {None}]
        /\ m \in Models /\ n \in Names
    BY RenameAsked DEF TypeInv, TypeOK
  <1>1. /\ name[m] # n /\ \A x \in Models \ {m} : name[x] # n
        /\ alias[n] \in {None, m}
        /\ name' = [name EXCEPT ![m] = n]
        /\ alias' = [alias EXCEPT ![n] = None, ![name[m]] = m]
    BY DEF Renames
  <1>2. \A x \in Models : name'[x] = IF x = m THEN n ELSE name[x]
    BY <1>0, <1>1
  <1>3. CASE k = n
    <2>1. MeantBy(k) = {m}
      <3>1. \A x \in Models : name[x] # n
        BY <1>1
      <3> QED
        BY <1>1, <1>3, <3>1 DEF MeantBy
    <2>2. {x \in Models : name'[x] = n} = {m}
      BY <1>0, <1>1, <1>2
    <2>3. MeantBy(k)' = {m}
      BY <1>0, <1>2, <1>3, <2>2 DEF MeantBy
    <2> QED
      BY <2>1, <2>3
  <1>4. CASE k = name[m]
    <2>1. {x \in Models : name[x] = k} = {m}
      BY <1>0, <1>4, NoneAssumption DEF NamesApart
    <2>2. MeantBy(k) = {m}
      BY <1>0, <1>4, <2>1 DEF MeantBy
    <2>3. \A x \in Models : name'[x] # k
      BY <1>0, <1>1, <1>2, <1>4, NoneAssumption DEF NamesApart
    <2>4. alias'[k] = m /\ m # None
      BY <1>0, <1>1, <1>4, NoneAssumption
    <2>5. MeantBy(k)' = {m}
      BY <2>3, <2>4 DEF MeantBy
    <2> QED
      BY <2>2, <2>5
  <1>5. CASE k # n /\ k # name[m]
    <2>1. alias'[k] = alias[k]
      BY <1>0, <1>1, <1>5
    <2>2. \A x \in Models : name'[x] = k <=> name[x] = k
      BY <1>2, <1>5
    <2> QED
      BY <2>1, <2>2 DEF MeantBy
  <1> QED
    BY <1>3, <1>4, <1>5

\* Renaming breaks no client and never makes two models of one name, whoever else
\* writes at the same time (rename_model, one transaction).
THEOREM RenameKeepsNamesHolds == Spec => RenameKeepsNames
  <1> DEFINE Keeps ==
        (\E m \in Models : name[m] # None /\ name'[m] # name[m]) =>
          /\ \A n \in Names : MeantBy(n) # {} => MeantBy(n)' = MeantBy(n)
          /\ \A m, x \in Models : m # x /\ name'[m] # None => name'[m] # name'[x]
  <1>1. CatalogInv /\ [Next]_vars => [Keeps]_vars
    <2> SUFFICES ASSUME CatalogInv, Next, NEW m \in Models, name[m] # None, name'[m] # name[m]
                 PROVE  /\ \A n \in Names : MeantBy(n) # {} => MeantBy(n)' = MeantBy(n)
                        /\ \A y, x \in Models : y # x /\ name'[y] # None => name'[y] # name'[x]
      OBVIOUS
    <2>0. TypeInv /\ NamesApart /\ name \in [Models -> Names \cup {None}]
      BY DEF CatalogInv, TypeInv, TypeOK
    <2>1. PICK h \in Handlers : HandlerStep(h)
      BY DEF Next, Rest, Begin, Abandoned, dbVars, vars
    <2>2. RenameModel(h) /\ Renames(h)
      <3>1. CASE InsertModel(h)
        BY <2>0, <3>1, InsertModelCases
      <3> QED
        BY <2>0, <2>1, <3>1, NameCases
    <2>3. name[req[h].model] # None
      BY <2>0, <2>2 DEF Renames
    <2>4. NamesApart'
      BY <2>0, <2>1, NamesApartStep
    <2> QED
      BY <2>0, <2>2, <2>3, <2>4, RenamesKeepsMeaning DEF NamesApart
  <1> QED
    BY <1>1, CatalogInvHolds, PTL DEF Spec, RenameKeepsNames

=============================================================================

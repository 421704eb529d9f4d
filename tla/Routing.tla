------------------------------ MODULE Routing ------------------------------
(***************************************************************************)
(* Which deployments may serve a turn, and in which order: the access of a *)
(* key and of its team combined, the router's filters, strategies and      *)
(* fallbacks, the gateway's own filter behind it, and the list of models a *)
(* key is shown.                                                           *)
(*                                                                         *)
(* Code: yb-core/src/model.rs (AccessPolicy), yb-server/src/lib.rs,        *)
(* yb-gateway/src/router.rs and service.rs.                                *)
(*                                                                         *)
(* Names are the canonical ones: Catalog models aliases, renames and how   *)
(* the table is kept. A policy may be edited at any moment, so a request   *)
(* may read any, and its reads touch nothing else: they are one step.      *)
(* Handlers run on several threads, and the counters are atomics: each     *)
(* model of a chain is collected in a step of its own, and reading its     *)
(* loads and adding to one are two steps. A table that was replaced lives  *)
(* on with the requests that took it.                                      *)
(***************************************************************************)
EXTENDS Integers, FiniteSets, SequencesExt

CONSTANTS
    Tables,       \* tables the catalog may hold: deployments by public name
    Fallbacks,    \* fallbacks of each name, in order
    Policies,     \* access policies
    Strategies,   \* strategies the gateway may be configured with
    Reqs,         \* requests the gateway may handle at once
    MaxRequests,  \* bound: requests in one behaviour
    MaxEdits      \* bound: changes of the table

Names == DOMAIN Fallbacks
Unrestricted == [allowed_model_ids |-> {}, denied_model_ids |-> {},
                 allowed_provider_ids |-> {}, denied_provider_ids |-> {}]
ASSUME RoutingAssumption ==
    /\ \A t \in Tables : DOMAIN t = Names /\ \A n \in Names : t[n] \in Seq(ToSet(t[n]))
    /\ \A n \in Names : Fallbacks[n] \in Seq(Names)
    /\ Unrestricted \in Policies
    /\ Strategies \subseteq {"simple", "round_robin", "least_busy"}
    /\ IsFiniteSet(Names) /\ IsFiniteSet(Reqs) /\ Reqs # {}
    /\ MaxRequests \in Nat /\ MaxEdits \in Nat

VARIABLES
    strategy,     \* Snapshot.strategy
    stored,       \* the catalog in the database
    snap,         \* Snapshot.models
    rr, load,     \* ModelEntry.rr and .load of that table, by name
    req,          \* what each request is doing
    shown,        \* what discovery last answered the client of each
    begun, edits, \* bounds
    firsts,       \* history: how often each deployment came first, by name
    whole         \* history: the names whose every deployment always survived

vars == <<strategy, stored, snap, rr, load, req, shown, begun, edits, firsts, whole>>

-----------------------------------------------------------------------------
(* AccessPolicy.                                                           *)

Lets(allowed, denied, id) == id \notin denied /\ (allowed = {} \/ id \in allowed)
permits_model(p, m) == Lets(p.allowed_model_ids, p.denied_model_ids, m)
permits_provider(p, v) == Lets(p.allowed_provider_ids, p.denied_provider_ids, v)
Permits(p, d) == permits_model(p, d.model) /\ permits_provider(p, d.provider)

intersect_allow(a, b) == IF a = {} THEN b ELSE IF b = {} THEN a ELSE a \cap b
merge(p, q) ==
    [allowed_model_ids |-> intersect_allow(p.allowed_model_ids, q.allowed_model_ids),
     denied_model_ids |-> p.denied_model_ids \cup q.denied_model_ids,
     allowed_provider_ids |-> intersect_allow(p.allowed_provider_ids, q.allowed_provider_ids),
     denied_provider_ids |-> p.denied_provider_ids \cup q.denied_provider_ids]

-----------------------------------------------------------------------------
(* The router.                                                             *)

(* A finite set as a sequence, in the order of a relation on it.           *)
Ranked(S, before) ==
    [k \in 1 .. Cardinality(S) |->
        CHOOSE x \in S : Cardinality({y \in S : <<y, x>> \in before}) = k - 1]
Ascending(S) == Ranked(S, {x \in S \X S : x[1] < x[2]})

(* The filters of collect, as build_route_request fills them in: the       *)
(* denied models and providers, and the allowed providers if there are any.*)
Survives(access, d) == d.model \notin access.denied_model_ids
                          /\ permits_provider(access, d.provider)
Survivors(table, n, access) ==
    Ascending({i \in DOMAIN table[n] : Survives(access, table[n][i])})

(* The models that are collected: the one asked for, then its fallbacks. A *)
(* name may come twice.                                                    *)
Chain(n) == <<n>> \o Fallbacks[n]

(* The orders a strategy may give the surviving positions of a model. A    *)
(* weighted shuffle may give any; and so may the counters of a table that  *)
(* was replaced, which are not followed.                                   *)
Rotate(s, k) == [i \in 1 .. Len(s) |-> s[((i - 1 + k) % Len(s)) + 1]]
LessBusy(loads, i, j) == loads[i] < loads[j] \/ (loads[i] = loads[j] /\ i < j)
Sorted(s, loads) ==
    Ranked(ToSet(s), {x \in ToSet(s) \X ToSet(s) : LessBusy(loads, x[1], x[2])})
order(s, m, gone) ==
    IF gone \/ strategy = "simple" THEN SetToSeqs(ToSet(s))
    ELSE IF strategy = "round_robin" THEN {Rotate(s, rr[m])}
    ELSE {Sorted(s, load[m])}

(* The elements of a sequence at some of its places.                       *)
At(s, places) == [k \in 1 .. Cardinality(places) |-> s[Ascending(places)[k]]]

(* collect: what is not in the list yet is added to it, where it comes     *)
(* first.                                                                  *)
Extend(out, s) ==
    out \o At(s, {k \in DOMAIN s : s[k] \notin ToSet(out)
                                      /\ \A l \in 1 .. (k - 1) : s[l] # s[k]})

\* Mutant: the router's filters are taken to be enough.
filter_access_none(candidates, access) == candidates
(* The gateway's own filter of what the router answered.                   *)
filter_access(candidates, access) ==
    At(candidates, {i \in DOMAIN candidates : Permits(access, candidates[i])})

\* Mutant: only the model is looked at, not who serves it.
listed_models_by_name(table, access, answered) ==
    {n \in Names : answered /\ \E d \in ToSet(table[n]) : permits_model(access, d.model)}
(* The names discovery shows: those with a deployment the policy permits.  *)
(* When the database does not answer it shows none, and says nothing of it.*)
listed_models(table, access, answered) ==
    {n \in Names : answered /\ \E d \in ToSet(table[n]) : Permits(access, d)}

-----------------------------------------------------------------------------

Idle == [pc |-> "idle", want |-> "-", key |-> Unrestricted, team |-> Unrestricted,
         access |-> Unrestricted, failed |-> FALSE, table |-> <<>>, gone |-> FALSE,
         place |-> 0, candidates |-> <<>>, busy |-> <<>>]
(* The client has no list.                                                 *)
Unasked == [names |-> {}, access |-> Unrestricted, table |-> <<>>, answered |-> FALSE]
Zero(table) == [n \in Names |-> [i \in 1 .. Len(table[n]) |-> 0]]

Init ==
    /\ strategy \in Strategies
    /\ \E t \in Tables : stored = t /\ snap = t
    /\ rr = [n \in Names |-> 0]
    /\ load = Zero(snap) /\ firsts = Zero(snap)
    /\ whole = Names
    /\ req = [r \in Reqs |-> Idle]
    /\ shown = [r \in Reqs |-> Unasked]
    /\ begun = 0 /\ edits = 0

(* run_call, discovery_access: verify_api_key reads the key's grant, then  *)
(* effective_access the team's, which counts for nothing when that fails.  *)
effective_access(k, t, failed) == IF failed THEN k ELSE merge(k, t)

(* models_openai and its like: a client asks what it may use before it     *)
(* uses it. The list comes of the database as it is, or of a query that    *)
(* failed. The table and the access are kept for the property.             *)
ListModels(r) ==
    /\ req[r].pc = "idle" /\ shown[r] = Unasked
    /\ begun < MaxRequests
    /\ begun' = begun + 1
    /\ \E k, t \in Policies, failed, answered \in BOOLEAN :
          LET access == effective_access(k, t, failed) IN
          shown' = [shown EXCEPT ![r] =
              [names |-> listed_models(stored, access, answered),
               access |-> access, table |-> stored, answered |-> answered]]
    /\ UNCHANGED <<strategy, stored, snap, rr, load, req, edits, firsts, whole>>

ReadGrants(r) ==
    /\ req[r].pc = "idle"
    /\ begun < MaxRequests
    /\ begun' = begun + 1
    /\ \E n \in Names, k, t \in Policies, failed \in BOOLEAN :
          req' = [req EXCEPT ![r] = [Idle EXCEPT
                     !.pc = "route", !.want = n, !.key = k, !.team = t, !.failed = failed,
                     !.access = effective_access(k, t, failed)]]
    /\ UNCHANGED <<strategy, stored, snap, rr, load, shown, edits, firsts, whole>>

(* resolve: the table that is installed is taken.                          *)
Resolve(r) ==
    /\ req[r].pc = "route"
    /\ req' = [req EXCEPT ![r].pc = "collect", ![r].table = snap]
    /\ UNCHANGED <<strategy, stored, snap, rr, load, shown, begun, edits, firsts, whole>>

(* collect: the next model of the chain. Round robin counts as it reads;   *)
(* which deployment comes first is counted, whether it is called or not.   *)
Collect(r) ==
    LET q == req[r]
        m == Chain(q.want)[q.place + 1]
        s == Survivors(q.table, m, q.access)
        busy == strategy = "least_busy"
    IN
    /\ q.pc = "collect" /\ q.place < Len(Chain(q.want))
    /\ \/ /\ s = <<>>
          /\ req' = [req EXCEPT ![r].place = @ + 1]
          /\ UNCHANGED <<rr, firsts, whole>>
       \/ /\ s # <<>>
          /\ \E o \in order(s, m, q.gone) :
                /\ req' = [req EXCEPT
                       ![r].place = @ + 1,
                       ![r].candidates = Extend(@, [k \in DOMAIN o |-> q.table[m][o[k]]]),
                       ![r].pc = IF busy THEN "count" ELSE "collect",
                       ![r].busy = IF busy THEN <<m, o[1]>> ELSE <<>>]
                /\ firsts' = IF q.gone \/ strategy = "simple" THEN firsts
                             ELSE [firsts EXCEPT ![m][o[1]] = @ + 1]
          /\ rr' = IF q.gone \/ strategy # "round_robin" THEN rr ELSE [rr EXCEPT ![m] = @ + 1]
          /\ whole' = IF q.gone \/ Len(s) = Len(q.table[m]) THEN whole ELSE whole \ {m}
    /\ UNCHANGED <<strategy, stored, snap, load, shown, begun, edits>>

\* Mutant: nothing is counted.
CountBusyNone(r) ==
    /\ req[r].pc = "count"
    /\ req' = [req EXCEPT ![r].pc = "collect", ![r].busy = <<>>]
    /\ UNCHANGED <<strategy, stored, snap, rr, load, shown, begun, edits, firsts, whole>>

(* Least busy: the load of the first is added to.                          *)
CountBusy(r) ==
    LET q == req[r] IN
    /\ q.pc = "count"
    /\ load' = IF q.gone THEN load ELSE [load EXCEPT ![q.busy[1]][q.busy[2]] = @ + 1]
    /\ req' = [req EXCEPT ![r].pc = "collect", ![r].busy = <<>>]
    /\ UNCHANGED <<strategy, stored, snap, rr, shown, begun, edits, firsts, whole>>

(* handle: what resolve answered is filtered. Without a candidate, before  *)
(* or after that, the turn is refused.                                     *)
Route(r) ==
    LET q == req[r]
        out == filter_access(q.candidates, q.access)
    IN
    /\ q.pc = "collect" /\ q.place = Len(Chain(q.want))
    /\ req' = [req EXCEPT ![r] = [Idle EXCEPT
                  !.pc = IF out = <<>> THEN "idle" ELSE "turn", !.candidates = out]]
    /\ shown' = [shown EXCEPT ![r] = Unasked]
    /\ UNCHANGED <<strategy, stored, snap, rr, load, begun, edits, firsts, whole>>

(* The turn, with its first candidate, ends. No counter knows.             *)
Finish(r) ==
    /\ req[r].pc = "turn"
    /\ req' = [req EXCEPT ![r] = Idle]
    /\ UNCHANGED <<strategy, stored, snap, rr, load, shown, begun, edits, firsts, whole>>

(* A change of the catalog.                                                *)
Edit ==
    /\ edits < MaxEdits
    /\ edits' = edits + 1
    /\ stored' \in Tables
    /\ UNCHANGED <<strategy, snap, rr, load, req, shown, begun, firsts, whole>>

(* reload: the new table counts from zero; a request that is collecting    *)
(* goes on with the table it took, and counts there.                       *)
Reload ==
    /\ snap # stored
    /\ snap' = stored
    /\ rr' = [n \in Names |-> 0]
    /\ load' = Zero(stored) /\ firsts' = Zero(stored)
    /\ whole' = Names
    /\ req' = [r \in Reqs |-> [req[r] EXCEPT !.gone = req[r].pc \in {"collect", "count"}]]
    /\ UNCHANGED <<strategy, stored, shown, begun, edits>>

Next ==
    \/ \E r \in Reqs : \/ ListModels(r) \/ ReadGrants(r) \/ Resolve(r) \/ Collect(r)
                       \/ CountBusy(r) \/ Route(r) \/ Finish(r)
    \/ Edit \/ Reload

Spec == Init /\ [][Next]_vars

-----------------------------------------------------------------------------
(* Properties.                                                             *)

(* A number for each deployment of the table.                              *)
Counts(c) == DOMAIN c = Names /\ \A n \in Names : c[n] \in [DOMAIN snap[n] -> Nat]

TypeOK ==
    /\ strategy \in Strategies
    /\ stored \in Tables /\ snap \in Tables
    /\ rr \in [Names -> Nat]
    /\ Counts(load) /\ Counts(firsts)
    /\ whole \subseteq Names
    /\ begun \in Nat /\ edits \in Nat
    /\ DOMAIN req = Reqs /\ DOMAIN shown = Reqs
    /\ \A r \in Reqs :
          /\ DOMAIN req[r] = DOMAIN Idle
          /\ req[r].pc \in {"idle", "route", "collect", "count", "turn"}
          /\ req[r].gone \in BOOLEAN
          /\ req[r].pc \in {"route", "collect", "count"} =>
                req[r].want \in Names /\ req[r].place \in 0 .. Len(Chain(req[r].want))
          /\ req[r].pc \in {"collect", "count"} =>
                req[r].table \in Tables /\ (~req[r].gone => req[r].table = snap)
          /\ req[r].pc = "count" /\ ~req[r].gone =>
                \E m \in Names : \E i \in DOMAIN snap[m] : req[r].busy = <<m, i>>

(* The two grants of a request name no model, or no provider, in common:   *)
(* the merged allow-list is then empty, which means no ceiling at all.     *)
Disjoint(p, q) ==
    \/ p.allowed_model_ids # {} /\ q.allowed_model_ids # {}
          /\ p.allowed_model_ids \cap q.allowed_model_ids = {}
    \/ p.allowed_provider_ids # {} /\ q.allowed_provider_ids # {}
          /\ p.allowed_provider_ids \cap q.allowed_provider_ids = {}

Granted(table, p, q, n) ==
    {d \in UNION {ToSet(table[m]) : m \in ToSet(Chain(n))} : Permits(p, d) /\ Permits(q, d)}
Routed(r) == req[r].pc = "collect" /\ req'[r].pc \in {"turn", "idle"}

(* The candidates of a turn are the deployments of the model and of its    *)
(* fallbacks that both the key and the team permit, all of them and each   *)
(* once, in the table the request took, unless the two allow disjoint      *)
(* things or the team could not be read (merge, collect, filter_access).   *)
GrantDecides ==
    [][\A r \in Reqs : Routed(r) /\ ~req[r].failed /\ ~Disjoint(req[r].key, req[r].team) =>
          LET out == req'[r].candidates IN
          /\ ToSet(out) = Granted(req[r].table, req[r].key, req[r].team, req[r].want)
          /\ Len(out) = Cardinality(ToSet(out))]_vars

(* A client that was shown a list, and later uses a name under the same     *)
(* access: if the deployments of the name are still those discovery read,  *)
(* a name it was shown is served by one of them, and if the database had   *)
(* answered, a name that one of them serves was in the list. An edit, a    *)
(* reload that is late, other requests and fallbacks may come in between   *)
(* (listed_models and collect, filter_access; lib.rs: "Discovery and       *)
(* inference must not compute this differently").                          *)
ListedIsServed ==
    [][\A r \in Reqs : Routed(r) /\ shown[r] # Unasked =>
          LET n == req[r].want
              list == shown[r]
              own == ToSet(req[r].table[n]) \cap ToSet(req'[r].candidates)
          IN
          list.access = req[r].access /\ list.table[n] = req[r].table[n] =>
             /\ n \in list.names => own # {}
             /\ list.answered /\ own # {} => n \in list.names]_vars

(* Of the deployments of a model that no request was kept from, none comes *)
(* first more often than another by more than one in round robin, and by   *)
(* more than the requests there may be in least busy: each of the others   *)
(* may be between reading the loads and adding to one (order).             *)
RotationIsEven ==
    \A n \in whole : \A i, j \in DOMAIN firsts[n] :
        /\ strategy = "round_robin" => firsts[n][i] - firsts[n][j] <= 1
        /\ strategy = "least_busy" => firsts[n][i] - firsts[n][j] <= Cardinality(Reqs)

(* The narrower grant wins: what serves a turn is permitted by the key and *)
(* by the team (AccessPolicy::merge).                                      *)
NarrowerGrantWins ==
    [][\A r \in Reqs : Routed(r) =>
          ToSet(req'[r].candidates) \subseteq
             Granted(req[r].table, req[r].key, req[r].team, req[r].want)]_vars

InFlight(d) ==
    Cardinality({r \in Reqs : req[r].pc = "turn" /\ Head(req[r].candidates) = d})

(* Under "least busy" the first candidate is one with the fewest requests  *)
(* in flight (config.rs: "Fewest in-flight requests first").               *)
FewestInFlightFirst ==
    [][\A r \in Reqs : Routed(r) /\ strategy = "least_busy" /\ req'[r].candidates # <<>> =>
          \A d \in ToSet(req'[r].candidates) :
             d \in ToSet(snap[req[r].want]) =>
                InFlight(Head(req'[r].candidates)) <= InFlight(d)]_vars
=============================================================================

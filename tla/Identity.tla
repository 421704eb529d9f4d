----------------------------- MODULE Identity ------------------------------
(***************************************************************************)
(* Who may administer the gateway: how a request of the admin API proves   *)
(* who it is, what its handler then checks and writes, how an operator     *)
(* changes accounts from the command line, and how the gateway provides    *)
(* for an administrator when it starts.                                    *)
(*                                                                         *)
(* Code: yb-server/src/admin.rs and sso.rs, yb-store/src/keys.rs,          *)
(* yb-bin/src/main.rs, yb-core/src/rbac.rs.                                *)
(*                                                                         *)
(* Each statement of the store is a step of the request that runs it, so   *)
(* requests interleave between any two. A request ends early when its      *)
(* client hangs up or a statement fails. Commands of the operator run in a *)
(* process of their own, not while the gateway starts, and are one step:   *)
(* what can come between their read and their write has the effect of      *)
(* coming before or after both.                                            *)
(***************************************************************************)
EXTENDS Accounts

CONSTANTS
    Reqs,         \* requests the server may handle at once
    People,       \* usernames that are e-mail addresses
    Tokens,       \* values of the control key
    MaxUsers,     \* bound: accounts ever made
    MaxSessions,  \* bound: sessions ever made
    MaxKeys,      \* bound: keys ever made
    MaxRequests,  \* bound: requests in one behaviour
    MaxStarts,    \* bound: starts of the gateway
    MaxCommands   \* bound: commands of the operator

CONTROL_USERNAME == "control"
DefaultAdmin == "admin"
Names == People \cup {CONTROL_USERNAME, DefaultAdmin}
NoToken == "-"
Issued == "issued"  \* the hash of a token made for a key, unlike any other's
KeyNames == {CONTROL_USERNAME, "spare"}

ASSUME IdentityAssumption ==
    /\ {CONTROL_USERNAME, DefaultAdmin} \cap People = {}
    /\ {NoToken, Issued} \cap Tokens = {}
    /\ {MaxUsers, MaxSessions, MaxKeys, MaxRequests, MaxStarts, MaxCommands} \subseteq Nat

VARIABLES
    users, sessions, keys,  \* the tables
    phase,   \* the gateway: "down" or "failed", "owner" and "keys" (starting), "up"
    token,   \* the control key it was started with, or NoToken
    req,     \* what each request is doing
    begun,   \* requests, starts and commands so far
    seen     \* history: the authority anyone has had since a request came in

vars == <<users, sessions, keys, phase, token, req, begun, seen>>
tables == <<users, sessions, keys>>

-----------------------------------------------------------------------------
(* What a request is doing: the credential it came with; then who it acts  *)
(* as; then the change it is about to write to an account, 0 for one to be *)
(* made, and what the guard counted.                                       *)
NoChange == [kind |-> "-", user |-> 0, name |-> "-", role |-> "member", counted |-> 0]
Idle == [pc |-> "idle", cred |-> <<"-", 0>>, who |-> 0, role |-> "member",
         change |-> NoChange]

Init ==
    /\ users = <<>> /\ sessions = <<>> /\ keys = <<>>
    /\ phase = "down"
    /\ token = NoToken
    /\ req = [r \in Reqs |-> Idle]
    /\ begun = [requests |-> 0, starts |-> 0, commands |-> 0]
    /\ seen = [r \in Reqs |-> {}]

-----------------------------------------------------------------------------
(* Proving who one is.                                                     *)

Become(r, state) == req' = [req EXCEPT ![r] = state]
Done(r) == Become(r, Idle)
Act(r, pc, u, role) == Become(r, [Idle EXCEPT !.pc = pc, !.who = u, !.role = role])

Arrive(r) ==
    /\ phase = "up"
    /\ req[r] = Idle
    /\ begun.requests < MaxRequests
    /\ begun' = [begun EXCEPT !.requests = @ + 1]
    /\ UNCHANGED <<tables, phase, token>>

Present(r, cred) == Arrive(r) /\ Become(r, [Idle EXCEPT !.pc = "user", !.cred = cred])

(* The first statement finds the row of the credential: a live key, a      *)
(* session that has not expired, or an identity the provider vouches for,  *)
(* by the cookie the applications share or to sign in.                     *)
BearerCredential(r) == \E k \in DOMAIN keys : keys[k].live /\ Present(r, <<"key", k>>)
SessionCookie(r) ==
    \E s \in DOMAIN sessions : sessions[s] # 0 /\ Present(r, <<"session", s>>)
SharedCookie(r) == \E n \in People : Present(r, <<"shared", n>>)
auth_sso_code(r) == \E n \in People : Present(r, <<"sign-in", n>>)

(* auth_login: the account of that name has a password that matches.       *)
auth_login(r) ==
    \E n \in Names : \E u \in get_user_by_username(users, n) :
        users[u].local /\ Arrive(r) /\ Act(r, "mint", u, users[u].role)

(* The account the credential names.                                       *)
Vouched == {"shared", "sign-in"}
Claimed(cred) ==
    CASE cred[1] = "key"      -> get_user(users, keys[cred[2]].owner)
      [] cred[1] = "session"  -> get_user(users, sessions[cred[2]])
      [] cred[1] \in Vouched -> get_user_by_username(users, cred[2])

After(cred) == IF cred[1] = "sign-in" THEN "mint" ELSE "handler"

(* The second statement reads the account, and with it the role: of a key  *)
(* that lacks the admin scope, for nothing.                                *)
ReadAccount(r) ==
    LET cred == req[r].cred IN
    /\ req[r].pc = "user"
    /\ \/ /\ Claimed(cred) = {}
          /\ IF cred[1] \in Vouched THEN Become(r, [req[r] EXCEPT !.pc = "provision"])
             ELSE Done(r)
       \/ \E u \in Claimed(cred) :
             IF cred[1] = "key" /\ "admin" \notin keys[cred[2]].scopes
             THEN Done(r)
             ELSE Act(r, After(cred), u, users[u].role)
    /\ UNCHANGED <<tables, phase, token, begun>>

(* upsert_sso_user: the provider's identity has no account yet. Another    *)
(* request may have made it since; the insert is then refused.             *)
Provision(r) ==
    LET n == req[r].cred[2] IN
    /\ req[r].pc = "provision"
    /\ Len(users) < MaxUsers
    /\ IF UsernameFree(users, n)
       THEN /\ users' = Append(users, Account(n, "member", FALSE))
            /\ Act(r, After(req[r].cred), Len(users) + 1, "member")
       ELSE UNCHANGED users /\ Done(r)
    /\ UNCHANGED <<sessions, keys, phase, token, begun>>

(* mint_session_response.                                                  *)
mint_session_response(r) ==
    /\ req[r].pc = "mint"
    /\ Len(sessions) < MaxSessions
    /\ sessions' = create_session(sessions, req[r].who)
    /\ Done(r)
    /\ UNCHANGED <<users, keys, phase, token, begun>>

-----------------------------------------------------------------------------
(* The handlers. ManageMembers is for administrators (min_role): anyone    *)
(* else is answered 403.                                                   *)

Handling(r) == req[r].pc = "handler" /\ UNCHANGED <<phase, token, begun>>
authz(r) == Handling(r) /\ req[r].role = "admin"

Intend(r, change) == Become(r, [Idle EXCEPT !.pc = "write", !.change = change])

(* guard_last_admin: nothing to guard in a promotion; otherwise it reads   *)
(* the target, ...                                                         *)
GuardTarget(r, change) ==
    IF change.kind = "role" /\ change.role = "admin" THEN Intend(r, change)
    ELSE IF get_user(users, change.user) = {} THEN Done(r)
    ELSE IF users[change.user].role = "admin"
    THEN Become(r, [Idle EXCEPT !.pc = "count", !.change = change])
    ELSE Intend(r, change)

\* Mutant: the last administrator is not enough to refuse.
TooFewOffByOne(admins) == admins < 1
TooFew(admins) == admins <= 1

(* ... then counts the administrators; ...                                 *)
GuardCount(r) ==
    /\ req[r].pc = "count"
    /\ LET admins == count_admins(users) IN
       IF TooFew(admins) THEN Done(r)
       ELSE Intend(r, [req[r].change EXCEPT !.counted = admins])
    /\ UNCHANGED <<tables, phase, token, begun>>

set_role(r) ==
    \E u \in DOMAIN users, role \in Roles :
        /\ authz(r)
        /\ GuardTarget(r, [NoChange EXCEPT !.kind = "role", !.user = u, !.role = role])
        /\ UNCHANGED tables
remove_user(r) ==
    \E u \in DOMAIN users :
        /\ authz(r)
        /\ GuardTarget(r, [NoChange EXCEPT !.kind = "delete", !.user = u])
        /\ UNCHANGED tables

(* invite_user, of an e-mail address: the provider is told, then the       *)
(* account is looked up.                                                   *)
invite_user(r) ==
    \E n \in People, role \in Roles :
        LET found == get_user_by_username(users, n)
            change == [NoChange EXCEPT !.kind = "invite", !.name = n, !.role = role]
        IN
        /\ authz(r)
        /\ \/ found = {} /\ Intend(r, change)
           \/ \E u \in found : Intend(r, [change EXCEPT !.user = u])
        /\ UNCHANGED tables

(* ... and the write: of a role, a deletion, or an account that is made    *)
(* unless its name was taken meanwhile.                                    *)
ChangeAccount(r) ==
    LET c == req[r].change IN
    /\ req[r].pc = "write"
    /\ users' = IF c.kind = "delete" THEN delete_user(users, c.user)
                ELSE IF c.user # 0 THEN set_user_role(users, c.user, c.role)
                ELSE IF UsernameFree(users, c.name)
                THEN Append(users, Account(c.name, c.role, FALSE)) ELSE users
    /\ Len(users') <= MaxUsers
    /\ Done(r)
    /\ UNCHANGED <<sessions, keys, phase, token, begun>>

(* create_user, with a password: refused when the name is taken.           *)
create_user(r) ==
    \E n \in Names, role \in Roles :
        /\ authz(r)
        /\ Len(users) < MaxUsers
        /\ users' = IF UsernameFree(users, n)
                    THEN Append(users, Account(n, role, TRUE)) ELSE users
        /\ Done(r)
        /\ UNCHANGED <<sessions, keys>>

(* set_user_password; change_my_password asks for the current password.    *)
SetPassword(r) ==
    /\ \/ \E u \in DOMAIN users : authz(r) /\ users' = set_user_password(users, u)
       \/ /\ Handling(r)
          /\ users[req[r].who].local
          /\ users' = set_user_password(users, req[r].who)
    /\ Done(r)
    /\ UNCHANGED <<sessions, keys>>

(* create_key: a member issues for themselves, and no admin scope.         *)
create_key(r) ==
    \E u \in DOMAIN users, scopes \in {{"inference"}, Scopes} :
        /\ Handling(r)
        /\ Len(keys) < MaxKeys
        /\ "admin" \in scopes => req[r].role = "admin"
        /\ LET owner == IF req[r].role = "admin" THEN u ELSE req[r].who IN
           keys' = Append(keys, Key(owner, Issued, "spare", scopes))
        /\ Done(r)
        /\ UNCHANGED <<users, sessions>>

(* own_key_or_admin: revoked keys are found too.                           *)
own_key_or_admin(r, k) == req[r].role = "admin" \/ keys[k].owner = req[r].who

(* delete_key, and update_key as far as the name goes.                     *)
ChangeKey(r) ==
    \E k \in DOMAIN keys :
        /\ Handling(r)
        /\ own_key_or_admin(r, k)
        /\ \/ keys' = delete_api_key(keys, {k})
           \/ \E name \in KeyNames : keys' = rename_api_key(keys, k, name)
        /\ Done(r)
        /\ UNCHANGED <<users, sessions>>

(* auth_logout takes the cookie as it is; a session also expires.          *)
EndSession ==
    /\ \E s \in DOMAIN sessions :
          sessions[s] # 0 /\ sessions' = delete_session(sessions, s)
    /\ UNCHANGED <<users, keys, phase, token, begun, req>>

(* The client hangs up, a statement fails, or the operation is refused.    *)
GiveUp(r) ==
    /\ req[r] # Idle
    /\ Done(r)
    /\ UNCHANGED <<tables, phase, token, begun>>

-----------------------------------------------------------------------------
(* The operator, and the gateway's start.                                  *)

Command ==
    /\ phase \in {"down", "failed", "up"}
    /\ begun.commands < MaxCommands
    /\ begun' = [begun EXCEPT !.commands = @ + 1]
    /\ UNCHANGED <<sessions, keys, phase, token, req>>

(* gateway set-role: the account is made when there is none.               *)
run_set_role ==
    \E n \in Names, role \in Roles :
        /\ Command
        /\ \/ \E u \in get_user_by_username(users, n) : users' = set_user_role(users, u, role)
           \/ /\ UsernameFree(users, n)
              /\ Len(users) < MaxUsers
              /\ users' = Append(users, Account(n, role, FALSE))

(* gateway setup: the password is reset and the role set, or it is made.   *)
upsert_admin(n) ==
    \/ \E u \in get_user_by_username(users, n) :
          users' = set_user_role(set_user_password(users, u), u, "admin")
    \/ /\ UsernameFree(users, n)
       /\ Len(users) < MaxUsers
       /\ users' = Append(users, Account(n, "admin", TRUE))
run_setup == Command /\ upsert_admin(DefaultAdmin)

Start(t) ==
    /\ phase \in {"down", "failed"}
    /\ begun.starts < MaxStarts
    /\ begun' = [begun EXCEPT !.starts = @ + 1]
    /\ token' = t
    /\ phase' = "owner"
    /\ UNCHANGED <<tables, req>>

(* run_serve without a control key: the first start makes an account. A    *)
(* count that fails counts for none, and an insert that fails is let pass. *)
FirstRun ==
    /\ phase = "owner" /\ token = NoToken
    /\ \/ UNCHANGED users
       \/ \E counted \in {0, count_users(users)} : counted = 0 /\ upsert_admin(DefaultAdmin)
    /\ phase' = "up"
    /\ UNCHANGED <<sessions, keys, token, req, begun>>

(* ensure_control_key: the account the key acts as, an administrator, ...  *)
ControlOwner ==
    /\ phase = "owner" /\ token # NoToken
    /\ \/ \E u \in get_user_by_username(users, CONTROL_USERNAME) :
             users' = set_user_role(users, u, "admin")
       \/ /\ UsernameFree(users, CONTROL_USERNAME)
          /\ Len(users) < MaxUsers
          /\ users' = Append(users, Account(CONTROL_USERNAME, "admin", FALSE))
    /\ phase' = "keys"
    /\ UNCHANGED <<sessions, keys, token, req, begun>>

ControlKeys ==
    {k \in DOMAIN keys :
        \E u \in get_user_by_username(users, CONTROL_USERNAME) :
            k \in list_api_keys_for_user(keys, u) /\ keys[k].name = CONTROL_USERNAME}
\* Mutant: earlier control keys stay good.
OutdatedKept(ks) == {}
Outdated(ks) == {k \in ks : keys[k].hash # token}

(* ... whose keys of other tokens are revoked one by one ...               *)
RevokeOutdated ==
    /\ phase = "keys"
    /\ \E k \in Outdated(ControlKeys) : keys' = delete_api_key(keys, {k})
    /\ UNCHANGED <<users, sessions, phase, token, req, begun>>

(* ... and which is given the key, if it has none: the start fails when    *)
(* the insert does.                                                        *)
IssueControlKey ==
    /\ phase = "keys"
    /\ Outdated(ControlKeys) = {}
    /\ IF \E k \in ControlKeys : keys[k].hash = token
       THEN phase' = "up" /\ UNCHANGED keys
       ELSE IF HashFree(keys, token)
       THEN /\ phase' = "up"
            /\ Len(keys) < MaxKeys
            /\ \E u \in get_user_by_username(users, CONTROL_USERNAME) :
                  keys' = Append(keys, Key(u, token, CONTROL_USERNAME, Scopes))
       ELSE phase' = "failed" /\ UNCHANGED keys
    /\ UNCHANGED <<users, sessions, token, req, begun>>

(* The process ends, with every request it was handling.                   *)
Stop ==
    /\ phase \in {"owner", "keys", "up"}
    /\ phase' = "down"
    /\ req' = [r \in Reqs |-> Idle]
    /\ UNCHANGED <<tables, token, begun>>

-----------------------------------------------------------------------------

Request(r) ==
    \/ BearerCredential(r) \/ SessionCookie(r) \/ SharedCookie(r)
    \/ auth_sso_code(r) \/ auth_login(r)
    \/ ReadAccount(r) \/ Provision(r) \/ mint_session_response(r)
    \/ set_role(r) \/ remove_user(r) \/ invite_user(r) \/ GuardCount(r) \/ ChangeAccount(r)
    \/ create_user(r) \/ SetPassword(r) \/ create_key(r) \/ ChangeKey(r) \/ GiveUp(r)

Step ==
    \/ \E r \in Reqs : Request(r)
    \/ EndSession \/ run_set_role \/ run_setup
    \/ \E t \in Tokens \cup {NoToken} : Start(t)
    \/ FirstRun \/ ControlOwner \/ RevokeOutdated \/ IssueControlKey \/ Stop

(* What stands at a moment: the live accounts with their roles, and the    *)
(* credentials that are good.                                              *)
Authority ==
    {<<"user", u, users[u].role>> : u \in {v \in DOMAIN users : users[v].live}}
       \cup {<<"key", k, "">> : k \in {j \in DOMAIN keys : keys[j].live}}
       \cup {<<"session", s, "">> : s \in {j \in DOMAIN sessions : sessions[j] # 0}}

Next ==
    /\ Step
    /\ seen' = [r \in Reqs |-> IF req'[r].pc \in {"user", "provision"}
                               THEN seen[r] \cup Authority \cup Authority' ELSE {}]

Spec == Init /\ [][Next]_vars

-----------------------------------------------------------------------------
(* Properties.                                                             *)

TypeOK ==
    /\ users \in Seq([username : Names, role : Roles, local : BOOLEAN, live : BOOLEAN])
    /\ sessions \in Seq(0 .. MaxUsers)
    /\ \A k \in DOMAIN keys : /\ keys[k].owner \in DOMAIN users
                              /\ keys[k].name \in KeyNames
                              /\ keys[k].scopes \subseteq Scopes
    /\ phase \in {"down", "failed", "owner", "keys", "up"}
    /\ token \in Tokens \cup {NoToken}
    /\ \A r \in Reqs : req[r].pc \in {"idle", "user", "provision", "mint", "handler",
                                      "count", "write"}

(* A request acts with an authority that someone held at some moment since *)
(* it came in: the account was not deleted and had that role, the key was  *)
(* not revoked, the session not ended (admin.rs: "the role is read fresh   *)
(* so demotions apply immediately").                                       *)
AuthorityIsFresh ==
    [][\A r \in Reqs :
          req[r].pc \in {"user", "provision"} /\ req'[r].pc \in {"handler", "mint"} =>
             /\ <<"user", req'[r].who, req'[r].role>> \in seen[r] \cup Authority'
             /\ req[r].cred[1] \notin Vouched =>
                   <<req[r].cred[1], req[r].cred[2], "">> \in seen[r]]_vars

(* The guard of a change passed on a state that is no longer so: it       *)
(* counted more administrators than there are, or it read a member (and    *)
(* counted none) whom another request has promoted since.                  *)
Overtaken(c) ==
    \/ c.counted > count_admins(users)
    \/ c.counted = 0 /\ users[c.user].role = "admin"

(* The last administrator goes only by an invitation, by the operator's    *)
(* command, or by two guarded changes of which one overtook the other's    *)
(* guard (guard_last_admin).                                               *)
LastAdminGoesUnguarded ==
    [][Admins(users) # {} /\ Admins(users') = {} =>
          \/ begun'.commands # begun.commands
          \/ \E r \in Reqs :
                /\ req[r].pc = "write" /\ req'[r] = Idle
                /\ req[r].change.kind = "invite" \/ Overtaken(req[r].change)]_vars

(* When the gateway comes up with a control key, the key is good for       *)
(* administration, and no earlier one is unless it was renamed             *)
(* (ensure_control_key: "A control key issued under an earlier token is    *)
(* revoked, so rotating the token is a restart").                          *)
ControlKeyIsTheKey ==
    [][phase # "up" /\ phase' = "up" /\ token # NoToken =>
          /\ \E k \in verify_api_key(keys', users', token) :
                /\ "admin" \in keys'[k].scopes
                /\ users'[keys'[k].owner].role = "admin"
          /\ \A t \in Tokens \ {token} :
                \A k \in verify_api_key(keys', users', t) :
                   keys'[k].name # CONTROL_USERNAME]_vars

(* There is always an administrator once there has been one: "Refuse an    *)
(* operation that would remove/demote the last admin user" (admin.rs).     *)
LastAdminStays == [][Admins(users) # {} => Admins(users') # {}]_vars

(* Rotating the control key is a restart: no start fails.                  *)
StartSucceeds == phase # "failed"
=============================================================================

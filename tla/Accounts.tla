----------------------------- MODULE Accounts ------------------------------
(***************************************************************************)
(* The tables of accounts, web sessions and virtual keys, and the          *)
(* statements the store runs on them. A table is the sequence of the rows  *)
(* ever inserted; an id is a position in it. Accounts and keys are deleted *)
(* softly (deleted_at), sessions really.                                   *)
(*                                                                         *)
(* Code: yb-store/src/sqlite.rs (postgres.rs runs the same statements),    *)
(* yb-store/migrations/sqlite/0000_initial.sql, yb-core/src/model.rs.      *)
(***************************************************************************)
EXTENDS Integers, Sequences, FiniteSets

Roles == {"member", "admin"}
Scopes == {"inference", "admin"}

(* An account: whether a password can match its hash is all that is kept   *)
(* of the hash ("!" and "!sso" match none).                                *)
Account(username, role, local) ==
    [username |-> username, role |-> role, local |-> local, live |-> TRUE]
Key(owner, hash, name, scopes) ==
    [owner |-> owner, hash |-> hash, name |-> name, scopes |-> scopes, live |-> TRUE]

-----------------------------------------------------------------------------

\* Mutant: deleted accounts are found too.
get_user_any(users, u) == {v \in DOMAIN users : v = u}
(* get_user, get_user_by_username: the live accounts that match.           *)
get_user(users, u) == {v \in DOMAIN users : v = u /\ users[v].live}
get_user_by_username(users, n) ==
    {v \in DOMAIN users : users[v].username = n /\ users[v].live}

(* users_username_uq: an insert is refused while a live account has the    *)
(* name.                                                                   *)
UsernameFree(users, n) == get_user_by_username(users, n) = {}

(* Updates of one live account, no row if it was deleted meanwhile.        *)
Update(users, u, row) == [v \in DOMAIN users |-> IF v = u /\ users[v].live THEN row ELSE users[v]]
set_user_role(users, u, role) == Update(users, u, [users[u] EXCEPT !.role = role])
set_user_password(users, u) == Update(users, u, [users[u] EXCEPT !.local = TRUE])
delete_user(users, u) == Update(users, u, [users[u] EXCEPT !.live = FALSE])

Admins(users) == {u \in DOMAIN users : users[u].live /\ users[u].role = "admin"}
count_admins(users) == Cardinality(Admins(users))
count_users(users) == Cardinality({u \in DOMAIN users : users[u].live})

-----------------------------------------------------------------------------

(* create_session inserts the account's row; get_session finds a row that  *)
(* has not expired. An expired row and a deleted one answer alike: 0.      *)
create_session(sessions, u) == Append(sessions, u)
delete_session(sessions, s) == [sessions EXCEPT ![s] = 0]

(* api_keys_hash_idx: the hash is unique over all rows, revoked ones too.  *)
HashFree(keys, hash) == \A k \in DOMAIN keys : keys[k].hash # hash
list_api_keys_for_user(keys, u) == {k \in DOMAIN keys : keys[k].owner = u /\ keys[k].live}
delete_api_key(keys, ks) ==
    [k \in DOMAIN keys |-> IF k \in ks THEN [keys[k] EXCEPT !.live = FALSE] ELSE keys[k]]
rename_api_key(keys, k, name) == [keys EXCEPT ![k].name = name]

(* verify_api_key: the live row of the hash, whose owner must be live.     *)
verify_api_key(keys, users, hash) ==
    {k \in DOMAIN keys : /\ keys[k].hash = hash
                         /\ keys[k].live
                         /\ get_user(users, keys[k].owner) # {}}
=============================================================================

--------------------------- MODULE IdentityProofs ---------------------------
(***************************************************************************)
(* Proofs about Identity, for any people, tokens, number of requests and   *)
(* bounds.                                                                 *)
(***************************************************************************)
EXTENDS Identity, FiniteSetTheorems, SequenceTheorems, TLAPS

-----------------------------------------------------------------------------
(* The inductive invariant.                                                *)

UserRow == [username : Names, role : Roles, local : BOOLEAN, live : BOOLEAN]
KeyRow == [owner : Nat, hash : Tokens \cup {Issued}, name : KeyNames,
           scopes : SUBSET Scopes, live : BOOLEAN]

\* The tables; an owner and a session's account are rows of the first.
Rows ==
    /\ users \in Seq(UserRow) /\ Len(users) <= MaxUsers
    /\ sessions \in Seq(0 .. MaxUsers)
    /\ keys \in Seq(KeyRow)
    /\ \A k \in DOMAIN keys : keys[k].owner \in DOMAIN users

\* What a request presents, and what it intends.
Credentials ==
    ({"key"} \X DOMAIN keys) \cup ({"session"} \X DOMAIN sessions) \cup (Vouched \X People)
Guarded == [kind : {"role", "delete"}, user : DOMAIN users, name : {"-"}, role : Roles,
            counted : Nat \ {1}]
Invitation == [kind : {"invite"}, user : {0} \cup DOMAIN users, name : People, role : Roles,
               counted : {0}]

\* A request, as a record.
ReqRow == [pc : {"idle", "user", "provision", "mint", "handler", "count", "write"},
           cred : {<<"-", 0>>} \cup ({"key", "session"} \X Nat) \cup (Vouched \X People),
           who : Nat, role : Roles,
           change : [kind : {"-", "role", "delete", "invite"}, user : Nat,
                     name : People \cup {"-"}, role : Roles, counted : Nat]]

\* Where a request is, it has what it needs there.
Ready(x) ==
    /\ x.pc = "idle" => x = Idle
    /\ x.pc = "user" => x.cred \in Credentials
    /\ x.pc = "provision" => x.cred \in Vouched \X People
    /\ x.pc \in {"mint", "handler"} => x.who \in DOMAIN users
    /\ x.pc = "count" => x.change \in Guarded
    /\ x.pc = "write" => x.change \in Guarded \cup Invitation

TypeInv ==
    /\ Rows
    /\ phase \in {"down", "failed", "owner", "keys", "up"}
    /\ token \in Tokens \cup {NoToken}
    /\ begun \in [requests : Nat, starts : Nat, commands : Nat]
    /\ req \in [Reqs -> ReqRow]
    /\ \A r \in Reqs : Ready(req[r])

\* A key or a session that a request came with was good when it came.
Presented(r) ==
    req[r].pc = "user" /\ req[r].cred[1] \notin Vouched =>
       <<req[r].cred[1], req[r].cred[2], "">> \in seen[r]

\* No two live accounts have one name (users_username_uq).
UsernamesApart ==
    \A u, v \in DOMAIN users :
       users[u].live /\ users[v].live /\ users[u].username = users[v].username => u = v

\* A key of a control token is good for everything and belongs to the account the
\* control key acts as.
ControlRows ==
    \A k \in DOMAIN keys :
       keys[k].hash \in Tokens =>
          keys[k].scopes = Scopes /\ users[keys[k].owner].username = CONTROL_USERNAME

\* Requests are only handled by a gateway that is up, and between the two steps of
\* its start nobody takes the account of the control key away.
Starting ==
    /\ phase # "up" => \A r \in Reqs : req[r] = Idle
    /\ phase = "keys" =>
          /\ token \in Tokens
          /\ \E u \in get_user_by_username(users, CONTROL_USERNAME) : users[u].role = "admin"

IdentityInv ==
    /\ TypeInv
    /\ \A r \in Reqs : Presented(r)
    /\ UsernamesApart
    /\ ControlRows
    /\ Starting

-----------------------------------------------------------------------------
(* What statements of the store do to the table of accounts.               *)

\* A table of accounts becomes another: rows keep their place and their name, none
\* comes back to life, and a new row has a name that no live one has.
Evolves(us, vs) ==
    /\ vs \in Seq(UserRow)
    /\ Len(us) <= Len(vs)
    /\ \A u \in DOMAIN us : /\ vs[u].username = us[u].username
                            /\ vs[u].live => us[u].live
    /\ \A v \in DOMAIN vs \ DOMAIN us :
          /\ v = Len(us) + 1
          /\ \A u \in DOMAIN us : us[u].live => us[u].username # vs[v].username

\* A table is a function over its ids.
LEMMA TableFacts ==
    ASSUME NEW S, NEW s \in Seq(S)
    PROVE  /\ Len(s) \in Nat /\ DOMAIN s = 1 .. Len(s) /\ s \in [1 .. Len(s) -> S]
           /\ \A i \in DOMAIN s : s[i] \in S
  BY LenProperties

\* Appending a row.
LEMMA AppendFacts ==
    ASSUME NEW S, NEW s \in Seq(S), NEW x \in S
    PROVE  /\ Append(s, x) \in Seq(S) /\ Len(Append(s, x)) = Len(s) + 1
           /\ DOMAIN Append(s, x) = DOMAIN s \cup {Len(s) + 1}
           /\ \A i \in DOMAIN s : Append(s, x)[i] = s[i]
           /\ Append(s, x)[Len(s) + 1] = x
  BY LenProperties

\* Rewriting rows.
LEMMA RewriteFacts ==
    ASSUME NEW S, NEW s \in Seq(S), NEW t, t \in [DOMAIN s -> S]
    PROVE  t \in Seq(S) /\ Len(t) = Len(s) /\ DOMAIN t = DOMAIN s
  <1>1. Len(s) \in Nat /\ DOMAIN s = 1 .. Len(s)
    BY LenProperties
  <1>2. t \in Seq(S)
    BY <1>1, SeqDef
  <1>3. DOMAIN t = 1 .. Len(t) /\ Len(t) \in Nat
    BY <1>2, LenProperties
  <1> QED
    BY <1>1, <1>2, <1>3

\* An insert that users_username_uq allows.
LEMMA AppendEvolves ==
    ASSUME NEW us \in Seq(UserRow), NEW n \in Names, NEW role \in Roles,
           NEW local \in BOOLEAN, UsernameFree(us, n)
    PROVE  Evolves(us, Append(us, Account(n, role, local)))
  <1> DEFINE row == Account(n, role, local)
  <1>1. row \in UserRow /\ row.username = n
    BY DEF Account, UserRow
  <1> HIDE DEF row
  <1>2. /\ Append(us, row) \in Seq(UserRow) /\ Len(Append(us, row)) = Len(us) + 1
        /\ DOMAIN Append(us, row) = DOMAIN us \cup {Len(us) + 1}
        /\ \A i \in DOMAIN us : Append(us, row)[i] = us[i]
        /\ Append(us, row)[Len(us) + 1] = row
    BY <1>1, AppendFacts
  <1>3. \A u \in DOMAIN us : us[u].live => us[u].username # n
    BY DEF UsernameFree, get_user_by_username
  <1>4. Len(us) \in Nat
    BY LenProperties
  <1> HIDE DEF row
  <1>5. Evolves(us, Append(us, row))
    BY <1>1, <1>2, <1>3, <1>4 DEF Evolves
  <1> QED
    BY <1>5 DEF row

\* An update of one live account that leaves its name.
LEMMA UpdateEvolves ==
    ASSUME NEW us \in Seq(UserRow), NEW u, NEW row,
           u \in DOMAIN us => row \in UserRow /\ row.username = us[u].username
    PROVE  /\ Evolves(us, Update(us, u, row))
           /\ DOMAIN Update(us, u, row) = DOMAIN us /\ Len(Update(us, u, row)) = Len(us)
           /\ \A v \in DOMAIN us :
                 Update(us, u, row)[v] = IF v = u /\ us[v].live THEN row ELSE us[v]
  <1> DEFINE vs == Update(us, u, row)
  <1>0. Len(us) \in Nat /\ DOMAIN us = 1 .. Len(us) /\ \A v \in DOMAIN us : us[v] \in UserRow
    BY TableFacts
  <1>1. vs = [v \in DOMAIN us |-> IF v = u /\ us[v].live THEN row ELSE us[v]]
    BY DEF Update
  <1>2. vs \in [DOMAIN us -> UserRow]
    BY <1>0, <1>1
  <1> HIDE DEF vs
  <1>3. vs \in Seq(UserRow) /\ Len(vs) = Len(us) /\ DOMAIN vs = DOMAIN us
    BY <1>2, RewriteFacts
  <1>4. Evolves(us, vs)
    BY <1>0, <1>1, <1>3 DEF Evolves
  <1> QED
    BY <1>1, <1>3, <1>4 DEF vs

\* The three updates of the store.
LEMMA RowUpdates ==
    ASSUME NEW us \in Seq(UserRow), NEW u, NEW role \in Roles
    PROVE  /\ Evolves(us, set_user_role(us, u, role))
           /\ Evolves(us, set_user_password(us, u))
           /\ Evolves(us, delete_user(us, u))
           /\ DOMAIN set_user_role(us, u, role) = DOMAIN us
           /\ DOMAIN set_user_password(us, u) = DOMAIN us
           /\ DOMAIN delete_user(us, u) = DOMAIN us
           /\ Len(set_user_role(us, u, role)) = Len(us)
           /\ Len(set_user_password(us, u)) = Len(us)
           /\ Len(delete_user(us, u)) = Len(us)
  <1>0. u \in DOMAIN us => us[u] \in UserRow
    BY TableFacts
  <1>1. u \in DOMAIN us => /\ [us[u] EXCEPT !.role = role] \in UserRow
                           /\ [us[u] EXCEPT !.role = role].username = us[u].username
    BY <1>0 DEF UserRow
  <1>2. u \in DOMAIN us => /\ [us[u] EXCEPT !.local = TRUE] \in UserRow
                           /\ [us[u] EXCEPT !.local = TRUE].username = us[u].username
    BY <1>0 DEF UserRow
  <1>3. u \in DOMAIN us => /\ [us[u] EXCEPT !.live = FALSE] \in UserRow
                           /\ [us[u] EXCEPT !.live = FALSE].username = us[u].username
    BY <1>0 DEF UserRow
  <1> QED
    BY <1>1, <1>2, <1>3, UpdateEvolves DEF set_user_role, set_user_password, delete_user

\* Two evolutions that make no account are one.
LEMMA EvolvesTwice ==
    ASSUME NEW us \in Seq(UserRow), NEW vs, NEW ws, Evolves(us, vs), Evolves(vs, ws),
           Len(vs) = Len(us), Len(ws) = Len(vs)
    PROVE  Evolves(us, ws)
  <1>1. vs \in Seq(UserRow) /\ ws \in Seq(UserRow)
    BY DEF Evolves
  <1>2. DOMAIN us = 1 .. Len(us) /\ DOMAIN vs = 1 .. Len(vs) /\ DOMAIN ws = 1 .. Len(ws)
        /\ Len(us) \in Nat /\ Len(vs) \in Nat /\ Len(ws) \in Nat
    BY <1>1, TableFacts
  <1> QED
    BY <1>1, <1>2 DEF Evolves

\* An insert of an account for which there is room.
LEMMA InsertEvolves ==
    ASSUME users \in Seq(UserRow), Len(users) < MaxUsers, NEW n \in Names,
           NEW role \in Roles, NEW local \in BOOLEAN, UsernameFree(users, n),
           users' = Append(users, Account(n, role, local))
    PROVE  /\ Evolves(users, users') /\ Len(users') <= MaxUsers
           /\ DOMAIN users' = DOMAIN users \cup {Len(users) + 1}
           /\ users'[Len(users) + 1] = Account(n, role, local)
           /\ \A u \in DOMAIN users : users'[u] = users[u]
  <1>0. Len(users) \in Nat /\ MaxUsers \in Nat
    BY TableFacts, IdentityAssumption
  <1>1. Account(n, role, local) \in UserRow
    BY DEF Account, UserRow
  <1>2. /\ Len(users') = Len(users) + 1
        /\ DOMAIN users' = DOMAIN users \cup {Len(users) + 1}
        /\ users'[Len(users) + 1] = Account(n, role, local)
        /\ \A u \in DOMAIN users : users'[u] = users[u]
    BY <1>1, AppendFacts
  <1> QED
    BY <1>0, <1>2, AppendEvolves

\* gateway setup and the first start: an account becomes an administrator or is made.
LEMMA UpsertEvolves ==
    ASSUME users \in Seq(UserRow), Len(users) <= MaxUsers, NEW n \in Names, upsert_admin(n)
    PROVE  Evolves(users, users') /\ Len(users') <= MaxUsers
  <1>1. ASSUME NEW u, users' = set_user_role(set_user_password(users, u), u, "admin")
        PROVE  Evolves(users, users') /\ Len(users') <= MaxUsers
    <2> DEFINE vs == set_user_password(users, u)
    <2>1. "admin" \in Roles
      BY DEF Roles
    <2>2. Evolves(users, vs) /\ Len(vs) = Len(users)
      BY <2>1, RowUpdates
    <2> HIDE DEF vs
    <2>3. vs \in Seq(UserRow)
      BY <2>2 DEF Evolves
    <2>4. Evolves(vs, set_user_role(vs, u, "admin"))
          /\ Len(set_user_role(vs, u, "admin")) = Len(vs)
      BY <2>1, <2>3, RowUpdates
    <2>5. Evolves(vs, users') /\ Len(users') = Len(vs)
      BY <1>1, <2>4 DEF vs
    <2>6. Evolves(users, users')
      BY <2>2, <2>5, EvolvesTwice
    <2> QED
      BY <2>2, <2>5, <2>6
  <1>2. CASE /\ UsernameFree(users, n) /\ Len(users) < MaxUsers
             /\ users' = Append(users, Account(n, "admin", TRUE))
    BY <1>2, InsertEvolves DEF Roles
  <1> QED
    BY <1>1, <1>2 DEF upsert_admin

\* A table that is left alone.
LEMMA SameEvolves ==
    ASSUME users \in Seq(UserRow), Len(users) <= MaxUsers, users' = users
    PROVE  Evolves(users, users') /\ Len(users') <= MaxUsers
  <1>0. Len(users) \in Nat
    BY TableFacts
  <1> QED
    BY <1>0 DEF Evolves

-----------------------------------------------------------------------------
(* The accounts in one step.                                               *)

\* Whatever happens in one step, the table of accounts evolves.
LEMMA UsersStep ==
    ASSUME TypeInv, Step
    PROVE  Evolves(users, users') /\ Len(users') <= MaxUsers
  <1>0. /\ users \in Seq(UserRow) /\ Len(users) <= MaxUsers
        /\ Len(users) \in Nat /\ MaxUsers \in Nat
        /\ People \subseteq Names /\ DefaultAdmin \in Names /\ CONTROL_USERNAME \in Names
        /\ {"admin", "member"} \subseteq Roles
    BY TableFacts, IdentityAssumption DEF TypeInv, Rows, Names, Roles
  <1>1. CASE UNCHANGED users
    BY <1>0, <1>1, SameEvolves
  <1>2. ASSUME NEW u, NEW role \in Roles,
               \/ users' = set_user_role(users, u, role)
               \/ users' = set_user_password(users, u)
               \/ users' = delete_user(users, u)
        PROVE  Evolves(users, users') /\ Len(users') <= MaxUsers
    BY <1>0, <1>2, RowUpdates
  <1>3. ASSUME NEW r \in Reqs, Provision(r)
        PROVE  Evolves(users, users') /\ Len(users') <= MaxUsers
    <2>1. CASE UsernameFree(users, req[r].cred[2])
      <3>1. req[r].cred \in Vouched \X People
        BY <1>3 DEF TypeInv, Ready, Provision
      <3>2. req[r].cred[2] \in Names
        BY <1>0, <3>1
      <3>3. /\ users' = Append(users, Account(req[r].cred[2], "member", FALSE))
            /\ Len(users) < MaxUsers
        BY <1>3, <2>1 DEF Provision
      <3> QED
        BY <1>0, <2>1, <3>2, <3>3, InsertEvolves
    <2> QED
      BY <1>1, <1>3, <2>1 DEF Provision
  <1>4. ASSUME NEW r \in Reqs, ChangeAccount(r)
        PROVE  Evolves(users, users') /\ Len(users') <= MaxUsers
    <2> DEFINE c == req[r].change
    <2>1. c \in Guarded \cup Invitation
      BY <1>4 DEF TypeInv, Ready, ChangeAccount
    <2>2. c.role \in Roles /\ (c.user # 0 \/ c.kind = "delete" \/ c.name \in People)
      BY <1>0, <2>1, TableFacts DEF Guarded, Invitation
    <2>3. Len(users') <= MaxUsers
      BY <1>4 DEF ChangeAccount
    <2>4. CASE c.kind = "delete"
      BY <1>2, <1>4, <2>2, <2>4 DEF ChangeAccount
    <2>5. CASE c.kind # "delete" /\ c.user # 0
      BY <1>2, <1>4, <2>2, <2>5 DEF ChangeAccount
    <2>6. CASE c.kind # "delete" /\ c.user = 0 /\ UsernameFree(users, c.name)
      <3>1. users' = Append(users, Account(c.name, c.role, FALSE))
        BY <1>4, <2>6 DEF ChangeAccount
      <3>2. c.name \in Names
        BY <1>0, <2>2, <2>6
      <3> QED
        BY <1>0, <2>2, <2>3, <2>6, <3>1, <3>2, AppendEvolves
    <2>7. CASE c.kind # "delete" /\ c.user = 0 /\ ~UsernameFree(users, c.name)
      BY <1>1, <1>4, <2>7 DEF ChangeAccount
    <2> QED
      BY <2>4, <2>5, <2>6, <2>7
  <1>5. ASSUME NEW r \in Reqs, create_user(r)
        PROVE  Evolves(users, users') /\ Len(users') <= MaxUsers
    <2>1. PICK n \in Names, role \in Roles :
            /\ Len(users) < MaxUsers
            /\ users' = IF UsernameFree(users, n)
                        THEN Append(users, Account(n, role, TRUE)) ELSE users
      BY <1>5 DEF create_user
    <2> QED
      BY <1>0, <1>1, <2>1, InsertEvolves
  <1>6. ASSUME NEW r \in Reqs, SetPassword(r)
        PROVE  Evolves(users, users') /\ Len(users') <= MaxUsers
    BY <1>0, <1>2, <1>6 DEF SetPassword
  <1>7. CASE run_set_role
    <2>1. PICK n \in Names, role \in Roles :
            \/ \E u \in get_user_by_username(users, n) : users' = set_user_role(users, u, role)
            \/ /\ UsernameFree(users, n)
               /\ Len(users) < MaxUsers
               /\ users' = Append(users, Account(n, role, FALSE))
      BY <1>7 DEF run_set_role
    <2> QED
      BY <1>0, <1>2, <2>1, InsertEvolves
  <1>8. CASE run_setup \/ FirstRun
    BY <1>0, <1>1, <1>8, UpsertEvolves DEF run_setup, FirstRun
  <1>9. CASE ControlOwner
    BY <1>0, <1>2, <1>9, InsertEvolves DEF ControlOwner
  <1>10. ASSUME NEW r \in Reqs, Request(r),
                ~(Provision(r) \/ ChangeAccount(r) \/ create_user(r) \/ SetPassword(r))
         PROVE  UNCHANGED users
    BY <1>10 DEF Request, BearerCredential, SessionCookie, SharedCookie, auth_sso_code,
       auth_login, Present, Arrive, ReadAccount, mint_session_response, set_role, remove_user,
       invite_user, GuardCount, create_key, ChangeKey, GiveUp, tables
  <1>11. EndSession \/ (\E t \in Tokens \cup {NoToken} : Start(t)) \/ RevokeOutdated
         \/ IssueControlKey \/ Stop => UNCHANGED users
    BY DEF EndSession, Start, RevokeOutdated, IssueControlKey, Stop, tables
  <1> QED
    BY <1>1, <1>3, <1>4, <1>5, <1>6, <1>7, <1>8, <1>9, <1>10, <1>11 DEF Step

-----------------------------------------------------------------------------
(* Keys and sessions in one step.                                          *)

\* A key keeps its place, its owner, its hash and its scopes; a new one is issued to
\* an account with a token of its own, or is the control key.
KeysEvolve ==
    /\ keys' \in Seq(KeyRow)
    /\ DOMAIN keys \subseteq DOMAIN keys'
    /\ \A k \in DOMAIN keys : /\ keys'[k].owner = keys[k].owner
                              /\ keys'[k].hash = keys[k].hash
                              /\ keys'[k].scopes = keys[k].scopes
    /\ \A k \in DOMAIN keys' \ DOMAIN keys :
          /\ keys'[k].owner \in DOMAIN users
          /\ \/ keys'[k].hash = Issued
             \/ /\ keys'[k].scopes = Scopes
                /\ users[keys'[k].owner].username = CONTROL_USERNAME
                /\ users' = users

\* A key is issued.
LEMMA AppendKey ==
    ASSUME keys \in Seq(KeyRow), NEW owner \in DOMAIN users, DOMAIN users \subseteq Nat,
           NEW hash \in Tokens \cup {Issued}, NEW n \in KeyNames, NEW scopes \in SUBSET Scopes,
           keys' = Append(keys, Key(owner, hash, n, scopes)),
           \/ hash = Issued
           \/ scopes = Scopes /\ users[owner].username = CONTROL_USERNAME /\ users' = users
    PROVE  /\ KeysEvolve
           /\ DOMAIN keys' = DOMAIN keys \cup {Len(keys) + 1}
           /\ \A k \in DOMAIN keys : keys'[k] = keys[k]
           /\ keys'[Len(keys) + 1] = Key(owner, hash, n, scopes)
  <1> DEFINE row == Key(owner, hash, n, scopes)
  <1>1. row \in KeyRow /\ row.owner = owner /\ row.hash = hash /\ row.scopes = scopes
    BY DEF Key, KeyRow
  <1> HIDE DEF row
  <1>2. keys' = Append(keys, row)
    BY DEF row
  <1>3. /\ keys' \in Seq(KeyRow)
        /\ DOMAIN keys' = DOMAIN keys \cup {Len(keys) + 1}
        /\ \A i \in DOMAIN keys : keys'[i] = keys[i]
        /\ keys'[Len(keys) + 1] = row
    BY <1>1, <1>2, AppendFacts
  <1>4. KeysEvolve
    BY <1>1, <1>3 DEF KeysEvolve
  <1> QED
    BY <1>3, <1>4 DEF row

\* Keys are revoked or renamed.
LEMMA RewriteKeys ==
    ASSUME keys \in Seq(KeyRow), keys' \in [DOMAIN keys -> KeyRow],
           \A k \in DOMAIN keys : /\ keys'[k].owner = keys[k].owner
                                  /\ keys'[k].hash = keys[k].hash
                                  /\ keys'[k].scopes = keys[k].scopes
    PROVE  KeysEvolve
  <1>1. keys' \in Seq(KeyRow) /\ DOMAIN keys' = DOMAIN keys
    BY RewriteFacts
  <1> QED
    BY <1>1 DEF KeysEvolve

\* delete_api_key
LEMMA RevokeKeys ==
    ASSUME keys \in Seq(KeyRow), NEW ks, keys' = delete_api_key(keys, ks)
    PROVE  KeysEvolve
  <1>1. \A k \in DOMAIN keys : keys[k] \in KeyRow
    BY TableFacts
  <1>2. \A k \in DOMAIN keys : [keys[k] EXCEPT !.live = FALSE] \in KeyRow
    BY <1>1 DEF KeyRow
  <1>3. keys' = [k \in DOMAIN keys |-> IF k \in ks THEN [keys[k] EXCEPT !.live = FALSE]
                                                   ELSE keys[k]]
    BY DEF delete_api_key
  <1>4. keys' \in [DOMAIN keys -> KeyRow]
    BY <1>1, <1>2, <1>3
  <1>5. \A k \in DOMAIN keys : /\ keys'[k].owner = keys[k].owner
                               /\ keys'[k].hash = keys[k].hash
                               /\ keys'[k].scopes = keys[k].scopes
    BY <1>1, <1>3 DEF KeyRow
  <1> QED
    BY <1>4, <1>5, RewriteKeys

\* rename_api_key
LEMMA RenameKey ==
    ASSUME keys \in Seq(KeyRow), NEW k \in DOMAIN keys, NEW n \in KeyNames,
           keys' = rename_api_key(keys, k, n)
    PROVE  KeysEvolve
  <1>1. \A j \in DOMAIN keys : keys[j] \in KeyRow
    BY TableFacts
  <1>2. keys' = [keys EXCEPT ![k] = [keys[k] EXCEPT !.name = n]]
    BY DEF rename_api_key
  <1>3. [keys[k] EXCEPT !.name = n] \in KeyRow
    BY <1>1 DEF KeyRow
  <1>4. keys \in [DOMAIN keys -> KeyRow]
    BY TableFacts
  <1>5. keys' \in [DOMAIN keys -> KeyRow]
    BY <1>2, <1>3, <1>4
  <1>6. \A j \in DOMAIN keys : /\ keys'[j].owner = keys[j].owner
                               /\ keys'[j].hash = keys[j].hash
                               /\ keys'[j].scopes = keys[j].scopes
    BY <1>1, <1>2, <1>4 DEF KeyRow
  <1> QED
    BY <1>5, <1>6, RewriteKeys

\* Whatever happens in one step, the keys evolve.
LEMMA KeysStep ==
    ASSUME TypeInv, Starting, Step
    PROVE  KeysEvolve
  <1>0. /\ keys \in Seq(KeyRow) /\ users \in Seq(UserRow)
        /\ DOMAIN users \subseteq Nat
        /\ {CONTROL_USERNAME, "spare"} \subseteq KeyNames
    BY TableFacts DEF TypeInv, Rows, KeyNames
  <1>1. CASE UNCHANGED keys
    BY <1>0, <1>1 DEF KeysEvolve
  <1>2. ASSUME NEW r \in Reqs, create_key(r) PROVE KeysEvolve
    <2>1. PICK u \in DOMAIN users, scopes \in {{"inference"}, Scopes} :
            LET owner == IF req[r].role = "admin" THEN u ELSE req[r].who
            IN  keys' = Append(keys, Key(owner, Issued, "spare", scopes))
      BY <1>2 DEF create_key
    <2>2. req[r].who \in DOMAIN users
      BY <1>2 DEF create_key, Handling, TypeInv, Ready
    <2>3. scopes \in SUBSET Scopes
      BY DEF Scopes
    <2> QED
      BY <1>0, <2>1, <2>2, <2>3, AppendKey
  <1>3. ASSUME NEW r \in Reqs, ChangeKey(r) PROVE KeysEvolve
    BY <1>0, <1>3, RevokeKeys, RenameKey DEF ChangeKey
  <1>4. CASE RevokeOutdated
    BY <1>0, <1>4, RevokeKeys DEF RevokeOutdated
  <1>5. CASE IssueControlKey /\ keys' # keys
    <2>1. PICK u \in get_user_by_username(users, CONTROL_USERNAME) :
             keys' = Append(keys, Key(u, token, CONTROL_USERNAME, Scopes))
      BY <1>5 DEF IssueControlKey
    <2>2. u \in DOMAIN users /\ users[u].username = CONTROL_USERNAME
      BY <2>1 DEF get_user_by_username
    <2>3. token \in Tokens /\ users' = users
      BY <1>5 DEF Starting, IssueControlKey
    <2> QED
      BY <1>0, <2>1, <2>2, <2>3, AppendKey
  <1>6. ASSUME NEW r \in Reqs, Request(r), ~(create_key(r) \/ ChangeKey(r))
        PROVE  UNCHANGED keys
    BY <1>6 DEF Request, BearerCredential, SessionCookie, SharedCookie, auth_sso_code,
       auth_login, Present, Arrive, ReadAccount, Provision, mint_session_response, set_role,
       remove_user, invite_user, GuardCount, ChangeAccount, create_user, SetPassword, GiveUp,
       tables
  <1>7. EndSession \/ run_set_role \/ run_setup \/ (\E t \in Tokens \cup {NoToken} : Start(t))
        \/ FirstRun \/ ControlOwner \/ Stop => UNCHANGED keys
    BY DEF EndSession, run_set_role, run_setup, Command, Start, FirstRun, ControlOwner, Stop,
       tables
  <1> QED
    BY <1>1, <1>2, <1>3, <1>4, <1>5, <1>6, <1>7 DEF Step

\* Whatever happens in one step, a session keeps its place.
LEMMA SessionsStep ==
    ASSUME TypeInv, Step
    PROVE  sessions' \in Seq(0 .. MaxUsers) /\ DOMAIN sessions \subseteq DOMAIN sessions'
  <1>0. /\ sessions \in Seq(0 .. MaxUsers) /\ users \in Seq(UserRow) /\ Len(users) <= MaxUsers
        /\ MaxUsers \in Nat /\ Len(users) \in Nat /\ DOMAIN users = 1 .. Len(users)
        /\ DOMAIN sessions = 1 .. Len(sessions)
    BY TableFacts, IdentityAssumption DEF TypeInv, Rows
  <1>1. CASE UNCHANGED sessions
    BY <1>0, <1>1
  <1>2. ASSUME NEW r \in Reqs, mint_session_response(r)
        PROVE  sessions' \in Seq(0 .. MaxUsers) /\ DOMAIN sessions \subseteq DOMAIN sessions'
    <2>1. req[r].who \in DOMAIN users
      BY <1>2 DEF mint_session_response, TypeInv, Ready
    <2>2. req[r].who \in 0 .. MaxUsers
      BY <1>0, <2>1
    <2>3. sessions' = Append(sessions, req[r].who)
      BY <1>2 DEF mint_session_response, create_session
    <2> QED
      BY <1>0, <2>2, <2>3, AppendFacts
  <1>3. CASE EndSession
    <2>1. PICK s \in DOMAIN sessions : sessions' = [sessions EXCEPT ![s] = 0]
      BY <1>3 DEF EndSession, delete_session
    <2> QED
      BY <1>0, <2>1, ExceptSeq
  <1>4. ASSUME NEW r \in Reqs, Request(r), ~mint_session_response(r)
        PROVE  UNCHANGED sessions
    BY <1>4 DEF Request, BearerCredential, SessionCookie, SharedCookie, auth_sso_code,
       auth_login, Present, Arrive, ReadAccount, Provision, set_role, remove_user, invite_user,
       GuardCount, ChangeAccount, create_user, SetPassword, create_key, ChangeKey, GiveUp, tables
  <1>5. run_set_role \/ run_setup \/ (\E t \in Tokens \cup {NoToken} : Start(t))
        \/ FirstRun \/ ControlOwner \/ RevokeOutdated \/ IssueControlKey \/ Stop
           => UNCHANGED sessions
    BY DEF run_set_role, run_setup, Command, Start, FirstRun, ControlOwner, RevokeOutdated,
       IssueControlKey, Stop, tables
  <1> QED
    BY <1>1, <1>2, <1>3, <1>4, <1>5 DEF Step

-----------------------------------------------------------------------------
(* Requests in one step.                                                   *)

\* The tables only grow.
Grow ==
    /\ DOMAIN users \subseteq DOMAIN users'
    /\ DOMAIN keys \subseteq DOMAIN keys'
    /\ DOMAIN sessions \subseteq DOMAIN sessions'

\* What is ready stays ready.
LEMMA ReadyStays ==
    ASSUME Grow, NEW x, Ready(x)
    PROVE  Ready(x)'
  <1>1. Credentials \subseteq Credentials'
    BY DEF Grow, Credentials
  <1>2. Guarded \subseteq Guarded' /\ Invitation \subseteq Invitation'
    BY DEF Grow, Guarded, Invitation
  <1> QED
    BY <1>1, <1>2 DEF Ready, Grow

\* A request that is done is idle.
LEMMA IdleReady == Idle \in ReqRow /\ Ready(Idle)
  BY DEF Idle, NoChange, ReqRow, Ready, Roles

\* A request that becomes something ready leaves all the others as they are.
LEMMA BecomeReady ==
    ASSUME TypeInv, Grow, NEW r \in Reqs, NEW x \in ReqRow, Become(r, x), Ready(x)'
    PROVE  /\ req' \in [Reqs -> ReqRow]
           /\ \A g \in Reqs : Ready(req[g])'
           /\ \A g \in Reqs : g # r => req'[g] = req[g]
           /\ req'[r] = x
  <1>1. req' = [req EXCEPT ![r] = x] /\ req \in [Reqs -> ReqRow]
    BY DEF Become, TypeInv
  <1>2. /\ req' \in [Reqs -> ReqRow] /\ req'[r] = x
        /\ \A g \in Reqs : g # r => req'[g] = req[g]
    BY <1>1
  <1>3. ASSUME NEW g \in Reqs PROVE Ready(req[g])'
    <2>1. CASE g = r
      <3>1. req'[g] = x
        BY <1>2, <2>1
      <3> QED
        BY <3>1 DEF Ready, Credentials, Guarded, Invitation
    <2>2. CASE g # r
      <3>1. req'[g] = req[g] /\ Ready(req[g])
        BY <1>2, <2>2 DEF TypeInv
      <3>2. \A y : y = req[g] => Ready(y)'
        BY <3>1, ReadyStays
      <3> QED
        BY <3>1, <3>2 DEF Ready, Credentials, Guarded, Invitation
    <2> QED
      BY <2>1, <2>2
  <1> QED
    BY <1>2, <1>3

\* What the guard does with a change of a role or a deletion.
LEMMA GuardReady ==
    ASSUME TypeInv, Grow, NEW r \in Reqs, NEW c \in Guarded, c.counted = 0, GuardTarget(r, c),
           users \in Seq(UserRow)
    PROVE  \E x \in ReqRow : Become(r, x) /\ Ready(x) /\ x.pc \in {"idle", "count", "write"}
  <1>0. DOMAIN users \subseteq Nat
    BY TableFacts
  <1>1. CASE Done(r)
    BY <1>1, IdleReady DEF Done, Idle
  <1>2. CASE Intend(r, c)
    <2> DEFINE x == [Idle EXCEPT !.pc = "write", !.change = c]
    <2>1. x \in ReqRow /\ x.pc = "write" /\ x.change = c
      BY <1>0 DEF Idle, NoChange, ReqRow, Guarded, Roles
    <2>2. Become(r, x)
      BY <1>2 DEF Intend
    <2> HIDE DEF x
    <2>3. Ready(x)
      BY <2>1 DEF Ready
    <2> QED
      BY <2>1, <2>2, <2>3
  <1>3. CASE Become(r, [Idle EXCEPT !.pc = "count", !.change = c])
    <2> DEFINE x == [Idle EXCEPT !.pc = "count", !.change = c]
    <2>1. x \in ReqRow /\ x.pc = "count" /\ x.change = c
      BY <1>0 DEF Idle, NoChange, ReqRow, Guarded, Roles
    <2> HIDE DEF x
    <2>2. Ready(x)
      BY <2>1 DEF Ready
    <2> QED
      BY <1>3, <2>1, <2>2 DEF x
  <1> QED
    BY <1>1, <1>2, <1>3 DEF GuardTarget

\* The account a credential names is live.
LEMMA ClaimedLive ==
    ASSUME NEW cred \in Credentials, NEW u \in Claimed(cred)
    PROVE  u \in DOMAIN users /\ users[u].live
  <1>1. CASE cred[1] = "key"
    <2>1. Claimed(cred) = get_user(users, keys[cred[2]].owner)
      BY <1>1 DEF Claimed, Vouched
    <2> QED
      BY <2>1 DEF get_user
  <1>2. CASE cred[1] = "session"
    <2>1. Claimed(cred) = get_user(users, sessions[cred[2]])
      BY <1>2 DEF Claimed, Vouched
    <2> QED
      BY <2>1 DEF get_user
  <1>3. CASE cred[1] \in Vouched
    <2>1. cred[1] # "key" /\ cred[1] # "session"
      BY <1>3 DEF Vouched
    <2> QED
      BY <1>3, <2>1 DEF Claimed, get_user_by_username
  <1> QED
    BY <1>1, <1>2, <1>3 DEF Credentials

\* Every step of a request leaves it ready for the next.
LEMMA RequestReady ==
    ASSUME TypeInv, Grow, NEW r \in Reqs, Request(r)
    PROVE  \E x \in ReqRow : Become(r, x) /\ Ready(x)'
  <1>0. /\ users \in Seq(UserRow) /\ DOMAIN users \subseteq Nat /\ Len(users) \in Nat
        /\ DOMAIN users = 1 .. Len(users)
        /\ \A u \in DOMAIN users : users[u] \in UserRow
        /\ req[r] \in ReqRow /\ Ready(req[r])
        /\ DOMAIN keys \subseteq Nat /\ DOMAIN sessions \subseteq Nat
    BY TableFacts DEF TypeInv, Rows
  <1>1. SUFFICES ASSUME ~\E x \in ReqRow : Become(r, x) /\ Ready(x)
                 PROVE  \E x \in ReqRow : Become(r, x) /\ Ready(x)'
    BY ReadyStays
  <1>2. ~Done(r)
    BY <1>1, IdleReady DEF Done
  <1>3. ASSUME NEW pc \in {"mint", "handler"}, NEW u \in DOMAIN users, NEW role \in Roles,
               Act(r, pc, u, role)
        PROVE  FALSE
    <2>1. PICK x : x = [Idle EXCEPT !.pc = pc, !.who = u, !.role = role]
      OBVIOUS
    <2>2. x \in ReqRow /\ x.pc = pc /\ x.who = u
      BY <1>0, <2>1 DEF Idle, NoChange, ReqRow, Roles
    <2>3. Become(r, x) /\ Ready(x)
      BY <1>3, <2>1, <2>2 DEF Ready, Act
    <2> QED
      BY <1>1, <2>2, <2>3
  <1>4. ASSUME NEW cred \in Credentials, Present(r, cred) PROVE FALSE
    <2> DEFINE x == [Idle EXCEPT !.pc = "user", !.cred = cred]
    <2>1. cred \in ({"key", "session"} \X Nat) \cup (Vouched \X People)
      BY <1>0 DEF Credentials
    <2>2. x \in ReqRow /\ x.pc = "user" /\ x.cred = cred
      BY <2>1 DEF Idle, NoChange, ReqRow, Roles
    <2>3. Become(r, x)
      BY <1>4 DEF Present
    <2> HIDE DEF x
    <2>4. Ready(x)
      BY <2>2 DEF Ready
    <2> QED
      BY <1>1, <2>2, <2>3, <2>4
  <1>5. ~(BearerCredential(r) \/ SessionCookie(r) \/ SharedCookie(r) \/ auth_sso_code(r))
    <2>1. \A k \in DOMAIN keys : <<"key", k>> \in Credentials
      BY DEF Credentials
    <2>2. \A s \in DOMAIN sessions : <<"session", s>> \in Credentials
      BY DEF Credentials
    <2>3. \A n \in People : <<"shared", n>> \in Credentials /\ <<"sign-in", n>> \in Credentials
      BY DEF Credentials, Vouched
    <2> QED
      BY <1>4, <2>1, <2>2, <2>3 DEF BearerCredential, SessionCookie, SharedCookie, auth_sso_code
  <1>6. ~auth_login(r)
    <2> SUFFICES ASSUME auth_login(r) PROVE FALSE
      OBVIOUS
    <2>1. PICK u \in DOMAIN users : Act(r, "mint", u, users[u].role)
      BY DEF auth_login, get_user_by_username
    <2>2. users[u].role \in Roles
      BY <1>0 DEF UserRow
    <2> QED
      BY <1>3, <2>1, <2>2
  <1>7. ~ReadAccount(r)
    <2> SUFFICES ASSUME ReadAccount(r) PROVE FALSE
      OBVIOUS
    <2> DEFINE cred == req[r].cred
    <2>1. cred \in Credentials /\ req[r].pc = "user"
      BY <1>0 DEF ReadAccount, Ready
    <2>2. ASSUME Become(r, [req[r] EXCEPT !.pc = "provision"]), cred[1] \in Vouched PROVE FALSE
      <3> DEFINE x == [req[r] EXCEPT !.pc = "provision"]
      <3>1. x \in ReqRow /\ x.pc = "provision" /\ x.cred = cred
        BY <1>0 DEF ReqRow
      <3>2. cred \in Vouched \X People
        BY <2>1, <2>2 DEF Credentials, Vouched
      <3> HIDE DEF x
      <3>3. Ready(x)
        BY <3>1, <3>2 DEF Ready
      <3> QED
        BY <1>1, <2>2, <3>1, <3>3 DEF x
    <2>3. ASSUME NEW u \in Claimed(cred), Act(r, After(cred), u, users[u].role) PROVE FALSE
      <3>1. u \in DOMAIN users
        BY <2>1, <2>3, ClaimedLive
      <3>2. users[u].role \in Roles
        BY <1>0, <3>1 DEF UserRow
      <3>3. After(cred) \in {"mint", "handler"}
        BY DEF After
      <3> QED
        BY <1>3, <2>3, <3>1, <3>2, <3>3
    <2> QED
      BY <1>2, <2>2, <2>3 DEF ReadAccount
  <1>8. ASSUME Provision(r) PROVE \E x \in ReqRow : Become(r, x) /\ Ready(x)'
    <2> DEFINE pc == After(req[r].cred)
    <2>1. UsernameFree(users, req[r].cred[2]) /\ Len(users) < MaxUsers
      BY <1>2, <1>8 DEF Provision
    <2>2. /\ users' = Append(users, Account(req[r].cred[2], "member", FALSE))
          /\ Act(r, pc, Len(users) + 1, "member")
      BY <1>8, <2>1 DEF Provision
    <2>3. Len(users) + 1 \in DOMAIN users'
      <3>1. req[r].cred \in Vouched \X People
        BY <1>0, <1>8 DEF Provision, Ready
      <3>2. req[r].cred[2] \in Names
        BY <3>1 DEF Names
      <3>3. "member" \in Roles
        BY DEF Roles
      <3> QED
        BY <1>0, <2>1, <2>2, <3>2, <3>3, InsertEvolves
    <2>4. pc \in {"mint", "handler"} /\ "member" \in Roles /\ Len(users) + 1 \in Nat
      BY <1>0 DEF After, Roles
    <2>5. PICK x : x = [Idle EXCEPT !.pc = pc, !.who = Len(users) + 1, !.role = "member"]
      OBVIOUS
    <2> HIDE DEF pc
    <2>6. x \in ReqRow /\ x.pc = pc /\ x.who = Len(users) + 1 /\ Become(r, x)
      <3>1. x \in ReqRow /\ x.pc = pc /\ x.who = Len(users) + 1
        BY <2>4, <2>5 DEF Idle, NoChange, ReqRow, Roles
      <3> QED
        BY <2>2, <2>5, <3>1 DEF Act
    <2>7. Ready(x)'
      BY <2>3, <2>4, <2>6 DEF Ready
    <2> QED
      BY <2>5, <2>6, <2>7
  <1>9. ~(set_role(r) \/ remove_user(r))
    <2>0. 0 \in Nat \ {1} /\ "member" \in Roles
      BY DEF Roles
    <2>1. ASSUME NEW u \in DOMAIN users, NEW role \in Roles, NEW c,
                 c = [NoChange EXCEPT !.kind = "role", !.user = u, !.role = role]
          PROVE  c \in Guarded /\ c.counted = 0
      BY <2>0, <2>1 DEF NoChange, Guarded
    <2>2. ASSUME NEW u \in DOMAIN users, NEW c,
                 c = [NoChange EXCEPT !.kind = "delete", !.user = u]
          PROVE  c \in Guarded /\ c.counted = 0
      BY <2>0, <2>2 DEF NoChange, Guarded
    <2>3. \A c \in Guarded : c.counted = 0 => ~GuardTarget(r, c)
      BY <1>0, <1>1, GuardReady
    <2> QED
      BY <2>1, <2>2, <2>3 DEF set_role, remove_user
  <1>10. ASSUME NEW c \in Guarded \cup Invitation, Intend(r, c) PROVE FALSE
    <2> DEFINE x == [Idle EXCEPT !.pc = "write", !.change = c]
    <2>0. c \in [kind : {"-", "role", "delete", "invite"}, user : Nat,
                 name : People \cup {"-"}, role : Roles, counted : Nat]
      <3>1. CASE c \in Guarded
        BY <1>0, <3>1 DEF Guarded
      <3>2. CASE c \in Invitation
        BY <1>0, <3>2 DEF Invitation
      <3> QED
        BY <1>10, <3>1, <3>2
    <2>1. x \in ReqRow /\ x.pc = "write" /\ x.change = c
      BY <2>0 DEF Idle, ReqRow, Roles
    <2>2. Become(r, x)
      BY <1>10 DEF Intend
    <2> HIDE DEF x
    <2>3. Ready(x)
      BY <2>1 DEF Ready
    <2> QED
      BY <1>1, <2>1, <2>2, <2>3
  <1>11. ~invite_user(r)
    <2> SUFFICES ASSUME invite_user(r) PROVE FALSE
      OBVIOUS
    <2>1. PICK n \in People, role \in Roles :
            LET change == [NoChange EXCEPT !.kind = "invite", !.name = n, !.role = role]
            IN  \/ Intend(r, change)
                \/ \E u \in get_user_by_username(users, n) : Intend(r, [change EXCEPT !.user = u])
      BY DEF invite_user
    <2> DEFINE change == [NoChange EXCEPT !.kind = "invite", !.name = n, !.role = role]
    <2>2. change \in Invitation
      BY DEF NoChange, Invitation
    <2>3. ASSUME NEW u \in get_user_by_username(users, n)
          PROVE  [change EXCEPT !.user = u] \in Invitation
      BY <2>3 DEF NoChange, Invitation, get_user_by_username
    <2> QED
      BY <1>10, <2>1, <2>2, <2>3
  <1>12. ~GuardCount(r)
    <2> SUFFICES ASSUME GuardCount(r) PROVE FALSE
      OBVIOUS
    <2>1. req[r].change \in Guarded
      BY <1>0 DEF GuardCount, Ready
    <2>2. count_admins(users) \in Nat
      <3>1. IsFiniteSet(Admins(users))
        <4>1. IsFiniteSet(1 .. Len(users))
          BY <1>0, FS_Interval
        <4> QED
          BY <1>0, <4>1, FS_Subset DEF Admins
      <3> QED
        BY <3>1, FS_CardinalityType DEF count_admins
    <2>3. /\ ~TooFew(count_admins(users))
          /\ Intend(r, [req[r].change EXCEPT !.counted = count_admins(users)])
      BY <1>2 DEF GuardCount
    <2>4. count_admins(users) \in Nat \ {1}
      BY <2>2, <2>3 DEF TooFew
    <2>5. [req[r].change EXCEPT !.counted = count_admins(users)] \in Guarded
      BY <2>1, <2>4 DEF Guarded
    <2> QED
      BY <1>10, <2>3, <2>5
  <1>13. ~(mint_session_response(r) \/ ChangeAccount(r) \/ create_user(r) \/ SetPassword(r)
           \/ create_key(r) \/ ChangeKey(r) \/ GiveUp(r))
    BY <1>2 DEF mint_session_response, ChangeAccount, create_user, SetPassword, create_key,
       ChangeKey, GiveUp
  <1> QED
    BY <1>5, <1>6, <1>7, <1>8, <1>9, <1>11, <1>12, <1>13 DEF Request

-----------------------------------------------------------------------------
(* The invariant is inductive.                                             *)

\* The tables grow in every step.
LEMMA GrowStep ==
    ASSUME TypeInv, Starting, Step
    PROVE  Grow /\ Rows'
  <1>0. users \in Seq(UserRow) /\ keys \in Seq(KeyRow)
    BY DEF TypeInv, Rows
  <1>1. Evolves(users, users') /\ Len(users') <= MaxUsers
    BY UsersStep
  <1>2. KeysEvolve
    BY KeysStep
  <1>3. sessions' \in Seq(0 .. MaxUsers) /\ DOMAIN sessions \subseteq DOMAIN sessions'
    BY SessionsStep
  <1>4. users' \in Seq(UserRow) /\ Len(users) <= Len(users')
    BY <1>1 DEF Evolves
  <1>5. /\ Len(users) \in Nat /\ DOMAIN users = 1 .. Len(users)
        /\ Len(users') \in Nat /\ DOMAIN users' = 1 .. Len(users')
    BY <1>0, <1>4, TableFacts
  <1>6. DOMAIN users \subseteq DOMAIN users'
    BY <1>4, <1>5
  <1>7. \A k \in DOMAIN keys' : keys'[k].owner \in DOMAIN users'
    BY <1>2, <1>6 DEF KeysEvolve, TypeInv, Rows
  <1> QED
    BY <1>1, <1>2, <1>3, <1>4, <1>6, <1>7 DEF Grow, Rows, KeysEvolve

\* The steps that are not a request's leave the requests or end them all.
LEMMA OtherSteps ==
    ASSUME Step, ~\E r \in Reqs : Request(r)
    PROVE  req' = req \/ (Stop /\ req' = [r \in Reqs |-> Idle])
  BY DEF Step, EndSession, run_set_role, run_setup, Command, Start, FirstRun, ControlOwner,
     RevokeOutdated, IssueControlKey, Stop

\* A request's step is of a gateway that is up, and leaves it so.
LEMMA RequestFrame ==
    ASSUME Starting, NEW r \in Reqs, Request(r)
    PROVE  phase = "up" /\ phase' = phase /\ token' = token /\ begun'.commands = begun.commands
  <1>1. CASE req[r] = Idle
    <2>1. Idle.pc = "idle"
      BY DEF Idle
    <2>2. BearerCredential(r) \/ SessionCookie(r) \/ SharedCookie(r) \/ auth_sso_code(r)
          \/ auth_login(r)
      BY <1>1, <2>1 DEF Request, ReadAccount, Provision, mint_session_response, set_role,
         remove_user, invite_user, GuardCount, ChangeAccount, create_user, SetPassword,
         create_key, ChangeKey, GiveUp, authz, Handling
    <2>3. Arrive(r)
      BY <2>2 DEF BearerCredential, SessionCookie, SharedCookie, auth_sso_code, auth_login,
         Present
    <2> QED
      BY <2>3 DEF Arrive
  <1>2. CASE req[r] # Idle
    <2>1. phase = "up"
      BY <1>2 DEF Starting
    <2>2. ~Arrive(r)
      BY <1>2 DEF Arrive
    <2> QED
      BY <2>1, <2>2 DEF Request, BearerCredential, SessionCookie, SharedCookie, auth_sso_code,
         auth_login, Present, ReadAccount, Provision, mint_session_response, set_role,
         remove_user, invite_user, GuardCount, ChangeAccount, create_user, SetPassword,
         create_key, ChangeKey, GiveUp, authz, Handling
  <1> QED
    BY <1>1, <1>2

\* The types, and what requests need where they are.
LEMMA TypeStep ==
    ASSUME TypeInv, Starting, Step
    PROVE  TypeInv'
  <1>1. Grow /\ Rows'
    BY GrowStep
  <1>2. req' \in [Reqs -> ReqRow] /\ \A r \in Reqs : Ready(req[r])'
    <2>1. ASSUME NEW r \in Reqs, Request(r)
          PROVE  req' \in [Reqs -> ReqRow] /\ \A g \in Reqs : Ready(req[g])'
      <3>1. PICK x \in ReqRow : Become(r, x) /\ Ready(x)'
        BY <1>1, <2>1, RequestReady
      <3> QED
        BY <1>1, <3>1, BecomeReady
    <2>2. CASE req' = req
      <3>1. ASSUME NEW r \in Reqs PROVE Ready(req[r])'
        <4>1. PICK x : x = req[r]
          OBVIOUS
        <4>2. Ready(x)'
          BY <1>1, <4>1, ReadyStays DEF TypeInv
        <4> QED
          BY <2>2, <4>1, <4>2 DEF Ready, Credentials, Guarded, Invitation
      <3> QED
        BY <2>2, <3>1 DEF TypeInv
    <2>3. CASE req' = [r \in Reqs |-> Idle]
      <3>1. \A r \in Reqs : req'[r] = Idle /\ Idle.pc = "idle"
        BY <2>3 DEF Idle
      <3>2. \A r \in Reqs : Ready(req[r])'
        BY <3>1 DEF Ready
      <3> QED
        BY <2>3, <3>2, IdleReady
    <2> QED
      BY <2>1, <2>2, <2>3, OtherSteps
  <1>3. /\ phase' \in {"down", "failed", "owner", "keys", "up"}
        /\ token' \in Tokens \cup {NoToken}
    <2>1. CASE \E r \in Reqs : Request(r)
      BY <2>1, RequestFrame DEF TypeInv
    <2>2. CASE ~\E r \in Reqs : Request(r)
      BY <2>2 DEF TypeInv, Step, EndSession, run_set_role, run_setup, Command, Start, FirstRun,
         ControlOwner, RevokeOutdated, IssueControlKey, Stop
    <2> QED
      BY <2>1, <2>2
  <1>4. begun' \in [requests : Nat, starts : Nat, commands : Nat]
    <2>1. begun \in [requests : Nat, starts : Nat, commands : Nat]
      BY DEF TypeInv
    <2>2. \/ begun' = begun
          \/ begun' = [begun EXCEPT !.requests = @ + 1]
          \/ begun' = [begun EXCEPT !.starts = @ + 1]
          \/ begun' = [begun EXCEPT !.commands = @ + 1]
      BY DEF Step, EndSession, run_set_role, run_setup, Command, Start, FirstRun, ControlOwner,
         RevokeOutdated, IssueControlKey, Stop, Request, BearerCredential, SessionCookie,
         SharedCookie, auth_sso_code, auth_login, Present, Arrive, ReadAccount, Provision,
         mint_session_response, set_role, remove_user, invite_user, GuardCount, ChangeAccount,
         create_user, SetPassword, create_key, ChangeKey, GiveUp, authz, Handling
    <2> QED
      BY <2>1, <2>2
  <1> QED
    BY <1>1, <1>2, <1>3, <1>4 DEF TypeInv

\* A request comes in with a credential that is good at that moment.
LEMMA PresentedStep ==
    ASSUME TypeInv, Starting, \A r \in Reqs : Presented(r), Next, NEW r \in Reqs
    PROVE  Presented(r)'
  <1> SUFFICES ASSUME req'[r].pc = "user", req'[r].cred[1] \notin Vouched
               PROVE  <<req'[r].cred[1], req'[r].cred[2], "">> \in seen'[r]
    BY DEF Presented
  <1>0. seen'[r] = seen[r] \cup Authority \cup Authority' /\ Step
    BY DEF Next
  <1>1. CASE req'[r] = req[r]
    BY <1>0, <1>1 DEF Presented
  <1>2. CASE Request(r)
    <2>1. req \in [Reqs -> ReqRow] /\ Idle.pc = "idle"
      BY DEF TypeInv, Idle
    <2>2. ASSUME NEW cred, Present(r, cred) PROVE req'[r].cred = cred
      BY <2>1, <2>2 DEF Present, Become, Idle
    <2>3. CASE BearerCredential(r)
      <3>1. PICK k \in DOMAIN keys : keys[k].live /\ req'[r].cred = <<"key", k>>
        BY <2>2, <2>3 DEF BearerCredential
      <3>2. <<"key", k, "">> \in Authority
        BY <3>1 DEF Authority
      <3>3. req'[r].cred[1] = "key" /\ req'[r].cred[2] = k
        BY <3>1
      <3> QED
        BY <1>0, <3>2, <3>3
    <2>4. CASE SessionCookie(r)
      <3>1. PICK s \in DOMAIN sessions : sessions[s] # 0 /\ req'[r].cred = <<"session", s>>
        BY <2>2, <2>4 DEF SessionCookie
      <3>2. <<"session", s, "">> \in Authority
        BY <3>1 DEF Authority
      <3>3. req'[r].cred[1] = "session" /\ req'[r].cred[2] = s
        BY <3>1
      <3> QED
        BY <1>0, <3>2, <3>3
    <2>5. CASE SharedCookie(r) \/ auth_sso_code(r)
      <3>1. PICK n \in People : req'[r].cred = <<"shared", n>> \/ req'[r].cred = <<"sign-in", n>>
        BY <2>2, <2>5 DEF SharedCookie, auth_sso_code
      <3>2. req'[r].cred[1] \in {"shared", "sign-in"}
        BY <3>1
      <3> QED
        BY <3>2 DEF Vouched
    <2>6. CASE ~(BearerCredential(r) \/ SessionCookie(r) \/ SharedCookie(r) \/ auth_sso_code(r))
      <3>1. ASSUME NEW x, Become(r, x) PROVE x.pc = "user"
        BY <2>1, <3>1 DEF Become
      <3>2. ~Done(r)
        BY <2>1, <3>1 DEF Done
      <3>3. \A pc, u, role : Act(r, pc, u, role) => pc = "user"
        <4> SUFFICES ASSUME NEW pc, NEW u, NEW role, Act(r, pc, u, role) PROVE pc = "user"
          OBVIOUS
        <4>1. PICK x : x = [Idle EXCEPT !.pc = pc, !.who = u, !.role = role]
          OBVIOUS
        <4>2. x.pc = pc
          BY <4>1 DEF Idle
        <4> QED
          BY <3>1, <4>1, <4>2 DEF Act
      <3>4. \A cred : After(cred) # "user"
        BY DEF After
      <3>5. \A c : ~Intend(r, c)
        <4>1. \A c : [Idle EXCEPT !.pc = "write", !.change = c].pc = "write"
          BY DEF Idle
        <4> QED
          BY <3>1, <4>1, Zenon DEF Intend
      <3>6. \A c : ~GuardTarget(r, c)
        <4>0. \A c : [Idle EXCEPT !.pc = "count", !.change = c].pc = "count"
          BY DEF Idle
        <4>1. \A c : ~Become(r, [Idle EXCEPT !.pc = "count", !.change = c])
          BY <3>1, <4>0, Zenon
        <4> QED
          BY <3>2, <3>5, <4>1 DEF GuardTarget
      <3>7. ~Become(r, [req[r] EXCEPT !.pc = "provision"])
        BY <2>1, <3>1 DEF ReqRow
      <3>8. ~(auth_login(r) \/ ReadAccount(r) \/ Provision(r))
        BY <3>2, <3>3, <3>4, <3>7 DEF auth_login, ReadAccount, Provision
      <3>9. ~(set_role(r) \/ remove_user(r) \/ invite_user(r) \/ GuardCount(r))
        BY <3>2, <3>5, <3>6 DEF set_role, remove_user, invite_user, GuardCount
      <3> QED
        BY <1>2, <2>6, <3>2, <3>8, <3>9 DEF Request, mint_session_response, ChangeAccount,
           create_user, SetPassword, create_key, ChangeKey, GiveUp
    <2> QED
      BY <2>3, <2>4, <2>5, <2>6
  <1>3. CASE ~Request(r) /\ req'[r] # req[r]
    <2>1. ASSUME NEW g \in Reqs, Request(g) PROVE FALSE
      <3>1. Grow
        BY <1>0, GrowStep
      <3>2. PICK x \in ReqRow : Become(g, x) /\ Ready(x)'
        BY <2>1, <3>1, RequestReady
      <3>3. \A f \in Reqs : f # g => req'[f] = req[f]
        BY <3>1, <3>2, BecomeReady
      <3> QED
        BY <1>3, <2>1, <3>3
    <2>2. req'[r] = Idle
      BY <1>0, <1>3, <2>1, OtherSteps
    <2>3. req'[r].pc = "idle"
      BY <2>2 DEF Idle
    <2> QED
      BY <2>3
  <1> QED
    BY <1>1, <1>2, <1>3

\* No step makes two live accounts of one name.
LEMMA UsernamesStep ==
    ASSUME TypeInv, UsernamesApart, Step
    PROVE  UsernamesApart'
  <1>1. Evolves(users, users')
    BY UsersStep
  <1> QED
    BY <1>1 DEF UsernamesApart, Evolves

\* A key of a control token stays what it is.
LEMMA ControlRowsStep ==
    ASSUME TypeInv, Starting, ControlRows, Step
    PROVE  ControlRows'
  <1>1. Evolves(users, users') /\ KeysEvolve
    BY UsersStep, KeysStep
  <1>2. \A k \in DOMAIN keys : keys[k].owner \in DOMAIN users
    BY DEF TypeInv, Rows
  <1>3. Issued \notin Tokens
    BY IdentityAssumption
  <1>4. ASSUME NEW k \in DOMAIN keys', keys'[k].hash \in Tokens
        PROVE  keys'[k].scopes = Scopes /\ users'[keys'[k].owner].username = CONTROL_USERNAME
    <2>1. CASE k \in DOMAIN keys
      BY <1>1, <1>2, <1>4, <2>1 DEF ControlRows, KeysEvolve, Evolves
    <2>2. CASE k \notin DOMAIN keys
      BY <1>1, <1>3, <1>4, <2>2 DEF KeysEvolve
    <2> QED
      BY <2>1, <2>2
  <1> QED
    BY <1>4 DEF ControlRows

\* No request is handled by a gateway that is not up, and the control key's account
\* stays an administrator while the gateway starts.
LEMMA StartingStep ==
    ASSUME TypeInv, Starting, Step
    PROVE  Starting'
  <1>1. CASE \E r \in Reqs : Request(r)
    BY <1>1, RequestFrame DEF Starting
  <1>2. CASE ~\E r \in Reqs : Request(r)
    <2>1. phase' # "up" => \A r \in Reqs : req'[r] = Idle
      BY <1>2 DEF Starting, TypeInv, Step, EndSession, run_set_role, run_setup, Command, Start,
         FirstRun, ControlOwner, RevokeOutdated, IssueControlKey, Stop
    <2>2. ASSUME phase' = "keys"
          PROVE  /\ token' \in Tokens
                 /\ \E u \in get_user_by_username(users', CONTROL_USERNAME) :
                       users'[u].role = "admin"
      <3>1. ControlOwner \/ (phase = "keys" /\ UNCHANGED <<users, token>>)
        BY <1>2, <2>2 DEF Step, EndSession, run_set_role, run_setup, Command, Start,
           FirstRun, RevokeOutdated, IssueControlKey, Stop
      <3>2. CASE phase = "keys" /\ UNCHANGED <<users, token>>
        BY <3>2 DEF Starting
      <3>3. CASE ControlOwner
        <4>0. /\ users \in Seq(UserRow) /\ \A v \in DOMAIN users : users[v] \in UserRow
              /\ token' \in Tokens /\ "admin" \in Roles /\ CONTROL_USERNAME \in Names
          BY <3>3, TableFacts DEF TypeInv, Rows, ControlOwner, Roles, Names
        <4>1. ASSUME NEW u \in get_user_by_username(users, CONTROL_USERNAME),
                     users' = set_user_role(users, u, "admin")
              PROVE  u \in get_user_by_username(users', CONTROL_USERNAME)
                     /\ users'[u].role = "admin"
          <5>1. u \in DOMAIN users /\ users[u].live /\ users[u].username = CONTROL_USERNAME
            BY <4>1 DEF get_user_by_username
          <5>2. /\ [users[u] EXCEPT !.role = "admin"] \in UserRow
                /\ [users[u] EXCEPT !.role = "admin"].username = users[u].username
                /\ [users[u] EXCEPT !.role = "admin"].live = users[u].live
                /\ [users[u] EXCEPT !.role = "admin"].role = "admin"
            BY <4>0, <5>1 DEF UserRow
          <5>3. /\ DOMAIN users' = DOMAIN users
                /\ users'[u] = [users[u] EXCEPT !.role = "admin"]
            BY <4>1, <5>1 DEF set_user_role, Update
          <5> QED
            BY <5>1, <5>2, <5>3 DEF get_user_by_username
        <4>2. ASSUME UsernameFree(users, CONTROL_USERNAME), Len(users) < MaxUsers,
                     users' = Append(users, Account(CONTROL_USERNAME, "admin", FALSE))
              PROVE  \E u \in get_user_by_username(users', CONTROL_USERNAME) :
                        users'[u].role = "admin"
          <5>1. /\ Len(users) + 1 \in DOMAIN users'
                /\ users'[Len(users) + 1] = Account(CONTROL_USERNAME, "admin", FALSE)
            BY <4>0, <4>2, InsertEvolves
          <5> QED
            BY <5>1 DEF get_user_by_username, Account
        <4> QED
          BY <3>3, <4>0, <4>1, <4>2 DEF ControlOwner
      <3> QED
        BY <3>1, <3>2, <3>3
    <2> QED
      BY <2>1, <2>2 DEF Starting
  <1> QED
    BY <1>1, <1>2

\* The first state.
LEMMA IdentityInit == Init => IdentityInv
  <1> SUFFICES ASSUME Init PROVE IdentityInv
    OBVIOUS
  <1>0. /\ users = <<>> /\ sessions = <<>> /\ keys = <<>>
        /\ DOMAIN users = {} /\ DOMAIN keys = {} /\ Len(users) = 0 /\ MaxUsers \in Nat
    BY IdentityAssumption DEF Init
  <1>1. Rows
    BY <1>0, EmptySeq DEF Rows
  <1>2. \A r \in Reqs : req[r] = Idle /\ Idle.pc = "idle"
    BY DEF Init, Idle
  <1>3. \A r \in Reqs : Ready(req[r]) /\ Presented(r)
    BY <1>2 DEF Ready, Presented
  <1>4. req \in [Reqs -> ReqRow]
    BY IdleReady DEF Init
  <1>5. TypeInv
    BY <1>1, <1>3, <1>4 DEF TypeInv, Init
  <1>6. UsernamesApart /\ ControlRows
    BY <1>0 DEF UsernamesApart, ControlRows
  <1>7. Starting
    BY <1>2 DEF Starting, Init
  <1> QED
    BY <1>3, <1>5, <1>6, <1>7 DEF IdentityInv

\* Every step.
LEMMA IdentityNext == IdentityInv /\ [Next]_vars => IdentityInv'
  <1> SUFFICES ASSUME IdentityInv, [Next]_vars PROVE IdentityInv'
    OBVIOUS
  <1> USE DEF IdentityInv
  <1>1. CASE Next
    <2>1. Step
      BY <1>1 DEF Next
    <2>2. TypeInv' /\ UsernamesApart' /\ ControlRows' /\ Starting'
      BY <2>1, TypeStep, UsernamesStep, ControlRowsStep, StartingStep
    <2>3. \A r \in Reqs : Presented(r)'
      BY <1>1, PresentedStep
    <2> QED
      BY <2>2, <2>3
  <1>2. CASE UNCHANGED vars
    <2>1. TypeInv'
      BY <1>2 DEF vars, TypeInv, Rows, Ready, Credentials, Guarded, Invitation
    <2>2. UsernamesApart' /\ ControlRows' /\ Starting' /\ \A r \in Reqs : Presented(r)'
      BY <1>2 DEF vars, UsernamesApart, ControlRows, Starting, Presented, get_user_by_username
    <2> QED
      BY <2>1, <2>2
  <1> QED
    BY <1>1, <1>2

\* The invariant of accounts, keys, requests and starts.
THEOREM IdentityInvHolds == Spec => []IdentityInv
  BY IdentityInit, IdentityNext, PTL DEF Spec

\* The tables, the start and the requests keep their types.
THEOREM TypeCorrect == Spec => []TypeOK
  <1>1. IdentityInv => TypeOK
    <2> SUFFICES ASSUME IdentityInv PROVE TypeOK
      OBVIOUS
    <2>1. \A k \in DOMAIN keys : keys[k] \in KeyRow
      BY TableFacts DEF IdentityInv, TypeInv, Rows
    <2>2. \A k \in DOMAIN keys : /\ keys[k].owner \in DOMAIN users
                                 /\ keys[k].name \in KeyNames
                                 /\ keys[k].scopes \subseteq Scopes
      BY <2>1 DEF IdentityInv, TypeInv, Rows, KeyRow
    <2>3. \A r \in Reqs : req[r].pc \in {"idle", "user", "provision", "mint", "handler",
                                         "count", "write"}
      BY DEF IdentityInv, TypeInv, ReqRow
    <2> QED
      BY <2>2, <2>3 DEF TypeOK, IdentityInv, TypeInv, Rows, UserRow
  <1> QED
    BY <1>1, IdentityInvHolds, PTL

-----------------------------------------------------------------------------
(* Authority is fresh.                                                     *)

\* A request that gets to act was read, or its account was made, in this step.
LEMMA ActsBy ==
    ASSUME TypeInv, Starting, Step, NEW r \in Reqs,
           req[r].pc \in {"user", "provision"}, req'[r].pc \in {"handler", "mint"}
    PROVE  ReadAccount(r) \/ Provision(r)
  <1>1. Request(r)
    <2> SUFFICES ASSUME ~Request(r) PROVE FALSE
      OBVIOUS
    <2>1. Grow
      BY GrowStep
    <2>2. ASSUME NEW g \in Reqs, Request(g) PROVE FALSE
      <3>1. PICK x \in ReqRow : Become(g, x) /\ Ready(x)'
        BY <2>1, <2>2, RequestReady
      <3>2. \A f \in Reqs : f # g => req'[f] = req[f]
        BY <2>1, <3>1, BecomeReady
      <3>3. req'[r] = req[r]
        BY <2>2, <3>2
      <3> QED
        BY <3>3
    <2>3. req'[r] = req[r] \/ req'[r] = Idle
      BY <2>2, OtherSteps
    <2> QED
      BY <2>3 DEF Idle
  <1>2. req[r] # Idle
    BY DEF Idle
  <1>3. ~Arrive(r)
    BY <1>2 DEF Arrive
  <1>4. ~GiveUp(r)
    <2>1. Done(r) => req'[r] = Idle
      BY DEF Done, Become, TypeInv
    <2> QED
      BY <2>1 DEF GiveUp, Idle
  <1> QED
    BY <1>1, <1>3, <1>4 DEF Request, BearerCredential, SessionCookie, SharedCookie,
       auth_sso_code, auth_login, Present, mint_session_response, set_role, remove_user,
       invite_user, GuardCount, ChangeAccount, create_user, SetPassword, create_key, ChangeKey,
       authz, Handling

\* A request acts only with an authority that was held at some moment since it came
\* in: a demotion, a deletion, a revocation or a logout that was over before it came
\* is never overlooked (authenticate, current_user).
THEOREM AuthorityIsFreshHolds == Spec => AuthorityIsFresh
  <1> DEFINE Fresh ==
        \A r \in Reqs :
          req[r].pc \in {"user", "provision"} /\ req'[r].pc \in {"handler", "mint"} =>
             /\ <<"user", req'[r].who, req'[r].role>> \in seen[r] \cup Authority'
             /\ req[r].cred[1] \notin Vouched =>
                   <<req[r].cred[1], req[r].cred[2], "">> \in seen[r]
  <1>1. IdentityInv /\ [Next]_vars => [Fresh]_vars
    <2> SUFFICES ASSUME IdentityInv, Next, NEW r \in Reqs,
                        req[r].pc \in {"user", "provision"}, req'[r].pc \in {"handler", "mint"}
                 PROVE  /\ <<"user", req'[r].who, req'[r].role>> \in Authority'
                        /\ req[r].cred[1] \notin Vouched =>
                              <<req[r].cred[1], req[r].cred[2], "">> \in seen[r]
      OBVIOUS
    <2>0. /\ TypeInv /\ Starting /\ Step /\ Presented(r) /\ Ready(req[r])
          /\ req \in [Reqs -> ReqRow]
          /\ users \in Seq(UserRow) /\ Len(users) \in Nat
      BY TableFacts DEF IdentityInv, TypeInv, Rows, Next
    <2>1. ASSUME NEW pc, NEW u, NEW role, Act(r, pc, u, role)
          PROVE  req'[r].who = u /\ req'[r].role = role
      BY <2>0, <2>1 DEF Act, Become, Idle
    <2>2. ASSUME NEW u \in DOMAIN users', users'[u].live
          PROVE  <<"user", u, users'[u].role>> \in Authority'
      BY <2>2 DEF Authority
    <2>3. CASE ReadAccount(r)
      <3>0. req[r].pc = "user" /\ users' = users
        BY <2>3 DEF ReadAccount, tables
      <3>1. req[r].cred \in Credentials
        BY <2>0, <3>0 DEF Ready
      <3>2. ~Done(r) /\ ~Become(r, [req[r] EXCEPT !.pc = "provision"])
        <4>1. \A x : Become(r, x) => req'[r] = x
          BY <2>0 DEF Become
        <4>2. Idle.pc = "idle" /\ [req[r] EXCEPT !.pc = "provision"].pc = "provision"
          BY <2>0 DEF Idle, ReqRow
        <4>3. ~Done(r)
          BY <4>1, <4>2 DEF Done
        <4> QED
          BY <4>1, <4>2, <4>3
      <3>3. PICK u \in Claimed(req[r].cred) : Act(r, After(req[r].cred), u, users[u].role)
        BY <2>3, <3>2 DEF ReadAccount
      <3>4. u \in DOMAIN users /\ users[u].live
        BY <3>1, <3>3, ClaimedLive
      <3>5. req'[r].who = u /\ req'[r].role = users[u].role
        BY <2>1, <3>3
      <3>6. <<"user", u, users[u].role>> \in Authority'
        BY <2>2, <3>0, <3>4
      <3> QED
        BY <2>0, <3>0, <3>5, <3>6 DEF Presented
    <2>4. CASE Provision(r)
      <3>1. req[r].cred \in Vouched \X People /\ Len(users) < MaxUsers
        BY <2>0, <2>4 DEF Provision, Ready
      <3>2. ~Done(r)
        <4>1. Done(r) => req'[r] = Idle
          BY <2>0 DEF Done, Become
        <4> QED
          BY <4>1 DEF Idle
      <3>3. /\ UsernameFree(users, req[r].cred[2])
            /\ users' = Append(users, Account(req[r].cred[2], "member", FALSE))
            /\ Act(r, After(req[r].cred), Len(users) + 1, "member")
        BY <2>4, <3>2 DEF Provision
      <3>4. req[r].cred[2] \in Names /\ "member" \in Roles
        BY <3>1 DEF Names, Roles
      <3>5. /\ Len(users) + 1 \in DOMAIN users'
            /\ users'[Len(users) + 1] = Account(req[r].cred[2], "member", FALSE)
        BY <2>0, <3>1, <3>3, <3>4, InsertEvolves
      <3>6. users'[Len(users) + 1].live /\ users'[Len(users) + 1].role = "member"
        BY <3>5 DEF Account
      <3>7. <<"user", Len(users) + 1, "member">> \in Authority'
        BY <2>2, <3>5, <3>6
      <3>8. req'[r].who = Len(users) + 1 /\ req'[r].role = "member"
        BY <2>1, <3>3
      <3>9. req[r].cred[1] \in Vouched
        BY <3>1
      <3> QED
        BY <3>7, <3>8, <3>9
    <2> QED
      BY <2>0, <2>3, <2>4, ActsBy
  <1> QED
    BY <1>1, IdentityInvHolds, PTL DEF Spec, AuthorityIsFresh

-----------------------------------------------------------------------------
(* The last administrator.                                                 *)

\* An insert, a new password and a promotion take no administrator away.
LEMMA AdminsStay ==
    ASSUME NEW us \in Seq(UserRow), NEW u
    PROVE  /\ \A row \in UserRow : Admins(us) \subseteq Admins(Append(us, row))
           /\ Admins(us) \subseteq Admins(set_user_password(us, u))
           /\ Admins(us) \subseteq Admins(set_user_role(us, u, "admin"))
  <1>0. \A v \in DOMAIN us : us[v] \in UserRow
    BY TableFacts
  <1>1. ASSUME NEW row \in UserRow PROVE Admins(us) \subseteq Admins(Append(us, row))
    BY AppendFacts DEF Admins
  <1>2. Admins(us) \subseteq Admins(set_user_password(us, u))
    <2> SUFFICES ASSUME NEW v \in Admins(us) PROVE v \in Admins(set_user_password(us, u))
      OBVIOUS
    <2>1. v \in DOMAIN us /\ us[v].live /\ us[v].role = "admin"
      BY DEF Admins
    <2>2. set_user_password(us, u)[v] = IF v = u THEN [us[v] EXCEPT !.local = TRUE] ELSE us[v]
      BY <2>1 DEF set_user_password, Update
    <2>3. /\ [us[v] EXCEPT !.local = TRUE].live = us[v].live
          /\ [us[v] EXCEPT !.local = TRUE].role = us[v].role
      BY <1>0, <2>1 DEF UserRow
    <2>4. v \in DOMAIN set_user_password(us, u)
      BY <2>1 DEF set_user_password, Update
    <2> QED
      BY <2>1, <2>2, <2>3, <2>4 DEF Admins
  <1>3. Admins(us) \subseteq Admins(set_user_role(us, u, "admin"))
    <2> SUFFICES ASSUME NEW v \in Admins(us) PROVE v \in Admins(set_user_role(us, u, "admin"))
      OBVIOUS
    <2>1. v \in DOMAIN us /\ us[v].live /\ us[v].role = "admin"
      BY DEF Admins
    <2>2. set_user_role(us, u, "admin")[v] = IF v = u THEN [us[v] EXCEPT !.role = "admin"]
                                                      ELSE us[v]
      BY <2>1 DEF set_user_role, Update
    <2>3. /\ [us[v] EXCEPT !.role = "admin"].live = us[v].live
          /\ [us[v] EXCEPT !.role = "admin"].role = "admin"
      BY <1>0, <2>1 DEF UserRow
    <2>4. v \in DOMAIN set_user_role(us, u, "admin")
      BY <2>1 DEF set_user_role, Update
    <2> QED
      BY <2>1, <2>2, <2>3, <2>4 DEF Admins
  <1> QED
    BY <1>1, <1>2, <1>3

\* A deletion or a new role touches one account.
LEMMA OneGoes ==
    ASSUME NEW us \in Seq(UserRow), NEW u, NEW role,
           NEW vs, vs \in {delete_user(us, u), set_user_role(us, u, role)}
    PROVE  Admins(us) \ {u} \subseteq Admins(vs)
  BY DEF Admins, delete_user, set_user_role, Update

\* Only an operator's command and the write of a change take administrators away.
LEMMA AdminsGo ==
    ASSUME TypeInv, Starting, Step, ~(Admins(users) \subseteq Admins(users'))
    PROVE  begun'.commands # begun.commands \/ \E r \in Reqs : ChangeAccount(r)
  <1> SUFFICES ASSUME \A r \in Reqs : ~ChangeAccount(r), begun'.commands = begun.commands
               PROVE  FALSE
    OBVIOUS
  <1>0. /\ users \in Seq(UserRow)
        /\ \A n \in Names, role \in Roles, local \in BOOLEAN : Account(n, role, local) \in UserRow
        /\ "admin" \in Roles /\ "member" \in Roles /\ People \subseteq Names
        /\ DefaultAdmin \in Names /\ CONTROL_USERNAME \in Names
    BY DEF TypeInv, Rows, Account, UserRow, Roles, Names
  <1>1. ~Command
    <2>1. begun \in [requests : Nat, starts : Nat, commands : Nat]
      BY DEF TypeInv
    <2>2. Command => begun'.commands = begun.commands + 1
      BY <2>1 DEF Command
    <2> QED
      BY <2>1, <2>2
  <1>2. users' # users
    OBVIOUS
  <1>3. ASSUME NEW n \in Names, NEW role \in Roles, NEW local \in BOOLEAN
        PROVE  users' # Append(users, Account(n, role, local))
    BY <1>0, AdminsStay
  <1>4. ASSUME NEW u
        PROVE  /\ users' # set_user_password(users, u)
               /\ users' # set_user_role(users, u, "admin")
               /\ users' # set_user_role(set_user_password(users, u), u, "admin")
    <2>1. set_user_password(users, u) \in Seq(UserRow)
      BY <1>0, RowUpdates DEF Evolves
    <2> QED
      BY <1>0, <2>1, AdminsStay
  <1>5. \A n \in Names : ~upsert_admin(n)
    BY <1>0, <1>3, <1>4 DEF upsert_admin
  <1>6. ASSUME NEW r \in Reqs, Request(r) PROVE FALSE
    <2>1. Provision(r) => req[r].cred[2] \in Names
      <3>1. Provision(r) => req[r].cred \in Vouched \X People
        BY DEF TypeInv, Ready, Provision
      <3> QED
        BY <1>0, <3>1
    <2>2. ~Provision(r)
      BY <1>0, <1>2, <1>3, <2>1 DEF Provision
    <2>3. ~create_user(r)
      BY <1>2, <1>3 DEF create_user
    <2>4. ~SetPassword(r)
      BY <1>4 DEF SetPassword
    <2> QED
      BY <1>2, <1>6, <2>2, <2>3, <2>4 DEF Request, BearerCredential, SessionCookie, SharedCookie,
         auth_sso_code, auth_login, Present, Arrive, ReadAccount, mint_session_response, set_role,
         remove_user, invite_user, GuardCount, create_key, ChangeKey, GiveUp, tables
  <1>7. ~(FirstRun \/ ControlOwner)
    BY <1>0, <1>2, <1>3, <1>4, <1>5 DEF FirstRun, ControlOwner
  <1> QED
    BY <1>1, <1>2, <1>6, <1>7 DEF Step, EndSession, run_set_role, run_setup, Start,
       RevokeOutdated, IssueControlKey, Stop, tables

\* The last administrator is never taken away by a guarded change whose guard still
\* holds when it is written (guard_last_admin, set_role, remove_user): only by an
\* invitation, a command, or a change that another one overtook.
THEOREM LastAdminGoesUnguardedHolds == Spec => LastAdminGoesUnguarded
  <1> DEFINE Unguarded ==
        Admins(users) # {} /\ Admins(users') = {} =>
          \/ begun'.commands # begun.commands
          \/ \E r \in Reqs :
                /\ req[r].pc = "write" /\ req'[r] = Idle
                /\ req[r].change.kind = "invite" \/ Overtaken(req[r].change)
  <1>1. IdentityInv /\ [Next]_vars => [Unguarded]_vars
    <2> SUFFICES ASSUME IdentityInv, Next, Admins(users) # {}, Admins(users') = {},
                        begun'.commands = begun.commands
                 PROVE  \E r \in Reqs :
                           /\ req[r].pc = "write" /\ req'[r] = Idle
                           /\ req[r].change.kind = "invite" \/ Overtaken(req[r].change)
      OBVIOUS
    <2>0. /\ TypeInv /\ Starting /\ Step /\ users \in Seq(UserRow)
          /\ \A u \in DOMAIN users : users[u] \in UserRow
      BY TableFacts DEF IdentityInv, TypeInv, Rows, Next
    <2>1. PICK r \in Reqs : ChangeAccount(r)
      BY <2>0, AdminsGo
    <2> DEFINE c == req[r].change
    <2>2. req[r].pc = "write" /\ req'[r] = Idle
      BY <2>0, <2>1 DEF ChangeAccount, Done, Become, TypeInv
    <2>3. c \in Guarded \cup Invitation
      BY <2>0, <2>2 DEF TypeInv, Ready
    <2>4. CASE c.kind = "invite"
      BY <2>2, <2>4
    <2>5. CASE c.kind # "invite"
      <3>1. /\ c.user \in DOMAIN users /\ c.user # 0 /\ c.kind \in {"role", "delete"}
            /\ c.counted \in Nat \ {1}
        <4>1. c \in Guarded
          BY <2>3, <2>5 DEF Invitation
        <4>2. 0 \notin DOMAIN users
          BY <2>0, TableFacts
        <4> QED
          BY <4>1, <4>2 DEF Guarded
      <3>2. users' \in {delete_user(users, c.user), set_user_role(users, c.user, c.role)}
        BY <2>1, <3>1 DEF ChangeAccount
      <3>3. Admins(users) = {c.user}
        <4> HIDE DEF c
        <4>1. \A u, role, vs : vs \in {delete_user(users, u), set_user_role(users, u, role)}
                                  => Admins(users) \ {u} \subseteq Admins(vs)
          BY <2>0, OneGoes
        <4>2. Admins(users) \ {c.user} \subseteq Admins(users')
          BY <3>2, <4>1
        <4> QED
          BY <4>2
      <3>4. count_admins(users) = 1
        BY <3>3, FS_Singleton DEF count_admins
      <3>5. users[c.user].role = "admin"
        BY <3>3 DEF Admins
      <3>6. Overtaken(c)
        BY <3>1, <3>4, <3>5 DEF Overtaken
      <3> QED
        BY <2>2, <3>6
    <2> QED
      BY <2>4, <2>5
  <1> QED
    BY <1>1, IdentityInvHolds, PTL DEF Spec, LastAdminGoesUnguarded

-----------------------------------------------------------------------------
(* The control key.                                                        *)

\* A live key of the control account, as verify_api_key sees it.
LEMMA ControlKeyFound ==
    ASSUME IdentityInv, phase = "keys", NEW k \in ControlKeys, keys[k].hash = token
    PROVE  /\ k \in verify_api_key(keys, users, token)
           /\ "admin" \in keys[k].scopes
           /\ users[keys[k].owner].role = "admin"
  <1>1. PICK u \in get_user_by_username(users, CONTROL_USERNAME) :
          k \in list_api_keys_for_user(keys, u)
    BY DEF ControlKeys
  <1>2. /\ u \in DOMAIN users /\ users[u].username = CONTROL_USERNAME /\ users[u].live
        /\ k \in DOMAIN keys /\ keys[k].owner = u /\ keys[k].live
    BY <1>1 DEF get_user_by_username, list_api_keys_for_user
  <1>3. token \in Tokens
    BY DEF IdentityInv, Starting
  <1>4. PICK v \in get_user_by_username(users, CONTROL_USERNAME) : users[v].role = "admin"
    BY DEF IdentityInv, Starting
  <1>5. v = u
    BY <1>2, <1>4 DEF get_user_by_username, IdentityInv, UsernamesApart
  <1>6. keys[k].scopes = Scopes
    BY <1>2, <1>3 DEF IdentityInv, ControlRows
  <1>7. u \in get_user(users, keys[k].owner)
    BY <1>2 DEF get_user
  <1>8. k \in verify_api_key(keys, users, token)
    BY <1>2, <1>7 DEF verify_api_key
  <1> QED
    BY <1>2, <1>4, <1>5, <1>6, <1>8 DEF Scopes

\* Once no control key is outdated, a key of another token that is still good has
\* been renamed.
LEMMA OthersRenamed ==
    ASSUME IdentityInv, phase = "keys", Outdated(ControlKeys) = {},
           NEW t \in Tokens, t # token, NEW k \in verify_api_key(keys, users, t)
    PROVE  keys[k].name # CONTROL_USERNAME
  <1>1. /\ k \in DOMAIN keys /\ keys[k].hash = t /\ keys[k].live
        /\ get_user(users, keys[k].owner) # {}
    BY DEF verify_api_key
  <1> DEFINE u == keys[k].owner
  <1>2. u \in DOMAIN users /\ users[u].live
    BY <1>1 DEF get_user
  <1>3. users[u].username = CONTROL_USERNAME
    BY <1>1 DEF IdentityInv, ControlRows
  <1>4. u \in get_user_by_username(users, CONTROL_USERNAME)
    BY <1>2, <1>3 DEF get_user_by_username
  <1>5. keys[k].name = CONTROL_USERNAME => k \in ControlKeys
    BY <1>1, <1>4 DEF ControlKeys, list_api_keys_for_user
  <1> QED
    BY <1>1, <1>5 DEF Outdated

\* A gateway that comes up with a control key takes that key for administration,
\* and an earlier one only if it was renamed (ensure_control_key).
THEOREM ControlKeyIsTheKeyHolds == Spec => ControlKeyIsTheKey
  <1> DEFINE TheKey ==
        phase # "up" /\ phase' = "up" /\ token # NoToken =>
          /\ \E k \in verify_api_key(keys', users', token) :
                /\ "admin" \in keys'[k].scopes
                /\ users'[keys'[k].owner].role = "admin"
          /\ \A t \in Tokens \ {token} :
                \A k \in verify_api_key(keys', users', t) :
                   keys'[k].name # CONTROL_USERNAME
  <1>1. IdentityInv /\ [Next]_vars => [TheKey]_vars
    <2> SUFFICES ASSUME IdentityInv, Next, phase # "up", phase' = "up", token # NoToken
                 PROVE  /\ \E k \in verify_api_key(keys', users', token) :
                              /\ "admin" \in keys'[k].scopes
                              /\ users'[keys'[k].owner].role = "admin"
                        /\ \A t \in Tokens \ {token} :
                              \A k \in verify_api_key(keys', users', t) :
                                 keys'[k].name # CONTROL_USERNAME
      OBVIOUS
    <2>0. /\ Starting /\ Step /\ keys \in Seq(KeyRow) /\ users \in Seq(UserRow)
          /\ Len(keys) \in Nat /\ DOMAIN keys = 1 .. Len(keys)
      BY TableFacts DEF IdentityInv, TypeInv, Rows, Next
    <2>1. IssueControlKey
      <3>1. \A r \in Reqs : ~Request(r)
        BY <2>0, RequestFrame
      <3> QED
        BY <2>0, <3>1 DEF Step, EndSession, run_set_role, run_setup, Command, Start, FirstRun,
           ControlOwner, RevokeOutdated, Stop
    <2>2. phase = "keys" /\ Outdated(ControlKeys) = {} /\ users' = users
      BY <2>1 DEF IssueControlKey
    <2>3. CASE keys' = keys
      <3>1. \E k \in ControlKeys : keys[k].hash = token
        <4>1. ASSUME NEW u \in get_user_by_username(users, CONTROL_USERNAME),
                     keys' = Append(keys, Key(u, token, CONTROL_USERNAME, Scopes))
              PROVE  FALSE
          <5>1. /\ token \in Tokens \cup {Issued} /\ CONTROL_USERNAME \in KeyNames
                /\ Scopes \in SUBSET Scopes /\ DOMAIN users \subseteq Nat
            BY <2>0, <2>2, TableFacts DEF Starting, KeyNames
          <5>2. u \in DOMAIN users /\ users[u].username = CONTROL_USERNAME
            BY <4>1 DEF get_user_by_username
          <5>3. DOMAIN keys' = DOMAIN keys \cup {Len(keys) + 1}
            BY <2>0, <2>2, <4>1, <5>1, <5>2, AppendKey
          <5>4. Len(keys) + 1 \in DOMAIN keys
            BY <2>3, <5>3
          <5>5. Len(keys) + 1 \in 1 .. Len(keys)
            BY <2>0, <5>4
          <5> QED
            BY <2>0, <5>5
        <4> QED
          BY <2>1, <2>3, <4>1 DEF IssueControlKey
      <3> QED
        BY <2>2, <2>3, <3>1, ControlKeyFound, OthersRenamed
    <2>4. CASE keys' # keys
      <3>1. PICK u \in get_user_by_username(users, CONTROL_USERNAME) :
               keys' = Append(keys, Key(u, token, CONTROL_USERNAME, Scopes))
        BY <2>1, <2>4 DEF IssueControlKey
      <3>2. u \in DOMAIN users /\ users[u].username = CONTROL_USERNAME /\ users[u].live
        BY <3>1 DEF get_user_by_username
      <3>3. users[u].role = "admin"
        BY <2>2, <3>2 DEF IdentityInv, Starting, UsernamesApart, get_user_by_username
      <3> DEFINE new == Len(keys) + 1
      <3>4. /\ DOMAIN keys' = DOMAIN keys \cup {new}
            /\ \A k \in DOMAIN keys : keys'[k] = keys[k]
            /\ keys'[new] = Key(u, token, CONTROL_USERNAME, Scopes)
        <4>1. /\ token \in Tokens \cup {Issued} /\ CONTROL_USERNAME \in KeyNames
              /\ Scopes \in SUBSET Scopes /\ DOMAIN users \subseteq Nat
          BY <2>0, <2>2, TableFacts DEF Starting, KeyNames
        <4> QED
          BY <2>0, <2>2, <3>1, <3>2, <4>1, AppendKey
      <3>5. /\ keys'[new].hash = token /\ keys'[new].live /\ keys'[new].owner = u
            /\ keys'[new].scopes = Scopes
        BY <3>4 DEF Key
      <3>6. new \in verify_api_key(keys', users', token)
        BY <2>2, <3>2, <3>4, <3>5 DEF verify_api_key, get_user
      <3>7. ASSUME NEW t \in Tokens \ {token}, NEW k \in verify_api_key(keys', users', t)
            PROVE  keys'[k].name # CONTROL_USERNAME
        <4>1. /\ k \in DOMAIN keys' /\ keys'[k].hash = t /\ keys'[k].live
              /\ get_user(users', keys'[k].owner) # {}
          BY <3>7 DEF verify_api_key
        <4>2. k \in DOMAIN keys /\ keys'[k] = keys[k]
          BY <3>4, <3>5, <4>1
        <4>3. k \in verify_api_key(keys, users, t)
          BY <2>2, <4>1, <4>2 DEF verify_api_key
        <4> QED
          BY <2>2, <4>2, <4>3, OthersRenamed
      <3> QED
        BY <2>2, <3>3, <3>5, <3>6, <3>7 DEF Scopes
    <2> QED
      BY <2>3, <2>4
  <1> QED
    BY <1>1, IdentityInvHolds, PTL DEF Spec, ControlKeyIsTheKey

=============================================================================

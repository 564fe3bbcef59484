-------------------------------- MODULE Users --------------------------------
(***************************************************************************)
(* Users, their logins, phone numbers, accounts and vehicles (UserService, *)
(* ClientService, CourierService, AuthService).  A registration is one     *)
(* step: the unique constraint decides, whatever was checked before.       *)
(* update and add_phone read rows without a lock and write later, so each  *)
(* is a step for what is read and one for what is written.  A token carries *)
(* the scopes of the role at login.                                        *)
(***************************************************************************)
EXTENDS Naturals, FiniteSets

CONSTANTS Users, System, WalkIn,       \* SYSTEM_USER_ID, WALKIN_USER_ID
          ADMIN_PHONE, WALKIN_PHONE,   \* logins that start-up creates
          Phones,
          AssignableRoles,   \* roles the back office gives
          Updates,           \* bodies of PATCH requests: role, phone, password, block
          Edited,            \* bound: users that requests other than blocking are about
          Requests,
          MAX_ADDITIONAL_PHONES,
          MaxIdentities,     \* bound on rows of identities
          MaxTokens,         \* bound on tokens in use
          None

STAFF_ROLES  == {"ADMIN", "ACCOUNTANT", "STOREKEEPER", "CASHIER", "COURIER"}
CLIENT_ROLES == {"CLIENT_B2B", "CLIENT_B2C"}
Roles        == STAFF_ROLES \union CLIENT_ROLES \union {"SYSTEM"}

Ids          == 1..MaxIdentities

UserRows == [role : Roles, active : BOOLEAN]

\* password_hash: NULL, a hash, or the "!disabled" of the walk-in client.
IdentityRows == [user : Users, phone : Phones, password : {"none", "set", "disabled"}]

NumberRows == [user : Users, phone : Phones]

Protected == {System, WalkIn}  \* PROTECTED_USER_IDS

\* What a request in flight knows: what update, delete_staff, add_phone or update_phone read.
Pending ==
  [op : {"update"}, user : Users, data : Updates, identity : Ids \union {None}, seen : Roles]
    \union [op : {"delete"}, user : Users \ Protected]
    \union [op : {"phone"}, user : Users, phone : Phones]
    \union [op : {"rephone"}, old : NumberRows, phone : Phones]

ASSUME UsersAssumption ==
  /\ System \in Users /\ WalkIn \in Users /\ System # WalkIn
  /\ ADMIN_PHONE \in Phones /\ WALKIN_PHONE \in Phones /\ ADMIN_PHONE # WALKIN_PHONE
  /\ AssignableRoles \subseteq Roles \ {"SYSTEM"}
  /\ MAX_ADDITIONAL_PHONES \in Nat /\ MaxIdentities \in Nat /\ MaxTokens \in Nat
  /\ Updates \subseteq [role : AssignableRoles \union {None}, phone : Phones \union {None},
                        password : BOOLEAN, block : BOOLEAN]
  /\ Edited \subseteq Users
  /\ IsFiniteSet(Requests) /\ Requests # {}

\* None is the null of every column.
ASSUME NoneAssumption ==
  /\ None \notin Phones /\ None \notin Roles /\ None \notin Ids
  /\ None \notin UserRows /\ None \notin IdentityRows /\ None \notin Pending

VARIABLES user,      \* role and is_active of a user, or None
          identity,  \* local logins: a row or None for each id
          numbers,   \* additional phone numbers, [user, phone]
          owns,      \* accounts and inventories of a user, how many of each
          tokens,    \* valid access tokens: subject and role at login
          request    \* what a request has read and will write, or None

vars == <<user, identity, numbers, owns, tokens, request>>

Logins(u) == {i \in Ids : identity[i] # None /\ identity[i].user = u}
Exists(u) == user[u] # None
Active(u) == Exists(u) /\ user[u].active
Nothing == [courier |-> 0, client |-> 0, admin |-> 0, vehicle |-> 0, address |-> 0]

\* An empty database.
Init ==
  /\ user     = [u \in Users |-> None]
  /\ identity = [i \in Ids |-> None]
  /\ numbers  = {}
  /\ owns     = [u \in Users |-> Nothing]
  /\ tokens   = {}
  /\ request  = [r \in Requests |-> None]

-----------------------------------------------------------------------------
(* Start-up *)

NextId(f, i) == f[i] = None /\ \A j \in Ids : j < i => f[j] # None

\* The tables after the row was added, if it is missing.
WithLogin(f, missing, row) ==
  IF missing THEN {[f EXCEPT ![i] = row] : i \in {i \in Ids : NextId(f, i)}} ELSE {f}

\* A new user gets an id nobody ever had (uuid7): no request and no token names it.
NewUser(u) ==
  /\ ~Exists(u) /\ \A t \in tokens : t.sub # u
  /\ \A r \in Requests : request[r] # None =>
       u # IF request[r].op = "rephone" THEN request[r].old.user ELSE request[r].user

Administrators == {u \in Users : \E i \in Logins(u) : identity[i].phone = ADMIN_PHONE}

\* The script creates what it does not find: the system user by his role, the
\* walk-in client by his id, the administrator a by his phone, and accounts.
\* One transaction; the system user's id fails it if he lost his role.
init_data(a) ==
  LET first   == ~Exists(WalkIn)
      admins  == IF Administrators = {} THEN {a} ELSE Administrators
      walkin  == [user |-> WalkIn, phone |-> WALKIN_PHONE, password |-> "disabled"]
      admin   == [user |-> a, phone |-> ADMIN_PHONE, password |-> "set"]
  IN  /\ first \/ \E u \in Users : Exists(u) /\ user[u].role = "SYSTEM"
      /\ Administrators = {} => NewUser(a) /\ a \notin Protected
      /\ user' = [u \in Users |->
           IF first /\ u = System THEN [role |-> "SYSTEM", active |-> TRUE]
           ELSE IF first /\ u = WalkIn THEN [role |-> "CLIENT_B2C", active |-> TRUE]
           ELSE IF Administrators = {} /\ u = a THEN [role |-> "ADMIN", active |-> TRUE]
           ELSE user[u]]
      /\ \E f \in WithLogin(identity, first, walkin) :
           identity' \in WithLogin(f, Administrators = {}, admin)
      /\ owns' = [u \in Users |->
           IF first /\ u = WalkIn THEN [Nothing EXCEPT !.client = 1, !.address = 1]
           ELSE IF u \in admins THEN [owns[u] EXCEPT !.admin = 1]
           ELSE owns[u]]
      /\ UNCHANGED <<numbers, tokens, request>>

-----------------------------------------------------------------------------
(* Tokens and permissions *)

\* The scopes the calls below ask for.
ROLE_SCOPES(role) ==
  (IF role = "SYSTEM" THEN {} ELSE {"catalog:read"})
    \union (IF role = "ADMIN" THEN {"users:write"} ELSE {})
    \union (IF role = "COURIER" THEN {"orders:deliver"} ELSE {})

\* A password login: the phone of an active user with a password.
LogIn(u, roles) ==
  /\ Active(u) /\ \E i \in Logins(u) : identity[i].password = "set"
  /\ user[u].role \in roles /\ Cardinality(tokens) < MaxTokens
  /\ tokens' = tokens \union {[sub |-> u, role |-> user[u].role]}
  /\ UNCHANGED <<user, identity, numbers, owns, request>>

\* courier_login is local_login for one of the roles.
local_login(u)  == LogIn(u, STAFF_ROLES)
client_login(u) == u \notin Protected /\ LogIn(u, CLIENT_ROLES)

TokenExpires(t) == tokens' = tokens \ {t} /\ UNCHANGED <<user, identity, numbers, owns, request>>

\* The scope is looked up in the token, the user in the database.
get_token_payload(t, scope) == scope \in ROLE_SCOPES(t.role)
get_current_user(t, scope) == get_token_payload(t, scope) /\ Active(t.sub)

BackOffice(u) == \E t \in tokens : get_current_user(t, "users:write") /\ t.sub # u

-----------------------------------------------------------------------------
(* Registration *)

\* uq_identities_provider_identity_id; i is the row that is written.
PhoneFree(p, i) == \A j \in Ids \ {i} : identity[j] # None => identity[j].phone # p

AddUser(u, role, p, password, things) ==
  /\ NewUser(u)
  /\ user' = [user EXCEPT ![u] = [role |-> role, active |-> TRUE]]
  /\ \/ p = None /\ UNCHANGED identity
     \/ \E i \in Ids :
          /\ p # None /\ NextId(identity, i) /\ PhoneFree(p, i)
          /\ identity' = [identity EXCEPT ![i] = [user |-> u, phone |-> p, password |-> password]]
  /\ owns' = [owns EXCEPT ![u] = things]
  /\ UNCHANGED <<numbers, tokens, request>>

\* _ensure_courier_account: the account a user of this role still lacks.
register_local_user(u, role, p) ==
  AddUser(u, role, p, "set", IF role = "COURIER" THEN [Nothing EXCEPT !.courier = 1] ELSE Nothing)

create_courier(u, p) == AddUser(u, "COURIER", p, "set", [Nothing EXCEPT !.courier = 1])

\* The phone is optional for a company; a client of the back office has no password.
create_client(u, role, p, address) ==
  /\ p # None \/ role = "CLIENT_B2B"
  /\ AddUser(u, role, p, "none", [Nothing EXCEPT !.client = 1, !.address = address])

\* Self-registration: account and address.
register_client(u, role, p) ==
  AddUser(u, role, p, "set", [Nothing EXCEPT !.client = 1, !.address = 1])

create_client_inventory(u) ==
  /\ Active(u) /\ owns[u].address = 0  \* bound: one address
  /\ owns' = [owns EXCEPT ![u].address = 1]
  /\ UNCHANGED <<user, identity, numbers, tokens, request>>

\* Any active user; uq_active_courier_inventory refuses a second vehicle.
create_courier_inventory(u) ==
  /\ Active(u) /\ owns[u].vehicle = 0
  /\ owns' = [owns EXCEPT ![u].vehicle = 1]
  /\ UNCHANGED <<user, identity, numbers, tokens, request>>

-----------------------------------------------------------------------------
(* update: what was read, then what is written *)

\* Mutant: the password is not asked for.
ValidStaffUpdate_NoPassword(role, i, phone, password) ==
  role \in STAFF_ROLES => i # None \/ phone # None

ValidStaffUpdate(role, i, phone, password) ==
  role \in STAFF_ROLES => /\ i # None \/ phone # None
                          /\ password \/ (IF i = None THEN FALSE ELSE identity[i].password # "none")

Read(r, row) ==
  /\ request[r] = None /\ request' = [request EXCEPT ![r] = row]
  /\ UNCHANGED <<user, identity, numbers, owns, tokens>>

\* The login of a user, if he has one; two are an error.
LocalIdentity(u) == {i \in Ids \union {None} : IF Logins(u) = {} THEN i = None ELSE Logins(u) = {i}}

update_read(r, u, d) ==
  \E i \in LocalIdentity(u) :
    /\ Exists(u) /\ ~(d.block /\ u \in Protected)
    /\ ValidStaffUpdate(IF d.role = None THEN user[u].role ELSE d.role, i, d.phone, d.password)
    /\ Read(r, [op |-> "update", user |-> u, data |-> d, identity |-> i, seen |-> user[u].role])

\* Mutant: an account is created whenever the role is set.
CourierAccounts_Again(u, role) == owns[u].courier + (IF role = "COURIER" THEN 1 ELSE 0)

\* _ensure_courier_account, on the row this request holds.
CourierAccounts(u, role) ==
  IF role = "COURIER" /\ owns[u].courier = 0 THEN 1 ELSE owns[u].courier

\* Mutant: fields that are not in the body are overwritten with null.
UpdateUser_Unset(u, d) ==
  /\ Active(u) /\ user' = [user EXCEPT ![u] = [role |-> d.role, active |-> ~d.block]]

\* UPDATE users ... WHERE is_active waits for the row and holds it until commit.
UpdateUser(u, d) ==
  IF d.role = None /\ ~d.block THEN UNCHANGED user
  ELSE /\ Active(u)
       /\ user' = [user EXCEPT ![u] =
                     [role |-> IF d.role = None THEN @.role ELSE d.role, active |-> ~d.block]]

\* _apply_identity_changes: a login is added, or the row i that was read changed.
UpdateIdentity(u, d, i) ==
  IF d.phone = None /\ ~d.password THEN UNCHANGED identity
  ELSE IF i = None
  THEN \E j \in Ids :
         /\ d.phone # None /\ NextId(identity, j) /\ PhoneFree(d.phone, j)
         /\ identity' = [identity EXCEPT ![j] =
              [user |-> u, phone |-> d.phone, password |-> IF d.password THEN "set" ELSE "none"]]
  ELSE /\ i \in Logins(u)
       /\ d.phone # None => PhoneFree(d.phone, i)
       /\ identity' = [identity EXCEPT ![i] =
            [user |-> u, phone |-> IF d.phone = None THEN @.phone ELSE d.phone,
             password |-> IF d.password THEN "set" ELSE @.password]]

update(r) ==
  LET q == request[r]
      u == q.user
      d == q.data
      role == IF d.role # None THEN d.role ELSE IF d.block THEN user[u].role ELSE q.seen
  IN  /\ q # None /\ q.op = "update" /\ Exists(u)
      /\ UpdateUser(u, d)
      /\ UpdateIdentity(u, d, q.identity)
      /\ owns' = [owns EXCEPT ![u].courier = CourierAccounts(u, role)]
      /\ request' = [request EXCEPT ![r] = None]
      /\ UNCHANGED <<numbers, tokens>>

RolledBack(r) ==
  /\ request[r] # None /\ request' = [request EXCEPT ![r] = None]
  /\ UNCHANGED <<user, identity, numbers, owns, tokens>>

-----------------------------------------------------------------------------
(* Blocking and deleting *)

archive(u) ==
  /\ u \notin Protected /\ Active(u)
  /\ user' = [user EXCEPT ![u].active = FALSE]
  /\ UNCHANGED <<identity, numbers, owns, tokens, request>>

\* Mutant: accounts and inventories do not restrict the deletion.
Deletable_Any(u) == TRUE

\* FOREIGN KEY ... ON DELETE RESTRICT of accounts and inventories.
Deletable(u) == owns[u] = Nothing

\* The role is judged as it was read, without a lock on the user.
delete_staff_read(r, u) ==
  /\ u \notin Protected /\ Exists(u) /\ user[u].role \in STAFF_ROLES
  /\ Read(r, [op |-> "delete", user |-> u])

\* DELETE by id, whatever role he has by now; logins and numbers go with the
\* user (ON DELETE CASCADE).
delete_staff(r) ==
  LET u == request[r].user
  IN  /\ request[r] # None /\ request[r].op = "delete" /\ Exists(u) /\ Deletable(u)
      /\ user' = [user EXCEPT ![u] = None]
      /\ identity' = [i \in Ids |-> IF i \in Logins(u) THEN None ELSE identity[i]]
      /\ numbers' = {n \in numbers : n.user # u}
      /\ request' = [request EXCEPT ![r] = None]
      /\ UNCHANGED <<owns, tokens>>

-----------------------------------------------------------------------------
(* Additional phone numbers *)

count_by_user(u) == Cardinality({n \in numbers : n.user = u})

\* Mutant: off by one.
BelowLimit_Off(u) == count_by_user(u) <= MAX_ADDITIONAL_PHONES

BelowLimit(u) == count_by_user(u) < MAX_ADDITIONAL_PHONES

\* _check_phone_globally_unique
GloballyUnique(p) ==
  /\ \A i \in Ids : identity[i] # None => identity[i].phone # p
  /\ \A n \in numbers : n.phone # p

add_phone_read(r, u, p) ==
  /\ Active(u) /\ BelowLimit(u) /\ GloballyUnique(p)
  /\ Read(r, [op |-> "phone", user |-> u, phone |-> p])

\* The user still exists and phone_numbers.phone is unique.
add_phone(r) ==
  LET q == request[r]
  IN  /\ q # None /\ q.op = "phone" /\ Exists(q.user)
      /\ \A n \in numbers : n.phone # q.phone
      /\ numbers' = numbers \union {[user |-> q.user, phone |-> q.phone]}
      /\ request' = [request EXCEPT ![r] = None]
      /\ UNCHANGED <<user, identity, owns, tokens>>

\* Another number for the row n that was read.
update_phone_read(r, n, p) ==
  /\ GloballyUnique(p)
  /\ Read(r, [op |-> "rephone", old |-> n, phone |-> p])

\* The row still exists, and no other row has the number by now.
update_phone(r) ==
  LET q == request[r]
  IN  /\ q # None /\ q.op = "rephone" /\ q.old \in numbers
      /\ \A n \in numbers : n.phone # q.phone
      /\ numbers' = (numbers \ {q.old}) \union {[q.old EXCEPT !.phone = q.phone]}
      /\ request' = [request EXCEPT ![r] = None]
      /\ UNCHANGED <<user, identity, owns, tokens>>

remove_phone(n) ==
  /\ numbers' = numbers \ {n}
  /\ UNCHANGED <<user, identity, owns, tokens, request>>

-----------------------------------------------------------------------------
Login == \E u \in Users : local_login(u) \/ client_login(u)

Register(u) ==
  \/ \E p \in Phones : \/ \E role \in AssignableRoles : register_local_user(u, role, p)
                       \/ create_courier(u, p)
                       \/ \E role \in CLIENT_ROLES : register_client(u, role, p)
  \/ \E role \in CLIENT_ROLES, p \in Phones \union {None}, address \in 0..1 :
       create_client(u, role, p, address)

Block(u) ==
  \/ archive(u)
  \/ \E r \in Requests : \/ delete_staff_read(r, u)
                        \/ \E d \in Updates : d.block /\ update_read(r, u, d)

Edit(u) ==
  \/ create_client_inventory(u)
  \/ create_courier_inventory(u)
  \/ \E r \in Requests, d \in Updates : update_read(r, u, d)
  \/ \E r \in Requests, p \in Phones :
       \/ add_phone_read(r, u, p)
       \/ \E n \in numbers : n.user = u /\ update_phone_read(r, n, p)

Next ==
  \/ \E a \in Users : init_data(a)
  \/ Login
  \/ \E t \in tokens : TokenExpires(t)
  \/ \E u \in Users : BackOffice(u) /\ Block(u)
  \/ \E u \in Edited : BackOffice(u) /\ (Register(u) \/ Edit(u))
  \/ \E r \in Requests :
       update(r) \/ delete_staff(r) \/ add_phone(r) \/ update_phone(r) \/ RolledBack(r)
  \/ \E n \in numbers : remove_phone(n)

Spec == Init /\ [][Next]_vars

-----------------------------------------------------------------------------
(* Properties *)

\* Types of the user tables, the tokens and the requests in flight.
UsersTypeOK ==
  /\ user     \in [Users -> UserRows \union {None}]
  /\ identity \in [Ids -> IdentityRows \union {None}]
  /\ numbers  \subseteq NumberRows
  /\ owns     \in [Users -> [courier : Nat, client : Nat, admin : Nat, vehicle : Nat, address : Nat]]
  /\ tokens   \subseteq [sub : Users, role : Roles]
  /\ request  \in [Requests -> Pending \union {None}]

\* Every employee has a phone and a password to log in with, although update
\* judges by the login it read before it waited for the user's row.
StaffCanLogIn ==
  \A u \in Users \ Protected : Exists(u) /\ user[u].role \in STAFF_ROLES =>
    \E i \in Logins(u) : identity[i].password = "set"

\* A courier has one cash account, however often his role was changed and by
\* how many requests at once; nobody ever has two accounts of a kind, however
\* often the start-up script runs.
OneAccountOfEachKind ==
  \A u \in Users : /\ owns[u].courier <= 1 /\ owns[u].client <= 1 /\ owns[u].admin <= 1
                   /\ Exists(u) /\ user[u].role = "COURIER" => owns[u].courier = 1

\* Logins, numbers, accounts and inventories all belong to a user that exists,
\* also when he is deleted while another request is at work on him.
NoOrphans ==
  /\ \A i \in Ids : identity[i] # None => Exists(identity[i].user)
  /\ \A n \in numbers : Exists(n.user)
  /\ \A u \in Users : ~Exists(u) => owns[u] = Nothing

\* A phone is the login of one user only.
OneLoginPerPhone ==
  \A i, j \in Ids : identity[i] # None /\ identity[j] # None
                      /\ identity[i].phone = identity[j].phone => i = j

\* Concurrent requests may pass the limit of additional phones together, but
\* by no more than there are of them.
PhoneLimitHolds ==
  \A u \in Users :
    count_by_user(u) + 1 <= MAX_ADDITIONAL_PHONES + Cardinality(Requests)

\* Whatever happens to a user while other requests are at work on him, no row
\* of his outlives him and no phone logs in two users.
LoginsSound == NoOrphans /\ OneLoginPerPhone
=============================================================================

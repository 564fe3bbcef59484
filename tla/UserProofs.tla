----------------------------- MODULE UserProofs -----------------------------
(***************************************************************************)
(* The properties of Users for any number of users, phones and requests    *)
(* at once.  What a request read before it waited may be out of date when  *)
(* it writes; the invariant says what of it cannot be: the login a         *)
(* promotion counted on is still there with its password, or the user is   *)
(* gone (PendingPromotions), and every addition of a phone that passed the *)
(* limit has a request of its own to answer for it (PhoneRoom).            *)
(***************************************************************************)
EXTENDS Users, FiniteSetTheorems, TLAPS

\* Nothing happens before the first start-up.
StartedUp == Exists(WalkIn) \/ Init

\* Only the walk-in client has a password that lets nobody in.
OnlyWalkInDisabled ==
  \A i \in Ids : identity[i] # None /\ identity[i].password = "disabled" =>
    identity[i].user = WalkIn

\* What a pending promotion q to a staff role leans on.
Promotable(q) ==
  /\ q.identity # None \/ q.data.phone # None
  /\ ~q.data.password => q.identity # None
  /\ ~q.data.password /\ Exists(q.user) =>
       q.identity \in Logins(q.user) /\ identity[q.identity].password # "none"

Promotion(q) == q # None /\ q.op = "update" /\ q.data.role \in STAFF_ROLES

PendingPromotions == \A r \in Requests : Promotion(request[r]) => Promotable(request[r])

\* Requests that passed the limit for u and have not written yet.
AddsPhone(q, u) == q # None /\ q.op = "phone" /\ q.user = u
Adding(u) == {r \in Requests : AddsPhone(request[r], u)}
NumbersOf(u) == {n \in numbers : n.user = u}

PhoneRoom ==
  \A u \in Users : Cardinality(NumbersOf(u)) + Cardinality(Adding(u)) + 1
                     <= MAX_ADDITIONAL_PHONES + Cardinality(Requests)

UserInv ==
  /\ UsersTypeOK /\ IsFiniteSet(numbers) /\ StartedUp
  /\ LoginsSound /\ OnlyWalkInDisabled
  /\ StaffCanLogIn /\ PendingPromotions
  /\ OneAccountOfEachKind /\ PhoneRoom

-----------------------------------------------------------------------------
(* The steps, by what they change *)

Accounts == [courier : Nat, client : Nat, admin : Nat, vehicle : Nat, address : Nat]

\* The first start-up creates three users and two logins.
FirstStart(a) ==
  /\ Init /\ a \in Users /\ a \notin Protected
  /\ user' = [u \in Users |-> IF u = System THEN [role |-> "SYSTEM", active |-> TRUE]
                              ELSE IF u = WalkIn THEN [role |-> "CLIENT_B2C", active |-> TRUE]
                              ELSE IF u = a THEN [role |-> "ADMIN", active |-> TRUE] ELSE None]
  /\ \E i \in Ids : \E j \in Ids :
       /\ i # j
       /\ identity' = [k \in Ids |->
            IF k = i THEN [user |-> WalkIn, phone |-> WALKIN_PHONE, password |-> "disabled"]
            ELSE IF k = j THEN [user |-> a, phone |-> ADMIN_PHONE, password |-> "set"] ELSE None]
  /\ owns' = [u \in Users |-> IF u = WalkIn THEN [Nothing EXCEPT !.client = 1, !.address = 1]
                              ELSE IF u = a THEN [Nothing EXCEPT !.admin = 1] ELSE Nothing]
  /\ UNCHANGED <<numbers, tokens, request>>

\* Later ones, and new addresses and vehicles, at most give users what they lack.
AccountStep ==
  /\ Exists(WalkIn) /\ owns' \in [Users -> Accounts]
  /\ \A u \in Users : /\ owns'[u].courier = owns[u].courier /\ owns'[u].client = owns[u].client
                      /\ owns'[u].admin \in {1, owns[u].admin}
                      /\ owns'[u] # owns[u] => Exists(u)
  /\ UNCHANGED <<user, identity, numbers, tokens, request>>

TokenStep ==
  /\ Exists(WalkIn) /\ tokens' \subseteq [sub : Users, role : Roles]
  /\ UNCHANGED <<user, identity, numbers, owns, request>>

\* A row of Pending is put in, or taken out.
RequestStep ==
  \E r \in Requests, q \in Pending \union {None} :
    /\ request' = [request EXCEPT ![r] = q]
    /\ Promotion(q) => Promotable(q)
    /\ \A u \in Users : AddsPhone(q, u) => BelowLimit(u)
    /\ Exists(WalkIn)
    /\ UNCHANGED <<user, identity, numbers, owns, tokens>>

\* Numbers of users that exist, and room for them.
NumberStep ==
  /\ numbers' \subseteq NumberRows /\ IsFiniteSet(numbers')
  /\ \A n \in numbers' : Exists(n.user)
  /\ \/ request' = request
     \/ \E r \in Requests : request' = [request EXCEPT ![r] = None]
  /\ \A u \in Users : Cardinality(NumbersOf(u))' + Cardinality(Adding(u))'
                        <= Cardinality(NumbersOf(u)) + Cardinality(Adding(u))
  /\ Exists(WalkIn)
  /\ UNCHANGED <<user, identity, owns, tokens>>

ChangeOf(u) ==
  \/ archive(u)
  \/ /\ \E role \in Roles, p \in Phones \union {None}, password \in {"none", "set"},
          things \in Accounts :
          /\ AddUser(u, role, p, password, things)
          /\ things.courier <= 1 /\ things.client <= 1 /\ things.admin <= 1
          /\ role = "COURIER" => things.courier = 1
          /\ role \in STAFF_ROLES => p # None /\ password = "set"
     /\ Exists(WalkIn)

-----------------------------------------------------------------------------
(* Every step is one of these *)

LEMMA AnyoneMeansStarted ==
  ASSUME UserInv, NEW u \in Users, Exists(u)
  PROVE  Exists(WalkIn)
BY DEF UserInv, StartedUp, Init, Exists

LEMMA StartUpSteps ==
  ASSUME UserInv, NEW a \in Users, init_data(a)
  PROVE  FirstStart(a) \/ AccountStep \/ ChangeOf(a)
<1> DEFINE walkin == [user |-> WalkIn, phone |-> WALKIN_PHONE, password |-> "disabled"]
           admin  == [user |-> a, phone |-> ADMIN_PHONE, password |-> "set"]
<1>0. /\ identity \in [Ids -> IdentityRows \union {None}] /\ user \in [Users -> UserRows \union {None}]
      /\ owns \in [Users -> Accounts]
  BY DEF UserInv, UsersTypeOK, Accounts
<1>1. PICK f \in WithLogin(identity, ~Exists(WalkIn), walkin) :
        identity' \in WithLogin(f, Administrators = {}, admin)
  BY DEF init_data
<1>2. CASE ~Exists(WalkIn)
  <2>1. Init
    BY <1>2 DEF UserInv, StartedUp
  <2>2. Administrators = {}
    BY <2>1 DEF Administrators, Logins, Init
  <2>3. PICK i \in Ids : NextId(identity, i) /\ f = [identity EXCEPT ![i] = walkin]
    BY <1>1, <1>2 DEF WithLogin
  <2>4. walkin \in IdentityRows /\ admin \in IdentityRows
    BY UsersAssumption DEF IdentityRows
  <2>5. f \in [Ids -> IdentityRows \union {None}]
    BY <1>0, <2>3, <2>4
  <2>6. PICK j \in Ids : NextId(f, j) /\ identity' = [f EXCEPT ![j] = admin]
    BY <1>1, <2>2 DEF WithLogin
  <2>7. i # j
    <3>1. f[i] = walkin
      BY <1>0, <2>3
    <3> QED
      BY <2>4, <2>6, <3>1, NoneAssumption DEF NextId
  <2>8. identity' = [k \in Ids |-> IF k = i THEN walkin ELSE IF k = j THEN admin ELSE None]
    BY <2>1, <2>3, <2>6, <2>7 DEF Init
  <2>9. a \notin Protected
    BY <2>2 DEF init_data
  <2>10. user' = [u \in Users |-> IF u = System THEN [role |-> "SYSTEM", active |-> TRUE]
                              ELSE IF u = WalkIn THEN [role |-> "CLIENT_B2C", active |-> TRUE]
                              ELSE IF u = a THEN [role |-> "ADMIN", active |-> TRUE] ELSE None]
    BY <1>2, <2>1, <2>2 DEF init_data, Init
  <2>11. owns' = [u \in Users |-> IF u = WalkIn THEN [Nothing EXCEPT !.client = 1, !.address = 1]
                              ELSE IF u = a THEN [Nothing EXCEPT !.admin = 1] ELSE Nothing]
    BY <1>2, <2>1, <2>2 DEF init_data, Init
  <2>12. UNCHANGED <<numbers, tokens, request>>
    BY DEF init_data
  <2> QED
    BY <2>1, <2>7, <2>8, <2>9, <2>10, <2>11, <2>12 DEF FirstStart
<1>3. CASE Exists(WalkIn) /\ Administrators = {}
  <2>1. f = identity
    BY <1>1, <1>3 DEF WithLogin
  <2>2. PICK i \in Ids : NextId(identity, i) /\ identity' = [identity EXCEPT ![i] = admin]
    BY <1>1, <1>3, <2>1 DEF WithLogin
  <2>3. PhoneFree(ADMIN_PHONE, i)
    <3> SUFFICES ASSUME NEW j \in Ids \ {i}, identity[j] # None, identity[j].phone = ADMIN_PHONE
                 PROVE  FALSE
      BY DEF PhoneFree
    <3>1. identity[j].user \in Users
      BY <1>0 DEF IdentityRows
    <3>2. j \in Logins(identity[j].user)
      BY DEF Logins
    <3> QED
      BY <1>3, <3>1, <3>2 DEF Administrators
  <2>4. NewUser(a)
    BY <1>3 DEF init_data
  <2>5. owns[a] = Nothing
    BY <2>4 DEF NewUser, UserInv, LoginsSound, NoOrphans
  <2>6. user' = [user EXCEPT ![a] = [role |-> "ADMIN", active |-> TRUE]]
    BY <1>0, <1>3 DEF init_data
  <2>7. owns' = [owns EXCEPT ![a] = [Nothing EXCEPT !.admin = 1]]
    BY <1>0, <1>3, <2>5 DEF init_data
  <2>8. UNCHANGED <<numbers, tokens, request>>
    BY DEF init_data
  <2>9. ADMIN_PHONE \in Phones \union {None} /\ ADMIN_PHONE # None
    BY UsersAssumption, NoneAssumption
  <2> DEFINE things == [Nothing EXCEPT !.admin = 1]
  <2>10. AddUser(a, "ADMIN", ADMIN_PHONE, "set", things)
    BY <2>2, <2>3, <2>4, <2>6, <2>7, <2>8, <2>9 DEF AddUser
  <2>11. things \in Accounts /\ things.courier <= 1 /\ things.client <= 1 /\ things.admin <= 1
    BY DEF Nothing, Accounts
  <2>12. "ADMIN" \in Roles
    BY DEF Roles, STAFF_ROLES
  <2> HIDE DEF things
  <2> QED
    BY <1>3, <2>9, <2>10, <2>11, <2>12, SMT DEF ChangeOf
<1>4. CASE Exists(WalkIn) /\ Administrators # {}
  <2>1. f = identity
    BY <1>1, <1>4 DEF WithLogin
  <2>2. identity' = identity
    BY <1>1, <1>4, <2>1 DEF WithLogin
  <2>3. user' = user
    BY <1>0, <1>4 DEF init_data
  <2>4. owns' = [u \in Users |-> IF u \in Administrators THEN [owns[u] EXCEPT !.admin = 1] ELSE owns[u]]
    BY <1>0, <1>4 DEF init_data
  <2>5. \A u \in Administrators : Exists(u)
    BY DEF Administrators, Logins, UserInv, LoginsSound, NoOrphans
  <2>6. owns' \in [Users -> Accounts]
    BY <1>0, <2>4 DEF Accounts
  <2>7. \A u \in Users : /\ owns'[u].courier = owns[u].courier /\ owns'[u].client = owns[u].client
                         /\ owns'[u].admin \in {1, owns[u].admin}
    BY <1>0, <2>4 DEF Accounts
  <2> QED
    BY <1>4, <2>2, <2>3, <2>4, <2>5, <2>6, <2>7 DEF AccountStep, init_data
<1> QED
  BY <1>2, <1>3, <1>4

LEMMA RegisterSteps ==
  ASSUME UserInv, NEW u \in Users, Exists(WalkIn), Register(u)
  PROVE  ChangeOf(u)
<1> DEFINE courier == [Nothing EXCEPT !.courier = 1]
           client(n) == [Nothing EXCEPT !.client = 1, !.address = n]
<1>0. ASSUME NEW n \in Nat PROVE client(n) \in Accounts
  BY DEF Nothing, Accounts
<1>1. /\ courier \in Accounts /\ courier.courier = 1 /\ courier.client = 0 /\ courier.admin = 0
      /\ Nothing \in Accounts /\ Nothing.courier = 0 /\ Nothing.client = 0 /\ Nothing.admin = 0
      /\ \A n \in 0..1 : /\ client(n) \in Accounts /\ client(n).courier = 0
                          /\ client(n).client = 1 /\ client(n).admin = 0
  <2>1. courier \in Accounts /\ courier.courier = 1 /\ courier.client = 0 /\ courier.admin = 0
    BY DEF Nothing, Accounts
  <2>2. Nothing \in Accounts /\ Nothing.courier = 0 /\ Nothing.client = 0 /\ Nothing.admin = 0
    BY DEF Nothing, Accounts
  <2>3. ASSUME NEW n \in 0..1
        PROVE  client(n) \in Accounts /\ client(n).courier = 0 /\ client(n).client = 1
                 /\ client(n).admin = 0
    <3>0. n \in Nat
      OBVIOUS
    <3>1. client(n) \in Accounts
      BY <1>0, <3>0, Zenon
    <3>2. client(n).courier = 0 /\ client(n).client = 1
      BY DEF Nothing
    <3>3. client(n).admin = 0
      BY DEF Nothing
    <3> QED
      BY <3>1, <3>2, <3>3
  <2> QED
    BY <2>1, <2>2, <2>3
<1>2. /\ "COURIER" \in Roles /\ AssignableRoles \subseteq Roles /\ CLIENT_ROLES \subseteq Roles
      /\ "COURIER" \notin CLIENT_ROLES /\ CLIENT_ROLES \intersect STAFF_ROLES = {}
  BY UsersAssumption DEF Roles, CLIENT_ROLES, STAFF_ROLES
<1>3. \A p \in Phones : p # None
  BY NoneAssumption
<1> DEFINE Adds(role, p, password, things) == AddUser(u, role, p, password, things)
<1>4. \/ \E p \in Phones : \E role \in AssignableRoles :
           Adds(role, p, "set", IF role = "COURIER" THEN courier ELSE Nothing)
      \/ \E p \in Phones : Adds("COURIER", p, "set", courier)
      \/ \E p \in Phones : \E role \in CLIENT_ROLES : Adds(role, p, "set", client(1))
      \/ \E role \in CLIENT_ROLES, p \in Phones \union {None}, n \in 0..1 : Adds(role, p, "none", client(n))
  <2>1. ASSUME NEW p \in Phones, NEW role \in AssignableRoles, register_local_user(u, role, p)
        PROVE  Adds(role, p, "set", IF role = "COURIER" THEN courier ELSE Nothing)
    BY <2>1 DEF register_local_user
  <2>2. ASSUME NEW p \in Phones, create_courier(u, p) PROVE Adds("COURIER", p, "set", courier)
    BY <2>2 DEF create_courier
  <2>3. ASSUME NEW p \in Phones, NEW role \in CLIENT_ROLES, register_client(u, role, p)
        PROVE  Adds(role, p, "set", client(1))
    BY <2>3 DEF register_client
  <2>4. ASSUME NEW role \in CLIENT_ROLES, NEW p \in Phones \union {None}, NEW n \in 0..1,
               create_client(u, role, p, n)
        PROVE  Adds(role, p, "none", client(n))
    BY <2>4 DEF create_client
  <2> HIDE DEF courier, client, Adds
  <2> QED
    BY <2>1, <2>2, <2>3, <2>4, Zenon DEF Register
<1>5. ASSUME NEW role \in Roles, NEW p \in Phones \union {None}, NEW password \in {"none", "set"},
             NEW things \in Accounts, Adds(role, p, password, things),
             things.courier <= 1, things.client <= 1, things.admin <= 1,
             role = "COURIER" => things.courier = 1,
             role \in STAFF_ROLES => p # None /\ password = "set"
      PROVE  ChangeOf(u)
  BY <1>5 DEF ChangeOf
<1> HIDE DEF courier, client, Adds
<1>6. ASSUME NEW p \in Phones, NEW role \in AssignableRoles,
             Adds(role, p, "set", IF role = "COURIER" THEN courier ELSE Nothing)
      PROVE  ChangeOf(u)
  <2>1. PICK things \in Accounts : /\ things = (IF role = "COURIER" THEN courier ELSE Nothing)
                                   /\ things.courier <= 1 /\ things.client <= 1 /\ things.admin <= 1
                                   /\ role = "COURIER" => things.courier = 1
    BY <1>1
  <2>2. Adds(role, p, "set", things)
    BY <1>6, <2>1
  <2> QED
    BY <1>2, <1>3, <1>5, <2>1, <2>2
<1>7. ASSUME NEW p \in Phones, Adds("COURIER", p, "set", courier)
      PROVE  ChangeOf(u)
  <2>1. courier.courier <= 1 /\ courier.client <= 1 /\ courier.admin <= 1
    BY <1>1
  <2> QED
    BY <1>1, <1>2, <1>3, <1>5, <1>7, <2>1
<1>8. ASSUME NEW role \in CLIENT_ROLES, NEW p \in Phones \union {None}, NEW n \in 0..1,
             NEW password \in {"none", "set"}, Adds(role, p, password, client(n))
      PROVE  ChangeOf(u)
  <2>1. client(n).courier <= 1 /\ client(n).client <= 1 /\ client(n).admin <= 1
    BY <1>1
  <2> QED
    BY <1>1, <1>2, <1>5, <1>8, <2>1
<1>9. 1 \in 0..1
  OBVIOUS
<1> QED
  BY <1>4, <1>6, <1>7, <1>8, <1>9

LEMMA UpdateReadSteps ==
  ASSUME UserInv, NEW u \in Users, NEW r \in Requests, NEW d \in Updates, update_read(r, u, d)
  PROVE  RequestStep
<1>0. user \in [Users -> UserRows \union {None}] /\ request \in [Requests -> Pending \union {None}]
  BY DEF UserInv, UsersTypeOK
<1>1. PICK i \in LocalIdentity(u) :
        /\ Exists(u)
        /\ ValidStaffUpdate(IF d.role = None THEN user[u].role ELSE d.role, i, d.phone, d.password)
        /\ Read(r, [op |-> "update", user |-> u, data |-> d, identity |-> i, seen |-> user[u].role])
  BY DEF update_read
<1>2. PICK q : q = [op |-> "update", user |-> u, data |-> d, identity |-> i, seen |-> user[u].role]
  OBVIOUS
<1>3. user[u].role \in Roles
  BY <1>0, <1>1 DEF Exists, UserRows
<1>4. i \in Ids \union {None} /\ (i # None => i \in Logins(u))
  BY DEF LocalIdentity, Logins
<1>5. q \in Pending
  BY <1>2, <1>3, <1>4 DEF Pending
<1>6. Promotion(q) => Promotable(q)
  <2> SUFFICES ASSUME q.data.role \in STAFF_ROLES PROVE Promotable(q)
    BY DEF Promotion
  <2>1. d.role \in STAFF_ROLES /\ d.role # None
    BY <1>2, NoneAssumption DEF Roles
  <2>2. /\ i # None \/ d.phone # None
        /\ d.password \/ (IF i = None THEN FALSE ELSE identity[i].password # "none")
    BY <1>1, <2>1 DEF ValidStaffUpdate
  <2>3. ~d.password => i # None /\ i \in Logins(u) /\ identity[i].password # "none"
    BY <1>4, <2>2
  <2> QED
    BY <1>2, <2>2, <2>3 DEF Promotable
<1>7. \A v \in Users : ~AddsPhone(q, v)
  BY <1>2 DEF AddsPhone
<1> QED
  BY <1>1, <1>2, <1>5, <1>6, <1>7, AnyoneMeansStarted, Zenon DEF RequestStep, Read

LEMMA DeleteReadSteps ==
  ASSUME UserInv, NEW u \in Users, NEW r \in Requests, delete_staff_read(r, u)
  PROVE  RequestStep
<1>1. PICK q : q = [op |-> "delete", user |-> u]
  OBVIOUS
<1>2. q \in Pending /\ ~Promotion(q) /\ \A v \in Users : ~AddsPhone(q, v)
  BY <1>1 DEF Pending, Promotion, AddsPhone, delete_staff_read
<1>3. Exists(WalkIn)
  BY AnyoneMeansStarted DEF delete_staff_read
<1> QED
  BY <1>1, <1>2, <1>3, Zenon DEF RequestStep, Read, delete_staff_read

LEMMA PhoneReadSteps ==
  ASSUME UserInv, NEW u \in Users, NEW r \in Requests, NEW p \in Phones,
         \/ add_phone_read(r, u, p)
         \/ \E n \in numbers : update_phone_read(r, n, p)
  PROVE  RequestStep
<1>0. numbers \subseteq NumberRows
  BY DEF UserInv, UsersTypeOK
<1>1. CASE add_phone_read(r, u, p)
  <2>1. PICK q : q = [op |-> "phone", user |-> u, phone |-> p]
    OBVIOUS
  <2>2. q \in Pending /\ ~Promotion(q) /\ \A v \in Users : AddsPhone(q, v) => v = u
    BY <2>1 DEF Pending, Promotion, AddsPhone
  <2>3. Exists(WalkIn)
    BY <1>1, AnyoneMeansStarted DEF add_phone_read, Active
  <2> QED
    BY <1>1, <2>1, <2>2, <2>3, Zenon DEF RequestStep, Read, add_phone_read
<1>2. CASE \E n \in numbers : update_phone_read(r, n, p)
  <2>1. PICK n \in numbers : update_phone_read(r, n, p)
    BY <1>2
  <2>2. PICK q : q = [op |-> "rephone", old |-> n, phone |-> p]
    OBVIOUS
  <2>3. q \in Pending /\ ~Promotion(q) /\ \A v \in Users : ~AddsPhone(q, v)
    BY <1>0, <2>2 DEF Pending, Promotion, AddsPhone
  <2>4. Exists(n.user) /\ n.user \in Users
    BY <1>0 DEF UserInv, LoginsSound, NoOrphans, NumberRows
  <2>5. Exists(WalkIn)
    BY <2>4, AnyoneMeansStarted
  <2> QED
    BY <2>1, <2>2, <2>3, <2>5, Zenon DEF RequestStep, Read, update_phone_read
<1> QED
  BY <1>1, <1>2

LEMMA InventorySteps ==
  ASSUME UserInv, NEW u \in Users, create_client_inventory(u) \/ create_courier_inventory(u)
  PROVE  AccountStep
<1>1. owns \in [Users -> Accounts]
  BY DEF UserInv, UsersTypeOK, Accounts
<1>2. Exists(u) /\ Exists(WalkIn)
  BY AnyoneMeansStarted DEF create_client_inventory, create_courier_inventory, Active
<1> QED
  BY <1>1, <1>2 DEF create_client_inventory, create_courier_inventory, AccountStep, Accounts

LEMMA NumbersFinite ==
  ASSUME UserInv, NEW u
  PROVE  /\ IsFiniteSet(NumbersOf(u)) /\ Cardinality(NumbersOf(u)) \in Nat
         /\ IsFiniteSet(Adding(u)) /\ Cardinality(Adding(u)) \in Nat
<1>1. NumbersOf(u) \in SUBSET numbers /\ Adding(u) \in SUBSET Requests
  BY DEF NumbersOf, Adding
<1>2. IsFiniteSet(numbers) /\ IsFiniteSet(Requests)
  BY UsersAssumption DEF UserInv
<1> QED
  BY <1>1, <1>2, FS_Subset, FS_CardinalityType

LEMMA AddPhoneStep ==
  ASSUME UserInv, NEW r \in Requests, add_phone(r)
  PROVE  NumberStep
<1>0. request \in [Requests -> Pending \union {None}] /\ numbers \subseteq NumberRows
  BY DEF UserInv, UsersTypeOK
<1>1. PICK q : /\ q = request[r] /\ q # None /\ q.op = "phone" /\ Exists(q.user)
               /\ numbers' = numbers \union {[user |-> q.user, phone |-> q.phone]}
               /\ request' = [request EXCEPT ![r] = None]
               /\ UNCHANGED <<user, identity, owns, tokens>>
  BY DEF add_phone
<1>2. q \in Pending
  BY <1>0, <1>1
<1>3. q.user \in Users /\ q.phone \in Phones
  BY <1>1, <1>2 DEF Pending
<1>4. PICK n : n = [user |-> q.user, phone |-> q.phone]
  OBVIOUS
<1>5. n \in NumberRows /\ n.user = q.user /\ numbers' = numbers \union {n}
  BY <1>1, <1>3, <1>4 DEF NumberRows
<1>6. \A m \in numbers : Exists(m.user)
  BY DEF UserInv, LoginsSound, NoOrphans
<1>7. IsFiniteSet(numbers')
  BY <1>5, FS_AddElement DEF UserInv
<1>8. ASSUME NEW u \in Users
      PROVE  Cardinality(NumbersOf(u))' + Cardinality(Adding(u))'
               <= Cardinality(NumbersOf(u)) + Cardinality(Adding(u))
  <2>1. CASE u = q.user
    <3>1. NumbersOf(u)' = NumbersOf(u) \union {n}
      BY <1>5, <2>1 DEF NumbersOf
    <3>2. r \in Adding(u) /\ Adding(u)' = Adding(u) \ {r}
      BY <1>0, <1>1, <2>1 DEF Adding, AddsPhone
    <3>3. Cardinality(NumbersOf(u) \union {n}) <= Cardinality(NumbersOf(u)) + 1
      BY NumbersFinite, FS_AddElement
    <3>4. Cardinality(Adding(u) \ {r}) = Cardinality(Adding(u)) - 1
      BY <3>2, NumbersFinite, FS_RemoveElement
    <3>5. Cardinality(NumbersOf(u) \union {n}) \in Nat
      BY NumbersFinite, FS_AddElement, FS_CardinalityType
    <3> QED
      BY <3>1, <3>2, <3>3, <3>4, <3>5, NumbersFinite
  <2>2. CASE u # q.user
    <3>1. NumbersOf(u)' = NumbersOf(u)
      BY <1>5, <2>2 DEF NumbersOf
    <3>2. Adding(u)' = Adding(u)
      BY <1>0, <1>1, <2>2 DEF Adding, AddsPhone
    <3> QED
      BY <3>1, <3>2, NumbersFinite
  <2> QED
    BY <2>1, <2>2
<1>9. Exists(WalkIn)
  BY <1>1, <1>3, AnyoneMeansStarted
<1> QED
  BY <1>0, <1>1, <1>5, <1>6, <1>7, <1>8, <1>9 DEF NumberStep

LEMMA UpdatePhoneStep ==
  ASSUME UserInv, NEW r \in Requests, update_phone(r)
  PROVE  NumberStep
<1>0. request \in [Requests -> Pending \union {None}] /\ numbers \subseteq NumberRows
  BY DEF UserInv, UsersTypeOK
<1>1. PICK q : /\ q = request[r] /\ q # None /\ q.op = "rephone" /\ q.old \in numbers
               /\ numbers' = (numbers \ {q.old}) \union {[q.old EXCEPT !.phone = q.phone]}
               /\ request' = [request EXCEPT ![r] = None]
               /\ UNCHANGED <<user, identity, owns, tokens>>
  BY DEF update_phone
<1>2. q \in Pending
  BY <1>0, <1>1
<1>3. q.phone \in Phones
  BY <1>1, <1>2 DEF Pending
<1>4. PICK n : n = [q.old EXCEPT !.phone = q.phone]
  OBVIOUS
<1>5. n \in NumberRows /\ n.user = q.old.user /\ numbers' = (numbers \ {q.old}) \union {n}
  BY <1>0, <1>1, <1>3, <1>4 DEF NumberRows
<1>6. \A m \in numbers : Exists(m.user)
  BY DEF UserInv, LoginsSound, NoOrphans
<1>7. IsFiniteSet(numbers')
  BY <1>5, FS_AddElement, FS_RemoveElement DEF UserInv
<1>8. ASSUME NEW u \in Users
      PROVE  Cardinality(NumbersOf(u))' + Cardinality(Adding(u))'
               <= Cardinality(NumbersOf(u)) + Cardinality(Adding(u))
  <2>0. Adding(u)' = Adding(u)
    BY <1>0, <1>1 DEF Adding, AddsPhone
  <2>1. CASE u = q.old.user
    <3>1. NumbersOf(u)' = (NumbersOf(u) \ {q.old}) \union {n} /\ q.old \in NumbersOf(u)
      BY <1>1, <1>5, <2>1 DEF NumbersOf
    <3>2. /\ IsFiniteSet(NumbersOf(u) \ {q.old})
          /\ Cardinality(NumbersOf(u) \ {q.old}) = Cardinality(NumbersOf(u)) - 1
      BY <3>1, NumbersFinite, FS_RemoveElement
    <3>3. PICK rest : rest = NumbersOf(u) \ {q.old}
      OBVIOUS
    <3>4. /\ IsFiniteSet(rest \union {n})
          /\ Cardinality(rest \union {n}) = IF n \in rest THEN Cardinality(rest) ELSE Cardinality(rest) + 1
      BY <3>2, <3>3, FS_AddElement
    <3>5. Cardinality(rest \union {n}) \in Nat
      BY <3>4, FS_CardinalityType
    <3>6. Cardinality(rest \union {n}) <= Cardinality(NumbersOf(u))
      BY <3>2, <3>3, <3>4, NumbersFinite
    <3> QED
      BY <2>0, <3>1, <3>3, <3>5, <3>6, NumbersFinite
  <2>2. CASE u # q.old.user
    <3>1. \A m : m \in NumbersOf(u)' <=> m \in NumbersOf(u)
      BY <1>5, <2>2 DEF NumbersOf
    <3>2. NumbersOf(u)' = NumbersOf(u)
      BY <3>1
    <3> QED
      BY <2>0, <3>2, NumbersFinite
  <2> QED
    BY <2>1, <2>2
<1>9. Exists(WalkIn)
  BY <1>0, <1>1, <1>6, AnyoneMeansStarted DEF NumberRows
<1> QED
  BY <1>0, <1>1, <1>5, <1>6, <1>7, <1>8, <1>9 DEF NumberStep

LEMMA RemovePhoneStep ==
  ASSUME UserInv, NEW n \in numbers, remove_phone(n)
  PROVE  NumberStep
<1>0. numbers \subseteq NumberRows /\ \A m \in numbers : Exists(m.user)
  BY DEF UserInv, UsersTypeOK, LoginsSound, NoOrphans
<1>1. IsFiniteSet(numbers')
  BY FS_RemoveElement DEF UserInv, remove_phone
<1>2. ASSUME NEW u \in Users
      PROVE  Cardinality(NumbersOf(u))' + Cardinality(Adding(u))'
               <= Cardinality(NumbersOf(u)) + Cardinality(Adding(u))
  <2>1. Adding(u)' = Adding(u) /\ NumbersOf(u)' \in SUBSET NumbersOf(u)
    BY DEF remove_phone, Adding, NumbersOf
  <2>2. Cardinality(NumbersOf(u)') <= Cardinality(NumbersOf(u)) /\ Cardinality(NumbersOf(u)') \in Nat
    BY <2>1, NumbersFinite, FS_Subset, FS_CardinalityType
  <2> QED
    BY <2>1, <2>2, NumbersFinite
<1>3. Exists(WalkIn)
  BY <1>0, AnyoneMeansStarted DEF NumberRows
<1> QED
  BY <1>0, <1>1, <1>2, <1>3 DEF NumberStep, remove_phone

LEMMA StepCases ==
  ASSUME UserInv, Next
  PROVE  \/ AccountStep \/ TokenStep \/ RequestStep \/ NumberStep
         \/ \E u \in Users : FirstStart(u) \/ ChangeOf(u)
         \/ \E r \in Requests : update(r) \/ delete_staff(r)
<1>0. tokens \subseteq [sub : Users, role : Roles] /\ Edited \subseteq Users
  BY UsersAssumption DEF UserInv, UsersTypeOK
<1>1. ASSUME NEW u, BackOffice(u) PROVE Exists(WalkIn)
  BY <1>0, <1>1, AnyoneMeansStarted DEF BackOffice, get_current_user, Active
<1>2. ASSUME NEW a \in Users, init_data(a)
      PROVE  FirstStart(a) \/ AccountStep \/ ChangeOf(a)
  BY <1>2, StartUpSteps
<1>3. ASSUME Login PROVE TokenStep
  <2>1. PICK u \in Users : LogIn(u, STAFF_ROLES) \/ LogIn(u, CLIENT_ROLES)
    BY <1>3 DEF Login, local_login, client_login
  <2>2. Exists(u) /\ user[u] \in UserRows
    BY <2>1 DEF LogIn, Active, UserInv, UsersTypeOK, Exists
  <2>3. user[u].role \in Roles /\ Exists(WalkIn)
    BY <2>2, AnyoneMeansStarted DEF UserRows
  <2> QED
    BY <1>0, <2>1, <2>3 DEF LogIn, TokenStep
<1>4. ASSUME NEW t \in tokens, TokenExpires(t) PROVE TokenStep
  <2>1. Exists(WalkIn)
    BY DEF UserInv, StartedUp, Init
  <2> QED
    BY <1>0, <1>4, <2>1 DEF TokenExpires, TokenStep
<1>5. ASSUME NEW u \in Users, Exists(WalkIn), Block(u)
      PROVE  ChangeOf(u) \/ RequestStep
  BY <1>5, UpdateReadSteps, DeleteReadSteps DEF Block, ChangeOf
<1>6. ASSUME NEW u \in Users, Edit(u) PROVE AccountStep \/ RequestStep
  BY <1>6, UpdateReadSteps, PhoneReadSteps, InventorySteps DEF Edit
<1>7. ASSUME NEW r \in Requests, RolledBack(r) PROVE RequestStep
  <2>1. Exists(WalkIn)
    BY <1>7 DEF RolledBack, UserInv, StartedUp, Init
  <2>2. ~Promotion(None) /\ \A u \in Users : ~AddsPhone(None, u)
    BY DEF Promotion, AddsPhone
  <2>3. None \in Pending \union {None}
    OBVIOUS
  <2> QED
    BY <1>7, <2>1, <2>2, <2>3, Zenon DEF RolledBack, RequestStep
<1>8. CASE \E a \in Users : init_data(a)
  BY <1>2, <1>8
<1>9. CASE Login \/ \E t \in tokens : TokenExpires(t)
  BY <1>3, <1>4, <1>9
<1>10. CASE \E u \in Users : BackOffice(u) /\ Block(u)
  BY <1>1, <1>5, <1>10
<1>11. CASE \E u \in Edited : BackOffice(u) /\ (Register(u) \/ Edit(u))
  BY <1>0, <1>1, <1>6, <1>11, RegisterSteps
<1>12. CASE \E r \in Requests :
         update(r) \/ delete_staff(r) \/ add_phone(r) \/ update_phone(r) \/ RolledBack(r)
  BY <1>7, <1>12, AddPhoneStep, UpdatePhoneStep
<1>13. CASE \E n \in numbers : remove_phone(n)
  BY <1>13, RemovePhoneStep
<1> QED
  BY <1>8, <1>9, <1>10, <1>11, <1>12, <1>13 DEF Next

-----------------------------------------------------------------------------
(* Every step keeps the invariant *)

\* What is only about users and logins.
LEMMA QuietStep ==
  ASSUME UserInv, Exists(WalkIn), UNCHANGED <<user, identity>>
  PROVE  /\ StartedUp' /\ OneLoginPerPhone' /\ OnlyWalkInDisabled' /\ StaffCanLogIn'
         /\ \A q : Promotable(q)' <=> Promotable(q)
         /\ \A u : Exists(u)' <=> Exists(u)
<1>1. \A u : Logins(u)' = Logins(u)
  BY DEF Logins
<1>2. \A u : Exists(u)' <=> Exists(u)
  BY DEF Exists
<1>3. StartedUp'
  BY <1>2 DEF StartedUp
<1>4. OneLoginPerPhone' /\ OnlyWalkInDisabled'
  BY DEF UserInv, LoginsSound, OneLoginPerPhone, OnlyWalkInDisabled
<1>5. StaffCanLogIn'
  BY <1>1, <1>2 DEF UserInv, StaffCanLogIn
<1>6. \A q : Promotable(q)' <=> Promotable(q)
  BY <1>1, <1>2 DEF Promotable
<1> QED
  BY <1>2, <1>3, <1>4, <1>5, <1>6

LEMMA AccountInv ==
  ASSUME UserInv, AccountStep
  PROVE  UserInv'
<1>0. UNCHANGED <<user, identity, numbers, tokens, request>> /\ Exists(WalkIn)
  BY DEF AccountStep
<1>1. UsersTypeOK' /\ IsFiniteSet(numbers')
  BY <1>0 DEF UserInv, UsersTypeOK, AccountStep, Accounts
<1>2. NoOrphans'
  BY <1>0, QuietStep DEF UserInv, LoginsSound, NoOrphans, AccountStep
<1>3. PendingPromotions'
  BY <1>0, QuietStep DEF UserInv, PendingPromotions
<1>4. OneAccountOfEachKind'
  BY <1>0, QuietStep DEF UserInv, OneAccountOfEachKind, AccountStep
<1>5. PhoneRoom'
  BY <1>0 DEF UserInv, PhoneRoom, NumbersOf, Adding
<1> QED
  BY <1>0, <1>1, <1>2, <1>3, <1>4, <1>5, QuietStep DEF UserInv, LoginsSound

LEMMA TokenInv ==
  ASSUME UserInv, TokenStep
  PROVE  UserInv'
<1>0. UNCHANGED <<user, identity, numbers, owns, request>> /\ Exists(WalkIn)
  BY DEF TokenStep
<1>1. UsersTypeOK' /\ IsFiniteSet(numbers')
  BY <1>0 DEF UserInv, UsersTypeOK, TokenStep
<1>2. NoOrphans'
  BY <1>0, QuietStep DEF UserInv, LoginsSound, NoOrphans
<1>3. PendingPromotions'
  BY <1>0, QuietStep DEF UserInv, PendingPromotions
<1>4. OneAccountOfEachKind'
  BY <1>0, QuietStep DEF UserInv, OneAccountOfEachKind
<1>5. PhoneRoom'
  BY <1>0 DEF UserInv, PhoneRoom, NumbersOf, Adding
<1> QED
  BY <1>0, <1>1, <1>2, <1>3, <1>4, <1>5, QuietStep DEF UserInv, LoginsSound

LEMMA RequestInv ==
  ASSUME UserInv, RequestStep
  PROVE  UserInv'
<1>0. PICK r \in Requests, q \in Pending \union {None} :
        /\ request' = [request EXCEPT ![r] = q]
        /\ Promotion(q) => Promotable(q)
        /\ \A u \in Users : AddsPhone(q, u) => BelowLimit(u)
        /\ Exists(WalkIn)
        /\ UNCHANGED <<user, identity, numbers, owns, tokens>>
  BY DEF RequestStep
<1>1. request \in [Requests -> Pending \union {None}]
  BY DEF UserInv, UsersTypeOK
<1>2. \A s \in Requests : request'[s] = IF s = r THEN q ELSE request[s]
  BY <1>0, <1>1
<1>3. UsersTypeOK' /\ IsFiniteSet(numbers') /\ NoOrphans'
  <2>1. request' \in [Requests -> Pending \union {None}]
    BY <1>0, <1>1
  <2>2. NoOrphans'
    BY <1>0, QuietStep DEF UserInv, LoginsSound, NoOrphans
  <2> QED
    BY <1>0, <2>1, <2>2 DEF UserInv, UsersTypeOK
<1>4. PendingPromotions'
  <2>1. \A p : Promotable(p)' <=> Promotable(p)
    BY <1>0, QuietStep
  <2>2. \A s \in Requests : request'[s] \in {q, request[s]}
    BY <1>2
  <2> QED
    BY <1>0, <2>1, <2>2 DEF UserInv, PendingPromotions, Promotion
<1>5. OneAccountOfEachKind'
  BY <1>0, QuietStep DEF UserInv, OneAccountOfEachKind
<1>6. PhoneRoom'
  <2> SUFFICES ASSUME NEW u \in Users
               PROVE  Cardinality(NumbersOf(u)') + Cardinality(Adding(u)') + 1
                        <= MAX_ADDITIONAL_PHONES + Cardinality(Requests)
    BY DEF PhoneRoom
  <2>1. NumbersOf(u)' = NumbersOf(u) /\ Adding(u)' \in SUBSET Requests
    BY <1>0 DEF NumbersOf, Adding
  <2>2. /\ Cardinality(Requests) \in Nat /\ MAX_ADDITIONAL_PHONES \in Nat
        /\ IsFiniteSet(Adding(u)')
        /\ Cardinality(Adding(u)') \in Nat /\ Cardinality(Adding(u)') <= Cardinality(Requests)
    BY <2>1, UsersAssumption, FS_Subset, FS_CardinalityType
  <2>3. CASE AddsPhone(q, u)
    <3>1. Cardinality(NumbersOf(u)) < MAX_ADDITIONAL_PHONES
      BY <1>0, <2>3 DEF BelowLimit, count_by_user, NumbersOf
    <3> QED
      BY <2>1, <2>2, <3>1, NumbersFinite
  <2>4. CASE ~AddsPhone(q, u)
    <3>1. Adding(u)' \in SUBSET Adding(u)
      BY <1>2, <2>4 DEF Adding, AddsPhone
    <3>2. Cardinality(Adding(u)') <= Cardinality(Adding(u))
      BY <3>1, NumbersFinite, FS_Subset
    <3>3. Cardinality(NumbersOf(u)) + Cardinality(Adding(u)) + 1
            <= MAX_ADDITIONAL_PHONES + Cardinality(Requests)
      BY DEF UserInv, PhoneRoom
    <3> QED
      BY <2>1, <2>2, <3>2, <3>3, NumbersFinite
  <2> QED
    BY <2>3, <2>4
<1> QED
  BY <1>0, <1>3, <1>4, <1>5, <1>6, QuietStep DEF UserInv, LoginsSound

LEMMA NumberInv ==
  ASSUME UserInv, NumberStep
  PROVE  UserInv'
<1>0. UNCHANGED <<user, identity, owns, tokens>> /\ Exists(WalkIn)
  BY DEF NumberStep
<1>1. request' = request \/ \E r \in Requests : request' = [request EXCEPT ![r] = None]
  BY DEF NumberStep
<1>2. request \in [Requests -> Pending \union {None}]
  BY DEF UserInv, UsersTypeOK
<1>3. UsersTypeOK' /\ IsFiniteSet(numbers')
  <2>1. request' \in [Requests -> Pending \union {None}]
    BY <1>1, <1>2
  <2> QED
    BY <1>0, <2>1 DEF UserInv, UsersTypeOK, NumberStep
<1>4. NoOrphans'
  BY <1>0, QuietStep DEF UserInv, LoginsSound, NoOrphans, NumberStep
<1>5. PendingPromotions'
  <2>1. \A s \in Requests : request'[s] \in {None, request[s]}
    BY <1>1, <1>2
  <2>2. \A p : Promotable(p)' <=> Promotable(p)
    BY <1>0, QuietStep
  <2> QED
    BY <2>1, <2>2 DEF UserInv, PendingPromotions, Promotion
<1>6. OneAccountOfEachKind'
  BY <1>0, QuietStep DEF UserInv, OneAccountOfEachKind
<1>7. PhoneRoom'
  <2> SUFFICES ASSUME NEW u \in Users
               PROVE  Cardinality(NumbersOf(u)') + Cardinality(Adding(u)') + 1
                        <= MAX_ADDITIONAL_PHONES + Cardinality(Requests)
    BY DEF PhoneRoom
  <2>1. NumbersOf(u)' \in SUBSET numbers' /\ Adding(u)' \in SUBSET Requests
    BY DEF NumbersOf, Adding
  <2>2. /\ Cardinality(Requests) \in Nat /\ MAX_ADDITIONAL_PHONES \in Nat
        /\ Cardinality(Adding(u)') \in Nat /\ Cardinality(NumbersOf(u)') \in Nat
    BY <1>3, <2>1, UsersAssumption, FS_Subset, FS_CardinalityType
  <2>3. Cardinality(NumbersOf(u)) + Cardinality(Adding(u)) + 1
          <= MAX_ADDITIONAL_PHONES + Cardinality(Requests)
    BY DEF UserInv, PhoneRoom
  <2>4. Cardinality(NumbersOf(u)') + Cardinality(Adding(u)')
          <= Cardinality(NumbersOf(u)) + Cardinality(Adding(u))
    BY DEF NumberStep
  <2> QED
    BY <2>2, <2>3, <2>4, NumbersFinite
<1> QED
  BY <1>0, <1>3, <1>4, <1>5, <1>6, <1>7, QuietStep DEF UserInv, LoginsSound

LEMMA FirstStartInv ==
  ASSUME UserInv, NEW a \in Users, FirstStart(a)
  PROVE  UserInv'
<1> DEFINE walkin == [user |-> WalkIn, phone |-> WALKIN_PHONE, password |-> "disabled"]
           admin  == [user |-> a, phone |-> ADMIN_PHONE, password |-> "set"]
<1>0. a # System /\ a # WalkIn /\ System # WalkIn /\ System \in Users /\ WalkIn \in Users
  BY UsersAssumption DEF FirstStart, Protected
<1>1. UNCHANGED <<numbers, tokens, request>> /\ numbers = {} /\ request = [r \in Requests |-> None]
  BY DEF FirstStart, Init
<1>2. PICK i \in Ids : \E j \in Ids : i # j /\ identity' = [k \in Ids |->
        IF k = i THEN walkin ELSE IF k = j THEN admin ELSE None]
  BY DEF FirstStart
<1>3. PICK j \in Ids : i # j /\ identity' = [k \in Ids |->
        IF k = i THEN walkin ELSE IF k = j THEN admin ELSE None]
  BY <1>2
<1>4. walkin \in IdentityRows /\ admin \in IdentityRows /\ walkin # None /\ admin # None
  BY <1>0, UsersAssumption, NoneAssumption DEF IdentityRows
<1>5. \A k \in Ids : identity'[k] # None => k \in {i, j}
  BY <1>3
<1>6. identity'[i] = walkin /\ identity'[j] = admin
  BY <1>3
<1>7. /\ user' \in [Users -> UserRows \union {None}]
      /\ user'[WalkIn] = [role |-> "CLIENT_B2C", active |-> TRUE] /\ user'[WalkIn] # None
      /\ user'[a] = [role |-> "ADMIN", active |-> TRUE] /\ user'[a] # None
      /\ user'[System] = [role |-> "SYSTEM", active |-> TRUE] /\ user'[System] # None
      /\ \A u \in Users \ {System, WalkIn, a} : user'[u] = None
  <2>1. \A role \in Roles : [role |-> role, active |-> TRUE] \in UserRows
    BY DEF UserRows
  <2>2. "SYSTEM" \in Roles /\ "CLIENT_B2C" \in Roles /\ "ADMIN" \in Roles
    BY DEF Roles, STAFF_ROLES, CLIENT_ROLES
  <2> QED
    BY <1>0, <2>1, <2>2, NoneAssumption DEF FirstStart
<1>8. /\ owns' \in [Users -> Accounts]
      /\ \A u \in Users : owns'[u].courier = 0 /\ owns'[u].client <= 1 /\ owns'[u].admin <= 1
      /\ \A u \in Users \ {WalkIn, a} : owns'[u] = Nothing
  <2>1. PICK x : x = [Nothing EXCEPT !.client = 1, !.address = 1]
    OBVIOUS
  <2>2. PICK y : y = [Nothing EXCEPT !.admin = 1]
    OBVIOUS
  <2>3. x \in Accounts /\ x.courier = 0 /\ x.client = 1 /\ x.admin = 0
    BY <2>1 DEF Nothing, Accounts
  <2>4. y \in Accounts /\ y.courier = 0 /\ y.client = 0 /\ y.admin = 1
    BY <2>2 DEF Nothing, Accounts
  <2>5. Nothing \in Accounts /\ Nothing.courier = 0 /\ Nothing.client = 0 /\ Nothing.admin = 0
    BY DEF Nothing, Accounts
  <2>6. owns' = [u \in Users |-> IF u = WalkIn THEN x ELSE IF u = a THEN y ELSE Nothing]
    BY <2>1, <2>2 DEF FirstStart
  <2> HIDE DEF walkin, admin
  <2> QED
    BY <2>3, <2>4, <2>5, <2>6
<1> HIDE DEF walkin, admin
<1>9. UsersTypeOK' /\ IsFiniteSet(numbers')
  <2>1. identity' \in [Ids -> IdentityRows \union {None}]
    BY <1>3, <1>4
  <2> QED
    BY <1>1, <1>7, <1>8, <2>1 DEF UserInv, UsersTypeOK, Accounts
<1>10. NoOrphans' /\ OneLoginPerPhone' /\ OnlyWalkInDisabled'
  <2>1. walkin.user = WalkIn /\ walkin.phone = WALKIN_PHONE /\ admin.user = a
        /\ admin.phone = ADMIN_PHONE /\ admin.password = "set"
    BY DEF walkin, admin
  <2>2. NoOrphans'
    BY <1>1, <1>5, <1>6, <1>7, <1>8, <2>1 DEF NoOrphans, Exists
  <2>3. OneLoginPerPhone' /\ OnlyWalkInDisabled'
    BY <1>5, <1>6, <2>1, UsersAssumption DEF OneLoginPerPhone, OnlyWalkInDisabled
  <2> QED
    BY <2>2, <2>3
<1>11. StaffCanLogIn'
  <2> SUFFICES ASSUME NEW u \in Users \ Protected, Exists(u)'
               PROVE  \E k \in Logins(u)' : identity'[k].password = "set"
    BY DEF StaffCanLogIn
  <2>1. u = a
    BY <1>7 DEF Exists, Protected
  <2>2. admin.user = a /\ admin.password = "set"
    BY DEF admin
  <2> QED
    BY <1>4, <1>6, <2>1, <2>2 DEF Logins
<1>12. PendingPromotions' /\ PhoneRoom'
  BY <1>1 DEF PendingPromotions, Promotion, UserInv, PhoneRoom, NumbersOf, Adding
<1>13. OneAccountOfEachKind'
  BY <1>0, <1>7, <1>8 DEF OneAccountOfEachKind, Exists
<1>14. StartedUp'
  BY <1>7 DEF StartedUp, Exists
<1> QED
  BY <1>9, <1>10, <1>11, <1>12, <1>13, <1>14 DEF UserInv, LoginsSound

LEMMA ArchiveInv ==
  ASSUME UserInv, NEW u \in Users, archive(u)
  PROVE  UserInv'
<1>0. user \in [Users -> UserRows \union {None}] /\ user[u] \in UserRows /\ Exists(u)
  BY DEF UserInv, UsersTypeOK, archive, Active, Exists
<1>1. PICK row : row = [user[u] EXCEPT !.active = FALSE]
  OBVIOUS
<1>2. row \in UserRows /\ row.role = user[u].role /\ user' = [user EXCEPT ![u] = row]
  BY <1>0, <1>1 DEF archive, UserRows
<1>3. \A v \in Users : /\ Exists(v)' <=> Exists(v)
                       /\ Exists(v) => user'[v].role = user[v].role
  BY <1>0, <1>2, NoneAssumption DEF Exists
<1>4. UNCHANGED <<identity, numbers, owns, tokens, request>>
  BY DEF archive
<1>5. \A v : Logins(v)' = Logins(v)
  BY <1>4 DEF Logins
<1>6. UsersTypeOK' /\ IsFiniteSet(numbers')
  BY <1>0, <1>2, <1>4 DEF UserInv, UsersTypeOK
<1>7. StartedUp'
  BY <1>0, <1>3, AnyoneMeansStarted, UsersAssumption DEF StartedUp
<1>8. NoOrphans'
  <2>1. \A i \in Ids : identity[i] # None => identity[i].user \in Users
    BY DEF UserInv, UsersTypeOK, IdentityRows
  <2>2. \A n \in numbers : n.user \in Users
    BY DEF UserInv, UsersTypeOK, NumberRows
  <2> QED
    BY <1>3, <1>4, <2>1, <2>2 DEF UserInv, LoginsSound, NoOrphans
<1>9. OneLoginPerPhone' /\ OnlyWalkInDisabled'
  BY <1>4 DEF UserInv, LoginsSound, OneLoginPerPhone, OnlyWalkInDisabled
<1>10. StaffCanLogIn'
  BY <1>3, <1>4, <1>5 DEF UserInv, StaffCanLogIn
<1>11. PendingPromotions'
  <2> SUFFICES ASSUME NEW s \in Requests, Promotion(request[s])
               PROVE  Promotable(request[s])'
    BY <1>4 DEF PendingPromotions, Promotion
  <2>1. request[s] \in Pending
    BY DEF UserInv, UsersTypeOK, Promotion
  <2>2. request[s].user \in Users
    BY <2>1 DEF Promotion, Pending
  <2>3. Promotable(request[s])
    BY DEF UserInv, PendingPromotions
  <2> QED
    BY <1>3, <1>4, <1>5, <2>2, <2>3 DEF Promotable
<1>12. OneAccountOfEachKind'
  BY <1>3, <1>4 DEF UserInv, OneAccountOfEachKind
<1>13. PhoneRoom'
  BY <1>4 DEF UserInv, PhoneRoom, NumbersOf, Adding
<1> QED
  BY <1>6, <1>7, <1>8, <1>9, <1>10, <1>11, <1>12, <1>13 DEF UserInv, LoginsSound

\* The user of a pending promotion, for the steps that follow.
LEMMA PromotionUser ==
  ASSUME UserInv, NEW s \in Requests, Promotion(request[s])
  PROVE  request[s] \in Pending /\ request[s].user \in Users /\ Promotable(request[s])
<1>1. request[s] \in Pending
  BY DEF UserInv, UsersTypeOK, Promotion
<1> QED
  BY <1>1 DEF Promotion, Pending, UserInv, PendingPromotions

LEMMA DeleteInv ==
  ASSUME UserInv, NEW r \in Requests, delete_staff(r)
  PROVE  UserInv'
<1>0. /\ user \in [Users -> UserRows \union {None}] /\ identity \in [Ids -> IdentityRows \union {None}]
      /\ numbers \subseteq NumberRows /\ request \in [Requests -> Pending \union {None}]
  BY DEF UserInv, UsersTypeOK
<1>q. PICK u : u = request[r].user
  OBVIOUS
<1>u. u \in Users /\ u # WalkIn
  <2>1. request[r] \in Pending /\ request[r].op = "delete"
    BY <1>0 DEF delete_staff
  <2> QED
    BY <1>q, <2>1 DEF Pending, Protected
<1>1. Exists(u) /\ owns[u] = Nothing
  BY <1>q DEF delete_staff, Deletable
<1>2. /\ user' = [user EXCEPT ![u] = None]
      /\ identity' = [i \in Ids |-> IF i \in Logins(u) THEN None ELSE identity[i]]
      /\ numbers' = {n \in numbers : n.user # u}
      /\ request' = [request EXCEPT ![r] = None]
      /\ UNCHANGED <<owns, tokens>>
  BY <1>q DEF delete_staff
<1>r. /\ \A s \in Requests : request'[s] = IF s = r THEN None ELSE request[s]
      /\ \A v \in Users : ~AddsPhone(request[r], v)
  BY <1>0 DEF delete_staff, AddsPhone
<1>3. \A v \in Users : /\ Exists(v)' <=> Exists(v) /\ v # u
                       /\ Exists(v)' => user'[v] = user[v]
  BY <1>0, <1>2, <1>u DEF Exists
<1>4. \A i \in Ids : identity'[i] # None =>
        identity'[i] = identity[i] /\ identity[i].user # u /\ identity[i].user \in Users
  BY <1>0, <1>2 DEF Logins, IdentityRows
<1>5. \A v \in Users \ {u} : \A i \in Logins(v) : i \in Logins(v)' /\ identity'[i] = identity[i]
  BY <1>2 DEF Logins
<1>6. UsersTypeOK'
  <2>1. user' \in [Users -> UserRows \union {None}] /\ identity' \in [Ids -> IdentityRows \union {None}]
    BY <1>0, <1>2
  <2>2. request' \in [Requests -> Pending \union {None}]
    BY <1>0, <1>2
  <2> QED
    BY <1>0, <1>2, <2>1, <2>2 DEF UserInv, UsersTypeOK
<1>7. IsFiniteSet(numbers')
  <2>1. numbers' \in SUBSET numbers
    BY <1>2
  <2> QED
    BY <2>1, FS_Subset DEF UserInv
<1>8. StartedUp'
  BY <1>1, <1>3, <1>u, AnyoneMeansStarted, UsersAssumption DEF StartedUp
<1>9. NoOrphans'
  <2>1. \A n \in numbers' : n.user # u /\ n.user \in Users /\ Exists(n.user)
    BY <1>0, <1>2 DEF NumberRows, UserInv, LoginsSound, NoOrphans
  <2>2. \A i \in Ids : identity'[i] # None => user'[identity'[i].user] # None
    <3> SUFFICES ASSUME NEW i \in Ids, identity'[i] # None PROVE user'[identity'[i].user] # None
      OBVIOUS
    <3>1. Exists(identity[i].user)
      BY <1>4 DEF UserInv, LoginsSound, NoOrphans
    <3> QED
      BY <1>0, <1>2, <1>4, <3>1 DEF Exists
  <2>3. \A n \in numbers' : user'[n.user] # None
    BY <1>0, <1>2, <2>1 DEF Exists
  <2>4. \A v \in Users : ~Exists(v)' => owns'[v] = Nothing
    BY <1>1, <1>2, <1>3 DEF UserInv, LoginsSound, NoOrphans
  <2> QED
    BY <2>2, <2>3, <2>4 DEF NoOrphans, Exists
<1>10. OneLoginPerPhone' /\ OnlyWalkInDisabled'
  BY <1>4 DEF UserInv, LoginsSound, OneLoginPerPhone, OnlyWalkInDisabled
<1>11. StaffCanLogIn'
  <2> SUFFICES ASSUME NEW v \in Users \ Protected, Exists(v)', user'[v].role \in STAFF_ROLES
               PROVE  \E i \in Logins(v)' : identity'[i].password = "set"
    BY DEF StaffCanLogIn
  <2>1. Exists(v) /\ v # u /\ user[v].role \in STAFF_ROLES
    BY <1>3
  <2> QED
    BY <1>5, <2>1 DEF UserInv, StaffCanLogIn
<1>12. PendingPromotions'
  <2> SUFFICES ASSUME NEW s \in Requests, Promotion(request[s])
               PROVE  \A p : p = request[s] => Promotable(p)'
    BY <1>r DEF PendingPromotions, Promotion
  <2>1. request[s].user \in Users /\ Promotable(request[s])
    BY PromotionUser
  <2>2. PICK p : p = request[s]
    OBVIOUS
  <2>3. Promotable(p)'
    BY <1>2, <1>3, <1>5, <2>1, <2>2 DEF Promotable
  <2> QED
    BY <2>2, <2>3
<1>13. OneAccountOfEachKind'
  BY <1>2, <1>3 DEF UserInv, OneAccountOfEachKind
<1>14. PhoneRoom'
  <2> SUFFICES ASSUME NEW v \in Users
               PROVE  Cardinality(NumbersOf(v)') + Cardinality(Adding(v)') + 1
                        <= MAX_ADDITIONAL_PHONES + Cardinality(Requests)
    BY DEF PhoneRoom
  <2>1. NumbersOf(v)' \in SUBSET NumbersOf(v) /\ Adding(v)' = Adding(v)
    BY <1>2, <1>r DEF NumbersOf, Adding, AddsPhone
  <2>2. Cardinality(NumbersOf(v)') <= Cardinality(NumbersOf(v)) /\ Cardinality(NumbersOf(v)') \in Nat
    BY <2>1, NumbersFinite, FS_Subset, FS_CardinalityType
  <2>3. Cardinality(NumbersOf(v)) + Cardinality(Adding(v)) + 1
          <= MAX_ADDITIONAL_PHONES + Cardinality(Requests)
    BY DEF UserInv, PhoneRoom
  <2>4. Cardinality(Requests) \in Nat /\ MAX_ADDITIONAL_PHONES \in Nat
    BY UsersAssumption, FS_CardinalityType
  <2> QED
    BY <2>1, <2>2, <2>3, <2>4, NumbersFinite
<1> QED
  BY <1>6, <1>7, <1>8, <1>9, <1>10, <1>11, <1>12, <1>13, <1>14 DEF UserInv, LoginsSound

\* A login of u is added or changed; his password is never taken away.
LoginStep(u) ==
  \/ identity' = identity
  \/ \E i \in Ids, row \in IdentityRows :
       /\ identity' = [identity EXCEPT ![i] = row]
       /\ row.user = u /\ PhoneFree(row.phone, i)
       /\ identity[i] # None => identity[i].user = u
       /\ row.password = "disabled" => identity[i] # None /\ identity[i].password = "disabled"
       /\ identity[i] # None => row.password \in {"set", identity[i].password}

LEMMA LoginStepKeeps ==
  ASSUME UserInv, NEW u \in Users, LoginStep(u), Exists(u)', \A v \in Users : Exists(v) => Exists(v)'
  PROVE  /\ identity' \in [Ids -> IdentityRows \union {None}]
         /\ \A i \in Ids : identity'[i] # None => user'[identity'[i].user] # None
         /\ OneLoginPerPhone' /\ OnlyWalkInDisabled'
         /\ \A v \in Users : \A i \in Logins(v) :
              i \in Logins(v)' /\ identity'[i].password \in {"set", identity[i].password}
<1>0. /\ identity \in [Ids -> IdentityRows \union {None}]
      /\ \A i \in Ids : identity[i] # None => identity[i] \in IdentityRows /\ identity[i].user \in Users
      /\ \A i \in Ids : identity[i] # None => Exists(identity[i].user)
      /\ OneLoginPerPhone /\ OnlyWalkInDisabled
  BY DEF UserInv, UsersTypeOK, IdentityRows, LoginsSound, NoOrphans
<1>1. CASE identity' = identity
  <2>1. \A i \in Ids : identity'[i] # None => user'[identity'[i].user] # None
    BY <1>0, <1>1 DEF Exists
  <2> QED
    BY <1>0, <1>1, <2>1 DEF OneLoginPerPhone, OnlyWalkInDisabled, Logins, Exists
<1>2. CASE \E i \in Ids, row \in IdentityRows :
       /\ identity' = [identity EXCEPT ![i] = row]
       /\ row.user = u /\ PhoneFree(row.phone, i)
       /\ identity[i] # None => identity[i].user = u
       /\ row.password = "disabled" => identity[i] # None /\ identity[i].password = "disabled"
       /\ identity[i] # None => row.password \in {"set", identity[i].password}
  <2>1. PICK i \in Ids, row \in IdentityRows :
       /\ identity' = [identity EXCEPT ![i] = row]
       /\ row.user = u /\ PhoneFree(row.phone, i)
       /\ identity[i] # None => identity[i].user = u
       /\ row.password = "disabled" => identity[i] # None /\ identity[i].password = "disabled"
       /\ identity[i] # None => row.password \in {"set", identity[i].password}
    BY <1>2
  <2>2. row # None /\ \A j \in Ids : identity'[j] = IF j = i THEN row ELSE identity[j]
    BY <1>0, <2>1, NoneAssumption
  <2>3. \A j \in Ids : identity'[j] # None => user'[identity'[j].user] # None
    BY <1>0, <2>1, <2>2 DEF Exists
  <2>4. OneLoginPerPhone'
    BY <1>0, <2>1, <2>2 DEF OneLoginPerPhone, PhoneFree
  <2>5. OnlyWalkInDisabled'
    BY <1>0, <2>1, <2>2 DEF OnlyWalkInDisabled
  <2>6. \A v \in Users : \A j \in Logins(v) :
          j \in Logins(v)' /\ identity'[j].password \in {"set", identity[j].password}
    BY <2>1, <2>2 DEF Logins
  <2>7. identity' \in [Ids -> IdentityRows \union {None}]
    BY <1>0, <2>1
  <2> QED
    BY <2>3, <2>4, <2>5, <2>6, <2>7 DEF Exists
<1> QED
  BY <1>1, <1>2 DEF LoginStep

LEMMA AddUserInv ==
  ASSUME UserInv, Exists(WalkIn), NEW u \in Users, NEW role \in Roles, NEW p \in Phones \union {None},
         NEW password \in {"none", "set"}, NEW things \in Accounts,
         AddUser(u, role, p, password, things),
         things.courier <= 1, things.client <= 1, things.admin <= 1,
         role = "COURIER" => things.courier = 1,
         role \in STAFF_ROLES => p # None /\ password = "set"
  PROVE  UserInv'
<1>0. /\ user \in [Users -> UserRows \union {None}] /\ owns \in [Users -> Accounts]
      /\ UNCHANGED <<numbers, tokens, request>>
  BY DEF UserInv, UsersTypeOK, AddUser, Accounts
<1>1. PICK row : row = [role |-> role, active |-> TRUE]
  OBVIOUS
<1>2. /\ row \in UserRows /\ row # None /\ row.role = role /\ user' = [user EXCEPT ![u] = row]
      /\ owns' = [owns EXCEPT ![u] = things]
  <2>1. row \in UserRows /\ row.role = role
    BY <1>1 DEF UserRows
  <2> QED
    BY <1>1, <2>1, NoneAssumption DEF AddUser
<1>3. \A v \in Users : user'[v] = IF v = u THEN row ELSE user[v]
  BY <1>0, <1>2
<1>4. Exists(u)' /\ \A v \in Users : Exists(v) => Exists(v)'
  BY <1>2, <1>3 DEF Exists
<1>5. LoginStep(u) /\ (p # None => \E i \in Logins(u)' : identity'[i].password = password)
  <2>1. CASE p = None
    BY <2>1 DEF AddUser, LoginStep
  <2>2. CASE p # None
    <3>1. PICK i \in Ids : /\ NextId(identity, i) /\ PhoneFree(p, i)
                           /\ identity' = [identity EXCEPT ![i] = [user |-> u, phone |-> p, password |-> password]]
      BY <2>2 DEF AddUser
    <3>2. PICK login : login = [user |-> u, phone |-> p, password |-> password]
      OBVIOUS
    <3>3. login \in IdentityRows /\ login.user = u /\ login.phone = p /\ login.password = password
      BY <2>2, <3>2 DEF IdentityRows
    <3>4. identity[i] = None /\ identity'[i] = login /\ login # None
      BY <3>1, <3>2, <3>3, NoneAssumption DEF NextId, UserInv, UsersTypeOK
    <3>5. identity' = [identity EXCEPT ![i] = login] /\ PhoneFree(login.phone, i)
          /\ login.password # "disabled"
      BY <3>1, <3>2, <3>3
    <3>6. LoginStep(u)
      BY <3>3, <3>4, <3>5 DEF LoginStep
    <3> QED
      BY <3>3, <3>4, <3>6 DEF Logins
  <2> QED
    BY <2>1, <2>2
<1>6. /\ identity' \in [Ids -> IdentityRows \union {None}]
      /\ \A i \in Ids : identity'[i] # None => user'[identity'[i].user] # None
      /\ OneLoginPerPhone' /\ OnlyWalkInDisabled'
      /\ \A v \in Users : \A i \in Logins(v) :
           i \in Logins(v)' /\ identity'[i].password \in {"set", identity[i].password}
  BY <1>4, <1>5, LoginStepKeeps
<1>7. UsersTypeOK' /\ IsFiniteSet(numbers')
  <2>1. user' \in [Users -> UserRows \union {None}] /\ owns' \in [Users -> Accounts]
    BY <1>0, <1>2
  <2> QED
    BY <1>0, <1>6, <2>1 DEF UserInv, UsersTypeOK, Accounts
<1>8. StartedUp'
  BY <1>4, UsersAssumption DEF StartedUp
<1>9. NoOrphans'
  <2>1. \A n \in numbers : n.user \in Users /\ Exists(n.user)
    BY DEF UserInv, UsersTypeOK, NumberRows, LoginsSound, NoOrphans
  <2>2. \A n \in numbers' : user'[n.user] # None
    BY <1>0, <1>2, <1>3, <2>1 DEF Exists
  <2>3. \A v \in Users : ~Exists(v)' => owns'[v] = Nothing
    BY <1>0, <1>2, <1>4 DEF UserInv, LoginsSound, NoOrphans
  <2> QED
    BY <1>6, <2>2, <2>3 DEF NoOrphans, Exists
<1>10. StaffCanLogIn'
  <2> SUFFICES ASSUME NEW v \in Users \ Protected, Exists(v)', user'[v].role \in STAFF_ROLES
               PROVE  \E i \in Logins(v)' : identity'[i].password = "set"
    BY DEF StaffCanLogIn
  <2>1. CASE v = u
    BY <1>2, <1>3, <1>5, <2>1
  <2>2. CASE v # u
    BY <1>3, <1>6, <2>2 DEF UserInv, StaffCanLogIn, Exists
  <2> QED
    BY <2>1, <2>2
<1>11. PendingPromotions'
  <2> SUFFICES ASSUME NEW s \in Requests, Promotion(request[s])
               PROVE  Promotable(request[s])'
    BY <1>0 DEF PendingPromotions, Promotion
  <2>1. request[s].user \in Users /\ Promotable(request[s])
    BY PromotionUser
  <2>2. PICK q : q = request[s]
    OBVIOUS
  <2>3. q.user # u
    BY <2>2 DEF AddUser, NewUser, Promotion
  <2>4. Exists(q.user)' => Exists(q.user)
    BY <1>3, <2>1, <2>2, <2>3 DEF Exists
  <2>5. q.identity \in Logins(q.user) =>
          q.identity \in Logins(q.user)' /\ identity'[q.identity].password \in {"set", identity[q.identity].password}
    BY <1>6, <2>1, <2>2
  <2>6. Promotable(q)'
    BY <2>1, <2>2, <2>4, <2>5 DEF Promotable
  <2> QED
    BY <1>0, <2>2, <2>6
<1>12. OneAccountOfEachKind'
  BY <1>0, <1>2, <1>3 DEF UserInv, OneAccountOfEachKind, Exists
<1>13. PhoneRoom'
  BY <1>0 DEF UserInv, PhoneRoom, NumbersOf, Adding
<1> QED
  BY <1>6, <1>7, <1>8, <1>9, <1>10, <1>11, <1>12, <1>13 DEF UserInv, LoginsSound

LEMMA UpdateLogin ==
  ASSUME UserInv, NEW u \in Users, NEW d \in Updates, NEW i \in Ids \union {None},
         UpdateIdentity(u, d, i)
  PROVE  /\ LoginStep(u)
         /\ d.password => \E j \in Logins(u)' : identity'[j].password = "set"
<1>0. /\ identity \in [Ids -> IdentityRows \union {None}]
      /\ d.phone \in Phones \union {None} /\ d.password \in BOOLEAN
  BY UsersAssumption DEF UserInv, UsersTypeOK
<1>1. CASE d.phone = None /\ ~d.password
  BY <1>1 DEF UpdateIdentity, LoginStep
<1>2. ASSUME NEW j \in Ids, NEW row \in IdentityRows, identity' = [identity EXCEPT ![j] = row],
             row.user = u, PhoneFree(row.phone, j),
             identity[j] # None => identity[j].user = u,
             row.password = "disabled" => identity[j] # None /\ identity[j].password = "disabled",
             identity[j] # None => row.password \in {"set", identity[j].password},
             d.password => row.password = "set"
      PROVE  /\ LoginStep(u)
             /\ d.password => \E k \in Logins(u)' : identity'[k].password = "set"
  <2>1. LoginStep(u)
    BY <1>2 DEF LoginStep
  <2>2. identity'[j] = row /\ row # None
    BY <1>0, <1>2, NoneAssumption
  <2> QED
    BY <1>2, <2>1, <2>2 DEF Logins
<1>3. CASE ~(d.phone = None /\ ~d.password) /\ i = None
  <2>1. PICK j \in Ids :
          /\ d.phone # None /\ NextId(identity, j) /\ PhoneFree(d.phone, j)
          /\ identity' = [identity EXCEPT ![j] =
               [user |-> u, phone |-> d.phone, password |-> IF d.password THEN "set" ELSE "none"]]
    BY <1>3 DEF UpdateIdentity
  <2>2. PICK row : row = [user |-> u, phone |-> d.phone, password |-> IF d.password THEN "set" ELSE "none"]
    OBVIOUS
  <2>3. /\ row \in IdentityRows /\ row.user = u /\ row.phone = d.phone
        /\ row.password = IF d.password THEN "set" ELSE "none"
    BY <1>0, <2>1, <2>2 DEF IdentityRows
  <2>4. identity[j] = None
    BY <2>1 DEF NextId
  <2> QED
    BY <1>2, <2>1, <2>2, <2>3, <2>4
<1>4. CASE ~(d.phone = None /\ ~d.password) /\ i # None
  <2>1. /\ i \in Logins(u) /\ (d.phone # None => PhoneFree(d.phone, i))
        /\ identity' = [identity EXCEPT ![i] =
             [user |-> u, phone |-> IF d.phone = None THEN identity[i].phone ELSE d.phone,
              password |-> IF d.password THEN "set" ELSE identity[i].password]]
    BY <1>4 DEF UpdateIdentity
  <2>2. i \in Ids /\ identity[i] # None /\ identity[i].user = u /\ identity[i] \in IdentityRows
    BY <1>0, <2>1 DEF Logins
  <2>3. PICK row : row = [user |-> u, phone |-> IF d.phone = None THEN identity[i].phone ELSE d.phone,
                          password |-> IF d.password THEN "set" ELSE identity[i].password]
    OBVIOUS
  <2>4. /\ row \in IdentityRows /\ row.user = u
        /\ row.phone = IF d.phone = None THEN identity[i].phone ELSE d.phone
        /\ row.password = IF d.password THEN "set" ELSE identity[i].password
    BY <1>0, <2>2, <2>3 DEF IdentityRows
  <2>5. PhoneFree(row.phone, i)
    BY <2>1, <2>2, <2>4 DEF PhoneFree, UserInv, LoginsSound, OneLoginPerPhone
  <2> QED
    BY <1>2, <2>1, <2>2, <2>3, <2>4, <2>5
<1> QED
  BY <1>1, <1>3, <1>4

LEMMA UpdateInv ==
  ASSUME UserInv, NEW r \in Requests, update(r)
  PROVE  UserInv'
<1>0. /\ user \in [Users -> UserRows \union {None}] /\ owns \in [Users -> Accounts]
      /\ request \in [Requests -> Pending \union {None}]
  BY DEF UserInv, UsersTypeOK, Accounts
<1>1. PICK q : q = request[r]
  OBVIOUS
<1>2. PICK u : u = q.user
  OBVIOUS
<1>3. PICK d : d = q.data
  OBVIOUS
<1>4. PICK acting : acting = IF d.role # None THEN d.role ELSE IF d.block THEN user[u].role ELSE q.seen
  OBVIOUS
<1>5. /\ q # None /\ q.op = "update" /\ Exists(u)
      /\ UpdateUser(u, d) /\ UpdateIdentity(u, d, q.identity)
      /\ owns' = [owns EXCEPT ![u].courier = CourierAccounts(u, acting)]
      /\ request' = [request EXCEPT ![r] = None]
      /\ UNCHANGED <<numbers, tokens>>
  BY <1>1, <1>2, <1>3, <1>4 DEF update
<1>6. /\ u \in Users /\ d \in Updates /\ q.identity \in Ids \union {None}
      /\ d.role \in AssignableRoles \union {None} /\ d.block \in BOOLEAN /\ d.password \in BOOLEAN
  <2>1. q \in Pending
    BY <1>0, <1>1, <1>5
  <2>2. u \in Users /\ d \in Updates /\ q.identity \in Ids \union {None}
    BY <1>2, <1>3, <1>5, <2>1 DEF Pending
  <2> QED
    BY <2>2, UsersAssumption
<1>7. user[u] \in UserRows
  BY <1>0, <1>5, <1>6 DEF Exists
<1>8. PICK row \in UserRows :
        /\ user' = [user EXCEPT ![u] = row]
        /\ row.role = IF d.role = None THEN user[u].role ELSE d.role
  <2>1. CASE d.role = None /\ ~d.block
    BY <1>0, <1>5, <1>6, <1>7, <2>1 DEF UpdateUser
  <2>2. CASE ~(d.role = None /\ ~d.block)
    <3>1. PICK row : row = [role |-> IF d.role = None THEN user[u].role ELSE d.role, active |-> ~d.block]
      OBVIOUS
    <3>2. row \in UserRows /\ row.role = IF d.role = None THEN user[u].role ELSE d.role
      BY <1>6, <1>7, <3>1, UsersAssumption DEF UserRows
    <3>3. user' = [user EXCEPT ![u] = row]
      BY <1>5, <2>2, <3>1 DEF UpdateUser
    <3> QED
      BY <3>2, <3>3
  <2> QED
    BY <2>1, <2>2
<1>9. row # None /\ \A v \in Users : user'[v] = IF v = u THEN row ELSE user[v]
  BY <1>0, <1>8, NoneAssumption
<1>10. Exists(u)' /\ \A v \in Users : Exists(v)' <=> Exists(v)
  BY <1>5, <1>6, <1>9 DEF Exists
<1>11. LoginStep(u) /\ (d.password => \E j \in Logins(u)' : identity'[j].password = "set")
  BY <1>5, <1>6, UpdateLogin
<1>12. /\ identity' \in [Ids -> IdentityRows \union {None}]
       /\ \A i \in Ids : identity'[i] # None => user'[identity'[i].user] # None
       /\ OneLoginPerPhone' /\ OnlyWalkInDisabled'
       /\ \A v \in Users : \A i \in Logins(v) :
            i \in Logins(v)' /\ identity'[i].password \in {"set", identity[i].password}
  BY <1>6, <1>10, <1>11, LoginStepKeeps
<1>13. \A s \in Requests : request'[s] \in {None, request[s]}
  BY <1>0, <1>5
<1>14. PICK things \in Accounts : /\ owns' = [owns EXCEPT ![u] = things]
                                  /\ things.client = owns[u].client /\ things.admin = owns[u].admin
                                  /\ things.courier = CourierAccounts(u, acting)
  <2>1. owns[u] \in Accounts /\ CourierAccounts(u, acting) \in Nat
    BY <1>0, <1>6 DEF CourierAccounts, Accounts
  <2>2. PICK things : things = [owns[u] EXCEPT !.courier = CourierAccounts(u, acting)]
    OBVIOUS
  <2>3. /\ things \in Accounts /\ things.client = owns[u].client /\ things.admin = owns[u].admin
        /\ things.courier = CourierAccounts(u, acting)
    BY <2>1, <2>2 DEF Accounts
  <2>4. owns' = [owns EXCEPT ![u] = things]
    BY <1>5, <2>2
  <2> QED
    BY <2>3, <2>4
<1>15. UsersTypeOK' /\ IsFiniteSet(numbers')
  <2>1. user' \in [Users -> UserRows \union {None}] /\ owns' \in [Users -> Accounts]
    BY <1>0, <1>8, <1>14
  <2>2. request' \in [Requests -> Pending \union {None}]
    BY <1>0, <1>5
  <2> QED
    BY <1>5, <1>12, <2>1, <2>2 DEF UserInv, UsersTypeOK, Accounts
<1>16. StartedUp'
  BY <1>5, <1>6, <1>10, AnyoneMeansStarted, UsersAssumption DEF StartedUp
<1>17. NoOrphans'
  <2>1. \A n \in numbers : n.user \in Users /\ Exists(n.user)
    BY DEF UserInv, UsersTypeOK, NumberRows, LoginsSound, NoOrphans
  <2>2. \A n \in numbers' : user'[n.user] # None
    BY <1>5, <1>9, <2>1 DEF Exists
  <2>3. \A v \in Users : ~Exists(v)' => owns'[v] = Nothing
    BY <1>0, <1>5, <1>10, <1>14 DEF UserInv, LoginsSound, NoOrphans
  <2> QED
    BY <1>12, <2>2, <2>3 DEF NoOrphans, Exists
<1>18. StaffCanLogIn'
  <2> SUFFICES ASSUME NEW v \in Users \ Protected, Exists(v)', user'[v].role \in STAFF_ROLES
               PROVE  \E i \in Logins(v)' : identity'[i].password = "set"
    BY DEF StaffCanLogIn
  <2>1. CASE Exists(v) /\ user[v].role \in STAFF_ROLES
    BY <1>12, <2>1 DEF UserInv, StaffCanLogIn
  <2>2. CASE ~(Exists(v) /\ user[v].role \in STAFF_ROLES)
    <3>1. v = u /\ d.role \in STAFF_ROLES /\ v # WalkIn
      BY <1>8, <1>9, <1>10, <2>2 DEF Protected
    <3>2. Promotable(q)
      BY <1>1, <1>3, <1>5, <3>1 DEF UserInv, PendingPromotions, Promotion
    <3>3. CASE d.password
      BY <1>11, <3>1, <3>3
    <3>4. CASE ~d.password
      <4>1. q.identity \in Logins(u) /\ identity[q.identity].password # "none"
        BY <1>2, <1>3, <1>5, <3>2, <3>4 DEF Promotable
      <4>2. identity[q.identity].password = "set"
        BY <3>1, <4>1 DEF Logins, UserInv, UsersTypeOK, IdentityRows, OnlyWalkInDisabled
      <4> QED
        BY <1>6, <1>12, <3>1, <4>1, <4>2
    <3> QED
      BY <1>6, <3>3, <3>4
  <2> QED
    BY <2>1, <2>2
<1>19. PendingPromotions'
  <2> SUFFICES ASSUME NEW s \in Requests, Promotion(request[s])
               PROVE  \A p : p = request[s] => Promotable(p)'
    BY <1>13 DEF PendingPromotions, Promotion
  <2>1. request[s].user \in Users /\ Promotable(request[s])
    BY PromotionUser
  <2>2. PICK p : p = request[s]
    OBVIOUS
  <2>3. Exists(p.user)' => Exists(p.user)
    BY <1>10, <2>1, <2>2
  <2>4. p.identity \in Logins(p.user) =>
          p.identity \in Logins(p.user)' /\ identity'[p.identity].password \in {"set", identity[p.identity].password}
    BY <1>12, <2>1, <2>2
  <2>5. Promotable(p)'
    BY <2>1, <2>2, <2>3, <2>4 DEF Promotable
  <2> QED
    BY <2>2, <2>5
<1>20. OneAccountOfEachKind'
  <2>1. things.courier <= 1 /\ (row.role = "COURIER" => things.courier = 1)
    <3>1. /\ owns[u].courier \in {0, 1}
          /\ user[u].role = "COURIER" => owns[u].courier = 1
      BY <1>0, <1>5, <1>6 DEF UserInv, OneAccountOfEachKind, Accounts
    <3>2. things.courier = IF acting = "COURIER" /\ owns[u].courier = 0 THEN 1 ELSE owns[u].courier
      BY <1>14 DEF CourierAccounts
    <3> QED
      BY <1>4, <1>8, <3>1, <3>2
  <2> QED
    BY <1>0, <1>9, <1>14, <2>1 DEF UserInv, OneAccountOfEachKind, Exists
<1>21. PhoneRoom'
  <2> SUFFICES ASSUME NEW v \in Users PROVE NumbersOf(v)' = NumbersOf(v) /\ Adding(v)' = Adding(v)
    BY DEF UserInv, PhoneRoom
  <2>1. \A s \in Requests : request'[s] = IF s = r THEN None ELSE request[s]
    BY <1>0, <1>5
  <2> QED
    BY <1>1, <1>5, <2>1 DEF NumbersOf, Adding, AddsPhone
<1> QED
  BY <1>12, <1>15, <1>16, <1>17, <1>18, <1>19, <1>20, <1>21 DEF UserInv, LoginsSound

LEMMA InitUsers ==
  ASSUME Init
  PROVE  UserInv
<1>1. \A u \in Users : user[u] = None /\ owns[u] = Nothing
  BY DEF Init
<1>2. \A i \in Ids : identity[i] = None
  BY DEF Init
<1>3. numbers = {} /\ tokens = {} /\ \A r \in Requests : request[r] = None
  BY DEF Init
<1>4. UsersTypeOK /\ IsFiniteSet(numbers)
  <2>1. Nothing \in Accounts
    BY DEF Nothing, Accounts
  <2> QED
    BY <2>1, FS_EmptySet DEF Init, UsersTypeOK, Accounts
<1>5. LoginsSound /\ OnlyWalkInDisabled /\ StaffCanLogIn /\ PendingPromotions
  BY <1>1, <1>2, <1>3 DEF LoginsSound, NoOrphans, OneLoginPerPhone, OnlyWalkInDisabled,
                          StaffCanLogIn, PendingPromotions, Promotion, Exists
<1>6. OneAccountOfEachKind
  BY <1>1 DEF OneAccountOfEachKind, Exists, Nothing
<1>7. PhoneRoom
  <2>1. \A u : NumbersOf(u) = {} /\ Adding(u) = {}
    BY <1>3 DEF NumbersOf, Adding, AddsPhone
  <2>2. Cardinality(Requests) \in Nat /\ Cardinality(Requests) # 0 /\ MAX_ADDITIONAL_PHONES \in Nat
    BY UsersAssumption, FS_CardinalityType, FS_EmptySet
  <2>3. Cardinality({}) = 0
    BY FS_EmptySet
  <2> QED
    BY <2>1, <2>2, <2>3 DEF PhoneRoom
<1> QED
  BY <1>4, <1>5, <1>6, <1>7 DEF UserInv, StartedUp

LEMMA StutterUsers ==
  ASSUME UserInv, UNCHANGED vars
  PROVE  UserInv'
<1>1. UNCHANGED <<user, identity, numbers, owns, tokens, request>>
  BY DEF vars
<1>2. (\A u : Logins(u)' = Logins(u)) /\ (\A u : Exists(u)' <=> Exists(u))
  BY <1>1 DEF Logins, Exists
<1>3. UsersTypeOK' /\ IsFiniteSet(numbers') /\ StartedUp'
  BY <1>1, <1>2 DEF UserInv, UsersTypeOK, StartedUp, Init
<1>4. LoginsSound' /\ OnlyWalkInDisabled'
  BY <1>1, <1>2 DEF UserInv, LoginsSound, NoOrphans, OneLoginPerPhone, OnlyWalkInDisabled
<1>5. StaffCanLogIn' /\ PendingPromotions'
  BY <1>1, <1>2 DEF UserInv, StaffCanLogIn, PendingPromotions, Promotion, Promotable
<1>6. OneAccountOfEachKind' /\ PhoneRoom'
  BY <1>1, <1>2 DEF UserInv, OneAccountOfEachKind, PhoneRoom, NumbersOf, Adding, AddsPhone
<1> QED
  BY <1>3, <1>4, <1>5, <1>6 DEF UserInv

LEMMA UsersInvariance == Spec => []UserInv
<1>1. Init => UserInv
  BY InitUsers
<1>2. UserInv /\ [Next]_vars => UserInv'
  <2>1. ASSUME UserInv, Next PROVE UserInv'
    <3>1. CASE \E u \in Users : FirstStart(u) \/ ChangeOf(u)
      BY <2>1, <3>1, FirstStartInv, ArchiveInv, AddUserInv DEF ChangeOf
    <3> QED
      BY <2>1, <3>1, StepCases, AccountInv, TokenInv, RequestInv, NumberInv, UpdateInv, DeleteInv
  <2> QED
    BY <2>1, StutterUsers
<1> QED
  BY <1>1, <1>2, PTL DEF Spec

-----------------------------------------------------------------------------
(* The properties *)

\* Users, logins, numbers, tokens and requests in flight keep their types: no
\* PATCH body, whatever it leaves out, nulls a column.
THEOREM UsersTyped == Spec => []UsersTypeOK
BY UsersInvariance, PTL DEF UserInv

\* However promotions, changes of login and deletions overlap, every employee
\* has a login with a password.
THEOREM StaffAlwaysLogIn == Spec => []StaffCanLogIn
BY UsersInvariance, PTL DEF UserInv

\* No order of role changes, registrations and start-ups gives a user two
\* accounts of a kind or a courier none.
THEOREM AccountsOnce == Spec => []OneAccountOfEachKind
BY UsersInvariance, PTL DEF UserInv

\* No row outlives its user and no phone logs in two users.
THEOREM LoginsStaySound == Spec => []LoginsSound
BY UsersInvariance, PTL DEF UserInv

\* The limit of additional phones is passed by fewer than there are requests
\* at once, and with one request at a time not at all.
THEOREM PhonesLimited == Spec => []PhoneLimitHolds
<1>1. UserInv => PhoneLimitHolds
  <2> SUFFICES ASSUME UserInv, NEW u \in Users
               PROVE  count_by_user(u) + 1 <= MAX_ADDITIONAL_PHONES + Cardinality(Requests)
    BY DEF PhoneLimitHolds
  <2>1. Cardinality(NumbersOf(u)) + Cardinality(Adding(u)) + 1
          <= MAX_ADDITIONAL_PHONES + Cardinality(Requests)
    BY DEF UserInv, PhoneRoom
  <2>2. count_by_user(u) = Cardinality(NumbersOf(u))
    BY DEF count_by_user, NumbersOf
  <2>3. Cardinality(Requests) \in Nat /\ MAX_ADDITIONAL_PHONES \in Nat
    BY UsersAssumption, FS_CardinalityType
  <2> QED
    BY <2>1, <2>2, <2>3, NumbersFinite
<1> QED
  BY <1>1, UsersInvariance, PTL
=============================================================================

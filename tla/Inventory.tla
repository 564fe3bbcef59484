------------------------------ MODULE Inventory ------------------------------
(***************************************************************************)
(* The inventory service: warehouses, vehicles and client inventories, and *)
(* the documents (stock_transfers) that move goods between them.  Each     *)
(* document is posted at once: its rows go through the trigger of          *)
(* StockLedger.  Checks made without a lock are a step of their own; the   *)
(* request then waits in pending, where other requests can overtake it.    *)
(* The catalogue of products is here too: documents may list active        *)
(* products only, and a product that was ever moved cannot be deleted.     *)
(***************************************************************************)
EXTENDS StockLedger, Sequences

CONSTANTS Users,          \* users that may be responsible for an inventory
          Clients,        \* the users that own a client inventory
          SystemUser,     \* SYSTEM_USER_ID
          Vendor, Loss,   \* VIRTUAL_VENDOR and VIRTUAL_LOSS
          Names,          \* names of warehouses
          Contains,       \* Contains[n]: the names that match the pattern %n%
          Requests,       \* requests that can be under way at the same time
          TransferTypes,  \* types of document in use
          MaxQty,         \* bound: units of a product in one document
          MaxTransfers,   \* bound: documents
          MaxDay,         \* bound: days
          InitInv,        \* the inventories at start-up
          Managing,       \* whether inventories are created and changed
          CatalogOpen,    \* whether the catalogue starts empty and is changed
          None, Deleted   \* null; a row that was deleted

InventoryTypes == {"WAREHOUSE", "COURIER", "CLIENT", "VIRTUAL_LOSS", "VIRTUAL_VENDOR"}

InventoryRows == [type : InventoryTypes, owner : Users, name : Names \union {None}, active : BOOLEAN]

ASSUME InventoryAssumption ==
  /\ Clients \subseteq Users /\ SystemUser \in Users
  /\ Vendor # Loss /\ Virtual = {Vendor, Loss}
  /\ Contains \in [Names -> SUBSET Names] /\ \A n \in Names : n \in Contains[n]
  /\ None \notin Inventories \union Names \union Users \union Products /\ None \notin Nat
  /\ Managing \in BOOLEAN /\ CatalogOpen \in BOOLEAN
  /\ MaxQty \in Nat /\ MaxTransfers \in Nat /\ MaxDay \in Nat \ {0}
  /\ None \notin InventoryRows /\ Deleted \notin InventoryRows /\ None # Deleted

\* The inventories at start-up satisfy uq_active_courier_inventory.
ASSUME InitInvAssumption ==
  /\ InitInv \in [Inventories -> InventoryRows \union {None}]
  /\ \A i, j \in Inventories :
       InitInv[i] # None /\ InitInv[j] # None /\ InitInv[i].owner = InitInv[j].owner
         /\ InitInv[i].type = "COURIER" /\ InitInv[j].type = "COURIER" => i = j

VARIABLES
  inv,        \* inventories: None, Deleted, or [type, owner, name, active]
  transfers,  \* stock_transfers, oldest first: [type, from, to, lines, day]
  stock,      \* inventory_balances
  pending,    \* what each request under way has checked, or None
  today,      \* the current day
  catalog     \* products: "ABSENT", "ACTIVE", "ARCHIVED" or "DELETED"

invVars == <<inv, transfers, stock, pending, today, catalog>>

Row(type, owner, name) == [type |-> type, owner |-> owner, name |-> name, active |-> TRUE]

Rows == {i \in Inventories : inv[i] \notin {None, Deleted}}

\* BaseRepository.get with active_only
Active(i) == i \in Rows /\ inv[i].active

OfType(i, type) == Active(i) /\ inv[i].type = type

\* Documents, and the quantities a document may list.
Documents == [type : TransferTypes, from : Inventories, to : Inventories,
              lines : [Products -> 0..MaxQty] \ {NoLines}]

\* get_system_inventory: the row of that type that the system user owns.
SystemInventory(i) == i \in Rows /\ inv[i].owner = SystemUser

Begin(r, p) == pending[r] = None /\ pending' = [pending EXCEPT ![r] = p]
End(r) == pending' = [pending EXCEPT ![r] = None]

-----------------------------------------------------------------------------
(* The catalogue *)

Listed(p) == catalog[p] \in {"ACTIVE", "ARCHIVED"}

\* Products with an id that is looked up by get_by_ids, which drops the rest.
ActiveProducts == {p \in Products : catalog[p] = "ACTIVE"}

\* add_product: the container of a water must be active ...
add_product_check(r, p) ==
  /\ catalog[p] = "ABSENT"
  /\ Returnable[p] # NoProduct => Returnable[p] \in ActiveProducts
  /\ Begin(r, [op |-> "add_product", product |-> p])
  /\ UNCHANGED <<inv, transfers, stock, today, catalog>>

\* ... when it is looked up; at the insert the foreign key wants it to exist.
add_product(r) ==
  /\ pending[r] # None /\ pending[r].op = "add_product"
  /\ LET p == pending[r].product
     IN  /\ catalog[p] = "ABSENT"
         /\ Returnable[p] # NoProduct => Listed(Returnable[p])
         /\ catalog' = [catalog EXCEPT ![p] = "ACTIVE"]
  /\ End(r)
  /\ UNCHANGED <<inv, transfers, stock, today>>

\* CatalogService.archive
archive_product(p) ==
  /\ Listed(p)
  /\ catalog' = [catalog EXCEPT ![p] = "ARCHIVED"]
  /\ UNCHANGED <<inv, transfers, stock, pending, today>>

\* CatalogService.restore looks at the container, then updates by id.
restore_product_check(r, p) ==
  /\ Listed(p)
  /\ Returnable[p] # NoProduct => Returnable[p] \in ActiveProducts
  /\ Begin(r, [op |-> "restore_product", product |-> p])
  /\ UNCHANGED <<inv, transfers, stock, today, catalog>>

restore_product(r) ==
  /\ pending[r] # None /\ pending[r].op = "restore_product"
  /\ LET p == pending[r].product
     IN  catalog' = [catalog EXCEPT ![p] = IF Listed(p) THEN "ACTIVE" ELSE @]
  /\ End(r)
  /\ UNCHANGED <<inv, transfers, stock, today>>

\* has_stock: the sum over all balances, the vendor's negative one included
has_stock(p) ==
  SumOver([i \in Inventories |-> stock[i][p]], Inventories \ {Vendor}) + stock[Vendor][p] > 0

\* has_associated_products, and the foreign key returnable_item_id
has_associated_products(p) == \E q \in Products : Listed(q) /\ Returnable[q] = p

\* Mutant: a product goes whenever the two checks of the service allow it.
hard_delete_Unreferenced(p) ==
  /\ Listed(p) /\ ~has_stock(p) /\ ~has_associated_products(p)
  /\ catalog' = [catalog EXCEPT ![p] = "DELETED"]
  /\ UNCHANGED <<inv, transfers, stock, pending, today>>

\* hard_delete.  What has_stock misses, the foreign keys of the stock tables
\* (ON DELETE RESTRICT) refuse.
hard_delete(p) ==
  /\ Listed(p) /\ ~has_stock(p) /\ ~has_associated_products(p)
  /\ \A n \in DOMAIN transfers : transfers[n].lines[p] = 0
  /\ catalog' = [catalog EXCEPT ![p] = "DELETED"]
  /\ UNCHANGED <<inv, transfers, stock, pending, today>>

-----------------------------------------------------------------------------
(* Vehicles *)

\* Mutant: no check and no index.
ActiveVehicles_Unchecked(u) == {}

\* get_courier_inventory, and the index uq_active_courier_inventory
ActiveVehicles(u) == {i \in Inventories : OfType(i, "COURIER") /\ inv[i].owner = u}

\* Mutant: the vehicle is registered without a responsible user.
create_transport_NoOwner(i, u) ==
  /\ inv[i] = None /\ ActiveVehicles(u) = {}
  /\ inv' = [inv EXCEPT ![i] = Row("COURIER", None, None)]
  /\ UNCHANGED <<transfers, stock, pending, today, catalog>>

create_transport(i, u) ==
  /\ inv[i] = None /\ ActiveVehicles(u) = {}
  /\ inv' = [inv EXCEPT ![i] = Row("COURIER", u, None)]
  /\ UNCHANGED <<transfers, stock, pending, today, catalog>>

\* update_transport: any row is updated by id; a vehicle that is not active is
\* outside the index, every other inventory too.
update_transport(i, u) ==
  /\ i \in Rows /\ ActiveVehicles(u) \subseteq {i}
  /\ inv' = [inv EXCEPT ![i].owner = u]
  /\ UNCHANGED <<transfers, stock, pending, today, catalog>>

\* Mutant: documents do not keep an inventory from being deleted.
Referenced_Never(i) == FALSE

\* Foreign keys to inventories, ON DELETE RESTRICT.
Referenced(i) == \E n \in DOMAIN transfers : i \in {transfers[n].from, transfers[n].to}

\* delete_transport takes an inventory of any type; the balances go with it.
delete_transport(i) ==
  /\ Active(i) /\ inv[i].type \notin {"VIRTUAL_VENDOR", "VIRTUAL_LOSS"}
  /\ ~Referenced(i)
  /\ inv' = [inv EXCEPT ![i] = Deleted]
  /\ stock' = [stock EXCEPT ![i] = NoLines]
  /\ UNCHANGED <<transfers, pending, today, catalog>>

-----------------------------------------------------------------------------
(* Warehouses *)

Warehouses == {i \in Inventories : OfType(i, "WAREHOUSE")}

NamedSo(n) == {i \in Warehouses : inv[i].name = n}

\* create_warehouse looks the name up; with two hits the lookup itself raises.
create_warehouse_check(r, i, u, n) ==
  /\ inv[i] = None /\ NamedSo(n) = {}
  /\ Begin(r, [op |-> "create_warehouse", id |-> i, owner |-> u, name |-> n])
  /\ UNCHANGED <<inv, transfers, stock, today, catalog>>

create_warehouse(r) ==
  /\ pending[r] # None /\ pending[r].op = "create_warehouse"
  /\ inv[pending[r].id] = None
  /\ inv' = [inv EXCEPT ![pending[r].id] = Row("WAREHOUSE", pending[r].owner, pending[r].name)]
  /\ End(r)
  /\ UNCHANGED <<transfers, stock, today, catalog>>

\* search_inventories with limit=1 and no ORDER BY: some warehouse whose name
\* contains n, if there is one.
FirstHit(n) ==
  LET hits == {i \in Warehouses : inv[i].name \in Contains[n]}
  IN  IF hits = {} THEN {None} ELSE hits

\* update_warehouse: only the first hit is compared with the new name.
update_warehouse_check(r, i, n) ==
  /\ OfType(i, "WAREHOUSE") /\ inv[i].name # n
  /\ \E hit \in FirstHit(n) : hit # None => inv[hit].name # n
  /\ Begin(r, [op |-> "update_warehouse", id |-> i, owner |-> None, name |-> n])
  /\ UNCHANGED <<inv, transfers, stock, today, catalog>>

update_warehouse(r) ==
  /\ pending[r] # None /\ pending[r].op = "update_warehouse"
  /\ pending[r].id \in Rows
  /\ inv' = [inv EXCEPT ![pending[r].id].name = pending[r].name]
  /\ End(r)
  /\ UNCHANGED <<transfers, stock, today, catalog>>

\* update_warehouse with a new responsible user only
hand_over_warehouse(i, u) ==
  /\ OfType(i, "WAREHOUSE")
  /\ inv' = [inv EXCEPT ![i].owner = u]
  /\ UNCHANGED <<transfers, stock, pending, today, catalog>>

archive_warehouse(i) ==
  /\ OfType(i, "WAREHOUSE")
  /\ inv' = [inv EXCEPT ![i].active = FALSE]
  /\ UNCHANGED <<transfers, stock, pending, today, catalog>>

-----------------------------------------------------------------------------
(* Client inventories: a client may have several addresses *)

create_client_inventory(i, u) ==
  /\ inv[i] = None /\ u \in Clients
  /\ inv' = [inv EXCEPT ![i] = Row("CLIENT", u, None)]
  /\ UNCHANGED <<transfers, stock, pending, today, catalog>>

\* get_client_inventory: some active one, no ORDER BY
ClientInventories(u) == {i \in Inventories : OfType(i, "CLIENT") /\ inv[i].owner = u}

-----------------------------------------------------------------------------
(* Documents *)

Real == {"WAREHOUSE", "COURIER", "CLIENT"}

\* _VALID_ROUTES
ValidRoutes ==
  [COURIER_LOAD          |-> {"WAREHOUSE"} \X {"COURIER"},
   COURIER_RETURN        |-> {"COURIER"} \X {"WAREHOUSE"},
   CLIENT_DELIVERY       |-> {"COURIER"} \X {"CLIENT"},
   CLIENT_RETURN         |-> {"CLIENT"} \X {"COURIER"},
   LOSS_WRITE_OFF        |-> Real \X {"VIRTUAL_LOSS"},
   INVENTORY_FINDING     |-> {"VIRTUAL_VENDOR"} \X {"WAREHOUSE", "COURIER"},
   INITIAL_BALANCE       |-> {"VIRTUAL_VENDOR"} \X Real,
   WAREHOUSE_SALE        |-> {"WAREHOUSE"} \X {"CLIENT"},
   WAREHOUSE_TARA_RETURN |-> {"CLIENT"} \X {"WAREHOUSE"}]

\* Every type of document in use has its routes.
ASSUME RoutesAssumption == TransferTypes \subseteq DOMAIN ValidRoutes

\* Mutant: client inventories may exchange goods.
RouteAllowed_AmongClients(d) ==
  <<inv[d.from].type, inv[d.to].type>> \in ValidRoutes[d.type] \union {<<"CLIENT", "CLIENT">>}

RouteAllowed(d) == <<inv[d.from].type, inv[d.to].type>> \in ValidRoutes[d.type]

\* Posting a document: its rows pass the foreign key and the trigger.
Post(d) ==
  /\ \A p \in Products : d.lines[p] > 0 => Listed(p)
  /\ CanMove(stock, d.from, d.lines)
  /\ stock' = Move(stock, d.from, d.to, d.lines)
  /\ transfers' = Append(transfers, [type |-> d.type, from |-> d.from, to |-> d.to,
                                     lines |-> d.lines, day |-> today])

\* create_transfer up to the lock: the virtual side is filled in (here: the
\* request names it), products, loop, existence and route are checked.
create_transfer_check(r, d) ==
  /\ \A p \in Products : d.lines[p] > 0 => p \in ActiveProducts
  /\ d.type \in {"INVENTORY_FINDING", "INITIAL_BALANCE"}
       => d.from = Vendor /\ SystemInventory(Vendor)
  /\ d.type = "LOSS_WRITE_OFF" => d.to = Loss /\ SystemInventory(Loss)
  /\ d.from # d.to
  /\ Active(d.from) /\ Active(d.to) /\ RouteAllowed(d)
  /\ Begin(r, [op |-> "create_transfer", doc |-> d])
  /\ UNCHANGED <<inv, transfers, stock, today, catalog>>

\* Mutant: the balances of the source are not checked, and neither does the
\* trigger.
create_transfer_Unchecked(r) ==
  /\ pending[r] # None /\ pending[r].op = "create_transfer"
  /\ Len(transfers) < MaxTransfers
  /\ LET d == pending[r].doc
     IN  /\ stock' = Move(stock, d.from, d.to, d.lines)
         /\ transfers' = Append(transfers, [type |-> d.type, from |-> d.from, to |-> d.to,
                                            lines |-> d.lines, day |-> today])
  /\ End(r)
  /\ UNCHANGED <<inv, today, catalog>>

\* From the lock to the commit.  The source row is locked and read again unless
\* it is the vendor, and must be active; the target only has to exist.
create_transfer(r) ==
  /\ pending[r] # None /\ pending[r].op = "create_transfer"
  /\ Len(transfers) < MaxTransfers
  /\ LET d == pending[r].doc
     IN  /\ d.from = Vendor \/ Active(d.from)
         /\ d.to \in Rows
         /\ Post(d)
  /\ End(r)
  /\ UNCHANGED <<inv, today, catalog>>

\* Any request that raises, or whose process dies, is rolled back.
RequestAborted(r) ==
  /\ pending[r] # None /\ End(r)
  /\ UNCHANGED <<inv, transfers, stock, today, catalog>>

-----------------------------------------------------------------------------
(* Containers that clients already have *)

InitialBalance(i, lines) ==
  [type |-> "INITIAL_BALANCE", from |-> Vendor, to |-> i, lines |-> lines]

\* capitalize_tara, by inventory
capitalize_tara(i, lines) ==
  /\ OfType(i, "CLIENT") /\ SystemInventory(Vendor) /\ Len(transfers) < MaxTransfers
  /\ Post(InitialBalance(i, lines))
  /\ UNCHANGED <<inv, pending, today, catalog>>

\* capitalize_tara_for_client, by user
capitalize_tara_for_client(u, lines) ==
  /\ SystemInventory(Vendor) /\ Len(transfers) < MaxTransfers
  /\ \E i \in ClientInventories(u) : Post(InitialBalance(i, lines))
  /\ UNCHANGED <<inv, pending, today, catalog>>

\* What is missing for each product of the cart on its own; the lines of two
\* products with one container are posted one after the other.
Deficit(i, cart) ==
  LET missing == [p \in Products |->
        IF p \in ActiveProducts /\ cart[p] > 0 /\ Returnable[p] # NoProduct /\ cart[p] > stock[i][Returnable[p]]
        THEN cart[p] - stock[i][Returnable[p]] ELSE 0]
  IN  ReturnableItems(missing)

\* capitalize_deficit reads the balances without a lock ...
capitalize_deficit_check(r, u, i, cart) ==
  /\ OfType(i, "CLIENT") /\ inv[i].owner = u
  /\ Deficit(i, cart) # NoLines /\ SystemInventory(Vendor)
  /\ Begin(r, [op |-> "capitalize_deficit", id |-> i, lines |-> Deficit(i, cart), cart |-> cart])
  /\ UNCHANGED <<inv, transfers, stock, today, catalog>>

\* ... and posts what was missing then.
capitalize_deficit(r) ==
  /\ pending[r] # None /\ pending[r].op = "capitalize_deficit"
  /\ Len(transfers) < MaxTransfers
  /\ pending[r].id \in Rows
  /\ Post(InitialBalance(pending[r].id, pending[r].lines))
  /\ End(r)
  /\ UNCHANGED <<inv, today, catalog>>

\* The calendar.
NextDay ==
  /\ today < MaxDay /\ today' = today + 1
  /\ UNCHANGED <<inv, transfers, stock, pending, catalog>>

-----------------------------------------------------------------------------
Init ==
  /\ inv = [i \in Inventories |->
              CASE i = Vendor -> Row("VIRTUAL_VENDOR", SystemUser, None)
                [] i = Loss   -> Row("VIRTUAL_LOSS", SystemUser, None)
                [] OTHER      -> InitInv[i]]
  /\ transfers = <<>>
  /\ stock = [i \in Inventories |-> NoLines]
  /\ pending = [r \in Requests |-> None]
  /\ today = 1
  /\ catalog = [p \in Products |-> IF CatalogOpen THEN "ABSENT" ELSE "ACTIVE"]

ManageInventories ==
  /\ Managing
  /\ \/ \E i \in Inventories, u \in Users :
          \/ create_transport(i, u) \/ update_transport(i, u) \/ hand_over_warehouse(i, u)
          \/ create_client_inventory(i, u)
     \/ \E i \in Inventories : delete_transport(i) \/ archive_warehouse(i)

ManageCatalog ==
  /\ CatalogOpen
  /\ \E p \in Products :
       \/ archive_product(p) \/ hard_delete(p)
       \/ \E r \in Requests : add_product_check(r, p) \/ restore_product_check(r, p)

Containers == {lines \in [Products -> 0..MaxQty] : lines # NoLines
                 /\ \A p \in Products : lines[p] > 0 => \E q \in Products : Returnable[q] = p}

Carts == [Products -> 0..MaxQty] \ {NoLines}

Request(r) ==
  \/ \E i \in Inventories, u \in Users, n \in Names : create_warehouse_check(r, i, u, n)
  \/ add_product(r) \/ restore_product(r)
  \/ create_warehouse(r)
  \/ \E i \in Inventories, n \in Names : update_warehouse_check(r, i, n)
  \/ update_warehouse(r)
  \/ \E d \in Documents : create_transfer_check(r, d)
  \/ create_transfer(r)
  \/ \E u \in Clients, i \in Inventories, cart \in Carts : capitalize_deficit_check(r, u, i, cart)
  \/ capitalize_deficit(r)
  \/ RequestAborted(r)

Next ==
  \/ ManageInventories \/ ManageCatalog
  \/ \E r \in Requests : Request(r)
  \/ \E lines \in Containers : \/ \E i \in Inventories : capitalize_tara(i, lines)
                               \/ \E u \in Clients : capitalize_tara_for_client(u, lines)
  \/ NextDay

Spec == Init /\ [][Next]_invVars
=============================================================================

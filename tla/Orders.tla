------------------------------- MODULE Orders -------------------------------
(***************************************************************************)
(* The order service (BaseOrderService) with everything its handlers       *)
(* write: order rows and lines, the quota counters of the contract price   *)
(* list, the stock ledger and the money ledger.                            *)
(*                                                                         *)
(* A handler that begins with SELECT ... FOR UPDATE of an order is two     *)
(* steps: LockOrder (the row is locked; the contract joined to it is read  *)
(* without a lock) and the handler itself, which reads everything else     *)
(* fresh, commits and frees the row.  Between the two, statements with     *)
(* SKIP LOCKED pass over the order.  Rollback is a handler that raised.    *)
(***************************************************************************)
EXTENDS StockLedger, AccountLedger, Sequences

CONSTANTS Orders,        \* order ids
          Clients,       \* clients, the walk-in client included
          WalkIn,        \* WALKIN_USER_ID
          Couriers,      \* active couriers, each with an active vehicle
          Contracts,     \* contract ids
          Owner,         \* Owner[c]: the B2B client of contract c
          Warehouse, Vendor,        \* the inventories that are not a user's
          Revenue, Cash, Card,      \* the system accounts
          CatalogPrice,  \* CatalogPrice[p]
          Methods,       \* payment methods in use
          WarehouseOpen, \* whether warehouse sales are made
          OnboardingOpen, \* whether clients are onboarded with a first order
          MaxQty,        \* MaxQty[p], a bound: units of p in one order
          StaleLimit,    \* orders of one status that expire_stale_orders takes (500)
          InitStock,     \* initial stock of warehouse and vehicles
          None           \* null

ASSUME OrdersAssumption ==
  /\ IsFiniteSet(Orders)
  /\ Inventories = Clients \union Couriers \union {Warehouse, Vendor}
  /\ Accounts = Clients \union Couriers \union {Revenue, Cash, Card}
  /\ Virtual = {Vendor}
  /\ Clients \intersect Couriers = {}
  /\ {Warehouse, Vendor} \intersect (Clients \union Couriers) = {}
  /\ {Revenue, Cash, Card} \intersect (Clients \union Couriers) = {}
  /\ Warehouse # Vendor /\ Revenue \notin {Cash, Card} /\ Cash # Card
  /\ WalkIn \in Clients
  /\ Owner \in [Contracts -> Clients]
  /\ CatalogPrice \in [Products -> Nat]
  /\ InitStock \in [Couriers \union {Warehouse} -> [Products -> Nat]]
  /\ Methods \subseteq {"CASH", "CARD", "CONTRACT"}
  /\ WarehouseOpen \in BOOLEAN /\ OnboardingOpen \in BOOLEAN
  /\ MaxQty \in [Products -> Nat]
  /\ StaleLimit \in Nat \ {0}
  /\ None \notin Contracts \union Couriers \union Clients

VARIABLES
  status, client, pay, contract, courier,   \* orders, a function of the id each
  items, unit_price, total, reserved,       \* order_items, total_amount, quantities_reserved
  hold,        \* who holds the row lock: "free", or the contract status its holder read
  cancelling,  \* orders whose owner's cancel_order passed its unlocked status check
  stale,       \* orders past the age limit of expire_stale_orders
  con, ended,                               \* contracts: status, end_date passed
  pricelist, quantity, used, price,         \* contract_price_items
  scan, edit,                               \* contract jobs and price edits in flight
  stock, balance, txns,                     \* the two ledgers
  returns      \* stock_transfers of type CLIENT_RETURN, as they were written

orderVars    == <<status, client, pay, contract, courier, items, unit_price,
                  total, reserved>>
requestVars  == <<hold, cancelling, stale>>
contractVars == <<con, ended, scan>>
priceVars    == <<pricelist, quantity, price, edit>>
ledgerVars   == <<stock, balance, txns, returns>>
vars == <<orderVars, requestVars, contractVars, priceVars, used, ledgerVars>>

Statuses == {"NEW", "ASSIGNED", "IN_TRANSIT", "ARRIVED", "DELIVERED",
             "PICKUP_COMPLETED", "CANCELLED"}
Settled  == {"DELIVERED", "PICKUP_COMPLETED"}
Terminal == Settled \union {"CANCELLED"}
ContractStatuses == {"DRAFT", "ACTIVE", "SUSPENDED", "TERMINATED", "EXPIRED"}

Exists(o) == status[o] # "ABSENT"

-----------------------------------------------------------------------------
(* Status transitions *)

\* _DELIVERY_ALLOWED_TRANSITIONS; a status without an entry allows nothing.
Transitions ==
  [s \in Statuses |->
     CASE s = "NEW"        -> {"CANCELLED"}
       [] s = "ASSIGNED"   -> {"IN_TRANSIT", "CANCELLED"}
       [] s = "IN_TRANSIT" -> {"ARRIVED", "CANCELLED"}
       [] s = "ARRIVED"    -> {"DELIVERED", "CANCELLED"}
       [] OTHER            -> {}]

\* Mutants: NEW goes straight to IN_TRANSIT; a delivered order is cancelled.
AllowedStatuses_SkipAssigned(s) == Transitions[IF s = "NEW" THEN "ASSIGNED" ELSE s]
AllowedStatuses_Undo(s) == IF s = "DELIVERED" THEN {"CANCELLED"} ELSE Transitions[s]

\* _get_allowed_statuses.  Every pickup order is created PICKUP_COMPLETED, for
\* which _PICKUP_ALLOWED_TRANSITIONS allows nothing either.
AllowedStatuses(s) == Transitions[s]

\* Mutant: any status may be cancelled.
TransitionAllowed_CancelAny(s, new) == s = new \/ new = "CANCELLED" \/ new \in AllowedStatuses(s)

\* _ensure_status_transition_allowed: the current status is always accepted.
TransitionAllowed(s, new) == s = new \/ new \in AllowedStatuses(s)

-----------------------------------------------------------------------------
(* Quotas *)

\* Mutant: the request is compared with the limit, not with what is left.
QuotaAllows_IgnoresUsed(c, lines) ==
  \A p \in Products : lines[p] > 0 =>
    /\ <<c, p>> \in pricelist
    /\ quantity[c][p] = 0 \/ lines[p] <= quantity[c][p]

\* get_for_products_locked and the check of _check_and_reserve_quantities.
QuotaAllows(c, lines) ==
  \A p \in Products : lines[p] > 0 =>
    /\ <<c, p>> \in pricelist
    /\ quantity[c][p] = 0 \/ lines[p] <= quantity[c][p] - used[c][p]

\* Mutant: the counter is overwritten instead of incremented in the database.
Increment_LostUpdate(c, lines) ==
  [used EXCEPT ![c] = [p \in Products |-> IF lines[p] > 0 THEN lines[p] ELSE @[p]]]

\* increment_quantities_used
Increment(c, lines) == [used EXCEPT ![c] = Plus(@, lines)]

\* decrement_quantities_used raises when a price item is gone.
CanDecrement(c, lines) == \A p \in Products : lines[p] > 0 => <<c, p>> \in pricelist

\* Mutant: operands swapped.
Decreased_Swapped(n, d) == IF n > d THEN d - n ELSE 0

\* GREATEST(n - d, 0)
Decreased(n, d) == IF n > d THEN n - d ELSE 0

\* decrement_quantities_used
Decrement(c, lines) ==
  [used EXCEPT ![c] = [p \in Products |-> Decreased(@[p], lines[p])]]

\* The order holds quota: payment by contract, contract_id and the flag set.
HoldsQuota(o) == pay[o] = "CONTRACT" /\ contract[o] # None /\ reserved[o]

-----------------------------------------------------------------------------
(* Stock and money moved by an order *)

\* Per exchange item: what the client lacks, counting containers in the cart.
Shortage(cl, cart) ==
  [p \in Products |->
     IF cart[p] = 0 \/ Returnable[p] = NoProduct THEN 0
     ELSE Decreased(cart[p], stock[cl][Returnable[p]] + cart[Returnable[p]])]

\* INITIAL_BALANCE: Vendor -> client, for the shortages.
Capitalized(cl, cart) == Move(stock, Vendor, cl, ReturnableItems(Shortage(cl, cart)))

TareAccepted(cl, cart, capitalize) == Shortage(cl, cart) = NoLines \/ capitalize

\* Mutant: the delivery note leaves the containers out.
DeliveryLines_GoodsOnly(lines) == lines

\* CLIENT_DELIVERY courier -> client (goods and their containers), then
\* CLIENT_RETURN of the containers.
DeliveryLines(lines) == Plus(lines, ReturnableItems(lines))
DeliveryStock(k, cl, lines) ==
  Move(Move(stock, k, cl, DeliveryLines(lines)), cl, k, ReturnableItems(lines))
DeliveryStockOK(k, cl, lines) ==
  /\ \A p \in Products : lines[p] <= stock[k][p]
  /\ CanMove(stock, k, DeliveryLines(lines))
  /\ CanMove(Move(stock, k, cl, DeliveryLines(lines)), cl, ReturnableItems(lines))

\* Containers a pickup hands back: all of them for a named client; for a
\* walk-in only those not bought in the same cart.
PickupReturn(cl, lines) ==
  [t \in Products |-> IF cl = WalkIn /\ lines[t] > 0 THEN 0 ELSE ReturnableItems(lines)[t]]
PickupIssued(cl, lines) ==
  Plus(lines, IF cl = WalkIn THEN PickupReturn(cl, lines) ELSE ReturnableItems(lines))
\* INITIAL_BALANCE Vendor -> Warehouse for a named client's containers.
PickupSupplied(bal, cl, lines) ==
  IF cl = WalkIn THEN bal ELSE Move(bal, Vendor, Warehouse, ReturnableItems(lines))
PickupSold(bal, cl, lines) ==
  Move(PickupSupplied(bal, cl, lines), Warehouse, cl, PickupIssued(cl, lines))
PickupStock(bal, cl, lines) ==
  Move(PickupSold(bal, cl, lines), cl, Warehouse, PickupReturn(cl, lines))
PickupStockOK(bal, cl, lines) ==
  /\ \A p \in Products : lines[p] <= bal[Warehouse][p]
  /\ CanMove(PickupSupplied(bal, cl, lines), Warehouse, PickupIssued(cl, lines))
  /\ CanMove(PickupSold(bal, cl, lines), cl, PickupReturn(cl, lines))

\* Mutant: the document counts the containers of the order, not of the delivery.
ReturnedTo_AsOrdered(k, o, lines) ==
  Append(returns, [order |-> o, to |-> k, lines |-> ReturnableItems(items[o])])

\* The CLIENT_RETURN document of a delivery, written when there is a container.
ReturnedTo(k, o, lines) ==
  IF ReturnableItems(lines) = NoLines THEN returns
  ELSE Append(returns, [order |-> o, to |-> k, lines |-> ReturnableItems(lines)])

LineTotal(lines, prices) == SumOver([p \in Products |-> lines[p] * prices[p]], Products)

Txn(o, kind, from, to, amount, st) ==
  [order |-> o, kind |-> kind, from |-> from, to |-> to, amount |-> amount, status |-> st]

\* Mutant: cash is booked from the revenue account, not from the client.
SettlementRows_WrongPayer(o, cl, m, cashTo, amount) ==
  {Txn(o, "debt", Revenue, cl, amount, "COMPLETED")} \union
  (IF m = "CASH" THEN {Txn(o, "payment", Revenue, cashTo, amount, "COMPLETED")}
   ELSE IF m = "CARD" THEN {Txn(o, "payment", cl, Card, amount, "PENDING")}
   ELSE {})

\* Mutant: the payment is booked, the debt is not.
SettlementRows_NoDebt(o, cl, m, cashTo, amount) ==
  IF m = "CASH" THEN {Txn(o, "payment", cl, cashTo, amount, "COMPLETED")}
  ELSE IF m = "CARD" THEN {Txn(o, "payment", cl, Card, amount, "PENDING")} ELSE {}

\* Settlement of a completed order: the debt, and by payment method the
\* cash handed over to cashTo, a card transfer to verify, or nothing.
SettlementRows(o, cl, m, cashTo, amount) ==
  {Txn(o, "debt", Revenue, cl, amount, "COMPLETED")} \union
  (IF m = "CASH" THEN {Txn(o, "payment", cl, cashTo, amount, "COMPLETED")}
   ELSE IF m = "CARD" THEN {Txn(o, "payment", cl, Card, amount, "PENDING")}
   ELSE {})

Settle(rows) ==
  /\ \A t \in rows : TxnOK(t)
  /\ txns' = txns \union rows
  /\ balance' = Posted(balance, rows)

-----------------------------------------------------------------------------
(* Row locks *)

\* get_with_details(..., with_for_update=True): the lock covers the order row
\* only; the joined contract is what the session will keep showing.
LockOrder(o) ==
  /\ Exists(o) /\ hold[o] = "free"
  /\ hold' = [hold EXCEPT ![o] = IF contract[o] = None THEN "none" ELSE con[contract[o]]]
  /\ UNCHANGED <<orderVars, cancelling, stale, contractVars, priceVars, used, ledgerVars>>

Locked(o) == hold[o] # "free"
Unlock(o) == hold' = [hold EXCEPT ![o] = "free"]

\* A handler that raised: its transaction is rolled back.
Rollback(o) ==
  /\ Locked(o)
  /\ Unlock(o)
  /\ UNCHANGED <<orderVars, cancelling, stale, contractVars, priceVars, used, ledgerVars>>

-----------------------------------------------------------------------------
(* Creating orders *)

Carts ==
  {cart \in [Products -> UNION {0..MaxQty[p] : p \in Products}] :
     \A p \in Products : cart[p] <= MaxQty[p]} \ {NoLines}

InsertOrder(o, cl, m, c, cart, prices, s) ==
  /\ status[o] = "ABSENT"
  /\ status'     = [status EXCEPT ![o] = s]
  /\ client'     = [client EXCEPT ![o] = cl]
  /\ pay'        = [pay EXCEPT ![o] = m]
  /\ contract'   = [contract EXCEPT ![o] = c]
  /\ items'      = [items EXCEPT ![o] = cart]
  /\ unit_price' = [unit_price EXCEPT ![o] = prices]
  /\ total'      = [total EXCEPT ![o] = LineTotal(cart, prices)]
  /\ reserved'   = [reserved EXCEPT ![o] = c # None]
  /\ UNCHANGED <<courier, hold, cancelling, stale, contractVars, priceVars>>

\* create_order with payment CASH or CARD: catalogue prices.
create_order(o, cl, m, cart, capitalize) ==
  /\ m # "CONTRACT"
  /\ InsertOrder(o, cl, m, None, cart, CatalogPrice, "NEW")
  /\ TareAccepted(cl, cart, capitalize)
  /\ stock' = Capitalized(cl, cart)
  /\ UNCHANGED <<used, balance, txns, returns>>

\* create_order with payment CONTRACT: the client's contract and its price
\* items are locked, contract prices apply and the quota is reserved.
create_contract_order(o, cl, c, cart, capitalize) ==
  /\ Owner[c] = cl /\ con[c] = "ACTIVE" /\ ~ended[c]
  /\ InsertOrder(o, cl, "CONTRACT", c, cart, price[c], "NEW")
  /\ QuotaAllows(c, cart)
  /\ TareAccepted(cl, cart, capitalize)
  /\ used' = Increment(c, cart)
  /\ stock' = Capitalized(cl, cart)
  /\ UNCHANGED <<balance, txns, returns>>

\* create_warehouse_sale: sold, handed over and paid in cash in one
\* transaction.  The container check is skipped for a walk-in.
create_warehouse_sale(o, cl, cart, capitalize) ==
  LET bal == IF cl = WalkIn THEN stock ELSE Capitalized(cl, cart)
  IN  /\ WarehouseOpen
      /\ InsertOrder(o, cl, "CASH", None, cart, CatalogPrice, "PICKUP_COMPLETED")
      /\ cl = WalkIn \/ TareAccepted(cl, cart, capitalize)
      /\ PickupStockOK(bal, cl, cart)
      /\ stock' = PickupStock(bal, cl, cart)
      /\ Settle(SettlementRows(o, cl, "CASH", Cash, LineTotal(cart, CatalogPrice)))
      /\ UNCHANGED <<used, returns>>

\* onboard_client_with_balance: a client who has nothing yet is created with
\* an initial balance of containers and a first order, at catalogue prices,
\* for any payment method, with neither contract nor container check.
InitialBalances ==
  {NoLines} \union
    UNION {{[NoLines EXCEPT ![t] = n] : n \in 0..MaxQty[t]} :
             t \in {u \in Products : \E p \in Products : Returnable[p] = u}}
onboard_client_with_balance(o, cl, m, cart, initial) ==
  /\ OnboardingOpen /\ cl # WalkIn /\ stock[cl] = NoLines
  /\ \A x \in Orders : client[x] # cl
  /\ \A c \in Contracts : Owner[c] = cl => con[c] = "ABSENT"
  /\ InsertOrder(o, cl, m, None, cart, CatalogPrice, "NEW")
  /\ stock' = Move(stock, Vendor, cl, initial)
  /\ UNCHANGED <<used, balance, txns, returns>>

-----------------------------------------------------------------------------
(* Changing an order that is still NEW *)

\* Mutant: the sum is not recalculated.
AmountToAdd_Forgotten(unit, n) == 0

AmountToAdd(unit, n) == unit * n

\* add_product_to_order.  For a contract order the status tested is the one
\* read when the order was locked; price and quota are read fresh.  A line
\* that exists keeps its unit price while the sum grows by today's price.
add_product_to_order(o, p, n) ==
  LET viaContract == pay[o] = "CONTRACT" /\ contract[o] # None
      one         == [NoLines EXCEPT ![p] = n]
      today       == IF viaContract THEN price[contract[o]][p] ELSE CatalogPrice[p]
  IN  /\ Locked(o) /\ status[o] = "NEW"
      /\ items[o][p] + n <= MaxQty[p]
      /\ IF viaContract
           THEN /\ hold[o] = "ACTIVE"
                /\ QuotaAllows(contract[o], one)
                /\ used' = Increment(contract[o], one)
                /\ reserved' = [reserved EXCEPT ![o] = TRUE]
           ELSE UNCHANGED <<used, reserved>>
      /\ items' = [items EXCEPT ![o][p] = @ + n]
      /\ unit_price' = [unit_price EXCEPT ![o][p] = IF items[o][p] > 0 THEN @ ELSE today]
      /\ total' = [total EXCEPT ![o] = @ + AmountToAdd(today, n)]
      /\ Unlock(o)
      /\ UNCHANGED <<status, client, pay, contract, courier, cancelling, stale,
                     contractVars, priceVars, ledgerVars>>

\* remove_product_from_order: the whole line, never the last one.
remove_product_from_order(o, p) ==
  LET line == [NoLines EXCEPT ![p] = items[o][p]]
  IN  /\ Locked(o) /\ status[o] = "NEW"
      /\ items[o][p] > 0
      /\ \E q \in Products \ {p} : items[o][q] > 0
      /\ IF HoldsQuota(o)
           THEN CanDecrement(contract[o], line) /\ used' = Decrement(contract[o], line)
           ELSE UNCHANGED used
      /\ items' = [items EXCEPT ![o][p] = 0]
      /\ total' = [total EXCEPT ![o] = Decreased(@, unit_price[o][p] * items[o][p])]
      /\ Unlock(o)
      /\ UNCHANGED <<status, client, pay, contract, courier, unit_price, reserved,
                     cancelling, stale, contractVars, priceVars, ledgerVars>>

-----------------------------------------------------------------------------
(* Moving an order along *)

\* assign_courier: NEW and ASSIGNED only.  The update renews updated_at.
assign_courier(o, k) ==
  /\ Locked(o) /\ status[o] \in {"NEW", "ASSIGNED"}
  /\ status'  = [status EXCEPT ![o] = "ASSIGNED"]
  /\ courier' = [courier EXCEPT ![o] = k]
  /\ stale'   = stale \ {o}
  /\ Unlock(o)
  /\ UNCHANGED <<client, pay, contract, items, unit_price, total, reserved, cancelling,
                 contractVars, priceVars, used, ledgerVars>>

\* update_status to a status without side effects: IN_TRANSIT, ARRIVED, or
\* the status the order already has.
update_status(o, new) ==
  /\ Locked(o)
  /\ TransitionAllowed(status[o], new)
  /\ new \in {"IN_TRANSIT", "ARRIVED", status[o]}
  /\ status' = [status EXCEPT ![o] = new]
  /\ stale'  = IF new = "NEW" THEN stale ELSE stale \ {o}
  /\ Unlock(o)
  /\ UNCHANGED <<client, pay, contract, courier, items, unit_price, total, reserved,
                 cancelling, contractVars, priceVars, used, ledgerVars>>

\* update_status(DELIVERED) with _handle_order_fulfillment.  corrected: the
\* courier reported actual quantities (a line cannot drop to zero, CHECK
\* quantity > 0), so the sum is recomputed and the quota not delivered is
\* given back; otherwise lines and sum stand as ordered.
deliver_order(o, actual, corrected) ==
  LET k     == courier[o]
      missing == [p \in Products |-> items[o][p] - actual[p]]
      amount  == IF corrected THEN LineTotal(actual, unit_price[o]) ELSE total[o]
  IN  /\ Locked(o)
      /\ status[o] # "DELIVERED" /\ TransitionAllowed(status[o], "DELIVERED")
      /\ k # None
      /\ \A p \in Products : IF items[o][p] = 0 THEN actual[p] = 0
                              ELSE actual[p] \in 1..items[o][p]
      /\ corrected \/ actual = items[o]
      /\ DeliveryStockOK(k, client[o], actual)
      /\ IF pay[o] = "CONTRACT" /\ contract[o] # None /\ missing # NoLines
           THEN CanDecrement(contract[o], missing) /\ used' = Decrement(contract[o], missing)
           ELSE UNCHANGED used
      /\ status' = [status EXCEPT ![o] = "DELIVERED"]
      /\ items'  = [items EXCEPT ![o] = actual]
      /\ total'  = [total EXCEPT ![o] = amount]
      /\ stock'  = DeliveryStock(k, client[o], actual)
      /\ returns' = ReturnedTo(k, o, actual)
      /\ Settle(SettlementRows(o, client[o], pay[o], k, amount))
      /\ stale'  = stale \ {o}
      /\ Unlock(o)
      /\ UNCHANGED <<client, pay, contract, courier, unit_price, reserved, cancelling,
                     contractVars, priceVars>>

-----------------------------------------------------------------------------
(* Cancelling *)

\* Mutant: a line overwrites the total of its product instead of adding to it.
QuotaOf_Overwritten(H, c) ==
  [p \in Products |->
     LET amounts == {items[o][p] : o \in {x \in H : contract[x] = c}} \union {0}
     IN  CHOOSE n \in amounts : \A k \in amounts : k <= n]

\* What the orders of H that belong to contract c ordered, per product.
QuotaOf(H, c) ==
  [p \in Products |-> SumOver([o \in Orders |-> items[o][p]], {o \in H : contract[o] = c})]

\* update_status(CANCELLED): quota given back once, guarded by the flag.
CancelOrder(o) ==
  /\ Locked(o)
  /\ TransitionAllowed(status[o], "CANCELLED")
  /\ IF status[o] # "CANCELLED" /\ HoldsQuota(o)
       THEN /\ CanDecrement(contract[o], items[o])
            /\ used' = Decrement(contract[o], items[o])
            /\ reserved' = [reserved EXCEPT ![o] = FALSE]
       ELSE UNCHANGED <<used, reserved>>
  /\ status' = [status EXCEPT ![o] = "CANCELLED"]
  /\ stale'  = stale \ {o}
  /\ Unlock(o)
  /\ UNCHANGED <<client, pay, contract, courier, items, unit_price, total,
                 contractVars, priceVars, ledgerVars>>

\* Back office or the order's courier.
cancel_by_staff(o) == CancelOrder(o) /\ UNCHANGED cancelling

\* cancel_order, first transaction: the owner's request, status read unlocked.
cancel_order_check(o) ==
  /\ status[o] = "NEW" /\ o \notin cancelling
  /\ cancelling' = cancelling \union {o}
  /\ UNCHANGED <<orderVars, hold, stale, contractVars, priceVars, used, ledgerVars>>

\* cancel_order, second transaction: update_status(CANCELLED) as the owner.
cancel_order(o) ==
  /\ o \in cancelling
  /\ CancelOrder(o)
  /\ cancelling' = cancelling \ {o}

\* ... which raises when the order has been settled meanwhile.
cancel_order_refused(o) ==
  /\ o \in cancelling /\ Locked(o)
  /\ ~TransitionAllowed(status[o], "CANCELLED")
  /\ cancelling' = cancelling \ {o}
  /\ Unlock(o)
  /\ UNCHANGED <<orderVars, stale, contractVars, priceVars, used, ledgerVars>>

\* Time passes: the order exceeds the age limit of its status.
Age(o) ==
  /\ status[o] \in {"NEW", "ASSIGNED"} /\ o \notin stale
  /\ stale' = stale \union {o}
  /\ UNCHANGED <<orderVars, hold, cancelling, contractVars, priceVars, used, ledgerVars>>

\* Mutant: the flag stays set.
CancelAll_KeepsFlag(S, H) ==
  /\ status'   = [o \in Orders |-> IF o \in S THEN "CANCELLED" ELSE status[o]]
  /\ \A c \in Contracts : CanDecrement(c, QuotaOf(H, c))
  /\ used'     = [c \in Contracts |-> [p \in Products |->
                    Decreased(used[c][p], QuotaOf(H, c)[p])]]
  /\ stale'    = stale \ S
  /\ UNCHANGED <<client, pay, contract, courier, items, unit_price, total, reserved>>

\* Orders of S are cancelled in one transaction, and those of H, which is a
\* part of S, give their quota back and lose the flag: the common part of the
\* jobs and of the contract operations.
CancelAll(S, H) ==
  /\ status'   = [o \in Orders |-> IF o \in S THEN "CANCELLED" ELSE status[o]]
  /\ reserved' = [o \in Orders |-> reserved[o] /\ o \notin H]
  /\ \A c \in Contracts : CanDecrement(c, QuotaOf(H, c))
  /\ used'     = [c \in Contracts |-> [p \in Products |->
                    Decreased(used[c][p], QuotaOf(H, c)[p])]]
  /\ stale'    = stale \ S
  /\ UNCHANGED <<client, pay, contract, courier, items, unit_price, total>>

\* Mutant: only the NEW batch is queried.
StaleOrders_NewOnly == {o \in stale : hold[o] = "free" /\ status[o] = "NEW"}

\* get_stale_orders: NEW or ASSIGNED orders past the age limit, not locked.
StaleOrders == {o \in stale : hold[o] = "free" /\ status[o] \in {"NEW", "ASSIGNED"}}

\* What one call of the job may take: at most StaleLimit orders of each status.
StaleBatches ==
  {S \in SUBSET StaleOrders : \A s \in {"NEW", "ASSIGNED"} :
     LET A == {o \in StaleOrders : status[o] = s}
     IN  IF Cardinality(A) <= StaleLimit THEN A \subseteq S
         ELSE Cardinality(A \intersect S) = StaleLimit}

expire_stale_orders ==
  \E S \in StaleBatches :
    /\ S # {}
    /\ CancelAll(S, {o \in S : HoldsQuota(o)})
    /\ UNCHANGED <<hold, cancelling, contractVars, priceVars, ledgerVars>>
=============================================================================

---------------------------- MODULE OrderTheorems ----------------------------
(***************************************************************************)
(* What rests on OrderStep and OrderInv: contracts, couriers and quotas,   *)
(* then the refinement of Deals, the client's balance, and the dashboards' *)
(* reports on turnover and on the fleet.                                   *)
(*                                                                         *)
(* ContractStep says what a step of OrderSystem may do to the contract     *)
(* statuses, CourierStep what it may do to an order's courier and          *)
(* QuotaStep what it may do to a price item and to what orders hold of it, *)
(* PricedStep to an order's sum, GoodsStep to a client's inventory and     *)
(* VehicleStep to a courier's vehicle.                                     *)
(* For Deals, the six kinds of OrderStep map to opening, closing and       *)
(* dropping deals, or to a stuttering step; OrderInv says that an order    *)
(* that is not settled has no debt row yet and that decisions never touch  *)
(* one.                                                                    *)
(***************************************************************************)
EXTENDS OrderProofs, OrderDeals, OrderReports

Closed == {"TERMINATED", "EXPIRED"}

\* A contract becomes ACTIVE when no other contract of the client is, and
\* only from DRAFT or SUSPENDED.
MadeActive(c) ==
  /\ con[c] \in {"DRAFT", "SUSPENDED"} /\ ~OtherActive(c)
  /\ con' = [con EXCEPT ![c] = "ACTIVE"]

\* Contracts are created or leave ACTIVE and SUSPENDED; a closed one stays closed.
NoneMadeActive ==
  \A c \in Contracts : /\ con'[c] = "ACTIVE" => con[c] = "ACTIVE"
                       /\ con[c] \in Closed => con'[c] \in Closed

ContractStep == (\E c \in Contracts : MadeActive(c)) \/ NoneMadeActive

\* Leaving the statuses alone makes none active.
LEMMA SameStatuses ==
  ASSUME con' = con
  PROVE  ContractStep
BY DEF ContractStep, NoneMadeActive

\* Placing an order leaves contracts alone.
LEMMA PlaceOrderCon ==
  ASSUME NEW o \in Orders, PlaceOrder(o)
  PROVE  con' = con
BY DEF PlaceOrder, create_order, create_contract_order, create_warehouse_sale,
       onboard_client_with_balance, InsertOrder, contractVars

\* So does every other operation on an order.
LEMMA ChangeOrderCon ==
  ASSUME NEW o \in Orders, ChangeOrder(o)
  PROVE  con' = con
BY DEF ChangeOrder, LockOrder, Rollback, add_product_to_order, remove_product_from_order,
       assign_courier, update_status, deliver_order, cancel_by_staff, cancel_order_check,
       cancel_order, cancel_order_refused, CancelOrder, Age, contractVars

\* The lifecycle of contracts.
LEMMA ChangeContractStep ==
  ASSUME TypeOK, NEW c \in Contracts, ChangeContract(c)
  PROVE  ContractStep
<1>1. CASE create_contract(c)
  BY <1>1 DEF create_contract, ContractStep, NoneMadeActive, Closed, TypeOK
<1>2. CASE activate_contract(c)
  BY <1>2 DEF activate_contract, SetContractStatus, ContractStep, MadeActive
<1>3. CASE suspend_contract(c)
  BY <1>3 DEF suspend_contract, SetContractStatus, ContractStep, NoneMadeActive, Closed, TypeOK
<1>4. CASE reinstate_contract(c)
  BY <1>4 DEF reinstate_contract, SetContractStatus, ContractStep, MadeActive
<1>5. CASE terminate_contract(c)
  BY <1>5 DEF terminate_contract, SetContractStatus, ContractStep, NoneMadeActive, Closed, TypeOK
<1>6. CASE (\E past \in BOOLEAN : update_contract(c, past)) \/ EndDatePasses(c)
  BY <1>6, SameStatuses DEF update_contract, EndDatePasses
<1> QED
  BY <1>1, <1>2, <1>3, <1>4, <1>5, <1>6 DEF ChangeContract

\* Every step of the system.
LEMMA NextContractStep ==
  ASSUME TypeOK, Next
  PROVE  ContractStep
<1>1. ASSUME NEW o \in Orders, PlaceOrder(o) \/ ChangeOrder(o) PROVE ContractStep
  BY <1>1, PlaceOrderCon, ChangeOrderCon, SameStatuses
<1>2. ASSUME NEW c \in Contracts, ChangeContract(c) PROVE ContractStep
  BY <1>2, ChangeContractStep
<1>3. CASE ChangePrices
  BY <1>3, SameStatuses DEF ChangePrices, price_item_check, set_price_item, remove_price_item,
     price_item_aborted, contractVars
<1>4. CASE expire_stale_orders
  BY <1>4, SameStatuses DEF expire_stale_orders, contractVars
<1>5. CASE run_expire_job
  BY <1>5 DEF run_expire_job, ContractStep, NoneMadeActive, Closed, TypeOK
<1>6. CASE run_expire_job_scan \/ run_expire_job_aborted
  BY <1>6, SameStatuses DEF run_expire_job_scan, run_expire_job_aborted
<1>7. ASSUME NEW t \in txns, verify_transaction(t) \/ reject_transaction(t) PROVE ContractStep
  BY <1>7, SameStatuses DEF verify_transaction, reject_transaction, DecideTxn, contractVars
<1> QED
  BY <1>1, <1>2, <1>3, <1>4, <1>5, <1>6, <1>7 DEF Next, Jobs

\* No step makes a second contract of a client active.
LEMMA StepOneActive ==
  ASSUME TypeOK, OneActiveContract, ContractStep
  PROVE  OneActiveContract'
<1>1. ASSUME NEW c \in Contracts, MadeActive(c) PROVE OneActiveContract'
  BY <1>1 DEF MadeActive, OtherActive, OneActiveContract, TypeOK
<1>2. CASE NoneMadeActive
  BY <1>2 DEF NoneMadeActive, OneActiveContract
<1> QED
  BY <1>1, <1>2 DEF ContractStep

-----------------------------------------------------------------------------
(* Couriers *)

OnTheWay == {"ASSIGNED", "IN_TRANSIT", "ARRIVED", "DELIVERED"}

\* An order gets on the way only with a courier, and keeps him.
CourierStep ==
  \A o \in Orders : status'[o] \in OnTheWay =>
    \/ courier'[o] \in Couriers
    \/ status[o] \in OnTheWay /\ courier'[o] = courier[o]

\* Leaving couriers alone while no order gets on the way is a CourierStep.
LEMMA SameCouriers ==
  ASSUME courier' = courier,
         \A o \in Orders : status'[o] \in {status[o], "NEW", "PICKUP_COMPLETED", "CANCELLED"}
  PROVE  CourierStep
BY DEF CourierStep, OnTheWay

\* Placing an order.
LEMMA PlaceOrderCourier ==
  ASSUME TypeOK, NEW o \in Orders, PlaceOrder(o)
  PROVE  CourierStep
<1>1. courier' = courier
  BY DEF PlaceOrder, create_order, create_contract_order, create_warehouse_sale,
         onboard_client_with_balance, InsertOrder
<1>2. \E s \in {"NEW", "PICKUP_COMPLETED"} : status' = [status EXCEPT ![o] = s]
  BY DEF PlaceOrder, create_order, create_contract_order, create_warehouse_sale,
         onboard_client_with_balance, InsertOrder
<1> QED
  BY <1>1, <1>2, SameCouriers DEF TypeOK

\* Moving it along: only assign_courier starts from NEW.
LEMMA ChangeOrderCourier ==
  ASSUME TypeOK, OrdersWellFormed, NEW o \in Orders, ChangeOrder(o)
  PROVE  CourierStep
<1>1. CASE \E k \in Couriers : assign_courier(o, k)
  BY <1>1 DEF assign_courier, CourierStep, OnTheWay, TypeOK
<1>2. CASE \E new \in Statuses : update_status(o, new)
  <2>1. PICK new \in Statuses : update_status(o, new)
    BY <1>2
  <2>2. status[o] \in Statuses
    BY <2>1 DEF update_status, OrdersWellFormed, TypeOK, Exists
  <2>3. new = status[o] \/ status[o] \in OnTheWay
    BY <2>1, <2>2 DEF update_status, TransitionAllowed, AllowedStatuses, Transitions, Statuses, OnTheWay
  <2> QED
    BY <2>1, <2>3 DEF update_status, CourierStep, OnTheWay, TypeOK
<1>3. CASE \E actual \in Carts, corrected \in BOOLEAN : deliver_order(o, actual, corrected)
  <2>1. PICK actual \in Carts, corrected \in BOOLEAN : deliver_order(o, actual, corrected)
    BY <1>3
  <2>2. /\ courier[o] # None /\ courier' = courier
        /\ status' = [status EXCEPT ![o] = "DELIVERED"]
    BY <2>1, Zenon DEF deliver_order
  <2> QED
    BY <2>2 DEF CourierStep, OnTheWay, TypeOK
<1>4. CASE cancel_by_staff(o) \/ cancel_order(o)
  BY <1>4, SameCouriers DEF cancel_by_staff, cancel_order, CancelOrder, TypeOK
<1>5. CASE \E p \in Products : \/ \E n \in 1..MaxQty[p] : add_product_to_order(o, p, n)
                               \/ remove_product_from_order(o, p)
  <2>1. status' = status /\ courier' = courier
    BY <1>5 DEF add_product_to_order, remove_product_from_order
  <2> QED
    BY <2>1, SameCouriers
<1>6. CASE LockOrder(o) \/ Rollback(o) \/ cancel_order_check(o) \/ cancel_order_refused(o) \/ Age(o)
  BY <1>6, SameCouriers DEF LockOrder, Rollback, cancel_order_check, cancel_order_refused, Age, orderVars
<1> QED
  BY <1>1, <1>2, <1>3, <1>4, <1>5, <1>6 DEF ChangeOrder

\* Orders cancelled together.
LEMMA CancelAllCourier ==
  ASSUME TypeOK, NEW S, NEW H, CancelAll(S, H)
  PROVE  CourierStep
BY SameCouriers DEF CancelAll, TypeOK

\* Every step of the system.
LEMMA NextCourierStep ==
  ASSUME TypeOK, OrdersWellFormed, Next
  PROVE  CourierStep
<1>1. ASSUME NEW o \in Orders, PlaceOrder(o) \/ ChangeOrder(o) PROVE CourierStep
  BY <1>1, PlaceOrderCourier, ChangeOrderCourier
<1>2. ASSUME NEW c \in Contracts, ChangeContract(c) PROVE CourierStep
  <2>1. CASE suspend_contract(c) \/ terminate_contract(c)
    BY <2>1, CancelAllCourier DEF suspend_contract, terminate_contract, CancelInflight
  <2>2. CASE ~(suspend_contract(c) \/ terminate_contract(c))
    BY <1>2, <2>2, SameCouriers DEF ChangeContract, create_contract, activate_contract,
       reinstate_contract, update_contract, EndDatePasses, orderVars
  <2> QED
    BY <2>1, <2>2
<1>3. CASE ChangePrices
  BY <1>3, SameCouriers DEF ChangePrices, price_item_check, set_price_item, remove_price_item,
     price_item_aborted, orderVars
<1>4. CASE expire_stale_orders \/ run_expire_job
  BY <1>4, CancelAllCourier DEF expire_stale_orders, run_expire_job, CancelInflight
<1>5. CASE run_expire_job_scan \/ run_expire_job_aborted
  BY <1>5, SameCouriers DEF run_expire_job_scan, run_expire_job_aborted, orderVars
<1>6. ASSUME NEW t \in txns, verify_transaction(t) \/ reject_transaction(t) PROVE CourierStep
  BY <1>6, SameCouriers DEF verify_transaction, reject_transaction, DecideTxn, orderVars
<1> QED
  BY <1>1, <1>2, <1>3, <1>4, <1>5, <1>6 DEF Next, Jobs

-----------------------------------------------------------------------------
(* Quotas *)

\* What order o holds of the quota of product p in contract c.
Booked(o, c, p) == IF reserved[o] /\ contract[o] = c THEN items[o][p] ELSE 0

\* What all orders hold: Held, as a sum over all orders.
BookedSum(c, p) == SumOver([o \in Orders |-> Booked(o, c, p)], Orders)

\* A product with used quota is on the price list.
UsedIsListed ==
  \A c \in Contracts, p \in Products : used[c][p] > 0 => <<c, p>> \in pricelist

\* An order that does not exist holds nothing.
AbsentUnbooked == \A o \in Orders : ~Exists(o) => ~reserved[o]

\* The price item keeps its row.
ItemKept(c, p) ==
  quantity'[c][p] = quantity[c][p] /\ (<<c, p>> \in pricelist' <=> <<c, p>> \in pricelist)

\* Orders take n units more, which the quota allows; with n = 0, nothing happens.
Taken(c, p, n) ==
  /\ n > 0 => <<c, p>> \in pricelist
               /\ (quantity[c][p] = 0 \/ n <= quantity[c][p] - used[c][p])
  /\ BookedSum(c, p)' = BookedSum(c, p) + n
  /\ used'[c][p] = used[c][p] + n
  /\ ItemKept(c, p)

\* Orders give n units back.
GivenBack(c, p, n) ==
  /\ n <= BookedSum(c, p) /\ BookedSum(c, p)' = BookedSum(c, p) - n
  /\ used'[c][p] = Decreased(used[c][p], n)
  /\ ItemKept(c, p)

\* The price item is written.
ItemWritten(c, p) ==
  /\ BookedSum(c, p)' = BookedSum(c, p) /\ used'[c][p] = used[c][p]
  /\ <<c, p>> \in pricelist'

\* The price item is deleted with its counter.
ItemRemoved(c, p) ==
  /\ BookedSum(c, p)' = BookedSum(c, p) /\ used'[c][p] = 0 /\ quantity'[c][p] = 0
  /\ <<c, p>> \notin pricelist'

\* What a step may do to each price item.
QuotaStep ==
  \A c \in Contracts, p \in Products :
    \/ \E n \in Nat : Taken(c, p, n) \/ GivenBack(c, p, n)
    \/ ItemWritten(c, p)
    \/ ItemRemoved(c, p)

\* What an order holds is a natural number, and so is the sum.
LEMMA HeldType ==
  ASSUME TypeOK, NEW c, NEW p \in Products
  PROVE  /\ IsSummable([o \in Orders |-> Booked(o, c, p)], Orders)
         /\ BookedSum(c, p) \in Nat
<1>1. \A o \in Orders : Booked(o, c, p) \in Nat
  BY DEF Booked, TypeOK, Lines
<1>2. IsSummable([o \in Orders |-> Booked(o, c, p)], Orders)
  BY <1>1, OrdersAssumption DEF IsSummable
<1> QED
  BY <1>2, SumNat DEF BookedSum

\* What the orders hold depends on flag, contract and lines only.
LEMMA HeldSame ==
  ASSUME NEW c, NEW p,
         \A o \in Orders : Booked(o, c, p)' = Booked(o, c, p)
  PROVE  BookedSum(c, p)' = BookedSum(c, p)
<1>1. [o \in Orders |-> Booked(o, c, p)'] = [o \in Orders |-> Booked(o, c, p)]
  OBVIOUS
<1> QED
  BY <1>1 DEF BookedSum

\* One order changes what it holds.
LEMMA HeldOne ==
  ASSUME TypeOK, TypeOK', NEW o \in Orders, NEW c, NEW p \in Products,
         \A x \in Orders : x # o => Booked(x, c, p)' = Booked(x, c, p)
  PROVE  /\ Booked(o, c, p) \in Nat /\ Booked(o, c, p)' \in Nat
         /\ BookedSum(c, p) \in Nat /\ Booked(o, c, p) <= BookedSum(c, p)
         /\ BookedSum(c, p)' = BookedSum(c, p) - Booked(o, c, p) + Booked(o, c, p)'
<1> DEFINE f == [x \in Orders |-> Booked(x, c, p)]
           g == [x \in Orders |-> Booked(x, c, p)']
<1>1. IsSummable(f, Orders)
  BY HeldType
<1>2. Booked(o, c, p) \in Nat /\ Booked(o, c, p)' \in Nat
  BY DEF Booked, TypeOK, Lines
<1>3. f[o] = Booked(o, c, p) /\ g[o] = Booked(o, c, p)'
      /\ \A x \in Orders : x # o => g[x] = f[x]
  OBVIOUS
<1>4. BookedSum(c, p) = SumOver(f, Orders) /\ BookedSum(c, p)' = SumOver(g, Orders)
  BY DEF BookedSum
<1> HIDE DEF f, g
<1>5. SumMoves(f, g, Orders, o)
  BY <1>1, <1>2, <1>3, SumChange, Zenon
<1> QED
  BY <1>2, <1>3, <1>4, <1>5 DEF SumMoves

\* The orders of H lose their flag together.
LEMMA HeldMinus ==
  ASSUME TypeOK, NEW H, H \subseteq Orders, \A o \in H : reserved[o],
         reserved' = [o \in Orders |-> reserved[o] /\ o \notin H],
         UNCHANGED <<contract, items>>, NEW c, NEW p \in Products
  PROVE  /\ QuotaOf(H, c)[p] \in Nat /\ BookedSum(c, p) \in Nat /\ QuotaOf(H, c)[p] <= BookedSum(c, p)
         /\ BookedSum(c, p)' = BookedSum(c, p) - QuotaOf(H, c)[p]
<1> DEFINE f == [x \in Orders |-> Booked(x, c, p)]
           g == [x \in Orders |-> Booked(x, c, p)']
           h == [x \in Orders |-> items[x][p]]
           T == {o \in H : contract[o] = c}
<1>1. IsSummable(f, Orders)
  BY HeldType
<1>2. /\ T \subseteq Orders
      /\ \A x \in T : f[x] = h[x] /\ g[x] = 0
      /\ \A x \in Orders \ T : g[x] = f[x]
  BY DEF Booked
<1>3. /\ BookedSum(c, p) = SumOver(f, Orders) /\ BookedSum(c, p)' = SumOver(g, Orders)
      /\ QuotaOf(H, c)[p] = SumOver(h, T)
  BY DEF BookedSum, QuotaOf
<1> HIDE DEF f, g, h, T
<1>4. SumOver(f, T) = SumOver(h, T)
  BY <1>2, SumSame
<1>5. SumOver(g, Orders) = SumOver(f, Orders \ T)
  <2>1. Orders \ T \subseteq Orders /\ \A x \in Orders \ (Orders \ T) : g[x] = 0
    BY <1>2
  <2> QED
    BY <1>2, <2>1, SumPart
<1>6. /\ SumOver(f, Orders) = SumOver(f, T) + SumOver(f, Orders \ T)
      /\ SumOver(f, T) \in Nat /\ SumOver(f, Orders \ T) \in Nat
  BY <1>1, <1>2, SumSplit
<1> QED
  BY <1>3, <1>4, <1>5, <1>6

\* A step that touches neither counters, nor price items, nor what any order holds.
LEMMA QuotaIdle ==
  ASSUME TypeOK, UNCHANGED <<used, pricelist, quantity>>,
         \A o \in Orders, c \in Contracts, p \in Products :
           Booked(o, c, p)' = Booked(o, c, p)
  PROVE  QuotaStep
<1> SUFFICES ASSUME NEW c \in Contracts, NEW p \in Products
             PROVE  Taken(c, p, 0)
  BY DEF QuotaStep
<1>1. BookedSum(c, p)' = BookedSum(c, p) /\ BookedSum(c, p) \in Nat
  BY HeldSame, HeldType
<1>2. used[c][p] \in Nat
  BY DEF TypeOK, Lines
<1> QED
  BY <1>1, <1>2 DEF Taken, ItemKept

\* One order takes lines of contract c.
LEMMA QuotaTaken ==
  ASSUME TypeOK, TypeOK', NEW o \in Orders, NEW c \in Contracts, NEW lines \in Lines,
         QuotaAllows(c, lines), used' = Increment(c, lines), UNCHANGED <<pricelist, quantity>>,
         \A p \in Products : Booked(o, c, p)' = Booked(o, c, p) + lines[p],
         \A d \in Contracts, p \in Products : d # c => Booked(o, d, p)' = Booked(o, d, p),
         \A x \in Orders, d \in Contracts, p \in Products :
           x # o => Booked(x, d, p)' = Booked(x, d, p)
  PROVE  QuotaStep
<1> SUFFICES ASSUME NEW d \in Contracts, NEW p \in Products
             PROVE  \E n \in Nat : Taken(d, p, n)
  BY DEF QuotaStep
<1>1. lines[p] \in Nat /\ used[d][p] \in Nat
  BY DEF TypeOK, Lines
<1>2. /\ Booked(o, d, p) \in Nat /\ BookedSum(d, p) \in Nat
      /\ BookedSum(d, p)' = BookedSum(d, p) - Booked(o, d, p) + Booked(o, d, p)'
  BY HeldOne
<1>3. CASE d = c
  <2>1. BookedSum(d, p)' = BookedSum(d, p) + lines[p]
    BY <1>1, <1>2, <1>3
  <2>2. used'[d][p] = used[d][p] + lines[p]
    BY <1>3 DEF Increment, Plus, TypeOK
  <2>3. lines[p] > 0 => <<d, p>> \in pricelist
                        /\ (quantity[d][p] = 0 \/ lines[p] <= quantity[d][p] - used[d][p])
    BY <1>3 DEF QuotaAllows
  <2>4. Taken(d, p, lines[p])
    BY <2>1, <2>2, <2>3 DEF Taken, ItemKept
  <2> QED
    BY <1>1, <2>4
<1>4. CASE d # c
  <2>1. BookedSum(d, p)' = BookedSum(d, p)
    BY <1>2, <1>4
  <2>2. used'[d][p] = used[d][p]
    BY <1>4 DEF Increment, TypeOK
  <2>3. Taken(d, p, 0)
    BY <1>1, <1>2, <2>1, <2>2 DEF Taken, ItemKept
  <2> QED
    BY <2>3
<1> QED
  BY <1>3, <1>4

\* One order gives lines of contract c back.
LEMMA QuotaReturned ==
  ASSUME TypeOK, TypeOK', NEW o \in Orders, NEW c \in Contracts, NEW lines \in Lines,
         used' = Decrement(c, lines), UNCHANGED <<pricelist, quantity>>,
         \A p \in Products : /\ lines[p] <= Booked(o, c, p)
                             /\ Booked(o, c, p)' = Booked(o, c, p) - lines[p],
         \A d \in Contracts, p \in Products : d # c => Booked(o, d, p)' = Booked(o, d, p),
         \A x \in Orders, d \in Contracts, p \in Products :
           x # o => Booked(x, d, p)' = Booked(x, d, p)
  PROVE  QuotaStep
<1> SUFFICES ASSUME NEW d \in Contracts, NEW p \in Products
             PROVE  \E n \in Nat : Taken(d, p, n) \/ GivenBack(d, p, n)
  BY DEF QuotaStep
<1>1. lines[p] \in Nat /\ used[d][p] \in Nat
  BY DEF TypeOK, Lines
<1>2. /\ Booked(o, d, p) \in Nat /\ BookedSum(d, p) \in Nat /\ Booked(o, d, p) <= BookedSum(d, p)
      /\ BookedSum(d, p)' = BookedSum(d, p) - Booked(o, d, p) + Booked(o, d, p)'
  BY HeldOne
<1>3. CASE d = c
  <2>1. BookedSum(d, p)' = BookedSum(d, p) - lines[p] /\ lines[p] <= BookedSum(d, p)
    BY <1>1, <1>2, <1>3
  <2>2. used'[d][p] = Decreased(used[d][p], lines[p])
    BY <1>3 DEF Decrement, TypeOK
  <2>3. GivenBack(d, p, lines[p])
    BY <2>1, <2>2 DEF GivenBack, ItemKept
  <2> QED
    BY <1>1, <2>3
<1>4. CASE d # c
  <2>1. BookedSum(d, p)' = BookedSum(d, p)
    BY <1>2, <1>4
  <2>2. used'[d][p] = used[d][p]
    BY <1>4 DEF Decrement, TypeOK
  <2>3. Taken(d, p, 0)
    BY <1>1, <1>2, <2>1, <2>2 DEF Taken, ItemKept
  <2> QED
    BY <2>3
<1> QED
  BY <1>3, <1>4

\* Orders are cancelled together.
LEMMA QuotaReturnedAll ==
  ASSUME TypeOK, NEW S, NEW H, H \subseteq Orders, \A o \in H : reserved[o],
         CancelAll(S, H), UNCHANGED <<pricelist, quantity>>
  PROVE  QuotaStep
<1> SUFFICES ASSUME NEW c \in Contracts, NEW p \in Products
             PROVE  \E n \in Nat : GivenBack(c, p, n)
  BY DEF QuotaStep
<1>1. /\ reserved' = [o \in Orders |-> reserved[o] /\ o \notin H]
      /\ UNCHANGED <<contract, items>>
      /\ used'[c][p] = Decreased(used[c][p], QuotaOf(H, c)[p])
  BY DEF CancelAll
<1>2. /\ QuotaOf(H, c)[p] \in Nat /\ QuotaOf(H, c)[p] <= BookedSum(c, p)
      /\ BookedSum(c, p)' = BookedSum(c, p) - QuotaOf(H, c)[p]
  BY <1>1, HeldMinus
<1>3. GivenBack(c, p, QuotaOf(H, c)[p])
  BY <1>1, <1>2 DEF GivenBack, ItemKept
<1> QED
  BY <1>2, <1>3

\* Placing an order: only a contract order takes quota.
LEMMA PlaceOrderQuota ==
  ASSUME TypeOK, TypeOK', AbsentUnbooked, NEW o \in Orders, PlaceOrder(o)
  PROVE  QuotaStep
<1>1. ASSUME NEW cl, NEW m, NEW c \in Contracts \union {None}, NEW cart, NEW prices, NEW s,
             InsertOrder(o, cl, m, c, cart, prices, s)
      PROVE  /\ UNCHANGED <<pricelist, quantity>>
             /\ \A d, p : Booked(o, d, p) = 0
             /\ \A d \in Contracts : \A p : Booked(o, d, p)' = IF d = c THEN cart[p] ELSE 0
             /\ \A x \in Orders : \A d, p : x # o => Booked(x, d, p)' = Booked(x, d, p)
  <2>1. /\ status[o] = "ABSENT"
        /\ contract' = [contract EXCEPT ![o] = c] /\ items' = [items EXCEPT ![o] = cart]
        /\ reserved' = [reserved EXCEPT ![o] = c # None] /\ UNCHANGED <<pricelist, quantity>>
    BY <1>1 DEF InsertOrder, priceVars
  <2>2. ~reserved[o]
    BY <2>1 DEF AbsentUnbooked, Exists
  <2>3. contract'[o] = c /\ items'[o] = cart /\ reserved'[o] = (c # None)
    BY <2>1 DEF TypeOK
  <2>4. \A x \in Orders : x # o => /\ contract'[x] = contract[x] /\ items'[x] = items[x]
                                   /\ reserved'[x] = reserved[x]
    BY <2>1 DEF TypeOK
  <2>5. \A d \in Contracts : d # None
    BY OrdersAssumption
  <2>6. \A d, p : Booked(o, d, p) = 0
    BY <2>2 DEF Booked
  <2>7. \A d \in Contracts : \A p : Booked(o, d, p)' = IF d = c THEN cart[p] ELSE 0
    BY <2>3, <2>5 DEF Booked
  <2>8. \A x \in Orders : \A d, p : x # o => Booked(x, d, p)' = Booked(x, d, p)
    BY <2>4 DEF Booked
  <2> QED
    BY <2>1, <2>6, <2>7, <2>8
<1>2. ASSUME NEW cl, NEW m, NEW cart, NEW prices, NEW s,
             InsertOrder(o, cl, m, None, cart, prices, s), UNCHANGED used
      PROVE  QuotaStep
  <2>1. \A d \in Contracts : d # None
    BY OrdersAssumption
  <2>2. /\ UNCHANGED <<pricelist, quantity>>
        /\ \A d, p : Booked(o, d, p) = 0
        /\ \A d \in Contracts : \A p : Booked(o, d, p)' = IF d = None THEN cart[p] ELSE 0
        /\ \A x \in Orders : \A d, p : x # o => Booked(x, d, p)' = Booked(x, d, p)
    BY <1>1, <1>2
  <2>3. \A x \in Orders, d \in Contracts, p \in Products : Booked(x, d, p)' = Booked(x, d, p)
    BY <2>1, <2>2
  <2> QED
    BY <1>2, <2>2, <2>3, QuotaIdle
<1>3. ASSUME NEW cl \in Clients, NEW cart \in Carts, NEW c \in Contracts, NEW cap,
             create_contract_order(o, cl, c, cart, cap)
      PROVE  QuotaStep
  <2>1. /\ InsertOrder(o, cl, "CONTRACT", c, cart, price[c], "NEW")
        /\ QuotaAllows(c, cart) /\ used' = Increment(c, cart)
    BY <1>3 DEF create_contract_order
  <2>2. cart \in Lines
    BY CartsType
  <2>3. /\ UNCHANGED <<pricelist, quantity>>
        /\ \A d, p : Booked(o, d, p) = 0
        /\ \A d \in Contracts : \A p : Booked(o, d, p)' = IF d = c THEN cart[p] ELSE 0
        /\ \A x \in Orders : \A d, p : x # o => Booked(x, d, p)' = Booked(x, d, p)
    BY <1>1, <2>1
  <2>4. \A p \in Products : Booked(o, c, p)' = Booked(o, c, p) + cart[p]
    BY <2>2, <2>3 DEF Lines
  <2>5. \A d \in Contracts, p \in Products : d # c => Booked(o, d, p)' = Booked(o, d, p)
    BY <2>3
  <2> QED
    BY <2>1, <2>2, <2>3, <2>4, <2>5, QuotaTaken
<1> QED
  BY <1>2, <1>3 DEF PlaceOrder, create_order, create_warehouse_sale, onboard_client_with_balance

\* The lines of an order that holds no quota may change.
LEMMA UnreservedQuota ==
  ASSUME TypeOK, NEW o \in Orders, ~reserved[o], UNCHANGED <<used, pricelist, quantity,
         contract, reserved>>, \A x \in Orders : x # o => items'[x] = items[x]
  PROVE  QuotaStep
BY QuotaIdle DEF Booked

\* add_product_to_order
LEMMA AddProductQuota ==
  ASSUME OrderInv, TypeOK', NEW o \in Orders, NEW q \in Products, NEW n \in 1..MaxQty[q],
         add_product_to_order(o, q, n)
  PROVE  QuotaStep
<1> DEFINE one == [NoLines EXCEPT ![q] = n]
<1>1. TypeOK /\ ReservedExactlyWhileAlive /\ OrdersWellFormed
  BY DEF OrderInv
<1>2. /\ status[o] = "NEW" /\ UNCHANGED <<contract, pricelist, quantity>>
      /\ items' = [items EXCEPT ![o][q] = @ + n]
  BY DEF add_product_to_order, priceVars
<1>3. CASE pay[o] = "CONTRACT" /\ contract[o] # None
  <2>1. /\ QuotaAllows(contract[o], one) /\ used' = Increment(contract[o], one)
        /\ reserved' = [reserved EXCEPT ![o] = TRUE]
    BY <1>3 DEF add_product_to_order
  <2>2. reserved[o]
    BY <1>1, <1>2, <1>3 DEF ReservedExactlyWhileAlive
  <2>3. reserved' = reserved
    BY <1>1, <2>1, <2>2 DEF TypeOK
  <2>4. contract[o] \in Contracts /\ n \in Nat
    BY <1>1, <1>3, OrdersAssumption DEF TypeOK
  <2>5. one \in Lines /\ one[q] = n /\ \A p \in Products : p # q => one[p] = 0
    BY <2>4, OneLineType DEF NoLines
  <2>6. \A p \in Products : Booked(o, contract[o], p)' = Booked(o, contract[o], p) + one[p]
    <3> SUFFICES ASSUME NEW p \in Products PROVE items'[o][p] = items[o][p] + one[p]
      BY <1>2, <2>2, <2>3 DEF Booked
    <3> QED
      BY <1>1, <1>2, <2>5 DEF TypeOK, Lines
  <2>7. \A d \in Contracts, p \in Products : d # contract[o] => Booked(o, d, p)' = Booked(o, d, p)
    BY <1>2 DEF Booked
  <2>8. \A x \in Orders, d \in Contracts, p \in Products :
          x # o => Booked(x, d, p)' = Booked(x, d, p)
    BY <1>1, <1>2, <2>3 DEF Booked, TypeOK
  <2> HIDE DEF one
  <2> QED
    BY <1>1, <1>2, <2>1, <2>4, <2>5, <2>6, <2>7, <2>8, QuotaTaken
<1>4. CASE ~(pay[o] = "CONTRACT" /\ contract[o] # None)
  <2>1. UNCHANGED <<used, reserved>>
    BY <1>4 DEF add_product_to_order
  <2>2. ~reserved[o]
    BY <1>1, <1>4 DEF ReservedExactlyWhileAlive, OrdersWellFormed
  <2>3. \A x \in Orders : x # o => items'[x] = items[x]
    BY <1>1, <1>2 DEF TypeOK
  <2> QED
    BY <1>1, <1>2, <2>1, <2>2, <2>3, UnreservedQuota
<1> QED
  BY <1>3, <1>4

\* The lines of one order that holds quota shrink by what is given back: a
\* line removed, or less delivered than ordered.
LEMMA ShrinkQuota ==
  ASSUME OrderInv, TypeOK', NEW o \in Orders, reserved[o], NEW less \in Lines,
         used' = Decrement(contract[o], less), UNCHANGED <<contract, reserved, pricelist, quantity>>,
         \A x \in Orders : x # o => items'[x] = items[x],
         \A p \in Products : less[p] <= items[o][p] /\ items'[o][p] = items[o][p] - less[p]
  PROVE  QuotaStep
<1>1. TypeOK /\ contract[o] \in Contracts
  BY DEF OrderInv, ReservedExactlyWhileAlive, TypeOK
<1>2. \A p \in Products : /\ less[p] <= Booked(o, contract[o], p)
                          /\ Booked(o, contract[o], p)' = Booked(o, contract[o], p) - less[p]
  BY DEF Booked
<1>3. \A d \in Contracts, p \in Products : d # contract[o] => Booked(o, d, p)' = Booked(o, d, p)
  BY DEF Booked
<1>4. \A x \in Orders, d \in Contracts, p \in Products :
        x # o => Booked(x, d, p)' = Booked(x, d, p)
  BY DEF Booked
<1> QED
  BY <1>1, <1>2, <1>3, <1>4, QuotaReturned

\* remove_product_from_order
LEMMA RemoveProductQuota ==
  ASSUME OrderInv, TypeOK', NEW o \in Orders, NEW q \in Products,
         remove_product_from_order(o, q)
  PROVE  QuotaStep
<1> DEFINE line == [NoLines EXCEPT ![q] = items[o][q]]
<1>1. TypeOK /\ ReservedExactlyWhileAlive /\ OrdersWellFormed
  BY DEF OrderInv
<1>2. /\ UNCHANGED <<contract, reserved, pricelist, quantity>>
      /\ items' = [items EXCEPT ![o][q] = 0]
  BY DEF remove_product_from_order, priceVars
<1>3. \A x \in Orders : x # o => items'[x] = items[x]
  BY <1>1, <1>2 DEF TypeOK
<1>4. CASE reserved[o]
  <2>1. used' = Decrement(contract[o], line)
    BY <1>1, <1>4, ReservedHoldsQuota DEF remove_product_from_order
  <2>2. line \in Lines /\ line[q] = items[o][q] /\ \A p \in Products : p # q => line[p] = 0
    BY <1>1, OneLineType DEF NoLines, TypeOK, Lines
  <2>3. \A p \in Products : line[p] <= items[o][p] /\ items'[o][p] = items[o][p] - line[p]
    BY <1>1, <1>2, <2>2 DEF TypeOK, Lines
  <2> HIDE DEF line
  <2> QED
    BY <1>2, <1>3, <1>4, <2>1, <2>2, <2>3, ShrinkQuota
<1>5. CASE ~reserved[o]
  <2>1. UNCHANGED used
    BY <1>5 DEF remove_product_from_order, HoldsQuota
  <2> QED
    BY <1>1, <1>2, <1>3, <1>5, <2>1, UnreservedQuota
<1> QED
  BY <1>4, <1>5

\* deliver_order gives back what was ordered and not delivered.
LEMMA DeliverQuota ==
  ASSUME OrderInv, TypeOK', NEW o \in Orders, NEW actual \in Carts, NEW corrected \in BOOLEAN,
         deliver_order(o, actual, corrected)
  PROVE  QuotaStep
<1> DEFINE missing == [p \in Products |-> items[o][p] - actual[p]]
<1>1. TypeOK /\ ReservedExactlyWhileAlive /\ OrdersWellFormed
  BY DEF OrderInv
<1>2. /\ UNCHANGED <<contract, reserved, pricelist, quantity>>
      /\ items' = [items EXCEPT ![o] = actual]
  BY DEF deliver_order, priceVars
<1>3. \A x \in Orders : x # o => items'[x] = items[x]
  BY <1>1, <1>2 DEF TypeOK
<1>4. actual \in Lines /\ items[o] \in Lines /\ items'[o] = actual
  BY <1>1, <1>2, CartsType DEF TypeOK
<1>5. \A p \in Products : actual[p] <= items[o][p]
  <2> SUFFICES ASSUME NEW p \in Products PROVE actual[p] <= items[o][p]
    OBVIOUS
  <2>1. IF items[o][p] = 0 THEN actual[p] = 0 ELSE actual[p] \in 1..items[o][p]
    BY DEF deliver_order
  <2>2. items[o][p] \in Nat /\ actual[p] \in Nat
    BY <1>4 DEF Lines
  <2> QED
    BY <2>1, <2>2
<1>6. missing \in Lines
  BY <1>4, <1>5 DEF Lines
<1>7. \A p \in Products : missing[p] <= items[o][p] /\ items'[o][p] = items[o][p] - missing[p]
  BY <1>4, <1>5 DEF Lines
<1>8. CASE reserved[o]
  <2>1. pay[o] = "CONTRACT" /\ contract[o] # None
    BY <1>1, <1>8, ReservedHoldsQuota DEF HoldsQuota
  <2>2. CASE missing # NoLines
    <3>1. used' = Decrement(contract[o], missing)
      BY <2>1, <2>2 DEF deliver_order
    <3> HIDE DEF missing
    <3> QED
      BY <1>2, <1>3, <1>6, <1>7, <1>8, <3>1, ShrinkQuota
  <2>3. CASE missing = NoLines
    <3>1. used' = used
      BY <2>3 DEF deliver_order
    <3>2. \A p \in Products : items'[o][p] = items[o][p]
      <4> SUFFICES ASSUME NEW p \in Products PROVE items'[o][p] = items[o][p]
        OBVIOUS
      <4>1. missing[p] = 0
        BY <2>3, Zenon DEF NoLines
      <4>2. items[o][p] \in Nat /\ items'[o][p] = items[o][p] - missing[p]
        BY <1>4, <1>7 DEF Lines
      <4> HIDE DEF missing
      <4> QED
        BY <4>1, <4>2
    <3>3. \A x \in Orders, c \in Contracts, p \in Products : Booked(x, c, p)' = Booked(x, c, p)
      BY <1>2, <1>3, <3>2 DEF Booked
    <3> QED
      BY <1>1, <1>2, <3>1, <3>3, QuotaIdle
  <2> QED
    BY <2>2, <2>3
<1>9. CASE ~reserved[o]
  <2>1. status[o] \notin Terminal
    <3>1. status[o] \in Statuses
      BY <1>1 DEF deliver_order, OrdersWellFormed, TypeOK, Exists
    <3> QED
      BY <3>1 DEF deliver_order, TransitionAllowed, AllowedStatuses, Transitions, Statuses,
                  Terminal, Settled
  <2>2. contract[o] = None
    BY <1>1, <1>9, <2>1 DEF ReservedExactlyWhileAlive, Terminal
  <2>3. UNCHANGED used
    BY <2>2 DEF deliver_order
  <2> QED
    BY <1>1, <1>2, <1>3, <1>9, <2>3, UnreservedQuota
<1> QED
  BY <1>8, <1>9

\* CancelOrder gives everything back, once.
LEMMA CancelOrderQuota ==
  ASSUME OrderInv, TypeOK', NEW o \in Orders, CancelOrder(o)
  PROVE  QuotaStep
<1>1. TypeOK /\ ReservedExactlyWhileAlive /\ OrdersWellFormed
  BY DEF OrderInv
<1>2. UNCHANGED <<contract, items, pricelist, quantity>>
  BY DEF CancelOrder, priceVars
<1>3. CASE reserved[o]
  <2>1. HoldsQuota(o) /\ status[o] # "CANCELLED"
    BY <1>1, <1>3, ReservedHoldsQuota
  <2>2. used' = Decrement(contract[o], items[o]) /\ reserved' = [reserved EXCEPT ![o] = FALSE]
    BY <2>1 DEF CancelOrder
  <2>3. contract[o] \in Contracts /\ items[o] \in Lines
    BY <1>1, <2>1 DEF HoldsQuota, TypeOK
  <2>4. \A p \in Products : /\ items[o][p] <= Booked(o, contract[o], p)
                            /\ Booked(o, contract[o], p)' = Booked(o, contract[o], p) - items[o][p]
    BY <1>1, <1>2, <1>3, <2>2, <2>3 DEF Booked, TypeOK, Lines
  <2>5. \A d \in Contracts, p \in Products : d # contract[o] => Booked(o, d, p)' = Booked(o, d, p)
    BY <1>2 DEF Booked
  <2>6. \A x \in Orders, d \in Contracts, p \in Products :
          x # o => Booked(x, d, p)' = Booked(x, d, p)
    BY <1>1, <1>2, <2>2 DEF Booked, TypeOK
  <2> QED
    BY <1>1, <1>2, <2>2, <2>3, <2>4, <2>5, <2>6, QuotaReturned
<1>4. CASE ~reserved[o]
  <2>1. UNCHANGED <<used, reserved>>
    BY <1>4 DEF CancelOrder, HoldsQuota
  <2> QED
    BY <1>1, <1>2, <1>4, <2>1, UnreservedQuota
<1> QED
  BY <1>3, <1>4

\* A price-list edit that is written.
LEMMA EditQuota ==
  ASSUME TypeOK, set_price_item \/ remove_price_item
  PROVE  QuotaStep
<1> DEFINE e == edit
<1>1. e.c \in Contracts /\ e.p \in Products
  <2>1. e \in Edits
    BY DEF set_price_item, remove_price_item, TypeOK
  <2> QED
    BY <2>1, EditType
<1> SUFFICES ASSUME NEW c \in Contracts, NEW p \in Products
             PROVE  Taken(c, p, 0) \/ ItemWritten(c, p) \/ ItemRemoved(c, p)
  BY DEF QuotaStep
<1>2. UNCHANGED <<contract, items, reserved>>
  BY DEF set_price_item, remove_price_item, orderVars
<1>3. BookedSum(c, p)' = BookedSum(c, p) /\ BookedSum(c, p) \in Nat /\ used[c][p] \in Nat
  BY <1>2, HeldSame, HeldType DEF Booked, TypeOK, Lines
<1>4. CASE c # e.c \/ p # e.p
  <2>0. quantity \in [Contracts -> [Products -> Nat]] /\ used \in [Contracts -> [Products -> Nat]]
    BY DEF TypeOK, Lines
  <2>1. used'[c][p] = used[c][p] /\ ItemKept(c, p)
    <3>1. CASE set_price_item
      BY <1>1, <1>4, <2>0, <3>1 DEF set_price_item, ItemKept
    <3>2. CASE remove_price_item
      BY <1>1, <1>4, <2>0, <3>2 DEF remove_price_item, ItemKept
    <3> QED
      BY <3>1, <3>2
  <2> QED
    BY <1>3, <2>1 DEF Taken
<1>5. CASE c = e.c /\ p = e.p /\ set_price_item
  <2>1. used'[c][p] = used[c][p] /\ <<c, p>> \in pricelist'
    BY <1>1, <1>5 DEF set_price_item, TypeOK, Lines
  <2> QED
    BY <1>3, <2>1 DEF ItemWritten
<1>6. CASE c = e.c /\ p = e.p /\ remove_price_item
  <2>1. used'[c][p] = 0 /\ quantity'[c][p] = 0 /\ <<c, p>> \notin pricelist'
    BY <1>1, <1>6 DEF remove_price_item, TypeOK, Lines
  <2> QED
    BY <1>3, <2>1 DEF ItemRemoved
<1> QED
  BY <1>4, <1>5, <1>6

\* Cancelling the open orders of contracts, and the stale orders.
LEMMA CancelJobsQuota ==
  ASSUME OrderInv, UNCHANGED <<pricelist, quantity>>,
         expire_stale_orders \/ \E C \in SUBSET Contracts : CancelInflight(C)
  PROVE  QuotaStep
<1>1. TypeOK
  BY DEF OrderInv
<1>2. CASE expire_stale_orders
  <2>1. PICK S \in StaleBatches : CancelAll(S, {o \in S : HoldsQuota(o)})
    BY <1>2 DEF expire_stale_orders
  <2>2. S \subseteq Orders
    BY <1>1 DEF StaleBatches, StaleOrders, TypeOK
  <2>3. {o \in S : HoldsQuota(o)} \subseteq Orders /\ \A o \in {x \in S : HoldsQuota(x)} : reserved[o]
    BY <2>2 DEF HoldsQuota
  <2> QED
    BY <1>1, <2>1, <2>3, QuotaReturnedAll
<1>3. ASSUME NEW C \in SUBSET Contracts, CancelInflight(C) PROVE QuotaStep
  <2> DEFINE S == UNION {Cancellable(c) : c \in C}
  <2>1. CancelAll(S, {o \in S : reserved[o]})
    BY <1>3 DEF CancelInflight
  <2>2. {o \in S : reserved[o]} \subseteq Orders /\ \A o \in {x \in S : reserved[x]} : reserved[o]
    BY DEF Cancellable
  <2> HIDE DEF S
  <2> QED
    BY <1>1, <2>1, <2>2, QuotaReturnedAll
<1> QED
  BY <1>2, <1>3

\* A step that leaves all of it alone.
LEMMA UntouchedQuota ==
  ASSUME TypeOK, UNCHANGED <<contract, items, reserved, used, pricelist, quantity>>
  PROVE  QuotaStep
BY QuotaIdle DEF Booked

\* Every step of the system.
LEMMA NextQuotaStep ==
  ASSUME OrderInv, AbsentUnbooked, Next
  PROVE  QuotaStep
<1>1. TypeOK /\ TypeOK'
  BY NextTypes DEF OrderInv
<1>2. ASSUME NEW o \in Orders, PlaceOrder(o) PROVE QuotaStep
  BY <1>1, <1>2, PlaceOrderQuota
<1>3. ASSUME NEW o \in Orders, ChangeOrder(o) PROVE QuotaStep
  <2>1. ASSUME NEW p \in Products, NEW n \in 1..MaxQty[p], add_product_to_order(o, p, n)
        PROVE  QuotaStep
    BY <1>1, <2>1, AddProductQuota
  <2>2. ASSUME NEW p \in Products, remove_product_from_order(o, p) PROVE QuotaStep
    BY <1>1, <2>2, RemoveProductQuota
  <2>3. ASSUME NEW actual \in Carts, NEW corrected \in BOOLEAN, deliver_order(o, actual, corrected)
        PROVE  QuotaStep
    BY <1>1, <2>3, DeliverQuota
  <2>4. CASE cancel_by_staff(o) \/ cancel_order(o)
    BY <1>1, <2>4, CancelOrderQuota DEF cancel_by_staff, cancel_order
  <2>5. CASE LockOrder(o) \/ Rollback(o) \/ cancel_order_check(o) \/ cancel_order_refused(o) \/ Age(o)
    BY <1>1, <2>5, UntouchedQuota
    DEF LockOrder, Rollback, cancel_order_check, cancel_order_refused, Age, orderVars, priceVars
  <2>6. CASE (\E k \in Couriers : assign_courier(o, k)) \/ (\E new \in Statuses : update_status(o, new))
    BY <1>1, <2>6, UntouchedQuota DEF assign_courier, update_status, priceVars
  <2> QED
    BY <1>3, <2>1, <2>2, <2>3, <2>4, <2>5, <2>6 DEF ChangeOrder
<1>4. ASSUME NEW c \in Contracts, ChangeContract(c) PROVE QuotaStep
  <2>1. CASE suspend_contract(c) \/ terminate_contract(c)
    <3>1. CancelInflight({c}) /\ UNCHANGED <<pricelist, quantity>>
      BY <2>1 DEF suspend_contract, terminate_contract, priceVars
    <3> QED
      BY <3>1, CancelJobsQuota
  <2>2. CASE ~(suspend_contract(c) \/ terminate_contract(c))
    BY <1>1, <1>4, <2>2, UntouchedQuota DEF ChangeContract, create_contract, activate_contract,
       reinstate_contract, update_contract, EndDatePasses, orderVars, priceVars
  <2> QED
    BY <2>1, <2>2
<1>5. CASE ChangePrices
  <2>1. CASE set_price_item \/ remove_price_item
    BY <1>1, <2>1, EditQuota
  <2>2. CASE ~(set_price_item \/ remove_price_item)
    BY <1>1, <1>5, <2>2, UntouchedQuota DEF ChangePrices, price_item_check, price_item_aborted, orderVars
  <2> QED
    BY <2>1, <2>2
<1>6. CASE Jobs
  <2>1. CASE expire_stale_orders
    BY <2>1, CancelJobsQuota DEF expire_stale_orders, priceVars
  <2>2. CASE run_expire_job
    <3>1. CancelInflight(scan) /\ UNCHANGED <<pricelist, quantity>> /\ scan \in SUBSET Contracts
      BY <1>1, <2>2 DEF run_expire_job, priceVars, TypeOK
    <3> QED
      BY <3>1, CancelJobsQuota
  <2>3. CASE run_expire_job_scan \/ run_expire_job_aborted
    BY <1>1, <2>3, UntouchedQuota DEF run_expire_job_scan, run_expire_job_aborted, orderVars, priceVars
  <2> QED
    BY <1>6, <2>1, <2>2, <2>3 DEF Jobs
<1>7. ASSUME NEW t \in txns, verify_transaction(t) \/ reject_transaction(t) PROVE QuotaStep
  BY <1>1, <1>7, UntouchedQuota DEF verify_transaction, reject_transaction, DecideTxn, orderVars, priceVars
<1> QED
  BY <1>2, <1>3, <1>4, <1>5, <1>6, <1>7 DEF Next

\* Flags are set on existing orders only.
LEMMA StepAbsentUnbooked ==
  ASSUME OrderInv, AbsentUnbooked, Next
  PROVE  AbsentUnbooked'
<1>1. OrderStep /\ TypeOK
  BY NextOrderStep DEF OrderInv
<1>2. CASE SomeInserted
  BY <1>1, <1>2 DEF SomeInserted, Inserted, AbsentUnbooked, Exists, TypeOK
<1>3. CASE SomeEdited
  <2>1. PICK o \in Orders, lines \in Lines, amount \in Nat : Edited(o, lines, amount)
    BY <1>3, Zenon DEF SomeEdited
  <2>2. Exists(o) /\ status' = status /\ \A x \in Orders : x # o => reserved'[x] = reserved[x]
    BY <1>1, <2>1 DEF Edited, Exists, TypeOK
  <2> QED
    BY <2>2 DEF AbsentUnbooked, Exists
<1>4. CASE SomeMoved
  BY <1>1, <1>4 DEF SomeMoved, Moved, AbsentUnbooked, Exists, TypeOK, Statuses
<1>5. CASE SomeDelivered
  BY <1>1, <1>5 DEF SomeDelivered, Delivered, AbsentUnbooked, Exists, TypeOK
<1>6. CASE SomeCancelled
  BY <1>1, <1>6 DEF SomeCancelled, CancelledSet, AbsentUnbooked, Exists, TypeOK
<1>7. CASE Untouched
  BY <1>7 DEF Untouched, AbsentUnbooked, Exists
<1> QED
  BY <1>1, <1>2, <1>3, <1>4, <1>5, <1>6, <1>7 DEF OrderStep

\* What the orders hold, as Held says it.
LEMMA HeldIsBooked ==
  ASSUME NEW c, NEW p
  PROVE  Held(c, p) = BookedSum(c, p)
<1> DEFINE f == [o \in Orders |-> items[o][p]]
           g == [o \in Orders |-> Booked(o, c, p)]
           T == {o \in Orders : reserved[o] /\ contract[o] = c}
<1>1. /\ T \subseteq Orders /\ \A o \in T : g[o] = f[o]
      /\ \A o \in Orders \ T : g[o] = 0
  BY DEF Booked
<1>2. BookedSum(c, p) = SumOver(g, Orders) /\ Held(c, p) = SumOver(f, T)
  BY DEF BookedSum, Held
<1> HIDE DEF f, g, T
<1> QED
  BY <1>1, <1>2, SumPart

\* The same after a step.
LEMMA HeldIsBookedNext ==
  ASSUME NEW c, NEW p
  PROVE  Held(c, p)' = BookedSum(c, p)'
<1> DEFINE f == [o \in Orders |-> items'[o][p]]
           g == [o \in Orders |-> Booked(o, c, p)']
           T == {o \in Orders : reserved'[o] /\ contract'[o] = c}
<1>1. /\ T \subseteq Orders /\ \A o \in T : g[o] = f[o]
      /\ \A o \in Orders \ T : g[o] = 0
  BY DEF Booked
<1>2. BookedSum(c, p)' = SumOver(g, Orders) /\ Held(c, p)' = SumOver(f, T)
  BY DEF BookedSum, Held
<1> HIDE DEF f, g, T
<1> QED
  BY <1>1, <1>2, SumPart

\* What one step may do to counter, sum, row and limit of a price item.
LEMMA StepQuota ==
  ASSUME TypeOK, TypeOK', NeverOverstated, UsedIsListed, QuotaStep,
         NEW c \in Contracts, NEW p \in Products
  PROVE  /\ used'[c][p] <= Held(c, p)'
         /\ used'[c][p] > 0 => <<c, p>> \in pricelist'
         /\ Held(c, p)' - used'[c][p] > Held(c, p) - used[c][p]
              => <<c, p>> \in pricelist \ pricelist'
         /\ Excess(c, p)' > Excess(c, p) => quantity'[c][p] # quantity[c][p]
<1> DEFINE Goal == /\ used'[c][p] <= BookedSum(c, p)'
                   /\ used'[c][p] > 0 => <<c, p>> \in pricelist'
                   /\ BookedSum(c, p)' - used'[c][p] > BookedSum(c, p) - used[c][p]
                        => <<c, p>> \in pricelist \ pricelist'
                   /\ Excess(c, p)' > Excess(c, p) => quantity'[c][p] # quantity[c][p]
<1>1. /\ used[c][p] \in Nat /\ BookedSum(c, p) \in Nat /\ quantity[c][p] \in Nat
      /\ quantity'[c][p] \in Nat /\ used'[c][p] \in Nat
      /\ used[c][p] <= BookedSum(c, p)
      /\ used[c][p] > 0 => <<c, p>> \in pricelist
  BY HeldType, HeldIsBooked DEF TypeOK, Lines, NeverOverstated, UsedIsListed
<1>2. ASSUME NEW n \in Nat, Taken(c, p, n) PROVE Goal
  BY <1>1, <1>2 DEF Taken, ItemKept, Excess
<1>3. ASSUME NEW n \in Nat, GivenBack(c, p, n) PROVE Goal
  BY <1>1, <1>3 DEF GivenBack, Decreased, ItemKept, Excess
<1>4. ASSUME ItemWritten(c, p) PROVE Goal
  BY <1>1, <1>4 DEF ItemWritten, Excess
<1>5. ASSUME ItemRemoved(c, p) PROVE Goal
  BY <1>1, <1>5 DEF ItemRemoved, Excess
<1>6. Goal
  BY <1>2, <1>3, <1>4, <1>5 DEF QuotaStep
<1> QED
  BY <1>6, HeldIsBooked, HeldIsBookedNext

-----------------------------------------------------------------------------
(* Theorems *)

\* A client never has two active contracts (activate, reinstate against
\* uq_one_active_contract_per_client).
THEOREM OneActive == Spec => []OneActiveContract
<1>1. Init => OneActiveContract
  BY DEF Init, OneActiveContract
<1>2. OrderInv /\ OneActiveContract /\ [Next]_vars => OneActiveContract'
  <2>1. CASE Next
    BY <2>1, NextContractStep, StepOneActive DEF OrderInv
  <2>2. CASE UNCHANGED vars
    BY <2>2 DEF vars, contractVars, OneActiveContract
  <2> QED
    BY <2>1, <2>2
<1> QED
  BY <1>1, <1>2, OrderInvariance, PTL DEF Spec

\* A terminated or expired contract never takes orders again, although the
\* expiry job writes what it read before.
THEOREM ClosedForGood == Spec => ClosedStaysClosed
<1>1. OrderInv /\ [Next]_vars =>
        [\A c \in Contracts :
           con[c] \in {"TERMINATED", "EXPIRED"} => con'[c] \in {"TERMINATED", "EXPIRED"}]_vars
  <2> SUFFICES ASSUME OrderInv, [Next]_vars
               PROVE  [\A c \in Contracts : con[c] \in Closed => con'[c] \in Closed]_vars
    BY DEF Closed
  <2>1. CASE Next
    <3>1. ContractStep
      BY <2>1, NextContractStep DEF OrderInv
    <3>2. ASSUME NEW c \in Contracts, MadeActive(c)
          PROVE  \A d \in Contracts : con[d] \in Closed => con'[d] \in Closed
      BY <3>2 DEF MadeActive, Closed, OrderInv, TypeOK
    <3> QED
      BY <3>1, <3>2 DEF ContractStep, NoneMadeActive
  <2>2. CASE UNCHANGED vars
    BY <2>2
  <2> QED
    BY <2>1, <2>2
<1> QED
  BY <1>1, OrderInvariance, PTL DEF Spec, ClosedStaysClosed

\* Between assignment and delivery an order always has a courier, so
\* COURIER_NOT_ASSIGNED cannot stop a delivery.
THEOREM CourierAlways == Spec => []CourierOnTheWay
<1>1. Init => CourierOnTheWay
  BY DEF Init, CourierOnTheWay
<1>2. OrderInv /\ CourierOnTheWay /\ [Next]_vars => CourierOnTheWay'
  <2> SUFFICES ASSUME OrderInv, CourierOnTheWay, [Next]_vars
               PROVE  CourierOnTheWay'
    OBVIOUS
  <2>1. CASE Next
    <3>1. CourierStep
      BY <2>1, NextCourierStep DEF OrderInv
    <3> QED
      BY <3>1, OrdersAssumption DEF CourierStep, OnTheWay, CourierOnTheWay
  <2>2. CASE UNCHANGED vars
    BY <2>2 DEF vars, orderVars, CourierOnTheWay
  <2> QED
    BY <2>1, <2>2
<1> QED
  BY <1>1, <1>2, OrderInvariance, PTL DEF Spec

\* At the start nothing is held and no counter has moved.
LEMMA InitQuota ==
  ASSUME Init
  PROVE  AbsentUnbooked /\ NeverOverstated /\ UsedIsListed
<1>1. ASSUME NEW c \in Contracts, NEW p \in Products PROVE Held(c, p) = 0 /\ used[c][p] = 0
  <2>1. {o \in Orders : reserved[o] /\ contract[o] = c} = {}
    BY DEF Init
  <2>2. Held(c, p) = SumOver([o \in Orders |-> items[o][p]], {})
    BY <2>1 DEF Held
  <2>3. Held(c, p) = 0
    BY <2>2, SumEmpty
  <2> QED
    BY <2>3 DEF Init, NoLines
<1> QED
  BY <1>1 DEF AbsentUnbooked, NeverOverstated, UsedIsListed, Init

\* Only existing orders hold quota.
LEMMA AbsentInvariance == Spec => []AbsentUnbooked
<1>1. Init => AbsentUnbooked
  BY InitQuota
<1>2. OrderInv /\ AbsentUnbooked /\ [Next]_vars => AbsentUnbooked'
  <2>1. CASE Next
    BY <2>1, StepAbsentUnbooked
  <2>2. CASE UNCHANGED vars
    BY <2>2 DEF vars, orderVars, AbsentUnbooked, Exists
  <2> QED
    BY <2>1, <2>2
<1> QED
  BY <1>1, <1>2, OrderInvariance, PTL DEF Spec

\* The inductive invariant of the quota theorems, and what a step from it
\* keeps.
LEMMA QuotaInduction ==
  ASSUME OrderInv, AbsentUnbooked, NeverOverstated, UsedIsListed, [Next]_vars,
         NEW c \in Contracts, NEW p \in Products
  PROVE  /\ used'[c][p] <= Held(c, p)'
         /\ used'[c][p] > 0 => <<c, p>> \in pricelist'
         /\ Held(c, p)' - used'[c][p] > Held(c, p) - used[c][p]
              => <<c, p>> \in pricelist \ pricelist'
         /\ Excess(c, p)' > Excess(c, p) => quantity'[c][p] # quantity[c][p]
<1>1. TypeOK
  BY DEF OrderInv
<1>2. TypeOK' /\ QuotaStep
  <2>1. CASE Next
    BY <2>1, NextTypes, NextQuotaStep DEF OrderInv
  <2>2. CASE UNCHANGED vars
    <3>1. UNCHANGED <<contract, items, reserved, used, pricelist, quantity>>
      BY <2>2 DEF vars, orderVars, priceVars
    <3>2. TypeOK'
      BY <1>1, <2>2 DEF TypeOK, vars, orderVars, requestVars, contractVars, priceVars, ledgerVars
    <3> QED
      BY <1>1, <3>1, <3>2, UntouchedQuota
  <2> QED
    BY <2>1, <2>2
<1> QED
  BY <1>1, <1>2, StepQuota

\* Whatever is interleaved, quantity_used never exceeds what the orders that
\* hold quota ordered: no order takes quota without being placed or keeps it
\* booked after it was cancelled.  Edits of the price list that race with
\* orders can only lose units, never invent them.
THEOREM QuotaNeverOverstated == Spec => []NeverOverstated
<1>1. Init => NeverOverstated /\ UsedIsListed
  BY InitQuota
<1>2. OrderInv /\ AbsentUnbooked /\ NeverOverstated /\ UsedIsListed /\ [Next]_vars
        => NeverOverstated' /\ UsedIsListed'
  <2> SUFFICES ASSUME OrderInv, AbsentUnbooked, NeverOverstated, UsedIsListed, [Next]_vars
               PROVE  NeverOverstated' /\ UsedIsListed'
    OBVIOUS
  <2> QED
    BY QuotaInduction DEF NeverOverstated, UsedIsListed
<1> QED
  BY <1>1, <1>2, OrderInvariance, AbsentInvariance, PTL DEF Spec

\* A price item that counts something is on the list (decrement and increment
\* find their row or raise; deletion takes the counter along).
THEOREM UsedItemsAreListed == Spec => []UsedIsListed
<1>1. Init => NeverOverstated /\ UsedIsListed
  BY InitQuota
<1>2. OrderInv /\ AbsentUnbooked /\ NeverOverstated /\ UsedIsListed /\ [Next]_vars
        => UsedIsListed'
  <2> SUFFICES ASSUME OrderInv, AbsentUnbooked, NeverOverstated, UsedIsListed, [Next]_vars
               PROVE  UsedIsListed'
    OBVIOUS
  <2> QED
    BY QuotaInduction DEF UsedIsListed
<1> QED
  BY <1>1, <1>2, OrderInvariance, AbsentInvariance, QuotaNeverOverstated, PTL DEF Spec

\* The counter falls behind the orders in one way only, for any number of
\* orders, requests, jobs and price edits: remove_price_item deletes the row
\* after an order booked on it.
THEOREM QuotaLossByRemoval == Spec => QuotaLostOnlyByRemoval
<1> DEFINE Kept == \A c \in Contracts, p \in Products :
                     Held(c, p)' - used'[c][p] > Held(c, p) - used[c][p]
                       => <<c, p>> \in pricelist \ pricelist'
<1>1. OrderInv /\ AbsentUnbooked /\ NeverOverstated /\ UsedIsListed /\ [Next]_vars => [Kept]_vars
  BY QuotaInduction
<1> QED
  BY <1>1, OrderInvariance, AbsentInvariance, QuotaNeverOverstated, UsedItemsAreListed, PTL
  DEF Spec, QuotaLostOnlyByRemoval

\* Orders never overrun the limit of a price item, for any limits: its excess
\* grows only when set_price_item writes another limit.
THEOREM LimitHoldsForOrders == Spec => LimitBrokenOnlyByEdit
<1> DEFINE Kept == \A c \in Contracts, p \in Products :
                     Excess(c, p)' > Excess(c, p) => quantity'[c][p] # quantity[c][p]
<1>1. OrderInv /\ AbsentUnbooked /\ NeverOverstated /\ UsedIsListed /\ [Next]_vars => [Kept]_vars
  BY QuotaInduction
<1> QED
  BY <1>1, OrderInvariance, AbsentInvariance, QuotaNeverOverstated, UsedItemsAreListed, PTL
  DEF Spec, LimitBrokenOnlyByEdit
\* Initially there is no order and no debt.
LEMMA InitDeals == Init => D!Init
BY DEF Init, D!Init, Phase, Settled, DebtRows

\* A settlement adds one debt row.
LEMMA SettlementDebtRows ==
  ASSUME NEW o, NEW cl, NEW m, NEW to, NEW amount,
         txns' = txns \union SettlementRows(o, cl, m, to, amount)
  PROVE  DebtRows' = DebtRows \union {Txn(o, "debt", Revenue, cl, amount, "COMPLETED")}
<1> DEFINE debt == Txn(o, "debt", Revenue, cl, amount, "COMPLETED")
<1>1. debt \in SettlementRows(o, cl, m, to, amount) /\ debt.kind = "debt"
  BY DEF SettlementRows, Txn
<1>2. \A t \in SettlementRows(o, cl, m, to, amount) : t.kind = "debt" => t = debt
  BY SettlementKinds
<1> QED
  BY <1>1, <1>2 DEF DebtRows

\* Closing: an order that has no debt row yet gets its row and is settled.
LEMMA SettlementCloses ==
  ASSUME TypeOK, SettledExactlyOnce, NEW o \in Orders, NEW s \in Settled,
         status[o] \notin Terminal,
         status' = [status EXCEPT ![o] = s],
         NEW cl, NEW m, NEW to, NEW amount,
         txns' = txns \union SettlementRows(o, cl, m, to, amount)
  PROVE  D!Close(o)
<1> DEFINE debt == Txn(o, "debt", Revenue, cl, amount, "COMPLETED")
<1>1. DebtRows' = DebtRows \union {debt}
  BY SettlementDebtRows
<1>2. debt.order = o /\ debt.kind = "debt"
  BY DEF Txn
<1>3. debt \notin DebtRows
  BY <1>2 DEF SettledExactlyOnce, DebtRows, Terminal
<1>4. Phase(status[o]) \in {"none", "open"}
  BY DEF Phase, Terminal
<1>5. [x \in Orders |-> Phase(status'[x])] = [[x \in Orders |-> Phase(status[x])] EXCEPT ![o] = "done"]
  BY DEF Phase, Settled, TypeOK
<1> QED
  BY <1>1, <1>2, <1>3, <1>4, <1>5 DEF D!Close

\* Every step is a step of Deals, or leaves phases and debts alone.
LEMMA NextDeals ==
  ASSUME OrderInv, OrderStep
  PROVE  D!Next \/ UNCHANGED D!dealVars
<1>0. TypeOK /\ DebtsCompleted /\ SettledExactlyOnce
  BY DEF OrderInv
<1>1. CASE SomeInserted
  <2>1. PICK o \in Orders, cl \in Clients, m \in {"CASH", "CARD", "CONTRACT"},
            c \in Contracts \union {None}, cart \in Lines, amount \in Nat,
            s \in {"NEW", "PICKUP_COMPLETED"} : Inserted(o, cl, m, c, cart, amount, s)
    BY <1>1, Zenon DEF SomeInserted
  <2>2. CASE s = "NEW"
    <3>1. [x \in Orders |-> Phase(status'[x])] = [[x \in Orders |-> Phase(status[x])] EXCEPT ![o] = "open"]
      BY <1>0, <2>1, <2>2 DEF Inserted, Phase, Settled, TypeOK
    <3>2. Phase(status[o]) = "none" /\ DebtRows' = DebtRows
      BY <2>1, <2>2 DEF Inserted, Phase, Settled, DebtRows
    <3> QED
      BY <3>1, <3>2 DEF D!Next, D!Open
  <2>3. CASE s = "PICKUP_COMPLETED"
    <3>1. D!Close(o)
      BY <1>0, <2>1, <2>3, SettlementCloses DEF Inserted, Settled, Terminal
    <3> QED
      BY <3>1 DEF D!Next
  <2> QED
    BY <2>2, <2>3
<1>2. CASE SomeEdited
  <2>1. PICK o \in Orders, lines \in Lines, amount \in Nat : Edited(o, lines, amount)
    BY <1>2, Zenon DEF SomeEdited
  <2> QED
    BY <2>1 DEF Edited, D!dealVars, DebtRows
<1>3. CASE SomeMoved
  <2>1. PICK o \in Orders, new \in Statuses : Moved(o, new)
    BY <1>3, Zenon DEF SomeMoved
  <2>2. \A x \in Orders : Phase(status'[x]) = Phase(status[x])
    BY <1>0, <2>1 DEF Moved, Phase, Exists, Settled, Terminal, TypeOK
  <2> QED
    BY <2>1, <2>2 DEF Moved, D!dealVars, DebtRows
<1>4. CASE SomeDelivered
  <2>1. PICK o \in Orders, lines \in Lines, amount \in Nat : Delivered(o, lines, amount)
    BY <1>4, Zenon DEF SomeDelivered
  <2>2. D!Close(o)
    BY <1>0, <2>1, SettlementCloses DEF Delivered, Settled
  <2> QED
    BY <2>2 DEF D!Next
<1>5. CASE SomeCancelled
  <2>1. PICK S \in SUBSET Orders : CancelledSet(S)
    BY <1>5, Zenon DEF SomeCancelled
  <2> DEFINE R == {o \in S : status[o] # "CANCELLED"}
  <2>2. \A o \in R : Phase(status[o]) = "open"
    BY <1>0, <2>1 DEF CancelledSet, Phase, Exists
  <2>3. \A x \in Orders : Phase(status'[x]) = IF x \in R THEN "dropped" ELSE Phase(status[x])
    BY <1>0, <2>1 DEF CancelledSet, Phase, Settled
  <2>4. DebtRows' = DebtRows
    BY <2>1 DEF CancelledSet, DebtRows
  <2>5. D!Drop(R)
    BY <2>2, <2>3, <2>4 DEF D!Drop
  <2> QED
    BY <2>5 DEF D!Next
<1>6. CASE Untouched
  <2>1. DebtRows' = DebtRows
    <3>1. CASE txns' = txns
      BY <3>1 DEF DebtRows
    <3>2. ASSUME NEW t \in txns, NEW s \in {"COMPLETED", "REJECTED"}, Decided(t, s)
          PROVE  DebtRows' = DebtRows
      <4>1. t.kind # "debt"
        BY <1>0, <3>2 DEF Decided, DebtsCompleted
      <4>2. [t EXCEPT !.status = s].kind = t.kind
        BY <1>0 DEF TypeOK, TxnRows
      <4> QED
        BY <3>2, <4>1, <4>2 DEF Decided, DebtRows
    <3> QED
      BY <1>6, <3>1, <3>2 DEF Untouched
  <2> QED
    BY <1>6, <2>1 DEF Untouched, D!dealVars
<1> QED
  BY <1>1, <1>2, <1>3, <1>4, <1>5, <1>6 DEF OrderStep

-----------------------------------------------------------------------------
\* The ordering system implements Deals: an order is billed once, in the step
\* that completes it, and a cancelled order never is.
THEOREM OrdersImplementDeals == Spec => OrdersAreDeals
<1>1. OrderInv /\ [Next]_vars => [D!Next]_(D!dealVars)
  <2>1. CASE Next
    BY <2>1, NextOrderStep, NextDeals DEF OrderInv
  <2>2. CASE UNCHANGED vars
    BY <2>2 DEF vars, orderVars, ledgerVars, D!dealVars, DebtRows
  <2> QED
    BY <2>1, <2>2
<1> QED
  BY <1>1, InitDeals, OrderInvariance, PTL DEF Spec, OrdersAreDeals, D!Spec

-----------------------------------------------------------------------------
(* Balances.  A balance is written by the trigger from the rows of one     *)
(* statement; that it is the sum over all rows needs that a settlement     *)
(* writes rows its order did not have (PaymentInv).                        *)

PaymentInv ==
  /\ IsFiniteSet(txns)
  /\ \A t \in txns : status[t.order] \in Settled
  /\ \A t, u \in txns : t.order = u.order /\ t.kind = u.kind => t = u
  /\ BalancesMatchLedger

\* An order that is not finished is settled by rows of its own.
Settles(o, cl, m, to, amount) ==
  /\ status[o] \notin Terminal /\ status'[o] \in Settled
  /\ Settle(SettlementRows(o, cl, m, to, amount))

SomeSettles ==
  \E o \in Orders : \E cl, m, to, amount : Settles(o, cl, m, to, amount)

SomeDecides ==
  \E t \in txns, s \in {"COMPLETED", "REJECTED"} : DecideTxn(t, s)

MoneyStep == SomeSettles \/ SomeDecides \/ UNCHANGED <<txns, balance>>

\* Placing an order: only the sale over the counter is settled.
LEMMA PlaceOrderMoney ==
  ASSUME TypeOK, NEW o \in Orders, PlaceOrder(o)
  PROVE  MoneyStep
<1>1. PICK cl \in Clients, cart \in Carts, capitalize \in BOOLEAN :
        \/ cl # WalkIn /\ \E m \in Methods : create_order(o, cl, m, cart, capitalize)
        \/ "CONTRACT" \in Methods
             /\ \E c \in Contracts : create_contract_order(o, cl, c, cart, capitalize)
        \/ create_warehouse_sale(o, cl, cart, capitalize)
        \/ \E m \in Methods, initial \in InitialBalances :
             onboard_client_with_balance(o, cl, m, cart, initial)
  BY DEF PlaceOrder
<1>2. CASE create_warehouse_sale(o, cl, cart, capitalize)
  <2>1. /\ InsertOrder(o, cl, "CASH", None, cart, CatalogPrice, "PICKUP_COMPLETED")
        /\ Settle(SettlementRows(o, cl, "CASH", Cash, LineTotal(cart, CatalogPrice)))
    BY <1>2, Zenon DEF create_warehouse_sale
  <2>2. status[o] \notin Terminal /\ status'[o] \in Settled
    BY <2>1 DEF InsertOrder, Terminal, Settled, TypeOK
  <2> QED
    BY <2>1, <2>2, Zenon DEF Settles, SomeSettles, MoneyStep
<1>3. CASE ~create_warehouse_sale(o, cl, cart, capitalize)
  BY <1>1, <1>3 DEF create_order, create_contract_order, onboard_client_with_balance, MoneyStep
<1> QED
  BY <1>2, <1>3

\* Other operations on an order: only deliver_order settles.
LEMMA ChangeOrderMoney ==
  ASSUME TypeOK, OrdersWellFormed, NEW o \in Orders, ChangeOrder(o)
  PROVE  MoneyStep
<1>1. ASSUME NEW actual \in Carts, NEW corrected \in BOOLEAN, deliver_order(o, actual, corrected)
      PROVE  MoneyStep
  <2> DEFINE amount == IF corrected THEN LineTotal(actual, unit_price[o]) ELSE total[o]
  <2>1. Settle(SettlementRows(o, client[o], pay[o], courier[o], amount))
    BY <1>1, Zenon DEF deliver_order
  <2>2. status'[o] \in Settled
    BY <1>1 DEF deliver_order, Settled, TypeOK
  <2>3. status[o] \notin Terminal
    BY <1>1 DEF deliver_order, TransitionAllowed, AllowedStatuses, Transitions, Terminal, Settled,
                Statuses, TypeOK
  <2> HIDE DEF amount
  <2> QED
    BY <2>1, <2>2, <2>3, Zenon DEF Settles, SomeSettles, MoneyStep
<1>2. CASE ~\E actual \in Carts, corrected \in BOOLEAN : deliver_order(o, actual, corrected)
  BY <1>2 DEF ChangeOrder, LockOrder, Rollback, add_product_to_order, remove_product_from_order,
     assign_courier, update_status, cancel_by_staff, cancel_order_check, cancel_order,
     cancel_order_refused, CancelOrder, Age, ledgerVars, MoneyStep
<1> QED
  BY <1>1, <1>2

\* Every step of the system.
LEMMA NextMoneyStep ==
  ASSUME TypeOK, OrdersWellFormed, Next
  PROVE  MoneyStep
<1>1. ASSUME NEW o \in Orders, PlaceOrder(o) \/ ChangeOrder(o) PROVE MoneyStep
  BY <1>1, PlaceOrderMoney, ChangeOrderMoney
<1>2. ASSUME NEW c \in Contracts, ChangeContract(c) PROVE MoneyStep
  BY <1>2 DEF ChangeContract, create_contract, activate_contract, suspend_contract,
     reinstate_contract, terminate_contract, update_contract, EndDatePasses, CancelInflight,
     CancelAll, ledgerVars, MoneyStep
<1>3. CASE ChangePrices
  BY <1>3 DEF ChangePrices, price_item_check, set_price_item, remove_price_item,
     price_item_aborted, ledgerVars, MoneyStep
<1>4. CASE Jobs
  BY <1>4 DEF Jobs, expire_stale_orders, run_expire_job_scan, run_expire_job,
     run_expire_job_aborted, CancelInflight, CancelAll, ledgerVars, MoneyStep
<1>5. ASSUME NEW t \in txns, verify_transaction(t) \/ reject_transaction(t) PROVE MoneyStep
  BY <1>5, Zenon DEF verify_transaction, reject_transaction, SomeDecides, MoneyStep
<1> QED
  BY <1>1, <1>2, <1>3, <1>4, <1>5 DEF Next

\* The rows of a settlement: finitely many, all of the order, one of a kind.
LEMMA SettlementShape ==
  ASSUME NEW o, NEW cl, NEW m, NEW to, NEW amount
  PROVE  /\ IsFiniteSet(SettlementRows(o, cl, m, to, amount))
         /\ \A t \in SettlementRows(o, cl, m, to, amount) : t.order = o
         /\ \A t, u \in SettlementRows(o, cl, m, to, amount) : t.kind = u.kind => t = u
<1> DEFINE debt == Txn(o, "debt", Revenue, cl, amount, "COMPLETED")
           paid == Txn(o, "payment", cl, to, amount, "COMPLETED")
           wait == Txn(o, "payment", cl, Card, amount, "PENDING")
           P == IF m = "CASH" THEN {paid} ELSE IF m = "CARD" THEN {wait} ELSE {}
<1>1. SettlementRows(o, cl, m, to, amount) = {debt} \union P
  BY DEF SettlementRows
<1>2. /\ debt.order = o /\ debt.kind = "debt"
      /\ paid.order = o /\ paid.kind = "payment"
      /\ wait.order = o /\ wait.kind = "payment"
  BY DEF Txn
<1> HIDE DEF debt, paid, wait
<1>3. P = {paid} \/ P = {wait} \/ P = {}
  OBVIOUS
<1> HIDE DEF P
<1>4. IsFiniteSet({debt}) /\ IsFiniteSet({paid}) /\ IsFiniteSet({wait}) /\ IsFiniteSet({})
  BY FS_Singleton, FS_EmptySet, Zenon
<1>5. IsFiniteSet(P)
  BY <1>3, <1>4, Zenon
<1>6. IsFiniteSet({debt} \union P)
  BY <1>4, <1>5, FS_Union
<1>7. \A t \in P : t.order = o /\ t.kind = "payment"
  BY <1>2, <1>3
<1>8. \A t, u \in P : t = u
  BY <1>3
<1>9. \A t \in {debt} \union P : t.order = o
  BY <1>2, <1>7
<1>10. \A t, u \in {debt} \union P : t.kind = u.kind => t = u
  <2>1. debt.kind = "debt" /\ \A t \in P : t.kind # "debt"
    BY <1>2, <1>7
  <2> QED
    BY <2>1, <1>8, Zenon
<1> QED
  BY <1>1, <1>6, <1>9, <1>10

\* A finite set of typed rows can be added up.
LEMMA TypedRows ==
  ASSUME NEW rows, rows \subseteq TxnRows, IsFiniteSet(rows)
  PROVE  IsLedger(rows)
BY DEF IsLedger, TxnRows

\* A settlement adds rows that were not there and posts them.
LEMMA SettlesBalanced ==
  ASSUME TypeOK, TypeOK', PaymentInv, NEW o \in Orders, NEW cl, NEW m, NEW to, NEW amount,
         Settles(o, cl, m, to, amount),
         \A x \in Orders : status[x] \in Terminal => status'[x] = status[x]
  PROVE  PaymentInv'
<1> DEFINE R == SettlementRows(o, cl, m, to, amount)
<1>1. /\ IsFiniteSet(R) /\ \A t \in R : t.order = o
      /\ \A t, u \in R : t.kind = u.kind => t = u
  BY SettlementShape
<1>2. /\ txns' = txns \union R /\ balance' = Posted(balance, R)
      /\ status[o] \notin Terminal /\ status'[o] \in Settled
  BY DEF Settles, Settle
<1> HIDE DEF R
<1>3. txns \subseteq TxnRows /\ R \subseteq TxnRows /\ balance \in [Accounts -> Int]
  BY <1>2 DEF TypeOK
<1>4. \A t \in txns : t.order # o
  BY <1>2 DEF PaymentInv, Terminal
<1>5. txns \intersect R = {}
  BY <1>1, <1>4
<1>6. IsLedger(txns) /\ IsLedger(R) /\ Balanced(balance, txns)
  BY <1>1, <1>3, TypedRows DEF PaymentInv, BalancesMatchLedger, Balanced
<1>7. Balanced(balance', txns')
  BY <1>2, <1>3, <1>5, <1>6, PostedBalanced
<1>8. IsFiniteSet(txns')
  BY <1>1, <1>2, FS_Union DEF PaymentInv
<1>9. \A t \in txns' : status'[t.order] \in Settled
  BY <1>1, <1>2, <1>3 DEF PaymentInv, Terminal, TxnRows
<1>10. \A t, u \in txns' : t.order = u.order /\ t.kind = u.kind => t = u
  BY <1>1, <1>2, <1>4 DEF PaymentInv
<1> QED
  BY <1>7, <1>8, <1>9, <1>10 DEF PaymentInv, BalancesMatchLedger, Balanced

\* A decision replaces a PENDING row by the decided one and posts that.
LEMMA DecidesBalanced ==
  ASSUME TypeOK, PaymentInv, NEW t \in txns, NEW s \in {"COMPLETED", "REJECTED"}, DecideTxn(t, s)
  PROVE  PaymentInv'
<1> DEFINE u == [t EXCEPT !.status = s]
<1>1. /\ t.status = "PENDING" /\ txns' = (txns \ {t}) \union {u}
      /\ balance' = Posted(balance, {u}) /\ status' = status
  BY DEF DecideTxn, orderVars
<1>2. txns \subseteq TxnRows /\ t \in TxnRows /\ balance \in [Accounts -> Int]
  BY DEF TypeOK
<1>3. u \in TxnRows /\ u.order = t.order /\ u.kind = t.kind /\ u.status # "PENDING"
  BY <1>2 DEF TxnRows, TxnStatuses
<1> HIDE DEF u
<1>4. u \notin txns
  BY <1>1, <1>3 DEF PaymentInv
<1>5. IsLedger(txns) /\ Balanced(balance, txns)
  BY <1>2, TypedRows DEF PaymentInv, BalancesMatchLedger, Balanced
<1>6. IsLedger(txns \ {t}) /\ Balanced(balance, txns \ {t})
  BY <1>1, <1>5, PendingBalanced
<1>7. IsFiniteSet({u}) /\ IsLedger({u})
  BY <1>3, FS_Singleton, TypedRows
<1>8. Balanced(balance', txns')
  BY <1>1, <1>2, <1>4, <1>6, <1>7, PostedBalanced
<1>9. IsFiniteSet(txns')
  <2>1. IsFiniteSet(txns \ {t})
    BY FS_Subset, txns \ {t} \subseteq txns DEF PaymentInv
  <2> QED
    BY <1>1, <1>7, <2>1, FS_Union
<1>10. \A x \in txns' : status'[x.order] \in Settled
  BY <1>1, <1>3 DEF PaymentInv
<1>11. \A x, y \in txns' : x.order = y.order /\ x.kind = y.kind => x = y
  BY <1>1, <1>3 DEF PaymentInv
<1> QED
  BY <1>8, <1>9, <1>10, <1>11 DEF PaymentInv, BalancesMatchLedger, Balanced

\* The rows of the orders and the balances stay consistent.
LEMMA PaymentInvariance == Spec => []PaymentInv
<1>1. Init => PaymentInv
  <2> SUFFICES ASSUME Init PROVE PaymentInv
    OBVIOUS
  <2>1. IsFiniteSet(txns) /\ txns = {}
    BY FS_EmptySet DEF Init
  <2>2. \A a \in Accounts : AmountIn(txns, a) = 0 /\ AmountOut(txns, a) = 0
    <3>1. \A a \in Accounts : /\ {t \in Completed(txns) : t.to = a} = {}
                              /\ {t \in Completed(txns) : t.from = a} = {}
      BY <2>1 DEF Completed
    <3> QED
      BY <3>1, SumEmpty DEF AmountIn, AmountOut
  <2>3. BalancesMatchLedger
    BY <2>2 DEF Init, BalancesMatchLedger
  <2> QED
    BY <2>1, <2>3 DEF PaymentInv
<1>2. OrderInv /\ OrderInv' /\ PaymentInv /\ [Next]_vars => PaymentInv'
  <2> SUFFICES ASSUME OrderInv, OrderInv', PaymentInv, [Next]_vars
               PROVE  PaymentInv'
    OBVIOUS
  <2>0. TypeOK /\ TypeOK' /\ OrdersWellFormed
    BY DEF OrderInv
  <2>1. CASE Next
    <3>1. \A x \in Orders : status[x] \in Terminal => status'[x] = status[x]
      BY <2>0, <2>1, NextOrderStep, StepFinal DEF OrderInv
    <3>2. CASE SomeSettles
      BY <2>0, <3>1, <3>2, SettlesBalanced DEF SomeSettles
    <3>3. CASE SomeDecides
      BY <2>0, <3>3, DecidesBalanced DEF SomeDecides
    <3>4. CASE UNCHANGED <<txns, balance>>
      <4>1. \A t \in txns : t.order \in Orders
        BY <2>0 DEF TypeOK, TxnRows
      <4> QED
        BY <3>1, <3>4, <4>1 DEF PaymentInv, BalancesMatchLedger, Terminal
    <3> QED
      BY <2>0, <2>1, <3>2, <3>3, <3>4, NextMoneyStep DEF MoneyStep
  <2>2. CASE UNCHANGED vars
    BY <2>2 DEF vars, orderVars, ledgerVars, PaymentInv, BalancesMatchLedger
  <2> QED
    BY <2>1, <2>2
<1> QED
  BY <1>1, <1>2, OrderInvariance, PTL DEF Spec

\* accounts.balance is what the COMPLETED rows add up to, for every set of
\* orders, clients and couriers, through settlement, verification, rejection.
THEOREM BalancesAlwaysMatch == Spec => []BalancesMatchLedger
<1>1. PaymentInv => BalancesMatchLedger
  BY DEF PaymentInv
<1> QED
  BY <1>1, PaymentInvariance, PTL

-----------------------------------------------------------------------------
(* What a client owes.  The rows tell the orders (RowsMatchOrders): a      *)
(* client's balance, a sum over rows, is then a sum over orders.           *)

\* A row is for the sum of its order; the debt is on the order's client, and
\* the payment is his, to somebody who is no client.
RowMatchesOrder(t) ==
  /\ t.amount = total[t.order]
  /\ t.kind = "debt" => t.from = Revenue /\ t.to = client[t.order]
  /\ t.kind = "payment" => t.from = client[t.order] /\ t.to \notin Clients

RowsMatchOrders == \A t \in txns : RowMatchesOrder(t)

\* The client of an order never changes.
LEMMA StepClient ==
  ASSUME TypeOK, OrderStep, NEW x \in Orders, Exists(x)
  PROVE  client'[x] = client[x]
<1>1. CASE SomeInserted
  BY <1>1 DEF SomeInserted, Inserted, Exists, TypeOK
<1>2. CASE ~SomeInserted
  BY <1>2 DEF OrderStep, SomeEdited, Edited, SomeMoved, Moved, SomeDelivered, Delivered,
              SomeCancelled, CancelledSet, Untouched
<1> QED
  BY <1>1, <1>2

\* The rows of a settlement match the order they settle.
LEMMA SettlementMatches ==
  ASSUME NEW o, NEW cl, NEW m, NEW to, NEW amount, to \notin Clients,
         NEW t \in SettlementRows(o, cl, m, to, amount)
  PROVE  /\ t.order = o /\ t.amount = amount
         /\ t.kind = "debt" => t.from = Revenue /\ t.to = cl
         /\ t.kind = "payment" => t.from = cl /\ t.to \notin Clients
<1>1. Card \notin Clients
  BY OrdersAssumption
<1> QED
  BY <1>1 DEF SettlementRows, Txn

\* Rows of finished orders keep matching them.
LEMMA OldRowsMatch ==
  ASSUME TypeOK, PaymentInv, OrderStep, RowsMatchOrders, NEW t \in txns
  PROVE  RowMatchesOrder(t)'
<1>1. t.order \in Orders /\ status[t.order] \in Settled
  BY DEF TypeOK, TxnRows, PaymentInv
<1>2. status[t.order] \in Terminal /\ Exists(t.order)
  BY <1>1 DEF Terminal, Exists, Settled
<1>3. total'[t.order] = total[t.order] /\ client'[t.order] = client[t.order]
  BY <1>1, <1>2, StepFinal, StepClient
<1> QED
  BY <1>3 DEF RowsMatchOrders, RowMatchesOrder

\* Every step of the system keeps the rows in line with the orders.
LEMMA StepRowsMatch ==
  ASSUME TypeOK, PaymentInv, OrderStep, RowsMatchOrders
  PROVE  RowsMatchOrders'
<1>0. \A t \in txns : RowMatchesOrder(t)'
  BY OldRowsMatch
<1>1. ASSUME NEW o \in Orders, NEW cl, NEW m, NEW to, NEW amount, to \notin Clients,
             txns' = txns \union SettlementRows(o, cl, m, to, amount),
             total'[o] = amount, client'[o] = cl
      PROVE  RowsMatchOrders'
  <2>1. \A t \in SettlementRows(o, cl, m, to, amount) : RowMatchesOrder(t)'
    BY <1>1, SettlementMatches DEF RowMatchesOrder
  <2> QED
    BY <1>0, <1>1, <2>1 DEF RowsMatchOrders
<1>2. CASE txns' = txns
  BY <1>0, <1>2 DEF RowsMatchOrders
<1>3. CASE SomeInserted
  <2>1. PICK o \in Orders, cl \in Clients, m \in {"CASH", "CARD", "CONTRACT"},
            c \in Contracts \union {None}, cart \in Lines, amount \in Nat,
            s \in {"NEW", "PICKUP_COMPLETED"} : Inserted(o, cl, m, c, cart, amount, s)
    BY <1>3, Zenon DEF SomeInserted
  <2>2. total'[o] = amount /\ client'[o] = cl
    BY <2>1 DEF Inserted, TypeOK
  <2>3. Cash \notin Clients
    BY OrdersAssumption
  <2>4. CASE s # "NEW"
    BY <1>1, <2>1, <2>2, <2>3, <2>4 DEF Inserted
  <2>5. CASE s = "NEW"
    BY <1>2, <2>1, <2>5 DEF Inserted
  <2> QED
    BY <2>4, <2>5
<1>4. CASE SomeDelivered
  <2>1. PICK o \in Orders, lines \in Lines, amount \in Nat : Delivered(o, lines, amount)
    BY <1>4, Zenon DEF SomeDelivered
  <2>2. total'[o] = amount /\ client'[o] = client[o]
    BY <2>1 DEF Delivered, TypeOK
  <2>3. courier[o] \notin Clients
    BY OrdersAssumption DEF TypeOK
  <2> QED
    BY <1>1, <2>1, <2>2, <2>3 DEF Delivered
<1>5. CASE Untouched
  <2>1. ASSUME NEW t \in txns, NEW s \in {"COMPLETED", "REJECTED"}, Decided(t, s)
        PROVE  RowsMatchOrders'
    <3> DEFINE u == [t EXCEPT !.status = s]
    <3>1. /\ u.order = t.order /\ u.kind = t.kind /\ u.amount = t.amount
          /\ u.from = t.from /\ u.to = t.to
      BY DEF TypeOK, TxnRows
    <3>2. txns' = (txns \ {t}) \union {u}
      BY <2>1 DEF Decided
    <3> HIDE DEF u
    <3>3. RowMatchesOrder(u)'
      BY <1>0, <3>1 DEF RowMatchesOrder
    <3> QED
      BY <1>0, <3>2, <3>3 DEF RowsMatchOrders
  <2> QED
    BY <1>2, <1>5, <2>1 DEF Untouched
<1>6. CASE SomeEdited \/ SomeMoved \/ SomeCancelled
  BY <1>2, <1>6 DEF SomeEdited, Edited, SomeMoved, Moved, SomeCancelled, CancelledSet
<1> QED
  BY <1>3, <1>4, <1>5, <1>6 DEF OrderStep

\* One row per order: a sum over rows is a sum over their orders.
LEMMA RowsToOrders ==
  ASSUME TypeOK, PaymentInv, RowsMatchOrders, NEW kind, NEW S, S \subseteq txns,
         \A t \in S : t.kind = kind,
         NEW T, \A o : o \in T <=> \E t \in S : t.order = o
  PROVE  SumOver(AmountOf(txns), S) = SumOver(total, T)
<1> DEFINE f == AmountOf(txns)
           h == [t \in S |-> t.order]
<1>1. IsFiniteSet(S)
  BY FS_Subset DEF PaymentInv
<1>2. \A t \in S : f[t] = t.amount /\ t.amount \in Nat /\ total[t.order] = t.amount
  BY DEF AmountOf, TypeOK, TxnRows, RowsMatchOrders, RowMatchesOrder
<1>3. IsSummable(f, S)
  BY <1>1, <1>2 DEF IsSummable
<1>4. h \in [S -> T] /\ \A t \in S : h[t] = t.order
  OBVIOUS
<1>5. \A t, u \in S : t.order = u.order => t = u
  BY DEF PaymentInv
<1> HIDE DEF f, h
<1>6. \A t, u \in S : h[t] = h[u] => t = u
  BY <1>4, <1>5
<1>7. \A o \in T : \E t \in S : h[t] = o
  BY <1>4
<1>8. \A t \in S : total[h[t]] = f[t]
  BY <1>2, <1>4
<1>9. SumOver(f, S) = SumOver(total, T)
  BY <1>3, <1>4, <1>6, <1>7, <1>8, SumReindex
<1> QED
  BY <1>9 DEF f

\* The rows behind a client's balance, by the orders they are for.
LEMMA ClientRows ==
  ASSUME OrderInv, PaymentInv, RowsMatchOrders, NEW cl \in Clients
  PROVE  /\ \A t \in Completed(txns) : t.to = cl <=> t.kind = "debt" /\ client[t.order] = cl
         /\ \A t \in Completed(txns) : t.from = cl <=> t.kind = "payment" /\ client[t.order] = cl
         /\ \A o \in Orders : status[o] \in Settled <=>
              \E t \in Completed(txns) : t.order = o /\ t.kind = "debt"
<1>1. Revenue \notin Clients
  BY OrdersAssumption
<1>2. \A t \in txns : t.kind \in {"debt", "payment"}
  BY DEF OrderInv, TypeOK, TxnRows
<1>3. \A t \in Completed(txns) : t \in txns /\ RowMatchesOrder(t)
  BY DEF Completed, RowsMatchOrders
<1>4. \A t \in txns : t.kind = "debt" => t \in Completed(txns)
  BY DEF OrderInv, DebtsCompleted, Completed
<1>5. \A o \in Orders : status[o] \in Settled => \E t \in txns : t.order = o /\ t.kind = "debt"
  BY SettledByDebts DEF OrderInv, Debts
<1>6. \A t \in txns : status[t.order] \in Settled
  BY DEF PaymentInv
<1> QED
  BY <1>1, <1>2, <1>3, <1>4, <1>5, <1>6 DEF RowMatchesOrder

\* What the rows add up to for a client is what his unpaid orders cost.
LEMMA BalanceIsOwed ==
  ASSUME OrderInv, PaymentInv, RowsMatchOrders
  PROVE  ClientOwesUnpaidOrders
<1> SUFFICES ASSUME NEW cl \in Clients
             PROVE  balance[cl] = SumOver(total,
               {o \in Orders : /\ status[o] \in Settled /\ client[o] = cl
                               /\ ~\E t \in Completed(txns) : t.order = o /\ t.kind = "payment"})
  BY DEF ClientOwesUnpaidOrders
<1> DEFINE In  == {t \in Completed(txns) : t.to = cl}
           Out == {t \in Completed(txns) : t.from = cl}
           A == {o \in Orders : status[o] \in Settled /\ client[o] = cl}
           P == {o \in A : \E t \in Completed(txns) : t.order = o /\ t.kind = "payment"}
           N == {o \in Orders : /\ status[o] \in Settled /\ client[o] = cl
                                /\ ~\E t \in Completed(txns) : t.order = o /\ t.kind = "payment"}
<1>0. TypeOK /\ Completed(txns) \subseteq txns
  BY DEF OrderInv, Completed
<1>1. /\ \A t \in Completed(txns) : t.to = cl <=> t.kind = "debt" /\ client[t.order] = cl
      /\ \A t \in Completed(txns) : t.from = cl <=> t.kind = "payment" /\ client[t.order] = cl
      /\ \A o \in Orders : status[o] \in Settled <=>
           \E t \in Completed(txns) : t.order = o /\ t.kind = "debt"
  BY ClientRows
<1>2. \A t \in txns : t.order \in Orders /\ status[t.order] \in Settled
  BY <1>0 DEF TypeOK, TxnRows, PaymentInv
<1>3. /\ In \subseteq txns /\ \A t \in In : t.kind = "debt"
      /\ \A o : o \in A <=> \E t \in In : t.order = o
  BY <1>0, <1>1, <1>2
<1>4. /\ Out \subseteq txns /\ \A t \in Out : t.kind = "payment"
      /\ \A o : o \in P <=> \E t \in Out : t.order = o
  BY <1>0, <1>1, <1>2
<1>5. P \subseteq A /\ A \ P = N /\ A \subseteq Orders
  OBVIOUS
<1>6. AmountIn(txns, cl) = SumOver(AmountOf(txns), In) /\ AmountOut(txns, cl) = SumOver(AmountOf(txns), Out)
  BY DEF AmountIn, AmountOut
<1>7. balance[cl] = AmountIn(txns, cl) - AmountOut(txns, cl)
  BY AccountFacts DEF PaymentInv, BalancesMatchLedger
<1> SUFFICES balance[cl] = SumOver(total, N)
  OBVIOUS
<1> HIDE DEF In, Out, A, P, N
<1>8. SumOver(AmountOf(txns), In) = SumOver(total, A)
  BY <1>0, <1>3, RowsToOrders
<1>9. SumOver(AmountOf(txns), Out) = SumOver(total, P)
  BY <1>0, <1>4, RowsToOrders
<1>10. IsSummable(total, A)
  <2>1. IsFiniteSet(A)
    BY <1>5, OrdersAssumption, FS_Subset
  <2> QED
    BY <1>0, <1>5, <2>1 DEF IsSummable, TypeOK
<1>11. /\ SumOver(total, A) = SumOver(total, P) + SumOver(total, N)
       /\ SumOver(total, P) \in Nat /\ SumOver(total, N) \in Nat
  BY <1>5, <1>10, SumSplit
<1> QED
  BY <1>6, <1>7, <1>8, <1>9, <1>11

\* Every row stays in line with its order: it is for the order's final sum
\* and between the order's client and the right account.
LEMMA RowsInvariance == Spec => []RowsMatchOrders
<1>1. Init => RowsMatchOrders
  BY DEF Init, RowsMatchOrders
<1>2. OrderInv /\ PaymentInv /\ RowsMatchOrders /\ [Next]_vars => RowsMatchOrders'
  <2> SUFFICES ASSUME OrderInv, PaymentInv, RowsMatchOrders, [Next]_vars
               PROVE  RowsMatchOrders'
    OBVIOUS
  <2>1. CASE Next
    BY <2>1, NextOrderStep, StepRowsMatch DEF OrderInv
  <2>2. CASE UNCHANGED vars
    BY <2>2 DEF vars, orderVars, ledgerVars, RowsMatchOrders, RowMatchesOrder
  <2> QED
    BY <2>1, <2>2
<1> QED
  BY <1>1, <1>2, OrderInvariance, PaymentInvariance, PTL DEF Spec

\* A client owes exactly his settled orders that no completed payment covers,
\* whatever was corrected at delivery, verified or rejected since.
THEOREM ClientsOweUnpaid == Spec => []ClientOwesUnpaidOrders
<1>1. OrderInv /\ PaymentInv /\ RowsMatchOrders => ClientOwesUnpaidOrders
  BY BalanceIsOwed
<1> QED
  BY <1>1, OrderInvariance, PaymentInvariance, RowsInvariance, PTL

-----------------------------------------------------------------------------
(* Sums of orders.  A line keeps the price it was entered with while the sum *)
(* grows by today's price: the two agree where the price is the catalogue's, *)
(* and part only where a contract price was changed in between.              *)

ByContract(o) == pay[o] = "CONTRACT" /\ contract[o] # None

\* Where the price of a line comes from.
LinesPriced(o) ==
  ~ByContract(o) => \A p \in Products : items[o][p] > 0 => unit_price[o][p] = CatalogPrice[p]

SumHolds(o) == ~ByContract(o) => total[o] = LineTotal(items[o], unit_price[o])

PricedInv == \A o \in Orders : LinesPriced(o) /\ SumHolds(o)

\* Nothing that a sum depends on changes.
SameSum(o) ==
  /\ items'[o] = items[o] /\ unit_price'[o] = unit_price[o] /\ total'[o] = total[o]
  /\ pay'[o] = pay[o] /\ contract'[o] = contract[o]

DriftsByTopUp(o) == Drift(o)' > Drift(o) => ToppedUp(o)

\* Only order o changes; it is still priced and summed up, and its sum does not
\* drift but by a top-up.
PricedStep(o) ==
  /\ \A x \in Orders \ {o} : SameSum(x)
  /\ LinesPriced(o)' /\ SumHolds(o)' /\ DriftsByTopUp(o)

LineAmount(lines, prices, p) == lines[p] * prices[p]

\* What the sum of the new lines is, when line p has been replaced.
Recalculated(lines, prices, newLines, newPrices, p) ==
  /\ LineAmount(lines, prices, p) <= LineTotal(lines, prices)
  /\ LineTotal(newLines, newPrices) = LineTotal(lines, prices) - LineAmount(lines, prices, p)
                                        + LineAmount(newLines, newPrices, p)

\* A sum of which one line changes.
LEMMA LineTotalChange ==
  ASSUME NEW lines \in Lines, NEW prices \in Lines, NEW newLines \in Lines, NEW newPrices \in Lines,
         NEW p \in Products,
         \A q \in Products : q # p => newLines[q] = lines[q] /\ newPrices[q] = prices[q]
  PROVE  Recalculated(lines, prices, newLines, newPrices, p)
<1> DEFINE f == [q \in Products |-> lines[q] * prices[q]]
           g == [q \in Products |-> newLines[q] * newPrices[q]]
<1>1. IsSummable(f, Products)
  <2>1. \A q \in Products : f[q] \in Nat
    BY ProductNat DEF Lines
  <2> QED
    BY <2>1, StockAssumption DEF IsSummable
<1>2. g[p] \in Nat
  BY ProductNat DEF Lines
<1>3. \A q \in Products : q # p => g[q] = f[q]
  OBVIOUS
<1>4. /\ LineTotal(newLines, newPrices) = SumOver(g, Products)
      /\ LineTotal(lines, prices) = SumOver(f, Products)
      /\ f[p] = LineAmount(lines, prices, p) /\ g[p] = LineAmount(newLines, newPrices, p)
  BY DEF LineTotal, LineAmount
<1> HIDE DEF f, g
<1>5. SumMoves(f, g, Products, p)
  BY <1>1, <1>2, <1>3, SumChange, Zenon
<1> QED
  BY <1>4, <1>5, Zenon DEF Recalculated, SumMoves

\* The drift of a sum, from the sum and its lines.
LEMMA DriftIs ==
  ASSUME TypeOK, NEW o \in Orders
  PROVE  /\ total[o] \in Nat /\ LineTotal(items[o], unit_price[o]) \in Nat
         /\ Drift(o) \in Nat
         /\ total[o] = LineTotal(items[o], unit_price[o]) => Drift(o) = 0
<1>1. total[o] \in Nat /\ items[o] \in Lines /\ unit_price[o] \in Lines
  BY DEF TypeOK
<1>2. LineTotal(items[o], unit_price[o]) \in Nat
  BY <1>1, LineTotalType
<1> QED
  BY <1>1, <1>2 DEF Drift

\* A sum that is computed from its lines does not drift.
LEMMA NoDrift ==
  ASSUME TypeOK, TypeOK', NEW o \in Orders, total'[o] = LineTotal(items'[o], unit_price'[o])
  PROVE  DriftsByTopUp(o)
<1>1. Drift(o) \in Nat
  BY DriftIs
<1>2. total'[o] \in Nat
  BY DEF TypeOK
<1>3. Drift(o)' = 0
  BY <1>2 DEF Drift
<1> QED
  BY <1>1, <1>3 DEF DriftsByTopUp

\* An order that is placed with contract prices or with those of the catalogue.
LEMMA InsertPriced ==
  ASSUME TypeOK, TypeOK', NEW o \in Orders, NEW cl, NEW m, NEW c, NEW cart, NEW prices, NEW s,
         InsertOrder(o, cl, m, c, cart, prices, s),
         (m = "CONTRACT" /\ c # None) \/ prices = CatalogPrice
  PROVE  PricedStep(o)
<1>1. /\ items'[o] = cart /\ unit_price'[o] = prices /\ total'[o] = LineTotal(cart, prices)
      /\ pay'[o] = m /\ contract'[o] = c
  BY DEF InsertOrder, TypeOK
<1>2. \A x \in Orders \ {o} : SameSum(x)
  BY DEF InsertOrder, TypeOK, SameSum
<1>3. LinesPriced(o)'
  BY <1>1 DEF LinesPriced, ByContract
<1>4. SumHolds(o)'
  BY <1>1 DEF SumHolds
<1>5. DriftsByTopUp(o)
  BY <1>1, NoDrift
<1> QED
  BY <1>2, <1>3, <1>4, <1>5 DEF PricedStep

LEMMA PlaceOrderPriced ==
  ASSUME TypeOK, TypeOK', NEW o \in Orders, PlaceOrder(o)
  PROVE  PricedStep(o)
<1>1. PICK cl \in Clients, cart \in Carts, capitalize \in BOOLEAN :
        \/ cl # WalkIn /\ \E m \in Methods : create_order(o, cl, m, cart, capitalize)
        \/ "CONTRACT" \in Methods
             /\ \E c \in Contracts : create_contract_order(o, cl, c, cart, capitalize)
        \/ create_warehouse_sale(o, cl, cart, capitalize)
        \/ \E m \in Methods, initial \in InitialBalances :
             onboard_client_with_balance(o, cl, m, cart, initial)
  BY DEF PlaceOrder
<1>2. ASSUME NEW c \in Contracts, create_contract_order(o, cl, c, cart, capitalize) PROVE PricedStep(o)
  <2>1. InsertOrder(o, cl, "CONTRACT", c, cart, price[c], "NEW")
    BY <1>2 DEF create_contract_order
  <2>2. c # None
    BY OrdersAssumption
  <2> QED
    BY <2>1, <2>2, InsertPriced
<1>3. ASSUME NEW m \in Methods, create_order(o, cl, m, cart, capitalize) PROVE PricedStep(o)
  BY <1>3, InsertPriced DEF create_order
<1>4. CASE create_warehouse_sale(o, cl, cart, capitalize)
  <2>1. InsertOrder(o, cl, "CASH", None, cart, CatalogPrice, "PICKUP_COMPLETED")
    BY <1>4, Zenon DEF create_warehouse_sale
  <2> QED
    BY <2>1, InsertPriced
<1>5. ASSUME NEW m \in Methods, NEW initial, onboard_client_with_balance(o, cl, m, cart, initial)
      PROVE  PricedStep(o)
  BY <1>5, InsertPriced DEF onboard_client_with_balance
<1> QED
  BY <1>1, <1>2, <1>3, <1>4, <1>5

\* A line that exists grows at today's price: the line's own, or the sum drifts.
LEMMA AddProductPriced ==
  ASSUME TypeOK, TypeOK', PricedInv, NEW o \in Orders, NEW p \in Products, NEW n \in 1..MaxQty[p],
         add_product_to_order(o, p, n)
  PROVE  PricedStep(o)
<1> DEFINE today == IF ByContract(o) THEN price[contract[o]][p] ELSE CatalogPrice[p]
<1>0. n \in Nat /\ n > 0
  BY OrdersAssumption
<1>1. /\ items[o] \in Lines /\ unit_price[o] \in Lines /\ items'[o] \in Lines /\ unit_price'[o] \in Lines
      /\ total[o] \in Nat
  BY DEF TypeOK
<1>2. /\ items'[o][p] = items[o][p] + n
      /\ unit_price'[o][p] = IF items[o][p] > 0 THEN unit_price[o][p] ELSE today
      /\ total'[o] = total[o] + today * n
      /\ pay'[o] = pay[o] /\ contract'[o] = contract[o]
  BY DEF add_product_to_order, ByContract, AmountToAdd, TypeOK, Lines
<1>3. \A q \in Products : q # p =>
        items'[o][q] = items[o][q] /\ unit_price'[o][q] = unit_price[o][q]
  BY DEF add_product_to_order, TypeOK, Lines
<1>4. \A x \in Orders \ {o} : SameSum(x)
  BY DEF add_product_to_order, TypeOK, SameSum
<1>5. today \in Nat
  <2>1. CASE ByContract(o)
    <3>1. contract[o] \in Contracts
      BY <2>1 DEF ByContract, TypeOK
    <3> QED
      BY <2>1, <3>1 DEF TypeOK, Lines
  <2>2. CASE ~ByContract(o)
    BY <2>2, OrdersAssumption
  <2> QED
    BY <2>1, <2>2
<1>6. /\ ~ByContract(o) => today = CatalogPrice[p]
      /\ ByContract(o) => today = price[contract[o]][p]
  OBVIOUS
<1> HIDE DEF today
<1>7. ByContract(o)' <=> ByContract(o)
  BY <1>2 DEF ByContract
<1>8. LinesPriced(o)'
  BY <1>2, <1>3, <1>6, <1>7 DEF LinesPriced, PricedInv
<1>9. items[o][p] \in Nat /\ unit_price[o][p] \in Nat
  BY <1>1 DEF Lines
<1>10. CASE unit_price'[o][p] = today
  <2>1. Recalculated(items[o], unit_price[o], items'[o], unit_price'[o], p)
    BY <1>1, <1>3, LineTotalChange, Zenon
  <2>2. LineAmount(items'[o], unit_price'[o], p)
          = LineAmount(items[o], unit_price[o], p) + today * n
    <3>1. CASE items[o][p] > 0
      <4>1. unit_price[o][p] = today
        BY <1>2, <1>10, <3>1
      <4> QED
        BY <1>0, <1>2, <1>5, <1>9, <1>10, <4>1 DEF LineAmount
    <3>2. CASE items[o][p] = 0
      BY <1>0, <1>2, <1>5, <1>9, <1>10, <3>2 DEF LineAmount
    <3> QED
      BY <1>9, <3>1, <3>2
  <2>3. LineAmount(items[o], unit_price[o], p) \in Nat /\ today * n \in Nat
    BY <1>0, <1>1, <1>5, ProductNat DEF Lines, LineAmount
  <2>4. LineTotal(items[o], unit_price[o]) \in Nat
    BY <1>1, LineTotalType
  <2>5. /\ LineTotal(items'[o], unit_price'[o]) = LineTotal(items[o], unit_price[o]) + today * n
        /\ total'[o] = total[o] + today * n
    BY <1>2, <2>1, <2>2, <2>3, <2>4 DEF Recalculated
  <2>6. SumHolds(o)'
    BY <1>7, <2>5 DEF SumHolds, PricedInv
  <2>7. Drift(o)' = Drift(o)
    BY <1>1, <2>3, <2>4, <2>5 DEF Drift
  <2>8. Drift(o) \in Nat
    BY DriftIs
  <2> QED
    BY <1>4, <1>8, <2>6, <2>7, <2>8 DEF PricedStep, DriftsByTopUp
<1>11. CASE unit_price'[o][p] # today
  <2>1. items[o][p] > 0 /\ unit_price[o][p] # today
    BY <1>2, <1>11
  <2>2. ByContract(o)
    BY <1>6, <2>1 DEF PricedInv, LinesPriced
  <2>3. items'[o][p] > items[o][p]
    BY <1>0, <1>2, <1>9
  <2>4. ToppedUp(o)
    BY <1>6, <2>1, <2>2, <2>3 DEF ToppedUp, ByContract
  <2>5. SumHolds(o)'
    BY <1>7, <2>2 DEF SumHolds
  <2> QED
    BY <1>4, <1>8, <2>4, <2>5 DEF PricedStep, DriftsByTopUp
<1> QED
  BY <1>10, <1>11

\* Removing a line takes what it stands for off the sum, and no more is there
\* to take.
LEMMA RemoveProductPriced ==
  ASSUME TypeOK, TypeOK', PricedInv, NEW o \in Orders, NEW p \in Products,
         remove_product_from_order(o, p)
  PROVE  PricedStep(o)
<1>1. /\ items[o] \in Lines /\ unit_price[o] \in Lines /\ items'[o] \in Lines /\ unit_price'[o] \in Lines
      /\ total[o] \in Nat
  BY DEF TypeOK
<1>2. /\ items'[o][p] = 0 /\ unit_price'[o] = unit_price[o]
      /\ total'[o] = Decreased(total[o], unit_price[o][p] * items[o][p])
      /\ pay'[o] = pay[o] /\ contract'[o] = contract[o]
  BY DEF remove_product_from_order, TypeOK, Lines
<1>3. \A q \in Products : q # p => items'[o][q] = items[o][q] /\ unit_price'[o][q] = unit_price[o][q]
  BY DEF remove_product_from_order, TypeOK, Lines
<1>4. \A x \in Orders \ {o} : SameSum(x)
  BY DEF remove_product_from_order, TypeOK, SameSum
<1>5. ByContract(o)' <=> ByContract(o)
  BY <1>2 DEF ByContract
<1>6. LinesPriced(o)'
  BY <1>2, <1>3, <1>5 DEF LinesPriced, PricedInv
<1>7. SumHolds(o)' /\ DriftsByTopUp(o)
  <2>1. LineTotal(items[o], unit_price[o]) \in Nat
    BY <1>1, LineTotalType
  <2>2. Recalculated(items[o], unit_price[o], items'[o], unit_price'[o], p)
    BY <1>1, <1>3, LineTotalChange, Zenon
  <2>3. /\ LineAmount(items[o], unit_price[o], p) \in Nat
        /\ unit_price[o][p] * items[o][p] = LineAmount(items[o], unit_price[o], p)
    <3>1. items[o][p] \in Nat /\ unit_price[o][p] \in Nat
      BY <1>1 DEF Lines
    <3>2. items[o][p] * unit_price[o][p] \in Nat
      BY <3>1, ProductNat
    <3> QED
      BY <3>1, <3>2 DEF LineAmount
  <2>4. LineAmount(items'[o], unit_price'[o], p) = 0
    BY <1>1, <1>2 DEF Lines, LineAmount
  <2>5. total'[o] = Decreased(total[o], LineAmount(items[o], unit_price[o], p))
    BY <1>2, <2>3
  <2>6. /\ LineTotal(items'[o], unit_price'[o])
             = LineTotal(items[o], unit_price[o]) - LineAmount(items[o], unit_price[o], p)
        /\ LineAmount(items[o], unit_price[o], p) <= LineTotal(items[o], unit_price[o])
    BY <2>1, <2>2, <2>3, <2>4 DEF Recalculated
  <2>7. SumHolds(o)'
    <3>1. ASSUME total[o] = LineTotal(items[o], unit_price[o])
          PROVE  total'[o] = LineTotal(items'[o], unit_price'[o])
      BY <2>1, <2>3, <2>5, <2>6, <3>1 DEF Decreased
    <3> QED
      BY <1>5, <3>1 DEF SumHolds, PricedInv
  <2>8. Drift(o)' <= Drift(o) /\ Drift(o)' \in Nat /\ Drift(o) \in Nat
    <3> DEFINE t == total[o]
               a == LineAmount(items[o], unit_price[o], p)
               l == LineTotal(items[o], unit_price[o])
               t2 == total'[o]
               l2 == LineTotal(items'[o], unit_price'[o])
    <3>1. t \in Nat /\ a \in Nat /\ l \in Nat /\ a <= l /\ l2 = l - a
          /\ t2 = IF t > a THEN t - a ELSE 0
      BY <1>1, <2>1, <2>3, <2>5, <2>6 DEF Decreased
    <3>2. /\ Drift(o)  = IF t > l THEN t - l ELSE l - t
          /\ Drift(o)' = IF t2 > l2 THEN t2 - l2 ELSE l2 - t2
      BY DEF Drift
    <3> HIDE DEF t, a, l, t2, l2
    <3> QED
      BY <3>1, <3>2
  <2> QED
    BY <2>7, <2>8 DEF DriftsByTopUp
<1> QED
  BY <1>4, <1>6, <1>7 DEF PricedStep

\* A delivery recomputes the sum of corrected lines, and otherwise delivers
\* what was ordered.
LEMMA DeliverPriced ==
  ASSUME TypeOK, TypeOK', PricedInv, NEW o \in Orders, NEW actual \in Carts, NEW corrected \in BOOLEAN,
         deliver_order(o, actual, corrected)
  PROVE  PricedStep(o)
<1>1. /\ items'[o] = actual /\ unit_price'[o] = unit_price[o]
      /\ total'[o] = IF corrected THEN LineTotal(actual, unit_price[o]) ELSE total[o]
      /\ pay'[o] = pay[o] /\ contract'[o] = contract[o]
      /\ corrected \/ actual = items[o]
  BY DEF deliver_order, TypeOK
<1>2. \A p \in Products : actual[p] > 0 => items[o][p] > 0
  <2> SUFFICES ASSUME NEW p \in Products, actual[p] > 0 PROVE items[o][p] > 0
    OBVIOUS
  <2>1. IF items[o][p] = 0 THEN actual[p] = 0 ELSE actual[p] \in 1..items[o][p]
    BY DEF deliver_order
  <2>2. items[o][p] \in Nat
    BY DEF TypeOK, Lines
  <2> QED
    BY <2>1, <2>2
<1>3. \A x \in Orders \ {o} : SameSum(x)
  BY DEF deliver_order, TypeOK, SameSum
<1>4. LinesPriced(o)'
  BY <1>1, <1>2 DEF LinesPriced, PricedInv, ByContract
<1>5. SumHolds(o)'
  BY <1>1 DEF SumHolds, PricedInv, ByContract
<1>6. DriftsByTopUp(o)
  <2>1. CASE corrected
    BY <1>1, <2>1, NoDrift
  <2>2. CASE ~corrected
    <3>1. Drift(o)' = Drift(o)
      BY <1>1, <2>2 DEF Drift
    <3> QED
      BY <3>1, DriftIs DEF DriftsByTopUp
  <2> QED
    BY <2>1, <2>2
<1> QED
  BY <1>3, <1>4, <1>5, <1>6 DEF PricedStep

\* Every other operation on an order leaves its lines alone.
LEMMA OthersPriced ==
  ASSUME TypeOK, NEW o \in Orders, ChangeOrder(o),
         ~\E p \in Products : \E n \in 1..MaxQty[p] : add_product_to_order(o, p, n),
         ~\E p \in Products : remove_product_from_order(o, p),
         ~\E actual \in Carts, corrected \in BOOLEAN : deliver_order(o, actual, corrected)
  PROVE  \A x \in Orders : SameSum(x)
BY DEF ChangeOrder, LockOrder, Rollback, assign_courier, update_status, cancel_by_staff,
       cancel_order_check, cancel_order, cancel_order_refused, CancelOrder, Age, orderVars, SameSum

LEMMA SameSumKept ==
  ASSUME TypeOK, NEW o \in Orders, SameSum(o), LinesPriced(o), SumHolds(o)
  PROVE  LinesPriced(o)' /\ SumHolds(o)' /\ DriftsByTopUp(o)
<1>1. LinesPriced(o)' /\ SumHolds(o)'
  BY DEF SameSum, LinesPriced, SumHolds, ByContract
<1>2. Drift(o)' = Drift(o)
  BY DEF SameSum, Drift
<1> QED
  BY <1>1, <1>2, DriftIs DEF DriftsByTopUp

\* What every step keeps.
PricedGoal == \A o \in Orders : LinesPriced(o)' /\ SumHolds(o)' /\ DriftsByTopUp(o)

LEMMA OrdersPriced ==
  ASSUME TypeOK, PricedInv, (\A o \in Orders : SameSum(o)) \/ \E o \in Orders : PricedStep(o)
  PROVE  PricedGoal
BY SameSumKept DEF PricedInv, PricedStep, PricedGoal

\* Every step of the system.
LEMMA NextPriced ==
  ASSUME OrderInv, PricedInv, Next
  PROVE  PricedGoal
<1>1. TypeOK /\ TypeOK'
  BY NextTypes DEF OrderInv
<1> DEFINE Goal == (\A o \in Orders : SameSum(o)) \/ \E o \in Orders : PricedStep(o)
<1>2. ASSUME NEW o \in Orders, PlaceOrder(o) PROVE Goal
  BY <1>1, <1>2, PlaceOrderPriced
<1>3. ASSUME NEW o \in Orders, ChangeOrder(o) PROVE Goal
  <2>1. ASSUME NEW p \in Products, NEW n \in 1..MaxQty[p], add_product_to_order(o, p, n)
        PROVE  Goal
    BY <1>1, <2>1, AddProductPriced
  <2>2. ASSUME NEW p \in Products, remove_product_from_order(o, p) PROVE Goal
    BY <1>1, <2>2, RemoveProductPriced
  <2>3. ASSUME NEW actual \in Carts, NEW corrected \in BOOLEAN, deliver_order(o, actual, corrected)
        PROVE  Goal
    BY <1>1, <2>3, DeliverPriced
  <2> HIDE DEF Goal
  <2>4. ASSUME ~\E p \in Products : \E n \in 1..MaxQty[p] : add_product_to_order(o, p, n),
               ~\E p \in Products : remove_product_from_order(o, p),
               ~\E actual \in Carts, corrected \in BOOLEAN : deliver_order(o, actual, corrected)
        PROVE  Goal
    BY <1>1, <1>3, <2>4, OthersPriced DEF Goal
  <2> QED
    BY <2>1, <2>2, <2>3, <2>4
<1>4. ASSUME NEW c \in Contracts, ChangeContract(c) PROVE Goal
  BY <1>4 DEF ChangeContract, create_contract, activate_contract, suspend_contract,
     reinstate_contract, terminate_contract, update_contract, EndDatePasses, CancelInflight,
     CancelAll, orderVars, SameSum
<1>5. ASSUME ChangePrices PROVE Goal
  BY <1>5 DEF ChangePrices, price_item_check, set_price_item, remove_price_item,
     price_item_aborted, orderVars, SameSum
<1>6. ASSUME Jobs PROVE Goal
  BY <1>6 DEF Jobs, expire_stale_orders, run_expire_job_scan, run_expire_job,
     run_expire_job_aborted, CancelInflight, CancelAll, orderVars, SameSum
<1>7. ASSUME NEW t \in txns, verify_transaction(t) \/ reject_transaction(t) PROVE Goal
  BY <1>7 DEF verify_transaction, reject_transaction, DecideTxn, orderVars, SameSum
<1>8. Goal
  BY <1>2, <1>3, <1>4, <1>5, <1>6, <1>7 DEF Next
<1> QED
  BY <1>1, <1>8, OrdersPriced

LEMMA InitPriced ==
  ASSUME Init
  PROVE  PricedInv
<1>2. LineTotal(NoLines, NoLines) = 0
  <2> DEFINE f == [p \in Products |-> NoLines[p] * NoLines[p]]
  <2>1. \A p \in Products : f[p] = 0
    BY DEF NoLines
  <2>2. \A p \in Products \ {} : f[p] = 0
    BY <2>1
  <2>3. LineTotal(NoLines, NoLines) = SumOver(f, Products)
    BY DEF LineTotal
  <2> HIDE DEF f
  <2>4. SumOver(f, Products) = SumOver(f, {})
    BY <2>2, SumPart, {} \subseteq Products
  <2> QED
    BY <2>3, <2>4, SumEmpty
<1>3. ASSUME NEW o \in Orders PROVE LinesPriced(o) /\ SumHolds(o)
  <2>1. items[o] = NoLines /\ unit_price[o] = NoLines /\ total[o] = 0
    BY DEF Init
  <2>2. LinesPriced(o)
    BY <2>1 DEF LinesPriced, NoLines
  <2>3. SumHolds(o)
    BY <1>2, <2>1 DEF SumHolds
  <2> QED
    BY <2>2, <2>3
<1> QED
  BY <1>3 DEF PricedInv

LEMMA StepPriced ==
  ASSUME OrderInv, PricedInv, [Next]_vars
  PROVE  PricedGoal
<1>1. CASE Next
  BY <1>1, NextPriced
<1>2. CASE UNCHANGED vars
  <2>1. \A o \in Orders : SameSum(o)
    BY <1>2 DEF vars, orderVars, SameSum
  <2> QED
    BY <2>1, OrdersPriced DEF OrderInv
<1> QED
  BY <1>1, <1>2

LEMMA PricedInvariance == Spec => []PricedInv
<1>1. Init => PricedInv
  BY InitPriced
<1>2. OrderInv /\ PricedInv /\ [Next]_vars => PricedInv'
  BY StepPriced DEF PricedGoal, PricedInv
<1> QED
  BY <1>1, <1>2, OrderInvariance, PTL DEF Spec

\* The sum of an order that is not priced by a contract (cash, card, warehouse
\* sales, onboarding): the total_amount that adding, removing and correcting
\* lines leave is the sum of the lines.
CatalogTotals == \A o \in Orders : ~ByContract(o) => total[o] = LineTotal(items[o], unit_price[o])

\* However the requests interleave and whatever becomes of the contracts, an
\* order priced by the catalogue never owes anything but its lines.
THEOREM CatalogTotalsMatch == Spec => []CatalogTotals
<1>1. PricedInv => CatalogTotals
  BY DEF PricedInv, SumHolds, CatalogTotals
<1> QED
  BY <1>1, PricedInvariance, PTL

\* For every price list and every interleaving with its editors: the sum of an
\* order drifts away from its lines only when add_product_to_order grows a line
\* whose contract price was changed since the line was entered; neither the
\* subtraction cut off at 0 nor a corrected delivery widens the gap.
THEOREM TotalDriftByTopUp == Spec => TotalDriftsOnlyByTopUp
<1>1. OrderInv /\ PricedInv /\ [Next]_vars
        => [\A o \in Orders : Drift(o)' > Drift(o) => ToppedUp(o)]_vars
  BY StepPriced DEF PricedGoal, DriftsByTopUp
<1> QED
  BY <1>1, OrderInvariance, PricedInvariance, PTL DEF Spec, TotalDriftsOnlyByTopUp

-----------------------------------------------------------------------------
(* Goods at the client.  A step brings a client n units of a product with    *)
(* the order that it settles, and perhaps containers besides.                *)

\* What order o brought client cl.
Brings(o, cl, p) == IF status[o] \in Settled /\ client[o] = cl THEN items[o][p] ELSE 0
Brought(cl, p) == SumOver([o \in Orders |-> Brings(o, cl, p)], Orders)

IsContainer(p) == \E q \in Products : Returnable[q] = p

\* The goods and the containers that a step adds to client cl's row of p.
Carried(cl, p, n, extra) ==
  /\ Brought(cl, p)' = Brought(cl, p) + n
  /\ stock'[cl][p] = stock[cl][p] + n + extra
  /\ extra > 0 => IsContainer(p)

GoodsStep ==
  \A cl \in Clients, p \in Products : \E n, extra \in Nat : Carried(cl, p, n, extra)

\* Containers and nothing else.
Containers(lines) == lines \in Lines /\ \A p \in Products : lines[p] > 0 => IsContainer(p)

\* Client cl's inventory receives lines, no other client's changes.
Receives(bal, cl, lines) ==
  \A x \in Clients, p \in Products :
    bal[x][p] = stock[x][p] + (IF x = cl THEN lines[p] ELSE 0)

\* The order is settled afterwards if it was before, with the same lines.
Kept(o) ==
  /\ status'[o] \in Settled <=> status[o] \in Settled
  /\ status[o] \in Settled => items'[o] = items[o] /\ client'[o] = client[o]

LEMMA NoContainersMoved == Containers(NoLines)
BY NoLinesType DEF Containers, NoLines

\* The containers paired with some lines are containers.
LEMMA ReturnablesAreContainers ==
  ASSUME NEW lines \in Lines
  PROVE  Containers(ReturnableItems(lines))
<1>1. ReturnableItems(lines) \in Lines
  BY ReturnableItemsType
<1>2. ASSUME NEW t \in Products, ~IsContainer(t) PROVE ReturnableItems(lines)[t] = 0
  <2>1. {p \in Products : Returnable[p] = t} = {}
    BY <1>2 DEF IsContainer
  <2>2. ReturnableItems(lines)[t] = SumOver(lines, {})
    BY <2>1 DEF ReturnableItems
  <2> QED
    BY <2>2, SumEmpty
<1> QED
  BY <1>1, <1>2 DEF Containers

\* Capitalised containers reach the client only.
LEMMA VendorMove ==
  ASSUME TypeOK, NEW cl \in Clients, NEW lines \in Lines
  PROVE  Receives(Move(stock, Vendor, cl, lines), cl, lines)
BY OrdersAssumption DEF Receives, Move, TypeOK, Lines

\* Lines go out to a client and some of them come back.
LEMMA OutAndBack ==
  ASSUME NEW bal \in Balances, NEW i, i \notin Clients, NEW cl \in Clients,
         NEW issued \in Lines, NEW back \in Lines, NEW x \in Clients, NEW p \in Products
  PROVE  Move(Move(bal, i, cl, issued), cl, i, back)[x][p]
           = bal[x][p] + (IF x = cl THEN issued[p] - back[p] ELSE 0)
<1> DEFINE out == Move(bal, i, cl, issued)
<1>1. x \in Inventories /\ x # i
  BY OrdersAssumption
<1>2. bal[x][p] \in Int /\ issued[p] \in Nat /\ back[p] \in Nat
  BY <1>1 DEF Balances, Lines
<1>3. out[x][p] = bal[x][p] + (IF x = cl THEN issued[p] ELSE 0)
  BY <1>1, <1>2 DEF Move
<1> HIDE DEF out
<1>4. Move(out, cl, i, back)[x][p] = out[x][p] - (IF x = cl THEN back[p] ELSE 0)
  BY <1>1, <1>2, <1>3 DEF Move
<1> QED
  BY <1>2, <1>3, <1>4 DEF out

\* Of a delivery the client keeps the goods: every container is taken back.
LEMMA DeliveryBrings ==
  ASSUME TypeOK, NEW k \in Couriers, NEW cl \in Clients, NEW lines \in Lines
  PROVE  Receives(DeliveryStock(k, cl, lines), cl, lines)
<1>1. ReturnableItems(lines) \in Lines /\ DeliveryLines(lines) \in Lines
  BY ReturnableItemsType, PlusType DEF DeliveryLines
<1>2. stock \in Balances /\ k \notin Clients
  BY OrdersAssumption DEF TypeOK, Balances
<1> SUFFICES ASSUME NEW x \in Clients, NEW p \in Products
             PROVE  DeliveryStock(k, cl, lines)[x][p]
                      = stock[x][p] + (IF x = cl THEN lines[p] ELSE 0)
  BY DEF Receives
<1>3. DeliveryStock(k, cl, lines)[x][p]
        = stock[x][p] + (IF x = cl THEN DeliveryLines(lines)[p] - ReturnableItems(lines)[p] ELSE 0)
  BY <1>1, <1>2, OutAndBack DEF DeliveryStock
<1>4. DeliveryLines(lines)[p] = lines[p] + ReturnableItems(lines)[p]
  BY DEF DeliveryLines, Plus
<1>5. lines[p] \in Nat /\ ReturnableItems(lines)[p] \in Nat
  BY <1>1 DEF Lines
<1> QED
  BY <1>3, <1>4, <1>5

\* So he does at the warehouse, where containers may have been capitalised
\* before (extra).
LEMMA PickupBrings ==
  ASSUME TypeOK, NEW bal \in Balances, NEW cl \in Clients, NEW lines \in Lines, NEW extra \in Lines,
         Receives(bal, cl, extra)
  PROVE  Receives(PickupStock(bal, cl, lines), cl, Plus(lines, extra))
<1> DEFINE issued == PickupIssued(cl, lines)
           back   == PickupReturn(cl, lines)
           from   == PickupSupplied(bal, cl, lines)
<1>1. ReturnableItems(lines) \in Lines
  BY ReturnableItemsType
<1>2. back \in Lines
  BY <1>1 DEF PickupReturn, Lines
<1>3. issued \in Lines
  BY <1>1, <1>2, PlusType DEF PickupIssued
<1>4. from \in Balances
  BY <1>1, MoveType DEF PickupSupplied
<1>5. Warehouse \notin Clients
  BY OrdersAssumption
<1> SUFFICES ASSUME NEW x \in Clients, NEW p \in Products
             PROVE  PickupStock(bal, cl, lines)[x][p]
                      = stock[x][p] + (IF x = cl THEN Plus(lines, extra)[p] ELSE 0)
  BY DEF Receives
<1>6. lines[p] \in Nat /\ extra[p] \in Nat /\ back[p] \in Nat /\ x \in Inventories
  BY <1>2, OrdersAssumption DEF Lines
<1>7. issued[p] = lines[p] + back[p]
  BY DEF PickupIssued, PickupReturn, Plus
<1>8. from[x][p] = bal[x][p]
  <2>1. x # Vendor /\ x # Warehouse /\ bal[x][p] \in Int
    BY <1>6, OrdersAssumption DEF Balances
  <2> QED
    BY <1>6, <2>1 DEF PickupSupplied, Move
<1>9. bal[x][p] = stock[x][p] + (IF x = cl THEN extra[p] ELSE 0) /\ stock[x][p] \in Int
  BY <1>6 DEF Receives, TypeOK
<1>10. Plus(lines, extra)[p] = lines[p] + extra[p]
  BY DEF Plus
<1>11. PickupStock(bal, cl, lines) = Move(Move(from, Warehouse, cl, issued), cl, Warehouse, back)
  BY DEF PickupStock, PickupSold
<1> HIDE DEF issued, back, from
<1>12. PickupStock(bal, cl, lines)[x][p] = from[x][p] + (IF x = cl THEN issued[p] - back[p] ELSE 0)
  BY <1>2, <1>3, <1>4, <1>5, <1>11, OutAndBack
<1> QED
  BY <1>6, <1>7, <1>8, <1>9, <1>10, <1>12

\* What a client was brought is a natural number.
LEMMA BroughtType ==
  ASSUME TypeOK, NEW cl, NEW p \in Products
  PROVE  /\ IsSummable([o \in Orders |-> Brings(o, cl, p)], Orders)
         /\ Brought(cl, p) \in Nat
<1>1. \A o \in Orders : Brings(o, cl, p) \in Nat
  BY DEF Brings, TypeOK, Lines
<1>2. IsSummable([o \in Orders |-> Brings(o, cl, p)], Orders)
  BY <1>1, OrdersAssumption DEF IsSummable
<1> QED
  BY <1>2, SumNat DEF Brought

\* An order that is kept brings what it brought.
LEMMA KeptBrings ==
  ASSUME NEW o \in Orders, Kept(o), NEW cl, NEW p
  PROVE  Brings(o, cl, p)' = Brings(o, cl, p)
BY DEF Kept, Brings

\* No order is settled; a client may receive containers.
LEMMA KeptGoods ==
  ASSUME TypeOK, \A o \in Orders : Kept(o), NEW cl \in Clients, NEW extra, Containers(extra),
         Receives(stock', cl, extra)
  PROVE  GoodsStep
<1> SUFFICES ASSUME NEW x \in Clients, NEW p \in Products
             PROVE  \E n, e \in Nat : Carried(x, p, n, e)
  BY DEF GoodsStep
<1>1. Brought(x, p)' = Brought(x, p)
  <2>1. [o \in Orders |-> Brings(o, x, p)'] = [o \in Orders |-> Brings(o, x, p)]
    BY KeptBrings
  <2> QED
    BY <2>1 DEF Brought
<1>2. Brought(x, p) \in Nat /\ stock[x][p] \in Int /\ extra[p] \in Nat
  <2>1. x \in Inventories
    BY OrdersAssumption
  <2> QED
    BY <2>1, BroughtType DEF TypeOK, Containers, Lines
<1>3. stock'[x][p] = stock[x][p] + (IF x = cl THEN extra[p] ELSE 0)
  BY DEF Receives
<1>4. extra[p] > 0 => IsContainer(p)
  BY DEF Containers
<1>5. CASE x = cl
  <2>1. Carried(x, p, 0, extra[p])
    BY <1>1, <1>2, <1>3, <1>4, <1>5 DEF Carried
  <2> QED
    BY <1>2, <2>1
<1>6. CASE x # cl
  <2>1. Carried(x, p, 0, 0)
    BY <1>1, <1>2, <1>3, <1>6 DEF Carried
  <2> QED
    BY <2>1
<1> QED
  BY <1>5, <1>6

\* Order o is settled and brings its client the lines, perhaps with containers.
LEMMA SettledGoods ==
  ASSUME TypeOK, TypeOK', NEW o \in Orders, NEW cl \in Clients, NEW lines \in Lines, NEW extra,
         Containers(extra), status[o] \notin Settled, status'[o] \in Settled, client'[o] = cl,
         items'[o] = lines, \A x \in Orders : x # o => Kept(x),
         Receives(stock', cl, Plus(lines, extra))
  PROVE  GoodsStep
<1> SUFFICES ASSUME NEW x \in Clients, NEW p \in Products
             PROVE  \E n, e \in Nat : Carried(x, p, n, e)
  BY DEF GoodsStep
<1> DEFINE n == IF x = cl THEN lines[p] ELSE 0
           e == IF x = cl THEN extra[p] ELSE 0
<1>1. n \in Nat /\ e \in Nat /\ lines[p] \in Nat /\ extra[p] \in Nat
  BY DEF Containers, Lines
<1>2. Brought(x, p)' = Brought(x, p) + n
  <2> DEFINE f == [y \in Orders |-> Brings(y, x, p)]
             g == [y \in Orders |-> Brings(y, x, p)']
  <2>1. IsSummable(f, Orders)
    BY BroughtType
  <2>2. f[o] = 0 /\ g[o] = n
    BY DEF Brings
  <2>3. \A y \in Orders : y # o => g[y] = f[y]
    BY KeptBrings
  <2>4. Brought(x, p) = SumOver(f, Orders) /\ Brought(x, p)' = SumOver(g, Orders)
    BY DEF Brought
  <2> HIDE DEF f, g, n, e
  <2>5. g[o] \in Nat
    BY <1>1, <2>2
  <2>6. SumMoves(f, g, Orders, o)
    BY <2>1, <2>3, <2>5, SumChange, Zenon
  <2> QED
    BY <1>1, <2>2, <2>4, <2>6 DEF SumMoves
<1>3. Brought(x, p) \in Nat /\ stock[x][p] \in Int
  <2>1. x \in Inventories
    BY OrdersAssumption
  <2> QED
    BY <2>1, BroughtType DEF TypeOK
<1>4. stock'[x][p] = stock[x][p] + n + e
  <2>1. stock'[x][p] = stock[x][p] + (IF x = cl THEN Plus(lines, extra)[p] ELSE 0)
    BY DEF Receives
  <2>2. Plus(lines, extra)[p] = lines[p] + extra[p]
    BY DEF Plus
  <2> QED
    BY <1>1, <1>3, <2>1, <2>2
<1>5. e > 0 => IsContainer(p)
  BY DEF Containers
<1> HIDE DEF n, e
<1>6. Carried(x, p, n, e)
  BY <1>2, <1>4, <1>5 DEF Carried
<1> QED
  BY <1>1, <1>6

\* A step that inserts no money rows settles no order: SettledExactlyOnce ties
\* every settled order to its debt row.
LEMMA SameRowsKept ==
  ASSUME OrderInv, Next, txns' = txns
  PROVE  \A o \in Orders : Kept(o)
<1>1. TypeOK /\ OrderStep /\ SettledExactlyOnce
  BY NextOrderStep DEF OrderInv
<1>2. SettledExactlyOnce'
  BY <1>1, StepSettled DEF OrderInv
<1> SUFFICES ASSUME NEW o \in Orders PROVE Kept(o)
  OBVIOUS
<1>3. \A st, cl, tot :
        LET debts == {t \in txns : t.order = o /\ t.kind = "debt"}
        IN  (IF st \in Settled THEN \E t \in debts : debts = {t} /\ t.amount = tot /\ t.to = cl
             ELSE debts = {})
              => (st \in Settled <=> Debts(txns, o) # {})
                  /\ (st \in Settled => \A t \in Debts(txns, o) : t.to = cl)
  BY DEF Debts
<1>4. /\ status[o] \in Settled <=> Debts(txns, o) # {}
      /\ status[o] \in Settled => \A t \in Debts(txns, o) : t.to = client[o]
  BY <1>1, <1>3 DEF SettledExactlyOnce
<1>5. /\ status'[o] \in Settled <=> Debts(txns, o) # {}
      /\ status'[o] \in Settled => \A t \in Debts(txns, o) : t.to = client'[o]
  BY <1>2, <1>3 DEF SettledExactlyOnce
<1>6. status[o] \in Settled => client'[o] = client[o]
  BY <1>4, <1>5
<1>7. status[o] \in Settled => items'[o] = items[o]
  BY <1>1, StepFinal DEF Terminal
<1> QED
  BY <1>4, <1>5, <1>6, <1>7 DEF Kept

\* Placing an order.
LEMMA PlaceOrderGoods ==
  ASSUME OrderInv, Next, NEW o \in Orders, PlaceOrder(o)
  PROVE  GoodsStep
<1>0. TypeOK /\ TypeOK' /\ OrderStep
  BY NextTypes, NextOrderStep DEF OrderInv
<1>1. PICK cl \in Clients, cart \in Carts, capitalize \in BOOLEAN :
        \/ cl # WalkIn /\ \E m \in Methods : create_order(o, cl, m, cart, capitalize)
        \/ "CONTRACT" \in Methods
             /\ \E c \in Contracts : create_contract_order(o, cl, c, cart, capitalize)
        \/ create_warehouse_sale(o, cl, cart, capitalize)
        \/ \E m \in Methods, initial \in InitialBalances :
             onboard_client_with_balance(o, cl, m, cart, initial)
  BY DEF PlaceOrder
<1>2. cart \in Lines /\ cl \in Inventories /\ stock \in Balances
  BY <1>0, CartsType, OrdersAssumption DEF TypeOK, Balances
<1> DEFINE extra == ReturnableItems(Shortage(cl, cart))
<1>3. Containers(extra) /\ Receives(Capitalized(cl, cart), cl, extra)
  <2>1. Shortage(cl, cart) \in Lines
    BY <1>2, ShortageType
  <2>2. Containers(extra) /\ extra \in Lines
    BY <2>1, ReturnablesAreContainers DEF Containers
  <2> QED
    BY <1>0, <2>2, VendorMove DEF Capitalized
<1> HIDE DEF extra
<1>4. ASSUME txns' = txns, stock' = Capitalized(cl, cart) PROVE GoodsStep
  <2>1. Receives(stock', cl, extra)
    BY <1>3, <1>4
  <2> QED
    BY <1>0, <1>3, <1>4, <2>1, SameRowsKept, KeptGoods
<1>5. ASSUME NEW m \in Methods, create_order(o, cl, m, cart, capitalize) PROVE GoodsStep
  BY <1>4, <1>5 DEF create_order
<1>6. ASSUME NEW c \in Contracts, create_contract_order(o, cl, c, cart, capitalize) PROVE GoodsStep
  BY <1>4, <1>6 DEF create_contract_order
<1>7. ASSUME NEW m \in Methods, NEW initial \in InitialBalances,
             onboard_client_with_balance(o, cl, m, cart, initial)
      PROVE  GoodsStep
  <2>1. Containers(initial)
    BY NoContainersMoved, OrdersAssumption
    DEF InitialBalances, Containers, IsContainer, NoLines, Lines
  <2>2. stock' = Move(stock, Vendor, cl, initial) /\ txns' = txns
    BY <1>7 DEF onboard_client_with_balance
  <2>3. Receives(stock', cl, initial)
    BY <1>0, <2>1, <2>2, VendorMove DEF Containers
  <2> QED
    BY <1>0, <2>1, <2>2, <2>3, SameRowsKept, KeptGoods
<1>8. ASSUME create_warehouse_sale(o, cl, cart, capitalize) PROVE GoodsStep
  <2> DEFINE bal == IF cl = WalkIn THEN stock ELSE Capitalized(cl, cart)
             more == IF cl = WalkIn THEN NoLines ELSE extra
  <2>1. /\ stock' = PickupStock(bal, cl, cart)
        /\ InsertOrder(o, cl, "CASH", None, cart, CatalogPrice, "PICKUP_COMPLETED")
    BY <1>8, Zenon DEF create_warehouse_sale
  <2>2. Containers(more) /\ more \in Lines
    BY <1>3, NoContainersMoved DEF Containers
  <2>3. Receives(bal, cl, more) /\ bal \in Balances
    <3>1. Receives(stock, cl, NoLines)
      BY <1>0, OrdersAssumption DEF Receives, NoLines, TypeOK
    <3> QED
      BY <1>2, <1>3, <3>1, CapitalizedType
  <2> HIDE DEF bal, more
  <2>4. Receives(stock', cl, Plus(cart, more))
    BY <1>0, <1>2, <2>1, <2>2, <2>3, PickupBrings
  <2>5. /\ status[o] \notin Settled /\ status'[o] \in Settled /\ client'[o] = cl /\ items'[o] = cart
        /\ \A x \in Orders : x # o => Kept(x)
    BY <1>0, <2>1 DEF InsertOrder, TypeOK, Settled, Kept
  <2> QED
    BY <1>0, <1>2, <2>2, <2>4, <2>5, SettledGoods
<1> QED
  BY <1>1, <1>5, <1>6, <1>7, <1>8

\* A delivery.
LEMMA DeliverGoods ==
  ASSUME OrderInv, Next, NEW o \in Orders, NEW actual \in Carts, NEW corrected \in BOOLEAN,
         deliver_order(o, actual, corrected)
  PROVE  GoodsStep
<1>0. TypeOK /\ TypeOK' /\ OrdersWellFormed
  BY NextTypes DEF OrderInv
<1>1. actual \in Lines
  BY CartsType
<1>2. client[o] \in Clients /\ courier[o] \in Couriers
  BY <1>0 DEF deliver_order, OrdersWellFormed, TypeOK
<1>3. status[o] \notin Settled
  <2>1. status[o] \in Statuses /\ status[o] # "DELIVERED" /\ TransitionAllowed(status[o], "DELIVERED")
    BY <1>0 DEF deliver_order, OrdersWellFormed, Exists, TypeOK
  <2> QED
    BY <2>1 DEF TransitionAllowed, AllowedStatuses, Transitions, Statuses, Settled
<1>4. Receives(stock', client[o], Plus(actual, NoLines))
  <2>1. Receives(stock', client[o], actual)
    BY <1>0, <1>1, <1>2, DeliveryBrings DEF deliver_order
  <2>2. Plus(actual, NoLines) = actual
    BY <1>1 DEF Plus, NoLines, Lines
  <2> QED
    BY <2>1, <2>2
<1>5. /\ status'[o] \in Settled /\ client'[o] = client[o] /\ items'[o] = actual
      /\ \A x \in Orders : x # o => Kept(x)
  BY <1>0 DEF deliver_order, TypeOK, Settled, Kept
<1> QED
  BY <1>0, <1>1, <1>2, <1>3, <1>4, <1>5, NoContainersMoved, SettledGoods

\* Stock that does not move.
LEMMA IdleGoods ==
  ASSUME TypeOK, stock' = stock, \A o \in Orders : Kept(o)
  PROVE  GoodsStep
<1>1. WalkIn \in Clients /\ Receives(stock', WalkIn, NoLines)
  BY OrdersAssumption DEF Receives, NoLines, TypeOK
<1> QED
  BY <1>1, NoContainersMoved, KeptGoods

\* Every step of the system.
LEMMA NextGoods ==
  ASSUME OrderInv, Next
  PROVE  GoodsStep
<1>0. TypeOK
  BY DEF OrderInv
<1>1. ASSUME UNCHANGED <<stock, txns>> PROVE GoodsStep
  BY <1>0, <1>1, SameRowsKept, IdleGoods
<1>2. ASSUME NEW o \in Orders, PlaceOrder(o) PROVE GoodsStep
  BY <1>2, PlaceOrderGoods
<1>3. ASSUME NEW o \in Orders, ChangeOrder(o) PROVE GoodsStep
  <2>1. ASSUME NEW actual \in Carts, NEW corrected \in BOOLEAN, deliver_order(o, actual, corrected)
        PROVE  GoodsStep
    BY <2>1, DeliverGoods
  <2>2. ASSUME ~\E actual \in Carts, corrected \in BOOLEAN : deliver_order(o, actual, corrected)
        PROVE  UNCHANGED <<stock, txns>>
    BY <1>3, <2>2 DEF ChangeOrder, LockOrder, Rollback, add_product_to_order,
       remove_product_from_order, assign_courier, update_status, cancel_by_staff,
       cancel_order_check, cancel_order, cancel_order_refused, CancelOrder, Age, ledgerVars
  <2> QED
    BY <1>1, <2>1, <2>2
<1>4. ASSUME NEW c \in Contracts, ChangeContract(c) PROVE GoodsStep
  BY <1>1, <1>4 DEF ChangeContract, create_contract, activate_contract, suspend_contract,
     reinstate_contract, terminate_contract, update_contract, EndDatePasses, ledgerVars
<1>5. CASE ChangePrices
  BY <1>1, <1>5 DEF ChangePrices, price_item_check, set_price_item, remove_price_item,
     price_item_aborted, ledgerVars
<1>6. CASE Jobs
  BY <1>1, <1>6 DEF Jobs, expire_stale_orders, run_expire_job_scan, run_expire_job,
     run_expire_job_aborted, ledgerVars
<1>7. ASSUME NEW t \in txns, verify_transaction(t) \/ reject_transaction(t) PROVE GoodsStep
  <2>1. stock' = stock /\ \A o \in Orders : Kept(o)
    BY <1>7 DEF verify_transaction, reject_transaction, DecideTxn, orderVars, Kept
  <2> QED
    BY <1>0, <2>1, IdleGoods
<1> QED
  BY <1>2, <1>3, <1>4, <1>5, <1>6, <1>7 DEF Next

\* The two ways to add up what the settled orders brought.
LEMMA BroughtIsGoods ==
  ASSUME NEW cl, NEW p
  PROVE  Brought(cl, p) = SumOver([o \in Orders |-> items[o][p]],
                                  {o \in Orders : status[o] \in Settled /\ client[o] = cl})
<1> DEFINE f == [o \in Orders |-> items[o][p]]
           g == [o \in Orders |-> Brings(o, cl, p)]
           T == {o \in Orders : status[o] \in Settled /\ client[o] = cl}
<1>1. /\ T \subseteq Orders /\ \A o \in T : g[o] = f[o]
      /\ \A o \in Orders \ T : g[o] = 0
  BY DEF Brings
<1>2. Brought(cl, p) = SumOver(g, Orders)
  BY DEF Brought
<1> HIDE DEF f, g, T
<1>3. SumOver(g, Orders) = SumOver(f, T)
  BY <1>1, SumPart
<1> QED
  BY <1>2, <1>3 DEF f, T

\* Goods are where the settled orders brought them, containers at least.
GoodsHold ==
  \A cl \in Clients, p \in Products :
    IF IsContainer(p) THEN stock[cl][p] >= Brought(cl, p) ELSE stock[cl][p] = Brought(cl, p)

LEMMA StepGoodsHold ==
  ASSUME TypeOK, GoodsHold, GoodsStep
  PROVE  GoodsHold'
<1> SUFFICES ASSUME NEW cl \in Clients, NEW p \in Products
             PROVE  IF IsContainer(p) THEN stock'[cl][p] >= Brought(cl, p)'
                    ELSE stock'[cl][p] = Brought(cl, p)'
  BY DEF GoodsHold, IsContainer
<1>1. PICK n \in Nat, extra \in Nat : Carried(cl, p, n, extra)
  BY DEF GoodsStep
<1>2. Brought(cl, p) \in Nat /\ stock[cl][p] \in Int
  BY BroughtType, AccountFacts DEF TypeOK
<1>3. IF IsContainer(p) THEN stock[cl][p] >= Brought(cl, p) ELSE stock[cl][p] = Brought(cl, p)
  BY DEF GoodsHold
<1> QED
  BY <1>1, <1>2, <1>3 DEF Carried

\* A client's inventory holds what the settled orders brought: every container
\* of an exchange was taken back, whatever was delivered, corrected, sold at
\* the warehouse or cancelled; containers exceed it by those capitalised.
THEOREM GoodsAlwaysMatch == Spec => []GoodsMatchOrders
<1>1. Init => GoodsHold
  <2> SUFFICES ASSUME Init, NEW cl \in Clients, NEW p \in Products
               PROVE  stock[cl][p] = 0 /\ Brought(cl, p) = 0
    BY DEF GoodsHold
  <2>1. stock[cl][p] = 0
    BY OrdersAssumption DEF Init, NoLines
  <2>2. {o \in Orders : status[o] \in Settled /\ client[o] = cl} = {}
    BY DEF Init, Settled
  <2>3. Brought(cl, p) = SumOver([o \in Orders |-> items[o][p]], {})
    BY <2>2, BroughtIsGoods
  <2> QED
    BY <2>1, <2>3, SumEmpty
<1>2. OrderInv /\ GoodsHold /\ [Next]_vars => GoodsHold'
  <2> SUFFICES ASSUME OrderInv, GoodsHold, [Next]_vars PROVE GoodsHold'
    OBVIOUS
  <2>1. TypeOK
    BY DEF OrderInv
  <2>2. CASE Next
    BY <2>1, <2>2, NextGoods, StepGoodsHold
  <2>3. CASE UNCHANGED vars
    <3>1. stock' = stock /\ \A o \in Orders : Kept(o)
      BY <2>3 DEF vars, orderVars, ledgerVars, Kept
    <3> QED
      BY <2>1, <3>1, IdleGoods, StepGoodsHold
  <2> QED
    BY <2>2, <2>3
<1>3. GoodsHold => GoodsMatchOrders
  BY BroughtIsGoods DEF GoodsHold, GoodsMatchOrders, IsContainer
<1> QED
  BY <1>1, <1>2, <1>3, OrderInvariance, PTL DEF Spec

-----------------------------------------------------------------------------
(* How the orders were paid.  The dashboards' order reports take the payment *)
(* method from the order, the ledger has it in the payment row: PaidInv ties *)
(* the two together.                                                         *)

\* Who takes the cash of an order: its courier, or the cash desk.
CashTo(o) == IF status[o] = "DELIVERED" THEN courier[o] ELSE Cash

\* A payment row is cash that was handed over, or a transfer to the card account.
RowPays(t) ==
  \/ pay[t.order] = "CASH" /\ t.status = "COMPLETED" /\ t.to = CashTo(t.order)
  \/ pay[t.order] = "CARD" /\ t.to = Card

\* Every order has a method, every payment row follows it, and every settled
\* order that is not on a contract has its payment row.
PaidInv ==
  /\ \A o \in Orders : Exists(o) => pay[o] \in {"CASH", "CARD", "CONTRACT"}
  /\ \A t \in txns : t.kind = "payment" => RowPays(t)
  /\ \A o \in Orders : status[o] \in Settled /\ pay[o] # "CONTRACT" =>
       \E t \in txns : t.order = o /\ t.kind = "payment"

\* A step changes the courier of an order only while it is assigned.
CouriersStay ==
  \A o \in Orders : status[o] \in Terminal \/ status'[o] = "DELIVERED" => courier'[o] = courier[o]

\* Only assign_courier writes couriers, and it takes NEW and ASSIGNED orders.
LEMMA NextCouriersStay ==
  ASSUME TypeOK, Next
  PROVE  CouriersStay
<1>0. ASSUME courier' = courier PROVE CouriersStay
  BY <1>0 DEF CouriersStay
<1>1. ASSUME NEW o \in Orders, NEW k \in Couriers, assign_courier(o, k) PROVE CouriersStay
  <2>1. /\ status[o] \in {"NEW", "ASSIGNED"} /\ status' = [status EXCEPT ![o] = "ASSIGNED"]
        /\ courier' = [courier EXCEPT ![o] = k]
    BY <1>1, Zenon DEF assign_courier
  <2> QED
    BY <2>1 DEF CouriersStay, Terminal, Settled, TypeOK
<1>2. ASSUME NEW o \in Orders, PlaceOrder(o) PROVE CouriersStay
  BY <1>0, <1>2 DEF PlaceOrder, create_order, create_contract_order, create_warehouse_sale,
     onboard_client_with_balance, InsertOrder
<1>3. ASSUME NEW o \in Orders, ChangeOrder(o) PROVE CouriersStay
  <2>1. CASE \E k \in Couriers : assign_courier(o, k)
    BY <1>1, <2>1
  <2>2. CASE ~\E k \in Couriers : assign_courier(o, k)
    BY <1>0, <1>3, <2>2 DEF ChangeOrder, LockOrder, Rollback, add_product_to_order,
       remove_product_from_order, update_status, deliver_order, cancel_by_staff,
       cancel_order_check, cancel_order, cancel_order_refused, CancelOrder, Age, orderVars
  <2> QED
    BY <2>1, <2>2
<1>4. ASSUME NEW c \in Contracts, ChangeContract(c) PROVE CouriersStay
  BY <1>0, <1>4 DEF ChangeContract, create_contract, activate_contract, suspend_contract,
     reinstate_contract, terminate_contract, update_contract, EndDatePasses, CancelInflight,
     CancelAll, orderVars
<1>5. CASE ChangePrices
  BY <1>0, <1>5 DEF ChangePrices, price_item_check, set_price_item, remove_price_item,
     price_item_aborted, orderVars
<1>6. CASE Jobs
  BY <1>0, <1>6 DEF Jobs, expire_stale_orders, run_expire_job_scan, run_expire_job,
     run_expire_job_aborted, CancelInflight, CancelAll, orderVars
<1>7. ASSUME NEW t \in txns, verify_transaction(t) \/ reject_transaction(t) PROVE CouriersStay
  BY <1>0, <1>7 DEF verify_transaction, reject_transaction, DecideTxn, orderVars
<1> QED
  BY <1>2, <1>3, <1>4, <1>5, <1>6, <1>7 DEF Next

\* The payment method of an order never changes.
LEMMA StepPay ==
  ASSUME TypeOK, OrderStep, NEW x \in Orders, Exists(x)
  PROVE  pay'[x] = pay[x]
<1>1. CASE SomeInserted
  BY <1>1 DEF SomeInserted, Inserted, Exists, TypeOK
<1>2. CASE ~SomeInserted
  BY <1>2 DEF OrderStep, SomeEdited, Edited, SomeMoved, Moved, SomeDelivered, Delivered,
              SomeCancelled, CancelledSet, Untouched
<1> QED
  BY <1>1, <1>2

\* The payment row of a settlement, by the method.
LEMMA SettlementPays ==
  ASSUME NEW o, NEW cl, NEW m, NEW to, NEW amount
  PROVE  /\ \A t \in SettlementRows(o, cl, m, to, amount) : t.kind = "payment" =>
              /\ t.order = o
              /\ \/ m = "CASH" /\ t.status = "COMPLETED" /\ t.to = to
                 \/ m = "CARD" /\ t.to = Card
         /\ m \in {"CASH", "CARD"} =>
              \E t \in SettlementRows(o, cl, m, to, amount) : t.order = o /\ t.kind = "payment"
<1> DEFINE cash == Txn(o, "payment", cl, to, amount, "COMPLETED")
           card == Txn(o, "payment", cl, Card, amount, "PENDING")
           R == SettlementRows(o, cl, m, to, amount)
<1>1. \A t \in R : t.kind = "payment" =>
              /\ t.order = o
              /\ \/ m = "CASH" /\ t.status = "COMPLETED" /\ t.to = to
                 \/ m = "CARD" /\ t.to = Card
  BY DEF SettlementRows, Txn
<1>2. /\ cash.order = o /\ cash.kind = "payment" /\ card.order = o /\ card.kind = "payment"
  BY DEF Txn
<1>3. (m = "CASH" => cash \in R) /\ (m = "CARD" => card \in R)
  BY DEF SettlementRows
<1> HIDE DEF cash, card, R
<1>4. m \in {"CASH", "CARD"} => \E t \in R : t.order = o /\ t.kind = "payment"
  BY <1>2, <1>3
<1> QED
  BY <1>1, <1>4 DEF R

\* The first part: a method for every order.
LEMMA StepMethods ==
  ASSUME TypeOK, PaidInv, OrderStep
  PROVE  \A o \in Orders : Exists(o)' => pay'[o] \in {"CASH", "CARD", "CONTRACT"}
<1> SUFFICES ASSUME NEW o \in Orders, Exists(o)'
             PROVE  pay'[o] \in {"CASH", "CARD", "CONTRACT"}
  OBVIOUS
<1>1. CASE Exists(o)
  BY <1>1, StepPay DEF PaidInv
<1>2. CASE ~Exists(o)
  <2>1. SomeInserted
    BY <1>2 DEF OrderStep, SomeEdited, Edited, SomeMoved, Moved, SomeDelivered, Delivered,
                SomeCancelled, CancelledSet, Untouched, Exists, TypeOK
  <2> QED
    BY <1>2, <2>1 DEF SomeInserted, Inserted, Exists, TypeOK
<1> QED
  BY <1>1, <1>2

\* Rows of settled orders keep following their method.
LEMMA OldRowsPay ==
  ASSUME TypeOK, PaymentInv, PaidInv, OrderStep, CouriersStay, NEW t \in txns,
         NEW u, u.order = t.order, u.to = t.to, u.kind = t.kind,
         t.status # "PENDING" => u.status = t.status, u.kind = "payment"
  PROVE  RowPays(u)'
<1>1. t.order \in Orders /\ status[t.order] \in Settled
  BY DEF TypeOK, TxnRows, PaymentInv
<1>2. status[t.order] \in Terminal /\ Exists(t.order)
  BY <1>1 DEF Terminal, Exists, Settled
<1>3. status'[t.order] = status[t.order] /\ pay'[t.order] = pay[t.order]
      /\ courier'[t.order] = courier[t.order]
  BY <1>1, <1>2, StepFinal, StepPay DEF CouriersStay
<1>4. RowPays(t)
  BY DEF PaidInv
<1> QED
  BY <1>3, <1>4 DEF RowPays, CashTo

\* Rows that replace or join the old ones.
LEMMA StepPaid ==
  ASSUME TypeOK, TypeOK', PaymentInv, PaidInv, OrderStep, CouriersStay
  PROVE  PaidInv'
<1> DEFINE Rows == \A t \in txns' : t.kind = "payment" => RowPays(t)'
           Paid == \A o \in Orders : status'[o] \in Settled /\ pay'[o] # "CONTRACT" =>
                     \E t \in txns' : t.order = o /\ t.kind = "payment"
<1>0. \A t \in txns : t.kind = "payment" => RowPays(t)'
  BY OldRowsPay
<1>1. \A o \in Orders : status[o] \in Settled /\ pay'[o] # "CONTRACT" =>
        \E t \in txns : t.order = o /\ t.kind = "payment"
  <2>1. \A o \in Orders : status[o] \in Settled => Exists(o)
    BY DEF Settled, Exists
  <2> QED
    BY <2>1, StepPay DEF PaidInv
<1>2. ASSUME NEW o \in Orders, NEW cl, NEW m \in {"CASH", "CARD", "CONTRACT"}, NEW to, NEW amount,
             txns' = txns \union SettlementRows(o, cl, m, to, amount),
             pay'[o] = m, CashTo(o)' = to,
             \A x \in Orders : x # o => (status'[x] \in Settled <=> status[x] \in Settled)
      PROVE  Rows /\ Paid
  <2> DEFINE R == SettlementRows(o, cl, m, to, amount)
  <2>1. /\ \A t \in R : t.kind = "payment" =>
              /\ t.order = o
              /\ \/ m = "CASH" /\ t.status = "COMPLETED" /\ t.to = to
                 \/ m = "CARD" /\ t.to = Card
        /\ m \in {"CASH", "CARD"} => \E t \in R : t.order = o /\ t.kind = "payment"
    BY SettlementPays
  <2>2. txns' = txns \union R
    BY <1>2
  <2> HIDE DEF R
  <2>3. \A t \in R : t.kind = "payment" => RowPays(t)'
    BY <1>2, <2>1 DEF RowPays
  <2>4. Rows
    BY <1>0, <2>2, <2>3
  <2>5. Paid
    <3> SUFFICES ASSUME NEW x \in Orders, status'[x] \in Settled, pay'[x] # "CONTRACT"
                 PROVE  \E t \in txns' : t.order = x /\ t.kind = "payment"
      OBVIOUS
    <3>1. CASE x = o
      BY <1>2, <2>1, <2>2, <3>1
    <3>2. CASE x # o
      BY <1>1, <1>2, <2>2, <3>2
    <3> QED
      BY <3>1, <3>2
  <2> QED
    BY <2>4, <2>5
<1>3. ASSUME txns' = txns, \A x \in Orders : status'[x] \in Settled <=> status[x] \in Settled
      PROVE  Rows /\ Paid
  BY <1>0, <1>1, <1>3
<1> SUFFICES Rows /\ Paid
  BY StepMethods DEF PaidInv
<1> HIDE DEF Rows, Paid
<1>4. CASE SomeInserted
  <2>1. PICK o \in Orders, cl \in Clients, m \in {"CASH", "CARD", "CONTRACT"},
            c \in Contracts \union {None}, cart \in Lines, amount \in Nat,
            s \in {"NEW", "PICKUP_COMPLETED"} : Inserted(o, cl, m, c, cart, amount, s)
    BY <1>4, Zenon DEF SomeInserted
  <2>2. /\ pay'[o] = m /\ status'[o] = s /\ status[o] = "ABSENT"
        /\ \A x \in Orders : x # o => status'[x] = status[x]
    BY <2>1 DEF Inserted, TypeOK
  <2>3. CASE s = "NEW"
    <3>1. txns' = txns
      BY <2>1, <2>3 DEF Inserted
    <3>2. \A x \in Orders : status'[x] \in Settled <=> status[x] \in Settled
      BY <2>2, <2>3 DEF Settled
    <3> QED
      BY <1>3, <3>1, <3>2
  <2>4. CASE s = "PICKUP_COMPLETED"
    <3>1. txns' = txns \union SettlementRows(o, cl, "CASH", Cash, amount)
      BY <2>1, <2>4 DEF Inserted
    <3>2. CashTo(o)' = Cash
      BY <2>2, <2>4 DEF CashTo
    <3>3. m = "CASH"
      BY <2>1, <2>4 DEF Inserted
    <3> QED
      BY <1>2, <2>2, <3>1, <3>2, <3>3
  <2> QED
    BY <2>3, <2>4
<1>5. CASE SomeDelivered
  <2>1. PICK o \in Orders, lines \in Lines, amount \in Nat : Delivered(o, lines, amount)
    BY <1>5, Zenon DEF SomeDelivered
  <2>2. /\ pay'[o] = pay[o] /\ status'[o] = "DELIVERED" /\ Exists(o)
        /\ \A x \in Orders : x # o => status'[x] = status[x]
        /\ txns' = txns \union SettlementRows(o, client[o], pay[o], courier[o], amount)
    BY <2>1 DEF Delivered, TypeOK
  <2>3. pay[o] \in {"CASH", "CARD", "CONTRACT"}
    BY <2>2 DEF PaidInv
  <2>4. CashTo(o)' = courier[o]
    BY <2>2 DEF CashTo, CouriersStay
  <2> QED
    BY <1>2, <2>2, <2>3, <2>4
<1>6. CASE Untouched
  <2>1. ASSUME NEW t \in txns, NEW s \in {"COMPLETED", "REJECTED"}, Decided(t, s)
        PROVE  Rows /\ Paid
    <3> DEFINE u == [t EXCEPT !.status = s]
    <3>1. u.order = t.order /\ u.kind = t.kind /\ u.to = t.to
      BY DEF TypeOK, TxnRows
    <3>2. txns' = (txns \ {t}) \union {u} /\ t.status = "PENDING"
      BY <2>1 DEF Decided
    <3> HIDE DEF u
    <3>3. u.kind = "payment" => RowPays(u)'
      BY <3>1, <3>2, OldRowsPay
    <3>4. Rows
      BY <1>0, <3>2, <3>3 DEF Rows
    <3>5. Paid
      BY <1>1, <1>6, <3>1, <3>2 DEF Untouched, Paid
    <3> QED
      BY <3>4, <3>5
  <2>2. ASSUME txns' = txns PROVE Rows /\ Paid
    BY <1>3, <1>6, <2>2 DEF Untouched
  <2> QED
    BY <1>6, <2>1, <2>2 DEF Untouched
<1>7. CASE SomeEdited
  BY <1>3, <1>7 DEF SomeEdited, Edited
<1>8. CASE SomeMoved
  <2>1. PICK o \in Orders, new \in Statuses : Moved(o, new)
    BY <1>8 DEF SomeMoved
  <2>2. /\ \/ new = status[o]
           \/ status[o] \notin Terminal /\ new \in {"ASSIGNED", "IN_TRANSIT", "ARRIVED"}
        /\ status' = [status EXCEPT ![o] = new] /\ txns' = txns
    BY <2>1, Zenon DEF Moved
  <2>3. new \in Settled <=> status[o] \in Settled
    <3>1. \A x \in {"ASSIGNED", "IN_TRANSIT", "ARRIVED"} : x \notin Settled
      BY DEF Settled
    <3>2. Settled \subseteq Terminal
      BY DEF Terminal
    <3> QED
      BY <2>2, <3>1, <3>2
  <2>4. \A x \in Orders : status'[x] \in Settled <=> status[x] \in Settled
    BY <2>2, <2>3 DEF TypeOK
  <2> QED
    BY <1>3, <2>2, <2>4
<1>9. CASE SomeCancelled
  <2>1. PICK S \in SUBSET Orders : CancelledSet(S)
    BY <1>9 DEF SomeCancelled
  <2>2. \A x \in Orders : status'[x] \in Settled <=> status[x] \in Settled
    BY <2>1 DEF CancelledSet, Settled
  <2> QED
    BY <1>3, <2>1, <2>2 DEF CancelledSet
<1> QED
  BY <1>4, <1>5, <1>6, <1>7, <1>8, <1>9 DEF OrderStep

\* Orders and payment rows stay in line.
LEMMA PaidInvariance == Spec => []PaidInv
<1>1. Init => PaidInv
  BY DEF Init, PaidInv, Exists, Settled
<1>2. OrderInv /\ PaymentInv /\ PaidInv /\ [Next]_vars => PaidInv'
  <2> SUFFICES ASSUME OrderInv, PaymentInv, PaidInv, [Next]_vars PROVE PaidInv'
    OBVIOUS
  <2>0. TypeOK
    BY DEF OrderInv
  <2>1. CASE Next
    <3>1. TypeOK' /\ OrderStep /\ CouriersStay
      BY <2>0, <2>1, NextTypes, NextOrderStep, NextCouriersStay DEF OrderInv
    <3> QED
      BY <2>0, <3>1, StepPaid
  <2>2. CASE UNCHANGED vars
    BY <2>2 DEF vars, orderVars, ledgerVars, PaidInv, RowPays, CashTo, Exists
  <2> QED
    BY <2>1, <2>2
<1> QED
  BY <1>1, <1>2, OrderInvariance, PaymentInvariance, PTL DEF Spec

-----------------------------------------------------------------------------
(* The vehicles.  A step hands over n units of a product from a vehicle with *)
(* the order that it delivers; nothing else moves the stock of a vehicle.    *)

\* What the courier k handed over with order o: the containers came back.
HandsOver(o, k, p) == IF status[o] = "DELIVERED" /\ courier[o] = k THEN items[o][p] ELSE 0
HandedOver(k, p) == SumOver([o \in Orders |-> HandsOver(o, k, p)], Orders)

VehicleLeft(k, p, n) ==
  /\ HandedOver(k, p)' = HandedOver(k, p) + n
  /\ stock'[k][p] = stock[k][p] - n
  /\ n = 0 \/ n <= stock[k][p]

VehicleStep == \A k \in Couriers, p \in Products : \E n \in Nat : VehicleLeft(k, p, n)

\* What is left in a vehicle is what it was loaded with and not handed over.
VehiclesHold ==
  \A k \in Couriers, p \in Products :
    stock[k][p] >= 0 /\ stock[k][p] = InitStock[k][p] - HandedOver(k, p)

\* The order is delivered afterwards if it was before, by the same courier.
Handed(o) ==
  /\ status'[o] = "DELIVERED" <=> status[o] = "DELIVERED"
  /\ status[o] = "DELIVERED" => items'[o] = items[o] /\ courier'[o] = courier[o]

\* The vehicles keep what they have.
Parked(bal) == \A k \in Couriers, p \in Products : bal[k][p] = stock[k][p]

\* What a courier handed over is a natural number.
LEMMA HandedOverType ==
  ASSUME TypeOK, NEW k, NEW p \in Products
  PROVE  /\ IsSummable([o \in Orders |-> HandsOver(o, k, p)], Orders)
         /\ HandedOver(k, p) \in Nat
<1>1. \A o \in Orders : HandsOver(o, k, p) \in Nat
  BY DEF HandsOver, TypeOK, Lines
<1>2. IsSummable([o \in Orders |-> HandsOver(o, k, p)], Orders)
  BY <1>1, OrdersAssumption DEF IsSummable
<1> QED
  BY <1>2, SumNat DEF HandedOver

\* An order that stays handed over counts as before.
LEMMA HandedSame ==
  ASSUME NEW o \in Orders, Handed(o), NEW k, NEW p
  PROVE  HandsOver(o, k, p)' = HandsOver(o, k, p)
BY DEF Handed, HandsOver

\* No order is delivered and no vehicle is touched.
LEMMA ParkedVehicles ==
  ASSUME TypeOK, \A o \in Orders : Handed(o), Parked(stock')
  PROVE  VehicleStep
<1> SUFFICES ASSUME NEW k \in Couriers, NEW p \in Products
             PROVE  VehicleLeft(k, p, 0)
  BY DEF VehicleStep
<1>1. HandedOver(k, p)' = HandedOver(k, p)
  <2>1. [o \in Orders |-> HandsOver(o, k, p)'] = [o \in Orders |-> HandsOver(o, k, p)]
    BY HandedSame
  <2> QED
    BY <2>1 DEF HandedOver
<1>2. HandedOver(k, p) \in Nat /\ stock[k][p] \in Int
  BY HandedOverType, AccountFacts DEF TypeOK
<1>3. stock'[k][p] = stock[k][p]
  BY DEF Parked
<1> QED
  BY <1>1, <1>2, <1>3 DEF VehicleLeft

\* What the vendor and the warehouse move does not touch the vehicles.
LEMMA MoveElsewhere ==
  ASSUME NEW bal \in Balances, NEW i, i \notin Couriers, NEW j, j \notin Couriers,
         NEW lines, Parked(bal)
  PROVE  Parked(Move(bal, i, j, lines))
<1> SUFFICES ASSUME NEW k \in Couriers, NEW p \in Products
             PROVE  Move(bal, i, j, lines)[k][p] = stock[k][p]
  BY DEF Parked
<1>1. k \in Inventories /\ k # i /\ k # j
  BY OrdersAssumption
<1>2. bal[k][p] = stock[k][p] /\ bal[k][p] \in Int
  BY <1>1 DEF Parked, Balances
<1> QED
  BY <1>1, <1>2 DEF Move

\* Nor does a sale over the counter.
LEMMA PickupElsewhere ==
  ASSUME NEW bal \in Balances, Parked(bal), NEW cl \in Clients, NEW lines \in Lines
  PROVE  Parked(PickupStock(bal, cl, lines))
<1>1. {cl, Vendor, Warehouse} \intersect Couriers = {}
  BY OrdersAssumption
<1>2. ReturnableItems(lines) \in Lines
  BY ReturnableItemsType
<1>3. PickupReturn(cl, lines) \in Lines
  BY <1>2 DEF PickupReturn, Lines
<1>4. PickupIssued(cl, lines) \in Lines
  BY <1>2, <1>3, PlusType DEF PickupIssued
<1>5. PickupSupplied(bal, cl, lines) \in Balances /\ Parked(PickupSupplied(bal, cl, lines))
  BY <1>1, <1>2, MoveType, MoveElsewhere DEF PickupSupplied
<1>6. PickupSold(bal, cl, lines) \in Balances /\ Parked(PickupSold(bal, cl, lines))
  BY <1>1, <1>4, <1>5, MoveType, MoveElsewhere DEF PickupSold
<1> QED
  BY <1>1, <1>6, MoveElsewhere DEF PickupStock

\* A delivery takes the goods out of the courier's vehicle: the containers of
\* the exchange leave it and come back.
LEMMA DeliveryTakes ==
  ASSUME TypeOK, NEW k \in Couriers, NEW cl \in Clients, NEW lines \in Lines,
         NEW x \in Couriers, NEW p \in Products
  PROVE  DeliveryStock(k, cl, lines)[x][p] = stock[x][p] - (IF x = k THEN lines[p] ELSE 0)
<1> DEFINE issued == DeliveryLines(lines)
           back   == ReturnableItems(lines)
           out    == Move(stock, k, cl, issued)
<1>1. back \in Lines /\ issued \in Lines
  BY ReturnableItemsType, PlusType DEF DeliveryLines
<1>2. x \in Inventories /\ x # cl
  BY OrdersAssumption
<1>3. stock[x][p] \in Int /\ issued[p] \in Nat /\ back[p] \in Nat /\ lines[p] \in Nat
  BY <1>1, <1>2 DEF TypeOK, Lines
<1>4. issued[p] = lines[p] + back[p]
  BY DEF DeliveryLines, Plus
<1> HIDE DEF issued, back
<1>5. out[x][p] = stock[x][p] - (IF x = k THEN issued[p] ELSE 0)
  BY <1>2, <1>3 DEF Move
<1> HIDE DEF out
<1>6. Move(out, cl, k, back)[x][p] = out[x][p] + (IF x = k THEN back[p] ELSE 0)
  BY <1>2, <1>3, <1>5 DEF Move
<1>7. DeliveryStock(k, cl, lines) = Move(out, cl, k, back)
  BY DEF DeliveryStock, out, issued, back
<1> QED
  BY <1>3, <1>4, <1>5, <1>6, <1>7

\* A step that settles no order delivers none.
LEMMA SameRowsHanded ==
  ASSUME OrderInv, Next, txns' = txns
  PROVE  \A o \in Orders : Handed(o)
<1>1. TypeOK /\ OrderStep /\ CouriersStay
  BY NextOrderStep, NextCouriersStay DEF OrderInv
<1>2. \A o \in Orders : Kept(o)
  BY SameRowsKept
<1> SUFFICES ASSUME NEW o \in Orders PROVE Handed(o)
  OBVIOUS
<1>3. status[o] \in Settled => status'[o] = status[o] /\ items'[o] = items[o]
  BY <1>1, StepFinal DEF Terminal
<1>4. status[o] \in Settled => courier'[o] = courier[o]
  BY <1>1 DEF CouriersStay, Terminal
<1> QED
  BY <1>2, <1>3, <1>4 DEF Kept, Handed, Settled

\* Placing an order.
LEMMA PlaceOrderVehicles ==
  ASSUME OrderInv, Next, NEW o \in Orders, PlaceOrder(o)
  PROVE  VehicleStep
<1>0. TypeOK /\ stock \in Balances /\ Parked(stock) /\ Vendor \notin Couriers
  BY OrdersAssumption DEF OrderInv, TypeOK, Balances, Parked
<1>1. PICK cl \in Clients, cart \in Carts, capitalize \in BOOLEAN :
        \/ cl # WalkIn /\ \E m \in Methods : create_order(o, cl, m, cart, capitalize)
        \/ "CONTRACT" \in Methods
             /\ \E c \in Contracts : create_contract_order(o, cl, c, cart, capitalize)
        \/ create_warehouse_sale(o, cl, cart, capitalize)
        \/ \E m \in Methods, initial \in InitialBalances :
             onboard_client_with_balance(o, cl, m, cart, initial)
  BY DEF PlaceOrder
<1>2. cart \in Lines /\ cl \in Inventories /\ cl \notin Couriers
  BY CartsType, OrdersAssumption
<1>3. Capitalized(cl, cart) \in Balances /\ Parked(Capitalized(cl, cart))
  BY <1>0, <1>2, CapitalizedType, MoveElsewhere DEF Capitalized
<1>4. ASSUME txns' = txns, Parked(stock') PROVE VehicleStep
  BY <1>0, <1>4, SameRowsHanded, ParkedVehicles
<1>5. ASSUME NEW m \in Methods, create_order(o, cl, m, cart, capitalize) PROVE VehicleStep
  BY <1>3, <1>4, <1>5 DEF create_order
<1>6. ASSUME NEW c \in Contracts, create_contract_order(o, cl, c, cart, capitalize) PROVE VehicleStep
  BY <1>3, <1>4, <1>6 DEF create_contract_order
<1>7. ASSUME NEW m \in Methods, NEW initial \in InitialBalances,
             onboard_client_with_balance(o, cl, m, cart, initial)
      PROVE  VehicleStep
  <2>1. stock' = Move(stock, Vendor, cl, initial) /\ txns' = txns
    BY <1>7 DEF onboard_client_with_balance
  <2>2. Parked(stock')
    BY <1>0, <1>2, <2>1, MoveElsewhere
  <2> QED
    BY <1>4, <2>1, <2>2
<1>8. ASSUME create_warehouse_sale(o, cl, cart, capitalize) PROVE VehicleStep
  <2> DEFINE bal == IF cl = WalkIn THEN stock ELSE Capitalized(cl, cart)
  <2>1. /\ stock' = PickupStock(bal, cl, cart)
        /\ InsertOrder(o, cl, "CASH", None, cart, CatalogPrice, "PICKUP_COMPLETED")
    BY <1>8, Zenon DEF create_warehouse_sale
  <2>2. bal \in Balances /\ Parked(bal)
    BY <1>0, <1>3
  <2> HIDE DEF bal
  <2>3. Parked(stock')
    BY <1>2, <2>1, <2>2, PickupElsewhere
  <2>4. \A x \in Orders : Handed(x)
    BY <1>0, <2>1 DEF InsertOrder, TypeOK, Handed
  <2> QED
    BY <1>0, <2>3, <2>4, ParkedVehicles
<1> QED
  BY <1>1, <1>5, <1>6, <1>7, <1>8

\* A delivery.
LEMMA DeliverVehicles ==
  ASSUME OrderInv, Next, NEW o \in Orders, NEW actual \in Carts, NEW corrected \in BOOLEAN,
         deliver_order(o, actual, corrected)
  PROVE  VehicleStep
<1>0. TypeOK /\ TypeOK' /\ OrdersWellFormed
  BY NextTypes DEF OrderInv
<1>1. actual \in Lines
  BY CartsType
<1>2. client[o] \in Clients /\ courier[o] \in Couriers
  BY <1>0 DEF deliver_order, OrdersWellFormed, TypeOK
<1>3. /\ status[o] # "DELIVERED" /\ \A p \in Products : actual[p] <= stock[courier[o]][p]
      /\ stock' = DeliveryStock(courier[o], client[o], actual)
      /\ status' = [status EXCEPT ![o] = "DELIVERED"] /\ items' = [items EXCEPT ![o] = actual]
      /\ courier' = courier
  BY DEF deliver_order, DeliveryStockOK
<1>4. \A x \in Orders : x # o => Handed(x)
  BY <1>0, <1>3 DEF Handed, TypeOK
<1> SUFFICES ASSUME NEW k \in Couriers, NEW p \in Products
             PROVE  \E n \in Nat : VehicleLeft(k, p, n)
  BY DEF VehicleStep
<1> DEFINE n == IF k = courier[o] THEN actual[p] ELSE 0
           f == [y \in Orders |-> HandsOver(y, k, p)]
           g == [y \in Orders |-> HandsOver(y, k, p)']
<1>5. n \in Nat /\ actual[p] \in Nat
  BY <1>1 DEF Lines
<1>6. IsSummable(f, Orders) /\ HandedOver(k, p) \in Nat /\ stock[k][p] \in Int
  BY <1>0, HandedOverType, AccountFacts DEF TypeOK
<1>7. f[o] = 0 /\ g[o] = n
  BY <1>0, <1>3 DEF HandsOver, TypeOK
<1>8. \A y \in Orders : y # o => g[y] = f[y]
  BY <1>4, HandedSame
<1>9. HandedOver(k, p) = SumOver(f, Orders) /\ HandedOver(k, p)' = SumOver(g, Orders)
  BY DEF HandedOver
<1>10. stock'[k][p] = stock[k][p] - n
  BY <1>0, <1>1, <1>2, <1>3, DeliveryTakes
<1>11. n = 0 \/ n <= stock[k][p]
  BY <1>3
<1> HIDE DEF n, f, g
<1>12. SumMoves(f, g, Orders, o)
  BY <1>5, <1>6, <1>7, <1>8, SumChange, Zenon
<1>13. VehicleLeft(k, p, n)
  BY <1>5, <1>6, <1>7, <1>9, <1>10, <1>11, <1>12 DEF VehicleLeft, SumMoves
<1> QED
  BY <1>5, <1>13

\* Every step of the system.
LEMMA NextVehicles ==
  ASSUME OrderInv, Next
  PROVE  VehicleStep
<1>0. TypeOK /\ Parked(stock)
  BY DEF OrderInv, Parked
<1>1. ASSUME UNCHANGED <<stock, txns>> PROVE VehicleStep
  BY <1>0, <1>1, SameRowsHanded, ParkedVehicles
<1>2. ASSUME NEW o \in Orders, PlaceOrder(o) PROVE VehicleStep
  BY <1>2, PlaceOrderVehicles
<1>3. ASSUME NEW o \in Orders, ChangeOrder(o) PROVE VehicleStep
  <2>1. ASSUME NEW actual \in Carts, NEW corrected \in BOOLEAN, deliver_order(o, actual, corrected)
        PROVE  VehicleStep
    BY <2>1, DeliverVehicles
  <2>2. ASSUME ~\E actual \in Carts, corrected \in BOOLEAN : deliver_order(o, actual, corrected)
        PROVE  UNCHANGED <<stock, txns>>
    BY <1>3, <2>2 DEF ChangeOrder, LockOrder, Rollback, add_product_to_order,
       remove_product_from_order, assign_courier, update_status, cancel_by_staff,
       cancel_order_check, cancel_order, cancel_order_refused, CancelOrder, Age, ledgerVars
  <2> QED
    BY <1>1, <2>1, <2>2
<1>4. ASSUME NEW c \in Contracts, ChangeContract(c) PROVE VehicleStep
  BY <1>1, <1>4 DEF ChangeContract, create_contract, activate_contract, suspend_contract,
     reinstate_contract, terminate_contract, update_contract, EndDatePasses, ledgerVars
<1>5. CASE ChangePrices
  BY <1>1, <1>5 DEF ChangePrices, price_item_check, set_price_item, remove_price_item,
     price_item_aborted, ledgerVars
<1>6. CASE Jobs
  BY <1>1, <1>6 DEF Jobs, expire_stale_orders, run_expire_job_scan, run_expire_job,
     run_expire_job_aborted, ledgerVars
<1>7. ASSUME NEW t \in txns, verify_transaction(t) \/ reject_transaction(t) PROVE VehicleStep
  <2>1. stock' = stock /\ \A o \in Orders : Handed(o)
    BY <1>7 DEF verify_transaction, reject_transaction, DecideTxn, orderVars, Handed
  <2> QED
    BY <1>0, <2>1, ParkedVehicles
<1> QED
  BY <1>2, <1>3, <1>4, <1>5, <1>6, <1>7 DEF Next

\* A vehicle never holds less than nothing, nor anything unaccounted for.
LEMMA VehiclesInvariance == Spec => []VehiclesHold
<1>1. Init => VehiclesHold
  <2> SUFFICES ASSUME Init, NEW k \in Couriers, NEW p \in Products
               PROVE  stock[k][p] >= 0 /\ stock[k][p] = InitStock[k][p] - HandedOver(k, p)
    BY DEF VehiclesHold
  <2>1. stock[k][p] = InitStock[k][p] /\ InitStock[k][p] \in Nat
    BY OrdersAssumption DEF Init
  <2>2. HandedOver(k, p) = 0
    <3>1. \A o \in Orders : [x \in Orders |-> HandsOver(x, k, p)][o] = 0
      BY DEF Init, HandsOver
    <3>2. SumOver([x \in Orders |-> HandsOver(x, k, p)], Orders)
            = SumOver([x \in Orders |-> HandsOver(x, k, p)], {})
      BY <3>1, SumPart
    <3> QED
      BY <3>2, SumEmpty DEF HandedOver
  <2> QED
    BY <2>1, <2>2
<1>2. OrderInv /\ VehiclesHold /\ [Next]_vars => VehiclesHold'
  <2> SUFFICES ASSUME OrderInv, VehiclesHold, [Next]_vars,
                      NEW k \in Couriers, NEW p \in Products
               PROVE  stock'[k][p] >= 0 /\ stock'[k][p] = InitStock[k][p] - HandedOver(k, p)'
    BY DEF VehiclesHold
  <2>1. TypeOK
    BY DEF OrderInv
  <2>2. VehicleStep
    <3>1. CASE Next
      BY <3>1, NextVehicles
    <3>2. CASE UNCHANGED vars
      <4>1. Parked(stock') /\ \A o \in Orders : Handed(o)
        BY <3>2 DEF vars, orderVars, ledgerVars, Handed, Parked
      <4> QED
        BY <2>1, <4>1, ParkedVehicles
    <3> QED
      BY <3>1, <3>2
  <2>3. PICK n \in Nat : VehicleLeft(k, p, n)
    BY <2>2 DEF VehicleStep
  <2>4. HandedOver(k, p) \in Nat /\ stock[k][p] \in Int /\ InitStock[k][p] \in Nat
    <3>1. InitStock[k] \in [Products -> Nat]
      BY OrdersAssumption
    <3> QED
      BY <2>1, <3>1, HandedOverType, AccountFacts DEF TypeOK
  <2>5. stock[k][p] >= 0 /\ stock[k][p] = InitStock[k][p] - HandedOver(k, p)
    BY DEF VehiclesHold
  <2> QED
    BY <2>3, <2>4, <2>5 DEF VehicleLeft
<1> QED
  BY <1>1, <1>2, OrderInvariance, PTL DEF Spec

-----------------------------------------------------------------------------
(* The return documents.  They are written once, by deliver_order; what the  *)
(* order rows say of the containers afterwards is a second record of it.     *)

HasContainers(o) == ReturnableItems(items[o]) # NoLines

\* A document agrees with the row of the order that it was written for.
DocumentHolds(n) ==
  LET d == returns[n]
  IN  /\ d.order \in Orders /\ status[d.order] = "DELIVERED" /\ HasContainers(d.order)
      /\ d.to = courier[d.order] /\ d.lines = ReturnableItems(items[d.order])

\* One document for every delivery of goods in containers, and no other.
ReturnsInv ==
  /\ \A n \in DOMAIN returns : DocumentHolds(n)
  /\ \A m, n \in DOMAIN returns : returns[m].order = returns[n].order => m = n
  /\ \A o \in Orders : status[o] = "DELIVERED" /\ HasContainers(o) =>
       \E n \in DOMAIN returns : returns[n].order = o

\* Only a delivery touches what a delivery has left behind.
LEMMA HandsOrDelivers ==
  ASSUME OrderInv, Next
  PROVE  \/ returns' = returns /\ \A x \in Orders : Handed(x)
         \/ \E o \in Orders, actual \in Carts, corrected \in BOOLEAN : deliver_order(o, actual, corrected)
<1> DEFINE Idle == returns' = returns /\ \A x \in Orders : Handed(x)
<1>0. TypeOK
  BY DEF OrderInv
<1>1. ASSUME UNCHANGED <<returns, txns>> PROVE Idle
  BY <1>1, SameRowsHanded
<1>2. ASSUME NEW o \in Orders, PlaceOrder(o) PROVE Idle
  <2>1. ASSUME NEW cl, NEW m, NEW c, NEW cart, NEW prices, NEW st \in {"NEW", "PICKUP_COMPLETED"},
               InsertOrder(o, cl, m, c, cart, prices, st)
        PROVE  \A x \in Orders : Handed(x)
    BY <1>0, <2>1 DEF InsertOrder, TypeOK, Handed
  <2>2. returns' = returns
    BY <1>2 DEF PlaceOrder, create_order, create_contract_order, create_warehouse_sale,
       onboard_client_with_balance
  <2>3. \E cl, m, c, cart, prices : \E st \in {"NEW", "PICKUP_COMPLETED"} :
          InsertOrder(o, cl, m, c, cart, prices, st)
    <3> HIDE DEF Idle
    <3>1. PICK cl \in Clients, cart \in Carts, capitalize \in BOOLEAN :
            \/ cl # WalkIn /\ \E m \in Methods : create_order(o, cl, m, cart, capitalize)
            \/ "CONTRACT" \in Methods
                 /\ \E c \in Contracts : create_contract_order(o, cl, c, cart, capitalize)
            \/ create_warehouse_sale(o, cl, cart, capitalize)
            \/ \E m \in Methods, initial \in InitialBalances :
                 onboard_client_with_balance(o, cl, m, cart, initial)
      BY <1>2 DEF PlaceOrder
    <3>2. ASSUME NEW c \in Contracts, create_contract_order(o, cl, c, cart, capitalize)
          PROVE  InsertOrder(o, cl, "CONTRACT", c, cart, price[c], "NEW")
      BY <3>2 DEF create_contract_order
    <3>3. ASSUME NEW m \in Methods, create_order(o, cl, m, cart, capitalize)
          PROVE  InsertOrder(o, cl, m, None, cart, CatalogPrice, "NEW")
      BY <3>3 DEF create_order
    <3>4. ASSUME create_warehouse_sale(o, cl, cart, capitalize)
          PROVE  InsertOrder(o, cl, "CASH", None, cart, CatalogPrice, "PICKUP_COMPLETED")
      BY <3>4, Zenon DEF create_warehouse_sale
    <3>5. ASSUME NEW m \in Methods, NEW initial, onboard_client_with_balance(o, cl, m, cart, initial)
          PROVE  InsertOrder(o, cl, m, None, cart, CatalogPrice, "NEW")
      BY <3>5 DEF onboard_client_with_balance
    <3> QED
      BY <3>1, <3>2, <3>3, <3>4, <3>5, Zenon
  <2> QED
    BY <2>1, <2>2, <2>3
<1>3. ASSUME NEW o \in Orders, ChangeOrder(o),
             ~\E actual \in Carts, corrected \in BOOLEAN : deliver_order(o, actual, corrected)
      PROVE  UNCHANGED <<returns, txns>>
  BY <1>3 DEF ChangeOrder, LockOrder, Rollback, add_product_to_order,
     remove_product_from_order, assign_courier, update_status, cancel_by_staff,
     cancel_order_check, cancel_order, cancel_order_refused, CancelOrder, Age, ledgerVars
<1>4. ASSUME NEW c \in Contracts, ChangeContract(c) PROVE UNCHANGED <<returns, txns>>
  BY <1>4 DEF ChangeContract, create_contract, activate_contract, suspend_contract,
     reinstate_contract, terminate_contract, update_contract, EndDatePasses, ledgerVars
<1>5. ASSUME ChangePrices PROVE UNCHANGED <<returns, txns>>
  BY <1>5 DEF ChangePrices, price_item_check, set_price_item, remove_price_item,
     price_item_aborted, ledgerVars
<1>6. ASSUME Jobs PROVE UNCHANGED <<returns, txns>>
  BY <1>6 DEF Jobs, expire_stale_orders, run_expire_job_scan, run_expire_job,
     run_expire_job_aborted, ledgerVars
<1>7. ASSUME NEW t \in txns, verify_transaction(t) \/ reject_transaction(t) PROVE Idle
  BY <1>7 DEF verify_transaction, reject_transaction, DecideTxn, orderVars, Handed
<1> HIDE DEF Idle
<1>8. \/ Idle
      \/ \E o \in Orders, actual \in Carts, corrected \in BOOLEAN : deliver_order(o, actual, corrected)
  BY <1>1, <1>2, <1>3, <1>4, <1>5, <1>6, <1>7 DEF Next
<1> QED
  BY <1>8 DEF Idle

\* What is left alone still agrees.
LEMMA ReturnsKept ==
  ASSUME TypeOK, ReturnsInv, returns' = returns, \A x \in Orders : Handed(x)
  PROVE  ReturnsInv'
<1>1. \A n \in DOMAIN returns' : DocumentHolds(n)'
  BY DEF ReturnsInv, DocumentHolds, HasContainers, Handed
<1>2. \A o \in Orders : status'[o] = "DELIVERED" /\ HasContainers(o)' =>
        \E n \in DOMAIN returns' : returns'[n].order = o
  BY DEF ReturnsInv, HasContainers, Handed
<1> QED
  BY <1>1, <1>2 DEF ReturnsInv

\* A delivery of goods in containers adds the order's first document.
LEMMA DeliverReturns ==
  ASSUME OrderInv, ReturnsInv, NEW o \in Orders, NEW actual \in Carts, NEW corrected \in BOOLEAN,
         deliver_order(o, actual, corrected)
  PROVE  ReturnsInv'
<1> DEFINE R == ReturnableItems(actual)
           doc == [order |-> o, to |-> courier[o], lines |-> R]
           more == R # NoLines
<1>0. TypeOK
  BY DEF OrderInv
<1>1. /\ status[o] # "DELIVERED" /\ courier' = courier
      /\ status'[o] = "DELIVERED" /\ items'[o] = actual
      /\ \A x \in Orders : x # o => status'[x] = status[x] /\ items'[x] = items[x]
      /\ returns' = IF more THEN Append(returns, doc) ELSE returns
  BY <1>0 DEF deliver_order, ReturnedTo, TypeOK
<1>2. \A n \in DOMAIN returns : returns[n].order # o
  BY <1>1 DEF ReturnsInv, DocumentHolds
<1>3. /\ HasContainers(o)' <=> more
      /\ ReturnableItems(items'[o]) = R
      /\ doc.order = o /\ doc.to = courier[o] /\ doc.lines = R
  BY <1>1 DEF HasContainers
<1>4. /\ returns \in Seq(ReturnRows) /\ DOMAIN returns = 1..Len(returns) /\ Len(returns) \in Nat
      /\ doc \in ReturnRows
  <2>1. R \in Lines /\ courier[o] \in Couriers
    BY <1>0, CartsType, ReturnableItemsType DEF deliver_order, TypeOK
  <2> QED
    BY <1>0, <2>1 DEF TypeOK, ReturnRows
<1>a. PICK last \in Nat : last = Len(returns) + 1
  BY <1>4
<1>5. /\ more => /\ DOMAIN returns' = DOMAIN returns \union {last} /\ returns'[last] = doc
                 /\ \A n \in DOMAIN returns : returns'[n] = returns[n]
                 /\ last \notin DOMAIN returns
      /\ ~more => returns' = returns
  <2>1. /\ more => returns' = Append(returns, doc)
        /\ ~more => returns' = returns
    BY <1>1
  <2> HIDE DEF R, doc, more
  <2>2. /\ Len(Append(returns, doc)) = last
        /\ DOMAIN Append(returns, doc) = 1..last
        /\ Append(returns, doc)[last] = doc
        /\ \A n \in 1..Len(returns) : Append(returns, doc)[n] = returns[n]
    BY <1>4, <1>a
  <2>3. 1..last = DOMAIN returns \union {last} /\ last \notin DOMAIN returns
    BY <1>4, <1>a
  <2> QED
    BY <1>4, <2>1, <2>2, <2>3
<1> HIDE DEF R, doc, more
<1>6. \A n \in DOMAIN returns : DocumentHolds(n) /\ returns'[n] = returns[n]
  BY <1>5 DEF ReturnsInv
<1>7. \A n \in DOMAIN returns : DocumentHolds(n)'
  <2> SUFFICES ASSUME NEW n \in DOMAIN returns PROVE DocumentHolds(n)'
    OBVIOUS
  <2>1. returns[n].order \in Orders /\ returns[n].order # o /\ returns'[n] = returns[n]
    BY <1>2, <1>6 DEF DocumentHolds
  <2>2. /\ status'[returns[n].order] = status[returns[n].order]
        /\ items'[returns[n].order] = items[returns[n].order]
    BY <1>1, <2>1
  <2>3. DocumentHolds(n) /\ courier' = courier
    BY <1>1, <1>6
  <2> QED
    BY <2>1, <2>2, <2>3 DEF DocumentHolds, HasContainers
<1>8. more => DocumentHolds(last)'
  <2> SUFFICES ASSUME more PROVE DocumentHolds(last)'
    OBVIOUS
  <2>1. /\ returns'[last].order = o /\ returns'[last].to = courier[o] /\ returns'[last].lines = R
        /\ HasContainers(o)' /\ ReturnableItems(items'[o]) = R
    BY <1>3, <1>5
  <2>2. status'[o] = "DELIVERED" /\ courier' = courier
    BY <1>1
  <2> QED
    BY <2>1, <2>2 DEF DocumentHolds
<1>9. \A n \in DOMAIN returns' : DocumentHolds(n)'
  BY <1>5, <1>7, <1>8
<1>10. \A m, n \in DOMAIN returns' : returns'[m].order = returns'[n].order => m = n
  <2>1. CASE more
    <3>1. \A n \in DOMAIN returns : returns'[n].order # o
      BY <1>2, <1>6
    <3>2. returns'[last].order = o
      BY <1>3, <1>5, <2>1
    <3> QED
      BY <1>5, <1>6, <2>1, <3>1, <3>2 DEF ReturnsInv
  <2>2. CASE ~more
    BY <1>5, <2>2 DEF ReturnsInv
  <2> QED
    BY <2>1, <2>2
<1>11. ASSUME NEW x \in Orders, status'[x] = "DELIVERED", HasContainers(x)'
       PROVE  \E n \in DOMAIN returns' : returns'[n].order = x
  <2>1. CASE x = o
    BY <1>3, <1>5, <1>11, <2>1
  <2>2. CASE x # o
    <3>1. status[x] = "DELIVERED" /\ HasContainers(x)
      BY <1>1, <1>11, <2>2 DEF HasContainers
    <3>2. PICK n \in DOMAIN returns : returns[n].order = x
      BY <3>1 DEF ReturnsInv
    <3> QED
      BY <1>5, <1>6, <3>2
  <2> QED
    BY <2>1, <2>2
<1> QED
  BY <1>9, <1>10, <1>11 DEF ReturnsInv

\* The documents and the order rows stay in line.
LEMMA ReturnsInvariance == Spec => []ReturnsInv
<1>1. Init => ReturnsInv
  <2> SUFFICES ASSUME Init PROVE ReturnsInv
    OBVIOUS
  <2>1. DOMAIN returns = {} /\ \A o \in Orders : status[o] = "ABSENT"
    BY DEF Init
  <2> QED
    BY <2>1 DEF ReturnsInv
<1>2. OrderInv /\ ReturnsInv /\ [Next]_vars => ReturnsInv'
  <2> SUFFICES ASSUME OrderInv, ReturnsInv, [Next]_vars PROVE ReturnsInv'
    OBVIOUS
  <2>0. TypeOK
    BY DEF OrderInv
  <2>1. CASE Next
    BY <2>0, <2>1, HandsOrDelivers, ReturnsKept, DeliverReturns
  <2>2. CASE UNCHANGED vars
    <3>1. returns' = returns /\ \A x \in Orders : Handed(x)
      BY <2>2 DEF vars, orderVars, ledgerVars, Handed
    <3> QED
      BY <2>0, <3>1, ReturnsKept
  <2> QED
    BY <2>1, <2>2
<1> QED
  BY <1>1, <1>2, OrderInvariance, PTL DEF Spec

-----------------------------------------------------------------------------
(* The reports over the orders of a window W.  Each counts the same orders,  *)
(* or adds the same sums, under other keys: SumGrouped, key by key.          *)

\* Any orders can be counted, and their sums added.
LEMMA SomeOrders ==
  ASSUME TypeOK, NEW S, S \subseteq Orders
  PROVE  IsFiniteSet(S) /\ IsSummable(total, S) /\ Cardinality(S) \in Nat
<1>1. IsFiniteSet(S)
  BY OrdersAssumption, FS_Subset
<1>2. IsSummable(total, S)
  BY <1>1 DEF IsSummable, TypeOK
<1> QED
  BY <1>1, <1>2, FS_CardinalityType

\* g counts the elements of S that h sends to each key of K.
Counted(S, h, K, g) ==
  /\ \A x \in S : h[x] \in K
  /\ \A y \in K : g[y] = Cardinality({x \in S : h[x] = y})

\* Counting key by key counts everything once.
LEMMA CountsAddUp ==
  ASSUME NEW S, IsFiniteSet(S), NEW h, NEW K, IsFiniteSet(K), NEW g, Counted(S, h, K, g)
  PROVE  SumOver(g, K) = Cardinality(S) /\ IsSummable(g, K)
<1> DEFINE one == [x \in S |-> 1]
<1>1. IsSummable(one, S) /\ SumOver(one, S) = Cardinality(S)
  BY SumOfOnes
<1>2. ASSUME NEW y \in K PROVE g[y] = SumOver(one, {x \in S : h[x] = y})
  <2> DEFINE Fiber == {x \in S : h[x] = y}
  <2>1. IsFiniteSet(Fiber) /\ \A x \in Fiber : one[x] = 1
    BY FS_Subset
  <2>2. g[y] = Cardinality(Fiber)
    BY DEF Counted
  <2> HIDE DEF Fiber, one
  <2>3. SumOver(one, Fiber) = Cardinality(Fiber)
    BY <2>1, SumOfOnes
  <2> QED
    BY <2>2, <2>3 DEF Fiber
<1> HIDE DEF one
<1>3. Grouped(one, S, h, K, g)
  BY <1>2 DEF Grouped, Counted
<1>4. SumOver(one, S) = SumOver(g, K) /\ IsSummable(g, K)
  BY <1>1, <1>3, SumGrouped
<1> QED
  BY <1>1, <1>4

PayMethods == {"CASH", "CARD", "CONTRACT"}

\* There are finitely many methods and statuses.
LEMMA FewKeys == IsFiniteSet(PayMethods) /\ IsFiniteSet(Statuses)
<1>1. IsFiniteSet({})
  BY FS_EmptySet
<1>2. IsFiniteSet({} \union {"CASH"} \union {"CARD"} \union {"CONTRACT"})
  <2>1. IsFiniteSet({} \union {"CASH"})
    BY <1>1, FS_AddElement
  <2>2. IsFiniteSet({} \union {"CASH"} \union {"CARD"})
    BY <2>1, FS_AddElement
  <2> QED
    BY <2>2, FS_AddElement
<1>3. PayMethods = {} \union {"CASH"} \union {"CARD"} \union {"CONTRACT"}
  BY DEF PayMethods
<1>4. IsFiniteSet({} \union {"NEW"} \union {"ASSIGNED"} \union {"IN_TRANSIT"} \union {"ARRIVED"}
                    \union {"DELIVERED"} \union {"PICKUP_COMPLETED"} \union {"CANCELLED"})
  <2>1. IsFiniteSet({} \union {"NEW"} \union {"ASSIGNED"})
    BY <1>1, FS_AddElement
  <2>2. IsFiniteSet({} \union {"NEW"} \union {"ASSIGNED"} \union {"IN_TRANSIT"} \union {"ARRIVED"})
    BY <2>1, FS_AddElement
  <2>3. IsFiniteSet({} \union {"NEW"} \union {"ASSIGNED"} \union {"IN_TRANSIT"} \union {"ARRIVED"}
                      \union {"DELIVERED"} \union {"PICKUP_COMPLETED"})
    BY <2>2, FS_AddElement
  <2> QED
    BY <2>3, FS_AddElement
<1>5. Statuses = {} \union {"NEW"} \union {"ASSIGNED"} \union {"IN_TRANSIT"} \union {"ARRIVED"}
                   \union {"DELIVERED"} \union {"PICKUP_COMPLETED"} \union {"CANCELLED"}
  BY DEF Statuses
<1> QED
  BY <1>2, <1>3, <1>4, <1>5

\* The breakdown by payment method covers the settled orders.
BreakdownIs(W) ==
  LET pays == get_payment_breakdown(W)
  IN  /\ pays.total_orders = Cardinality(CompletedOrders(W))
      /\ pays.total_amount = RevenueOf(CompletedOrders(W))
      /\ \A m \in PayMethods :
           pays.methods[m].total_amount = RevenueOf({o \in CompletedOrders(W) : pay[o] = m})

\* Every settled order is counted under its method.
LEMMA BreakdownTotals ==
  ASSUME TypeOK, PaidInv, NEW W, W \subseteq Existing
  PROVE  BreakdownIs(W)
<1> DEFINE S == CompletedOrders(W)
           methods == [m \in PayMethods |->
                         [orders_count |-> Cardinality({o \in S : pay[o] = m}),
                          total_amount |-> RevenueOf({o \in S : pay[o] = m})]]
           count == [m \in DOMAIN methods |-> methods[m].orders_count]
           amount == [m \in DOMAIN methods |-> methods[m].total_amount]
<1>1. S \subseteq Orders /\ \A o \in S : pay[o] \in PayMethods
  BY DEF CompletedOrders, Existing, PaidInv, PayMethods
<1>2. /\ get_payment_breakdown(W).total_orders = SumOver(count, DOMAIN methods)
      /\ get_payment_breakdown(W).total_amount = SumOver(amount, DOMAIN methods)
      /\ get_payment_breakdown(W).methods = methods
  BY Zenon DEF get_payment_breakdown, PayMethods
<1> HIDE DEF S
<1>3. DOMAIN methods = PayMethods
  OBVIOUS
<1>4. /\ \A m \in PayMethods : count[m] = Cardinality({o \in S : pay[o] = m})
      /\ \A m \in PayMethods : amount[m] = RevenueOf({o \in S : pay[o] = m})
      /\ \A m \in PayMethods : methods[m].total_amount = RevenueOf({o \in S : pay[o] = m})
  BY Zenon
<1> HIDE DEF methods, count, amount
<1>5. Counted(S, pay, PayMethods, count)
  BY <1>1, <1>4 DEF Counted
<1>6. Grouped(total, S, pay, PayMethods, amount)
  BY <1>1, <1>4 DEF Grouped, RevenueOf
<1>7. SumOver(count, PayMethods) = Cardinality(S)
  BY <1>1, <1>5, SomeOrders, FewKeys, CountsAddUp
<1>8. SumOver(total, S) = SumOver(amount, PayMethods)
  BY <1>1, <1>6, SomeOrders, FewKeys, SumGrouped
<1>9. /\ get_payment_breakdown(W).total_orders = Cardinality(S)
      /\ get_payment_breakdown(W).total_amount = RevenueOf(S)
  BY <1>2, <1>3, <1>7, <1>8 DEF RevenueOf
<1> QED
  BY <1>2, <1>4, <1>9 DEF BreakdownIs, S

\* The funnel covers all orders of the window.
FunnelIs(W) ==
  LET funnel == get_order_funnel(W)
  IN  /\ funnel.total = Cardinality(W)
      /\ \A s \in Statuses : funnel.statuses[s] = Cardinality({o \in W : status[o] = s})

\* Every order of the window is counted under its status.
LEMMA FunnelTotals ==
  ASSUME TypeOK, NEW W, W \subseteq Existing
  PROVE  FunnelIs(W)
<1> DEFINE counts == [s \in Statuses |-> Cardinality({o \in W : status[o] = s})]
<1>1. W \subseteq Orders /\ \A o \in W : status[o] \in Statuses
  BY DEF Existing, Exists, TypeOK
<1>2. get_order_funnel(W).total = SumOver(counts, Statuses) /\ get_order_funnel(W).statuses = counts
  BY Zenon DEF get_order_funnel
<1>3. \A s \in Statuses : counts[s] = Cardinality({o \in W : status[o] = s})
  OBVIOUS
<1> HIDE DEF counts
<1>4. Counted(W, status, Statuses, counts)
  BY <1>1, <1>3 DEF Counted
<1>5. SumOver(counts, Statuses) = Cardinality(W)
  BY <1>1, <1>4, SomeOrders, FewKeys, CountsAddUp
<1> QED
  BY <1>2, <1>3, <1>5 DEF FunnelIs

\* So does the heat map, and no cell exceeds the whole.
HeatmapIs(W, slot) ==
  LET heat == get_order_heatmap(W, slot)
  IN  SumOver(heat.cells, DOMAIN heat.cells) = Cardinality(W) /\ heat.max_count <= Cardinality(W)

\* Every order of the window is counted in its slot.
LEMMA HeatmapTotals ==
  ASSUME TypeOK, NEW W, W \subseteq Existing, NEW slot
  PROVE  HeatmapIs(W, slot)
<1> DEFINE K == {slot[o] : o \in W}
           cells == [x \in K |-> Cardinality({o \in W : slot[o] = x})]
           V == {cells[x] : x \in DOMAIN cells}
           top == IF W = {} THEN 0 ELSE CHOOSE n \in V : \A x \in DOMAIN cells : cells[x] <= n
<1>1. W \subseteq Orders
  BY DEF Existing
<1>2. IsFiniteSet(W) /\ Cardinality(W) \in Nat
  BY <1>1, SomeOrders
<1>3. IsFiniteSet(K)
  BY <1>2, FiniteImage
<1>4. Counted(W, slot, K, cells)
  BY DEF Counted
<1>5. DOMAIN cells = K /\ (W # {} => K # {})
  OBVIOUS
<1>6. get_order_heatmap(W, slot).cells = cells /\ get_order_heatmap(W, slot).max_count = top
  BY Zenon DEF get_order_heatmap
<1>7. V = {cells[x] : x \in K}
  BY <1>5
<1> HIDE DEF K, cells, V
<1>8. SumOver(cells, K) = Cardinality(W) /\ IsSummable(cells, K)
  BY <1>2, <1>3, <1>4, CountsAddUp
<1>9. \A x \in K : cells[x] \in Nat /\ cells[x] <= Cardinality(W)
  BY <1>8, SumMember
<1>10. top <= Cardinality(W)
  <2>1. CASE W = {}
    BY <1>2, <2>1
  <2>2. CASE W # {}
    <3>1. IsFiniteSet(V) /\ V \subseteq Int /\ V # {}
      BY <1>3, <1>5, <1>7, <1>9, <2>2, FiniteImage
    <3>2. \E n \in V : \A m \in V : n >= m
      BY <3>1, FiniteExtremes
    <3>3. PICK n \in V : \A m \in V : n >= m
      BY <3>2
    <3>4. \A x \in DOMAIN cells : cells[x] <= n
      BY <1>5, <1>7, <1>9, <3>1, <3>3
    <3>5. top \in V
      BY <2>2, <3>3, <3>4
    <3>6. \A v \in V : v <= Cardinality(W)
      BY <1>7, <1>9
    <3> HIDE DEF top
    <3> QED
      BY <3>5, <3>6
  <2> QED
    BY <2>1, <2>2
<1> HIDE DEF top
<1> QED
  BY <1>5, <1>6, <1>8, <1>10 DEF HeatmapIs

\* A trend covers the settled orders that its filters let through.
TrendRows(W, y, C) ==
  {o \in CompletedOrders(W) : y \in {None, sale_type(o)} /\ client[o] \in C}

TrendIs(W, period, y, C) ==
  LET trend == get_order_trends(W, period, y, C)
  IN  /\ trend.total_orders = Cardinality(TrendRows(W, y, C))
      /\ trend.total_revenue = RevenueOf(TrendRows(W, y, C))

\* Every row of a trend is counted in its period.
LEMMA TrendTotals ==
  ASSUME TypeOK, NEW W, W \subseteq Existing, NEW period, NEW y, NEW C
  PROVE  TrendIs(W, period, y, C)
<1> DEFINE rows == TrendRows(W, y, C)
           K == {period[o] : o \in rows}
           point(x) == LET at == {o \in rows : period[o] = x}
                       IN  [orders_count |-> Cardinality(at), revenue |-> RevenueOf(at),
                            avg_order_value |-> RevenueOf(at) \div Cardinality(at)]
           points == [x \in K |-> point(x)]
           count == [x \in DOMAIN points |-> points[x].orders_count]
           amount == [x \in DOMAIN points |-> points[x].revenue]
<1>1. rows \subseteq Orders
  BY DEF TrendRows, CompletedOrders, Existing
<1>2. /\ get_order_trends(W, period, y, C).total_orders = SumOver(count, DOMAIN points)
      /\ get_order_trends(W, period, y, C).total_revenue = SumOver(amount, DOMAIN points)
  BY Zenon DEF get_order_trends, TrendRows
<1> HIDE DEF rows
<1>3. IsFiniteSet(rows) /\ IsFiniteSet(K)
  BY <1>1, SomeOrders, FiniteImage
<1>4. DOMAIN points = K
  OBVIOUS
<1>5. /\ \A x \in K : count[x] = Cardinality({o \in rows : period[o] = x})
      /\ \A x \in K : amount[x] = RevenueOf({o \in rows : period[o] = x})
  BY Zenon
<1>6. \A o \in rows : period[o] \in K
  OBVIOUS
<1> HIDE DEF K, points, count, amount
<1>7. Counted(rows, period, K, count)
  BY <1>5, <1>6 DEF Counted
<1>8. Grouped(total, rows, period, K, amount)
  BY <1>5, <1>6 DEF Grouped, RevenueOf
<1>9. SumOver(count, K) = Cardinality(rows)
  BY <1>3, <1>7, CountsAddUp
<1>10. SumOver(total, rows) = SumOver(amount, K)
  BY <1>1, <1>3, <1>8, SomeOrders, SumGrouped
<1> QED
  BY <1>2, <1>4, <1>9, <1>10 DEF TrendIs, RevenueOf, rows

\* Settled orders that divide into two kinds.
LEMMA TwoKinds ==
  ASSUME TypeOK, NEW S, S \subseteq Orders, NEW T, NEW U, S = T \union U, T \intersect U = {}
  PROVE  /\ Cardinality(S) = Cardinality(T) + Cardinality(U)
         /\ RevenueOf(S) = RevenueOf(T) + RevenueOf(U)
<1>1. /\ IsFiniteSet(T) /\ IsFiniteSet(U) /\ IsSummable(total, T) /\ IsSummable(total, U)
      /\ Cardinality(T) \in Nat /\ Cardinality(U) \in Nat
  BY SomeOrders
<1>2. Cardinality(T \union U) = Cardinality(T) + Cardinality(U) - Cardinality({})
  BY <1>1, FS_Union
<1>3. Cardinality({}) = 0
  BY FS_EmptySet
<1>4. SumOver(total, T \union U) = SumOver(total, T) + SumOver(total, U)
  BY <1>1, SumDisjoint
<1> QED
  BY <1>1, <1>2, <1>3, <1>4 DEF RevenueOf

\* How the rows of a trend divide.
LEMMA TrendDivides ==
  ASSUME TypeOK, OrdersWellFormed, NEW W, W \subseteq Existing
  PROVE  LET S == CompletedOrders(W)
             T == TrendRows(W, "DELIVERY", Clients)
             U == TrendRows(W, "WAREHOUSE_PICKUP", Clients)
             V == TrendRows(W, None, {WalkIn})
             X == TrendRows(W, None, Clients \ {WalkIn})
         IN  /\ S \subseteq Orders /\ TrendRows(W, None, Clients) = S
             /\ S = T \union U /\ T \intersect U = {}
             /\ S = V \union X /\ V \intersect X = {}
<1> DEFINE S == CompletedOrders(W)
<1>1. S \subseteq Orders /\ \A o \in S : client[o] \in Clients
  BY DEF CompletedOrders, Existing, OrdersWellFormed
<1>2. WalkIn \in Clients
  BY OrdersAssumption
<1>3. \A o : sale_type(o) \in {"DELIVERY", "WAREHOUSE_PICKUP"}
  BY DEF sale_type
<1>4. /\ \A o : "DELIVERY" \in {None, sale_type(o)} <=> sale_type(o) = "DELIVERY"
      /\ \A o : "WAREHOUSE_PICKUP" \in {None, sale_type(o)} <=> sale_type(o) = "WAREHOUSE_PICKUP"
      /\ \A o : None \in {None, sale_type(o)}
  BY FunnelAssumption
<1>5. /\ TrendRows(W, "DELIVERY", Clients) = {o \in S : sale_type(o) = "DELIVERY"}
      /\ TrendRows(W, "WAREHOUSE_PICKUP", Clients) = {o \in S : sale_type(o) = "WAREHOUSE_PICKUP"}
      /\ TrendRows(W, None, {WalkIn}) = {o \in S : client[o] = WalkIn}
      /\ TrendRows(W, None, Clients \ {WalkIn}) = {o \in S : client[o] # WalkIn}
      /\ TrendRows(W, None, Clients) = S
  BY <1>1, <1>4 DEF TrendRows
<1> HIDE DEF S
<1>6. /\ S = {o \in S : sale_type(o) = "DELIVERY"} \union {o \in S : sale_type(o) = "WAREHOUSE_PICKUP"}
      /\ {o \in S : sale_type(o) = "DELIVERY"} \intersect {o \in S : sale_type(o) = "WAREHOUSE_PICKUP"} = {}
  BY <1>3
<1> QED
  BY <1>1, <1>5, <1>6 DEF S

\* Whatever the window, the reports agree.
LEMMA WindowAgrees ==
  ASSUME TypeOK, OrdersWellFormed, PaidInv, NEW W, W \subseteq Existing
  PROVE  WindowReportsAgree(W)
<1> DEFINE S == CompletedOrders(W)
           Trend(cut, y, C) == get_order_trends(W, cut, y, C)
<1>1. /\ get_payment_breakdown(W).total_orders = Cardinality(S)
      /\ get_payment_breakdown(W).total_amount = RevenueOf(S)
  BY BreakdownTotals DEF BreakdownIs
<1>2. /\ get_order_funnel(W).total = Cardinality(W)
      /\ get_order_funnel(W).statuses["DELIVERED"] = Cardinality({o \in W : status[o] = "DELIVERED"})
      /\ get_order_funnel(W).statuses["PICKUP_COMPLETED"]
           = Cardinality({o \in W : status[o] = "PICKUP_COMPLETED"})
  BY FunnelTotals DEF FunnelIs, Statuses
<1>3. /\ get_orders_summary(W).total = Cardinality(W)
      /\ get_orders_summary(W).delivered = Cardinality(S)
      /\ get_orders_summary(W).revenue = RevenueOf(S)
  BY DEF get_orders_summary
<1>4. Cardinality(S) = Cardinality({o \in W : status[o] = "DELIVERED"})
                         + Cardinality({o \in W : status[o] = "PICKUP_COMPLETED"})
  <2>1. /\ S = {o \in W : status[o] = "DELIVERED"} \union {o \in W : status[o] = "PICKUP_COMPLETED"}
        /\ {o \in W : status[o] = "DELIVERED"} \intersect {o \in W : status[o] = "PICKUP_COMPLETED"} = {}
        /\ S \subseteq Orders
    BY DEF CompletedOrders, Settled, Existing
  <2> HIDE DEF S
  <2> QED
    BY <2>1, TwoKinds
<1>5. ASSUME NEW cut
      PROVE  LET heat == get_order_heatmap(W, cut)
             IN  /\ SumOver(heat.cells, DOMAIN heat.cells) = Cardinality(W)
                 /\ heat.max_count <= Cardinality(W)
  BY HeatmapTotals DEF HeatmapIs
<1>6. ASSUME NEW cut
      PROVE  /\ Trend(cut, None, Clients).total_revenue = RevenueOf(S)
             /\ Trend(cut, "DELIVERY", Clients).total_orders
                  + Trend(cut, "WAREHOUSE_PICKUP", Clients).total_orders = Cardinality(S)
             /\ Trend(cut, None, {WalkIn}).total_revenue
                  + Trend(cut, None, Clients \ {WalkIn}).total_revenue = RevenueOf(S)
  <2> DEFINE T == TrendRows(W, "DELIVERY", Clients)
             U == TrendRows(W, "WAREHOUSE_PICKUP", Clients)
             V == TrendRows(W, None, {WalkIn})
             X == TrendRows(W, None, Clients \ {WalkIn})
  <2>1. /\ S \subseteq Orders /\ TrendRows(W, None, Clients) = S
        /\ S = T \union U /\ T \intersect U = {}
        /\ S = V \union X /\ V \intersect X = {}
    BY TrendDivides
  <2>2. /\ Trend(cut, None, Clients).total_revenue = RevenueOf(TrendRows(W, None, Clients))
        /\ Trend(cut, "DELIVERY", Clients).total_orders = Cardinality(T)
        /\ Trend(cut, "WAREHOUSE_PICKUP", Clients).total_orders = Cardinality(U)
        /\ Trend(cut, None, {WalkIn}).total_revenue = RevenueOf(V)
        /\ Trend(cut, None, Clients \ {WalkIn}).total_revenue = RevenueOf(X)
    BY TrendTotals DEF TrendIs
  <2> HIDE DEF S, T, U, V, X, Trend
  <2>3. Cardinality(S) = Cardinality(T) + Cardinality(U)
    BY <2>1, TwoKinds
  <2>4. RevenueOf(S) = RevenueOf(V) + RevenueOf(X)
    BY <2>1, TwoKinds
  <2> QED
    BY <2>1, <2>2, <2>3, <2>4
<1> HIDE DEF S
<1> QED
  BY <1>1, <1>2, <1>3, <1>4, <1>5, <1>6 DEF WindowReportsAgree

-----------------------------------------------------------------------------
(* Turnover: the rows behind the balances of the revenue account, the cash   *)
(* desk, the couriers and the card account, by the orders they are for.      *)

PaymentsBy(m) == {t \in txns : t.kind = "payment" /\ pay[t.order] = m}
SettledBy(m) == {o \in CompletedOrders(Existing) : pay[o] = m}

\* The payment rows of a method are for the settled orders of that method.
LEMMA PaymentsAreOrders ==
  ASSUME OrderInv, PaymentInv, RowsMatchOrders, PaidInv, NEW m \in {"CASH", "CARD"}
  PROVE  SumOver(AmountOf(txns), PaymentsBy(m)) = RevenueOf(SettledBy(m))
<1>1. /\ PaymentsBy(m) \subseteq txns /\ \A t \in PaymentsBy(m) : t.kind = "payment"
  BY DEF PaymentsBy
<1>2. \A t \in txns : t.order \in Orders /\ status[t.order] \in Settled
  BY DEF OrderInv, TypeOK, TxnRows, PaymentInv
<1>3. \A o : o \in SettledBy(m) <=> \E t \in PaymentsBy(m) : t.order = o
  <2>1. ASSUME NEW o \in SettledBy(m) PROVE \E t \in PaymentsBy(m) : t.order = o
    BY DEF SettledBy, PaymentsBy, CompletedOrders, Existing, PaidInv
  <2>2. ASSUME NEW t \in PaymentsBy(m) PROVE t.order \in SettledBy(m)
    BY <1>2 DEF SettledBy, PaymentsBy, CompletedOrders, Existing, Exists, Settled
  <2> QED
    BY <2>1, <2>2
<1> QED
  BY <1>1, <1>3, RowsToOrders DEF RevenueOf, OrderInv

\* Between whom money may have gone, for which orders.
RowIs(t) ==
  /\ t.order \in Orders /\ status[t.order] \in Settled /\ t.amount \in Nat
  /\ \/ /\ t.kind = "debt" /\ t.status = "COMPLETED"
        /\ t.from = Revenue /\ t.to \in Clients
     \/ /\ t.kind = "payment" /\ t.from \in Clients
        /\ \/ pay[t.order] = "CASH" /\ t.status = "COMPLETED" /\ t.to \in Couriers \union {Cash}
           \/ pay[t.order] = "CARD" /\ t.to = Card

\* The invariants above, said of one row.
LEMMA RowsAre ==
  ASSUME OrderInv, PaymentInv, RowsMatchOrders, PaidInv, CourierOnTheWay, NEW t \in txns
  PROVE  RowIs(t)
<1>1. /\ t.order \in Orders /\ t.kind \in {"debt", "payment"} /\ t.amount \in Nat
      /\ RowMatchesOrder(t) /\ status[t.order] \in Settled
  BY DEF OrderInv, TypeOK, TxnRows, RowsMatchOrders, PaymentInv
<1>2. client[t.order] \in Clients
  BY <1>1 DEF OrderInv, OrdersWellFormed, Exists, Settled
<1>3. CashTo(t.order) \in Couriers \union {Cash}
  BY <1>1 DEF CashTo, CourierOnTheWay, OrderInv, TypeOK
<1>4. CASE t.kind = "debt"
  BY <1>1, <1>2, <1>4 DEF RowIs, RowMatchesOrder, OrderInv, DebtsCompleted
<1>5. CASE t.kind = "payment"
  BY <1>1, <1>2, <1>3, <1>5 DEF RowIs, RowMatchesOrder, PaidInv, RowPays
<1> QED
  BY <1>1, <1>4, <1>5

\* The system's accounts are no client's and no courier's.
LEMMA DistinctAccounts ==
  /\ Clients \intersect Couriers = {} /\ Revenue \notin Clients \union Couriers
  /\ Cash \notin Clients \union Couriers /\ Card \notin Clients \union Couriers
  /\ Revenue # Cash /\ Revenue # Card /\ Cash # Card
BY OrdersAssumption

\* The rows into an account that nothing is ever taken out of.
LEMMA BalanceIsRows ==
  ASSUME TypeOK, PaymentInv, NEW a \in Accounts, NEW S, S = {t \in Completed(txns) : t.to = a},
         \A t \in txns : t.from # a
  PROVE  balance[a] = SumOver(AmountOf(txns), S)
<1>1. {t \in Completed(txns) : t.from = a} = {}
  BY DEF Completed
<1>2. AmountOut(txns, a) = SumOver(AmountOf(txns), {}) /\ AmountIn(txns, a) = SumOver(AmountOf(txns), S)
  BY <1>1 DEF AmountOut, AmountIn
<1>3. AmountOut(txns, a) = 0
  BY <1>2, SumEmpty
<1>4. balance[a] = AmountIn(txns, a) - AmountOut(txns, a)
  BY DEF PaymentInv, BalancesMatchLedger
<1>5. SumOver(AmountOf(txns), S) \in Nat
  <2>1. IsFiniteSet(S) /\ S \subseteq txns
    BY FS_Subset DEF PaymentInv, Completed
  <2>2. IsSummable(AmountOf(txns), S)
    BY <2>1 DEF IsSummable, AmountOf, TypeOK, TxnRows
  <2> QED
    BY <2>2, SumNat
<1> QED
  BY <1>2, <1>3, <1>4, <1>5

\* What the clients were charged came out of the revenue account.
LEMMA RevenueIsTurnover ==
  ASSUME OrderInv, PaymentInv, RowsMatchOrders, \A t \in txns : RowIs(t)
  PROVE  balance[Revenue] = -RevenueOf(CompletedOrders(Existing))
<1> DEFINE In  == {t \in Completed(txns) : t.to = Revenue}
           Out == {t \in Completed(txns) : t.from = Revenue}
           S   == CompletedOrders(Existing)
<1>1. In = {}
  BY DistinctAccounts DEF RowIs, Completed
<1>2. Out = {t \in txns : t.kind = "debt"}
  BY DistinctAccounts DEF RowIs, Completed
<1>3. \A o : o \in S <=> \E t \in Out : t.order = o
  <2>1. ASSUME NEW o \in S PROVE \E t \in Out : t.order = o
    BY <1>2, SettledByDebts DEF OrderInv, Debts, CompletedOrders, Existing
  <2>2. ASSUME NEW t \in Out PROVE t.order \in S
    BY <1>2 DEF RowIs, CompletedOrders, Existing, Exists, Settled
  <2> QED
    BY <2>1, <2>2
<1>4. balance[Revenue] = AmountIn(txns, Revenue) - AmountOut(txns, Revenue)
  BY AccountFacts DEF PaymentInv, BalancesMatchLedger
<1>5. AmountIn(txns, Revenue) = SumOver(AmountOf(txns), In)
      /\ AmountOut(txns, Revenue) = SumOver(AmountOf(txns), Out)
  BY DEF AmountIn, AmountOut
<1>6. S \subseteq Orders /\ TypeOK
  BY DEF CompletedOrders, Existing, OrderInv
<1>7. /\ Out \subseteq txns /\ \A t \in Out : t.kind = "debt"
  BY <1>2
<1> HIDE DEF In, Out, S
<1>8. SumOver(AmountOf(txns), Out) = SumOver(total, S)
  BY <1>3, <1>6, <1>7, RowsToOrders
<1>9. SumOver(AmountOf(txns), In) = 0
  BY <1>1, SumEmpty
<1>10. SumOver(total, S) \in Nat
  BY <1>6, SomeOrders, SumNat
<1> QED
  BY <1>4, <1>5, <1>8, <1>9, <1>10 DEF RevenueOf, S

\* Cash is with the couriers or in the cash desk.
LEMMA CashIsTurnover ==
  ASSUME OrderInv, PaymentInv, RowsMatchOrders, PaidInv, \A t \in txns : RowIs(t)
  PROVE  /\ RevenueOf(SettledBy("CASH")) = balance[Cash] + SumOver(balance, Couriers)
         /\ IsSummable(balance, Couriers)
<1> DEFINE K == Couriers \union {Cash}
           f == AmountOf(txns)
           R == PaymentsBy("CASH")
           To(a) == {t \in R : t.to = a}
<1>1. ASSUME NEW a \in K PROVE balance[a] = SumOver(f, To(a))
  <2>1. To(a) = {t \in Completed(txns) : t.to = a}
    BY DistinctAccounts DEF PaymentsBy, RowIs, Completed
  <2>2. \A t \in txns : t.from # a
    BY DistinctAccounts DEF RowIs
  <2>3. a \in Accounts
    BY AccountFacts
  <2> HIDE DEF K, To
  <2> QED
    BY <2>1, <2>2, <2>3, BalanceIsRows DEF OrderInv
<1>2. \A t \in R : t.to \in K /\ t.amount \in Nat
  BY DEF PaymentsBy, RowIs
<1>3. IsSummable(f, R)
  <2>1. IsFiniteSet(R)
    BY FS_Subset DEF PaymentInv, PaymentsBy
  <2> QED
    BY <1>2, <2>1 DEF IsSummable, AmountOf, PaymentsBy
<1>4. IsFiniteSet(K)
  <2>1. IsFiniteSet(Couriers)
    BY StockAssumption, OrdersAssumption, FS_Subset
  <2> QED
    BY <2>1, FS_AddElement
<1> DEFINE to == [t \in R |-> t.to]
<1>5. \A t \in R : to[t] = t.to
  OBVIOUS
<1>6. \A a : To(a) = {t \in R : to[t] = a}
  BY <1>5
<1> HIDE DEF K, f, R, to, To
<1>7. Grouped(f, R, to, K, balance)
  BY <1>1, <1>2, <1>5, <1>6 DEF Grouped
<1>8. SumOver(f, R) = SumOver(balance, K) /\ IsSummable(balance, K)
  BY <1>3, <1>4, <1>7, SumGrouped
<1>9. Cash \notin Couriers /\ K = Couriers \union {Cash}
  BY DistinctAccounts DEF K
<1>10. SumOver(balance, K) = SumOver(balance, Couriers) + balance[Cash]
  BY <1>8, <1>9, SumAdd
<1>11. IsSummable(balance, Couriers) /\ balance[Cash] \in Nat
  BY <1>8, <1>9, FS_Subset DEF IsSummable
<1>12. SumOver(balance, Couriers) \in Nat
  BY <1>11, SumNat
<1>13. SumOver(f, R) = RevenueOf(SettledBy("CASH"))
  BY PaymentsAreOrders DEF f, R
<1> QED
  BY <1>8, <1>10, <1>11, <1>12, <1>13

\* Card payments have arrived, or are pending or rejected transfers.
LEMMA CardIsTurnover ==
  ASSUME OrderInv, PaymentInv, RowsMatchOrders, PaidInv, \A t \in txns : RowIs(t),
         NEW late, late = {t \in txns : t.to = Card /\ t.status # "COMPLETED"}
  PROVE  RevenueOf(SettledBy("CARD")) = balance[Card] + SumOver([t \in late |-> t.amount], late)
<1> DEFINE f == AmountOf(txns)
           R == PaymentsBy("CARD")
           done == {t \in Completed(txns) : t.to = Card}
<1>1. /\ R = {t \in txns : t.to = Card}
  BY DistinctAccounts DEF PaymentsBy, RowIs
<1>2. done \subseteq R /\ R \ done = late /\ late \subseteq txns
  BY <1>1 DEF Completed
<1>3. balance[Card] = SumOver(f, done)
  <2>1. \A t \in txns : t.from # Card
    BY DistinctAccounts DEF RowIs
  <2> HIDE DEF f
  <2> QED
    BY <2>1, AccountFacts, BalanceIsRows DEF f, OrderInv
<1>4. IsSummable(f, R)
  <2>1. IsFiniteSet(R)
    BY FS_Subset DEF PaymentInv, PaymentsBy
  <2>2. \A t \in txns : t.amount \in Nat
    BY DEF RowIs
  <2> QED
    BY <2>1, <2>2 DEF IsSummable, AmountOf, PaymentsBy
<1>5. \A t \in late : f[t] = [u \in late |-> u.amount][t]
  BY <1>2 DEF AmountOf
<1> DEFINE g == [t \in late |-> t.amount]
<1> HIDE DEF f, R, done, g
<1>6. SumOver(f, R) = SumOver(f, done) + SumOver(f, late)
  BY <1>2, <1>4, SumSplit
<1>7. SumOver(f, late) = SumOver(g, late)
  BY <1>5, SumSame DEF g
<1>8. SumOver(f, R) = RevenueOf(SettledBy("CARD"))
  BY PaymentsAreOrders DEF f, R
<1> QED
  BY <1>3, <1>6, <1>7, <1>8 DEF g

\* The list of the best clients has what everybody but the walk-in bought.
LEMMA TopIsTurnover ==
  ASSUME OrderInv
  PROVE  LET top == get_top_clients(Existing)
         IN  RevenueOf(CompletedOrders(Existing))
               = SumOver([cl \in DOMAIN top |-> top[cl].total_amount], DOMAIN top)
                   + RevenueOf(CompletedOrders({o \in Orders : client[o] = WalkIn}))
             /\ RevenueOf(CompletedOrders({o \in Orders : client[o] = WalkIn})) \in Nat
             /\ SumOver([cl \in DOMAIN top |-> top[cl].total_amount], DOMAIN top) \in Nat
<1> DEFINE S == CompletedOrders(Existing)
           N == {o \in S : client[o] # WalkIn}
           V == CompletedOrders({o \in Orders : client[o] = WalkIn})
           Of(cl) == {o \in S : client[o] = cl}
           K == {c \in Clients \ {WalkIn} : Of(c) # {}}
           top == [cl \in K |-> [orders_count |-> Cardinality(Of(cl)),
                                 total_amount |-> RevenueOf(Of(cl))]]
           amount == [cl \in DOMAIN top |-> top[cl].total_amount]
<1>1. TypeOK /\ S \subseteq Orders /\ N \subseteq Orders /\ V \subseteq Orders
  BY DEF OrderInv, CompletedOrders, Existing
<1>2. S = N \union V /\ N \intersect V = {}
  BY DEF CompletedOrders, Existing, Exists, Settled
<1>3. \A o \in N : client[o] \in K
  BY DEF OrderInv, OrdersWellFormed, CompletedOrders, Existing
<1>4. get_top_clients(Existing) = top
  BY Zenon DEF get_top_clients
<1>5. DOMAIN top = K /\ \A cl \in K : amount[cl] = RevenueOf(Of(cl))
  OBVIOUS
<1>6. \A cl \in K : Of(cl) = {o \in N : client[o] = cl}
  OBVIOUS
<1>7. IsFiniteSet(K)
  <2>1. IsFiniteSet(Clients)
    BY StockAssumption, OrdersAssumption, FS_Subset
  <2> QED
    BY <2>1, FS_Subset
<1> HIDE DEF S, N, V, Of, K, top, amount
<1>8. Grouped(total, N, client, K, amount)
  BY <1>3, <1>5, <1>6 DEF Grouped, RevenueOf
<1>9. SumOver(total, N) = SumOver(amount, K)
  BY <1>1, <1>7, <1>8, SomeOrders, SumGrouped
<1>10. RevenueOf(S) = RevenueOf(N) + RevenueOf(V)
  BY <1>1, <1>2, TwoKinds
<1>11. RevenueOf(V) \in Nat /\ RevenueOf(N) \in Nat
  BY <1>1, SomeOrders, SumNat DEF RevenueOf
<1> QED
  BY <1>4, <1>5, <1>9, <1>10, <1>11 DEF RevenueOf, S, V, amount

\* The turnover of the order tables is the turnover of the ledger.
LEMMA TurnoverIsLedger ==
  ASSUME OrderInv, PaymentInv, RowsMatchOrders, PaidInv, CourierOnTheWay
  PROVE  TurnoverMatchesLedger
<1> DEFINE all  == get_payment_breakdown(Existing)
           late == {t \in txns : t.to = Card /\ t.status # "COMPLETED"}
           top  == get_top_clients(Existing)
<1>0. TypeOK /\ OrdersWellFormed /\ \A t \in txns : RowIs(t)
  BY RowsAre DEF OrderInv
<1>1. /\ all.total_amount = RevenueOf(CompletedOrders(Existing))
      /\ all.methods["CASH"].total_amount = RevenueOf(SettledBy("CASH"))
      /\ all.methods["CARD"].total_amount = RevenueOf(SettledBy("CARD"))
  BY <1>0, BreakdownTotals DEF BreakdownIs, PayMethods, SettledBy
<1>2. balance[Revenue] = -RevenueOf(CompletedOrders(Existing))
  BY <1>0, RevenueIsTurnover
<1>3. RevenueOf(SettledBy("CASH")) = balance[Cash] + SumOver(balance, Couriers)
  BY <1>0, CashIsTurnover
<1>4. RevenueOf(SettledBy("CARD")) = balance[Card] + SumOver([t \in late |-> t.amount], late)
  BY <1>0, CardIsTurnover
<1>5. /\ RevenueOf(CompletedOrders(Existing))
           = SumOver([cl \in DOMAIN top |-> top[cl].total_amount], DOMAIN top)
               + RevenueOf(CompletedOrders({o \in Orders : client[o] = WalkIn}))
      /\ RevenueOf(CompletedOrders({o \in Orders : client[o] = WalkIn})) \in Nat
      /\ SumOver([cl \in DOMAIN top |-> top[cl].total_amount], DOMAIN top) \in Nat
  BY TopIsTurnover
<1>6. \A W \in SUBSET Existing : WindowReportsAgree(W)
  BY <1>0, WindowAgrees
<1>7. RevenueOf(CompletedOrders(Existing)) \in Nat
  BY <1>5
<1>8. all.total_amount = -balance[Revenue]
  BY <1>1, <1>2, <1>7
<1>9. SumOver([cl \in DOMAIN top |-> top[cl].total_amount], DOMAIN top)
        = -balance[Revenue] - RevenueOf(CompletedOrders({o \in Orders : client[o] = WalkIn}))
  BY <1>2, <1>5, <1>7
<1> QED
  BY <1>1, <1>3, <1>4, <1>6, <1>8, <1>9 DEF TurnoverMatchesLedger

\* The turnover that the order tables report, by method and by client, over
\* the whole history, is the turnover that the money ledger has, and in every
\* window the reports agree, whatever was corrected, verified or rejected.
THEOREM TurnoverHolds == Spec => []TurnoverMatchesLedger
<1>1. OrderInv /\ PaymentInv /\ RowsMatchOrders /\ PaidInv /\ CourierOnTheWay
        => TurnoverMatchesLedger
  BY TurnoverIsLedger
<1> QED
  BY <1>1, OrderInvariance, PaymentInvariance, RowsInvariance, PaidInvariance, CourierAlways, PTL

-----------------------------------------------------------------------------
(* The fleet: what a courier's card shows, against the orders he delivered.  *)

\* The orders of S that courier k delivered.
DoneOf(S, k) == {o \in S : status[o] = "DELIVERED" /\ courier[o] = k}

\* The cash rows to a courier are those of the cash orders he delivered.
LEMMA CashIsCollected ==
  ASSUME OrderInv, PaymentInv, RowsMatchOrders, PaidInv, \A t \in txns : RowIs(t),
         NEW k \in Couriers, NEW T, T \subseteq Existing
  PROVE  collected_map(k, T) = SumOver(total, {o \in DoneOf(T, k) : pay[o] = "CASH"})
<1> DEFINE rows == {t \in Completed(txns) : t.to = k /\ t.order \in T}
           Z == {o \in DoneOf(T, k) : pay[o] = "CASH"}
           g == [t \in rows |-> t.amount]
<1>0. TypeOK /\ T \subseteq Orders
  BY DEF OrderInv, Existing
<1>1. k \notin Clients /\ k # Card /\ k # Cash
  BY DistinctAccounts
<1>2. ASSUME NEW t \in rows PROVE t.kind = "payment" /\ t.order \in Z
  <2>1. t \in txns /\ t.to = k /\ t.order \in T
    BY DEF Completed
  <2>2. RowIs(t)
    BY <2>1
  <2>3. t.kind = "payment"
    BY <1>1, <2>1, <2>2 DEF RowIs
  <2>4. pay[t.order] = "CASH" /\ t.to = CashTo(t.order)
    BY <1>1, <2>1, <2>3 DEF PaidInv, RowPays
  <2>5. status[t.order] = "DELIVERED" /\ courier[t.order] = k
    BY <1>1, <2>1, <2>4 DEF CashTo
  <2> QED
    BY <2>1, <2>3, <2>4, <2>5 DEF DoneOf
<1>3. ASSUME NEW o \in Z PROVE \E t \in rows : t.order = o
  <2>1. /\ o \in T /\ o \in Orders /\ status[o] = "DELIVERED" /\ courier[o] = k /\ pay[o] = "CASH"
    BY <1>0 DEF DoneOf
  <2>2. PICK t \in txns : t.order = o /\ t.kind = "payment"
    BY <2>1 DEF PaidInv, Settled
  <2>3. t.status = "COMPLETED" /\ t.to = k
    BY <2>1, <2>2 DEF PaidInv, RowPays, CashTo
  <2> QED
    BY <2>1, <2>2, <2>3 DEF Completed
<1>4. rows \subseteq txns
  BY DEF Completed
<1>5. collected_map(k, T) = SumOver(g, rows)
  BY DEF collected_map
<1>6. \A t \in rows : AmountOf(txns)[t] = g[t]
  BY DEF AmountOf, Completed
<1> HIDE DEF rows, Z, g
<1>7. SumOver(AmountOf(txns), rows) = SumOver(g, rows)
  BY <1>6, SumSame
<1>8. SumOver(AmountOf(txns), rows) = SumOver(total, Z)
  <2>1. \A o : o \in Z <=> \E t \in rows : t.order = o
    BY <1>2, <1>3
  <2>2. \A t \in rows : t.kind = "payment"
    BY <1>2
  <2> QED
    BY <1>0, <1>4, <2>1, <2>2, RowsToOrders
<1> QED
  BY <1>5, <1>7, <1>8 DEF Z

\* The pieces of the documents to a vehicle are the containers of the orders
\* its courier delivered.
LEMMA TaraIsDelivered ==
  ASSUME TypeOK, ReturnsInv, NEW k \in Couriers, NEW T, T \subseteq Existing
  PROVE  tara_map(k, T) = SumOver([o \in Orders |-> Pieces(ReturnableItems(items[o]))], DoneOf(T, k))
<1> DEFINE f == [n \in DOMAIN returns |-> Pieces(returns[n].lines)]
           g == [o \in Orders |-> Pieces(ReturnableItems(items[o]))]
           S == {n \in DOMAIN returns : returns[n].to = k /\ returns[n].order \in T}
           Z == {o \in DoneOf(T, k) : HasContainers(o)}
           h == [n \in S |-> returns[n].order]
<1>1. tara_map(k, T) = SumOver(f, S)
  BY DEF tara_map
<1>2. T \subseteq Orders
  BY DEF Existing
<1>3. ASSUME NEW n \in S
      PROVE  /\ returns[n].order \in Z /\ f[n] = g[returns[n].order] /\ f[n] \in Nat
  <2>1. DocumentHolds(n)
    BY DEF ReturnsInv
  <2>2. returns[n].lines \in Lines
    <3>1. returns \in Seq(ReturnRows)
      BY DEF TypeOK
    <3>2. returns[n] \in ReturnRows
      BY <3>1
    <3> QED
      BY <3>2 DEF ReturnRows
  <2>3. Pieces(returns[n].lines) \in Nat
    BY <2>2, StockAssumption, SumNat DEF Pieces, Lines, IsSummable
  <2> QED
    BY <2>1, <2>3 DEF DocumentHolds, DoneOf
<1>4. ASSUME NEW o \in Z PROVE \E n \in S : returns[n].order = o
  <2>1. o \in T /\ o \in Orders /\ status[o] = "DELIVERED" /\ courier[o] = k /\ HasContainers(o)
    BY <1>2 DEF DoneOf
  <2>2. PICK n \in DOMAIN returns : returns[n].order = o
    BY <2>1 DEF ReturnsInv
  <2>3. returns[n].to = k
    BY <2>1, <2>2 DEF ReturnsInv, DocumentHolds
  <2> QED
    BY <2>1, <2>2, <2>3
<1>5. \A m, n \in S : returns[m].order = returns[n].order => m = n
  BY DEF ReturnsInv
<1>6. IsFiniteSet(S)
  <2>1. DOMAIN returns = 1..Len(returns) /\ Len(returns) \in Nat
    BY DEF TypeOK
  <2>2. IsFiniteSet(DOMAIN returns)
    BY <2>1, FS_Interval
  <2> QED
    BY <2>2, FS_Subset
<1>7. (\A o \in Z : g[o] = g[o]) /\ (\A o \in DoneOf(T, k) \ Z : g[o] = 0)
  <2> SUFFICES ASSUME NEW o \in DoneOf(T, k), ReturnableItems(items[o]) = NoLines PROVE g[o] = 0
    BY DEF HasContainers
  <2>1. \A p \in Products : NoLines[p] = 0
    BY DEF NoLines
  <2>2. SumOver(NoLines, Products) = SumOver(NoLines, {})
    BY <2>1, SumPart, {} \subseteq Products, \A p \in Products \ {} : NoLines[p] = 0
  <2>3. Pieces(NoLines) = 0
    BY <2>2, SumEmpty DEF Pieces
  <2>4. o \in Orders
    BY <1>2 DEF DoneOf
  <2> QED
    BY <2>3, <2>4
<1>8. h \in [S -> Z] /\ \A n \in S : h[n] = returns[n].order
  BY <1>3
<1>9. Z \subseteq DoneOf(T, k)
  OBVIOUS
<1> HIDE DEF f, g, S, Z, h
<1>10. IsSummable(f, S)
  BY <1>3, <1>6 DEF IsSummable
<1>11. \A m, n \in S : h[m] = h[n] => m = n
  BY <1>5, <1>8
<1>12. \A o \in Z : \E n \in S : h[n] = o
  BY <1>4, <1>8
<1>13. \A n \in S : g[h[n]] = f[n]
  BY <1>3, <1>8
<1>14. SumOver(f, S) = SumOver(g, Z)
  BY <1>8, <1>10, <1>11, <1>12, <1>13, SumReindex
<1>15. SumOver(g, DoneOf(T, k)) = SumOver(g, Z)
  BY <1>7, <1>9, SumPart
<1> QED
  BY <1>1, <1>14, <1>15 DEF g

Shown(k, p) == IF p \in DOMAIN vehicle_stock(k) THEN vehicle_stock(k)[p] ELSE 0

\* What a card shows of a vehicle: no product is short, so nothing is left out.
LEMMA StockIsShown ==
  ASSUME TypeOK, VehiclesHold, NEW k \in Couriers, NEW p \in Products
  PROVE  Shown(k, p)
           = InitStock[k][p] - SumOver([o \in Orders |-> items[o][p]], DoneOf(Existing, k))
<1> DEFINE Mine == DoneOf(Existing, k)
           f == [o \in Orders |-> items[o][p]]
           s == [o \in Orders |-> HandsOver(o, k, p)]
<1>1. /\ stock[k][p] >= 0 /\ stock[k][p] = InitStock[k][p] - HandedOver(k, p)
      /\ stock[k][p] \in Int
  BY AccountFacts DEF VehiclesHold, TypeOK
<1>2. Shown(k, p) = stock[k][p]
  BY <1>1 DEF Shown, vehicle_stock
<1>3. Mine \subseteq Orders
  BY DEF DoneOf, Existing
<1>4. (\A o \in Mine : s[o] = f[o]) /\ (\A o \in Orders \ Mine : s[o] = 0)
  BY DEF HandsOver, DoneOf, Existing, Exists
<1>5. HandedOver(k, p) = SumOver(s, Orders)
  BY DEF HandedOver
<1> HIDE DEF Mine, f, s
<1>6. SumOver(s, Orders) = SumOver(f, Mine)
  BY <1>3, <1>4, SumPart
<1> QED
  BY <1>1, <1>2, <1>5, <1>6 DEF f, Mine

\* The load report counts the same deliveries as the cards and the funnel.
LoadShown(T, k) ==
  LET load == get_courier_load(T, [o \in Orders |-> 1])
  IN  orders_map(k, T).delivered
        = IF <<1, k>> \in DOMAIN load.data THEN load.data[<<1, k>>] ELSE 0

\* Every delivery has a courier, so the load report misses none.
LEMMA LoadIsDeliveries ==
  ASSUME TypeOK, CourierOnTheWay, NEW T, T \subseteq Existing
  PROVE  /\ \A k \in Couriers : LoadShown(T, k)
         /\ get_courier_load(T, [o \in Orders |-> 1]).total_deliveries
              = get_order_funnel(T).statuses["DELIVERED"]
<1> DEFINE day == [o \in Orders |-> 1]
           rows == {o \in T : status[o] = "DELIVERED" /\ courier[o] # None}
           K == {<<day[o], courier[o]>> : o \in rows}
           data == [x \in K |-> Cardinality({o \in rows : <<day[o], courier[o]>> = x})]
           key == [o \in Orders |-> <<day[o], courier[o]>>]
<1>1. rows = {o \in T : status[o] = "DELIVERED"} /\ rows \subseteq Orders
  BY DEF Existing, CourierOnTheWay
<1>2. /\ get_courier_load(T, day).data = data
      /\ get_courier_load(T, day).total_deliveries = SumOver(data, DOMAIN data)
  BY Zenon DEF get_courier_load
<1>3. /\ \A o \in rows : key[o] \in K
      /\ \A x \in K : data[x] = Cardinality({o \in rows : key[o] = x})
      /\ DOMAIN data = K
  BY <1>1
<1>4. \A k \in Couriers : {o \in rows : key[o] = <<1, k>>} = DoneOf(T, k)
  BY <1>1 DEF DoneOf
<1>5. K = {key[o] : o \in rows}
  BY <1>1
<1> HIDE DEF K, data, rows, key
<1>6. IsFiniteSet(rows) /\ IsFiniteSet(K)
  <2>1. IsFiniteSet(rows)
    BY <1>1, SomeOrders
  <2>2. IsFiniteSet({key[o] : o \in rows})
    BY <2>1, FiniteImage
  <2> QED
    BY <1>5, <2>1, <2>2
<1>7. Counted(rows, key, K, data)
  BY <1>3 DEF Counted
<1>8. SumOver(data, K) = Cardinality(rows)
  BY <1>6, <1>7, CountsAddUp
<1>9. get_order_funnel(T).statuses["DELIVERED"] = Cardinality(rows)
  BY <1>1, FunnelTotals DEF FunnelIs, Statuses
<1>10. ASSUME NEW k \in Couriers PROVE LoadShown(T, k)
  <2>1. orders_map(k, T).delivered = Cardinality(DoneOf(T, k))
    <3>1. {o \in {x \in T : courier[x] = k /\ status[x] # "CANCELLED"} : status[o] = "DELIVERED"}
            = DoneOf(T, k)
      BY DEF DoneOf
    <3> QED
      BY <3>1 DEF orders_map
  <2>2. CASE <<1, k>> \in K
    BY <1>2, <1>3, <1>4, <2>1, <2>2 DEF LoadShown
  <2>3. CASE <<1, k>> \notin K
    <3>1. DoneOf(T, k) = {}
      BY <1>3, <1>4, <2>3
    <3>2. Cardinality(DoneOf(T, k)) = 0
      BY <3>1, FS_EmptySet
    <3> QED
      BY <1>2, <1>3, <2>1, <2>3, <3>2 DEF LoadShown
  <2> QED
    BY <2>2, <2>3
<1> QED
  BY <1>1, <1>2, <1>3, <1>8, <1>9, <1>10

\* What the fleet report says of every courier, for any window.
LEMMA FleetIsLedger ==
  ASSUME OrderInv, PaymentInv, RowsMatchOrders, PaidInv, CourierOnTheWay, VehiclesHold, ReturnsInv
  PROVE  FleetMatchesDeliveries
<1>0. TypeOK /\ \A t \in txns : RowIs(t)
  BY RowsAre DEF OrderInv
<1> SUFFICES ASSUME NEW T \in SUBSET Existing
    PROVE LET fleet  == get_fleet(T, T)
              load   == get_courier_load(T, [o \in Orders |-> 1])
              funnel == get_order_funnel(T)
              done(S, k) == {o \in S : status[o] = "DELIVERED" /\ courier[o] = k}
              on(k, p) == LET b == fleet.couriers[k].balances
                          IN  IF p \in DOMAIN b THEN b[p] ELSE 0
          IN  /\ load.total_deliveries = funnel.statuses["DELIVERED"]
              /\ \A k \in Couriers :
                   LET card == fleet.couriers[k]
                   IN  /\ card.cash_collected = SumOver(total, {o \in done(T, k) : pay[o] = "CASH"})
                       /\ card.containers_collected
                            = SumOver([o \in Orders |-> Pieces(ReturnableItems(items[o]))], done(T, k))
                       /\ card.orders.delivered
                            = IF <<1, k>> \in DOMAIN load.data THEN load.data[<<1, k>>] ELSE 0
                       /\ \A p \in Products :
                            on(k, p) = InitStock[k][p]
                              - SumOver([o \in Orders |-> items[o][p]], done(Existing, k))
  BY Zenon DEF FleetMatchesDeliveries
<1> DEFINE fleet == get_fleet(T, T)
           load  == get_courier_load(T, [o \in Orders |-> 1])
           card(k) == fleet.couriers[k]
<1>1. ASSUME NEW k \in Couriers
      PROVE  /\ card(k).balances = vehicle_stock(k) /\ card(k).orders = orders_map(k, T)
             /\ card(k).cash_collected = collected_map(k, T)
             /\ card(k).containers_collected = tara_map(k, T)
  <2>1. card(k) = [balances |-> vehicle_stock(k), orders |-> orders_map(k, T),
                   cash_balance |-> balance[k], cash_collected |-> collected_map(k, T),
                   containers_collected |-> tara_map(k, T)]
    BY Zenon DEF get_fleet
  <2> HIDE DEF fleet
  <2> QED
    BY <2>1
<1> HIDE DEF fleet
<1>2. load.total_deliveries = get_order_funnel(T).statuses["DELIVERED"]
  BY <1>0, LoadIsDeliveries
<1>3. ASSUME NEW k \in Couriers
      PROVE  /\ card(k).cash_collected = SumOver(total, {o \in DoneOf(T, k) : pay[o] = "CASH"})
             /\ card(k).containers_collected
                  = SumOver([o \in Orders |-> Pieces(ReturnableItems(items[o]))], DoneOf(T, k))
             /\ card(k).orders.delivered
                  = IF <<1, k>> \in DOMAIN load.data THEN load.data[<<1, k>>] ELSE 0
  <2>1. LoadShown(T, k)
    BY <1>0, LoadIsDeliveries
  <2> QED
    BY <1>0, <1>1, <2>1, CashIsCollected, TaraIsDelivered DEF LoadShown
<1>4. ASSUME NEW k \in Couriers, NEW p \in Products
      PROVE  (IF p \in DOMAIN card(k).balances THEN card(k).balances[p] ELSE 0)
               = InitStock[k][p] - SumOver([o \in Orders |-> items[o][p]], DoneOf(Existing, k))
  <2>1. card(k).balances = vehicle_stock(k)
    BY <1>1
  <2> QED
    BY <1>0, <2>1, StockIsShown DEF Shown
<1> HIDE DEF load
<1> QED
  BY <1>2, <1>3, <1>4, Zenon DEF DoneOf, fleet, load

\* get_fleet and get_courier_load, for every fleet, history and window: the
\* cash and the return documents of the orders of a window are those of the
\* orders the courier delivered, as the order table has them after every
\* correction and reassignment, and his vehicle holds what it was loaded with
\* less what he delivered, never less than nothing.
THEOREM FleetHolds == Spec => []FleetMatchesDeliveries
<1>1. OrderInv /\ PaymentInv /\ RowsMatchOrders /\ PaidInv /\ CourierOnTheWay /\ VehiclesHold
        /\ ReturnsInv => FleetMatchesDeliveries
  BY FleetIsLedger
<1> QED
  BY <1>1, OrderInvariance, PaymentInvariance, RowsInvariance, PaidInvariance, CourierAlways,
     VehiclesInvariance, ReturnsInvariance, PTL
=============================================================================

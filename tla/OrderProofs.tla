----------------------------- MODULE OrderProofs -----------------------------
(***************************************************************************)
(* Theorems about OrderSystem, for every set of orders, contracts, clients *)
(* and products that satisfies the assumptions of the modules: types,      *)
(* action by action, and the safety of orders.  Every step does one of six *)
(* things to the order table and the settlement rows (OrderStep); the      *)
(* invariants are proved for the six instead of for the 33 actions.        *)
(***************************************************************************)
EXTENDS OrderSystem, SumTheorems

Balances == [Inventories -> [Products -> Int]]

-----------------------------------------------------------------------------
(* What the helpers return *)

\* An empty document is a document.
LEMMA NoLinesType == NoLines \in Lines
BY DEF NoLines, Lines

\* Two documents add up to one.
LEMMA PlusType ==
  ASSUME NEW a \in Lines, NEW b \in Lines
  PROVE  Plus(a, b) \in Lines
BY DEF Plus, Lines

\* GREATEST(n - d, 0) is a natural number.
LEMMA DecreasedType ==
  ASSUME NEW n \in Nat, NEW d \in Int
  PROVE  Decreased(n, d) \in Nat
BY DEF Decreased

\* A price times a quantity is a natural number.
LEMMA ProductNat ==
  ASSUME NEW a \in Nat, NEW b \in Nat
  PROVE  a * b \in Nat
OBVIOUS

\* The sum of an order is a natural number.
LEMMA LineTotalType ==
  ASSUME NEW lines \in Lines, NEW prices \in Lines
  PROVE  LineTotal(lines, prices) \in Nat
<1> DEFINE f == [p \in Products |-> lines[p] * prices[p]]
<1>1. \A p \in Products : f[p] \in Nat
  BY DEF Lines
<1>2. IsSummable(f, Products)
  BY <1>1, StockAssumption DEF IsSummable
<1> QED
  BY <1>2, SumNat DEF LineTotal

\* The containers paired with a cart form a document.
LEMMA ReturnableItemsType ==
  ASSUME NEW lines \in Lines
  PROVE  ReturnableItems(lines) \in Lines
<1> SUFFICES ASSUME NEW t \in Products
             PROVE  SumOver(lines, {p \in Products : Returnable[p] = t}) \in Nat
  BY DEF ReturnableItems, Lines
<1>1. IsFiniteSet({p \in Products : Returnable[p] = t})
  BY FS_Subset, StockAssumption
<1> QED
  BY <1>1, SumNat DEF IsSummable, Lines

\* A stock movement keeps balances integers.
LEMMA MoveType ==
  ASSUME NEW bal \in Balances, NEW lines \in Lines, NEW i, NEW j
  PROVE  Move(bal, i, j, lines) \in Balances
BY DEF Move, Balances, Lines

\* What a client lacks is a document.
LEMMA ShortageType ==
  ASSUME NEW cart \in Lines, stock \in Balances, NEW cl \in Inventories
  PROVE  Shortage(cl, cart) \in Lines
<1> SUFFICES ASSUME NEW p \in Products, Returnable[p] # NoProduct
             PROVE  Decreased(cart[p], stock[cl][Returnable[p]] + cart[Returnable[p]]) \in Nat
  BY DEF Shortage, Lines
<1>1. Returnable[p] \in Products
  BY StockAssumption
<1>2. stock[cl][Returnable[p]] + cart[Returnable[p]] \in Int
  BY <1>1 DEF Balances, Lines
<1> QED
  BY <1>2, DecreasedType DEF Lines

\* Capitalising the lacking containers keeps balances integers.
LEMMA CapitalizedType ==
  ASSUME NEW cart \in Lines, stock \in Balances, NEW cl \in Inventories
  PROVE  Capitalized(cl, cart) \in Balances
BY ShortageType, ReturnableItemsType, MoveType DEF Capitalized

\* A delivery with its return keeps balances integers.
LEMMA DeliveryStockType ==
  ASSUME NEW lines \in Lines, stock \in Balances, NEW k, NEW cl
  PROVE  DeliveryStock(k, cl, lines) \in Balances
<1>1. ReturnableItems(lines) \in Lines /\ DeliveryLines(lines) \in Lines
  BY ReturnableItemsType, PlusType DEF DeliveryLines
<1> QED
  BY <1>1, MoveType DEF DeliveryStock

\* A pickup with its return keeps balances integers.
LEMMA PickupStockType ==
  ASSUME NEW lines \in Lines, NEW bal \in Balances, NEW cl
  PROVE  PickupStock(bal, cl, lines) \in Balances
<1>1. ReturnableItems(lines) \in Lines
  BY ReturnableItemsType
<1>2. PickupReturn(cl, lines) \in Lines
  BY <1>1 DEF PickupReturn, Lines
<1>3. PickupIssued(cl, lines) \in Lines
  BY <1>1, <1>2, PlusType DEF PickupIssued
<1>4. PickupSupplied(bal, cl, lines) \in Balances
  BY <1>1, MoveType DEF PickupSupplied
<1>5. PickupSold(bal, cl, lines) \in Balances
  BY <1>3, <1>4, MoveType DEF PickupSold
<1> QED
  BY <1>2, <1>5, MoveType DEF PickupStock

\* The trigger keeps account balances integers.
LEMMA PostedType ==
  ASSUME NEW bal \in [Accounts -> Int], NEW rows, rows \subseteq TxnRows, IsFiniteSet(rows)
  PROVE  Posted(bal, rows) \in [Accounts -> Int]
<1>1. ASSUME NEW P, P \subseteq rows
      PROVE  SumOver(AmountOf(rows), P) \in Nat
  <2>1. IsFiniteSet(P)
    BY <1>1, FS_Subset
  <2>2. \A t \in P : AmountOf(rows)[t] \in Nat
    BY <1>1 DEF AmountOf, TxnRows
  <2> QED
    BY <2>1, <2>2, SumNat DEF IsSummable
<1>2. \A a \in Accounts : AmountIn(rows, a) \in Nat /\ AmountOut(rows, a) \in Nat
  BY <1>1 DEF AmountIn, AmountOut, Completed
<1> QED
  BY <1>2 DEF Posted

\* Clients, couriers and the system accounts are accounts.
LEMMA AccountFacts ==
  /\ Clients \subseteq Accounts /\ Couriers \subseteq Accounts
  /\ Revenue \in Accounts /\ Cash \in Accounts /\ Card \in Accounts
  /\ Clients \subseteq Inventories /\ Couriers \subseteq Inventories
BY OrdersAssumption

\* Settlement inserts a debt row and at most one payment row.
LEMMA SettlementRowsType ==
  ASSUME NEW o \in Orders, NEW cl \in Clients, NEW m, NEW cashTo \in Accounts,
         NEW amount \in Nat
  PROVE  /\ SettlementRows(o, cl, m, cashTo, amount) \subseteq TxnRows
         /\ IsFiniteSet(SettlementRows(o, cl, m, cashTo, amount))
<1> DEFINE debt == Txn(o, "debt", Revenue, cl, amount, "COMPLETED")
           cash == Txn(o, "payment", cl, cashTo, amount, "COMPLETED")
           card == Txn(o, "payment", cl, Card, amount, "PENDING")
<1>1. debt \in TxnRows /\ cash \in TxnRows /\ card \in TxnRows
  BY AccountFacts DEF Txn, TxnRows, TxnStatuses
<1>2. IsFiniteSet({debt}) /\ IsFiniteSet({cash}) /\ IsFiniteSet({card}) /\ IsFiniteSet({})
  BY FS_Singleton, FS_EmptySet
<1>3. /\ IsFiniteSet({debt} \union {cash})
      /\ IsFiniteSet({debt} \union {card})
      /\ IsFiniteSet({debt} \union {})
  BY <1>2, FS_Union
<1> QED
  BY <1>1, <1>3, Zenon DEF SettlementRows

\* Settling keeps the ledger's types.
LEMMA SettleType ==
  ASSUME TypeOK, NEW rows, rows \subseteq TxnRows, IsFiniteSet(rows), Settle(rows)
  PROVE  balance' \in [Accounts -> Int] /\ txns' \subseteq TxnRows
BY PostedType DEF Settle, TypeOK

\* The quota counters after giving back what the orders of H hold.
LEMMA QuotaOfType ==
  ASSUME TypeOK, NEW H, H \subseteq Orders, NEW c
  PROVE  QuotaOf(H, c) \in Lines
<1> SUFFICES ASSUME NEW p \in Products
             PROVE  SumOver([o \in Orders |-> items[o][p]], {o \in H : contract[o] = c}) \in Nat
  BY DEF QuotaOf, Lines
<1>1. IsFiniteSet({o \in H : contract[o] = c})
  BY FS_Subset, OrdersAssumption, {o \in H : contract[o] = c} \subseteq Orders
<1>2. \A o \in Orders : items[o][p] \in Nat
  BY DEF TypeOK, Lines
<1> QED
  BY <1>1, <1>2, SumNat DEF IsSummable

\* Every cart is a document.
LEMMA CartsType == Carts \subseteq Lines
BY OrdersAssumption DEF Carts, Lines

-----------------------------------------------------------------------------
(* Types *)

\* The initial tables have their types.
LEMMA InitTypes == Init => TypeOK
<1> SUFFICES ASSUME Init PROVE TypeOK
  OBVIOUS
<1>1. stock \in [Inventories -> [Products -> Int]]
  BY OrdersAssumption DEF Init, NoLines
<1> QED
  BY <1>1, OrdersAssumption, NoLinesType
  DEF Init, TypeOK, Lines, Edits

\* An order is inserted.
LEMMA InsertOrderTypes ==
  ASSUME TypeOK, NEW o \in Orders, NEW cl \in Clients,
         NEW m \in {"CASH", "CARD", "CONTRACT"}, NEW c \in Contracts \union {None},
         NEW cart \in Lines, NEW prices \in Lines, NEW s \in {"NEW", "PICKUP_COMPLETED"},
         InsertOrder(o, cl, m, c, cart, prices, s),
         used' \in [Contracts -> Lines], stock' \in Balances,
         balance' \in [Accounts -> Int], txns' \subseteq TxnRows, returns' = returns
  PROVE  TypeOK'
<1>1. LineTotal(cart, prices) \in Nat
  BY LineTotalType
<1> QED
  BY <1>1 DEF InsertOrder, TypeOK, contractVars, priceVars, Statuses, Balances

\* Orders are cancelled in bulk.
LEMMA CancelAllTypes ==
  ASSUME TypeOK, NEW S, NEW H, S \subseteq Orders, H \subseteq Orders, CancelAll(S, H),
         con' \in [Contracts -> ContractStatuses \union {"ABSENT"}],
         ended' = ended, scan' \in SUBSET Contracts,
         UNCHANGED <<hold, cancelling, priceVars, ledgerVars>>
  PROVE  TypeOK'
<1>1. \A c \in Contracts : QuotaOf(H, c) \in Lines
  BY QuotaOfType
<1>2. used' \in [Contracts -> Lines]
  BY <1>1, DecreasedType DEF CancelAll, TypeOK, Lines
<1> QED
  BY <1>2 DEF CancelAll, TypeOK, Statuses, priceVars, ledgerVars

\* Reserving keeps the counters natural numbers.
LEMMA IncrementType ==
  ASSUME TypeOK, NEW c \in Contracts, NEW lines \in Lines
  PROVE  Increment(c, lines) \in [Contracts -> Lines]
BY PlusType DEF Increment, TypeOK

\* Releasing keeps the counters natural numbers.
LEMMA DecrementType ==
  ASSUME TypeOK, NEW c \in Contracts, NEW lines \in Lines
  PROVE  Decrement(c, lines) \in [Contracts -> Lines]
<1>1. ASSUME NEW p \in Products PROVE Decreased(used[c][p], lines[p]) \in Nat
  BY DEF TypeOK, Lines, Decreased
<1>2. [p \in Products |-> Decreased(used[c][p], lines[p])] \in Lines
  BY <1>1 DEF Lines
<1> QED
  BY <1>2 DEF Decrement, TypeOK

\* A document with a single line is a document.
LEMMA OneLineType ==
  ASSUME NEW p \in Products, NEW n \in Nat
  PROVE  [NoLines EXCEPT ![p] = n] \in Lines
BY DEF NoLines, Lines

\* An initial balance is a document.
LEMMA InitialType ==
  ASSUME NEW initial \in InitialBalances
  PROVE  initial \in Lines
<1>1. CASE initial = NoLines
  BY <1>1, NoLinesType
<1>2. CASE initial # NoLines
  <2>1. PICK t \in Products : initial \in {[NoLines EXCEPT ![t] = n] : n \in 0..MaxQty[t]}
    <3>1. initial \in UNION {{[NoLines EXCEPT ![t] = n] : n \in 0..MaxQty[t]} :
                               t \in {u \in Products : \E p \in Products : Returnable[p] = u}}
      BY <1>2 DEF InitialBalances
    <3> QED
      BY <3>1, Zenon
  <2>2. MaxQty[t] \in Nat
    BY OrdersAssumption
  <2> QED
    BY <2>1, <2>2, OneLineType
<1> QED
  BY <1>1, <1>2

\* A price edit under way: what it is about and what it will write.
LEMMA EditType ==
  ASSUME NEW e \in Edits
  PROVE  /\ e.c \in Contracts /\ e.p \in Products
         /\ e.kind \in {"insert", "update", "delete"}
         /\ e.price \in Nat /\ e.quantity \in Nat
<1>1. PICK c \in Contracts, p \in Products :
        \/ \E kind \in {"insert", "update"}, terms \in Terms[c] : e = Edit(kind, c, p, terms)
        \/ e = Edit("delete", c, p, <<0, 0>>)
  BY DEF Edits
<1>2. CASE e = Edit("delete", c, p, <<0, 0>>)
  BY <1>2 DEF Edit
<1>3. ASSUME NEW kind \in {"insert", "update"}, NEW terms \in Terms[c],
             e = Edit(kind, c, p, terms)
      PROVE  /\ e.c \in Contracts /\ e.p \in Products
             /\ e.kind \in {"insert", "update", "delete"}
             /\ e.price \in Nat /\ e.quantity \in Nat
  <2>1. terms \in Nat \X Nat
    BY <1>3, ContractsAssumption
  <2> QED
    BY <1>3, <2>1 DEF Edit
<1> QED
  BY <1>1, <1>2, <1>3

\* A delivery writes at most one more return document.
LEMMA ReturnedType ==
  ASSUME TypeOK, NEW k \in Couriers, NEW o \in Orders, NEW lines \in Lines
  PROVE  ReturnedTo(k, o, lines) \in Seq(ReturnRows)
<1>1. [order |-> o, to |-> k, lines |-> ReturnableItems(lines)] \in ReturnRows
  BY ReturnableItemsType DEF ReturnRows
<1> QED
  BY <1>1 DEF ReturnedTo, TypeOK

\* Every step of the system keeps the types.
LEMMA NextTypes ==
  ASSUME TypeOK, OrdersWellFormed, Next
  PROVE  TypeOK'
<1> USE DEF Balances
<1>1. ASSUME NEW o \in Orders, NEW cl \in Clients, NEW cart \in Carts, NEW cap \in BOOLEAN,
             NEW m \in Methods, create_order(o, cl, m, cart, cap)
      PROVE  TypeOK'
  <2>1. Capitalized(cl, cart) \in Balances
    BY CartsType, CapitalizedType, AccountFacts DEF TypeOK
  <2>2. /\ InsertOrder(o, cl, m, None, cart, CatalogPrice, "NEW")
        /\ m \in {"CASH", "CARD", "CONTRACT"} /\ CatalogPrice \in Lines
    BY <1>1, OrdersAssumption DEF create_order, Lines
  <2>3. /\ used' \in [Contracts -> Lines] /\ stock' \in Balances
        /\ balance' \in [Accounts -> Int] /\ txns' \subseteq TxnRows /\ returns' = returns
    BY <1>1, <2>1 DEF create_order, TypeOK
  <2> QED
    BY <2>2, <2>3, InsertOrderTypes, CartsType
<1>2. ASSUME NEW o \in Orders, NEW cl \in Clients, NEW cart \in Carts, NEW cap \in BOOLEAN,
             NEW c \in Contracts, create_contract_order(o, cl, c, cart, cap)
      PROVE  TypeOK'
  <2>1. Capitalized(cl, cart) \in Balances
    BY CartsType, CapitalizedType, AccountFacts DEF TypeOK
  <2>2. Increment(c, cart) \in [Contracts -> Lines]
    BY CartsType, IncrementType
  <2>3. price[c] \in Lines
    BY DEF TypeOK
  <2> QED
    BY <1>2, <2>1, <2>2, <2>3, InsertOrderTypes, CartsType
    DEF create_contract_order, TypeOK
<1>3. ASSUME NEW o \in Orders, NEW cl \in Clients, NEW cart \in Carts, NEW cap \in BOOLEAN,
             create_warehouse_sale(o, cl, cart, cap)
      PROVE  TypeOK'
  <2> DEFINE bal == IF cl = WalkIn THEN stock ELSE Capitalized(cl, cart)
             rows == SettlementRows(o, cl, "CASH", Cash, LineTotal(cart, CatalogPrice))
  <2>1. bal \in Balances
    BY CartsType, CapitalizedType, AccountFacts DEF TypeOK
  <2>2. stock' \in Balances
    BY <1>3, <2>1, CartsType, PickupStockType DEF create_warehouse_sale
  <2>3. CatalogPrice \in Lines
    BY OrdersAssumption DEF Lines
  <2>4. rows \subseteq TxnRows /\ IsFiniteSet(rows)
    BY <2>3, CartsType, LineTotalType, SettlementRowsType, AccountFacts
  <2>5. balance' \in [Accounts -> Int] /\ txns' \subseteq TxnRows
    BY <1>3, <2>4, SettleType DEF create_warehouse_sale
  <2>6. InsertOrder(o, cl, "CASH", None, cart, CatalogPrice, "PICKUP_COMPLETED")
    BY <1>3 DEF create_warehouse_sale
  <2>7. used' \in [Contracts -> Lines] /\ returns' = returns
    BY <1>3 DEF create_warehouse_sale, TypeOK
  <2> QED
    BY <2>2, <2>3, <2>5, <2>6, <2>7, InsertOrderTypes, CartsType
<1>4. ASSUME NEW o \in Orders, NEW cl \in Clients, NEW cart \in Carts,
             NEW m \in Methods, NEW initial \in InitialBalances,
             onboard_client_with_balance(o, cl, m, cart, initial)
      PROVE  TypeOK'
  <2>1. initial \in Lines
    BY NoLinesType, InitialType
  <2>2. Move(stock, Vendor, cl, initial) \in Balances
    BY <2>1, MoveType DEF TypeOK
  <2>3. /\ InsertOrder(o, cl, m, None, cart, CatalogPrice, "NEW")
        /\ m \in {"CASH", "CARD", "CONTRACT"} /\ CatalogPrice \in Lines
    BY <1>4, OrdersAssumption DEF onboard_client_with_balance, Lines
  <2>4. /\ used' \in [Contracts -> Lines] /\ stock' \in Balances
        /\ balance' \in [Accounts -> Int] /\ txns' \subseteq TxnRows /\ returns' = returns
    BY <1>4, <2>2 DEF onboard_client_with_balance, TypeOK
  <2> QED
    BY <2>3, <2>4, InsertOrderTypes, CartsType
<1>5. ASSUME NEW o \in Orders, LockOrder(o) PROVE TypeOK'
  BY <1>5, OrdersAssumption
  DEF LockOrder, TypeOK, orderVars, contractVars, priceVars, ledgerVars
<1>6. ASSUME NEW o \in Orders, Rollback(o) PROVE TypeOK'
  BY <1>6 DEF Rollback, Unlock, TypeOK, orderVars, contractVars, priceVars, ledgerVars
<1>7. ASSUME NEW o \in Orders, NEW p \in Products, NEW n \in 1..MaxQty[p],
             add_product_to_order(o, p, n)
      PROVE  TypeOK'
  <2> DEFINE via == pay[o] = "CONTRACT" /\ contract[o] # None
             today == IF via THEN price[contract[o]][p] ELSE CatalogPrice[p]
  <2>1. n \in Nat /\ [NoLines EXCEPT ![p] = n] \in Lines
    BY OneLineType, OrdersAssumption
  <2>2. today \in Nat
    BY OrdersAssumption DEF TypeOK, Lines
  <2>3. AmountToAdd(today, n) \in Nat
    BY <2>1, <2>2, ProductNat DEF AmountToAdd
  <2>4. used' \in [Contracts -> Lines] /\ reserved' \in [Orders -> BOOLEAN]
    <3>1. CASE via
      <4>1. contract[o] \in Contracts
        BY <3>1 DEF TypeOK
      <4>2. used' = Increment(contract[o], [NoLines EXCEPT ![p] = n])
        BY <1>7, <3>1 DEF add_product_to_order
      <4>3. reserved' = [reserved EXCEPT ![o] = TRUE]
        BY <1>7, <3>1 DEF add_product_to_order
      <4>4. used' \in [Contracts -> Lines]
        BY <2>1, <4>1, <4>2, IncrementType
      <4> QED
        BY <4>3, <4>4 DEF TypeOK
    <3>2. CASE ~via
      BY <1>7, <3>2 DEF add_product_to_order, TypeOK
    <3> QED
      BY <3>1, <3>2
  <2>5. items' \in [Orders -> Lines]
    BY <1>7, <2>1 DEF add_product_to_order, TypeOK, Lines
  <2>6. unit_price' \in [Orders -> Lines]
    BY <1>7, <2>2 DEF add_product_to_order, TypeOK, Lines
  <2>7. total' \in [Orders -> Nat]
    BY <1>7, <2>3 DEF add_product_to_order, TypeOK
  <2> QED
    BY <1>7, <2>4, <2>5, <2>6, <2>7
    DEF add_product_to_order, TypeOK, Unlock, contractVars, priceVars, ledgerVars
<1>8. ASSUME NEW o \in Orders, NEW p \in Products, remove_product_from_order(o, p)
      PROVE  TypeOK'
  <2>1. items[o][p] \in Nat /\ unit_price[o][p] \in Nat
    BY DEF TypeOK, Lines
  <2>2. [NoLines EXCEPT ![p] = items[o][p]] \in Lines
    BY <2>1, OneLineType
  <2>3. used' \in [Contracts -> Lines]
    <3>1. CASE HoldsQuota(o)
      <4>1. contract[o] \in Contracts
        BY <3>1 DEF TypeOK, HoldsQuota
      <4> QED
        BY <1>8, <2>2, <3>1, <4>1, DecrementType DEF remove_product_from_order
    <3>2. CASE ~HoldsQuota(o)
      BY <1>8, <3>2 DEF remove_product_from_order, TypeOK
    <3> QED
      BY <3>1, <3>2
  <2>4. items' \in [Orders -> Lines]
    BY <1>8 DEF remove_product_from_order, TypeOK, Lines
  <2>5. total' \in [Orders -> Nat]
    <3>1. unit_price[o][p] * items[o][p] \in Int
      BY <2>1, ProductNat
    <3>2. Decreased(total[o], unit_price[o][p] * items[o][p]) \in Nat
      BY <3>1, DecreasedType DEF TypeOK
    <3> QED
      BY <1>8, <3>2 DEF remove_product_from_order, TypeOK
  <2> QED
    BY <1>8, <2>3, <2>4, <2>5
    DEF remove_product_from_order, TypeOK, Unlock, contractVars, priceVars, ledgerVars
<1>9. ASSUME NEW o \in Orders, NEW k \in Couriers, assign_courier(o, k) PROVE TypeOK'
  BY <1>9 DEF assign_courier, TypeOK, Statuses, Unlock, contractVars, priceVars, ledgerVars
<1>10. ASSUME NEW o \in Orders, NEW new \in Statuses, update_status(o, new) PROVE TypeOK'
  BY <1>10 DEF update_status, TypeOK, Unlock, contractVars, priceVars, ledgerVars
<1>11. ASSUME NEW o \in Orders, NEW actual \in Carts, NEW corrected \in BOOLEAN,
              deliver_order(o, actual, corrected)
       PROVE  TypeOK'
  <2> DEFINE k       == courier[o]
             missing == [p \in Products |-> items[o][p] - actual[p]]
             amount  == IF corrected THEN LineTotal(actual, unit_price[o]) ELSE total[o]
             rows    == SettlementRows(o, client[o], pay[o], k, amount)
  <2>1. actual \in Lines /\ items[o] \in Lines /\ unit_price[o] \in Lines
    BY CartsType DEF TypeOK
  <2>2. missing \in Lines
    BY <1>11, <2>1 DEF deliver_order, Lines
  <2>3. k \in Couriers /\ client[o] \in Clients
    BY <1>11 DEF deliver_order, TypeOK, OrdersWellFormed
  <2>4. amount \in Nat
    BY <2>1, LineTotalType DEF TypeOK
  <2>5. rows \subseteq TxnRows /\ IsFiniteSet(rows)
    BY <2>3, <2>4, SettlementRowsType, AccountFacts
  <2>6. balance' \in [Accounts -> Int] /\ txns' \subseteq TxnRows
    BY <1>11, <2>5, SettleType DEF deliver_order
  <2>7. stock' \in Balances
    BY <1>11, <2>1, DeliveryStockType DEF deliver_order, TypeOK
  <2>8. used' \in [Contracts -> Lines]
    <3>1. CASE pay[o] = "CONTRACT" /\ contract[o] # None /\ missing # NoLines
      <4>1. contract[o] \in Contracts
        BY <3>1 DEF TypeOK
      <4> QED
        BY <1>11, <2>2, <3>1, <4>1, DecrementType DEF deliver_order
    <3>2. CASE ~(pay[o] = "CONTRACT" /\ contract[o] # None /\ missing # NoLines)
      BY <1>11, <3>2 DEF deliver_order, TypeOK
    <3> QED
      BY <3>1, <3>2
  <2>9. /\ status' = [status EXCEPT ![o] = "DELIVERED"]
        /\ items' = [items EXCEPT ![o] = actual]
        /\ total' = [total EXCEPT ![o] = amount]
        /\ stale' = stale \ {o}
        /\ hold' = [hold EXCEPT ![o] = "free"]
        /\ UNCHANGED <<client, pay, contract, courier, unit_price, reserved, cancelling,
                       contractVars, priceVars>>
    BY <1>11 DEF deliver_order, Unlock
  <2>10. returns' \in Seq(ReturnRows)
    BY <1>11, <2>1, <2>3, ReturnedType DEF deliver_order
  <2> HIDE DEF amount, missing, k, rows
  <2> QED
    BY <2>1, <2>4, <2>6, <2>7, <2>8, <2>9, <2>10 DEF TypeOK, Statuses, contractVars, priceVars
<1>12. ASSUME NEW o \in Orders, CancelOrder(o), cancelling' \subseteq Orders PROVE TypeOK'
  <2>1. used' \in [Contracts -> Lines] /\ reserved' \in [Orders -> BOOLEAN]
    <3>1. CASE status[o] # "CANCELLED" /\ HoldsQuota(o)
      <4>1. contract[o] \in Contracts /\ items[o] \in Lines
        BY <3>1 DEF TypeOK, HoldsQuota
      <4>2. used' = Decrement(contract[o], items[o])
        BY <1>12, <3>1 DEF CancelOrder
      <4>3. reserved' = [reserved EXCEPT ![o] = FALSE]
        BY <1>12, <3>1 DEF CancelOrder
      <4>4. used' \in [Contracts -> Lines]
        BY <4>1, <4>2, DecrementType
      <4> QED
        BY <4>3, <4>4 DEF TypeOK
    <3>2. CASE ~(status[o] # "CANCELLED" /\ HoldsQuota(o))
      BY <1>12, <3>2 DEF CancelOrder, TypeOK
    <3> QED
      BY <3>1, <3>2
  <2> QED
    BY <1>12, <2>1
    DEF CancelOrder, TypeOK, Statuses, Unlock, contractVars, priceVars, ledgerVars
<1>13. ASSUME NEW o \in Orders, cancel_by_staff(o) PROVE TypeOK'
  BY <1>12, <1>13 DEF cancel_by_staff, TypeOK
<1>14. ASSUME NEW o \in Orders, cancel_order(o) PROVE TypeOK'
  BY <1>12, <1>14 DEF cancel_order, TypeOK
<1>15. ASSUME NEW o \in Orders, cancel_order_check(o) PROVE TypeOK'
  BY <1>15 DEF cancel_order_check, TypeOK, orderVars, contractVars, priceVars, ledgerVars
<1>16. ASSUME NEW o \in Orders, cancel_order_refused(o) PROVE TypeOK'
  BY <1>16 DEF cancel_order_refused, Unlock, TypeOK, orderVars, contractVars, priceVars,
               ledgerVars
<1>17. ASSUME NEW o \in Orders, Age(o) PROVE TypeOK'
  BY <1>17 DEF Age, TypeOK, orderVars, contractVars, priceVars, ledgerVars
<1>18. ASSUME expire_stale_orders PROVE TypeOK'
  <2>1. PICK S \in StaleBatches :
          /\ CancelAll(S, {o \in S : HoldsQuota(o)})
          /\ UNCHANGED <<hold, cancelling, contractVars, priceVars, ledgerVars>>
    BY <1>18 DEF expire_stale_orders
  <2>2. S \subseteq Orders
    BY DEF StaleBatches, StaleOrders, TypeOK
  <2>3. UNCHANGED <<con, ended, scan>>
    BY <2>1 DEF contractVars
  <2>4. con' \in [Contracts -> ContractStatuses \union {"ABSENT"}] /\ scan' \in SUBSET Contracts
    BY <2>3 DEF TypeOK
  <2> QED
    BY <2>1, <2>2, <2>3, <2>4, CancelAllTypes
<1>19. ASSUME NEW c \in Contracts, \/ create_contract(c) \/ activate_contract(c)
                                   \/ reinstate_contract(c) \/ EndDatePasses(c)
                                   \/ \E past \in BOOLEAN : update_contract(c, past)
       PROVE  TypeOK'
  BY <1>19 DEF create_contract, activate_contract, reinstate_contract, EndDatePasses,
     update_contract, SetContractStatus, TypeOK, ContractStatuses,
     orderVars, requestVars, priceVars, ledgerVars
<1>20. ASSUME NEW C \in SUBSET Contracts, CancelInflight(C),
              con' \in [Contracts -> ContractStatuses \union {"ABSENT"}],
              scan' \in SUBSET Contracts,
              UNCHANGED <<hold, cancelling, ended, priceVars, ledgerVars>>
       PROVE  TypeOK'
  <2> DEFINE S == UNION {Cancellable(c) : c \in C}
  <2>1. S \subseteq Orders
    BY DEF Cancellable
  <2>2. CancelAll(S, {o \in S : reserved[o]})
    BY <1>20 DEF CancelInflight
  <2> QED
    BY <1>20, <2>1, <2>2, CancelAllTypes
<1>21. ASSUME NEW c \in Contracts, suspend_contract(c) \/ terminate_contract(c) PROVE TypeOK'
  <2>1. con' \in [Contracts -> ContractStatuses \union {"ABSENT"}]
    BY <1>21 DEF suspend_contract, terminate_contract, SetContractStatus, TypeOK,
                 ContractStatuses
  <2> QED
    BY <1>20, <1>21, <2>1 DEF suspend_contract, terminate_contract, TypeOK
<1>22. ASSUME run_expire_job_scan \/ run_expire_job_aborted PROVE TypeOK'
  BY <1>22 DEF run_expire_job_scan, run_expire_job_aborted, TypeOK,
               orderVars, requestVars, priceVars, ledgerVars
<1>23. ASSUME run_expire_job PROVE TypeOK'
  <2>1. con' \in [Contracts -> ContractStatuses \union {"ABSENT"}]
    BY <1>23 DEF run_expire_job, TypeOK, ContractStatuses
  <2> QED
    BY <1>20, <1>23, <2>1 DEF run_expire_job, TypeOK
<1>24. ASSUME NEW e \in Edits, price_item_check(e) PROVE TypeOK'
  BY <1>24 DEF price_item_check, TypeOK, orderVars, requestVars, contractVars, ledgerVars
<1>25. ASSUME set_price_item PROVE TypeOK'
  <2>1. edit.c \in Contracts /\ edit.p \in Products /\ edit.price \in Nat /\ edit.quantity \in Nat
    BY <1>25, EditType DEF set_price_item, TypeOK
  <2> QED
    BY <1>25, <2>1 DEF set_price_item, TypeOK, Lines, orderVars, requestVars, contractVars,
                       ledgerVars
<1>26. ASSUME remove_price_item PROVE TypeOK'
  <2>1. edit.c \in Contracts /\ edit.p \in Products
    BY <1>26, EditType DEF remove_price_item, TypeOK
  <2> QED
    BY <1>26, <2>1 DEF remove_price_item, TypeOK, Lines, orderVars, requestVars, contractVars,
                       ledgerVars
<1>27. ASSUME price_item_aborted PROVE TypeOK'
  BY <1>27 DEF price_item_aborted, TypeOK, orderVars, requestVars, contractVars, ledgerVars
<1>28. ASSUME NEW t \in txns, verify_transaction(t) \/ reject_transaction(t) PROVE TypeOK'
  <2>1. PICK s \in {"COMPLETED", "REJECTED"} : DecideTxn(t, s)
    BY <1>28 DEF verify_transaction, reject_transaction
  <2> DEFINE d == [t EXCEPT !.status = s]
  <2>2. d \in TxnRows
    BY DEF TypeOK, TxnRows, TxnStatuses
  <2>3. IsFiniteSet({d})
    BY FS_Singleton
  <2>4. Posted(balance, {d}) \in [Accounts -> Int]
    BY <2>2, <2>3, PostedType DEF TypeOK
  <2>5. balance' \in [Accounts -> Int] /\ txns' \subseteq TxnRows
    BY <2>1, <2>2, <2>4 DEF DecideTxn, TypeOK
  <2> QED
    BY <2>1, <2>5 DEF DecideTxn, TypeOK, orderVars, requestVars, contractVars, priceVars
<1> QED
  BY <1>1, <1>2, <1>3, <1>4, <1>5, <1>6, <1>7, <1>8, <1>9, <1>10, <1>11, <1>13, <1>14,
     <1>15, <1>16, <1>17, <1>18, <1>19, <1>21, <1>22, <1>23, <1>24, <1>25, <1>26, <1>27, <1>28
  DEF Next, PlaceOrder, ChangeOrder, ChangeContract, ChangePrices, Jobs

-----------------------------------------------------------------------------
(* What a step does to orders *)


LocksKept == \A o \in Orders : hold'[o] # "free" => Exists(o)

\* An order appears: NEW, or picked up and settled at once.
Inserted(o, cl, m, c, cart, amount, s) ==
  /\ status[o] = "ABSENT" /\ LocksKept
  /\ c # None => m = "CONTRACT"
  /\ s # "NEW" => m = "CASH"
  /\ status'   = [status EXCEPT ![o] = s]
  /\ client'   = [client EXCEPT ![o] = cl]
  /\ pay'      = [pay EXCEPT ![o] = m]
  /\ contract' = [contract EXCEPT ![o] = c]
  /\ items'    = [items EXCEPT ![o] = cart]
  /\ total'    = [total EXCEPT ![o] = amount]
  /\ reserved' = [reserved EXCEPT ![o] = c # None]
  /\ IF s = "NEW" THEN txns' = txns
     ELSE txns' = txns \union SettlementRows(o, cl, "CASH", Cash, amount)

\* The lines of a NEW order change; its flag may be set if it has a contract.
Edited(o, lines, amount) ==
  /\ status[o] = "NEW" /\ LocksKept
  /\ items' = [items EXCEPT ![o] = lines]
  /\ total' = [total EXCEPT ![o] = amount]
  /\ \/ reserved' = reserved
     \/ reserved' = [reserved EXCEPT ![o] = TRUE] /\ contract[o] # None
  /\ UNCHANGED <<status, client, pay, contract, txns>>

\* An order moves along, or is given the status it has.
Moved(o, new) ==
  /\ Exists(o) /\ LocksKept
  /\ \/ new = status[o]
     \/ status[o] \notin Terminal /\ new \in {"ASSIGNED", "IN_TRANSIT", "ARRIVED"}
  /\ status' = [status EXCEPT ![o] = new]
  /\ UNCHANGED <<client, pay, contract, items, total, reserved, txns>>

\* An order is delivered and settled.
Delivered(o, lines, amount) ==
  /\ Exists(o) /\ status[o] \notin Terminal /\ LocksKept
  /\ status' = [status EXCEPT ![o] = "DELIVERED"]
  /\ items'  = [items EXCEPT ![o] = lines]
  /\ total'  = [total EXCEPT ![o] = amount]
  /\ txns'   = txns \union SettlementRows(o, client[o], pay[o], courier[o], amount)
  /\ UNCHANGED <<client, pay, contract, reserved>>

\* Orders that are not settled are cancelled and lose their flag.
CancelledSet(S) ==
  /\ \A o \in S : Exists(o) /\ status[o] \notin Settled
  /\ LocksKept
  /\ status'   = [o \in Orders |-> IF o \in S THEN "CANCELLED" ELSE status[o]]
  /\ reserved' = [o \in Orders |-> reserved[o] /\ o \notin S]
  /\ UNCHANGED <<client, pay, contract, items, total, txns>>

\* A pending payment is decided.
Decided(t, s) ==
  t.status = "PENDING" /\ txns' = (txns \ {t}) \union {[t EXCEPT !.status = s]}

\* Nothing, except that a pending payment may be decided.
Untouched ==
  /\ LocksKept
  /\ UNCHANGED <<status, client, pay, contract, items, total, reserved>>
  /\ \/ txns' = txns
     \/ \E t \in txns, s \in {"COMPLETED", "REJECTED"} : Decided(t, s)

SomeInserted ==
  \E o \in Orders, cl \in Clients, m \in {"CASH", "CARD", "CONTRACT"},
     c \in Contracts \union {None}, cart \in Lines, amount \in Nat,
     s \in {"NEW", "PICKUP_COMPLETED"} : Inserted(o, cl, m, c, cart, amount, s)
SomeEdited == \E o \in Orders, lines \in Lines, amount \in Nat : Edited(o, lines, amount)
SomeMoved == \E o \in Orders, new \in Statuses : Moved(o, new)
SomeDelivered == \E o \in Orders, lines \in Lines, amount \in Nat : Delivered(o, lines, amount)
SomeCancelled == \E S \in SUBSET Orders : CancelledSet(S)

OrderStep ==
  SomeInserted \/ SomeEdited \/ SomeMoved \/ SomeDelivered \/ SomeCancelled \/ Untouched

-----------------------------------------------------------------------------
(* Every step is an OrderStep *)

\* Freeing one lock, or none, keeps the others on existing orders.
LEMMA UnlockKeepsLocks ==
  ASSUME TypeOK, OrdersWellFormed, NEW o \in Orders, Unlock(o) \/ hold' = hold
  PROVE  LocksKept
BY DEF Unlock, LocksKept, OrdersWellFormed, Locked, TypeOK

\* InsertOrder, the common part of the four ways to place an order, inserts.
LEMMA InsertOrderStep ==
  ASSUME TypeOK, OrdersWellFormed,
         NEW o \in Orders, NEW cl \in Clients, NEW m \in {"CASH", "CARD", "CONTRACT"},
         NEW c \in Contracts \union {None},
         NEW cart \in Lines, NEW prices \in Lines, NEW s \in {"NEW", "PICKUP_COMPLETED"},
         InsertOrder(o, cl, m, c, cart, prices, s),
         c # None => m = "CONTRACT", s # "NEW" => m = "CASH",
         IF s = "NEW" THEN txns' = txns
         ELSE txns' = txns \union SettlementRows(o, cl, "CASH", Cash, LineTotal(cart, prices))
  PROVE  OrderStep
<1>1. LineTotal(cart, prices) \in Nat
  BY LineTotalType
<1>2. LocksKept
  BY UnlockKeepsLocks DEF InsertOrder
<1>3. /\ status[o] = "ABSENT"
      /\ status'   = [status EXCEPT ![o] = s]
      /\ client'   = [client EXCEPT ![o] = cl]
      /\ pay'      = [pay EXCEPT ![o] = m]
      /\ contract' = [contract EXCEPT ![o] = c]
      /\ items'    = [items EXCEPT ![o] = cart]
      /\ total'    = [total EXCEPT ![o] = LineTotal(cart, prices)]
      /\ reserved' = [reserved EXCEPT ![o] = c # None]
  BY Zenon DEF InsertOrder
<1>4. Inserted(o, cl, m, c, cart, LineTotal(cart, prices), s)
  BY <1>2, <1>3, Zenon DEF Inserted
<1> QED
  BY <1>1, <1>4, Zenon DEF OrderStep, SomeInserted

\* A flag that is set belongs to an order that holds quota.
LEMMA ReservedHoldsQuota ==
  ASSUME OrdersWellFormed, ReservedExactlyWhileAlive, NEW o \in Orders, reserved[o]
  PROVE  HoldsQuota(o) /\ status[o] # "CANCELLED"
BY DEF OrdersWellFormed, ReservedExactlyWhileAlive, HoldsQuota

\* CancelAll, when it takes the flag off every flagged order that it cancels.
LEMMA CancelAllStep ==
  ASSUME TypeOK, OrdersWellFormed, ReservedExactlyWhileAlive,
         NEW S \in SUBSET Orders, NEW H, CancelAll(S, H),
         \A o \in S : status[o] \in {"NEW", "ASSIGNED"},
         \A o \in S : reserved[o] => o \in H, H \subseteq S,
         UNCHANGED <<hold, txns>>
  PROVE  OrderStep
<1>1. LocksKept
  BY DEF LocksKept, OrdersWellFormed, Locked
<1>2. reserved' = [o \in Orders |-> reserved[o] /\ o \notin S]
  <2>1. \A o \in Orders : (reserved[o] /\ o \notin H) = (reserved[o] /\ o \notin S)
    BY DEF TypeOK
  <2> QED
    BY <2>1 DEF CancelAll
<1>3. \A o \in S : Exists(o) /\ status[o] \notin Settled
  BY DEF Exists, Settled
<1>4. CancelledSet(S)
  BY <1>1, <1>2, <1>3 DEF CancelAll, CancelledSet
<1> QED
  BY <1>4 DEF OrderStep, SomeCancelled

\* CancelOrder, the common part of the two ways to cancel a single order.
LEMMA CancelOrderStep ==
  ASSUME TypeOK, OrdersWellFormed, ReservedExactlyWhileAlive, NEW o \in Orders, CancelOrder(o)
  PROVE  OrderStep
<1>1. Exists(o) /\ status[o] \in Statuses
  BY DEF CancelOrder, OrdersWellFormed, TypeOK, Exists
<1>2. status[o] \notin Settled
  BY <1>1 DEF CancelOrder, TransitionAllowed, AllowedStatuses, Transitions, Statuses, Settled
<1>3. LocksKept
  BY UnlockKeepsLocks DEF CancelOrder
<1>4. status' = [x \in Orders |-> IF x \in {o} THEN "CANCELLED" ELSE status[x]]
  BY DEF CancelOrder, TypeOK
<1>5. reserved' = [x \in Orders |-> reserved[x] /\ x \notin {o}]
  <2>1. CASE status[o] # "CANCELLED" /\ HoldsQuota(o)
    <3>1. reserved' = [reserved EXCEPT ![o] = FALSE]
      BY <2>1 DEF CancelOrder
    <3> QED
      BY <3>1 DEF TypeOK
  <2>2. CASE ~(status[o] # "CANCELLED" /\ HoldsQuota(o))
    <3>1. ~reserved[o]
      BY <2>2, ReservedHoldsQuota
    <3>2. reserved' = reserved
      BY <2>2 DEF CancelOrder
    <3> QED
      BY <3>1, <3>2 DEF TypeOK
  <2> QED
    BY <2>1, <2>2
<1>6. UNCHANGED <<client, pay, contract, items, total, txns>>
  BY DEF CancelOrder, ledgerVars
<1>7. CancelledSet({o})
  BY <1>1, <1>2, <1>3, <1>4, <1>5, <1>6, Zenon DEF CancelledSet
<1> QED
  BY <1>7 DEF OrderStep, SomeCancelled

\* Every step of the system is one of the six.
LEMMA NextOrderStep ==
  ASSUME TypeOK, OrdersWellFormed, ReservedExactlyWhileAlive, Next
  PROVE  OrderStep
<1>1. ASSUME NEW o \in Orders, PlaceOrder(o) PROVE OrderStep
  <2>1. PICK cl \in Clients, cart \in Carts, capitalize \in BOOLEAN :
          \/ cl # WalkIn /\ \E m \in Methods : create_order(o, cl, m, cart, capitalize)
          \/ \E c \in Contracts : create_contract_order(o, cl, c, cart, capitalize)
          \/ create_warehouse_sale(o, cl, cart, capitalize)
          \/ \E m \in Methods, initial \in InitialBalances :
               onboard_client_with_balance(o, cl, m, cart, initial)
    BY <1>1, Zenon DEF PlaceOrder
  <2>2. cart \in Lines /\ CatalogPrice \in Lines
    BY CartsType, OrdersAssumption DEF Lines
  <2>3. Methods \subseteq {"CASH", "CARD", "CONTRACT"}
    BY OrdersAssumption
  <2>4. ASSUME NEW m \in Methods, create_order(o, cl, m, cart, capitalize) PROVE OrderStep
    BY <2>2, <2>3, <2>4, InsertOrderStep DEF create_order
  <2>5. ASSUME NEW c \in Contracts, create_contract_order(o, cl, c, cart, capitalize)
        PROVE  OrderStep
    <3>1. price[c] \in Lines
      BY DEF TypeOK
    <3> QED
      BY <2>2, <2>5, <3>1, InsertOrderStep DEF create_contract_order
  <2>6. ASSUME create_warehouse_sale(o, cl, cart, capitalize) PROVE OrderStep
    BY <2>2, <2>6, InsertOrderStep DEF create_warehouse_sale, Settle
  <2>7. ASSUME NEW m \in Methods, NEW initial \in InitialBalances,
               onboard_client_with_balance(o, cl, m, cart, initial)
        PROVE  OrderStep
    BY <2>2, <2>3, <2>7, InsertOrderStep DEF onboard_client_with_balance
  <2> QED
    BY <2>1, <2>4, <2>5, <2>6, <2>7
<1>2. ASSUME NEW o \in Orders, LockOrder(o) \/ Rollback(o) \/ cancel_order_check(o)
                               \/ cancel_order_refused(o) \/ Age(o)
      PROVE  OrderStep
  <2>1. LocksKept
    BY <1>2 DEF LockOrder, Rollback, cancel_order_check, cancel_order_refused, Age, Unlock,
                LocksKept, OrdersWellFormed, Locked, TypeOK
  <2>2. UNCHANGED <<status, client, pay, contract, items, total, reserved, txns>>
    BY <1>2 DEF LockOrder, Rollback, cancel_order_check, cancel_order_refused, Age,
                orderVars, ledgerVars
  <2> QED
    BY <2>1, <2>2 DEF OrderStep, Untouched
<1>3. ASSUME NEW o \in Orders, NEW p \in Products, NEW n \in 1..MaxQty[p],
             add_product_to_order(o, p, n), TypeOK'
      PROVE  OrderStep
  <2>1. items' = [items EXCEPT ![o] = items'[o]] /\ total' = [total EXCEPT ![o] = total'[o]]
    BY <1>3 DEF add_product_to_order, TypeOK
  <2>2. items'[o] \in Lines /\ total'[o] \in Nat
    BY <1>3 DEF TypeOK
  <2>3. status[o] = "NEW" /\ LocksKept
    BY <1>3, UnlockKeepsLocks DEF add_product_to_order
  <2>4. \/ reserved' = reserved
        \/ reserved' = [reserved EXCEPT ![o] = TRUE] /\ contract[o] # None
    BY <1>3, Zenon DEF add_product_to_order
  <2>5. UNCHANGED <<status, client, pay, contract, txns>>
    BY <1>3 DEF add_product_to_order, ledgerVars
  <2>6. Edited(o, items'[o], total'[o])
    BY <2>1, <2>3, <2>4, <2>5, Zenon DEF Edited
  <2> QED
    BY <2>2, <2>6 DEF OrderStep, SomeEdited
<1>4. ASSUME NEW o \in Orders, NEW p \in Products, remove_product_from_order(o, p), TypeOK'
      PROVE  OrderStep
  <2>1. items' = [items EXCEPT ![o] = items'[o]] /\ total' = [total EXCEPT ![o] = total'[o]]
    BY <1>4 DEF remove_product_from_order, TypeOK
  <2>2. items'[o] \in Lines /\ total'[o] \in Nat
    BY <1>4 DEF TypeOK
  <2>3. status[o] = "NEW" /\ LocksKept
    BY <1>4, UnlockKeepsLocks DEF remove_product_from_order
  <2>4. UNCHANGED <<status, client, pay, contract, reserved, txns>>
    BY <1>4 DEF remove_product_from_order, ledgerVars
  <2>5. Edited(o, items'[o], total'[o])
    BY <2>1, <2>3, <2>4, Zenon DEF Edited
  <2> QED
    BY <2>2, <2>5 DEF OrderStep, SomeEdited
<1>5. ASSUME NEW o \in Orders, NEW k \in Couriers, assign_courier(o, k) PROVE OrderStep
  <2>1. LocksKept
    BY <1>5, UnlockKeepsLocks DEF assign_courier
  <2>2. Moved(o, "ASSIGNED")
    BY <1>5, <2>1 DEF assign_courier, Moved, Exists, Terminal, Settled, ledgerVars
  <2> QED
    BY <2>2 DEF OrderStep, SomeMoved, Statuses
<1>6. ASSUME NEW o \in Orders, NEW new \in Statuses, update_status(o, new) PROVE OrderStep
  <2>1. LocksKept
    BY <1>6, UnlockKeepsLocks DEF update_status
  <2>2. Exists(o) /\ status[o] \in Statuses
    BY <1>6 DEF update_status, OrdersWellFormed, TypeOK, Exists
  <2>3. new = status[o] \/ (status[o] \notin Terminal /\ new \in {"IN_TRANSIT", "ARRIVED"})
    BY <1>6, <2>2 DEF update_status, TransitionAllowed, AllowedStatuses, Transitions, Statuses,
                      Terminal, Settled
  <2>4. Moved(o, new)
    BY <1>6, <2>1, <2>2, <2>3 DEF update_status, Moved, ledgerVars
  <2> QED
    BY <2>4 DEF OrderStep, SomeMoved
<1>7. ASSUME NEW o \in Orders, NEW actual \in Carts, NEW corrected \in BOOLEAN,
             deliver_order(o, actual, corrected)
      PROVE  OrderStep
  <2> DEFINE amount == IF corrected THEN LineTotal(actual, unit_price[o]) ELSE total[o]
  <2>1. actual \in Lines /\ unit_price[o] \in Lines /\ total[o] \in Nat
    BY CartsType DEF TypeOK
  <2>2. amount \in Nat
    BY <2>1, LineTotalType
  <2>3. LocksKept
    BY <1>7, UnlockKeepsLocks DEF deliver_order
  <2>4. Exists(o) /\ status[o] \in Statuses
    BY <1>7 DEF deliver_order, OrdersWellFormed, TypeOK, Exists
  <2>5. status[o] \notin Terminal
    BY <1>7, <2>4 DEF deliver_order, TransitionAllowed, AllowedStatuses, Transitions, Statuses,
                      Terminal, Settled
  <2>6. /\ status' = [status EXCEPT ![o] = "DELIVERED"]
        /\ items'  = [items EXCEPT ![o] = actual]
        /\ total'  = [total EXCEPT ![o] = amount]
        /\ txns'   = txns \union SettlementRows(o, client[o], pay[o], courier[o], amount)
        /\ UNCHANGED <<client, pay, contract, reserved>>
    BY <1>7 DEF deliver_order, Settle
  <2> HIDE DEF amount
  <2>7. Delivered(o, actual, amount)
    BY <2>3, <2>4, <2>5, <2>6, Zenon DEF Delivered
  <2> QED
    BY <2>1, <2>2, <2>7, Zenon DEF OrderStep, SomeDelivered
<1>8. ASSUME NEW o \in Orders, cancel_by_staff(o) \/ cancel_order(o) PROVE OrderStep
  BY <1>8, CancelOrderStep DEF cancel_by_staff, cancel_order
<1>9. ASSUME expire_stale_orders PROVE OrderStep
  <2>1. PICK S \in StaleBatches : /\ CancelAll(S, {o \in S : HoldsQuota(o)})
                                  /\ UNCHANGED <<hold, cancelling, contractVars, priceVars,
                                                 ledgerVars>>
    BY <1>9 DEF expire_stale_orders
  <2>2. S \in SUBSET Orders /\ \A o \in S : status[o] \in {"NEW", "ASSIGNED"}
    BY DEF StaleBatches, StaleOrders, TypeOK
  <2>3. \A o \in S : reserved[o] => o \in {x \in S : HoldsQuota(x)}
    BY <2>2, ReservedHoldsQuota
  <2>4. UNCHANGED <<hold, txns>>
    BY <2>1 DEF ledgerVars
  <2> QED
    BY <2>1, <2>2, <2>3, <2>4, CancelAllStep
<1>10. ASSUME NEW C \in SUBSET Contracts, CancelInflight(C), UNCHANGED <<hold, txns>>
       PROVE  OrderStep
  <2> DEFINE S == UNION {Cancellable(c) : c \in C}
  <2>1. S \in SUBSET Orders /\ \A o \in S : status[o] \in {"NEW", "ASSIGNED"}
    BY DEF Cancellable
  <2>2. CancelAll(S, {o \in S : reserved[o]})
    BY <1>10 DEF CancelInflight
  <2> QED
    BY <1>10, <2>1, <2>2, CancelAllStep
<1>11. ASSUME NEW c \in Contracts, ChangeContract(c) PROVE OrderStep
  <2>1. CASE suspend_contract(c) \/ terminate_contract(c)
    BY <1>10, <2>1 DEF suspend_contract, terminate_contract, ledgerVars
  <2>2. CASE ~(suspend_contract(c) \/ terminate_contract(c))
    <3>1. UNCHANGED <<orderVars, hold, txns>>
      BY <1>11, <2>2 DEF ChangeContract, create_contract, activate_contract,
         reinstate_contract, EndDatePasses, update_contract, requestVars, ledgerVars
    <3>2. LocksKept
      BY <3>1 DEF LocksKept, OrdersWellFormed, Locked
    <3> QED
      BY <3>1, <3>2 DEF OrderStep, Untouched, orderVars
  <2> QED
    BY <2>1, <2>2
<1>12. ASSUME run_expire_job PROVE OrderStep
  BY <1>10, <1>12 DEF run_expire_job, ledgerVars, TypeOK
<1>13. ASSUME ChangePrices \/ run_expire_job_scan \/ run_expire_job_aborted PROVE OrderStep
  <2>1. UNCHANGED <<orderVars, hold, txns>>
    BY <1>13 DEF ChangePrices, price_item_check, set_price_item, remove_price_item,
       price_item_aborted, run_expire_job_scan, run_expire_job_aborted, requestVars, ledgerVars
  <2>2. LocksKept
    BY <2>1 DEF LocksKept, OrdersWellFormed, Locked
  <2> QED
    BY <2>1, <2>2 DEF OrderStep, Untouched, orderVars
<1>14. ASSUME NEW t \in txns, verify_transaction(t) \/ reject_transaction(t) PROVE OrderStep
  <2>1. PICK s \in {"COMPLETED", "REJECTED"} : DecideTxn(t, s)
    BY <1>14 DEF verify_transaction, reject_transaction
  <2>2. Decided(t, s) /\ UNCHANGED <<orderVars, hold>>
    BY <2>1 DEF DecideTxn, Decided, requestVars
  <2>3. LocksKept
    BY <2>2 DEF LocksKept, OrdersWellFormed, Locked
  <2> QED
    BY <2>2, <2>3 DEF OrderStep, Untouched, orderVars
<1> QED
  BY <1>1, <1>2, <1>3, <1>4, <1>5, <1>6, <1>7, <1>8, <1>9, <1>11, <1>12, <1>13, <1>14, NextTypes
  DEF Next, ChangeOrder, Jobs

-----------------------------------------------------------------------------
(* The invariants *)

\* A debt is booked COMPLETED: the accountant never decides it.
DebtsCompleted == \A t \in txns : t.kind = "debt" => t.status = "COMPLETED"

\* The debt rows of an order.
Debts(rows, o) == {t \in rows : t.order = o /\ t.kind = "debt"}

\* The inductive invariant.
OrderInv ==
  /\ TypeOK
  /\ OrdersWellFormed
  /\ ReservedExactlyWhileAlive
  /\ DebtsCompleted
  /\ SettledExactlyOnce

\* Of the rows of a settlement only the debt is a debt row.
LEMMA SettlementKinds ==
  ASSUME NEW o, NEW cl, NEW m, NEW to, NEW amount, NEW t \in SettlementRows(o, cl, m, to, amount)
  PROVE  \/ t = Txn(o, "debt", Revenue, cl, amount, "COMPLETED")
         \/ t.order = o /\ t.kind = "payment"
BY DEF SettlementRows, Txn

\* A debt row of a settlement is COMPLETED.
LEMMA SettlementCompleted ==
  ASSUME NEW o, NEW cl, NEW m, NEW to, NEW amount, NEW t \in SettlementRows(o, cl, m, to, amount),
         t.kind = "debt"
  PROVE  t.status = "COMPLETED"
<1>1. t = Txn(o, "debt", Revenue, cl, amount, "COMPLETED")
  BY SettlementKinds
<1> QED
  BY <1>1 DEF Txn

\* Settling order o books one debt, for its amount and on its client, and
\* leaves the debts of the other orders alone.
LEMMA SettledDebts ==
  ASSUME NEW rows, NEW o, NEW cl, NEW m, NEW to, NEW amount, Debts(rows, o) = {}
  PROVE  /\ Debts(rows \union SettlementRows(o, cl, m, to, amount), o)
              = {Txn(o, "debt", Revenue, cl, amount, "COMPLETED")}
         /\ \A x : x # o => Debts(rows \union SettlementRows(o, cl, m, to, amount), x)
                             = Debts(rows, x)
<1> DEFINE debt == Txn(o, "debt", Revenue, cl, amount, "COMPLETED")
           new  == SettlementRows(o, cl, m, to, amount)
<1>1. \A t \in new : t = debt \/ (t.order = o /\ t.kind = "payment")
  BY SettlementKinds
<1>2. debt \in new /\ debt.order = o /\ debt.kind = "debt"
  BY DEF SettlementRows, Txn
<1> HIDE DEF debt, new
<1>3. Debts(rows \union new, o) = {debt}
  BY <1>1, <1>2 DEF Debts
<1>4. \A x : x # o => Debts(rows \union new, x) = Debts(rows, x)
  BY <1>1, <1>2 DEF Debts
<1> QED
  BY <1>3, <1>4 DEF debt, new

\* SettledExactlyOnce, said with Debts.
LEMMA SettledByDebts ==
  SettledExactlyOnce <=>
    \A o \in Orders :
      /\ status[o] \in Settled => \E t : /\ Debts(txns, o) = {t}
                                         /\ t.amount = total[o] /\ t.to = client[o]
      /\ status[o] \notin Settled => Debts(txns, o) = {}
BY DEF SettledExactlyOnce, Debts

\* The initial state satisfies the invariant.
LEMMA InitOrderInv == Init => OrderInv
<1> SUFFICES ASSUME Init PROVE OrderInv
  OBVIOUS
<1>1. TypeOK
  BY InitTypes
<1>2. OrdersWellFormed /\ ReservedExactlyWhileAlive
  BY DEF Init, OrdersWellFormed, ReservedExactlyWhileAlive, Locked, Exists
<1>3. DebtsCompleted /\ SettledExactlyOnce
  BY DEF Init, DebtsCompleted, SettledExactlyOnce, Settled
<1> QED
  BY <1>1, <1>2, <1>3 DEF OrderInv

\* Locks, clients and contracts of orders stay consistent.
LEMMA StepWellFormed ==
  ASSUME TypeOK, OrdersWellFormed, OrderStep
  PROVE  OrdersWellFormed'
<1>1. CASE SomeInserted
  <2>1. PICK o \in Orders, cl \in Clients, m \in {"CASH", "CARD", "CONTRACT"},
            c \in Contracts \union {None}, cart \in Lines, amount \in Nat,
            s \in {"NEW", "PICKUP_COMPLETED"} : Inserted(o, cl, m, c, cart, amount, s)
    BY <1>1, Zenon DEF SomeInserted
  <2> QED
    BY <2>1 DEF Inserted, OrdersWellFormed, LocksKept, Locked, Exists, TypeOK, Statuses
<1>2. CASE SomeEdited
  <2>1. PICK o \in Orders, lines \in Lines, amount \in Nat : Edited(o, lines, amount)
    BY <1>2, Zenon DEF SomeEdited
  <2> QED
    BY <2>1 DEF Edited, OrdersWellFormed, LocksKept, Locked, Exists, TypeOK, Statuses
<1>3. CASE SomeMoved
  <2>1. PICK o \in Orders, new \in Statuses : Moved(o, new)
    BY <1>3, Zenon DEF SomeMoved
  <2> QED
    BY <2>1 DEF Moved, OrdersWellFormed, LocksKept, Locked, Exists, TypeOK, Statuses
<1>4. CASE SomeDelivered
  <2>1. PICK o \in Orders, lines \in Lines, amount \in Nat : Delivered(o, lines, amount)
    BY <1>4, Zenon DEF SomeDelivered
  <2> QED
    BY <2>1 DEF Delivered, OrdersWellFormed, LocksKept, Locked, Exists, TypeOK, Statuses
<1>5. CASE SomeCancelled
  <2>1. PICK S \in SUBSET Orders : CancelledSet(S)
    BY <1>5, Zenon DEF SomeCancelled
  <2> QED
    BY <2>1 DEF CancelledSet, OrdersWellFormed, LocksKept, Locked, Exists, TypeOK, Statuses
<1>6. CASE Untouched
  BY <1>6 DEF Untouched, OrdersWellFormed, LocksKept, Locked, Exists
<1> QED
  BY <1>1, <1>2, <1>3, <1>4, <1>5, <1>6 DEF OrderStep

\* The flag follows contract and status.
LEMMA StepReserved ==
  ASSUME TypeOK, ReservedExactlyWhileAlive, OrderStep
  PROVE  ReservedExactlyWhileAlive'
<1>1. CASE SomeInserted
  <2>1. PICK o \in Orders, cl \in Clients, m \in {"CASH", "CARD", "CONTRACT"},
            c \in Contracts \union {None}, cart \in Lines, amount \in Nat,
            s \in {"NEW", "PICKUP_COMPLETED"} : Inserted(o, cl, m, c, cart, amount, s)
    BY <1>1, Zenon DEF SomeInserted
  <2> QED
    BY <2>1 DEF Inserted, ReservedExactlyWhileAlive, TypeOK, Exists, Terminal, Settled
<1>2. CASE SomeEdited
  <2>1. PICK o \in Orders, lines \in Lines, amount \in Nat : Edited(o, lines, amount)
    BY <1>2, Zenon DEF SomeEdited
  <2> QED
    BY <2>1 DEF Edited, ReservedExactlyWhileAlive, TypeOK, Exists, Terminal, Settled
<1>3. CASE SomeMoved
  <2>1. PICK o \in Orders, new \in Statuses : Moved(o, new)
    BY <1>3, Zenon DEF SomeMoved
  <2> QED
    BY <2>1 DEF Moved, ReservedExactlyWhileAlive, TypeOK, Exists, Terminal, Settled
<1>4. CASE SomeDelivered
  <2>1. PICK o \in Orders, lines \in Lines, amount \in Nat : Delivered(o, lines, amount)
    BY <1>4, Zenon DEF SomeDelivered
  <2> QED
    BY <2>1 DEF Delivered, ReservedExactlyWhileAlive, TypeOK, Exists, Terminal, Settled
<1>5. CASE SomeCancelled
  <2>1. PICK S \in SUBSET Orders : CancelledSet(S)
    BY <1>5, Zenon DEF SomeCancelled
  <2> QED
    BY <2>1 DEF CancelledSet, ReservedExactlyWhileAlive, TypeOK, Exists, Terminal, Settled
<1>6. CASE Untouched
  BY <1>6 DEF Untouched, ReservedExactlyWhileAlive
<1> QED
  BY <1>1, <1>2, <1>3, <1>4, <1>5, <1>6 DEF OrderStep

\* Debts stay COMPLETED.
LEMMA StepDebtsCompleted ==
  ASSUME TypeOK, DebtsCompleted, OrderStep
  PROVE  DebtsCompleted'
<1>1. CASE SomeInserted
  <2>1. PICK o \in Orders, cl \in Clients, m \in {"CASH", "CARD", "CONTRACT"},
            c \in Contracts \union {None}, cart \in Lines, amount \in Nat,
            s \in {"NEW", "PICKUP_COMPLETED"} : Inserted(o, cl, m, c, cart, amount, s)
    BY <1>1, Zenon DEF SomeInserted
  <2> QED
    <3>1. \A t \in SettlementRows(o, cl, "CASH", Cash, amount) :
            t.kind = "debt" => t.status = "COMPLETED"
      BY SettlementCompleted
    <3> QED
      BY <2>1, <3>1 DEF Inserted, DebtsCompleted
<1>2. CASE SomeEdited
  <2>1. PICK o \in Orders, lines \in Lines, amount \in Nat : Edited(o, lines, amount)
    BY <1>2, Zenon DEF SomeEdited
  <2> QED
    BY <2>1 DEF Edited, DebtsCompleted
<1>3. CASE SomeMoved
  <2>1. PICK o \in Orders, new \in Statuses : Moved(o, new)
    BY <1>3, Zenon DEF SomeMoved
  <2> QED
    BY <2>1 DEF Moved, DebtsCompleted
<1>4. CASE SomeDelivered
  <2>1. PICK o \in Orders, lines \in Lines, amount \in Nat : Delivered(o, lines, amount)
    BY <1>4, Zenon DEF SomeDelivered
  <2> QED
    <3>1. \A t \in SettlementRows(o, client[o], pay[o], courier[o], amount) :
            t.kind = "debt" => t.status = "COMPLETED"
      BY SettlementCompleted
    <3> QED
      BY <2>1, <3>1 DEF Delivered, DebtsCompleted
<1>5. CASE SomeCancelled
  <2>1. PICK S \in SUBSET Orders : CancelledSet(S)
    BY <1>5, Zenon DEF SomeCancelled
  <2> QED
    BY <2>1 DEF CancelledSet, DebtsCompleted
<1>6. CASE Untouched
  <2>1. CASE txns' = txns
    BY <2>1 DEF DebtsCompleted
  <2>2. ASSUME NEW t \in txns, NEW s \in {"COMPLETED", "REJECTED"}, Decided(t, s)
        PROVE  DebtsCompleted'
    <3>1. t.kind # "debt"
      BY <2>2 DEF Decided, DebtsCompleted
    <3>2. [t EXCEPT !.status = s].kind = t.kind
      BY DEF TypeOK, TxnRows
    <3> QED
      BY <2>2, <3>1, <3>2 DEF Decided, DebtsCompleted
  <2> QED
    BY <1>6, <2>1, <2>2 DEF Untouched
<1> QED
  BY <1>1, <1>2, <1>3, <1>4, <1>5, <1>6 DEF OrderStep

\* A settled or cancelled order keeps its status, lines and sum.
LEMMA StepFinal ==
  ASSUME TypeOK, OrderStep, NEW x \in Orders, status[x] \in Terminal
  PROVE  status'[x] = status[x] /\ items'[x] = items[x] /\ total'[x] = total[x]
<1>1. CASE SomeInserted
  <2>1. PICK o \in Orders, cl \in Clients, m \in {"CASH", "CARD", "CONTRACT"},
            c \in Contracts \union {None}, cart \in Lines, amount \in Nat,
            s \in {"NEW", "PICKUP_COMPLETED"} : Inserted(o, cl, m, c, cart, amount, s)
    BY <1>1, Zenon DEF SomeInserted
  <2> QED
    BY <2>1 DEF Inserted, TypeOK, Terminal, Settled
<1>2. CASE SomeEdited
  <2>1. PICK o \in Orders, lines \in Lines, amount \in Nat : Edited(o, lines, amount)
    BY <1>2, Zenon DEF SomeEdited
  <2> QED
    BY <2>1 DEF Edited, TypeOK, Terminal, Settled
<1>3. CASE SomeMoved
  <2>1. PICK o \in Orders, new \in Statuses : Moved(o, new)
    BY <1>3, Zenon DEF SomeMoved
  <2> QED
    BY <2>1 DEF Moved, TypeOK, Terminal, Settled
<1>4. CASE SomeDelivered
  <2>1. PICK o \in Orders, lines \in Lines, amount \in Nat : Delivered(o, lines, amount)
    BY <1>4, Zenon DEF SomeDelivered
  <2> QED
    BY <2>1 DEF Delivered, TypeOK, Terminal, Settled
<1>5. CASE SomeCancelled
  <2>1. PICK S \in SUBSET Orders : CancelledSet(S)
    BY <1>5, Zenon DEF SomeCancelled
  <2> QED
    BY <2>1 DEF CancelledSet, TypeOK, Terminal, Settled
<1>6. CASE Untouched
  BY <1>6 DEF Untouched, TypeOK
<1> QED
  BY <1>1, <1>2, <1>3, <1>4, <1>5, <1>6 DEF OrderStep

\* Deciding a payment leaves every order's debts alone.
LEMMA DecidedDebts ==
  ASSUME TypeOK, DebtsCompleted, NEW t \in txns, NEW s, Decided(t, s), NEW x
  PROVE  Debts(txns', x) = Debts(txns, x)
<1>1. t.kind # "debt"
  BY DEF Decided, DebtsCompleted
<1>2. [t EXCEPT !.status = s].kind = t.kind
  BY DEF TypeOK, TxnRows
<1> QED
  BY <1>1, <1>2 DEF Decided, Debts

\* Settling: an order gets its one debt when it is delivered or picked up.
LEMMA StepSettled ==
  ASSUME TypeOK, DebtsCompleted, SettledExactlyOnce, OrderStep
  PROVE  SettledExactlyOnce'
<1> DEFINE Once(x) == /\ status[x] \in Settled => \E t : /\ Debts(txns, x) = {t}
                                                        /\ t.amount = total[x] /\ t.to = client[x]
                      /\ status[x] \notin Settled => Debts(txns, x) = {}
<1>0. \A x \in Orders : Once(x)
  BY SettledByDebts
<1> SUFFICES ASSUME NEW x \in Orders PROVE Once(x)'
  BY DEF SettledExactlyOnce, Debts
<1>1. CASE SomeInserted
  <2>1. PICK o \in Orders, cl \in Clients, m \in {"CASH", "CARD", "CONTRACT"},
            c \in Contracts \union {None}, cart \in Lines, amount \in Nat,
            s \in {"NEW", "PICKUP_COMPLETED"} : Inserted(o, cl, m, c, cart, amount, s)
    BY <1>1, Zenon DEF SomeInserted
  <2>2. Debts(txns, o) = {}
    BY <1>0, <2>1 DEF Inserted, Settled
  <2>3. CASE x # o
    <3>1. status'[x] = status[x] /\ total'[x] = total[x] /\ client'[x] = client[x]
      BY <2>1, <2>3 DEF Inserted, TypeOK
    <3>2. Debts(txns', x) = Debts(txns, x)
      <4>1. Debts(txns \union SettlementRows(o, cl, "CASH", Cash, amount), x) = Debts(txns, x)
        BY <2>2, <2>3, SettledDebts
      <4> QED
        BY <2>1, <4>1 DEF Inserted
    <3> QED
      BY <1>0, <3>1, <3>2
  <2>4. CASE x = o /\ s = "NEW"
    <3>1. status'[x] = "NEW" /\ txns' = txns
      BY <2>1, <2>4 DEF Inserted, TypeOK
    <3> QED
      BY <2>2, <2>4, <3>1 DEF Settled
  <2>5. CASE x = o /\ s = "PICKUP_COMPLETED"
    <3> DEFINE debt == Txn(o, "debt", Revenue, cl, amount, "COMPLETED")
    <3>1. status'[x] = "PICKUP_COMPLETED" /\ total'[x] = amount /\ client'[x] = cl
      BY <2>1, <2>5 DEF Inserted, TypeOK
    <3>2. Debts(txns', x) = {debt}
      <4>1. Debts(txns \union SettlementRows(o, cl, "CASH", Cash, amount), o) = {debt}
        BY <2>2, SettledDebts
      <4> QED
        BY <2>1, <2>5, <4>1 DEF Inserted
    <3>3. debt.amount = amount /\ debt.to = cl
      BY DEF Txn
    <3> QED
      BY <3>1, <3>2, <3>3 DEF Settled
  <2> QED
    BY <2>3, <2>4, <2>5
<1>2. CASE SomeEdited
  <2>1. PICK o \in Orders, lines \in Lines, amount \in Nat : Edited(o, lines, amount)
    BY <1>2, Zenon DEF SomeEdited
  <2>2. status'[x] \in Settled => total'[x] = total[x]
    BY <2>1 DEF Edited, TypeOK, Settled
  <2> QED
    BY <1>0, <2>1, <2>2 DEF Edited
<1>3. CASE SomeMoved
  <2>1. PICK o \in Orders, new \in Statuses : Moved(o, new)
    BY <1>3, Zenon DEF SomeMoved
  <2>2. status'[x] \in Settled <=> status[x] \in Settled
    BY <2>1 DEF Moved, TypeOK, Settled, Terminal
  <2> QED
    BY <1>0, <2>1, <2>2 DEF Moved
<1>4. CASE SomeDelivered
  <2>1. PICK o \in Orders, lines \in Lines, amount \in Nat : Delivered(o, lines, amount)
    BY <1>4, Zenon DEF SomeDelivered
  <2>2. Debts(txns, o) = {}
    BY <1>0, <2>1 DEF Delivered, Terminal
  <2>3. CASE x # o
    <3>1. status'[x] = status[x] /\ total'[x] = total[x] /\ client'[x] = client[x]
      BY <2>1, <2>3 DEF Delivered, TypeOK
    <3>2. Debts(txns', x) = Debts(txns, x)
      <4>1. Debts(txns \union SettlementRows(o, client[o], pay[o], courier[o], amount), x) = Debts(txns, x)
        BY <2>2, <2>3, SettledDebts
      <4> QED
        BY <2>1, <4>1 DEF Delivered
    <3> QED
      BY <1>0, <3>1, <3>2
  <2>4. CASE x = o
    <3> DEFINE debt == Txn(o, "debt", Revenue, client[o], amount, "COMPLETED")
    <3>1. status'[x] = "DELIVERED" /\ total'[x] = amount /\ client'[x] = client[o]
      BY <2>1, <2>4 DEF Delivered, TypeOK
    <3>2. Debts(txns', x) = {debt}
      <4>1. Debts(txns \union SettlementRows(o, client[o], pay[o], courier[o], amount), o) = {debt}
        BY <2>2, SettledDebts
      <4> QED
        BY <2>1, <2>4, <4>1 DEF Delivered
    <3>3. debt.amount = amount /\ debt.to = client[o]
      BY DEF Txn
    <3> QED
      BY <3>1, <3>2, <3>3 DEF Settled
  <2> QED
    BY <2>3, <2>4
<1>5. CASE SomeCancelled
  <2>1. PICK S \in SUBSET Orders : CancelledSet(S)
    BY <1>5, Zenon DEF SomeCancelled
  <2>2. status'[x] \in Settled <=> status[x] \in Settled
    BY <2>1 DEF CancelledSet, Settled
  <2> QED
    BY <1>0, <2>1, <2>2 DEF CancelledSet
<1>6. CASE Untouched
  <2>1. Debts(txns', x) = Debts(txns, x)
    BY <1>6, DecidedDebts DEF Untouched
  <2> QED
    BY <1>0, <1>6, <2>1 DEF Untouched
<1> QED
  BY <1>1, <1>2, <1>3, <1>4, <1>5, <1>6 DEF OrderStep

\* Every step keeps the inductive invariant, and so does a stuttering step.
LEMMA NextOrderInv ==
  ASSUME OrderInv, [Next]_vars
  PROVE  OrderInv'
<1>1. CASE Next
  <2>1. TypeOK /\ OrdersWellFormed /\ ReservedExactlyWhileAlive /\ DebtsCompleted /\ SettledExactlyOnce
    BY DEF OrderInv
  <2>2. OrderStep
    BY <1>1, <2>1, NextOrderStep
  <2>3. TypeOK'
    BY <1>1, <2>1, NextTypes
  <2>4. OrdersWellFormed' /\ ReservedExactlyWhileAlive' /\ DebtsCompleted' /\ SettledExactlyOnce'
    BY <2>1, <2>2, StepWellFormed, StepReserved, StepDebtsCompleted, StepSettled
  <2> QED
    BY <2>3, <2>4 DEF OrderInv
<1>2. CASE UNCHANGED vars
  BY <1>2 DEF OrderInv, TypeOK, OrdersWellFormed, ReservedExactlyWhileAlive, DebtsCompleted,
     SettledExactlyOnce, Locked, Exists,
     vars, orderVars, requestVars, contractVars, priceVars, ledgerVars
<1> QED
  BY <1>1, <1>2

-----------------------------------------------------------------------------
(* Theorems *)

\* The inductive invariant holds throughout.
THEOREM OrderInvariance == Spec => []OrderInv
BY InitOrderInv, NextOrderInv, PTL DEF Spec

\* Every table keeps its type: counters and sums stay natural numbers.
THEOREM TypeCorrect == Spec => []TypeOK
<1>1. OrderInv => TypeOK
  BY DEF OrderInv
<1> QED
  BY <1>1, OrderInvariance, PTL

\* quantities_reserved is set exactly on the contract orders that are not
\* cancelled, whichever request, job or contract operation cancelled them.
THEOREM ReservedExact == Spec => []ReservedExactlyWhileAlive
<1>1. OrderInv => ReservedExactlyWhileAlive
  BY DEF OrderInv
<1> QED
  BY <1>1, OrderInvariance, PTL

\* Exactly the delivered and picked-up orders are settled, each by one debt
\* row for its final sum on its client (_process_financial_settlement).
THEOREM SettledOnce == Spec => []SettledExactlyOnce
<1>1. OrderInv => SettledExactlyOnce
  BY DEF OrderInv
<1> QED
  BY <1>1, OrderInvariance, PTL

\* A settled or cancelled order never changes status, lines or sum again.
THEOREM TerminalOrdersAreFinal == Spec => TerminalIsFinal
<1>1. ASSUME OrderInv, Next, NEW o \in Orders, status[o] \in Terminal
      PROVE  status'[o] = status[o] /\ items'[o] = items[o] /\ total'[o] = total[o]
  BY <1>1, NextOrderStep, StepFinal DEF OrderInv
<1>2. OrderInv /\ [Next]_vars =>
        [\A o \in Orders : status[o] \in Terminal =>
           status'[o] = status[o] /\ items'[o] = items[o] /\ total'[o] = total[o]]_vars
  BY <1>1
<1> QED
  BY <1>2, OrderInvariance, PTL DEF Spec, TerminalIsFinal
=============================================================================

---------------------------- MODULE FinanceProofs ----------------------------
(***************************************************************************)
(* The books balance for any set of accounts and any number of rows.  A    *)
(* balance is written only by the trigger, from the rows of one statement, *)
(* while BooksBalance is about all rows: it needs to know that inserted    *)
(* rows are new and that a decided row replaces itself only, which is what *)
(* the ids of FinanceInv say.                                              *)
(***************************************************************************)
EXTENDS FinanceReports, SumTheorems

IdsUnique ==
  /\ \A t \in txns : t.id < nextId
  /\ \A t, u \in txns : t.id = u.id => t = u

FinanceInv ==
  /\ FinanceTypeOK /\ IsFiniteSet(txns)
  /\ \A s \in sales : s.id \in Nat
  /\ IdsUnique /\ BooksBalance

\* A finite set of typed rows can be added up.
LEMMA TypedLedger ==
  ASSUME NEW rows, rows \subseteq Rows, IsFiniteSet(rows)
  PROVE  IsLedger(rows)
BY FinanceAssumption DEF IsLedger, Rows

\* Inserting rows with new ids.
LEMMA InsertInv ==
  ASSUME FinanceInv, NEW rows, rows \subseteq Rows, IsFiniteSet(rows), Insert(rows),
         \A t \in rows : t.id >= nextId /\ t.id < nextId + Cardinality(rows),
         \A t, u \in rows : t.id = u.id => t = u,
         now' = now, \A s \in sales' : s.id \in Nat
  PROVE  FinanceInv'
<1>0. nextId \in Nat /\ txns \subseteq Rows /\ balance \in [Accounts -> Int]
  BY DEF FinanceInv, FinanceTypeOK
<1>1. Cardinality(rows) \in Nat
  BY FS_CardinalityType
<1>2. txns \intersect rows = {}
  BY <1>0 DEF FinanceInv, IdsUnique, Rows
<1>3. balance' \in [Accounts -> Int] /\ Balanced(balance', txns')
  <2>1. IsLedger(txns) /\ IsLedger(rows)
    BY <1>0, TypedLedger DEF FinanceInv
  <2>2. Balanced(balance, txns)
    BY DEF FinanceInv, BooksBalance, Balanced
  <2>3. balance' = Posted(balance, rows) /\ txns' = txns \union rows
    BY DEF Insert
  <2> QED
    BY <1>0, <1>2, <2>1, <2>2, <2>3, PostedBalanced
<1>4. FinanceTypeOK'
  BY <1>0, <1>1, <1>3 DEF Insert, FinanceInv, FinanceTypeOK
<1>5. IsFiniteSet(txns')
  BY FS_Union DEF Insert, FinanceInv
<1>6. IdsUnique'
  <2>1. nextId' = nextId + Cardinality(rows) /\ txns' = txns \union rows
    BY DEF Insert
  <2>2. \A t \in txns \union rows : t.id \in Nat
    BY <1>0 DEF Rows
  <2> QED
    BY <1>0, <1>1, <2>1, <2>2 DEF FinanceInv, IdsUnique
<1>7. BooksBalance'
  BY <1>3 DEF Balanced, BooksBalance
<1> QED
  BY <1>4, <1>5, <1>6, <1>7 DEF FinanceInv

\* One row with the next id.
LEMMA InsertOne ==
  ASSUME FinanceInv, NEW row \in Rows, row.id = nextId, Insert({row}), UNCHANGED <<sales, now>>
  PROVE  FinanceInv'
<1>1. IsFiniteSet({row}) /\ Cardinality({row}) = 1
  BY FS_Singleton
<1>2. \A t \in {row} : t.id >= nextId /\ t.id < nextId + Cardinality({row})
  BY <1>1 DEF FinanceInv, FinanceTypeOK
<1>3. {row} \subseteq Rows /\ \A t, u \in {row} : t.id = u.id => t = u
  OBVIOUS
<1>4. \A s \in sales' : s.id \in Nat
  BY DEF FinanceInv
<1> QED
  BY <1>1, <1>2, <1>3, <1>4, InsertInv

\* A row of the right parts is a row of the table.
LEMMA RowType ==
  ASSUME FinanceInv, NEW id \in Nat, NEW kind \in {"debt", "payment", "manual"},
         NEW from \in Accounts, NEW to \in Accounts, NEW amount \in 1..MaxAmount,
         NEW status \in TxnStatuses, NEW order \in Nat \union {None}
  PROVE  /\ Row(id, kind, from, to, amount, status, order) \in Rows
         /\ Row(id, kind, from, to, amount, status, order).id = id
BY DEF Row, Rows, FinanceInv, FinanceTypeOK

\* Manual transactions and the cash desk insert one row.
LEMMA ManualInv ==
  ASSUME FinanceInv, SomeManual \/ SomePayment
  PROVE  FinanceInv'
<1>0. nextId \in Nat /\ \A order \in Orders : order \in Nat \union {None}
  BY DEF FinanceInv, FinanceTypeOK, Orders
<1>1. ASSUME NEW route \in ManualRoutes, NEW amount \in 1..MaxAmount, NEW order \in Orders,
             create_transaction(route[1], route[2], amount, order)
      PROVE  FinanceInv'
  <2> DEFINE row == Row(nextId, "manual", route[1], route[2], amount, "COMPLETED", order)
  <2>1. route[1] \in Accounts /\ route[2] \in Accounts
    BY <1>1 DEF create_transaction
  <2>2. row \in Rows /\ row.id = nextId
    <3>1. "COMPLETED" \in TxnStatuses /\ "manual" \in {"debt", "payment", "manual"}
      BY DEF TxnStatuses
    <3>2. order \in Nat \union {None}
      BY <1>0
    <3>3. /\ Row(nextId, "manual", route[1], route[2], amount, "COMPLETED", order) \in Rows
          /\ Row(nextId, "manual", route[1], route[2], amount, "COMPLETED", order).id = nextId
      <4>1. PICK from \in Accounts, to \in Accounts : from = route[1] /\ to = route[2]
        BY <2>1
      <4>2. /\ Row(nextId, "manual", from, to, amount, "COMPLETED", order) \in Rows
            /\ Row(nextId, "manual", from, to, amount, "COMPLETED", order).id = nextId
        BY <1>0, <3>1, <3>2, RowType
      <4> QED
        BY <4>1, <4>2
    <3> QED
      BY <3>3
  <2>3. Insert({row}) /\ UNCHANGED <<sales, now>>
    BY <1>1 DEF create_transaction
  <2> HIDE DEF row
  <2> QED
    BY <2>2, <2>3, InsertOne
<1>2. ASSUME NEW client \in Having("client"), NEW method \in {"cash", "card", "bank"},
             NEW amount \in 1..MaxAmount, NEW order \in Orders,
             accept_payment(client, method, amount, order)
      PROVE  FinanceInv'
  <2> DEFINE st == IF method = "card" THEN "PENDING" ELSE "COMPLETED"
             row(target) == Row(nextId, "manual", client, target, amount, st, order)
  <2>1. PICK target \in Having(method) : Insert({row(target)})
    BY <1>2 DEF accept_payment
  <2>2. client \in Accounts /\ target \in Accounts /\ st \in TxnStatuses
    BY DEF Having, TxnStatuses
  <2> HIDE DEF st
  <2>3. row(target) \in Rows /\ row(target).id = nextId
    <3>1. order \in Nat \union {None}
      BY <1>0
    <3>2. /\ Row(nextId, "manual", client, target, amount, st, order) \in Rows
          /\ Row(nextId, "manual", client, target, amount, st, order).id = nextId
      BY <1>0, <2>2, <3>1, RowType
    <3> QED
      BY <3>2
  <2>4. UNCHANGED <<sales, now>>
    BY <1>2 DEF accept_payment
  <2> HIDE DEF row
  <2> QED
    BY <2>1, <2>3, <2>4, InsertOne
<1> QED
  BY <1>1, <1>2 DEF SomeManual, SomePayment

\* Two rows with the next two ids can be inserted together.
LEMMA InsertTwo ==
  ASSUME FinanceInv, NEW t \in Rows, NEW u \in Rows, t.id = nextId, u.id = nextId + 1,
         Insert({t, u}), now' = now, \A s \in sales' : s.id \in Nat
  PROVE  FinanceInv'
<1>0. nextId \in Nat
  BY DEF FinanceInv, FinanceTypeOK
<1>1. t # u
  BY <1>0
<1>2. {t, u} = {t} \union {u} /\ u \notin {t}
  BY <1>1
<1>3. IsFiniteSet({t}) /\ Cardinality({t}) = 1
  BY FS_Singleton
<1>4. IsFiniteSet({t, u}) /\ Cardinality({t, u}) = 2
  <2>1. /\ IsFiniteSet({t} \union {u})
        /\ u \in {t} \/ Cardinality({t} \union {u}) = Cardinality({t}) + 1
    BY <1>3, FS_AddElement
  <2>2. IsFiniteSet({t, u}) /\ Cardinality({t, u}) = 1 + 1
    BY <1>2, <1>3, <2>1, Zenon
  <2> QED
    BY <2>2
<1>5. \A x \in {t, u} : x.id >= nextId /\ x.id < nextId + Cardinality({t, u})
  BY <1>0, <1>4
<1>6. {t, u} \subseteq Rows /\ \A x, y \in {t, u} : x.id = y.id => x = y
  BY <1>0
<1> QED
  BY <1>4, <1>5, <1>6, InsertInv

\* The settlement of an order: the debt alone, or with its payment.
LEMMA SettlementInv ==
  ASSUME FinanceInv, NEW revenue \in Accounts, NEW client \in Accounts, NEW cash \in Accounts,
         NEW card \in Accounts, NEW method \in Methods, NEW total \in 1..MaxAmount,
         Insert(Settlement(nextId, revenue, client, cash, card, method, total)),
         now' = now, \A s \in sales' : s.id \in Nat
  PROVE  FinanceInv'
<1> DEFINE debt == Row(nextId, "debt", revenue, client, total, "COMPLETED", nextId)
           paid == Row(nextId + 1, "payment", client, cash, total, "COMPLETED", nextId)
           wait == Row(nextId + 1, "payment", client, card, total, "PENDING", nextId)
<1>0. nextId \in Nat /\ nextId + 1 \in Nat /\ nextId \in Nat \union {None}
  BY DEF FinanceInv, FinanceTypeOK
<1>1. "COMPLETED" \in TxnStatuses /\ "PENDING" \in TxnStatuses
  BY DEF TxnStatuses
<1>2. /\ Row(nextId, "debt", revenue, client, total, "COMPLETED", nextId) \in Rows
      /\ Row(nextId, "debt", revenue, client, total, "COMPLETED", nextId).id = nextId
  BY <1>0, <1>1, RowType
<1>3. PICK n \in Nat : n = nextId + 1
  BY <1>0
<1>4. /\ Row(n, "payment", client, cash, total, "COMPLETED", nextId) \in Rows
      /\ Row(n, "payment", client, cash, total, "COMPLETED", nextId).id = n
  BY <1>0, <1>1 DEF Row, Rows, FinanceInv, FinanceTypeOK
<1>5. /\ Row(n, "payment", client, card, total, "PENDING", nextId) \in Rows
      /\ Row(n, "payment", client, card, total, "PENDING", nextId).id = n
  BY <1>0, <1>1 DEF Row, Rows, FinanceInv, FinanceTypeOK
<1>6. CASE method = "CASH"
  <2>1. Insert({debt, paid})
    <3>1. Settlement(nextId, revenue, client, cash, card, method, total) = {debt, paid}
      BY <1>6 DEF Settlement
    <3> QED
      BY <3>1
  <2> HIDE DEF debt, paid, wait
  <2>2. debt \in Rows /\ debt.id = nextId /\ paid \in Rows /\ paid.id = nextId + 1
    BY <1>2, <1>4, <1>3 DEF debt, paid
  <2> QED
    BY <2>1, <2>2, InsertTwo
<1>7. CASE method = "CARD"
  <2>1. Insert({debt, wait})
    <3>1. Settlement(nextId, revenue, client, cash, card, method, total) = {debt, wait}
      BY <1>7 DEF Settlement
    <3> QED
      BY <3>1
  <2> HIDE DEF debt, paid, wait
  <2>2. debt \in Rows /\ debt.id = nextId /\ wait \in Rows /\ wait.id = nextId + 1
    BY <1>2, <1>5, <1>3 DEF debt, wait
  <2> QED
    BY <2>1, <2>2, InsertTwo
<1>8. CASE method = "CONTRACT"
  <2>1. Insert({debt})
    <3>1. Settlement(nextId, revenue, client, cash, card, method, total) = {debt}
      BY <1>8 DEF Settlement
    <3> QED
      BY <3>1
  <2> HIDE DEF debt, paid, wait
  <2>2. debt \in Rows /\ debt.id = nextId
    BY <1>2 DEF debt
  <2>3. IsFiniteSet({debt}) /\ Cardinality({debt}) = 1
    BY FS_Singleton
  <2>4. \A t \in {debt} : t.id >= nextId /\ t.id < nextId + Cardinality({debt})
    BY <1>0, <2>2, <2>3
  <2>5. {debt} \subseteq Rows /\ \A t, u \in {debt} : t.id = u.id => t = u
    BY <2>2
  <2> QED
    BY <2>1, <2>3, <2>4, <2>5, InsertInv
<1> QED
  BY <1>6, <1>7, <1>8 DEF Methods

\* Settlements of the two kinds of sale.
LEMMA SaleInv ==
  ASSUME FinanceInv, SomeSettlement
  PROVE  FinanceInv'
<1>0. nextId \in Nat /\ \A type : Having(type) \subseteq Accounts
  BY DEF FinanceInv, FinanceTypeOK, Having
<1>1. PICK revenue \in Having("revenue"), client \in Having("client"), card \in Having("card"),
           method \in Methods, total \in 1..MaxAmount, created \in 0..now :
        \/ \E courier \in Having("courier") :
             process_financial_settlement(nextId, revenue, client, courier, card, method, total, created)
        \/ \E cash \in Having("cash") :
             process_pickup_settlement(nextId, revenue, client, cash, card, method, total, created)
  BY DEF SomeSettlement
<1>2. \A s \in sales' : s.id \in Nat
  <2>1. \A status : Sale(nextId, client, method, total, created, status).id = nextId
    BY DEF Sale
  <2>2. \E status : sales' = sales \union {Sale(nextId, client, method, total, created, status)}
    BY <1>1 DEF process_financial_settlement, process_pickup_settlement
  <2> QED
    BY <1>0, <2>1, <2>2 DEF FinanceInv
<1>3. /\ now' = now
      /\ \E cash \in Accounts : Insert(Settlement(nextId, revenue, client, cash, card, method, total))
  BY <1>0, <1>1 DEF process_financial_settlement, process_pickup_settlement
<1> QED
  BY <1>0, <1>2, <1>3, SettlementInv

\* A decision replaces a PENDING row by the decided one, which is posted.
LEMMA DecisionInv ==
  ASSUME FinanceInv, SomeDecision
  PROVE  FinanceInv'
<1>1. PICK t \in txns, st \in {"COMPLETED", "REJECTED"} : t.status = "PENDING" /\ Decide(t, st)
  BY DEF SomeDecision, verify_transaction, reject_transaction
<1> DEFINE u == [t EXCEPT !.status = st, !.verified = TRUE]
<1>2. /\ t \in Rows /\ nextId \in Nat /\ txns \subseteq Rows /\ IsFiniteSet(txns)
      /\ balance \in [Accounts -> Int]
  BY DEF FinanceInv, FinanceTypeOK
<1>3. u \in Rows /\ u.id = t.id /\ u.status # "PENDING"
  BY <1>1, <1>2 DEF Rows, TxnStatuses
<1>4. txns' = (txns \ {t}) \union {u} /\ balance' = Posted(balance, {u})
      /\ UNCHANGED <<sales, nextId, now>>
  BY <1>1 DEF Decide
<1> HIDE DEF u
<1>5. u \notin txns
  BY <1>1, <1>3 DEF FinanceInv, IdsUnique
<1>6. IsLedger(txns \ {t}) /\ Balanced(balance, txns \ {t})
  <2>1. IsLedger(txns) /\ Balanced(balance, txns)
    BY <1>2, TypedLedger DEF FinanceInv, BooksBalance, Balanced
  <2> QED
    BY <1>1, <2>1, PendingBalanced
<1>7. IsFiniteSet({u}) /\ IsLedger({u})
  BY <1>3, FS_Singleton, TypedLedger
<1>8. balance' \in [Accounts -> Int] /\ Balanced(balance', txns')
  BY <1>2, <1>4, <1>5, <1>6, <1>7, PostedBalanced
<1>9. IsFiniteSet(txns')
  <2>1. IsFiniteSet(txns \ {t})
    BY <1>2, FS_Subset, txns \ {t} \subseteq txns
  <2> QED
    BY <1>4, <1>7, <2>1, FS_Union
<1>10. FinanceTypeOK'
  BY <1>2, <1>3, <1>4, <1>8 DEF FinanceInv, FinanceTypeOK
<1>11. IdsUnique'
  BY <1>3, <1>4 DEF FinanceInv, IdsUnique
<1>12. BooksBalance'
  BY <1>8 DEF Balanced, BooksBalance
<1> QED
  BY <1>4, <1>9, <1>10, <1>11, <1>12 DEF FinanceInv

\* One step of the specification.
LEMMA FinanceNext ==
  ASSUME FinanceInv, [Next]_finVars
  PROVE  FinanceInv'
<1>1. CASE Tick
  BY <1>1, FinanceAssumption DEF Tick, FinanceInv, FinanceTypeOK, IdsUnique, BooksBalance
<1>2. CASE UNCHANGED finVars
  BY <1>2 DEF finVars, FinanceInv, FinanceTypeOK, IdsUnique, BooksBalance
<1> QED
  BY <1>1, <1>2, ManualInv, SaleInv, DecisionInv DEF Next

\* An empty ledger is balanced.
LEMMA FinanceInit == Init => FinanceInv
<1> SUFFICES ASSUME Init PROVE FinanceInv
  OBVIOUS
<1>1. IsFiniteSet(txns)
  BY FS_EmptySet DEF Init
<1>2. \A a \in Accounts : AmountIn(txns, a) = 0 /\ AmountOut(txns, a) = 0
  <2>1. \A a \in Accounts : /\ {t \in Completed(txns) : t.to = a} = {}
                            /\ {t \in Completed(txns) : t.from = a} = {}
    BY DEF Init, Completed
  <2> QED
    BY <2>1, SumEmpty DEF AmountIn, AmountOut
<1>3. FinanceTypeOK /\ BooksBalance
  BY <1>2, FinanceAssumption DEF Init, FinanceTypeOK, BooksBalance
<1> QED
  BY <1>1, <1>3 DEF Init, FinanceInv, IdsUnique

-----------------------------------------------------------------------------
(* Rows and time: what the statements rely on *)

\* Ids count up to the bound and follow the time of booking; a row joins two
\* accounts and was booked in the past.
RowsOrdered ==
  /\ nextId \in 1..MaxTxns + 1
  /\ \A t \in txns : t.id >= 1 /\ t.from # t.to /\ t.at <= now
  /\ \A t, u \in txns : t.id < u.id => t.at <= u.at

\* A row of this step.
Fresh(t) == t.id >= nextId /\ t.at = now /\ t.from # t.to

\* Nothing disappears, and what is new has a new id and is booked now.
FreshStep ==
  /\ txns \subseteq txns' /\ \A t \in txns' : t \in txns \/ Fresh(t)
  /\ nextId' >= nextId /\ nextId' <= MaxTxns + 1 /\ now' = now

\* Rows that are inserted.
LEMMA InsertFresh ==
  ASSUME FinanceInv, NEW rows, IsFiniteSet(rows), Insert(rows), now' = now, \A t \in rows : Fresh(t)
  PROVE  FreshStep
<1>1. Cardinality(rows) \in Nat
  BY FS_CardinalityType
<1> QED
  BY <1>1, FinanceAssumption DEF Insert, FreshStep, FinanceInv, FinanceTypeOK

\* Rows between accounts of two types.
LEMMA RowFresh ==
  ASSUME NEW id, id >= nextId, NEW kind, NEW from, NEW to, NEW amount, NEW st, NEW order, from # to
  PROVE  Fresh(Row(id, kind, from, to, amount, st, order))
BY DEF Fresh, Row

\* Manual transactions, the cash desk and settlements only insert.
LEMMA NewRowsFresh ==
  ASSUME FinanceInv, SomeManual \/ SomePayment \/ SomeSettlement
  PROVE  FreshStep
<1>0. nextId \in Nat /\ nextId >= nextId /\ nextId + 1 >= nextId
  BY DEF FinanceInv, FinanceTypeOK
<1>00. \A x, y : IsFiniteSet({x}) /\ IsFiniteSet({x, y})
  <2> SUFFICES ASSUME NEW x, NEW y PROVE IsFiniteSet({x}) /\ IsFiniteSet({x, y})
    OBVIOUS
  <2>1. IsFiniteSet({x}) /\ IsFiniteSet({y}) /\ {x, y} = {x} \union {y}
    BY FS_Singleton
  <2> QED
    BY <2>1, FS_Union
<1>1. CASE SomeManual
  <2>1. PICK from, to, amount, order : create_transaction(from, to, amount, order)
    BY <1>1 DEF SomeManual
  <2>2. /\ Insert({Row(nextId, "manual", from, to, amount, "COMPLETED", order)})
        /\ now' = now /\ from # to
    BY <2>1 DEF create_transaction
  <2>3. Fresh(Row(nextId, "manual", from, to, amount, "COMPLETED", order))
    BY <1>0, <2>2, RowFresh
  <2> QED
    BY <1>00, <2>2, <2>3, InsertFresh
<1>2. CASE SomePayment
  <2>1. PICK client \in Having("client"), method \in {"cash", "card", "bank"},
             amount \in 1..MaxAmount, order \in Orders :
          accept_payment(client, method, amount, order)
    BY <1>2 DEF SomePayment
  <2>2. PICK target \in Having(method), st \in TxnStatuses :
          Insert({Row(nextId, "manual", client, target, amount, st, order)}) /\ now' = now
    BY <2>1 DEF accept_payment, TxnStatuses
  <2>3. client # target
    BY DEF Having
  <2>4. Fresh(Row(nextId, "manual", client, target, amount, st, order))
    BY <1>0, <2>3, RowFresh
  <2> QED
    BY <1>00, <2>2, <2>4, InsertFresh
<1>3. CASE SomeSettlement
  <2>1. PICK revenue \in Having("revenue"), client \in Having("client"), card \in Having("card"),
             cash \in Having("courier") \union Having("cash"), method \in Methods,
             total \in 1..MaxAmount :
          Insert(Settlement(nextId, revenue, client, cash, card, method, total)) /\ now' = now
    BY <1>3 DEF SomeSettlement, process_financial_settlement, process_pickup_settlement
  <2> DEFINE debt == Row(nextId, "debt", revenue, client, total, "COMPLETED", nextId)
             paid == Row(nextId + 1, "payment", client, cash, total, "COMPLETED", nextId)
             wait == Row(nextId + 1, "payment", client, card, total, "PENDING", nextId)
  <2>2. revenue # client /\ client # cash /\ client # card
    BY DEF Having
  <2>3. Fresh(debt) /\ Fresh(paid) /\ Fresh(wait)
    BY <1>0, <2>2, RowFresh
  <2>4. LET S == Settlement(nextId, revenue, client, cash, card, method, total)
        IN  S = {debt} \/ S = {debt, paid} \/ S = {debt, wait}
    BY DEF Settlement, Methods
  <2> HIDE DEF debt, paid, wait
  <2> QED
    BY <1>00, <2>1, <2>3, <2>4, InsertFresh
<1> QED
  BY <1>1, <1>2, <1>3

\* One step keeps the order of the rows.
LEMMA OrderedNext ==
  ASSUME FinanceInv, FinanceInv', RowsOrdered, [Next]_finVars
  PROVE  RowsOrdered'
<1>0. /\ nextId \in Nat /\ nextId' \in Nat /\ now \in Int /\ now' \in Int
      /\ \A t \in txns : t.id \in Nat /\ t.at \in Int /\ t.id < nextId
      /\ \A t \in txns' : t.id \in Nat /\ t.at \in Int
  BY DEF FinanceInv, FinanceTypeOK, IdsUnique, Rows
<1>1. CASE SomeManual \/ SomePayment \/ SomeSettlement
  <2>1. FreshStep
    BY <1>1, NewRowsFresh
  <2>2. \A t \in txns' : t.id >= 1 /\ t.from # t.to /\ t.at <= now'
    BY <1>0, <2>1 DEF FreshStep, Fresh, RowsOrdered
  <2>3. \A t, u \in txns' : t.id < u.id => t.at <= u.at
    BY <1>0, <2>1 DEF FreshStep, Fresh, RowsOrdered
  <2>4. nextId' \in 1..MaxTxns + 1
    BY <1>0, <2>1, FinanceAssumption DEF FreshStep, RowsOrdered
  <2> QED
    BY <2>2, <2>3, <2>4 DEF RowsOrdered
<1>2. CASE SomeDecision
  <2>1. PICK t \in txns, st \in {"COMPLETED", "REJECTED"} : Decide(t, st)
    BY <1>2 DEF SomeDecision, verify_transaction, reject_transaction
  <2> DEFINE u == [t EXCEPT !.status = st, !.verified = TRUE]
  <2>2. u.id = t.id /\ u.at = t.at /\ u.from = t.from /\ u.to = t.to
    BY DEF FinanceInv, FinanceTypeOK, Rows
  <2>3. txns' = (txns \ {t}) \union {u} /\ nextId' = nextId /\ now' = now
    BY <2>1 DEF Decide
  <2> HIDE DEF u
  <2>4. \A x \in txns' : \E y \in txns : x.id = y.id /\ x.at = y.at /\ x.from = y.from /\ x.to = y.to
    BY <2>2, <2>3
  <2> QED
    BY <2>3, <2>4 DEF RowsOrdered
<1>3. CASE Tick
  BY <1>0, <1>3 DEF Tick, RowsOrdered
<1>4. CASE UNCHANGED finVars
  BY <1>4 DEF finVars, RowsOrdered
<1> QED
  BY <1>1, <1>2, <1>3, <1>4 DEF Next

-----------------------------------------------------------------------------
(* Statements *)

\* What the lines of page P add and take away is what the rows of D do to the
\* account.
Shows(P, D, a) ==
  /\ Amount({t \in P : t.to = a}) - Amount({t \in P : t.to # a}) = Net(D, a)
  /\ Amount({t \in P : t.to = a}) \in Nat /\ Amount({t \in P : t.to # a}) \in Nat

\* A page with the COMPLETED rows of the account.
LEMMA PageNet ==
  ASSUME NEW D, IsLedger(D), \A t \in D : t.from # t.to, NEW a, NEW P,
         P = {t \in Completed(D) : a \in {t.from, t.to}}
  PROVE  Shows(P, D, a)
<1>1. /\ {t \in P : t.to = a} = {t \in Completed(D) : t.to = a}
      /\ {t \in P : t.to # a} = {t \in Completed(D) : t.from = a}
  BY DEF Completed
<1>2. \A S : S \subseteq D => SumOver(AmountOf(D), S) = Amount(S) /\ Amount(S) \in Nat
  BY AmountsOver DEF Amount
<1>3. {t \in Completed(D) : t.to = a} \subseteq D /\ {t \in Completed(D) : t.from = a} \subseteq D
  BY DEF Completed
<1> QED
  BY <1>1, <1>2, <1>3 DEF Shows, Net, AmountIn, AmountOut

\* Parts of the ledger are ledgers, and no more than MaxTxns rows.
LEMMA PartsOfLedger ==
  ASSUME FinanceInv, RowsOrdered, NEW S, S \subseteq txns
  PROVE  /\ IsLedger(S) /\ \A t \in S : t.from # t.to
         /\ Cardinality(S) \in 0..MaxTxns /\ \A t \in S : Cardinality(S) >= 1
<1>1. IsFiniteSet(S) /\ Cardinality(S) \in Nat
  BY FS_Subset, FS_CardinalityType DEF FinanceInv
<1>2. IsLedger(S)
  BY <1>1, TypedLedger DEF FinanceInv, FinanceTypeOK
<1>3. Cardinality(S) <= MaxTxns
  <2> DEFINE f == [t \in S |-> t.id]
  <2>1. f \in Injection(S, 1..MaxTxns)
    <3>1. \A t \in S : t.id \in 1..MaxTxns
      BY FinanceAssumption DEF FinanceInv, FinanceTypeOK, IdsUnique, RowsOrdered, Rows
    <3>2. \A t, u \in S : t.id = u.id => t = u
      BY DEF FinanceInv, IdsUnique
    <3> QED
      BY <3>1, <3>2 DEF Injection, IsInjective
  <2>2. IsFiniteSet(1..MaxTxns) /\ Cardinality(1..MaxTxns) = MaxTxns
    <3>1. 1 \in Int /\ MaxTxns \in Int /\ 1 <= MaxTxns + 1
      BY FinanceAssumption
    <3>2. /\ IsFiniteSet(1..MaxTxns)
          /\ Cardinality(1..MaxTxns) = IF 1 > MaxTxns THEN 0 ELSE MaxTxns - 1 + 1
      BY <3>1, FS_Interval
    <3> QED
      BY <3>2, FinanceAssumption
  <2>3. Cardinality(S) <= Cardinality(1..MaxTxns)
    BY <2>1, <2>2, FS_Injection DEF ExistsInjection
  <2> QED
    BY <2>2, <2>3
<1>4. ASSUME NEW t \in S PROVE Cardinality(S) >= 1
  <2>1. Cardinality(S) # 0
    BY <1>1, FS_EmptySet
  <2> QED
    BY <1>1, <2>1
<1>5. \A t \in S : t.from # t.to
  BY DEF RowsOrdered
<1> QED
  BY <1>1, <1>2, <1>3, <1>4, <1>5

\* The first page of MaxTxns rows holds the whole period.
LEMMA WholePage ==
  ASSUME FinanceInv, RowsOrdered, NEW a, NEW from, NEW to
  PROVE  get_account_transactions_in_period(a, from, to, 0, MaxTxns)
           = {t \in Completed(txns) : a \in {t.from, t.to} /\ t.at \in Start(from)..Start(to)}
<1> DEFINE rows == {t \in Completed(txns) : a \in {t.from, t.to} /\ t.at \in Start(from)..Start(to)}
           Upto(t) == {u \in rows : u.id <= t.id}
<1>1. rows \subseteq txns
  BY DEF Completed
<1>2. ASSUME NEW t \in rows PROVE Cardinality(Upto(t)) \in 0+1..0+MaxTxns
  <2>1. Upto(t) \subseteq txns /\ t \in Upto(t)
    BY <1>1 DEF FinanceInv, FinanceTypeOK, Rows
  <2> HIDE DEF Upto
  <2>2. Cardinality(Upto(t)) \in 0..MaxTxns /\ Cardinality(Upto(t)) >= 1
    BY <2>1, PartsOfLedger
  <2> QED
    BY <2>2, FinanceAssumption
<1>3. {t \in rows : Cardinality(Upto(t)) \in 0+1..0+MaxTxns} = rows
  BY <1>2
<1> QED
  BY <1>3 DEF get_account_transactions_in_period

\* Rows before an instant and rows in a period.
Before(n) == {t \in txns : t.at < n}
Within(n, m) == {t \in txns : t.at \in n..m}

\* A statement closes with all that happened before the end of its last day's
\* first instant, from whichever day it starts.
LEMMA ClosingBalance ==
  ASSUME FinanceInv, RowsOrdered, NEW a, NEW from \in Nat, NEW to \in Int, from <= to
  PROVE  get_account_statement(a, from, to, 0, MaxTxns).closing = Net(Before(Start(to) + 1), a)
<1> DEFINE page == get_account_transactions_in_period(a, from, to, 0, MaxTxns)
           B == Before(Start(from))
           D == Within(Start(from), Start(to))
<1>0. Start(from) \in Int /\ Start(to) \in Int /\ Start(from) <= Start(to)
  BY DEF Start
<1>1. page = {t \in Completed(D) : a \in {t.from, t.to}}
  BY WholePage DEF Completed, Within
<1>2. /\ B \subseteq txns /\ D \subseteq txns /\ B \intersect D = {}
      /\ B \union D = Before(Start(to) + 1)
  BY <1>0 DEF Before, Within, FinanceInv, FinanceTypeOK, Rows
<1>3. get_opening_balance_data(a, from) = Net(B, a)
  BY DEF get_opening_balance_data, Net, Before
<1>4. get_account_statement(a, from, to, 0, MaxTxns).closing
        = get_opening_balance_data(a, from)
            + Amount({t \in page : t.to = a}) - Amount({t \in page : t.to # a})
  BY DEF get_account_statement
<1> HIDE DEF page, B, D
<1>5. IsLedger(B) /\ IsLedger(D) /\ \A t \in D : t.from # t.to
  BY <1>2, PartsOfLedger
<1>6. /\ Amount({t \in page : t.to = a}) - Amount({t \in page : t.to # a}) = Net(D, a)
      /\ Amount({t \in page : t.to = a}) \in Nat /\ Amount({t \in page : t.to # a}) \in Nat
  <2>1. Shows(page, D, a)
    BY <1>1, <1>5, PageNet, Zenon
  <2> QED
    BY <2>1 DEF Shows
<1>7. /\ Net(B, a) \in Int /\ Net(D, a) \in Int /\ Net(B \union D, a) = Net(B, a) + Net(D, a)
  BY <1>2, <1>5, NetAdd
<1> QED
  BY <1>2, <1>3, <1>4, <1>6, <1>7

\* Every line of a statement shows the balance the ledger had after its row.
LEMMA RunningBalance ==
  ASSUME FinanceInv, RowsOrdered, NEW a, NEW from \in Nat, NEW to \in Int, from <= to,
         NEW t \in DOMAIN get_account_statement(a, from, to, 0, MaxTxns).running
  PROVE  get_account_statement(a, from, to, 0, MaxTxns).running[t] = LedgerAfter(a, t)
<1> DEFINE page == get_account_transactions_in_period(a, from, to, 0, MaxTxns)
           upto == {u \in page : u.id <= t.id}
           B == Before(Start(from))
           D == {u \in Within(Start(from), Start(to)) : u.id <= t.id}
<1>0. Start(from) \in Int /\ Start(to) \in Int /\ Start(from) <= Start(to)
  BY DEF Start
<1>1. t \in page
  BY DEF get_account_statement
<1>2. page = {u \in Completed(txns) : a \in {u.from, u.to} /\ u.at \in Start(from)..Start(to)}
  BY WholePage
<1>3. t \in txns /\ t.at >= Start(from) /\ t.at <= Start(to)
  BY <1>0, <1>1, <1>2 DEF Completed, FinanceInv, FinanceTypeOK, Rows
<1>4. upto = {u \in Completed(D) : a \in {u.from, u.to}}
  BY <1>2 DEF Completed, Within
<1>5. B \subseteq txns /\ D \subseteq txns /\ B \intersect D = {}
  BY <1>0 DEF Before, Within, FinanceInv, FinanceTypeOK, Rows
<1>6. B \union D = {u \in txns : u.id <= t.id}
  <2>1. \A u \in txns : u.id \in Nat /\ u.at \in Int
    BY DEF FinanceInv, FinanceTypeOK, Rows
  <2>2. \A u \in txns : u.at < Start(from) => u.id <= t.id
    BY <1>0, <1>3, <2>1 DEF RowsOrdered
  <2>3. \A u \in txns : u.id <= t.id => u.at <= Start(to)
    <3>1. \A u \in txns : u.id = t.id => u = t
      BY <1>3 DEF FinanceInv, IdsUnique
    <3> QED
      BY <1>0, <1>3, <2>1, <3>1 DEF RowsOrdered
  <2> QED
    BY <1>0, <2>1, <2>2, <2>3 DEF Before, Within
<1>7. get_opening_balance_data(a, from) = Net(B, a)
  BY DEF get_opening_balance_data, Net, Before
<1>8. get_account_statement(a, from, to, 0, MaxTxns).running[t]
        = get_opening_balance_data(a, from)
            + Amount({u \in upto : u.to = a}) - Amount({u \in upto : u.to # a})
  BY <1>1 DEF get_account_statement
<1>9. LedgerAfter(a, t) = Net({u \in txns : u.id <= t.id}, a)
  BY DEF LedgerAfter, Net
<1> HIDE DEF upto, B, D
<1>10. IsLedger(B) /\ IsLedger(D) /\ \A u \in D : u.from # u.to
  BY <1>5, PartsOfLedger
<1>11. /\ Amount({u \in upto : u.to = a}) - Amount({u \in upto : u.to # a}) = Net(D, a)
       /\ Amount({u \in upto : u.to = a}) \in Nat /\ Amount({u \in upto : u.to # a}) \in Nat
  <2>1. Shows(upto, D, a)
    BY <1>4, <1>10, PageNet, Zenon
  <2> QED
    BY <2>1 DEF Shows
<1>12. Net(B, a) \in Int /\ Net(D, a) \in Int /\ Net(B \union D, a) = Net(B, a) + Net(D, a)
  BY <1>5, <1>10, NetAdd
<1> QED
  BY <1>6, <1>7, <1>8, <1>9, <1>11, <1>12

\* The instant of today's midnight, and now.
LEMMA TodayIs ==
  ASSUME FinanceInv
  PROVE  today \in Nat /\ now \in Nat /\ Start(today) <= now /\ now < Start(today + 1)
BY DEF FinanceInv, FinanceTypeOK, today, DayOf, Start

\* Statements close at the balance.
LEMMA Closes ==
  ASSUME FinanceInv, RowsOrdered
  PROVE  StatementCloses
<1> SUFFICES ASSUME now = Start(today), NEW a \in Accounts, NEW from \in 0..today
             PROVE  LET s == get_account_statement(a, from, today, 0, MaxTxns)
                    IN  /\ s.closing = balance[a]
                        /\ \A t \in DOMAIN s.running : s.running[t] = LedgerAfter(a, t)
  BY DEF StatementCloses
<1>1. today \in Int /\ from \in Nat /\ from <= today
  BY TodayIs
<1>2. Before(Start(today) + 1) = txns
  BY TodayIs DEF Before, RowsOrdered, FinanceInv, FinanceTypeOK, Rows
<1>3. Net(txns, a) = balance[a]
  BY DEF Net, FinanceInv, BooksBalance
<1> QED
  BY <1>1, <1>2, <1>3, ClosingBalance, RunningBalance

\* Adjacent statements join but for the last second.
LEMMA Joins ==
  ASSUME FinanceInv, RowsOrdered
  PROVE  StatementsJoin
<1> SUFFICES ASSUME NEW a \in Accounts, NEW d \in 0..today-1, NEW late,
                    late = {t \in txns : t.at = Start(d) + 1}
             PROVE  get_account_statement(a, 0, d, 0, MaxTxns).closing
                      + AmountIn(late, a) - AmountOut(late, a)
                    = get_account_statement(a, d + 1, d + 1, 0, MaxTxns).opening
  BY DEF StatementsJoin
<1> DEFINE B == Before(Start(d) + 1)
<1>1. d \in Int /\ 0 <= d /\ 0 \in Nat
  BY TodayIs
<1>2. get_account_statement(a, 0, d, 0, MaxTxns).closing = Net(B, a)
  BY <1>1, ClosingBalance
<1>3. get_account_statement(a, d + 1, d + 1, 0, MaxTxns).opening = Net(Before(Start(d + 1)), a)
  BY DEF get_account_statement, get_opening_balance_data, Net, Before
<1>4. /\ B \subseteq txns /\ late \subseteq txns /\ B \intersect late = {}
      /\ B \union late = Before(Start(d + 1))
  BY <1>1 DEF Before, Start, FinanceInv, FinanceTypeOK, Rows
<1> HIDE DEF B
<1>5. IsLedger(B) /\ IsLedger(late)
  BY <1>4, PartsOfLedger
<1>6. AmountsJoin(B, late, a)
  BY <1>4, <1>5, AmountsAdd, Zenon
<1>7. Net(B \union late, a) = Net(B, a) + AmountIn(late, a) - AmountOut(late, a)
  BY <1>6 DEF AmountsJoin, Net
<1> QED
  BY <1>2, <1>3, <1>4, <1>7

-----------------------------------------------------------------------------
(* Filtered lists *)

\* Filters by status, account, amount and time alone.
Narrow(f) ==
  /\ f.from_account = None /\ f.to_account = None /\ f.from_type = None /\ f.to_type = None
  /\ f.order = None /\ f.has_order = None /\ f.user = None /\ f.verified = None

\* What such a filter lists.
LEMMA ListOf ==
  ASSUME NEW f, Narrow(f), NEW t
  PROVE  PartiesMatch(f, t) /\ ValuesMatch(f, t) <=>
           /\ f.account # None => CASE f.direction = "incoming" -> t.to = f.account
                                    [] f.direction = "outgoing" -> t.from = f.account
                                    [] f.direction = "internal" -> t.from = f.account /\ t.to = f.account
                                    [] OTHER -> f.account \in {t.from, t.to}
           /\ f.status \in {None, t.status} /\ f.amount_eq \in {None, t.amount}
           /\ f.amount_from # None => t.amount >= f.amount_from
           /\ f.amount_to # None => t.amount <= f.amount_to
           /\ f.date_from # None => t.at >= f.date_from
           /\ f.date_to # None => t.at <= f.date_to
BY DEF Narrow, PartiesMatch, ValuesMatch

\* A list without a preset.
LEMMA PlainList ==
  ASSUME NEW f, f.preset = None
  PROVE  get_transactions(f) = {t \in txns : PartiesMatch(f, t) /\ ValuesMatch(f, t)}
BY DEF get_transactions, resolve_date_preset

\* The filter for the COMPLETED rows of an account, in one direction or in both.
AccountFilter(f, a, dir) ==
  /\ Narrow(f) /\ f.preset = None /\ f.account = a /\ f.status = "COMPLETED" /\ f.direction = dir
  /\ f.amount_eq = None /\ f.amount_from = None /\ f.amount_to = None
  /\ f.date_from = None /\ f.date_to = None

\* What it lists.
LEMMA AccountList ==
  ASSUME NEW a \in Accounts, NEW dir \in {"incoming", "outgoing", None}, NEW f,
         AccountFilter(f, a, dir)
  PROVE  get_transactions(f)
           = {t \in Completed(txns) : \/ dir = "incoming" /\ t.to = a
                                      \/ dir = "outgoing" /\ t.from = a
                                      \/ dir = None /\ a \in {t.from, t.to}}
<1>0. /\ "COMPLETED" # None /\ a # None
      /\ None # "incoming" /\ None # "outgoing" /\ None # "internal"
  BY FilterAssumption DEF TxnStatuses
<1>1. ASSUME NEW t
      PROVE  PartiesMatch(f, t) /\ ValuesMatch(f, t) <=>
               /\ t.status = "COMPLETED"
               /\ \/ dir = "incoming" /\ t.to = a
                  \/ dir = "outgoing" /\ t.from = a
                  \/ dir = None /\ a \in {t.from, t.to}
  <2>1. PartiesMatch(f, t) /\ ValuesMatch(f, t) <=>
          /\ CASE dir = "incoming" -> t.to = a
               [] dir = "outgoing" -> t.from = a
               [] dir = "internal" -> t.from = a /\ t.to = a
               [] OTHER -> a \in {t.from, t.to}
          /\ t.status = "COMPLETED"
    BY <1>0, ListOf DEF AccountFilter
  <2> QED
    BY <1>0, <2>1
<1>2. get_transactions(f) = {t \in txns : PartiesMatch(f, t) /\ ValuesMatch(f, t)}
  BY PlainList DEF AccountFilter
<1> QED
  BY <1>1, <1>2 DEF Completed

\* In, out, and both.
LEMMA AccountLists ==
  ASSUME NEW a \in Accounts, NEW f,
         f = [NoTransactionFilter EXCEPT !.account = a, !.status = "COMPLETED"]
  PROVE  /\ get_transactions([f EXCEPT !.direction = "incoming"]) = {t \in Completed(txns) : t.to = a}
         /\ get_transactions([f EXCEPT !.direction = "outgoing"]) = {t \in Completed(txns) : t.from = a}
         /\ get_transactions(f) = {t \in Completed(txns) : a \in {t.from, t.to}}
<1> DEFINE In  == [f EXCEPT !.direction = "incoming"]
           Out == [f EXCEPT !.direction = "outgoing"]
<1>0. None # "incoming" /\ None # "outgoing"
  BY FilterAssumption
<1>1. AccountFilter(In, a, "incoming") /\ AccountFilter(Out, a, "outgoing") /\ AccountFilter(f, a, None)
  BY DEF NoTransactionFilter, AccountFilter, Narrow
<1> HIDE DEF In, Out
<1>2. get_transactions(In) = {t \in Completed(txns) : t.to = a}
  BY <1>0, <1>1, AccountList
<1>3. get_transactions(Out) = {t \in Completed(txns) : t.from = a}
  BY <1>0, <1>1, AccountList
<1>4. get_transactions(f) = {t \in Completed(txns) : a \in {t.from, t.to}}
  BY <1>0, <1>1, AccountList
<1> QED
  BY <1>2, <1>3, <1>4 DEF In, Out

\* The list of a preset window.
LEMMA PresetList ==
  ASSUME NEW preset, preset # None, NEW lo \in Int, NEW hi \in Int, PresetWindow(preset) = <<lo, hi>>
  PROVE  get_transactions([NoTransactionFilter EXCEPT !.preset = preset])
           = {t \in txns : t.at >= lo /\ t.at <= hi}
<1> DEFINE f == [NoTransactionFilter EXCEPT !.preset = preset]
           g == [f EXCEPT !.preset = None, !.date_from = lo, !.date_to = hi]
<1>0. lo # None /\ hi # None
  BY FilterAssumption
<1>1. f.preset = preset
  BY DEF NoTransactionFilter
<1>2. /\ Narrow(g) /\ g.account = None /\ g.status = None
      /\ g.amount_eq = None /\ g.amount_from = None /\ g.amount_to = None
      /\ g.date_from = lo /\ g.date_to = hi
  BY DEF NoTransactionFilter, Narrow
<1> HIDE DEF f
<1>3. resolve_date_preset(f) = g
  <2>1. f.preset # None /\ PresetWindow(f.preset)[1] = lo /\ PresetWindow(f.preset)[2] = hi
    BY <1>1
  <2> QED
    BY <2>1 DEF resolve_date_preset
<1> HIDE DEF g
<1>4. \A t : PartiesMatch(g, t) /\ ValuesMatch(g, t) <=> t.at >= lo /\ t.at <= hi
  BY <1>0, <1>2, ListOf
<1>5. get_transactions(f) = {t \in txns : PartiesMatch(g, t) /\ ValuesMatch(g, t)}
  BY <1>3 DEF get_transactions
<1> QED
  BY <1>4, <1>5 DEF f

\* The lists of yesterday and today.
LEMMA TwoDays ==
  ASSUME FinanceInv, RowsOrdered
  PROVE  LET day(preset) == get_transactions([NoTransactionFilter EXCEPT !.preset = preset])
         IN  /\ day("yesterday") \union day("today") = {t \in txns : t.at >= Start(today - 1)}
             /\ day("yesterday") \intersect day("today") = {t \in txns : t.at = Start(today)}
<1> DEFINE day(preset) == get_transactions([NoTransactionFilter EXCEPT !.preset = preset])
<1>1. /\ Start(today - 1) \in Int /\ Start(today) \in Int /\ Start(today + 1) \in Int
      /\ Start(today - 1) < Start(today) /\ Start(today) < Start(today + 1)
      /\ now \in Int /\ now < Start(today + 1)
  BY TodayIs DEF Start
<1>2. /\ PresetWindow("yesterday") = <<Start(today - 1), Start(today)>>
      /\ PresetWindow("today") = <<Start(today), Start(today + 1)>>
      /\ "yesterday" # None /\ "today" # None
  BY FilterAssumption DEF PresetWindow
<1>3. day("yesterday") = {t \in txns : t.at >= Start(today - 1) /\ t.at <= Start(today)}
  BY <1>1, <1>2, PresetList
<1>4. day("today") = {t \in txns : t.at >= Start(today) /\ t.at <= Start(today + 1)}
  BY <1>1, <1>2, PresetList
<1>5. \A t \in txns : t.at \in Int /\ t.at <= now
  BY DEF RowsOrdered, FinanceInv, FinanceTypeOK, Rows
<1> HIDE DEF day
<1>6. day("yesterday") \union day("today") = {t \in txns : t.at >= Start(today - 1)}
  BY <1>1, <1>3, <1>4, <1>5
<1>7. day("yesterday") \intersect day("today") = {t \in txns : t.at = Start(today)}
  BY <1>1, <1>3, <1>4, <1>5
<1> QED
  BY <1>6, <1>7 DEF day

\* Ranges of amounts.
LEMMA AmountLists ==
  ASSUME FinanceInv, NEW lo \in 1..MaxAmount, NEW hi \in 1..MaxAmount, NEW f,
         f = [NoTransactionFilter EXCEPT !.amount_from = lo, !.amount_to = hi]
  PROVE  LET only(n) == get_transactions([NoTransactionFilter EXCEPT !.amount_eq = n])
         IN  IF TransactionFilterValid(f) THEN get_transactions(f) = UNION {only(n) : n \in lo..hi}
             ELSE get_transactions(f) = {}
<1> DEFINE only(n) == get_transactions([NoTransactionFilter EXCEPT !.amount_eq = n])
<1>0. /\ lo \in Int /\ hi \in Int /\ lo # None /\ hi # None
      /\ \A n \in lo..hi : n # None
      /\ \A t \in txns : t.amount \in Int
  BY FinanceAssumption, FilterAssumption DEF FinanceInv, FinanceTypeOK, Rows
<1>1. get_transactions(f) = {t \in txns : t.amount >= lo /\ t.amount <= hi}
  <2>1. /\ Narrow(f) /\ f.preset = None /\ f.account = None /\ f.status = None
        /\ f.amount_eq = None /\ f.amount_from = lo /\ f.amount_to = hi
        /\ f.date_from = None /\ f.date_to = None
    BY DEF NoTransactionFilter, Narrow
  <2>2. \A t : PartiesMatch(f, t) /\ ValuesMatch(f, t) <=> t.amount >= lo /\ t.amount <= hi
    BY <1>0, <2>1, ListOf
  <2> QED
    BY <2>1, <2>2, PlainList
<1>2. ASSUME NEW n \in lo..hi PROVE only(n) = {t \in txns : t.amount = n}
  <2>1. ASSUME NEW g, g = [NoTransactionFilter EXCEPT !.amount_eq = n]
        PROVE  get_transactions(g) = {t \in txns : t.amount = n}
    BY <1>0, <2>1, PlainList DEF NoTransactionFilter, PartiesMatch, ValuesMatch
  <2> QED
    BY <2>1
<1>3. TransactionFilterValid(f) <=> lo <= hi
  BY <1>0 DEF TransactionFilterValid, NoTransactionFilter
<1> HIDE DEF only
<1>4. lo <= hi => get_transactions(f) = UNION {only(n) : n \in lo..hi}
  BY <1>0, <1>1, <1>2
<1>5. ~(lo <= hi) => get_transactions(f) = {}
  BY <1>0, <1>1
<1> QED
  BY <1>3, <1>4, <1>5 DEF only

\* Filtered lists explain the balances.
LEMMA ListsExplain ==
  ASSUME FinanceInv, RowsOrdered
  PROVE  ListExplainsBalance
<1>1. ASSUME NEW a \in Accounts
      PROVE  LET f == [NoTransactionFilter EXCEPT !.account = a, !.status = "COMPLETED"]
                 In  == get_transactions([f EXCEPT !.direction = "incoming"])
                 Out == get_transactions([f EXCEPT !.direction = "outgoing"])
             IN  balance[a] = Amount(In) - Amount(Out) /\ In \union Out = get_transactions(f)
  <2> DEFINE f == [NoTransactionFilter EXCEPT !.account = a, !.status = "COMPLETED"]
             In  == get_transactions([f EXCEPT !.direction = "incoming"])
             Out == get_transactions([f EXCEPT !.direction = "outgoing"])
  <2>1. /\ In = {t \in Completed(txns) : t.to = a} /\ Out = {t \in Completed(txns) : t.from = a}
        /\ get_transactions(f) = {t \in Completed(txns) : a \in {t.from, t.to}}
    BY AccountLists, Zenon
  <2> HIDE DEF f, In, Out
  <2>2. In \subseteq txns /\ Out \subseteq txns
    BY <2>1 DEF Completed
  <2>3. IsLedger(txns)
    BY TypedLedger DEF FinanceInv, FinanceTypeOK
  <2>4. Amount(In) = AmountIn(txns, a) /\ Amount(Out) = AmountOut(txns, a)
    BY <2>1, <2>2, <2>3, AmountsOver DEF Amount, AmountIn, AmountOut
  <2>5. balance[a] = Amount(In) - Amount(Out) /\ In \union Out = get_transactions(f)
    BY <2>1, <2>4 DEF FinanceInv, BooksBalance
  <2> QED
    BY <2>5, Zenon DEF f, In, Out
<1>2. \A lo, hi \in 1..MaxAmount :
        LET f == [NoTransactionFilter EXCEPT !.amount_from = lo, !.amount_to = hi]
            only(n) == get_transactions([NoTransactionFilter EXCEPT !.amount_eq = n])
        IN  IF TransactionFilterValid(f) THEN get_transactions(f) = UNION {only(n) : n \in lo..hi}
            ELSE get_transactions(f) = {}
  BY AmountLists, Zenon
<1> QED
  BY <1>1, <1>2, TwoDays, Zenon DEF ListExplainsBalance

-----------------------------------------------------------------------------
(* Sales and the rows that charge them *)

\* Every sale has its debt row, of the same id and amount, and every debt row
\* its sale.
SalesBooked ==
  /\ IsFiniteSet(sales)
  /\ \A s \in sales : /\ s.id \in Nat /\ s.id < nextId /\ s.total \in Nat
                      /\ s.created \in Nat /\ s.created <= now
  /\ \A s, r \in sales : s.id = r.id => s = r
  /\ \A s \in sales : \E t \in txns : t.kind = "debt" /\ t.id = s.id /\ t.amount = s.total
  /\ \A t \in txns : t.kind = "debt" => \E s \in sales : s.id = t.id

\* Rows that charge nothing leave the sales as they are.
LEMMA ManualBooked ==
  ASSUME FinanceInv, SalesBooked, SomeManual \/ SomePayment
  PROVE  SalesBooked'
<1>1. PICK id, from, to, amount, st, order : Insert({Row(id, "manual", from, to, amount, st, order)})
  BY DEF SomeManual, SomePayment, create_transaction, accept_payment
<1>2. UNCHANGED <<sales, now>>
  BY DEF SomeManual, SomePayment, create_transaction, accept_payment
<1> DEFINE row == Row(id, "manual", from, to, amount, st, order)
<1>3. row.kind = "manual"
  BY DEF Row
<1> HIDE DEF row
<1>4. Cardinality({row}) = 1
  BY FS_Singleton
<1>5. txns' = txns \union {row} /\ nextId' = nextId + 1
  BY <1>1, <1>4 DEF Insert, row
<1>6. nextId \in Nat
  BY DEF FinanceInv, FinanceTypeOK
<1>7. \A s \in sales : s.id < nextId'
  BY <1>5, <1>6 DEF SalesBooked
<1>8. \A s \in sales : \E t \in txns' : t.kind = "debt" /\ t.id = s.id /\ t.amount = s.total
  BY <1>5 DEF SalesBooked
<1>9. \A t \in txns' : t.kind = "debt" => \E s \in sales : s.id = t.id
  BY <1>3, <1>5 DEF SalesBooked
<1> QED
  BY <1>2, <1>7, <1>8, <1>9 DEF SalesBooked

\* A settlement adds a sale and its debt row.
LEMMA SaleBooked ==
  ASSUME FinanceInv, FinanceInv', SalesBooked, SomeSettlement
  PROVE  SalesBooked'
<1>1. PICK revenue \in Having("revenue"), client \in Having("client"), card \in Having("card"),
           method \in Methods, total \in 1..MaxAmount, created \in 0..now :
        \/ \E courier \in Having("courier") :
             process_financial_settlement(nextId, revenue, client, courier, card, method, total, created)
        \/ \E cash \in Having("cash") :
             process_pickup_settlement(nextId, revenue, client, cash, card, method, total, created)
  BY DEF SomeSettlement
<1>2. PICK cash, status :
        /\ Insert(Settlement(nextId, revenue, client, cash, card, method, total))
        /\ sales' = sales \union {Sale(nextId, client, method, total, created, status)}
  BY <1>1 DEF process_financial_settlement, process_pickup_settlement
<1>3. now' = now
  BY <1>1 DEF process_financial_settlement, process_pickup_settlement
<1>4. PICK debt : debt = Row(nextId, "debt", revenue, client, total, "COMPLETED", nextId)
  OBVIOUS
<1>5. PICK rest : /\ Settlement(nextId, revenue, client, cash, card, method, total) = {debt} \union rest
                  /\ \A t \in rest : t.kind = "payment"
  <2> DEFINE paid == Row(nextId + 1, "payment", client, cash, total, "COMPLETED", nextId)
             wait == Row(nextId + 1, "payment", client, card, total, "PENDING", nextId)
             more == (IF method = "CASH" THEN {paid} ELSE {}) \union (IF method = "CARD" THEN {wait} ELSE {})
  <2>1. Settlement(nextId, revenue, client, cash, card, method, total) = {debt} \union more
    BY <1>4 DEF Settlement
  <2>2. paid.kind = "payment" /\ wait.kind = "payment"
    BY DEF Row
  <2> HIDE DEF paid, wait
  <2>3. \A t \in more : t.kind = "payment"
    BY <2>2
  <2> HIDE DEF more
  <2> QED
    BY <2>1, <2>3
<1>6. PICK sale : sale = Sale(nextId, client, method, total, created, status)
  OBVIOUS
<1>7. /\ debt.kind = "debt" /\ debt.id = nextId /\ debt.amount = total
      /\ sale.id = nextId /\ sale.total = total /\ sale.created = created
  BY <1>4, <1>6 DEF Row, Sale
<1>8. txns' = txns \union ({debt} \union rest) /\ sales' = sales \union {sale}
  BY <1>2, <1>5, <1>6 DEF Insert
<1>9. /\ nextId \in Nat /\ nextId' \in Nat /\ now \in Nat /\ total \in Nat
      /\ created \in Nat /\ created <= now
  BY FinanceAssumption DEF FinanceInv, FinanceTypeOK
<1>10. nextId < nextId'
  <2>1. debt \in txns'
    BY <1>8
  <2> QED
    BY <1>7, <2>1 DEF FinanceInv, IdsUnique
<1>11. IsFiniteSet(sales')
  BY <1>8, FS_AddElement DEF SalesBooked
<1>12. \A s \in sales' : /\ s.id \in Nat /\ s.id < nextId' /\ s.total \in Nat
                         /\ s.created \in Nat /\ s.created <= now'
  BY <1>3, <1>7, <1>8, <1>9, <1>10 DEF SalesBooked
<1>13. \A s, r \in sales' : s.id = r.id => s = r
  BY <1>7, <1>8, <1>9 DEF SalesBooked
<1>14. \A s \in sales' : \E t \in txns' : t.kind = "debt" /\ t.id = s.id /\ t.amount = s.total
  <2>1. debt \in txns' /\ txns \subseteq txns'
    BY <1>8
  <2>2. \A s \in sales : \E t \in txns : t.kind = "debt" /\ t.id = s.id /\ t.amount = s.total
    BY DEF SalesBooked
  <2> QED
    BY <1>7, <1>8, <2>1, <2>2
<1>15. \A t \in txns' : t.kind = "debt" => \E s \in sales' : s.id = t.id
  BY <1>5, <1>7, <1>8 DEF SalesBooked
<1> QED
  BY <1>11, <1>12, <1>13, <1>14, <1>15 DEF SalesBooked

\* One step keeps sales and debt rows together: a decision changes neither.
LEMMA BookedNext ==
  ASSUME FinanceInv, FinanceInv', SalesBooked, [Next]_finVars
  PROVE  SalesBooked'
<1>1. CASE SomeDecision
  <2>1. PICK t \in txns, st \in {"COMPLETED", "REJECTED"} : Decide(t, st)
    BY <1>1 DEF SomeDecision, verify_transaction, reject_transaction
  <2> DEFINE u == [t EXCEPT !.status = st, !.verified = TRUE]
  <2>2. u.id = t.id /\ u.kind = t.kind /\ u.amount = t.amount
    BY DEF FinanceInv, FinanceTypeOK, Rows
  <2>3. txns' = (txns \ {t}) \union {u} /\ UNCHANGED <<sales, nextId, now>>
    BY <2>1 DEF Decide
  <2> HIDE DEF u
  <2>4. \A s \in sales : \E x \in txns' : x.kind = "debt" /\ x.id = s.id /\ x.amount = s.total
    <3> SUFFICES ASSUME NEW s \in sales
                 PROVE  \E x \in txns' : x.kind = "debt" /\ x.id = s.id /\ x.amount = s.total
      OBVIOUS
    <3>1. PICK x \in txns : x.kind = "debt" /\ x.id = s.id /\ x.amount = s.total
      BY DEF SalesBooked
    <3>2. x \in txns' \/ x = t
      BY <2>3
    <3>3. u \in txns'
      BY <2>3
    <3> QED
      BY <2>2, <3>1, <3>2, <3>3
  <2>5. \A x \in txns' : x.kind = "debt" => \E s \in sales : s.id = x.id
    BY <2>2, <2>3 DEF SalesBooked
  <2> QED
    BY <2>3, <2>4, <2>5 DEF SalesBooked
<1>2. CASE Tick
  <2>1. now' = now + 1 /\ UNCHANGED <<txns, balance, sales, nextId>> /\ now \in Nat
    BY <1>2 DEF Tick, FinanceInv, FinanceTypeOK
  <2>2. \A s \in sales : s.created <= now'
    BY <2>1 DEF SalesBooked
  <2> QED
    BY <2>1, <2>2 DEF SalesBooked
<1>3. CASE UNCHANGED finVars
  BY <1>3 DEF finVars, SalesBooked
<1> QED
  BY <1>1, <1>2, <1>3, ManualBooked, SaleBooked DEF Next

-----------------------------------------------------------------------------
(* The day of a courier *)

\* Amounts of some rows as a sum over the ledger.
LEMMA AmountIs ==
  ASSUME FinanceInv, NEW S, S \subseteq txns
  PROVE  /\ IsSummable(AmountOf(txns), S) /\ Amount(S) = SumOver(AmountOf(txns), S)
         /\ Amount(S) \in Nat
<1>1. IsLedger(txns)
  BY TypedLedger DEF FinanceInv, FinanceTypeOK
<1> QED
  BY <1>1, AmountsOver DEF Amount

\* What the key figures of everything up to today are computed from.
LEMMA KeyFigures ==
  ASSUME FinanceInv, RowsOrdered
  PROVE  /\ get_summary_kpis(0, today).collected = Amount({t \in Completed(txns) : AccountType[t.to] = "courier"})
         /\ get_summary_kpis(0, today).deposited = Amount({t \in Completed(txns) : AccountType[t.from] = "courier"})
         /\ get_summary_kpis(0, today).debt = BalanceOf(Debtors)
         /\ get_summary_kpis(0, today).overdue
              = BalanceOf({a \in Debtors : SinceLastPayment(a) > Start(AgingLimits[1])})
<1> DEFINE rows == {t \in txns : t.at \in Start(0) .. Start(today + 1) - 1}
           k == get_summary_kpis(0, today)
<1>1. /\ today \in Nat /\ now \in Nat /\ now < Start(today + 1) /\ Start(0) = 0
      /\ Start(today + 1) \in Int
  BY TodayIs DEF Start
<1>2. \A t \in txns : t.at \in Nat /\ t.at <= now
  BY DEF RowsOrdered, FinanceInv, FinanceTypeOK, Rows
<1>3. rows = txns
  BY <1>1, <1>2
<1>4. /\ k.collected = Amount({t \in Completed(rows) : AccountType[t.to] = "courier"})
      /\ k.deposited = Amount({t \in Completed(rows) : AccountType[t.from] = "courier"})
      /\ k.debt = BalanceOf(Debtors)
      /\ k.overdue = BalanceOf({a \in Debtors : SinceLastPayment(a) > Start(AgingLimits[1])})
  BY DEF get_summary_kpis
<1> QED
  BY <1>3, <1>4, Zenon

\* Balances of accounts of a type are what their rows bring and take.
LEMMA BalanceOfType ==
  ASSUME FinanceInv, NEW type
  PROVE  BalanceOf(Having(type)) = Amount({t \in Completed(txns) : AccountType[t.to] = type})
                                     - Amount({t \in Completed(txns) : AccountType[t.from] = type})
<1> DEFINE K == Having(type)
           f == AmountOf(txns)
           S == {t \in Completed(txns) : AccountType[t.to] = type}
           T == {t \in Completed(txns) : AccountType[t.from] = type}
           h == [t \in txns |-> t.to]
           k == [t \in txns |-> t.from]
<1>1. IsFiniteSet(K) /\ K \subseteq Accounts
  BY FinanceAssumption, FS_Subset DEF Having
<1>2. S \subseteq txns /\ T \subseteq txns
  BY DEF Completed
<1>3. (\A t \in S : h[t] \in K) /\ (\A t \in T : k[t] \in K)
  BY <1>2 DEF Having, FinanceInv, FinanceTypeOK, Rows
<1>4. \A a \in K : balance[a] = SumOver(f, {t \in S : h[t] = a}) - SumOver(f, {t \in T : k[t] = a})
  <2> SUFFICES ASSUME NEW a \in K
               PROVE  balance[a] = SumOver(f, {t \in S : h[t] = a}) - SumOver(f, {t \in T : k[t] = a})
    OBVIOUS
  <2>1. /\ {t \in S : h[t] = a} = {t \in Completed(txns) : t.to = a}
        /\ {t \in T : k[t] = a} = {t \in Completed(txns) : t.from = a}
    BY <1>2 DEF Having
  <2>2. balance[a] = AmountIn(txns, a) - AmountOut(txns, a)
    BY <1>1 DEF FinanceInv, BooksBalance
  <2>3. /\ AmountIn(txns, a) = SumOver(f, {t \in Completed(txns) : t.to = a})
        /\ AmountOut(txns, a) = SumOver(f, {t \in Completed(txns) : t.from = a})
    BY DEF AmountIn, AmountOut
  <2> HIDE DEF f, S, T, h, k, K
  <2> QED
    BY <2>1, <2>2, <2>3, Zenon
<1> HIDE DEF f, S, T, h, k, K
<1>5. /\ IsSummable(f, S) /\ Amount(S) = SumOver(f, S)
      /\ IsSummable(f, T) /\ Amount(T) = SumOver(f, T)
  BY <1>2, AmountIs DEF f
<1>6. SignedGroups(balance, K, f, S, h, f, T, k)
  BY <1>1, <1>3, <1>4, <1>5, Zenon DEF SignedGroups
<1>7. SignedSum(balance, K) = SumOver(f, S) - SumOver(f, T)
  BY <1>6, SignedGrouped
<1>8. BalanceOf(K) = Amount(S) - Amount(T)
  BY <1>5, <1>7 DEF BalanceOf
<1> QED
  BY <1>8 DEF K, S, T

\* The day so far is what the opening balance lacks.
LEMMA CourierDay ==
  ASSUME FinanceInv, RowsOrdered, NEW a \in Accounts
  PROVE  balance[a] = get_opening_balance_data(a, today)
           + Amount({t \in get_today_transactions_for_account(a) : t.to = a})
           - Amount({t \in get_today_transactions_for_account(a) : t.from = a})
<1> DEFINE P == get_today_transactions_for_account(a)
           B == Before(Start(today))
           D == {t \in txns : t.at >= Start(today)}
<1>1. Start(today) \in Int
  BY TodayIs DEF Start
<1>2. /\ B \subseteq txns /\ D \subseteq txns /\ B \intersect D = {} /\ B \union D = txns
  BY <1>1 DEF Before, FinanceInv, FinanceTypeOK, Rows
<1>3. P = {t \in Completed(D) : a \in {t.from, t.to}}
  BY DEF get_today_transactions_for_account, Completed
<1>4. get_opening_balance_data(a, today) = Net(B, a)
  BY DEF get_opening_balance_data, Net, Before
<1>5. balance[a] = Net(txns, a)
  BY DEF FinanceInv, BooksBalance, Net
<1> HIDE DEF P, B, D
<1>6. IsLedger(B) /\ IsLedger(D) /\ \A t \in D : t.from # t.to
  BY <1>2, PartsOfLedger
<1>7. Shows(P, D, a)
  BY <1>3, <1>6, PageNet, Zenon
<1>8. {t \in P : t.from = a} = {t \in P : t.to # a}
  BY <1>3, <1>6 DEF Completed
<1>9. Amount({t \in P : t.to = a}) - Amount({t \in P : t.from = a}) = Net(D, a)
  BY <1>7, <1>8, Zenon DEF Shows
<1>10. Amount({t \in P : t.to = a}) \in Nat /\ Amount({t \in P : t.from = a}) \in Nat
  BY <1>7, <1>8, Zenon DEF Shows
<1>11. Net(B, a) \in Int /\ Net(D, a) \in Int /\ Net(B \union D, a) = Net(B, a) + Net(D, a)
  BY <1>2, <1>6, NetAdd
<1>12. Net(txns, a) = Net(B, a) + Net(D, a)
  BY <1>2, <1>11, Zenon
<1> QED
  BY <1>4, <1>5, <1>9, <1>10, <1>11, <1>12 DEF P

LEMMA CourierDays ==
  ASSUME FinanceInv, RowsOrdered
  PROVE  CourierDayAddsUp
<1> DEFINE r == get_couriers_summary
           In(a)  == Amount({t \in get_today_transactions_for_account(a) : t.to = a})
           Out(a) == Amount({t \in get_today_transactions_for_account(a) : t.from = a})
<1>1. /\ r.couriers = [a \in Having("courier") |->
                         [cash_balance |-> balance[a], today_collected |-> In(a), today_deposited |-> Out(a)]]
      /\ r.total_courier_cash = BalanceOf({a \in Having("courier") : balance[a] > 0})
  BY DEF get_couriers_summary
<1>2. get_dashboard.total_courier_cash = BalanceOf({a \in Having("courier") : balance[a] > 0})
  BY DEF get_dashboard, get_total_courier_cash
<1>3. \A a \in Having("courier") : balance[a] = get_opening_balance_data(a, today) + In(a) - Out(a)
  BY CourierDay DEF Having
<1> HIDE DEF r, In, Out
<1>4. ASSUME NEW a \in Having("courier")
      PROVE  r.couriers[a].cash_balance = get_opening_balance_data(a, today)
               + r.couriers[a].today_collected - r.couriers[a].today_deposited
  <2>1. r.couriers[a] = [cash_balance |-> balance[a], today_collected |-> In(a), today_deposited |-> Out(a)]
    BY <1>1
  <2> QED
    BY <1>3, <2>1
<1>5. BalanceOf(Having("courier")) = get_summary_kpis(0, today).collected - get_summary_kpis(0, today).deposited
  BY BalanceOfType, KeyFigures
<1> QED
  BY <1>1, <1>2, <1>4, <1>5 DEF CourierDayAddsUp, r

-----------------------------------------------------------------------------
(* Debts *)

\* Client accounts that owe something.
Owing == {a \in Having("client") : balance[a] > 0}

LEMMA DebtIs ==
  ASSUME FinanceInv, NEW A, A \subseteq Owing
  PROVE  /\ IsSummable(balance, A) /\ BalanceOf(A) = SumOver(balance, A) /\ BalanceOf(A) \in Nat
<1>1. IsFiniteSet(A)
  BY FinanceAssumption, FS_Subset DEF Owing, Having
<1>2. \A a \in A : balance[a] \in Nat
  BY DEF Owing, Having, FinanceInv, FinanceTypeOK
<1>3. IsSummable(balance, A)
  BY <1>1, <1>2 DEF IsSummable
<1> QED
  BY <1>3, SignedNatural, SumNat DEF BalanceOf

\* A debtor is in the first bucket unless he is overdue.
LEMMA FirstBucket ==
  ASSUME FinanceInv, NEW a
  PROVE  Bucket(a) = 1 <=> ~(SinceLastPayment(a) > Start(AgingLimits[1]))
<1> DEFINE paid == {t \in Completed(txns) : t.from = a}
           at == [t \in txns |-> t.at]
           M == {0} \union {t.at : t \in paid}
           S == {n \in 1..Len(AgingLimits) : SinceLastPayment(a) <= Start(AgingLimits[n])}
                  \union {Len(AgingLimits) + 1}
<1>1. SinceLastPayment(a) \in Int
  <2>1. paid \subseteq txns /\ IsFiniteSet(paid)
    BY FS_Subset DEF Completed, FinanceInv
  <2>2. {t.at : t \in paid} = {at[t] : t \in paid}
    BY <2>1
  <2>3. IsFiniteSet({at[t] : t \in paid})
    <3> HIDE DEF paid, at
    <3> QED
      BY <2>1, FiniteImage
  <2>4. IsFiniteSet(M)
    BY <2>2, <2>3, FS_Singleton, FS_Union
  <2>5. M \subseteq Int /\ M # {}
    BY <2>1 DEF FinanceInv, FinanceTypeOK, Rows
  <2>6. SinceLastPayment(a) = now - Max(M)
    BY DEF SinceLastPayment
  <2> HIDE DEF M
  <2>7. \E x \in M : \A y \in M : x >= y
    BY <2>4, <2>5, FiniteExtremes
  <2>8. PICK m : m = Max(M)
    OBVIOUS
  <2>9. m \in M
    BY <2>7, <2>8 DEF Max
  <2>10. now \in Int /\ SinceLastPayment(a) = now - m
    BY <2>6, <2>8, TodayIs
  <2> QED
    BY <2>5, <2>9, <2>10
<1>2. Len(AgingLimits) \in Nat /\ Len(AgingLimits) >= 1 /\ AgingLimits[1] \in Nat
  BY AgingAssumption
<1>3. Start(AgingLimits[1]) \in Int
  BY <1>2 DEF Start
<1>4. Bucket(a) = Min(S)
  BY DEF Bucket
<1>5. S \subseteq 1..Len(AgingLimits) + 1 /\ S # {}
  BY <1>2
<1>6. 1 \in S <=> ~(SinceLastPayment(a) > Start(AgingLimits[1]))
  BY <1>1, <1>2, <1>3
<1>7. IsFiniteSet(S) /\ S \subseteq Int
  <2>1. IsFiniteSet(1..Len(AgingLimits) + 1)
    BY <1>2, FS_Interval
  <2> QED
    BY <1>2, <1>5, <2>1, FS_Subset
<1>8. \A y \in S : 1 <= y
  BY <1>2, <1>5
<1> HIDE DEF S
<1>9. \E x \in S : \A y \in S : x <= y
  BY <1>5, <1>7, FiniteExtremes
<1>10. PICK m : m = Min(S)
  OBVIOUS
<1>11. m \in S /\ \A y \in S : m <= y
  BY <1>9, <1>10 DEF Min
<1>12. m = 1 <=> 1 \in S
  BY <1>7, <1>8, <1>11
<1> QED
  BY <1>4, <1>6, <1>10, <1>12

\* The buckets of the aging report add up to what its debtors owe, and the
\* first bucket is what is not overdue.
LEMMA AgingIs ==
  ASSUME FinanceInv
  PROVE  /\ get_debt_aging.total_debt = BalanceOf(Debtors)
         /\ BalanceOf({a \in Debtors : SinceLastPayment(a) > Start(AgingLimits[1])})
              = get_debt_aging.total_debt
                  - (IF 1 \in DOMAIN get_debt_aging.buckets THEN get_debt_aging.buckets[1] ELSE 0)
<1> DEFINE key == [a \in Debtors |-> Bucket(a)]
           labels == {Bucket(a) : a \in Debtors}
           of(n) == {a \in Debtors : Bucket(a) = n}
           g == [n \in labels |-> BalanceOf(of(n))]
           late == {a \in Debtors : SinceLastPayment(a) > Start(AgingLimits[1])}
<1>1. get_debt_aging.buckets = g /\ get_debt_aging.total_debt = SignedSum(g, labels)
  BY DEF get_debt_aging
<1>2. Debtors \subseteq Owing /\ \A n : of(n) \subseteq Owing
  BY DEF Debtors, Owing
<1>3. \A n : of(n) = {a \in Debtors : key[a] = n}
  OBVIOUS
<1>4. labels = {key[a] : a \in Debtors}
  OBVIOUS
<1>5. late = Debtors \ of(1) /\ of(1) \subseteq Debtors
  BY FirstBucket
<1>6. 1 \in labels <=> of(1) # {}
  OBVIOUS
<1>7. DOMAIN g = labels /\ \A n \in labels : g[n] = BalanceOf(of(n))
  OBVIOUS
<1>8. \A a \in Debtors : key[a] \in labels
  OBVIOUS
<1> HIDE DEF key, labels, of, g, late
<1>9. IsSummable(balance, Debtors) /\ BalanceOf(Debtors) = SumOver(balance, Debtors)
  BY <1>2, DebtIs
<1>10. \A n : BalanceOf(of(n)) = SumOver(balance, of(n))
  BY <1>2, DebtIs
<1>11. IsFiniteSet(labels)
  BY <1>4, <1>9, FiniteImage DEF IsSummable
<1>12. \A n \in labels : g[n] = SumOver(balance, {a \in Debtors : key[a] = n})
  BY <1>3, <1>7, <1>10, Zenon
<1>13. Grouped(balance, Debtors, key, labels, g)
  BY <1>8, <1>12, Zenon DEF Grouped
<1>14. SumOver(balance, Debtors) = SumOver(g, labels) /\ IsSummable(g, labels)
  BY <1>9, <1>11, <1>13, SumGrouped
<1>15. SignedSum(g, labels) = SumOver(g, labels)
  BY <1>14, SignedNatural
<1>16. get_debt_aging.total_debt = BalanceOf(Debtors)
  BY <1>1, <1>9, <1>14, <1>15
<1>17. /\ SumOver(balance, Debtors) = SumOver(balance, of(1)) + SumOver(balance, Debtors \ of(1))
       /\ SumOver(balance, of(1)) \in Nat /\ SumOver(balance, Debtors \ of(1)) \in Nat
  BY <1>5, <1>9, SumSplit
<1>18. BalanceOf(late) = SumOver(balance, Debtors \ of(1))
  <2>1. late \subseteq Owing
    BY <1>2, <1>5
  <2>2. BalanceOf(late) = SumOver(balance, late)
    BY <2>1, DebtIs
  <2> QED
    BY <1>5, <2>2, Zenon
<1>19. (IF 1 \in DOMAIN g THEN g[1] ELSE 0) = SumOver(balance, of(1))
  <2>1. CASE 1 \in labels
    BY <1>7, <1>10, <2>1
  <2>2. CASE 1 \notin labels
    <3>1. SumOver(balance, of(1)) = 0
      BY <1>6, <2>2, SumEmpty
    <3> QED
      BY <1>7, <2>2, <3>1
  <2> QED
    BY <2>1, <2>2
<1>20. BalanceOf(late) = BalanceOf(Debtors) - (IF 1 \in DOMAIN g THEN g[1] ELSE 0)
  BY <1>9, <1>17, <1>18, <1>19
<1> QED
  BY <1>1, <1>16, <1>20 DEF late

LEMMA DebtFigures ==
  ASSUME FinanceInv, RowsOrdered
  PROVE  DebtFiguresAgree
<1> DEFINE walk == {a \in Having("client") : balance[a] > 0 /\ Owner[a] \in Excluded}
           debts == get_client_debts(0)
           f == [NoAccountFilter EXCEPT !.has_debt = TRUE]
<1>1. get_dashboard.total_client_debt = BalanceOf(Owing) /\ debts.total_debt = BalanceOf(Owing)
  BY DEF get_dashboard, get_client_debts, get_total_client_debt, Owing
<1>2. debts.clients = [a \in Owing |-> balance[a]]
  <2>1. {a \in Having("client") : balance[a] > 0 /\ (0 > 0 => balance[a] >= 0)} = Owing
    BY DEF Owing
  <2>2. debts.clients = [a \in {b \in Having("client") : balance[b] > 0 /\ (0 > 0 => balance[b] >= 0)} |-> balance[a]]
    BY DEF get_client_debts
  <2> QED
    BY <2>1, <2>2
<1>3. SignedSum(debts.clients, DOMAIN debts.clients) = BalanceOf(Owing)
  <2> HIDE DEF debts
  <2>1. DOMAIN debts.clients = Owing /\ \A a \in Owing : debts.clients[a] = balance[a]
    BY <1>2
  <2> QED
    BY <2>1, SignedSame DEF BalanceOf
<1>4. get_accounts_summary(f).sum_balance = BalanceOf(Owing)
  <2>1. /\ f.type = None /\ f.user = None /\ f.role = None /\ f.balance_from = None
        /\ f.balance_to = None /\ f.is_in_credit = None /\ f.zero_balance = FALSE /\ f.has_debt = TRUE
    BY DEF NoAccountFilter
  <2> HIDE DEF f
  <2>2. get_accounts(f) = Owing
    BY <2>1 DEF get_accounts, Owing, Having
  <2>3. get_accounts_summary(f).sum_balance = BalanceOf(get_accounts(f))
    BY DEF get_accounts_summary
  <2> QED
    BY <2>2, <2>3, Zenon
<1>5. BalanceOf(Owing) = BalanceOf(Debtors) + BalanceOf(walk)
  <2>1. Debtors \subseteq Owing /\ walk \subseteq Owing /\ Owing = Debtors \union walk /\ Debtors \intersect walk = {}
    BY DEF Debtors, Owing
  <2> HIDE DEF walk
  <2>2. /\ IsSummable(balance, Debtors) /\ BalanceOf(Debtors) = SumOver(balance, Debtors)
        /\ IsSummable(balance, walk) /\ BalanceOf(walk) = SumOver(balance, walk)
    BY <2>1, DebtIs
  <2>3. BalanceOf(Owing) = SumOver(balance, Owing)
    BY DebtIs
  <2>4. SumOver(balance, Debtors \union walk) = SumOver(balance, Debtors) + SumOver(balance, walk)
    BY <2>1, <2>2, SumDisjoint
  <2> QED
    BY <2>1, <2>2, <2>3, <2>4, Zenon
<1>6. get_top_debtors(1).total_debt = BalanceOf(Debtors)
  BY DEF get_top_debtors
<1>7. get_b2b_contract_debts.total_debt = get_dashboard.total_b2b_debt
  BY DEF get_b2b_contract_debts, get_dashboard
<1>8. /\ get_debt_aging.total_debt = BalanceOf(Debtors)
      /\ get_summary_kpis(0, today).debt = BalanceOf(Debtors)
      /\ get_summary_kpis(0, today).overdue
           = get_debt_aging.total_debt
               - (IF 1 \in DOMAIN get_debt_aging.buckets THEN get_debt_aging.buckets[1] ELSE 0)
  BY AgingIs, KeyFigures
<1> HIDE DEF walk, debts, f
<1> QED
  BY <1>1, <1>3, <1>4, <1>5, <1>6, <1>7, <1>8 DEF DebtFiguresAgree, walk, debts, f

-----------------------------------------------------------------------------
(* Revenue *)

TotalOf == [s \in sales |-> s.total]

LEMMA TotalIs ==
  ASSUME SalesBooked, NEW S, S \subseteq sales
  PROVE  IsSummable(TotalOf, S) /\ Total(S) = SumOver(TotalOf, S) /\ Total(S) \in Nat
<1>1. IsSummable(TotalOf, S)
  BY FS_Subset DEF SalesBooked, IsSummable, TotalOf
<1>2. \A s \in S : [r \in S |-> r.total][s] = TotalOf[s]
  BY DEF TotalOf
<1> QED
  BY <1>1, <1>2, SumSame, SumNat DEF Total

\* The sales are what the debt rows charge.
LEMMA SalesAreCharged ==
  ASSUME FinanceInv, SalesBooked
  PROVE  Total(sales) = Amount({t \in txns : t.kind = "debt"})
<1> DEFINE D == {t \in txns : t.kind = "debt"}
           h == [s \in sales |-> CHOOSE t \in D : t.id = s.id]
           g == AmountOf(txns)
<1>1. ASSUME NEW s \in sales PROVE h[s] \in D /\ h[s].id = s.id /\ g[h[s]] = TotalOf[s]
  <2>1. PICK t \in D : t.id = s.id /\ t.amount = s.total
    BY DEF SalesBooked
  <2>2. h[s] \in D /\ h[s].id = s.id
    BY <2>1
  <2>3. h[s] = t
    <3> HIDE DEF h
    <3> QED
      BY <2>1, <2>2 DEF FinanceInv, IdsUnique
  <2> QED
    BY <2>1, <2>2, <2>3 DEF TotalOf, AmountOf
<1>2. h \in [sales -> D]
  <2>1. \A s \in sales : h[s] \in D
    BY <1>1
  <2> QED
    BY <2>1
<1>3. \A z \in D : \E s \in sales : h[s] = z
  <2> SUFFICES ASSUME NEW z \in D PROVE \E s \in sales : h[s] = z
    OBVIOUS
  <2>1. PICK s \in sales : s.id = z.id
    BY DEF SalesBooked
  <2>2. h[s] \in D /\ h[s].id = s.id
    BY <1>1
  <2> HIDE DEF h
  <2> QED
    BY <2>1, <2>2 DEF FinanceInv, IdsUnique
<1>4. D \subseteq txns
  OBVIOUS
<1> HIDE DEF h, g, D
<1>5. \A x, y \in sales : h[x] = h[y] => x = y
  BY <1>1 DEF SalesBooked
<1>6. IsSummable(TotalOf, sales) /\ Total(sales) = SumOver(TotalOf, sales)
  BY TotalIs
<1>7. \A s \in sales : g[h[s]] = TotalOf[s]
  BY <1>1
<1>8. SumOver(TotalOf, sales) = SumOver(g, D)
  BY <1>2, <1>3, <1>5, <1>6, <1>7, SumReindex
<1>9. Amount(D) = SumOver(g, D)
  BY <1>4, AmountIs DEF g
<1>10. Total(sales) = Amount(D)
  BY <1>6, <1>8, <1>9
<1> QED
  BY <1>10 DEF D

LEMMA RevenueFigures ==
  ASSUME FinanceInv, RowsOrdered, SalesBooked
  PROVE  RevenueFiguresAgree
<1> DEFINE methods == get_payment_methods(0, today)
           segments == get_revenue_by_segment(0, today)
           outside == {s \in sales : \/ s.client \in Excluded
                                     \/ Role[s.client] \notin {"CLIENT_B2B", "CLIENT_B2C"}}
           seg(r) == {s \in sales : Role[s.client] = r /\ s.client \notin Excluded}
           M == {s.method : s \in sales}
           key == [s \in sales |-> s.method]
<1>1. Sales(0, today) = sales
  <2>1. /\ today \in Nat /\ now \in Nat /\ now < Start(today + 1) /\ Start(0) = 0
        /\ Start(today + 1) \in Int
    BY TodayIs DEF Start
  <2>2. \A s \in sales : s.created \in Nat /\ s.created <= now
    BY DEF SalesBooked
  <2> QED
    BY <2>1, <2>2 DEF Sales
<1>2. get_revenue_trend(0, today).total_revenue = Total(sales)
  <2>1. get_revenue_trend(0, today).total_revenue = Total(Sales(0, today))
    BY DEF get_revenue_trend
  <2> QED
    BY <1>1, <2>1, Zenon
<1>3. methods = [m \in M |-> Total({s \in sales : s.method = m})]
  <2>1. methods = [m \in {s.method : s \in Sales(0, today)} |-> Total({s \in Sales(0, today) : s.method = m})]
    BY DEF get_payment_methods
  <2> QED
    BY <1>1, <2>1, Zenon
<1>4. SumOver(methods, DOMAIN methods) = Total(sales)
  <2>1. \A m \in M : methods[m] = SumOver(TotalOf, {s \in sales : key[s] = m})
    <3> SUFFICES ASSUME NEW m \in M PROVE methods[m] = SumOver(TotalOf, {s \in sales : key[s] = m})
      OBVIOUS
    <3>1. {s \in sales : s.method = m} = {s \in sales : key[s] = m} /\ {s \in sales : s.method = m} \subseteq sales
      OBVIOUS
    <3>2. Total({s \in sales : s.method = m}) = SumOver(TotalOf, {s \in sales : s.method = m})
      BY <3>1, TotalIs
    <3>3. methods[m] = Total({s \in sales : s.method = m})
      <4> HIDE DEF M, methods
      <4> QED
        BY <1>3
    <3> QED
      BY <3>1, <3>2, <3>3, Zenon
  <2>2. (\A s \in sales : key[s] \in M) /\ M = {key[s] : s \in sales}
    OBVIOUS
  <2> HIDE DEF methods, M, key
  <2>3. Grouped(TotalOf, sales, key, M, methods)
    BY <2>1, <2>2, Zenon DEF Grouped
  <2>4. IsSummable(TotalOf, sales) /\ Total(sales) = SumOver(TotalOf, sales)
    BY TotalIs
  <2>5. IsFiniteSet(M)
    BY <2>2, FiniteImage DEF SalesBooked
  <2>6. SumOver(TotalOf, sales) = SumOver(methods, M)
    BY <2>3, <2>4, <2>5, SumGrouped
  <2>7. DOMAIN methods = M
    BY <1>3
  <2> QED
    BY <2>4, <2>6, <2>7
<1>5. Total(sales) - Total(outside) = segments["CLIENT_B2B"] + segments["CLIENT_B2C"]
  <2>1. /\ segments["CLIENT_B2B"] = Total(seg("CLIENT_B2B")) /\ segments["CLIENT_B2C"] = Total(seg("CLIENT_B2C"))
    <3>1. \A r \in {"CLIENT_B2B", "CLIENT_B2C"} : segments[r]
            = Total({s \in Sales(0, today) : Role[s.client] = r /\ s.client \notin Excluded})
      BY DEF get_revenue_by_segment
    <3> QED
      BY <1>1, <3>1, Zenon
  <2> DEFINE b == seg("CLIENT_B2B")
             c == seg("CLIENT_B2C")
  <2>2. /\ sales = outside \union (b \union c) /\ outside \intersect (b \union c) = {} /\ b \intersect c = {}
        /\ outside \subseteq sales /\ b \subseteq sales /\ c \subseteq sales /\ b \union c \subseteq sales
    OBVIOUS
  <2> HIDE DEF b, c, outside
  <2>3. /\ IsSummable(TotalOf, b) /\ Total(b) = SumOver(TotalOf, b) /\ Total(b) \in Nat
        /\ IsSummable(TotalOf, c) /\ Total(c) = SumOver(TotalOf, c) /\ Total(c) \in Nat
        /\ IsSummable(TotalOf, outside) /\ Total(outside) = SumOver(TotalOf, outside) /\ Total(outside) \in Nat
        /\ IsSummable(TotalOf, b \union c) /\ Total(sales) = SumOver(TotalOf, sales)
    BY <2>2, TotalIs
  <2>4. SumOver(TotalOf, b \union c) = SumOver(TotalOf, b) + SumOver(TotalOf, c)
    BY <2>2, <2>3, SumDisjoint
  <2>5. SumOver(TotalOf, outside \union (b \union c)) = SumOver(TotalOf, outside) + SumOver(TotalOf, b \union c)
    BY <2>2, <2>3, SumDisjoint
  <2>6. Total(sales) = SumOver(TotalOf, outside) + SumOver(TotalOf, b \union c)
    BY <2>2, <2>3, <2>5, Zenon
  <2>7. segments["CLIENT_B2B"] = Total(b) /\ segments["CLIENT_B2C"] = Total(c)
    BY <2>1 DEF b, c
  <2> HIDE DEF segments, seg
  <2> QED
    BY <2>3, <2>4, <2>6, <2>7
<1>6. \A d \in 1..today : get_revenue_trend(d, d).previous = get_revenue_trend(d-1, d-1).total_revenue
  <2> SUFFICES ASSUME NEW d \in 1..today
               PROVE  get_revenue_trend(d, d).previous = get_revenue_trend(d-1, d-1).total_revenue
    OBVIOUS
  <2>1. d - (d - d) - 1 = d - 1
    BY TodayIs
  <2>2. get_revenue_trend(d, d).previous = Total(Sales(d - (d - d) - 1, d - 1))
    BY DEF get_revenue_trend
  <2>3. get_revenue_trend(d-1, d-1).total_revenue = Total(Sales(d - 1, d - 1))
    BY DEF get_revenue_trend
  <2> QED
    BY <2>1, <2>2, <2>3, Zenon
<1>7. Total(sales) = Amount({t \in txns : t.kind = "debt"})
  BY SalesAreCharged
<1> HIDE DEF methods, segments, outside
<1> QED
  BY <1>2, <1>4, <1>5, <1>6, <1>7, Zenon DEF RevenueFiguresAgree, methods, segments, outside

-----------------------------------------------------------------------------
(* Theorems *)

\* The invariant holds in every reachable state.
THEOREM FinanceInvariance == Spec => []FinanceInv
BY FinanceInit, FinanceNext, PTL DEF Spec

\* accounts.balance is what the COMPLETED rows add up to, through insertion,
\* verification and the settlements of two services.
THEOREM BooksAlwaysBalance == Spec => []BooksBalance
<1>1. FinanceInv => BooksBalance
  BY DEF FinanceInv
<1> QED
  BY <1>1, FinanceInvariance, PTL

\* Rows and time keep in step.
THEOREM RowsAlwaysOrdered == Spec => []RowsOrdered
<1>1. Init => RowsOrdered
  BY FinanceAssumption DEF Init, RowsOrdered
<1> QED
  BY <1>1, FinanceInvariance, OrderedNext, PTL DEF Spec

\* Statements open, run and close as the ledger says, adjacent statements join
\* but for the last second of a day, and filtered lists explain the balances.
THEOREM StatementsAlwaysAddUp == Spec => []StatementsAddUp
<1>1. FinanceInv /\ RowsOrdered => StatementsAddUp
  BY Closes, Joins, ListsExplain DEF StatementsAddUp
<1> QED
  BY <1>1, FinanceInvariance, RowsAlwaysOrdered, PTL

\* The balance at the start of today changes later only when a payment of an
\* earlier day is verified.
THEOREM PastIsSettled == Spec => PastChangesOnlyByVerification
<1> DEFINE Settled ==
      \/ today' # today
      \/ \A a \in Accounts : get_opening_balance_data(a, today)' = get_opening_balance_data(a, today)
      \/ \E t \in txns \ txns' : t.status = "PENDING" /\ t.at < Start(today)
<1>1. ASSUME FinanceInv, FinanceInv', RowsOrdered, Next PROVE Settled
  <2> DEFINE B == {t \in txns : t.at < Start(today)}
  <2>0. Start(today) \in Int /\ Start(today) <= now /\ now \in Int
    BY <1>1, TodayIs DEF Start
  <2>1. ASSUME today' = today, B' = B PROVE Settled
    BY <2>1 DEF get_opening_balance_data
  <2>2. CASE SomeManual \/ SomePayment \/ SomeSettlement
    <3>1. FreshStep
      BY <1>1, <2>2, NewRowsFresh
    <3>2. now' = now /\ txns \subseteq txns' /\ \A t \in txns' : t \in txns \/ t.at = now
      BY <3>1 DEF FreshStep, Fresh
    <3>3. today' = today /\ B' = B
      BY <2>0, <3>2 DEF today, DayOf, Start
    <3> QED
      BY <2>1, <3>3
  <2>3. CASE SomeDecision
    <3>1. PICK t \in txns, st \in {"COMPLETED", "REJECTED"} : t.status = "PENDING" /\ Decide(t, st)
      BY <2>3 DEF SomeDecision, verify_transaction, reject_transaction
    <3> DEFINE u == [t EXCEPT !.status = st, !.verified = TRUE]
    <3>2. u.at = t.at /\ u # t /\ t.at \in Int
      <4>1. t \in Rows
        BY <1>1 DEF FinanceInv, FinanceTypeOK
      <4>2. u.status = st /\ u.at = t.at /\ t.at \in Int
        BY <4>1 DEF Rows
      <4> QED
        BY <3>1, <4>2
    <3>3. txns' = (txns \ {t}) \union {u} /\ now' = now
      BY <3>1 DEF Decide
    <3> HIDE DEF u
    <3>4. t \in txns \ txns'
      BY <3>2, <3>3
    <3>5. ASSUME ~(t.at < Start(today)) PROVE today' = today /\ B' = B
      BY <3>2, <3>3, <3>5 DEF today, DayOf, Start
    <3> QED
      BY <2>1, <3>1, <3>4, <3>5
  <2>4. CASE Tick
    BY <2>4, <2>1 DEF Tick
  <2> QED
    BY <1>1, <2>2, <2>3, <2>4 DEF Next
<1>2. FinanceInv /\ FinanceInv' /\ RowsOrdered /\ [Next]_finVars => [Settled]_finVars
  BY <1>1
<1> QED
  BY <1>2, FinanceInvariance, RowsAlwaysOrdered, PTL DEF Spec, PastChangesOnlyByVerification

\* A decided row keeps decision, amount and accounts, and no row disappears.
THEOREM DecisionsFinal == Spec => DecisionIsFinal
<1> DEFINE Kept == /\ {t \in txns : t.status # "PENDING"} \subseteq txns'
                   /\ \A t \in txns : \E u \in txns' :
                        u.id = t.id /\ u.amount = t.amount /\ u.from = t.from /\ u.to = t.to
<1>1. ASSUME FinanceInv, Next PROVE Kept
  <2>1. CASE SomeDecision
    <3>1. PICK t \in txns, st \in {"COMPLETED", "REJECTED"} : t.status = "PENDING" /\ Decide(t, st)
      BY <2>1 DEF SomeDecision, verify_transaction, reject_transaction
    <3> DEFINE u == [t EXCEPT !.status = st, !.verified = TRUE]
    <3>2. txns' = (txns \ {t}) \union {u}
      BY <3>1 DEF Decide
    <3>3. u.id = t.id /\ u.amount = t.amount /\ u.from = t.from /\ u.to = t.to
      BY <1>1 DEF FinanceInv, FinanceTypeOK, Rows
    <3> HIDE DEF u
    <3> QED
      BY <3>1, <3>2, <3>3
  <2>2. CASE SomeManual \/ SomePayment \/ SomeSettlement \/ Tick
    <3>1. txns \subseteq txns'
      <4>1. CASE SomeManual
        BY <4>1 DEF SomeManual, create_transaction, Insert
      <4>2. CASE SomePayment
        BY <4>2 DEF SomePayment, accept_payment, Insert
      <4>3. CASE SomeSettlement
        BY <4>3 DEF SomeSettlement, process_financial_settlement, process_pickup_settlement, Insert
      <4>4. CASE Tick
        BY <4>4 DEF Tick
      <4> QED
        BY <2>2, <4>1, <4>2, <4>3, <4>4
    <3> QED
      BY <3>1
  <2> QED
    BY <1>1, <2>1, <2>2 DEF Next
<1>2. FinanceInv /\ [Next]_finVars => [Kept]_finVars
  BY <1>1
<1> QED
  BY <1>2, FinanceInvariance, PTL DEF Spec, DecisionIsFinal

\* Sales and debt rows belong together.
THEOREM SalesAlwaysBooked == Spec => []SalesBooked
<1>1. Init => SalesBooked
  BY FS_EmptySet DEF Init, SalesBooked
<1> QED
  BY <1>1, FinanceInvariance, BookedNext, PTL DEF Spec

\* The figures that dashboards and reports compute by queries of their own
\* agree: the day of a courier, the debt in six places, and the turnover by day,
\* method and segment.
THEOREM DashboardHolds == Spec => []DashboardAgrees
<1>1. FinanceInv /\ RowsOrdered /\ SalesBooked => DashboardAgrees
  BY CourierDays, DebtFigures, RevenueFigures DEF DashboardAgrees
<1> QED
  BY <1>1, FinanceInvariance, RowsAlwaysOrdered, SalesAlwaysBooked, PTL
=============================================================================

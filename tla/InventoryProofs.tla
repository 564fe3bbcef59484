--------------------------- MODULE InventoryProofs ---------------------------
(***************************************************************************)
(* The stock for any inventories, products, documents and requests at      *)
(* once.  What a request checked may be out of date when it posts: the     *)
(* proof rests on what is checked again under the lock and by the trigger, *)
(* and on the little that a pending document cannot lose (PendingSound).   *)
(* The balances are kept by the trigger document by document while the     *)
(* ledger is read as a whole, so LedgerBalanced is proved by what one      *)
(* document adds to the rows of one inventory and product.                 *)
(***************************************************************************)
EXTENDS StockReports, SumTheorems

AtMostOneVehicle ==
  \A i, j \in Inventories :
    OfType(i, "COURIER") /\ OfType(j, "COURIER") /\ inv[i].owner = inv[j].owner => i = j

VendorKept == inv[Vendor] \in InventoryRows /\ inv[Vendor].type = "VIRTUAL_VENDOR"
LossKept   == inv[Loss] \in InventoryRows /\ inv[Loss].type = "VIRTUAL_LOSS"

\* Inventory i was created with type y: whatever happens to it later, it does
\* not come back as something else.
Known(i, y) == inv[i] # None /\ (i \in Rows => inv[i].type = y)

\* The ends of a document were created with types the route table allows.
Routed(type, from, to) ==
  \E y, z \in InventoryTypes : <<y, z>> \in ValidRoutes[type] /\ Known(from, y) /\ Known(to, z)

\* Documents never have the same inventory on both sides, and their route was
\* allowed when it was checked.
Sound(q) ==
  /\ q.op = "create_transfer" =>
       q.doc.from # q.doc.to /\ Routed(q.doc.type, q.doc.from, q.doc.to)
  /\ q.op = "capitalize_deficit" => q.id # Vendor /\ Known(q.id, "CLIENT")

PendingSound == \A r \in Requests : pending[r] # None => Sound(pending[r])

DocumentsSound == \A n \in 1..Len(transfers) :
  transfers[n].from # transfers[n].to /\ transfers[n].day <= today

\* What a posted document names is still there, and so is its route.
DocumentsRouted == \A n \in 1..Len(transfers) :
  /\ transfers[n].from \in Rows /\ transfers[n].to \in Rows
  /\ Routed(transfers[n].type, transfers[n].from, transfers[n].to)

\* The rows that bring product p into inventory i, and those that take it out.
InRows(i, p)  == {t \in StockTransactions : t.product = p /\ t.to = i}
OutRows(i, p) == {t \in StockTransactions : t.product = p /\ t.to # i /\ t.from = i}

LedgerBalanced ==
  \A i \in Inventories, p \in Products :
    stock[i][p] = Quantity(InRows(i, p)) - Quantity(OutRows(i, p))

InventoryInv ==
  /\ InventoryTypeOK /\ AtMostOneVehicle /\ VendorKept /\ LossKept
  /\ PendingSound /\ DocumentsSound /\ DocumentsRouted
  /\ NothingBelowZero /\ NoDanglingProducts
  /\ IsFiniteSet(StockTransactions) /\ LedgerBalanced

-----------------------------------------------------------------------------
(* The ledger *)

LEMMA TransfersTyped ==
  ASSUME InventoryTypeOK
  PROVE  /\ Len(transfers) \in Nat /\ DOMAIN transfers = 1..Len(transfers)
         /\ \A n \in 1..Len(transfers) : transfers[n] \in TransferRows
BY DEF InventoryTypeOK

\* A row of stock_transactions is a line of a document.
LEMMA RowFacts ==
  ASSUME InventoryTypeOK, NEW t \in StockTransactions
  PROVE  \E n \in 1..Len(transfers) :
           /\ t.transfer = n /\ t.product \in Products
           /\ t.quantity = transfers[n].lines[t.product] /\ t.quantity \in Nat /\ t.quantity > 0
           /\ t.from = transfers[n].from /\ t.to = transfers[n].to /\ t.day = transfers[n].day
           /\ t.type = transfers[n].type
<1>1. PICK n \in 1..Len(transfers) : t \in
        {[transfer |-> n, product |-> p, quantity |-> transfers[n].lines[p],
          type |-> transfers[n].type, from |-> transfers[n].from, to |-> transfers[n].to,
          day |-> transfers[n].day] : p \in {q \in Products : transfers[n].lines[q] > 0}}
  BY TransfersTyped DEF StockTransactions
<1>2. PICK p \in Products :
        /\ transfers[n].lines[p] > 0
        /\ t = [transfer |-> n, product |-> p, quantity |-> transfers[n].lines[p],
                type |-> transfers[n].type, from |-> transfers[n].from, to |-> transfers[n].to,
                day |-> transfers[n].day]
  BY <1>1
<1>3. transfers[n].lines[p] \in Nat
  BY TransfersTyped DEF TransferRows
<1> QED
  BY <1>2, <1>3

DocRow(n, d, p) ==
  [transfer |-> n, product |-> p, quantity |-> d.lines[p], type |-> d.type,
   from |-> d.from, to |-> d.to, day |-> today]

DocRows(n, d) == {DocRow(n, d, p) : p \in {q \in Products : d.lines[q] > 0}}

\* A document as it is posted.
Postable(d) ==
  /\ d.type \in TransferTypes \union {"INITIAL_BALANCE"}
  /\ d.from \in Inventories /\ d.to \in Inventories /\ d.from # d.to
  /\ d.lines \in [Products -> Nat]

LEMMA PostAppends ==
  ASSUME InventoryTypeOK, NEW d, Postable(d), Post(d)
  PROVE  /\ transfers' \in Seq(TransferRows) /\ Len(transfers') = Len(transfers) + 1
         /\ \A n \in 1..Len(transfers) : transfers'[n] = transfers[n]
         /\ transfers'[Len(transfers) + 1] =
              [type |-> d.type, from |-> d.from, to |-> d.to, lines |-> d.lines, day |-> today]
<1>1. PICK x : x = [type |-> d.type, from |-> d.from, to |-> d.to, lines |-> d.lines, day |-> today]
  OBVIOUS
<1>2. x \in TransferRows
  BY <1>1 DEF Postable, TransferRows, InventoryTypeOK
<1>3. transfers' = Append(transfers, x) /\ transfers \in Seq(TransferRows)
  BY <1>1 DEF Post, InventoryTypeOK
<1>4. /\ transfers' \in Seq(TransferRows) /\ Len(transfers') = Len(transfers) + 1
      /\ transfers'[Len(transfers) + 1] = x
  BY <1>2, <1>3
<1>5. \A n \in 1..Len(transfers) : transfers'[n] = transfers[n]
  BY <1>2, <1>3
<1> QED
  BY <1>1, <1>4, <1>5

LEMMA PostAddsRows ==
  ASSUME InventoryTypeOK, NEW d, Postable(d), Post(d)
  PROVE  StockTransactions' = StockTransactions \union DocRows(Len(transfers) + 1, d)
<1> DEFINE m == Len(transfers) + 1
           RowsOf(x, n) == {[transfer |-> n, product |-> p, quantity |-> x.lines[p],
                             type |-> x.type, from |-> x.from, to |-> x.to, day |-> x.day]
                            : p \in {q \in Products : x.lines[q] > 0}}
           x == [type |-> d.type, from |-> d.from, to |-> d.to, lines |-> d.lines, day |-> today]
<1>1. StockTransactions = UNION {RowsOf(transfers[n], n) : n \in 1..Len(transfers)}
  BY TransfersTyped DEF StockTransactions
<1>2. Len(transfers) \in Nat /\ Len(transfers') = m /\ DOMAIN transfers' = 1..m
  <2>1. transfers' \in Seq(TransferRows) /\ Len(transfers') = m
    BY PostAppends
  <2>2. DOMAIN transfers' = 1..Len(transfers')
    BY <2>1
  <2> QED
    BY <2>1, <2>2, TransfersTyped
<1>3. StockTransactions' = UNION {RowsOf(transfers'[n], n) : n \in 1..m}
  BY <1>2 DEF StockTransactions
<1>4. RowsOf(x, m) = DocRows(m, d)
  <2>1. x.lines = d.lines /\ x.type = d.type /\ x.from = d.from /\ x.to = d.to /\ x.day = today
    OBVIOUS
  <2> HIDE DEF x, m
  <2> QED
    BY <2>1 DEF DocRows, DocRow
<1>5. transfers'[m] = x /\ \A n \in 1..Len(transfers) : transfers'[n] = transfers[n]
  BY PostAppends
<1> HIDE DEF RowsOf, x
<1>6. 1..m = (1..Len(transfers)) \union {m}
  BY <1>2
<1> HIDE DEF m
<1>7. UNION {RowsOf(transfers'[n], n) : n \in 1..m}
        = (UNION {RowsOf(transfers[n], n) : n \in 1..Len(transfers)}) \union RowsOf(x, m)
  BY <1>5, <1>6
<1> QED
  BY <1>1, <1>3, <1>4, <1>7 DEF m

\* Sums over rows.
LEMMA QuantityFacts ==
  ASSUME NEW rows, IsFiniteSet(rows), \A t \in rows : t.quantity \in Nat
  PROVE  /\ Quantity(rows) \in Nat
         /\ rows = {} => Quantity(rows) = 0
         /\ \A t \in rows : t.quantity <= Quantity(rows)
<1> DEFINE f == [t \in rows |-> t.quantity]
<1>1. IsSummable(f, rows)
  BY DEF IsSummable
<1>2. Quantity(rows) = SumOver(f, rows)
  BY DEF Quantity
<1>3. \A t \in rows : f[t] = t.quantity
  OBVIOUS
<1> HIDE DEF f
<1>4. Quantity(rows) \in Nat
  BY <1>1, <1>2, SumNat
<1>5. rows = {} => Quantity(rows) = 0
  BY <1>2, SumEmpty
<1>6. ASSUME NEW t \in rows PROVE t.quantity <= Quantity(rows)
  <2>1. f[t] \in Nat /\ f[t] <= SumOver(f, rows)
    BY <1>1, SumMember
  <2> QED
    BY <1>2, <1>3, <2>1
<1> QED
  BY <1>4, <1>5, <1>6

LEMMA QuantityAdd ==
  ASSUME NEW rows, NEW t, t \notin rows, IsFiniteSet(rows),
         \A u \in rows \union {t} : u.quantity \in Nat
  PROVE  Quantity(rows \union {t}) = Quantity(rows) + t.quantity
<1> DEFINE f == [u \in rows \union {t} |-> u.quantity]
           g == [u \in rows |-> u.quantity]
<1>1. IsFiniteSet(rows \union {t})
  BY FS_AddElement
<1>2. IsSummable(f, rows \union {t})
  BY <1>1 DEF IsSummable
<1>3. (\A u \in rows : f[u] = g[u]) /\ f[t] = t.quantity
  OBVIOUS
<1>4. Quantity(rows \union {t}) = SumOver(f, rows \union {t}) /\ Quantity(rows) = SumOver(g, rows)
  BY DEF Quantity
<1> HIDE DEF f, g
<1>5. SumOver(f, rows \union {t}) = SumOver(f, rows) + f[t]
  BY <1>2, SumAdd
<1>6. SumOver(f, rows) = SumOver(g, rows)
  BY <1>3, SumSame
<1> QED
  BY <1>3, <1>4, <1>5, <1>6

\* What one document does to the sums of inventory i and product p.
LEMMA PostBalanced ==
  ASSUME InventoryInv, NEW d, Postable(d), Post(d)
  PROVE  /\ IsFiniteSet(StockTransactions') /\ LedgerBalanced'
         /\ stock' \in [Inventories -> [Products -> Int]]
<1> DEFINE m == Len(transfers) + 1
<1>0. InventoryTypeOK /\ IsFiniteSet(StockTransactions) /\ stock \in [Inventories -> [Products -> Int]]
  BY DEF InventoryInv, InventoryTypeOK
<1>1. StockTransactions' = StockTransactions \union DocRows(m, d)
  BY <1>0, PostAddsRows
<1>2. IsFiniteSet(DocRows(m, d))
  <2>1. IsFiniteSet({q \in Products : d.lines[q] > 0})
    BY StockAssumption, FS_Subset
  <2> DEFINE P == {q \in Products : d.lines[q] > 0}
             f == [q \in P |-> DocRow(m, d, q)]
  <2>2. f \in Surjection(P, DocRows(m, d))
    BY DEF Surjection, DocRows
  <2> QED
    BY <2>1, <2>2, FS_Surjection
<1>3. IsFiniteSet(StockTransactions')
  BY <1>0, <1>1, <1>2, FS_Union
<1>4. \A i \in Inventories, p \in Products : stock'[i][p] =
        stock[i][p] - (IF i = d.from THEN d.lines[p] ELSE 0) + (IF i = d.to THEN d.lines[p] ELSE 0)
  BY DEF Post, Move
<1>5. d.lines \in [Products -> Nat] /\ d.from # d.to
  BY DEF Postable
<1>6. stock' \in [Inventories -> [Products -> Int]]
  <2>1. stock' = Move(stock, d.from, d.to, d.lines)
    BY DEF Post
  <2> QED
    BY <1>0, <1>5, <2>1 DEF Move
<1>7. ASSUME NEW i \in Inventories, NEW p \in Products
      PROVE  stock'[i][p] = Quantity(InRows(i, p)') - Quantity(OutRows(i, p)')
  <2>1. PICK row : row = DocRow(m, d, p)
    OBVIOUS
  <2>2. /\ row.product = p /\ row.to = d.to /\ row.from = d.from
        /\ row.quantity = d.lines[p] /\ row.quantity \in Nat
    BY <1>5, <2>1 DEF DocRow
  <2>3. row \notin StockTransactions
    <3>1. row.transfer = m
      BY <2>1 DEF DocRow
    <3>2. \A t \in StockTransactions : t.transfer # m
      BY <1>0, RowFacts, TransfersTyped
    <3> QED
      BY <3>1, <3>2
  <2>4. \A t : t \in DocRows(m, d) /\ t.product = p <=> t = row /\ d.lines[p] > 0
    <3>1. \A q \in Products : DocRow(m, d, q).product = q
      BY DEF DocRow
    <3>2. \A t : t \in DocRows(m, d) <=> \E q \in Products : d.lines[q] > 0 /\ t = DocRow(m, d, q)
      BY DEF DocRows
    <3> QED
      BY <2>1, <3>1, <3>2
  <2>5. /\ IsFiniteSet(InRows(i, p)) /\ IsFiniteSet(OutRows(i, p))
        /\ \A t \in InRows(i, p) : t.quantity \in Nat
        /\ \A t \in OutRows(i, p) : t.quantity \in Nat
        /\ row \notin InRows(i, p) /\ row \notin OutRows(i, p)
    <3>1. InRows(i, p) \in SUBSET StockTransactions /\ OutRows(i, p) \in SUBSET StockTransactions
      BY DEF InRows, OutRows
    <3>2. \A t \in StockTransactions : t.quantity \in Nat
      BY <1>0, RowFacts
    <3> QED
      BY <1>0, <2>3, <3>1, <3>2, FS_Subset
  <2>6. stock[i][p] = Quantity(InRows(i, p)) - Quantity(OutRows(i, p))
    BY DEF InventoryInv, LedgerBalanced
  <2>7. Quantity(InRows(i, p)) \in Nat /\ Quantity(OutRows(i, p)) \in Nat
    BY <2>5, QuantityFacts
  <2>8. /\ Quantity(InRows(i, p) \union {row}) = Quantity(InRows(i, p)) + d.lines[p]
        /\ Quantity(OutRows(i, p) \union {row}) = Quantity(OutRows(i, p)) + d.lines[p]
    BY <2>2, <2>5, QuantityAdd
  <2>9. d.lines[p] \in Nat
    BY <1>5
  <2> HIDE DEF m
  <2>10. InRows(i, p)' = IF i = d.to /\ d.lines[p] > 0 THEN InRows(i, p) \union {row} ELSE InRows(i, p)
    BY <1>1, <2>2, <2>4 DEF InRows
  <2>11. OutRows(i, p)' = IF i = d.from /\ d.lines[p] > 0 THEN OutRows(i, p) \union {row} ELSE OutRows(i, p)
    BY <1>1, <1>5, <2>2, <2>4 DEF OutRows
  <2>12. CASE d.lines[p] = 0
    BY <1>4, <2>6, <2>7, <2>10, <2>11, <2>12
  <2>13. CASE d.lines[p] > 0 /\ i = d.to
    BY <1>4, <1>5, <2>6, <2>7, <2>8, <2>9, <2>10, <2>11, <2>13
  <2>14. CASE d.lines[p] > 0 /\ i = d.from
    BY <1>4, <1>5, <2>6, <2>7, <2>8, <2>9, <2>10, <2>11, <2>14
  <2>15. CASE d.lines[p] > 0 /\ i # d.from /\ i # d.to
    BY <1>4, <2>6, <2>7, <2>10, <2>11, <2>15
  <2> QED
    BY <2>9, <2>12, <2>13, <2>14, <2>15
<1> QED
  BY <1>3, <1>6, <1>7 DEF LedgerBalanced

-----------------------------------------------------------------------------
(* The steps, by what they change *)

\* A request ends, or the step is not a request's.
Ended == pending' = pending \/ \E r \in Requests : pending' = [pending EXCEPT ![r] = None]

\* Both ends are there, along a route that was allowed.
InPlace(d) == d.from \in Rows /\ d.to \in Rows /\ Routed(d.type, d.from, d.to)

PostStep ==
  \E d : /\ Postable(d) /\ InPlace(d) /\ Post(d) /\ Len(transfers) < MaxTransfers /\ Ended
         /\ UNCHANGED <<inv, today, catalog>>

PendingStep ==
  \E r \in Requests, q \in PendingRows \union {None} :
    /\ q # None => Sound(q)
    /\ pending' = [pending EXCEPT ![r] = q]
    /\ UNCHANGED <<inv, transfers, stock, today, catalog>>

\* A product is listed while its container is, or goes when nothing needs it.
CatalogStep ==
  \E p \in Products :
    /\ \/ catalog' = catalog
       \/ \E x \in {"ACTIVE", "ARCHIVED"} :
            /\ catalog' = [catalog EXCEPT ![p] = x]
            /\ Returnable[p] # NoProduct => Listed(Returnable[p])
       \/ /\ catalog' = [catalog EXCEPT ![p] = "DELETED"]
          /\ ~has_associated_products(p)
          /\ \A n \in DOMAIN transfers : transfers[n].lines[p] = 0
    /\ Ended /\ UNCHANGED <<inv, transfers, stock, today>>

\* An inventory is created, keeps its type, or goes while nothing refers to it.
Becomes(i, x) ==
  \/ inv[i] = None /\ x \in InventoryRows
  \/ i \in Rows /\ x \in InventoryRows /\ x.type = inv[i].type
  \/ x = Deleted /\ i # Loss /\ ~Referenced(i)

\* An inventory that is created or changed: a vehicle does not become its
\* user's second one, and the vendor stays the vendor.
InvStep ==
  \E i \in Inventories, x \in InventoryRows \union {Deleted} :
    /\ inv' = [inv EXCEPT ![i] = x] /\ Becomes(i, x)
    /\ x \in InventoryRows /\ x.type = "COURIER" /\ x.active =>
         \A j \in Inventories : OfType(j, "COURIER") /\ inv[j].owner = x.owner => j = i
    /\ i = Vendor => x \in InventoryRows /\ x.type = "VIRTUAL_VENDOR"
    /\ \/ stock' = stock
       \/ ~Referenced(i) /\ stock' = [stock EXCEPT ![i] = NoLines]
    /\ Ended /\ UNCHANGED <<transfers, today, catalog>>

\* Inventories that exist do not change their type.
KeptTypes == \A i \in Inventories, y \in InventoryTypes : Known(i, y) => Known(i, y)'

LEMMA EndedTyped ==
  ASSUME InventoryInv, Ended, KeptTypes
  PROVE  pending' \in [Requests -> PendingRows \union {None}] /\ PendingSound'
<1>1. pending \in [Requests -> PendingRows \union {None}]
  BY DEF InventoryInv, InventoryTypeOK
<1>2. \A r \in Requests : pending'[r] \in {None, pending[r]}
  BY <1>1 DEF Ended
<1>3. pending' \in [Requests -> PendingRows \union {None}]
  BY <1>1 DEF Ended
<1>4. PendingSound'
  <2> SUFFICES ASSUME NEW r \in Requests, pending'[r] # None
               PROVE  \A q : q = pending[r] => Sound(q)'
    BY <1>2 DEF PendingSound, Sound, Routed, Known
  <2>0. PICK q : q = pending[r]
    OBVIOUS
  <2>1. pending'[r] = q /\ q \in PendingRows /\ Sound(q)
    BY <1>1, <1>2, <2>0 DEF InventoryInv, PendingSound
  <2>2. q.op = "create_transfer" =>
          q.doc.from # q.doc.to /\ Routed(q.doc.type, q.doc.from, q.doc.to)'
    <3> SUFFICES ASSUME q.op = "create_transfer" PROVE Routed(q.doc.type, q.doc.from, q.doc.to)'
      BY <2>1 DEF Sound
    <3>1. q.doc.from \in Inventories /\ q.doc.to \in Inventories
      BY <2>1 DEF PendingRows, Documents
    <3> QED
      BY <2>1, <3>1 DEF Sound, Routed, KeptTypes
  <2>3. q.op = "capitalize_deficit" => q.id # Vendor /\ Known(q.id, "CLIENT")'
    <3> SUFFICES ASSUME q.op = "capitalize_deficit" PROVE q.id # Vendor /\ Known(q.id, "CLIENT")'
      OBVIOUS
    <3>1. q.id \in Inventories /\ "CLIENT" \in InventoryTypes
      BY <2>1 DEF PendingRows, InventoryTypes
    <3> QED
      BY <2>1, <3>1 DEF Sound, KeptTypes
  <2> QED
    BY <2>0, <2>2, <2>3 DEF Sound
<1> QED
  BY <1>3, <1>4

\* With the documents and the balances the ledger stays what it is.
LEMMA SameLedger ==
  ASSUME InventoryInv, transfers' = transfers, stock' = stock
  PROVE  /\ StockTransactions' = StockTransactions
         /\ NothingBelowZero' /\ LedgerBalanced' /\ IsFiniteSet(StockTransactions')
<1>1. StockTransactions' = StockTransactions
  BY DEF StockTransactions
<1>2. NothingBelowZero'
  BY DEF InventoryInv, NothingBelowZero
<1>3. LedgerBalanced'
  BY <1>1 DEF InventoryInv, LedgerBalanced, InRows, OutRows
<1> QED
  BY <1>1, <1>2, <1>3 DEF InventoryInv

\* What is only about inventories.
LEMMA SameInventories ==
  ASSUME InventoryInv, inv' = inv
  PROVE  /\ AtMostOneVehicle' /\ VendorKept' /\ LossKept' /\ KeptTypes
         /\ transfers' = transfers => DocumentsRouted'
<1>1. AtMostOneVehicle' /\ VendorKept' /\ LossKept'
  BY DEF InventoryInv, AtMostOneVehicle, VendorKept, LossKept, OfType, Active, Rows
<1>2. \A i, y : Known(i, y)' <=> Known(i, y)
  BY DEF Known, Rows
<1>3. \A y, i, j : Routed(y, i, j)' <=> Routed(y, i, j)
  BY <1>2 DEF Routed
<1>4. transfers' = transfers => DocumentsRouted'
  BY <1>3 DEF InventoryInv, DocumentsRouted, Rows
<1> QED
  BY <1>1, <1>2, <1>4 DEF KeptTypes

LEMMA PostStepInv ==
  ASSUME InventoryInv, PostStep
  PROVE  InventoryInv'
<1>0. PICK d : /\ Postable(d) /\ InPlace(d) /\ Post(d) /\ Len(transfers) < MaxTransfers /\ Ended
               /\ UNCHANGED <<inv, today, catalog>>
  BY DEF PostStep
<1>1. InventoryTypeOK /\ Len(transfers) \in Nat
  BY TransfersTyped DEF InventoryInv
<1>2. /\ transfers' \in Seq(TransferRows) /\ Len(transfers') = Len(transfers) + 1
      /\ \A n \in 1..Len(transfers) : transfers'[n] = transfers[n]
      /\ transfers'[Len(transfers) + 1] =
           [type |-> d.type, from |-> d.from, to |-> d.to, lines |-> d.lines, day |-> today]
  BY <1>0, <1>1, PostAppends
<1>3. IsFiniteSet(StockTransactions') /\ LedgerBalanced' /\ stock' \in [Inventories -> [Products -> Int]]
  BY <1>0, PostBalanced
<1>4. InventoryTypeOK'
  <2>1. Len(transfers') <= MaxTransfers
    BY <1>0, <1>1, <1>2, InventoryAssumption
  <2> QED
    BY <1>0, <1>1, <1>2, <1>3, <2>1, EndedTyped, SameInventories DEF InventoryTypeOK
<1>5. DocumentsSound'
  <2> SUFFICES ASSUME NEW n \in 1..Len(transfers')
               PROVE  transfers'[n].from # transfers'[n].to /\ transfers'[n].day <= today'
    BY DEF DocumentsSound
  <2>1. today \in Nat
    BY <1>1, InventoryAssumption DEF InventoryTypeOK
  <2>2. CASE n \in 1..Len(transfers)
    BY <1>0, <1>2, <2>2 DEF InventoryInv, DocumentsSound
  <2>3. CASE n = Len(transfers) + 1
    BY <1>0, <1>2, <2>1, <2>3 DEF Postable
  <2> QED
    BY <1>1, <1>2, <2>2, <2>3
<1>6. NothingBelowZero'
  <2> SUFFICES ASSUME NEW i \in Inventories \ Virtual, NEW p \in Products PROVE stock'[i][p] >= 0
    BY DEF NothingBelowZero
  <2>1. stock[i][p] >= 0 /\ stock[i][p] \in Int
    BY <1>1 DEF InventoryInv, NothingBelowZero, InventoryTypeOK
  <2>2. d.lines[p] \in Nat /\ d.from # d.to
    BY <1>0 DEF Postable
  <2>3. stock'[i][p] = stock[i][p] - (IF i = d.from THEN d.lines[p] ELSE 0)
                                    + (IF i = d.to THEN d.lines[p] ELSE 0)
    BY <1>0 DEF Post, Move
  <2>4. i = d.from /\ d.lines[p] > 0 => d.lines[p] <= stock[i][p]
    BY <1>0 DEF Post, CanMove
  <2> QED
    BY <2>1, <2>2, <2>3, <2>4
<1>7. NoDanglingProducts'
  <2>1. \A p : Listed(p)' <=> Listed(p)
    BY <1>0 DEF Listed
  <2>2. \A t \in DocRows(Len(transfers) + 1, d) : Listed(t.product)
    BY <1>0 DEF DocRows, DocRow, Post
  <2>3. StockTransactions' = StockTransactions \union DocRows(Len(transfers) + 1, d)
    BY <1>0, <1>1, PostAddsRows
  <2> QED
    BY <2>1, <2>2, <2>3 DEF InventoryInv, NoDanglingProducts
<1>8. DocumentsRouted'
  <2>1. \A y, i, j : Routed(y, i, j)' <=> Routed(y, i, j)
    BY <1>0 DEF Routed, Known, Rows
  <2>2. Rows' = Rows
    BY <1>0 DEF Rows
  <2>3. ASSUME NEW n \in 1..Len(transfers'), NEW x, x = transfers'[n]
        PROVE  x.from \in Rows /\ x.to \in Rows /\ Routed(x.type, x.from, x.to)
    <3>1. CASE n \in 1..Len(transfers)
      BY <1>2, <2>3, <3>1 DEF InventoryInv, DocumentsRouted
    <3>2. CASE n = Len(transfers) + 1
      BY <1>0, <1>2, <2>3, <3>2 DEF InPlace
    <3> QED
      BY <1>1, <1>2, <3>1, <3>2
  <2> QED
    BY <1>0, <2>2, <2>3 DEF DocumentsRouted, Routed, Known
<1> QED
  BY <1>0, <1>3, <1>4, <1>5, <1>6, <1>7, <1>8, EndedTyped, SameInventories DEF InventoryInv

LEMMA PendingStepInv ==
  ASSUME InventoryInv, PendingStep
  PROVE  InventoryInv'
<1>0. PICK r \in Requests, q \in PendingRows \union {None} :
        /\ q # None => Sound(q)
        /\ pending' = [pending EXCEPT ![r] = q]
        /\ UNCHANGED <<inv, transfers, stock, today, catalog>>
  BY DEF PendingStep
<1>1. pending \in [Requests -> PendingRows \union {None}]
  BY DEF InventoryInv, InventoryTypeOK
<1>2. pending' \in [Requests -> PendingRows \union {None}]
  BY <1>0, <1>1
<1>3. InventoryTypeOK'
  BY <1>0, <1>2 DEF InventoryInv, InventoryTypeOK
<1>4. PendingSound'
  <2>1. \A s \in Requests : pending'[s] = IF s = r THEN q ELSE pending[s]
    BY <1>0, <1>1
  <2>2. \A x : Sound(x)' <=> Sound(x)
    BY <1>0 DEF Sound, Routed, Known, Rows
  <2> QED
    BY <1>0, <2>1, <2>2 DEF InventoryInv, PendingSound
<1>5. DocumentsSound'
  BY <1>0 DEF InventoryInv, DocumentsSound
<1>6. NoDanglingProducts'
  BY <1>0, SameLedger DEF InventoryInv, NoDanglingProducts, Listed
<1> QED
  BY <1>0, <1>3, <1>4, <1>5, <1>6, SameLedger, SameInventories DEF InventoryInv

LEMMA CatalogStepInv ==
  ASSUME InventoryInv, CatalogStep
  PROVE  InventoryInv'
<1>0. PICK p \in Products :
    /\ \/ catalog' = catalog
       \/ \E x \in {"ACTIVE", "ARCHIVED"} :
            /\ catalog' = [catalog EXCEPT ![p] = x]
            /\ Returnable[p] # NoProduct => Listed(Returnable[p])
       \/ /\ catalog' = [catalog EXCEPT ![p] = "DELETED"]
          /\ ~has_associated_products(p)
          /\ \A n \in DOMAIN transfers : transfers[n].lines[p] = 0
    /\ Ended /\ UNCHANGED <<inv, transfers, stock, today>>
  BY Zenon DEF CatalogStep
<1>1. catalog \in [Products -> {"ABSENT", "ACTIVE", "ARCHIVED", "DELETED"}]
  BY DEF InventoryInv, InventoryTypeOK
<1>2. InventoryTypeOK'
  <2>1. catalog' \in [Products -> {"ABSENT", "ACTIVE", "ARCHIVED", "DELETED"}]
    BY <1>0, <1>1
  <2> QED
    BY <1>0, <2>1, EndedTyped, SameInventories DEF InventoryInv, InventoryTypeOK
<1>3. DocumentsSound'
  BY <1>0 DEF InventoryInv, DocumentsSound
<1>4. NoDanglingProducts'
  <2>1. /\ StockTransactions' = StockTransactions
        /\ \A q \in Products : (\E t \in StockTransactions : t.product = q) => Listed(q)
        /\ \A q \in Products : Listed(q) /\ Returnable[q] # NoProduct => Listed(Returnable[q])
    BY <1>0, SameLedger DEF InventoryInv, NoDanglingProducts
  <2>2. \A q \in Products : Returnable[q] # NoProduct => Returnable[q] \in Products
    BY StockAssumption
  <2>3. CASE catalog' = catalog
    BY <2>1, <2>3 DEF NoDanglingProducts, Listed
  <2>4. CASE \E x \in {"ACTIVE", "ARCHIVED"} :
               /\ catalog' = [catalog EXCEPT ![p] = x]
               /\ Returnable[p] # NoProduct => Listed(Returnable[p])
    <3>1. \A q \in Products : Listed(q)' <=> (q = p \/ Listed(q))
      BY <1>1, <2>4 DEF Listed
    <3> QED
      BY <2>1, <2>2, <2>4, <3>1 DEF NoDanglingProducts
  <2>5. CASE /\ catalog' = [catalog EXCEPT ![p] = "DELETED"]
             /\ ~has_associated_products(p)
             /\ \A n \in DOMAIN transfers : transfers[n].lines[p] = 0
    <3>1. \A q \in Products : Listed(q)' <=> (q # p /\ Listed(q))
      BY <1>1, <2>5 DEF Listed
    <3>2. \A t \in StockTransactions : t.product # p
      BY <2>5, RowFacts, TransfersTyped DEF InventoryInv
    <3>3. \A q \in Products : Listed(q) => Returnable[q] # p
      BY <2>5 DEF has_associated_products
    <3> QED
      BY <2>1, <2>2, <3>1, <3>2, <3>3 DEF NoDanglingProducts
  <2> QED
    BY <1>0, <2>3, <2>4, <2>5
<1> QED
  BY <1>0, <1>2, <1>3, <1>4, SameLedger, SameInventories, EndedTyped DEF InventoryInv

LEMMA InvStepInv ==
  ASSUME InventoryInv, InvStep
  PROVE  InventoryInv'
<1>0. PICK i \in Inventories, x \in InventoryRows \union {Deleted} :
    /\ inv' = [inv EXCEPT ![i] = x] /\ Becomes(i, x)
    /\ x \in InventoryRows /\ x.type = "COURIER" /\ x.active =>
         \A j \in Inventories : OfType(j, "COURIER") /\ inv[j].owner = x.owner => j = i
    /\ i = Vendor => x \in InventoryRows /\ x.type = "VIRTUAL_VENDOR"
    /\ \/ stock' = stock
       \/ ~Referenced(i) /\ stock' = [stock EXCEPT ![i] = NoLines]
    /\ Ended /\ UNCHANGED <<transfers, today, catalog>>
  BY DEF InvStep
<1>1. /\ inv \in [Inventories -> InventoryRows \union {None, Deleted}]
      /\ stock \in [Inventories -> [Products -> Int]] /\ InventoryTypeOK
  BY DEF InventoryInv, InventoryTypeOK
<1>2. \A j \in Inventories : inv'[j] = IF j = i THEN x ELSE inv[j]
  BY <1>0, <1>1
<1>3. stock' = stock
  <2>1. CASE ~Referenced(i) /\ stock' = [stock EXCEPT ![i] = NoLines]
    <3>1. ASSUME NEW p \in Products PROVE stock[i][p] = 0
      <4>0. \A n \in 1..Len(transfers) : transfers[n].to # i /\ transfers[n].from # i
        BY <1>1, <2>1, TransfersTyped DEF Referenced
      <4>1. \A t \in StockTransactions : t.to # i /\ t.from # i
        BY <1>1, <4>0, RowFacts
      <4>2. InRows(i, p) = {} /\ OutRows(i, p) = {}
        BY <4>1 DEF InRows, OutRows
      <4>3. Quantity({}) = 0
        BY FS_EmptySet, QuantityFacts
      <4> QED
        BY <4>2, <4>3 DEF InventoryInv, LedgerBalanced
    <3>2. stock[i] = NoLines
      BY <1>1, <3>1 DEF NoLines
    <3> QED
      BY <1>1, <2>1, <3>2
  <2> QED
    BY <1>0, <2>1
<1>9. KeptTypes
  <2> SUFFICES ASSUME NEW j \in Inventories, NEW y \in InventoryTypes, Known(j, y)
               PROVE  Known(j, y)'
    BY DEF KeptTypes
  <2>1. CASE j # i
    BY <1>2, <2>1 DEF Known, Rows
  <2>2. CASE j = i
    <3>1. inv'[i] = x /\ inv[i] # None /\ (i \in Rows => inv[i].type = y)
      BY <1>2, <2>2 DEF Known
    <3>2. x = Deleted \/ (x \in InventoryRows /\ x.type = y)
      BY <1>0, <3>1 DEF Becomes
    <3>3. x # None /\ (i \in Rows' => x # Deleted)
      BY <3>1, <3>2, InventoryAssumption DEF Rows
    <3> QED
      BY <2>2, <3>1, <3>2, <3>3 DEF Known
  <2> QED
    BY <2>1, <2>2
<1>10. DocumentsRouted'
  <2> SUFFICES ASSUME NEW n \in 1..Len(transfers)
               PROVE  /\ transfers[n].from \in Rows' /\ transfers[n].to \in Rows'
                      /\ Routed(transfers[n].type, transfers[n].from, transfers[n].to)'
    BY <1>0 DEF DocumentsRouted
  <2>1. transfers[n].from \in Inventories /\ transfers[n].to \in Inventories
    BY <1>1, TransfersTyped DEF TransferRows
  <2>2. /\ transfers[n].from \in Rows /\ transfers[n].to \in Rows
        /\ Routed(transfers[n].type, transfers[n].from, transfers[n].to)
    BY DEF InventoryInv, DocumentsRouted
  <2>3. Referenced(i) \/ (transfers[n].from # i /\ transfers[n].to # i)
    BY <1>1, TransfersTyped DEF Referenced
  <2>4. \A j \in Rows : (j = i => Referenced(i)) => j \in Rows'
    BY <1>0, <1>1, <1>2, InventoryAssumption DEF Rows, Becomes
  <2>5. Routed(transfers[n].type, transfers[n].from, transfers[n].to)'
    <3>0. PICK d : d = transfers[n] /\ transfers'[n] = d
      BY <1>0
    <3>1. PICK y \in InventoryTypes, z \in InventoryTypes :
            <<y, z>> \in ValidRoutes[d.type] /\ Known(d.from, y) /\ Known(d.to, z)
      BY <2>2, <3>0 DEF Routed
    <3>2. Known(d.from, y)' /\ Known(d.to, z)'
      BY <1>9, <2>1, <3>0, <3>1 DEF KeptTypes
    <3> QED
      BY <3>0, <3>1, <3>2 DEF Routed, Known
  <2> QED
    BY <2>2, <2>3, <2>4, <2>5
<1>11. LossKept'
  <2>1. Loss \in Inventories /\ inv[Loss] # None
    BY InventoryAssumption, StockAssumption DEF InventoryInv, LossKept
  <2> QED
    BY <1>0, <1>2, <2>1 DEF InventoryInv, LossKept, Becomes
<1>4. InventoryTypeOK'
  <2>1. inv' \in [Inventories -> InventoryRows \union {None, Deleted}]
    BY <1>0, <1>1
  <2> QED
    BY <1>0, <1>1, <1>3, <1>9, <2>1, EndedTyped DEF InventoryTypeOK
<1>5. AtMostOneVehicle'
  <2>0. x = Deleted \/ x \in InventoryRows
    OBVIOUS
  <2>1. \A j \in Inventories \ {i} : OfType(j, "COURIER")' <=> OfType(j, "COURIER")
    BY <1>2 DEF OfType, Active, Rows
  <2>2. OfType(i, "COURIER")' => x \in InventoryRows /\ x.type = "COURIER" /\ x.active
    BY <1>2, <2>0 DEF OfType, Active, Rows
  <2> SUFFICES ASSUME NEW j \in Inventories, NEW k \in Inventories,
                      OfType(j, "COURIER")', OfType(k, "COURIER")', inv'[j].owner = inv'[k].owner
               PROVE  j = k
    BY DEF AtMostOneVehicle
  <2>3. CASE j # i /\ k # i
    BY <1>2, <2>1, <2>3 DEF InventoryInv, AtMostOneVehicle
  <2>4. CASE j = i \/ k = i
    BY <1>0, <1>2, <2>1, <2>2, <2>4
  <2> QED
    BY <2>3, <2>4
<1>6. VendorKept'
  <2>1. Vendor \in Inventories
    BY InventoryAssumption, StockAssumption
  <2> QED
    BY <1>0, <1>2, <2>1 DEF InventoryInv, VendorKept
<1>7. DocumentsSound'
  BY <1>0 DEF InventoryInv, DocumentsSound
<1>8. NoDanglingProducts'
  BY <1>0, <1>3, SameLedger DEF InventoryInv, NoDanglingProducts, Listed
<1> QED
  BY <1>0, <1>3, <1>4, <1>5, <1>6, <1>7, <1>8, <1>9, <1>10, <1>11, SameLedger, EndedTyped DEF InventoryInv

LEMMA NextDayInv ==
  ASSUME InventoryInv, NextDay
  PROVE  InventoryInv'
<1>0. today' = today + 1 /\ today < MaxDay /\ UNCHANGED <<inv, transfers, stock, pending, catalog>>
  BY DEF NextDay
<1>1. today \in 1..MaxDay /\ MaxDay \in Nat
  BY InventoryAssumption DEF InventoryInv, InventoryTypeOK
<1>2. InventoryTypeOK'
  <2>1. today' \in 1..MaxDay
    BY <1>0, <1>1
  <2> QED
    BY <1>0, <2>1 DEF InventoryInv, InventoryTypeOK
<1>3. DocumentsSound'
  <2>1. \A n \in 1..Len(transfers) : transfers[n].day \in Nat
    BY <1>1, TransfersTyped DEF InventoryInv, TransferRows
  <2> QED
    BY <1>0, <1>1, <2>1 DEF InventoryInv, DocumentsSound
<1>4. NoDanglingProducts' /\ PendingSound'
  BY <1>0, SameLedger, EndedTyped, SameInventories DEF InventoryInv, NoDanglingProducts, Listed, Ended
<1> QED
  BY <1>0, <1>2, <1>3, <1>4, SameLedger, SameInventories DEF InventoryInv

-----------------------------------------------------------------------------
(* Every step is one of these *)

LEMMA EndEnds ==
  ASSUME NEW r \in Requests, End(r)
  PROVE  Ended
BY DEF End, Ended

LEMMA BeginStep ==
  ASSUME NEW r \in Requests, NEW q \in PendingRows, Sound(q), Begin(r, q),
         UNCHANGED <<inv, transfers, stock, today, catalog>>
  PROVE  PendingStep
<1>1. pending' = [pending EXCEPT ![r] = q] /\ q \in PendingRows \union {None}
  BY DEF Begin
<1> QED
  BY <1>1, Zenon DEF PendingStep

LEMMA RowStep ==
  ASSUME NEW i \in Inventories, NEW x \in InventoryRows, inv' = [inv EXCEPT ![i] = x],
         inv[i] = None \/ (i \in Rows /\ x.type = inv[i].type),
         x.type = "COURIER" /\ x.active =>
           \A j \in Inventories : OfType(j, "COURIER") /\ inv[j].owner = x.owner => j = i,
         i = Vendor => x.type = "VIRTUAL_VENDOR",
         stock' = stock, Ended, UNCHANGED <<transfers, today, catalog>>
  PROVE  InvStep
BY Zenon DEF InvStep, Becomes

LEMMA ManageInventoriesSteps ==
  ASSUME InventoryInv, ManageInventories
  PROVE  InvStep
<1>0. inv \in [Inventories -> InventoryRows \union {None, Deleted}]
  BY DEF InventoryInv, InventoryTypeOK
<1>1. \A i \in Inventories : i \in Rows => inv[i] \in InventoryRows
  BY <1>0 DEF Rows
<1>2. ASSUME NEW type \in InventoryTypes, NEW u \in Users
      PROVE  /\ Row(type, u, None) \in InventoryRows
             /\ Row(type, u, None).type = type /\ Row(type, u, None).owner = u
  BY DEF Row, InventoryRows
<1>3. /\ "COURIER" \in InventoryTypes /\ "CLIENT" \in InventoryTypes
      /\ inv[Vendor] # None /\ inv[Vendor].type = "VIRTUAL_VENDOR"
  BY InventoryAssumption DEF InventoryTypes, InventoryInv, VendorKept
<1>4. ASSUME NEW i \in Inventories, NEW u \in Users, create_transport(i, u) PROVE InvStep
  <2>1. PICK x : x = Row("COURIER", u, None)
    OBVIOUS
  <2>2. x \in InventoryRows /\ x.owner = u /\ i # Vendor
    BY <1>2, <1>3, <1>4, <2>1 DEF create_transport
  <2>3. \A j \in Inventories : ~(OfType(j, "COURIER") /\ inv[j].owner = u)
    BY <1>4 DEF create_transport, ActiveVehicles
  <2> QED
    BY <1>4, <2>1, <2>2, <2>3 DEF create_transport, InvStep, Ended, Becomes
<1>5. ASSUME NEW i \in Inventories, NEW u \in Users, update_transport(i, u) PROVE InvStep
  <2>1. PICK x : x = [inv[i] EXCEPT !.owner = u]
    OBVIOUS
  <2>2. x \in InventoryRows /\ x.owner = u /\ x.type = inv[i].type
    BY <1>1, <1>5, <2>1 DEF update_transport, InventoryRows
  <2>3. \A j \in Inventories : OfType(j, "COURIER") /\ inv[j].owner = u => j = i
    BY <1>5 DEF update_transport, ActiveVehicles
  <2>4. inv' = [inv EXCEPT ![i] = x]
    BY <1>5, <2>1 DEF update_transport
  <2>5. /\ stock' = stock /\ Ended /\ UNCHANGED <<transfers, today, catalog>>
        /\ i = Vendor => x.type = "VIRTUAL_VENDOR"
        /\ i \in Rows /\ x.type = inv[i].type
    BY <1>3, <1>5, <2>2 DEF update_transport, Ended
  <2> QED
    BY <2>2, <2>3, <2>4, <2>5, RowStep
<1>6. ASSUME NEW i \in Inventories, NEW u \in Users, hand_over_warehouse(i, u) PROVE InvStep
  <2>1. PICK x : x = [inv[i] EXCEPT !.owner = u]
    OBVIOUS
  <2>2. x \in InventoryRows /\ x.type = "WAREHOUSE" /\ i # Vendor
    BY <1>1, <1>3, <1>6, <2>1 DEF hand_over_warehouse, OfType, Active, InventoryRows
  <2>3. inv' = [inv EXCEPT ![i] = x]
    BY <1>6, <2>1 DEF hand_over_warehouse
  <2> QED
    BY <1>6, <2>2, <2>3 DEF hand_over_warehouse, InvStep, Ended, Becomes, OfType, Active
<1>7. ASSUME NEW i \in Inventories, NEW u \in Users, create_client_inventory(i, u) PROVE InvStep
  <2>1. PICK x : x = Row("CLIENT", u, None)
    OBVIOUS
  <2>2. x \in InventoryRows /\ x.type = "CLIENT" /\ i # Vendor
    BY <1>2, <1>3, <1>7, <2>1 DEF create_client_inventory
  <2> QED
    BY <1>7, <2>1, <2>2 DEF create_client_inventory, InvStep, Ended, Becomes
<1>8. ASSUME NEW i \in Inventories, delete_transport(i) PROVE InvStep
  <2>1. i # Vendor /\ i # Loss /\ Deleted \notin InventoryRows
    BY <1>3, <1>8, InventoryAssumption DEF delete_transport, InventoryInv, LossKept
  <2> QED
    BY <1>8, <2>1 DEF delete_transport, InvStep, Ended, Becomes
<1>9. ASSUME NEW i \in Inventories, archive_warehouse(i) PROVE InvStep
  <2>1. PICK x : x = [inv[i] EXCEPT !.active = FALSE]
    OBVIOUS
  <2>2. x \in InventoryRows /\ x.type = "WAREHOUSE" /\ i # Vendor
    BY <1>1, <1>3, <1>9, <2>1 DEF archive_warehouse, OfType, Active, InventoryRows
  <2>3. inv' = [inv EXCEPT ![i] = x]
    BY <1>9, <2>1 DEF archive_warehouse
  <2> QED
    BY <1>9, <2>2, <2>3 DEF archive_warehouse, InvStep, Ended, Becomes, OfType, Active
<1> QED
  BY <1>4, <1>5, <1>6, <1>7, <1>8, <1>9 DEF ManageInventories

LEMMA ManageCatalogSteps ==
  ASSUME InventoryInv, ManageCatalog
  PROVE  CatalogStep \/ PendingStep
<1>1. ASSUME NEW p \in Products, archive_product(p) PROVE CatalogStep
  <2>1. Returnable[p] # NoProduct => Listed(Returnable[p])
    BY <1>1 DEF archive_product, InventoryInv, NoDanglingProducts
  <2> QED
    BY <1>1, <2>1 DEF archive_product, CatalogStep, Ended
<1>2. ASSUME NEW p \in Products, hard_delete(p) PROVE CatalogStep
  BY <1>2 DEF hard_delete, CatalogStep, Ended
<1>3. ASSUME NEW p \in Products, NEW r \in Requests, add_product_check(r, p) PROVE PendingStep
  <2>1. PICK q : q = [op |-> "add_product", product |-> p]
    OBVIOUS
  <2>2. q \in PendingRows /\ Sound(q)
    BY <2>1 DEF PendingRows, Sound
  <2> QED
    BY <1>3, <2>1, <2>2, BeginStep DEF add_product_check
<1>4. ASSUME NEW p \in Products, NEW r \in Requests, restore_product_check(r, p) PROVE PendingStep
  <2>1. PICK q : q = [op |-> "restore_product", product |-> p]
    OBVIOUS
  <2>2. q \in PendingRows /\ Sound(q)
    BY <2>1 DEF PendingRows, Sound
  <2> QED
    BY <1>4, <2>1, <2>2, BeginStep DEF restore_product_check
<1> QED
  BY <1>1, <1>2, <1>3, <1>4 DEF ManageCatalog

LEMMA ProductRequestSteps ==
  ASSUME InventoryInv, NEW r \in Requests, add_product(r) \/ restore_product(r)
  PROVE  CatalogStep
<1>0. PICK q : q = pending[r]
  OBVIOUS
<1>1. q # None /\ q \in PendingRows /\ q.op \in {"add_product", "restore_product"}
  BY <1>0 DEF add_product, restore_product, InventoryInv, InventoryTypeOK
<1>2. q.product \in Products
  BY <1>1 DEF PendingRows
<1>3. Ended /\ UNCHANGED <<inv, transfers, stock, today>>
  BY EndEnds DEF add_product, restore_product
<1>4. CASE add_product(r)
  <2>1. /\ Returnable[q.product] # NoProduct => Listed(Returnable[q.product])
        /\ catalog' = [catalog EXCEPT ![q.product] = "ACTIVE"]
    BY <1>0, <1>4 DEF add_product
  <2> QED
    BY <1>2, <1>3, <2>1 DEF CatalogStep
<1>5. CASE restore_product(r)
  <2>1. catalog' = [catalog EXCEPT ![q.product] = IF Listed(q.product) THEN "ACTIVE" ELSE @]
    BY <1>0, <1>5 DEF restore_product
  <2>2. CASE Listed(q.product)
    <3>1. catalog' = [catalog EXCEPT ![q.product] = "ACTIVE"]
      BY <2>1, <2>2
    <3>2. Returnable[q.product] # NoProduct => Listed(Returnable[q.product])
      BY <1>2, <2>2 DEF InventoryInv, NoDanglingProducts
    <3> QED
      BY <1>2, <1>3, <3>1, <3>2 DEF CatalogStep
  <2>3. CASE ~Listed(q.product)
    <3>1. catalog \in [Products -> {"ABSENT", "ACTIVE", "ARCHIVED", "DELETED"}]
      BY DEF InventoryInv, InventoryTypeOK
    <3>2. catalog' = catalog
      BY <2>1, <2>3, <3>1
    <3> QED
      BY <1>2, <1>3, <3>2 DEF CatalogStep
  <2> QED
    BY <2>2, <2>3
<1> QED
  BY <1>4, <1>5

LEMMA WarehouseRequestSteps ==
  ASSUME InventoryInv, NEW r \in Requests
  PROVE  /\ \A i \in Inventories, u \in Users, n \in Names :
              create_warehouse_check(r, i, u, n) => PendingStep
         /\ \A i \in Inventories, n \in Names : update_warehouse_check(r, i, n) => PendingStep
         /\ create_warehouse(r) \/ update_warehouse(r) => InvStep
<1>0. PICK q : q = pending[r]
  OBVIOUS
<1>1. /\ q \in PendingRows \union {None}
      /\ inv \in [Inventories -> InventoryRows \union {None, Deleted}]
      /\ inv[Vendor] # None /\ inv[Vendor].type = "VIRTUAL_VENDOR"
  BY <1>0, InventoryAssumption DEF InventoryInv, InventoryTypeOK, VendorKept
<1>2. ASSUME NEW i \in Inventories, NEW u \in Users, NEW n \in Names,
             create_warehouse_check(r, i, u, n)
      PROVE  PendingStep
  <2>1. PICK p : p = [op |-> "create_warehouse", id |-> i, owner |-> u, name |-> n]
    OBVIOUS
  <2>2. p \in PendingRows /\ Sound(p)
    BY <2>1 DEF PendingRows, Sound
  <2> QED
    BY <1>2, <2>1, <2>2, BeginStep DEF create_warehouse_check
<1>3. ASSUME NEW i \in Inventories, NEW n \in Names, update_warehouse_check(r, i, n)
      PROVE  PendingStep
  <2>1. PICK p : p = [op |-> "update_warehouse", id |-> i, owner |-> None, name |-> n]
    OBVIOUS
  <2>2. p \in PendingRows /\ Sound(p)
    BY <2>1 DEF PendingRows, Sound
  <2> QED
    BY <1>3, <2>1, <2>2, BeginStep DEF update_warehouse_check
<1>4. ASSUME create_warehouse(r) PROVE InvStep
  <2>1. q # None /\ q.op = "create_warehouse" /\ inv[q.id] = None
    BY <1>0, <1>4 DEF create_warehouse
  <2>2. q.id \in Inventories /\ q.owner \in Users /\ q.name \in Names
    BY <1>1, <2>1 DEF PendingRows
  <2>3. PICK x : x = Row("WAREHOUSE", q.owner, q.name)
    OBVIOUS
  <2>4. x \in InventoryRows /\ x.type = "WAREHOUSE" /\ q.id # Vendor
    BY <1>1, <2>1, <2>2, <2>3 DEF Row, InventoryRows, InventoryTypes
  <2>5. inv' = [inv EXCEPT ![q.id] = x] /\ Ended /\ UNCHANGED <<transfers, stock, today, catalog>>
    BY <1>0, <1>4, <2>3, EndEnds DEF create_warehouse
  <2> QED
    BY <2>1, <2>2, <2>3, <2>4, <2>5, RowStep
<1>5. ASSUME update_warehouse(r) PROVE InvStep
  <2>1. q # None /\ q.op = "update_warehouse" /\ q.id \in Rows
    BY <1>0, <1>5 DEF update_warehouse
  <2>2. q.id \in Inventories /\ q.name \in Names /\ inv[q.id] \in InventoryRows
    BY <1>1, <2>1 DEF PendingRows, Rows
  <2>3. PICK x : x = [inv[q.id] EXCEPT !.name = q.name]
    OBVIOUS
  <2>4. x \in InventoryRows
    BY <2>2, <2>3 DEF InventoryRows
  <2>5. x.type = inv[q.id].type /\ x.owner = inv[q.id].owner /\ x.active = inv[q.id].active
    BY <2>2, <2>3 DEF InventoryRows
  <2>6. /\ inv' = [inv EXCEPT ![q.id] = x] /\ Ended /\ stock' = stock
        /\ UNCHANGED <<transfers, today, catalog>>
    BY <1>0, <1>5, <2>3, EndEnds DEF update_warehouse
  <2>7. x.type = "COURIER" /\ x.active =>
          \A j \in Inventories : OfType(j, "COURIER") /\ inv[j].owner = x.owner => j = q.id
    <3>1. x.type = "COURIER" /\ x.active => OfType(q.id, "COURIER")
      BY <2>1, <2>5 DEF OfType, Active
    <3> QED
      BY <2>2, <2>5, <3>1 DEF InventoryInv, AtMostOneVehicle
  <2>8. q.id = Vendor => x.type = "VIRTUAL_VENDOR"
    BY <1>1, <2>5
  <2> QED
    BY <2>1, <2>2, <2>4, <2>5, <2>6, <2>7, <2>8, RowStep
<1> QED
  BY <1>2, <1>3, <1>4, <1>5

LEMMA DocumentRequestSteps ==
  ASSUME InventoryInv, NEW r \in Requests
  PROVE  /\ \A d \in Documents : create_transfer_check(r, d) => PendingStep
         /\ create_transfer(r) => PostStep
<1>1. ASSUME NEW d \in Documents, create_transfer_check(r, d) PROVE PendingStep
  <2>1. PICK p : p = [op |-> "create_transfer", doc |-> d]
    OBVIOUS
  <2>2. d.from \in Rows /\ d.to \in Rows /\ d.from # d.to /\ RouteAllowed(d)
    BY <1>1 DEF create_transfer_check, Active
  <2>3. inv[d.from] \in InventoryRows /\ inv[d.to] \in InventoryRows
    BY <2>2 DEF Rows, InventoryInv, InventoryTypeOK
  <2>4. Routed(d.type, d.from, d.to)
    BY <2>2, <2>3, InventoryAssumption DEF Routed, Known, RouteAllowed, InventoryRows
  <2>5. p \in PendingRows /\ Sound(p)
    BY <2>1, <2>2, <2>4 DEF PendingRows, Sound
  <2> QED
    BY <1>1, <2>1, <2>5, BeginStep DEF create_transfer_check
<1>2. ASSUME create_transfer(r) PROVE PostStep
  <2>1. PICK q : q = pending[r]
    OBVIOUS
  <2>2. q \in PendingRows /\ q.op = "create_transfer" /\ Sound(q)
    BY <1>2, <2>1 DEF create_transfer, InventoryInv, InventoryTypeOK, PendingSound
  <2>3. /\ q.doc \in Documents /\ q.doc.from # q.doc.to
        /\ Routed(q.doc.type, q.doc.from, q.doc.to)
    BY <2>2 DEF PendingRows, Sound
  <2>4. PICK d : d = q.doc
    OBVIOUS
  <2>5. Postable(d)
    <3>1. d.lines \in [Products -> 0..MaxQty] /\ MaxQty \in Nat
      BY <2>3, <2>4, InventoryAssumption DEF Documents
    <3>2. d.lines \in [Products -> Nat]
      BY <3>1
    <3> QED
      BY <2>3, <2>4, <3>2 DEF Documents, Postable
  <2>6. Post(d) /\ Len(transfers) < MaxTransfers /\ End(r) /\ UNCHANGED <<inv, today, catalog>>
    BY <1>2, <2>1, <2>4 DEF create_transfer
  <2>7. InPlace(d)
    <3>1. d.from = Vendor \/ Active(d.from)
      BY <1>2, <2>1, <2>4 DEF create_transfer
    <3>2. d.to \in Rows
      BY <1>2, <2>1, <2>4 DEF create_transfer
    <3>3. Vendor \in Rows
      BY InventoryAssumption, StockAssumption DEF InventoryInv, VendorKept, Rows
    <3> QED
      BY <2>3, <2>4, <3>1, <3>2, <3>3 DEF InPlace, Active
  <2> QED
    BY <2>5, <2>6, <2>7, EndEnds, Zenon DEF PostStep
<1> QED
  BY <1>1, <1>2

LEMMA ContainersPost ==
  ASSUME InventoryInv, NEW i \in Inventories, i # Vendor, NEW lines \in [Products -> Nat],
         i \in Rows, inv[i].type = "CLIENT"
  PROVE  Postable(InitialBalance(i, lines)) /\ InPlace(InitialBalance(i, lines))
<1>1. Vendor \in Inventories
  BY InventoryAssumption, StockAssumption
<1>2. Vendor \in Rows /\ inv[Vendor].type = "VIRTUAL_VENDOR"
  BY <1>1, InventoryAssumption DEF InventoryInv, VendorKept, Rows
<1>3. <<"VIRTUAL_VENDOR", "CLIENT">> \in ValidRoutes["INITIAL_BALANCE"]
  BY DEF ValidRoutes, Real
<1>4. Known(Vendor, "VIRTUAL_VENDOR") /\ Known(i, "CLIENT")
  BY <1>2 DEF Known, Rows
<1>5. Routed("INITIAL_BALANCE", Vendor, i)
  BY <1>3, <1>4 DEF Routed, InventoryTypes
<1> QED
  BY <1>1, <1>2, <1>5 DEF InitialBalance, Postable, InPlace

\* What is missing is a natural number of containers.
LEMMA DeficitTyped ==
  ASSUME InventoryInv, NEW i \in Inventories, NEW cart \in Carts
  PROVE  Deficit(i, cart) \in [Products -> Nat]
<1> DEFINE missing == [p \in Products |->
      IF p \in ActiveProducts /\ cart[p] > 0 /\ Returnable[p] # NoProduct /\ cart[p] > stock[i][Returnable[p]]
      THEN cart[p] - stock[i][Returnable[p]] ELSE 0]
<1>1. stock[i] \in [Products -> Int] /\ \A p \in Products : cart[p] \in Nat
  BY InventoryAssumption DEF InventoryInv, InventoryTypeOK, Carts
<1>2. ASSUME NEW p \in Products PROVE missing[p] \in Nat
  <2>1. Returnable[p] # NoProduct => stock[i][Returnable[p]] \in Int
    BY <1>1, StockAssumption
  <2> QED
    BY <1>1, <2>1
<1>3. Deficit(i, cart) = ReturnableItems(missing)
  BY DEF Deficit
<1> HIDE DEF missing
<1>4. ASSUME NEW t \in Products
      PROVE  SumOver(missing, {p \in Products : Returnable[p] = t}) \in Nat
  <2>1. IsFiniteSet({p \in Products : Returnable[p] = t})
    BY StockAssumption, FS_Subset
  <2>2. IsSummable(missing, {p \in Products : Returnable[p] = t})
    BY <1>2, <2>1 DEF IsSummable
  <2> QED
    BY <2>2, SumNat
<1> QED
  BY <1>3, <1>4 DEF ReturnableItems

LEMMA ContainerSteps ==
  ASSUME InventoryInv
  PROVE  /\ \A lines \in Containers, i \in Inventories : capitalize_tara(i, lines) => PostStep
         /\ \A lines \in Containers, u \in Clients : capitalize_tara_for_client(u, lines) => PostStep
         /\ \A r \in Requests, u \in Clients, i \in Inventories, cart \in Carts :
              capitalize_deficit_check(r, u, i, cart) => PendingStep
         /\ \A r \in Requests : capitalize_deficit(r) => PostStep
<1>1. \A i \in Inventories : OfType(i, "CLIENT") => i # Vendor /\ i \in Rows /\ inv[i].type = "CLIENT"
  BY DEF OfType, Active, InventoryInv, VendorKept
<1>2. Containers \subseteq [Products -> Nat]
  <2>1. \A n \in 0..MaxQty : n \in Nat
    BY InventoryAssumption
  <2> QED
    BY <2>1 DEF Containers
<1>3. ASSUME NEW lines \in Containers, NEW i \in Inventories, capitalize_tara(i, lines) PROVE PostStep
  <2>1. Postable(InitialBalance(i, lines)) /\ InPlace(InitialBalance(i, lines))
    BY <1>1, <1>2, <1>3, ContainersPost DEF capitalize_tara
  <2>2. /\ Post(InitialBalance(i, lines)) /\ Len(transfers) < MaxTransfers
        /\ Ended /\ UNCHANGED <<inv, today, catalog>>
    BY <1>3 DEF capitalize_tara, Ended
  <2> QED
    BY <2>1, <2>2, Zenon DEF PostStep
<1>4. ASSUME NEW lines \in Containers, NEW u \in Clients, capitalize_tara_for_client(u, lines)
      PROVE  PostStep
  <2>0. PICK i \in ClientInventories(u) : Post(InitialBalance(i, lines))
    BY <1>4 DEF capitalize_tara_for_client
  <2>1. i \in Inventories /\ i # Vendor /\ i \in Rows /\ inv[i].type = "CLIENT"
    BY <1>1 DEF ClientInventories
  <2>2. Postable(InitialBalance(i, lines)) /\ InPlace(InitialBalance(i, lines))
    BY <1>2, <2>1, ContainersPost
  <2>3. Len(transfers) < MaxTransfers /\ Ended /\ UNCHANGED <<inv, today, catalog>>
    BY <1>4 DEF capitalize_tara_for_client, Ended
  <2> QED
    BY <2>0, <2>2, <2>3, Zenon DEF PostStep
<1>5. ASSUME NEW r \in Requests, NEW u \in Clients, NEW i \in Inventories, NEW cart \in Carts,
             capitalize_deficit_check(r, u, i, cart)
      PROVE  PendingStep
  <2>1. PICK lines \in [Products -> Nat] : lines = Deficit(i, cart)
    BY DeficitTyped
  <2>2. PICK q : q = [op |-> "capitalize_deficit", id |-> i, lines |-> lines, cart |-> cart]
    OBVIOUS
  <2>3. i # Vendor /\ Known(i, "CLIENT")
    BY <1>1, <1>5 DEF capitalize_deficit_check, Known, Rows
  <2>4. q \in PendingRows
    BY <2>2 DEF PendingRows
  <2>5. Sound(q)
    BY <2>2, <2>3 DEF Sound
  <2>6. Begin(r, q) /\ UNCHANGED <<inv, transfers, stock, today, catalog>>
    BY <1>5, <2>1, <2>2 DEF capitalize_deficit_check
  <2> QED
    BY <2>4, <2>5, <2>6, BeginStep
<1>6. ASSUME NEW r \in Requests, capitalize_deficit(r) PROVE PostStep
  <2>1. PICK q : q = pending[r]
    OBVIOUS
  <2>2. q \in PendingRows /\ q.op = "capitalize_deficit" /\ Sound(q)
    BY <1>6, <2>1 DEF capitalize_deficit, InventoryInv, InventoryTypeOK, PendingSound
  <2>3. q.id \in Inventories /\ q.id # Vendor /\ q.lines \in [Products -> Nat]
    BY <2>2 DEF PendingRows, Sound
  <2>7. q.id \in Rows /\ inv[q.id].type = "CLIENT"
    BY <1>6, <2>1, <2>2 DEF capitalize_deficit, Sound, Known
  <2>4. Postable(InitialBalance(q.id, q.lines)) /\ InPlace(InitialBalance(q.id, q.lines))
    BY <2>3, <2>7, ContainersPost
  <2>5. /\ Post(InitialBalance(q.id, q.lines)) /\ Len(transfers) < MaxTransfers /\ End(r)
        /\ UNCHANGED <<inv, today, catalog>>
    BY <1>6, <2>1 DEF capitalize_deficit
  <2> QED
    BY <2>4, <2>5, EndEnds, Zenon DEF PostStep
<1> QED
  BY <1>3, <1>4, <1>5, <1>6

LEMMA AbortedStep ==
  ASSUME NEW r \in Requests, RequestAborted(r)
  PROVE  PendingStep
BY Zenon DEF RequestAborted, PendingStep, End

-----------------------------------------------------------------------------
(* The invariant *)

LEMMA InitialInv ==
  ASSUME Init
  PROVE  InventoryInv
<1>0. /\ transfers = <<>> /\ today = 1 /\ pending = [r \in Requests |-> None]
      /\ stock = [i \in Inventories |-> NoLines]
      /\ catalog = [p \in Products |-> IF CatalogOpen THEN "ABSENT" ELSE "ACTIVE"]
  BY DEF Init
<1>1. \A i \in Inventories : inv[i] = IF i = Vendor THEN Row("VIRTUAL_VENDOR", SystemUser, None)
                               ELSE IF i = Loss THEN Row("VIRTUAL_LOSS", SystemUser, None) ELSE InitInv[i]
  <2>1. Vendor # Loss
    BY InventoryAssumption
  <2> QED
    BY <2>1 DEF Init
<1>2. /\ Vendor \in Inventories /\ Loss \in Inventories /\ Vendor # Loss
      /\ Row("VIRTUAL_VENDOR", SystemUser, None) \in InventoryRows
      /\ Row("VIRTUAL_LOSS", SystemUser, None) \in InventoryRows
      /\ Row("VIRTUAL_VENDOR", SystemUser, None).type = "VIRTUAL_VENDOR"
      /\ Row("VIRTUAL_LOSS", SystemUser, None).type = "VIRTUAL_LOSS"
  BY InventoryAssumption, StockAssumption DEF Row, InventoryRows, InventoryTypes
<1>3. inv \in [Inventories -> InventoryRows \union {None, Deleted}]
  <2>1. \A i \in Inventories : inv[i] \in InventoryRows \union {None, Deleted}
    BY <1>1, <1>2, InitInvAssumption
  <2>2. inv = [i \in Inventories |-> inv[i]]
    BY DEF Init
  <2> QED
    BY <2>1, <2>2
<1>4. InventoryTypeOK
  <2>1. stock \in [Inventories -> [Products -> Int]]
    BY <1>0 DEF NoLines
  <2>2. today \in 1..MaxDay /\ transfers \in Seq(TransferRows) /\ Len(transfers) <= MaxTransfers
    BY <1>0, InventoryAssumption
  <2> QED
    BY <1>0, <1>3, <2>1, <2>2 DEF InventoryTypeOK
<1>5. AtMostOneVehicle
  <2>1. \A i \in Inventories : OfType(i, "COURIER") =>
          inv[i] = InitInv[i] /\ InitInv[i] # None /\ InitInv[i].type = "COURIER"
    BY <1>1, <1>2 DEF OfType, Active, Rows
  <2> QED
    BY <2>1, InitInvAssumption DEF AtMostOneVehicle
<1>6. StockTransactions = {}
  BY <1>0 DEF StockTransactions
<1>7. LedgerBalanced /\ IsFiniteSet(StockTransactions)
  <2>1. \A i, p : InRows(i, p) = {} /\ OutRows(i, p) = {}
    BY <1>6 DEF InRows, OutRows
  <2>2. Quantity({}) = 0
    BY FS_EmptySet, QuantityFacts
  <2>3. \A i \in Inventories, p \in Products : stock[i][p] = 0
    BY <1>0 DEF NoLines
  <2>4. LedgerBalanced
    BY <2>1, <2>2, <2>3 DEF LedgerBalanced
  <2> QED
    BY <1>6, <2>4, FS_EmptySet
<1>8. NoDanglingProducts
  <2>1. \A p \in Products : Returnable[p] # NoProduct => Returnable[p] \in Products
    BY StockAssumption
  <2>2. \A p \in Products : Listed(p) <=> ~CatalogOpen
    BY <1>0 DEF Listed
  <2> QED
    BY <1>6, <2>1, <2>2 DEF NoDanglingProducts
<1> QED
  BY <1>0, <1>1, <1>2, <1>4, <1>5, <1>7, <1>8
  DEF InventoryInv, VendorKept, LossKept, PendingSound, DocumentsSound, DocumentsRouted,
      NothingBelowZero, NoLines

LEMMA NextSteps ==
  ASSUME InventoryInv, Next
  PROVE  PostStep \/ PendingStep \/ CatalogStep \/ InvStep \/ NextDay
<1>1. ASSUME NEW r \in Requests, Request(r)
      PROVE  PostStep \/ PendingStep \/ CatalogStep \/ InvStep
  <2>1. CASE add_product(r) \/ restore_product(r)
    BY <2>1, ProductRequestSteps
  <2>2. CASE \/ \E i \in Inventories, u \in Users, n \in Names : create_warehouse_check(r, i, u, n)
             \/ create_warehouse(r)
             \/ \E i \in Inventories, n \in Names : update_warehouse_check(r, i, n)
             \/ update_warehouse(r)
    BY <2>2, WarehouseRequestSteps
  <2>3. CASE (\E d \in Documents : create_transfer_check(r, d)) \/ create_transfer(r)
    BY <2>3, DocumentRequestSteps
  <2>4. CASE \/ \E u \in Clients, i \in Inventories, cart \in Carts : capitalize_deficit_check(r, u, i, cart)
             \/ capitalize_deficit(r)
    BY <2>4, ContainerSteps
  <2>5. CASE RequestAborted(r)
    BY <2>5, AbortedStep
  <2> QED
    BY <1>1, <2>1, <2>2, <2>3, <2>4, <2>5, Zenon DEF Request
<1>2. CASE \E lines \in Containers : \/ \E i \in Inventories : capitalize_tara(i, lines)
                                    \/ \E u \in Clients : capitalize_tara_for_client(u, lines)
  BY <1>2, ContainerSteps
<1> QED
  BY <1>1, <1>2, ManageInventoriesSteps, ManageCatalogSteps, Zenon DEF Next

LEMMA InventoryInvariant == Spec => []InventoryInv
<1>1. Init => InventoryInv
  BY InitialInv
<1>2. InventoryInv /\ [Next]_invVars => InventoryInv'
  <2> SUFFICES ASSUME InventoryInv, [Next]_invVars PROVE InventoryInv'
    OBVIOUS
  <2>1. CASE Next
    BY <2>1, NextSteps, PostStepInv, PendingStepInv, CatalogStepInv, InvStepInv, NextDayInv
  <2>2. CASE UNCHANGED invVars
    <3>1. UNCHANGED <<inv, transfers, stock, pending, today, catalog>>
      BY <2>2 DEF invVars
    <3>2. InventoryTypeOK' /\ DocumentsSound' /\ NoDanglingProducts' /\ PendingSound'
      BY <3>1, SameLedger, EndedTyped, SameInventories
      DEF InventoryInv, InventoryTypeOK, DocumentsSound, NoDanglingProducts, Listed, Ended
    <3> QED
      BY <3>1, <3>2, SameLedger, SameInventories DEF InventoryInv
  <2> QED
    BY <2>1, <2>2
<1> QED
  BY <1>1, <1>2, PTL DEF Spec

-----------------------------------------------------------------------------
(* What the rows of the ledger look like, and sums over them *)

\* A row along an allowed route, between two inventories that exist.
GoodRow(t) ==
  /\ t.product \in Products /\ t.quantity \in Nat
  /\ t.day \in Nat /\ 1 <= t.day /\ t.day <= today
  /\ t.from \in Rows /\ t.to \in Rows /\ t.from # t.to
  /\ t.type \in DOMAIN ValidRoutes /\ <<TypeOf(t.from), TypeOf(t.to)>> \in ValidRoutes[t.type]

LEMMA RowsAreGood ==
  ASSUME InventoryInv
  PROVE  \A t \in StockTransactions : GoodRow(t)
<1> SUFFICES ASSUME NEW t \in StockTransactions PROVE GoodRow(t)
  OBVIOUS
<1>0. InventoryTypeOK
  BY DEF InventoryInv
<1>1. PICK n \in 1..Len(transfers) :
           /\ t.product \in Products /\ t.quantity \in Nat
           /\ t.from = transfers[n].from /\ t.to = transfers[n].to /\ t.day = transfers[n].day
           /\ t.type = transfers[n].type
  BY <1>0, RowFacts
<1>2. PICK x : x = transfers[n]
  OBVIOUS
<1>3. x \in TransferRows
  BY <1>0, <1>2, TransfersTyped
<1>4. x.day \in 1..MaxDay /\ MaxDay \in Nat /\ today \in 1..MaxDay
  BY <1>0, <1>3, InventoryAssumption DEF TransferRows, InventoryTypeOK
<1>5. x.type \in DOMAIN ValidRoutes
  BY <1>3, RoutesAssumption DEF TransferRows, ValidRoutes
<1>6. x.from # x.to /\ x.day <= today
  BY <1>2 DEF InventoryInv, DocumentsSound
<1>7. x.from \in Rows /\ x.to \in Rows /\ Routed(x.type, x.from, x.to)
  BY <1>2 DEF InventoryInv, DocumentsRouted
<1>8. <<inv[x.from].type, inv[x.to].type>> \in ValidRoutes[x.type]
  BY <1>7 DEF Routed, Known
<1>9. t.day \in Nat /\ 1 <= t.day /\ t.day <= today
  BY <1>1, <1>2, <1>4, <1>6
<1> QED
  BY <1>1, <1>2, <1>5, <1>6, <1>7, <1>8, <1>9 DEF GoodRow, TypeOf

\* Goods come from real inventories or the vendor and go to real ones or the
\* loss, and never from one client to another.
LEMMA Routes ==
  ASSUME InventoryInv, NEW t \in StockTransactions
  PROVE  /\ TypeOf(t.from) \in Real \union {"VIRTUAL_VENDOR"}
         /\ TypeOf(t.to) \in Real \union {"VIRTUAL_LOSS"}
         /\ ~(TypeOf(t.from) = "CLIENT" /\ TypeOf(t.to) = "CLIENT")
<1>1. GoodRow(t)
  BY RowsAreGood
<1>2. PICK y, z : y = TypeOf(t.from) /\ z = TypeOf(t.to)
  OBVIOUS
<1>3. PICK x \in DOMAIN ValidRoutes : <<y, z>> \in ValidRoutes[x]
  BY <1>1, <1>2 DEF GoodRow
<1>4. /\ y \in Real \union {"VIRTUAL_VENDOR"} /\ z \in Real \union {"VIRTUAL_LOSS"}
      /\ ~(y = "CLIENT" /\ z = "CLIENT")
  BY <1>3 DEF ValidRoutes, Real
<1> QED
  BY <1>2, <1>4

RowQuantity == [t \in StockTransactions |-> t.quantity]

\* Sums over rows do not depend on the rows around them.
LEMMA QuantityOver ==
  ASSUME InventoryInv, NEW R, R \subseteq StockTransactions
  PROVE  /\ IsSummable(RowQuantity, R) /\ Quantity(R) = SumOver(RowQuantity, R)
         /\ Quantity(R) \in Nat
<1>1. IsFiniteSet(R)
  BY FS_Subset DEF InventoryInv
<1>2. \A t \in R : RowQuantity[t] = t.quantity /\ t.quantity \in Nat
  BY RowsAreGood DEF RowQuantity, GoodRow
<1>3. IsSummable(RowQuantity, R)
  BY <1>1, <1>2 DEF IsSummable
<1>4. \A t \in R : [u \in R |-> u.quantity][t] = RowQuantity[t]
  BY <1>2
<1>5. SumOver([u \in R |-> u.quantity], R) = SumOver(RowQuantity, R)
  BY <1>4, SumSame
<1> QED
  BY <1>3, <1>5, SumNat DEF Quantity

LEMMA QuantityDisjoint ==
  ASSUME InventoryInv, NEW R, NEW S, R \subseteq StockTransactions, S \subseteq StockTransactions,
         R \intersect S = {}
  PROVE  /\ Quantity(R \union S) = Quantity(R) + Quantity(S)
         /\ Quantity(R) \in Nat /\ Quantity(S) \in Nat
<1>1. R \union S \subseteq StockTransactions
  OBVIOUS
<1>2. /\ IsSummable(RowQuantity, R) /\ IsSummable(RowQuantity, S)
      /\ Quantity(R) = SumOver(RowQuantity, R) /\ Quantity(S) = SumOver(RowQuantity, S)
      /\ Quantity(R \union S) = SumOver(RowQuantity, R \union S)
      /\ Quantity(R) \in Nat /\ Quantity(S) \in Nat
  BY <1>1, QuantityOver
<1> QED
  BY <1>2, SumDisjoint

LEMMA QuantityLess ==
  ASSUME InventoryInv, NEW S, S \subseteq StockTransactions, NEW R, R \subseteq S
  PROVE  Quantity(R) <= Quantity(S) /\ Quantity(R) \in Nat /\ Quantity(S) \in Nat
<1>1. R \subseteq StockTransactions /\ S \ R \subseteq StockTransactions /\ R \intersect (S \ R) = {}
  OBVIOUS
<1>2. R \union (S \ R) = S
  OBVIOUS
<1>3. /\ Quantity(R \union (S \ R)) = Quantity(R) + Quantity(S \ R)
      /\ Quantity(R) \in Nat /\ Quantity(S \ R) \in Nat
  BY <1>1, QuantityDisjoint
<1>4. Quantity(S) = Quantity(R) + Quantity(S \ R)
  BY <1>2, <1>3, Zenon
<1> QED
  BY <1>3, <1>4

\* For each key of K what the rows In under it bring and the rows Out take.
Flows(f, K, In, in, Out, out) ==
  /\ \A t \in In : in[t] \in K
  /\ \A t \in Out : out[t] \in K
  /\ \A k \in K : f[k] = Quantity({t \in In : in[t] = k}) - Quantity({t \in Out : out[t] = k})

\* Summed over the keys this is what all these rows bring and take.
LEMMA SumOfFlows ==
  ASSUME InventoryInv, NEW f, NEW K, IsFiniteSet(K), NEW In, NEW Out, NEW in, NEW out,
         In \subseteq StockTransactions, Out \subseteq StockTransactions,
         Flows(f, K, In, in, Out, out)
  PROVE  SignedSum(f, K) = Quantity(In) - Quantity(Out)
<1> DEFINE q == RowQuantity
           g == [k \in K |-> SumOver(q, {t \in In : in[t] = k})]
           h == [k \in K |-> SumOver(q, {t \in Out : out[t] = k})]
<1>1. /\ IsSummable(q, In) /\ Quantity(In) = SumOver(q, In)
      /\ IsSummable(q, Out) /\ Quantity(Out) = SumOver(q, Out)
  BY QuantityOver
<1>2. Grouped(q, In, in, K, g) /\ Grouped(q, Out, out, K, h)
  BY DEF Grouped, Flows
<1>3. \A k \in K : f[k] = g[k] - h[k]
  <2> SUFFICES ASSUME NEW k \in K PROVE f[k] = g[k] - h[k]
    OBVIOUS
  <2>1. {t \in In : in[t] = k} \subseteq StockTransactions /\ {t \in Out : out[t] = k} \subseteq StockTransactions
    OBVIOUS
  <2>2. /\ Quantity({t \in In : in[t] = k}) = SumOver(q, {t \in In : in[t] = k})
        /\ Quantity({t \in Out : out[t] = k}) = SumOver(q, {t \in Out : out[t] = k})
    BY <2>1, QuantityOver
  <2> QED
    BY <2>2 DEF Flows
<1> HIDE DEF g, h, q
<1>4. /\ SumOver(q, In) = SumOver(g, K) /\ IsSummable(g, K)
      /\ SumOver(q, Out) = SumOver(h, K) /\ IsSummable(h, K)
  BY <1>1, <1>2, SumGrouped
<1>5. SignedSum(f, K) = SumOver(g, K) - SumOver(h, K)
  BY <1>3, <1>4, SignedDifference
<1> QED
  BY <1>1, <1>4, <1>5

\* Rows counted key by key.
ByKey(f, K, R, key) ==
  /\ R \subseteq StockTransactions /\ \A t \in R : key[t] \in K
  /\ \A k \in K : f[k] = Quantity({t \in R : key[t] = k})

LEMMA QuantityGrouped ==
  ASSUME InventoryInv, NEW f, NEW K, IsFiniteSet(K), NEW R, NEW key, ByKey(f, K, R, key)
  PROVE  SumOver(f, K) = Quantity(R)
<1>1. IsSummable(RowQuantity, R) /\ Quantity(R) = SumOver(RowQuantity, R)
  BY QuantityOver DEF ByKey
<1>2. \A k \in K : f[k] = SumOver(RowQuantity, {t \in R : key[t] = k})
  <2> SUFFICES ASSUME NEW k \in K PROVE f[k] = SumOver(RowQuantity, {t \in R : key[t] = k})
    OBVIOUS
  <2>1. {t \in R : key[t] = k} \subseteq StockTransactions
    BY DEF ByKey
  <2> QED
    BY <2>1, QuantityOver DEF ByKey
<1>3. Grouped(RowQuantity, R, key, K, f)
  BY <1>2 DEF Grouped, ByKey
<1> QED
  BY <1>1, <1>3, SumGrouped

-----------------------------------------------------------------------------
(* Balances as sums over rows *)

\* A balance as of a day is what the rows up to it brought and took.
LEMMA BalanceAsOf ==
  ASSUME InventoryInv, NEW i, NEW p, NEW d
  PROVE  get_balance(i, p, d) =
           Quantity({t \in StockTransactions : t.product = p /\ t.day <= d /\ t.to = i})
             - Quantity({t \in StockTransactions : t.product = p /\ t.day <= d /\ t.from = i})
<1>1. \A t \in StockTransactions : t.from # t.to
  BY RowsAreGood DEF GoodRow
<1>2. {t \in {u \in StockTransactions : u.product = p /\ u.day <= d} : t.to = i}
        = {t \in StockTransactions : t.product = p /\ t.day <= d /\ t.to = i}
  OBVIOUS
<1>3. {t \in {u \in StockTransactions : u.product = p /\ u.day <= d} : t.to # i /\ t.from = i}
        = {t \in StockTransactions : t.product = p /\ t.day <= d /\ t.from = i}
  BY <1>1
<1> QED
  BY <1>2, <1>3 DEF get_balance

\* The current balance is the kept one.
LEMMA BalanceNow ==
  ASSUME InventoryInv, NEW i \in Inventories, NEW p \in Products
  PROVE  /\ get_balance(i, p, today) = stock[i][p] /\ stock[i][p] \in Int
         /\ stock[i][p] = Quantity({t \in StockTransactions : t.product = p /\ t.to = i})
                            - Quantity({t \in StockTransactions : t.product = p /\ t.from = i})
<1>1. \A t \in StockTransactions : t.from # t.to /\ t.day <= today
  BY RowsAreGood DEF GoodRow
<1>2. /\ {t \in StockTransactions : t.product = p /\ t.to = i} = InRows(i, p)
      /\ {t \in StockTransactions : t.product = p /\ t.from = i} = OutRows(i, p)
  BY <1>1 DEF InRows, OutRows
<1>3. /\ {t \in StockTransactions : t.product = p /\ t.day <= today /\ t.to = i} = InRows(i, p)
      /\ {t \in StockTransactions : t.product = p /\ t.day <= today /\ t.from = i} = OutRows(i, p)
  BY <1>1 DEF InRows, OutRows
<1>4. stock[i][p] = Quantity(InRows(i, p)) - Quantity(OutRows(i, p))
  BY DEF InventoryInv, LedgerBalanced
<1>5. get_balance(i, p, today) = Quantity(InRows(i, p)) - Quantity(OutRows(i, p))
  BY <1>3, BalanceAsOf
<1> QED
  BY <1>2, <1>4, <1>5 DEF InventoryInv, InventoryTypeOK

\* The pairs of inventory and product with a row.
LEMMA BalancesTyped ==
  ASSUME InventoryInv
  PROVE  /\ IsFiniteSet(Balances) /\ Balances \subseteq Rows \X Products
         /\ \A t \in StockTransactions :
              <<t.from, t.product>> \in Balances /\ <<t.to, t.product>> \in Balances
<1>1. Balances \subseteq Rows \X Products
  <2> SUFFICES ASSUME NEW b \in Balances PROVE b \in Rows \X Products
    OBVIOUS
  <2>1. PICK t \in StockTransactions : b \in {<<t.from, t.product>>, <<t.to, t.product>>}
    BY DEF Balances
  <2>2. t.from \in Rows /\ t.to \in Rows /\ t.product \in Products
    BY RowsAreGood DEF GoodRow
  <2> QED
    BY <2>1, <2>2
<1>2. IsFiniteSet(Rows)
  BY StockAssumption, FS_Subset DEF Rows
<1>3. IsFiniteSet(Rows \X Products)
  BY <1>2, StockAssumption, FS_Product
<1>4. IsFiniteSet(Balances)
  BY <1>1, <1>3, FS_Subset
<1> QED
  BY <1>1, <1>4 DEF Balances

\* The rows up to a day into and out of some balances.
Into(B, d)  == {t \in StockTransactions : <<t.to, t.product>> \in B /\ t.day <= d}
OutOf(B, d) == {t \in StockTransactions : <<t.from, t.product>> \in B /\ t.day <= d}

LEMMA BalancesAsOf ==
  ASSUME InventoryInv, NEW B, B \subseteq Balances, NEW d, NEW f,
         \A b \in B : f[b] = get_balance(b[1], b[2], d)
  PROVE  SignedSum(f, B) = Quantity(Into(B, d)) - Quantity(OutOf(B, d))
<1> DEFINE in  == [t \in StockTransactions |-> <<t.to, t.product>>]
           out == [t \in StockTransactions |-> <<t.from, t.product>>]
<1>1. IsFiniteSet(B)
  BY BalancesTyped, FS_Subset
<1>2. Into(B, d) \subseteq StockTransactions /\ OutOf(B, d) \subseteq StockTransactions
  BY DEF Into, OutOf
<1>3. ASSUME NEW b \in B
      PROVE  f[b] = Quantity({t \in Into(B, d) : in[t] = b}) - Quantity({t \in OutOf(B, d) : out[t] = b})
  <2>1. PICK i, p : b = <<i, p>>
    BY BalancesTyped
  <2>2. {t \in Into(B, d) : in[t] = b}
          = {t \in StockTransactions : t.product = p /\ t.day <= d /\ t.to = i}
    BY <2>1 DEF Into
  <2>3. {t \in OutOf(B, d) : out[t] = b}
          = {t \in StockTransactions : t.product = p /\ t.day <= d /\ t.from = i}
    BY <2>1 DEF OutOf
  <2>4. f[b] = get_balance(i, p, d)
    BY <2>1
  <2>5. get_balance(i, p, d) =
           Quantity({t \in StockTransactions : t.product = p /\ t.day <= d /\ t.to = i})
             - Quantity({t \in StockTransactions : t.product = p /\ t.day <= d /\ t.from = i})
    BY BalanceAsOf
  <2> QED
    BY <2>2, <2>3, <2>4, <2>5, Zenon
<1>4. (\A t \in Into(B, d) : in[t] \in B) /\ (\A t \in OutOf(B, d) : out[t] \in B)
  BY DEF Into, OutOf
<1>5. Flows(f, B, Into(B, d), in, OutOf(B, d), out)
  BY <1>3, <1>4 DEF Flows
<1> HIDE DEF in, out
<1> QED
  BY <1>1, <1>2, <1>5, SumOfFlows

LEMMA BalancesNow ==
  ASSUME InventoryInv, NEW B, B \subseteq Balances
  PROVE  BalanceSum(B) = Quantity(Into(B, today)) - Quantity(OutOf(B, today))
<1> DEFINE f == [b \in B |-> stock[b[1]][b[2]]]
<1>1. \A b \in B : f[b] = get_balance(b[1], b[2], today)
  BY BalancesTyped, BalanceNow DEF Rows
<1>2. BalanceSum(B) = SignedSum(f, B)
  BY DEF BalanceSum
<1> HIDE DEF f
<1> QED
  BY <1>1, <1>2, BalancesAsOf

\* The balances of products P in inventories of the types Y, and the rows up to
\* a day that bring goods to such inventories and take goods from them.
GroupOf(Y, P) == {b \in Balances : TypeOf(b[1]) \in Y /\ b[2] \in P}
Brings(Y, P, d) == {t \in StockTransactions : TypeOf(t.to) \in Y /\ t.product \in P /\ t.day <= d}
Takes(Y, P, d)  == {t \in StockTransactions : TypeOf(t.from) \in Y /\ t.product \in P /\ t.day <= d}

OfKind(kind) == {p \in Products : ProductType[p] = kind}

LEMMA GroupRows ==
  ASSUME InventoryInv, NEW Y, NEW P, NEW d
  PROVE  /\ GroupOf(Y, P) \subseteq Balances
         /\ Into(GroupOf(Y, P), d) = Brings(Y, P, d) /\ OutOf(GroupOf(Y, P), d) = Takes(Y, P, d)
<1>1. \A t \in StockTransactions :
        <<t.from, t.product>> \in Balances /\ <<t.to, t.product>> \in Balances
  BY BalancesTyped
<1>2. Into(GroupOf(Y, P), d) = Brings(Y, P, d)
  BY <1>1 DEF Into, Brings, GroupOf
<1>3. OutOf(GroupOf(Y, P), d) = Takes(Y, P, d)
  BY <1>1 DEF OutOf, Takes, GroupOf
<1> QED
  BY <1>2, <1>3 DEF GroupOf

LEMMA GroupNow ==
  ASSUME InventoryInv, NEW Y, NEW P
  PROVE  BalanceSum(GroupOf(Y, P)) = Quantity(Brings(Y, P, today)) - Quantity(Takes(Y, P, today))
<1>1. /\ GroupOf(Y, P) \subseteq Balances
      /\ Into(GroupOf(Y, P), today) = Brings(Y, P, today) /\ OutOf(GroupOf(Y, P), today) = Takes(Y, P, today)
  BY GroupRows
<1>2. BalanceSum(GroupOf(Y, P)) = Quantity(Into(GroupOf(Y, P), today)) - Quantity(OutOf(GroupOf(Y, P), today))
  BY <1>1, BalancesNow
<1> QED
  BY <1>1, <1>2, Zenon

LEMMA HeldIs ==
  ASSUME InventoryInv, NEW Y, NEW kind
  PROVE  Held(Y, kind) = Quantity(Brings(Y, OfKind(kind), today)) - Quantity(Takes(Y, OfKind(kind), today))
<1>1. {b \in Balances : TypeOf(b[1]) \in Y /\ ProductType[b[2]] = kind} = GroupOf(Y, OfKind(kind))
  BY BalancesTyped DEF GroupOf, OfKind
<1>2. Held(Y, kind) = BalanceSum(GroupOf(Y, OfKind(kind)))
  BY <1>1, Zenon DEF Held
<1> QED
  BY <1>2, GroupNow

-----------------------------------------------------------------------------
(* The trend works backwards from the current balances *)

LEMMA HeldAsOfIs ==
  ASSUME InventoryInv, NEW Y, NEW kind, NEW d
  PROVE  HeldAsOf(Y, kind, d) = Quantity(Brings(Y, OfKind(kind), d)) - Quantity(Takes(Y, OfKind(kind), d))
<1> DEFINE f == [b \in Balances |-> get_balance(b[1], b[2], d)]
           B == GroupOf(Y, OfKind(kind))
<1>1. {b \in Balances : TypeOf(b[1]) \in Y /\ ProductType[b[2]] = kind} = B
  BY BalancesTyped DEF GroupOf, OfKind
<1>2. HeldAsOf(Y, kind, d) = SignedSum(f, B)
  BY <1>1, Zenon DEF HeldAsOf
<1>3. /\ B \subseteq Balances /\ Into(B, d) = Brings(Y, OfKind(kind), d)
      /\ OutOf(B, d) = Takes(Y, OfKind(kind), d)
  BY GroupRows
<1>4. \A b \in B : f[b] = get_balance(b[1], b[2], d)
  BY <1>3
<1> HIDE DEF f, B
<1>5. SignedSum(f, B) = Quantity(Into(B, d)) - Quantity(OutOf(B, d))
  BY <1>3, <1>4, BalancesAsOf
<1> QED
  BY <1>2, <1>3, <1>5, Zenon

LEMMA TrendPoint ==
  ASSUME InventoryInv, NEW Y, NEW kind, NEW day \in Nat, day <= today
  PROVE  Held(Y, kind) - FutureChange(Y, kind, day, today) = HeldAsOf(Y, kind, day)
<1> DEFINE P == OfKind(kind)
           rows == {t \in StockTransactions : ProductType[t.product] = kind /\ t.day \in day+1..today}
           inLater == {t \in rows : TypeOf(t.to) \in Y}
           outLater == {t \in rows : TypeOf(t.from) \in Y}
<1>0. today \in Nat
  BY InventoryAssumption DEF InventoryInv, InventoryTypeOK
<1>1. \A t \in StockTransactions :
        /\ t.product \in P <=> ProductType[t.product] = kind
        /\ t.day \in Nat /\ t.day <= today
  BY RowsAreGood DEF GoodRow, OfKind
<1>2. \A t \in StockTransactions : t.day \in day+1..today <=> ~(t.day <= day)
  BY <1>0, <1>1
<1> HIDE DEF P
<1>3. /\ Brings(Y, P, today) = Brings(Y, P, day) \union inLater
      /\ Brings(Y, P, day) \intersect inLater = {}
  BY <1>1, <1>2 DEF Brings
<1>4. /\ Takes(Y, P, today) = Takes(Y, P, day) \union outLater
      /\ Takes(Y, P, day) \intersect outLater = {}
  BY <1>1, <1>2 DEF Takes
<1>5. /\ Brings(Y, P, day) \subseteq StockTransactions /\ inLater \subseteq StockTransactions
      /\ Takes(Y, P, day) \subseteq StockTransactions /\ outLater \subseteq StockTransactions
  BY DEF Brings, Takes
<1>6. FutureChange(Y, kind, day, today) = Quantity(inLater) - Quantity(outLater)
  BY DEF FutureChange
<1> HIDE DEF inLater, outLater
<1>7. /\ Quantity(Brings(Y, P, day) \union inLater) = Quantity(Brings(Y, P, day)) + Quantity(inLater)
      /\ Quantity(Brings(Y, P, day)) \in Nat /\ Quantity(inLater) \in Nat
  BY <1>3, <1>5, QuantityDisjoint
<1>8. /\ Quantity(Takes(Y, P, day) \union outLater) = Quantity(Takes(Y, P, day)) + Quantity(outLater)
      /\ Quantity(Takes(Y, P, day)) \in Nat /\ Quantity(outLater) \in Nat
  BY <1>4, <1>5, QuantityDisjoint
<1>9. Held(Y, kind) = Quantity(Brings(Y, P, today)) - Quantity(Takes(Y, P, today))
  BY HeldIs DEF P
<1>10. HeldAsOf(Y, kind, day) = Quantity(Brings(Y, P, day)) - Quantity(Takes(Y, P, day))
  BY HeldAsOfIs DEF P
<1>11. Held(Y, kind) = Quantity(Brings(Y, P, day) \union inLater) - Quantity(Takes(Y, P, day) \union outLater)
  BY <1>3, <1>4, <1>9, Zenon
<1> QED
  BY <1>6, <1>7, <1>8, <1>10, <1>11

LEMMA TrendIsExact ==
  ASSUME InventoryInv
  PROVE  TrendUpToToday
<1> SUFFICES ASSUME NEW from \in 1..today PROVE TrendExact(from, today)
  BY DEF TrendUpToToday
<1> SUFFICES ASSUME NEW g \in TrendGroups
             PROVE  \A day \in DOMAIN get_inventory_trends(g[1], g[2], from, today) :
                      get_inventory_trends(g[1], g[2], from, today)[day] = HeldAsOf(g[1], g[2], day)
  BY DEF TrendExact
<1> DEFINE D == {t.day : t \in {u \in StockTransactions : u.day \in from..today}}
<1>1. get_inventory_trends(g[1], g[2], from, today)
        = [day \in D |-> Held(g[1], g[2]) - FutureChange(g[1], g[2], day, today)]
  BY DEF get_inventory_trends
<1>2. \A day \in D : day \in Nat /\ day <= today
  BY RowsAreGood DEF GoodRow
<1> HIDE DEF D
<1>3. \A day \in D : Held(g[1], g[2]) - FutureChange(g[1], g[2], day, today) = HeldAsOf(g[1], g[2], day)
  BY <1>2, TrendPoint
<1> QED
  BY <1>1, <1>3

-----------------------------------------------------------------------------
(* What some inventories hold of a product *)

LEMMA LedgerSumTyped ==
  ASSUME InventoryInv, NEW I, NEW p
  PROVE  LedgerSum(I, p) \in Int
<1>1. /\ {t \in StockTransactions : t.product = p /\ t.to \in I} \subseteq StockTransactions
      /\ {t \in StockTransactions : t.product = p /\ t.from \in I} \subseteq StockTransactions
  OBVIOUS
<1>2. /\ Quantity({t \in StockTransactions : t.product = p /\ t.to \in I}) \in Nat
      /\ Quantity({t \in StockTransactions : t.product = p /\ t.from \in I}) \in Nat
  BY <1>1, QuantityOver
<1> QED
  BY <1>2 DEF LedgerSum

LEMMA HoldingsIs ==
  ASSUME InventoryInv, NEW I, I \subseteq Inventories, NEW p \in Products, NEW f,
         \A i \in I : f[i] = stock[i][p]
  PROVE  SignedSum(f, I) = LedgerSum(I, p)
<1> DEFINE in  == [t \in StockTransactions |-> t.to]
           out == [t \in StockTransactions |-> t.from]
           In  == {t \in StockTransactions : t.product = p /\ t.to \in I}
           Out == {t \in StockTransactions : t.product = p /\ t.from \in I}
<1>1. IsFiniteSet(I)
  BY StockAssumption, FS_Subset
<1>2. In \subseteq StockTransactions /\ Out \subseteq StockTransactions
  OBVIOUS
<1>3. ASSUME NEW i \in I
      PROVE  f[i] = Quantity({t \in In : in[t] = i}) - Quantity({t \in Out : out[t] = i})
  <2>1. {t \in In : in[t] = i} = {t \in StockTransactions : t.product = p /\ t.to = i}
    OBVIOUS
  <2>2. {t \in Out : out[t] = i} = {t \in StockTransactions : t.product = p /\ t.from = i}
    OBVIOUS
  <2>3. f[i] = Quantity({t \in StockTransactions : t.product = p /\ t.to = i})
                 - Quantity({t \in StockTransactions : t.product = p /\ t.from = i})
    BY BalanceNow
  <2> QED
    BY <2>1, <2>2, <2>3, Zenon
<1>4. (\A t \in In : in[t] \in I) /\ (\A t \in Out : out[t] \in I)
  OBVIOUS
<1>5. Flows(f, I, In, in, Out, out)
  BY <1>3, <1>4, Zenon DEF Flows
<1>6. LedgerSum(I, p) = Quantity(In) - Quantity(Out)
  BY DEF LedgerSum
<1> HIDE DEF in, out, In, Out
<1> QED
  BY <1>1, <1>2, <1>5, <1>6, SumOfFlows

-----------------------------------------------------------------------------
(* The list of couriers *)

LEMMA CourierListCounts ==
  ASSUME InventoryInv
  PROVE  CourierListCountsOnce
<1> SUFFICES ASSUME NEW u \in Users
             PROVE  LET held(p) == SignedSum([i \in Inventories |-> stock[i][p]], OwnedBy(u, "COURIER"))
                        filled(t) == SignedSum([p \in Products |-> held(p)], {p \in Products : Returnable[p] = t})
                        seen == [p \in Products |-> IF held(p) > filled(p) THEN held(p) - filled(p) ELSE 0]
                        list == get_couriers(u)
                    IN  SumOver(list, DOMAIN list) = SumOver(seen, Products)
  BY DEF CourierListCountsOnce
<1> DEFINE I == OwnedBy(u, "COURIER")
           held(p) == SignedSum([i \in Inventories |-> stock[i][p]], I)
           filled(t) == SignedSum([p \in Products |-> held(p)], {p \in Products : Returnable[p] = t})
           seen == [p \in Products |-> IF held(p) > filled(p) THEN held(p) - filled(p) ELSE 0]
           ledger(p) == LedgerSum(I, p)
           occupied(t) == SignedSum([p \in Products |-> ledger(p)],
                            {p \in Products : ProductType[p] = "WATER" /\ Returnable[p] = t})
           shown(p) == ledger(p) - (IF ProductType[p] = "CONTAINER" THEN occupied(p) ELSE 0)
           list == [p \in {q \in Products : shown(q) > 0} |-> shown(p)]
<1>1. get_couriers(u) = list
  BY DEF get_couriers
<1>2. I \subseteq Inventories
  BY DEF OwnedBy, Rows
<1>3. ASSUME NEW p \in Products PROVE held(p) = ledger(p) /\ held(p) \in Int
  <2> DEFINE f == [i \in Inventories |-> stock[i][p]]
  <2>1. \A i \in I : f[i] = stock[i][p]
    BY <1>2
  <2>2. held(p) = SignedSum(f, I)
    OBVIOUS
  <2> HIDE DEF f, I
  <2> QED
    BY <1>2, <2>1, <2>2, HoldingsIs, LedgerSumTyped
<1>4. ASSUME NEW t \in Products
      PROVE  /\ filled(t) \in Int
             /\ filled(t) = IF ProductType[t] = "CONTAINER" THEN occupied(t) ELSE 0
  <2> DEFINE S == {p \in Products : Returnable[p] = t}
             f == [p \in Products |-> held(p)]
             g == [p \in Products |-> ledger(p)]
  <2>1. \A p \in S : ProductType[p] = "WATER" /\ ProductType[t] = "CONTAINER"
    BY CatalogAssumption, StockAssumption
  <2>2. {p \in Products : ProductType[p] = "WATER" /\ Returnable[p] = t} = S
    BY <2>1
  <2>3. occupied(t) = SignedSum(g, S)
    BY <2>2, Zenon
  <2>4. filled(t) = SignedSum(f, S)
    OBVIOUS
  <2>5. \A p \in S : f[p] = g[p] /\ f[p] \in Int
    BY <1>3
  <2>6. IsFiniteSet(S)
    BY StockAssumption, FS_Subset
  <2>7. ProductType[t] # "CONTAINER" => S = {}
    BY <2>1
  <2> HIDE DEF S, f, g, occupied, filled
  <2>8. SignedSum(f, S) = SignedSum(g, S) /\ SignedSum(f, S) \in Int
    BY <2>5, <2>6, SignedSame, SignedInteger
  <2>9. S = {} => SignedSum(f, S) = 0
    BY SignedEmpty
  <2> QED
    BY <2>3, <2>4, <2>7, <2>8, <2>9
<1> HIDE DEF held, filled, ledger, occupied
<1>5. ASSUME NEW p \in Products PROVE shown(p) = held(p) - filled(p) /\ shown(p) \in Int
  BY <1>3, <1>4
<1>6. /\ DOMAIN list \subseteq Products
      /\ \A p \in DOMAIN list : seen[p] = list[p]
      /\ \A p \in Products \ DOMAIN list : seen[p] = 0
  BY <1>3, <1>4, <1>5
<1> HIDE DEF list, seen
<1>7. SumOver(seen, Products) = SumOver(list, DOMAIN list)
  BY <1>6, SumPart
<1> QED
  BY <1>1, <1>7 DEF seen, held, filled, I

-----------------------------------------------------------------------------
(* The integrity report *)

\* Rows that fall into two parts, and what that means for their sum.
Splits(R, S, T) == R \subseteq StockTransactions /\ R = S \union T /\ S \intersect T = {}
AddUp(R, S, T)  == Quantity(R) = Quantity(S) + Quantity(T) /\ Quantity(S) \in Nat /\ Quantity(T) \in Nat

LEMMA RowSplit ==
  ASSUME InventoryInv, NEW R, NEW S, NEW T, Splits(R, S, T)
  PROVE  AddUp(R, S, T)
<1>1. S \subseteq StockTransactions /\ T \subseteq StockTransactions /\ S \intersect T = {}
  BY DEF Splits
<1>2. /\ Quantity(S \union T) = Quantity(S) + Quantity(T)
      /\ Quantity(S) \in Nat /\ Quantity(T) \in Nat
  BY <1>1, QuantityDisjoint
<1> QED
  BY <1>2, Zenon DEF Splits, AddUp

\* Types that fall into two parts, and what that means for what they hold.
Parts(X, Y, Z) == X = Y \union Z /\ Y \intersect Z = {}
HoldTogether(X, Y, Z, P) ==
  /\ BalanceSum(GroupOf(X, P)) = BalanceSum(GroupOf(Y, P)) + BalanceSum(GroupOf(Z, P))
  /\ BalanceSum(GroupOf(Y, P)) \in Int /\ BalanceSum(GroupOf(Z, P)) \in Int

LEMMA GroupUnion ==
  ASSUME InventoryInv, NEW X, NEW Y, NEW Z, NEW P, Parts(X, Y, Z)
  PROVE  HoldTogether(X, Y, Z, P)
<1>1. Splits(Brings(X, P, today), Brings(Y, P, today), Brings(Z, P, today))
  BY DEF Brings, Splits, Parts
<1>2. Splits(Takes(X, P, today), Takes(Y, P, today), Takes(Z, P, today))
  BY DEF Takes, Splits, Parts
<1>3. /\ AddUp(Brings(X, P, today), Brings(Y, P, today), Brings(Z, P, today))
      /\ AddUp(Takes(X, P, today), Takes(Y, P, today), Takes(Z, P, today))
  BY <1>1, <1>2, RowSplit, Zenon
<1>4. \A U : BalanceSum(GroupOf(U, P)) = Quantity(Brings(U, P, today)) - Quantity(Takes(U, P, today))
  BY GroupNow
<1> QED
  BY <1>3, <1>4 DEF AddUp, HoldTogether

\* The vendor's balance is what is lost and what is held, with the other sign:
\* nothing comes back to the vendor and nothing leaves the loss.
LEMMA DoubleEntry ==
  ASSUME InventoryInv, NEW P
  PROVE  /\ Abs(BalanceSum(GroupOf({"VIRTUAL_VENDOR"}, P)))
              = BalanceSum(GroupOf({"VIRTUAL_LOSS"}, P)) + BalanceSum(GroupOf(Real, P))
         /\ BalanceSum(GroupOf({"VIRTUAL_LOSS"}, P)) \in Int /\ BalanceSum(GroupOf(Real, P)) \in Int
<1> DEFINE all == {t \in StockTransactions : t.product \in P /\ t.day <= today}
           V == {"VIRTUAL_VENDOR"}
           L == {"VIRTUAL_LOSS"}
<1>1. \A t \in StockTransactions :
        /\ TypeOf(t.from) \in Real \union {"VIRTUAL_VENDOR"}
        /\ TypeOf(t.to) \in Real \union {"VIRTUAL_LOSS"}
  BY Routes
<1>2. "VIRTUAL_VENDOR" \notin Real /\ "VIRTUAL_LOSS" \notin Real
  BY DEF Real
<1>3. Splits(all, Brings(L, P, today), Brings(Real, P, today)) /\ Brings(V, P, today) = {}
  BY <1>1, <1>2 DEF Brings, Splits
<1>4. Splits(all, Takes(V, P, today), Takes(Real, P, today)) /\ Takes(L, P, today) = {}
  BY <1>1, <1>2 DEF Takes, Splits
<1> HIDE DEF all, V, L
<1>5. AddUp(all, Brings(L, P, today), Brings(Real, P, today))
  BY <1>3, RowSplit, Zenon
<1>6. AddUp(all, Takes(V, P, today), Takes(Real, P, today))
  BY <1>4, RowSplit, Zenon
<1>7. Quantity({}) = 0
  BY FS_EmptySet, QuantityFacts
<1>8. Quantity(Brings(V, P, today)) = 0 /\ Quantity(Takes(L, P, today)) = 0
  BY <1>3, <1>4, <1>7, Zenon
<1>9. \A X : BalanceSum(GroupOf(X, P)) = Quantity(Brings(X, P, today)) - Quantity(Takes(X, P, today))
  BY GroupNow
<1>10. /\ BalanceSum(GroupOf(V, P)) = 0 - Quantity(Takes(V, P, today))
       /\ BalanceSum(GroupOf(L, P)) = Quantity(Brings(L, P, today))
       /\ BalanceSum(GroupOf(Real, P)) = Quantity(Brings(Real, P, today)) - Quantity(Takes(Real, P, today))
  BY <1>5, <1>8, <1>9 DEF AddUp
<1>11. Abs(BalanceSum(GroupOf(V, P))) = Quantity(Takes(V, P, today))
  BY <1>6, <1>10 DEF Abs, AddUp
<1>12. /\ Abs(BalanceSum(GroupOf(V, P))) = BalanceSum(GroupOf(L, P)) + BalanceSum(GroupOf(Real, P))
       /\ BalanceSum(GroupOf(L, P)) \in Int /\ BalanceSum(GroupOf(Real, P)) \in Int
  BY <1>5, <1>6, <1>10, <1>11 DEF AddUp
<1> QED
  BY <1>12 DEF V, L

\* Real inventories hold nothing negative, so leaving out empty balances does
\* not change a sum, and leaving out others does not raise it.
LEMMA PartOfReal ==
  ASSUME InventoryInv, NEW B, B \subseteq Balances, \A b \in B : TypeOf(b[1]) \in Real,
         NEW T, T \subseteq B
  PROVE  /\ BalanceSum(B) \in Nat /\ BalanceSum(T) \in Nat /\ BalanceSum(T) <= BalanceSum(B)
         /\ (\A b \in B : stock[b[1]][b[2]] > 0 => b \in T) => BalanceSum(T) = BalanceSum(B)
<1> DEFINE f == [b \in Balances |-> stock[b[1]][b[2]]]
<1>1. \A b \in B : f[b] \in Nat
  <2> SUFFICES ASSUME NEW b \in B PROVE stock[b[1]][b[2]] \in Nat
    OBVIOUS
  <2>1. b[1] \in Inventories /\ b[2] \in Products /\ TypeOf(b[1]) \in Real
    BY BalancesTyped DEF Rows
  <2>2. b[1] \notin Virtual
    BY <2>1, InventoryAssumption DEF InventoryInv, VendorKept, LossKept, TypeOf, Real
  <2>3. stock[b[1]][b[2]] \in Int /\ stock[b[1]][b[2]] >= 0
    BY <2>1, <2>2, BalanceNow DEF InventoryInv, NothingBelowZero
  <2> QED
    BY <2>3
<1>2. IsFiniteSet(B) /\ IsFiniteSet(T)
  BY BalancesTyped, FS_Subset
<1>3. IsSummable(f, B) /\ IsSummable(f, T)
  BY <1>1, <1>2 DEF IsSummable
<1>4. ASSUME NEW X, X \subseteq B, IsSummable(f, X) PROVE BalanceSum(X) = SumOver(f, X)
  <2>1. \A b \in X : [c \in X |-> stock[c[1]][c[2]]][b] = f[b]
    BY <1>4
  <2>2. BalanceSum(X) = SignedSum(f, X)
    BY <2>1, SignedSame DEF BalanceSum
  <2> HIDE DEF f
  <2> QED
    BY <1>4, <2>2, SignedNatural
<1>5. BalanceSum(B) = SumOver(f, B) /\ BalanceSum(T) = SumOver(f, T)
  BY <1>3, <1>4
<1>6. (\A b \in B : stock[b[1]][b[2]] > 0 => b \in T) => \A b \in B \ T : f[b] = 0
  BY <1>1
<1> HIDE DEF f
<1>7. /\ SumOver(f, B) = SumOver(f, T) + SumOver(f, B \ T)
      /\ SumOver(f, T) \in Nat /\ SumOver(f, B \ T) \in Nat
  BY <1>3, SumSplit
<1>8. (\A b \in B \ T : f[b] = 0) => SumOver(f, B) = SumOver(f, T)
  BY SumPart
<1> QED
  BY <1>5, <1>6, <1>7, <1>8

LEMMA IntegrityHolds ==
  ASSUME InventoryInv
  PROVE  IntegrityReportOK
<1> DEFINE C == OfKind("CONTAINER")
           near == {"WAREHOUSE", "COURIER"}
           Sum(Y) == BalanceSum(GroupOf(Y, C))
           d == get_container_distribution
<1>1. \A b \in Balances : b[1] \in Rows /\ b[2] \in Products
  BY BalancesTyped
<1>2. \A Y : {b \in Balances : TypeOf(b[1]) \in Y /\ ProductType[b[2]] = "CONTAINER"} = GroupOf(Y, C)
  BY <1>1 DEF GroupOf, OfKind
<1>3. \A Y : Held(Y, "CONTAINER") = Sum(Y)
  BY <1>2, Zenon DEF Held
<1>4. /\ d.at_warehouses = Sum({"WAREHOUSE"}) /\ d.at_couriers = Sum({"COURIER"})
      /\ d.at_clients = Sum({"CLIENT"}) /\ d.lost = Sum({"VIRTUAL_LOSS"})
      /\ d.total_in_system = Abs(Sum({"VIRTUAL_VENDOR"}))
  BY <1>3, Zenon DEF get_container_distribution
<1>5. integrity_diff = 0
  <2>1. /\ {b \in Balances : TypeOf(b[1]) = "VIRTUAL_VENDOR"} = GroupOf({"VIRTUAL_VENDOR"}, Products)
        /\ {b \in Balances : TypeOf(b[1]) = "VIRTUAL_LOSS"} = GroupOf({"VIRTUAL_LOSS"}, Products)
        /\ {b \in Balances : TypeOf(b[1]) \in Real} = GroupOf(Real, Products)
    BY <1>1 DEF GroupOf
  <2>2. integrity_diff = Abs(BalanceSum(GroupOf({"VIRTUAL_VENDOR"}, Products)))
          - BalanceSum(GroupOf({"VIRTUAL_LOSS"}, Products)) - BalanceSum(GroupOf(Real, Products))
    BY <2>1, Zenon DEF integrity_diff
  <2>3. /\ Abs(BalanceSum(GroupOf({"VIRTUAL_VENDOR"}, Products)))
             = BalanceSum(GroupOf({"VIRTUAL_LOSS"}, Products)) + BalanceSum(GroupOf(Real, Products))
        /\ BalanceSum(GroupOf({"VIRTUAL_LOSS"}, Products)) \in Int
        /\ BalanceSum(GroupOf(Real, Products)) \in Int
    BY DoubleEntry
  <2> QED
    BY <2>2, <2>3
<1> HIDE DEF C
<1>6. /\ Sum(near) = Sum({"WAREHOUSE"}) + Sum({"COURIER"})
      /\ Sum(Real) = Sum(near) + Sum({"CLIENT"})
      /\ Sum({"WAREHOUSE"}) \in Int /\ Sum({"COURIER"}) \in Int /\ Sum({"CLIENT"}) \in Int
  <2>1. Parts(near, {"WAREHOUSE"}, {"COURIER"}) /\ Parts(Real, near, {"CLIENT"})
    BY DEF Real, Parts
  <2> HIDE DEF near
  <2>2. HoldTogether(near, {"WAREHOUSE"}, {"COURIER"}, C) /\ HoldTogether(Real, near, {"CLIENT"}, C)
    BY <2>1, GroupUnion, Zenon
  <2> QED
    BY <2>2, Zenon DEF HoldTogether
<1>7. /\ Abs(Sum({"VIRTUAL_VENDOR"})) = Sum({"VIRTUAL_LOSS"}) + Sum(Real)
      /\ Sum({"VIRTUAL_LOSS"}) \in Int /\ Sum(Real) \in Int
  BY DoubleEntry
<1>8. ASSUME NEW own, NEW Y, Y \subseteq Real
      PROVE  /\ HeldPositive(Y, "CONTAINER", own) <= Sum(Y)
             /\ own = Rows => HeldPositive(Y, "CONTAINER", own) = Sum(Y)
  <2> DEFINE T == {b \in Balances : /\ b[1] \in own /\ stock[b[1]][b[2]] > 0
                                    /\ TypeOf(b[1]) \in Y /\ ProductType[b[2]] = "CONTAINER"}
             B == GroupOf(Y, C)
  <2>1. HeldPositive(Y, "CONTAINER", own) = BalanceSum(T)
    BY DEF HeldPositive
  <2>2. B \subseteq Balances /\ T \subseteq B /\ \A b \in B : TypeOf(b[1]) \in Real
    BY <1>1, <1>8 DEF GroupOf, C, OfKind
  <2>3. own = Rows => \A b \in B : stock[b[1]][b[2]] > 0 => b \in T
    BY <1>1 DEF GroupOf, C, OfKind
  <2> HIDE DEF T, B
  <2>4. /\ BalanceSum(B) \in Nat /\ BalanceSum(T) \in Nat /\ BalanceSum(T) <= BalanceSum(B)
        /\ (\A b \in B : stock[b[1]][b[2]] > 0 => b \in T) => BalanceSum(T) = BalanceSum(B)
    BY <2>2, PartOfReal
  <2> QED
    BY <2>1, <2>3, <2>4 DEF B
<1>9. near \subseteq Real /\ {"CLIENT"} \subseteq Real /\ {"WAREHOUSE"} \subseteq Real
  BY DEF Real
<1>10. /\ get_summary(None).container = Sum(near)
       /\ get_summary(None).at_clients = Sum({"CLIENT"})
  <2>1. /\ get_summary(None).container = HeldPositive(near, "CONTAINER", Rows)
        /\ get_summary(None).at_clients = HeldPositive({"CLIENT"}, "CONTAINER", Rows)
    BY DEF get_summary
  <2> QED
    BY <1>8, <1>9, <2>1
<1>11. ASSUME NEW u \in Users PROVE get_summary(u).container <= Sum({"WAREHOUSE"})
  <2> DEFINE own == {i \in Rows : TypeOf(i) = "WAREHOUSE" /\ inv[i].owner = u}
  <2>1. u # None
    BY InventoryAssumption
  <2>2. get_summary(u).container = HeldPositive(near, "CONTAINER", own)
    BY <2>1 DEF get_summary
  <2>3. HeldPositive(near, "CONTAINER", own) = HeldPositive({"WAREHOUSE"}, "CONTAINER", own)
    <3>1. {b \in Balances : /\ b[1] \in own /\ stock[b[1]][b[2]] > 0
                            /\ TypeOf(b[1]) \in near /\ ProductType[b[2]] = "CONTAINER"}
            = {b \in Balances : /\ b[1] \in own /\ stock[b[1]][b[2]] > 0
                                /\ TypeOf(b[1]) \in {"WAREHOUSE"} /\ ProductType[b[2]] = "CONTAINER"}
      OBVIOUS
    <3> HIDE DEF own
    <3> QED
      BY <3>1, Zenon DEF HeldPositive
  <2> HIDE DEF own
  <2> QED
    BY <1>8, <1>9, <2>2, <2>3
<1> HIDE DEF Sum, d, near
<1> QED
  BY <1>4, <1>5, <1>6, <1>7, <1>10, <1>11 DEF IntegrityReportOK, d

-----------------------------------------------------------------------------
(* What a client owes *)

LEMMA TotalDebtIs ==
  ASSUME InventoryInv, NEW u, NEW p
  PROVE  get_client_total_debt(u, p) = LedgerSum(OwnedBy(u, "CLIENT"), p)
<1> DEFINE I == OwnedBy(u, "CLIENT")
           rows == {t \in StockTransactions : t.product = p}
<1>1. {i \in Rows : inv[i].owner = u /\ TypeOf(i) = "CLIENT"} = I
  BY DEF OwnedBy
<1>2. \A t \in StockTransactions : ~(t.to \in I /\ t.from \in I)
  BY Routes DEF OwnedBy
<1>3. {t \in rows : t.to \in I} = {t \in StockTransactions : t.product = p /\ t.to \in I}
  OBVIOUS
<1>4. {t \in rows : t.to \notin I /\ t.from \in I} = {t \in StockTransactions : t.product = p /\ t.from \in I}
  BY <1>2
<1>5. get_client_total_debt(u, p)
        = Quantity({t \in rows : t.to \in I}) - Quantity({t \in rows : t.to \notin I /\ t.from \in I})
  BY <1>1, Zenon DEF get_client_total_debt
<1> QED
  BY <1>3, <1>4, <1>5, Zenon DEF LedgerSum

LEMMA DebtPerProduct ==
  ASSUME InventoryInv, NEW u \in Users, NEW p \in Products
  PROVE  LET debt == get_client_total_debt(u, p)
         IN  /\ debt = SignedSum([i \in Inventories |-> stock[i][p]], OwnedBy(u, "CLIENT"))
             /\ debt >= 1 => get_debtors_report(p, 1)[u] = debt
             /\ debt # 0 /\ ProductType[p] = "CONTAINER" => get_clients(u)[p] = debt
<1> DEFINE I == OwnedBy(u, "CLIENT")
           f == [i \in Inventories |-> stock[i][p]]
           g == [i \in Rows |-> get_balance(i, p, today)]
           owed(v) == SignedSum(g, {i \in Rows : inv[i].owner = v /\ TypeOf(i) = "CLIENT"})
           held(q) == LedgerSum(I, q)
           debt == get_client_total_debt(u, p)
<1>1. I \subseteq Inventories /\ I \subseteq Rows
  BY DEF OwnedBy, Rows
<1>2. (\A i \in I : f[i] = stock[i][p]) /\ (\A i \in I : g[i] = stock[i][p])
  BY <1>1, BalanceNow
<1>3. {i \in Rows : inv[i].owner = u /\ TypeOf(i) = "CLIENT"} = I
  BY DEF OwnedBy
<1>4. owed(u) = SignedSum(g, I)
  BY <1>3, Zenon
<1>5. get_debtors_report(p, 1) = [v \in {w \in Users : owed(w) >= 1} |-> owed(v)]
  BY DEF get_debtors_report
<1>6. get_clients(u) = [q \in {r \in Products : ProductType[r] = "CONTAINER" /\ held(r) # 0} |-> held(q)]
  BY DEF get_clients
<1>7. debt = held(p)
  BY TotalDebtIs
<1> HIDE DEF f, g, I
<1>8. SignedSum(f, I) = held(p) /\ SignedSum(g, I) = held(p)
  BY <1>1, <1>2, HoldingsIs
<1> HIDE DEF owed, held, debt
<1>9. /\ debt >= 1 => get_debtors_report(p, 1)[u] = debt
      /\ debt # 0 /\ ProductType[p] = "CONTAINER" => get_clients(u)[p] = debt
  BY <1>4, <1>5, <1>6, <1>7, <1>8
<1>10. debt = SignedSum(f, I)
  BY <1>7, <1>8
<1> QED
  BY <1>9, <1>10 DEF debt, f, I

LEMMA ContainerDebtIs ==
  ASSUME InventoryInv, NEW u \in DOMAIN get_container_debtors
  PROVE  get_container_debtors[u] = SignedSum([p \in Products |-> get_client_total_debt(u, p)],
                                              {p \in Products : ProductType[p] = "CONTAINER"})
<1> DEFINE I == OwnedBy(u, "CLIENT")
           C == {p \in Products : ProductType[p] = "CONTAINER"}
           of(v) == BalanceSum({b \in Balances :
                      /\ TypeOf(b[1]) = "CLIENT" /\ inv[b[1]].owner = v
                      /\ ProductType[b[2]] = "CONTAINER" /\ stock[b[1]][b[2]] > 0})
           B == {b \in Balances : b[1] \in I /\ b[2] \in C}
           T == {b \in B : stock[b[1]][b[2]] > 0}
           f == [p \in Products |-> get_client_total_debt(u, p)]
           key == [t \in StockTransactions |-> t.product]
           In  == Into(B, today)
           Out == OutOf(B, today)
<1>1. get_container_debtors = [v \in {w \in Users \ {SystemUser} : of(w) > 0} |-> of(v)]
  BY DEF get_container_debtors
<1> HIDE DEF of
<1>2. get_container_debtors[u] = of(u)
  BY <1>1
<1>3. \A b \in Balances : b[1] \in Rows /\ b[2] \in Products
  BY BalancesTyped
<1>4. {b \in Balances : /\ TypeOf(b[1]) = "CLIENT" /\ inv[b[1]].owner = u
                        /\ ProductType[b[2]] = "CONTAINER" /\ stock[b[1]][b[2]] > 0} = T
  BY <1>3 DEF OwnedBy
<1>5. of(u) = BalanceSum(T)
  BY <1>4, Zenon DEF of
<1>6. B \subseteq Balances /\ T \subseteq B /\ \A b \in B : TypeOf(b[1]) \in Real
  BY DEF OwnedBy, Real
<1>7. \A b \in B : stock[b[1]][b[2]] > 0 => b \in T
  OBVIOUS
<1>8. \A t \in StockTransactions :
        /\ <<t.to, t.product>> \in B <=> t.to \in I /\ t.product \in C
        /\ <<t.from, t.product>> \in B <=> t.from \in I /\ t.product \in C
        /\ t.day <= today
  BY BalancesTyped, RowsAreGood DEF GoodRow
<1>9. In \subseteq StockTransactions /\ Out \subseteq StockTransactions
  BY DEF Into, OutOf
<1>10. ASSUME NEW p \in C
       PROVE  f[p] = Quantity({t \in In : key[t] = p}) - Quantity({t \in Out : key[t] = p})
  <2>1. {t \in In : key[t] = p} = {t \in StockTransactions : t.product = p /\ t.to \in I}
    BY <1>8 DEF Into
  <2>2. {t \in Out : key[t] = p} = {t \in StockTransactions : t.product = p /\ t.from \in I}
    BY <1>8 DEF OutOf
  <2>3. f[p] = LedgerSum(I, p)
    BY TotalDebtIs
  <2> QED
    BY <2>1, <2>2, <2>3, Zenon DEF LedgerSum
<1>11. (\A t \in In : key[t] \in C) /\ (\A t \in Out : key[t] \in C)
  BY <1>8 DEF Into, OutOf
<1>12. Flows(f, C, In, key, Out, key)
  BY <1>10, <1>11, Zenon DEF Flows
<1>13. IsFiniteSet(C)
  BY StockAssumption, FS_Subset
<1>14. get_container_debtors[u] = BalanceSum(T)
  BY <1>2, <1>5
<1>15. BalanceSum(T) = BalanceSum(B)
  <2> HIDE DEF B, T, In, Out, C, I, f, key
  <2> QED
    BY <1>6, <1>7, PartOfReal
<1>16. BalanceSum(B) = Quantity(In) - Quantity(Out)
  <2> HIDE DEF B
  <2> QED
    BY <1>6, BalancesNow
<1>17. SignedSum(f, C) = Quantity(In) - Quantity(Out)
  <2> HIDE DEF B, T, In, Out, C, I, f, key
  <2> QED
    BY <1>9, <1>12, <1>13, SumOfFlows
<1>18. get_container_debtors[u] = SignedSum(f, C)
  <2> HIDE DEF B, T, In, Out, C, I, f, key
  <2> QED
    BY <1>14, <1>15, <1>16, <1>17
<1> QED
  BY <1>18

LEMMA DebtReportsHold ==
  ASSUME InventoryInv
  PROVE  DebtReportsAgree
BY DebtPerProduct, ContainerDebtIs, Zenon DEF DebtReportsAgree

-----------------------------------------------------------------------------
(* Statistics and turnover *)

LEMMA SmallSets ==
  IsFiniteSet(DOMAIN ValidRoutes) /\ IsFiniteSet(InventoryTypes)
<1>1. \A a, b, c : IsFiniteSet({a, b, c})
  <2> SUFFICES ASSUME NEW a, NEW b, NEW c PROVE IsFiniteSet({a, b, c})
    OBVIOUS
  <2>1. IsFiniteSet(({a} \union {b}) \union {c})
    BY FS_Singleton, FS_AddElement
  <2>2. ({a} \union {b}) \union {c} = {a, b, c}
    OBVIOUS
  <2> QED
    BY <2>1, <2>2
<1> DEFINE A == {"COURIER_LOAD", "COURIER_RETURN", "CLIENT_DELIVERY"}
           B == {"CLIENT_RETURN", "LOSS_WRITE_OFF", "INVENTORY_FINDING"}
           C == {"INITIAL_BALANCE", "WAREHOUSE_SALE", "WAREHOUSE_TARA_RETURN"}
           D == {"WAREHOUSE", "COURIER", "CLIENT"}
           E == {"VIRTUAL_LOSS", "VIRTUAL_VENDOR", "CLIENT"}
<1>2. IsFiniteSet(A) /\ IsFiniteSet(B) /\ IsFiniteSet(C) /\ IsFiniteSet(D) /\ IsFiniteSet(E)
  BY <1>1
<1>3. DOMAIN ValidRoutes = (A \union B) \union C /\ InventoryTypes = D \union E
  BY DEF ValidRoutes, InventoryTypes
<1> HIDE DEF A, B, C, D, E
<1> QED
  BY <1>2, <1>3, FS_Union

\* The rows of a window.
Window(from, to) == {t \in StockTransactions : t.day \in from..to}

LEMMA StatsAddUp ==
  ASSUME InventoryInv, NEW from, NEW to
  PROVE  LET by == get_movement_stats(from, to, None)
         IN  SumOver([y \in DOMAIN by |-> by[y].total_items], DOMAIN by) = Quantity(Window(from, to))
<1> DEFINE by == get_movement_stats(from, to, None)
           f == [y \in DOMAIN by |-> by[y].total_items]
           key == [t \in StockTransactions |-> t.type]
           own == {i \in Rows : TypeOf(i) = "WAREHOUSE" /\ inv[i].owner = None}
           rows(y) == {t \in StockTransactions :
                         /\ t.type = y /\ t.day \in from..to
                         /\ None = None \/ t.from \in own \/ t.to \in own}
           W == Window(from, to)
<1>1. by = [y \in DOMAIN ValidRoutes |-> [transfers_count |-> Cardinality({t.transfer : t \in rows(y)}),
                                          total_items |-> Quantity(rows(y))]]
  BY DEF get_movement_stats
<1>2. \A y : rows(y) = {t \in W : key[t] = y}
  BY DEF Window
<1> HIDE DEF rows, by
<1>3. DOMAIN by = DOMAIN ValidRoutes /\ \A y \in DOMAIN ValidRoutes : f[y] = Quantity(rows(y))
  BY <1>1
<1>4. \A y \in DOMAIN ValidRoutes : f[y] = Quantity({t \in W : key[t] = y})
  BY <1>2, <1>3, Zenon
<1>5. W \subseteq StockTransactions /\ \A t \in W : key[t] \in DOMAIN ValidRoutes
  BY RowsAreGood DEF Window, GoodRow
<1> HIDE DEF f, key, W
<1>6. ByKey(f, DOMAIN ValidRoutes, W, key)
  BY <1>4, <1>5, Zenon DEF ByKey
<1>7. SumOver(f, DOMAIN ValidRoutes) = Quantity(W)
  BY <1>6, SmallSets, QuantityGrouped
<1> QED
  BY <1>3, <1>7 DEF f, by, W

LEMMA TurnoverIs ==
  ASSUME InventoryInv, NEW y, NEW from, NEW to
  PROVE  SumOver(get_turnover_by_period(y, from, to), Products)
           = Quantity({t \in StockTransactions : t.type = y /\ t.day \in from..to})
<1> DEFINE f == get_turnover_by_period(y, from, to)
           key == [t \in StockTransactions |-> t.product]
           W == {t \in StockTransactions : t.type = y /\ t.day \in from..to}
<1>1. \A p \in Products : {t \in W : key[t] = p}
        = {t \in StockTransactions : t.product = p /\ t.type = y /\ t.day \in from..to}
  OBVIOUS
<1>2. \A p \in Products : f[p] = Quantity({t \in StockTransactions :
                                   t.product = p /\ t.type = y /\ t.day \in from..to})
  BY DEF get_turnover_by_period
<1>3. \A p \in Products : f[p] = Quantity({t \in W : key[t] = p})
  BY <1>1, <1>2, Zenon
<1>4. W \subseteq StockTransactions /\ \A t \in W : key[t] \in Products
  BY RowsAreGood DEF GoodRow
<1>5. IsFiniteSet(Products)
  BY StockAssumption
<1> HIDE DEF f, key, W
<1>6. ByKey(f, Products, W, key)
  BY <1>3, <1>4, Zenon DEF ByKey
<1>7. SumOver(f, Products) = Quantity(W)
  BY <1>5, <1>6, QuantityGrouped
<1> QED
  BY <1>7 DEF f, W

LEMMA WindowToToday ==
  ASSUME InventoryInv
  PROVE  Window(1, today) = StockTransactions
<1>1. today \in Nat
  BY InventoryAssumption DEF InventoryInv, InventoryTypeOK
<1>2. \A t \in StockTransactions : t.day \in Nat /\ 1 <= t.day /\ t.day <= today
  BY RowsAreGood DEF GoodRow
<1> QED
  BY <1>1, <1>2 DEF Window

LEMMA MovementsHold ==
  ASSUME InventoryInv
  PROVE  MovementsAddUp
<1>1. LET all == get_movement_stats(1, today, None)
      IN  SumOver([y \in DOMAIN all |-> all[y].total_items], DOMAIN all) = Quantity(StockTransactions)
  BY StatsAddUp, WindowToToday, Zenon
<1>2. ASSUME NEW u \in Users, NEW y \in DOMAIN get_movement_stats(1, today, u)
      PROVE  get_movement_stats(1, today, u)[y].total_items
               <= SumOver(get_turnover_by_period(y, 1, today), Products)
  <2> DEFINE own == {i \in Rows : TypeOf(i) = "WAREHOUSE" /\ inv[i].owner = u}
             rows(z) == {t \in StockTransactions :
                           /\ t.type = z /\ t.day \in 1..today
                           /\ u = None \/ t.from \in own \/ t.to \in own}
             W == {t \in StockTransactions : t.type = y /\ t.day \in 1..today}
  <2>1. get_movement_stats(1, today, u)
          = [z \in DOMAIN ValidRoutes |-> [transfers_count |-> Cardinality({t.transfer : t \in rows(z)}),
                                           total_items |-> Quantity(rows(z))]]
    BY DEF get_movement_stats
  <2>2. rows(y) \subseteq W /\ W \subseteq StockTransactions
    OBVIOUS
  <2> HIDE DEF rows
  <2>3. get_movement_stats(1, today, u)[y].total_items = Quantity(rows(y))
    <3>1. y \in DOMAIN ValidRoutes
      BY <1>2, <2>1, Zenon
    <3>2. get_movement_stats(1, today, u)[y]
            = [transfers_count |-> Cardinality({t.transfer : t \in rows(y)}), total_items |-> Quantity(rows(y))]
      BY <2>1, <3>1, Zenon
    <3> QED
      BY <3>2
  <2>4. SumOver(get_turnover_by_period(y, 1, today), Products) = Quantity(W)
    BY TurnoverIs
  <2> HIDE DEF W
  <2>5. Quantity(rows(y)) <= Quantity(W)
    BY <2>2, QuantityLess
  <2> QED
    BY <2>3, <2>4, <2>5
<1> QED
  BY <1>1, <1>2, Zenon DEF MovementsAddUp

-----------------------------------------------------------------------------
(* The journal and the balance page *)

LEMMA JournalOfBalance ==
  ASSUME InventoryInv, NEW i \in Inventories, NEW p \in Products
  PROVE  LET f == [NoFilter EXCEPT !.product = p, !.inventory = i]
             incoming == Journal([f EXCEPT !.direction = "incoming"])
             outgoing == Journal([f EXCEPT !.direction = "outgoing"])
         IN  /\ stock[i][p] = Quantity(incoming) - Quantity(outgoing)
             /\ TotalCount(f) = Cardinality(incoming) + Cardinality(outgoing)
<1> DEFINE f == [NoFilter EXCEPT !.product = p, !.inventory = i]
           g == [f EXCEPT !.direction = "incoming"]
           h == [f EXCEPT !.direction = "outgoing"]
           In  == {t \in StockTransactions : t.product = p /\ t.to = i}
           Out == {t \in StockTransactions : t.product = p /\ t.from = i}
<1>0. p # None /\ i # None
  BY InventoryAssumption
<1>1. \A x \in {f, g, h} :
        /\ x.product = p /\ x.inventory = i /\ x.from = None /\ x.to = None /\ x.transfer = None
        /\ x.type = None /\ x.quantity_from = None /\ x.quantity_to = None
        /\ x.date_from = None /\ x.date_to = None
  BY DEF NoFilter
<1>2. f.direction = "any" /\ g.direction = "incoming" /\ h.direction = "outgoing"
  BY DEF NoFilter
<1> HIDE DEF f, g, h
<1>3. \A t : /\ Matches(f, t) <=> t.product = p /\ (t.to = i \/ t.from = i)
             /\ Matches(g, t) <=> t.product = p /\ t.to = i
             /\ Matches(h, t) <=> t.product = p /\ t.from = i
  BY <1>0, <1>1, <1>2 DEF Matches
<1>4. \A t \in StockTransactions : t.from # t.to
  BY RowsAreGood DEF GoodRow
<1>5. /\ Journal(g) = In /\ Journal(h) = Out
      /\ Journal(f) = In \union Out /\ In \intersect Out = {}
  BY <1>3, <1>4 DEF Journal
<1>6. stock[i][p] = Quantity(In) - Quantity(Out)
  BY BalanceNow
<1>7. IsFiniteSet(In) /\ IsFiniteSet(Out)
  BY FS_Subset DEF InventoryInv
<1> HIDE DEF In, Out
<1>8. Cardinality(In \union Out) = Cardinality(In) + Cardinality(Out)
  BY <1>5, <1>7, FS_Union, FS_EmptySet, FS_CardinalityType
<1>9. /\ stock[i][p] = Quantity(Journal(g)) - Quantity(Journal(h))
      /\ TotalCount(f) = Cardinality(Journal(g)) + Cardinality(Journal(h))
  BY <1>5, <1>6, <1>8, Zenon DEF TotalCount
<1> QED
  BY <1>9 DEF f, g, h

LEMMA JournalOfWindow ==
  ASSUME InventoryInv, NEW from \in 1..today, NEW to \in 1..today
  PROVE  LET f  == [NoFilter EXCEPT !.date_from = from, !.date_to = to]
             by == get_movement_stats(from, to, None)
         IN  IF FilterValid(f)
             THEN Quantity(Journal(f)) = SumOver([y \in DOMAIN by |-> by[y].total_items], DOMAIN by)
             ELSE Journal(f) = {}
<1> DEFINE f == [NoFilter EXCEPT !.date_from = from, !.date_to = to]
<1>0. today \in Nat
  BY InventoryAssumption DEF InventoryInv, InventoryTypeOK
<1>1. from \in Nat /\ to \in Nat /\ from # None /\ to # None
  BY <1>0, InventoryAssumption
<1>2. /\ f.product = None /\ f.inventory = None /\ f.from = None /\ f.to = None /\ f.transfer = None
      /\ f.type = None /\ f.quantity_from = None /\ f.quantity_to = None
      /\ f.date_from = from /\ f.date_to = to
  BY DEF NoFilter
<1> HIDE DEF f
<1>3. \A t : Matches(f, t) <=> t.day >= from /\ t.day <= to
  BY <1>1, <1>2 DEF Matches
<1>4. FilterValid(f) <=> from <= to
  BY <1>1, <1>2 DEF FilterValid
<1>5. \A t \in StockTransactions : t.day \in Nat
  BY RowsAreGood DEF GoodRow
<1>6. Journal(f) = Window(from, to)
  BY <1>1, <1>3, <1>5 DEF Journal, Window
<1>7. ~(from <= to) => Window(from, to) = {}
  BY <1>1, <1>5 DEF Window
<1>8. LET by == get_movement_stats(from, to, None)
      IN  SumOver([y \in DOMAIN by |-> by[y].total_items], DOMAIN by) = Quantity(Journal(f))
  BY <1>6, StatsAddUp, Zenon
<1>9. ~FilterValid(f) => Journal(f) = {}
  BY <1>4, <1>6, <1>7, Zenon
<1> QED
  BY <1>8, <1>9, Zenon DEF f

LEMMA JournalByType ==
  ASSUME InventoryInv
  PROVE  LET by == summarize_with_filters(NoFilter).by_transfer_type
         IN  SumOver(by, DOMAIN by) = Quantity(StockTransactions)
<1> DEFINE by == summarize_with_filters(NoFilter).by_transfer_type
           key == [t \in StockTransactions |-> t.type]
<1>1. by = [y \in DOMAIN ValidRoutes |-> Quantity({t \in Journal(NoFilter) : t.type = y})]
  BY DEF summarize_with_filters
<1>2. \A t : Matches(NoFilter, t)
  BY DEF Matches, NoFilter
<1>3. Journal(NoFilter) = StockTransactions
  BY <1>2 DEF Journal
<1>4. \A y : {t \in Journal(NoFilter) : t.type = y} = {t \in StockTransactions : key[t] = y}
  BY <1>3
<1> HIDE DEF by
<1>5. DOMAIN by = DOMAIN ValidRoutes /\ \A y \in DOMAIN ValidRoutes :
        by[y] = Quantity({t \in Journal(NoFilter) : t.type = y})
  BY <1>1
<1>6. \A y \in DOMAIN ValidRoutes : by[y] = Quantity({t \in StockTransactions : key[t] = y})
  BY <1>4, <1>5, Zenon
<1>7. StockTransactions \subseteq StockTransactions /\ \A t \in StockTransactions : key[t] \in DOMAIN ValidRoutes
  BY RowsAreGood DEF GoodRow
<1> HIDE DEF key
<1>8. ByKey(by, DOMAIN ValidRoutes, StockTransactions, key)
  BY <1>6, <1>7, Zenon DEF ByKey
<1>9. SumOver(by, DOMAIN ValidRoutes) = Quantity(StockTransactions)
  BY <1>8, SmallSets, QuantityGrouped
<1> QED
  BY <1>5, <1>9 DEF by

LEMMA BalancePageIs ==
  ASSUME InventoryInv, NEW p \in Products
  PROVE  LET f == [nonzero_only |-> TRUE, product |-> p, inventory_type |-> None]
             s == summarize_balances(f)
         IN  SignedSum(s.by_inventory_type, InventoryTypes) = BalanceSum(BalancePage(f))
<1> DEFINE f == [nonzero_only |-> TRUE, product |-> p, inventory_type |-> None]
           s == summarize_balances(f)
           B == BalancePage(f)
           of(y) == {b \in B : TypeOf(b[1]) = y}
           in  == [t \in StockTransactions |-> TypeOf(t.to)]
           out == [t \in StockTransactions |-> TypeOf(t.from)]
           In  == Into(B, today)
           Out == OutOf(B, today)
<1>1. s.by_inventory_type = [y \in InventoryTypes |-> BalanceSum(of(y))]
  BY DEF summarize_balances
<1>2. B \subseteq Balances /\ \A y : of(y) \subseteq Balances
  BY DEF BalancePage
<1> HIDE DEF f, s, B
<1>3. \A y \in InventoryTypes : BalanceSum(of(y)) = Quantity(Into(of(y), today)) - Quantity(OutOf(of(y), today))
  <2> HIDE DEF of
  <2> QED
    BY <1>2, BalancesNow
<1>4. \A y : Into(of(y), today) = {t \in In : in[t] = y} /\ OutOf(of(y), today) = {t \in Out : out[t] = y}
  BY DEF Into, OutOf
<1>5. \A y \in InventoryTypes : s.by_inventory_type[y]
        = Quantity({t \in In : in[t] = y}) - Quantity({t \in Out : out[t] = y})
  <2> HIDE DEF of, in, out, In, Out
  <2>1. \A y \in InventoryTypes : s.by_inventory_type[y] = BalanceSum(of(y))
    BY <1>1
  <2> QED
    BY <1>3, <1>4, <2>1, Zenon
<1>6. In \subseteq StockTransactions /\ Out \subseteq StockTransactions
  BY DEF Into, OutOf
<1>7. \A t \in StockTransactions : in[t] \in InventoryTypes /\ out[t] \in InventoryTypes
  BY RowsAreGood DEF GoodRow, TypeOf, Rows, InventoryInv, InventoryTypeOK, InventoryRows
<1>8. Flows(s.by_inventory_type, InventoryTypes, In, in, Out, out)
  <2> HIDE DEF in, out, In, Out
  <2> QED
    BY <1>5, <1>6, <1>7 DEF Flows
<1>9. BalanceSum(B) = Quantity(In) - Quantity(Out)
  BY <1>2, BalancesNow
<1> HIDE DEF in, out, In, Out
<1>10. SignedSum(s.by_inventory_type, InventoryTypes) = Quantity(In) - Quantity(Out)
  BY <1>6, <1>8, SmallSets, SumOfFlows
<1>11. SignedSum(s.by_inventory_type, InventoryTypes) = BalanceSum(B)
  BY <1>9, <1>10
<1> QED
  BY <1>11 DEF f, s, B

LEMMA JournalHolds ==
  ASSUME InventoryInv
  PROVE  JournalExplainsBalance
BY JournalOfBalance, JournalOfWindow, JournalByType, BalancePageIs, Zenon DEF JournalExplainsBalance

-----------------------------------------------------------------------------
(* The theorems *)

\* The inventory tables, the documents and the requests under way keep their
\* types, whatever is created, handed over, posted and rolled back.
THEOREM InventoryTyped == Spec => []InventoryTypeOK
<1>1. InventoryInv => InventoryTypeOK
  BY DEF InventoryInv
<1> QED
  BY <1>1, InventoryInvariant, PTL

\* No inventory but the virtual ones is ever below zero: the availability check
\* of a document is made without a lock, and the trigger decides again.
THEOREM StockNeverNegative == Spec => []NothingBelowZero
<1>1. InventoryInv => NothingBelowZero
  BY DEF InventoryInv
<1> QED
  BY <1>1, InventoryInvariant, PTL

\* No posted document loses a product and no water its container, although
\* products are looked up before the transaction that uses them.
THEOREM NothingDangles == Spec => []NoDanglingProducts
<1>1. InventoryInv => NoDanglingProducts
  BY DEF InventoryInv
<1> QED
  BY <1>1, InventoryInvariant, PTL

\* Nobody is responsible for two active vehicles, however vehicles are
\* registered, handed over and deleted.
THEOREM OneVehicle == Spec => []OneActiveVehicle
<1>1. ASSUME AtMostOneVehicle, NEW u \in Users
      PROVE  Cardinality({i \in Rows : OfType(i, "COURIER") /\ inv[i].owner = u}) <= 1
  <2> DEFINE S == {i \in Rows : OfType(i, "COURIER") /\ inv[i].owner = u}
  <2>1. \A i, j \in S : i = j
    BY <1>1 DEF AtMostOneVehicle, Rows
  <2>2. CASE S = {}
    <3>1. Cardinality(S) = 0
      BY <2>2, FS_EmptySet
    <3> QED
      BY <3>1
  <2>3. CASE S # {}
    <3>1. PICK i : S = {i}
      BY <2>1, <2>3
    <3>2. Cardinality(S) = 1
      BY <3>1, FS_Singleton
    <3> QED
      BY <3>2
  <2> QED
    BY <2>2, <2>3
<1>2. InventoryInv => OneActiveVehicle
  BY <1>1 DEF InventoryInv, OneActiveVehicle
<1> QED
  BY <1>2, InventoryInvariant, PTL

\* The balances the trigger keeps are what the ledger of all documents adds up
\* to, as get_balances and get_balances_for_products compute it.
THEOREM LedgerExplains == Spec => []LedgerExplainsStock
<1>1. ASSUME InventoryInv PROVE LedgerExplainsStock
  <2>0. InventoryTypeOK /\ stock \in [Inventories -> [Products -> Int]]
    BY <1>1 DEF InventoryInv, InventoryTypeOK
  <2>1. \A t \in StockTransactions : t.day <= today
    BY <1>1, <2>0, RowFacts DEF InventoryInv, DocumentsSound
  <2>2. ASSUME NEW i \in Inventories, NEW p \in Products
        PROVE  get_balance(i, p, today) = stock[i][p]
    <3>1. {t \in {u \in StockTransactions : u.product = p /\ u.day <= today} : t.to = i} = InRows(i, p)
      BY <2>1 DEF InRows
    <3>2. {t \in {u \in StockTransactions : u.product = p /\ u.day <= today} : t.to # i /\ t.from = i}
            = OutRows(i, p)
      BY <2>1 DEF OutRows
    <3> QED
      BY <1>1, <3>1, <3>2 DEF get_balance, InventoryInv, LedgerBalanced
  <2>3. ASSUME NEW i \in Inventories PROVE stock[i] = get_balances_for_products(i, Products)
    BY <2>0, <2>2 DEF get_balances_for_products
  <2>4. ASSUME NEW i \in Inventories
        PROVE  DOMAIN get_balances(i) = {p \in Products : stock[i][p] # 0}
    BY <2>2 DEF get_balances
  <2> QED
    BY <2>3, <2>4 DEF LedgerExplainsStock
<1> QED
  BY <1>1, InventoryInvariant, PTL

\* The trend of the inventory dashboard shows what the ledger held at the end
\* of each day, although get_inventory_trends works backwards from the balances
\* of today.
THEOREM TrendHolds == Spec => []TrendUpToToday
<1>1. InventoryInv => TrendUpToToday
  BY TrendIsExact
<1> QED
  BY <1>1, InventoryInvariant, PTL

\* The kept balances are the ledger's, also as the list of couriers presents
\* them: a filled container counts once, as water, whoever has the vehicle now.
THEOREM StockIsExplained == Spec => []StockExplained
<1>1. InventoryInv => CourierListCountsOnce
  BY CourierListCounts
<1>2. LedgerExplainsStock /\ CourierListCountsOnce => StockExplained
  BY DEF StockExplained
<1> QED
  BY <1>1, <1>2, InventoryInvariant, LedgerExplains, PTL

\* The integrity report never raises an alarm, the distribution accounts for
\* every container the vendor issued, and every way the code computes what a
\* client owes gives the same figure.
THEOREM ContainerReports == Spec => []ContainerReportsAgree
<1>1. InventoryInv => ContainerReportsAgree
  BY IntegrityHolds, DebtReportsHold DEF ContainerReportsAgree
<1> QED
  BY <1>1, InventoryInvariant, PTL

\* Statistics, turnover, the filtered journal and the balance page all explain
\* the same balances, although each is a query of its own.
THEOREM MovementReports == Spec => []MovementReportsAgree
<1>1. InventoryInv => MovementReportsAgree
  BY MovementsHold, JournalHolds DEF MovementReportsAgree
<1> QED
  BY <1>1, InventoryInvariant, PTL
=============================================================================

----------------------------- MODULE StockLedger -----------------------------
(***************************************************************************)
(* The stock ledger: balances per inventory and product, changed only by   *)
(* inserting stock_transactions, whose trigger (update_inventory_balances) *)
(* moves the quantity and refuses a negative balance outside the virtual   *)
(* inventories.  A document's lines are a function from products to        *)
(* quantities, 0 meaning that the document has no line for the product.    *)
(***************************************************************************)
EXTENDS Sums

CONSTANTS Products,      \* the catalogue
          NoProduct,     \* "no returnable item"
          Returnable,    \* Returnable[p]: the container of water p, or NoProduct
          Inventories,   \* every inventory of the system
          Virtual        \* VIRTUAL_VENDOR and VIRTUAL_LOSS

ASSUME StockAssumption ==
  /\ IsFiniteSet(Products) /\ IsFiniteSet(Inventories)
  /\ NoProduct \notin Products
  /\ Returnable \in [Products -> Products \union {NoProduct}]
  /\ Virtual \subseteq Inventories

NoLines == [p \in Products |-> 0]

Plus(a, b) == [p \in Products |-> a[p] + b[p]]

\* Containers paired with the water lines, aggregated per container.
ReturnableItems(lines) ==
  [t \in Products |-> SumOver(lines, {p \in Products : Returnable[p] = t})]

\* The trigger's guard for a document that takes lines out of inventory i.
CanMove(bal, i, lines) ==
  \/ i \in Virtual
  \/ \A p \in Products : lines[p] > 0 => lines[p] <= bal[i][p]

\* The trigger's effect: lines leave inventory "from" and enter "to".
Move(bal, from, to, lines) ==
  [i \in Inventories |-> [p \in Products |->
     bal[i][p] - (IF i = from THEN lines[p] ELSE 0)
               + (IF i = to   THEN lines[p] ELSE 0)]]
=============================================================================

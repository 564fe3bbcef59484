----------------------------- MODULE OrderDeals -----------------------------
(***************************************************************************)
(* The ordering system implements Deals: an order is a deal, open from     *)
(* NEW to ARRIVED, and its bills are the debt rows of the money ledger.    *)
(***************************************************************************)
EXTENDS OrderSystem

Phase(s) ==
  CASE s = "ABSENT"    -> "none"
    [] s \in Settled   -> "done"
    [] s = "CANCELLED" -> "dropped"
    [] OTHER           -> "open"

DebtRows == {t \in txns : t.kind = "debt"}

D == INSTANCE Deals WITH Deal  <- Orders,
                         phase <- [o \in Orders |-> Phase(status[o])],
                         bills <- DebtRows

\* Whatever locks, retries, corrections, reassignments, jobs and contract
\* operations do to it, an order is billed exactly in the step that completes
\* it (deliver_order, create_warehouse_sale), once, and a cancelled one never.
OrdersAreDeals == D!Spec
=============================================================================

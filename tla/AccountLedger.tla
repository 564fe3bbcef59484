---------------------------- MODULE AccountLedger ----------------------------
(***************************************************************************)
(* The money ledger: balances per account, changed only by the trigger     *)
(* update_account_balances on the table transactions.  A transaction is a  *)
(* record [order, kind, from, to, amount, status]; kind tells the rows of  *)
(* one order's settlement apart.                                           *)
(***************************************************************************)
EXTENDS Sums

CONSTANT Accounts

TxnStatuses == {"PENDING", "COMPLETED", "REJECTED"}

AmountOf(rows) == [t \in rows |-> t.amount]

Completed(rows) == {t \in rows : t.status = "COMPLETED"}

\* What the COMPLETED rows bring into account a, and take out of it.
AmountIn(rows, a)  == SumOver(AmountOf(rows), {t \in Completed(rows) : t.to = a})
AmountOut(rows, a) == SumOver(AmountOf(rows), {t \in Completed(rows) : t.from = a})

\* Mutant: the trigger does not look at the status of the row.
Posted_AnyStatus(bal, rows) ==
  [a \in Accounts |-> bal[a] + SumOver(AmountOf(rows), {t \in rows : t.to = a})
                             - SumOver(AmountOf(rows), {t \in rows : t.from = a})]

\* The trigger's effect when rows are inserted, or become COMPLETED.
Posted(bal, rows) ==
  [a \in Accounts |-> bal[a] + AmountIn(rows, a) - AmountOut(rows, a)]

\* CHECK constraints of the table.
TxnOK(t) == t.amount > 0 /\ t.from # t.to
=============================================================================

----------------------------- MODULE MCFinance -----------------------------
(* Small instances of the billing service and its reports. *)
EXTENDS FinanceReports, Sequences

CONSTANTS rev, cash, terminal, acc, walk, bag, exp, sys, cl, wi, dr

MCAccountType == [a \in Accounts |->
  CASE a = rev -> "revenue" [] a = cash -> "cash" [] a = terminal -> "card"
    [] a \in {acc, walk} -> "client" [] a = bag -> "courier" [] OTHER -> "expense"]
MCOwner == [a \in Accounts |->
  CASE a = acc -> cl [] a = walk -> wi [] a = bag -> dr [] OTHER -> sys]
MCRole == [u \in {sys, cl, wi, dr} |->
  CASE u \in {cl, wi} -> "CLIENT_B2C" [] u = dr -> "COURIER" [] OTHER -> "SYSTEM"]
MCExcluded == {sys, wi}
MCContracted == {cl}
MCDueDays == [u \in {cl} |-> 0]
MCAgingLimits == <<0, 1>>
\* The courier hands in his cash.
MCManualRoutes == {<<bag, cash>>}
=============================================================================

----------------------------- MODULE MCInvoices -----------------------------
(* Small instances of the invoices of a contract. *)
EXTENDS Invoices

CONSTANTS c1, c2, firm, o1, o2, p1

MCClient  == [c \in Contracts |-> firm]
MCDueDays == [c \in Contracts |-> 1]
MCAmount  == [x \in Orders \union Payments |-> IF x = o1 THEN 1 ELSE 2]
\* Yesterday and today.
OnePeriod == {<<0, 1>>}
=============================================================================

------------------------------ MODULE Invoices ------------------------------
(***************************************************************************)
(* Invoices, reconciliation acts and amendments of B2B contracts (the      *)
(* second half of ContractService).  Generating an invoice locks the       *)
(* contract row; every other invoice operation reads the invoice without a *)
(* lock, checks its status and overwrites it later, so it is a step for    *)
(* the check and one for the write.  Days are numbered from 1.             *)
(***************************************************************************)
EXTENDS Naturals, FiniteSets, Sums

CONSTANTS Contracts, Clients,
          Client,        \* [Contracts -> Clients]
          DueDays,       \* [Contracts -> Nat], payment_due_days
          Orders, Payments,
          Amount,        \* sum of an order or a payment
          Periods,       \* periods asked for, <<period_from, period_to>>
          Numbers,       \* numbers of amendments
          Requests,      \* requests in flight at a time
          MaxInvoices, MaxDay,
          LastEntry,     \* last day on which orders and payments are entered
          None

ASSUME InvoicesAssumption ==
  /\ Client \in [Contracts -> Clients] /\ DueDays \in [Contracts -> Nat]
  /\ Amount \in [Orders \union Payments -> Nat]
  /\ Periods \subseteq Nat \X Nat /\ IsFiniteSet(Orders) /\ IsFiniteSet(Payments)
  /\ MaxInvoices \in Nat /\ MaxDay \in Nat /\ LastEntry \in Nat

VARIABLES invoice,     \* table invoices: a row or None for each id
          order,       \* contract and creation day of an order, is it delivered
          payment,     \* client and day of a CLIENT -> BANK transaction
          amendments,  \* rows of contract_amendments per contract and number
          request,     \* what a request has checked and will write, or None
          candidates,  \* invoices the overdue job has read, or None
          today

vars == <<invoice, order, payment, amendments, request, candidates, today>>
ledger == <<order, payment>>

Ids == 1..MaxInvoices
InvoiceStatuses == {"DRAFT", "ISSUED", "PAID", "OVERDUE", "CANCELLED"}
Rows(c) == {i \in Ids : invoice[i] # None /\ invoice[i].contract = c}
Idle == {r \in Requests : request[r] = None}

Init ==
  /\ invoice    = [i \in Ids |-> None]
  /\ order      = [o \in Orders |-> None]
  /\ payment    = [p \in Payments |-> None]
  /\ amendments = [c \in Contracts |-> [n \in Numbers |-> 0]]
  /\ request    = [r \in Requests |-> None]
  /\ candidates = None
  /\ today      = 1

Tomorrow ==
  /\ today < MaxDay /\ today' = today + 1
  /\ UNCHANGED <<invoice, ledger, amendments, request, candidates>>

-----------------------------------------------------------------------------
(* What invoices and acts are computed from *)

\* An order is placed on a contract and delivered later (see Orders).
PlaceOrder(o, c) ==
  /\ order[o] = None /\ today <= LastEntry
  /\ order' = [order EXCEPT ![o] = [contract |-> c, day |-> today, delivered |-> FALSE]]
  /\ UNCHANGED <<invoice, payment, amendments, request, candidates, today>>

DeliverOrder(o) ==
  /\ order[o] # None /\ ~order[o].delivered
  /\ order' = [order EXCEPT ![o].delivered = TRUE]
  /\ UNCHANGED <<invoice, payment, amendments, request, candidates, today>>

\* The accountant books a transfer of the client (see Finance).
PayByTransfer(p, cl) ==
  /\ payment[p] = None /\ today <= LastEntry
  /\ payment' = [payment EXCEPT ![p] = [client |-> cl, day |-> today]]
  /\ UNCHANGED <<invoice, order, amendments, request, candidates, today>>

\* Both days are included; the day is the one the order was created on.
get_delivered_by_contract(c, from, to) ==
  {o \in Orders : order[o] # None /\ order[o].contract = c /\ order[o].delivered
                    /\ from <= order[o].day /\ order[o].day < to + 1}

get_bank_payments_for_client(cl, from, to) ==
  {p \in Payments : payment[p] # None /\ payment[p].client = cl
                      /\ from <= payment[p].day /\ payment[p].day < to}

\* Mutant: the end of the period is taken for midnight of its last day.
get_reconciliation_Exclusive(c, from, to) ==
  LET billed == SumOver(Amount, get_delivered_by_contract(c, from, to))
      paid   == SumOver(Amount, get_bank_payments_for_client(Client[c], from, to))
  IN  [total_billed |-> billed, total_paid |-> paid]

\* The act of a period; its balance is billed minus paid.
get_reconciliation(c, from, to) ==
  LET billed == SumOver(Amount, get_delivered_by_contract(c, from, to))
      paid   == SumOver(Amount, get_bank_payments_for_client(Client[c], from, to + 1))
  IN  [total_billed |-> billed, total_paid |-> paid]

-----------------------------------------------------------------------------
(* Generating an invoice *)

\* Mutant: the contract row is not locked.
ContractFree_Unlocked(c) == TRUE

\* contracts.get(with_for_update=True)
ContractFree(c) ==
  ~\E r \in Requests :
     request[r] # None /\ request[r].op = "generate" /\ request[r].contract = c

get_for_period(c, from, to) ==
  {i \in Rows(c) : invoice[i].from = from /\ invoice[i].to = to
                     /\ invoice[i].status # "CANCELLED"}

\* The contract is locked, no duplicate was found, the number is counted.
generate_invoice_check(r, c, from, to) ==
  /\ ContractFree(c)
  /\ get_for_period(c, from, to) = {}
  /\ request' = [request EXCEPT ![r] =
       [op |-> "generate", contract |-> c, from |-> from, to |-> to,
        number |-> Cardinality(Rows(c)) + 1,
        amount |-> SumOver(Amount, get_delivered_by_contract(c, from, to))]]
  /\ UNCHANGED <<invoice, ledger, amendments, candidates, today>>

\* ck_invoice_period_order and uq_invoice_contract_number reject the insert.
InsertRefused(q) ==
  \/ q.to <= q.from
  \/ \E i \in Rows(q.contract) : invoice[i].number = q.number

generate_invoice(r, i) ==
  LET q == request[r]
  IN  /\ q # None /\ q.op = "generate" /\ ~InsertRefused(q)
      /\ invoice[i] = None /\ \A j \in Ids : j < i => invoice[j] # None
      /\ invoice' = [invoice EXCEPT ![i] =
           [contract |-> q.contract, number |-> q.number, status |-> "DRAFT",
            from |-> q.from, to |-> q.to, amount |-> q.amount,
            due |-> q.to + DueDays[q.contract], issued |-> FALSE, paid |-> FALSE]]
      /\ request' = [request EXCEPT ![r] = None]
      /\ UNCHANGED <<ledger, amendments, candidates, today>>

\* A refused insert, or a request that fails before its commit.
RolledBack(r) ==
  /\ request[r] # None
  /\ request' = [request EXCEPT ![r] = None]
  /\ UNCHANGED <<invoice, ledger, amendments, candidates, today>>

-----------------------------------------------------------------------------
(* Status changes: a check of what was read, then an unconditional write *)

\* Mutant: a draft is marked paid.
Allowed_Draft(op) ==
  CASE op = "issue"  -> {"DRAFT"}
    [] op = "pay"    -> {"DRAFT", "ISSUED", "OVERDUE"}
    [] op = "cancel" -> {"DRAFT", "ISSUED"}

Allowed(op) ==
  CASE op = "issue"  -> {"DRAFT"}
    [] op = "pay"    -> {"ISSUED", "OVERDUE"}
    [] op = "cancel" -> {"DRAFT", "ISSUED"}

\* The invoice belongs to the contract of the URL and has an allowed status.
invoice_check(r, op, c, i) ==
  /\ i \in Rows(c) /\ invoice[i].status \in Allowed(op)
  /\ request' = [request EXCEPT ![r] = [op |-> op, id |-> i]]
  /\ UNCHANGED <<invoice, ledger, amendments, candidates, today>>

Write(r, op, row) ==
  /\ request[r] # None /\ request[r].op = op
  /\ invoice' = [invoice EXCEPT ![request[r].id] = row]
  /\ request' = [request EXCEPT ![r] = None]
  /\ UNCHANGED <<ledger, amendments, candidates, today>>

Target(r) == invoice[request[r].id]

issue_invoice(r)     == Write(r, "issue",  [Target(r) EXCEPT !.status = "ISSUED", !.issued = TRUE])
mark_invoice_paid(r) == Write(r, "pay",    [Target(r) EXCEPT !.status = "PAID", !.paid = TRUE])
cancel_invoice(r)    == Write(r, "cancel", [Target(r) EXCEPT !.status = "CANCELLED"])

\* ISSUED invoices whose due date has passed.
get_overdue_candidates ==
  {i \in Ids : invoice[i] # None /\ invoice[i].status = "ISSUED" /\ invoice[i].due < today}

run_overdue_job_scan ==
  /\ candidates = None
  /\ candidates' = get_overdue_candidates
  /\ UNCHANGED <<invoice, ledger, amendments, request, today>>

\* Mutant: the job has no effect.
run_overdue_job_Idle ==
  /\ candidates # None /\ candidates' = None
  /\ UNCHANGED <<invoice, ledger, amendments, request, today>>

run_overdue_job ==
  /\ candidates # None /\ candidates' = None
  /\ invoice' = [i \in Ids |-> IF i \in candidates THEN [invoice[i] EXCEPT !.status = "OVERDUE"]
                               ELSE invoice[i]]
  /\ UNCHANGED <<ledger, amendments, request, today>>

-----------------------------------------------------------------------------
(* Amendments *)

create_amendment_check(r, c, n) ==
  /\ amendments[c][n] = 0
  /\ request' = [request EXCEPT ![r] = [op |-> "amend", contract |-> c, number |-> n]]
  /\ UNCHANGED <<invoice, ledger, amendments, candidates, today>>

\* uq_contract_amendment_number
AmendmentRefused(q) == amendments[q.contract][q.number] > 0

create_amendment(r) ==
  LET q == request[r]
  IN  /\ q # None /\ q.op = "amend" /\ ~AmendmentRefused(q)
      /\ amendments' = [amendments EXCEPT ![q.contract][q.number] = @ + 1]
      /\ request' = [request EXCEPT ![r] = None]
      /\ UNCHANGED <<invoice, ledger, candidates, today>>

-----------------------------------------------------------------------------
Documents ==
  \/ \E o \in Orders : (\E c \in Contracts : PlaceOrder(o, c)) \/ DeliverOrder(o)
  \/ \E p \in Payments, cl \in Clients : PayByTransfer(p, cl)

Begin(r) ==
  \/ \E c \in Contracts, p \in Periods : generate_invoice_check(r, c, p[1], p[2])
  \/ \E op \in {"issue", "pay", "cancel"}, c \in Contracts, i \in Ids : invoice_check(r, op, c, i)
  \/ \E c \in Contracts, n \in Numbers : create_amendment_check(r, c, n)

Finish(r) ==
  \/ \E i \in Ids : generate_invoice(r, i)
  \/ issue_invoice(r)
  \/ mark_invoice_paid(r)
  \/ cancel_invoice(r)
  \/ create_amendment(r)
  \/ RolledBack(r)

Next ==
  \/ Tomorrow
  \/ Documents
  \/ \E r \in Idle : Begin(r)
  \/ \E r \in Requests : Finish(r)
  \/ run_overdue_job_scan
  \/ run_overdue_job

Spec == Init /\ [][Next]_vars

\* The scheduler calls the overdue job again and again.
FairSpec == Spec /\ WF_vars(run_overdue_job_scan) /\ WF_vars(run_overdue_job)

-----------------------------------------------------------------------------
(* Properties *)

InvoiceRows == [contract : Contracts, number : Nat, status : InvoiceStatuses, from : Nat, to : Nat,
                amount : Nat, due : Nat, issued : BOOLEAN, paid : BOOLEAN]
Pending ==
  [op : {"generate"}, contract : Contracts, from : Nat, to : Nat, number : Nat, amount : Nat]
    \union [op : {"issue", "pay", "cancel"}, id : Ids]
    \union [op : {"amend"}, contract : Contracts, number : Numbers]

\* None is no row.
ASSUME NoneAssumption == None \notin InvoiceRows

\* Types of the invoice and amendment tables and of the requests in flight.
InvoicesTypeOK ==
  /\ invoice    \in [Ids -> InvoiceRows \union {None}]
  /\ order      \in [Orders -> [contract : Contracts, day : Nat, delivered : BOOLEAN] \union {None}]
  /\ payment    \in [Payments -> [client : Clients, day : Nat] \union {None}]
  /\ amendments \in [Contracts -> [Numbers -> Nat]]
  /\ request    \in [Requests -> Pending \union {None}]
  /\ candidates \in (SUBSET Ids) \union {None}
  /\ today      \in Nat

\* Whatever requests and jobs overwrite each other's status, an invoice is
\* ISSUED, OVERDUE or PAID only after it was issued (issued_at), and PAID only
\* with the date of its payment (paid_at).
ClaimsWereIssued ==
  \A i \in Ids : invoice[i] # None =>
    /\ invoice[i].status \in {"ISSUED", "OVERDUE", "PAID"} => invoice[i].issued
    /\ invoice[i].status = "PAID" => invoice[i].paid
    /\ invoice[i].paid => invoice[i].issued

\* generate_invoice counts the invoices of the contract for the next number;
\* while it holds the contract row nobody takes that number.
NumberStaysFree ==
  \A r \in Requests : request[r] # None /\ request[r].op = "generate" =>
    \A i \in Rows(request[r].contract) : invoice[i].number # request[r].number

\* The acts of two adjacent periods add up to the act of both: no order and no
\* payment at the border is lost or counted twice.
ActsJoin ==
  \A c \in Contracts, from, mid, to \in 1..MaxDay : from <= mid /\ mid < to =>
    LET a == get_reconciliation(c, from, mid)
        b == get_reconciliation(c, mid + 1, to)
        w == get_reconciliation(c, from, to)
    IN  /\ a.total_billed + b.total_billed = w.total_billed
        /\ a.total_paid + b.total_paid = w.total_paid

\* An invoice never asks for more than the act of its period shows: what it
\* billed stays delivered.
InvoiceWithinAct ==
  \A i \in Ids : invoice[i] # None =>
    invoice[i].amount
      <= get_reconciliation(invoice[i].contract, invoice[i].from, invoice[i].to).total_billed

\* What invoices and acts of reconciliation bill fits together, whatever is
\* delivered and paid between their generation.
ActsAddUp == ActsJoin /\ InvoiceWithinAct

\* An issued invoice does not stay ISSUED for ever once its due date has passed.
OverdueIsNoticed ==
  \A i \in Ids : i \in get_overdue_candidates ~> i \notin get_overdue_candidates

\* One invoice per period that is not cancelled (DuplicateInvoicePeriodError).
OneInvoicePerPeriod ==
  \A c \in Contracts, p \in Periods : Cardinality(get_for_period(c, p[1], p[2])) <= 1
=============================================================================

---------------------------- MODULE InvoiceProofs ----------------------------
(***************************************************************************)
(* Invoices for any number of contracts, requests and invoices.  The race  *)
(* between unlocked writers is contained by what each of them has seen: a  *)
(* request that will mark an invoice paid, and the overdue job, have seen  *)
(* it issued, and nothing takes issued_at away (ClaimInv).  The number of  *)
(* an invoice is safe because rows are never deleted and the contract row  *)
(* is locked while they are counted (NumberInv).  An invoice is inserted   *)
(* some time after its sum was computed, but what was delivered stays      *)
(* delivered (BilledInv).                                                  *)
(***************************************************************************)
EXTENDS Invoices, SumTheorems, TLAPS

\* Requests that are at work on invoice rows have seen those rows.
SeenRow(r) ==
  request[r] # None /\ request[r].op \in {"issue", "pay", "cancel"} =>
    /\ invoice[request[r].id] # None
    /\ request[r].op = "pay" => invoice[request[r].id].issued

SeenOverdue == candidates # None => \A i \in candidates : invoice[i] # None /\ invoice[i].issued

ClaimInv ==
  /\ InvoicesTypeOK
  /\ \A r \in Requests : SeenRow(r)
  /\ SeenOverdue
  /\ ClaimsWereIssued


-----------------------------------------------------------------------------
(* Types *)

\* The sum of an invoice is a natural number.
LEMMA AmountNat ==
  ASSUME NEW c, NEW from, NEW to
  PROVE  SumOver(Amount, get_delivered_by_contract(c, from, to)) \in Nat
<1> DEFINE S == get_delivered_by_contract(c, from, to)
<1>1. S \subseteq Orders
  BY DEF get_delivered_by_contract
<1>2. IsFiniteSet(S)
  BY <1>1, FS_Subset, InvoicesAssumption
<1>3. \A o \in S : Amount[o] \in Nat
  BY <1>1, InvoicesAssumption
<1> QED
  BY <1>2, <1>3, SumNat DEF IsSummable

\* The invoices of a contract can be counted.
LEMMA RowsFinite ==
  ASSUME NEW c
  PROVE  IsFiniteSet(Rows(c)) /\ Cardinality(Rows(c)) \in Nat
<1>1. IsFiniteSet(Ids)
  BY InvoicesAssumption, FS_Interval DEF Ids
<1>2. Rows(c) \subseteq Ids
  BY DEF Rows
<1> QED
  BY <1>1, <1>2, FS_Subset, FS_CardinalityType

\* Orders and transfers keep their types.
LEMMA DocumentsType ==
  ASSUME InvoicesTypeOK, Documents
  PROVE  InvoicesTypeOK'
<1>1. CASE \E o \in Orders, c \in Contracts : PlaceOrder(o, c)
  BY <1>1 DEF InvoicesTypeOK, PlaceOrder
<1>2. CASE \E o \in Orders : DeliverOrder(o)
  BY <1>2 DEF InvoicesTypeOK, DeliverOrder
<1>3. CASE \E p \in Payments, cl \in Clients : PayByTransfer(p, cl)
  BY <1>3 DEF InvoicesTypeOK, PayByTransfer
<1> QED
  BY <1>1, <1>2, <1>3 DEF Documents

\* So do requests that have passed their checks.
LEMMA BeginType ==
  ASSUME InvoicesTypeOK, NEW r \in Requests, Begin(r)
  PROVE  InvoicesTypeOK'
<1>1. ASSUME NEW c \in Contracts, NEW p \in Periods, generate_invoice_check(r, c, p[1], p[2])
      PROVE  InvoicesTypeOK'
  <2>1. p[1] \in Nat /\ p[2] \in Nat
    BY InvoicesAssumption
  <2>2. Cardinality(Rows(c)) + 1 \in Nat
    BY RowsFinite
  <2>3. SumOver(Amount, get_delivered_by_contract(c, p[1], p[2])) \in Nat
    BY AmountNat
  <2> QED
    BY <1>1, <2>1, <2>2, <2>3 DEF InvoicesTypeOK, generate_invoice_check, Pending, ledger
<1>2. ASSUME NEW op \in {"issue", "pay", "cancel"}, NEW c \in Contracts, NEW i \in Ids,
             invoice_check(r, op, c, i)
      PROVE  InvoicesTypeOK'
  BY <1>2 DEF InvoicesTypeOK, invoice_check, Pending, ledger
<1>3. ASSUME NEW c \in Contracts, NEW n \in Numbers, create_amendment_check(r, c, n)
      PROVE  InvoicesTypeOK'
  BY <1>3 DEF InvoicesTypeOK, create_amendment_check, Pending, ledger
<1> QED
  BY <1>1, <1>2, <1>3 DEF Begin

\* A request that works on an invoice names its id, one that generates names
\* contract, period, number and sum.
LEMMA PendingFields ==
  ASSUME InvoicesTypeOK, NEW r \in Requests, request[r] # None
  PROVE  /\ request[r].op \in {"issue", "pay", "cancel"} => request[r].id \in Ids
         /\ request[r].op = "generate" =>
              /\ request[r].contract \in Contracts
              /\ request[r].from \in Nat /\ request[r].to \in Nat
              /\ request[r].number \in Nat /\ request[r].amount \in Nat
         /\ request[r].op = "amend" =>
              request[r].contract \in Contracts /\ request[r].number \in Numbers
BY DEF InvoicesTypeOK, Pending

-----------------------------------------------------------------------------
(* What the writers do to the table *)

\* Period and sum of an invoice are those of another row, or of a request.
SameBill(x, y) == x.from = y.from /\ x.to = y.to /\ x.amount = y.amount

\* The same rows as before; contract and number stay, issued_at is not lost.
SameRows ==
  /\ invoice' \in [Ids -> InvoiceRows \union {None}]
  /\ \A i \in Ids :
       /\ invoice'[i] = None <=> invoice[i] = None
       /\ invoice[i] # None => /\ invoice'[i].contract = invoice[i].contract
                               /\ invoice'[i].number = invoice[i].number
                               /\ SameBill(invoice'[i], invoice[i])
                               /\ invoice[i].issued => invoice'[i].issued

\* A status change of one invoice.
Written(i, row) ==
  /\ invoice[i] # None /\ invoice' = [invoice EXCEPT ![i] = row]
  /\ row \in InvoiceRows
  /\ row.contract = invoice[i].contract /\ row.number = invoice[i].number
  /\ SameBill(row, invoice[i])
  /\ invoice[i].issued => row.issued
  /\ row.status \in {"ISSUED", "OVERDUE", "PAID"} => row.issued
  /\ row.status = "PAID" => row.paid
  /\ row.paid => row.issued

\* One row more.
Inserted(r, i) ==
  LET q == request[r]
      row == invoice'[i]
  IN  /\ invoice[i] = None /\ row \in InvoiceRows
      /\ invoice' = [invoice EXCEPT ![i] = row]
      /\ row.contract = q.contract /\ row.number = q.number /\ SameBill(row, q)
      /\ row.status = "DRAFT" /\ ~row.paid

\* Nothing but the request of a writer goes away.
Done(r) ==
  /\ request' = [request EXCEPT ![r] = None]
  /\ UNCHANGED <<ledger, amendments, candidates, today>>

\* Issuing, paying and cancelling overwrite one row that was issued before it
\* is paid.
LEMMA WriteStep ==
  ASSUME ClaimInv, NEW r \in Requests,
         issue_invoice(r) \/ mark_invoice_paid(r) \/ cancel_invoice(r)
  PROVE  /\ request[r] # None /\ request[r].op \in {"issue", "pay", "cancel"}
         /\ request[r].id \in Ids /\ Done(r)
         /\ \E row : Written(request[r].id, row)
<1> DEFINE i == request[r].id
<1>1. request[r] # None /\ request[r].op \in {"issue", "pay", "cancel"} /\ Done(r)
  BY DEF issue_invoice, mark_invoice_paid, cancel_invoice, Write, Done
<1>2. i \in Ids
  BY <1>1, PendingFields DEF ClaimInv
<1>3. /\ invoice[i] # None /\ invoice[i] \in InvoiceRows
      /\ request[r].op = "pay" => invoice[i].issued
      /\ invoice[i].paid => invoice[i].issued
  BY <1>1, <1>2 DEF ClaimInv, SeenRow, InvoicesTypeOK, ClaimsWereIssued
<1>4. CASE issue_invoice(r)
  <2> DEFINE row == [invoice[i] EXCEPT !.status = "ISSUED", !.issued = TRUE]
  <2>1. Written(i, row)
    BY <1>3, <1>4 DEF issue_invoice, Write, Target, Written, SameBill, InvoiceRows, InvoiceStatuses
  <2> QED
    BY <1>1, <1>2, <2>1
<1>5. CASE mark_invoice_paid(r)
  <2> DEFINE row == [invoice[i] EXCEPT !.status = "PAID", !.paid = TRUE]
  <2>1. Written(i, row)
    BY <1>3, <1>5 DEF mark_invoice_paid, Write, Target, Written, SameBill, InvoiceRows, InvoiceStatuses
  <2> QED
    BY <1>1, <1>2, <2>1
<1>6. CASE cancel_invoice(r)
  <2> DEFINE row == [invoice[i] EXCEPT !.status = "CANCELLED"]
  <2>1. Written(i, row)
    BY <1>3, <1>6 DEF cancel_invoice, Write, Target, Written, SameBill, InvoiceRows, InvoiceStatuses
  <2> QED
    BY <1>1, <1>2, <2>1
<1> QED
  BY <1>4, <1>5, <1>6

\* The overdue job overwrites rows that were issued when it read them.
LEMMA OverdueStep ==
  ASSUME ClaimInv, run_overdue_job
  PROVE  /\ SameRows /\ candidates' = None
         /\ UNCHANGED <<ledger, amendments, request, today>>
         /\ ClaimsWereIssued'
<1>1. candidates \in SUBSET Ids /\ \A i \in candidates : invoice[i] # None /\ invoice[i].issued
  BY DEF ClaimInv, InvoicesTypeOK, SeenOverdue, run_overdue_job
<1>2. \A i \in Ids \ candidates : invoice'[i] = invoice[i]
  BY DEF run_overdue_job
<1>3. ASSUME NEW i \in candidates
      PROVE  /\ invoice[i] \in InvoiceRows /\ invoice'[i] \in InvoiceRows
             /\ invoice'[i] = [invoice[i] EXCEPT !.status = "OVERDUE"]
  <2>1. i \in Ids /\ invoice[i] \in InvoiceRows
    BY <1>1, <1>3 DEF ClaimInv, InvoicesTypeOK
  <2>2. invoice'[i] = [invoice[i] EXCEPT !.status = "OVERDUE"]
    BY <2>1, <1>3 DEF run_overdue_job
  <2> QED
    BY <2>1, <2>2 DEF InvoiceRows, InvoiceStatuses
<1>4. invoice' \in [Ids -> InvoiceRows \union {None}]
  <2>1. \A i \in Ids : invoice'[i] \in InvoiceRows \union {None}
    BY <1>2, <1>3 DEF ClaimInv, InvoicesTypeOK
  <2> QED
    BY <2>1 DEF run_overdue_job
<1>5. \A i \in candidates :
        /\ invoice'[i] # None /\ invoice'[i].contract = invoice[i].contract
        /\ invoice'[i].number = invoice[i].number
        /\ invoice'[i].issued = invoice[i].issued /\ invoice'[i].paid = invoice[i].paid
        /\ invoice'[i].status = "OVERDUE" /\ SameBill(invoice'[i], invoice[i])
  BY <1>3, NoneAssumption DEF InvoiceRows, SameBill
<1>6. SameRows
  BY <1>1, <1>2, <1>4, <1>5 DEF SameRows, SameBill
<1>7. ClaimsWereIssued'
  BY <1>1, <1>2, <1>5 DEF ClaimInv, ClaimsWereIssued
<1> QED
  BY <1>6, <1>7 DEF run_overdue_job

\* A generated invoice is one more row.
LEMMA InsertStep ==
  ASSUME ClaimInv, NEW r \in Requests, NEW i \in Ids, generate_invoice(r, i)
  PROVE  /\ request[r] # None /\ request[r].op = "generate"
         /\ Inserted(r, i) /\ Done(r)
<1> DEFINE q == request[r]
           row == [contract |-> q.contract, number |-> q.number, status |-> "DRAFT",
                   from |-> q.from, to |-> q.to, amount |-> q.amount,
                   due |-> q.to + DueDays[q.contract], issued |-> FALSE, paid |-> FALSE]
<1>1. q # None /\ q.op = "generate" /\ invoice[i] = None /\ Done(r)
      /\ invoice' = [invoice EXCEPT ![i] = row]
  BY DEF generate_invoice, Done
<1>2. /\ q.contract \in Contracts /\ q.from \in Nat /\ q.to \in Nat
      /\ q.number \in Nat /\ q.amount \in Nat
  BY <1>1, PendingFields DEF ClaimInv
<1>3. q.to + DueDays[q.contract] \in Nat
  BY <1>2, InvoicesAssumption
<1>4. row \in InvoiceRows
  BY <1>2, <1>3 DEF InvoiceRows, InvoiceStatuses
<1>5. invoice'[i] = row
  BY <1>1 DEF ClaimInv, InvoicesTypeOK
<1>6. /\ row.contract = q.contract /\ row.number = q.number /\ row.status = "DRAFT" /\ ~row.paid
      /\ SameBill(row, q)
  BY DEF SameBill
<1> HIDE DEF row
<1> QED
  BY <1>1, <1>4, <1>5, <1>6 DEF Inserted

-----------------------------------------------------------------------------
(* ClaimInv is inductive *)

\* Rows stay, and stay issued.
RowsKept ==
  \A i \in Ids : invoice[i] # None =>
    invoice'[i] # None /\ (invoice[i].issued => invoice'[i].issued)

\* A step that keeps rows and starts no request on a row keeps what was seen.
LEMMA SeenKept ==
  ASSUME ClaimInv, RowsKept, candidates' \in {candidates, None},
         \A s \in Requests : \/ request'[s] = request[s]
                             \/ request'[s] = None
                             \/ request'[s].op \in {"generate", "amend"}
  PROVE  (\A s \in Requests : SeenRow(s)') /\ SeenOverdue'
<1>1. ASSUME NEW s \in Requests PROVE SeenRow(s)'
  <2>1. CASE request'[s] = request[s]
    <3>1. request[s] # None /\ request[s].op \in {"issue", "pay", "cancel"} => request[s].id \in Ids
      BY PendingFields DEF ClaimInv
    <3> QED
      BY <2>1, <3>1 DEF ClaimInv, SeenRow, RowsKept
  <2>2. CASE request'[s] = None \/ request'[s].op \in {"generate", "amend"}
    BY <2>2 DEF SeenRow
  <2> QED
    BY <2>1, <2>2
<1>2. SeenOverdue'
  <2>1. candidates # None => candidates \subseteq Ids
    BY DEF ClaimInv, InvoicesTypeOK
  <2> QED
    BY <2>1 DEF ClaimInv, SeenOverdue, RowsKept
<1> QED
  BY <1>1, <1>2

\* Documents and the calendar.
LEMMA ClaimDocuments ==
  ASSUME ClaimInv, Documents \/ Tomorrow
  PROVE  ClaimInv'
<1>1. UNCHANGED <<invoice, request, candidates>>
  BY DEF Documents, PlaceOrder, DeliverOrder, PayByTransfer, Tomorrow
<1>2. InvoicesTypeOK'
  <2>1. CASE Documents
    BY <2>1, DocumentsType DEF ClaimInv
  <2>2. CASE Tomorrow
    BY <2>2 DEF Tomorrow, ClaimInv, InvoicesTypeOK, ledger
  <2> QED
    BY <2>1, <2>2
<1>3. (\A s \in Requests : SeenRow(s)') /\ SeenOverdue'
  BY <1>1, SeenKept DEF RowsKept
<1> QED
  BY <1>1, <1>2, <1>3 DEF ClaimInv, ClaimsWereIssued

\* A check writes nothing; the one of mark_invoice_paid has seen an issued row.
LEMMA ClaimBegin ==
  ASSUME ClaimInv, NEW r \in Requests, Begin(r)
  PROVE  ClaimInv'
<1>1. InvoicesTypeOK'
  BY BeginType DEF ClaimInv
<1>2. UNCHANGED <<invoice, candidates>> /\ \A s \in Requests \ {r} : request'[s] = request[s]
  BY DEF Begin, generate_invoice_check, invoice_check, create_amendment_check, ClaimInv,
         InvoicesTypeOK
<1>3. \A s \in Requests \ {r} : SeenRow(s)'
  BY <1>2 DEF ClaimInv, SeenRow
<1>4. SeenRow(r)'
  <2>1. ASSUME NEW op \in {"issue", "pay", "cancel"}, NEW c \in Contracts, NEW i \in Ids,
               invoice_check(r, op, c, i)
        PROVE  SeenRow(r)'
    <3>1. request'[r] = [op |-> op, id |-> i] /\ invoice' = invoice
      BY <2>1 DEF invoice_check, ClaimInv, InvoicesTypeOK
    <3>2. invoice[i] # None /\ invoice[i].status \in Allowed(op)
      BY <2>1 DEF invoice_check, Rows
    <3>3. op = "pay" => invoice[i].issued
      BY <3>2 DEF Allowed, ClaimInv, ClaimsWereIssued
    <3> QED
      BY <3>1, <3>2, <3>3 DEF SeenRow
  <2>2. CASE \E c \in Contracts, p \in Periods : generate_invoice_check(r, c, p[1], p[2])
    <3>1. request'[r].op = "generate"
      BY <2>2 DEF generate_invoice_check, ClaimInv, InvoicesTypeOK
    <3> QED
      BY <3>1 DEF SeenRow
  <2>3. CASE \E c \in Contracts, n \in Numbers : create_amendment_check(r, c, n)
    <3>1. request'[r].op = "amend"
      BY <2>3 DEF create_amendment_check, ClaimInv, InvoicesTypeOK
    <3> QED
      BY <3>1 DEF SeenRow
  <2> QED
    BY <2>1, <2>2, <2>3 DEF Begin
<1>5. SeenOverdue' /\ ClaimsWereIssued'
  BY <1>2 DEF ClaimInv, SeenOverdue, ClaimsWereIssued
<1> QED
  BY <1>1, <1>3, <1>4, <1>5 DEF ClaimInv

\* The request of a writer is gone, every other one is as it was.
LEMMA DoneRequests ==
  ASSUME ClaimInv, NEW r \in Requests, Done(r)
  PROVE  /\ request' \in [Requests -> Pending \union {None}] /\ request'[r] = None
         /\ \A s \in Requests \ {r} : request'[s] = request[s]
         /\ candidates' = candidates
BY DEF Done, ClaimInv, InvoicesTypeOK

\* Writing a row that keeps contract, number and issued_at keeps the rows.
LEMMA WrittenRows ==
  ASSUME ClaimInv, NEW i \in Ids, NEW row, Written(i, row)
  PROVE  SameRows /\ ClaimsWereIssued'
<1>1. invoice'[i] = row /\ \A j \in Ids \ {i} : invoice'[j] = invoice[j]
  BY DEF Written, ClaimInv, InvoicesTypeOK
<1>2. invoice' \in [Ids -> InvoiceRows \union {None}]
  BY DEF Written, ClaimInv, InvoicesTypeOK
<1>3. row # None
  BY NoneAssumption DEF Written
<1>4. SameRows
  BY <1>1, <1>2, <1>3 DEF Written, SameRows, SameBill
<1>5. ClaimsWereIssued'
  BY <1>1 DEF Written, ClaimInv, ClaimsWereIssued
<1> QED
  BY <1>4, <1>5

\* Whatever the writers overwrite.
LEMMA ClaimFinish ==
  ASSUME ClaimInv, NEW r \in Requests, Finish(r)
  PROVE  ClaimInv'
<1>1. CASE issue_invoice(r) \/ mark_invoice_paid(r) \/ cancel_invoice(r)
  <2>1. request[r].id \in Ids /\ Done(r) /\ \E row : Written(request[r].id, row)
    BY <1>1, WriteStep
  <2>2. SameRows /\ ClaimsWereIssued'
    BY <2>1, WrittenRows
  <2>3. InvoicesTypeOK'
    BY <2>1, <2>2, DoneRequests DEF Done, SameRows, ClaimInv, InvoicesTypeOK, ledger
  <2>4. (\A s \in Requests : SeenRow(s)') /\ SeenOverdue'
    BY <2>1, <2>2, DoneRequests, SeenKept DEF SameRows, RowsKept
  <2> QED
    BY <2>2, <2>3, <2>4 DEF ClaimInv
<1>2. ASSUME NEW i \in Ids, generate_invoice(r, i) PROVE ClaimInv'
  <2>1. Inserted(r, i) /\ Done(r)
    BY <1>2, InsertStep
  <2>2. \A j \in Ids \ {i} : invoice'[j] = invoice[j]
    BY <2>1 DEF Inserted, ClaimInv, InvoicesTypeOK
  <2>3. InvoicesTypeOK'
    <3>1. invoice' \in [Ids -> InvoiceRows \union {None}]
      BY <2>1 DEF Inserted, ClaimInv, InvoicesTypeOK
    <3> QED
      BY <2>1, <3>1, DoneRequests DEF Done, ClaimInv, InvoicesTypeOK, ledger
  <2>4. (\A s \in Requests : SeenRow(s)') /\ SeenOverdue'
    <3>1. RowsKept
      BY <2>1, <2>2 DEF Inserted, RowsKept
    <3> QED
      BY <2>1, <3>1, DoneRequests, SeenKept
  <2>5. ClaimsWereIssued'
    BY <2>1, <2>2 DEF Inserted, ClaimInv, ClaimsWereIssued
  <2> QED
    BY <2>3, <2>4, <2>5 DEF ClaimInv
<1>3. CASE create_amendment(r) \/ RolledBack(r)
  <2>1. UNCHANGED <<invoice, candidates>> /\ request' = [request EXCEPT ![r] = None]
    BY <1>3 DEF create_amendment, RolledBack
  <2>2. InvoicesTypeOK'
    <3>1. CASE create_amendment(r)
      <4>1. request[r].contract \in Contracts /\ request[r].number \in Numbers
        BY <3>1, PendingFields DEF create_amendment, ClaimInv
      <4> QED
        BY <3>1, <4>1 DEF create_amendment, ClaimInv, InvoicesTypeOK, ledger
    <3>2. CASE RolledBack(r)
      BY <3>2 DEF RolledBack, ClaimInv, InvoicesTypeOK, ledger
    <3> QED
      BY <1>3, <3>1, <3>2
  <2>3. (\A s \in Requests : SeenRow(s)') /\ SeenOverdue'
    BY <2>1, SeenKept DEF RowsKept, ClaimInv, InvoicesTypeOK
  <2> QED
    BY <2>1, <2>2, <2>3 DEF ClaimInv, ClaimsWereIssued
<1> QED
  BY <1>1, <1>2, <1>3 DEF Finish

\* The overdue job, its reading and its writing.
LEMMA ClaimJob ==
  ASSUME ClaimInv, run_overdue_job_scan \/ run_overdue_job
  PROVE  ClaimInv'
<1>1. CASE run_overdue_job_scan
  <2>1. UNCHANGED <<invoice, request>> /\ candidates' = get_overdue_candidates
    BY <1>1 DEF run_overdue_job_scan
  <2>2. \A i \in get_overdue_candidates : i \in Ids /\ invoice[i] # None /\ invoice[i].issued
    BY DEF get_overdue_candidates, ClaimInv, ClaimsWereIssued
  <2>3. InvoicesTypeOK'
    BY <1>1, <2>1, <2>2 DEF run_overdue_job_scan, ClaimInv, InvoicesTypeOK, ledger
  <2> QED
    BY <2>1, <2>2, <2>3 DEF ClaimInv, SeenRow, SeenOverdue, ClaimsWereIssued
<1>2. CASE run_overdue_job
  <2>1. /\ SameRows /\ candidates' = None /\ ClaimsWereIssued'
        /\ UNCHANGED <<ledger, amendments, request, today>>
    BY <1>2, OverdueStep
  <2>2. InvoicesTypeOK'
    BY <2>1 DEF SameRows, ClaimInv, InvoicesTypeOK, ledger
  <2>3. (\A s \in Requests : SeenRow(s)') /\ SeenOverdue'
    BY <2>1, SeenKept DEF SameRows, RowsKept
  <2> QED
    BY <2>1, <2>2, <2>3 DEF ClaimInv
<1> QED
  BY <1>1, <1>2

\* One step of the specification.
LEMMA ClaimNext ==
  ASSUME ClaimInv, [Next]_vars
  PROVE  ClaimInv'
<1>1. CASE UNCHANGED vars
  BY <1>1 DEF vars, ledger, ClaimInv, InvoicesTypeOK, SeenRow, SeenOverdue, ClaimsWereIssued
<1>2. CASE Next
  BY <1>2, ClaimDocuments, ClaimBegin, ClaimFinish, ClaimJob DEF Next, Idle
<1> QED
  BY <1>1, <1>2

-----------------------------------------------------------------------------
(* Numbers of invoices *)

\* Rows of a table with contract c.
RowsIn(table, c) == {i \in Ids : table[i] # None /\ table[i].contract = c}

Generating(r) == request[r] # None /\ request[r].op = "generate"

\* While rows are counted nobody else counts those of the contract, so the
\* next number is one more than all that are in use.
NumbersInUse ==
  \A i \in Ids : invoice[i] # None =>
    invoice[i].number <= Cardinality(RowsIn(invoice, invoice[i].contract))
NumbersHeld ==
  \A r \in Requests : Generating(r) =>
    request[r].number = Cardinality(RowsIn(invoice, request[r].contract)) + 1
OneCounter ==
  \A r, s \in Requests : Generating(r) /\ Generating(s) /\ r # s =>
    request[r].contract # request[s].contract

NumberInv == NumbersInUse /\ NumbersHeld /\ OneCounter

\* The counts of the code, and they are natural numbers.
LEMMA RowsInFinite ==
  ASSUME NEW c
  PROVE  /\ RowsIn(invoice, c) = Rows(c)
         /\ IsFiniteSet(RowsIn(invoice, c)) /\ Cardinality(RowsIn(invoice, c)) \in Nat
<1>1. RowsIn(invoice, c) = Rows(c)
  BY DEF RowsIn, Rows
<1> QED
  BY <1>1, RowsFinite

\* A step that keeps the rows and starts no generation keeps the numbers.
LEMMA NumbersKept ==
  ASSUME ClaimInv, NumberInv, SameRows,
         \A s \in Requests : Generating(s)' => Generating(s) /\ request'[s] = request[s]
  PROVE  NumberInv'
<1>1. \A c : RowsIn(invoice', c) = RowsIn(invoice, c)
  BY DEF RowsIn, SameRows
<1>2. \A i \in Ids : invoice'[i] # None =>
        invoice'[i].number <= Cardinality(RowsIn(invoice', invoice'[i].contract))
  BY <1>1 DEF NumberInv, NumbersInUse, NumbersHeld, OneCounter, SameRows
<1>3. \A r \in Requests : Generating(r)' =>
        request'[r].number = Cardinality(RowsIn(invoice', request'[r].contract)) + 1
  BY <1>1 DEF NumberInv, NumbersInUse, NumbersHeld, OneCounter
<1>4. \A r, s \in Requests : Generating(r)' /\ Generating(s)' /\ r # s =>
        request'[r].contract # request'[s].contract
  BY DEF NumberInv, NumbersInUse, NumbersHeld, OneCounter
<1> QED
  BY <1>2, <1>3, <1>4 DEF NumberInv, NumbersInUse, NumbersHeld, OneCounter

\* Leaving the table alone keeps its rows.
LEMMA UnchangedRows ==
  ASSUME ClaimInv, invoice' = invoice
  PROVE  SameRows
BY DEF ClaimInv, InvoicesTypeOK, SameRows, SameBill

\* The insertion of the row whose number was counted.
LEMMA NumberInsert ==
  ASSUME ClaimInv, NumberInv, NEW r \in Requests, NEW i \in Ids, generate_invoice(r, i)
  PROVE  NumberInv'
<1> DEFINE c == request[r].contract
<1>1. Generating(r) /\ Inserted(r, i) /\ Done(r)
  BY InsertStep DEF Generating
<1>2. /\ invoice[i] = None /\ invoice'[i] # None
      /\ invoice'[i].contract = c /\ invoice'[i].number = request[r].number
      /\ \A j \in Ids \ {i} : invoice'[j] = invoice[j]
  BY <1>1, NoneAssumption DEF Inserted, ClaimInv, InvoicesTypeOK
<1>3. /\ request'[r] = None
      /\ \A s \in Requests \ {r} : request'[s] = request[s]
  BY <1>1, DoneRequests
<1>4. RowsIn(invoice', c) = RowsIn(invoice, c) \union {i} /\ i \notin RowsIn(invoice, c)
  BY <1>2 DEF RowsIn
<1>5. \A d : d # c => RowsIn(invoice', d) = RowsIn(invoice, d)
  BY <1>2 DEF RowsIn
<1>6. Cardinality(RowsIn(invoice', c)) = Cardinality(RowsIn(invoice, c)) + 1
  BY <1>4, RowsInFinite, FS_AddElement
<1>7. request[r].number = Cardinality(RowsIn(invoice, c)) + 1
  BY <1>1 DEF NumberInv, NumbersInUse, NumbersHeld, OneCounter
<1>8. ASSUME NEW j \in Ids, invoice'[j] # None
      PROVE  invoice'[j].number <= Cardinality(RowsIn(invoice', invoice'[j].contract))
  <2>1. CASE j = i
    <3>1. Cardinality(RowsIn(invoice, c)) \in Nat
      BY RowsInFinite
    <3> QED
      BY <2>1, <3>1, <1>2, <1>6, <1>7
  <2>2. CASE j # i
    <3>1. /\ invoice'[j] = invoice[j] /\ invoice[j] # None /\ invoice[j].number \in Nat
          /\ invoice[j].number <= Cardinality(RowsIn(invoice, invoice[j].contract))
      BY <1>2, <1>8, <2>2 DEF NumberInv, NumbersInUse, NumbersHeld, OneCounter, ClaimInv, InvoicesTypeOK, InvoiceRows
    <3>2. Cardinality(RowsIn(invoice, invoice[j].contract)) \in Nat
      BY RowsInFinite
    <3>3. CASE invoice[j].contract = c
      BY <3>1, <3>2, <3>3, <1>6
    <3>4. CASE invoice[j].contract # c
      BY <3>1, <3>4, <1>5
    <3> QED
      BY <3>3, <3>4
  <2> QED
    BY <2>1, <2>2
<1>9. ASSUME NEW s \in Requests, Generating(s)'
      PROVE  /\ s # r /\ Generating(s) /\ request'[s] = request[s]
             /\ request'[s].number = Cardinality(RowsIn(invoice', request'[s].contract)) + 1
  <2>1. s # r /\ request'[s] = request[s] /\ Generating(s)
    BY <1>3, <1>9 DEF Generating
  <2>2. request[s].contract # c
    BY <1>1, <2>1 DEF NumberInv, NumbersInUse, NumbersHeld, OneCounter
  <2> QED
    BY <2>1, <2>2, <1>5 DEF NumberInv, NumbersInUse, NumbersHeld, OneCounter
<1>10. \A s, t \in Requests : Generating(s)' /\ Generating(t)' /\ s # t =>
         request'[s].contract # request'[t].contract
  BY <1>9 DEF NumberInv, NumbersInUse, NumbersHeld, OneCounter
<1> QED
  BY <1>8, <1>9, <1>10 DEF NumberInv, NumbersInUse, NumbersHeld, OneCounter

\* Counting the rows of a contract that nobody else has locked.
LEMMA NumberCheck ==
  ASSUME ClaimInv, NumberInv, NEW r \in Requests, NEW c \in Contracts, NEW from, NEW to,
         generate_invoice_check(r, c, from, to)
  PROVE  NumberInv'
<1>1. /\ invoice' = invoice
      /\ request'[r].contract = c /\ request'[r].number = Cardinality(RowsIn(invoice, c)) + 1
      /\ \A s \in Requests \ {r} : request'[s] = request[s]
  BY RowsInFinite DEF generate_invoice_check, ClaimInv, InvoicesTypeOK
<1>2. \A s \in Requests : Generating(s) => request[s].contract # c
  BY DEF generate_invoice_check, ContractFree, Generating
<1>3. \A d : RowsIn(invoice', d) = RowsIn(invoice, d)
  BY <1>1 DEF RowsIn
<1>4. \A s \in Requests \ {r} : Generating(s)' => Generating(s)
  BY <1>1 DEF Generating
<1>5. \A i \in Ids : invoice'[i] # None =>
        invoice'[i].number <= Cardinality(RowsIn(invoice', invoice'[i].contract))
  BY <1>1, <1>3 DEF NumberInv, NumbersInUse, NumbersHeld, OneCounter
<1>6. \A s \in Requests : Generating(s)' =>
        request'[s].number = Cardinality(RowsIn(invoice', request'[s].contract)) + 1
  BY <1>1, <1>3, <1>4 DEF NumberInv, NumbersInUse, NumbersHeld, OneCounter
<1>7. \A s, t \in Requests : Generating(s)' /\ Generating(t)' /\ s # t =>
        request'[s].contract # request'[t].contract
  BY <1>1, <1>2, <1>4 DEF NumberInv, NumbersInUse, NumbersHeld, OneCounter
<1> QED
  BY <1>5, <1>6, <1>7 DEF NumberInv, NumbersInUse, NumbersHeld, OneCounter

\* One step of the specification.
LEMMA NumberNext ==
  ASSUME ClaimInv, NumberInv, [Next]_vars
  PROVE  NumberInv'
<1>1. CASE UNCHANGED vars \/ Tomorrow \/ Documents \/ run_overdue_job_scan
  <2>1. UNCHANGED <<invoice, request>>
    BY <1>1 DEF vars, Tomorrow, Documents, PlaceOrder, DeliverOrder, PayByTransfer,
                run_overdue_job_scan
  <2> QED
    BY <2>1, UnchangedRows, NumbersKept DEF Generating
<1>2. CASE run_overdue_job
  BY <1>2, OverdueStep, NumbersKept DEF Generating
<1>3. ASSUME NEW r \in Requests, Begin(r) PROVE NumberInv'
  <2>1. CASE \E c \in Contracts, p \in Periods : generate_invoice_check(r, c, p[1], p[2])
    BY <2>1, NumberCheck
  <2>2. CASE \/ \E op \in {"issue", "pay", "cancel"}, c \in Contracts, i \in Ids :
                  invoice_check(r, op, c, i)
             \/ \E c \in Contracts, n \in Numbers : create_amendment_check(r, c, n)
    <3>1. /\ invoice' = invoice /\ request'[r].op # "generate"
          /\ \A s \in Requests \ {r} : request'[s] = request[s]
      BY <2>2 DEF invoice_check, create_amendment_check, ClaimInv, InvoicesTypeOK
    <3> QED
      BY <3>1, UnchangedRows, NumbersKept DEF Generating
  <2> QED
    BY <1>3, <2>1, <2>2 DEF Begin
<1>4. ASSUME NEW r \in Requests, Finish(r) PROVE NumberInv'
  <2>1. CASE \E i \in Ids : generate_invoice(r, i)
    BY <2>1, NumberInsert
  <2>2. CASE issue_invoice(r) \/ mark_invoice_paid(r) \/ cancel_invoice(r)
    <3>1. SameRows /\ Done(r)
      BY <2>2, WriteStep, WrittenRows
    <3> QED
      BY <3>1, DoneRequests, NumbersKept DEF Generating
  <2>3. CASE create_amendment(r) \/ RolledBack(r)
    <3>1. invoice' = invoice /\ request' = [request EXCEPT ![r] = None]
      BY <2>3 DEF create_amendment, RolledBack
    <3>2. \A s \in Requests : Generating(s)' => Generating(s) /\ request'[s] = request[s]
      BY <3>1 DEF Generating, ClaimInv, InvoicesTypeOK
    <3> QED
      BY <3>1, <3>2, UnchangedRows, NumbersKept
  <2> QED
    BY <1>4, <2>1, <2>2, <2>3 DEF Finish
<1> QED
  BY <1>1, <1>2, <1>3, <1>4 DEF Next, Idle

-----------------------------------------------------------------------------
(* Sums of invoices *)

Billed(c, from, to) == SumOver(Amount, get_delivered_by_contract(c, from, to))

\* Contract, period and sum of a row or of a request.
Asks(x, c, from, to, a) == x.contract = c /\ x.from = from /\ x.to = to /\ x.amount = a

\* Neither an invoice nor a generation under way asks for more than is
\* delivered: an invoice that is computed now is inserted later.
BilledInv ==
  \A c \in Contracts, from, to, a \in Nat :
    \/ \E i \in Ids : invoice[i] # None /\ Asks(invoice[i], c, from, to, a)
    \/ \E r \in Requests : Generating(r) /\ Asks(request[r], c, from, to, a)
    => a <= Billed(c, from, to)

\* What was delivered stays delivered.
LEMMA BilledGrows ==
  ASSUME ClaimInv, [Next]_vars, NEW c, NEW from, NEW to
  PROVE  /\ Billed(c, from, to) \in Nat /\ Billed(c, from, to)' \in Nat
         /\ Billed(c, from, to) <= Billed(c, from, to)'
<1> DEFINE S == get_delivered_by_contract(c, from, to)
<1>0. order \in [Orders -> [contract : Contracts, day : Nat, delivered : BOOLEAN] \union {None}]
  BY DEF ClaimInv, InvoicesTypeOK
<1>1. S \subseteq S'
  <2>1. CASE order' = order
    BY <2>1 DEF get_delivered_by_contract
  <2>2. ASSUME NEW o \in Orders, NEW d \in Contracts, PlaceOrder(o, d) PROVE S \subseteq S'
    <3>1. order[o] = None /\ \A x \in Orders : x # o => order'[x] = order[x]
      BY <1>0, <2>2 DEF PlaceOrder
    <3> QED
      BY <3>1 DEF get_delivered_by_contract
  <2>3. ASSUME NEW o \in Orders, DeliverOrder(o) PROVE S \subseteq S'
    <3>1. ~order[o].delivered /\ \A x \in Orders : x # o => order'[x] = order[x]
      BY <1>0, <2>3 DEF DeliverOrder
    <3> QED
      BY <3>1 DEF get_delivered_by_contract
  <2>4. \/ order' = order
        \/ \E o \in Orders, d \in Contracts : PlaceOrder(o, d)
        \/ \E o \in Orders : DeliverOrder(o)
    <3>1. CASE UNCHANGED vars \/ Tomorrow \/ run_overdue_job_scan \/ run_overdue_job
      BY <3>1 DEF vars, ledger, Tomorrow, run_overdue_job_scan, run_overdue_job
    <3>2. CASE Documents
      BY <3>2 DEF Documents, PayByTransfer
    <3>3. ASSUME NEW r \in Requests, Begin(r) PROVE order' = order
      BY <3>3 DEF Begin, generate_invoice_check, invoice_check, create_amendment_check, ledger
    <3>4. ASSUME NEW r \in Requests, Finish(r) PROVE order' = order
      BY <3>4 DEF Finish, generate_invoice, issue_invoice, mark_invoice_paid, cancel_invoice, Write,
                  create_amendment, RolledBack, ledger
    <3> QED
      BY <3>1, <3>2, <3>3, <3>4 DEF Next, Idle
  <2> QED
    BY <2>1, <2>2, <2>3, <2>4
<1>2. S \in SUBSET Orders /\ S' \in SUBSET Orders
  BY DEF get_delivered_by_contract
<1>3. PICK A : A = S
  OBVIOUS
<1>4. PICK B : B = S'
  OBVIOUS
<1>5. IsSummable(Amount, B)
  <2>1. IsFiniteSet(B)
    BY <1>2, <1>4, FS_Subset, InvoicesAssumption
  <2> QED
    BY <1>2, <1>4, <2>1, InvoicesAssumption DEF IsSummable
<1>6. /\ SumOver(Amount, B) = SumOver(Amount, A) + SumOver(Amount, B \ A)
      /\ SumOver(Amount, A) \in Nat /\ SumOver(Amount, B \ A) \in Nat
  BY <1>1, <1>3, <1>4, <1>5, SumSplit
<1>7. Billed(c, from, to) = SumOver(Amount, A) /\ Billed(c, from, to)' = SumOver(Amount, B)
  BY <1>3, <1>4 DEF Billed
<1> QED
  BY <1>6, <1>7

\* Who asks after a step has asked before it, or has just been computed.
LEMMA BilledNext ==
  ASSUME ClaimInv, BilledInv, [Next]_vars
  PROVE  BilledInv'
<1> DEFINE Row(i, c, from, to, a) == invoice[i] # None /\ Asks(invoice[i], c, from, to, a)
           Asking(r, c, from, to, a) == Generating(r) /\ Asks(request[r], c, from, to, a)
           Before(c, from, to, a) == \/ \E i \in Ids : Row(i, c, from, to, a)
                                     \/ \E r \in Requests : Asking(r, c, from, to, a)
<1> SUFFICES ASSUME NEW c \in Contracts, NEW from \in Nat, NEW to \in Nat, NEW a \in Nat,
                    \/ \E i \in Ids : Row(i, c, from, to, a)'
                    \/ \E r \in Requests : Asking(r, c, from, to, a)'
             PROVE  a <= Billed(c, from, to)'
  BY DEF BilledInv
<1>0. SUFFICES Before(c, from, to, a) \/ a = Billed(c, from, to)
  <2>1. Before(c, from, to, a) => a <= Billed(c, from, to)
    BY DEF BilledInv
  <2>2. /\ Billed(c, from, to) \in Nat /\ Billed(c, from, to)' \in Nat
        /\ Billed(c, from, to) <= Billed(c, from, to)'
    BY BilledGrows
  <2> QED
    BY <2>1, <2>2
<1>1. ASSUME SameRows, \A s \in Requests : Generating(s)' => Generating(s) /\ request'[s] = request[s]
      PROVE  Before(c, from, to, a)
  BY <1>1 DEF SameRows, SameBill, Asks
<1>2. CASE UNCHANGED vars \/ Tomorrow \/ Documents \/ run_overdue_job_scan
  <2>1. UNCHANGED <<invoice, request>>
    BY <1>2 DEF vars, Tomorrow, Documents, PlaceOrder, DeliverOrder, PayByTransfer,
                run_overdue_job_scan
  <2> QED
    BY <1>1, <2>1, UnchangedRows DEF Generating
<1>3. CASE run_overdue_job
  BY <1>1, <1>3, OverdueStep DEF Generating
<1>4. ASSUME NEW r \in Requests, Begin(r) PROVE Before(c, from, to, a) \/ a = Billed(c, from, to)
  <2>1. ASSUME NEW d \in Contracts, NEW p \in Periods, generate_invoice_check(r, d, p[1], p[2])
        PROVE  Before(c, from, to, a) \/ a = Billed(c, from, to)
    <3>1. /\ invoice' = invoice /\ \A s \in Requests \ {r} : request'[s] = request[s]
          /\ request'[r].contract = d /\ request'[r].from = p[1] /\ request'[r].to = p[2]
          /\ request'[r].amount = Billed(d, p[1], p[2])
      BY <2>1 DEF generate_invoice_check, Billed, ClaimInv, InvoicesTypeOK
    <3>2. Asking(r, c, from, to, a)' => a = Billed(c, from, to)
      BY <3>1 DEF Asks
    <3> QED
      BY <3>1, <3>2 DEF Generating
  <2>2. CASE \/ \E op \in {"issue", "pay", "cancel"}, d \in Contracts, i \in Ids :
                  invoice_check(r, op, d, i)
             \/ \E d \in Contracts, n \in Numbers : create_amendment_check(r, d, n)
    <3>1. /\ invoice' = invoice /\ request'[r].op # "generate"
          /\ \A s \in Requests \ {r} : request'[s] = request[s]
      BY <2>2 DEF invoice_check, create_amendment_check, ClaimInv, InvoicesTypeOK
    <3> QED
      BY <1>1, <3>1, UnchangedRows DEF Generating
  <2> QED
    BY <1>4, <2>1, <2>2 DEF Begin
<1>5. ASSUME NEW r \in Requests, Finish(r) PROVE Before(c, from, to, a)
  <2>1. ASSUME NEW i \in Ids, generate_invoice(r, i) PROVE Before(c, from, to, a)
    <3>1. Generating(r) /\ Inserted(r, i) /\ Done(r)
      BY <2>1, InsertStep DEF Generating
    <3>2. \A j \in Ids \ {i} : invoice'[j] = invoice[j]
      BY <3>1 DEF Inserted, ClaimInv, InvoicesTypeOK
    <3>3. Row(i, c, from, to, a)' => Asking(r, c, from, to, a)
      BY <3>1 DEF Inserted, SameBill, Asks
    <3>4. request'[r] = None /\ \A s \in Requests \ {r} : request'[s] = request[s]
      BY <3>1, DoneRequests
    <3> QED
      BY <3>2, <3>3, <3>4 DEF Generating
  <2>2. CASE issue_invoice(r) \/ mark_invoice_paid(r) \/ cancel_invoice(r)
    <3>1. SameRows /\ Done(r)
      BY <2>2, WriteStep, WrittenRows
    <3> QED
      BY <1>1, <3>1, DoneRequests DEF Generating
  <2>3. CASE create_amendment(r) \/ RolledBack(r)
    <3>1. invoice' = invoice /\ request' = [request EXCEPT ![r] = None]
      BY <2>3 DEF create_amendment, RolledBack
    <3>2. \A s \in Requests : Generating(s)' => Generating(s) /\ request'[s] = request[s]
      BY <3>1 DEF Generating, ClaimInv, InvoicesTypeOK
    <3> QED
      BY <1>1, <3>1, <3>2, UnchangedRows
  <2> QED
    BY <1>5, <2>1, <2>2, <2>3 DEF Finish
<1> QED
  BY <1>2, <1>3, <1>4, <1>5 DEF Next, Idle

-----------------------------------------------------------------------------
(* Theorems *)

\* Initially there is nothing.
LEMMA InitInv == Init => ClaimInv /\ NumberInv /\ BilledInv
<1> SUFFICES ASSUME Init PROVE ClaimInv /\ NumberInv /\ BilledInv
  OBVIOUS
<1>1. InvoicesTypeOK
  BY DEF Init, InvoicesTypeOK
<1>2. ClaimInv
  BY <1>1 DEF Init, ClaimInv, SeenRow, SeenOverdue, ClaimsWereIssued
<1>3. NumberInv
  BY DEF Init, NumberInv, NumbersInUse, NumbersHeld, OneCounter, Generating
<1>4. BilledInv
  BY DEF Init, BilledInv, Generating
<1> QED
  BY <1>2, <1>3, <1>4

\* Every reachable state satisfies the invariants.
THEOREM InvoiceInvariance == Spec => [](ClaimInv /\ NumberInv /\ BilledInv)
<1>1. ClaimInv /\ NumberInv /\ BilledInv /\ [Next]_vars => ClaimInv' /\ NumberInv' /\ BilledInv'
  BY ClaimNext, NumberNext, BilledNext
<1> QED
  BY <1>1, InitInv, PTL DEF Spec

\* Whatever requests and jobs overwrite, only an issued invoice is a claim and
\* only one with a payment date is paid.
THEOREM ClaimsIssued == Spec => []ClaimsWereIssued
<1>1. ClaimInv => ClaimsWereIssued
  BY DEF ClaimInv
<1> QED
  BY <1>1, InvoiceInvariance, PTL

\* The number a generation has counted stays free until it is inserted.
THEOREM NumbersFree == Spec => []NumberStaysFree
<1>1. ClaimInv /\ NumberInv => NumberStaysFree
  <2> SUFFICES ASSUME ClaimInv, NumberInv, NEW r \in Requests, Generating(r),
                      NEW i \in Rows(request[r].contract)
               PROVE  invoice[i].number # request[r].number
    BY DEF NumberStaysFree, Generating
  <2> DEFINE n == Cardinality(RowsIn(invoice, request[r].contract))
  <2>1. n \in Nat
    BY RowsInFinite
  <2>2. i \in Ids /\ invoice[i] # None /\ invoice[i].contract = request[r].contract
    BY DEF Rows
  <2>3. invoice[i].number <= n
    BY <2>2 DEF NumberInv, NumbersInUse
  <2>4. invoice[i].number \in Nat
    BY <2>2 DEF ClaimInv, InvoicesTypeOK, InvoiceRows
  <2>5. request[r].number = n + 1
    BY DEF NumberInv, NumbersHeld
  <2> QED
    BY <2>1, <2>3, <2>4, <2>5
<1> QED
  BY <1>1, InvoiceInvariance, PTL

\* The sums of two adjacent sets of rows add up to the sum of both.
LEMMA SumsJoin ==
  ASSUME NEW S, NEW A, NEW B, NEW W, IsSummable(Amount, S), W \in SUBSET S,
         A \union B = W, A \intersect B = {}
  PROVE  SumOver(Amount, A) + SumOver(Amount, B) = SumOver(Amount, W)
<1>1. IsFiniteSet(A) /\ IsFiniteSet(B)
  <2>1. A \in SUBSET S /\ B \in SUBSET S /\ IsFiniteSet(S)
    BY DEF IsSummable
  <2> QED
    BY <2>1, FS_Subset
<1>2. IsSummable(Amount, A) /\ IsSummable(Amount, B)
  BY <1>1 DEF IsSummable
<1> QED
  BY <1>2, SumDisjoint

\* No order and no payment is lost or counted twice between the acts of two
\* adjacent periods, and no invoice, however late it is inserted after its sum
\* was computed, asks for more than the act of its period shows.
THEOREM ActsHold == Spec => []ActsAddUp
<1>1. ASSUME ClaimInv PROVE ActsJoin
  <2> SUFFICES ASSUME NEW c \in Contracts, NEW from \in 1..MaxDay, NEW mid \in 1..MaxDay,
                      NEW to \in 1..MaxDay, from <= mid, mid < to
               PROVE  /\ get_reconciliation(c, from, mid).total_billed
                           + get_reconciliation(c, mid + 1, to).total_billed
                           = get_reconciliation(c, from, to).total_billed
                      /\ get_reconciliation(c, from, mid).total_paid
                           + get_reconciliation(c, mid + 1, to).total_paid
                           = get_reconciliation(c, from, to).total_paid
    BY DEF ActsJoin
  <2>0. from \in Nat /\ mid \in Nat /\ to \in Nat
    BY InvoicesAssumption
  <2>1. IsSummable(Amount, Orders) /\ IsSummable(Amount, Payments)
    BY InvoicesAssumption DEF IsSummable
  <2>2. Billed(c, from, mid) + Billed(c, mid + 1, to) = Billed(c, from, to)
    <3>1. \A o \in Orders : order[o] # None => order[o].day \in Nat
      BY <1>1 DEF ClaimInv, InvoicesTypeOK
    <3>2. get_delivered_by_contract(c, from, to) \in SUBSET Orders
      BY DEF get_delivered_by_contract
    <3>3. get_delivered_by_contract(c, from, mid) \union get_delivered_by_contract(c, mid + 1, to)
            = get_delivered_by_contract(c, from, to)
      BY <2>0, <3>1 DEF get_delivered_by_contract
    <3>4. get_delivered_by_contract(c, from, mid) \intersect get_delivered_by_contract(c, mid + 1, to) = {}
      BY <2>0, <3>1 DEF get_delivered_by_contract
    <3> QED
      BY <2>1, <3>2, <3>3, <3>4, SumsJoin DEF Billed
  <2> DEFINE Paid(f, t) == get_bank_payments_for_client(Client[c], f, t)
  <2>3. SumOver(Amount, Paid(from, mid + 1)) + SumOver(Amount, Paid(mid + 1, to + 1))
          = SumOver(Amount, Paid(from, to + 1))
    <3>1. \A p \in Payments : payment[p] # None => payment[p].day \in Nat
      BY <1>1 DEF ClaimInv, InvoicesTypeOK
    <3>2. Paid(from, to + 1) \in SUBSET Payments
      BY DEF get_bank_payments_for_client
    <3>3. Paid(from, mid + 1) \union Paid(mid + 1, to + 1) = Paid(from, to + 1)
      BY <2>0, <3>1 DEF get_bank_payments_for_client
    <3>4. Paid(from, mid + 1) \intersect Paid(mid + 1, to + 1) = {}
      BY <2>0, <3>1 DEF get_bank_payments_for_client
    <3> HIDE DEF Paid
    <3> QED
      BY <2>1, <3>2, <3>3, <3>4, SumsJoin
  <2> QED
    BY <2>2, <2>3 DEF get_reconciliation, Billed
<1>2. ASSUME ClaimInv, BilledInv PROVE InvoiceWithinAct
  <2> SUFFICES ASSUME NEW i \in Ids, invoice[i] # None
               PROVE  invoice[i].amount
                        <= get_reconciliation(invoice[i].contract, invoice[i].from, invoice[i].to).total_billed
    BY DEF InvoiceWithinAct
  <2>1. /\ invoice[i].contract \in Contracts /\ invoice[i].from \in Nat
        /\ invoice[i].to \in Nat /\ invoice[i].amount \in Nat
    BY <1>2 DEF ClaimInv, InvoicesTypeOK, InvoiceRows
  <2>2. invoice[i].amount <= Billed(invoice[i].contract, invoice[i].from, invoice[i].to)
    BY <1>2, <2>1 DEF BilledInv, Asks
  <2> QED
    BY <2>2 DEF get_reconciliation, Billed
<1> QED
  BY <1>1, <1>2, InvoiceInvariance, PTL DEF ActsAddUp
=============================================================================

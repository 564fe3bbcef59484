------------------------------- MODULE Finance -------------------------------
(***************************************************************************)
(* The billing service: manual transactions, the cash desk, verification   *)
(* of card payments, and the settlement of orders that writes to the same  *)
(* ledger.  Rows are only added, or decided once; balances follow by the   *)
(* trigger of AccountLedger.  Time is counted in instants, two a day:      *)
(* instant 2d is midnight of day d, instant 2d+1 lies in its last second.  *)
(***************************************************************************)
EXTENDS AccountLedger

CONSTANTS AccountType,   \* AccountType[a]: "revenue", "cash", "card", ...
          Owner,         \* Owner[a]: the user an account belongs to
          ManualRoutes,  \* pairs of accounts used in manual transactions
          MaxAmount,     \* bound: amount of one transaction
          MaxTxns,       \* bound: transactions
          MaxInstant,    \* bound: instants
          None

Types == {"revenue", "cash", "card", "bank", "client", "courier", "expense"}

ASSUME FinanceAssumption ==
  /\ IsFiniteSet(Accounts) /\ AccountType \in [Accounts -> Types]
  /\ ManualRoutes \subseteq Accounts \X Accounts
  /\ MaxAmount \in Nat /\ MaxTxns \in Nat /\ MaxInstant \in Nat

VARIABLES
  txns,     \* transactions: a set of rows, told apart by id
  balance,  \* accounts.balance
  sales,    \* settled orders
  nextId,   \* the next id of a transaction
  now       \* the current instant

finVars == <<txns, balance, sales, nextId, now>>

Methods == {"CASH", "CARD", "CONTRACT"}

Rows == [id : Nat, order : Nat \union {None}, from : Accounts, to : Accounts,
         amount : 1..MaxAmount, status : TxnStatuses, kind : {"debt", "payment", "manual"},
         verified : BOOLEAN, at : 0..MaxInstant]

\* Mutant: what the accountant enters is booked on the first day.
Row_Backdated(id, kind, from, to, amount, status, order) ==
  [id |-> id, order |-> order, from |-> from, to |-> to, amount |-> amount, status |-> status,
   kind |-> kind, verified |-> kind = "manual" /\ status = "COMPLETED",
   at |-> IF kind = "manual" THEN 0 ELSE now]

Row(id, kind, from, to, amount, status, order) ==
  [id |-> id, order |-> order, from |-> from, to |-> to, amount |-> amount, status |-> status,
   kind |-> kind, verified |-> kind = "manual" /\ status = "COMPLETED", at |-> now]

\* get_user_account_by_type, get_client_account, get_courier_account, get_system_account
Having(type) == {a \in Accounts : AccountType[a] = type}

\* Rows are inserted and posted in the same transaction.
Insert(rows) ==
  /\ nextId + Cardinality(rows) <= MaxTxns + 1
  /\ txns' = txns \union rows
  /\ balance' = Posted(balance, rows)
  /\ nextId' = nextId + Cardinality(rows)

-----------------------------------------------------------------------------
create_transaction(from, to, amount, order) ==
  /\ from # to /\ from \in Accounts /\ to \in Accounts
  /\ Insert({Row(nextId, "manual", from, to, amount, "COMPLETED", order)})
  /\ UNCHANGED <<sales, now>>

\* accept_payment: cash and bank at once, a card payment waits for the accountant.
accept_payment(client, method, amount, order) ==
  /\ \E target \in Having(method) :
       Insert({Row(nextId, "manual", client, target, amount,
                   IF method = "card" THEN "PENDING" ELSE "COMPLETED", order)})
  /\ UNCHANGED <<sales, now>>

\* A decision on row t: the status and the verifier are set, the trigger posts.
Decide(t, status) ==
  LET u == [t EXCEPT !.status = status, !.verified = TRUE]
  IN  /\ txns' = (txns \ {t}) \union {u}
      /\ balance' = Posted(balance, IF t.status = "COMPLETED" THEN {} ELSE {u})
      /\ UNCHANGED <<sales, nextId, now>>

\* Mutant: the status is not checked under the lock.
verify_transaction_Unchecked(t) == t \in txns /\ Decide(t, "COMPLETED")

\* verify_transaction and reject_transaction lock the row before they look.
verify_transaction(t) == t \in txns /\ t.status = "PENDING" /\ Decide(t, "COMPLETED")

reject_transaction(t) == t \in txns /\ t.status = "PENDING" /\ Decide(t, "REJECTED")

-----------------------------------------------------------------------------
(* Settlement of an order: the debt of the client, and its payment *)

Sale(order, client, method, total, created, status) ==
  [id |-> order, client |-> Owner[client], method |-> method, total |-> total,
   created |-> created, status |-> status]

\* The rows a settlement inserts; cash names the account that takes the cash.
Settlement(order, revenue, client, cash, card, method, total) ==
  {Row(nextId, "debt", revenue, client, total, "COMPLETED", order)}
    \union (IF method = "CASH"
            THEN {Row(nextId + 1, "payment", client, cash, total, "COMPLETED", order)} ELSE {})
    \union (IF method = "CARD"
            THEN {Row(nextId + 1, "payment", client, card, total, "PENDING", order)} ELSE {})

\* _process_financial_settlement: cash goes to the courier.
process_financial_settlement(order, revenue, client, courier, card, method, total, created) ==
  /\ Insert(Settlement(order, revenue, client, courier, card, method, total))
  /\ sales' = sales \union {Sale(order, client, method, total, created, "DELIVERED")}
  /\ UNCHANGED now

\* _process_pickup_settlement: cash goes to the cash desk.
process_pickup_settlement(order, revenue, client, cash, card, method, total, created) ==
  /\ Insert(Settlement(order, revenue, client, cash, card, method, total))
  /\ sales' = sales \union {Sale(order, client, method, total, created, "PICKUP_COMPLETED")}
  /\ UNCHANGED now

Tick == now < MaxInstant /\ now' = now + 1 /\ UNCHANGED <<txns, balance, sales, nextId>>

-----------------------------------------------------------------------------
Init ==
  /\ txns = {} /\ sales = {} /\ nextId = 1 /\ now = 0
  /\ balance = [a \in Accounts |-> 0]

Orders == {s.id : s \in sales} \union {None}

SomeManual == \E route \in ManualRoutes, amount \in 1..MaxAmount, order \in Orders :
                create_transaction(route[1], route[2], amount, order)

SomePayment == \E client \in Having("client"), method \in {"cash", "card", "bank"},
                  amount \in 1..MaxAmount, order \in Orders :
                 accept_payment(client, method, amount, order)

SomeDecision == \E t \in txns : verify_transaction(t) \/ reject_transaction(t)

SomeSettlement ==
  \E revenue \in Having("revenue"), client \in Having("client"), card \in Having("card"),
     method \in Methods, total \in 1..MaxAmount, created \in 0..now :
    \/ \E courier \in Having("courier") :
         process_financial_settlement(nextId, revenue, client, courier, card, method, total, created)
    \/ \E cash \in Having("cash") :
         process_pickup_settlement(nextId, revenue, client, cash, card, method, total, created)

Next == SomeManual \/ SomePayment \/ SomeDecision \/ SomeSettlement \/ Tick

Spec == Init /\ [][Next]_finVars

-----------------------------------------------------------------------------
\* Types of the finance tables.
FinanceTypeOK ==
  /\ txns \subseteq Rows /\ nextId \in Nat /\ now \in 0..MaxInstant
  /\ balance \in [Accounts -> Int]

\* Every balance is what the COMPLETED rows of the ledger add up to, although
\* rows are posted by insertion, by verification and from two services.
BooksBalance ==
  \A a \in Accounts : balance[a] = AmountIn(txns, a) - AmountOut(txns, a)

\* A row that is COMPLETED or REJECTED stays so with its amount and accounts,
\* whoever else verifies or rejects it, and no row disappears.
DecisionIsFinal ==
  [][/\ {t \in txns : t.status # "PENDING"} \subseteq txns'
     /\ \A t \in txns : \E u \in txns' :
          u.id = t.id /\ u.amount = t.amount /\ u.from = t.from /\ u.to = t.to]_finVars
=============================================================================

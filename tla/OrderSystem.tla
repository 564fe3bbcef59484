----------------------------- MODULE OrderSystem -----------------------------
(***************************************************************************)
(* Ordering as a whole: the order service and the contract service on one  *)
(* database, with the verification of card payments by the accountant.     *)
(***************************************************************************)
EXTENDS Contracts

Init ==
  /\ status     = [o \in Orders |-> "ABSENT"]
  /\ client     = [o \in Orders |-> None]
  /\ pay        = [o \in Orders |-> None]
  /\ contract   = [o \in Orders |-> None]
  /\ courier    = [o \in Orders |-> None]
  /\ items      = [o \in Orders |-> NoLines]
  /\ unit_price = [o \in Orders |-> NoLines]
  /\ total      = [o \in Orders |-> 0]
  /\ reserved   = [o \in Orders |-> FALSE]
  /\ hold       = [o \in Orders |-> "free"]
  /\ cancelling = {} /\ stale = {}
  /\ con        = [c \in Contracts |-> "ABSENT"]
  /\ ended      = [c \in Contracts |-> FALSE]
  /\ pricelist  = {}
  /\ quantity   = [c \in Contracts |-> NoLines]
  /\ used       = [c \in Contracts |-> NoLines]
  /\ price      = [c \in Contracts |-> NoLines]
  /\ scan = {} /\ edit = None
  /\ stock      = [i \in Inventories |-> IF i \in Couriers \union {Warehouse}
                                         THEN InitStock[i] ELSE NoLines]
  /\ balance    = [a \in Accounts |-> 0]
  /\ txns       = {} /\ returns = <<>>

-----------------------------------------------------------------------------
(* Finance: a card payment of an order is verified or rejected. *)

DecideTxn(t, s) ==
  LET decided == [t EXCEPT !.status = s]
  IN  /\ t.status = "PENDING"
      /\ txns' = (txns \ {t}) \union {decided}
      /\ balance' = Posted(balance, {decided})
      /\ UNCHANGED <<orderVars, requestVars, contractVars, priceVars, used, stock, returns>>

verify_transaction(t) == DecideTxn(t, "COMPLETED")
reject_transaction(t) == DecideTxn(t, "REJECTED")

-----------------------------------------------------------------------------
PlaceOrder(o) ==
  \E cl \in Clients, cart \in Carts, capitalize \in BOOLEAN :
    \/ cl # WalkIn /\ \E m \in Methods : create_order(o, cl, m, cart, capitalize)
    \/ "CONTRACT" \in Methods
         /\ \E c \in Contracts : create_contract_order(o, cl, c, cart, capitalize)
    \/ create_warehouse_sale(o, cl, cart, capitalize)
    \/ \E m \in Methods, initial \in InitialBalances :
         onboard_client_with_balance(o, cl, m, cart, initial)

ChangeOrder(o) ==
  \/ LockOrder(o)
  \/ Rollback(o)
  \/ \E p \in Products : \/ \E n \in 1..MaxQty[p] : add_product_to_order(o, p, n)
                         \/ remove_product_from_order(o, p)
  \/ \E k \in Couriers : assign_courier(o, k)
  \/ \E new \in Statuses : update_status(o, new)
  \/ \E actual \in Carts, corrected \in BOOLEAN : deliver_order(o, actual, corrected)
  \/ cancel_by_staff(o)
  \/ cancel_order_check(o)
  \/ cancel_order(o)
  \/ cancel_order_refused(o)
  \/ Age(o)

ChangeContract(c) ==
  \/ create_contract(c)
  \/ activate_contract(c)
  \/ suspend_contract(c)
  \/ reinstate_contract(c)
  \/ terminate_contract(c)
  \/ \E past \in BOOLEAN : update_contract(c, past)
  \/ EndDatePasses(c)

ChangePrices ==
  \/ \E e \in Edits : price_item_check(e)
  \/ set_price_item
  \/ remove_price_item
  \/ price_item_aborted

Jobs ==
  \/ expire_stale_orders
  \/ run_expire_job_scan
  \/ run_expire_job
  \/ run_expire_job_aborted

Next ==
  \/ \E o \in Orders : PlaceOrder(o) \/ ChangeOrder(o)
  \/ \E c \in Contracts : ChangeContract(c)
  \/ ChangePrices
  \/ Jobs
  \/ \E t \in txns : verify_transaction(t) \/ reject_transaction(t)

Spec == Init /\ [][Next]_vars

\* A request that holds a row lock ends: the lock is not held for ever.
\* Rollback is enabled exactly while the lock is held, and whatever else ends
\* the request frees the row too, so its weak fairness demands no more.  The
\* scheduler calls expire_stale_orders again and again, and a row lock is
\* short: a job that could take an order infinitely often does so.
FairSpec ==
  /\ Spec
  /\ \A o \in Orders : WF_vars(Rollback(o))
  /\ SF_vars(expire_stale_orders)

-----------------------------------------------------------------------------
(* Types *)

Lines == [Products -> Nat]
TxnRows == [order : Orders, kind : {"debt", "payment"}, from : Accounts, to : Accounts,
            amount : Nat, status : TxnStatuses]
ReturnRows == [order : Orders, to : Couriers, lines : Lines]

\* Types of the order, contract and ledger tables.
TypeOK ==
  /\ status     \in [Orders -> Statuses \union {"ABSENT"}]
  /\ client     \in [Orders -> Clients \union {None}]
  /\ pay        \in [Orders -> {"CASH", "CARD", "CONTRACT", None}]
  /\ contract   \in [Orders -> Contracts \union {None}]
  /\ courier    \in [Orders -> Couriers \union {None}]
  /\ items      \in [Orders -> Lines]
  /\ unit_price \in [Orders -> Lines]
  /\ total      \in [Orders -> Nat]
  /\ reserved   \in [Orders -> BOOLEAN]
  /\ hold       \in [Orders -> ContractStatuses \union {"free", "none", "ABSENT"}]
  /\ cancelling \subseteq Orders /\ stale \subseteq Orders
  /\ con        \in [Contracts -> ContractStatuses \union {"ABSENT"}]
  /\ ended      \in [Contracts -> BOOLEAN]
  /\ pricelist  \subseteq Contracts \X Products
  /\ quantity   \in [Contracts -> Lines]
  /\ used       \in [Contracts -> Lines]
  /\ price      \in [Contracts -> Lines]
  /\ scan       \subseteq Contracts
  /\ edit       \in Edits \union {None}
  /\ stock      \in [Inventories -> [Products -> Int]]
  /\ balance    \in [Accounts -> Int]
  /\ txns       \subseteq TxnRows
  /\ returns    \in Seq(ReturnRows)

\* What every handler relies on: only an existing order is locked, it has a
\* client, and an order with a contract is paid by contract.
OrdersWellFormed ==
  \A o \in Orders :
    /\ Locked(o) => Exists(o)
    /\ Exists(o) => client[o] \in Clients
    /\ contract[o] # None => pay[o] = "CONTRACT"

-----------------------------------------------------------------------------
(* Quotas *)

\* What the orders that hold quota ordered, the delivered ones included.
Held(c, p) == SumOver([o \in Orders |-> items[o][p]],
                      {o \in Orders : reserved[o] /\ contract[o] = c})

\* quantity_used never counts more than the orders that hold quota ordered:
\* no reservation is counted twice, none is left behind by a cancel, a
\* correction, a job or a suspension that ran beside another, and a price item
\* that is deleted under its orders and set again starts anew.
NeverOverstated == \A c \in Contracts, p \in Products : used[c][p] <= Held(c, p)

\* Where quantity_used counts less than that, the loss came in one way: the
\* price item was deleted after remove_price_item had read quantity_used = 0
\* and an order had booked meanwhile.  No other step of two orders, a job and
\* a contract operation on one counter gives quota back twice or reserves
\* without counting.
QuotaLostOnlyByRemoval ==
  [][\A c \in Contracts, p \in Products :
       Held(c, p)' - used'[c][p] > Held(c, p) - used[c][p]
         => <<c, p>> \in pricelist \ pricelist']_vars

\* By how much the counter is over the limit.
Excess(c, p) ==
  IF quantity[c][p] > 0 /\ used[c][p] > quantity[c][p] THEN used[c][p] - quantity[c][p] ELSE 0

\* The limit of a price item, quantity_limit, is never overrun by orders:
\* the excess of the counter grows only in a set_price_item that writes a
\* lower limit than what was booked since it looked.
LimitBrokenOnlyByEdit ==
  [][\A c \in Contracts, p \in Products :
       Excess(c, p)' > Excess(c, p) => quantity'[c][p] # quantity[c][p]]_vars

\* The flag quantities_reserved is set exactly on the contract orders that
\* are not cancelled: a cancelled order has given its quota back.
ReservedExactlyWhileAlive ==
  \A o \in Orders : reserved[o] <=> contract[o] # None /\ status[o] # "CANCELLED"

-----------------------------------------------------------------------------
(* Order lifecycle *)

\* Between assignment and delivery there is always a courier, so
\* COURIER_NOT_ASSIGNED cannot stop a delivery.
CourierOnTheWay ==
  \A o \in Orders :
    status[o] \in {"ASSIGNED", "IN_TRANSIT", "ARRIVED", "DELIVERED"} => courier[o] # None

\* A settled or cancelled order never changes status, lines or sum again,
\* whatever request, job or contract operation was already under way.
TerminalIsFinal ==
  [][\A o \in Orders : status[o] \in Terminal =>
        status'[o] = status[o] /\ items'[o] = items[o] /\ total'[o] = total[o]]_vars

\* The decrement raises, and rolls the whole batch back, while an order to
\* expire holds quota of a product that is off the price list.
JobBlocked ==
  \E o \in stale, p \in Products :
    HoldsQuota(o) /\ items[o][p] > 0 /\ <<contract[o], p>> \notin pricelist

\* An order past its age limit leaves that state (expire_stale_orders takes
\* it, or someone moves it along or cancels it first) unless the whole batch
\* is blocked by a missing price item at some moment while it waits.
StaleOrdersLeaveUnlessBlocked == \A o \in Orders : o \in stale ~> o \notin stale \/ JobBlocked

\* An order past its age limit does not stay open: expire_stale_orders takes
\* it, unless someone moves it along or cancels it first.
StaleOrdersLeave == \A o \in Orders : o \in stale ~> o \notin stale

-----------------------------------------------------------------------------
(* Money and stock *)

\* Exactly the delivered and picked-up orders are settled, each by one debt
\* row for its final sum: no double delivery, no cancelled order billed.
SettledExactlyOnce ==
  \A o \in Orders :
    LET debts == {t \in txns : t.order = o /\ t.kind = "debt"}
    IN  IF status[o] \in Settled
        THEN \E t \in debts : debts = {t} /\ t.amount = total[o] /\ t.to = client[o]
        ELSE debts = {}

\* accounts.balance is what the COMPLETED transactions add up to.
BalancesMatchLedger ==
  \A a \in Accounts : balance[a] = AmountIn(txns, a) - AmountOut(txns, a)

\* A client owes exactly the settled orders that no completed payment covers:
\* contract orders, and card orders whose transfer is not verified.
ClientOwesUnpaidOrders ==
  \A cl \in Clients :
    balance[cl] = SumOver(total,
      {o \in Orders : /\ status[o] \in Settled /\ client[o] = cl
                      /\ ~\E t \in Completed(txns) : t.order = o /\ t.kind = "payment"})

\* How far total_amount is from its lines.
Drift(o) ==
  LET lines == LineTotal(items[o], unit_price[o])
  IN  IF total[o] > lines THEN total[o] - lines ELSE lines - total[o]

\* add_product_to_order grows a line whose contract price was changed since.
ToppedUp(o) ==
  /\ contract[o] # None
  /\ \E p \in Products : /\ items[o][p] > 0 /\ items'[o][p] > items[o][p]
                         /\ unit_price[o][p] # price[contract[o]][p]

\* total_amount drifts away from its lines in no other way: neither removal,
\* whose subtraction is cut off at 0, nor a corrected delivery, nor price edits
\* under way widen the gap.
TotalDriftsOnlyByTopUp ==
  [][\A o \in Orders : Drift(o)' > Drift(o) => ToppedUp(o)]_vars

\* total_amount is the sum of the lines at their snapshot prices.
TotalMatchesLines ==
  \A o \in Orders : total[o] = LineTotal(items[o], unit_price[o])

\* A client's inventory holds what the settled orders brought, no more: every
\* container of an exchange was taken back.  Containers may exceed it by those
\* that were capitalised.
GoodsMatchOrders ==
  \A cl \in Clients, p \in Products :
    LET brought == SumOver([o \in Orders |-> items[o][p]],
                           {o \in Orders : status[o] \in Settled /\ client[o] = cl})
    IN  IF \E q \in Products : Returnable[q] = p THEN stock[cl][p] >= brought
        ELSE stock[cl][p] = brought

-----------------------------------------------------------------------------
(* Contracts *)

\* One client, one ACTIVE contract.
OneActiveContract ==
  \A c, d \in Contracts :
    con[c] = "ACTIVE" /\ con[d] = "ACTIVE" /\ Owner[c] = Owner[d] => c = d

\* A terminated or expired contract never takes orders again.
ClosedStaysClosed ==
  [][\A c \in Contracts :
       con[c] \in {"TERMINATED", "EXPIRED"} => con'[c] \in {"TERMINATED", "EXPIRED"}]_vars

\* The expiry job closes ACTIVE contracts only.
OnlyActiveExpires ==
  [][\A c \in Contracts :
       con[c] # "EXPIRED" /\ con'[c] = "EXPIRED" => con[c] = "ACTIVE"]_vars

=============================================================================

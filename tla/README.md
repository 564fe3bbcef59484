# HOD: a TLA+ model of ordering, contracts, stock, money and users

HOD (Home & Office Delivery) is a FastAPI/PostgreSQL monolith that sells bottled
water: orders, B2B contracts with price lists and quotas, invoices, a stock ledger
and a money ledger kept by database triggers, couriers with vehicles, and a back
office with reports. This directory models it. Paths are relative to the
repository's `src/modules/` unless they say otherwise.

## 1. Inventory

| Component | State | Operations | Hard behaviour | Properties |
|---|---|---|---|---|
| Orders (`orders`) | orders, lines, sums, `quantities_reserved`, courier | create (delivery, contract, warehouse sale), add and remove a line, assign, move along, deliver with corrections, cancel, stale-order job | check and cancel in two transactions; row locks and `SKIP LOCKED`; many parties cancel; batch job in one transaction | finished is final, billed once, sum = lines unless a price changed, stale orders leave unless the job is blocked |
| Contracts (`contracts`) | status, end date, price items with `quantity`, `quantity_used` | create, activate, suspend, reinstate, terminate, price edits, expiry job | unlocked check-then-write; cancels another service's orders | quota never overstated, lost and overrun only by price edits, one active contract, closed stays closed |
| Invoices, amendments, acts (`contracts`) | invoices, amendments | generate, issue, mark paid, cancel, overdue job, amendment, act of a period | status written from a row read without a lock; number = count + 1 | claims were issued, number stays free, acts add up, overdue is noticed |
| Stock ledger (SQL trigger) | balance per inventory and product | insert of a stock transaction | last units wanted by several requests | nothing physical below zero, balances explained by the ledger |
| Money ledger (SQL trigger) | balance per account | insert, status change | posted once, on COMPLETED | balance = completed rows |
| Finances (`finances`) | transactions | manual transaction, cash desk, verify, reject; statements, lists, debt and courier reports, dashboard | two accountants decide; verification books in the past; same figure from many queries | decisions final, statements join, figures agree |
| Inventory (`inventory`) | vehicles, warehouses, client inventories, documents | register, hand over, archive, delete; transfers along routes; capitalising containers; journal, balances, dashboard | route and availability checked before the lock; deletion against documents | one active vehicle, nothing dangling, reports agree |
| Catalog (`catalog`) | products | add, archive, restore, hard delete | lookups before the transaction that uses them | no document lists a product that is gone |
| Users, auth (`users`, `auth`, `application/*`, `core/init.py`) | users, logins, numbers, accounts, tokens | register, update, block, delete, phones, login, start-up script | update judges by rows read earlier; limit counted unlocked; start-up repeated | staff can log in, one account of a kind, nothing outlives a user |
| HTTP API, seeder | - | - | - | not modelled |

All components share one database. The order service writes the quota counters of
the contract service and inserts rows of both ledgers; the contract service
cancels orders; the accountant decides the card payments that a delivery created;
reports read what the others wrote. There are no queues: concurrency is that of
HTTP requests and cron calls, each one or two READ COMMITTED transactions with row
locks. A crash is a rollback: nothing but the database survives a request.

## 2. Modules

| Module | Models |
|---|---|
| `Sums` | sums over finite sets, as cardinalities, and signed sums as differences of two (no recursion, so that they can be proved about) |
| `StockLedger` | trigger `update_inventory_balances`: `CanMove`, `Move` |
| `AccountLedger` | trigger `update_account_balances`: `Posted`; rows, sums in and out |
| `Orders` | order service: one action per handler, jobs included |
| `Contracts` | contract service: lifecycle, price list, expiry job (extends `Orders`) |
| `OrderSystem` | composition with the accountant's decisions; specification, fairness, properties |
| `OrderReports` | dashboards over orders, couriers and fleet, as operators on `OrderSystem` |
| `Deals`, `OrderDeals` | abstract specification of an order, and the refinement mapping to it |
| `Invoices` | invoices, amendments, acts of reconciliation, overdue job |
| `Finance`, `FinanceReports` | billing service; statements, lists, debt reports, dashboard |
| `Inventory`, `StockReports` | inventories, documents, containers, catalogue; journal, balances, dashboard |
| `Users` | users, logins, tokens, additional phones, accounts, start-up script |
| `MCOrderSystem`, `MCInvoices`, `MCFinance`, `MCInventory`, `MCUsers` | small instances; one `.cfg` per run |
| `SumTheorems`, `OrderProofs`, `OrderTheorems`, `DealTheorems`, `InvoiceProofs`, `FinanceProofs`, `UserProofs`, `InventoryProofs` | proofs |

Definitions named `X_Something` directly before a definition `X` are mutated forms
of it, each a plausible slip in that code; every checked property is violated when
one of them takes the place of `X`.

### How state and actions correspond to the code

Orders and contracts:

* An order is a value of each of the functions `status`, `client`, `pay`,
  `contract`, `courier`, `items`, `unit_price`, `total`, `reserved`. Lines are a
  function from products to quantities, 0 meaning no line, which is what the
  unique pair (order, product) and `CHECK quantity > 0` allow.
* A handler that starts with `get_with_details(with_for_update=True)` is
  `LockOrder` followed by the handler, which commits and unlocks, or by
  `Rollback`, which stands for every exception, a deadlock that PostgreSQL breaks
  and a crash. `hold[o]` keeps the contract status joined to the order when it was
  locked: SQLAlchemy's identity map goes on showing it to `add_product_to_order`
  after the contract row itself is locked. While `hold[o] # "free"` the
  `SKIP LOCKED` statements pass over `o`.
* The owner's `cancel_order` is two transactions, so two steps:
  `cancel_order_check`, and `cancel_order` or `cancel_order_refused`.
* Price-list edits and the expiry job read without a lock and write later: a step
  for the read, one for the write, one for an abort. Orders commit in between, and
  the write does not look again, as in the code. One price edit and one expiry job
  are in flight at a time.
* `returns` are the CLIENT_RETURN documents of deliveries, from which the fleet
  report counts containers; the other documents of an order are posted to `stock`
  and not kept.
* Everything a handler writes is in its action: quotas, stock documents,
  settlement rows, flags. `stale` and `ended` say that an age limit or end date has
  passed; other timestamps, audit logs and reasons are left out.
* `complete_pickup` accepts only a pickup order that is NEW. The code creates
  pickup orders PICKUP_COMPLETED, so it always raises: no action.

Invoices: `invoice[i]` is a row or `None`. `issue`, `mark_paid` and `cancel` are
`invoice_check`, which reads, and a write by id, which does not look again;
`generate_invoice_check` locks the contract row until the insert. `issued` and
`paid` stand for `issued_at` and `paid_at`. Orders, deliveries and bank transfers
are what other services do to the rows an act adds up.

Finance: rows have ids and the instant they were created. Two instants make a day,
its beginning and its last second, because a statement's period ends at 23:59:59.
Reports are operators on the state; windows, filters and pages are their arguments.

Inventory: documents are a sequence, as the table is append-only, and every line of
a document is a stock transaction that `Move` posts. `create_transfer_check`,
`add_product_check`, `create_warehouse_check` and the others are what a request
finds out before the transaction that writes.

Users: `update`, `delete_staff`, `add_phone` and `update_phone` read without a lock
(`update_read`, `delete_staff_read`, ...) and write later; unique constraints and
foreign keys decide at the write. A new user's id is one that no request and no
token names (`NewUser`), as ids are never used again. A token carries the scopes of the role at login.

## 3. Runs

Deadlock is checked everywhere except in `finance`, where the bound on rows lets
the books be full at the last instant.

| Run | Instance | Shows |
|---|---|---|
| `quota` | 2 orders, 1 contract, 1 product, its quota edited between 1 and 2 and its price item removed at any time, up to 2 units, batch limit 1 | quota never overstated, lost only to a removed price item, overrun only by a lower limit; flag exact, finished is final, `OrdersAreDeals` |
| `sales` | 2 orders, 2 couriers, cash, card, warehouse sale, water in containers, one unit of each in a vehicle, orders of up to 2 waters | settled once; balances, debts, goods, turnover and courier cards match the orders |
| `lifecycle` | 2 contracts of one client, 1 order, price edited between two values, price item removed at any time, fairness | one active contract; closed stays closed; stale orders leave unless the job is blocked; a sum drifts only where a line grows after a price change |
| `invoices` | 2 requests and the job on 2 invoices of a contract, 3 days, fairness | claims were issued, numbers stay free, acts add up, overdue is noticed |
| `finance` | 6 accounts, 2 rows, 2 days | books balance, decisions final, statements and dashboard agree with the ledger |
| `stock` | 2 requests, a vehicle, 2 addresses of a client, 3 documents, 2 days | nothing below zero, container and movement reports agree, trend exact up to today |
| `inventories` | vehicles and products come and go around one document | one active vehicle, stock explained by the ledger, nothing dangling |
| `users` | 2 requests on one user, who may become courier, storekeeper or client, beside administrator, walk-in and system user | staff can log in, one account of a kind, logins sound, phone limit |
| `expire_job` | violation | a contract that is no longer ACTIVE expires |
| `blocked_expiry` | violation, fairness | the stale-order job fails for ever |
| `price_change` | violation | the sum is not the sum of the lines |
| `invoice_race` | violation | two invoices of one period that are not cancelled |

**Bounds.** Two orders are what a race for one quota, vehicle or batch slot needs;
two units with quotas of 1 and 2 make the exact fit, the refusal and a limit lowered
below use happen; a batch limit of 1 (`StaleLimit`, 500 in the code) makes the limit
bite in `quota`; two contracts make the uniqueness check matter. `MaxQty` bounds the
units of a product: two waters against one in the vehicle make a delivery be
corrected. `Terms` are the prices and limits a price item may be given; a contract in
`Dated` has an end date, which can pass. In `lifecycle` there is one order, because
liveness is checked without symmetry: its stale-order job is blocked or passes over a
locked order, but the batch limit does not bite there.
`OnboardingOpen` switches `onboard_client_with_balance` on, `WarehouseOpen` the
warehouse sale. `Managing` and `CatalogOpen` switch the administration of
inventories and of the catalogue: `inventories` has both and one request, `stock`
has neither and two requests competing for the same units. `MaxTransfers`,
`MaxTxns`, `MaxInvoices` (rows), `MaxDay`, `MaxInstant` (time), `MaxAmount` and
`LastEntry` (the last day orders and payments are entered) bound tables and time:
two days have a border, and two rows are a debt with its payment, or a late and an
early payment. In `users`, `Edited` are the users requests are about, `MaxTokens`
and `MaxIdentities` bound rows; the limit of additional phones is 1 instead of 5 so
that two requests can pass it together. Windows of the order reports are arbitrary
sets of orders and arbitrary cuts into two periods, which covers every calendar.
Ids of orders and requests, and phones no request names, are interchangeable:
runs without liveness use symmetry.

**Fairness.** `OrderSystem!FairSpec`: a request that holds a row lock commits or
rolls back in the end (weak fairness of `Rollback(o)`), because sessions are closed by
`async with`. The stale-order job is called again and again by cron and locks are
short, so a job that could run infinitely often runs (strong fairness of
`expire_stale_orders`). `Invoices!FairSpec`: cron calls the overdue job again, and
it finishes (weak fairness of its scan and of its write). Nothing is assumed of
people: nobody has to deliver, pay or verify.

**Refinement.** `Deals` promises that an order is opened, and ends either dropped
and never billed, or done and billed once, in the step that ends it. `OrderDeals`
maps `phase` to the status of the order and `bills` to the debt rows of the money
ledger. `OrdersAreDeals` is checked in `quota` and proved in `OrderTheorems`.

## 4. Where the code and its documents differ

With a violation run and an entry in `PROJECT.json`:

* `run_expire_job` writes EXPIRED over any status it did not see;
* `expire_stale_orders` is rolled back for ever by one order without price item;
* `add_product_to_order` adds today's price to a line that keeps yesterday's;
* `issue_invoice` revives a cancelled invoice beside its replacement.

Met while modelling, visible in the models, without a run:

* Orders: the owner may cancel an order that is no longer NEW
  (`orders/services.py:1723`, docstring 1704). A suspension passes over orders that
  are locked and leaves them open (`orders/repositories.py:332`,
  `contracts/services.py:147`).
* Price list: a quota can end below what is used (`contracts/services.py:403`,
  docstring 396), an item can be removed under an order (438, docstring 430); the
  order then holds quota nobody counts and cannot be cancelled (`blocked_expiry`).
  The properties of `quota` say that these two edits are the only ways to overrun a
  limit or to lose quota. `ContractPriceItem` declares `CHECK quantity_used <=
  quantity` (`contracts/models.py:238`), which migration `d4e5f6a7b8c9` drops; the
  database does not stop a lower limit and the model has no such constraint.
* Invoices: an order delivered after the generation of its period's invoice is not
  billed by it; a period of one day is refused by `ck_invoice_period_order`.
* Finances: running balances restart on every page of a statement
  (`finances/services.py:501`); a row of a day's last second is in neither of two
  adjacent statements (474); a verified payment is booked on the day it was entered
  (668), so past figures change. Summaries select from a subquery and from the
  table at once, a product of the two: `finances/repositories.py:691`, and the
  overall totals of the journal and of the balance page
  (`inventory/repositories.py:1047`, `1211`), where
  `research/INVENTORY_SEARCH_FILTERS_FRD.md` §9.4, which the docstring at 1202 names,
  shows `total_quantity` as the sum of `by_inventory_type`. No property claims
  anything of these totals; `MovementReportsAgree` is about the rows and the sums by
  type beside them.
* Inventory: warehouse names are checked and then inserted with nothing to back the
  check (`inventory/services.py:202`), and the check on renaming looks at the first
  warehouse that contains the name. A trend whose window ends before today ignores
  what happened since (`inventory/dashboard_queries.py:524`, comment 519).
  `capitalize_deficit` posts a deficit that may no longer be one
  (`inventory/services.py:799`, docstring 783).
* Catalog: `has_stock` adds up the negative balances of virtual inventories, so it
  is never true (docstring `catalog/services.py:177`); archiving a container does
  not look for the waters sold in it.
* Users: a second login of a user can be created by concurrent updates; clients made
  by `register_local_user` or a change of role have no account; a system user whose
  role was changed makes the start-up script fail; nothing unblocks a user;
  `create_courier_inventory` looks for the wrong constraint name in the error.

## 5. Proofs

Every safety and action property that a passing run checks is stated by a theorem.
The theorems hold for every set of contracts, users, phones and ids, for any finite
sets of inventories and accounts (hence of the clients and couriers of orders),
products, orders, payments and requests, and for all prices, quotas and bounds.
They rest on the assumptions named in the modules, which say what the constants are:

* `StockAssumption`, `OrdersAssumption`, `ContractsAssumption`,
  `InvoicesAssumption`, `FinanceAssumption`, `InventoryAssumption`,
  `UsersAssumption`: types; tables are finite; system accounts and inventories are
  there and distinct, and no client is a courier;
* `InitInvAssumption`: the inventories at start-up satisfy the unique index;
* two `NoneAssumption`s, `FilterAssumption` and `FunnelAssumption`: null is no value
  of any column or filter;
* `RoutesAssumption`: every type of transfer has an entry in the route table;
* `CatalogAssumption`: only water has a container, and a container is of that type
  (`catalog/services.py` checks both);
* `AgingAssumption`: the limits of the aging report are a sequence of days that is
  not empty.

No theorem about orders restricts price edits: they race with orders as the code lets
them, with any prices and limits.

| Theorem | States | Module |
|---|---|---|
| `TypeCorrect` | `Spec => []TypeOK` | `OrderProofs` |
| `ReservedExact` | `Spec => []ReservedExactlyWhileAlive` | `OrderProofs` |
| `SettledOnce` | `Spec => []SettledExactlyOnce` | `OrderProofs` |
| `TerminalOrdersAreFinal` | `Spec => TerminalIsFinal` | `OrderProofs` |
| `OneActive`, `ClosedForGood`, `CourierAlways` | `Spec => []OneActiveContract`, `ClosedStaysClosed`, `[]CourierOnTheWay` | `OrderTheorems` |
| `QuotaNeverOverstated` | `Spec => []NeverOverstated`: `quantity_used` is at most what orders hold | `OrderTheorems` |
| `QuotaLossByRemoval`, `LimitHoldsForOrders` | `Spec => QuotaLostOnlyByRemoval`, `LimitBrokenOnlyByEdit` | `OrderTheorems` |
| `OrdersImplementDeals` | `Spec => OrdersAreDeals` | `OrderTheorems` |
| `BalancesAlwaysMatch`, `ClientsOweUnpaid` | `Spec => []BalancesMatchLedger`, `[]ClientOwesUnpaidOrders` | `OrderTheorems` |
| `CatalogTotalsMatch` | `Spec => []CatalogTotals`: an order priced by the catalogue owes its lines | `OrderTheorems` |
| `TotalDriftByTopUp` | `Spec => TotalDriftsOnlyByTopUp` | `OrderTheorems` |
| `GoodsAlwaysMatch` | `Spec => []GoodsMatchOrders` | `OrderTheorems` |
| `TurnoverHolds`, `FleetHolds` | `Spec => []TurnoverMatchesLedger`, `[]FleetMatchesDeliveries` | `OrderTheorems` |
| `DealsBilledOnce` | `Deals!Spec => []BilledOnce` | `DealTheorems` |
| `ClaimsIssued`, `NumbersFree`, `ActsHold` | `Spec => []ClaimsWereIssued`, `[]NumberStaysFree`, `[]ActsAddUp` | `InvoiceProofs` |
| `BooksAlwaysBalance`, `DecisionsFinal` | `Spec => []BooksBalance`, `DecisionIsFinal` | `FinanceProofs` |
| `StatementsAlwaysAddUp`, `PastIsSettled` | `Spec => []StatementsAddUp`, `PastChangesOnlyByVerification` | `FinanceProofs` |
| `SalesAlwaysBooked` | `Spec => []SalesBooked`: a sale has one debt row, and a debt row a sale | `FinanceProofs` |
| `DashboardHolds` | `Spec => []DashboardAgrees` | `FinanceProofs` |
| `InventoryTyped`, `StockNeverNegative`, `NothingDangles`, `OneVehicle` | `Spec => []InventoryTypeOK`, `[]NothingBelowZero`, `[]NoDanglingProducts`, `[]OneActiveVehicle` | `InventoryProofs` |
| `LedgerExplains`, `StockIsExplained` | `Spec => []LedgerExplainsStock`, `[]StockExplained` | `InventoryProofs` |
| `ContainerReports`, `MovementReports`, `TrendHolds` | `Spec => []ContainerReportsAgree`, `[]MovementReportsAgree`, `[]TrendUpToToday` | `InventoryProofs` |
| `UsersTyped`, `StaffAlwaysLogIn`, `AccountsOnce`, `LoginsStaySound`, `PhonesLimited` | `Spec => []UsersTypeOK`, `[]StaffCanLogIn`, `[]OneAccountOfEachKind`, `[]LoginsSound`, `[]PhoneLimitHolds` | `UserProofs` |

The arguments:

* `OrderInv` is inductive. Type correctness needs `OrdersWellFormed`: a delivery
  books on `client[o]`, which has the right type only because a locked order exists
  and an existing order has a client. `SettledExactlyOnce` needs `DebtsCompleted`:
  the accountant replaces rows of `txns`, and a debt row stays because it is never
  PENDING. `ReservedExactlyWhileAlive` needs `OrdersWellFormed` because the
  stale-order job releases by payment method, contract and flag, the contract
  operations by flag alone. `OrderProofs` proves types action by action, shows that
  each action does one of six things to the orders (`OrderStep`), and proves the
  invariants for the six.
* `ContractStep` says what a step may do to the statuses of contracts: make one
  active that has no active sibling, or none. The expiry job, which writes without
  looking, makes none. `CourierStep` does the same for couriers.
* Quota: `QuotaStep` says what a step may do to a price item: take what an order
  newly holds, give back what orders stop holding, or edit the item. `used` is kept
  unit by unit while the property is a sum over orders, so every action is reduced
  to how much the sum `Held` changes. A deletion that races with an order takes the
  counter away with the price item, after which the counter is short: giving back
  is cut off at 0, so that a short counter stays below the sum and the gap does not
  grow. The induction needs `UsedIsListed`: what is off the price list counts 0, so
  a price item that is set again starts from nothing.
* Sums: `PricedInv` says that orders without a contract carry catalogue prices,
  which are constant, and owe their lines. For contract orders each action is
  compared with itself: it moves sum and lines by the same amount, or cuts the sum
  off at 0, unless a line grows at a price that is not its own.
* Goods: `GoodsStep` says that a step brings one client the lines of the order it
  settles, and containers besides, or nothing. That other orders keep what they
  brought follows from `SettledExactlyOnce`: a step without a new debt row settles
  nothing. Containers may exceed the orders by those capitalised.
* Turnover: `PaidInv` says that every order has a payment method and every payment
  row follows it, cash to the courier who delivered or to the cash desk, a transfer
  to the card account, and that every settled order without a contract has such a
  row. It needs `NextCouriersStay`, that a delivered order keeps its courier, and
  that orders are entered with a method (`InsertOrderStep`). With it and
  `PaymentInv` each figure of the report is a balance: `RowIs` pairs the orders of a
  method or of a courier with their rows. Reports over a window need no invariant
  but types: they cut the same set of orders along different fields.
* Fleet: `VehicleStep` says that a step hands goods over from one vehicle, in the
  lines of the order it delivers, or from none; `VehiclesHold` is the sum over a
  courier's deliveries. `ReturnsInv` is what makes the report's count of containers
  one of deliveries: an order of goods in containers has exactly one CLIENT_RETURN
  document once it is delivered and none before, to the vehicle of the courier the
  order row names and with the lines the order row ended with.
* Refinement: each of the six order steps is `Open`, `Close`, `Drop` or a stutter
  of `Deals`. Uniqueness of the new bill needs `SettledExactlyOnce` before the step.
* `PaymentInv`: a balance is written only by the trigger, from the rows of one
  statement, while the property is about all rows. Rows of a settlement are new
  because no row of an order exists before it is settled; a decided row replaces
  itself only, because an order has one row of a kind. `SettlesBalanced` and
  `DecidesBalanced` then add and replace summands. `ClientOwesUnpaidOrders` adds
  that the rows of a client are those of its settled orders.
* `ClaimInv`: the race between unlocked writers is contained by what each of them
  has seen. A request that will mark an invoice paid, and the overdue job, have seen
  it issued, and nothing takes `issued_at` away. `NumberInv`: rows are never
  deleted and the contract row is locked while they are counted, so numbers in use
  are at most the count. `BilledInv`: what an invoice, or a generation under way,
  asks for has been delivered, and delivered stays delivered; adjacent acts split
  the deliveries and payments of the whole period.
* `FinanceInv` has the ids: inserted rows are new, a decided row replaces itself.
  `RowsOrdered` has the time: ids follow the instant of booking, which a decision
  keeps. So what comes before a period has smaller ids than any row in it, and
  opening balance, page and running balance cut the ledger into disjoint parts
  whose balances add up (`NetAdd`); no page is longer than the ids there are.
* `SalesBooked` is what the dashboard rests on: figures taken from the orders and
  figures taken from the ledger are sums over the same ids. The segments leave out
  the sales of excluded users and of users who have lost the client role, and the
  property says so; debts differ by the walk-in account.
* `UserInv`: what an update read may be stale when it writes. What it cannot lose is
  the login a promotion counted on (`PendingPromotions`): it keeps its password, or
  the user is gone with it. `PhoneRoom` counts the requests that passed the limit
  beside the numbers, so the excess is at most the other requests.
* `InventoryInv`: `PendingSound` is what a checked document cannot lose, that its
  two sides differ; the rest is decided again under the lock and by the trigger.
  `LedgerBalanced` relates the kept balance to all rows and is proved by what one
  document adds to the rows of one inventory and product.
* The stock reports needed three more parts. An inventory may be handed over or
  deleted between the check of a document's route and its posting, and a document
  outlives the request: `Routed` says that its ends were created with types the
  route table allows, and that they have these types as long as they are there;
  `DocumentsRouted` says so of every posted document, whose ends are never deleted;
  `LossKept` is `VendorKept` for the other virtual inventory. That goods never go
  from one client to another, on which the debt of a client rests, follows.
* `SumTheorems` has the facts about sums, from the library's theorems about
  cardinality: splitting, changing one summand, renaming the summands, adding two
  functions (`SumPlus`), and what posting and deciding rows do to a ledger
  (`PostedBalanced`, `PendingBalanced`). Reports group rows and add up the groups,
  which is `SumGrouped`, proved by induction on the set of groups. The library's
  induction theorem takes an operator, which the provers cannot instantiate;
  `FiniteInduction` takes the set W of the subsets that have the property instead.
  Balances may be negative, so their sums are a `SignedSum`, the difference of two
  sums, and its lemmas (`Signed...`) follow from those of `SumOver`.

Each strengthening was checked with TLC on the instance of its component first.
`FinanceTypeOK` and `InvoicesTypeOK` are part of `FinanceInv` and `ClaimInv` and
hold by `FinanceInvariance` and `InvoiceInvariance`.

Only model-checked: `StaleOrdersLeaveUnlessBlocked` and `OverdueIsNoticed`. They are
liveness properties under fairness, which is out of the prover's reach. The four violation
runs are counterexamples on one instance; nothing is proved of them.

## 6. Plan

Done: the order core with its ledgers, contracts, invoices, finances, inventory,
catalogue, users and start-up, the reports of all of them, the abstract
specification of an order and its refinement, and a theorem for every safety
property of the runs. What would extend it:

1. The order in which handlers take row locks, as steps of their own: which pairs
   can deadlock, and that a rolled-back job is retried.
2. A stock promise like `Deals`: what was loaded is delivered, returned or written
   off.

## 7. Not modelled

* In `OrderSystem`: what the billing service writes by hand (`accept_payment`,
  `create_transaction`, cash hand-in) and what the inventory service moves (loading,
  unloading). They are in `Finance` and `Inventory`, each on its own rows: so
  `ClientOwesUnpaidOrders`, `TurnoverMatchesLedger` and `FleetMatchesDeliveries` speak
  of accounts and vehicles that only orders touch. A manual payment for an order whose
  card payment is still PENDING is in neither composition.
* HTTP routes: they translate requests to calls of the services, which are the
  actions. Scopes that matter to a handler are in `Users`.
* The seeder, which fills a development database through the services.
* The client card and updates of names and company data; the PATCH of a product
  (price and container are constants); free-text search, sorting and page numbers.
* Signing of tokens, logging, texts and audit rows; two lines of one product in a
  cart.
* Waiting for each row lock: a request that meets a deadlock is rolled back, which
  the models allow at any time after the first lock.

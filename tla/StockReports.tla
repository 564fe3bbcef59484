---------------------------- MODULE StockReports ----------------------------
(***************************************************************************)
(* What the back office reads from the stock ledger: balances recomputed   *)
(* from stock_transactions, the journal with its filters and totals, and   *)
(* the inventory dashboard.  Every query is an operator of the state of    *)
(* Inventory, and the properties compare queries that compute the same     *)
(* figure in different ways.                                               *)
(***************************************************************************)
EXTENDS Inventory

CONSTANT ProductType      \* ProductType[p]: "WATER", "CONTAINER" or "EQUIPMENT"

\* What add_product enforces: only water has a container, and that is one.
ASSUME CatalogAssumption ==
  \A p \in Products : Returnable[p] # NoProduct =>
    ProductType[p] = "WATER" /\ ProductType[Returnable[p]] = "CONTAINER"

\* The rows of stock_transactions, joined with their document.
StockTransactions ==
  UNION {{[transfer |-> n, product |-> p, quantity |-> transfers[n].lines[p],
           type |-> transfers[n].type, from |-> transfers[n].from, to |-> transfers[n].to,
           day |-> transfers[n].day] : p \in {q \in Products : transfers[n].lines[q] > 0}}
         : n \in DOMAIN transfers}

Quantity(rows) == SumOver([t \in rows |-> t.quantity], rows)

\* The rows of inventory_balances: the pairs some transaction has touched.
Balances == UNION {{<<t.from, t.product>>, <<t.to, t.product>>} : t \in StockTransactions}

BalanceSum(B) == SignedSum([b \in B |-> stock[b[1]][b[2]]], B)

TypeOf(i) == inv[i].type

-----------------------------------------------------------------------------
(* StockTransactionRepository *)

\* get_balance as of the end of a day: SUM(CASE to THEN + ... from THEN -)
get_balance(i, p, as_of) ==
  LET rows == {t \in StockTransactions : t.product = p /\ t.day <= as_of}
  IN  Quantity({t \in rows : t.to = i}) - Quantity({t \in rows : t.to # i /\ t.from = i})

\* get_balances: only what is not zero
get_balances(i) ==
  [p \in {q \in Products : get_balance(i, q, today) # 0} |-> get_balance(i, p, today)]

\* get_balances_for_products: zero for a product without movement
get_balances_for_products(i, P) == [p \in P |-> get_balance(i, p, today)]

\* get_client_total_debt, over all client inventories of the user
get_client_total_debt(u, p) ==
  LET ids  == {i \in Rows : inv[i].owner = u /\ TypeOf(i) = "CLIENT"}
      rows == {t \in StockTransactions : t.product = p}
  IN  Quantity({t \in rows : t.to \in ids})
        - Quantity({t \in rows : t.to \notin ids /\ t.from \in ids})

\* get_debtors_report: one row of the join per side that is a client inventory
get_debtors_report(p, min) ==
  LET debt(u) == SignedSum([i \in Rows |-> get_balance(i, p, today)],
                           {i \in Rows : inv[i].owner = u /\ TypeOf(i) = "CLIENT"})
  IN  [u \in {v \in Users : debt(v) >= min} |-> debt(u)]

\* get_turnover_by_period
get_turnover_by_period(type, from, to) ==
  [p \in Products |-> Quantity({t \in StockTransactions :
                        t.product = p /\ t.type = type /\ t.day \in from..to})]

-----------------------------------------------------------------------------
(* The journal: StockTransactionFilter.  A field that is None does not filter. *)

NoFilter ==
  [product |-> None, from |-> None, to |-> None, inventory |-> None, direction |-> "any",
   transfer |-> None, type |-> None, quantity_from |-> None, quantity_to |-> None,
   date_from |-> None, date_to |-> None]

\* _validate_stock_transaction_filter
FilterValid(f) ==
  /\ f.quantity_from # None /\ f.quantity_to # None => f.quantity_from <= f.quantity_to
  /\ f.date_from # None /\ f.date_to # None => f.date_from <= f.date_to

\* Mutant: without a direction only what comes in is listed.
Matches_Incoming(f, t) ==
  /\ f.product \in {None, t.product}
  /\ f.from \in {None, t.from} /\ f.to \in {None, t.to}
  /\ \/ f.inventory = None
     \/ f.direction # "outgoing" /\ f.inventory = t.to
     \/ f.direction = "outgoing" /\ f.inventory = t.from
  /\ f.transfer \in {None, t.transfer} /\ f.type \in {None, t.type}
  /\ f.quantity_from # None => t.quantity >= f.quantity_from
  /\ f.quantity_to # None => t.quantity <= f.quantity_to
  /\ f.date_from # None => t.day >= f.date_from
  /\ f.date_to # None => t.day <= f.date_to

\* _apply_stock_transaction_filters
Matches(f, t) ==
  /\ f.product \in {None, t.product}
  /\ f.from \in {None, t.from} /\ f.to \in {None, t.to}
  /\ \/ f.inventory = None
     \/ f.direction # "outgoing" /\ f.inventory = t.to
     \/ f.direction # "incoming" /\ f.inventory = t.from
  /\ f.transfer \in {None, t.transfer} /\ f.type \in {None, t.type}
  /\ f.quantity_from # None => t.quantity >= f.quantity_from
  /\ f.quantity_to # None => t.quantity <= f.quantity_to
  /\ f.date_from # None => t.day >= f.date_from
  /\ f.date_to # None => t.day <= f.date_to

Journal(f) == {t \in StockTransactions : Matches(f, t)}

\* search_with_filters: the number of rows; the page is a slice of Journal(f).
TotalCount(f) == Cardinality(Journal(f))

\* summarize_with_filters.  The totals select columns of stock_transactions
\* FROM the filtered subquery: each filtered row meets every row of the table.
summarize_with_filters(f) ==
  [total_transactions |-> Cardinality(Journal(f)) * Cardinality(StockTransactions),
   total_quantity     |-> Cardinality(Journal(f)) * Quantity(StockTransactions),
   by_transfer_type   |-> [y \in DOMAIN ValidRoutes |-> Quantity({t \in Journal(f) : t.type = y})]]

\* _apply_balance_filters: nonzero_only, product and inventory type
BalanceMatches(f, b) ==
  /\ f.nonzero_only => stock[b[1]][b[2]] > 0
  /\ f.product \in {None, b[2]} /\ f.inventory_type \in {None, TypeOf(b[1])}

BalancePage(f) == {b \in Balances : BalanceMatches(f, b)}

\* BalanceRepository.summarize_with_filters, with the same product
summarize_balances(f) ==
  [total_quantity    |-> Cardinality(BalancePage(f)) * BalanceSum(Balances),
   by_inventory_type |-> [y \in InventoryTypes |->
                            BalanceSum({b \in BalancePage(f) : TypeOf(b[1]) = y})]]

-----------------------------------------------------------------------------
(* The inventory dashboard *)

Held(types, kind) ==
  BalanceSum({b \in Balances : TypeOf(b[1]) \in types /\ ProductType[b[2]] = kind})

HeldPositive(types, kind, I) ==
  BalanceSum({b \in Balances : /\ b[1] \in I /\ stock[b[1]][b[2]] > 0
                               /\ TypeOf(b[1]) \in types /\ ProductType[b[2]] = kind})

\* get_summary: everything, or the warehouses of one storekeeper
get_summary(owner) ==
  LET own == IF owner = None THEN Rows
             ELSE {i \in Rows : TypeOf(i) = "WAREHOUSE" /\ inv[i].owner = owner}
      near == {"WAREHOUSE", "COURIER"}
      kinds == {"WATER", "CONTAINER", "EQUIPMENT"}
  IN  [water       |-> HeldPositive(near, "WATER", own),
       container   |-> HeldPositive(near, "CONTAINER", own),
       at_clients  |-> HeldPositive({"CLIENT"}, "CONTAINER", own),
       on_couriers |-> SumOver([k \in kinds |-> HeldPositive({"COURIER"}, k, own)], kinds),
       losses_today |-> Quantity({t \in StockTransactions :
                                    TypeOf(t.to) = "VIRTUAL_LOSS" /\ t.day = today}),
       active_couriers |-> Cardinality({inv[i].owner : i \in {j \in Rows : OfType(j, "COURIER")}})]

Abs(n) == IF n < 0 THEN -n ELSE n

\* get_container_distribution
get_container_distribution ==
  [at_warehouses   |-> Held({"WAREHOUSE"}, "CONTAINER"),
   at_couriers     |-> Held({"COURIER"}, "CONTAINER"),
   at_clients      |-> Held({"CLIENT"}, "CONTAINER"),
   lost            |-> Held({"VIRTUAL_LOSS"}, "CONTAINER"),
   total_in_system |-> Abs(Held({"VIRTUAL_VENDOR"}, "CONTAINER"))]

\* get_virtual_accounts: the difference that must be 0
integrity_diff ==
  Abs(BalanceSum({b \in Balances : TypeOf(b[1]) = "VIRTUAL_VENDOR"}))
    - BalanceSum({b \in Balances : TypeOf(b[1]) = "VIRTUAL_LOSS"})
    - BalanceSum({b \in Balances : TypeOf(b[1]) \in Real})

\* get_container_debtors: containers per client, users without any left out
get_container_debtors ==
  LET of(u) == BalanceSum({b \in Balances :
                 /\ TypeOf(b[1]) = "CLIENT" /\ inv[b[1]].owner = u
                 /\ ProductType[b[2]] = "CONTAINER" /\ stock[b[1]][b[2]] > 0})
  IN  [u \in {v \in Users \ {SystemUser} : of(v) > 0} |-> of(u)]

-----------------------------------------------------------------------------
(* The lists of clients and couriers (UsersDashboardQuery) *)

\* What the inventories I hold per product, from the ledger read twice: each
\* row once as incoming and once as outgoing.
LedgerSum(I, p) ==
  Quantity({t \in StockTransactions : t.product = p /\ t.to \in I})
    - Quantity({t \in StockTransactions : t.product = p /\ t.from \in I})

OwnedBy(u, type) == {i \in Rows : inv[i].owner = u /\ TypeOf(i) = type}

\* get_clients: the containers at all addresses of the client
get_clients(u) ==
  LET held(p) == LedgerSum(OwnedBy(u, "CLIENT"), p)
  IN  [p \in {q \in Products : ProductType[q] = "CONTAINER" /\ held(q) # 0} |-> held(p)]

\* get_couriers: containers with water in them are not listed
get_couriers(u) ==
  LET held(p)     == LedgerSum(OwnedBy(u, "COURIER"), p)
      occupied(t) == SignedSum([p \in Products |-> held(p)],
                       {p \in Products : ProductType[p] = "WATER" /\ Returnable[p] = t})
      shown(p)    == held(p) - (IF ProductType[p] = "CONTAINER" THEN occupied(p) ELSE 0)
  IN  [p \in {q \in Products : shown(q) > 0} |-> shown(p)]

-----------------------------------------------------------------------------
\* get_movement_stats: documents and items per type, all or those that touch
\* the warehouses of one storekeeper
get_movement_stats(from, to, owner) ==
  LET own == {i \in Rows : TypeOf(i) = "WAREHOUSE" /\ inv[i].owner = owner}
      rows(y) == {t \in StockTransactions :
                    /\ t.type = y /\ t.day \in from..to
                    /\ owner = None \/ t.from \in own \/ t.to \in own}
  IN  [y \in DOMAIN ValidRoutes |-> [transfers_count |-> Cardinality({t.transfer : t \in rows(y)}),
                                total_items |-> Quantity(rows(y))]]

\* Mutant: the day's own change is subtracted too.
FutureChange_Inclusive(types, kind, day, to) ==
  LET rows == {t \in StockTransactions : ProductType[t.product] = kind /\ t.day \in day..to}
  IN  Quantity({t \in rows : TypeOf(t.to) \in types}) - Quantity({t \in rows : TypeOf(t.from) \in types})

\* get_inventory_trends: the net changes after a day, within the window
FutureChange(types, kind, day, to) ==
  LET rows == {t \in StockTransactions : ProductType[t.product] = kind /\ t.day \in day+1..to}
  IN  Quantity({t \in rows : TypeOf(t.to) \in types}) - Quantity({t \in rows : TypeOf(t.from) \in types})

\* get_inventory_trends: a point per day of the window that saw a movement
get_inventory_trends(types, kind, from, to) ==
  [day \in {t.day : t \in {u \in StockTransactions : u.day \in from..to}} |->
     Held(types, kind) - FutureChange(types, kind, day, to)]

-----------------------------------------------------------------------------
(* Properties *)

TransferRows == [type : TransferTypes \union {"INITIAL_BALANCE"}, from : Inventories, to : Inventories,
                 lines : [Products -> Nat], day : 1..MaxDay]

\* What a request under way remembers.
PendingRows ==
  [op : {"add_product", "restore_product"}, product : Products]
    \union [op : {"create_warehouse"}, id : Inventories, owner : Users, name : Names]
    \union [op : {"update_warehouse"}, id : Inventories, owner : {None}, name : Names]
    \union [op : {"create_transfer"}, doc : Documents]
    \union [op : {"capitalize_deficit"}, id : Inventories, lines : [Products -> Nat], cart : Carts]

\* Types of the inventory tables and of the requests under way.
InventoryTypeOK ==
  /\ inv \in [Inventories -> InventoryRows \union {None, Deleted}]
  /\ transfers \in Seq(TransferRows) /\ Len(transfers) <= MaxTransfers
  /\ stock \in [Inventories -> [Products -> Int]]
  /\ pending \in [Requests -> PendingRows \union {None}]
  /\ today \in 1..MaxDay
  /\ catalog \in [Products -> {"ABSENT", "ACTIVE", "ARCHIVED", "DELETED"}]

\* inventory_balances, kept by the trigger, is what the append-only ledger
\* adds up to (get_balance, get_balances): whatever is posted concurrently,
\* and although a deleted inventory takes its balances with it.
LedgerExplainsStock ==
  \A i \in Inventories :
    /\ stock[i] = get_balances_for_products(i, Products)
    /\ DOMAIN get_balances(i) = {p \in Products : stock[i][p] # 0}

\* No physical inventory is ever below zero, although the availability check
\* of one request and the posting of another interleave.
NothingBelowZero ==
  \A i \in Inventories \ Virtual, p \in Products : stock[i][p] >= 0

\* A user is responsible for at most one active vehicle, however vehicles are
\* registered and handed over.
OneActiveVehicle ==
  \A u \in Users : Cardinality({i \in Rows : OfType(i, "COURIER") /\ inv[i].owner = u}) <= 1

\* No document lists a product that is gone, and no product has lost its
\* container: neither check of hard_delete sees stock (has_stock sums to 0),
\* and products are looked up before the transaction that uses them.
NoDanglingProducts ==
  \A p \in Products :
    /\ (\E t \in StockTransactions : t.product = p) => Listed(p)
    /\ Listed(p) /\ Returnable[p] # NoProduct => Listed(Returnable[p])

\* The integrity report (get_virtual_accounts) never raises an alarm, and the
\* containers issued by the vendor are all accounted for in the distribution,
\* which the summary, though it counts positive balances only, agrees with.
IntegrityReportOK ==
  LET d == get_container_distribution
      k == get_summary(None)
  IN  /\ integrity_diff = 0
      /\ d.total_in_system = d.at_warehouses + d.at_couriers + d.at_clients + d.lost
      /\ k.container = d.at_warehouses + d.at_couriers /\ k.at_clients = d.at_clients
      /\ \A u \in Users : get_summary(u).container <= d.at_warehouses

\* The container debt of a client, computed over all his addresses at once, is
\* the sum over his inventories, and the debtors' report and the list of clients
\* say the same.  It rests on the route table: goods never go from one client
\* to another.
DebtReportsAgree ==
  /\ \A u \in Users, p \in Products :
       LET debt == get_client_total_debt(u, p)
       IN  /\ debt = SignedSum([i \in Inventories |-> stock[i][p]], OwnedBy(u, "CLIENT"))
           /\ debt >= 1 => get_debtors_report(p, 1)[u] = debt
           /\ debt # 0 /\ ProductType[p] = "CONTAINER" => get_clients(u)[p] = debt
  /\ \A u \in DOMAIN get_container_debtors :
       get_container_debtors[u] = SignedSum([p \in Products |-> get_client_total_debt(u, p)],
                                            {p \in Products : ProductType[p] = "CONTAINER"})

\* The list of couriers counts what one sees on the vehicles, computed from the
\* kept balances: every product, but a filled container only once, as water,
\* also after the vehicle changed hands.
CourierListCountsOnce ==
  \A u \in Users :
    LET held(p) == SignedSum([i \in Inventories |-> stock[i][p]], OwnedBy(u, "COURIER"))
        filled(t) == SignedSum([p \in Products |-> held(p)], {p \in Products : Returnable[p] = t})
        seen == [p \in Products |-> IF held(p) > filled(p) THEN held(p) - filled(p) ELSE 0]
        list == get_couriers(u)
    IN  SumOver(list, DOMAIN list) = SumOver(seen, Products)

\* What a group of inventories held at the end of a day, from the ledger.
HeldAsOf(types, kind, day) ==
  SignedSum([b \in Balances |-> get_balance(b[1], b[2], day)],
            {b \in Balances : TypeOf(b[1]) \in types /\ ProductType[b[2]] = kind})

TrendGroups == {<<{"WAREHOUSE", "COURIER"}, "WATER">>, <<{"WAREHOUSE", "COURIER"}, "CONTAINER">>,
                <<{"CLIENT"}, "CONTAINER">>}

TrendExact(from, to) ==
  \A g \in TrendGroups :
    LET points == get_inventory_trends(g[1], g[2], from, to)
    IN  \A day \in DOMAIN points : points[day] = HeldAsOf(g[1], g[2], day)

\* The trend of a window that ends today shows the balances the ledger had at
\* the end of each day (the code works backwards from the current balances).
TrendUpToToday == \A from \in 1..today : TrendExact(from, today)

\* Totals per transfer type and per storekeeper never exceed the ledger, and
\* without a storekeeper they add up to it.
MovementsAddUp ==
  /\ LET all == get_movement_stats(1, today, None)
     IN  SumOver([y \in DOMAIN all |-> all[y].total_items], DOMAIN all) = Quantity(StockTransactions)
  /\ \A u \in Users :
       LET own == get_movement_stats(1, today, u)
       IN  \A y \in DOMAIN own :
             own[y].total_items <= SumOver(get_turnover_by_period(y, 1, today), Products)

\* What the filtered journal lists as coming in and going out of an inventory
\* explains its balance, each movement is one or the other, a window lists what
\* the statistics of its days count, and a refused window would list nothing;
\* the totals by type add up to the rows listed, in the journal and on the
\* balance page.  The overall totals of both summaries count the whole table
\* for every row and are not what they are documented to be.
JournalExplainsBalance ==
  /\ \A i \in Inventories, p \in Products :
       LET f == [NoFilter EXCEPT !.product = p, !.inventory = i]
           incoming == Journal([f EXCEPT !.direction = "incoming"])
           outgoing == Journal([f EXCEPT !.direction = "outgoing"])
       IN  /\ stock[i][p] = Quantity(incoming) - Quantity(outgoing)
           /\ TotalCount(f) = Cardinality(incoming) + Cardinality(outgoing)
  /\ \A from, to \in 1..today :
       LET f  == [NoFilter EXCEPT !.date_from = from, !.date_to = to]
           by == get_movement_stats(from, to, None)
       IN  IF FilterValid(f)
           THEN Quantity(Journal(f)) = SumOver([y \in DOMAIN by |-> by[y].total_items], DOMAIN by)
           ELSE Journal(f) = {}
  /\ LET by == summarize_with_filters(NoFilter).by_transfer_type
     IN  SumOver(by, DOMAIN by) = Quantity(StockTransactions)
  /\ \A p \in Products :
       LET f == [nonzero_only |-> TRUE, product |-> p, inventory_type |-> None]
           s == summarize_balances(f)
       IN  SignedSum(s.by_inventory_type, InventoryTypes) = BalanceSum(BalancePage(f))

\* Containers: integrity report, distribution and every way to compute what a
\* client owes say the same.
ContainerReportsAgree == IntegrityReportOK /\ DebtReportsAgree

\* Movements: statistics, turnover, journal and balance page explain the
\* balances.
MovementReportsAgree == MovementsAddUp /\ JournalExplainsBalance

\* The kept balances are what the ledger adds up to, also as the list of
\* couriers presents it.
StockExplained == LedgerExplainsStock /\ CourierListCountsOnce
=============================================================================

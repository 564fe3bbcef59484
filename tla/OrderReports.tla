---------------------------- MODULE OrderReports ----------------------------
(***************************************************************************)
(* What the dashboards read from the order tables: turnover by payment     *)
(* method, by period, by client, the status funnel, the heat map, and the  *)
(* couriers' cards.  A report takes the set W of the orders created in its *)
(* window; where the window begins and ends is left open, so a property    *)
(* over all W holds for every pair of dates.  A row is never deactivated:  *)
(* nothing in the code clears is_active of an order.                       *)
(***************************************************************************)
EXTENDS OrderSystem

\* A report without a filter is told apart from one filtered by sale type.
ASSUME FunnelAssumption == None \notin {"DELIVERY", "WAREHOUSE_PICKUP"}

Existing == {o \in Orders : Exists(o)}

CompletedOrders(W) == {o \in W : status[o] \in Settled}

RevenueOf(S) == SumOver(total, S)

\* Every pickup order is created PICKUP_COMPLETED and stays so.
sale_type(o) == IF status[o] = "PICKUP_COMPLETED" THEN "WAREHOUSE_PICKUP" ELSE "DELIVERY"

-----------------------------------------------------------------------------
(* OrderDashboardQueries *)

\* get_orders_summary: open orders of all dates, and the orders of today
get_orders_summary(W) ==
  [active_by_status |-> [s \in {"NEW", "ASSIGNED", "IN_TRANSIT", "ARRIVED"} |->
                           Cardinality({o \in Orders : status[o] = s})],
   unassigned |-> Cardinality({o \in Orders : status[o] = "NEW" /\ courier[o] = None}),
   total      |-> Cardinality(W),
   delivered  |-> Cardinality(CompletedOrders(W)),
   cancelled  |-> Cardinality({o \in W : status[o] = "CANCELLED"}),
   revenue    |-> RevenueOf(CompletedOrders(W)),
   by_sale_type |-> [s \in {"DELIVERY", "WAREHOUSE_PICKUP"} |->
                       Cardinality({o \in W : sale_type(o) = s})]]

\* Mutant: sales over the counter are forgotten.
get_payment_breakdown_DeliveriesOnly(W) ==
  LET of(m) == {o \in W : status[o] = "DELIVERED" /\ pay[o] = m}
      methods == [m \in {"CASH", "CARD", "CONTRACT"} |->
                    [orders_count |-> Cardinality(of(m)), total_amount |-> RevenueOf(of(m))]]
  IN  [methods |-> methods,
       total_orders |-> SumOver([m \in DOMAIN methods |-> methods[m].orders_count], DOMAIN methods),
       total_amount |-> SumOver([m \in DOMAIN methods |-> methods[m].total_amount], DOMAIN methods)]

\* get_payment_breakdown
get_payment_breakdown(W) ==
  LET of(m) == {o \in CompletedOrders(W) : pay[o] = m}
      methods == [m \in {"CASH", "CARD", "CONTRACT"} |->
                    [orders_count |-> Cardinality(of(m)), total_amount |-> RevenueOf(of(m))]]
  IN  [methods |-> methods,
       total_orders |-> SumOver([m \in DOMAIN methods |-> methods[m].orders_count], DOMAIN methods),
       total_amount |-> SumOver([m \in DOMAIN methods |-> methods[m].total_amount], DOMAIN methods)]

\* get_order_trends: period[o] is the day, week or month an order falls into;
\* saleType filters unless None, and C are the clients of the
\* wanted role, or all.
get_order_trends(W, period, saleType, C) ==
  LET rows == {o \in CompletedOrders(W) : saleType \in {None, sale_type(o)} /\ client[o] \in C}
      point(x) == LET at == {o \in rows : period[o] = x}
                  IN  [orders_count |-> Cardinality(at), revenue |-> RevenueOf(at),
                       avg_order_value |-> RevenueOf(at) \div Cardinality(at)]
      points == [x \in {period[o] : o \in rows} |-> point(x)]
  IN  [points |-> points,
       total_orders  |-> SumOver([x \in DOMAIN points |-> points[x].orders_count], DOMAIN points),
       total_revenue |-> SumOver([x \in DOMAIN points |-> points[x].revenue], DOMAIN points)]

\* get_order_funnel
get_order_funnel(W) ==
  LET counts == [s \in Statuses |-> Cardinality({o \in W : status[o] = s})]
  IN  [total |-> SumOver(counts, Statuses), statuses |-> counts]

\* get_order_heatmap: slot[o] is the weekday and hour of creation in Tashkent
get_order_heatmap(W, slot) ==
  LET cells == [x \in {slot[o] : o \in W} |-> Cardinality({o \in W : slot[o] = x})]
  IN  [cells |-> cells,
       max_count |-> IF W = {} THEN 0
                     ELSE CHOOSE n \in {cells[x] : x \in DOMAIN cells} :
                            \A x \in DOMAIN cells : cells[x] <= n]

\* get_top_clients, without the walk-in; the page is the head of this table
get_top_clients(W) ==
  LET of(cl) == {o \in CompletedOrders(W) : client[o] = cl}
  IN  [cl \in {c \in Clients \ {WalkIn} : of(c) # {}} |->
         [orders_count |-> Cardinality(of(cl)), total_amount |-> RevenueOf(of(cl))]]

-----------------------------------------------------------------------------
(* CourierDashboardQueries *)

\* All units of a document, whatever the product.
Pieces(lines) == SumOver(lines, Products)

\* get_fleet: what lies in the vehicle (positive balances only)
vehicle_stock(k) == [p \in {q \in Products : stock[k][q] > 0} |-> stock[k][p]]

\* get_fleet: orders of today that are not cancelled, and those delivered
orders_map(k, W) ==
  LET live == {o \in W : courier[o] = k /\ status[o] # "CANCELLED"}
  IN  [assigned |-> Cardinality(live),
       delivered |-> Cardinality({o \in live : status[o] = "DELIVERED"})]

\* get_fleet: cash that reached the courier's account with an order of T
collected_map(k, T) ==
  LET rows == {t \in Completed(txns) : t.to = k /\ t.order \in T}
  IN  SumOver([t \in rows |-> t.amount], rows)

\* get_fleet: containers in the CLIENT_RETURN documents to the vehicle; only
\* the delivery of an order writes such a document
tara_map(k, T) ==
  SumOver([n \in DOMAIN returns |-> Pieces(returns[n].lines)],
          {n \in DOMAIN returns : returns[n].to = k /\ returns[n].order \in T})

\* get_fleet: the cards and the totals over the fleet.  Every courier of
\* Couriers has an active vehicle; one without has a card of zeros.
get_fleet(W, T) ==
  LET held(k) == SumOver([p \in Products |-> stock[k][p]], DOMAIN vehicle_stock(k))
      owing == {k \in Couriers : balance[k] > 0}
  IN  [couriers |-> [k \in Couriers |->
         [balances |-> vehicle_stock(k), orders |-> orders_map(k, W),
          cash_balance |-> balance[k], cash_collected |-> collected_map(k, T),
          containers_collected |-> tara_map(k, T)]],
       total_active |-> Cardinality(Couriers),
       total_stock_on_couriers |-> SumOver([k \in Couriers |-> held(k)], Couriers),
       total_courier_cash |-> SumOver(balance, owing)]

\* get_courier_load: day[o] is the day of creation
get_courier_load(W, day) ==
  LET rows == {o \in W : status[o] = "DELIVERED" /\ courier[o] # None}
      data == [x \in {<<day[o], courier[o]>> : o \in rows} |->
                 Cardinality({o \in rows : <<day[o], courier[o]>> = x})]
  IN  [data |-> data, total_deliveries |-> SumOver(data, DOMAIN data),
       couriers |-> Cardinality({x[2] : x \in DOMAIN data})]

-----------------------------------------------------------------------------
(* Properties *)

\* The reports that count the orders of W in different ways agree: summary,
\* breakdown, funnel and heat map, and the trend cut into periods, by sale
\* type or by client.
WindowReportsAgree(W) ==
  LET sum    == get_orders_summary(W)
      pays   == get_payment_breakdown(W)
      funnel == get_order_funnel(W)
  IN  /\ sum.total = funnel.total
      /\ sum.delivered = pays.total_orders /\ sum.revenue = pays.total_amount
      /\ sum.delivered = funnel.statuses["DELIVERED"] + funnel.statuses["PICKUP_COMPLETED"]
      /\ \A cut \in [W -> {1, 2}] :
           LET heat  == get_order_heatmap(W, cut)
               trend(y, C) == get_order_trends(W, cut, y, C)
           IN  /\ SumOver(heat.cells, DOMAIN heat.cells) = funnel.total
               /\ heat.max_count <= funnel.total
               /\ trend(None, Clients).total_revenue = pays.total_amount
               /\ trend("DELIVERY", Clients).total_orders
                    + trend("WAREHOUSE_PICKUP", Clients).total_orders = pays.total_orders
               /\ trend(None, {WalkIn}).total_revenue
                    + trend(None, Clients \ {WalkIn}).total_revenue = pays.total_amount

\* The turnover the order tables report is the turnover the money ledger has,
\* for the whole history: all of it was taken from the revenue account; what
\* was paid in cash is with the couriers or in the cash desk; what was paid by
\* card has arrived or is a transfer to the card account that is pending or
\* rejected; what clients other than the walk-in bought is what the list of
\* the best clients shows.  Within any window the reports agree.
TurnoverMatchesLedger ==
  LET all  == get_payment_breakdown(Existing)
      late == {t \in txns : t.to = Card /\ t.status # "COMPLETED"}
      top  == get_top_clients(Existing)
  IN  /\ all.total_amount = -balance[Revenue]
      /\ all.methods["CASH"].total_amount = balance[Cash] + SumOver(balance, Couriers)
      /\ all.methods["CARD"].total_amount
           = balance[Card] + SumOver([t \in late |-> t.amount], late)
      /\ SumOver([cl \in DOMAIN top |-> top[cl].total_amount], DOMAIN top)
           = -balance[Revenue] - RevenueOf(CompletedOrders({o \in Orders : client[o] = WalkIn}))
      /\ \A W \in SUBSET Existing : WindowReportsAgree(W)

\* A courier answers for what his card shows: for the orders of any window,
\* the cash booked to him and the containers of the return documents to his
\* vehicle are those of the orders he delivered, as the order table has them
\* after every correction, reassignment and cancellation; and his vehicle
\* lacks, of each product, what he delivered, and never shows less than
\* nothing.  Loading, unloading and the hand-in of cash are other services'.
FleetMatchesDeliveries ==
  \A T \in SUBSET Existing :
    LET fleet  == get_fleet(T, T)
        load   == get_courier_load(T, [o \in Orders |-> 1])
        funnel == get_order_funnel(T)
        done(S, k) == {o \in S : status[o] = "DELIVERED" /\ courier[o] = k}
        on(k, p) == LET b == fleet.couriers[k].balances
                    IN  IF p \in DOMAIN b THEN b[p] ELSE 0
    IN  /\ load.total_deliveries = funnel.statuses["DELIVERED"]
        /\ \A k \in Couriers :
             LET card == fleet.couriers[k]
             IN  /\ card.cash_collected = SumOver(total, {o \in done(T, k) : pay[o] = "CASH"})
                 /\ card.containers_collected
                      = SumOver([o \in Orders |-> Pieces(ReturnableItems(items[o]))], done(T, k))
                 /\ card.orders.delivered
                      = IF <<1, k>> \in DOMAIN load.data THEN load.data[<<1, k>>] ELSE 0
                 /\ \A p \in Products :
                      on(k, p) = InitStock[k][p]
                        - SumOver([o \in Orders |-> items[o][p]], done(Existing, k))
=============================================================================

--------------------------- MODULE FinanceReports ---------------------------
(***************************************************************************)
(* What the back office reads from the money ledger: account statements,   *)
(* lists with filters and totals, debt and courier reports, and the        *)
(* finance dashboard.  Every query is an operator of the state of Finance. *)
(***************************************************************************)
EXTENDS Finance, Sequences, FiniteSetsExt

CONSTANTS Role,          \* Role[u]: the role of a user
          Excluded,      \* the system user and the walk-in client
          Contracted,    \* clients with an active contract
          DueDays,       \* DueDays[u]: payment_due_days of the client's contract
          AgingLimits,   \* upper limits, in days, of the aging buckets but the last
          WeekLength, MonthLength  \* days of a week and of a month

\* The limits of the aging report are numbers of days (7, 14, 30 and 60).
ASSUME AgingAssumption == AgingLimits \in Seq(Nat) /\ Len(AgingLimits) >= 1

\* None is the missing value of a filter, and no value of any field.
ASSUME FilterAssumption ==
  /\ None \notin Accounts \union TxnStatuses /\ None \notin Int
  /\ None \notin {"incoming", "outgoing", "internal", "yesterday", "today"}

DayOf(n) == n \div 2
Start(d) == 2 * d
today == DayOf(now)

Amount(rows) == SumOver(AmountOf(rows), rows)
BalanceOf(A) == SignedSum(balance, A)

-----------------------------------------------------------------------------
(* The statement of an account *)

\* Mutant: the first instant of the period counts twice.
get_opening_balance_data_Inclusive(a, from) ==
  LET rows == {t \in txns : t.at <= Start(from)}
  IN  AmountIn(rows, a) - AmountOut(rows, a)

\* get_opening_balance_data: what was completed before the first day
get_opening_balance_data(a, from) ==
  LET rows == {t \in txns : t.at < Start(from)}
  IN  AmountIn(rows, a) - AmountOut(rows, a)

\* get_account_transactions_in_period up to 23:59:59 of the last day; rows
\* skip+1 .. skip+limit by creation
get_account_transactions_in_period(a, from, to, skip, limit) ==
  LET rows == {t \in Completed(txns) : a \in {t.from, t.to} /\ t.at \in Start(from)..Start(to)}
      Place(t) == Cardinality({u \in rows : u.id <= t.id})
  IN  {t \in rows : Place(t) \in skip+1 .. skip+limit}

\* get_account_statement: balances run from the opening balance over the page
get_account_statement(a, from, to, skip, limit) ==
  LET opening == get_opening_balance_data(a, from)
      page    == get_account_transactions_in_period(a, from, to, skip, limit)
      Running(rows) == opening + Amount({t \in rows : t.to = a}) - Amount({t \in rows : t.to # a})
  IN  [opening |-> opening, closing |-> Running(page),
       running |-> [t \in page |-> Running({u \in page : u.id <= t.id})]]

\* What the ledger says the balance was after row t.
LedgerAfter(a, t) ==
  LET rows == {u \in txns : u.id <= t.id} IN AmountIn(rows, a) - AmountOut(rows, a)

-----------------------------------------------------------------------------
(* Lists with filters: a field that is None does not filter *)

NoTransactionFilter ==
  [status |-> None, account |-> None, direction |-> None, from_account |-> None,
   to_account |-> None, from_type |-> None, to_type |-> None, order |-> None, has_order |-> None,
   user |-> None, verified |-> None, amount_eq |-> None, amount_from |-> None,
   amount_to |-> None, preset |-> None, date_from |-> None, date_to |-> None]

\* _validate_transaction_filter
TransactionFilterValid(f) ==
  /\ f.amount_eq # None => f.amount_from = None /\ f.amount_to = None
  /\ f.amount_from # None /\ f.amount_to # None => f.amount_from <= f.amount_to
  /\ f.preset # None => f.date_from = None /\ f.date_to = None
  /\ f.date_from # None /\ f.date_to # None => f.date_from <= f.date_to

\* _resolve_date_preset: the window of a preset, both ends included
PresetWindow(preset) ==
  LET week  == WeekLength * (today \div WeekLength)
      month == MonthLength * (today \div MonthLength)
  IN  CASE preset = "today"      -> <<Start(today), Start(today + 1)>>
        [] preset = "yesterday"  -> <<Start(today - 1), Start(today)>>
        [] preset = "this_week"  -> <<Start(week), Start(week + WeekLength)>>
        [] preset = "last_week"  -> <<Start(week - WeekLength), Start(week)>>
        [] preset = "this_month" -> <<Start(month), Start(month + MonthLength)>>
        [] preset = "last_month" -> <<Start(month - MonthLength), Start(month)>>

resolve_date_preset(f) ==
  IF f.preset = None THEN f
  ELSE [f EXCEPT !.preset = None, !.date_from = PresetWindow(f.preset)[1],
                 !.date_to = PresetWindow(f.preset)[2]]

\* _apply_transaction_filters: parties, order, verification, amount and time
PartiesMatch(f, t) ==
  /\ f.account # None =>
       CASE f.direction = "incoming" -> t.to = f.account
         [] f.direction = "outgoing" -> t.from = f.account
         [] f.direction = "internal" -> t.from = f.account /\ t.to = f.account
         [] OTHER -> f.account \in {t.from, t.to}
  /\ f.from_account \in {None, t.from} /\ f.to_account \in {None, t.to}
  /\ f.from_type \in {None, AccountType[t.from]} /\ f.to_type \in {None, AccountType[t.to]}
  /\ f.user \in {None, Owner[t.from], Owner[t.to]}

ValuesMatch(f, t) ==
  /\ f.status \in {None, t.status}
  /\ f.order \in {None, t.order} /\ f.has_order \in {None, t.order # None}
  /\ f.verified \in {None, t.verified} /\ f.amount_eq \in {None, t.amount}
  /\ f.amount_from # None => t.amount >= f.amount_from
  /\ f.amount_to # None => t.amount <= f.amount_to
  /\ f.date_from # None => t.at >= f.date_from
  /\ f.date_to # None => t.at <= f.date_to

\* get_transactions_with_filters, all pages
get_transactions(f) ==
  LET g == resolve_date_preset(f) IN {t \in txns : PartiesMatch(g, t) /\ ValuesMatch(g, t)}

\* get_transactions_summary selects columns of transactions FROM the filtered
\* subquery: every filtered row meets every row of the table.
get_transactions_summary(f) ==
  LET n == Cardinality(get_transactions(f))
  IN  [sum_amount |-> n * Amount(txns),
       count_by_status |-> [s \in TxnStatuses |-> n * Cardinality({t \in txns : t.status = s})]]

NoAccountFilter ==
  [type |-> None, user |-> None, role |-> None, balance_from |-> None, balance_to |-> None,
   is_in_credit |-> None, zero_balance |-> FALSE, has_debt |-> FALSE]

\* _apply_account_filters
get_accounts(f) ==
  {a \in Accounts :
     /\ f.type \in {None, AccountType[a]} /\ f.user \in {None, Owner[a]}
     /\ f.role \in {None, Role[Owner[a]]}
     /\ f.balance_from # None => balance[a] >= f.balance_from
     /\ f.balance_to # None => balance[a] <= f.balance_to
     /\ f.is_in_credit \in {None, balance[a] < 0}
     /\ f.zero_balance => balance[a] = 0
     /\ f.has_debt => AccountType[a] = "client" /\ balance[a] > 0}

get_accounts_summary(f) ==
  [sum_balance   |-> BalanceOf(get_accounts(f)),
   count_by_type |-> [y \in Types |-> Cardinality({a \in get_accounts(f) : AccountType[a] = y})]]

-----------------------------------------------------------------------------
(* Reports *)

\* Mutant: money the clients have paid in advance is set off.
get_total_client_debt_Net == BalanceOf(Having("client"))

get_total_client_debt == BalanceOf({a \in Having("client") : balance[a] > 0})

get_total_courier_cash == BalanceOf({a \in Having("courier") : balance[a] > 0})

\* get_dashboard, with get_pending_card_total, get_pending_count, _get_b2b_totals
get_dashboard ==
  [total_revenue      |-> -BalanceOf(Having("revenue")),
   total_cash_in_hand |-> BalanceOf(Having("cash")),
   total_card_pending |-> Amount({t \in txns : AccountType[t.to] = "card" /\ t.status = "PENDING"}),
   total_client_debt  |-> get_total_client_debt,
   total_courier_cash |-> get_total_courier_cash,
   total_b2b_debt     |-> BalanceOf({a \in Having("client") : Owner[a] \in Contracted}),
   pending_count      |-> Cardinality({t \in txns : t.status = "PENDING"})]

\* get_b2b_contract_debts: a line per contract; overdue when nothing is granted
get_b2b_contract_debts ==
  LET items == {a \in Having("client") : Owner[a] \in Contracted}
  IN  [items |-> [a \in items |-> [balance |-> balance[a],
                                   overdue |-> balance[a] > 0 /\ DueDays[Owner[a]] = 0]],
       total_debt |-> BalanceOf(items)]

\* get_client_debts and get_client_debtors, all pages
get_client_debts(min) ==
  LET debtors == {a \in Having("client") : balance[a] > 0 /\ (min > 0 => balance[a] >= min)}
  IN  [total_debt |-> get_total_client_debt, debtors_count |-> Cardinality(debtors),
       clients |-> [a \in debtors |-> balance[a]]]

get_today_transactions_for_account(a) ==
  {t \in Completed(txns) : a \in {t.from, t.to} /\ t.at >= Start(today)}

\* get_couriers_summary
get_couriers_summary ==
  LET day(a) == get_today_transactions_for_account(a)
  IN  [couriers |-> [a \in Having("courier") |->
         [cash_balance |-> balance[a],
          today_collected |-> Amount({t \in day(a) : t.to = a}),
          today_deposited |-> Amount({t \in day(a) : t.from = a})]],
       total_courier_cash |-> BalanceOf({a \in Having("courier") : balance[a] > 0})]

-----------------------------------------------------------------------------
(* The finance dashboard *)

Sales(from, to) == {s \in sales : s.created \in Start(from) .. Start(to + 1) - 1}
Total(S) == SumOver([s \in S |-> s.total], S)

\* get_revenue_trend: a point per day with sales, and the period before
get_revenue_trend(from, to) ==
  LET S == Sales(from, to)
      Of(d) == {s \in S : DayOf(s.created) = d}
  IN  [points |-> [d \in {DayOf(s.created) : s \in S} |->
                     [revenue |-> Total(Of(d)), orders |-> Cardinality(Of(d))]],
       total_revenue |-> Total(S), total_orders |-> Cardinality(S),
       previous |-> Total(Sales(from - (to - from) - 1, from - 1))]

get_payment_methods(from, to) ==
  [m \in {s.method : s \in Sales(from, to)} |-> Total({s \in Sales(from, to) : s.method = m})]

get_revenue_by_segment(from, to) ==
  [r \in {"CLIENT_B2B", "CLIENT_B2C"} |->
     Total({s \in Sales(from, to) : Role[s.client] = r /\ s.client \notin Excluded})]

\* Instants since the last payment of the account, or since it was opened.
SinceLastPayment(a) ==
  now - Max({0} \union {t.at : t \in {u \in Completed(txns) : u.from = a}})

Debtors == {a \in Having("client") : balance[a] > 0 /\ Owner[a] \notin Excluded}

\* get_debt_aging: the bucket of a debtor, and the totals
Bucket(a) ==
  Min({n \in 1..Len(AgingLimits) : SinceLastPayment(a) <= Start(AgingLimits[n])}
        \union {Len(AgingLimits) + 1})

get_debt_aging ==
  LET amount(n) == BalanceOf({a \in Debtors : Bucket(a) = n})
      labels == {Bucket(a) : a \in Debtors}
  IN  [buckets |-> [n \in labels |-> amount(n)],
       total_debt |-> SignedSum([n \in labels |-> amount(n)], labels),
       total_debtors |-> Cardinality(Debtors)]

\* get_top_debtors: no smaller debt is listed while a larger one is left out.
get_top_debtors(limit) ==
  [lists |-> {L \in SUBSET Debtors :
                /\ Cardinality(L) = Min({limit, Cardinality(Debtors)})
                /\ \A a \in L, b \in Debtors \ L : balance[a] >= balance[b]},
   total_debt |-> BalanceOf(Debtors)]

\* get_summary_kpis: the counts and sums the rates are computed from
get_summary_kpis(from, to) ==
  LET S == Sales(from, to)
      rows == {t \in txns : t.at \in Start(from) .. Start(to + 1) - 1}
      card(s) == Cardinality({t \in rows : AccountType[t.to] = "card" /\ t.status \in s})
  IN  [total_orders |-> Cardinality(S), total_revenue |-> Total(S),
       avg_order_value |-> IF S = {} THEN 0 ELSE Total(S) \div Cardinality(S),
       card_total |-> card(TxnStatuses), card_confirmed |-> card({"COMPLETED"}),
       card_rejected |-> card({"REJECTED"}),
       collected |-> Amount({t \in Completed(rows) : AccountType[t.to] = "courier"}),
       deposited |-> Amount({t \in Completed(rows) : AccountType[t.from] = "courier"}),
       debt |-> BalanceOf(Debtors),
       overdue |-> BalanceOf({a \in Debtors : SinceLastPayment(a) > Start(AgingLimits[1])})]

-----------------------------------------------------------------------------
(* Properties *)

\* A statement that runs until now closes at the account's balance, and every
\* line shows the balance the ledger had after it, from whichever day the
\* statement starts: opening balance and period split the ledger without
\* gap or overlap.
StatementCloses ==
  now = Start(today) =>
    \A a \in Accounts, from \in 0..today :
      LET s == get_account_statement(a, from, today, 0, MaxTxns)
      IN  s.closing = balance[a] /\ \A t \in DOMAIN s.running : s.running[t] = LedgerAfter(a, t)

\* The balance of a courier is what he had at midnight and what he collected
\* and handed in today, and the totals of all couriers are the dashboard's.
CourierDayAddsUp ==
  LET r == get_couriers_summary
  IN  /\ \A a \in Having("courier") :
           r.couriers[a].cash_balance = get_opening_balance_data(a, today)
             + r.couriers[a].today_collected - r.couriers[a].today_deposited
      /\ r.total_courier_cash = get_dashboard.total_courier_cash
      /\ LET k == get_summary_kpis(0, today)
         IN  BalanceOf(Having("courier")) = k.collected - k.deposited

\* Debt is reported in six places by different queries; they agree up to the
\* walk-in account, which the dashboard leaves out.
DebtFiguresAgree ==
  LET walkin == BalanceOf({a \in Having("client") : balance[a] > 0 /\ Owner[a] \in Excluded})
      debts  == get_client_debts(0)
      aging  == get_debt_aging
      kpis   == get_summary_kpis(0, today)
      dash   == get_dashboard
  IN  /\ dash.total_client_debt = SignedSum(debts.clients, DOMAIN debts.clients)
      /\ debts.total_debt = get_accounts_summary([NoAccountFilter EXCEPT !.has_debt = TRUE]).sum_balance
      /\ debts.total_debt = aging.total_debt + walkin
      /\ aging.total_debt = get_top_debtors(1).total_debt /\ kpis.debt = aging.total_debt
      /\ kpis.overdue = aging.total_debt - (IF 1 \in DOMAIN aging.buckets THEN aging.buckets[1] ELSE 0)
      /\ get_b2b_contract_debts.total_debt = dash.total_b2b_debt

\* Turnover computed from the orders is what the settlements charged in the
\* ledger, and it is split by day and method without remainder.  The segments
\* leave out only excluded users and users who are no longer clients.
RevenueFiguresAgree ==
  LET trend == get_revenue_trend(0, today)
      methods == get_payment_methods(0, today)
      segments == get_revenue_by_segment(0, today)
      outside == {s \in sales : \/ s.client \in Excluded
                                \/ Role[s.client] \notin {"CLIENT_B2B", "CLIENT_B2C"}}
  IN  /\ trend.total_revenue = Amount({t \in txns : t.kind = "debt"})
      /\ trend.total_revenue = SumOver(methods, DOMAIN methods)
      /\ trend.total_revenue - Total(outside) = segments["CLIENT_B2B"] + segments["CLIENT_B2C"]
      /\ \A d \in 1..today : get_revenue_trend(d, d).previous = get_revenue_trend(d-1, d-1).total_revenue

\* The closing balance of a day misses exactly what was posted in its last
\* second: the period ends at 23:59:59, the next one opens at midnight.
StatementsJoin ==
  \A a \in Accounts, d \in 0..today-1 :
    LET late == {t \in txns : t.at = Start(d) + 1}
    IN  get_account_statement(a, 0, d, 0, MaxTxns).closing + AmountIn(late, a) - AmountOut(late, a)
          = get_account_statement(a, d + 1, d + 1, 0, MaxTxns).opening

\* The balance an account had at the start of today changes later only when
\* a payment of an earlier day is verified (it is booked on its own day).
PastChangesOnlyByVerification ==
  [][\/ today' # today
     \/ \A a \in Accounts : get_opening_balance_data(a, today)' = get_opening_balance_data(a, today)
     \/ \E t \in txns \ txns' : t.status = "PENDING" /\ t.at < Start(today)]_finVars

\* The filtered list explains the balances: what it shows as COMPLETED in and
\* out of an account is its balance.  The presets "yesterday" and "today"
\* together list the rows of both days, and only a row of midnight twice.  A
\* range of amounts lists what its amounts do, a refused one would list nothing.
\* Of the list's summary, a product with the whole table, nothing is claimed.
ListExplainsBalance ==
  /\ \A a \in Accounts :
       LET f == [NoTransactionFilter EXCEPT !.account = a, !.status = "COMPLETED"]
           In  == get_transactions([f EXCEPT !.direction = "incoming"])
           Out == get_transactions([f EXCEPT !.direction = "outgoing"])
       IN  balance[a] = Amount(In) - Amount(Out) /\ In \union Out = get_transactions(f)
  /\ LET day(preset) == get_transactions([NoTransactionFilter EXCEPT !.preset = preset])
     IN  /\ day("yesterday") \union day("today") = {t \in txns : t.at >= Start(today - 1)}
         /\ day("yesterday") \intersect day("today") = {t \in txns : t.at = Start(today)}
  /\ \A lo, hi \in 1..MaxAmount :
       LET f == [NoTransactionFilter EXCEPT !.amount_from = lo, !.amount_to = hi]
           only(n) == get_transactions([NoTransactionFilter EXCEPT !.amount_eq = n])
       IN  IF TransactionFilterValid(f) THEN get_transactions(f) = UNION {only(n) : n \in lo..hi}
           ELSE get_transactions(f) = {}

\* What the service reports of an account is what the ledger says: statements
\* open and close right, adjacent ones join, filtered lists explain balances.
StatementsAddUp == StatementCloses /\ StatementsJoin /\ ListExplainsBalance

\* The figures that dashboards and reports compute by queries of their own
\* agree with each other and with the ledger.
DashboardAgrees == CourierDayAddsUp /\ DebtFiguresAgree /\ RevenueFiguresAgree
=============================================================================

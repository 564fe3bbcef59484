---------------------------- MODULE MCOrderSystem ----------------------------
(* Small instances of OrderSystem and its reports. *)
EXTENDS OrderReports, OrderDeals, TLC

CONSTANTS firm, walkin, k1, k2, water, tare

\* One client besides the walk-in, who owns every contract.
MCInventories  == {firm, walkin, Warehouse, Vendor} \union Couriers
MCAccounts     == {firm, walkin, Revenue, Cash, Card} \union Couriers
MCVirtual      == {Vendor}
MCOwner        == [c \in Contracts |-> firm]

\* Goods without containers, or water in a returnable container.
NoContainers   == [p \in Products |-> NoProduct]
WaterInTare    == [p \in Products |-> IF p = water THEN tare ELSE NoProduct]

MCCatalogPrice == [p \in Products |-> IF p = water THEN 2 ELSE 1]

\* Units of a product in one order.
OneUnit        == [p \in Products |-> 1]
TwoUnits       == [p \in Products |-> 2]
TwoWaters      == [p \in Products |-> IF p = water THEN 2 ELSE 1]

\* Enough of everything, or one unit of each product per vehicle and warehouse.
AmpleStock     == [i \in Couriers \union {Warehouse} |-> [p \in Products |-> 4]]
ScarceStock    == [i \in Couriers \union {Warehouse} |-> [p \in Products |-> 1]]

\* Terms of price items: one price without a limit, two prices with limits of
\* their own, or two limits at one price.  With one order, one contract with a
\* price list is enough: the one that has an end date.
MCOnePrice     == [c \in Contracts |-> {<<1, 0>>}]
MCTwoPrices    == [c \in Contracts |-> IF c \in Dated THEN {<<1, 1>>, <<2, 2>>} ELSE {}]
MCTwoLimits    == [c \in Contracts |-> {<<1, 1>>, <<1, 2>>}]

\* Order ids are interchangeable, and so are couriers with equal vehicles.
OrderSymmetry == Permutations(Orders) \union Permutations(Couriers)
=============================================================================

---------------------------- MODULE MCInventory ----------------------------
(* Small instances of the inventory service and its reports. *)
EXTENDS StockReports, TLC

CONSTANTS w1, w2, v1, v2, a1, a2, keeper, driver, cl, water, tare, north, northeast

MCVirtual == {Vendor, Loss}
MCReturnable == [p \in Products |-> IF p = water THEN tare ELSE NoProduct]
MCProductType == [p \in Products |-> IF p = water THEN "WATER" ELSE "CONTAINER"]

\* A warehouse, a vehicle and two addresses of one client; the rest is new.
MCInitInv == [i \in Inventories |->
  CASE i = w1 -> Row("WAREHOUSE", keeper, north)
    [] i = v1 -> Row("COURIER", driver, None)
    [] i \in {a1, a2} -> Row("CLIENT", cl, None)
    [] OTHER -> None]

\* The name north is contained in northeast.
MCContains == [n \in Names |-> IF n = north THEN Names ELSE {n}]

\* Requests are interchangeable.
RequestSymmetry == Permutations(Requests)
=============================================================================

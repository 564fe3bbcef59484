---------------------------- MODULE DealTheorems ----------------------------
(* The promise of Deals, for any set of deals. *)
EXTENDS Deals, TLAPS

DealInv == DealTypeOK /\ BilledOnce

\* The invariant holds initially.
LEMMA DealInit == Init => DealInv
BY DEF Init, DealInv, DealTypeOK, BilledOnce, BillsOf

\* Every step keeps it.
LEMMA DealNext ==
  ASSUME DealInv, [Next]_dealVars
  PROVE  DealInv'
<1>1. ASSUME NEW d \in Deal, Open(d) PROVE DealInv'
  BY <1>1 DEF Open, DealInv, DealTypeOK, BilledOnce, BillsOf
<1>2. ASSUME NEW d \in Deal, Close(d) PROVE DealInv'
  <2>1. PICK b \in bills' : b.order = d /\ bills' = bills \union {b} /\ b \notin bills
    BY <1>2 DEF Close
  <2>2. BillsOf(d)' = {b}
    BY <1>2, <2>1 DEF Close, DealInv, BilledOnce, BillsOf
  <2>3. ASSUME NEW x \in Deal, x # d PROVE BillsOf(x)' = BillsOf(x) /\ phase'[x] = phase[x]
    BY <1>2, <2>1, <2>3 DEF Close, DealInv, DealTypeOK, BillsOf
  <2>4. phase'[d] = "done" /\ DealTypeOK'
    BY <1>2 DEF Close, DealInv, DealTypeOK
  <2> QED
    BY <2>2, <2>3, <2>4 DEF DealInv, BilledOnce
<1>3. ASSUME NEW S \in SUBSET Deal, Drop(S) PROVE DealInv'
  BY <1>3 DEF Drop, DealInv, DealTypeOK, BilledOnce, BillsOf
<1>4. CASE UNCHANGED dealVars
  BY <1>4 DEF dealVars, DealInv, DealTypeOK, BilledOnce, BillsOf
<1> QED
  BY <1>1, <1>2, <1>3, <1>4 DEF Next

\* A deal that is done was billed exactly once, any other never.
THEOREM DealsBilledOnce == Spec => []BilledOnce
<1>1. DealInv => BilledOnce
  BY DEF DealInv
<1> QED
  BY <1>1, DealInit, DealNext, PTL DEF Spec
=============================================================================

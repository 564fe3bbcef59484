-------------------------------- MODULE Sums --------------------------------
(***************************************************************************)
(* Sums of natural numbers over a finite set, as the number of units they  *)
(* stand for: x contributes the f[x] pairs <<x, 1>> .. <<x, f[x]>>.  Stated *)
(* with Cardinality so that facts about sums follow from the library's     *)
(* theorems about finite sets.                                             *)
(***************************************************************************)
EXTENDS Integers, FiniteSets

Units(f, S) == UNION {{x} \X (1..f[x]) : x \in S}

SumOver(f, S) == Cardinality(Units(f, S))

\* Sums of integers: what is added less what is taken away.
SignedSum(f, S) ==
  SumOver([x \in S |-> IF f[x] > 0 THEN f[x] ELSE 0], S)
    - SumOver([x \in S |-> IF f[x] < 0 THEN -f[x] ELSE 0], S)
=============================================================================

---------------------------- MODULE SumTheorems ----------------------------
(***************************************************************************)
(* Facts about the sums of module Sums, from the library's facts about     *)
(* finite sets, and about what the trigger of AccountLedger posts.         *)
(***************************************************************************)
EXTENDS AccountLedger, FiniteSetTheorems, TLAPS

\* Every summand is a natural number.
IsSummable(f, S) == IsFiniteSet(S) /\ \A x \in S : f[x] \in Nat

\* The units behind a sum form a finite set.
LEMMA UnitsFinite ==
  ASSUME NEW f, NEW S, IsSummable(f, S)
  PROVE  IsFiniteSet(Units(f, S))
<1> DEFINE Row(x) == {x} \X (1..f[x])
           T == {Row(x) : x \in S}
           g == [x \in S |-> Row(x)]
<1>1. \A x \in S : IsFiniteSet(Row(x))
  <2> SUFFICES ASSUME NEW x \in S PROVE IsFiniteSet(Row(x))
    OBVIOUS
  <2>1. IsFiniteSet({x})
    BY FS_Singleton
  <2>2. f[x] \in Nat /\ 1 \in Int /\ f[x] \in Int
    BY DEF IsSummable
  <2>3. IsFiniteSet(1..f[x])
    BY <2>2, FS_Interval
  <2> QED
    BY <2>1, <2>3, FS_Product
<1>2. g \in Surjection(S, T)
  BY DEF Surjection
<1>3. IsFiniteSet(T)
  BY <1>2, FS_Surjection DEF IsSummable
<1>4. \A U \in T : IsFiniteSet(U)
  BY <1>1
<1>5. IsFiniteSet(UNION T)
  BY <1>3, <1>4, FS_UNION
<1> QED
  BY <1>5 DEF Units

\* A sum is a natural number.
LEMMA SumNat ==
  ASSUME NEW f, NEW S, IsSummable(f, S)
  PROVE  SumOver(f, S) \in Nat
BY UnitsFinite, FS_CardinalityType DEF SumOver

\* The empty sum is zero.
LEMMA SumEmpty ==
  ASSUME NEW f
  PROVE  SumOver(f, {}) = 0
<1>1. Units(f, {}) = {}
  BY DEF Units
<1> QED
  BY <1>1, FS_EmptySet DEF SumOver

\* A sum depends on the summands only.
LEMMA SumSame ==
  ASSUME NEW f, NEW g, NEW S, \A x \in S : f[x] = g[x]
  PROVE  SumOver(f, S) = SumOver(g, S)
<1>1. Units(f, S) = Units(g, S)
  BY DEF Units
<1> QED
  BY <1>1 DEF SumOver

\* Sums over disjoint sets add up.
LEMMA SumDisjoint ==
  ASSUME NEW f, NEW S, NEW T, IsSummable(f, S), IsSummable(f, T), S \intersect T = {}
  PROVE  SumOver(f, S \union T) = SumOver(f, S) + SumOver(f, T)
<1>1. Units(f, S \union T) = Units(f, S) \union Units(f, T)
  BY DEF Units
<1>2. Units(f, S) \intersect Units(f, T) = {}
  BY DEF Units
<1>3. IsFiniteSet(Units(f, S)) /\ IsFiniteSet(Units(f, T))
  BY UnitsFinite
<1>4. Cardinality(Units(f, S) \intersect Units(f, T)) = 0
  BY <1>2, FS_EmptySet
<1>5. Cardinality(Units(f, S)) \in Nat /\ Cardinality(Units(f, T)) \in Nat
  BY <1>3, FS_CardinalityType
<1>6. Cardinality(Units(f, S) \union Units(f, T))
        = Cardinality(Units(f, S)) + Cardinality(Units(f, T)) - 0
  BY <1>3, <1>4, FS_Union
<1>7. \A m, n \in Nat : m + n - 0 = m + n
  OBVIOUS
<1>8. Cardinality(Units(f, S) \union Units(f, T))
        = Cardinality(Units(f, S)) + Cardinality(Units(f, T))
  BY <1>5, <1>6, <1>7, Zenon
<1> QED
  BY <1>1, <1>8, Zenon DEF SumOver

\* The sum over one element is its summand.
LEMMA SumSingleton ==
  ASSUME NEW f, NEW x, f[x] \in Nat
  PROVE  SumOver(f, {x}) = f[x]
<1>1. Units(f, {x}) = {x} \X (1..f[x])
  BY DEF Units
<1>2. IsFiniteSet({x}) /\ Cardinality({x}) = 1
  BY FS_Singleton
<1>3. IsFiniteSet(1..f[x]) /\ Cardinality(1..f[x]) = f[x]
  BY FS_Interval
<1>4. Cardinality({x} \X (1..f[x])) = Cardinality({x}) * Cardinality(1..f[x])
  BY <1>2, <1>3, FS_Product, Zenon
<1>5. Cardinality({x} \X (1..f[x])) = 1 * f[x]
  BY <1>2, <1>3, <1>4, Zenon
<1>6. 1 * f[x] = f[x]
  OBVIOUS
<1>7. Cardinality({x} \X (1..f[x])) = f[x]
  BY <1>5, <1>6, Zenon
<1> QED
  BY <1>1, <1>7, Zenon DEF SumOver

\* One element more, or one less.
LEMMA SumAdd ==
  ASSUME NEW f, NEW S, NEW x, IsSummable(f, S \union {x}), x \notin S
  PROVE  SumOver(f, S \union {x}) = SumOver(f, S) + f[x]
<1>1. IsSummable(f, S) /\ IsSummable(f, {x}) /\ S \intersect {x} = {}
  <2>1. IsFiniteSet(S)
    BY FS_Subset, S \subseteq S \union {x} DEF IsSummable
  <2>2. IsFiniteSet({x})
    BY FS_Singleton
  <2> QED
    BY <2>1, <2>2 DEF IsSummable
<1>2. f[x] \in Nat
  BY DEF IsSummable
<1> QED
  BY <1>1, <1>2, SumDisjoint, SumSingleton

\* A sum is the sum over a part and the sum over the rest.
LEMMA SumSplit ==
  ASSUME NEW f, NEW S, NEW T, IsSummable(f, S), T \subseteq S
  PROVE  /\ SumOver(f, S) = SumOver(f, T) + SumOver(f, S \ T)
         /\ SumOver(f, T) \in Nat /\ SumOver(f, S \ T) \in Nat
<1>1. IsFiniteSet(T) /\ IsFiniteSet(S \ T)
  BY FS_Subset, S \ T \subseteq S DEF IsSummable
<1>2. IsSummable(f, T) /\ IsSummable(f, S \ T)
  BY <1>1 DEF IsSummable
<1>3. T \intersect (S \ T) = {} /\ T \union (S \ T) = S
  OBVIOUS
<1>4. SumOver(f, T \union (S \ T)) = SumOver(f, T) + SumOver(f, S \ T)
  BY <1>2, <1>3, SumDisjoint
<1> QED
  BY <1>2, <1>3, <1>4, SumNat

\* Only the elements with something to add count.
LEMMA SumPart ==
  ASSUME NEW f, NEW g, NEW S, NEW T, T \subseteq S,
         \A x \in T : g[x] = f[x], \A x \in S \ T : g[x] = 0
  PROVE  SumOver(g, S) = SumOver(f, T)
<1>1. \A x \in S \ T : 1..g[x] = {}
  OBVIOUS
<1>2. Units(g, S) = Units(f, T)
  BY <1>1 DEF Units
<1> QED
  BY <1>2 DEF SumOver

\* A summand is a part of the sum.
LEMMA SumMember ==
  ASSUME NEW f, NEW S, NEW x \in S, IsSummable(f, S)
  PROVE  f[x] \in Nat /\ SumOver(f, S) \in Nat /\ f[x] <= SumOver(f, S)
<1>1. PICK T : T = {x}
  OBVIOUS
<1>2. f[x] \in Nat /\ T \subseteq S
  BY <1>1 DEF IsSummable
<1>3. /\ SumOver(f, S) = SumOver(f, T) + SumOver(f, S \ T)
      /\ SumOver(f, T) \in Nat /\ SumOver(f, S \ T) \in Nat
  BY <1>2, SumSplit
<1>4. SumOver(f, T) = f[x]
  BY <1>1, <1>2, SumSingleton
<1> QED
  BY <1>2, <1>3, <1>4

\* From f to g the sum over S changes by as much as the summand of x.
SumMoves(f, g, S, x) ==
  /\ f[x] \in Nat /\ g[x] \in Nat /\ SumOver(f, S) \in Nat /\ f[x] <= SumOver(f, S)
  /\ SumOver(g, S) = SumOver(f, S) - f[x] + g[x]

\* One summand changes.
LEMMA SumChange ==
  ASSUME NEW f, NEW g, NEW S, NEW x \in S, IsSummable(f, S), g[x] \in Nat,
         \A y \in S : y # x => g[y] = f[y]
  PROVE  SumMoves(f, g, S, x)
<1>1. /\ f[x] \in Nat /\ SumOver(f, S) \in Nat /\ f[x] <= SumOver(f, S)
      /\ IsSummable(g, S)
  BY SumMember DEF IsSummable
<1>2. /\ SumOver(f, S) = SumOver(f, {x}) + SumOver(f, S \ {x})
      /\ SumOver(f, S \ {x}) \in Nat
  BY SumSplit
<1>3. SumOver(g, S) = SumOver(g, {x}) + SumOver(g, S \ {x})
  BY <1>1, SumSplit
<1>4. SumOver(g, S \ {x}) = SumOver(f, S \ {x})
  BY SumSame
<1>5. SumOver(f, {x}) = f[x] /\ SumOver(g, {x}) = g[x]
  BY <1>1, SumSingleton
<1> QED
  BY <1>1, <1>2, <1>3, <1>4, <1>5 DEF SumMoves

\* A sum may be taken over other names for the same summands.
LEMMA SumReindex ==
  ASSUME NEW f, NEW g, NEW S, NEW T, NEW h \in [S -> T], IsSummable(f, S),
         \A x, y \in S : h[x] = h[y] => x = y,
         \A z \in T : \E x \in S : h[x] = z,
         \A x \in S : g[h[x]] = f[x]
  PROVE  SumOver(f, S) = SumOver(g, T)
<1> DEFINE U == Units(f, S)
           V == Units(g, T)
           b == [u \in U |-> <<h[u[1]], u[2]>>]
<1>1. \A u : u \in U <=> \E x \in S : \E i \in 1..f[x] : u = <<x, i>>
  BY DEF Units
<1>2. \A u : u \in V <=> \E z \in T : \E i \in 1..g[z] : u = <<z, i>>
  BY DEF Units
<1>3. IsFiniteSet(U)
  BY UnitsFinite
<1>4. SumOver(f, S) = Cardinality(U) /\ SumOver(g, T) = Cardinality(V)
  BY DEF SumOver
<1> HIDE DEF U, V
<1>5. b \in [U -> V]
  <2> SUFFICES ASSUME NEW u \in U PROVE <<h[u[1]], u[2]>> \in V
    OBVIOUS
  <2>0. PICK x \in S : \E i \in 1..f[x] : u = <<x, i>>
    BY <1>1
  <2>1. PICK i \in 1..f[x] : u = <<x, i>>
    BY <2>0
  <2>2. h[x] \in T /\ i \in 1..g[h[x]] /\ <<h[u[1]], u[2]>> = <<h[x], i>>
    BY <2>1
  <2> QED
    BY <1>2, <2>2
<1>6. \A u, w \in U : b[u] = b[w] => u = w
  <2> SUFFICES ASSUME NEW u \in U, NEW w \in U, b[u] = b[w] PROVE u = w
    OBVIOUS
  <2>0. PICK x \in S : \E i \in 1..f[x] : u = <<x, i>>
    BY <1>1
  <2>1. PICK i \in 1..f[x] : u = <<x, i>>
    BY <2>0
  <2>2. PICK y \in S : \E j \in 1..f[y] : w = <<y, j>>
    BY <1>1
  <2>3. PICK j \in 1..f[y] : w = <<y, j>>
    BY <2>2
  <2>4. h[x] = h[y] /\ i = j
    BY <2>1, <2>3
  <2> QED
    BY <2>1, <2>4, <2>3
<1>7. \A v \in V : \E u \in U : b[u] = v
  <2> SUFFICES ASSUME NEW v \in V PROVE \E u \in U : b[u] = v
    OBVIOUS
  <2>0. PICK z \in T : \E i \in 1..g[z] : v = <<z, i>>
    BY <1>2
  <2>1. PICK i \in 1..g[z] : v = <<z, i>>
    BY <2>0
  <2>2. PICK x \in S : h[x] = z
    OBVIOUS
  <2>3. <<x, i>> \in U
    BY <1>1, <2>1, <2>2
  <2>4. b[<<x, i>>] = v
    BY <2>1, <2>2, <2>3
  <2> QED
    BY <2>3, <2>4
<1>8. b \in Bijection(U, V)
  BY <1>5, <1>6, <1>7 DEF Bijection, Injection, Surjection, IsInjective
<1>9. Cardinality(V) = Cardinality(U)
  BY <1>3, <1>8, FS_Bijection DEF ExistsBijection
<1> QED
  BY <1>4, <1>9

-----------------------------------------------------------------------------
(* Sums of sums *)

\* Induction over the subsets of a finite set: what holds of the empty set and
\* survives one more element holds of the whole set.  W is the set of subsets
\* it holds of; otherwise a smallest subset outside W has a predecessor.
LEMMA FiniteInduction ==
  ASSUME NEW S, IsFiniteSet(S), NEW W, {} \in W,
         \A T \in SUBSET S : \A x \in S : T \in W /\ x \notin T => T \union {x} \in W
  PROVE  S \in W
<1> DEFINE Bad == {T \in SUBSET S : T \notin W}
           R == StrictSubsetOrdering(S)
<1> SUFFICES ASSUME S \notin W PROVE FALSE
  OBVIOUS
<1>1. IsWellFoundedOn(R, SUBSET S)
  BY FS_StrictSubsetOrderingWellFounded, FS_FiniteSubsetsOfFinite
<1>2. Bad \subseteq SUBSET S /\ Bad # {}
  OBVIOUS
<1>3. \E T \in Bad : \A U \in Bad : ~(<<U, T>> \in R)
  <2> HIDE DEF R, Bad
  <2> QED
    BY <1>1, <1>2, WFMin
<1>4. PICK T \in Bad : \A U \in Bad : ~(<<U, T>> \in R)
  BY <1>3
<1>5. PICK x \in T : TRUE
  OBVIOUS
<1>6. <<T \ {x}, T>> \in R
  BY DEF StrictSubsetOrdering
<1>7. T \ {x} \in W
  BY <1>4, <1>6
<1>8. (T \ {x}) \union {x} = T /\ T \ {x} \in SUBSET S /\ x \in S
  OBVIOUS
<1> QED
  BY <1>7, <1>8

\* The elements of S that h sends to the same key of K are summed under it.
Grouped(f, S, h, K, g) ==
  /\ \A x \in S : h[x] \in K
  /\ \A k \in K : g[k] = SumOver(f, {x \in S : h[x] = k})

\* A sum may be taken group by group.
LEMMA SumGrouped ==
  ASSUME NEW f, NEW S, NEW h, NEW K, NEW g,
         IsSummable(f, S), IsFiniteSet(K), Grouped(f, S, h, K, g)
  PROVE  SumOver(f, S) = SumOver(g, K) /\ IsSummable(g, K)
<1> DEFINE In(T) == {x \in S : h[x] \in T}
           W == {T \in SUBSET K : SumOver(f, In(T)) = SumOver(g, T)}
<1>1. \A T : T \subseteq S => IsSummable(f, T)
  BY FS_Subset DEF IsSummable
<1>2. \A k \in K : g[k] = SumOver(f, {x \in S : h[x] = k}) /\ g[k] \in Nat
  BY <1>1, SumNat DEF Grouped
<1>3. IsSummable(g, K)
  BY <1>2 DEF IsSummable
<1>4. {} \in W
  <2>1. In({}) = {}
    OBVIOUS
  <2> QED
    BY <2>1, SumEmpty
<1>5. ASSUME NEW T \in SUBSET K, NEW k \in K, T \in W, k \notin T PROVE T \union {k} \in W
  <2> DEFINE Fiber == {x \in S : h[x] = k}
  <2>1. In(T \union {k}) = In(T) \union Fiber /\ In(T) \intersect Fiber = {}
    BY <1>5
  <2>2. IsSummable(f, In(T)) /\ IsSummable(f, Fiber)
    BY <1>1
  <2>3. g[k] = SumOver(f, Fiber)
    BY <1>2
  <2>4. SumOver(f, In(T)) = SumOver(g, T)
    BY <1>5
  <2>5. IsSummable(g, T \union {k})
    BY <1>3, FS_Subset, T \union {k} \subseteq K DEF IsSummable
  <2> HIDE DEF In, Fiber
  <2>6. SumOver(f, In(T) \union Fiber) = SumOver(f, In(T)) + SumOver(f, Fiber)
    BY <2>1, <2>2, SumDisjoint
  <2>7. SumOver(g, T \union {k}) = SumOver(g, T) + g[k]
    BY <1>5, <2>5, SumAdd
  <2>8. SumOver(f, In(T \union {k})) = SumOver(g, T \union {k})
    BY <2>1, <2>3, <2>4, <2>6, <2>7
  <2> QED
    BY <2>8
<1>6. K \in W
  <2> HIDE DEF W
  <2> QED
    BY <1>4, <1>5, FiniteInduction
<1>7. In(K) = S
  BY DEF Grouped
<1> QED
  BY <1>3, <1>6, <1>7

\* The sum of sums.
LEMMA SumPlus ==
  ASSUME NEW f, NEW g, NEW h, NEW S, IsSummable(f, S), IsSummable(g, S),
         \A x \in S : h[x] = f[x] + g[x]
  PROVE  IsSummable(h, S) /\ SumOver(h, S) = SumOver(f, S) + SumOver(g, S)
<1> DEFINE W == {T \in SUBSET S : SumOver(h, T) = SumOver(f, T) + SumOver(g, T)}
<1>1. IsSummable(h, S)
  BY DEF IsSummable
<1>2. {} \in W
  BY SumEmpty
<1>3. ASSUME NEW T \in SUBSET S, NEW x \in S, T \in W, x \notin T PROVE T \union {x} \in W
  <2>1. /\ IsSummable(f, T \union {x}) /\ IsSummable(g, T \union {x}) /\ IsSummable(h, T \union {x})
        /\ IsSummable(f, T) /\ IsSummable(g, T)
    <3>1. IsFiniteSet(T \union {x}) /\ IsFiniteSet(T)
      BY FS_Subset, T \union {x} \subseteq S DEF IsSummable
    <3> QED
      BY <1>1, <3>1 DEF IsSummable
  <2>2. /\ SumOver(f, T \union {x}) = SumOver(f, T) + f[x]
        /\ SumOver(g, T \union {x}) = SumOver(g, T) + g[x]
        /\ SumOver(h, T \union {x}) = SumOver(h, T) + h[x]
    BY <1>3, <2>1, SumAdd
  <2>3. /\ SumOver(f, T) \in Nat /\ SumOver(g, T) \in Nat /\ f[x] \in Nat /\ g[x] \in Nat
        /\ SumOver(h, T) = SumOver(f, T) + SumOver(g, T) /\ h[x] = f[x] + g[x]
    BY <1>3, <2>1, SumNat DEF IsSummable
  <2>4. SumOver(h, T \union {x}) = SumOver(f, T \union {x}) + SumOver(g, T \union {x})
    BY <2>2, <2>3
  <2> QED
    BY <2>4
<1>4. S \in W
  <2>1. IsFiniteSet(S)
    BY DEF IsSummable
  <2> HIDE DEF W
  <2> QED
    BY <1>2, <1>3, <2>1, FiniteInduction
<1> QED
  BY <1>1, <1>4

\* A number of elements is a sum of ones.
LEMMA SumOfOnes ==
  ASSUME NEW f, NEW S, IsFiniteSet(S), \A x \in S : f[x] = 1
  PROVE  IsSummable(f, S) /\ SumOver(f, S) = Cardinality(S)
<1> DEFINE W == {T \in SUBSET S : SumOver(f, T) = Cardinality(T)}
<1>1. IsSummable(f, S)
  BY DEF IsSummable
<1>2. {} \in W
  BY SumEmpty, FS_EmptySet
<1>3. ASSUME NEW T \in SUBSET S, NEW x \in S, T \in W, x \notin T PROVE T \union {x} \in W
  <2>1. IsFiniteSet(T \union {x}) /\ IsFiniteSet(T)
    BY FS_Subset, T \union {x} \subseteq S
  <2>2. IsSummable(f, T \union {x})
    BY <1>1, <2>1 DEF IsSummable
  <2>3. SumOver(f, T \union {x}) = SumOver(f, T) + f[x] /\ f[x] = 1
    BY <1>3, <2>2, SumAdd
  <2>4. Cardinality(T \union {x}) = Cardinality(T) + 1
    BY <1>3, <2>1, FS_AddElement
  <2>5. SumOver(f, T \union {x}) = Cardinality(T \union {x})
    BY <1>3, <2>3, <2>4
  <2> QED
    BY <2>5
<1>4. S \in W
  <2> HIDE DEF W
  <2> QED
    BY <1>2, <1>3, FiniteInduction
<1> QED
  BY <1>1, <1>4

\* The sum of numbers of either sign that are differences of naturals.
LEMMA SignedDifference ==
  ASSUME NEW d, NEW f, NEW g, NEW S, IsSummable(f, S), IsSummable(g, S),
         \A x \in S : d[x] = f[x] - g[x]
  PROVE  SignedSum(d, S) = SumOver(f, S) - SumOver(g, S)
<1> DEFINE p == [x \in S |-> IF d[x] > 0 THEN d[x] ELSE 0]
           n == [x \in S |-> IF d[x] < 0 THEN -d[x] ELSE 0]
           h == [x \in S |-> p[x] + g[x]]
<1>1. \A x \in S : f[x] \in Nat /\ g[x] \in Nat
  BY DEF IsSummable
<1>2. \A x \in S : p[x] \in Nat /\ n[x] \in Nat
  BY <1>1
<1>3. \A x \in S : h[x] = p[x] + g[x]
  OBVIOUS
<1>4. \A x \in S : h[x] = n[x] + f[x]
  BY <1>1
<1>5. IsSummable(p, S) /\ IsSummable(n, S)
  BY <1>2 DEF IsSummable
<1>6. SignedSum(d, S) = SumOver(p, S) - SumOver(n, S)
  BY DEF SignedSum
<1> HIDE DEF p, n, h
<1>7. SumOver(h, S) = SumOver(p, S) + SumOver(g, S)
  BY <1>3, <1>5, SumPlus
<1>8. SumOver(h, S) = SumOver(n, S) + SumOver(f, S)
  BY <1>4, <1>5, SumPlus
<1>9. SumOver(p, S) \in Nat /\ SumOver(n, S) \in Nat /\ SumOver(f, S) \in Nat /\ SumOver(g, S) \in Nat
  BY <1>5, SumNat
<1> QED
  BY <1>6, <1>7, <1>8, <1>9

\* On natural numbers the signed sum is the sum.
LEMMA SignedNatural ==
  ASSUME NEW f, NEW S, IsSummable(f, S)
  PROVE  SignedSum(f, S) = SumOver(f, S)
<1> DEFINE z == [x \in S |-> 0]
<1>1. IsSummable(z, S) /\ \A x \in S : f[x] = f[x] - z[x]
  BY DEF IsSummable
<1>2. SumOver(z, S) = SumOver(z, {})
  BY SumPart, \A x \in S : z[x] = 0
<1>3. SumOver(z, S) = 0
  BY <1>2, SumEmpty
<1> HIDE DEF z
<1>4. SignedSum(f, S) = SumOver(f, S) - SumOver(z, S)
  BY <1>1, SignedDifference
<1> QED
  BY <1>3, <1>4, SumNat

\* The signed sum depends on the summands only.
LEMMA SignedSame ==
  ASSUME NEW f, NEW g, NEW S, \A x \in S : f[x] = g[x]
  PROVE  SignedSum(f, S) = SignedSum(g, S)
BY SumSame DEF SignedSum

LEMMA SignedEmpty ==
  ASSUME NEW f
  PROVE  SignedSum(f, {}) = 0
BY SumEmpty DEF SignedSum

LEMMA SignedInteger ==
  ASSUME NEW f, NEW S, IsFiniteSet(S), \A x \in S : f[x] \in Int
  PROVE  SignedSum(f, S) \in Int
<1> DEFINE p == [x \in S |-> IF f[x] > 0 THEN f[x] ELSE 0]
           n == [x \in S |-> IF f[x] < 0 THEN -f[x] ELSE 0]
<1>1. IsSummable(p, S) /\ IsSummable(n, S)
  BY DEF IsSummable
<1>2. SignedSum(f, S) = SumOver(p, S) - SumOver(n, S)
  BY DEF SignedSum
<1> HIDE DEF p, n
<1> QED
  BY <1>1, <1>2, SumNat

\* A signed sum over a finite set, taken group by group: d is what f adds less
\* what g takes away, each from rows of its own.
SignedGroups(d, K, f, S, h, g, T, k) ==
  /\ IsFiniteSet(K) /\ IsSummable(f, S) /\ IsSummable(g, T)
  /\ (\A x \in S : h[x] \in K) /\ (\A x \in T : k[x] \in K)
  /\ \A y \in K : d[y] = SumOver(f, {x \in S : h[x] = y}) - SumOver(g, {x \in T : k[x] = y})

LEMMA SignedGrouped ==
  ASSUME NEW d, NEW K, NEW f, NEW S, NEW h, NEW g, NEW T, NEW k,
         SignedGroups(d, K, f, S, h, g, T, k)
  PROVE  SignedSum(d, K) = SumOver(f, S) - SumOver(g, T)
<1> DEFINE p == [y \in K |-> SumOver(f, {x \in S : h[x] = y})]
           n == [y \in K |-> SumOver(g, {x \in T : k[x] = y})]
<1>1. Grouped(f, S, h, K, p) /\ Grouped(g, T, k, K, n)
  BY DEF Grouped, SignedGroups
<1>2. \A y \in K : d[y] = p[y] - n[y]
  BY DEF SignedGroups
<1> HIDE DEF p, n
<1>3. /\ SumOver(f, S) = SumOver(p, K) /\ IsSummable(p, K)
      /\ SumOver(g, T) = SumOver(n, K) /\ IsSummable(n, K)
  BY <1>1, SumGrouped DEF SignedGroups
<1>4. SignedSum(d, K) = SumOver(p, K) - SumOver(n, K)
  BY <1>2, <1>3, SignedDifference
<1> QED
  BY <1>3, <1>4

-----------------------------------------------------------------------------
(* Finite sets of values *)

LEMMA FiniteImage ==
  ASSUME NEW S, IsFiniteSet(S), NEW f
  PROVE  IsFiniteSet({f[x] : x \in S})
<1> DEFINE T == {f[x] : x \in S}
           g == [x \in S |-> f[x]]
<1>1. g \in Surjection(S, T)
  BY DEF Surjection
<1> HIDE DEF T, g
<1>2. IsFiniteSet(T)
  BY <1>1, FS_Surjection
<1> QED
  BY <1>2 DEF T

\* A finite set of integers has a least and a greatest element.
LEMMA FiniteExtremes ==
  ASSUME NEW S, IsFiniteSet(S), S \subseteq Int, S # {}
  PROVE  (\E x \in S : \A y \in S : x <= y) /\ (\E x \in S : \A y \in S : x >= y)
<1> DEFINE W == {T \in SUBSET S : T = {} \/ (/\ \E x \in T : \A y \in T : x <= y
                                            /\ \E x \in T : \A y \in T : x >= y)}
<1>1. {} \in W
  OBVIOUS
<1>2. ASSUME NEW T \in SUBSET S, NEW z \in S, T \in W, z \notin T PROVE T \union {z} \in W
  <2>1. CASE T = {}
    BY <2>1
  <2>2. CASE T # {}
    <3>1. PICK a \in T : \A y \in T : a <= y
      BY <1>2, <2>2
    <3>2. PICK b \in T : \A y \in T : b >= y
      BY <1>2, <2>2
    <3>3. \E x \in T \union {z} : \A y \in T \union {z} : x <= y
      <4>1. CASE z <= a
        BY <3>1, <4>1
      <4>2. CASE ~(z <= a)
        BY <3>1, <4>2
      <4> QED
        BY <4>1, <4>2
    <3>4. \E x \in T \union {z} : \A y \in T \union {z} : x >= y
      <4>1. CASE z >= b
        BY <3>2, <4>1
      <4>2. CASE ~(z >= b)
        BY <3>2, <4>2
      <4> QED
        BY <4>1, <4>2
    <3> QED
      BY <3>3, <3>4
  <2> QED
    BY <2>1, <2>2
<1>3. S \in W
  <2> HIDE DEF W
  <2> QED
    BY <1>1, <1>2, FiniteInduction
<1> QED
  BY <1>3

-----------------------------------------------------------------------------
(* The money ledger *)

\* Rows that can be added up.
IsLedger(rows) == IsFiniteSet(rows) /\ \A t \in rows : t.amount \in Nat

\* Every balance is what the rows say.
Balanced(bal, rows) ==
  \A a \in Accounts : bal[a] = AmountIn(rows, a) - AmountOut(rows, a)

\* Amounts over some rows do not depend on the ledger they are taken from.
LEMMA AmountsOver ==
  ASSUME NEW rows, IsLedger(rows), NEW S, S \subseteq rows
  PROVE  /\ IsSummable(AmountOf(rows), S)
         /\ SumOver(AmountOf(rows), S) = SumOver(AmountOf(S), S)
         /\ SumOver(AmountOf(rows), S) \in Nat
<1>1. IsFiniteSet(S)
  BY FS_Subset DEF IsLedger
<1>2. \A t \in S : AmountOf(rows)[t] = t.amount /\ AmountOf(S)[t] = t.amount /\ t.amount \in Nat
  BY DEF AmountOf, IsLedger
<1>3. IsSummable(AmountOf(rows), S)
  BY <1>1, <1>2 DEF IsSummable
<1>4. SumOver(AmountOf(rows), S) = SumOver(AmountOf(S), S)
  BY <1>2, SumSame
<1> QED
  BY <1>3, <1>4, SumNat

\* Sums over parts of two disjoint ledgers add up.
LEMMA AmountsDisjoint ==
  ASSUME NEW T, NEW R, IsLedger(T), IsLedger(R), T \intersect R = {},
         NEW S, S \subseteq T, NEW U, U \subseteq R
  PROVE  SumOver(AmountOf(T \union R), S \union U)
           = SumOver(AmountOf(T), S) + SumOver(AmountOf(R), U)
<1>1. IsLedger(T \union R)
  BY FS_Union DEF IsLedger
<1>2. IsSummable(AmountOf(T \union R), S) /\ IsSummable(AmountOf(T \union R), U)
  BY <1>1, AmountsOver
<1>3. S \intersect U = {}
  OBVIOUS
<1>4. SumOver(AmountOf(T \union R), S \union U)
        = SumOver(AmountOf(T \union R), S) + SumOver(AmountOf(T \union R), U)
  BY <1>2, <1>3, SumDisjoint
<1>5. /\ SumOver(AmountOf(T \union R), S) = SumOver(AmountOf(T), S)
      /\ SumOver(AmountOf(T \union R), U) = SumOver(AmountOf(R), U)
  <2>1. S \subseteq T \union R /\ U \subseteq T \union R
    OBVIOUS
  <2>2. /\ SumOver(AmountOf(T \union R), S) = SumOver(AmountOf(S), S)
        /\ SumOver(AmountOf(T \union R), U) = SumOver(AmountOf(U), U)
    BY <1>1, <2>1, AmountsOver
  <2>3. /\ SumOver(AmountOf(T), S) = SumOver(AmountOf(S), S)
        /\ SumOver(AmountOf(R), U) = SumOver(AmountOf(U), U)
    BY AmountsOver
  <2> QED
    BY <2>2, <2>3
<1> QED
  BY <1>4, <1>5

\* What two ledgers bring into an account, and take out of it, adds up.
AmountsJoin(T, R, a) ==
  /\ AmountIn(R, a) \in Nat /\ AmountOut(R, a) \in Nat
  /\ AmountIn(T, a) \in Nat /\ AmountOut(T, a) \in Nat
  /\ AmountIn(T \union R, a) = AmountIn(T, a) + AmountIn(R, a)
  /\ AmountOut(T \union R, a) = AmountOut(T, a) + AmountOut(R, a)

\* It does for disjoint ledgers.
LEMMA AmountsAdd ==
  ASSUME NEW T, NEW R, IsLedger(T), IsLedger(R), T \intersect R = {}, NEW a
  PROVE  AmountsJoin(T, R, a)
<1> DEFINE In(rows)  == {t \in Completed(rows) : t.to = a}
           Out(rows) == {t \in Completed(rows) : t.from = a}
<1>1. /\ In(T) \subseteq T /\ In(R) \subseteq R
      /\ Out(T) \subseteq T /\ Out(R) \subseteq R
      /\ In(T \union R) = In(T) \union In(R) /\ Out(T \union R) = Out(T) \union Out(R)
  BY DEF Completed
<1>2. \A rows : /\ AmountIn(rows, a) = SumOver(AmountOf(rows), In(rows))
                /\ AmountOut(rows, a) = SumOver(AmountOf(rows), Out(rows))
  BY DEF AmountIn, AmountOut
<1> HIDE DEF In, Out
<1>3. /\ SumOver(AmountOf(R), In(R)) \in Nat /\ SumOver(AmountOf(R), Out(R)) \in Nat
      /\ SumOver(AmountOf(T), In(T)) \in Nat /\ SumOver(AmountOf(T), Out(T)) \in Nat
  BY <1>1, AmountsOver
<1>4. SumOver(AmountOf(T \union R), In(T) \union In(R))
        = SumOver(AmountOf(T), In(T)) + SumOver(AmountOf(R), In(R))
  BY <1>1, AmountsDisjoint
<1>5. SumOver(AmountOf(T \union R), Out(T) \union Out(R))
        = SumOver(AmountOf(T), Out(T)) + SumOver(AmountOf(R), Out(R))
  BY <1>1, AmountsDisjoint
<1> QED
  BY <1>1, <1>2, <1>3, <1>4, <1>5 DEF AmountsJoin

\* The balance that rows alone would give an account.
Net(rows, a) == AmountIn(rows, a) - AmountOut(rows, a)

\* Balances of disjoint ledgers add up.
LEMMA NetAdd ==
  ASSUME NEW T, NEW R, IsLedger(T), IsLedger(R), T \intersect R = {}, NEW a
  PROVE  /\ Net(T, a) \in Int /\ Net(R, a) \in Int
         /\ Net(T \union R, a) = Net(T, a) + Net(R, a)
<1>1. AmountsJoin(T, R, a)
  BY AmountsAdd, Zenon
<1> QED
  BY <1>1 DEF Net, AmountsJoin

\* New rows that the trigger has posted leave the books balanced.
LEMMA PostedBalanced ==
  ASSUME NEW T, NEW R, IsLedger(T), IsLedger(R), T \intersect R = {},
         NEW bal, bal \in [Accounts -> Int], Balanced(bal, T)
  PROVE  Posted(bal, R) \in [Accounts -> Int] /\ Balanced(Posted(bal, R), T \union R)
<1>1. ASSUME NEW a \in Accounts
      PROVE  AmountsJoin(T, R, a)
  BY AmountsAdd, Zenon
<1>2. ASSUME NEW a \in Accounts
      PROVE  Posted(bal, R)[a] \in Int
             /\ Posted(bal, R)[a] = AmountIn(T \union R, a) - AmountOut(T \union R, a)
  <2>1. Posted(bal, R)[a] = bal[a] + AmountIn(R, a) - AmountOut(R, a)
    BY DEF Posted
  <2>2. bal[a] = AmountIn(T, a) - AmountOut(T, a)
    BY DEF Balanced
  <2>3. /\ AmountIn(R, a) \in Nat /\ AmountOut(R, a) \in Nat
        /\ AmountIn(T, a) \in Nat /\ AmountOut(T, a) \in Nat
        /\ AmountIn(T \union R, a) = AmountIn(T, a) + AmountIn(R, a)
        /\ AmountOut(T \union R, a) = AmountOut(T, a) + AmountOut(R, a)
    BY <1>1 DEF AmountsJoin
  <2> QED
    BY <2>1, <2>2, <2>3
<1>3. Posted(bal, R) \in [Accounts -> Int]
  BY <1>2 DEF Posted
<1> QED
  BY <1>2, <1>3 DEF Balanced

\* A row that is not COMPLETED may be taken away.
LEMMA PendingBalanced ==
  ASSUME NEW T, IsLedger(T), NEW t \in T, t.status # "COMPLETED",
         NEW bal, Balanced(bal, T)
  PROVE  IsLedger(T \ {t}) /\ Balanced(bal, T \ {t})
<1>1. IsLedger(T \ {t})
  BY FS_Subset, T \ {t} \subseteq T DEF IsLedger
<1>2. Completed(T \ {t}) = Completed(T)
  BY DEF Completed
<1>3. ASSUME NEW S, S \subseteq Completed(T)
      PROVE  SumOver(AmountOf(T \ {t}), S) = SumOver(AmountOf(T), S)
  <2>1. S \subseteq T /\ S \subseteq T \ {t}
    BY <1>3 DEF Completed
  <2> QED
    BY <1>1, <2>1, AmountsOver
<1>4. \A a : AmountIn(T \ {t}, a) = AmountIn(T, a) /\ AmountOut(T \ {t}, a) = AmountOut(T, a)
  BY <1>2, <1>3 DEF AmountIn, AmountOut
<1> QED
  BY <1>1, <1>4 DEF Balanced
=============================================================================

----------------------------- MODULE TotalsProofs -----------------------------
(***************************************************************************)
(* How a total changes with the set and with the lengths.                  *)
(***************************************************************************)
EXTENDS Totals, FiniteSetTheorems, TLAPS

\* A unit belongs to one element of the set.
LEMMA UnitOf ==
  ASSUME NEW S, NEW f, NEW u
  PROVE  u \in Units(f, S) <=> \E x \in S : \E k \in 1 .. f[x] : u = <<x, k>>
  BY DEF Units

\* The units of one element are as many as its length.
LEMMA OneElement ==
  ASSUME NEW x, NEW n \in Int
  PROVE  /\ IsFiniteSet({x} \X (1 .. n))
         /\ n \in Nat => Cardinality({x} \X (1 .. n)) = n
<1> DEFINE A == {x}  B == 1 .. n
<1>1. IsFiniteSet(A) /\ Cardinality(A) = 1
  BY FS_Singleton
<1>2. IsFiniteSet(B) /\ (n \in Nat => Cardinality(B) = n)
  BY FS_Interval
<1> HIDE DEF A, B
<1>3. IsFiniteSet(A \X B) /\ (n \in Nat => Cardinality(A \X B) = 1 * n)
  BY <1>1, <1>2, FS_Product
<1> QED
  BY <1>3 DEF A, B

\* Every element has finitely many units, and so has a finite set.
LEMMA UnitsFinite ==
  ASSUME NEW S, IsFiniteSet(S), NEW f, \A x \in S : f[x] \in Int
  PROVE  IsFiniteSet(Units(f, S))
<1> DEFINE g == [x \in S |-> {x} \X (1 .. f[x])]
           T == {g[x] : x \in S}
<1>1. g \in Surjection(S, T)
  BY DEF Surjection
<1>2. IsFiniteSet(T)
  <2> HIDE DEF g, T
  <2> QED
    BY <1>1, FS_Surjection
<1>3. ASSUME NEW x \in S PROVE IsFiniteSet({x} \X (1 .. f[x]))
  BY OneElement
<1>4. \A t \in T : IsFiniteSet(t)
  BY <1>3
<1>5. Units(f, S) = UNION T
  BY DEF Units
<1> HIDE DEF T
<1> QED
  BY <1>2, <1>4, <1>5, FS_UNION

\* A total is a natural number.
LEMMA TotalType ==
  ASSUME NEW S, IsFiniteSet(S), NEW f, \A x \in S : f[x] \in Int
  PROVE  Total(f, S) \in Nat
  BY UnitsFinite, FS_CardinalityType DEF Total

\* Nothing adds up to nothing, and so do elements without a length.
LEMMA TotalZero ==
  ASSUME NEW S, NEW f, \A x \in S : f[x] \in Int /\ f[x] <= 0
  PROVE  Total(f, S) = 0
<1>1. Units(f, S) = {}
  BY DEF Units
<1> QED
  BY <1>1, FS_EmptySet DEF Total

\* Only the lengths of the set's elements matter.
LEMMA TotalSame ==
  ASSUME NEW S, NEW f, NEW g, \A x \in S : f[x] = g[x]
  PROVE  Total(f, S) = Total(g, S)
<1>1. Units(f, S) = Units(g, S)
  BY DEF Units
<1> QED
  BY <1>1 DEF Total

\* An element more adds its length.
LEMMA TotalAdd ==
  ASSUME NEW S, IsFiniteSet(S), NEW x, x \notin S, NEW f, f[x] \in Nat,
         \A y \in S : f[y] \in Int
  PROVE  Total(f, S \cup {x}) = Total(f, S) + f[x]
<1> DEFINE U == Units(f, S)  V == {x} \X (1 .. f[x])
<1>1. Units(f, S \cup {x}) = U \cup V
  BY DEF Units
<1>2. U \cap V = {}
  BY DEF Units
<1>3. IsFiniteSet(U) /\ IsFiniteSet(V) /\ Cardinality(V) = f[x]
  <2>1. IsFiniteSet(U)
    BY UnitsFinite
  <2>2. f[x] \in Int
    OBVIOUS
  <2> QED
    BY <2>1, <2>2, OneElement
<1>4. Total(f, S \cup {x}) = Cardinality(U \cup V) /\ Total(f, S) = Cardinality(U)
  BY <1>1 DEF Total
<1> HIDE DEF U, V
<1>5. Cardinality(U) \in Nat
  BY <1>3, FS_CardinalityType
<1>6. Cardinality(U \cup V) = Cardinality(U) + Cardinality(V) - Cardinality({})
  BY <1>2, <1>3, FS_Union
<1> QED
  BY <1>3, <1>4, <1>5, <1>6, FS_EmptySet

\* A set that shrinks, or lengths that do, make the total no larger.
LEMMA TotalMonotone ==
  ASSUME NEW S, IsFiniteSet(S), NEW f, \A x \in S : f[x] \in Int,
         NEW T, T \subseteq S, NEW g, \A x \in T : g[x] \in Int /\ g[x] <= f[x]
  PROVE  Total(g, T) <= Total(f, S)
<1>1. Units(g, T) \subseteq Units(f, S)
  BY DEF Units
<1>2. IsFiniteSet(Units(f, S))
  BY UnitsFinite
<1> QED
  BY <1>1, <1>2, FS_Subset DEF Total

\* One element's length replaced by another.
LEMMA TotalReplace ==
  ASSUME NEW S, IsFiniteSet(S), NEW x \in S, NEW f, NEW g,
         f[x] \in Nat, g[x] \in Nat,
         \A y \in S \ {x} : f[y] \in Int /\ g[y] = f[y]
  PROVE  Total(g, S) = Total(f, S) - f[x] + g[x]
<1> DEFINE R == S \ {x}
<1>1. IsFiniteSet(R) /\ S = R \cup {x} /\ x \notin R
  BY FS_RemoveElement
<1>2. Total(f, R) = Total(g, R) /\ Total(f, R) \in Nat
  BY <1>1, TotalSame, TotalType
<1> HIDE DEF R
<1>3. \A y \in R : f[y] \in Int /\ g[y] \in Int
  BY DEF R
<1>4. Total(f, S) = Total(f, R) + f[x]
  BY <1>1, <1>3, TotalAdd
<1>5. Total(g, S) = Total(g, R) + g[x]
  BY <1>1, <1>3, TotalAdd
<1> QED
  BY <1>2, <1>4, <1>5

\* The same lengths, one place further on.
LEMMA TotalShift ==
  ASSUME NEW n \in Nat, NEW f, NEW g, \A x \in 1 .. n : f[x] \in Int /\ g[x + 1] = f[x]
  PROVE  Total(g, 2 .. n + 1) = Total(f, 1 .. n)
<1> DEFINE U == Units(f, 1 .. n)
           V == Units(g, 2 .. n + 1)
           b == [u \in U |-> <<u[1] + 1, u[2]>>]
<1>1. IsFiniteSet(U)
  <2> DEFINE S == 1 .. n
  <2>1. IsFiniteSet(S) /\ \A x \in S : f[x] \in Int
    BY FS_Interval
  <2> HIDE DEF S
  <2>2. IsFiniteSet(Units(f, S))
    BY <2>1, UnitsFinite
  <2> QED
    BY <2>2 DEF S
<1>2. ASSUME NEW u \in U
      PROVE  \E x \in 1 .. n : \E k \in 1 .. f[x] : u = <<x, k>>
  BY UnitOf
<1>3. ASSUME NEW u \in U PROVE b[u] \in V
  <2>1. PICK x \in 1 .. n : \E k \in 1 .. f[x] : u = <<x, k>>
    BY <1>2
  <2>2. PICK k \in 1 .. f[x] : u = <<x, k>>
    BY <2>1
  <2>3. x + 1 \in 2 .. n + 1 /\ k \in 1 .. g[x + 1] /\ b[u] = <<x + 1, k>>
    BY <2>2
  <2> QED
    BY <2>3, UnitOf
<1>4. ASSUME NEW u \in U, NEW v \in U, b[u] = b[v] PROVE u = v
  <2>1. PICK x \in 1 .. n : \E k \in 1 .. f[x] : u = <<x, k>>
    BY <1>2
  <2>2. PICK k \in 1 .. f[x] : u = <<x, k>>
    BY <2>1
  <2>3. PICK y \in 1 .. n : \E l \in 1 .. f[y] : v = <<y, l>>
    BY <1>2
  <2>4. PICK l \in 1 .. f[y] : v = <<y, l>>
    BY <2>3
  <2>5. b[u] = <<x + 1, k>> /\ b[v] = <<y + 1, l>>
    BY <2>2, <2>4
  <2>6. x + 1 = y + 1 /\ k = l
    BY <1>4, <2>5
  <2> QED
    BY <2>2, <2>4, <2>6
<1>5. ASSUME NEW v \in V PROVE \E u \in U : b[u] = v
  <2>1. PICK y \in 2 .. n + 1 : \E k \in 1 .. g[y] : v = <<y, k>>
    BY UnitOf
  <2>2. PICK k \in 1 .. g[y] : v = <<y, k>>
    BY <2>1
  <2>3. y - 1 \in 1 .. n /\ (y - 1) + 1 = y
    OBVIOUS
  <2>4. k \in 1 .. f[y - 1]
    BY <2>2, <2>3
  <2>5. <<y - 1, k>> \in U
    BY <2>3, <2>4, UnitOf
  <2>6. b[<<y - 1, k>>] = <<(y - 1) + 1, k>>
    BY <2>5
  <2> QED
    BY <2>2, <2>3, <2>5, <2>6
<1>6. b \in Bijection(U, V)
  <2>1. b \in [U -> V]
    BY <1>3
  <2> HIDE DEF b, U, V
  <2> QED
    BY <1>4, <1>5, <2>1 DEF Bijection, Injection, Surjection, IsInjective
<1> HIDE DEF U, V, b
<1>7. Cardinality(V) = Cardinality(U)
  BY <1>1, <1>6, FS_Bijection DEF ExistsBijection
<1> QED
  BY <1>7 DEF Total, U, V
===============================================================================

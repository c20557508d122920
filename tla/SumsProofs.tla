------------------------------- MODULE SumsProofs -------------------------------
(***************************************************************************)
(* Facts about sums of functions with a finite domain, and the forms of    *)
(* induction they need.  The library's induction theorems take the         *)
(* predicate as an operator, which the provers cannot instantiate; a set   *)
(* of the arguments that have the property they can.                       *)
(***************************************************************************)
EXTENDS Sums, FiniteSetTheorems, TLAPS

(***************************************************************************)
(* Induction                                                               *)
(***************************************************************************)

\* A set of natural numbers that is not empty has a least element.
LEMMA LeastNatural ==
    ASSUME NEW T, T \subseteq Nat, T # {}
    PROVE  \E n \in T : \A m \in T : n <= m
<1>1. PICK n \in T : \A m \in T : ~ (<<m, n>> \in OpToRel(<, Nat))
    BY NatLessThanWellFounded, WFMin, Zenon
<1>2. ASSUME NEW m \in T
      PROVE  n <= m
  <2>1. m \in Nat /\ n \in Nat
      OBVIOUS
  <2>2. ~ (m < n)
      BY <1>1, <2>1 DEF OpToRel
  <2> QED
      BY <2>1, <2>2
<1> QED
    BY <1>2

\* A family of sets that has the empty set, and with a set every larger one by
\* one element of S, has S.
LEMMA FiniteInduction ==
    ASSUME NEW S, IsFiniteSet(S), NEW D, {} \in D,
           \A A \in D : A \subseteq S /\ \A x \in S \ A : A \union {x} \in D
    PROVE  S \in D
<1> DEFINE Left(A) == Cardinality(S \ A)
           T == {Left(A) : A \in D}
<1>1. ASSUME NEW A \in D
      PROVE  IsFiniteSet(S \ A) /\ Left(A) \in Nat
    BY FS_Subset, FS_CardinalityType
<1>2. T \subseteq Nat /\ T # {}
    BY <1>1
<1>3. PICK n \in T : \A m \in T : n <= m
  <2> HIDE DEF T
  <2> QED
      BY <1>2, LeastNatural
<1>4. PICK A \in D : n = Left(A)
    BY <1>3
<1>5. ASSUME NEW x \in S \ A
      PROVE  FALSE
  <2>1. A \union {x} \in D
      BY <1>5
  <2>2. S \ (A \union {x}) = (S \ A) \ {x}
      OBVIOUS
  <2>3. Left(A \union {x}) = Left(A) - 1
      BY <1>1, <1>5, <2>2, FS_RemoveElement, ZenonT(60)
  <2>4. Left(A) <= Left(A \union {x})
      BY <1>3, <1>4, <2>1
  <2>5. Left(A) \in Nat
      BY <1>1
  <2> QED
      BY <2>3, <2>4, <2>5
<1>6. A = S
    BY <1>5
<1> QED
    BY <1>6

\* A set of natural numbers that has 0, and with a number below n the next,
\* has every number up to n.
LEMMA BoundedInduction ==
    ASSUME NEW n \in Nat, NEW D, 0 \in D, \A k \in 0 .. n - 1 : k \in D => k + 1 \in D
    PROVE  \A k \in 0 .. n : k \in D
<1> DEFINE T == {k \in 0 .. n : k \notin D}
<1>1. SUFFICES ASSUME T # {}
               PROVE  FALSE
    OBVIOUS
<1>2. PICK k \in T : \A m \in T : k <= m
  <2>1. T \subseteq Nat
      OBVIOUS
  <2> HIDE DEF T
  <2> QED
      BY <1>1, <2>1, LeastNatural
<1>3. k # 0
    OBVIOUS
<1>4. k - 1 \in 0 .. n - 1
    BY <1>2, <1>3
<1>5. k - 1 \in D
    BY <1>2, <1>4
<1>6. k - 1 + 1 \in D
    BY <1>4, <1>5
<1> QED
    BY <1>2, <1>6

\* The values of f up to n are base at 0 and, at k, what step makes of k and of
\* the value at k - 1.
IsRecursive(f, n, base, step) ==
    \A k \in 0 .. n : f[k] = IF k = 0 THEN base ELSE step[<<k, f[k - 1]>>]

\* A function can be defined by recursion on the natural numbers up to n.
LEMMA PrimitiveRecursion ==
    ASSUME NEW n \in Nat, NEW V, NEW base \in V, NEW step \in [(1 .. n) \X V -> V]
    PROVE  \E f \in [0 .. n -> V] : IsRecursive(f, n, base, step)
<1> DEFINE Defined(f, k) ==
              \A j \in 0 .. k : f[j] = IF j = 0 THEN base ELSE step[<<j, f[j - 1]>>]
           D == {k \in 0 .. n : \E f \in [0 .. k -> V] : Defined(f, k)}
<1>1. 0 \in D
  <2> DEFINE f == [j \in 0 .. 0 |-> base]
  <2>1. f \in [0 .. 0 -> V] /\ Defined(f, 0) /\ 0 \in 0 .. n
      OBVIOUS
  <2> HIDE DEF f, Defined
  <2> QED
      BY <2>1
<1>2. ASSUME NEW k \in 0 .. n - 1, k \in D
      PROVE  k + 1 \in D
  <2>1. PICK f \in [0 .. k -> V] : Defined(f, k)
      BY <1>2
  <2> DEFINE v == step[<<k + 1, f[k]>>]
             g == [j \in 0 .. k + 1 |-> IF j <= k THEN f[j] ELSE v]
  <2>2. v \in V
    <3>1. f[k] \in V /\ k + 1 \in 1 .. n
        OBVIOUS
    <3>2. <<k + 1, f[k]>> \in (1 .. n) \X V
        BY <3>1
    <3> QED
        BY <3>2
  <2>3. g \in [0 .. k + 1 -> V]
      BY <2>2
  <2>4. ASSUME NEW j \in 0 .. k + 1
        PROVE  g[j] = IF j = 0 THEN base ELSE step[<<j, g[j - 1]>>]
    <3>1. CASE j <= k
      <4>1. j \in 0 .. k /\ (j # 0 => j - 1 \in 0 .. k + 1 /\ j - 1 <= k)
          BY <3>1
      <4>2. g[j] = f[j] /\ (j # 0 => g[j - 1] = f[j - 1])
          BY <3>1, <4>1
      <4> HIDE DEF g
      <4> QED
          BY <2>1, <4>1, <4>2
    <3>2. CASE j = k + 1
      <4>1. g[j] = v /\ g[j - 1] = f[k] /\ j # 0
          BY <3>2
      <4>2. j - 1 = k /\ j # 0
          BY <3>2
      <4> HIDE DEF g, v
      <4> QED
          BY <3>2, <4>1, <4>2, SMTT(30) DEF v
    <3> QED
        BY <3>1, <3>2
  <2>5. Defined(g, k + 1) /\ k + 1 \in 0 .. n
    <3>1. k + 1 \in 0 .. n
        OBVIOUS
    <3> HIDE DEF g
    <3>2. Defined(g, k + 1)
        BY <2>4, Zenon
    <3> QED
        BY <3>1, <3>2
  <2> HIDE DEF g, Defined
  <2> QED
      BY <2>3, <2>5
<1>3. n \in D
  <2>1. n \in 0 .. n
      OBVIOUS
  <2> HIDE DEF D
  <2> QED
      BY <1>1, <1>2, <2>1, BoundedInduction
<1> QED
    BY <1>3 DEF IsRecursive

(***************************************************************************)
(* Sums                                                                    *)
(***************************************************************************)

\* A sum over a finite set is a natural number.
LEMMA SumType ==
    ASSUME NEW f, IsFiniteSet(DOMAIN f), \A x \in DOMAIN f : f[x] \in Nat
    PROVE  IsFiniteSet(Units(f)) /\ Sum(f) \in Nat
<1> DEFINE U(x) == {x} \X (1 .. f[x])
           S == {U(x) : x \in DOMAIN f}
           g == [x \in DOMAIN f |-> U(x)]
<1>1. IsFiniteSet(S)
  <2>1. g \in Surjection(DOMAIN f, S)
      BY Zenon DEF Surjection
  <2> QED
      BY <2>1, FS_Surjection, Zenon
<1>2. ASSUME NEW x \in DOMAIN f
      PROVE  IsFiniteSet(U(x))
  <2>1. f[x] \in Int /\ 1 \in Int
      OBVIOUS
  <2>2. IsFiniteSet(1 .. f[x])
      BY <2>1, FS_Interval, Zenon
  <2>3. IsFiniteSet({x})
      BY FS_Singleton, Zenon
  <2> QED
      BY <2>2, <2>3, FS_Product, Zenon
<1>3. IsFiniteSet(UNION S)
  <2>1. \A T \in S : IsFiniteSet(T)
      BY <1>2
  <2> QED
      BY <1>1, <2>1, FS_UNION, Zenon
<1>4. Units(f) = UNION S
    BY Zenon DEF Units
<1> QED
    BY <1>3, <1>4, FS_CardinalityType, Zenon DEF Sum

\* The units that x contributes to the sum are as many as f[x].
LEMMA UnitsOfOne ==
    ASSUME NEW x, NEW n \in Nat
    PROVE  IsFiniteSet({x} \X (1 .. n)) /\ Cardinality({x} \X (1 .. n)) = n
<1>1. IsFiniteSet({x}) /\ Cardinality({x}) = 1
    BY FS_Singleton, Zenon
<1>2. n \in Int /\ 1 \in Int
    OBVIOUS
<1>3. IsFiniteSet(1 .. n) /\ Cardinality(1 .. n) = IF 1 > n THEN 0 ELSE n - 1 + 1
    BY <1>2, FS_Interval
<1>4. Cardinality(1 .. n) = n
    BY <1>3
<1>5. IsFiniteSet({x} \X (1 .. n))
      /\ Cardinality({x} \X (1 .. n)) = Cardinality({x}) * Cardinality(1 .. n)
    BY <1>1, <1>3, FS_Product, Zenon
<1> QED
    BY <1>1, <1>4, <1>5

\* The cardinality of a disjoint union.
LEMMA DisjointUnion ==
    ASSUME NEW S, NEW T, IsFiniteSet(S), IsFiniteSet(T), S \intersect T = {}
    PROVE  /\ IsFiniteSet(S \union T)
           /\ Cardinality(S \union T) = Cardinality(S) + Cardinality(T)
<1>1. /\ IsFiniteSet(S \union T)
      /\ Cardinality(S \union T) =
            Cardinality(S) + Cardinality(T) - Cardinality(S \intersect T)
    BY FS_Union, Zenon
<1>2. Cardinality(S \intersect T) = 0
    BY FS_EmptySet
<1>3. Cardinality(S) \in Nat /\ Cardinality(T) \in Nat
    BY FS_CardinalityType
<1> QED
    BY <1>1, <1>2, <1>3

\* One update changes the sum by the change of the one value.
LEMMA SumUpdate ==
    ASSUME NEW S, IsFiniteSet(S), NEW f \in [S -> Nat], NEW x \in S, NEW v \in Nat
    PROVE  Sum([f EXCEPT ![x] = v]) = Sum(f) - f[x] + v
<1> DEFINE g == [f EXCEPT ![x] = v]
           Rest == {u \in Units(f) : u[1] # x}
           F == {x} \X (1 .. f[x])
           G == {x} \X (1 .. v)
<1>1. g \in [S -> Nat] /\ g[x] = v /\ \A y \in S \ {x} : g[y] = f[y]
    OBVIOUS
<1>2. Units(f) = Rest \union F
  <2>1. ASSUME NEW u \in Units(f)
        PROVE  u \in Rest \union F
    <3>1. PICK y \in S : u \in {y} \X (1 .. f[y])
        BY DEF Units
    <3> QED
        BY <3>1
  <2>2. ASSUME NEW u \in F
        PROVE  u \in Units(f)
      BY <2>2 DEF Units
  <2> QED
      BY <2>1, <2>2
<1>3. Units(g) = Rest \union G
  <2>1. ASSUME NEW u \in Units(g)
        PROVE  u \in Rest \union G
    <3>1. PICK y \in S : u \in {y} \X (1 .. g[y])
        BY <1>1 DEF Units
    <3>2. CASE y = x
        BY <3>1, <3>2, <1>1
    <3>3. CASE y # x
      <4>1. u \in {y} \X (1 .. f[y]) /\ u[1] # x
          BY <3>1, <3>3, <1>1
      <4>2. u \in Units(f)
          BY <4>1 DEF Units
      <4> QED
          BY <4>1, <4>2
    <3> QED
        BY <3>2, <3>3
  <2>2. ASSUME NEW u \in Rest
        PROVE  u \in Units(g)
    <3>1. PICK y \in S : u \in {y} \X (1 .. f[y])
        BY DEF Units
    <3>2. y # x /\ g[y] = f[y]
        BY <3>1, <1>1
    <3>3. u \in {y} \X (1 .. g[y])
        BY <3>1, <3>2
    <3>4. y \in DOMAIN g
        BY <1>1
    <3> HIDE DEF g
    <3> QED
        BY <3>3, <3>4 DEF Units
  <2>3. ASSUME NEW u \in G
        PROVE  u \in Units(g)
    <3>1. x \in DOMAIN g /\ u \in {x} \X (1 .. g[x])
        BY <1>1
    <3> HIDE DEF g
    <3> QED
        BY <3>1 DEF Units
  <2> QED
      BY <2>1, <2>2, <2>3
<1>4. IsFiniteSet(Units(f)) /\ Sum(f) \in Nat
    BY SumType
<1>5. IsFiniteSet(Rest)
    BY <1>4, FS_Subset
<1>6. f[x] \in Nat
    OBVIOUS
<1>7. IsFiniteSet(F) /\ Cardinality(F) = f[x] /\ Rest \intersect F = {}
    BY <1>6, UnitsOfOne
<1>8. IsFiniteSet(G) /\ Cardinality(G) = v /\ Rest \intersect G = {}
    BY UnitsOfOne
<1>9. Cardinality(Units(f)) = Cardinality(Rest) + f[x]
  <2> HIDE DEF Rest, F
  <2> QED
      BY <1>2, <1>5, <1>7, DisjointUnion, Zenon
<1>10. Cardinality(Units(g)) = Cardinality(Rest) + v
  <2> HIDE DEF Rest, G, g
  <2> QED
      BY <1>3, <1>5, <1>8, DisjointUnion, Zenon
<1>11. Cardinality(Rest) \in Nat
    BY <1>5, FS_CardinalityType
<1> QED
    BY <1>6, <1>9, <1>10, <1>11 DEF Sum

\* A sum of zeros is zero.
LEMMA SumZero ==
    ASSUME NEW S, NEW f, f = [x \in S |-> 0]
    PROVE  Sum(f) = 0
<1>1. Units(f) = {}
    BY DEF Units
<1> QED
    BY <1>1, FS_EmptySet DEF Sum

(***************************************************************************)
(* Sums over growing domains                                               *)
(***************************************************************************)

\* A sum over a set with one more element.
LEMMA SumExtend ==
    ASSUME NEW A, IsFiniteSet(A), NEW x, x \notin A,
           NEW f, \A y \in A \union {x} : f[y] \in Nat
    PROVE  Sum([y \in A \union {x} |-> f[y]]) = Sum([y \in A |-> f[y]]) + f[x]
<1> DEFINE g == [y \in A |-> f[y]]
           h == [y \in A \union {x} |-> f[y]]
           F == {x} \X (1 .. f[x])
<1>1. Units(h) = Units(g) \union F
  <2>1. Units(h) = UNION {{y} \X (1 .. f[y]) : y \in A \union {x}}
      BY DEF Units
  <2>2. Units(g) = UNION {{y} \X (1 .. f[y]) : y \in A}
      BY DEF Units
  <2> HIDE DEF g, h
  <2> QED
      BY <2>1, <2>2
<1>2. IsFiniteSet(Units(g)) /\ Sum(g) \in Nat
    BY SumType
<1>3. IsFiniteSet(F) /\ Cardinality(F) = f[x] /\ f[x] \in Nat
    BY UnitsOfOne
<1>4. Units(g) \intersect F = {}
    BY DEF Units
<1> HIDE DEF g, h, F
<1>5. Cardinality(Units(h)) = Cardinality(Units(g)) + Cardinality(F)
    BY <1>1, <1>2, <1>3, <1>4, DisjointUnion, Zenon
<1> QED
    BY <1>3, <1>5 DEF g, h, Sum

\* The sum of two functions, taken at every point, is the sum of their sums.
LEMMA SumPlus ==
    ASSUME NEW S, IsFiniteSet(S), NEW f \in [S -> Nat], NEW g \in [S -> Nat]
    PROVE  Sum([x \in S |-> f[x] + g[x]]) = Sum(f) + Sum(g)
<1> DEFINE h == [x \in S |-> f[x] + g[x]]
           Part(k, A) == [x \in A |-> k[x]]
           D == {A \in SUBSET S : Sum(Part(h, A)) = Sum(Part(f, A)) + Sum(Part(g, A))}
<1>1. {} \in D
  <2>1. \A k : Part(k, {}) = [x \in {} |-> 0]
      OBVIOUS
  <2>2. \A k : Sum(Part(k, {})) = 0
      BY <2>1, SumZero
  <2> QED
      BY <2>2
<1>2. ASSUME NEW A \in D, NEW x \in S \ A
      PROVE  A \union {x} \in D
  <2>1. IsFiniteSet(A)
      BY FS_Subset
  <2>2. \A y \in A \union {x} : f[y] \in Nat /\ g[y] \in Nat /\ h[y] = f[y] + g[y]
      OBVIOUS
  <2>3. /\ Sum(Part(f, A)) \in Nat /\ Sum(Part(g, A)) \in Nat
    <3>1. \A y \in A : Part(f, A)[y] \in Nat /\ Part(g, A)[y] \in Nat
        BY <2>2
    <3> QED
        BY <2>1, <3>1, SumType
  <2>4. Sum(Part(f, A \union {x})) = Sum(Part(f, A)) + f[x]
      BY <2>1, <2>2, SumExtend
  <2>5. Sum(Part(g, A \union {x})) = Sum(Part(g, A)) + g[x]
      BY <2>1, <2>2, SumExtend
  <2>6. Sum(Part(h, A \union {x})) = Sum(Part(h, A)) + h[x]
    <3>1. \A y \in A \union {x} : h[y] \in Nat
        BY <2>2
    <3> HIDE DEF h
    <3> QED
        BY <2>1, <3>1, SumExtend
  <2>7. f[x] \in Nat /\ g[x] \in Nat /\ h[x] = f[x] + g[x]
      BY <2>2
  <2>8. Sum(Part(h, A)) = Sum(Part(f, A)) + Sum(Part(g, A))
      OBVIOUS
  <2> HIDE DEF Part, h
  <2> QED
      BY <2>3, <2>4, <2>5, <2>6, <2>7, <2>8
<1>3. S \in D
  <2>1. \A A \in D : A \subseteq S /\ \A x \in S \ A : A \union {x} \in D
      BY <1>2
  <2> HIDE DEF D
  <2> QED
      BY <1>1, <2>1, FiniteInduction
<1>4. Part(f, S) = f /\ Part(g, S) = g /\ Part(h, S) = h
    OBVIOUS
<1> QED
    BY <1>3, <1>4

\* Of two functions, the one that is at no point larger has no larger sum.
LEMMA SumMonotone ==
    ASSUME NEW S, IsFiniteSet(S), NEW f \in [S -> Nat], NEW g \in [S -> Nat],
           \A x \in S : f[x] <= g[x]
    PROVE  Sum(f) <= Sum(g)
<1>1. Units(f) \subseteq Units(g)
  <2>1. ASSUME NEW x \in S, NEW u \in {x} \X (1 .. f[x])
        PROVE  u \in {x} \X (1 .. g[x])
    <3>1. f[x] \in Nat /\ g[x] \in Nat /\ f[x] <= g[x]
        OBVIOUS
    <3> QED
        BY <3>1
  <2> QED
      BY <2>1 DEF Units
<1>2. IsFiniteSet(Units(g))
    BY SumType
<1> QED
    BY <1>1, <1>2, FS_Subset DEF Sum

\* One value of a function is at most its sum.
LEMMA SumAtLeast ==
    ASSUME NEW S, IsFiniteSet(S), NEW f \in [S -> Nat], NEW x \in S
    PROVE  f[x] <= Sum(f)
<1> DEFINE g == [f EXCEPT ![x] = 0]
<1>1. Sum(g) = Sum(f) - f[x] + 0
  <2>1. 0 \in Nat
      OBVIOUS
  <2> QED
      BY <2>1, SumUpdate, Zenon
<1>2. g \in [S -> Nat] /\ f[x] \in Nat
    OBVIOUS
<1>3. Sum(g) \in Nat /\ Sum(f) \in Nat
    BY <1>2, SumType
<1> HIDE DEF g
<1> QED
    BY <1>1, <1>2, <1>3

\* A function that is zero but at the places that an injection e names has the
\* sum of its values there.
LEMMA SumAt ==
    ASSUME NEW S, IsFiniteSet(S), NEW T, IsFiniteSet(T), NEW e \in Injection(S, T),
           NEW f \in [T -> Nat], \A y \in T : f[y] # 0 => \E x \in S : y = e[x]
    PROVE  Sum(f) = Sum([x \in S |-> f[e[x]]])
<1> DEFINE g == [x \in S |-> f[e[x]]]
           b == [u \in Units(g) |-> <<e[u[1]], u[2]>>]
<1>1. e \in [S -> T] /\ \A x, y \in S : e[x] = e[y] => x = y
    BY DEF Injection, IsInjective
<1>2. DOMAIN g = S /\ \A x \in S : g[x] \in Nat /\ g[x] = f[e[x]]
    BY <1>1
<1>3. ASSUME NEW u
      PROVE  u \in Units(g) <=> \E x \in S : u \in {x} \X (1 .. f[e[x]])
    BY <1>2 DEF Units
<1>4. ASSUME NEW u
      PROVE  u \in Units(f) <=> \E y \in T : u \in {y} \X (1 .. f[y])
    BY DEF Units
<1>5. b \in [Units(g) -> Units(f)]
  <2>1. ASSUME NEW u \in Units(g)
        PROVE  b[u] \in Units(f)
    <3>1. PICK x \in S : u \in {x} \X (1 .. f[e[x]])
        BY <1>3
    <3>2. b[u] \in {e[x]} \X (1 .. f[e[x]]) /\ e[x] \in T
        BY <1>1, <3>1
    <3> QED
        BY <1>4, <3>2
  <2> QED
      BY <2>1
<1>6. \A u, v \in Units(g) : b[u] = b[v] => u = v
  <2> SUFFICES ASSUME NEW u \in Units(g), NEW v \in Units(g), b[u] = b[v]
               PROVE  u = v
      OBVIOUS
  <2>1. PICK x \in S : u \in {x} \X (1 .. f[e[x]])
      BY <1>3
  <2>2. PICK y \in S : v \in {y} \X (1 .. f[e[y]])
      BY <1>3
  <2>3. e[x] = e[y] /\ u[2] = v[2]
      BY <2>1, <2>2
  <2> QED
      BY <1>1, <2>1, <2>2, <2>3
<1>7. \A w \in Units(f) : \E u \in Units(g) : b[u] = w
  <2> SUFFICES ASSUME NEW w \in Units(f)
               PROVE  \E u \in Units(g) : b[u] = w
      OBVIOUS
  <2>1. PICK y \in T : w \in {y} \X (1 .. f[y])
      BY <1>4
  <2>2. f[y] # 0
      BY <2>1
  <2>3. PICK x \in S : y = e[x]
      BY <2>2
  <2>4. <<x, w[2]>> \in Units(g)
      BY <1>3, <2>1, <2>3
  <2>5. b[<<x, w[2]>>] = w
      BY <2>1, <2>3, <2>4
  <2> QED
      BY <2>4, <2>5
<1>8. IsFiniteSet(Units(g))
    BY <1>2, SumType
<1>9. b \in Bijection(Units(g), Units(f))
    BY <1>5, <1>6, <1>7, Zenon DEF Bijection, Injection, IsInjective, Surjection
<1> HIDE DEF b, g
<1>10. Cardinality(Units(f)) = Cardinality(Units(g))
    BY <1>8, <1>9, FS_Bijection, Zenon DEF ExistsBijection
<1> QED
    BY <1>10 DEF g, Sum

\* A function that is zero outside a set has the sum of its values there.
LEMMA SumSupport ==
    ASSUME NEW S, IsFiniteSet(S), NEW T \in SUBSET S, NEW f \in [S -> Nat],
           \A x \in S \ T : f[x] = 0
    PROVE  Sum(f) = Sum([x \in T |-> f[x]])
<1> DEFINE g == [x \in T |-> f[x]]
<1>1. Units(f) = Units(g)
  <2>1. Units(f) = UNION {{x} \X (1 .. f[x]) : x \in S}
      BY DEF Units
  <2>2. Units(g) = UNION {{x} \X (1 .. f[x]) : x \in T}
      BY DEF Units
  <2>3. \A x \in S \ T : {x} \X (1 .. f[x]) = {}
      OBVIOUS
  <2> HIDE DEF g
  <2> QED
      BY <2>1, <2>2, <2>3
<1> QED
    BY <1>1 DEF Sum

\* A common factor of all values is one of the sum.
LEMMA SumScale ==
    ASSUME NEW S, IsFiniteSet(S), NEW f \in [S -> Nat], NEW c \in Nat
    PROVE  Sum([x \in S |-> c * f[x]]) = c * Sum(f)
<1> DEFINE h == [x \in S |-> c * f[x]]
           Part(k, A) == [x \in A |-> k[x]]
           D == {A \in SUBSET S : Sum(Part(h, A)) = c * Sum(Part(f, A))}
<1>1. {} \in D
  <2>1. \A k : Part(k, {}) = [x \in {} |-> 0]
      OBVIOUS
  <2>2. \A k : Sum(Part(k, {})) = 0
      BY <2>1, SumZero
  <2>3. c * 0 = 0
      OBVIOUS
  <2> QED
      BY <2>2, <2>3
<1>2. ASSUME NEW A \in D, NEW x \in S \ A
      PROVE  A \union {x} \in D
  <2>1. IsFiniteSet(A)
      BY FS_Subset
  <2>2. \A y \in A \union {x} : f[y] \in Nat /\ h[y] \in Nat /\ h[y] = c * f[y]
      OBVIOUS
  <2>3. Sum(Part(f, A)) \in Nat
    <3>1. \A y \in A : Part(f, A)[y] \in Nat
        BY <2>2
    <3> QED
        BY <2>1, <3>1, SumType
  <2>4. Sum(Part(f, A \union {x})) = Sum(Part(f, A)) + f[x]
      BY <2>1, <2>2, SumExtend
  <2>5. Sum(Part(h, A \union {x})) = Sum(Part(h, A)) + h[x]
    <3>1. \A y \in A \union {x} : h[y] \in Nat
        BY <2>2
    <3> HIDE DEF h
    <3> QED
        BY <2>1, <3>1, SumExtend
  <2>6. f[x] \in Nat /\ h[x] = c * f[x]
      BY <2>2
  <2>7. Sum(Part(h, A)) = c * Sum(Part(f, A))
      OBVIOUS
  <2>8. \A m, n \in Nat : c * (m + n) = c * m + c * n
      OBVIOUS
  <2>9. A \union {x} \in SUBSET S
      OBVIOUS
  <2>10. Sum(Part(h, A \union {x})) = c * Sum(Part(f, A \union {x}))
    <3> HIDE DEF Part, h
    <3> QED
        BY <2>3, <2>4, <2>5, <2>6, <2>7, <2>8
  <2> QED
      BY <2>9, <2>10
<1>3. S \in D
  <2>1. \A A \in D : A \subseteq S /\ \A x \in S \ A : A \union {x} \in D
      BY <1>2
  <2> HIDE DEF D
  <2> QED
      BY <1>1, <2>1, FiniteInduction
<1>4. Part(f, S) = f /\ Part(h, S) = h
    OBVIOUS
<1> QED
    BY <1>3, <1>4

\* The sum of a table is the same by rows and by columns.
LEMMA SumSwap ==
    ASSUME NEW S, IsFiniteSet(S), NEW T, IsFiniteSet(T), NEW f \in [S -> [T -> Nat]]
    PROVE  Sum([x \in S |-> Sum(f[x])]) = Sum([y \in T |-> Sum([x \in S |-> f[x][y]])])
<1> DEFINE row == [x \in S |-> Sum(f[x])]
           Rows(A) == [x \in A |-> row[x]]
           Column(A, y) == [x \in A |-> f[x][y]]
           Columns(A) == [y \in T |-> Sum(Column(A, y))]
           D == {A \in SUBSET S : Sum(Rows(A)) = Sum(Columns(A))}
<1>1. \A x \in S : row[x] \in Nat
    BY SumType
<1>2. \A A \in SUBSET S, y \in T : IsFiniteSet(A) /\ Sum(Column(A, y)) \in Nat
  <2> SUFFICES ASSUME NEW A \in SUBSET S, NEW y \in T
               PROVE  IsFiniteSet(A) /\ Sum(Column(A, y)) \in Nat
      OBVIOUS
  <2>1. IsFiniteSet(A)
      BY FS_Subset
  <2>2. DOMAIN Column(A, y) = A /\ \A x \in A : Column(A, y)[x] \in Nat
      OBVIOUS
  <2> QED
      BY <2>1, <2>2, SumType
<1>3. {} \in D
  <2>1. Rows({}) = [x \in {} |-> 0] /\ \A y \in T : Column({}, y) = [x \in {} |-> 0]
      OBVIOUS
  <2>2. Sum(Rows({})) = 0 /\ \A y \in T : Sum(Column({}, y)) = 0
      BY <2>1, SumZero
  <2>3. Columns({}) = [y \in T |-> 0]
      BY <2>2
  <2>4. Sum(Columns({})) = 0
      BY <2>3, SumZero
  <2> QED
      BY <2>2, <2>4
<1>4. ASSUME NEW A \in D, NEW x \in S \ A
      PROVE  A \union {x} \in D
  <2>1. IsFiniteSet(A) /\ A \union {x} \in SUBSET S
      BY FS_Subset
  <2>2. Sum(Rows(A \union {x})) = Sum(Rows(A)) + row[x]
    <3>1. \A y \in A \union {x} : row[y] \in Nat
        BY <1>1
    <3> HIDE DEF row
    <3> QED
        BY <2>1, <3>1, SumExtend
  <2>3. \A y \in T : Sum(Column(A \union {x}, y)) = Sum(Column(A, y)) + f[x][y]
    <3> SUFFICES ASSUME NEW y \in T
                 PROVE  Sum(Column(A \union {x}, y)) = Sum(Column(A, y)) + f[x][y]
        OBVIOUS
    <3> DEFINE k == [z \in S |-> f[z][y]]
    <3>1. \A z \in A \union {x} : k[z] \in Nat
        OBVIOUS
    <3>2. /\ Column(A \union {x}, y) = [z \in A \union {x} |-> k[z]]
          /\ Column(A, y) = [z \in A |-> k[z]] /\ f[x][y] = k[x]
        OBVIOUS
    <3>3. Sum([z \in A \union {x} |-> k[z]]) = Sum([z \in A |-> k[z]]) + k[x]
      <4> HIDE DEF k
      <4> QED
          BY <2>1, <3>1, SumExtend
    <3> QED
        BY <3>2, <3>3, Zenon
  <2>4. Columns(A) \in [T -> Nat] /\ f[x] \in [T -> Nat]
      BY <1>2
  <2>5. Columns(A \union {x}) = [y \in T |-> Columns(A)[y] + f[x][y]]
      BY <2>3
  <2>6. Sum(Columns(A \union {x})) = Sum(Columns(A)) + Sum(f[x])
    <3> HIDE DEF Columns
    <3> QED
        BY <2>4, <2>5, SumPlus
  <2>7. row[x] = Sum(f[x]) /\ Sum(Rows(A)) = Sum(Columns(A))
      OBVIOUS
  <2>8. Sum(Rows(A \union {x})) = Sum(Columns(A \union {x}))
    <3> HIDE DEF Rows, Columns, row
    <3> QED
        BY <2>2, <2>6, <2>7
  <2> QED
      BY <2>1, <2>8
<1>5. S \in D
  <2>1. \A A \in D : A \subseteq S /\ \A x \in S \ A : A \union {x} \in D
      BY <1>4
  <2> HIDE DEF D
  <2> QED
      BY <1>3, <2>1, FiniteInduction
<1>6. Rows(S) = row
    OBVIOUS
<1> QED
    BY <1>5, <1>6

(***************************************************************************)
(* Quotients                                                               *)
(***************************************************************************)
\* A quotient of natural numbers is one.
LEMMA DivNat ==
    ASSUME NEW m \in Nat, NEW n \in Nat \ {0}
    PROVE  m \div n \in Nat
    OBVIOUS

\* A quotient is rounded down, by less than one.
LEMMA DivBounds ==
    ASSUME NEW m \in Nat, NEW n \in Nat \ {0}
    PROVE  /\ m \div n \in Nat
           /\ n * (m \div n) <= m
           /\ m < n * (m \div n) + n
    OBVIOUS

\* A product of natural numbers is one, and grows with each of them.
LEMMA ProductMonotone ==
    ASSUME NEW m \in Nat, NEW n \in Nat, NEW k \in Nat, m <= n
    PROVE  m * k \in Nat /\ m * k <= n * k /\ k * m <= k * n
    OBVIOUS

\* A quotient is no more than any number that is enough when multiplied.
LEMMA QuotientBound ==
    ASSUME NEW m \in Nat, NEW n \in Nat \ {0}, NEW q \in Nat, m <= n * q
    PROVE  m \div n \in Nat /\ m \div n <= q
<1> DEFINE d == m \div n
<1>1. d \in Nat /\ n * d <= m
    BY DivBounds
<1> HIDE DEF d
<1>2. ASSUME q + 1 <= d
      PROVE  FALSE
  <2>1. n * (q + 1) <= n * d
      BY <1>1, <1>2, ProductMonotone
  <2>2. n * (q + 1) = n * q + n /\ n * q \in Nat /\ n * d \in Nat
      BY <1>1
  <2> QED
      BY <1>1, <2>1, <2>2
<1>3. d <= q
    BY <1>1, <1>2
<1> QED
    BY <1>1, <1>3 DEF d
===============================================================================

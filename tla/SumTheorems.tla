---------------------------- MODULE SumTheorems ----------------------------
(* What changes a sum, and what bounds it; shares of an amount.            *)
EXTENDS Sums, FiniteSetTheorems, WellFoundedInduction, TLAPS

LEMMA UnitsMember ==
    ASSUME NEW S, NEW f \in [S -> Nat], NEW p
    PROVE  p \in Units(f) <=> \E x \in S : \E k \in 1..f[x] : p = <<x, k>>
  BY DEF Units

(* The sum of a function on a finite set is a natural number.              *)
LEMMA SumType ==
    ASSUME NEW S, IsFiniteSet(S), NEW f \in [S -> Nat]
    PROVE  IsFiniteSet(Units(f)) /\ Sum(f) \in Nat
<1> DEFINE g == [x \in S |-> {x} \X (1..f[x])]
           T == {{x} \X (1..f[x]) : x \in S}
<1>1. g \in Surjection(S, T)
  BY DEF Surjection
<1>2. IsFiniteSet(T)
  BY <1>1, FS_Surjection
<1>3. ASSUME NEW t \in T PROVE IsFiniteSet(t)
  <2>1. PICK x \in S : t = {x} \X (1..f[x])
    OBVIOUS
  <2>2. IsFiniteSet({x})
    BY FS_Singleton, Zenon
  <2>3. 1 \in Int /\ f[x] \in Int
    OBVIOUS
  <2>4. IsFiniteSet(1..f[x])
    BY <2>3, FS_Interval
  <2> QED
    BY <2>1, <2>2, <2>4, FS_Product
<1>4. IsFiniteSet(UNION T)
  BY <1>2, <1>3, FS_UNION
<1>5. Units(f) = UNION T
  BY DEF Units
<1> QED
  BY <1>4, <1>5, FS_CardinalityType DEF Sum

(* Raising one value raises the sum by as much.                            *)
THEOREM SumAdd ==
    ASSUME NEW S, IsFiniteSet(S), NEW f \in [S -> Nat], NEW x \in S,
           NEW n \in Nat
    PROVE  Sum([f EXCEPT ![x] = f[x] + n]) = Sum(f) + n
<1> DEFINE g == [f EXCEPT ![x] = f[x] + n]
           J == (f[x] + 1)..(f[x] + n)
           D == {x} \X J
<1>1. g \in [S -> Nat] /\ g[x] = f[x] + n /\ \A y \in S \ {x} : g[y] = f[y]
  OBVIOUS
<1>2. IsFiniteSet(J) /\ Cardinality(J) = n
  <2>1. f[x] + 1 \in Int /\ f[x] + n \in Int /\ f[x] \in Nat
    OBVIOUS
  <2>2. /\ IsFiniteSet(J)
        /\ Cardinality(J) = IF f[x] + 1 > f[x] + n THEN 0
                            ELSE (f[x] + n) - (f[x] + 1) + 1
    BY <2>1, FS_Interval
  <2> QED
    BY <2>1, <2>2
<1>3. IsFiniteSet({x}) /\ Cardinality({x}) = 1
  BY FS_Singleton
<1>4. IsFiniteSet(D) /\ Cardinality(D) = n
  <2>1. IsFiniteSet(D) /\ Cardinality(D) = Cardinality({x}) * Cardinality(J)
    BY <1>2, <1>3, FS_Product
  <2>2. 1 * n = n
    OBVIOUS
  <2> QED
    BY <1>2, <1>3, <2>1, <2>2
<1> HIDE DEF g
<1>g. \A p : p \in Units(g) <=> \E y \in S : \E k \in 1..g[y] : p = <<y, k>>
  <2>1. g \in [S -> Nat]
    BY <1>1
  <2> QED
    BY <2>1, UnitsMember
<1>5. Units(g) = Units(f) \cup D
  <2>1. ASSUME NEW p \in Units(g) PROVE p \in Units(f) \cup D
    <3>0. PICK y \in S : \E k \in 1..g[y] : p = <<y, k>>
      BY <1>g, <2>1
    <3>1. PICK k \in 1..g[y] : p = <<y, k>>
      BY <3>0
    <3>2. CASE y = x /\ k > f[x]
      BY <1>1, <3>1, <3>2
    <3>3. CASE ~(y = x /\ k > f[x])
      <4>1. k \in 1..f[y]
        BY <1>1, <3>1, <3>3
      <4> QED
        BY <3>1, <4>1, UnitsMember
    <3> QED
      BY <3>2, <3>3
  <2>2. ASSUME NEW p \in Units(f) PROVE p \in Units(g)
    <3>0. PICK y \in S : \E k \in 1..f[y] : p = <<y, k>>
      BY <2>2, UnitsMember
    <3>1. PICK k \in 1..f[y] : p = <<y, k>>
      BY <3>0
    <3>2. k \in 1..g[y]
      BY <1>1, <3>1
    <3> QED
      BY <1>1, <1>g, <3>1, <3>2
  <2>3. ASSUME NEW p \in D PROVE p \in Units(g)
    <3>1. PICK k \in J : p = <<x, k>>
      BY <2>3
    <3>2. k \in 1..g[x]
      BY <1>1, <3>1
    <3> QED
      BY <1>1, <1>g, <3>1, <3>2
  <2> QED
    BY <2>1, <2>2, <2>3
<1>6. Units(f) \cap D = {}
  <2>1. ASSUME NEW p \in Units(f), p \in D PROVE FALSE
    <3>0. PICK y \in S : \E k \in 1..f[y] : p = <<y, k>>
      BY <2>1, UnitsMember
    <3>1. PICK k \in 1..f[y] : p = <<y, k>>
      BY <3>0
    <3> QED
      BY <2>1, <3>1
  <2> QED
    BY <2>1
<1>7. IsFiniteSet(Units(f)) /\ Cardinality(Units(f)) \in Nat
  BY SumType DEF Sum
<1>8. Cardinality(Units(g)) = Cardinality(Units(f)) + n - Cardinality({})
  BY <1>4, <1>5, <1>6, <1>7, FS_Union
<1> QED
  BY <1>7, <1>8, FS_EmptySet DEF Sum, g

LEMMA SumRaise ==
    ASSUME NEW S, IsFiniteSet(S), NEW f \in [S -> Nat], NEW g \in [S -> Nat],
           NEW x \in S, f[x] <= g[x], \A y \in S \ {x} : g[y] = f[y]
    PROVE  Sum(g) = Sum(f) + (g[x] - f[x])
<1> DEFINE n == g[x] - f[x]
           h == [f EXCEPT ![x] = f[x] + n]
<1>1. n \in Nat
  OBVIOUS
<1>2. h \in [S -> Nat] /\ \A y \in S : h[y] = g[y]
  OBVIOUS
<1>3. h = g
  BY <1>2
<1>4. Sum(h) = Sum(f) + n
  BY <1>1, SumAdd, ZenonT(40)
<1> QED
  BY <1>3, <1>4

(* Changing one value changes the sum by as much.                          *)
THEOREM SumChange ==
    ASSUME NEW S, IsFiniteSet(S), NEW f \in [S -> Nat], NEW g \in [S -> Nat],
           NEW x \in S, \A y \in S \ {x} : g[y] = f[y]
    PROVE  Sum(g) = Sum(f) + (g[x] - f[x])
<1>1. f[x] \in Nat /\ g[x] \in Nat
  OBVIOUS
<1>2. CASE f[x] <= g[x]
  BY <1>2, SumRaise
<1>3. CASE g[x] <= f[x]
  <2>1. Sum(f) = Sum(g) + (f[x] - g[x])
    BY <1>3, SumRaise
  <2>2. Sum(f) \in Nat /\ Sum(g) \in Nat
    BY SumType
  <2> QED
    BY <1>1, <2>1, <2>2
<1> QED
  BY <1>1, <1>2, <1>3

(* Every value is within the sum.                                          *)
THEOREM SumBound ==
    ASSUME NEW S, IsFiniteSet(S), NEW f \in [S -> Nat], NEW x \in S
    PROVE  f[x] <= Sum(f)
<1> DEFINE g == [f EXCEPT ![x] = 0]
<1>1. /\ g \in [S -> Nat]
      /\ g[x] = 0
      /\ f[x] \in Nat
      /\ \A y \in S \ {x} : g[y] = f[y]
  OBVIOUS
<1> HIDE DEF g
<1>2. Sum(g) = Sum(f) + (g[x] - f[x])
  BY <1>1, SumChange
<1>3. Sum(g) \in Nat /\ Sum(f) \in Nat
  BY <1>1, SumType
<1> QED
  BY <1>1, <1>2, <1>3

(* A function that is zero everywhere sums to zero.                        *)
THEOREM SumZero ==
    ASSUME NEW S, NEW f \in [S -> Nat], \A x \in S : f[x] = 0
    PROVE  Sum(f) = 0
<1>1. Units(f) = {}
  <2>1. ASSUME NEW p \in Units(f) PROVE FALSE
    <3>1. PICK x \in S : \E k \in 1..f[x] : p = <<x, k>>
      BY <2>1, UnitsMember
    <3> QED
      BY <3>1
  <2> QED
    BY <2>1
<1> QED
  BY <1>1, FS_EmptySet DEF Sum

(* A function on the union of two disjoint sets.                           *)
THEOREM SumSplit ==
    ASSUME NEW S, NEW T, IsFiniteSet(S), IsFiniteSet(T),
           \A x \in S : x \notin T,
           NEW U, \A x : x \in U <=> x \in S \/ x \in T,
           NEW f \in [U -> Nat],
           NEW g \in [S -> Nat], \A x \in S : g[x] = f[x],
           NEW h \in [T -> Nat], \A x \in T : h[x] = f[x]
    PROVE  Sum(f) = Sum(g) + Sum(h)
<1>1. DOMAIN f = U /\ DOMAIN g = S /\ DOMAIN h = T
  OBVIOUS
<1>2. /\ IsFiniteSet(Units(g)) /\ Cardinality(Units(g)) \in Nat
      /\ IsFiniteSet(Units(h)) /\ Cardinality(Units(h)) \in Nat
  BY SumType DEF Sum
<1>3. Units(f) = Units(g) \cup Units(h)
  BY <1>1 DEF Units
<1>4. Units(g) \cap Units(h) = {}
  BY DEF Units
<1>5. Cardinality(Units(f))
          = Cardinality(Units(g)) + Cardinality(Units(h)) - Cardinality({})
  BY <1>2, <1>3, <1>4, FS_Union
<1> QED
  BY <1>2, <1>5, FS_EmptySet DEF Sum

(* One element more.                                                       *)
THEOREM SumOneMore ==
    ASSUME NEW S, IsFiniteSet(S), NEW a, a \notin S,
           NEW U, \A x : x \in U <=> x \in S \/ x = a,
           NEW f \in [U -> Nat],
           NEW g \in [S -> Nat], \A x \in S : g[x] = f[x]
    PROVE  Sum(f) = Sum(g) + f[a]
<1> DEFINE T == {a}
           h == [x \in T |-> f[x]]
           z == [x \in T |-> 0]
<1>1. f[a] \in Nat /\ \A x : x \in U <=> x \in S \/ x \in T
  OBVIOUS
<1>2. IsFiniteSet(T) /\ \A x \in S : x \notin T
  BY FS_Singleton
<1>3. /\ h \in [T -> Nat] /\ z \in [T -> Nat]
      /\ h[a] = f[a] /\ z[a] = 0 /\ \A x \in T : z[x] = 0
      /\ a \in T /\ \A y \in T \ {a} : h[y] = z[y]
      /\ \A x \in T : h[x] = f[x]
  BY <1>1
<1> HIDE DEF h, z, T
<1>4. Sum(z) = 0
  BY <1>3, SumZero
<1>5. Sum(h) = Sum(z) + (h[a] - z[a])
  BY <1>2, <1>3, SumChange
<1>6. Sum(f) = Sum(g) + Sum(h)
  BY <1>1, <1>2, <1>3, SumSplit
<1> QED
  BY <1>1, <1>3, <1>4, <1>5, <1>6

(* Zeros added to a function do not change its sum.                        *)
LEMMA SumPadded ==
    ASSUME NEW U, IsFiniteSet(U), NEW S \in SUBSET U, NEW f \in [U -> Nat],
           NEW g \in [S -> Nat], \A x \in S : f[x] = g[x],
           \A x \in U : x \notin S => f[x] = 0
    PROVE  Sum(f) = Sum(g)
<1> DEFINE T == U \ S
           h == [x \in T |-> 0]
<1>1. IsFiniteSet(S) /\ IsFiniteSet(T)
  BY FS_Subset
<1>2. /\ \A x \in S : x \notin T /\ g[x] = f[x]
      /\ \A x : x \in U <=> x \in S \/ x \in T
      /\ h \in [T -> Nat] /\ \A x \in T : h[x] = 0
      /\ \A x \in T : h[x] = f[x]
  OBVIOUS
<1> HIDE DEF T, h
<1>3. Sum(h) = 0
  BY <1>2, SumZero
<1>4. Sum(f) = Sum(g) + Sum(h)
  BY <1>1, <1>2, SumSplit
<1>5. Sum(g) \in Nat
  BY <1>1, SumType
<1> QED
  BY <1>3, <1>4, <1>5

(* A function that is nowhere larger has no larger sum.                    *)
THEOREM SumMonotone ==
    ASSUME NEW S, IsFiniteSet(S), NEW f \in [S -> Nat], NEW g \in [S -> Nat],
           \A x \in S : f[x] <= g[x]
    PROVE  Sum(f) <= Sum(g)
<1>1. Units(f) \subseteq Units(g)
  <2>1. ASSUME NEW p \in Units(f) PROVE p \in Units(g)
    <3>1. PICK x \in S : \E k \in 1..f[x] : p = <<x, k>>
      BY <2>1, UnitsMember
    <3>2. PICK k \in 1..f[x] : p = <<x, k>>
      BY <3>1
    <3>3. k \in 1..g[x]
      OBVIOUS
    <3> QED
      BY <3>2, <3>3, UnitsMember
  <2> QED
    BY <2>1
<1> QED
  BY <1>1, SumType, FS_Subset DEF Sum

(* The sum of two functions.                                               *)
THEOREM SumPlus ==
    ASSUME NEW S, IsFiniteSet(S), NEW f \in [S -> Nat], NEW g \in [S -> Nat],
           NEW s \in [S -> Nat], \A x \in S : s[x] = f[x] + g[x]
    PROVE  Sum(s) = Sum(f) + Sum(g)
<1> DEFINE D == {p \in Units(s) : p[2] > f[p[1]]}
           m == [p \in Units(g) |-> <<p[1], f[p[1]] + p[2]>>]
<1>2. /\ IsFiniteSet(Units(f)) /\ Sum(f) \in Nat
      /\ IsFiniteSet(Units(g)) /\ Sum(g) \in Nat
  BY SumType
<1>3. \A p : p \in Units(s) <=> \E x \in S : \E k \in 1..s[x] : p = <<x, k>>
  BY UnitsMember
<1>4. ASSUME NEW p \in Units(g)
      PROVE  /\ p = <<p[1], p[2]>> /\ p[1] \in S /\ p[2] \in 1..g[p[1]]
             /\ m[p] = <<p[1], f[p[1]] + p[2]>>
  <2>1. PICK x \in S : \E k \in 1..g[x] : p = <<x, k>>
    BY UnitsMember
  <2>2. PICK k \in 1..g[x] : p = <<x, k>>
    BY <2>1
  <2> QED
    BY <2>2
<1>5. ASSUME NEW p \in D
      PROVE  /\ p = <<p[1], p[2]>> /\ p[1] \in S /\ p[2] \in 1..s[p[1]]
             /\ p[2] > f[p[1]]
  <2>1. PICK x \in S : \E k \in 1..s[x] : p = <<x, k>>
    BY <1>3
  <2>2. PICK k \in 1..s[x] : p = <<x, k>>
    BY <2>1
  <2> QED
    BY <2>2
<1>6. m \in [Units(g) -> D]
  <2>1. ASSUME NEW p \in Units(g) PROVE m[p] \in D
    <3> DEFINE x == p[1]
               k == p[2]
    <3>1. x \in S /\ k \in 1..g[x] /\ m[p] = <<x, f[x] + k>>
      BY <1>4
    <3> HIDE DEF x, k
    <3>2. f[x] + k \in 1..s[x] /\ f[x] + k > f[x]
      BY <3>1
    <3>3. m[p] \in Units(s)
      BY <1>3, <3>1, <3>2
    <3> QED
      BY <3>1, <3>2, <3>3
  <2> QED
    BY <2>1
<1>7. m \in Injection(Units(g), D)
  <2>1. ASSUME NEW p \in Units(g), NEW q \in Units(g), m[p] = m[q]
        PROVE  p = q
    <3>0. <<p[1], f[p[1]] + p[2]>> = <<q[1], f[q[1]] + q[2]>>
      BY <1>4, <2>1, Zenon
    <3>1. p[1] = q[1] /\ f[p[1]] + p[2] = f[q[1]] + q[2]
      BY <3>0
    <3>a. /\ p[1] \in S /\ p[2] \in 1..g[p[1]]
          /\ q[1] \in S /\ q[2] \in 1..g[q[1]]
      BY <1>4, Zenon
    <3>2. f[p[1]] \in Int /\ p[2] \in Int /\ q[2] \in Int
      BY <3>a
    <3>b. \A i, j, k \in Int : i + j = i + k => j = k
      OBVIOUS
    <3>c. f[p[1]] + p[2] = f[p[1]] + q[2]
      BY <3>1, Zenon
    <3>3. p[2] = q[2]
      BY <3>2, <3>b, <3>c, Zenon
    <3> QED
      BY <1>4, <3>1, <3>3
  <2> QED
    BY <1>6, <2>1 DEF Injection, IsInjective
<1>8. \A q \in D : \E p \in Units(g) : m[p] = q
  <2>1. ASSUME NEW q \in D PROVE \E p \in Units(g) : m[p] = q
    <3> DEFINE x == q[1]
               k == q[2] - f[x]
               p == <<x, k>>
    <3>1. /\ q = <<x, q[2]>> /\ x \in S /\ q[2] \in 1..s[x] /\ q[2] > f[x]
      BY <1>5
    <3>2. k \in 1..g[x] /\ f[x] + k = q[2]
      BY <3>1
    <3> HIDE DEF x, k
    <3>3. p \in Units(g)
      BY <3>1, <3>2, UnitsMember
    <3>4. m[p] = <<x, f[x] + k>>
      BY <3>3
    <3> QED
      BY <3>1, <3>2, <3>3, <3>4
  <2> QED
    BY <2>1
<1>9. m \in Bijection(Units(g), D)
  BY <1>6, <1>7, <1>8 DEF Bijection, Surjection
<1>10. IsFiniteSet(D) /\ Cardinality(D) = Cardinality(Units(g))
  BY <1>2, <1>9, FS_Bijection DEF ExistsBijection
<1>11. Units(s) = Units(f) \cup D /\ Units(f) \cap D = {}
  <2>1. ASSUME NEW p \in Units(s), p \notin D PROVE p \in Units(f)
    <3>1. PICK x \in S : \E k \in 1..s[x] : p = <<x, k>>
      BY <1>3, <2>1
    <3>2. PICK k \in 1..s[x] : p = <<x, k>>
      BY <3>1
    <3>3. k \in 1..f[x]
      BY <2>1, <3>2
    <3> QED
      BY <3>2, <3>3, UnitsMember
  <2>2. ASSUME NEW p \in Units(f) PROVE p \in Units(s) /\ p \notin D
    <3>1. PICK x \in S : \E k \in 1..f[x] : p = <<x, k>>
      BY <2>2, UnitsMember
    <3>2. PICK k \in 1..f[x] : p = <<x, k>>
      BY <3>1
    <3>3. k \in 1..s[x]
      OBVIOUS
    <3> QED
      BY <1>3, <3>2, <3>3
  <2> QED
    BY <2>1, <2>2
<1>12. Cardinality(Units(s))
           = Cardinality(Units(f)) + Cardinality(D) - Cardinality({})
  BY <1>2, <1>10, <1>11, FS_Union
<1> QED
  BY <1>2, <1>10, <1>12, FS_EmptySet DEF Sum

(* A set of naturals that is not empty has a least element.                *)
LEMMA LeastNat ==
    ASSUME NEW T, T \subseteq Nat, T # {}
    PROVE  \E n \in T : \A k \in T : n <= k
<1> DEFINE R == {ss \in Nat \X Nat : ss[1] < ss[2]}
<1>1. IsWellFoundedOn(R, Nat)
  BY NatLessThanWellFounded DEF OpToRel
<1>2. \A k, n \in Nat : <<k, n>> \in R <=> k < n
  OBVIOUS
<1> HIDE DEF R
<1>3. PICK n \in T : \A k \in T : ~(<<k, n>> \in R)
  BY <1>1, WFMin
<1>4. \A k \in T : ~(k < n)
  BY <1>2, <1>3
<1> QED
  BY <1>4

(* A multiple of a function.  The proof looks at the least factor for      *)
(* which it would fail.                                                    *)
THEOREM SumScale ==
    ASSUME NEW S, IsFiniteSet(S), NEW f \in [S -> Nat], NEW c \in Nat,
           NEW g \in [S -> Nat], \A x \in S : g[x] = c * f[x]
    PROVE  Sum(g) = c * Sum(f)
<1> DEFINE F(n) == [x \in S |-> n * f[x]]
           Bad == {n \in Nat : Sum(F(n)) # n * Sum(f)}
<1>1. Sum(f) \in Nat
  BY SumType
<1>2. ASSUME NEW n \in Nat PROVE F(n) \in [S -> Nat]
  <2>1. ASSUME NEW x \in S PROVE n * f[x] \in Nat
    <3>1. f[x] \in Nat
      OBVIOUS
    <3> QED
      BY <3>1
  <2> QED
    BY <2>1
<1>3. 0 \notin Bad
  <2>1. \A x \in S : F(0)[x] = 0
    OBVIOUS
  <2>2. F(0) \in [S -> Nat]
    BY <1>2
  <2>3. Sum(F(0)) = 0
    BY <2>1, <2>2, SumZero
  <2>4. 0 * Sum(f) = 0
    BY <1>1
  <2> QED
    BY <2>3, <2>4
<1>4. ASSUME NEW n \in Nat, n \notin Bad PROVE n + 1 \notin Bad
  <2>1. F(n) \in [S -> Nat] /\ F(n + 1) \in [S -> Nat]
    BY <1>2
  <2>2. \A x \in S : (n + 1) * f[x] = n * f[x] + f[x]
    <3>1. \A k \in Nat : (n + 1) * k = n * k + k
      OBVIOUS
    <3> QED
      BY <3>1
  <2>3. \A x \in S : F(n + 1)[x] = F(n)[x] + f[x]
    BY <2>2
  <2>4. Sum(F(n)) = n * Sum(f)
    BY <1>4
  <2> HIDE DEF F
  <2>5. Sum(F(n + 1)) = Sum(F(n)) + Sum(f)
    BY <2>1, <2>3, SumPlus
  <2>6. (n + 1) * Sum(f) = n * Sum(f) + Sum(f)
    BY <1>1
  <2>7. Sum(F(n + 1)) = (n + 1) * Sum(f)
    BY <2>4, <2>5, <2>6
  <2> QED
    BY <2>7 DEF F
<1> HIDE DEF Bad
<1>5. Bad = {}
  <2> SUFFICES ASSUME Bad # {} PROVE FALSE
    OBVIOUS
  <2>0. Bad \subseteq Nat
    BY DEF Bad
  <2>1. PICK n \in Bad : \A k \in Bad : n <= k
    BY <2>0, LeastNat
  <2>2. n \in Nat /\ n # 0
    BY <1>3, <2>0
  <2>3. n - 1 \in Nat /\ (n - 1) + 1 = n /\ ~(n <= n - 1)
    BY <2>2
  <2>4. n - 1 \notin Bad
    BY <2>1, <2>3
  <2>5. (n - 1) + 1 \notin Bad
    BY <1>4, <2>3, <2>4
  <2> QED
    BY <2>3, <2>5
<1>6. F(c) = g
  OBVIOUS
<1> QED
  BY <1>5, <1>6 DEF Bad

-----------------------------------------------------------------------------
(* Arithmetic of shares: products and quotients of naturals.              *)

LEMMA MulMonotone ==
    ASSUME NEW a \in Nat, NEW b \in Nat, NEW c \in Nat, NEW d \in Nat,
           a <= b, c <= d
    PROVE  a * c <= b * d
<1>1. a * c <= b * c
  BY SMT
<1>2. b * c <= b * d
  BY SMT
<1>3. a * c \in Nat /\ b * c \in Nat /\ b * d \in Nat
  BY SMT
<1> QED
  BY <1>1, <1>2, <1>3, SMT

LEMMA DivFacts ==
    ASSUME NEW a \in Nat, NEW d \in Nat \ {0}
    PROVE  /\ a \div d \in Nat
           /\ d * (a \div d) <= a
           /\ a < d * (a \div d) + d
  BY SMT

LEMMA DivMonotone ==
    ASSUME NEW a \in Nat, NEW b \in Nat, NEW d \in Nat \ {0}, a <= b
    PROVE  a \div d <= b \div d
<1> DEFINE x == a \div d
           y == b \div d
<1>1. x \in Nat /\ d * x <= a
  BY DivFacts
<1>2. y \in Nat /\ b < d * y + d
  BY DivFacts
<1>3. ASSUME y + 1 <= x PROVE FALSE
  <2>1. d * (y + 1) <= d * x
    BY <1>1, <1>2, <1>3, MulMonotone
  <2>2. d * (y + 1) = d * y + d
    BY <1>2, SMT
  <2> HIDE DEF x, y
  <2>3. d * x \in Nat /\ d * y \in Nat
    BY <1>1, <1>2, SMT
  <2> QED
    BY <1>1, <1>2, <2>1, <2>2, <2>3, SMT
<1> HIDE DEF x, y
<1>4. x <= y
  BY <1>1, <1>2, <1>3, SMT
<1> QED
  BY <1>4 DEF x, y

LEMMA DivAtMost ==
    ASSUME NEW m \in Nat, NEW e \in Nat, NEW d \in Nat \ {0}, e <= d
    PROVE  (m * e) \div d <= m
<1>1. m * e \in Nat /\ m * d \in Nat /\ m * e <= m * d
  BY MulMonotone
<1>2. (m * e) \div d <= (m * d) \div d
  BY <1>1, DivMonotone
<1>3. (m * d) \div d = m
  BY SMT
<1> QED
  BY <1>2, <1>3
=============================================================================

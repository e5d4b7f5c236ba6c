---------------------------- MODULE DataTheorems -----------------------------
(* What a sum over a finite set is bounded by, how it changes with one summand *)
(* and how it is put together; induction over the naturals with a set for the  *)
(* property; functions that are defined by recursion over a number of steps or *)
(* over the heights of trees; and that what is ordered can be sorted.          *)
EXTENDS Sums, FiniteSetTheorems, WellFoundedInduction, TLAPS

LEMMA ColumnUnits ==
  ASSUME NEW x, NEW n \in Nat
  PROVE  IsFiniteSet({x} \X (1 .. n)) /\ Cardinality({x} \X (1 .. n)) = n
<1>1. IsFiniteSet({x}) /\ Cardinality({x}) = 1 BY FS_Singleton
<1>2. IsFiniteSet(1 .. n) /\ Cardinality(1 .. n) = n BY FS_Interval
<1>3. Cardinality({x}) * Cardinality(1 .. n) = n BY <1>1, <1>2
<1>4. /\ IsFiniteSet({x} \X (1 .. n))
      /\ Cardinality({x} \X (1 .. n)) = Cardinality({x}) * Cardinality(1 .. n)
  BY <1>1, <1>2, FS_Product
<1>5. QED BY <1>3, <1>4

LEMMA UnitsFinite ==
  ASSUME NEW S, IsFiniteSet(S), NEW f, \A x \in S : f[x] \in Nat
  PROVE  IsFiniteSet(Units(f, S))
<1> DEFINE C == {{x} \X (1 .. f[x]) : x \in S}
           g == [x \in S |-> {x} \X (1 .. f[x])]
<1>1. g \in Surjection(S, C)
  <2>1. g \in [S -> C] OBVIOUS
  <2>2. \A c \in C : \E x \in S : g[x] = c OBVIOUS
  <2>3. QED BY <2>1, <2>2 DEF Surjection
<1>2. IsFiniteSet(C) BY <1>1, FS_Surjection
<1>3. ASSUME NEW c \in C PROVE IsFiniteSet(c)
  <2>1. PICK x \in S : c = {x} \X (1 .. f[x]) OBVIOUS
  <2>2. f[x] \in Nat OBVIOUS
  <2>3. QED BY <2>1, <2>2, ColumnUnits
<1>4. QED BY <1>2, <1>3, FS_UNION DEF Units

\* A sum of naturals is a natural.
THEOREM TotalNat ==
  ASSUME NEW S, IsFiniteSet(S), NEW f, \A x \in S : f[x] \in Nat
  PROVE  Total(f, S) \in Nat
BY UnitsFinite, FS_CardinalityType DEF Total

\* A sum over fewer elements is not larger.
THEOREM TotalSubset ==
  ASSUME NEW S, IsFiniteSet(S), NEW f, \A x \in S : f[x] \in Nat, NEW T \in SUBSET S
  PROVE  Total(f, T) <= Total(f, S)
<1>1. Units(f, T) \subseteq Units(f, S) BY DEF Units
<1>2. QED BY <1>1, UnitsFinite, FS_Subset DEF Total

\* A sum only depends on the summands, and pointwise larger summands give a
\* larger sum.
THEOREM TotalMonotone ==
  ASSUME NEW S, IsFiniteSet(S), NEW f, NEW g,
         \A x \in S : f[x] \in Nat /\ g[x] \in Nat /\ f[x] <= g[x]
  PROVE  Total(f, S) <= Total(g, S)
<1>1. \A x \in S : {x} \X (1 .. f[x]) \subseteq {x} \X (1 .. g[x]) OBVIOUS
<1>2. Units(f, S) \subseteq Units(g, S) BY <1>1 DEF Units
<1>3. QED BY <1>2, UnitsFinite, FS_Subset DEF Total

\* One summand can be taken out.
THEOREM TotalSplit ==
  ASSUME NEW S, IsFiniteSet(S), NEW f, \A x \in S : f[x] \in Nat, NEW x \in S
  PROVE  Total(f, S) = f[x] + Total(f, S \ {x})
<1> DEFINE A == {x} \X (1 .. f[x])
           B == Units(f, S \ {x})
<1>1. IsFiniteSet(A) /\ Cardinality(A) = f[x] BY ColumnUnits
<1>2. IsFiniteSet(S \ {x}) BY FS_RemoveElement
<1>3. IsFiniteSet(B) BY <1>2, UnitsFinite
<1>4. Units(f, S) = A \cup B BY DEF Units
<1>5. A \cap B = {} BY DEF Units
<1>6. Cardinality(A \cap B) = 0 BY <1>5, FS_EmptySet
<1>7. Cardinality(B) \in Nat BY <1>3, FS_CardinalityType
<1> HIDE DEF A, B
<1>8. Cardinality(A \cup B) = f[x] + Cardinality(B) BY <1>1, <1>3, <1>6, <1>7, FS_Union
<1>9. QED BY <1>4, <1>8 DEF Total, B

\* No summand exceeds the sum.
THEOREM TotalElement ==
  ASSUME NEW S, IsFiniteSet(S), NEW f, \A x \in S : f[x] \in Nat, NEW x \in S
  PROVE  f[x] <= Total(f, S)
<1>1. IsFiniteSet(S \ {x}) BY FS_RemoveElement
<1>2. Total(f, S \ {x}) \in Nat BY <1>1, TotalNat
<1>3. QED BY <1>2, TotalSplit

\* One summand changes: the sum changes by as much.
THEOREM TotalChange ==
  ASSUME NEW S, IsFiniteSet(S), NEW f, NEW g, \A y \in S : f[y] \in Nat /\ g[y] \in Nat,
         NEW x \in S, \A y \in S \ {x} : g[y] = f[y]
  PROVE  Total(g, S) + f[x] = Total(f, S) + g[x]
<1> DEFINE R == S \ {x}
<1>1. IsFiniteSet(R) BY FS_RemoveElement
<1>2. \A y \in R : f[y] \in Nat /\ g[y] \in Nat /\ f[y] <= g[y] /\ g[y] <= f[y] OBVIOUS
<1>3. Total(f, S) = f[x] + Total(f, R) /\ Total(g, S) = g[x] + Total(g, R) BY TotalSplit
<1> HIDE DEF R
<1>4. Total(f, R) <= Total(g, R) /\ Total(g, R) <= Total(f, R) BY <1>1, <1>2, TotalMonotone
<1>5. Total(f, R) \in Nat /\ Total(g, R) \in Nat BY <1>1, <1>2, TotalNat
<1>6. f[x] \in Nat /\ g[x] \in Nat OBVIOUS
<1>7. QED BY <1>3, <1>4, <1>5, <1>6

\* Nothing sums to nothing.
THEOREM TotalZero ==
  ASSUME NEW S, NEW f, \A x \in S : f[x] = 0
  PROVE  Total(f, S) = 0
<1>1. \A x \in S : {x} \X (1 .. f[x]) = {} OBVIOUS
<1>2. Units(f, S) = {} BY <1>1 DEF Units
<1>3. QED BY <1>2, FS_EmptySet DEF Total


\* A sum covers each sum whose summands outside it are nought.
THEOREM TotalCover ==
  ASSUME NEW S, IsFiniteSet(S), NEW T, NEW f,
         \A x \in S : f[x] \in Nat, \A x \in T : f[x] = 0 \/ x \in S
  PROVE  Total(f, T) <= Total(f, S)
<1>1. \A x \in T \ S : {x} \X (1 .. f[x]) = {} OBVIOUS
<1>2. Units(f, T) \subseteq Units(f, S) BY <1>1 DEF Units
<1>3. QED BY <1>2, UnitsFinite, FS_Subset DEF Total

LEMMA BijectionFacts ==
  ASSUME NEW S, NEW T, NEW b
  PROVE  b \in Bijection(S, T) <=>
           /\ b \in [S -> T]
           /\ \A x, y \in S : b[x] = b[y] => x = y
           /\ \A t \in T : \E x \in S : b[x] = t
<1>1. b \in [S -> T] => DOMAIN b = S OBVIOUS
<1>2. b \in Injection(S, T) <=> b \in [S -> T] /\ \A x, y \in S : b[x] = b[y] => x = y
  BY <1>1 DEF Injection, IsInjective
<1>3. b \in Surjection(S, T) <=> b \in [S -> T] /\ \A t \in T : \E x \in S : b[x] = t
  BY DEF Surjection
<1>4. QED BY <1>2, <1>3 DEF Bijection

LEMMA ApartCardinality ==
  ASSUME NEW A, NEW C, IsFiniteSet(A), IsFiniteSet(C), A \cap C = {}
  PROVE  Cardinality(A \cup C) = Cardinality(A) + Cardinality(C)
<1>1. Cardinality(A \cap C) = 0 BY FS_EmptySet
<1>2. Cardinality(A) \in Nat /\ Cardinality(C) \in Nat BY FS_CardinalityType
<1>3. Cardinality(A \cup C) = Cardinality(A) + Cardinality(C) - Cardinality(A \cap C) BY FS_Union
<1>4. QED BY <1>1, <1>2, <1>3

\* A sum over two sets that share nothing is the sum of the sums.
THEOREM TotalUnion ==
  ASSUME NEW S, IsFiniteSet(S), NEW T, IsFiniteSet(T), S \cap T = {}, NEW f,
         \A x \in S \cup T : f[x] \in Nat
  PROVE  Total(f, S \cup T) = Total(f, S) + Total(f, T)
<1> DEFINE A == Units(f, S)
           B == Units(f, T)
<1>1. IsFiniteSet(A) /\ IsFiniteSet(B) BY UnitsFinite
<1>2. Units(f, S \cup T) = A \cup B BY DEF Units
<1>3. A \cap B = {} BY DEF Units
<1> HIDE DEF A, B
<1>4. Cardinality(A \cup B) = Cardinality(A) + Cardinality(B) BY <1>1, <1>3, ApartCardinality
<1>5. QED BY <1>2, <1>4 DEF Total, A, B

\* A sum of sums over blocks, which share nothing and cover a set, is the sum
\* over the set.
THEOREM TotalPartition ==
  ASSUME NEW S, IsFiniteSet(S), NEW T, IsFiniteSet(T), NEW f, NEW g, NEW B,
         \A x \in S : f[x] \in Nat, \A y \in T : g[y] \in Nat,
         \A x \in S : B[x] \subseteq T /\ f[x] = Total(g, B[x]),
         \A x, z \in S : x # z => B[x] \cap B[z] = {},
         \A y \in T : \E x \in S : y \in B[x]
  PROVE  Total(f, S) = Total(g, T)
<1> DEFINE F(x) == CHOOSE b : b \in Bijection(1 .. f[x], Units(g, B[x]))
<1>1. ASSUME NEW x \in S PROVE F(x) \in Bijection(1 .. f[x], Units(g, B[x]))
  <2>1. IsFiniteSet(B[x]) /\ \A y \in B[x] : g[y] \in Nat BY FS_Subset
  <2>2. IsFiniteSet(Units(g, B[x])) BY <2>1, UnitsFinite
  <2>3. ExistsBijection(1 .. f[x], Units(g, B[x])) BY <2>2, FS_CardinalityType DEF Total
  <2>4. QED BY <2>3 DEF ExistsBijection
<1> HIDE DEF F
<1>2. ASSUME NEW x \in S
      PROVE  /\ \A i \in 1 .. f[x] : F(x)[i] \in Units(g, B[x])
             /\ \A i, j \in 1 .. f[x] : F(x)[i] = F(x)[j] => i = j
             /\ \A v \in Units(g, B[x]) : \E i \in 1 .. f[x] : F(x)[i] = v
  <2>1. F(x) \in Bijection(1 .. f[x], Units(g, B[x])) BY <1>1
  <2>2. QED BY <2>1, BijectionFacts
<1> DEFINE H == [u \in Units(f, S) |-> F(u[1])[u[2]]]
<1>3. ASSUME NEW u \in Units(f, S)
      PROVE  /\ u[1] \in S /\ u[2] \in 1 .. f[u[1]] /\ u = <<u[1], u[2]>>
             /\ H[u] \in Units(g, B[u[1]]) /\ H[u] = F(u[1])[u[2]]
  BY <1>2 DEF Units
<1>4. ASSUME NEW v, NEW X PROVE v \in Units(g, X) => v[1] \in X
  BY DEF Units
<1>5. \A x \in S : Units(g, B[x]) \subseteq Units(g, T) BY DEF Units
<1>6. H \in [Units(f, S) -> Units(g, T)] BY <1>3, <1>5
<1>7. ASSUME NEW u \in Units(f, S), NEW w \in Units(f, S), H[u] = H[w] PROVE u = w
  <2>1. H[u][1] \in B[u[1]] /\ H[u][1] \in B[w[1]] BY <1>3, <1>4, <1>7
  <2>2. u[1] = w[1] BY <1>3, <2>1
  <2>3. u[2] = w[2] BY <1>2, <1>3, <1>7, <2>2
  <2>4. QED BY <1>3, <2>2, <2>3
<1>8. ASSUME NEW v \in Units(g, T) PROVE \E u \in Units(f, S) : H[u] = v
  <2>1. PICK y \in T : v \in {y} \X (1 .. g[y]) BY DEF Units
  <2>2. PICK x \in S : y \in B[x] OBVIOUS
  <2>3. v \in Units(g, B[x]) BY <2>1, <2>2 DEF Units
  <2>4. PICK n \in 1 .. f[x] : F(x)[n] = v BY <1>2, <2>3
  <2>5. <<x, n>> \in Units(f, S) BY <2>4 DEF Units
  <2>6. H[<<x, n>>] = v BY <2>4, <2>5
  <2>7. QED BY <2>5, <2>6
<1> HIDE DEF H
<1>9. H \in Bijection(Units(f, S), Units(g, T))
  BY <1>6, <1>7, <1>8, BijectionFacts
<1>10. IsFiniteSet(Units(f, S)) BY UnitsFinite
<1>11. ExistsBijection(Units(f, S), Units(g, T)) BY <1>9 DEF ExistsBijection
<1>12. QED BY <1>10, <1>11, FS_Bijection DEF Total

\* Adding sums summand by summand.
THEOREM TotalPlus ==
  ASSUME NEW S, IsFiniteSet(S), NEW f, NEW g, NEW h,
         \A x \in S : f[x] \in Nat /\ g[x] \in Nat /\ h[x] = f[x] + g[x]
  PROVE  Total(h, S) = Total(f, S) + Total(g, S)
<1> DEFINE A == Units(f, S)
           G == Units(g, S)
           C == Units(h, S) \ A
           H == [u \in G |-> <<u[1], f[u[1]] + u[2]>>]
<1>1. IsFiniteSet(A) /\ IsFiniteSet(G) BY UnitsFinite
<1>2. A \subseteq Units(h, S)
  <2>1. \A x \in S : {x} \X (1 .. f[x]) \subseteq {x} \X (1 .. h[x]) OBVIOUS
  <2>2. QED BY <2>1 DEF Units
<1>3. ASSUME NEW u \in G
      PROVE  /\ u[1] \in S /\ u[2] \in 1 .. g[u[1]] /\ u = <<u[1], u[2]>>
             /\ H[u] = <<u[1], f[u[1]] + u[2]>>
  BY DEF Units
<1>4. ASSUME NEW v PROVE v \in C <=> \E x \in S : \E n \in f[x] + 1 .. h[x] : v = <<x, n>>
  <2>1. v \in Units(h, S) <=> \E x \in S : \E n \in 1 .. h[x] : v = <<x, n>> BY DEF Units
  <2>2. v \in A <=> \E x \in S : \E n \in 1 .. f[x] : v = <<x, n>> BY DEF Units
  <2>3. ASSUME NEW x \in S, NEW n \in 1 .. h[x]
        PROVE  n \in 1 .. f[x] <=> n \notin f[x] + 1 .. h[x]
    OBVIOUS
  <2>4. \A x \in S : f[x] + 1 .. h[x] \subseteq 1 .. h[x] OBVIOUS
  <2>5. QED BY <2>1, <2>2, <2>3, <2>4
<1>5. H \in [G -> C]
  <2>1. ASSUME NEW u \in G PROVE H[u] \in C
    <3>1. /\ f[u[1]] \in Nat /\ g[u[1]] \in Nat /\ h[u[1]] = f[u[1]] + g[u[1]]
          /\ u[2] \in 1 .. g[u[1]]
      BY <1>3
    <3>2. f[u[1]] + u[2] \in f[u[1]] + 1 .. h[u[1]] BY <3>1
    <3>3. QED BY <1>3, <1>4, <3>2
  <2>2. QED BY <2>1
<1>6. ASSUME NEW u \in G, NEW w \in G, H[u] = H[w] PROVE u = w
  <2>1. u[1] = w[1] /\ f[u[1]] + u[2] = f[w[1]] + w[2] BY <1>3, <1>6
  <2>2. f[u[1]] \in Nat /\ g[u[1]] \in Nat /\ u[2] \in 1 .. g[u[1]] /\ w[2] \in 1 .. g[u[1]]
    BY <1>3, <2>1
  <2>3. f[u[1]] + u[2] = f[u[1]] + w[2] BY <2>1
  <2>4. u[2] = w[2] BY <2>2, <2>3
  <2>5. QED BY <1>3, <2>1, <2>4
<1>7. ASSUME NEW v \in C PROVE \E u \in G : H[u] = v
  <2>1. PICK x \in S : \E n \in f[x] + 1 .. h[x] : v = <<x, n>> BY <1>4
  <2>2. PICK n \in f[x] + 1 .. h[x] : v = <<x, n>> BY <2>1
  <2>3. n - f[x] \in 1 .. g[x] /\ f[x] + (n - f[x]) = n OBVIOUS
  <2>4. <<x, n - f[x]>> \in G BY <2>3 DEF Units
  <2>5. H[<<x, n - f[x]>>] = v BY <2>2, <2>3, <2>4
  <2>6. QED BY <2>4, <2>5
<1> HIDE DEF H, C, G
<1>8. H \in Bijection(G, C) BY <1>5, <1>6, <1>7, BijectionFacts
<1>9. ExistsBijection(G, C) BY <1>8 DEF ExistsBijection
<1>10. IsFiniteSet(C) /\ Cardinality(C) = Cardinality(G) BY <1>1, <1>9, FS_Bijection
<1>11. Units(h, S) = A \cup C /\ A \cap C = {} BY <1>2 DEF C
<1> HIDE DEF A
<1>12. Cardinality(A \cup C) = Cardinality(A) + Cardinality(C)
  BY <1>1, <1>10, <1>11, ApartCardinality
<1>13. QED BY <1>10, <1>11, <1>12 DEF Total, A, G

\* The sum of ones is the number of elements.
THEOREM TotalOnes ==
  ASSUME NEW S, IsFiniteSet(S), NEW f, \A x \in S : f[x] = 1
  PROVE  Total(f, S) = Cardinality(S)
<1> DEFINE H == [x \in S |-> <<x, 1>>]
<1>1. \A x \in S : 1 .. f[x] = {1} OBVIOUS
<1>2. Units(f, S) = {<<x, 1>> : x \in S} BY <1>1 DEF Units
<1>3. H \in Bijection(S, Units(f, S))
  <2>1. /\ \A x \in S : H[x] = <<x, 1>> /\ H[x] \in Units(f, S)
        /\ \A v \in Units(f, S) : \E x \in S : v = <<x, 1>>
        /\ H \in [S -> Units(f, S)]
    BY <1>2
  <2> HIDE DEF H
  <2>2. \A x, y \in S : H[x] = H[y] => x = y BY <2>1
  <2>3. \A v \in Units(f, S) : \E x \in S : H[x] = v BY <2>1
  <2>4. QED BY <2>1, <2>2, <2>3, BijectionFacts
<1>4. ExistsBijection(S, Units(f, S)) BY <1>3 DEF ExistsBijection
<1>5. QED BY <1>4, FS_Bijection DEF Total

Fibre(e, T, x) == {i \in T : e[i] = x}

\* A set is as large as its fibres together.
THEOREM TotalFibres ==
  ASSUME NEW S, IsFiniteSet(S), NEW T, IsFiniteSet(T), NEW e, \A i \in T : e[i] \in S,
         NEW f, \A x \in S : f[x] = Cardinality(Fibre(e, T, x))
  PROVE  (\A x \in S : f[x] \in Nat) /\ Total(f, S) = Cardinality(T)
<1> DEFINE B == [x \in S |-> {i \in T : e[i] = x}]
           one == [i \in T |-> 1]
<1>1. \A x \in S : B[x] = {i \in T : e[i] = x} /\ B[x] \subseteq T OBVIOUS
<1>2. \A x \in S : f[x] = Cardinality(B[x]) BY DEF Fibre
<1>3. \A i \in T : one[i] = 1 OBVIOUS
<1>4. \A x, z \in S : x # z => B[x] \cap B[z] = {} BY <1>1
<1>5. \A i \in T : \E x \in S : i \in B[x] BY <1>1
<1> HIDE DEF B, one
<1>6. \A x \in S : IsFiniteSet(B[x]) BY <1>1, FS_Subset
<1>7. \A x \in S : f[x] \in Nat BY <1>2, <1>6, FS_CardinalityType
<1>8. \A x \in S : \A i \in B[x] : one[i] = 1 BY <1>1, <1>3
<1>9. \A x \in S : Total(one, B[x]) = Cardinality(B[x]) BY <1>6, <1>8, TotalOnes
<1>10. \A x \in S : B[x] \subseteq T /\ f[x] = Total(one, B[x]) BY <1>1, <1>2, <1>9
<1>11. \A i \in T : one[i] \in Nat BY <1>3
<1>12. Total(f, S) = Total(one, T) BY <1>4, <1>5, <1>7, <1>10, <1>11, TotalPartition
<1>13. Total(one, T) = Cardinality(T) BY <1>3, TotalOnes
<1>14. QED BY <1>7, <1>12, <1>13
-----------------------------------------------------------------------------
\* Induction. The library's theorems take an operator for the property.

(* A set of naturals has a least element. *)
THEOREM LeastNatural ==
  ASSUME NEW T \in SUBSET Nat, T # {}
  PROVE  \E m \in T : \A n \in T : m <= n
<1> DEFINE U == {1 .. n : n \in T}
           R == StrictSubsetOrdering(Nat)
<1>1. U \subseteq FiniteSubsetsOf(Nat) BY FS_Interval DEF FiniteSubsetsOf
<1>2. U # {} OBVIOUS
<1>3. IsWellFoundedOn(R, FiniteSubsetsOf(Nat)) BY FS_StrictSubsetOrderingWellFounded
<1>4. PICK B \in U : \A C \in U : ~ (<<C, B>> \in R)
  <2> HIDE DEF U, R
  <2>1. QED BY <1>1, <1>2, <1>3, WFMin
<1>5. PICK m \in T : B = 1 .. m BY <1>4
<1>6. ASSUME NEW n \in T, n < m PROVE FALSE
  <2>1. 1 .. n \in U OBVIOUS
  <2>2. 1 .. n \subseteq 1 .. m /\ m \in 1 .. m /\ m \notin 1 .. n BY <1>6
  <2>3. (1 .. n) \in SUBSET Nat /\ (1 .. m) \in SUBSET Nat OBVIOUS
  <2>4. << 1 .. n, 1 .. m >> \in R BY <2>2, <2>3 DEF StrictSubsetOrdering
  <2>5. QED BY <1>4, <1>5, <2>1, <2>4
<1>7. QED BY <1>6

(* Induction: a set of naturals with 0 and with the successor of each of its  *)
(* elements up to n has all of them.                                          *)
THEOREM Induction ==
  ASSUME NEW n \in Nat, NEW P, 0 \in P, \A i \in 0 .. n : i \in P /\ i # n => i + 1 \in P
  PROVE  \A i \in 0 .. n : i \in P
<1> SUFFICES ASSUME NEW j \in 0 .. n, j \notin P PROVE FALSE OBVIOUS
<1> DEFINE T == {i \in 0 .. n : i \notin P}
<1>1. T \in SUBSET Nat /\ T # {} OBVIOUS
<1>2. PICK m \in T : \A i \in T : m <= i
  <2> HIDE DEF T
  <2>1. QED BY <1>1, LeastNatural
<1>3. m \in 1 .. n /\ m - 1 \in 0 .. n /\ m - 1 # n OBVIOUS
<1>4. m - 1 \in P BY <1>2, <1>3
<1>5. QED BY <1>3, <1>4

(* The values of a function on 0 .. n that is defined by recursion.           *)
Runs(n, S, start, step) ==
  {run \in [0 .. n -> S] : run[0] = start /\ \A i \in 1 .. n : run[i] = step[<<run[i - 1], i>>]}

(* What is computed step by step is computed: the recursive function exists.  *)
THEOREM RunExists ==
  ASSUME NEW n \in Nat, NEW S, NEW start \in S, NEW step, step \in [S \X (1 .. n) -> S]
  PROVE  Runs(n, S, start, step) # {}
<1> DEFINE IsRun(run, m) == /\ run \in [0 .. m -> S] /\ run[0] = start
                           /\ \A i \in 1 .. m : run[i] = step[<<run[i - 1], i>>]
           P == {m \in 0 .. n : \E run : IsRun(run, m)}
<1>1. 0 \in P
  <2>1. IsRun([i \in 0 .. 0 |-> start], 0) OBVIOUS
  <2>2. \E run : IsRun(run, 0) BY <2>1
  <2> HIDE DEF IsRun
  <2>3. QED BY <2>2
<1>2. ASSUME NEW m \in 0 .. n, m \in P, m # n PROVE m + 1 \in P
  <2>1. PICK run : IsRun(run, m) BY <1>2
  <2> DEFINE longer == [i \in 0 .. m + 1 |-> IF i = m + 1 THEN step[<<run[m], m + 1>>] ELSE run[i]]
  <2>2. m + 1 \in 1 .. n /\ run[m] \in S BY <1>2, <2>1
  <2>3. step[<<run[m], m + 1>>] \in S BY <2>2
  <2>4. longer \in [0 .. m + 1 -> S] BY <2>1, <2>3
  <2>5. longer[0] = start BY <2>1
  <2>6. ASSUME NEW i \in 1 .. m + 1 PROVE longer[i] = step[<<longer[i - 1], i>>]
    <3>1. CASE i = m + 1
      <4>1. i - 1 = m /\ m \in 0 .. m + 1 /\ m # m + 1 /\ i \in 0 .. m + 1 BY <3>1
      <4>2. longer[i - 1] = run[m] /\ longer[i] = step[<<run[m], i>>] BY <3>1, <4>1
      <4>3. QED BY <4>2
    <3>2. CASE i \in 1 .. m BY <2>1, <3>2
    <3>3. QED BY <3>1, <3>2
  <2>7. IsRun(longer, m + 1) BY <2>4, <2>5, <2>6
  <2>8. \E other : IsRun(other, m + 1) BY <2>7
  <2> HIDE DEF IsRun
  <2>9. m + 1 \in 0 .. n BY <2>2
  <2>10. QED BY <2>8, <2>9
<1> HIDE DEF P
<1>3. \A i \in 0 .. n : i \in P BY <1>1, <1>2, Induction
<1>4. n \in P BY <1>3
<1>5. QED BY <1>4 DEF P, Runs

(* A function on D that is defined by recursion: step gives its value at an   *)
(* element from a function of which only the values at lower elements matter. *)
Lower(D, height, c, f, g) == \A x \in D : height[x] < height[c] => f[x] = g[x]

Recursive(D, S, height, step) ==
  /\ S # {} /\ height \in [D -> Nat] /\ step \in [D \X [D -> S] -> S]
  /\ \A c \in D : \A f, g \in [D -> S] : Lower(D, height, c, f, g) => step[<<c, f>>] = step[<<c, g>>]

SolutionsBelow(D, S, height, step, n) ==
  {f \in [D -> S] : \A c \in D : height[c] < n => f[c] = step[<<c, f>>]}

Solutions(D, S, step) == {f \in [D -> S] : \A c \in D : f[c] = step[<<c, f>>]}

LEMMA SolutionsBelowExist ==
  ASSUME NEW D, NEW S, NEW height, NEW step, Recursive(D, S, height, step), NEW n \in Nat
  PROVE  SolutionsBelow(D, S, height, step, n) # {}
<1> DEFINE F == [D -> S]
           next(f) == [c \in D |-> step[<<c, f>>]]
           move == [p \in F \X (1 .. n) |-> next(p[1])]
<1>1. PICK s \in S : TRUE BY DEF Recursive
<1> DEFINE start == [c \in D |-> s]
<1>2. start \in F OBVIOUS
<1>3. \A c \in D : height[c] \in Nat BY DEF Recursive
<1>4. \A f \in F : next(f) \in F /\ \A c \in D : next(f)[c] = step[<<c, f>>] BY DEF Recursive
<1>5. move \in [F \X (1 .. n) -> F] /\ \A f \in F, i \in 1 .. n : move[<<f, i>>] = next(f)
  BY <1>4
<1> HIDE DEF F, next, move, start
<1>6. Runs(n, F, start, move) # {} BY <1>2, <1>5, RunExists
<1>7. PICK run \in [0 .. n -> F] : \A i \in 1 .. n : run[i] = move[<<run[i - 1], i>>]
  BY <1>6 DEF Runs
<1>8. \A i \in 1 .. n : run[i - 1] \in F /\ run[i] = next(run[i - 1])
  <2>1. \A i \in 1 .. n : i - 1 \in 0 .. n OBVIOUS
  <2>2. QED BY <1>5, <1>7, <2>1
<1> DEFINE P == {i \in 0 .. n : \A c \in D : height[c] < i => run[i][c] = step[<<c, run[i]>>]}
<1>9. 0 \in P
  <2>1. \A c \in D : ~(height[c] < 0) BY <1>3
  <2>2. QED BY <2>1
<1>10. ASSUME NEW i \in 0 .. n, i \in P, i # n PROVE i + 1 \in P
  <2>1. i + 1 \in 1 .. n /\ i + 1 \in 0 .. n /\ (i + 1) - 1 = i BY <1>10
  <2>2. /\ run[i] \in F /\ run[i + 1] \in F /\ run[i + 1] = next(run[i])
    BY <1>7, <1>8, <2>1
  <2>3. \A c \in D : run[i + 1][c] = step[<<c, run[i]>>] BY <1>4, <2>2
  <2>4. ASSUME NEW c \in D, height[c] < i + 1 PROVE run[i + 1][c] = step[<<c, run[i + 1]>>]
    <3>1. ASSUME NEW x \in D, height[x] < height[c] PROVE run[i][x] = run[i + 1][x]
      <4>1. height[x] \in Nat /\ height[c] \in Nat BY <1>3
      <4>2. height[x] < i BY <2>4, <3>1, <4>1
      <4>3. QED BY <1>10, <2>3, <4>2
    <3>2. Lower(D, height, c, run[i], run[i + 1]) BY <3>1 DEF Lower
    <3>3. QED BY <2>2, <2>3, <3>2 DEF F, Recursive
  <2>5. QED BY <2>1, <2>4
<1> HIDE DEF P
<1>11. n \in P
  <2>1. \A i \in 0 .. n : i \in P BY <1>9, <1>10, Induction
  <2>2. QED BY <2>1
<1>12. run[n] \in F BY <1>7
<1>13. QED BY <1>11, <1>12 DEF P, SolutionsBelow, F

LEMMA SolutionsBelowAgree ==
  ASSUME NEW D, NEW S, NEW height, NEW step, Recursive(D, S, height, step),
         NEW n \in Nat, NEW m \in Nat, n <= m,
         NEW f \in SolutionsBelow(D, S, height, step, n), NEW g \in SolutionsBelow(D, S, height, step, m)
  PROVE  \A c \in D : height[c] < n => f[c] = g[c]
<1> DEFINE P == {i \in 0 .. n : \A c \in D : height[c] < i => f[c] = g[c]}
<1>1. /\ \A c \in D : height[c] \in Nat /\ (height[c] < n => height[c] < m)
      /\ f \in [D -> S] /\ g \in [D -> S]
  BY DEF Recursive, SolutionsBelow
<1>2. 0 \in P
  <2>1. \A c \in D : ~(height[c] < 0) BY <1>1
  <2>2. QED BY <2>1
<1>3. ASSUME NEW i \in 0 .. n, i \in P, i # n PROVE i + 1 \in P
  <2>1. i + 1 \in 0 .. n BY <1>3
  <2>2. ASSUME NEW c \in D, height[c] < i + 1 PROVE f[c] = g[c]
    <3>1. height[c] < n /\ \A x \in D : height[x] < height[c] => height[x] < i
      BY <1>1, <1>3, <2>2
    <3>2. Lower(D, height, c, f, g) BY <1>3, <3>1 DEF Lower
    <3>3. step[<<c, f>>] = step[<<c, g>>] BY <1>1, <3>2 DEF Recursive
    <3>4. f[c] = step[<<c, f>>] /\ g[c] = step[<<c, g>>] BY <1>1, <3>1 DEF SolutionsBelow
    <3>5. QED BY <3>3, <3>4
  <2>3. QED BY <2>1, <2>2
<1> HIDE DEF P
<1>4. n \in P
  <2>1. \A i \in 0 .. n : i \in P BY <1>2, <1>3, Induction
  <2>2. QED BY <2>1
<1>5. QED BY <1>4 DEF P

(* A function that is defined by recursion on the height of what it is        *)
(* applied to, on trees for example, exists.                                  *)
THEOREM RecursionExists ==
  ASSUME NEW D, NEW S, NEW height, NEW step, Recursive(D, S, height, step)
  PROVE  Solutions(D, S, step) # {}
<1> DEFINE Below(n) == SolutionsBelow(D, S, height, step, n)
           part(c) == CHOOSE f : f \in Below(height[c] + 1)
           whole == [c \in D |-> part(c)[c]]
<1>1. \A c \in D : height[c] \in Nat BY DEF Recursive
<1>2. \A c \in D : part(c) \in Below(height[c] + 1)
  <2>1. \A c \in D : Below(height[c] + 1) # {} BY <1>1, SolutionsBelowExist
  <2> HIDE DEF Below
  <2>2. QED BY <2>1
<1> HIDE DEF part
<1>3. \A c \in D : /\ part(c) \in [D -> S] /\ part(c)[c] \in S
                   /\ part(c)[c] = step[<<c, part(c)>>]
  <2>1. \A c \in D : height[c] < height[c] + 1 BY <1>1
  <2>2. QED BY <1>2, <2>1 DEF SolutionsBelow
<1>4. whole \in [D -> S] /\ \A c \in D : whole[c] = part(c)[c] BY <1>3
<1> HIDE DEF whole
<1>5. ASSUME NEW c \in D PROVE whole[c] = step[<<c, whole>>]
  <2>1. ASSUME NEW x \in D, height[x] < height[c] PROVE whole[x] = part(c)[x]
    <3>1. /\ height[x] + 1 \in Nat /\ height[c] + 1 \in Nat /\ height[x] + 1 <= height[c] + 1
          /\ height[x] < height[x] + 1
      BY <1>1, <2>1
    <3>2. part(x) \in Below(height[x] + 1) /\ part(c) \in Below(height[c] + 1) BY <1>2
    <3>3. part(x)[x] = part(c)[x] BY <3>1, <3>2, SolutionsBelowAgree
    <3>4. QED BY <1>4, <3>3
  <2>2. Lower(D, height, c, whole, part(c)) BY <2>1 DEF Lower
  <2>3. step[<<c, whole>>] = step[<<c, part(c)>>] BY <1>3, <1>4, <2>2 DEF Recursive
  <2>4. QED BY <1>3, <1>4, <2>3
<1>6. QED BY <1>4, <1>5 DEF Solutions

\* A sum does not depend on the elements where the summand is 0.
THEOREM TotalSupport ==
  ASSUME NEW S, NEW T \in SUBSET S, NEW f, \A x \in S \ T : f[x] = 0
  PROVE  Total(f, S) = Total(f, T)
<1>1. \A x \in S \ T : {x} \X (1 .. f[x]) = {} OBVIOUS
<1>2. Units(f, S) = Units(f, T) BY <1>1 DEF Units
<1>3. QED BY <1>2 DEF Total

-----------------------------------------------------------------------------
(* Sorting.                                                                   *)

StrictOrder(R, S) ==
  /\ \A x \in S : <<x, x>> \notin R
  /\ \A x, y, z \in S : <<x, y>> \in R /\ <<y, z>> \in R => <<x, z>> \in R
  /\ \A x, y \in S : x # y => <<x, y>> \in R \/ <<y, x>> \in R

Sorts(s, R, n) == s \in [1 .. n -> 1 .. n] /\ \A i, j \in 1 .. n : i < j => <<s[i], s[j]>> \in R

LEMMA InjectionFacts ==
  ASSUME NEW S, NEW f \in [S -> S], \A x, y \in S : f[x] = f[y] => x = y
  PROVE  f \in Injection(S, S)
<1>1. DOMAIN f = S OBVIOUS
<1>2. QED BY <1>1 DEF Injection, IsInjective

(* The numbers up to n can be put in the order R.                             *)
THEOREM SortExists ==
  ASSUME NEW n \in Nat, NEW R, StrictOrder(R, 1 .. n)
  PROVE  \E s : Sorts(s, R, n)
<1> DEFINE N == 1 .. n
           Ahead(i) == {j \in N : <<j, i>> \in R}
           rank == [i \in N |-> Cardinality(Ahead(i)) + 1]
<1>1. IsFiniteSet(N) /\ Cardinality(N) = n BY FS_Interval
<1>2. ASSUME NEW i \in N
      PROVE  IsFiniteSet(Ahead(i)) /\ Cardinality(Ahead(i)) \in Nat /\ Cardinality(Ahead(i)) <= n - 1
  <2>1. Ahead(i) \subseteq N \ {i} BY DEF StrictOrder
  <2>2. IsFiniteSet(N \ {i}) /\ Cardinality(N \ {i}) = n - 1 BY <1>1, FS_RemoveElement
  <2> HIDE DEF Ahead, N
  <2>3. QED BY <2>1, <2>2, FS_Subset, FS_CardinalityType
<1>3. rank \in [N -> N]
  <2>1. ASSUME NEW i \in N PROVE Cardinality(Ahead(i)) + 1 \in N
    <3>1. Cardinality(Ahead(i)) \in Nat /\ Cardinality(Ahead(i)) <= n - 1 BY <1>2
    <3> HIDE DEF Ahead
    <3>2. QED BY <3>1
  <2>2. QED BY <2>1
<1>4. ASSUME NEW i \in N, NEW j \in N, <<j, i>> \in R PROVE rank[j] < rank[i]
  <2>1. j \notin Ahead(j) /\ Ahead(j) \cup {j} \subseteq Ahead(i) BY <1>4 DEF StrictOrder
  <2>2. /\ IsFiniteSet(Ahead(i)) /\ IsFiniteSet(Ahead(j)) /\ Cardinality(Ahead(j)) \in Nat
        /\ Cardinality(Ahead(i)) \in Nat
    BY <1>2
  <2>3. rank[j] = Cardinality(Ahead(j)) + 1 /\ rank[i] = Cardinality(Ahead(i)) + 1 OBVIOUS
  <2> HIDE DEF Ahead, rank
  <2>4. Cardinality(Ahead(j) \cup {j}) = Cardinality(Ahead(j)) + 1 BY <2>1, <2>2, FS_AddElement
  <2>5. Cardinality(Ahead(j) \cup {j}) <= Cardinality(Ahead(i)) BY <2>1, <2>2, FS_Subset
  <2>6. QED BY <2>2, <2>3, <2>4, <2>5
<1>5. \A i, j \in N : rank[i] = rank[j] => i = j
  <2>1. SUFFICES ASSUME NEW i \in N, NEW j \in N, rank[i] = rank[j], i # j PROVE FALSE OBVIOUS
  <2>2. rank[i] \in N /\ rank[j] \in N BY <1>3
  <2> HIDE DEF rank
  <2>3. <<i, j>> \in R \/ <<j, i>> \in R BY <2>1 DEF StrictOrder
  <2>4. rank[i] < rank[j] \/ rank[j] < rank[i] BY <1>4, <2>3
  <2>5. QED BY <2>1, <2>2, <2>4
<1> HIDE DEF rank
<1>6. \A k \in N : \E i \in N : rank[i] = k
  <2> HIDE DEF N
  <2>1. rank \in Injection(N, N) BY <1>3, <1>5, InjectionFacts
  <2>2. rank \in Surjection(N, N) BY <1>1, <2>1, FS_Injection
  <2>3. QED BY <2>2 DEF Surjection
<1> DEFINE s == [k \in N |-> CHOOSE i \in N : rank[i] = k]
<1>7. s \in [N -> N] /\ \A k \in N : rank[s[k]] = k BY <1>6
<1> HIDE DEF s
<1>8. ASSUME NEW i \in N, NEW j \in N, i < j PROVE <<s[i], s[j]>> \in R
  <2>1. s[i] \in N /\ s[j] \in N /\ rank[s[i]] = i /\ rank[s[j]] = j BY <1>7
  <2>2. s[i] # s[j] /\ ~(rank[s[j]] < rank[s[i]]) BY <1>8, <2>1
  <2>3. <<s[j], s[i]>> \notin R BY <1>4, <2>1, <2>2
  <2>4. QED BY <2>1, <2>2, <2>3 DEF StrictOrder
<1>9. Sorts(s, R, n) BY <1>7, <1>8 DEF Sorts
<1>10. QED BY <1>9

(* What is sorted is all there.                                               *)
THEOREM SortedOnto ==
  ASSUME NEW n \in Nat, NEW R, StrictOrder(R, 1 .. n), NEW s, Sorts(s, R, n)
  PROVE  \A k \in 1 .. n : \E i \in 1 .. n : s[i] = k
<1> DEFINE N == 1 .. n
<1>1. IsFiniteSet(N) BY FS_Interval
<1>2. s \in [N -> N] BY DEF Sorts
<1>3. \A i, j \in N : s[i] = s[j] => i = j
  <2>1. SUFFICES ASSUME NEW i \in N, NEW j \in N, s[i] = s[j], i # j PROVE FALSE OBVIOUS
  <2>2. i < j \/ j < i BY <2>1
  <2>3. <<s[i], s[i]>> \in R BY <2>1, <2>2 DEF Sorts
  <2>4. QED BY <1>2, <2>3 DEF StrictOrder
<1> HIDE DEF N
<1>4. s \in Injection(N, N) BY <1>2, <1>3, InjectionFacts
<1>5. s \in Surjection(N, N) BY <1>1, <1>4, FS_Injection
<1>6. \A k \in N : \E i \in N : s[i] = k BY <1>5 DEF Surjection
<1>7. QED BY <1>6 DEF N
=============================================================================

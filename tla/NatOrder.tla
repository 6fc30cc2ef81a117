------------------------------- MODULE NatOrder -------------------------------
(***************************************************************************)
(* Least and greatest elements of sets of natural numbers, which "ORDER BY *)
(* id" and "max(id)" rely on, induction over a set of numbers, and the     *)
(* existence of functions that are defined by recursion.                   *)
(***************************************************************************)
EXTENDS Integers, FiniteSets, FiniteSetTheorems, WellFoundedInduction, TLAPS

\* A set of natural numbers that is not empty has a least element: the first row of
\* an ordered query exists.
LEMMA LeastExists ==
  ASSUME NEW S, S \subseteq Nat, S # {}
  PROVE  \E m \in S : \A x \in S : m <= x
<1>1. IsWellFoundedOn(OpToRel(<, Nat), Nat)
  BY NatLessThanWellFounded
<1>2. PICK m \in S : \A y \in S : ~ (<<y, m>> \in OpToRel(<, Nat))
  BY <1>1, WFMin
<1>3. \A y \in S : ~ (y < m)
  BY <1>2 DEF OpToRel
<1> QED BY <1>3

\* A bounded set of natural numbers that is not empty has a greatest element: max(id)
\* of a table with rows exists.
LEMMA GreatestExists ==
  ASSUME NEW n \in Nat, NEW S, S \subseteq 0 .. n, S # {}
  PROVE  \E m \in S : \A x \in S : x <= m
<1> DEFINE D == {d \in 0 .. n : n - d \in S}
<1>1. D \subseteq Nat /\ D # {}
  <2>1. PICK s \in S : TRUE
    OBVIOUS
  <2>2. n - s \in D
    BY <2>1, SMT
  <2> QED BY <2>2
<1>2. PICK d \in D : \A e \in D : d <= e
  BY <1>1, LeastExists
<1>3. n - d \in S
  OBVIOUS
<1>4. ASSUME NEW x \in S PROVE x <= n - d
  <2>1. n - x \in D
    BY SMT
  <2>2. d <= n - x
    BY <1>2, <2>1
  <2>3. x \in Int /\ d \in Int
    OBVIOUS
  <2> HIDE DEF D
  <2> QED BY <2>2, <2>3
<1> QED BY <1>3, <1>4

\* What holds of 0, and of n + 1 when it holds of n, holds of every number.
LEMMA SetInduction ==
  ASSUME NEW S, 0 \in S, \A n \in Nat : n \in S => n + 1 \in S
  PROVE  Nat \subseteq S
<1>1. SUFFICES ASSUME Nat \ S # {} PROVE FALSE
  OBVIOUS
<1>2. PICK m \in Nat \ S : \A x \in Nat \ S : m <= x
  BY <1>1, LeastExists
<1>3. m # 0 /\ m - 1 \in Nat
  BY <1>2
<1>4. m - 1 \in S
  BY <1>2, <1>3
<1> QED BY <1>2, <1>3, <1>4

\* What is made of 0, and then step by step of what was before, exists: a function
\* that is defined by recursion over numbers.
IsRecursion(f, N, s0, step) == f[0] = s0 /\ \A n \in 1..N : f[n] = step[n][f[n - 1]]
LEMMA RecursionExists ==
  ASSUME NEW N \in Nat, NEW S, NEW s0 \in S, NEW step \in [1..N -> [S -> S]]
  PROVE  \E f \in [0..N -> S] : IsRecursion(f, N, s0, step)
<1> DEFINE Upto(f, m) == f[0] = s0 /\ \A n \in 1..m : f[n] = step[n][f[n - 1]]
           Reached == {m \in Nat : m <= N => \E f \in [0..m -> S] : Upto(f, m)}
<1>1. 0 \in Reached
  <2> DEFINE f == [n \in 0..0 |-> s0]
  <2>1. f \in [0..0 -> S] /\ Upto(f, 0)
    OBVIOUS
  <2> HIDE DEF f, Upto
  <2> QED BY <2>1
<1>2. ASSUME NEW m \in Nat, m \in Reached PROVE m + 1 \in Reached
  <2>1. SUFFICES ASSUME m + 1 <= N PROVE \E f \in [0..m + 1 -> S] : Upto(f, m + 1)
    OBVIOUS
  <2>2. PICK f \in [0..m -> S] : Upto(f, m)
    BY <1>2, <2>1
  <2> DEFINE g == [n \in 0..m + 1 |-> IF n <= m THEN f[n] ELSE step[m + 1][f[m]]]
  <2>3. m + 1 \in 1..N /\ f[m] \in S /\ step[m + 1] \in [S -> S]
    BY <2>1
  <2>4. step[m + 1][f[m]] \in S
    BY <2>3
  <2>5. g \in [0..m + 1 -> S]
    BY <2>4
  <2>6. \A n \in 0..m : g[n] = f[n]
    OBVIOUS
  <2>7. g[m + 1] = step[m + 1][f[m]]
    OBVIOUS
  <2> HIDE DEF g
  <2>8. ASSUME NEW n \in 1..m + 1 PROVE g[n] = step[n][g[n - 1]]
    <3>1. CASE n = m + 1
      BY <2>6, <2>7, <3>1
    <3>2. CASE n \in 1..m
      BY <2>2, <2>6, <3>2
    <3> QED BY <3>1, <3>2
  <2>9. g[0] = s0
    BY <2>2, <2>6
  <2> QED BY <2>5, <2>8, <2>9
<1> HIDE DEF Reached, Upto
<1>3. Nat \subseteq Reached
  BY <1>1, <1>2, SetInduction
<1>4. \E f \in [0..N -> S] : Upto(f, N)
  BY <1>3 DEF Reached
<1> QED BY <1>4 DEF Upto, IsRecursion

\* A function that is defined by recursion along a relation that leads to smaller
\* numbers: its value at m is made of its value at p[m], or is given.
IsRecursionOn(f, D, S, p, b, g) == \A m \in D : f[m] = IF m \in S THEN g[m][f[p[m]]] ELSE b[m]
LEMMA RecursionOnExists ==
  ASSUME NEW D, D \subseteq Nat, NEW S, S \subseteq D, NEW p \in [S -> D], \A m \in S : p[m] < m,
         NEW V, NEW b \in [D -> V], NEW g \in [S -> [V -> V]]
  PROVE  \E f \in [D -> V] : IsRecursionOn(f, D, S, p, b, g)
<1> DEFINE Below(n) == {m \in D : m < n}
           Value(f, m) == IF m \in S THEN g[m][f[p[m]]] ELSE b[m]
           Upto(f, n) == \A m \in Below(n) : f[m] = Value(f, m)
           Reached == {n \in Nat : \E f \in [Below(n) -> V] : Upto(f, n)}
<1>a. \A m \in D : m \in Nat
  OBVIOUS
<1>b. \A m \in S : m \in D /\ p[m] \in D
  OBVIOUS
<1>c. \A m \in S : m \in Nat /\ p[m] \in Nat /\ p[m] < m
  BY <1>a, <1>b
<1>1. ASSUME NEW n \in Nat, NEW f \in [Below(n) -> V], NEW m \in D, m <= n PROVE Value(f, m) \in V
  <2>1. m \in S => p[m] \in Below(n) /\ g[m] \in [V -> V]
    BY <1>1, <1>a, <1>b, <1>c
  <2>2. m \in S => f[p[m]] \in V
    BY <2>1
  <2>3. m \in S => g[m][f[p[m]]] \in V
    BY <2>1, <2>2
  <2>4. b[m] \in V
    OBVIOUS
  <2> QED BY <2>3, <2>4
<1>2. 0 \in Reached
  <2>1. Below(0) = {}
    <3>1. ASSUME NEW m \in D, m < 0 PROVE FALSE
      BY <1>a, <3>1
    <3> QED BY <3>1
  <2> DEFINE f == [m \in Below(0) |-> b[m]]
  <2>2. f \in [Below(0) -> V] /\ Upto(f, 0)
    BY <2>1
  <2> HIDE DEF f, Upto
  <2> QED BY <2>2
<1>3. ASSUME NEW n \in Nat, n \in Reached PROVE n + 1 \in Reached
  <2>1. PICK f \in [Below(n) -> V] : Upto(f, n)
    BY <1>3
  <2> DEFINE h == [m \in Below(n + 1) |-> IF m < n THEN f[m] ELSE Value(f, m)]
  <2>2. \A m \in Below(n + 1) : m \in D /\ (m < n \/ m = n)
    BY <1>a
  <2>3. ASSUME NEW m \in Below(n + 1) PROVE h[m] \in V
    <3>1. m \in D /\ m <= n
      BY <1>a
    <3>2. Value(f, m) \in V
      BY <1>1, <3>1
    <3>3. m < n => f[m] \in V
      OBVIOUS
    <3> HIDE DEF Value
    <3> QED BY <3>2, <3>3
  <2>4. h \in [Below(n + 1) -> V]
    BY <2>3
  <2>5. \A m \in Below(n) : m \in Below(n + 1) /\ h[m] = f[m]
    BY <1>a
  <2>6. ASSUME NEW m \in Below(n + 1) PROVE h[m] = Value(f, m)
    <3>1. CASE m < n
      BY <2>1, <2>5, <3>1
    <3>2. CASE ~(m < n)
      BY <3>2
    <3> QED BY <3>1, <3>2
  <2> HIDE DEF h
  <2>7. ASSUME NEW m \in Below(n + 1) PROVE Value(h, m) = Value(f, m)
    <3>1. m \in S => p[m] \in Below(n)
      BY <2>2, <1>a, <1>b, <1>c
    <3> QED BY <2>5, <3>1
  <2>8. Upto(h, n + 1)
    BY <2>6, <2>7
  <2> HIDE DEF Upto
  <2> QED BY <2>4, <2>8
<1>4. Nat \subseteq Reached
  <2> HIDE DEF Reached
  <2> QED BY <1>2, <1>3, SetInduction
\* Two of them have the same values.
<1>5. ASSUME NEW k \in Nat, NEW n \in Nat, NEW f \in [Below(k) -> V], NEW h \in [Below(n) -> V],
             Upto(f, k), Upto(h, n)
      PROVE  \A m \in Below(k) \cap Below(n) : f[m] = h[m]
  <2> DEFINE Wrong == {m \in Below(k) \cap Below(n) : f[m] # h[m]}
  <2>1. SUFFICES ASSUME Wrong # {} PROVE FALSE
    OBVIOUS
  <2>2. PICK m \in Wrong : \A o \in Wrong : m <= o
    <3>1. Wrong \subseteq Nat
      OBVIOUS
    <3> HIDE DEF Wrong
    <3> QED BY <2>1, <3>1, LeastExists
  <2>3. m \in S => p[m] \in Below(k) \cap Below(n) /\ p[m] \notin Wrong
    BY <2>2, <1>a, <1>b, <1>c
  <2>4. m \in S => f[p[m]] = h[p[m]]
    BY <2>3
  <2>5. f[m] = Value(f, m) /\ h[m] = Value(h, m)
    BY <1>5
  <2> QED BY <2>4, <2>5
<1> DEFINE upto == [n \in Nat |-> CHOOSE f \in [Below(n) -> V] : Upto(f, n)]
           F == [m \in D |-> upto[m + 1][m]]
<1>6. ASSUME NEW n \in Nat PROVE upto[n] \in [Below(n) -> V] /\ Upto(upto[n], n)
  <2>1. \E f \in [Below(n) -> V] : Upto(f, n)
    BY <1>4
  <2> HIDE DEF Upto
  <2> QED BY <2>1
<1> HIDE DEF upto
<1>7. ASSUME NEW m \in D PROVE m + 1 \in Nat /\ m \in Below(m + 1) /\ F[m] = upto[m + 1][m]
  <2>1. m \in Nat /\ m + 1 \in Nat /\ m < m + 1
    BY <1>a
  <2>2. m \in Below(m + 1)
    BY <2>1
  <2>3. F[m] = upto[m + 1][m]
    OBVIOUS
  <2> QED BY <2>1, <2>2, <2>3
<1>8. F \in [D -> V]
  <2>1. ASSUME NEW m \in D PROVE upto[m + 1][m] \in V
    <3>1. m + 1 \in Nat /\ m \in Below(m + 1)
      BY <1>7
    <3>2. upto[m + 1] \in [Below(m + 1) -> V]
      BY <1>6, <3>1
    <3> HIDE DEF Below
    <3> QED BY <3>1, <3>2
  <2> QED BY <2>1
<1>9. ASSUME NEW m \in D PROVE F[m] = Value(F, m)
  <2>1. F[m] = Value(upto[m + 1], m)
    BY <1>6, <1>7
  <2>2. ASSUME m \in S PROVE F[p[m]] = upto[m + 1][p[m]]
    <3>1. p[m] \in D /\ p[m] < m /\ p[m] \in Nat /\ m \in Nat
      BY <2>2, <1>b, <1>c
    <3>2. p[m] \in Below(m + 1) /\ p[m] \in Below(p[m] + 1) /\ p[m] + 1 \in Nat
      BY <3>1
    <3>3. Upto(upto[m + 1], m + 1) /\ Upto(upto[p[m] + 1], p[m] + 1) /\ m + 1 \in Nat
          /\ upto[m + 1] \in [Below(m + 1) -> V] /\ upto[p[m] + 1] \in [Below(p[m] + 1) -> V]
      <4>1. m + 1 \in Nat
        BY <3>1
      <4> HIDE DEF Upto, Below
      <4> QED BY <1>6, <3>2, <4>1
    <3> HIDE DEF Upto, Below
    <3>4. upto[p[m] + 1][p[m]] = upto[m + 1][p[m]]
      BY <1>5, <3>2, <3>3
    <3> QED BY <1>7, <3>1, <3>4
  <2> HIDE DEF F
  <2> QED BY <2>1, <2>2
<1> HIDE DEF F
<1> QED BY <1>8, <1>9 DEF IsRecursionOn

\* As many pairs as first components.
LEMMA FunctionCounted ==
  ASSUME NEW D, IsFiniteSet(D), NEW F
  PROVE  /\ {q[1] : q \in {<<n, F[n]>> : n \in D}} = D
         /\ Cardinality(D) = Cardinality({<<n, F[n]>> : n \in D})
<1> DEFINE G == {<<n, F[n]>> : n \in D}
           f == [n \in D |-> <<n, F[n]>>]
<1>1. f \in Bijection(D, G)
  <2>1. f \in [D -> G] /\ \A n \in D : f[n] = <<n, F[n]>>
    OBVIOUS
  <2>2. \A m, n \in D : f[m] = f[n] => m = n
    OBVIOUS
  <2>3. \A q \in G : \E n \in D : f[n] = q
    OBVIOUS
  <2> HIDE DEF f, G
  <2> QED BY <2>1, <2>2, <2>3 DEF Bijection, Injection, IsInjective, Surjection
<1>2. ExistsBijection(D, G)
  BY <1>1 DEF ExistsBijection
<1>3. Cardinality(D) = Cardinality(G)
  BY <1>2, FS_Bijection
<1>4. {q[1] : q \in G} = D
  <2>1. ASSUME NEW n \in D PROVE n \in {q[1] : q \in G}
    <3>1. <<n, F[n]>> \in G /\ <<n, F[n]>>[1] = n
      OBVIOUS
    <3> HIDE DEF G
    <3> QED BY <3>1
  <2>2. ASSUME NEW q \in G PROVE q[1] \in D
    OBVIOUS
  <2> HIDE DEF G
  <2> QED BY <2>1, <2>2
<1> QED BY <1>3, <1>4

\* Paired with one and the same element a set has as many elements as before.
PairedWith(W, V, c) == \A w : w \in W <=> w[1] \in V /\ w[2] = c /\ w = <<w[1], w[2]>>
LEMMA PairsCounted ==
  ASSUME NEW V, IsFiniteSet(V), NEW c, NEW W, PairedWith(W, V, c)
  PROVE  Cardinality(W) = Cardinality(V)
<1> DEFINE pair == [u \in V |-> <<u, c>>]
<1>1. \A u \in V : <<u, c>> \in W
  BY DEF PairedWith
<1>2. pair \in [V -> W]
  BY <1>1
<1>3. pair \in Injection(V, W)
  BY <1>2 DEF Injection, IsInjective
<1>4. \A w \in W : w[1] \in V /\ pair[w[1]] = w
  BY DEF PairedWith
<1>5. pair \in Surjection(V, W)
  BY <1>2, <1>4 DEF Surjection
<1>6. ExistsBijection(V, W)
  BY <1>3, <1>5 DEF ExistsBijection, Bijection
<1> QED BY <1>6, FS_Bijection

\* Of some rows, at most as many as asked for are the newest, all if there are less;
\* of two rows of which the older one is among them the newer one is too.
IsNewest(page, rows, limit) ==
  /\ page \subseteq rows
  /\ \A i, j \in rows : i \in page /\ i < j => j \in page
  /\ rows # {} => page # {}
  /\ Cardinality(page) # limit => page = rows
TheNewest(page, rows, limit) == page = {i \in rows : Cardinality({j \in rows : j > i}) < limit}
LEMMA NewestAre ==
  ASSUME NEW n \in Nat, NEW rows, rows \subseteq 0..n, NEW limit \in Nat, limit # 0,
         NEW page, TheNewest(page, rows, limit)
  PROVE  IsNewest(page, rows, limit)
<1> DEFINE Later(i) == {j \in rows : j > i}
<1>1. rows \subseteq Nat /\ (\A i \in rows : i \in Nat /\ i <= n) /\ IsFiniteSet(rows)
  <2>1. rows \subseteq Nat /\ \A i \in rows : i \in Nat /\ i <= n
    OBVIOUS
  <2>2. IsFiniteSet(0..n)
    BY FS_Interval
  <2> QED BY <2>1, <2>2, FS_Subset
<1>2. \A i \in rows : IsFiniteSet(Later(i)) /\ Cardinality(Later(i)) \in Nat
  <2>1. \A i \in rows : Later(i) \subseteq rows
    OBVIOUS
  <2> QED BY <1>1, <2>1, FS_Subset, FS_CardinalityType
<1>3. page = {i \in rows : Cardinality(Later(i)) < limit}
  BY DEF TheNewest
<1>4. ASSUME NEW i \in rows, NEW j \in rows, i \in page, i < j PROVE j \in page
  <2>1. Later(j) \subseteq Later(i)
    <3>1. ASSUME NEW o \in rows, o > j PROVE o > i
      <4>1. o \in Nat /\ i \in Nat /\ j \in Nat
        BY <1>1
      <4> QED BY <1>4, <3>1, <4>1
    <3> QED BY <3>1
  <2>2. Cardinality(Later(j)) <= Cardinality(Later(i))
    BY <1>2, <2>1, FS_Subset
  <2>3. Cardinality(Later(i)) < limit
    BY <1>3, <1>4
  <2> HIDE DEF Later
  <2>4. Cardinality(Later(j)) < limit
    BY <1>2, <2>2, <2>3
  <2> QED BY <1>3, <2>4
<1>5. ASSUME NEW T, T \subseteq rows, T # {} PROVE \E m \in T : \A i \in T : i <= m
  <2>1. T \subseteq 0..n
    BY <1>5
  <2> QED BY <1>1, <1>5, <2>1, GreatestExists
<1>6. ASSUME rows # {} PROVE page # {}
  <2>1. PICK m \in rows : \A i \in rows : i <= m
    BY <1>5, <1>6
  <2>2. Later(m) = {}
    <3>1. ASSUME NEW o \in rows, o > m PROVE FALSE
      <4>1. o \in Nat /\ m \in Nat /\ o <= m
        BY <1>1, <2>1
      <4> QED BY <3>1, <4>1
    <3> QED BY <3>1
  <2>3. Cardinality(Later(m)) = 0
    BY <2>2, FS_EmptySet
  <2> HIDE DEF Later
  <2>4. m \in page
    BY <1>3, <2>3
  <2> QED BY <2>4
<1>7. page \subseteq rows /\ IsFiniteSet(page) /\ Cardinality(page) \in Nat
  BY <1>1, <1>3, FS_Subset, FS_CardinalityType
\* The last row of the page and those above it: no more than the limit.
<1>8. page # {} => Cardinality(page) <= limit
  <2>1. SUFFICES ASSUME page # {} PROVE Cardinality(page) <= limit
    OBVIOUS
  <2>2. page \subseteq Nat
    BY <1>1, <1>7
  <2>3. PICK m \in page : \A i \in page : m <= i
    BY <2>1, <2>2, LeastExists
  <2>4. m \in rows /\ Cardinality(Later(m)) < limit
    BY <1>3, <2>3
  <2>5. page \subseteq Later(m) \cup {m}
    BY <1>1, <1>7, <2>3
  <2>6. m \notin Later(m) /\ IsFiniteSet(Later(m)) /\ Cardinality(Later(m)) \in Nat
    BY <1>1, <1>2, <2>4
  <2> HIDE DEF Later
  <2>7. IsFiniteSet(Later(m) \cup {m}) /\ Cardinality(Later(m) \cup {m}) = Cardinality(Later(m)) + 1
    BY <2>6, FS_AddElement
  <2>8. Cardinality(page) <= Cardinality(Later(m) \cup {m})
    BY <2>5, <2>7, FS_Subset
  <2> QED BY <1>7, <2>4, <2>6, <2>7, <2>8
\* What is not on the page has all of it above.
<1>9. ASSUME page # rows PROVE Cardinality(page) = limit
  <2>1. rows \ page \subseteq rows /\ rows \ page # {}
    BY <1>7, <1>9
  <2>2. PICK m \in rows \ page : \A i \in rows \ page : i <= m
    BY <1>5, <2>1
  <2>3. Later(m) \subseteq page
    <3>1. ASSUME NEW o \in rows, o > m, o \notin page PROVE FALSE
      <4>1. o \in Nat /\ m \in Nat /\ o <= m
        BY <1>1, <2>2, <3>1
      <4> QED BY <3>1, <4>1
    <3> QED BY <3>1
  <2>4. ~(Cardinality(Later(m)) < limit)
    BY <1>3, <2>2
  <2>5. m \in rows
    BY <2>2
  <2>6. Cardinality(Later(m)) \in Nat
    BY <1>2, <2>5
  <2>7. Cardinality(Later(m)) <= Cardinality(page)
    BY <1>7, <2>3, FS_Subset
  <2> HIDE DEF Later
  <2>8. limit <= Cardinality(page)
    BY <1>7, <2>4, <2>6, <2>7
  <2>9. page # {}
    BY <1>6, <2>5
  <2> QED BY <1>7, <1>8, <2>8, <2>9
<1>10. \A i, j \in rows : i \in page /\ i < j => j \in page
  BY <1>4
<1>11. IsNewest(page, rows, limit)
  BY <1>6, <1>7, <1>9, <1>10 DEF IsNewest
<1> QED BY <1>11

=============================================================================

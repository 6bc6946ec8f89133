------------------------- MODULE RatchetTreeProofs --------------------------
(***************************************************************************)
(* The lemmas about the ratchet tree that the proofs about TreeKEM and     *)
(* about MLSGroup share: from the index arithmetic of tree.py the facts    *)
(* about ancestors, paths and resolutions, then what place_leaf and        *)
(* remove_leaf make of a full tree.  The last two sections state what the  *)
(* paths of the secret tree and of the ratchet tree are, for every size.   *)
(***************************************************************************)
EXTENDS RatchetTree, TLAPS, FiniteSetTheorems, SequenceTheorems, NaturalsInduction,
        WellFoundedInduction

-----------------------------------------------------------------------------
(* Induction and recursion. *)

LEMMA LeastNumber ==
    ASSUME NEW S \in SUBSET Nat, S # {}
    PROVE  \E x \in S : \A y \in S : x <= y
<1>1. PICK x \in S : \A y \in S : <<y, x>> \notin OpToRel(<, Nat)
    BY WFMin, NatLessThanWellFounded, Zenon
<1>2. \A y \in S : ~ (y < x)
    BY <1>1, Zenon DEF OpToRel
<1>3. \A y \in S : x <= y
    BY <1>2
<1> QED
    BY <1>3

LEMMA GreatestNumber ==
    ASSUME NEW n \in Nat, NEW S \in SUBSET (0 .. n), S # {}
    PROVE  \E x \in S : \A y \in S : y <= x
<1> DEFINE T == {n - x : x \in S}
<1>1. T \in SUBSET Nat /\ T # {}
  <2>1. \A x \in S : n - x \in Nat
      OBVIOUS
  <2>2. PICK x \in S : TRUE
      OBVIOUS
  <2>3. n - x \in T
      OBVIOUS
  <2> QED
      BY <2>1, <2>3
<1>2. PICK t \in T : \A y \in T : t <= y
  <2> HIDE DEF T
  <2> QED
      BY <1>1, LeastNumber
<1>3. PICK x \in S : t = n - x
    BY <1>2
<1>4. ASSUME NEW y \in S PROVE y <= x
  <2>1. n - x <= n - y
      BY <1>2, <1>3
  <2> QED
      BY <2>1
<1> QED
    BY <1>4

\* A set of numbers that has 0 and the successor of each number it has.
LEMMA Induction ==
    ASSUME NEW S, 0 \in S, \A n \in Nat : n \in S => n + 1 \in S
    PROVE  \A n \in Nat : n \in S
<1> DEFINE T == {n \in Nat : n \notin S}
<1>1. SUFFICES ASSUME T # {} PROVE FALSE
    OBVIOUS
<1>2. PICK x \in T : \A y \in T : x <= y
  <2>1. T \in SUBSET Nat
      OBVIOUS
  <2> HIDE DEF T
  <2> QED
      BY <1>1, <2>1, LeastNumber
<1>3. x \in Nat /\ x # 0 /\ x \notin S
    BY <1>2
<1>4. x - 1 \in Nat /\ x - 1 \notin T
    BY <1>2, <1>3
<1>5. x - 1 \in S
    BY <1>4
<1>6. (x - 1) + 1 \in S
    BY <1>4, <1>5
<1> QED
    BY <1>3, <1>6

(***************************************************************************)
(* A loop that decreases r computes something: the equation of a recursive *)
(* function on Nat has a solution when the value at x only depends on the  *)
(* values where r is less.  G is the right-hand side of the equation.      *)
(***************************************************************************)
Local(G, r, S) ==
    \A f, g \in [Nat -> S] : \A x \in Nat :
        (\A y \in Nat : r[y] < r[x] => f[y] = g[y]) => G[f][x] = G[g][x]

\* f solves the equation where r is less than n.
Solves(G, r, f, n) == \A y \in Nat : r[y] < n => f[y] = G[f][y]

Agree(r, f, g, n) == \A y \in Nat : r[y] < n => f[y] = g[y]

LEMMA SolutionsAgree ==
    ASSUME NEW S, NEW r \in [Nat -> Nat], NEW G \in [[Nat -> S] -> [Nat -> S]],
           Local(G, r, S),
           NEW n \in Nat, NEW f \in [Nat -> S], NEW g \in [Nat -> S],
           Solves(G, r, f, n), Solves(G, r, g, n)
    PROVE  Agree(r, f, g, n)
<1> DEFINE T == {m \in Nat : \A y \in Nat : r[y] < m /\ r[y] < n => f[y] = g[y]}
<1>1. 0 \in T
    OBVIOUS
<1>2. ASSUME NEW m \in Nat, m \in T PROVE m + 1 \in T
  <2>1. SUFFICES ASSUME NEW y \in Nat, r[y] < m + 1, r[y] < n PROVE f[y] = g[y]
      OBVIOUS
  <2>2. \A z \in Nat : r[z] < r[y] => f[z] = g[z]
    <3>1. SUFFICES ASSUME NEW z \in Nat, r[z] < r[y] PROVE f[z] = g[z]
        OBVIOUS
    <3>2. r[z] \in Nat /\ r[y] \in Nat
        OBVIOUS
    <3>3. r[z] < m /\ r[z] < n
        BY <2>1, <3>1, <3>2
    <3> QED
        BY <1>2, <3>3
  <2>3. G[f][y] = G[g][y]
      BY <2>2, Zenon DEF Local
  <2> QED
      BY <2>1, <2>3, Zenon DEF Solves
<1> HIDE DEF T
<1>3. \A m \in Nat : m \in T
    BY <1>1, <1>2, Induction
<1>4. n \in T
    BY <1>3
<1> QED
    BY <1>4 DEF T, Agree

LEMMA SolutionsExist ==
    ASSUME NEW S, S # {}, NEW r \in [Nat -> Nat], NEW G \in [[Nat -> S] -> [Nat -> S]],
           Local(G, r, S)
    PROVE  \A n \in Nat : \E f \in [Nat -> S] : Solves(G, r, f, n)
<1> DEFINE T == {n \in Nat : \E f \in [Nat -> S] : Solves(G, r, f, n)}
<1>1. 0 \in T
  <2>1. PICK s \in S : TRUE
      OBVIOUS
  <2>2. [y \in Nat |-> s] \in [Nat -> S]
      OBVIOUS
  <2>3. \A f : Solves(G, r, f, 0)
      BY DEF Solves
  <2> QED
      BY <2>2, <2>3
<1>2. ASSUME NEW n \in Nat, n \in T PROVE n + 1 \in T
  <2>1. PICK f \in [Nat -> S] : Solves(G, r, f, n)
      BY <1>2
  <2>2. G[f] \in [Nat -> S]
      OBVIOUS
  <2>3. ASSUME NEW y \in Nat, r[y] < n + 1 PROVE G[f][y] = G[G[f]][y]
    <3>1. \A z \in Nat : r[z] < r[y] => f[z] = G[f][z]
      <4>1. SUFFICES ASSUME NEW z \in Nat, r[z] < r[y] PROVE f[z] = G[f][z]
          OBVIOUS
      <4>2. r[z] \in Nat /\ r[y] \in Nat
          OBVIOUS
      <4>3. r[z] < n
          BY <2>3, <4>1, <4>2
      <4> QED
          BY <2>1, <4>3, Zenon DEF Solves
    <3> QED
        BY <2>2, <3>1, Zenon DEF Local
  <2>4. Solves(G, r, G[f], n + 1)
      BY <2>3, Zenon DEF Solves
  <2> QED
      BY <2>2, <2>4
<1> HIDE DEF T
<1>3. \A m \in Nat : m \in T
    BY <1>1, <1>2, Induction
<1> QED
    BY <1>3 DEF T

Solvable(G, S) == \E F \in [Nat -> S] : F = G[F]

LEMMA Recursion ==
    ASSUME NEW S, S # {}, NEW r \in [Nat -> Nat], NEW G \in [[Nat -> S] -> [Nat -> S]],
           Local(G, r, S)
    PROVE  Solvable(G, S)
<1> DEFINE sol(n) == CHOOSE f : f \in [Nat -> S] /\ Solves(G, r, f, n)
           F == [x \in Nat |-> sol(r[x] + 1)[x]]
<1>1. \A n \in Nat : sol(n) \in [Nat -> S] /\ Solves(G, r, sol(n), n)
    BY SolutionsExist, Zenon
<1> HIDE DEF sol
<1>2. F \in [Nat -> S]
  <2>1. ASSUME NEW x \in Nat PROVE sol(r[x] + 1)[x] \in S
    <3>1. r[x] + 1 \in Nat
        OBVIOUS
    <3> QED
        BY <1>1, <3>1
  <2> QED
      BY <2>1
<1>3. \A x \in Nat : F[x] = sol(r[x] + 1)[x]
    OBVIOUS
<1> HIDE DEF F
<1>4. ASSUME NEW x \in Nat PROVE F[x] = G[F][x]
  <2>1. r[x] + 1 \in Nat /\ r[x] < r[x] + 1
      OBVIOUS
  <2> DEFINE h == sol(r[x] + 1)
  <2>2. h \in [Nat -> S] /\ Solves(G, r, h, r[x] + 1)
      BY <1>1, <2>1, Zenon
  <2>3. F[x] = h[x]
      BY <1>3
  <2> HIDE DEF h
  <2>4. ASSUME NEW z \in Nat, r[z] < r[x] PROVE h[z] = F[z]
    <3>1. r[z] \in Nat /\ r[x] \in Nat /\ r[z] + 1 \in Nat /\ r[z] < r[z] + 1
        OBVIOUS
    <3> DEFINE k == sol(r[z] + 1)
    <3>2. k \in [Nat -> S] /\ Solves(G, r, k, r[z] + 1)
        BY <1>1, <3>1, Zenon
    <3>3. F[z] = k[z]
        BY <1>3
    <3> HIDE DEF k
    <3>4. Solves(G, r, h, r[z] + 1)
      <4>1. SUFFICES ASSUME NEW y \in Nat, r[y] < r[z] + 1 PROVE h[y] = G[h][y]
          BY Zenon DEF Solves
      <4>2. r[y] \in Nat
          OBVIOUS
      <4>3. r[y] < r[x] + 1
          BY <2>4, <3>1, <4>1, <4>2
      <4> QED
          BY <2>2, <4>3, Zenon DEF Solves
    <3>5. Agree(r, h, k, r[z] + 1)
        BY <2>2, <3>1, <3>2, <3>4, SolutionsAgree
    <3> QED
        BY <3>1, <3>3, <3>5 DEF Agree
  <2>5. G[h][x] = G[F][x]
      BY <1>2, <2>2, <2>4, Zenon DEF Local
  <2>6. h[x] = G[h][x]
      BY <2>1, <2>2, Zenon DEF Solves
  <2> QED
      BY <2>3, <2>5, <2>6
<1>5. G[F] \in [Nat -> S]
    BY <1>2
<1>6. F = G[F]
    BY <1>2, <1>4, <1>5
<1> QED
    BY <1>2, <1>6 DEF Solvable

-----------------------------------------------------------------------------
(* Powers of two. *)

LEMMA Pow2Equation == pow2 = [k \in Nat |-> IF k = 0 THEN 1 ELSE 2 * pow2[k - 1]]
<1> DEFINE G == [f \in [Nat -> Nat] |-> [k \in Nat |-> IF k = 0 THEN 1 ELSE 2 * f[k - 1]]]
           r == [k \in Nat |-> k]
<1>1. G \in [[Nat -> Nat] -> [Nat -> Nat]]
    OBVIOUS
<1>2. Local(G, r, Nat)
  <2>1. SUFFICES ASSUME NEW f \in [Nat -> Nat], NEW g \in [Nat -> Nat], NEW k \in Nat,
                        \A j \in Nat : r[j] < r[k] => f[j] = g[j]
                 PROVE  G[f][k] = G[g][k]
      BY DEF Local
  <2>2. k # 0 => f[k - 1] = g[k - 1]
      BY <2>1
  <2> QED
      BY <2>2
<1>3. r \in [Nat -> Nat]
    OBVIOUS
<1>4. Solvable(G, Nat)
  <2> HIDE DEF G, r
  <2>1. Nat # {}
      OBVIOUS
  <2> QED
      BY <1>1, <1>2, <1>3, <2>1, Recursion
<1>5. PICK F \in [Nat -> Nat] : F = [k \in Nat |-> IF k = 0 THEN 1 ELSE 2 * F[k - 1]]
    BY <1>4, Zenon DEF Solvable
<1> QED
    BY <1>5, Zenon DEF pow2

LEMMA Pow2 ==
    /\ pow2[0] = 1
    /\ \A k \in Nat : pow2[k] \in Nat /\ pow2[k] > k /\ pow2[k + 1] = 2 * pow2[k]
<1>1. \A k \in Nat : pow2[k] = IF k = 0 THEN 1 ELSE 2 * pow2[k - 1]
    BY Pow2Equation, Zenon
<1>2. pow2[0] = 1
    BY <1>1
<1>3. \A k \in Nat : pow2[k + 1] = 2 * pow2[k]
  <2>1. SUFFICES ASSUME NEW k \in Nat PROVE pow2[k + 1] = 2 * pow2[k]
      OBVIOUS
  <2>2. k + 1 \in Nat /\ k + 1 # 0 /\ (k + 1) - 1 = k
      OBVIOUS
  <2> QED
      BY <1>1, <2>2
<1> DEFINE T == {k \in Nat : pow2[k] \in Nat /\ pow2[k] > k}
<1>4. 0 \in T
    BY <1>2
<1>5. \A k \in Nat : k \in T => k + 1 \in T
    BY <1>3
<1> HIDE DEF T
<1>6. \A k \in Nat : k \in T
    BY <1>4, <1>5, Induction
<1> QED
    BY <1>2, <1>3, <1>6 DEF T

LEMMA Pow2Sum ==
    ASSUME NEW j \in Nat
    PROVE  \A i \in Nat : pow2[j + i] = pow2[i] * pow2[j]
<1> DEFINE T == {m \in Nat : pow2[j + m] = pow2[m] * pow2[j]}
<1>1. 0 \in T
  <2>1. pow2[j + 0] = 1 * pow2[j]
      BY Pow2
  <2> QED
      BY <2>1, Pow2
<1>2. ASSUME NEW m \in Nat, m \in T PROVE m + 1 \in T
  <2>1. pow2[j + m] = pow2[m] * pow2[j]
      BY <1>2
  <2>2. /\ pow2[j] \in Nat
        /\ pow2[m] \in Nat
        /\ pow2[(j + m) + 1] = 2 * pow2[j + m]
        /\ pow2[m + 1] = 2 * pow2[m]
      BY Pow2
  <2>3. (j + m) + 1 = j + (m + 1)
      OBVIOUS
  <2>4. pow2[j + (m + 1)] = 2 * (pow2[m] * pow2[j])
      BY <2>1, <2>2, <2>3
  <2>5. 2 * (pow2[m] * pow2[j]) = (2 * pow2[m]) * pow2[j]
      BY <2>2
  <2> QED
      BY <2>2, <2>4, <2>5
<1> HIDE DEF T
<1>3. \A m \in Nat : m \in T
    BY <1>1, <1>2, Induction
<1> QED
    BY <1>3 DEF T

LEMMA Pow2Monotone ==
    ASSUME NEW j \in Nat, NEW k \in Nat
    PROVE  /\ j <= k => pow2[j] <= pow2[k]
           /\ j < k => 2 * pow2[j] <= pow2[k]
<1>1. ASSUME j <= k PROVE pow2[j] <= pow2[k]
  <2>1. k - j \in Nat /\ j + (k - j) = k
      BY <1>1
  <2>2. pow2[j + (k - j)] = pow2[k - j] * pow2[j]
      BY <2>1, Pow2Sum
  <2>3. pow2[j] \in Nat /\ pow2[k - j] \in Nat /\ pow2[k - j] >= 1
      BY <2>1, Pow2
  <2>4. pow2[k - j] * pow2[j] >= pow2[j]
      BY <2>3
  <2> QED
      BY <2>1, <2>2, <2>3, <2>4
<1>2. ASSUME j < k PROVE 2 * pow2[j] <= pow2[k]
  <2>1. j + 1 \in Nat /\ k - (j + 1) \in Nat /\ (j + 1) + (k - (j + 1)) = k
      BY <1>2
  <2>2. pow2[(j + 1) + (k - (j + 1))] = pow2[k - (j + 1)] * pow2[j + 1]
      BY <2>1, Pow2Sum
  <2>3. /\ pow2[j + 1] \in Nat
        /\ pow2[j + 1] = 2 * pow2[j]
        /\ pow2[k - (j + 1)] \in Nat
        /\ pow2[k - (j + 1)] >= 1
      BY <2>1, Pow2
  <2>4. pow2[k - (j + 1)] * pow2[j + 1] >= pow2[j + 1]
      BY <2>3
  <2> QED
      BY <2>1, <2>2, <2>3, <2>4
<1> QED
    BY <1>1, <1>2

-----------------------------------------------------------------------------
(* The level of a node. *)

LEMMA LevelEquation == level = [x \in Nat |-> IF x % 2 = 0 THEN 0 ELSE 1 + level[x \div 2]]
<1> DEFINE G == [f \in [Nat -> Nat] |-> [x \in Nat |-> IF x % 2 = 0 THEN 0 ELSE 1 + f[x \div 2]]]
           r == [x \in Nat |-> x]
<1>1. G \in [[Nat -> Nat] -> [Nat -> Nat]]
    OBVIOUS
<1>2. Local(G, r, Nat)
  <2>1. SUFFICES ASSUME NEW f \in [Nat -> Nat], NEW g \in [Nat -> Nat], NEW x \in Nat,
                        \A y \in Nat : r[y] < r[x] => f[y] = g[y]
                 PROVE  G[f][x] = G[g][x]
      BY DEF Local
  <2>2. x % 2 # 0 => x \div 2 \in Nat /\ x \div 2 < x
      OBVIOUS
  <2>3. x % 2 # 0 => f[x \div 2] = g[x \div 2]
      BY <2>1, <2>2
  <2> QED
      BY <2>3
<1>3. r \in [Nat -> Nat]
    OBVIOUS
<1>4. Solvable(G, Nat)
  <2> HIDE DEF G, r
  <2>1. Nat # {}
      OBVIOUS
  <2> QED
      BY <1>1, <1>2, <1>3, <2>1, Recursion
<1>5. PICK F \in [Nat -> Nat] : F = [x \in Nat |-> IF x % 2 = 0 THEN 0 ELSE 1 + F[x \div 2]]
    BY <1>4, Zenon DEF Solvable
<1> QED
    BY <1>5, Zenon DEF level

LEMMA Log2Equation == log2 = [x \in Nat |-> IF x <= 1 THEN 0 ELSE 1 + log2[x \div 2]]
<1> DEFINE G == [f \in [Nat -> Nat] |-> [x \in Nat |-> IF x <= 1 THEN 0 ELSE 1 + f[x \div 2]]]
           r == [x \in Nat |-> x]
<1>1. G \in [[Nat -> Nat] -> [Nat -> Nat]]
    OBVIOUS
<1>2. Local(G, r, Nat)
  <2>1. SUFFICES ASSUME NEW f \in [Nat -> Nat], NEW g \in [Nat -> Nat], NEW x \in Nat,
                        \A y \in Nat : r[y] < r[x] => f[y] = g[y]
                 PROVE  G[f][x] = G[g][x]
      BY DEF Local
  <2>2. ~ x <= 1 => x \div 2 \in Nat /\ x \div 2 < x
      OBVIOUS
  <2>3. ~ x <= 1 => f[x \div 2] = g[x \div 2]
      BY <2>1, <2>2
  <2> QED
      BY <2>3
<1>3. r \in [Nat -> Nat]
    OBVIOUS
<1>4. Solvable(G, Nat)
  <2> HIDE DEF G, r
  <2>1. Nat # {}
      OBVIOUS
  <2> QED
      BY <1>1, <1>2, <1>3, <2>1, Recursion
<1>5. PICK F \in [Nat -> Nat] : F = [x \in Nat |-> IF x <= 1 THEN 0 ELSE 1 + F[x \div 2]]
    BY <1>4, Zenon DEF Solvable
<1> QED
    BY <1>5, Zenon DEF log2

\* Node x is the q-th of level k.
At(x, k, q) ==
    /\ x \in Nat /\ k \in Nat /\ q \in Nat
    /\ x + 1 = pow2[k] * (2 * q + 1)

LEMMA AtLevel ==
    ASSUME NEW x, NEW k, NEW q, At(x, k, q)
    PROVE  level[x] = k
<1>0. \A y \in Nat : level[y] = IF y % 2 = 0 THEN 0 ELSE 1 + level[y \div 2]
    BY LevelEquation, Zenon
<1> DEFINE T == {j \in Nat : \A y \in Nat : y + 1 = pow2[j] * (2 * q + 1) => level[y] = j}
<1>q. q \in Nat
    BY DEF At
<1>1. 0 \in T
  <2>1. SUFFICES ASSUME NEW y \in Nat, y + 1 = pow2[0] * (2 * q + 1) PROVE level[y] = 0
      OBVIOUS
  <2>2. y = 2 * q
      BY <1>q, <2>1, Pow2
  <2> QED
      BY <1>0, <1>q, <2>2
<1>2. ASSUME NEW j \in Nat, j \in T PROVE j + 1 \in T
  <2>1. SUFFICES ASSUME NEW y \in Nat, y + 1 = pow2[j + 1] * (2 * q + 1) PROVE level[y] = j + 1
      OBVIOUS
  <2> DEFINE m == pow2[j] * (2 * q + 1)
  <2>2. pow2[j] \in Nat /\ pow2[j] >= 1 /\ pow2[j + 1] = 2 * pow2[j]
      BY Pow2
  <2>3. m \in Nat /\ m >= 1 /\ y + 1 = 2 * m
      BY <1>q, <2>1, <2>2
  <2>4. (m - 1) + 1 = pow2[j] * (2 * q + 1) /\ m - 1 \in Nat
      BY <2>3
  <2>5. level[m - 1] = j
      BY <1>2, <2>4
  <2> HIDE DEF m
  <2>6. y % 2 = 1 /\ y \div 2 = m - 1
      BY <2>3
  <2>7. level[y] = 1 + level[y \div 2]
      BY <1>0, <2>6
  <2> QED
      BY <2>5, <2>6, <2>7
<1> HIDE DEF T
<1>3. \A j \in Nat : j \in T
    BY <1>1, <1>2, Induction
<1>4. k \in T
    BY <1>3 DEF At
<1> QED
    BY <1>4 DEF T, At

LEMMA AtExists ==
    ASSUME NEW x \in Nat
    PROVE  \E k, q \in Nat : At(x, k, q)
<1> DEFINE T == {n \in Nat : \A y \in Nat : y < n => \E k, q \in Nat : At(y, k, q)}
<1>1. 0 \in T
    OBVIOUS
<1>2. ASSUME NEW n \in Nat, n \in T PROVE n + 1 \in T
  <2>1. SUFFICES ASSUME NEW y \in Nat, y < n + 1 PROVE \E k, q \in Nat : At(y, k, q)
      OBVIOUS
  <2>2. CASE y % 2 = 0
    <3>1. y \div 2 \in Nat /\ y + 1 = 1 * (2 * (y \div 2) + 1)
        BY <2>2
    <3>2. At(y, 0, y \div 2)
        BY <3>1, Pow2 DEF At
    <3> QED
        BY <3>1, <3>2
  <2>3. CASE y % 2 # 0
    <3> DEFINE z == y \div 2
    <3>1. z \in Nat /\ z < n /\ y + 1 = 2 * (z + 1)
        BY <2>1, <2>3
    <3> HIDE DEF z
    <3>2. PICK k, q \in Nat : At(z, k, q)
        BY <1>2, <3>1
    <3>3. pow2[k] \in Nat /\ pow2[k + 1] = 2 * pow2[k] /\ k + 1 \in Nat
        BY Pow2
    <3>4. z + 1 = pow2[k] * (2 * q + 1)
        BY <3>2 DEF At
    <3>5. y + 1 = pow2[k + 1] * (2 * q + 1)
        BY <3>1, <3>3, <3>4
    <3>6. At(y, k + 1, q)
        BY <3>3, <3>5 DEF At
    <3> QED
        BY <3>3, <3>6
  <2> QED
      BY <2>2, <2>3
<1> HIDE DEF T
<1>3. \A n \in Nat : n \in T
    BY <1>1, <1>2, Induction
<1>4. x + 1 \in T
    BY <1>3
<1> QED
    BY <1>4 DEF T

\* The steps of the arithmetic between neighbouring levels.
LEMMA AboveAt ==
    ASSUME NEW x, NEW k, NEW q, At(x, k, q)
    PROVE  At(Above(x), k + 1, q \div 2)
<1> DEFINE p == pow2[k]
<1>0. level[x] = k
    BY AtLevel
<1>1. x \in Nat /\ k \in Nat /\ q \in Nat /\ k + 1 \in Nat /\ level[x] = k
    BY <1>0 DEF At
<1>2. p \in Nat /\ p >= 1 /\ pow2[k + 1] = 2 * p
    BY <1>1, Pow2
<1>3. x + 1 = p * (2 * q + 1)
    BY DEF At
<1>4. Above(x) = x + p - ((x \div (2 * p)) % 2) * (2 * p)
    BY <1>1, <1>2 DEF Above
<1> HIDE DEF p
<1>5. x \div (2 * p) = q
    BY <1>1, <1>2, <1>3
<1>6. Above(x) = x + p - (q % 2) * (2 * p)
    BY <1>4, <1>5
<1>7. Above(x) + 1 = (2 * p) * (2 * (q \div 2) + 1) /\ Above(x) \in Int
  <2>1. CASE q % 2 = 0
    <3>1. Above(x) = x + p
        BY <1>1, <1>2, <1>6, <2>1
    <3>2. q = 2 * (q \div 2)
        BY <1>1, <2>1
    <3> QED
        BY <1>1, <1>2, <1>3, <3>1, <3>2
  <2>2. CASE q % 2 = 1
    <3>1. Above(x) = x + p - 2 * p
        BY <1>1, <1>2, <1>6, <2>2
    <3>2. q = 2 * (q \div 2) + 1
        BY <1>1, <2>2
    <3> QED
        BY <1>1, <1>2, <1>3, <3>1, <3>2
  <2> QED
      BY <1>1, <2>1, <2>2
<1>8. q \div 2 \in Nat
    BY <1>1
<1>9. (2 * p) * (2 * (q \div 2) + 1) >= 1
    BY <1>2, <1>8
<1> QED
    BY <1>1, <1>2, <1>7, <1>8, <1>9 DEF At

LEMMA ChildrenAt ==
    ASSUME NEW x, NEW k \in Nat, NEW q, At(x, k + 1, q)
    PROVE  At(left(x), k, 2 * q) /\ At(right(x), k, 2 * q + 1)
<1> DEFINE p == pow2[k]
<1>0. level[x] = k + 1
    BY AtLevel
<1>1. x \in Nat /\ q \in Nat /\ level[x] = k + 1 /\ level[x] - 1 = k
    BY <1>0 DEF At
<1>2. p \in Nat /\ p >= 1 /\ pow2[k + 1] = 2 * p
    BY Pow2
<1>3. x + 1 = (2 * p) * (2 * q + 1)
    BY <1>2 DEF At
<1>4. left(x) = x - p /\ right(x) = x + p
    BY <1>1 DEF left, right
<1> HIDE DEF p
<1>5. left(x) + 1 = p * (2 * (2 * q) + 1) /\ right(x) + 1 = p * (2 * (2 * q + 1) + 1)
    BY <1>1, <1>2, <1>3, <1>4
<1>6. p * (2 * (2 * q) + 1) >= 1
    BY <1>1, <1>2
<1>7. left(x) \in Nat /\ right(x) \in Nat
    BY <1>1, <1>2, <1>4, <1>5, <1>6
<1>8. 2 * q \in Nat /\ 2 * q + 1 \in Nat
    BY <1>1
<1> QED
    BY <1>5, <1>7, <1>8 DEF At, p

LEMMA AtUnique ==
    ASSUME NEW x, NEW y, NEW k, NEW q, At(x, k, q), At(y, k, q)
    PROVE  x = y
  BY DEF At

LEMMA LeafAt ==
    ASSUME NEW x, NEW k, NEW q, At(x, k, q)
    PROVE  x % 2 = 0 <=> k = 0
<1>1. x \in Nat /\ level[x] = k /\ k \in Nat
    BY AtLevel DEF At
<1>2. level[x] = IF x % 2 = 0 THEN 0 ELSE 1 + level[x \div 2]
    BY <1>1, LevelEquation, Zenon
<1>3. CASE x % 2 = 0
    BY <1>1, <1>2, <1>3
<1>4. CASE x % 2 # 0
  <2>1. x \div 2 \in Nat
      BY <1>1
  <2>2. PICK j, i \in Nat : At(x \div 2, j, i)
      BY <2>1, AtExists
  <2>3. level[x \div 2] = j
      BY <2>2, AtLevel
  <2> QED
      BY <1>1, <1>2, <1>4, <2>3
<1> QED
    BY <1>3, <1>4

-----------------------------------------------------------------------------
(* The full tree with pow2[K] leaves. *)

LEMMA WidthIs ==
    ASSUME NEW K \in Nat
    PROVE  Width(pow2[K]) = pow2[K + 1] - 1 /\ Width(pow2[K]) \in Nat /\ Width(pow2[K]) >= 1
  BY Pow2 DEF Width

LEMMA RangeAt ==
    ASSUME NEW K \in Nat, NEW x, NEW k, NEW q, At(x, k, q)
    PROVE  x < Width(pow2[K]) <=> k <= K /\ q < pow2[K - k]
<1> DEFINE p == pow2[k]
<1>1. x \in Nat /\ k \in Nat /\ q \in Nat /\ x + 1 = p * (2 * q + 1)
    BY DEF At
<1>2. p \in Nat /\ p >= 1 /\ pow2[K] \in Nat
    BY <1>1, Pow2
<1>3. Width(pow2[K]) = 2 * pow2[K] - 1
    BY DEF Width
<1>4. CASE k <= K
  <2> DEFINE c == pow2[K - k]
  <2>1. K - k \in Nat /\ k + (K - k) = K
      BY <1>1, <1>4
  <2>2. c \in Nat
      BY <2>1, Pow2
  <2>3. pow2[K] = c * p
      BY <1>1, <2>1, Pow2Sum
  <2> HIDE DEF p, c
  <2>4. Width(pow2[K]) = 2 * (c * p) - 1
      BY <1>3, <2>3
  <2>5. c * p \in Nat
      BY <1>2, <2>2
  <2>6. x < Width(pow2[K]) <=> p * (2 * q + 1) < 2 * (c * p)
      BY <1>1, <1>2, <2>4, <2>5
  <2>7. q < c => p * (2 * q + 1) < 2 * (c * p)
    <3>1. SUFFICES ASSUME q < c PROVE p * (2 * q + 1) < 2 * (c * p)
        OBVIOUS
    <3>2. PICK d \in Nat : c = q + 1 + d
      <4>1. c - (q + 1) \in Nat /\ c = q + 1 + (c - (q + 1))
          BY <1>1, <2>2, <3>1
      <4> QED
          BY <4>1
    <3>3. 2 * (c * p) = p * (2 * q + 1) + p + 2 * (d * p)
        BY <1>1, <1>2, <3>2
    <3>4. d * p \in Nat /\ p * (2 * q + 1) \in Nat
        BY <1>1, <1>2, <3>2
    <3> QED
        BY <1>2, <3>3, <3>4
  <2>8. ~ (q < c) => ~ (p * (2 * q + 1) < 2 * (c * p))
    <3>1. SUFFICES ASSUME ~ (q < c) PROVE p * (2 * q + 1) >= 2 * (c * p)
        BY <1>1, <1>2, <2>5
    <3>2. PICK d \in Nat : q = c + d
      <4>1. q - c \in Nat /\ q = c + (q - c)
          BY <1>1, <2>2, <3>1
      <4> QED
          BY <4>1
    <3>3. p * (2 * q + 1) = 2 * (c * p) + p + 2 * (d * p)
        BY <1>2, <2>2, <3>2
    <3>4. d * p \in Nat
        BY <1>2, <3>2
    <3> QED
        BY <1>2, <2>5, <3>3, <3>4
  <2> QED
      BY <1>4, <2>6, <2>7, <2>8 DEF c
<1>5. CASE ~ (k <= K)
  <2>1. 2 * pow2[K] <= p
      BY <1>1, <1>5, Pow2Monotone
  <2> HIDE DEF p
  <2>2. p * (2 * q + 1) >= p
      BY <1>1, <1>2
  <2>3. ~ (x < Width(pow2[K]))
      BY <1>1, <1>2, <1>3, <2>1, <2>2
  <2> QED
      BY <1>5, <2>3
<1> QED
    BY <1>4, <1>5

LEMMA Log2OfWidth == \A K \in Nat : log2[pow2[K + 1] - 1] = K
<1>0. \A y \in Nat : log2[y] = IF y <= 1 THEN 0 ELSE 1 + log2[y \div 2]
    BY Log2Equation, Zenon
<1> DEFINE T == {K \in Nat : log2[pow2[K + 1] - 1] = K}
<1>1. 0 \in T
  <2>1. pow2[0 + 1] - 1 = 1
      BY Pow2
  <2> QED
      BY <1>0, <2>1
<1>2. ASSUME NEW K \in Nat, K \in T PROVE K + 1 \in T
  <2> DEFINE m == pow2[K + 1]
  <2>1. m \in Nat /\ m > 1 /\ pow2[(K + 1) + 1] = 2 * m
      BY Pow2
  <2>2. log2[m - 1] = K
      BY <1>2
  <2> HIDE DEF m
  <2>3. 2 * m - 1 \in Nat /\ ~ (2 * m - 1 <= 1) /\ (2 * m - 1) \div 2 = m - 1
      BY <2>1
  <2>4. log2[2 * m - 1] = 1 + log2[(2 * m - 1) \div 2]
      BY <1>0, <2>3
  <2>5. log2[pow2[(K + 1) + 1] - 1] = K + 1
      BY <2>1, <2>2, <2>3, <2>4
  <2> QED
      BY <2>5
<1> HIDE DEF T
<1>3. \A K \in Nat : K \in T
    BY <1>1, <1>2, Induction
<1> QED
    BY <1>3 DEF T

LEMMA RootIs ==
    ASSUME NEW K \in Nat
    PROVE  root(pow2[K]) = pow2[K] - 1 /\ At(root(pow2[K]), K, 0)
<1>1. pow2[K] \in Nat /\ pow2[K] > K /\ pow2[K] - 1 \in Nat
    BY Pow2
<1>2. root(pow2[K]) = pow2[K] - 1
  <2>1. CASE K = 0
      BY <2>1, Pow2 DEF root
  <2>2. CASE K # 0
    <3>1. Width(pow2[K]) = pow2[K + 1] - 1
        BY WidthIs
    <3>2. log2[Width(pow2[K])] = K
        BY <3>1, Log2OfWidth
    <3>3. ~ (pow2[K] <= 1)
        BY <1>1, <2>2
    <3> QED
        BY <3>2, <3>3 DEF root
  <2> QED
      BY <2>1, <2>2
<1> QED
    BY <1>1, <1>2 DEF At

\* The only node of level K in range, and a node above the range stays there.
LEMMA TopIsRoot ==
    ASSUME NEW K \in Nat, NEW x, NEW q, At(x, K, q), x < Width(pow2[K])
    PROVE  x = root(pow2[K])
<1>1. q < pow2[K - K] /\ q \in Nat
    BY RangeAt DEF At
<1>2. pow2[K - K] = 1
    BY Pow2
<1>3. q = 0
    BY <1>1, <1>2
<1> QED
    BY <1>3, RootIs, AtUnique

LEMMA AboveInRange ==
    ASSUME NEW K \in Nat, NEW x, NEW k, NEW q, At(x, k, q)
    PROVE  Above(x) < Width(pow2[K]) <=> x < Width(pow2[K]) /\ k < K
<1>1. At(Above(x), k + 1, q \div 2)
    BY AboveAt
<1>2. k \in Nat /\ q \in Nat
    BY DEF At
<1>3. x < Width(pow2[K]) <=> k <= K /\ q < pow2[K - k]
    BY RangeAt
<1>4. Above(x) < Width(pow2[K]) <=> k + 1 <= K /\ q \div 2 < pow2[K - (k + 1)]
    BY <1>1, RangeAt
<1>5. k + 1 <= K => (q \div 2 < pow2[K - (k + 1)] <=> q < pow2[K - k])
  <2>1. SUFFICES ASSUME k + 1 <= K PROVE q \div 2 < pow2[K - (k + 1)] <=> q < pow2[K - k]
      OBVIOUS
  <2>2. K - (k + 1) \in Nat /\ (K - (k + 1)) + 1 = K - k
      BY <1>2, <2>1
  <2>3. pow2[K - k] = 2 * pow2[K - (k + 1)] /\ pow2[K - (k + 1)] \in Nat
      BY <2>2, Pow2
  <2> QED
      BY <1>2, <2>3
<1> QED
    BY <1>2, <1>3, <1>4, <1>5

LEMMA ParentIs ==
    ASSUME NEW K \in Nat, NEW x, NEW k, NEW q, At(x, k, q), x < Width(pow2[K])
    PROVE  parent(pow2[K], x) = IF k < K THEN Above(x) ELSE x
<1> DEFINE n == pow2[K]
           W == Width(n)
           Reparent[p \in Nat] == IF p < W THEN p ELSE Reparent[Above(p)]
           F == [p \in Nat |-> IF p < W THEN p ELSE 0]
<1>1. F = [p \in Nat |-> IF p < W THEN p ELSE F[Above(p)]]
  <2>1. ASSUME NEW p \in Nat, ~ (p < W) PROVE F[Above(p)] = 0
    <3>1. PICK i, j \in Nat : At(p, i, j)
        BY AtExists
    <3>2. Above(p) \in Nat
        BY <3>1, AboveAt DEF At
    <3>3. ~ (Above(p) < W)
        BY <2>1, <3>1, AboveInRange
    <3> QED
        BY <3>2, <3>3
  <2> HIDE DEF W
  <2> QED
      BY <2>1
<1>2. Reparent = [p \in Nat |-> IF p < W THEN p ELSE Reparent[Above(p)]]
  <2> HIDE DEF F, W
  <2> QED
      BY <1>1, Zenon DEF Reparent
<1>3. \A p \in Nat : p < W => Reparent[p] = p
  <2> HIDE DEF Reparent, W
  <2> QED
      BY <1>2, Zenon
<1>4. parent(n, x) = IF n <= 1 THEN 0
                     ELSE IF x = root(n) THEN x
                     ELSE Reparent[Above(x)]
    BY DEF parent
<1> HIDE DEF Reparent, F
<1>5. x \in Nat /\ k \in Nat /\ n \in Nat /\ n > K /\ k <= K
    BY RangeAt, Pow2 DEF At
<1>6. CASE k < K
  <2>1. Above(x) < W /\ Above(x) \in Nat
    <3>1. At(Above(x), k + 1, q \div 2)
        BY AboveAt
    <3> QED
        BY <1>6, <3>1, AboveInRange DEF At
  <2>2. x # root(n)
    <3>1. level[x] = k
        BY AtLevel
    <3>2. level[root(n)] = K
        BY RootIs, AtLevel
    <3> QED
        BY <1>5, <1>6, <3>1, <3>2
  <2>3. ~ (n <= 1)
      BY <1>5, <1>6
  <2>4. Reparent[Above(x)] = Above(x)
      BY <1>3, <2>1
  <2> QED
      BY <1>4, <1>6, <2>2, <2>3, <2>4
<1>7. CASE ~ (k < K)
  <2>1. k = K
      BY <1>5, <1>7
  <2>2. x = root(n)
      BY <2>1, TopIsRoot
  <2>3. n <= 1 => root(n) = 0
      BY DEF root
  <2> QED
      BY <1>4, <1>7, <2>2, <2>3
<1> QED
    BY <1>6, <1>7

-----------------------------------------------------------------------------
(* Ancestors. *)

\* The ancestors of x in an unbounded complete tree, from x itself upwards.
Up(x) == LET up[i \in Nat] == IF i = 0 THEN x ELSE Above(up[i - 1]) IN up

LEMMA AboveType ==
    ASSUME NEW x \in Nat
    PROVE  Above(x) \in Nat
<1>1. PICK k, q \in Nat : At(x, k, q)
    BY AtExists
<1> QED
    BY <1>1, AboveAt DEF At

LEMMA UpIs ==
    ASSUME NEW x \in Nat
    PROVE  /\ Up(x)[0] = x
           /\ \A i \in Nat : Up(x)[i] \in Nat /\ Up(x)[i + 1] = Above(Up(x)[i])
<1> DEFINE G == [f \in [Nat -> Nat] |-> [i \in Nat |-> IF i = 0 THEN x ELSE Above(f[i - 1])]]
           r == [i \in Nat |-> i]
<1>1. G \in [[Nat -> Nat] -> [Nat -> Nat]]
  <2>1. \A f \in [Nat -> Nat] : \A i \in Nat : i # 0 => f[i - 1] \in Nat
      OBVIOUS
  <2> QED
      BY <2>1, AboveType
<1>2. Local(G, r, Nat)
  <2>1. SUFFICES ASSUME NEW f \in [Nat -> Nat], NEW g \in [Nat -> Nat], NEW i \in Nat,
                        \A j \in Nat : r[j] < r[i] => f[j] = g[j]
                 PROVE  G[f][i] = G[g][i]
      BY DEF Local
  <2>2. i # 0 => f[i - 1] = g[i - 1]
      BY <2>1
  <2> QED
      BY <2>2
<1>3. r \in [Nat -> Nat]
    OBVIOUS
<1>4. Solvable(G, Nat)
  <2> HIDE DEF G, r
  <2>1. Nat # {}
      OBVIOUS
  <2> QED
      BY <1>1, <1>2, <1>3, <2>1, Recursion
<1>5. PICK F \in [Nat -> Nat] : F = [i \in Nat |-> IF i = 0 THEN x ELSE Above(F[i - 1])]
    BY <1>4, Zenon DEF Solvable
<1>6. Up(x) = [i \in Nat |-> IF i = 0 THEN x ELSE Above(Up(x)[i - 1])]
    BY <1>5, Zenon DEF Up
<1> HIDE DEF G, r
<1>7. \A i \in Nat : Up(x)[i] = IF i = 0 THEN x ELSE Above(Up(x)[i - 1])
    BY <1>6, Zenon
<1>8. Up(x)[0] = x
    BY <1>7
<1>9. \A i \in Nat : Up(x)[i + 1] = Above(Up(x)[i])
  <2>1. SUFFICES ASSUME NEW i \in Nat PROVE Up(x)[i + 1] = Above(Up(x)[i])
      OBVIOUS
  <2>2. i + 1 \in Nat /\ i + 1 # 0 /\ (i + 1) - 1 = i
      OBVIOUS
  <2> QED
      BY <1>7, <2>2
<1> DEFINE T == {i \in Nat : Up(x)[i] \in Nat}
<1>10. 0 \in T
    BY <1>8
<1>11. \A i \in Nat : i \in T => i + 1 \in T
    BY <1>9, AboveType
<1> HIDE DEF T
<1>12. \A i \in Nat : i \in T
    BY <1>10, <1>11, Induction
<1> QED
    BY <1>8, <1>9, <1>12 DEF T

LEMMA UpSum ==
    ASSUME NEW x \in Nat, NEW i \in Nat
    PROVE  \A j \in Nat : Up(Up(x)[i])[j] = Up(x)[i + j]
<1> DEFINE y == Up(x)[i]
           T == {j \in Nat : Up(y)[j] = Up(x)[i + j]}
<1>1. y \in Nat
    BY UpIs
<1>2. 0 \in T
  <2>1. i + 0 = i
      OBVIOUS
  <2>2. Up(y)[0] = y
      BY <1>1, UpIs
  <2> QED
      BY <2>1, <2>2
<1>3. ASSUME NEW j \in Nat, j \in T PROVE j + 1 \in T
  <2>1. Up(y)[j] = Up(x)[i + j]
      BY <1>3
  <2> HIDE DEF y
  <2>2. Up(y)[j + 1] = Above(Up(y)[j])
      BY <1>1, UpIs
  <2>3. Up(x)[(i + j) + 1] = Above(Up(x)[i + j])
      BY UpIs
  <2>4. (i + j) + 1 = i + (j + 1)
      OBVIOUS
  <2>5. Up(y)[j + 1] = Up(x)[i + (j + 1)]
      BY <2>1, <2>2, <2>3, <2>4
  <2> QED
      BY <2>5 DEF y
<1> HIDE DEF T
<1>4. \A j \in Nat : j \in T
    BY <1>2, <1>3, Induction
<1> QED
    BY <1>4 DEF T

\* An ancestor i steps up is i levels up.
LEMMA UpAt ==
    ASSUME NEW x, NEW k, NEW q, At(x, k, q)
    PROVE  \A i \in Nat : \E s \in Nat : At(Up(x)[i], k + i, s)
<1>1. x \in Nat /\ k \in Nat /\ q \in Nat
    BY DEF At
<1> DEFINE T == {i \in Nat : \E s \in Nat : At(Up(x)[i], k + i, s)}
<1>2. 0 \in T
  <2>1. k + 0 = k /\ Up(x)[0] = x
      BY <1>1, UpIs
  <2> QED
      BY <1>1, <2>1
<1>3. ASSUME NEW i \in Nat, i \in T PROVE i + 1 \in T
  <2>1. PICK s \in Nat : At(Up(x)[i], k + i, s)
      BY <1>3
  <2>2. At(Above(Up(x)[i]), (k + i) + 1, s \div 2)
      BY <2>1, AboveAt
  <2>3. (k + i) + 1 = k + (i + 1) /\ s \div 2 \in Nat
      BY <1>1
  <2>4. Up(x)[i + 1] = Above(Up(x)[i])
      BY <1>1, UpIs
  <2> QED
      BY <2>2, <2>3, <2>4
<1> HIDE DEF T
<1>4. \A i \in Nat : i \in T
    BY <1>2, <1>3, Induction
<1> QED
    BY <1>4 DEF T

LEMMA EvenAt ==
    ASSUME NEW x \in Nat, x % 2 = 0
    PROVE  At(x, 0, x \div 2)
  BY Pow2 DEF At

\* The ancestors of a leaf in the full tree.
LEMMA UpLeaf ==
    ASSUME NEW K \in Nat, NEW x \in Nat, x % 2 = 0, x < Width(pow2[K])
    PROVE  /\ \A i \in Nat : \E s \in Nat : At(Up(x)[i], i, s)
           /\ \A i \in Nat : Up(x)[i] < Width(pow2[K]) <=> i <= K
           /\ Up(x)[K] = root(pow2[K])
<1>1. ASSUME NEW i \in Nat PROVE \E s \in Nat : At(Up(x)[i], i, s)
  <2>1. PICK s \in Nat : At(Up(x)[i], 0 + i, s)
      BY EvenAt, UpAt
  <2>2. 0 + i = i
      OBVIOUS
  <2> QED
      BY <2>1, <2>2
<1> DEFINE T == {i \in Nat : Up(x)[i] < Width(pow2[K]) <=> i <= K}
<1>2. 0 \in T
    BY UpIs
<1>3. ASSUME NEW i \in Nat, i \in T PROVE i + 1 \in T
  <2>1. PICK s \in Nat : At(Up(x)[i], i, s)
      BY <1>1
  <2>2. Up(x)[i + 1] = Above(Up(x)[i])
      BY UpIs
  <2>3. Above(Up(x)[i]) < Width(pow2[K]) <=> Up(x)[i] < Width(pow2[K]) /\ i < K
      BY <2>1, AboveInRange
  <2>4. Up(x)[i + 1] < Width(pow2[K]) <=> i + 1 <= K
      BY <1>3, <2>2, <2>3
  <2> QED
      BY <2>4
<1> HIDE DEF T
<1>4. \A i \in Nat : i \in T
    BY <1>2, <1>3, Induction
<1>5. Up(x)[K] < Width(pow2[K])
    BY <1>4 DEF T
<1>6. Up(x)[K] = root(pow2[K])
    BY <1>1, <1>5, TopIsRoot
<1> QED
    BY <1>1, <1>4, <1>6 DEF T

LEMMA DirectPathIs ==
    ASSUME NEW K \in Nat, NEW x \in Nat, x % 2 = 0, x < Width(pow2[K])
    PROVE  direct_path(pow2[K], x) = [i \in 1 .. K |-> Up(x)[i]]
<1> DEFINE n == pow2[K]
           climb[i \in Nat] == IF i = 0 THEN x ELSE parent(n, climb[i - 1])
           len == Cardinality({i \in 0 .. Width(n) : climb[i] # root(n)})
           F == [i \in Nat |-> IF i <= K THEN Up(x)[i] ELSE root(n)]
<1>0. Up(x)[0] = x /\ \A i \in Nat : Up(x)[i + 1] = Above(Up(x)[i])
    BY UpIs
<1>1. ASSUME NEW i \in Nat, i # 0 PROVE F[i] = parent(n, F[i - 1])
  <2>0. i - 1 \in Nat /\ (i - 1) + 1 = i
      BY <1>1
  <2>1. CASE i <= K
    <3>1. F[i] = Up(x)[i] /\ F[i - 1] = Up(x)[i - 1]
        BY <2>0, <2>1
    <3>2. PICK s \in Nat : At(Up(x)[i - 1], i - 1, s)
        BY <2>0, UpLeaf
    <3>3. Up(x)[i - 1] < Width(n)
        BY <2>0, <2>1, UpLeaf
    <3>4. parent(n, Up(x)[i - 1]) = Above(Up(x)[i - 1])
        BY <2>0, <2>1, <3>2, <3>3, ParentIs
    <3>5. Up(x)[i] = Above(Up(x)[i - 1])
        BY <1>0, <2>0
    <3> QED
        BY <3>1, <3>4, <3>5
  <2>2. CASE ~ (i <= K)
    <3>1. F[i] = root(n)
        BY <2>2
    <3>2. F[i - 1] = root(n)
      <4>1. CASE i - 1 <= K
        <5>1. i - 1 = K
            BY <2>2, <4>1
        <5> QED
            BY <5>1, UpLeaf
      <4>2. CASE ~ (i - 1 <= K)
          BY <2>0, <4>2
      <4> QED
          BY <4>1, <4>2
    <3>3. At(root(n), K, 0) /\ root(n) < Width(n)
      <4>1. Up(x)[K] < Width(n) /\ Up(x)[K] = root(n)
          BY UpLeaf
      <4> QED
          BY <4>1, RootIs
    <3>4. parent(n, root(n)) = root(n)
        BY <3>3, ParentIs
    <3> QED
        BY <3>1, <3>2, <3>4
  <2> QED
      BY <2>1, <2>2
<1>2. F[0] = x
    BY <1>0
<1>3. F = [i \in Nat |-> IF i = 0 THEN x ELSE parent(n, F[i - 1])]
    BY <1>1, <1>2
<1>4. climb = [i \in Nat |-> IF i = 0 THEN x ELSE parent(n, climb[i - 1])]
  <2> HIDE DEF F, n
  <2> QED
      BY <1>3, Zenon DEF climb
<1>5. direct_path(n, x) = [i \in 1 .. len |-> climb[i]]
    BY DEF direct_path
<1> HIDE DEF climb
<1> DEFINE T == {i \in Nat : climb[i] = F[i]}
<1>6. 0 \in T
    BY <1>2, <1>4
<1>7. ASSUME NEW i \in Nat, i \in T PROVE i + 1 \in T
  <2>1. i + 1 \in Nat /\ i + 1 # 0 /\ (i + 1) - 1 = i
      OBVIOUS
  <2>2. climb[i + 1] = parent(n, climb[(i + 1) - 1])
    <3> HIDE DEF n, F, T
    <3> QED
      BY <1>4, <2>1
  <2>3. F[i + 1] = parent(n, F[(i + 1) - 1])
    <3> HIDE DEF n, F, T
    <3> QED
      BY <1>1, <2>1
  <2>4. climb[i] = F[i]
      BY <1>7
  <2>5. climb[i + 1] = F[i + 1]
    <3> HIDE DEF n, F, T
    <3> QED
      BY <2>1, <2>2, <2>3, <2>4
  <2> QED
      BY <2>1, <2>5
<1>8. \A i \in Nat : climb[i] = F[i]
  <2>1. \A i \in Nat : i \in T
    <3> HIDE DEF T
    <3> QED
      BY <1>6, <1>7, Induction
  <2> QED
      BY <2>1
<1>9. ASSUME NEW i \in Nat PROVE climb[i] # root(n) <=> i < K
  <2>1. climb[i] = F[i]
      BY <1>8
  <2>2. CASE i < K
    <3>1. F[i] = Up(x)[i]
        BY <2>2
    <3>2. PICK s \in Nat : At(Up(x)[i], i, s)
        BY UpLeaf
    <3>3. level[Up(x)[i]] = i /\ level[root(n)] = K
        BY <3>2, RootIs, AtLevel
    <3>4. Up(x)[i] # root(n)
        BY <2>2, <3>3
    <3> QED
        BY <2>1, <2>2, <3>1, <3>4
  <2>3. CASE i = K
    <3>1. F[i] = Up(x)[K]
        BY <2>3
    <3> QED
        BY <2>1, <2>3, <3>1, UpLeaf
  <2>4. CASE i > K
    <3>1. F[i] = root(n)
        BY <2>4
    <3> QED
        BY <2>1, <2>4, <3>1
  <2> QED
      BY <2>2, <2>3, <2>4
<1>10. {i \in 0 .. Width(n) : climb[i] # root(n)} = 0 .. K - 1
  <2>1. Width(n) \in Nat /\ K - 1 <= Width(n)
      BY Pow2 DEF Width
  <2> HIDE DEF n, F
  <2> QED
      BY <1>9, <2>1
<1>11. len = K
  <2>1. Cardinality(0 .. K - 1) = K
      BY FS_Interval
  <2> HIDE DEF n
  <2> QED
      BY <1>10, <2>1
<1>12. \A i \in 1 .. K : climb[i] = Up(x)[i]
  <2> HIDE DEF n
  <2> QED
      BY <1>8
<1> HIDE DEF len, F, n
<1>13. direct_path(n, x) = [i \in 1 .. K |-> Up(x)[i]]
    BY <1>5, <1>11, <1>12
<1> QED
    BY <1>13 DEF n

-----------------------------------------------------------------------------
(* Siblings. *)

LEMMA ChildrenOf ==
    ASSUME NEW p, NEW k \in Nat, NEW s, At(p, k + 1, s)
    PROVE  /\ left(p) \in Nat /\ right(p) \in Nat
           /\ left(p) < p /\ p < right(p)
           /\ \E q \in Nat : At(left(p), k, q)
           /\ \E q \in Nat : At(right(p), k, q)
           /\ Above(left(p)) = p /\ Above(right(p)) = p
           /\ \A y, q : At(y, k, q) /\ Above(y) = p => y = left(p) \/ y = right(p)
<1>1. s \in Nat /\ p \in Nat
    BY DEF At
<1>2. At(left(p), k, 2 * s) /\ At(right(p), k, 2 * s + 1)
    BY ChildrenAt
<1>3. 2 * s \in Nat /\ 2 * s + 1 \in Nat /\ (2 * s) \div 2 = s /\ (2 * s + 1) \div 2 = s
    BY <1>1
<1>4. left(p) \in Nat /\ right(p) \in Nat
    BY <1>2 DEF At
<1>5. left(p) < p /\ p < right(p)
  <2>1. level[p] - 1 = k
    <3>1. level[p] = k + 1
        BY AtLevel
    <3> QED
        BY <3>1
  <2>2. left(p) = p - pow2[k] /\ right(p) = p + pow2[k]
      BY <2>1 DEF left, right
  <2> QED
      BY <1>1, <2>2, Pow2
<1>6. Above(left(p)) = p
  <2>1. At(Above(left(p)), k + 1, (2 * s) \div 2)
      BY <1>2, AboveAt
  <2> QED
      BY <1>3, <2>1, AtUnique
<1>7. Above(right(p)) = p
  <2>1. At(Above(right(p)), k + 1, (2 * s + 1) \div 2)
      BY <1>2, AboveAt
  <2> QED
      BY <1>3, <2>1, AtUnique
<1>8. ASSUME NEW y, NEW q, At(y, k, q), Above(y) = p
      PROVE  y = left(p) \/ y = right(p)
  <2>1. At(p, k + 1, q \div 2)
      BY <1>8, AboveAt
  <2>2. q \in Nat /\ q \div 2 \in Nat
      BY <1>8 DEF At
  <2>3. q \div 2 = s
    <3>1. pow2[k + 1] * (2 * (q \div 2) + 1) = pow2[k + 1] * (2 * s + 1)
        BY <2>1 DEF At
    <3>2. pow2[k + 1] \in Nat /\ pow2[k + 1] >= 1
        BY Pow2
    <3> QED
        BY <1>1, <2>2, <3>1, <3>2
  <2>4. q = 2 * s \/ q = 2 * s + 1
      BY <2>2, <2>3
  <2> QED
      BY <1>2, <1>8, <2>4, AtUnique
<1> QED
    BY <1>2, <1>3, <1>4, <1>5, <1>6, <1>7, <1>8

\* c is the other child of the parent of y, which is at level k.
Other(c, y, k) ==
    /\ c \in Nat /\ c # y
    /\ \E q \in Nat : At(c, k, q)
    /\ Above(c) = Above(y)
    /\ \A z, q : At(z, k, q) /\ Above(z) = Above(y) /\ z # y => z = c

LEMMA SiblingIs ==
    ASSUME NEW K \in Nat, NEW y, NEW k, NEW q, At(y, k, q), y < Width(pow2[K]), k < K
    PROVE  /\ Other(sibling(pow2[K], y), y, k)
           /\ sibling(pow2[K], y) < Width(pow2[K])
<1> DEFINE p == Above(y)
           c == sibling(pow2[K], y)
<1>1. y \in Nat /\ k \in Nat /\ q \in Nat
    BY DEF At
<1>2. At(p, k + 1, q \div 2)
    BY AboveAt
<1>3. parent(pow2[K], y) = p
    BY ParentIs
<1>4. ~ (pow2[K] <= 1)
    BY <1>1, Pow2
<1>5. c = IF y < p THEN right(p) ELSE left(p)
  <2> HIDE DEF p
  <2> QED
      BY <1>3, <1>4 DEF sibling
<1>6. y = left(p) \/ y = right(p)
    BY <1>1, <1>2, ChildrenOf
<1>7. left(p) < p /\ p < right(p) /\ left(p) \in Nat /\ right(p) \in Nat /\ p \in Nat
    BY <1>1, <1>2, ChildrenOf DEF At
<1>8. (y = left(p) /\ c = right(p)) \/ (y = right(p) /\ c = left(p))
  <2> HIDE DEF p, c
  <2> QED
      BY <1>5, <1>6, <1>7
<1>9. left(p) # right(p)
  <2> HIDE DEF p
  <2> QED
      BY <1>7
<1>10. (\E i \in Nat : At(c, k, i)) /\ Above(c) = p /\ c \in Nat /\ c # y
  <2>1. /\ \E i \in Nat : At(left(p), k, i)
        /\ \E i \in Nat : At(right(p), k, i)
        /\ Above(left(p)) = p
        /\ Above(right(p)) = p
      BY <1>1, <1>2, ChildrenOf
  <2> HIDE DEF p, c
  <2> QED
      BY <1>7, <1>8, <1>9, <2>1
<1>11. ASSUME NEW z, NEW i, At(z, k, i), Above(z) = p, z # y PROVE z = c
  <2>1. z = left(p) \/ z = right(p)
      BY <1>1, <1>2, <1>11, ChildrenOf
  <2> HIDE DEF p, c
  <2> QED
      BY <1>8, <1>11, <2>1
<1>12. c < Width(pow2[K])
  <2>1. Above(c) < Width(pow2[K])
      BY <1>10, AboveInRange
  <2> HIDE DEF c
  <2> QED
      BY <1>10, <2>1, AboveInRange
<1>13. Other(c, y, k)
  <2> HIDE DEF c
  <2> QED
      BY <1>10, <1>11 DEF Other
<1> QED
    BY <1>12, <1>13

LEMMA CopathIs ==
    ASSUME NEW K \in Nat, NEW x \in Nat, x % 2 = 0, x < Width(pow2[K]), NEW i \in 1 .. K
    PROVE  /\ Other(copath(pow2[K], x)[i], Up(x)[i - 1], i - 1)
           /\ copath(pow2[K], x)[i] < Width(pow2[K])
<1> DEFINE n == pow2[K]
           dp == direct_path(n, x)
           below(j) == IF j = 1 THEN x ELSE dp[j - 1]
           sib(j) == sibling(n, below(j))
<1>1. dp = [j \in 1 .. K |-> Up(x)[j]]
    BY DirectPathIs
<1>2. Len(dp) = K /\ Up(x)[0] = x
  <2>1. Up(x)[0] = x
      BY UpIs
  <2> HIDE DEF dp
  <2>2. Len(dp) = K
      BY <1>1
  <2> QED
      BY <2>1, <2>2
<1>3. copath(n, x)[i] = IF sib(i) < Width(n) THEN sib(i) ELSE NoNode
  <2>1. copath(n, x) = [j \in 1 .. Len(dp) |-> IF sib(j) < Width(n) THEN sib(j) ELSE NoNode]
      BY DEF copath
  <2> HIDE DEF dp, n, sib
  <2> QED
      BY <1>2, <2>1
<1>4. below(i) = Up(x)[i - 1]
  <2> HIDE DEF dp
  <2> QED
      BY <1>1, <1>2
<1>5. i - 1 \in Nat /\ i - 1 < K
    OBVIOUS
<1>6. PICK q \in Nat : At(Up(x)[i - 1], i - 1, q)
    BY <1>5, UpLeaf
<1>7. Up(x)[i - 1] < Width(n)
    BY <1>5, UpLeaf
<1>8. Other(sib(i), Up(x)[i - 1], i - 1) /\ sib(i) < Width(n)
  <2>1. sib(i) = sibling(n, Up(x)[i - 1])
      BY <1>4
  <2> HIDE DEF sib
  <2> QED
      BY <1>5, <1>6, <1>7, <2>1, SiblingIs
<1> HIDE DEF sib
<1> QED
    BY <1>3, <1>8

-----------------------------------------------------------------------------
(* The smallest sufficient power of two. *)

LEMMA NextPow2Is ==
    ASSUME NEW m \in Nat, m >= 1
    PROVE  \E k \in Nat : /\ next_pow2(m) = pow2[k]
                          /\ m <= pow2[k]
                          /\ k > 0 => pow2[k - 1] < m
<1> DEFINE G == [f \in [Nat -> Nat] |->
                    [p \in Nat |-> IF p = 0 THEN 0 ELSE IF p < m THEN f[2 * p] ELSE p]]
           r == [p \in Nat |-> IF p < m THEN m - p ELSE 0]
           Double[p \in Nat] == IF p < m THEN Double[2 * p] ELSE p
<1>1. G \in [[Nat -> Nat] -> [Nat -> Nat]]
    OBVIOUS
<1>2. Local(G, r, Nat)
  <2>1. SUFFICES ASSUME NEW f \in [Nat -> Nat], NEW g \in [Nat -> Nat], NEW p \in Nat,
                        \A y \in Nat : r[y] < r[p] => f[y] = g[y]
                 PROVE  G[f][p] = G[g][p]
      BY DEF Local
  <2>2. p # 0 /\ p < m => f[2 * p] = g[2 * p]
    <3>1. SUFFICES ASSUME p # 0, p < m PROVE f[2 * p] = g[2 * p]
        OBVIOUS
    <3>2. 2 * p \in Nat /\ r[2 * p] < r[p]
        BY <3>1
    <3> QED
        BY <2>1, <3>2
  <2> QED
      BY <2>2
<1>3. r \in [Nat -> Nat]
    OBVIOUS
<1>4. Solvable(G, Nat)
  <2> HIDE DEF G, r
  <2>1. Nat # {}
      OBVIOUS
  <2> QED
      BY <1>1, <1>2, <1>3, <2>1, Recursion
<1>5. PICK F \in [Nat -> Nat] :
          F = [p \in Nat |-> IF p = 0 THEN 0 ELSE IF p < m THEN F[2 * p] ELSE p]
    BY <1>4, Zenon DEF Solvable
<1>6. F = [p \in Nat |-> IF p < m THEN F[2 * p] ELSE p]
  <2>1. F[0] = 0
      BY <1>5, Zenon
  <2>2. \A p \in Nat : F[p] = IF p < m THEN F[2 * p] ELSE p
    <3>1. SUFFICES ASSUME NEW p \in Nat PROVE F[p] = IF p < m THEN F[2 * p] ELSE p
        OBVIOUS
    <3>2. F[p] = IF p = 0 THEN 0 ELSE IF p < m THEN F[2 * p] ELSE p
        BY <1>5, Zenon
    <3> QED
        BY <2>1, <3>2
  <2> QED
      BY <2>2
<1>7. Double = [p \in Nat |-> IF p < m THEN Double[2 * p] ELSE p]
    BY <1>6, Zenon DEF Double
<1>8. next_pow2(m) = Double[1]
    BY DEF next_pow2
<1> HIDE DEF G, r, Double
<1>9. PICK k \in Nat : m <= pow2[k] /\ \A j \in Nat : m <= pow2[j] => k <= j
  <2> DEFINE Enough == {j \in Nat : m <= pow2[j]}
  <2>1. m \in Enough
      BY Pow2
  <2>2. Enough \in SUBSET Nat /\ Enough # {}
      BY <2>1
  <2>3. PICK k \in Enough : \A j \in Enough : k <= j
    <3> HIDE DEF Enough
    <3> QED
        BY <2>2, LeastNumber
  <2> QED
      BY <2>3
<1> DEFINE T == {i \in Nat : i <= k => Double[pow2[k - i]] = pow2[k]}
<1>10. 0 \in T
  <2>1. k - 0 = k /\ pow2[k] \in Nat /\ ~ (pow2[k] < m)
      BY <1>9, Pow2
  <2>2. Double[pow2[k]] = pow2[k]
      BY <1>7, <2>1, Zenon
  <2> QED
      BY <2>1, <2>2
<1>11. ASSUME NEW i \in Nat, i \in T PROVE i + 1 \in T
  <2>1. SUFFICES ASSUME i + 1 <= k PROVE Double[pow2[k - (i + 1)]] = pow2[k]
      OBVIOUS
  <2> DEFINE j == k - (i + 1)
  <2>2. j \in Nat /\ j + 1 = k - i /\ j < k
      BY <2>1
  <2>3. pow2[j] \in Nat /\ pow2[j + 1] = 2 * pow2[j]
      BY <2>2, Pow2
  <2>4. pow2[j] < m
      BY <1>9, <2>2, <2>3
  <2>5. Double[pow2[j]] = Double[2 * pow2[j]]
      BY <1>7, <2>3, <2>4, Zenon
  <2>6. Double[pow2[k - i]] = pow2[k]
      BY <1>11, <2>1
  <2> HIDE DEF j
  <2>7. Double[pow2[j]] = pow2[k]
      BY <2>2, <2>3, <2>5, <2>6
  <2> QED
      BY <2>7 DEF j
<1>12. \A i \in Nat : i \in T
  <2> HIDE DEF T
  <2> QED
      BY <1>10, <1>11, Induction
<1>13. Double[1] = pow2[k]
  <2>1. Double[pow2[k - k]] = pow2[k]
      BY <1>12
  <2>2. k - k = 0
      OBVIOUS
  <2> QED
      BY <2>1, <2>2, Pow2
<1>14. k > 0 => pow2[k - 1] < m
  <2>1. SUFFICES ASSUME k > 0 PROVE pow2[k - 1] < m
      OBVIOUS
  <2>2. k - 1 \in Nat /\ ~ (k <= k - 1)
      BY <2>1
  <2>3. pow2[k - 1] \in Nat /\ ~ (m <= pow2[k - 1])
      BY <1>9, <2>2, Pow2
  <2> QED
      BY <2>3
<1> QED
    BY <1>8, <1>9, <1>13, <1>14

-----------------------------------------------------------------------------
(* The resolution of a node. *)

LEMMA ResolutionStep ==
    ASSUME NEW t, Len(t) \in Nat
    PROVE  \A y \in Nat :
               resolution(t, y) = IF y >= Len(t) THEN {}
                                  ELSE IF get_node(t, y) # Blank THEN {y}
                                  ELSE IF y % 2 = 0 THEN {}
                                  ELSE resolution(t, left(y)) \cup resolution(t, right(y))
<1> DEFINE S == SUBSET Nat
           G == [f \in [Nat -> S] |->
                    [y \in Nat |-> IF y >= Len(t) THEN {}
                                   ELSE IF get_node(t, y) # Blank THEN {y}
                                   ELSE IF y % 2 = 0 THEN {}
                                   ELSE f[left(y)] \cup f[right(y)]]]
           r == [y \in Nat |-> level[y]]
           Below[y \in Nat] ==
               IF y >= Len(t) THEN {}
               ELSE IF get_node(t, y) # Blank THEN {y}
               ELSE IF y % 2 = 0 THEN {}
               ELSE Below[left(y)] \cup Below[right(y)]
<1>1. ASSUME NEW y \in Nat, y % 2 # 0
      PROVE  /\ left(y) \in Nat /\ right(y) \in Nat
             /\ level[left(y)] < level[y] /\ level[right(y)] < level[y]
  <2>1. PICK k, q \in Nat : At(y, k, q)
      BY AtExists
  <2>2. k # 0
      BY <1>1, <2>1, LeafAt
  <2>3. k - 1 \in Nat /\ (k - 1) + 1 = k
      BY <2>2
  <2>4. At(y, (k - 1) + 1, q)
      BY <2>1, <2>3
  <2>5. /\ left(y) \in Nat /\ right(y) \in Nat
        /\ \E i \in Nat : At(left(y), k - 1, i)
        /\ \E i \in Nat : At(right(y), k - 1, i)
      BY <2>3, <2>4, ChildrenOf
  <2>6. level[left(y)] = k - 1 /\ level[right(y)] = k - 1 /\ level[y] = k
      BY <2>1, <2>5, AtLevel
  <2> QED
      BY <2>5, <2>6
<1>2. G \in [[Nat -> S] -> [Nat -> S]]
  <2>1. ASSUME NEW f \in [Nat -> S], NEW y \in Nat, y % 2 # 0
        PROVE  f[left(y)] \in S /\ f[right(y)] \in S
      BY <1>1, <2>1
  <2>2. ASSUME NEW f \in [Nat -> S], NEW y \in Nat
        PROVE  (IF y >= Len(t) THEN {}
                ELSE IF get_node(t, y) # Blank THEN {y}
                ELSE IF y % 2 = 0 THEN {}
                ELSE f[left(y)] \cup f[right(y)]) \in S
      BY <2>1
  <2> HIDE DEF S
  <2> QED
      BY <2>2
<1>3. r \in [Nat -> Nat]
  <2>1. ASSUME NEW y \in Nat PROVE level[y] \in Nat
    <3>1. PICK k, q \in Nat : At(y, k, q)
        BY AtExists
    <3> QED
        BY <3>1, AtLevel
  <2> QED
      BY <2>1
<1>4. Local(G, r, S)
  <2>1. SUFFICES ASSUME NEW f \in [Nat -> S], NEW g \in [Nat -> S], NEW y \in Nat,
                        \A z \in Nat : r[z] < r[y] => f[z] = g[z]
                 PROVE  G[f][y] = G[g][y]
      BY Zenon DEF Local
  <2>2. y % 2 # 0 => f[left(y)] = g[left(y)] /\ f[right(y)] = g[right(y)]
      BY <1>1, <2>1
  <2>3. \A h \in [Nat -> S] :
            G[h][y] = IF y >= Len(t) THEN {}
                      ELSE IF get_node(t, y) # Blank THEN {y}
                      ELSE IF y % 2 = 0 THEN {}
                      ELSE h[left(y)] \cup h[right(y)]
    <3> HIDE DEF S
    <3> QED
        BY Zenon
  <2> HIDE DEF G, S
  <2> QED
      BY <2>2, <2>3
<1>5. Solvable(G, S)
  <2>1. S # {}
      OBVIOUS
  <2> HIDE DEF G, r, S
  <2> QED
      BY <1>2, <1>3, <1>4, <2>1, Recursion
<1>6. PICK F \in [Nat -> S] :
          F = [y \in Nat |-> IF y >= Len(t) THEN {}
                             ELSE IF get_node(t, y) # Blank THEN {y}
                             ELSE IF y % 2 = 0 THEN {}
                             ELSE F[left(y)] \cup F[right(y)]]
  <2> HIDE DEF S
  <2> QED
      BY <1>5, Zenon DEF Solvable
<1>7. Below = [y \in Nat |-> IF y >= Len(t) THEN {}
                             ELSE IF get_node(t, y) # Blank THEN {y}
                             ELSE IF y % 2 = 0 THEN {}
                             ELSE Below[left(y)] \cup Below[right(y)]]
    BY <1>6, Zenon DEF Below
<1>8. \A y : resolution(t, y) = IF y < 0 THEN {} ELSE Below[y]
    BY Zenon DEF resolution
<1> HIDE DEF Below, G, r, S
<1>9. \A y \in Nat : resolution(t, y) = Below[y]
    BY <1>8
<1>10. SUFFICES ASSUME NEW y \in Nat
                PROVE  resolution(t, y) = IF y >= Len(t) THEN {}
                                          ELSE IF get_node(t, y) # Blank THEN {y}
                                          ELSE IF y % 2 = 0 THEN {}
                                          ELSE resolution(t, left(y)) \cup resolution(t, right(y))
    OBVIOUS
<1>11. Below[y] = IF y >= Len(t) THEN {}
                  ELSE IF get_node(t, y) # Blank THEN {y}
                  ELSE IF y % 2 = 0 THEN {}
                  ELSE Below[left(y)] \cup Below[right(y)]
    BY <1>7, Zenon
<1>12. y % 2 # 0 => /\ resolution(t, left(y)) = Below[left(y)]
                    /\ resolution(t, right(y)) = Below[right(y)]
    BY <1>1, <1>9
<1> QED
    BY <1>9, <1>11, <1>12

\* What the resolution of y names is there, not blank, and below y.
LEMMA ResolutionBelow ==
    ASSUME NEW t, Len(t) \in Nat, NEW y \in Nat, NEW r \in resolution(t, y)
    PROVE  /\ r \in Nat /\ r < Len(t) /\ get_node(t, r) # Blank
           /\ \E j \in Nat : Up(r)[j] = y
<1> DEFINE Good(x, z) ==
               /\ x \in Nat /\ x < Len(t) /\ get_node(t, x) # Blank
               /\ \E j \in Nat : Up(x)[j] = z
           T == {k \in Nat : \A z, q : At(z, k, q) => \A x \in resolution(t, z) : Good(x, z)}
<1>1. ASSUME NEW z \in Nat, z < Len(t), get_node(t, z) # Blank
      PROVE  Good(z, z)
  <2>1. Up(z)[0] = z
      BY UpIs
  <2> QED
      BY <1>1, <2>1
<1>2. ASSUME NEW k \in Nat, k - 1 \in T \/ k = 0 PROVE k \in T
  <2>1. SUFFICES ASSUME NEW z, NEW q, At(z, k, q), NEW x \in resolution(t, z) PROVE Good(x, z)
      OBVIOUS
  <2>2. z \in Nat
      BY <2>1 DEF At
  <2>3. z % 2 = 0 <=> k = 0
      BY <2>1, LeafAt
  <2>4. resolution(t, z) = IF z >= Len(t) THEN {}
                           ELSE IF get_node(t, z) # Blank THEN {z}
                           ELSE IF z % 2 = 0 THEN {}
                           ELSE resolution(t, left(z)) \cup resolution(t, right(z))
      BY <2>2, ResolutionStep
  <2>5. CASE z < Len(t) /\ get_node(t, z) # Blank
    <3>1. x = z
        BY <2>1, <2>2, <2>4, <2>5
    <3> QED
        BY <1>1, <2>2, <2>5, <3>1
  <2>6. CASE ~ (z < Len(t) /\ get_node(t, z) # Blank)
    <3>1. k # 0 /\ (x \in resolution(t, left(z)) \/ x \in resolution(t, right(z)))
        BY <2>1, <2>2, <2>3, <2>4, <2>6
    <3>2. k - 1 \in Nat /\ (k - 1) + 1 = k /\ k - 1 \in T
        BY <1>2, <3>1
    <3>3. At(z, (k - 1) + 1, q)
        BY <2>1, <3>2
    <3>4. PICK c \in {left(z), right(z)} : x \in resolution(t, c)
        BY <3>1
    <3>5. Above(c) = z /\ c \in Nat /\ \E i \in Nat : At(c, k - 1, i)
        BY <3>2, <3>3, <3>4, ChildrenOf
    <3>6. Good(x, c)
        BY <3>2, <3>4, <3>5
    <3>7. PICK j \in Nat : Up(x)[j] = c
        BY <3>6
    <3>8. Up(x)[j + 1] = z /\ j + 1 \in Nat
      <4>1. x \in Nat
          BY <3>6
      <4>2. Up(x)[j + 1] = Above(Up(x)[j])
          BY <4>1, UpIs
      <4> QED
          BY <3>5, <3>7, <4>2
    <3> QED
        BY <3>6, <3>8
  <2> QED
      BY <2>5, <2>6
<1>3. 0 \in T
    BY <1>2
<1>4. ASSUME NEW k \in Nat, k \in T PROVE k + 1 \in T
  <2>1. (k + 1) - 1 = k /\ k + 1 \in Nat
      OBVIOUS
  <2> HIDE DEF T
  <2> QED
      BY <1>2, <1>4, <2>1
<1>5. \A k \in Nat : k \in T
  <2> HIDE DEF T
  <2> QED
      BY <1>3, <1>4, Induction
<1>6. PICK k, q \in Nat : At(y, k, q)
    BY AtExists
<1>7. Good(r, y)
    BY <1>5, <1>6
<1> QED
    BY <1>7

-----------------------------------------------------------------------------
(* Full trees. *)

Sized(t, K) == K \in Nat /\ DOMAIN t = 1 .. Len(t) /\ Len(t) = Width(pow2[K])

Minimal(t, K) == K > 0 => \E x \in Occupied(t) : x >= pow2[K]

LEMMA SizedIs ==
    ASSUME NEW t, NEW K, Sized(t, K)
    PROVE  /\ K \in Nat /\ Len(t) \in Nat /\ Len(t) >= 1
           /\ num_leaves(t) = pow2[K]
           /\ \A x : x \in NodeIds(t) <=> x \in Nat /\ x < Width(pow2[K])
           /\ \A x : x \in LeafIds(t) <=> x \in Nat /\ x < Width(pow2[K]) /\ x % 2 = 0
           /\ \A x : x \in Occupied(t) <=> x \in LeafIds(t) /\ get_node(t, x) # Blank
<1>1. K \in Nat /\ Len(t) = Width(pow2[K])
    BY DEF Sized
<1>2. Len(t) \in Nat /\ Len(t) >= 1
    BY <1>1, WidthIs
<1>3. pow2[K] \in Nat
    BY <1>1, Pow2
<1>4. num_leaves(t) = pow2[K]
    BY <1>1, <1>3 DEF num_leaves, Width
<1>5. \A x : x \in NodeIds(t) <=> x \in Nat /\ x < Width(pow2[K])
    BY <1>1, <1>2 DEF NodeIds
<1>6. \A x : x \in LeafIds(t) <=> x \in Nat /\ x < Width(pow2[K]) /\ x % 2 = 0
    BY <1>5 DEF LeafIds
<1>7. \A x : x \in Occupied(t) <=> x \in LeafIds(t) /\ get_node(t, x) # Blank
    BY DEF Occupied
<1> QED
    BY <1>1, <1>2, <1>4, <1>5, <1>6, <1>7

LEMMA PathSetIs ==
    ASSUME NEW t, NEW K, Sized(t, K), NEW x \in LeafIds(t)
    PROVE  PathSet(t, x) = {Up(x)[i] : i \in 1 .. K}
<1>1. K \in Nat /\ num_leaves(t) = pow2[K] /\ x \in Nat /\ x < Width(pow2[K]) /\ x % 2 = 0
    BY SizedIs
<1>2. direct_path(num_leaves(t), x) = [i \in 1 .. K |-> Up(x)[i]]
    BY <1>1, DirectPathIs
<1>3. PathSet(t, x) = {direct_path(num_leaves(t), x)[i] : i \in DOMAIN direct_path(num_leaves(t), x)}
    BY DEF PathSet
<1> QED
    BY <1>2, <1>3

\* A path node is a parent.
LEMMA PathIsOdd ==
    ASSUME NEW t, NEW K, Sized(t, K), NEW x \in LeafIds(t), NEW i \in 1 .. K
    PROVE  Up(x)[i] \in NodeIds(t) /\ Up(x)[i] % 2 # 0
<1>1. K \in Nat /\ x \in Nat /\ x < Width(pow2[K]) /\ x % 2 = 0
    BY SizedIs
<1>2. i \in Nat /\ i <= K /\ i # 0
    BY <1>1
<1>3. PICK s \in Nat : At(Up(x)[i], i, s)
    BY <1>1, <1>2, UpLeaf
<1>4. Up(x)[i] < Width(pow2[K])
    BY <1>1, <1>2, UpLeaf
<1>5. Up(x)[i] \in Nat
    BY <1>1, <1>2, UpIs
<1>6. Up(x)[i] % 2 # 0
    BY <1>2, <1>3, LeafAt
<1> QED
    BY <1>4, <1>5, <1>6, SizedIs

-----------------------------------------------------------------------------
(* Additions. *)

\* A tree of pow2[K] leaves of which none is blank has as many members: what the
\* guard of add_member counts when FreeLeaf finds nothing and the tree doubles.
LEMMA LeavesCounted ==
    ASSUME NEW t, NEW K, Sized(t, K)
    PROVE  IsFiniteSet(LeafIds(t)) /\ Cardinality(LeafIds(t)) = pow2[K]
<1> DEFINE n == pow2[K]
           f == [i \in 1 .. n |-> 2 * (i - 1)]
<1>1. n \in Nat /\ \A x : x \in LeafIds(t) <=> x \in Nat /\ x < 2 * n - 1 /\ x % 2 = 0
    BY SizedIs, Pow2 DEF Width
<1> HIDE DEF n
<1>2. f \in Bijection(1 .. n, LeafIds(t))
  <2>1. \A i \in 1 .. n : f[i] \in LeafIds(t)
      BY <1>1
  <2>2. \A i, j \in 1 .. n : f[i] = f[j] => i = j
      BY <1>1
  <2>3. \A x \in LeafIds(t) : \E i \in 1 .. n : f[i] = x
    <3>1. SUFFICES ASSUME NEW x \in LeafIds(t) PROVE \E i \in 1 .. n : f[i] = x
        OBVIOUS
    <3>2. x \in Nat /\ x < 2 * n - 1 /\ x = 2 * (x \div 2)
        BY <1>1
    <3>3. x \div 2 + 1 \in 1 .. n /\ 2 * ((x \div 2 + 1) - 1) = x
        BY <1>1, <3>2
    <3> QED
        BY <3>3
  <2>4. f \in [1 .. n -> LeafIds(t)]
      BY <2>1
  <2> HIDE DEF f
  <2>5. f \in Injection(1 .. n, LeafIds(t))
      BY <2>2, <2>4 DEF Injection, IsInjective
  <2>6. f \in Surjection(1 .. n, LeafIds(t))
      BY <2>3, <2>4, Zenon DEF Surjection
  <2> QED
      BY <2>5, <2>6 DEF Bijection
<1>3. IsFiniteSet(1 .. n) /\ Cardinality(1 .. n) = n
    BY <1>1, FS_Interval
<1>4. ExistsBijection(1 .. n, LeafIds(t))
    BY <1>2 DEF ExistsBijection
<1> QED
    BY <1>3, <1>4, FS_Bijection DEF n

\* Where a new leaf goes, among how many leaves.
Placed(t, K, u, J, at, leaf) ==
    /\ Sized(u, J) /\ K <= J
    /\ at \in LeafIds(u) /\ get_node(t, at) = Blank
    /\ J = K \/ (J = K + 1 /\ at = 2 * pow2[K] /\ Occupied(t) = LeafIds(t))
    /\ get_node(u, at) = leaf
    /\ \A i \in 1 .. J : get_node(u, Up(at)[i]) = Blank
    /\ \A z \in NodeIds(u) :
           z # at /\ (\A i \in 1 .. J : Up(at)[i] # z) => get_node(u, z) = get_node(t, z)

LEMMA FreeLeafIs ==
    ASSUME NEW t, NEW K, Sized(t, K)
    PROVE  \/ FreeLeaf(t) \in LeafIds(t) /\ get_node(t, FreeLeaf(t)) = Blank
           \/ FreeLeaf(t) = 2 * pow2[K] /\ Occupied(t) = LeafIds(t)
<1> DEFINE blanks == {x \in LeafIds(t) : get_node(t, x) = Blank}
<1>1. FreeLeaf(t) = IF blanks = {} THEN 2 * num_leaves(t)
                    ELSE CHOOSE x \in blanks : \A y \in blanks : x <= y
    BY DEF FreeLeaf
<1>2. CASE blanks = {}
  <2>1. FreeLeaf(t) = 2 * pow2[K]
      BY <1>1, <1>2, SizedIs
  <2>2. Occupied(t) = LeafIds(t)
      BY <1>2 DEF Occupied
  <2> QED
      BY <2>1, <2>2
<1>3. CASE blanks # {}
  <2>1. blanks \in SUBSET Nat
      BY SizedIs
  <2>2. \A x \in blanks : x \in LeafIds(t) /\ get_node(t, x) = Blank
      OBVIOUS
  <2> HIDE DEF blanks
  <2>3. \E x \in blanks : \A y \in blanks : x <= y
      BY <1>3, <2>1, LeastNumber
  <2>4. FreeLeaf(t) \in blanks
      BY <1>1, <1>3, <2>3
  <2> QED
      BY <2>2, <2>4
<1> QED
    BY <1>2, <1>3

LEMMA PlaceLeafIs ==
    ASSUME NEW t, NEW K, Sized(t, K), NEW leaf
    PROVE  \E J \in Nat : \E at \in Nat : Placed(t, K, place_leaf(t, leaf), J, at, leaf)
<1> DEFINE at == FreeLeaf(t)
           n == IF at \in NodeIds(t) THEN num_leaves(t) ELSE 2 * num_leaves(t)
           grown == [j \in 1 .. Width(n) |-> get_node(t, j - 1)]
           stale == PathSet(grown, at)
           u == place_leaf(t, leaf)
           J == IF at \in NodeIds(t) THEN K ELSE K + 1
<1>1. /\ K \in Nat /\ num_leaves(t) = pow2[K]
      /\ pow2[K] \in Nat /\ pow2[K] >= 1 /\ pow2[K + 1] = 2 * pow2[K]
  <2>1. K \in Nat /\ num_leaves(t) = pow2[K]
      BY SizedIs
  <2> QED
      BY <2>1, Pow2
<1>2. u = [j \in 1 .. Width(n) |->
              IF j - 1 = at THEN leaf ELSE IF j - 1 \in stale THEN Blank ELSE grown[j]]
    BY DEF place_leaf
<1>3. J \in Nat /\ n = pow2[J] /\ K <= J
  <2> HIDE DEF at
  <2> QED
      BY <1>1
<1>4. /\ at \in Nat /\ at % 2 = 0 /\ at < Width(pow2[J]) /\ get_node(t, at) = Blank
      /\ J = K \/ (J = K + 1 /\ at = 2 * pow2[K] /\ Occupied(t) = LeafIds(t))
  <2>1. CASE at \in LeafIds(t) /\ get_node(t, at) = Blank
    <3>1. at \in NodeIds(t) /\ at \in Nat /\ at % 2 = 0 /\ at < Width(pow2[K])
        BY <2>1, SizedIs
    <3> HIDE DEF at
    <3> QED
        BY <1>1, <2>1, <3>1
  <2>2. CASE at = 2 * pow2[K] /\ Occupied(t) = LeafIds(t)
    <3>1. Width(pow2[K]) = 2 * pow2[K] - 1 /\ Width(pow2[K + 1]) = 4 * pow2[K] - 1
        BY <1>1 DEF Width
    <3>2. at \notin NodeIds(t)
      <4>1. ~ (at < Width(pow2[K]))
        <5> HIDE DEF at
        <5> QED
            BY <1>1, <2>2, <3>1
      <4> QED
          BY <4>1, SizedIs
    <3>3. get_node(t, at) = Blank
        BY <3>2 DEF get_node
    <3> HIDE DEF at
    <3> QED
        BY <1>1, <2>2, <3>1, <3>2, <3>3
  <2> QED
      BY <2>1, <2>2, FreeLeafIs
<1>5. Width(n) \in Nat
    BY <1>3, WidthIs
<1> HIDE DEF at, n, J
<1>6. Sized(grown, J)
  <2>1. DOMAIN grown = 1 .. Width(n) /\ Len(grown) = Width(n)
      BY <1>5
  <2> HIDE DEF grown
  <2> QED
      BY <1>3, <2>1 DEF Sized
<1>7. at \in LeafIds(grown)
    BY <1>4, <1>6, SizedIs
<1>8. stale = {Up(at)[i] : i \in 1 .. J}
    BY <1>6, <1>7, PathSetIs
<1>9. Sized(u, J)
  <2>1. DOMAIN u = 1 .. Width(n) /\ Len(u) = Width(n)
    <3> HIDE DEF u, grown, stale
    <3> QED
        BY <1>2, <1>5
  <2> HIDE DEF u
  <2> QED
      BY <1>3, <2>1 DEF Sized
<1>10. at \in LeafIds(u)
    BY <1>4, <1>9, SizedIs
<1>11. ASSUME NEW z \in NodeIds(u)
       PROVE  get_node(u, z) = IF z = at THEN leaf
                               ELSE IF z \in stale THEN Blank ELSE get_node(t, z)
  <2>1. z \in Nat /\ z < Width(n)
      BY <1>3, <1>9, SizedIs
  <2>2. z + 1 \in 1 .. Width(n) /\ (z + 1) - 1 = z
      BY <1>5, <2>1
  <2>3. grown[z + 1] = get_node(t, z)
      BY <2>2
  <2>4. get_node(u, z) = u[z + 1]
      BY DEF get_node
  <2> HIDE DEF u, grown, stale
  <2>5. u[z + 1] = IF (z + 1) - 1 = at THEN leaf
                   ELSE IF (z + 1) - 1 \in stale THEN Blank ELSE grown[z + 1]
      BY <1>2, <2>2, Zenon
  <2> QED
      BY <2>2, <2>3, <2>4, <2>5
<1>12. at \in NodeIds(u) /\ at % 2 = 0
    BY <1>9, <1>10, SizedIs
<1>13. ASSUME NEW i \in 1 .. J PROVE Up(at)[i] \in NodeIds(u) /\ Up(at)[i] # at
    BY <1>9, <1>10, <1>12, PathIsOdd
<1> HIDE DEF u, stale
<1>14. get_node(u, at) = leaf
    BY <1>11, <1>12
<1>15. \A i \in 1 .. J : get_node(u, Up(at)[i]) = Blank
    BY <1>8, <1>11, <1>13
<1>16. \A z \in NodeIds(u) :
           z # at /\ (\A i \in 1 .. J : Up(at)[i] # z) => get_node(u, z) = get_node(t, z)
    BY <1>8, <1>11
<1>17. Placed(t, K, u, J, at, leaf)
    BY <1>3, <1>4, <1>9, <1>10, <1>14, <1>15, <1>16 DEF Placed
<1> QED
    BY <1>3, <1>4, <1>17 DEF u

-----------------------------------------------------------------------------
(* Removals. *)

Removed(t, K, u, J, y) ==
    /\ Sized(u, J) /\ J <= K
    /\ \A z \in Occupied(t) : z # y => z \in Occupied(u)
    /\ \A i \in 1 .. K : get_node(u, Up(y)[i]) = Blank
    /\ get_node(u, y) = Blank
    /\ \A z \in NodeIds(u) :
           z # y /\ (\A i \in 1 .. K : Up(y)[i] # z) => get_node(u, z) = get_node(t, z)

LEMMA RemoveLeafIs ==
    ASSUME NEW t, NEW K, Sized(t, K), NEW x \in Occupied(t), NEW y \in LeafIds(t), y # x
    PROVE  \E J \in Nat : Removed(t, K, remove_leaf(t, y), J, y) /\ Minimal(remove_leaf(t, y), J)
<1> DEFINE stale == {y} \cup PathSet(t, y)
           blanked == [j \in 1 .. Len(t) |-> IF j - 1 \in stale THEN Blank ELSE t[j]]
           there == Occupied(blanked)
           rightmost == CHOOSE a \in there : \A z \in there : z <= a
           u == remove_leaf(t, y)
<1>1. /\ K \in Nat /\ Len(t) \in Nat /\ Len(t) = Width(pow2[K])
      /\ y \in NodeIds(t) /\ y \in Nat /\ y % 2 = 0
    BY SizedIs DEF Sized
<1>2. stale = {y} \cup {Up(y)[i] : i \in 1 .. K}
    BY PathSetIs
<1>3. u = IF there = {} THEN <<>>
          ELSE Take(blanked, Width(next_pow2(rightmost \div 2 + 1)))
    BY DEF remove_leaf
<1>4. DOMAIN blanked = 1 .. Len(t) /\ Len(blanked) = Len(t)
    BY <1>1
<1>5. ASSUME NEW z \in NodeIds(t)
      PROVE  get_node(blanked, z) = IF z \in stale THEN Blank ELSE get_node(t, z)
  <2>1. z + 1 \in 1 .. Len(t) /\ (z + 1) - 1 = z
      BY <1>1 DEF NodeIds
  <2>2. get_node(t, z) = t[z + 1]
      BY DEF get_node
  <2>3. z \in NodeIds(blanked)
    <3> HIDE DEF blanked
    <3> QED
        BY <1>4 DEF NodeIds
  <2>4. get_node(blanked, z) = blanked[z + 1]
      BY <2>3 DEF get_node
  <2> HIDE DEF stale
  <2> QED
      BY <2>1, <2>2, <2>4
<1> HIDE DEF stale, u, blanked
<1>6. Sized(blanked, K)
    BY <1>1, <1>4 DEF Sized
<1>7. NodeIds(blanked) = NodeIds(t) /\ LeafIds(blanked) = LeafIds(t)
  <2>1. \A z : (z \in NodeIds(blanked) <=> z \in NodeIds(t))
               /\ (z \in LeafIds(blanked) <=> z \in LeafIds(t))
      BY <1>6, SizedIs
  <2> QED
      BY <2>1
<1>8. \A z \in LeafIds(t) : z \in stale <=> z = y
  <2>1. SUFFICES ASSUME NEW z \in LeafIds(t) PROVE z \in stale <=> z = y
      OBVIOUS
  <2>2. z % 2 = 0
      BY SizedIs
  <2>3. \A i \in 1 .. K : Up(y)[i] # z
      BY <2>2, PathIsOdd
  <2> QED
      BY <1>2, <2>3
<1>9. \A z : z \in there <=> z \in Occupied(t) /\ z # y
  <2>1. SUFFICES ASSUME NEW z PROVE z \in there <=> z \in Occupied(t) /\ z # y
      OBVIOUS
  <2>2. z \in there <=> z \in LeafIds(t) /\ get_node(blanked, z) # Blank
      BY <1>7 DEF Occupied
  <2>3. z \in Occupied(t) <=> z \in LeafIds(t) /\ get_node(t, z) # Blank
      BY DEF Occupied
  <2>4. z \in LeafIds(t) => z \in NodeIds(t)
      BY DEF LeafIds
  <2> QED
      BY <1>5, <1>8, <2>2, <2>3, <2>4
<1>10. x \in there
    BY <1>9
<1>11. rightmost \in there /\ \A z \in there : z <= rightmost
  <2>1. there \in SUBSET (0 .. Len(t))
    <3>1. \A z \in there : z \in Nat /\ z < Len(t)
        BY <1>1, <1>9, SizedIs
    <3> HIDE DEF there
    <3> QED
        BY <1>1, <3>1
  <2> HIDE DEF there
  <2>2. \E a \in there : \A z \in there : z <= a
      BY <1>1, <1>10, <2>1, GreatestNumber
  <2> QED
      BY <2>2
<1> HIDE DEF rightmost, there
<1>12. rightmost \in Nat /\ rightmost % 2 = 0 /\ rightmost < Width(pow2[K])
    BY <1>9, <1>11, SizedIs
<1> DEFINE m == rightmost \div 2 + 1
<1>13. m \in Nat /\ m >= 1 /\ rightmost = 2 * m - 2
    BY <1>12
<1>14. PICK J \in Nat : next_pow2(m) = pow2[J] /\ m <= pow2[J] /\ (J > 0 => pow2[J - 1] < m)
    BY <1>13, NextPow2Is
<1>15. u = Take(blanked, Width(pow2[J]))
    BY <1>3, <1>10, <1>14
<1> HIDE DEF m
<1>16. J <= K
  <2>1. SUFFICES ASSUME J > K PROVE FALSE
      BY <1>1
  <2>2. J - 1 \in Nat /\ K <= J - 1
      BY <1>1, <2>1
  <2>3. pow2[K] <= pow2[J - 1] /\ pow2[K] \in Nat /\ pow2[J - 1] \in Nat
      BY <1>1, <2>2, Pow2, Pow2Monotone
  <2>4. pow2[J - 1] < m
      BY <1>1, <1>14, <2>1
  <2>5. rightmost < 2 * pow2[K] - 1
      BY <1>12 DEF Width
  <2> QED
      BY <1>13, <2>3, <2>4, <2>5
<1>17. Width(pow2[J]) \in Nat /\ Width(pow2[J]) <= Len(t)
  <2>1. pow2[J] <= pow2[K] /\ pow2[K] \in Nat /\ pow2[J] \in Nat
      BY <1>1, <1>16, Pow2, Pow2Monotone
  <2>2. Width(pow2[J]) \in Nat
      BY WidthIs
  <2>3. Width(pow2[J]) <= Width(pow2[K])
      BY <2>1 DEF Width
  <2> QED
      BY <1>1, <2>2, <2>3
<1> DEFINE W == Width(pow2[J])
<1>18. u = [j \in 1 .. W |-> blanked[j]]
  <2>1. {j \in DOMAIN blanked : j <= W} = 1 .. W
    <3> HIDE DEF W
    <3> QED
        BY <1>1, <1>4, <1>17 DEF W
  <2>2. Cardinality(1 .. W) = W
    <3>1. W \in Nat
        BY <1>17
    <3> HIDE DEF W
    <3>2. 1 \in Int /\ W \in Int
        BY <3>1
    <3>3. Cardinality(1 .. W) = IF 1 > W THEN 0 ELSE W - 1 + 1
        BY <3>2, FS_Interval
    <3> QED
        BY <3>1, <3>3
  <2> HIDE DEF W
  <2> QED
      BY <1>15, <2>1, <2>2 DEF Take, W
<1>19. Sized(u, J)
  <2>1. DOMAIN u = 1 .. W /\ Len(u) = W
    <3> HIDE DEF W
    <3> QED
        BY <1>17, <1>18 DEF W
  <2> QED
      BY <2>1 DEF Sized
<1>20. ASSUME NEW z \in NodeIds(u)
       PROVE  z \in NodeIds(t) /\ get_node(u, z) = get_node(blanked, z)
  <2>1. z \in Nat /\ z < W
      BY <1>19, SizedIs
  <2>2. z \in NodeIds(t) /\ z \in NodeIds(blanked)
    <3>1. z < Len(t)
      <4> HIDE DEF W
      <4> QED
          BY <1>1, <1>17, <2>1 DEF W
    <3> QED
        BY <1>1, <1>7, <2>1, <3>1 DEF NodeIds
  <2>3. u[z + 1] = blanked[z + 1]
    <3>1. z + 1 \in 1 .. W
      <4> HIDE DEF W
      <4> QED
          BY <1>17, <2>1 DEF W
    <3> HIDE DEF W
    <3> QED
        BY <1>18, <3>1
  <2> QED
      BY <2>2, <2>3 DEF get_node
<1>21. \A z \in NodeIds(u) :
           get_node(u, z) = IF z \in stale THEN Blank ELSE get_node(t, z)
    BY <1>5, <1>20
<1>22. \A z \in stale : get_node(u, z) = Blank
    BY <1>21 DEF get_node
<1>23. ASSUME NEW z \in Occupied(t), z # y PROVE z \in Occupied(u)
  <2>1. z \in there
      BY <1>9, <1>23
  <2>2. z <= rightmost /\ z \in Nat /\ z % 2 = 0 /\ z \in LeafIds(t) /\ get_node(t, z) # Blank
      BY <1>11, <2>1, SizedIs
  <2>3. z < W
    <3>1. W = 2 * pow2[J] - 1 /\ pow2[J] \in Nat
        BY Pow2 DEF Width
    <3> HIDE DEF W
    <3> QED
        BY <1>12, <1>13, <1>14, <2>2, <3>1
  <2>4. z \in NodeIds(u) /\ z \in LeafIds(u)
      BY <1>19, <2>2, <2>3, SizedIs
  <2>5. get_node(u, z) # Blank
      BY <1>8, <1>21, <1>23, <2>2, <2>4
  <2> QED
      BY <1>19, <2>4, <2>5, SizedIs
<1>24. Removed(t, K, u, J, y)
  <2>1. \A i \in 1 .. K : Up(y)[i] \in stale
      BY <1>2
  <2>2. y \in stale
      BY <1>2
  <2>3. \A z : z # y /\ (\A i \in 1 .. K : Up(y)[i] # z) => z \notin stale
      BY <1>2
  <2> QED
      BY <1>16, <1>19, <1>21, <1>22, <1>23, <2>1, <2>2, <2>3 DEF Removed
<1>25. Minimal(u, J)
  <2>1. SUFFICES ASSUME J > 0 PROVE rightmost \in Occupied(u) /\ rightmost >= pow2[J]
      BY DEF Minimal
  <2>2. rightmost \in Occupied(u)
      BY <1>9, <1>11, <1>23
  <2>3. J - 1 \in Nat /\ (J - 1) + 1 = J
      BY <2>1
  <2>4. pow2[J] = 2 * pow2[J - 1] /\ pow2[J - 1] \in Nat
      BY <2>3, Pow2
  <2>5. pow2[J - 1] < m
      BY <1>14, <2>1
  <2> QED
      BY <1>12, <1>13, <2>2, <2>4, <2>5
<1> QED
    BY <1>24, <1>25 DEF u

-----------------------------------------------------------------------------
(* Logarithms, and who is below a resolution. *)

LEMMA Log2Bounds == \A k \in Nat : \A m \in Nat : pow2[k] <= m => log2[m] \in Nat /\ k <= log2[m]
<1>0. \A y \in Nat : log2[y] = IF y <= 1 THEN 0 ELSE 1 + log2[y \div 2]
    BY Log2Equation, Zenon
<1>t. \A m \in Nat : log2[m] \in Nat
  <2> DEFINE T == {n \in Nat : \A m \in Nat : m < n => log2[m] \in Nat}
  <2>1. 0 \in T
      OBVIOUS
  <2>2. ASSUME NEW n \in Nat, n \in T PROVE n + 1 \in T
    <3>1. SUFFICES ASSUME NEW m \in Nat, m < n + 1 PROVE log2[m] \in Nat
        OBVIOUS
    <3>2. log2[m] = IF m <= 1 THEN 0 ELSE 1 + log2[m \div 2]
        BY <1>0
    <3>3. ~ (m <= 1) => m \div 2 \in Nat /\ m \div 2 < n
        BY <3>1
    <3>4. ~ (m <= 1) => log2[m \div 2] \in Nat
        BY <2>2, <3>3
    <3> QED
        BY <3>2, <3>4
  <2> HIDE DEF T
  <2>3. \A n \in Nat : n \in T
      BY <2>1, <2>2, Induction
  <2>4. SUFFICES ASSUME NEW m \in Nat PROVE log2[m] \in Nat
      OBVIOUS
  <2>5. m + 1 \in T
      BY <2>3
  <2> QED
      BY <2>5 DEF T
<1> DEFINE T == {k \in Nat : \A m \in Nat : pow2[k] <= m => k <= log2[m]}
<1>1. 0 \in T
  <2>1. \A m \in Nat : 0 <= log2[m]
      BY <1>t
  <2> QED
      BY <2>1
<1>2. ASSUME NEW k \in Nat, k \in T PROVE k + 1 \in T
  <2>1. SUFFICES ASSUME NEW m \in Nat, pow2[k + 1] <= m PROVE k + 1 <= log2[m]
      OBVIOUS
  <2>2. pow2[k] \in Nat /\ pow2[k] >= 1 /\ pow2[k + 1] = 2 * pow2[k]
      BY Pow2
  <2>3. m \div 2 \in Nat /\ pow2[k] <= m \div 2 /\ ~ (m <= 1)
      BY <2>1, <2>2
  <2>4. k <= log2[m \div 2]
      BY <1>2, <2>3
  <2>5. log2[m] = 1 + log2[m \div 2]
      BY <1>0, <2>3
  <2>6. log2[m \div 2] \in Nat
      BY <1>t, <2>3
  <2> QED
      BY <2>4, <2>5, <2>6
<1> HIDE DEF T
<1>3. \A k \in Nat : k \in T
    BY <1>1, <1>2, Induction
<1> QED
    BY <1>t, <1>3 DEF T

LEMMA LeafOnce ==
    ASSUME NEW t, Len(t) \in Nat, NEW y \in Nat, y % 2 = 0, get_node(t, y) # Blank
    PROVE  \A k \in Nat :
               (\A i \in 0 .. k : Up(y)[i] < Len(t)) =>
                   \E r \in resolution(t, Up(y)[k]) :
                       /\ \E j \in 0 .. k : Up(y)[j] = r
                       /\ \A s \in resolution(t, Up(y)[k]) :
                              (\E i \in Nat : Up(y)[i] = s) => s = r
<1> DEFINE Inside(k) == \A i \in 0 .. k : Up(y)[i] < Len(t)
           Once(k, r) == /\ r \in resolution(t, Up(y)[k])
                         /\ \E j \in 0 .. k : Up(y)[j] = r
                         /\ \A s \in resolution(t, Up(y)[k]) :
                                (\E i \in Nat : Up(y)[i] = s) => s = r
           T == {k \in Nat : Inside(k) => \E r : Once(k, r)}
<1>0. Up(y)[0] = y /\ \A i \in Nat : Up(y)[i] \in Nat /\ Up(y)[i + 1] = Above(Up(y)[i])
    BY UpIs
<1>l. ASSUME NEW i \in Nat PROVE \E s \in Nat : At(Up(y)[i], i, s)
  <2>1. PICK s \in Nat : At(Up(y)[i], 0 + i, s)
      BY EvenAt, UpAt
  <2>2. 0 + i = i
      OBVIOUS
  <2> QED
      BY <2>1, <2>2
<1>1. ASSUME NEW k \in Nat, Inside(k), get_node(t, Up(y)[k]) # Blank
      PROVE  Once(k, Up(y)[k])
  <2>1. Up(y)[k] < Len(t) /\ k \in 0 .. k
      BY <1>1
  <2>2. resolution(t, Up(y)[k]) = {Up(y)[k]}
    <3>1. PICK z \in Nat : z = Up(y)[k]
        BY <1>0
    <3>2. get_node(t, z) # Blank /\ ~ (z >= Len(t))
        BY <1>1, <2>1, <3>1
    <3>3. resolution(t, z) = {z}
        BY <3>2, ResolutionStep
    <3> QED
        BY <3>1, <3>3
  <2> QED
      BY <2>1, <2>2
<1>2. 0 \in T
    BY <1>0, <1>1
<1>3. ASSUME NEW k \in Nat, k \in T PROVE k + 1 \in T
  <2>1. SUFFICES ASSUME Inside(k + 1) PROVE \E r : Once(k + 1, r)
      OBVIOUS
  <2>n. k + 1 \in Nat /\ k + 1 \in 0 .. k + 1
      OBVIOUS
  <2>2. CASE get_node(t, Up(y)[k + 1]) # Blank
    <3> HIDE DEF Inside, Once
    <3>1. Once(k + 1, Up(y)[k + 1])
        BY <1>1, <2>1, <2>2, <2>n
    <3> QED
        BY <3>1
  <2>3. CASE get_node(t, Up(y)[k + 1]) = Blank
    <3> DEFINE p == Up(y)[k + 1]
               c == Up(y)[k]
    <3>1. p \in Nat /\ p < Len(t) /\ c \in Nat /\ Above(c) = p
      <4>1. p < Len(t)
          BY <2>1, <2>n
      <4>2. p \in Nat /\ c \in Nat /\ Above(c) = p
          BY <1>0, <2>n, Zenon
      <4> QED
          BY <4>1, <4>2
    <3>2. PICK s \in Nat : At(p, k + 1, s)
        BY <1>l
    <3>3. PICK q \in Nat : At(c, k, q)
        BY <1>l
    <3>4. p % 2 # 0
        BY <3>2, LeafAt
    <3>5. resolution(t, p) = resolution(t, left(p)) \cup resolution(t, right(p))
      <4> HIDE DEF p
      <4>1. get_node(t, p) = Blank
          BY <2>3 DEF p
      <4>2. ~ (p >= Len(t))
          BY <3>1
      <4> QED
          BY <3>1, <3>4, <4>1, <4>2, ResolutionStep
    <3>6. Inside(k)
        BY <2>1
    <3>7. PICK r : Once(k, r)
        BY <1>3, <3>6
    <3>8. /\ left(p) \in Nat /\ right(p) \in Nat /\ left(p) # right(p)
          /\ c = left(p) \/ c = right(p)
      <4> HIDE DEF p, c
      <4>1. left(p) \in Nat /\ right(p) \in Nat /\ left(p) < p /\ p < right(p)
          BY <3>2, ChildrenOf
      <4>2. c = left(p) \/ c = right(p)
          BY <3>1, <3>2, <3>3, ChildrenOf
      <4> QED
          BY <3>1, <4>1, <4>2
    <3>9. ASSUME NEW d \in {left(p), right(p)}, NEW a \in resolution(t, d),
                 NEW i \in Nat, Up(y)[i] = a
          PROVE  d = c
      <4>1. d \in Nat
          BY <3>8
      <4>2. PICK j \in Nat : Up(a)[j] = d
          BY <4>1, ResolutionBelow
      <4>3. d = Up(y)[i + j]
        <5>1. \A n \in Nat : Up(Up(y)[i])[n] = Up(y)[i + n]
            BY UpSum, Zenon
        <5>2. Up(Up(y)[i])[j] = Up(y)[i + j]
            BY <5>1, Zenon
        <5> QED
            BY <3>9, <4>2, <5>2, Zenon
      <4>4. PICK b \in Nat : At(d, k, b)
        <5> HIDE DEF p
        <5> QED
            BY <3>2, ChildrenOf
      <4>5. i + j \in Nat
          OBVIOUS
      <4>6. PICK e \in Nat : At(d, i + j, e)
          BY <1>l, <4>3, <4>5
      <4>7. i + j = k
        <5>1. level[d] = k
            BY <4>4, AtLevel
        <5>2. level[d] = i + j
            BY <4>6, AtLevel
        <5> QED
            BY <5>1, <5>2
      <4> QED
          BY <4>3, <4>7
    <3>10. r \in resolution(t, c) /\ \E j \in 0 .. k : Up(y)[j] = r
        BY <3>7
    <3>11. r \in resolution(t, p)
        BY <3>5, <3>8, <3>10
    <3>12. \E j \in 0 .. k + 1 : Up(y)[j] = r
      <4>1. \A j \in 0 .. k : j \in 0 .. k + 1
          OBVIOUS
      <4> QED
          BY <3>10, <4>1
    <3>13. ASSUME NEW a \in resolution(t, p), NEW i \in Nat, Up(y)[i] = a PROVE a = r
      <4>1. a \in resolution(t, c)
          BY <3>5, <3>9, <3>13
      <4> QED
          BY <3>7, <3>13, <4>1
    <3> QED
        BY <3>11, <3>12, <3>13
  <2> QED
      BY <2>2, <2>3
<1> HIDE DEF Inside, Once
<1>4. \A k \in Nat : k \in T
  <2> HIDE DEF T
  <2> QED
      BY <1>2, <1>3, Induction
<1>5. ASSUME NEW k \in Nat, Inside(k) PROVE \E r : Once(k, r)
    BY <1>4, <1>5
<1> QED
    BY <1>5 DEF Inside, Once

-----------------------------------------------------------------------------
(* The turns of the secret tree. *)

\* Turn i, from the root down, of the way to leaf k.
LEMMA GetPathIs ==
    ASSUME NEW K \in Nat, NEW k \in Nat, k < pow2[K], NEW s, s = get_path(k, pow2[K])
    PROVE  /\ Len(s) = K
           /\ 2 * k \in Nat /\ (2 * k) % 2 = 0 /\ 2 * k < Width(pow2[K])
           /\ \A i \in Nat : i < K =>
                  s[K - i] = IF Up(2 * k)[i] = left(Up(2 * k)[i + 1]) THEN "left" ELSE "right"
<1> DEFINE x == 2 * k
           n == pow2[K]
           dp == direct_path(n, x)
           below(i) == IF i = 1 THEN x ELSE dp[i - 1]
<1>1. n \in Nat /\ x \in Nat /\ x % 2 = 0 /\ x < Width(n)
    BY Pow2 DEF Width
<1>2. dp = [i \in 1 .. K |-> Up(x)[i]]
    BY <1>1, DirectPathIs
<1>3. Len(dp) = K
    BY <1>2
<1>4. s = [i \in 1 .. Len(dp) |->
              IF below(Len(dp) + 1 - i) = left(dp[Len(dp) + 1 - i]) THEN "left" ELSE "right"]
    BY DEF get_path
<1> HIDE DEF n, x, dp, below
<1>5. s = [i \in 1 .. K |-> IF below(K + 1 - i) = left(dp[K + 1 - i]) THEN "left" ELSE "right"]
    BY <1>3, <1>4
<1>6. Len(s) = K
    BY <1>5
<1>7. ASSUME NEW i \in Nat, i < K
      PROVE  s[K - i] = IF Up(x)[i] = left(Up(x)[i + 1]) THEN "left" ELSE "right"
  <2>1. K - i \in 1 .. K /\ K + 1 - (K - i) = i + 1 /\ i + 1 \in 1 .. K
      BY <1>7
  <2>2. s[K - i] = IF below(K + 1 - (K - i)) = left(dp[K + 1 - (K - i)]) THEN "left" ELSE "right"
      BY <1>5, <2>1, Zenon
  <2>3. s[K - i] = IF below(i + 1) = left(dp[i + 1]) THEN "left" ELSE "right"
      BY <2>1, <2>2
  <2>4. dp[i + 1] = Up(x)[i + 1]
      BY <1>2, <2>1
  <2>5. below(i + 1) = Up(x)[i]
    <3>1. CASE i = 0
        BY <1>1, <3>1, UpIs DEF below
    <3>2. CASE i # 0
      <4>1. i + 1 # 1 /\ i \in 1 .. K /\ (i + 1) - 1 = i
          BY <1>7, <3>2
      <4>2. below(i + 1) = dp[(i + 1) - 1]
          BY <4>1 DEF below
      <4> QED
          BY <1>2, <4>1, <4>2
    <3> QED
        BY <3>1, <3>2
  <2> QED
      BY <2>3, <2>4, <2>5
<1> QED
    BY <1>1, <1>6, <1>7 DEF x, n

(***************************************************************************)
(* secret_tree._get_path separates the leaves of every full tree, of any   *)
(* size: the node secret of one leaf is neither that of another leaf nor   *)
(* above it, so that no member's message keys are derived from a secret    *)
(* that belongs to another member's leaf.                                  *)
(***************************************************************************)
THEOREM SecretPathsApart ==
    ASSUME NEW K \in Nat, NEW k \in 0 .. pow2[K] - 1, NEW l \in 0 .. pow2[K] - 1
    PROVE  SecretsApart(k, l, pow2[K])
<1> DEFINE s == get_path(k, pow2[K])
           t == get_path(l, pow2[K])
           x == 2 * k
           y == 2 * l
<1>1. pow2[K] \in Nat
    BY Pow2
<1>2. k \in Nat /\ l \in Nat /\ k < pow2[K] /\ l < pow2[K]
    BY <1>1
<1>3. /\ Len(s) = K /\ x \in Nat /\ x % 2 = 0 /\ x < Width(pow2[K])
      /\ \A i \in Nat : i < K =>
             s[K - i] = IF Up(x)[i] = left(Up(x)[i + 1]) THEN "left" ELSE "right"
    BY <1>2, GetPathIs
<1>4. /\ Len(t) = K /\ y \in Nat /\ y % 2 = 0 /\ y < Width(pow2[K])
      /\ \A i \in Nat : i < K =>
             t[K - i] = IF Up(y)[i] = left(Up(y)[i + 1]) THEN "left" ELSE "right"
    BY <1>2, GetPathIs
<1>5. SUFFICES ASSUME s = SubSeq(t, 1, Len(s)) PROVE k = l
    BY DEF SecretsApart
<1> HIDE DEF s, t, x, y
<1>6. ASSUME NEW j \in 1 .. K PROVE s[j] = t[j]
    BY <1>3, <1>5
<1> DEFINE T == {i \in Nat : i <= K => Up(x)[K - i] = Up(y)[K - i]}
<1>7. 0 \in T
  <2>1. Up(x)[K] = root(pow2[K]) /\ Up(y)[K] = root(pow2[K])
      BY <1>3, <1>4, UpLeaf
  <2>2. K - 0 = K
      OBVIOUS
  <2> QED
      BY <2>1, <2>2
<1>8. ASSUME NEW i \in Nat, i \in T PROVE i + 1 \in T
  <2>1. SUFFICES ASSUME i + 1 <= K PROVE Up(x)[K - (i + 1)] = Up(y)[K - (i + 1)]
      OBVIOUS
  <2>2. PICK j \in Nat : j = K - (i + 1)
      BY <2>1
  <2>3. j < K /\ j + 1 = K - i /\ i <= K /\ K - j \in 1 .. K
      BY <2>1, <2>2
  <2>4. PICK p : p = Up(x)[j + 1]
      OBVIOUS
  <2>5. p = Up(y)[j + 1]
      BY <1>8, <2>3, <2>4
  <2>6. PICK a, b : a = Up(x)[j] /\ b = Up(y)[j]
      OBVIOUS
  <2>7. Above(a) = p /\ Above(b) = p
      BY <1>3, <1>4, <2>4, <2>5, <2>6, UpIs
  <2>8. j + 1 \in Nat
      OBVIOUS
  <2>9. PICK q \in Nat : At(p, j + 1, q)
      BY <1>3, <2>4, <2>8, UpLeaf
  <2>10. PICK qa \in Nat : At(a, j, qa)
      BY <1>3, <2>6, UpLeaf
  <2>11. PICK qb \in Nat : At(b, j, qb)
      BY <1>4, <2>6, UpLeaf
  <2>12. (a = left(p) \/ a = right(p)) /\ (b = left(p) \/ b = right(p))
      BY <2>7, <2>9, <2>10, <2>11, ChildrenOf
  <2>13. left(p) # right(p)
    <3>1. PICK v, w : v = left(p) /\ w = right(p)
        OBVIOUS
    <3>2. v \in Nat /\ w \in Nat /\ v < p /\ p < w
        BY <2>9, <3>1, ChildrenOf
    <3>3. p \in Nat
        BY <2>9 DEF At
    <3>4. v # w
        BY <3>2, <3>3
    <3> QED
        BY <3>1, <3>4
  <2>14. s[K - j] = IF a = left(p) THEN "left" ELSE "right"
      BY <1>3, <2>3, <2>4, <2>6
  <2>15. t[K - j] = IF b = left(p) THEN "left" ELSE "right"
      BY <1>4, <2>3, <2>5, <2>6
  <2>16. a = b
      BY <1>6, <2>3, <2>12, <2>13, <2>14, <2>15
  <2> QED
      BY <2>2, <2>6, <2>16
<1> HIDE DEF T
<1>9. \A i \in Nat : i \in T
    BY <1>7, <1>8, Induction
<1>10. Up(x)[0] = Up(y)[0]
  <2>1. K \in T
      BY <1>9
  <2>2. K - K = 0 /\ K <= K
      OBVIOUS
  <2> QED
      BY <2>1, <2>2 DEF T
<1>11. x = y
  <2>1. Up(x)[0] = x
      BY <1>3, UpIs
  <2>2. Up(y)[0] = y
      BY <1>4, UpIs
  <2> QED
      BY <1>10, <2>1, <2>2
<1> QED
    BY <1>2, <1>11 DEF x, y

-----------------------------------------------------------------------------
(* Paths and copaths, from the leaves up. *)

\* The q-th node of height k, and whether leaf l is one of the leaves below it.
NodeOver(k, q) == pow2[k] * (2 * q + 1) - 1
Covers(k, q, l) == pow2[k] * q <= l /\ l < pow2[k] * (q + 1)

SiblingNumber(q) == IF q % 2 = 0 THEN q + 1 ELSE q - 1

LEMMA OverIsAt ==
    ASSUME NEW k \in Nat, NEW q \in Nat
    PROVE  At(NodeOver(k, q), k, q)
<1>1. PICK P : P = pow2[k]
    OBVIOUS
<1>2. P \in Nat /\ P >= 1
    BY <1>1, Pow2
<1>3. P * (2 * q + 1) \in Nat /\ P * (2 * q + 1) >= 1
  <2>1. P * q \in Nat /\ P * (2 * q + 1) = 2 * (P * q) + P
      BY <1>2
  <2> QED
      BY <1>2, <2>1
<1> QED
    BY <1>1, <1>3 DEF At, NodeOver

LEMMA UpCovers ==
    ASSUME NEW l \in Nat
    PROVE  \A i \in Nat : \E q \in Nat : At(Up(2 * l)[i], i, q) /\ Covers(i, q, l)
<1> DEFINE x == 2 * l
           T == {i \in Nat : \E q \in Nat : At(Up(x)[i], i, q) /\ Covers(i, q, l)}
<1>1. x \in Nat /\ x % 2 = 0 /\ x \div 2 = l
    OBVIOUS
<1> HIDE DEF x
<1>2. Up(x)[0] = x /\ \A i \in Nat : Up(x)[i + 1] = Above(Up(x)[i])
    BY <1>1, UpIs
<1>3. 0 \in T
  <2>1. At(Up(x)[0], 0, l)
      BY <1>1, <1>2, EvenAt
  <2>2. Covers(0, l, l)
      BY Pow2 DEF Covers
  <2> QED
      BY <2>1, <2>2
<1>4. ASSUME NEW i \in Nat, i \in T PROVE i + 1 \in T
  <2>1. PICK q \in Nat : At(Up(x)[i], i, q) /\ Covers(i, q, l)
      BY <1>4
  <2>2. PICK h \in Nat : h = q \div 2
      OBVIOUS
  <2>3. q = 2 * h \/ q = 2 * h + 1
      BY <2>2
  <2>4. At(Up(x)[i + 1], i + 1, h)
      BY <1>2, <2>1, <2>2, AboveAt
  <2>5. Covers(i + 1, h, l)
    <3>1. PICK P : P = pow2[i]
        OBVIOUS
    <3>2. P \in Nat /\ pow2[i + 1] = 2 * P
        BY <3>1, Pow2
    <3>3. PICK A \in Nat : A = P * h
        BY <3>2
    <3>4. P * q = 2 * A \/ P * q = 2 * A + P
        BY <2>3, <3>2, <3>3
    <3>5. P * (q + 1) = P * q + P
        BY <3>2
    <3>6. (2 * P) * h = 2 * A /\ (2 * P) * (h + 1) = 2 * A + 2 * P
        BY <3>2, <3>3
    <3>7. P * q <= l /\ l < P * (q + 1)
        BY <2>1, <3>1 DEF Covers
    <3>8. 2 * A <= l /\ l < 2 * A + 2 * P
        BY <3>2, <3>4, <3>5, <3>7
    <3> QED
        BY <3>2, <3>6, <3>8 DEF Covers
  <2> QED
      BY <2>4, <2>5
<1> HIDE DEF T
<1>5. \A i \in Nat : i \in T
    BY <1>3, <1>4, Induction
<1> QED
    BY <1>5 DEF T, x

LEMMA SiblingOver ==
    ASSUME NEW y, NEW k \in Nat, NEW q \in Nat, At(y, k, q), NEW c, Other(c, y, k)
    PROVE  c = NodeOver(k, SiblingNumber(q))
<1>1. PICK r : r = SiblingNumber(q)
    OBVIOUS
<1>2. r \in Nat /\ r \div 2 = q \div 2 /\ (r = q + 1 \/ q = r + 1)
    BY <1>1 DEF SiblingNumber
<1>3. PICK z : z = NodeOver(k, r)
    OBVIOUS
<1>4. At(z, k, r)
    BY <1>2, <1>3, OverIsAt
<1>5. Above(z) = Above(y)
  <2>1. At(Above(z), k + 1, q \div 2)
    <3>1. At(Above(z), k + 1, r \div 2)
        BY <1>4, AboveAt
    <3> QED
        BY <1>2, <3>1
  <2>2. At(Above(y), k + 1, q \div 2)
      BY AboveAt
  <2> QED
      BY <2>1, <2>2, AtUnique
<1>6. z # y
  <2>1. PICK P : P = pow2[k]
      OBVIOUS
  <2>2. P \in Nat /\ P >= 1
      BY <2>1, Pow2
  <2>3. z + 1 = P * (2 * r + 1) /\ y + 1 = P * (2 * q + 1) /\ z \in Nat /\ y \in Nat
      BY <1>4, <2>1 DEF At
  <2>4. P * q \in Nat /\ P * (2 * q + 1) = 2 * (P * q) + P
      BY <2>2
  <2>5. P * r \in Nat /\ P * (2 * r + 1) = 2 * (P * r) + P
      BY <1>2, <2>2
  <2>6. P * r = P * q + P \/ P * q = P * r + P
      BY <1>2, <2>2
  <2> QED
      BY <2>2, <2>3, <2>4, <2>5, <2>6
<1>7. z = c
    BY <1>4, <1>5, <1>6 DEF Other
<1> QED
    BY <1>1, <1>3, <1>7

(***************************************************************************)
(* What _direct_path and _copath compute in the full trees that the code   *)
(* builds, of any size: step i is the node of height i over the leaf, and  *)
(* its copath node is the sibling of the node of height i - 1 over it.     *)
(***************************************************************************)
THEOREM PathsAreAncestors ==
    ASSUME NEW K \in Nat, NEW l \in 0 .. pow2[K] - 1
    PROVE  /\ Len(direct_path(pow2[K], 2 * l)) = K
           /\ Len(copath(pow2[K], 2 * l)) = K
           /\ \A i \in 1 .. K : \E q \in Nat :
                  /\ Covers(i - 1, q, l) /\ Covers(i, q \div 2, l)
                  /\ direct_path(pow2[K], 2 * l)[i] = NodeOver(i, q \div 2)
                  /\ copath(pow2[K], 2 * l)[i] = NodeOver(i - 1, SiblingNumber(q))
<1>1. PICK n : n = pow2[K]
    OBVIOUS
<1>2. PICK x : x = 2 * l
    OBVIOUS
<1>3. n \in Nat /\ l \in Nat /\ x \in Nat /\ x % 2 = 0 /\ x < Width(n)
    BY <1>1, <1>2, Pow2 DEF Width
<1>4. direct_path(n, x) = [i \in 1 .. K |-> Up(x)[i]]
    BY <1>1, <1>3, DirectPathIs
<1>5. Len(direct_path(n, x)) = K
    BY <1>4
<1>6. Len(copath(n, x)) = K
    BY <1>5 DEF copath
<1>7. ASSUME NEW i \in 1 .. K
      PROVE  \E q \in Nat :
                 /\ Covers(i - 1, q, l) /\ Covers(i, q \div 2, l)
                 /\ direct_path(n, x)[i] = NodeOver(i, q \div 2)
                 /\ copath(n, x)[i] = NodeOver(i - 1, SiblingNumber(q))
  <2>1. PICK j \in Nat : j = i - 1 /\ j + 1 = i /\ i \in Nat
      BY <1>7
  <2>2. PICK q \in Nat : At(Up(x)[j], j, q) /\ Covers(j, q, l)
      BY <1>2, <1>3, UpCovers
  <2>3. PICK p \in Nat : At(Up(x)[i], i, p) /\ Covers(i, p, l)
      BY <1>2, <1>3, <2>1, UpCovers
  <2>4. At(Up(x)[i], i, q \div 2) /\ q \div 2 \in Nat
    <3>1. Up(x)[j + 1] = Above(Up(x)[j])
        BY <1>3, UpIs
    <3>2. At(Above(Up(x)[j]), j + 1, q \div 2)
        BY <2>2, AboveAt
    <3> QED
        BY <2>1, <3>1, <3>2
  <2>5. p = q \div 2
    <3>1. PICK P : P = pow2[i]
        OBVIOUS
    <3>2. PICK h \in Nat : h = q \div 2
        BY <2>4
    <3>3. P \in Nat /\ P >= 1
        BY <2>1, <3>1, Pow2
    <3>4. P * (2 * p + 1) = P * (2 * h + 1)
        BY <2>3, <2>4, <3>1, <3>2 DEF At
    <3>5. p = h
        BY <3>3, <3>4
    <3> QED
        BY <3>2, <3>5
  <2>6. Up(x)[i] = NodeOver(i, q \div 2)
      BY <2>1, <2>4, OverIsAt, AtUnique
  <2>7. Other(copath(n, x)[i], Up(x)[j], j)
      BY <1>1, <1>3, <2>1, CopathIs
  <2>8. copath(n, x)[i] = NodeOver(j, SiblingNumber(q))
      BY <2>2, <2>7, SiblingOver
  <2>9. direct_path(n, x)[i] = Up(x)[i]
      BY <1>4
  <2> QED
      BY <2>1, <2>2, <2>3, <2>5, <2>6, <2>8, <2>9
<1> QED
    BY <1>1, <1>2, <1>5, <1>6, <1>7
=============================================================================

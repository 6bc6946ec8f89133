--------------------------- MODULE TreeKEMProofs ----------------------------
(***************************************************************************)
(* What TreeKEM promises for trees of any size and groups of any clients,  *)
(* on the facts about the ratchet tree of RatchetTreeProofs.               *)
(***************************************************************************)
EXTENDS TreeKEM, RatchetTreeProofs

-----------------------------------------------------------------------------
(* The tree of a group: full, of the right types, and with keys below. *)

NodeAt(x) ==
    {Blank} \cup (IF x % 2 = 0 THEN [type : {"leaf"}, sig : Clients, kem : SUBSET Clients]
                               ELSE [type : {"parent"}, kem : SUBSET Clients])

Typed(t) == \A x \in NodeIds(t) : get_node(t, x) \in NodeAt(x)

Members(t, x) == {get_node(t, y).sig : y \in Under(t, x) \cap Occupied(t)}

Held(t) ==
    \A x \in NodeIds(t) : get_node(t, x) # Blank => get_node(t, x).kem \subseteq Members(t, x)

LEMMA UnderIs ==
    ASSUME NEW t, NEW K, Sized(t, K), NEW r
    PROVE  \A x : x \in Under(t, r) <=> x \in LeafIds(t) /\ \E i \in 0 .. K : Up(x)[i] = r
<1>1. K \in Nat
    BY SizedIs
<1>2. ASSUME NEW x \in LeafIds(t)
      PROVE  x = r \/ r \in PathSet(t, x) <=> \E i \in 0 .. K : Up(x)[i] = r
  <2>1. Up(x)[0] = x
      BY SizedIs, UpIs
  <2>2. r \in PathSet(t, x) <=> \E i \in 1 .. K : Up(x)[i] = r
      BY PathSetIs
  <2>3. \A i \in 0 .. K : i = 0 \/ i \in 1 .. K
      OBVIOUS
  <2>4. 0 \in 0 .. K /\ \A i \in 1 .. K : i \in 0 .. K
      BY <1>1
  <2> QED
      BY <2>1, <2>2, <2>3, <2>4
<1> QED
    BY <1>2 DEF Under

\* Who is below a node is below the ancestors of that node.
LEMMA UnderAncestor ==
    ASSUME NEW t, NEW K, Sized(t, K), NEW r, NEW x \in Under(t, r),
           NEW j \in Nat, Up(r)[j] \in NodeIds(t)
    PROVE  x \in Under(t, Up(r)[j])
<1>1. x \in LeafIds(t) /\ K \in Nat
    BY UnderIs, SizedIs
<1>2. PICK i \in 0 .. K : Up(x)[i] = r
    BY UnderIs
<1>3. x \in Nat /\ x < Width(pow2[K]) /\ x % 2 = 0
    BY <1>1, SizedIs
<1>4. Up(r)[j] = Up(x)[i + j]
  <2>1. i \in Nat /\ x \in Nat
      BY <1>1, <1>3
  <2>2. Up(Up(x)[i])[j] = Up(x)[i + j]
      BY <2>1, UpSum
  <2> QED
      BY <1>2, <2>2
<1>5. Up(x)[i + j] < Width(pow2[K])
    BY <1>4, SizedIs
<1>6. i + j \in Nat /\ i + j <= K
  <2>1. i + j \in Nat
      BY <1>1
  <2>2. \A n \in Nat : Up(x)[n] < Width(pow2[K]) <=> n <= K
      BY <1>1, <1>3, UpLeaf
  <2> QED
      BY <1>5, <2>1, <2>2
<1> QED
    BY <1>1, <1>4, <1>6, UnderIs

LEMMA MembersType ==
    ASSUME NEW t, NEW K, Sized(t, K), Typed(t), NEW x
    PROVE  Members(t, x) \subseteq Clients
<1>1. ASSUME NEW y \in Occupied(t) PROVE get_node(t, y).sig \in Clients
  <2>1. y \in NodeIds(t) /\ y % 2 = 0 /\ get_node(t, y) # Blank
      BY SizedIs
  <2>2. get_node(t, y) \in [type : {"leaf"}, sig : Clients, kem : SUBSET Clients]
      BY <2>1 DEF Typed, NodeAt
  <2> QED
      BY <2>2
<1> QED
    BY <1>1 DEF Members

\* The recipients of a step of the path are below the node of that step.
LEMMA RecipientsBelow ==
    ASSUME NEW t, NEW K, Sized(t, K), NEW x \in LeafIds(t),
           NEW i \in 1 .. K, NEW k \in 1 .. i, NEW r \in Recipients(t, x, k)
    PROVE  /\ r \in NodeIds(t) /\ get_node(t, r) # Blank
           /\ Under(t, r) \subseteq Under(t, Up(x)[i])
<1>1. /\ K \in Nat /\ num_leaves(t) = pow2[K]
      /\ x \in Nat /\ x < Width(pow2[K]) /\ x % 2 = 0
      /\ Len(t) \in Nat
    BY SizedIs
<1>2. k \in 1 .. K /\ k - 1 \in Nat /\ (k - 1) + 1 = k
    BY <1>1
<1> DEFINE c == copath(pow2[K], x)[k]
<1>3. Other(c, Up(x)[k - 1], k - 1)
    BY <1>1, <1>2, CopathIs
<1>4. c \in Nat /\ Above(c) = Above(Up(x)[k - 1])
    BY <1>3 DEF Other
<1>5. Above(c) = Up(x)[k]
  <2>1. Up(x)[(k - 1) + 1] = Above(Up(x)[k - 1])
      BY <1>1, <1>2, UpIs
  <2> QED
      BY <1>2, <1>4, <2>1
<1>6. r \in resolution(t, c) /\ get_node(t, r) # Blank
    BY <1>1 DEF Recipients
<1> HIDE DEF c
<1>7. r \in Nat /\ r < Len(t) /\ \E j \in Nat : Up(r)[j] = c
    BY <1>1, <1>4, <1>6, ResolutionBelow
<1>8. PICK j \in Nat : Up(r)[j] = c
    BY <1>7
<1>9. Up(r)[j + 1] = Up(x)[k]
  <2>1. Up(r)[j + 1] = Above(Up(r)[j])
      BY <1>7, UpIs
  <2> QED
      BY <1>5, <1>8, <2>1
<1>10. Up(x)[i] = Up(r)[(j + 1) + (i - k)]
  <2>1. i - k \in Nat /\ k \in Nat /\ k + (i - k) = i /\ j + 1 \in Nat
      BY <1>1
  <2>2. Up(Up(x)[k])[i - k] = Up(x)[k + (i - k)]
      BY <1>1, <2>1, UpSum
  <2>3. Up(Up(r)[j + 1])[i - k] = Up(r)[(j + 1) + (i - k)]
      BY <1>7, <2>1, UpSum
  <2> QED
      BY <1>9, <2>1, <2>2, <2>3
<1>11. Up(x)[i] \in NodeIds(t)
  <2>1. i \in Nat /\ i <= K
      BY <1>1
  <2>2. Up(x)[i] < Width(pow2[K]) /\ Up(x)[i] \in Nat
      BY <1>1, <2>1, UpLeaf, UpIs
  <2> QED
      BY <2>2, SizedIs
<1>12. (j + 1) + (i - k) \in Nat
    BY <1>1
<1>13. \A y \in Under(t, r) : y \in Under(t, Up(x)[i])
    BY <1>10, <1>11, <1>12, UnderAncestor
<1>14. r \in NodeIds(t)
    BY <1>7 DEF NodeIds
<1> QED
    BY <1>6, <1>13, <1>14

LEMMA ReadersBelow ==
    ASSUME NEW t, NEW K, Sized(t, K), Held(t), NEW x \in Occupied(t), NEW i \in 1 .. K
    PROVE  Readers(t, x, i) \subseteq Members(t, Up(x)[i])
<1>1. x \in LeafIds(t) /\ K \in Nat
    BY SizedIs
<1>2. get_node(t, x).sig \in Members(t, Up(x)[i])
  <2>1. x \in Under(t, Up(x)[i])
    <3>1. i \in 0 .. K
        BY <1>1
    <3> QED
        BY <1>1, <3>1, UnderIs
  <2> QED
      BY <2>1 DEF Members
<1>3. ASSUME NEW k \in 1 .. i, NEW r \in Recipients(t, x, k)
      PROVE  get_node(t, r).kem \subseteq Members(t, Up(x)[i])
  <2>1. /\ r \in NodeIds(t) /\ get_node(t, r) # Blank
        /\ Under(t, r) \subseteq Under(t, Up(x)[i])
      BY <1>1, RecipientsBelow
  <2>2. get_node(t, r).kem \subseteq Members(t, r)
      BY <2>1 DEF Held
  <2>3. Members(t, r) \subseteq Members(t, Up(x)[i])
      BY <2>1 DEF Members
  <2> QED
      BY <2>2, <2>3
<1> QED
    BY <1>2, <1>3 DEF Readers

LEMMA CommitReadersBelow ==
    ASSUME NEW t, NEW K, Sized(t, K), Held(t), NEW x \in Occupied(t), K > 0
    PROVE  CommitReaders(t, x) \subseteq Members(t, Up(x)[K])
<1>1. /\ K \in Nat /\ num_leaves(t) = pow2[K]
      /\ x \in LeafIds(t) /\ x \in Nat /\ x < Width(pow2[K]) /\ x % 2 = 0
    BY SizedIs
<1>2. Len(direct_path(num_leaves(t), x)) = K
  <2>1. direct_path(num_leaves(t), x) = [i \in 1 .. K |-> Up(x)[i]]
      BY <1>1, DirectPathIs
  <2> QED
      BY <1>1, <2>1
<1>3. Readers(t, x, K) \subseteq Members(t, Up(x)[K])
    BY <1>1, ReadersBelow
<1>4. ASSUME NEW y \in Occupied(t) PROVE get_node(t, y).kem \subseteq Members(t, Up(x)[K])
  <2>1. y \in LeafIds(t) /\ y \in NodeIds(t) /\ y \in Nat /\ get_node(t, y) # Blank
      BY SizedIs
  <2>2. get_node(t, y).kem \subseteq Members(t, y)
      BY <2>1 DEF Held
  <2>3. Up(y)[K] = root(pow2[K]) /\ Up(x)[K] = root(pow2[K])
      BY <1>1, <2>1, SizedIs, UpLeaf
  <2>4. Up(y)[K] \in NodeIds(t)
    <3>1. Up(x)[K] < Width(pow2[K])
        BY <1>1, UpLeaf
    <3>2. Up(x)[K] \in Nat
        BY <1>1, UpIs
    <3> QED
        BY <2>3, <3>1, <3>2, SizedIs
  <2>5. \A z \in Under(t, y) : z \in Under(t, Up(x)[K])
      BY <1>1, <2>3, <2>4, UnderAncestor
  <2>6. Members(t, y) \subseteq Members(t, Up(x)[K])
      BY <2>5 DEF Members
  <2> QED
      BY <2>2, <2>6
<1> QED
    BY <1>2, <1>3, <1>4 DEF CommitReaders

LEMMA RekeyedNodes ==
    ASSUME NEW t, NEW K, Sized(t, K), Held(t), NEW x \in Occupied(t),
           NEW u, u = rekeyed(t, x)
    PROVE  /\ Sized(u, K)
           /\ get_node(u, x) = Leaf(get_node(t, x).sig)
           /\ \A i \in 1 .. K : \E kem : /\ get_node(u, Up(x)[i]) = ParentNode(kem)
                                         /\ kem \subseteq Members(t, Up(x)[i])
           /\ \A z \in NodeIds(t) :
                  z # x /\ (\A i \in 1 .. K : Up(x)[i] # z) => get_node(u, z) = get_node(t, z)
<1> DEFINE dp == direct_path(num_leaves(t), x)
           m  == get_node(t, x).sig
           fresh(i) == IF i = Len(dp) THEN CommitReaders(t, x) ELSE Readers(t, x, i)
           on(z) == \E i \in DOMAIN dp : dp[i] = z
           step(z) == CHOOSE i \in DOMAIN dp : dp[i] = z
<1>1. /\ K \in Nat /\ num_leaves(t) = pow2[K] /\ Len(t) \in Nat
      /\ x \in LeafIds(t) /\ x \in NodeIds(t) /\ x \in Nat
      /\ x < Width(pow2[K]) /\ x % 2 = 0
    BY SizedIs
<1>2. dp = [i \in 1 .. K |-> Up(x)[i]]
    BY <1>1, DirectPathIs
<1>3. u = [j \in 1 .. Len(t) |->
               IF j - 1 = x THEN Leaf(m)
               ELSE IF on(j - 1) THEN ParentNode(fresh(step(j - 1)))
               ELSE t[j]]
    BY DEF rekeyed
<1> HIDE DEF m, dp
<1>4. Len(u) = Len(t) /\ DOMAIN u = 1 .. Len(t)
  <2> HIDE DEF fresh, on, step
  <2> QED
      BY <1>1, <1>3
<1>5. Sized(u, K)
    BY <1>4 DEF Sized
<1>6. NodeIds(u) = NodeIds(t)
    BY <1>4 DEF NodeIds
<1>7. ASSUME NEW z \in NodeIds(t)
      PROVE  get_node(u, z) = IF z = x THEN Leaf(m)
                              ELSE IF on(z) THEN ParentNode(fresh(step(z)))
                              ELSE get_node(t, z)
  <2>1. z + 1 \in 1 .. Len(t) /\ (z + 1) - 1 = z
      BY <1>1 DEF NodeIds
  <2>2. get_node(u, z) = u[z + 1] /\ get_node(t, z) = t[z + 1]
      BY <1>6 DEF get_node
  <2> HIDE DEF fresh, on, step
  <2>3. u[z + 1] = IF (z + 1) - 1 = x THEN Leaf(m)
                   ELSE IF on((z + 1) - 1) THEN ParentNode(fresh(step((z + 1) - 1)))
                   ELSE t[z + 1]
      BY <1>3, <2>1, Zenon
  <2> QED
      BY <2>1, <2>2, <2>3
<1>8. \A z : on(z) <=> \E i \in 1 .. K : Up(x)[i] = z
    BY <1>2
<1>9. get_node(u, x) = Leaf(get_node(t, x).sig)
    BY <1>1, <1>7 DEF m
<1>10. ASSUME NEW i \in 1 .. K
       PROVE  \E kem : get_node(u, Up(x)[i]) = ParentNode(kem) /\ kem \subseteq Members(t, Up(x)[i])
  <2> DEFINE z == Up(x)[i]
             k == step(z)
  <2>1. z \in NodeIds(t) /\ z # x
      BY <1>1, PathIsOdd
  <2>2. on(z)
      BY <1>8
  <2>3. k \in DOMAIN dp /\ dp[k] = z
      BY <2>2
  <2>4. k \in 1 .. K /\ Up(x)[k] = z
    <3> HIDE DEF z, k
    <3> QED
        BY <1>2, <2>3
  <2>5. get_node(u, z) = ParentNode(fresh(k))
    <3> HIDE DEF z, fresh, on
    <3> QED
        BY <1>7, <2>1, <2>2
  <2> HIDE DEF k, z
  <2>6. Len(dp) = K
      BY <1>1, <1>2
  <2>7. fresh(k) \subseteq Members(t, z)
    <3>1. CASE k = K
      <4>1. K > 0
          BY <1>1, <2>4
      <4>2. CommitReaders(t, x) \subseteq Members(t, Up(x)[K])
          BY <4>1, CommitReadersBelow
      <4> QED
          BY <2>4, <2>6, <3>1, <4>2
    <3>2. CASE k # K
      <4>1. Readers(t, x, k) \subseteq Members(t, Up(x)[k])
          BY <2>4, ReadersBelow
      <4> QED
          BY <2>4, <2>6, <3>2, <4>1
    <3> QED
        BY <3>1, <3>2
  <2> HIDE DEF fresh
  <2> QED
      BY <2>5, <2>7 DEF z
<1>11. \A z \in NodeIds(t) :
           z # x /\ (\A i \in 1 .. K : Up(x)[i] # z) => get_node(u, z) = get_node(t, z)
  <2> HIDE DEF fresh, on, step
  <2> QED
      BY <1>7, <1>8
<1> QED
    BY <1>5, <1>9, <1>10, <1>11

\* The parts of an invariant that a rekeying keeps.
LEMMA RekeyedKeeps ==
    ASSUME NEW t, NEW K, Sized(t, K), Typed(t), Held(t), NEW x \in Occupied(t),
           NEW u, u = rekeyed(t, x)
    PROVE  /\ Sized(u, K) /\ Typed(u) /\ Held(u)
           /\ Minimal(t, K) => Minimal(u, K)
<1>1. /\ Sized(u, K)
      /\ get_node(u, x) = Leaf(get_node(t, x).sig)
      /\ \A i \in 1 .. K : \E kem : /\ get_node(u, Up(x)[i]) = ParentNode(kem)
                                    /\ kem \subseteq Members(t, Up(x)[i])
      /\ \A z \in NodeIds(t) :
             z # x /\ (\A i \in 1 .. K : Up(x)[i] # z) => get_node(u, z) = get_node(t, z)
    BY RekeyedNodes
<1>2. x \in LeafIds(t) /\ x \in NodeIds(t) /\ x % 2 = 0 /\ x \in Nat /\ K \in Nat
    BY SizedIs
<1>3. NodeIds(u) = NodeIds(t) /\ LeafIds(u) = LeafIds(t)
  <2>1. \A z : (z \in NodeIds(u) <=> z \in NodeIds(t)) /\ (z \in LeafIds(u) <=> z \in LeafIds(t))
      BY <1>1, SizedIs
  <2> QED
      BY <2>1
<1>4. ASSUME NEW y \in LeafIds(t), y # x PROVE get_node(u, y) = get_node(t, y)
  <2>1. y \in NodeIds(t) /\ y % 2 = 0
      BY SizedIs
  <2>2. \A i \in 1 .. K : Up(x)[i] # y
      BY <1>2, <2>1, PathIsOdd
  <2> QED
      BY <1>1, <1>4, <2>1, <2>2
<1>5. \A s : Leaf(s) = [type |-> "leaf", sig |-> s, kem |-> {s}] /\ Leaf(s) # Blank /\ Leaf(s).sig = s
    BY DEF Leaf, LeafNode, Blank
<1>6. Occupied(u) = Occupied(t)
  <2>1. get_node(t, x) # Blank /\ get_node(u, x) # Blank
      BY <1>1, <1>5, SizedIs
  <2>2. \A y \in LeafIds(t) : get_node(u, y) # Blank <=> get_node(t, y) # Blank
      BY <1>4, <2>1
  <2> QED
      BY <1>3, <2>2 DEF Occupied
<1>7. \A y \in Occupied(t) : get_node(u, y).sig = get_node(t, y).sig
    BY <1>1, <1>4, <1>5, SizedIs
<1>8. \A z : Under(u, z) = Under(t, z)
  <2>1. ASSUME NEW z PROVE \A y : y \in Under(u, z) <=> y \in Under(t, z)
      BY <1>1, <1>3, UnderIs
  <2>2. \A z : Under(u, z) \subseteq LeafIds(u) /\ Under(t, z) \subseteq LeafIds(t)
      BY DEF Under
  <2> QED
      BY <2>1, <2>2
<1>9. \A z : Members(u, z) = Members(t, z)
    BY <1>6, <1>7, <1>8 DEF Members
<1>10. get_node(t, x).sig \in Clients
  <2>1. get_node(t, x) \in NodeAt(x) /\ get_node(t, x) # Blank
      BY <1>2, SizedIs DEF Typed
  <2> QED
      BY <1>2, <2>1 DEF NodeAt
<1>11. ASSUME NEW z \in NodeIds(t)
       PROVE  /\ get_node(u, z) \in NodeAt(z)
              /\ get_node(u, z) # Blank => get_node(u, z).kem \subseteq Members(t, z)
  <2>1. CASE z = x
    <3>1. get_node(u, z) \in NodeAt(z)
        BY <1>1, <1>2, <1>5, <1>10, <2>1 DEF NodeAt
    <3>2. x \in Under(t, x)
      <4>1. Up(x)[0] = x /\ 0 \in 0 .. K
          BY <1>2, UpIs
      <4> QED
          BY <1>2, <4>1, UnderIs
    <3>3. get_node(t, x).sig \in Members(t, x)
        BY <3>2 DEF Members
    <3>4. get_node(u, z).kem = {get_node(t, x).sig}
        BY <1>1, <1>5, <2>1
    <3> QED
        BY <2>1, <3>1, <3>3, <3>4
  <2>2. CASE \E i \in 1 .. K : Up(x)[i] = z
    <3>1. PICK i \in 1 .. K : Up(x)[i] = z
        BY <2>2
    <3>2. PICK kem : get_node(u, z) = ParentNode(kem) /\ kem \subseteq Members(t, z)
        BY <1>1, <3>1
    <3>3. z % 2 # 0
        BY <1>2, <3>1, PathIsOdd
    <3>4. kem \subseteq Clients
        BY <3>2, MembersType
    <3> QED
        BY <3>2, <3>3, <3>4 DEF NodeAt, ParentNode
  <2>3. CASE z # x /\ \A i \in 1 .. K : Up(x)[i] # z
    <3>1. get_node(u, z) = get_node(t, z)
        BY <1>1, <2>3
    <3> QED
        BY <3>1 DEF Typed, Held
  <2> QED
      BY <2>1, <2>2, <2>3
<1>12. Typed(u)
    BY <1>3, <1>11 DEF Typed
<1>13. Held(u)
    BY <1>3, <1>9, <1>11 DEF Held
<1>14. Minimal(t, K) => Minimal(u, K)
    BY <1>6 DEF Minimal
<1> QED
    BY <1>1, <1>12, <1>13, <1>14

-----------------------------------------------------------------------------
(* Additions. *)

\* A leaf that is in two trees, with the same member, is below the same nodes
\* in both, as far as these are in both.
LEMMA MembersMove ==
    ASSUME NEW t, NEW K, Sized(t, K), NEW u, NEW J, Sized(u, J), NEW z, z \in NodeIds(u),
           \A y \in Under(t, z) \cap Occupied(t) :
               y \in Occupied(u) /\ get_node(u, y) = get_node(t, y)
    PROVE  Members(t, z) \subseteq Members(u, z)
<1>1. ASSUME NEW y \in Under(t, z) \cap Occupied(t) PROVE y \in Under(u, z)
  <2>1. PICK i \in 0 .. K : Up(y)[i] = z
      BY UnderIs
  <2>2. y \in LeafIds(u) /\ y \in Nat /\ y < Width(pow2[J]) /\ y % 2 = 0 /\ J \in Nat
      BY SizedIs
  <2>3. z < Width(pow2[J])
      BY SizedIs
  <2>4. i \in Nat
      BY <2>1
  <2>5. Up(y)[i] < Width(pow2[J]) <=> i <= J
      BY <2>2, <2>4, UpLeaf
  <2>6. i \in 0 .. J
      BY <2>1, <2>2, <2>3, <2>4, <2>5
  <2> QED
      BY <2>1, <2>2, <2>6, UnderIs
<1> QED
    BY <1>1 DEF Members

LEMMA OwnUnder ==
    ASSUME NEW t, NEW K, Sized(t, K), NEW x \in LeafIds(t)
    PROVE  x \in Under(t, x)
<1>1. x \in Nat /\ K \in Nat
    BY SizedIs
<1>2. Up(x)[0] = x /\ 0 \in 0 .. K
    BY <1>1, UpIs
<1> QED
    BY <1>2, UnderIs

LEMMA PlacedKeeps ==
    ASSUME NEW t, NEW K, Sized(t, K), Typed(t), Held(t), Minimal(t, K), NEW m \in Clients,
           NEW u, NEW J, NEW at, Placed(t, K, u, J, at, Leaf(m))
    PROVE  /\ Sized(u, J) /\ Typed(u) /\ Held(u) /\ Minimal(u, J)
           /\ Occupied(t) \subseteq Occupied(u)
<1>1. /\ Sized(u, J) /\ K <= J
      /\ at \in LeafIds(u) /\ get_node(t, at) = Blank
      /\ J = K \/ (J = K + 1 /\ at = 2 * pow2[K])
      /\ get_node(u, at) = Leaf(m)
      /\ \A i \in 1 .. J : get_node(u, Up(at)[i]) = Blank
      /\ \A z \in NodeIds(u) :
             z # at /\ (\A i \in 1 .. J : Up(at)[i] # z) => get_node(u, z) = get_node(t, z)
    BY DEF Placed
<1>2. at \in NodeIds(u) /\ at % 2 = 0 /\ at \in Nat /\ J \in Nat /\ K \in Nat
    BY <1>1, SizedIs
<1>3. Leaf(m) = [type |-> "leaf", sig |-> m, kem |-> {m}] /\ Leaf(m) # Blank
    BY DEF Leaf, LeafNode, Blank
<1>4. ASSUME NEW y \in Occupied(t)
      PROVE  y \in Occupied(u) /\ get_node(u, y) = get_node(t, y)
  <2>1. y \in Nat /\ y < Width(pow2[K]) /\ y % 2 = 0 /\ get_node(t, y) # Blank
      BY SizedIs
  <2>2. Width(pow2[K]) <= Width(pow2[J])
    <3>1. pow2[K] \in Nat /\ pow2[J] \in Nat
        BY <1>2, Pow2
    <3>2. pow2[K] <= pow2[J]
        BY <1>1, <1>2, Pow2Monotone
    <3> QED
        BY <3>1, <3>2 DEF Width
  <2>3. y < Width(pow2[J])
    <3>1. Width(pow2[K]) \in Nat /\ Width(pow2[J]) \in Nat
        BY <1>2, WidthIs
    <3> QED
        BY <2>1, <2>2, <3>1
  <2>4. y \in LeafIds(u) /\ y \in NodeIds(u)
      BY <1>1, <2>1, <2>3, SizedIs
  <2>5. \A i \in 1 .. J : Up(at)[i] # y
      BY <1>1, <2>1, PathIsOdd
  <2>6. y # at
      BY <1>1, <2>1
  <2>7. get_node(u, y) = get_node(t, y)
      BY <1>1, <2>4, <2>5, <2>6
  <2> QED
      BY <1>1, <2>1, <2>4, <2>7, SizedIs
<1>5. at \in Occupied(u)
    BY <1>1, <1>3, SizedIs
<1>6. ASSUME NEW z \in NodeIds(u)
      PROVE  /\ get_node(u, z) \in NodeAt(z)
             /\ get_node(u, z) # Blank => get_node(u, z).kem \subseteq Members(u, z)
  <2>1. CASE z = at
    <3>1. get_node(u, z) \in NodeAt(z)
        BY <1>1, <1>2, <1>3, <2>1 DEF NodeAt
    <3>2. at \in Under(u, at)
        BY <1>1, OwnUnder
    <3>3. get_node(u, at).sig \in Members(u, at)
        BY <1>5, <3>2 DEF Members
    <3>4. get_node(u, at).sig = m /\ get_node(u, at).kem = {m}
        BY <1>1, <1>3
    <3> QED
        BY <2>1, <3>1, <3>3, <3>4
  <2>2. CASE \E i \in 1 .. J : Up(at)[i] = z
    <3>1. get_node(u, z) = Blank
        BY <1>1, <2>2
    <3> QED
        BY <3>1 DEF NodeAt
  <2>3. CASE z # at /\ \A i \in 1 .. J : Up(at)[i] # z
    <3>1. get_node(u, z) = get_node(t, z)
        BY <1>1, <2>3
    <3>2. CASE z \notin NodeIds(t)
      <4>1. get_node(t, z) = Blank
          BY <3>2 DEF get_node
      <4> QED
          BY <3>1, <4>1 DEF NodeAt
    <3>3. CASE z \in NodeIds(t)
      <4>1. get_node(t, z) \in NodeAt(z)
          BY <3>3 DEF Typed
      <4>2. get_node(t, z) # Blank => get_node(t, z).kem \subseteq Members(t, z)
          BY <3>3 DEF Held
      <4>3. Members(t, z) \subseteq Members(u, z)
          BY <1>1, <1>4, MembersMove
      <4> QED
          BY <3>1, <4>1, <4>2, <4>3
    <3> QED
        BY <3>2, <3>3
  <2> QED
      BY <2>1, <2>2, <2>3
<1>7. Minimal(u, J)
  <2>1. CASE J = K
      BY <1>4, <2>1 DEF Minimal
  <2>2. CASE J = K + 1 /\ at = 2 * pow2[K]
    <3>1. pow2[J] = at
        BY <1>2, <2>2, Pow2
    <3>2. at >= pow2[J]
        BY <1>2, <3>1
    <3> QED
        BY <1>5, <3>2 DEF Minimal
  <2> QED
      BY <1>1, <2>1, <2>2
<1>8. Typed(u) /\ Held(u)
    BY <1>6 DEF Typed, Held
<1> QED
    BY <1>1, <1>4, <1>7, <1>8

-----------------------------------------------------------------------------
(* Removals. *)

LEMMA RemovedKeeps ==
    ASSUME NEW t, NEW K, Sized(t, K), Typed(t), Held(t), NEW y \in LeafIds(t),
           NEW u, NEW J, Removed(t, K, u, J, y)
    PROVE  Sized(u, J) /\ Typed(u) /\ Held(u)
<1>1. /\ Sized(u, J) /\ J <= K
      /\ \A z \in Occupied(t) : z # y => z \in Occupied(u)
      /\ \A i \in 1 .. K : get_node(u, Up(y)[i]) = Blank
      /\ get_node(u, y) = Blank
      /\ \A z \in NodeIds(u) :
             z # y /\ (\A i \in 1 .. K : Up(y)[i] # z) => get_node(u, z) = get_node(t, z)
    BY DEF Removed
<1>2. K \in Nat /\ y \in Nat /\ y % 2 = 0
    BY SizedIs
<1>3. ASSUME NEW z \in Occupied(t), z # y
      PROVE  z \in Occupied(u) /\ get_node(u, z) = get_node(t, z)
  <2>1. z \in Occupied(u)
      BY <1>1, <1>3
  <2>2. z \in NodeIds(u) /\ z % 2 = 0
      BY <1>1, <2>1, SizedIs
  <2>3. \A i \in 1 .. K : Up(y)[i] # z
      BY <2>2, PathIsOdd
  <2> QED
      BY <1>1, <1>3, <2>1, <2>2, <2>3
<1>4. ASSUME NEW z \in NodeIds(u)
      PROVE  /\ get_node(u, z) \in NodeAt(z)
             /\ get_node(u, z) # Blank => get_node(u, z).kem \subseteq Members(u, z)
  <2>1. CASE z = y \/ \E i \in 1 .. K : Up(y)[i] = z
    <3>1. get_node(u, z) = Blank
        BY <1>1, <2>1
    <3> QED
        BY <3>1 DEF NodeAt
  <2>2. CASE z # y /\ \A i \in 1 .. K : Up(y)[i] # z
    <3>1. get_node(u, z) = get_node(t, z)
        BY <1>1, <2>2
    <3>2. z \in NodeIds(t)
      <4>1. z \in Nat /\ z < Width(pow2[J]) /\ J \in Nat
          BY <1>1, SizedIs
      <4>2. pow2[J] <= pow2[K] /\ pow2[K] \in Nat /\ pow2[J] \in Nat
          BY <1>1, <1>2, <4>1, Pow2, Pow2Monotone
      <4>3. z < Width(pow2[K])
          BY <4>1, <4>2 DEF Width
      <4> QED
          BY <4>1, <4>3, SizedIs
    <3>3. get_node(t, z) \in NodeAt(z)
        BY <3>2 DEF Typed
    <3>4. get_node(t, z) # Blank => get_node(t, z).kem \subseteq Members(t, z)
        BY <3>2 DEF Held
    <3>5. y \notin Under(t, z)
      <4>1. \A i \in 0 .. K : i = 0 \/ i \in 1 .. K
          BY <1>2
      <4>2. Up(y)[0] = y
          BY <1>2, UpIs
      <4>3. \A i \in 0 .. K : Up(y)[i] # z
          BY <2>2, <4>1, <4>2
      <4> QED
          BY <4>3, UnderIs
    <3>6. \A w \in Under(t, z) \cap Occupied(t) :
              w \in Occupied(u) /\ get_node(u, w) = get_node(t, w)
        BY <1>3, <3>5
    <3>7. Members(t, z) \subseteq Members(u, z)
        BY <1>1, <3>6, MembersMove
    <3> QED
        BY <3>1, <3>3, <3>4, <3>7
  <2> QED
      BY <2>1, <2>2
<1> QED
    BY <1>1, <1>4 DEF Typed, Held

-----------------------------------------------------------------------------
(***************************************************************************)
(* The inductive invariant.  KeysStayBelow alone is not inductive: that a  *)
(* recipient's set lies below the node of its step needs the full tree,    *)
(* whose size is a power of two, and that growing and truncating moves no  *)
(* leaf out from below a node.                                             *)
(***************************************************************************)
Good(t, K) ==
    /\ Sized(t, K) /\ pow2[K] <= MaxLeaves
    /\ Typed(t) /\ Held(t) /\ Minimal(t, K)

TreeInv == \E K \in Nat : Good(tree, K)

LEMMA InitTreeInv == Init => TreeInv
<1>1. SUFFICES ASSUME NEW m \in Clients, tree = <<Leaf(m)>> PROVE Good(tree, 0)
    BY DEF Init, TreeInv
<1>2. Leaf(m) = [type |-> "leaf", sig |-> m, kem |-> {m}] /\ Leaf(m) # Blank
    BY DEF Leaf, LeafNode, Blank
<1>3. DOMAIN tree = 1 .. 1 /\ Len(tree) = 1 /\ tree[1] = Leaf(m)
    BY <1>1
<1>4. Sized(tree, 0)
    BY <1>3, Pow2 DEF Sized, Width
<1>5. NodeIds(tree) = {0}
    BY <1>3 DEF NodeIds
<1>6. get_node(tree, 0) = Leaf(m)
    BY <1>3, <1>5 DEF get_node
<1>7. Typed(tree)
    BY <1>2, <1>5, <1>6 DEF Typed, NodeAt
<1>8. LeafIds(tree) = {0} /\ Occupied(tree) = {0}
    BY <1>2, <1>5, <1>6 DEF LeafIds, Occupied
<1>9. 0 \in Under(tree, 0)
    BY <1>4, <1>8, OwnUnder
<1>10. get_node(tree, 0).sig \in Members(tree, 0)
    BY <1>8, <1>9 DEF Members
<1>11. Held(tree)
    BY <1>2, <1>5, <1>6, <1>10 DEF Held
<1>12. Minimal(tree, 0)
    BY DEF Minimal
<1>13. pow2[0] <= MaxLeaves
    BY Pow2, MaxLeavesAssumption
<1> QED
    BY <1>4, <1>7, <1>11, <1>12, <1>13 DEF Good

LEMMA StepTreeInv == TreeInv /\ [Next]_tree => TreeInv'
<1> SUFFICES ASSUME TreeInv, [Next]_tree PROVE TreeInv'
    OBVIOUS
<1>1. PICK K \in Nat : Good(tree, K)
    BY DEF TreeInv
<1>2. Sized(tree, K) /\ Typed(tree) /\ Held(tree) /\ Minimal(tree, K) /\ pow2[K] <= MaxLeaves
    BY <1>1 DEF Good
<1>3. ASSUME NEW t, NEW J \in Nat, Good(t, J), NEW x \in Occupied(t), tree' = rekeyed(t, x)
      PROVE  TreeInv'
  <2>1. Sized(t, J) /\ Typed(t) /\ Held(t) /\ Minimal(t, J) /\ pow2[J] <= MaxLeaves
      BY <1>3 DEF Good
  <2>2. Sized(tree', J) /\ Typed(tree') /\ Held(tree') /\ Minimal(tree', J)
      BY <1>3, <2>1, RekeyedKeeps
  <2>3. Good(tree', J)
      BY <2>1, <2>2 DEF Good
  <2> QED
      BY <2>3 DEF TreeInv
<1>4. ASSUME NEW x \in Occupied(tree), NEW m \in Clients, add_member(x, m) PROVE TreeInv'
  <2> DEFINE u == place_leaf(tree, Leaf(m))
  <2>1. /\ Cardinality(Occupied(tree)) < num_leaves(tree) \/ 2 * num_leaves(tree) <= MaxLeaves
        /\ tree' = rekeyed(u, x)
      BY <1>4 DEF add_member
  <2>2. PICK J \in Nat, at \in Nat : Placed(tree, K, u, J, at, Leaf(m))
      BY <1>2, PlaceLeafIs
  <2> HIDE DEF u
  <2>3. /\ Sized(u, J) /\ Typed(u) /\ Held(u) /\ Minimal(u, J)
        /\ Occupied(tree) \subseteq Occupied(u)
      BY <1>2, <2>2, PlacedKeeps
  <2>4. pow2[J] <= MaxLeaves
    <3>1. J = K \/ (J = K + 1 /\ Occupied(tree) = LeafIds(tree))
        BY <2>2 DEF Placed
    <3>2. CASE J = K
        BY <1>2, <3>2
    <3>3. CASE J = K + 1 /\ Occupied(tree) = LeafIds(tree)
      <4>1. Cardinality(Occupied(tree)) = pow2[K] /\ num_leaves(tree) = pow2[K]
          BY <1>2, <3>3, LeavesCounted, SizedIs
      <4>2. pow2[K] \in Nat /\ pow2[K + 1] = 2 * pow2[K]
          BY Pow2
      <4> QED
          BY <2>1, <3>3, <4>1, <4>2
    <3> QED
        BY <3>1, <3>2, <3>3
  <2>5. Good(u, J)
      BY <2>3, <2>4 DEF Good
  <2> QED
      BY <1>3, <2>1, <2>3, <2>5
<1>5. ASSUME NEW x \in Occupied(tree), NEW y \in LeafIds(tree), remove_member(x, y)
      PROVE  TreeInv'
  <2> DEFINE u == remove_leaf(tree, y)
  <2>1. y # x /\ tree' = rekeyed(u, x)
      BY <1>5 DEF remove_member
  <2>2. PICK J \in Nat : Removed(tree, K, u, J, y) /\ Minimal(u, J)
      BY <1>2, <2>1, RemoveLeafIs
  <2> HIDE DEF u
  <2>3. Sized(u, J) /\ Typed(u) /\ Held(u)
      BY <1>2, <2>2, RemovedKeeps
  <2>4. x \in Occupied(u) /\ J <= K
      BY <2>1, <2>2 DEF Removed
  <2>5. pow2[J] <= MaxLeaves
    <3>1. pow2[J] <= pow2[K] /\ pow2[J] \in Nat /\ pow2[K] \in Nat
        BY <2>4, Pow2, Pow2Monotone
    <3> QED
        BY <1>2, <3>1, MaxLeavesAssumption
  <2>6. Good(u, J)
      BY <2>2, <2>3, <2>5 DEF Good
  <2> QED
      BY <1>3, <2>1, <2>4, <2>6
<1>6. ASSUME NEW x \in Occupied(tree), update_key(x) PROVE TreeInv'
  <2>1. tree' = rekeyed(tree, x)
      BY <1>6 DEF update_key
  <2> QED
      BY <1>1, <1>3, <1>6, <2>1
<1>7. CASE UNCHANGED tree
    BY <1>7 DEF TreeInv
<1>8. CASE Next
    BY <1>4, <1>5, <1>6, <1>8 DEF Next
<1> QED
    BY <1>7, <1>8

LEMMA AlwaysTreeInv == Spec => []TreeInv
  BY InitTreeInv, StepTreeInv, PTL DEF Spec

-----------------------------------------------------------------------------
(* What the invariant says of the properties. *)

LEMMA NodesOf ==
    ASSUME NEW K, Sized(tree, K), NEW x \in NodeIds(tree)
    PROVE  tree[x + 1] = get_node(tree, x)
  BY DEF get_node

\* Leaves and parents alternate and carry no more than the clients' keys.
THEOREM TreeTypeCorrect == Spec => []TypeOK
<1>1. TreeInv => TypeOK
  <2>1. SUFFICES ASSUME NEW K \in Nat, Good(tree, K), NEW x \in NodeIds(tree)
                 PROVE  tree[x + 1] \in NodeAt(x)
      BY DEF TreeInv, TypeOK, NodeAt
  <2>2. Sized(tree, K) /\ Typed(tree)
      BY <2>1 DEF Good
  <2> QED
      BY <2>2, NodesOf DEF Typed
<1> QED
    BY <1>1, AlwaysTreeInv, PTL

(***************************************************************************)
(* remove_leaf keeps the tree minimal and add_member no larger than it has *)
(* to be: the number of leaves is always a power of two, as next_pow2 and  *)
(* the doubling leave it, and the right half has a member.                 *)
(***************************************************************************)
THEOREM TreeStaysMinimal == Spec => []TreeMinimal
<1>1. TreeInv => TreeMinimal
  <2>1. SUFFICES ASSUME NEW K \in Nat, Good(tree, K) PROVE TreeMinimal
      BY DEF TreeInv
  <2>2. Sized(tree, K) /\ Minimal(tree, K) /\ pow2[K] <= MaxLeaves
      BY <2>1 DEF Good
  <2>3. num_leaves(tree) = pow2[K] /\ pow2[K] \in Nat
    <3>1. num_leaves(tree) = pow2[K]
        BY <2>2, SizedIs
    <3> QED
        BY <3>1, Pow2
  <2>4. K \in 0 .. log2[MaxLeaves]
    <3>1. MaxLeaves \in Nat
        BY MaxLeavesAssumption
    <3>2. log2[MaxLeaves] \in Nat /\ K <= log2[MaxLeaves]
        BY <2>2, <3>1, Log2Bounds
    <3> QED
        BY <3>2
  <2>5. num_leaves(tree) \in {pow2[k] : k \in 0 .. log2[MaxLeaves]}
      BY <2>3, <2>4
  <2>6. num_leaves(tree) > 1 => \E x \in Occupied(tree) : x >= num_leaves(tree)
    <3>1. pow2[K] > 1 => K > 0
        BY Pow2
    <3> QED
        BY <2>2, <2>3, <3>1 DEF Minimal
  <2> QED
      BY <2>5, <2>6 DEF TreeMinimal
<1> QED
    BY <1>1, AlwaysTreeInv, PTL

(***************************************************************************)
(* The tree invariant of TreeKEM, for any number of clients, any tree size *)
(* and any chain of add_member, remove_member and update_key: the private  *)
(* key of a node is known to present members below it only.  No removed    *)
(* client can open a path secret of a later commit.                        *)
(***************************************************************************)
THEOREM KeysStayBelowNodes == Spec => []KeysStayBelow
<1>1. TreeInv => KeysStayBelow
  <2>1. SUFFICES ASSUME NEW K \in Nat, Good(tree, K), NEW x \in NodeIds(tree), tree[x + 1] # Blank
                 PROVE  tree[x + 1].kem \subseteq Members(tree, x)
      BY DEF TreeInv, KeysStayBelow, Members
  <2>2. Sized(tree, K) /\ Held(tree)
      BY <2>1 DEF Good
  <2>3. tree[x + 1] = get_node(tree, x)
      BY <2>2, NodesOf
  <2> QED
      BY <2>1, <2>2, <2>3 DEF Held
<1> QED
    BY <1>1, AlwaysTreeInv, PTL

-----------------------------------------------------------------------------
(* Every member is below exactly one recipient. *)

LEMMA SealedOnce ==
    ASSUME NEW t, NEW K, Sized(t, K), NEW x \in Occupied(t), NEW y \in Occupied(t), x # y
    PROVE  Cardinality({s \in Sealed(t, x) : y \in Under(t, s[2])}) = 1
<1> DEFINE S == {s \in Sealed(t, x) : y \in Under(t, s[2])}
           Steps == (1 .. K) \X NodeIds(t)
<1>1. /\ K \in Nat /\ num_leaves(t) = pow2[K] /\ Len(t) \in Nat /\ Len(t) = Width(pow2[K])
      /\ x \in LeafIds(t) /\ x \in Nat /\ x < Width(pow2[K]) /\ x % 2 = 0
      /\ y \in LeafIds(t) /\ y \in Nat /\ y < Width(pow2[K]) /\ y % 2 = 0
      /\ get_node(t, y) # Blank
    BY SizedIs DEF Sized
<1>2. DOMAIN direct_path(num_leaves(t), x) = 1 .. K
  <2>1. K \in Nat /\ x \in Nat /\ x % 2 = 0 /\ x < Width(pow2[K]) /\ num_leaves(t) = pow2[K]
      BY <1>1
  <2>2. direct_path(pow2[K], x) = [i \in 1 .. K |-> Up(x)[i]]
      BY <2>1, DirectPathIs
  <2>3. DOMAIN direct_path(pow2[K], x) = 1 .. K
      BY <2>2, Zenon
  <2> QED
      BY <2>1, <2>3, Zenon
<1>3. \A s : s \in S <=> s \in Steps /\ s[2] \in Recipients(t, x, s[1]) /\ y \in Under(t, s[2])
    BY <1>2 DEF Sealed
<1>4. \A i \in 1 .. K : \A r :
          r \in Recipients(t, x, i) <=> /\ r \in resolution(t, copath(pow2[K], x)[i])
                                        /\ get_node(t, r) # Blank
    BY <1>1 DEF Recipients
<1>5. /\ \A i \in Nat : Up(x)[i + 1] = Above(Up(x)[i])
      /\ \A i \in Nat : Up(y)[i + 1] = Above(Up(y)[i])
      /\ Up(x)[0] = x /\ Up(y)[0] = y
    BY <1>1, UpIs
<1>6. \A n \in Nat : Up(y)[n] < Width(pow2[K]) <=> n <= K
    BY <1>1, UpLeaf
<1>7. PICK i \in Nat : /\ Up(y)[i] = Up(x)[i] /\ i <= K /\ i >= 1
                       /\ \A j \in Nat : Up(y)[j] = Up(x)[j] => i <= j
  <2> DEFINE Common == {j \in Nat : Up(y)[j] = Up(x)[j]}
  <2>1. Up(y)[K] = root(pow2[K]) /\ Up(x)[K] = root(pow2[K])
      BY <1>1, UpLeaf
  <2>2. K \in Common
      BY <1>1, <2>1
  <2>3. PICK i \in Common : \A j \in Common : i <= j
    <3>1. Common \in SUBSET Nat /\ Common # {}
        BY <2>2
    <3> HIDE DEF Common
    <3> QED
        BY <3>1, LeastNumber
  <2>4. i # 0
      BY <1>5
  <2> QED
      BY <1>1, <2>2, <2>3, <2>4
<1>8. \A n \in Nat : n >= i => Up(y)[n] = Up(x)[n]
  <2>1. SUFFICES ASSUME NEW n \in Nat, n >= i PROVE Up(y)[n] = Up(x)[n]
      OBVIOUS
  <2>2. n - i \in Nat /\ i + (n - i) = n
      BY <2>1
  <2>3. Up(Up(y)[i])[n - i] = Up(y)[i + (n - i)]
      BY <1>1, <2>2, UpSum
  <2>4. Up(Up(x)[i])[n - i] = Up(x)[i + (n - i)]
      BY <1>1, <2>2, UpSum
  <2> QED
      BY <1>7, <2>2, <2>3, <2>4
<1>9. i \in 1 .. K /\ i - 1 \in Nat /\ (i - 1) + 1 = i
    BY <1>1, <1>7
<1> DEFINE c == copath(pow2[K], x)[i]
<1>10. c = Up(y)[i - 1]
  <2>1. Other(c, Up(x)[i - 1], i - 1)
      BY <1>1, <1>9, CopathIs
  <2>2. Up(y)[i - 1] # Up(x)[i - 1]
    <3>1. ~ (i <= i - 1)
        BY <1>9
    <3> QED
        BY <1>7, <1>9, <3>1
  <2>3. Above(Up(y)[i - 1]) = Above(Up(x)[i - 1])
      BY <1>5, <1>7, <1>9
  <2>4. PICK q \in Nat : At(Up(y)[i - 1], i - 1, q)
      BY <1>1, <1>9, UpLeaf
  <2> HIDE DEF c
  <2> QED
      BY <2>1, <2>2, <2>3, <2>4 DEF Other
<1> HIDE DEF c
<1>11. PICK r \in resolution(t, c) :
           /\ \E j \in 0 .. i - 1 : Up(y)[j] = r
           /\ \A s \in resolution(t, c) : (\E j \in Nat : Up(y)[j] = s) => s = r
  <2>1. \A j \in 0 .. i - 1 : Up(y)[j] < Len(t)
    <3>1. \A j \in 0 .. i - 1 : j \in Nat /\ j <= K
        BY <1>1, <1>9
    <3> QED
        BY <1>1, <1>6, <3>1
  <2>2. Len(t) \in Nat /\ y \in Nat /\ y % 2 = 0 /\ get_node(t, y) # Blank
      BY <1>1
  <2>3. \A k \in Nat :
            (\A j \in 0 .. k : Up(y)[j] < Len(t)) =>
                \E r \in resolution(t, Up(y)[k]) :
                    /\ \E j \in 0 .. k : Up(y)[j] = r
                    /\ \A s \in resolution(t, Up(y)[k]) :
                           (\E j \in Nat : Up(y)[j] = s) => s = r
      BY <2>2, LeafOnce, Zenon
  <2>4. PICK r \in resolution(t, Up(y)[i - 1]) :
            /\ \E j \in 0 .. i - 1 : Up(y)[j] = r
            /\ \A s \in resolution(t, Up(y)[i - 1]) :
                   (\E j \in Nat : Up(y)[j] = s) => s = r
      BY <1>9, <2>1, <2>3, Zenon
  <2> QED
      BY <1>10, <2>4, Zenon
<1>12. r \in NodeIds(t) /\ get_node(t, r) # Blank
  <2>1. c \in Nat
      BY <1>1, <1>9, <1>10, UpIs
  <2>2. r \in Nat /\ r < Len(t) /\ get_node(t, r) # Blank
      BY <1>1, <1>11, <2>1, ResolutionBelow
  <2> QED
      BY <1>1, <2>2 DEF NodeIds
<1>13. y \in Under(t, r)
  <2>1. \A j \in 0 .. i - 1 : j \in 0 .. K
      BY <1>1, <1>9
  <2>2. \E j \in 0 .. K : Up(y)[j] = r
      BY <1>11, <2>1
  <2> QED
      BY <1>1, <2>2, UnderIs
<1>14. <<i, r>> \in S
  <2>1. r \in Recipients(t, x, i)
      BY <1>4, <1>9, <1>11, <1>12 DEF c
  <2>2. <<i, r>> \in Steps
      BY <1>9, <1>12
  <2> HIDE DEF S
  <2> QED
      BY <1>3, <1>13, <2>1, <2>2
<1>15. ASSUME NEW s \in S PROVE s = <<i, r>>
  <2>1. s \in Steps /\ s[2] \in Recipients(t, x, s[1]) /\ y \in Under(t, s[2])
      BY <1>3
  <2>2. PICK k \in 1 .. K, p \in NodeIds(t) : s = <<k, p>>
      BY <2>1
  <2>3. p \in Recipients(t, x, k) /\ y \in Under(t, p)
      BY <2>1, <2>2
  <2> DEFINE d == copath(pow2[K], x)[k]
  <2>4. p \in resolution(t, d)
      BY <1>4, <2>3
  <2>5. k - 1 \in Nat /\ (k - 1) + 1 = k /\ k \in Nat
      BY <1>1
  <2>6. Other(d, Up(x)[k - 1], k - 1)
      BY <1>1, CopathIs
  <2> HIDE DEF d
  <2>7. d \in Nat /\ d # Up(x)[k - 1] /\ Above(d) = Above(Up(x)[k - 1])
        /\ \E q \in Nat : At(d, k - 1, q)
      BY <2>6 DEF Other
  <2>8. PICK j \in Nat : Up(p)[j] = d
      BY <1>1, <2>4, <2>7, ResolutionBelow
  <2>9. PICK a \in 0 .. K : Up(y)[a] = p
      BY <2>3, UnderIs
  <2>10. a \in Nat /\ a + j \in Nat
      BY <1>1
  <2>11. d = Up(y)[a + j]
    <3>1. Up(Up(y)[a])[j] = Up(y)[a + j]
        BY <1>1, <2>10, UpSum
    <3> QED
        BY <2>8, <2>9, <3>1
  <2>12. a + j = k - 1
    <3>1. PICK q \in Nat : At(d, k - 1, q)
        BY <2>7
    <3>2. PICK b \in Nat : At(d, a + j, b)
        BY <1>1, <2>10, <2>11, UpLeaf
    <3>3. level[d] = k - 1
        BY <3>1, AtLevel
    <3>4. level[d] = a + j
        BY <3>2, AtLevel
    <3> QED
        BY <3>3, <3>4
  <2>13. d = Up(y)[k - 1]
      BY <2>11, <2>12
  <2>14. Up(y)[k] = Up(x)[k]
    <3>1. Up(y)[(k - 1) + 1] = Above(Up(y)[k - 1])
        BY <1>5, <2>5
    <3>2. Up(x)[(k - 1) + 1] = Above(Up(x)[k - 1])
        BY <1>5, <2>5
    <3> QED
        BY <2>5, <2>7, <2>13, <3>1, <3>2
  <2>15. i <= k
      BY <1>7, <2>5, <2>14
  <2>16. ~ (k - 1 >= i)
      BY <1>8, <2>5, <2>7, <2>13
  <2>17. k = i
      BY <2>5, <2>15, <2>16
  <2>18. p = r
    <3>1. p \in resolution(t, c)
        BY <2>4, <2>17 DEF c, d
    <3> QED
        BY <1>11, <2>9, <2>10, <3>1
  <2> QED
      BY <2>2, <2>17, <2>18
<1> HIDE DEF S
<1>16. S = {<<i, r>>}
    BY <1>14, <1>15
<1>17. Cardinality(S) = 1
    BY <1>16, FS_Singleton
<1> QED
    BY <1>17 DEF S

(***************************************************************************)
(* A commit from any leaf leaves nobody out and seals no step twice for    *)
(* the same member, however many leaves are blank: copath, resolution and  *)
(* the filter of the blank nodes agree for every full tree.                *)
(***************************************************************************)
THEOREM PathsReachEveryone == Spec => []PathReachesEveryone
<1>1. TreeInv => PathReachesEveryone
  <2>1. SUFFICES ASSUME NEW K \in Nat, Good(tree, K),
                        NEW x \in Occupied(tree), NEW y \in Occupied(tree), x # y
                 PROVE  Cardinality({s \in Sealed(tree, x) : y \in Under(tree, s[2])}) = 1
      BY DEF TreeInv, PathReachesEveryone
  <2>2. Sized(tree, K)
      BY <2>1 DEF Good
  <2> QED
      BY <2>1, <2>2, SealedOnce
<1> QED
    BY <1>1, AlwaysTreeInv, PTL
=============================================================================

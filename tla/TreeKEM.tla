------------------------------ MODULE TreeKEM -------------------------------
(***************************************************************************)
(* Who can decrypt what in the ratchet tree of one group, along one chain  *)
(* of commits of any length.                                               *)
(*                                                                         *)
(* The tree is that of RatchetTree, with one change of data: the key of a  *)
(* node is represented by the set of clients that can derive its private   *)
(* half from all they ever received.  A leaf's key is its member's alone.  *)
(* A commit draws fresh path secrets, so the set of a node on the path is  *)
(* the committer and whoever can open a ciphertext of that step or of a    *)
(* step below it, from which the secret is ratcheted up; a client that     *)
(* once learns the key of a node is taken to keep it.                      *)
(***************************************************************************)
EXTENDS RatchetTree

CONSTANTS Clients,   \* identities; a removed client may be added again
          MaxLeaves  \* bound: leaves of the tree

ASSUME MaxLeavesAssumption == MaxLeaves \in Nat \ {0}

VARIABLE tree

Leaf(m) == LeafNode(m, {m})

Roster == {get_node(tree, x).sig : x \in Occupied(tree)}

\* The nodes that step i of the path of leaf x is sealed to.
Recipients(t, x, i) ==
    {r \in resolution(t, copath(num_leaves(t), x)[i]) : get_node(t, r) # Blank}

\* Who can open the secrets of the steps 1 .. i of a commit from leaf x.
Readers(t, x, i) ==
    {get_node(t, x).sig} \cup
    UNION {get_node(t, r).kem : r \in UNION {Recipients(t, x, k) : k \in 1 .. i}}

\* The last secret of the path is also sealed to every other leaf, by reference.
CommitReaders(t, x) ==
    LET steps == Len(direct_path(num_leaves(t), x))
    IN  Readers(t, x, steps) \cup
        UNION {get_node(t, y).kem : y \in Occupied(t) \ {x}}

\* A commit from leaf x on tree t: a fresh leaf and fresh nodes above it.
rekeyed(t, x) ==
    LET dp == direct_path(num_leaves(t), x)
        m  == get_node(t, x).sig
        fresh(i) == IF i = Len(dp) THEN CommitReaders(t, x) ELSE Readers(t, x, i)
    IN  [j \in 1 .. Len(t) |->
            IF j - 1 = x THEN Leaf(m)
            ELSE IF \E i \in DOMAIN dp : dp[i] = j - 1
            THEN ParentNode(fresh(CHOOSE i \in DOMAIN dp : dp[i] = j - 1))
            ELSE t[j]]

-----------------------------------------------------------------------------
Init == \E m \in Clients : tree = <<Leaf(m)>>

add_member(x, m) ==
    /\ m \notin Roster
    /\ \/ Cardinality(Occupied(tree)) < num_leaves(tree)
       \/ 2 * num_leaves(tree) <= MaxLeaves
    /\ tree' = rekeyed(place_leaf(tree, Leaf(m)), x)

\* The target may be a blank leaf: the code does not look.
remove_member(x, y) ==
    /\ y # x
    /\ tree' = rekeyed(remove_leaf(tree, y), x)

update_key(x) == tree' = rekeyed(tree, x)

Next == \E x \in Occupied(tree) :
            \/ \E m \in Clients : add_member(x, m)
            \/ \E y \in LeafIds(tree) : remove_member(x, y)
            \/ update_key(x)

Spec == Init /\ [][Next]_tree

-----------------------------------------------------------------------------
Under(t, r) == {x \in LeafIds(t) : x = r \/ r \in PathSet(t, x)}

TypeOK ==
    \A x \in NodeIds(tree) :
        tree[x + 1] \in {Blank} \cup
            (IF x % 2 = 0 THEN [type : {"leaf"}, sig : Clients, kem : SUBSET Clients]
                          ELSE [type : {"parent"}, kem : SUBSET Clients])

(***************************************************************************)
(* remove_leaf: "Truncate trailing blank leaves to keep the tree minimal". *)
(* Through any mix of additions and removals the number of leaves is a     *)
(* power of two, which the index arithmetic of resolution needs, and the   *)
(* right half of the tree is never empty.                                  *)
(***************************************************************************)
TreeMinimal ==
    LET n == num_leaves(tree)
    IN  /\ n \in {pow2[k] : k \in 0 .. log2[MaxLeaves]}
        /\ n > 1 => \E x \in Occupied(tree) : x >= n

(***************************************************************************)
(* The tree invariant of TreeKEM.  Only present members whose leaves are   *)
(* below a node can have its private key.  In particular nobody who was    *)
(* removed can read a path secret of a later commit, whatever keys they    *)
(* kept and wherever their leaf was: this is what blanking the direct path *)
(* in remove_leaf and in add_member's placement is for.                    *)
(***************************************************************************)
KeysStayBelow ==
    \A x \in NodeIds(tree) :
        tree[x + 1] # Blank =>
            tree[x + 1].kem \subseteq
                {get_node(tree, y).sig : y \in Under(tree, x) \cap Occupied(tree)}

(***************************************************************************)
(* A commit from any leaf seals its path so that every other member is     *)
(* below exactly one recipient of the whole path: nobody is left out, and  *)
(* no step is sealed to two nodes above the same member.                   *)
(***************************************************************************)
Sealed(t, x) ==
    {s \in (DOMAIN direct_path(num_leaves(t), x)) \X NodeIds(t) :
        s[2] \in Recipients(t, x, s[1])}

PathReachesEveryone ==
    \A x, y \in Occupied(tree) :
        x # y => Cardinality({s \in Sealed(tree, x) : y \in Under(tree, s[2])}) = 1
=============================================================================

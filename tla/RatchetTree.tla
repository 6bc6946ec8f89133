---------------------------- MODULE RatchetTree -----------------------------
(***************************************************************************)
(* The ratchet tree of tree.py: an array of nodes, each blank, a member's  *)
(* leaf or a parent with a key of its own.  As in the code a node is named *)
(* by its array index, which starts at 0; node x is element x + 1 of the   *)
(* sequence.                                                               *)
(*                                                                         *)
(* A leaf carries the member's signature key and encryption key, a parent  *)
(* its encryption key.  Hashes of a tree are represented by the tree       *)
(* itself.  The parent_hash of a parent node is left out: it is computed   *)
(* from the fresh public keys above the node and never checked, so it      *)
(* tells no two trees apart.  No code path fills unmerged_leaves.          *)
(***************************************************************************)
EXTENDS TreeMath

Blank == [type |-> "blank"]
LeafNode(sig, kem) == [type |-> "leaf", sig |-> sig, kem |-> kem]
ParentNode(kem) == [type |-> "parent", kem |-> kem]

num_leaves(t) == (Len(t) + 1) \div 2

\* The indices of the array, and those of its leaves.
NodeIds(t) == 0 .. Len(t) - 1
LeafIds(t) == {x \in NodeIds(t) : x % 2 = 0}

\* get_node answers None outside the array.
get_node(t, x) == IF x \in NodeIds(t) THEN t[x + 1] ELSE Blank

IsLeaf(node) == node.type = "leaf"

Occupied(t) == {x \in LeafIds(t) : get_node(t, x) # Blank}

\* nodes[:size], Python's slice: no more than the array has.
Take(t, size) ==
    LET kept == {j \in DOMAIN t : j <= size}
    IN  [j \in 1 .. Cardinality(kept) |-> t[j]]

\* Mutant of resolution: a blank parent stands for nobody.
resolutionOfNode(t, x) == IF x \in NodeIds(t) /\ get_node(t, x) # Blank THEN {x} ELSE {}

\* The non-blank nodes that stand for everyone below x.  The code lists them
\* from left to right; the order only pairs a ciphertext with its recipient.
resolution(t, x) ==
    LET Below[y \in Nat] ==
            IF y >= Len(t) THEN {}
            ELSE IF get_node(t, y) # Blank THEN {y}
            ELSE IF y % 2 = 0 THEN {}
            ELSE Below[left(y)] \cup Below[right(y)]
    IN  IF x < 0 THEN {} ELSE Below[x]

PathSet(t, x) == LET dp == direct_path(num_leaves(t), x)
                 IN  {dp[i] : i \in DOMAIN dp}

\* Mutant of FreeLeaf: a reused leaf is placed at its number, not at its node.
FreeLeafByNumber(t) ==
    LET blanks == {x \in LeafIds(t) : get_node(t, x) = Blank}
    IN  IF blanks = {} THEN 2 * num_leaves(t)
        ELSE (CHOOSE x \in blanks : \A y \in blanks : x <= y) \div 2

(***************************************************************************)
(* add_member's placement: the leftmost blank leaf, or the first leaf of   *)
(* the new right half of a doubled tree.  The direct path of the new leaf  *)
(* is blanked.                                                             *)
(***************************************************************************)
FreeLeaf(t) ==
    LET blanks == {x \in LeafIds(t) : get_node(t, x) = Blank}
    IN  IF blanks = {} THEN 2 * num_leaves(t)
        ELSE CHOOSE x \in blanks : \A y \in blanks : x <= y

place_leaf(t, leaf) ==
    LET at == FreeLeaf(t)
        n  == IF at \in NodeIds(t) THEN num_leaves(t) ELSE 2 * num_leaves(t)
        grown == [j \in 1 .. Width(n) |-> get_node(t, j - 1)]
        stale == PathSet(grown, at)
    IN  [j \in 1 .. Width(n) |->
            IF j - 1 = at THEN leaf
            ELSE IF j - 1 \in stale THEN Blank
            ELSE grown[j]]

\* Mutants of remove_leaf: no truncation; only the leaf itself is blanked.
remove_leafNoTruncation(t, x) ==
    [j \in 1 .. Len(t) |-> IF j - 1 \in {x} \cup PathSet(t, x) THEN Blank ELSE t[j]]

remove_leafKeepsPath(t, x) ==
    LET blanked == [t EXCEPT ![x + 1] = Blank]
        rightmost == CHOOSE y \in Occupied(blanked) :
                        \A z \in Occupied(blanked) : z <= y
    IN  Take(blanked, Width(next_pow2(rightmost \div 2 + 1)))

(***************************************************************************)
(* remove_leaf: blank the leaf and its direct path, then drop the trailing *)
(* blank leaves, keeping a power of two of them.                           *)
(***************************************************************************)
remove_leaf(t, x) ==
    LET stale  == {x} \cup PathSet(t, x)
        blanked == [j \in 1 .. Len(t) |-> IF j - 1 \in stale THEN Blank ELSE t[j]]
        rightmost == CHOOSE y \in Occupied(blanked) :
                        \A z \in Occupied(blanked) : z <= y
    IN  IF Occupied(blanked) = {} THEN <<>>
        ELSE Take(blanked, Width(next_pow2(rightmost \div 2 + 1)))
=============================================================================

------------------------------ MODULE TreeMath ------------------------------
(***************************************************************************)
(* The index arithmetic of the ratchet tree (tree.py) and of the secret    *)
(* tree (secret_tree.py).  A tree with n leaves is an array of 2n - 1      *)
(* nodes: leaves at even indices, parents at odd ones.                     *)
(*                                                                         *)
(* The code works on bits.  Here the same values are computed with + and   *)
(* \div: bit k of an index of level k is 0, so the exclusive-or with       *)
(* (1 << k) | (b << (k + 1)) adds 2^k and takes b * 2^(k+1) away.          *)
(* MCTreeMath checks this form against the exclusive-or.                   *)
(*                                                                         *)
(* The loops are recursive functions, so that the modules built on this    *)
(* one can be proved about.                                                *)
(***************************************************************************)
EXTENDS Integers, Sequences, FiniteSets

\* 1 << k.
pow2[k \in Nat] == IF k = 0 THEN 1 ELSE 2 * pow2[k - 1]

\* The number of trailing 1-bits of an index: the height of the node.
level[x \in Nat] == IF x % 2 = 0 THEN 0 ELSE 1 + level[x \div 2]

\* x.bit_length() - 1, and 0 for 0.
log2[x \in Nat] == IF x <= 1 THEN 0 ELSE 1 + log2[x \div 2]

\* The smallest power of two that is at least x, by doubling.
next_pow2(x) ==
    LET Double[p \in Nat] == IF p < x THEN Double[2 * p] ELSE p
    IN  Double[1]

Width(n) == 2 * n - 1

root(n) == IF n <= 1 THEN 0 ELSE pow2[log2[Width(n)]] - 1

\* Mutant of Above: forgets to clear the bit above.
AboveKeepsBit(x) == x + pow2[level[x]]

\* The parent of x in an unbounded complete tree.
Above(x) ==
    LET k == level[x]
        b == (x \div pow2[k + 1]) % 2
    IN  x + pow2[k] - b * pow2[k + 1]

\* Mutant of parent: no reparenting.
parentInFullTree(n, x) == IF n <= 1 THEN 0 ELSE IF x = root(n) THEN x ELSE Above(x)

\* The parent of x among n leaves: climb past the nodes the tree lacks.
parent(n, x) ==
    LET Reparent[p \in Nat] == IF p < Width(n) THEN p ELSE Reparent[Above(p)]
    IN  IF n <= 1 THEN 0
        ELSE IF x = root(n) THEN x
        ELSE Reparent[Above(x)]

left(x)  == x - pow2[level[x] - 1]
right(x) == x + pow2[level[x] - 1]

\* Mutant of sibling: the children of p taken one level too far.
siblingTooFar(n, x) ==
    LET p == parent(n, x)
    IN  IF n <= 1 THEN x
        ELSE IF x < p THEN p + pow2[level[p]] ELSE p - pow2[level[p]]

sibling(n, x) ==
    LET p == parent(n, x)
    IN  IF n <= 1 THEN x
        ELSE IF x < p THEN right(p) ELSE left(p)

(***************************************************************************)
(* The ancestors of x, nearest first, up to the root.  parent(n, root) is  *)
(* the root, so the steps that start below the root are the length of the  *)
(* path.                                                                   *)
(***************************************************************************)
direct_path(n, x) ==
    LET climb[i \in Nat] == IF i = 0 THEN x ELSE parent(n, climb[i - 1])
        len == Cardinality({i \in 0 .. Width(n) : climb[i] # root(n)})
    IN  [i \in 1 .. len |-> climb[i]]

\* The sibling of each step of the direct path; NoNode where the
\* tree has no such node.
NoNode == -1

copath(n, x) ==
    LET dp == direct_path(n, x)
        below(i) == IF i = 1 THEN x ELSE dp[i - 1]
        sib(i) == sibling(n, below(i))
    IN  [i \in 1 .. Len(dp) |-> IF sib(i) < Width(n) THEN sib(i) ELSE NoNode]

\* Mutant of get_path: the turns from the leaf up.
get_pathReversed(leaf, n) ==
    LET dp == direct_path(n, 2 * leaf)
        below(i) == IF i = 1 THEN 2 * leaf ELSE dp[i - 1]
    IN  [i \in 1 .. Len(dp) |->
            IF below(i) = left(dp[i]) THEN "left" ELSE "right"]

\* secret_tree._get_path: the turns from the root down to a leaf.
get_path(leaf, n) ==
    LET dp == direct_path(n, 2 * leaf)
        below(i) == IF i = 1 THEN 2 * leaf ELSE dp[i - 1]
        k == Len(dp)
    IN  [i \in 1 .. k |->
            LET j == k + 1 - i
            IN  IF below(j) = left(dp[j]) THEN "left" ELSE "right"]

\* The secrets on the way to leaf l are not those of leaf k: the turns to k
\* are no initial part of the turns to l.
SecretsApart(k, l, n) ==
    LET s == get_path(k, n)
        t == get_path(l, n)
    IN  Len(s) <= Len(t) /\ s = SubSeq(t, 1, Len(s)) => k = l
=============================================================================

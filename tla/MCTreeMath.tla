----------------------------- MODULE MCTreeMath -----------------------------
(***************************************************************************)
(* TreeMath against independent definitions, for every node of every tree  *)
(* of up to MaxLeaves leaves, powers of two or not.                        *)
(*                                                                         *)
(* The reference tree is the left-balanced one, built from the top: the    *)
(* leaves lo .. hi - 1 are split at the largest power of two below their   *)
(* number, and the node over the split at leaf s has index 2s - 1.         *)
(***************************************************************************)
EXTENDS TreeMath, Bitwise

CONSTANT MaxLeaves

ASSUME MaxLeavesAssumption == MaxLeaves \in Nat \ {0}

VARIABLES n, x

Init == n = 1 /\ x = 0

Next == \/ x + 1 < Width(n) /\ x' = x + 1 /\ n' = n
        \/ x + 1 = Width(n) /\ n < MaxLeaves /\ x' = 0 /\ n' = n + 1

Spec == Init /\ [][Next]_<<n, x>>

-----------------------------------------------------------------------------
SplitOf(lo, hi) ==
    lo + (CHOOSE p \in {2^k : k \in 0 .. hi} : p < hi - lo /\ 2 * p >= hi - lo)
TopOf(lo, hi) == IF hi = lo + 1 THEN 2 * lo ELSE 2 * SplitOf(lo, hi) - 1

\* The nodes from the top of lo .. hi - 1 down to leaf l, the top first.
RECURSIVE Descent(_, _, _)
Descent(lo, hi, l) ==
    LET s == SplitOf(lo, hi)
    IN  IF hi = lo + 1 THEN <<2 * lo>>
        ELSE <<TopOf(lo, hi)>> \o (IF l < s THEN Descent(lo, s, l) ELSE Descent(s, hi, l))

\* The subtrees hanging off that descent, the top first.
RECURSIVE Siblings(_, _, _)
Siblings(lo, hi, l) ==
    LET s == SplitOf(lo, hi)
    IN  IF hi = lo + 1 THEN <<>>
        ELSE IF l < s THEN <<TopOf(s, hi)>> \o Siblings(lo, s, l)
        ELSE <<TopOf(lo, s)>> \o Siblings(s, hi, l)

RECURSIVE Turns(_, _, _)
Turns(lo, hi, l) ==
    LET s == SplitOf(lo, hi)
    IN  IF hi = lo + 1 THEN <<>>
        ELSE IF l < s THEN <<"left">> \o Turns(lo, s, l)
        ELSE <<"right">> \o Turns(s, hi, l)

Reversed(s) == [i \in 1 .. Len(s) |-> s[Len(s) + 1 - i]]

-----------------------------------------------------------------------------
\* The step to the parent is the exclusive-or of _parent.
AboveIsXor ==
    LET k == level[x]
        b == (x \div 2^(k + 1)) % 2
    IN  Above(x) = x ^^ (2^k + b * 2^(k + 1))

\* direct_path climbs through the ancestors the left-balanced tree has, for
\* tree sizes that need reparenting too (audit M6).
PathIsAncestry ==
    x % 2 = 0 => <<x>> \o direct_path(n, x) = Reversed(Descent(0, n, x \div 2))

\* copath names the subtrees that hang off the path.  _sibling steps from the
\* parent without reparenting, which names them only in a full tree; the trees
\* that add_member, remove_leaf and _parse build are full.
CopathIsSiblings ==
    x % 2 = 0 /\ n = next_pow2(n) => copath(n, x) = Reversed(Siblings(0, n, x \div 2))

\* The secret tree's turns lead to the leaf, and to no other: no leaf's node
\* secret is, or is derived from, that of another leaf.
SecretPathsSeparate ==
    x % 2 = 0 =>
        /\ get_path(x \div 2, n) = Turns(0, n, x \div 2)
        /\ \A l \in 0 .. n - 1 : SecretsApart(x \div 2, l, n)
=============================================================================

----------------------------- MODULE MCTreeKEM ------------------------------
(* TreeKEM for TLC: clients are interchangeable. *)
EXTENDS TreeKEM, TLC

Symmetry == Permutations(Clients)
=============================================================================

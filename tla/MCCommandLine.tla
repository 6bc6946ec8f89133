--------------------------- MODULE MCCommandLine ---------------------------
(***************************************************************************)
(* Model checking of CommandLine: users and shells are interchangeable.    *)
(***************************************************************************)
EXTENDS CommandLine, TLC

Symmetry == Permutations(Users) \cup Permutations(Shells)
=============================================================================

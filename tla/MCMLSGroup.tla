----------------------------- MODULE MCMLSGroup -----------------------------
(* Instances of MLSGroup for TLC: three clients and their key packages. *)
EXTENDS MLSGroupHistory

CONSTANTS A, B, C, kA, kB, kC, kB2, kBad

MCOwner == [kp \in KeyPackages |->
              CASE kp = kA -> A
                [] kp = kC -> C
                [] OTHER -> B]
=============================================================================

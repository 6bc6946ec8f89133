---------------------------- MODULE MCSecretTree ----------------------------
(* SecretTree for TLC: two members. *)
EXTENDS SecretTree

CONSTANTS A, B
=============================================================================

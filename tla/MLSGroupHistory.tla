-------------------------- MODULE MLSGroupHistory ---------------------------
(***************************************************************************)
(* MLSGroup implements GroupHistory: a member stands on the epoch that its *)
(* epoch secret is the chain of, and the epochs are those whose secret     *)
(* confirms a published commit.                                            *)
(***************************************************************************)
EXTENDS MLSGroup

RosterOf(entry) == Roster(entry.context.tree_hash)

History == INSTANCE GroupHistory WITH
    Members <- RosterOf,
    epochs <- {commits[c].confirmation_tag : c \in DOMAIN commits},
    at <- [m \in DOMAIN group |-> group[m].secret]

(***************************************************************************)
(* Every step of every operation, in any interleaving of clients and with  *)
(* any loss, replay or reordering of commits and welcomes, is a step of    *)
(* GroupHistory or leaves everyone where they stand.  Forks never merge,   *)
(* nobody skips or goes back an epoch by process_update, and a client is   *)
(* never moved to an epoch whose tree lacks it.                            *)
(***************************************************************************)
ImplementsHistory == History!Spec
=============================================================================

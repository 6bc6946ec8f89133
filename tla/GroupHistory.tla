---------------------------- MODULE GroupHistory ----------------------------
(***************************************************************************)
(* What MLSGroup promises, without trees, keys or messages.                *)
(*                                                                         *)
(* A group is a tree of epochs.  An epoch is the history that led to it: a *)
(* sequence whose last element is the epoch's own entry.  Every member     *)
(* stands on one epoch.  It moves only from an epoch to a child of that    *)
(* epoch that still has it as a member, or is let in by an invitation to   *)
(* an epoch that has it as a member.  Two children of one epoch are a      *)
(* fork, and nobody ever steps from one branch to another.                 *)
(***************************************************************************)
EXTENDS Naturals, Sequences

CONSTANTS Clients,
          Members(_)  \* the clients that an entry names as members

VARIABLES epochs,  \* the histories that a commit has produced
          at       \* a function: where each client that is in a group stands

Entry(h)  == h[Len(h)]
Parent(h) == SubSeq(h, 1, Len(h) - 1)

Stand(m, h) == at' = [k \in DOMAIN at \cup {m} |-> IF k = m THEN h ELSE at[k]]

Init == epochs = {} /\ at = << >>

\* m starts a group in which it is alone.
Found(m) ==
    /\ m \in Clients \ DOMAIN at
    /\ \E h \in {at'[m]} : /\ Len(h) = 1
                           /\ Members(Entry(h)) = {m}
                           /\ Stand(m, h)
    /\ UNCHANGED epochs

\* m adds a new child h to its epoch, and moves to it or stays.
Commit(m, h) ==
    /\ h \notin epochs
    /\ Parent(h) = at[m]
    /\ epochs' = epochs \cup {h}
    /\ Stand(m, h) \/ UNCHANGED at

\* m moves to a child of its epoch that another has added.
Follow(m, h) ==
    /\ h \in epochs
    /\ Parent(h) = at[m]
    /\ m \in Members(Entry(h))
    /\ Stand(m, h)
    /\ UNCHANGED epochs

\* m is let into an epoch, whatever it did before.
Enter(m, h) ==
    /\ h \in epochs
    /\ m \in Members(Entry(h))
    /\ Stand(m, h)
    /\ UNCHANGED epochs

Next ==
    \/ \E m \in Clients : m \in DOMAIN at' /\ Found(m)
    \/ \E m \in DOMAIN at, h \in epochs' : Commit(m, h) \/ Follow(m, h)
    \/ \E m \in Clients, h \in epochs : Enter(m, h)

Spec == Init /\ [][Next]_<<epochs, at>>
=============================================================================

----------------------------- MODULE SecretTree -----------------------------
(***************************************************************************)
(* Application messages: encrypt_application_message and                   *)
(* decrypt_application_message of group.py over SecretTree of              *)
(* secret_tree.py, through epoch changes, restarts and discarded commits.  *)
(*                                                                         *)
(* A handle has one SecretTree at most, made when first needed from the    *)
(* epoch's encryption secret.  It counts the generations it has used for   *)
(* its own leaf, and caches for every leaf the latest ratchet secret it    *)
(* has derived (its tip); earlier secrets cannot be derived from the tip.  *)
(* A handle without a SecretTree behaves as one with a fresh SecretTree.   *)
(*                                                                         *)
(* Each member is its leaf.  An epoch is the number of the commit that     *)
(* made it (epoch 1 is the founding one), with the epoch it was made from. *)
(* The secrets of two epochs are unrelated, so a message opens in its own  *)
(* epoch only.                                                             *)
(***************************************************************************)
EXTENDS Integers, Sequences, FiniteSets

CONSTANTS Members,      \* the members of the group in all its epochs
          MaxEpochs,    \* bound: epochs ever made
          MaxMessages,  \* bound: messages ever encrypted
          MayRestart,   \* processes restart from the state they saved
          MayDiscard,   \* an application goes on with the old handle
          MayDamage     \* messages arrive damaged

ASSUME SecretTreeAssumption ==
    /\ MaxEpochs \in Nat \ {0}
    /\ MaxMessages \in Nat
    /\ MayRestart \in BOOLEAN
    /\ MayDiscard \in BOOLEAN
    /\ MayDamage \in BOOLEAN

VARIABLES made_from,  \* made_from[e]: the epoch that epoch e was made from
          epoch,      \* the epoch of each member's handle
          ratchet,    \* its SecretTree
          saved,      \* the epoch of the handle that to_bytes last wrote
          sent,       \* every message ever encrypted
          opened      \* the messages that the present SecretTree has opened

vars == <<made_from, epoch, ratchet, saved, sent, opened>>

NoTip == -1

\* Mutant of Fresh: the counter holds the generation last used.
FreshLastUsed == [generation |-> NoTip, tip |-> [k \in Members |-> NoTip]]

Fresh == [generation |-> 0, tip |-> [k \in Members |-> NoTip]]

Message == [epoch : 1 .. MaxEpochs, sender : Members, generation : Nat, body : Nat]

TypeOK ==
    /\ made_from \in Seq(0 .. MaxEpochs)
    /\ epoch \in [Members -> 1 .. MaxEpochs]
    /\ ratchet \in [Members -> [generation : Nat, tip : [Members -> Nat \cup {NoTip}]]]
    /\ saved \in [Members -> 1 .. MaxEpochs]
    /\ sent \subseteq Message
    /\ opened \in [Members -> SUBSET Message]

\* Mutants: no refusal; the tip recorded one generation ahead; the counter
\* not advanced.
DerivableAlways(r, k, generation) == TRUE
get_ratchet_secretAhead(r, k, generation) ==
    [generation |-> r.generation, tip |-> [r.tip EXCEPT ![k] = generation + 1]]
get_key_and_nonceStays(r, m) ==
    [generation |-> r.generation, tip |-> [r.tip EXCEPT ![m] = r.generation]]

\* Mutant of get_key_and_nonce: the ratchet is moved on, the counter is not.
get_key_and_nonceRunsOn(r, m) ==
    [generation |-> r.generation, tip |-> [r.tip EXCEPT ![m] = r.generation + 1]]

\* _get_ratchet_secret: refuse a generation below the tip, else move the tip.
Derivable(r, k, generation) == generation >= r.tip[k]
get_ratchet_secret(r, k, generation) ==
    [generation |-> r.generation, tip |-> [r.tip EXCEPT ![k] = generation]]

\* get_key_and_nonce: derive the next generation of one's own leaf, consume it.
get_key_and_nonce(r, m) ==
    LET derived == get_ratchet_secret(r, m, r.generation)
    IN  [generation |-> r.generation + 1, tip |-> derived.tip]

-----------------------------------------------------------------------------
Init ==
    /\ made_from = <<0>>
    /\ epoch = [m \in Members |-> 1]
    /\ ratchet = [m \in Members |-> Fresh]
    /\ saved = [m \in Members |-> 1]
    /\ sent = {}
    /\ opened = [m \in Members |-> {}]

\* The new handle starts without a SecretTree; wipe leaves the old one none.
Renew(m, e) ==
    /\ epoch' = [epoch EXCEPT ![m] = e]
    /\ ratchet' = [ratchet EXCEPT ![m] = Fresh]
    /\ opened' = [opened EXCEPT ![m] = {}]

encrypt_application_message(m) ==
    LET r == ratchet[m]
        n == Cardinality(sent) + 1
    IN  /\ n <= MaxMessages
        /\ Derivable(r, m, r.generation)
        /\ sent' = sent \cup {[epoch |-> epoch[m], sender |-> m,
                               generation |-> r.generation, body |-> n]}
        /\ ratchet' = [ratchet EXCEPT ![m] = get_key_and_nonce(r, m)]
        /\ UNCHANGED <<made_from, epoch, saved, opened>>

\* Any message of one's own epoch, one's own included, any number of times.
decrypt_application_message(m, msg) ==
    /\ msg.epoch = epoch[m]
    /\ Derivable(ratchet[m], msg.sender, msg.generation)
    /\ ratchet' = [ratchet EXCEPT
                     ![m] = get_ratchet_secret(@, msg.sender, msg.generation)]
    /\ opened' = [opened EXCEPT ![m] = @ \cup {msg}]
    /\ UNCHANGED <<made_from, epoch, saved, sent>>

\* The generation stands in the clear between the two ciphertexts, and the
\* sender data authenticates neither it nor more than the first bytes of the
\* content.  When one of them was damaged, the tip of the sender has moved
\* before the content turns out not to open.
decrypt_damaged(m, msg, generation) ==
    /\ MayDamage
    /\ msg.epoch = epoch[m]
    /\ Derivable(ratchet[m], msg.sender, generation)
    /\ ratchet' = [ratchet EXCEPT ![m] = get_ratchet_secret(@, msg.sender, generation)]
    /\ UNCHANGED <<made_from, epoch, saved, sent, opened>>

\* add_member, remove_member, update_key: the old handle's SecretTree is wiped,
\* whether the application then goes on with the new handle or with the old.
commit(m, adopt) ==
    /\ Len(made_from) < MaxEpochs
    /\ adopt \/ MayDiscard
    /\ made_from' = Append(made_from, epoch[m])
    /\ Renew(m, IF adopt THEN Len(made_from) + 1 ELSE epoch[m])
    /\ UNCHANGED <<saved, sent>>

process_update(m, e) ==
    /\ made_from[e] = epoch[m]
    /\ Renew(m, e)
    /\ UNCHANGED <<made_from, saved, sent>>

\* to_bytes writes the handle without its SecretTree.
save(m) ==
    /\ saved' = [saved EXCEPT ![m] = epoch[m]]
    /\ UNCHANGED <<made_from, epoch, ratchet, sent, opened>>

restart(m) ==
    /\ MayRestart
    /\ Renew(m, saved[m])
    /\ UNCHANGED <<made_from, saved, sent>>

Next == \E m \in Members :
    \/ encrypt_application_message(m)
    \/ \E msg \in sent : decrypt_application_message(m, msg)
    \/ \E msg \in sent : \E generation \in 0 .. MaxMessages : decrypt_damaged(m, msg, generation)
    \/ \E adopt \in BOOLEAN : commit(m, adopt)
    \/ \E e \in DOMAIN made_from : process_update(m, e)
    \/ save(m)
    \/ restart(m)

Spec == Init /\ [][Next]_vars

-----------------------------------------------------------------------------
(***************************************************************************)
(* get_key_and_nonce: "Consuming derivation (sender side). Advances        *)
(* generation counter."  The key and nonce of an AES-GCM encryption are a  *)
(* function of epoch, leaf and generation: no two messages share them.     *)
(***************************************************************************)
KeyAndNonceUsedOnce ==
    \A a, b \in sent :
        /\ a.epoch = b.epoch
        /\ a.sender = b.sender
        /\ a.generation = b.generation
        => a = b

\* SecretTree: "advances the generation counter to enforce forward secrecy".
\* While a handle stays in its epoch none of its ratchets goes back, whatever
\* order messages arrive in and however often.
RatchetsOnlyForward ==
    [][\A m \in Members :
          epoch'[m] = epoch[m] =>
              /\ ratchet'[m].generation >= ratchet[m].generation
              /\ \A k \in Members : ratchet'[m].tip[k] >= ratchet[m].tip[k]]_vars

\* A member can always encrypt: reading, its own messages included, never
\* moves the tip of its leaf past its counter, where get_key_and_nonce raises
\* until the epoch ends.
SenderNotStuck ==
    \A m \in Members : Derivable(ratchet[m], m, ratchet[m].generation)

\* The same where handles are restored or kept after a commit, and with them
\* counters begin again: get_key_and_nonce raises only after the handle has
\* opened a message of its own that its counter has not come to.
StuckOnlyByOwnPast ==
    \A m \in Members :
        \/ Derivable(ratchet[m], m, ratchet[m].generation)
        \/ \E msg \in opened[m] :
              msg.sender = m /\ msg.generation > ratchet[m].generation

\* The messages that the present SecretTree of m has opened or encrypted; the
\* generations of its own leaf below the counter are those it has used.
PassedBy(m) ==
    opened[m] \cup {msg \in sent : /\ msg.epoch = epoch[m] /\ msg.sender = m
                                   /\ msg.generation < ratchet[m].generation}

\* A message of the present epoch becomes unreadable only when a later message
\* of the same sender has been opened, or was encrypted, on this SecretTree.
LostOnlyIfOvertaken ==
    \A m \in Members : \A msg \in sent :
        /\ msg.epoch = epoch[m]
        /\ ~Derivable(ratchet[m], msg.sender, msg.generation)
        => \E later \in PassedBy(m) :
              /\ later.epoch = msg.epoch
              /\ later.sender = msg.sender
              /\ later.generation > msg.generation
=============================================================================

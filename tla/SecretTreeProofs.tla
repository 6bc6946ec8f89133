-------------------------- MODULE SecretTreeProofs --------------------------
(***************************************************************************)
(* Proofs about SecretTree, for any set of members, any number of epochs   *)
(* and any number of messages.                                             *)
(*                                                                         *)
(* KeyAndNonceUsedOnce holds where no handle is restored and none is used  *)
(* after it committed.  The reason is that a member's epoch only grows (a  *)
(* commit's epoch is newer than the one it was made from), so that a       *)
(* SecretTree that was given up is never made again, and that the counter  *)
(* of the present one is ahead of everything its owner sent in this epoch. *)
(***************************************************************************)
EXTENDS SecretTree, FiniteSetTheorems, TLAPS

\* What a step finds: the types, and the epochs older than their children.
Typed ==
    /\ TypeOK
    /\ IsFiniteSet(sent)
    /\ Len(made_from) \in 1 .. MaxEpochs
    /\ \A m \in Members : epoch[m] \in DOMAIN made_from
    /\ \A m \in Members : saved[m] \in DOMAIN made_from

Older == \A e \in DOMAIN made_from : made_from[e] < e

\* Nothing was sent from an epoch its sender has yet to reach, and the counter
\* of the sender is ahead of all that it sent from its present epoch.
CounterAhead ==
    \A msg \in sent :
        /\ msg.epoch <= epoch[msg.sender]
        /\ msg.epoch = epoch[msg.sender] =>
              msg.generation < ratchet[msg.sender].generation

\* The inductive invariant of KeyAndNonceUsedOnce.
SendInv == Typed /\ Older /\ CounterAhead /\ KeyAndNonceUsedOnce

-----------------------------------------------------------------------------
LEMMA FreshType ==
    Fresh \in [generation : Nat, tip : [Members -> Nat \cup {NoTip}]]
BY DEF Fresh

LEMMA InitTyped == Init => Typed
<1> SUFFICES ASSUME Init PROVE Typed
    OBVIOUS
<1> USE SecretTreeAssumption DEF Init
<1>1. made_from \in Seq(0 .. MaxEpochs) /\ Len(made_from) = 1
    OBVIOUS
<1>2. IsFiniteSet(sent)
    BY FS_EmptySet
<1>3. ratchet \in [Members -> [generation : Nat, tip : [Members -> Nat \cup {NoTip}]]]
    BY FreshType
<1> QED
    BY <1>1, <1>2, <1>3 DEF Typed, TypeOK

\* Renewing the SecretTree keeps the types.
LEMMA RenewTyped ==
    ASSUME TypeOK, NEW m \in Members, NEW e \in 1 .. MaxEpochs, Renew(m, e)
    PROVE  /\ epoch' \in [Members -> 1 .. MaxEpochs]
           /\ epoch' = [epoch EXCEPT ![m] = e]
           /\ ratchet' \in [Members -> [generation : Nat, tip : [Members -> Nat \cup {NoTip}]]]
           /\ opened' \in [Members -> SUBSET Message]
BY FreshType DEF Renew, TypeOK

LEMMA StepTyped == Typed /\ [Next]_vars => Typed'
<1> SUFFICES ASSUME Typed, [Next]_vars PROVE Typed'
    OBVIOUS
<1> USE SecretTreeAssumption
<1> DEFINE R == [generation : Nat, tip : [Members -> Nat \cup {NoTip}]]
<1>1. ASSUME NEW m \in Members, encrypt_application_message(m) PROVE Typed'
  <2> DEFINE r == ratchet[m]
             n == Cardinality(sent) + 1
             msg == [epoch |-> epoch[m], sender |-> m,
                     generation |-> r.generation, body |-> n]
  <2>1. r \in R
      BY DEF Typed, TypeOK
  <2>2. n \in Nat
      BY FS_CardinalityType DEF Typed
  <2>3. msg \in Message
      BY <2>1, <2>2 DEF Typed, TypeOK, Message
  <2>4. sent' = sent \cup {msg}
      BY <1>1 DEF encrypt_application_message
  <2>5. sent' \subseteq Message /\ IsFiniteSet(sent')
      BY <2>3, <2>4, FS_AddElement DEF Typed, TypeOK
  <2>6. get_key_and_nonce(r, m) \in R
      BY <2>1 DEF get_key_and_nonce, get_ratchet_secret
  <2>7. ratchet' \in [Members -> R]
      BY <1>1, <2>6 DEF encrypt_application_message, Typed, TypeOK
  <2> QED
      BY <1>1, <2>5, <2>7 DEF encrypt_application_message, Typed, TypeOK
<1>2. ASSUME NEW m \in Members, NEW msg \in sent, decrypt_application_message(m, msg)
      PROVE  Typed'
  <2>1. msg \in Message
      BY DEF Typed, TypeOK
  <2>2. get_ratchet_secret(ratchet[m], msg.sender, msg.generation) \in R
      BY <2>1 DEF Typed, TypeOK, get_ratchet_secret, Message
  <2>3. ratchet' \in [Members -> R]
      BY <1>2, <2>2 DEF decrypt_application_message, Typed, TypeOK
  <2>4. opened' \in [Members -> SUBSET Message]
      BY <1>2, <2>1 DEF decrypt_application_message, Typed, TypeOK
  <2> QED
      BY <1>2, <2>3, <2>4 DEF decrypt_application_message, Typed, TypeOK
<1>3. ASSUME NEW m \in Members, NEW adopt \in BOOLEAN, commit(m, adopt) PROVE Typed'
  <2> DEFINE e == IF adopt THEN Len(made_from) + 1 ELSE epoch[m]
  <2>1. /\ Renew(m, e)
        /\ Len(made_from) < MaxEpochs
        /\ made_from' = Append(made_from, epoch[m])
        /\ UNCHANGED <<saved, sent>>
      BY <1>3 DEF commit
  <2>2. made_from \in Seq(0 .. MaxEpochs) /\ epoch[m] \in 0 .. MaxEpochs
      BY DEF Typed, TypeOK
  <2>3. /\ made_from' \in Seq(0 .. MaxEpochs)
        /\ Len(made_from') = Len(made_from) + 1
        /\ DOMAIN made_from' = 1 .. Len(made_from) + 1
        /\ DOMAIN made_from = 1 .. Len(made_from)
        /\ Len(made_from) \in Nat
      BY <2>1, <2>2
  <2>4. e \in 1 .. MaxEpochs /\ e \in DOMAIN made_from'
      BY <2>1, <2>3 DEF Typed, TypeOK
  <2>5. /\ epoch' \in [Members -> 1 .. MaxEpochs]
        /\ epoch' = [epoch EXCEPT ![m] = e]
        /\ ratchet' \in [Members -> R]
        /\ opened' \in [Members -> SUBSET Message]
      BY <2>1, <2>4, RenewTyped DEF Typed
  <2>6. \A k \in Members : epoch'[k] \in DOMAIN made_from' /\ saved'[k] \in DOMAIN made_from'
      BY <2>1, <2>3, <2>4, <2>5 DEF Typed, TypeOK
  <2>7. Len(made_from') \in 1 .. MaxEpochs
      BY <2>1, <2>3 DEF Typed
  <2> QED
      BY <2>1, <2>3, <2>5, <2>6, <2>7 DEF Typed, TypeOK
<1>4. ASSUME NEW m \in Members, NEW e \in DOMAIN made_from, Renew(m, e),
             UNCHANGED <<made_from, saved, sent>>
      PROVE  Typed'
  <2>1. e \in 1 .. MaxEpochs
      BY DEF Typed, TypeOK
  <2>2. /\ epoch' \in [Members -> 1 .. MaxEpochs]
        /\ epoch' = [epoch EXCEPT ![m] = e]
        /\ ratchet' \in [Members -> R]
        /\ opened' \in [Members -> SUBSET Message]
      BY <1>4, <2>1, RenewTyped DEF Typed
  <2> QED
      BY <1>4, <2>2 DEF Typed, TypeOK
<1>5. ASSUME NEW m \in Members, NEW e \in DOMAIN made_from, process_update(m, e)
      PROVE  Typed'
    BY <1>4, <1>5 DEF process_update
<1>6. ASSUME NEW m \in Members, save(m) PROVE Typed'
    BY <1>6 DEF save, Typed, TypeOK
<1>7. ASSUME NEW m \in Members, restart(m) PROVE Typed'
    BY <1>4, <1>7 DEF restart, Typed
<1>8. CASE UNCHANGED vars
    BY <1>8 DEF vars, Typed, TypeOK
<1>9. ASSUME NEW m \in Members, NEW msg \in sent, NEW g \in 0 .. MaxMessages,
             decrypt_damaged(m, msg, g)
      PROVE  Typed'
  <2>1. msg \in Message /\ g \in Nat
      BY DEF Typed, TypeOK
  <2>2. get_ratchet_secret(ratchet[m], msg.sender, g) \in R
      BY <2>1 DEF Typed, TypeOK, get_ratchet_secret, Message
  <2>3. ratchet' \in [Members -> R]
      BY <1>9, <2>2 DEF decrypt_damaged, Typed, TypeOK
  <2> QED
      BY <1>9, <2>3 DEF decrypt_damaged, Typed, TypeOK
<1> QED
    BY <1>1, <1>2, <1>3, <1>5, <1>6, <1>7, <1>8, <1>9 DEF Next

(***************************************************************************)
(* Every variable keeps its type, with restarts and discarded commits too. *)
(***************************************************************************)
THEOREM TypeCorrect == Spec => []TypeOK
<1>1. Typed => TypeOK
    BY DEF Typed
<1> QED
    BY InitTyped, StepTyped, <1>1, PTL DEF Spec

-----------------------------------------------------------------------------
LEMMA SentFields ==
    ASSUME Typed, NEW msg \in sent
    PROVE  msg.sender \in Members /\ msg.generation \in Nat /\ msg.epoch \in Nat
<1>1. msg \in Message /\ 1 .. MaxEpochs \subseteq Nat
    BY SecretTreeAssumption DEF Typed, TypeOK
<1> QED
    BY <1>1 DEF Message

LEMMA HandleFields ==
    ASSUME Typed, NEW m \in Members
    PROVE  epoch[m] \in Nat /\ ratchet[m].generation \in Nat
<1>1. epoch[m] \in 1 .. MaxEpochs /\ 1 .. MaxEpochs \subseteq Nat
    BY SecretTreeAssumption DEF Typed, TypeOK
<1> QED
    BY <1>1 DEF Typed, TypeOK

LEMMA StepOlder ==
    ASSUME Typed, Older, [Next]_vars
    PROVE  Older'
<1>1. CASE UNCHANGED made_from
    BY <1>1 DEF Older
<1>2. ASSUME NEW m \in Members, made_from' = Append(made_from, epoch[m])
      PROVE  Older'
  <2>1. made_from \in Seq(0 .. MaxEpochs) /\ epoch[m] \in 1 .. Len(made_from)
      BY DEF Typed, TypeOK
  <2> QED
      BY <1>2, <2>1 DEF Older
<1> QED
    BY <1>1, <1>2 DEF Next, vars, encrypt_application_message,
       decrypt_application_message, decrypt_damaged, commit, process_update, save,
       restart

\* Without restarts and discarded commits a member that gets a fresh SecretTree
\* gets it in a newer epoch.
LEMMA EpochGrows ==
    ASSUME Typed, Older, ~MayRestart, ~MayDiscard,
           NEW m \in Members,
           \/ \E adopt \in BOOLEAN : commit(m, adopt)
           \/ \E e \in DOMAIN made_from : process_update(m, e)
           \/ restart(m)
    PROVE  /\ epoch' \in [Members -> 1 .. MaxEpochs]
           /\ epoch'[m] > epoch[m]
           /\ \A k \in Members \ {m} : epoch'[k] = epoch[k] /\ ratchet'[k] = ratchet[k]
           /\ sent' = sent
<1> USE SecretTreeAssumption
<1>1. ASSUME NEW e \in 1 .. MaxEpochs, Renew(m, e), e > epoch[m], sent' = sent
      PROVE  /\ epoch' \in [Members -> 1 .. MaxEpochs]
             /\ epoch'[m] > epoch[m]
             /\ \A k \in Members \ {m} : epoch'[k] = epoch[k] /\ ratchet'[k] = ratchet[k]
             /\ sent' = sent
    BY <1>1 DEF Renew, Typed, TypeOK
<1>2. ASSUME NEW adopt \in BOOLEAN, commit(m, adopt)
      PROVE  \E e \in 1 .. MaxEpochs : Renew(m, e) /\ e > epoch[m] /\ sent' = sent
  <2>1. /\ adopt
        /\ Len(made_from) < MaxEpochs
        /\ Renew(m, IF adopt THEN Len(made_from) + 1 ELSE epoch[m])
        /\ sent' = sent
      BY <1>2 DEF commit
  <2>2. Renew(m, Len(made_from) + 1)
      BY <2>1
  <2>3. epoch[m] \in 1 .. Len(made_from) /\ Len(made_from) \in Nat
      BY DEF Typed, TypeOK
  <2> QED
      BY <2>1, <2>2, <2>3
<1>3. ASSUME NEW e \in DOMAIN made_from, process_update(m, e)
      PROVE  e \in 1 .. MaxEpochs /\ Renew(m, e) /\ e > epoch[m] /\ sent' = sent
    BY <1>3 DEF process_update, Typed, TypeOK, Older
<1>4. ~restart(m)
    BY DEF restart
<1> QED
    BY <1>1, <1>2, <1>3, <1>4

LEMMA StepSendInv ==
    ASSUME ~MayRestart, ~MayDiscard, SendInv, [Next]_vars
    PROVE  SendInv'
<1>1. Typed' /\ Older'
    BY StepTyped, StepOlder DEF SendInv
<1> SUFFICES CounterAhead' /\ KeyAndNonceUsedOnce'
    BY <1>1 DEF SendInv
<1>2. ASSUME NEW m \in Members, encrypt_application_message(m)
      PROVE  CounterAhead' /\ KeyAndNonceUsedOnce'
  <2> DEFINE new == [epoch |-> epoch[m], sender |-> m,
                     generation |-> ratchet[m].generation,
                     body |-> Cardinality(sent) + 1]
  <2>1. /\ sent' = sent \cup {new}
        /\ epoch' = epoch
        /\ ratchet' = [ratchet EXCEPT ![m] = get_key_and_nonce(ratchet[m], m)]
      BY <1>2 DEF encrypt_application_message
  <2>2. /\ \A k \in Members : ratchet[k].generation \in Nat /\ epoch[k] \in Nat
        /\ \A msg \in sent : /\ msg.sender \in Members
                             /\ msg.generation \in Nat
                             /\ msg.epoch \in Nat
      BY SentFields, HandleFields DEF SendInv
  <2>3. /\ ratchet'[m].generation = ratchet[m].generation + 1
        /\ \A k \in Members \ {m} : ratchet'[k] = ratchet[k]
      BY <2>1 DEF SendInv, Typed, TypeOK, get_key_and_nonce
  <2>4. CounterAhead'
      BY <2>1, <2>2, <2>3 DEF SendInv, CounterAhead
  <2>5. \A msg \in sent : ~ (/\ msg.epoch = new.epoch
                             /\ msg.sender = new.sender
                             /\ msg.generation = new.generation)
      BY <2>2 DEF SendInv, CounterAhead
  <2>6. KeyAndNonceUsedOnce'
      BY <2>1, <2>5 DEF SendInv, KeyAndNonceUsedOnce
  <2> QED
      BY <2>4, <2>6
<1>3. ASSUME NEW m \in Members, NEW msg \in sent, decrypt_application_message(m, msg)
      PROVE  CounterAhead' /\ KeyAndNonceUsedOnce'
  <2>1. /\ sent' = sent /\ epoch' = epoch
        /\ ratchet' = [ratchet EXCEPT
                         ![m] = get_ratchet_secret(@, msg.sender, msg.generation)]
      BY <1>3 DEF decrypt_application_message
  <2>2. \A k \in Members : ratchet'[k].generation = ratchet[k].generation
      BY <2>1 DEF SendInv, Typed, TypeOK, get_ratchet_secret
  <2>3. \A other \in sent : other.sender \in Members
      BY DEF SendInv, Typed, TypeOK, Message
  <2> QED
      BY <2>1, <2>2, <2>3 DEF SendInv, CounterAhead, KeyAndNonceUsedOnce
<1>4. ASSUME NEW m \in Members,
             \/ \E adopt \in BOOLEAN : commit(m, adopt)
             \/ \E e \in DOMAIN made_from : process_update(m, e)
             \/ restart(m)
      PROVE  CounterAhead' /\ KeyAndNonceUsedOnce'
  <2>1. /\ epoch' \in [Members -> 1 .. MaxEpochs]
        /\ epoch'[m] > epoch[m]
        /\ \A k \in Members \ {m} : epoch'[k] = epoch[k] /\ ratchet'[k] = ratchet[k]
        /\ sent' = sent
      BY <1>4, EpochGrows DEF SendInv
  <2>2. /\ \A k \in Members : epoch[k] \in Nat
        /\ \A msg \in sent : msg.sender \in Members /\ msg.epoch \in Nat
      BY SentFields, HandleFields DEF SendInv
  <2>3. epoch'[m] \in Nat
      BY <2>1, SecretTreeAssumption
  <2>4. CounterAhead'
      BY <2>1, <2>2, <2>3 DEF SendInv, CounterAhead
  <2> QED
      BY <2>1, <2>4 DEF SendInv, KeyAndNonceUsedOnce
<1>5. CASE UNCHANGED <<epoch, ratchet, sent>>
    BY <1>5 DEF SendInv, CounterAhead, KeyAndNonceUsedOnce
<1>6. ASSUME NEW m \in Members, NEW msg \in sent, NEW g \in 0 .. MaxMessages,
             decrypt_damaged(m, msg, g)
      PROVE  CounterAhead' /\ KeyAndNonceUsedOnce'
  <2>1. /\ sent' = sent /\ epoch' = epoch
        /\ ratchet' = [ratchet EXCEPT ![m] = get_ratchet_secret(@, msg.sender, g)]
      BY <1>6 DEF decrypt_damaged
  <2>2. \A k \in Members : ratchet'[k].generation = ratchet[k].generation
      BY <2>1 DEF SendInv, Typed, TypeOK, get_ratchet_secret
  <2>3. \A other \in sent : other.sender \in Members
      BY DEF SendInv, Typed, TypeOK, Message
  <2> QED
      BY <2>1, <2>2, <2>3 DEF SendInv, CounterAhead, KeyAndNonceUsedOnce
<1> QED
    BY <1>2, <1>3, <1>4, <1>5, <1>6 DEF Next, vars, save

(***************************************************************************)
(* No two messages are encrypted under one key and nonce, as long as no    *)
(* process restores a saved handle and none goes on with a handle it       *)
(* committed from.  Neither condition can be dropped: TLC refutes the      *)
(* property as soon as one of the two may happen.                          *)
(***************************************************************************)
THEOREM NoncesUnique ==
    ASSUME ~MayRestart, ~MayDiscard
    PROVE  Spec => []KeyAndNonceUsedOnce
<1>1. Init => SendInv
  <2> SUFFICES ASSUME Init PROVE Older /\ CounterAhead /\ KeyAndNonceUsedOnce
      BY InitTyped DEF SendInv
  <2> QED
      BY DEF Init, Older, CounterAhead, KeyAndNonceUsedOnce
<1>2. SendInv /\ [Next]_vars => SendInv'
    BY StepSendInv
<1>3. SendInv => KeyAndNonceUsedOnce
    BY DEF SendInv
<1> QED
    BY <1>1, <1>2, <1>3, PTL DEF Spec

(***************************************************************************)
(* While a handle stays in its epoch, the counter and the tips of its      *)
(* SecretTree only move forward, under the same two conditions.            *)
(***************************************************************************)
THEOREM RatchetsForward ==
    ASSUME ~MayRestart, ~MayDiscard
    PROVE  Spec => RatchetsOnlyForward
<1> DEFINE Forward(m) ==
        epoch'[m] = epoch[m] =>
            /\ ratchet'[m].generation >= ratchet[m].generation
            /\ \A k \in Members : ratchet'[m].tip[k] >= ratchet[m].tip[k]
<1>1. Init => Typed /\ Older
    BY InitTyped DEF Init, Older
<1>2. Typed /\ Older /\ [Next]_vars => Typed' /\ Older'
    BY StepTyped, StepOlder
<1>3. Typed /\ Older /\ [Next]_vars => [\A m \in Members : Forward(m)]_vars
  <2> SUFFICES ASSUME Typed, Older, Next PROVE \A m \in Members : Forward(m)
      OBVIOUS
  <2>1. \A m, k \in Members : /\ ratchet[m].generation \in Nat
                              /\ ratchet[m].tip[k] \in Int
                              /\ epoch[m] \in Nat
      BY SecretTreeAssumption DEF Typed, TypeOK, NoTip
  <2>2. ASSUME NEW m \in Members, encrypt_application_message(m)
        PROVE  \A k \in Members : Forward(k)
    <3>1. /\ ratchet'[m] = get_key_and_nonce(ratchet[m], m)
          /\ \A k \in Members \ {m} : ratchet'[k] = ratchet[k]
          /\ ratchet[m].generation >= ratchet[m].tip[m]
        BY <2>2 DEF encrypt_application_message, Derivable, Typed, TypeOK
    <3>2. /\ ratchet'[m].generation = ratchet[m].generation + 1
          /\ \A k \in Members : ratchet'[m].tip[k] >= ratchet[m].tip[k]
        BY <2>1, <3>1 DEF get_key_and_nonce, get_ratchet_secret, Typed, TypeOK
    <3> QED
        BY <2>1, <3>1, <3>2
  <2>3. ASSUME NEW m \in Members, NEW msg \in sent, decrypt_application_message(m, msg)
        PROVE  \A k \in Members : Forward(k)
    <3>1. /\ ratchet'[m] = get_ratchet_secret(ratchet[m], msg.sender, msg.generation)
          /\ \A k \in Members \ {m} : ratchet'[k] = ratchet[k]
          /\ msg.generation >= ratchet[m].tip[msg.sender]
          /\ msg.generation \in Nat
        BY <2>3 DEF decrypt_application_message, Derivable, Typed, TypeOK, Message
    <3>2. /\ ratchet'[m].generation = ratchet[m].generation
          /\ \A k \in Members :
                ratchet'[m].tip[k] = IF k = msg.sender THEN msg.generation
                                     ELSE ratchet[m].tip[k]
        BY <3>1 DEF get_ratchet_secret, Typed, TypeOK
    <3> QED
        BY <2>1, <3>1, <3>2
  <2>4. ASSUME NEW m \in Members,
               \/ \E adopt \in BOOLEAN : commit(m, adopt)
               \/ \E e \in DOMAIN made_from : process_update(m, e)
               \/ restart(m)
        PROVE  \A k \in Members : Forward(k)
    <3>1. /\ epoch' \in [Members -> 1 .. MaxEpochs]
          /\ epoch'[m] > epoch[m]
          /\ \A k \in Members \ {m} : ratchet'[k] = ratchet[k]
        BY <2>4, EpochGrows
    <3>2. epoch'[m] # epoch[m]
        BY <2>1, <3>1, SecretTreeAssumption
    <3> QED
        BY <2>1, <3>1, <3>2
  <2>5. ASSUME NEW m \in Members, save(m)
        PROVE  \A k \in Members : Forward(k)
      BY <2>1, <2>5 DEF save
  <2>6. ASSUME NEW m \in Members, NEW msg \in sent, NEW g \in 0 .. MaxMessages,
               decrypt_damaged(m, msg, g)
        PROVE  \A k \in Members : Forward(k)
    <3>1. /\ ratchet'[m] = get_ratchet_secret(ratchet[m], msg.sender, g)
          /\ \A k \in Members \ {m} : ratchet'[k] = ratchet[k]
          /\ g >= ratchet[m].tip[msg.sender]
          /\ g \in Nat
        BY <2>6 DEF decrypt_damaged, Derivable, Typed, TypeOK
    <3>2. /\ ratchet'[m].generation = ratchet[m].generation
          /\ \A k \in Members :
                ratchet'[m].tip[k] = IF k = msg.sender THEN g ELSE ratchet[m].tip[k]
        BY <3>1 DEF get_ratchet_secret, Typed, TypeOK
    <3> QED
        BY <2>1, <3>1, <3>2
  <2> QED
      BY <2>2, <2>3, <2>4, <2>5, <2>6 DEF Next
<1> QED
    BY <1>1, <1>2, <1>3, PTL DEF Spec, RatchetsOnlyForward

-----------------------------------------------------------------------------
\* The tip that a SecretTree has for a leaf is the generation of a message that
\* was encrypted or opened on it, in the present epoch.
TipWitnessed ==
    \A m, k \in Members :
        ratchet[m].tip[k] # NoTip =>
            \E msg \in PassedBy(m) :
                /\ msg.epoch = epoch[m]
                /\ msg.sender = k
                /\ msg.generation = ratchet[m].tip[k]

\* A member whose SecretTree is renewed has no tips, the others keep theirs.
LEMMA RenewWitnessed ==
    ASSUME Typed, TipWitnessed, NEW m \in Members, NEW e, Renew(m, e), sent' = sent
    PROVE  TipWitnessed'
<1>1. ASSUME NEW k \in Members PROVE ratchet'[m].tip[k] = NoTip
    BY <1>1 DEF Renew, Fresh, Typed, TypeOK
<1>2. ASSUME NEW n \in Members \ {m}
      PROVE  ratchet'[n] = ratchet[n] /\ epoch'[n] = epoch[n] /\ PassedBy(n)' = PassedBy(n)
  <2>1. ratchet'[n] = ratchet[n] /\ opened'[n] = opened[n] /\ epoch'[n] = epoch[n]
      BY <1>2 DEF Renew, Typed, TypeOK
  <2> QED
      BY <2>1 DEF PassedBy
<1> QED
    BY <1>1, <1>2 DEF TipWitnessed

LEMMA StepWitnessed ==
    ASSUME ~MayDamage, Typed, TipWitnessed, [Next]_vars
    PROVE  TipWitnessed'
<1>1. ASSUME NEW m \in Members, encrypt_application_message(m) PROVE TipWitnessed'
  <2> DEFINE new == [epoch |-> epoch[m], sender |-> m,
                     generation |-> ratchet[m].generation,
                     body |-> Cardinality(sent) + 1]
  <2>1. /\ sent' = sent \cup {new}
        /\ epoch' = epoch /\ opened' = opened
        /\ ratchet' = [ratchet EXCEPT ![m] = get_key_and_nonce(ratchet[m], m)]
      BY <1>1 DEF encrypt_application_message
  <2>2. /\ \A n \in Members \ {m} : ratchet'[n] = ratchet[n]
        /\ ratchet'[m].tip[m] = ratchet[m].generation
        /\ ratchet'[m].generation = ratchet[m].generation + 1
        /\ ratchet[m].generation \in Nat
        /\ \A k \in Members \ {m} : ratchet'[m].tip[k] = ratchet[m].tip[k]
      BY <2>1 DEF get_key_and_nonce, get_ratchet_secret, Typed, TypeOK
  <2> SUFFICES ASSUME NEW n \in Members, NEW k \in Members, ratchet'[n].tip[k] # NoTip
               PROVE  \E msg \in PassedBy(n)' :
                         /\ msg.epoch = epoch'[n]
                         /\ msg.sender = k
                         /\ msg.generation = ratchet'[n].tip[k]
      BY DEF TipWitnessed
  <2>3. CASE n = m /\ k = m
    <3>1. new \in sent' /\ new.epoch = epoch'[m] /\ new.sender = m
        BY <2>1
    <3>2. new.generation = ratchet'[m].tip[m] /\ new.generation < ratchet'[m].generation
        BY <2>2
    <3>3. new \in PassedBy(m)'
        BY <3>1, <3>2 DEF PassedBy
    <3> QED
        BY <2>3, <3>1, <3>2, <3>3
  <2>4. CASE n # m \/ k # m
    <3>1. ratchet'[n].tip[k] = ratchet[n].tip[k]
        BY <2>2, <2>4
    <3>2. PICK msg \in PassedBy(n) :
                  /\ msg.epoch = epoch[n]
                  /\ msg.sender = k
                  /\ msg.generation = ratchet[n].tip[k]
        BY <3>1 DEF TipWitnessed
    <3>3. \A old \in sent : old.generation \in Nat
        BY SentFields
    <3>4. PassedBy(n) \subseteq PassedBy(n)'
        BY <2>1, <2>2, <3>3 DEF PassedBy
    <3> QED
        BY <2>1, <3>1, <3>2, <3>4
  <2> QED
      BY <2>3, <2>4
<1>2. ASSUME NEW m \in Members, NEW msg \in sent, decrypt_application_message(m, msg)
      PROVE  TipWitnessed'
  <2>1. /\ sent' = sent /\ epoch' = epoch /\ msg.epoch = epoch[m]
        /\ opened' = [opened EXCEPT ![m] = @ \cup {msg}]
        /\ ratchet' = [ratchet EXCEPT
                         ![m] = get_ratchet_secret(@, msg.sender, msg.generation)]
      BY <1>2 DEF decrypt_application_message
  <2>2. /\ opened'[m] = opened[m] \cup {msg}
        /\ \A n \in Members \ {m} : ratchet'[n] = ratchet[n] /\ opened'[n] = opened[n]
        /\ \A k \in Members :
              ratchet'[m].tip[k] = IF k = msg.sender THEN msg.generation
                                   ELSE ratchet[m].tip[k]
        /\ ratchet'[m].generation = ratchet[m].generation
      BY <2>1 DEF get_ratchet_secret, Typed, TypeOK
  <2>3. /\ PassedBy(m)' = PassedBy(m) \cup {msg}
        /\ \A n \in Members \ {m} : PassedBy(n)' = PassedBy(n)
      BY <2>1, <2>2 DEF PassedBy
  <2> QED
      BY <2>1, <2>2, <2>3 DEF TipWitnessed
<1>3. ASSUME NEW m \in Members,
             \/ \E adopt \in BOOLEAN : commit(m, adopt)
             \/ \E e \in DOMAIN made_from : process_update(m, e)
             \/ restart(m)
      PROVE  TipWitnessed'
    BY <1>3, RenewWitnessed DEF commit, process_update, restart
<1>4. CASE UNCHANGED <<epoch, ratchet, sent, opened>>
    BY <1>4 DEF TipWitnessed, PassedBy
<1> QED
    BY <1>1, <1>2, <1>3, <1>4 DEF Next, vars, save, decrypt_damaged

(***************************************************************************)
(* A message of the present epoch becomes unreadable only by being         *)
(* overtaken on this SecretTree, restarts and discarded commits included,  *)
(* as long as no message arrives damaged: a damaged one moves a tip to a   *)
(* generation that was never opened.                                       *)
(***************************************************************************)
THEOREM NothingElseIsLost ==
    ASSUME ~MayDamage
    PROVE  Spec => []LostOnlyIfOvertaken
<1>1. Init => Typed /\ TipWitnessed
    BY InitTyped DEF Init, Fresh, TipWitnessed
<1>2. Typed /\ TipWitnessed /\ [Next]_vars => Typed' /\ TipWitnessed'
    BY StepTyped, StepWitnessed
<1>3. Typed /\ TipWitnessed => LostOnlyIfOvertaken
  <2> SUFFICES ASSUME Typed, TipWitnessed, NEW m \in Members, NEW msg \in sent,
                      msg.epoch = epoch[m],
                      ~Derivable(ratchet[m], msg.sender, msg.generation)
               PROVE  \E later \in PassedBy(m) :
                         /\ later.epoch = msg.epoch
                         /\ later.sender = msg.sender
                         /\ later.generation > msg.generation
      BY DEF LostOnlyIfOvertaken
  <2>1. msg.sender \in Members /\ msg.generation \in Nat
      BY DEF Typed, TypeOK, Message
  <2>2. ratchet[m].tip[msg.sender] \in Nat \cup {NoTip}
      BY <2>1 DEF Typed, TypeOK
  <2>3. ratchet[m].tip[msg.sender] > msg.generation /\ ratchet[m].tip[msg.sender] # NoTip
      BY <2>1, <2>2 DEF Derivable, NoTip
  <2> QED
      BY <2>1, <2>3 DEF TipWitnessed
<1> QED
    BY <1>1, <1>2, <1>3, PTL DEF Spec

-----------------------------------------------------------------------------
\* The tip of a handle's own leaf stays behind its counter.
OwnTipBehind == \A m \in Members : ratchet[m].tip[m] <= ratchet[m].generation

LEMMA StepBehind ==
    ASSUME ~MayRestart, ~MayDiscard, ~MayDamage, SendInv, OwnTipBehind, [Next]_vars
    PROVE  OwnTipBehind'
<1>1. \A m, k \in Members : /\ ratchet[m].generation \in Nat
                            /\ ratchet[m].tip[k] \in Int
    BY DEF SendInv, Typed, TypeOK, NoTip
<1>2. ASSUME NEW m \in Members, encrypt_application_message(m) PROVE OwnTipBehind'
  <2>1. /\ \A n \in Members \ {m} : ratchet'[n] = ratchet[n]
        /\ ratchet'[m].tip[m] = ratchet[m].generation
        /\ ratchet'[m].generation = ratchet[m].generation + 1
      BY <1>2 DEF encrypt_application_message, get_key_and_nonce, get_ratchet_secret,
                  SendInv, Typed, TypeOK
  <2> QED
      BY <1>1, <2>1 DEF OwnTipBehind
<1>3. ASSUME NEW m \in Members, NEW msg \in sent, decrypt_application_message(m, msg)
      PROVE  OwnTipBehind'
  <2>1. /\ \A n \in Members \ {m} : ratchet'[n] = ratchet[n]
        /\ ratchet'[m].generation = ratchet[m].generation
        /\ ratchet'[m].tip[m] = IF m = msg.sender THEN msg.generation
                                ELSE ratchet[m].tip[m]
        /\ msg.epoch = epoch[m]
      BY <1>3 DEF decrypt_application_message, get_ratchet_secret, SendInv, Typed, TypeOK
  <2>2. msg.generation \in Nat
      BY SentFields DEF SendInv
  <2>3. m = msg.sender => msg.generation < ratchet[m].generation
      BY <2>1 DEF SendInv, CounterAhead
  <2> QED
      BY <1>1, <2>1, <2>2, <2>3 DEF OwnTipBehind
<1>4. ASSUME NEW m \in Members, NEW e, Renew(m, e) PROVE OwnTipBehind'
  <2>1. /\ ratchet'[m] = Fresh
        /\ \A n \in Members \ {m} : ratchet'[n] = ratchet[n]
      BY <1>4 DEF Renew, SendInv, Typed, TypeOK
  <2>2. Fresh.tip[m] <= Fresh.generation
      BY DEF Fresh, NoTip
  <2> QED
      BY <2>1, <2>2 DEF OwnTipBehind
<1>5. CASE UNCHANGED ratchet
    BY <1>5 DEF OwnTipBehind
<1> QED
    BY <1>2, <1>3, <1>4, <1>5 DEF Next, vars, save, decrypt_damaged, commit,
       process_update, restart

(***************************************************************************)
(* A member can always encrypt: opening its own messages, which            *)
(* decrypt_application_message allows, never takes the tip of its leaf     *)
(* past its counter.  A restored or a discarded handle can open what it no *)
(* longer knows it sent, and a damaged message can name any generation.    *)
(***************************************************************************)
THEOREM CanAlwaysSend ==
    ASSUME ~MayRestart, ~MayDiscard, ~MayDamage
    PROVE  Spec => []SenderNotStuck
<1>1. Init => SendInv /\ OwnTipBehind
  <2> SUFFICES ASSUME Init
               PROVE  Older /\ CounterAhead /\ KeyAndNonceUsedOnce /\ OwnTipBehind
      BY InitTyped DEF SendInv
  <2> QED
      BY DEF Init, Fresh, NoTip, Older, CounterAhead, KeyAndNonceUsedOnce, OwnTipBehind
<1>2. SendInv /\ OwnTipBehind /\ [Next]_vars => SendInv' /\ OwnTipBehind'
    BY StepSendInv, StepBehind
<1>3. SendInv /\ OwnTipBehind => SenderNotStuck
  <2> SUFFICES ASSUME SendInv, OwnTipBehind, NEW m \in Members
               PROVE  ratchet[m].generation >= ratchet[m].tip[m]
      BY DEF SenderNotStuck, Derivable
  <2>1. ratchet[m].generation \in Nat /\ ratchet[m].tip[m] \in Int
      BY DEF SendInv, Typed, TypeOK, NoTip
  <2> QED
      BY <2>1 DEF OwnTipBehind
<1> QED
    BY <1>1, <1>2, <1>3, PTL DEF Spec
-----------------------------------------------------------------------------
\* The tip of a handle's own leaf is behind its counter, or is where a message
\* of its own that it opened has taken it.
OwnTipKnown ==
    \A m \in Members :
        \/ ratchet[m].tip[m] < ratchet[m].generation
        \/ \E msg \in opened[m] : msg.sender = m /\ msg.generation = ratchet[m].tip[m]

LEMMA StepKnown ==
    ASSUME ~MayDamage, Typed, OwnTipKnown, [Next]_vars
    PROVE  OwnTipKnown'
<1>1. \A m \in Members : ratchet[m].generation \in Nat
    BY DEF Typed, TypeOK
<1>2. ASSUME NEW m \in Members, encrypt_application_message(m) PROVE OwnTipKnown'
  <2>1. /\ \A n \in Members \ {m} : ratchet'[n] = ratchet[n]
        /\ ratchet'[m].tip[m] = ratchet[m].generation
        /\ ratchet'[m].generation = ratchet[m].generation + 1
        /\ opened' = opened
      BY <1>2 DEF encrypt_application_message, get_key_and_nonce, get_ratchet_secret,
                  Typed, TypeOK
  <2> QED
      BY <1>1, <2>1 DEF OwnTipKnown
<1>3. ASSUME NEW m \in Members, NEW msg \in sent, decrypt_application_message(m, msg)
      PROVE  OwnTipKnown'
  <2>1. /\ \A n \in Members \ {m} : ratchet'[n] = ratchet[n] /\ opened'[n] = opened[n]
        /\ ratchet'[m].generation = ratchet[m].generation
        /\ ratchet'[m].tip[m] = IF m = msg.sender THEN msg.generation
                                ELSE ratchet[m].tip[m]
        /\ opened'[m] = opened[m] \cup {msg}
      BY <1>3 DEF decrypt_application_message, get_ratchet_secret, Typed, TypeOK
  <2> QED
      BY <2>1 DEF OwnTipKnown
<1>4. ASSUME NEW m \in Members, NEW e, Renew(m, e) PROVE OwnTipKnown'
  <2>1. /\ ratchet'[m] = Fresh
        /\ \A n \in Members \ {m} : ratchet'[n] = ratchet[n] /\ opened'[n] = opened[n]
      BY <1>4 DEF Renew, Typed, TypeOK
  <2>2. Fresh.tip[m] < Fresh.generation
      BY DEF Fresh, NoTip
  <2> QED
      BY <2>1, <2>2 DEF OwnTipKnown
<1>5. CASE UNCHANGED <<ratchet, opened>>
    BY <1>5 DEF OwnTipKnown
<1> QED
    BY <1>2, <1>3, <1>4, <1>5 DEF Next, vars, save, decrypt_damaged, commit,
       process_update, restart

(***************************************************************************)
(* With restarts and discarded commits a member fails to encrypt only      *)
(* after it has opened a message of its own that it does not know it sent. *)
(***************************************************************************)
THEOREM OnlyOwnPastBlocks ==
    ASSUME ~MayDamage
    PROVE  Spec => []StuckOnlyByOwnPast
<1>1. Init => Typed /\ OwnTipKnown
    BY InitTyped DEF Init, Fresh, NoTip, OwnTipKnown
<1>2. Typed /\ OwnTipKnown /\ [Next]_vars => Typed' /\ OwnTipKnown'
    BY StepTyped, StepKnown
<1>3. Typed /\ OwnTipKnown => StuckOnlyByOwnPast
  <2> SUFFICES ASSUME Typed, OwnTipKnown, NEW m \in Members,
                      ~Derivable(ratchet[m], m, ratchet[m].generation)
               PROVE  \E msg \in opened[m] :
                         msg.sender = m /\ msg.generation > ratchet[m].generation
      BY DEF StuckOnlyByOwnPast
  <2>1. ratchet[m].generation \in Nat /\ ratchet[m].tip[m] \in Int
      BY DEF Typed, TypeOK, NoTip
  <2>2. ratchet[m].tip[m] > ratchet[m].generation
      BY <2>1 DEF Derivable
  <2>3. PICK msg \in opened[m] : msg.sender = m /\ msg.generation = ratchet[m].tip[m]
      BY <2>1, <2>2 DEF OwnTipKnown
  <2> QED
      BY <2>2, <2>3
<1> QED
    BY <1>1, <1>2, <1>3, PTL DEF Spec
=============================================================================

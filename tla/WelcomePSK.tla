----------------------------- MODULE WelcomePSK -----------------------------
(***************************************************************************)
(* Joining with pre-shared keys: the second and third step of              *)
(* MLSGroup.join and the end of it, with _psk_secret and the derivations   *)
(* of keyschedule.py.                                                      *)
(*                                                                         *)
(* add_member of this library names no PSKs in a Welcome; other            *)
(* implementations do.  The application of the joiner collects PSKs over   *)
(* time, some with a value that is out of date, and joins with the list it *)
(* has.  Secrets are the terms they are computed from.                     *)
(***************************************************************************)
EXTENDS Naturals, Sequences, FiniteSets

CONSTANTS External,     \* PSKs that the application names by psk_id
          Resumption,   \* PSKs that are named by group and epoch
          MaxPSKs,      \* bound: PSKs in a Welcome
          MaxHeld,      \* bound: PSKs in the application's list
          MaxWelcomes   \* bound: Welcomes

ASSUME BoundsAssumption ==
    /\ MaxPSKs \in Nat /\ MaxHeld \in Nat /\ MaxWelcomes \in Nat
    /\ External \cap Resumption = {}
    /\ "empty" \notin External

PSK == External \cup Resumption

\* Current(p) is the value that the group uses for PSK p.
Current(p) == <<p, "current">>
OutOfDate(p) == <<p, "out of date">>

VARIABLES welcomes,  \* the Welcomes that arrived, in order
          psk_list,  \* the application's list of PSKs and their values
          joined,    \* the joins that succeeded: the Welcome and the list then
          refused    \* the joins that raised: the Welcome and the list then

vars == <<welcomes, psk_list, joined, refused>>

-----------------------------------------------------------------------------

\* PreSharedKeyID: the nonce is new in every Welcome, the n-th draws n.
PreSharedKeyID(p, nonce) == [psk |-> p, nonce |-> nonce]

\* The field psk_id, which from_bytes_at leaves empty for a resumption PSK.
psk_id(p) == IF p \in External THEN p ELSE "empty"

\* _psk_secret: the chain of the values, each with its identifier, index and
\* count; zeros for no PSK.
Zeros == <<>>
psk_secret(list) == [i \in 1 .. Len(list) |-> [id |-> list[i][1], value |-> list[i][2],
                                               index |-> i - 1, count |-> Len(list)]]

derive_welcome_key(joiner_secret, secret) == [joiner |-> joiner_secret, psk |-> secret]

\* intermediate and epoch_secret of _derive_epoch_secret and of join.
epoch_secret(joiner_secret, secret) == <<"epoch", joiner_secret, secret>>

Init ==
    /\ welcomes = <<>>
    /\ psk_list = <<>>
    /\ joined = {}
    /\ refused = {}

\* Another implementation adds the client, with the PSKs ps.  It encrypts the
\* GroupInfo under the key of the PSKs, or, the variant that trial 2 of join
\* is for, under the key of zeros; the epoch secret has the PSKs in it.
add_member ==
    /\ Len(welcomes) < MaxWelcomes
    /\ \E n \in 0 .. MaxPSKs : \E ps \in [1 .. n -> PSK] : \E compliant \in BOOLEAN :
         LET nonce  == Len(welcomes) + 1
             ids    == [i \in 1 .. n |-> PreSharedKeyID(ps[i], nonce)]
             secret == psk_secret([i \in 1 .. n |-> <<ids[i], Current(ps[i])>>])
         IN  welcomes' = Append(welcomes,
                [joiner_secret |-> nonce, psks |-> ids,
                 group_info_key |-> derive_welcome_key(nonce, IF compliant THEN secret ELSE Zeros),
                 confirmation_tag |-> epoch_secret(nonce, secret)])
    /\ UNCHANGED <<psk_list, joined, refused>>

\* The application learns a PSK.
obtain ==
    /\ Len(psk_list) < MaxHeld
    /\ \E p \in PSK : \E v \in {Current(p), OutOfDate(p)} :
         psk_list' = Append(psk_list, <<p, v>>)
    /\ UNCHANGED <<welcomes, joined, refused>>

-----------------------------------------------------------------------------

\* The dictionary psk_map: of two PSKs with one psk_id the later one counts.
InMap(list, id) == {i \in DOMAIN list : psk_id(list[i][1]) = id}
psk_map(list, id) ==
    list[CHOOSE i \in InMap(list, id) : \A j \in InMap(list, id) : j <= i][2]

\* Every PSK of the Welcome must be in the list.
Resolvable(w, list) == \A i \in DOMAIN w.psks : InMap(list, psk_id(w.psks[i].psk)) # {}

\* Mutant of resolved_psk_list: the nonces are those of the list.
resolved_psk_listOwnNonce(w, list) ==
    [i \in DOMAIN w.psks |-> <<PreSharedKeyID(w.psks[i].psk, 0),
                               psk_map(list, psk_id(w.psks[i].psk))>>]

\* The identifiers with their nonces are those of the Welcome.
resolved_psk_list(w, list) ==
    [i \in DOMAIN w.psks |-> <<w.psks[i], psk_map(list, psk_id(w.psks[i].psk))>>]

\* Trial 1 and trial 2.
GroupInfoOpens(w, secret) ==
    w.group_info_key \in {derive_welcome_key(w.joiner_secret, secret),
                          derive_welcome_key(w.joiner_secret, Zeros)}

\* Mutant of Confirmed: the tag is not compared.
ConfirmedBlindly(w, secret) == TRUE

Confirmed(w, secret) == epoch_secret(w.joiner_secret, secret) = w.confirmation_tag

\* The rest of join has the same outcome with and without PSKs; it is part of
\* MLSGroup.
join ==
    /\ \E n \in DOMAIN welcomes :
         LET w      == welcomes[n]
             secret == psk_secret(resolved_psk_list(w, psk_list))
             tried  == [welcome |-> n, list |-> psk_list]
         IN  IF Resolvable(w, psk_list) /\ GroupInfoOpens(w, secret) /\ Confirmed(w, secret)
             THEN joined' = joined \cup {tried} /\ UNCHANGED refused
             ELSE refused' = refused \cup {tried} /\ UNCHANGED joined
    /\ UNCHANGED <<welcomes, psk_list>>

Next == add_member \/ obtain \/ join

Spec == Init /\ [][Next]_vars

-----------------------------------------------------------------------------

\* The PSKs that the Welcome of a join names.
Required(j) == {welcomes[j.welcome].psks[i].psk : i \in DOMAIN welcomes[j.welcome].psks}

\* Nobody gets in without the current value of every PSK that the Welcome
\* names: not by the second trial, which opens the GroupInfo without any, and
\* not by a value that is out of date or that is another PSK's under the same
\* psk_id.
JoinersHold ==
    \A j \in joined : \A p \in Required(j) :
        \E i \in DOMAIN j.list : j.list[i] = <<p, Current(p)>>

\* The list holds the current value of p and no other for it.
Holds(list, p) ==
    /\ \E i \in DOMAIN list : list[i] = <<p, Current(p)>>
    /\ \A i \in DOMAIN list : list[i][1] = p => list[i][2] = Current(p)

\* A resumption PSK that was learned after p is in its place in psk_map.
Shadowed(list, p) ==
    /\ p \in Resumption
    /\ \E k \in DOMAIN list :
          /\ list[k][1] \in Resumption \ {p}
          /\ \A i \in DOMAIN list : list[i][1] = p => i < k

\* join matches the application's PSKs with those the Welcome names: a client
\* that has the value of each of them and no older one, in whatever order it
\* learned them and whatever others it has, is turned away only because of two
\* resumption PSKs, which have the same empty psk_id.
HoldersJoin ==
    \A r \in refused :
        \E p \in Required(r) : ~ Holds(r.list, p) \/ Shadowed(r.list, p)

\* What join's comment says of its step 2: the PSKs it was given are matched
\* with the identifiers in the GroupSecrets, so the value of each is found.
EveryHolderJoins == \A r \in refused : \E p \in Required(r) : ~ Holds(r.list, p)
=============================================================================

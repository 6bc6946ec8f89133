-------------------------- MODULE WelcomePSKProofs --------------------------
(***************************************************************************)
(* Proofs about joining with pre-shared keys, for any PSKs, any Welcomes   *)
(* and any list of the application: nobody joins without the values, and   *)
(* one that has them is refused only for two resumption PSKs.              *)
(*                                                                         *)
(* The invariant says of what the group's secret in a Welcome was made     *)
(* (Meant) and what the application's list has in it.  The step is join.   *)
(* A chain of secrets that equals the group's has the group's value in     *)
(* every place, and a value is in the list only under its own PSK.  Where  *)
(* the list holds the PSKs of the Welcome, and none of them is shadowed,   *)
(* the name of each leads to its current value, so the chain that join     *)
(* computes is the group's.                                                *)
(***************************************************************************)
EXTENDS WelcomePSK, NaturalsInduction, WellFoundedInduction, TLAPS

Values == {<<p, Current(p)>> : p \in PSK} \cup {<<p, OutOfDate(p)>> : p \in PSK}

MeantSecret(w) == psk_secret([i \in DOMAIN w.psks |-> <<w.psks[i], Current(w.psks[i].psk)>>])

Meant(w) ==
    /\ \E n \in Nat : DOMAIN w.psks = 1 .. n
    /\ \A i \in DOMAIN w.psks : w.psks[i].psk \in PSK
    /\ w.group_info_key \in {derive_welcome_key(w.joiner_secret, MeantSecret(w)),
                             derive_welcome_key(w.joiner_secret, Zeros)}
    /\ w.confirmation_tag = epoch_secret(w.joiner_secret, MeantSecret(w))

\* The inductive invariant of JoinersHold and HoldersJoin.
PSKInv ==
    /\ \E S : welcomes \in Seq(S)
    /\ \A n \in DOMAIN welcomes : Meant(welcomes[n])
    /\ psk_list \in Seq(Values)
    /\ \A t \in joined \cup refused : t.welcome \in DOMAIN welcomes
    /\ JoinersHold
    /\ HoldersJoin

-----------------------------------------------------------------------------
(* The lookup in psk_map *)

LEMMA GreatestIndex ==
    ASSUME NEW n \in Nat, NEW S \in SUBSET (1 .. n), S # {}
    PROVE  \E i \in S : \A j \in S : j <= i
<1> DEFINE T == {n - i : i \in S}
<1>1. T \in SUBSET Nat /\ T # {}
  <2>1. \A i \in S : n - i \in Nat
      OBVIOUS
  <2>2. PICK i \in S : TRUE
      OBVIOUS
  <2>3. n - i \in T
      OBVIOUS
  <2> QED
      BY <2>1, <2>3
<1> HIDE DEF T
<1>2. PICK x \in T : \A y \in T : <<y, x>> \notin OpToRel(<, Nat)
    BY <1>1, WFMin, NatLessThanWellFounded, Zenon
<1>3. \A y \in T : ~ (y < x)
    BY <1>1, <1>2, Zenon DEF OpToRel
<1>4. PICK i \in S : x = n - i
    BY DEF T
<1>5. ASSUME NEW j \in S PROVE j <= i
  <2>1. n - j \in T
      BY DEF T
  <2>2. ~ (n - j < n - i)
      BY <1>3, <1>4, <2>1
  <2> QED
      BY <2>2
<1> QED
    BY <1>5

\* The place in the list that a name leads to.
LEMMA LatestInMap ==
    ASSUME NEW list \in Seq(Values), NEW id, InMap(list, id) # {}
    PROVE  \E k \in InMap(list, id) :
              /\ psk_map(list, id) = list[k][2]
              /\ \A j \in InMap(list, id) : j <= k
<1> DEFINE M == InMap(list, id)
           k == CHOOSE i \in M : \A j \in M : j <= i
<1>1. DOMAIN list = 1 .. Len(list) /\ Len(list) \in Nat
    OBVIOUS
<1>2. M \in SUBSET (1 .. Len(list)) /\ M # {}
    BY <1>1 DEF InMap
<1>3. psk_map(list, id) = list[k][2]
    BY DEF psk_map
<1> HIDE DEF M
<1>4. \E i \in M : \A j \in M : j <= i
    BY <1>1, <1>2, GreatestIndex
<1>5. k \in M /\ \A j \in M : j <= k
    BY <1>4
<1> QED
    BY <1>3, <1>5 DEF M

\* Two PSKs have the same name only if they are resumption PSKs.
LEMMA NamesDiffer ==
    ASSUME NEW p \in PSK, NEW q \in PSK, psk_id(p) = psk_id(q), p # q
    PROVE  p \in Resumption /\ q \in Resumption
BY BoundsAssumption DEF psk_id, PSK

\* The name of a PSK that the list holds leads to its current value, unless it
\* is shadowed.
LEMMA HeldIsFound ==
    ASSUME NEW list \in Seq(Values), NEW p \in PSK, Holds(list, p), ~Shadowed(list, p)
    PROVE  InMap(list, psk_id(p)) # {} /\ psk_map(list, psk_id(p)) = Current(p)
<1> DEFINE M == InMap(list, psk_id(p))
<1>1. M # {}
    BY DEF InMap, Holds
<1>2. PICK k \in M : psk_map(list, psk_id(p)) = list[k][2] /\ \A j \in M : j <= k
    BY <1>1, LatestInMap
<1>3. k \in DOMAIN list /\ psk_id(list[k][1]) = psk_id(p) /\ list[k][1] \in PSK
    BY DEF InMap, Values
<1>4. list[k][1] = p
  <2> SUFFICES ASSUME list[k][1] # p PROVE FALSE
      OBVIOUS
  <2>1. p \in Resumption /\ list[k][1] \in Resumption \ {p}
      BY <1>3, NamesDiffer
  <2>2. ASSUME NEW i \in DOMAIN list, list[i][1] = p PROVE i < k
    <3>1. i \in M /\ i # k
        BY <2>2 DEF InMap
    <3>2. i \in Nat /\ k \in Nat /\ i <= k
        BY <1>2, <1>3, <3>1
    <3> QED
        BY <3>1, <3>2
  <2> QED
      BY <1>3, <2>1, <2>2 DEF Shadowed
<1> QED
    BY <1>1, <1>2, <1>3, <1>4 DEF Holds

\* A current value is in the list only under its own PSK.
LEMMA FoundIsHeld ==
    ASSUME NEW list \in Seq(Values), NEW p \in PSK, InMap(list, psk_id(p)) # {},
           psk_map(list, psk_id(p)) = Current(p)
    PROVE  \E i \in DOMAIN list : list[i] = <<p, Current(p)>>
<1>1. PICK k \in InMap(list, psk_id(p)) : psk_map(list, psk_id(p)) = list[k][2]
    BY LatestInMap
<1>2. k \in DOMAIN list /\ list[k] \in Values
    BY DEF InMap
<1>3. PICK q \in PSK : list[k] = <<q, Current(q)>> \/ list[k] = <<q, OutOfDate(q)>>
    BY <1>2 DEF Values
<1>c. list[k][2] = <<p, "current">>
    BY <1>1 DEF Current
<1>4. list[k] = <<p, Current(p)>>
  <2>1. CASE list[k] = <<q, Current(q)>>
    <3>1. <<q, "current">> = <<p, "current">>
        BY <1>c, <2>1 DEF Current
    <3>2. q = p
        BY <3>1
    <3> QED
        BY <2>1, <3>2
  <2>2. CASE list[k] = <<q, OutOfDate(q)>>
    <3>1. list[k][2] = OutOfDate(q)
        BY <2>2
    <3>2. Current(p) = OutOfDate(q)
        BY <1>1, <3>1
    <3>3. Current(p)[2] = "current" /\ OutOfDate(q)[2] = "out of date"
        BY DEF Current, OutOfDate
    <3> QED
        BY <3>2, <3>3
  <2> QED
      BY <1>3, <2>1, <2>2
<1> QED
    BY <1>2, <1>4

-----------------------------------------------------------------------------
(* The checks of join *)

\* A chain is as long as what it was made of and has its values in order.
LEMMA ChainHas ==
    ASSUME NEW n \in Nat, NEW list, DOMAIN list = 1 .. n, list = [i \in 1 .. n |-> list[i]]
    PROVE  /\ DOMAIN psk_secret(list) = 1 .. n
           /\ \A i \in 1 .. n : psk_secret(list)[i].value = list[i][2]
<1> DEFINE S == {list[i] : i \in 1 .. n}
<1>1. list \in [1 .. n -> S]
    OBVIOUS
<1> HIDE DEF S
<1>2. list \in Seq(S) /\ Len(list) = n
    BY <1>1
<1> QED
    BY <1>2 DEF psk_secret

LEMMA JoinerHolds ==
    ASSUME NEW w, Meant(w), NEW list \in Seq(Values), Resolvable(w, list),
           Confirmed(w, psk_secret(resolved_psk_list(w, list))), NEW i \in DOMAIN w.psks
    PROVE  \E k \in DOMAIN list : list[k] = <<w.psks[i].psk, Current(w.psks[i].psk)>>
<1> DEFINE mine  == resolved_psk_list(w, list)
           group == [j \in DOMAIN w.psks |-> <<w.psks[j], Current(w.psks[j].psk)>>]
           p     == w.psks[i].psk
<1>1. PICK n \in Nat : DOMAIN w.psks = 1 .. n
    BY DEF Meant
<1>2. /\ DOMAIN mine = 1 .. n /\ mine = [j \in 1 .. n |-> mine[j]]
      /\ mine[i][2] = psk_map(list, psk_id(p))
    BY <1>1 DEF resolved_psk_list
<1>3. DOMAIN group = 1 .. n /\ group = [j \in 1 .. n |-> group[j]] /\ group[i][2] = Current(p)
    BY <1>1
<1>4. MeantSecret(w) = psk_secret(group)
    BY DEF MeantSecret
<1>5. psk_secret(mine) = MeantSecret(w)
    BY DEF Confirmed, Meant, epoch_secret
<1> HIDE DEF mine, group
<1>6. psk_secret(mine)[i].value = mine[i][2] /\ psk_secret(group)[i].value = group[i][2]
    BY <1>1, <1>2, <1>3, ChainHas
<1>7. psk_map(list, psk_id(p)) = Current(p)
    BY <1>2, <1>3, <1>4, <1>5, <1>6
<1>8. p \in PSK /\ InMap(list, psk_id(p)) # {}
    BY DEF Meant, Resolvable
<1> QED
    BY <1>7, <1>8, FoundIsHeld

LEMMA HolderGetsIn ==
    ASSUME NEW w, Meant(w), NEW list \in Seq(Values),
           \A i \in DOMAIN w.psks : Holds(list, w.psks[i].psk) /\ ~Shadowed(list, w.psks[i].psk)
    PROVE  LET secret == psk_secret(resolved_psk_list(w, list))
           IN  Resolvable(w, list) /\ GroupInfoOpens(w, secret) /\ Confirmed(w, secret)
<1>1. \A i \in DOMAIN w.psks :
         /\ InMap(list, psk_id(w.psks[i].psk)) # {}
         /\ psk_map(list, psk_id(w.psks[i].psk)) = Current(w.psks[i].psk)
    BY HeldIsFound DEF Meant
<1>2. resolved_psk_list(w, list) = [i \in DOMAIN w.psks |-> <<w.psks[i], Current(w.psks[i].psk)>>]
    BY <1>1 DEF resolved_psk_list
<1>3. psk_secret(resolved_psk_list(w, list)) = MeantSecret(w)
    BY <1>2 DEF MeantSecret
<1>4. Resolvable(w, list)
    BY <1>1 DEF Resolvable
<1>5. GroupInfoOpens(w, MeantSecret(w)) /\ Confirmed(w, MeantSecret(w))
    BY DEF Meant, GroupInfoOpens, Confirmed
<1> QED
    BY <1>3, <1>4, <1>5

\* What add_member puts into a Welcome.
LEMMA WelcomeMeant ==
    ASSUME NEW n \in Nat, NEW ps \in [1 .. n -> PSK], NEW nonce, NEW compliant \in BOOLEAN,
           NEW ids, ids = [i \in 1 .. n |-> PreSharedKeyID(ps[i], nonce)],
           NEW secret, secret = psk_secret([i \in 1 .. n |-> <<ids[i], Current(ps[i])>>]),
           NEW w, w = [joiner_secret |-> nonce, psks |-> ids,
                       group_info_key |-> derive_welcome_key(nonce, IF compliant THEN secret ELSE Zeros),
                       confirmation_tag |-> epoch_secret(nonce, secret)]
    PROVE  Meant(w)
<1>1. /\ w.joiner_secret = nonce /\ w.psks = ids
      /\ w.group_info_key = derive_welcome_key(nonce, IF compliant THEN secret ELSE Zeros)
      /\ w.confirmation_tag = epoch_secret(nonce, secret)
    OBVIOUS
<1>2. DOMAIN ids = 1 .. n /\ \A i \in 1 .. n : ids[i].psk = ps[i] /\ ps[i] \in PSK
    BY DEF PreSharedKeyID
<1>3. [i \in DOMAIN ids |-> <<ids[i], Current(ids[i].psk)>>] = [i \in 1 .. n |-> <<ids[i], Current(ps[i])>>]
    BY <1>2
<1>4. MeantSecret(w) = secret
    BY <1>1, <1>3 DEF MeantSecret
<1> QED
    BY <1>1, <1>2, <1>4 DEF Meant

LEMMA StepPSKInv == PSKInv /\ [Next]_vars => PSKInv'
<1> SUFFICES ASSUME PSKInv, [Next]_vars PROVE PSKInv'
    OBVIOUS
<1>1. CASE add_member
  <2>1. PICK k \in 0 .. MaxPSKs : \E ps \in [1 .. k -> PSK] : \E compliant \in BOOLEAN :
         LET nonce  == Len(welcomes) + 1
             ids    == [i \in 1 .. k |-> PreSharedKeyID(ps[i], nonce)]
             secret == psk_secret([i \in 1 .. k |-> <<ids[i], Current(ps[i])>>])
         IN  welcomes' = Append(welcomes,
                [joiner_secret |-> nonce, psks |-> ids,
                 group_info_key |-> derive_welcome_key(nonce, IF compliant THEN secret ELSE Zeros),
                 confirmation_tag |-> epoch_secret(nonce, secret)])
      BY <1>1 DEF add_member
  <2>2. PICK w : Meant(w) /\ welcomes' = Append(welcomes, w)
    <3>1. k \in Nat
        BY BoundsAssumption
    <3> QED
        BY <2>1, <3>1, WelcomeMeant
  <2>3. UNCHANGED <<psk_list, joined, refused>>
      BY <1>1 DEF add_member
  <2>4. PICK S : welcomes \in Seq(S)
      BY DEF PSKInv
  <2>5. welcomes \in Seq(S \cup {w}) /\ w \in S \cup {w}
      BY <2>4
  <2>6. /\ welcomes' \in Seq(S \cup {w})
        /\ \A n \in DOMAIN welcomes : n \in DOMAIN welcomes' /\ welcomes'[n] = welcomes[n]
        /\ \A n \in DOMAIN welcomes' : n \in DOMAIN welcomes \/ welcomes'[n] = w
      BY <2>2, <2>5
  <2>7. \A n \in DOMAIN welcomes' : Meant(welcomes'[n])
      BY <2>2, <2>6 DEF PSKInv
  <2>8. \A t \in joined \cup refused : Required(t)' = Required(t)
      BY <2>6 DEF PSKInv, Required
  <2>9. JoinersHold' /\ HoldersJoin'
      BY <2>3, <2>8 DEF PSKInv, JoinersHold, HoldersJoin
  <2> QED
      BY <2>3, <2>6, <2>7, <2>9 DEF PSKInv
<1>2. CASE obtain
  <2>1. PICK p \in PSK : \E v \in {Current(p), OutOfDate(p)} : psk_list' = Append(psk_list, <<p, v>>)
      BY <1>2 DEF obtain
  <2>2. psk_list' \in Seq(Values)
    <3>1. PICK c \in Values : psk_list' = Append(psk_list, c)
        BY <2>1 DEF Values
    <3> QED
        BY <3>1 DEF PSKInv
  <2>3. UNCHANGED <<welcomes, joined, refused>>
      BY <1>2 DEF obtain
  <2>4. \A t : Required(t)' = Required(t)
      BY <2>3 DEF Required
  <2> QED
      BY <2>2, <2>3, <2>4 DEF PSKInv, JoinersHold, HoldersJoin
<1>3. CASE join
  <2>1. UNCHANGED <<welcomes, psk_list>>
      BY <1>3 DEF join
  <2>2. PICK n \in DOMAIN welcomes :
           LET w      == welcomes[n]
               secret == psk_secret(resolved_psk_list(w, psk_list))
               tried  == [welcome |-> n, list |-> psk_list]
           IN  IF Resolvable(w, psk_list) /\ GroupInfoOpens(w, secret) /\ Confirmed(w, secret)
               THEN joined' = joined \cup {tried} /\ refused' = refused
               ELSE refused' = refused \cup {tried} /\ joined' = joined
      BY <1>3 DEF join
  <2> DEFINE w     == welcomes[n]
             tried == [welcome |-> n, list |-> psk_list]
             In    == LET secret == psk_secret(resolved_psk_list(w, psk_list))
                      IN  Resolvable(w, psk_list) /\ GroupInfoOpens(w, secret) /\ Confirmed(w, secret)
  <2>3. /\ tried.welcome = n /\ tried.list = psk_list /\ Meant(w) /\ psk_list \in Seq(Values)
        /\ Required(tried) = {w.psks[i].psk : i \in DOMAIN w.psks}
      BY DEF PSKInv, Required
  <2>4. \A t : Required(t)' = Required(t)
      BY <2>1 DEF Required
  <2>5. CASE In
    <3>1. joined' = joined \cup {tried} /\ refused' = refused
        BY <2>2, <2>5
    <3>2. \A p \in Required(tried) : \E k \in DOMAIN psk_list : psk_list[k] = <<p, Current(p)>>
        BY <2>3, <2>5, JoinerHolds
    <3> HIDE DEF tried
    <3>3. JoinersHold'
        BY <2>3, <2>4, <3>1, <3>2 DEF PSKInv, JoinersHold
    <3>4. HoldersJoin'
        BY <2>4, <3>1 DEF PSKInv, HoldersJoin
    <3> QED
        BY <2>1, <2>3, <3>1, <3>3, <3>4 DEF PSKInv
  <2>6. CASE ~In
    <3>1. refused' = refused \cup {tried} /\ joined' = joined
        BY <2>2, <2>6
    <3>2. \E p \in Required(tried) : ~Holds(psk_list, p) \/ Shadowed(psk_list, p)
        BY <2>3, <2>6, HolderGetsIn
    <3> HIDE DEF tried
    <3>3. HoldersJoin'
        BY <2>3, <2>4, <3>1, <3>2 DEF PSKInv, HoldersJoin
    <3>4. JoinersHold'
        BY <2>4, <3>1 DEF PSKInv, JoinersHold
    <3> QED
        BY <2>1, <2>3, <3>1, <3>3, <3>4 DEF PSKInv
  <2> QED
      BY <2>5, <2>6
<1>4. CASE UNCHANGED vars
  <2>1. UNCHANGED <<welcomes, psk_list, joined, refused>>
      BY <1>4 DEF vars
  <2>2. \A t : Required(t)' = Required(t)
      BY <2>1 DEF Required
  <2> QED
      BY <2>1, <2>2 DEF PSKInv, JoinersHold, HoldersJoin
<1> QED
    BY <1>1, <1>2, <1>3, <1>4 DEF Next

LEMMA AlwaysPSKInv == Spec => []PSKInv
<1>1. Init => PSKInv
  <2> SUFFICES ASSUME Init PROVE PSKInv
      OBVIOUS
  <2>1. welcomes \in Seq({}) /\ psk_list \in Seq(Values)
      BY DEF Init
  <2> QED
      BY <2>1 DEF Init, PSKInv, JoinersHold, HoldersJoin
<1> QED
    BY <1>1, StepPSKInv, PTL DEF Spec

(***************************************************************************)
(* A client that joined had the current value of every PSK that the        *)
(* Welcome names, whichever trial of join opened the GroupInfo.            *)
(***************************************************************************)
THEOREM JoinersHoldThePSKs == Spec => []JoinersHold
<1>1. PSKInv => JoinersHold
    BY DEF PSKInv
<1> QED
    BY <1>1, AlwaysPSKInv, PTL

(***************************************************************************)
(* The lookup in join: a client that holds the current value of every PSK  *)
(* of a Welcome is refused only if one of them is a resumption PSK and it  *)
(* learned another resumption PSK later.                                   *)
(***************************************************************************)
THEOREM HoldersAreAdmitted == Spec => []HoldersJoin
<1>1. PSKInv => HoldersJoin
    BY DEF PSKInv
<1> QED
    BY <1>1, AlwaysPSKInv, PTL
=============================================================================

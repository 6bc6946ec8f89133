--------------------------- MODULE MLSGroupProofs ---------------------------
(***************************************************************************)
(* Proofs about MLSGroup for any sets of clients, groups and key packages, *)
(* any number of commits and trees of any size: types, Agreement, the      *)
(* refinement of GroupHistory, and where a member's leaf is and who has    *)
(* its key.                                                                *)
(***************************************************************************)
EXTENDS MLSGroupHistory, RatchetTreeProofs

-----------------------------------------------------------------------------
(* Keys, nodes and trees *)

LEMMA FounderKeyType == ASSUME NEW m \in Clients PROVE FounderKey(m) \in Key
BY DEF FounderKey, Key

LEMMA LeafKeyType ==
    ASSUME NEW m \in Clients, NEW c \in Nat PROVE LeafKey(m, c) \in Key
BY DEF LeafKey, Key

LEMMA PackageKeyType ==
    ASSUME NEW kp \in KeyPackages
    PROVE  EncKey(kp) \in Key /\ InitKey(kp) \in Key
<1>1. Owner[kp] \in Clients
    BY ConstantsAssumption
<1> QED
    BY <1>1 DEF EncKey, InitKey, Key

LEMMA PathKeyType ==
    ASSUME NEW c \in Nat, NEW i \in Nat
    PROVE  PathSecret(c, i) \in Secret /\ PathKey(PathSecret(c, i)) \in Key
BY DEF PathSecret, PathKey, Secret, Key

LEMMA NodeType ==
    /\ Blank \in Node
    /\ \A m \in Clients, k \in Key : LeafNode(m, k) \in Node
    /\ \A k \in Key : ParentNode(k) \in Node
BY DEF Node, LeafNode, ParentNode

LEMMA GetNodeType ==
    ASSUME NEW t \in Tree, NEW x
    PROVE  /\ get_node(t, x) \in Node
           /\ get_node(t, x) # Blank => get_node(t, x).kem \in Key
           /\ IsLeaf(get_node(t, x)) => get_node(t, x).kem \in Key
<1>1. get_node(t, x) \in Node
  <2>1. CASE x \in NodeIds(t)
      BY <2>1 DEF get_node, NodeIds, Tree
  <2>2. CASE x \notin NodeIds(t)
      BY <2>2, NodeType DEF get_node
  <2> QED
      BY <2>1, <2>2
<1>2. get_node(t, x) # Blank => get_node(t, x).kem \in Key
    BY <1>1 DEF Node
<1>3. ~IsLeaf(Blank)
    BY DEF IsLeaf, Blank
<1> QED
    BY <1>1, <1>2, <1>3

\* A sequence given by its elements, for any length that is an integer.
LEMMA SeqOf ==
    ASSUME NEW S, NEW n \in Int, NEW f, f \in [1 .. n -> S]
    PROVE  f \in Seq(S)
<1>1. CASE n \in Nat
    BY <1>1, SeqDef
<1>2. CASE n \notin Nat
  <2>1. 1 .. n = 1 .. 0
      BY <1>2
  <2> QED
      BY <2>1, SeqDef
<1> QED
    BY <1>1, <1>2

LEMMA NumLeavesType == ASSUME NEW t \in Tree PROVE num_leaves(t) \in Nat
<1>1. Len(t) \in Nat
    BY DEF Tree
<1> QED
    BY <1>1 DEF num_leaves

\* The direct path is a sequence, whatever the loop that climbs it computes.
LEMMA DirectPathType ==
    ASSUME NEW n \in Nat, NEW x
    PROVE  /\ Len(direct_path(n, x)) \in Nat
           /\ DOMAIN direct_path(n, x) = 1 .. Len(direct_path(n, x))
<1>1. \E len \in Nat : \E f : direct_path(n, x) = [i \in 1 .. len |-> f[i]]
  <2> DEFINE climb[i \in Nat] == IF i = 0 THEN x ELSE parent(n, climb[i - 1])
             below == {i \in 0 .. Width(n) : climb[i] # root(n)}
  <2> HIDE DEF climb
  <2>1. Width(n) \in Int
      BY DEF Width
  <2>2. IsFiniteSet(0 .. Width(n))
      BY <2>1, FS_Interval
  <2>3. IsFiniteSet(below)
      BY <2>2, FS_Subset
  <2>4. Cardinality(below) \in Nat
      BY <2>3, FS_CardinalityType
  <2>5. direct_path(n, x) = [i \in 1 .. Cardinality(below) |-> climb[i]]
      BY DEF direct_path, climb
  <2> QED
      BY <2>4, <2>5
<1>2. PICK len \in Nat : \E f : direct_path(n, x) = [i \in 1 .. len |-> f[i]]
    BY <1>1
<1>3. PICK f : direct_path(n, x) = [i \in 1 .. len |-> f[i]]
    BY <1>2
<1> QED
    BY <1>2, <1>3

(***************************************************************************)
(* The operations that build a tree make it of the nodes of the tree they  *)
(* are given, blanks and the nodes they add.  S is any set of nodes: Node  *)
(* for the types, a smaller one for an invariant of every node.            *)
(***************************************************************************)
LEMMA GetNodeIn ==
    ASSUME NEW S, Blank \in S, NEW t \in Seq(S), NEW x
    PROVE  get_node(t, x) \in S
<1>1. CASE x \in NodeIds(t)
    BY <1>1 DEF get_node, NodeIds
<1>2. CASE x \notin NodeIds(t)
    BY <1>2 DEF get_node
<1> QED
    BY <1>1, <1>2

LEMMA RekeyedIn ==
    ASSUME NEW S, NEW t \in Seq(S), NEW m, NEW x, NEW c,
           LeafNode(m, LeafKey(m, c)) \in S,
           \A i \in Nat : ParentNode(PathKey(PathSecret(c, i))) \in S
    PROVE  rekeyed(t, m, x, c) \in Seq(S) /\ Len(rekeyed(t, m, x, c)) = Len(t)
<1> DEFINE dp == Direct(t, x)
           at(j) == CHOOSE i \in DOMAIN dp : dp[i] = j - 1
           node(j) == IF j - 1 = x THEN LeafNode(m, LeafKey(m, c))
                      ELSE IF \E i \in DOMAIN dp : dp[i] = j - 1
                      THEN ParentNode(PathKey(PathSecret(c, at(j))))
                      ELSE t[j]
<1>1. Len(t) \in Nat /\ num_leaves(t) \in Nat
    BY DEF num_leaves
<1>2. DOMAIN dp \subseteq Nat
    BY <1>1, DirectPathType DEF Direct
<1>3. ASSUME NEW j \in 1 .. Len(t) PROVE node(j) \in S
  <2>1. ASSUME \E i \in DOMAIN dp : dp[i] = j - 1
        PROVE  ParentNode(PathKey(PathSecret(c, at(j)))) \in S
    <3> HIDE DEF dp
    <3>1. at(j) \in DOMAIN dp
        BY <2>1
    <3> HIDE DEF at
    <3>2. at(j) \in Nat
        BY <1>2, <3>1
    <3> QED
        BY <3>2
  <2>2. t[j] \in S
      BY <1>3
  <2> HIDE DEF dp, at
  <2> QED
      BY <2>1, <2>2
<1>4. rekeyed(t, m, x, c) = [j \in 1 .. Len(t) |-> node(j)]
    BY DEF rekeyed
<1> HIDE DEF node
<1>5. rekeyed(t, m, x, c) \in [1 .. Len(t) -> S]
    BY <1>3, <1>4
<1>6. rekeyed(t, m, x, c) \in Seq(S)
    BY <1>1, <1>5, SeqOf
<1> QED
    BY <1>1, <1>5, <1>6

LEMMA PlaceLeafIn ==
    ASSUME NEW S, Blank \in S, NEW t \in Seq(S), NEW leaf \in S
    PROVE  place_leaf(t, leaf) \in Seq(S)
<1> DEFINE at == FreeLeaf(t)
           n == IF at \in NodeIds(t) THEN num_leaves(t) ELSE 2 * num_leaves(t)
           grown == [j \in 1 .. Width(n) |-> get_node(t, j - 1)]
           stale == PathSet(grown, at)
<1>1. Width(n) \in Int
    BY DEF Width, num_leaves
<1>2. place_leaf(t, leaf) = [j \in 1 .. Width(n) |->
                                IF j - 1 = at THEN leaf
                                ELSE IF j - 1 \in stale THEN Blank
                                ELSE grown[j]]
    BY DEF place_leaf
<1>3. \A j \in 1 .. Width(n) : grown[j] \in S
    BY GetNodeIn
<1> HIDE DEF at, n, grown, stale
<1>4. place_leaf(t, leaf) \in [1 .. Width(n) -> S]
    BY <1>2, <1>3
<1> QED
    BY <1>1, <1>4, SeqOf

LEMMA TakeIn == ASSUME NEW S, NEW t \in Seq(S), NEW size PROVE Take(t, size) \in Seq(S)
<1> DEFINE kept == {j \in DOMAIN t : j <= size}
<1>1. Len(t) \in Nat /\ DOMAIN t = 1 .. Len(t)
    OBVIOUS
<1>2. IsFiniteSet(1 .. Len(t)) /\ Cardinality(1 .. Len(t)) = Len(t)
  <2>1. PICK n \in Nat : n = Len(t)
      BY <1>1
  <2>2. IsFiniteSet(1 .. n) /\ Cardinality(1 .. n) = IF 1 > n THEN 0 ELSE n - 1 + 1
      BY FS_Interval
  <2> QED
      BY <2>1, <2>2
<1>3. kept \in SUBSET (1 .. Len(t))
    BY <1>1
<1> HIDE DEF kept
<1>4. Cardinality(kept) \in Nat /\ Cardinality(kept) <= Len(t)
    BY <1>2, <1>3, FS_Subset, FS_CardinalityType
<1>5. Take(t, size) = [j \in 1 .. Cardinality(kept) |-> t[j]]
    BY DEF Take, kept
<1>6. \A j \in 1 .. Cardinality(kept) : t[j] \in S
    BY <1>1, <1>4
<1> QED
    BY <1>4, <1>5, <1>6, SeqOf

LEMMA RemoveLeafIn ==
    ASSUME NEW S, Blank \in S, NEW t \in Seq(S), NEW x
    PROVE  remove_leaf(t, x) \in Seq(S)
<1> DEFINE stale == {x} \cup PathSet(t, x)
           blanked == [j \in 1 .. Len(t) |-> IF j - 1 \in stale THEN Blank ELSE t[j]]
<1>1. Len(t) \in Nat /\ \A j \in 1 .. Len(t) : t[j] \in S
    OBVIOUS
<1> HIDE DEF stale
<1>2. blanked \in [1 .. Len(t) -> S]
    BY <1>1
<1>3. blanked \in Seq(S)
    BY <1>1, <1>2, SeqOf
<1>4. remove_leaf(t, x) = <<>> \/ \E size : remove_leaf(t, x) = Take(blanked, size)
    BY DEF remove_leaf, stale
<1>5. <<>> \in Seq(S)
    BY EmptySeq
<1> QED
    BY <1>3, <1>4, <1>5, TakeIn

\* The nodes that commit c of client m puts on its path.
LEMMA FreshNodes ==
    ASSUME NEW m \in Clients, NEW c \in Nat
    PROVE  /\ LeafNode(m, LeafKey(m, c)) \in Node
           /\ \A i \in Nat : ParentNode(PathKey(PathSecret(c, i))) \in Node
BY NodeType, LeafKeyType, PathKeyType

LEMMA RekeyedType ==
    ASSUME NEW t \in Tree, NEW m \in Clients, NEW x, NEW c \in Nat
    PROVE  rekeyed(t, m, x, c) \in Tree
BY FreshNodes, RekeyedIn DEF Tree

LEMMA PlaceLeafType ==
    ASSUME NEW t \in Tree, NEW leaf \in Node
    PROVE  place_leaf(t, leaf) \in Tree
BY NodeType, PlaceLeafIn DEF Tree

LEMMA RemoveLeafType ==
    ASSUME NEW t \in Tree, NEW x
    PROVE  remove_leaf(t, x) \in Tree
BY NodeType, RemoveLeafIn DEF Tree

-----------------------------------------------------------------------------
(* Secrets, commits, welcomes and handles *)

LEMMA ContextType ==
    ASSUME NEW gid \in GroupIds, NEW epoch \in Nat, NEW t \in Tree, NEW h \in Seq(Nat)
    PROVE  make_group_context(gid, epoch, t, h) \in Context
BY DEF make_group_context, Context

LEMMA EpochSecretType ==
    ASSUME NEW init \in EpochSecret, NEW cs \in Secret, NEW context \in Context
    PROVE  /\ derive(init, cs, context) \in EpochSecret
           /\ epoch_secret([init |-> init, commit_secret |-> cs], context) \in EpochSecret
BY DEF derive, joiner_secret, epoch_secret, EpochSecret

LEMMA TranscriptType ==
    ASSUME NEW g \in Handle, NEW c \in Nat PROVE next_transcript(g, c) \in Seq(Nat)
<1>1. g.interim \in Seq(Nat)
    BY DEF Handle
<1> QED
    BY <1>1 DEF next_transcript, confirmed_transcript_hash

LEMMA AdvanceEpochType ==
    ASSUME NEW g \in Handle, NEW t \in Tree, NEW c \in Nat, NEW cs \in Secret
    PROVE  /\ advance_epoch(g, t, c, cs) \in EpochSecret
           /\ make_group_context(g.group_id, g.epoch + 1, t, next_transcript(g, c)) \in Context
<1>1. g.group_id \in GroupIds /\ g.epoch + 1 \in Nat /\ g.secret \in EpochSecret
    BY DEF Handle
<1>2. make_group_context(g.group_id, g.epoch + 1, t, next_transcript(g, c)) \in Context
    BY <1>1, TranscriptType, ContextType
<1> QED
    BY <1>1, <1>2, EpochSecretType DEF advance_epoch

LEMMA CommitSecretType ==
    ASSUME NEW t \in Tree, NEW x, NEW c \in Nat PROVE commit_secret(t, x, c) \in Secret
BY NumLeavesType, DirectPathType, PathKeyType DEF commit_secret, Direct

LEMMA UpdatePathType ==
    ASSUME NEW t \in Tree, NEW x, NEW c \in Nat
    PROVE  update_path(t, x, c) \in Seq(SUBSET Ciphertext)
<1> DEFINE dp == Direct(t, x)
           cop == copath(num_leaves(t), x)
           recipients(i) == {r \in NodeIds(t) : /\ r \in resolution(t, cop[i])
                                                /\ get_node(t, r) # Blank}
           step(i) == {[node |-> r, to |-> get_node(t, r).kem, secret |-> PathSecret(c, i)] :
                          r \in recipients(i)}
<1>1. Len(dp) \in Nat
    BY NumLeavesType, DirectPathType DEF Direct
<1>2. ASSUME NEW i \in 1 .. Len(dp) PROVE step(i) \in SUBSET Ciphertext
  <2>1. Len(t) \in Nat /\ NodeIds(t) \subseteq Nat
      BY DEF Tree, NodeIds
  <2>2. PathSecret(c, i) \in Secret
    <3> HIDE DEF dp
    <3>1. i \in Nat
        BY <1>1
    <3> QED
        BY <3>1, PathKeyType
  <2>3. ASSUME NEW r \in recipients(i)
        PROVE  [node |-> r, to |-> get_node(t, r).kem, secret |-> PathSecret(c, i)] \in Ciphertext
    <3>1. r \in Nat /\ get_node(t, r) # Blank
        BY <2>1, <2>3
    <3>2. get_node(t, r).kem \in Key
        BY <3>1, GetNodeType
    <3> QED
        BY <2>2, <3>1, <3>2 DEF Ciphertext
  <2> HIDE DEF recipients
  <2> QED
      BY <2>3
<1>3. update_path(t, x, c) = [i \in 1 .. Len(dp) |-> step(i)]
    BY DEF update_path
<1> HIDE DEF dp, step
<1>4. update_path(t, x, c) \in [1 .. Len(dp) -> SUBSET Ciphertext]
    BY <1>2, <1>3
<1> QED
    BY <1>1, <1>4, SeqDef

LEMMA LegacySecretsType ==
    ASSUME NEW t \in Tree, NEW x, NEW c \in Nat
    PROVE  legacy_secrets(t, x, c) \in SUBSET SealedToRef
<1> DEFINE others == {z \in Occupied(t) \ {x} : IsLeaf(get_node(t, z))}
<1>1. ASSUME NEW y \in others
      PROVE  [ref |-> get_node(t, y), to |-> get_node(t, y).kem,
              secret |-> commit_secret(t, x, c)] \in SealedToRef
    BY GetNodeType, CommitSecretType DEF SealedToRef
<1> HIDE DEF others
<1>2. legacy_secrets(t, x, c) = {[ref |-> get_node(t, y), to |-> get_node(t, y).kem,
                                  secret |-> commit_secret(t, x, c)] : y \in others}
    BY DEF legacy_secrets, others
<1> QED
    BY <1>1, <1>2

LEMMA CommitType ==
    ASSUME NEW m \in Clients, NEW g \in Handle, NEW t \in Tree, NEW c \in Nat
    PROVE  new_commit(m, g, t, c) \in GroupUpdate
<1>1. /\ g.group_id \in GroupIds /\ g.epoch \in Nat /\ g.epoch + 1 \in Nat
      /\ g.index \in Nat /\ g.secret \in EpochSecret /\ g.tree \in Tree
      /\ g.interim \in Seq(Nat)
    BY DEF Handle
<1>2. update_path(t, MyNode(g), c) \in Seq(SUBSET Ciphertext)
    BY UpdatePathType
<1>3. legacy_secrets(t, MyNode(g), c) \in SUBSET SealedToRef
    BY LegacySecretsType
<1>4. /\ old_context(g) \in Context
      /\ make_group_context(g.group_id, g.epoch + 1, t, g.interim) \in Context
    BY <1>1, ContextType DEF old_context
<1>5. advance_epoch(g, t, c, commit_secret(t, MyNode(g), c)) \in EpochSecret
    BY CommitSecretType, AdvanceEpochType
<1> QED
    BY <1>1, <1>2, <1>3, <1>4, <1>5 DEF new_commit, GroupUpdate

LEMMA CommittedType ==
    ASSUME NEW g \in Handle, NEW t \in Tree, NEW c \in Nat, NEW kem \in Key,
           NEW consumed \in SUBSET KeyPackages
    PROVE  committed(g, t, c, kem, consumed) \in Handle
<1>1. g.group_id \in GroupIds /\ g.epoch + 1 \in Nat /\ g.index \in Nat
    BY DEF Handle
<1>2. advance_epoch(g, t, c, commit_secret(t, MyNode(g), c)) \in EpochSecret
    BY CommitSecretType, AdvanceEpochType
<1>3. interim_transcript_hash(next_transcript(g, c)) \in Seq(Nat)
    BY TranscriptType DEF interim_transcript_hash
<1> QED
    BY <1>1, <1>2, <1>3 DEF committed, Handle

LEMMA WelcomeType ==
    ASSUME NEW m \in Clients, NEW g \in Handle, NEW t \in Tree, NEW c \in Nat,
           NEW kp \in KeyPackages
    PROVE  new_welcome(m, g, t, c, kp) \in Welcome
<1> DEFINE context == make_group_context(g.group_id, g.epoch + 1, t, next_transcript(g, c))
           cs == commit_secret(t, MyNode(g), c)
           joiner == [init |-> g.secret, commit_secret |-> cs]
<1>1. context \in Context /\ cs \in Secret
    BY CommitSecretType, AdvanceEpochType
<1>2. g.index \in Nat /\ g.secret \in EpochSecret
    BY DEF Handle
<1> HIDE DEF context, cs
<1>3. joiner \in [init : EpochSecret, commit_secret : Secret]
    BY <1>1, <1>2
<1>4. epoch_secret(joiner, context) \in EpochSecret
    BY <1>1, <1>2, EpochSecretType
<1>5. InitKey(kp) \in Key
    BY PackageKeyType
<1>6. new_welcome(m, g, t, c, kp) =
          [new_member |-> kp, init_key |-> InitKey(kp), joiner_secret |-> joiner,
           context |-> context, tree |-> t,
           confirmation_tag |-> epoch_secret(joiner, context),
           signer |-> g.index, signed_by |-> m]
    BY DEF new_welcome, joiner_secret, context, cs
<1> HIDE DEF joiner
<1> QED
    BY <1>1, <1>2, <1>3, <1>4, <1>5, <1>6 DEF Welcome

\* The scan of join stops at a leaf, as it finds one.
LEMMA MyLeafType ==
    ASSUME NEW t \in Tree, NEW m, OwnLeaves(t, m) # {}
    PROVE  my_leaf(t, m) \in OwnLeaves(t, m) /\ my_leaf(t, m) \in Nat
<1> DEFINE S == OwnLeaves(t, m)
<1>1. Len(t) \in Nat
    BY DEF Tree
<1>2. S \subseteq Nat
    BY <1>1 DEF OwnLeaves, Occupied, LeafIds, NodeIds
<1> HIDE DEF S
<1>3. S # {}
    BY DEF S
<1>4. \E x \in S : \A y \in S : x <= y
    BY <1>2, <1>3, LeastNumber
<1>5. my_leaf(t, m) \in S
    BY <1>4 DEF my_leaf, S
<1> QED
    BY <1>2, <1>5 DEF S

LEMMA JoinedType ==
    ASSUME NEW m, NEW w \in Welcome, OwnLeaves(w.tree, m) # {}
    PROVE  joined(m, w) \in Handle
<1>1. /\ w.context \in Context /\ w.tree \in Tree /\ w.init_key \in Key
      /\ w.joiner_secret \in [init : EpochSecret, commit_secret : Secret]
    BY DEF Welcome
<1>2. /\ w.context.group_id \in GroupIds /\ w.context.epoch \in Nat
      /\ w.context.transcript \in Seq(Nat)
    BY <1>1 DEF Context
<1>3. epoch_secret(w.joiner_secret, w.context) \in EpochSecret
    BY <1>1 DEF epoch_secret, EpochSecret
<1>4. my_leaf(w.tree, m) \div 2 \in Nat
  <2>1. my_leaf(w.tree, m) \in Nat
      BY <1>1, MyLeafType
  <2> QED
      BY <2>1
<1> QED
    BY <1>1, <1>2, <1>3, <1>4 DEF joined, Handle, interim_transcript_hash

LEMMA ObtainedType ==
    ASSUME NEW g \in Handle, NEW u \in GroupUpdate, NEW cs \in obtained(g, u)
    PROVE  cs \in Secret
<1>1. /\ u.update_path \in Seq(SUBSET Ciphertext)
      /\ u.encrypted_commit_secrets \in SUBSET SealedToRef
    BY DEF GroupUpdate
<1>2. ASSUME cs \in path_secrets(g, u) PROVE cs \in Secret
  <2>1. PICK i \in DOMAIN u.update_path :
            \E ct \in u.update_path[i] :
                cs = derive_next_path_secret(ct.secret, Len(u.update_path) - i)
      BY <1>2 DEF path_secrets, Addressed
  <2>2. PICK ct \in u.update_path[i] :
            cs = derive_next_path_secret(ct.secret, Len(u.update_path) - i)
      BY <2>1
  <2>3. ct \in Ciphertext /\ Len(u.update_path) - i \in Nat
      BY <1>1
  <2>4. ct.secret \in Nat \X Nat
      BY <2>3 DEF Ciphertext, Secret
  <2> QED
      BY <2>2, <2>3, <2>4 DEF derive_next_path_secret, Secret
<1>3. ASSUME cs \in fallback_secrets(g, u) PROVE cs \in Secret
    BY <1>1, <1>3 DEF fallback_secrets, SealedToRef
<1> QED
    BY <1>2, <1>3 DEF obtained

LEMMA FollowedType ==
    ASSUME NEW g \in Handle, NEW u \in GroupUpdate, NEW c \in Nat, NEW cs \in Secret
    PROVE  followed(g, u, c, cs) \in Handle
<1>1. /\ g.group_id \in GroupIds /\ g.epoch + 1 \in Nat /\ g.index \in Nat
      /\ g.kem \in Key /\ u.tree \in Tree
    BY DEF Handle, GroupUpdate
<1>2. advance_epoch(g, u.tree, c, cs) \in EpochSecret
    BY <1>1, AdvanceEpochType
<1>3. interim_transcript_hash(next_transcript(g, c)) \in Seq(Nat)
    BY TranscriptType DEF interim_transcript_hash
<1> QED
    BY <1>1, <1>2, <1>3 DEF followed, Handle

-----------------------------------------------------------------------------
(* Type correctness *)

\* What a step does to the handles: one client's is set, to one of the handles
\* of a set that holds the others too.
LEMMA SetHandleIn ==
    ASSUME NEW H, NEW m \in Clients, NEW h \in H,
           DOMAIN group \subseteq Clients, group \in [DOMAIN group -> H],
           SetHandle(m, h)
    PROVE  /\ DOMAIN group' = DOMAIN group \cup {m}
           /\ DOMAIN group' \subseteq Clients
           /\ group' \in [DOMAIN group' -> H]
           /\ group'[m] = h
           /\ \A k \in DOMAIN group \ {m} : group'[k] = group[k]
BY DEF SetHandle

LEMMA HandleOf ==
    ASSUME TypeOK, NEW m \in DOMAIN group
    PROVE  m \in Clients /\ group[m] \in Handle
BY DEF TypeOK

LEMMA NextNumber ==
    ASSUME TypeOK
    PROVE  /\ Len(commits) \in Nat
           /\ Len(commits) + 1 \in Nat
           /\ DOMAIN commits = 1 .. Len(commits)
BY DEF TypeOK

\* Publishing a commit and setting the committer's handle keeps the types.
LEMMA PublishTyped ==
    ASSUME TypeOK, NEW m \in Clients, NEW u \in GroupUpdate, NEW h \in Handle,
           commits' = Append(commits, u), SetHandle(m, h), welcomes' \subseteq Welcome
    PROVE  TypeOK'
<1>1. commits' \in Seq(GroupUpdate)
    BY DEF TypeOK
<1>2. DOMAIN group' \subseteq Clients /\ group' \in [DOMAIN group' -> Handle]
    BY SetHandleIn DEF TypeOK
<1> QED
    BY <1>1, <1>2 DEF TypeOK

LEMMA EnterTyped ==
    ASSUME TypeOK, NEW m \in Clients, NEW h \in Handle, SetHandle(m, h),
           UNCHANGED <<commits, welcomes>>
    PROVE  TypeOK'
<1>1. DOMAIN group' \subseteq Clients /\ group' \in [DOMAIN group' -> Handle]
    BY SetHandleIn DEF TypeOK
<1> QED
    BY <1>1 DEF TypeOK

\* The handle that create makes.
Founded(m, gid) ==
    LET tree == <<LeafNode(m, FounderKey(m))>>
    IN  [group_id |-> gid, epoch |-> 0, tree |-> tree,
         secret |-> derive(<<>>, ZeroSecret, make_group_context(gid, 0, tree, <<>>)),
         interim |-> <<>>, index |-> 0, kem |-> FounderKey(m), consumed |-> {}]

LEMMA FoundedType ==
    ASSUME NEW m \in Clients, NEW gid \in GroupIds
    PROVE  Founded(m, gid) \in Handle
<1> DEFINE tree == <<LeafNode(m, FounderKey(m))>>
           context == make_group_context(gid, 0, tree, <<>>)
<1>1. FounderKey(m) \in Key /\ LeafNode(m, FounderKey(m)) \in Node
    BY FounderKeyType, NodeType
<1>2. tree \in Tree
    BY <1>1 DEF Tree
<1>3. <<>> \in Seq(Nat) /\ <<>> \in EpochSecret
    BY EmptySeq DEF EpochSecret
<1> HIDE DEF tree
<1>4. context \in Context
    BY <1>2, <1>3, ContextType
<1> HIDE DEF context
<1>5. ZeroSecret \in Secret
    BY DEF ZeroSecret, Secret
<1>6. derive(<<>>, ZeroSecret, context) \in EpochSecret
    BY <1>3, <1>4, <1>5, EpochSecretType
<1>7. Founded(m, gid) =
          [group_id |-> gid, epoch |-> 0, tree |-> tree,
           secret |-> derive(<<>>, ZeroSecret, context),
           interim |-> <<>>, index |-> 0, kem |-> FounderKey(m), consumed |-> {}]
    BY DEF Founded, tree, context
<1> QED
    BY <1>1, <1>2, <1>3, <1>6, <1>7 DEF Handle

\* Only the packages a handle has recorded change.
LEMMA ConsumedType ==
    ASSUME NEW g \in Handle, NEW used \in SUBSET KeyPackages
    PROVE  [g EXCEPT !.consumed = used] \in Handle
BY DEF Handle

LEMMA StepTyped == TypeOK /\ [Next]_vars => TypeOK'
<1> SUFFICES ASSUME TypeOK, [Next]_vars PROVE TypeOK'
    OBVIOUS
<1> DEFINE c == Len(commits) + 1
<1>c. c \in Nat
    BY NextNumber
<1>w. welcomes \subseteq Welcome
    BY DEF TypeOK
<1>1. ASSUME NEW m \in Clients, NEW gid \in GroupIds, Create(m, gid) PROVE TypeOK'
    BY <1>1, FoundedType, EnterTyped DEF Create, Founded
<1>2. ASSUME NEW m \in DOMAIN group, NEW kp \in KeyPackages, NEW adopt \in BOOLEAN,
             add_member(m, kp, adopt)
      PROVE  TypeOK'
  <2> DEFINE g == group[m]
             used == g.consumed \cup {kp}
             placed == place_leaf(g.tree, LeafNode(Owner[kp], EncKey(kp)))
             t == rekeyed(placed, m, MyNode(g), c)
             h == IF adopt THEN committed(g, t, c, LeafKey(m, c), used)
                  ELSE [g EXCEPT !.consumed = used]
  <2>1. m \in Clients /\ g \in Handle
      BY HandleOf
  <2>2. g.tree \in Tree /\ used \in SUBSET KeyPackages
      BY <2>1 DEF Handle
  <2>3. LeafNode(Owner[kp], EncKey(kp)) \in Node
      BY ConstantsAssumption, PackageKeyType, NodeType
  <2>4. t \in Tree
      BY <1>c, <2>1, <2>2, <2>3, PlaceLeafType, RekeyedType
  <2>5. /\ commits' = Append(commits, new_commit(m, g, t, c))
        /\ welcomes' = welcomes \cup {new_welcome(m, g, t, c, kp)}
        /\ SetHandle(m, h)
      BY <1>2 DEF add_member
  <2> HIDE DEF c, g, used, t
  <2>6. h \in Handle
      BY <1>c, <2>1, <2>2, <2>4, CommittedType, LeafKeyType, ConsumedType
  <2>7. welcomes' \subseteq Welcome
      BY <1>c, <1>w, <2>1, <2>4, <2>5, WelcomeType
  <2>8. new_commit(m, g, t, c) \in GroupUpdate
      BY <1>c, <2>1, <2>4, CommitType
  <2> HIDE DEF h
  <2> QED
      BY <2>1, <2>5, <2>6, <2>7, <2>8, PublishTyped
<1>3. ASSUME NEW m \in DOMAIN group, NEW kp \in KeyPackages, add_member_refused(m, kp)
      PROVE  TypeOK'
  <2>1. m \in Clients /\ group[m] \in Handle
      BY HandleOf
  <2>2. group[m].consumed \cup {kp} \in SUBSET KeyPackages
      BY <2>1 DEF Handle
  <2>3. [group[m] EXCEPT !.consumed = group[m].consumed \cup {kp}] \in Handle
      BY <2>1, <2>2, ConsumedType
  <2> QED
      BY <1>3, <2>1, <2>3, EnterTyped DEF add_member_refused
<1>4. ASSUME NEW m \in DOMAIN group, NEW adopt \in BOOLEAN, NEW t \in Tree, NEW kem \in Key,
             commits' = Append(commits, new_commit(m, group[m], t, c)),
             SetHandle(m, IF adopt THEN committed(group[m], t, c, kem, group[m].consumed)
                          ELSE group[m]),
             UNCHANGED welcomes
      PROVE  TypeOK'
  <2>1. m \in Clients /\ group[m] \in Handle
      BY HandleOf
  <2>2. group[m].consumed \in SUBSET KeyPackages
      BY <2>1 DEF Handle
  <2> HIDE DEF c
  <2>3. committed(group[m], t, c, kem, group[m].consumed) \in Handle
      BY <1>c, <2>1, <2>2, CommittedType
  <2>4. new_commit(m, group[m], t, c) \in GroupUpdate
      BY <1>c, <2>1, CommitType
  <2>5. (IF adopt THEN committed(group[m], t, c, kem, group[m].consumed)
         ELSE group[m]) \in Handle
      BY <2>1, <2>3
  <2> QED
      BY <1>4, <1>w, <2>1, <2>4, <2>5, PublishTyped
<1>5. ASSUME NEW m \in DOMAIN group, NEW adopt \in BOOLEAN,
             NEW target \in Targets(group[m]), remove_member(m, target, adopt)
      PROVE  TypeOK'
  <2> DEFINE t == rekeyed(remove_leaf(group[m].tree, 2 * target), m, MyNode(group[m]), c)
  <2>1. m \in Clients /\ group[m].tree \in Tree /\ group[m].kem \in Key
      BY HandleOf DEF Handle
  <2>2. t \in Tree
      BY <1>c, <2>1, RemoveLeafType, RekeyedType
  <2>3. /\ commits' = Append(commits, new_commit(m, group[m], t, c))
        /\ SetHandle(m, IF adopt
                        THEN committed(group[m], t, c, group[m].kem, group[m].consumed)
                        ELSE group[m])
        /\ UNCHANGED welcomes
      BY <1>5 DEF remove_member
  <2> HIDE DEF t, c
  <2> QED
      BY <1>4, <2>1, <2>2, <2>3
<1>6. ASSUME NEW m \in DOMAIN group, NEW adopt \in BOOLEAN, update_key(m, adopt)
      PROVE  TypeOK'
  <2> DEFINE t == rekeyed(group[m].tree, m, MyNode(group[m]), c)
  <2>1. m \in Clients /\ group[m].tree \in Tree
      BY HandleOf DEF Handle
  <2>2. t \in Tree /\ LeafKey(m, c) \in Key
      BY <1>c, <2>1, RekeyedType, LeafKeyType
  <2>3. /\ commits' = Append(commits, new_commit(m, group[m], t, c))
        /\ SetHandle(m, IF adopt
                        THEN committed(group[m], t, c, LeafKey(m, c), group[m].consumed)
                        ELSE group[m])
        /\ UNCHANGED welcomes
      BY <1>6 DEF update_key
  <2> HIDE DEF t, c
  <2> QED
      BY <1>4, <2>2, <2>3
<1>7. ASSUME NEW m \in Clients, NEW w \in welcomes, join(m, w) PROVE TypeOK'
  <2>1. joined(m, w) \in Handle
      BY <1>7, <1>w, JoinedType DEF join
  <2> QED
      BY <1>7, <2>1, EnterTyped DEF join
<1>8. ASSUME NEW m \in DOMAIN group, NEW d \in DOMAIN commits, process_update(m, d)
      PROVE  TypeOK'
  <2>1. m \in Clients /\ group[m] \in Handle
      BY HandleOf
  <2>2. commits[d] \in GroupUpdate /\ d \in Nat
      BY NextNumber DEF TypeOK
  <2>3. PICK cs \in obtained(group[m], commits[d]) :
            /\ SetHandle(m, followed(group[m], commits[d], d, cs))
            /\ UNCHANGED <<commits, welcomes>>
      BY <1>8 DEF process_update
  <2>4. cs \in Secret
      BY <2>1, <2>2, ObtainedType
  <2>5. followed(group[m], commits[d], d, cs) \in Handle
      BY <2>1, <2>2, <2>4, FollowedType
  <2> QED
      BY <2>1, <2>3, <2>5, EnterTyped
<1>9. CASE UNCHANGED vars
    BY <1>9 DEF vars, TypeOK
<1> QED
    BY <1>1, <1>2, <1>3, <1>5, <1>6, <1>7, <1>8, <1>9 DEF Next

LEMMA InitTyped == Init => TypeOK
<1> SUFFICES ASSUME Init PROVE TypeOK
    OBVIOUS
<1>1. DOMAIN group = {}
    BY DEF Init
<1>2. group \in [DOMAIN group -> Handle]
    BY <1>1 DEF Init
<1> QED
    BY <1>1, <1>2, EmptySeq DEF Init, TypeOK

(***************************************************************************)
(* Every handle, commit and welcome that the operations produce is         *)
(* well-formed: trees hold nodes, ciphertexts are sealed to keys, indices  *)
(* and epochs are numbers, and the scan of join finds the leaf it returns. *)
(***************************************************************************)
THEOREM TypeCorrect == Spec => []TypeOK
BY InitTyped, StepTyped, PTL DEF Spec

-----------------------------------------------------------------------------
(* Agreement *)

LastOf(s) == s[Len(s)]

\* Of all commits, commit c was confirmed with this epoch secret.
Confirms(all, c, secret) == c \in DOMAIN all /\ all[c].confirmation_tag = secret

\* The epoch secret was derived under the context that the handle is in, and
\* the last commit of the handle's transcript was confirmed with that secret.
Synchronized(all, g) ==
    /\ LastOf(g.secret).context = old_context(g)
    /\ g.interim # <<>> => Confirms(all, LastOf(g.interim), g.secret)

\* A welcome lets its reader into the epoch of the commit it came with.
Admits(all, w) ==
    /\ w.context.transcript # <<>>
    /\ Confirms(all, LastOf(w.context.transcript), w.confirmation_tag)

\* The inductive invariant: handles can only agree because each of them agrees
\* with the published commit that made its epoch.
AgreementInv ==
    /\ TypeOK
    /\ \A m \in DOMAIN group : Synchronized(commits, group[m])
    /\ \A w \in welcomes : Admits(commits, w)

LEMMA LastOfAppend ==
    ASSUME NEW S, NEW s \in Seq(S), NEW e
    PROVE  LastOf(Append(s, e)) = e /\ Append(s, e) # <<>>
BY DEF LastOf

\* The secret of the next epoch ends with the context of that epoch.
LEMMA AdvanceEpochContext ==
    ASSUME NEW g \in Handle, NEW t, NEW c, NEW cs
    PROVE  LastOf(advance_epoch(g, t, c, cs)).context =
               make_group_context(g.group_id, g.epoch + 1, t, next_transcript(g, c))
<1> DEFINE context == make_group_context(g.group_id, g.epoch + 1, t, next_transcript(g, c))
           entry == [commit_secret |-> cs, context |-> context]
<1>1. advance_epoch(g, t, c, cs) = Append(g.secret, entry)
    BY DEF advance_epoch, derive, epoch_secret, joiner_secret
<1>2. g.secret \in Seq([commit_secret : Secret, context : Context])
    BY DEF Handle, EpochSecret
<1> HIDE DEF entry
<1>3. LastOf(advance_epoch(g, t, c, cs)) = entry
    BY <1>1, <1>2, LastOfAppend
<1> HIDE DEF context
<1> QED
    BY <1>3 DEF entry, context

LEMMA NextTranscriptLast ==
    ASSUME NEW g \in Handle, NEW c
    PROVE  LastOf(next_transcript(g, c)) = c /\ next_transcript(g, c) # <<>>
<1>1. g.interim \in Seq(Nat)
    BY DEF Handle
<1> QED
    BY <1>1, LastOfAppend DEF next_transcript, confirmed_transcript_hash

\* Whoever advances to the epoch of commit c is in the epoch of commit c.
LEMMA AdvancedContext ==
    ASSUME NEW g \in Handle, NEW t, NEW c, NEW cs, NEW h,
           h.group_id = g.group_id, h.epoch = g.epoch + 1, h.tree = t,
           h.secret = advance_epoch(g, t, c, cs),
           h.interim = next_transcript(g, c)
    PROVE  /\ LastOf(h.secret).context = old_context(h)
           /\ LastOf(h.interim) = c
BY AdvanceEpochContext, NextTranscriptLast DEF old_context

\* Publishing a commit confirms it and takes no confirmation away.
LEMMA PublishConfirms ==
    ASSUME TypeOK, NEW u \in GroupUpdate, commits' = Append(commits, u)
    PROVE  /\ \A c, secret : Confirms(commits, c, secret) => Confirms(commits', c, secret)
           /\ Confirms(commits', Len(commits) + 1, u.confirmation_tag)
<1>1. commits \in Seq(GroupUpdate)
    BY DEF TypeOK
<1> QED
    BY <1>1 DEF Confirms

\* A commit of m, with the handle h and perhaps a new welcome.
LEMMA PublishAgrees ==
    ASSUME AgreementInv, NEW m \in DOMAIN group, NEW t \in Tree, NEW h,
           LET c == Len(commits) + 1
           IN  /\ commits' = Append(commits, new_commit(m, group[m], t, c))
               /\ SetHandle(m, h)
               /\ \/ h = group[m]
                  \/ \E used : h = [group[m] EXCEPT !.consumed = used]
                  \/ \E kem, used : h = committed(group[m], t, c, kem, used)
               /\ \/ welcomes' = welcomes
                  \/ \E kp : welcomes' = welcomes \cup {new_welcome(m, group[m], t, c, kp)}
    PROVE  /\ \A k \in DOMAIN group' : Synchronized(commits', group'[k])
           /\ \A w \in welcomes' : Admits(commits', w)
<1> DEFINE g == group[m]
           c == Len(commits) + 1
           u == new_commit(m, g, t, c)
           cs == commit_secret(t, MyNode(g), c)
           next == advance_epoch(g, t, c, cs)
<1>1. m \in Clients /\ g \in Handle /\ c \in Nat
    BY HandleOf, NextNumber DEF AgreementInv
<1>2. u \in GroupUpdate /\ u.confirmation_tag = next
  <2> HIDE DEF g, c
  <2>1. u \in GroupUpdate
      BY <1>1, CommitType
  <2> QED
      BY <2>1 DEF new_commit
<1>3. /\ \A d, secret : Confirms(commits, d, secret) => Confirms(commits', d, secret)
      /\ Confirms(commits', c, next)
    BY <1>2, PublishConfirms DEF AgreementInv
<1>4. \A k : Synchronized(commits, group[k]) /\ group'[k] = group[k] => Synchronized(commits', group'[k])
    BY <1>3 DEF Synchronized, old_context
<1>5. /\ group'[m] = h
      /\ DOMAIN group' = DOMAIN group
      /\ \A k \in DOMAIN group \ {m} : group'[k] = group[k]
    BY DEF SetHandle
<1>6. Synchronized(commits, g)
    BY DEF AgreementInv
<1>7. Synchronized(commits', group'[m])
  <2>1. CASE h = g
      BY <1>4, <1>5, <1>6, <2>1
  <2>2. CASE \E used : h = [g EXCEPT !.consumed = used]
    <3>1. /\ h.secret = g.secret /\ h.interim = g.interim /\ h.group_id = g.group_id
          /\ h.epoch = g.epoch /\ h.tree = g.tree
        BY <1>1, <2>2 DEF Handle
    <3> QED
        BY <1>3, <1>5, <1>6, <3>1 DEF Synchronized, old_context
  <2>3. CASE \E kem, used : h = committed(g, t, c, kem, used)
    <3>1. /\ h.group_id = g.group_id /\ h.epoch = g.epoch + 1 /\ h.tree = t
          /\ h.secret = next /\ h.interim = next_transcript(g, c)
        BY <2>3 DEF committed, interim_transcript_hash
    <3> HIDE DEF g, c, cs
    <3>2. LastOf(h.secret).context = old_context(h) /\ LastOf(h.interim) = c
        BY <1>1, <3>1, AdvancedContext
    <3> QED
        BY <1>3, <1>5, <3>1, <3>2 DEF Synchronized, old_context
  <2> QED
      BY <2>1, <2>2, <2>3
<1>8. \A k \in DOMAIN group' : Synchronized(commits', group'[k])
    BY <1>4, <1>5, <1>7 DEF AgreementInv
<1>9. ASSUME NEW w \in welcomes PROVE Admits(commits', w)
    BY <1>3, <1>9 DEF AgreementInv, Admits
<1>10. ASSUME NEW kp PROVE Admits(commits', new_welcome(m, g, t, c, kp))
  <2> DEFINE w == new_welcome(m, g, t, c, kp)
  <2>1. w.context.transcript = next_transcript(g, c)
      BY DEF new_welcome, make_group_context
  <2>2. w.confirmation_tag = next
      BY DEF new_welcome, advance_epoch, derive
  <2> HIDE DEF w, c, g, next
  <2>3. w.context.transcript # <<>> /\ LastOf(w.context.transcript) = c
      BY <1>1, <2>1, NextTranscriptLast
  <2>4. Confirms(commits', LastOf(w.context.transcript), w.confirmation_tag)
      BY <1>3, <2>2, <2>3 DEF Confirms
  <2> QED
      BY <2>3, <2>4 DEF Admits, w, c, g
<1>11. \A w \in welcomes' : Admits(commits', w)
    BY <1>9, <1>10
<1> QED
    BY <1>8, <1>11

\* A client that enters an epoch without a commit of its own.
LEMMA EnterAgrees ==
    ASSUME AgreementInv, NEW m, NEW h, Synchronized(commits, h), SetHandle(m, h),
           UNCHANGED <<commits, welcomes>>
    PROVE  /\ \A k \in DOMAIN group' : Synchronized(commits', group'[k])
           /\ \A w \in welcomes' : Admits(commits', w)
<1>1. /\ DOMAIN group' = DOMAIN group \cup {m}
      /\ \A k \in DOMAIN group' : group'[k] = h \/ (k \in DOMAIN group /\ group'[k] = group[k])
  <2>1. group' = [k \in DOMAIN group \cup {m} |-> IF k = m THEN h ELSE group[k]]
      BY DEF SetHandle
  <2>2. DOMAIN group' = DOMAIN group \cup {m}
      BY <2>1
  <2>3. \A k \in DOMAIN group \cup {m} : group'[k] = IF k = m THEN h ELSE group[k]
      BY <2>1, Zenon
  <2>4. ASSUME NEW k \in DOMAIN group'
        PROVE  group'[k] = h \/ (k \in DOMAIN group /\ group'[k] = group[k])
    <3>1. k \in DOMAIN group \cup {m}
        BY <2>2
    <3>2. CASE k = m
        BY <2>3, <3>1, <3>2, Zenon
    <3>3. CASE k # m
        BY <2>3, <3>1, <3>3, Zenon
    <3> QED
        BY <3>2, <3>3, Zenon
  <2> QED
      BY <2>2, <2>4, Zenon
<1>2. \A k : group'[k] = h => Synchronized(commits', group'[k])
    BY DEF Synchronized, Confirms, old_context
<1>3. \A k : Synchronized(commits, group[k]) /\ group'[k] = group[k] => Synchronized(commits', group'[k])
    BY DEF Synchronized, Confirms, old_context
<1>4. \A w \in welcomes' : Admits(commits', w)
    BY DEF AgreementInv, Admits, Confirms
<1> QED
    BY <1>1, <1>2, <1>3, <1>4 DEF AgreementInv

LEMMA StepAgrees == AgreementInv /\ [Next]_vars => AgreementInv'
<1> SUFFICES ASSUME AgreementInv, [Next]_vars
             PROVE  /\ \A k \in DOMAIN group' : Synchronized(commits', group'[k])
                    /\ \A w \in welcomes' : Admits(commits', w)
    BY StepTyped DEF AgreementInv
<1> DEFINE c == Len(commits) + 1
           Agrees == /\ \A k \in DOMAIN group' : Synchronized(commits', group'[k])
                     /\ \A w \in welcomes' : Admits(commits', w)
<1>t. TypeOK
    BY DEF AgreementInv
<1>c. c \in Nat
    BY <1>t, NextNumber
<1>1. ASSUME NEW m \in Clients, NEW gid \in GroupIds, Create(m, gid) PROVE Agrees
  <2> DEFINE h == Founded(m, gid)
  <2>1. SetHandle(m, h) /\ UNCHANGED <<commits, welcomes>>
      BY <1>1 DEF Create, Founded
  <2>2. h.interim = <<>>
      BY DEF Founded
  <2>3. LastOf(h.secret).context = old_context(h)
      BY DEF Founded, LastOf, derive, epoch_secret, joiner_secret, old_context
  <2> HIDE DEF h
  <2> QED
      BY <2>1, <2>2, <2>3, EnterAgrees DEF Synchronized
<1>2. ASSUME NEW m \in DOMAIN group, NEW kp \in KeyPackages, NEW adopt \in BOOLEAN,
             add_member(m, kp, adopt)
      PROVE  Agrees
  <2> DEFINE g == group[m]
             used == g.consumed \cup {kp}
             placed == place_leaf(g.tree, LeafNode(Owner[kp], EncKey(kp)))
             t == rekeyed(placed, m, MyNode(g), c)
             h == IF adopt THEN committed(g, t, c, LeafKey(m, c), used)
                  ELSE [g EXCEPT !.consumed = used]
  <2>1. m \in Clients /\ g.tree \in Tree
      BY <1>t, HandleOf DEF Handle
  <2>2. LeafNode(Owner[kp], EncKey(kp)) \in Node
      BY ConstantsAssumption, PackageKeyType, NodeType
  <2>3. t \in Tree
      BY <1>c, <2>1, <2>2, PlaceLeafType, RekeyedType
  <2>4. /\ commits' = Append(commits, new_commit(m, g, t, c))
        /\ welcomes' = welcomes \cup {new_welcome(m, g, t, c, kp)}
        /\ SetHandle(m, h)
      BY <1>2 DEF add_member
  <2> HIDE DEF placed, t, used
  <2>5. \/ \E s : h = [g EXCEPT !.consumed = s]
        \/ \E kem, s : h = committed(g, t, c, kem, s)
      OBVIOUS
  <2> HIDE DEF h
  <2> QED
      BY <2>3, <2>4, <2>5, PublishAgrees
<1>3. ASSUME NEW m \in DOMAIN group, NEW kp \in KeyPackages, add_member_refused(m, kp)
      PROVE  Agrees
  <2> DEFINE g == group[m]
             h == [g EXCEPT !.consumed = g.consumed \cup {kp}]
  <2>1. SetHandle(m, h) /\ UNCHANGED <<commits, welcomes>>
      BY <1>3 DEF add_member_refused
  <2>2. g \in Handle
      BY <1>t, HandleOf
  <2>3. /\ h.secret = g.secret /\ h.interim = g.interim /\ h.group_id = g.group_id
        /\ h.epoch = g.epoch /\ h.tree = g.tree
      BY <2>2 DEF Handle
  <2>4. Synchronized(commits, g)
      BY DEF AgreementInv
  <2> HIDE DEF h, g
  <2>5. Synchronized(commits, h)
      BY <2>3, <2>4 DEF Synchronized, old_context
  <2> QED
      BY <2>1, <2>5, EnterAgrees
<1>4. ASSUME NEW m \in DOMAIN group, NEW adopt \in BOOLEAN,
             NEW target \in Targets(group[m]), remove_member(m, target, adopt)
      PROVE  Agrees
  <2> DEFINE g == group[m]
             t == rekeyed(remove_leaf(g.tree, 2 * target), m, MyNode(g), c)
             h == IF adopt THEN committed(g, t, c, g.kem, g.consumed) ELSE g
  <2>1. m \in Clients /\ g.tree \in Tree
      BY <1>t, HandleOf DEF Handle
  <2>2. t \in Tree
      BY <1>c, <2>1, RemoveLeafType, RekeyedType
  <2>3. /\ commits' = Append(commits, new_commit(m, g, t, c))
        /\ SetHandle(m, h)
        /\ UNCHANGED welcomes
      BY <1>4 DEF remove_member
  <2> HIDE DEF t
  <2>4. h = g \/ \E kem, s : h = committed(g, t, c, kem, s)
      OBVIOUS
  <2> HIDE DEF h
  <2> QED
      BY <2>2, <2>3, <2>4, PublishAgrees
<1>5. ASSUME NEW m \in DOMAIN group, NEW adopt \in BOOLEAN, update_key(m, adopt)
      PROVE  Agrees
  <2> DEFINE g == group[m]
             t == rekeyed(g.tree, m, MyNode(g), c)
             h == IF adopt THEN committed(g, t, c, LeafKey(m, c), g.consumed) ELSE g
  <2>1. m \in Clients /\ g.tree \in Tree
      BY <1>t, HandleOf DEF Handle
  <2>2. t \in Tree
      BY <1>c, <2>1, RekeyedType
  <2>3. /\ commits' = Append(commits, new_commit(m, g, t, c))
        /\ SetHandle(m, h)
        /\ UNCHANGED welcomes
      BY <1>5 DEF update_key
  <2> HIDE DEF t
  <2>4. h = g \/ \E kem, s : h = committed(g, t, c, kem, s)
      OBVIOUS
  <2> HIDE DEF h
  <2> QED
      BY <2>2, <2>3, <2>4, PublishAgrees
<1>6. ASSUME NEW m \in Clients, NEW w \in welcomes, join(m, w) PROVE Agrees
  <2> DEFINE h == joined(m, w)
  <2>1. SetHandle(m, h) /\ UNCHANGED <<commits, welcomes>> /\ GroupInfoVerifies(w)
      BY <1>6 DEF join
  <2>2. w \in Welcome /\ Admits(commits, w)
      BY DEF AgreementInv, TypeOK
  <2>3. /\ h.secret = epoch_secret(w.joiner_secret, w.context)
        /\ h.group_id = w.context.group_id /\ h.epoch = w.context.epoch
        /\ h.tree = w.tree /\ h.interim = w.context.transcript
      BY DEF joined, interim_transcript_hash
  <2>4. w.tree = w.context.tree_hash /\ w.confirmation_tag = h.secret
      BY <2>1, <2>3 DEF GroupInfoVerifies
  <2> HIDE DEF h
  <2>5. w.context = make_group_context(h.group_id, h.epoch, h.tree, h.interim)
    <3>1. w.context \in Context
        BY <2>2 DEF Welcome
    <3> QED
        BY <2>3, <2>4, <3>1 DEF Context, make_group_context
  <2>6. LastOf(h.secret).context = w.context
    <3>1. w.joiner_secret.init \in Seq([commit_secret : Secret, context : Context])
        BY <2>2 DEF Welcome, EpochSecret
    <3> QED
        BY <2>3, <3>1, LastOfAppend DEF epoch_secret
  <2>7. Synchronized(commits, h)
      BY <2>2, <2>3, <2>4, <2>5, <2>6 DEF Synchronized, Admits, old_context
  <2> QED
      BY <2>1, <2>7, EnterAgrees
<1>7. ASSUME NEW m \in DOMAIN group, NEW d \in DOMAIN commits, process_update(m, d)
      PROVE  Agrees
  <2> DEFINE g == group[m]
             u == commits[d]
  <2>1. g \in Handle
      BY <1>t, HandleOf
  <2>2. PICK cs \in obtained(g, u) :
            /\ Accepts(g, u, d, cs)
            /\ SetHandle(m, followed(g, u, d, cs))
            /\ UNCHANGED <<commits, welcomes>>
      BY <1>7 DEF process_update
  <2> DEFINE h == followed(g, u, d, cs)
  <2>3. /\ h.group_id = g.group_id /\ h.epoch = g.epoch + 1 /\ h.tree = u.tree
        /\ h.secret = advance_epoch(g, u.tree, d, cs)
        /\ h.interim = next_transcript(g, d)
      BY DEF followed, interim_transcript_hash
  <2>4. u.confirmation_tag = h.secret
      BY <2>2, <2>3 DEF Accepts
  <2> HIDE DEF h, g
  <2>5. LastOf(h.secret).context = old_context(h) /\ LastOf(h.interim) = d
      BY <2>1, <2>3, AdvancedContext
  <2>6. Synchronized(commits, h)
      BY <2>4, <2>5 DEF Synchronized, Confirms
  <2> QED
      BY <2>2, <2>6, EnterAgrees DEF h
<1>8. CASE UNCHANGED vars
    BY <1>8 DEF vars, AgreementInv, Synchronized, Admits, Confirms, old_context
<1> HIDE DEF Agrees
<1>9. Agrees
    BY <1>1, <1>2, <1>3, <1>4, <1>5, <1>6, <1>7, <1>8 DEF Next, Agrees
<1> QED
    BY <1>9 DEF Agrees

(***************************************************************************)
(* Members with the same epoch secret agree on the group, the epoch, the   *)
(* tree and the transcript, and members with the same (not empty)          *)
(* transcript share the epoch secret: through any interleaving of commits, *)
(* forks, lost handles, joins and replays.                                 *)
(***************************************************************************)
THEOREM MembersAgree == Spec => []Agreement
<1>1. Init => AgreementInv
  <2> SUFFICES ASSUME Init PROVE AgreementInv
      OBVIOUS
  <2>1. DOMAIN group = {} /\ welcomes = {}
      BY DEF Init
  <2> QED
      BY <2>1, InitTyped DEF AgreementInv
<1>2. AgreementInv => Agreement
  <2> SUFFICES ASSUME AgreementInv, NEW m \in DOMAIN group, NEW k \in DOMAIN group
               PROVE  /\ group[m].secret = group[k].secret => SameEpoch(group[m], group[k])
                      /\ /\ group[m].interim # <<>>
                         /\ group[m].interim = group[k].interim
                         => group[m].secret = group[k].secret
      BY DEF Agreement
  <2>1. Synchronized(commits, group[m]) /\ Synchronized(commits, group[k])
      BY DEF AgreementInv
  <2>2. ASSUME group[m].secret = group[k].secret PROVE SameEpoch(group[m], group[k])
    <3>1. old_context(group[m]) = old_context(group[k])
        BY <2>1, <2>2 DEF Synchronized
    <3> QED
        BY <3>1 DEF old_context, make_group_context, SameEpoch
  <2>3. ASSUME group[m].interim # <<>>, group[m].interim = group[k].interim
        PROVE  group[m].secret = group[k].secret
      BY <2>1, <2>3 DEF Synchronized, Confirms
  <2> QED
      BY <2>2, <2>3
<1> QED
    BY <1>1, <1>2, StepAgrees, PTL DEF Spec

-----------------------------------------------------------------------------
(***************************************************************************)
(* MLSGroup implements GroupHistory.                                       *)
(*                                                                         *)
(* A step that commits, founds or lets in maps to the abstract step of the *)
(* same name by what the step itself does.  The step that needs an         *)
(* argument is process_update: that the new tree has the receiver among    *)
(* its members is checked nowhere in the code.  It follows from who can    *)
(* hold which private key: the receiver opened a ciphertext with a key of  *)
(* its own, every ciphertext of a commit is sealed to a key that the new   *)
(* tree holds, and a tree holds a client's keys in that client's leaves    *)
(* only.                                                                   *)
(***************************************************************************)

-----------------------------------------------------------------------------
(* Who holds which key *)

\* The keys that m draws: as a founder, with a commit or with a key package.
OwnKeys(m) == {key \in Key : key[1] # "path" /\ key[2] = m}

\* A leaf carries a key of the client that signs with it; a parent carries a
\* key that came from a path secret.
OwnedNode ==
    {Blank} \cup {n \in [type : {"leaf"}, sig : Clients, kem : Key] : n.kem \in OwnKeys(n.sig)}
            \cup {n \in [type : {"parent"}, kem : Key] : n.kem[1] = "path"}

OwnedTree == Seq(OwnedNode)

\* What a published commit c is sealed to: on the path, the keys of nodes of
\* the new tree; by reference, the key of a leaf of the new tree.
Sealed(u) ==
    /\ u.tree \in OwnedTree
    /\ \A i \in DOMAIN u.update_path : \A ct \in u.update_path[i] :
          /\ get_node(u.tree, ct.node) # Blank
          /\ ct.to = get_node(u.tree, ct.node).kem
    /\ \A s \in u.encrypted_commit_secrets : \E y \in Occupied(u.tree) :
          /\ s.ref = get_node(u.tree, y)
          /\ s.to = s.ref.kem

\* The epoch of commit c is like no other: its transcript ends in c.
Named(u, c) == LastOf(LastOf(u.confirmation_tag).context.transcript) = c

OwnershipInv ==
    /\ \A m \in DOMAIN group : group[m].tree \in OwnedTree /\ group[m].kem \in OwnKeys(m)
    /\ \A c \in DOMAIN commits : Sealed(commits[c]) /\ Named(commits[c], c)
    /\ \A w \in welcomes : w.tree \in OwnedTree

HistoryInv == AgreementInv /\ OwnershipInv

LEMMA FounderOwns == ASSUME NEW m \in Clients PROVE FounderKey(m) \in OwnKeys(m)
BY FounderKeyType DEF OwnKeys, FounderKey

LEMMA CommitterOwns ==
    ASSUME NEW m \in Clients, NEW c \in Nat PROVE LeafKey(m, c) \in OwnKeys(m)
BY LeafKeyType DEF OwnKeys, LeafKey

LEMMA PackageOwned ==
    ASSUME NEW kp \in KeyPackages
    PROVE  EncKey(kp) \in OwnKeys(Owner[kp]) /\ InitKey(kp) \in OwnKeys(Owner[kp])
BY PackageKeyType DEF OwnKeys, EncKey, InitKey

LEMMA OwnedNodeType == OwnedNode \subseteq Node /\ Blank \in OwnedNode /\ OwnedTree \subseteq Tree
<1>1. OwnedNode \subseteq Node /\ Blank \in OwnedNode
    BY DEF OwnedNode, Node
<1>2. ASSUME NEW t \in OwnedTree PROVE t \in Tree
    BY <1>1 DEF OwnedTree, Tree
<1> QED
    BY <1>1, <1>2

LEMMA LeafOwned ==
    ASSUME NEW m \in Clients, NEW key \in OwnKeys(m) PROVE LeafNode(m, key) \in OwnedNode
BY DEF OwnedNode, OwnKeys, LeafNode

\* A client's key is nowhere in a tree but in a leaf of that client.
LEMMA KeyNamesMember ==
    ASSUME NEW n \in OwnedNode, n # Blank, NEW m, n.kem \in OwnKeys(m)
    PROVE  IsLeaf(n) /\ n.sig = m
BY DEF OwnedNode, OwnKeys, IsLeaf

LEMMA RekeyedOwned ==
    ASSUME NEW t \in OwnedTree, NEW m \in Clients, NEW x, NEW c \in Nat
    PROVE  rekeyed(t, m, x, c) \in OwnedTree
<1>1. LeafNode(m, LeafKey(m, c)) \in OwnedNode
    BY CommitterOwns, LeafOwned
<1>2. ASSUME NEW i \in Nat PROVE ParentNode(PathKey(PathSecret(c, i))) \in OwnedNode
    BY PathKeyType DEF OwnedNode, ParentNode, PathKey, PathSecret
<1> QED
    BY <1>1, <1>2, RekeyedIn DEF OwnedTree

LEMMA PlacedOwned ==
    ASSUME NEW t \in OwnedTree, NEW kp \in KeyPackages
    PROVE  place_leaf(t, LeafNode(Owner[kp], EncKey(kp))) \in OwnedTree
<1>1. LeafNode(Owner[kp], EncKey(kp)) \in OwnedNode
    BY ConstantsAssumption, PackageOwned, LeafOwned
<1> QED
    BY <1>1, OwnedNodeType, PlaceLeafIn DEF OwnedTree

LEMMA RemovedOwned ==
    ASSUME NEW t \in OwnedTree, NEW x PROVE remove_leaf(t, x) \in OwnedTree
BY OwnedNodeType, RemoveLeafIn DEF OwnedTree

-----------------------------------------------------------------------------
(* Ownership is kept *)

LEMMA CommitSealed ==
    ASSUME NEW m, NEW g, NEW t \in OwnedTree, NEW c
    PROVE  Sealed(new_commit(m, g, t, c))
<1> DEFINE u == new_commit(m, g, t, c)
           x == MyNode(g)
<1>1. /\ u.tree = t
      /\ u.update_path = update_path(t, x, c)
      /\ u.encrypted_commit_secrets = legacy_secrets(t, x, c)
    BY DEF new_commit
<1> HIDE DEF u, x
<1>2. ASSUME NEW i \in DOMAIN update_path(t, x, c), NEW ct \in update_path(t, x, c)[i]
      PROVE  get_node(t, ct.node) # Blank /\ ct.to = get_node(t, ct.node).kem
    BY <1>2 DEF update_path
<1>3. ASSUME NEW s \in legacy_secrets(t, x, c)
      PROVE  \E y \in Occupied(t) : s.ref = get_node(t, y) /\ s.to = s.ref.kem
    BY <1>3 DEF legacy_secrets
<1>4. Sealed(u)
    BY <1>1, <1>2, <1>3 DEF Sealed
<1> QED
    BY <1>4 DEF u

LEMMA CommitNamed ==
    ASSUME NEW m, NEW g \in Handle, NEW t, NEW c
    PROVE  Named(new_commit(m, g, t, c), c)
<1> DEFINE cs == commit_secret(t, MyNode(g), c)
<1>1. new_commit(m, g, t, c).confirmation_tag = advance_epoch(g, t, c, cs)
    BY DEF new_commit
<1> HIDE DEF cs
<1>2. LastOf(advance_epoch(g, t, c, cs)).context =
          make_group_context(g.group_id, g.epoch + 1, t, next_transcript(g, c))
    BY AdvanceEpochContext
<1>3. LastOf(advance_epoch(g, t, c, cs)).context.transcript = next_transcript(g, c)
    BY <1>2 DEF make_group_context
<1> QED
    BY <1>1, <1>3, NextTranscriptLast DEF Named

\* One client's handle is set to h, and h is owned by that client.
LEMMA SetHandleOwned ==
    ASSUME OwnershipInv, NEW m, NEW h, SetHandle(m, h),
           h.tree \in OwnedTree, h.kem \in OwnKeys(m)
    PROVE  \A k \in DOMAIN group' : group'[k].tree \in OwnedTree /\ group'[k].kem \in OwnKeys(k)
<1>1. ASSUME NEW k \in DOMAIN group'
      PROVE  \/ k = m /\ group'[k] = h
             \/ k \in DOMAIN group /\ group'[k] = group[k]
    BY <1>1 DEF SetHandle
<1> QED
    BY <1>1 DEF OwnershipInv

LEMMA EnterOwned ==
    ASSUME OwnershipInv, NEW m, NEW h, SetHandle(m, h), UNCHANGED <<commits, welcomes>>,
           h.tree \in OwnedTree, h.kem \in OwnKeys(m)
    PROVE  OwnershipInv'
<1>1. \A k \in DOMAIN group' : group'[k].tree \in OwnedTree /\ group'[k].kem \in OwnKeys(k)
    BY SetHandleOwned
<1>2. \A c \in DOMAIN commits' : Sealed(commits'[c]) /\ Named(commits'[c], c)
    BY DEF OwnershipInv
<1>3. \A w \in welcomes' : w.tree \in OwnedTree
    BY DEF OwnershipInv
<1> QED
    BY <1>1, <1>2, <1>3 DEF OwnershipInv

LEMMA PublishOwned ==
    ASSUME TypeOK, OwnershipInv, NEW m \in DOMAIN group, NEW t \in OwnedTree, NEW h,
           LET c == Len(commits) + 1
           IN  /\ commits' = Append(commits, new_commit(m, group[m], t, c))
               /\ SetHandle(m, h)
               /\ h.tree \in OwnedTree /\ h.kem \in OwnKeys(m)
               /\ \/ welcomes' = welcomes
                  \/ \E kp : welcomes' = welcomes \cup {new_welcome(m, group[m], t, c, kp)}
    PROVE  OwnershipInv'
<1> DEFINE c == Len(commits) + 1
           u == new_commit(m, group[m], t, c)
<1>1. m \in Clients /\ group[m] \in Handle /\ c \in Nat /\ commits \in Seq(GroupUpdate)
    BY HandleOf, NextNumber DEF TypeOK
<1>2. \A k \in DOMAIN group' : group'[k].tree \in OwnedTree /\ group'[k].kem \in OwnKeys(k)
    BY SetHandleOwned
<1>3. Sealed(u) /\ Named(u, c)
    BY <1>1, CommitSealed, CommitNamed
<1> HIDE DEF u
<1>4. ASSUME NEW d \in DOMAIN commits'
      PROVE  Sealed(commits'[d]) /\ Named(commits'[d], d)
  <2>1. commits' = Append(commits, u)
      BY DEF u
  <2>2. (d = c /\ commits'[d] = u) \/ (d \in DOMAIN commits /\ commits'[d] = commits[d])
      BY <1>1, <1>4, <2>1
  <2> QED
      BY <1>3, <2>2 DEF OwnershipInv
<1>5. ASSUME NEW w \in welcomes' PROVE w.tree \in OwnedTree
  <2>1. ASSUME NEW kp PROVE new_welcome(m, group[m], t, c, kp).tree = t
      BY DEF new_welcome
  <2> QED
      BY <1>5, <2>1 DEF OwnershipInv
<1> QED
    BY <1>2, <1>4, <1>5 DEF OwnershipInv

LEMMA StepOwned == AgreementInv /\ OwnershipInv /\ [Next]_vars => OwnershipInv'
<1> SUFFICES ASSUME TypeOK, OwnershipInv, [Next]_vars PROVE OwnershipInv'
    BY DEF AgreementInv
<1> DEFINE c == Len(commits) + 1
<1>c. c \in Nat
    BY NextNumber
<1>h. ASSUME NEW m \in DOMAIN group
      PROVE  /\ m \in Clients /\ group[m] \in Handle
             /\ group[m].tree \in OwnedTree /\ group[m].kem \in OwnKeys(m)
    BY HandleOf DEF OwnershipInv
<1>k. ASSUME NEW g \in Handle, NEW t, NEW kem, NEW used
      PROVE  /\ committed(g, t, c, kem, used).tree = t
             /\ committed(g, t, c, kem, used).kem = kem
             /\ [g EXCEPT !.consumed = used].tree = g.tree
             /\ [g EXCEPT !.consumed = used].kem = g.kem
    BY DEF committed, Handle
<1>1. ASSUME NEW m \in Clients, NEW gid \in GroupIds, Create(m, gid) PROVE OwnershipInv'
  <2> DEFINE h == Founded(m, gid)
  <2>1. SetHandle(m, h) /\ UNCHANGED <<commits, welcomes>>
      BY <1>1 DEF Create, Founded
  <2>2. h.tree = <<LeafNode(m, FounderKey(m))>> /\ h.kem = FounderKey(m)
      BY DEF Founded
  <2> HIDE DEF h
  <2>3. h.tree \in OwnedTree /\ h.kem \in OwnKeys(m)
      BY <2>2, FounderOwns, LeafOwned DEF OwnedTree
  <2> QED
      BY <2>1, <2>3, EnterOwned
<1>2. ASSUME NEW m \in DOMAIN group, NEW kp \in KeyPackages, NEW adopt \in BOOLEAN,
             add_member(m, kp, adopt)
      PROVE  OwnershipInv'
  <2> DEFINE g == group[m]
             used == g.consumed \cup {kp}
             placed == place_leaf(g.tree, LeafNode(Owner[kp], EncKey(kp)))
             t == rekeyed(placed, m, MyNode(g), c)
             h == IF adopt THEN committed(g, t, c, LeafKey(m, c), used)
                  ELSE [g EXCEPT !.consumed = used]
  <2>1. placed \in OwnedTree
      BY <1>h, PlacedOwned
  <2>2. t \in OwnedTree
      BY <1>c, <1>h, <2>1, RekeyedOwned
  <2>3. /\ commits' = Append(commits, new_commit(m, g, t, c))
        /\ welcomes' = welcomes \cup {new_welcome(m, g, t, c, kp)}
        /\ SetHandle(m, h)
      BY <1>2 DEF add_member
  <2>4. LeafKey(m, c) \in OwnKeys(m)
      BY <1>c, <1>h, CommitterOwns
  <2> HIDE DEF c, t, used
  <2>5. h.tree \in OwnedTree /\ h.kem \in OwnKeys(m)
      BY <1>h, <1>k, <2>2, <2>4
  <2> HIDE DEF h
  <2> QED
      BY <2>2, <2>3, <2>5, PublishOwned DEF c
<1>3. ASSUME NEW m \in DOMAIN group, NEW kp \in KeyPackages, add_member_refused(m, kp)
      PROVE  OwnershipInv'
  <2> DEFINE h == [group[m] EXCEPT !.consumed = group[m].consumed \cup {kp}]
  <2>1. SetHandle(m, h) /\ UNCHANGED <<commits, welcomes>>
      BY <1>3 DEF add_member_refused
  <2>2. h.tree \in OwnedTree /\ h.kem \in OwnKeys(m)
      BY <1>h, <1>k
  <2> HIDE DEF h
  <2> QED
      BY <2>1, <2>2, EnterOwned
<1>4. ASSUME NEW m \in DOMAIN group, NEW adopt \in BOOLEAN,
             NEW target \in Targets(group[m]), remove_member(m, target, adopt)
      PROVE  OwnershipInv'
  <2> DEFINE g == group[m]
             t == rekeyed(remove_leaf(g.tree, 2 * target), m, MyNode(g), c)
             h == IF adopt THEN committed(g, t, c, g.kem, g.consumed) ELSE g
  <2>1. t \in OwnedTree
      BY <1>c, <1>h, RemovedOwned, RekeyedOwned
  <2>2. /\ commits' = Append(commits, new_commit(m, g, t, c))
        /\ SetHandle(m, h)
        /\ UNCHANGED welcomes
      BY <1>4 DEF remove_member
  <2> HIDE DEF c, t
  <2>3. h.tree \in OwnedTree /\ h.kem \in OwnKeys(m)
      BY <1>h, <1>k, <2>1
  <2> HIDE DEF h
  <2> QED
      BY <2>1, <2>2, <2>3, PublishOwned DEF c
<1>5. ASSUME NEW m \in DOMAIN group, NEW adopt \in BOOLEAN, update_key(m, adopt)
      PROVE  OwnershipInv'
  <2> DEFINE g == group[m]
             t == rekeyed(g.tree, m, MyNode(g), c)
             h == IF adopt THEN committed(g, t, c, LeafKey(m, c), g.consumed) ELSE g
  <2>1. t \in OwnedTree
      BY <1>c, <1>h, RekeyedOwned
  <2>2. /\ commits' = Append(commits, new_commit(m, g, t, c))
        /\ SetHandle(m, h)
        /\ UNCHANGED welcomes
      BY <1>5 DEF update_key
  <2>3. LeafKey(m, c) \in OwnKeys(m)
      BY <1>c, <1>h, CommitterOwns
  <2> HIDE DEF c, t
  <2>4. h.tree \in OwnedTree /\ h.kem \in OwnKeys(m)
      BY <1>h, <1>k, <2>1, <2>3
  <2> HIDE DEF h
  <2> QED
      BY <2>1, <2>2, <2>4, PublishOwned DEF c
<1>6. ASSUME NEW m \in Clients, NEW w \in welcomes, join(m, w) PROVE OwnershipInv'
  <2> DEFINE h == joined(m, w)
  <2>1. SetHandle(m, h) /\ UNCHANGED <<commits, welcomes>>
      BY <1>6 DEF join
  <2>2. h.tree = w.tree /\ h.kem = w.init_key
      BY DEF joined
  <2> HIDE DEF h
  <2>3. w.new_member \in KeyPackages
      BY DEF TypeOK, Welcome
  <2>4. h.kem \in OwnKeys(m)
      BY <1>6, <2>2, <2>3, PackageOwned DEF join
  <2>5. h.tree \in OwnedTree
      BY <2>2 DEF OwnershipInv
  <2> QED
      BY <2>1, <2>4, <2>5, EnterOwned
<1>7. ASSUME NEW m \in DOMAIN group, NEW d \in DOMAIN commits, process_update(m, d)
      PROVE  OwnershipInv'
  <2>1. PICK cs \in obtained(group[m], commits[d]) :
            /\ SetHandle(m, followed(group[m], commits[d], d, cs))
            /\ UNCHANGED <<commits, welcomes>>
      BY <1>7 DEF process_update
  <2> DEFINE h == followed(group[m], commits[d], d, cs)
  <2>2. h.tree = commits[d].tree /\ h.kem = group[m].kem
      BY DEF followed
  <2> HIDE DEF h
  <2>3. h.tree \in OwnedTree /\ h.kem \in OwnKeys(m)
      BY <1>h, <2>2 DEF OwnershipInv, Sealed
  <2> QED
      BY <2>1, <2>3, EnterOwned DEF h
<1>8. CASE UNCHANGED vars
    BY <1>8 DEF vars, OwnershipInv
<1> QED
    BY <1>1, <1>2, <1>3, <1>4, <1>5, <1>6, <1>7, <1>8 DEF Next

-----------------------------------------------------------------------------
(* Every step is a step of GroupHistory *)

LEMMA StandsAt ==
    ASSUME NEW m, NEW h, SetHandle(m, h)
    PROVE  History!Stand(m, h.secret)
BY DEF SetHandle, History!Stand

LEMMA StaysAt ==
    ASSUME NEW m \in DOMAIN group, NEW h, SetHandle(m, h), h.secret = group[m].secret
    PROVE  [k \in DOMAIN group |-> group[k].secret]' = [k \in DOMAIN group |-> group[k].secret]
BY DEF SetHandle

\* The history of an epoch is that of its parent and its own entry.
LEMMA NextEpoch ==
    ASSUME NEW g \in Handle, NEW t, NEW c, NEW cs
    PROVE  LET h == advance_epoch(g, t, c, cs)
           IN  /\ History!Parent(h) = g.secret
               /\ RosterOf(History!Entry(h)) = Roster(t)
<1> DEFINE context == make_group_context(g.group_id, g.epoch + 1, t, next_transcript(g, c))
           entry == [commit_secret |-> cs, context |-> context]
           h == advance_epoch(g, t, c, cs)
<1>1. h = Append(g.secret, entry)
    BY DEF advance_epoch, derive, epoch_secret, joiner_secret
<1>2. g.secret \in Seq([commit_secret : Secret, context : Context])
    BY DEF Handle, EpochSecret
<1>3. context.tree_hash = t
    BY DEF make_group_context
<1>4. entry.context.tree_hash = t
    BY <1>3
<1> HIDE DEF entry, h
<1>5. History!Parent(h) = g.secret
    BY <1>1, <1>2 DEF History!Parent
<1>6. History!Entry(h) = entry
    BY <1>1, <1>2 DEF History!Entry
<1> QED
    BY <1>4, <1>5, <1>6 DEF RosterOf, h

LEMMA CommitMaps ==
    ASSUME HistoryInv, NEW m \in DOMAIN group, NEW t \in Tree, NEW h,
           LET c == Len(commits) + 1
           IN  /\ commits' = Append(commits, new_commit(m, group[m], t, c))
               /\ SetHandle(m, h)
               /\ \/ h.secret = group[m].secret
                  \/ h.secret = new_commit(m, group[m], t, c).confirmation_tag
    PROVE  History!Next
<1> DEFINE c == Len(commits) + 1
           g == group[m]
           u == new_commit(m, g, t, c)
<1> PICK e : e = u.confirmation_tag
    OBVIOUS
<1>1. g \in Handle /\ c \in Nat /\ commits \in Seq(GroupUpdate) /\ c \notin DOMAIN commits
    BY HandleOf, NextNumber DEF HistoryInv, AgreementInv, TypeOK
<1>2. e = advance_epoch(g, t, c, commit_secret(t, MyNode(g), c))
    BY DEF new_commit
<1>3. Named(u, c)
    BY <1>1, CommitNamed
<1>4. \A d \in DOMAIN commits : Named(commits[d], d)
    BY DEF HistoryInv, OwnershipInv
<1> HIDE DEF u
<1>5. e \notin {commits[d].confirmation_tag : d \in DOMAIN commits}
    BY <1>1, <1>3, <1>4 DEF Named
<1>6. commits' = Append(commits, u)
    BY DEF u
<1>7. {commits[d].confirmation_tag : d \in DOMAIN commits}' =
          {commits[d].confirmation_tag : d \in DOMAIN commits} \cup {e}
    BY <1>1, <1>6
<1>8. History!Parent(e) = g.secret
    BY <1>1, <1>2, NextEpoch
<1>9. \/ History!Stand(m, e)
      \/ [k \in DOMAIN group |-> group[k].secret]' = [k \in DOMAIN group |-> group[k].secret]
  <2>1. CASE h.secret = g.secret
      BY <2>1, StaysAt
  <2>2. CASE h.secret = e
    <3>1. History!Stand(m, h.secret)
        BY StandsAt
    <3> QED
        BY <2>2, <3>1 DEF History!Stand
  <2> QED
      BY <2>1, <2>2 DEF u
<1>10. History!Commit(m, e)
    BY <1>5, <1>7, <1>8, <1>9 DEF History!Commit
<1>11. /\ m \in DOMAIN [k \in DOMAIN group |-> group[k].secret]
       /\ e \in {commits[d].confirmation_tag : d \in DOMAIN commits}'
    BY <1>7
<1> QED
    BY <1>10, <1>11 DEF History!Next

\* A ciphertext that m opens makes m a member of the tree it came with.
LEMMA OpenedByMember ==
    ASSUME HistoryInv, NEW m \in DOMAIN group, NEW d \in DOMAIN commits,
           NEW cs \in obtained(group[m], commits[d])
    PROVE  m \in Roster(commits[d].tree)
<1> DEFINE g == group[m]
           u == commits[d]
<1>1. g \in Handle /\ g.kem \in OwnKeys(m) /\ Sealed(u) /\ u.tree \in OwnedTree
    BY HandleOf DEF HistoryInv, AgreementInv, OwnershipInv, Sealed
<1> SUFFICES m \in Roster(u.tree)
    OBVIOUS
<1> HIDE DEF g, u
<1>2. ASSUME NEW x \in Occupied(u.tree), get_node(u.tree, x).kem = g.kem
      PROVE  m \in Roster(u.tree)
  <2>1. get_node(u.tree, x) \in OwnedNode /\ get_node(u.tree, x) # Blank
      BY <1>1, OwnedNodeType, GetNodeIn DEF Occupied, OwnedTree
  <2>2. get_node(u.tree, x).sig = m
      BY <1>1, <1>2, <2>1, KeyNamesMember
  <2> QED
      BY <2>2 DEF Roster
<1>3. CASE cs \in path_secrets(g, u)
  <2>1. PICK i \in DOMAIN u.update_path : \E ct \in u.update_path[i] :
            ct.node = MyNode(g) /\ ct.to = g.kem
      BY <1>3 DEF path_secrets, Addressed
  <2>2. /\ get_node(u.tree, MyNode(g)) # Blank
        /\ get_node(u.tree, MyNode(g)).kem = g.kem
      BY <1>1, <2>1 DEF Sealed
  <2>3. g.index \in Nat
      BY <1>1 DEF Handle
  <2>4. MyNode(g) \in NodeIds(u.tree) /\ MyNode(g) % 2 = 0
      BY <2>2, <2>3 DEF MyNode, get_node
  <2> QED
      BY <1>2, <2>2, <2>4 DEF Occupied, LeafIds
<1>4. CASE cs \in fallback_secrets(g, u)
  <2>1. PICK s \in u.encrypted_commit_secrets : s.to = g.kem
      BY <1>4 DEF fallback_secrets
  <2> QED
      BY <1>1, <1>2, <2>1 DEF Sealed
<1>5. cs \in path_secrets(g, u) \/ cs \in fallback_secrets(g, u)
    BY DEF obtained, g, u
<1> QED
    BY <1>3, <1>4, <1>5

LEMMA StepMaps ==
    ASSUME HistoryInv, [Next]_vars
    PROVE  [History!Next]_<<{commits[c].confirmation_tag : c \in DOMAIN commits},
                            [m \in DOMAIN group |-> group[m].secret]>>
<1> DEFINE c == Len(commits) + 1
           epochs == {commits[d].confirmation_tag : d \in DOMAIN commits}
           at == [k \in DOMAIN group |-> group[k].secret]
           Maps == History!Next \/ UNCHANGED <<epochs, at>>
<1>t. TypeOK /\ c \in Nat
    BY NextNumber DEF HistoryInv, AgreementInv
<1>h. ASSUME NEW m \in DOMAIN group
      PROVE  m \in Clients /\ group[m] \in Handle /\ group[m].tree \in Tree
    BY <1>t, HandleOf DEF Handle
<1>k. ASSUME NEW m, NEW g \in Handle, NEW t, NEW kem, NEW used
      PROVE  /\ committed(g, t, c, kem, used).secret = new_commit(m, g, t, c).confirmation_tag
             /\ [g EXCEPT !.consumed = used].secret = g.secret
    BY DEF committed, new_commit, Handle
<1>1. ASSUME NEW m \in Clients, NEW gid \in GroupIds, Create(m, gid) PROVE Maps
  <2> DEFINE h == Founded(m, gid)
             tree == <<LeafNode(m, FounderKey(m))>>
             context == make_group_context(gid, 0, tree, <<>>)
             entry == [commit_secret |-> ZeroSecret, context |-> context]
  <2>1. SetHandle(m, h) /\ UNCHANGED <<commits, welcomes>> /\ m \notin DOMAIN group
      BY <1>1 DEF Create, Founded
  <2>2. h.secret = <<entry>>
    <3>1. h.secret = derive(<<>>, ZeroSecret, context)
        BY DEF Founded
    <3> QED
        BY <3>1 DEF derive, epoch_secret, joiner_secret
  <2>3. entry.context.tree_hash = tree
      BY DEF make_group_context
  <2>4. Roster(tree) = {m}
    <3>1. NodeIds(tree) = {0}
        BY DEF NodeIds
    <3>2. get_node(tree, 0) = LeafNode(m, FounderKey(m))
        BY <3>1 DEF get_node
    <3>3. get_node(tree, 0) # Blank /\ get_node(tree, 0).sig = m
        BY <3>2 DEF LeafNode, Blank
    <3> HIDE DEF tree
    <3>4. Occupied(tree) = {0}
        BY <3>1, <3>3 DEF Occupied, LeafIds
    <3> QED
        BY <3>3, <3>4 DEF Roster
  <2> HIDE DEF h, entry
  <2>5. Len(h.secret) = 1 /\ RosterOf(History!Entry(h.secret)) = {m}
      BY <2>2, <2>3, <2>4 DEF History!Entry, RosterOf
  <2>6. m \in DOMAIN group' /\ group'[m] = h
      BY <2>1 DEF SetHandle
  <2>7. History!Stand(m, h.secret)
      BY <2>1, StandsAt
  <2>8. History!Found(m)
      BY <2>1, <2>5, <2>6, <2>7 DEF History!Found
  <2> QED
      BY <2>6, <2>8 DEF History!Next
<1>2. ASSUME NEW m \in DOMAIN group, NEW kp \in KeyPackages, NEW adopt \in BOOLEAN,
             add_member(m, kp, adopt)
      PROVE  Maps
  <2> DEFINE g == group[m]
             used == g.consumed \cup {kp}
             placed == place_leaf(g.tree, LeafNode(Owner[kp], EncKey(kp)))
             t == rekeyed(placed, m, MyNode(g), c)
             h == IF adopt THEN committed(g, t, c, LeafKey(m, c), used)
                  ELSE [g EXCEPT !.consumed = used]
  <2>1. LeafNode(Owner[kp], EncKey(kp)) \in Node
      BY ConstantsAssumption, PackageKeyType, NodeType
  <2>2. t \in Tree
      BY <1>t, <1>h, <2>1, PlaceLeafType, RekeyedType
  <2>3. commits' = Append(commits, new_commit(m, g, t, c)) /\ SetHandle(m, h)
      BY <1>2 DEF add_member
  <2> HIDE DEF c, t, used
  <2>4. h.secret = g.secret \/ h.secret = new_commit(m, g, t, c).confirmation_tag
      BY <1>h, <1>k
  <2> HIDE DEF h
  <2> QED
      BY <2>2, <2>3, <2>4, CommitMaps DEF c
<1>3. ASSUME NEW m \in DOMAIN group, NEW kp \in KeyPackages, add_member_refused(m, kp)
      PROVE  Maps
  <2> DEFINE h == [group[m] EXCEPT !.consumed = group[m].consumed \cup {kp}]
  <2>1. SetHandle(m, h) /\ UNCHANGED <<commits, welcomes>>
      BY <1>3 DEF add_member_refused
  <2>2. h.secret = group[m].secret
      BY <1>h, <1>k
  <2> HIDE DEF h
  <2> QED
      BY <2>1, <2>2, StaysAt
<1>4. ASSUME NEW m \in DOMAIN group, NEW adopt \in BOOLEAN,
             NEW target \in Targets(group[m]), remove_member(m, target, adopt)
      PROVE  Maps
  <2> DEFINE g == group[m]
             t == rekeyed(remove_leaf(g.tree, 2 * target), m, MyNode(g), c)
             h == IF adopt THEN committed(g, t, c, g.kem, g.consumed) ELSE g
  <2>1. t \in Tree
      BY <1>t, <1>h, RemoveLeafType, RekeyedType
  <2>2. commits' = Append(commits, new_commit(m, g, t, c)) /\ SetHandle(m, h)
      BY <1>4 DEF remove_member
  <2> HIDE DEF c, t
  <2>3. h.secret = g.secret \/ h.secret = new_commit(m, g, t, c).confirmation_tag
      BY <1>h, <1>k
  <2> HIDE DEF h
  <2> QED
      BY <2>1, <2>2, <2>3, CommitMaps DEF c
<1>5. ASSUME NEW m \in DOMAIN group, NEW adopt \in BOOLEAN, update_key(m, adopt)
      PROVE  Maps
  <2> DEFINE g == group[m]
             t == rekeyed(g.tree, m, MyNode(g), c)
             h == IF adopt THEN committed(g, t, c, LeafKey(m, c), g.consumed) ELSE g
  <2>1. t \in Tree
      BY <1>t, <1>h, RekeyedType
  <2>2. commits' = Append(commits, new_commit(m, g, t, c)) /\ SetHandle(m, h)
      BY <1>5 DEF update_key
  <2> HIDE DEF c, t
  <2>3. h.secret = g.secret \/ h.secret = new_commit(m, g, t, c).confirmation_tag
      BY <1>h, <1>k
  <2> HIDE DEF h
  <2> QED
      BY <2>1, <2>2, <2>3, CommitMaps DEF c
<1>6. ASSUME NEW m \in Clients, NEW w \in welcomes, join(m, w) PROVE Maps
  <2> DEFINE h == joined(m, w)
             e == w.confirmation_tag
  <2>1. /\ SetHandle(m, h) /\ UNCHANGED <<commits, welcomes>>
        /\ GroupInfoVerifies(w) /\ OwnLeaves(w.tree, m) # {}
      BY <1>6 DEF join
  <2>2. w \in Welcome /\ Admits(commits, w)
      BY <1>t DEF HistoryInv, AgreementInv, TypeOK
  <2>3. e = epoch_secret(w.joiner_secret, w.context) /\ w.context.tree_hash = w.tree
      BY <2>1 DEF GroupInfoVerifies
  <2>4. h.secret = e
      BY <2>3 DEF joined
  <2>5. e \in epochs
      BY <2>2 DEF Admits, Confirms
  <2>6. RosterOf(History!Entry(e)) = Roster(w.tree)
    <3>1. w.joiner_secret.init \in Seq([commit_secret : Secret, context : Context])
        BY <2>2 DEF Welcome, EpochSecret
    <3>2. LastOf(e).context = w.context
        BY <2>3, <3>1, LastOfAppend DEF epoch_secret
    <3> QED
        BY <2>3, <3>2 DEF LastOf, History!Entry, RosterOf
  <2>7. m \in Roster(w.tree)
      BY <2>1 DEF OwnLeaves, Roster
  <2> HIDE DEF h, e
  <2>8. History!Stand(m, e)
      BY <2>1, <2>4, StandsAt
  <2>9. History!Enter(m, e)
      BY <2>1, <2>5, <2>6, <2>7, <2>8 DEF History!Enter
  <2> QED
      BY <2>5, <2>9 DEF History!Next
<1>7. ASSUME NEW m \in DOMAIN group, NEW d \in DOMAIN commits, process_update(m, d)
      PROVE  Maps
  <2> DEFINE g == group[m]
             u == commits[d]
  <2> PICK e : e = u.confirmation_tag
      OBVIOUS
  <2>1. PICK cs \in obtained(g, u) :
            /\ Accepts(g, u, d, cs)
            /\ SetHandle(m, followed(g, u, d, cs))
            /\ UNCHANGED <<commits, welcomes>>
      BY <1>7 DEF process_update
  <2>2. e = advance_epoch(g, u.tree, d, cs)
      BY <2>1 DEF Accepts
  <2> PICK h : h = followed(g, u, d, cs)
      OBVIOUS
  <2>3. h.secret = e
      BY <2>2 DEF followed
  <2>4. History!Parent(e) = g.secret /\ RosterOf(History!Entry(e)) = Roster(u.tree)
      BY <1>h, <2>2, NextEpoch
  <2>5. m \in Roster(u.tree)
      BY OpenedByMember
  <2>6. History!Stand(m, e)
    <3>1. SetHandle(m, h)
        BY <2>1 DEF SetHandle
    <3>2. History!Stand(m, h.secret)
        BY <3>1, StandsAt
    <3> QED
        BY <2>3, <3>2 DEF History!Stand
  <2>7. e \in epochs
      OBVIOUS
  <2>8. History!Follow(m, e)
      BY <2>1, <2>4, <2>5, <2>6, <2>7 DEF History!Follow
  <2>9. e \in epochs'
      BY <2>1, <2>7
  <2> QED
      BY <2>8, <2>9 DEF History!Next
<1>8. CASE UNCHANGED vars
    BY <1>8 DEF vars
<1> HIDE DEF Maps, c, epochs, at
<1>9. ASSUME Next PROVE Maps
    BY <1>1, <1>2, <1>3, <1>4, <1>5, <1>6, <1>7, <1>9 DEF Next
<1> QED
    BY <1>8, <1>9 DEF Maps, epochs, at

(***************************************************************************)
(* Every behaviour of the group state machine is a behaviour of            *)
(* GroupHistory: forks never merge, process_update moves a client to a     *)
(* child of the epoch it is in and to nothing else, and nobody gets into   *)
(* an epoch whose tree does not have it, although process_update never     *)
(* compares the receiver with the new tree.                                *)
(***************************************************************************)
THEOREM HistoryImplemented == Spec => ImplementsHistory
<1>1. Init => History!Init
    BY DEF Init, History!Init
<1>2. Init => HistoryInv
  <2>1. Init => DOMAIN group = {} /\ DOMAIN commits = {} /\ welcomes = {}
      BY DEF Init
  <2> QED
      BY <2>1, InitTyped DEF HistoryInv, AgreementInv, OwnershipInv
<1>3. HistoryInv /\ [Next]_vars => HistoryInv'
    BY StepAgrees, StepOwned DEF HistoryInv
<1>4. HistoryInv /\ [Next]_vars
      => [History!Next]_<<{commits[c].confirmation_tag : c \in DOMAIN commits},
                          [m \in DOMAIN group |-> group[m].secret]>>
    BY StepMaps
<1> QED
    BY <1>1, <1>2, <1>3, <1>4, PTL DEF Spec, ImplementsHistory, History!Spec

-----------------------------------------------------------------------------
(***************************************************************************)
(* Leaves.                                                                 *)
(*                                                                         *)
(* A handle finds its leaf by its index, and no operation but join looks   *)
(* at what the leaf of that index holds.  That it stays the handle's own   *)
(* rests on the application inviting only identities that are absent       *)
(* (UniqueInvites): then a tree has one leaf for each member, a commit     *)
(* moves no leaf, and the leaf that a receiver is known by in the secrets  *)
(* sealed by reference is the one at its index.                            *)
(***************************************************************************)

\* A full tree with one leaf for each of its members.
Full(t) == \E K \in Nat : Sized(t, K)

OneLeafEach(t) ==
    /\ \A x \in Occupied(t) : IsLeaf(get_node(t, x))
    /\ \A x, y \in Occupied(t) : get_node(t, x).sig = get_node(t, y).sig => x = y

Shaped(t) == Full(t) /\ OneLeafEach(t)

\* Every leaf of u but x is where it was in t, or is of a client new to t.
Derives(t, u, x) ==
    \A y \in Occupied(u) : y # x =>
        \/ y \in Occupied(t) /\ get_node(u, y) = get_node(t, y)
        \/ get_node(u, y).sig \notin Roster(t)

\* Leaf x is in u as it is in t.
Stays(t, u, x) == x \in Occupied(u) /\ get_node(u, x) = get_node(t, x)

LEMMA OccupiedIs ==
    ASSUME NEW t, NEW x
    PROVE  x \in Occupied(t) <=> x \in NodeIds(t) /\ x % 2 = 0 /\ get_node(t, x) # Blank
BY DEF Occupied, LeafIds

LEMMA LeafIsNotBlank ==
    ASSUME NEW sig, NEW kem
    PROVE  /\ LeafNode(sig, kem) # Blank /\ IsLeaf(LeafNode(sig, kem)) /\ ~IsLeaf(Blank)
           /\ LeafNode(sig, kem).sig = sig /\ LeafNode(sig, kem).kem = kem
BY DEF LeafNode, Blank, IsLeaf

\* The leaves of a tree after rekeying the path of leaf x.
LEMMA RekeyedIs ==
    ASSUME NEW t, NEW K, Sized(t, K), NEW x \in LeafIds(t), NEW m, NEW c,
           NEW u, u = rekeyed(t, m, x, c)
    PROVE  /\ Sized(u, K) /\ NodeIds(u) = NodeIds(t)
           /\ get_node(u, x) = LeafNode(m, LeafKey(m, c))
           /\ \A z \in LeafIds(t) : z # x => get_node(u, z) = get_node(t, z)
<1> DEFINE dp == Direct(t, x)
           on(z) == \E i \in DOMAIN dp : dp[i] = z
           fresh(z) == ParentNode(PathKey(PathSecret(c, CHOOSE i \in DOMAIN dp : dp[i] = z)))
<1>1. /\ K \in Nat /\ num_leaves(t) = pow2[K] /\ Len(t) \in Nat
      /\ x \in NodeIds(t) /\ x \in Nat
      /\ x < Width(pow2[K]) /\ x % 2 = 0
    BY SizedIs
<1>2. dp = [i \in 1 .. K |-> Up(x)[i]]
    BY <1>1, DirectPathIs DEF Direct
<1>3. u = [j \in 1 .. Len(t) |->
               IF j - 1 = x THEN LeafNode(m, LeafKey(m, c))
               ELSE IF on(j - 1) THEN fresh(j - 1)
               ELSE t[j]]
    BY DEF rekeyed
<1> HIDE DEF fresh, on
<1>4. DOMAIN u = 1 .. Len(t) /\ Len(u) = Len(t)
    BY <1>1, <1>3
<1>5. Sized(u, K)
    BY <1>4 DEF Sized
<1>6. NodeIds(u) = NodeIds(t)
    BY <1>4 DEF NodeIds
<1>7. ASSUME NEW z \in NodeIds(t)
      PROVE  get_node(u, z) = IF z = x THEN LeafNode(m, LeafKey(m, c))
                              ELSE IF on(z) THEN fresh(z)
                              ELSE get_node(t, z)
  <2>1. z + 1 \in 1 .. Len(t) /\ (z + 1) - 1 = z
      BY <1>1 DEF NodeIds
  <2>2. get_node(u, z) = u[z + 1] /\ get_node(t, z) = t[z + 1]
      BY <1>6 DEF get_node
  <2>3. u[z + 1] = IF (z + 1) - 1 = x THEN LeafNode(m, LeafKey(m, c))
                   ELSE IF on((z + 1) - 1) THEN fresh((z + 1) - 1)
                   ELSE t[z + 1]
      BY <1>3, <2>1, Zenon
  <2> QED
      BY <2>1, <2>2, <2>3
<1>8. ASSUME NEW z \in LeafIds(t) PROVE ~on(z) /\ z \in NodeIds(t)
  <2>1. z \in NodeIds(t) /\ z % 2 = 0
      BY DEF LeafIds
  <2>2. \A i \in 1 .. K : Up(x)[i] % 2 # 0
      BY PathIsOdd
  <2> QED
      BY <1>2, <2>1, <2>2 DEF on
<1> QED
    BY <1>1, <1>5, <1>6, <1>7, <1>8

\* A commit from leaf x of m on the tree v, which was made from t.
LEMMA RekeyedShaped ==
    ASSUME NEW t, NEW v, Shaped(v), NEW x, x \in Occupied(v), NEW m, get_node(v, x).sig = m,
           Derives(t, v, x), NEW c, NEW u, u = rekeyed(v, m, x, c)
    PROVE  /\ Shaped(u) /\ Derives(t, u, x)
           /\ x \in Occupied(u) /\ get_node(u, x) = LeafNode(m, LeafKey(m, c))
           /\ \A z \in Occupied(v) : z # x => Stays(v, u, z)
<1>1. PICK K \in Nat : Sized(v, K)
    BY DEF Shaped, Full
<1>2. x \in LeafIds(v)
    BY DEF Occupied
<1>3. /\ Sized(u, K) /\ NodeIds(u) = NodeIds(v)
      /\ get_node(u, x) = LeafNode(m, LeafKey(m, c))
      /\ \A z \in LeafIds(v) : z # x => get_node(u, z) = get_node(v, z)
    BY <1>1, <1>2, RekeyedIs
<1>4. LeafIds(u) = LeafIds(v)
    BY <1>3 DEF LeafIds
<1>5. get_node(u, x) # Blank /\ IsLeaf(get_node(u, x)) /\ get_node(u, x).sig = m
    BY <1>3, LeafIsNotBlank
<1>6. ASSUME NEW z PROVE z \in Occupied(u) <=> z \in Occupied(v)
    BY <1>2, <1>3, <1>4, <1>5 DEF Occupied
<1>7. ASSUME NEW z \in Occupied(u)
      PROVE  /\ z \in Occupied(v) /\ IsLeaf(get_node(u, z))
             /\ get_node(u, z).sig = get_node(v, z).sig
             /\ z # x => get_node(u, z) = get_node(v, z)
  <2>1. z \in Occupied(v) /\ z \in LeafIds(v)
      BY <1>6 DEF Occupied
  <2>2. IsLeaf(get_node(v, z))
      BY <2>1 DEF Shaped, OneLeafEach
  <2> QED
      BY <1>3, <1>5, <2>1, <2>2
<1>8. Full(u)
    BY <1>3 DEF Full
<1>9. OneLeafEach(u)
  <2>1. \A y, z \in Occupied(v) : get_node(v, y).sig = get_node(v, z).sig => y = z
      BY DEF Shaped, OneLeafEach
  <2>2. ASSUME NEW y \in Occupied(u), NEW z \in Occupied(u),
               get_node(u, y).sig = get_node(u, z).sig
        PROVE  y = z
      BY <1>7, <2>1, <2>2
  <2> QED
      BY <1>7, <2>2 DEF OneLeafEach
<1>10. Derives(t, u, x)
    BY <1>7 DEF Derives
<1>11. ASSUME NEW z \in Occupied(v), z # x PROVE Stays(v, u, z)
    BY <1>6, <1>7, <1>11 DEF Stays
<1> QED
    BY <1>3, <1>6, <1>8, <1>9, <1>10, <1>11 DEF Shaped

\* add_member's placement of a leaf for a client that the tree does not have.
LEMMA PlacedShaped ==
    ASSUME NEW t, Shaped(t), NEW x \in Occupied(t), NEW sig, sig \notin Roster(t), NEW kem,
           NEW v, v = place_leaf(t, LeafNode(sig, kem))
    PROVE  /\ Shaped(v) /\ Derives(t, v, x) /\ Stays(t, v, x)
           /\ \E y \in Occupied(v) : y # x /\ get_node(v, y) = LeafNode(sig, kem)
<1> DEFINE leaf == LeafNode(sig, kem)
<1>1. PICK K \in Nat : Sized(t, K)
    BY DEF Shaped, Full
<1>2. PICK J \in Nat, at \in Nat : Placed(t, K, v, J, at, leaf)
    BY <1>1, PlaceLeafIs
<1>3. /\ Sized(v, J) /\ K <= J
      /\ at \in LeafIds(v) /\ get_node(t, at) = Blank
      /\ get_node(v, at) = leaf
    BY <1>2 DEF Placed
<1>4. \A z \in NodeIds(v) :
           z # at /\ (\A i \in 1 .. J : Up(at)[i] # z) => get_node(v, z) = get_node(t, z)
    BY <1>2 DEF Placed
<1>5. ASSUME NEW z \in LeafIds(v), z # at PROVE get_node(v, z) = get_node(t, z)
  <2>1. z \in NodeIds(v) /\ z % 2 = 0
      BY DEF LeafIds
  <2>2. \A i \in 1 .. J : Up(at)[i] % 2 # 0
      BY <1>3, PathIsOdd
  <2> QED
      BY <1>4, <1>5, <2>1, <2>2
<1>6. leaf # Blank /\ IsLeaf(leaf) /\ leaf.sig = sig
    BY LeafIsNotBlank
<1> HIDE DEF leaf
<1>7. at \in Occupied(v)
    BY <1>3, <1>6 DEF Occupied
<1>8. ASSUME NEW z \in Occupied(v), z # at
      PROVE  z \in Occupied(t) /\ get_node(v, z) = get_node(t, z)
  <2>1. z \in LeafIds(v) /\ z % 2 = 0 /\ get_node(v, z) # Blank
      BY DEF Occupied, LeafIds
  <2>2. get_node(v, z) = get_node(t, z)
      BY <1>5, <1>8, <2>1
  <2>3. z \in NodeIds(t)
      BY <2>1, <2>2 DEF get_node
  <2> QED
      BY <2>1, <2>2, <2>3, OccupiedIs
<1>9. ASSUME NEW z \in Occupied(t) PROVE get_node(t, z).sig # sig
    BY DEF Roster
<1>10. ASSUME NEW z \in Occupied(v), z # at PROVE get_node(v, z).sig # sig /\ IsLeaf(get_node(v, z))
    BY <1>8, <1>9, <1>10 DEF Shaped, OneLeafEach
<1>11. x # at
    BY <1>3, OccupiedIs
<1>12. Stays(t, v, x)
  <2>1. x \in Nat /\ x < Width(pow2[K]) /\ x % 2 = 0 /\ get_node(t, x) # Blank
      BY <1>1, SizedIs
  <2>2. Width(pow2[K]) <= Width(pow2[J])
      BY <1>3, Pow2Monotone, Pow2 DEF Width
  <2>3. Width(pow2[K]) \in Nat /\ Width(pow2[J]) \in Nat
      BY WidthIs
  <2>4. x \in LeafIds(v)
      BY <1>3, <2>1, <2>2, <2>3, SizedIs
  <2>5. get_node(v, x) = get_node(t, x)
      BY <1>5, <1>11, <2>4
  <2> QED
      BY <2>1, <2>4, <2>5 DEF Stays, Occupied
<1>13. Full(v)
    BY <1>3 DEF Full
<1>14. OneLeafEach(v)
  <2>1. \A y, z \in Occupied(t) : get_node(t, y).sig = get_node(t, z).sig => y = z
      BY DEF Shaped, OneLeafEach
  <2>2. ASSUME NEW y \in Occupied(v), NEW z \in Occupied(v),
               get_node(v, y).sig = get_node(v, z).sig
        PROVE  y = z
    <3>1. CASE y # at /\ z # at
        BY <1>8, <2>1, <2>2, <3>1
    <3>2. CASE y = at \/ z = at
        BY <1>3, <1>6, <1>10, <2>2, <3>2
    <3> QED
        BY <3>1, <3>2
  <2>3. ASSUME NEW y \in Occupied(v) PROVE IsLeaf(get_node(v, y))
      BY <1>3, <1>6, <1>10
  <2> QED
      BY <2>2, <2>3 DEF OneLeafEach
<1>15. Derives(t, v, x)
  <2>1. ASSUME NEW y \in Occupied(v)
        PROVE  \/ y \in Occupied(t) /\ get_node(v, y) = get_node(t, y)
               \/ get_node(v, y).sig \notin Roster(t)
      BY <1>3, <1>6, <1>8
  <2> QED
      BY <2>1 DEF Derives
<1> QED
    BY <1>3, <1>7, <1>11, <1>12, <1>13, <1>14, <1>15 DEF Shaped, leaf

\* remove_leaf of another leaf, blank or not.
LEMMA RemovedShaped ==
    ASSUME NEW t, Shaped(t), NEW x \in Occupied(t), NEW y \in LeafIds(t), y # x,
           NEW v, v = remove_leaf(t, y)
    PROVE  Shaped(v) /\ Derives(t, v, x) /\ Stays(t, v, x)
<1>1. PICK K \in Nat : Sized(t, K)
    BY DEF Shaped, Full
<1>2. PICK J \in Nat : Removed(t, K, v, J, y)
    BY <1>1, RemoveLeafIs
<1>3. /\ Sized(v, J) /\ x \in Occupied(v) /\ get_node(v, y) = Blank
      /\ \A z \in NodeIds(v) :
             z # y /\ (\A i \in 1 .. K : Up(y)[i] # z) => get_node(v, z) = get_node(t, z)
    BY <1>2 DEF Removed
<1>4. ASSUME NEW z \in Occupied(v)
      PROVE  z \in Occupied(t) /\ get_node(v, z) = get_node(t, z)
  <2>1. z \in NodeIds(v) /\ z % 2 = 0 /\ get_node(v, z) # Blank
      BY DEF Occupied, LeafIds
  <2>2. \A i \in 1 .. K : Up(y)[i] % 2 # 0
      BY <1>1, PathIsOdd
  <2>3. get_node(v, z) = get_node(t, z)
      BY <1>3, <2>1, <2>2
  <2>4. z \in NodeIds(t)
      BY <2>1, <2>3 DEF get_node
  <2> QED
      BY <2>1, <2>3, <2>4, OccupiedIs
<1>5. Full(v)
    BY <1>3 DEF Full
<1>6. OneLeafEach(v)
  <2>1. OneLeafEach(t)
      BY DEF Shaped
  <2> QED
      BY <1>4, <2>1 DEF OneLeafEach
<1>7. Derives(t, v, x)
    BY <1>4 DEF Derives
<1> QED
    BY <1>3, <1>4, <1>5, <1>6, <1>7 DEF Shaped, Stays

-----------------------------------------------------------------------------
(* What a handle, a commit and a welcome say about leaves *)

OwnLeaf(m, g) ==
    MyNode(g) \in Occupied(g.tree) /\ get_node(g.tree, MyNode(g)).sig = m

CommitterNode(u) == 2 * u.committer_index

\* Commit c was made in the epoch that its membership tag is the secret of:
\* everything in it is computed from that epoch, the new tree and c.
Made(u, c) ==
    LET from == u.signed
        t    == u.tree
        x    == CommitterNode(u)
    IN  /\ from = LastOf(u.membership_tag).context
        /\ u.group_id = from.group_id
        /\ u.epoch_id = from.epoch + 1
        /\ u.info = make_group_context(from.group_id, from.epoch + 1, t, from.transcript)
        /\ u.confirmation_tag =
               derive(u.membership_tag, commit_secret(t, x, c),
                      make_group_context(from.group_id, from.epoch + 1, t,
                                         confirmed_transcript_hash(from.transcript, c)))
        /\ u.update_path = update_path(t, x, c)
        /\ u.encrypted_commit_secrets = legacy_secrets(t, x, c)

\* Its committer has a leaf in the tree it started from, and the other leaves
\* of the new tree come from there or belong to clients who had none.
Grown(u) ==
    LET from == u.signed.tree_hash
        x    == CommitterNode(u)
    IN  /\ x \in Occupied(from)
        /\ IsLeaf(get_node(from, x)) /\ get_node(from, x).sig = u.signer
        /\ Derives(from, u.tree, x)

\* The tree of a welcome has the leaf of the key package it is for.
Invited(w) ==
    /\ w.init_key = InitKey(w.new_member)
    /\ \E x \in Occupied(w.tree) :
           get_node(w.tree, x) = LeafNode(Owner[w.new_member], EncKey(w.new_member))

LeavesInv ==
    /\ \A m \in DOMAIN group : Shaped(group[m].tree) /\ OwnLeaf(m, group[m])
    /\ \A c \in DOMAIN commits :
           Shaped(commits[c].tree) /\ Made(commits[c], c) /\ Grown(commits[c])
    /\ \A w \in welcomes : Shaped(w.tree) /\ Invited(w)

\* The invariant of the three theorems about leaves.
MemberInv == HistoryInv /\ LeavesInv

LEMMA CommitMade ==
    ASSUME NEW m, NEW g \in Handle, LastOf(g.secret).context = old_context(g),
           NEW t, NEW c
    PROVE  Made(new_commit(m, g, t, c), c)
<1> DEFINE u == new_commit(m, g, t, c)
           from == old_context(g)
<1>1. /\ u.signed = from /\ u.membership_tag = g.secret /\ u.tree = t
      /\ CommitterNode(u) = MyNode(g)
      /\ u.group_id = g.group_id /\ u.epoch_id = g.epoch + 1
      /\ u.info = make_group_context(g.group_id, g.epoch + 1, t, g.interim)
      /\ u.confirmation_tag = advance_epoch(g, t, c, commit_secret(t, MyNode(g), c))
      /\ u.update_path = update_path(t, MyNode(g), c)
      /\ u.encrypted_commit_secrets = legacy_secrets(t, MyNode(g), c)
    BY DEF new_commit, CommitterNode, MyNode
<1>2. /\ from.group_id = g.group_id /\ from.epoch = g.epoch
      /\ from.transcript = g.interim /\ from.tree_hash = g.tree
    BY DEF old_context, make_group_context
<1>3. advance_epoch(g, t, c, commit_secret(t, MyNode(g), c)) =
          derive(g.secret, commit_secret(t, MyNode(g), c),
                 make_group_context(g.group_id, g.epoch + 1, t,
                                    confirmed_transcript_hash(g.interim, c)))
    BY DEF advance_epoch, next_transcript
<1> HIDE DEF u, from
<1>4. from = LastOf(u.membership_tag).context
    BY <1>1 DEF from
<1>5. Made(u, c)
    BY <1>1, <1>2, <1>3, <1>4 DEF Made
<1> QED
    BY <1>5 DEF u

LEMMA CommitGrown ==
    ASSUME NEW m, NEW g, Shaped(g.tree), OwnLeaf(m, g), NEW t, Derives(g.tree, t, MyNode(g)),
           NEW c
    PROVE  Grown(new_commit(m, g, t, c))
<1> DEFINE u == new_commit(m, g, t, c)
<1>1. u.signed = old_context(g) /\ u.tree = t /\ u.signer = m /\ CommitterNode(u) = MyNode(g)
    BY DEF new_commit, CommitterNode, MyNode
<1>2. old_context(g).tree_hash = g.tree
    BY DEF old_context, make_group_context
<1> HIDE DEF u
<1>3. /\ MyNode(g) \in Occupied(g.tree) /\ get_node(g.tree, MyNode(g)).sig = m
      /\ IsLeaf(get_node(g.tree, MyNode(g)))
    BY DEF OwnLeaf, Shaped, OneLeafEach
<1>4. Grown(u)
    BY <1>1, <1>2, <1>3 DEF Grown
<1> QED
    BY <1>4 DEF u

(***************************************************************************)
(* process_update.  Whoever opens a commit has, in the new tree and at its *)
(* own index, a leaf of its own whose private key is the one it opened the *)
(* commit with: on the path the ciphertext names that index; by reference  *)
(* it names the leaf itself, and this leaf is nowhere else.                *)
(***************************************************************************)
LEMMA FollowerKeepsLeaf ==
    ASSUME NEW m, NEW g \in Handle, g.kem \in OwnKeys(m), Shaped(g.tree), OwnLeaf(m, g),
           NEW u, Sealed(u), NEW c, Made(u, c), Grown(u), u.signed = old_context(g),
           NEW cs \in obtained(g, u)
    PROVE  /\ MyNode(g) \in Occupied(u.tree)
           /\ get_node(u.tree, MyNode(g)).sig = m
           /\ get_node(u.tree, MyNode(g)).kem = g.kem
<1> DEFINE y == MyNode(g)
           x == CommitterNode(u)
<1>1. u.signed.tree_hash = g.tree
    BY DEF old_context, make_group_context
<1>2. y \in Occupied(g.tree) /\ get_node(g.tree, y).sig = m
    BY DEF OwnLeaf
<1>3. u.tree \in OwnedTree
    BY DEF Sealed
<1>4. CASE cs \in path_secrets(g, u)
  <2>1. PICK i \in DOMAIN u.update_path : \E ct \in u.update_path[i] :
            ct.node = MyNode(g) /\ ct.to = g.kem
      BY <1>4 DEF path_secrets, Addressed
  <2>2. get_node(u.tree, y) # Blank /\ get_node(u.tree, y).kem = g.kem
      BY <2>1 DEF Sealed
  <2>3. g.index \in Nat
      BY DEF Handle
  <2>4. y \in NodeIds(u.tree) /\ y % 2 = 0
      BY <2>2, <2>3 DEF MyNode, get_node
  <2>5. get_node(u.tree, y) \in OwnedNode
      BY <1>3, OwnedNodeType, GetNodeIn DEF OwnedTree
  <2>6. get_node(u.tree, y).sig = m
      BY <2>2, <2>5, KeyNamesMember
  <2>7. y \in Occupied(u.tree)
      BY <2>2, <2>4, OccupiedIs
  <2> QED
      BY <2>2, <2>6, <2>7
<1>5. CASE cs \in fallback_secrets(g, u)
  <2>1. PICK s \in u.encrypted_commit_secrets : s.ref = get_node(g.tree, y) /\ s.to = g.kem
      BY <1>5 DEF fallback_secrets
  <2>2. u.encrypted_commit_secrets = legacy_secrets(u.tree, x, c)
      BY DEF Made
  <2>3. PICK z \in Occupied(u.tree) :
            z # x /\ s.ref = get_node(u.tree, z) /\ s.to = get_node(u.tree, z).kem
    <3> HIDE DEF x
    <3>1. s \in legacy_secrets(u.tree, x, c)
        BY <2>1, <2>2
    <3> QED
        BY <3>1 DEF legacy_secrets
  <2>4. get_node(u.tree, z) = get_node(g.tree, y) /\ get_node(u.tree, z).sig = m
      BY <1>2, <2>1, <2>3
  <2>5. m \in Roster(g.tree)
      BY <1>2 DEF Roster
  <2>6. Derives(g.tree, u.tree, x)
      BY <1>1 DEF Grown
  <2>7. z \in Occupied(g.tree) /\ get_node(u.tree, z) = get_node(g.tree, z)
      BY <2>3, <2>4, <2>5, <2>6 DEF Derives
  <2>8. z = y
      BY <1>2, <2>4, <2>7 DEF Shaped, OneLeafEach
  <2> QED
      BY <2>1, <2>3, <2>4, <2>8
<1>6. cs \in path_secrets(g, u) \/ cs \in fallback_secrets(g, u)
    BY DEF obtained
<1> QED
    BY <1>4, <1>5, <1>6

\* What a joiner finds in the tree of a welcome: one leaf of its own, with the
\* key of the package it was invited with.
LEMMA JoinerFindsLeaf ==
    ASSUME NEW m, NEW w \in Welcome, Owner[w.new_member] = m, OwnLeaves(w.tree, m) # {},
           Shaped(w.tree), Invited(w)
    PROVE  /\ OwnLeaf(m, joined(m, w))
           /\ w.new_member \notin SplitKeys => HoldsLeafKey(joined(m, w))
<1> DEFINE h == joined(m, w)
           y == my_leaf(w.tree, m)
<1>1. w.tree \in Tree
    BY DEF Welcome
<1>2. h.tree = w.tree /\ h.index = y \div 2 /\ h.kem = w.init_key
    BY DEF joined
<1>3. y \in OwnLeaves(w.tree, m) /\ y \in Nat
    BY <1>1, MyLeafType
<1>4. y \in Occupied(w.tree) /\ get_node(w.tree, y).sig = m
    BY <1>3 DEF OwnLeaves
<1> HIDE DEF h, y
<1>5. y % 2 = 0
    BY <1>4, OccupiedIs
<1>6. MyNode(h) = y
    BY <1>2, <1>3, <1>5 DEF MyNode
<1>7. OwnLeaf(m, h)
    BY <1>2, <1>4, <1>6 DEF OwnLeaf
<1>8. ASSUME w.new_member \notin SplitKeys PROVE HoldsLeafKey(h)
  <2>1. w.init_key = EncKey(w.new_member)
      BY <1>8 DEF Invited, InitKey
  <2>2. PICK x \in Occupied(w.tree) :
            get_node(w.tree, x) = LeafNode(Owner[w.new_member], EncKey(w.new_member))
      BY DEF Invited
  <2>3. get_node(w.tree, x).sig = m /\ get_node(w.tree, x).kem = EncKey(w.new_member)
      BY <2>2, LeafIsNotBlank
  <2>4. x = y
      BY <1>4, <2>2, <2>3 DEF Shaped, OneLeafEach
  <2> QED
      BY <1>2, <1>6, <2>1, <2>3, <2>4 DEF HoldsLeafKey
<1> QED
    BY <1>7, <1>8 DEF h

\* The handle that a commit returns has the fresh leaf at its index.
LEMMA CommitterKeepsLeaf ==
    ASSUME NEW m, NEW g, NEW t, NEW c, MyNode(g) \in Occupied(t),
           get_node(t, MyNode(g)) = LeafNode(m, LeafKey(m, c)), NEW kem, NEW used
    PROVE  /\ OwnLeaf(m, committed(g, t, c, kem, used))
           /\ kem = LeafKey(m, c) => HoldsLeafKey(committed(g, t, c, kem, used))
<1> DEFINE h == committed(g, t, c, kem, used)
<1>1. h.tree = t /\ h.kem = kem /\ MyNode(h) = MyNode(g)
    BY DEF committed, MyNode
<1> HIDE DEF h
<1>2. OwnLeaf(m, h)
    BY <1>1, LeafIsNotBlank DEF OwnLeaf
<1>3. kem = LeafKey(m, c) => HoldsLeafKey(h)
    BY <1>1, LeafIsNotBlank DEF HoldsLeafKey
<1> QED
    BY <1>2, <1>3 DEF h

-----------------------------------------------------------------------------
(* The trees that the three commits publish *)

\* A tree that m with handle g may publish with commit c.
Fresh(m, g, t, c) ==
    /\ Shaped(t) /\ Derives(g.tree, t, MyNode(g))
    /\ MyNode(g) \in Occupied(t) /\ get_node(t, MyNode(g)) = LeafNode(m, LeafKey(m, c))

LEMMA AddedFresh ==
    ASSUME NEW m, NEW g, Shaped(g.tree), OwnLeaf(m, g), NEW sig, sig \notin Roster(g.tree),
           NEW kem, NEW c, NEW t,
           t = rekeyed(place_leaf(g.tree, LeafNode(sig, kem)), m, MyNode(g), c)
    PROVE  /\ Fresh(m, g, t, c)
           /\ \E y \in Occupied(t) : get_node(t, y) = LeafNode(sig, kem)
<1> DEFINE x == MyNode(g)
           v == place_leaf(g.tree, LeafNode(sig, kem))
<1>1. x \in Occupied(g.tree) /\ get_node(g.tree, x).sig = m
    BY DEF OwnLeaf
<1>2. t = rekeyed(v, m, x, c) /\ v = place_leaf(g.tree, LeafNode(sig, kem))
    OBVIOUS
<1> HIDE DEF x, v
<1>3. /\ Shaped(v) /\ Derives(g.tree, v, x) /\ Stays(g.tree, v, x)
      /\ \E y \in Occupied(v) : y # x /\ get_node(v, y) = LeafNode(sig, kem)
    BY <1>1, <1>2, PlacedShaped
<1>4. x \in Occupied(v) /\ get_node(v, x).sig = m
    BY <1>1, <1>3 DEF Stays
<1>5. /\ Shaped(t) /\ Derives(g.tree, t, x)
      /\ x \in Occupied(t) /\ get_node(t, x) = LeafNode(m, LeafKey(m, c))
      /\ \A z \in Occupied(v) : z # x => Stays(v, t, z)
  <2>1. PICK u : u = g.tree
      OBVIOUS
  <2>2. Shaped(v) /\ Derives(u, v, x) /\ x \in Occupied(v) /\ get_node(v, x).sig = m
      BY <1>3, <1>4, <2>1
  <2>3. t = rekeyed(v, m, x, c)
      BY <1>2
  <2>4. /\ Shaped(t) /\ Derives(u, t, x)
        /\ x \in Occupied(t) /\ get_node(t, x) = LeafNode(m, LeafKey(m, c))
        /\ \A z \in Occupied(v) : z # x => Stays(v, t, z)
      BY ONLY <2>2, <2>3, RekeyedShaped
  <2> QED
      BY <2>1, <2>4
<1>6. \E y \in Occupied(t) : get_node(t, y) = LeafNode(sig, kem)
    BY <1>3, <1>5 DEF Stays
<1> QED
    BY <1>5, <1>6 DEF Fresh, x

LEMMA RekeyedFresh ==
    ASSUME NEW m, NEW g, OwnLeaf(m, g), NEW v, Shaped(v), Derives(g.tree, v, MyNode(g)),
           Stays(g.tree, v, MyNode(g)), NEW c, NEW t, t = rekeyed(v, m, MyNode(g), c)
    PROVE  Fresh(m, g, t, c)
<1>1. PICK x : x = MyNode(g)
    OBVIOUS
<1>2. x \in Occupied(v) /\ get_node(v, x).sig = m
    BY <1>1 DEF Stays, OwnLeaf
<1>3. /\ Shaped(t) /\ Derives(g.tree, t, x)
      /\ x \in Occupied(t) /\ get_node(t, x) = LeafNode(m, LeafKey(m, c))
    BY <1>1, <1>2, RekeyedShaped
<1> QED
    BY <1>1, <1>3 DEF Fresh

LEMMA RemovedFresh ==
    ASSUME NEW m, NEW g \in Handle, Shaped(g.tree), OwnLeaf(m, g),
           NEW target \in Targets(g), NEW c, NEW t,
           t = rekeyed(remove_leaf(g.tree, 2 * target), m, MyNode(g), c)
    PROVE  Fresh(m, g, t, c)
<1>1. PICK x : x = MyNode(g)
    OBVIOUS
<1>2. PICK y : y = 2 * target
    OBVIOUS
<1>3. PICK v : v = remove_leaf(g.tree, y)
    OBVIOUS
<1>4. y \in LeafIds(g.tree) /\ y # x
  <2>1. PICK K \in Nat : Sized(g.tree, K)
      BY DEF Shaped, Full
  <2>2. num_leaves(g.tree) = pow2[K] /\ pow2[K] \in Nat
      BY <2>1, SizedIs, Pow2
  <2>3. target \in Nat /\ target <= pow2[K] - 1 /\ target # g.index /\ g.index \in Nat
      BY <2>2 DEF Targets, Handle
  <2>4. y \in Nat /\ y % 2 = 0 /\ y < Width(pow2[K])
      BY <1>2, <2>2, <2>3 DEF Width
  <2>5. y # x
      BY <1>1, <1>2, <2>3 DEF MyNode
  <2> QED
      BY <2>1, <2>4, <2>5, SizedIs
<1>5. Shaped(v) /\ Derives(g.tree, v, x) /\ Stays(g.tree, v, x)
  <2>1. x \in Occupied(g.tree)
      BY <1>1 DEF OwnLeaf
  <2> QED
      BY <1>3, <1>4, <2>1, RemovedShaped
<1> QED
    BY <1>1, <1>2, <1>3, <1>5, RekeyedFresh

LEMMA UpdatedFresh ==
    ASSUME NEW m, NEW g, Shaped(g.tree), OwnLeaf(m, g), NEW c, NEW t,
           t = rekeyed(g.tree, m, MyNode(g), c)
    PROVE  Fresh(m, g, t, c)
<1>1. Derives(g.tree, g.tree, MyNode(g))
    BY DEF Derives
<1>2. Stays(g.tree, g.tree, MyNode(g))
    BY DEF Stays, OwnLeaf
<1> QED
    BY <1>1, <1>2, RekeyedFresh

-----------------------------------------------------------------------------
(* The invariant is kept *)

\* One client's handle is set to h, in whose tree that client has its leaf.
LEMMA SetHandleLeaf ==
    ASSUME LeavesInv, NEW m, NEW h, SetHandle(m, h), Shaped(h.tree), OwnLeaf(m, h)
    PROVE  \A k \in DOMAIN group' : Shaped(group'[k].tree) /\ OwnLeaf(k, group'[k])
<1>1. ASSUME NEW k \in DOMAIN group'
      PROVE  \/ k = m /\ group'[k] = h
             \/ k \in DOMAIN group /\ group'[k] = group[k]
    BY <1>1 DEF SetHandle
<1>2. ASSUME NEW k \in DOMAIN group'
      PROVE  Shaped(group'[k].tree) /\ OwnLeaf(k, group'[k])
  <2>1. PICK n : n = group'[k]
      OBVIOUS
  <2>2. CASE k = m /\ n = h
    <3>1. Shaped(n.tree) /\ OwnLeaf(k, n)
        BY <2>2
    <3> QED
        BY <2>1, <3>1
  <2>3. CASE k \in DOMAIN group /\ n = group[k]
    <3>1. Shaped(n.tree) /\ OwnLeaf(k, n)
        BY <2>3 DEF LeavesInv
    <3> QED
        BY <2>1, <3>1
  <2> QED
      BY <1>1, <2>1, <2>2, <2>3
<1> QED
    BY <1>2

LEMMA EnterLeaves ==
    ASSUME LeavesInv, NEW m, NEW h, SetHandle(m, h), UNCHANGED <<commits, welcomes>>,
           Shaped(h.tree), OwnLeaf(m, h)
    PROVE  LeavesInv'
<1>1. \A k \in DOMAIN group' : Shaped(group'[k].tree) /\ OwnLeaf(k, group'[k])
    BY SetHandleLeaf
<1>2. \A c \in DOMAIN commits' :
          Shaped(commits'[c].tree) /\ Made(commits'[c], c) /\ Grown(commits'[c])
    BY DEF LeavesInv
<1>3. \A w \in welcomes' : Shaped(w.tree) /\ Invited(w)
    BY DEF LeavesInv
<1> QED
    BY <1>1, <1>2, <1>3 DEF LeavesInv

LEMMA PublishLeaves ==
    ASSUME MemberInv, NEW m \in DOMAIN group, NEW t, NEW h,
           LET c == Len(commits) + 1
           IN  /\ Fresh(m, group[m], t, c)
               /\ commits' = Append(commits, new_commit(m, group[m], t, c))
               /\ SetHandle(m, h)
               /\ Shaped(h.tree) /\ OwnLeaf(m, h)
               /\ \/ welcomes' = welcomes
                  \/ \E kp \in KeyPackages :
                         /\ welcomes' = welcomes \cup {new_welcome(m, group[m], t, c, kp)}
                         /\ \E y \in Occupied(t) :
                                get_node(t, y) = LeafNode(Owner[kp], EncKey(kp))
    PROVE  LeavesInv'
<1> DEFINE c == Len(commits) + 1
           g == group[m]
           u == new_commit(m, g, t, c)
<1>0. TypeOK /\ LeavesInv
    BY DEF MemberInv, HistoryInv, AgreementInv
<1>1. /\ g \in Handle /\ c \in Nat /\ commits \in Seq(GroupUpdate)
      /\ LastOf(g.secret).context = old_context(g)
      /\ Shaped(g.tree) /\ OwnLeaf(m, g)
  <2>1. g \in Handle /\ c \in Nat /\ commits \in Seq(GroupUpdate)
      BY <1>0, HandleOf, NextNumber DEF TypeOK
  <2>2. Synchronized(commits, g)
      BY DEF MemberInv, HistoryInv, AgreementInv
  <2>3. Shaped(g.tree) /\ OwnLeaf(m, g)
      BY <1>0 DEF LeavesInv
  <2> QED
      BY <2>1, <2>2, <2>3 DEF Synchronized
<1>2. \A k \in DOMAIN group' : Shaped(group'[k].tree) /\ OwnLeaf(k, group'[k])
    BY <1>0, SetHandleLeaf
<1>3. Fresh(m, g, t, c) /\ commits' = Append(commits, u)
    OBVIOUS
<1>4. Shaped(u.tree) /\ Made(u, c) /\ Grown(u)
  <2>1. u.tree = t
      BY DEF new_commit
  <2> HIDE DEF c, g
  <2>2. Derives(g.tree, t, MyNode(g)) /\ Shaped(t)
      BY <1>3 DEF Fresh
  <2>3. Made(u, c)
      BY <1>1, CommitMade
  <2>4. Grown(u)
      BY <1>1, <2>2, CommitGrown
  <2> QED
      BY <2>1, <2>2, <2>3, <2>4
<1> HIDE DEF u
<1>5. ASSUME NEW d \in DOMAIN commits'
      PROVE  Shaped(commits'[d].tree) /\ Made(commits'[d], d) /\ Grown(commits'[d])
  <2>1. (d = c /\ commits'[d] = u) \/ (d \in DOMAIN commits /\ commits'[d] = commits[d])
      BY <1>1, <1>3, <1>5
  <2>2. PICK v : v = commits'[d]
      OBVIOUS
  <2>3. Shaped(v.tree) /\ Made(v, d) /\ Grown(v)
      BY <1>0, <1>4, <2>1, <2>2 DEF LeavesInv
  <2> QED
      BY <2>2, <2>3
<1>6. ASSUME NEW w \in welcomes' PROVE Shaped(w.tree) /\ Invited(w)
  <2>1. ASSUME NEW kp, NEW y \in Occupied(t),
               get_node(t, y) = LeafNode(Owner[kp], EncKey(kp)),
               w = new_welcome(m, g, t, c, kp)
        PROVE  Shaped(w.tree) /\ Invited(w)
    <3>1. w.tree = t /\ w.new_member = kp /\ w.init_key = InitKey(kp)
        BY <2>1 DEF new_welcome
    <3>2. Shaped(t)
        BY <1>3 DEF Fresh
    <3> QED
        BY <2>1, <3>1, <3>2 DEF Invited
  <2>2. CASE w \in welcomes
      BY <1>0, <2>2 DEF LeavesInv
  <2>3. CASE w \notin welcomes
      BY <1>6, <2>1, <2>3
  <2> QED
      BY <2>2, <2>3
<1> QED
    BY <1>2, <1>5, <1>6 DEF LeavesInv

\* What a step of m starts from.
LEMMA MemberStarts ==
    ASSUME MemberInv, NEW m \in DOMAIN group
    PROVE  /\ TypeOK /\ LeavesInv /\ m \in Clients /\ group[m] \in Handle
           /\ LastOf(group[m].secret).context = old_context(group[m])
           /\ Shaped(group[m].tree) /\ OwnLeaf(m, group[m]) /\ group[m].kem \in OwnKeys(m)
<1>1. TypeOK /\ LeavesInv /\ OwnershipInv /\ Synchronized(commits, group[m])
    BY DEF MemberInv, HistoryInv, AgreementInv
<1>2. m \in Clients /\ group[m] \in Handle
    BY <1>1, HandleOf
<1>3. Shaped(group[m].tree) /\ OwnLeaf(m, group[m])
    BY <1>1 DEF LeavesInv
<1>4. group[m].kem \in OwnKeys(m)
    BY <1>1 DEF OwnershipInv
<1> QED
    BY <1>1, <1>2, <1>3, <1>4 DEF Synchronized

\* A commit that m may follow keeps m's leaf and its key.
LEMMA FollowedLeaf ==
    ASSUME MemberInv, NEW m \in DOMAIN group, NEW d \in DOMAIN commits,
           NEW cs \in obtained(group[m], commits[d]), Accepts(group[m], commits[d], d, cs),
           NEW h, h = followed(group[m], commits[d], d, cs)
    PROVE  Shaped(h.tree) /\ OwnLeaf(m, h) /\ HoldsLeafKey(h)
<1>1. PICK g : g = group[m]
    OBVIOUS
<1>2. PICK u : u = commits[d]
    OBVIOUS
<1>3. g \in Handle /\ Shaped(g.tree) /\ OwnLeaf(m, g) /\ g.kem \in OwnKeys(m)
    BY <1>1, MemberStarts
<1>4. Sealed(u) /\ Shaped(u.tree) /\ Made(u, d) /\ Grown(u)
    BY <1>2 DEF MemberInv, HistoryInv, OwnershipInv, LeavesInv
<1>5. cs \in obtained(g, u) /\ u.signed = old_context(g)
    BY <1>1, <1>2 DEF Accepts, Authentic
<1>6. /\ MyNode(g) \in Occupied(u.tree)
      /\ get_node(u.tree, MyNode(g)).sig = m
      /\ get_node(u.tree, MyNode(g)).kem = g.kem
    BY <1>3, <1>4, <1>5, FollowerKeepsLeaf
<1>7. h.tree = u.tree /\ h.kem = g.kem /\ MyNode(h) = MyNode(g)
    BY <1>1, <1>2 DEF followed, MyNode
<1> QED
    BY <1>4, <1>6, <1>7 DEF OwnLeaf, HoldsLeafKey

LEMMA StepLeaves ==
    ASSUME UniqueInvites, MemberInv, [Next]_vars
    PROVE  LeavesInv'
<1> DEFINE c == Len(commits) + 1
<1>0. TypeOK /\ LeavesInv
    BY DEF MemberInv, HistoryInv, AgreementInv
<1>k. ASSUME NEW m, NEW g \in Handle, Shaped(g.tree), OwnLeaf(m, g), NEW used
      PROVE  /\ Shaped([g EXCEPT !.consumed = used].tree)
             /\ OwnLeaf(m, [g EXCEPT !.consumed = used])
  <2>1. PICK h : h = [g EXCEPT !.consumed = used]
      OBVIOUS
  <2>2. h.tree = g.tree /\ MyNode(h) = MyNode(g)
      BY <2>1 DEF Handle, MyNode
  <2>3. Shaped(h.tree) /\ OwnLeaf(m, h)
      BY <1>k, <2>2 DEF OwnLeaf
  <2> QED
      BY <2>1, <2>3
<1>f. ASSUME NEW m, NEW g, NEW t, Fresh(m, g, t, c), NEW kem, NEW used
      PROVE  /\ Shaped(committed(g, t, c, kem, used).tree)
             /\ OwnLeaf(m, committed(g, t, c, kem, used))
  <2>1. committed(g, t, c, kem, used).tree = t
      BY DEF committed
  <2> HIDE DEF c
  <2> QED
      BY <1>f, <2>1, CommitterKeepsLeaf DEF Fresh
<1>1. ASSUME NEW m \in Clients, NEW gid \in GroupIds, Create(m, gid) PROVE LeavesInv'
  <2> DEFINE h == Founded(m, gid)
             leaf == LeafNode(m, FounderKey(m))
  <2>1. SetHandle(m, h) /\ UNCHANGED <<commits, welcomes>>
      BY <1>1 DEF Create, Founded
  <2>2. h.tree = <<leaf>> /\ h.index = 0
      BY DEF Founded
  <2>3. leaf # Blank /\ IsLeaf(leaf) /\ leaf.sig = m
      BY LeafIsNotBlank
  <2> HIDE DEF h, leaf
  <2>4. PICK t : t = h.tree
      OBVIOUS
  <2>5. DOMAIN t = 1 .. 1 /\ Len(t) = 1 /\ t[1] = leaf
      BY <2>2, <2>4
  <2>6. Sized(t, 0)
      BY <2>5, Pow2 DEF Sized, Width
  <2>7. NodeIds(t) = {0} /\ get_node(t, 0) = leaf
      BY <2>5 DEF NodeIds, get_node
  <2>8. Occupied(t) = {0}
      BY <2>3, <2>7 DEF Occupied, LeafIds
  <2>9. Shaped(t)
      BY <2>3, <2>6, <2>7, <2>8 DEF Shaped, Full, OneLeafEach
  <2>10. OwnLeaf(m, h)
      BY <2>2, <2>3, <2>4, <2>7, <2>8 DEF OwnLeaf, MyNode
  <2> QED
      BY <1>0, <2>1, <2>4, <2>9, <2>10, EnterLeaves
<1>2. ASSUME NEW m \in DOMAIN group, NEW kp \in KeyPackages, NEW adopt \in BOOLEAN,
             add_member(m, kp, adopt)
      PROVE  LeavesInv'
  <2> DEFINE g == group[m]
             used == g.consumed \cup {kp}
             t == rekeyed(place_leaf(g.tree, LeafNode(Owner[kp], EncKey(kp))), m, MyNode(g), c)
             h == IF adopt THEN committed(g, t, c, LeafKey(m, c), used)
                  ELSE [g EXCEPT !.consumed = used]
  <2>1. g \in Handle /\ Shaped(g.tree) /\ OwnLeaf(m, g)
      BY MemberStarts
  <2>2. /\ commits' = Append(commits, new_commit(m, g, t, c))
        /\ welcomes' = welcomes \cup {new_welcome(m, g, t, c, kp)}
        /\ SetHandle(m, h)
        /\ MayInvite(m, kp)
      BY <1>2 DEF add_member
  <2>3. Owner[kp] \notin Roster(g.tree)
      BY <2>2 DEF MayInvite, Roster
  <2>4. /\ Fresh(m, g, t, c)
        /\ \E y \in Occupied(t) : get_node(t, y) = LeafNode(Owner[kp], EncKey(kp))
    <3>1. PICK n : n = g
        OBVIOUS
    <3>2. PICK v : v = rekeyed(place_leaf(n.tree, LeafNode(Owner[kp], EncKey(kp))), m, MyNode(n), c)
        OBVIOUS
    <3>3. Shaped(n.tree) /\ OwnLeaf(m, n) /\ Owner[kp] \notin Roster(n.tree)
        BY <2>1, <2>3, <3>1
    <3>4. /\ Fresh(m, n, v, c)
          /\ \E y \in Occupied(v) : get_node(v, y) = LeafNode(Owner[kp], EncKey(kp))
        BY <3>2, <3>3, AddedFresh
    <3> QED
        BY <3>1, <3>2, <3>4
  <2> HIDE DEF c, t, used, g
  <2>5. Shaped(h.tree) /\ OwnLeaf(m, h)
    <3>1. CASE adopt
        BY <1>f, <2>4, <3>1
    <3>2. CASE ~adopt
        BY <1>k, <2>1, <3>2
    <3> QED
        BY <3>1, <3>2
  <2> HIDE DEF h
  <2> QED
      BY <2>2, <2>4, <2>5, PublishLeaves DEF c, g
<1>3. ASSUME NEW m \in DOMAIN group, NEW kp \in KeyPackages, add_member_refused(m, kp)
      PROVE  LeavesInv'
  <2> DEFINE h == [group[m] EXCEPT !.consumed = group[m].consumed \cup {kp}]
  <2>1. SetHandle(m, h) /\ UNCHANGED <<commits, welcomes>>
      BY <1>3 DEF add_member_refused
  <2>2. Shaped(h.tree) /\ OwnLeaf(m, h)
      BY <1>k, MemberStarts
  <2> HIDE DEF h
  <2> QED
      BY <1>0, <2>1, <2>2, EnterLeaves
<1>4. ASSUME NEW m \in DOMAIN group, NEW adopt \in BOOLEAN,
             NEW target \in Targets(group[m]), remove_member(m, target, adopt)
      PROVE  LeavesInv'
  <2> DEFINE g == group[m]
             t == rekeyed(remove_leaf(g.tree, 2 * target), m, MyNode(g), c)
             h == IF adopt THEN committed(g, t, c, g.kem, g.consumed) ELSE g
  <2>1. g \in Handle /\ Shaped(g.tree) /\ OwnLeaf(m, g)
      BY MemberStarts
  <2>2. /\ commits' = Append(commits, new_commit(m, g, t, c))
        /\ SetHandle(m, h)
        /\ UNCHANGED welcomes
      BY <1>4 DEF remove_member
  <2>3. Fresh(m, g, t, c)
    <3>1. PICK n : n = g
        OBVIOUS
    <3>2. PICK v : v = rekeyed(remove_leaf(n.tree, 2 * target), m, MyNode(n), c)
        OBVIOUS
    <3>3. n \in Handle /\ Shaped(n.tree) /\ OwnLeaf(m, n) /\ target \in Targets(n)
        BY <2>1, <3>1
    <3>4. Fresh(m, n, v, c)
        BY <3>2, <3>3, RemovedFresh
    <3> QED
        BY <3>1, <3>2, <3>4
  <2> HIDE DEF c, t, g
  <2>4. Shaped(h.tree) /\ OwnLeaf(m, h)
      BY <1>f, <2>1, <2>3
  <2> HIDE DEF h
  <2> QED
      BY <2>2, <2>3, <2>4, PublishLeaves DEF c, g
<1>5. ASSUME NEW m \in DOMAIN group, NEW adopt \in BOOLEAN, update_key(m, adopt)
      PROVE  LeavesInv'
  <2> DEFINE g == group[m]
             t == rekeyed(g.tree, m, MyNode(g), c)
             h == IF adopt THEN committed(g, t, c, LeafKey(m, c), g.consumed) ELSE g
  <2>1. g \in Handle /\ Shaped(g.tree) /\ OwnLeaf(m, g)
      BY MemberStarts
  <2>2. /\ commits' = Append(commits, new_commit(m, g, t, c))
        /\ SetHandle(m, h)
        /\ UNCHANGED welcomes
      BY <1>5 DEF update_key
  <2>3. Fresh(m, g, t, c)
    <3>1. PICK n : n = g
        OBVIOUS
    <3>2. PICK v : v = rekeyed(n.tree, m, MyNode(n), c)
        OBVIOUS
    <3>3. Shaped(n.tree) /\ OwnLeaf(m, n)
        BY <2>1, <3>1
    <3>4. Fresh(m, n, v, c)
        BY <3>2, <3>3, UpdatedFresh
    <3> QED
        BY <3>1, <3>2, <3>4
  <2> HIDE DEF c, t, g
  <2>4. Shaped(h.tree) /\ OwnLeaf(m, h)
      BY <1>f, <2>1, <2>3
  <2> HIDE DEF h
  <2> QED
      BY <2>2, <2>3, <2>4, PublishLeaves DEF c, g
<1>6. ASSUME NEW m \in Clients, NEW w \in welcomes, join(m, w) PROVE LeavesInv'
  <2> DEFINE h == joined(m, w)
  <2>1. /\ SetHandle(m, h) /\ UNCHANGED <<commits, welcomes>>
        /\ Owner[w.new_member] = m /\ OwnLeaves(w.tree, m) # {}
      BY <1>6 DEF join
  <2>2. w \in Welcome /\ Shaped(w.tree) /\ Invited(w)
      BY <1>0 DEF TypeOK, LeavesInv
  <2>3. OwnLeaf(m, h)
      BY <2>1, <2>2, JoinerFindsLeaf
  <2>4. h.tree = w.tree
      BY DEF joined
  <2> HIDE DEF h
  <2> QED
      BY <1>0, <2>1, <2>2, <2>3, <2>4, EnterLeaves
<1>7. ASSUME NEW m \in DOMAIN group, NEW d \in DOMAIN commits, process_update(m, d)
      PROVE  LeavesInv'
  <2>1. PICK cs \in obtained(group[m], commits[d]) :
            /\ Accepts(group[m], commits[d], d, cs)
            /\ SetHandle(m, followed(group[m], commits[d], d, cs))
            /\ UNCHANGED <<commits, welcomes>>
      BY <1>7 DEF process_update
  <2>2. PICK h : h = followed(group[m], commits[d], d, cs)
      OBVIOUS
  <2>3. Shaped(h.tree) /\ OwnLeaf(m, h)
      BY <2>1, <2>2, FollowedLeaf
  <2> QED
      BY <1>0, <2>1, <2>2, <2>3, EnterLeaves
<1>8. CASE UNCHANGED vars
    BY <1>0, <1>8 DEF vars, LeavesInv
<1> QED
    BY <1>1, <1>2, <1>3, <1>4, <1>5, <1>6, <1>7, <1>8 DEF Next

LEMMA StepMember ==
    ASSUME UniqueInvites
    PROVE  MemberInv /\ [Next]_vars => MemberInv'
<1>1. MemberInv /\ [Next]_vars => HistoryInv'
    BY StepAgrees, StepOwned DEF MemberInv, HistoryInv
<1>2. MemberInv /\ [Next]_vars => LeavesInv'
    BY StepLeaves
<1> QED
    BY <1>1, <1>2 DEF MemberInv

LEMMA InitMember == Init => MemberInv
<1>1. Init => DOMAIN group = {} /\ DOMAIN commits = {} /\ welcomes = {}
    BY DEF Init
<1> QED
    BY <1>1, InitTyped DEF MemberInv, HistoryInv, AgreementInv, OwnershipInv, LeavesInv

LEMMA AlwaysMember ==
    ASSUME UniqueInvites
    PROVE  Spec => []MemberInv
BY InitMember, StepMember, PTL DEF Spec

-----------------------------------------------------------------------------
(* What the invariant says *)

(***************************************************************************)
(* Every handle's index is that of a leaf of its own client, whatever      *)
(* others added, removed and raced: a client whose leaf was removed, or    *)
(* given to another, never gets into that epoch by process_update, which   *)
(* does not look at the leaf of its index in the tree it adopts.           *)
(***************************************************************************)
THEOREM OwnLeavesStay ==
    ASSUME UniqueInvites
    PROVE  Spec => []OwnLeafPresent
<1>1. MemberInv => OwnLeafPresent
  <2>1. SUFFICES ASSUME MemberInv, NEW m \in DOMAIN group
                 PROVE  get_node(group[m].tree, MyNode(group[m])) \in
                            [type : {"leaf"}, sig : {m}, kem : Key]
      BY DEF OwnLeafPresent
  <2>2. PICK g : g = group[m]
      OBVIOUS
  <2>3. g \in Handle /\ Shaped(g.tree) /\ OwnLeaf(m, g)
      BY <2>1, <2>2, MemberStarts
  <2>4. PICK n : n = get_node(g.tree, MyNode(g))
      OBVIOUS
  <2>5. IsLeaf(n) /\ n.sig = m
      BY <2>3, <2>4 DEF OwnLeaf, Shaped, OneLeafEach
  <2>6. n \in Node
      BY <2>3, <2>4, GetNodeType DEF Handle
  <2>7. n \in [type : {"leaf"}, sig : {m}, kem : Key]
      BY <2>5, <2>6 DEF Node, IsLeaf, Blank
  <2> QED
      BY <2>2, <2>4, <2>7
<1> QED
    BY <1>1, AlwaysMember, PTL

\* Where a commit was made, the key of one's leaf is enough to follow it.
LEMMA FollowerOpens ==
    ASSUME NEW m, NEW g \in Handle, Shaped(g.tree), OwnLeaf(m, g),
           LastOf(g.secret).context = old_context(g),
           NEW u, NEW c, u.tree \in Tree, u.committer_index \in Nat, Made(u, c), Grown(u),
           ShouldFollow(g, u)
    PROVE  \E cs \in obtained(g, u) : Accepts(g, u, c, cs)
<1> DEFINE from == old_context(g)
           t == u.tree
           x == CommitterNode(u)
           y == MyNode(g)
           cs == commit_secret(t, x, c)
<1>1. /\ u.membership_tag = g.secret
      /\ get_node(t, y) = get_node(g.tree, y) /\ u.committer_index # g.index
      /\ get_node(g.tree, y).kem = g.kem
    BY DEF ShouldFollow, KeepsLeaf, HoldsLeafKey
<1>2. u.signed = from
    BY <1>1 DEF Made
<1>3. /\ from.group_id = g.group_id /\ from.epoch = g.epoch
      /\ from.transcript = g.interim /\ from.tree_hash = g.tree
    BY DEF old_context, make_group_context
<1> HIDE DEF from
<1>4. /\ u.group_id = g.group_id /\ u.epoch_id = g.epoch + 1
      /\ u.info = make_group_context(g.group_id, u.epoch_id, t, g.interim)
      /\ u.confirmation_tag = advance_epoch(g, t, c, cs)
  <2>1. /\ u.group_id = g.group_id /\ u.epoch_id = g.epoch + 1
        /\ u.info = make_group_context(g.group_id, g.epoch + 1, t, g.interim)
        /\ u.confirmation_tag =
               derive(g.secret, cs, make_group_context(g.group_id, g.epoch + 1, t,
                                         confirmed_transcript_hash(g.interim, c)))
      BY <1>1, <1>2, <1>3 DEF Made
  <2> QED
      BY <2>1 DEF advance_epoch, next_transcript
<1>5. IsLeaf(get_node(g.tree, x)) /\ get_node(g.tree, x).sig = u.signer
    BY <1>2, <1>3 DEF Grown
<1>6. y \in Occupied(g.tree) /\ IsLeaf(get_node(g.tree, y))
    BY DEF OwnLeaf, Shaped, OneLeafEach
<1>7. Accepts(g, u, c, cs)
    BY <1>1, <1>2, <1>4, <1>5, <1>6 DEF Accepts, Authentic, CommitterNode, from
<1>8. Len(Direct(t, x)) \in Nat
    BY NumLeavesType, DirectPathType DEF Direct
<1>9. u.update_path = update_path(t, x, c) /\ u.encrypted_commit_secrets = legacy_secrets(t, x, c)
    BY DEF Made
<1>10. /\ DOMAIN update_path(t, x, c) = 1 .. Len(Direct(t, x))
       /\ Len(update_path(t, x, c)) = Len(Direct(t, x))
       /\ \A i \in DOMAIN update_path(t, x, c) : \A ct \in update_path(t, x, c)[i] :
              ct.to = get_node(t, ct.node).kem /\ ct.secret = PathSecret(c, i)
  <2>1. DOMAIN update_path(t, x, c) = 1 .. Len(Direct(t, x))
      BY DEF update_path
  <2>2. Len(update_path(t, x, c)) = Len(Direct(t, x))
      BY <1>8 DEF update_path
  <2>3. ASSUME NEW i \in DOMAIN update_path(t, x, c), NEW ct \in update_path(t, x, c)[i]
        PROVE  ct.to = get_node(t, ct.node).kem /\ ct.secret = PathSecret(c, i)
    <3> HIDE DEF t, x
    <3> QED
        BY <2>3 DEF update_path
  <2> QED
      BY <2>1, <2>2, <2>3
<1>11. CASE Addressed(g, u) # {}
  <2>1. PICK S : S = Addressed(g, u)
      OBVIOUS
  <2>2. S \in SUBSET Nat /\ S # {}
      BY <1>8, <1>9, <1>10, <1>11, <2>1 DEF Addressed
  <2>3. PICK i \in S : \A k \in S : i <= k
      BY <2>2, LeastNumber
  <2>4. i \in DOMAIN u.update_path /\ \E ct \in u.update_path[i] : ct.node = MyNode(g)
      BY <2>1, <2>3 DEF Addressed
  <2>5. PICK ct \in u.update_path[i] : ct.node = MyNode(g)
      BY <2>4
  <2>6. ct.to = g.kem /\ ct.secret = PathSecret(c, i)
      BY <1>1, <1>9, <1>10, <2>4, <2>5
  <2>7. derive_next_path_secret(ct.secret, Len(u.update_path) - i) \in path_secrets(g, u)
    <3>1. i \in {j \in Addressed(g, u) : \A k \in Addressed(g, u) : j <= k}
        BY <2>1, <2>3
    <3>2. ct \in {e \in u.update_path[i] : e.node = MyNode(g) /\ e.to = g.kem}
        BY <2>5, <2>6
    <3> DEFINE first == {j \in Addressed(g, u) : \A k \in Addressed(g, u) : j <= k}
               opened(j) == {derive_next_path_secret(e.secret, Len(u.update_path) - j) :
                                 e \in {e \in u.update_path[j] : e.node = MyNode(g) /\ e.to = g.kem}}
    <3>3. path_secrets(g, u) = UNION {opened(j) : j \in first}
        BY DEF path_secrets
    <3>4. derive_next_path_secret(ct.secret, Len(u.update_path) - i) \in opened(i)
        BY <3>2
    <3>5. i \in first
        BY <3>1
    <3> HIDE DEF first, opened
    <3> QED
        BY <3>3, <3>4, <3>5
  <2>8. derive_next_path_secret(ct.secret, Len(u.update_path) - i) = cs
    <3>1. i \in Nat /\ Len(u.update_path) = Len(Direct(t, x))
        BY <1>9, <1>10, <2>2, <2>3
    <3>2. i + (Len(u.update_path) - i) = Len(Direct(t, x))
        BY <1>8, <3>1
    <3> QED
        BY <2>6, <3>2 DEF derive_next_path_secret, PathSecret, commit_secret
  <2>9. cs \in obtained(g, u)
      BY <1>4, <1>11, <2>7, <2>8 DEF obtained
  <2> QED
      BY <1>7, <2>9
<1>12. CASE Addressed(g, u) = {}
  <2>1. y \in Occupied(t) /\ IsLeaf(get_node(t, y))
    <3>1. y \in NodeIds(g.tree) /\ y % 2 = 0 /\ get_node(g.tree, y) # Blank
        BY <1>6, OccupiedIs
    <3>2. get_node(t, y) # Blank
        BY <1>1, <3>1
    <3>3. y \in NodeIds(t)
        BY <3>2 DEF get_node
    <3> QED
        BY <1>1, <1>6, <3>1, <3>2, <3>3, OccupiedIs
  <2>2. y # x
      BY <1>1 DEF MyNode, CommitterNode, Handle
  <2>3. PICK s : s = [ref |-> get_node(t, y), to |-> get_node(t, y).kem, secret |-> cs]
      OBVIOUS
  <2>4. s \in legacy_secrets(t, x, c)
    <3>1. y \in {z \in Occupied(t) \ {x} : IsLeaf(get_node(t, z))}
        BY <2>1, <2>2
    <3> QED
        BY <2>3, <3>1, Zenon DEF legacy_secrets
  <2>5. s.ref = get_node(g.tree, y) /\ s.to = g.kem /\ s.secret = cs
      BY <1>1, <2>3
  <2>6. cs \in fallback_secrets(g, u)
      BY <1>9, <2>4, <2>5 DEF fallback_secrets
  <2>7. cs \in obtained(g, u)
      BY <1>4, <1>12, <2>6 DEF obtained
  <2> QED
      BY <1>7, <2>7
<1> QED
    BY <1>11, <1>12

(***************************************************************************)
(* Nobody who should be able to follow a commit is shut out: a member in   *)
(* the epoch that a commit was made in, whose leaf the commit keeps and    *)
(* who has the key of that leaf, obtains the commit secret, from the path  *)
(* or by reference, and process_update's checks let it through.            *)
(***************************************************************************)
THEOREM MembersCanFollow ==
    ASSUME UniqueInvites
    PROVE  Spec => []CanFollow
<1>1. MemberInv => CanFollow
  <2>1. SUFFICES ASSUME MemberInv, NEW m \in DOMAIN group, NEW c \in DOMAIN commits,
                        ShouldFollow(group[m], commits[c])
                 PROVE  \E cs \in obtained(group[m], commits[c]) :
                            Accepts(group[m], commits[c], c, cs)
      BY DEF CanFollow
  <2>2. PICK g : g = group[m]
      OBVIOUS
  <2>3. PICK u : u = commits[c]
      OBVIOUS
  <2>4. /\ g \in Handle /\ Shaped(g.tree) /\ OwnLeaf(m, g)
        /\ LastOf(g.secret).context = old_context(g)
      BY <2>1, <2>2, MemberStarts
  <2>5. Made(u, c) /\ Grown(u)
      BY <2>1, <2>3 DEF MemberInv, LeavesInv
  <2>6. u \in GroupUpdate
      BY <2>1, <2>3 DEF MemberInv, HistoryInv, AgreementInv, TypeOK
  <2>7. u.tree \in Tree /\ u.committer_index \in Nat
      BY <2>6 DEF GroupUpdate
  <2>8. ShouldFollow(g, u)
      BY <2>1, <2>2, <2>3
  <2>9. \E cs \in obtained(g, u) : Accepts(g, u, c, cs)
      BY <2>4, <2>5, <2>7, <2>8, FollowerOpens
  <2> QED
      BY <2>2, <2>3, <2>9
<1> QED
    BY <1>1, AlwaysMember, PTL

-----------------------------------------------------------------------------
(* Who loses a key *)

\* A call of k sets k's handle only: who loses a key by it is k.
LEMMA NobodyElseLoses ==
    ASSUME NEW k, NEW h, SetHandle(k, h), NEW m \in DOMAIN group,
           HoldsLeafKey(group[m]), ~HoldsLeafKey(group'[m])
    PROVE  m = k /\ group'[m] = h /\ ~HoldsLeafKey(h)
<1>1. m \in DOMAIN group \cup {k} /\ group'[m] = IF m = k THEN h ELSE group[m]
    BY DEF SetHandle
<1>2. PICK n : n = group'[m]
    OBVIOUS
<1>3. ~HoldsLeafKey(n)
    BY <1>2
<1>4. CASE m # k
  <2>1. n = group[m]
      BY <1>1, <1>2, <1>4
  <2>2. HoldsLeafKey(n)
      BY <2>1
  <2> QED
      BY <1>3, <2>2
<1>5. CASE m = k
  <2>1. n = h
      BY <1>1, <1>2, <1>5
  <2> QED
      BY <1>2, <1>3, <1>5, <2>1
<1> QED
    BY <1>4, <1>5

LEMMA StepKeepsKeys ==
    ASSUME UniqueInvites, MemberInv, Next, NEW m \in DOMAIN group,
           HoldsLeafKey(group[m]), ~HoldsLeafKey(group'[m])
    PROVE  LeavesWithoutKey(m)
<1> DEFINE c == Len(commits) + 1
<1>m. PICK g : g = group[m]
    OBVIOUS
<1>g. /\ TypeOK /\ g \in Handle /\ Shaped(g.tree) /\ OwnLeaf(m, g) /\ HoldsLeafKey(g)
    BY <1>m, MemberStarts
<1>k. ASSUME NEW used PROVE HoldsLeafKey([g EXCEPT !.consumed = used])
  <2>1. PICK h : h = [g EXCEPT !.consumed = used]
      OBVIOUS
  <2>2. h.tree = g.tree /\ MyNode(h) = MyNode(g) /\ h.kem = g.kem
      BY <1>g, <2>1 DEF Handle, MyNode
  <2>3. HoldsLeafKey(h)
      BY <1>g, <2>2 DEF HoldsLeafKey
  <2> QED
      BY <2>1, <2>3
<1>f. ASSUME NEW t, Fresh(m, g, t, c), NEW used
      PROVE  HoldsLeafKey(committed(g, t, c, LeafKey(m, c), used))
  <2> HIDE DEF c
  <2> QED
      BY <1>f, CommitterKeepsLeaf DEF Fresh
<1>1. ASSUME NEW k \in Clients, NEW gid \in GroupIds, Create(k, gid) PROVE FALSE
  <2>1. PICK h : SetHandle(k, h)
      BY <1>1 DEF Create
  <2>2. m = k
      BY <2>1, NobodyElseLoses
  <2> QED
      BY <1>1, <2>2 DEF Create
<1>2. ASSUME NEW k \in DOMAIN group, NEW kp \in KeyPackages, NEW adopt \in BOOLEAN,
             add_member(k, kp, adopt)
      PROVE  FALSE
  <2> DEFINE n == group[k]
             used == n.consumed \cup {kp}
             t == rekeyed(place_leaf(n.tree, LeafNode(Owner[kp], EncKey(kp))), k, MyNode(n), c)
             h == IF adopt THEN committed(n, t, c, LeafKey(k, c), used)
                  ELSE [n EXCEPT !.consumed = used]
  <2>1. SetHandle(k, h) /\ MayInvite(k, kp)
      BY <1>2 DEF add_member
  <2>2. Owner[kp] \notin Roster(n.tree)
      BY <2>1 DEF MayInvite, Roster
  <2> HIDE DEF h
  <2>3. m = k /\ ~HoldsLeafKey(h)
      BY <2>1, NobodyElseLoses
  <2>4. PICK v : v = t
      OBVIOUS
  <2>5. PICK spent : spent = used
      OBVIOUS
  <2>6. v = rekeyed(place_leaf(g.tree, LeafNode(Owner[kp], EncKey(kp))), m, MyNode(g), c)
      BY <1>m, <2>3, <2>4
  <2>7. Owner[kp] \notin Roster(g.tree)
      BY <1>m, <2>2, <2>3
  <2> HIDE DEF c, t, used
  <2>8. Fresh(m, g, v, c)
      BY <1>g, <2>6, <2>7, AddedFresh
  <2>9. h = IF adopt THEN committed(g, v, c, LeafKey(m, c), spent)
            ELSE [g EXCEPT !.consumed = spent]
      BY <1>m, <2>3, <2>4, <2>5 DEF h
  <2> QED
      BY <1>f, <1>k, <2>3, <2>8, <2>9
<1>3. ASSUME NEW k \in DOMAIN group, NEW kp \in KeyPackages, add_member_refused(k, kp)
      PROVE  FALSE
  <2>1. PICK used : used = group[k].consumed \cup {kp}
      OBVIOUS
  <2>2. PICK h : h = [group[k] EXCEPT !.consumed = used]
      OBVIOUS
  <2>3. SetHandle(k, h)
      BY <1>3, <2>1, <2>2 DEF add_member_refused
  <2>4. m = k /\ ~HoldsLeafKey(h)
      BY <2>3, NobodyElseLoses
  <2>5. h = [g EXCEPT !.consumed = used]
      BY <1>m, <2>2, <2>4
  <2> QED
      BY <1>k, <2>4, <2>5
<1>4. ASSUME NEW k \in DOMAIN group, NEW adopt \in BOOLEAN,
             NEW target \in Targets(group[k]), remove_member(k, target, adopt)
      PROVE  LeavesWithoutKey(m)
  <2>1. PICK h : SetHandle(k, h) /\ (~adopt => h = group[k])
      BY <1>4 DEF remove_member
  <2>2. m = k /\ ~HoldsLeafKey(h)
      BY <2>1, NobodyElseLoses
  <2>3. adopt = TRUE
    <3>1. ASSUME ~adopt PROVE FALSE
        BY <1>g, <1>m, <2>1, <2>2, <3>1
    <3> QED
        BY <3>1
  <2>4. remove_member(m, target, TRUE) /\ target \in Targets(group[m])
      BY <1>4, <2>2, <2>3
  <2> QED
      BY <2>4 DEF LeavesWithoutKey
<1>5. ASSUME NEW k \in DOMAIN group, NEW adopt \in BOOLEAN, update_key(k, adopt)
      PROVE  FALSE
  <2> DEFINE n == group[k]
             t == rekeyed(n.tree, k, MyNode(n), c)
             h == IF adopt THEN committed(n, t, c, LeafKey(k, c), n.consumed) ELSE n
  <2>1. SetHandle(k, h)
      BY <1>5 DEF update_key
  <2> HIDE DEF h
  <2>2. m = k /\ ~HoldsLeafKey(h)
      BY <2>1, NobodyElseLoses
  <2>3. PICK v : v = t
      OBVIOUS
  <2>4. v = rekeyed(g.tree, m, MyNode(g), c)
      BY <1>m, <2>2, <2>3
  <2> HIDE DEF c, t
  <2>5. Fresh(m, g, v, c)
      BY <1>g, <2>4, UpdatedFresh
  <2>6. h = IF adopt THEN committed(g, v, c, LeafKey(m, c), g.consumed) ELSE g
      BY <1>m, <2>2, <2>3 DEF h
  <2> QED
      BY <1>f, <1>g, <2>2, <2>5, <2>6
<1>6. ASSUME NEW k \in Clients, NEW w \in welcomes, join(k, w) PROVE LeavesWithoutKey(m)
  <2>1. PICK h : h = joined(k, w)
      OBVIOUS
  <2>2. SetHandle(k, h) /\ Owner[w.new_member] = k /\ OwnLeaves(w.tree, k) # {}
      BY <1>6, <2>1 DEF join
  <2>3. m = k /\ ~HoldsLeafKey(h)
      BY <2>2, NobodyElseLoses
  <2>4. w \in Welcome /\ Shaped(w.tree) /\ Invited(w)
      BY <1>g DEF TypeOK, MemberInv, LeavesInv
  <2>5. w.new_member \in SplitKeys
      BY <2>1, <2>2, <2>3, <2>4, JoinerFindsLeaf
  <2>6. join(m, w)
      BY <1>6, <2>3
  <2> QED
      BY <2>5, <2>6 DEF LeavesWithoutKey
<1>7. ASSUME NEW k \in DOMAIN group, NEW d \in DOMAIN commits, process_update(k, d)
      PROVE  FALSE
  <2>1. PICK cs \in obtained(group[k], commits[d]) :
            /\ Accepts(group[k], commits[d], d, cs)
            /\ SetHandle(k, followed(group[k], commits[d], d, cs))
      BY <1>7 DEF process_update
  <2>2. PICK h : h = followed(group[k], commits[d], d, cs)
      OBVIOUS
  <2>3. HoldsLeafKey(h)
      BY <2>1, <2>2, FollowedLeaf
  <2>4. ~HoldsLeafKey(h)
      BY <2>1, <2>2, NobodyElseLoses
  <2> QED
      BY <2>3, <2>4
<1> QED
    BY <1>1, <1>2, <1>3, <1>4, <1>5, <1>6, <1>7 DEF Next

\* Who had no handle and is left without its leaf's key has joined.
LEMMA NewcomerKeepsKey ==
    ASSUME UniqueInvites, MemberInv, Next, NEW m \in DOMAIN group', m \notin DOMAIN group,
           ~HoldsLeafKey(group'[m])
    PROVE  LeavesWithoutKey(m)
<1>1. ASSUME NEW k, NEW h, SetHandle(k, h) PROVE m = k /\ ~HoldsLeafKey(h)
  <2>1. DOMAIN group' = DOMAIN group \cup {k} /\ group'[k] = h
      BY <1>1 DEF SetHandle
  <2>2. m = k
      BY <2>1
  <2>3. group'[m] = h
      BY <2>1, <2>2
  <2> QED
      BY <2>2, <2>3
<1>2. ASSUME NEW k \in Clients, NEW gid \in GroupIds, Create(k, gid) PROVE FALSE
  <2>1. PICK h : h = Founded(k, gid)
      OBVIOUS
  <2>2. SetHandle(k, h)
      BY <1>2, <2>1 DEF Create, Founded
  <2>3. h.tree = <<LeafNode(k, FounderKey(k))>> /\ h.index = 0 /\ h.kem = FounderKey(k)
      BY <2>1 DEF Founded
  <2>4. get_node(h.tree, MyNode(h)) = LeafNode(k, FounderKey(k))
      BY <2>3 DEF get_node, NodeIds, MyNode
  <2>5. HoldsLeafKey(h)
      BY <2>3, <2>4, LeafIsNotBlank DEF HoldsLeafKey
  <2> QED
      BY <1>1, <2>2, <2>5
<1>3. ASSUME NEW k \in Clients, NEW w \in welcomes, join(k, w) PROVE LeavesWithoutKey(m)
  <2>1. PICK h : h = joined(k, w)
      OBVIOUS
  <2>2. SetHandle(k, h) /\ Owner[w.new_member] = k /\ OwnLeaves(w.tree, k) # {}
      BY <1>3, <2>1 DEF join
  <2>3. m = k /\ ~HoldsLeafKey(h)
      BY <1>1, <2>2
  <2>4. w \in Welcome /\ Shaped(w.tree) /\ Invited(w)
      BY DEF TypeOK, MemberInv, HistoryInv, AgreementInv, LeavesInv
  <2>5. w.new_member \in SplitKeys
      BY <2>1, <2>2, <2>3, <2>4, JoinerFindsLeaf
  <2>6. join(m, w)
      BY <1>3, <2>3
  <2> QED
      BY <2>5, <2>6 DEF LeavesWithoutKey
<1>4. ASSUME NEW k \in DOMAIN group, NEW h, SetHandle(k, h) PROVE FALSE
    BY <1>1, <1>4
<1>5. ASSUME NEW k \in DOMAIN group, NEW kp \in KeyPackages, NEW adopt \in BOOLEAN,
             add_member(k, kp, adopt)
      PROVE  FALSE
    BY <1>4, <1>5 DEF add_member
<1>6. ASSUME NEW k \in DOMAIN group, NEW kp \in KeyPackages, add_member_refused(k, kp)
      PROVE  FALSE
    BY <1>4, <1>6 DEF add_member_refused
<1>7. ASSUME NEW k \in DOMAIN group, NEW adopt \in BOOLEAN,
             NEW target \in Targets(group[k]), remove_member(k, target, adopt)
      PROVE  FALSE
    BY <1>4, <1>7 DEF remove_member
<1>8. ASSUME NEW k \in DOMAIN group, NEW adopt \in BOOLEAN, update_key(k, adopt)
      PROVE  FALSE
    BY <1>4, <1>8 DEF update_key
<1>9. ASSUME NEW k \in DOMAIN group, NEW d \in DOMAIN commits, process_update(k, d)
      PROVE  FALSE
    BY <1>4, <1>9 DEF process_update
<1> QED
    BY <1>2, <1>3, <1>5, <1>6, <1>7, <1>8, <1>9 DEF Next

(***************************************************************************)
(* A handle comes to lack the private key of its leaf by two calls of its  *)
(* own client only, whatever steps others take and in any interleaving:    *)
(* adopting the handle that remove_member returns, which carries the key   *)
(* of the leaf that the commit replaced, and joining, for the first time   *)
(* or anew, with a package whose init key is not its leaf's.               *)
(***************************************************************************)
THEOREM KeysLostByOwnCalls ==
    ASSUME UniqueInvites
    PROVE  Spec => KeyLostByOwnCall
<1>1. ASSUME MemberInv, Next, NEW m \in DOMAIN group',
             m \in DOMAIN group => HoldsLeafKey(group[m]), ~HoldsLeafKey(group'[m])
      PROVE  LeavesWithoutKey(m)
  <2>1. CASE m \in DOMAIN group
      BY <1>1, <2>1, StepKeepsKeys
  <2>2. CASE m \notin DOMAIN group
      BY <1>1, <2>2, NewcomerKeepsKey
  <2> QED
      BY <2>1, <2>2
<1>2. MemberInv /\ [Next]_vars
      => [\A m \in DOMAIN group' :
             /\ m \in DOMAIN group => HoldsLeafKey(group[m])
             /\ ~HoldsLeafKey(group'[m])
             => LeavesWithoutKey(m)]_vars
    BY <1>1
<1> QED
    BY <1>2, AlwaysMember, PTL DEF Spec, KeyLostByOwnCall
=============================================================================

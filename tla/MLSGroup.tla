------------------------------ MODULE MLSGroup ------------------------------
(***************************************************************************)
(* The group state machine of pure_mls: class MLSGroup of group.py on top  *)
(* of RatchetTree, EpochState and KeySchedule.                             *)
(*                                                                         *)
(* Each client holds at most one MLSGroup object, its handle.  add_member, *)
(* remove_member and update_key return a new object next to the commit     *)
(* they publish, and leave the old object usable; the application adopts   *)
(* the new one or loses it (a crash before it is saved, a commit its       *)
(* delivery service turned down).  A published commit or welcome stays     *)
(* available for ever and is taken by anyone, at any time, any number of   *)
(* times or never: this is a transport that loses, delays, duplicates and  *)
(* reorders, and does not forge.                                           *)
(*                                                                         *)
(* Cryptography is symbolic.  A key pair is one value.  A ciphertext names *)
(* the key it is sealed to.  A hash, a MAC or a derived secret is the term *)
(* it was computed from.  The n-th commit ever made is called n; it draws  *)
(* the leaf key LeafKey(m, n) and the path secrets <<n, 0>>, <<n, 1>>, ... *)
(* where <<n, i + 1>> is derived from <<n, i>>.                            *)
(***************************************************************************)
EXTENDS RatchetTree

CONSTANTS Clients,       \* identities, each with one signature key
          GroupIds,      \* names of groups
          Founders,      \* the clients that call create
          KeyPackages,   \* published key packages
          Owner,         \* the client that made a key package
          SplitKeys,     \* the packages whose init key is not the leaf's key
          Unsigned,      \* the packages whose signature does not verify
          MaxCommits,    \* bound: commits ever made
          UniqueInvites, \* the application invites only absent identities
          FreshPackages  \* the application invites with no key that is in the tree

ASSUME ConstantsAssumption ==
    /\ Founders \subseteq Clients
    /\ Owner \in [KeyPackages -> Clients]
    /\ SplitKeys \subseteq KeyPackages
    /\ Unsigned \subseteq KeyPackages
    /\ MaxCommits \in Nat
    /\ UniqueInvites \in BOOLEAN
    /\ FreshPackages \in BOOLEAN

VARIABLES group,    \* the handles: a function on the clients that have one
          commits,  \* the GroupUpdates published so far, in order
          welcomes  \* the Welcomes published so far

vars == <<group, commits, welcomes>>

-----------------------------------------------------------------------------
(* Keys and secrets *)

FounderKey(m) == <<"own", m, 0>>
LeafKey(m, c) == <<"leaf", m, c>>
EncKey(kp)    == <<"enc", Owner[kp], kp>>
InitKey(kp)   == IF kp \in SplitKeys THEN <<"init", Owner[kp], kp>> ELSE EncKey(kp)
PathKey(ps)   == <<"path", ps[1], ps[2]>>

PathSecret(c, i) == <<c, i>>
derive_next_path_secret(ps, times) == <<ps[1], ps[2] + times>>
ZeroSecret == <<0, 0>>

\* Mutant of make_group_context: the context of the epoch before.
make_group_contextBehind(gid, epoch, tree, transcript) ==
    [group_id |-> gid, epoch |-> epoch - 1, tree_hash |-> tree,
     transcript |-> transcript]

make_group_context(gid, epoch, tree, transcript) ==
    [group_id |-> gid, epoch |-> epoch, tree_hash |-> tree,
     transcript |-> transcript]

\* The secret of an epoch is the chain of what every epoch so far mixed in.  The
\* code binds the context into the joiner secret and again into the epoch
\* secret; the term records it once.
joiner_secret(init, commit_secret) ==
    [init |-> init, commit_secret |-> commit_secret]
epoch_secret(joiner, context) ==
    Append(joiner.init, [commit_secret |-> joiner.commit_secret, context |-> context])
derive(init, commit_secret, context) ==
    epoch_secret(joiner_secret(init, commit_secret), context)

\* The transcript hash: the commits folded in, oldest first.  The confirmation
\* tag that the interim hash adds is a function of the transcript and of the
\* epoch secret, and whoever folds it in has computed or compared it.
confirmed_transcript_hash(interim, c) == Append(interim, c)
interim_transcript_hash(confirmed) == confirmed

-----------------------------------------------------------------------------
(* What the state is made of *)

Key == ({"own"} \X Clients \X {0}) \cup ({"leaf"} \X Clients \X Nat)
       \cup ({"enc", "init"} \X Clients \X KeyPackages)
       \cup ({"path"} \X Nat \X Nat)
Secret == Nat \X Nat
Node == {Blank} \cup [type : {"leaf"}, sig : Clients, kem : Key]
                \cup [type : {"parent"}, kem : Key]
Tree == Seq(Node)
Context == [group_id : GroupIds, epoch : Nat, tree_hash : Tree, transcript : Seq(Nat)]
EpochSecret == Seq([commit_secret : Secret, context : Context])

Handle == [group_id : GroupIds, epoch : Nat, tree : Tree, secret : EpochSecret,
           interim : Seq(Nat), index : Nat, kem : Key,
           consumed : SUBSET KeyPackages]

Ciphertext == [node : Nat, to : Key, secret : Secret]
SealedToRef == [ref : Node, to : Key, secret : Secret]

GroupUpdate == [group_id : GroupIds, epoch_id : Nat, tree : Tree,
                committer_index : Nat, update_path : Seq(SUBSET Ciphertext),
                encrypted_commit_secrets : SUBSET SealedToRef,
                info : Context, signer : Clients, signed : Context,
                membership_tag : EpochSecret, confirmation_tag : EpochSecret]

Welcome == [new_member : KeyPackages, init_key : Key,
            joiner_secret : [init : EpochSecret, commit_secret : Secret],
            context : Context, tree : Tree, confirmation_tag : EpochSecret,
            signer : Nat, signed_by : Clients]

TypeOK ==
    /\ DOMAIN group \subseteq Clients
    /\ group \in [DOMAIN group -> Handle]
    /\ commits \in Seq(GroupUpdate)
    /\ welcomes \subseteq Welcome

-----------------------------------------------------------------------------
(* Building a commit *)

MyNode(g) == 2 * g.index

Direct(t, x) == direct_path(num_leaves(t), x)

\* The committer's leaf and the nodes above it get the keys of commit c.
rekeyed(t, m, x, c) ==
    LET dp == Direct(t, x)
    IN  [j \in 1 .. Len(t) |->
            IF j - 1 = x THEN LeafNode(m, LeafKey(m, c))
            ELSE IF \E i \in DOMAIN dp : dp[i] = j - 1
            THEN ParentNode(PathKey(PathSecret(c, CHOOSE i \in DOMAIN dp : dp[i] = j - 1)))
            ELSE t[j]]

\* The path secret of each step, sealed to the resolution of its sibling.
update_path(t, x, c) ==
    LET dp  == Direct(t, x)
        cop == copath(num_leaves(t), x)
        recipients(i) == {r \in NodeIds(t) : /\ r \in resolution(t, cop[i])
                                             /\ get_node(t, r) # Blank}
    IN  [i \in 1 .. Len(dp) |->
            {[node |-> r, to |-> get_node(t, r).kem, secret |-> PathSecret(c, i)] :
                r \in recipients(i)}]

\* The last secret of the path, or the leaf's when there is no path.
commit_secret(t, x, c) == PathSecret(c, Len(Direct(t, x)))

\* The commit secret sealed to every other leaf, by reference.
legacy_secrets(t, x, c) ==
    {[ref |-> get_node(t, y), to |-> get_node(t, y).kem,
      secret |-> commit_secret(t, x, c)] :
        y \in {z \in Occupied(t) \ {x} : IsLeaf(get_node(t, z))}}

old_context(g) == make_group_context(g.group_id, g.epoch, g.tree, g.interim)

\* The epoch after g, for one who knows the tree, the commit and its secret.
next_transcript(g, c) == confirmed_transcript_hash(g.interim, c)
advance_epoch(g, t, c, cs) ==
    derive(g.secret, cs,
           make_group_context(g.group_id, g.epoch + 1, t, next_transcript(g, c)))

\* Commit c of client m with handle g, to the tree t (already rekeyed).
new_commit(m, g, t, c) ==
    [group_id |-> g.group_id, epoch_id |-> g.epoch + 1, tree |-> t,
     committer_index |-> g.index,
     update_path |-> update_path(t, MyNode(g), c),
     encrypted_commit_secrets |-> legacy_secrets(t, MyNode(g), c),
     info |-> make_group_context(g.group_id, g.epoch + 1, t, g.interim),
     signer |-> m,
     signed |-> old_context(g),
     membership_tag |-> g.secret,
     confirmation_tag |-> advance_epoch(g, t, c, commit_secret(t, MyNode(g), c))]

\* The committer's handle in the new epoch.
committed(g, t, c, kem, consumed) ==
    [group_id |-> g.group_id, epoch |-> g.epoch + 1, tree |-> t,
     secret |-> advance_epoch(g, t, c, commit_secret(t, MyNode(g), c)),
     interim |-> interim_transcript_hash(next_transcript(g, c)),
     index |-> g.index, kem |-> kem, consumed |-> consumed]

\* The welcome of commit c for the owner of kp.
new_welcome(m, g, t, c, kp) ==
    LET context == make_group_context(g.group_id, g.epoch + 1, t, next_transcript(g, c))
        joiner == joiner_secret(g.secret, commit_secret(t, MyNode(g), c))
    IN  [new_member |-> kp, init_key |-> InitKey(kp), joiner_secret |-> joiner,
         context |-> context, tree |-> t,
         confirmation_tag |-> epoch_secret(joiner, context),
         signer |-> g.index, signed_by |-> m]

-----------------------------------------------------------------------------
(* The operations *)

\* m's handle becomes h; the others keep theirs.
SetHandle(m, h) ==
    group' = [k \in DOMAIN group \cup {m} |-> IF k = m THEN h ELSE group[k]]

Create(m, gid) ==
    LET tree == <<LeafNode(m, FounderKey(m))>>
        context == make_group_context(gid, 0, tree, <<>>)
    IN  /\ m \in Founders \ DOMAIN group
        /\ SetHandle(m, [group_id |-> gid, epoch |-> 0, tree |-> tree,
                         secret |-> derive(<<>>, ZeroSecret, context),
                         interim |-> <<>>, index |-> 0, kem |-> FounderKey(m),
                         consumed |-> {}])
        /\ UNCHANGED <<commits, welcomes>>

\* What the application allows.
MayInvite(m, kp) ==
    /\ UniqueInvites =>
          \A x \in Occupied(group[m].tree) : get_node(group[m].tree, x).sig # Owner[kp]
    /\ FreshPackages =>
          \A x \in Occupied(group[m].tree) : get_node(group[m].tree, x).kem # EncKey(kp)

\* The replay check records the package in the handle before anything else.
add_member(m, kp, adopt) ==
    LET g == group[m]
        c == Len(commits) + 1
        used == g.consumed \cup {kp}
        placed == place_leaf(g.tree, LeafNode(Owner[kp], EncKey(kp)))
        t == rekeyed(placed, m, MyNode(g), c)
    IN  /\ Len(commits) < MaxCommits
        /\ MayInvite(m, kp)
        /\ kp \notin g.consumed
        /\ kp \notin Unsigned
        /\ commits' = Append(commits, new_commit(m, g, t, c))
        /\ welcomes' = welcomes \cup {new_welcome(m, g, t, c, kp)}
        /\ SetHandle(m, IF adopt THEN committed(g, t, c, LeafKey(m, c), used)
                        ELSE [g EXCEPT !.consumed = used])

\* A package that does not verify is refused, but stays recorded as used.  (The
\* bound: after the last commit the record is never read again.)
add_member_refused(m, kp) ==
    /\ Len(commits) < MaxCommits
    /\ kp \in Unsigned \ group[m].consumed
    /\ MayInvite(m, kp)
    /\ SetHandle(m, [group[m] EXCEPT !.consumed = @ \cup {kp}])
    /\ UNCHANGED <<commits, welcomes>>

\* The leaf indices in range, occupied or not; not one's own.
Targets(g) == (0 .. num_leaves(g.tree) - 1) \ {g.index}

\* The new handle keeps the key of the leaf that the commit replaced.
remove_member(m, target, adopt) ==
    LET g == group[m]
        c == Len(commits) + 1
        t == rekeyed(remove_leaf(g.tree, 2 * target), m, MyNode(g), c)
    IN  /\ Len(commits) < MaxCommits
        /\ commits' = Append(commits, new_commit(m, g, t, c))
        /\ SetHandle(m, IF adopt THEN committed(g, t, c, g.kem, g.consumed) ELSE g)
        /\ UNCHANGED welcomes

\* Mutant of update_key: the new handle keeps the old key.
update_keyKeepsKey(m, adopt) ==
    LET g == group[m]
        c == Len(commits) + 1
        t == rekeyed(g.tree, m, MyNode(g), c)
    IN  /\ Len(commits) < MaxCommits
        /\ commits' = Append(commits, new_commit(m, g, t, c))
        /\ SetHandle(m, IF adopt THEN committed(g, t, c, g.kem, g.consumed) ELSE g)
        /\ UNCHANGED welcomes

update_key(m, adopt) ==
    LET g == group[m]
        c == Len(commits) + 1
        t == rekeyed(g.tree, m, MyNode(g), c)
    IN  /\ Len(commits) < MaxCommits
        /\ commits' = Append(commits, new_commit(m, g, t, c))
        /\ SetHandle(m, IF adopt THEN committed(g, t, c, LeafKey(m, c), g.consumed) ELSE g)
        /\ UNCHANGED welcomes

\* Mutant of my_leaf: the first occupied leaf.
my_leafFirst(t, m) == CHOOSE x \in Occupied(t) : \A y \in Occupied(t) : x <= y

\* The leaf a joiner takes for its own: the first with its signature key.
OwnLeaves(t, m) == {x \in Occupied(t) : get_node(t, x).sig = m}
my_leaf(t, m) == CHOOSE x \in OwnLeaves(t, m) : \A y \in OwnLeaves(t, m) : x <= y

\* The checks of GroupInfo against the tree it carries.
GroupInfoVerifies(w) ==
    LET signer == get_node(w.tree, 2 * w.signer)
    IN  /\ w.tree = w.context.tree_hash
        /\ IsLeaf(signer)
        /\ signer.sig = w.signed_by
        /\ w.confirmation_tag = epoch_secret(w.joiner_secret, w.context)

\* Mutant of joined: the transcript starts afresh.
joinedNoTranscript(m, w) ==
    [group_id |-> w.context.group_id, epoch |-> w.context.epoch,
     tree |-> w.tree, secret |-> epoch_secret(w.joiner_secret, w.context),
     interim |-> <<>>, index |-> my_leaf(w.tree, m) \div 2, kem |-> w.init_key,
     consumed |-> {}]

\* The joiner goes on with the key that opened the welcome.
joined(m, w) ==
    [group_id |-> w.context.group_id, epoch |-> w.context.epoch,
     tree |-> w.tree, secret |-> epoch_secret(w.joiner_secret, w.context),
     interim |-> interim_transcript_hash(w.context.transcript),
     index |-> my_leaf(w.tree, m) \div 2, kem |-> w.init_key,
     consumed |-> {}]

\* Any client that has the init key, whatever handle it held before.
join(m, w) ==
    /\ Owner[w.new_member] = m
    /\ w.init_key = InitKey(w.new_member)
    /\ GroupInfoVerifies(w)
    /\ OwnLeaves(w.tree, m) # {}
    /\ SetHandle(m, joined(m, w))
    /\ UNCHANGED <<commits, welcomes>>

(***************************************************************************)
(* process_update.  The receiver looks for its own leaf among the          *)
(* recipients of each step of the path, opens the first ciphertext         *)
(* addressed to it and ratchets up to the root; only when its leaf is      *)
(* nowhere on the path does it fall back to the secrets sealed by          *)
(* reference.  A ciphertext opens with the key it is sealed to, under the  *)
(* context it was sealed in.                                               *)
(***************************************************************************)
Addressed(g, u) ==
    {i \in DOMAIN u.update_path : \E ct \in u.update_path[i] : ct.node = MyNode(g)}

\* Mutant of path_secrets: one ratchet step short.
path_secretsShort(g, u) ==
    {derive_next_path_secret(ct.secret, Len(u.update_path) - ct.secret[2] - 1) :
        ct \in {ct \in UNION {u.update_path[i] : i \in Addressed(g, u)} :
                   ct.node = MyNode(g) /\ ct.to = g.kem}}

path_secrets(g, u) ==
    LET steps == Len(u.update_path)
    IN  UNION {{derive_next_path_secret(ct.secret, steps - i) :
                    ct \in {ct \in u.update_path[i] : /\ ct.node = MyNode(g)
                                                      /\ ct.to = g.kem}} :
                i \in {i \in Addressed(g, u) : \A k \in Addressed(g, u) : i <= k}}

fallback_secrets(g, u) ==
    {s.secret : s \in {s \in u.encrypted_commit_secrets :
                          /\ s.ref = get_node(g.tree, MyNode(g))
                          /\ s.to = g.kem}}

obtained(g, u) ==
    IF u.info # make_group_context(g.group_id, u.epoch_id, u.tree, g.interim) THEN {}
    ELSE IF Addressed(g, u) # {} THEN path_secrets(g, u)
    ELSE fallback_secrets(g, u)

\* Signature and membership tag, against the receiver's own current epoch.
Authentic(g, u) ==
    LET committer == get_node(g.tree, 2 * u.committer_index)
    IN  /\ IsLeaf(committer)
        /\ u.signer = committer.sig
        /\ u.signed = old_context(g)
        /\ u.membership_tag = g.secret

Accepts(g, u, c, cs) ==
    /\ u.group_id = g.group_id
    /\ u.epoch_id = g.epoch + 1
    /\ IsLeaf(get_node(g.tree, MyNode(g)))
    /\ Authentic(g, u)
    /\ u.confirmation_tag = advance_epoch(g, u.tree, c, cs)

\* Mutant of followed: the next epoch forgets the init secret of this one.
followedNoInit(g, u, c, cs) ==
    [group_id |-> g.group_id, epoch |-> g.epoch + 1, tree |-> u.tree,
     secret |-> derive(<<>>, cs, make_group_context(g.group_id, g.epoch + 1, u.tree,
                                                    next_transcript(g, c))),
     interim |-> interim_transcript_hash(next_transcript(g, c)),
     index |-> g.index, kem |-> g.kem, consumed |-> {}]

followed(g, u, c, cs) ==
    [group_id |-> g.group_id, epoch |-> g.epoch + 1, tree |-> u.tree,
     secret |-> advance_epoch(g, u.tree, c, cs),
     interim |-> interim_transcript_hash(next_transcript(g, c)),
     index |-> g.index, kem |-> g.kem, consumed |-> {}]

process_update(m, c) ==
    \E cs \in obtained(group[m], commits[c]) :
        /\ Accepts(group[m], commits[c], c, cs)
        /\ SetHandle(m, followed(group[m], commits[c], c, cs))
        /\ UNCHANGED <<commits, welcomes>>

-----------------------------------------------------------------------------
Init == /\ group = << >>
        /\ commits = << >>
        /\ welcomes = {}

Next ==
    \/ \E m \in Clients, gid \in GroupIds : Create(m, gid)
    \/ \E m \in DOMAIN group, kp \in KeyPackages, adopt \in BOOLEAN : add_member(m, kp, adopt)
    \/ \E m \in DOMAIN group, kp \in KeyPackages : add_member_refused(m, kp)
    \/ \E m \in DOMAIN group, adopt \in BOOLEAN :
          \E target \in Targets(group[m]) : remove_member(m, target, adopt)
    \/ \E m \in DOMAIN group, adopt \in BOOLEAN : update_key(m, adopt)
    \/ \E m \in Clients, w \in welcomes : join(m, w)
    \/ \E m \in DOMAIN group, c \in DOMAIN commits : process_update(m, c)

Spec == Init /\ [][Next]_vars

\* A client that keeps being handed the published commits applies one of them
\* sooner or later if process_update accepts any.
FairSpec == Spec /\ \A m \in Clients :
    WF_vars(m \in DOMAIN group /\ \E c \in DOMAIN commits : process_update(m, c))

-----------------------------------------------------------------------------
(* Correctness *)

Roster(t) == {get_node(t, x).sig : x \in Occupied(t)}

(***************************************************************************)
(* Agreement.  EpochState: "If two disconnected nodes have mathematically  *)
(* identical EpochStates, they are cryptographically synchronized."  Two   *)
(* members with the same epoch secret agree on the group, the epoch, the   *)
(* tree and the transcript, and two members whose transcripts agree on at  *)
(* least one commit share the epoch secret, however commits were lost,     *)
(* raced or replayed.                                                      *)
(***************************************************************************)
SameEpoch(g, h) ==
    /\ g.group_id = h.group_id
    /\ g.epoch = h.epoch
    /\ g.tree = h.tree
    /\ g.interim = h.interim

Agreement ==
    \A m, k \in DOMAIN group :
        LET g == group[m]
            h == group[k]
        IN  /\ g.secret = h.secret => SameEpoch(g, h)
            /\ g.interim # <<>> /\ g.interim = h.interim => g.secret = h.secret

\* A member's own leaf is in its tree, under its own signature key: a client
\* whose leaf was removed, or given to another, never gets into that epoch
\* (process_update's "Not invited to this epoch").
OwnLeafPresent ==
    \A m \in DOMAIN group :
        get_node(group[m].tree, MyNode(group[m])) \in
            [type : {"leaf"}, sig : {m}, kem : Key]

\* The handle has the private key of its leaf.
HoldsLeafKey(g) == get_node(g.tree, MyNode(g)).kem = g.kem

\* Every handle has the private key of its leaf, as the returned handle of a
\* commit should: "my_kem_key is now the fresh TreeKEM leaf key".
LeafKeyHeld == \A m \in DOMAIN group : HoldsLeafKey(group[m])

(***************************************************************************)
(* How a handle comes to lack the key of its leaf: by two calls of its own *)
(* client only.  It adopts the handle that remove_member returns, or it    *)
(* joins, for the first time or anew, with a package that has a separate   *)
(* init key or into a tree where it has another leaf before.  Whatever     *)
(* others do (add, update, remove, fork, invite it again with another      *)
(* package), following their commits keeps the key.                        *)
(***************************************************************************)
LeavesWithoutKey(m) ==
    \/ /\ m \in DOMAIN group
       /\ \E target \in Targets(group[m]) : remove_member(m, target, TRUE)
    \/ \E w \in welcomes :
          /\ join(m, w)
          /\ w.new_member \in SplitKeys \/ Cardinality(OwnLeaves(w.tree, m)) > 1

KeyLostByOwnCall ==
    [][\A m \in DOMAIN group' :
          /\ m \in DOMAIN group => HoldsLeafKey(group[m])
          /\ ~HoldsLeafKey(group'[m])
          => LeavesWithoutKey(m)]_vars

\* KeyPackage: "After joining, the leaf_node.encryption_key takes over": no
\* handle goes on with an init key that is not its leaf's key.
InitKeyRetired ==
    \A m \in DOMAIN group, kp \in SplitKeys : group[m].kem # InitKey(kp)

\* "KeyPackage Replay: This KeyPackage has already been used in this
\* instance": along one transcript no client welcomes one key package twice.
KeyPackageUsedOnce ==
    \A v, w \in welcomes :
        LET earlier == v.context.transcript
            later   == w.context.transcript
        IN  /\ v.new_member = w.new_member
            /\ v.signed_by = w.signed_by
            /\ Len(earlier) <= Len(later)
            /\ SubSeq(later, 1, Len(earlier)) = earlier
            => v = w

(***************************************************************************)
(* CanFollow.  A member that stands where a commit was made, keeps its     *)
(* leaf in the new tree, is not the committer and has the key of its leaf  *)
(* obtains the commit secret and accepts the commit.                       *)
(***************************************************************************)
KeepsLeaf(g, u) ==
    /\ get_node(u.tree, MyNode(g)) = get_node(g.tree, MyNode(g))
    /\ u.committer_index # g.index

ShouldFollow(g, u) ==
    /\ u.membership_tag = g.secret
    /\ KeepsLeaf(g, u)
    /\ HoldsLeafKey(g)

CanFollow ==
    \A m \in DOMAIN group, c \in DOMAIN commits :
        ShouldFollow(group[m], commits[c]) =>
            \E cs \in obtained(group[m], commits[c]) :
                Accepts(group[m], commits[c], c, cs)

(***************************************************************************)
(* CatchesUp.  Such a member does not stay behind: it follows that commit, *)
(* leaves the epoch another way, or joins the epoch it is in once more,    *)
(* invited twice, and loses its key (KeyLostByOwnCall).                    *)
(***************************************************************************)
AtParent(m, c) ==
    /\ m \in DOMAIN group
    /\ c \in DOMAIN commits
    /\ group[m].secret = commits[c].membership_tag

CatchesUp ==
    \A m \in Clients, c \in 1 .. MaxCommits :
        (AtParent(m, c) /\ ShouldFollow(group[m], commits[c]))
            ~> ~(AtParent(m, c) /\ HoldsLeafKey(group[m]))
=============================================================================

# A TLA+ verification project for pure-mls

`pure_mls` is a Python implementation of the Messaging Layer Security protocol
(RFC 9420): a library (`src/src/pure_mls/`), an encrypted store for group
states and a command line.  This directory holds TLA+ models of its parts, the
TLC configurations that check them on small instances, and TLAPS proofs of the
results that matter most for every instance.

Paths such as `group.py:1453` are relative to `src/src/pure_mls/`.
`PROJECT.json` gives the source lines of every definition.

## The system

| Part | State | Operations | Depends on |
|---|---|---|---|
| Tree index arithmetic (`tree.py`, `secret_tree.py`) | none | `level`, `_root`, `_parent`, `_sibling`, `direct_path`, `copath`; `_left`, `_right`, `_parent`, `_get_path` | - |
| Ratchet tree (`tree.py`) | `nodes`: leaves at even, parents at odd indices, or blank | placement of a leaf, `remove_leaf`, `expanded`, `resolution` | index arithmetic |
| Group (`group.py`) | one immutable `EpochState`, leaf index, private keys, interim transcript hash, used key packages | `create`, `add_member`, `remove_member`, `update_key`, `join`, `process_update` | ratchet tree, key schedule, primitives |
| Epoch state and key schedule (`epoch.py`, `keyschedule.py`) | group id, epoch, tree, secrets | `genesis`, `advance_epoch`, `derive`, `_psk_secret`, `derive_welcome_key` | primitives |
| Secret tree and application messages (`secret_tree.py`, `group.py`) | per handle and epoch: a send counter, a cached ratchet tip per leaf | `encrypt_application_message`, `decrypt_application_message`, `_wipe_secret_tree`, `to_bytes`, `from_bytes` | group |
| Encrypted store (`storage.py`) | one file per group, the calls under way | `save_group`, `load_group`, `delete_group`, asynchronous, in worker threads | group serialisation |
| Command line (`cli.py`) | files: identity, state, welcome, commit | one process per command | everything |
| Wire formats (`tls.py`, `codecs.py`, the `to_bytes` and `from_bytes` methods) | none | encoders and decoders, envelopes, the bytes that are signed | - |
| Proposals, extensions | none | encoders and decoders no operation of the group uses | - |
| Primitives (`keys.py`, `hpke.py`, `hkdf.py`, `crypto.py`) | key objects | Ed25519, X25519, HPKE, HKDF | `cryptography` |

How the parts meet.  A client holds a group object, its *handle*.  The three
committing operations return a **new** handle, a `GroupUpdate` (the commit) to
send to the members and, for `add_member`, a `Welcome` for the newcomer.  The
old handle stays usable.  The members hand the commit to `process_update`,
which returns their next handle; the newcomer hands the welcome to `join`.
The library has no transport and no delivery service: nothing in it orders
commits, and it must therefore be right under any order, loss or repetition.
Application messages are encrypted under ratchets that hang off the epoch's
secret and that live in the handle until the next epoch.  An application keeps
handles in the store, whose asynchronous calls hand their file access to worker
threads, or uses the command line, where each command is a process and files are all
that is left of it.  Whatever leaves a process, to a file or to another member, is
bytes, and the receiver computes hashes and checks signatures over what it parsed.

What is hard about it.  Two members commit at once; a commit is published and
its handle is lost; commits arrive twice, late or on a branch that was given up;
a removed member is handed the epoch it is no longer in; the private key in a
handle and the public key in its leaf are replaced in different statements of
different operations; what a handle remembers must be carried over by hand each
time a new handle is built; the tree grows, is truncated and has its leaves
reused in every pattern; message ratchets meet disorder, damage, restarts and handles
that are used again; store calls overlap, are given up by their caller while their
thread goes on, and are cut off by a crash; a command is cut off between two of
its files; input ends early; signed bytes are computed twice, from what was built and
from what was parsed.  `hazards` in `PROJECT.json` lists these at their lines.

What makes each part correct.

* Index arithmetic: parents, siblings and paths are those of the left-balanced
  tree, at every size.
* Ratchet tree: the leaf count stays a power of two and minimal; only members
  below a node can know its key, so a removed member reads nothing later; a
  commit's path reaches every other member exactly once.
* Group: members that share a secret share the group's whole state and the
  other way round; a member moves only to a child of its own epoch that has it
  as a member; whoever is able to follow a commit does.
* Messages: no key and nonce is used twice; ratchets do not go back; a message
  is lost only because a later one overtook it.
* Joining with pre-shared keys: nobody gets in without every value, whoever
  has the values gets in.
* Store: a load returns the last save that completed alone, nothing after a delete, and
  never a state that a completed save or delete has replaced; what cannot be read or
  is not found has a cause that the next save alone removes.
* Command line: nothing is handed out whose private side was not saved before,
  and a command that is cut off strands nobody but who ran it.
* Wire formats: what is written is read back, verified over the bytes that were
  signed, and refused when its end is missing.

## Modules

| Module | Models |
|---|---|
| `TreeMath` | the index arithmetic of `tree.py` and of `secret_tree.py` |
| `MCTreeMath` | a reference tree built from the top, and the comparison |
| `RatchetTree` | nodes, placement with expansion, `remove_leaf` with truncation, `resolution` |
| `TreeKEM` | one group's tree along one chain of commits of any length: who can know which key |
| `MCTreeKEM` | its instance, symmetric in the clients |
| `MLSGroup` | the handles, commits and welcomes of all clients: every operation of `class MLSGroup` that changes the group |
| `GroupHistory` | the abstract specification: a tree of epochs and where everyone stands |
| `MLSGroupHistory` | the refinement mapping from `MLSGroup` to `GroupHistory` |
| `MCMLSGroup` | instances of `MLSGroup` |
| `SecretTree` | application messages, epoch changes, damage in transit, saving and restarting |
| `MCSecretTree` | its instance |
| `WelcomePSK` | `join` with pre-shared keys: `_psk_secret`, the lookup, the two trials, the confirmation tag |
| `EncryptedStore` | `AsyncEncryptedStore`: coroutines, worker threads and the file of one group |
| `StoreRegister` | the abstract specification: a register with answers |
| `CommandLine`, `MCCommandLine` | `cli.py`: commands as processes, and the files between them; its instance |
| `TLS` | the primitives of `tls.py` and the second VarInt encoder in `hkdf.py`, over bytes |
| `WireFormat` | formats: how the `to_bytes` and `from_bytes` methods are put together from the primitives |
| `Messages` | every structure of the library as a format, the signed bytes, the dialects, and the way of a structure to its reader |
| `MCMessages` | the values that are sent |
| `RatchetTreeProofs`, `TreeKEMProofs`, `MLSGroupProofs`, `SecretTreeProofs`, `WelcomePSKProofs`, `EncryptedStoreProofs`, `CommandLineProofs`, `TLSProofs` | theorems and proofs |

`TreeMath` is below `RatchetTree`, which is below `TreeKEM` and `MLSGroup`:
both use the same placement, removal, resolution and paths, `TreeKEM` with node
keys read as *sets of clients that can derive them*, `MLSGroup` with node keys
as symbolic values.  `TLS` and `TreeMath` are below `WireFormat`, which is below
`Messages`.  `CommandLine` composes the operations of the group, reduced to their
outcome, with the files; `EncryptedStore` is the part that a library user has in its
place.  Definitions named `...Keeps`, `...Short`, `...Ahead` and so
on, marked "Mutant", are deliberately wrong variants of the definition after
them; no specification uses them.  They document which slip each property
catches.

### State and actions of MLSGroup

`group` maps a client to its handle (`MLSGroup.__init__`: group id, epoch, tree,
epoch secret, interim transcript hash, leaf index, private key `my_kem_key`,
`_consumed_key_packages`).  `commits` and `welcomes` are everything ever
published.  One action per operation: `Create`, `add_member` (and
`add_member_refused`, the path on which the package is recorded as used and then
fails to verify), `remove_member`, `update_key`, `join`, `process_update`.  The
parameter `adopt` of the committing operations is the caller's: it takes the
returned handle, or loses it and goes on with the old one.  Any client may be
handed any commit or welcome at any time, repeatedly or never.

Cryptography is symbolic.  A key pair is one value, a ciphertext names the key it
opens with, a hash is what was hashed.  The path secret of step *i* of commit *c*
is `<<c, i>>` and is ratcheted up by adding to *i*.  An epoch secret is the chain
of commit secrets and contexts that led to it; the code binds the context into
the joiner secret and again into the epoch secret and the term records it once.
Secrets derived from the epoch secret by a label (membership key, confirmation
key, init secret) are represented by the epoch secret itself.

### State and actions of SecretTree

`epoch[m]`, `ratchet[m]`, `opened[m]` describe member *m*'s handle: its epoch, the
`SecretTree` (the send counter and a tip per leaf) and the messages this
`SecretTree` has opened.  `saved[m]` is what `to_bytes` last wrote: the epoch and
no ratchet.  `made_from` is the tree of epochs.  Actions: `encrypt_...`,
`decrypt_...`, `decrypt_damaged` (a message that names another generation than it was
encrypted with, or whose content is broken: the ratchet moves and the content is
refused), `commit` (the wipe at the end of the three committing operations,
with the new handle adopted or the old one used again), `process_update`, `save`,
`restart`.  The lazy creation in `_get_secret_tree` is why having no
`SecretTree` and having a fresh one are the same state.

### State and actions of WelcomePSK

`welcomes` are the Welcomes of another implementation (this library's `add_member`
puts no PSKs in one), `psk_list` what the application has learned so far, `joined` and
`refused` the Welcomes on which `join` returned or raised, each with the list it was given.  A PSK secret is the sequence of its values
with identifier, index and count; a key or a confirmation tag is the term it is
derived from.  The steps of `join` that have nothing to do with PSKs are in
`MLSGroup`.

### State and actions of EncryptedStore

`calls` is the sequence of the calls an application makes for one group, each with
the step it is at; `path` says which file the group's name leads to and `disk` what is
in every file, removed or not.  A call runs on the event loop up to its `await` in one
step (`save_group`, `load_group`, `delete_group`), in which the latter two look whether the file
is there; its thread then opens, reads or writes
block by block, closes or removes, a step each.  A block of a file is the save that
wrote it last, and what was read is accepted only if it is all of one payload: this is what
AES-GCM does with mixed, short or empty files.  A thread that has a file open keeps it
when its name is removed.  `cancel` is an application that gives up waiting: a thread that has
begun goes on.  `crash` ends all threads and leaves the files.

### State and actions of CommandLine

`file` is the content of every file, `running` the command in each shell: the
inputs it has read, the outputs it has yet to write, and whether the next of them is
already truncated.  `epochs` is the tree of epochs as the commits make it and
`owner` who made which identity.  A command is started (`give`), reads its inputs one by
one, performs its operation (an action per command, or `refuse`), and truncates and
writes its outputs one by one; `crash` cuts it off anywhere.  What `write` leaves in a file is its
whole content.  Where two commands write one state at once the end of the longer one stays behind the
shorter one in the code; `Messages` shows that it then loads as the shorter one, so the model
drops it.  `hasty` tells the two ways
in which commands are run apart: at once, or one after the other and cut off anywhere.
What users do is restrained: they give each commit and welcome a file name of its own, do not invite who is in
the group, and make identities before they have a state.  An identity that got into
the group between the start of `add-member` and its execution would get a second
leaf; the model does not follow such a command any further.

### State and actions of Messages

A *format* describes `to_bytes` and `from_bytes` of a structure at once, `encode` and
`decode` interpret it, so a format is faithful only if it agrees with both methods; each
was compared with both.  Where a reader is careless (a slice that is not compared with the
buffer, a part that may be missing, bytes that are read and dropped), the format has a
constructor for that.  `kind`, `value` and `wire` are the structure that is sent and
its bytes; it may lose its end (`lose`), a state file may keep the end of a longer one
(`overlap`), it is read (`receive`) and written again (`relay`).  A key package is sent in its
envelope and, as in the CLI's `.pub` file, bare.  Integers of eight bytes stay below 2^31.

## Runs

| Run | Bounds | Shows |
|---|---|---|
| `treemath` | every tree of 1 to 16 leaves, every node: 256 states | the arithmetic against the reference; also sizes that are not powers of two, which `secret_tree.py` accepts. Levels 0 to 4 exercise every branch and the repeated reparenting |
| `treekem` | five clients, 8 leaves, no bound on commits: 170 states up to renaming | `TreeMinimal`, `KeysStayBelow`, `PathReachesEveryone`. Five members force three levels, so that blank inner nodes, truncation from 8 to 4, 2 and 1 and reuse of leaves happen |
| `forks` | three clients, four key packages (two of one identity, of which one has a separate init key, and one that does not verify), three commits, nobody checks who is in the group: 39240 states | `Agreement`, `OwnLeafPresent`, `CanFollow`, `KeyLostByOwnCall`, `ImplementsHistory` and, under fairness, `CatchesUp`, when anyone commits at any time. Three commits are enough for add, add, and a race, for remove and re-add, and for an identity with two leaves that a commit of another follows |
| `messages` | two members, two epochs, three messages, any of them damaged to name any generation: 597557 states | `KeyAndNonceUsedOnce`, `RatchetsOnlyForward`, which do not depend on an undamaged transport |
| `messages_faults` | two epochs, three messages, with restarts and discarded commits: 41374 states | `LostOnlyIfOvertaken`, `StuckOnlyByOwnPast`. Three messages are needed for one to be overtaken by two |
| `psk` | two external and two resumption PSKs, a Welcome with up to two of them, three values held: 358843 states | `JoinersHold`, `HoldersJoin`. Three values are a right one, an outdated one and one that hides it. Joins change neither the list nor another Welcome, so one Welcome is enough |
| `store` | four calls, two at once, payloads of one or two blocks, one cancelled call, one crash: 3766380 states | `ReadsBack`, `GoneIfDeleted`, `RefusedHasCause`, `MissingHasCause`, `NeverStale`. Two blocks are enough for files mixed of two saves. `NeverStale` speaks of three calls, the save, what replaced it and the load; the fourth overlaps any of them. The invariants hold with three calls at once too (15701278 states, too many for a regular run), and are theorems |
| `store_register` | five calls, writers one at a time, loads two at a time: 10570 states | `ImplementsRegister`, liveness included |
| `cli` | two users, two shells, two identities; commands one after the other, cut off anywhere, with four epochs, or at once with three: 1273051 states | `PublishedAfterSaved`, `AheadAlone`, `AllAtHand`. Four epochs are a creation, an addition, and a lost commit with its repetition |
| `wire` | 139 structures with lengths on both sides of the first VarInt boundary, keys of two bytes, cut at every byte, one relay, and every pair of states in one file: 87614 states | `Received`, `SignedSurvives`, `CutRefused`, `CutStateSameEpoch`, `DialectDetected`. The longer VarInts are covered by the proofs |
| `remove_key`, `messages_restart` | the smallest instance that shows it | the findings below |

Deadlock is checked where the system cannot stop (`treekem`, the `messages`
runs); in the other runs it may stop once the bound on commits, calls, epochs or relays is
used up.

**Fairness.**  `store_register` assumes weak fairness of the steps of each call that
was made: the event loop runs every task and the thread pool every thread, which
`asyncio` and the operating system guarantee while the process lives.  Nobody has to
make a call.  `forks` assumes weak fairness of each client's
`process_update`, that is, an application that keeps handing the published commits to
the library eventually does so with one that is accepted.  The
code has no scheduler; this is the duty of the delivery service that RFC 9420
and the project's documents leave to the application.  Commits, invitations and joins
are never fair: nobody has to commit.

**What `UniqueInvites` and `FreshPackages` are for.**  With `UniqueInvites` the application
invites nobody who is in the group; the code does not check it, and `forks` does without.
Where an identity is invited twice it has two leaves, `join` takes the first
and the handle holds the key of the other, so such a member may stay behind: `KeyLostByOwnCall` says
that nobody else is affected, and `OwnLeafPresent` that the member gets into no epoch that removed its leaf.
`FreshPackages` is what `forks` asks instead: no package is offered whose key is in the tree already.
Without both, with three clients and four
commits, TLC refutes `OwnLeafPresent`: two members place one key package twice (each handle
remembers only the packages it used itself), and its owner, whose first leaf is removed, follows that commit by
the reference to its second leaf, which is the same, with its own leaf blank.  `Agreement` and
`ImplementsHistory` are proved with neither; the theorems `OwnLeavesStay`,
`MembersCanFollow` and `KeysLostByOwnCalls` have `UniqueInvites` as their hypothesis.

**Trivial cases ruled out.**  `CanFollow` and `CatchesUp` have antecedents; the mutant
of `path_secrets` (one ratchet step short) violates both, so members that should
follow do occur.  `LostOnlyIfOvertaken` is violated by a tip recorded one
generation ahead, so refused generations do occur.  `ReadsBack` and `GoneIfDeleted` speak of
loads with one last writer before them; a save that does not truncate and a delete that only
empties the file violate them.  `NeverStale` is violated when a save leaves a file that is there
as it is, in a run where four calls are needed for one to overlap the three it speaks of.
`RefusedHasCause` is violated by the save that does not truncate, `MissingHasCause` when
`load_group` does not look for the file.  `HoldersJoin` is violated when the nonces of the caller's list
are used, so joins with PSKs do succeed, and `JoinersHold` when the tag is not compared, so the second trial and
outdated values do occur.  `CutRefused` leaves out three structures:
`GroupSecrets`, which is read only after a seal was opened, the state file, about
which `CutStateSameEpoch` says what does hold, and the extensions of the Cisco dialect, whose reader (`codecs.py:124`) accepts cut input and is
called by nothing.

## Findings

1. **`remove_member` keeps the old leaf key** (`remove_key`, `LeafKeyHeld`).
   The commit replaces the committer's leaf key by a fresh one, the returned
   handle keeps the old private key (`group.py:1453`).  `add_member` and
   `update_key` return the fresh one.  The next commit of another member cannot
   be opened.  `KeyLostByOwnCall` shows in `forks` that nothing others do leads there.
2. **A restart within an epoch reuses key and nonce** (`messages_restart`).
   `to_bytes` writes no generations; `from_bytes` starts at 0.

### Also refuted

TLC refutes these statements too when they are put in the place of the properties of the
run named (with `SPECIFICATION Spec`).  They have no run of their own.

| Statement | In | Why |
|---|---|---|
| `InitKeyRetired` | `forks` | `join` keeps the one private key it was given (`group.py:1744`): a joiner whose package has a separate init key goes on with that one, and the leaf's key does not take over as the comment in `KeyPackage` (`tree.py:261`) says. The tests and the CLI use one key for both |
| `KeyAndNonceUsedOnce` | `messages_faults`, with `MayRestart = FALSE` too | a commit wipes the `SecretTree` of the old handle; if the commit is discarded and the handle used again, it makes a new one at generation 0 of the same epoch (`group.py:980`) |
| `EveryHolderJoins` | `psk` | all resumption PSKs have the empty `psk_id`; of two in the caller's list the later one takes the place of the other in `psk_map` (`group.py:1646`), and a Welcome that names the other is refused. `HoldersJoin` shows that nothing else turns a holder away |
| `SenderNotStuck` | `messages_faults` | the counter of a restored handle begins again, and a message of its own that it opens takes its ratchet past it |
| `LostOnlyIfOvertaken` | `messages` | the ratchet is moved to the generation a message names before the message is authenticated (`group.py:1943`), and the generation is outside the associated data |
| `KeyPackageUsedOnce` | `forks` | `process_update` returns a handle without the used key packages (`group.py:1879`) |
| `MissingIsNone` | `store` | the file is looked for before the `await` and opened after it (`storage.py:66`, `70`): a delete in between makes `load_group` raise |
| `StateRestored` | `wire` | a short `os.write` is not noticed (`cli.py:19`), and `from_bytes` takes what is missing for an older format and forgets the used key packages (`group.py:1998`) |
| `EnvelopeRead` | `wire` | `from_mlsmessage_bytes` expects the Welcome where `MLSMessage.to_bytes` writes its length (`group.py:282`) |
| `PeerVerified` | `wire` with `Kinds = {"PeerKeyPackage"}` | extensions of a key package are dropped before its signature is verified (`tree.py:333`, `299`) |

## Proofs

All proofs are checked by TLAPS with Z3, Zenon and LS4.  Nothing is assumed but the
named assumptions on the constants (`MaxLeavesAssumption`, `ConstantsAssumption`, `SecretTreeAssumption`,
`BoundsAssumption`, `StoreAssumption`, `CommandLineAssumption`):
the sets of clients, packages, members, PSKs, messages, users and shells are arbitrary
and may be infinite, and the bounds are arbitrary numbers.  Where a theorem needs more, its
statement says so.

**`RatchetTreeProofs`** (of the operators of `TreeMath` and `RatchetTree`, for full trees of every size:
those whose number of leaves is a power of two, which are the ones the library builds)

* `PathsAreAncestors`: `direct_path` of leaf *l* in a tree of `2^K` leaves has *K* steps, step *i* is the
  node of height *i* over *l*, and the copath node there is the sibling of the node of height *i - 1*.
  The heights and positions are those of the tree, not of the index arithmetic, so this is, for
  full trees, what `PathIsAncestry` and `CopathIsSiblings` check against the reference tree.
* `SecretPathsApart`: of two leaves, neither's node secret in `secret_tree.py` is the other's or above it.
  A leaf's path there is its direct path read from the root; the theorem follows because a leaf
  is on no other leaf's direct path.

  Below these and the two modules that follow stand the index arithmetic and the two recursions of
  `tree.py`, as lemmas.  A node at
  level *l* is `2^l - 1 + s * 2^(l+1)` (`At`), which gives its ancestors (`Up`), its sibling and its
  children.  `resolution` of a node is shown to stay below it and to have one node on the way up from
  each leaf that is not blank.
  The recursive functions `log2`, `pow2`, `level` and `resolution` satisfy their
  equations by a lemma on recursion (`Recursion`) that is derived from the least
  number for which it would fail.

**`TreeKEMProofs`** (any clients, any bound on the leaves, any chain of commits)

* `TreeTypeCorrect`, `TreeStaysMinimal`, `KeysStayBelowNodes`: `Spec => []TypeOK`,
  `Spec => []TreeMinimal` and `Spec => []KeysStayBelow`, from one invariant.  `KeysStayBelow`
  alone is not inductive: that a blanked path covers all that a removed leaf was below
  holds only where the paths are those of a full tree.  `TreeInv` says that for some *K* the tree has
  `2^K` leaves and `2^(K+1) - 1` nodes (`Sized`), at most `MaxLeaves`; that leaves and parents
  alternate (`Typed`); that only members below a node know its key (`Held`); and that the
  right half has a member (`Minimal`).
* `PathsReachEveryone`: `Spec => []PathReachesEveryone`.  It needs `Sized` only.  Of two leaves,
  take the lowest node on both their paths: the one step that is sealed for the other leaf is the one
  into that node, and the resolution of the copath node there has exactly one node on the way up from
  the other leaf.  `rekeyed` draws the keys of a path from recipients below it, `remove_leaf` blanks it,
  and a truncation cuts off a half that is blank (`RekeyedKeeps`, `RemovedKeeps`, `PlacedKeeps`).

**`MLSGroupProofs`**

* `TypeCorrect`: `Spec => []TypeOK`.  One typing lemma per operator, from keys
  up to `new_commit` and `joined`.  Trees are treated as sequences of nodes of any
  length: of `place_leaf`, `remove_leaf` and `rekeyed` only that they return
  trees is needed.
* `MembersAgree`: `Spec => []Agreement`.  `Agreement` alone is not
  inductive: it speaks of handles only, and a handle may be moved by a commit
  whose author has long moved on.  `AgreementInv` adds two facts.
  *Synchronized*: a handle is what its secret says it is; the secret's last entry
  holds the context with the handle's own group, epoch, tree and transcript,
  and a handle with a transcript that ends in commit *c* has exactly the secret
  that confirms commit *c*.  *Admits*: a welcome leads to such a handle.
  The second half of `Agreement` then follows because the last element of a
  transcript determines the secret, the first because the last entry of a secret
  determines the context.  The receiver's side rests on the comparison with the
  confirmation tag in `process_update`, the joiner's on the one in `join`.
* `HistoryImplemented`: `Spec => ImplementsHistory`, the refinement of the abstract
  history.  A step that commits, founds or lets in maps to the abstract step of the same
  name by what it does, and `add_member_refused` to a stutter.  The step that needs an
  argument is `process_update`: that the new tree has the receiver among its members is
  checked nowhere in the code, it follows from who can hold which private key.
  `OwnershipInv` says that trees hold a client's keys in that client's leaves only, that a
  handle's key is one its client drew, and that every ciphertext of a commit is sealed to
  a key of the new tree; so whoever opens one has a leaf there.  With `AgreementInv` the
  epoch that a commit leads to is known by the commit, and forks never merge.
* `OwnLeavesStay`, `MembersCanFollow`, `KeysLostByOwnCalls`: under `UniqueInvites`,
  `Spec => []OwnLeafPresent`, `Spec => []CanFollow` and `Spec => KeyLostByOwnCall`, from one
  invariant.  `OwnLeafPresent` is not inductive: it is about handles, and the handle that
  `process_update` returns takes its tree from a commit.  `LeavesInv` adds that
  - every tree in use is full, and has one leaf for each of its members (`Shaped`);
  - a commit was computed as a whole from the epoch that its membership tag is the secret of (`Made`);
  - its committer had its leaf in that epoch's tree, and every other leaf of the new tree is where
    it was there or belongs to a client who had none (`Grown`, `Derives`);
  - the tree of a welcome has the leaf of the key package it is for (`Invited`).

  A receiver has the epoch secret that the membership tag was made with, so by `AgreementInv` its
  tree is the one the commit started from.  Whoever then obtains the commit secret by a path secret did so with
  its own index; whoever obtains it by reference has the leaf named somewhere in the new tree, and since
  its client is not new and has one leaf only, that leaf is at the same place (`OwnLeavesStay`).
  Conversely, take a member that kept its leaf and its key.  If a step of the path names the leaf, the
  first such step is sealed to that key, and ratcheting its path secret up ends in the same commit secret
  at whichever step it starts; if none does, the commit secret is sealed to the leaf by reference.  Either way
  the confirmation tag then compares equal because
  `Made` says that it was computed from the same epoch (`MembersCanFollow`).  Handles without the key
  of their leaf come from nowhere else because `process_update` leaves the leaf as it was, and because a
  joiner with one leaf and one key finds that key there (`KeysLostByOwnCalls`).

  TLC checked `LeavesInv` on the instance of `forks` before it was proved.

**`SecretTreeProofs`**

* `TypeCorrect`: `Spec => []TypeOK`, with and without faults.
* `NoncesUnique`: without restarts and discarded commits,
  `Spec => []KeyAndNonceUsedOnce`.  The two assumptions are needed: TLC finds its
  failure without either.  The invariant adds that every
  epoch was made from an older one (`Older`), so that a member never comes back to
  an epoch it has left, that nobody has sent from an epoch it has yet to
  reach, and that a sender's counter is ahead of every generation it has used in
  its present epoch (`CounterAhead`).
* `RatchetsForward`: under the same assumptions,
  `Spec => RatchetsOnlyForward`.
* `NothingElseIsLost`: on a transport that does not damage messages,
  `Spec => []LostOnlyIfOvertaken`, with restarts and discarded commits too.  The
  invariant `TipWitnessed` says that every tip was put there by a message that
  was opened, or encrypted, on this `SecretTree`.
* `CanAlwaysSend`: without restarts, discarded commits and damage,
  `Spec => []SenderNotStuck`.  A member may open its own messages, and that moves
  the ratchet it sends with; the invariant (`OwnTipBehind` with that of
  `NoncesUnique`) says that the tip of its own leaf is never past its counter, because
  every message it can open was numbered by that counter.
* `OnlyOwnPastBlocks`: without damage, `Spec => []StuckOnlyByOwnPast`, which is what
  is left of that with restarts and discarded commits.  The invariant `OwnTipKnown` says
  that the tip of a handle's own leaf is behind its counter or where a message of its
  own that it opened has taken it.

**`WelcomePSKProofs`**

* `JoinersHoldThePSKs`: `Spec => []JoinersHold`.  Whichever trial opened the GroupInfo, the tag is compared
  with a secret that is a chain of the resolved values; equal chains have equal values at each
  place, and the resolved value of a name is in the caller's list.  The invariant (`PSKInv`) says of what the secret
  in a Welcome was made, and that a Welcome that was joined from, or refused, stays what it was.
* `HoldersAreAdmitted`: `Spec => []HoldersJoin`, from the same invariant.  Where no entry of the list hides
  another, each name leads to the current value of its PSK whichever entry counts, so the chain that
  `join` computes is the group's.

**`EncryptedStoreProofs`** (any number of calls, overlapping in any way, payloads of any
size, crashes and cancelled calls)

* `StoreTypeCorrect`: `Spec => []TypeOK`.  The invariant `CallsInv` adds what the record
  of a call says about how far its thread came (`Sound`), and that calls that were over when
  another was made stay over.  Every step is reduced to one of a few effects on one record
  and the disk (`Affects`), on which all proofs of this module rest.
* `LoadsAreNeverStale`: `Spec => []NeverStale`.  `FreshInv`: once a save or delete is complete,
  the file under the group's name has no block of a state it replaced, nor has the file or the
  buffer of a load made later.  A call that is over writes no more, so what is gone from a
  file stays gone.
* `LastSaveReadsBack`, `LastDeleteLeavesNothing`: `Spec => []ReadsBack` and
  `Spec => []GoneIfDeleted`.  `LastInv`: while a writer has no rival (a save any other writer, a delete a save), the file has exactly
  the blocks it has written, or there is none; a load made after it has read nothing else.
* `MissingIsCaused`: `Spec => []MissingHasCause`.  `MissInv`: a call that looked and has yet to open or
  remove still finds the file, or a delete that is not over took it since.
* `RefusalIsCaused`: `Spec => []RefusedHasCause`.  `CauseInv`: the file under the name is of a
  save that nothing came after, and has exactly what that save wrote unless another one overlapped it; a
  load that has the file open has a cause to be refused already, or reads the file of a complete save. What
  once was a cause stays one, because it speaks of calls that were made before the load was over.
* `RegisterImplemented`: with saves and deletes made one at a time, no crash and no timeout,
  `Spec => Register!Init /\ [][Register!Next]_(Register!vars)`, which is `ImplementsRegister` without its
  fairness.  `RegisterInv` says that only loads overlap, that the file is all of one save unless one
  is at work on it, that nobody removes it between a check and an access, and that loads have read what is
  still there.  A save takes effect when its thread opens the file, a load when it has read to the end.

**`CommandLineProofs`** (any number of users, shells, identities and epochs)

* `CommandLineTypeCorrect`: `Spec => []TypeOK`.  `DataInv`: a whole file holds what
  belongs in it (a user's state has a key of that user and an epoch that was made, a commit or
  welcome is of an epoch that was made so), a command has read such files and is to write such
  files, and epochs are made from earlier ones.
* `OverlappingCommandsLoseNothing`: `Spec => []AllAtHand`.  `HastyInv`: where commands
  run at once, what was made is written or still to be written, and an empty file is the
  next one of a command that goes on.
* `LostCommitLeavesCommitterAlone`: `Spec => []AheadAlone`.  `FollowInv`: a commit has
  one writer, which writes it once, so a commit that was read stays on disk; and every state,
  on disk, read or to be written, is one whose owner was invited later, made the
  commit, or could read it, for each epoch behind it.
* `SavedBeforePublished`: `Spec => []PublishedAfterSaved`.  `OrderlyInv`: where commands
  run one after the other, what the running one has read is still what is on disk; the epochs a
  user published are behind the state it has, or will have written before it publishes; a commit to be
  written is of the epoch its committer is on by then.  This is where the order of the outputs
  in `cli.py` counts.

  The epochs behind an epoch are a recursive function (`Ancestry`).  That it
  exists and that a longer history changes no line of it is proved from the least
  epoch for which it would fail, since the library's induction theorems cannot be used here.

**`TLSProofs`** (of operators, with the context before and after the encoding arbitrary)

* `VarIntReadBack`: the decoder returns what `tls_varint` wrote for every length
  below 2^30, and the offset after it.  Three cases by length; in each the first byte is 0,
  64 or 128 plus a number below 64, and the rest are digits to the base 256.
* `OpaqueReadBack`: `read_opaque` returns what `tls_opaque` wrote, whatever follows.
* `OpaqueCutRefused`: no proper prefix of it is read.  This is what lets most readers
  be careless: the last field of every structure on the wire is one of these.

**Model-checked only.**

* Liveness (`CatchesUp`, and that the store answers every call, which is part of
  `ImplementsRegister`), which the prover does not handle.
* The index arithmetic against the reference tree (`treemath`): the reference is recursive and uses
  bitwise operators.  `RatchetTreeProofs` has the counterparts for full trees; trees that are not full, which
  the index functions accept and the library does not build, have no lemma.
* `OwnLeafPresent`, `CanFollow` and `KeyLostByOwnCall` for identities that are invited again while they are in the
  group (`forks`): the invariant counts on one leaf for each member.
* The structures of `Messages`: `encode` and `decode` are recursive over formats, and what they compute for
  every value would need an induction over data; the three theorems on
  primitives are what can be proved below them.

## Left out

* The `ratchet_tree` argument of `join` (an external copy of the
  tree) and the verification of leaf signatures in received trees: they add
  checks that an undamaged message of an honest client passes.
* `parent_hash`: computed and stored by the committing operations and compared
  nowhere.
* `unmerged_leaves`: no operation ever adds to the list; `add_member` blanks the
  new leaf's path instead, as the model does.
* Forged messages.  The transports of the models lose, delay, repeat and reorder;
  in `SecretTree` they also damage, in `Messages` they cut off.
* A retry after `add_member` failed: the package is recorded as used before it is verified
  (`group.py:1030`).  `MLSGroup` has the action, and no document says whether the
  retry should succeed, so no property is stated.
* Primitives (`keys.py`, `hpke.py`, `crypto.py`, most of `hkdf.py`): wrappers around the
  `cryptography` package, with no state and no control of their own.  What they
  compute is a term or an assumption (a tag that authenticates, a hash without
  collisions) in every module.
* `KeyPackage.from_bytes_legacy`, which reads a format nothing writes any more, the
  `repr` methods, and the scripts under `src/scripts/`, which compare the library with
  published vectors.

## Plan

Done: the index arithmetic, the tree, the group with its abstract history, messages with
damage and restarts, joining with pre-shared keys, the store with its register, the
command line, and all wire formats, with the runs and the theorems above.  Every safety
property of a run is also a theorem, except those listed under "Model-checked only".  What would be next:

1. The index functions in trees that are not full, if the library ever builds one: today `place_leaf`
   doubles and `remove_leaf` halves.
2. The three hazards without a property (`PROJECT.json`), once a document of the library says what is
   expected there.

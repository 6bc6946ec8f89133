------------------------------ MODULE Messages ------------------------------
(***************************************************************************)
(* The structures of group.py, tree.py, extensions.py, proposals.py,       *)
(* keyschedule.py and epoch.py that are written to bytes, the bytes that   *)
(* are signed, the dialects of codecs.py, and the way of one structure     *)
(* from the member that writes it to the members that read it: it may be   *)
(* passed on (parsed and written again), it may be cut off, and a state    *)
(* file may keep the end of a longer one that was written at the same time.*)
(***************************************************************************)
EXTENDS WireFormat

CONSTANTS KeySize,      \* bytes of a private key and of a secret, 32 in the code
          Kinds,        \* the structures that are sent
          Samples,      \* for each kind the values that are sent
          MayCut,       \* whether the transport or the disk may lose the end
          MayOverlap,   \* whether two commands may write one state file at once
          MaxRelays     \* how often a structure is parsed and written again

ASSUME SizeAssumption == KeySize \in Nat \ {0} /\ MaxRelays \in Nat

OpaqueV == Opaque(VarInt)
Empty == Struct(<<>>)

-----------------------------------------------------------------------------
(* tls.py and extensions.py *)

Extension(p) == Struct(<<U(2), Opaque(p)>>)
Extensions(p) == Vec(p, Extension(p))

Capabilities == Struct([i \in 1 .. 5 |-> LooseVec(VarInt, UInt(2))])

ExternalPSKExtension == Struct(<<Const(<<1>>), OpaqueV, OpaqueV>>)

(* tree.py *)

Credential == Struct(<<U(2), OpaqueV>>)

LEAF_NODE_SOURCE_KEY_PACKAGE == 1
LEAF_NODE_SOURCE_UPDATE == 2
LEAF_NODE_SOURCE_COMMIT == 3

\* The source, and what only some sources have: a lifetime or a parent hash.
LeafNodeSource ==
    Select(<<Default(Struct(<<U(8), U(8)>>), <<0, 0>>), Empty, Default(OpaqueV, <<>>)>>, Empty)

LeafNodeFields == <<OpaqueV, OpaqueV, Credential, Capabilities, LeafNodeSource, Extensions(VarInt)>>
LeafNode == Struct(Append(LeafNodeFields, OpaqueV))

KeyPackageFields == <<Const(<<0, 1>>), Const(<<0, 1>>), OpaqueV, LeafNode, Dropped(Extensions(VarInt), <<>>)>>
KeyPackage == Struct(Append(KeyPackageFields, OpaqueV))

ParentNode == Struct(<<OpaqueV, OpaqueV, Vec(VarInt, UInt(4))>>)

Node == Select(<<LeafNode, ParentNode>>, Refused)
RatchetTree == Nodes(Select([p \in {0, 1} |-> IF p = 0 THEN Empty ELSE IfMore(Node, <<>>)], Refused))

(* keyschedule.py and epoch.py *)

PSK_TYPE_EXTERNAL == 1
OpaqueHkdf == Opaque(HkdfVarInt)
PreSharedKeyID ==
    Select([t \in {PSK_TYPE_EXTERNAL} |-> Struct(<<OpaqueHkdf, OpaqueHkdf>>)],
           Struct(<<U(1), OpaqueHkdf, U(8), OpaqueHkdf>>))

\* Mutant of KeySchedule: a state without secrets is taken for an older one.
KeyScheduleIfMore == IfMore(Exact(11 * KeySize), <<>>)

KeySchedule == Exact(11 * KeySize)

EpochState == Struct(<<Unchecked(2), UInt(8), Sliced(4, RatchetTree), KeySchedule>>)

(* proposals.py *)

AddProposal == OpaqueV
UpdateProposal == OpaqueV
RemoveProposal == U(4)
PSKProposal == Inside(VarInt, Struct(<<Mark(<<1>>), OpaqueV, OpaqueV>>))
Proposal ==
    Struct(<<Const(<<0>>),
             Select(<<AddProposal, UpdateProposal, RemoveProposal, PSKProposal>>, Refused)>>)

ProposalOrRef == Select(<<OpaqueV, OpaqueV>>, Refused)
ProposalCommit == Struct(<<Vec(VarInt, ProposalOrRef), Opt(OpaqueV)>>)

(* group.py *)

GroupContext ==
    Struct(<<Const(<<0, 1>>), Const(<<0, 1>>), OpaqueV, U(8), OpaqueV, OpaqueV, Loose(VarInt)>>)

GroupSecrets == Struct(<<OpaqueV, Opt(OpaqueV), IfMore(Run(VarInt, PreSharedKeyID), <<>>)>>)

EncryptedGroupSecrets == Struct(<<OpaqueV, OpaqueV, OpaqueV>>)

GroupInfoFields == <<GroupContext, Loose(VarInt), OpaqueV, UInt(4)>>
GroupInfo == Struct(Append(GroupInfoFields, OpaqueV))

HPKECiphertext == Struct(<<OpaqueV, OpaqueV>>)
UpdatePathNode == Struct(<<OpaqueV, Count(HPKECiphertext)>>)
UpdatePath == Struct(<<Inside(VarInt, KeyPackage), Count(UpdatePathNode)>>)

GroupUpdateFields ==
    <<U(8), Inside(4, RatchetTree), Items(Struct(<<OpaqueV, OpaqueV>>)), U(4), Opt(Inside(4, UpdatePath))>>
GroupUpdate == Struct(Append(GroupUpdateFields, OpaqueV))

FramedContent ==
    Struct(<<OpaqueV, U(8), Const(<<1>>), U(4), OpaqueV, Const(<<3>>), Inside(4, GroupUpdate)>>)
FramedContentAuthData == Struct(<<OpaqueV, OpaqueV>>)
PublicMessage == Struct(<<Inside(4, FramedContent), Inside(4, FramedContentAuthData), OpaqueV>>)

MLS_PUBLIC_MESSAGE == 1
MLS_WELCOME == 3
MLS_KEY_PACKAGE == 5

\* An envelope, and the unwrap method that expects its wire format.
MLSMessage(wire_format, body) ==
    Struct(<<Const(<<0, 1>>), Const(tls_u16(wire_format)), Inside(4, body)>>)

MLSGroup ==
    Struct(<<UInt(4), Exact(KeySize), Exact(KeySize), Sliced(4, EpochState),
             IfMore(Unchecked(2), <<>>), IfMore(SetOf(4, OpaqueV), {})>>)

-----------------------------------------------------------------------------
(* codecs.py *)

StandardStrategy == [header |-> <<>>, prefix |-> VarInt, fingerprint |-> <<0, 1, 0, 3>>]
CiscoStrategy == [header |-> <<204, 1>>, prefix |-> 2, fingerprint |-> <<204, 1>>]
MlsppStrategy == [header |-> <<170, 2>>, prefix |-> 4, fingerprint |-> <<170, 2>>]

_REGISTRY == [standard |-> StandardStrategy, cisco |-> CiscoStrategy, mlspp |-> MlsppStrategy]

\* Mutant of Welcome: to_bytes leaves out the header of the dialect.
WelcomeBare(dialect) ==
    LET s == _REGISTRY[dialect]
    IN  Struct(<<Skip(<<>>, s.fingerprint), Mark(<<0, 1>>),
                 Vec(s.prefix, EncryptedGroupSecrets), Opaque(s.prefix)>>)

\* The standard dialect skips the header of an MLSMessage where it is, the
\* others their own.
Welcome(dialect) ==
    LET s == _REGISTRY[dialect]
    IN  Struct(<<Skip(s.header, s.fingerprint), Mark(<<0, 1>>),
                 Vec(s.prefix, EncryptedGroupSecrets), Opaque(s.prefix)>>)

\* Extensions of the Cisco dialect are not compared with the buffer.
encode_extensions(dialect) ==
    IF dialect = "cisco" THEN Run(2, Struct(<<U(2), Loose(2)>>)) ELSE Extensions(VarInt)

detect_dialect(data) ==
    LET found == {d \in DOMAIN _REGISTRY : IsPrefix(_REGISTRY[d].fingerprint, data)}
    IN  IF found = {} THEN "standard" ELSE CHOOSE d \in found : TRUE

-----------------------------------------------------------------------------
(* Commits.  A commit is the tuple of its GroupUpdate, the group_id, the   *)
(* confirmation tag and the membership tag.                                *)

\* PublicMessage.from_group_update in the envelope of wrap_commit: the
\* content names the epoch that the commit ends.
wrap_commit(c) ==
    LET update  == c[1]
        content == <<c[2], update[1] - 1, <<>>, update[4], <<>>, <<>>, update>>
        auth    == <<update[6], c[3]>>
    IN  <<<<>>, <<>>, <<content, auth, c[4]>>>>

\* unwrap_commit and PublicMessage.to_group_update.
unwrap_commit(m) ==
    LET pm == m[3] IN <<[pm[1][7] EXCEPT ![6] = pm[2][1]], pm[1][1], pm[2][2], pm[3]>>

-----------------------------------------------------------------------------
(* The bytes that are signed, computed by the signer from what it built    *)
(* and by the verifier from what it parsed.                                *)

\* Mutant of LeafNodeTBS: a lifetime that was never set is left out.
LeafNodeTBSBare(leaf, group_id, leaf_index) ==
    tls_u16(1)
    \o encode(Struct(<<OpaqueV, OpaqueV, Credential, Capabilities>>), SubSeq(leaf, 1, 4))
    \o <<leaf[5][1]>> \o (IF leaf[5][2] = <<>> THEN <<>> ELSE Tail(encode(LeafNodeSource, leaf[5])))
    \o encode(Extensions(VarInt), leaf[6])

LeafNodeTBS(leaf, group_id, leaf_index) ==
    tls_u16(1) \o encode(Struct(LeafNodeFields), SubSeq(leaf, 1, 6))
    \o (IF leaf[5][1] \in {LEAF_NODE_SOURCE_UPDATE, LEAF_NODE_SOURCE_COMMIT}
        THEN tls_opaque(VarInt, group_id) \o tls_u32(leaf_index) ELSE <<>>)

KeyPackageTBS(kp) == encode(Struct(KeyPackageFields), SubSeq(kp, 1, 5))

GroupInfoTBS(gi) == encode(Struct(GroupInfoFields), SubSeq(gi, 1, 4))

\* GroupUpdate._body_bytes.
body_bytes(update) == encode(Struct(GroupUpdateFields), SubSeq(update, 1, 5))

\* A KeyPackage as another implementation of RFC 9420 writes and signs it:
\* its extensions are in both.
PeerKeyPackageFields == <<Const(<<0, 1>>), Const(<<0, 1>>), OpaqueV, LeafNode, Extensions(VarInt)>>
PeerKeyPackage == Struct(Append(PeerKeyPackageFields, OpaqueV))
PeerKeyPackageTBS(kp) == encode(Struct(PeerKeyPackageFields), SubSeq(kp, 1, 5))

-----------------------------------------------------------------------------
(* The way of one structure. *)

VARIABLES kind, value,  \* what is sent
          wire,         \* the bytes on the way
          whole,        \* whether none of them was lost
          relays,       \* how often it was parsed and written again
          got           \* what the reader made of it, <<>> before it reads

vars == <<kind, value, wire, whole, relays, got>>

\* The format a structure is written in.
WrittenAs ==
    [KeyPackage       |-> MLSMessage(MLS_KEY_PACKAGE, KeyPackage),
     KeyPackageFile   |-> KeyPackage,
     PeerKeyPackage   |-> PeerKeyPackage,
     Welcome          |-> MLSMessage(MLS_WELCOME, Welcome("standard")),
     WelcomeStandard  |-> Welcome("standard"),
     WelcomeCisco     |-> Welcome("cisco"),
     WelcomeMlspp     |-> Welcome("mlspp"),
     Commit           |-> MLSMessage(MLS_PUBLIC_MESSAGE, PublicMessage),
     GroupInfo        |-> GroupInfo,
     GroupSecrets     |-> GroupSecrets,
     Proposal         |-> Proposal,
     ProposalCommit   |-> ProposalCommit,
     PSKExtension     |-> ExternalPSKExtension,
     Extensions       |-> encode_extensions("standard"),
     ExtensionsCisco  |-> encode_extensions("cisco"),
     Extensions16     |-> Extensions(2),
     MLSGroup         |-> MLSGroup]

ReadAs == [WrittenAs EXCEPT !.PeerKeyPackage = KeyPackage]

Wrapped(k, v) == IF k = "Commit" THEN wrap_commit(v) ELSE v
Unwrapped(k, v) == IF k = "Commit" THEN unwrap_commit(v) ELSE v

send(k, v) == encode(WrittenAs[k], Wrapped(k, v))

Init ==
    /\ kind \in Kinds
    /\ value \in Samples[kind]
    /\ wire = send(kind, value)
    /\ whole = TRUE
    /\ relays = 0
    /\ got = <<>>

\* The end of the bytes is lost: a short read, or the short os.write that
\* _write_secret does not notice.
lose ==
    /\ MayCut /\ whole /\ got = <<>>
    /\ \E n \in 0 .. Len(wire) - 1 : wire' = SubSeq(wire, 1, n)
    /\ whole' = FALSE
    /\ UNCHANGED <<kind, value, relays, got>>

\* Two commands write the same state file: both have opened and truncated
\* it, the longer state is written first and the shorter one over it from
\* offset 0, so that the end of the longer one stays behind it.
overlap ==
    /\ MayOverlap /\ kind = "MLSGroup"
    /\ whole /\ got = <<>> /\ relays = 0
    /\ wire = send(kind, value)
    /\ \E v \in Samples[kind] :
          LET longer == send(kind, v)
          IN  /\ Len(longer) > Len(wire)
              /\ wire' = wire \o SubSeq(longer, Len(wire) + 1, Len(longer))
    /\ UNCHANGED <<kind, value, whole, relays, got>>

receive ==
    /\ got = <<>>
    /\ got' = <<Mapped(decode(ReadAs[kind], wire, 0), LAMBDA v : Unwrapped(kind, v))>>
    /\ UNCHANGED <<kind, value, wire, whole, relays>>

\* The reader writes what it parsed: a package that is passed on, a state
\* that is loaded and saved.  wrap_commit refuses a commit that was parsed.
relay ==
    /\ relays < MaxRelays
    /\ got # <<>> /\ got[1].ok
    /\ kind # "Commit"
    /\ wire' = encode(ReadAs[kind], got[1].val)
    /\ relays' = relays + 1
    /\ got' = <<>>
    /\ UNCHANGED <<kind, value, whole>>

Next == lose \/ overlap \/ receive \/ relay

Spec == Init /\ [][Next]_vars

-----------------------------------------------------------------------------
(* Properties *)

Accepted == got # <<>> /\ got[1].ok

\* The to_bytes methods write byte strings: every length, index and epoch
\* is split into bytes that struct.pack and int.to_bytes accept.
TypeOK ==
    /\ kind \in Kinds
    /\ \A i \in DOMAIN wire : wire[i] \in Byte
    /\ whole \in BOOLEAN
    /\ relays \in 0 .. MaxRelays
    /\ Len(got) <= 1

\* Whatever a to_bytes method writes, the matching from_bytes accepts, also
\* after it was parsed and written again, and the reader would write the
\* same bytes: the references and hashes that members compute from a
\* structure (KeyPackageRef, ProposalRef, tree hash) are the same for the
\* one that built it and for those that parsed it.  A state file with the
\* end of a longer one behind it loads as the shorter one, which was written
\* last.
Received ==
    got # <<>> /\ whole => got[1].ok /\ send(kind, got[1].val) = send(kind, value)

\* All the byte strings of a structure that a signature is made over.
SignedBytes(k, v) ==
    CASE k = "KeyPackage" -> <<LeafNodeTBS(v[3][4], <<>>, 0), KeyPackageTBS(v[3])>>
      [] k = "KeyPackageFile" -> <<LeafNodeTBS(v[4], <<>>, 0), KeyPackageTBS(v)>>
      [] k = "GroupInfo"  -> <<GroupInfoTBS(v)>>
      [] k = "Commit"     -> <<body_bytes(v[1])>>
                             \o [i \in DOMAIN v[1][5] |-> LeafNodeTBS(v[1][5][i][1][4], v[2], v[1][4])]
      [] OTHER            -> <<>>

\* A verifier computes from what it parsed the bytes that the signer computed
\* from what it built: no field that is filled in, left out or reordered on
\* the way makes verify_signature refuse an honest package, commit or group
\* info.
SignedSurvives ==
    Accepted /\ whole => SignedBytes(kind, got[1].val) = SignedBytes(kind, value)

\* Structures that no member reads unless a seal was opened first, that stay
\* on the disk, or whose reader nothing in the library calls.
NotOnTheWire == {"GroupSecrets", "MLSGroup", "ExtensionsCisco"}

\* A structure that lost its end is refused, wherever it was cut: no reader
\* takes a prefix for a shorter structure, also where nothing around it says
\* how long it is, as in the .pub file of a key package, whose Capabilities
\* are read from unchecked slices.
CutRefused == ~ whole /\ kind \notin NotOnTheWire => ~ Accepted

Dialect == [WelcomeStandard |-> "standard", WelcomeCisco |-> "cisco", WelcomeMlspp |-> "mlspp"]

\* detect_dialect tells the dialect of every Welcome that to_bytes wrote.
DialectDetected ==
    whole /\ kind \in DOMAIN Dialect => detect_dialect(wire) = Dialect[kind]

\* A state file that lost its end is refused, or loads as the same member in
\* the same epoch with the same tree and secrets: what is taken for an older
\* format lacks no more than what came after these.
CutStateSameEpoch ==
    ~ whole /\ kind = "MLSGroup" /\ Accepted =>
        /\ \A i \in 1 .. 3 : got[1].val[i] = value[i]
        /\ encode(EpochState, got[1].val[4]) = encode(EpochState, value[4])

\* A group that is loaded knows the key packages its members have consumed
\* and the interim transcript hash, however much of the file was written.
StateRestored ==
    kind = "MLSGroup" /\ Accepted => got[1].val[5] = value[5] /\ got[1].val[6] = value[6]

\* Welcome.from_mlsmessage_bytes: four bytes are stripped.
from_mlsmessage_bytes(data) == decode(Welcome("standard"), SubSeq(data, 5, Len(data)), 0)

\* from_mlsmessage_bytes reads the MLSMessage with a Welcome that to_bytes
\* wrote and unwrap_welcome reads.
EnvelopeRead ==
    whole /\ kind = "Welcome" /\ Accepted =>
        LET w == from_mlsmessage_bytes(wire) IN w.ok /\ w.val = got[1].val[3]

\* A key package that another implementation of RFC 9420 has signed is
\* verified over the bytes it was signed over.
PeerVerified ==
    whole /\ kind = "PeerKeyPackage" /\ Accepted =>
        KeyPackageTBS(got[1].val) = PeerKeyPackageTBS(value)
=============================================================================

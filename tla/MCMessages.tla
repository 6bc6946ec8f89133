----------------------------- MODULE MCMessages -----------------------------
(***************************************************************************)
(* The structures that the runs of Messages send.                          *)
(***************************************************************************)
EXTENDS Messages

\* Byte strings on both sides of the first VarInt boundary.
Long == [i \in 1 .. 64 |-> i]
Some == {<<7>>, Long}
Key(b) == [i \in 1 .. KeySize |-> b]

Caps == <<<<1>>, <<1>>, <<1, 2, 4>>, <<1, 2, 3>>, <<1>>>>
Lists == {<<>>, <<<<4, <<>>>>, <<2, Long>>>>}

Leaf(key, source, exts) == <<key, Key(2), <<1, <<7>>>>, Caps, source, exts, Key(9)>>

\* As LeafNode.create makes it, with a lifetime or a parent hash, and as an
\* update.
Sources == {<<1, <<>>>>, <<1, <<<<5, 100000>>>>>>, <<2, <<>>>>, <<3, <<>>>>, <<3, <<Key(3)>>>>}
Leaves == {Leaf(<<7>>, s, x) : s \in Sources, x \in Lists}

Package(init, leaf, exts) == <<<<>>, <<>>, init, leaf, exts, Key(8)>>
Packages == {Package(i, l, <<>>) : i \in Some, l \in Leaves}

Blank == <<0, <<>>>>
Leaf1 == <<1, <<1, Leaf(<<7>>, <<1, <<>>>>, <<>>)>>>>
Leaf3 == <<1, <<1, Leaf(Long, <<3, <<Key(3)>>>>, <<>>)>>>>
Parent == <<1, <<2, <<Key(4), <<>>, <<1, 70000>>>>>>>>
Trees == {<<Leaf1>>, <<Leaf1, Blank, Leaf3>>, <<Leaf1, Parent, Leaf3, Blank, Blank, Blank, Blank>>}

Path == <<Package(<<7>>, Leaf(Key(5), <<3, <<Key(3)>>>>, <<>>), <<>>),
          <<<<Key(6), <<<<Key(1), Long>>, <<Key(1), <<7>>>>>>>>, <<Key(7), <<>>>>>>>>

Updates == {<<70000, t, s, 1, p, Key(9)>> :
               t \in Trees, s \in {{}, {<<Key(2), Long>>, <<Key(1), <<7>>>>}}, p \in {<<>>, <<Path>>}}
Commits == {<<u, g, Key(5), Key(6)>> : u \in Updates, g \in Some}

Contexts == {<<<<>>, <<>>, g, e, Key(1), Key(2), x>> : g \in Some, e \in {0, 70000}, x \in {<<>>, Long}}
Infos == {<<c, x, Key(3), 1, Key(9)>> : c \in Contexts, x \in {<<>>, <<0, 2, 1, 7>>}}

PSKs == {<<>>, <<<<1, <<<<7>>, Long>>>>, <<2, <<1, <<7>>, 70000, Key(3)>>>>>>}
Secrets == {<<Key(1), p, k>> : p \in {<<>>, <<Long>>}, k \in PSKs}

Welcomes == {<<<<>>, <<>>, egs, info>> :
                egs \in {<<<<Key(1), Key(2), <<7>>>>>>, <<<<Key(1), Key(2), Long>>, <<Key(3), Key(2), <<7>>>>>>},
                info \in Some}

Proposals == {<<<<>>, p>> : p \in {<<1, Long>>, <<2, <<7>>>>, <<3, 70000>>, <<4, <<<<>>, <<7>>, Long>>>>}}
ProposalLists == {<<ps, p>> : ps \in {<<>>, <<<<1, Long>>, <<2, Key(1)>>>>}, p \in {<<>>, <<Long>>}}

Groups == {<<1, Key(1), Key(2), <<g, 70000, t, [i \in 1 .. 11 * KeySize |-> i]>>, h, c>> :
              g \in Some, t \in Trees, h \in {<<>>, Key(5)}, c \in {{}, {Key(7), Key(8)}}}

Envelope(vs) == {<<<<>>, <<>>, v>> : v \in vs}

MCSamples ==
    [KeyPackage       |-> Envelope(Packages),
     KeyPackageFile   |-> Packages,
     PeerKeyPackage   |-> {Package(<<7>>, Leaf(<<7>>, <<1, <<>>>>, <<>>), x) : x \in Lists},
     Welcome          |-> Envelope(Welcomes),
     WelcomeStandard  |-> Welcomes,
     WelcomeCisco     |-> Welcomes,
     WelcomeMlspp     |-> Welcomes,
     Commit           |-> Commits,
     GroupInfo        |-> Infos,
     GroupSecrets     |-> Secrets,
     Proposal         |-> Proposals,
     ProposalCommit   |-> ProposalLists,
     PSKExtension     |-> {<<<<>>, Long, Key(1)>>},
     Extensions       |-> Lists,
     ExtensionsCisco  |-> Lists,
     Extensions16     |-> Lists,
     MLSGroup         |-> Groups]

\* Everything but the packages of other implementations.
OwnKinds == DOMAIN MCSamples \ {"PeerKeyPackage"}
=============================================================================

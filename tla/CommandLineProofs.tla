------------------------- MODULE CommandLineProofs -------------------------
(***************************************************************************)
(* Proofs about CommandLine for any number of users, shells, identities    *)
(* and epochs, with commands cut off anywhere or run at once.              *)
(***************************************************************************)
EXTENDS CommandLine, SequenceTheorems, NaturalsInduction, WellFoundedInduction, TLAPS

-----------------------------------------------------------------------------
(* The invariants.  What they say of identities, epochs and files has these *)
(* for parameters (os, es, f), to be used before and after a step.          *)

\* What a file may hold when it is whole.
KeyOf(os, u, c) == \E k \in DOMAIN os : os[k] = u /\ c = <<"key", k>>

StateOf(os, es, u, c) ==
    \E s \in GroupState :
        /\ c = <<"group", s>>
        /\ s.epoch \in DOMAIN es
        /\ s.key \in DOMAIN os /\ os[s.key] = u

WelcomeOf(es, e, c) ==
    e \in DOMAIN es /\ es[e].added # 0 /\ c = <<"welcome", e, es[e].added>>

CommitOf(es, e, c) == e \in DOMAIN es /\ es[e].from # 0 /\ c = <<"commit", e>>

Fits(os, es, path, c) ==
    \/ \E u \in Users : path \in {Priv(u), Pub(u)} /\ KeyOf(os, u, c)
    \/ \E u \in Users : path = State(u) /\ StateOf(os, es, u, c)
    \/ \E e \in Epochs : path = WelcomeFile(e) /\ WelcomeOf(es, e, c)
    \/ \E e \in Epochs : path = CommitFile(e) /\ CommitOf(es, e, c)

\* An epoch is made from an earlier one, by an identity that exists, and
\* brings in nobody that was there.
Recorded(os, es) ==
    /\ os \in Seq(Users) /\ Len(os) <= MaxKeygens
    /\ es \in Seq(Epoch) /\ Len(es) <= MaxEpochs
    /\ \A e \in DOMAIN es :
          /\ es[e].from < e
          /\ es[e].by \in DOMAIN os
          /\ es[e].added # 0 => es[e].from # 0 /\ es[e].added \notin es[es[e].from].roster

\* The inputs that a command asks for.
Asks(cmd) ==
    \/ cmd.op = "keygen" /\ cmd.ins = <<>>
    \/ cmd.op = "create" /\ cmd.ins = <<Priv(cmd.user)>>
    \/ cmd.op = "join" /\ \E e \in Epochs : cmd.ins = <<Priv(cmd.user), WelcomeFile(e)>>
    \/ cmd.op = "add" /\ \E v \in Users : cmd.ins = <<State(cmd.user), Pub(v)>>
    \/ cmd.op \in {"remove", "update"} /\ cmd.ins = <<State(cmd.user)>>
    \/ cmd.op = "apply" /\ \E e \in Epochs : cmd.ins = <<State(cmd.user), CommitFile(e)>>

\* A command has read what belongs in its inputs, in order, and has to write
\* what belongs in its outputs, each of them once.
InOrder(os, es, r) ==
    /\ r \in Running
    /\ Asks(r.cmd)
    /\ Len(r.got) <= Len(r.cmd.ins)
    /\ \A i \in DOMAIN r.got : Fits(os, es, r.cmd.ins[i], r.got[i])
    /\ \A i \in DOMAIN r.outs : Fits(os, es, r.outs[i][1], r.outs[i][2])
    /\ \A i, j \in DOMAIN r.outs : r.outs[i][1] = r.outs[j][1] => i = j
    /\ \A u \in Users, i \in DOMAIN r.outs : r.outs[i][1] = State(u) => i = 1 /\ u = r.cmd.user
    /\ r.step = "writes" => r.outs # <<>>
    /\ r.step = "reads" => r.outs = <<>> /\ ~ r.cut

DataInv ==
    /\ Recorded(owner, epochs)
    /\ file \in [Paths -> {Absent, Empty} \cup Whole]
    /\ \A path \in Paths : IsWhole(path) => Fits(owner, epochs, path, file[path])
    /\ running \in [Shells -> {Idle} \cup Running]
    /\ \A p \in Shells : running[p] # Idle => InOrder(owner, epochs, running[p])
    /\ hasty \in BOOLEAN

\* A commit has one writer, which writes it once.
Sends(r, path) == r # Idle /\ \E i \in DOMAIN r.outs : r.outs[i][1] = path

SentOnce ==
    \A p \in Shells, e \in Epochs : Sends(running[p], CommitFile(e)) =>
        /\ ~ IsWhole(CommitFile(e))
        /\ \A q \in Shells : Sends(running[q], CommitFile(e)) => q = p

Sent(f) == {e \in Epochs : f[CommitFile(e)] \notin {Absent, Empty}}

\* Who has state s was invited later, or made the commit, or could read it.
Followed(es, sent, s) ==
    \A a \in Ancestry(es)[s.epoch] :
        /\ es[a].from # 0 /\ es[a].by # s.key
        /\ s.key \in es[es[a].from].roster
        /\ \A b \in Ancestry(es)[s.epoch] : b >= a => s.key \in es[b].roster
        => a \in sent

\* What is in a file, read from one or to be written, if it is a state.
StateFollowed(es, sent, c) == c[1] = "group" => Followed(es, sent, c[2])

CommandFollowed(es, sent, r) ==
    /\ \A i \in DOMAIN r.got : StateFollowed(es, sent, r.got[i])
    /\ \A i \in DOMAIN r.outs : StateFollowed(es, sent, r.outs[i][2])
    /\ \A i \in DOMAIN r.got : \A e \in Epochs : r.got[i] = <<"commit", e>> => e \in sent

FollowInv ==
    /\ SentOnce
    /\ \A path \in Paths : StateFollowed(epochs, Sent(file), file[path])
    /\ \A p \in Shells : running[p] # Idle => CommandFollowed(epochs, Sent(file), running[p])

\* Where commands are run at once, what was made is written or still to be,
\* and an empty file is about to be written.
Arrives(path) == IsWhole(path) \/ \E p \in Shells : Sends(running[p], path)

HastyInv == hasty =>
    /\ \A e \in DOMAIN epochs :
          /\ epochs[e].from # 0 => Arrives(CommitFile(e))
          /\ epochs[e].added # 0 => Arrives(WelcomeFile(e))
    /\ \A path \in Paths : file[path] = Empty =>
          \E p \in Shells : running[p] # Idle /\ running[p].cut /\ running[p].outs[1][1] = path

\* Where they are run one after the other: the epochs published by a user
\* are behind the state it has, or writes next.
Published(f, e) ==
    f[CommitFile(e)] \notin {Absent, Empty} \/ f[WelcomeFile(e)] \notin {Absent, Empty}

Covers(os, es, f, u, n) ==
    \A e \in DOMAIN es : os[es[e].by] = u /\ Published(f, e) => e \in Ancestry(es)[n]

ReadsNow(f, r) ==
    r.step = "reads" =>
        /\ \A i \in DOMAIN r.got : r.got[i] = f[r.cmd.ins[i]]
        /\ r.cmd.op \in {"create", "join"} => f[State(r.cmd.user)] = Absent

\* A state to be written has behind it what its user published; a commit or
\* welcome to be written is of the epoch its committer is on, or will be by then.
StateNext(os, es, f, r) ==
    \A i \in DOMAIN r.outs :
        /\ \A u \in Users : r.outs[i][1] = State(u) => Covers(os, es, f, u, r.outs[i][2][2].epoch)
        /\ \A e \in Epochs : r.outs[i][1] \in {CommitFile(e), WelcomeFile(e)} =>
              LET u == os[es[e].by] IN
              IF r.outs[1][1] = State(u)
              THEN r.outs[1][2][2].epoch = e
              ELSE f[State(u)] \notin {Absent, Empty} /\ f[State(u)][2].epoch = e

\* The same of private and public keys.
KeyNext(f, r) ==
    \A i \in DOMAIN r.outs, u \in Users :
        /\ r.outs[i][1] = Priv(u) =>
              i = 1 /\ (f[Pub(u)] \notin {Absent, Empty} => r.outs[i][2][2] >= f[Pub(u)][2])
        /\ r.outs[i][1] = Pub(u) =>
              IF r.outs[1][1] = Priv(u) THEN r.outs[1][2] = r.outs[i][2] ELSE f[Priv(u)] = r.outs[i][2]

Tidy(os, es, f, r) == ReadsNow(f, r) /\ StateNext(os, es, f, r) /\ KeyNext(f, r)

Orderly(os, es, f) ==
    \A u \in Users :
        /\ f[State(u)] = Absent => \A e \in DOMAIN es : os[es[e].by] = u => ~ Published(f, e)
        /\ f[State(u)] \notin {Absent, Empty} => Covers(os, es, f, u, f[State(u)][2].epoch)
        /\ f[Pub(u)] \notin {Absent, Empty} /\ f[Priv(u)] \notin {Absent, Empty} =>
              f[Priv(u)][2] >= f[Pub(u)][2]

OrderlyInv == ~ hasty =>
    /\ \A p, q \in Shells : running[p] # Idle /\ running[q] # Idle => p = q
    /\ \A p \in Shells : running[p] # Idle => Tidy(owner, epochs, file, running[p])
    /\ Orderly(owner, epochs, file)

-----------------------------------------------------------------------------
(* The line of an epoch *)

LEMMA LeastEpoch ==
    ASSUME NEW S \in SUBSET Nat, S # {}
    PROVE  \E x \in S : \A y \in S : x <= y
<1>1. PICK x \in S : \A y \in S : <<y, x>> \notin OpToRel(<, Nat)
    BY WFMin, NatLessThanWellFounded, Zenon
<1>2. \A y \in S : ~ (y < x)
    BY <1>1, Zenon DEF OpToRel
<1>3. \A y \in S : x <= y
    BY <1>2
<1> QED
    BY <1>3

\* Sets of epochs that hold with an epoch the one it was made from.
Closed(es, S) == \A n \in S : es[n].from # 0 => es[n].from \in S

Below(es, n) ==
    {a \in DOMAIN es : \A S \in SUBSET DOMAIN es : n \in S /\ Closed(es, S) => a \in S}

LEMMA BelowStep ==
    ASSUME NEW es \in Seq(Epoch), \A e \in DOMAIN es : es[e].from < e, NEW n \in DOMAIN es
    PROVE  Below(es, n) = {n} \cup (IF es[n].from = 0 THEN {} ELSE Below(es, es[n].from))
<1> DEFINE m == es[n].from
           R == {n} \cup (IF m = 0 THEN {} ELSE Below(es, m))
<1>1. m \in Nat /\ (m # 0 => m \in DOMAIN es)
  <2>1. es[n] \in Epoch /\ n \in 1 .. Len(es) /\ es[n].from < n
      OBVIOUS
  <2> QED
      BY <2>1, CommandLineAssumption DEF Epoch
<1>2. R \subseteq DOMAIN es
    BY DEF Below
<1>3. m # 0 => m \in Below(es, m)
    BY <1>1 DEF Below
<1>4. Closed(es, R)
  <2> SUFFICES ASSUME NEW b \in R, es[b].from # 0 PROVE es[b].from \in R
      BY DEF Closed
  <2>1. CASE b = n
      BY <1>3, <2>1
  <2>2. CASE b # n
    <3>1. m # 0 /\ b \in Below(es, m)
        BY <2>2
    <3>2. es[b].from \in DOMAIN es
      <4>1. b \in DOMAIN es
          BY <3>1 DEF Below
      <4>2. es[b] \in Epoch /\ b \in 1 .. Len(es) /\ es[b].from < b
          BY <4>1
      <4> QED
          BY <4>2, CommandLineAssumption DEF Epoch
    <3>3. es[b].from \in Below(es, m)
        BY <3>1, <3>2 DEF Below, Closed
    <3> QED
        BY <3>1, <3>3
  <2> QED
      BY <2>1, <2>2
<1>5. Below(es, n) \subseteq R
    BY <1>2, <1>4 DEF Below
<1>6. ASSUME NEW S \in SUBSET DOMAIN es, n \in S, Closed(es, S)
      PROVE  R \subseteq S
  <2>1. m # 0 => m \in S
      BY <1>6 DEF Closed
  <2> QED
      BY <1>6, <2>1 DEF Below
<1>7. R \subseteq Below(es, n)
    BY <1>2, <1>6 DEF Below
<1> QED
    BY <1>5, <1>7

LEMMA AncestryDef ==
    ASSUME NEW es \in Seq(Epoch), \A e \in DOMAIN es : es[e].from < e
    PROVE  Ancestry(es) = [n \in 0 .. Len(es) |->
                IF n = 0 THEN {} ELSE {n} \cup Ancestry(es)[es[n].from]]
<1> DEFINE G(f) == [n \in 0 .. Len(es) |-> IF n = 0 THEN {} ELSE {n} \cup f[es[n].from]]
           F == [n \in 0 .. Len(es) |-> IF n = 0 THEN {} ELSE Below(es, n)]
<1>1. ASSUME NEW n \in 0 .. Len(es), n # 0
      PROVE  F[n] = {n} \cup F[es[n].from]
  <2>1. n \in DOMAIN es /\ es[n] \in Epoch /\ es[n].from < n
      BY <1>1
  <2>2. es[n].from \in 0 .. Len(es)
      BY <2>1, CommandLineAssumption DEF Epoch
  <2> QED
      BY <2>1, <2>2, BelowStep, <1>1
<1>2. F = G(F)
    BY <1>1
<1>3. \E f : f = G(f)
    BY <1>2
<1>4. Ancestry(es) = CHOOSE f : f = G(f)
    BY DEF Ancestry
<1> QED
    BY <1>3, <1>4

\* The line of an epoch is the epoch with the line of what it was made from.
LEMMA AncestryStep ==
    ASSUME NEW es \in Seq(Epoch), \A e \in DOMAIN es : es[e].from < e
    PROVE  /\ Ancestry(es)[0] = {}
           /\ \A n \in DOMAIN es :
                /\ es[n].from \in Nat /\ es[n].from < n
                /\ Ancestry(es)[n] = {n} \cup Ancestry(es)[es[n].from]
<1>1. \A n \in DOMAIN es : n \in 1 .. Len(es) /\ es[n] \in Epoch
    OBVIOUS
<1>2. \A n \in DOMAIN es : es[n].from \in Nat /\ es[n].from < n
    BY <1>1, CommandLineAssumption DEF Epoch
<1>3. 0 \in 0 .. Len(es) /\ \A n \in DOMAIN es : n \in 0 .. Len(es) /\ n # 0
    BY <1>1
<1> DEFINE A == Ancestry(es)
<1>4. A = [n \in 0 .. Len(es) |-> IF n = 0 THEN {} ELSE {n} \cup A[es[n].from]]
    BY AncestryDef
<1> HIDE DEF A
<1>5. A[0] = {} /\ \A n \in DOMAIN es : A[n] = {n} \cup A[es[n].from]
    BY <1>3, <1>4
<1> QED
    BY <1>2, <1>5 DEF A

LEMMA AncestryBound ==
    ASSUME NEW es \in Seq(Epoch), \A e \in DOMAIN es : es[e].from < e, NEW n \in DOMAIN es
    PROVE  Ancestry(es)[n] \subseteq 1 .. n
<1> DEFINE A == Ancestry(es)
           Bad == {x \in DOMAIN es : ~ (A[x] \subseteq 1 .. x)}
<1>1. A[0] = {} /\ \A x \in DOMAIN es :
         es[x].from \in Nat /\ es[x].from < x /\ A[x] = {x} \cup A[es[x].from]
    BY AncestryStep
<1> HIDE DEF A
<1>2. \A x \in DOMAIN es : x \in Nat /\ x > 0 /\ \A y \in Nat : y < x /\ y # 0 => y \in DOMAIN es
    OBVIOUS
<1>3. SUFFICES Bad = {}
    BY DEF A
<1>4. SUFFICES ASSUME Bad # {} PROVE FALSE
    OBVIOUS
<1>5. PICK x \in Bad : \A y \in Bad : x <= y
  <2>1. Bad \in SUBSET Nat
      BY <1>2
  <2> HIDE DEF Bad
  <2> QED
      BY <1>4, <2>1, LeastEpoch
<1>6. A[es[x].from] \subseteq 1 .. x
  <2>1. CASE es[x].from = 0
      BY <1>1, <2>1
  <2>2. CASE es[x].from # 0
    <3>1. es[x].from \in DOMAIN es /\ es[x].from \notin Bad /\ es[x].from <= x
        BY <1>1, <1>2, <1>5, <2>2
    <3>2. A[es[x].from] \subseteq 1 .. es[x].from
        BY <3>1
    <3> QED
        BY <3>1, <3>2, <1>1, <1>2
  <2> QED
      BY <2>1, <2>2
<1>7. x \in 1 .. x
    BY <1>2
<1> QED
    BY <1>1, <1>6, <1>7

\* What was recorded stays.
Longer(old, new) == \A n \in DOMAIN old : n \in DOMAIN new /\ new[n] = old[n]

\* What is added to a history changes no line.
LEMMA AncestryGrows ==
    ASSUME NEW es \in Seq(Epoch), NEW fs \in Seq(Epoch), Longer(es, fs),
           \A e \in DOMAIN fs : fs[e].from < e,
           NEW n \in DOMAIN es
    PROVE  Ancestry(fs)[n] = Ancestry(es)[n]
<1> DEFINE A == Ancestry(es)
           B == Ancestry(fs)
           Bad == {y \in DOMAIN es : A[y] # B[y]}
<1>1. \A y \in DOMAIN es : y \in DOMAIN fs /\ fs[y] = es[y]
    BY DEF Longer
<1>2. \A e \in DOMAIN es : es[e].from < e
    BY <1>1
<1>3. A[0] = {} /\ \A y \in DOMAIN es :
         es[y].from \in Nat /\ es[y].from < y /\ A[y] = {y} \cup A[es[y].from]
    BY <1>2, AncestryStep
<1> HIDE DEF A
<1>5. B[0] = {} /\ \A y \in DOMAIN fs : B[y] = {y} \cup B[fs[y].from]
    BY <1>1, AncestryStep
<1> HIDE DEF B
<1>6. \A y \in DOMAIN es : y \in Nat /\ y > 0 /\ \A z \in Nat : z < y /\ z # 0 => z \in DOMAIN es
    OBVIOUS
<1>7. SUFFICES ASSUME Bad # {} PROVE FALSE
    BY DEF A, B
<1>8. PICK y \in Bad : \A z \in Bad : y <= z
  <2>1. Bad \in SUBSET Nat
      BY <1>6
  <2> HIDE DEF Bad
  <2> QED
      BY <1>7, <2>1, LeastEpoch
<1>9. y \in DOMAIN es /\ A[y] # B[y] /\ y \in Nat
    BY <1>6, <1>8
<1> DEFINE m == es[y].from
<1>10. m \in Nat /\ m < y /\ A[y] = {y} \cup A[m]
    BY <1>3, <1>9
<1>11. B[y] = {y} \cup B[m]
    BY <1>1, <1>5, <1>9
<1> HIDE DEF m
<1>12. A[m] = B[m]
  <2>1. CASE m = 0
      BY <1>3, <1>5, <2>1
  <2>2. CASE m # 0
    <3>1. m \in DOMAIN es
        BY <1>6, <1>9, <1>10, <2>2
    <3>2. m \notin Bad
        BY <1>8, <1>9, <1>10
    <3> QED
        BY <3>1, <3>2
  <2> QED
      BY <2>1, <2>2
<1> QED
    BY <1>9, <1>10, <1>11, <1>12

-----------------------------------------------------------------------------
(* What belongs in a file *)

LEMMA PathTypes ==
    /\ \A u \in Users : Priv(u) \in Paths /\ Pub(u) \in Paths /\ State(u) \in Paths
    /\ \A e \in Epochs : WelcomeFile(e) \in Paths /\ CommitFile(e) \in Paths
BY DEF Paths

\* Files have different names.
LEMMA PathsApart ==
    /\ \A u, v : /\ Priv(u) # Pub(v) /\ Priv(u) # State(v) /\ Pub(u) # State(v)
                 /\ Priv(u) # WelcomeFile(v) /\ Priv(u) # CommitFile(v)
                 /\ Pub(u) # WelcomeFile(v) /\ Pub(u) # CommitFile(v)
                 /\ State(u) # WelcomeFile(v) /\ State(u) # CommitFile(v)
                 /\ WelcomeFile(u) # CommitFile(v)
    /\ \A u, v : Priv(u) = Priv(v) \/ Pub(u) = Pub(v) \/ State(u) = State(v)
                     \/ WelcomeFile(u) = WelcomeFile(v) \/ CommitFile(u) = CommitFile(v) => u = v
BY DEF Priv, Pub, State, WelcomeFile, CommitFile

LEMMA FitsKey ==
    ASSUME NEW os, NEW es, NEW u, NEW c, Fits(os, es, Priv(u), c) \/ Fits(os, es, Pub(u), c)
    PROVE  KeyOf(os, u, c)
BY PathsApart DEF Fits

LEMMA FitsState ==
    ASSUME NEW os, NEW es, NEW u, NEW c, Fits(os, es, State(u), c) PROVE StateOf(os, es, u, c)
BY PathsApart DEF Fits

LEMMA FitsWelcome ==
    ASSUME NEW os, NEW es, NEW e, NEW c, Fits(os, es, WelcomeFile(e), c) PROVE WelcomeOf(es, e, c)
BY PathsApart DEF Fits

LEMMA FitsCommit ==
    ASSUME NEW os, NEW es, NEW e, NEW c, Fits(os, es, CommitFile(e), c) PROVE CommitOf(es, e, c)
BY PathsApart DEF Fits

LEMMA EpochFields ==
    ASSUME NEW os, NEW es, Recorded(os, es), NEW e \in DOMAIN es
    PROVE  /\ e \in Epochs /\ e \in Nat /\ e > 0
           /\ es[e] \in Epoch
           /\ es[e].from \in Nat /\ es[e].from < e /\ (es[e].from # 0 => es[e].from \in DOMAIN es)
           /\ es[e].by \in DOMAIN os /\ es[e].by \in Keys
           /\ es[e].roster \subseteq Keys
           /\ es[e].added \in 0 .. MaxKeygens /\ (es[e].added # 0 => es[e].added \in Keys)
<1>1. os \in Seq(Users) /\ Len(os) <= MaxKeygens /\ es \in Seq(Epoch) /\ Len(es) <= MaxEpochs
    BY DEF Recorded
<1>2. e \in 1 .. Len(es) /\ es[e] \in Epoch /\ es[e].from < e /\ es[e].by \in DOMAIN os
    BY <1>1 DEF Recorded
<1>3. es[e].from \in Nat /\ es[e].by \in Keys /\ es[e].roster \subseteq Keys
        /\ es[e].added \in 0 .. MaxKeygens
    BY <1>2, CommandLineAssumption DEF Epoch
<1> QED
    BY <1>1, <1>2, <1>3, CommandLineAssumption DEF Epochs, Keys

LEMMA FitsWhole ==
    ASSUME NEW os, NEW es, Recorded(os, es), NEW path, NEW c, Fits(os, es, path, c)
    PROVE  path \in Paths /\ c \in Whole /\ c \notin {Absent, Empty}
<1>1. ASSUME NEW u \in Users, path \in {Priv(u), Pub(u)}, KeyOf(os, u, c)
      PROVE  path \in Paths /\ c \in Whole /\ c \notin {Absent, Empty}
  <2>1. PICK k \in DOMAIN os : c = <<"key", k>>
      BY <1>1 DEF KeyOf
  <2>2. k \in Keys
      BY CommandLineAssumption DEF Recorded, Keys
  <2> QED
      BY <1>1, <2>1, <2>2, PathTypes DEF Whole, Absent, Empty
<1>2. ASSUME NEW u \in Users, path = State(u), StateOf(os, es, u, c)
      PROVE  path \in Paths /\ c \in Whole /\ c \notin {Absent, Empty}
    BY <1>2, PathTypes DEF Whole, Absent, Empty, StateOf
<1>3. ASSUME NEW e \in Epochs, path = WelcomeFile(e), WelcomeOf(es, e, c)
      PROVE  path \in Paths /\ c \in Whole /\ c \notin {Absent, Empty}
  <2>1. e \in DOMAIN es /\ es[e].added \in Keys /\ c = <<"welcome", e, es[e].added>>
      BY <1>3, EpochFields DEF WelcomeOf
  <2> QED
      BY <1>3, <2>1, PathTypes DEF Whole, Absent, Empty
<1>4. ASSUME NEW e \in Epochs, path = CommitFile(e), CommitOf(es, e, c)
      PROVE  path \in Paths /\ c \in Whole /\ c \notin {Absent, Empty}
    BY <1>4, PathTypes DEF Whole, Absent, Empty, CommitOf
<1> QED
    BY <1>1, <1>2, <1>3, <1>4 DEF Fits

LEMMA FitsStill ==
    ASSUME NEW os, NEW es, NEW os2, NEW es2, Longer(os, os2), Longer(es, es2),
           NEW path, NEW c, Fits(os, es, path, c)
    PROVE  Fits(os2, es2, path, c)
<1>1. ASSUME NEW u, KeyOf(os, u, c) PROVE KeyOf(os2, u, c)
    BY <1>1 DEF KeyOf, Longer
<1>2. ASSUME NEW u, StateOf(os, es, u, c) PROVE StateOf(os2, es2, u, c)
    BY <1>2 DEF StateOf, Longer
<1>3. ASSUME NEW e, WelcomeOf(es, e, c) PROVE WelcomeOf(es2, e, c)
    BY <1>3 DEF WelcomeOf, Longer
<1>4. ASSUME NEW e, CommitOf(es, e, c) PROVE CommitOf(es2, e, c)
    BY <1>4 DEF CommitOf, Longer
<1> QED
    BY <1>1, <1>2, <1>3, <1>4 DEF Fits

LEMMA InOrderStill ==
    ASSUME NEW os, NEW es, NEW os2, NEW es2, Longer(os, os2), Longer(es, es2),
           NEW r, InOrder(os, es, r)
    PROVE  InOrder(os2, es2, r)
BY FitsStill DEF InOrder

-----------------------------------------------------------------------------
(* The steps.  The command of shell p, which was s, goes on as r. *)

GoesOn(p, r) == p \in Shells /\ running' = [running EXCEPT ![p] = r] /\ hasty' = hasty

Started(s, r) ==
    /\ s = Idle
    /\ r \in Running /\ Asks(r.cmd)
    /\ r.got = <<>> /\ r.outs = <<>> /\ r.step = "reads" /\ ~ r.cut
    /\ r.cmd.op \in {"create", "join"} => file[State(r.cmd.user)] = Absent
    /\ ~ hasty => \A q \in Shells : running[q] = Idle
    /\ UNCHANGED <<owner, epochs, file>>

HasRead(s, r) ==
    /\ s # Idle /\ s.step = "reads" /\ Len(s.got) < Len(s.cmd.ins)
    /\ LET path == s.cmd.ins[Len(s.got) + 1] IN
       IsWhole(path) /\ r = [s EXCEPT !.got = Append(@, file[path])]
    /\ UNCHANGED <<owner, epochs, file>>

\* Refused or cut off.
Stopped(s, r) ==
    /\ s # Idle /\ r = Idle
    /\ hasty => s.step = "reads"
    /\ UNCHANGED <<owner, epochs, file>>

Truncated(s, r) ==
    /\ s # Idle /\ s.step = "writes" /\ ~ s.cut
    /\ r = [s EXCEPT !.cut = TRUE]
    /\ file' = [file EXCEPT ![s.outs[1][1]] = Empty]
    /\ UNCHANGED <<owner, epochs>>

Written(s, r) ==
    /\ s # Idle /\ s.step = "writes" /\ s.cut
    /\ r = IF Len(s.outs) = 1 THEN Idle ELSE [s EXCEPT !.outs = Tail(@), !.cut = FALSE]
    /\ file' = [file EXCEPT ![s.outs[1][1]] = s.outs[1][2]]
    /\ UNCHANGED <<owner, epochs>>

Performed(s, r, outs) ==
    /\ s # Idle /\ s.step = "reads" /\ Len(s.got) = Len(s.cmd.ins)
    /\ r = [s EXCEPT !.step = "writes", !.outs = outs]
    /\ UNCHANGED file

NewKey(s, outs) ==
    LET k == Len(owner) + 1 IN
    /\ k \in Keys
    /\ owner' = Append(owner, s.cmd.user) /\ epochs' = epochs
    /\ outs = <<<<Priv(s.cmd.user), <<"key", k>>>>, <<Pub(s.cmd.user), <<"key", k>>>>>>

NewGroup(s, outs) ==
    \E k \in DOMAIN owner :
        /\ s.cmd.op = "create"
        /\ owner[k] = s.cmd.user
        /\ NewEpoch \in Epochs
        /\ outs = <<<<State(s.cmd.user), Group(NewEpoch, k, TRUE, {})>>>>
        /\ epochs' = Append(epochs, [from |-> 0, by |-> k, roster |-> {k}, added |-> 0])
        /\ owner' = owner

\* From state g, epoch x is made.
Commits(s, outs, g, x, leaf, used) ==
    LET state == <<State(s.cmd.user), Group(NewEpoch, g.key, leaf, used)>>
        welcome == <<WelcomeFile(NewEpoch), <<"welcome", NewEpoch, x.added>>>>
        commit == <<CommitFile(NewEpoch), <<"commit", NewEpoch>>>> IN
    /\ 1 \in DOMAIN s.got /\ s.got[1] = <<"group", g>> /\ s.cmd.ins[1] = State(s.cmd.user)
    /\ g.epoch \in DOMAIN epochs
    /\ g.key \in DOMAIN owner /\ owner[g.key] = s.cmd.user
    /\ NewEpoch \in Epochs
    /\ x.from = g.epoch /\ x.by = g.key
    /\ x.added # 0 => x.added \notin epochs[g.epoch].roster
    /\ outs = IF x.added = 0 THEN <<state, commit>> ELSE <<state, welcome, commit>>
    /\ epochs' = Append(epochs, x)
    /\ owner' = owner

NewCommit(s, outs) ==
    \E g \in GroupState, x \in Epoch, leaf \in BOOLEAN, used \in SUBSET Keys :
        Commits(s, outs, g, x, leaf, used)

Joined(s, outs) ==
    \E e \in DOMAIN epochs, k \in DOMAIN owner :
        /\ s.cmd.op = "join"
        /\ owner[k] = s.cmd.user
        /\ k = epochs[e].added
        /\ outs = <<<<State(s.cmd.user), Group(e, k, TRUE, {})>>>>
        /\ UNCHANGED <<owner, epochs>>

Applied(s, outs) ==
    \E e \in DOMAIN epochs, g \in GroupState :
        /\ {1, 2} \subseteq DOMAIN s.got
        /\ s.got[1] = <<"group", g>> /\ s.cmd.ins[1] = State(s.cmd.user)
        /\ s.got[2] = <<"commit", e>>
        /\ g.epoch \in DOMAIN epochs
        /\ g.key \in DOMAIN owner /\ owner[g.key] = s.cmd.user
        /\ epochs[e].from = g.epoch
        /\ outs = <<<<State(s.cmd.user), Group(e, g.key, TRUE, {})>>>>
        /\ UNCHANGED <<owner, epochs>>

Acted(s, r) ==
    \E outs :
        /\ Performed(s, r, outs)
        /\ \/ NewKey(s, outs) \/ NewGroup(s, outs) \/ NewCommit(s, outs)
           \/ Joined(s, outs) \/ Applied(s, outs)

Steps(s, r) ==
    Started(s, r) \/ HasRead(s, r) \/ Stopped(s, r) \/ Truncated(s, r) \/ Written(s, r) \/ Acted(s, r)

LEMMA KeysOwned ==
    ASSUME DataInv, NEW k \in DOMAIN owner
    PROVE  k \in Keys /\ k \in Nat /\ owner[k] \in Users
BY CommandLineAssumption DEF DataInv, Recorded, Keys

LEMMA CommandAt ==
    ASSUME DataInv, NEW p \in Shells, running[p] # Idle
    PROVE  /\ running[p] \in Running /\ InOrder(owner, epochs, running[p])
           /\ running[p].cmd \in Command /\ Asks(running[p].cmd) /\ running[p].cmd.user \in Users
           /\ running[p].got \in Seq(Whole) /\ running[p].outs \in Seq(Paths \X Whole)
           /\ running[p].cut \in BOOLEAN /\ running[p].cut => running[p].step = "writes"
           /\ running[p].cmd.ins \in Seq(Paths) /\ running[p].cmd.arg \in 0 .. MaxKeygens
<1>1. InOrder(owner, epochs, running[p])
    BY DEF DataInv
<1>2. running[p] \in Running /\ Asks(running[p].cmd)
    BY <1>1 DEF InOrder
<1>3. running[p].cmd \in Command /\ running[p].got \in Seq(Whole)
        /\ running[p].outs \in Seq(Paths \X Whole) /\ running[p].cut \in BOOLEAN
        /\ running[p].step \in {"reads", "writes"}
    BY <1>2 DEF Running
<1>4. running[p].cut => running[p].step = "writes"
    BY <1>1, <1>3 DEF InOrder
<1>5. running[p].cmd.user \in Users /\ running[p].cmd.ins \in Seq(Paths)
        /\ running[p].cmd.arg \in 0 .. MaxKeygens
    BY <1>3 DEF Command
<1> QED
    BY <1>1, <1>2, <1>3, <1>4, <1>5

LEMMA StartSteps ==
    ASSUME DataInv, NEW p \in Shells, hasty' = hasty, NEW op, NEW u \in Users, NEW ins, NEW arg,
           Start(p, op, u, ins, arg),
           [op |-> op, user |-> u, ins |-> ins, arg |-> arg] \in Command,
           Asks([op |-> op, user |-> u, ins |-> ins, arg |-> arg]),
           op \in {"create", "join"} => file[State(u)] = Absent
    PROVE  \E r : GoesOn(p, r) /\ Started(running[p], r)
<1> DEFINE c == [op |-> op, user |-> u, ins |-> ins, arg |-> arg]
           r == [cmd |-> c, got |-> <<>>, outs |-> <<>>, step |-> "reads", cut |-> FALSE]
<1>0. r \in Running
    BY DEF Running
<1>1. c.op = op /\ c.user = u /\ r.cmd = c /\ r.got = <<>> /\ r.outs = <<>> /\ r.step = "reads" /\ ~ r.cut
    OBVIOUS
<1>2. running' = [running EXCEPT ![p] = r] /\ running[p] = Idle
        /\ (~ hasty => \A q \in Shells : running[q] = Idle) /\ UNCHANGED <<owner, epochs, file>>
    BY DEF Start
<1>3. Asks(c)
    OBVIOUS
<1> HIDE DEF r, c
<1>4. GoesOn(p, r)
    BY <1>2 DEF GoesOn
<1>5. Started(running[p], r)
    BY <1>0, <1>1, <1>2, <1>3 DEF Started
<1> QED
    BY <1>4, <1>5

LEMMA GiveSteps ==
    ASSUME DataInv, NEW p \in Shells, NEW u \in Users, give(p, u), hasty' = hasty
    PROVE  \E r : GoesOn(p, r) /\ Started(running[p], r)
<1> DEFINE C(op, ins, arg) == [op |-> op, user |-> u, ins |-> ins, arg |-> arg]
<1>a. ASSUME NEW op \in {"keygen", "create", "add", "join", "remove", "update", "apply"},
             NEW ins \in Seq(Paths), NEW arg \in 0 .. MaxKeygens, Start(p, op, u, ins, arg),
             Asks(C(op, ins, arg)), op \in {"create", "join"} => file[State(u)] = Absent
      PROVE  \E r : GoesOn(p, r) /\ Started(running[p], r)
  <2>1. C(op, ins, arg) \in Command
      BY DEF Command
  <2> QED
      BY <1>a, <2>1, StartSteps
<1>b. /\ \A e \in Epochs : <<Priv(u), WelcomeFile(e)>> \in Seq(Paths)
                              /\ <<State(u), CommitFile(e)>> \in Seq(Paths)
      /\ \A v \in Users : <<State(u), Pub(v)>> \in Seq(Paths)
      /\ <<>> \in Seq(Paths) /\ <<Priv(u)>> \in Seq(Paths) /\ <<State(u)>> \in Seq(Paths)
    BY PathTypes
<1>c. 0 \in 0 .. MaxKeygens /\ \A k \in Keys : k \in 0 .. MaxKeygens
    BY CommandLineAssumption DEF Keys
<1>1. CASE file[State(u)] = Absent /\ Start(p, "keygen", u, <<>>, 0)
  <2>1. Asks(C("keygen", <<>>, 0))
      BY DEF Asks
  <2> QED
      BY <1>1, <1>a, <1>b, <1>c, <2>1
<1>2. CASE file[State(u)] = Absent /\ Start(p, "create", u, <<Priv(u)>>, 0)
  <2>1. Asks(C("create", <<Priv(u)>>, 0))
      BY DEF Asks
  <2> QED
      BY <1>2, <1>a, <1>b, <1>c, <2>1
<1>3. ASSUME NEW e \in Epochs, file[State(u)] = Absent, Start(p, "join", u, <<Priv(u), WelcomeFile(e)>>, 0)
      PROVE  \E r : GoesOn(p, r) /\ Started(running[p], r)
  <2>1. Asks(C("join", <<Priv(u), WelcomeFile(e)>>, 0))
      BY DEF Asks
  <2> QED
      BY <1>3, <1>a, <1>b, <1>c, <2>1
<1>4. ASSUME NEW v \in Users, Start(p, "add", u, <<State(u), Pub(v)>>, 0)
      PROVE  \E r : GoesOn(p, r) /\ Started(running[p], r)
  <2>1. Asks(C("add", <<State(u), Pub(v)>>, 0))
      BY DEF Asks
  <2> QED
      BY <1>4, <1>a, <1>b, <1>c, <2>1
<1>5. ASSUME NEW k \in Keys, Start(p, "remove", u, <<State(u)>>, k)
      PROVE  \E r : GoesOn(p, r) /\ Started(running[p], r)
  <2>1. Asks(C("remove", <<State(u)>>, k))
      BY DEF Asks
  <2> QED
      BY <1>5, <1>a, <1>b, <1>c, <2>1
<1>6. CASE Start(p, "update", u, <<State(u)>>, 0)
  <2>1. Asks(C("update", <<State(u)>>, 0))
      BY DEF Asks
  <2> QED
      BY <1>6, <1>a, <1>b, <1>c, <2>1
<1>7. ASSUME NEW e \in Epochs, Start(p, "apply", u, <<State(u), CommitFile(e)>>, 0)
      PROVE  \E r : GoesOn(p, r) /\ Started(running[p], r)
  <2>1. Asks(C("apply", <<State(u), CommitFile(e)>>, 0))
      BY DEF Asks
  <2> QED
      BY <1>7, <1>a, <1>b, <1>c, <2>1
<1> QED
    BY <1>1, <1>2, <1>3, <1>4, <1>5, <1>6, <1>7 DEF give

LEMMA PerformsSteps ==
    ASSUME DataInv, NEW p \in Shells, NEW op, NEW outs, Performs(p, op, outs), hasty' = hasty
    PROVE  /\ running[p] # Idle /\ running[p].cmd.op = op
           /\ Len(running[p].got) = Len(running[p].cmd.ins)
           /\ \E r : GoesOn(p, r) /\ Performed(running[p], r, outs)
<1> DEFINE r == [running[p] EXCEPT !.step = "writes", !.outs = outs]
<1>1. running[p] # Idle /\ running[p].cmd.op = op /\ running[p].step = "reads"
        /\ Len(running[p].got) = Len(running[p].cmd.ins) /\ file' = file
    BY DEF Performs
<1>2. running \in [Shells -> {Idle} \cup Running]
    BY DEF DataInv
<1>3. running' = [running EXCEPT ![p] = r]
    BY <1>2 DEF Performs
<1>4. GoesOn(p, r)
    BY <1>3 DEF GoesOn
<1>5. Performed(running[p], r, outs)
    BY <1>1 DEF Performed
<1> QED
    BY <1>1, <1>4, <1>5

LEMMA AsksState ==
    ASSUME NEW cmd, Asks(cmd), cmd.op \in {"add", "remove", "update", "apply"}
    PROVE  Len(cmd.ins) >= 1 /\ cmd.ins[1] = State(cmd.user)
<1>1. CASE cmd.op = "add"
  <2>1. \E v \in Users : cmd.ins = <<State(cmd.user), Pub(v)>>
      BY <1>1 DEF Asks
  <2> QED
      BY <2>1
<1>2. CASE cmd.op \in {"remove", "update"}
  <2>1. cmd.ins = <<State(cmd.user)>>
      BY <1>2 DEF Asks
  <2> QED
      BY <2>1
<1>3. CASE cmd.op = "apply"
  <2>1. \E e \in Epochs : cmd.ins = <<State(cmd.user), CommitFile(e)>>
      BY <1>3 DEF Asks
  <2> QED
      BY <2>1
<1> QED
    BY <1>1, <1>2, <1>3

\* The state that a command of a member has read.
LEMMA StateRead ==
    ASSUME DataInv, NEW p \in Shells, running[p] # Idle,
           running[p].cmd.op \in {"add", "remove", "update", "apply"},
           Len(running[p].got) = Len(running[p].cmd.ins)
    PROVE  /\ 1 \in DOMAIN running[p].got /\ running[p].cmd.ins[1] = State(User(p))
           /\ \E g \in GroupState :
                 /\ running[p].got[1] = <<"group", g>> /\ Input(p, 1) = g
                 /\ g.epoch \in DOMAIN epochs /\ g.key \in DOMAIN owner /\ owner[g.key] = User(p)
<1> DEFINE s == running[p]
<1>1. Asks(s.cmd) /\ s.got \in Seq(Whole) /\ InOrder(owner, epochs, s)
    BY CommandAt
<1>2. Len(s.cmd.ins) >= 1 /\ s.cmd.ins[1] = State(User(p))
  <2>1. Len(s.cmd.ins) >= 1 /\ s.cmd.ins[1] = State(s.cmd.user)
      BY <1>1, AsksState
  <2> QED
      BY <2>1 DEF User
<1>3. 1 \in DOMAIN s.got
    BY <1>1, <1>2
<1>4. Fits(owner, epochs, State(User(p)), s.got[1])
    BY <1>1, <1>2, <1>3 DEF InOrder
<1>5. StateOf(owner, epochs, User(p), s.got[1])
    BY <1>4, FitsState
<1>6. PICK g \in GroupState :
         /\ s.got[1] = <<"group", g>>
         /\ g.epoch \in DOMAIN epochs /\ g.key \in DOMAIN owner /\ owner[g.key] = User(p)
    BY <1>5 DEF StateOf
<1>7. Input(p, 1) = g
    BY <1>6 DEF Input
<1> QED
    BY <1>2, <1>3, <1>6, <1>7

LEMMA CommitSteps ==
    ASSUME DataInv, NEW p \in Shells, hasty' = hasty, NEW op \in {"add", "remove", "update"},
           NEW x \in Epoch, NEW leaf \in BOOLEAN, NEW used \in SUBSET Keys,
           NEW g \in GroupState, g = Input(p, 1),
           NEW n, n = NewEpoch, n \in Epochs,
           NEW outs, Performs(p, op, outs),
           outs = IF x.added = 0
                  THEN <<<<State(User(p)), Group(n, g.key, leaf, used)>>,
                         <<CommitFile(n), <<"commit", n>>>>>>
                  ELSE <<<<State(User(p)), Group(n, g.key, leaf, used)>>,
                         <<WelcomeFile(n), <<"welcome", n, x.added>>>>,
                         <<CommitFile(n), <<"commit", n>>>>>>,
           x.from = g.epoch /\ x.by = g.key,
           x.added # 0 => x.added \notin epochs[g.epoch].roster,
           epochs' = Append(epochs, x) /\ owner' = owner
    PROVE  \E r : GoesOn(p, r) /\ Acted(running[p], r)
<1>1. /\ running[p] # Idle /\ running[p].cmd.op = op
      /\ Len(running[p].got) = Len(running[p].cmd.ins)
      /\ \E r : GoesOn(p, r) /\ Performed(running[p], r, outs)
    BY PerformsSteps
<1>2. /\ 1 \in DOMAIN running[p].got /\ running[p].cmd.ins[1] = State(User(p))
      /\ running[p].got[1] = <<"group", g>>
      /\ g.epoch \in DOMAIN epochs /\ g.key \in DOMAIN owner /\ owner[g.key] = User(p)
    BY <1>1, StateRead
<1>3. NewCommit(running[p], outs)
    BY <1>2 DEF NewCommit, Commits, User
<1> QED
    BY <1>1, <1>3 DEF Acted

LEMMA OperationSteps ==
    ASSUME DataInv, NEW p \in Shells, Operation(p), hasty' = hasty
    PROVE  \E r : GoesOn(p, r) /\ (Acted(running[p], r) \/ Stopped(running[p], r))
<1>0. /\ Recorded(owner, epochs) /\ running \in [Shells -> {Idle} \cup Running]
    BY DEF DataInv
<1>1. CASE keygen(p)
  <2> DEFINE k == Len(owner) + 1
             outs == <<<<Priv(User(p)), <<"key", k>>>>, <<Pub(User(p)), <<"key", k>>>>>>
  <2>1. k \in Keys /\ Performs(p, "keygen", outs) /\ owner' = Append(owner, User(p)) /\ epochs' = epochs
      BY <1>1 DEF keygen
  <2>2. \E r : GoesOn(p, r) /\ Performed(running[p], r, outs)
      BY <2>1, PerformsSteps
  <2>3. NewKey(running[p], outs)
      BY <2>1 DEF NewKey, User
  <2> QED
      BY <2>2, <2>3 DEF Acted
<1>2. CASE create_group(p)
  <2> DEFINE outs == <<<<State(User(p)), Group(NewEpoch, Input(p, 1), TRUE, {})>>>>
  <2>1. /\ Performs(p, "create", outs)
        /\ NewEpoch \in Epochs /\ owner' = owner
        /\ epochs' = Append(epochs, [from |-> 0, by |-> Input(p, 1), roster |-> {Input(p, 1)}, added |-> 0])
      BY <1>2 DEF create_group, MakesEpoch
  <2>2. /\ running[p] # Idle /\ running[p].cmd.op = "create"
        /\ Len(running[p].got) = Len(running[p].cmd.ins)
        /\ \E r : GoesOn(p, r) /\ Performed(running[p], r, outs)
      BY <2>1, PerformsSteps
  <2>3. /\ Asks(running[p].cmd) /\ running[p].got \in Seq(Whole)
        /\ InOrder(owner, epochs, running[p])
      BY <2>2, CommandAt
  <2>4. running[p].cmd.ins = <<Priv(User(p))>>
      BY <2>2, <2>3 DEF Asks, User
  <2>5. 1 \in DOMAIN running[p].got
      BY <2>2, <2>3, <2>4
  <2>6. Fits(owner, epochs, Priv(User(p)), running[p].got[1])
      BY <2>3, <2>4, <2>5 DEF InOrder
  <2>7. KeyOf(owner, User(p), running[p].got[1])
      BY <2>6, FitsKey
  <2>8. Input(p, 1) \in DOMAIN owner /\ owner[Input(p, 1)] = User(p)
      BY <2>7 DEF KeyOf, Input
  <2>9. NewGroup(running[p], outs)
      BY <2>1, <2>2, <2>8 DEF NewGroup, User
  <2> QED
      BY <2>2, <2>9 DEF Acted
<1>3. CASE add_member(p)
  <2> DEFINE s == Input(p, 1)
             k == Input(p, 2)
             n == NewEpoch
             outs == <<<<State(User(p)), Group(n, s.key, TRUE, s.used \cup {k})>>,
                       <<WelcomeFile(n), <<"welcome", n, k>>>>,
                       <<CommitFile(n), <<"commit", n>>>>>>
             x == [from |-> s.epoch, by |-> s.key, roster |-> epochs[s.epoch].roster \cup {k}, added |-> k]
  <2>1. /\ Performs(p, "add", outs)
        /\ k \notin epochs[s.epoch].roster
        /\ n \in Epochs /\ owner' = owner /\ epochs' = Append(epochs, x)
      BY <1>3 DEF add_member, MakesEpoch
  <2>2. /\ running[p] # Idle /\ running[p].cmd.op = "add"
        /\ Len(running[p].got) = Len(running[p].cmd.ins)
      BY <2>1, PerformsSteps
  <2>3. s \in GroupState /\ s.epoch \in DOMAIN epochs /\ s.key \in DOMAIN owner
      BY <2>2, StateRead
  <2>4. /\ Asks(running[p].cmd) /\ running[p].got \in Seq(Whole)
        /\ InOrder(owner, epochs, running[p])
      BY <2>2, CommandAt
  <2>5. PICK v \in Users : running[p].cmd.ins = <<State(User(p)), Pub(v)>>
      BY <2>2, <2>4 DEF Asks, User
  <2>6. 2 \in DOMAIN running[p].got
      BY <2>2, <2>4, <2>5
  <2>7. Fits(owner, epochs, Pub(v), running[p].got[2])
      BY <2>4, <2>5, <2>6 DEF InOrder
  <2>8. KeyOf(owner, v, running[p].got[2])
      BY <2>7, FitsKey
  <2>9. k \in DOMAIN owner
      BY <2>8 DEF KeyOf, Input
  <2>10. k \in Keys /\ k # 0 /\ s.key \in Keys
      BY <2>3, <2>9, KeysOwned DEF Keys
  <2>11. epochs[s.epoch].roster \subseteq Keys /\ s.epoch \in Epochs
      BY <1>0, <2>3, EpochFields
  <2>12. s.used \cup {k} \in SUBSET Keys
      BY <2>3, <2>10 DEF GroupState
  <2>13. x \in Epoch
      BY <2>10, <2>11, CommandLineAssumption DEF Epoch, Epochs, Keys
  <2>14. x.added = k /\ x.from = s.epoch /\ x.by = s.key
      OBVIOUS
  <2> HIDE DEF x, k, s, n
  <2>15. n = NewEpoch /\ s = Input(p, 1)
      BY DEF n, s
  <2> QED
      BY <2>1, <2>3, <2>10, <2>12, <2>13, <2>14, <2>15, CommitSteps
<1>4. CASE remove_member(p)
  <2> DEFINE s == Input(p, 1)
             k == running[p].cmd.arg
             n == NewEpoch
             outs == <<<<State(User(p)), Group(n, s.key, FALSE, s.used)>>,
                       <<CommitFile(n), <<"commit", n>>>>>>
             x == [from |-> s.epoch, by |-> s.key, roster |-> epochs[s.epoch].roster \ {k}, added |-> 0]
  <2>1. /\ Performs(p, "remove", outs)
        /\ n \in Epochs /\ owner' = owner /\ epochs' = Append(epochs, x)
      BY <1>4 DEF remove_member, MakesEpoch
  <2>2. /\ running[p] # Idle /\ running[p].cmd.op = "remove"
        /\ Len(running[p].got) = Len(running[p].cmd.ins)
      BY <2>1, PerformsSteps
  <2>3. s \in GroupState /\ s.epoch \in DOMAIN epochs /\ s.key \in DOMAIN owner
      BY <2>2, StateRead
  <2>4. epochs[s.epoch].roster \subseteq Keys /\ s.epoch \in Epochs /\ s.key \in Keys
      BY <1>0, <2>3, EpochFields, KeysOwned
  <2>5. s.used \in SUBSET Keys
      BY <2>3 DEF GroupState
  <2>6. x \in Epoch
      BY <2>4, CommandLineAssumption DEF Epoch, Epochs, Keys
  <2>7. x.added = 0 /\ x.from = s.epoch /\ x.by = s.key
      OBVIOUS
  <2> HIDE DEF x, k, s, n
  <2>8. n = NewEpoch /\ s = Input(p, 1)
      BY DEF n, s
  <2> QED
      BY <2>1, <2>3, <2>5, <2>6, <2>7, <2>8, CommitSteps
<1>5. CASE update_key(p)
  <2> DEFINE s == Input(p, 1)
             n == NewEpoch
             outs == <<<<State(User(p)), Group(n, s.key, TRUE, s.used)>>,
                       <<CommitFile(n), <<"commit", n>>>>>>
             x == [from |-> s.epoch, by |-> s.key, roster |-> epochs[s.epoch].roster, added |-> 0]
  <2>1. /\ Performs(p, "update", outs)
        /\ n \in Epochs /\ owner' = owner /\ epochs' = Append(epochs, x)
      BY <1>5 DEF update_key, MakesEpoch
  <2>2. /\ running[p] # Idle /\ running[p].cmd.op = "update"
        /\ Len(running[p].got) = Len(running[p].cmd.ins)
      BY <2>1, PerformsSteps
  <2>3. s \in GroupState /\ s.epoch \in DOMAIN epochs /\ s.key \in DOMAIN owner
      BY <2>2, StateRead
  <2>4. epochs[s.epoch].roster \subseteq Keys /\ s.epoch \in Epochs /\ s.key \in Keys
      BY <1>0, <2>3, EpochFields, KeysOwned
  <2>5. s.used \in SUBSET Keys
      BY <2>3 DEF GroupState
  <2>6. x \in Epoch
      BY <2>4, CommandLineAssumption DEF Epoch, Epochs, Keys
  <2>7. x.added = 0 /\ x.from = s.epoch /\ x.by = s.key
      OBVIOUS
  <2> HIDE DEF x, s, n
  <2>8. n = NewEpoch /\ s = Input(p, 1)
      BY DEF n, s
  <2> QED
      BY <2>1, <2>3, <2>5, <2>6, <2>7, <2>8, CommitSteps
<1>6. CASE join_group(p)
  <2> DEFINE outs == <<<<State(User(p)), Group(Input(p, 2), Input(p, 1), TRUE, {})>>>>
  <2>1. /\ Performs(p, "join", outs) /\ Opens(Input(p, 1), running[p].got[2])
        /\ UNCHANGED <<owner, epochs>>
      BY <1>6 DEF join_group
  <2>2. /\ running[p] # Idle /\ running[p].cmd.op = "join"
        /\ Len(running[p].got) = Len(running[p].cmd.ins)
        /\ \E r : GoesOn(p, r) /\ Performed(running[p], r, outs)
      BY <2>1, PerformsSteps
  <2>3. /\ Asks(running[p].cmd) /\ running[p].got \in Seq(Whole)
        /\ InOrder(owner, epochs, running[p])
      BY <2>2, CommandAt
  <2>4. PICK e \in Epochs : running[p].cmd.ins = <<Priv(User(p)), WelcomeFile(e)>>
      BY <2>2, <2>3 DEF Asks, User
  <2>5. 1 \in DOMAIN running[p].got /\ 2 \in DOMAIN running[p].got
      BY <2>2, <2>3, <2>4
  <2>6. /\ Fits(owner, epochs, Priv(User(p)), running[p].got[1])
        /\ Fits(owner, epochs, WelcomeFile(e), running[p].got[2])
      BY <2>3, <2>4, <2>5 DEF InOrder
  <2>7. KeyOf(owner, User(p), running[p].got[1]) /\ WelcomeOf(epochs, e, running[p].got[2])
      BY <2>6, FitsKey, FitsWelcome
  <2>8. Input(p, 1) \in DOMAIN owner /\ owner[Input(p, 1)] = User(p)
      BY <2>7 DEF KeyOf, Input
  <2>9. Input(p, 2) = e /\ e \in DOMAIN epochs /\ Input(p, 1) = epochs[e].added
      BY <2>1, <2>7 DEF WelcomeOf, Input, Opens
  <2>10. Joined(running[p], outs)
      BY <2>1, <2>2, <2>8, <2>9 DEF Joined, User
  <2> QED
      BY <2>2, <2>10 DEF Acted
<1>7. CASE apply_commit(p)
  <2> DEFINE outs == <<<<State(User(p)), Group(Input(p, 2), Input(p, 1).key, TRUE, {})>>>>
  <2>1. /\ Performs(p, "apply", outs) /\ epochs[Input(p, 2)].from = Input(p, 1).epoch
        /\ UNCHANGED <<owner, epochs>>
      BY <1>7 DEF apply_commit, Follows
  <2>2. /\ running[p] # Idle /\ running[p].cmd.op = "apply"
        /\ Len(running[p].got) = Len(running[p].cmd.ins)
        /\ \E r : GoesOn(p, r) /\ Performed(running[p], r, outs)
      BY <2>1, PerformsSteps
  <2>3. /\ Asks(running[p].cmd) /\ running[p].got \in Seq(Whole)
        /\ InOrder(owner, epochs, running[p])
      BY <2>2, CommandAt
  <2>4. PICK e \in Epochs : running[p].cmd.ins = <<State(User(p)), CommitFile(e)>>
      BY <2>2, <2>3 DEF Asks, User
  <2>5. 1 \in DOMAIN running[p].got /\ 2 \in DOMAIN running[p].got
      BY <2>2, <2>3, <2>4
  <2>6. Fits(owner, epochs, CommitFile(e), running[p].got[2])
      BY <2>3, <2>4, <2>5 DEF InOrder
  <2>7. CommitOf(epochs, e, running[p].got[2])
      BY <2>6, FitsCommit
  <2>8. Input(p, 2) = e /\ e \in DOMAIN epochs /\ running[p].got[2] = <<"commit", e>>
      BY <2>7 DEF CommitOf, Input
  <2>9. PICK g \in GroupState :
           /\ running[p].got[1] = <<"group", g>> /\ Input(p, 1) = g
           /\ g.epoch \in DOMAIN epochs /\ g.key \in DOMAIN owner /\ owner[g.key] = User(p)
      BY <2>2, StateRead
  <2>10. outs = <<<<State(User(p)), Group(e, g.key, TRUE, {})>>>> /\ epochs[e].from = g.epoch
      BY <2>1, <2>8, <2>9
  <2>11. running[p].cmd.ins[1] = State(User(p)) /\ {1, 2} \subseteq DOMAIN running[p].got
      BY <2>4, <2>5
  <2> HIDE DEF outs
  <2>12. Applied(running[p], outs)
      BY <2>1, <2>8, <2>9, <2>10, <2>11 DEF Applied, User
  <2> QED
      BY <2>2, <2>12 DEF Acted
<1>8. CASE refuse(p)
  <2>1. GoesOn(p, Idle) /\ Stopped(running[p], Idle)
      BY <1>0, <1>8 DEF refuse, Ended, GoesOn, Stopped
  <2> QED
      BY <2>1
<1> QED
    BY <1>1, <1>2, <1>3, <1>4, <1>5, <1>6, <1>7, <1>8 DEF Operation

\* Every step of the system is one of these.
LEMMA StepKinds ==
    ASSUME DataInv, [Next]_vars
    PROVE  UNCHANGED vars \/ \E p \in Shells : \E r : GoesOn(p, r) /\ Steps(running[p], r)
<1>1. running \in [Shells -> {Idle} \cup Running]
    BY DEF DataInv
<1>2. SUFFICES ASSUME Next PROVE \E p \in Shells : \E r : GoesOn(p, r) /\ Steps(running[p], r)
    OBVIOUS
<1>3. hasty' = hasty
    BY <1>2 DEF Next
<1>4. ASSUME NEW p \in Shells, NEW u \in Users, give(p, u)
      PROVE  \E r : GoesOn(p, r) /\ Steps(running[p], r)
    BY <1>3, <1>4, GiveSteps DEF Steps
<1>5. ASSUME NEW p \in Shells, read(p)
      PROVE  \E r : GoesOn(p, r) /\ Steps(running[p], r)
  <2>1. CASE IsWhole(NextInput(p))
    <3> DEFINE r == [running[p] EXCEPT !.got = Append(@, file[NextInput(p)])]
    <3>1. GoesOn(p, r)
        BY <1>1, <1>3, <1>5, <2>1 DEF read, GoesOn
    <3>2. HasRead(running[p], r)
        BY <1>5, <2>1 DEF read, HasRead, NextInput
    <3> QED
        BY <3>1, <3>2 DEF Steps
  <2>2. CASE ~ IsWhole(NextInput(p))
    <3>1. GoesOn(p, Idle) /\ Stopped(running[p], Idle)
        BY <1>1, <1>3, <1>5, <2>2 DEF read, Ended, GoesOn, Stopped
    <3> QED
        BY <3>1 DEF Steps
  <2> QED
      BY <2>1, <2>2
<1>6. ASSUME NEW p \in Shells, Operation(p)
      PROVE  \E r : GoesOn(p, r) /\ Steps(running[p], r)
    BY <1>3, <1>6, OperationSteps DEF Steps
<1>7. ASSUME NEW p \in Shells, truncate(p)
      PROVE  \E r : GoesOn(p, r) /\ Steps(running[p], r)
  <2> DEFINE r == [running[p] EXCEPT !.cut = TRUE]
  <2>1. running[p] # Idle /\ running[p].step = "writes"
      BY <1>7 DEF truncate
  <2>2. running[p].outs \in Seq(Paths \X Whole)
      BY <2>1, CommandAt
  <2>3. Head(running[p].outs) = running[p].outs[1]
      BY <2>2
  <2>4. GoesOn(p, r)
      BY <1>1, <1>3, <1>7 DEF truncate, GoesOn
  <2>5. Truncated(running[p], r)
      BY <1>7, <2>3 DEF truncate, Truncated
  <2> QED
      BY <2>4, <2>5 DEF Steps
<1>8. ASSUME NEW p \in Shells, write(p)
      PROVE  \E r : GoesOn(p, r) /\ Steps(running[p], r)
  <2> DEFINE s == running[p]
             r == IF Len(s.outs) = 1 THEN Idle ELSE [s EXCEPT !.outs = Tail(@), !.cut = FALSE]
  <2>1. s # Idle /\ s.cut
      BY <1>8 DEF write
  <2>2. s.outs \in Seq(Paths \X Whole) /\ s.step = "writes"
      BY <2>1, CommandAt
  <2>3. Head(s.outs) = s.outs[1]
      BY <2>2
  <2>4. running' = [running EXCEPT ![p] = r]
      BY <1>1, <1>8 DEF write, Ended
  <2>5. GoesOn(p, r)
      BY <1>3, <2>4 DEF GoesOn
  <2>6. Written(s, r)
      BY <1>8, <2>1, <2>2, <2>3 DEF write, Written
  <2> QED
      BY <2>5, <2>6 DEF Steps
<1>9. ASSUME NEW p \in Shells, crash(p)
      PROVE  \E r : GoesOn(p, r) /\ Steps(running[p], r)
  <2>1. GoesOn(p, Idle) /\ Stopped(running[p], Idle)
      BY <1>1, <1>3, <1>9 DEF crash, Ended, GoesOn, Stopped
  <2> QED
      BY <2>1 DEF Steps
<1> QED
    BY <1>2, <1>4, <1>5, <1>6, <1>7, <1>8, <1>9 DEF Next

-----------------------------------------------------------------------------
(* Files and commands hold what belongs in them *)

LEMMA GoesOnFrame ==
    ASSUME DataInv, NEW p, NEW r, GoesOn(p, r)
    PROVE  p \in Shells /\ running'[p] = r /\ \A q \in Shells \ {p} : running'[q] = running[q]
BY DEF DataInv, GoesOn

LEMMA SameLonger ==
    \A old : Longer(old, old)
BY DEF Longer

LEMMA AppendLonger ==
    ASSUME NEW S, NEW old \in Seq(S), NEW x PROVE Longer(old, Append(old, x))
BY DEF Longer

\* The files that a command of user u has to write.
Outputs(os, es, u, outs) ==
    /\ outs \in Seq(Paths \X Whole) /\ outs # <<>>
    /\ \A i \in DOMAIN outs : Fits(os, es, outs[i][1], outs[i][2])
    /\ \A i, j \in DOMAIN outs : outs[i][1] = outs[j][1] => i = j
    /\ \A v \in Users, i \in DOMAIN outs : outs[i][1] = State(v) => i = 1 /\ v = u

LEMMA PerformedInOrder ==
    ASSUME NEW os, NEW es, NEW s, NEW r, NEW outs, InOrder(os, es, s), Performed(s, r, outs),
           Outputs(os, es, s.cmd.user, outs)
    PROVE  InOrder(os, es, r)
<1>1. s \in Running
    BY DEF InOrder
<1>2. r = [s EXCEPT !.step = "writes", !.outs = outs] /\ outs \in Seq(Paths \X Whole)
    BY DEF Performed, Outputs
<1>3. r \in Running /\ r.cmd = s.cmd /\ r.got = s.got /\ r.outs = outs /\ r.step = "writes"
    BY <1>1, <1>2 DEF Running
<1> QED
    BY <1>3 DEF InOrder, Outputs

LEMMA OneOutput ==
    ASSUME NEW os, NEW es, Recorded(os, es), NEW u, NEW path, NEW c, Fits(os, es, path, c),
           path = State(u)
    PROVE  Outputs(os, es, u, <<<<path, c>>>>)
<1>1. path \in Paths /\ c \in Whole
    BY FitsWhole
<1>2. <<<<path, c>>>> \in Seq(Paths \X Whole)
    BY <1>1
<1> QED
    BY <1>2, PathsApart DEF Outputs

LEMMA TwoOutputs ==
    ASSUME NEW os, NEW es, Recorded(os, es), NEW u,
           NEW path, NEW c, Fits(os, es, path, c), NEW path2, NEW c2, Fits(os, es, path2, c2),
           path # path2, \A v : path = State(v) => v = u, \A v : path2 # State(v)
    PROVE  Outputs(os, es, u, <<<<path, c>>, <<path2, c2>>>>)
<1>1. path \in Paths /\ c \in Whole /\ path2 \in Paths /\ c2 \in Whole
    BY FitsWhole
<1>2. <<<<path, c>>, <<path2, c2>>>> \in Seq(Paths \X Whole)
    BY <1>1
<1> QED
    BY <1>2 DEF Outputs

LEMMA ThreeOutputs ==
    ASSUME NEW os, NEW es, Recorded(os, es), NEW u,
           NEW path, NEW c, Fits(os, es, path, c), NEW path2, NEW c2, Fits(os, es, path2, c2),
           NEW path3, NEW c3, Fits(os, es, path3, c3),
           path # path2, path # path3, path2 # path3,
           \A v : path = State(v) => v = u, \A v : path2 # State(v) /\ path3 # State(v)
    PROVE  Outputs(os, es, u, <<<<path, c>>, <<path2, c2>>, <<path3, c3>>>>)
<1>1. path \in Paths /\ c \in Whole /\ path2 \in Paths /\ c2 \in Whole /\ path3 \in Paths /\ c3 \in Whole
    BY FitsWhole
<1>2. <<<<path, c>>, <<path2, c2>>, <<path3, c3>>>> \in Seq(Paths \X Whole)
    BY <1>1
<1> QED
    BY <1>2 DEF Outputs

LEMMA GroupFits ==
    ASSUME NEW os, NEW es, Recorded(os, es), NEW u \in Users, NEW e \in DOMAIN es, NEW k \in DOMAIN os,
           os[k] = u, NEW leaf \in BOOLEAN, NEW used \in SUBSET Keys
    PROVE  Fits(os, es, State(u), Group(e, k, leaf, used))
<1>1. e \in Epochs /\ k \in Keys
    BY EpochFields, CommandLineAssumption DEF Recorded, Keys
<1> DEFINE s == [epoch |-> e, key |-> k, leaf |-> leaf, used |-> used]
<1>2. s \in GroupState /\ s.epoch = e /\ s.key = k
    BY <1>1 DEF GroupState
<1>3. Group(e, k, leaf, used) = <<"group", s>>
    BY DEF Group
<1> HIDE DEF s
<1>4. StateOf(os, es, u, Group(e, k, leaf, used))
    BY <1>2, <1>3 DEF StateOf
<1> QED
    BY <1>4 DEF Fits

LEMMA RecordedAppend ==
    ASSUME NEW os, NEW es, Recorded(os, es), NEW x \in Epoch, Len(es) + 1 \in Epochs,
           x.from = 0 \/ x.from \in DOMAIN es,
           x.by \in DOMAIN os,
           x.added # 0 => x.from # 0 /\ x.added \notin es[x.from].roster
    PROVE  /\ Recorded(os, Append(es, x))
           /\ Len(es) + 1 \in DOMAIN Append(es, x) /\ Append(es, x)[Len(es) + 1] = x
           /\ Longer(es, Append(es, x))
           /\ Len(es) \in Nat /\ Len(es) + 1 \notin DOMAIN es
           /\ DOMAIN Append(es, x) = DOMAIN es \cup {Len(es) + 1}
<1> DEFINE fs == Append(es, x)
           n == Len(es) + 1
<1>1. os \in Seq(Users) /\ Len(os) <= MaxKeygens /\ es \in Seq(Epoch) /\ n \in 1 .. MaxEpochs
    BY DEF Recorded, Epochs
<1>2. fs \in Seq(Epoch) /\ Len(fs) <= MaxEpochs /\ n \in DOMAIN fs /\ fs[n] = x
    BY <1>1, CommandLineAssumption
<1>3. \A e \in DOMAIN fs : e = n \/ (e \in DOMAIN es /\ fs[e] = es[e])
    BY <1>1
<1>4. \A e \in DOMAIN es : fs[e] = es[e] /\ e \in DOMAIN fs
    BY <1>1
<1>5. Len(es) \in Nat /\ DOMAIN es = 1 .. Len(es)
    BY <1>1
<1>5a. n \notin DOMAIN es
    BY <1>5
<1>5b. DOMAIN fs = DOMAIN es \cup {n}
    BY <1>2, <1>3, <1>4
<1> HIDE DEF fs
<1>6. ASSUME NEW e \in DOMAIN fs
      PROVE  /\ fs[e].from < e
             /\ fs[e].by \in DOMAIN os
             /\ fs[e].added # 0 => fs[e].from # 0 /\ fs[e].added \notin fs[fs[e].from].roster
  <2>1. CASE e = n
      BY <1>2, <1>4, <1>5, <2>1
  <2>2. CASE e \in DOMAIN es
    <3>1. /\ es[e].from < e
          /\ es[e].by \in DOMAIN os
          /\ es[e].added # 0 => es[e].from # 0 /\ es[e].added \notin es[es[e].from].roster
        BY <2>2 DEF Recorded
    <3>2. es[e].from # 0 => es[e].from \in DOMAIN es
        BY <2>2, EpochFields
    <3> QED
        BY <1>4, <2>2, <3>1, <3>2
  <2> QED
      BY <1>3, <2>1, <2>2
<1>7. Recorded(os, fs)
    BY <1>1, <1>2, <1>6 DEF Recorded
<1> QED
    BY <1>2, <1>4, <1>5, <1>5a, <1>5b, <1>7 DEF Longer, fs

\* What an operation leaves to be written belongs there, and what was there
\* before stays.
LEMMA ActedData ==
    ASSUME DataInv, NEW p \in Shells, NEW r, Acted(running[p], r)
    PROVE  /\ Recorded(owner', epochs')
           /\ Longer(owner, owner') /\ Longer(epochs, epochs')
           /\ InOrder(owner', epochs', r)
           /\ file' = file
<1> DEFINE s == running[p]
           u == s.cmd.user
<1>1. PICK outs :
         /\ Performed(s, r, outs)
         /\ \/ NewKey(s, outs) \/ NewGroup(s, outs) \/ NewCommit(s, outs)
            \/ Joined(s, outs) \/ Applied(s, outs)
    BY DEF Acted
<1>2. s # Idle /\ file' = file
    BY <1>1 DEF Performed
<1>3. Recorded(owner, epochs) /\ InOrder(owner, epochs, s) /\ u \in Users
    BY <1>2, CommandAt DEF DataInv
<1>4. owner \in Seq(Users) /\ epochs \in Seq(Epoch)
    BY <1>3 DEF Recorded
<1>5. SUFFICES /\ Recorded(owner', epochs')
               /\ Longer(owner, owner') /\ Longer(epochs, epochs')
               /\ Outputs(owner', epochs', u, outs)
  <2>1. InOrder(owner', epochs', s)
      BY <1>3, <1>5, InOrderStill
  <2>2. InOrder(owner', epochs', r)
      BY <1>1, <1>5, <2>1, PerformedInOrder
  <2> QED
      BY <1>2, <1>5, <2>2
<1>6. CASE NewKey(s, outs)
  <2> DEFINE k == Len(owner) + 1
  <2>1. /\ k \in Keys /\ owner' = Append(owner, u) /\ epochs' = epochs
        /\ outs = <<<<Priv(u), <<"key", k>>>>, <<Pub(u), <<"key", k>>>>>>
      BY <1>6 DEF NewKey
  <2>2. Longer(owner, owner') /\ Longer(epochs, epochs')
      BY <1>4, <2>1, AppendLonger, SameLonger
  <2>3. owner' \in Seq(Users) /\ Len(owner') <= MaxKeygens /\ k \in DOMAIN owner' /\ owner'[k] = u
      BY <1>3, <1>4, <2>1, CommandLineAssumption DEF Keys
  <2>4. Recorded(owner', epochs')
      BY <1>3, <2>1, <2>2, <2>3 DEF Recorded, Longer
  <2>5. KeyOf(owner', u, <<"key", k>>)
      BY <2>3 DEF KeyOf
  <2>6. Fits(owner', epochs', Priv(u), <<"key", k>>) /\ Fits(owner', epochs', Pub(u), <<"key", k>>)
      BY <1>3, <2>5 DEF Fits
  <2>7. Outputs(owner', epochs', u, outs)
    <3> DEFINE P1 == Priv(u)
               P2 == Pub(u)
               C1 == <<"key", k>>
    <3>1. P1 # P2 /\ \A v : P1 # State(v) /\ P2 # State(v)
        BY PathsApart
    <3>2. outs = <<<<P1, C1>>, <<P2, C1>>>>
        BY <2>1
    <3>3. Fits(owner', epochs', P1, C1) /\ Fits(owner', epochs', P2, C1)
        BY <2>6
    <3> HIDE DEF P1, P2, C1
    <3> QED
        BY <2>4, <3>1, <3>2, <3>3, TwoOutputs
  <2> QED
      BY <2>2, <2>4, <2>7
<1>7. CASE NewGroup(s, outs)
  <2> DEFINE n == Len(epochs) + 1
  <2>1. PICK k \in DOMAIN owner :
           /\ owner[k] = u /\ n \in Epochs
           /\ outs = <<<<State(u), Group(n, k, TRUE, {})>>>>
           /\ epochs' = Append(epochs, [from |-> 0, by |-> k, roster |-> {k}, added |-> 0])
           /\ owner' = owner
      BY <1>7 DEF NewGroup, NewEpoch
  <2> DEFINE x == [from |-> 0, by |-> k, roster |-> {k}, added |-> 0]
  <2>2. x \in Epoch /\ x.from = 0 /\ x.by = k /\ x.added = 0
      BY KeysOwned, CommandLineAssumption DEF Epoch
  <2>2a. epochs' = Append(epochs, x)
      BY <2>1
  <2> HIDE DEF x
  <2>3. Recorded(owner, epochs') /\ n \in DOMAIN epochs' /\ Longer(epochs, epochs')
      BY <1>3, <2>1, <2>2, <2>2a, RecordedAppend
  <2>4. Fits(owner, epochs', State(u), Group(n, k, TRUE, {}))
      BY <1>3, <2>1, <2>3, GroupFits
  <2>5. Outputs(owner, epochs', u, outs)
      BY <2>1, <2>3, <2>4, OneOutput
  <2> QED
      BY <2>1, <2>3, <2>5, SameLonger
<1>8. CASE NewCommit(s, outs)
  <2> DEFINE n == Len(epochs) + 1
  <2>0. PICK g \in GroupState, x \in Epoch, leaf \in BOOLEAN, used \in SUBSET Keys :
           Commits(s, outs, g, x, leaf, used)
      BY <1>8 DEF NewCommit
  <2>1.    /\ g.epoch \in DOMAIN epochs
           /\ g.key \in DOMAIN owner /\ owner[g.key] = u
           /\ n \in Epochs
           /\ x.from = g.epoch /\ x.by = g.key
           /\ x.added # 0 => x.added \notin epochs[g.epoch].roster
           /\ outs = IF x.added = 0
                     THEN <<<<State(u), Group(n, g.key, leaf, used)>>,
                            <<CommitFile(n), <<"commit", n>>>>>>
                     ELSE <<<<State(u), Group(n, g.key, leaf, used)>>,
                            <<WelcomeFile(n), <<"welcome", n, x.added>>>>,
                            <<CommitFile(n), <<"commit", n>>>>>>
           /\ epochs' = Append(epochs, x)
           /\ owner' = owner
      BY <2>0 DEF Commits, NewEpoch
  <2>2. g.epoch # 0
      BY <1>3, <2>1, EpochFields
  <2>3. /\ Recorded(owner, epochs') /\ n \in DOMAIN epochs' /\ epochs'[n] = x
        /\ Longer(epochs, epochs')
      BY <1>3, <2>1, <2>2, RecordedAppend
  <2>4. Fits(owner, epochs', State(u), Group(n, g.key, leaf, used))
      BY <1>3, <2>1, <2>3, GroupFits
  <2>5. Fits(owner, epochs', CommitFile(n), <<"commit", n>>)
    <3>1. CommitOf(epochs', n, <<"commit", n>>)
        BY <2>1, <2>2, <2>3 DEF CommitOf
    <3> QED
        BY <2>1, <3>1 DEF Fits
  <2>6. x.added # 0 => Fits(owner, epochs', WelcomeFile(n), <<"welcome", n, x.added>>)
    <3>1. x.added # 0 => WelcomeOf(epochs', n, <<"welcome", n, x.added>>)
        BY <2>1, <2>3 DEF WelcomeOf
    <3> QED
        BY <2>1, <3>1 DEF Fits
  <2>7. Outputs(owner, epochs', u, outs)
    <3> DEFINE P1 == State(u)
               P2 == WelcomeFile(n)
               P3 == CommitFile(n)
               C1 == Group(n, g.key, leaf, used)
               C2 == <<"welcome", n, x.added>>
               C3 == <<"commit", n>>
    <3>1. /\ P1 # P2 /\ P1 # P3 /\ P2 # P3
          /\ \A v : (P1 = State(v) => v = u) /\ P2 # State(v) /\ P3 # State(v)
        BY PathsApart
    <3>2. outs = IF x.added = 0 THEN <<<<P1, C1>>, <<P3, C3>>>>
                                ELSE <<<<P1, C1>>, <<P2, C2>>, <<P3, C3>>>>
        BY <2>1
    <3>3. /\ Fits(owner, epochs', P1, C1) /\ Fits(owner, epochs', P3, C3)
          /\ x.added # 0 => Fits(owner, epochs', P2, C2)
        BY <2>4, <2>5, <2>6
    <3> HIDE DEF P1, P2, P3, C1, C2, C3
    <3>4. CASE x.added = 0
        BY <2>3, <3>1, <3>2, <3>3, <3>4, TwoOutputs
    <3>5. CASE x.added # 0
        BY <2>3, <3>1, <3>2, <3>3, <3>5, ThreeOutputs
    <3> QED
        BY <3>4, <3>5
  <2> QED
      BY <2>1, <2>3, <2>7, SameLonger
<1>9. CASE Joined(s, outs)
  <2>1. PICK e \in DOMAIN epochs, k \in DOMAIN owner :
           /\ owner[k] = u /\ owner' = owner /\ epochs' = epochs
           /\ outs = <<<<State(u), Group(e, k, TRUE, {})>>>>
      BY <1>9 DEF Joined
  <2>2. Outputs(owner, epochs, u, outs)
      BY <1>3, <2>1, GroupFits, OneOutput
  <2> QED
      BY <1>3, <2>1, <2>2, SameLonger
<1>10. CASE Applied(s, outs)
  <2>1. PICK e \in DOMAIN epochs, g \in GroupState :
           /\ g.key \in DOMAIN owner /\ owner[g.key] = u /\ owner' = owner /\ epochs' = epochs
           /\ outs = <<<<State(u), Group(e, g.key, TRUE, {})>>>>
      BY <1>10 DEF Applied
  <2>2. Outputs(owner, epochs, u, outs)
      BY <1>3, <2>1, GroupFits, OneOutput
  <2> QED
      BY <1>3, <2>1, <2>2, SameLonger
<1> QED
    BY <1>1, <1>6, <1>7, <1>8, <1>9, <1>10

\* The next output of a command that writes.
LEMMA NextOutput ==
    ASSUME DataInv, NEW p \in Shells, running[p] # Idle, running[p].step = "writes"
    PROVE  /\ 1 \in DOMAIN running[p].outs
           /\ running[p].outs[1][1] \in Paths /\ running[p].outs[1][2] \in Whole
           /\ running[p].outs[1][2] \notin {Absent, Empty}
           /\ Fits(owner, epochs, running[p].outs[1][1], running[p].outs[1][2])
<1>1. running[p].outs \in Seq(Paths \X Whole) /\ InOrder(owner, epochs, running[p])
    BY CommandAt
<1>2. 1 \in DOMAIN running[p].outs
    BY <1>1 DEF InOrder
<1>3. Fits(owner, epochs, running[p].outs[1][1], running[p].outs[1][2])
    BY <1>1, <1>2 DEF InOrder
<1>4. Recorded(owner, epochs)
    BY DEF DataInv
<1> QED
    BY <1>2, <1>3, <1>4, FitsWhole

LEMMA TailFacts ==
    ASSUME NEW S, NEW q \in Seq(S), 1 \in DOMAIN q, Len(q) # 1
    PROVE  /\ Len(q) > 1 /\ Tail(q) \in Seq(S) /\ Len(Tail(q)) = Len(q) - 1
           /\ \A i \in 1 .. Len(q) - 1 : Tail(q)[i] = q[i + 1]
<1>0. Len(q) \in Nat /\ DOMAIN q = 1 .. Len(q)
    BY LenProperties
<1>0a. Len(q) >= 1
    BY <1>0
<1>0b. Len(q) > 1
    BY <1>0, <1>0a
<1>1. q # <<>> /\ Len(q) \in Nat /\ Len(q) > 1
    BY <1>0, <1>0b
<1>2. /\ Tail(q) \in Seq(S) /\ Len(Tail(q)) = Len(q) - 1
      /\ \A i \in 1 .. Len(Tail(q)) : Tail(q)[i] = q[i + 1]
    BY <1>1, HeadTailProperties
<1> QED
    BY <1>1, <1>2

\* What is left when the first output is written.
LEMMA WrittenRest ==
    ASSUME DataInv, NEW p \in Shells, NEW r, Written(running[p], r), r # Idle
    PROVE  /\ r \in Running /\ r.cmd = running[p].cmd /\ r.got = running[p].got
           /\ r.step = "writes" /\ ~ r.cut
           /\ r.outs = Tail(running[p].outs) /\ r.outs # <<>>
           /\ \A i \in DOMAIN r.outs :
                i + 1 \in DOMAIN running[p].outs /\ r.outs[i] = running[p].outs[i + 1]
<1> DEFINE s == running[p]
<1>1. s # Idle /\ s.step = "writes" /\ Len(s.outs) # 1 /\ r = [s EXCEPT !.outs = Tail(@), !.cut = FALSE]
    BY DEF Written
<1>2. s \in Running /\ s.outs \in Seq(Paths \X Whole)
    BY <1>1, CommandAt
<1>3. 1 \in DOMAIN s.outs
    BY <1>1, NextOutput
<1>4. Len(s.outs) > 1 /\ Tail(s.outs) \in Seq(Paths \X Whole) /\ Len(Tail(s.outs)) = Len(s.outs) - 1
        /\ \A i \in 1 .. Len(s.outs) - 1 : Tail(s.outs)[i] = s.outs[i + 1]
    BY <1>1, <1>2, <1>3, TailFacts
<1>5. r \in Running /\ r.cmd = s.cmd /\ r.got = s.got /\ r.step = "writes" /\ ~ r.cut
        /\ r.outs = Tail(s.outs)
  <2>1. PICK rest \in Seq(Paths \X Whole) : rest = Tail(s.outs)
      BY <1>4
  <2>2. r = [s EXCEPT !.outs = rest, !.cut = FALSE]
      BY <1>1, <2>1
  <2>3. r \in Running /\ r.cmd = s.cmd /\ r.got = s.got /\ r.step = s.step /\ r.cut = FALSE
          /\ r.outs = rest
      BY <1>2, <2>2 DEF Running
  <2> QED
      BY <1>1, <2>1, <2>3
<1>6. r.outs # <<>>
  <2>1. Len(r.outs) > 0
      BY <1>4, <1>5
  <2> QED
      BY <2>1
<1>7. \A i \in DOMAIN r.outs : i + 1 \in DOMAIN s.outs /\ r.outs[i] = s.outs[i + 1]
    BY <1>2, <1>4, <1>5
<1> QED
    BY <1>5, <1>6, <1>7

LEMMA StepsData ==
    ASSUME DataInv, NEW p \in Shells, NEW r, Steps(running[p], r)
    PROVE  /\ Recorded(owner', epochs')
           /\ Longer(owner, owner') /\ Longer(epochs, epochs')
           /\ r = Idle \/ InOrder(owner', epochs', r)
           /\ file' \in [Paths -> {Absent, Empty} \cup Whole]
           /\ \A path \in Paths : file'[path] \notin {Absent, Empty} =>
                 Fits(owner', epochs', path, file'[path])
<1> DEFINE s == running[p]
<1>1. /\ Recorded(owner, epochs)
      /\ file \in [Paths -> {Absent, Empty} \cup Whole]
      /\ \A path \in Paths : file[path] \notin {Absent, Empty} =>
            Fits(owner, epochs, path, file[path])
    BY DEF DataInv, IsWhole
<1>2. s # Idle => /\ InOrder(owner, epochs, s) /\ s \in Running
                  /\ s.got \in Seq(Whole) /\ s.outs \in Seq(Paths \X Whole)
    BY CommandAt
<1>3. CASE Started(s, r)
  <2>1. owner' = owner /\ epochs' = epochs /\ file' = file
      BY <1>3 DEF Started
  <2>2. InOrder(owner, epochs, r)
    <3>1. r \in Running /\ Asks(r.cmd) /\ r.got = <<>> /\ r.outs = <<>> /\ r.step = "reads" /\ ~ r.cut
        BY <1>3 DEF Started
    <3>2. Len(r.got) <= Len(r.cmd.ins)
      <4>1. r.cmd.ins \in Seq(Paths)
          BY <3>1 DEF Running, Command
      <4> QED
          BY <3>1, <4>1
    <3>3. DOMAIN r.got = {} /\ DOMAIN r.outs = {}
        BY <3>1
    <3> QED
        BY <3>1, <3>2, <3>3 DEF InOrder
  <2> QED
      BY <1>1, <2>1, <2>2, SameLonger
<1>4. CASE HasRead(s, r)
  <2> DEFINE path == s.cmd.ins[Len(s.got) + 1]
  <2>1. /\ owner' = owner /\ epochs' = epochs /\ file' = file
        /\ s # Idle /\ s.step = "reads" /\ Len(s.got) < Len(s.cmd.ins)
        /\ file[path] \notin {Absent, Empty}
        /\ r = [s EXCEPT !.got = Append(@, file[path])]
      BY <1>4 DEF HasRead, IsWhole
  <2>2. s.cmd.ins \in Seq(Paths) /\ s.got \in Seq(Whole)
      BY <2>1, CommandAt
  <2>3. path \in Paths
      BY <2>1, <2>2
  <2>4. Fits(owner, epochs, path, file[path]) /\ file[path] \in Whole
      BY <1>1, <2>1, <2>3
  <2>5. /\ r \in Running /\ r.cmd = s.cmd /\ r.outs = s.outs /\ r.step = s.step /\ r.cut = s.cut
        /\ r.got = Append(s.got, file[path])
    <3>1. PICK more \in Seq(Whole) : more = Append(s.got, file[path])
        BY <2>2, <2>4, AppendProperties
    <3>2. r = [s EXCEPT !.got = more] /\ s \in Running
        BY <1>2, <2>1, <3>1
    <3>3. /\ r \in Running /\ r.cmd = s.cmd /\ r.outs = s.outs /\ r.step = s.step /\ r.cut = s.cut
          /\ r.got = more
        BY <3>2 DEF Running
    <3> QED
        BY <3>1, <3>3
  <2>6. InOrder(owner, epochs, s)
      BY <1>2, <2>1
  <2>7. \A i \in DOMAIN r.got : Fits(owner, epochs, r.cmd.ins[i], r.got[i])
    <3> SUFFICES ASSUME NEW i \in DOMAIN r.got PROVE Fits(owner, epochs, r.cmd.ins[i], r.got[i])
        OBVIOUS
    <3>1. CASE i \in DOMAIN s.got
      <4>1. r.got[i] = s.got[i]
          BY <2>2, <2>5, <3>1
      <4> QED
          BY <2>5, <2>6, <3>1, <4>1 DEF InOrder
    <3>2. CASE i = Len(s.got) + 1
      <4>1. r.got[i] = file[path]
          BY <2>2, <2>5, <3>2
      <4> QED
          BY <2>4, <2>5, <3>2, <4>1
    <3>3. i \in DOMAIN s.got \/ i = Len(s.got) + 1
        BY <2>2, <2>5
    <3> QED
        BY <3>1, <3>2, <3>3
  <2>8. Len(r.got) <= Len(r.cmd.ins)
    <3>0. Len(s.got) \in Nat /\ Len(s.cmd.ins) \in Nat
        BY <2>2, LenProperties
    <3>1. Len(r.got) = Len(s.got) + 1
        BY <2>2, <2>4, <2>5, AppendProperties
    <3>2. Len(s.got) < Len(s.cmd.ins) /\ r.cmd = s.cmd
        BY <2>1, <2>5, Zenon
    <3> QED
        BY <3>0, <3>1, <3>2
  <2>9. InOrder(owner, epochs, r)
      BY <2>5, <2>6, <2>7, <2>8 DEF InOrder
  <2> QED
      BY <1>1, <2>1, <2>9, SameLonger
<1>5. CASE Stopped(s, r)
  <2>1. owner' = owner /\ epochs' = epochs /\ file' = file /\ r = Idle
      BY <1>5 DEF Stopped
  <2> QED
      BY <1>1, <2>1, SameLonger
<1>6. CASE Truncated(s, r)
  <2>1. /\ owner' = owner /\ epochs' = epochs /\ s # Idle /\ s.step = "writes"
        /\ file' = [file EXCEPT ![s.outs[1][1]] = Empty] /\ r = [s EXCEPT !.cut = TRUE]
      BY <1>6 DEF Truncated
  <2>2. /\ r \in Running /\ r.cmd = s.cmd /\ r.outs = s.outs /\ r.step = s.step /\ r.got = s.got
      BY <1>2, <2>1 DEF Running
  <2>3. InOrder(owner, epochs, r)
      BY <1>2, <2>1, <2>2 DEF InOrder
  <2>4. /\ file' \in [Paths -> {Absent, Empty} \cup Whole]
        /\ \A path \in Paths : file'[path] \notin {Absent, Empty} => file'[path] = file[path]
      BY <1>1, <2>1
  <2> QED
      BY <1>1, <2>1, <2>3, <2>4, SameLonger
<1>7. CASE Written(s, r)
  <2>1. /\ owner' = owner /\ epochs' = epochs /\ s # Idle /\ s.step = "writes"
        /\ file' = [file EXCEPT ![s.outs[1][1]] = s.outs[1][2]]
      BY <1>7 DEF Written
  <2>2. s.outs[1][1] \in Paths /\ s.outs[1][2] \in Whole /\ Fits(owner, epochs, s.outs[1][1], s.outs[1][2])
      BY <2>1, NextOutput
  <2>3. /\ file' \in [Paths -> {Absent, Empty} \cup Whole]
        /\ \A path \in Paths : file'[path] = IF path = s.outs[1][1] THEN s.outs[1][2] ELSE file[path]
      BY <1>1, <2>1, <2>2
  <2>4. \A path \in Paths : file'[path] \notin {Absent, Empty} => Fits(owner, epochs, path, file'[path])
      BY <1>1, <2>2, <2>3
  <2>5. ASSUME r # Idle PROVE InOrder(owner, epochs, r)
    <3>1. /\ r \in Running /\ r.cmd = s.cmd /\ r.got = s.got
          /\ r.step = "writes" /\ r.outs # <<>>
          /\ \A i \in DOMAIN r.outs : i + 1 \in DOMAIN s.outs /\ r.outs[i] = s.outs[i + 1]
        BY <1>7, <2>5, WrittenRest
    <3>2. InOrder(owner, epochs, s) /\ DOMAIN r.outs \subseteq Nat
      <4>1. r.outs \in Seq(Paths \X Whole)
          BY <3>1 DEF Running
      <4> QED
          BY <1>2, <2>1, <4>1
    <3>3. \A i, j \in DOMAIN r.outs : r.outs[i][1] = r.outs[j][1] => i = j
        BY <3>1, <3>2 DEF InOrder
    <3>4. \A u \in Users, i \in DOMAIN r.outs : r.outs[i][1] = State(u) => i = 1 /\ u = r.cmd.user
      <4>1. ASSUME NEW u \in Users, NEW i \in DOMAIN r.outs, r.outs[i][1] = State(u) PROVE FALSE
        <5>1. i + 1 \in DOMAIN s.outs /\ s.outs[i + 1][1] = State(u)
            BY <3>1, <4>1
        <5>2. i + 1 = 1
            BY <3>2, <5>1 DEF InOrder
        <5>3. i \in Nat /\ i > 0
          <6>1. r.outs \in Seq(Paths \X Whole)
              BY <3>1 DEF Running
          <6> QED
              BY <4>1, <6>1
        <5> QED
            BY <5>2, <5>3
      <4> QED
          BY <4>1
    <3>5. \A i \in DOMAIN r.outs : Fits(owner, epochs, r.outs[i][1], r.outs[i][2])
        BY <3>1, <3>2 DEF InOrder
    <3> QED
        BY <3>1, <3>2, <3>3, <3>4, <3>5 DEF InOrder
  <2> QED
      BY <1>1, <2>1, <2>3, <2>4, <2>5, SameLonger
<1>8. CASE Acted(s, r)
  <2>1. /\ Recorded(owner', epochs') /\ Longer(owner, owner') /\ Longer(epochs, epochs')
        /\ InOrder(owner', epochs', r) /\ file' = file
      BY <1>8, ActedData
  <2> QED
      BY <1>1, <2>1, FitsStill
<1> QED
    BY <1>3, <1>4, <1>5, <1>6, <1>7, <1>8 DEF Steps

LEMMA StepDataInv ==
    ASSUME DataInv, [Next]_vars
    PROVE  DataInv' /\ Longer(owner, owner') /\ Longer(epochs, epochs')
<1>1. CASE UNCHANGED vars
    BY <1>1, SameLonger DEF vars, DataInv, IsWhole
<1>2. ASSUME NEW p \in Shells, NEW r, GoesOn(p, r), Steps(running[p], r)
      PROVE  DataInv' /\ Longer(owner, owner') /\ Longer(epochs, epochs')
  <2>1. /\ Recorded(owner', epochs')
        /\ Longer(owner, owner') /\ Longer(epochs, epochs')
        /\ r = Idle \/ InOrder(owner', epochs', r)
        /\ file' \in [Paths -> {Absent, Empty} \cup Whole]
        /\ \A path \in Paths : file'[path] \notin {Absent, Empty} =>
              Fits(owner', epochs', path, file'[path])
      BY <1>2, StepsData
  <2>2. running'[p] = r /\ \A q \in Shells \ {p} : running'[q] = running[q]
      BY <1>2, GoesOnFrame
  <2>3. \A q \in Shells : running[q] # Idle => InOrder(owner', epochs', running[q])
      BY <2>1, InOrderStill DEF DataInv
  <2>4. \A q \in Shells : running'[q] # Idle => InOrder(owner', epochs', running'[q])
      BY <2>1, <2>2, <2>3
  <2>5. running' \in [Shells -> {Idle} \cup Running]
    <3>1. r \in {Idle} \cup Running
        BY <2>1 DEF InOrder
    <3> QED
        BY <1>2, <3>1 DEF DataInv, GoesOn
  <2>6. hasty' \in BOOLEAN
      BY <1>2 DEF DataInv, GoesOn
  <2> QED
      BY <2>1, <2>4, <2>5, <2>6 DEF DataInv, IsWhole
<1> QED
    BY <1>1, <1>2, StepKinds

LEMMA InitDataInv ==
    ASSUME Init PROVE DataInv
<1>1. owner = <<>> /\ epochs = <<>> /\ hasty \in BOOLEAN
    BY DEF Init
<1>2. Recorded(owner, epochs)
    BY <1>1, CommandLineAssumption DEF Recorded
<1>3. file = [path \in Paths |-> Absent] /\ running = [p \in Shells |-> Idle]
    BY DEF Init
<1> QED
    BY <1>1, <1>2, <1>3 DEF DataInv, IsWhole

LEMMA DataInvType ==
    ASSUME DataInv PROVE TypeOK
<1>1. /\ Recorded(owner, epochs) /\ hasty \in BOOLEAN
      /\ file \in [Paths -> {Absent, Empty} \cup Whole]
      /\ running \in [Shells -> {Idle} \cup Running]
    BY DEF DataInv
<1>2. Len(owner) \in 0 .. MaxKeygens /\ Len(epochs) \in 0 .. MaxEpochs
    BY <1>1, CommandLineAssumption DEF Recorded
<1> QED
    BY <1>1, <1>2 DEF TypeOK, Recorded

LEMMA AlwaysDataInv ==
    Spec => []DataInv
BY InitDataInv, StepDataInv, PTL DEF Spec

\* cli.py: the state, welcome and commit files, the key files and what every
\* command has read and still has to write are always of their kind, whatever
\* commands are cut off or run at once on the same files.
THEOREM CommandLineTypeCorrect ==
    Spec => []TypeOK
BY AlwaysDataInv, DataInvType, PTL

-----------------------------------------------------------------------------
(* The record of a command after a step *)

LEMMA HasReadFields ==
    ASSUME DataInv, NEW p \in Shells, NEW r, HasRead(running[p], r)
    PROVE  /\ running[p] # Idle /\ running[p].step = "reads" /\ running[p].outs = <<>>
           /\ r # Idle /\ r.cmd = running[p].cmd /\ r.step = "reads" /\ ~ r.cut /\ r.outs = <<>>
           /\ file' = file /\ owner' = owner /\ epochs' = epochs
           /\ LET n == Len(running[p].got) + 1
                  path == running[p].cmd.ins[n] IN
              /\ path \in Paths /\ file[path] \notin {Absent, Empty}
              /\ DOMAIN r.got = DOMAIN running[p].got \cup {n}
              /\ r.got[n] = file[path]
              /\ \A i \in DOMAIN running[p].got : r.got[i] = running[p].got[i]
<1> DEFINE s == running[p]
           n == Len(s.got) + 1
           path == s.cmd.ins[n]
<1>1. /\ owner' = owner /\ epochs' = epochs /\ file' = file
      /\ s # Idle /\ s.step = "reads" /\ Len(s.got) < Len(s.cmd.ins)
      /\ file[path] \notin {Absent, Empty}
      /\ r = [s EXCEPT !.got = Append(@, file[path])]
    BY DEF HasRead, IsWhole
<1>2. /\ InOrder(owner, epochs, s) /\ s \in Running
      /\ s.cmd.ins \in Seq(Paths) /\ s.got \in Seq(Whole)
    BY <1>1, CommandAt
<1>3. s.outs = <<>> /\ s.cut = FALSE
    BY <1>1, <1>2 DEF InOrder, Running
<1>4. path \in Paths
    BY <1>1, <1>2
<1>5. file[path] \in Whole
    BY <1>1, <1>4 DEF DataInv
<1>6. PICK more \in Seq(Whole) : more = Append(s.got, file[path])
    BY <1>2, <1>5, AppendProperties
<1>7. /\ Len(more) = Len(s.got) + 1 /\ Len(s.got) \in Nat
      /\ \A i \in 1 .. Len(s.got) : more[i] = s.got[i]
      /\ more[Len(s.got) + 1] = file[path]
      /\ DOMAIN s.got = 1 .. Len(s.got) /\ DOMAIN more = 1 .. Len(more)
    BY <1>2, <1>5, <1>6, AppendProperties, LenProperties
<1>8. r = [s EXCEPT !.got = more]
    BY <1>1, <1>6
<1>9. /\ r \in Running /\ r.cmd = s.cmd /\ r.outs = s.outs /\ r.step = s.step /\ r.cut = s.cut
      /\ r.got = more
    BY <1>2, <1>8 DEF Running
<1>10. r # Idle
    BY <1>9 DEF Running, Idle
<1>11. DOMAIN more = DOMAIN s.got \cup {n}
    BY <1>7
<1>12. file[path] \notin {Absent, Empty} /\ file' = file /\ owner' = owner /\ epochs' = epochs
        /\ s # Idle /\ s.step = "reads"
    BY <1>1, Zenon
<1> HIDE DEF path
<1>13. /\ DOMAIN r.got = DOMAIN s.got \cup {n} /\ r.got[n] = file[path]
       /\ \A i \in DOMAIN s.got : r.got[i] = s.got[i]
    BY <1>7, <1>9, <1>11
<1> QED
    BY <1>3, <1>4, <1>9, <1>10, <1>12, <1>13 DEF path

LEMMA TruncatedFields ==
    ASSUME DataInv, NEW p \in Shells, NEW r, Truncated(running[p], r)
    PROVE  /\ running[p] # Idle /\ running[p].step = "writes" /\ ~ running[p].cut
           /\ r # Idle /\ r.cmd = running[p].cmd /\ r.step = "writes" /\ r.cut
           /\ r.outs = running[p].outs /\ r.got = running[p].got
           /\ owner' = owner /\ epochs' = epochs
           /\ \A path \in Paths : file'[path] = IF path = r.outs[1][1] THEN Empty ELSE file[path]
<1> DEFINE s == running[p]
<1>1. /\ s # Idle /\ s.step = "writes" /\ ~ s.cut
      /\ r = [s EXCEPT !.cut = TRUE]
      /\ file' = [file EXCEPT ![s.outs[1][1]] = Empty] /\ owner' = owner /\ epochs' = epochs
    BY DEF Truncated
<1>2. s \in Running
    BY <1>1, CommandAt
<1>3. /\ r \in Running /\ r.cmd = s.cmd /\ r.outs = s.outs /\ r.step = "writes" /\ r.got = s.got
      /\ r.cut
    BY <1>1, <1>2 DEF Running
<1>4. r # Idle
    BY <1>3 DEF Running, Idle
<1>5. \A path \in Paths : file'[path] = IF path = s.outs[1][1] THEN Empty ELSE file[path]
    BY <1>1 DEF DataInv
<1> QED
    BY <1>1, <1>3, <1>4, <1>5

LEMMA PerformedFields ==
    ASSUME DataInv, NEW p \in Shells, NEW r, NEW files, Performed(running[p], r, files)
    PROVE  /\ running[p] # Idle /\ running[p].step = "reads" /\ running[p].outs = <<>>
           /\ r # Idle /\ r.cmd = running[p].cmd /\ r.step = "writes" /\ ~ r.cut
           /\ r.got = running[p].got /\ r.outs = files
           /\ file' = file
<1> DEFINE s == running[p]
<1>1. /\ s # Idle /\ s.step = "reads" /\ file' = file
      /\ r = [s EXCEPT !.step = "writes", !.outs = files]
    BY DEF Performed
<1>2. s \in Running /\ InOrder(owner, epochs, s)
    BY <1>1, CommandAt
<1>3. s.outs = <<>> /\ ~ s.cut
    BY <1>1, <1>2 DEF InOrder
<1>4. r.cmd = s.cmd /\ r.outs = files /\ r.step = "writes" /\ r.got = s.got /\ r.cut = s.cut
    BY <1>1, <1>2 DEF Running
<1>5. r # Idle
    BY <1>4 DEF Idle
<1> QED
    BY <1>1, <1>3, <1>4, <1>5

LEMMA WrittenFields ==
    ASSUME DataInv, NEW p \in Shells, NEW r, Written(running[p], r)
    PROVE  /\ running[p] # Idle /\ running[p].step = "writes" /\ running[p].cut
           /\ owner' = owner /\ epochs' = epochs
           /\ \A path \in Paths :
                 file'[path] = IF path = running[p].outs[1][1] THEN running[p].outs[1][2] ELSE file[path]
           /\ r = Idle => DOMAIN running[p].outs = {1}
           /\ r # Idle =>
                /\ r.cmd = running[p].cmd /\ r.got = running[p].got
                /\ r.step = "writes" /\ ~ r.cut
                /\ DOMAIN r.outs \subseteq Nat \ {0}
                /\ \A i \in DOMAIN r.outs :
                     i + 1 \in DOMAIN running[p].outs /\ r.outs[i] = running[p].outs[i + 1]
                /\ \A j \in DOMAIN running[p].outs \ {1} :
                     j - 1 \in DOMAIN r.outs /\ r.outs[j - 1] = running[p].outs[j]
<1> DEFINE s == running[p]
<1>1. /\ s # Idle /\ s.step = "writes" /\ s.cut
      /\ r = IF Len(s.outs) = 1 THEN Idle ELSE [s EXCEPT !.outs = Tail(@), !.cut = FALSE]
      /\ file' = [file EXCEPT ![s.outs[1][1]] = s.outs[1][2]] /\ owner' = owner /\ epochs' = epochs
    BY DEF Written
<1>2. s \in Running /\ s.outs \in Seq(Paths \X Whole)
    BY <1>1, CommandAt
<1>3. s.outs[1][1] \in Paths
    BY <1>1, NextOutput
<1>4. \A path \in Paths : file'[path] = IF path = s.outs[1][1] THEN s.outs[1][2] ELSE file[path]
  <2>1. file' = [file EXCEPT ![s.outs[1][1]] = s.outs[1][2]]
      BY <1>1, Zenon
  <2> QED
      BY <2>1 DEF DataInv
<1>5. ASSUME r = Idle PROVE DOMAIN s.outs = {1}
  <2>1. Len(s.outs) = 1
    <3>1. SUFFICES ASSUME Len(s.outs) # 1 PROVE FALSE
        OBVIOUS
    <3>2. PICK rest : rest = Tail(s.outs)
        OBVIOUS
    <3>3. r = [s EXCEPT !.outs = rest, !.cut = FALSE]
        BY <1>1, <3>1, <3>2, Zenon
    <3>4. r.step = s.step
        BY <1>2, <3>3 DEF Running
    <3>5. r.step = "idle"
        BY <1>5 DEF Idle
    <3>6. s.step = "writes"
        BY <1>1, Zenon
    <3> QED
        BY <3>4, <3>5, <3>6
  <2>2. DOMAIN s.outs = 1 .. Len(s.outs)
      BY <1>2, LenProperties
  <2> QED
      BY <2>1, <2>2
<1>6. ASSUME r # Idle
      PROVE  /\ r.cmd = s.cmd /\ r.got = s.got
             /\ r.step = "writes" /\ ~ r.cut
             /\ DOMAIN r.outs \subseteq Nat \ {0}
             /\ \A i \in DOMAIN r.outs : i + 1 \in DOMAIN s.outs /\ r.outs[i] = s.outs[i + 1]
             /\ \A j \in DOMAIN s.outs \ {1} : j - 1 \in DOMAIN r.outs /\ r.outs[j - 1] = s.outs[j]
  <2>1. /\ r \in Running /\ r.cmd = s.cmd /\ r.got = s.got
        /\ r.step = "writes" /\ ~ r.cut /\ r.outs = Tail(s.outs)
        /\ \A i \in DOMAIN r.outs : i + 1 \in DOMAIN s.outs /\ r.outs[i] = s.outs[i + 1]
      BY <1>6, WrittenRest
  <2>2. r.outs \in Seq(Paths \X Whole)
      BY <2>1 DEF Running
  <2>3. s.outs # <<>>
      BY <1>1, NextOutput
  <2>4. Len(r.outs) = Len(s.outs) - 1
      BY <1>2, <2>1, <2>3, HeadTailProperties
  <2>5. DOMAIN r.outs = 1 .. Len(r.outs) /\ DOMAIN s.outs = 1 .. Len(s.outs) /\ Len(s.outs) \in Nat
      BY <1>2, <2>2, LenProperties
  <2>6. \A j \in DOMAIN s.outs \ {1} : j - 1 \in DOMAIN r.outs /\ (j - 1) + 1 = j
      BY <2>4, <2>5
  <2>7. \A j \in DOMAIN s.outs \ {1} : r.outs[j - 1] = s.outs[j]
      BY <2>1, <2>6
  <2>8. DOMAIN r.outs \subseteq Nat \ {0}
      BY <2>5
  <2> QED
      BY <2>1, <2>6, <2>7, <2>8
<1>7. s # Idle /\ s.step = "writes" /\ s.cut /\ owner' = owner /\ epochs' = epochs
    BY <1>1, Zenon
<1> QED
    BY <1>4, <1>5, <1>6, <1>7

-----------------------------------------------------------------------------
(* Commands at once *)

\* A file that was written, or was going to be, still is.
LEMMA StepsArrive ==
    ASSUME DataInv, NEW p \in Shells, NEW r, Steps(running[p], r), hasty,
           NEW path \in Paths, Sends(running[p], path) \/ file[path] \notin {Absent, Empty}
    PROVE  Sends(r, path) \/ file'[path] \notin {Absent, Empty}
<1> DEFINE s == running[p]
<1>1. CASE Started(s, r)
    BY <1>1 DEF Started, Sends
<1>2. CASE HasRead(s, r)
  <2>1. s.outs = <<>> /\ file' = file
      BY <1>2, HasReadFields
  <2>2. DOMAIN s.outs = {}
      BY <2>1
  <2> QED
      BY <2>1, <2>2 DEF Sends
<1>3. CASE Stopped(s, r)
  <2>1. s # Idle /\ s.step = "reads" /\ file' = file
      BY <1>3 DEF Stopped
  <2>2. s.outs = <<>>
      BY <2>1, CommandAt DEF InOrder
  <2>3. DOMAIN s.outs = {}
      BY <2>2
  <2> QED
      BY <2>1, <2>3 DEF Sends
<1>4. CASE Truncated(s, r)
  <2>1. /\ s # Idle /\ s.step = "writes" /\ r # Idle /\ r.outs = s.outs
        /\ file'[path] = IF path = r.outs[1][1] THEN Empty ELSE file[path]
      BY <1>4, TruncatedFields
  <2>2. 1 \in DOMAIN r.outs
      BY <2>1, NextOutput
  <2> QED
      BY <2>1, <2>2 DEF Sends
<1>5. CASE Written(s, r)
  <2>1. /\ s # Idle /\ s.step = "writes"
        /\ file'[path] = IF path = s.outs[1][1] THEN s.outs[1][2] ELSE file[path]
        /\ r = Idle => DOMAIN s.outs = {1}
        /\ r # Idle => \A j \in DOMAIN s.outs \ {1} : j - 1 \in DOMAIN r.outs /\ r.outs[j - 1] = s.outs[j]
      BY <1>5, WrittenFields
  <2>2. s.outs[1][2] \notin {Absent, Empty}
      BY <2>1, NextOutput
  <2>3. CASE path = s.outs[1][1]
      BY <2>1, <2>2, <2>3
  <2>4. CASE path # s.outs[1][1]
      BY <2>1, <2>4 DEF Sends
  <2> QED
      BY <2>3, <2>4
<1>6. CASE Acted(s, r)
  <2>1. PICK outs : Performed(s, r, outs)
      BY <1>6 DEF Acted
  <2>2. s.outs = <<>> /\ file' = file
      BY <2>1, PerformedFields
  <2>3. DOMAIN s.outs = {}
      BY <2>2
  <2> QED
      BY <2>2, <2>3 DEF Sends
<1> QED
    BY <1>1, <1>2, <1>3, <1>4, <1>5, <1>6 DEF Steps

\* Whoever makes an epoch has its commit, and the welcome it needs, to write.
LEMMA StepsSend ==
    ASSUME DataInv, NEW p \in Shells, NEW r, Steps(running[p], r),
           NEW e \in DOMAIN epochs' \ DOMAIN epochs
    PROVE  /\ epochs'[e].from # 0 => Sends(r, CommitFile(e))
           /\ epochs'[e].added # 0 => Sends(r, WelcomeFile(e))
<1> DEFINE s == running[p]
           n == Len(epochs) + 1
<1>1. epochs' # epochs
    OBVIOUS
<1>2. PICK files : Performed(s, r, files) /\ (NewGroup(s, files) \/ NewCommit(s, files))
  <2>1. Acted(s, r)
      BY <1>1 DEF Steps, Started, HasRead, Stopped, Truncated, Written
  <2>2. PICK files : /\ Performed(s, r, files)
                    /\ \/ NewKey(s, files) \/ NewGroup(s, files) \/ NewCommit(s, files)
                       \/ Joined(s, files) \/ Applied(s, files)
      BY <2>1 DEF Acted
  <2>3. ~ NewKey(s, files) /\ ~ Joined(s, files) /\ ~ Applied(s, files)
      BY <1>1 DEF NewKey, Joined, Applied
  <2> QED
      BY <2>2, <2>3
<1>3. r # Idle /\ r.outs = files
  <2>1. Performed(s, r, files)
      BY <1>2, Zenon
  <2>2. s # Idle /\ r = [s EXCEPT !.step = "writes", !.outs = files]
      BY <2>1 DEF Performed
  <2>3. r # Idle
      BY <2>1, PerformedFields
  <2>3a. s \in Running
      BY <2>2, CommandAt
  <2>4. r.outs = files
      BY <2>2, <2>3a DEF Running
  <2> QED
      BY <2>3, <2>4
<1>4. epochs \in Seq(Epoch) /\ DOMAIN epochs = 1 .. Len(epochs) /\ Len(epochs) \in Nat
    BY LenProperties DEF DataInv, Recorded
<1>5. CASE NewGroup(s, files)
  <2>1. PICK x \in Epoch : epochs' = Append(epochs, x) /\ x.from = 0 /\ x.added = 0
    <3>1. PICK k \in DOMAIN owner :
             epochs' = Append(epochs, [from |-> 0, by |-> k, roster |-> {k}, added |-> 0])
        BY <1>5 DEF NewGroup
    <3>2. [from |-> 0, by |-> k, roster |-> {k}, added |-> 0] \in Epoch
        BY KeysOwned, CommandLineAssumption DEF Epoch
    <3> QED
        BY <3>1, <3>2
  <2>2. e = n /\ epochs'[e] = x
      BY <1>4, <2>1
  <2> QED
      BY <2>1, <2>2
<1>6. CASE NewCommit(s, files)
  <2>1. PICK x, c, w, st :
           /\ x \in Epoch
           /\ epochs' = Append(epochs, x)
           /\ c[1] = CommitFile(n) /\ w[1] = WelcomeFile(n)
           /\ files = IF x.added = 0 THEN <<st, c>> ELSE <<st, w, c>>
    <3>0. PICK g \in GroupState, x \in Epoch, leaf \in BOOLEAN, used \in SUBSET Keys :
           Commits(s, files, g, x, leaf, used)
        BY <1>6 DEF NewCommit
    <3>1.  /\ files = IF x.added = 0
                     THEN <<<<State(s.cmd.user), Group(n, g.key, leaf, used)>>,
                            <<CommitFile(n), <<"commit", n>>>>>>
                     ELSE <<<<State(s.cmd.user), Group(n, g.key, leaf, used)>>,
                            <<WelcomeFile(n), <<"welcome", n, x.added>>>>,
                            <<CommitFile(n), <<"commit", n>>>>>>
           /\ epochs' = Append(epochs, x)
        BY <3>0 DEF Commits, NewEpoch
    <3> DEFINE c == <<CommitFile(n), <<"commit", n>>>>
               w == <<WelcomeFile(n), <<"welcome", n, x.added>>>>
    <3>2. c[1] = CommitFile(n) /\ w[1] = WelcomeFile(n)
        OBVIOUS
    <3> QED
        BY <3>1, <3>2
  <2>2. e = n /\ epochs'[e] = x
      BY <1>4, <2>1
  <2>3. CASE x.added = 0
      BY <1>3, <2>1, <2>2, <2>3 DEF Sends
  <2>4. CASE x.added # 0
    <3>1. files = <<st, w, c>>
        BY <2>1, <2>4
    <3>2. 2 \in DOMAIN files /\ files[2] = w /\ 3 \in DOMAIN files /\ files[3] = c
        BY <3>1
    <3> QED
        BY <1>3, <2>1, <2>2, <3>2 DEF Sends
  <2> QED
      BY <2>3, <2>4
<1> QED
    BY <1>2, <1>5, <1>6

\* An empty file is about to be written by the command that opened it last.
LEMMA StepsEmpty ==
    ASSUME DataInv, NEW p \in Shells, NEW r, Steps(running[p], r), hasty,
           NEW path \in Paths, file'[path] = Empty
    PROVE  \/ r # Idle /\ r.cut /\ r.outs[1][1] = path
           \/ /\ file[path] = Empty
              /\ ~ (running[p] # Idle /\ running[p].cut /\ running[p].outs[1][1] = path)
<1> DEFINE s == running[p]
<1>1. CASE Started(s, r)
    BY <1>1 DEF Started
<1>2. CASE HasRead(s, r)
  <2>1. s # Idle /\ s.step = "reads" /\ file' = file
      BY <1>2, HasReadFields
  <2>2. ~ s.cut
      BY <2>1, CommandAt
  <2> QED
      BY <2>1, <2>2
<1>3. CASE Stopped(s, r)
  <2>1. s # Idle /\ s.step = "reads" /\ file' = file
      BY <1>3 DEF Stopped
  <2>2. ~ s.cut
      BY <2>1, CommandAt
  <2> QED
      BY <2>1, <2>2
<1>4. CASE Truncated(s, r)
    BY <1>4, TruncatedFields
<1>5. CASE Written(s, r)
  <2>1. /\ s # Idle /\ s.step = "writes"
        /\ file'[path] = IF path = s.outs[1][1] THEN s.outs[1][2] ELSE file[path]
      BY <1>5, WrittenFields
  <2>2. s.outs[1][2] \notin {Absent, Empty}
      BY <2>1, NextOutput
  <2> QED
      BY <2>1, <2>2
<1>6. CASE Acted(s, r)
  <2>1. PICK outs : Performed(s, r, outs)
      BY <1>6 DEF Acted
  <2>2. s # Idle /\ s.step = "reads" /\ file' = file
      BY <2>1, PerformedFields
  <2>3. ~ s.cut
      BY <2>2, CommandAt
  <2> QED
      BY <2>2, <2>3
<1> QED
    BY <1>1, <1>2, <1>3, <1>4, <1>5, <1>6 DEF Steps

LEMMA StepHastyInv ==
    ASSUME DataInv, HastyInv, [Next]_vars PROVE HastyInv'
<1>1. CASE UNCHANGED vars
    BY <1>1 DEF vars, HastyInv, Arrives, IsWhole
<1>2. ASSUME NEW p \in Shells, NEW r, GoesOn(p, r), Steps(running[p], r), hasty
      PROVE  HastyInv'
  <2>1. running'[p] = r /\ \A q \in Shells \ {p} : running'[q] = running[q]
      BY <1>2, GoesOnFrame
  <2>2. Longer(epochs, epochs') /\ DataInv'
      BY <1>2, StepDataInv
  <2>3. ASSUME NEW path \in Paths, Arrives(path)
        PROVE  file'[path] \notin {Absent, Empty} \/ \E q \in Shells : Sends(running'[q], path)
    <3>1. CASE Sends(running[p], path) \/ file[path] \notin {Absent, Empty}
        BY <1>2, <2>1, <3>1, StepsArrive
    <3>2. CASE \E q \in Shells \ {p} : Sends(running[q], path)
        BY <2>1, <3>2
    <3> QED
        BY <2>3, <3>1, <3>2 DEF Arrives, IsWhole
  <2>4. ASSUME NEW e \in DOMAIN epochs'
        PROVE  /\ epochs'[e].from # 0 => Arrives(CommitFile(e))'
               /\ epochs'[e].added # 0 => Arrives(WelcomeFile(e))'
    <3>0. e \in Epochs
        BY <2>2, EpochFields DEF DataInv
    <3>1. CASE e \in DOMAIN epochs
      <4>1. epochs'[e] = epochs[e]
          BY <2>2, <3>1 DEF Longer
      <4>2. /\ epochs[e].from # 0 => Arrives(CommitFile(e))
            /\ epochs[e].added # 0 => Arrives(WelcomeFile(e))
          BY <1>2, <3>1 DEF HastyInv
      <4> QED
          BY <2>3, <3>0, <4>1, <4>2, PathTypes DEF Arrives, IsWhole, WelcomeFile, CommitFile
    <3>2. CASE e \notin DOMAIN epochs
      <4>1. /\ epochs'[e].from # 0 => Sends(r, CommitFile(e))
            /\ epochs'[e].added # 0 => Sends(r, WelcomeFile(e))
          BY <1>2, <3>2, StepsSend
      <4> QED
          BY <2>1, <4>1 DEF Arrives, WelcomeFile, CommitFile
    <3> QED
        BY <3>1, <3>2
  <2>5. ASSUME NEW path \in Paths, file'[path] = Empty
        PROVE  \E q \in Shells : running'[q] # Idle /\ running'[q].cut /\ running'[q].outs[1][1] = path
    <3>1. \/ r # Idle /\ r.cut /\ r.outs[1][1] = path
          \/ /\ file[path] = Empty
             /\ ~ (running[p] # Idle /\ running[p].cut /\ running[p].outs[1][1] = path)
        BY <1>2, <2>5, StepsEmpty
    <3>2. file[path] = Empty =>
             \E q \in Shells : running[q] # Idle /\ running[q].cut /\ running[q].outs[1][1] = path
        BY <1>2 DEF HastyInv
    <3> QED
        BY <2>1, <3>1, <3>2
  <2> QED
      BY <2>4, <2>5 DEF HastyInv
<1>3. ASSUME NEW p \in Shells, NEW r, GoesOn(p, r), ~ hasty PROVE HastyInv'
    BY <1>3 DEF GoesOn, HastyInv
<1> QED
    BY <1>1, <1>2, <1>3, StepKinds

LEMMA InitHastyInv ==
    ASSUME Init PROVE HastyInv
<1>1. epochs = <<>> /\ file = [path \in Paths |-> Absent]
    BY DEF Init
<1>2. DOMAIN epochs = {}
    BY <1>1
<1>3. \A path \in Paths : file[path] # Empty
    BY <1>1 DEF Absent, Empty
<1> QED
    BY <1>2, <1>3 DEF HastyInv

LEMMA NothingLost ==
    ASSUME DataInv, HastyInv PROVE AllAtHand
<1> SUFFICES ASSUME hasty, \A p \in Shells : running[p] = Idle
             PROVE  /\ \A path \in Paths : file[path] # Empty
                    /\ \A u \in Users : Standing(u) =>
                          \A a \in Line(At(u).epoch) :
                              /\ epochs[a].from # 0 => IsWhole(CommitFile(a))
                              /\ epochs[a].added # 0 => IsWhole(WelcomeFile(a))
    BY DEF AllAtHand
<1>1. \A path \in Paths : file[path] # Empty
    BY DEF HastyInv
<1>2. \A a \in DOMAIN epochs : /\ epochs[a].from # 0 => IsWhole(CommitFile(a))
                               /\ epochs[a].added # 0 => IsWhole(WelcomeFile(a))
    BY DEF HastyInv, Arrives, Sends
<1>3. ASSUME NEW u \in Users, Standing(u) PROVE Line(At(u).epoch) \subseteq DOMAIN epochs
  <2>1. At(u).epoch \in DOMAIN epochs
      BY <1>3, PathTypes, FitsState DEF DataInv, Standing, StateOf, At
  <2>2. epochs \in Seq(Epoch) /\ \A e \in DOMAIN epochs : epochs[e].from < e
      BY DEF DataInv, Recorded
  <2>3. Line(At(u).epoch) \subseteq 1 .. At(u).epoch
      BY <2>1, <2>2, AncestryBound DEF Line
  <2> QED
      BY <2>1, <2>2, <2>3
<1> QED
    BY <1>1, <1>2, <1>3

\* cli.py: when commands run at once and none is cut off, then whenever all
\* have ended no file is left empty, and every commit and welcome that led to
\* where a user stands is there to be handed out, also when two commands of a
\* user overwrote each other's state.
THEOREM OverlappingCommandsLoseNothing ==
    Spec => []AllAtHand
<1>1. Init => HastyInv
    BY InitHastyInv
<1>2. DataInv /\ HastyInv /\ [Next]_vars => HastyInv'
    BY StepHastyInv
<1>3. DataInv /\ HastyInv => AllAtHand
    BY NothingLost
<1> QED
    BY <1>1, <1>2, <1>3, AlwaysDataInv, PTL DEF Spec

-----------------------------------------------------------------------------
(* Nobody is ahead of a commit that was never written *)

\* A commit or a welcome on disk, or on its way there, is of an epoch made.
LEMMA SendsMade ==
    ASSUME DataInv, NEW e, NEW path \in {CommitFile(e), WelcomeFile(e)},
           \/ \E p \in Shells : Sends(running[p], path)
           \/ path \in Paths /\ file[path] \notin {Absent, Empty}
    PROVE  e \in DOMAIN epochs
<1>1. ASSUME NEW c, Fits(owner, epochs, path, c) PROVE e \in DOMAIN epochs
    BY <1>1, FitsWelcome, FitsCommit DEF WelcomeOf, CommitOf
<1>2. CASE \E p \in Shells : Sends(running[p], path)
  <2>1. PICK p \in Shells : Sends(running[p], path)
      BY <1>2
  <2>2. PICK i \in DOMAIN running[p].outs : running[p].outs[i][1] = path /\ running[p] # Idle
      BY <2>1 DEF Sends
  <2>3. InOrder(owner, epochs, running[p])
      BY <2>2, CommandAt
  <2>4. Fits(owner, epochs, path, running[p].outs[i][2])
      BY <2>2, <2>3 DEF InOrder
  <2> QED
      BY <1>1, <2>4
<1>3. CASE path \in Paths /\ file[path] \notin {Absent, Empty}
    BY <1>1, <1>3 DEF DataInv, IsWhole
<1> QED
    BY <1>2, <1>3

\* A command that has a commit or welcome to write had it before, and has not
\* just written it; or it has just made the epoch.
LEMMA SendsBefore ==
    ASSUME DataInv, NEW p \in Shells, NEW r, Steps(running[p], r),
           NEW e \in Epochs, NEW path \in {CommitFile(e), WelcomeFile(e)}, Sends(r, path)
    PROVE  \/ /\ Sends(running[p], path)
              /\ file'[path] \notin {Absent, Empty} => file'[path] = file[path]
           \/ e = Len(epochs) + 1 /\ e \notin DOMAIN epochs /\ file' = file
<1> DEFINE s == running[p]
<1>0. path \in Paths
    BY PathTypes
<1>1. CASE Started(s, r)
  <2>1. r.outs = <<>>
      BY <1>1 DEF Started
  <2>2. DOMAIN r.outs = {}
      BY <2>1
  <2> QED
      BY <2>2 DEF Sends
<1>2. CASE HasRead(s, r)
  <2>1. r.outs = <<>>
      BY <1>2, HasReadFields
  <2>2. DOMAIN r.outs = {}
      BY <2>1
  <2> QED
      BY <2>2 DEF Sends
<1>3. CASE Stopped(s, r)
    BY <1>3 DEF Stopped, Sends
<1>4. CASE Truncated(s, r)
  <2>1. /\ s # Idle /\ r.outs = s.outs
        /\ file'[path] = IF path = r.outs[1][1] THEN Empty ELSE file[path]
      BY <1>0, <1>4, TruncatedFields
  <2> QED
      BY <2>1 DEF Sends
<1>5. CASE Written(s, r)
  <2>1. r # Idle
      BY DEF Sends
  <2>2. PICK i \in DOMAIN r.outs : r.outs[i][1] = path
      BY DEF Sends
  <2>3. /\ s # Idle /\ s.step = "writes"
        /\ file'[path] = IF path = s.outs[1][1] THEN s.outs[1][2] ELSE file[path]
        /\ i \in Nat \ {0} /\ i + 1 \in DOMAIN s.outs /\ r.outs[i] = s.outs[i + 1]
      BY <1>0, <1>5, <2>1, WrittenFields
  <2>4. InOrder(owner, epochs, s) /\ 1 \in DOMAIN s.outs
      BY <2>3, CommandAt, NextOutput
  <2>5. s.outs[i + 1][1] = path
      BY <2>2, <2>3
  <2>6. s.outs[1][1] # path
    <3>1. \A x, y \in DOMAIN s.outs : s.outs[x][1] = s.outs[y][1] => x = y
        BY <2>4 DEF InOrder
    <3>2. i + 1 # 1
        BY <2>3
    <3> QED
        BY <2>3, <2>4, <2>5, <3>1, <3>2
  <2> QED
      BY <2>3, <2>5, <2>6 DEF Sends
<1>6. CASE Acted(s, r)
  <2>1. PICK outs :
           /\ Performed(s, r, outs)
           /\ \/ NewKey(s, outs) \/ NewGroup(s, outs) \/ NewCommit(s, outs)
              \/ Joined(s, outs) \/ Applied(s, outs)
      BY <1>6 DEF Acted
  <2>2. Performed(s, r, outs)
      BY <2>1
  <2>3. file' = file /\ s # Idle
      BY <2>2, PerformedFields
  <2>4. r.outs = outs
    <3>1. r = [s EXCEPT !.step = "writes", !.outs = outs]
        BY <2>2 DEF Performed
    <3>2. s \in Running
        BY <2>3, CommandAt
    <3> QED
        BY <3>1, <3>2 DEF Running
  <2>5. PICK i \in DOMAIN outs : outs[i][1] = path
      BY <2>4 DEF Sends
  <2>6. ~ NewKey(s, outs)
    <3>1. SUFFICES ASSUME NewKey(s, outs) PROVE FALSE
        OBVIOUS
    <3>2. PICK c : outs = <<<<Priv(s.cmd.user), c>>, <<Pub(s.cmd.user), c>>>>
        BY <3>1 DEF NewKey
    <3>3. outs[i][1] = Priv(s.cmd.user) \/ outs[i][1] = Pub(s.cmd.user)
        BY <2>5, <3>2
    <3> QED
        BY <2>5, <3>3, PathsApart
  <2>7. NewGroup(s, outs) \/ Joined(s, outs) \/ Applied(s, outs) => FALSE
    <3>1. SUFFICES ASSUME NewGroup(s, outs) \/ Joined(s, outs) \/ Applied(s, outs) PROVE FALSE
        OBVIOUS
    <3>2. PICK c : outs = <<<<State(s.cmd.user), c>>>>
        BY <3>1 DEF NewGroup, Joined, Applied
    <3>3. outs[i][1] = State(s.cmd.user)
        BY <2>5, <3>2
    <3> QED
        BY <2>5, <3>3, PathsApart
  <2>8. NewCommit(s, outs)
      BY <2>1, <2>6, <2>7
  <2> DEFINE n == Len(epochs) + 1
  <2>9. PICK g \in GroupState, x \in Epoch, leaf \in BOOLEAN, used \in SUBSET Keys :
           Commits(s, outs, g, x, leaf, used)
      BY <2>8 DEF NewCommit
  <2>10. PICK c, w, st :
           outs = IF x.added = 0 THEN <<<<State(s.cmd.user), st>>, <<CommitFile(n), c>>>>
                  ELSE <<<<State(s.cmd.user), st>>, <<WelcomeFile(n), w>>, <<CommitFile(n), c>>>>
      BY <2>9 DEF Commits, NewEpoch
  <2>11. outs[i][1] \in {State(s.cmd.user), WelcomeFile(n), CommitFile(n)}
    <3>1. CASE x.added = 0
        BY <2>5, <2>10, <3>1
    <3>2. CASE x.added # 0
        BY <2>5, <2>10, <3>2
    <3> QED
        BY <3>1, <3>2
  <2>12. e = n
      BY <2>5, <2>11, PathsApart
  <2>13. n \notin DOMAIN epochs
      BY LenProperties DEF DataInv, Recorded
  <2> QED
      BY <2>3, <2>12, <2>13
<1> QED
    BY <1>1, <1>2, <1>3, <1>4, <1>5, <1>6 DEF Steps

\* Who makes a file whole had it to write.
LEMMA WritesOwn ==
    ASSUME DataInv, NEW p \in Shells, NEW r, Steps(running[p], r), NEW path \in Paths,
           file'[path] # file[path]
    PROVE  /\ running[p] # Idle /\ running[p].step = "writes" /\ 1 \in DOMAIN running[p].outs
           /\ running[p].outs[1][1] = path
           /\ Sends(running[p], path)
           /\ file'[path] = Empty \/ file'[path] = running[p].outs[1][2]
           /\ owner' = owner /\ epochs' = epochs
<1> DEFINE s == running[p]
<1>1. CASE Truncated(s, r)
  <2>1. /\ s # Idle /\ s.step = "writes" /\ r.outs = s.outs /\ owner' = owner /\ epochs' = epochs
        /\ file'[path] = IF path = r.outs[1][1] THEN Empty ELSE file[path]
      BY <1>1, TruncatedFields
  <2>2. 1 \in DOMAIN s.outs
      BY <2>1, NextOutput
  <2> QED
      BY <2>1, <2>2 DEF Sends
<1>2. CASE Written(s, r)
  <2>1. s # Idle /\ s.step = "writes" /\ owner' = owner /\ epochs' = epochs
      BY <1>2, WrittenFields
  <2>2. file'[path] = IF path = s.outs[1][1] THEN s.outs[1][2] ELSE file[path]
    <3>1. \A x \in Paths : file'[x] = IF x = s.outs[1][1] THEN s.outs[1][2] ELSE file[x]
        BY <1>2, WrittenFields, Zenon
    <3> QED
        BY <3>1
  <2>3. 1 \in DOMAIN s.outs
      BY <2>1, NextOutput
  <2> QED
      BY <2>1, <2>2, <2>3 DEF Sends
<1>3. ~ Acted(s, r)
    BY DEF Acted, Performed
<1>4. ~ Started(s, r) /\ ~ HasRead(s, r) /\ ~ Stopped(s, r)
    BY DEF Started, HasRead, Stopped
<1> QED
    BY <1>1, <1>2, <1>3, <1>4 DEF Steps

LEMMA SentStill ==
    ASSUME DataInv, SentOnce, NEW p \in Shells, NEW r, Steps(running[p], r)
    PROVE  Sent(file) \subseteq Sent(file')
<1> SUFFICES ASSUME NEW e \in Epochs, file[CommitFile(e)] \notin {Absent, Empty}
             PROVE  file'[CommitFile(e)] \notin {Absent, Empty}
    BY DEF Sent
<1>1. CommitFile(e) \in Paths
    BY PathTypes
<1>2. ~ Sends(running[p], CommitFile(e))
    BY DEF SentOnce, IsWhole
<1> QED
    BY <1>1, <1>2, WritesOwn

LEMMA StepSentOnce ==
    ASSUME DataInv, SentOnce, NEW p \in Shells, NEW r, GoesOn(p, r), Steps(running[p], r)
    PROVE  SentOnce'
<1>1. running'[p] = r /\ \A q \in Shells \ {p} : running'[q] = running[q]
    BY GoesOnFrame
<1>2. SUFFICES ASSUME NEW q \in Shells, NEW e \in Epochs, Sends(running'[q], CommitFile(e))
               PROVE  /\ file'[CommitFile(e)] \in {Absent, Empty}
                      /\ \A q2 \in Shells : Sends(running'[q2], CommitFile(e)) => q2 = q
    BY DEF SentOnce, IsWhole, CommitFile
<1> DEFINE path == CommitFile(e)
<1>3. path \in Paths /\ path \in {CommitFile(e), WelcomeFile(e)}
    BY PathTypes
<1> HIDE DEF path
<1>4. ASSUME NEW x \in Shells, Sends(running[x], path)
      PROVE  /\ e \in DOMAIN epochs /\ file[path] \in {Absent, Empty}
             /\ \A y \in Shells : Sends(running[y], path) => y = x
  <2>1. e \in DOMAIN epochs
      BY <1>3, <1>4, SendsMade
  <2> QED
      BY <1>4, <2>1 DEF SentOnce, IsWhole, path
<1>5. CASE q # p
  <2>1. Sends(running[q], path)
      BY <1>1, <1>2, <1>5 DEF path
  <2>2. e \in DOMAIN epochs /\ file[path] \in {Absent, Empty}
          /\ \A y \in Shells : Sends(running[y], path) => y = q
      BY <1>4, <2>1
  <2>3. ~ Sends(running[p], path)
      BY <1>5, <2>2
  <2>4. ~ Sends(r, path)
      BY <1>3, <2>2, <2>3, SendsBefore
  <2>5. file'[path] = file[path]
      BY <1>3, <2>3, WritesOwn
  <2>6. \A q2 \in Shells : Sends(running'[q2], path) => q2 = q
      BY <1>1, <2>2, <2>4
  <2> QED
      BY <2>2, <2>5, <2>6 DEF path
<1>6. CASE q = p
  <2>1. Sends(r, path)
      BY <1>1, <1>2, <1>6 DEF path
  <2>2. CASE Sends(running[p], path) /\ (file'[path] \notin {Absent, Empty} => file'[path] = file[path])
    <3>1. file[path] \in {Absent, Empty} /\ \A y \in Shells : Sends(running[y], path) => y = p
        BY <1>4, <2>2
    <3> QED
        BY <1>1, <1>6, <2>2, <3>1 DEF path
  <2>3. CASE e \notin DOMAIN epochs /\ file' = file
    <3>1. file[path] \in {Absent, Empty}
        BY <1>3, <2>3, SendsMade
    <3>2. \A y \in Shells : ~ Sends(running[y], path)
        BY <1>4, <2>3
    <3> QED
        BY <1>1, <1>6, <2>3, <3>1, <3>2 DEF path
  <2> QED
      BY <1>3, <2>1, <2>2, <2>3, SendsBefore
<1> QED
    BY <1>5, <1>6

LEMMA LineFacts ==
    ASSUME NEW os, NEW es, Recorded(os, es), NEW e \in DOMAIN es
    PROVE  /\ Ancestry(es)[e] = {e} \cup Ancestry(es)[es[e].from]
           /\ es[e].from = 0 => Ancestry(es)[e] = {e}
           /\ Ancestry(es)[e] \subseteq 1 .. e /\ Ancestry(es)[e] \subseteq DOMAIN es
           /\ e \in Ancestry(es)[e]
<1>1. es \in Seq(Epoch) /\ \A x \in DOMAIN es : es[x].from < x
    BY DEF Recorded
<1>2. /\ Ancestry(es)[0] = {} /\ Ancestry(es)[e] = {e} \cup Ancestry(es)[es[e].from]
    BY <1>1, AncestryStep
<1>3. Ancestry(es)[e] \subseteq 1 .. e
    BY <1>1, AncestryBound
<1>4. 1 .. e \subseteq DOMAIN es
    BY <1>1
<1> QED
    BY <1>2, <1>3, <1>4

LEMMA LineStill ==
    ASSUME NEW os, NEW es, Recorded(os, es), NEW os2, NEW es2, Recorded(os2, es2), Longer(es, es2),
           NEW e \in DOMAIN es
    PROVE  Ancestry(es2)[e] = Ancestry(es)[e]
BY AncestryGrows DEF Recorded

LEMMA FollowedStill ==
    ASSUME NEW os, NEW es, Recorded(os, es), NEW os2, NEW es2, Recorded(os2, es2), Longer(es, es2),
           NEW sent, NEW sent2, sent \subseteq sent2,
           NEW s, s.epoch \in DOMAIN es, Followed(es, sent, s)
    PROVE  Followed(es2, sent2, s)
<1> DEFINE L == Ancestry(es)[s.epoch]
<1>1. Ancestry(es2)[s.epoch] = L /\ L \subseteq DOMAIN es
    BY LineStill, LineFacts
<1>2. \A a \in L : /\ es2[a] = es[a]
                   /\ es[a].from # 0 => es2[es[a].from] = es[es[a].from]
    BY <1>1, EpochFields DEF Longer
<1>3. \A a \in L :
        /\ es[a].from # 0 /\ es[a].by # s.key
        /\ s.key \in es[es[a].from].roster
        /\ \A b \in L : b >= a => s.key \in es[b].roster
        => a \in sent
    BY DEF Followed
<1> HIDE DEF L
<1>4. SUFFICES ASSUME NEW a \in L,
                      es2[a].from # 0, es2[a].by # s.key,
                      s.key \in es2[es2[a].from].roster,
                      \A b \in L : b >= a => s.key \in es2[b].roster
               PROVE  a \in sent
    BY <1>1 DEF Followed
<1> QED
    BY <1>2, <1>3, <1>4

\* Who made the commit, or could read it.
LEMMA FollowedNext ==
    ASSUME NEW os, NEW es, Recorded(os, es), NEW sent, NEW g, g.epoch \in DOMAIN es, Followed(es, sent, g),
           NEW s, s.epoch \in DOMAIN es, s.key = g.key, es[s.epoch].from = g.epoch,
           s.epoch \in sent \/ es[s.epoch].by = s.key
    PROVE  Followed(es, sent, s)
<1> DEFINE L == Ancestry(es)[g.epoch]
           M == Ancestry(es)[s.epoch]
<1>1. M = {s.epoch} \cup L
    BY LineFacts
<1>2. \A a \in L :
        /\ es[a].from # 0 /\ es[a].by # s.key
        /\ s.key \in es[es[a].from].roster
        /\ \A b \in L : b >= a => s.key \in es[b].roster
        => a \in sent
    BY DEF Followed
<1> HIDE DEF L, M
<1>3. SUFFICES ASSUME NEW a \in M,
                      es[a].from # 0, es[a].by # s.key,
                      s.key \in es[es[a].from].roster,
                      \A b \in M : b >= a => s.key \in es[b].roster
               PROVE  a \in sent
    BY DEF Followed, M
<1> QED
    BY <1>1, <1>2, <1>3

\* Who was invited.
LEMMA FollowedInvited ==
    ASSUME NEW os, NEW es, Recorded(os, es), NEW sent,
           NEW s, s.epoch \in DOMAIN es, es[s.epoch].added = s.key, s.key # 0
    PROVE  Followed(es, sent, s)
<1> DEFINE e == s.epoch
           m == es[e].from
           M == Ancestry(es)[e]
<1>1. m # 0 /\ s.key \notin es[m].roster
    BY DEF Recorded
<1>2. m \in DOMAIN es /\ m \in Nat /\ e \in Nat
    BY <1>1, EpochFields
<1>3. M = {e} \cup Ancestry(es)[m] /\ Ancestry(es)[m] \subseteq 1 .. m /\ m \in Ancestry(es)[m]
    BY <1>2, LineFacts
<1>4. SUFFICES ASSUME NEW a \in M,
                      s.key \in es[es[a].from].roster,
                      \A b \in M : b >= a => s.key \in es[b].roster
               PROVE  FALSE
    BY DEF Followed
<1>5. CASE a = e
    BY <1>1, <1>4, <1>5
<1>6. CASE a \in Ancestry(es)[m]
  <2>1. m \in M /\ m >= a
      BY <1>2, <1>3, <1>6
  <2> QED
      BY <1>1, <1>4, <2>1
<1> QED
    BY <1>3, <1>5, <1>6

\* Who started the group.
LEMMA FollowedFirst ==
    ASSUME NEW os, NEW es, Recorded(os, es), NEW sent,
           NEW s, s.epoch \in DOMAIN es, es[s.epoch].from = 0
    PROVE  Followed(es, sent, s)
<1>1. Ancestry(es)[s.epoch] = {s.epoch}
    BY LineFacts
<1> QED
    BY <1>1 DEF Followed

LEMMA FitsGroup ==
    ASSUME NEW os, NEW es, NEW path, NEW c, Fits(os, es, path, c), c[1] = "group"
    PROVE  c[2].epoch \in DOMAIN es
<1>1. ASSUME NEW u, KeyOf(os, u, c) PROVE FALSE
    BY <1>1 DEF KeyOf
<1>2. ASSUME NEW e, WelcomeOf(es, e, c) PROVE FALSE
    BY <1>2 DEF WelcomeOf
<1>3. ASSUME NEW e, CommitOf(es, e, c) PROVE FALSE
    BY <1>3 DEF CommitOf
<1>4. ASSUME NEW u, StateOf(os, es, u, c) PROVE c[2].epoch \in DOMAIN es
    BY <1>4 DEF StateOf
<1> QED
    BY <1>1, <1>2, <1>3, <1>4 DEF Fits

LEMMA StateFollowedStill ==
    ASSUME NEW os, NEW es, Recorded(os, es), NEW os2, NEW es2, Recorded(os2, es2), Longer(es, es2),
           NEW sent, NEW sent2, sent \subseteq sent2,
           NEW path, NEW c, Fits(os, es, path, c) \/ c \in {Absent, Empty},
           StateFollowed(es, sent, c)
    PROVE  StateFollowed(es2, sent2, c)
<1> SUFFICES ASSUME c[1] = "group" PROVE Followed(es2, sent2, c[2])
    BY DEF StateFollowed
<1>1. c \notin {Absent, Empty}
    BY DEF Absent, Empty
<1>2. c[2].epoch \in DOMAIN es
    BY <1>1, FitsGroup
<1>3. Followed(es, sent, c[2])
    BY DEF StateFollowed
<1> QED
    BY <1>2, <1>3, FollowedStill

LEMMA CommandFollowedStill ==
    ASSUME NEW os, NEW es, Recorded(os, es), NEW os2, NEW es2, Recorded(os2, es2), Longer(es, es2),
           NEW sent, NEW sent2, sent \subseteq sent2,
           NEW r, InOrder(os, es, r), CommandFollowed(es, sent, r)
    PROVE  CommandFollowed(es2, sent2, r)
<1>1. ASSUME NEW i \in DOMAIN r.got PROVE StateFollowed(es2, sent2, r.got[i])
  <2>1. Fits(os, es, r.cmd.ins[i], r.got[i]) /\ StateFollowed(es, sent, r.got[i])
      BY DEF InOrder, CommandFollowed
  <2> QED
      BY <2>1, StateFollowedStill
<1>2. ASSUME NEW i \in DOMAIN r.outs PROVE StateFollowed(es2, sent2, r.outs[i][2])
  <2>1. Fits(os, es, r.outs[i][1], r.outs[i][2]) /\ StateFollowed(es, sent, r.outs[i][2])
      BY DEF InOrder, CommandFollowed
  <2> QED
      BY <2>1, StateFollowedStill
<1> QED
    BY <1>1, <1>2 DEF CommandFollowed

LEMMA FitsCommitContent ==
    ASSUME NEW os, NEW es, NEW path, NEW e, Fits(os, es, path, <<"commit", e>>)
    PROVE  path = CommitFile(e) /\ e \in Epochs
<1> DEFINE c == <<"commit", e>>
<1>0. c[1] = "commit" /\ c[2] = e
    OBVIOUS
<1> HIDE DEF c
<1>1. ASSUME NEW u, KeyOf(os, u, c) PROVE FALSE
    BY <1>0, <1>1 DEF KeyOf
<1>2. ASSUME NEW x, WelcomeOf(es, x, c) PROVE FALSE
    BY <1>0, <1>2 DEF WelcomeOf
<1>3. ASSUME NEW x, CommitOf(es, x, c) PROVE x = e
    BY <1>0, <1>3 DEF CommitOf
<1>4. ASSUME NEW u, StateOf(os, es, u, c) PROVE FALSE
    BY <1>0, <1>4 DEF StateOf
<1>5. Fits(os, es, path, c)
    BY DEF c
<1> QED
    BY <1>1, <1>2, <1>3, <1>4, <1>5 DEF Fits

\* What a state that a command wrote says.
LEMMA GroupContent ==
    ASSUME NEW e, NEW k, NEW leaf \in BOOLEAN, NEW used
    PROVE  Group(e, k, leaf, used)[1] = "group" /\ Group(e, k, leaf, used)[2].epoch = e
             /\ Group(e, k, leaf, used)[2].key = k
BY DEF Group

LEMMA ActedFollowed ==
    ASSUME DataInv, FollowInv, NEW p \in Shells, NEW r, Acted(running[p], r)
    PROVE  CommandFollowed(epochs', Sent(file), r)
<1> DEFINE s == running[p]
           u == s.cmd.user
           sent == Sent(file)
<1>1. PICK outs :
         /\ Performed(s, r, outs)
         /\ \/ NewKey(s, outs) \/ NewGroup(s, outs) \/ NewCommit(s, outs)
            \/ Joined(s, outs) \/ Applied(s, outs)
    BY DEF Acted
<1>2. Performed(s, r, outs)
    BY <1>1
<1>3. file' = file /\ s # Idle /\ r.got = s.got
    BY <1>2, PerformedFields
<1>4. r.outs = outs
  <2>1. r = [s EXCEPT !.step = "writes", !.outs = outs]
      BY <1>2 DEF Performed
  <2>2. s \in Running
      BY <1>3, CommandAt
  <2> QED
      BY <2>1, <2>2 DEF Running
<1>5. /\ Recorded(owner, epochs) /\ Recorded(owner', epochs') /\ Longer(epochs, epochs')
      /\ InOrder(owner, epochs, s)
    BY <1>3, ActedData, CommandAt DEF DataInv
<1>6. CommandFollowed(epochs, sent, s)
    BY <1>3 DEF FollowInv
<1>7. CommandFollowed(epochs', sent, s)
    BY <1>5, <1>6, CommandFollowedStill
<1>8. SUFFICES \A i \in DOMAIN outs : StateFollowed(epochs', sent, outs[i][2])
    BY <1>3, <1>4, <1>7 DEF CommandFollowed
<1> HIDE DEF sent
<1>9. CASE NewKey(s, outs)
  <2>1. PICK k : outs = <<<<Priv(u), <<"key", k>>>>, <<Pub(u), <<"key", k>>>>>>
      BY <1>9 DEF NewKey
  <2>2. \A i \in DOMAIN outs : outs[i][2][1] = "key"
      BY <2>1
  <2> QED
      BY <2>2 DEF StateFollowed
<1>10. ASSUME NEW e, NEW k, NEW st, outs = <<<<State(u), st>>>>, st[2].epoch = e, st[2].key = k,
              \A x : x.epoch = e /\ x.key = k => Followed(epochs', sent, x)
       PROVE  \A i \in DOMAIN outs : StateFollowed(epochs', sent, outs[i][2])
  <2>1. \A i \in DOMAIN outs : outs[i][2] = st
      BY <1>10
  <2> QED
      BY <1>10, <2>1 DEF StateFollowed
<1>11. CASE NewGroup(s, outs)
  <2> DEFINE n == Len(epochs) + 1
  <2>1. PICK k \in DOMAIN owner, x \in Epoch :
           /\ n \in Epochs
           /\ outs = <<<<State(u), Group(n, k, TRUE, {})>>>>
           /\ epochs' = Append(epochs, x) /\ x.from = 0
    <3>1. PICK k \in DOMAIN owner :
           /\ n \in Epochs
           /\ outs = <<<<State(u), Group(n, k, TRUE, {})>>>>
           /\ epochs' = Append(epochs, [from |-> 0, by |-> k, roster |-> {k}, added |-> 0])
        BY <1>11 DEF NewGroup, NewEpoch
    <3>2. [from |-> 0, by |-> k, roster |-> {k}, added |-> 0] \in Epoch
        BY KeysOwned, CommandLineAssumption DEF Epoch
    <3> QED
        BY <3>1, <3>2
  <2>2. n \in DOMAIN epochs' /\ epochs'[n] = x
      BY <1>5, <2>1 DEF Recorded
  <2>3. \A y : y.epoch = n /\ y.key = k => Followed(epochs', sent, y)
      BY <1>5, <2>1, <2>2, FollowedFirst
  <2>4. PICK st : st = Group(n, k, TRUE, {})
      OBVIOUS
  <2>7. st[2].epoch = n /\ st[2].key = k
      BY <2>4 DEF Group
  <2>8. outs = <<<<State(u), st>>>>
      BY <2>1, <2>4, Zenon
  <2> HIDE DEF n
  <2> QED
      BY <1>10, <2>3, <2>7, <2>8
<1>12. CASE Joined(s, outs)
  <2>1. PICK e \in DOMAIN epochs, k \in DOMAIN owner :
           /\ k = epochs[e].added /\ epochs' = epochs
           /\ outs = <<<<State(u), Group(e, k, TRUE, {})>>>>
      BY <1>12 DEF Joined
  <2>2. k # 0
      BY KeysOwned DEF Keys
  <2>3. \A y : y.epoch = e /\ y.key = k => Followed(epochs', sent, y)
      BY <1>5, <2>1, <2>2, FollowedInvited
  <2>4. PICK st : st = Group(e, k, TRUE, {})
      OBVIOUS
  <2>7. st[2].epoch = e /\ st[2].key = k
      BY <2>4 DEF Group
  <2>8. outs = <<<<State(u), st>>>>
      BY <2>1, <2>4, Zenon
  <2> QED
      BY <1>10, <2>3, <2>7, <2>8
<1>13. CASE Applied(s, outs)
  <2>1. PICK e \in DOMAIN epochs, g \in GroupState :
           /\ {1, 2} \subseteq DOMAIN s.got
           /\ s.got[1] = <<"group", g>> /\ s.got[2] = <<"commit", e>>
           /\ g.epoch \in DOMAIN epochs /\ epochs[e].from = g.epoch
           /\ outs = <<<<State(u), Group(e, g.key, TRUE, {})>>>>
           /\ epochs' = epochs
      BY <1>13 DEF Applied
  <2>2. e \in Epochs
      BY <1>5, EpochFields
  <2>3. e \in sent
      BY <1>6, <2>1, <2>2 DEF CommandFollowed
  <2>4. Followed(epochs, sent, g)
    <3>1. StateFollowed(epochs, sent, s.got[1])
        BY <1>6, <2>1 DEF CommandFollowed
    <3> QED
        BY <2>1, <3>1 DEF StateFollowed
  <2>5. \A y : y.epoch = e /\ y.key = g.key => Followed(epochs', sent, y)
      BY <1>5, <2>1, <2>3, <2>4, FollowedNext
  <2>6. PICK st : st = Group(e, g.key, TRUE, {})
      OBVIOUS
  <2>7. st[2].epoch = e /\ st[2].key = g.key
      BY <2>6 DEF Group
  <2>8. outs = <<<<State(u), st>>>>
      BY <2>1, <2>6, Zenon
  <2> QED
      BY <1>10, <2>5, <2>7, <2>8
<1>14. CASE NewCommit(s, outs)
  <2> DEFINE n == Len(epochs) + 1
  <2>1. PICK g \in GroupState, x \in Epoch, leaf \in BOOLEAN, used \in SUBSET Keys :
           Commits(s, outs, g, x, leaf, used)
      BY <1>14 DEF NewCommit
  <2>2. /\ 1 \in DOMAIN s.got /\ s.got[1] = <<"group", g>>
        /\ g.epoch \in DOMAIN epochs /\ x.from = g.epoch /\ x.by = g.key
        /\ epochs' = Append(epochs, x)
      BY <2>1 DEF Commits
  <2>3. outs = IF x.added = 0
               THEN <<<<State(u), Group(n, g.key, leaf, used)>>, <<CommitFile(n), <<"commit", n>>>>>>
               ELSE <<<<State(u), Group(n, g.key, leaf, used)>>,
                      <<WelcomeFile(n), <<"welcome", n, x.added>>>>,
                      <<CommitFile(n), <<"commit", n>>>>>>
      BY <2>1 DEF Commits, NewEpoch
  <2>4. n \in DOMAIN epochs' /\ epochs'[n] = x /\ g.epoch \in DOMAIN epochs'
      BY <1>5, <2>2 DEF Recorded
  <2>5. Followed(epochs', sent, g)
    <3>1. StateFollowed(epochs', sent, s.got[1])
        BY <1>7, <2>2 DEF CommandFollowed
    <3> QED
        BY <2>2, <3>1 DEF StateFollowed
  <2>6. \A y : y.epoch = n /\ y.key = g.key => Followed(epochs', sent, y)
      BY <1>5, <2>2, <2>4, <2>5, FollowedNext
  <2> DEFINE st == Group(n, g.key, leaf, used)
  <2>7. st[2].epoch = n /\ st[2].key = g.key
      BY GroupContent
  <2>8. \A i \in DOMAIN outs : outs[i][2] = st \/ outs[i][2][1] \in {"welcome", "commit"}
    <3>1. CASE x.added = 0
        BY <2>3, <3>1
    <3>2. CASE x.added # 0
        BY <2>3, <3>2
    <3> QED
        BY <3>1, <3>2
  <2> HIDE DEF st
  <2> QED
      BY <2>6, <2>7, <2>8 DEF StateFollowed
<1> QED
    BY <1>1, <1>9, <1>11, <1>12, <1>13, <1>14

LEMMA StepsFollowed ==
    ASSUME DataInv, FollowInv, NEW p \in Shells, NEW r, Steps(running[p], r), r # Idle
    PROVE  CommandFollowed(epochs', Sent(file'), r)
<1> DEFINE s == running[p]
<1>0. SentOnce
    BY DEF FollowInv
<1>1. Sent(file) \subseteq Sent(file')
    BY <1>0, SentStill
<1>2. s # Idle => CommandFollowed(epochs, Sent(file), s)
    BY DEF FollowInv
<1>3. CASE Started(s, r)
  <2>1. r.got = <<>> /\ r.outs = <<>>
      BY <1>3 DEF Started
  <2>2. DOMAIN r.got = {} /\ DOMAIN r.outs = {}
      BY <2>1
  <2> QED
      BY <2>2 DEF CommandFollowed
<1>4. CASE HasRead(s, r)
  <2> DEFINE n == Len(s.got) + 1
             path == s.cmd.ins[n]
  <2>1. s # Idle /\ r.outs = <<>> /\ file' = file /\ epochs' = epochs
      BY <1>4, HasReadFields
  <2>2. /\ path \in Paths /\ file[path] \notin {Absent, Empty}
        /\ DOMAIN r.got = DOMAIN s.got \cup {n}
        /\ r.got[n] = file[path]
        /\ \A i \in DOMAIN s.got : r.got[i] = s.got[i]
      BY <1>4, HasReadFields
  <2>3. CommandFollowed(epochs, Sent(file), s)
      BY <1>2, <2>1
  <2>4. Fits(owner, epochs, path, file[path]) /\ StateFollowed(epochs, Sent(file), file[path])
      BY <2>2 DEF DataInv, FollowInv, IsWhole
  <2>5. \A e \in Epochs : file[path] = <<"commit", e>> => e \in Sent(file)
      BY <2>2, <2>4, FitsCommitContent DEF Sent
  <2>6. DOMAIN r.outs = {}
      BY <2>1
  <2> HIDE DEF path, n
  <2> QED
      BY <2>1, <2>2, <2>3, <2>4, <2>5, <2>6 DEF CommandFollowed
<1>5. CASE Stopped(s, r)
    BY <1>5 DEF Stopped
<1>6. CASE Truncated(s, r) \/ Written(s, r)
  <2>1. /\ s # Idle /\ epochs' = epochs /\ r.got = s.got
        /\ \A i \in DOMAIN r.outs : \E j \in DOMAIN s.outs : r.outs[i] = s.outs[j]
    <3>1. CASE Truncated(s, r)
        BY <3>1, TruncatedFields
    <3>2. CASE Written(s, r)
      <4>1. s # Idle /\ epochs' = epochs
          BY <3>2, WrittenFields
      <4>2. /\ r.got = s.got
            /\ \A i \in DOMAIN r.outs : i + 1 \in DOMAIN s.outs /\ r.outs[i] = s.outs[i + 1]
          BY <3>2, WrittenFields
      <4> QED
          BY <4>1, <4>2
    <3> QED
        BY <1>6, <3>1, <3>2
  <2>2. CommandFollowed(epochs, Sent(file), r)
      BY <1>2, <2>1 DEF CommandFollowed
  <2>3. Recorded(owner, epochs) /\ InOrder(owner', epochs', r) /\ owner' = owner
    <3>1. owner' = owner
        BY <1>6 DEF Truncated, Written
    <3> QED
        BY <3>1, StepsData DEF DataInv
  <2> QED
      BY <1>1, <2>1, <2>2, <2>3, CommandFollowedStill, SameLonger
<1>7. CASE Acted(s, r)
  <2>1. file' = file
      BY <1>7, ActedData
  <2> QED
      BY <1>7, <2>1, ActedFollowed
<1> QED
    BY <1>3, <1>4, <1>5, <1>6, <1>7 DEF Steps

LEMMA StepFollowInv ==
    ASSUME DataInv, FollowInv, [Next]_vars PROVE FollowInv'
<1>1. CASE UNCHANGED vars
    BY <1>1 DEF vars, FollowInv, SentOnce, IsWhole
<1>2. ASSUME NEW p \in Shells, NEW r, GoesOn(p, r), Steps(running[p], r)
      PROVE  FollowInv'
  <2>1. running'[p] = r /\ \A q \in Shells \ {p} : running'[q] = running[q]
      BY <1>2, GoesOnFrame
  <2>2. SentOnce /\ Recorded(owner, epochs)
      BY DEF FollowInv, DataInv
  <2>3. SentOnce'
      BY <1>2, <2>2, StepSentOnce
  <2>4. Sent(file) \subseteq Sent(file')
      BY <1>2, <2>2, SentStill
  <2>5. Recorded(owner', epochs') /\ Longer(epochs, epochs')
      BY <1>2, StepsData
  <2>6. ASSUME NEW path \in Paths PROVE StateFollowed(epochs', Sent(file'), file'[path])
    <3>1. CASE file'[path] = file[path]
      <4>1. Fits(owner, epochs, path, file[path]) \/ file[path] \in {Absent, Empty}
          BY DEF DataInv, IsWhole
      <4>2. StateFollowed(epochs, Sent(file), file[path])
          BY DEF FollowInv
      <4> QED
          BY <2>2, <2>4, <2>5, <3>1, <4>1, <4>2, StateFollowedStill
    <3>2. CASE file'[path] # file[path]
      <4>1. /\ running[p] # Idle /\ 1 \in DOMAIN running[p].outs
            /\ file'[path] = Empty \/ file'[path] = running[p].outs[1][2]
            /\ epochs' = epochs
          BY <1>2, <3>2, WritesOwn
      <4>2. /\ CommandFollowed(epochs, Sent(file), running[p]) /\ InOrder(owner, epochs, running[p])
          BY <4>1 DEF FollowInv, DataInv
      <4>3. /\ StateFollowed(epochs, Sent(file), running[p].outs[1][2])
            /\ Fits(owner, epochs, running[p].outs[1][1], running[p].outs[1][2])
          BY <4>1, <4>2 DEF CommandFollowed, InOrder
      <4>4. StateFollowed(epochs', Sent(file'), running[p].outs[1][2])
          BY <2>2, <2>4, <2>5, <4>3, StateFollowedStill
      <4>5. StateFollowed(epochs', Sent(file'), Empty)
          BY DEF StateFollowed, Empty
      <4> QED
          BY <4>1, <4>4, <4>5
    <3> QED
        BY <3>1, <3>2
  <2>7. ASSUME NEW q \in Shells, running'[q] # Idle
        PROVE  CommandFollowed(epochs', Sent(file'), running'[q])
    <3>1. CASE q = p
        BY <1>2, <2>1, <2>7, <3>1, StepsFollowed
    <3>2. CASE q # p
      <4>1. running'[q] = running[q]
          BY <2>1, <3>2
      <4>2. CommandFollowed(epochs, Sent(file), running[q]) /\ InOrder(owner, epochs, running[q])
          BY <2>7, <4>1 DEF FollowInv, DataInv
      <4> QED
          BY <2>2, <2>4, <2>5, <4>1, <4>2, CommandFollowedStill
    <3> QED
        BY <3>1, <3>2
  <2> QED
      BY <2>3, <2>6, <2>7 DEF FollowInv
<1> QED
    BY <1>1, <1>2, StepKinds

LEMMA InitFollowInv ==
    ASSUME Init PROVE FollowInv
<1>1. file = [path \in Paths |-> Absent] /\ running = [p \in Shells |-> Idle]
    BY DEF Init
<1>2. SentOnce
    BY <1>1 DEF SentOnce, Sends
<1>3. \A path \in Paths : StateFollowed(epochs, Sent(file), file[path])
    BY <1>1 DEF StateFollowed, Absent
<1> QED
    BY <1>1, <1>2, <1>3 DEF FollowInv

LEMMA FollowedAheadAlone ==
    ASSUME DataInv, FollowInv PROVE AheadAlone
<1> SUFFICES ASSUME NEW u \in Users, Standing(u),
                    NEW a \in Line(At(u).epoch),
                    epochs[a].from # 0 /\ epochs[a].by # At(u).key,
                    At(u).key \in epochs[epochs[a].from].roster,
                    \A b \in Line(At(u).epoch) : b >= a => At(u).key \in epochs[b].roster
             PROVE  IsWhole(CommitFile(a))
    BY DEF AheadAlone
<1>1. State(u) \in Paths
    BY PathTypes
<1>2. StateOf(owner, epochs, u, file[State(u)])
    BY <1>1, FitsState DEF DataInv, Standing
<1>3. file[State(u)][1] = "group"
    BY <1>2 DEF StateOf
<1>4. Followed(epochs, Sent(file), At(u))
    BY <1>1, <1>3 DEF FollowInv, StateFollowed, At
<1>5. a \in Sent(file)
    BY <1>4 DEF Followed, Line
<1> QED
    BY <1>5 DEF Sent, IsWhole

\* cli.py: wherever commands are cut off, and also where they run at once,
\* nobody but its committer, and those invited afterwards, is on an epoch, or
\* beyond one, whose commit never got written.
THEOREM LostCommitLeavesCommitterAlone ==
    Spec => []AheadAlone
<1>1. Init => FollowInv
    BY InitFollowInv
<1>2. DataInv /\ FollowInv /\ [Next]_vars => FollowInv'
    BY StepFollowInv
<1>3. DataInv /\ FollowInv => AheadAlone
    BY FollowedAheadAlone
<1> QED
    BY <1>1, <1>2, <1>3, AlwaysDataInv, PTL DEF Spec

-----------------------------------------------------------------------------
(* Commands one after the other *)

Full(f, path) == f[path] \notin {Absent, Empty}

\* What is published is published of an epoch that was made.
LEMMA PublishedMade ==
    ASSUME DataInv, NEW e \in Epochs, Published(file, e) PROVE e \in DOMAIN epochs
BY SendsMade, PathTypes DEF Published

\* A state stays behind nothing when no more is published.
LEMMA CoversStill ==
    ASSUME NEW os, NEW es, Recorded(os, es), NEW os2, NEW es2, Recorded(os2, es2),
           Longer(os, os2), Longer(es, es2),
           NEW f, NEW f2, \A e \in DOMAIN es2 : Published(f2, e) => e \in DOMAIN es /\ Published(f, e),
           NEW u, NEW n \in DOMAIN es, Covers(os, es, f, u, n)
    PROVE  Covers(os2, es2, f2, u, n)
<1> SUFFICES ASSUME NEW e \in DOMAIN es2, os2[es2[e].by] = u, Published(f2, e)
             PROVE  e \in Ancestry(es2)[n]
    BY DEF Covers
<1>1. e \in DOMAIN es /\ Published(f, e)
    OBVIOUS
<1>2. es2[e] = es[e] /\ es[e].by \in DOMAIN os
    BY <1>1, EpochFields DEF Longer
<1>3. os[es[e].by] = u
    BY <1>2 DEF Longer
<1>4. e \in Ancestry(es)[n]
    BY <1>1, <1>3 DEF Covers
<1> QED
    BY <1>4, LineStill

LEMMA NothingStill ==
    ASSUME NEW os, NEW es, Recorded(os, es), NEW os2, NEW es2, Recorded(os2, es2),
           Longer(os, os2), Longer(es, es2),
           NEW f, NEW f2, \A e \in DOMAIN es2 : Published(f2, e) => e \in DOMAIN es /\ Published(f, e),
           NEW u, \A e \in DOMAIN es : os[es[e].by] = u => ~ Published(f, e)
    PROVE  \A e \in DOMAIN es2 : os2[es2[e].by] = u => ~ Published(f2, e)
<1> SUFFICES ASSUME NEW e \in DOMAIN es2, os2[es2[e].by] = u, Published(f2, e)
             PROVE  FALSE
    OBVIOUS
<1>1. e \in DOMAIN es /\ Published(f, e)
    OBVIOUS
<1>2. es2[e] = es[e] /\ es[e].by \in DOMAIN os
    BY <1>1, EpochFields DEF Longer
<1>3. os[es[e].by] = u
    BY <1>2 DEF Longer
<1> QED
    BY <1>1, <1>3

\* Where a state or a key package is, and what is in it.
LEMMA StateContent ==
    ASSUME NEW os, NEW es, NEW u, NEW c, Fits(os, es, State(u), c)
    PROVE  c[2].epoch \in DOMAIN es
<1>1. StateOf(os, es, u, c)
    BY FitsState
<1> QED
    BY <1>1 DEF StateOf

LEMMA KeyContent ==
    ASSUME NEW os, NEW es, Recorded(os, es), NEW u, NEW c,
           Fits(os, es, Priv(u), c) \/ Fits(os, es, Pub(u), c)
    PROVE  c[2] \in DOMAIN os /\ c[2] \in Nat /\ c[2] <= Len(os)
<1>1. KeyOf(os, u, c)
    BY FitsKey
<1>2. c[2] \in DOMAIN os
    BY <1>1 DEF KeyOf
<1>3. os \in Seq(Users)
    BY DEF Recorded
<1> QED
    BY <1>2, <1>3

\* Which output can be what.
LEMMA OutputsApart ==
    ASSUME NEW os, NEW es, NEW f, NEW s, InOrder(os, es, s), KeyNext(f, s),
           NEW i \in DOMAIN s.outs, NEW u \in Users
    PROVE  /\ s.outs[i][1] = State(u) => i = 1
           /\ s.outs[i][1] = Priv(u) => i = 1
BY DEF InOrder, KeyNext

\* A file emptied takes nothing from what the others say.
LEMMA TruncatedOrderly ==
    ASSUME NEW os, NEW es, Recorded(os, es), NEW f, NEW f2, NEW s, NEW r,
           InOrder(os, es, s), r.outs = s.outs, r.step = "writes",
           Tidy(os, es, f, s), Orderly(os, es, f),
           \A path \in Paths : f2[path] = IF path = s.outs[1][1] THEN Empty ELSE f[path]
    PROVE  Tidy(os, es, f2, r) /\ Orderly(os, es, f2)
<1> DEFINE h == s.outs[1][1]
<1>1. \A path \in Paths : f2[path] = f[path] \/ f2[path] = Empty
    OBVIOUS
<1>2. \A path \in Paths : path # h => f2[path] = f[path]
    OBVIOUS
<1>3. Empty # Absent
    BY DEF Empty, Absent
<1>4. \A e \in DOMAIN es : Published(f2, e) => Published(f, e)
    BY <1>1, EpochFields, PathTypes DEF Published
<1> HIDE DEF h
<1>5. ASSUME NEW u, NEW n, Covers(os, es, f, u, n) PROVE Covers(os, es, f2, u, n)
    BY <1>4, <1>5 DEF Covers
<1>6. Orderly(os, es, f2)
  <2> SUFFICES ASSUME NEW u \in Users
               PROVE  /\ f2[State(u)] = Absent => \A e \in DOMAIN es : os[es[e].by] = u => ~ Published(f2, e)
                      /\ Full(f2, State(u)) => Covers(os, es, f2, u, f2[State(u)][2].epoch)
                      /\ Full(f2, Pub(u)) /\ Full(f2, Priv(u)) => f2[Priv(u)][2] >= f2[Pub(u)][2]
      BY DEF Orderly, Full
  <2>1. State(u) \in Paths /\ Pub(u) \in Paths /\ Priv(u) \in Paths
      BY PathTypes
  <2>2. /\ f[State(u)] = Absent => \A e \in DOMAIN es : os[es[e].by] = u => ~ Published(f, e)
        /\ Full(f, State(u)) => Covers(os, es, f, u, f[State(u)][2].epoch)
        /\ Full(f, Pub(u)) /\ Full(f, Priv(u)) => f[Priv(u)][2] >= f[Pub(u)][2]
      BY DEF Orderly, Full
  <2>3. \A path \in Paths : f2[path] = Absent \/ Full(f2, path) => f2[path] = f[path]
      BY <1>1, <1>3 DEF Full
  <2>4. f2[State(u)] = Absent => \A e \in DOMAIN es : os[es[e].by] = u => ~ Published(f2, e)
      BY <1>4, <2>1, <2>2, <2>3
  <2>5. Full(f2, State(u)) => Covers(os, es, f2, u, f2[State(u)][2].epoch)
    <3>1. Full(f2, State(u)) => f2[State(u)] = f[State(u)] /\ Full(f, State(u))
        BY <2>1, <2>3 DEF Full
    <3> QED
        BY <1>5, <2>2, <3>1
  <2>6. Full(f2, Pub(u)) /\ Full(f2, Priv(u)) => f2[Priv(u)][2] >= f2[Pub(u)][2]
    <3>1. /\ Full(f2, Pub(u)) => f2[Pub(u)] = f[Pub(u)] /\ Full(f, Pub(u))
          /\ Full(f2, Priv(u)) => f2[Priv(u)] = f[Priv(u)] /\ Full(f, Priv(u))
        BY <2>1, <2>3 DEF Full
    <3> QED
        BY <2>2, <3>1
  <2> QED
      BY <2>4, <2>5, <2>6
<1>7. StateNext(os, es, f2, r)
  <2> SUFFICES ASSUME NEW i \in DOMAIN s.outs
               PROVE  /\ \A u \in Users : s.outs[i][1] = State(u) =>
                            Covers(os, es, f2, u, s.outs[i][2][2].epoch)
                      /\ \A e \in Epochs : s.outs[i][1] \in {CommitFile(e), WelcomeFile(e)} =>
                            LET u == os[es[e].by] IN
                            IF h = State(u)
                            THEN s.outs[1][2][2].epoch = e
                            ELSE f2[State(u)] \notin {Absent, Empty} /\ f2[State(u)][2].epoch = e
      BY DEF StateNext, h
  <2>1. \A u \in Users : s.outs[i][1] = State(u) => Covers(os, es, f2, u, s.outs[i][2][2].epoch)
      BY <1>5 DEF Tidy, StateNext
  <2>2. ASSUME NEW e \in Epochs, s.outs[i][1] \in {CommitFile(e), WelcomeFile(e)}
        PROVE  State(os[es[e].by]) \in Paths
    <3>1. Fits(os, es, s.outs[i][1], s.outs[i][2])
        BY DEF InOrder
    <3>2. e \in DOMAIN es
        BY <2>2, <3>1, FitsCommit, FitsWelcome DEF CommitOf, WelcomeOf
    <3>3. es[e].by \in DOMAIN os
        BY <3>2, EpochFields
    <3>4. os[es[e].by] \in Users
        BY <3>3 DEF Recorded
    <3> QED
        BY <3>4, PathTypes
  <2>3. ASSUME NEW e \in Epochs, s.outs[i][1] \in {CommitFile(e), WelcomeFile(e)}
        PROVE  IF h = State(os[es[e].by])
               THEN s.outs[1][2][2].epoch = e
               ELSE f2[State(os[es[e].by])] \notin {Absent, Empty} /\ f2[State(os[es[e].by])][2].epoch = e
    <3>1. IF h = State(os[es[e].by])
          THEN s.outs[1][2][2].epoch = e
          ELSE f[State(os[es[e].by])] \notin {Absent, Empty} /\ f[State(os[es[e].by])][2].epoch = e
        BY <2>3 DEF Tidy, StateNext, h
    <3>2. h # State(os[es[e].by]) => f2[State(os[es[e].by])] = f[State(os[es[e].by])]
        BY <1>2, <2>2, <2>3
    <3> QED
        BY <3>1, <3>2
  <2> QED
      BY <2>1, <2>3
<1>8. KeyNext(f2, r)
  <2> SUFFICES ASSUME NEW i \in DOMAIN s.outs, NEW u \in Users
               PROVE  /\ s.outs[i][1] = Priv(u) =>
                            i = 1 /\ (Full(f2, Pub(u)) => s.outs[i][2][2] >= f2[Pub(u)][2])
                      /\ s.outs[i][1] = Pub(u) =>
                            IF h = Priv(u) THEN s.outs[1][2] = s.outs[i][2]
                            ELSE f2[Priv(u)] = s.outs[i][2]
      BY DEF KeyNext, h, Full
  <2>1. /\ s.outs[i][1] = Priv(u) =>
             i = 1 /\ (Full(f, Pub(u)) => s.outs[i][2][2] >= f[Pub(u)][2])
        /\ s.outs[i][1] = Pub(u) =>
             IF h = Priv(u) THEN s.outs[1][2] = s.outs[i][2] ELSE f[Priv(u)] = s.outs[i][2]
      BY DEF Tidy, KeyNext, h, Full
  <2>2. Full(f2, Pub(u)) => Full(f, Pub(u)) /\ f2[Pub(u)] = f[Pub(u)]
      BY <1>1, PathTypes DEF Full
  <2>3. h # Priv(u) => f2[Priv(u)] = f[Priv(u)]
      BY <1>2, PathTypes
  <2> QED
      BY <2>1, <2>2, <2>3
<1>9. ReadsNow(f2, r)
    BY DEF ReadsNow
<1> QED
    BY <1>6, <1>7, <1>8, <1>9 DEF Tidy

\* A file written is one that its user may have by then.
LEMMA WrittenOrderly ==
    ASSUME NEW os, NEW es, Recorded(os, es), NEW f, NEW f2, NEW s,
           InOrder(os, es, s), 1 \in DOMAIN s.outs,
           Tidy(os, es, f, s), Orderly(os, es, f),
           \A path \in Paths : Full(f, path) => Fits(os, es, path, f[path]),
           \A path \in Paths : f2[path] = IF path = s.outs[1][1] THEN s.outs[1][2] ELSE f[path]
    PROVE  Orderly(os, es, f2)
<1> DEFINE h == s.outs[1][1]
           c == s.outs[1][2]
<1>1. Fits(os, es, h, c)
    BY DEF InOrder
<1>2. h \in Paths /\ c \notin {Absent, Empty}
    BY <1>1, FitsWhole
<1>3. \A path \in Paths : path # h => f2[path] = f[path]
    OBVIOUS
<1>4. f2[h] = c
    BY <1>2
<1> SUFFICES ASSUME NEW u \in Users
             PROVE  /\ f2[State(u)] = Absent => \A e \in DOMAIN es : os[es[e].by] = u => ~ Published(f2, e)
                    /\ Full(f2, State(u)) => Covers(os, es, f2, u, f2[State(u)][2].epoch)
                    /\ Full(f2, Pub(u)) /\ Full(f2, Priv(u)) => f2[Priv(u)][2] >= f2[Pub(u)][2]
    BY DEF Orderly, Full
<1>5. State(u) \in Paths /\ Pub(u) \in Paths /\ Priv(u) \in Paths
    BY PathTypes
<1>6. /\ f[State(u)] = Absent => \A e \in DOMAIN es : os[es[e].by] = u => ~ Published(f, e)
      /\ Full(f, State(u)) => Covers(os, es, f, u, f[State(u)][2].epoch)
      /\ Full(f, Pub(u)) /\ Full(f, Priv(u)) => f[Priv(u)][2] >= f[Pub(u)][2]
    BY DEF Orderly, Full
<1>7. /\ h = State(u) => Covers(os, es, f, u, c[2].epoch)
      /\ h = Priv(u) => (Full(f, Pub(u)) => c[2] >= f[Pub(u)][2])
      /\ h = Pub(u) => (h # Priv(u) => f[Priv(u)] = c)
    BY DEF Tidy, StateNext, KeyNext, Full
<1>8. ASSUME NEW e \in DOMAIN es, os[es[e].by] = u, h \in {CommitFile(e), WelcomeFile(e)}
      PROVE  h # State(u) /\ Full(f, State(u)) /\ f[State(u)][2].epoch = e
  <2>1. h # State(u)
      BY <1>8, PathsApart
  <2>2. e \in Epochs
      BY EpochFields
  <2>3. IF h = State(os[es[e].by])
        THEN c[2].epoch = e
        ELSE f[State(os[es[e].by])] \notin {Absent, Empty} /\ f[State(os[es[e].by])][2].epoch = e
      BY <1>8, <2>2 DEF Tidy, StateNext
  <2> QED
      BY <1>8, <2>1, <2>3 DEF Full
<1>9. \A e \in DOMAIN es : Published(f2, e) => Published(f, e) \/ h \in {CommitFile(e), WelcomeFile(e)}
    BY <1>3, EpochFields, PathTypes DEF Published
<1> HIDE DEF h, c
<1>10. f2[State(u)] = Absent => \A e \in DOMAIN es : os[es[e].by] = u => ~ Published(f2, e)
  <2> SUFFICES ASSUME f2[State(u)] = Absent, NEW e \in DOMAIN es, os[es[e].by] = u, Published(f2, e)
               PROVE  FALSE
      OBVIOUS
  <2>1. h # State(u) /\ f[State(u)] = Absent
      BY <1>2, <1>3, <1>4, <1>5
  <2>2. h \in {CommitFile(e), WelcomeFile(e)}
      BY <1>6, <1>9, <2>1
  <2> QED
      BY <1>8, <2>1, <2>2 DEF Full
<1>11. ASSUME Full(f2, State(u)) PROVE Covers(os, es, f2, u, f2[State(u)][2].epoch)
  <2>1. CASE h = State(u)
    <3>1. \A e \in DOMAIN es : Published(f2, e) => Published(f, e)
        BY <1>9, <2>1, PathsApart
    <3> QED
        BY <1>4, <1>7, <2>1, <3>1 DEF Covers
  <2>2. CASE h # State(u)
    <3>1. f2[State(u)] = f[State(u)] /\ Full(f, State(u))
        BY <1>3, <1>5, <1>11, <2>2 DEF Full
    <3>2. f[State(u)][2].epoch \in DOMAIN es
        BY <1>5, <3>1, StateContent
    <3>3. ASSUME NEW e \in DOMAIN es, os[es[e].by] = u, Published(f2, e)
          PROVE  e \in Ancestry(es)[f[State(u)][2].epoch]
      <4>1. CASE Published(f, e)
          BY <1>6, <3>1, <3>3, <4>1 DEF Covers
      <4>2. CASE h \in {CommitFile(e), WelcomeFile(e)}
        <5>1. f[State(u)][2].epoch = e
            BY <1>8, <3>3, <4>2
        <5> QED
            BY <5>1, LineFacts
      <4> QED
          BY <1>9, <3>3, <4>1, <4>2
    <3> QED
        BY <3>1, <3>3 DEF Covers
  <2> QED
      BY <2>1, <2>2
<1>12. ASSUME Full(f2, Pub(u)), Full(f2, Priv(u)) PROVE f2[Priv(u)][2] >= f2[Pub(u)][2]
  <2>1. CASE h = Priv(u)
    <3>1. f2[Priv(u)] = c /\ f2[Pub(u)] = f[Pub(u)]
        BY <1>3, <1>4, <1>5, <2>1, PathsApart
    <3> QED
        BY <1>7, <1>12, <2>1, <3>1 DEF Full
  <2>2. CASE h = Pub(u)
    <3>1. h # Priv(u)
        BY <2>2, PathsApart
    <3>2. f2[Pub(u)] = c /\ f2[Priv(u)] = f[Priv(u)] /\ f[Priv(u)] = c
        BY <1>3, <1>4, <1>5, <1>7, <2>2, <3>1
    <3>3. c[2] \in Nat
        BY <1>1, <2>2, KeyContent
    <3> QED
        BY <3>2, <3>3
  <2>3. CASE h # Priv(u) /\ h # Pub(u)
    <3>1. f2[Priv(u)] = f[Priv(u)] /\ f2[Pub(u)] = f[Pub(u)]
        BY <1>3, <1>5, <2>3
    <3> QED
        BY <1>6, <1>12, <3>1 DEF Full
  <2> QED
      BY <2>1, <2>2, <2>3
<1> QED
    BY <1>10, <1>11, <1>12

\* What is left to write may be written next.
LEMMA WrittenTidy ==
    ASSUME NEW os, NEW es, Recorded(os, es), NEW f, NEW f2, NEW s, NEW r,
           InOrder(os, es, s), 1 \in DOMAIN s.outs, r.step = "writes",
           DOMAIN r.outs \subseteq Nat \ {0},
           \A i \in DOMAIN r.outs : i + 1 \in DOMAIN s.outs /\ r.outs[i] = s.outs[i + 1],
           r.outs # <<>>, 1 \in DOMAIN r.outs,
           Tidy(os, es, f, s),
           \A path \in Paths : f2[path] = IF path = s.outs[1][1] THEN s.outs[1][2] ELSE f[path]
    PROVE  Tidy(os, es, f2, r)
<1> DEFINE h == s.outs[1][1]
           c == s.outs[1][2]
<1>1. Fits(os, es, h, c)
    BY DEF InOrder
<1>2. h \in Paths /\ c \notin {Absent, Empty}
    BY <1>1, FitsWhole
<1>3. \A path \in Paths : path # h => f2[path] = f[path]
    OBVIOUS
<1>4. f2[h] = c
    BY <1>2
<1>5. ASSUME NEW i \in DOMAIN r.outs, NEW u \in Users
      PROVE  r.outs[i][1] # State(u) /\ r.outs[i][1] # Priv(u)
  <2>1. i + 1 \in DOMAIN s.outs /\ r.outs[i] = s.outs[i + 1] /\ i + 1 # 1
      OBVIOUS
  <2>2. KeyNext(f, s)
      BY DEF Tidy
  <2> QED
      BY <2>1, <2>2, OutputsApart
<1>6. ReadsNow(f2, r)
    BY DEF ReadsNow
<1>7. ASSUME NEW i \in DOMAIN r.outs, NEW e \in Epochs,
             r.outs[i][1] \in {CommitFile(e), WelcomeFile(e)},
             NEW u, u = os[es[e].by]
      PROVE  /\ r.outs[1][1] # State(u)
             /\ Full(f2, State(u)) /\ f2[State(u)][2].epoch = e
  <2>1. i + 1 \in DOMAIN s.outs /\ r.outs[i] = s.outs[i + 1]
      OBVIOUS
  <2>2. Fits(os, es, r.outs[i][1], r.outs[i][2])
      BY <2>1 DEF InOrder
  <2>3. e \in DOMAIN es
      BY <1>7, <2>2, FitsCommit, FitsWelcome DEF CommitOf, WelcomeOf
  <2>4. es[e].by \in DOMAIN os
      BY <2>3, EpochFields
  <2>5. u \in Users
      BY <1>7, <2>4 DEF Recorded
  <2>6. IF h = State(u)
        THEN c[2].epoch = e
        ELSE f[State(u)] \notin {Absent, Empty} /\ f[State(u)][2].epoch = e
      BY <1>7, <2>1 DEF Tidy, StateNext
  <2>7. State(u) \in Paths
      BY <2>5, PathTypes
  <2> HIDE DEF h, c
  <2>8. Full(f2, State(u)) /\ f2[State(u)][2].epoch = e
      BY <1>2, <1>3, <1>4, <2>6, <2>7 DEF Full
  <2> QED
      BY <1>5, <2>5, <2>8
<1>8. StateNext(os, es, f2, r)
  <2>1. ASSUME NEW i \in DOMAIN r.outs, NEW e \in Epochs,
               r.outs[i][1] \in {CommitFile(e), WelcomeFile(e)}
        PROVE  LET u == os[es[e].by] IN
               IF r.outs[1][1] = State(u)
               THEN r.outs[1][2][2].epoch = e
               ELSE f2[State(u)] \notin {Absent, Empty} /\ f2[State(u)][2].epoch = e
      BY <1>7, <2>1 DEF Full
  <2> QED
      BY <1>5, <2>1 DEF StateNext
<1>9. ASSUME NEW i \in DOMAIN r.outs, NEW u \in Users, r.outs[i][1] = Pub(u)
      PROVE  r.outs[1][1] # Priv(u) /\ f2[Priv(u)] = r.outs[i][2]
  <2>1. i + 1 \in DOMAIN s.outs /\ r.outs[i] = s.outs[i + 1]
      OBVIOUS
  <2>2. IF h = Priv(u) THEN c = r.outs[i][2] ELSE f[Priv(u)] = r.outs[i][2]
      BY <1>9, <2>1 DEF Tidy, KeyNext
  <2> HIDE DEF h, c
  <2>3. f2[Priv(u)] = r.outs[i][2]
      BY <1>3, <1>4, <2>2, PathTypes
  <2> QED
      BY <1>5, <2>3
<1>10. KeyNext(f2, r)
    BY <1>5, <1>9 DEF KeyNext
<1> QED
    BY <1>6, <1>8, <1>10 DEF Tidy

\* A command that writes a state and nothing else.
LEMMA StateTidy ==
    ASSUME NEW os, NEW es, NEW f, NEW r, r.step = "writes", NEW u \in Users, NEW st,
           r.outs = <<<<State(u), st>>>>, Covers(os, es, f, u, st[2].epoch)
    PROVE  Tidy(os, es, f, r)
<1>1. \A i \in DOMAIN r.outs : r.outs[i][1] = State(u) /\ r.outs[i][2] = st
    OBVIOUS
<1>2. StateNext(os, es, f, r)
    BY <1>1, PathsApart DEF StateNext
<1>3. KeyNext(f, r)
    BY <1>1, PathsApart DEF KeyNext
<1>4. ReadsNow(f, r)
    BY DEF ReadsNow
<1> QED
    BY <1>2, <1>3, <1>4 DEF Tidy

\* An epoch has behind it what is behind the epoch it was made from.
LEMMA CoversNext ==
    ASSUME NEW os, NEW es, Recorded(os, es), NEW f, NEW u, NEW n \in DOMAIN es,
           Covers(os, es, f, u, es[n].from)
    PROVE  Covers(os, es, f, u, n)
BY LineFacts DEF Covers

LEMMA ActedTidy ==
    ASSUME DataInv, NEW p \in Shells, NEW r, Acted(running[p], r),
           Tidy(owner, epochs, file, running[p]), Orderly(owner, epochs, file)
    PROVE  Tidy(owner', epochs', file, r) /\ Orderly(owner', epochs', file)
<1> DEFINE s == running[p]
           u == s.cmd.user
<1>1. PICK outs :
         /\ Performed(s, r, outs)
         /\ \/ NewKey(s, outs) \/ NewGroup(s, outs) \/ NewCommit(s, outs)
            \/ Joined(s, outs) \/ Applied(s, outs)
    BY DEF Acted
<1>2. s # Idle /\ s.step = "reads" /\ u \in Users /\ InOrder(owner, epochs, s)
    BY <1>1, CommandAt DEF Performed
<1>3. r.step = "writes" /\ r.outs = outs
  <2>1. r = [s EXCEPT !.step = "writes", !.outs = outs]
      BY <1>1 DEF Performed
  <2>2. s \in Running
      BY <1>2, CommandAt
  <2> QED
      BY <2>1, <2>2 DEF Running
<1>4. /\ Recorded(owner, epochs) /\ Recorded(owner', epochs')
      /\ Longer(owner, owner') /\ Longer(epochs, epochs')
    BY ActedData DEF DataInv
<1>5. \A e \in DOMAIN epochs' : Published(file, e) => e \in DOMAIN epochs /\ Published(file, e)
    BY <1>4, EpochFields, PublishedMade
<1>6. \A path \in Paths : Full(file, path) => Fits(owner, epochs, path, file[path])
    BY DEF DataInv, IsWhole, Full
<1>7. ASSUME NEW v, NEW n \in DOMAIN epochs, Covers(owner, epochs, file, v, n)
      PROVE  Covers(owner', epochs', file, v, n)
    BY <1>4, <1>5, <1>7, CoversStill
<1>8. ASSUME NEW v, \A e \in DOMAIN epochs : owner[epochs[e].by] = v => ~ Published(file, e)
      PROVE  \A e \in DOMAIN epochs' : owner'[epochs'[e].by] = v => ~ Published(file, e)
    BY <1>4, <1>5, <1>8, NothingStill
<1>9. ASSUME NEW v \in Users
      PROVE  /\ file[State(v)] = Absent =>
                   \A e \in DOMAIN epochs : owner[epochs[e].by] = v => ~ Published(file, e)
             /\ Full(file, State(v)) => Covers(owner, epochs, file, v, file[State(v)][2].epoch)
             /\ Full(file, Pub(v)) /\ Full(file, Priv(v)) => file[Priv(v)][2] >= file[Pub(v)][2]
    BY DEF Orderly, Full
<1>10. Orderly(owner', epochs', file)
  <2> SUFFICES ASSUME NEW v \in Users
               PROVE  /\ file[State(v)] = Absent =>
                            \A e \in DOMAIN epochs' : owner'[epochs'[e].by] = v => ~ Published(file, e)
                      /\ Full(file, State(v)) =>
                            Covers(owner', epochs', file, v, file[State(v)][2].epoch)
                      /\ Full(file, Pub(v)) /\ Full(file, Priv(v)) =>
                            file[Priv(v)][2] >= file[Pub(v)][2]
      BY DEF Orderly, Full
  <2>1. Full(file, State(v)) => file[State(v)][2].epoch \in DOMAIN epochs
      BY <1>6, PathTypes, StateContent
  <2> QED
      BY <1>7, <1>8, <1>9, <2>1
\* The state that was read is the one that is there.
<1>11. ASSUME NEW g \in GroupState, 1 \in DOMAIN s.got, s.got[1] = <<"group", g>>,
              s.cmd.ins[1] = State(u), g.epoch \in DOMAIN epochs
       PROVE  Covers(owner', epochs', file, u, g.epoch)
  <2>1. file[State(u)] = <<"group", g>>
      BY <1>2, <1>11 DEF Tidy, ReadsNow
  <2>2. Full(file, State(u))
      BY <2>1 DEF Full, Absent, Empty
  <2>3. Covers(owner, epochs, file, u, g.epoch)
      BY <1>2, <1>9, <2>1, <2>2
  <2> QED
      BY <1>7, <1>11, <2>3
\* Who has no state has published nothing.
<1>12. ASSUME s.cmd.op \in {"create", "join"}, NEW n PROVE Covers(owner', epochs', file, u, n)
  <2>1. file[State(u)] = Absent
      BY <1>2, <1>12 DEF Tidy, ReadsNow
  <2>2. \A e \in DOMAIN epochs' : owner'[epochs'[e].by] = u => ~ Published(file, e)
      BY <1>2, <1>8, <1>9, <2>1
  <2> QED
      BY <2>2 DEF Covers
<1> HIDE DEF u
<1>13. ASSUME NEW e, NEW k, NEW leaf \in BOOLEAN, NEW used,
              outs = <<<<State(u), Group(e, k, leaf, used)>>>>,
              Covers(owner', epochs', file, u, e)
       PROVE  Tidy(owner', epochs', file, r)
  <2>1. PICK st : st = Group(e, k, leaf, used)
      OBVIOUS
  <2>2. st[2].epoch = e
      BY <2>1, GroupContent
  <2>3. outs = <<<<State(u), st>>>>
      BY <1>13, <2>1, Zenon
  <2> QED
      BY <1>2, <1>3, <1>13, <2>2, <2>3, StateTidy DEF u
<1>14. CASE NewKey(s, outs)
  <2> DEFINE k == Len(owner) + 1
  <2>1. outs = <<<<Priv(u), <<"key", k>>>>, <<Pub(u), <<"key", k>>>>>>
      BY <1>14 DEF NewKey, u
  <2>2. PICK c : c = <<"key", k>>
      OBVIOUS
  <2>3. outs = <<<<Priv(u), c>>, <<Pub(u), c>>>> /\ c[2] = k
      BY <2>1, <2>2
  <2>4. /\ outs[1][1] = Priv(u) /\ outs[1][2] = c
        /\ \A i \in DOMAIN outs : i = 1 \/ (outs[i][1] = Pub(u) /\ outs[i][2] = c)
      BY <2>3
  <2>5. Full(file, Pub(u)) => k >= file[Pub(u)][2]
    <3>1. Len(owner) \in Nat
        BY <1>4 DEF Recorded
    <3>2. Full(file, Pub(u)) => file[Pub(u)][2] \in Nat /\ file[Pub(u)][2] <= Len(owner)
        BY <1>2, <1>4, <1>6, PathTypes, KeyContent DEF u
    <3> QED
        BY <3>1, <3>2
  <2> HIDE DEF k
  <2>6. StateNext(owner', epochs', file, r)
      BY <1>3, <2>4, PathsApart DEF StateNext
  <2>7. KeyNext(file, r)
    <3> SUFFICES ASSUME NEW i \in DOMAIN outs, NEW v \in Users
                 PROVE  /\ outs[i][1] = Priv(v) =>
                              i = 1 /\ (Full(file, Pub(v)) => outs[i][2][2] >= file[Pub(v)][2])
                        /\ outs[i][1] = Pub(v) =>
                              IF outs[1][1] = Priv(v) THEN outs[1][2] = outs[i][2]
                              ELSE file[Priv(v)] = outs[i][2]
        BY <1>3 DEF KeyNext, Full
    <3>1. outs[i][1] = Priv(v) => i = 1 /\ v = u
        BY <2>4, PathsApart
    <3>2. outs[i][1] = Pub(v) => v = u /\ outs[i][2] = c
        BY <2>4, PathsApart
    <3> QED
        BY <2>3, <2>4, <2>5, <3>1, <3>2
  <2>8. ReadsNow(file, r)
      BY <1>3 DEF ReadsNow
  <2> QED
      BY <1>10, <2>6, <2>7, <2>8 DEF Tidy
<1>15. CASE NewGroup(s, outs)
  <2>1. PICK k : s.cmd.op = "create" /\ outs = <<<<State(u), Group(NewEpoch, k, TRUE, {})>>>>
      BY <1>15 DEF NewGroup, u
  <2> QED
      BY <1>10, <1>12, <1>13, <2>1
<1>16. CASE Joined(s, outs)
  <2>1. PICK e, k : s.cmd.op = "join" /\ outs = <<<<State(u), Group(e, k, TRUE, {})>>>>
      BY <1>16 DEF Joined, u
  <2> QED
      BY <1>10, <1>12, <1>13, <2>1
<1>17. CASE Applied(s, outs)
  <2>1. PICK e \in DOMAIN epochs, g \in GroupState :
           /\ 1 \in DOMAIN s.got /\ s.got[1] = <<"group", g>> /\ s.cmd.ins[1] = State(u)
           /\ g.epoch \in DOMAIN epochs /\ epochs[e].from = g.epoch
           /\ outs = <<<<State(u), Group(e, g.key, TRUE, {})>>>>
           /\ epochs' = epochs
      BY <1>17 DEF Applied, u
  <2>2. Covers(owner', epochs', file, u, g.epoch)
      BY <1>11, <2>1
  <2>3. Covers(owner', epochs', file, u, e)
      BY <1>4, <2>1, <2>2, CoversNext
  <2> QED
      BY <1>10, <1>13, <2>1, <2>3
<1>18. CASE NewCommit(s, outs)
  <2> DEFINE n == Len(epochs) + 1
  <2>1. PICK g \in GroupState, x \in Epoch, leaf \in BOOLEAN, used \in SUBSET Keys :
           Commits(s, outs, g, x, leaf, used)
      BY <1>18 DEF NewCommit
  <2>2. /\ 1 \in DOMAIN s.got /\ s.got[1] = <<"group", g>> /\ s.cmd.ins[1] = State(u)
        /\ g.epoch \in DOMAIN epochs /\ x.from = g.epoch /\ x.by = g.key
        /\ g.key \in DOMAIN owner /\ owner[g.key] = u
        /\ epochs' = Append(epochs, x) /\ owner' = owner
      BY <2>1 DEF Commits, u
  <2>3. outs = IF x.added = 0
               THEN <<<<State(u), Group(n, g.key, leaf, used)>>, <<CommitFile(n), <<"commit", n>>>>>>
               ELSE <<<<State(u), Group(n, g.key, leaf, used)>>,
                      <<WelcomeFile(n), <<"welcome", n, x.added>>>>,
                      <<CommitFile(n), <<"commit", n>>>>>>
      BY <2>1 DEF Commits, NewEpoch, u
  <2>4. n \in DOMAIN epochs' /\ epochs'[n] = x
      BY <1>4, <2>2 DEF Recorded
  <2>5. Covers(owner', epochs', file, u, n)
    <3>1. Covers(owner', epochs', file, u, g.epoch)
        BY <1>11, <2>2
    <3> QED
        BY <1>4, <2>2, <2>4, <3>1, CoversNext
  <2>6. owner'[epochs'[n].by] = u
      BY <2>2, <2>4
  <2> DEFINE st == Group(n, g.key, leaf, used)
  <2>7. st[2].epoch = n
      BY GroupContent
  <2>8. /\ outs[1] = <<State(u), st>>
        /\ \A i \in DOMAIN outs : i = 1 \/ outs[i][1] \in {CommitFile(n), WelcomeFile(n)}
    <3>1. CASE x.added = 0
        BY <2>3, <3>1
    <3>2. CASE x.added # 0
        BY <2>3, <3>2
    <3> QED
        BY <3>1, <3>2
  <2> HIDE DEF st, n
  <2>9. outs[1][1] = State(u) /\ outs[1][2][2].epoch = n
      BY <2>7, <2>8
  <2>10. StateNext(owner', epochs', file, r)
    <3>1. ASSUME NEW i \in DOMAIN outs, NEW v \in Users, outs[i][1] = State(v)
          PROVE  Covers(owner', epochs', file, v, outs[i][2][2].epoch)
      <4>1. i = 1
          BY <2>8, <3>1, PathsApart
      <4>2. v = u
          BY <2>9, <3>1, <4>1, PathsApart
      <4> QED
          BY <2>5, <2>9, <4>1, <4>2
    <3>2. ASSUME NEW i \in DOMAIN outs, NEW e \in Epochs, outs[i][1] \in {CommitFile(e), WelcomeFile(e)}
          PROVE  e = n
      <4>1. i # 1
          BY <2>9, <3>2, PathsApart
      <4> QED
          BY <2>8, <3>2, <4>1, PathsApart
    <3> QED
        BY <1>3, <2>6, <2>9, <3>1, <3>2 DEF StateNext
  <2>11. KeyNext(file, r)
    <3>1. \A i \in DOMAIN outs, v \in Users : outs[i][1] # Priv(v) /\ outs[i][1] # Pub(v)
        BY <2>8, <2>9, PathsApart
    <3> QED
        BY <1>3, <3>1 DEF KeyNext
  <2>12. ReadsNow(file, r)
      BY <1>3 DEF ReadsNow
  <2> QED
      BY <1>10, <2>10, <2>11, <2>12 DEF Tidy
<1> QED
    BY <1>1, <1>14, <1>15, <1>16, <1>17, <1>18

\* Every kind of step leaves the command tidy, and what is on disk in order.
LEMMA StepsTidy ==
    ASSUME DataInv, ~ hasty, NEW p \in Shells, NEW r, Steps(running[p], r),
           running[p] # Idle => Tidy(owner, epochs, file, running[p]),
           Orderly(owner, epochs, file)
    PROVE  /\ r # Idle => Tidy(owner', epochs', file', r)
           /\ Orderly(owner', epochs', file')
<1> DEFINE s == running[p]
<1>1. /\ Recorded(owner, epochs)
      /\ \A path \in Paths : Full(file, path) => Fits(owner, epochs, path, file[path])
    BY DEF DataInv, IsWhole, Full
<1>2. ASSUME NEW c, c.outs = <<>>, ReadsNow(file, c)
      PROVE  Tidy(owner, epochs, file, c)
  <2>1. DOMAIN c.outs = {}
      BY <1>2
  <2> QED
      BY <1>2, <2>1 DEF Tidy, StateNext, KeyNext
<1>3. CASE Started(s, r)
  <2>1. /\ r.got = <<>> /\ r.outs = <<>>
        /\ r.cmd.op \in {"create", "join"} => file[State(r.cmd.user)] = Absent
        /\ owner' = owner /\ epochs' = epochs /\ file' = file
      BY <1>3 DEF Started
  <2>2. ReadsNow(file, r)
      BY <2>1 DEF ReadsNow
  <2> QED
      BY <1>2, <2>1, <2>2
<1>4. CASE HasRead(s, r)
  <2> DEFINE n == Len(s.got) + 1
             path == s.cmd.ins[n]
  <2>1. /\ s # Idle /\ s.step = "reads"
        /\ r.cmd = s.cmd /\ r.outs = <<>>
        /\ file' = file /\ owner' = owner /\ epochs' = epochs
      BY <1>4, HasReadFields
  <2>2. /\ DOMAIN r.got = DOMAIN s.got \cup {n}
        /\ r.got[n] = file[path]
        /\ \A i \in DOMAIN s.got : r.got[i] = s.got[i]
      BY <1>4, HasReadFields
  <2>3. /\ \A i \in DOMAIN s.got : s.got[i] = file[s.cmd.ins[i]]
        /\ s.cmd.op \in {"create", "join"} => file[State(s.cmd.user)] = Absent
      BY <2>1 DEF Tidy, ReadsNow
  <2> HIDE DEF n
  <2>4. \A i \in DOMAIN r.got : r.got[i] = file[s.cmd.ins[i]]
      BY <2>2, <2>3
  <2>5. ReadsNow(file, r)
      BY <2>1, <2>3, <2>4 DEF ReadsNow
  <2> QED
      BY <1>2, <2>1, <2>5
<1>5. CASE Stopped(s, r)
    BY <1>5 DEF Stopped
<1>6. CASE Truncated(s, r)
  <2>1. /\ s # Idle /\ r.step = "writes" /\ r.outs = s.outs
        /\ owner' = owner /\ epochs' = epochs
      BY <1>6, TruncatedFields
  <2>2. \A path \in Paths : file'[path] = IF path = s.outs[1][1] THEN Empty ELSE file[path]
      BY <1>6, <2>1, TruncatedFields
  <2>3. InOrder(owner, epochs, s)
      BY <2>1, CommandAt
  <2> QED
      BY <1>1, <2>1, <2>2, <2>3, TruncatedOrderly
<1>7. CASE Written(s, r)
  <2>1. /\ s # Idle /\ s.step = "writes"
        /\ owner' = owner /\ epochs' = epochs
      BY <1>7, WrittenFields
  <2>2. \A path \in Paths : file'[path] = IF path = s.outs[1][1] THEN s.outs[1][2] ELSE file[path]
      BY <1>7, WrittenFields
  <2>3. InOrder(owner, epochs, s) /\ 1 \in DOMAIN s.outs
      BY <2>1, CommandAt, NextOutput
  <2>4. Orderly(owner, epochs, file')
      BY <1>1, <2>1, <2>2, <2>3, WrittenOrderly
  <2>5. ASSUME r # Idle PROVE Tidy(owner, epochs, file', r)
    <3>1. /\ r.step = "writes" /\ DOMAIN r.outs \subseteq Nat \ {0}
          /\ \A i \in DOMAIN r.outs : i + 1 \in DOMAIN s.outs /\ r.outs[i] = s.outs[i + 1]
        BY <1>7, <2>5, WrittenFields
    <3>2. r \in Running /\ r.outs # <<>>
        BY <1>7, <2>5, WrittenRest
    <3>3. r.outs \in Seq(Paths \X Whole)
        BY <3>2 DEF Running
    <3>4. 1 \in DOMAIN r.outs
        BY <3>2, <3>3
    <3> QED
        BY <1>1, <2>1, <2>2, <2>3, <3>1, <3>2, <3>4, WrittenTidy
  <2> QED
      BY <2>1, <2>4, <2>5
<1>8. CASE Acted(s, r)
  <2>1. file' = file
      BY <1>8, ActedData
  <2>2. s # Idle
      BY <1>8, Zenon DEF Acted, Performed
  <2>3. Tidy(owner', epochs', file, r) /\ Orderly(owner', epochs', file)
      BY <1>8, <2>2, ActedTidy
  <2> QED
      BY <2>1, <2>3
<1> QED
    BY <1>3, <1>4, <1>5, <1>6, <1>7, <1>8 DEF Steps

LEMMA StepOrderlyInv ==
    ASSUME DataInv, OrderlyInv, [Next]_vars PROVE OrderlyInv'
<1>1. CASE UNCHANGED vars
    BY <1>1 DEF vars, OrderlyInv
<1>2. ASSUME NEW p \in Shells, NEW r, GoesOn(p, r), Steps(running[p], r)
      PROVE  OrderlyInv'
  <2>1. running'[p] = r /\ \A q \in Shells \ {p} : running'[q] = running[q]
      BY <1>2, GoesOnFrame
  <2>2. hasty' = hasty
      BY <1>2 DEF GoesOn
  <2>3. SUFFICES ASSUME ~ hasty
                 PROVE  /\ \A q, t \in Shells : running'[q] # Idle /\ running'[t] # Idle => q = t
                        /\ \A q \in Shells : running'[q] # Idle => Tidy(owner', epochs', file', running'[q])
                        /\ Orderly(owner', epochs', file')
      BY <2>2 DEF OrderlyInv
  <2>4. /\ \A q, t \in Shells : running[q] # Idle /\ running[t] # Idle => q = t
        /\ \A q \in Shells : running[q] # Idle => Tidy(owner, epochs, file, running[q])
        /\ Orderly(owner, epochs, file)
      BY <2>3 DEF OrderlyInv
  <2>5. \A q \in Shells \ {p} : running[q] = Idle
    <3>1. CASE running[p] = Idle
      <4>1. Started(running[p], r)
          BY <1>2, <3>1 DEF Steps, HasRead, Stopped, Truncated, Written, Acted, Performed
      <4> QED
          BY <2>3, <4>1 DEF Started
    <3>2. CASE running[p] # Idle
        BY <2>4, <3>2
    <3> QED
        BY <3>1, <3>2
  <2>6. \A q \in Shells \ {p} : running'[q] = Idle
      BY <2>1, <2>5
  <2>7. /\ r # Idle => Tidy(owner', epochs', file', r)
        /\ Orderly(owner', epochs', file')
      BY <1>2, <2>3, <2>4, StepsTidy
  <2> QED
      BY <2>1, <2>6, <2>7
<1> QED
    BY <1>1, <1>2, StepKinds

LEMMA InitOrderlyInv ==
    ASSUME Init PROVE OrderlyInv
<1>1. file = [path \in Paths |-> Absent] /\ running = [p \in Shells |-> Idle] /\ epochs = <<>>
    BY DEF Init
<1>2. \A u \in Users : file[State(u)] = Absent /\ file[Pub(u)] = Absent
    BY <1>1, PathTypes
<1>3. DOMAIN epochs = {}
    BY <1>1
<1>4. Orderly(owner, epochs, file)
    BY <1>2, <1>3 DEF Orderly
<1> QED
    BY <1>1, <1>4 DEF OrderlyInv

LEMMA OrderlyPublishes ==
    ASSUME DataInv, OrderlyInv PROVE PublishedAfterSaved
<1> SUFFICES ASSUME ~ hasty
             PROVE  /\ \A e \in DOMAIN epochs :
                          /\ IsWhole(CommitFile(e)) \/ IsWhole(WelcomeFile(e))
                          /\ Standing(owner[epochs[e].by])
                          => e \in Line(At(owner[epochs[e].by]).epoch)
                    /\ \A u \in Users :
                          IsWhole(Pub(u)) /\ IsWhole(Priv(u)) => file[Priv(u)][2] >= file[Pub(u)][2]
    BY DEF PublishedAfterSaved
<1>1. Orderly(owner, epochs, file)
    BY DEF OrderlyInv
<1>2. ASSUME NEW e \in DOMAIN epochs, IsWhole(CommitFile(e)) \/ IsWhole(WelcomeFile(e)),
             Standing(owner[epochs[e].by])
      PROVE  e \in Line(At(owner[epochs[e].by]).epoch)
  <2>1. epochs[e].by \in DOMAIN owner
      BY EpochFields DEF DataInv
  <2>2. PICK u \in Users : u = owner[epochs[e].by]
      BY <2>1, KeysOwned
  <2>3. file[State(u)] \notin {Absent, Empty}
      BY <1>2, <2>2 DEF Standing, IsWhole
  <2>4. Covers(owner, epochs, file, u, file[State(u)][2].epoch)
      BY <1>1, <2>3 DEF Orderly
  <2>5. Published(file, e)
      BY <1>2 DEF Published, IsWhole
  <2> QED
      BY <2>2, <2>4, <2>5 DEF Covers, Line, At
<1> QED
    BY <1>1, <1>2 DEF Orderly, IsWhole

\* cli.py writes the state before the welcome and the commit, and the private
\* key before the key package: wherever commands are cut off, if they are run
\* one after the other, a commit or a welcome on disk is of an epoch that its
\* committer stands on or beyond, and a key package on disk is not newer than
\* the private key beside it.
THEOREM SavedBeforePublished ==
    Spec => []PublishedAfterSaved
<1>1. Init => OrderlyInv
    BY InitOrderlyInv
<1>2. DataInv /\ OrderlyInv /\ [Next]_vars => OrderlyInv'
    BY StepOrderlyInv
<1>3. DataInv /\ OrderlyInv => PublishedAfterSaved
    BY OrderlyPublishes
<1> QED
    BY <1>1, <1>2, <1>3, AlwaysDataInv, PTL DEF Spec
=============================================================================

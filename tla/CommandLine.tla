---------------------------- MODULE CommandLine ----------------------------
(***************************************************************************)
(* cli.py: every command is a process that reads its input files, performs *)
(* one group operation and writes its output files one after the other.    *)
(* All that a user keeps between commands is in these files, and all that  *)
(* members send each other are copies of them.                             *)
(*                                                                         *)
(* The operations are those of MLSGroup with everything but their outcome  *)
(* left out.  An epoch is the commit that made it; an identity is the      *)
(* number of the keygen that made it.  A state file holds an epoch, the    *)
(* owner's identity, whether the private key in it is the one of the       *)
(* owner's leaf (remove_member returns a handle where it is not), and the  *)
(* key packages it has used.                                               *)
(*                                                                         *)
(* A file is opened with O_TRUNC, or "wb", and written by one call: between*)
(* the two it is empty, and every reader refuses an empty file.  Users     *)
(* give each commit and each welcome a file name of its own.               *)
(***************************************************************************)
EXTENDS Naturals, Sequences, FiniteSets

CONSTANTS Users,
          Shells,      \* where commands are run, one at a time in each
          MaxKeygens,  \* bound: identities ever made
          MaxEpochs,   \* bound: epochs ever made
          MaxAtOnce    \* the same bound where commands are run at once

ASSUME CommandLineAssumption ==
    MaxKeygens \in Nat /\ MaxEpochs \in Nat /\ MaxAtOnce \in Nat

VARIABLES owner,    \* owner[k]: the user that made identity k
          epochs,   \* every epoch ever made
          file,     \* the content of every file
          running,  \* the command that runs in each shell
          hasty     \* commands are run at once, and none is cut off; or
                    \* else one after the other, any of them cut off

vars == <<owner, epochs, file, running, hasty>>

Keys == 1 .. MaxKeygens
Epochs == 1 .. MaxEpochs

Priv(u) == <<"priv", u>>
Pub(u) == <<"pub", u>>
State(u) == <<"state", u>>
WelcomeFile(e) == <<"welcome", e>>
CommitFile(e) == <<"commit", e>>

Paths ==
    {Priv(u) : u \in Users} \cup {Pub(u) : u \in Users} \cup {State(u) : u \in Users}
        \cup {WelcomeFile(e) : e \in Epochs} \cup {CommitFile(e) : e \in Epochs}

Absent == <<"absent">>
Empty == <<"empty">>

GroupState == [epoch : Epochs, key : Keys, leaf : BOOLEAN, used : SUBSET Keys]

Whole ==
    {<<"key", k>> : k \in Keys} \cup {<<"group", s>> : s \in GroupState}
        \cup {<<"welcome", e, k>> : e \in Epochs, k \in Keys} \cup {<<"commit", e>> : e \in Epochs}

IsWhole(path) == file[path] \notin {Absent, Empty}

\* from: the epoch it was made from, 0 for none; by: who made it; added:
\* the newcomer, 0 for none.
Epoch == [from : 0 .. MaxEpochs, by : Keys, roster : SUBSET Keys, added : 0 .. MaxKeygens]

\* A command with its input files, and its argument where it has one.
Command ==
    [op : {"keygen", "create", "add", "join", "remove", "update", "apply"},
     user : Users, ins : Seq(Paths), arg : 0 .. MaxKeygens]

\* got: what it has read; outs: what it has to write yet; cut: the first of
\* these files is open and empty.
Idle == [step |-> "idle"]
Running ==
    [cmd : Command, got : Seq(Whole), outs : Seq(Paths \X Whole),
     step : {"reads", "writes"}, cut : BOOLEAN]

TypeOK ==
    /\ owner \in Seq(Users) /\ Len(owner) \in 0 .. MaxKeygens
    /\ epochs \in Seq(Epoch) /\ Len(epochs) \in 0 .. MaxEpochs
    /\ \A path \in Paths : file[path] \in {Absent, Empty} \cup Whole
    /\ \A p \in Shells : running[p] # Idle => running[p] \in Running
    /\ hasty \in BOOLEAN

Init ==
    /\ owner = <<>>
    /\ epochs = <<>>
    /\ file = [path \in Paths |-> Absent]
    /\ running = [p \in Shells |-> Idle]
    /\ hasty \in BOOLEAN

-----------------------------------------------------------------------------

\* A command is given for files that are there.
Start(p, op, u, ins, arg) ==
    /\ running[p] = Idle
    /\ \A i \in DOMAIN ins : file[ins[i]] # Absent
    /\ ~ hasty => \A q \in Shells : running[q] = Idle
    /\ running' = [running EXCEPT ![p] =
                     [cmd |-> [op |-> op, user |-> u, ins |-> ins, arg |-> arg],
                      got |-> <<>>, outs |-> <<>>, step |-> "reads", cut |-> FALSE]]
    /\ UNCHANGED <<owner, epochs, file>>

\* The group as the state of user u has it.
Roster(u) == epochs[file[State(u)][2].epoch].roster

\* What users may ask for.  They make identities and enter a group until
\* they have a state of it, and do not invite who is in the group.
give(p, u) ==
    \/ file[State(u)] = Absent /\ Start(p, "keygen", u, <<>>, 0)
    \/ file[State(u)] = Absent /\ Start(p, "create", u, <<Priv(u)>>, 0)
    \/ \E e \in Epochs : file[State(u)] = Absent /\ Start(p, "join", u, <<Priv(u), WelcomeFile(e)>>, 0)
    \/ \E v \in Users \ {u} :
          /\ ~ (IsWhole(State(u)) /\ IsWhole(Pub(v)) /\ file[Pub(v)][2] \in Roster(u))
          /\ Start(p, "add", u, <<State(u), Pub(v)>>, 0)
    \/ \E k \in Keys : Start(p, "remove", u, <<State(u)>>, k)
    \/ Start(p, "update", u, <<State(u)>>, 0)
    \/ \E e \in Epochs : Start(p, "apply", u, <<State(u), CommitFile(e)>>, 0)

Ended(p) == running' = [running EXCEPT ![p] = Idle]

NextInput(p) == running[p].cmd.ins[Len(running[p].got) + 1]

\* Reads the next input; an empty file is refused.
read(p) ==
    /\ running[p] # Idle /\ running[p].step = "reads"
    /\ Len(running[p].got) < Len(running[p].cmd.ins)
    /\ IF IsWhole(NextInput(p))
       THEN running' = [running EXCEPT ![p].got = Append(@, file[NextInput(p)])]
       ELSE Ended(p)
    /\ UNCHANGED <<owner, epochs, file>>

-----------------------------------------------------------------------------

\* A command that has read its inputs performs its operation, and is left
\* with the files outs to write.
Performs(p, op, outs) ==
    /\ running[p] # Idle /\ running[p].cmd.op = op /\ running[p].step = "reads"
    /\ Len(running[p].got) = Len(running[p].cmd.ins)
    /\ running' = [running EXCEPT ![p].step = "writes", ![p].outs = outs]
    /\ UNCHANGED file

User(p) == running[p].cmd.user
Input(p, i) == running[p].got[i][2]
NewEpoch == Len(epochs) + 1

MakesEpoch(from, by, roster, added) ==
    /\ NewEpoch \in Epochs
    /\ hasty => NewEpoch <= MaxAtOnce
    /\ epochs' = Append(epochs, [from |-> from, by |-> by, roster |-> roster, added |-> added])
    /\ UNCHANGED owner

Group(epoch, key, leaf, used) ==
    <<"group", [epoch |-> epoch, key |-> key, leaf |-> leaf, used |-> used]>>

keygen(p) ==
    LET k == Len(owner) + 1 IN
    /\ k \in Keys
    /\ Performs(p, "keygen", <<<<Priv(User(p)), <<"key", k>>>>, <<Pub(User(p)), <<"key", k>>>>>>)
    /\ owner' = Append(owner, User(p))
    /\ UNCHANGED epochs

\* Mutant of create_group: the state is numbered before the epoch is made.
create_groupBehind(p) ==
    /\ Performs(p, "create", <<<<State(User(p)), Group(Len(epochs), Input(p, 1), TRUE, {})>>>>)
    /\ MakesEpoch(0, Input(p, 1), {Input(p, 1)}, 0)

create_group(p) ==
    /\ Performs(p, "create", <<<<State(User(p)), Group(NewEpoch, Input(p, 1), TRUE, {})>>>>)
    /\ MakesEpoch(0, Input(p, 1), {Input(p, 1)}, 0)

\* Mutants of add_member: the commit is written before the state; the
\* commit is not written.
add_memberSendsFirst(p) ==
    LET s == Input(p, 1) IN LET k == Input(p, 2) IN
    /\ Performs(p, "add",
         <<<<CommitFile(NewEpoch), <<"commit", NewEpoch>>>>,
           <<State(User(p)), Group(NewEpoch, s.key, TRUE, s.used \cup {k})>>,
           <<WelcomeFile(NewEpoch), <<"welcome", NewEpoch, k>>>>>>)
    /\ k \notin s.used
    /\ k \notin epochs[s.epoch].roster
    /\ MakesEpoch(s.epoch, s.key, epochs[s.epoch].roster \cup {k}, k)

add_memberNoCommit(p) ==
    LET s == Input(p, 1) IN LET k == Input(p, 2) IN
    /\ Performs(p, "add",
         <<<<State(User(p)), Group(NewEpoch, s.key, TRUE, s.used \cup {k})>>,
           <<WelcomeFile(NewEpoch), <<"welcome", NewEpoch, k>>>>>>)
    /\ k \notin s.used
    /\ k \notin epochs[s.epoch].roster
    /\ MakesEpoch(s.epoch, s.key, epochs[s.epoch].roster \cup {k}, k)

\* An identity that came into the group after the command was given would get
\* a second leaf; what follows such a command is left out.
add_member(p) ==
    LET s == Input(p, 1) IN LET k == Input(p, 2) IN
    /\ Performs(p, "add",
         <<<<State(User(p)), Group(NewEpoch, s.key, TRUE, s.used \cup {k})>>,
           <<WelcomeFile(NewEpoch), <<"welcome", NewEpoch, k>>>>,
           <<CommitFile(NewEpoch), <<"commit", NewEpoch>>>>>>)
    /\ k \notin s.used
    /\ k \notin epochs[s.epoch].roster
    /\ MakesEpoch(s.epoch, s.key, epochs[s.epoch].roster \cup {k}, k)

\* The handle that remove_member returns has the key of the old leaf.  A leaf
\* index within the tree that is nobody's is accepted, one beyond it refused.
remove_member(p) ==
    LET s == Input(p, 1) IN LET k == running[p].cmd.arg IN
    /\ Performs(p, "remove",
         <<<<State(User(p)), Group(NewEpoch, s.key, FALSE, s.used)>>,
           <<CommitFile(NewEpoch), <<"commit", NewEpoch>>>>>>)
    /\ k # s.key
    /\ MakesEpoch(s.epoch, s.key, epochs[s.epoch].roster \ {k}, 0)

update_key(p) ==
    LET s == Input(p, 1) IN
    /\ Performs(p, "update",
         <<<<State(User(p)), Group(NewEpoch, s.key, TRUE, s.used)>>,
           <<CommitFile(NewEpoch), <<"commit", NewEpoch>>>>>>)
    /\ MakesEpoch(s.epoch, s.key, epochs[s.epoch].roster, 0)

\* The welcome opens with the private key of the invited identity only.
Opens(k, welcome) == welcome[3] = k

join_group(p) ==
    /\ Performs(p, "join", <<<<State(User(p)), Group(Input(p, 2), Input(p, 1), TRUE, {})>>>>)
    /\ Opens(Input(p, 1), running[p].got[2])
    /\ UNCHANGED <<owner, epochs>>

\* Mutant of Follows: the epoch of the commit is not compared.
FollowsAny(s, e) == s.leaf /\ epochs[e].by # s.key /\ s.key \in epochs[e].roster

\* process_update: a commit made from the state's own epoch, by someone
\* else, that keeps the owner and finds its leaf key in the state.
Follows(s, e) ==
    /\ epochs[e].from = s.epoch
    /\ s.leaf /\ epochs[e].by # s.key /\ s.key \in epochs[e].roster

apply_commit(p) ==
    /\ Performs(p, "apply", <<<<State(User(p)), Group(Input(p, 2), Input(p, 1).key, TRUE, {})>>>>)
    /\ Follows(Input(p, 1), Input(p, 2))
    /\ UNCHANGED <<owner, epochs>>

\* The operation refuses and nothing is written.
Refuses(p) ==
    LET in1 == Input(p, 1) IN
    CASE running[p].cmd.op = "add"    -> Input(p, 2) \in in1.used
      [] running[p].cmd.op = "remove" ->
            running[p].cmd.arg \notin epochs[in1.epoch].roster \ {in1.key}
      [] running[p].cmd.op = "join"   -> ~ Opens(in1, running[p].got[2])
      [] running[p].cmd.op = "apply"  -> ~ Follows(in1, Input(p, 2))
      [] OTHER -> FALSE

refuse(p) ==
    /\ running[p] # Idle /\ running[p].step = "reads"
    /\ Len(running[p].got) = Len(running[p].cmd.ins)
    /\ Refuses(p)
    /\ Ended(p)
    /\ UNCHANGED <<owner, epochs, file>>

-----------------------------------------------------------------------------

\* Opens the next output file, which empties it.
truncate(p) ==
    /\ running[p] # Idle /\ running[p].step = "writes" /\ ~ running[p].cut
    /\ file' = [file EXCEPT ![Head(running[p].outs)[1]] = Empty]
    /\ running' = [running EXCEPT ![p].cut = TRUE]
    /\ UNCHANGED <<owner, epochs>>

\* Writes it; the command ends with the last one.  Where two commands write one
\* file at once, the end of the longer content stays behind a shorter one that
\* is written over it.  Only state and identity files are shared so; an identity
\* has one length, and MLSGroup.from_bytes passes over what is behind a state:
\* Received of Messages, with its action overlap, says that it loads as the one
\* that was written last.  So the file holds that one.
write(p) ==
    /\ running[p] # Idle /\ running[p].cut
    /\ file' = [file EXCEPT ![Head(running[p].outs)[1]] = Head(running[p].outs)[2]]
    /\ IF Len(running[p].outs) = 1
       THEN Ended(p)
       ELSE running' = [running EXCEPT ![p].outs = Tail(@), ![p].cut = FALSE]
    /\ UNCHANGED <<owner, epochs>>

crash(p) ==
    /\ ~ hasty
    /\ running[p] # Idle
    /\ Ended(p)
    /\ UNCHANGED <<owner, epochs, file>>

Operation(p) ==
    \/ keygen(p) \/ create_group(p) \/ add_member(p) \/ join_group(p)
    \/ remove_member(p) \/ update_key(p) \/ apply_commit(p) \/ refuse(p)

Next ==
    /\ \E p \in Shells :
          \/ \E u \in Users : give(p, u)
          \/ read(p) \/ Operation(p) \/ truncate(p) \/ write(p) \/ crash(p)
    /\ UNCHANGED hasty

Spec == Init /\ [][Next]_vars

-----------------------------------------------------------------------------

\* For every epoch of the sequence es, the epoch with those it descends from.
Ancestry(es) ==
    LET line[n \in 0 .. Len(es)] == IF n = 0 THEN {} ELSE {n} \cup line[es[n].from]
    IN  line

Line(e) == Ancestry(epochs)[e]

Standing(u) == IsWhole(State(u))
At(u) == file[State(u)][2]

\* What is handed out has its private side saved: when a commit or a
\* welcome is on disk its committer stands on that epoch or beyond (it could
\* never follow its own commit), and when a key package is on disk so is
\* its private key, or a later one, wherever commands were cut off, if they
\* are run one after the other.
PublishedAfterSaved == ~ hasty =>
    /\ \A e \in DOMAIN epochs :
          LET u == owner[epochs[e].by] IN
          (IsWhole(CommitFile(e)) \/ IsWhole(WelcomeFile(e))) /\ Standing(u)
              => e \in Line(At(u).epoch)
    /\ \A u \in Users :
          IsWhole(Pub(u)) /\ IsWhole(Priv(u)) => file[Priv(u)][2] >= file[Pub(u)][2]

\* Nobody is on an epoch, or on one made from it, whose commit never got
\* written, but the member that made it and those invited afterwards: a
\* crash before the commit is written splits off its committer only.
AheadAlone ==
    \A u \in Users : Standing(u) =>
        LET k == At(u).key IN
        \A a \in Line(At(u).epoch) :
            /\ epochs[a].from # 0 /\ epochs[a].by # k
            /\ k \in epochs[epochs[a].from].roster
            /\ \A b \in Line(At(u).epoch) : b >= a => k \in epochs[b].roster
            => IsWhole(CommitFile(a))

\* Unless a command was cut off, whenever all have ended no file is left
\* empty, and every commit and welcome that led to where a user stands is
\* there to hand out, also when the user ran commands at once.
AllAtHand ==
    hasty /\ (\A p \in Shells : running[p] = Idle) =>
        /\ \A path \in Paths : file[path] # Empty
        /\ \A u \in Users : Standing(u) =>
              \A a \in Line(At(u).epoch) :
                  /\ epochs[a].from # 0 => IsWhole(CommitFile(a))
                  /\ epochs[a].added # 0 => IsWhole(WelcomeFile(a))
=============================================================================

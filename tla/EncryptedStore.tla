--------------------------- MODULE EncryptedStore ---------------------------
(***************************************************************************)
(* AsyncEncryptedStore of storage.py: the calls an application makes for   *)
(* one group (the files of two groups have different names), each a        *)
(* coroutine on the event loop that hands its file access to a worker      *)
(* thread.  The threads run in any order and only meet on the disk.        *)
(*                                                                         *)
(* A call is named by its place in the sequence of calls; the state that a *)
(* save writes is named by that save.  A payload is a number of blocks     *)
(* (its length follows the tree and differs from save to save), and a      *)
(* block of a file is the save that wrote it last.  The authentication tag *)
(* covers the payload, so what a load has read is accepted only if it is   *)
(* every block of one save and nothing else.  A file is named by the save  *)
(* that created it: a thread that has it open keeps it when it is removed. *)
(***************************************************************************)
EXTENDS Naturals, Sequences, FiniteSets

CONSTANTS MaxCalls,    \* bound: calls ever made
          MaxOngoing,  \* bound: calls under way at once
          MaxBlocks,   \* bound: blocks of a payload
          MaxCrashes,  \* bound: crashes of the process
          MaxCancels,  \* bound: calls that the application gives up (a timeout)
          Exclusive    \* an application makes saves and deletes one at a
                       \* time, with no load under way

ASSUME StoreAssumption ==
    /\ MaxCalls \in Nat /\ MaxOngoing \in Nat
    /\ MaxBlocks \in Nat \ {0}
    /\ MaxCrashes \in Nat /\ MaxCancels \in Nat
    /\ Exclusive \in BOOLEAN

VARIABLES calls,   \* every call ever made
          path,    \* the file that the group's name leads to, 0 for none
          disk,    \* the blocks of every file, removed or not
          crashes  \* how often the process has crashed

vars == <<calls, path, disk, crashes>>

Calls == 1 .. MaxCalls
NoFile == 0
Hole == 0
Pending == <<"pending">>

Answers ==
    {Pending, <<"saved">>, <<"absent">>, <<"not_found">>, <<"refused">>,
     <<"deleted">>, <<"nothing">>}
        \cup {<<"loaded", v>> : v \in Calls}

\* step: how far the call is; over: the calls that had ended when it was
\* made; file: the file that its thread opened or removed; blocks: what the
\* thread has written or read; answer: what the application was told.
Call ==
    [op : {"save", "load", "delete"}, size : 1 .. MaxBlocks, over : SUBSET Calls,
     step : {"made", "queued", "open", "done", "dropped", "killed"},
     file : {NoFile} \cup Calls, blocks : Seq({Hole} \cup Calls), answer : Answers,
     awaited : BOOLEAN]

TypeOK ==
    /\ calls \in Seq(Call) /\ Len(calls) \in 0 .. MaxCalls
    /\ path \in {NoFile} \cup Calls
    /\ disk \in [Calls -> Seq({Hole} \cup Calls)]
    /\ crashes \in 0 .. MaxCrashes

Made == DOMAIN calls
Over(c) == calls[c].step \in {"done", "dropped", "killed"}
Ongoing == {c \in Made : ~ Over(c)}

Init ==
    /\ calls = <<>>
    /\ path = NoFile
    /\ disk = [f \in Calls |-> <<>>]
    /\ crashes = 0

-----------------------------------------------------------------------------

MayMake(op) ==
    /\ Len(calls) < MaxCalls
    /\ Cardinality(Ongoing) < MaxOngoing
    /\ Exclusive => \A c \in Ongoing : op = "load" /\ calls[c].op = "load"

\* The application makes a task of a call.
make(op, size) ==
    /\ MayMake(op)
    /\ calls' = Append(calls,
                  [op |-> op, size |-> size, over |-> Made \ Ongoing,
                   step |-> "made", file |-> NoFile, blocks |-> <<>>,
                   answer |-> Pending, awaited |-> TRUE])
    /\ UNCHANGED <<path, disk, crashes>>

At(c, op, step) == calls[c].op = op /\ calls[c].step = step

\* A call ends; an application that has given up waiting is told nothing.
Ended(c, answer) ==
    [calls EXCEPT ![c].step = "done",
                  ![c].answer = IF calls[c].awaited THEN answer ELSE @]

Queued(c) == [calls EXCEPT ![c].step = "queued"]

\* save_group up to its await: the payload is made at once.
save_group(c) ==
    /\ At(c, "save", "made")
    /\ calls' = Queued(c)
    /\ UNCHANGED <<path, disk, crashes>>

\* Mutants of the thread of save_group: no truncation; an existing file is
\* left alone.
OpenKeepsContent(c) ==
    /\ At(c, "save", "queued")
    /\ path' = IF path = NoFile THEN c ELSE path
    /\ calls' = [calls EXCEPT ![c].step = "open", ![c].file = path']
    /\ UNCHANGED <<disk, crashes>>

OpenOnlyNew(c) ==
    /\ At(c, "save", "queued")
    /\ path' = IF path = NoFile THEN c ELSE path
    /\ calls' = IF path = NoFile
                THEN [calls EXCEPT ![c].step = "open", ![c].file = c]
                ELSE Ended(c, <<"saved">>)
    /\ UNCHANGED <<disk, crashes>>

\* The thread opens the file with "wb": a new file, or the present one cut
\* to nothing.
write_open(c) ==
    /\ At(c, "save", "queued")
    /\ path' = IF path = NoFile THEN c ELSE path
    /\ disk' = [disk EXCEPT ![path'] = <<>>]
    /\ calls' = [calls EXCEPT ![c].step = "open", ![c].file = path']
    /\ UNCHANGED crashes

\* The file after the thread wrote its next block at its own position.
WithBlock(blocks, at, v) ==
    [i \in 1 .. (IF at > Len(blocks) THEN at ELSE Len(blocks)) |->
        IF i = at THEN v ELSE IF i \in DOMAIN blocks THEN blocks[i] ELSE Hole]

write_block(c) ==
    LET at == Len(calls[c].blocks) + 1 IN
    /\ At(c, "save", "open")
    /\ at <= calls[c].size
    /\ disk' = [disk EXCEPT ![calls[c].file] = WithBlock(@, at, c)]
    /\ calls' = [calls EXCEPT ![c].blocks = Append(@, c)]
    /\ UNCHANGED <<path, crashes>>

write_close(c) ==
    /\ At(c, "save", "open")
    /\ Len(calls[c].blocks) = calls[c].size
    /\ calls' = Ended(c, <<"saved">>)
    /\ UNCHANGED <<path, disk, crashes>>

-----------------------------------------------------------------------------

\* Mutant of load_group: whether there is a file is not looked at.
load_groupUnchecked(c) ==
    /\ At(c, "load", "made")
    /\ calls' = Queued(c)
    /\ UNCHANGED <<path, disk, crashes>>

\* load_group up to its await.
load_group(c) ==
    /\ At(c, "load", "made")
    /\ calls' = IF path = NoFile THEN Ended(c, <<"absent">>) ELSE Queued(c)
    /\ UNCHANGED <<path, disk, crashes>>

\* The thread opens the file, which may be gone since the check.
read_open(c) ==
    /\ At(c, "load", "queued")
    /\ calls' = IF path = NoFile
                THEN Ended(c, <<"not_found">>)
                ELSE [calls EXCEPT ![c].step = "open", ![c].file = path]
    /\ UNCHANGED <<path, disk, crashes>>

NextBlock(c) == Len(calls[c].blocks) + 1

read_block(c) ==
    /\ At(c, "load", "open")
    /\ NextBlock(c) \in DOMAIN disk[calls[c].file]
    /\ calls' = [calls EXCEPT ![c].blocks = Append(@, disk[calls[c].file][NextBlock(c)])]
    /\ UNCHANGED <<path, disk, crashes>>

\* The payload of save v, whole.
Payload(v) == [i \in 1 .. calls[v].size |-> v]

\* Mutant of Decrypted: nothing is authenticated.
DecryptedUnchecked(payload) ==
    IF payload = <<>> THEN <<"refused">> ELSE <<"loaded", payload[1]>>

\* load_group after its await: a payload that is too short or does not
\* authenticate is refused.
Decrypted(payload) ==
    LET whole == {v \in Made : calls[v].op = "save" /\ payload = Payload(v)}
    IN  IF whole = {} THEN <<"refused">> ELSE <<"loaded", CHOOSE v \in whole : TRUE>>

read_end(c) ==
    /\ At(c, "load", "open")
    /\ NextBlock(c) \notin DOMAIN disk[calls[c].file]
    /\ calls' = Ended(c, Decrypted(calls[c].blocks))
    /\ UNCHANGED <<path, disk, crashes>>

-----------------------------------------------------------------------------

\* delete_group up to its await.
delete_group(c) ==
    /\ At(c, "delete", "made")
    /\ calls' = IF path = NoFile THEN Ended(c, <<"nothing">>) ELSE Queued(c)
    /\ UNCHANGED <<path, disk, crashes>>

\* Mutant of remove: the file is emptied, its name stays.
removeContent(c) ==
    /\ At(c, "delete", "queued")
    /\ IF path = NoFile
       THEN calls' = Ended(c, <<"not_found">>) /\ UNCHANGED disk
       ELSE /\ calls' = [Ended(c, <<"deleted">>) EXCEPT ![c].file = path]
            /\ disk' = [disk EXCEPT ![path] = <<>>]
    /\ UNCHANGED <<path, crashes>>

\* The thread removes the file, which may be gone since the check.
remove(c) ==
    /\ At(c, "delete", "queued")
    /\ calls' = IF path = NoFile
                THEN Ended(c, <<"not_found">>)
                ELSE [Ended(c, <<"deleted">>) EXCEPT ![c].file = path]
    /\ path' = NoFile
    /\ UNCHANGED <<disk, crashes>>

-----------------------------------------------------------------------------

GivenUp == {c \in Made : ~ calls[c].awaited}

\* The application gives up waiting: a call that no thread has taken up yet
\* never runs, a thread that has begun goes on.
cancel(c) ==
    /\ Cardinality(GivenUp) < MaxCancels /\ calls[c].awaited
    /\ \/ /\ calls[c].step \in {"made", "queued"}
          /\ calls' = [calls EXCEPT ![c].awaited = FALSE, ![c].step = "dropped"]
       \/ /\ calls[c].step \in {"queued", "open"}
          /\ calls' = [calls EXCEPT ![c].awaited = FALSE]
    /\ UNCHANGED <<path, disk, crashes>>

\* The process ends and is started again; the files stay as they are.
crash ==
    /\ crashes < MaxCrashes
    /\ Ongoing # {}
    /\ crashes' = crashes + 1
    /\ calls' = [c \in Made |-> IF Over(c) THEN calls[c] ELSE [calls[c] EXCEPT !.step = "killed"]]
    /\ UNCHANGED <<path, disk>>

Work(c) ==
    \/ save_group(c) \/ write_open(c) \/ write_block(c) \/ write_close(c)
    \/ load_group(c) \/ read_open(c) \/ read_block(c) \/ read_end(c)
    \/ delete_group(c) \/ remove(c)

Next ==
    \/ \E size \in 1 .. MaxBlocks : make("save", size)
    \/ make("load", 1)
    \/ make("delete", 1)
    \/ \E c \in Made : Work(c) \/ cancel(c)
    \/ crash

Spec ==
    /\ Init
    /\ [][Next]_vars
    /\ \A c \in Calls : WF_vars(c \in Made /\ Work(c))

-----------------------------------------------------------------------------

Changed(c) == calls[c].op \in {"save", "delete"} /\ calls[c].file # NoFile

\* Call u ended before load l was made, and every other call of the kinds ops
\* that touched the file was over before u was made, or was made after l had
\* ended.
LastBefore(u, l, ops) ==
    /\ u \in calls[l].over /\ calls[u].step = "done"
    /\ \A w \in Made \ {u} :
          Changed(w) /\ calls[w].op \in ops => w \in calls[u].over \/ l \in calls[w].over

Answered(l) == calls[l].op = "load" /\ calls[l].answer # Pending

\* A load that is answered gets the state of the save that came last, if
\* nothing else was at work on the file since that save was made: whatever
\* crashes, cancelled calls and overlapping writes came before it, and
\* whatever else was called and did not come to touch the file.
ReadsBack ==
    \A l, u \in Made :
        Answered(l) /\ calls[u].op = "save" /\ LastBefore(u, l, {"save", "delete"})
            => calls[l].answer = <<"loaded", u>>

\* After a delete that no save overlapped or came after there is nothing to
\* load, whether the delete found a file, found none, or lost it to another
\* delete after it had looked.
GoneIfDeleted ==
    \A l, u \in Made :
        Answered(l) /\ calls[u].op = "delete" /\ LastBefore(u, l, {"save"})
            => calls[l].answer = <<"absent">>

\* A load never gets a state that a later save has replaced or a later delete
\* has removed, if that one was completed before the load was made: whatever
\* else overlaps any of the three, is cancelled or is cut off by a crash.
NeverStale ==
    \A l, v, w \in Made :
        calls[l].answer = <<"loaded", v>> /\ calls[w].op \in {"save", "delete"}
            => ~ (v \in calls[w].over /\ w \in calls[l].over /\ calls[w].step = "done")

\* Neither call was over when the other was made.
Overlap(c, d) == c \notin calls[d].over /\ d \notin calls[c].over

\* A save that was cut off, or that another one overlapped.
Torn(s) ==
    \/ calls[s].step = "killed"
    \/ \E t \in Made \ {s} : calls[t].op = "save" /\ Changed(t) /\ Overlap(s, t)

\* No call that touched the file came between save s and load l.
NotReplaced(s, l) == \A w \in Made : Changed(w) /\ s \in calls[w].over => w \notin calls[l].over

\* A state is unreadable only because of a save that a crash cut off, that
\* overlapped another save, or that overlaps the load, and only as long as
\* nothing came after it: the next save that is alone repairs the file,
\* however it was left.
RefusedHasCause ==
    \A l \in Made : calls[l].answer = <<"refused">> =>
        \E s \in Made :
            /\ calls[s].op = "save" /\ Changed(s) /\ NotReplaced(s, l)
            /\ Torn(s) \/ Overlap(s, l)

\* load_group and delete_group look for the file before their await and rely
\* on it after: they raise only if a delete that overlaps them took it.
MissingHasCause ==
    \A c \in Made : calls[c].answer = <<"not_found">> =>
        \E d \in Made : calls[d].op = "delete" /\ Changed(d) /\ Overlap(d, c)

\* What load_group's documentation says: "Returns None if the file does not
\* exist."
MissingIsNone == \A l \in Made : calls[l].op = "load" => calls[l].answer # <<"not_found">>

\* The register: a save has its effect when its thread opens the file.
Holds ==
    LET writer == {c \in Made : At(c, "save", "open")} IN
    IF writer # {} THEN CHOOSE c \in writer : TRUE
    ELSE IF path = NoFile THEN 0
    ELSE disk[path][1]

Register ==
    INSTANCE StoreRegister WITH
        stored <- Holds,
        asked <- [c \in Made |->
                    [op |-> calls[c].op,
                     answer |-> IF At(c, "save", "open") THEN <<"saved">> ELSE calls[c].answer]]

\* With saves and deletes made one at a time, no crash and no timeout, the
\* store is a register: calls have their effect in one step and all are
\* answered.
ImplementsRegister == Register!Spec
=============================================================================

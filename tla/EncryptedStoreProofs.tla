------------------------ MODULE EncryptedStoreProofs ------------------------
(***************************************************************************)
(* Proofs about EncryptedStore for any number of calls, overlapping in any *)
(* way, with any number of crashes and cancelled calls, and payloads of    *)
(* any size.                                                               *)
(***************************************************************************)
EXTENDS EncryptedStore, FiniteSetTheorems, SequenceTheorems, TLAPS

-----------------------------------------------------------------------------
(* The record of a call *)

LEMMA CallFields ==
    ASSUME TypeOK, NEW c \in Made
    PROVE  /\ c \in Calls /\ c \in Nat \ {0}
           /\ calls[c] \in Call
           /\ calls[c].over \subseteq Calls
           /\ calls[c].file \in {NoFile} \cup Calls
           /\ calls[c].blocks \in Seq({Hole} \cup Calls)
           /\ calls[c].answer \in Answers
           /\ calls[c].size \in Nat \ {0}
<1>1. calls \in Seq(Call) /\ Len(calls) \in 0 .. MaxCalls
    BY DEF TypeOK
<1>2. c \in 1 .. Len(calls) /\ MaxCalls \in Nat /\ MaxBlocks \in Nat
    BY <1>1, StoreAssumption DEF Made
<1>3. c \in Calls /\ calls[c] \in Call
    BY <1>1, <1>2 DEF Calls
<1> QED
    BY <1>2, <1>3 DEF Call

\* A step of call c turns its record into r, which asks for the same as before.
Becomes(c, r) ==
    /\ calls' = [calls EXCEPT ![c] = r]
    /\ r \in Call
    /\ r.op = calls[c].op /\ r.size = calls[c].size /\ r.over = calls[c].over
    /\ ~Over(c)

LEMMA BecomesFrame ==
    ASSUME TypeOK, NEW c \in Made, NEW r, Becomes(c, r)
    PROVE  /\ calls' \in Seq(Call) /\ Len(calls') = Len(calls)
           /\ Made' = Made
           /\ calls'[c] = r
           /\ \A d \in Made \ {c} : calls'[d] = calls[d]
BY DEF TypeOK, Made, Becomes

\* The effects a step of a call can have, in terms of the fields of its record
\* before (s) and after (r).
Keeps(s, r) == r.file = s.file /\ r.blocks = s.blocks /\ r.answer = s.answer

\* Goes on to its thread, is given up or is no longer awaited.
Waits(s, r) ==
    /\ Keeps(s, r)
    /\ \/ r.step = s.step
       \/ s.step \in {"made", "queued"} /\ r.step = "dropped"
       \/ s.step = "made" /\ r.step = "queued" /\ (s.op = "save" \/ path # NoFile)
    /\ UNCHANGED <<path, disk>>

\* Opens the file for writing.
Opens(c, s, r) ==
    /\ s.op = "save" /\ s.step = "queued"
    /\ r.step = "open" /\ r.file = path' /\ r.blocks = s.blocks /\ r.answer = s.answer
    /\ path' = IF path = NoFile THEN c ELSE path
    /\ disk' = [disk EXCEPT ![path'] = <<>>]

Writes(c, s, r) ==
    /\ s.op = "save" /\ s.step = "open" /\ r.step = "open"
    /\ Len(s.blocks) + 1 <= s.size
    /\ r.file = s.file /\ r.answer = s.answer
    /\ r.blocks = Append(s.blocks, c)
    /\ disk' = [disk EXCEPT ![s.file] = WithBlock(disk[s.file], Len(s.blocks) + 1, c)]
    /\ UNCHANGED path

Closes(s, r) ==
    /\ s.op = "save" /\ s.step = "open" /\ r.step = "done"
    /\ Len(s.blocks) = s.size
    /\ r.file = s.file /\ r.blocks = s.blocks
    /\ r.answer \in {s.answer, <<"saved">>}
    /\ UNCHANGED <<path, disk>>

\* Finds no file.
Misses(s, r) ==
    /\ s.op \in {"load", "delete"} /\ s.step \in {"made", "queued"} /\ r.step = "done"
    /\ r.file = s.file /\ r.blocks = s.blocks
    /\ r.answer \in {s.answer, <<"not_found">>, <<"absent">>, <<"nothing">>}
    /\ s.step = "made" => r.answer \in {s.answer, <<"absent">>, <<"nothing">>}
    /\ s.step = "made" /\ s.op = "load" => r.answer \in {s.answer, <<"absent">>}
    /\ path = NoFile
    /\ UNCHANGED <<path, disk>>

ReadOpens(s, r) ==
    /\ s.op = "load" /\ s.step = "queued" /\ r.step = "open"
    /\ r.file = path /\ r.blocks = s.blocks /\ r.answer = s.answer
    /\ path # NoFile
    /\ UNCHANGED <<path, disk>>

Reads(s, r) ==
    /\ s.op = "load" /\ s.step = "open" /\ r.step = "open"
    /\ Len(s.blocks) + 1 \in DOMAIN disk[s.file]
    /\ r.file = s.file /\ r.answer = s.answer
    /\ r.blocks = Append(s.blocks, disk[s.file][Len(s.blocks) + 1])
    /\ UNCHANGED <<path, disk>>

ReadEnds(s, r) ==
    /\ s.op = "load" /\ s.step = "open" /\ r.step = "done"
    /\ Len(s.blocks) + 1 \notin DOMAIN disk[s.file]
    /\ r.file = s.file /\ r.blocks = s.blocks
    /\ r.answer \in {s.answer, Decrypted(s.blocks)}
    /\ UNCHANGED <<path, disk>>

Removes(s, r) ==
    /\ s.op = "delete" /\ s.step = "queued" /\ r.step = "done"
    /\ r.file = path /\ path # NoFile /\ r.blocks = s.blocks
    /\ r.answer \in {s.answer, <<"deleted">>}
    /\ path' = NoFile /\ UNCHANGED disk

Affects(c, s, r) ==
    \/ Waits(s, r) \/ Opens(c, s, r) \/ Writes(c, s, r) \/ Closes(s, r)
    \/ Misses(s, r) \/ ReadOpens(s, r) \/ Reads(s, r) \/ ReadEnds(s, r) \/ Removes(s, r)

LEMMA DecryptedType == ASSUME TypeOK, NEW b PROVE Decrypted(b) \in Answers
<1> DEFINE whole == {v \in Made : calls[v].op = "save" /\ b = Payload(v)}
<1>1. whole \subseteq Calls
    BY CallFields
<1> HIDE DEF whole
<1>2. whole # {} => (CHOOSE v \in whole : TRUE) \in Calls
    BY <1>1
<1>3. Decrypted(b) = IF whole = {} THEN <<"refused">> ELSE <<"loaded", CHOOSE v \in whole : TRUE>>
    BY DEF Decrypted, whole
<1> QED
    BY <1>2, <1>3 DEF Answers

\* A call that ends.
LEMMA EndsAs ==
    ASSUME TypeOK, NEW c \in Made, ~Over(c), NEW answer \in Answers, calls' = Ended(c, answer)
    PROVE  \E r : /\ Becomes(c, r)
                  /\ r.step = "done" /\ r.file = calls[c].file /\ r.blocks = calls[c].blocks
                  /\ r.answer \in {calls[c].answer, answer}
<1> DEFINE s == calls[c]
           a == IF s.awaited THEN answer ELSE s.answer
           r == [s EXCEPT !.step = "done", !.answer = a]
<1>1. s \in Call /\ a \in Answers /\ a \in {answer, s.answer}
    BY CallFields
<1>2. calls' = [calls EXCEPT ![c] = r]
    BY <1>1 DEF Ended, Call
<1> HIDE DEF a
<1>3. r \in Call /\ r.op = s.op /\ r.size = s.size /\ r.over = s.over
    BY <1>1 DEF Call
<1>4. r.step = "done" /\ r.file = s.file /\ r.blocks = s.blocks /\ r.answer = a
    BY <1>1 DEF Call
<1> QED
    BY <1>1, <1>2, <1>3, <1>4 DEF Becomes

\* A thread that has opened a file knows it.
OpenFiles == \A c \in Made : calls[c].step = "open" => calls[c].file # NoFile

LEMMA WorkAffects ==
    ASSUME TypeOK, OpenFiles, NEW c \in Made, Work(c) \/ cancel(c)
    PROVE  \E r : Becomes(c, r) /\ Affects(c, calls[c], r)
<1> DEFINE s == calls[c]
           Done == \E r : Becomes(c, r) /\ Affects(c, s, r)
<1>s. s \in Call /\ c \in Calls
    BY CallFields
<1>p. path \in {NoFile} \cup Calls
    BY DEF TypeOK
<1>a. /\ <<"saved">> \in Answers /\ <<"absent">> \in Answers /\ <<"not_found">> \in Answers
      /\ <<"nothing">> \in Answers /\ <<"deleted">> \in Answers
    BY DEF Answers
<1>q. ASSUME s.step = "made", calls' = Queued(c), s.op = "save" \/ path # NoFile,
             UNCHANGED <<path, disk>>
      PROVE  Done
  <2> DEFINE r == [s EXCEPT !.step = "queued"]
  <2>1. Becomes(c, r)
      BY <1>s, <1>q DEF Becomes, Queued, Call, Over
  <2>2. Waits(s, r)
      BY <1>s, <1>q DEF Waits, Keeps, Call
  <2> QED
      BY <2>1, <2>2 DEF Affects
<1>m. ASSUME s.op \in {"load", "delete"}, s.step \in {"made", "queued"}, path = NoFile,
             UNCHANGED <<path, disk>>, NEW a \in {<<"not_found">>, <<"absent">>, <<"nothing">>},
             s.step = "made" => a # <<"not_found">>,
             s.step = "made" /\ s.op = "load" => a = <<"absent">>,
             calls' = Ended(c, a)
      PROVE  Done
  <2>1. ~Over(c) /\ a \in Answers
      BY <1>a, <1>m DEF Over
  <2>2. PICK r : /\ Becomes(c, r)
                 /\ r.step = "done" /\ r.file = s.file /\ r.blocks = s.blocks
                 /\ r.answer \in {s.answer, a}
      BY <1>m, <2>1, EndsAs
  <2>3. Misses(s, r)
      BY <1>m, <2>2 DEF Misses
  <2> QED
      BY <2>2, <2>3 DEF Affects
<1>1. CASE save_group(c)
    BY <1>1, <1>q DEF save_group, At
<1>2. CASE write_open(c)
  <2> DEFINE r == [s EXCEPT !.step = "open", !.file = path']
  <2>1. path' \in Calls
      BY <1>2, <1>s, <1>p DEF write_open
  <2>2. Becomes(c, r)
      BY <1>2, <1>s, <2>1 DEF Becomes, write_open, At, Call, Over
  <2>3. Opens(c, s, r)
      BY <1>2, <1>s DEF Opens, write_open, At, Call
  <2> QED
      BY <2>2, <2>3 DEF Affects
<1>3. CASE write_block(c)
  <2> DEFINE r == [s EXCEPT !.blocks = Append(s.blocks, c)]
  <2>1. s.blocks \in Seq({Hole} \cup Calls)
      BY CallFields
  <2>2. Append(s.blocks, c) \in Seq({Hole} \cup Calls)
      BY <1>s, <2>1
  <2>3. Becomes(c, r)
      BY <1>3, <1>s, <2>2 DEF Becomes, write_block, At, Call, Over
  <2>4. Writes(c, s, r)
      BY <1>3, <1>s DEF Writes, write_block, At, Call
  <2> QED
      BY <2>3, <2>4 DEF Affects
<1>4. CASE write_close(c)
  <2>1. ~Over(c) /\ calls' = Ended(c, <<"saved">>)
      BY <1>4 DEF Over, write_close, At
  <2>2. PICK r : /\ Becomes(c, r)
                 /\ r.step = "done" /\ r.file = s.file /\ r.blocks = s.blocks
                 /\ r.answer \in {s.answer, <<"saved">>}
      BY <1>a, <2>1, EndsAs
  <2>3. Closes(s, r)
      BY <1>4, <2>2 DEF Closes, write_close, At
  <2> QED
      BY <2>2, <2>3 DEF Affects
<1>5. CASE load_group(c)
    BY <1>5, <1>q, <1>m DEF load_group, At
<1>6. CASE read_open(c)
  <2>1. CASE path = NoFile
      BY <1>6, <1>m, <2>1 DEF read_open, At
  <2>2. CASE path # NoFile
    <3> DEFINE r == [s EXCEPT !.step = "open", !.file = path]
    <3>1. Becomes(c, r)
        BY <1>6, <1>s, <1>p, <2>2 DEF Becomes, read_open, At, Call, Over
    <3>2. ReadOpens(s, r)
        BY <1>6, <1>s, <2>2 DEF ReadOpens, read_open, At, Call
    <3> QED
        BY <3>1, <3>2 DEF Affects
  <2> QED
      BY <2>1, <2>2
<1>7. CASE read_block(c)
  <2> DEFINE b == disk[s.file][Len(s.blocks) + 1]
             r == [s EXCEPT !.blocks = Append(s.blocks, b)]
  <2>0. Len(s.blocks) + 1 \in DOMAIN disk[s.file]
      BY <1>7 DEF read_block, NextBlock
  <2>1. s.blocks \in Seq({Hole} \cup Calls)
      BY CallFields
  <2>2. b \in {Hole} \cup Calls
    <3>1. s.file \in Calls
        BY <1>7, CallFields DEF OpenFiles, read_block, At
    <3>2. disk[s.file] \in Seq({Hole} \cup Calls)
        BY <3>1 DEF TypeOK
    <3> QED
        BY <2>0, <3>2
  <2> HIDE DEF b
  <2>3. Append(s.blocks, b) \in Seq({Hole} \cup Calls)
      BY <2>1, <2>2
  <2>4. calls' = [calls EXCEPT ![c].blocks = Append(@, b)]
      BY <1>7 DEF read_block, NextBlock, b
  <2>5. Becomes(c, r)
      BY <1>7, <1>s, <2>3, <2>4 DEF Becomes, read_block, At, Call, Over
  <2>6. Reads(s, r)
      BY <1>7, <1>s, <2>0 DEF Reads, read_block, At, Call, b
  <2> QED
      BY <2>5, <2>6 DEF Affects
<1>8. CASE read_end(c)
  <2>1. ~Over(c) /\ calls' = Ended(c, Decrypted(s.blocks))
      BY <1>8 DEF Over, read_end, At
  <2>2. PICK r : /\ Becomes(c, r)
                 /\ r.step = "done" /\ r.file = s.file /\ r.blocks = s.blocks
                 /\ r.answer \in {s.answer, Decrypted(s.blocks)}
      BY <2>1, DecryptedType, EndsAs
  <2>3. ReadEnds(s, r)
      BY <1>8, <2>2 DEF ReadEnds, read_end, At, NextBlock
  <2> QED
      BY <2>2, <2>3 DEF Affects
<1>9. CASE delete_group(c)
    BY <1>9, <1>q, <1>m DEF delete_group, At
<1>10. CASE remove(c)
  <2>1. CASE path = NoFile
      BY <1>10, <1>m, <2>1 DEF remove, At
  <2>2. CASE path # NoFile
    <3> DEFINE a == IF s.awaited THEN <<"deleted">> ELSE s.answer
               r == [s EXCEPT !.step = "done", !.answer = a, !.file = path]
    <3>1. a \in Answers /\ a \in {s.answer, <<"deleted">>} /\ path \in Calls
        BY <1>a, <1>p, <2>2, CallFields
    <3>2. calls' = [calls EXCEPT ![c] = r]
        BY <1>10, <1>s, <2>2 DEF remove, Ended, Call
    <3> HIDE DEF a
    <3>3. Becomes(c, r)
        BY <1>10, <1>s, <3>1, <3>2 DEF Becomes, remove, At, Call, Over
    <3>4. Removes(s, r)
        BY <1>10, <1>s, <2>2, <3>1 DEF Removes, remove, At, Call
    <3> QED
        BY <3>3, <3>4 DEF Affects
  <2> QED
      BY <2>1, <2>2
<1>11. CASE cancel(c)
  <2>1. CASE /\ s.step \in {"made", "queued"}
             /\ calls' = [calls EXCEPT ![c].awaited = FALSE, ![c].step = "dropped"]
    <3> DEFINE r == [s EXCEPT !.awaited = FALSE, !.step = "dropped"]
    <3>1. Becomes(c, r)
        BY <1>s, <2>1 DEF Becomes, Call, Over
    <3>2. Waits(s, r)
        BY <1>11, <1>s, <2>1 DEF Waits, Keeps, Call, cancel
    <3> QED
        BY <3>1, <3>2 DEF Affects
  <2>2. CASE /\ s.step \in {"queued", "open"}
             /\ calls' = [calls EXCEPT ![c].awaited = FALSE]
    <3> DEFINE r == [s EXCEPT !.awaited = FALSE]
    <3>1. Becomes(c, r)
        BY <1>s, <2>2 DEF Becomes, Call, Over
    <3>2. Waits(s, r)
        BY <1>11, <1>s, <2>2 DEF Waits, Keeps, Call, cancel
    <3> QED
        BY <3>1, <3>2 DEF Affects
  <2> QED
      BY <1>11, <2>1, <2>2 DEF cancel
<1> QED
    BY <1>1, <1>2, <1>3, <1>4, <1>5, <1>6, <1>7, <1>8, <1>9, <1>10, <1>11 DEF Work

-----------------------------------------------------------------------------
(* Each call by itself *)

\* What the record of call c says about how far the call came.
Sound(c, s) ==
    /\ s.step = "open" => s.file # NoFile
    /\ s.step \in {"made", "queued", "dropped"} => s.file = NoFile
    /\ s.file = NoFile => s.blocks = <<>>
    /\ s.step # "done" => s.answer = Pending
    /\ s.op = "save" => Len(s.blocks) <= s.size /\ \A i \in DOMAIN s.blocks : s.blocks[i] = c
    /\ s.op = "save" /\ s.step = "done" => s.file # NoFile /\ Len(s.blocks) = s.size
    /\ s.step = "open" => s.op # "delete"

\* The calls that were over when another was made stay over.
Settled == \A c \in Made : \A v \in calls[c].over : v \in Made /\ Over(v)

CallsInv == TypeOK /\ Settled /\ \A c \in Made : Sound(c, calls[c])

LEMMA AffectsSound ==
    ASSUME TypeOK, NEW c \in Made, NEW r, Becomes(c, r), Affects(c, calls[c], r),
           Sound(c, calls[c])
    PROVE  Sound(c, r)
<1> DEFINE s == calls[c]
<1>1. s \in Call /\ s.blocks \in Seq({Hole} \cup Calls) /\ s.size \in Nat \ {0} /\ c \in Calls
      /\ c # NoFile
    BY CallFields DEF NoFile
<1>2. r.op = s.op /\ r.size = s.size /\ ~Over(c)
    BY DEF Becomes
<1>3. s.op \in {"save", "load", "delete"} /\ s.step \in {"made", "queued", "open"}
    BY <1>1, <1>2 DEF Call, Over
<1>4. CASE Waits(s, r)
    BY <1>2, <1>3, <1>4 DEF Waits, Keeps, Sound
<1>5. CASE Opens(c, s, r)
    BY <1>1, <1>2, <1>5 DEF Opens, Sound
<1>6. CASE Writes(c, s, r)
    BY <1>1, <1>2, <1>6 DEF Writes, Sound
<1>7. CASE Closes(s, r)
    BY <1>2, <1>7 DEF Closes, Sound
<1>8. CASE Misses(s, r)
    BY <1>2, <1>8 DEF Misses, Sound
<1>9. CASE ReadOpens(s, r)
    BY <1>2, <1>9 DEF ReadOpens, Sound
<1>10. CASE Reads(s, r)
    BY <1>1, <1>2, <1>10 DEF Reads, Sound
<1>11. CASE ReadEnds(s, r)
    BY <1>2, <1>11 DEF ReadEnds, Sound
<1>12. CASE Removes(s, r)
    BY <1>2, <1>12 DEF Removes, Sound
<1> QED
    BY <1>4, <1>5, <1>6, <1>7, <1>8, <1>9, <1>10, <1>11, <1>12 DEF Affects

LEMMA WithBlockType ==
    ASSUME NEW S, Hole \in S, NEW b \in Seq(S), NEW at \in Nat, NEW v \in S
    PROVE  WithBlock(b, at, v) \in Seq(S)
<1> DEFINE n == IF at > Len(b) THEN at ELSE Len(b)
<1>1. n \in Nat /\ \A i \in DOMAIN b : b[i] \in S
    OBVIOUS
<1>2. WithBlock(b, at, v) \in [1 .. n -> S]
    BY <1>1 DEF WithBlock
<1> HIDE DEF n
<1> QED
    BY <1>1, <1>2, SeqDef

LEMMA AffectsTyped ==
    ASSUME TypeOK, NEW c \in Made, NEW r, Becomes(c, r), Affects(c, calls[c], r),
           Sound(c, calls[c])
    PROVE  path' \in {NoFile} \cup Calls /\ disk' \in [Calls -> Seq({Hole} \cup Calls)]
<1> DEFINE s == calls[c]
<1>1. /\ s \in Call /\ s.blocks \in Seq({Hole} \cup Calls) /\ c \in Calls
      /\ s.file \in {NoFile} \cup Calls
    BY CallFields
<1>2. path \in {NoFile} \cup Calls /\ disk \in [Calls -> Seq({Hole} \cup Calls)]
    BY DEF TypeOK
<1>3. CASE Opens(c, s, r)
  <2>1. path' \in Calls /\ disk' = [disk EXCEPT ![path'] = <<>>]
      BY <1>1, <1>2, <1>3 DEF Opens
  <2>2. <<>> \in Seq({Hole} \cup Calls)
      BY EmptySeq
  <2> QED
      BY <1>2, <2>1, <2>2
<1>4. CASE Writes(c, s, r)
  <2>1. s.file \in Calls
      BY <1>1, <1>4 DEF Writes, Sound
  <2>2. WithBlock(disk[s.file], Len(s.blocks) + 1, c) \in Seq({Hole} \cup Calls)
    <3> DEFINE S == {Hole} \cup Calls
    <3>1. /\ Hole \in S /\ c \in S /\ disk[s.file] \in Seq(S)
          /\ Len(s.blocks) + 1 \in Nat
        BY <1>1, <1>2, <2>1
    <3> HIDE DEF S
    <3>2. WithBlock(disk[s.file], Len(s.blocks) + 1, c) \in Seq(S)
        BY <3>1, WithBlockType
    <3> QED
        BY <3>2 DEF S
  <2> QED
      BY <1>2, <1>4, <2>2 DEF Writes
<1>5. CASE UNCHANGED <<path, disk>> \/ (path' = NoFile /\ UNCHANGED disk)
    BY <1>2, <1>5
<1> QED
    BY <1>3, <1>4, <1>5 DEF Affects, Waits, Closes, Misses, ReadOpens, Reads, ReadEnds, Removes

\* The record of a call that is made.
Asked(op, size) ==
    [op |-> op, size |-> size, over |-> Made \ Ongoing, step |-> "made", file |-> NoFile,
     blocks |-> <<>>, answer |-> Pending, awaited |-> TRUE]

LEMMA MakeAsks ==
    ASSUME CallsInv, NEW op \in {"save", "load", "delete"}, NEW size \in 1 .. MaxBlocks,
           make(op, size)
    PROVE  /\ calls' \in Seq(Call) /\ Len(calls') = Len(calls) + 1 /\ Len(calls') <= MaxCalls
           /\ Made' = Made \cup {Len(calls) + 1} /\ Len(calls) + 1 \notin Made
           /\ calls'[Len(calls) + 1] = Asked(op, size)
           /\ \A d \in Made : calls'[d] = calls[d]
<1> DEFINE r == Asked(op, size)
<1>1. /\ calls' = Append(calls, r)
      /\ Len(calls) < MaxCalls
    BY DEF make, MayMake, Asked
<1>2. calls \in Seq(Call) /\ Len(calls) \in Nat /\ MaxCalls \in Nat
    BY StoreAssumption DEF CallsInv, TypeOK
<1>3. r \in Call
  <2>1. Made \ Ongoing \in SUBSET Calls
      BY CallFields DEF CallsInv
  <2>2. Pending \in Answers /\ <<>> \in Seq({Hole} \cup Calls)
      BY EmptySeq DEF Answers
  <2> QED
      BY <2>1, <2>2 DEF Asked, Call
<1> HIDE DEF r
<1>4. calls' \in Seq(Call) /\ Len(calls') = Len(calls) + 1
    BY <1>1, <1>2, <1>3
<1>5. Made' = Made \cup {Len(calls) + 1} /\ Len(calls) + 1 \notin Made
    BY <1>1, <1>2, <1>4 DEF Made
<1>6. calls'[Len(calls) + 1] = r /\ \A d \in Made : calls'[d] = calls[d]
    BY <1>1, <1>2, <1>3 DEF Made
<1>7. Len(calls') <= MaxCalls
    BY <1>1, <1>2, <1>4
<1> QED
    BY <1>4, <1>5, <1>6, <1>7 DEF r

LEMMA CrashKills ==
    ASSUME CallsInv, crash
    PROVE  /\ calls' \in Seq(Call) /\ Len(calls') = Len(calls) /\ Made' = Made
           /\ \A d \in Made : Over(d) => calls'[d] = calls[d]
           /\ \A d \in Made : ~Over(d) => calls'[d] = [calls[d] EXCEPT !.step = "killed"]
<1>1. calls \in Seq(Call) /\ Made = 1 .. Len(calls) /\ Len(calls) \in Nat
    BY DEF CallsInv, TypeOK, Made
<1>2. calls' = [c \in Made |-> IF Over(c) THEN calls[c] ELSE [calls[c] EXCEPT !.step = "killed"]]
    BY DEF crash
<1>3. ASSUME NEW c \in Made PROVE [calls[c] EXCEPT !.step = "killed"] \in Call
  <2>1. calls[c] \in Call
      BY <1>1
  <2> QED
      BY <2>1 DEF Call
<1>4. calls' \in [1 .. Len(calls) -> Call]
    BY <1>1, <1>2, <1>3
<1>5. calls' \in Seq(Call) /\ Len(calls') = Len(calls) /\ Made' = Made
    BY <1>1, <1>4, SeqDef DEF Made
<1> QED
    BY <1>2, <1>5

LEMMA StepCalls == CallsInv /\ [Next]_vars => CallsInv'
<1> SUFFICES ASSUME CallsInv, [Next]_vars PROVE CallsInv'
    OBVIOUS
<1>t. TypeOK /\ OpenFiles
    BY DEF CallsInv, OpenFiles, Sound
<1>1. ASSUME NEW op \in {"save", "load", "delete"}, NEW size \in 1 .. MaxBlocks, make(op, size)
      PROVE  CallsInv'
  <2> DEFINE n == Len(calls) + 1
  <2>1. /\ calls' \in Seq(Call) /\ Len(calls') = n /\ Len(calls') <= MaxCalls
        /\ Made' = Made \cup {n} /\ n \notin Made
        /\ calls'[n] = Asked(op, size)
        /\ \A d \in Made : calls'[d] = calls[d]
      BY <1>1, MakeAsks
  <2>2. UNCHANGED <<path, disk, crashes>>
      BY <1>1 DEF make
  <2>3. TypeOK'
      BY <1>t, <2>1, <2>2, StoreAssumption DEF TypeOK
  <2>4. Sound(n, Asked(op, size))
    <3>1. Len(<<>>) = 0 /\ DOMAIN <<>> = {} /\ size \in Nat
        BY StoreAssumption
    <3> QED
        BY <3>1 DEF Sound, Asked
  <2>5. \A c \in Made' : Sound(c, calls'[c])
      BY <2>1, <2>4 DEF CallsInv
  <2>6. Settled'
    <3>1. \A c \in Made : calls'[c].over = calls[c].over /\ (Over(c) => Over(c)')
        BY <2>1 DEF Over
    <3>2. calls'[n].over = {c \in Made : Over(c)}
        BY <2>1 DEF Asked, Ongoing
    <3> QED
        BY <2>1, <3>1, <3>2 DEF Settled, CallsInv
  <2> QED
      BY <2>3, <2>5, <2>6 DEF CallsInv
<1>2. ASSUME NEW c \in Made, Work(c) \/ cancel(c) PROVE CallsInv'
  <2>1. PICK r : Becomes(c, r) /\ Affects(c, calls[c], r)
      BY <1>2, <1>t, WorkAffects
  <2>2. /\ calls' \in Seq(Call) /\ Len(calls') = Len(calls) /\ Made' = Made
        /\ calls'[c] = r /\ \A d \in Made \ {c} : calls'[d] = calls[d]
      BY <1>t, <2>1, BecomesFrame
  <2>3. path' \in {NoFile} \cup Calls /\ disk' \in [Calls -> Seq({Hole} \cup Calls)]
      BY <1>t, <2>1, AffectsTyped DEF CallsInv
  <2>4. UNCHANGED crashes
      BY <1>2 DEF Work, cancel, save_group, write_open, write_block, write_close, load_group,
                  read_open, read_block, read_end, delete_group, remove
  <2>5. TypeOK'
      BY <1>t, <2>2, <2>3, <2>4 DEF TypeOK
  <2>6. Sound(c, r)
      BY <1>t, <2>1, AffectsSound DEF CallsInv
  <2>7. \A d \in Made' : Sound(d, calls'[d])
      BY <2>2, <2>6 DEF CallsInv
  <2>8. Settled'
    <3>1. \A d \in Made : calls'[d].over = calls[d].over /\ (Over(d) => Over(d)')
        BY <2>1, <2>2 DEF Over, Becomes
    <3> QED
        BY <2>2, <3>1 DEF Settled, CallsInv
  <2> QED
      BY <2>5, <2>7, <2>8 DEF CallsInv
<1>3. CASE crash
  <2>1. /\ calls' \in Seq(Call) /\ Len(calls') = Len(calls) /\ Made' = Made
        /\ \A d \in Made : Over(d) => calls'[d] = calls[d]
        /\ \A d \in Made : ~Over(d) => calls'[d] = [calls[d] EXCEPT !.step = "killed"]
      BY <1>3, CrashKills
  <2>2. crashes' \in 0 .. MaxCrashes /\ UNCHANGED <<path, disk>>
      BY <1>3, StoreAssumption DEF crash, CallsInv, TypeOK
  <2>3. TypeOK'
      BY <1>t, <2>1, <2>2 DEF TypeOK
  <2>4. ASSUME NEW d \in Made
        PROVE  Sound(d, calls'[d]) /\ calls'[d].over = calls[d].over /\ (Over(d) => Over(d)')
    <3>1. calls[d] \in Call /\ Sound(d, calls[d])
        BY CallFields DEF CallsInv
    <3>2. CASE Over(d)
        BY <2>1, <3>1, <3>2 DEF Over
    <3>3. CASE ~Over(d)
        BY <2>1, <3>1, <3>3 DEF Over, Sound, Call
    <3> QED
        BY <3>2, <3>3
  <2> QED
      BY <2>1, <2>3, <2>4 DEF CallsInv, Settled
<1>4. CASE UNCHANGED vars
    BY <1>4 DEF vars, CallsInv, TypeOK, Settled, Made, Over
<1>5. 1 \in 1 .. MaxBlocks
    BY StoreAssumption
<1> QED
    BY <1>1, <1>2, <1>3, <1>4, <1>5 DEF Next

LEMMA InitCalls == Init => CallsInv
<1> SUFFICES ASSUME Init PROVE CallsInv
    OBVIOUS
<1>1. calls = <<>> /\ Made = {}
    BY DEF Init, Made
<1>2. \A S : <<>> \in Seq(S)
    BY EmptySeq
<1>3. TypeOK
    BY <1>1, <1>2, StoreAssumption DEF Init, TypeOK
<1> QED
    BY <1>1, <1>3 DEF CallsInv, Settled

(***************************************************************************)
(* What the threads leave on disk and in the records of the calls is       *)
(* well-formed: a thread writes and reads only a file that it has opened,  *)
(* and what a load answers is a state that some save was given.            *)
(***************************************************************************)
THEOREM StoreTypeCorrect == Spec => []TypeOK
<1>1. CallsInv => TypeOK
    BY DEF CallsInv
<1> QED
    BY <1>1, InitCalls, StepCalls, PTL DEF Spec

-----------------------------------------------------------------------------
(* What a step does, seen from any call *)

\* Nothing happens to the file: a call is made, or the process crashes.
Still ==
    /\ UNCHANGED <<path, disk>> /\ Made \subseteq Made'
    /\ \A d \in Made :
          /\ Keeps(calls[d], calls'[d])
          /\ calls'[d].op = calls[d].op /\ calls'[d].size = calls[d].size
          /\ calls'[d].over = calls[d].over
          /\ calls'[d].step = calls[d].step \/ (~Over(d) /\ calls'[d].step = "killed")
    /\ \A d \in Made' \ Made :
          /\ calls'[d].step = "made" /\ calls'[d].file = NoFile
          /\ calls'[d].blocks = <<>> /\ calls'[d].answer = Pending

LEMMA StepKinds ==
    ASSUME CallsInv, [Next]_vars
    PROVE  Still \/ \E c \in Made : \E r : Becomes(c, r) /\ Affects(c, calls[c], r)
<1>t. TypeOK /\ OpenFiles
    BY DEF CallsInv, OpenFiles, Sound
<1>1. ASSUME NEW op \in {"save", "load", "delete"}, NEW size \in 1 .. MaxBlocks, make(op, size)
      PROVE  Still
  <2>1. /\ Made' = Made \cup {Len(calls) + 1}
        /\ calls'[Len(calls) + 1] = Asked(op, size)
        /\ \A d \in Made : calls'[d] = calls[d]
      BY <1>1, MakeAsks
  <2>2. UNCHANGED <<path, disk>>
      BY <1>1 DEF make
  <2> QED
      BY <2>1, <2>2 DEF Still, Keeps, Asked
<1>2. CASE crash
  <2>1. /\ Made' = Made
        /\ \A d \in Made : Over(d) => calls'[d] = calls[d]
        /\ \A d \in Made : ~Over(d) => calls'[d] = [calls[d] EXCEPT !.step = "killed"]
      BY <1>2, CrashKills
  <2>2. UNCHANGED <<path, disk>>
      BY <1>2 DEF crash
  <2>3. ASSUME NEW d \in Made
        PROVE  /\ Keeps(calls[d], calls'[d])
               /\ calls'[d].op = calls[d].op /\ calls'[d].size = calls[d].size
               /\ calls'[d].over = calls[d].over
               /\ calls'[d].step = calls[d].step \/ (~Over(d) /\ calls'[d].step = "killed")
    <3>1. calls[d] \in Call
        BY <1>t, CallFields
    <3> QED
        BY <2>1, <3>1 DEF Keeps, Call
  <2> QED
      BY <2>1, <2>2, <2>3 DEF Still
<1>3. CASE UNCHANGED vars
    BY <1>3 DEF vars, Still, Keeps, Made
<1>4. 1 \in 1 .. MaxBlocks
    BY StoreAssumption
<1>5. ASSUME NEW c \in Made, Work(c) \/ cancel(c)
      PROVE  \E r : Becomes(c, r) /\ Affects(c, calls[c], r)
    BY <1>5, <1>t, WorkAffects
<1> QED
    BY <1>1, <1>2, <1>3, <1>4, <1>5 DEF Next

LEMMA StepFrame ==
    ASSUME CallsInv, [Next]_vars
    PROVE  /\ Made \subseteq Made'
           /\ \A d \in Made :
                 /\ calls'[d].op = calls[d].op /\ calls'[d].size = calls[d].size
                 /\ calls'[d].over = calls[d].over
                 /\ Over(d) => /\ Over(d)' /\ calls'[d].step = calls[d].step
                               /\ Keeps(calls[d], calls'[d])
                 /\ calls[d].file # NoFile => calls'[d].file = calls[d].file
           /\ \A d \in Made' \ Made :
                 /\ calls'[d].step = "made" /\ calls'[d].file = NoFile
                 /\ calls'[d].blocks = <<>> /\ calls'[d].answer = Pending
<1>1. CASE Still
    BY <1>1 DEF Still, Keeps, Over
<1>2. ASSUME NEW c \in Made, NEW r, Becomes(c, r), Affects(c, calls[c], r)
      PROVE  /\ Made' = Made
             /\ \A d \in Made :
                   /\ calls'[d].op = calls[d].op /\ calls'[d].size = calls[d].size
                   /\ calls'[d].over = calls[d].over
                   /\ Over(d) => /\ Over(d)' /\ calls'[d].step = calls[d].step
                                 /\ Keeps(calls[d], calls'[d])
                   /\ calls[d].file # NoFile => calls'[d].file = calls[d].file
  <2>1. /\ Made' = Made /\ calls'[c] = r /\ \A d \in Made \ {c} : calls'[d] = calls[d]
      BY <1>2, BecomesFrame DEF CallsInv
  <2>2. /\ r.op = calls[c].op /\ r.size = calls[c].size /\ r.over = calls[c].over /\ ~Over(c)
      BY <1>2 DEF Becomes
  <2>3. calls[c].file # NoFile => r.file = calls[c].file
      BY <1>2 DEF CallsInv, Sound, Affects, Waits, Keeps, Opens, Writes, Closes, Misses,
                  ReadOpens, Reads, ReadEnds, Removes
  <2> QED
      BY <2>1, <2>2, <2>3 DEF Over, Keeps
<1> QED
    BY <1>1, <1>2, StepKinds

-----------------------------------------------------------------------------
(* No load gets a state that was replaced *)

Without(v, blocks) == \A i \in DOMAIN blocks : blocks[i] # v

\* Save or delete w, made when call v was over, has cut or removed the file, or
\* found that it was gone.
Replaced(v, w) ==
    /\ v \in calls[w].over
    /\ \/ calls[w].op \in {"save", "delete"} /\ calls[w].file # NoFile
       \/ calls[w].op = "delete" /\ calls[w].step = "done"

\* Then no block of v is in the file that the name leads to, and none in what
\* a load made after w has opened or read.
FileIsFresh ==
    \A w \in Made, v \in Made :
        Replaced(v, w) /\ path # NoFile => Without(v, disk[path])

ReadsAreFresh ==
    \A l \in Made, w \in Made, v \in Made :
        calls[l].op = "load" /\ w \in calls[l].over /\ Replaced(v, w) =>
            /\ Without(v, calls[l].blocks)
            /\ calls[l].file # NoFile => Without(v, disk[calls[l].file])

\* A state is answered only by a load that has read it.
AnswersAreRead ==
    \A l \in Made : \A v : calls[l].answer = <<"loaded", v>> =>
        /\ calls[l].op = "load"
        /\ \E i \in DOMAIN calls[l].blocks : calls[l].blocks[i] = v

FreshInv == CallsInv /\ FileIsFresh /\ ReadsAreFresh /\ AnswersAreRead

\* A call that is over writes no more: what a file does not have of it, the
\* file never gets.
LEMMA StaysWithout ==
    ASSUME CallsInv, [Next]_vars, NEW v \in Made, Over(v), NEW f \in Calls, Without(v, disk[f])
    PROVE  Without(v, disk'[f])
<1>1. CASE Still
    BY <1>1 DEF Still
<1>2. ASSUME NEW c \in Made, NEW r, Becomes(c, r), Affects(c, calls[c], r)
      PROVE  Without(v, disk'[f])
  <2> DEFINE s == calls[c]
  <2>1. c # v /\ v # Hole
      BY <1>2, CallFields DEF Becomes, CallsInv, Hole
  <2>2. disk \in [Calls -> Seq({Hole} \cup Calls)] /\ s.blocks \in Seq({Hole} \cup Calls)
      BY CallFields DEF CallsInv, TypeOK
  <2>3. CASE Opens(c, s, r)
    <3>1. disk'[f] = disk[f] \/ disk'[f] = <<>>
        BY <2>2, <2>3 DEF Opens
    <3> QED
        BY <3>1 DEF Without
  <2>4. CASE Writes(c, s, r)
    <3> DEFINE at == Len(s.blocks) + 1
    <3>1. disk'[f] = disk[f] \/ disk'[f] = WithBlock(disk[f], at, c)
        BY <2>2, <2>4 DEF Writes
    <3>2. Without(v, WithBlock(disk[f], at, c))
        BY <2>1, <2>2 DEF Without, WithBlock
    <3> QED
        BY <3>1, <3>2
  <2>5. CASE UNCHANGED disk
      BY <2>5
  <2> QED
      BY <1>2, <2>3, <2>4, <2>5 DEF Affects, Waits, Closes, Misses, ReadOpens, Reads, ReadEnds, Removes
<1> QED
    BY <1>1, <1>2, StepKinds

LEMMA StepFresh == FreshInv /\ [Next]_vars => FreshInv'
<1> SUFFICES ASSUME FreshInv, [Next]_vars
             PROVE  FileIsFresh' /\ ReadsAreFresh' /\ AnswersAreRead'
    BY StepCalls DEF FreshInv
<1>i. CallsInv /\ TypeOK /\ Settled
    BY DEF FreshInv, CallsInv
<1>p. path \in {NoFile} \cup Calls
    BY <1>i DEF TypeOK
<1>f. /\ Made \subseteq Made'
      /\ \A d \in Made :
            /\ calls'[d].op = calls[d].op /\ calls'[d].over = calls[d].over
            /\ Over(d) => calls'[d].step = calls[d].step /\ Keeps(calls[d], calls'[d])
            /\ calls[d].file # NoFile => calls'[d].file = calls[d].file
      /\ \A d \in Made' \ Made :
            /\ calls'[d].step = "made" /\ calls'[d].file = NoFile
            /\ calls'[d].blocks = <<>> /\ calls'[d].answer = Pending
    BY <1>i, StepFrame
<1>1. FileIsFresh'
  <2> SUFFICES ASSUME NEW w \in Made', NEW v \in Made', Replaced(v, w)', path' # NoFile
               PROVE  Without(v, disk'[path'])
      BY DEF FileIsFresh
  <2>1. w \in Made /\ v \in calls[w].over /\ v \in Made /\ Over(v)
      BY <1>f, <1>i DEF Replaced, Settled
  <2>2. CASE Still
    <3>1. Replaced(v, w) /\ path # NoFile
        BY <2>1, <2>2 DEF Still, Replaced, Keeps
    <3> QED
        BY <2>1, <2>2, <3>1 DEF FreshInv, FileIsFresh, Still
  <2>3. ASSUME NEW c \in Made, NEW r, Becomes(c, r), Affects(c, calls[c], r)
        PROVE  Without(v, disk'[path'])
    <3> DEFINE s == calls[c]
    <3>1. calls'[c] = r /\ \A d \in Made \ {c} : calls'[d] = calls[d]
        BY <1>i, <2>3, BecomesFrame
    <3>2. CASE Opens(c, s, r)
      <4>1. path' \in Calls /\ disk' = [disk EXCEPT ![path'] = <<>>]
          BY <1>i, <1>p, <3>2, CallFields DEF Opens
      <4>2. disk'[path'] = <<>>
          BY <1>i, <4>1 DEF TypeOK
      <4> QED
          BY <4>2 DEF Without
    <3>3. CASE ~Opens(c, s, r)
      <4>1. path' = path /\ path \in Calls
          BY <1>p, <2>3, <3>3 DEF Affects, Waits, Writes, Closes, Misses, ReadOpens, Reads,
                                  ReadEnds, Removes
      <4>2. Replaced(v, w)
        <5>1. CASE w # c
            BY <2>1, <3>1, <5>1 DEF Replaced
        <5>2. CASE w = c
          <6>1. r.op = s.op /\ r.op \in {"save", "delete"}
              BY <2>3, <3>1, <5>2 DEF Replaced, Becomes
          <6>c. ~Over(c)
              BY <2>3 DEF Becomes
          <6>2. r.file = s.file /\ (r.op = "delete" => r.step # "done")
              BY <2>3, <3>3, <4>1, <6>1, <6>c DEF Affects, Waits, Keeps, Writes, Closes, Misses, ReadOpens,
                                       Reads, ReadEnds, Removes, NoFile, Over
          <6> QED
              BY <2>1, <3>1, <5>2, <6>1, <6>2 DEF Replaced
        <5> QED
            BY <5>1, <5>2
      <4>3. Without(v, disk[path])
          BY <2>1, <4>1, <4>2 DEF FreshInv, FileIsFresh
      <4> QED
          BY <1>i, <2>1, <4>1, <4>3, StaysWithout
    <3> QED
        BY <3>2, <3>3
  <2> QED
      BY <1>i, <2>2, <2>3, StepKinds
<1>2. ReadsAreFresh'
  <2> SUFFICES ASSUME NEW l \in Made', NEW w \in Made', NEW v \in Made',
                      calls'[l].op = "load", w \in calls'[l].over, Replaced(v, w)'
               PROVE  /\ Without(v, calls'[l].blocks)
                      /\ calls'[l].file # NoFile => Without(v, disk'[calls'[l].file])
      BY DEF ReadsAreFresh
  <2>1. CASE l \notin Made
      BY <1>f, <2>1 DEF Without
  <2>2. CASE l \in Made
    <3>1. w \in Made /\ Over(w) /\ w \in calls[l].over /\ calls[l].op = "load"
        BY <1>f, <1>i, <2>2 DEF Settled
    <3>2. Replaced(v, w) /\ v \in Made /\ Over(v)
        BY <1>f, <1>i, <3>1 DEF Replaced, Keeps, Settled
    <3>3. /\ Without(v, calls[l].blocks)
          /\ calls[l].file # NoFile => Without(v, disk[calls[l].file])
        BY <2>2, <3>1, <3>2 DEF FreshInv, ReadsAreFresh
    <3>4. path # NoFile => Without(v, disk[path])
        BY <3>1, <3>2 DEF FreshInv, FileIsFresh
    <3>5. calls'[l].file = calls[l].file \/ (calls'[l].file = path /\ path # NoFile)
      <4>1. CASE Still
          BY <2>2, <4>1 DEF Still, Keeps
      <4>2. ASSUME NEW c \in Made, NEW r, Becomes(c, r), Affects(c, calls[c], r)
            PROVE  calls'[l].file = calls[l].file \/ (calls'[l].file = path /\ path # NoFile)
        <5>1. calls'[c] = r /\ \A d \in Made \ {c} : calls'[d] = calls[d]
            BY <1>i, <4>2, BecomesFrame
        <5>2. CASE l = c
            BY <3>1, <4>2, <5>1, <5>2 DEF Affects, Waits, Keeps, Opens, Writes, Closes, Misses,
                                         ReadOpens, Reads, ReadEnds, Removes
        <5> QED
            BY <2>2, <5>1, <5>2
      <4> QED
          BY <1>i, <4>1, <4>2, StepKinds
    <3>6. calls[l].file \in {NoFile} \cup Calls
        BY <1>i, <2>2, CallFields
    <3>7. calls'[l].file # NoFile => Without(v, disk'[calls'[l].file])
        BY <1>i, <1>p, <3>2, <3>3, <3>4, <3>5, <3>6, StaysWithout
    <3>8. Without(v, calls'[l].blocks)
      <4>1. CASE Still
          BY <2>2, <3>3, <4>1 DEF Still, Keeps
      <4>2. ASSUME NEW c \in Made, NEW r, Becomes(c, r), Affects(c, calls[c], r)
            PROVE  Without(v, calls'[l].blocks)
        <5>1. calls'[c] = r /\ \A d \in Made \ {c} : calls'[d] = calls[d]
            BY <1>i, <4>2, BecomesFrame
        <5>2. CASE l = c /\ Reads(calls[c], r)
          <6> DEFINE b == disk[calls[l].file][Len(calls[l].blocks) + 1]
          <6>1. calls[l].step = "open" /\ r.blocks = Append(calls[l].blocks, b)
                /\ Len(calls[l].blocks) + 1 \in DOMAIN disk[calls[l].file]
              BY <5>2 DEF Reads
          <6>2. calls[l].file # NoFile
              BY <1>i, <2>2, <6>1 DEF CallsInv, Sound
          <6>3. b # v
              BY <3>3, <6>1, <6>2 DEF Without
          <6>4. calls[l].blocks \in Seq({Hole} \cup Calls)
              BY <1>i, <2>2, CallFields
          <6> HIDE DEF b
          <6>5. Without(v, r.blocks)
              BY <3>3, <6>1, <6>3, <6>4 DEF Without
          <6> QED
              BY <5>1, <5>2, <6>5
        <5>3. CASE l = c /\ ~Reads(calls[c], r)
          <6>1. r.blocks = calls[c].blocks
              BY <3>1, <4>2, <5>3 DEF Affects, Waits, Keeps, Opens, Writes, Closes, Misses,
                                      ReadOpens, ReadEnds, Removes
          <6> QED
              BY <3>3, <5>1, <5>3, <6>1
        <5>4. CASE l # c
            BY <2>2, <3>3, <5>1, <5>4
        <5> QED
            BY <5>2, <5>3, <5>4
      <4> QED
          BY <1>i, <4>1, <4>2, StepKinds
    <3> QED
        BY <3>7, <3>8
  <2> QED
      BY <2>1, <2>2
<1>3. AnswersAreRead'
  <2> SUFFICES ASSUME NEW l \in Made', NEW v, calls'[l].answer = <<"loaded", v>>
               PROVE  /\ calls'[l].op = "load"
                      /\ \E i \in DOMAIN calls'[l].blocks : calls'[l].blocks[i] = v
      BY DEF AnswersAreRead
  <2>0. Pending # <<"loaded", v>>
      BY DEF Pending
  <2>1. l \in Made
      BY <1>f, <2>0
  <2>2. CASE calls[l].answer = <<"loaded", v>>
    <3>1. /\ calls[l].op = "load"
          /\ \E i \in DOMAIN calls[l].blocks : calls[l].blocks[i] = v
        BY <2>1, <2>2 DEF FreshInv, AnswersAreRead
    <3>2. Over(l)
      <4>1. Sound(l, calls[l])
          BY <1>i, <2>1 DEF CallsInv
      <4> QED
          BY <2>0, <2>2, <4>1 DEF Sound, Over
    <3> QED
        BY <1>f, <2>1, <3>1, <3>2 DEF Keeps
  <2>3. CASE calls[l].answer # <<"loaded", v>>
    <3>1. ~Still
        BY <2>1, <2>3 DEF Still, Keeps
    <3>2. PICK c \in Made : \E r : Becomes(c, r) /\ Affects(c, calls[c], r)
        BY <1>i, <3>1, StepKinds
    <3>3. PICK r : Becomes(c, r) /\ Affects(c, calls[c], r)
        BY <3>2
    <3>4. calls'[c] = r /\ \A d \in Made \ {c} : calls'[d] = calls[d]
        BY <1>i, <3>3, BecomesFrame
    <3>5. l = c
        BY <2>1, <2>3, <3>4
    <3>6. /\ <<"saved">> # <<"loaded", v>> /\ <<"deleted">> # <<"loaded", v>>
          /\ <<"not_found">> # <<"loaded", v>> /\ <<"absent">> # <<"loaded", v>>
          /\ <<"nothing">> # <<"loaded", v>> /\ <<"refused">> # <<"loaded", v>>
        OBVIOUS
    <3>7. ReadEnds(calls[l], r) /\ Decrypted(calls[l].blocks) = <<"loaded", v>>
        BY <2>3, <3>3, <3>4, <3>5, <3>6 DEF Affects, Waits, Keeps, Opens, Writes, Closes, Misses,
                                           ReadOpens, Reads, ReadEnds, Removes
    <3> DEFINE whole == {u \in Made : calls[u].op = "save" /\ calls[l].blocks = Payload(u)}
    <3>8. whole # {} /\ v = CHOOSE u \in whole : TRUE
        BY <3>6, <3>7 DEF Decrypted
    <3>9. v \in Made /\ calls[l].blocks = Payload(v)
        BY <3>8
    <3>10. calls[l].blocks[1] = v /\ 1 \in DOMAIN calls[l].blocks
        BY <1>i, <3>9, CallFields DEF Payload
    <3>11. calls'[l].op = "load" /\ calls'[l].blocks = calls[l].blocks
      <4>1. calls'[l] = r /\ r.op = calls[l].op
          BY <3>3, <3>4, <3>5 DEF Becomes
      <4> QED
          BY <3>7, <4>1 DEF ReadEnds
    <3> QED
        BY <3>10, <3>11
  <2> QED
      BY <2>2, <2>3
<1> QED
    BY <1>1, <1>2, <1>3

(***************************************************************************)
(* A load never gets a state that a save or a delete, made after that      *)
(* state was saved and completed before the load was made, has replaced or *)
(* removed: however many other calls overlap these, are cancelled or cut   *)
(* off by a crash.                                                         *)
(***************************************************************************)
THEOREM LoadsAreNeverStale == Spec => []NeverStale
<1>1. Init => FreshInv
  <2> SUFFICES ASSUME Init PROVE FreshInv
      OBVIOUS
  <2>1. Made = {}
      BY DEF Init, Made
  <2> QED
      BY <2>1, InitCalls DEF FreshInv, FileIsFresh, ReadsAreFresh, AnswersAreRead
<1>2. FreshInv => NeverStale
  <2> SUFFICES ASSUME FreshInv, NEW l \in Made, NEW v \in Made, NEW w \in Made,
                      calls[l].answer = <<"loaded", v>>, calls[w].op \in {"save", "delete"},
                      v \in calls[w].over, w \in calls[l].over, calls[w].step = "done"
               PROVE  FALSE
      BY DEF NeverStale
  <2>1. Replaced(v, w)
      BY DEF FreshInv, CallsInv, Sound, Replaced
  <2>2. calls[l].op = "load" /\ \E i \in DOMAIN calls[l].blocks : calls[l].blocks[i] = v
      BY DEF FreshInv, AnswersAreRead
  <2>3. Without(v, calls[l].blocks)
      BY <2>1, <2>2 DEF FreshInv, ReadsAreFresh
  <2> QED
      BY <2>2, <2>3 DEF Without
<1> QED
    BY <1>1, <1>2, StepFresh, PTL DEF Spec

-----------------------------------------------------------------------------
(* What the call that came last leaves behind *)

\* The calls that can undo what u did: after a delete another one changes
\* nothing.
Rivals(u) == IF calls[u].op = "save" THEN {"save", "delete"} ELSE {"save"}

\* Whatever could undo it was over when u was made.
Alone(u) == \A w \in Made \ {u} : Changed(w) /\ calls[w].op \in Rivals(u) => w \in calls[u].over

SavedLast ==
    \A u \in Made :
        calls[u].op = "save" /\ calls[u].file # NoFile /\ Alone(u) =>
            path = calls[u].file /\ disk[path] = calls[u].blocks

DeletedLast ==
    \A u \in Made :
        calls[u].op = "delete" /\ calls[u].step = "done" /\ Alone(u) => path = NoFile

\* Load l, made after save u: it has opened the file of u, if any, and read
\* nothing but blocks of u.
ReadsFrom(l, u) ==
    /\ ~Over(l) => /\ calls[l].file \in {NoFile, calls[u].file}
                   /\ Len(calls[l].blocks) <= Len(calls[u].blocks)
                   /\ \A i \in DOMAIN calls[l].blocks : calls[l].blocks[i] = u
    /\ calls[l].answer \in {Pending, <<"loaded", u>>}

\* Load l, made after a delete.
FindsNone(l) ==
    /\ ~Over(l) => calls[l].step = "made"
    /\ calls[l].answer \in {Pending, <<"absent">>}

LoadedLast ==
    \A l, u \in Made :
        calls[l].op = "load" /\ LastBefore(u, l, Rivals(u)) =>
            /\ calls[u].op = "save" => ReadsFrom(l, u)
            /\ calls[u].op = "delete" => FindsNone(l)

LastInv == CallsInv /\ SavedLast /\ DeletedLast /\ LoadedLast

LEMMA AloneBefore ==
    ASSUME CallsInv, [Next]_vars, NEW u \in Made, Alone(u)' PROVE Alone(u)
<1>1. /\ Made \subseteq Made' /\ calls'[u].over = calls[u].over
      /\ \A d \in Made : /\ calls'[d].op = calls[d].op
                         /\ calls[d].file # NoFile => calls'[d].file = calls[d].file
    BY StepFrame
<1> QED
    BY <1>1 DEF Alone, Changed, Rivals

\* No other call changes what u did to the file while u is alone.
LEMMA AloneOnDisk ==
    ASSUME CallsInv, NEW u \in Made, NEW c \in Made \ {u}, NEW r,
           Becomes(c, r), Affects(c, calls[c], r), Alone(u)'
    PROVE  /\ calls'[u] = calls[u]
           /\ UNCHANGED <<path, disk>> \/ (calls[u].op # "save" /\ path' = NoFile)
<1>1. Made' = Made /\ calls'[c] = r /\ \A d \in Made \ {c} : calls'[d] = calls[d]
    BY BecomesFrame DEF CallsInv
<1>2. ~Over(c) /\ r.op = calls[c].op
    BY DEF Becomes
<1>3. c \notin calls[u].over
    BY <1>2 DEF CallsInv, Settled
<1>4. calls'[u] = calls[u] /\ calls'[c] = r
    BY <1>1
<1>5. Sound(c, calls[c]) /\ path \in {NoFile} \cup Calls /\ c # NoFile
    BY CallFields DEF CallsInv, TypeOK, NoFile
<1>6. ~(r.op = "save" /\ r.file # NoFile)
    BY <1>1, <1>3, <1>4 DEF Alone, Changed, Rivals
<1>7. calls[u].op = "save" => ~(r.op = "delete" /\ r.file # NoFile)
    BY <1>1, <1>3, <1>4 DEF Alone, Changed, Rivals
<1>8. ~Opens(c, calls[c], r) /\ ~Writes(c, calls[c], r)
    BY <1>2, <1>5, <1>6 DEF Opens, Writes, Sound
<1>9. CASE Removes(calls[c], r)
    BY <1>2, <1>4, <1>7, <1>9 DEF Removes
<1>10. CASE ~Removes(calls[c], r)
    BY <1>4, <1>8, <1>10 DEF Affects, Waits, Closes, Misses, ReadOpens, Reads, ReadEnds
<1> QED
    BY <1>9, <1>10

LEMMA StepSavedLast ==
    ASSUME CallsInv, SavedLast, [Next]_vars PROVE SavedLast'
<1> SUFFICES ASSUME NEW u \in Made', calls'[u].op = "save", calls'[u].file # NoFile, Alone(u)'
             PROVE  path' = calls'[u].file /\ disk'[path'] = calls'[u].blocks
    BY DEF SavedLast
<1>1. u \in Made /\ calls[u].op = "save"
    BY StepFrame
<1>2. Alone(u)
    BY <1>1, AloneBefore
<1>3. calls[u].file # NoFile => path = calls[u].file /\ disk[path] = calls[u].blocks
    BY <1>1, <1>2 DEF SavedLast
<1>4. CASE Still
    BY <1>1, <1>3, <1>4 DEF Still, Keeps
<1>5. ASSUME NEW c \in Made, NEW r, Becomes(c, r), Affects(c, calls[c], r)
      PROVE  path' = calls'[u].file /\ disk'[path'] = calls'[u].blocks
  <2>1. CASE c # u
      BY <1>1, <1>3, <1>5, <2>1, AloneOnDisk
  <2>2. CASE c = u
    <3> DEFINE s == calls[u]
    <3>1. calls'[u] = r /\ r.op = s.op /\ ~Over(u)
        BY <1>5, <2>2, BecomesFrame DEF CallsInv, Becomes
    <3>2. Sound(u, s) /\ s.file \in {NoFile} \cup Calls /\ s.blocks \in Seq({Hole} \cup Calls)
          /\ u \in Calls
        BY <1>1, CallFields DEF CallsInv
    <3>3. disk \in [Calls -> Seq({Hole} \cup Calls)] /\ path \in {NoFile} \cup Calls
        BY DEF CallsInv, TypeOK
    <3>4. CASE Opens(u, s, r)
      <4>1. path' \in Calls /\ disk'[path'] = <<>> /\ s.blocks = <<>>
          BY <3>2, <3>3, <3>4 DEF Opens, Sound
      <4> QED
          BY <3>1, <3>4, <4>1 DEF Opens
    <3>5. CASE Writes(u, s, r)
      <4>1. s.file \in Calls /\ s.file # NoFile
          BY <3>2, <3>5 DEF Writes, Sound
      <4>2. disk'[s.file] = WithBlock(s.blocks, Len(s.blocks) + 1, u) /\ path' = s.file
          BY <1>3, <3>3, <3>5, <4>1 DEF Writes
      <4>3. WithBlock(s.blocks, Len(s.blocks) + 1, u) = Append(s.blocks, u)
          BY <3>2 DEF WithBlock
      <4> QED
          BY <3>1, <3>5, <4>2, <4>3 DEF Writes
    <3>6. CASE Waits(s, r) \/ Closes(s, r)
        BY <1>3, <3>1, <3>6 DEF Waits, Keeps, Closes
    <3> QED
        BY <1>1, <1>5, <2>2, <3>4, <3>5, <3>6 DEF Affects, Misses, ReadOpens, Reads, ReadEnds, Removes
  <2> QED
      BY <2>1, <2>2
<1> QED
    BY <1>4, <1>5, StepKinds

LEMMA StepDeletedLast ==
    ASSUME CallsInv, DeletedLast, [Next]_vars PROVE DeletedLast'
<1> SUFFICES ASSUME NEW u \in Made', calls'[u].op = "delete", calls'[u].step = "done", Alone(u)'
             PROVE  path' = NoFile
    BY DEF DeletedLast
<1>1. u \in Made /\ calls[u].op = "delete"
    BY StepFrame
<1>2. calls[u].step = "done" => path = NoFile
    BY <1>1, AloneBefore DEF DeletedLast
<1>3. CASE Still
    BY <1>1, <1>2, <1>3 DEF Still
<1>4. ASSUME NEW c \in Made, NEW r, Becomes(c, r), Affects(c, calls[c], r)
      PROVE  path' = NoFile
  <2>1. CASE c # u
      BY <1>1, <1>2, <1>4, <2>1, AloneOnDisk
  <2>2. CASE c = u
    <3>0. TypeOK /\ ~Over(u)
        BY <1>4, <2>2 DEF CallsInv, Becomes
    <3>a. calls'[c] = r
        BY <1>4, <3>0, BecomesFrame
    <3>1. calls'[u] = r /\ r.step = "done" /\ ~Over(u)
        BY <2>2, <3>0, <3>a
    <3> QED
        BY <1>1, <1>4, <2>2, <3>1 DEF Over, Affects, Waits, Opens, Writes, Closes, Misses, ReadOpens,
                                      Reads, ReadEnds, Removes
  <2> QED
      BY <2>1, <2>2
<1> QED
    BY <1>3, <1>4, StepKinds

\* A load that has read to the end of what u wrote gets u.
LEMMA DecryptsTo ==
    ASSUME TypeOK, NEW u \in Made, calls[u].op = "save", NEW b \in Seq({Hole} \cup Calls),
           Len(b) = calls[u].size, \A i \in DOMAIN b : b[i] = u
    PROVE  Decrypted(b) = <<"loaded", u>>
<1> DEFINE whole == {v \in Made : calls[v].op = "save" /\ b = Payload(v)}
<1>1. b = Payload(u)
    BY CallFields DEF Payload
<1>2. ASSUME NEW v \in Made, b = Payload(v) PROVE v = u
  <2>1. calls[v].size \in Nat \ {0}
      BY CallFields
  <2>2. 1 \in DOMAIN b /\ b[1] = v
      BY <1>2, <2>1 DEF Payload
  <2> QED
      BY <2>2
<1>3. whole = {u}
    BY <1>1, <1>2
<1>4. Decrypted(b) = IF whole = {} THEN <<"refused">> ELSE <<"loaded", CHOOSE v \in whole : TRUE>>
    BY DEF Decrypted
<1> HIDE DEF whole
<1> QED
    BY <1>3, <1>4

LEMMA StepLoadedLast ==
    ASSUME LastInv, [Next]_vars PROVE LoadedLast'
<1> SUFFICES ASSUME NEW l \in Made', NEW u \in Made', calls'[l].op = "load",
                    LastBefore(u, l, Rivals(u))'
             PROVE  /\ calls'[u].op = "save" => ReadsFrom(l, u)'
                    /\ calls'[u].op = "delete" => FindsNone(l)'
    BY DEF LoadedLast
<1>i. CallsInv /\ TypeOK /\ Settled /\ CallsInv'
    BY StepCalls DEF LastInv, CallsInv
<1>f. /\ Made \subseteq Made'
      /\ \A d \in Made :
            /\ calls'[d].op = calls[d].op /\ calls'[d].size = calls[d].size
            /\ calls'[d].over = calls[d].over
            /\ Over(d) => /\ Over(d)' /\ calls'[d].step = calls[d].step
                          /\ Keeps(calls[d], calls'[d])
            /\ calls[d].file # NoFile => calls'[d].file = calls[d].file
      /\ \A d \in Made' \ Made :
            /\ calls'[d].step = "made" /\ calls'[d].file = NoFile
            /\ calls'[d].blocks = <<>> /\ calls'[d].answer = Pending
    BY <1>i, StepFrame
<1>1. CASE l \notin Made
  <2>1. /\ calls'[l].step = "made" /\ calls'[l].file = NoFile
        /\ calls'[l].blocks = <<>> /\ calls'[l].answer = Pending
      BY <1>f, <1>1
  <2>2. Len(<<>>) = 0 /\ DOMAIN <<>> = {}
      OBVIOUS
  <2>3. Len(calls'[u].blocks) \in Nat
    <3>1. calls'[u] \in Call
        BY <1>i DEF CallsInv, TypeOK, Made
    <3> QED
        BY <3>1 DEF Call
  <2> QED
      BY <2>1, <2>2, <2>3 DEF ReadsFrom, FindsNone
<1>2. CASE l \in Made
  <2>1. /\ u \in Made /\ Over(u) /\ u \in calls[l].over /\ calls[u].step = "done"
        /\ Keeps(calls[u], calls'[u]) /\ calls'[u].op = calls[u].op /\ calls[l].op = "load"
      BY <1>2, <1>f, <1>i DEF LastBefore, Settled
  <2>2. LastBefore(u, l, Rivals(u))
      BY <1>2, <1>f, <2>1 DEF LastBefore, Changed, Rivals
  <2>3. /\ calls[u].op = "save" => ReadsFrom(l, u)
        /\ calls[u].op = "delete" => FindsNone(l)
      BY <1>2, <2>1, <2>2 DEF LastInv, LoadedLast
  <2>4. CASE Still
    <3>1. /\ Keeps(calls[l], calls'[l])
          /\ calls'[l].step = calls[l].step \/ calls'[l].step = "killed"
        BY <1>2, <2>4 DEF Still
    <3> QED
        BY <2>1, <2>3, <3>1 DEF ReadsFrom, FindsNone, Keeps, Over
  <2>5. ASSUME NEW c \in Made, NEW r, Becomes(c, r), Affects(c, calls[c], r)
        PROVE  /\ calls'[u].op = "save" => ReadsFrom(l, u)'
               /\ calls'[u].op = "delete" => FindsNone(l)'
    <3>1. calls'[c] = r /\ \A d \in Made \ {c} : calls'[d] = calls[d]
        BY <1>i, <2>5, BecomesFrame
    <3>2. CASE c # l
      <4>1. calls'[l] = calls[l]
          BY <1>2, <3>1, <3>2
      <4> QED
          BY <2>1, <2>3, <4>1 DEF ReadsFrom, FindsNone, Keeps, Over
    <3>3. CASE c = l
      <4> DEFINE s == calls[l]
      <4>1. ~Over(l) /\ calls'[l] = r /\ r.op = "load" /\ s.op = "load"
          BY <2>1, <2>5, <3>1, <3>3 DEF Becomes
      <4>2. Alone(u)
          BY <1>i, <2>2, <4>1 DEF LastBefore, Alone, Settled
      <4>3. Sound(l, s) /\ s.blocks \in Seq({Hole} \cup Calls) /\ s.answer = Pending
          BY <1>2, <1>i, <4>1, CallFields DEF CallsInv, Sound, Over
      <4>4. ASSUME calls[u].op = "save" PROVE ReadsFrom(l, u)'
        <5> DEFINE b == calls[u].blocks
        <5>1. /\ Sound(u, calls[u]) /\ b \in Seq({Hole} \cup Calls)
              /\ calls[u].size \in Nat \ {0} /\ calls[u].file # NoFile
              /\ Len(b) = calls[u].size /\ \A i \in DOMAIN b : b[i] = u
            BY <1>i, <2>1, <4>4, CallFields DEF CallsInv, Sound
        <5>2. path = calls[u].file /\ disk[path] = b /\ path # NoFile
            BY <2>1, <4>2, <4>4, <5>1 DEF LastInv, SavedLast
        <5>3. /\ s.file \in {NoFile, path} /\ Len(s.blocks) <= Len(b)
              /\ \A i \in DOMAIN s.blocks : s.blocks[i] = u
            BY <2>3, <4>1, <4>4, <5>2 DEF ReadsFrom
        <5>4. calls'[u].file = path /\ calls'[u].blocks = b
            BY <2>1, <5>2 DEF Keeps
        <5>5. CASE Waits(s, r)
            BY <4>1, <4>3, <5>3, <5>4, <5>5 DEF Waits, Keeps, ReadsFrom
        <5>6. CASE ReadOpens(s, r)
            BY <4>1, <4>3, <5>3, <5>4, <5>6 DEF ReadOpens, ReadsFrom
        <5>7. CASE Reads(s, r)
          <6>1. s.file = path
              BY <4>3, <5>3, <5>7 DEF Reads, Sound
          <6>2. Len(s.blocks) + 1 \in DOMAIN b /\ r.blocks = Append(s.blocks, u)
              BY <5>1, <5>2, <5>7, <6>1 DEF Reads
          <6>3. Len(r.blocks) <= Len(b) /\ \A i \in DOMAIN r.blocks : r.blocks[i] = u
              BY <4>3, <5>1, <5>3, <6>2
          <6>4. r.file = path /\ r.answer = Pending
              BY <4>3, <5>7, <6>1 DEF Reads
          <6> QED
              BY <4>1, <5>4, <6>3, <6>4 DEF ReadsFrom
        <5>8. CASE ReadEnds(s, r)
          <6>1. s.file = path
              BY <4>3, <5>3, <5>8 DEF ReadEnds, Sound
          <6>2. Len(s.blocks) + 1 \notin DOMAIN b
              BY <5>2, <5>8, <6>1 DEF ReadEnds
          <6>3. Len(s.blocks) = calls[u].size
              BY <4>3, <5>1, <5>3, <6>2
          <6>4. Decrypted(s.blocks) = <<"loaded", u>>
              BY <1>i, <2>1, <4>3, <4>4, <5>3, <6>3, DecryptsTo
          <6>5. r.answer \in {Pending, <<"loaded", u>>} /\ r.step = "done"
              BY <4>3, <5>8, <6>4 DEF ReadEnds
          <6>6. Over(l)'
              BY <4>1, <6>5 DEF Over
          <6> QED
              BY <4>1, <6>5, <6>6 DEF ReadsFrom
        <5> QED
            BY <2>5, <3>3, <4>1, <5>2, <5>5, <5>6, <5>7, <5>8
            DEF Affects, Opens, Writes, Closes, Misses, Removes
      <4>5. ASSUME calls[u].op = "delete" PROVE FindsNone(l)'
        <5>1. path = NoFile
            BY <2>1, <4>2, <4>5 DEF LastInv, DeletedLast
        <5>2. s.step = "made"
            BY <2>3, <4>1, <4>5 DEF FindsNone
        <5>3. CASE Waits(s, r)
            BY <4>1, <4>3, <5>1, <5>2, <5>3 DEF Waits, Keeps, FindsNone, Over
        <5>4. CASE Misses(s, r)
            BY <4>1, <4>3, <5>2, <5>4 DEF Misses, FindsNone, Over
        <5> QED
            BY <2>5, <3>3, <4>1, <5>2, <5>3, <5>4
            DEF Affects, Opens, Writes, Closes, ReadOpens, Reads, ReadEnds, Removes
      <4> QED
          BY <2>1, <4>4, <4>5
    <3> QED
        BY <3>2, <3>3
  <2> QED
      BY <1>i, <2>4, <2>5, StepKinds
<1> QED
    BY <1>1, <1>2

LEMMA StepLast == LastInv /\ [Next]_vars => LastInv'
<1> SUFFICES ASSUME LastInv, [Next]_vars PROVE LastInv'
    OBVIOUS
<1>1. CallsInv' /\ SavedLast' /\ DeletedLast'
    BY StepCalls, StepSavedLast, StepDeletedLast DEF LastInv
<1>2. LoadedLast'
    BY StepLoadedLast
<1> QED
    BY <1>1, <1>2 DEF LastInv

LEMMA AlwaysLast == Spec => []LastInv
<1>1. Init => LastInv
  <2> SUFFICES ASSUME Init PROVE LastInv
      OBVIOUS
  <2>1. Made = {}
      BY DEF Init, Made
  <2> QED
      BY <2>1, InitCalls DEF LastInv, SavedLast, DeletedLast, LoadedLast
<1> QED
    BY <1>1, StepLast, PTL DEF Spec

(***************************************************************************)
(* A load that is answered gets the state of the save that came last, when *)
(* nothing else was at work on the file since that save was made: whatever *)
(* torn writes, crashes and cancelled calls there were before.             *)
(***************************************************************************)
THEOREM LastSaveReadsBack == Spec => []ReadsBack
<1>1. LastInv => ReadsBack
    BY DEF LastInv, LoadedLast, ReadsBack, Answered, ReadsFrom, Rivals
<1> QED
    BY <1>1, AlwaysLast, PTL

(***************************************************************************)
(* After a delete that no save overlapped or came after there is nothing   *)
(* to load, whether the delete found a file, found none, or lost it to     *)
(* another delete after it had looked.                                     *)
(***************************************************************************)
THEOREM LastDeleteLeavesNothing == Spec => []GoneIfDeleted
<1>1. LastInv => GoneIfDeleted
    BY DEF LastInv, LoadedLast, GoneIfDeleted, Answered, FindsNone, Rivals
<1> QED
    BY <1>1, AlwaysLast, PTL

-----------------------------------------------------------------------------
(* Why a call raises *)

LEMMA AnswersDiffer ==
    /\ <<"refused">> \notin {Pending, <<"saved">>, <<"absent">>, <<"not_found">>, <<"deleted">>,
                             <<"nothing">>}
    /\ <<"not_found">> \notin {Pending, <<"saved">>, <<"absent">>, <<"refused">>, <<"deleted">>,
                               <<"nothing">>}
    /\ \A v : <<"loaded", v>> \notin {<<"refused">>, <<"not_found">>}
BY DEF Pending

\* Two calls that are both under way overlap, and calls that overlapped always did.
LEMMA OngoingOverlap ==
    ASSUME Settled, NEW c \in Made, NEW d \in Made, ~Over(c), ~Over(d)
    PROVE  Overlap(c, d)
BY DEF Settled, Overlap

\* A delete that overlaps call c has taken the file.
Taken(c) == \E d \in Made : calls[d].op = "delete" /\ Changed(d) /\ Overlap(d, c)

\* A call that has looked finds its file, unless a delete took it.
LookedFinds ==
    \A c \in Made :
        calls[c].op \in {"load", "delete"} /\ calls[c].step = "queued" /\ path = NoFile => Taken(c)

MissInv == CallsInv /\ LookedFinds /\ MissingHasCause

LEMMA TakenStays ==
    ASSUME CallsInv, [Next]_vars, NEW c \in Made, Taken(c) PROVE Taken(c)'
BY StepFrame DEF Taken, Changed, Overlap

LEMMA StepMiss == MissInv /\ [Next]_vars => MissInv'
<1> SUFFICES ASSUME MissInv, [Next]_vars PROVE LookedFinds' /\ MissingHasCause'
    BY StepCalls DEF MissInv
<1>i. CallsInv /\ TypeOK /\ Settled
    BY DEF MissInv, CallsInv
<1>m. \A c \in Made : calls[c].answer = <<"not_found">> => Taken(c)
    BY DEF MissInv, MissingHasCause, Taken
<1>1. LookedFinds'
  <2> SUFFICES ASSUME NEW c \in Made', calls'[c].op \in {"load", "delete"},
                      calls'[c].step = "queued", path' = NoFile
               PROVE  Taken(c)'
      BY DEF LookedFinds
  <2>1. c \in Made /\ calls[c].op \in {"load", "delete"}
      BY <1>i, StepFrame
  <2>2. CASE calls[c].step = "queued" /\ path = NoFile
      BY <1>i, <2>1, <2>2, TakenStays DEF MissInv, LookedFinds
  <2>3. CASE ~(calls[c].step = "queued" /\ path = NoFile)
    <3>1. ~Still
        BY <2>1, <2>3 DEF Still
    <3>2. PICK e \in Made : \E r : Becomes(e, r) /\ Affects(e, calls[e], r)
        BY <1>i, <3>1, StepKinds
    <3>3. PICK r : Becomes(e, r) /\ Affects(e, calls[e], r)
        BY <3>2
    <3>4. Made' = Made /\ calls'[e] = r /\ \A d \in Made \ {e} : calls'[d] = calls[d]
        BY <1>i, <3>3, BecomesFrame
    <3>5. ~Over(e) /\ r.op = calls[e].op /\ r.over = calls[e].over
        BY <3>3 DEF Becomes
    <3>6. e # c
      <4>1. ASSUME e = c PROVE FALSE
        <5>1. r.step = "queued" /\ calls[c].op # "save"
            BY <2>1, <3>4, <4>1
        <5> QED
            BY <2>3, <3>3, <4>1, <5>1 DEF Affects, Waits, Opens, Writes, Closes, Misses, ReadOpens,
                                          Reads, ReadEnds, Removes
      <4> QED
          BY <4>1
    <3>7. calls[c].step = "queued" /\ path # NoFile
        BY <2>1, <2>3, <3>4, <3>6
    <3>8. Removes(calls[e], r)
      <4>1. path \in Calls /\ e \in Calls /\ NoFile \notin Calls
          BY <1>i, <3>7, CallFields DEF TypeOK, NoFile, Calls
      <4> QED
          BY <3>3, <3>7, <4>1 DEF Affects, Waits, Opens, Writes, Closes, Misses, ReadOpens, Reads,
                                  ReadEnds
    <3>9. Overlap(e, c)
        BY <1>i, <2>1, <3>5, <3>7, OngoingOverlap DEF Over
    <3>10. Overlap(e, c)' /\ Changed(e)' /\ calls'[e].op = "delete"
        BY <2>1, <3>4, <3>5, <3>6, <3>7, <3>8, <3>9 DEF Overlap, Changed, Removes
    <3> QED
        BY <3>4, <3>10 DEF Taken
  <2> QED
      BY <2>2, <2>3
<1>2. MissingHasCause'
  <2> SUFFICES ASSUME NEW c \in Made', calls'[c].answer = <<"not_found">> PROVE Taken(c)'
      BY DEF MissingHasCause, Taken
  <2>1. c \in Made
      BY <1>i, StepFrame, AnswersDiffer
  <2>2. CASE calls[c].answer = <<"not_found">>
      BY <1>i, <1>m, <2>1, <2>2, TakenStays
  <2>3. CASE calls[c].answer # <<"not_found">>
    <3>1. ~Still
        BY <2>1, <2>3 DEF Still, Keeps
    <3>2. PICK e \in Made : \E r : Becomes(e, r) /\ Affects(e, calls[e], r)
        BY <1>i, <3>1, StepKinds
    <3>3. PICK r : Becomes(e, r) /\ Affects(e, calls[e], r)
        BY <3>2
    <3>4. calls'[e] = r /\ \A d \in Made \ {e} : calls'[d] = calls[d]
        BY <1>i, <3>3, BecomesFrame
    <3>5. e = c
        BY <2>1, <2>3, <3>4
    <3>6. r.answer = <<"not_found">> /\ r.answer # calls[c].answer
        BY <2>3, <3>4, <3>5
    <3>7. ~ReadEnds(calls[c], r)
      <4>1. \A b : Decrypted(b) # <<"not_found">>
          BY AnswersDiffer DEF Decrypted
      <4> QED
          BY <3>6, <4>1 DEF ReadEnds
    <3>8. Misses(calls[c], r)
        BY <3>3, <3>5, <3>6, <3>7, AnswersDiffer
        DEF Affects, Waits, Keeps, Opens, Writes, Closes, ReadOpens, Reads, Removes
    <3>9. calls[c].op \in {"load", "delete"} /\ calls[c].step = "queued" /\ path = NoFile
        BY <3>6, <3>8, AnswersDiffer DEF Misses
    <3> QED
        BY <1>i, <2>1, <3>9, TakenStays DEF MissInv, LookedFinds
  <2> QED
      BY <2>2, <2>3
<1> QED
    BY <1>1, <1>2

(***************************************************************************)
(* load_group and delete_group raise FileNotFoundError, between their look *)
(* for the file and their thread's use of it, only if a delete that        *)
(* overlaps them has taken the file.                                       *)
(***************************************************************************)
THEOREM MissingIsCaused == Spec => []MissingHasCause
<1>1. Init => MissInv
  <2> SUFFICES ASSUME Init PROVE MissInv
      OBVIOUS
  <2>1. Made = {}
      BY DEF Init, Made
  <2> QED
      BY <2>1, InitCalls DEF MissInv, LookedFinds, MissingHasCause
<1>2. MissInv => MissingHasCause
    BY DEF MissInv
<1> QED
    BY <1>1, <1>2, StepMiss, PTL DEF Spec

\* Save s was cut off, overlapped by another or overlaps load l, and nothing
\* came between it and the load.
Cause(s, l) ==
    /\ calls[s].op = "save" /\ Changed(s) /\ NotReplaced(s, l)
    /\ Torn(s) \/ Overlap(s, l)

HasCause(l) == \E s \in Made : Cause(s, l)

Mixed(u) == \E t \in Made \ {u} : calls[t].op = "save" /\ Changed(t) /\ Overlap(u, t)

\* The file that the name leads to is that of a save which nothing came after,
\* and has what that one has written, unless another one overlapped it.
FileIsOfLatest ==
    path # NoFile =>
        \E u \in Made :
            /\ calls[u].op = "save" /\ calls[u].file = path
            /\ \A w \in Made : Changed(w) => u \notin calls[w].over
            /\ Mixed(u) \/ disk[path] = calls[u].blocks

\* Load l reads the file of save u, which is complete.
ReadsWhole(l, u) ==
    /\ calls[u].op = "save" /\ calls[u].step = "done"
    /\ disk[calls[l].file] = calls[u].blocks
    /\ Len(calls[l].blocks) <= Len(calls[u].blocks)
    /\ \A i \in DOMAIN calls[l].blocks : calls[l].blocks[i] = u

ReadersAreSafe ==
    \A l \in Made : At(l, "load", "open") => HasCause(l) \/ \E u \in Made : ReadsWhole(l, u)

CauseInv == CallsInv /\ FileIsOfLatest /\ ReadersAreSafe /\ RefusedHasCause

LEMMA CauseStays ==
    ASSUME CallsInv, [Next]_vars, NEW l \in Made, HasCause(l) PROVE HasCause(l)'
<1>1. PICK s \in Made : Cause(s, l)
    BY DEF HasCause
<1>2. /\ Made \subseteq Made'
      /\ \A d \in Made :
            /\ calls'[d].op = calls[d].op /\ calls'[d].over = calls[d].over
            /\ Over(d) => calls'[d].step = calls[d].step /\ Keeps(calls[d], calls'[d])
            /\ calls[d].file # NoFile => calls'[d].file = calls[d].file
    BY StepFrame
<1>3. calls'[s].op = "save" /\ Changed(s)' /\ (Overlap(s, l) => Overlap(s, l)')
    BY <1>1, <1>2 DEF Cause, Changed, Overlap
<1>4. NotReplaced(s, l)'
  <2> SUFFICES ASSUME NEW w \in Made', Changed(w)', s \in calls'[w].over, w \in calls'[l].over
               PROVE  FALSE
      BY DEF NotReplaced
  <2>1. w \in Made /\ Over(w) /\ w \in calls[l].over
      BY <1>2 DEF CallsInv, Settled
  <2>2. Changed(w) /\ s \in calls[w].over
      BY <1>2, <2>1 DEF Changed, Keeps
  <2> QED
      BY <1>1, <2>1, <2>2 DEF Cause, NotReplaced
<1>5. Torn(s) => Torn(s)'
    BY <1>2 DEF Torn, Changed, Overlap, Over
<1> QED
    BY <1>1, <1>2, <1>3, <1>4, <1>5 DEF Cause, HasCause

LEMMA StepFileIsOfLatest ==
    ASSUME CallsInv, FileIsOfLatest, [Next]_vars PROVE FileIsOfLatest'
<1> SUFFICES ASSUME path' # NoFile
             PROVE  \E u \in Made' :
                        /\ calls'[u].op = "save" /\ calls'[u].file = path'
                        /\ \A w \in Made' : Changed(w)' => u \notin calls'[w].over
                        /\ Mixed(u)' \/ disk'[path'] = calls'[u].blocks
    BY DEF FileIsOfLatest
<1>t. /\ path \in {NoFile} \cup Calls /\ disk \in [Calls -> Seq({Hole} \cup Calls)]
      /\ NoFile \notin Calls
    BY DEF CallsInv, TypeOK, NoFile, Calls
<1>f. /\ Made \subseteq Made'
      /\ \A d \in Made :
            /\ calls'[d].op = calls[d].op /\ calls'[d].over = calls[d].over
            /\ calls[d].file # NoFile => calls'[d].file = calls[d].file
      /\ \A d \in Made' \ Made : calls'[d].file = NoFile
    BY StepFrame
<1>1. CASE path # NoFile /\ path' = path /\ \A w \in Made' : Changed(w)' => w \in Made /\ Changed(w)
  <2>1. PICK u \in Made :
            /\ calls[u].op = "save" /\ calls[u].file = path
            /\ \A w \in Made : Changed(w) => u \notin calls[w].over
            /\ Mixed(u) \/ disk[path] = calls[u].blocks
      BY <1>1 DEF FileIsOfLatest
  <2>2. /\ u \in Made' /\ calls'[u].op = "save" /\ calls'[u].file = path'
        /\ \A w \in Made' : Changed(w)' => u \notin calls'[w].over
      BY <1>1, <1>f, <2>1
  <2>3. Mixed(u) => Mixed(u)'
      BY <1>f DEF Mixed, Changed, Overlap
  <2>4. CASE Still
      BY <1>1, <2>1, <2>2, <2>3, <2>4 DEF Still, Keeps
  <2>5. ASSUME NEW c \in Made, NEW r, Becomes(c, r), Affects(c, calls[c], r)
        PROVE  Mixed(u)' \/ disk'[path'] = calls'[u].blocks
    <3> DEFINE s == calls[c]
    <3>1. /\ calls'[c] = r /\ \A d \in Made \ {c} : calls'[d] = calls[d]
          /\ ~Over(c) /\ r.op = s.op
        BY <2>5, BecomesFrame DEF CallsInv, Becomes
    <3>2. CASE Opens(c, s, r)
      <4>1. c \in Made' /\ Changed(c)' /\ ~(Sound(c, s) /\ Changed(c))
          BY <1>1, <1>f, <3>1, <3>2 DEF Opens, Changed, Sound
      <4>2. Sound(c, s)
          BY DEF CallsInv
      <4> QED
          BY <1>1, <4>1, <4>2
    <3>3. CASE Writes(c, s, r)
      <4>1. s.op = "save" /\ s.file # NoFile /\ s.file \in Calls
          BY <3>3, CallFields DEF Writes, CallsInv, Sound
      <4>2. CASE s.file # path
        <5>1. disk'[path'] = disk[path] /\ u # c
            BY <1>1, <1>t, <2>1, <3>3, <4>1, <4>2 DEF Writes
        <5> QED
            BY <2>1, <2>3, <3>1, <5>1
      <4>3. CASE u = c
        <5>1. s.file = path /\ s.blocks \in Seq({Hole} \cup Calls) /\ path \in Calls
            BY <1>1, <1>t, <2>1, <4>3, CallFields DEF CallsInv
        <5>2. WithBlock(s.blocks, Len(s.blocks) + 1, c) = Append(s.blocks, c)
            BY <5>1 DEF WithBlock
        <5>3. disk[path] = s.blocks => disk'[path] = Append(s.blocks, c)
            BY <1>t, <3>3, <5>1, <5>2 DEF Writes
        <5>4. r.blocks = Append(s.blocks, c)
            BY <3>3 DEF Writes
        <5> QED
            BY <1>1, <2>1, <2>3, <3>1, <4>3, <5>3, <5>4
      <4>4. CASE u # c
        <5>1. Changed(c)
            BY <4>1 DEF Changed
        <5>2. u \notin calls[c].over /\ c \notin calls[u].over
            BY <2>1, <3>1, <5>1 DEF CallsInv, Settled
        <5>3. Mixed(u)
            BY <4>1, <4>4, <5>1, <5>2 DEF Mixed, Overlap
        <5> QED
            BY <2>3, <5>3
      <4> QED
          BY <4>2, <4>3, <4>4
    <3>4. CASE ~Opens(c, s, r) /\ ~Writes(c, s, r)
      <4>1. disk' = disk /\ (s.op = "save" => r.blocks = s.blocks)
          BY <2>5, <3>4 DEF Affects, Waits, Keeps, Closes, Misses, ReadOpens, Reads, ReadEnds, Removes
      <4> QED
          BY <1>1, <2>1, <2>3, <3>1, <4>1
    <3> QED
        BY <3>2, <3>3, <3>4
  <2> QED
      BY <2>2, <2>4, <2>5, StepKinds
<1>2. CASE ~(path # NoFile /\ path' = path /\ \A w \in Made' : Changed(w)' => w \in Made /\ Changed(w))
  <2>1. PICK c \in Made : \E r : Becomes(c, r) /\ Opens(c, calls[c], r)
    <3>1. CASE Still
      <4>1. path' = path /\ path # NoFile
          BY <3>1 DEF Still
      <4>2. \A w \in Made' : Changed(w)' => w \in Made /\ Changed(w)
          BY <1>f, <3>1 DEF Still, Keeps, Changed
      <4> QED
          BY <1>2, <4>1, <4>2
    <3>2. ASSUME NEW c \in Made, NEW r, Becomes(c, r), Affects(c, calls[c], r), ~Opens(c, calls[c], r)
          PROVE  FALSE
      <4> DEFINE s == calls[c]
      <4>1. /\ Made' = Made /\ calls'[c] = r /\ \A d \in Made \ {c} : calls'[d] = calls[d]
            /\ r.op = s.op
          BY <3>2, BecomesFrame DEF CallsInv, Becomes
      <4>2. path' = path /\ (s.op \in {"save", "delete"} => r.file = s.file)
          BY <3>2 DEF Affects, Waits, Keeps, Writes, Closes, Misses, ReadOpens, Reads, ReadEnds, Removes
      <4>3. \A w \in Made' : Changed(w)' => w \in Made /\ Changed(w)
          BY <4>1, <4>2 DEF Changed
      <4> QED
          BY <1>2, <4>2, <4>3
    <3> QED
        BY <3>1, <3>2, StepKinds
  <2>2. PICK r : Becomes(c, r) /\ Opens(c, calls[c], r)
      BY <2>1
  <2>3. Made' = Made /\ calls'[c] = r /\ r.op = calls[c].op /\ ~Over(c)
      BY <2>2, BecomesFrame DEF CallsInv, Becomes
  <2>4. \A w \in Made' : c \notin calls'[w].over
      BY <1>f, <2>3 DEF CallsInv, Settled
  <2>5. path' \in Calls /\ disk'[path'] = <<>> /\ calls[c].blocks = <<>>
      BY <1>t, <2>2, CallFields DEF Opens, CallsInv, Sound
  <2> QED
      BY <2>2, <2>3, <2>4, <2>5 DEF Opens
<1> QED
    BY <1>1, <1>2

LEMMA StepReadersAreSafe ==
    ASSUME CauseInv, [Next]_vars PROVE ReadersAreSafe'
<1>i. CallsInv /\ TypeOK /\ Settled
    BY DEF CauseInv, CallsInv
<1> SUFFICES ASSUME NEW l \in Made', At(l, "load", "open")'
             PROVE  HasCause(l)' \/ \E u \in Made' : ReadsWhole(l, u)'
    BY DEF ReadersAreSafe
<1>t. /\ path \in {NoFile} \cup Calls /\ disk \in [Calls -> Seq({Hole} \cup Calls)]
      /\ NoFile \notin Calls
    BY <1>i DEF TypeOK, NoFile, Calls
<1>f. /\ Made \subseteq Made'
      /\ \A d \in Made :
            /\ calls'[d].op = calls[d].op
            /\ Over(d) => calls'[d].step = calls[d].step /\ Keeps(calls[d], calls'[d])
    BY <1>i, StepFrame
<1>1. l \in Made /\ calls[l].op = "load" /\ ~Over(l)
    BY <1>i, <1>f, StepFrame DEF At, Over
<1>2. CASE HasCause(l)
    BY <1>i, <1>1, <1>2, CauseStays
<1>3. CASE ~HasCause(l)
  \* The step is not that of a writer of the file: it would be the cause.
  <2>1. ASSUME NEW u \in Made, ReadsWhole(l, u), calls'[l].file = calls[l].file,
               UNCHANGED disk \/ HasCause(l)',
               \/ calls'[l].blocks = calls[l].blocks
               \/ /\ Len(calls[l].blocks) + 1 \in DOMAIN disk[calls[l].file]
                  /\ calls'[l].blocks =
                        Append(calls[l].blocks, disk[calls[l].file][Len(calls[l].blocks) + 1])
        PROVE  HasCause(l)' \/ ReadsWhole(l, u)'
    <3> DEFINE b == calls[u].blocks
               n == Len(calls[l].blocks) + 1
    <3>1. /\ Over(u) /\ calls'[u].op = "save" /\ calls'[u].step = "done" /\ calls'[u].blocks = b
        BY <1>f, <2>1 DEF ReadsWhole, Over, Keeps
    <3>2. /\ b \in Seq({Hole} \cup Calls) /\ \A i \in DOMAIN b : b[i] = u
          /\ calls[l].blocks \in Seq({Hole} \cup Calls)
          /\ disk[calls[l].file] = b
        BY <1>i, <1>1, <2>1, CallFields DEF CallsInv, Sound, ReadsWhole
    <3>3. CASE calls'[l].blocks = calls[l].blocks
        BY <2>1, <3>1, <3>3 DEF ReadsWhole
    <3>4. CASE n \in DOMAIN b /\ calls'[l].blocks = Append(calls[l].blocks, b[n])
      <4>1. b[n] = u
          BY <3>2, <3>4
      <4>2. /\ Len(calls[l].blocks) <= Len(b)
            /\ \A i \in DOMAIN calls[l].blocks : calls[l].blocks[i] = u
          BY <2>1 DEF ReadsWhole
      <4> HIDE DEF b
      <4>3. Len(calls'[l].blocks) <= Len(b)
          BY <3>2, <3>4
      <4>4. \A i \in DOMAIN calls'[l].blocks : calls'[l].blocks[i] = u
          BY <3>2, <3>4, <4>1, <4>2
      <4> QED
          BY <2>1, <3>1, <4>3, <4>4 DEF ReadsWhole, b
    <3> QED
        BY <2>1, <3>2, <3>3, <3>4
  <2>2. CASE Still
    <3>1. calls[l].step = "open" /\ Keeps(calls[l], calls'[l]) /\ UNCHANGED disk
        BY <1>1, <2>2 DEF At, Still
    <3>2. PICK u \in Made : ReadsWhole(l, u)
        BY <1>1, <1>3, <3>1 DEF CauseInv, ReadersAreSafe, At
    <3> QED
        BY <1>f, <2>1, <3>1, <3>2 DEF Keeps
  <2>3. ASSUME NEW c \in Made, NEW r, Becomes(c, r), Affects(c, calls[c], r)
        PROVE  HasCause(l)' \/ \E u \in Made' : ReadsWhole(l, u)'
    <3> DEFINE s == calls[c]
    <3>1. /\ Made' = Made /\ calls'[c] = r /\ \A d \in Made \ {c} : calls'[d] = calls[d]
          /\ ~Over(c) /\ r.op = s.op /\ r.size = s.size /\ r.over = s.over
        BY <1>i, <2>3, BecomesFrame DEF Becomes
    <3>2. CASE c # l
      <4>1. calls'[l] = calls[l] /\ calls[l].step = "open" /\ calls[l].file # NoFile
        <5>1. calls'[l] = calls[l]
            BY <1>1, <3>1, <3>2
        <5> QED
            BY <1>i, <1>1, <5>1 DEF At, CallsInv, Sound
      <4>2. PICK u \in Made : ReadsWhole(l, u)
          BY <1>1, <1>3, <4>1 DEF CauseInv, ReadersAreSafe, At
      <4>3. UNCHANGED disk \/ HasCause(l)'
        <5>1. CASE ~Opens(c, s, r) /\ ~Writes(c, s, r)
            BY <2>3, <5>1 DEF Affects, Waits, Closes, Misses, ReadOpens, Reads, ReadEnds, Removes
        <5>2. CASE Opens(c, s, r) \/ Writes(c, s, r)
          <6>1. calls'[c].op = "save" /\ ~Over(c)' /\ ~Over(l)' /\ CallsInv'
              BY <1>1, <1>i, <3>1, <4>1, <5>2, StepCalls DEF Opens, Writes, Over
          <6>2. calls'[c].step = "open"
              BY <3>1, <5>2 DEF Opens, Writes
          <6>3. calls'[c].file # NoFile
              BY <3>1, <6>1, <6>2 DEF CallsInv, Sound
          <6>4. Changed(c)'
              BY <6>1, <6>3 DEF Changed
          <6>5. /\ \A w \in Made : c \notin calls'[w].over /\ l \notin calls'[w].over
            <7>1. \A w \in Made : calls'[w].over = calls[w].over
                BY <3>1
            <7> QED
                BY <1>1, <1>i, <3>1, <7>1 DEF Settled
          <6>6. Overlap(c, l)' /\ NotReplaced(c, l)'
              BY <1>1, <3>1, <6>5 DEF Overlap, NotReplaced
          <6> QED
              BY <3>1, <6>1, <6>4, <6>6 DEF Cause, HasCause
        <5> QED
            BY <5>1, <5>2
      <4> QED
          BY <2>1, <3>1, <4>1, <4>2, <4>3
    <3>3. CASE c = l /\ ReadOpens(s, r)
      <4>1. /\ path # NoFile /\ r.file = path /\ r.blocks = s.blocks /\ s.step = "queued"
            /\ UNCHANGED <<path, disk>>
          BY <3>3 DEF ReadOpens
      <4>2. s.blocks = <<>>
          BY <1>i, <4>1 DEF CallsInv, Sound
      <4>3. PICK u \in Made :
                /\ calls[u].op = "save" /\ calls[u].file = path
                /\ \A w \in Made : Changed(w) => u \notin calls[w].over
                /\ Mixed(u) \/ disk[path] = calls[u].blocks
          BY <4>1 DEF CauseInv, FileIsOfLatest
      <4>4. Changed(u) /\ NotReplaced(u, l)
          BY <4>1, <4>3 DEF Changed, NotReplaced
      <4>5. ~Mixed(u) /\ calls[u].step # "killed" /\ ~Overlap(u, l)
          BY <1>3, <4>3, <4>4 DEF HasCause, Cause, Torn, Mixed
      <4>6. Over(u)
          BY <1>1, <1>i, <4>5 DEF Overlap, Settled
      <4>7. calls[u].step = "done"
        <5>1. calls[u].step # "dropped"
            BY <1>i, <4>1, <4>3 DEF CallsInv, Sound
        <5> QED
            BY <4>5, <4>6, <5>1 DEF Over
      <4>8. u # l /\ calls'[u] = calls[u] /\ calls'[l] = r
          BY <1>1, <3>1, <3>3, <4>3
      <4>9. Len(<<>>) = 0 /\ DOMAIN <<>> = {} /\ Len(calls[u].blocks) \in Nat
        <5>1. calls[u].blocks \in Seq({Hole} \cup Calls)
            BY <1>i, CallFields
        <5> QED
            BY <5>1
      <4>10. ReadsWhole(l, u)'
          BY <4>1, <4>2, <4>3, <4>5, <4>7, <4>8, <4>9 DEF ReadsWhole
      <4> QED
          BY <3>1, <4>10
    <3>4. CASE c = l /\ ~ReadOpens(s, r)
      <4>1. r.step = "open" /\ s.op = "load" /\ calls'[l] = r
          BY <1>1, <3>1, <3>4 DEF At
      <4>2. Waits(s, r) \/ Reads(s, r)
          BY <2>3, <3>4, <4>1 DEF Affects, Opens, Writes, Closes, Misses, ReadEnds, Removes
      <4>3. /\ s.step = "open" /\ UNCHANGED disk /\ calls'[l].file = s.file
            /\ \/ calls'[l].blocks = s.blocks
               \/ /\ Len(s.blocks) + 1 \in DOMAIN disk[s.file]
                  /\ calls'[l].blocks = Append(s.blocks, disk[s.file][Len(s.blocks) + 1])
          BY <4>1, <4>2 DEF Waits, Keeps, Reads
      <4>4. PICK u \in Made : ReadsWhole(l, u)
          BY <1>1, <1>3, <3>4, <4>1, <4>3 DEF CauseInv, ReadersAreSafe, At
      <4> QED
          BY <2>1, <3>1, <3>4, <4>3, <4>4
    <3> QED
        BY <3>2, <3>3, <3>4
  <2> QED
      BY <1>i, <2>2, <2>3, StepKinds
<1> QED
    BY <1>2, <1>3

LEMMA StepRefused ==
    ASSUME CauseInv, [Next]_vars PROVE RefusedHasCause'
<1>i. CallsInv /\ TypeOK
    BY DEF CauseInv, CallsInv
<1> SUFFICES ASSUME NEW l \in Made', calls'[l].answer = <<"refused">> PROVE HasCause(l)'
    BY DEF RefusedHasCause, HasCause, Cause
<1>1. l \in Made
    BY <1>i, StepFrame, AnswersDiffer
<1>2. CASE HasCause(l)
    BY <1>i, <1>1, <1>2, CauseStays
<1>3. CASE ~HasCause(l)
  <2>1. calls[l].answer # <<"refused">>
      BY <1>1, <1>3 DEF CauseInv, RefusedHasCause, HasCause, Cause
  <2>2. ~Still
      BY <1>1, <2>1 DEF Still, Keeps
  <2>3. PICK c \in Made : \E r : Becomes(c, r) /\ Affects(c, calls[c], r)
      BY <1>i, <2>2, StepKinds
  <2>4. PICK r : Becomes(c, r) /\ Affects(c, calls[c], r)
      BY <2>3
  <2>5. calls'[c] = r /\ \A d \in Made \ {c} : calls'[d] = calls[d]
      BY <1>i, <2>4, BecomesFrame
  <2>6. c = l
      BY <1>1, <2>1, <2>5
  <2> DEFINE s == calls[l]
  <2>7. r.answer = <<"refused">> /\ r.answer # s.answer
      BY <2>1, <2>5, <2>6
  <2>8. ReadEnds(s, r)
      BY <2>4, <2>6, <2>7, AnswersDiffer
      DEF Affects, Waits, Keeps, Opens, Writes, Closes, Misses, ReadOpens, Reads, Removes
  <2>9. PICK u \in Made : ReadsWhole(l, u)
      BY <1>1, <1>3, <2>8 DEF ReadEnds, CauseInv, ReadersAreSafe, At
  <2>10. /\ calls[u].blocks \in Seq({Hole} \cup Calls) /\ s.blocks \in Seq({Hole} \cup Calls)
         /\ Len(calls[u].blocks) = calls[u].size
      BY <1>1, <1>i, <2>9, CallFields DEF CallsInv, Sound, ReadsWhole
  <2>11. Len(s.blocks) = calls[u].size
    <3>1. Len(s.blocks) + 1 \notin DOMAIN calls[u].blocks /\ Len(s.blocks) <= Len(calls[u].blocks)
        BY <2>8, <2>9 DEF ReadEnds, ReadsWhole
    <3> QED
        BY <2>10, <3>1
  <2>12. Decrypted(s.blocks) = <<"loaded", u>>
      BY <1>i, <2>9, <2>10, <2>11, DecryptsTo DEF ReadsWhole
  <2> QED
      BY <2>7, <2>8, <2>12, AnswersDiffer DEF ReadEnds
<1> QED
    BY <1>2, <1>3

(***************************************************************************)
(* A load refuses what is on disk only because of a save that a crash cut  *)
(* off, that another save overlapped or that overlaps the load, and only   *)
(* until the next save or delete that comes after that one: however the    *)
(* file was left, the next save that is alone repairs it.                  *)
(***************************************************************************)
THEOREM RefusalIsCaused == Spec => []RefusedHasCause
<1>1. Init => CauseInv
  <2> SUFFICES ASSUME Init PROVE CauseInv
      OBVIOUS
  <2>1. Made = {} /\ path = NoFile
      BY DEF Init, Made
  <2> QED
      BY <2>1, InitCalls DEF CauseInv, FileIsOfLatest, ReadersAreSafe, RefusedHasCause
<1>2. CauseInv /\ [Next]_vars => CauseInv'
  <2> SUFFICES ASSUME CauseInv, [Next]_vars PROVE CauseInv'
      OBVIOUS
  <2>1. CallsInv' /\ FileIsOfLatest'
      BY StepCalls, StepFileIsOfLatest DEF CauseInv
  <2>2. ReadersAreSafe' /\ RefusedHasCause'
      BY StepReadersAreSafe, StepRefused
  <2> QED
      BY <2>1, <2>2 DEF CauseInv
<1>3. CauseInv => RefusedHasCause
    BY DEF CauseInv
<1> QED
    BY <1>1, <1>2, <1>3, PTL DEF Spec

-----------------------------------------------------------------------------
(* The store as a register *)

\* Saves and deletes one at a time, nobody gives up, nothing is cut off.
InTurn == Exclusive /\ MaxCancels = 0 /\ MaxCrashes = 0

\* Only loads are under way together.
OnlyLoadsOverlap ==
    \A c \in Made, d \in Made :
        c # d /\ ~Over(c) /\ ~Over(d) => calls[c].op = "load" /\ calls[d].op = "load"

NoneGivenUp ==
    \A c \in Made : calls[c].awaited /\ calls[c].step \in {"made", "queued", "open", "done"}

WritersOf(cs) == {c \in DOMAIN cs : cs[c].op = "save" /\ cs[c].step = "open"}

\* The file has what the save that is at work on it has written, or all of
\* one save.
FileIsWritten ==
    /\ \A w \in WritersOf(calls) :
          path # NoFile /\ calls[w].file = path /\ disk[path] = calls[w].blocks
    /\ WritersOf(calls) = {} /\ path # NoFile =>
          \E v \in Made : calls[v].op = "save" /\ disk[path] = Payload(v)

\* Nobody removes the file between the check and the access.
FileIsThere ==
    \A c \in Made : calls[c].op \in {"load", "delete"} /\ calls[c].step = "queued" => path # NoFile

ReadersFollow ==
    \A l \in Made : At(l, "load", "open") =>
        /\ path # NoFile /\ calls[l].file = path
        /\ Len(calls[l].blocks) <= Len(disk[path])
        /\ \A i \in DOMAIN calls[l].blocks : calls[l].blocks[i] = disk[path][i]

RegisterInv ==
    CallsInv /\ OnlyLoadsOverlap /\ NoneGivenUp /\ FileIsWritten /\ FileIsThere /\ ReadersFollow

\* While a call that is no load is under way, every other one is over.
LEMMA OthersOver ==
    ASSUME RegisterInv, NEW c \in Made, ~Over(c), calls[c].op # "load"
    PROVE  \A d \in Made \ {c} : Over(d)
BY DEF RegisterInv, OnlyLoadsOverlap

\* No call is given up where none may be.
LEMMA NoneCancelled ==
    ASSUME TypeOK, MaxCancels = 0, NEW c \in Made
    PROVE  ~ cancel(c)
<1>1. IsFiniteSet(GivenUp)
  <2>1. IsFiniteSet(1 .. Len(calls))
      BY FS_Interval DEF TypeOK
  <2>2. GivenUp \subseteq 1 .. Len(calls)
      BY DEF GivenUp, Made, TypeOK
  <2> QED
      BY <2>1, <2>2, FS_Subset
<1>2. Cardinality(GivenUp) \in Nat
    BY <1>1, FS_CardinalityType
<1> QED
    BY <1>2 DEF cancel

LEMMA InTurnSteps ==
    ASSUME InTurn, RegisterInv, [Next]_vars
    PROVE  OnlyLoadsOverlap' /\ NoneGivenUp'
<1>i. CallsInv /\ TypeOK
    BY DEF RegisterInv, CallsInv
<1>1. ASSUME NEW op \in {"save", "load", "delete"}, NEW size \in 1 .. MaxBlocks, make(op, size)
      PROVE  OnlyLoadsOverlap' /\ NoneGivenUp'
  <2>1. /\ Made' = Made \cup {Len(calls) + 1} /\ Len(calls) + 1 \notin Made
        /\ calls'[Len(calls) + 1] = Asked(op, size)
        /\ \A d \in Made : calls'[d] = calls[d]
      BY <1>i, <1>1, MakeAsks
  <2>2. \A d \in Made : ~Over(d) => op = "load" /\ calls[d].op = "load"
      BY <1>1 DEF make, MayMake, InTurn, Ongoing
  <2>3. NoneGivenUp'
      BY <2>1 DEF RegisterInv, NoneGivenUp, Asked
  <2>4. /\ \A d \in Made : Over(d)' <=> Over(d)
        /\ calls'[Len(calls) + 1].op = op
      BY <2>1 DEF Over, Asked
  <2>5. OnlyLoadsOverlap'
      BY <2>1, <2>2, <2>4 DEF RegisterInv, OnlyLoadsOverlap
  <2> QED
      BY <2>3, <2>5
<1>2. ASSUME NEW c \in Made, Work(c) PROVE OnlyLoadsOverlap' /\ NoneGivenUp'
  <2>0. OpenFiles
      BY <1>i DEF CallsInv, Sound, OpenFiles
  <2>1. PICK r : Becomes(c, r) /\ Affects(c, calls[c], r)
      BY <1>i, <1>2, <2>0, WorkAffects
  <2>2. /\ Made' = Made /\ calls'[c] = r /\ \A d \in Made \ {c} : calls'[d] = calls[d]
        /\ ~Over(c) /\ r.op = calls[c].op
      BY <1>i, <2>1, BecomesFrame DEF Becomes
  <2>3. r.awaited /\ r.step \in {"queued", "open", "done"}
    <3>1. calls[c].awaited /\ calls[c].step \in {"made", "queued", "open", "done"}
        BY DEF RegisterInv, NoneGivenUp
    <3>2. calls[c] \in Call /\ calls \in Seq(Call)
        BY <1>i, CallFields DEF TypeOK
    <3>3. ASSUME NEW a, calls' = Ended(c, a) PROVE calls'[c].awaited /\ calls'[c].step = "done"
        BY <3>1, <3>2, <3>3 DEF Ended, Call, Made
    <3>4. ASSUME calls' = Queued(c) PROVE calls'[c].awaited /\ calls'[c].step = "queued"
        BY <3>1, <3>2, <3>4 DEF Queued, Call, Made
    <3>5. CASE save_group(c) \/ load_group(c) \/ delete_group(c)
        BY <2>2, <3>3, <3>4, <3>5 DEF save_group, load_group, delete_group
    <3>6. CASE write_open(c) \/ write_block(c) \/ read_block(c)
        BY <2>2, <3>1, <3>2, <3>6 DEF write_open, write_block, read_block, At, Call, Made
    <3>7. CASE write_close(c) \/ read_end(c)
        BY <2>2, <3>3, <3>7 DEF write_close, read_end
    <3>8. CASE read_open(c) \/ remove(c)
      <4>1. CASE path = NoFile
          BY <2>2, <3>3, <3>8, <4>1 DEF read_open, remove
      <4>2. CASE path # NoFile /\ read_open(c)
          BY <2>2, <3>1, <3>2, <4>2 DEF read_open, Call, Made
      <4>3. CASE path # NoFile /\ remove(c)
        <5> DEFINE e == Ended(c, <<"deleted">>)
        <5>1. e[c].awaited /\ e[c].step = "done" /\ c \in DOMAIN e
            BY <3>1, <3>2 DEF Ended, Call, Made
        <5>2. DOMAIN e[c] = DOMAIN calls[c]
            BY <3>2 DEF Ended, Call, Made
        <5>3. calls' = [e EXCEPT ![c].file = path]
            BY <4>3 DEF remove
        <5>4. DOMAIN calls[c] = {"op", "size", "over", "step", "file", "blocks", "answer", "awaited"}
            BY <3>2 DEF Call
        <5> HIDE DEF e
        <5>5. calls'[c].awaited = e[c].awaited /\ calls'[c].step = e[c].step
            BY <5>1, <5>2, <5>3, <5>4
        <5> QED
            BY <2>2, <5>1, <5>5
      <4> QED
          BY <3>8, <4>1, <4>2, <4>3
    <3> QED
        BY <1>2, <3>5, <3>6, <3>7, <3>8 DEF Work
  <2>4. NoneGivenUp'
      BY <2>2, <2>3 DEF RegisterInv, NoneGivenUp
  <2>5. \A d \in Made : Over(d) => Over(d)'
      BY <2>2 DEF Over
  <2>6. OnlyLoadsOverlap'
      BY <2>2, <2>5 DEF RegisterInv, OnlyLoadsOverlap
  <2> QED
      BY <2>4, <2>6
<1>3. CASE UNCHANGED vars
    BY <1>3 DEF vars, RegisterInv, OnlyLoadsOverlap, NoneGivenUp, Made, Over
<1>4. ~ crash /\ \A c \in Made : ~ cancel(c)
    BY <1>i, NoneCancelled DEF crash, InTurn, RegisterInv, CallsInv, TypeOK
<1>5. 1 \in 1 .. MaxBlocks
    BY StoreAssumption
<1> QED
    BY <1>1, <1>2, <1>3, <1>4, <1>5 DEF Next

LEMMA FileSteps ==
    ASSUME InTurn, RegisterInv, [Next]_vars
    PROVE  FileIsWritten' /\ FileIsThere' /\ ReadersFollow'
<1> DEFINE Goal == FileIsWritten' /\ FileIsThere' /\ ReadersFollow'
<1>i. CallsInv /\ TypeOK
    BY DEF RegisterInv, CallsInv
<1>f. FileIsWritten /\ FileIsThere /\ ReadersFollow
    BY DEF RegisterInv
<1>n. \A d \in Made' : calls'[d].step \notin {"killed", "dropped"}
    BY InTurnSteps DEF NoneGivenUp
<1>d. Made = DOMAIN calls /\ Made' = DOMAIN calls'
    BY DEF Made
<1>t. /\ path \in {NoFile} \cup Calls /\ disk \in [Calls -> Seq({Hole} \cup Calls)]
      /\ NoFile \notin Calls
    BY <1>i DEF TypeOK, NoFile, Calls
<1>1. CASE Still
  <2>1. /\ \A d \in Made : d \in Made'
        /\ \A d \in Made : /\ Keeps(calls[d], calls'[d])
                           /\ calls'[d].op = calls[d].op /\ calls'[d].size = calls[d].size
                           /\ calls'[d].step = calls[d].step
        /\ \A d \in Made' \ Made : calls'[d].step = "made"
        /\ path' = path /\ disk' = disk
      BY <1>1, <1>n DEF Still
  <2>2. WritersOf(calls') = WritersOf(calls)
      BY <1>d, <2>1 DEF WritersOf
  <2>3. \A v \in Made : Payload(v)' = Payload(v)
      BY <2>1 DEF Payload
  <2>4. FileIsWritten'
      BY <1>d, <1>f, <2>1, <2>2, <2>3 DEF FileIsWritten, Keeps, WritersOf
  <2>5. FileIsThere' /\ ReadersFollow'
      BY <1>f, <2>1 DEF FileIsThere, ReadersFollow, Keeps, At
  <2> QED
      BY <2>4, <2>5
<1>2. ASSUME NEW c \in Made, NEW r, Becomes(c, r), Affects(c, calls[c], r) PROVE Goal
  <2> DEFINE s == calls[c]
  <2>1. /\ Made' = Made /\ calls'[c] = r /\ \A d \in Made \ {c} : calls'[d] = calls[d]
        /\ ~Over(c) /\ r.op = s.op /\ r.size = s.size
      BY <1>i, <1>2, BecomesFrame DEF Becomes
  <2>2. /\ Sound(c, s) /\ c \in Calls /\ s.file \in {NoFile} \cup Calls
        /\ s.blocks \in Seq({Hole} \cup Calls) /\ s.size \in Nat \ {0}
      BY <1>i, CallFields DEF CallsInv
  <2>3. \A v \in Made : Payload(v)' = Payload(v)
    <3>1. \A v \in Made : calls'[v].size = calls[v].size
        BY <2>1
    <3> QED
        BY <3>1 DEF Payload
  <2>4. s.op # "load" =>
            /\ WritersOf(calls') = IF r.op = "save" /\ r.step = "open" THEN {c} ELSE {}
            /\ WritersOf(calls) = IF s.op = "save" /\ s.step = "open" THEN {c} ELSE {}
            /\ \A d \in Made \ {c} : calls'[d].step \notin {"queued", "open"}
    <3>1. ASSUME s.op # "load" PROVE \A d \in Made \ {c} : Over(d)
        BY <2>1, <3>1, OthersOver
    <3> QED
        BY <1>d, <2>1, <3>1 DEF Over, WritersOf
  <2>5. CASE Opens(c, s, r)
    <3>1. path' \in Calls /\ disk'[path'] = <<>> /\ s.blocks = <<>>
        BY <1>t, <2>2, <2>5 DEF Opens, Sound
    <3>2. s.op = "save" /\ r.op = "save" /\ r.step = "open" /\ r.file = path' /\ r.blocks = <<>>
        BY <2>1, <2>5, <3>1 DEF Opens
    <3>3. FileIsWritten'
        BY <1>t, <2>1, <2>4, <3>1, <3>2 DEF FileIsWritten
    <3>4. FileIsThere' /\ ReadersFollow'
        BY <2>1, <2>4, <3>2 DEF FileIsThere, ReadersFollow, At
    <3> QED
        BY <3>3, <3>4
  <2>6. CASE Writes(c, s, r)
    <3>1. s.op = "save" /\ s.step = "open" /\ r.op = "save" /\ r.step = "open" /\ r.file = s.file
          /\ r.blocks = Append(s.blocks, c) /\ path' = path
        BY <2>1, <2>6 DEF Writes
    <3>2. c \in WritersOf(calls)
        BY <1>d, <3>1 DEF WritersOf
    <3>3. path # NoFile /\ s.file = path /\ disk[path] = s.blocks /\ path \in Calls
        BY <1>f, <1>t, <3>2 DEF FileIsWritten
    <3>4. disk'[path] = WithBlock(s.blocks, Len(s.blocks) + 1, c)
        BY <1>t, <2>6, <3>3 DEF Writes
    <3>5. WithBlock(s.blocks, Len(s.blocks) + 1, c) = Append(s.blocks, c)
        BY <2>2 DEF WithBlock
    <3>6. FileIsWritten'
        BY <2>1, <2>4, <3>1, <3>3, <3>4, <3>5 DEF FileIsWritten
    <3>7. FileIsThere' /\ ReadersFollow'
        BY <2>1, <2>4, <3>1 DEF FileIsThere, ReadersFollow, At
    <3> QED
        BY <3>6, <3>7
  <2>7. CASE Closes(s, r)
    <3>1. s.op = "save" /\ s.step = "open" /\ r.op = "save" /\ r.step = "done"
          /\ Len(s.blocks) = s.size /\ path' = path /\ disk' = disk
        BY <2>1, <2>7 DEF Closes
    <3>2. c \in WritersOf(calls)
        BY <1>d, <3>1 DEF WritersOf
    <3>3. disk[path] = s.blocks
        BY <1>f, <3>2 DEF FileIsWritten
    <3>4. s.blocks = Payload(c)
        BY <2>2, <3>1 DEF Sound, Payload
    <3>5. calls'[c].op = "save" /\ disk'[path'] = Payload(c)'
        BY <2>1, <2>3, <3>1, <3>3, <3>4
    <3>6. FileIsWritten'
        BY <2>1, <2>4, <3>1, <3>5 DEF FileIsWritten
    <3>7. FileIsThere' /\ ReadersFollow'
        BY <2>1, <2>4, <3>1 DEF FileIsThere, ReadersFollow, At
    <3> QED
        BY <3>6, <3>7
  <2>8. CASE Removes(s, r)
    <3>1. s.op = "delete" /\ r.op = "delete" /\ r.step = "done" /\ path' = NoFile
        BY <2>1, <2>8 DEF Removes
    <3>2. FileIsWritten'
        BY <2>1, <2>4, <3>1 DEF FileIsWritten
    <3>3. FileIsThere' /\ ReadersFollow'
        BY <2>1, <2>4, <3>1 DEF FileIsThere, ReadersFollow, At
    <3> QED
        BY <3>2, <3>3
  <2>9. CASE Waits(s, r) \/ Misses(s, r) \/ ReadOpens(s, r) \/ Reads(s, r) \/ ReadEnds(s, r)
    <3>1. path' = path /\ disk' = disk
        BY <2>9 DEF Waits, Misses, ReadOpens, Reads, ReadEnds
    <3>2. r.step \notin {"killed", "dropped"}
        BY <1>n, <2>1
    <3>3. s.op = "save" => /\ r.step = "open" <=> s.step = "open"
                           /\ r.file = s.file /\ r.blocks = s.blocks
        BY <2>9, <3>2 DEF Waits, Keeps, Misses, ReadOpens, Reads, ReadEnds
    <3>4. WritersOf(calls') = WritersOf(calls)
        BY <1>d, <2>1, <3>3 DEF WritersOf
    <3>5. \A w \in WritersOf(calls) : calls'[w].file = calls[w].file /\ calls'[w].blocks = calls[w].blocks
        BY <1>d, <2>1, <3>3 DEF WritersOf
    <3>6. \A v \in Made : calls'[v].op = calls[v].op
        BY <2>1
    <3>7. FileIsWritten'
        BY <1>f, <2>1, <2>3, <3>1, <3>4, <3>5, <3>6 DEF FileIsWritten
    <3>8. r.op \in {"load", "delete"} /\ r.step = "queued" => path # NoFile
        BY <1>f, <2>1, <2>9, <3>2 DEF Waits, Misses, ReadOpens, Reads, ReadEnds, FileIsThere
    <3>9. FileIsThere'
        BY <1>f, <2>1, <3>1, <3>8 DEF FileIsThere
    <3>10. ASSUME r.op = "load", r.step = "open"
           PROVE  /\ path # NoFile /\ r.file = path
                  /\ Len(r.blocks) <= Len(disk[path])
                  /\ \A i \in DOMAIN r.blocks : r.blocks[i] = disk[path][i]
      <4>1. s.op = "load" /\ (s.step = "open" =>
                /\ path # NoFile /\ s.file = path
                /\ Len(s.blocks) <= Len(disk[path])
                /\ \A i \in DOMAIN s.blocks : s.blocks[i] = disk[path][i])
          BY <1>f, <2>1, <3>10 DEF ReadersFollow, At
      <4>2. CASE Waits(s, r)
          BY <3>2, <3>10, <4>1, <4>2 DEF Waits, Keeps
      <4>3. CASE ReadOpens(s, r)
        <5>1. s.blocks = <<>> /\ path \in Calls
            BY <1>t, <2>2, <4>3 DEF ReadOpens, Sound
        <5>2. disk[path] \in Seq({Hole} \cup Calls)
            BY <1>t, <5>1
        <5>3. Len(disk[path]) \in Nat
            BY <5>2
        <5>4. r.blocks = <<>> /\ r.file = path /\ path # NoFile
            BY <4>3, <5>1 DEF ReadOpens
        <5> QED
            BY <5>3, <5>4
      <4>4. CASE Reads(s, r)
        <5>1. s.file = path /\ path \in Calls /\ r.file = path /\ path # NoFile
              /\ Len(s.blocks) + 1 \in DOMAIN disk[path]
              /\ r.blocks = Append(s.blocks, disk[path][Len(s.blocks) + 1])
            BY <1>t, <4>1, <4>4 DEF Reads
        <5>2. disk[path] \in Seq({Hole} \cup Calls)
            BY <1>t, <5>1
        <5>3. DOMAIN disk[path] = 1 .. Len(disk[path]) /\ Len(disk[path]) \in Nat
            BY <5>2
        <5>4. disk[path][Len(s.blocks) + 1] \in {Hole} \cup Calls
            BY <5>1, <5>2
        <5>5. Len(r.blocks) = Len(s.blocks) + 1
            BY <2>2, <5>1, <5>4
        <5>6. \A i \in DOMAIN r.blocks :
                  r.blocks[i] = IF i = Len(s.blocks) + 1 THEN disk[path][i] ELSE s.blocks[i]
            BY <2>2, <5>1, <5>4
        <5>7. \A i \in DOMAIN r.blocks : i = Len(s.blocks) + 1 \/ i \in DOMAIN s.blocks
            BY <2>2, <5>1, <5>4
        <5>8. s.step = "open"
            BY <4>4 DEF Reads
        <5> QED
            BY <4>1, <5>1, <5>3, <5>5, <5>6, <5>7, <5>8
      <4> QED
          BY <2>9, <3>10, <4>2, <4>3, <4>4 DEF Misses, ReadEnds
    <3>11. ReadersFollow'
        BY <1>f, <2>1, <3>1, <3>10 DEF ReadersFollow, At
    <3> QED
        BY <3>7, <3>9, <3>11
  <2> QED
      BY <1>2, <2>5, <2>6, <2>7, <2>8, <2>9 DEF Affects
<1> QED
    BY <1>i, <1>1, <1>2, StepKinds

LEMMA StepRegister == InTurn /\ RegisterInv /\ [Next]_vars => RegisterInv'
<1> SUFFICES ASSUME InTurn, RegisterInv, [Next]_vars PROVE RegisterInv'
    OBVIOUS
<1>1. CallsInv'
    BY StepCalls DEF RegisterInv
<1> QED
    BY <1>1, InTurnSteps, FileSteps DEF RegisterInv

\* The register's value, and what it knows of a call, in terms of the state.
HoldsOf(cs, p, d) ==
    IF WritersOf(cs) # {} THEN CHOOSE c \in WritersOf(cs) : TRUE
    ELSE IF p = NoFile THEN 0 ELSE d[p][1]

Told(s) ==
    [op |-> s.op,
     answer |-> IF s.op = "save" /\ s.step = "open" THEN <<"saved">> ELSE s.answer]

AskedOf(cs) == [c \in DOMAIN cs |-> Told(cs[c])]

LEMMA HoldsIs ==
    ASSUME NEW cs, NEW p, NEW d
    PROVE  /\ \A w : WritersOf(cs) = {w} => HoldsOf(cs, p, d) = w
           /\ WritersOf(cs) = {} /\ p = NoFile => HoldsOf(cs, p, d) = 0
           /\ WritersOf(cs) = {} /\ p # NoFile => HoldsOf(cs, p, d) = d[p][1]
BY DEF HoldsOf

\* Whoever is not over decides who writes.
LEMMA WhoWrites ==
    ASSUME RegisterInv, NEW c \in Made, NEW r, Becomes(c, r)
    PROVE  /\ WritersOf(calls) = IF calls[c].op = "save" /\ calls[c].step = "open" THEN {c} ELSE {}
           /\ WritersOf(calls') = IF r.op = "save" /\ r.step = "open" THEN {c} ELSE {}
<1>1. /\ Made = DOMAIN calls /\ Made' = Made /\ calls'[c] = r
      /\ \A d \in Made \ {c} : calls'[d] = calls[d]
    BY BecomesFrame DEF RegisterInv, CallsInv, Made
<1>2. Made' = DOMAIN calls' /\ ~Over(c)
    BY DEF Made, Becomes
<1>3. \A d \in Made \ {c} : ~ (calls[d].op = "save" /\ calls[d].step = "open")
    BY <1>2 DEF RegisterInv, OnlyLoadsOverlap, Over
<1> QED
    BY <1>1, <1>2, <1>3 DEF WritersOf

\* A file that nobody writes has the first block of a save.
LEMMA FileHolds ==
    ASSUME RegisterInv, WritersOf(calls) = {}, path # NoFile
    PROVE  \E v \in Made : /\ calls[v].op = "save" /\ disk[path] = Payload(v)
                           /\ HoldsOf(calls, path, disk) = v /\ v # 0
<1>1. PICK v \in Made : calls[v].op = "save" /\ disk[path] = Payload(v)
    BY DEF RegisterInv, FileIsWritten
<1>2. calls[v].size \in Nat \ {0} /\ v # 0
    BY CallFields DEF RegisterInv, CallsInv
<1>3. disk[path][1] = v
    BY <1>1, <1>2 DEF Payload
<1>4. HoldsOf(calls, path, disk) = v
    BY <1>3, HoldsIs
<1> QED
    BY <1>1, <1>2, <1>4

\* What a step of call c does to the register: nothing, or an answer.
Unseen(c, r) == Told(r) = Told(calls[c]) /\ HoldsOf(calls', path', disk') = HoldsOf(calls, path, disk)

AnswersWith(c, r, a, h) ==
    /\ Told(calls[c]).answer = Pending
    /\ Told(r) = [op |-> calls[c].op, answer |-> a]
    /\ HoldsOf(calls', path', disk') = h

RegisterStep(c, r) ==
    LET h == HoldsOf(calls, path, disk) IN
    \/ Unseen(c, r)
    \/ calls[c].op = "save" /\ AnswersWith(c, r, <<"saved">>, c)
    \/ calls[c].op = "load" /\ AnswersWith(c, r, IF h = 0 THEN <<"absent">> ELSE <<"loaded", h>>, h)
    \/ calls[c].op = "delete" /\ AnswersWith(c, r, IF h = 0 THEN <<"nothing">> ELSE <<"deleted">>, 0)

LEMMA WorkIsRegisterStep ==
    ASSUME InTurn, RegisterInv, NEW c \in Made, Work(c)
    PROVE  \E r : Becomes(c, r) /\ RegisterStep(c, r)
<1> DEFINE s == calls[c]
           h == HoldsOf(calls, path, disk)
<1>i. CallsInv /\ TypeOK /\ OpenFiles
    BY DEF RegisterInv, CallsInv, Sound, OpenFiles
<1>1. PICK r : Becomes(c, r) /\ Affects(c, s, r)
    BY <1>i, WorkAffects
<1>2. /\ Made = DOMAIN calls /\ calls'[c] = r /\ r.op = s.op /\ r.size = s.size /\ r \in Call
      /\ ~Over(c) /\ s \in Call /\ calls \in Seq(Call)
    BY <1>i, <1>1, BecomesFrame DEF Becomes, Made, TypeOK
<1>3. s.awaited /\ Sound(c, s) /\ s.answer = Pending
    BY <1>i, <1>2 DEF RegisterInv, NoneGivenUp, CallsInv, Sound, Over
<1>4. /\ WritersOf(calls) = IF s.op = "save" /\ s.step = "open" THEN {c} ELSE {}
      /\ WritersOf(calls') = IF r.op = "save" /\ r.step = "open" THEN {c} ELSE {}
    BY <1>1, WhoWrites
<1>5. ASSUME NEW a, calls' = Ended(c, a) PROVE r.answer = a /\ r.step = "done"
    BY <1>2, <1>3, <1>5 DEF Ended, Call
<1>6. ASSUME calls' = Queued(c) PROVE r.answer = s.answer /\ r.step = "queued"
    BY <1>2, <1>6 DEF Queued, Call
<1>7. ASSUME path' = path, disk' = disk, WritersOf(calls') = WritersOf(calls)
      PROVE  HoldsOf(calls', path', disk') = h
    BY <1>7 DEF HoldsOf
<1>8. path = NoFile /\ WritersOf(calls) = {} => h = 0
    BY HoldsIs
<1>9. CASE save_group(c)
  <2>1. s.op = "save" /\ s.step = "made" /\ calls' = Queued(c) /\ path' = path /\ disk' = disk
      BY <1>9 DEF save_group, At
  <2>2. Unseen(c, r)
      BY <1>2, <1>4, <1>6, <1>7, <2>1 DEF Unseen, Told
  <2> QED
      BY <1>1, <2>2 DEF RegisterStep
<1>10. CASE write_open(c)
  <2>1. s.op = "save" /\ s.step = "queued"
      BY <1>10 DEF write_open, At
  <2>2. r.step = "open"
      BY <1>2, <1>10 DEF write_open, Call
  <2>3. WritersOf(calls') = {c}
      BY <1>2, <1>4, <2>1, <2>2
  <2>4. HoldsOf(calls', path', disk') = c
      BY <2>3, HoldsIs
  <2>5. AnswersWith(c, r, <<"saved">>, c)
      BY <1>2, <1>3, <2>1, <2>2, <2>4 DEF AnswersWith, Told
  <2> QED
      BY <1>1, <2>1, <2>5 DEF RegisterStep
<1>11. CASE write_block(c)
  <2>1. s.op = "save" /\ s.step = "open"
      BY <1>11 DEF write_block, At
  <2>2. r.step = "open"
      BY <1>2, <1>11, <2>1 DEF write_block, Call
  <2>3. WritersOf(calls') = {c} /\ WritersOf(calls) = {c}
      BY <1>2, <1>4, <2>1, <2>2
  <2>4. HoldsOf(calls', path', disk') = h
      BY <2>3, HoldsIs
  <2>5. Unseen(c, r)
      BY <1>2, <2>1, <2>2, <2>4 DEF Unseen, Told
  <2> QED
      BY <1>1, <2>5 DEF RegisterStep
<1>12. CASE write_close(c)
  <2>1. /\ s.op = "save" /\ s.step = "open" /\ Len(s.blocks) = s.size
        /\ calls' = Ended(c, <<"saved">>) /\ path' = path /\ disk' = disk
      BY <1>12 DEF write_close, At
  <2>2. WritersOf(calls') = {} /\ WritersOf(calls) = {c}
      BY <1>2, <1>4, <1>5, <2>1
  <2>3. path # NoFile /\ disk[path] = s.blocks
      BY <2>2 DEF RegisterInv, FileIsWritten
  <2>4. disk[path][1] = c
    <3>1. s.size \in Nat \ {0} /\ s.blocks \in Seq({Hole} \cup Calls)
        BY <1>i, CallFields
    <3>2. 1 \in DOMAIN s.blocks
        BY <2>1, <3>1
    <3> QED
        BY <1>3, <2>1, <2>3, <3>2 DEF Sound
  <2>5. HoldsOf(calls', path', disk') = c /\ h = c
    <3>1. h = c
        BY <2>2, HoldsIs
    <3>2. path' # NoFile /\ disk'[path'][1] = c
        BY <2>1, <2>3, <2>4
    <3>3. HoldsOf(calls', path', disk') = disk'[path'][1]
        BY <2>2, <3>2, HoldsIs
    <3> QED
        BY <3>1, <3>2, <3>3
  <2>6. Unseen(c, r)
      BY <1>2, <1>5, <2>1, <2>5 DEF Unseen, Told
  <2> QED
      BY <1>1, <2>6 DEF RegisterStep
<1>13. CASE load_group(c)
  <2>1. s.op = "load" /\ s.step = "made" /\ path' = path /\ disk' = disk
      BY <1>13 DEF load_group, At
  <2>2. HoldsOf(calls', path', disk') = h /\ WritersOf(calls) = {}
      BY <1>2, <1>4, <1>7, <2>1
  <2>3. CASE path = NoFile
    <3>1. calls' = Ended(c, <<"absent">>) /\ h = 0
        BY <1>8, <1>13, <2>2, <2>3 DEF load_group
    <3>2. AnswersWith(c, r, <<"absent">>, h)
        BY <1>2, <1>3, <1>5, <2>1, <2>2, <3>1 DEF AnswersWith, Told
    <3> QED
        BY <1>1, <2>1, <3>1, <3>2 DEF RegisterStep
  <2>4. CASE path # NoFile
    <3>1. calls' = Queued(c)
        BY <1>13, <2>4 DEF load_group
    <3>2. Unseen(c, r)
        BY <1>2, <1>6, <2>1, <2>2, <3>1 DEF Unseen, Told
    <3> QED
        BY <1>1, <3>2 DEF RegisterStep
  <2> QED
      BY <2>3, <2>4
<1>14. CASE read_open(c) \/ read_block(c)
  <2>1. s.op = "load" /\ path' = path /\ disk' = disk
      BY <1>14 DEF read_open, read_block, At
  <2>2. HoldsOf(calls', path', disk') = h
      BY <1>2, <1>4, <1>7, <2>1
  <2>3. read_open(c) => path # NoFile
      BY DEF RegisterInv, FileIsThere, read_open, At
  <2>4. r.answer = s.answer
      BY <1>2, <1>14, <2>3 DEF read_open, read_block, Call
  <2>5. Unseen(c, r)
      BY <1>2, <2>1, <2>2, <2>4 DEF Unseen, Told
  <2> QED
      BY <1>1, <2>5 DEF RegisterStep
<1>15. CASE read_end(c)
  <2>1. /\ s.op = "load" /\ s.step = "open" /\ Len(s.blocks) + 1 \notin DOMAIN disk[s.file]
        /\ calls' = Ended(c, Decrypted(s.blocks)) /\ path' = path /\ disk' = disk
      BY <1>15 DEF read_end, At, NextBlock
  <2>2. HoldsOf(calls', path', disk') = h /\ WritersOf(calls) = {}
      BY <1>2, <1>4, <1>7, <2>1
  <2>3. /\ path # NoFile /\ s.file = path
        /\ Len(s.blocks) <= Len(disk[path])
        /\ \A i \in DOMAIN s.blocks : s.blocks[i] = disk[path][i]
      BY <2>1 DEF RegisterInv, ReadersFollow, At
  <2>4. PICK v \in Made : calls[v].op = "save" /\ disk[path] = Payload(v) /\ h = v /\ v # 0
      BY <2>2, <2>3, FileHolds
  <2>5. /\ s.blocks \in Seq({Hole} \cup Calls) /\ calls[v].size \in Nat \ {0}
        /\ DOMAIN disk[path] = 1 .. calls[v].size /\ Len(disk[path]) = calls[v].size
        /\ \A i \in 1 .. calls[v].size : disk[path][i] = v
      BY <1>i, <2>4, CallFields DEF Payload
  <2>6. Len(s.blocks) = calls[v].size /\ \A i \in DOMAIN s.blocks : s.blocks[i] = v
      BY <2>1, <2>3, <2>5
  <2>7. Decrypted(s.blocks) = <<"loaded", v>>
      BY <1>i, <2>4, <2>5, <2>6, DecryptsTo
  <2>8. AnswersWith(c, r, <<"loaded", h>>, h)
      BY <1>2, <1>3, <1>5, <2>1, <2>2, <2>4, <2>7 DEF AnswersWith, Told
  <2> QED
      BY <1>1, <2>1, <2>4, <2>8 DEF RegisterStep
<1>16. CASE delete_group(c)
  <2>1. s.op = "delete" /\ s.step = "made" /\ path' = path /\ disk' = disk
      BY <1>16 DEF delete_group, At
  <2>2. HoldsOf(calls', path', disk') = h /\ WritersOf(calls) = {}
      BY <1>2, <1>4, <1>7, <2>1
  <2>3. CASE path = NoFile
    <3>1. calls' = Ended(c, <<"nothing">>) /\ h = 0
        BY <1>8, <1>16, <2>2, <2>3 DEF delete_group
    <3>2. AnswersWith(c, r, <<"nothing">>, 0)
        BY <1>2, <1>3, <1>5, <2>1, <2>2, <3>1 DEF AnswersWith, Told
    <3> QED
        BY <1>1, <2>1, <3>1, <3>2 DEF RegisterStep
  <2>4. CASE path # NoFile
    <3>1. calls' = Queued(c)
        BY <1>16, <2>4 DEF delete_group
    <3>2. Unseen(c, r)
        BY <1>2, <1>6, <2>1, <2>2, <3>1 DEF Unseen, Told
    <3> QED
        BY <1>1, <3>2 DEF RegisterStep
  <2> QED
      BY <2>3, <2>4
<1>17. CASE remove(c)
  <2>1. s.op = "delete" /\ s.step = "queued" /\ path # NoFile /\ path' = NoFile
      BY <1>17 DEF RegisterInv, FileIsThere, remove, At
  <2>2. WritersOf(calls) = {} /\ WritersOf(calls') = {}
      BY <1>2, <1>4, <2>1
  <2>3. HoldsOf(calls', path', disk') = 0
      BY <2>1, <2>2, HoldsIs
  <2>4. h # 0
      BY <2>1, <2>2, FileHolds
  <2>5. r.answer = <<"deleted">>
    <3> DEFINE e == Ended(c, <<"deleted">>)
    <3>1. e[c].answer = <<"deleted">> /\ c \in DOMAIN e
          /\ DOMAIN e[c] = {"op", "size", "over", "step", "file", "blocks", "answer", "awaited"}
        BY <1>2, <1>3 DEF Ended, Call
    <3>2. calls' = [e EXCEPT ![c].file = path]
        BY <1>17, <2>1 DEF remove
    <3> HIDE DEF e
    <3> QED
        BY <1>2, <3>1, <3>2
  <2>6. AnswersWith(c, r, <<"deleted">>, 0)
      BY <1>2, <1>3, <2>1, <2>3, <2>5 DEF AnswersWith, Told
  <2> QED
      BY <1>1, <2>1, <2>4, <2>6 DEF RegisterStep
<1> QED
    BY <1>9, <1>10, <1>11, <1>12, <1>13, <1>14, <1>15, <1>16, <1>17 DEF Work

LEMMA StepMaps ==
    ASSUME InTurn, RegisterInv, [Next]_vars
    PROVE  [Register!Next]_<<Holds,
               [c \in Made |->
                   [op |-> calls[c].op,
                    answer |-> IF At(c, "save", "open") THEN <<"saved">> ELSE calls[c].answer]]>>
<1> DEFINE asked ==
               [c \in Made |->
                   [op |-> calls[c].op,
                    answer |-> IF At(c, "save", "open") THEN <<"saved">> ELSE calls[c].answer]]
           Maps == [Register!Next]_<<Holds, asked>>
           h == HoldsOf(calls, path, disk)
<1>i. CallsInv /\ TypeOK
    BY DEF RegisterInv, CallsInv
<1>h. Holds = h /\ Holds' = h'
  <2> DEFINE W == {c \in Made : At(c, "save", "open")}
  <2>1. W = WritersOf(calls) /\ W' = WritersOf(calls')
      BY DEF WritersOf, At, Made
  <2>2. Holds = IF W # {} THEN CHOOSE c \in W : TRUE ELSE IF path = NoFile THEN 0 ELSE disk[path][1]
      BY DEF Holds
  <2>3. Holds' = IF W' # {} THEN CHOOSE c \in W' : TRUE
                 ELSE IF path' = NoFile THEN 0 ELSE disk'[path'][1]
      BY DEF Holds
  <2> HIDE DEF W
  <2> QED
      BY <2>1, <2>2, <2>3 DEF HoldsOf
<1>a. asked = AskedOf(calls) /\ asked' = AskedOf(calls')
    BY DEF AskedOf, Told, At, Made
<1>l. Made = 1 .. Len(calls) /\ Len(calls) \in Nat /\ Made = DOMAIN calls /\ Made' = DOMAIN calls'
    BY <1>i DEF TypeOK, Made
<1>1. ASSUME NEW op \in {"save", "load", "delete"}, NEW size \in 1 .. MaxBlocks, make(op, size)
      PROVE  Maps
  <2> DEFINE n == Len(calls) + 1
             e == [op |-> op, answer |-> Pending]
  <2>1. /\ Made' = Made \cup {n} /\ n \notin Made
        /\ calls'[n] = Asked(op, size)
        /\ \A d \in Made : calls'[d] = calls[d]
        /\ Len(calls) < MaxCalls /\ path' = path /\ disk' = disk
      BY <1>i, <1>1, MakeAsks DEF make, MayMake
  <2>2. WritersOf(calls') = WritersOf(calls)
      BY <1>l, <2>1 DEF WritersOf, Asked
  <2>3. h' = h
      BY <2>1, <2>2 DEF HoldsOf
  <2>4. Told(calls'[n]) = e
      BY <2>1 DEF Told, Asked
  <2>5. AskedOf(calls') = [i \in 1 .. n |-> IF i <= Len(calls) THEN AskedOf(calls)[i] ELSE e]
    <3>1. DOMAIN calls' = 1 .. n /\ DOMAIN calls = 1 .. Len(calls)
        BY <1>l, <2>1
    <3>2. \A i \in 1 .. n :
              Told(calls'[i]) = IF i <= Len(calls) THEN Told(calls[i]) ELSE e
        BY <1>l, <2>1, <2>4
    <3>3. \A i \in 1 .. n : i <= Len(calls) => i \in DOMAIN calls
        BY <1>l
    <3> QED
        BY <3>1, <3>2, <3>3 DEF AskedOf
  <2>6. AskedOf(calls) \in Seq({Told(calls[i]) : i \in Made}) /\ Len(AskedOf(calls)) = Len(calls)
      BY <1>l DEF AskedOf
  <2>7. Append(AskedOf(calls), e) =
            [i \in 1 .. n |-> IF i <= Len(calls) THEN AskedOf(calls)[i] ELSE e]
      BY <1>l, <2>6 DEF AskedOf
  <2>8. Register!Ask(op)
      BY <1>h, <1>a, <2>1, <2>3, <2>5, <2>6, <2>7 DEF Register!Ask, Register!Pending, Pending
  <2> QED
      BY <2>8 DEF Register!Next
<1>2. ASSUME NEW c \in Made, Work(c) PROVE Maps
  <2>1. PICK r : Becomes(c, r) /\ RegisterStep(c, r)
      BY <1>2, WorkIsRegisterStep
  <2>2. Made' = Made /\ calls'[c] = r /\ \A d \in Made \ {c} : calls'[d] = calls[d]
      BY <1>i, <2>1, BecomesFrame
  <2>3. AskedOf(calls') = [AskedOf(calls) EXCEPT ![c] = Told(r)]
      BY <1>l, <2>2 DEF AskedOf
  <2>4. AskedOf(calls)[c] = Told(calls[c]) /\ c \in DOMAIN AskedOf(calls) /\ Told(calls[c]).op = calls[c].op
      BY <1>l DEF AskedOf, Told
  <2>5. CASE Unseen(c, r)
    <3>1. AskedOf(calls') = AskedOf(calls)
        BY <1>l, <2>2, <2>5 DEF AskedOf, Unseen
    <3> QED
        BY <1>h, <1>a, <2>5, <3>1 DEF Unseen
  <2>6. ASSUME NEW a, NEW v, AnswersWith(c, r, a, v)
        PROVE  Register!Answer(c, a) /\ Holds' = v
    <3>1. Told(r) = [Told(calls[c]) EXCEPT !.answer = a]
        BY <2>6 DEF AnswersWith, Told
    <3>2. AskedOf(calls') = [AskedOf(calls) EXCEPT ![c].answer = a]
        BY <2>3, <2>4, <3>1
    <3>3. AskedOf(calls)[c].answer = <<"pending">>
        BY <2>4, <2>6 DEF AnswersWith, Pending
    <3> HIDE DEF asked
    <3>4. asked[c].answer = <<"pending">> /\ asked' = [asked EXCEPT ![c].answer = a]
        BY <1>a, <3>2, <3>3
    <3> USE DEF asked
    <3> QED
        BY <1>h, <2>6, <3>4 DEF Register!Answer, Register!Pending, AnswersWith
  <2>7. asked[c].op = calls[c].op
      BY <1>a, <2>4
  <2>8. CASE calls[c].op = "save" /\ AnswersWith(c, r, <<"saved">>, c)
    <3>1. Register!Save(c)
        BY <2>6, <2>7, <2>8 DEF Register!Save
    <3> QED
        BY <3>1 DEF Register!Next, Register!Perform
  <2>9. CASE /\ calls[c].op = "load"
             /\ AnswersWith(c, r, IF h = 0 THEN <<"absent">> ELSE <<"loaded", h>>, h)
    <3>0. PICK a : a = IF h = 0 THEN <<"absent">> ELSE <<"loaded", h>>
        OBVIOUS
    <3> HIDE DEF h, asked
    <3>a. Register!Answer(c, a) /\ Holds' = h
        BY <2>6, <2>9, <3>0
    <3>b. a = IF Holds = 0 THEN <<"absent">> ELSE <<"loaded", Holds>>
        BY <1>h, <3>0
    <3> USE DEF asked
    <3>1. Register!Load(c)
        BY <1>h, <2>7, <2>9, <3>a, <3>b DEF Register!Load, Register!Answer
    <3> QED
        BY <3>1 DEF Register!Next, Register!Perform
  <2>10. CASE /\ calls[c].op = "delete"
              /\ AnswersWith(c, r, IF h = 0 THEN <<"nothing">> ELSE <<"deleted">>, 0)
    <3>0. PICK a : a = IF h = 0 THEN <<"nothing">> ELSE <<"deleted">>
        OBVIOUS
    <3> HIDE DEF h, asked
    <3>a. Register!Answer(c, a) /\ Holds' = 0
        BY <2>6, <2>10, <3>0
    <3>b. a = IF Holds = 0 THEN <<"nothing">> ELSE <<"deleted">>
        BY <1>h, <3>0
    <3> USE DEF asked
    <3>1. Register!Delete(c)
        BY <1>h, <2>7, <2>10, <3>a, <3>b DEF Register!Delete, Register!Answer
    <3> QED
        BY <3>1 DEF Register!Next, Register!Perform
  <2> QED
      BY <2>1, <2>5, <2>8, <2>9, <2>10 DEF RegisterStep
<1>3. CASE UNCHANGED vars
  <2>1. calls' = calls /\ path' = path /\ disk' = disk
      BY <1>3 DEF vars
  <2> QED
      BY <1>h, <1>a, <2>1
<1>4. ~ crash /\ \A c \in Made : ~ cancel(c)
    BY <1>i, NoneCancelled DEF crash, InTurn, TypeOK
<1>5. 1 \in 1 .. MaxBlocks
    BY StoreAssumption
<1> HIDE DEF Maps, h
<1>6. ASSUME Next PROVE Maps
    BY <1>1, <1>2, <1>4, <1>5, <1>6 DEF Next
<1> QED
    BY <1>3, <1>6 DEF Maps

(***************************************************************************)
(* With saves and deletes made one at a time, no crash and no timeout, the *)
(* calls of AsyncEncryptedStore have their effect in one step each: a save *)
(* when its thread opens the file, a load when it has read to the end, a   *)
(* delete when it removes the file or finds none.  That every call is      *)
(* answered is the rest of ImplementsRegister.                             *)
(***************************************************************************)
THEOREM RegisterImplemented ==
    ASSUME Exclusive, MaxCancels = 0, MaxCrashes = 0
    PROVE  Spec => Register!Init /\ [][Register!Next]_(Register!vars)
<1>0. InTurn
    BY DEF InTurn
<1>1. Init => RegisterInv
  <2> SUFFICES ASSUME Init PROVE RegisterInv
      OBVIOUS
  <2>1. Made = {} /\ path = NoFile /\ DOMAIN calls = {}
      BY DEF Init, Made
  <2> QED
      BY <2>1, InitCalls DEF RegisterInv, OnlyLoadsOverlap, NoneGivenUp, FileIsWritten,
                             FileIsThere, ReadersFollow, WritersOf
<1>2. Init => Register!Init
    BY DEF Init, Register!Init, Holds, Made, NoFile, At
<1>3. RegisterInv /\ [Next]_vars => RegisterInv'
    BY <1>0, StepRegister
<1>4. RegisterInv /\ [Next]_vars
      => [Register!Next]_<<Holds,
             [c \in Made |->
                 [op |-> calls[c].op,
                  answer |-> IF At(c, "save", "open") THEN <<"saved">> ELSE calls[c].answer]]>>
    BY <1>0, StepMaps
<1> QED
    BY <1>1, <1>2, <1>3, <1>4, PTL DEF Spec, Register!vars
=============================================================================

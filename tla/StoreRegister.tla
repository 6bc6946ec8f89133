--------------------------- MODULE StoreRegister ---------------------------
(***************************************************************************)
(* What an application expects of AsyncEncryptedStore for one group: a     *)
(* register.  Each call takes effect in one step somewhere between the     *)
(* moment it is made and the moment it is answered, a load gets what the   *)
(* register holds, and every call is answered.                             *)
(***************************************************************************)
EXTENDS Naturals, Sequences

CONSTANT MaxCalls  \* bound: calls ever made

VARIABLES stored,  \* the save whose state the register holds, 0 for none
          asked    \* every call ever made: what was asked, and its answer

vars == <<stored, asked>>

Pending == <<"pending">>

Init == stored = 0 /\ asked = <<>>

Ask(op) ==
    /\ Len(asked) < MaxCalls
    /\ asked' = Append(asked, [op |-> op, answer |-> Pending])
    /\ UNCHANGED stored

Answer(c, answer) ==
    /\ asked[c].answer = Pending
    /\ asked' = [asked EXCEPT ![c].answer = answer]

Save(c) ==
    /\ asked[c].op = "save"
    /\ Answer(c, <<"saved">>)
    /\ stored' = c

Load(c) ==
    /\ asked[c].op = "load"
    /\ Answer(c, IF stored = 0 THEN <<"absent">> ELSE <<"loaded", stored>>)
    /\ UNCHANGED stored

Delete(c) ==
    /\ asked[c].op = "delete"
    /\ Answer(c, IF stored = 0 THEN <<"nothing">> ELSE <<"deleted">>)
    /\ stored' = 0

Perform(c) == Save(c) \/ Load(c) \/ Delete(c)

Next ==
    \/ \E op \in {"save", "load", "delete"} : Ask(op)
    \/ \E c \in DOMAIN asked : Perform(c)

Spec ==
    /\ Init
    /\ [][Next]_vars
    /\ \A c \in 1 .. MaxCalls : WF_vars(c \in DOMAIN asked /\ Perform(c))
=============================================================================

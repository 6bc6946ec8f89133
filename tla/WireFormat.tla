----------------------------- MODULE WireFormat -----------------------------
(***************************************************************************)
(* How the to_bytes and from_bytes methods are put together from the       *)
(* primitives of tls.py.  A format describes both methods of a structure;  *)
(* encode and decode interpret it.  Where the code reads less carefully    *)
(* than it could (slices that are not compared with the buffer, parts that *)
(* may be missing, input that is read and dropped) the format says so.     *)
(*                                                                         *)
(* A structure is the tuple of its fields; an optional value is a sequence *)
(* of at most one element; a set is a Python set, or a dictionary as the   *)
(* set of its items.                                                       *)
(***************************************************************************)
EXTENDS TLS, SequencesExt, TreeMath

\* Formats of one value.
U(w) == [f |-> "u", w |-> w]                  \* integer of w bytes
UInt(w) == [f |-> "int", w |-> w]             \* the same, from an unchecked slice
Exact(w) == [f |-> "exact", w |-> w]          \* w bytes that must all be there
Opaque(p) == [f |-> "opaque", p |-> p]        \* a length and as many bytes
Loose(p) == [f |-> "loose", p |-> p]          \* the same, from an unchecked slice
Unchecked(w) == [f |-> "taken", w |-> w]      \* the same, the length unchecked too
Const(b) == [f |-> "const", b |-> b]          \* bytes that are compared
Mark(b) == [f |-> "mark", b |-> b]            \* bytes that are skipped unseen
Skip(b, s) == [f |-> "skip", b |-> b, s |-> s]  \* writes b, skips s where it is
Refused == [f |-> "refused"]

\* Formats that contain formats.
Struct(fs) == [f |-> "struct", fs |-> fs]     \* one after the other
Vec(p, e) == [f |-> "vec", p |-> p, e |-> e]  \* elements up to a length
LooseVec(p, e) == [f |-> "loosevec", p |-> p, e |-> e]  \* from an unchecked slice
Run(p, e) == [f |-> "run", p |-> p, e |-> e]  \* until the offset has passed the length
SetOf(p, e) == [f |-> "set", p |-> p, e |-> e]  \* Vec of a sorted set
Count(e) == [f |-> "count", e |-> e]          \* elements, four bytes of how many
Items(e) == [f |-> "items", e |-> e]          \* Count of a sorted dictionary
Opt(e) == [f |-> "opt", e |-> e]              \* a flag, any but 0 for present
Inside(p, e) == [f |-> "inside", p |-> p, e |-> e]  \* an opaque that holds e
Sliced(w, e) == [f |-> "sliced", w |-> w, e |-> e]  \* the same, nothing checked
Select(alts, other) == [f |-> "select", alts |-> alts, other |-> other]  \* by a byte
Default(e, d) == [f |-> "default", e |-> e, d |-> d]  \* d is written for an absent value
IfMore(e, d) == [f |-> "more", e |-> e, d |-> d]  \* d at the end of the input
Dropped(e, d) == [f |-> "dropped", e |-> e, d |-> d]  \* read and forgotten, d is written
Nodes(e) == [f |-> "nodes", e |-> e]          \* the node array of a ratchet tree

-----------------------------------------------------------------------------

\* Byte strings in the order of Python's sorted.
Before(a, b) ==
    \E i \in 1 .. Len(a) + 1 :
        /\ \A j \in 1 .. i - 1 : j <= Len(b) /\ a[j] = b[j]
        /\ \/ i = Len(a) + 1 /\ Len(a) < Len(b)
           \/ i <= Len(a) /\ i <= Len(b) /\ a[i] < b[i]

RECURSIVE encode(_, _)

Concat(e, vs) == FlattenSeq([i \in DOMAIN vs |-> encode(e, vs[i])])

\* The elements of a set in the order of their encodings, which for the
\* references of one length used as keys is the order of the keys.
InOrder(e, vs) == FlattenSeq(SetToSortSeq({encode(e, v) : v \in vs}, Before))

Alternative(s, tag) == IF tag \in DOMAIN s.alts THEN s.alts[tag] ELSE s.other

encode(s, v) ==
    CASE s.f \in {"u", "int"}        -> tls_u(s.w, v)
      [] s.f = "exact"               -> v
      [] s.f \in {"opaque", "loose"} -> tls_opaque(s.p, v)
      [] s.f = "taken"               -> tls_opaque(s.w, v)
      [] s.f \in {"const", "mark", "skip"} -> s.b
      [] s.f = "struct"              -> FlattenSeq([i \in DOMAIN s.fs |-> encode(s.fs[i], v[i])])
      [] s.f \in {"vec", "loosevec", "run"} -> tls_opaque(s.p, Concat(s.e, v))
      [] s.f = "set"                 -> tls_opaque(s.p, InOrder(s.e, v))
      [] s.f = "count"               -> tls_u32(Len(v)) \o Concat(s.e, v)
      [] s.f = "items"               -> tls_u32(Cardinality(v)) \o InOrder(s.e, v)
      [] s.f = "opt"                 -> IF v = <<>> THEN <<0>> ELSE <<1>> \o encode(s.e, v[1])
      [] s.f = "inside"              -> tls_opaque(s.p, encode(s.e, v))
      [] s.f = "sliced"              -> tls_opaque(s.w, encode(s.e, v))
      [] s.f = "select"              -> <<v[1]>> \o encode(Alternative(s, v[1]), v[2])
      [] s.f = "default"             -> encode(s.e, IF v = <<>> THEN s.d ELSE v[1])
      [] s.f = "more"                -> encode(s.e, v)
      [] s.f = "dropped"             -> encode(s.e, s.d)
      [] s.f = "nodes"               -> tls_opaque(VarInt, Concat(s.e, v))

-----------------------------------------------------------------------------

RECURSIVE decode(_, _, _)

\* Elements from offset o on, while the offset is before end.
RECURSIVE read_until(_, _, _, _)
read_until(e, buf, o, end) ==
    IF o >= end THEN Read(<<>>, o)
    ELSE LET x  == decode(e, buf, o)
             xs == read_until(e, buf, x.at, end)
         IN  IF x.ok /\ xs.ok THEN Read(<<x.val>> \o xs.val, xs.at) ELSE Fail

\* The elements of formats fs, one after the other.
RECURSIVE read_each(_, _, _)
read_each(fs, buf, o) ==
    IF fs = <<>> THEN Read(<<>>, o)
    ELSE LET x  == decode(Head(fs), buf, o)
             xs == read_each(Tail(fs), buf, x.at)
         IN  IF x.ok /\ xs.ok THEN Read(<<x.val>> \o xs.val, xs.at) ELSE Fail

\* What a reader returned, with its value v replaced by Op(v).
Mapped(r, Op(_)) == IF r.ok THEN Read(Op(r.val), r.at) ELSE Fail

\* What a reader returned is itself read; reading goes on after it.
Within(r, Reader(_)) ==
    LET x == Reader(r.val) IN IF r.ok /\ x.ok THEN Read(x.val, r.at) ELSE Fail

All(e, raw) == read_until(e, raw, 0, Len(raw))

Counted(e, buf, n) ==
    IF n.ok THEN read_each([i \in 1 .. n.val |-> e], buf, n.at) ELSE Fail

\* A length of w bytes and a slice, neither compared with the buffer.
Taken(w, buf, o) ==
    LET n == from_bytes(Slice(buf, o, o + w))
    IN  Read(Slice(buf, o + w, o + w + n), o + w + n)

AsSet(vs) == {vs[i] : i \in DOMAIN vs}

\* A dictionary filled in order: the last of two items with one key stays.
AsItems(vs) ==
    {vs[i] : i \in {j \in DOMAIN vs : \A k \in DOMAIN vs : k > j => vs[k][1] # vs[j][1]}}

\* RatchetTree._parse: a last presence byte with nothing after it is
\* dropped, and blanks fill the array up to a power of two of leaves.
Padded(nodes) ==
    LET blank == <<0, <<>>>>
        seen  == IF nodes # <<>> /\ Last(nodes) = <<1, <<>>>> THEN Front(nodes) ELSE nodes
        size  == IF seen = <<>> THEN 0 ELSE 2 * next_pow2((Len(seen) + 1) \div 2) - 1
    IN  [i \in 1 .. size |-> IF i <= Len(seen) THEN seen[i] ELSE blank]

decode(s, buf, o) ==
    CASE s.f = "u"        -> read_u(s.w, buf, o)
      [] s.f = "int"      -> Read(from_bytes(Slice(buf, o, o + s.w)), o + s.w)
      [] s.f = "exact"    -> IF o + s.w <= Len(buf) THEN Read(Slice(buf, o, o + s.w), o + s.w) ELSE Fail
      [] s.f = "opaque"   -> read_opaque(s.p, buf, o)
      [] s.f = "loose"    -> read_slice(s.p, buf, o)
      [] s.f = "taken"    -> Taken(s.w, buf, o)
      [] s.f = "const"    -> IF Slice(buf, o, o + Len(s.b)) = s.b THEN Read(<<>>, o + Len(s.b)) ELSE Fail
      [] s.f = "mark"     -> IF o + Len(s.b) <= Len(buf) THEN Read(<<>>, o + Len(s.b)) ELSE Fail
      [] s.f = "skip"     -> Read(<<>>, IF Slice(buf, o, o + Len(s.s)) = s.s THEN o + Len(s.s) ELSE o)
      [] s.f = "refused"  -> Fail
      [] s.f = "struct"   -> read_each(s.fs, buf, o)
      [] s.f = "vec"      -> Within(read_opaque(s.p, buf, o), LAMBDA raw : All(s.e, raw))
      [] s.f = "loosevec" -> Within(read_slice(s.p, buf, o), LAMBDA raw : All(s.e, raw))
      [] s.f = "run"      -> LET n == read_length(s.p, buf, o) IN
                             IF n.ok THEN read_until(s.e, buf, n.at, n.at + n.val) ELSE Fail
      [] s.f = "set"      -> Within(read_opaque(s.p, buf, o), LAMBDA raw : Mapped(All(s.e, raw), AsSet))
      [] s.f = "count"    -> Counted(s.e, buf, read_u(4, buf, o))
      [] s.f = "items"    -> Mapped(Counted(s.e, buf, read_u(4, buf, o)), AsItems)
      [] s.f = "opt"      -> LET b == read_u(1, buf, o) IN
                             IF ~ b.ok THEN Fail
                             ELSE IF b.val = 0 THEN Read(<<>>, b.at)
                             ELSE Mapped(decode(s.e, buf, b.at), LAMBDA v : <<v>>)
      [] s.f = "inside"   -> Within(read_opaque(s.p, buf, o), LAMBDA raw : decode(s.e, raw, 0))
      [] s.f = "sliced"   -> Within(Taken(s.w, buf, o), LAMBDA raw : decode(s.e, raw, 0))
      [] s.f = "select"   -> LET b == read_u(1, buf, o) IN
                             IF ~ b.ok THEN Fail
                             ELSE Mapped(decode(Alternative(s, b.val), buf, b.at), LAMBDA v : <<b.val, v>>)
      [] s.f = "default"  -> Mapped(decode(s.e, buf, o), LAMBDA v : <<v>>)
      [] s.f = "more"     -> IF o < Len(buf) THEN decode(s.e, buf, o) ELSE Read(s.d, o)
      [] s.f = "dropped"  -> Mapped(decode(s.e, buf, o), LAMBDA v : s.d)
      [] s.f = "nodes"    -> Within(read_opaque(VarInt, buf, o), LAMBDA raw : Mapped(All(s.e, raw), Padded))
=============================================================================

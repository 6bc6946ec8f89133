-------------------------------- MODULE TLS --------------------------------
(***************************************************************************)
(* The encoding primitives of tls.py, and the second copy of the VarInt    *)
(* encoder in hkdf.py.                                                     *)
(*                                                                         *)
(* A byte string is a sequence over 0 .. 255.  An offset counts the bytes  *)
(* before it, as in the code, so the byte at offset o is buf[o + 1].  A    *)
(* reader returns the value and the offset after it, or Fail where the     *)
(* code raises (ValueError, IndexError, struct.error).                     *)
(*                                                                         *)
(* An integer of eight bytes is less than 2^31 here: its upper bytes are   *)
(* zero.                                                                   *)
(***************************************************************************)
EXTENDS Naturals, Sequences

Byte == 0 .. 255
Bytes == Seq(Byte)

MaxVarInt == 1073741823

Fail == [ok |-> FALSE]
Read(val, at) == [ok |-> TRUE, val |-> val, at |-> at]

\* buf[from : to] as Python slices, cut off at the end of buf.
Slice(buf, from, to) == SubSeq(buf, from + 1, IF to > Len(buf) THEN Len(buf) ELSE to)

-----------------------------------------------------------------------------

tls_u8(v) == <<v>>
tls_u16(v) == <<v \div 256, v % 256>>

\* Mutant of tls_u32: the upper bits are not taken off.
tls_u32Unmasked(v) == <<v \div 16777216, v \div 65536, v \div 256, v % 256>>

tls_u32(v) == <<v \div 16777216, (v \div 65536) % 256, (v \div 256) % 256, v % 256>>
tls_u64(v) == <<0, 0, 0, 0>> \o tls_u32(v)

tls_u(w, v) ==
    CASE w = 1 -> tls_u8(v) [] w = 2 -> tls_u16(v) [] w = 4 -> tls_u32(v) [] w = 8 -> tls_u64(v)

\* int.from_bytes(b, "big"), for a string whose bytes before the last four
\* are zero.
from_bytes(b) ==
    LET digit(i) == IF i > Len(b) THEN 0 ELSE b[Len(b) + 1 - i]
    IN  digit(1) + 256 * digit(2) + 65536 * digit(3) + 16777216 * digit(4)

read_u(w, buf, o) ==
    IF o + w > Len(buf) THEN Fail ELSE Read(from_bytes(Slice(buf, o, o + w)), o + w)

-----------------------------------------------------------------------------

\* Mutant of tls_varint: the bounds are those of whole bytes.
tls_varintWide(n) ==
    CASE n <= 255   -> <<n>>
      [] n > 255 /\ n <= 65535 -> tls_u16(n)
      [] OTHER      -> tls_u32(n)

\* One, two or four bytes; the upper two bits of the first say which.
tls_varint(n) ==
    CASE n <= 63                -> <<n>>
      [] n > 63 /\ n <= 16383   -> <<64 + n \div 256, n % 256>>
      [] OTHER                  -> <<128 + n \div 16777216, (n \div 65536) % 256,
                                     (n \div 256) % 256, n % 256>>

\* varint_encode of hkdf.py.
varint_encode(n) ==
    CASE n <= 63                -> <<n>>
      [] n > 63 /\ n <= 16383   -> <<64 + n \div 256, n % 256>>
      [] OTHER                  -> <<128 + n \div 16777216, (n \div 65536) % 256,
                                     (n \div 256) % 256, n % 256>>

varint_decode(buf, o) ==
    IF o >= Len(buf) THEN Fail
    ELSE LET prefix == buf[o + 1] \div 64
             first  == buf[o + 1] % 64
         IN  CASE prefix = 0 -> Read(first, o + 1)
               [] prefix = 1 /\ o + 2 <= Len(buf) -> Read(first * 256 + buf[o + 2], o + 2)
               [] prefix = 2 /\ o + 4 <= Len(buf) ->
                    Read(first * 16777216 + buf[o + 2] * 65536 + buf[o + 3] * 256 + buf[o + 4], o + 4)
               [] OTHER -> Fail

-----------------------------------------------------------------------------

\* The length before an opaque string: a VarInt (of tls.py, or of hkdf.py), or
\* an integer of p bytes.
VarInt == 0
HkdfVarInt == 3
tls_length(p, n) ==
    IF p = VarInt THEN tls_varint(n) ELSE IF p = HkdfVarInt THEN varint_encode(n) ELSE tls_u(p, n)
read_length(p, buf, o) ==
    IF p \in {VarInt, HkdfVarInt} THEN varint_decode(buf, o) ELSE read_u(p, buf, o)

\* tls_opaque, tls_opaque16, tls_opaque32 and tls_vec8.
tls_opaque(p, data) == tls_length(p, Len(data)) \o data

\* A length, and a slice of it that nobody compares with the buffer.
read_slice(p, buf, o) ==
    LET n == read_length(p, buf, o) IN
    IF ~ n.ok THEN Fail ELSE Read(Slice(buf, n.at, n.at + n.val), n.at + n.val)

\* read_opaque, read_opaque16, read_opaque32, read_vec8, read_vector16 and
\* read_vector32.
read_opaque(p, buf, o) ==
    LET n == read_length(p, buf, o) IN
    IF ~ n.ok THEN Fail
    ELSE IF n.at + n.val > Len(buf) THEN Fail
    ELSE Read(Slice(buf, n.at, n.at + n.val), n.at + n.val)
=============================================================================

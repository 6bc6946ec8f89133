----------------------------- MODULE TLSProofs -----------------------------
(***************************************************************************)
(* Proofs about the encoding primitives of tls.py, for every integer that  *)
(* has a VarInt, every string, and whatever stands before and after it.    *)
(*                                                                         *)
(* The three lengths of a VarInt are three cases.  In each the first byte  *)
(* is 0, 64 or 128 plus a number below 64, from which the reader gets the  *)
(* case back, and the other bytes are the digits of n to the base 256.     *)
(* (A proof that knows the numbers cites SMT: Zenon has no arithmetic.)    *)
(***************************************************************************)
EXTENDS TLS, TLAPS

LEMMA Division ==
    ASSUME NEW n \in Nat
    PROVE  n \div 256 \in Nat /\ (n % 256) \in Byte /\ n = (n \div 256) * 256 + (n % 256)
BY SMT DEF Byte

\* The digits of a number below 2^30 and below 2^14.
LEMMA FourDigits ==
    ASSUME NEW n \in Nat, n <= MaxVarInt
    PROVE  /\ (n \div 16777216) \in 0 .. 63
           /\ ((n \div 65536) % 256) \in Byte
           /\ ((n \div 256) % 256) \in Byte
           /\ (n % 256) \in Byte
           /\ n = (n \div 16777216) * 16777216 + ((n \div 65536) % 256) * 65536
                    + ((n \div 256) % 256) * 256 + (n % 256)
<1>1. /\ n \div 65536 = (n \div 256) \div 256
      /\ n \div 16777216 = (n \div 65536) \div 256
    BY SMT
<1>2. (n \div 16777216) \in 0 .. 63
    BY SMT DEF MaxVarInt
<1>3. n \div 256 \in Nat /\ n \div 65536 \in Nat
    BY SMT
<1>4. /\ n = (n \div 256) * 256 + (n % 256)
      /\ n \div 256 = (n \div 65536) * 256 + ((n \div 256) % 256)
      /\ n \div 65536 = (n \div 16777216) * 256 + ((n \div 65536) % 256)
      /\ (n % 256) \in Byte /\ ((n \div 256) % 256) \in Byte
      /\ ((n \div 65536) % 256) \in Byte
    BY <1>1, <1>3, Division, SMT
<1> QED
    BY <1>2, <1>3, <1>4, SMT DEF Byte

LEMMA TwoDigits ==
    ASSUME NEW n \in Nat, n <= 16383
    PROVE  (n \div 256) \in 0 .. 63 /\ (n % 256) \in Byte /\ n = (n \div 256) * 256 + (n % 256)
BY SMT DEF Byte

\* The upper two bits of the first byte, and the rest of it.
LEMMA Prefixes ==
    ASSUME NEW k \in 0 .. 63
    PROVE  /\ k \div 64 = 0 /\ k % 64 = k
           /\ (64 + k) \div 64 = 1 /\ (64 + k) % 64 = k
           /\ (128 + k) \div 64 = 2 /\ (128 + k) % 64 = k
BY SMT

\* A tuple of bytes is a string of bytes.
LEMMA TuplesOfBytes ==
    /\ \A a \in Byte : <<a>> \in Bytes
    /\ \A a, b \in Byte : <<a, b>> \in Bytes
    /\ \A a, b, c, d \in Byte : <<a, b, c, d>> \in Bytes
<1> DEFINE B == Byte
<1> HIDE DEF B
<1>1. /\ \A a \in B : <<a>> \in Seq(B)
      /\ \A a, b \in B : <<a, b>> \in Seq(B)
      /\ \A a, b, c, d \in B : <<a, b, c, d>> \in Seq(B)
    BY SMT
<1> QED
    BY <1>1 DEF B, Bytes

\* The i-th byte of a string that stands between two others.
LEMMA Between ==
    ASSUME NEW S, NEW s \in Seq(S), NEW t \in Seq(S), NEW u \in Seq(S)
    PROVE  /\ s \o t \o u \in Seq(S)
           /\ Len(s \o t \o u) = Len(s) + Len(t) + Len(u)
           /\ \A i \in 1 .. Len(t) : (s \o t \o u)[Len(s) + i] = t[i]
<1>1. s \o t \in Seq(S) /\ Len(s \o t) = Len(s) + Len(t)
    BY SMT
<1>2. \A i \in 1 .. Len(t) : (s \o t)[Len(s) + i] = t[i]
    BY SMT
<1> QED
    BY <1>1, <1>2, SMT

-----------------------------------------------------------------------------
\* What tls_varint writes, by its three cases.
LEMMA OneByte ==
    ASSUME NEW n \in Nat, n <= 63
    PROVE  tls_varint(n) = <<n>>
BY SMT DEF tls_varint

LEMMA TwoBytes ==
    ASSUME NEW n \in Nat, n > 63, n <= 16383
    PROVE  tls_varint(n) = <<64 + n \div 256, n % 256>>
BY SMT DEF tls_varint

LEMMA FourBytes ==
    ASSUME NEW n \in Nat, n > 16383
    PROVE  tls_varint(n) = <<128 + n \div 16777216, (n \div 65536) % 256,
                             (n \div 256) % 256, n % 256>>
BY SMT DEF tls_varint

LEMMA VarIntIsBytes ==
    ASSUME NEW n \in Nat, n <= MaxVarInt
    PROVE  tls_varint(n) \in Bytes
<1>1. CASE n <= 63
  <2>1. n \in Byte
      BY <1>1, SMT DEF Byte
  <2> QED
      BY <1>1, <2>1, OneByte, TuplesOfBytes, SMT
<1>2. CASE n > 63 /\ n <= 16383
  <2>1. (64 + n \div 256) \in Byte /\ (n % 256) \in Byte
      BY <1>2, TwoDigits, SMT DEF Byte
  <2> QED
      BY <1>2, <2>1, TwoBytes, TuplesOfBytes, SMT
<1>3. CASE n > 16383
  <2>1. /\ (128 + n \div 16777216) \in Byte
        /\ ((n \div 65536) % 256) \in Byte
        /\ ((n \div 256) % 256) \in Byte
        /\ (n % 256) \in Byte
      BY FourDigits, SMT DEF Byte
  <2> QED
      BY <1>3, <2>1, FourBytes, TuplesOfBytes, SMT
<1> QED
    BY <1>1, <1>2, <1>3, SMT

\* Where the bytes of tls_varint(n) stand, varint_decode reads n.
LEMMA VarIntReadAt ==
    ASSUME NEW n \in Nat, n <= MaxVarInt, NEW buf \in Bytes, NEW o \in Nat,
           o + Len(tls_varint(n)) <= Len(buf),
           \A i \in 1 .. Len(tls_varint(n)) : buf[o + i] = tls_varint(n)[i]
    PROVE  varint_decode(buf, o) = Read(n, o + Len(tls_varint(n)))
<1>1. Len(buf) \in Nat
    BY SMT DEF Bytes
<1>2. CASE n <= 63
  <2>1. o + 1 <= Len(buf) /\ buf[o + 1] = n /\ Len(tls_varint(n)) = 1
      BY <1>2, OneByte, SMT
  <2>2. ~ (o >= Len(buf)) /\ buf[o + 1] \div 64 = 0 /\ buf[o + 1] % 64 = n
      BY <1>1, <1>2, <2>1, Prefixes, SMT
  <2> QED
      BY <2>1, <2>2, SMT DEF varint_decode
<1>3. CASE n > 63 /\ n <= 16383
  <2> DEFINE k == n \div 256
  <2>1. /\ o + 2 <= Len(buf) /\ Len(tls_varint(n)) = 2
        /\ buf[o + 1] = 64 + k /\ buf[o + 2] = n % 256
      BY <1>3, TwoBytes, SMT
  <2>2. k \in 0 .. 63 /\ n = k * 256 + (n % 256)
      BY <1>3, TwoDigits, SMT
  <2>3. ~ (o >= Len(buf)) /\ buf[o + 1] \div 64 = 1 /\ buf[o + 1] % 64 = k
      BY <1>1, <2>1, <2>2, Prefixes, SMT
  <2> QED
      BY <2>1, <2>2, <2>3, SMT DEF varint_decode
<1>4. CASE n > 16383
  <2> DEFINE k == n \div 16777216
  <2>1. /\ o + 4 <= Len(buf) /\ Len(tls_varint(n)) = 4
        /\ buf[o + 1] = 128 + k /\ buf[o + 2] = (n \div 65536) % 256
        /\ buf[o + 3] = (n \div 256) % 256 /\ buf[o + 4] = n % 256
    <3> DEFINE v == tls_varint(n)
    <3>1. /\ Len(v) = 4
          /\ v[1] = 128 + k /\ v[2] = (n \div 65536) % 256
          /\ v[3] = (n \div 256) % 256 /\ v[4] = n % 256
        BY <1>4, FourBytes, SMT
    <3>2. o + Len(v) <= Len(buf) /\ \A i \in 1 .. Len(v) : buf[o + i] = v[i]
        OBVIOUS
    <3> HIDE DEF v, k
    <3>3. /\ o + 4 <= Len(buf)
          /\ buf[o + 1] = v[1] /\ buf[o + 2] = v[2] /\ buf[o + 3] = v[3] /\ buf[o + 4] = v[4]
        BY <3>1, <3>2, SMT
    <3> QED
        BY <3>1, <3>3, SMT DEF v
  <2>2. /\ k \in 0 .. 63
        /\ n = k * 16777216 + ((n \div 65536) % 256) * 65536 + ((n \div 256) % 256) * 256 + (n % 256)
    <3>1. n \in Nat /\ n <= MaxVarInt
        OBVIOUS
    <3> QED
        BY ONLY <3>1, FourDigits, SMT
  <2>3. ~ (o >= Len(buf)) /\ buf[o + 1] \div 64 = 2 /\ buf[o + 1] % 64 = k
      BY <1>1, <2>1, <2>2, Prefixes, SMT
  <2> QED
      BY <2>1, <2>2, <2>3, SMT DEF varint_decode
<1> QED
    BY <1>2, <1>3, <1>4, SMT

(***************************************************************************)
(* _varint_decode gives back what tls_varint wrote and the offset after    *)
(* it, at the boundaries 63, 16383 and 2^30 - 1 as elsewhere, whatever     *)
(* stands around it.                                                       *)
(***************************************************************************)
THEOREM VarIntReadBack ==
    ASSUME NEW n \in Nat, n <= MaxVarInt, NEW pre \in Bytes, NEW post \in Bytes
    PROVE  varint_decode(pre \o tls_varint(n) \o post, Len(pre))
               = Read(n, Len(pre) + Len(tls_varint(n)))
<1> DEFINE v == tls_varint(n)
           buf == pre \o v \o post
<1>1. v \in Bytes
    BY VarIntIsBytes
<1> HIDE DEF v
<1>2. /\ buf \in Bytes
      /\ Len(buf) = Len(pre) + Len(v) + Len(post)
      /\ \A i \in 1 .. Len(v) : buf[Len(pre) + i] = v[i]
    BY <1>1, Between DEF Bytes
<1>3. Len(pre) \in Nat /\ Len(v) \in Nat /\ Len(post) \in Nat
    BY <1>1 DEF Bytes
<1> HIDE DEF buf
<1>4. Len(pre) + Len(v) <= Len(buf)
    BY <1>2, <1>3
<1>5. varint_decode(buf, Len(pre)) = Read(n, Len(pre) + Len(v))
    BY <1>2, <1>3, <1>4, VarIntReadAt DEF v
<1> QED
    BY <1>5 DEF v, buf

-----------------------------------------------------------------------------
\* read_opaque behind a length n that ends at offset at: the slice, if the
\* buffer has it.
LEMMA ReadsWhole ==
    ASSUME NEW buf, NEW o, NEW n \in Nat, NEW at \in Nat, Len(buf) \in Nat,
           varint_decode(buf, o) = Read(n, at)
    PROVE  read_opaque(VarInt, buf, o) =
               IF at + n > Len(buf) THEN Fail ELSE Read(Slice(buf, at, at + n), at + n)
<1> DEFINE r == read_length(VarInt, buf, o)
<1>1. r = Read(n, at)
    BY DEF read_length
<1>2. r.ok /\ r.val = n /\ r.at = at
    BY <1>1 DEF Read
<1> HIDE DEF r
<1>3. read_opaque(VarInt, buf, o) =
        IF ~ r.ok THEN Fail
        ELSE IF r.at + r.val > Len(buf) THEN Fail
        ELSE Read(Slice(buf, r.at, r.at + r.val), r.at + r.val)
    BY DEF read_opaque, r
<1> QED
    BY <1>2, <1>3

(***************************************************************************)
(* read_opaque gives back the string that tls_opaque wrote behind a VarInt *)
(* and the offset after it, whatever stands around it.                     *)
(***************************************************************************)
THEOREM OpaqueReadBack ==
    ASSUME NEW data \in Bytes, Len(data) <= MaxVarInt, NEW pre \in Bytes, NEW post \in Bytes
    PROVE  read_opaque(VarInt, pre \o tls_opaque(VarInt, data) \o post, Len(pre))
               = Read(data, Len(pre) + Len(tls_opaque(VarInt, data)))
<1> DEFINE v == tls_varint(Len(data))
           enc == v \o data
           buf == pre \o enc \o post
           at == Len(pre) + Len(v)
<1>1. Len(data) \in Nat /\ Len(pre) \in Nat
    BY DEF Bytes
<1>2. v \in Bytes
    BY <1>1, VarIntIsBytes
<1>3. tls_opaque(VarInt, data) = enc
    BY DEF tls_opaque, tls_length
<1> HIDE DEF v
<1>4. /\ enc \in Bytes /\ Len(enc) = Len(v) + Len(data) /\ Len(v) \in Nat
      /\ \A i \in 1 .. Len(v) : enc[i] = v[i]
      /\ \A i \in 1 .. Len(data) : enc[Len(v) + i] = data[i]
    BY <1>2 DEF Bytes
<1> HIDE DEF enc
<1>5. /\ buf \in Bytes
      /\ Len(buf) = Len(pre) + Len(enc) + Len(post)
      /\ \A i \in 1 .. Len(enc) : buf[Len(pre) + i] = enc[i]
  <2>1. enc \in Bytes
      BY <1>4
  <2> QED
      BY <2>1, Between DEF Bytes
<1> HIDE DEF buf
<1>6. Len(post) \in Nat
    BY DEF Bytes
<1>7. /\ Len(pre) + Len(v) <= Len(buf)
      /\ \A i \in 1 .. Len(v) : buf[Len(pre) + i] = v[i]
    BY <1>1, <1>4, <1>5, <1>6
<1>8. varint_decode(buf, Len(pre)) = Read(Len(data), at)
    BY <1>1, <1>5, <1>7, VarIntReadAt DEF v
<1>9. at \in Nat /\ at + Len(data) <= Len(buf) /\ at + Len(data) = Len(pre) + Len(enc)
    BY <1>1, <1>4, <1>5, <1>6
<1>10. \A i \in 1 .. Len(data) : buf[at + i] = data[i]
  <2> TAKE i \in 1 .. Len(data)
  <2>1. Len(v) + i \in 1 .. Len(enc)
      BY <1>1, <1>4
  <2>2. buf[Len(pre) + (Len(v) + i)] = data[i]
      BY <1>4, <1>5, <2>1
  <2> QED
      BY <1>1, <1>4, <2>2
<1> HIDE DEF at
<1>11. Slice(buf, at, at + Len(data)) = data
    BY <1>1, <1>5, <1>9, <1>10 DEF Slice, Bytes
<1>12. read_opaque(VarInt, buf, Len(pre)) = Read(data, at + Len(data))
    BY <1>1, <1>5, <1>8, <1>9, <1>11, ReadsWhole
<1> QED
    BY <1>3, <1>9, <1>12 DEF buf

-----------------------------------------------------------------------------
\* Where the buffer ends within the bytes of tls_varint(n), varint_decode
\* fails.
LEMMA VarIntCut ==
    ASSUME NEW n \in Nat, n <= MaxVarInt, NEW buf \in Bytes, NEW o \in Nat, o <= Len(buf),
           Len(buf) < o + Len(tls_varint(n)),
           o + 1 <= Len(buf) => buf[o + 1] = tls_varint(n)[1]
    PROVE  varint_decode(buf, o) = Fail
<1> DEFINE v == tls_varint(n)
<1>1. Len(buf) \in Nat
    BY SMT DEF Bytes
<1>2. Len(buf) < o + Len(v) /\ (o + 1 <= Len(buf) => buf[o + 1] = v[1])
    OBVIOUS
<1>3. CASE o >= Len(buf)
    BY <1>3, SMT DEF varint_decode
<1>4. CASE o + 1 <= Len(buf) /\ n <= 63
  <2>1. Len(v) = 1
      BY <1>4, OneByte, SMT
  <2> HIDE DEF v
  <2> QED
      BY <1>1, <1>4, <1>2, <2>1, SMT
<1>5. CASE o + 1 <= Len(buf) /\ n > 63 /\ n <= 16383
  <2> DEFINE k == n \div 256
  <2>1. Len(buf) < o + 2 /\ buf[o + 1] = 64 + k
    <3>1. Len(v) = 2 /\ v[1] = 64 + k
        BY <1>5, TwoBytes, SMT
    <3> HIDE DEF v, k
    <3> QED
        BY <1>5, <1>2, <3>1, SMT
  <2>2. k \in 0 .. 63
      BY <1>5, TwoDigits, SMT
  <2>3. ~ (o >= Len(buf)) /\ buf[o + 1] \div 64 = 1 /\ ~ (o + 2 <= Len(buf))
      BY <1>1, <1>5, <2>1, <2>2, Prefixes, SMT
  <2> QED
      BY <2>3, SMT DEF varint_decode
<1>6. CASE o + 1 <= Len(buf) /\ n > 16383
  <2> DEFINE k == n \div 16777216
  <2>1. Len(buf) < o + 4 /\ buf[o + 1] = 128 + k
    <3>1. Len(v) = 4 /\ v[1] = 128 + k
        BY <1>6, FourBytes, SMT
    <3> HIDE DEF v, k
    <3> QED
        BY <1>6, <1>2, <3>1, SMT
  <2>2. k \in 0 .. 63
      BY FourDigits, SMT
  <2>3. ~ (o >= Len(buf)) /\ buf[o + 1] \div 64 = 2 /\ ~ (o + 4 <= Len(buf))
      BY <1>1, <1>6, <2>1, <2>2, Prefixes, SMT
  <2> QED
      BY <2>3, SMT DEF varint_decode
<1> QED
    BY <1>1, <1>3, <1>4, <1>5, <1>6, SMT

(***************************************************************************)
(* Of a string that was cut anywhere, in its length or in its content,     *)
(* read_opaque reads nothing: it raises.                                   *)
(***************************************************************************)
THEOREM OpaqueCutRefused ==
    ASSUME NEW data \in Bytes, Len(data) <= MaxVarInt, NEW pre \in Bytes,
           NEW kept \in Nat, kept < Len(tls_opaque(VarInt, data))
    PROVE  read_opaque(VarInt, pre \o SubSeq(tls_opaque(VarInt, data), 1, kept), Len(pre)) = Fail
<1> DEFINE v == tls_varint(Len(data))
           enc == v \o data
           part == SubSeq(enc, 1, kept)
           buf == pre \o part
           o == Len(pre)
<1>1. Len(data) \in Nat /\ o \in Nat
    BY DEF Bytes
<1>2. v \in Bytes
    BY <1>1, VarIntIsBytes
<1>3. tls_opaque(VarInt, data) = enc
    BY DEF tls_opaque, tls_length
<1> HIDE DEF v
<1>4. /\ enc \in Bytes /\ Len(enc) = Len(v) + Len(data) /\ Len(v) \in Nat
      /\ \A i \in 1 .. Len(v) : enc[i] = v[i]
    BY <1>2 DEF Bytes
<1>5. kept < Len(enc)
    BY <1>3
<1> HIDE DEF enc
<1>6. part \in Bytes /\ Len(part) = kept /\ \A i \in 1 .. kept : part[i] = enc[i]
    BY <1>4, <1>5 DEF Bytes
<1> HIDE DEF part
<1>7. buf \in Bytes /\ Len(buf) = o + kept /\ \A i \in 1 .. kept : buf[o + i] = enc[i]
    BY <1>6 DEF Bytes
<1> HIDE DEF buf, o
<1>8. CASE kept < Len(v)
  <2>1. o + 1 <= Len(buf) => buf[o + 1] = v[1]
      BY <1>1, <1>4, <1>7, <1>8
  <2>2. o <= Len(buf) /\ Len(buf) < o + Len(v)
      BY <1>1, <1>4, <1>7, <1>8
  <2>3. varint_decode(buf, o) = Fail
      BY <1>1, <1>7, <2>1, <2>2, VarIntCut DEF v
  <2>4. read_length(VarInt, buf, o).ok = FALSE
      BY <2>3 DEF read_length, Fail
  <2> QED
      BY <1>3, <2>4 DEF read_opaque, part, buf, o
<1>9. CASE Len(v) <= kept
  <2>1. /\ o + Len(v) <= Len(buf)
        /\ \A i \in 1 .. Len(v) : buf[o + i] = v[i]
      BY <1>1, <1>4, <1>7, <1>9
  <2>2. varint_decode(buf, o) = Read(Len(data), o + Len(v))
      BY <1>1, <1>7, <2>1, VarIntReadAt DEF v
  <2>3. /\ o + Len(v) \in Nat /\ Len(buf) \in Nat
        /\ (o + Len(v)) + Len(data) > Len(buf)
      BY <1>1, <1>4, <1>5, <1>7
  <2>4. read_opaque(VarInt, buf, o) = Fail
      BY <1>1, <2>2, <2>3, ReadsWhole
  <2> QED
      BY <1>3, <2>4 DEF part, buf, o
<1> QED
    BY <1>4, <1>8, <1>9
=============================================================================

---------------------------- MODULE RelayProofs -----------------------------
(***************************************************************************)
(* Every attribute class gives back what it was given: what decode() accepts  *)
(* is legal, a legal object is accepted of its own bytes and arrives as it     *)
(* left, and the bytes do not change, for every value and every input, but for *)
(* the family byte of an address of neither family.                           *)
(*                                                                         *)
(* The facts about a class are its Sound(k): three statements about encode()   *)
(* and decode() of that class.  They are proved class by class, from what      *)
(* reading does to what writing wrote; the two lists of entries by induction  *)
(* over the iterations of their loops (StunWireProofs).  The invariant of       *)
(* Relay then follows from them alone, without looking at a class again.      *)
(***************************************************************************)
EXTENDS Relay, StunWireProofs, SequenceTheorems

-----------------------------------------------------------------------------
(* Bytes and their bits. *)

(* A byte, by its bounds.                                                    *)
LEMMA ByteRange == \A n : n \in Byte <=> n \in Nat /\ n <= 255
  BY DEF Byte

(* The bits of a byte, and the byte of eight bits. *)
OfBits(b7, b6, b5, b4, b3, b2, b1, b0) ==
    b7 * 128 + b6 * 64 + b5 * 32 + b4 * 16 + b3 * 8 + b2 * 4 + b1 * 2 + b0 * 1

Masks == {128, 64, 32, 16, 8, 4, 2, 1}

(* A bit is 0 or its mask.                                                   *)
LEMMA BitValue ==
    ASSUME NEW a \in Byte, NEW mask \in Masks
    PROVE  Bit(a, mask) \in {0, 1}
  BY DEF Byte, Bit, Masks

(* A byte is what its bits make.                                             *)
LEMMA ByteOfItsBits ==
    ASSUME NEW a \in Byte
    PROVE  a = OfBits(Bit(a, 128), Bit(a, 64), Bit(a, 32), Bit(a, 16),
                      Bit(a, 8), Bit(a, 4), Bit(a, 2), Bit(a, 1))
  BY DEF Bit, Byte, OfBits

(* The bits of a byte made of bits are those bits.                           *)
LEMMA BitsOfByte ==
    ASSUME NEW b7 \in {0, 1}, NEW b6 \in {0, 1}, NEW b5 \in {0, 1}, NEW b4 \in {0, 1},
           NEW b3 \in {0, 1}, NEW b2 \in {0, 1}, NEW b1 \in {0, 1}, NEW b0 \in {0, 1}
    PROVE  LET n == OfBits(b7, b6, b5, b4, b3, b2, b1, b0)
           IN  /\ n \in Byte
               /\ Bit(n, 128) = b7 /\ Bit(n, 64) = b6 /\ Bit(n, 32) = b5
               /\ Bit(n, 16) = b4 /\ Bit(n, 8) = b3 /\ Bit(n, 4) = b2
               /\ Bit(n, 2) = b1 /\ Bit(n, 1) = b0
  BY DEF Bit, Byte, OfBits

(* The bits of two bytes combined: those in which they differ.               *)
LEMMA XorBits ==
    ASSUME NEW a \in Byte, NEW b \in Byte
    PROVE  /\ XorByte(a, b) \in Byte
           /\ \A mask \in Masks :
                 Bit(XorByte(a, b), mask) = (Bit(a, mask) + Bit(b, mask)) % 2
  <1> DEFINE x(mask) == (Bit(a, mask) + Bit(b, mask)) % 2
  <1>1. \A mask \in Masks : x(mask) \in {0, 1}
    BY BitValue
  <1>2. XorByte(a, b) = OfBits(x(128), x(64), x(32), x(16), x(8), x(4), x(2), x(1))
    BY DEF XorByte, XorBit, OfBits
  <1>3. /\ x(128) \in {0, 1} /\ x(64) \in {0, 1} /\ x(32) \in {0, 1}
        /\ x(16) \in {0, 1} /\ x(8) \in {0, 1} /\ x(4) \in {0, 1}
        /\ x(2) \in {0, 1} /\ x(1) \in {0, 1}
    BY <1>1 DEF Masks
  <1> HIDE DEF x
  <1>4. /\ XorByte(a, b) \in Byte
        /\ Bit(XorByte(a, b), 128) = x(128) /\ Bit(XorByte(a, b), 64) = x(64)
        /\ Bit(XorByte(a, b), 32) = x(32) /\ Bit(XorByte(a, b), 16) = x(16)
        /\ Bit(XorByte(a, b), 8) = x(8) /\ Bit(XorByte(a, b), 4) = x(4)
        /\ Bit(XorByte(a, b), 2) = x(2) /\ Bit(XorByte(a, b), 1) = x(1)
    BY <1>2, <1>3, BitsOfByte
  <1> QED
    BY <1>4 DEF Masks, x

(* Bytes of the same bits are the same.                                      *)
LEMMA SameBits ==
    ASSUME NEW a \in Byte, NEW b \in Byte,
           \A mask \in Masks : Bit(a, mask) = Bit(b, mask)
    PROVE  a = b
  BY ByteOfItsBits DEF Masks

(* Combined twice with the same byte, a byte is itself again. *)
LEMMA XorTwice ==
    ASSUME NEW a \in Byte, NEW b \in Byte
    PROVE  XorByte(XorByte(a, b), b) = a
  <1> DEFINE c == XorByte(a, b)
  <1>1. c \in Byte /\ XorByte(c, b) \in Byte
    BY XorBits
  <1>2. ASSUME NEW mask \in Masks
        PROVE  Bit(XorByte(c, b), mask) = Bit(a, mask)
    <2>1. Bit(c, mask) = (Bit(a, mask) + Bit(b, mask)) % 2
      BY XorBits
    <2> HIDE DEF c
    <2>2. Bit(XorByte(c, b), mask) = (Bit(c, mask) + Bit(b, mask)) % 2
      BY <1>1, XorBits
    <2>3. Bit(a, mask) \in {0, 1} /\ Bit(b, mask) \in {0, 1}
      BY BitValue
    <2> QED
      BY <2>1, <2>2, <2>3
  <1> HIDE DEF c
  <1>3. XorByte(c, b) = a
    BY <1>1, <1>2, SameBits
  <1> QED
    BY <1>3 DEF c

(* Two bytes that make the same of a third are the same. *)
LEMMA XorCancels ==
    ASSUME NEW a \in Byte, NEW b \in Byte, NEW c \in Byte,
           XorByte(a, b) = XorByte(a, c)
    PROVE  b = c
  <1>1. ASSUME NEW mask \in Masks
        PROVE  Bit(b, mask) = Bit(c, mask)
    <2>1. (Bit(a, mask) + Bit(b, mask)) % 2 = (Bit(a, mask) + Bit(c, mask)) % 2
      BY XorBits
    <2>2. Bit(a, mask) \in {0, 1} /\ Bit(b, mask) \in {0, 1} /\ Bit(c, mask) \in {0, 1}
      BY BitValue
    <2> QED
      BY <2>1, <2>2
  <1> QED
    BY <1>1, SameBits

-----------------------------------------------------------------------------
(* Bytes of a value. *)

(* Two bytes, as written and read. *)
LEMMA BE16OfBytes ==
    ASSUME NEW h \in Byte, NEW l \in Byte
    PROVE  /\ h * 256 + l \in UInt16
           /\ (h * 256 + l) \div 256 = h
           /\ (h * 256 + l) % 256 = l
  <1>1. h \in Nat /\ h <= 255 /\ l \in Nat /\ l <= 255
    BY ByteRange
  <1>2. h * 256 + l \in Nat /\ h * 256 + l <= 65535
    BY <1>1
  <1>3. (h * 256 + l) \div 256 = h
    BY <1>1
  <1>4. (h * 256 + l) % 256 = l
    BY <1>1
  <1> QED
    BY <1>2, <1>3, <1>4, UInt16Range DEF MaxUInt16

(* What write_be16 writes is two bytes, which read_be16 reads back.          *)
LEMMA BytesOfBE16 ==
    ASSUME NEW n \in UInt16
    PROVE  /\ n \div 256 \in Byte /\ n % 256 \in Byte
           /\ (n \div 256) * 256 + (n % 256) = n
           /\ WriteBE16(n) \in Seq(Byte)
           /\ Len(WriteBE16(n)) = 2
           /\ WriteBE16(n)[1] = n \div 256 /\ WriteBE16(n)[2] = n % 256
  <1>1. /\ n \div 256 \in Byte /\ n % 256 \in Byte
        /\ (n \div 256) * 256 + (n % 256) = n
    <2>1. n \in Nat /\ n <= 65535
      BY UInt16Range DEF MaxUInt16
    <2>2. n \div 256 \in Nat /\ n \div 256 <= 255 /\ n % 256 \in Nat /\ n % 256 <= 255
      BY <2>1
    <2>3. (n \div 256) * 256 + (n % 256) = n
      BY <2>1
    <2> QED
      BY <2>2, <2>3, ByteRange
  <1> QED
    BY <1>1 DEF WriteBE16

(* read_be16 of bytes is a 16-bit number.                                    *)
LEMMA ReadBE16Range ==
    ASSUME NEW b \in Seq(Byte), NEW i \in Nat, 1 <= i, i + 1 <= Len(b)
    PROVE  ReadBE16(b, i) \in UInt16
  <1>1. b[i] \in Byte /\ b[i + 1] \in Byte
    OBVIOUS
  <1> QED
    BY <1>1, BE16OfBytes DEF ReadBE16

(* n bytes are a sequence of the length n.                                   *)
LEMMA BytesAreSeq ==
    ASSUME NEW n \in Nat, NEW b
    PROVE  b \in Bytes(n) <=> b \in Seq(Byte) /\ Len(b) = n
  BY LenProperties DEF Bytes

-----------------------------------------------------------------------------
(* The masks of the XOR addresses. *)

(* A port combined twice with the cookie is itself again.                    *)
LEMMA PortTwice ==
    ASSUME NEW port \in UInt16
    PROVE  MaskedPort(port) \in UInt16 /\ MaskedPort(MaskedPort(port)) = port
  <1> DEFINE h == XorByte(port \div 256, 33)
             l == XorByte(port % 256, 18)
  <1>1. 33 \in Byte /\ 18 \in Byte /\ MAGIC_COOKIE[1] = 33 /\ MAGIC_COOKIE[2] = 18
    BY DEF Byte, MAGIC_COOKIE
  <1>2. /\ port \div 256 \in Byte /\ port % 256 \in Byte
        /\ (port \div 256) * 256 + (port % 256) = port
    BY BytesOfBE16
  <1>3. /\ h \in Byte /\ l \in Byte
        /\ XorByte(h, 33) = port \div 256 /\ XorByte(l, 18) = port % 256
    BY <1>1, <1>2, XorBits, XorTwice
  <1>4. MaskedPort(port) = h * 256 + l
    BY <1>1 DEF MaskedPort
  <1> HIDE DEF h, l
  <1>5. /\ h * 256 + l \in UInt16
        /\ (h * 256 + l) \div 256 = h /\ (h * 256 + l) % 256 = l
    BY <1>3, BE16OfBytes
  <1>6. MaskedPort(h * 256 + l) = XorByte(h, 33) * 256 + XorByte(l, 18)
    BY <1>1, <1>5 DEF MaskedPort
  <1>7. MaskedPort(h * 256 + l) = port
    BY <1>2, <1>3, <1>6
  <1> QED
    BY <1>4, <1>5, <1>7

(* The cookie and a transaction id: one byte for each of an address. *)
LEMMA MaskBytes ==
    ASSUME NEW id \in TransactionIds
    PROVE  /\ MAGIC_COOKIE \o id \in Seq(Byte) /\ Len(MAGIC_COOKIE \o id) = 16
           /\ \A i \in 1 .. 16 : (MAGIC_COOKIE \o id)[i] \in Byte
           /\ \A i \in 1 .. 4 : (MAGIC_COOKIE \o id)[i] = MAGIC_COOKIE[i]
           /\ \A i \in 1 .. 12 : (MAGIC_COOKIE \o id)[i + 4] = id[i]
  <1>1. MAGIC_COOKIE \in Seq(Byte) /\ Len(MAGIC_COOKIE) = 4
    BY DEF MAGIC_COOKIE, Byte
  <1>2. id \in Seq(Byte) /\ Len(id) = 12
    BY BytesAreSeq DEF TransactionIds
  <1> DEFINE m == MAGIC_COOKIE \o id
  <1>3. /\ m \in Seq(Byte) /\ Len(m) = 16
        /\ \A i \in 1 .. 16 : m[i] = IF i <= 4 THEN MAGIC_COOKIE[i] ELSE id[i - 4]
    <2>1. /\ m \in Seq(Byte) /\ Len(m) = Len(MAGIC_COOKIE) + Len(id)
          /\ \A i \in 1 .. Len(MAGIC_COOKIE) + Len(id) : m[i] =
                IF i <= Len(MAGIC_COOKIE) THEN MAGIC_COOKIE[i]
                                          ELSE id[i - Len(MAGIC_COOKIE)]
      BY <1>1, <1>2, ConcatProperties
    <2> HIDE DEF m
    <2> QED
      BY <1>1, <1>2, <2>1
  <1> HIDE DEF m
  <1>4. \A i \in 1 .. 16 : m[i] \in Byte
    BY <1>3, ElementOfSeq
  <1>5. \A i \in 1 .. 4 : m[i] = MAGIC_COOKIE[i]
    BY <1>3
  <1>6. \A i \in 1 .. 12 : m[i + 4] = id[i]
    <2> TAKE i \in 1 .. 12
    <2>1. i + 4 \in 1 .. 16 /\ ~(i + 4 <= 4) /\ (i + 4) - 4 = i
      OBVIOUS
    <2> QED
      BY <1>3, <2>1
  <1> QED
    BY <1>3, <1>4, <1>5, <1>6 DEF m

(* An address combined with the mask has as many bytes.                      *)
LEMMA MaskedBytes ==
    ASSUME NEW id \in TransactionIds, NEW b \in Seq(Byte), Len(b) <= 16
    PROVE  /\ Masked(b, id) \in Seq(Byte)
           /\ Len(Masked(b, id)) = Len(b)
           /\ \A i \in 1 .. Len(b) :
                 Masked(b, id)[i] = XorByte(b[i], (MAGIC_COOKIE \o id)[i])
  <1> DEFINE m == MAGIC_COOKIE \o id
             n == Len(b)
             x == [i \in 1 .. n |-> XorByte(b[i], m[i])]
  <1>1. n \in Nat /\ n <= 16 /\ \A i \in 1 .. n : b[i] \in Byte
    BY LenProperties
  <1>2. \A i \in 1 .. 16 : m[i] \in Byte
    BY MaskBytes
  <1> HIDE DEF m, n
  <1>3. \A i \in 1 .. n : XorByte(b[i], m[i]) \in Byte
    <2> TAKE i \in 1 .. n
    <2>1. i \in 1 .. 16
      BY <1>1
    <2> QED
      BY <1>1, <1>2, <2>1, XorBits
  <1>4. x \in [1 .. n -> Byte]
    BY <1>3
  <1>5. x \in Seq(Byte) /\ Len(x) = n
    BY <1>1, <1>4
  <1>6. Masked(b, id) = x
    BY DEF Masked, m, n
  <1> QED
    BY <1>5, <1>6 DEF m, n

(* An address combined twice with the same mask is itself again.             *)
LEMMA MaskedTwice ==
    ASSUME NEW id \in TransactionIds, NEW b \in Seq(Byte), Len(b) <= 16
    PROVE  Masked(Masked(b, id), id) = b
  <1> DEFINE m == MAGIC_COOKIE \o id
             c == Masked(b, id)
             d == Masked(c, id)
  <1>1. /\ c \in Seq(Byte) /\ Len(c) = Len(b) /\ Len(b) \in Nat
        /\ \A i \in 1 .. Len(b) : c[i] = XorByte(b[i], m[i])
    BY MaskedBytes, LenProperties
  <1> HIDE DEF c
  <1>2. /\ d \in Seq(Byte) /\ Len(d) = Len(b)
        /\ \A i \in 1 .. Len(b) : d[i] = XorByte(c[i], m[i])
    BY <1>1, MaskedBytes
  <1> HIDE DEF d
  <1>3. \A i \in 1 .. Len(b) : d[i] = b[i]
    <2> TAKE i \in 1 .. Len(b)
    <2>0. i \in 1 .. 16
      BY <1>1
    <2>1. b[i] \in Byte /\ m[i] \in Byte
      BY <2>0, MaskBytes, ElementOfSeq
    <2> HIDE DEF m
    <2> QED
      BY <1>1, <1>2, <2>1, XorTwice
  <1>4. d = b
    BY <1>1, <1>2, <1>3, SeqEqual
  <1> QED
    BY <1>4 DEF c, d

(* An IPv4 address is combined with the cookie alone. *)
LEMMA ShortMasked ==
    ASSUME NEW t \in TransactionIds, NEW u \in TransactionIds,
           NEW b \in Seq(Byte), Len(b) <= 4
    PROVE  Masked(b, t) = Masked(b, u)
  <1>1. Len(b) \in Nat /\ Len(b) <= 16
    BY LenProperties
  <1>2. \A i \in 1 .. Len(b) : (MAGIC_COOKIE \o t)[i] = (MAGIC_COOKIE \o u)[i]
    <2> TAKE i \in 1 .. Len(b)
    <2>1. i \in 1 .. 4
      BY <1>1
    <2> QED
      BY <2>1, MaskBytes
  <1>3. \A i \in 1 .. Len(b) : Masked(b, t)[i] = Masked(b, u)[i]
    <2> TAKE i \in 1 .. Len(b)
    <2>1. /\ Masked(b, t)[i] = XorByte(b[i], (MAGIC_COOKIE \o t)[i])
          /\ Masked(b, u)[i] = XorByte(b[i], (MAGIC_COOKIE \o u)[i])
      BY <1>1, MaskedBytes
    <2> QED
      BY <1>2, <2>1
  <1>4. /\ Masked(b, t) \in Seq(Byte) /\ Len(Masked(b, t)) = Len(b)
        /\ Masked(b, u) \in Seq(Byte) /\ Len(Masked(b, u)) = Len(b)
    BY <1>1, MaskedBytes
  <1> QED
    BY <1>3, <1>4, SeqEqual

(* Two ids that make the same of an IPv6 address are the same. *)
LEMMA MaskedCancels ==
    ASSUME NEW t \in TransactionIds, NEW u \in TransactionIds,
           NEW b \in Seq(Byte), Len(b) = 16, Masked(b, t) = Masked(b, u)
    PROVE  t = u
  <1>1. ASSUME NEW i \in 1 .. 12
        PROVE  t[i] = u[i]
    <2> DEFINE x == (MAGIC_COOKIE \o t)[i + 4]
               y == (MAGIC_COOKIE \o u)[i + 4]
    <2>1. i + 4 \in 1 .. 16 /\ i + 4 \in 1 .. Len(b) /\ Len(b) <= 16
      OBVIOUS
    <2>2. /\ Masked(b, t)[i + 4] = XorByte(b[i + 4], x)
          /\ Masked(b, u)[i + 4] = XorByte(b[i + 4], y)
      BY <2>1, MaskedBytes
    <2>3. b[i + 4] \in Byte
      BY <2>1, ElementOfSeq
    <2>4. x \in Byte /\ y \in Byte /\ x = t[i] /\ y = u[i]
      BY <2>1, MaskBytes
    <2> HIDE DEF x, y
    <2> QED
      BY <2>2, <2>3, <2>4, XorCancels
  <1>2. /\ t \in Seq(Byte) /\ Len(t) = 12
        /\ u \in Seq(Byte) /\ Len(u) = 12
    BY BytesAreSeq DEF TransactionIds
  <1>3. \A i \in 1 .. 12 : t[i] = u[i]
    BY <1>1
  <1> QED
    BY <1>2, <1>3, SeqEqual

-----------------------------------------------------------------------------
(* The XOR addresses. *)

(* The parts of what an XOR attribute holds.                                 *)
LEMMA XorParts ==
    ASSUME NEW v \in XorValues
    PROVE  /\ v.tid \in TransactionIds
           /\ v = [address |-> v.address, tid |-> v.tid]
           /\ v.address = [family |-> v.address.family, port |-> v.address.port,
                           bytes |-> v.address.bytes]
           /\ v.address.family \in Byte
           /\ v.address.port \in UInt16
           /\ v.address.bytes \in Seq(Byte)
           /\ Len(v.address.bytes) = AddressLength(v.address.family)
           /\ AddressLength(v.address.family) \in {4, 16}
  <1>1. v.address \in StunAddress /\ v.tid \in TransactionIds
        /\ v = [address |-> v.address, tid |-> v.tid]
    BY DEF XorValues
  <1> DEFINE a == v.address
  <1> HIDE DEF a
  <1>2. CASE a \in [family : {IPv4}, port : UInt16, bytes : Bytes(4)]
    <2>1. /\ a = [family |-> a.family, port |-> a.port, bytes |-> a.bytes]
          /\ a.family = IPv4 /\ a.port \in UInt16 /\ a.bytes \in Bytes(4)
      BY <1>2
    <2>2. a.bytes \in Seq(Byte) /\ Len(a.bytes) = 4
      BY <2>1, BytesAreSeq
    <2> QED
      BY <1>1, <2>1, <2>2, ByteRange DEF a, AddressLength, IPv4
  <1>3. CASE a \in [family : Byte \ {IPv4}, port : UInt16, bytes : Bytes(16)]
    <2>1. /\ a = [family |-> a.family, port |-> a.port, bytes |-> a.bytes]
          /\ a.family \in Byte /\ a.family # IPv4
          /\ a.port \in UInt16 /\ a.bytes \in Bytes(16)
      BY <1>3
    <2>2. a.bytes \in Seq(Byte) /\ Len(a.bytes) = 16
      BY <2>1, BytesAreSeq
    <2> QED
      BY <1>1, <2>1, <2>2 DEF a, AddressLength
  <1> QED
    BY <1>1, <1>2, <1>3 DEF StunAddress, a

(* What decode() of an XOR attribute puts together is such an object.        *)
LEMMA XorMade ==
    ASSUME NEW family \in Byte, NEW port \in UInt16, NEW bytes \in Seq(Byte),
           Len(bytes) = AddressLength(family), NEW id \in TransactionIds
    PROVE  [address |-> [family |-> family, port |-> port, bytes |-> bytes],
            tid |-> id] \in XorValues
  <1> DEFINE a == [family |-> family, port |-> port, bytes |-> bytes]
  <1>1. CASE family = IPv4
    <2>1. bytes \in Bytes(4)
      BY <1>1, BytesAreSeq DEF AddressLength
    <2> QED
      BY <1>1, <2>1 DEF StunAddress, XorValues
  <1>2. CASE family # IPv4
    <2>1. bytes \in Bytes(16)
      BY <1>2, BytesAreSeq DEF AddressLength
    <2> QED
      BY <1>2, <2>1 DEF StunAddress, XorValues
  <1> QED
    BY <1>1, <1>2

(* A head of four bytes and a tail. *)
LEMMA HeadAndTail ==
    ASSUME NEW h \in Seq(Byte), Len(h) = 4, NEW t \in Seq(Byte), NEW b, b = h \o t
    PROVE  /\ b \in Seq(Byte) /\ Len(b) = 4 + Len(t) /\ Len(b) \in Nat /\ Len(b) >= 4
           /\ b[1] = h[1] /\ b[2] = h[2] /\ b[3] = h[3] /\ b[4] = h[4]
           /\ From(b, 5) = t
  <1>2. /\ b \in Seq(Byte) /\ Len(b) = Len(h) + Len(t)
        /\ \A i \in 1 .. Len(h) + Len(t) : b[i] =
              IF i <= Len(h) THEN h[i] ELSE t[i - Len(h)]
    BY ConcatProperties
  <1>4. Len(t) \in Nat
    BY LenProperties
  <1>5. /\ Len(b) = 4 + Len(t) /\ Len(b) \in Nat
        /\ b[1] = h[1] /\ b[2] = h[2] /\ b[3] = h[3] /\ b[4] = h[4]
    BY <1>2, <1>4
  <1>6. \A i \in 1 .. Len(t) : b[i + 4] = t[i]
    <2> TAKE i \in 1 .. Len(t)
    <2>1. i + 4 \in 1 .. 4 + Len(t) /\ ~(i + 4 <= 4) /\ (i + 4) - 4 = i
      BY <1>4
    <2> QED
      BY <1>2, <2>1
  <1>7. From(b, 5) = t
    <2> DEFINE s == SubSeq(b, 5, Len(b))
    <2>1. \A i \in 5 .. Len(b) : b[i] \in Byte
      BY <1>2, <1>5, ElementOfSeq
    <2>2. /\ s \in Seq(Byte)
          /\ Len(s) = IF 5 <= Len(b) THEN (Len(b) - 5) + 1 ELSE 0
          /\ \A i \in 1 .. (Len(b) - 5) + 1 : s[i] = b[(5 + i) - 1]
      BY <1>5, <2>1, SubSeqProperties
    <2> HIDE DEF s
    <2>3. Len(s) = Len(t)
      BY <1>4, <1>5, <2>2
    <2>4. \A i \in 1 .. Len(s) : s[i] = t[i]
      <3> TAKE i \in 1 .. Len(s)
      <3>1. i \in 1 .. (Len(b) - 5) + 1 /\ (5 + i) - 1 = i + 4 /\ i \in 1 .. Len(t)
        BY <1>4, <1>5, <2>3
      <3> QED
        BY <1>6, <2>2, <3>1
    <2>5. s = t
      BY <2>2, <2>3, <2>4, SeqEqual
    <2> QED
      BY <2>5 DEF From, s
  <1> QED
    BY <1>2, <1>4, <1>5, <1>7

(* A head of two bytes and two.                                              *)
LEMMA TwoAndTwo ==
    ASSUME NEW a \in Byte, NEW b \in Byte, NEW c \in Byte, NEW d \in Byte
    PROVE  <<a, b>> \o <<c, d>> = <<a, b, c, d>>
  <1> DEFINE s == <<a, b>>
             t == <<c, d>>
             u == <<a, b, c, d>>
             w == s \o t
  <1>1. s \in Seq(Byte) /\ Len(s) = 2 /\ s[1] = a /\ s[2] = b
    OBVIOUS
  <1>2. t \in Seq(Byte) /\ Len(t) = 2 /\ t[1] = c /\ t[2] = d
    OBVIOUS
  <1>3. u \in Seq(Byte) /\ Len(u) = 4 /\ u[1] = a /\ u[2] = b /\ u[3] = c /\ u[4] = d
    OBVIOUS
  <1> HIDE DEF s, t, u
  <1>4. /\ w \in Seq(Byte) /\ Len(w) = Len(s) + Len(t)
        /\ \A i \in 1 .. Len(s) + Len(t) : w[i] =
              IF i <= Len(s) THEN s[i] ELSE t[i - Len(s)]
    BY <1>1, <1>2, ConcatProperties
  <1> HIDE DEF w
  <1>5. \A i \in 1 .. 4 : w[i] = u[i]
    <2>1. w[1] = a /\ w[2] = b /\ w[3] = c /\ w[4] = d
      BY <1>1, <1>2, <1>4
    <2> QED
      BY <1>3, <2>1
  <1>6. w = u
    BY <1>1, <1>2, <1>3, <1>4, <1>5, SeqEqual
  <1> QED
    BY <1>6 DEF s, t, u, w

(* The four bytes before the address, and the address as it is written. *)
High(v) == MaskedPort(v.address.port) \div 256
Low(v) == MaskedPort(v.address.port) % 256
Tail4(v) == Masked(v.address.bytes, v.tid)
Head4(family, h, l) == <<0, family, h, l>>

(* Four bytes are a sequence of them.                                        *)
LEMMA Head4Bytes ==
    ASSUME NEW f \in Byte, NEW h \in Byte, NEW l \in Byte
    PROVE  /\ Head4(f, h, l) \in Seq(Byte) /\ Len(Head4(f, h, l)) = 4
           /\ Head4(f, h, l)[1] = 0 /\ Head4(f, h, l)[2] = f
           /\ Head4(f, h, l)[3] = h /\ Head4(f, h, l)[4] = l
  <1>1. 0 \in Byte
    BY ByteRange
  <1> QED
    BY <1>1 DEF Head4

(* What an XOR attribute is written as.                                      *)
LEMMA XorBodyBytes ==
    ASSUME NEW v \in XorValues
    PROVE  /\ XorBody(v) = Head4(v.address.family, High(v), Low(v)) \o Tail4(v)
           /\ High(v) \in Byte /\ Low(v) \in Byte
           /\ High(v) * 256 + Low(v) = MaskedPort(v.address.port)
           /\ Tail4(v) \in Seq(Byte) /\ Len(Tail4(v)) = AddressLength(v.address.family)
  <1> DEFINE a == v.address
             p == MaskedPort(a.port)
             m == Masked(a.bytes, v.tid)
             h == p \div 256
             l == p % 256
  <1>1. /\ a.family \in Byte /\ a.port \in UInt16 /\ v.tid \in TransactionIds
        /\ a.bytes \in Seq(Byte) /\ Len(a.bytes) = AddressLength(a.family)
        /\ AddressLength(a.family) \in {4, 16}
    BY XorParts
  <1>2. m \in Seq(Byte) /\ Len(m) = AddressLength(a.family)
    <2>1. Len(a.bytes) <= 16
      BY <1>1
    <2> HIDE DEF a
    <2> QED
      BY <1>1, <2>1, MaskedBytes
  <1>3. h \in Byte /\ l \in Byte /\ h * 256 + l = p /\ WriteBE16(p) = <<h, l>>
    BY <1>1, PortTwice, BytesOfBE16 DEF WriteBE16
  <1>4. 0 \in Byte
    BY ByteRange
  <1>5. High(v) = h /\ Low(v) = l /\ Tail4(v) = m
    BY DEF High, Low, Tail4
  <1>6. XorBody(v) = <<0, a.family>> \o WriteBE16(p) \o m
    BY DEF XorBody
  <1> HIDE DEF a, p, m, h, l
  <1>7. <<0, a.family>> \o <<h, l>> = <<0, a.family, h, l>>
    BY <1>1, <1>3, <1>4, TwoAndTwo
  <1>8. XorBody(v) = Head4(a.family, h, l) \o m
    BY <1>3, <1>6, <1>7 DEF Head4
  <1> QED
    BY <1>2, <1>3, <1>5, <1>8 DEF a, p

(* Where the family, the port and the address are in the value of an XOR     *)
(* attribute.                                                                *)
LEMMA XorBodyParts ==
    ASSUME NEW v \in XorValues
    PROVE  LET b == XorBody(v)
               a == v.address
           IN  /\ b \in Seq(Byte)
               /\ Len(b) = 4 + AddressLength(a.family)
               /\ b[2] = a.family
               /\ ReadBE16(b, 3) = MaskedPort(a.port)
               /\ SubSeq(b, 5, 4 + AddressLength(a.family)) = Masked(a.bytes, v.tid)
  <1> DEFINE f == v.address.family
             n == AddressLength(f)
             b == XorBody(v)
             w == Head4(f, High(v), Low(v))
             m == Tail4(v)
  <1>1. f \in Byte /\ n \in {4, 16}
    BY XorParts
  <1>2. /\ b = w \o m
        /\ High(v) \in Byte /\ Low(v) \in Byte
        /\ High(v) * 256 + Low(v) = MaskedPort(v.address.port)
        /\ m \in Seq(Byte) /\ Len(m) = n
    BY XorBodyBytes
  <1>3. w \in Seq(Byte) /\ Len(w) = 4 /\ w[2] = f /\ w[3] = High(v) /\ w[4] = Low(v)
    <2> HIDE DEF f
    <2>1. /\ Head4(f, High(v), Low(v)) \in Seq(Byte)
          /\ Len(Head4(f, High(v), Low(v))) = 4
          /\ Head4(f, High(v), Low(v))[1] = 0 /\ Head4(f, High(v), Low(v))[2] = f
          /\ Head4(f, High(v), Low(v))[3] = High(v)
          /\ Head4(f, High(v), Low(v))[4] = Low(v)
      BY <1>1, <1>2, Head4Bytes
    <2> QED
      BY <2>1
  <1>4. m = Masked(v.address.bytes, v.tid)
    BY DEF Tail4
  <1> HIDE DEF b, w, m, n
  <1>5. /\ b \in Seq(Byte) /\ Len(b) = 4 + Len(m)
        /\ b[2] = w[2] /\ b[3] = w[3] /\ b[4] = w[4] /\ From(b, 5) = m
    <2>1. w \in Seq(Byte) /\ Len(w) = 4 /\ m \in Seq(Byte) /\ b = w \o m
      BY <1>2, <1>3
    <2>2. /\ b \in Seq(Byte) /\ Len(b) = 4 + Len(m) /\ Len(b) \in Nat /\ Len(b) >= 4
          /\ b[1] = w[1] /\ b[2] = w[2] /\ b[3] = w[3] /\ b[4] = w[4]
          /\ From(b, 5) = m
      BY ONLY <2>1, HeadAndTail, ZenonT(60)
    <2> QED
      BY <2>2
  <1>6. ReadBE16(b, 3) = MaskedPort(v.address.port)
    BY <1>2, <1>3, <1>5 DEF ReadBE16
  <1>7. SubSeq(b, 5, 4 + n) = m
    BY <1>2, <1>5 DEF From
  <1>8. Len(b) = 4 + n /\ b[2] = f
    BY <1>2, <1>3, <1>5
  <1> QED
    BY <1>4, <1>5, <1>6, <1>7, <1>8 DEF b, n

(* Another family in the second byte is all that changes.                    *)
LEMMA SecondByte ==
    ASSUME NEW f \in Byte, NEW g \in Byte, NEW h \in Byte, NEW l \in Byte,
           NEW m \in Seq(Byte)
    PROVE  [(Head4(f, h, l) \o m) EXCEPT ![2] = g] = Head4(g, h, l) \o m
  <1> DEFINE w == Head4(f, h, l)
             y == Head4(g, h, l)
             b == w \o m
             c == y \o m
             e == [b EXCEPT ![2] = g]
  <1>1. Len(m) \in Nat
    BY LenProperties
  <1>2. /\ w \in Seq(Byte) /\ Len(w) = 4 /\ w[1] = 0 /\ w[3] = h /\ w[4] = l
        /\ y \in Seq(Byte) /\ Len(y) = 4 /\ y[1] = 0 /\ y[2] = g /\ y[3] = h
        /\ y[4] = l
    BY Head4Bytes
  <1> HIDE DEF w, y
  <1>3. /\ b \in Seq(Byte) /\ Len(b) = Len(w) + Len(m)
        /\ \A i \in 1 .. Len(w) + Len(m) : b[i] =
              IF i <= Len(w) THEN w[i] ELSE m[i - Len(w)]
    BY <1>2, ConcatProperties
  <1>4. /\ c \in Seq(Byte) /\ Len(c) = Len(y) + Len(m)
        /\ \A i \in 1 .. Len(y) + Len(m) : c[i] =
              IF i <= Len(y) THEN y[i] ELSE m[i - Len(y)]
    BY <1>2, ConcatProperties
  <1> HIDE DEF b, c
  <1>5. e \in Seq(Byte) /\ Len(e) = Len(b)
        /\ \A i \in 1 .. Len(b) : e[i] = IF i = 2 THEN g ELSE b[i]
    <2>1. b \in [1 .. Len(b) -> Byte] /\ Len(b) \in Nat
      BY <1>3, LenProperties
    <2>2. e \in [1 .. Len(b) -> Byte]
      BY <2>1
    <2>3. e \in Seq(Byte) /\ Len(e) = Len(b)
      BY <2>1, <2>2
    <2>4. \A i \in 1 .. Len(b) : e[i] = IF i = 2 THEN g ELSE b[i]
      BY <2>1
    <2> QED
      BY <2>3, <2>4
  <1> HIDE DEF e
  <1>6. \A i \in 1 .. 4 + Len(m) : e[i] = c[i]
    <2> TAKE i \in 1 .. 4 + Len(m)
    <2>1. /\ e[i] = IF i = 2 THEN g ELSE b[i]
          /\ b[i] = IF i <= 4 THEN w[i] ELSE m[i - 4]
          /\ c[i] = IF i <= 4 THEN y[i] ELSE m[i - 4]
      BY <1>2, <1>3, <1>4, <1>5
    <2>2. CASE i <= 4
      <3>1. i = 1 \/ i = 2 \/ i = 3 \/ i = 4
        BY <1>1, <2>2
      <3> QED
        BY <1>2, <2>1, <2>2, <3>1
    <2>3. CASE ~(i <= 4)
      BY <2>1, <2>3
    <2> QED
      BY <2>2, <2>3
  <1>7. Len(e) = Len(c) /\ Len(c) = 4 + Len(m)
    BY <1>2, <1>3, <1>4, <1>5
  <1>8. e = c
    BY <1>4, <1>5, <1>6, <1>7, SeqEqual
  <1> QED
    BY <1>8 DEF b, c, e, w, y

(* The parts of an object.                                                   *)
LEMMA AttrParts ==
    ASSUME NEW k, NEW v
    PROVE  Attr(k, v).kind = k /\ Attr(k, v).value = v
  BY DEF Attr

(* An object is not std::nullopt.                                            *)
LEMMA AttrIsSomething ==
    ASSUME NEW k, k # "nothing", NEW v
    PROVE  Attr(k, v) # Nothing
  <1>1. Attr(k, v).kind = k /\ Nothing.kind = "nothing"
    BY DEF Attr, Nothing
  <1> QED
    BY <1>1

(* A part of a value is bytes.                                               *)
LEMMA PartOfBytes ==
    ASSUME NEW b \in Seq(Byte), NEW m \in Nat, NEW n \in Nat, 1 <= m, n <= Len(b)
    PROVE  /\ SubSeq(b, m, n) \in Seq(Byte)
           /\ Len(SubSeq(b, m, n)) = IF m <= n THEN n - m + 1 ELSE 0
           /\ \A i \in 1 .. n - m + 1 : SubSeq(b, m, n)[i] = b[m + i - 1]
  <1>1. Len(b) \in Nat
    BY LenProperties
  <1>2. \A i \in m .. n : i \in 1 .. Len(b)
    BY <1>1
  <1>3. \A i \in m .. n : b[i] \in Byte
    BY <1>2, ElementOfSeq
  <1> QED
    BY <1>3, SubSeqProperties

(* Whatever bytes arrive, decode() of an XOR attribute makes nothing or an   *)
(* object of one of the two families.                                        *)
LEMMA XorDecodeTyped ==
    ASSUME NEW k, NEW b \in Seq(Byte), NEW id \in TransactionIds
    PROVE  LET d == XorDecode(k, b, id)
           IN  \/ d = Nothing
               \/ /\ d \in [kind : {k}, value : XorValues]
                  /\ d.value.address.family \in {IPv4, IPv6}
  <1> DEFINE n == AddressLength(b[2])
             f == ReadFamily(b[2])
             p == MaskedPort(ReadBE16(b, 3))
             s == SubSeq(b, 5, 4 + n)
             m == Masked(s, id)
             v == [address |-> [family |-> f, port |-> p, bytes |-> m], tid |-> id]
  <1> SUFFICES ASSUME Len(b) >= 4, Len(b) >= 4 + n
               PROVE  /\ Attr(k, v) \in [kind : {k}, value : XorValues]
                      /\ Attr(k, v).value.address.family \in {IPv4, IPv6}
    BY DEF XorDecode
  <1>1. Len(b) \in Nat
    BY LenProperties
  <1>2. /\ f \in {IPv4, IPv6} /\ f \in Byte /\ n \in {4, 16} /\ AddressLength(f) = n
    BY ByteRange DEF ReadFamily, AddressLength, IPv4, IPv6
  <1>3. p \in UInt16
    BY <1>1, ReadBE16Range, PortTwice
  <1>4. s \in Seq(Byte) /\ Len(s) = n
    <2>1. 4 + n \in Nat /\ 5 <= 4 + n /\ (4 + n) - 5 + 1 = n
      BY <1>2
    <2> HIDE DEF n
    <2> QED
      BY <2>1, PartOfBytes
  <1> HIDE DEF n, f, p, s
  <1>5. m \in Seq(Byte) /\ Len(m) = n
    <2>1. Len(s) <= 16
      BY <1>2, <1>4
    <2> QED
      BY <1>4, <2>1, MaskedBytes
  <1> HIDE DEF m
  <1>6. v \in XorValues
    BY <1>2, <1>3, <1>5, XorMade
  <1>7. v.address.family \in {IPv4, IPv6}
    BY <1>2
  <1> QED
    BY <1>6, <1>7 DEF Attr

(* What is decoded under the id u of what was made for v.tid. *)
Turned(v, u) ==
    [address |-> [family |-> ReadFamily(v.address.family), port |-> v.address.port,
                  bytes |-> Masked(Masked(v.address.bytes, v.tid), u)],
     tid |-> u]

(* What encode() of an XOR attribute writes is accepted under every          *)
(* transaction id.                                                           *)
LEMMA XorArrives ==
    ASSUME NEW k, NEW v \in XorValues, NEW u \in TransactionIds
    PROVE  XorDecode(k, XorBody(v), u) = Attr(k, Turned(v, u))
  <1> DEFINE a == v.address
             n == AddressLength(a.family)
             m == Masked(a.bytes, v.tid)
             b == XorBody(v)
  <1>1. /\ a.port \in UInt16 /\ n \in {4, 16}
    BY XorParts
  <1>2. /\ Len(b) = 4 + n /\ b[2] = a.family
        /\ ReadBE16(b, 3) = MaskedPort(a.port)
        /\ SubSeq(b, 5, 4 + n) = m
    BY XorBodyParts
  <1>3. MaskedPort(MaskedPort(a.port)) = a.port
    BY <1>1, PortTwice
  <1> HIDE DEF a, m, b
  <1>5. Len(b) >= 4 /\ Len(b) >= 4 + AddressLength(b[2])
    BY <1>1, <1>2
  <1>6. XorDecode(k, b, u) =
          Attr(k, [address |-> [family |-> ReadFamily(a.family), port |-> a.port,
                                bytes |-> Masked(m, u)], tid |-> u])
    BY <1>2, <1>3, <1>5 DEF XorDecode
  <1> QED
    BY <1>6 DEF Turned, a, m, b

(* Encoded again, it is the same bytes but for the family.                    *)
LEMMA TurnedKeepsBody ==
    ASSUME NEW v \in XorValues, NEW u \in TransactionIds
    PROVE  /\ Turned(v, u) \in XorValues
           /\ XorBody(Turned(v, u)) =
                 [XorBody(v) EXCEPT ![2] = ReadFamily(v.address.family)]
  <1> DEFINE a == v.address
             m == Masked(a.bytes, v.tid)
             c == Masked(m, u)
             f == ReadFamily(a.family)
             t == Turned(v, u)
  <1>1. /\ a.family \in Byte /\ a.port \in UInt16 /\ v.tid \in TransactionIds
        /\ a.bytes \in Seq(Byte) /\ Len(a.bytes) = AddressLength(a.family)
        /\ Len(a.bytes) \in {4, 16}
    BY XorParts
  <1>2. m \in Seq(Byte) /\ Len(m) = Len(a.bytes)
    <2>1. Len(a.bytes) <= 16
      BY <1>1
    <2> HIDE DEF a
    <2> QED
      BY <1>1, <2>1, MaskedBytes
  <1>3. Len(m) <= 16
    BY <1>1, <1>2
  <1>4. f \in Byte /\ AddressLength(f) = AddressLength(a.family)
    BY ByteRange DEF ReadFamily, AddressLength, IPv4, IPv6
  <1> HIDE DEF a, m, f
  <1>5. c \in Seq(Byte) /\ Len(c) = Len(a.bytes) /\ Masked(c, u) = m
    BY <1>2, <1>3, MaskedBytes, MaskedTwice
  <1> HIDE DEF c
  <1>6. t = [address |-> [family |-> f, port |-> a.port, bytes |-> c], tid |-> u]
    BY DEF Turned, a, m, c, f
  <1>7. t \in XorValues
    BY <1>1, <1>4, <1>5, <1>6, XorMade
  <1>8. /\ XorBody(v) = Head4(a.family, High(v), Low(v)) \o Tail4(v)
        /\ High(v) \in Byte /\ Low(v) \in Byte /\ Tail4(v) = m
    BY XorBodyBytes DEF a, m, Tail4
  <1>9. XorBody(t) = Head4(f, High(v), Low(v)) \o m
    <2>1. /\ t.address.family = f /\ t.address.port = a.port
          /\ t.address.bytes = c /\ t.tid = u
      BY <1>6
    <2>2. High(t) = High(v) /\ Low(t) = Low(v) /\ Tail4(t) = m
      BY <1>5, <2>1 DEF High, Low, Tail4, a
    <2> HIDE DEF t
    <2>3. XorBody(t) = Head4(t.address.family, High(t), Low(t)) \o Tail4(t)
      BY <1>7, XorBodyBytes
    <2> QED
      BY <2>1, <2>2, <2>3
  <1> HIDE DEF t
  <1>10. [(Head4(a.family, High(v), Low(v)) \o m) EXCEPT ![2] = f]
            = Head4(f, High(v), Low(v)) \o m
    <2>1. a.family \in Byte /\ f \in Byte /\ m \in Seq(Byte)
      BY <1>1, <1>2, <1>4
    <2> DEFINE g == a.family
    <2>2. g \in Byte
      BY <2>1
    <2> HIDE DEF g
    <2>3. [(Head4(g, High(v), Low(v)) \o m) EXCEPT ![2] = f]
            = Head4(f, High(v), Low(v)) \o m
      BY <1>8, <2>1, <2>2, SecondByte
    <2> QED
      BY <2>3 DEF g
  <1>11. XorBody(t) = [XorBody(v) EXCEPT ![2] = f]
    BY <1>8, <1>9, <1>10
  <1> QED
    BY <1>7, <1>11 DEF t, f, a

(* Of objects with the same bytes, an IPv4 address is the same, and any other   *)
(* address if and only if the transaction ids are.                            *)
LEMMA XorSameBody ==
    ASSUME NEW v \in XorValues, NEW w \in XorValues, XorBody(v) = XorBody(w)
    PROVE  /\ v.address.family = w.address.family
           /\ v.address = w.address <=> v.address.family = IPv4 \/ v.tid = w.tid
  <1> DEFINE a == v.address
             c == w.address
             n == AddressLength(a.family)
             m == Masked(a.bytes, v.tid)
  <1>1. /\ a = [family |-> a.family, port |-> a.port, bytes |-> a.bytes]
        /\ a.port \in UInt16 /\ v.tid \in TransactionIds
        /\ a.bytes \in Seq(Byte) /\ Len(a.bytes) = n /\ n \in {4, 16}
    BY XorParts
  <1>2. /\ c = [family |-> c.family, port |-> c.port, bytes |-> c.bytes]
        /\ c.port \in UInt16 /\ w.tid \in TransactionIds
        /\ c.bytes \in Seq(Byte) /\ Len(c.bytes) = AddressLength(c.family)
    BY XorParts
  <1>3. /\ XorBody(v)[2] = a.family /\ XorBody(w)[2] = c.family
        /\ ReadBE16(XorBody(v), 3) = MaskedPort(a.port)
        /\ ReadBE16(XorBody(w), 3) = MaskedPort(c.port)
        /\ SubSeq(XorBody(v), 5, 4 + AddressLength(a.family)) = m
        /\ SubSeq(XorBody(w), 5, 4 + AddressLength(c.family)) = Masked(c.bytes, w.tid)
    BY XorBodyParts
  <1> HIDE DEF a, c, m, n
  <1>4. a.family = c.family /\ Len(c.bytes) = n
    BY <1>2, <1>3 DEF n
  <1>5. a.port = c.port
    <2>1. MaskedPort(a.port) = MaskedPort(c.port)
      BY <1>3
    <2> QED
      BY <1>1, <1>2, <2>1, PortTwice
  <1>6. Masked(c.bytes, w.tid) = m /\ Masked(a.bytes, v.tid) = m
    BY <1>3, <1>4 DEF m, a
  <1>7. Len(a.bytes) <= 16 /\ Len(c.bytes) <= 16
    BY <1>1, <1>4
  <1>8. Masked(m, v.tid) = a.bytes /\ Masked(m, w.tid) = c.bytes
    BY <1>1, <1>2, <1>6, <1>7, MaskedTwice
  <1>9. a = c <=> a.bytes = c.bytes
    BY <1>1, <1>2, <1>4, <1>5
  <1>10. m \in Seq(Byte) /\ Len(m) = n
    BY <1>1, <1>6, <1>7, MaskedBytes
  <1>11. CASE a.family = IPv4
    <2>1. n = 4
      BY <1>11 DEF n, AddressLength
    <2>2. Len(m) <= 4
      BY <1>10, <2>1
    <2>3. Masked(m, v.tid) = Masked(m, w.tid)
      BY <1>1, <1>2, <1>10, <2>2, ShortMasked
    <2> QED
      BY <1>4, <1>8, <1>9, <1>11, <2>3 DEF a, c
  <1>12. CASE a.family # IPv4
    <2>1. n = 16
      BY <1>12 DEF n, AddressLength
    <2>2. Masked(m, v.tid) = Masked(m, w.tid) => v.tid = w.tid
      BY <1>1, <1>2, <1>10, <2>1, MaskedCancels
    <2>3. a.bytes = c.bytes <=> v.tid = w.tid
      BY <1>8, <2>2
    <2> QED
      BY <1>4, <1>9, <1>12, <2>3 DEF a, c
  <1> QED
    BY <1>11, <1>12

-----------------------------------------------------------------------------
(* The opaque classes. *)

(* The classes of a fixed size, and those of a string.                       *)
FixedKinds == {"IceControlled", "IceControlling", "ReservationToken", "UserHash",
               "Fingerprint", "MessageIntegrity", "MessageIntegritySHA256"}
Strings == ShortString \cup LongString \cup Unlimited

(* The fixed sizes are sizes.                                                *)
LEMMA FixedSizes ==
    /\ DOMAIN FixedSize = FixedKinds
    /\ \A k \in FixedKinds : FixedSize[k] \in Nat
  <1>1. DOMAIN FixedSize = FixedKinds
    BY DEF FixedSize, FixedKinds
  <1>2. /\ HmacSize.MessageIntegrity \in Nat /\ HmacSize.MessageIntegritySHA256 \in Nat
        /\ kHashSize \in Nat /\ Fingerprint.size \in Nat
        /\ TiebreakerSize \in Nat /\ TokenSize \in Nat
    BY DEF HmacSize, MessageIntegrity, MessageIntegritySHA256, kHashSize, Fingerprint,
       TiebreakerSize, TokenSize
  <1>3. \A k \in FixedKinds : FixedSize[k] \in Nat
    BY <1>2 DEF FixedSize, FixedKinds
  <1> QED
    BY <1>1, <1>3

(* The opaque classes are those, and the markers.                            *)
LEMMA OpaqueKinds == Opaque = Marker \cup Strings \cup FixedKinds
  BY FixedSizes DEF Opaque, Strings

(* What encode(), decode() and the limits are for an opaque class.           *)
LEMMA OpaqueArms ==
    ASSUME NEW k \in Opaque
    PROVE  /\ k \notin Numeric \cup AddressFamily \cup XorKinds
           /\ k \notin {"RequestedTransport", "EvenPort", "ChannelNumber", "ErrorCode",
                "AddressErrorCode", "UnknownAttributes", "PasswordAlgorithm",
                "PasswordAlgorithms", "nothing"}
           /\ \A b : PlainDecode(k, b) = DecodeOpaque(k, b)
           /\ \A a : a.kind = k => PlainBody(a) = a.value
           /\ \A a : a.kind = k => (Legal(a) <=> OpaqueSizeOK(k, Len(a.value)))
           /\ k \in FixedKinds => PlainValues(k) = Bytes(FixedSize[k])
           /\ k \in Marker => PlainValues(k) = {<<>>}
           /\ k \in Strings => PlainValues(k) = Seq(Byte)
  <1>1. k \notin Numeric \cup AddressFamily \cup XorKinds \cup
          {"RequestedTransport", "EvenPort", "ChannelNumber", "ErrorCode",
           "AddressErrorCode", "UnknownAttributes", "PasswordAlgorithm",
           "PasswordAlgorithms", "nothing"}
    BY OpaqueKinds DEF Numeric, AddressFamily, XorKinds, FixedKinds, Marker, Strings,
       ShortString, LongString, Unlimited
  <1>2. \A b : PlainDecode(k, b) = DecodeOpaque(k, b)
    BY <1>1 DEF PlainDecode
  <1>3. \A a : a.kind = k => PlainBody(a) = a.value
    BY <1>1 DEF PlainBody
  <1>4. ASSUME NEW a, a.kind = k
        PROVE  Legal(a) <=> OpaqueSizeOK(k, Len(a.value))
    <2>1. /\ a.kind \in Opaque /\ a.kind \notin Numeric /\ a.kind \notin AddressFamily
          /\ a.kind \notin XorKinds
      BY <1>1, <1>4
    <2>2. /\ a.kind # "RequestedTransport" /\ a.kind # "EvenPort"
          /\ a.kind # "ChannelNumber" /\ a.kind # "ErrorCode"
          /\ a.kind # "AddressErrorCode" /\ a.kind # "UnknownAttributes"
          /\ a.kind # "PasswordAlgorithm" /\ a.kind # "PasswordAlgorithms"
      BY <1>1, <1>4
    <2>3. Legal(a) <=> OpaqueSizeOK(a.kind, Len(a.value))
      BY <2>1, <2>2 DEF Legal
    <2> QED
      BY <1>4, <2>3
  <1>5. k \in FixedKinds => PlainValues(k) = Bytes(FixedSize[k])
    <2>1. k \in FixedKinds => k \notin Marker
      BY DEF FixedKinds, Marker
    <2> QED
      BY <1>1, <2>1, FixedSizes DEF PlainValues
  <1>6. k \in Marker => PlainValues(k) = {<<>>}
    <2>1. k \in Marker => k \notin FixedKinds
      BY DEF FixedKinds, Marker
    <2> QED
      BY <1>1, <2>1, FixedSizes DEF PlainValues
  <1>7. k \in Strings => PlainValues(k) = Seq(Byte)
    <2>1. k \in Strings => k \notin FixedKinds \cup Marker
      BY DEF FixedKinds, Marker, Strings, ShortString, LongString, Unlimited
    <2> QED
      BY <1>1, <2>1, FixedSizes DEF PlainValues
  <1> QED
    BY <1>1, <1>2, <1>3, <1>4, <1>5, <1>6, <1>7

(* The classes that no other name stands for.                                *)
OtherKinds == {"RequestedTransport", "EvenPort", "ChannelNumber", "ErrorCode",
               "AddressErrorCode", "UnknownAttributes", "PasswordAlgorithm",
               "PasswordAlgorithms"}

(* What decode() accepts is of the types of the class and legal; what encode()  *)
(* writes is bytes, from which decode() makes a legal object again, and an     *)
(* object that encodes to the same bytes.                                     *)
Sound(k) ==
    /\ \A b \in Seq(Byte) :
          \/ PlainDecode(k, b) = Nothing
          \/ /\ PlainDecode(k, b) \in [kind : {k}, value : PlainValues(k)]
             /\ Legal(PlainDecode(k, b))
    /\ \A v \in PlainValues(k) :
          /\ PlainBody(Attr(k, v)) \in Seq(Byte)
          /\ Legal(Attr(k, v)) => PlainDecode(k, PlainBody(Attr(k, v))) = Attr(k, v)
          /\ \/ PlainDecode(k, PlainBody(Attr(k, v))) = Nothing
             \/ PlainBody(PlainDecode(k, PlainBody(Attr(k, v)))) = PlainBody(Attr(k, v))

(* The classes that take their value as it is. *)
LEMMA OpaqueSound ==
    ASSUME NEW k \in Opaque
    PROVE  Sound(k)
  <1> DEFINE V == PlainValues(k)
             L == {v \in V : OpaqueSizeOK(k, Len(v))}
  <1>1. ASSUME NEW v
        PROVE  /\ PlainBody(Attr(k, v)) = v
               /\ Legal(Attr(k, v)) <=> OpaqueSizeOK(k, Len(v))
    BY OpaqueArms, AttrParts
  <1>2. ASSUME NEW b
        PROVE  PlainDecode(k, b) = IF OpaqueSizeOK(k, Len(b)) THEN Attr(k, b) ELSE Nothing
    BY OpaqueArms DEF DecodeOpaque
  <1>3. \A v \in V : v \in Seq(Byte)
    <2>1. CASE k \in FixedKinds
      BY <2>1, OpaqueArms, FixedSizes, BytesAreSeq
    <2>2. CASE k \in Marker
      <3>1. V = {<<>>}
        BY <2>2, OpaqueArms
      <3> HIDE DEF V
      <3> QED
        BY <3>1, EmptySeq
    <2>3. CASE k \in Strings
      BY <2>3, OpaqueArms
    <2> QED
      BY <2>1, <2>2, <2>3, OpaqueKinds
  <1>4. ASSUME NEW b \in Seq(Byte), OpaqueSizeOK(k, Len(b))
        PROVE  b \in V
    <2>0. Len(b) \in Nat
      BY LenProperties
    <2>1. CASE k \in FixedKinds
      <3>1. k \notin Marker \cup ShortString \cup LongString \cup Unlimited
        BY <2>1 DEF FixedKinds, Marker, ShortString, LongString, Unlimited
      <3>2. Len(b) = FixedSize[k]
        BY <1>4, <3>1 DEF OpaqueSizeOK
      <3> QED
        BY <2>1, <3>2, OpaqueArms, FixedSizes, BytesAreSeq
    <2>2. CASE k \in Marker
      <3>1. k \notin FixedKinds \cup ShortString \cup LongString \cup Unlimited
        BY <2>2 DEF FixedKinds, Marker, ShortString, LongString, Unlimited
      <3>2. Len(b) = 0
        BY <1>4, <3>1, FixedSizes DEF OpaqueSizeOK
      <3>3. b = <<>>
        BY <3>2, EmptySeq
      <3> QED
        BY <2>2, <3>3, OpaqueArms
    <2>3. CASE k \in Strings
      BY <2>3, OpaqueArms
    <2> QED
      BY <2>1, <2>2, <2>3, OpaqueKinds
  <1>5. k # "nothing"
    BY OpaqueArms
  <1> HIDE DEF V
  <1>6. \A b \in Seq(Byte) :
          \/ PlainDecode(k, b) = Nothing
          \/ /\ PlainDecode(k, b) \in [kind : {k}, value : V]
             /\ Legal(PlainDecode(k, b))
    <2> TAKE b \in Seq(Byte)
    <2>1. b \in V => Attr(k, b) \in [kind : {k}, value : V]
      BY DEF Attr
    <2> QED
      BY <1>1, <1>2, <1>4, <2>1
  <1>7. \A v \in V :
          /\ PlainBody(Attr(k, v)) \in Seq(Byte)
          /\ Legal(Attr(k, v)) => PlainDecode(k, PlainBody(Attr(k, v))) = Attr(k, v)
          /\ \/ PlainDecode(k, PlainBody(Attr(k, v))) = Nothing
             \/ PlainBody(PlainDecode(k, PlainBody(Attr(k, v)))) = PlainBody(Attr(k, v))
    <2> TAKE v \in V
    <2>1. PlainBody(Attr(k, v)) = v /\ v \in Seq(Byte)
      BY <1>1, <1>3
    <2> QED
      BY <1>1, <1>2, <2>1
  <1> QED
    BY <1>6, <1>7 DEF Sound, V

-----------------------------------------------------------------------------
(* The classes of one word. *)

(* No class is of two groups.                                                *)
LEMMA KindsApart ==
    /\ \A k \in Numeric \cup AddressFamily \cup OtherKinds :
          k # "nothing" /\ k \notin Opaque \cup DOMAIN FixedSize \cup Marker
    /\ \A k \in OtherKinds : k \notin Numeric /\ k \notin AddressFamily
    /\ \A k \in Numeric : k \notin AddressFamily /\ k \notin OtherKinds
    /\ \A k \in AddressFamily : k \notin Numeric /\ k \notin OtherKinds
    /\ \A k \in Numeric \cup AddressFamily \cup OtherKinds : k \notin XorKinds
  BY FixedSizes, OpaqueKinds DEF Numeric, AddressFamily, OtherKinds, FixedKinds, Marker,
     Strings, ShortString, LongString, Unlimited, XorKinds

(* What they are for a number and for an address family.                     *)
LEMMA WordArms ==
    /\ \A k \in Numeric : /\ \A b : PlainDecode(k, b) = DecodeNumeric(k, b)
                          /\ \A v : PlainBody(Attr(k, v)) = v
                          /\ \A v : Legal(Attr(k, v)) <=> v \in Bytes(4)
                          /\ PlainValues(k) = Bytes(4)
    /\ \A k \in AddressFamily : /\ \A b : PlainDecode(k, b) = DecodeFamily(k, b)
                                /\ \A v : PlainBody(Attr(k, v)) = FamilyBody(v)
                                /\ \A v : Legal(Attr(k, v)) <=> v \in Byte
                                /\ PlainValues(k) = Byte
  <1>1. ASSUME NEW k \in Numeric
        PROVE  /\ \A b : PlainDecode(k, b) = DecodeNumeric(k, b)
               /\ \A v : PlainBody(Attr(k, v)) = v
               /\ \A v : Legal(Attr(k, v)) <=> v \in Bytes(4)
               /\ PlainValues(k) = Bytes(4)
    <2>1. k \notin Opaque /\ k \notin DOMAIN FixedSize /\ k \notin Marker
          /\ k \notin AddressFamily /\ k \notin XorKinds
      BY KindsApart
    <2>2. k \notin {"RequestedTransport", "EvenPort", "ChannelNumber", "ErrorCode",
               "AddressErrorCode", "UnknownAttributes", "PasswordAlgorithm",
               "PasswordAlgorithms"}
      BY KindsApart DEF OtherKinds
    <2>3. \A b : PlainDecode(k, b) = DecodeNumeric(k, b)
      BY <2>1, <2>2 DEF PlainDecode
    <2>4. \A v : PlainBody(Attr(k, v)) = v
      BY <2>1, <2>2, AttrParts DEF PlainBody
    <2>5. \A v : Legal(Attr(k, v)) <=> v \in Bytes(4)
      BY <2>1, <2>2, AttrParts DEF Legal
    <2>6. PlainValues(k) = Bytes(4)
      BY <2>1, <2>2 DEF PlainValues
    <2> QED
      BY <2>3, <2>4, <2>5, <2>6
  <1>2. ASSUME NEW k \in AddressFamily
        PROVE  /\ \A b : PlainDecode(k, b) = DecodeFamily(k, b)
               /\ \A v : PlainBody(Attr(k, v)) = FamilyBody(v)
               /\ \A v : Legal(Attr(k, v)) <=> v \in Byte
               /\ PlainValues(k) = Byte
    <2>1. k \notin Opaque /\ k \notin DOMAIN FixedSize /\ k \notin Marker
          /\ k \notin Numeric /\ k \notin XorKinds
      BY KindsApart
    <2>2. k \notin {"RequestedTransport", "EvenPort", "ChannelNumber", "ErrorCode",
               "AddressErrorCode", "UnknownAttributes", "PasswordAlgorithm",
               "PasswordAlgorithms"}
      BY KindsApart DEF OtherKinds
    <2>3. \A b : PlainDecode(k, b) = DecodeFamily(k, b)
      BY <2>1, <2>2 DEF PlainDecode
    <2>4. \A v : PlainBody(Attr(k, v)) = FamilyBody(v)
      BY <2>1, <2>2, AttrParts DEF PlainBody
    <2>5. \A v : Legal(Attr(k, v)) <=> v \in Byte
      BY <2>1, <2>2, AttrParts DEF Legal
    <2>6. PlainValues(k) = Byte
      BY <2>1, <2>2 DEF PlainValues
    <2> QED
      BY <2>3, <2>4, <2>5, <2>6
  <1> QED
    BY <1>1, <1>2

LEMMA OtherApart ==
    ASSUME NEW k \in OtherKinds
    PROVE  /\ k \notin Opaque /\ k \notin DOMAIN FixedSize /\ k \notin Marker
           /\ k \notin Numeric /\ k \notin AddressFamily /\ k \notin XorKinds
  BY KindsApart

(* What they are for every class by itself.                                  *)
LEMMA DecodeArms ==
    ASSUME NEW b
    PROVE  /\ PlainDecode("RequestedTransport", b) = DecodeTransport(b)
           /\ PlainDecode("EvenPort", b) = DecodeEvenPort(b)
           /\ PlainDecode("ChannelNumber", b) = DecodeChannel(b)
           /\ PlainDecode("ErrorCode", b) = DecodeError(b)
           /\ PlainDecode("AddressErrorCode", b) = DecodeAddressError(b)
           /\ PlainDecode("UnknownAttributes", b) = DecodeUnknown(b)
           /\ PlainDecode("PasswordAlgorithm", b) = DecodeAlgorithm(b)
           /\ PlainDecode("PasswordAlgorithms", b) = DecodeAlgorithms(b)
  BY OtherApart DEF PlainDecode, OtherKinds

LEMMA BodyArms ==
    ASSUME NEW v
    PROVE  /\ PlainBody(Attr("RequestedTransport", v)) = TransportBody(v)
           /\ PlainBody(Attr("EvenPort", v)) = EvenPortBody(v)
           /\ PlainBody(Attr("ChannelNumber", v)) = ChannelBody(v)
           /\ PlainBody(Attr("ErrorCode", v)) = ErrorBody(v)
           /\ PlainBody(Attr("AddressErrorCode", v)) = AddressErrorBody(v)
           /\ PlainBody(Attr("UnknownAttributes", v)) = UnknownBody(v)
           /\ PlainBody(Attr("PasswordAlgorithm", v)) = EntryBytes(v)
           /\ PlainBody(Attr("PasswordAlgorithms", v)) = EntriesBytes(v)
  BY OtherApart, AttrParts DEF PlainBody, OtherKinds

LEMMA LegalArms ==
    ASSUME NEW v
    PROVE  /\ Legal(Attr("RequestedTransport", v)) <=> v \in Byte
           /\ Legal(Attr("EvenPort", v)) <=> v \in BOOLEAN
           /\ Legal(Attr("ChannelNumber", v)) <=> v \in ChannelNumbers
           /\ Legal(Attr("ErrorCode", v)) <=> v.code \in ErrorCodes
           /\ Legal(Attr("AddressErrorCode", v)) <=>
                 v.family \in {IPv4, IPv6} /\ v.code \in {440, 508}
           /\ Legal(Attr("UnknownAttributes", v)) <=> v \in Seq(UInt16)
           /\ Legal(Attr("PasswordAlgorithm", v)) <=> LegalEntry(v)
           /\ Legal(Attr("PasswordAlgorithms", v)) <=>
                 \A i \in 1 .. Len(v) : LegalEntry(v[i])
  <1>1. Legal(Attr("RequestedTransport", v)) <=> v \in Byte
    BY OtherApart, AttrParts DEF Legal, OtherKinds
  <1>2. Legal(Attr("EvenPort", v)) <=> v \in BOOLEAN
    BY OtherApart, AttrParts DEF Legal, OtherKinds
  <1>3. Legal(Attr("ChannelNumber", v)) <=> v \in ChannelNumbers
    BY OtherApart, AttrParts DEF Legal, OtherKinds
  <1>4. Legal(Attr("ErrorCode", v)) <=> v.code \in ErrorCodes
    BY OtherApart, AttrParts DEF Legal, OtherKinds
  <1>5. Legal(Attr("AddressErrorCode", v)) <=> v.family \in {IPv4, IPv6} /\ v.code \in {440, 508}
    BY OtherApart, AttrParts DEF Legal, OtherKinds
  <1>6. Legal(Attr("UnknownAttributes", v)) <=> v \in Seq(UInt16)
    BY OtherApart, AttrParts DEF Legal, OtherKinds
  <1>7. Legal(Attr("PasswordAlgorithm", v)) <=> LegalEntry(v)
    BY OtherApart, AttrParts DEF Legal, OtherKinds
  <1>8. Legal(Attr("PasswordAlgorithms", v)) <=> \A i \in 1 .. Len(v) : LegalEntry(v[i])
    BY OtherApart, AttrParts DEF Legal, OtherKinds
  <1> QED
    BY <1>1, <1>2, <1>3, <1>4, <1>5, <1>6, <1>7, <1>8

LEMMA ValueArms ==
    /\ PlainValues("RequestedTransport") = Byte
    /\ PlainValues("EvenPort") = BOOLEAN
    /\ PlainValues("ChannelNumber") = UInt16
    /\ PlainValues("ErrorCode") = [code : UInt16, reason : Seq(Byte)]
    /\ PlainValues("AddressErrorCode") =
          [family : Byte, code : UInt16, reason : Seq(Byte)]
    /\ PlainValues("UnknownAttributes") = Seq(UInt16)
    /\ PlainValues("PasswordAlgorithm") = AlgorithmEntry
    /\ PlainValues("PasswordAlgorithms") = Seq(AlgorithmEntry)
  BY OtherApart DEF PlainValues, OtherKinds

(* PRIORITY, LIFETIME, CONNECTION-ID: the digits.                            *)
LEMMA NumericSound ==
    ASSUME NEW k \in Numeric
    PROVE  Sound(k)
  <1>1. ASSUME NEW v
        PROVE  /\ PlainBody(Attr(k, v)) = v
               /\ Legal(Attr(k, v)) <=> v \in Bytes(4)
    BY WordArms
  <1>2. ASSUME NEW b
        PROVE  PlainDecode(k, b) = IF Len(b) >= 4 THEN Attr(k, SubSeq(b, 1, 4)) ELSE Nothing
    BY WordArms DEF DecodeNumeric
  <1>3. PlainValues(k) = Bytes(4)
    BY WordArms
  <1>4. ASSUME NEW b \in Seq(Byte), Len(b) >= 4
        PROVE  SubSeq(b, 1, 4) \in Bytes(4)
    <2>1. SubSeq(b, 1, 4) \in Seq(Byte) /\ Len(SubSeq(b, 1, 4)) = 4
      BY <1>4, PartOfBytes
    <2> QED
      BY <2>1, BytesAreSeq
  <1>5. ASSUME NEW v \in Bytes(4)
        PROVE  v \in Seq(Byte) /\ Len(v) = 4 /\ SubSeq(v, 1, 4) = v
    <2>1. v \in Seq(Byte) /\ Len(v) = 4
      BY BytesAreSeq
    <2> QED
      BY <2>1, SubSeqFull
  <1>6. \A b \in Seq(Byte) :
          \/ PlainDecode(k, b) = Nothing
          \/ /\ PlainDecode(k, b) \in [kind : {k}, value : Bytes(4)]
             /\ Legal(PlainDecode(k, b))
    <2> TAKE b \in Seq(Byte)
    <2> SUFFICES ASSUME Len(b) >= 4
                 PROVE  /\ Attr(k, SubSeq(b, 1, 4)) \in [kind : {k}, value : Bytes(4)]
                        /\ Legal(Attr(k, SubSeq(b, 1, 4)))
      BY <1>2
    <2>1. SubSeq(b, 1, 4) \in Bytes(4)
      BY <1>4
    <2> QED
      BY <1>1, <2>1 DEF Attr
  <1>7. \A v \in Bytes(4) :
          /\ PlainBody(Attr(k, v)) \in Seq(Byte)
          /\ PlainDecode(k, PlainBody(Attr(k, v))) = Attr(k, v)
    <2> TAKE v \in Bytes(4)
    <2>1. Len(v) = 4 /\ Len(v) >= 4
      BY <1>5
    <2> QED
      BY <1>1, <1>2, <1>5, <2>1
  <1> QED
    BY <1>3, <1>6, <1>7 DEF Sound

(* A word. *)
LEMMA WordParts ==
    ASSUME NEW h1 \in Byte, NEW h2 \in Byte, NEW h3 \in Byte, NEW h4 \in Byte,
           NEW b, b = <<h1, h2, h3, h4>>
    PROVE  /\ b \in Seq(Byte) /\ Len(b) = 4
           /\ b[1] = h1 /\ b[2] = h2 /\ b[3] = h3 /\ b[4] = h4
  OBVIOUS

LEMMA ByteOfWord ==
    ASSUME NEW b \in Seq(Byte), Len(b) >= 4
    PROVE  b[1] \in Byte /\ b[2] \in Byte /\ b[3] \in Byte /\ b[4] \in Byte
  <1>1. Len(b) \in Nat
    BY LenProperties
  <1>2. 1 \in 1 .. Len(b) /\ 2 \in 1 .. Len(b) /\ 3 \in 1 .. Len(b) /\ 4 \in 1 .. Len(b)
    BY <1>1
  <1> QED
    BY <1>2, ElementOfSeq

(* REQUESTED-TRANSPORT: the first byte.                                      *)
LEMMA TransportSound == Sound("RequestedTransport")
  <1> DEFINE k == "RequestedTransport"
  <1>1. ASSUME NEW v
        PROVE  /\ PlainBody(Attr(k, v)) = <<v, 0, 0, 0>>
               /\ Legal(Attr(k, v)) <=> v \in Byte
    BY BodyArms, LegalArms DEF TransportBody
  <1>2. ASSUME NEW b
        PROVE  PlainDecode(k, b) = IF Len(b) = 4 THEN Attr(k, b[1]) ELSE Nothing
    BY DecodeArms DEF DecodeTransport
  <1>3. PlainValues(k) = Byte
    BY ValueArms
  <1> HIDE DEF k
  <1>4. \A b \in Seq(Byte) :
          \/ PlainDecode(k, b) = Nothing
          \/ /\ PlainDecode(k, b) \in [kind : {k}, value : Byte]
             /\ Legal(PlainDecode(k, b))
    <2> TAKE b \in Seq(Byte)
    <2> SUFFICES ASSUME Len(b) = 4
                 PROVE  /\ Attr(k, b[1]) \in [kind : {k}, value : Byte]
                        /\ Legal(Attr(k, b[1]))
      BY <1>2
    <2>1. b[1] \in Byte
      BY ByteOfWord
    <2> QED
      BY <1>1, <2>1 DEF Attr
  <1>5. \A v \in Byte :
          /\ PlainBody(Attr(k, v)) \in Seq(Byte)
          /\ PlainDecode(k, PlainBody(Attr(k, v))) = Attr(k, v)
    <2> TAKE v \in Byte
    <2>1. <<v, 0, 0, 0>> \in Seq(Byte) /\ Len(<<v, 0, 0, 0>>) = 4 /\ <<v, 0, 0, 0>>[1] = v
      BY ByteRange
    <2> QED
      BY <1>1, <1>2, <2>1
  <1>6. Sound(k)
    BY <1>3, <1>4, <1>5 DEF Sound
  <1> QED
    BY <1>6 DEF k

(* EVEN-PORT: the R bit.                                                     *)
LEMMA EvenPortSound == Sound("EvenPort")
  <1> DEFINE k == "EvenPort"
  <1>1. ASSUME NEW v
        PROVE  /\ PlainBody(Attr(k, v)) = IF v THEN <<128>> ELSE <<0>>
               /\ Legal(Attr(k, v)) <=> v \in BOOLEAN
    BY BodyArms, LegalArms DEF EvenPortBody
  <1>2. ASSUME NEW b
        PROVE  PlainDecode(k, b) = IF Len(b) >= 1 THEN Attr(k, b[1] >= 128) ELSE Nothing
    BY DecodeArms DEF DecodeEvenPort
  <1>3. PlainValues(k) = BOOLEAN
    BY ValueArms
  <1> HIDE DEF k
  <1>4. \A b \in Seq(Byte) :
          \/ PlainDecode(k, b) = Nothing
          \/ /\ PlainDecode(k, b) \in [kind : {k}, value : BOOLEAN]
             /\ Legal(PlainDecode(k, b))
    <2> TAKE b \in Seq(Byte)
    <2> SUFFICES ASSUME Len(b) >= 1
                 PROVE  /\ Attr(k, b[1] >= 128) \in [kind : {k}, value : BOOLEAN]
                        /\ Legal(Attr(k, b[1] >= 128))
      BY <1>2
    <2>1. (b[1] >= 128) \in BOOLEAN
      OBVIOUS
    <2> QED
      BY <1>1, <2>1 DEF Attr
  <1>5. \A v \in BOOLEAN :
          /\ PlainBody(Attr(k, v)) \in Seq(Byte)
          /\ PlainDecode(k, PlainBody(Attr(k, v))) = Attr(k, v)
    <2>1. ASSUME NEW n \in Byte
          PROVE  <<n>> \in Seq(Byte) /\ Len(<<n>>) = 1 /\ Len(<<n>>) >= 1
      OBVIOUS
    <2>0. 128 \in Byte /\ 0 \in Byte
      BY ByteRange
    <2>2. /\ PlainBody(Attr(k, TRUE)) = <<128>> /\ PlainBody(Attr(k, FALSE)) = <<0>>
      BY <1>1
    <2>3. (<<128>>[1] >= 128) = TRUE /\ (<<0>>[1] >= 128) = FALSE
      OBVIOUS
    <2>4. PlainDecode(k, <<128>>) = Attr(k, TRUE) /\ PlainDecode(k, <<0>>) = Attr(k, FALSE)
      BY <1>2, <2>0, <2>1, <2>3
    <2> QED
      BY <2>0, <2>1, <2>2, <2>4
  <1>6. Sound(k)
    BY <1>3, <1>4, <1>5 DEF Sound
  <1> QED
    BY <1>6 DEF k

(* The padding of a value.                                                   *)
LEMMA ZerosAreBytes ==
    ASSUME NEW n \in Nat
    PROVE  /\ Zeros(n) \in Seq(Byte) /\ Len(Zeros(n)) = n
           /\ \A i \in 1 .. n : Zeros(n)[i] = 0
  <1>1. Zeros(n) \in [1 .. n -> Byte]
    BY ByteRange DEF Zeros
  <1> QED
    BY <1>1, BytesAreSeq DEF Zeros, Bytes

(* The address families: the first byte, and three zeros.                    *)
LEMMA FamilySound ==
    ASSUME NEW k \in AddressFamily
    PROVE  Sound(k)
  <1>1. ASSUME NEW v
        PROVE  /\ PlainBody(Attr(k, v)) = <<v, 0, 0, 0>>
               /\ Legal(Attr(k, v)) <=> v \in Byte
    BY WordArms DEF FamilyBody
  <1>2. ASSUME NEW b
        PROVE  PlainDecode(k, b) =
                 IF Len(b) = 4 /\ SubSeq(b, 2, 4) = Zeros(3) THEN Attr(k, b[1]) ELSE Nothing
    BY WordArms DEF DecodeFamily
  <1>3. PlainValues(k) = Byte
    BY WordArms
  <1>4. \A b \in Seq(Byte) :
          \/ PlainDecode(k, b) = Nothing
          \/ /\ PlainDecode(k, b) \in [kind : {k}, value : Byte]
             /\ Legal(PlainDecode(k, b))
    <2> TAKE b \in Seq(Byte)
    <2> SUFFICES ASSUME Len(b) = 4
                 PROVE  /\ Attr(k, b[1]) \in [kind : {k}, value : Byte]
                        /\ Legal(Attr(k, b[1]))
      BY <1>2
    <2>1. b[1] \in Byte
      BY ByteOfWord
    <2> QED
      BY <1>1, <2>1 DEF Attr
  <1>5. \A v \in Byte :
          /\ PlainBody(Attr(k, v)) \in Seq(Byte)
          /\ PlainDecode(k, PlainBody(Attr(k, v))) = Attr(k, v)
    <2> TAKE v \in Byte
    <2> DEFINE b == <<v, 0, 0, 0>>
               s == SubSeq(b, 2, 4)
    <2>1. /\ b \in Seq(Byte) /\ Len(b) = 4
          /\ b[1] = v /\ b[2] = 0 /\ b[3] = 0 /\ b[4] = 0
      BY ByteRange
    <2> HIDE DEF b
    <2>2. /\ s \in Seq(Byte) /\ Len(s) = 3 /\ \A i \in 1 .. 3 : s[i] = b[2 + i - 1]
      <3>1. 2 \in Nat /\ 4 \in Nat /\ 1 <= 2 /\ 4 <= Len(b)
        BY <2>1
      <3>2. /\ s \in Seq(Byte)
            /\ Len(s) = IF 2 <= 4 THEN 4 - 2 + 1 ELSE 0
            /\ \A i \in 1 .. 4 - 2 + 1 : s[i] = b[2 + i - 1]
        BY <2>1, <3>1, PartOfBytes
      <3>3. 4 - 2 + 1 = 3
        OBVIOUS
      <3> HIDE DEF s
      <3> QED
        BY <3>2, <3>3
    <2> HIDE DEF s
    <2>3. s[1] = 0 /\ s[2] = 0 /\ s[3] = 0
      BY <2>1, <2>2
    <2>4. s = Zeros(3)
      <3>1. /\ Zeros(3) \in Seq(Byte) /\ Len(Zeros(3)) = 3
            /\ \A i \in 1 .. 3 : Zeros(3)[i] = 0
        BY ZerosAreBytes
      <3>2. \A i \in 1 .. 3 : s[i] = 0
        BY <2>3
      <3> QED
        BY <2>2, <3>1, <3>2, SeqEqual
    <2> QED
      BY <1>1, <1>2, <2>1, <2>4 DEF b, s
  <1> QED
    BY <1>3, <1>4, <1>5 DEF Sound

(* CHANNEL-NUMBER: 16 bits in the range of channels, and 16 zeros.           *)
LEMMA ChannelSound == Sound("ChannelNumber")
  <1> DEFINE k == "ChannelNumber"
  <1>1. ASSUME NEW v
        PROVE  /\ PlainBody(Attr(k, v)) = WriteBE16(v) \o Zeros(2)
               /\ Legal(Attr(k, v)) <=> v \in ChannelNumbers
    BY BodyArms, LegalArms DEF ChannelBody
  <1>2. ASSUME NEW b
        PROVE  PlainDecode(k, b) =
                 IF Len(b) = 4 /\ ReadBE16(b, 1) \in ChannelNumbers /\ ReadBE16(b, 3) = 0
                   THEN Attr(k, ReadBE16(b, 1)) ELSE Nothing
    BY DecodeArms DEF DecodeChannel
  <1>3. PlainValues(k) = UInt16
    BY ValueArms
  <1> HIDE DEF k
  <1>4. \A b \in Seq(Byte) :
          \/ PlainDecode(k, b) = Nothing
          \/ /\ PlainDecode(k, b) \in [kind : {k}, value : UInt16]
             /\ Legal(PlainDecode(k, b))
    <2> TAKE b \in Seq(Byte)
    <2> SUFFICES ASSUME Len(b) = 4, ReadBE16(b, 1) \in ChannelNumbers
                 PROVE  /\ Attr(k, ReadBE16(b, 1)) \in [kind : {k}, value : UInt16]
                        /\ Legal(Attr(k, ReadBE16(b, 1)))
      BY <1>2
    <2>1. ReadBE16(b, 1) \in UInt16
      <3>1. 1 \in Nat /\ 1 <= 1 /\ 1 + 1 <= Len(b)
        OBVIOUS
      <3> QED
        BY <3>1, ReadBE16Range
    <2> QED
      BY <1>1, <2>1 DEF Attr
  <1>5. ASSUME NEW v \in UInt16
        PROVE  LET b == WriteBE16(v) \o Zeros(2)
               IN  /\ b \in Seq(Byte) /\ Len(b) = 4
                   /\ ReadBE16(b, 1) = v /\ ReadBE16(b, 3) = 0
    <2> DEFINE w == WriteBE16(v)
               z == Zeros(2)
               b == w \o z
    <2>1. /\ w \in Seq(Byte) /\ Len(w) = 2 /\ w[1] * 256 + w[2] = v
      BY BytesOfBE16
    <2>2. z \in Seq(Byte) /\ Len(z) = 2 /\ z[1] = 0 /\ z[2] = 0
      <3>1. z \in Seq(Byte) /\ Len(z) = 2 /\ \A i \in 1 .. 2 : z[i] = 0
        BY ZerosAreBytes
      <3>2. 1 \in 1 .. 2 /\ 2 \in 1 .. 2
        OBVIOUS
      <3> HIDE DEF z
      <3> QED
        BY <3>1, <3>2
    <2> HIDE DEF w, z
    <2>3. /\ b \in Seq(Byte) /\ Len(b) = Len(w) + Len(z)
          /\ \A i \in 1 .. Len(w) + Len(z) : b[i] =
                IF i <= Len(w) THEN w[i] ELSE z[i - Len(w)]
      BY <2>1, <2>2, ConcatProperties
    <2> HIDE DEF b
    <2>4. Len(b) = 4 /\ b[1] = w[1] /\ b[2] = w[2] /\ b[3] = 0 /\ b[4] = 0
      BY <2>1, <2>2, <2>3
    <2>5. ReadBE16(b, 1) = v /\ ReadBE16(b, 3) = 0
      BY <2>1, <2>4 DEF ReadBE16
    <2> QED
      BY <2>3, <2>4, <2>5 DEF w, z, b
  <1>6. \A v \in UInt16 :
          /\ PlainBody(Attr(k, v)) \in Seq(Byte)
          /\ PlainDecode(k, PlainBody(Attr(k, v))) =
                IF v \in ChannelNumbers THEN Attr(k, v) ELSE Nothing
    <2> TAKE v \in UInt16
    <2> DEFINE b == WriteBE16(v) \o Zeros(2)
    <2>1. b \in Seq(Byte) /\ Len(b) = 4 /\ ReadBE16(b, 1) = v /\ ReadBE16(b, 3) = 0
      BY <1>5
    <2>2. PlainBody(Attr(k, v)) = b
      BY <1>1
    <2> HIDE DEF b
    <2> QED
      BY <1>2, <2>1, <2>2
  <1>7. Sound(k)
    BY <1>1, <1>3, <1>4, <1>6 DEF Sound
  <1> QED
    BY <1>7 DEF k

-----------------------------------------------------------------------------
(* The error codes. *)

(* The class and the number of a code. *)
LEMMA CodeParts ==
    ASSUME NEW code \in UInt16
    PROVE  /\ ClassOf(code) \in 0 .. 7 /\ code % 100 \in 0 .. 99
           /\ code \in ErrorCodes => ClassOf(code) * 100 + (code % 100) = code
  <1>1. code \in Nat
    BY UInt16Range
  <1>2. ClassOf(code) \in 0 .. 7 /\ code % 100 \in 0 .. 99
    BY <1>1 DEF ClassOf
  <1>3. ASSUME code \in ErrorCodes
        PROVE  ClassOf(code) * 100 + (code % 100) = code
    <2>1. code \div 100 \in 3 .. 6
      BY <1>3 DEF ErrorCodes
    <2>2. (code \div 100) % 8 = code \div 100
      BY <2>1
    <2>3. (code \div 100) * 100 + (code % 100) = code
      BY <1>1
    <2> QED
      BY <2>2, <2>3 DEF ClassOf
  <1> QED
    BY <1>2, <1>3

(* A class and a number that are accepted make a code.                       *)
LEMMA CodeOfParts ==
    ASSUME NEW cls \in 3 .. 6, NEW num \in 0 .. 99
    PROVE  /\ cls * 100 + num \in UInt16 /\ cls * 100 + num \in ErrorCodes
           /\ ClassOf(cls * 100 + num) = cls
           /\ (cls * 100 + num) % 100 = num
  <1>1. cls * 100 + num \in Nat /\ cls * 100 + num <= 699 /\ cls * 100 + num >= 300
    OBVIOUS
  <1>2. (cls * 100 + num) \div 100 = cls /\ (cls * 100 + num) % 100 = num
    OBVIOUS
  <1>3. cls % 8 = cls
    OBVIOUS
  <1> QED
    BY <1>1, <1>2, <1>3, UInt16Range DEF ErrorCodes, ClassOf, MaxUInt16

(* The reason phrase.                                                        *)
LEMMA TailOfBytes ==
    ASSUME NEW b \in Seq(Byte), Len(b) >= 4
    PROVE  From(b, 5) \in Seq(Byte)
  <1>1. Len(b) \in Nat
    BY LenProperties
  <1> QED
    BY <1>1, PartOfBytes DEF From

(* The four bytes before the reason phrase. *)
LEMMA HeadOfError ==
    ASSUME NEW h1 \in Byte, NEW h2 \in Byte, NEW h3 \in Byte, NEW h4 \in Byte,
           NEW reason \in Seq(Byte)
    PROVE  LET b == <<h1, h2, h3, h4>> \o reason
           IN  /\ b \in Seq(Byte) /\ Len(b) >= 4
               /\ b[1] = h1 /\ b[3] = h3 /\ b[4] = h4 /\ From(b, 5) = reason
  <1> DEFINE w == <<h1, h2, h3, h4>>
  <1>1. /\ w \in Seq(Byte) /\ Len(w) = 4
        /\ w[1] = h1 /\ w[2] = h2 /\ w[3] = h3 /\ w[4] = h4
    BY WordParts
  <1> HIDE DEF w
  <1> DEFINE b == w \o reason
  <1>a. b = w \o reason
    OBVIOUS
  <1> HIDE DEF b
  <1>2. /\ b \in Seq(Byte) /\ Len(b) >= 4
        /\ b[1] = w[1] /\ b[3] = w[3] /\ b[4] = w[4] /\ From(b, 5) = reason
    BY <1>a, <1>1, HeadAndTail
  <1> QED
    BY <1>1, <1>2 DEF w, b

(* The class in three bits of a byte, the low ones or the high ones. *)
LEMMA ThreeBits ==
    ASSUME NEW cls \in 0 .. 7
    PROVE  /\ cls \in Byte /\ cls % 8 = cls
           /\ cls * 32 \in Byte /\ (cls * 32) \div 32 = cls
  <1>1. cls % 8 = cls
    OBVIOUS
  <1>2. (cls * 32) \div 32 = cls
    OBVIOUS
  <1>3. cls \in Nat /\ cls <= 255
    OBVIOUS
  <1>4. cls * 32 \in Nat /\ cls * 32 <= 255
    OBVIOUS
  <1>5. cls \in Byte /\ cls * 32 \in Byte
    BY <1>3, <1>4, ByteRange
  <1> QED
    BY <1>1, <1>2, <1>5

LEMMA SmallByte ==
    ASSUME NEW m \in Byte, m <= 99
    PROVE  m \in 0 .. 99
  BY DEF Byte

LEMMA ErrorRange ==
    ASSUME NEW code \in ErrorCodes
    PROVE  code >= 300 /\ code <= 699
  BY DEF ErrorCodes

(* ERROR-CODE: the class and the number, whatever bits are lost of an        *)
(* illegal code.                                                             *)
LEMMA ErrorSound == Sound("ErrorCode")
  <1> DEFINE k == "ErrorCode"
             V == [code : UInt16, reason : Seq(Byte)]
             w(c, r) == [code |-> c, reason |-> r]
             back(b) == w((b[3] % 8) * 100 + b[4], From(b, 5))
  <1>1. ASSUME NEW v
        PROVE  /\ PlainBody(Attr(k, v)) = <<0, 0, ClassOf(v.code), v.code % 100>> \o v.reason
               /\ Legal(Attr(k, v)) <=> v.code \in ErrorCodes
    BY BodyArms, LegalArms DEF ErrorBody
  <1>2. ASSUME NEW b
        PROVE  PlainDecode(k, b) =
                 IF Len(b) >= 4 /\ b[3] % 8 \in 3 .. 6 /\ b[4] <= 99
                   THEN Attr(k, back(b)) ELSE Nothing
    BY DecodeArms DEF DecodeError, ClassOK
  <1>3. PlainValues(k) = V
    BY ValueArms
  <1> HIDE DEF k
  <1>4. \A b \in Seq(Byte) :
          \/ PlainDecode(k, b) = Nothing
          \/ /\ PlainDecode(k, b) \in [kind : {k}, value : V]
             /\ Legal(PlainDecode(k, b))
    <2> TAKE b \in Seq(Byte)
    <2> SUFFICES ASSUME Len(b) >= 4, b[3] % 8 \in 3 .. 6, b[4] <= 99
                 PROVE  /\ Attr(k, back(b)) \in [kind : {k}, value : V]
                        /\ Legal(Attr(k, back(b)))
      BY <1>2
    <2> DEFINE c == b[3] % 8
               m == b[4]
               r == From(b, 5)
    <2>1. c \in 3 .. 6 /\ m \in 0 .. 99 /\ r \in Seq(Byte)
      <3>1. b[4] \in Byte
        BY ByteOfWord
      <3>2. r \in Seq(Byte)
        BY TailOfBytes
      <3>3. m \in 0 .. 99
        BY <3>1, SmallByte
      <3> QED
        BY <3>1, <3>2, <3>3
    <2> HIDE DEF c, m, r
    <2>2. c * 100 + m \in UInt16 /\ c * 100 + m \in ErrorCodes
      BY <2>1, CodeOfParts
    <2>3. back(b) = w(c * 100 + m, r)
      BY DEF c, m, r
    <2>4. w(c * 100 + m, r) \in V /\ w(c * 100 + m, r).code = c * 100 + m
      BY <2>1, <2>2
    <2> HIDE DEF back, w, V
    <2> QED
      BY <1>1, <2>2, <2>3, <2>4 DEF Attr
  <1>5. ASSUME NEW v \in V
        PROVE  LET b == PlainBody(Attr(k, v))
               IN  /\ b \in Seq(Byte)
                   /\ Legal(Attr(k, v)) => PlainDecode(k, b) = Attr(k, v)
                   /\ PlainDecode(k, b) = Nothing \/ PlainBody(PlainDecode(k, b)) = b
    <2> DEFINE cls == ClassOf(v.code)
               num == v.code % 100
               reason == v.reason
               b == <<0, 0, cls, num>> \o reason
    <2>1. /\ v.code \in UInt16 /\ reason \in Seq(Byte) /\ v = w(v.code, reason)
      OBVIOUS
    <2>2. /\ cls \in 0 .. 7 /\ num \in 0 .. 99
          /\ v.code \in ErrorCodes => cls * 100 + num = v.code
      BY <2>1, CodeParts
    <2>3. PlainBody(Attr(k, v)) = b
      BY <1>1
    <2> HIDE DEF cls, num, reason
    <2>4. cls \in Byte /\ num \in Byte /\ 0 \in Byte /\ cls % 8 = cls
      <3>1. num \in Byte /\ 0 \in Byte
        BY <2>2 DEF Byte
      <3>2. cls \in Byte /\ cls % 8 = cls
        BY <2>2, ThreeBits
      <3> QED
        BY <3>1, <3>2
    <2>5. /\ b \in Seq(Byte) /\ Len(b) >= 4
          /\ b[3] = cls /\ b[4] = num /\ From(b, 5) = reason
      BY <2>1, <2>4, HeadOfError
    <2> DEFINE x == w(cls * 100 + num, reason)
    <2>6. PlainDecode(k, b) = IF cls \in 3 .. 6 THEN Attr(k, x) ELSE Nothing
      <3>1. num <= 99
        BY <2>2
      <3> HIDE DEF b
      <3> QED
        BY <1>2, <3>1, <2>4, <2>5
    <2>7. cls \in 3 .. 6 => PlainBody(Attr(k, x)) = b
      <3> SUFFICES ASSUME cls \in 3 .. 6
                   PROVE  PlainBody(Attr(k, x)) = b
        OBVIOUS
      <3>1. /\ ClassOf(cls * 100 + num) = cls
            /\ (cls * 100 + num) % 100 = num
        BY <2>2, CodeOfParts
      <3>2. x.code = cls * 100 + num /\ x.reason = reason
        OBVIOUS
      <3> HIDE DEF x
      <3> QED
        BY <1>1, <3>1, <3>2
    <2>8. v.code \in ErrorCodes => cls \in 3 .. 6 /\ x = v
      <3> SUFFICES ASSUME v.code \in ErrorCodes
                   PROVE  cls \in 3 .. 6 /\ x = v
        OBVIOUS
      <3>1. cls * 100 + num = v.code
        BY <2>2
      <3>2. cls * 100 + num >= 300 /\ cls * 100 + num <= 699
        <4>1. v.code >= 300 /\ v.code <= 699
          BY ErrorRange
        <4> QED
          BY <3>1, <4>1
      <3>3. cls \in 3 .. 6
        BY <3>2, <2>2
      <3> QED
        BY <3>1, <3>3, <2>1
    <2> HIDE DEF b, x
    <2> QED
      BY <1>1, <2>3, <2>5, <2>6, <2>7, <2>8
  <1>6. \A v \in V :
          /\ PlainBody(Attr(k, v)) \in Seq(Byte)
          /\ Legal(Attr(k, v)) => PlainDecode(k, PlainBody(Attr(k, v))) = Attr(k, v)
          /\ \/ PlainDecode(k, PlainBody(Attr(k, v))) = Nothing
             \/ PlainBody(PlainDecode(k, PlainBody(Attr(k, v)))) = PlainBody(Attr(k, v))
    BY <1>5
  <1> HIDE DEF V
  <1>7. Sound(k)
    BY <1>3, <1>4, <1>6 DEF Sound
  <1> QED
    BY <1>7 DEF k

(* ADDRESS-ERROR-CODE: the family, the class and the number.                 *)
LEMMA AddressErrorSound == Sound("AddressErrorCode")
  <1> DEFINE k == "AddressErrorCode"
             V == [family : Byte, code : UInt16, reason : Seq(Byte)]
             w(f, c, r) == [family |-> f, code |-> c, reason |-> r]
             back(b) == w(b[1], (b[3] \div 32) * 100 + b[4], From(b, 5))
             Right(f, c) == f \in {IPv4, IPv6} /\ c \in {440, 508}
  <1>1. ASSUME NEW v
        PROVE  /\ PlainBody(Attr(k, v)) =
                    <<v.family, 0, ClassOf(v.code) * 32, v.code % 100>> \o v.reason
               /\ Legal(Attr(k, v)) <=> Right(v.family, v.code)
    <2>1. PlainBody(Attr(k, v)) =
            <<v.family, 0, ClassOf(v.code) * 32, v.code % 100>> \o v.reason
      BY BodyArms DEF AddressErrorBody
    <2>2. Legal(Attr(k, v)) <=> Right(v.family, v.code)
      BY LegalArms
    <2> QED
      BY <2>1, <2>2
  <1>2. ASSUME NEW b
        PROVE  PlainDecode(k, b) =
                 IF /\ Len(b) >= 4 /\ b[3] \div 32 \in 3 .. 6 /\ b[4] <= 99
                    /\ Right(b[1], (b[3] \div 32) * 100 + b[4])
                   THEN Attr(k, back(b)) ELSE Nothing
    BY DecodeArms DEF DecodeAddressError, ClassOK, AddressErrorCodes
  <1>3. PlainValues(k) = V
    BY ValueArms
  <1> HIDE DEF k
  <1>4. \A b \in Seq(Byte) :
          \/ PlainDecode(k, b) = Nothing
          \/ /\ PlainDecode(k, b) \in [kind : {k}, value : V]
             /\ Legal(PlainDecode(k, b))
    <2> TAKE b \in Seq(Byte)
    <2> SUFFICES ASSUME Len(b) >= 4, b[3] \div 32 \in 3 .. 6, b[4] <= 99,
                        Right(b[1], (b[3] \div 32) * 100 + b[4])
                 PROVE  /\ Attr(k, back(b)) \in [kind : {k}, value : V]
                        /\ Legal(Attr(k, back(b)))
      BY <1>2
    <2> DEFINE f == b[1]
               c == b[3] \div 32
               m == b[4]
               r == From(b, 5)
    <2>1. f \in Byte /\ c \in 3 .. 6 /\ m \in 0 .. 99 /\ r \in Seq(Byte)
      <3>1. b[1] \in Byte /\ b[4] \in Byte
        BY ByteOfWord
      <3>2. r \in Seq(Byte)
        BY TailOfBytes
      <3>3. m \in 0 .. 99
        BY <3>1, SmallByte
      <3> QED
        BY <3>1, <3>2, <3>3
    <2>a. Right(f, c * 100 + m)
      OBVIOUS
    <2> HIDE DEF f, c, m, r
    <2>2. c * 100 + m \in UInt16
      BY <2>1, CodeOfParts
    <2>3. back(b) = w(f, c * 100 + m, r)
      BY DEF f, c, m, r
    <2>4. /\ w(f, c * 100 + m, r) \in V
          /\ w(f, c * 100 + m, r).code = c * 100 + m
          /\ w(f, c * 100 + m, r).family = f
      BY <2>1, <2>2
    <2> HIDE DEF back, w, V, Right
    <2> QED
      BY <1>1, <2>a, <2>3, <2>4 DEF Attr
  <1>5. ASSUME NEW v \in V
        PROVE  LET b == PlainBody(Attr(k, v))
               IN  /\ b \in Seq(Byte)
                   /\ Legal(Attr(k, v)) => PlainDecode(k, b) = Attr(k, v)
                   /\ PlainDecode(k, b) = Nothing \/ PlainBody(PlainDecode(k, b)) = b
    <2> DEFINE family == v.family
               cls == ClassOf(v.code)
               num == v.code % 100
               reason == v.reason
               high == cls * 32
               b == <<family, 0, high, num>> \o reason
    <2>1. /\ family \in Byte /\ v.code \in UInt16 /\ reason \in Seq(Byte)
          /\ v = w(family, v.code, reason)
      OBVIOUS
    <2>2. /\ cls \in 0 .. 7 /\ num \in 0 .. 99
          /\ v.code \in ErrorCodes => cls * 100 + num = v.code
      BY <2>1, CodeParts
    <2>3. PlainBody(Attr(k, v)) = b
      BY <1>1
    <2> HIDE DEF cls, num, reason, family
    <2>4. high \in Byte /\ num \in Byte /\ 0 \in Byte /\ high \div 32 = cls
      BY <2>2, ThreeBits DEF Byte
    <2> HIDE DEF high
    <2>5. /\ b \in Seq(Byte) /\ Len(b) >= 4 /\ b[1] = family
          /\ b[3] = high /\ b[4] = num /\ From(b, 5) = reason
      BY <2>1, <2>4, HeadOfError
    <2> DEFINE code == cls * 100 + num
               x == w(family, code, reason)
    <2>6. PlainDecode(k, b) =
            IF cls \in 3 .. 6 /\ Right(family, code) THEN Attr(k, x) ELSE Nothing
      <3>1. num <= 99
        BY <2>2
      <3> HIDE DEF b, Right
      <3> QED
        BY <1>2, <3>1, <2>4, <2>5
    <2>7. cls \in 3 .. 6 => PlainBody(Attr(k, x)) = b
      <3> SUFFICES ASSUME cls \in 3 .. 6
                   PROVE  PlainBody(Attr(k, x)) = b
        OBVIOUS
      <3>1. ClassOf(code) = cls /\ code % 100 = num
        BY <2>2, CodeOfParts
      <3>2. x.code = code /\ x.reason = reason /\ x.family = family
        OBVIOUS
      <3> HIDE DEF x, code
      <3> QED
        BY <1>1, <3>1, <3>2 DEF high
    <2>8. Right(family, v.code) => cls \in 3 .. 6 /\ x = v /\ code = v.code
      <3> SUFFICES ASSUME v.code \in {440, 508}
                   PROVE  cls \in 3 .. 6 /\ x = v /\ code = v.code
        OBVIOUS
      <3>0. v.code \in ErrorCodes
        BY DEF ErrorCodes
      <3>1. cls * 100 + num = v.code
        BY <2>2, <3>0
      <3>2. cls \in 3 .. 6
        BY <3>1, <2>2
      <3> QED
        BY <3>1, <3>2, <2>1
    <2>9. Legal(Attr(k, v)) <=> Right(family, v.code)
      BY <1>1 DEF family
    <2> HIDE DEF b, x, code, Right
    <2> QED
      BY <2>3, <2>5, <2>6, <2>7, <2>8, <2>9
  <1>6. \A v \in V :
          /\ PlainBody(Attr(k, v)) \in Seq(Byte)
          /\ Legal(Attr(k, v)) => PlainDecode(k, PlainBody(Attr(k, v))) = Attr(k, v)
          /\ \/ PlainDecode(k, PlainBody(Attr(k, v))) = Nothing
             \/ PlainBody(PlainDecode(k, PlainBody(Attr(k, v)))) = PlainBody(Attr(k, v))
    BY <1>5
  <1> HIDE DEF V
  <1>7. Sound(k)
    BY <1>3, <1>4, <1>6 DEF Sound
  <1> QED
    BY <1>7 DEF k

-----------------------------------------------------------------------------
(* UNKNOWN-ATTRIBUTES. *)

(* UNKNOWN-ATTRIBUTES: the types and their bytes. *)
LEMMA TypesOfBytes ==
    ASSUME NEW b \in Seq(Byte), Len(b) % 2 = 0
    PROVE  [i \in 1 .. Len(b) \div 2 |-> ReadBE16(b, 2 * i - 1)] \in Seq(UInt16)
  <1> DEFINE n == Len(b)
             h == n \div 2
  <1>1. n \in Nat
    BY LenProperties
  <1> HIDE DEF n
  <1>2. h \in Nat /\ 2 * h = n
    BY <1>1 DEF n
  <1>3. ASSUME NEW i \in 1 .. h
        PROVE  ReadBE16(b, 2 * i - 1) \in UInt16
    <2>1. 2 * i - 1 \in Nat /\ 1 <= 2 * i - 1 /\ (2 * i - 1) + 1 <= n
      BY <1>2
    <2> QED
      BY <2>1, ReadBE16Range DEF n
  <1> HIDE DEF h
  <1>4. [i \in 1 .. h |-> ReadBE16(b, 2 * i - 1)] \in [1 .. h -> UInt16]
    BY <1>3
  <1>5. [i \in 1 .. h |-> ReadBE16(b, 2 * i - 1)] \in Seq(UInt16)
    BY <1>2, <1>4
  <1> QED
    BY <1>5 DEF h, n

LEMMA BytesOfTypes ==
    ASSUME NEW types \in Seq(UInt16)
    PROVE  LET b == UnknownBody(types)
           IN  /\ b \in Seq(Byte) /\ Len(b) = 2 * Len(types)
               /\ \A i \in 1 .. Len(types) : ReadBE16(b, 2 * i - 1) = types[i]
  <1> DEFINE n == Len(types)
             b == UnknownBody(types)
             e(i) == WriteBE16(types[(i + 1) \div 2])[IF i % 2 = 1 THEN 1 ELSE 2]
  <1>1. n \in Nat
    BY LenProperties
  <1>2. b = [i \in 1 .. 2 * n |-> e(i)]
    BY DEF UnknownBody
  <1> HIDE DEF b
  <1>3. ASSUME NEW i \in 1 .. n
        PROVE  /\ types[i] \in UInt16
               /\ e(2 * i - 1) = WriteBE16(types[i])[1]
               /\ e(2 * i) = WriteBE16(types[i])[2]
               /\ 2 * i - 1 \in 1 .. 2 * n /\ 2 * i \in 1 .. 2 * n
    <2>1. types[i] \in UInt16
      BY ElementOfSeq
    <2>2. /\ ((2 * i - 1) + 1) \div 2 = i /\ (2 * i + 1) \div 2 = i
          /\ (2 * i - 1) % 2 = 1 /\ (2 * i) % 2 = 0
          /\ 2 * i - 1 \in 1 .. 2 * n /\ 2 * i \in 1 .. 2 * n
      BY <1>1
    <2> QED
      BY <2>1, <2>2
  <1>4. ASSUME NEW j \in 1 .. 2 * n
        PROVE  e(j) \in Byte
    <2>1. \E i \in 1 .. n : j = 2 * i - 1 \/ j = 2 * i
      <3>1. (j + 1) \div 2 \in 1 .. n
        BY <1>1
      <3>2. j = 2 * ((j + 1) \div 2) - 1 \/ j = 2 * ((j + 1) \div 2)
        OBVIOUS
      <3> QED
        BY <3>1, <3>2
    <2>2. PICK i \in 1 .. n : j = 2 * i - 1 \/ j = 2 * i
      BY <2>1
    <2> HIDE DEF e
    <2>3. /\ types[i] \in UInt16
          /\ e(2 * i - 1) = WriteBE16(types[i])[1]
          /\ e(2 * i) = WriteBE16(types[i])[2]
      BY <1>3
    <2>4. WriteBE16(types[i])[1] \in Byte /\ WriteBE16(types[i])[2] \in Byte
      BY <2>3, BytesOfBE16
    <2> QED
      BY <2>2, <2>3, <2>4
  <1> HIDE DEF e
  <1>5. b \in Seq(Byte) /\ Len(b) = 2 * n
    <2>1. b \in [1 .. 2 * n -> Byte] /\ 2 * n \in Nat
      BY <1>1, <1>2, <1>4
    <2> QED
      BY <2>1, LenProperties
  <1>6. ASSUME NEW i \in 1 .. n
        PROVE  ReadBE16(b, 2 * i - 1) = types[i]
    <2>1. /\ types[i] \in UInt16
          /\ e(2 * i - 1) = WriteBE16(types[i])[1]
          /\ e(2 * i) = WriteBE16(types[i])[2]
          /\ 2 * i - 1 \in 1 .. 2 * n /\ 2 * i \in 1 .. 2 * n
      BY <1>3
    <2>2. b[2 * i - 1] = e(2 * i - 1) /\ b[2 * i] = e(2 * i)
      BY <1>2, <2>1
    <2>3. /\ WriteBE16(types[i])[1] = types[i] \div 256
          /\ WriteBE16(types[i])[2] = types[i] % 256
          /\ (types[i] \div 256) * 256 + (types[i] % 256) = types[i]
      BY <2>1, BytesOfBE16
    <2>4. (2 * i - 1) + 1 = 2 * i
      OBVIOUS
    <2>5. ReadBE16(b, 2 * i - 1) = b[2 * i - 1] * 256 + b[2 * i]
      BY <2>4 DEF ReadBE16
    <2> QED
      BY <2>1, <2>2, <2>3, <2>5
  <1> QED
    BY <1>5, <1>6 DEF b, n

(* UNKNOWN-ATTRIBUTES: as many types as pairs of bytes.                      *)
LEMMA UnknownSound == Sound("UnknownAttributes")
  <1> DEFINE k == "UnknownAttributes"
             V == Seq(UInt16)
             read(b) == [i \in 1 .. Len(b) \div 2 |-> ReadBE16(b, 2 * i - 1)]
  <1>1. ASSUME NEW v
        PROVE  PlainBody(Attr(k, v)) = UnknownBody(v)
    BY BodyArms
  <1>2. ASSUME NEW v
        PROVE  Legal(Attr(k, v)) <=> v \in V
    BY LegalArms
  <1>3. ASSUME NEW b
        PROVE  PlainDecode(k, b) = IF Len(b) % 2 = 0 THEN Attr(k, read(b)) ELSE Nothing
    BY DecodeArms DEF DecodeUnknown
  <1>4. PlainValues(k) = V
    BY ValueArms
  <1> HIDE DEF k, V
  <1>5. \A b \in Seq(Byte) :
          \/ PlainDecode(k, b) = Nothing
          \/ /\ PlainDecode(k, b) \in [kind : {k}, value : V]
             /\ Legal(PlainDecode(k, b))
    <2> TAKE b \in Seq(Byte)
    <2> SUFFICES ASSUME Len(b) % 2 = 0
                 PROVE  /\ Attr(k, read(b)) \in [kind : {k}, value : V]
                        /\ Legal(Attr(k, read(b)))
      BY <1>3
    <2>1. read(b) \in V
      BY TypesOfBytes DEF V
    <2> HIDE DEF read
    <2> QED
      BY <1>2, <2>1 DEF Attr
  <1>6. \A v \in V :
          /\ PlainBody(Attr(k, v)) \in Seq(Byte)
          /\ PlainDecode(k, PlainBody(Attr(k, v))) = Attr(k, v)
    <2> TAKE v \in V
    <2> DEFINE b == UnknownBody(v)
               n == Len(v)
    <2>1. /\ b \in Seq(Byte) /\ Len(b) = 2 * n
          /\ \A i \in 1 .. n : ReadBE16(b, 2 * i - 1) = v[i]
      BY BytesOfTypes DEF V
    <2>2. n \in Nat /\ v \in [1 .. n -> UInt16]
      BY LenProperties DEF V
    <2> HIDE DEF b, n
    <2>3. Len(b) % 2 = 0 /\ Len(b) \div 2 = n
      BY <2>1, <2>2
    <2>4. read(b) = v
      <3>1. read(b) = [i \in 1 .. n |-> ReadBE16(b, 2 * i - 1)]
        BY <2>3
      <3> HIDE DEF read
      <3> QED
        BY <2>1, <2>2, <3>1
    <2> HIDE DEF read
    <2>5. PlainBody(Attr(k, v)) = b
      BY <1>1 DEF b
    <2> QED
      BY <1>3, <2>1, <2>3, <2>4, <2>5
  <1> HIDE DEF read
  <1>7. Sound(k)
    BY <1>4, <1>5, <1>6 DEF Sound
  <1> QED
    BY <1>7 DEF k

-----------------------------------------------------------------------------
(* Password algorithms. *)

(* An entry of a password algorithm list, and its bytes. *)
LEMMA EntryParts ==
    ASSUME NEW e \in AlgorithmEntry
    PROVE  /\ e = [algorithm |-> e.algorithm, parameters |-> e.parameters]
           /\ e.algorithm \in UInt16 /\ e.parameters \in Seq(Byte)
           /\ Len(e.parameters) \in UInt16
  <1>1. /\ e \in [algorithm : UInt16, parameters : Seq(Byte)]
        /\ Len(e.parameters) <= MaxUInt16
    BY DEF AlgorithmEntry
  <1>2. Len(e.parameters) \in Nat
    BY <1>1, LenProperties
  <1>3. Len(e.parameters) \in UInt16
    BY <1>1, <1>2, UInt16Range
  <1> QED
    BY <1>1, <1>3

(* Bytes behind bytes.                                                       *)
LEMMA JoinedBytes ==
    ASSUME NEW s \in Seq(Byte), NEW t \in Seq(Byte)
    PROVE  /\ s \o t \in Seq(Byte) /\ Len(s \o t) = Len(s) + Len(t)
           /\ \A i \in 1 .. Len(s) : (s \o t)[i] = s[i]
           /\ \A i \in 1 .. Len(t) : (s \o t)[Len(s) + i] = t[i]
  <1>1. Len(s) \in Nat /\ Len(t) \in Nat
    BY LenProperties
  <1>2. /\ s \o t \in Seq(Byte) /\ Len(s \o t) = Len(s) + Len(t)
        /\ \A i \in 1 .. Len(s) + Len(t) : (s \o t)[i] =
              IF i <= Len(s) THEN s[i] ELSE t[i - Len(s)]
    BY ConcatProperties
  <1>3. \A i \in 1 .. Len(s) : (s \o t)[i] = s[i]
    BY <1>1, <1>2
  <1>4. ASSUME NEW i \in 1 .. Len(t)
        PROVE  (s \o t)[Len(s) + i] = t[i]
    <2>1. /\ Len(s) + i \in 1 .. Len(s) + Len(t) /\ ~(Len(s) + i <= Len(s))
          /\ (Len(s) + i) - Len(s) = i
      BY <1>1
    <2> QED
      BY <1>2, <2>1
  <1> QED
    BY <1>2, <1>3, <1>4

(* Where the algorithm, the length and the parameters are in the bytes of an *)
(* entry.                                                                    *)
LEMMA BytesOfEntry ==
    ASSUME NEW e \in AlgorithmEntry
    PROVE  LET w == EntryBytes(e)
               m == Len(e.parameters)
           IN  /\ w \in Seq(Byte) /\ Len(w) = 4 + Padded(m)
               /\ w[1] * 256 + w[2] = e.algorithm
               /\ w[3] * 256 + w[4] = m
               /\ \A j \in 1 .. m : w[4 + j] = e.parameters[j]
  <1> DEFINE p == e.parameters
             m == Len(p)
             a == WriteBE16(e.algorithm)
             l == WriteBE16(m)
             z == Zeros(Padded(m) - m)
             w == EntryBytes(e)
  <1>1. /\ e.algorithm \in UInt16 /\ p \in Seq(Byte) /\ m \in UInt16 /\ m \in Nat
    BY EntryParts, UInt16Range
  <1>2. w = ((a \o l) \o p) \o z
    BY DEF EntryBytes
  <1>3. /\ a \in Seq(Byte) /\ Len(a) = 2 /\ a[1] * 256 + a[2] = e.algorithm
        /\ l \in Seq(Byte) /\ Len(l) = 2 /\ l[1] * 256 + l[2] = m
    BY <1>1, BytesOfBE16
  <1>4. z \in Seq(Byte) /\ Len(z) = Padded(m) - m /\ Padded(m) \in Nat
    <2>1. Padded(m) \in Nat /\ m <= Padded(m)
      BY <1>1, PaddedBounds
    <2>2. Padded(m) - m \in Nat
      BY <1>1, <2>1
    <2> QED
      BY <2>1, <2>2, ZerosAreBytes
  <1> HIDE DEF p, m, a, l, z, w
  <1>5. /\ a \o l \in Seq(Byte) /\ Len(a \o l) = 4
        /\ (a \o l)[1] = a[1] /\ (a \o l)[2] = a[2]
        /\ (a \o l)[3] = l[1] /\ (a \o l)[4] = l[2]
    <2>1. /\ a \o l \in Seq(Byte) /\ Len(a \o l) = Len(a) + Len(l)
          /\ \A i \in 1 .. Len(a) : (a \o l)[i] = a[i]
          /\ \A i \in 1 .. Len(l) : (a \o l)[Len(a) + i] = l[i]
      BY <1>3, JoinedBytes
    <2>2. 1 \in 1 .. 2 /\ 2 \in 1 .. 2 /\ 2 + 1 = 3 /\ 2 + 2 = 4
      OBVIOUS
    <2> QED
      BY <1>3, <2>1, <2>2
  <1> DEFINE h == a \o l
  <1> HIDE DEF h
  <1>6. /\ h \in Seq(Byte) /\ Len(h) = 4
        /\ h[1] * 256 + h[2] = e.algorithm /\ h[3] * 256 + h[4] = m
    BY <1>3, <1>5 DEF h
  <1> DEFINE hp == h \o p
  <1>7. /\ hp \in Seq(Byte) /\ Len(hp) = 4 + m
        /\ \A i \in 1 .. 4 : hp[i] = h[i]
        /\ \A i \in 1 .. m : hp[4 + i] = p[i]
    <2>1. /\ hp \in Seq(Byte) /\ Len(hp) = Len(h) + Len(p)
          /\ \A i \in 1 .. Len(h) : hp[i] = h[i]
          /\ \A i \in 1 .. Len(p) : hp[Len(h) + i] = p[i]
      BY <1>1, <1>6, JoinedBytes
    <2>2. Len(h) = 4 /\ Len(p) = m
      BY <1>6 DEF m
    <2> HIDE DEF hp
    <2> QED
      BY <2>1, <2>2
  <1> HIDE DEF hp
  <1>8. /\ w \in Seq(Byte) /\ Len(w) = (4 + m) + (Padded(m) - m)
        /\ \A i \in 1 .. 4 + m : w[i] = hp[i]
    <2>1. w = hp \o z
      BY <1>2 DEF hp, h
    <2>2. /\ hp \o z \in Seq(Byte) /\ Len(hp \o z) = Len(hp) + Len(z)
          /\ \A i \in 1 .. Len(hp) : (hp \o z)[i] = hp[i]
      BY <1>4, <1>7, JoinedBytes
    <2>3. Len(hp) = 4 + m /\ Len(z) = Padded(m) - m
      BY <1>4, <1>7
    <2> QED
      BY <2>1, <2>2, <2>3
  <1>9. /\ w[1] = h[1] /\ w[2] = h[2] /\ w[3] = h[3] /\ w[4] = h[4]
    <2>1. \A i \in 1 .. 4 : i \in 1 .. 4 + m
      BY <1>1
    <2>2. \A i \in 1 .. 4 : w[i] = h[i]
      BY <1>7, <1>8, <2>1
    <2> QED
      BY <2>2
  <1>10. \A j \in 1 .. m : w[4 + j] = p[j]
    <2> TAKE j \in 1 .. m
    <2>1. 4 + j \in 1 .. 4 + m
      BY <1>1
    <2> QED
      BY <1>7, <1>8, <2>1
  <1>11. Len(w) = 4 + Padded(m)
    BY <1>1, <1>4, <1>8
  <1> QED
    BY <1>6, <1>8, <1>9, <1>10, <1>11 DEF w, m, p

(* Where the bytes of an entry are in a value, the entry is read. *)
LEMMA EntryReadBack ==
    ASSUME NEW e \in AlgorithmEntry, NEW b \in Seq(Byte), NEW i \in Nat, 1 <= i,
           (i - 1) + Len(EntryBytes(e)) <= Len(b),
           \A j \in 1 .. Len(EntryBytes(e)) : b[(i - 1) + j] = EntryBytes(e)[j]
    PROVE  /\ EntryAt(b, i) = e
           /\ EntrySize(b, i) = Len(EntryBytes(e)) /\ EntrySize(b, i) >= 4
           /\ EntrySize(b, i) \in Nat
  <1> DEFINE w == EntryBytes(e)
             p == e.parameters
             m == Len(p)
  <1>1. /\ w \in Seq(Byte) /\ Len(w) = 4 + Padded(m)
        /\ w[1] * 256 + w[2] = e.algorithm /\ w[3] * 256 + w[4] = m
        /\ \A j \in 1 .. m : w[4 + j] = p[j]
    BY BytesOfEntry
  <1>2. /\ e = [algorithm |-> e.algorithm, parameters |-> p]
        /\ p \in Seq(Byte) /\ m \in Nat
    BY EntryParts, UInt16Range
  <1>3. Padded(m) \in Nat /\ m <= Padded(m)
    BY <1>2, PaddedBounds
  <1> HIDE DEF w, p, m
  <1>4. /\ (i - 1) + Len(w) <= Len(b) /\ Len(b) \in Nat
        /\ \A j \in 1 .. Len(w) : b[(i - 1) + j] = w[j]
    BY LenProperties DEF w
  <1>5. b[i] = w[1] /\ b[i + 1] = w[2] /\ b[i + 2] = w[3] /\ b[i + 3] = w[4]
    <2>1. \A j \in 1 .. 4 : j \in 1 .. Len(w)
      BY <1>1, <1>3
    <2>2. \A j \in 1 .. 4 : b[(i - 1) + j] = w[j]
      BY <1>4, <2>1
    <2>3. /\ (i - 1) + 1 = i /\ (i - 1) + 2 = i + 1 /\ (i - 1) + 3 = i + 2
          /\ (i - 1) + 4 = i + 3 /\ 1 \in 1 .. 4 /\ 2 \in 1 .. 4 /\ 3 \in 1 .. 4
          /\ 4 \in 1 .. 4
      OBVIOUS
    <2> QED
      BY <2>2, <2>3
  <1>6. ReadBE16(b, i) = e.algorithm /\ ReadBE16(b, i + 2) = m
    <2>1. (i + 2) + 1 = i + 3
      OBVIOUS
    <2> QED
      BY <1>1, <1>5, <2>1 DEF ReadBE16
  <1> DEFINE s == SubSeq(b, i + 4, (i + 3) + m)
  <1>7. s = p
    <2>1. /\ i + 4 \in Nat /\ (i + 3) + m \in Nat /\ 1 <= i + 4
          /\ (i + 3) + m <= Len(b)
      <3>1. 4 + m <= Len(w) /\ Len(w) \in Nat
        BY <1>1, <1>2, <1>3
      <3>2. (i - 1) + Len(w) <= Len(b) /\ Len(b) \in Nat
        BY <1>4
      <3>3. (i + 3) + m <= Len(b)
        BY <1>2, <3>1, <3>2
      <3> QED
        BY <1>2, <3>3
    <2>2. /\ s \in Seq(Byte)
          /\ Len(s) = IF i + 4 <= (i + 3) + m THEN ((i + 3) + m) - (i + 4) + 1 ELSE 0
          /\ \A j \in 1 .. ((i + 3) + m) - (i + 4) + 1 : s[j] = b[(i + 4) + j - 1]
      BY <2>1, PartOfBytes
    <2> HIDE DEF s
    <2>3. /\ ((i + 3) + m) - (i + 4) + 1 = m
          /\ (i + 4 <= (i + 3) + m) <=> m > 0
      BY <1>2
    <2>4. Len(s) = m
      BY <1>2, <2>2, <2>3
    <2>5. ASSUME NEW j \in 1 .. m
          PROVE  s[j] = p[j]
      <3>0. 4 + j \in 1 .. Len(w)
        BY <1>1, <1>2, <1>3
      <3>a. (i + 4) + j - 1 = (i - 1) + (4 + j)
        BY <1>2
      <3>1. (i + 4) + j - 1 = (i - 1) + (4 + j) /\ 4 + j \in 1 .. Len(w)
        BY <3>0, <3>a
      <3>2. s[j] = b[(i - 1) + (4 + j)]
        BY <2>2, <2>3, <3>1
      <3> QED
        BY <1>1, <1>4, <3>1, <3>2
    <2> QED
      BY <1>2, <2>2, <2>4, <2>5, SeqEqual DEF m
  <1>8. EntryAt(b, i) = e
    BY <1>2, <1>6, <1>7 DEF EntryAt
  <1>9. EntrySize(b, i) = 4 + Padded(m)
    BY <1>6 DEF EntrySize
  <1> QED
    BY <1>1, <1>3, <1>8, <1>9 DEF w

(* Whatever bytes are there, an entry that fits is one. *)
LEMMA EntryTyped ==
    ASSUME NEW b \in Seq(Byte), NEW i \in Nat, 1 <= i, i + 3 <= Len(b)
    PROVE  /\ EntrySize(b, i) \in Nat /\ EntrySize(b, i) >= 4
           /\ (i - 1) + EntrySize(b, i) <= Len(b) => EntryAt(b, i) \in AlgorithmEntry
  <1> DEFINE m == ReadBE16(b, i + 2)
             a == ReadBE16(b, i)
             s == SubSeq(b, i + 4, (i + 3) + m)
  <1>1. Len(b) \in Nat
    BY LenProperties
  <1>2. m \in UInt16 /\ a \in UInt16
    <2>1. /\ i + 2 \in Nat /\ 1 <= i + 2 /\ (i + 2) + 1 <= Len(b)
          /\ i + 1 <= Len(b)
      BY <1>1
    <2> QED
      BY <2>1, ReadBE16Range
  <1>3. m \in Nat /\ m <= MaxUInt16
    BY <1>2, UInt16Range
  <1> HIDE DEF m, a
  <1>4. Padded(m) \in Nat /\ m <= Padded(m)
    BY <1>3, PaddedBounds
  <1>5. EntrySize(b, i) = 4 + Padded(m)
    BY DEF EntrySize, m
  <1>6. EntryAt(b, i) = [algorithm |-> a, parameters |-> s]
    BY DEF EntryAt, m, a
  <1>7. ASSUME (i - 1) + EntrySize(b, i) <= Len(b)
        PROVE  s \in Seq(Byte) /\ Len(s) <= MaxUInt16
    <2>1. /\ i + 4 \in Nat /\ (i + 3) + m \in Nat /\ 1 <= i + 4
          /\ (i + 3) + m <= Len(b)
      BY <1>1, <1>3, <1>4, <1>5, <1>7
    <2>2. /\ s \in Seq(Byte)
          /\ Len(s) = IF i + 4 <= (i + 3) + m THEN ((i + 3) + m) - (i + 4) + 1 ELSE 0
      BY <2>1, PartOfBytes
    <2> HIDE DEF s
    <2>3. Len(s) = m
      BY <1>3, <2>2
    <2> QED
      BY <1>3, <2>2, <2>3
  <1>8. ASSUME (i - 1) + EntrySize(b, i) <= Len(b)
        PROVE  EntryAt(b, i) \in AlgorithmEntry
    <2>1. s \in Seq(Byte) /\ Len(s) <= MaxUInt16
      BY <1>7, <1>8
    <2> HIDE DEF s
    <2> QED
      BY <1>2, <1>6, <2>1 DEF AlgorithmEntry
  <1> QED
    BY <1>4, <1>5, <1>8

(* decode() of PASSWORD-ALGORITHMS: the states of its loop. *)
LoopStates(b) ==
    {s \in [at : Nat, entries : Seq(AlgorithmEntry), ok : BOOLEAN] :
        1 <= s.at /\ s.at <= Len(b) + 1}

(* An iteration leads from a state of the loop to another.                   *)
LEMMA LoopStepTyped ==
    ASSUME NEW b \in Seq(Byte), NEW s \in LoopStates(b)
    PROVE  LoopStep(b, s) \in LoopStates(b)
  <1> DEFINE i == s.at
             n == Len(b)
             d == EntrySize(b, i)
             es == s.entries
             e == EntryAt(b, i)
             next == [at |-> i + d, entries |-> Append(es, e), ok |-> TRUE]
  <1>1. /\ i \in Nat /\ 1 <= i /\ i <= n + 1 /\ n \in Nat
        /\ es \in Seq(AlgorithmEntry)
        /\ s = [at |-> i, entries |-> es, ok |-> s.ok]
    BY LenProperties DEF LoopStates
  <1>2. Room(b, i) = (n + 1) - i
    BY DEF Room
  <1>3. LoopStep(b, s) =
          IF ~s.ok \/ Room(b, i) < 4 THEN s
          ELSE IF Room(b, i) < d THEN [s EXCEPT !.ok = FALSE]
          ELSE next
    BY DEF LoopStep
  <1>4. [s EXCEPT !.ok = FALSE] \in LoopStates(b)
    BY DEF LoopStates
  <1>5. ASSUME ~(Room(b, i) < 4), ~(Room(b, i) < d)
        PROVE  next \in LoopStates(b)
    <2>0. (n + 1) - i >= 4
      BY <1>1, <1>2, <1>5
    <2>1. i + 3 <= Len(b)
      BY <1>1, <2>0
    <2>2. d \in Nat /\ d >= 4 /\ ((i - 1) + d <= Len(b) => e \in AlgorithmEntry)
      BY <1>1, <2>1, EntryTyped
    <2> HIDE DEF d, e
    <2>3. (n + 1) - i >= d
      BY <1>1, <1>2, <1>5, <2>2
    <2>4. (i - 1) + d <= n /\ i + d <= n + 1 /\ i + d \in Nat /\ 1 <= i + d
      BY <1>1, <2>2, <2>3
    <2>5. e \in AlgorithmEntry
      BY <2>2, <2>4
    <2>6. Append(es, e) \in Seq(AlgorithmEntry)
      BY <1>1, <2>5, AppendProperties
    <2> HIDE DEF es, i, n
    <2>7. next \in [at : Nat, entries : Seq(AlgorithmEntry), ok : BOOLEAN]
      BY <2>4, <2>6
    <2>8. next.at = i + d
      OBVIOUS
    <2> QED
      BY <2>4, <2>7, <2>8 DEF LoopStates, n
  <1> HIDE DEF next, d, i
  <1> QED
    BY <1>3, <1>4, <1>5

(* The loop, and what decode() makes of its last state.                      *)
LEMMA LoopOfDecode ==
    ASSUME NEW b \in Seq(Byte)
    PROVE  \E f \in [0 .. Len(b) -> LoopStates(b)] :
              /\ f[0] = LoopStart
              /\ \A n \in 0 .. Len(b) : n < Len(b) => f[n + 1] = LoopStep(b, f[n])
              /\ DecodeAlgorithms(b) =
                    IF f[Len(b)].ok
                      THEN Attr("PasswordAlgorithms", f[Len(b)].entries) ELSE Nothing
  <1> DEFINE N == Len(b)
             V == LoopStates(b)
             Fix(g) == g = [n \in 0 .. N |->
                              IF n = 0 THEN LoopStart ELSE LoopStep(b, g[n - 1])]
             f == CHOOSE g : Fix(g)
  <1>1. N \in Nat
    BY LenProperties
  <1>2. LoopStart \in V
    <2>1. LoopStart \in [at : Nat, entries : Seq(AlgorithmEntry), ok : BOOLEAN]
      <3>1. <<>> \in Seq(AlgorithmEntry)
        BY EmptySeq
      <3> QED
        BY <3>1 DEF LoopStart
    <2>2. LoopStart.at = 1
      BY DEF LoopStart
    <2> QED
      BY <1>1, <2>1, <2>2 DEF LoopStates
  <1>3. \A v \in V : LoopStep(b, v) \in V
    BY LoopStepTyped
  <1>4. DecodeAlgorithms(b) =
          IF f[N].ok THEN Attr("PasswordAlgorithms", f[N].entries) ELSE Nothing
    BY DEF DecodeAlgorithms
  <1> HIDE DEF V, N
  <1>5. \E l \in [Nat -> V] :
           l[0] = LoopStart /\ \A n \in Nat : n < N => l[n + 1] = LoopStep(b, l[n])
    <2> DEFINE one == [v \in V |-> LoopStep(b, v)]
               step == [n \in Nat |-> one]
    <2>1. one \in [V -> V] /\ \A v \in V : one[v] = LoopStep(b, v)
      BY <1>3
    <2>2. step \in [Nat -> [V -> V]] /\ \A n \in Nat : step[n] = one
      BY <2>1
    <2> HIDE DEF one, step
    <2>3. PICK l : IsLoop(l, N, V, LoopStart, step)
      BY <1>1, <1>2, <2>2, LoopExists
    <2>4. /\ l \in [Nat -> V] /\ l[0] = LoopStart
          /\ \A n \in Nat : n < N => l[n + 1] = LoopStep(b, l[n])
      BY <2>1, <2>2, <2>3 DEF IsLoop
    <2> QED
      BY <2>4
  <1>6. \E g : Fix(g)
    <2>1. PICK l \in [Nat -> V] :
             l[0] = LoopStart /\ \A n \in Nat : n < N => l[n + 1] = LoopStep(b, l[n])
      BY <1>5
    <2> DEFINE g == [n \in 0 .. N |-> l[n]]
    <2>2. ASSUME NEW n \in 0 .. N
          PROVE  l[n] = IF n = 0 THEN LoopStart ELSE LoopStep(b, g[n - 1])
      <3>1. CASE n = 0
        BY <2>1, <3>1
      <3>2. CASE n # 0
        <4>1. n - 1 \in Nat /\ n - 1 < N /\ n - 1 \in 0 .. N /\ (n - 1) + 1 = n
          BY <1>1, <3>2
        <4>2. g[n - 1] = l[n - 1]
          BY <4>1
        <4>3. l[(n - 1) + 1] = LoopStep(b, l[n - 1])
          BY <2>1, <4>1
        <4> HIDE DEF g
        <4> QED
          BY <3>2, <4>1, <4>2, <4>3
      <3> QED
        BY <3>1, <3>2
    <2>3. Fix(g)
      BY <2>2
    <2> QED
      BY <2>3
  <1>7. Fix(f)
    <2> HIDE DEF Fix
    <2> QED
      BY <1>6
  <1> HIDE DEF f
  <1>8. DOMAIN f = 0 .. N /\ f[0] = LoopStart
    BY <1>1, <1>7
  <1>9. \A n \in 0 .. N : n < N => f[n + 1] = LoopStep(b, f[n])
    <2> SUFFICES ASSUME NEW n \in 0 .. N, n < N
                 PROVE  f[n + 1] = LoopStep(b, f[n])
      OBVIOUS
    <2>1. n + 1 \in 0 .. N /\ n + 1 # 0 /\ (n + 1) - 1 = n
      BY <1>1
    <2>2. f[n + 1] = IF n + 1 = 0 THEN LoopStart ELSE LoopStep(b, f[(n + 1) - 1])
      BY <1>7, <2>1
    <2> QED
      BY <2>1, <2>2
  <1>10. \A n \in 0 .. N : f[n] \in V
    <2> DEFINE S == {n \in Nat : n <= N => f[n] \in V}
    <2>1. 0 \in S
      BY <1>2, <1>8
    <2>2. \A n \in Nat : n \in S => n + 1 \in S
      <3> SUFFICES ASSUME NEW n \in Nat, n \in S, n + 1 <= N
                   PROVE  f[n + 1] \in V
        OBVIOUS
      <3>1. n \in 0 .. N /\ n < N /\ f[n] \in V
        BY <1>1
      <3> QED
        BY <1>3, <1>9, <3>1
    <2> HIDE DEF S
    <2>3. Nat \subseteq S
      BY <2>1, <2>2, NatSetInduction
    <2> QED
      BY <1>1, <2>3 DEF S
  <1>11. f \in [0 .. N -> V]
    <2>1. f = [n \in 0 .. N |-> f[n]]
      BY <1>7
    <2> QED
      BY <1>10, <2>1
  <1> QED
    BY <1>4, <1>8, <1>9, <1>11 DEF N, V

(* PASSWORD-ALGORITHM: one entry.                                            *)
LEMMA AlgorithmSound == Sound("PasswordAlgorithm")
  <1> DEFINE k == "PasswordAlgorithm"
             V == AlgorithmEntry
  <1>1. ASSUME NEW v
        PROVE  /\ PlainBody(Attr(k, v)) = EntryBytes(v)
               /\ Legal(Attr(k, v)) <=> LegalEntry(v)
    BY BodyArms, LegalArms
  <1>2. ASSUME NEW b
        PROVE  PlainDecode(k, b) =
                 IF Len(b) >= 4 /\ Len(b) >= EntrySize(b, 1)
                   THEN Attr(k, EntryAt(b, 1)) ELSE Nothing
    BY DecodeArms DEF DecodeAlgorithm
  <1>3. PlainValues(k) = V
    BY ValueArms
  <1>4. \A v \in V : LegalEntry(v)
    BY DEF AlgorithmEntry, LegalEntry
  <1> HIDE DEF k, V
  <1>5. \A b \in Seq(Byte) :
          \/ PlainDecode(k, b) = Nothing
          \/ /\ PlainDecode(k, b) \in [kind : {k}, value : V]
             /\ Legal(PlainDecode(k, b))
    <2> TAKE b \in Seq(Byte)
    <2> SUFFICES ASSUME Len(b) >= 4, Len(b) >= EntrySize(b, 1)
                 PROVE  /\ Attr(k, EntryAt(b, 1)) \in [kind : {k}, value : V]
                        /\ Legal(Attr(k, EntryAt(b, 1)))
      BY <1>2
    <2>1. 1 \in Nat /\ 1 <= 1 /\ 1 + 3 <= Len(b) /\ Len(b) \in Nat
      BY LenProperties
    <2>2. /\ EntrySize(b, 1) \in Nat
          /\ (1 - 1) + EntrySize(b, 1) <= Len(b) => EntryAt(b, 1) \in V
      BY <2>1, EntryTyped DEF V
    <2>3. (1 - 1) + EntrySize(b, 1) <= Len(b)
      BY <2>1, <2>2
    <2>4. EntryAt(b, 1) \in V
      BY <2>2, <2>3
    <2> QED
      BY <1>1, <1>4, <2>4 DEF Attr
  <1>6. \A v \in V :
          /\ PlainBody(Attr(k, v)) \in Seq(Byte)
          /\ PlainDecode(k, PlainBody(Attr(k, v))) = Attr(k, v)
    <2> TAKE v \in V
    <2> DEFINE w == EntryBytes(v)
    <2>1. w \in Seq(Byte)
      BY BytesOfEntry DEF V
    <2>2. /\ 1 \in Nat /\ 1 <= 1 /\ (1 - 1) + Len(w) <= Len(w)
          /\ \A j \in 1 .. Len(w) : w[(1 - 1) + j] = w[j]
      <3>1. Len(w) \in Nat
        BY <2>1, LenProperties
      <3> HIDE DEF w
      <3> QED
        BY <3>1
    <2>3. /\ EntryAt(w, 1) = v /\ EntrySize(w, 1) = Len(w) /\ EntrySize(w, 1) >= 4
          /\ EntrySize(w, 1) \in Nat
      BY <2>1, <2>2, EntryReadBack DEF V
    <2>4. PlainBody(Attr(k, v)) = w
      BY <1>1
    <2> HIDE DEF w
    <2> QED
      BY <1>2, <2>1, <2>3, <2>4
  <1>7. Sound(k)
    BY <1>3, <1>5, <1>6 DEF Sound
  <1> QED
    BY <1>7 DEF k

(* The bytes of the first n entries of PASSWORD-ALGORITHMS. *)
IsFirst(f, es) ==
    /\ f \in [0 .. Len(es) -> Seq(Byte)]
    /\ f[0] = <<>>
    /\ \A n \in 0 .. Len(es) : n < Len(es) => f[n + 1] = f[n] \o EntryBytes(es[n + 1])
    /\ EntriesBytes(es) = f[Len(es)]

(* encode() writes the entries one behind the other.                         *)
LEMMA FirstBytes ==
    ASSUME NEW es \in Seq(AlgorithmEntry)
    PROVE  \E f : IsFirst(f, es)
  <1> DEFINE N == Len(es)
             V == Seq(Byte)
             Fix(g) == g = [n \in 0 .. N |->
                              IF n = 0 THEN <<>> ELSE g[n - 1] \o EntryBytes(es[n])]
             f == CHOOSE g : Fix(g)
  <1>1. N \in Nat
    BY LenProperties
  <1>2. <<>> \in V
    BY EmptySeq
  <1>3. \A n \in 1 .. N : \A v \in V : v \o EntryBytes(es[n]) \in V
    <2> TAKE n \in 1 .. N
    <2>1. es[n] \in AlgorithmEntry
      BY ElementOfSeq
    <2>2. EntryBytes(es[n]) \in V
      BY <2>1, BytesOfEntry
    <2> QED
      BY <2>2, JoinedBytes
  <1>4. EntriesBytes(es) = f[N]
    BY DEF EntriesBytes
  <1> HIDE DEF V, N
  <1>5. \E l \in [Nat -> V] :
           /\ l[0] = <<>>
           /\ \A n \in Nat : n < N => l[n + 1] = l[n] \o EntryBytes(es[n + 1])
    <2> DEFINE step == [n \in Nat |-> [v \in V |->
                          IF n < N THEN v \o EntryBytes(es[n + 1]) ELSE v]]
    <2>1. ASSUME NEW n \in Nat, NEW v \in V
          PROVE  (IF n < N THEN v \o EntryBytes(es[n + 1]) ELSE v) \in V
      <3>1. n < N => n + 1 \in 1 .. N
        BY <1>1
      <3> QED
        BY <1>3, <3>1
    <2>2. step \in [Nat -> [V -> V]]
      BY <2>1
    <2>3. \A n \in Nat : n < N => \A v \in V : step[n][v] = v \o EntryBytes(es[n + 1])
      OBVIOUS
    <2> HIDE DEF step
    <2>4. PICK l : IsLoop(l, N, V, <<>>, step)
      BY <1>1, <1>2, <2>2, LoopExists
    <2>5. /\ l \in [Nat -> V] /\ l[0] = <<>>
          /\ \A n \in Nat : n < N => l[n + 1] = l[n] \o EntryBytes(es[n + 1])
      BY <2>3, <2>4 DEF IsLoop
    <2> QED
      BY <2>5
  <1>6. \E g : Fix(g)
    <2>1. PICK l \in [Nat -> V] :
             /\ l[0] = <<>>
             /\ \A n \in Nat : n < N => l[n + 1] = l[n] \o EntryBytes(es[n + 1])
      BY <1>5
    <2> DEFINE g == [n \in 0 .. N |-> l[n]]
    <2>2. ASSUME NEW n \in 0 .. N
          PROVE  l[n] = IF n = 0 THEN <<>> ELSE g[n - 1] \o EntryBytes(es[n])
      <3>1. CASE n = 0
        BY <2>1, <3>1
      <3>2. CASE n # 0
        <4>1. n - 1 \in Nat /\ n - 1 < N /\ n - 1 \in 0 .. N /\ (n - 1) + 1 = n
          BY <1>1, <3>2
        <4>2. g[n - 1] = l[n - 1]
          BY <4>1
        <4>3. l[(n - 1) + 1] = l[n - 1] \o EntryBytes(es[(n - 1) + 1])
          BY <2>1, <4>1
        <4> HIDE DEF g
        <4> QED
          BY <3>2, <4>1, <4>2, <4>3
      <3> QED
        BY <3>1, <3>2
    <2>3. Fix(g)
      BY <2>2
    <2> QED
      BY <2>3
  <1>7. Fix(f)
    <2> HIDE DEF Fix
    <2> QED
      BY <1>6
  <1> HIDE DEF f
  <1>8. f[0] = <<>>
    BY <1>1, <1>7
  <1>9. \A n \in 0 .. N : n < N => f[n + 1] = f[n] \o EntryBytes(es[n + 1])
    <2> SUFFICES ASSUME NEW n \in 0 .. N, n < N
                 PROVE  f[n + 1] = f[n] \o EntryBytes(es[n + 1])
      OBVIOUS
    <2>1. n + 1 \in 0 .. N /\ n + 1 # 0 /\ (n + 1) - 1 = n
      BY <1>1
    <2>2. f[n + 1] = IF n + 1 = 0 THEN <<>>
                                  ELSE f[(n + 1) - 1] \o EntryBytes(es[n + 1])
      BY <1>7, <2>1
    <2> QED
      BY <2>1, <2>2
  <1>10. \A n \in 0 .. N : f[n] \in V
    <2> DEFINE S == {n \in Nat : n <= N => f[n] \in V}
    <2>1. 0 \in S
      BY <1>2, <1>8
    <2>2. \A n \in Nat : n \in S => n + 1 \in S
      <3> SUFFICES ASSUME NEW n \in Nat, n \in S, n + 1 <= N
                   PROVE  f[n + 1] \in V
        OBVIOUS
      <3>1. n \in 0 .. N /\ n < N /\ f[n] \in V /\ n + 1 \in 1 .. N
        BY <1>1
      <3> QED
        BY <1>3, <1>9, <3>1
    <2> HIDE DEF S
    <2>3. Nat \subseteq S
      BY <2>1, <2>2, NatSetInduction
    <2> QED
      BY <1>1, <2>3 DEF S
  <1>11. f \in [0 .. N -> V]
    <2>1. f = [n \in 0 .. N |-> f[n]]
      BY <1>7
    <2> QED
      BY <1>10, <2>1
  <1>12. IsFirst(f, es)
    BY <1>4, <1>8, <1>9, <1>11 DEF IsFirst, N, V
  <1> QED
    BY <1>12

(* One sequence of bytes is at the beginning of another; bytes follow        *)
(* others.                                                                   *)
IsStart(s, t) ==
    /\ Len(s) <= Len(t)
    /\ \A j \in 1 .. Len(s) : t[j] = s[j]

Follows(w, s, t) == \A j \in 1 .. Len(w) : t[Len(s) + j] = w[j]

(* One more entry. *)
LEMMA FirstStep ==
    ASSUME NEW es \in Seq(AlgorithmEntry), NEW f, IsFirst(f, es),
           NEW n \in 0 .. Len(es), n < Len(es)
    PROVE  /\ es[n + 1] \in AlgorithmEntry
           /\ f[n] \in Seq(Byte) /\ Len(f[n]) \in Nat
           /\ f[n + 1] \in Seq(Byte) /\ Len(f[n + 1]) \in Nat
           /\ Len(EntryBytes(es[n + 1])) \in Nat /\ Len(EntryBytes(es[n + 1])) >= 4
           /\ Len(f[n + 1]) = Len(f[n]) + Len(EntryBytes(es[n + 1]))
           /\ IsStart(f[n], f[n + 1])
           /\ Follows(EntryBytes(es[n + 1]), f[n], f[n + 1])
  <1> DEFINE e == es[n + 1]
             w == EntryBytes(e)
  <1>1. n + 1 \in 1 .. Len(es) /\ n + 1 \in 0 .. Len(es) /\ Len(es) \in Nat
    BY LenProperties
  <1>2. e \in AlgorithmEntry
    BY <1>1, ElementOfSeq
  <1>3. /\ w \in Seq(Byte) /\ Len(w) = 4 + Padded(Len(e.parameters))
    BY <1>2, BytesOfEntry
  <1>4. Padded(Len(e.parameters)) \in Nat
    BY <1>2, EntryParts, UInt16Range, PaddedBounds
  <1>5. f[n] \in Seq(Byte) /\ f[n + 1] = f[n] \o w /\ f[n + 1] \in Seq(Byte)
    BY <1>1 DEF IsFirst
  <1> HIDE DEF w
  <1>6. Len(w) \in Nat /\ Len(w) >= 4
    BY <1>3, <1>4
  <1> DEFINE s == f[n]
             t == f[n + 1]
  <1>7. s \in Seq(Byte) /\ t = s \o w /\ t \in Seq(Byte)
    BY <1>5
  <1> HIDE DEF s, t
  <1>8. Len(s) \in Nat /\ Len(t) \in Nat
    BY <1>7, LenProperties
  <1>9. /\ Len(t) = Len(s) + Len(w)
        /\ \A i \in 1 .. Len(s) : t[i] = s[i]
        /\ \A i \in 1 .. Len(w) : t[Len(s) + i] = w[i]
    <2>1. /\ Len(s \o w) = Len(s) + Len(w)
          /\ \A i \in 1 .. Len(s) : (s \o w)[i] = s[i]
          /\ \A i \in 1 .. Len(w) : (s \o w)[Len(s) + i] = w[i]
      BY <1>3, <1>7, JoinedBytes
    <2> QED
      BY <1>7, <2>1
  <1>10. IsStart(s, t) /\ Follows(w, s, t)
    BY <1>6, <1>8, <1>9 DEF IsStart, Follows
  <1> QED
    BY <1>2, <1>6, <1>7, <1>8, <1>9, <1>10 DEF s, t, w, e

(* The first n entries are at the beginning, and n is no more than their bytes. *)
LEMMA FirstOfAll ==
    ASSUME NEW es \in Seq(AlgorithmEntry), NEW f, IsFirst(f, es), NEW m \in 0 .. Len(es)
    PROVE  IsStart(f[m], f[Len(es)]) /\ m <= Len(f[m])
  <1> DEFINE N == Len(es)
  <1>1. N \in Nat
    BY LenProperties
  <1>2. \A n \in 0 .. N : f[n] \in Seq(Byte)
    BY DEF IsFirst
  <1>3. \A n \in 0 .. N : Len(f[n]) \in Nat
    BY <1>2, LenProperties
  <1>4. \A n \in 0 .. N : n < N =>
           /\ IsStart(f[n], f[n + 1]) /\ Len(f[n + 1]) >= Len(f[n]) + 1
    <2> TAKE n \in 0 .. N
    <2> SUFFICES ASSUME n < N
                 PROVE  IsStart(f[n], f[n + 1]) /\ Len(f[n + 1]) >= Len(f[n]) + 1
      OBVIOUS
    <2>1. /\ IsStart(f[n], f[n + 1])
          /\ Len(EntryBytes(es[n + 1])) \in Nat /\ Len(EntryBytes(es[n + 1])) >= 4
          /\ Len(f[n + 1]) = Len(f[n]) + Len(EntryBytes(es[n + 1]))
      BY FirstStep
    <2> QED
      BY <1>3, <2>1
  <1> HIDE DEF N
  <1> DEFINE S == {n \in Nat : n <= N =>
                      /\ n <= Len(f[n])
                      /\ \A i \in 0 .. n : IsStart(f[i], f[n])}
  <1>5. 0 \in S
    <2>1. \A i \in 0 .. 0 : i = 0
      OBVIOUS
    <2>2. 0 <= Len(f[0]) /\ IsStart(f[0], f[0])
      BY <1>1, <1>3 DEF IsStart
    <2> QED
      BY <2>1, <2>2
  <1>6. ASSUME NEW n \in Nat, n \in S
        PROVE  n + 1 \in S
    <2> SUFFICES ASSUME n + 1 <= N
                 PROVE  /\ n + 1 <= Len(f[n + 1])
                        /\ \A i \in 0 .. n + 1 : IsStart(f[i], f[n + 1])
      OBVIOUS
    <2>1. n \in 0 .. N /\ n + 1 \in 0 .. N /\ n < N
      BY <1>1
    <2>2. /\ n <= Len(f[n]) /\ \A i \in 0 .. n : IsStart(f[i], f[n])
      BY <1>6, <2>1
    <2> HIDE DEF S
    <2>3. IsStart(f[n], f[n + 1]) /\ Len(f[n + 1]) >= Len(f[n]) + 1
      BY <1>4, <2>1
    <2>4. n + 1 <= Len(f[n + 1])
      BY <1>3, <2>1, <2>2, <2>3
    <2>5. ASSUME NEW i \in 0 .. n + 1
          PROVE  IsStart(f[i], f[n + 1])
      <3>1. CASE i = n + 1
        <4>1. Len(f[n + 1]) \in Nat
          BY <1>3, <2>1
        <4> QED
          BY <3>1, <4>1 DEF IsStart
      <3>2. CASE i # n + 1
        <4>1. i \in 0 .. n /\ i \in 0 .. N
          <5>1. i \in 0 .. n
            BY <3>2
          <5> QED
            BY <1>1, <2>1, <5>1
        <4>2. IsStart(f[i], f[n])
          BY <2>2, <4>1
        <4>3. Len(f[i]) \in Nat /\ Len(f[n]) \in Nat /\ Len(f[n + 1]) \in Nat
          BY <1>3, <2>1, <4>1
        <4>4. Len(f[i]) <= Len(f[n + 1])
          BY <2>3, <4>2, <4>3 DEF IsStart
        <4>5. \A j \in 1 .. Len(f[i]) : f[n + 1][j] = f[i][j]
          <5> TAKE j \in 1 .. Len(f[i])
          <5>1. j \in 1 .. Len(f[n])
            BY <4>2, <4>3 DEF IsStart
          <5> QED
            BY <2>3, <4>2, <5>1 DEF IsStart
        <4> QED
          BY <4>4, <4>5 DEF IsStart
      <3> QED
        BY <3>1, <3>2
    <2> QED
      BY <2>4, <2>5
  <1> HIDE DEF S
  <1>7. Nat \subseteq S
    BY <1>5, <1>6, NatSetInduction
  <1>8. m \in S /\ N \in S /\ m \in 0 .. N
    BY <1>1, <1>7 DEF N
  <1> QED
    BY <1>1, <1>8 DEF S, N

(* decode() reads the entries one by one. *)
LEMMA EntriesReadBack ==
    ASSUME NEW es \in Seq(AlgorithmEntry)
    PROVE  /\ EntriesBytes(es) \in Seq(Byte)
           /\ DecodeAlgorithms(EntriesBytes(es)) = Attr("PasswordAlgorithms", es)
  <1> DEFINE N == Len(es)
             b == EntriesBytes(es)
             L == Len(b)
             After(n, f) == [at |-> Len(f[n]) + 1, entries |-> SubSeq(es, 1, n), ok |-> TRUE]
  <1>1. N \in Nat
    BY LenProperties
  <1>2. PICK f : IsFirst(f, es)
    BY FirstBytes
  <1>3. /\ f[0] = <<>> /\ b = f[N] /\ b \in Seq(Byte)
        /\ \A n \in 0 .. N : f[n] \in Seq(Byte)
    <2>1. /\ f \in [0 .. N -> Seq(Byte)] /\ f[0] = <<>> /\ b = f[N]
      BY <1>2 DEF IsFirst
    <2>2. N \in 0 .. N
      BY <1>1
    <2> HIDE DEF b, N
    <2> QED
      BY <2>1, <2>2
  <1>4. L \in Nat /\ \A n \in 0 .. N : Len(f[n]) \in Nat
    BY <1>3, LenProperties
  <1>5. \A n \in 0 .. N : IsStart(f[n], b) /\ n <= Len(f[n])
    BY <1>2, <1>3, FirstOfAll
  <1>6. N <= L
    BY <1>1, <1>3, <1>5
  <1>7. PICK g \in [0 .. L -> LoopStates(b)] :
           /\ g[0] = LoopStart
           /\ \A n \in 0 .. L : n < L => g[n + 1] = LoopStep(b, g[n])
           /\ DecodeAlgorithms(b) =
                 IF g[L].ok THEN Attr("PasswordAlgorithms", g[L].entries) ELSE Nothing
    BY <1>3, LoopOfDecode
  <1> HIDE DEF b, L, N
  <1>8. After(0, f) = LoopStart
    <2>1. Len(f[0]) = 0
      BY <1>3, EmptySeq
    <2>2. SubSeq(es, 1, 0) = <<>>
      BY SubSeqEmpty
    <2>3. Len(f[0]) + 1 = 1
      BY <2>1
    <2>4. After(0, f) = [at |-> 1, entries |-> <<>>, ok |-> TRUE]
      BY <2>2, <2>3
    <2> QED
      BY <2>4 DEF LoopStart
  <1>9. ASSUME NEW n \in 0 .. N, n < N
        PROVE  LoopStep(b, After(n, f)) = After(n + 1, f)
    <2> DEFINE e == es[n + 1]
               w == EntryBytes(e)
               i == Len(f[n]) + 1
               s == After(n, f)
    <2>1. n + 1 \in 0 .. N
      BY <1>1, <1>9
    <2>2. /\ e \in AlgorithmEntry /\ Len(f[n]) \in Nat /\ Len(f[n + 1]) \in Nat
          /\ Len(w) \in Nat /\ Len(w) >= 4 /\ Len(f[n + 1]) = Len(f[n]) + Len(w)
          /\ \A j \in 1 .. Len(w) : f[n + 1][Len(f[n]) + j] = w[j]
      <3>1. n \in 0 .. Len(es) /\ n < Len(es)
        BY <1>9 DEF N
      <3>2. /\ es[n + 1] \in AlgorithmEntry
            /\ Len(f[n]) \in Nat /\ Len(f[n + 1]) \in Nat
            /\ Len(EntryBytes(es[n + 1])) \in Nat /\ Len(EntryBytes(es[n + 1])) >= 4
            /\ Len(f[n + 1]) = Len(f[n]) + Len(EntryBytes(es[n + 1]))
        BY <1>2, <3>1, FirstStep
      <3>3. Follows(EntryBytes(es[n + 1]), f[n], f[n + 1])
        BY <1>2, <3>1, FirstStep
      <3> HIDE DEF s
      <3> QED
        BY <3>2, <3>3 DEF Follows
    <2>3. Len(f[n + 1]) <= L /\ \A j \in 1 .. Len(f[n + 1]) : b[j] = f[n + 1][j]
      BY <1>5, <2>1 DEF IsStart, L
    <2> HIDE DEF e, w
    <2>4. /\ i \in Nat /\ 1 <= i /\ i - 1 = Len(f[n]) /\ (i - 1) + Len(w) <= Len(b)
      BY <1>4, <2>2, <2>3 DEF L
    <2> HIDE DEF s, i
    <2>5. \A j \in 1 .. Len(w) : b[(i - 1) + j] = w[j]
      <3> TAKE j \in 1 .. Len(w)
      <3>1. Len(f[n]) + j \in 1 .. Len(f[n + 1])
        BY <2>2
      <3> QED
        BY <2>2, <2>3, <2>4, <3>1
    <2>6. EntryAt(b, i) = e /\ EntrySize(b, i) = Len(w)
      BY <1>3, <2>2, <2>4, <2>5, EntryReadBack DEF w
    <2>7. Room(b, i) = (L + 1) - i
      BY DEF Room, L
    <2>8. ~(Room(b, i) < 4) /\ ~(Room(b, i) < EntrySize(b, i))
      BY <1>4, <2>2, <2>4, <2>6, <2>7 DEF L
    <2>9. s.ok /\ s.at = i /\ s.entries = SubSeq(es, 1, n)
      BY DEF s, i
    <2>10. LoopStep(b, s) =
             [at |-> i + Len(w), entries |-> Append(SubSeq(es, 1, n), e), ok |-> TRUE]
      BY <2>6, <2>8, <2>9 DEF LoopStep
    <2>11. Append(SubSeq(es, 1, n), e) = SubSeq(es, 1, n + 1)
      <3>1. 1 \in 1 .. Len(es) /\ n + 1 \in 1 .. Len(es) /\ (n + 1) - 1 = n
        BY <1>1, <1>9 DEF N
      <3>2. SubSeq(es, 1, n + 1) = SubSeq(es, 1, (n + 1) - 1) \o <<es[n + 1]>>
        BY <3>1, SubSeqRecursiveSecond
      <3>3. SubSeq(es, 1, n) \in Seq(AlgorithmEntry)
        <4>1. \A j \in 1 .. n : j \in 1 .. Len(es)
          BY <3>1
        <4>2. \A j \in 1 .. n : es[j] \in AlgorithmEntry
          BY <4>1, ElementOfSeq
        <4> QED
          BY <4>2, SubSeqProperties
      <3> QED
        BY <2>2, <3>1, <3>2, <3>3, AppendIsConcat DEF e
    <2>12. i + Len(w) = Len(f[n + 1]) + 1
      BY <2>2 DEF i
    <2> QED
      BY <2>10, <2>11, <2>12 DEF s
  <1>10. ASSUME NEW n \in Nat
         PROVE  LoopStep(b, After(N, f)) = After(N, f)
    <2> DEFINE s == After(N, f)
    <2>1. s.at = L + 1 /\ s.ok
      BY <1>3 DEF L
    <2>2. Room(b, s.at) = 0
      BY <1>4, <2>1 DEF Room, L
    <2> HIDE DEF s
    <2> QED
      BY <2>2 DEF LoopStep, s
  <1> DEFINE S == {n \in Nat : n <= L => g[n] = After(IF n <= N THEN n ELSE N, f)}
  <1>11. 0 \in S
    <2>1. 0 <= N
      BY <1>1
    <2> QED
      BY <1>7, <1>8, <2>1
  <1>12. ASSUME NEW n \in Nat, n \in S
         PROVE  n + 1 \in S
    <2> SUFFICES ASSUME n + 1 <= L
                 PROVE  g[n + 1] = After(IF n + 1 <= N THEN n + 1 ELSE N, f)
      OBVIOUS
    <2>1. n \in 0 .. L /\ n < L /\ n <= L
      BY <1>4
    <2>2. g[n] = After(IF n <= N THEN n ELSE N, f) /\ g[n + 1] = LoopStep(b, g[n])
      BY <1>7, <1>12, <2>1
    <2> HIDE DEF After, S
    <2>3. CASE n < N
      <3>1. n \in 0 .. N /\ n <= N /\ n + 1 <= N
        BY <1>1, <2>3
      <3> QED
        BY <1>9, <2>2, <2>3, <3>1
    <2>4. CASE ~(n < N)
      <3>1. ~(n + 1 <= N) /\ (IF n <= N THEN n ELSE N) = N
        BY <1>1, <2>4
      <3> QED
        BY <1>10, <2>2, <3>1
    <2> QED
      BY <2>3, <2>4
  <1> HIDE DEF S
  <1>13. Nat \subseteq S
    BY <1>11, <1>12, NatSetInduction
  <1>14. g[L] = After(N, f)
    <2>1. L \in S
      BY <1>4, <1>13
    <2>2. (IF L <= N THEN L ELSE N) = N
      BY <1>1, <1>4, <1>6
    <2> HIDE DEF After
    <2> QED
      BY <1>4, <2>1, <2>2 DEF S
  <1>15. SubSeq(es, 1, N) = es
    BY SubSeqFull DEF N
  <1>16. g[L].ok = TRUE /\ g[L].entries = es
    BY <1>14, <1>15
  <1> QED
    BY <1>3, <1>7, <1>16 DEF b

(* PASSWORD-ALGORITHMS: the entries, until fewer than four bytes are left.   *)
LEMMA AlgorithmsSound == Sound("PasswordAlgorithms")
  <1> DEFINE k == "PasswordAlgorithms"
             V == Seq(AlgorithmEntry)
  <1>1. ASSUME NEW v
        PROVE  /\ PlainBody(Attr(k, v)) = EntriesBytes(v)
               /\ Legal(Attr(k, v)) <=> \A i \in 1 .. Len(v) : LegalEntry(v[i])
    BY BodyArms, LegalArms
  <1>2. ASSUME NEW b
        PROVE  PlainDecode(k, b) = DecodeAlgorithms(b)
    BY DecodeArms
  <1>3. PlainValues(k) = V
    BY ValueArms
  <1>4. \A v \in V : Legal(Attr(k, v))
    <2> TAKE v \in V
    <2>1. \A i \in 1 .. Len(v) : v[i] \in AlgorithmEntry
      BY ElementOfSeq
    <2>2. \A i \in 1 .. Len(v) : LegalEntry(v[i])
      BY <2>1 DEF AlgorithmEntry, LegalEntry
    <2> QED
      BY <1>1, <2>2
  <1>5. \A b \in Seq(Byte) :
          \/ PlainDecode(k, b) = Nothing
          \/ /\ PlainDecode(k, b) \in [kind : {k}, value : V]
             /\ Legal(PlainDecode(k, b))
    <2> TAKE b \in Seq(Byte)
    <2>1. PICK f \in [0 .. Len(b) -> LoopStates(b)] :
             DecodeAlgorithms(b) =
                IF f[Len(b)].ok
                  THEN Attr("PasswordAlgorithms", f[Len(b)].entries) ELSE Nothing
      BY LoopOfDecode
    <2> DEFINE s == f[Len(b)]
               es == s.entries
    <2>2. Len(b) \in 0 .. Len(b)
      BY LenProperties
    <2>3. s \in LoopStates(b)
      BY <2>1, <2>2
    <2>4. es \in V
      BY <2>3 DEF LoopStates
    <2>5. DecodeAlgorithms(b) = Nothing \/ DecodeAlgorithms(b) = Attr(k, es)
      BY <2>1
    <2> HIDE DEF es, k, V
    <2>6. Attr(k, es) \in [kind : {k}, value : V] /\ Legal(Attr(k, es))
      BY <1>4, <2>4 DEF Attr
    <2> QED
      BY <1>2, <2>5, <2>6
  <1>6. \A v \in V :
          /\ PlainBody(Attr(k, v)) \in Seq(Byte)
          /\ PlainDecode(k, PlainBody(Attr(k, v))) = Attr(k, v)
    <2> TAKE v \in V
    <2>1. /\ EntriesBytes(v) \in Seq(Byte)
          /\ DecodeAlgorithms(EntriesBytes(v)) = Attr(k, v)
      BY EntriesReadBack
    <2> HIDE DEF k
    <2> QED
      BY <1>1, <1>2, <2>1
  <1> HIDE DEF k, V
  <1>7. Sound(k)
    BY <1>3, <1>5, <1>6 DEF Sound
  <1> QED
    BY <1>7 DEF k

-----------------------------------------------------------------------------
(* Every class, and the journey of an attribute. *)

(* Every class but the XOR addresses. *)
LEMMA PlainSound ==
    ASSUME NEW k \in PlainKinds
    PROVE  Sound(k)
  <1>1. \/ k \in Opaque \/ k \in Numeric \/ k \in AddressFamily
        \/ k = "RequestedTransport" \/ k = "EvenPort" \/ k = "ChannelNumber"
        \/ k = "ErrorCode" \/ k = "AddressErrorCode" \/ k = "UnknownAttributes"
        \/ k = "PasswordAlgorithm" \/ k = "PasswordAlgorithms"
    BY DEF PlainKinds
  <1> QED
    BY <1>1, OpaqueSound, NumericSound, FamilySound, TransportSound, EvenPortSound,
       ChannelSound, ErrorSound, AddressErrorSound, UnknownSound, AlgorithmSound,
       AlgorithmsSound

(* No class is an XOR address and another thing.                             *)
LEMMA KindNames ==
    ASSUME NEW k \in Kinds
    PROVE  /\ k # "nothing"
           /\ k \in PlainKinds <=> k \notin XorKinds
  <1>1. ASSUME k \in XorKinds
        PROVE  k # "nothing" /\ k \notin PlainKinds
    BY <1>1, OpaqueKinds, FixedSizes DEF XorKinds, PlainKinds, Numeric, AddressFamily,
       Marker, Strings, ShortString, LongString, Unlimited, FixedKinds
  <1>2. ASSUME k \in PlainKinds
        PROVE  k # "nothing" /\ k \notin XorKinds
    <2>1. k \in Opaque \/ k \in Numeric \cup AddressFamily \cup OtherKinds
      BY <1>2 DEF PlainKinds, OtherKinds
    <2> QED
      BY <2>1, OpaqueArms, KindsApart
  <1> QED
    BY <1>1, <1>2 DEF Kinds

(* What holds of the whole of Relay: where the attribute is, and what is known  *)
(* of the object and of its bytes there.                                     *)
Journey ==
    /\ stage = "start" => /\ attr = Nothing /\ original = Nothing
                          /\ sent = Nothing /\ hops = 0
    /\ stage = "held" => attr # Nothing /\ original # Nothing
    /\ stage = "wire" => hops < MaxHops
    /\ stage = "wire" /\ original = Nothing => attr = Nothing /\ sent = Nothing /\ hops = 0
    /\ stage = "wire" /\ original # Nothing => attr # Nothing /\ wire = Body(attr)
    /\ sent # Nothing =>
          /\ original # Nothing
          /\ Passed(kind, hops, sent.bytes) = Passed(kind, hops, Body(original))
    /\ stage \in {"held", "wire"} /\ original # Nothing =>
          /\ Body(attr) = Passed(kind, hops, Body(original))
          /\ Legal(original) => Legal(attr)

IInv == TypeOK /\ Journey /\ AcceptedIsLegal /\ LegalNeverRejected

(* An object of a class has its kind and what its members can hold.          *)
LEMMA ObjectParts ==
    ASSUME NEW k \in Kinds, NEW a \in Objects(k)
    PROVE  /\ a.kind = k /\ a = Attr(k, a.value) /\ a # Nothing
           /\ k \in XorKinds => a.value \in XorValues
           /\ k \in PlainKinds => a.value \in PlainValues(k)
           /\ k \notin XorKinds => k \in PlainKinds
  <1> DEFINE V == IF k \in XorKinds THEN XorValues ELSE PlainValues(k)
  <1>1. a \in [kind : {k}, value : V]
    BY DEF Objects
  <1>2. k # "nothing" /\ (k \in PlainKinds <=> k \notin XorKinds)
    BY KindNames
  <1> HIDE DEF V
  <1>3. a.kind = k /\ a = Attr(k, a.value) /\ a.value \in V
    BY <1>1 DEF Attr
  <1>4. a # Nothing
    BY <1>2, <1>3, AttrIsSomething
  <1> QED
    BY <1>2, <1>3, <1>4 DEF V

(* encode() writes bytes.                                                    *)
LEMMA BodyOfObject ==
    ASSUME NEW k \in Kinds, NEW a \in Objects(k)
    PROVE  /\ Body(a) \in Seq(Byte)
           /\ Body(a) = IF k \in XorKinds THEN XorBody(a.value) ELSE PlainBody(a)
  <1>1. Body(a) = IF k \in XorKinds THEN XorBody(a.value) ELSE PlainBody(a)
    BY ObjectParts DEF Body
  <1>2. CASE k \in XorKinds
    BY <1>1, <1>2, ObjectParts, XorBodyParts
  <1>3. CASE k \notin XorKinds
    <2>1. k \in PlainKinds /\ a = Attr(k, a.value) /\ a.value \in PlainValues(k)
      BY <1>3, ObjectParts
    <2>2. PlainBody(Attr(k, a.value)) \in Seq(Byte)
      BY <2>1, PlainSound DEF Sound
    <2> QED
      BY <1>1, <1>3, <2>1, <2>2
  <1> QED
    BY <1>1, <1>2, <1>3

(* Whatever bytes arrive, decode() makes nothing of them or a legal object. *)
LEMMA DecodedIsLegal ==
    ASSUME NEW k \in Kinds, NEW b \in Seq(Byte), tid \in TransactionIds
    PROVE  \/ Decoded(k, b) = Nothing
           \/ Decoded(k, b) \in Objects(k) /\ Legal(Decoded(k, b))
  <1>1. CASE k \in XorKinds
    <2> DEFINE d == XorDecode(k, b, tid)
    <2>1. Decoded(k, b) = d
      BY <1>1 DEF Decoded
    <2>2. \/ d = Nothing
          \/ /\ d \in [kind : {k}, value : XorValues]
             /\ d.value.address.family \in {IPv4, IPv6}
      BY XorDecodeTyped
    <2> HIDE DEF d
    <2>3. Objects(k) = [kind : {k}, value : XorValues]
      BY <1>1 DEF Objects
    <2>4. ASSUME d \in [kind : {k}, value : XorValues],
                 d.value.address.family \in {IPv4, IPv6}
          PROVE  Legal(d)
      <3>1. d.kind = k /\ d.value \in XorValues
        BY <2>4
      <3>2. /\ k \notin Opaque /\ k \notin Numeric /\ k \notin AddressFamily
            /\ k \notin OtherKinds
        <4>1. k \notin PlainKinds
          BY <1>1, KindNames
        <4> QED
          BY <4>1 DEF PlainKinds, OtherKinds
      <3> QED
        BY <2>4, <3>1, <3>2 DEF Legal, OtherKinds
    <2> QED
      BY <2>1, <2>2, <2>3, <2>4
  <1>2. CASE k \notin XorKinds
    <2>1. k \in PlainKinds /\ Decoded(k, b) = PlainDecode(k, b)
      BY <1>2, KindNames DEF Decoded
    <2>2. Objects(k) = [kind : {k}, value : PlainValues(k)]
      BY <1>2 DEF Objects
    <2> QED
      BY <2>1, <2>2, PlainSound DEF Sound
  <1> QED
    BY <1>1, <1>2

(* What encode() wrote of a legal object is accepted, whatever message it is    *)
(* read from; and whatever is accepted encodes to the bytes it was read from,   *)
(* an address of neither family to those of an IPv6 address.                  *)
LEMMA DecodedKeepsBody ==
    ASSUME NEW k \in Kinds, NEW a \in Objects(k), tid \in TransactionIds
    PROVE  /\ Legal(a) => Decoded(k, Body(a)) # Nothing
           /\ Decoded(k, Body(a)) # Nothing =>
                 Body(Decoded(k, Body(a))) = Settled(k, Body(a))
  <1> DEFINE d == Decoded(k, Body(a))
  <1>1. d = Nothing \/ d \in Objects(k)
    BY BodyOfObject, DecodedIsLegal
  <1>2. CASE k \in XorKinds
    <2> DEFINE v == a.value
               t == Turned(v, tid)
    <2>1. v \in XorValues /\ Body(a) = XorBody(v)
      BY <1>2, ObjectParts, BodyOfObject
    <2>2. XorDecode(k, XorBody(v), tid) = Attr(k, t)
      BY <2>1, XorArrives
    <2>3. /\ t \in XorValues
          /\ XorBody(t) = [XorBody(v) EXCEPT ![2] = ReadFamily(v.address.family)]
      BY <2>1, TurnedKeepsBody
    <2>7. XorBody(v)[2] = v.address.family
      BY <2>1, XorBodyParts
    <2> HIDE DEF v, t
    <2>8. XorBody(t) = Settled(k, XorBody(v))
      BY <1>2, <2>3, <2>7 DEF Settled
    <2>4. d = Attr(k, t)
      BY <1>2, <2>1, <2>2 DEF Decoded
    <2>5. Attr(k, t) # Nothing /\ Attr(k, t).kind = k /\ Attr(k, t).value = t
      BY KindNames, AttrParts, AttrIsSomething
    <2> HIDE DEF d
    <2>6. Body(d) = XorBody(t)
      BY <1>2, <2>4, <2>5 DEF Body
    <2> QED
      BY <2>1, <2>4, <2>5, <2>6, <2>8 DEF d
  <1>3. CASE k \notin XorKinds
    <2> DEFINE v == a.value
    <2>1. k \in PlainKinds /\ a = Attr(k, v) /\ v \in PlainValues(k) /\ a # Nothing
      BY <1>3, ObjectParts
    <2>2. Body(a) = PlainBody(Attr(k, v))
      BY <1>3, <2>1, BodyOfObject
    <2>3. d = PlainDecode(k, PlainBody(Attr(k, v)))
      BY <1>3, <2>2 DEF Decoded
    <2> HIDE DEF v, d
    <2>4. /\ Legal(Attr(k, v)) => d = Attr(k, v)
          /\ d = Nothing \/ PlainBody(d) = PlainBody(Attr(k, v))
      BY <2>1, <2>3, PlainSound DEF Sound
    <2>5. d # Nothing => Body(d) = PlainBody(d)
      BY <1>1, <1>3, BodyOfObject
    <2>6. Settled(k, Body(a)) = Body(a)
      BY <1>3 DEF Settled
    <2> QED
      BY <2>1, <2>2, <2>4, <2>5, <2>6 DEF d
  <1> QED
    BY <1>2, <1>3

(* Once read, a family is one of the two, and the bytes stay as they are.     *)
LEMMA SettledTwice ==
    ASSUME NEW k, NEW b \in Seq(Byte)
    PROVE  Settled(k, Settled(k, b)) = Settled(k, b)
  <1>1. CASE k \in XorKinds
    <2> DEFINE f == ReadFamily(b[2])
               c == [b EXCEPT ![2] = f]
    <2>1. Settled(k, b) = c /\ Settled(k, c) = [c EXCEPT ![2] = ReadFamily(c[2])]
      BY <1>1 DEF Settled
    <2>2. ReadFamily(f) = f
      BY DEF ReadFamily
    <2>3. b \in [1 .. Len(b) -> Byte]
      OBVIOUS
    <2> HIDE DEF f
    <2>4. [c EXCEPT ![2] = ReadFamily(c[2])] = c
      <3>1. CASE 2 \in 1 .. Len(b)
        <4>1. c[2] = f
          BY <2>3, <3>1
        <4>2. [c EXCEPT ![2] = f] = c
          BY <2>3
        <4> QED
          BY <2>2, <4>1, <4>2
      <3>2. CASE 2 \notin 1 .. Len(b)
        BY <2>3, <3>2
      <3> QED
        BY <3>1, <3>2
    <2> QED
      BY <2>1, <2>4
  <1>2. CASE k \notin XorKinds
    BY <1>2 DEF Settled
  <1> QED
    BY <1>1, <1>2

(* The bytes of a legal object are settled from the first.                    *)
LEMMA LegalIsSettled ==
    ASSUME NEW k \in Kinds, NEW a \in Objects(k), Legal(a)
    PROVE  Settled(k, Body(a)) = Body(a)
  <1>1. CASE k \in XorKinds
    <2> DEFINE b == Body(a)
               f == a.value.address.family
    <2>1. a.kind = k /\ a.value \in XorValues /\ b = XorBody(a.value)
      BY <1>1, ObjectParts, BodyOfObject
    <2>2. b \in Seq(Byte) /\ b[2] = f
      BY <2>1, XorBodyParts
    <2>3. f \in {IPv4, IPv6}
      BY <1>1, <2>1 DEF Legal
    <2>4. ReadFamily(f) = f
      BY <2>3 DEF ReadFamily
    <2> HIDE DEF b, f
    <2>5. [b EXCEPT ![2] = b[2]] = b
      <3>1. b \in [1 .. Len(b) -> Byte]
        BY <2>2
      <3> QED
        BY <3>1
    <2>6. Settled(k, b) = [b EXCEPT ![2] = ReadFamily(b[2])]
      BY <1>1 DEF Settled
    <2> QED
      BY <2>2, <2>4, <2>5, <2>6 DEF b
  <1>2. CASE k \notin XorKinds
    BY <1>2 DEF Settled
  <1> QED
    BY <1>1, <1>2

(* The bytes of a legal object say what it is, but for the transaction an IPv6  *)
(* address was made for.                                                     *)
LEMMA BodySaysAll ==
    ASSUME NEW k \in Kinds, NEW a \in Objects(k), NEW c \in Objects(k),
           Legal(a), Legal(c), Body(a) = Body(c)
    PROVE  SameValue(a, c) <=> ~Bound(c) \/ a.value.tid = c.value.tid
  <1>1. CASE k \in XorKinds
    <2>1. /\ a.kind = k /\ c.kind = k /\ a.value \in XorValues /\ c.value \in XorValues
          /\ XorBody(a.value) = XorBody(c.value)
      BY <1>1, ObjectParts, BodyOfObject
    <2>2. /\ a.value.address.family = c.value.address.family
          /\ a.value.address = c.value.address
                <=> a.value.address.family = IPv4 \/ a.value.tid = c.value.tid
      BY <2>1, XorSameBody
    <2>3. c.value.address.family \in {IPv4, IPv6} /\ IPv4 # IPv6
      <3>1. c.value.address.family \in {IPv4, IPv6}
        BY <1>1, <2>1 DEF Legal
      <3>2. IPv4 # IPv6
        BY DEF IPv4, IPv6
      <3> QED
        BY <3>1, <3>2
    <2>4. SameValue(a, c) <=> a.value.address = c.value.address
      BY <1>1, <2>1 DEF SameValue
    <2>5. Bound(c) <=> c.value.address.family = IPv6
      BY <1>1, <2>1 DEF Bound
    <2> QED
      BY <2>2, <2>3, <2>4, <2>5
  <1>2. CASE k \notin XorKinds
    <2>1. /\ k \in PlainKinds /\ a = Attr(k, a.value) /\ a.value \in PlainValues(k)
          /\ c = Attr(k, c.value) /\ c.value \in PlainValues(k)
          /\ a.kind = k /\ c.kind = k
      BY <1>2, ObjectParts
    <2>2. Body(a) = PlainBody(a) /\ Body(c) = PlainBody(c)
      BY <1>2, BodyOfObject
    <2>3. PlainDecode(k, PlainBody(a)) = a /\ PlainDecode(k, PlainBody(c)) = c
      BY <2>1, PlainSound DEF Sound
    <2>4. a = c
      BY <2>2, <2>3
    <2> QED
      BY <1>2, <2>1, <2>4 DEF SameValue, Bound
  <1> QED
    BY <1>1, <1>2

-----------------------------------------------------------------------------
(* The steps. *)

(* What a constructor makes is an object of the class.                       *)
LEMMA MadeIsObject ==
    ASSUME NEW v \in Values, tid \in TransactionIds
    PROVE  Made(v) \in Objects(v.kind)
  <1>1. CASE /\ v.kind \in PlainKinds /\ v \in Objects(v.kind)
    <2>1. v.kind \notin XorKinds
      BY <1>1, KindNames DEF Kinds
    <2> QED
      BY <1>1, <2>1 DEF Made
  <1>2. CASE \E k \in XorKinds : v \in [kind : {k}, value : StunAddress]
    <2>1. v.kind \in XorKinds /\ v.value \in StunAddress
      BY <1>2
    <2>2. Made(v) = [kind |-> v.kind, value |-> [address |-> v.value, tid |-> tid]]
      BY <2>1 DEF Made, Attr
    <2>3. [address |-> v.value, tid |-> tid] \in XorValues
      BY <2>1 DEF XorValues
    <2> QED
      BY <2>1, <2>2, <2>3 DEF Objects
  <1> QED
    BY <1>1, <1>2, RelayAssumption

(* The invariant holds at first, and after a call of every operation.        *)
LEMMA InitHolds == Init => IInv
  <1> SUFFICES ASSUME Init PROVE IInv
    OBVIOUS
  <1>1. 0 \in 0 .. MaxHops
    BY RelayAssumption
  <1>2. <<>> \in Seq(Byte)
    BY EmptySeq
  <1>3. TypeOK
    BY <1>1, <1>2 DEF Init, TypeOK
  <1>4. Journey
    BY DEF Init, Journey
  <1>5. AcceptedIsLegal /\ LegalNeverRejected
    BY DEF Init, AcceptedIsLegal, LegalNeverRejected
  <1> QED
    BY <1>3, <1>4, <1>5 DEF IInv

LEMMA TidTyped ==
    ASSUME TypeOK
    PROVE  tid \in TransactionIds
  BY RelayAssumption DEF TypeOK

LEMMA MakeKeeps ==
    ASSUME IInv, Make
    PROVE  IInv'
  <1>1. PICK v \in Values : v.kind = kind /\ attr' = Made(v) /\ original' = attr'
    BY DEF Make
  <1>2. /\ stage = "start" /\ stage' = "held" /\ kind' = kind /\ wire' = wire
        /\ tid' = tid /\ sent' = sent /\ hops' = hops
    BY DEF Make
  <1>3. TypeOK /\ attr = Nothing /\ original = Nothing /\ sent = Nothing /\ hops = 0
    BY <1>2 DEF IInv, Journey
  <1>4. attr' \in Objects(kind) /\ original' = attr' /\ kind \in Kinds
    BY <1>1, <1>3, TidTyped, MadeIsObject DEF TypeOK
  <1>5. attr' # Nothing
    BY <1>4, ObjectParts
  <1>6. TypeOK'
    BY <1>2, <1>3, <1>4 DEF TypeOK
  <1>7. Journey'
    <2>1. /\ Body(attr)' = Passed(kind, hops, Body(original))'
          /\ Legal(original)' => Legal(attr)'
      BY <1>2, <1>3, <1>4 DEF Passed
    <2> QED
      BY <1>2, <1>3, <1>4, <1>5, <2>1 DEF Journey
  <1>8. AcceptedIsLegal' /\ LegalNeverRejected'
    BY <1>2, <1>3 DEF AcceptedIsLegal, LegalNeverRejected
  <1> QED
    BY <1>6, <1>7, <1>8 DEF IInv

LEMMA ReceiveKeeps ==
    ASSUME IInv, Receive
    PROVE  IInv'
  <1>1. PICK input \in Inputs : input.kind = kind /\ wire' = input.bytes
    BY DEF Receive
  <1>2. /\ stage = "start" /\ stage' = "wire" /\ kind' = kind /\ attr' = attr
        /\ tid' = tid /\ original' = original /\ sent' = sent /\ hops' = hops
    BY DEF Receive
  <1>3. TypeOK /\ attr = Nothing /\ original = Nothing /\ sent = Nothing /\ hops = 0
    BY <1>2 DEF IInv, Journey
  <1>4. wire' \in Seq(Byte)
    BY <1>1, RelayAssumption
  <1>5. 0 < MaxHops
    BY RelayAssumption
  <1>6. TypeOK'
    BY <1>2, <1>3, <1>4 DEF TypeOK
  <1>7. Journey'
    BY <1>2, <1>3, <1>5 DEF Journey
  <1>8. AcceptedIsLegal' /\ LegalNeverRejected'
    BY <1>2, <1>3 DEF AcceptedIsLegal, LegalNeverRejected
  <1> QED
    BY <1>6, <1>7, <1>8 DEF IInv

LEMMA EncodeKeeps ==
    ASSUME IInv, Encode
    PROVE  IInv'
  <1>1. /\ stage = "held" /\ hops < MaxHops /\ stage' = "wire" /\ wire' = Body(attr)
        /\ sent' = (IF sent = Nothing THEN [bytes |-> wire'] ELSE sent)
        /\ kind' = kind /\ attr' = attr /\ tid' = tid /\ original' = original
        /\ hops' = hops
    BY DEF Encode
  <1>2. /\ TypeOK /\ attr # Nothing /\ original # Nothing /\ kind \in Kinds
        /\ attr \in Objects(kind)
        /\ original \in Objects(kind)
        /\ Body(attr) = Passed(kind, hops, Body(original))
        /\ Legal(original) => Legal(attr)
        /\ sent # Nothing =>
              Passed(kind, hops, sent.bytes) = Passed(kind, hops, Body(original))
    BY <1>1 DEF IInv, Journey, TypeOK
  <1>3. wire' \in Seq(Byte)
    BY <1>1, <1>2, BodyOfObject
  <1>4. /\ sent' \in [bytes : Seq(Byte)]
        /\ Passed(kind, hops, sent'.bytes) = Passed(kind, hops, Body(original))
    <2>1. CASE sent = Nothing
      <3>1. sent' = [bytes |-> wire']
        BY <1>1, <2>1
      <3>2. sent'.bytes = Passed(kind, hops, Body(original))
        BY <1>1, <1>2, <3>1
      <3>3. Body(original) \in Seq(Byte)
        BY <1>2, BodyOfObject
      <3> QED
        BY <1>3, <3>1, <3>2, <3>3, SettledTwice DEF Passed
    <2>2. CASE sent # Nothing
      <3>1. sent' = sent
        BY <1>1, <2>2
      <3> QED
        BY <1>2, <2>2, <3>1 DEF TypeOK
    <2> QED
      BY <2>1, <2>2
  <1>5. TypeOK'
    BY <1>1, <1>2, <1>3, <1>4 DEF TypeOK
  <1>6. Journey'
    <2>1. /\ Body(attr)' = Body(attr) /\ Body(original)' = Body(original)
          /\ Legal(attr)' = Legal(attr) /\ Legal(original)' = Legal(original)
      BY <1>1 DEF Body, Legal
    <2>2. /\ Passed(kind, hops, Body(original))' = Passed(kind, hops, Body(original))
          /\ Passed(kind, hops, sent.bytes)' = Passed(kind, hops, sent'.bytes)
      BY <1>1, <2>1
    <2> QED
      BY <1>1, <1>2, <1>4, <2>1, <2>2 DEF Journey
  <1>7. AcceptedIsLegal' /\ LegalNeverRejected'
    <2>1. Legal(attr)' = Legal(attr)
      BY <1>1 DEF Legal
    <2> QED
      BY <1>1, <2>1 DEF IInv, AcceptedIsLegal, LegalNeverRejected
  <1> QED
    BY <1>5, <1>6, <1>7 DEF IInv

LEMMA DecodeKeeps ==
    ASSUME IInv, Decode
    PROVE  IInv'
  <1> DEFINE d == Decoded(kind, wire)
  <1>1. /\ stage = "wire" /\ attr' = d /\ hops' = hops + 1
        /\ kind' = kind /\ wire' = wire /\ tid' = tid /\ sent' = sent
        /\ d = Nothing => stage' = "rejected" /\ original' = original
        /\ d # Nothing => /\ stage' = "held"
                          /\ original' = IF original = Nothing THEN d ELSE original
    BY DEF Decode
  <1>2. /\ TypeOK /\ hops < MaxHops /\ kind \in Kinds /\ wire \in Seq(Byte)
        /\ tid \in TransactionIds
        /\ original = Nothing => attr = Nothing /\ sent = Nothing /\ hops = 0
        /\ original # Nothing =>
              /\ attr # Nothing /\ attr \in Objects(kind) /\ wire = Body(attr)
              /\ original \in Objects(kind)
              /\ Body(attr) = Passed(kind, hops, Body(original))
              /\ Legal(original) => Legal(attr)
        /\ sent # Nothing =>
              /\ original # Nothing
              /\ Passed(kind, hops, sent.bytes) = Passed(kind, hops, Body(original))
        /\ sent = Nothing \/ sent \in [bytes : Seq(Byte)]
    BY <1>1, TidTyped DEF IInv, Journey, TypeOK
  <1>3. \/ d = Nothing
        \/ d \in Objects(kind) /\ Legal(d)
    BY <1>2, DecodedIsLegal
  <1>4. original # Nothing =>
          /\ Legal(attr) => d # Nothing
          /\ d # Nothing => Body(d) = Settled(kind, Body(original))
    <2> SUFFICES ASSUME original # Nothing
                 PROVE  /\ Legal(attr) => d # Nothing
                        /\ d # Nothing => Body(d) = Settled(kind, Body(original))
      OBVIOUS
    <2>1. d = Decoded(kind, Body(attr))
      BY <1>2
    <2> HIDE DEF d
    <2>2. /\ Legal(attr) => d # Nothing
          /\ d # Nothing => Body(d) = Settled(kind, Body(attr))
      BY <1>2, <2>1, DecodedKeepsBody
    <2>3. Body(original) \in Seq(Byte)
      BY <1>2, BodyOfObject
    <2>4. Settled(kind, Body(attr)) = Settled(kind, Body(original))
      BY <1>2, <2>3, SettledTwice DEF Passed
    <2> QED
      BY <2>2, <2>4
  <1> HIDE DEF d
  <1>11. /\ hops + 1 # 0
         /\ sent # Nothing =>
               Settled(kind, sent.bytes) = Settled(kind, Body(original))
    <2>1. hops \in Nat
      BY <1>2, RelayAssumption DEF TypeOK
    <2>2. ASSUME sent # Nothing
          PROVE  Settled(kind, sent.bytes) = Settled(kind, Body(original))
      <3>1. sent.bytes \in Seq(Byte) /\ Body(original) \in Seq(Byte)
        BY <1>2, <2>2, BodyOfObject
      <3>2. CASE hops = 0
        BY <1>2, <2>2, <3>2 DEF Passed
      <3>3. CASE hops # 0
        BY <1>2, <2>2, <3>3 DEF Passed
      <3> QED
        BY <3>2, <3>3
    <2> QED
      BY <2>1, <2>2
  <1>5. hops + 1 \in 0 .. MaxHops
    BY <1>2, RelayAssumption DEF TypeOK
  <1>6. original' = Nothing \/ original' \in Objects(kind)
    BY <1>1, <1>2, <1>3
  <1>7. TypeOK'
    BY <1>1, <1>2, <1>3, <1>5, <1>6 DEF TypeOK
  <1>12. /\ Passed(kind, hops, Body(original))' = Settled(kind, Body(original)')
         /\ Passed(kind, hops, sent.bytes)' = Settled(kind, sent.bytes)
    BY <1>1, <1>11 DEF Passed
  <1>8. Journey'
    <2>1. CASE d = Nothing
      <3>1. stage' = "rejected" /\ original' = original
        BY <1>1, <2>1
      <3>2. Body(original)' = Body(original)
        BY <3>1 DEF Body
      <3> QED
        BY <1>1, <1>2, <1>11, <1>12, <3>1, <3>2 DEF Journey
    <2>2. CASE d # Nothing
      <3>1. /\ stage' = "held" /\ attr' # Nothing /\ original' # Nothing
            /\ original' = IF original = Nothing THEN d ELSE original
        BY <1>1, <2>2
      <3>2. Body(attr)' = Body(d) /\ Legal(attr)' = Legal(d)
        BY <1>1 DEF Body, Legal
      <3>3. Body(d) = Settled(kind, Body(original)')
        <4>1. CASE original = Nothing
          <5>1. Body(original)' = Body(d)
            BY <3>1, <4>1 DEF Body
          <5>2. Settled(kind, Body(d)) = Body(d)
            BY <1>2, <1>3, <2>2, LegalIsSettled
          <5> QED
            BY <5>1, <5>2
        <4>2. CASE original # Nothing
          <5>1. Body(original)' = Body(original)
            BY <3>1, <4>2 DEF Body
          <5> QED
            BY <1>4, <2>2, <4>2, <5>1
        <4> QED
          BY <4>1, <4>2
      <3>4. original # Nothing => Body(original)' = Body(original)
        BY <3>1 DEF Body
      <3>5. Body(attr)' = Passed(kind, hops, Body(original))'
        BY <1>12, <3>2, <3>3
      <3>6. sent' # Nothing =>
              /\ original' # Nothing
              /\ Passed(kind, hops, sent.bytes)' = Passed(kind, hops, Body(original))'
        BY <1>1, <1>2, <1>11, <1>12, <3>1, <3>4
      <3>7. Legal(original)' => Legal(attr)'
        BY <1>3, <2>2, <3>2
      <3> QED
        BY <3>1, <3>5, <3>6, <3>7 DEF Journey
    <2> QED
      BY <2>1, <2>2
  <1>9. AcceptedIsLegal'
    <2>1. Legal(attr)' = Legal(d)
      BY <1>1 DEF Legal
    <2> QED
      BY <1>1, <1>3, <2>1 DEF AcceptedIsLegal
  <1>10. LegalNeverRejected'
    <2> SUFFICES ASSUME stage' = "rejected", original' # Nothing
                 PROVE  ~Legal(original)'
      BY DEF LegalNeverRejected
    <2>1. d = Nothing /\ original' = original
      BY <1>1
    <2>2. ~Legal(original)
      BY <1>2, <1>4, <2>1
    <2> QED
      BY <2>1, <2>2 DEF Legal
  <1> QED
    BY <1>7, <1>8, <1>9, <1>10 DEF IInv

LEMMA NewMessageKeeps ==
    ASSUME IInv, NewMessage
    PROVE  IInv'
  <1>1. /\ tid' \in Transactions /\ stage' = stage /\ kind' = kind /\ attr' = attr
        /\ wire' = wire /\ original' = original /\ sent' = sent /\ hops' = hops
    BY DEF NewMessage
  <1>2. TypeOK'
    BY <1>1 DEF IInv, TypeOK
  <1>3. /\ Body(attr)' = Body(attr) /\ Body(original)' = Body(original)
        /\ Legal(attr)' = Legal(attr) /\ Legal(original)' = Legal(original)
    BY <1>1 DEF Body, Legal
  <1>4. Journey'
    <2>1. /\ Passed(kind, hops, Body(original))' = Passed(kind, hops, Body(original))
          /\ Passed(kind, hops, sent.bytes)' = Passed(kind, hops, sent.bytes)
      BY <1>1, <1>3
    <2> QED
      BY <1>1, <1>3, <2>1 DEF IInv, Journey
  <1>5. AcceptedIsLegal' /\ LegalNeverRejected'
    BY <1>1, <1>3 DEF IInv, AcceptedIsLegal, LegalNeverRejected
  <1> QED
    BY <1>2, <1>4, <1>5 DEF IInv

LEMMA StutterKeeps ==
    ASSUME IInv, UNCHANGED vars
    PROVE  IInv'
  BY DEF IInv, vars, TypeOK, Journey, AcceptedIsLegal, LegalNeverRejected

LEMMA StepKeeps == IInv /\ [Next]_vars => IInv'
  BY MakeKeeps, ReceiveKeeps, EncodeKeeps, DecodeKeeps, NewMessageKeeps, StutterKeeps
  DEF Next

(* The invariant of the journey of an attribute through any number of agents,  *)
(* for all values applications can make, an address of any family among them,  *)
(* and all bytes that can arrive: what is held says what was first encoded, but *)
(* for the family byte of an address of neither family.                        *)
THEOREM RelayInvariant == Spec => []IInv
  BY InitHolds, StepKeeps, PTL DEF Spec

(* TypeOK of Relay: every object holds what the members of its class can     *)
(* hold, and                                                                 *)
(* bytes are on the wire (the members of the classes of                      *)
(* include/stunxx/attributes/).                                              *)
THEOREM RelayTyped == Spec => []TypeOK
  <1>1. IInv => TypeOK
    BY DEF IInv
  <1> QED
    BY <1>1, RelayInvariant, PTL

(* What decode() accepts is legal, whatever bytes arrive (decode() of every  *)
(* class).                                                                   *)
THEOREM AcceptedLegal == Spec => []AcceptedIsLegal
  <1>1. IInv => AcceptedIsLegal
    BY DEF IInv
  <1> QED
    BY <1>1, RelayInvariant, PTL

(* A legal attribute is never rejected further on, by whatever agent         *)
(* (encode() and                                                             *)
(* decode() of every class).                                                 *)
THEOREM NeverRejected == Spec => []LegalNeverRejected
  <1>1. IInv => LegalNeverRejected
    BY DEF IInv
  <1> QED
    BY <1>1, RelayInvariant, PTL

(* A legal attribute arrives as it left; an IPv6 address if and only if its  *)
(* message                                                                   *)
(* has the transaction id it was made with                                   *)
(* (XorAddressAttrT.hpp:125-139,157-162).                                    *)
THEOREM Arrives == Spec => []ArrivesAsItLeft
  <1>1. ASSUME IInv
        PROVE  ArrivesAsItLeft
    <2> SUFFICES ASSUME stage = "held", Legal(original)
                 PROVE  SameValue(attr, original)
                          <=> ~Bound(original) \/ attr.value.tid = original.value.tid
      BY DEF ArrivesAsItLeft
    <2>1. /\ kind \in Kinds /\ attr \in Objects(kind) /\ original \in Objects(kind)
          /\ Body(attr) = Passed(kind, hops, Body(original)) /\ Legal(attr)
      BY <1>1 DEF IInv, TypeOK, Journey
    <2>2. Body(attr) = Body(original)
      BY <2>1, LegalIsSettled DEF Passed
    <2> QED
      BY <2>1, <2>2, BodySaysAll
  <1> QED
    BY <1>1, RelayInvariant, PTL

(* Passing an attribute on does not change its bytes, legal or not; only the   *)
(* family byte of an address of neither IPv4 nor IPv6 is IPv6's from the first  *)
(* decode() on (encode() and decode() of every class,                          *)
(* XorAddressAttrT.hpp:48,125-146,155).                                        *)
THEOREM BytesKept == Spec => []BytesStable
  <1>1. ASSUME IInv
        PROVE  BytesStable
    <2> SUFFICES ASSUME stage = "wire", sent # Nothing
                 PROVE  wire = Passed(kind, hops, sent.bytes)
      BY DEF BytesStable
    <2> QED
      BY <1>1 DEF IInv, Journey
  <1> QED
    BY <1>1, RelayInvariant, PTL
=============================================================================

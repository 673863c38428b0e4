------------------------------ MODULE StunWire ------------------------------
(***************************************************************************)
(* The wire format of a STUN message (include/stunxx/Stun.hpp): the sizes,  *)
(* the 16-bit length arithmetic, the classification of attribute types       *)
(* shared by the encoder and the decoder, and the message type.              *)
(*                                                                         *)
(* A message is a 20-byte header, whose length field counts the bytes that  *)
(* follow it, and then attributes: a 4-byte header (type, length) and a     *)
(* value padded with zeros to a multiple of 4 bytes.                        *)
(***************************************************************************)
EXTENDS Integers, Sequences, FiniteSets

STUN_HEADER_SIZE == 20
ATTR_HEADER_SIZE == 4

(* std::uint16_t and the conversion to it. *)
MaxUInt16 == 65535
UInt16 == 0 .. MaxUInt16
ToUInt16(n) == n % (MaxUInt16 + 1)

(* (n + 3) & ~0x03 *)
Padded(n) == ((n + 3) \div 4) * 4

(* What the attribute with a value of n bytes takes on the wire. *)
AttrSize(n) == ATTR_HEADER_SIZE + Padded(n)

(* AttrHeader as it is on the wire, and where one can be read in a buffer of  *)
(* n bytes: attributes start on whole words behind the header.               *)
WireAttr == [type : UInt16, len : UInt16]
Slots(n) == {o \in STUN_HEADER_SIZE .. n : o % 4 = 0 /\ o + ATTR_HEADER_SIZE <= n}

(* v lists, in their order, the values that f has at the places in I. *)
Rank(I, i) == Cardinality({j \in I : j <= i})
Lists(v, f, I) == Len(v) = Cardinality(I) /\ \A i \in I : v[Rank(I, i)] = f[i]

-----------------------------------------------------------------------------
(* The members of StunAttrType, in the order of is_known_attr_type. *)
is_known_attr_type(t) ==
    t \in { \* comprehension-required
            1, 6, 8, 9, 10, 20, 21, 23, 28, 29, 30, 32, 36, 37,
            \* comprehension-optional, 0x8000 and above
            32768, 32769, 32770, 32771, 32802, 32803, 32808, 32809, 32810,
            \* TURN
            12, 13, 18, 19, 22, 24, 25, 26, 34, 42 }

(* (type & 0x8000) == 0, for a 16-bit type *)
is_comprehension_required(t) == t < 32768

(* The sealing attributes: MESSAGE-INTEGRITY (SHA-1), MESSAGE-INTEGRITY-SHA256 *)
(* and FINGERPRINT, with the fixed size of their values.                       *)
MessageIntegrity       == [type |-> 8,     size |-> 20]
MessageIntegritySHA256 == [type |-> 28,    size |-> 32]
Fingerprint            == [type |-> 32808, size |-> 4]

-----------------------------------------------------------------------------
(* The message type: the two class bits and, around them, the method.  The   *)
(* methods have none of the class bits, so the | of a builder is a sum.       *)
StunClass == [Request |-> 0, Indication |-> 16, SuccessResp |-> 256, ErrorResp |-> 272]
StunMethod == {1, 3, 4, 6, 7, 8, 9, 10, 11, 12}
MessageType(method, cls) == method + StunClass[cls]

(* The bit of n that mask, a power of two, selects. *)
Bit(n, mask) == (n \div mask) % 2

(* & STUN_CLASS_MASK (0x0110), and & ~STUN_CLASS_MASK *)
messageClass_bug(type) == Bit(type, 16) * 16
messageClass(type) == Bit(type, 256) * 256 + Bit(type, 16) * 16
messageMethod(type) == type - messageClass(type)

is_response(class) == Bit(class, 256) # 0
is_request(class) == messageClass(class) = 0
is_indication(class) == messageClass(class) = 16
=============================================================================

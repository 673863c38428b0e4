--------------------------- MODULE EncoderProofs ----------------------------
(***************************************************************************)
(* The invariants of Encoder, for a buffer of any size and for any set of   *)
(* attributes.  Every call either leaves the attributes alone or appends    *)
(* one (lemma StepShape); the invariants are proved from that.              *)
(***************************************************************************)
EXTENDS Encoder, StunWireProofs, SequenceTheorems, TLAPS

(* The seals are whole words already. *)
LEMMA SealSizes ==
    /\ \A mi \in IntegrityKinds :
          /\ mi.type \in UInt16
          /\ mi.type # Fingerprint.type
          /\ mi.size \in UInt16
          /\ ATTR_HEADER_SIZE + mi.size = AttrSize(mi.size)
          /\ ToUInt16(mi.size) = mi.size
    /\ Fingerprint.type \in UInt16
    /\ Fingerprint.size \in UInt16
    /\ FingerprintSize = AttrSize(Fingerprint.size)
    /\ ToUInt16(Fingerprint.size) = Fingerprint.size
  <1>1. \A n \in Nat : n <= 32808 => n \in UInt16
    BY UInt16Range DEF MaxUInt16
  <1> QED
    BY <1>1
    DEF IntegrityKinds, MessageIntegrity, MessageIntegritySHA256, Fingerprint,
        FingerprintSize, ATTR_HEADER_SIZE, AttrSize, Padded, ToUInt16, MaxUInt16

-----------------------------------------------------------------------------
(* A call that appends an attribute. *)
Grows(type, len, cover) ==
    /\ HasRoom(AttrSize(len))
    /\ Place(type, len, AttrSize(len), cover)
    /\ has_fingerprint' =
         IF cover # NotCovering /\ type = Fingerprint.type
           THEN TRUE ELSE has_fingerprint
    /\ has_message_integrity' =
         IF cover # NotCovering /\ type # Fingerprint.type
           THEN TRUE ELSE has_message_integrity
    /\ cover # NotCovering /\ type = Fingerprint.type => ~has_fingerprint
    /\ cover # NotCovering => AttrSize(len) = ATTR_HEADER_SIZE + ToUInt16(len)

(* What the length of a message after total more bytes is. *)
LEMMA LengthWithValue ==
    ASSUME TypeOK, NEW total \in Nat
    PROVE  /\ LengthWith(total) = LengthField(offset + total)
           /\ LengthWith(total) \in UInt16
           /\ LengthWith(total) # NotCovering
           /\ STUN_HEADER_SIZE + LengthWith(total) <= offset + total
  <1>1. /\ offset \in Nat
        /\ offset - STUN_HEADER_SIZE \in Nat
        /\ (offset + total) - STUN_HEADER_SIZE \in Nat
        /\ offset - STUN_HEADER_SIZE + total = (offset + total) - STUN_HEADER_SIZE
    BY DEF TypeOK, STUN_HEADER_SIZE
  <1>2. LengthWith(total) = LengthField(offset + total)
    BY <1>1 DEF LengthWith, stunSize, LengthField, ToUInt16, MaxUInt16,
                STUN_HEADER_SIZE
  <1>3. /\ LengthWith(total) \in UInt16
        /\ LengthWith(total) <= (offset + total) - STUN_HEADER_SIZE
    BY <1>1, <1>2, ToUInt16Bounds DEF LengthField
  <1>4. LengthWith(total) \in Nat
    BY <1>3, UInt16Range
  <1>5. LengthWith(total) # NotCovering
    BY <1>4 DEF NotCovering
  <1>6. STUN_HEADER_SIZE + LengthWith(total) <= offset + total
    BY <1>1, <1>3, <1>4 DEF STUN_HEADER_SIZE
  <1> QED
    BY <1>2, <1>3, <1>5, <1>6

(* What each call does to the attributes: nothing, or it appends one.          *)
LEMMA AddShape ==
    ASSUME TypeOK, NEW a \in Attributes, AddAttribute(a)
    PROVE  \/ UNCHANGED <<offset, body, has_fingerprint, has_message_integrity>>
           \/ Grows(a.type, a.len, NotCovering)
  BY DEF AddAttribute, Fails, CanPlace, Grows

LEMMA IntegrityShape ==
    ASSUME TypeOK, NEW mi \in IntegrityKinds, NEW keyed \in BOOLEAN,
           AddIntegrity(mi, keyed)
    PROVE  \/ UNCHANGED <<offset, body, has_fingerprint, has_message_integrity>>
           \/ Grows(mi.type, mi.size, LengthWith(AttrSize(mi.size)))
  <1>1. AttrSize(mi.size) \in Nat
    BY SealSizes, PaddedBounds, UInt16Range
  <1>2. LengthWith(AttrSize(mi.size)) # NotCovering
    BY <1>1, LengthWithValue
  <1> QED
    BY <1>2, SealSizes DEF AddIntegrity, Fails, Grows, TypeOK

LEMMA FingerprintShape ==
    ASSUME TypeOK, AddFingerprint
    PROVE  \/ UNCHANGED <<offset, body, has_fingerprint, has_message_integrity>>
           \/ Grows(Fingerprint.type, Fingerprint.size,
                    LengthWith(AttrSize(Fingerprint.size)))
  <1>1. AttrSize(Fingerprint.size) \in Nat
    BY SealSizes, PaddedBounds, UInt16Range
  <1>2. LengthWith(AttrSize(Fingerprint.size)) # NotCovering
    BY <1>1, LengthWithValue
  <1> QED
    BY <1>2, SealSizes
    DEF AddFingerprint, CanFingerprint, Fails, Grows, FingerprintSize, TypeOK

(* Every step leaves the attributes and the flags alone or appends one         *)
(* attribute, with a computed value or not.                                   *)
LEMMA StepShape ==
    ASSUME TypeOK, [Next]_vars
    PROVE  \/ UNCHANGED <<offset, body, has_fingerprint, has_message_integrity>>
           \/ \E type \in UInt16, len \in Nat :
                \E cover \in {NotCovering, LengthWith(AttrSize(len))} :
                    Grows(type, len, cover)
  <1>1. \A a \in Attributes : a.type \in UInt16 /\ a.len \in Nat
    BY AttributesAssumption
  <1>2. CASE Finalize
    BY <1>2 DEF Finalize
  <1>3. CASE UNCHANGED vars
    BY <1>3 DEF vars
  <1> QED
    BY <1>1, <1>2, <1>3, AddShape, IntegrityShape, FingerprintShape, SealSizes,
       UInt16Range DEF Next

(* Every step leaves the header alone or writes into it the length of a      *)
(* message that fits in the buffer.                                          *)
LEMMA HeaderShape ==
    ASSUME TypeOK, [Next]_vars
    PROVE  \/ UNCHANGED <<msg_length, wire>>
           \/ \E total \in Nat : HasRoom(total) /\ WriteHeader(LengthWith(total))
  <1>1. ASSUME NEW a \in Attributes, AddAttribute(a)
        PROVE  UNCHANGED <<msg_length, wire>>
    BY <1>1 DEF AddAttribute, Fails
  <1>2. ASSUME NEW mi \in IntegrityKinds, NEW keyed \in BOOLEAN,
               AddIntegrity(mi, keyed)
        PROVE  \/ UNCHANGED <<msg_length, wire>>
               \/ /\ HasRoom(AttrSize(mi.size))
                  /\ WriteHeader(LengthWith(AttrSize(mi.size)))
    BY <1>2, SealSizes DEF AddIntegrity, Fails
  <1>3. ASSUME AddFingerprint
        PROVE  \/ UNCHANGED <<msg_length, wire>>
               \/ /\ HasRoom(FingerprintSize)
                  /\ WriteHeader(LengthWith(FingerprintSize))
    BY <1>3 DEF AddFingerprint, CanFingerprint, Fails
  <1>4. ASSUME Finalize
        PROVE  \/ UNCHANGED <<msg_length, wire>>
               \/ HasRoom(0) /\ WriteHeader(LengthWith(0))
    <2>1. HasRoom(0)
      BY CapacityAssumption DEF HasRoom, TypeOK
    <2>2. offset - STUN_HEADER_SIZE \in Nat
      BY DEF TypeOK, STUN_HEADER_SIZE
    <2>3. stunSize = LengthWith(0)
      BY <2>2, ToUInt16Sum DEF stunSize, LengthWith, LengthField
    <2> QED
      BY <1>4, <2>1, <2>3 DEF Finalize
  <1>5. CASE UNCHANGED vars
    BY <1>5 DEF vars
  <1>6. /\ 0 \in Nat /\ FingerprintSize \in Nat
        /\ \A mi \in IntegrityKinds : AttrSize(mi.size) \in Nat
    BY SealSizes, PaddedBounds, UInt16Range
  <1> QED
    BY <1>1, <1>2, <1>3, <1>4, <1>5, <1>6 DEF Next

(* Every step returns a result of its call. *)
LEMMA CallReturns ==
    ASSUME TypeOK, [Next]_vars
    PROVE  last' \in [call : Calls, ok : BOOLEAN]
  <1>1. ASSUME NEW call \in Calls, NEW ok \in BOOLEAN, Returns(call, ok)
        PROVE  last' \in [call : Calls, ok : BOOLEAN]
    BY <1>1 DEF Returns
  <1>2. {"add", "integrity", "fingerprint", "finalize"} \subseteq Calls
    BY DEF Calls
  <1>3. CASE \E a \in Attributes : AddAttribute(a)
    BY <1>1, <1>2, <1>3 DEF AddAttribute, Fails
  <1>4. CASE \E mi \in IntegrityKinds, keyed \in BOOLEAN : AddIntegrity(mi, keyed)
    BY <1>1, <1>2, <1>4 DEF AddIntegrity, Fails
  <1>5. CASE AddFingerprint
    BY <1>1, <1>2, <1>5 DEF AddFingerprint, Fails
  <1>6. CASE Finalize
    BY <1>1, <1>2, <1>6 DEF Finalize
  <1>7. CASE UNCHANGED vars
    BY <1>7 DEF TypeOK, vars
  <1> QED
    BY <1>3, <1>4, <1>5, <1>6, <1>7 DEF Next

(* An attribute a step appended: the body is one longer, the rest is as it   *)
(* was.                                                                      *)
LEMMA GrownBody ==
    ASSUME TypeOK, NEW type \in UInt16, NEW len \in Nat,
           NEW cover \in {NotCovering, LengthWith(AttrSize(len))},
           Grows(type, len, cover)
    PROVE  /\ AttrSize(len) \in Nat
           /\ offset' = offset + AttrSize(len)
           /\ body' \in Seq(Placed)
           /\ Len(body) \in Nat
           /\ Len(body') = Len(body) + 1
           /\ \A i \in 1 .. Len(body) : body'[i] = body[i]
           /\ body'[Len(body) + 1].type = type
           /\ body'[Len(body) + 1].len = ToUInt16(len)
           /\ body'[Len(body) + 1].off = offset
           /\ body'[Len(body) + 1].end = offset + AttrSize(len)
           /\ body'[Len(body) + 1].cover = cover
  <1> DEFINE p == [type |-> type, len |-> ToUInt16(len), off |-> offset,
                   end |-> offset + AttrSize(len), cover |-> cover]
  <1>1. AttrSize(len) \in Nat
    BY PaddedBounds, UInt16Range
  <1>2. p \in Placed
    <2>1. cover \in UInt16 \cup {NotCovering}
      BY <1>1, LengthWithValue
    <2>2. offset \in Nat /\ offset + AttrSize(len) \in Nat
      BY <1>1 DEF TypeOK
    <2>3. ToUInt16(len) \in UInt16
      BY ToUInt16Bounds
    <2> QED
      BY <2>1, <2>2, <2>3 DEF Placed
  <1>3. body' = Append(body, p) /\ offset' = offset + AttrSize(len)
    BY DEF Grows, Place
  <1>4. body \in Seq(Placed)
    BY DEF TypeOK
  <1> HIDE DEF p
  <1>5. /\ body' \in Seq(Placed)
        /\ Len(body) \in Nat
        /\ Len(body') = Len(body) + 1
        /\ \A i \in 1 .. Len(body) : body'[i] = body[i]
        /\ body'[Len(body) + 1] = p
    BY <1>2, <1>3, <1>4, AppendProperties, LenProperties
  <1>6. /\ p.type = type /\ p.len = ToUInt16(len) /\ p.cover = cover
        /\ p.off = offset /\ p.end = offset + AttrSize(len)
    BY DEF p
  <1> QED
    BY <1>1, <1>3, <1>5, <1>6

(* The room a step checked for is the room it took. *)
LEMMA TypeStep ==
    ASSUME TypeOK, [Next]_vars
    PROVE  TypeOK'
  <1>1. offset' \in Nat /\ STUN_HEADER_SIZE <= offset' /\ offset' <= Capacity
    <2>1. CASE UNCHANGED <<offset, body, has_fingerprint, has_message_integrity>>
      BY <2>1 DEF TypeOK
    <2>2. ASSUME NEW type \in UInt16, NEW len \in Nat,
                 NEW cover \in {NotCovering, LengthWith(AttrSize(len))},
                 Grows(type, len, cover)
          PROVE  offset' \in Nat /\ STUN_HEADER_SIZE <= offset' /\ offset' <= Capacity
      <3>1. AttrSize(len) \in Nat /\ offset' = offset + AttrSize(len)
        BY <2>2, GrownBody
      <3>2. offset + AttrSize(len) <= Capacity
        BY <2>2 DEF Grows, HasRoom
      <3> QED
        BY <3>1, <3>2 DEF TypeOK, STUN_HEADER_SIZE
    <2> QED
      BY <2>1, <2>2, StepShape
  <1>2. /\ has_message_integrity' \in BOOLEAN
        /\ has_fingerprint' \in BOOLEAN
        /\ body' \in Seq(Placed)
    <2>1. CASE UNCHANGED <<offset, body, has_fingerprint, has_message_integrity>>
      BY <2>1 DEF TypeOK
    <2>2. ASSUME NEW type \in UInt16, NEW len \in Nat,
                 NEW cover \in {NotCovering, LengthWith(AttrSize(len))},
                 Grows(type, len, cover)
          PROVE  /\ has_message_integrity' \in BOOLEAN
                 /\ has_fingerprint' \in BOOLEAN
                 /\ body' \in Seq(Placed)
      <3>1. body' \in Seq(Placed)
        BY <2>2, GrownBody
      <3>2. has_message_integrity' \in BOOLEAN /\ has_fingerprint' \in BOOLEAN
        BY <2>2 DEF Grows, TypeOK
      <3> QED
        BY <3>1, <3>2
    <2> QED
      BY <2>1, <2>2, StepShape
  <1>3. msg_length' \in UInt16 /\ wire' \in UInt16 \cup {NoHeader}
    <2>1. ASSUME NEW total \in Nat, WriteHeader(LengthWith(total))
          PROVE  msg_length' \in UInt16 /\ wire' \in UInt16
      BY <2>1, LengthWithValue DEF WriteHeader
    <2> QED
      BY <2>1, HeaderShape DEF TypeOK
  <1> QED
    BY <1>1, <1>2, <1>3, CallReturns DEF TypeOK

(* Type correctness, whatever the caller adds and in whatever order: in      *)
(* particular the encoder never writes past the buffer (Encoder.hpp:53,70,   *)
(* Encoder.cpp:31).                                                          *)
THEOREM TypeCorrect == Spec => []TypeOK
  <1>1. Init => TypeOK
    <2>1. 0 \in UInt16
      BY UInt16Range DEF MaxUInt16
    <2>2. [call |-> "construct", ok |-> TRUE] \in [call : Calls, ok : BOOLEAN]
      BY DEF Calls
    <2>3. STUN_HEADER_SIZE \in Nat /\ STUN_HEADER_SIZE <= STUN_HEADER_SIZE
      BY DEF STUN_HEADER_SIZE
    <2>4. <<>> \in Seq(Placed)
      OBVIOUS
    <2> QED
      BY <2>1, <2>2, <2>3, <2>4, CapacityAssumption DEF Init, TypeOK
  <1>2. TypeOK /\ [Next]_vars => TypeOK'
    BY TypeStep
  <1> QED
    BY <1>1, <1>2, PTL DEF Spec

-----------------------------------------------------------------------------
(* A property of attributes that holds of those there were and of the one    *)
(* appended holds of them all: the indices of the grown body.                *)
LEMMA GrownIndices ==
    ASSUME TypeOK, NEW type \in UInt16, NEW len \in Nat,
           NEW cover \in {NotCovering, LengthWith(AttrSize(len))},
           Grows(type, len, cover), NEW i \in 1 .. Len(body')
    PROVE  i \in 1 .. Len(body) \/ i = Len(body) + 1
  <1>1. Len(body) \in Nat /\ Len(body') = Len(body) + 1
    BY GrownBody
  <1> QED
    BY <1>1

(* What a value takes beyond the value its header declares is a multiple of   *)
(* 65536 bytes.                                                              *)
LEMMA DeclaredSize ==
    ASSUME NEW n \in Nat
    PROVE  /\ AttrSize(n) - AttrSize(ToUInt16(n)) \in Nat
           /\ (AttrSize(n) - AttrSize(ToUInt16(n))) % (MaxUInt16 + 1) = 0
  <1> DEFINE q == n \div 65536
             r == ToUInt16(n)
  <1>1. q \in Nat /\ r \in Nat
    BY ToUInt16Bounds, UInt16Range
  <1>2. n = 65536 * q + r
    BY DEF ToUInt16, MaxUInt16
  <1> HIDE DEF q, r
  <1>3. (n + 3) \div 4 = 16384 * q + (r + 3) \div 4
    BY <1>1, <1>2
  <1>4. Padded(n) - Padded(r) = 65536 * q
    BY <1>1, <1>3 DEF Padded
  <1>5. Padded(n) \in Nat /\ Padded(r) \in Nat
    BY <1>1, PaddedBounds
  <1>6. AttrSize(n) - AttrSize(r) = 65536 * q
    BY <1>4, <1>5 DEF AttrSize, ATTR_HEADER_SIZE
  <1>7. 65536 * q \in Nat /\ (65536 * q) % 65536 = 0
    BY <1>1
  <1> QED
    BY <1>6, <1>7 DEF r, MaxUInt16

LEMMA ContiguousStep ==
    ASSUME TypeOK, Contiguous, [Next]_vars
    PROVE  Contiguous'
  <1>1. CASE UNCHANGED <<offset, body, has_fingerprint, has_message_integrity>>
    BY <1>1 DEF Contiguous, EndBefore, Undeclared
  <1>2. ASSUME NEW type \in UInt16, NEW len \in Nat,
               NEW cover \in {NotCovering, LengthWith(AttrSize(len))},
               Grows(type, len, cover)
        PROVE  Contiguous'
    <2>1. Len(body) \in Nat /\ Len(body') = Len(body) + 1
      BY <1>2, GrownBody
    <2>2. \A i \in 1 .. Len(body) : body'[i] = body[i]
      BY <1>2, GrownBody
    <2>3. /\ body'[Len(body) + 1].off = offset
          /\ body'[Len(body) + 1].end = offset + AttrSize(len)
          /\ body'[Len(body) + 1].len = ToUInt16(len)
      BY <1>2, GrownBody
    <2>4. \A i \in 1 .. Len(body') : EndBefore(i)' = EndBefore(i)
      BY <2>1, <2>2 DEF EndBefore
    <2>5. ASSUME NEW i \in 1 .. Len(body')
          PROVE  /\ body'[i].off = EndBefore(i)'
                 /\ Undeclared(body'[i]) \in Nat
                 /\ Undeclared(body'[i]) % (MaxUInt16 + 1) = 0
      <3>1. CASE i \in 1 .. Len(body)
        BY <3>1, <2>2, <2>4 DEF Contiguous
      <3>2. CASE i = Len(body) + 1
        <4>1. offset \in Nat /\ AttrSize(len) \in Nat /\ AttrSize(ToUInt16(len)) \in Nat
          BY PaddedBounds, ToUInt16Bounds, UInt16Range DEF TypeOK
        <4>2. Undeclared(body'[i]) = AttrSize(len) - AttrSize(ToUInt16(len))
          BY <3>2, <2>3, <4>1 DEF Undeclared
        <4>3. body'[i].off = EndBefore(i)'
          BY <3>2, <2>1, <2>3, <2>4 DEF Contiguous
        <4> QED
          BY <4>2, <4>3, DeclaredSize
      <3> QED
        BY <3>1, <3>2, <1>2, GrownIndices
    <2>6. offset' = EndBefore(Len(body) + 1)'
      <3>1. Len(body') + 1 # 1 /\ (Len(body') + 1) - 1 = Len(body) + 1
        BY <2>1
      <3>2. EndBefore(Len(body) + 1)' = body'[Len(body) + 1].end
        BY <3>1 DEF EndBefore
      <3>3. offset' = offset + AttrSize(len)
        BY <1>2, GrownBody
      <3> QED
        BY <2>3, <3>2, <3>3
    <2> QED
      BY <2>5, <2>6, Zenon DEF Contiguous, Undeclared
  <1> QED
    BY <1>1, <1>2, StepShape

(* The attributes tile the message, and a header is short of its value by a    *)
(* multiple of 65536 bytes or by none, in a buffer of any size and for values  *)
(* of any size (Encoder.hpp:49-61, UnknownAttributesAttr.hpp:21,38-39).       *)
THEOREM Framing == Spec => []Contiguous
  <1>1. Init => Contiguous
    BY EmptySeq DEF Init, Contiguous, EndBefore
  <1>2. TypeOK /\ Contiguous /\ [Next]_vars => Contiguous'
    BY ContiguousStep
  <1> QED
    BY <1>1, <1>2, TypeCorrect, PTL DEF Spec

LEMMA CoversStep ==
    ASSUME TypeOK, CoversOwnEnd, [Next]_vars
    PROVE  CoversOwnEnd'
  <1>1. CASE UNCHANGED <<offset, body, has_fingerprint, has_message_integrity>>
    BY <1>1 DEF CoversOwnEnd
  <1>2. ASSUME NEW type \in UInt16, NEW len \in Nat,
               NEW cover \in {NotCovering, LengthWith(AttrSize(len))},
               Grows(type, len, cover)
        PROVE  CoversOwnEnd'
    <2> SUFFICES ASSUME NEW i \in 1 .. Len(body'), IsSeal(body'[i])
                 PROVE  body'[i].cover
                          = LengthField(body'[i].end)
      BY DEF CoversOwnEnd
    <2>1. CASE i \in 1 .. Len(body)
      <3>1. body'[i] = body[i]
        BY <2>1, <1>2, GrownBody
      <3> QED
        BY <2>1, <3>1 DEF CoversOwnEnd
    <2>2. CASE i = Len(body) + 1
      <3>1. /\ AttrSize(len) \in Nat
            /\ body'[i].end = offset + AttrSize(len)
            /\ body'[i].cover = cover
        BY <2>2, <1>2, GrownBody
      <3>2. body'[i].cover = LengthWith(AttrSize(len))
        BY <3>1 DEF IsSeal
      <3>3. LengthWith(AttrSize(len))
              = LengthField(offset + AttrSize(len))
        BY <3>1, LengthWithValue
      <3> QED
        BY <3>1, <3>2, <3>3
    <2> QED
      BY <2>1, <2>2, <1>2, GrownIndices
  <1> QED
    BY <1>1, <1>2, StepShape

(* Every seal was computed over a header that ends the message with it       *)
(* (Encoder.hpp:72-78, Encoder.cpp:34-43).                                   *)
THEOREM SealsCoverTheirOwnEnd == Spec => []CoversOwnEnd
  <1>1. Init => CoversOwnEnd
    BY EmptySeq DEF Init, CoversOwnEnd
  <1>2. TypeOK /\ CoversOwnEnd /\ [Next]_vars => CoversOwnEnd'
    BY CoversStep
  <1> QED
    BY <1>1, <1>2, TypeCorrect, PTL DEF Spec

(* The header never declares more than the buffer holds (Encoder.hpp:70-81). *)
THEOREM HeaderStaysInBuffer == Spec => []HeaderInBuffer
  <1>1. Init => HeaderInBuffer
    BY DEF Init, HeaderInBuffer
  <1>2. ASSUME TypeOK, HeaderInBuffer, [Next]_vars
        PROVE  HeaderInBuffer'
    <2>1. CASE UNCHANGED <<msg_length, wire>>
      BY <1>2, <2>1 DEF HeaderInBuffer
    <2>2. ASSUME NEW total \in Nat, HasRoom(total),
                 WriteHeader(LengthWith(total))
          PROVE  HeaderInBuffer'
      <3>1. /\ wire' = LengthWith(total)
            /\ LengthWith(total) \in Nat
            /\ STUN_HEADER_SIZE + LengthWith(total) <= offset + total
        BY <1>2, <2>2, LengthWithValue, UInt16Range DEF WriteHeader
      <3>2. offset + total <= Capacity /\ offset \in Nat
        BY <1>2, <2>2 DEF HasRoom, TypeOK
      <3> QED
        BY <3>1, <3>2, CapacityAssumption DEF HeaderInBuffer, STUN_HEADER_SIZE
    <2> QED
      BY <1>2, <2>1, <2>2, HeaderShape
  <1> QED
    BY <1>1, <1>2, TypeCorrect, PTL DEF Spec

LEMMA FlagsStep ==
    ASSUME TypeOK, SealsFlagged, [Next]_vars
    PROVE  SealsFlagged'
  <1>1. CASE UNCHANGED <<offset, body, has_fingerprint, has_message_integrity>>
    BY <1>1 DEF SealsFlagged
  <1>2. ASSUME NEW type \in UInt16, NEW len \in Nat,
               NEW cover \in {NotCovering, LengthWith(AttrSize(len))},
               Grows(type, len, cover)
        PROVE  SealsFlagged'
    <2> DEFINE n == Len(body) + 1
               p == body'[n]
    <2>1. /\ n \in 1 .. Len(body')
          /\ \A i \in 1 .. Len(body') : i \in 1 .. Len(body) \/ i = n
          /\ \A i \in 1 .. Len(body) :
                i \in 1 .. Len(body') /\ i # n /\ body'[i] = body[i]
      <3>1. Len(body) \in Nat /\ Len(body') = Len(body) + 1
        BY <1>2, GrownBody
      <3>2. \A i \in 1 .. Len(body) : body'[i] = body[i]
        BY <1>2, GrownBody
      <3> QED
        BY <3>1, <3>2
    <2>2. p.type = type /\ p.cover = cover
      BY <1>2, GrownBody
    <2> HIDE DEF n, p
    <2>3. /\ IsFingerprint(p) <=> cover # NotCovering /\ type = Fingerprint.type
          /\ IsIntegrity(p) <=> cover # NotCovering /\ type # Fingerprint.type
      BY <2>2 DEF IsFingerprint, IsIntegrity, IsSeal
    <2>4. /\ has_fingerprint' = IF IsFingerprint(p) THEN TRUE ELSE has_fingerprint
          /\ has_message_integrity' =
               IF IsIntegrity(p) THEN TRUE ELSE has_message_integrity
          /\ IsFingerprint(p) => ~has_fingerprint
      BY <1>2, <2>3 DEF Grows
    <2>5. \A i \in 1 .. Len(body') :
             body'[i] = IF i = n THEN p ELSE body[i]
      BY <2>1 DEF p
    <2>6. has_fingerprint' = (\E i \in 1 .. Len(body') : IsFingerprint(body'[i]))
      BY <2>1, <2>4, <2>5 DEF SealsFlagged, TypeOK
    <2>7. has_message_integrity' = (\E i \in 1 .. Len(body') : IsIntegrity(body'[i]))
      BY <2>1, <2>4, <2>5 DEF SealsFlagged, TypeOK
    <2>8. ASSUME NEW i \in 1 .. Len(body'), NEW j \in 1 .. Len(body'),
                 IsFingerprint(body'[i]), IsFingerprint(body'[j])
          PROVE  i = j
      BY <2>1, <2>4, <2>5, <2>8 DEF SealsFlagged
    <2> QED
      BY <2>6, <2>7, <2>8 DEF SealsFlagged, IsFingerprint, IsIntegrity, IsSeal
  <1> QED
    BY <1>1, <1>2, StepShape

(* The flags tell which seals are in the buffer, and there is at most one    *)
(* FINGERPRINT (Encoder.cpp:26,52, Encoder.hpp:88).                          *)
THEOREM FlagsTellSeals == Spec => []SealsFlagged
  <1>1. Init => SealsFlagged
    <2>1. 1 .. Len(<<>>) = {}
      BY EmptySeq
    <2> QED
      BY <2>1 DEF Init, SealsFlagged
  <1>2. TypeOK /\ SealsFlagged /\ [Next]_vars => SealsFlagged'
    BY FlagsStep
  <1> QED
    BY <1>1, <1>2, TypeCorrect, PTL DEF Spec

(* Without a seal in the message neither flag is set, so finalize() writes   *)
(* the header.                                                               *)
LEMMA UnsealedFlags ==
    ASSUME SealsFlagged, \A i \in 1 .. Len(body) : ~IsSeal(body[i])
    PROVE  ~Sealed
  BY DEF SealsFlagged, Sealed, IsFingerprint, IsIntegrity

(* finalize() declares exactly the attributes of a message without seals,    *)
(* whatever the header was before (Encoder.cpp:56-60).                       *)
THEOREM FinalizeExactWithoutSeals == Spec => []UnsealedFinalizeExact
  <1>1. Init => UnsealedFinalizeExact
    BY DEF Init, UnsealedFinalizeExact
  <1>2. ASSUME SealsFlagged, UnsealedFinalizeExact, [Next]_vars
        PROVE  UnsealedFinalizeExact'
    <2>1. CASE Finalize
      <3>1. UNCHANGED <<offset, body>>
        BY <2>1 DEF Finalize
      <3>2. ASSUME \A i \in 1 .. Len(body) : ~IsSeal(body[i])
            PROVE  wire' = stunSize
        BY <1>2, <2>1, <3>2, UnsealedFlags DEF Finalize, WriteHeader
      <3> QED
        BY <3>1, <3>2 DEF UnsealedFinalizeExact, stunSize, LengthField, IsSeal
    <2>2. CASE \E a \in Attributes : AddAttribute(a)
      BY <2>2 DEF AddAttribute, Fails, Returns, UnsealedFinalizeExact
    <2>3. CASE \E mi \in IntegrityKinds, keyed \in BOOLEAN : AddIntegrity(mi, keyed)
      BY <2>3 DEF AddIntegrity, Fails, Returns, UnsealedFinalizeExact
    <2>4. CASE AddFingerprint
      BY <2>4 DEF AddFingerprint, Fails, Returns, UnsealedFinalizeExact
    <2>5. CASE UNCHANGED vars
      BY <1>2, <2>5 DEF vars, UnsealedFinalizeExact, stunSize, LengthField, IsSeal
    <2> QED
      BY <1>2, <2>1, <2>2, <2>3, <2>4, <2>5 DEF Next
  <1> QED
    BY <1>1, <1>2, FlagsTellSeals, PTL DEF Spec

(* Only a MESSAGE-INTEGRITY, stored or refused, can rewrite the header that  *)
(* a FINGERPRINT was computed over (Encoder.hpp:73-74).                      *)
THEOREM FingerprintStable == Spec => FingerprintBrokenOnlyByIntegrity
  <1>1. ASSUME SealsFlagged, [Next]_vars,
               NEW i \in 1 .. Len(body), IsFingerprint(body[i]), wire' # wire
        PROVE  last'.call = "integrity"
    <2>1. has_fingerprint
      BY <1>1 DEF SealsFlagged
    <2>2. ~AddFingerprint \/ wire' = wire
      BY <2>1 DEF AddFingerprint, CanFingerprint, Fails
    <2>3. ~Finalize \/ wire' = wire
      BY <2>1 DEF Finalize, Sealed
    <2>4. ASSUME NEW a \in Attributes, AddAttribute(a)
          PROVE  wire' = wire
      BY <2>4 DEF AddAttribute, Fails
    <2>5. ASSUME NEW mi \in IntegrityKinds, NEW keyed \in BOOLEAN,
                 AddIntegrity(mi, keyed)
          PROVE  last'.call = "integrity"
      BY <2>5 DEF AddIntegrity, Fails, Returns
    <2> QED
      BY <1>1, <2>2, <2>3, <2>4, <2>5 DEF Next, vars
  <1>2. SealsFlagged /\ [Next]_vars =>
          [\A i \in 1 .. Len(body) :
              IsFingerprint(body[i]) /\ wire = body[i].cover /\ wire' # wire
                  => last'.call = "integrity"]_vars
    BY <1>1
  <1> QED
    BY <1>2, FlagsTellSeals, PTL DEF Spec, FingerprintBrokenOnlyByIntegrity
=============================================================================

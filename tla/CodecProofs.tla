---------------------------- MODULE CodecProofs -----------------------------
(***************************************************************************)
(* What a reader finds in a builder's message, for every buffer, every set of *)
(* attributes and every cut: the attributes that were placed, and the message *)
(* rejected only if it was cut.  The reader's loop is at the end of as many    *)
(* attributes as it has found (Walk); it never reads Filler, because the       *)
(* declared end is the end of an attribute.                                  *)
(***************************************************************************)
EXTENDS Codec, BuilderProofs

-----------------------------------------------------------------------------
(* The attributes lie in the message one behind the other, on whole words. *)
Increasing ==
    /\ offset % 4 = 0
    /\ \A i \in 1 .. Len(body) :
          /\ STUN_HEADER_SIZE <= body[i].off
          /\ body[i].off % 4 = 0
          /\ body[i].off + ATTR_HEADER_SIZE <= body[i].end
          /\ body[i].end <= offset
    /\ \A i, j \in 1 .. Len(body) : i < j => body[i].end <= body[j].off

LEMMA BodyTypes ==
    ASSUME TypeOK
    PROVE  /\ Len(body) \in Nat /\ offset \in Nat
           /\ \A i \in 1 .. Len(body) :
                 /\ body[i].off \in Nat /\ body[i].end \in Nat
                 /\ body[i].type \in UInt16 /\ body[i].len \in UInt16
  <1>1. Len(body) \in Nat /\ \A i \in 1 .. Len(body) : body[i] \in Placed
    BY DEF TypeOK
  <1>2. offset \in Nat
    BY DEF TypeOK
  <1> QED
    BY <1>1, <1>2 DEF Placed

LEMMA WholeWords ==
    ASSUME NEW n \in Nat, NEW o \in Nat, o % 4 = 0
    PROVE  (o + AttrSize(n)) % 4 = 0
  <1>1. Padded(n) \in Nat /\ Padded(n) % 4 = 0
    BY PaddedBounds
  <1>2. (o + (4 + Padded(n))) % 4 = 0
    BY <1>1
  <1> QED
    BY <1>2 DEF AttrSize, ATTR_HEADER_SIZE

LEMMA IncreasingStep ==
    ASSUME TypeOK, Increasing, [Next]_vars
    PROVE  Increasing'
  <1>1. CASE UNCHANGED <<offset, body, has_fingerprint, has_message_integrity>>
    BY <1>1 DEF Increasing
  <1>2. ASSUME NEW type \in UInt16, NEW len \in Nat,
               NEW cover \in {NotCovering, LengthWith(AttrSize(len))},
               Grows(type, len, cover)
        PROVE  Increasing'
    <2> DEFINE n == Len(body)
               total == AttrSize(len)
    <2>1. /\ total \in Nat /\ offset' = offset + total
          /\ n \in Nat /\ Len(body') = n + 1
          /\ \A i \in 1 .. n : body'[i] = body[i]
          /\ body'[n + 1].off = offset /\ body'[n + 1].end = offset + total
      BY <1>2, GrownBody
    <2>2. total >= ATTR_HEADER_SIZE
      BY PaddedBounds
    <2>3. offset' % 4 = 0
      BY <2>1, <2>2, BodyTypes, WholeWords DEF Increasing
    <2>4. /\ offset \in Nat /\ STUN_HEADER_SIZE <= offset /\ offset <= offset'
          /\ offset + ATTR_HEADER_SIZE <= offset + total
      BY <2>1, <2>2 DEF TypeOK, ATTR_HEADER_SIZE
    <2> HIDE DEF n, total
    <2>5. ASSUME NEW i \in 1 .. Len(body')
          PROVE  /\ STUN_HEADER_SIZE <= body'[i].off
                 /\ body'[i].off % 4 = 0
                 /\ body'[i].off + ATTR_HEADER_SIZE <= body'[i].end
                 /\ body'[i].end <= offset'
      <3>1. CASE i \in 1 .. n
        <4>1. /\ body'[i] = body[i] /\ body[i].end \in Nat
              /\ body[i].end <= offset
          BY <2>1, <3>1, BodyTypes DEF Increasing, n
        <4>2. body[i].end <= offset'
          BY <2>1, <2>4, <4>1
        <4> QED
          BY <3>1, <4>1, <4>2 DEF Increasing, n
      <3>2. CASE i = n + 1
        BY <2>1, <2>4, <3>2 DEF Increasing
      <3> QED
        BY <2>1, <3>1, <3>2
    <2>6. ASSUME NEW i \in 1 .. Len(body'), NEW j \in 1 .. Len(body'), i < j
          PROVE  body'[i].end <= body'[j].off
      <3>1. i \in 1 .. n
        BY <2>1, <2>6
      <3>2. CASE j \in 1 .. n
        BY <2>1, <2>6, <3>1, <3>2 DEF Increasing, n
      <3>3. CASE j = n + 1
        BY <2>1, <3>1, <3>3 DEF Increasing, n
      <3> QED
        BY <2>1, <3>2, <3>3
    <2> QED
      BY <2>3, <2>5, <2>6 DEF Increasing
  <1> QED
    BY <1>1, <1>2, StepShape

(* What is known of the message of a builder. *)
Built == TypeOK /\ Contiguous /\ Increasing

LEMMA BuiltInvariant == BuilderSpec => [](Built /\ FinalizeEndsOnAttribute)
  <1>1. Init => Increasing
    <2> SUFFICES ASSUME Init
                 PROVE  Increasing
      OBVIOUS
    <2>1. offset = 20 /\ \A i \in 1 .. Len(body) : FALSE
      BY EmptySeq DEF Init, STUN_HEADER_SIZE
    <2> QED
      BY <2>1 DEF Increasing
  <1>2. TypeOK /\ Increasing /\ [Next]_vars => Increasing'
    BY IncreasingStep
  <1> QED
    BY <1>1, <1>2, BuilderImplementsEncoder, TypeCorrect, Framing,
       FinalizedMessageIsWhole, PTL DEF Spec, Built

(* The ends of the attributes, with the end of the header for the first, grow. *)
(* In a packet no attribute takes more than its header declares.               *)
LEMMA DeclaredExactly ==
    ASSUME Built
    PROVE  \A i \in 1 .. Len(body) : body[i].end = body[i].off + AttrSize(body[i].len)
  <1> SUFFICES ASSUME NEW i \in 1 .. Len(body)
               PROVE  body[i].end = body[i].off + AttrSize(body[i].len)
    OBVIOUS
  <1> DEFINE p == body[i]
  <1>1. /\ p.off \in Nat /\ p.end \in Nat
        /\ STUN_HEADER_SIZE <= p.off /\ p.end <= offset /\ offset \in Nat
    BY BodyTypes DEF Built, Increasing
  <1>2. offset <= 65536
    BY PacketAssumption, CapacityAssumption DEF Built, TypeOK, MAX_PACKET_SIZE
  <1>3. AttrSize(p.len) \in Nat
    BY BodyTypes, UInt16Range, PaddedBounds DEF Built
  <1>4. Undeclared(p) \in Nat /\ Undeclared(p) % (MaxUInt16 + 1) = 0
    BY DEF Built, Contiguous
  <1> HIDE DEF p
  <1>5. Undeclared(p) < 65536
    BY <1>1, <1>2, <1>3 DEF Undeclared, STUN_HEADER_SIZE
  <1>6. Undeclared(p) = 0
    BY <1>4, <1>5 DEF MaxUInt16
  <1>7. p.end = p.off + AttrSize(p.len)
    BY <1>1, <1>3, <1>6 DEF Undeclared
  <1> QED
    BY <1>7 DEF p

LEMMA EndsGrow ==
    ASSUME Built
    PROVE  /\ \A i \in 1 .. Len(body) + 1 :
                 /\ EndBefore(i) \in Nat
                 /\ STUN_HEADER_SIZE <= EndBefore(i)
                 /\ EndBefore(i) <= offset
           /\ \A i, j \in 1 .. Len(body) + 1 : i <= j => EndBefore(i) <= EndBefore(j)
           /\ \A i \in 1 .. Len(body) :
                 /\ EndBefore(i) = body[i].off
                 /\ EndBefore(i + 1) = body[i].end
  <1>1. Len(body) \in Nat /\ offset \in Nat
        /\ \A i \in 1 .. Len(body) : body[i].off \in Nat /\ body[i].end \in Nat
    BY BodyTypes DEF Built
  <1>2. ASSUME NEW i \in 1 .. Len(body)
        PROVE  EndBefore(i) = body[i].off /\ EndBefore(i + 1) = body[i].end
    <2>1. i + 1 # 1 /\ (i + 1) - 1 = i
      OBVIOUS
    <2> QED
      BY <2>1 DEF Built, Contiguous, EndBefore
  <1>3. ASSUME NEW i \in 1 .. Len(body)
        PROVE  STUN_HEADER_SIZE <= body[i].end /\ body[i].off <= body[i].end
               /\ body[i].end <= offset
    <2>1. /\ STUN_HEADER_SIZE <= body[i].off /\ body[i].end <= offset
          /\ body[i].off + ATTR_HEADER_SIZE <= body[i].end
      BY DEF Built, Increasing
    <2> QED
      BY <1>1, <2>1 DEF ATTR_HEADER_SIZE, STUN_HEADER_SIZE
  <1>4. ASSUME NEW i \in 1 .. Len(body) + 1
        PROVE  \/ i = 1 /\ EndBefore(i) = STUN_HEADER_SIZE
               \/ i - 1 \in 1 .. Len(body) /\ EndBefore(i) = body[i - 1].end
    BY <1>1 DEF EndBefore
  <1>5. STUN_HEADER_SIZE \in Nat /\ STUN_HEADER_SIZE <= offset
    BY DEF Built, TypeOK, STUN_HEADER_SIZE
  <1>6. ASSUME NEW i \in 1 .. Len(body) + 1
        PROVE  /\ EndBefore(i) \in Nat
               /\ STUN_HEADER_SIZE <= EndBefore(i)
               /\ EndBefore(i) <= offset
    <2>1. CASE i = 1 /\ EndBefore(i) = STUN_HEADER_SIZE
      BY <1>5, <2>1 DEF STUN_HEADER_SIZE
    <2>2. CASE i - 1 \in 1 .. Len(body) /\ EndBefore(i) = body[i - 1].end
      <3>1. body[i - 1].off \in Nat /\ body[i - 1].end \in Nat
        BY <1>1, <2>2
      <3>2. /\ STUN_HEADER_SIZE <= body[i - 1].end /\ body[i - 1].end <= offset
        BY <1>3, <2>2
      <3> QED
        BY <2>2, <3>1, <3>2
    <2> QED
      BY <1>4, <2>1, <2>2
  <1>7. ASSUME NEW i \in 1 .. Len(body) + 1, NEW j \in 1 .. Len(body) + 1, i <= j
        PROVE  EndBefore(i) <= EndBefore(j)
    <2>1. CASE i = 1
      BY <1>4, <1>6, <2>1
    <2>2. CASE i = j
      BY <1>6, <2>2
    <2>3. CASE i # 1 /\ i # j
      <3>1. /\ i - 1 \in 1 .. Len(body) /\ EndBefore(i) = body[i - 1].end
            /\ j - 1 \in 1 .. Len(body) /\ EndBefore(j) = body[j - 1].end
            /\ i - 1 < j - 1
        BY <1>1, <1>4, <1>7, <2>3
      <3>2. body[i - 1].end <= body[j - 1].off /\ body[j - 1].off <= body[j - 1].end
        BY <1>3, <3>1 DEF Built, Increasing
      <3> QED
        BY <1>1, <3>1, <3>2
    <2> QED
      BY <2>1, <2>2, <2>3
  <1> QED
    BY <1>2, <1>6, <1>7

(* At the start of an attribute, and only there, its header is read. *)
LEMMA HeaderOfAttribute ==
    ASSUME Built, NEW i \in 1 .. Len(body)
    PROVE  HeaderAt(body[i].off) = [type |-> body[i].type, len |-> body[i].len]
  <1>1. Len(body) \in Nat
        /\ \A j \in 1 .. Len(body) : body[j].off \in Nat /\ body[j].end \in Nat
    BY BodyTypes DEF Built
  <1>2. \A j \in 1 .. Len(body) : body[j].off < body[j].end
    <2>1. \A j \in 1 .. Len(body) : body[j].off + 4 <= body[j].end
      BY DEF Built, Increasing, ATTR_HEADER_SIZE
    <2> QED
      BY <1>1, <2>1
  <1>3. ASSUME NEW j \in 1 .. Len(body), body[j].off = body[i].off
        PROVE  j = i
    <2>1. CASE j < i
      <3>1. body[j].end <= body[i].off /\ body[j].off < body[j].end
        BY <1>2, <2>1 DEF Built, Increasing
      <3> QED
        BY <1>1, <1>3, <3>1
    <2>2. CASE i < j
      <3>1. body[i].end <= body[j].off /\ body[i].off < body[i].end
        BY <1>2, <2>2 DEF Built, Increasing
      <3> QED
        BY <1>1, <1>3, <3>1
    <2>3. i \in Int /\ j \in Int
      BY <1>1
    <2> QED
      BY <2>1, <2>2, <2>3
  <1>4. (CHOOSE j \in 1 .. Len(body) : body[j].off = body[i].off) = i
    BY <1>3
  <1> QED
    BY <1>4, Zenon DEF HeaderAt

-----------------------------------------------------------------------------
(* What was sent, and what its header declares. *)
Sent ==
    packet # NoPacket =>
        /\ valid /\ last.call = "finalize"
        /\ \E size \in 0 .. Capacity : packet = Bytes(size)

LEMMA PacketParts ==
    ASSUME Sent, packet # NoPacket
    PROVE  /\ packet.size \in Nat /\ packet.cookie = TRUE /\ packet.length = wire
           /\ \A o \in Slots(packet.size) : packet.attr[o] = HeaderAt(o)
  <1>1. PICK size \in 0 .. Capacity : packet = Bytes(size)
    BY DEF Sent
  <1>2. size \in Nat
    BY <1>1, CapacityAssumption
  <1> QED
    BY <1>1, <1>2 DEF Bytes

(* The declared end is the end of an attribute, or of the header. *)
LEMMA DeclaredEnd ==
    ASSUME Built, FinalizeEndsOnAttribute, Sent, packet # NoPacket
    PROVE  /\ wire \in Nat
           /\ \E k \in 1 .. Len(body) + 1 : STUN_HEADER_SIZE + wire = EndBefore(k)
           /\ STUN_HEADER_SIZE + wire <= offset
  <1>1. PICK k \in 1 .. Len(body) + 1 : wire = LengthField(EndBefore(k))
    BY DEF FinalizeEndsOnAttribute, Sent
  <1>2. PICK e \in Nat : e = EndBefore(k) /\ 20 <= e /\ e <= offset
    BY EndsGrow DEF STUN_HEADER_SIZE
  <1>3. /\ offset \in Nat /\ Capacity \in Nat
        /\ offset <= Capacity /\ Capacity <= 65536
    BY CapacityAssumption, PacketAssumption DEF Built, TypeOK, MAX_PACKET_SIZE
  <1>4. e - 20 \in Nat /\ e - 20 < 65536
    BY <1>2, <1>3
  <1>5. (e - 20) % 65536 = e - 20
    BY <1>4
  <1>6. wire = e - 20
    BY <1>1, <1>2, <1>5 DEF LengthField, ToUInt16, MaxUInt16, STUN_HEADER_SIZE
  <1>7. wire \in Nat /\ STUN_HEADER_SIZE + wire = e
    BY <1>2, <1>4, <1>6 DEF STUN_HEADER_SIZE
  <1> QED
    BY <1>2, <1>7

-----------------------------------------------------------------------------
(* The reader's wire format is the builder's. *)
LEMMA SameWire ==
    /\ Dec!STUN_HEADER_SIZE = 20 /\ STUN_HEADER_SIZE = 20
    /\ Dec!ATTR_HEADER_SIZE = 4 /\ ATTR_HEADER_SIZE = 4
    /\ \A n : Dec!AttrSize(n) = AttrSize(n)
    /\ Dec!UInt16 = UInt16
  BY DEF Dec!STUN_HEADER_SIZE, STUN_HEADER_SIZE, Dec!ATTR_HEADER_SIZE, ATTR_HEADER_SIZE,
         Dec!AttrSize, AttrSize, Dec!Padded, Padded, Dec!UInt16, UInt16,
         Dec!MaxUInt16, MaxUInt16

(* The variables of the reader, and the order of its calls. *)
ReaderTyped ==
    /\ table \in Seq(Dec!Entry)
    /\ dec_base \in Nat /\ dec_base <= Len(table)
    /\ dec_calls \in Nat
    /\ dec_calls = 0 =>
          /\ dec_pc = "idle" /\ dec_result = "none"
          /\ dec_base = Len(table)
    /\ packet = NoPacket => dec_calls = 0

(* How many attributes the reader has found, and where that has brought it. *)
Count == Len(table) - dec_base

Walk ==
    dec_pc = "loop" =>
        /\ packet # NoPacket
        /\ dec_result = "none"
        /\ dec_length = wire
        /\ STUN_HEADER_SIZE + wire <= packet.size
        /\ Count <= Len(body)
        /\ dec_offset = EndBefore(Count + 1)
        /\ dec_offset <= STUN_HEADER_SIZE + wire

Rejected == dec_result = "rejected" => Cut
Accepted == dec_result = "accepted" => ~Cut

(* It stops where the declared end is. *)
AllFound ==
    dec_result = "accepted" =>
        /\ packet # NoPacket
        /\ Count \in 0 .. Len(body)
        /\ EndBefore(Count + 1) = STUN_HEADER_SIZE + wire

ReaderInv ==
    /\ Sent /\ ReaderTyped /\ Walk /\ AllFound
    /\ OnlyPlacedFound /\ Rejected /\ Accepted

(* The call of decode(): rejected at once only if the message was cut. *)
LEMMA DecodeKeeps ==
    ASSUME Built, FinalizeEndsOnAttribute, ReaderInv, packet # NoPacket,
           Dec!Decode, UNCHANGED builderVars
    PROVE  ReaderInv'
  <1>1. /\ packet.size \in Nat /\ packet.cookie = TRUE /\ packet.length = wire
        /\ wire \in Nat
    BY PacketParts, DeclaredEnd DEF ReaderInv
  <1>2. /\ UNCHANGED <<packet, table, unknown, body, wire, offset, valid, last>>
        /\ dec_calls' = dec_calls + 1 /\ dec_base' = Len(table)
    BY DEF Dec!Decode, builderVars, vars
  <1>3. \/ /\ packet.size < 20 \/ packet.size < 20 + wire
           /\ dec_pc' = "idle" /\ dec_result' = "rejected"
        \/ /\ packet.size >= 20 + wire
           /\ dec_length' = wire /\ dec_offset' = 20
           /\ dec_pc' = "loop" /\ dec_result' = "none"
    BY <1>1, SameWire DEF Dec!Decode, Dec!Returns, Dec!Truncated
  <1>4. table \in Seq(Dec!Entry) /\ Len(table) \in Nat /\ dec_calls \in Nat
    BY LenProperties DEF ReaderInv, ReaderTyped
  <1>5. ReaderTyped'
    <2>1. dec_calls' \in Nat /\ dec_calls' # 0
      BY <1>2, <1>4
    <2>2. dec_base' <= Len(table)
      BY <1>2, <1>4
    <2> QED
      BY <1>2, <1>4, <2>1, <2>2 DEF ReaderTyped
  <1>6. Sent'
    BY <1>2 DEF ReaderInv, Sent, Bytes, HeaderAt
  <1>7. OnlyPlacedFound'
    <2>1. \A i \in dec_base' + 1 .. Len(table') : FALSE
      BY <1>2, <1>4
    <2> QED
      BY <2>1 DEF OnlyPlacedFound
  <1>8. CASE /\ packet.size < 20 \/ packet.size < 20 + wire
             /\ dec_pc' = "idle" /\ dec_result' = "rejected"
    <2>1. Cut'
      BY <1>1, <1>2, <1>8, SameWire DEF Cut
    <2> QED
      BY <1>5, <1>6, <1>7, <1>8, <2>1 DEF ReaderInv, Walk, Rejected, Accepted, AllFound
  <1>9. CASE /\ packet.size >= 20 + wire
             /\ dec_length' = wire /\ dec_offset' = 20
             /\ dec_pc' = "loop" /\ dec_result' = "none"
    <2>1. Count' = 0
      BY <1>2, <1>4 DEF Count
    <2>2. EndBefore(Count + 1)' = 20
      BY <2>1, SameWire DEF EndBefore
    <2>3. Count' <= Len(body)' /\ 20 <= 20 + wire
      BY <1>1, <1>2, <2>1, BodyTypes DEF Built
    <2>4. Walk'
      BY <1>1, <1>2, <1>9, <2>2, <2>3, SameWire DEF Walk
    <2> QED
      BY <1>5, <1>6, <1>7, <1>9, <2>4 DEF ReaderInv, Rejected, Accepted, AllFound
  <1> QED
    BY <1>3, <1>8, <1>9

(* An iteration of its loop finds the next attribute of the message. *)
LEMMA FindsNext ==
    ASSUME Built, FinalizeEndsOnAttribute, ReaderInv, dec_pc = "loop", Dec!MoreToParse
    PROVE  /\ Count + 1 \in 1 .. Len(body)
           /\ packet.attr[dec_offset] = [type |-> body[Count + 1].type,
                                         len |-> body[Count + 1].len]
           /\ body[Count + 1].off = dec_offset
           /\ Dec!ValueFits(body[Count + 1].len)
           /\ dec_offset + AttrSize(body[Count + 1].len) = EndBefore(Count + 2)
           /\ EndBefore(Count + 2) <= STUN_HEADER_SIZE + wire
  <1> DEFINE c == Count
  <1>1. /\ packet # NoPacket /\ dec_length = wire
        /\ 20 + wire <= packet.size
        /\ c <= Len(body) /\ dec_offset = EndBefore(c + 1)
    BY SameWire DEF ReaderInv, Walk
  <1>2. c \in Nat
    <2>1. Len(table) \in Nat /\ dec_base \in Nat /\ dec_base <= Len(table)
      BY LenProperties DEF ReaderInv, ReaderTyped
    <2> QED
      BY <2>1 DEF Count
  <1> HIDE DEF c
  <1>3. Len(body) \in Nat /\ c + 1 \in 1 .. Len(body) + 1
    BY <1>1, <1>2, BodyTypes DEF Built
  <1>4. wire \in Nat /\ dec_offset \in Nat /\ packet.size \in Nat /\ 20 <= dec_offset
    BY <1>1, <1>3, DeclaredEnd, EndsGrow, PacketParts, SameWire DEF ReaderInv
  <1>5. dec_offset + 4 <= 20 + wire
    BY <1>1, SameWire DEF Dec!MoreToParse, Dec!MessageEnd
  <1>6. PICK k \in 1 .. Len(body) + 1 : 20 + wire = EndBefore(k)
    BY <1>1, DeclaredEnd, SameWire DEF ReaderInv
  <1>7. c + 1 < k
    <2> SUFFICES ASSUME k <= c + 1
                 PROVE  FALSE
      BY <1>2
    <2>1. EndBefore(k) <= EndBefore(c + 1)
      BY <1>3, EndsGrow
    <2> QED
      BY <1>1, <1>4, <1>5, <1>6, <2>1
  <1>8. c + 1 \in 1 .. Len(body) /\ (c + 1) + 1 = c + 2 /\ c + 2 \in 1 .. Len(body) + 1
        /\ c + 2 <= k
    BY <1>2, <1>3, <1>7
  <1>9. body[c + 1].off = dec_offset /\ EndBefore(c + 2) = body[c + 1].end
    BY <1>1, <1>8, EndsGrow
  <1>10. body[c + 1].end = dec_offset + AttrSize(body[c + 1].len)
    BY <1>8, <1>9, DeclaredExactly
  <1>11. EndBefore(c + 2) <= 20 + wire
    BY <1>6, <1>8, EndsGrow
  <1>12. dec_offset \in Slots(packet.size)
    <2>1. dec_offset % 4 = 0
      BY <1>8, <1>9 DEF Built, Increasing
    <2>2. dec_offset <= packet.size /\ dec_offset + 4 <= packet.size
      BY <1>1, <1>4, <1>5
    <2>3. dec_offset \in 20 .. packet.size
      BY <1>4, <2>2, IntervalRange
    <2> QED
      BY <2>1, <2>2, <2>3, SameWire DEF Slots
  <1>13. packet.attr[dec_offset] = [type |-> body[c + 1].type, len |-> body[c + 1].len]
    <2>1. packet.attr[dec_offset] = HeaderAt(dec_offset)
      BY <1>1, <1>12, PacketParts DEF ReaderInv
    <2> QED
      BY <1>8, <1>9, <2>1, HeaderOfAttribute
  <1>14. Dec!ValueFits(body[c + 1].len)
    <2> DEFINE len == body[c + 1].len
    <2>1. len \in Nat
      BY <1>8, BodyTypes, UInt16Range DEF Built
    <2> HIDE DEF len
    <2>2. Padded(len) \in Nat /\ len <= Padded(len) /\ AttrSize(len) = 4 + Padded(len)
      BY <2>1, PaddedBounds, SameWire DEF AttrSize
    <2>3. dec_offset + AttrSize(len) <= 20 + wire
      BY <1>9, <1>10, <1>11 DEF len
    <2>4. len <= ((20 + wire) - dec_offset) - 4
      BY <1>4, <2>1, <2>2, <2>3
    <2> QED
      BY <1>1, <2>4, SameWire DEF Dec!ValueFits, Dec!MessageEnd, len
  <1> QED
    BY <1>8, <1>9, <1>10, <1>11, <1>13, <1>14, SameWire DEF c

LEMMA ParseKeeps ==
    ASSUME Built, FinalizeEndsOnAttribute, ReaderInv,
           Dec!ParseAttribute, UNCHANGED builderVars
    PROVE  ReaderInv'
  <1> DEFINE n == Len(table)
             p == body[Count + 1]
             e == [type |-> p.type, len |-> p.len, offset |-> p.off + ATTR_HEADER_SIZE]
  <1>1. dec_pc = "loop" /\ Dec!MoreToParse
    BY DEF Dec!ParseAttribute
  <1>2. /\ packet # NoPacket /\ dec_result = "none" /\ dec_length = wire
        /\ STUN_HEADER_SIZE + wire <= packet.size
    BY <1>1 DEF ReaderInv, Walk
  <1>3. /\ Count + 1 \in 1 .. Len(body)
        /\ packet.attr[dec_offset] = [type |-> p.type, len |-> p.len]
        /\ p.off = dec_offset
        /\ Dec!ValueFits(p.len)
        /\ dec_offset + AttrSize(p.len) = EndBefore(Count + 2)
        /\ EndBefore(Count + 2) <= STUN_HEADER_SIZE + wire
    BY <1>1, FindsNext
  <1>4. /\ table' = Append(table, e)
        /\ dec_offset' = EndBefore(Count + 2)
        /\ UNCHANGED <<packet, dec_length, dec_pc, dec_result, dec_base, dec_calls>>
    <2>1. /\ packet.attr[dec_offset].type = p.type
          /\ packet.attr[dec_offset].len = p.len
      BY <1>3
    <2> HIDE DEF p
    <2>2. /\ table' = Append(table, [type |-> p.type, len |-> p.len,
                                     offset |-> dec_offset + Dec!ATTR_HEADER_SIZE])
          /\ dec_offset' = dec_offset + Dec!AttrSize(p.len)
          /\ UNCHANGED <<packet, dec_length, dec_pc, dec_result, dec_base, dec_calls>>
      BY <1>3, <2>1 DEF Dec!ParseAttribute, Dec!Advance
    <2> QED
      BY <1>3, <2>2, SameWire
  <1>5. UNCHANGED <<body, wire, offset, valid, last>>
    BY DEF builderVars, vars
  <1>6. /\ table \in Seq(Dec!Entry) /\ n \in Nat /\ dec_base \in Nat /\ dec_base <= n
        /\ dec_calls \in Nat /\ dec_calls # 0
    BY <1>1, LenProperties DEF ReaderInv, ReaderTyped
  <1>7. e \in Dec!Entry
    <2>1. p.type \in UInt16 /\ p.len \in UInt16 /\ p.off + ATTR_HEADER_SIZE \in Nat
      BY <1>3, BodyTypes, SameWire DEF Built
    <2> QED
      BY <2>1, SameWire DEF Dec!Entry
  <1> HIDE DEF e
  <1>8. /\ table' \in Seq(Dec!Entry) /\ Len(table') = n + 1
        /\ \A i \in 1 .. n : table'[i] = table[i]
        /\ table'[n + 1] = e
    BY <1>4, <1>6, <1>7, AppendProperties
  <1>9. Count' = Count + 1 /\ Count \in Nat /\ n + 1 - dec_base = Count + 1
        /\ Count' + 1 = Count + 2
    BY <1>4, <1>6, <1>8 DEF Count
  <1>10. ReaderTyped'
    <2>1. dec_base <= n + 1
      BY <1>6
    <2> QED
      BY <1>2, <1>4, <1>6, <1>8, <2>1 DEF ReaderTyped
  <1>11. Sent'
    BY <1>4, <1>5 DEF ReaderInv, Sent, Bytes, HeaderAt
  <1>12. Walk'
    <2>1. EndBefore(Count + 1)' = EndBefore(Count + 2)
      BY <1>5, <1>9 DEF EndBefore
    <2>2. Count' <= Len(body)'
      BY <1>3, <1>5, <1>9
    <2> QED
      BY <1>2, <1>3, <1>4, <1>5, <2>1, <2>2 DEF Walk
  <1>13. OnlyPlacedFound'
    <2>1. ASSUME NEW i \in dec_base + 1 .. n + 1
          PROVE  /\ i - dec_base <= Len(body)
                 /\ table'[i] = [type |-> body[i - dec_base].type,
                                 len |-> body[i - dec_base].len,
                                 offset |-> body[i - dec_base].off + ATTR_HEADER_SIZE]
      <3>1. CASE i \in dec_base + 1 .. n
        <4>1. i \in 1 .. n
          BY <1>6, <3>1
        <4> QED
          BY <1>8, <3>1, <4>1 DEF ReaderInv, OnlyPlacedFound
      <3>2. CASE i = n + 1
        <4>1. i - dec_base = Count + 1
          BY <1>6, <3>2 DEF Count
        <4>2. table'[i] = e
          BY <1>8, <3>2
        <4>3. Count + 1 <= Len(body)
          BY <1>3
        <4> QED
          BY <4>1, <4>2, <4>3 DEF e
      <3> QED
        BY <1>6, <3>1, <3>2
    <2> QED
      BY <1>4, <1>5, <1>8, <2>1 DEF OnlyPlacedFound
  <1> QED
    BY <1>2, <1>4, <1>10, <1>11, <1>12, <1>13 DEF ReaderInv, Rejected, Accepted, AllFound

LEMMA AcceptKeeps ==
    ASSUME Built, FinalizeEndsOnAttribute, ReaderInv,
           Dec!Accept, UNCHANGED builderVars
    PROVE  ReaderInv'
  <1>1. /\ dec_pc = "loop" /\ dec_pc' = "idle" /\ dec_result' = "accepted"
        /\ UNCHANGED <<packet, dec_length, dec_offset, table, dec_base, dec_calls>>
    BY DEF Dec!Accept, Dec!Returns
  <1>2. UNCHANGED <<body, wire, offset, valid, last>>
    BY DEF builderVars, vars
  <1>3. packet # NoPacket /\ STUN_HEADER_SIZE + wire <= packet.size
    BY <1>1 DEF ReaderInv, Walk
  <1>4. ~Cut'
    <2>1. packet.size \in Nat /\ wire \in Nat
      BY <1>3, PacketParts, DeclaredEnd DEF ReaderInv
    <2> QED
      BY <1>1, <1>2, <1>3, <2>1, SameWire DEF Cut
  <1>5. dec_calls # 0
    BY <1>1 DEF ReaderInv, ReaderTyped
  <1>6. ReaderTyped' /\ Sent' /\ OnlyPlacedFound'
    BY <1>1, <1>2, <1>3, <1>5
    DEF ReaderInv, ReaderTyped, Sent, Bytes, HeaderAt, OnlyPlacedFound
  <1>7. AllFound'
    <2> DEFINE c == Count
    <2>1. c \in Nat /\ c <= Len(body) /\ Len(body) \in Nat
      <3>1. Len(table) \in Nat /\ dec_base \in Nat /\ dec_base <= Len(table)
        BY LenProperties DEF ReaderInv, ReaderTyped
      <3> QED
        BY <1>1, <3>1, BodyTypes DEF ReaderInv, Walk, Count, Built
    <2>2. /\ dec_offset = EndBefore(c + 1) /\ dec_length = wire
          /\ dec_offset <= 20 + wire
      BY <1>1, SameWire DEF ReaderInv, Walk
    <2>3. Count' = c
      BY <1>1 DEF Count
    <2> HIDE DEF c
    <2>4. dec_offset \in Nat /\ wire \in Nat
      BY <1>3, <2>1, <2>2, EndsGrow, DeclaredEnd DEF ReaderInv
    <2>5. ~(dec_offset + 4 <= 20 + wire)
      BY <2>2, SameWire DEF Dec!Accept, Dec!MoreToParse, Dec!MessageEnd
    <2>6. PICK k \in 1 .. Len(body) + 1 : 20 + wire = EndBefore(k)
      BY <1>3, DeclaredEnd, SameWire DEF ReaderInv
    <2>7. dec_offset = 20 + wire
      <3>1. CASE k <= c + 1
        <4>1. EndBefore(k) <= EndBefore(c + 1)
          BY <2>1, <3>1, EndsGrow
        <4> QED
          BY <2>2, <2>4, <2>6, <4>1
      <3>2. CASE c + 1 < k
        <4>1. c + 1 \in 1 .. Len(body) /\ (c + 1) + 1 <= k
              /\ (c + 1) + 1 \in 1 .. Len(body) + 1
          BY <2>1, <3>2
        <4>2. EndBefore((c + 1) + 1) <= EndBefore(k)
          BY <4>1, EndsGrow
        <4>3. /\ EndBefore(c + 1) = body[c + 1].off
              /\ EndBefore((c + 1) + 1) = body[c + 1].end
              /\ body[c + 1].off + 4 <= body[c + 1].end
              /\ body[c + 1].end \in Nat
          BY <4>1, EndsGrow, BodyTypes, SameWire DEF Built, Increasing
        <4>4. dec_offset + 4 <= body[c + 1].end /\ body[c + 1].end <= 20 + wire
          BY <2>2, <2>6, <4>2, <4>3
        <4> QED
          BY <2>4, <2>5, <4>3, <4>4
      <3> QED
        BY <2>1, <3>1, <3>2
    <2>8. EndBefore(Count + 1)' = EndBefore(c + 1)
      BY <1>2, <2>3 DEF EndBefore
    <2> QED
      BY <1>1, <1>2, <1>3, <2>1, <2>2, <2>3, <2>7, <2>8, SameWire DEF AllFound
  <1> QED
    BY <1>1, <1>4, <1>6, <1>7 DEF ReaderInv, Walk, Rejected, Accepted

-----------------------------------------------------------------------------
(* The other steps of the two: building, and handing the message over. *)
LEMMA BuildKeeps ==
    ASSUME ReaderInv, Build
    PROVE  ReaderInv'
  <1>1. packet = NoPacket /\ UNCHANGED <<packet, decoderVars>>
    BY DEF Build
  <1>2. UNCHANGED <<packet, table, dec_pc, dec_result, dec_base, dec_calls>>
    BY <1>1 DEF decoderVars
  <1>3. dec_pc = "idle" /\ dec_result = "none" /\ dec_base = Len(table)
    BY <1>1 DEF ReaderInv, ReaderTyped
  <1>4. table \in Seq(Dec!Entry) /\ Len(table) \in Nat
    BY LenProperties DEF ReaderInv, ReaderTyped
  <1>5. OnlyPlacedFound'
    <2>1. \A i \in dec_base' + 1 .. Len(table') : FALSE
      BY <1>2, <1>3, <1>4
    <2> QED
      BY <2>1 DEF OnlyPlacedFound
  <1> QED
    BY <1>1, <1>2, <1>3, <1>5
    DEF ReaderInv, Sent, ReaderTyped, Walk, AllFound, Rejected, Accepted

LEMMA SendKeeps ==
    ASSUME Built, ReaderInv, Send, Cuts \subseteq Nat
    PROVE  ReaderInv'
  <1>1. /\ packet = NoPacket /\ valid /\ last.call = "finalize"
        /\ UNCHANGED <<builderVars, decoderVars>>
    BY DEF Send
  <1>2. UNCHANGED <<offset, wire, body, last, valid, table, dec_pc, dec_result,
                    dec_base, dec_calls>>
    BY <1>1 DEF builderVars, vars, decoderVars
  <1>3. dec_pc = "idle" /\ dec_result = "none" /\ dec_base = Len(table)
        /\ dec_calls = 0
    BY <1>1 DEF ReaderInv, ReaderTyped
  <1>4. PICK size \in {offset, Capacity} \cup {n \in Cuts : n < offset} :
            packet' = Bytes(size)
    BY DEF Send
  <1>5. size \in 0 .. Capacity
    <2>1. offset \in Nat /\ Capacity \in Nat /\ offset <= Capacity
      BY CapacityAssumption DEF Built, TypeOK
    <2>2. size \in Nat /\ size <= Capacity
      BY <1>4, <2>1
    <2> QED
      BY <2>1, <2>2
  <1>6. Sent'
    BY <1>1, <1>2, <1>4, <1>5 DEF Sent, Bytes, HeaderAt
  <1>7. ReaderTyped' /\ OnlyPlacedFound'
    <2>1. Len(table) \in Nat
      BY LenProperties DEF ReaderInv, ReaderTyped
    <2>2. \A i \in dec_base' + 1 .. Len(table') : FALSE
      BY <1>2, <1>3, <2>1
    <2> QED
      BY <1>2, <1>3, <2>2 DEF ReaderInv, ReaderTyped, OnlyPlacedFound
  <1> QED
    BY <1>2, <1>3, <1>6, <1>7 DEF ReaderInv, Walk, AllFound, Rejected, Accepted

LEMMA StutterKeeps ==
    ASSUME ReaderInv, UNCHANGED codecVars
    PROVE  ReaderInv'
  <1>1. UNCHANGED <<packet, table, unknown, dec_length, dec_offset, dec_pc, dec_result,
                    dec_base, dec_calls, offset, wire, body, last, valid>>
    BY DEF codecVars, builderVars, vars, decoderVars
  <1> QED
    BY <1>1 DEF ReaderInv, Sent, Bytes, HeaderAt, ReaderTyped, Walk, AllFound, Count,
                EndBefore, OnlyPlacedFound, Rejected, Accepted, Cut

(* Building and reading leave the builder to itself (StunMessageBuilder.hpp:37, *)
(* Decoder.hpp:113): the composition behaves as a builder.                    *)
THEOREM CodecImplementsBuilder == CodecSpec => BuilderSpec
  <1>1. CodecInit => BuilderInit
    BY DEF CodecInit
  <1>2. [CodecNext]_codecVars => [BuilderNext]_builderVars
    BY DEF CodecNext, Build, Send, Read, codecVars
  <1> QED
    BY <1>1, <1>2, PTL DEF CodecSpec, BuilderSpec

LEMMA InitialReader == CodecInit => ReaderInv
  <1> SUFFICES ASSUME CodecInit
               PROVE  ReaderInv
    OBVIOUS
  <1>1. /\ packet = NoPacket /\ table = Dec!AttributeTable
        /\ dec_pc = "idle" /\ dec_result = "none"
        /\ dec_base = Len(Dec!AttributeTable) /\ dec_calls = 0
    BY DEF CodecInit, Dec!Init
  <1>2. Dec!AttributeTable \in Seq(Dec!Entry) /\ Len(Dec!AttributeTable) = 10
    <2>1. Dec!Phantom \in Dec!Entry
      <3>1. 0 \in UInt16
        BY UInt16Range DEF MaxUInt16
      <3> QED
        BY <3>1, SameWire DEF Dec!Phantom, Dec!Entry
    <2> QED
      BY <2>1 DEF Dec!AttributeTable
  <1>3. \A i \in dec_base + 1 .. Len(table) : FALSE
    BY <1>1, <1>2
  <1> QED
    BY <1>1, <1>2, <1>3
    DEF ReaderInv, Sent, ReaderTyped, Walk, AllFound, OnlyPlacedFound, Rejected, Accepted

LEMMA ReaderInvariant == CodecSpec => [](Built /\ FinalizeEndsOnAttribute /\ ReaderInv)
  <1>1. Built /\ FinalizeEndsOnAttribute /\ ReaderInv /\ [CodecNext]_codecVars
           => ReaderInv'
    <2> SUFFICES ASSUME Built, FinalizeEndsOnAttribute, ReaderInv, [CodecNext]_codecVars
                 PROVE  ReaderInv'
      OBVIOUS
    <2>1. CASE Build
      BY <2>1, BuildKeeps
    <2>2. CASE Send
      BY <2>2, SendKeeps, CodecAssumption
    <2>3. CASE Read
      BY <2>3, DecodeKeeps, ParseKeeps, AcceptKeeps DEF Read
    <2>4. CASE UNCHANGED codecVars
      BY <2>4, StutterKeeps
    <2> QED
      BY <2>1, <2>2, <2>3, <2>4 DEF CodecNext
  <1> QED
    BY <1>1, InitialReader, CodecImplementsBuilder, BuiltInvariant, PTL DEF CodecSpec

(* A builder's message is rejected exactly when it was cut before the declared *)
(* end, for every buffer and every cut (Decoder.cpp:30,43,54).                 *)
THEOREM RejectedExactlyIfCut == CodecSpec => []RejectedIffCut
  <1>1. ASSUME Built, FinalizeEndsOnAttribute, ReaderInv
        PROVE  RejectedIffCut
    <2>1. ASSUME packet # NoPacket, packet.size >= offset
          PROVE  ~Cut
      <3>1. /\ packet.size \in Nat /\ wire \in Nat /\ offset \in Nat
            /\ 20 + wire <= offset
        BY <1>1, <2>1, PacketParts, DeclaredEnd, BodyTypes, SameWire DEF ReaderInv, Built
      <3> QED
        BY <2>1, <3>1, SameWire DEF Cut
    <2> QED
      BY <1>1, <2>1 DEF RejectedIffCut, ReaderInv, Rejected, Accepted
  <1> QED
    BY <1>1, ReaderInvariant, PTL

(* The reader finds what was placed, in order, and nothing else                *)
(* (Encoder.hpp:49-61, Decoder.cpp:49-67).                                    *)
THEOREM FindsOnlyPlaced == CodecSpec => []OnlyPlacedFound
  BY ReaderInvariant, PTL DEF ReaderInv

-----------------------------------------------------------------------------
(* How many attributes the reader has found is told by where they end. *)
LEMMA CountIs ==
    ASSUME Built, ReaderInv, dec_result = "accepted", NEW k \in 0 .. Len(body),
           EndBefore(k + 1) = 20 + wire
    PROVE  Count = k
  <1>1. Count \in 0 .. Len(body) /\ EndBefore(Count + 1) = EndBefore(k + 1)
    BY SameWire DEF ReaderInv, AllFound
  <1>2. Len(body) \in Nat
    BY BodyTypes DEF Built
  <1>3. ASSUME NEW i \in 1 .. Len(body) + 1, NEW j \in 1 .. Len(body) + 1, i < j
        PROVE  EndBefore(i) # EndBefore(j)
    <2>1. i \in 1 .. Len(body) /\ i + 1 \in 1 .. Len(body) + 1 /\ i + 1 <= j
      BY <1>2, <1>3
    <2>2. /\ EndBefore(i) = body[i].off /\ EndBefore(i + 1) = body[i].end
          /\ body[i].off + 4 <= body[i].end
          /\ body[i].off \in Nat /\ body[i].end \in Nat
          /\ EndBefore(i + 1) <= EndBefore(j) /\ EndBefore(j) \in Nat
      BY <2>1, EndsGrow, BodyTypes, SameWire DEF Built, Increasing
    <2> QED
      BY <2>2
  <1>4. Count + 1 \in 1 .. Len(body) + 1 /\ k + 1 \in 1 .. Len(body) + 1
    BY <1>1, <1>2
  <1>5. ~(Count + 1 < k + 1) /\ ~(k + 1 < Count + 1)
    BY <1>1, <1>3, <1>4
  <1> QED
    BY <1>1, <1>2, <1>5

(* A message ends where a length field, computed for that end, says it does. *)
LEMMA EndDeclared ==
    ASSUME Built, NEW i \in 1 .. Len(body) + 1, wire = LengthField(EndBefore(i))
    PROVE  EndBefore(i) = 20 + wire
  <1>1. PICK e \in Nat : e = EndBefore(i) /\ 20 <= e /\ e <= offset
    BY EndsGrow, SameWire
  <1>2. offset \in Nat /\ Capacity \in Nat /\ offset <= Capacity /\ Capacity <= 65536
    BY CapacityAssumption, PacketAssumption DEF Built, TypeOK, MAX_PACKET_SIZE
  <1>3. e - 20 \in Nat /\ e - 20 < 65536
    BY <1>1, <1>2
  <1>4. (e - 20) % 65536 = e - 20
    BY <1>3
  <1>5. wire = e - 20
    BY <1>1, <1>4, SameWire DEF LengthField, ToUInt16, MaxUInt16
  <1> QED
    BY <1>1, <1>5

(* The reader finds everything up to the last seal of a sealed message. *)
LEMMA CountOfSealed ==
    ASSUME Built, ReaderInv, CoversOwnEnd, dec_result = "accepted",
           NEW k \in 1 .. Len(body), LastSealIs(k), wire = body[k].cover
    PROVE  Count = k
  <1>1. /\ k + 1 \in 1 .. Len(body) + 1 /\ k \in 0 .. Len(body)
        /\ EndBefore(k + 1) = body[k].end
    BY EndsGrow, BodyTypes DEF Built
  <1>2. wire = LengthField(EndBefore(k + 1))
    BY <1>1 DEF CoversOwnEnd, LastSealIs
  <1> QED
    BY <1>1, <1>2, EndDeclared, CountIs

(* The last thing the reader finds in a sealed message is its last seal, and   *)
(* that seal covers the header it reads, for every order of the calls          *)
(* (FingerprintAttr.hpp:7-8, Encoder.cpp:34-43).                               *)
THEOREM LastFoundIsLastSeal == CodecSpec => []LastFoundVerifies
  <1>1. ASSUME Built, FinalizeEndsOnAttribute, ReaderInv, CoversOwnEnd, SealsFlagged,
               SealedHeader
        PROVE  LastFoundVerifies
    <2> SUFFICES ASSUME dec_result = "accepted", NEW s \in 1 .. Len(body),
                        IsSeal(body[s])
                 PROVE  /\ Len(table) > dec_base
                        /\ IsSeal(body[Count]) /\ body[Count].cover = packet.length
      BY DEF LastFoundVerifies, Count
    <2>1. packet # NoPacket
      BY <1>1 DEF ReaderInv, AllFound
    <2>2. packet.length = wire /\ valid
      BY <1>1, <2>1, PacketParts DEF ReaderInv, Sent
    <2>3. Sealed
      BY <1>1 DEF SealsFlagged, Sealed, IsFingerprint, IsIntegrity
    <2>4. PICK k \in 1 .. Len(body) : LastSealIs(k) /\ wire = body[k].cover
      BY <1>1, <2>2, <2>3 DEF SealedHeader
    <2>5. Count = k
      BY <1>1, <2>4, CountOfSealed
    <2>6. Len(table) > dec_base
      <3>1. Len(table) \in Nat /\ dec_base \in Nat
        BY <1>1, LenProperties DEF ReaderInv, ReaderTyped
      <3>2. Len(table) - dec_base >= 1
        BY <2>5 DEF Count
      <3> QED
        BY <3>1, <3>2
    <2> QED
      BY <2>2, <2>4, <2>5, <2>6 DEF LastSealIs
  <1> QED
    BY <1>1, ReaderInvariant, CodecImplementsBuilder, SealedHeaderInvariant,
       BuilderImplementsEncoder, SealsCoverTheirOwnEnd, FlagsTellSeals, PTL

(* The value of a seal needs no padding. *)
SealsUnpadded ==
    \A i \in 1 .. Len(body) :
        IsSeal(body[i]) => AttrSize(body[i].len) = ATTR_HEADER_SIZE + body[i].len

LEMMA SealsUnpaddedStep ==
    ASSUME TypeOK, SealsUnpadded, [Next]_vars
    PROVE  SealsUnpadded'
  <1>1. CASE UNCHANGED <<offset, body, has_fingerprint, has_message_integrity>>
    BY <1>1 DEF SealsUnpadded, IsSeal
  <1>2. ASSUME NEW type \in UInt16, NEW len \in Nat,
               NEW cover \in {NotCovering, LengthWith(AttrSize(len))},
               Grows(type, len, cover)
        PROVE  SealsUnpadded'
    <2>1. /\ Len(body) \in Nat /\ Len(body') = Len(body) + 1
          /\ \A i \in 1 .. Len(body) : body'[i] = body[i]
          /\ body'[Len(body) + 1].len = ToUInt16(len)
          /\ body'[Len(body) + 1].cover = cover
      BY <1>2, GrownBody
    <2>2. cover # NotCovering => AttrSize(ToUInt16(len)) = ATTR_HEADER_SIZE + ToUInt16(len)
      <3>1. cover # NotCovering => AttrSize(len) = ATTR_HEADER_SIZE + ToUInt16(len)
        BY <1>2 DEF Grows
      <3>2. ToUInt16(len) \in Nat
        BY ToUInt16Bounds, UInt16Range
      <3>3. /\ AttrSize(len) \in Nat /\ AttrSize(ToUInt16(len)) \in Nat
            /\ AttrSize(ToUInt16(len)) >= ATTR_HEADER_SIZE + ToUInt16(len)
        BY <3>2, PaddedBounds DEF AttrSize, ATTR_HEADER_SIZE
      <3>4. AttrSize(ToUInt16(len)) <= AttrSize(len)
        BY <3>3, DeclaredSize
      <3> QED
        BY <3>1, <3>2, <3>3, <3>4 DEF ATTR_HEADER_SIZE
    <2>3. ASSUME NEW i \in 1 .. Len(body'), IsSeal(body'[i])
          PROVE  AttrSize(body'[i].len) = ATTR_HEADER_SIZE + body'[i].len
      <3>1. CASE i \in 1 .. Len(body)
        BY <2>1, <2>3, <3>1 DEF SealsUnpadded, IsSeal
      <3>2. CASE i = Len(body) + 1
        BY <2>1, <2>2, <2>3, <3>2 DEF IsSeal
      <3> QED
        BY <2>1, <3>1, <3>2
    <2> QED
      BY <2>3 DEF SealsUnpadded, IsSeal
  <1> QED
    BY <1>1, <1>2, StepShape

(* Every seal that is found verifies over a header that ends with it            *)
(* (MessageIntegrityAttrT.hpp:17-19, Encoder.hpp:72-78).                       *)
THEOREM EverySealFoundVerifies == CodecSpec => []FoundSealsVerify
  <1>1. ASSUME Built, OnlyPlacedFound, ReaderTyped, CoversOwnEnd, SealsUnpadded
        PROVE  FoundSealsVerify
    <2> SUFFICES ASSUME NEW i \in dec_base + 1 .. Len(table), IsSeal(body[i - dec_base])
                 PROVE  body[i - dec_base].cover = LengthField(table[i].offset + table[i].len)
      BY DEF FoundSealsVerify
    <2> DEFINE j == i - dec_base
    <2>1. j \in 1 .. Len(body)
      <3>1. j <= Len(body) /\ Len(body) \in Nat
        BY <1>1, BodyTypes DEF OnlyPlacedFound, Built
      <3>2. dec_base \in Nat /\ Len(table) \in Nat
        BY <1>1, LenProperties DEF ReaderTyped
      <3> QED
        BY <3>1, <3>2
    <2>2. table[i].offset = body[j].off + ATTR_HEADER_SIZE /\ table[i].len = body[j].len
      <3>1. table[i] = [type |-> body[j].type, len |-> body[j].len,
                        offset |-> body[j].off + ATTR_HEADER_SIZE]
        BY <1>1 DEF OnlyPlacedFound
      <3> QED
        BY <3>1
    <2> HIDE DEF j
    <2>3. /\ body[j].cover = LengthField(body[j].end)
          /\ body[j].end = body[j].off + (ATTR_HEADER_SIZE + body[j].len)
      <3>1. body[j].end = body[j].off + AttrSize(body[j].len)
        BY <1>1, <2>1, DeclaredExactly
      <3>2. AttrSize(body[j].len) = ATTR_HEADER_SIZE + body[j].len
        BY <1>1, <2>1 DEF SealsUnpadded, j
      <3> QED
        BY <1>1, <2>1, <3>1, <3>2 DEF CoversOwnEnd, j
    <2>4. body[j].off + (ATTR_HEADER_SIZE + body[j].len)
             = (body[j].off + ATTR_HEADER_SIZE) + body[j].len
      <3>1. body[j].off \in Nat /\ body[j].len \in Nat
        BY <1>1, <2>1, BodyTypes, UInt16Range DEF Built
      <3>2. \A o, l \in Nat : o + (ATTR_HEADER_SIZE + l) = (o + ATTR_HEADER_SIZE) + l
        BY DEF ATTR_HEADER_SIZE
      <3> QED
        BY <3>1, <3>2, Zenon
    <2> QED
      BY <2>2, <2>3, <2>4 DEF j
  <1>2. Init => SealsUnpadded
    BY EmptySeq DEF Init, SealsUnpadded
  <1>3. TypeOK /\ SealsUnpadded /\ [Next]_vars => SealsUnpadded'
    BY SealsUnpaddedStep
  <1> QED
    BY <1>1, <1>2, <1>3, ReaderInvariant, CodecImplementsBuilder,
       BuilderImplementsEncoder, SealsCoverTheirOwnEnd, TypeCorrect, PTL
    DEF ReaderInv, Spec

-----------------------------------------------------------------------------
(* The loop of getAll(), as a function of the number of its iterations. *)
GetAll(f, X, type) ==
    /\ f \in [0 .. Len(table) -> Seq(X)]
    /\ f[0] = <<>>
    /\ \A n \in 0 .. Len(table) : n < Len(table) =>
          f[n + 1] = IF table[n + 1].type = type
                       THEN Append(f[n], table[n + 1]) ELSE f[n]
    /\ Dec!Matching(type) = f[Len(table)]

LEMMA MatchingLoop ==
    ASSUME NEW X, table \in Seq(X), NEW type
    PROVE  \E f : GetAll(f, X, type)
  <1> DEFINE N == Len(table)
             V == Seq(X)
             next(n, v) == IF table[n].type = type THEN Append(v, table[n]) ELSE v
             Fix(g) == g = [n \in 0 .. N |-> IF n = 0 THEN <<>>
                                             ELSE IF table[n].type = type
                                               THEN Append(g[n - 1], table[n])
                                             ELSE g[n - 1]]
             f == CHOOSE g : Fix(g)
  <1>1. N \in Nat /\ <<>> \in V /\ \A n \in 1 .. N : table[n] \in X
    BY LenProperties, ElementOfSeq, EmptySeq
  <1>2. Dec!Matching(type) = f[N]
    BY DEF Dec!Matching
  <1>3. \A n \in 1 .. N : \A v \in V : next(n, v) \in V
    BY <1>1, AppendProperties
  <1>4. \E l \in [Nat -> V] :
           l[0] = <<>> /\ \A n \in Nat : n < N => l[n + 1] = next(n + 1, l[n])
    <2> DEFINE step == [n \in Nat |-> [v \in V |-> IF n < N THEN next(n + 1, v) ELSE v]]
    <2> HIDE DEF N, V, next
    <2>1. step \in [Nat -> [V -> V]]
      <3>1. \A n \in Nat : n < N => n + 1 \in 1 .. N
        BY <1>1
      <3> QED
        BY <1>3, <3>1
    <2>2. \A n \in Nat : n < N => \A v \in V : step[n][v] = next(n + 1, v)
      OBVIOUS
    <2> HIDE DEF step
    <2>3. PICK l : IsLoop(l, N, V, <<>>, step)
      BY <1>1, <2>1, LoopExists
    <2>4. /\ l \in [Nat -> V] /\ l[0] = <<>>
          /\ \A n \in Nat : n < N => l[n + 1] = next(n + 1, l[n])
      BY <2>2, <2>3 DEF IsLoop
    <2> QED
      BY <2>4
  <1>5. PICK l \in [Nat -> V] :
           l[0] = <<>> /\ \A n \in Nat : n < N => l[n + 1] = next(n + 1, l[n])
    BY <1>4
  <1>6. Fix([n \in 0 .. N |-> l[n]])
    <2> DEFINE g == [n \in 0 .. N |-> l[n]]
    <2>1. ASSUME NEW n \in 0 .. N
          PROVE  l[n] = IF n = 0 THEN <<>> ELSE next(n, g[n - 1])
      <3>1. CASE n = 0
        BY <1>5, <3>1
      <3>2. CASE n # 0
        <4>1. n - 1 \in Nat /\ n - 1 < N /\ n - 1 \in 0 .. N /\ (n - 1) + 1 = n
          BY <1>1, <3>2
        <4>2. g[n - 1] = l[n - 1]
          BY <4>1
        <4> HIDE DEF g, next, N
        <4>3. l[(n - 1) + 1] = next((n - 1) + 1, l[n - 1])
          BY <1>5, <4>1
        <4> QED
          BY <3>2, <4>1, <4>2, <4>3
      <3> QED
        BY <3>1, <3>2
    <2> QED
      BY <2>1
  <1>7. Fix(f)
    <2> HIDE DEF Fix
    <2> QED
      BY <1>6
  <1> HIDE DEF f
  <1>8. DOMAIN f = 0 .. N /\ f[0] = <<>>
    BY <1>1, <1>7
  <1>9. \A n \in 0 .. N : n < N => f[n + 1] = next(n + 1, f[n])
    <2> SUFFICES ASSUME NEW n \in 0 .. N, n < N
                 PROVE  f[n + 1] = next(n + 1, f[n])
      OBVIOUS
    <2>1. n + 1 \in 0 .. N /\ n + 1 # 0 /\ (n + 1) - 1 = n
      BY <1>1
    <2>2. f[n + 1] = IF n + 1 = 0 THEN <<>> ELSE next(n + 1, f[(n + 1) - 1])
      BY <1>7, <2>1
    <2> HIDE DEF next
    <2> QED
      BY <2>1, <2>2
  <1>10. \A n \in 0 .. N : f[n] \in V
    <2> DEFINE S == {n \in Nat : n <= N => f[n] \in V}
    <2> HIDE DEF next, V, N
    <2>1. 0 \in S
      BY <1>1, <1>8
    <2>2. \A n \in Nat : n \in S => n + 1 \in S
      <3> SUFFICES ASSUME NEW n \in Nat, n \in S, n + 1 <= N
                   PROVE  f[n + 1] \in V
        OBVIOUS
      <3>1. n \in 0 .. N /\ n < N /\ n + 1 \in 1 .. N /\ f[n] \in V
        BY <1>1
      <3> QED
        BY <1>3, <1>9, <3>1
    <2> HIDE DEF S
    <2>3. Nat \subseteq S
      BY <2>1, <2>2, NatSetInduction
    <2> QED
      BY <1>1, <2>3 DEF S
  <1>11. f \in [0 .. N -> V]
    <2>1. f = [n \in 0 .. N |-> f[n]]
      BY <1>7
    <2> HIDE DEF N, V
    <2> QED
      BY <1>10, <2>1
  <1> QED
    BY <1>2, <1>8, <1>9, <1>11 DEF GetAll

(* The places of a type in the table. *)
PlacesOf(type) == {i \in 1 .. Len(table) : table[i].type = type}

LEMMA MatchingLists ==
    ASSUME NEW X, table \in Seq(X), NEW type
    PROVE  /\ Dec!Matching(type) \in Seq(X)
           /\ Lists(Dec!Matching(type), table, PlacesOf(type))
  <1> DEFINE N == Len(table)
             I(n) == {i \in 1 .. n : table[i].type = type}
  <1>1. N \in Nat /\ \A n \in 1 .. N : table[n] \in X
    BY LenProperties, ElementOfSeq
  <1>0. PICK f : GetAll(f, X, type)
    BY MatchingLoop
  <1>2. /\ f \in [0 .. N -> Seq(X)]
        /\ f[0] = <<>>
        /\ \A n \in 0 .. N : n < N =>
              f[n + 1] = IF table[n + 1].type = type
                           THEN Append(f[n], table[n + 1]) ELSE f[n]
        /\ Dec!Matching(type) = f[N]
    BY <1>0 DEF GetAll
  <1> DEFINE S == {n \in Nat : n <= N => Lists(f[n], table, I(n))}
  <1>3. 0 \in S
    <2>1. I(0) = {}
      OBVIOUS
    <2> HIDE DEF I
    <2> QED
      BY <1>2, <2>1, ListsNothing
  <1>4. ASSUME NEW n \in Nat, n \in S
        PROVE  n + 1 \in S
    <2> SUFFICES ASSUME n + 1 <= N
                 PROVE  Lists(f[n + 1], table, I(n + 1))
      OBVIOUS
    <2>1. n \in 0 .. N /\ n < N /\ n + 1 \in 1 .. N
      BY <1>1
    <2>2. Lists(f[n], table, I(n)) /\ f[n] \in Seq(X) /\ table[n + 1] \in X
      BY <1>1, <1>2, <1>4, <2>1
    <2>3. f[n + 1] = IF table[n + 1].type = type
                       THEN Append(f[n], table[n + 1]) ELSE f[n]
      BY <1>2, <2>1
    <2>4. I(n) \in SUBSET Nat /\ IsFiniteSet(I(n)) /\ \A i \in I(n) : i < n + 1
      <3>1. IsFiniteSet(1 .. n)
        BY FS_Interval
      <3>2. I(n) \in SUBSET (1 .. n)
        OBVIOUS
      <3>3. IsFiniteSet(I(n))
        BY <3>1, <3>2, FS_Subset
      <3> QED
        BY <3>2, <3>3
    <2>5. CASE table[n + 1].type = type
      <3>1. I(n + 1) = I(n) \cup {n + 1}
        BY <2>5
      <3> HIDE DEF I
      <3> DEFINE J == I(n)
                 v == f[n]
                 x == table[n + 1]
                 m == n + 1
      <3>2. /\ v \in Seq(X) /\ x \in X /\ m \in Nat /\ table[m] = x
            /\ J \in SUBSET Nat /\ IsFiniteSet(J) /\ \A i \in J : i < m
            /\ Lists(v, table, J)
        BY <2>2, <2>4
      <3> HIDE DEF J, v, x, m
      <3>3. Lists(Append(v, x), table, J \cup {m})
        BY <3>2, ListsGrow
      <3> USE DEF J, v, x, m
      <3> QED
        BY <2>3, <2>5, <3>1, <3>3
    <2>6. CASE table[n + 1].type # type
      <3>1. I(n + 1) = I(n)
        BY <2>6
      <3> HIDE DEF I
      <3> QED
        BY <2>2, <2>3, <2>6, <3>1
    <2> QED
      BY <2>5, <2>6
  <1> HIDE DEF S
  <1>5. Nat \subseteq S
    BY <1>3, <1>4, NatSetInduction
  <1>6. Lists(f[N], table, I(N))
    <2>1. N \in S /\ N <= N
      BY <1>1, <1>5
    <2> HIDE DEF I, N
    <2> QED
      BY <2>1 DEF S
  <1>7. f[N] \in Seq(X)
    BY <1>1, <1>2
  <1> QED
    BY <1>2, <1>6, <1>7 DEF PlacesOf

(* The entries that the table starts with have type 0, which is no attribute's. *)
ZeroedFirst == \A i \in 1 .. dec_base : table[i] = Dec!Phantom

LEMMA ZeroedStep ==
    ASSUME ReaderTyped, ZeroedFirst, [CodecNext]_codecVars
    PROVE  ZeroedFirst'
  <1>1. Len(table) \in Nat /\ dec_base \in Nat /\ dec_base <= Len(table)
        /\ table \in Seq(Dec!Entry)
    BY LenProperties DEF ReaderTyped
  <1>2. CASE UNCHANGED <<table, dec_base>>
    BY <1>2 DEF ZeroedFirst
  <1>3. ASSUME NEW e, table' = Append(table, e), dec_base' = dec_base
        PROVE  ZeroedFirst'
    <2>1. table \in Seq(Dec!Entry \cup {e})
      BY <1>1
    <2>2. \A i \in 1 .. Len(table) : table'[i] = table[i]
      BY <1>3, <2>1, AppendProperties
    <2>3. \A i \in 1 .. dec_base : i \in 1 .. Len(table)
      BY <1>1
    <2> QED
      BY <1>3, <2>2, <2>3 DEF ZeroedFirst
  <1>4. CASE Dec!Decode
    <2>1. dec_calls = 0
      BY <1>4 DEF Dec!Decode, ReaderTyped
    <2>2. dec_base' = dec_base /\ table' = table
      BY <1>4, <2>1 DEF Dec!Decode, ReaderTyped
    <2> QED
      BY <1>2, <2>2
  <1>5. CASE Dec!ParseAttribute
    BY <1>2, <1>3, <1>5 DEF Dec!ParseAttribute
  <1>6. CASE Dec!Accept
    BY <1>2, <1>6 DEF Dec!Accept
  <1>7. CASE Build \/ Send \/ UNCHANGED codecVars
    BY <1>2, <1>7 DEF Build, Send, codecVars, decoderVars
  <1> QED
    BY <1>4, <1>5, <1>6, <1>7 DEF CodecNext, Read

LEMMA ZeroedInvariant == CodecSpec => []ZeroedFirst
  <1>1. CodecInit => ZeroedFirst
    <2> SUFFICES ASSUME CodecInit, NEW i \in 1 .. dec_base
                 PROVE  table[i] = Dec!Phantom
      BY DEF ZeroedFirst
    <2>1. table = Dec!AttributeTable /\ dec_base = Len(Dec!AttributeTable)
      BY DEF CodecInit, Dec!Init
    <2> QED
      BY <2>1 DEF Dec!AttributeTable
  <1>2. (Built /\ FinalizeEndsOnAttribute /\ ReaderInv) /\ ZeroedFirst
           /\ [CodecNext]_codecVars => ZeroedFirst'
    BY ZeroedStep DEF ReaderInv
  <1> QED
    BY <1>1, <1>2, ReaderInvariant, PTL DEF CodecSpec

(* What an accepted message's entries point at is in the reader's buffer. *)
LEMMA FoundInBuffer ==
    ASSUME Built, FinalizeEndsOnAttribute, ReaderInv, ZeroedFirst,
           dec_result = "accepted",
           NEW i \in dec_base + 1 .. Len(table)
    PROVE  /\ i - dec_base \in 1 .. Count
           /\ i - dec_base \in 1 .. Len(body)
           /\ table[i] = [type |-> body[i - dec_base].type,
                          len |-> body[i - dec_base].len,
                          offset |-> body[i - dec_base].off + ATTR_HEADER_SIZE]
           /\ Dec!InBuffer(table[i])
  <1> DEFINE j == i - dec_base
             p == body[j]
  <1>1. Len(table) \in Nat /\ dec_base \in Nat /\ dec_base <= Len(table)
    BY LenProperties DEF ReaderInv, ReaderTyped
  <1>2. packet # NoPacket /\ Count \in 0 .. Len(body)
        /\ EndBefore(Count + 1) = 20 + wire
    BY SameWire DEF ReaderInv, AllFound
  <1>3. Len(body) \in Nat
    BY BodyTypes DEF Built
  <1>4. j \in 1 .. Count /\ j \in 1 .. Len(body) /\ j + 1 \in 1 .. Len(body) + 1
        /\ j + 1 <= Count + 1 /\ Count + 1 \in 1 .. Len(body) + 1
    BY <1>1, <1>2, <1>3 DEF Count
  <1>5. table[i] = [type |-> p.type, len |-> p.len, offset |-> p.off + ATTR_HEADER_SIZE]
    BY DEF ReaderInv, OnlyPlacedFound
  <1> HIDE DEF j
  <1>6. /\ p.off \in Nat /\ p.len \in Nat /\ p.end \in Nat
        /\ p.end = p.off + AttrSize(p.len)
    <2>1. p.off \in Nat /\ p.len \in Nat /\ p.end \in Nat
      BY <1>4, BodyTypes, UInt16Range DEF Built
    <2>2. body[j].end = body[j].off + AttrSize(body[j].len)
      BY <1>4, DeclaredExactly
    <2> QED
      BY <2>1, <2>2
  <1>7. p.off + 4 + p.len <= p.end
    <2>1. Padded(p.len) \in Nat /\ p.len <= Padded(p.len)
      BY <1>6, PaddedBounds
    <2> QED
      BY <1>6, <2>1, SameWire DEF AttrSize
  <1>8. p.end <= 20 + wire
    <2>1. EndBefore(j + 1) <= EndBefore(Count + 1)
      BY <1>4, EndsGrow
    <2>2. EndBefore(j + 1) = p.end
      BY <1>4, EndsGrow
    <2> QED
      BY <1>2, <2>1, <2>2
  <1>9. /\ packet.size \in Nat /\ wire \in Nat /\ packet.size >= 20 + wire
    <2>1. packet.size \in Nat /\ wire \in Nat
      BY <1>2, PacketParts, DeclaredEnd DEF ReaderInv
    <2>2. ~Cut
      BY DEF ReaderInv, Accepted
    <2> QED
      BY <2>1, <2>2, SameWire DEF Cut
  <1>10. p.off + 4 + p.len <= packet.size
    BY <1>6, <1>7, <1>8, <1>9
  <1>11. Dec!InBuffer(table[i])
    BY <1>5, <1>10, SameWire DEF Dec!InBuffer
  <1> QED
    BY <1>4, <1>5, <1>11 DEF j

(* What the getters hand out, when nothing in the table is outside the buffer. *)
LEMMA GettersOfMatching ==
    ASSUME NEW X, table \in Seq(X), \A e \in X : Dec!InBuffer(e), NEW type
    PROVE  /\ Dec!getAttributes(type) = Dec!Matching(type)
           /\ Dec!getAttribute(type) =
                 IF Dec!Matching(type) = <<>> THEN <<>> ELSE <<Dec!Matching(type)[1]>>
  <1> DEFINE m == Dec!Matching(type)
  <1>1. m \in Seq(X)
    BY MatchingLists
  <1> HIDE DEF m
  <1>2. \A i \in 1 .. Len(m) : Dec!InBuffer(m[i])
    BY <1>1, ElementOfSeq
  <1>3. {i \in 1 .. Len(m) : ~Dec!InBuffer(m[i])} = {}
    BY <1>2
  <1>4. m # <<>> => Dec!InBuffer(m[1])
    <2> SUFFICES ASSUME m # <<>>
                 PROVE  1 \in 1 .. Len(m)
      BY <1>2
    <2>1. Len(m) \in Nat /\ Len(m) # 0
      BY <1>1, EmptySeq, LenProperties
    <2> QED
      BY <2>1
  <1>5. Dec!getAttributes(type) = m
    BY <1>3 DEF Dec!getAttributes, m
  <1>6. Dec!getAttribute(type) = IF m = <<>> THEN <<>> ELSE <<m[1]>>
    BY <1>4 DEF Dec!getAttribute, Dec!Found, m
  <1> QED
    BY <1>5, <1>6 DEF m

(* The getters of a type, once a message is accepted. *)
LEMMA GetsAllOfType ==
    ASSUME Built, FinalizeEndsOnAttribute, ReaderInv, ZeroedFirst,
           dec_result = "accepted", NEW type, type # 0
    PROVE  GetsAll(type)
  <1> DEFINE values == Dec!getAttributes(type)
             placed == {i \in 1 .. Count : body[i].type = type}
  <1> HIDE DEF placed, values
  <1> DEFINE X == {table[i] : i \in 1 .. Len(table)}
  <1>1. /\ table \in Seq(Dec!Entry) /\ Len(table) \in Nat
        /\ dec_base \in Nat /\ dec_base <= Len(table)
    BY LenProperties DEF ReaderInv, ReaderTyped
  <1>2. table \in Seq(X)
    BY <1>1
  <1>3. packet # NoPacket /\ Count \in 0 .. Len(body) /\ Len(body) \in Nat
    BY BodyTypes DEF ReaderInv, AllFound, Built
  <1>4. \A i \in 1 .. dec_base : table[i] = Dec!Phantom /\ Dec!InBuffer(table[i])
    <2>1. packet.size \in Nat
      BY <1>3, PacketParts DEF ReaderInv
    <2>2. Dec!InBuffer(Dec!Phantom)
      BY <2>1 DEF Dec!InBuffer, Dec!Phantom
    <2> QED
      BY <2>2 DEF ZeroedFirst
  <1>5. \A i \in dec_base + 1 .. Len(table) :
           /\ i - dec_base \in 1 .. Count
           /\ i - dec_base \in 1 .. Len(body)
           /\ table[i] = [type |-> body[i - dec_base].type,
                          len |-> body[i - dec_base].len,
                          offset |-> body[i - dec_base].off + ATTR_HEADER_SIZE]
    BY FoundInBuffer
  <1>6. \A i \in dec_base + 1 .. Len(table) : Dec!InBuffer(table[i])
    <2> SUFFICES ASSUME NEW i \in dec_base + 1 .. Len(table)
                 PROVE  Dec!InBuffer(table[i])
      OBVIOUS
    <2> QED
      BY FoundInBuffer
  <1>7. \A i \in 1 .. Len(table) : i \in 1 .. dec_base \/ i \in dec_base + 1 .. Len(table)
    BY <1>1
  <1>8. ASSUME NEW e \in X
        PROVE  Dec!InBuffer(e)
    <2>1. PICK i \in 1 .. Len(table) : e = table[i]
      OBVIOUS
    <2>2. Dec!InBuffer(table[i])
      <3>1. CASE i \in 1 .. dec_base
        BY <1>4, <3>1
      <3>2. CASE i \in dec_base + 1 .. Len(table)
        BY <1>6, <3>2
      <3> QED
        BY <1>7, <3>1, <3>2
    <2> QED
      BY <2>1, <2>2
  <1> HIDE DEF X
  <1>9. PlacesOf(type) = {dec_base + i : i \in placed}
    <2>1. ASSUME NEW k \in PlacesOf(type)
          PROVE  /\ k - dec_base \in placed /\ k = dec_base + (k - dec_base)
      <3>1. k \in 1 .. Len(table) /\ table[k].type = type
        BY DEF PlacesOf
      <3>2. k \in dec_base + 1 .. Len(table)
        BY <1>4, <1>7, <3>1 DEF Dec!Phantom
      <3>3. /\ k - dec_base \in 1 .. Count
            /\ table[k] = [type |-> body[k - dec_base].type,
                           len |-> body[k - dec_base].len,
                           offset |-> body[k - dec_base].off + ATTR_HEADER_SIZE]
        BY <1>5, <3>2
      <3>4. table[k].type = body[k - dec_base].type
        BY <3>3
      <3>5. k = dec_base + (k - dec_base)
        BY <1>1, <3>1
      <3> QED
        BY <3>1, <3>3, <3>4, <3>5 DEF placed
    <2>2. ASSUME NEW i \in placed
          PROVE  dec_base + i \in PlacesOf(type)
      <3> DEFINE k == dec_base + i
      <3>1. i \in 1 .. Count /\ body[i].type = type
        BY DEF placed
      <3>2. k \in dec_base + 1 .. Len(table) /\ k - dec_base = i /\ k \in 1 .. Len(table)
        BY <1>1, <3>1 DEF Count
      <3> HIDE DEF k
      <3>3. table[k] = [type |-> body[i].type, len |-> body[i].len,
                        offset |-> body[i].off + ATTR_HEADER_SIZE]
        BY <1>5, <3>2
      <3>4. table[k].type = type
        BY <3>1, <3>3
      <3> QED
        BY <3>2, <3>4 DEF PlacesOf, k
    <2> QED
      BY <2>1, <2>2
  <1>10. \A i \in placed : table[dec_base + i] = PlacedEntries[i]
    <2> SUFFICES ASSUME NEW i \in placed
                 PROVE  table[dec_base + i] = PlacedEntries[i]
      OBVIOUS
    <2> DEFINE k == dec_base + i
    <2>1. i \in 1 .. Count /\ body[i].type = type /\ i \in 1 .. Len(body)
      BY <1>3 DEF placed
    <2>2. k \in dec_base + 1 .. Len(table) /\ k - dec_base = i
      BY <1>1, <2>1 DEF Count
    <2> HIDE DEF k
    <2>3. table[k] = [type |-> body[i].type, len |-> body[i].len,
                      offset |-> body[i].off + ATTR_HEADER_SIZE]
      BY <1>5, <2>2
    <2> QED
      BY <2>1, <2>3 DEF k, PlacedEntries
  <1>11. placed \in SUBSET Nat /\ IsFiniteSet(placed)
    <2>1. Count \in Int
      BY <1>3
    <2>2. IsFiniteSet(1 .. Count)
      BY <2>1, FS_Interval
    <2>3. placed \in SUBSET (1 .. Count)
      BY DEF placed
    <2>4. IsFiniteSet(placed)
      BY <2>2, <2>3, FS_Subset
    <2>5. placed \in SUBSET Nat
      BY <2>1, <2>3
    <2> QED
      BY <2>4, <2>5
  <1>12. /\ values = Dec!Matching(type)
         /\ Dec!getAttribute(type) =
               IF Dec!Matching(type) = <<>> THEN <<>> ELSE <<Dec!Matching(type)[1]>>
    BY <1>2, <1>8, GettersOfMatching DEF values
  <1>13. Lists(Dec!Matching(type), table, PlacesOf(type))
    BY <1>2, MatchingLists
  <1>14. Lists(Dec!Matching(type), table, {dec_base + i : i \in placed})
    BY <1>9, <1>13
  <1>15. Lists(Dec!Matching(type), PlacedEntries, placed)
    BY <1>1, <1>10, <1>11, <1>14, ListsShifted
  <1>16. placed = {i \in 1 .. Len(table) - dec_base : body[i].type = type}
    BY DEF placed, Count
  <1> QED
    BY <1>12, <1>15, <1>16 DEF GetsAll, values

(* getAttributes() hands out everything that was placed of a type before the    *)
(* declared end, in order, and getAttribute() the first of it                  *)
(* (Decoder.hpp:52-59,75-90, AttributeTable.cpp:16-34).                         *)
THEOREM GettersFindAll == CodecSpec => []GettersComplete
  <1>1. ASSUME Built, FinalizeEndsOnAttribute, ReaderInv, ZeroedFirst
        PROVE  GettersComplete
    BY <1>1, GetsAllOfType DEF GettersComplete
  <1> QED
    BY <1>1, ReaderInvariant, ZeroedInvariant, PTL

-----------------------------------------------------------------------------
(* Builder and decoder together implement AttributeChannel, but for its       *)
(* liveness: every step of theirs adds an attribute to the channel's log,      *)
(* seals it, sends it, delivers what is sealed, or is no step of the channel.  *)
(* That a message with a seal has a last one, which the refinement mapping     *)
(* chooses, is an invariant of its own (HasLastSeal).                        *)

(* The variables of the channel, as Codec maps them. *)
Log == HeadersOf(body)
LastSeal ==
    IF \E i \in 1 .. Len(body) : IsSeal(body[i])
      THEN CHOOSE i \in 1 .. Len(body) :
              /\ IsSeal(body[i])
              /\ \A j \in i + 1 .. Len(body) : ~IsSeal(body[j])
      ELSE 0
Way == IF packet = NoPacket THEN "no" ELSE IF Cut THEN "cut" ELSE "whole"
Got ==
    IF dec_result = "accepted"
      THEN <<HeadersOf(SubSeq(table, dec_base + 1, Len(table)))>>
      ELSE <<>>

HeaderOf(type, len) == [type |-> type, len |-> len]

(* A change of the mapped variables that is a step of the channel. *)
LEMMA ChannelStarts ==
    ASSUME Log = <<>>, LastSeal = 0, Way = "no", Got = <<>>
    PROVE  Channel!Init
  BY DEF Log, LastSeal, Way, Got, Channel!Init

LEMMA ChannelAdds ==
    ASSUME NEW a \in Attributes, Way = "no",
           Log' = Append(Log, HeaderOf(a.type, ToUInt16(a.len))),
           LastSeal' = LastSeal, Way' = Way, Got' = Got
    PROVE  Channel!Next
  <1>1. Channel!Add(HeaderOf(a.type, ToUInt16(a.len)))
    BY DEF Log, LastSeal, Way, Got, Channel!Add
  <1>2. HeaderOf(a.type, ToUInt16(a.len)) \in
           {[type |-> b.type, len |-> ToUInt16(b.len)] : b \in Attributes}
    BY DEF HeaderOf
  <1> QED
    BY <1>1, <1>2 DEF Channel!Next

LEMMA ChannelSeals ==
    ASSUME NEW s \in IntegrityKinds \cup {Fingerprint}, Way = "no",
           Log' = Append(Log, HeaderOf(s.type, s.size)),
           LastSeal' = Len(Log'), Way' = Way, Got' = Got
    PROVE  Channel!Next
  <1>1. Channel!Seal(HeaderOf(s.type, s.size))
    BY DEF Log, LastSeal, Way, Got, Channel!Seal
  <1>2. HeaderOf(s.type, s.size) \in
           {[type |-> t.type, len |-> t.size] : t \in IntegrityKinds \cup {Fingerprint}}
    BY DEF HeaderOf
  <1> QED
    BY <1>1, <1>2 DEF Channel!Next

LEMMA ChannelSends ==
    ASSUME Way = "no", Way' \in {"whole", "cut"}, Log' = Log, LastSeal' = LastSeal,
           Got' = Got
    PROVE  Channel!Next
  BY DEF Log, LastSeal, Way, Got, Channel!Send, Channel!Next

LEMMA ChannelDelivers ==
    ASSUME Way = "whole", Got = <<>>,
           Got' = <<IF LastSeal = 0 THEN Log ELSE SubSeq(Log, 1, LastSeal)>>,
           Log' = Log, LastSeal' = LastSeal, Way' = Way
    PROVE  Channel!Next
  BY DEF Log, LastSeal, Way, Got, Channel!Deliver, Channel!Next

LEMMA ChannelStutters ==
    ASSUME Log' = Log, LastSeal' = LastSeal, Way' = Way, Got' = Got
    PROVE  UNCHANGED Channel!channelVars
  BY DEF Log, LastSeal, Way, Got, Channel!channelVars

-----------------------------------------------------------------------------
(* What the mapping makes of a list of attributes. *)
Header == [type : UInt16, len : UInt16]

LEMMA HeadersOfList ==
    ASSUME NEW b, Len(b) \in Nat,
           \A i \in 1 .. Len(b) : b[i].type \in UInt16 /\ b[i].len \in UInt16
    PROVE  /\ HeadersOf(b) \in Seq(Header)
           /\ Len(HeadersOf(b)) = Len(b)
           /\ \A i \in 1 .. Len(b) : HeadersOf(b)[i] = HeaderOf(b[i].type, b[i].len)
  <1>1. \A i \in 1 .. Len(b) : HeadersOf(b)[i] = HeaderOf(b[i].type, b[i].len)
    BY DEF HeadersOf, HeaderOf
  <1>2. HeadersOf(b) \in [1 .. Len(b) -> Header]
    BY <1>1 DEF HeadersOf, HeaderOf, Header
  <1>3. HeadersOf(b) \in Seq(Header)
    BY <1>2, SeqDef
  <1>4. DOMAIN HeadersOf(b) = 1 .. Len(b)
    BY DEF HeadersOf
  <1>5. Len(HeadersOf(b)) = Len(b)
    BY <1>3, <1>4, LenProperties
  <1> QED
    BY <1>1, <1>3, <1>5

LEMMA HeadersOfGrown ==
    ASSUME NEW b, NEW c, NEW type \in UInt16, NEW len \in UInt16,
           Len(b) \in Nat,
           \A i \in 1 .. Len(b) : b[i].type \in UInt16 /\ b[i].len \in UInt16,
           Len(c) = Len(b) + 1, \A i \in 1 .. Len(b) : c[i] = b[i],
           c[Len(b) + 1].type = type, c[Len(b) + 1].len = len
    PROVE  /\ HeadersOf(c) = Append(HeadersOf(b), HeaderOf(type, len))
           /\ Len(HeadersOf(c)) = Len(c)
  <1>1. /\ HeadersOf(b) \in Seq(Header) /\ Len(HeadersOf(b)) = Len(b)
        /\ \A i \in 1 .. Len(b) : HeadersOf(b)[i] = HeaderOf(b[i].type, b[i].len)
    BY HeadersOfList
  <1>2. \A i \in 1 .. Len(c) : c[i].type \in UInt16 /\ c[i].len \in UInt16
    <2>1. \A i \in 1 .. Len(c) : i \in 1 .. Len(b) \/ i = Len(b) + 1
      OBVIOUS
    <2> QED
      BY <2>1
  <1>3. /\ HeadersOf(c) \in Seq(Header) /\ Len(HeadersOf(c)) = Len(c)
        /\ \A i \in 1 .. Len(c) : HeadersOf(c)[i] = HeaderOf(c[i].type, c[i].len)
    <2>1. Len(c) \in Nat
      OBVIOUS
    <2> QED
      BY <1>2, <2>1, HeadersOfList
  <1> DEFINE d == Append(HeadersOf(b), HeaderOf(type, len))
  <1>4. HeaderOf(type, len) \in Header
    BY DEF Header, HeaderOf
  <1>5. /\ d \in Seq(Header) /\ Len(d) = Len(b) + 1
        /\ \A i \in 1 .. Len(b) : d[i] = HeadersOf(b)[i]
        /\ d[Len(b) + 1] = HeaderOf(type, len)
    BY <1>1, <1>4, AppendProperties
  <1> HIDE DEF d
  <1>6. ASSUME NEW i \in 1 .. Len(c)
        PROVE  HeadersOf(c)[i] = d[i]
    <2>1. CASE i \in 1 .. Len(b)
      BY <1>1, <1>3, <1>5, <2>1
    <2>2. CASE i = Len(b) + 1
      BY <1>3, <1>5, <2>2
    <2> QED
      BY <2>1, <2>2
  <1>7. HeadersOf(c) = d
    BY <1>3, <1>5, <1>6, SeqEqual
  <1> QED
    BY <1>3, <1>7 DEF d

(* The last seal of a list, which LastSeal is for the message. *)
LastOf(b) ==
    IF \E i \in 1 .. Len(b) : IsSeal(b[i])
      THEN CHOOSE i \in 1 .. Len(b) :
              /\ IsSeal(b[i])
              /\ \A j \in i + 1 .. Len(b) : ~IsSeal(b[j])
      ELSE 0

LEMMA LastOfIs ==
    ASSUME NEW b, Len(b) \in Nat, NEW k \in 1 .. Len(b), IsSeal(b[k]),
           \A j \in 1 .. Len(b) : k < j => ~IsSeal(b[j])
    PROVE  LastOf(b) = k
  <1> DEFINE P(i) == IsSeal(b[i]) /\ \A j \in i + 1 .. Len(b) : ~IsSeal(b[j])
  <1>1. P(k)
    <2>1. \A j \in k + 1 .. Len(b) : j \in 1 .. Len(b) /\ k < j
      OBVIOUS
    <2> QED
      BY <2>1
  <1>2. ASSUME NEW i \in 1 .. Len(b), P(i)
        PROVE  i = k
    <2>1. ~(k < i)
      BY <1>2
    <2>2. ~(i < k)
      <3> SUFFICES ASSUME i < k
                   PROVE  FALSE
        OBVIOUS
      <3>1. k \in i + 1 .. Len(b)
        OBVIOUS
      <3> QED
        BY <1>2, <3>1
    <2> QED
      BY <2>1, <2>2
  <1> HIDE DEF P
  <1>3. (CHOOSE i \in 1 .. Len(b) : P(i)) = k
    BY <1>1, <1>2
  <1> QED
    BY <1>3 DEF LastOf, P

LEMMA LastOfNone ==
    ASSUME NEW b, \A i \in 1 .. Len(b) : ~IsSeal(b[i])
    PROVE  LastOf(b) = 0
  BY DEF LastOf

(* A message with seals has a last one. *)
HasLastSeal ==
    (\E i \in 1 .. Len(body) : IsSeal(body[i])) => \E k \in 1 .. Len(body) : LastSealIs(k)

LEMMA PlainGrows ==
    ASSUME TypeOK, HasLastSeal, NEW type \in UInt16, NEW len \in Nat,
           Grows(type, len, NotCovering)
    PROVE  /\ Log' = Append(Log, HeaderOf(type, ToUInt16(len)))
           /\ LastSeal' = LastSeal
           /\ HasLastSeal'
  <1>1. /\ Len(body) \in Nat /\ Len(body') = Len(body) + 1
        /\ \A i \in 1 .. Len(body) : body'[i] = body[i]
        /\ body'[Len(body) + 1].type = type
        /\ body'[Len(body) + 1].len = ToUInt16(len)
        /\ body'[Len(body) + 1].cover = NotCovering
    BY GrownBody
  <1>2. Log' = Append(Log, HeaderOf(type, ToUInt16(len)))
    <2>1. ToUInt16(len) \in UInt16
      BY ToUInt16Bounds
    <2> QED
      BY <1>1, <2>1, BodyTypes, HeadersOfGrown DEF Log
  <1>3. ~IsSeal(body'[Len(body) + 1]) /\ Len(body') \in Nat
        /\ \A i \in 1 .. Len(body') : i \in 1 .. Len(body) \/ i = Len(body) + 1
    BY <1>1 DEF IsSeal
  <1>4. CASE \E i \in 1 .. Len(body) : IsSeal(body[i])
    <2>1. PICK k \in 1 .. Len(body) : LastSealIs(k)
      BY <1>4 DEF HasLastSeal
    <2>2. LastOf(body) = k
      BY <1>1, <2>1, LastOfIs DEF LastSealIs
    <2>3. /\ k \in 1 .. Len(body') /\ IsSeal(body'[k])
          /\ \A j \in 1 .. Len(body') : k < j => ~IsSeal(body'[j])
      BY <1>1, <1>3, <2>1 DEF LastSealIs
    <2>4. LastOf(body') = k
      BY <1>3, <2>3, LastOfIs
    <2> QED
      BY <1>2, <2>2, <2>3, <2>4 DEF LastSeal, LastOf, HasLastSeal, LastSealIs, IsSeal
  <1>5. CASE \A i \in 1 .. Len(body) : ~IsSeal(body[i])
    <2>1. \A i \in 1 .. Len(body') : ~IsSeal(body'[i])
      BY <1>1, <1>3, <1>5
    <2>2. LastOf(body) = 0 /\ LastOf(body') = 0
      BY <1>5, <2>1, LastOfNone
    <2> QED
      BY <1>2, <2>1, <2>2 DEF LastSeal, LastOf, HasLastSeal, IsSeal
  <1> QED
    BY <1>4, <1>5

LEMMA SealGrows ==
    ASSUME TypeOK, NEW type \in UInt16, NEW len \in Nat,
           Grows(type, len, LengthWith(AttrSize(len)))
    PROVE  /\ Log' = Append(Log, HeaderOf(type, ToUInt16(len)))
           /\ LastSeal' = Len(Log')
           /\ HasLastSeal'
  <1>1. /\ Len(body) \in Nat /\ Len(body') = Len(body) + 1
        /\ \A i \in 1 .. Len(body) : body'[i] = body[i]
        /\ body'[Len(body) + 1].type = type
        /\ body'[Len(body) + 1].len = ToUInt16(len)
        /\ body'[Len(body) + 1].cover = LengthWith(AttrSize(len))
    BY GrownBody
  <1>2. Log' = Append(Log, HeaderOf(type, ToUInt16(len))) /\ Len(Log') = Len(body')
    <2>1. ToUInt16(len) \in UInt16
      BY ToUInt16Bounds
    <2> QED
      BY <1>1, <2>1, BodyTypes, HeadersOfGrown DEF Log
  <1> DEFINE k == Len(body) + 1
  <1>3. LengthWith(AttrSize(len)) # NotCovering
    BY PaddedBounds, LengthWithValue
  <1>4. /\ k \in 1 .. Len(body') /\ Len(body') \in Nat /\ IsSeal(body'[k])
        /\ \A j \in 1 .. Len(body') : k < j => ~IsSeal(body'[j])
    BY <1>1, <1>3 DEF IsSeal
  <1> HIDE DEF k
  <1>5. LastOf(body') = k
    BY <1>4, LastOfIs
  <1>6. HasLastSeal'
    BY <1>4 DEF HasLastSeal, LastSealIs, IsSeal
  <1> QED
    BY <1>1, <1>2, <1>5, <1>6 DEF LastSeal, LastOf, IsSeal, k

(* A call of the builder adds an attribute to the channel, seals it, or leaves  *)
(* it as it is.                                                              *)
Same == Log' = Log /\ LastSeal' = LastSeal /\ HasLastSeal'

LEMMA SameBody ==
    ASSUME HasLastSeal, body' = body
    PROVE  Same
  BY DEF Same, Log, LastSeal, HasLastSeal, LastSealIs, IsSeal

LEMMA CallOnChannel ==
    ASSUME TypeOK, HasLastSeal, BuilderNext
    PROVE  /\ HasLastSeal'
           /\ \/ Same
              \/ \E a \in Attributes :
                    Log' = Append(Log, HeaderOf(a.type, ToUInt16(a.len))) /\ LastSeal' = LastSeal
              \/ \E s \in IntegrityKinds \cup {Fingerprint} :
                    Log' = Append(Log, HeaderOf(s.type, s.size)) /\ LastSeal' = Len(Log')
  <1>1. ASSUME NEW a \in Attributes, AddAttribute(a)
        PROVE  \/ Same
               \/ HasLastSeal' /\ Log' = Append(Log, HeaderOf(a.type, ToUInt16(a.len)))
                  /\ LastSeal' = LastSeal
    <2>1. a.type \in UInt16 /\ a.len \in Nat
      BY AttributesAssumption
    <2> QED
      BY <1>1, <2>1, AddShape, PlainGrows, SameBody
  <1>2. ASSUME NEW mi \in IntegrityKinds, NEW keyed \in BOOLEAN, AddIntegrity(mi, keyed)
        PROVE  \/ Same
               \/ HasLastSeal' /\ Log' = Append(Log, HeaderOf(mi.type, mi.size))
                  /\ LastSeal' = Len(Log')
    <2>1. /\ mi.type \in UInt16 /\ mi.size \in Nat /\ ToUInt16(mi.size) = mi.size
      BY SealSizes, UInt16Range
    <2> QED
      BY <1>2, <2>1, IntegrityShape, SealGrows, SameBody
  <1>3. ASSUME AddFingerprint
        PROVE  \/ Same
               \/ HasLastSeal' /\ LastSeal' = Len(Log')
                  /\ Log' = Append(Log, HeaderOf(Fingerprint.type, Fingerprint.size))
    <2>1. /\ Fingerprint.type \in UInt16 /\ Fingerprint.size \in Nat
          /\ ToUInt16(Fingerprint.size) = Fingerprint.size
      BY SealSizes, UInt16Range
    <2> QED
      BY <1>3, <2>1, FingerprintShape, SealGrows, SameBody
  <1>4. ASSUME Finalize
        PROVE  Same
    BY <1>4, SameBody DEF Finalize
  <1>5. CASE \E a \in Attributes : BuilderAdd(a)
    <2>1. PICK a \in Attributes : AddAttribute(a)
      BY <1>5 DEF BuilderAdd
    <2> QED
      BY <1>1, <2>1 DEF Same
  <1>6. CASE \E mi \in IntegrityKinds, keyed \in BOOLEAN : BuilderAddIntegrity(mi, keyed)
    <2>1. PICK mi \in IntegrityKinds, keyed \in BOOLEAN : AddIntegrity(mi, keyed)
      BY <1>6 DEF BuilderAddIntegrity
    <2> QED
      BY <1>2, <2>1 DEF Same
  <1>7. CASE BuilderAddFingerprint
    <2>1. Fingerprint \in IntegrityKinds \cup {Fingerprint}
      OBVIOUS
    <2>2. AddFingerprint
      BY <1>7 DEF BuilderAddFingerprint
    <2> QED
      BY <1>3, <2>1, <2>2 DEF Same
  <1>8. CASE BuilderFinalize
    BY <1>4, <1>8 DEF Same, BuilderFinalize
  <1> QED
    BY <1>5, <1>6, <1>7, <1>8 DEF BuilderNext

-----------------------------------------------------------------------------
(* What the reader has taken is the beginning of the log. *)
LEMMA LogTyped ==
    ASSUME Built
    PROVE  /\ Log \in Seq(Header) /\ Len(Log) = Len(body) /\ Len(body) \in Nat
           /\ \A i \in 1 .. Len(body) : Log[i] = HeaderOf(body[i].type, body[i].len)
  BY BodyTypes, HeadersOfList DEF Built, Log

LEMMA TakenHeaders ==
    ASSUME Built, ReaderInv, dec_result = "accepted"
    PROVE  HeadersOf(SubSeq(table, dec_base + 1, Len(table))) = SubSeq(Log, 1, Count)
  <1> DEFINE taken == SubSeq(table, dec_base + 1, Len(table))
             logged == SubSeq(Log, 1, Count)
  <1>1. /\ table \in Seq(Dec!Entry) /\ dec_base \in Nat /\ Len(table) \in Nat
        /\ dec_base <= Len(table)
    BY LenProperties DEF ReaderInv, ReaderTyped
  <1>2. Count \in 0 .. Len(body) /\ Count \in Nat /\ Len(table) - dec_base = Count
    BY LogTyped DEF ReaderInv, AllFound, Count
  <1>3. Len(taken) = Count /\ \A i \in 1 .. Count : taken[i] = table[dec_base + i]
    <2>1. \A i \in dec_base + 1 .. Len(table) : table[i] \in Dec!Entry
      BY <1>1
    <2> QED
      BY <1>1, <1>2, <2>1, SubSeqProperties
  <1>4. Len(logged) = Count /\ logged \in Seq(Header)
        /\ \A i \in 1 .. Count : logged[i] = Log[i]
    BY <1>2, LogTyped, SubSeqProperties
  <1> HIDE DEF taken, logged
  <1>5. ASSUME NEW i \in 1 .. Count
        PROVE  /\ taken[i].type = body[i].type /\ taken[i].len = body[i].len
               /\ taken[i].type \in UInt16 /\ taken[i].len \in UInt16
    <2>1. dec_base + i \in dec_base + 1 .. Len(table) /\ (dec_base + i) - dec_base = i
      BY <1>1, <1>2
    <2>2. table[dec_base + i] = [type |-> body[i].type, len |-> body[i].len,
                                 offset |-> body[i].off + ATTR_HEADER_SIZE]
      BY <2>1 DEF ReaderInv, OnlyPlacedFound
    <2>3. i \in 1 .. Len(body)
      BY <1>2, LogTyped
    <2> QED
      BY <1>3, <2>2, <2>3, BodyTypes DEF Built
  <1>6. /\ HeadersOf(taken) \in Seq(Header) /\ Len(HeadersOf(taken)) = Count
        /\ \A i \in 1 .. Count : HeadersOf(taken)[i] = HeaderOf(taken[i].type, taken[i].len)
    BY <1>2, <1>3, <1>5, HeadersOfList
  <1>7. ASSUME NEW i \in 1 .. Count
        PROVE  HeadersOf(taken)[i] = logged[i]
    <2>1. i \in 1 .. Len(body)
      BY <1>2, LogTyped
    <2> QED
      BY <1>4, <1>5, <1>6, <2>1, LogTyped
  <1>8. HeadersOf(taken) = logged
    BY <1>4, <1>6, <1>7, SeqEqual
  <1> QED
    BY <1>8 DEF taken, logged

(* What a reader that accepts takes: everything up to the last seal, or        *)
(* everything (Encoder.cpp:56-60, Decoder.cpp:49-71).                          *)
Delivered ==
    dec_result = "accepted" =>
        Got = <<IF LastSeal = 0 THEN Log ELSE SubSeq(Log, 1, LastSeal)>>

LEMMA DeliveredInvariant == CodecSpec => []Delivered
  <1>1. ASSUME Built, ReaderInv, CoversOwnEnd, SealsFlagged, SealedHeader,
               UnsealedFinalizeExact
        PROVE  Delivered
    <2> SUFFICES ASSUME dec_result = "accepted"
                 PROVE  SubSeq(Log, 1, Count) =
                            IF LastSeal = 0 THEN Log ELSE SubSeq(Log, 1, LastSeal)
      BY <1>1, TakenHeaders DEF Delivered, Got
    <2>1. valid /\ last.call = "finalize"
      BY <1>1 DEF ReaderInv, AllFound, Sent
    <2>2. CASE \E i \in 1 .. Len(body) : IsSeal(body[i])
      <3>1. Sealed
        BY <1>1, <2>2 DEF SealsFlagged, Sealed, IsFingerprint, IsIntegrity
      <3>2. PICK k \in 1 .. Len(body) : LastSealIs(k) /\ wire = body[k].cover
        BY <1>1, <2>1, <3>1 DEF SealedHeader
      <3>3. Count = k
        BY <1>1, <3>2, CountOfSealed
      <3>4. LastSeal = k
        BY <1>1, <3>2, LogTyped, LastOfIs DEF LastSealIs, LastSeal, LastOf
      <3>5. k # 0
        OBVIOUS
      <3> QED
        BY <3>3, <3>4, <3>5
    <2>3. CASE \A i \in 1 .. Len(body) : ~IsSeal(body[i])
      <3>1. wire = LengthField(EndBefore(Len(body) + 1))
        BY <1>1, <2>1, <2>3 DEF UnsealedFinalizeExact, stunSize, Built, Contiguous
      <3>2. Len(body) + 1 \in 1 .. Len(body) + 1 /\ Len(body) \in 0 .. Len(body)
        BY <1>1, LogTyped
      <3>3. Count = Len(Log)
        BY <1>1, <3>1, <3>2, EndDeclared, CountIs, LogTyped
      <3>4. LastSeal = 0
        BY <2>3, LastOfNone DEF LastSeal, LastOf
      <3>5. SubSeq(Log, 1, Len(Log)) = Log
        BY <1>1, LogTyped, SubSeqFull
      <3> QED
        BY <3>3, <3>4, <3>5
    <2> QED
      BY <2>2, <2>3
  <1> QED
    BY <1>1, ReaderInvariant, CodecImplementsBuilder, SealedHeaderInvariant,
       BuilderImplementsEncoder, SealsCoverTheirOwnEnd, FlagsTellSeals,
       FinalizeExactWithoutSeals, PTL

-----------------------------------------------------------------------------
(* The steps of the two, as steps of the channel. *)
LEMMA BuildOnChannel ==
    ASSUME Built, ReaderInv, HasLastSeal, Build
    PROVE  HasLastSeal' /\ (Channel!Next \/ UNCHANGED Channel!channelVars)
  <1>1. packet = NoPacket /\ BuilderNext /\ UNCHANGED <<packet, dec_result>>
    BY DEF Build, decoderVars
  <1>2. dec_result = "none"
    BY <1>1 DEF ReaderInv, ReaderTyped
  <1>3. Way = "no" /\ Way' = Way /\ Got' = Got
    BY <1>1, <1>2 DEF Way, Got
  <1>4. /\ HasLastSeal'
        /\ \/ Same
           \/ \E a \in Attributes :
                 Log' = Append(Log, HeaderOf(a.type, ToUInt16(a.len))) /\ LastSeal' = LastSeal
           \/ \E s \in IntegrityKinds \cup {Fingerprint} :
                 Log' = Append(Log, HeaderOf(s.type, s.size)) /\ LastSeal' = Len(Log')
    BY <1>1, CallOnChannel DEF Built
  <1>5. CASE Same
    BY <1>3, <1>4, <1>5, ChannelStutters DEF Same
  <1>6. ASSUME NEW a \in Attributes,
               Log' = Append(Log, HeaderOf(a.type, ToUInt16(a.len))), LastSeal' = LastSeal
        PROVE  Channel!Next
    BY <1>3, <1>6, ChannelAdds
  <1>7. ASSUME NEW s \in IntegrityKinds \cup {Fingerprint},
               Log' = Append(Log, HeaderOf(s.type, s.size)), LastSeal' = Len(Log')
        PROVE  Channel!Next
    BY <1>3, <1>7, ChannelSeals
  <1> QED
    BY <1>4, <1>5, <1>6, <1>7

(* A step that leaves the builder alone leaves the log and its seals alone. *)
LEMMA BuilderAlone ==
    ASSUME HasLastSeal, UNCHANGED builderVars
    PROVE  Log' = Log /\ LastSeal' = LastSeal /\ HasLastSeal' /\ wire' = wire
  <1>1. body' = body /\ wire' = wire
    BY DEF builderVars, vars
  <1> QED
    BY <1>1, SameBody DEF Same

LEMMA SendOnChannel ==
    ASSUME ReaderInv, HasLastSeal, Send
    PROVE  HasLastSeal' /\ Channel!Next
  <1>1. packet = NoPacket /\ UNCHANGED builderVars /\ UNCHANGED dec_result
    BY DEF Send, decoderVars
  <1>2. dec_result = "none"
    BY <1>1 DEF ReaderInv, ReaderTyped
  <1>3. PICK size : packet' = Bytes(size)
    BY DEF Send
  <1>4. packet' # NoPacket
    <2>1. packet'.cookie = TRUE /\ NoPacket.cookie = FALSE
      BY <1>3 DEF Bytes, NoPacket
    <2> QED
      BY <2>1
  <1>5. Way = "no" /\ Way' \in {"whole", "cut"} /\ Got' = Got
    BY <1>1, <1>2, <1>4 DEF Way, Got
  <1> QED
    BY <1>1, <1>5, BuilderAlone, ChannelSends

LEMMA ReadOnChannel ==
    ASSUME ReaderInv, ReaderInv', Delivered', HasLastSeal, Read
    PROVE  HasLastSeal' /\ (Channel!Next \/ UNCHANGED Channel!channelVars)
  <1>1. packet # NoPacket /\ packet' = packet /\ UNCHANGED builderVars
    BY DEF Read, Dec!Decode, Dec!ParseAttribute, Dec!Accept
  <1>2. Log' = Log /\ LastSeal' = LastSeal /\ HasLastSeal' /\ Way' = Way
    BY <1>1, BuilderAlone DEF Way, Cut
  <1>3. dec_result # "accepted"
    <2>1. CASE Dec!Decode
      <3>1. dec_calls < 1
        BY <2>1 DEF Dec!Decode
      <3>2. dec_calls = 0
        BY <3>1 DEF ReaderInv, ReaderTyped
      <3> QED
        BY <3>2 DEF ReaderInv, ReaderTyped
    <2>2. CASE dec_pc = "loop"
      BY <2>2 DEF ReaderInv, Walk
    <2> QED
      BY <2>1, <2>2 DEF Read, Dec!ParseAttribute, Dec!Accept
  <1>4. Got = <<>>
    BY <1>3 DEF Got
  <1>5. CASE dec_result' = "accepted"
    <2>1. Way = "whole"
      BY <1>1, <1>2, <1>5 DEF ReaderInv, Accepted, Way
    <2>2. Got' = <<IF LastSeal = 0 THEN Log ELSE SubSeq(Log, 1, LastSeal)>>
      BY <1>2, <1>5 DEF Delivered
    <2> QED
      BY <1>2, <1>4, <2>1, <2>2, ChannelDelivers
  <1>6. CASE dec_result' # "accepted"
    <2>1. Got' = Got
      BY <1>3, <1>6 DEF Got
    <2> QED
      BY <1>2, <2>1, ChannelStutters
  <1> QED
    BY <1>5, <1>6

LEMMA StutterOnChannel ==
    ASSUME HasLastSeal, UNCHANGED codecVars
    PROVE  HasLastSeal' /\ UNCHANGED Channel!channelVars
  <1>1. UNCHANGED <<builderVars, packet, dec_result, table, dec_base>>
    BY DEF codecVars, decoderVars
  <1>2. Way' = Way /\ Got' = Got
    BY <1>1, BuilderAlone DEF Way, Got, Cut
  <1> QED
    BY <1>1, <1>2, BuilderAlone, ChannelStutters

(* For every buffer, every set of attributes and every cut, what builder and    *)
(* reader do is what the channel allows: the safety part of ImplementsChannel  *)
(* (StunMessageBuilder.hpp:19-40, Encoder.cpp:24-61, Decoder.cpp:28-71).       *)
THEOREM CodecImplementsChannel ==
    CodecSpec => Channel!Init /\ [][Channel!Next]_(Channel!channelVars)
  <1>1. CodecInit => Channel!Init /\ HasLastSeal
    <2> SUFFICES ASSUME CodecInit
                 PROVE  Channel!Init /\ HasLastSeal
      OBVIOUS
    <2>1. body = <<>> /\ packet = NoPacket /\ dec_result = "none"
      BY DEF CodecInit, BuilderInit, Init, Dec!Init
    <2>2. Len(body) = 0 /\ \A i \in 1 .. Len(body) : FALSE
      BY <2>1, EmptySeq
    <2>3. LastSeal = 0 /\ HasLastSeal
      BY <2>2 DEF LastSeal, HasLastSeal
    <2>4. Log = <<>>
      BY <2>1, <2>2 DEF Log, HeadersOf
    <2>5. Way = "no" /\ Got = <<>>
      BY <2>1 DEF Way, Got
    <2> QED
      BY <2>3, <2>4, <2>5, ChannelStarts
  <1>2. Built /\ ReaderInv /\ ReaderInv' /\ Delivered' /\ HasLastSeal
          /\ [CodecNext]_codecVars
           => HasLastSeal' /\ [Channel!Next]_(Channel!channelVars)
    BY BuildOnChannel, SendOnChannel, ReadOnChannel, StutterOnChannel DEF CodecNext
  <1> QED
    BY <1>1, <1>2, ReaderInvariant, DeliveredInvariant, PTL DEF CodecSpec
=============================================================================

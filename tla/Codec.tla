------------------------------- MODULE Codec --------------------------------
(***************************************************************************)
(* A message built by a StunMessageBuilder, handed over, and read by a       *)
(* Decoder: the composition of Builder and Decoder through the bytes of the  *)
(* buffer, and what the two promise together (AttributeChannel).             *)
(***************************************************************************)
EXTENDS Builder

CONSTANTS
    Filler,   \* what any word that starts no attribute would read as an
              \* attribute header: bytes of a value, or what the buffer held
              \* behind the message
    Cuts      \* the sizes to which a message may be cut on its way

ASSUME CodecAssumption == Filler \in WireAttr /\ Cuts \subseteq Nat

(* MAX_PACKET_SIZE: a longer message wraps its length field. *)
MAX_PACKET_SIZE == 65536
ASSUME PacketAssumption == Capacity <= MAX_PACKET_SIZE

VARIABLES
    packet,           \* what the reader's buffer shows, or NoPacket
    dec_length,       \* Decoder::stun_header_.msg_length
    dec_offset,       \* Decoder::offset_
    table,            \* Decoder::attributes_
    unknown,          \* Decoder::unknown_required_
    dec_pc, dec_result, dec_base, dec_calls   \* the progress of decode()

decoderVars == <<dec_length, dec_offset, table, unknown, dec_pc, dec_result,
                 dec_base, dec_calls>>
codecVars == <<builderVars, packet, decoderVars>>

NoPacket == [size |-> 0, cookie |-> FALSE, length |-> 0, attr |-> <<>>]

Packets == {NoPacket} \cup
    UNION { [size : {n}, cookie : {TRUE}, length : UInt16,
             attr : [Slots(n) -> WireAttr]]
            : n \in 0 .. Capacity }

Dec == INSTANCE Decoder WITH
    Buffers <- Packets, MaxCalls <- 1,
    buffer <- packet, msg_length <- dec_length, offset <- dec_offset,
    attributes <- table, unknown_required <- unknown,
    pc <- dec_pc, result <- dec_result, base <- dec_base, calls <- dec_calls

-----------------------------------------------------------------------------
(* The first size bytes of the buffer, as a reader sees them. *)
HeaderAt(o) ==
    IF \E i \in 1 .. Len(body) : body[i].off = o
      THEN LET i == CHOOSE i \in 1 .. Len(body) : body[i].off = o
           IN  [type |-> body[i].type, len |-> body[i].len]
      ELSE Filler

Bytes(size) ==
    [size |-> size, cookie |-> TRUE, length |-> wire,
     attr |-> [o \in Slots(size) |-> HeaderAt(o)]]

CodecInit ==
    /\ BuilderInit
    /\ packet = NoPacket
    /\ Dec!Init

Build ==
    /\ packet = NoPacket
    /\ BuilderNext
    /\ UNCHANGED <<packet, decoderVars>>

(* The caller of finalize() hands over the message of a valid builder: its    *)
(* totalSize() bytes, or the whole buffer as the tests do.  Of the first, a    *)
(* reader whose own buffer is too small may get only a part.                  *)
Send ==
    /\ packet = NoPacket
    /\ valid /\ last.call = "finalize"
    /\ \E size \in {offset, Capacity} \cup {n \in Cuts : n < offset} :
          packet' = Bytes(size)
    /\ UNCHANGED <<builderVars, decoderVars>>

Read ==
    /\ packet # NoPacket
    /\ Dec!Decode \/ Dec!ParseAttribute \/ Dec!Accept
    /\ UNCHANGED builderVars

CodecNext == Build \/ Send \/ Read

(* The reader of a message that arrived decodes it; nothing obliges anyone to  *)
(* build or to send.                                                          *)
CodecSpec == CodecInit /\ [][CodecNext]_codecVars /\ WF_codecVars(Read)

-----------------------------------------------------------------------------
(* A message of a valid builder is rejected if and only if it was cut before   *)
(* the end that its header declares, which lies within the message: whichever  *)
(* calls built it, whichever of the two sizes is handed over, and even if      *)
(* attributes behind a seal are lost (Decoder.cpp:30,43,54).                  *)
Cut == packet.size < STUN_HEADER_SIZE + wire

RejectedIffCut ==
    /\ packet # NoPacket /\ packet.size >= offset => ~Cut
    /\ dec_result = "rejected" => Cut
    /\ dec_result = "accepted" => ~Cut

(* The reader finds the attributes that the builder placed, where it placed    *)
(* them, and nothing of what lies inside a value or behind the message         *)
(* (Encoder.hpp:49-61, Decoder.cpp:49-67).                                     *)
OnlyPlacedFound ==
    \A i \in dec_base + 1 .. Len(table) :
        /\ i - dec_base <= Len(body)
        /\ table[i] = [type |-> body[i - dec_base].type,
                       len |-> body[i - dec_base].len,
                       offset |-> body[i - dec_base].off + ATTR_HEADER_SIZE]

(* What the last seal covers is what the reader reads to: when the last thing  *)
(* it finds is a FINGERPRINT, the header it reads is the one the CRC was       *)
(* computed over (FingerprintAttr.hpp:7-8, Encoder.cpp:34-43).                 *)
LastFoundVerifies ==
    dec_result = "accepted" /\ (\E i \in 1 .. Len(body) : IsSeal(body[i])) =>
        /\ Len(table) > dec_base
        /\ LET p == body[Len(table) - dec_base]
           IN  IsSeal(p) /\ p.cover = packet.length

(* Every seal that the reader finds verifies, not only the last, if it is      *)
(* compared with an HMAC or CRC over a header that declares the message to end  *)
(* where the reader found the seal to end (MessageIntegrityAttrT.hpp:17-19,    *)
(* FingerprintAttr.hpp:7-8, Encoder.hpp:72-78).                               *)
FoundSealsVerify ==
    \A i \in dec_base + 1 .. Len(table) :
        LET p == body[i - dec_base]
        IN  IsSeal(p) => p.cover = LengthField(table[i].offset + table[i].len)

(* getAttribute() and getAttributes() give the values of a type that were       *)
(* placed before the declared end, all of them, in order, the first one first,  *)
(* and nothing for another type (Decoder.hpp:52-59,75-90).                    *)
PlacedEntries ==
    [i \in 1 .. Len(body) |-> [type |-> body[i].type, len |-> body[i].len,
                               offset |-> body[i].off + ATTR_HEADER_SIZE]]
GetsAll(type) ==
    LET values == Dec!getAttributes(type) IN
    /\ Lists(values, PlacedEntries,
             {i \in 1 .. Len(table) - dec_base : body[i].type = type})
    /\ Dec!getAttribute(type) = IF values = <<>> THEN <<>> ELSE <<values[1]>>
GettersComplete ==
    dec_result = "accepted" =>
        \A type \in 1 .. 42 \cup 32768 .. 32810 : is_known_attr_type(type) => GetsAll(type)

(* Codec implements AttributeChannel, its liveness included: the message that  *)
(* was sent whole is delivered, complete up to its last seal, in order, once,    *)
(* and of one that was cut nothing is taken for a message                      *)
(* (StunMessageBuilder.hpp, Encoder.cpp, Decoder.cpp).                         *)
HeadersOf(s) == [i \in 1 .. Len(s) |-> [type |-> s[i].type, len |-> s[i].len]]

Channel == INSTANCE AttributeChannel WITH
    Plain <- {[type |-> a.type, len |-> ToUInt16(a.len)] : a \in Attributes},
    Seals <- {[type |-> s.type, len |-> s.size] : s \in IntegrityKinds \cup {Fingerprint}},
    log <- HeadersOf(body),
    sealed <- IF \E i \in 1 .. Len(body) : IsSeal(body[i])
                THEN CHOOSE i \in 1 .. Len(body) :
                        /\ IsSeal(body[i])
                        /\ \A j \in i + 1 .. Len(body) : ~IsSeal(body[j])
                ELSE 0,
    sent <- IF packet = NoPacket THEN "no" ELSE IF Cut THEN "cut" ELSE "whole",
    received <- IF dec_result = "accepted"
                  THEN <<HeadersOf(SubSeq(table, dec_base + 1, Len(table)))>>
                  ELSE <<>>

ImplementsChannel == Channel!Spec
=============================================================================

------------------------------ MODULE Encoder -------------------------------
(***************************************************************************)
(* stunxx::Encoder (include/stunxx/Encoder.hpp, src/Encoder.cpp): a STUN    *)
(* message written front to back into a buffer the caller owns.  One action *)
(* per public call; the caller may make the calls in any order, any number  *)
(* of times.                                                               *)
(*                                                                         *)
(* The bytes of the buffer are abstracted to what a reader of them tells    *)
(* apart: the length field of the 20-byte header, if a header was written   *)
(* at all (type, cookie and transaction id never change), and where each    *)
(* attribute starts, what its header declares and, for a seal (an attribute *)
(* whose value is an HMAC or a CRC-32 of the message so far), the length    *)
(* field that the computation read.                                         *)
(*                                                                         *)
(* A definition named X_bug is X with a plausible slip; nothing uses it but *)
(* the mutation runs, which put it in place of X.                           *)
(***************************************************************************)
EXTENDS StunWire, Sequences

CONSTANTS
    Capacity,    \* buffer_.size()
    Attributes   \* the attribute values callers add: [type, len, need], where
                 \* len is what length() returns, a std::size_t in the classes
                 \* that hold lists, and need is how many bytes of value
                 \* encode() insists on having room for

(* finalize() copies 20 bytes without looking at the size of the buffer. *)
ASSUME CapacityAssumption == Capacity \in Nat /\ Capacity >= STUN_HEADER_SIZE

ASSUME AttributesAssumption ==
    Attributes \subseteq [type : UInt16, len : Nat, need : Nat]

VARIABLES
    offset,                  \* offset_: the end of what was written
    msg_length,              \* stun_header_.msg_length, in host order
    has_message_integrity,   \* has_message_integrity_
    has_fingerprint,         \* has_fingerprint_
    wire,                    \* the length field in the buffer, or NoHeader
    body,                    \* the attributes in the buffer, in order
    last                     \* the last call and what it returned

vars == <<offset, msg_length, has_message_integrity, has_fingerprint, wire,
          body, last>>

NoHeader == -1
NotCovering == -1

Calls == {"construct", "add", "integrity", "fingerprint", "finalize"}

Placed == [type : UInt16, len : UInt16, off : Nat, end : Nat,
           cover : UInt16 \cup {NotCovering}]

(* Every variable in its range; in particular, offset_ never passes the end *)
(* of the buffer, whatever the caller adds.                                 *)
TypeOK ==
    /\ offset \in Nat /\ STUN_HEADER_SIZE <= offset /\ offset <= Capacity
    /\ msg_length \in UInt16
    /\ has_message_integrity \in BOOLEAN
    /\ has_fingerprint \in BOOLEAN
    /\ wire \in UInt16 \cup {NoHeader}
    /\ body \in Seq(Placed)
    /\ last \in [call : Calls, ok : BOOLEAN]

-----------------------------------------------------------------------------
(* The length field of a message that ends at byte end of the buffer. *)
LengthField(end) == ToUInt16(end - STUN_HEADER_SIZE)

stunSize == LengthField(offset)

HasRoom_bug(total) == offset + total <= Capacity + ATTR_HEADER_SIZE
HasRoom(total) == offset + total <= Capacity

(* The length field of a message that ends with an attribute of total bytes. *)
LengthWith_bug(total) == stunSize
LengthWith(total) == ToUInt16(stunSize + total)

Sealed_bug == FALSE
Sealed == has_fingerprint \/ has_message_integrity

Returns(call, ok) == last' = [call |-> call, ok |-> ok]

Fails(call) ==
    /\ Returns(call, FALSE)
    /\ UNCHANGED <<offset, msg_length, has_message_integrity,
                   has_fingerprint, wire, body>>

(* stun_header_.msg_length = len, and the header copied into the buffer. *)
WriteHeader(len) == msg_length' = len /\ wire' = len

(* The attribute header and value at offset_, and the advance of offset_: the  *)
(* header declares the static_cast of a length of any size to 16 bits.        *)
Place_bug(type, len, total, cover) ==
    /\ body' = Append(body, [type |-> type, len |-> ToUInt16(len), off |-> offset,
                             end |-> offset + total, cover |-> cover])
    /\ offset' = offset + ATTR_HEADER_SIZE + len
Place(type, len, total, cover) ==
    /\ body' = Append(body, [type |-> type, len |-> ToUInt16(len), off |-> offset,
                             end |-> offset + total, cover |-> cover])
    /\ offset' = offset + total

-----------------------------------------------------------------------------
Init ==
    /\ offset = STUN_HEADER_SIZE
    /\ msg_length = 0
    /\ has_message_integrity = FALSE
    /\ has_fingerprint = FALSE
    /\ wire = NoHeader
    /\ body = <<>>
    /\ last = [call |-> "construct", ok |-> TRUE]

(* addAttribute for every attribute but the three seals: refused when the    *)
(* buffer has no room, or when encode() wants more room than length() made   *)
(* the encoder set aside.                                                    *)
CanPlace(a) == HasRoom(AttrSize(a.len)) /\ a.need <= Padded(a.len)

AddAttribute(a) ==
    \/ ~CanPlace(a) /\ Fails("add")
    \/ /\ CanPlace(a)
       /\ Place(a.type, a.len, AttrSize(a.len), NotCovering)
       /\ Returns("add", TRUE)
       /\ UNCHANGED <<msg_length, has_message_integrity, has_fingerprint, wire>>

(* addAttribute for MESSAGE-INTEGRITY: the header is rewritten, with the      *)
(* length the message will have, before compute() reads it; compute() fails   *)
(* when no key was set (or the HMAC cannot be computed), and then the         *)
(* rewritten header stays.                                                    *)
AddIntegrity(mi, keyed) ==
    LET total == ATTR_HEADER_SIZE + mi.size IN
    \/ ~HasRoom(total) /\ Fails("integrity")
    \/ /\ HasRoom(total)
       /\ WriteHeader(LengthWith(total))
       /\ \/ /\ ~keyed
             /\ Returns("integrity", FALSE)
             /\ UNCHANGED <<offset, has_message_integrity, body>>
          \/ /\ keyed
             /\ Place(mi.type, mi.size, total, LengthWith(total))
             /\ has_message_integrity' = TRUE
             /\ Returns("integrity", TRUE)
       /\ UNCHANGED has_fingerprint

(* addFingerprint: at most once; the CRC is read over a header whose length  *)
(* already includes the fingerprint.                                         *)
FingerprintSize == ATTR_HEADER_SIZE + Fingerprint.size

CanFingerprint_bug == HasRoom(FingerprintSize)
CanFingerprint == ~has_fingerprint /\ HasRoom(FingerprintSize)

AddFingerprint ==
    \/ ~CanFingerprint /\ Fails("fingerprint")
    \/ /\ CanFingerprint
       /\ WriteHeader(LengthWith(FingerprintSize))
       /\ Place(Fingerprint.type, Fingerprint.size, FingerprintSize,
                LengthWith(FingerprintSize))
       /\ has_fingerprint' = TRUE
       /\ Returns("fingerprint", TRUE)
       /\ UNCHANGED has_message_integrity

(* finalize: the header is written only if no seal fixed its length. *)
Finalize_bug ==   \* a header that some call wrote already is taken as good
    /\ IF wire = NoHeader
         THEN WriteHeader(stunSize)
         ELSE UNCHANGED <<msg_length, wire>>
    /\ Returns("finalize", TRUE)
    /\ UNCHANGED <<offset, has_message_integrity, has_fingerprint, body>>
Finalize ==
    /\ IF ~Sealed
         THEN WriteHeader(stunSize)
         ELSE UNCHANGED <<msg_length, wire>>
    /\ Returns("finalize", TRUE)
    /\ UNCHANGED <<offset, has_message_integrity, has_fingerprint, body>>

IntegrityKinds == {MessageIntegrity, MessageIntegritySHA256}

Next ==
    \/ \E a \in Attributes : AddAttribute(a)
    \/ \E mi \in IntegrityKinds, keyed \in BOOLEAN : AddIntegrity(mi, keyed)
    \/ AddFingerprint
    \/ Finalize

Spec == Init /\ [][Next]_vars

-----------------------------------------------------------------------------
IsSeal(p) == p.cover # NotCovering
IsFingerprint(p) == IsSeal(p) /\ p.type = Fingerprint.type
IsIntegrity(p) == IsSeal(p) /\ p.type # Fingerprint.type

(* Where the attributes before the i-th end: 20 for the first. *)
EndBefore(i) == IF i = 1 THEN STUN_HEADER_SIZE ELSE body[i-1].end

(* What an attribute takes beyond its header and the padded value it declares. *)
Undeclared(p) == p.end - (p.off + AttrSize(p.len))

(* The attributes tile the message: each starts where the one before it     *)
(* ends, takes exactly its header and the padded value that it declares, and *)
(* the next call writes where the last one ended, so that a reader that only *)
(* knows the declared lengths finds the attributes the encoder wrote.  Only a *)
(* value that its length field cannot express takes more, and then a multiple *)
(* of 65536 bytes, for which a shorter buffer has no room                    *)
(* (Encoder.hpp:49-61, UnknownAttributesAttr.hpp:21,38-39).                  *)
Contiguous ==
    /\ \A i \in 1 .. Len(body) :
          /\ body[i].off = EndBefore(i)
          /\ Undeclared(body[i]) \in Nat
          /\ Undeclared(body[i]) % (MaxUInt16 + 1) = 0
    /\ offset = EndBefore(Len(body) + 1)

(* Every seal was computed over a header that declares the message to end    *)
(* with that very seal, as its verifier will assume, however many attributes *)
(* and failed calls came before it (Encoder.hpp:72-78, Encoder.cpp:34-43).   *)
CoversOwnEnd ==
    \A i \in 1 .. Len(body) :
        IsSeal(body[i]) => body[i].cover = LengthField(body[i].end)

(* The flags that finalize() and addFingerprint() trust tell what is in the  *)
(* buffer, and there is at most one FINGERPRINT (Encoder.cpp:26,52,57).      *)
SealsFlagged ==
    /\ has_fingerprint = (\E i \in 1 .. Len(body) : IsFingerprint(body[i]))
    /\ has_message_integrity = (\E i \in 1 .. Len(body) : IsIntegrity(body[i]))
    /\ \A i, j \in 1 .. Len(body) :
          IsFingerprint(body[i]) /\ IsFingerprint(body[j]) => i = j

(* The header in the buffer never declares a message longer than the buffer, *)
(* not even after a MESSAGE-INTEGRITY that failed: a reader of the buffer    *)
(* that trusts the header stays inside it (Encoder.hpp:70-81).               *)
HeaderInBuffer == wire # NoHeader => STUN_HEADER_SIZE + wire <= Capacity

(* finalize() leaves an unsealed message with the length of its attributes,  *)
(* also when an earlier MESSAGE-INTEGRITY failed after it rewrote the header *)
(* (Encoder.cpp:56-60).                                                      *)
UnsealedFinalizeExact ==
    /\ last.call = "finalize"
    /\ \A i \in 1 .. Len(body) : ~IsSeal(body[i])
    => wire = stunSize

(* The header that the CRC of a FINGERPRINT was read over is still the one   *)
(* in the buffer until a later MESSAGE-INTEGRITY, stored or refused, rewrites *)
(* it: no other call, finalize() included, can break a fingerprint           *)
(* (Encoder.hpp:73-74, Encoder.cpp:38-39,57).                                *)
FingerprintBrokenOnlyByIntegrity ==
    [][\A i \in 1 .. Len(body) :
          IsFingerprint(body[i]) /\ wire = body[i].cover /\ wire' # wire
              => last'.call = "integrity"]_vars

-----------------------------------------------------------------------------
(* What the comments say of the length field and the code does not keep.     *)

(* Stun.hpp:303, "length of attributes only": a finalized header declares    *)
(* the attributes that were added.                                           *)
FinalizedLengthIsAttributes ==
    last.call = "finalize" => wire = offset - STUN_HEADER_SIZE

(* FingerprintAttr.hpp:7-8, "a CRC-32 of the STUN message up to (but         *)
(* excluding) the FINGERPRINT attribute itself": the length field is part of *)
(* that message, and is what it was when the CRC was computed.               *)
FingerprintMatchesHeader ==
    \A i \in 1 .. Len(body) : IsFingerprint(body[i]) => wire = body[i].cover
=============================================================================

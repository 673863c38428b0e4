-------------------------- MODULE AttributeValues ---------------------------
(***************************************************************************)
(* The attribute classes of include/stunxx/attributes/, but for the XOR      *)
(* addresses: the bytes that encode() writes behind the attribute header,    *)
(* as many as length() says, and what decode() makes of a value.             *)
(*                                                                         *)
(* Numbers of more than 16 bits (a 32-bit LIFETIME, a 64-bit tiebreaker, a   *)
(* CRC) are the sequence of their digits to base 256, the most significant   *)
(* first: what write_be32, host_to_be32 and host_to_be64 put in the buffer   *)
(* and their inverses take from it.  A string is its bytes.                  *)
(*                                                                         *)
(* A definition named X_bug is X with a plausible slip; nothing uses it but *)
(* the mutation runs, which put it in place of X.                           *)
(***************************************************************************)
EXTENDS StunWire, Sequences

Byte == 0 .. 255
Bytes(n) == [1 .. n -> Byte]
Zeros(n) == [i \in 1 .. n |-> 0]

(* write_be16, and read_be16 of b[i] and b[i + 1] *)
WriteBE16(n) == <<n \div 256, n % 256>>
ReadBE16_bug(b, i) == b[i + 1] * 256 + b[i]
ReadBE16(b, i) == b[i] * 256 + b[i + 1]

From(b, i) == SubSeq(b, i, Len(b))

(* std::nullopt *)
Nothing == [kind |-> "nothing"]
Attr(kind, value) == [kind |-> kind, value |-> value]

-----------------------------------------------------------------------------
(* Attributes whose value is taken as it is.  decode() looks at its size only, *)
(* and where the size is fixed the objects can have no other.                 *)
Marker == {"UseCandidate", "DontFragment"}
ShortString == {"Username"}
LongString == {"Realm", "Nonce", "AlternateDomain"}
Unlimited == {"Software", "Data"}
TiebreakerSize == 8     \* host_to_be64
TokenSize == 8
kHashSize == 32
HmacSize == [MessageIntegrity |-> MessageIntegrity.size,
             MessageIntegritySHA256 |-> MessageIntegritySHA256.size]
FixedSize ==
    [IceControlled |-> TiebreakerSize, IceControlling |-> TiebreakerSize,
     ReservationToken |-> TokenSize, UserHash |-> kHashSize,
     MessageIntegrity |-> HmacSize.MessageIntegrity,
     MessageIntegritySHA256 |-> HmacSize.MessageIntegritySHA256,
     Fingerprint |-> Fingerprint.size]

Opaque == Marker \cup ShortString \cup LongString \cup Unlimited \cup DOMAIN FixedSize

MaxUsername == 513
MaxString == 763

OpaqueSizeOK(kind, n) ==
    \/ kind \in Marker /\ n = 0
    \/ kind \in ShortString /\ n <= MaxUsername
    \/ kind \in LongString /\ n <= MaxString
    \/ kind \in Unlimited
    \/ kind \in DOMAIN FixedSize /\ n = FixedSize[kind]

DecodeOpaque(kind, b) ==
    IF OpaqueSizeOK(kind, Len(b)) THEN Attr(kind, b) ELSE Nothing

-----------------------------------------------------------------------------
(* Attributes of one word or one byte. *)

(* PRIORITY, LIFETIME, CONNECTION-ID: whatever follows the word is ignored. *)
Numeric == {"Priority", "Lifetime", "ConnectionId"}
DecodeNumeric(kind, b) ==
    IF Len(b) >= 4 THEN Attr(kind, SubSeq(b, 1, 4)) ELSE Nothing

(* The protocol, and three bytes that nobody looks at. *)
TransportBody(protocol) == <<protocol, 0, 0, 0>>
DecodeTransport(b) ==
    IF Len(b) = 4 THEN Attr("RequestedTransport", b[1]) ELSE Nothing

(* The R bit of the first byte. *)
EvenPortBody(reserve_pair) == IF reserve_pair THEN <<128>> ELSE <<0>>
DecodeEvenPort(b) ==
    IF Len(b) >= 1 THEN Attr("EvenPort", b[1] >= 128) ELSE Nothing

(* REQUESTED- and ADDITIONAL-ADDRESS-FAMILY: the family is not looked at. *)
AddressFamily == {"RequestedAddressFamily", "AdditionalAddressFamily"}
IPv4 == 1
IPv6 == 2
FamilyBody(family) == <<family, 0, 0, 0>>
DecodeFamily(kind, b) ==
    IF Len(b) = 4 /\ SubSeq(b, 2, 4) = Zeros(3) THEN Attr(kind, b[1]) ELSE Nothing

(* 0x4000 - 0x7FFF, and 16 bits that must be zero *)
ChannelNumbers == 16384 .. 32767
ChannelBody(channel) == WriteBE16(channel) \o Zeros(2)
DecodeChannel(b) ==
    IF Len(b) = 4 /\ ReadBE16(b, 1) \in ChannelNumbers /\ ReadBE16(b, 3) = 0
      THEN Attr("ChannelNumber", ReadBE16(b, 1))
      ELSE Nothing

-----------------------------------------------------------------------------
(* ERROR-CODE and ADDRESS-ERROR-CODE.  encode() takes any 16-bit code: three  *)
(* bits are left of code / 100, and all eight of code % 100.  ERROR-CODE has   *)
(* the class in the low bits of its byte, ADDRESS-ERROR-CODE in the high ones. *)
ClassOf_bug(code) == code \div 100
ClassOf(code) == (code \div 100) % 8

ErrorBody(v) == <<0, 0, ClassOf(v.code), v.code % 100>> \o v.reason
AddressErrorBody(v) ==
    <<v.family, 0, ClassOf(v.code) * 32, v.code % 100>> \o v.reason

ClassOK_bug(class) == class >= 3
ClassOK(class) == class \in 3 .. 6

DecodeError(b) ==
    IF Len(b) >= 4 /\ ClassOK(b[3] % 8) /\ b[4] <= 99
      THEN Attr("ErrorCode",
                [code |-> (b[3] % 8) * 100 + b[4], reason |-> From(b, 5)])
      ELSE Nothing

(* Of the codes, only 440 and 508 are accepted. *)
AddressErrorCodes == {440, 508}
DecodeAddressError(b) ==
    IF /\ Len(b) >= 4
       /\ b[1] \in {IPv4, IPv6}
       /\ ClassOK(b[3] \div 32) /\ b[4] <= 99
       /\ (b[3] \div 32) * 100 + b[4] \in AddressErrorCodes
      THEN Attr("AddressErrorCode",
                [family |-> b[1], code |-> (b[3] \div 32) * 100 + b[4],
                 reason |-> From(b, 5)])
      ELSE Nothing

-----------------------------------------------------------------------------
(* Lists.  The loops are functions of the number of their iterations. *)

UnknownBody(types) ==
    [i \in 1 .. 2 * Len(types) |->
        WriteBE16(types[(i + 1) \div 2])[IF i % 2 = 1 THEN 1 ELSE 2]]
DecodeUnknown(b) ==
    IF Len(b) % 2 = 0
      THEN Attr("UnknownAttributes",
                [i \in 1 .. Len(b) \div 2 |-> ReadBE16(b, 2 * i - 1)])
      ELSE Nothing

(* PasswordAlgorithmEntry: its parameters are padded inside the value. *)
EntryBytes_bug(e) ==
    WriteBE16(e.algorithm) \o WriteBE16(Len(e.parameters)) \o e.parameters
EntryBytes(e) ==
    WriteBE16(e.algorithm) \o WriteBE16(Len(e.parameters)) \o e.parameters
        \o Zeros(Padded(Len(e.parameters)) - Len(e.parameters))

EntryAt(b, i) ==
    [algorithm |-> ReadBE16(b, i),
     parameters |-> SubSeq(b, i + 4, i + 3 + ReadBE16(b, i + 2))]
EntrySize_bug(b, i) == 4 + ReadBE16(b, i + 2)
EntrySize(b, i) == 4 + Padded(ReadBE16(b, i + 2))

(* PASSWORD-ALGORITHM: what follows the entry is ignored. *)
DecodeAlgorithm(b) ==
    IF Len(b) >= 4 /\ Len(b) >= EntrySize(b, 1)
      THEN Attr("PasswordAlgorithm", EntryAt(b, 1))
      ELSE Nothing

(* PASSWORD-ALGORITHMS: an entry that does not fit rejects the value, fewer   *)
(* than four bytes at the end are ignored.                                    *)
EntriesBytes(entries) ==
    LET first[n \in 0 .. Len(entries)] ==
            IF n = 0 THEN <<>> ELSE first[n - 1] \o EntryBytes(entries[n])
    IN  first[Len(entries)]

(* decode()'s loop: the place it has reached, the entries behind it, and      *)
(* whether the last one fitted.                                              *)
LoopStart == [at |-> 1, entries |-> <<>>, ok |-> TRUE]
Room(b, at) == (Len(b) + 1) - at
LoopStep(b, s) ==
    IF ~s.ok \/ Room(b, s.at) < 4 THEN s
    ELSE IF Room(b, s.at) < EntrySize(b, s.at) THEN [s EXCEPT !.ok = FALSE]
    ELSE [at |-> s.at + EntrySize(b, s.at),
          entries |-> Append(s.entries, EntryAt(b, s.at)),
          ok |-> TRUE]

(* Len(b) iterations are more than enough: each takes at least four bytes. *)
DecodeAlgorithms(b) ==
    LET loop[n \in 0 .. Len(b)] ==
            IF n = 0 THEN LoopStart ELSE LoopStep(b, loop[n - 1])
        end == loop[Len(b)]
    IN  IF end.ok THEN Attr("PasswordAlgorithms", end.entries) ELSE Nothing

-----------------------------------------------------------------------------
PlainKinds ==
    Opaque \cup Numeric \cup AddressFamily \cup
    {"RequestedTransport", "EvenPort", "ChannelNumber", "ErrorCode",
     "AddressErrorCode", "UnknownAttributes", "PasswordAlgorithm",
     "PasswordAlgorithms"}

(* What the members of the class can hold, whoever made the object, as far as   *)
(* the length field of an attribute and of an entry can say.                  *)
AlgorithmEntry ==
    {e \in [algorithm : UInt16, parameters : Seq(Byte)] : Len(e.parameters) <= MaxUInt16}
PlainValues(kind) ==
    CASE kind \in DOMAIN FixedSize     -> Bytes(FixedSize[kind])
      [] kind \in Marker               -> {<<>>}
      [] kind \in Numeric              -> Bytes(4)
      [] kind = "RequestedTransport"   -> Byte
      [] kind = "EvenPort"             -> BOOLEAN
      [] kind \in AddressFamily        -> Byte
      [] kind = "ChannelNumber"        -> UInt16
      [] kind = "ErrorCode"            -> [code : UInt16, reason : Seq(Byte)]
      [] kind = "AddressErrorCode"     ->
            [family : Byte, code : UInt16, reason : Seq(Byte)]
      [] kind = "UnknownAttributes"    -> Seq(UInt16)
      [] kind = "PasswordAlgorithm"    -> AlgorithmEntry
      [] kind = "PasswordAlgorithms"   -> Seq(AlgorithmEntry)
      [] OTHER                         -> Seq(Byte)

(* The value bytes of an attribute. *)
PlainBody(a) ==
    CASE a.kind \in Opaque \cup Numeric   -> a.value
      [] a.kind = "RequestedTransport"    -> TransportBody(a.value)
      [] a.kind = "EvenPort"              -> EvenPortBody(a.value)
      [] a.kind \in AddressFamily         -> FamilyBody(a.value)
      [] a.kind = "ChannelNumber"         -> ChannelBody(a.value)
      [] a.kind = "ErrorCode"             -> ErrorBody(a.value)
      [] a.kind = "AddressErrorCode"      -> AddressErrorBody(a.value)
      [] a.kind = "UnknownAttributes"     -> UnknownBody(a.value)
      [] a.kind = "PasswordAlgorithm"     -> EntryBytes(a.value)
      [] a.kind = "PasswordAlgorithms"    -> EntriesBytes(a.value)

PlainDecode(kind, b) ==
    CASE kind \in Opaque                -> DecodeOpaque(kind, b)
      [] kind \in Numeric               -> DecodeNumeric(kind, b)
      [] kind = "RequestedTransport"    -> DecodeTransport(b)
      [] kind = "EvenPort"              -> DecodeEvenPort(b)
      [] kind \in AddressFamily         -> DecodeFamily(kind, b)
      [] kind = "ChannelNumber"         -> DecodeChannel(b)
      [] kind = "ErrorCode"             -> DecodeError(b)
      [] kind = "AddressErrorCode"      -> DecodeAddressError(b)
      [] kind = "UnknownAttributes"     -> DecodeUnknown(b)
      [] kind = "PasswordAlgorithm"     -> DecodeAlgorithm(b)
      [] kind = "PasswordAlgorithms"    -> DecodeAlgorithms(b)
=============================================================================

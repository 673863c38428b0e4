------------------------------- MODULE Relay --------------------------------
(***************************************************************************)
(* An attribute on its way through several agents that use the library: it   *)
(* is made by an application or arrives as the bytes of some other           *)
(* implementation, is encoded, decoded, passed on in the same message or in   *)
(* another one (as a TURN server moves the XOR-PEER-ADDRESS and DATA of a      *)
(* Send into a Data indication), and so on.  One action per call of encode()  *)
(* and decode(), for every attribute class.                                  *)
(*                                                                         *)
(* Room in the buffer is Encoder's business: encode() asks for Padded(Len)    *)
(* bytes behind the header, which is Encoder's need.                         *)
(***************************************************************************)
EXTENDS XorAddress

CONSTANTS
    Values,         \* the objects applications make
    Inputs,         \* the values of other implementations: [kind, bytes]
    Transactions,   \* the transaction ids of messages
    MaxHops         \* how often an attribute is decoded

Kinds == PlainKinds \cup XorKinds

(* What an object holds: an XOR attribute also the transaction id it is for.   *)
Objects(k) ==
    [kind : {k}, value : IF k \in XorKinds THEN XorValues ELSE PlainValues(k)]

(* What applications give the constructors is of the types of their arguments, *)
(* and no longer than the length field of an attribute can say.               *)
ASSUME RelayAssumption ==
    /\ \A v \in Values :
          \/ /\ v.kind \in PlainKinds
             /\ v \in Objects(v.kind)
             /\ Len(PlainBody(v)) <= MaxUInt16
          \/ \E k \in XorKinds : v \in [kind : {k}, value : StunAddress]
    /\ \A input \in Inputs :
          /\ input.kind \in Kinds
          /\ input.bytes \in Seq(Byte) /\ Len(input.bytes) <= MaxUInt16
    /\ Transactions \subseteq TransactionIds
    /\ MaxHops \in Nat \ {0}

VARIABLES
    stage,      \* "start", then "held" as an object, "wire" as bytes, or "rejected"
    kind,       \* the class whose decode() reads it
    attr,       \* the object, or Nothing
    wire,       \* the value bytes in the message
    tid,        \* the transaction id of the message
    original,   \* history: the object as first made or decoded, or Nothing
    sent,       \* history: the bytes as first encoded, or Nothing
    hops        \* history: how often it was decoded

vars == <<stage, kind, attr, wire, tid, original, sent, hops>>

(* Every object holds what its members can hold, and bytes are on the wire. *)
TypeOK ==
    /\ stage \in {"start", "held", "wire", "rejected"}
    /\ kind \in Kinds
    /\ attr = Nothing \/ attr \in Objects(kind)
    /\ wire \in Seq(Byte)
    /\ tid \in Transactions
    /\ original = Nothing \/ original \in Objects(kind)
    /\ sent = Nothing \/ sent \in [bytes : Seq(Byte)]
    /\ hops \in 0 .. MaxHops

-----------------------------------------------------------------------------
Body(a) == IF a.kind \in XorKinds THEN XorBody(a.value) ELSE PlainBody(a)

(* An XOR attribute is made for a transaction: its constructor keeps the id. *)
Made(v) ==
    IF v.kind \in XorKinds THEN Attr(v.kind, [address |-> v.value, tid |-> tid]) ELSE v

Decoded(k, b) ==
    IF k \in XorKinds THEN XorDecode(k, b, tid) ELSE PlainDecode(k, b)

Init ==
    /\ stage = "start"
    /\ kind \in Kinds
    /\ attr = Nothing
    /\ wire = <<>>
    /\ tid \in Transactions
    /\ original = Nothing
    /\ sent = Nothing
    /\ hops = 0

(* The constructors. *)
Make ==
    /\ stage = "start"
    /\ \E v \in Values :
          /\ v.kind = kind
          /\ attr' = Made(v)
          /\ original' = attr'
    /\ stage' = "held"
    /\ UNCHANGED <<kind, wire, tid, sent, hops>>

(* Bytes from an agent that does not use the library. *)
Receive ==
    /\ stage = "start"
    /\ \E input \in Inputs : input.kind = kind /\ wire' = input.bytes
    /\ stage' = "wire"
    /\ UNCHANGED <<kind, attr, tid, original, sent, hops>>

Encode ==
    /\ stage = "held" /\ hops < MaxHops
    /\ wire' = Body(attr)
    /\ sent' = IF sent = Nothing THEN [bytes |-> wire'] ELSE sent
    /\ stage' = "wire"
    /\ UNCHANGED <<kind, attr, tid, original, hops>>

(* getAttribute<AttrType>(): decode() of the value, with the transaction id of *)
(* the message for the XOR classes.                                          *)
Decode ==
    /\ stage = "wire"
    /\ attr' = Decoded(kind, wire)
    /\ IF attr' = Nothing
         THEN stage' = "rejected" /\ UNCHANGED original
         ELSE /\ stage' = "held"
              /\ original' = IF original = Nothing THEN attr' ELSE original
    /\ hops' = hops + 1
    /\ UNCHANGED <<kind, wire, tid, sent>>

(* The agent passes the object on in another message; or the value bytes are    *)
(* read under the transaction id of another message: copied into it unread, or *)
(* still in the table of a decoder that has decoded the next one.             *)
NewMessage ==
    /\ stage \in {"held", "wire"} /\ hops < MaxHops
    /\ tid' \in Transactions
    /\ UNCHANGED <<stage, kind, attr, wire, original, sent, hops>>

Next == Make \/ Receive \/ Encode \/ Decode \/ NewMessage

Spec == Init /\ [][Next]_vars

-----------------------------------------------------------------------------
(* What the attribute classes say they hold. *)
ErrorCodes == 300 .. 699
LegalEntry(e) == Len(e.parameters) <= MaxUInt16
Legal(a) ==
    /\ a.kind \in Opaque => OpaqueSizeOK(a.kind, Len(a.value))
    /\ a.kind \in Numeric => a.value \in Bytes(4)
    /\ a.kind = "RequestedTransport" => a.value \in Byte
    /\ a.kind = "EvenPort" => a.value \in BOOLEAN
    /\ a.kind \in AddressFamily => a.value \in Byte
    /\ a.kind = "ChannelNumber" => a.value \in ChannelNumbers
    /\ a.kind = "ErrorCode" => a.value.code \in ErrorCodes
    /\ a.kind = "AddressErrorCode" =>
          a.value.family \in {IPv4, IPv6} /\ a.value.code \in {440, 508}
    /\ a.kind = "UnknownAttributes" => a.value \in Seq(UInt16)
    /\ a.kind = "PasswordAlgorithm" => LegalEntry(a.value)
    /\ a.kind = "PasswordAlgorithms" =>
          \A i \in 1 .. Len(a.value) : LegalEntry(a.value[i])
    /\ a.kind \in XorKinds =>
          a.value \in XorValues /\ a.value.address.family \in {IPv4, IPv6}

(* What decode() accepts is legal, whatever bytes arrive                      *)
(* (ErrorCodeAttr.hpp:63-65, AddressErrorCodeAttr.hpp:102-130,                 *)
(* ChannelNumberAttr.hpp:74-79).                                              *)
AcceptedIsLegal == attr # Nothing /\ hops > 0 => Legal(attr)

(* A legal attribute is never rejected further on: every agent accepts what    *)
(* every other encodes, also of a value it was the first to tidy up            *)
(* (PasswordAlgorithmsAttr.hpp:89-114 against 124-140).                        *)
LegalNeverRejected == stage = "rejected" => original = Nothing \/ ~Legal(original)

(* A legal attribute arrives as it left, however often it is passed on.  Only   *)
(* an IPv6 address is bound to its transaction: it arrives as it left if and    *)
(* only if the message has the transaction id it was made with                  *)
(* (XorAddressAttrT.hpp:125-139,157-162).                                     *)
Bound(a) == a.kind \in XorKinds /\ a.value.address.family = IPv6
SameValue(a, b) ==
    IF a.kind \in XorKinds THEN a.value.address = b.value.address ELSE a = b
ArrivesAsItLeft ==
    stage = "held" /\ Legal(original) =>
        (SameValue(attr, original)
            <=> ~Bound(original) \/ attr.value.tid = original.value.tid)

(* The bytes of an object of class k, after they were decoded n times. *)
Settled(k, b) == IF k \in XorKinds THEN [b EXCEPT ![2] = ReadFamily(@)] ELSE b
Passed(k, n, b) == IF n = 0 THEN b ELSE Settled(k, b)

(* Passing an attribute on does not change its bytes: what the second agent     *)
(* encodes is what the first did, legal or not, in whatever message, and so on  *)
(* (encode() and decode() of every class).  The one exception is the family     *)
(* byte of an address of neither IPv4 nor IPv6, which encode() writes as it is:  *)
(* it is IPv6's from the first decode() on                                     *)
(* (XorAddressAttrT.hpp:48,76-79,125-146,155).                                *)
BytesStable ==
    stage = "wire" /\ sent # Nothing => wire = Passed(kind, hops, sent.bytes)

(* ChannelNumberAttr.hpp:16-18: the RFFU field "MUST be ignored on reception". *)
RffuIgnored ==
    stage = "rejected" /\ kind = "ChannelNumber" /\ Len(wire) = 4
        => ReadBE16(wire, 1) \notin ChannelNumbers
=============================================================================

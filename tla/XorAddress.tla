---------------------------- MODULE XorAddress ------------------------------
(***************************************************************************)
(* XorAddressAttrT (include/stunxx/attributes/XorAddressAttrT.hpp): an       *)
(* address and port combined with the magic cookie and a transaction id.     *)
(* The object keeps the id it was made or decoded with, and encode() uses     *)
(* that one, whatever message it encodes for.                                *)
(***************************************************************************)
EXTENDS AttributeValues

XorKinds == {"XorMappedAddress", "XorPeerAddress", "XorRelayedAddress",
             "AlternateServer"}

(* MAGIC_COOKIE = 0x2112A442, by bytes *)
MAGIC_COOKIE == <<33, 18, 164, 66>>
TransactionIds == Bytes(12)

(* ^ of two bytes, bit by bit *)
XorBit(a, b, mask) == ((Bit(a, mask) + Bit(b, mask)) % 2) * mask
XorByte(a, b) ==
    XorBit(a, b, 128) + XorBit(a, b, 64) + XorBit(a, b, 32) + XorBit(a, b, 16)
    + XorBit(a, b, 8) + XorBit(a, b, 4) + XorBit(a, b, 2) + XorBit(a, b, 1)

(* b combined byte by byte with the cookie and the transaction id *)
Masked_bug(b, tid) == [i \in 1 .. Len(b) |-> XorByte(b[i], (tid \o MAGIC_COOKIE)[i])]
Masked(b, tid) == [i \in 1 .. Len(b) |-> XorByte(b[i], (MAGIC_COOKIE \o tid)[i])]

(* The port ^ MAGIC_COOKIE >> 16 *)
MaskedPort(port) ==
    XorByte(port \div 256, MAGIC_COOKIE[1]) * 256 + XorByte(port % 256, MAGIC_COOKIE[2])

(* StunAddress, whose family is any byte (0 if nobody sets it), and its        *)
(* length(); the bytes behind the length are not used.                        *)
AddressLength(family) == IF family = IPv4 THEN 4 ELSE 16
StunAddress ==
    [family : {IPv4}, port : UInt16, bytes : Bytes(4)]
    \cup [family : Byte \ {IPv4}, port : UInt16, bytes : Bytes(16)]

XorValues == [address : StunAddress, tid : TransactionIds]

XorBody(v) ==
    <<0, v.address.family>> \o WriteBE16(MaskedPort(v.address.port))
        \o Masked(v.address.bytes, v.tid)

(* A family that is not IPv4 is read, and passed on, as IPv6. *)
ReadFamily(family) == IF family = IPv4 THEN IPv4 ELSE IPv6

XorDecode(kind, b, tid) ==
    IF Len(b) >= 4 /\ Len(b) >= 4 + AddressLength(b[2])
      THEN Attr(kind,
                [address |->
                    [family |-> ReadFamily(b[2]),
                     port |-> MaskedPort(ReadBE16(b, 3)),
                     bytes |-> Masked(SubSeq(b, 5, 4 + AddressLength(b[2])), tid)],
                 tid |-> tid])
      ELSE Nothing
=============================================================================

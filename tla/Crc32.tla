------------------------------- MODULE Crc32 --------------------------------
(***************************************************************************)
(* crc32.hpp and what FingerprintAttr computes with it: the FINGERPRINT of a  *)
(* message, which its sender computes and encodes, and which its receiver     *)
(* decodes and computes again over the bytes that arrived.                    *)
(*                                                                         *)
(* A byte and a 32-bit word are the sets of their bits that are one, the      *)
(* lowest being bit 0.                                                       *)
(*                                                                         *)
(* A definition named X_bug is X with a plausible slip; nothing uses it but *)
(* the mutation runs, which put it in place of X.                           *)
(***************************************************************************)
EXTENDS Integers, Sequences

CONSTANTS
    Table,        \* crc_table: the word at each index
    FirstBytes,   \* what messages may begin with,
    OtherBytes,   \* what may follow,
    MaxLength,    \* and how long they get
    Damage        \* the bits of a byte that may be flipped on its way

Byte == SUBSET (0 .. 7)
Word == SUBSET (0 .. 31)

ASSUME CrcAssumption ==
    /\ FirstBytes \subseteq Byte /\ OtherBytes \subseteq Byte
    /\ MaxLength \in Nat
    /\ Damage \subseteq Byte \ {{}}

(* ^, & 0xFF, >> 8, and 0xFFFFFFFF *)
Xor(v, w) == (v \ w) \cup (w \ v)
LowByte(w) == w \cap 0 .. 7
ShiftByte(w) == {k - 8 : k \in w \ (0 .. 7)}
Ones == 0 .. 31
Zero == {}

(* One turn of the loop, and the loop between its two complements. *)
Turn_bug(crc, byte) == Xor(Table[byte], ShiftByte(crc))
Turn(crc, byte) == Xor(Table[LowByte(Xor(crc, byte))], ShiftByte(crc))

crc32_update_bug(crc, buf) ==
    LET reg[n \in 0 .. Len(buf)] ==
            IF n = 0 THEN Xor(crc, Ones) ELSE Turn(reg[n - 1], buf[n])
    IN  reg[Len(buf)]
crc32_update(crc, buf) ==
    LET reg[n \in 0 .. Len(buf)] ==
            IF n = 0 THEN Xor(crc, Ones) ELSE Turn(reg[n - 1], buf[n])
    IN  Xor(reg[Len(buf)], Ones)

(* computeFingerprint() and FingerprintAttr::compute(): 0x5354554E *)
STUN == {30, 28, 25, 24, 22, 20, 18, 14, 12, 10, 8, 6, 3, 2, 1}
computeFingerprint(msg) == Xor(crc32_update(Zero, msg), STUN)

(* encode() and decode() of the value, whose first byte is the highest *)
ToBytes(w) == [i \in 1 .. 4 |-> {k \in 0 .. 7 : k + 8 * (4 - i) \in w}]
FromBytes_bug(b) == {k \in Ones : k % 8 \in b[1 + k \div 8]}
FromBytes(b) == {k \in Ones : k % 8 \in b[4 - k \div 8]}

-----------------------------------------------------------------------------
VARIABLES
    message,   \* the bytes before the FINGERPRINT, as sent
    copy,      \* and as received
    value,     \* the bytes of the FINGERPRINT's value as received, or <<>>
    hit        \* the place of the first damaged byte, or 0

vars == <<message, copy, value, hit>>

Init == message = <<>> /\ copy = <<>> /\ value = <<>> /\ hit = 0

(* A byte of the message arrives, perhaps damaged: damage comes in one burst   *)
(* of at most four bytes.                                                    *)
Extend(b, d) ==
    LET n == Len(message) + 1 IN
    /\ value = <<>> /\ n <= MaxLength
    /\ d # {} => hit = 0 \/ n < hit + 4
    /\ hit' = IF d # {} /\ hit = 0 THEN n ELSE hit
    /\ message' = Append(message, b)
    /\ copy' = Append(copy, Xor(b, d))
    /\ UNCHANGED value

(* The value arrives.  The four bytes of the attribute's header separate it     *)
(* from the message, so that no burst damages both.                           *)
Seal(burst) ==
    /\ message # <<>> /\ value = <<>>
    /\ LET harmless == \A i \in 1 .. 4 : burst[i] = {} IN
       /\ ~harmless => hit = 0
       /\ hit' = IF harmless THEN hit ELSE Len(message) + 5
    /\ LET b == ToBytes(computeFingerprint(message))
       IN  value' = [i \in 1 .. 4 |-> Xor(b[i], burst[i])]
    /\ UNCHANGED <<message, copy>>

Next ==
    \/ \E b \in (IF message = <<>> THEN FirstBytes ELSE OtherBytes),
          d \in Damage \cup {{}} : Extend(b, d)
    \/ \E burst \in [1 .. 4 -> Damage \cup {{}}] : Seal(burst)

Spec == Init /\ [][Next]_vars

-----------------------------------------------------------------------------
(* The reference: polynomials over the field of two elements, as the sets of   *)
(* the exponents of their terms, and the one of ITU-T V.42.                   *)
V42 == {0, 1, 2, 4, 5, 7, 8, 10, 11, 12, 16, 22, 23, 26, 32}

Shifted(p, n) == {e + n : e \in p}

(* Long division of a polynomial of degree less than 32 + n, term by term.     *)
Divided(p, d) == IF d \in p THEN Xor(p, Shifted(V42, d - 32)) ELSE p
Remainder(p, n) ==
    LET rest[i \in 0 .. n] == IF i = 0 THEN p ELSE Divided(rest[i - 1], 32 + n - i)
    IN  rest[n]

(* The first bit of a message, the lowest of its first byte, is the term of    *)
(* highest degree; 32 zeros are appended, its first 32 bits and the remainder  *)
(* complemented, and bit 31 of the word is the constant term.                 *)
Terms(byte) == {7 - k : k \in byte}
Polynomial(msg) == UNION {Shifted(Terms(msg[i]), 8 * (Len(msg) - i)) : i \in 1 .. Len(msg)}
Checksum(msg) ==
    LET dividend == Xor(Shifted(Polynomial(msg), 32), Shifted(Ones, 8 * Len(msg)))
    IN  {31 - e : e \in Xor(Remainder(dividend, 8 * Len(msg)), Ones)}

(* The table has the remainders of all single bytes. *)
ASSUME TableAssumption ==
    /\ Table \in [Byte -> Word]
    /\ \A b \in Byte : Table[b] = {31 - e : e \in Remainder(Shifted(Terms(b), 32), 8)}

(* FINGERPRINT is what its comment says, the CRC-32 of ITU-T V.42 XOR'd with   *)
(* 0x5354554E: the table, the index into it, the shift and the two complements *)
(* (crc32.hpp:8-73,75-81, FingerprintAttr.hpp:17-18).                          *)
IsCrc32 == computeFingerprint(message) = Xor(Checksum(message), STUN)

(* A message in pieces, the result for each handed on to the next call, has    *)
(* the CRC-32 of the whole, wherever it is cut (crc32.hpp:75-81).              *)
PiecesMakeWhole ==
    \A n \in 0 .. Len(message) :
        crc32_update(crc32_update(Zero, SubSeq(message, 1, n)),
                     SubSeq(message, n + 1, Len(message)))
            = crc32_update(Zero, message)

(* The value that arrives is the one computed over the bytes that arrive if     *)
(* and only if no byte was damaged, for every burst of up to four bytes: a      *)
(* table that maps two indices to words too much alike, or bytes of the value   *)
(* mixed up, would let one through                                            *)
(* (crc32.hpp:77-79, FingerprintAttr.hpp:64-67,79-80).                        *)
Verifies == FromBytes(value) = computeFingerprint(copy)
DamageDetected == value # <<>> => (Verifies <=> hit = 0)
=============================================================================

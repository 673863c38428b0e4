# libstunxx in TLA+

A verification development of libstunxx, the C++20 library that encodes and
decodes STUN and TURN messages. The modules are translated from the code under
`include/stunxx/` and `src/`; paths below are relative to the repository.

The library is sequential and keeps nothing on disk: no threads, callbacks,
timers or sockets. What makes it hard to get right is what a caller can do with
its objects: any public call, in any order, any number of times, on a buffer
that the caller owns and that may be too small, too short or full of somebody
else's bytes, with calls that fail half way and leave state behind.

## The system

| Component | Code | State | Operations | What makes it correct |
|---|---|---|---|---|
| Wire format | `Stun.hpp` | none | sizes, 16-bit lengths, padding, classes of attribute types, class and method of a message type | arithmetic keeps its width; every size is padded in the same way everywhere; class and method are read back as they were written |
| Encoder | `Encoder.hpp`, `src/Encoder.cpp` | `buffer_`, `stun_header_`, `offset_`, two seal flags | constructors, `addAttribute` (plain, MESSAGE-INTEGRITY), `addFingerprint`, `finalize` | never past the buffer; attributes gapless; each HMAC and CRC computed over the header its verifier will see |
| StunMessageBuilder | `StunMessageBuilder.hpp` | an Encoder, `valid_` | `add`, `addFingerprint`, `finalize` | one failed call makes the rest no-ops and leaves a readable message |
| Decoder | `Decoder.hpp`, `src/Decoder.cpp` | `buffer_`, `stun_header_`, `offset_`, `attributes_`, `unknown_required_` | `decode`, `parse`, `parseHeader`, `getAttribute(s)`, accessors | never reads outside the buffer; finds exactly the attributes of the message; accepts exactly the well-formed; returns |
| AttributeTable | `attributes/AttributeTable.hpp`, `src/AttributeTable.cpp` | `attributes_` | `append`, `get`, `getAll`, `range`, `clear` (no caller) | holds what was appended |
| Attribute values | `attributes/*.hpp` | the value | `encode`, `decode`, `length` | accepts what the others encode; values survive |
| XOR addresses | `attributes/XorAddressAttrT.hpp` | address, port, transaction id | `encode`, `decode` | the address read is the one sent, in the right transaction |
| Seals | `attributes/MessageIntegrityAttrT.hpp`, `attributes/FingerprintAttr.hpp` | key and HMAC; CRC | `compute`, `encode`, `decode` | cover the message up to themselves |
| CRC-32 | `crc32.hpp`, `attributes/FingerprintAttr.hpp` | none | `crc32_update`, `computeFingerprint`, the bytes of the value | is the CRC of its polynomial, in pieces too; no burst of damage passes |
| ChannelData | `ChannelData.hpp` | channel, view of a payload | `encode`, `decode`, `isChannelData`, `totalSize` | frames and messages of one stream stay in step; nothing is taken before it arrived |
| Keys, hashes, transaction ids | OpenSSL, `Stun.hpp` | none | pure or random functions | not modelled, see below |

The parts meet in the bytes of one buffer. A builder calls its encoder; the
encoder calls `length()` and `encode()` of the attribute, and `compute()` of a
MESSAGE-INTEGRITY over the bytes written so far; the caller hands the buffer
over; a decoder walks it, stores where each value is, and calls the attribute's
`decode()` on those bytes later, when the caller asks, by when they may be
others. A TURN connection carries ChannelData frames and STUN messages in one
stream of bytes, and its reader tells them apart by their first two bytes
(`isChannelData()`) and moves on by what the frame or message declares.

## Modules

| Module | Models | How |
|---|---|---|
| `StunWire` | `Stun.hpp` | constants and the arithmetic, `ToUInt16` wrapping as the casts do |
| `Encoder` | Encoder | one action per public call, each with its failures; the buffer is the length field of the header (`wire`) and the framing of the attributes (`body`), where a seal keeps the length field it was computed over (`cover`) |
| `Builder` | StunMessageBuilder | extends `Encoder`; the encoder's actions guarded by `valid` |
| `Decoder` | Decoder, AttributeTable | `Decode` is `decode()` up to its loop, `ParseAttribute` one iteration, `Accept` its end; `Refill` is the owner of the bytes replacing them between calls; the getters are operators on the table |
| `Codec` | both together | a builder, the hand-over, which may cut the message (`Cuts`), a decoder (`INSTANCE Decoder`); `Bytes` is the buffer as the reader sees it, with `Filler` wherever no attribute starts |
| `AttributeChannel` | what they promise | abstract: a log of attributes, a mark up to which it is sealed, whether it was sent whole or cut, and its delivery |
| `ChannelData` | `ChannelData.hpp` | operators: when `encode()` and `decode()` succeed and what they write and take |
| `Stream` | a connection of frames and messages | `SendFrame` and `SendMessage` append an item to the stream, `Arrive` is some more of its bytes, `TakeFrame`, `TakeMessage` and `Break` are the reader, who sees the bytes at its place only |
| `Crc32` | `crc32.hpp`, FINGERPRINT's value | the loop, the two complements, the XOR, the bytes of the value, for any `Table`; `Extend` and `Seal` are the way of the message and of its value, with damage |
| `CrcTable` | `crc32.hpp:8-73` | the 256 constants, as the `Table` of `Crc32` |
| `AttributeValues` | `attributes/` but for the XOR addresses | operators: the bytes of a value and what `decode()` makes of bytes |
| `XorAddress` | `XorAddressAttrT` | the same, with the XOR of bytes and the transaction id that an object keeps |
| `Relay` | calls of `encode()` and `decode()` | an attribute made or received, encoded, decoded, passed on in this or another message |
| `StunWireProofs`, `EncoderProofs`, `BuilderProofs`, `DecoderProofs`, `StreamProofs`, `CodecProofs`, `RelayProofs`, `Crc32Proofs` | | theorems and their proofs |
| `MC*` | | instances for TLC |

Abstractions. In `Encoder` and `Codec`, message type, cookie and transaction id
of a header never change and are left out but for whether the cookie is right;
`Stream` has the message type. An HMAC is what it covers, because all that this
library can get wrong about it is what it covers; a CRC is that in `Encoder` and
`Codec`, and is computed to the bit in `Crc32`, where a byte or a 32-bit word is
the set of its bits that are one and XOR is what two sets do not share. In
`AttributeValues` a number of more than 16 bits is its big-endian digits.
`AttributeTable`'s ten zeroed entries are modelled as they are.

Values of more than 65535 bytes, which the length field of an attribute cannot
express, meet three fates. DATA refuses them in `encode()`: an attribute whose
`need` is more than its padded `len`. UNKNOWN-ATTRIBUTES, PASSWORD-ALGORITHM and
PASSWORD-ALGORITHMS have a `length()` of `size_t` and cut only what the header
declares: `len` is any natural number, and `Place` declares `ToUInt16(len)` and
takes all of it. `length()` of the string classes, ERROR-CODE and
ADDRESS-ERROR-CODE is itself cut to 16 bits while `encode()` copies the value
whole; what it copies behind the room it asked for is left out. The theorem
`Framing` covers the first two kinds; no run's buffer is large enough for the
second. In `Relay` every value has at most 65535 bytes.

A definition `X_bug` is `X` with a plausible slip. Nothing refers to it; it is
there to show that a property notices the slip.

## Runs

| Run | Asks | Bounds, and why they are enough |
|---|---|---|
| `encoder` | what any sequence of encoder calls can do | 68 bytes: room for two HMAC-SHA1 seals or one SHA-256 seal with a fingerprint or plain attributes, and every remainder at which a call just fits or just fails; values that need padding, that need none, and one whose `encode()` asks for more than `length()` says |
| `builder` | whether the flag is enough to keep a message sound | 80 bytes, as above with one more attribute |
| `decoder` | what `decode()` does with arbitrary bytes | buffers of 12, 20, 27 and 32 bytes with every length field at which something changes, and any of four headers at any word; `decode()` twice with a refill between |
| `codec` | whether a decoder finds what a builder placed, seals that verify, and nothing when the message was cut | 80 bytes: a MESSAGE-INTEGRITY of each kind together, or two of SHA-1 and a FINGERPRINT with an attribute between them; the reader is given `totalSize()` bytes, the whole buffer, or a part: nothing, one byte less than a header, a header, a header and one word, or all but the last attributes |
| `stream` | whether a reader of frames and messages stays in step | two items (the second is read from where the first ended, and a third would be read as the second is); payloads with every number of padding bytes, one that looks like a STUN message, one of 65536 bytes; messages without attributes, with one, with one more behind the last seal, and one whose length field wrapped; channel numbers on both sides of both ends of the range; pieces that end at, one before and one behind every size the reader asks for |
| `crc32` | whether the table and the loop compute the CRC of the polynomial | every one of the 256 first bytes, because each uses another entry of the table; messages of one to five bytes, so that the later turns of the loop see a register with all its bits in use and a burst of four bytes has bytes before it or behind it; a byte is damaged by one mask or not at all |
| `relay` | whether attribute values survive and stay legal | every class; sizes on both sides of every limit; every code, family and channel boundary; addresses of IPv4, IPv6, a family that nobody set and one that does not exist; three decodings and two transactions, so that an address can leave its transaction and come back |

and five that show what a comment or test says and the code does not keep:

| Run | Statement | What the code does |
|---|---|---|
| `encoder_stale_length` | `Stun.hpp:303`: `msg_length` is the "length of attributes only" | attributes added after a seal are in the buffer and not in the length |
| `encoder_fingerprint_stale` | `FingerprintAttr.hpp:7-8`: the CRC of the message up to the attribute | a MESSAGE-INTEGRITY added or refused afterwards rewrites the header under the CRC |
| `decoder_phantom` | `test/decode_test.cpp:63`: a missing attribute is not found | type 0 is found ten times in every message |
| `decoder_again` | `Decoder.hpp:72`: all attributes of a type | a second `decode()` doubles them |
| `relay_rffu` | `ChannelNumberAttr.hpp:18`: RFFU "MUST be ignored on reception" | a value with RFFU bits set is rejected |

What the passing runs show:

- *encoder.* `TypeOK`: `offset_` never passes the end of the buffer.
  `Contiguous`: attributes tile the message, and each declares what it takes,
  but for a value that its length field cannot express. `CoversOwnEnd`: a seal
  is computed over a length that ends with it, after whatever failed before it.
  `SealsFlagged`: the flags are true, and FINGERPRINT is unique.
  `HeaderInBuffer` and `UnsealedFinalizeExact`: a MESSAGE-INTEGRITY that fails
  after it rewrote the header does no lasting harm.
  `FingerprintBrokenOnlyByIntegrity` (an action property): no other call than
  MESSAGE-INTEGRITY can invalidate a fingerprint.
- *builder.* `LastSealHolds`: while the builder is valid the last seal covers
  the header in the buffer. This is false of a bare encoder, whose refused
  MESSAGE-INTEGRITY leaves a rewritten header. `FinalizeEndsOnAttribute`: the
  finalized length never cuts an attribute in two.
- *decoder.* `ReadsInBuffer`, `EntriesInBuffer`: no read outside the buffer, at
  once or later. `TableIsWire`, `UnknownListed`, `WholeWordsConsumed`: the
  entries, the list of unknown types and `totalLength()` are those of the
  message. `TurnsBounded`: a call takes no more turns, and keeps no more
  entries, than the message has words. `AcceptsWellFormed` compares the loop with
  a declarative reading of a message (`Divides`: a set of starts closed under
  "next"). `DecodeReturns`.
- *codec.* `RejectedIffCut`: a message of a valid builder is rejected if and
  only if it was cut before its declared end; what is lost behind a seal is not
  noticed. `OnlyPlacedFound`: what the reader finds was placed there.
  `LastFoundVerifies`: the last seal covers the header that the reader sees.
  `FoundSealsVerify`: the seals before it verify once their verifier puts back
  the length that ends with them. `GettersComplete`: `getAttribute()` and
  `getAttributes()` hand out all that was placed of a type, in order, for every
  type that the library knows.
  `ImplementsChannel`: the composition refines `AttributeChannel!Spec` with its
  liveness: what was sent whole is delivered once, in order, complete up to its
  last seal, and of what was cut nothing is. Attributes added after the seal may
  be missing, see `encoder_stale_length`; the abstract specification says so
  with its mark.
- *stream.* `InStep`: the reader takes what was sent, frames as frames and
  messages as messages, with their channel, class and method, up to the first
  item whose length field is not the size of what follows it. Two kinds have
  one: a payload or message of more than 65535 bytes, and a message to which
  attributes were added behind its last seal. `finalize()` leaves the header of
  such a message alone (`encoder_stale_length`), while the caller sends
  `totalSize()` bytes; the reader moves on by what the header declares, and what
  it reads next is the middle of the message. `TakenHasArrived` holds of a
  reader out of step too: `decode()` of a frame asks for the payload but not for
  its padding, so the reader may be ahead of the bytes, by three at most and
  never in a payload. `WholeIsTaken`: the guards of a reader in step hold as
  soon as the last byte of the next item is there, if its length field is right.
  `AllReceived` (liveness): everything before the first wrong length field is
  taken in the end.
- *crc32.* `IsCrc32` compares the table-driven loop with division by the
  polynomial that the comment of FINGERPRINT names, term by term.
  `PiecesMakeWhole`: the result of one call is a start for the next, wherever
  the message is cut. `DamageDetected`: the value that
  arrives verifies if and only if nothing was damaged on the way.
- *relay.* `AcceptedIsLegal`, `LegalNeverRejected`, `ArrivesAsItLeft` (for IPv6
  addresses if and only if the transaction is the one the object was made in)
  and `BytesStable` (passing on never changes the bytes, legal or not, but for
  the family byte of an address of neither IPv4 nor IPv6: `encode()` writes it as
  it is, 0 if nobody set it, and `decode()` makes IPv6 of it).

`CHECK_DEADLOCK FALSE` where the system may stop: a decoder that has decoded as
often as `MaxCalls` allows, a message that was read, an attribute that arrived.

Faults. The code handles no crash, timeout or retry. What it does meet is a
message that arrives short (`Cuts` in `Codec`), a stream in pieces (`Arrive` in
`Stream`), damage (`Crc32`) and arbitrary bytes (`Decoder`, `Relay!Receive`).

Fairness: the library runs on its caller's thread, so a call that was made goes
on until it returns: weak fairness of the iterations of `decode()`
(`Decoder!FairSpec`) and of the reader (`Codec!CodecSpec`, `Stream!Spec`). In
`Stream` the connection is reliable: what was sent arrives (weak fairness of
`Arrive`), as the TCP or TLS under a TURN connection promises. Nothing obliges a
caller to call or to send, so no other action is fair.

## Proofs

The theorems hold for every capacity, every set of attributes, every set of
buffers, payloads, messages and cuts, every attribute value, every message under
a FINGERPRINT and every number of calls, items or hops, from the assumptions the
modules name. TLC evaluates all of them.

- `CapacityAssumption`: the buffer holds a header; `finalize()` copies 20 bytes
  without looking.
- `AttributesAssumption` (lengths of any size), `BuffersAssumption`,
  `CodecAssumption`, `CrcAssumption`: the ranges of the constants.
  `StreamAssumption`: the same, and that a message which declares the size it
  has is well formed.
- `PacketAssumption`: the buffer of `Codec` has at most `MAX_PACKET_SIZE` bytes.
  In a longer one the length field of the message wraps and a reader does not
  find its end. In that buffer every attribute declares what it takes
  (`DeclaredExactly`).
- `RelayAssumption`: what applications give the constructors is of the types of
  their arguments, an address of any family included, and no value is longer
  than its length field can say.
- `TableAssumption`: each entry of the table of `crc32.hpp` is the remainder of
  its index. That is a statement about 256 numbers, so its evaluation for
  `CrcTable` is complete; the theorems carry it to messages of every length.

The modules of proofs, and how each argues:

- `StunWireProofs`. `MessageTypeReadBack`: class and method share the 16 bits of
  the message type, and masking gives back what was put in.
  `OnePredicateOfAClass`. The other proofs rest on its lemmas about padding and
  16-bit lengths, and on those about loops: `NatSetInduction` is induction for a
  set of numbers, which needs no operator as a parameter, and `LoopExists` says
  with it that a recursive function written as a loop has the values its
  equations name. So the loops of the code are recursive functions whose
  invariants can be proved turn by turn. `Lists(s, f, S)` says that the sequence
  `s` has the values of `f` at the places `S`, in order; its lemmas replace
  filtered sequences.
- `EncoderProofs`. Two lemmas describe a step once for all properties:
  `StepShape` (a step leaves the attributes alone or appends one,
  at `offset_`, covering nothing or the length that ends with it; it combines
  `AddShape`, `IntegrityShape` and `FingerprintShape`, one per call) and
  `HeaderShape` (it leaves the header alone or writes the length of a message
  that would fit). From them `TypeCorrect`, `Framing`, `SealsCoverTheirOwnEnd`,
  `HeaderStaysInBuffer`, `FlagsTellSeals`, `FinalizeExactWithoutSeals` and the
  action property `FingerprintStable` follow, each inductive together with
  `TypeOK`. `LengthWithValue` is the arithmetic: adding 16-bit lengths modulo
  2^16 commutes with taking the length of the sum, so that a seal covers its
  own end also in messages whose length wraps.
- `BuilderProofs`. `BuilderImplementsEncoder`: a builder's behaviours are an
  encoder's, so the encoder's invariants hold of it. `LastSealHolds` is not
  inductive, as it says nothing of a message without a seal, or of which of
  several seals is the last after a step; `SealedHeader` carries the index of
  the last seal along. `LastSealVerifies` and `FinalizedMessageIsWhole` follow
  from it; `BuilderTypeCorrect` is the type invariant.
- `DecoderProofs`. `ReadsInBuffer` needs to know where the walk is: `Walking`
  says that the message is inside the buffer and that `offset_` is on a word, in
  the message or at most three bytes of padding past it. `TypeCorrect`,
  `MemorySafety`, `Consumption`, `EntriesSafe` and `TableCorrect` follow.
  `AcceptsExactlyWellFormed` needs no induction over the message: the entries
  found so far are the beginning of a division (`Headed`: the first is at the
  start of the body; `Follows`: each of them is where the one before it ends),
  so that on acceptance their starts are one (`StartsDivide`), and any division
  that a rejected message could have contains the starts found so far and the
  one at which it was rejected. `UnknownCorrect` needs only that the zeroed
  entries are never dropped (`Listed`), because `UnknownListed` speaks of the
  whole table, earlier calls included. `TurnsBoundedByLength`: each turn appends
  one entry and consumes a header (`TurnsTaken`), so the entries of a call count
  its turns, and the length field bounds them; with a turn always possible until
  `decode()` returns, this is its termination but for the fairness.
- `StreamProofs`. `InStep` is inductive only with the frame of the stream: each
  item starts where the one before it ends (`Contiguous`), what its first bytes
  read as is the item (`Legible`, from `MessageTypeReadBack` and the range of
  `isValidChannel()`), and no more has arrived than was sent. An item whose
  length field is right is as long as the reader moves; that of one with a wrong
  one is unrelated, so all is said up to the first of those (`DeclaredUpTo`).
  `TypeCorrect` and `TakenHasArrivedCorrect` hold also for a reader that is out
  of step. `WholeIsTakenCorrect` follows from the same invariant: at the start
  of an item that is there, the guards of its reader hold.
- `CodecProofs`. `CodecImplementsBuilder` brings the builder's theorems into the
  composition. `Increasing` says that attributes lie one behind the other on
  whole words, so that a word at which an attribute starts reads as that
  attribute's header (`HeaderOfAttribute`). The reader's invariant `Walk` is
  that after finding n attributes it is at the end of the n-th; because the
  declared end is the end of an attribute (`FinalizeEndsOnAttribute`), it never
  reads `Filler` (`FindsNext`) and stops exactly there (`AllFound`).
  `RejectedExactlyIfCut`, `FindsOnlyPlaced`, `LastFoundIsLastSeal` and
  `EverySealFoundVerifies` follow. `GettersFindAll` is about two loops over the
  table: `MatchingLists` is the invariant of the one that filters by type;
  `ZeroedFirst`, that the entries before those of the call are the zeroed ones,
  whose type 0 is no known type; `FoundInBuffer`, that the other loop never
  stops early.
- `CodecProofs`, the refinement. `CodecImplementsChannel`: initial states map to
  initial states and every step to a step of `AttributeChannel` or a stutter,
  for the mapping that `ImplementsChannel` names. There is one lemma per kind of
  change of the mapped variables (`ChannelAdds`, `ChannelSeals`, ...) and one per
  action of `Codec`. `HasLastSeal` is the invariant that makes the mapping's
  CHOOSE mean the last seal; `DeliveredInvariant` is what the reader of an
  accepted message has.
- `RelayProofs`. `Sound(k)` is what a class owes the others: `decode()` accepts
  only what is legal and of the class's types; what `encode()` writes of a legal
  object is decoded to that object; and what is decoded of it at all encodes to
  the same bytes. It is proved class by class, from bytes and their bits, for
  the two lists of entries by induction over the turns of their loops. The
  invariant `Journey` says that the bytes on the wire and those of the object
  held are the bytes first sent, once decoded with the family byte settled;
  settling twice is settling once (`SettledTwice`) and changes nothing of a
  legal object (`LegalIsSettled`). It follows from `Sound` alone but for the XOR
  addresses. The XOR addresses need more, because an object keeps the id it was
  made with: two ids that combine an IPv6 address to the same bytes are the same
  id (`MaskedCancels`), which is why `ArrivesAsItLeft` can say "if and only if".
  `RelayTyped`, `AcceptedLegal`, `NeverRejected`, `Arrives` and `BytesKept`
  follow.
- `Crc32Proofs`. `AnyPieces`: two loops that start from the same register over
  the same bytes end in the same register (`SameTurns`). `BurstsDetected`
  undoes the loop: no two entries have the same highest byte, because the
  polynomial has a constant term (`EntriesApart`), so equal registers after a
  turn were looked up at the same index (`TurnBack`); behind
  the burst that gives back whole registers, inside it the indices of four
  turns, and at the first damaged byte they differ (`BurstChangesCrc`).
  `FingerprintIsCrc32` compares the loop with long division: after j turns the
  register, in the place of the next 32 terms, and the bytes that are left are
  what the first 8j steps of the division leave (`LoopDivides`), because eight
  steps of a division only see the byte at its head (`ByteDivided`).

Every safety invariant and every action property of the passing runs is stated
by a theorem. Only model-checked: `DecodeReturns`, `AllReceived` and the liveness
of `ImplementsChannel`, which need fairness; `TurnsBounded` and `WholeIsTaken`
are their safety halves. The properties of the five runs that end in a violation
are false and have no theorem.

## Not modelled

`computeKey`, `computeUserHash` and the HMACs hand strings to OpenSSL, whose
results the library never interprets. `generateTransactionId` is random.
`addressStr()`, `errorMessage()` and most accessors format or return what is
there. `parse()` is a constructor and `decode()`, and `parseHeader()` repeats
the first checks of `decode()`; `Stream` reads messages through both. Strings of
more than 65535 bytes are outside the models, as said above.
`StunMessageBuilder::finalize()` returns its encoder by a mutable reference, and
a caller that goes on adding through that reference passes the flag by; what it
can then do is what `Encoder` allows, and the theorems about the builder do not
hold of it. `getAttribute()` also returns nothing for a buffer without data,
which no property tells apart: in such a buffer nothing is found but the zeroed
entries.
MAPPED-ADDRESS,
which the repository's README lists as supported, has a type and no class.

## Plan

1. Done: `StunWire`, `Encoder`, `Builder`, `Decoder`, their composition `Codec`
   against `AttributeChannel`, with cut messages; the attribute values and
   `Relay`; `ChannelData` in a `Stream` with messages; `Crc32`; theorems for all
   safety properties of the runs and for the refinement of `AttributeChannel`.
2. Connecting `Relay` and `Codec`: the lengths of `AttributeValues` as the
   `Attributes` of an encoder, and `getAttributes()` that skips what it cannot
   decode.
3. Proofs for 2: that what was placed of a class is what the getters decode.

------------------------------ MODULE Decoder -------------------------------
(***************************************************************************)
(* stunxx::Decoder and stunxx::AttributeTable (include/stunxx/Decoder.hpp,  *)
(* src/Decoder.cpp, src/AttributeTable.cpp): decode() walks the attributes   *)
(* of a buffer it does not own and keeps their headers in a table.           *)
(*                                                                         *)
(* A buffer is whatever bytes the caller has: its size, whether the magic    *)
(* cookie is right, the length field, and what the two 16-bit fields of an   *)
(* attribute header would read at every word that could start one.  Words    *)
(* inside a value are as arbitrary as the others.  One action per iteration  *)
(* of decode()'s loop; decode() may be called again, and between calls the   *)
(* owner of the buffer may put another message in it.                        *)
(*                                                                         *)
(* A definition named X_bug is X with a plausible slip; nothing uses it but *)
(* the mutation runs, which put it in place of X.                           *)
(***************************************************************************)
EXTENDS StunWire

CONSTANTS
    Buffers,    \* the contents a buffer may have
    MaxCalls    \* how often decode() is called

ASSUME BuffersAssumption ==
    \A b \in Buffers :
        /\ b.size \in Nat
        /\ b.cookie \in BOOLEAN
        /\ b.length \in UInt16
        /\ b.attr \in [Slots(b.size) -> WireAttr]

VARIABLES
    buffer,             \* what buffer_ shows
    msg_length,         \* stun_header_.msg_length
    offset,             \* offset_
    attributes,         \* attributes_, the AttributeTable
    unknown_required,   \* unknown_required_
    pc,                 \* "idle", or "loop" inside decode()
    result,             \* what the last decode() returned, or "none"
    base,               \* history: the entries there were when it was called
    calls               \* history: how often it was called

vars == <<buffer, msg_length, offset, attributes, unknown_required, pc, result,
          base, calls>>

Entry == [type : UInt16, len : UInt16, offset : Nat]

(* Every variable in its range; the list that the caller must answer with an  *)
(* error holds no attribute that it may ignore.                              *)
TypeOK ==
    /\ buffer \in Buffers
    /\ msg_length \in UInt16
    /\ offset \in Nat
    /\ attributes \in Seq(Entry)
    /\ unknown_required \in Seq(UInt16)
    /\ \A i \in 1 .. Len(unknown_required) :
          is_comprehension_required(unknown_required[i])
    /\ pc \in {"idle", "loop"}
    /\ result \in {"none", "accepted", "rejected"}
    /\ base \in Nat /\ base <= Len(attributes)
    /\ calls \in Nat

-----------------------------------------------------------------------------
(* attributes_(10) sizes the table instead of reserving room in it: it starts *)
(* with ten zeroed entries.                                                  *)
Phantom == [type |-> 0, len |-> 0, offset |-> 0]
AttributeTable == [i \in 1 .. 10 |-> Phantom]

(* message_end *)
MessageEnd == STUN_HEADER_SIZE + msg_length

(* AttributeTable::getAll and range, entry by entry, and whether get finds     *)
(* anything                                                                  *)
Matching(type) ==
    LET results[n \in 0 .. Len(attributes)] ==
            IF n = 0 THEN <<>>
            ELSE IF attributes[n].type = type THEN Append(results[n - 1], attributes[n])
            ELSE results[n - 1]
    IN  results[Len(attributes)]
Found(type) == Matching(type) # <<>>

(* The values that getAttribute() and getAttributes() hand to decode() of the  *)
(* attribute class: the first one of the type, and all of them up to one that  *)
(* is not in the buffer.                                                     *)
InBuffer(e) == e.offset + e.len <= buffer.size
getAttribute_bug(type) ==
    LET m == Matching(type)
    IN  IF m # <<>> /\ InBuffer(m[Len(m)]) THEN <<m[Len(m)]>> ELSE <<>>
getAttribute(type) ==
    IF Found(type) /\ InBuffer(Matching(type)[1]) THEN <<Matching(type)[1]>> ELSE <<>>
getAttributes(type) ==
    LET m == Matching(type)
        outside == {i \in 1 .. Len(m) : ~InBuffer(m[i])}
    IN  IF outside = {} THEN m
        ELSE SubSeq(m, 1, (CHOOSE i \in outside : \A j \in outside : i <= j) - 1)

Returns(r) == pc' = "idle" /\ result' = r

Init ==
    /\ buffer \in Buffers
    /\ msg_length = 0
    /\ offset = 0
    /\ attributes = AttributeTable
    /\ unknown_required = <<>>
    /\ pc = "idle"
    /\ result = "none"
    /\ base = Len(AttributeTable)
    /\ calls = 0

(* The size check that bounds every read of the loop. *)
Truncated_bug(b) == FALSE
Truncated(b) == b.size < STUN_HEADER_SIZE + b.length

(* decode() up to the loop.  The header fields are stored before they are     *)
(* validated; offset_ and the table keep what an earlier call left in them.   *)
Decode ==
    /\ pc = "idle" /\ calls < MaxCalls
    /\ calls' = calls + 1
    /\ base' = Len(attributes)
    /\ \/ /\ buffer.size < STUN_HEADER_SIZE
          /\ Returns("rejected")
          /\ UNCHANGED <<msg_length, offset>>
       \/ /\ buffer.size >= STUN_HEADER_SIZE
          /\ msg_length' = buffer.length
          /\ \/ /\ ~buffer.cookie \/ Truncated(buffer)
                /\ Returns("rejected")
                /\ UNCHANGED offset
             \/ /\ buffer.cookie /\ ~Truncated(buffer)
                /\ offset' = STUN_HEADER_SIZE
                /\ pc' = "loop"
                /\ result' = "none"
    /\ UNCHANGED <<buffer, attributes, unknown_required>>

(* The room for a value between the attribute header at offset_ and the end.  *)
ValueFits_bug(len) == len <= MessageEnd - offset
ValueFits(len) == len <= (MessageEnd - offset) - ATTR_HEADER_SIZE

Unknown_bug(type) == ~is_known_attr_type(type)
Unknown(type) == is_comprehension_required(type) /\ ~is_known_attr_type(type)

NotesUnknown_bug(type) ==   \* each type only once
    unknown_required' =
        IF Unknown(type) /\ \A i \in 1 .. Len(unknown_required) :
                                unknown_required[i] # type
          THEN Append(unknown_required, type)
          ELSE unknown_required
NotesUnknown(type) ==
    unknown_required' =
        IF Unknown(type) THEN Append(unknown_required, type) ELSE unknown_required

(* return false from inside the loop *)
Rejects_bug == UNCHANGED <<pc, result>>
Rejects == Returns("rejected")

Advance_bug(len) == offset' = offset + ATTR_HEADER_SIZE + len
Advance_value_bug(len) == offset' = offset + Padded(len)
Advance(len) == offset' = offset + AttrSize(len)

(* offset_ + ATTR_HEADER_SIZE <= message_end *)
MoreToParse_bug == offset + ATTR_HEADER_SIZE < MessageEnd
MoreToParse == offset + ATTR_HEADER_SIZE <= MessageEnd

(* One iteration: a value that does not fit rejects the whole message, with   *)
(* the entries before it left in the table.                                  *)
ParseAttribute ==
    /\ pc = "loop" /\ MoreToParse
    /\ LET a == buffer.attr[offset] IN
       \/ /\ ~ValueFits(a.len)
          /\ Rejects
          /\ UNCHANGED <<offset, attributes, unknown_required>>
       \/ /\ ValueFits(a.len)
          /\ attributes' = Append(attributes,
                [type |-> a.type, len |-> a.len, offset |-> offset + ATTR_HEADER_SIZE])
          /\ NotesUnknown(a.type)
          /\ Advance(a.len)
          /\ UNCHANGED <<pc, result>>
    /\ UNCHANGED <<buffer, msg_length, base, calls>>

Accept ==
    /\ pc = "loop" /\ ~MoreToParse
    /\ Returns("accepted")
    /\ UNCHANGED <<buffer, msg_length, offset, attributes, unknown_required, base,
                   calls>>

(* The owner of the buffer puts another message in it.  What decode() found  *)
(* then describes the message that was there.                                *)
Refill ==
    /\ pc = "idle" /\ 0 < calls /\ calls < MaxCalls
    /\ buffer' \in {b \in Buffers : b.size = buffer.size}
    /\ result' = "none"
    /\ UNCHANGED <<msg_length, offset, attributes, unknown_required, pc, base, calls>>

Next == Decode \/ ParseAttribute \/ Accept \/ Refill

Spec == Init /\ [][Next]_vars

(* decode() runs on its caller's thread and does nothing else until it        *)
(* returns.                                                                  *)
FairSpec == Spec /\ WF_vars(ParseAttribute \/ Accept)
-----------------------------------------------------------------------------
(* Every attribute header that decode() reads lies in the buffer: the length  *)
(* field is checked once, against the size, and never exceeded afterwards     *)
(* (Decoder.cpp:43-54).                                                       *)
ReadsInBuffer == pc = "loop" /\ MoreToParse => offset \in Slots(buffer.size)

(* Every value the table points at lies in the buffer, also after a rejected  *)
(* message, a second decode() or a change of the bytes: getAttribute() can    *)
(* trust an entry whatever happened since (Decoder.hpp:55-58,80-85).          *)
EntriesInBuffer ==
    \A i \in 1 .. Len(attributes) :
        attributes[i].offset + attributes[i].len <= buffer.size

(* The entries of the last call. *)
Latest == base + 1 .. Len(attributes)
EndOf(e) == e.offset + Padded(e.len)
StartAfter(i) == IF i = base THEN STUN_HEADER_SIZE ELSE EndOf(attributes[i])

(* The entries of the last decode() are the attributes of the message, in     *)
(* order and without a gap: each is what the bytes at its place say, starts    *)
(* where the padding of the one before it ends, and ends inside the message    *)
(* (Decoder.cpp:46-67).                                                       *)
TableIsWire ==
    pc = "loop" \/ result = "accepted" =>
        /\ offset = StartAfter(Len(attributes))
        /\ \A i \in Latest :
              LET e == attributes[i]
                  start == StartAfter(i - 1)
              IN /\ start \in Slots(buffer.size)
                 /\ e = [type |-> buffer.attr[start].type,
                         len |-> buffer.attr[start].len,
                         offset |-> start + ATTR_HEADER_SIZE]
                 /\ e.offset + e.len <= MessageEnd

(* A message of whole words that is accepted is consumed to its last byte, so *)
(* totalLength() is where the next message of a stream begins                 *)
(* (Decoder.cpp:49,66-67,121-123).                                            *)
WholeWordsConsumed ==
    result = "accepted" /\ msg_length % 4 = 0 => offset = MessageEnd

(* unknown_required_ lists the comprehension-required types the library does   *)
(* not know, in the order and as often as they were parsed, over all calls;    *)
(* the zeroed entries the table starts with are not among them                 *)
(* (Decoder.cpp:61-63).                                                       *)
UnknownListed ==
    Lists(unknown_required,
          [i \in 1 .. Len(attributes) |-> attributes[i].type],
          {i \in Len(AttributeTable) + 1 .. Len(attributes) : Unknown(attributes[i].type)})

(* A call takes at most one turn of the loop for every word of the message,    *)
(* and adds at most as many entries, whatever the bytes say: a message full of  *)
(* empty values neither keeps decode() busy nor fills the memory of who        *)
(* receives it (Decoder.cpp:49-67).                                           *)
TurnsBounded == ATTR_HEADER_SIZE * (Len(attributes) - base) <= msg_length

(* decode() always returns: every iteration consumes at least a header         *)
(* (Decoder.cpp:66-67).                                                       *)
DecodeReturns == pc = "loop" ~> pc = "idle"

-----------------------------------------------------------------------------
(* A declarative reading of a message, to compare decode() with.  A set of     *)
(* starts is a division of the message when it has the first attribute, if     *)
(* there is room for one, and with every attribute the next one, and nothing   *)
(* else.                                                                      *)
Divides(S, b) ==
    LET end == STUN_HEADER_SIZE + b.length
        next(o) == o + AttrSize(b.attr[o].len)
        room(o) == o + ATTR_HEADER_SIZE <= end
    IN  /\ STUN_HEADER_SIZE \in S <=> room(STUN_HEADER_SIZE)
        /\ \A o \in S :
              /\ room(o)
              /\ next(o) \in S <=> room(next(o))
              /\ o # STUN_HEADER_SIZE => \E p \in S : o = next(p)
              /\ b.attr[o].len <= (end - o) - ATTR_HEADER_SIZE

WellFormed(b) ==
    /\ b.size >= STUN_HEADER_SIZE
    /\ b.cookie
    /\ b.size >= STUN_HEADER_SIZE + b.length
    /\ \E S \in SUBSET Slots(b.size) : Divides(S, b)

(* decode() accepts exactly the well-formed messages, whatever earlier calls   *)
(* left in the decoder, and the starts of its entries are the division of the  *)
(* message (Decoder.cpp:28-71).                                               *)
AcceptsWellFormed ==
    /\ result = "accepted" =>
          /\ WellFormed(buffer)
          /\ Divides({attributes[i].offset - ATTR_HEADER_SIZE : i \in Latest}, buffer)
    /\ result = "rejected" => ~WellFormed(buffer)

-----------------------------------------------------------------------------
(* What tests and comments say of the table and the code does not keep.       *)

(* test/decode_test.cpp:63, "Missing Attribute Returns Nullopt": no attribute  *)
(* is found that the message does not have.                                   *)
MissingNotFound ==
    result = "accepted" =>
        \A t \in {attributes[i].type : i \in 1 .. Len(attributes)} :
            Found(t) => \E o \in Slots(buffer.size) : buffer.attr[o].type = t

(* Decoder.hpp:72, "get all attributes of certain type": as many as the        *)
(* message has.                                                               *)
AllOfTypeFound ==
    result = "accepted" =>
        \A t \in {attributes[i].type : i \in Latest} \ {0} :
            Len(Matching(t)) = Cardinality({i \in Latest : attributes[i].type = t})
=============================================================================

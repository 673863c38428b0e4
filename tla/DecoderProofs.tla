--------------------------- MODULE DecoderProofs ----------------------------
(***************************************************************************)
(* The safety of decode() for buffers of any size and content.  The bounds   *)
(* invariant Walking says where the walk is: on a word, inside the message   *)
(* or at most three bytes of padding past it, and the message inside the     *)
(* buffer.                                                                  *)
(***************************************************************************)
EXTENDS Decoder, StunWireProofs, SequenceTheorems, TLAPS

LEMMA BufferParts ==
    ASSUME buffer \in Buffers
    PROVE  /\ buffer.size \in Nat
           /\ buffer.cookie \in BOOLEAN
           /\ buffer.length \in UInt16
           /\ \A o \in Slots(buffer.size) :
                 /\ buffer.attr[o].type \in UInt16
                 /\ buffer.attr[o].len \in UInt16
  <1>1. /\ buffer.size \in Nat
        /\ buffer.cookie \in BOOLEAN
        /\ buffer.length \in UInt16
        /\ buffer.attr \in [Slots(buffer.size) -> WireAttr]
    BY BuffersAssumption
  <1>2. \A a \in WireAttr : a.type \in UInt16 /\ a.len \in UInt16
    BY DEF WireAttr
  <1> QED
    BY <1>1, <1>2

(* Where the walk is, while it lasts and when it ended well. *)
Walking ==
    /\ pc = "loop" =>
          /\ MessageEnd <= buffer.size
          /\ result = "none"
    /\ pc = "loop" \/ result = "accepted" =>
          /\ offset >= STUN_HEADER_SIZE
          /\ offset % 4 = 0
          /\ offset <= MessageEnd + 3
    /\ result = "accepted" => offset + ATTR_HEADER_SIZE > MessageEnd

LEMMA WalkReads == ASSUME TypeOK, Walking  PROVE ReadsInBuffer
  <1> SUFFICES ASSUME pc = "loop", MoreToParse
               PROVE  offset \in Slots(buffer.size)
    BY DEF ReadsInBuffer
  <1>1. offset \in Nat /\ msg_length \in Nat /\ buffer.size \in Nat
    BY BufferParts, UInt16Range DEF TypeOK
  <1>2. /\ offset >= STUN_HEADER_SIZE
        /\ offset % 4 = 0
        /\ offset + ATTR_HEADER_SIZE <= MessageEnd
        /\ MessageEnd <= buffer.size
    BY DEF Walking, MoreToParse
  <1>3. offset + ATTR_HEADER_SIZE <= buffer.size /\ offset <= buffer.size
    BY <1>1, <1>2 DEF MessageEnd, STUN_HEADER_SIZE, ATTR_HEADER_SIZE
  <1>4. offset \in STUN_HEADER_SIZE .. buffer.size
    BY <1>1, <1>2, <1>3, IntervalRange DEF STUN_HEADER_SIZE
  <1> QED
    BY <1>2, <1>3, <1>4 DEF Slots

(* An iteration either rejects the message or appends the entry of the       *)
(* attribute at offset_ and moves past its padding.                           *)
Appends(e) ==
    /\ e = [type |-> buffer.attr[offset].type, len |-> buffer.attr[offset].len,
            offset |-> offset + ATTR_HEADER_SIZE]
    /\ e \in Entry
    /\ ValueFits(e.len)
    /\ attributes' = Append(attributes, e)
    /\ offset' = offset + AttrSize(e.len)
    /\ UNCHANGED <<buffer, msg_length, pc, result, base, calls>>

UnknownTyped ==
    /\ unknown_required \in Seq(UInt16)
    /\ \A i \in 1 .. Len(unknown_required) :
          is_comprehension_required(unknown_required[i])

LEMMA IterationShape ==
    ASSUME TypeOK, Walking, ParseAttribute
    PROVE  /\ offset \in Slots(buffer.size)
           /\ \/ /\ pc' = "idle" /\ result' = "rejected"
                 /\ UNCHANGED <<buffer, msg_length, offset, attributes, base, calls,
                                unknown_required>>
              \/ /\ \E e \in Entry : Appends(e) /\ NotesUnknown(e.type)
                 /\ UnknownTyped'
  <1> DEFINE a == buffer.attr[offset]
             e == [type |-> a.type, len |-> a.len, offset |-> offset + ATTR_HEADER_SIZE]
  <1>1. offset \in Slots(buffer.size)
    BY WalkReads DEF ReadsInBuffer, ParseAttribute
  <1>2. a.type \in UInt16 /\ a.len \in UInt16
    BY <1>1, BufferParts DEF TypeOK
  <1>3. e \in Entry
    BY <1>2 DEF Entry, TypeOK, ATTR_HEADER_SIZE
  <1>4. CASE ~ValueFits(a.len)
    BY <1>1, <1>4 DEF ParseAttribute, Rejects, Returns
  <1>5. CASE ValueFits(a.len)
    <2>1. /\ attributes' = Append(attributes, e)
          /\ NotesUnknown(a.type)
          /\ offset' = offset + AttrSize(a.len)
          /\ UNCHANGED <<buffer, msg_length, pc, result, base, calls>>
      BY <1>5 DEF ParseAttribute, Advance
    <2>2. e.len = a.len /\ e.type = a.type
      OBVIOUS
    <2>3. Appends(e) /\ NotesUnknown(e.type)
      BY <1>3, <1>5, <2>1, <2>2 DEF Appends
    <2>4. UnknownTyped'
      <3>1. CASE ~Unknown(a.type)
        BY <2>1, <3>1 DEF NotesUnknown, TypeOK, UnknownTyped
      <3>2. CASE Unknown(a.type)
        <4> DEFINE t == a.type
        <4>1. /\ unknown_required' = Append(unknown_required, t)
              /\ t \in UInt16 /\ is_comprehension_required(t)
          BY <1>2, <2>1, <3>2 DEF NotesUnknown, Unknown
        <4> HIDE DEF t
        <4>2. /\ unknown_required' \in Seq(UInt16)
              /\ Len(unknown_required) \in Nat
              /\ Len(unknown_required') = Len(unknown_required) + 1
              /\ \A i \in 1 .. Len(unknown_required) :
                    unknown_required'[i] = unknown_required[i]
              /\ unknown_required'[Len(unknown_required) + 1] = t
          BY <4>1, AppendProperties, LenProperties DEF TypeOK
        <4>3. ASSUME NEW i \in 1 .. Len(unknown_required')
              PROVE  is_comprehension_required(unknown_required'[i])
          <5>1. CASE i \in 1 .. Len(unknown_required)
            BY <4>2, <5>1 DEF TypeOK
          <5>2. CASE i = Len(unknown_required) + 1
            BY <4>1, <4>2, <5>2
          <5> QED
            BY <4>2, <5>1, <5>2
        <4> QED
          BY <4>2, <4>3 DEF UnknownTyped
      <3> QED
        BY <3>1, <3>2
    <2> QED
      BY <1>1, <1>3, <2>3, <2>4
  <1> QED
    BY <1>4, <1>5

LEMMA TypeStep ==
    ASSUME TypeOK, Walking, [Next]_vars
    PROVE  TypeOK'
  <1>1. CASE Decode
    <2>1. Len(attributes) \in Nat /\ Len(attributes) <= Len(attributes)
      BY LenProperties DEF TypeOK
    <2>2. /\ msg_length' \in UInt16
          /\ offset' \in Nat
          /\ pc' \in {"idle", "loop"}
          /\ result' \in {"none", "accepted", "rejected"}
      BY <1>1, BufferParts DEF Decode, Returns, TypeOK, STUN_HEADER_SIZE
    <2> QED
      BY <1>1, <2>1, <2>2 DEF Decode, TypeOK
  <1>2. CASE ParseAttribute
    <2>1. CASE /\ pc' = "idle" /\ result' = "rejected"
               /\ UNCHANGED <<buffer, msg_length, offset, attributes, base, calls,
                              unknown_required>>
      BY <2>1 DEF TypeOK
    <2>2. ASSUME NEW e \in Entry, Appends(e), UnknownTyped'
          PROVE  TypeOK'
      <3>1. /\ attributes' \in Seq(Entry)
            /\ Len(attributes') = Len(attributes) + 1
            /\ Len(attributes) \in Nat
        BY <2>2, AppendProperties, LenProperties DEF Appends, TypeOK
      <3>2. e.len \in Nat
        BY UInt16Range DEF Entry
      <3>3. offset' \in Nat
        <4>1. AttrSize(e.len) \in Nat
          BY <3>2, PaddedBounds
        <4>2. offset \in Nat /\ offset' = offset + AttrSize(e.len)
          BY <2>2 DEF Appends, TypeOK
        <4> QED
          BY <4>1, <4>2
      <3>4. base' \in Nat /\ base' <= Len(attributes')
        BY <2>2, <3>1 DEF Appends, TypeOK
      <3> QED
        BY <2>2, <3>1, <3>3, <3>4 DEF Appends, TypeOK, UnknownTyped
    <2> QED
      BY <1>2, <2>1, <2>2, IterationShape
  <1>3. CASE Accept
    BY <1>3 DEF Accept, Returns, TypeOK
  <1>4. CASE Refill
    BY <1>4 DEF Refill, TypeOK
  <1>5. CASE UNCHANGED vars
    BY <1>5 DEF vars, TypeOK
  <1> QED
    BY <1>1, <1>2, <1>3, <1>4, <1>5 DEF Next

LEMMA WalkingStep ==
    ASSUME TypeOK, Walking, [Next]_vars
    PROVE  Walking'
  <1>1. CASE Decode
    <2>1. CASE pc' = "idle" /\ result' = "rejected"
      BY <2>1 DEF Walking
    <2>2. CASE /\ msg_length' = buffer.length
               /\ ~Truncated(buffer)
               /\ offset' = STUN_HEADER_SIZE
               /\ pc' = "loop" /\ result' = "none"
               /\ buffer' = buffer
      <3>1. buffer.size \in Nat /\ buffer.length \in Nat
        BY BufferParts, UInt16Range DEF TypeOK
      <3>2. MessageEnd' <= buffer'.size /\ offset' <= MessageEnd' + 3
        BY <2>2, <3>1 DEF Truncated, MessageEnd, STUN_HEADER_SIZE
      <3>3. offset' >= STUN_HEADER_SIZE /\ offset' % 4 = 0
        BY <2>2 DEF STUN_HEADER_SIZE
      <3> QED
        BY <2>2, <3>2, <3>3 DEF Walking
    <2> QED
      BY <1>1, <2>1, <2>2 DEF Decode, Returns
  <1>2. CASE ParseAttribute
    <2>1. CASE pc' = "idle" /\ result' = "rejected"
      BY <2>1 DEF Walking
    <2>2. ASSUME NEW e \in Entry, Appends(e)
          PROVE  Walking'
      <3>1. /\ e.len \in Nat /\ offset \in Nat /\ msg_length \in Nat
            /\ Padded(e.len) \in Nat
            /\ Padded(e.len) <= e.len + 3
            /\ Padded(e.len) % 4 = 0
        BY PaddedBounds, UInt16Range DEF Entry, TypeOK
      <3>2. /\ offset' = offset + (ATTR_HEADER_SIZE + Padded(e.len))
            /\ e.len <= (MessageEnd - offset) - ATTR_HEADER_SIZE
            /\ UNCHANGED <<buffer, msg_length, pc, result>>
        BY <2>2 DEF Appends, ValueFits, AttrSize
      <3>3. /\ pc = "loop"
            /\ MessageEnd <= buffer.size
            /\ result = "none"
            /\ offset >= STUN_HEADER_SIZE
            /\ offset % 4 = 0
        BY <1>2 DEF ParseAttribute, Walking
      <3>4. offset' % 4 = 0
        BY <3>1, <3>2, <3>3 DEF ATTR_HEADER_SIZE
      <3>5. offset' >= STUN_HEADER_SIZE
        BY <3>1, <3>2, <3>3 DEF ATTR_HEADER_SIZE, STUN_HEADER_SIZE
      <3>6. offset' <= MessageEnd' + 3
        BY <3>1, <3>2 DEF ATTR_HEADER_SIZE, STUN_HEADER_SIZE, MessageEnd
      <3>7. MessageEnd' = MessageEnd
        BY <3>2 DEF MessageEnd
      <3> QED
        BY <3>2, <3>3, <3>4, <3>5, <3>6, <3>7 DEF Walking
    <2> QED
      BY <1>2, <2>1, <2>2, IterationShape
  <1>3. CASE Accept
    <2>1. offset + ATTR_HEADER_SIZE > MessageEnd
      <3>1. offset \in Nat /\ msg_length \in Nat
        BY UInt16Range DEF TypeOK
      <3> QED
        BY <1>3, <3>1
        DEF Accept, MoreToParse, MessageEnd, ATTR_HEADER_SIZE, STUN_HEADER_SIZE
    <2>2. UNCHANGED <<offset, msg_length, buffer>> /\ pc = "loop" /\ pc' = "idle"
      BY <1>3 DEF Accept, Returns
    <2> QED
      BY <2>1, <2>2 DEF Walking, MessageEnd
  <1>4. CASE Refill
    BY <1>4 DEF Refill, Walking
  <1>5. CASE UNCHANGED vars
    BY <1>5 DEF vars, Walking, MessageEnd
  <1> QED
    BY <1>1, <1>2, <1>3, <1>4, <1>5 DEF Next

(* The table starts with ten entries. *)
LEMMA InitialTable ==
    /\ AttributeTable \in Seq(Entry)
    /\ Len(AttributeTable) = 10
  <1>1. Phantom \in Entry
    <2>1. 0 \in UInt16
      BY UInt16Range DEF MaxUInt16
    <2> QED
      BY <2>1 DEF Phantom, Entry
  <1> QED
    BY <1>1 DEF AttributeTable

LEMMA WalkInvariant == Spec => [](TypeOK /\ Walking)
  <1>1. Init => TypeOK /\ Walking
    <2>1. 0 \in UInt16
      BY UInt16Range DEF MaxUInt16
    <2>2. Init => TypeOK
      <3>1. <<>> \in Seq(UInt16)
        BY EmptySeq
      <3>2. Len(AttributeTable) \in Nat /\ Len(AttributeTable) <= Len(AttributeTable)
        BY InitialTable
      <3> QED
        <4> SUFFICES ASSUME Init  PROVE TypeOK
          OBVIOUS
        <4>1. attributes \in Seq(Entry) /\ base \in Nat /\ base <= Len(attributes)
          BY <3>2, InitialTable DEF Init
        <4> QED
          BY <2>1, <3>1, <4>1 DEF Init, TypeOK
    <2>3. Init => Walking
      BY DEF Init, Walking
    <2> QED
      BY <2>2, <2>3
  <1>2. TypeOK /\ Walking /\ [Next]_vars => (TypeOK /\ Walking)'
    BY TypeStep, WalkingStep
  <1> QED
    BY <1>1, <1>2, PTL DEF Spec

(* Type correctness of the decoder's fields (Decoder.hpp:113-117).            *)
THEOREM TypeCorrect == Spec => []TypeOK
  BY WalkInvariant, PTL

(* decode() reads no attribute header outside the buffer, whatever bytes and   *)
(* lengths it is given (Decoder.cpp:43-54).                                    *)
THEOREM MemorySafety == Spec => []ReadsInBuffer
  BY WalkInvariant, WalkReads, PTL

(* A message of whole words that is accepted is consumed exactly               *)
(* (Decoder.cpp:49,66-67).                                                     *)
THEOREM Consumption == Spec => []WholeWordsConsumed
  <1>1. ASSUME TypeOK, Walking, result = "accepted", msg_length % 4 = 0
        PROVE  offset = MessageEnd
    <2>1. offset \in Nat /\ msg_length \in Nat
      BY <1>1, UInt16Range DEF TypeOK
    <2>2. /\ offset % 4 = 0
          /\ offset <= MessageEnd + 3
          /\ offset + 4 > MessageEnd
      BY <1>1 DEF Walking, ATTR_HEADER_SIZE
    <2> QED
      BY <1>1, <2>1, <2>2 DEF MessageEnd, STUN_HEADER_SIZE
  <1> QED
    BY <1>1, WalkInvariant, PTL DEF WholeWordsConsumed

(* In the loop, the turns taken have consumed a header each. *)
TurnsTaken ==
    pc = "loop" =>
        STUN_HEADER_SIZE + ATTR_HEADER_SIZE * (Len(attributes) - base) <= offset

LEMMA TurnsStep ==
    ASSUME TypeOK, Walking, TurnsTaken, TurnsBounded, [Next]_vars
    PROVE  TurnsTaken' /\ TurnsBounded'
  <1>0. /\ Len(attributes) \in Nat /\ base \in Nat /\ offset \in Nat
        /\ msg_length \in Nat
    BY LenProperties, UInt16Range DEF TypeOK
  <1>1. CASE Decode
    <2>1. attributes' = attributes /\ base' = Len(attributes)
      BY <1>1 DEF Decode
    <2>2. Len(attributes') - base' = 0
      BY <1>0, <2>1
    <2>3. CASE pc' = "idle" /\ msg_length' = msg_length
      BY <1>0, <2>2, <2>3 DEF TurnsTaken, TurnsBounded, ATTR_HEADER_SIZE
    <2>4. CASE msg_length' = buffer.length /\ (pc' = "idle" \/ offset' = STUN_HEADER_SIZE)
      <3>1. buffer.length \in Nat
        BY BufferParts, UInt16Range DEF TypeOK
      <3> QED
        BY <2>2, <2>4, <3>1
        DEF TurnsTaken, TurnsBounded, ATTR_HEADER_SIZE, STUN_HEADER_SIZE
    <2> QED
      BY <1>1, <2>3, <2>4 DEF Decode, Returns
  <1>2. CASE ParseAttribute
    <2>1. CASE /\ pc' = "idle"
               /\ UNCHANGED <<msg_length, attributes, base>>
      BY <2>1 DEF TurnsTaken, TurnsBounded
    <2>2. ASSUME NEW e \in Entry, Appends(e)
          PROVE  TurnsTaken' /\ TurnsBounded'
      <3>1. Len(attributes') = Len(attributes) + 1
        BY <2>2, AppendProperties DEF Appends, TypeOK
      <3>2. /\ pc = "loop"
            /\ offset + ATTR_HEADER_SIZE <= MessageEnd
        BY <1>2 DEF ParseAttribute, MoreToParse
      <3>3. /\ offset' = offset + (ATTR_HEADER_SIZE + Padded(e.len))
            /\ UNCHANGED <<msg_length, pc, base>>
        BY <2>2 DEF Appends, AttrSize
      <3>4. Padded(e.len) \in Nat
        BY PaddedBounds, UInt16Range DEF Entry
      <3>5. STUN_HEADER_SIZE + ATTR_HEADER_SIZE * (Len(attributes) - base) <= offset
        BY <3>2 DEF TurnsTaken
      <3> QED
        BY <1>0, <3>1, <3>2, <3>3, <3>4, <3>5
        DEF TurnsTaken, TurnsBounded, MessageEnd, ATTR_HEADER_SIZE, STUN_HEADER_SIZE
    <2> QED
      BY <1>2, <2>1, <2>2, IterationShape
  <1>3. CASE Accept
    BY <1>3 DEF Accept, Returns, TurnsTaken, TurnsBounded
  <1>4. CASE Refill
    BY <1>4 DEF Refill, TurnsTaken, TurnsBounded
  <1>5. CASE UNCHANGED vars
    BY <1>5 DEF vars, TurnsTaken, TurnsBounded
  <1> QED
    BY <1>1, <1>2, <1>3, <1>4, <1>5 DEF Next

(* decode() takes no more turns than the message has words and appends one      *)
(* entry in each, for every buffer and number of calls: with the turns so       *)
(* bounded, it returns (Decoder.cpp:49-67).                                    *)
THEOREM TurnsBoundedByLength == Spec => []TurnsBounded
  <1>1. Init => TurnsTaken /\ TurnsBounded
    <2> SUFFICES ASSUME Init  PROVE TurnsTaken /\ TurnsBounded
      OBVIOUS
    <2>1. Len(attributes) - base = 0 /\ msg_length = 0 /\ pc = "idle"
      BY InitialTable DEF Init
    <2> QED
      BY <2>1 DEF TurnsTaken, TurnsBounded, ATTR_HEADER_SIZE
  <1>2. /\ TypeOK /\ Walking /\ TurnsTaken /\ TurnsBounded /\ [Next]_vars
        => TurnsTaken' /\ TurnsBounded'
    BY TurnsStep
  <1> QED
    BY <1>1, <1>2, WalkInvariant, PTL DEF Spec

-----------------------------------------------------------------------------
(* What an iteration that parses an attribute does to the table.              *)
LEMMA TableGrown ==
    ASSUME TypeOK, NEW e \in Entry, Appends(e)
    PROVE  /\ Len(attributes) \in Nat
           /\ Len(attributes') = Len(attributes) + 1
           /\ \A i \in 1 .. Len(attributes) : attributes'[i] = attributes[i]
           /\ attributes'[Len(attributes) + 1] = e
  BY AppendProperties, LenProperties DEF Appends, TypeOK

(* A value that fits ends inside the message, and so inside the buffer.       *)
LEMMA ValueInMessage ==
    ASSUME TypeOK, Walking, pc = "loop", NEW e \in Entry, Appends(e)
    PROVE  e.offset + e.len <= MessageEnd /\ e.offset + e.len <= buffer.size
  <1>1. /\ e.len \in Nat /\ offset \in Nat /\ msg_length \in Nat
        /\ buffer.size \in Nat
    BY BufferParts, UInt16Range DEF Entry, TypeOK
  <1>2. /\ e.offset = offset + ATTR_HEADER_SIZE
        /\ e.len <= (MessageEnd - offset) - ATTR_HEADER_SIZE
    BY DEF Appends, ValueFits
  <1>3. MessageEnd <= buffer.size
    BY DEF Walking
  <1> QED
    BY <1>1, <1>2, <1>3 DEF MessageEnd, STUN_HEADER_SIZE, ATTR_HEADER_SIZE

LEMMA EntriesStep ==
    ASSUME TypeOK, Walking, EntriesInBuffer, [Next]_vars
    PROVE  EntriesInBuffer'
  <1>1. CASE UNCHANGED attributes /\ buffer'.size = buffer.size
    BY <1>1 DEF EntriesInBuffer
  <1>2. ASSUME pc = "loop", NEW e \in Entry, Appends(e)
        PROVE  EntriesInBuffer'
    <2>1. buffer' = buffer
      BY <1>2 DEF Appends
    <2>2. e.offset + e.len <= buffer.size
      BY <1>2, ValueInMessage
    <2>3. ASSUME NEW i \in 1 .. Len(attributes')
          PROVE  \/ i \in 1 .. Len(attributes) /\ attributes'[i] = attributes[i]
                 \/ attributes'[i] = e
      BY <1>2, TableGrown
    <2> QED
      BY <2>1, <2>2, <2>3 DEF EntriesInBuffer
  <1>3. CASE ParseAttribute
    <2>1. pc = "loop"
      BY <1>3 DEF ParseAttribute
    <2> QED
      BY <1>1, <1>2, <1>3, <2>1, IterationShape
  <1>4. CASE Decode
    BY <1>1, <1>4 DEF Decode
  <1>5. CASE Accept
    BY <1>1, <1>5 DEF Accept
  <1>6. CASE Refill
    BY <1>1, <1>6 DEF Refill
  <1>7. CASE UNCHANGED vars
    BY <1>1, <1>7 DEF vars
  <1> QED
    BY <1>3, <1>4, <1>5, <1>6, <1>7 DEF Next

(* An entry, once in the table, always points into the buffer                  *)
(* (Decoder.hpp:55-58,80-85).                                                  *)
THEOREM EntriesSafe == Spec => []EntriesInBuffer
  <1>1. Init => EntriesInBuffer
    <2>1. ASSUME Init, NEW i \in 1 .. Len(attributes)
          PROVE  attributes[i].offset + attributes[i].len <= buffer.size
      <3>1. attributes[i] = Phantom
        BY <2>1, InitialTable DEF Init, AttributeTable
      <3>2. buffer.size \in Nat
        BY <2>1, BufferParts DEF Init
      <3> QED
        BY <3>1, <3>2 DEF Phantom
    <2> QED
      BY <2>1 DEF EntriesInBuffer
  <1>2. (TypeOK /\ Walking) /\ EntriesInBuffer /\ [Next]_vars => EntriesInBuffer'
    BY EntriesStep
  <1> QED
    BY <1>1, <1>2, WalkInvariant, PTL DEF Spec

-----------------------------------------------------------------------------
(* The i-th entry is what the bytes say where the entry before it ends.       *)
EntryIsWire(i) ==
    LET e == attributes[i]
        start == StartAfter(i - 1)
    IN /\ start \in Slots(buffer.size)
       /\ e = [type |-> buffer.attr[start].type,
               len |-> buffer.attr[start].len,
               offset |-> start + ATTR_HEADER_SIZE]
       /\ e.offset + e.len <= MessageEnd

LEMMA TableIsWireDef ==
    TableIsWire <=>
      (pc = "loop" \/ result = "accepted" =>
          /\ offset = StartAfter(Len(attributes))
          /\ \A i \in Latest : EntryIsWire(i))
  BY DEF TableIsWire, EntryIsWire

LEMMA TableStep ==
    ASSUME TypeOK, Walking, TableIsWire, [Next]_vars
    PROVE  TableIsWire'
  <1>1. CASE Decode
    <2>1. CASE pc' = "idle" /\ result' = "rejected"
      BY <2>1 DEF TableIsWire
    <2>2. CASE offset' = STUN_HEADER_SIZE
      <3>1. Len(attributes) \in Nat /\ base' = Len(attributes)
            /\ attributes' = attributes
        BY <1>1, LenProperties DEF Decode, TypeOK
      <3>2. Latest' = {}
        BY <3>1 DEF Latest
      <3>3. offset' = StartAfter(Len(attributes))'
        BY <2>2, <3>1 DEF StartAfter
      <3> QED
        BY <3>2, <3>3 DEF TableIsWire
    <2> QED
      BY <1>1, <2>1, <2>2 DEF Decode, Returns
  <1>2. CASE ParseAttribute
    <2>1. CASE pc' = "idle" /\ result' = "rejected"
      BY <2>1 DEF TableIsWire
    <2>2. ASSUME NEW e \in Entry, Appends(e)
          PROVE  TableIsWire'
      <3> DEFINE n == Len(attributes)
      <3>1. /\ n \in Nat /\ Len(attributes') = n + 1
            /\ \A i \in 1 .. n : attributes'[i] = attributes[i]
            /\ attributes'[n + 1] = e
            /\ base \in Nat /\ base <= n /\ base' = base
            /\ buffer' = buffer /\ MessageEnd' = MessageEnd
        BY <2>2, TableGrown DEF Appends, TypeOK, MessageEnd
      <3>2. /\ pc = "loop" /\ offset = StartAfter(n)
            /\ \A i \in Latest : EntryIsWire(i)
        BY <1>2, TableIsWireDef DEF ParseAttribute
      <3>3. \A i \in base .. n : StartAfter(i)' = StartAfter(i)
        BY <3>1 DEF StartAfter, EndOf
      <3>4. \A i \in Latest' : i \in Latest \/ i = n + 1
        BY <3>1 DEF Latest
      <3>5. ASSUME NEW i \in Latest
            PROVE  EntryIsWire(i)'
        <4>1. i \in 1 .. n /\ i - 1 \in base .. n
          BY <3>1 DEF Latest
        <4>2. attributes'[i] = attributes[i] /\ StartAfter(i - 1)' = StartAfter(i - 1)
          BY <3>1, <3>3, <4>1
        <4> QED
          BY <3>1, <3>2, <4>2 DEF EntryIsWire
      <3>6. ASSUME NEW i \in Latest', i = n + 1
            PROVE  EntryIsWire(i)'
        <4>1. i - 1 = n /\ n \in base .. n
          BY <3>1, <3>6
        <4>2. StartAfter(i - 1)' = offset
          BY <3>2, <3>3, <4>1
        <4>3. attributes'[i] = e
          BY <3>1, <3>6
        <4>4. offset \in Slots(buffer.size)
          BY <1>2, IterationShape
        <4>5. e.offset + e.len <= MessageEnd
          BY <2>2, <3>2, ValueInMessage
        <4>6. e = [type |-> buffer.attr[offset].type,
                   len |-> buffer.attr[offset].len,
                   offset |-> offset + ATTR_HEADER_SIZE]
          BY <2>2 DEF Appends
        <4> QED
          BY <3>1, <4>2, <4>3, <4>4, <4>5, <4>6 DEF EntryIsWire
      <3>7. offset' = StartAfter(Len(attributes))'
        <4>1. Len(attributes') # base'
          BY <3>1
        <4>2. StartAfter(Len(attributes))' = e.offset + Padded(e.len)
          BY <3>1, <4>1 DEF StartAfter, EndOf
        <4>3. /\ offset' = offset + (ATTR_HEADER_SIZE + Padded(e.len))
              /\ e.offset = offset + ATTR_HEADER_SIZE
          BY <2>2 DEF Appends, AttrSize
        <4>4. Padded(e.len) \in Nat /\ offset \in Nat
          BY PaddedBounds, UInt16Range DEF Entry, TypeOK
        <4> QED
          BY <4>2, <4>3, <4>4 DEF ATTR_HEADER_SIZE
      <3> HIDE DEF n
      <3>8. \A i \in Latest' : EntryIsWire(i)'
        BY <3>4, <3>5, <3>6
      <3> QED
        BY <3>7, <3>8, TableIsWireDef DEF TableIsWire, EntryIsWire
    <2> QED
      BY <1>2, <2>1, <2>2, IterationShape
  <1>3. CASE Accept
    BY <1>3 DEF Accept, Returns, TableIsWire, Latest, StartAfter, EndOf, MessageEnd
  <1>4. CASE Refill
    BY <1>4 DEF Refill, TableIsWire
  <1>5. CASE UNCHANGED vars
    BY <1>5 DEF vars, TableIsWire, Latest, StartAfter, EndOf, MessageEnd
  <1> QED
    BY <1>1, <1>2, <1>3, <1>4, <1>5 DEF Next

(* What decode() accepted is what the bytes say, attribute by attribute        *)
(* (Decoder.cpp:46-67).                                                        *)
THEOREM TableCorrect == Spec => []TableIsWire
  <1>1. Init => TableIsWire
    BY DEF Init, TableIsWire
  <1>2. (TypeOK /\ Walking) /\ TableIsWire /\ [Next]_vars => TableIsWire'
    BY TableStep
  <1> QED
    BY <1>1, <1>2, WalkInvariant, PTL DEF Spec

-----------------------------------------------------------------------------
(* What decode() has established about the header when it enters the loop, and *)
(* where it is then: at a start of every division that the message has.        *)
Headed ==
    pc = "loop" \/ result = "accepted" =>
        /\ buffer.size >= STUN_HEADER_SIZE
        /\ buffer.cookie
        /\ msg_length = buffer.length
        /\ buffer.size >= STUN_HEADER_SIZE + buffer.length

Follows ==
    pc = "loop" /\ MoreToParse =>
        \A S \in SUBSET Slots(buffer.size) : Divides(S, buffer) => offset \in S

(* Divides for the buffer, with its parts named. *)
Room(o) == o + ATTR_HEADER_SIZE <= STUN_HEADER_SIZE + buffer.length
NextStart(o) == o + AttrSize(buffer.attr[o].len)

LEMMA DividesParts ==
    ASSUME NEW S
    PROVE  Divides(S, buffer) <=>
              /\ STUN_HEADER_SIZE \in S <=> Room(STUN_HEADER_SIZE)
              /\ \A o \in S :
                    /\ Room(o)
                    /\ NextStart(o) \in S <=> Room(NextStart(o))
                    /\ o # STUN_HEADER_SIZE => \E p \in S : o = NextStart(p)
                    /\ buffer.attr[o].len <=
                          ((STUN_HEADER_SIZE + buffer.length) - o) - ATTR_HEADER_SIZE
  BY DEF Divides, Room, NextStart

LEMMA LengthIsNat ==
    ASSUME TypeOK
    PROVE  /\ buffer.size \in Nat /\ buffer.length \in Nat
           /\ msg_length \in Nat /\ offset \in Nat
           /\ \A o \in Slots(buffer.size) : o \in Nat /\ buffer.attr[o].len \in Nat
  <1>1. /\ buffer.size \in Nat /\ buffer.length \in Nat
        /\ msg_length \in Nat /\ offset \in Nat
        /\ \A o \in Slots(buffer.size) : buffer.attr[o].len \in Nat
    BY BufferParts, UInt16Range DEF TypeOK
  <1>2. \A o \in Slots(buffer.size) : o \in Nat
    BY <1>1 DEF Slots, STUN_HEADER_SIZE
  <1> QED
    BY <1>1, <1>2

LEMMA HeadedStep ==
    ASSUME TypeOK, Walking, Headed, [Next]_vars
    PROVE  Headed'
  <1>1. CASE Decode
    BY <1>1, LengthIsNat DEF Decode, Returns, Truncated, Headed, STUN_HEADER_SIZE
  <1>2. CASE ParseAttribute
    BY <1>2, IterationShape DEF ParseAttribute, Appends, Headed
  <1>3. CASE Accept
    BY <1>3 DEF Accept, Returns, Headed
  <1>4. CASE Refill
    BY <1>4 DEF Refill, Headed
  <1>5. CASE UNCHANGED vars
    BY <1>5 DEF vars, Headed
  <1> QED
    BY <1>1, <1>2, <1>3, <1>4, <1>5 DEF Next

LEMMA RoomIsMoreToParse ==
    ASSUME TypeOK, Headed, pc = "loop"
    PROVE  MoreToParse <=> Room(offset)
  BY DEF Headed, MoreToParse, MessageEnd, Room

LEMMA FollowsStep ==
    ASSUME TypeOK, Walking, Headed, Follows, [Next]_vars
    PROVE  Follows'
  <1>1. CASE Decode
    <2>1. CASE pc' = "idle"
      BY <2>1 DEF Follows
    <2>2. CASE /\ msg_length' = buffer.length
               /\ offset' = STUN_HEADER_SIZE
               /\ buffer' = buffer
      <3> SUFFICES ASSUME MoreToParse', NEW S, Divides(S, buffer)
                   PROVE  STUN_HEADER_SIZE \in S
        BY <2>2 DEF Follows
      <3>1. Room(STUN_HEADER_SIZE)
        BY <2>2 DEF MoreToParse, MessageEnd, Room
      <3> QED
        BY <3>1, DividesParts
    <2> QED
      BY <1>1, <2>1, <2>2 DEF Decode, Returns
  <1>2. CASE ParseAttribute
    <2>1. CASE pc' = "idle"
      BY <2>1 DEF Follows
    <2>2. ASSUME NEW e \in Entry, Appends(e)
          PROVE  Follows'
      <3>1. /\ offset' = NextStart(offset) /\ buffer' = buffer
            /\ msg_length' = msg_length /\ pc' = pc
        BY <2>2 DEF Appends, NextStart
      <3> SUFFICES ASSUME MoreToParse',
                          NEW S \in SUBSET Slots(buffer.size), Divides(S, buffer)
                   PROVE  NextStart(offset) \in S
        BY <3>1 DEF Follows
      <3>2. offset \in S
        BY <1>2 DEF ParseAttribute, Follows
      <3>3. Room(NextStart(offset))
        BY <1>2, <3>1 DEF ParseAttribute, Headed, MoreToParse, MessageEnd, Room
      <3> QED
        BY <3>2, <3>3, DividesParts
    <2> QED
      BY <1>2, <2>1, <2>2, IterationShape
  <1>3. CASE Accept
    BY <1>3 DEF Accept, Returns, Follows
  <1>4. CASE Refill
    BY <1>4 DEF Refill, Follows
  <1>5. CASE UNCHANGED vars
    BY <1>5 DEF vars, Follows, MoreToParse, MessageEnd
  <1> QED
    BY <1>1, <1>2, <1>3, <1>4, <1>5 DEF Next

(* The starts of the last call's entries, when the loop has come to its end,   *)
(* divide the message.                                                        *)
Starts == {attributes[i].offset - ATTR_HEADER_SIZE : i \in Latest}

LEMMA StartsDivide ==
    ASSUME TypeOK, Walking, TableIsWire, Headed, pc = "loop", ~MoreToParse
    PROVE  Starts \in SUBSET Slots(buffer.size) /\ Divides(Starts, buffer)
  <1> DEFINE n == Len(attributes)
             end == STUN_HEADER_SIZE + buffer.length
  <1>1. n \in Nat /\ base \in Nat /\ base <= n
    BY LenProperties DEF TypeOK
  <1>2. offset = StartAfter(n) /\ \A i \in Latest : EntryIsWire(i)
    BY TableIsWireDef
  <1>3. MessageEnd = end
    BY DEF Headed, MessageEnd
  <1>4. ASSUME NEW i \in Latest
        PROVE  /\ StartAfter(i - 1) \in Slots(buffer.size)
               /\ attributes[i].offset - ATTR_HEADER_SIZE = StartAfter(i - 1)
               /\ buffer.attr[StartAfter(i - 1)].len <= (end - StartAfter(i - 1)) - ATTR_HEADER_SIZE
               /\ Room(StartAfter(i - 1))
               /\ NextStart(StartAfter(i - 1)) = StartAfter(i)
    <2> DEFINE o == StartAfter(i - 1)
    <2>1. /\ o \in Slots(buffer.size)
          /\ attributes[i] = [type |-> buffer.attr[o].type, len |-> buffer.attr[o].len,
                              offset |-> o + ATTR_HEADER_SIZE]
          /\ attributes[i].offset + attributes[i].len <= end
      BY <1>2, <1>3 DEF EntryIsWire
    <2> HIDE DEF o
    <2>2. o \in Nat /\ buffer.attr[o].len \in Nat /\ buffer.length \in Nat
      BY <2>1, LengthIsNat
    <2>3. /\ attributes[i].offset = o + ATTR_HEADER_SIZE
          /\ attributes[i].len = buffer.attr[o].len
          /\ (o + ATTR_HEADER_SIZE) + buffer.attr[o].len <= end
      BY <2>1
    <2>4. attributes[i].offset - ATTR_HEADER_SIZE = o
      BY <2>2, <2>3 DEF ATTR_HEADER_SIZE
    <2>5. buffer.attr[o].len <= (end - o) - ATTR_HEADER_SIZE /\ Room(o)
      BY <2>2, <2>3 DEF ATTR_HEADER_SIZE, STUN_HEADER_SIZE, Room
    <2>6. NextStart(o) = StartAfter(i)
      <3>1. i # base
        BY <1>1 DEF Latest
      <3>2. StartAfter(i) = (o + ATTR_HEADER_SIZE) + Padded(buffer.attr[o].len)
        BY <2>3, <3>1 DEF StartAfter, EndOf
      <3>3. Padded(buffer.attr[o].len) \in Nat
        BY <2>2, PaddedBounds
      <3> QED
        BY <2>2, <3>2, <3>3 DEF NextStart, AttrSize, ATTR_HEADER_SIZE
    <2> QED
      BY <2>1, <2>4, <2>5, <2>6 DEF o
  <1>5. Starts = {StartAfter(i - 1) : i \in Latest}
    BY <1>4 DEF Starts
  <1>6. ~Room(StartAfter(n))
    BY <1>2, RoomIsMoreToParse
  <1>7. \A i \in Latest : i \in Int /\ base + 1 <= i /\ i <= n
    BY <1>1 DEF Latest
  <1>8. \A i \in Int : base + 1 <= i /\ i <= n => i \in Latest
    BY <1>1 DEF Latest
  <1>9. StartAfter(base) = STUN_HEADER_SIZE
    BY DEF StartAfter
  <1>10. STUN_HEADER_SIZE \in Starts <=> Room(STUN_HEADER_SIZE)
    <2>1. CASE n = base
      <3>1. Starts = {}
        BY <1>1, <1>7, <2>1 DEF Starts
      <3> QED
        BY <1>6, <1>9, <2>1, <3>1
    <2>2. CASE n # base
      <3>1. base + 1 \in Latest /\ (base + 1) - 1 = base
        BY <1>1, <1>8, <2>2
      <3> QED
        BY <1>4, <1>5, <1>9, <3>1
    <2> QED
      BY <2>1, <2>2
  <1>11. ASSUME NEW o \in Starts
         PROVE  /\ Room(o)
                /\ NextStart(o) \in Starts <=> Room(NextStart(o))
                /\ o # STUN_HEADER_SIZE => \E p \in Starts : o = NextStart(p)
                /\ buffer.attr[o].len <= (end - o) - ATTR_HEADER_SIZE
    <2>1. PICK i \in Latest : o = StartAfter(i - 1)
      BY <1>5
    <2>2. Room(o) /\ buffer.attr[o].len <= (end - o) - ATTR_HEADER_SIZE
          /\ NextStart(o) = StartAfter(i)
      BY <1>4, <2>1
    <2>3. NextStart(o) \in Starts <=> Room(NextStart(o))
      <3>1. CASE i = n
        <4>1. ~Room(NextStart(o))
          BY <1>6, <2>2, <3>1
        <4>2. \A p \in Starts : Room(p)
          BY <1>4, <1>5
        <4> QED
          BY <4>1, <4>2
      <3>2. CASE i # n
        <4>1. i + 1 \in Latest /\ (i + 1) - 1 = i
          BY <1>1, <1>7, <1>8, <3>2
        <4> QED
          BY <1>4, <1>5, <2>2, <4>1
      <3> QED
        BY <3>1, <3>2
    <2>4. o # STUN_HEADER_SIZE => \E p \in Starts : o = NextStart(p)
      <3> SUFFICES ASSUME o # STUN_HEADER_SIZE
                   PROVE  \E p \in Starts : o = NextStart(p)
        OBVIOUS
      <3>1. i - 1 # base
        BY <1>9, <2>1
      <3>2. i - 1 \in Latest
        BY <1>1, <1>7, <1>8, <3>1
      <3> QED
        BY <1>4, <1>5, <2>1, <3>2
    <2> QED
      BY <2>2, <2>3, <2>4
  <1>12. Starts \in SUBSET Slots(buffer.size)
    BY <1>4, <1>5
  <1> QED
    BY <1>10, <1>11, <1>12, DividesParts

LEMMA AcceptsStep ==
    ASSUME TypeOK, Walking, TableIsWire, Headed, Follows, AcceptsWellFormed,
           [Next]_vars
    PROVE  AcceptsWellFormed'
  <1>1. CASE result' = "none"
    BY <1>1 DEF AcceptsWellFormed
  <1>2. ASSUME result' = "rejected", ~WellFormed(buffer), buffer' = buffer
        PROVE  AcceptsWellFormed'
    BY <1>2 DEF AcceptsWellFormed
  <1>3. CASE Decode
    <2>1. CASE /\ result' = "rejected"
               /\ \/ buffer.size < STUN_HEADER_SIZE
                  \/ ~buffer.cookie
                  \/ Truncated(buffer)
      <3>1. ~WellFormed(buffer)
        BY <2>1, LengthIsNat DEF WellFormed, Truncated, STUN_HEADER_SIZE
      <3> QED
        BY <1>2, <1>3, <2>1, <3>1 DEF Decode
    <2> QED
      BY <1>1, <1>3, <2>1 DEF Decode, Returns
  <1>4. CASE ParseAttribute
    <2>1. pc = "loop" /\ MoreToParse /\ result = "none"
      BY <1>4 DEF ParseAttribute, Walking
    <2>2. CASE ~ValueFits(buffer.attr[offset].len)
      <3>1. ~WellFormed(buffer)
        <4> SUFFICES ASSUME NEW S \in SUBSET Slots(buffer.size), Divides(S, buffer)
                     PROVE  ValueFits(buffer.attr[offset].len)
          BY <2>2 DEF WellFormed
        <4>1. offset \in S
          BY <2>1 DEF Follows
        <4>2. buffer.attr[offset].len <=
                 ((STUN_HEADER_SIZE + buffer.length) - offset) - ATTR_HEADER_SIZE
          BY <4>1, DividesParts
        <4> QED
          BY <2>1, <4>2 DEF ValueFits, MessageEnd, Headed
      <3> QED
        BY <1>2, <1>4, <2>2, <3>1 DEF ParseAttribute, Rejects, Returns
    <2>3. CASE ValueFits(buffer.attr[offset].len)
      BY <1>1, <1>4, <2>1, <2>3 DEF ParseAttribute
    <2> QED
      BY <2>2, <2>3
  <1>5. CASE Accept
    <2>1. /\ pc = "loop" /\ ~MoreToParse /\ result' = "accepted"
          /\ UNCHANGED <<buffer, attributes, base>>
      BY <1>5 DEF Accept, Returns
    <2>2. Starts \in SUBSET Slots(buffer.size) /\ Divides(Starts, buffer)
      BY <2>1, StartsDivide
    <2>3. WellFormed(buffer)
      BY <2>1, <2>2 DEF WellFormed, Headed
    <2>4. Starts = {attributes'[i].offset - ATTR_HEADER_SIZE : i \in Latest'}
      BY <2>1 DEF Starts, Latest
    <2> QED
      BY <2>1, <2>2, <2>3, <2>4 DEF AcceptsWellFormed
  <1>6. CASE Refill
    BY <1>1, <1>6 DEF Refill
  <1>7. CASE UNCHANGED vars
    BY <1>7 DEF vars, AcceptsWellFormed, Latest
  <1> QED
    BY <1>3, <1>4, <1>5, <1>6, <1>7 DEF Next

(* decode() accepts exactly the messages that a division into attributes       *)
(* exists for, and its entries are that division, for every buffer             *)
(* (Decoder.cpp:28-71).                                                       *)
THEOREM AcceptsExactlyWellFormed == Spec => []AcceptsWellFormed
  <1> DEFINE IInv == Headed /\ Follows /\ AcceptsWellFormed
  <1>1. Init => IInv
    BY DEF Init, Headed, Follows, AcceptsWellFormed
  <1>2. (TypeOK /\ Walking) /\ TableIsWire /\ IInv /\ [Next]_vars => IInv'
    BY HeadedStep, FollowsStep, AcceptsStep
  <1>3. IInv => AcceptsWellFormed
    OBVIOUS
  <1> QED
    BY <1>1, <1>2, <1>3, WalkInvariant, TableCorrect, PTL DEF Spec

-----------------------------------------------------------------------------
(* The table never loses the entries it starts with, so that the place of a     *)
(* new entry is behind them.                                                   *)
Listed == Len(AttributeTable) <= Len(attributes) /\ UnknownListed

Types == [i \in 1 .. Len(attributes) |-> attributes[i].type]
UnknownPlaces ==
    {i \in Len(AttributeTable) + 1 .. Len(attributes) : Unknown(attributes[i].type)}

LEMMA UnknownListedDef ==
    UnknownListed <=> Lists(unknown_required, Types, UnknownPlaces)
  BY DEF UnknownListed, Types, UnknownPlaces

LEMMA UnknownPlacesFinite ==
    ASSUME TypeOK
    PROVE  /\ UnknownPlaces \in SUBSET Nat
           /\ IsFiniteSet(UnknownPlaces)
           /\ \A i \in UnknownPlaces : i \in 1 .. Len(attributes)
  <1>1. Len(attributes) \in Nat /\ Len(AttributeTable) = 10
    BY InitialTable, LenProperties DEF TypeOK
  <1>2. IsFiniteSet(11 .. Len(attributes))
    BY <1>1, FS_Interval
  <1>3. UnknownPlaces \in SUBSET (11 .. Len(attributes))
    BY <1>1 DEF UnknownPlaces
  <1>4. IsFiniteSet(UnknownPlaces)
    BY <1>2, <1>3, FS_Subset
  <1>5. \A i \in 11 .. Len(attributes) : i \in Nat /\ i \in 1 .. Len(attributes)
    BY <1>1
  <1> QED
    BY <1>3, <1>4, <1>5

LEMMA ListedStep ==
    ASSUME TypeOK, Walking, Listed, [Next]_vars
    PROVE  Listed'
  <1>1. CASE UNCHANGED <<attributes, unknown_required>>
    BY <1>1 DEF Listed, UnknownListed
  <1>2. CASE ParseAttribute
    <2>1. ASSUME NEW e \in Entry, Appends(e), NotesUnknown(e.type)
          PROVE  Listed'
      <3> DEFINE n == Len(attributes)
      <3>1. /\ n \in Nat /\ Len(attributes') = n + 1
            /\ \A i \in 1 .. n : attributes'[i] = attributes[i]
            /\ attributes'[n + 1] = e
            /\ Len(AttributeTable) = 10 /\ 10 <= n
        BY <2>1, TableGrown, InitialTable DEF Listed
      <3>2. /\ UnknownPlaces \in SUBSET Nat /\ IsFiniteSet(UnknownPlaces)
            /\ \A i \in UnknownPlaces : i \in 1 .. n
        BY UnknownPlacesFinite
      <3>3. Lists(unknown_required, Types, UnknownPlaces)
        BY UnknownListedDef DEF Listed
      <3>4. \A i \in 1 .. n : Types'[i] = Types[i]
        BY <3>1 DEF Types
      <3>5. Types'[n + 1] = e.type
        BY <3>1 DEF Types
      <3>6. UnknownPlaces' =
               IF Unknown(e.type) THEN UnknownPlaces \cup {n + 1} ELSE UnknownPlaces
        <4>1. \A i \in 11 .. n : i \in UnknownPlaces' <=> i \in UnknownPlaces
          <5> SUFFICES ASSUME NEW i \in 11 .. n
                       PROVE  i \in UnknownPlaces' <=> i \in UnknownPlaces
            OBVIOUS
          <5>1. i \in 1 .. n /\ i \in 11 .. n + 1
            BY <3>1
          <5> QED
            BY <3>1, <5>1 DEF UnknownPlaces, Unknown
        <4>2. n + 1 \in UnknownPlaces' <=> Unknown(e.type)
          <5>1. n + 1 \in 11 .. n + 1
            BY <3>1
          <5> QED
            BY <3>1, <5>1 DEF UnknownPlaces, Unknown
        <4>3. \A i \in UnknownPlaces : i \in 11 .. n
          BY <3>1 DEF UnknownPlaces
        <4>4. \A i \in UnknownPlaces' : i \in 11 .. n \/ i = n + 1
          <5>1. \A i \in UnknownPlaces' : i \in 11 .. n + 1
            BY <3>1 DEF UnknownPlaces
          <5>2. \A i \in 11 .. n + 1 : i \in 11 .. n \/ i = n + 1
            BY <3>1
          <5> QED
            BY <5>1, <5>2
        <4> HIDE DEF UnknownPlaces, n
        <4>5. CASE Unknown(e.type)
          <5>1. UnknownPlaces' = UnknownPlaces \cup {n + 1}
            BY <4>1, <4>2, <4>3, <4>4, <4>5
          <5> QED
            BY <4>5, <5>1
        <4>6. CASE ~Unknown(e.type)
          <5>1. UnknownPlaces' = UnknownPlaces
            BY <4>1, <4>2, <4>3, <4>4, <4>6
          <5> QED
            BY <4>6, <5>1
        <4> QED
          BY <4>5, <4>6
      <3> HIDE DEF n
      <3>7. Lists(unknown_required, Types, UnknownPlaces)'
        <4>1. CASE ~Unknown(e.type)
          <5>1. unknown_required' = unknown_required /\ UnknownPlaces' = UnknownPlaces
            BY <2>1, <3>6, <4>1 DEF NotesUnknown
          <5> HIDE DEF UnknownPlaces, Types
          <5>2. \A i \in UnknownPlaces : Types'[i] = Types[i]
            BY <3>2, <3>4
          <5>3. Lists(unknown_required, Types', UnknownPlaces)
            BY <3>3, <5>2, ListsSame
          <5> QED
            BY <5>1, <5>3 DEF Lists, Rank
        <4>2. CASE Unknown(e.type)
          <5>1. /\ unknown_required' = Append(unknown_required, e.type)
                /\ UnknownPlaces' = UnknownPlaces \cup {n + 1}
            BY <2>1, <3>6, <4>2 DEF NotesUnknown
          <5>2. \A i \in UnknownPlaces : Types'[i] = Types[i] /\ i < n + 1
            BY <3>1, <3>2, <3>4 DEF n
          <5>3. n + 1 \in Nat /\ e.type \in UInt16 /\ unknown_required \in Seq(UInt16)
            BY <3>1 DEF n, Entry, TypeOK
          <5>4. Lists(Append(unknown_required, e.type), Types', UnknownPlaces \cup {n + 1})
            BY <3>2, <3>3, <3>5, <5>2, <5>3, ListsGrow
          <5> QED
            BY <5>1, <5>4 DEF Lists, Rank
        <4> QED
          BY <4>1, <4>2
      <3>8. UnknownListed'
        BY <3>7 DEF UnknownListed, Types, UnknownPlaces
      <3> QED
        BY <3>1, <3>8 DEF Listed, n
    <2>2. CASE UNCHANGED <<attributes, unknown_required>>
      BY <1>1, <2>2
    <2> QED
      BY <1>2, <2>1, <2>2, IterationShape
  <1>3. CASE Decode \/ Accept \/ Refill \/ UNCHANGED vars
    BY <1>1, <1>3 DEF Decode, Accept, Refill, vars
  <1> QED
    BY <1>2, <1>3 DEF Next

(* The list that the caller answers with an error holds the unknown types that  *)
(* require comprehension, all of them, in order and as often as they were      *)
(* parsed, through rejections and repeated calls (Decoder.cpp:61-63).           *)
THEOREM UnknownCorrect == Spec => []UnknownListed
  <1>1. Init => Listed
    <2> SUFFICES ASSUME Init
                 PROVE  Listed
      OBVIOUS
    <2>1. Len(attributes) = 10 /\ Len(AttributeTable) = 10 /\ unknown_required = <<>>
      BY InitialTable DEF Init
    <2>2. UnknownPlaces = {}
      BY <2>1 DEF UnknownPlaces
    <2>3. Lists(unknown_required, Types, UnknownPlaces)
      BY <2>1, <2>2, ListsNothing
    <2> QED
      BY <2>1, <2>3, UnknownListedDef DEF Listed
  <1>2. (TypeOK /\ Walking) /\ Listed /\ [Next]_vars => Listed'
    BY ListedStep
  <1>3. Listed => UnknownListed
    BY DEF Listed
  <1> QED
    BY <1>1, <1>2, <1>3, WalkInvariant, PTL DEF Spec
=============================================================================

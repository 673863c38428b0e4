---------------------------- MODULE StreamProofs ----------------------------
(***************************************************************************)
(* The reader of a stream stays in step, for every set of channels, payloads  *)
(* and messages, however many there are and however they are cut.             *)
(***************************************************************************)
EXTENDS Stream, StunWireProofs

Item == [what : What, start : Nat, end : Nat, view : View]
Taken == [what : What, from : Nat]

(* Every message type splits into a class and a method. *)
LEMMA MessageTypeSplits ==
    ASSUME NEW t \in UInt16
    PROVE  messageClass(t) \in UInt16 /\ messageMethod(t) \in Nat
  <1>1. t \in Nat /\ t <= MaxUInt16
    BY UInt16Range
  <1>2. PICK q \in Nat, r \in 0 .. 255 : t = 256 * q + r
    <2>1. /\ t = 256 * (t \div 256) + (t % 256)
          /\ t \div 256 \in Nat /\ (t % 256) \in 0 .. 255
      BY <1>1
    <2> QED
      BY <2>1
  <1>3. Bit(t, 256) = q % 2 /\ t \div 256 = q
    BY <1>2 DEF Bit
  <1>4. t \div 16 = 16 * q + r \div 16
    BY <1>2
  <1>5. Bit(t, 16) = (r \div 16) % 2
    BY <1>2, <1>4 DEF Bit
  <1>6. (q % 2) * 256 <= 256 * q /\ (q % 2) * 256 \in Nat
    BY <1>2
  <1>7. ((r \div 16) % 2) * 16 <= r /\ ((r \div 16) % 2) * 16 \in Nat
    BY <1>2
  <1>8. messageClass(t) = (q % 2) * 256 + ((r \div 16) % 2) * 16
    BY <1>3, <1>5 DEF messageClass
  <1>9. messageClass(t) \in Nat /\ messageClass(t) <= t
    BY <1>2, <1>6, <1>7, <1>8
  <1>10. t - messageClass(t) \in Nat
    BY <1>1, <1>9
  <1>11. messageClass(t) \in UInt16
    <2>1. messageClass(t) \in Nat /\ messageClass(t) <= MaxUInt16
      BY <1>1, <1>9 DEF MaxUInt16
    <2> QED
      BY ONLY <2>1, UInt16Range
  <1>12. messageMethod(t) \in Nat
    BY <1>10 DEF messageMethod
  <1> QED
    BY <1>11, <1>12

LEMMA FrameSizes ==
    ASSUME NEW n \in Nat
    PROVE  /\ totalSize(n) \in Nat
           /\ CHAN_HEADER_SIZE + n <= totalSize(n)
           /\ totalSize(n) <= CHAN_HEADER_SIZE + n + 3
           /\ CHAN_HEADER_SIZE = 4
           /\ LengthWritten(n) \in UInt16
           /\ n <= MaxUInt16 => LengthWritten(n) = n
  <1>1. /\ Padded(n) \in Nat /\ n <= Padded(n) /\ Padded(n) <= n + 3
    BY PaddedBounds
  <1>2. n <= MaxUInt16 => ToUInt16(n) = n
    BY DEF ToUInt16, MaxUInt16
  <1> QED
    BY <1>1, <1>2, ToUInt16Bounds DEF totalSize, CHAN_HEADER_SIZE, LengthWritten

-----------------------------------------------------------------------------
(* TypeOK with its sets of records named, and what it says of single items. *)
Typed ==
    /\ sent \in Seq(Item) /\ Len(sent) <= MaxItems
    /\ arrived \in Nat /\ pos \in Nat
    /\ received \in Seq(Taken)
    /\ broken \in BOOLEAN

LEMMA TypedIsTypeOK == Typed <=> TypeOK
  BY DEF Typed, TypeOK, Item, Taken

LEMMA SentItems ==
    ASSUME Typed
    PROVE  /\ Len(sent) \in Nat
           /\ \A i \in 1 .. Len(sent) :
                 /\ sent[i] \in Item
                 /\ sent[i].start \in Nat /\ sent[i].end \in Nat
                 /\ sent[i].view \in View
           /\ \A i \in 0 .. Len(sent) : EndOf(i) \in Nat
           /\ Total \in Nat
  <1>1. Len(sent) \in Nat /\ \A i \in 1 .. Len(sent) : sent[i] \in Item
    BY DEF Typed
  <1>2. \A item \in Item : item.start \in Nat /\ item.end \in Nat /\ item.view \in View
    BY DEF Item
  <1>3. \A i \in 0 .. Len(sent) : EndOf(i) \in Nat
    BY <1>1, <1>2 DEF EndOf
  <1>4. Total \in Nat
    BY <1>1, <1>3 DEF Total
  <1> QED
    BY <1>1, <1>2, <1>3, <1>4

(* What the beginning of an item says of it. *)
IsFrame(item) ==
    \E channel \in UInt16, n \in Nat :
        /\ isValidChannel(channel)
        /\ item.what = Frame(channel, n)
        /\ item.end = item.start + totalSize(n)
        /\ item.view.first = channel
        /\ item.view.second = LengthWritten(n)
IsMessage(item) ==
    \E method \in StunMethod, class \in DOMAIN StunClass, n \in Nat :
        /\ item.what = Message(method, StunClass[class], RolesOf[class], n)
        /\ item.end = item.start + STUN_HEADER_SIZE + n
        /\ item.view.first = MessageType(method, class)
        /\ Declared(item) => item.view.stun = "message"

LEMMA Described ==
    ASSUME NEW item \in Item, IsFrame(item) \/ IsMessage(item)
    PROVE  item.start + CHAN_HEADER_SIZE <= item.end
  <1>1. CASE IsFrame(item)
    BY <1>1, FrameSizes DEF IsFrame, Item
  <1>2. CASE IsMessage(item)
    BY <1>2 DEF IsMessage, Item, STUN_HEADER_SIZE, CHAN_HEADER_SIZE
  <1> QED
    BY <1>1, <1>2

(* A step of the sender appends an item whose beginning describes it. *)
Grows(item) ==
    /\ sent' = Append(sent, item)
    /\ item.start = Total
    /\ UNCHANGED <<arrived, pos, received, broken>>

LEMMA SendShape ==
    ASSUME TypeOK, Send
    PROVE  /\ Len(sent') <= MaxItems
           /\ \E item \in Item : Grows(item) /\ (IsFrame(item) \/ IsMessage(item))
  <1>1. Typed /\ Total \in Nat /\ sent \in Seq(Item)
    BY TypedIsTypeOK, SentItems DEF Typed
  <1>2. ASSUME NEW channel \in Channels, NEW payload \in Payloads, NEW room \in Rooms,
               SendFrame(channel, payload, room)
        PROVE  /\ Len(sent') <= MaxItems
               /\ \E item \in Item : Grows(item) /\ IsFrame(item)
    <2>1. /\ channel \in UInt16 /\ isValidChannel(channel)
          /\ payload.size \in Nat /\ payload.stun \in {"no", "malformed", "message"}
      BY <1>2, StreamAssumption DEF SendFrame, CanEncode
    <2> DEFINE view == [first |-> channel, second |-> LengthWritten(payload.size),
                        stun |-> payload.stun]
               item == [what |-> Frame(channel, payload.size), start |-> Total,
                        end |-> Total + totalSize(payload.size), view |-> view]
    <2>2. view \in View
      BY <2>1, FrameSizes DEF View
    <2>3. Frame(channel, payload.size) \in What
      BY <2>1 DEF Frame, What
    <2>4. item \in Item
      <3>1. totalSize(payload.size) \in Nat
        BY <2>1, FrameSizes
      <3>2. Total + totalSize(payload.size) \in Nat
        BY <1>1, <3>1
      <3> HIDE DEF view
      <3> QED
        BY <1>1, <2>2, <2>3, <3>2 DEF Item
    <2>5. sent' = Append(sent, item) /\ Len(sent) < MaxItems
          /\ UNCHANGED <<arrived, pos, received, broken>>
      BY <1>2 DEF SendFrame, Write
    <2>6. Grows(item) /\ IsFrame(item)
      BY <2>1, <2>5 DEF Grows, IsFrame
    <2>7. Len(sent') = Len(sent) + 1 /\ Len(sent) \in Nat /\ MaxItems \in Nat
      BY <1>1, <2>4, <2>5, StreamAssumption
    <2> QED
      BY <2>4, <2>5, <2>6, <2>7
  <1>3. ASSUME NEW method \in Methods, NEW class \in DOMAIN StunClass, NEW m \in Messages,
               SendMessage(method, class, m)
        PROVE  /\ Len(sent') <= MaxItems
               /\ \E item \in Item : Grows(item) /\ IsMessage(item)
    <2>1. /\ method \in StunMethod
          /\ m.size \in Nat /\ m.length \in UInt16
          /\ m.stun \in {"malformed", "message"}
          /\ m.length = m.size => m.stun = "message"
      BY StreamAssumption
    <2>2. MessageType(method, class) \in UInt16
      <3>1. MessageType(method, class) \in Nat /\ MessageType(method, class) <= MaxUInt16
        BY <2>1, MessageTypeReadBack DEF MaxUInt16
      <3> QED
        BY ONLY <3>1, UInt16Range
    <2> DEFINE view == [first |-> MessageType(method, class), second |-> m.length,
                        stun |-> m.stun]
               what == Message(method, StunClass[class], RolesOf[class], m.size)
               item == [what |-> what, start |-> Total,
                        end |-> Total + (STUN_HEADER_SIZE + m.size), view |-> view]
    <2>3. view \in View
      BY <2>1, <2>2 DEF View
    <2>4. StunClass[class] \in UInt16
      BY ClassValues, UInt16Range DEF MaxUInt16
    <2>5. method \in Nat
      BY <2>1 DEF StunMethod
    <2>6. RolesOf[class] \in SUBSET {"request", "response", "indication"}
      BY DEF RolesOf, StunClass
    <2>7. what \in What
      BY <2>1, <2>4, <2>5, <2>6 DEF Message, What
    <2>8. m.size \in Nat /\ STUN_HEADER_SIZE = 20
      BY <2>1 DEF STUN_HEADER_SIZE
    <2>9. item \in Item
      BY <1>1, <2>3, <2>7, <2>8 DEF Item
    <2>10. sent' = Append(sent, item) /\ Len(sent) < MaxItems
           /\ UNCHANGED <<arrived, pos, received, broken>>
      BY <1>3 DEF SendMessage, Write
    <2>11. item.end = item.start + STUN_HEADER_SIZE + m.size
      BY <1>1, <2>8
    <2>12. item.view.first = MessageType(method, class)
           /\ (Declared(item) => item.view.stun = "message")
      BY <2>1 DEF Declared, Message
    <2>13. Grows(item) /\ IsMessage(item)
      BY <2>1, <2>10, <2>11, <2>12 DEF Grows, IsMessage
    <2>14. Len(sent') = Len(sent) + 1 /\ Len(sent) \in Nat /\ MaxItems \in Nat
      BY <1>1, <2>9, <2>10, StreamAssumption
    <2> QED
      BY <2>9, <2>10, <2>13, <2>14
  <1> QED
    BY <1>2, <1>3 DEF Send

(* A step of the reader takes a whole item of what has arrived, or finds      *)
(* that there is none.                                                       *)
Takes(what, from, next) ==
    /\ received' = Append(received, [what |-> what, from |-> from])
    /\ pos' = next
    /\ broken' = broken

LEMMA HereViews ==
    ASSUME TypeOK, NEW v \in Here
    PROVE  v \in View
  <1>1. \A i \in 1 .. Len(sent) : sent[i].view \in View
    BY TypedIsTypeOK, SentItems
  <1> QED
    BY <1>1, StreamAssumption DEF Here

LEMMA ReadShape ==
    ASSUME TypeOK, Read
    PROVE  /\ UNCHANGED <<sent, arrived>>
           /\ \/ UNCHANGED <<pos, received>> /\ broken' = TRUE
              \/ \E what \in What, from \in Nat, next \in Nat :
                    /\ Takes(what, from, next)
                    /\ from + what.size <= arrived
                    /\ what.size \in Nat
                    /\ next <= arrived + 3
  <1>0. pos \in Nat /\ arrived \in Nat
    BY DEF TypeOK
  <1>1. PICK v \in Here : TakeFrame(v) \/ TakeMessage(v) \/ Break(v)
    BY DEF Read
  <1>2. v \in View
    BY HereViews
  <1>3. v.first \in UInt16 /\ v.second \in UInt16 /\ v.second \in Nat
    BY <1>2, UInt16Range DEF View
  <1>4. CASE TakeFrame(v)
    <2>1. /\ isValidChannel(v.first)
          /\ arrived - pos >= CHAN_HEADER_SIZE + v.second
      BY <1>4 DEF TakeFrame, FrameHere, CanDecode, Available
    <2>2. Takes(Frame(v.first, v.second), pos + CHAN_HEADER_SIZE,
                pos + totalSize(v.second)) /\ UNCHANGED <<sent, arrived>>
      BY <1>4 DEF TakeFrame, Take, Takes
    <2>3. Frame(v.first, v.second) \in What /\ Frame(v.first, v.second).size = v.second
      BY <1>3, <2>1 DEF Frame, What
    <2>4. /\ pos + CHAN_HEADER_SIZE \in Nat
          /\ pos + totalSize(v.second) \in Nat
          /\ pos + CHAN_HEADER_SIZE + v.second <= arrived
          /\ pos + totalSize(v.second) <= arrived + 3
      BY <1>0, <1>3, <2>1, FrameSizes
    <2> QED
      BY <1>3, <2>2, <2>3, <2>4
  <1>5. CASE TakeMessage(v)
    <2> DEFINE class == messageClass(v.first)
               what == Message(messageMethod(v.first), class, Roles(class), v.second)
    <2>1. arrived - pos >= STUN_HEADER_SIZE + v.second
      BY <1>5 DEF TakeMessage, MessageHere, Available
    <2>2. Takes(what, pos + STUN_HEADER_SIZE, pos + (STUN_HEADER_SIZE + v.second))
          /\ UNCHANGED <<sent, arrived>>
      BY <1>5 DEF TakeMessage, Take, Takes
    <2>3. class \in UInt16 /\ messageMethod(v.first) \in Nat
      BY <1>3, MessageTypeSplits
    <2>4. Roles(class) \in SUBSET {"request", "response", "indication"}
      BY DEF Roles
    <2>5. what \in What /\ what.size = v.second
      BY <1>3, <2>3, <2>4 DEF Message, What
    <2>6. /\ pos + STUN_HEADER_SIZE \in Nat
          /\ pos + (STUN_HEADER_SIZE + v.second) \in Nat
          /\ pos + STUN_HEADER_SIZE + v.second <= arrived
          /\ pos + (STUN_HEADER_SIZE + v.second) <= arrived + 3
      BY <1>0, <1>3, <2>1 DEF STUN_HEADER_SIZE
    <2> HIDE DEF what
    <2> QED
      BY <1>3, <2>2, <2>5, <2>6
  <1>6. CASE Break(v)
    BY <1>6 DEF Break
  <1> QED
    BY <1>1, <1>4, <1>5, <1>6

LEMMA ArriveShape ==
    ASSUME TypeOK, Arrive
    PROVE  /\ UNCHANGED <<sent, pos, received, broken>>
           /\ arrived' \in Nat /\ arrived < arrived' /\ arrived' <= Total
  <1>1. Typed /\ Total \in Nat
    BY TypedIsTypeOK, SentItems
  <1>2. /\ arrived' \in Cuts /\ arrived' > arrived
        /\ UNCHANGED <<sent, pos, received, broken>>
    BY DEF Arrive
  <1>3. ASSUME NEW i \in 1 .. Len(sent), NEW e \in Edges
        PROVE  sent[i].start + e \in Nat
    BY <1>1, SentItems, StreamAssumption
  <1>4. \A n \in Cuts : n \in Nat /\ n <= Total
    BY <1>1, <1>3 DEF Cuts
  <1> QED
    BY <1>2, <1>4 DEF TypeOK

-----------------------------------------------------------------------------
LEMMA InitTyped == Init => TypeOK
  <1> SUFFICES ASSUME Init PROVE Typed
    BY TypedIsTypeOK
  <1>1. sent = <<>> /\ arrived = 0 /\ pos = 0 /\ received = <<>> /\ broken = FALSE
    BY DEF Init
  <1>2. sent \in Seq(Item) /\ received \in Seq(Taken)
    BY <1>1
  <1>3. Len(sent) <= MaxItems
    BY <1>1, StreamAssumption
  <1> QED
    BY <1>1, <1>2, <1>3 DEF Typed

(* Only channels' numbers are ever sent or taken as such, and every variable   *)
(* stays in its range, for every set of payloads and messages                  *)
(* (ChannelData.hpp:55,82-84).                                                *)
THEOREM TypeCorrect == Spec => []TypeOK
  <1>1. Init => TypeOK
    BY InitTyped
  <1>2. TypeOK /\ [Next]_vars => TypeOK'
    <2>0. Typed' => TypeOK'
      BY DEF Typed, TypeOK, Item, Taken
    <2> SUFFICES ASSUME TypeOK, Typed, [Next]_vars
                 PROVE  Typed'
      BY <2>0, TypedIsTypeOK
    <2>1. CASE Send
      <3>1. PICK item \in Item : Grows(item)
        BY <2>1, SendShape
      <3>2. sent' \in Seq(Item)
        BY <3>1 DEF Typed, Grows
      <3> QED
        BY <2>1, <3>1, <3>2, SendShape DEF Typed, Grows
    <2>2. CASE Arrive
      BY <2>2, ArriveShape DEF Typed
    <2>3. CASE Read
      <3>1. CASE UNCHANGED <<pos, received>> /\ broken' = TRUE
        BY <2>3, <3>1, ReadShape DEF Typed
      <3>2. CASE \E what \in What, from \in Nat, next \in Nat : Takes(what, from, next)
        <4>1. PICK what \in What, from \in Nat, next \in Nat : Takes(what, from, next)
          BY <3>2
        <4>2. [what |-> what, from |-> from] \in Taken
          BY DEF Taken
        <4>3. received' \in Seq(Taken)
          BY <4>1, <4>2 DEF Takes, Typed
        <4> QED
          BY <2>3, <4>1, <4>3, ReadShape DEF Typed, Takes
      <3> QED
        BY <2>3, <3>1, <3>2, ReadShape
    <2>4. CASE UNCHANGED vars
      BY <2>4 DEF vars, Typed
    <2> QED
      BY <2>1, <2>2, <2>3, <2>4 DEF Next
  <1> QED
    BY <1>1, <1>2, PTL DEF Spec

-----------------------------------------------------------------------------
(* Whatever was sent, and however it was cut, nothing is handed out before    *)
(* its last byte has arrived (ChannelData.hpp:88, Decoder.cpp:43): a reader   *)
(* checks what it takes against what is there.                               *)
THEOREM TakenHasArrivedCorrect == Spec => []TakenHasArrived
  <1>1. Init => TakenHasArrived
    BY DEF Init, TakenHasArrived
  <1>2. TypeOK /\ TakenHasArrived /\ [Next]_vars => TakenHasArrived'
    <2> SUFFICES ASSUME TypeOK, TakenHasArrived, [Next]_vars
                 PROVE  TakenHasArrived'
      OBVIOUS
    <2>0. /\ arrived \in Nat /\ pos \in Nat /\ received \in Seq(Taken)
          /\ \A t \in Taken : t.from \in Nat /\ t.what.size \in Nat
      <3>1. arrived \in Nat /\ pos \in Nat /\ received \in Seq(Taken)
        BY TypedIsTypeOK DEF Typed
      <3>2. \A w \in What : w.size \in Nat
        BY DEF What
      <3> QED
        BY <3>1, <3>2 DEF Taken
    <2>1. CASE Send
      <3>1. UNCHANGED <<arrived, pos, received>>
        BY <2>1, SendShape DEF Grows
      <3> QED
        BY <3>1 DEF TakenHasArrived
    <2>2. CASE Arrive
      <3>1. UNCHANGED <<pos, received>> /\ arrived' \in Nat /\ arrived < arrived'
        BY <2>2, ArriveShape
      <3>2. \A i \in 1 .. Len(received) :
               received[i].from + received[i].what.size \in Nat
        BY <2>0
      <3>3. ASSUME NEW i \in 1 .. Len(received)
            PROVE  received[i].from + received[i].what.size <= arrived'
        <4>1. received[i].from + received[i].what.size <= arrived
          BY DEF TakenHasArrived
        <4> QED
          BY <2>0, <3>1, <3>2, <4>1
      <3>4. pos <= arrived' + 3
        <4>1. pos <= arrived + 3
          BY DEF TakenHasArrived
        <4>2. /\ pos \in Nat /\ arrived \in Nat /\ arrived' \in Nat
              /\ arrived < arrived'
          BY <2>0, <3>1
        <4>3. \A a, b, p \in Nat : p <= a + 3 /\ a < b => p <= b + 3
          OBVIOUS
        <4> QED
          BY <4>1, <4>2, <4>3, Zenon
      <3> QED
        BY <3>1, <3>3, <3>4 DEF TakenHasArrived
    <2>3. CASE Read
      <3>1. arrived' = arrived
        BY <2>3, ReadShape
      <3>2. CASE UNCHANGED <<pos, received>>
        BY <3>1, <3>2 DEF TakenHasArrived
      <3>3. CASE \E what \in What, from \in Nat, next \in Nat :
                    /\ Takes(what, from, next)
                    /\ from + what.size <= arrived
                    /\ what.size \in Nat
                    /\ next <= arrived + 3
        <4>1. PICK what \in What, from \in Nat, next \in Nat :
                    /\ Takes(what, from, next)
                    /\ from + what.size <= arrived
                    /\ next <= arrived + 3
          BY <3>3
        <4> DEFINE t == [what |-> what, from |-> from]
        <4>2. t \in Taken /\ t.from = from /\ t.what = what
          BY DEF Taken
        <4>3. received' = Append(received, t) /\ pos' = next
          BY <4>1 DEF Takes
        <4> HIDE DEF t
        <4>4. ASSUME NEW i \in 1 .. Len(received')
              PROVE  received'[i].from + received'[i].what.size <= arrived
          <5>1. CASE i = Len(received) + 1
            <6>1. received'[i] = t
              BY <2>0, <4>2, <4>3, <5>1
            <6> QED
              BY <4>1, <4>2, <6>1
          <5>2. CASE i \in 1 .. Len(received)
            BY <2>0, <4>2, <4>3, <5>2 DEF TakenHasArrived
          <5> QED
            BY <2>0, <4>2, <4>3, <5>1, <5>2
        <4> QED
          BY <3>1, <4>1, <4>3, <4>4 DEF TakenHasArrived
      <3> QED
        BY <2>3, <3>2, <3>3, ReadShape
    <2>4. CASE UNCHANGED vars
      BY <2>4 DEF vars, TakenHasArrived
    <2> QED
      BY <2>1, <2>2, <2>3, <2>4 DEF Next
  <1> QED
    BY <1>1, <1>2, TypeCorrect, PTL DEF Spec

-----------------------------------------------------------------------------
(* Why the reader stays in step: the items lie one behind the other, each      *)
(* beginning with what describes it, and no more arrives than was sent.        *)
Contiguous ==
    /\ \A i \in 1 .. Len(sent) : sent[i].start = EndOf(i - 1) /\ sent[i].end <= Total
    /\ \A i, j \in 1 .. Len(sent) : i < j => sent[i].end <= sent[j].start
Legible == \A i \in 1 .. Len(sent) : IsFrame(sent[i]) \/ IsMessage(sent[i])

StreamInv ==
    /\ TypeOK
    /\ Contiguous
    /\ Legible
    /\ arrived <= Total
    /\ InStep

(* What an item that is appended leaves as it was. *)
LEMMA Appended ==
    ASSUME TypeOK, NEW item \in Item, sent' = Append(sent, item)
    PROVE  /\ Len(sent) \in Nat /\ Len(sent') = Len(sent) + 1
           /\ \A i \in 1 .. Len(sent) : sent'[i] = sent[i]
           /\ sent'[Len(sent) + 1] = item
           /\ \A i \in 0 .. Len(sent) : EndOf(i)' = EndOf(i)
           /\ Total' = item.end
           /\ \A n : DeclaredUpTo(n)' => DeclaredUpTo(n)
  <1>1. sent \in Seq(Item)
    BY TypedIsTypeOK DEF Typed
  <1>2. /\ Len(sent) \in Nat /\ Len(sent') = Len(sent) + 1
        /\ \A i \in 1 .. Len(sent) : sent'[i] = sent[i]
        /\ sent'[Len(sent) + 1] = item
    BY <1>1
  <1>3. \A i \in 0 .. Len(sent) : EndOf(i)' = EndOf(i)
    BY <1>2 DEF EndOf
  <1>4. Total' = item.end
    BY <1>2 DEF Total, EndOf
  <1>5. \A n : DeclaredUpTo(n)' => DeclaredUpTo(n)
    <2>1. \A i \in 1 .. Len(sent) : i \in 1 .. Len(sent') /\ sent'[i] = sent[i]
      BY <1>2
    <2> QED
      BY <2>1 DEF DeclaredUpTo, Declared
  <1> QED
    BY <1>2, <1>3, <1>4, <1>5

(* A reader that met no wrong length took no more than was sent.               *)
LEMMA WithinSent ==
    ASSUME StreamInv, DeclaredUpTo(Len(received))
    PROVE  Len(received) \in 0 .. Len(sent)
  <1>1. Len(sent) \in Nat /\ Len(received) \in Nat
    BY TypedIsTypeOK DEF StreamInv, Typed
  <1>2. CASE Len(received) = 0
    BY <1>1, <1>2
  <1>3. CASE Len(received) # 0
    <2>1. Len(received) \in 1 .. Len(received)
      BY <1>1, <1>3
    <2>2. IsTheSent(Len(received))
      BY <2>1 DEF StreamInv, InStep
    <2> QED
      BY <1>1, <2>2 DEF IsTheSent
  <1> QED
    BY <1>2, <1>3

LEMMA UpToMonotone ==
    ASSUME NEW m \in Nat, Len(sent) \in Nat, DeclaredUpTo(m + 1)
    PROVE  DeclaredUpTo(m)
  BY DEF DeclaredUpTo

LEMMA SendKeeps ==
    ASSUME StreamInv, Send
    PROVE  Contiguous' /\ Legible' /\ (arrived <= Total)' /\ InStep'
  <1>1. PICK item \in Item : Grows(item) /\ (IsFrame(item) \/ IsMessage(item))
    BY SendShape DEF StreamInv
  <1>2. /\ sent' = Append(sent, item) /\ item.start = Total
        /\ UNCHANGED <<arrived, pos, received, broken>>
    BY <1>1 DEF Grows
  <1>3. /\ Len(sent) \in Nat /\ Len(sent') = Len(sent) + 1
        /\ \A i \in 1 .. Len(sent) : sent'[i] = sent[i]
        /\ sent'[Len(sent) + 1] = item
        /\ \A i \in 0 .. Len(sent) : EndOf(i)' = EndOf(i)
        /\ Total' = item.end
    BY <1>2, Appended DEF StreamInv
  <1>4. item.start \in Nat /\ item.end \in Nat /\ item.start <= item.end
    <2>1. item.start \in Nat /\ item.end \in Nat
      BY DEF Item
    <2>2. item.start + 4 <= item.end
      BY <1>1, Described DEF CHAN_HEADER_SIZE
    <2> QED
      BY <2>1, <2>2
  <1>5. Total \in Nat /\ arrived \in Nat
        /\ \A i \in 1 .. Len(sent) : sent[i].start \in Nat /\ sent[i].end \in Nat
    BY TypedIsTypeOK, SentItems DEF StreamInv, TypeOK
  <1>6. (arrived <= Total)'
    BY <1>2, <1>3, <1>4, <1>5 DEF StreamInv
  <1>7. Contiguous'
    <2>1. ASSUME NEW i \in 1 .. Len(sent')
          PROVE  sent'[i].start = EndOf(i - 1)' /\ sent'[i].end <= Total'
      <3>1. CASE i \in 1 .. Len(sent)
        <4>1. sent[i].start = EndOf(i - 1) /\ sent[i].end <= Total
          BY <3>1 DEF StreamInv, Contiguous
        <4>2. sent[i].end <= item.end
          BY <1>2, <1>4, <1>5, <3>1, <4>1
        <4>3. i - 1 \in 0 .. Len(sent)
          BY <1>3, <3>1
        <4> QED
          BY <1>3, <3>1, <4>1, <4>2, <4>3
      <3>2. CASE i = Len(sent) + 1
        <4>1. sent'[i] = item /\ i - 1 = Len(sent) /\ Len(sent) \in 0 .. Len(sent)
          BY <1>3, <3>2
        <4>2. EndOf(i - 1)' = Total
          BY <1>3, <4>1 DEF Total
        <4> QED
          BY <1>2, <1>3, <1>4, <4>1, <4>2
      <3> QED
        BY <1>3, <3>1, <3>2
    <2>2. ASSUME NEW i \in 1 .. Len(sent'), NEW j \in 1 .. Len(sent'), i < j
          PROVE  sent'[i].end <= sent'[j].start
      <3>1. i \in 1 .. Len(sent)
        BY <1>3, <2>2
      <3>2. CASE j \in 1 .. Len(sent)
        BY <1>3, <2>2, <3>1, <3>2 DEF StreamInv, Contiguous
      <3>3. CASE j = Len(sent) + 1
        <4>1. sent[i].end <= Total
          BY <3>1 DEF StreamInv, Contiguous
        <4> QED
          BY <1>2, <1>3, <3>1, <3>3, <4>1
      <3> QED
        BY <1>3, <3>2, <3>3
    <2> QED
      BY <2>1, <2>2 DEF Contiguous
  <1>8. Legible'
    <2>1. ASSUME NEW i \in 1 .. Len(sent')
          PROVE  IsFrame(sent'[i]) \/ IsMessage(sent'[i])
      <3>1. CASE i \in 1 .. Len(sent)
        BY <1>3, <3>1 DEF StreamInv, Legible
      <3>2. CASE i = Len(sent) + 1
        BY <1>1, <1>3, <3>2
      <3> QED
        BY <1>3, <3>1, <3>2
    <2> QED
      BY <2>1 DEF Legible, IsFrame, IsMessage, Declared
  <1>9. InStep'
    <2>0. \A n : DeclaredUpTo(n)' => DeclaredUpTo(n)
      BY <1>2, Appended DEF StreamInv
    <2>1. Len(received) \in Nat
      BY TypedIsTypeOK DEF StreamInv, Typed
    <2>2. ASSUME NEW i \in 1 .. Len(received), DeclaredUpTo(i)'
          PROVE  IsTheSent(i)'
      <3>1. IsTheSent(i)
        BY <2>0, <2>2 DEF StreamInv, InStep
      <3>2. i \in 1 .. Len(sent) /\ i <= Len(sent')
        BY <1>3, <2>1, <3>1 DEF IsTheSent
      <3> QED
        BY <1>2, <1>3, <3>1, <3>2 DEF IsTheSent
    <2>3. ASSUME DeclaredUpTo(Len(received))'
          PROVE  pos = EndOf(Len(received))'
      <3>1. DeclaredUpTo(Len(received))
        BY <1>2, <2>0, <2>3
      <3>2. Len(received) \in 0 .. Len(sent)
        BY <3>1, WithinSent
      <3>3. pos = EndOf(Len(received))
        BY <3>1 DEF StreamInv, InStep
      <3> QED
        BY <1>2, <1>3, <3>2, <3>3
    <2>4. broken' => ~DeclaredUpTo(Len(received) + 1)'
      <3>1. broken => ~DeclaredUpTo(Len(received) + 1)
        BY DEF StreamInv, InStep
      <3> QED
        BY <1>2, <2>0, <3>1
    <2> QED
      BY <1>2, <2>2, <2>3, <2>4 DEF InStep
  <1> QED
    BY <1>6, <1>7, <1>8, <1>9

(* A reader in step that reads at all is at the start of the next item, which   *)
(* is the only one to start there.                                           *)
LEMMA AtNextItem ==
    ASSUME StreamInv, DeclaredUpTo(Len(received)), NEW v \in Here, Available >= 1
    PROVE  /\ Len(received) + 1 \in 1 .. Len(sent)
           /\ v = sent[Len(received) + 1].view
           /\ pos = sent[Len(received) + 1].start
  <1> DEFINE k == Len(received) + 1
  <1>1. /\ Len(sent) \in Nat /\ Len(received) \in Nat /\ arrived \in Nat
        /\ Total \in Nat /\ pos \in Nat
        /\ \A i \in 1 .. Len(sent) :
              /\ sent[i] \in Item
              /\ sent[i].start \in Nat /\ sent[i].end \in Nat
    BY TypedIsTypeOK, SentItems DEF StreamInv, Typed
  <1>2. Len(received) <= Len(sent) /\ pos = EndOf(Len(received))
    BY <1>1, WithinSent DEF StreamInv, InStep
  <1>3. Len(received) # Len(sent)
    <2> SUFFICES ASSUME Len(received) = Len(sent)
                 PROVE  FALSE
      OBVIOUS
    <2>1. pos = Total
      BY <1>2 DEF Total
    <2>2. arrived <= Total /\ arrived - pos >= 1
      BY DEF StreamInv, Available
    <2> QED
      BY <1>1, <2>1, <2>2
  <1>4. k \in 1 .. Len(sent) /\ k - 1 = Len(received)
    BY <1>1, <1>2, <1>3
  <1>5. pos = sent[k].start
    BY <1>2, <1>4 DEF StreamInv, Contiguous
  <1>6. ASSUME NEW i \in 1 .. Len(sent), sent[i].start = pos
        PROVE  i = k
    <2>1. \A j \in 1 .. Len(sent) : sent[j].start < sent[j].end
      <3>1. ASSUME NEW j \in 1 .. Len(sent)
            PROVE  sent[j].start < sent[j].end
        <4>1. sent[j].start + 4 <= sent[j].end
          BY <1>1, Described DEF StreamInv, Legible, CHAN_HEADER_SIZE
        <4> QED
          BY <1>1, <4>1
      <3> QED
        BY <3>1
    <2>2. CASE i < k
      <3>1. sent[i].end <= sent[k].start /\ sent[i].start < sent[i].end
        BY <1>4, <2>1, <2>2 DEF StreamInv, Contiguous
      <3> QED
        BY <1>1, <1>4, <1>5, <1>6, <3>1
    <2>3. CASE k < i
      <3>1. sent[k].end <= sent[i].start /\ sent[k].start < sent[k].end
        BY <1>4, <2>1, <2>3 DEF StreamInv, Contiguous
      <3> QED
        BY <1>1, <1>4, <1>5, <1>6, <3>1
    <2>4. i \in Int /\ k \in Int
      BY <1>1
    <2> QED
      BY <2>2, <2>3, <2>4
  <1> HIDE DEF k
  <1>7. {i \in 1 .. Len(sent) : sent[i].start = pos} = {k}
    BY <1>4, <1>5, <1>6
  <1>8. v = sent[k].view
    BY <1>7 DEF Here
  <1> QED
    BY <1>4, <1>5, <1>8 DEF k

(* What is read at the start of an item is that item. *)
Reads(item) ==
    /\ Takes(item.what, item.start + (IF item.what.kind = "frame"
                                      THEN CHAN_HEADER_SIZE ELSE STUN_HEADER_SIZE),
             item.end)
    /\ UNCHANGED <<sent, arrived>>

LEMMA ReadsFrame ==
    ASSUME StreamInv, NEW item \in Item, IsFrame(item), pos = item.start,
           Declared(item), NEW v, v = item.view,
           TakeFrame(v) \/ TakeMessage(v) \/ Break(v)
    PROVE  Reads(item)
  <1>1. PICK channel \in UInt16, n \in Nat :
            /\ isValidChannel(channel)
            /\ item.what = Frame(channel, n)
            /\ item.end = item.start + totalSize(n)
            /\ item.view.first = channel
            /\ item.view.second = LengthWritten(n)
    BY DEF IsFrame
  <1>2. item.what.kind = "frame" /\ item.what.size = n
    BY <1>1 DEF Frame
  <1>3. v.first = channel /\ v.second = n
    BY <1>1, <1>2 DEF Declared
  <1>4. ~HeaderHere(v)
    <2> SUFFICES ASSUME Available >= STUN_HEADER_SIZE
                 PROVE  isChannelData(v.first, Available)
      BY DEF HeaderHere
    <2>1. Available \in Int
      BY TypedIsTypeOK DEF StreamInv, Typed, Available
    <2>2. Available >= 2
      BY <2>1 DEF STUN_HEADER_SIZE
    <2> QED
      BY <1>1, <1>3, <2>2 DEF isChannelData
  <1>5. TakeFrame(v)
    BY <1>4 DEF TakeMessage, Break, MessageHere
  <1>6. /\ Take(Frame(channel, n), pos + CHAN_HEADER_SIZE, totalSize(n))
    BY <1>3, <1>5 DEF TakeFrame
  <1> QED
    BY <1>1, <1>2, <1>6 DEF Take, Takes, Reads

LEMMA ReadsMessage ==
    ASSUME StreamInv, NEW item \in Item, IsMessage(item), pos = item.start,
           Declared(item), NEW v, v = item.view,
           TakeFrame(v) \/ TakeMessage(v) \/ Break(v)
    PROVE  Reads(item)
  <1>1. PICK method \in StunMethod, class \in DOMAIN StunClass, n \in Nat :
            /\ item.what = Message(method, StunClass[class], RolesOf[class], n)
            /\ item.end = item.start + STUN_HEADER_SIZE + n
            /\ item.view.first = MessageType(method, class)
            /\ item.view.stun = "message"
    BY DEF IsMessage
  <1>2. item.what.kind = "message" /\ item.what.size = n
    BY <1>1 DEF Message
  <1>3. v.first = MessageType(method, class) /\ v.second = n /\ v.stun = "message"
    BY <1>1, <1>2 DEF Declared
  <1>4. ~isValidChannel(v.first)
    BY <1>3, MessageTypeReadBack DEF isValidChannel
  <1>5. TakeMessage(v)
    BY <1>3, <1>4 DEF TakeFrame, FrameHere, Break, MessageHere, isChannelData
  <1>6. messageClass(v.first) = StunClass[class] /\ messageMethod(v.first) = method
    BY <1>3, MessageTypeReadBack
  <1>7. Roles(StunClass[class]) = RolesOf[class]
    <2>1. /\ is_request(StunClass[class]) <=> class = "Request"
          /\ is_indication(StunClass[class]) <=> class = "Indication"
          /\ is_response(StunClass[class]) <=> class \in {"SuccessResp", "ErrorResp"}
      BY OnePredicateOfAClass DEF StunClass
    <2>2. class \in {"Request", "Indication", "SuccessResp", "ErrorResp"}
      BY DEF StunClass
    <2> QED
      BY <2>1, <2>2 DEF Roles, RolesOf
  <1>8. Take(item.what, pos + STUN_HEADER_SIZE, STUN_HEADER_SIZE + n)
    BY <1>1, <1>3, <1>5, <1>6, <1>7 DEF TakeMessage
  <1>9. pos + (STUN_HEADER_SIZE + n) = item.end
    <2>1. pos \in Nat /\ n \in Nat
      BY TypedIsTypeOK DEF StreamInv, Typed
    <2> QED
      BY <1>1, <2>1 DEF STUN_HEADER_SIZE
  <1> QED
    BY <1>2, <1>8, <1>9 DEF Take, Takes, Reads

LEMMA ReadKeeps ==
    ASSUME StreamInv, Read
    PROVE  Contiguous' /\ Legible' /\ (arrived <= Total)' /\ InStep'
  <1>1. UNCHANGED <<sent, arrived>>
    BY ReadShape DEF StreamInv
  <1>2. Contiguous' /\ Legible' /\ (arrived <= Total)'
    BY <1>1 DEF StreamInv, Contiguous, Legible, IsFrame, IsMessage, Declared, Total, EndOf
  <1>3. /\ \A n : DeclaredUpTo(n)' <=> DeclaredUpTo(n)
        /\ \A i : EndOf(i)' = EndOf(i)
    BY <1>1 DEF DeclaredUpTo, Declared, EndOf
  <1>4. received \in Seq(Taken) /\ Len(received) \in Nat /\ Len(sent) \in Nat
    BY TypedIsTypeOK DEF StreamInv, Typed
  <1>0. PICK k \in Nat : k = Len(received) + 1
    BY <1>4
  <1>5. CASE UNCHANGED <<pos, received>> /\ broken' = TRUE /\ ~DeclaredUpTo(k)
    <2>1. \A i \in 1 .. Len(received) : IsTheSent(i)' <=> IsTheSent(i)
      BY <1>1, <1>5 DEF IsTheSent
    <2>2. ASSUME NEW i \in 1 .. Len(received), DeclaredUpTo(i)
          PROVE  IsTheSent(i)'
      BY <2>1, <2>2 DEF StreamInv, InStep
    <2>3. DeclaredUpTo(Len(received)) => pos = EndOf(Len(received))
      BY DEF StreamInv, InStep
    <2> QED
      BY <1>0, <1>2, <1>3, <1>5, <2>2, <2>3 DEF InStep
  <1>6. CASE /\ \E t \in Taken : received' = Append(received, t)
             /\ DeclaredUpTo(k) =>
                   /\ IsTheSent(k)'
                   /\ pos' = EndOf(k)
                   /\ broken' = FALSE
    <2>1. /\ Len(received') = k
          /\ \A i \in 1 .. Len(received) : received'[i] = received[i]
      BY <1>0, <1>4, <1>6
    <2>2. ASSUME NEW i \in 1 .. k, DeclaredUpTo(i)
          PROVE  IsTheSent(i)'
      <3>1. CASE i \in 1 .. Len(received)
        BY <1>1, <2>1, <2>2, <3>1 DEF StreamInv, InStep, IsTheSent
      <3>2. CASE i = k
        BY <1>6, <2>2, <3>2
      <3> QED
        BY <1>0, <1>4, <3>1, <3>2
    <2>3. DeclaredUpTo(k + 1) => DeclaredUpTo(k)
      BY <1>4, UpToMonotone
    <2> QED
      BY <1>2, <1>3, <1>6, <2>1, <2>2, <2>3 DEF InStep
  <1>7. PICK v \in Here : TakeFrame(v) \/ TakeMessage(v) \/ Break(v)
    BY DEF Read
  <1>8. Available >= 1
    <2>1. Available \in Int
      BY TypedIsTypeOK DEF StreamInv, Typed, Available
    <2>2. CASE TakeFrame(v)
      BY <2>1, <2>2 DEF TakeFrame, FrameHere, isChannelData
    <2>3. CASE TakeMessage(v) \/ Break(v)
      <3>1. Available >= STUN_HEADER_SIZE
        BY <2>3 DEF TakeMessage, Break, MessageHere, HeaderHere
      <3> QED
        BY <2>1, <3>1 DEF STUN_HEADER_SIZE
    <2> QED
      BY <1>7, <2>2, <2>3
  <1>9. broken = FALSE
    <2>1. broken \in BOOLEAN
      BY DEF StreamInv, TypeOK
    <2> QED
      BY <1>7, <2>1 DEF TakeFrame, FrameHere, TakeMessage, Break, MessageHere, HeaderHere
  <1>10. CASE ~DeclaredUpTo(k)
    <2>1. \/ UNCHANGED <<pos, received>> /\ broken' = TRUE
          \/ \E what \in What, from \in Nat, next \in Nat : Takes(what, from, next)
      BY ReadShape DEF StreamInv
    <2>2. CASE \E what \in What, from \in Nat, next \in Nat : Takes(what, from, next)
      <3>1. PICK what \in What, from \in Nat, next \in Nat : Takes(what, from, next)
        BY <2>2
      <3>2. [what |-> what, from |-> from] \in Taken
        BY DEF Taken
      <3>3. \E t \in Taken : received' = Append(received, t)
        BY <3>1, <3>2 DEF Takes
      <3> QED
        BY <1>2, <1>6, <1>10, <3>3
    <2> QED
      BY <1>2, <1>5, <1>10, <2>1, <2>2
  <1>11. CASE DeclaredUpTo(k)
    <2>1. DeclaredUpTo(Len(received))
      BY <1>0, <1>4, <1>11, UpToMonotone
    <2>2. k \in 1 .. Len(sent) /\ v = sent[k].view /\ pos = sent[k].start
      BY <1>0, <1>8, <2>1, AtNextItem
    <2>3. k # 0 /\ k <= Len(sent)
      BY <1>4, <2>2
    <2>4. sent[k] \in Item /\ Declared(sent[k])
      BY <1>11, <2>2, <2>3, TypedIsTypeOK, SentItems DEF StreamInv, DeclaredUpTo
    <2>5. Reads(sent[k])
      BY <1>7, <2>2, <2>4, ReadsFrame, ReadsMessage DEF StreamInv, Legible
    <2> DEFINE from == sent[k].start + (IF sent[k].what.kind = "frame"
                                        THEN CHAN_HEADER_SIZE ELSE STUN_HEADER_SIZE)
               t == [what |-> sent[k].what, from |-> from]
    <2>6. received' = Append(received, t) /\ pos' = sent[k].end /\ broken' = broken
      BY <2>5 DEF Reads, Takes
    <2>7. t \in Taken
      BY <2>4 DEF Taken, Item, CHAN_HEADER_SIZE, STUN_HEADER_SIZE
    <2>8. received'[k] = t
      BY <1>0, <1>4, <2>6, <2>7
    <2>9. IsTheSent(k)'
      <3>1. received'[k].what = sent'[k].what /\ received'[k].from = from
        BY <1>1, <2>8
      <3>2. sent' = sent
        BY <1>1
      <3> QED
        BY <2>3, <3>1, <3>2 DEF IsTheSent
    <2>10. pos' = EndOf(k)
      BY <2>3, <2>6 DEF EndOf
    <2>11. \E u \in Taken : received' = Append(received, u)
      BY <2>6, <2>7
    <2> HIDE DEF t
    <2> QED
      BY <1>2, <1>6, <1>9, <2>6, <2>9, <2>10, <2>11
  <1> QED
    BY <1>10, <1>11

LEMMA StreamInvariant == Spec => []StreamInv
  <1>1. Init => StreamInv
    <2> SUFFICES ASSUME Init
                 PROVE  StreamInv
      OBVIOUS
    <2>1. TypeOK
      BY InitTyped
    <2>2. /\ sent = <<>> /\ arrived = 0 /\ pos = 0 /\ received = <<>> /\ broken = FALSE
          /\ Len(sent) = 0 /\ Len(received) = 0
      BY DEF Init
    <2>3. \A i \in 1 .. Len(sent) : FALSE
      BY <2>2
    <2>4. Contiguous /\ Legible
      BY <2>3 DEF Contiguous, Legible
    <2>5. arrived <= Total
      BY <2>2 DEF Total, EndOf
    <2>6. InStep
      BY <2>2 DEF InStep, EndOf
    <2> QED
      BY <2>1, <2>4, <2>5, <2>6 DEF StreamInv
  <1>2. StreamInv /\ TypeOK' /\ [Next]_vars => StreamInv'
    <2> SUFFICES ASSUME StreamInv, TypeOK', [Next]_vars
                 PROVE  StreamInv'
      OBVIOUS
    <2>1. CASE Send
      BY <2>1, SendKeeps DEF StreamInv
    <2>2. CASE Arrive
      <3>1. UNCHANGED <<sent, pos, received, broken>> /\ arrived' <= Total
        BY <2>2, ArriveShape DEF StreamInv
      <3>2. Contiguous' /\ Legible' /\ InStep'
        BY <3>1 DEF StreamInv, Contiguous, Legible, IsFrame, IsMessage, InStep,
                    IsTheSent, DeclaredUpTo, Declared, Total, EndOf
      <3>3. (arrived <= Total)'
        BY <3>1 DEF Total, EndOf
      <3> QED
        BY <3>2, <3>3 DEF StreamInv
    <2>3. CASE Read
      BY <2>3, ReadKeeps DEF StreamInv
    <2>4. CASE UNCHANGED vars
      BY <2>4 DEF vars, StreamInv, Contiguous, Legible, IsFrame, IsMessage, InStep,
                  IsTheSent, DeclaredUpTo, Declared, Total, EndOf
    <2> QED
      BY <2>1, <2>2, <2>3, <2>4 DEF Next
  <1> QED
    BY <1>1, <1>2, TypeCorrect, PTL DEF Spec

(* The reader is in step with the writer up to the first wrong length field,    *)
(* for every stream of frames and messages, cut anywhere, those with            *)
(* attributes behind their last seal included                                  *)
(* (ChannelData.hpp:47-49,62,81-94,100-105, Encoder.cpp:56-60,                 *)
(* Decoder.cpp:77-83).                                                       *)
THEOREM InStepCorrect == Spec => []InStep
  <1>1. StreamInv => InStep
    BY DEF StreamInv
  <1> QED
    BY <1>1, StreamInvariant, PTL

-----------------------------------------------------------------------------
(* At the start of an item of which all has arrived, the reader's guards hold. *)
LEMMA WholeFrame ==
    ASSUME StreamInv, NEW item \in Item, IsFrame(item), pos = item.start,
           Declared(item), item.end <= arrived, ~broken
    PROVE  FrameHere(item.view)
  <1>1. PICK channel \in UInt16, n \in Nat :
            /\ isValidChannel(channel)
            /\ item.what = Frame(channel, n)
            /\ item.end = item.start + totalSize(n)
            /\ item.view.first = channel
            /\ item.view.second = LengthWritten(n)
    BY DEF IsFrame
  <1>2. item.what.size = n
    BY <1>1 DEF Frame
  <1>3. item.view.second = n
    BY <1>2 DEF Declared
  <1>4. pos \in Nat /\ arrived \in Nat
    BY DEF StreamInv, TypeOK
  <1>5. Available >= CHAN_HEADER_SIZE + n /\ Available >= CHAN_HEADER_SIZE
    BY <1>1, <1>4, FrameSizes DEF Available
  <1>6. Available \in Int /\ Available >= 2
    BY <1>4, <1>5, FrameSizes DEF Available
  <1> QED
    BY <1>1, <1>3, <1>5, <1>6 DEF FrameHere, isChannelData, CanDecode

LEMMA WholeMessage ==
    ASSUME StreamInv, NEW item \in Item, IsMessage(item), pos = item.start,
           Declared(item), item.end <= arrived, ~broken
    PROVE  MessageHere(item.view) /\ item.view.stun = "message"
  <1>1. PICK method \in StunMethod, class \in DOMAIN StunClass, n \in Nat :
            /\ item.what.size = n
            /\ item.end = item.start + STUN_HEADER_SIZE + n
            /\ item.view.first = MessageType(method, class)
            /\ item.view.second = n
            /\ item.view.stun = "message"
    BY DEF IsMessage, Declared, Message
  <1>2. pos \in Nat /\ arrived \in Nat
    BY DEF StreamInv, TypeOK
  <1>3. Available >= STUN_HEADER_SIZE + n /\ Available >= STUN_HEADER_SIZE
    BY <1>1, <1>2 DEF Available, STUN_HEADER_SIZE
  <1>4. ~isChannelData(item.view.first, Available)
    BY <1>1, MessageTypeReadBack DEF isChannelData, isValidChannel
  <1> QED
    BY <1>1, <1>3, <1>4 DEF MessageHere, HeaderHere

(* No frame or message waits for bytes of the next: behind items whose length   *)
(* fields are right, a reader can take one as soon as its last byte is there,   *)
(* for every stream and however it is cut                                      *)
(* (ChannelData.hpp:88,100-105, Decoder.cpp:11,43).                            *)
THEOREM WholeIsTakenCorrect == Spec => []WholeIsTaken
  <1>1. StreamInv => WholeIsTaken
    <2> DEFINE k == Len(received) + 1
    <2> SUFFICES ASSUME StreamInv, DeclaredUpTo(k), Len(received) < Len(sent),
                        EndOf(k) <= arrived
                 PROVE  \E v \in Here :
                            FrameHere(v) \/ (MessageHere(v) /\ v.stun = "message")
      BY DEF WholeIsTaken
    <2>1. Len(sent) \in Nat /\ Len(received) \in Nat
      BY TypedIsTypeOK DEF StreamInv, Typed
    <2>2. k \in 1 .. Len(sent) /\ k - 1 = Len(received) /\ k # 0 /\ k <= Len(sent)
      BY <2>1
    <2>3. pos = EndOf(Len(received)) /\ ~broken
      BY <2>1, UpToMonotone DEF StreamInv, InStep
    <2>4. pos = sent[k].start
      BY <2>2, <2>3 DEF StreamInv, Contiguous
    <2>5. sent[k].end <= arrived
      BY <2>2 DEF EndOf
    <2>6. sent[k] \in Item /\ Declared(sent[k])
      BY <2>2, TypedIsTypeOK, SentItems DEF StreamInv, DeclaredUpTo
    <2>7. sent[k].view \in Here
      BY <2>2, <2>4 DEF Here
    <2>8. IsFrame(sent[k]) \/ IsMessage(sent[k])
      BY <2>2 DEF StreamInv, Legible
    <2> HIDE DEF k
    <2> QED
      BY <2>3, <2>4, <2>5, <2>6, <2>7, <2>8, WholeFrame, WholeMessage
  <1> QED
    BY <1>1, StreamInvariant, PTL
=============================================================================

------------------------------- MODULE Stream -------------------------------
(***************************************************************************)
(* A connection between a TURN client and its server, both using the library: *)
(* one end writes ChannelData frames and STUN messages into a byte stream,    *)
(* the bytes arrive in pieces of any size, and the other end takes frames and *)
(* messages from whatever has arrived.                                       *)
(*                                                                         *)
(* The stream is abstracted to what a reader can tell apart: where each frame *)
(* or message starts, what its first bytes read as, and, for every position   *)
(* at which none starts, that it reads as anything the payloads may hold.     *)
(***************************************************************************)
EXTENDS ChannelData, Sequences

CONSTANTS
    Channels,    \* the channel numbers of frames
    Payloads,    \* the payloads of frames: [size, stun], where stun is what a
                 \* parser of messages would say of the frame
    Rooms,       \* the sizes of the buffers that frames are encoded into
    Methods,     \* the methods of messages
    Messages,    \* what follows their headers: [size, length, stun], where
                 \* size is totalSize() of the finalized encoder less the
                 \* header, length what that header declares, and stun what a
                 \* parser says of the bytes it declares
    Inside,      \* what positions inside a frame or message may read as
    Edges,       \* where pieces may end: so far behind the start of an item,
    MaxItems     \* or at its end; and how many items are sent

(* What parseHeader() and parse() make of some bytes: no cookie, attributes    *)
(* that do not fit, or a message; and their first two 16-bit fields.           *)
View == [stun : {"no", "malformed", "message"}, first : UInt16, second : UInt16]

ASSUME StreamAssumption ==
    /\ Channels \subseteq UInt16
    /\ Payloads \subseteq [size : Nat, stun : {"no", "malformed", "message"}]
    /\ Rooms \subseteq Nat
    /\ Methods \subseteq StunMethod
    /\ Messages \subseteq
          {m \in [size : Nat, length : UInt16, stun : {"malformed", "message"}] :
              m.length = m.size => m.stun = "message"}
    /\ Inside \subseteq View
    /\ Edges \subseteq Nat
    /\ MaxItems \in Nat

VARIABLES
    sent,       \* the frames and messages in the stream, in order
    arrived,    \* how many bytes of it have arrived
    pos,        \* the reader's place in it
    received,   \* what the reader took, in order
    broken      \* the reader found bytes that start neither frame nor message

vars == <<sent, arrived, pos, received, broken>>

(* A frame is known by its channel and the size of its payload, a message by   *)
(* its method, its class and the predicates that hold of it.                  *)
Frame(channel, size) == [size |-> size, channel |-> channel, kind |-> "frame"]
Message(method, class, roles, size) ==
    [size |-> size, kind |-> "message", method |-> method, class |-> class,
     roles |-> roles]

What == [size : Nat, channel : {c \in UInt16 : isValidChannel(c)}, kind : {"frame"}]
        \cup [size : Nat, kind : {"message"}, method : Nat, class : UInt16,
              roles : SUBSET {"request", "response", "indication"}]

(* Every variable in its range; no frame with a number that is not a channel's *)
(* is ever sent or taken.                                                    *)
TypeOK ==
    /\ sent \in Seq([what : What, start : Nat, end : Nat, view : View])
    /\ Len(sent) <= MaxItems
    /\ arrived \in Nat
    /\ pos \in Nat
    /\ received \in Seq([what : What, from : Nat])
    /\ broken \in BOOLEAN

-----------------------------------------------------------------------------
(* The end of the i-th item, and of the stream. *)
EndOf(i) == IF i = 0 THEN 0 ELSE sent[i].end
Total == EndOf(Len(sent))

Init ==
    /\ sent = <<>>
    /\ arrived = 0
    /\ pos = 0
    /\ received = <<>>
    /\ broken = FALSE

(* bytes of the stream, which read as view at their start *)
Write(what, view, bytes) ==
    /\ Len(sent) < MaxItems
    /\ sent' = Append(sent, [what |-> what, start |-> Total,
                             end |-> Total + bytes, view |-> view])
    /\ UNCHANGED <<arrived, pos, received, broken>>

(* encode() of a frame, and its totalSize() bytes sent; a frame that is       *)
(* refused is not sent.                                                      *)
SendFrame(channel, payload, room) ==
    /\ CanEncode(channel, payload.size, room)
    /\ Write(Frame(channel, payload.size),
             [stun |-> payload.stun, first |-> channel,
              second |-> LengthWritten(payload.size)],
             totalSize(payload.size))

(* A message that a builder made for a method and class, and finalize() left   *)
(* with the length it found if the message was sealed: the caller sends        *)
(* totalSize() bytes, whatever the header declares.                          *)
RolesOf == [Request |-> {"request"}, Indication |-> {"indication"},
            SuccessResp |-> {"response"}, ErrorResp |-> {"response"}]

SendMessage(method, class, m) ==
    Write(Message(method, StunClass[class], RolesOf[class], m.size),
          [stun |-> m.stun, first |-> MessageType(method, class), second |-> m.length],
          STUN_HEADER_SIZE + m.size)

(* Some more of the bytes that were sent. *)
Cuts == {Total} \cup
        {n \in {sent[i].start + e : i \in 1 .. Len(sent), e \in Edges} : n <= Total}
Arrive ==
    /\ arrived' \in {n \in Cuts : n > arrived}
    /\ UNCHANGED <<sent, pos, received, broken>>

(* What the bytes at the reader's place may read as, and how many are there. *)
Here ==
    LET starting == {i \in 1 .. Len(sent) : sent[i].start = pos}
    IN  IF starting = {} THEN Inside ELSE {sent[i].view : i \in starting}
Available == arrived - pos

Take(what, from, bytes) ==
    /\ received' = Append(received, [what |-> what, from |-> from])
    /\ pos' = pos + bytes
    /\ UNCHANGED <<sent, arrived, broken>>

(* isChannelData() and decode(): the payload is a view of the reader's bytes, *)
(* and totalSize() of the object is how far the reader moves, even if some of  *)
(* the padding is still to arrive.                                           *)
FrameHere(v) ==
    /\ ~broken
    /\ isChannelData(v.first, Available)
    /\ CanDecode(v.first, v.second, Available)

TakeFrame(v) ==
    /\ FrameHere(v)
    /\ Take(Frame(v.first, v.second), pos + CHAN_HEADER_SIZE, totalSize(v.second))

(* parseHeader() of what is not ChannelData, and parse() as soon as the bytes  *)
(* it declares are there.                                                    *)
Roles(class) ==
    {r \in {"request", "response", "indication"} :
        \/ r = "request" /\ is_request(class)
        \/ r = "response" /\ is_response(class)
        \/ r = "indication" /\ is_indication(class)}

HeaderHere(v) ==
    ~broken /\ ~isChannelData(v.first, Available) /\ Available >= STUN_HEADER_SIZE

MessageHere(v) ==
    HeaderHere(v) /\ v.stun # "no" /\ Available >= STUN_HEADER_SIZE + v.second

TakeMessage(v) ==
    /\ MessageHere(v)
    /\ v.stun = "message"
    /\ LET class == messageClass(v.first) IN
       Take(Message(messageMethod(v.first), class, Roles(class), v.second),
            pos + STUN_HEADER_SIZE, STUN_HEADER_SIZE + v.second)

(* parseHeader() returns nothing although a header's bytes are there, or       *)
(* parse() although all of the message's are.                                *)
Break(v) ==
    /\ \/ HeaderHere(v) /\ v.stun = "no"
       \/ MessageHere(v) /\ v.stun = "malformed"
    /\ broken' = TRUE
    /\ UNCHANGED <<sent, arrived, pos, received>>

Send ==
    \/ \E channel \in Channels, payload \in Payloads, room \in Rooms :
          SendFrame(channel, payload, room)
    \/ \E method \in Methods, class \in DOMAIN StunClass, m \in Messages :
          SendMessage(method, class, m)

Read == \E v \in Here : TakeFrame(v) \/ TakeMessage(v) \/ Break(v)

Next == Send \/ Arrive \/ Read

(* What was sent arrives, and the reader reads what has arrived; nothing       *)
(* obliges anyone to send.                                                   *)
Spec == Init /\ [][Next]_vars /\ WF_vars(Arrive) /\ WF_vars(Read)

-----------------------------------------------------------------------------
(* The length field of a frame or message is the size of what follows, and so  *)
(* are those of the first n.                                                 *)
Declared(item) == item.view.second = item.what.size
DeclaredUpTo(n) == \A i \in 1 .. Len(sent) : i <= n => Declared(sent[i])

(* The i-th thing taken is the i-th sent, where its bytes are. *)
IsTheSent(i) ==
    /\ i <= Len(sent)
    /\ received[i].what = sent[i].what
    /\ received[i].from = sent[i].start +
          (IF sent[i].what.kind = "frame" THEN CHAN_HEADER_SIZE ELSE STUN_HEADER_SIZE)

(* The reader stays in step: it is always at the end of what it took, which is *)
(* what was sent, in the same order, frames as frames and messages as          *)
(* messages, each where its bytes are, however the stream was cut, and it       *)
(* never finds bytes that are neither.  Only an item whose length field is not  *)
(* the size of what follows brings it out of step, and only from there on: a    *)
(* payload of more than 65535 bytes, or a message whose header finalize() left   *)
(* as the last seal wrote it although attributes were added behind the seal     *)
(* (ChannelData.hpp:47-49,62,81-94,100-105, Encoder.cpp:56-60,                 *)
(* Decoder.cpp:77-83).                                                       *)
InStep ==
    /\ \A i \in 1 .. Len(received) : DeclaredUpTo(i) => IsTheSent(i)
    /\ DeclaredUpTo(Len(received)) => pos = EndOf(Len(received))
    /\ broken => ~DeclaredUpTo(Len(received) + 1)

(* Whatever was sent, what the reader took has arrived, to its last byte: only *)
(* the padding of the last frame, three bytes at most, may be missing when      *)
(* decode() hands out the payload (ChannelData.hpp:47-49,88).                  *)
TakenHasArrived ==
    /\ \A i \in 1 .. Len(received) :
          received[i].from + received[i].what.size <= arrived
    /\ pos <= arrived + 3

(* A reader that is in step can go on as soon as all of the next frame or       *)
(* message is there, however many bytes of what follows came with it: if its    *)
(* length field is right, neither isChannelData(), nor decode(), nor            *)
(* parseHeader() ever asks for a byte more than it consists of                  *)
(* (ChannelData.hpp:88,100-105, Decoder.cpp:11,43).                            *)
WholeIsTaken ==
    /\ Len(received) < Len(sent)
    /\ DeclaredUpTo(Len(received) + 1)
    /\ EndOf(Len(received) + 1) <= arrived
    => \E v \in Here : FrameHere(v) \/ (MessageHere(v) /\ v.stun = "message")

(* All that was sent is received in the end, up to the first frame or message   *)
(* whose length field is wrong: none waits for bytes that belong to the next,   *)
(* nor does one that is wrong stop what was sent before it                      *)
(* (ChannelData.hpp:88, Decoder.cpp:11,43).                                   *)
AllReceived ==
    \A n \in 1 .. MaxItems :
        Len(sent) >= n /\ DeclaredUpTo(n) ~> Len(received) >= n
=============================================================================

------------------------------ MODULE MCStream ------------------------------
(* Instances of Stream for TLC. *)
EXTENDS Stream

(* Both ends of the range, and the numbers next to them. *)
MCChannels == {16383, 16384, 32767, 32768}

(* No payload, every number of padding bytes, a payload that makes the frame   *)
(* look like a STUN message to who does not ask isChannelData() first, and the *)
(* first size that the length field cannot express.                          *)
MCPayloads ==
    {[size |-> n, stun |-> "no"] : n \in {0, 1, 2, 3, MaxUInt16 + 1}}
    \cup {[size |-> 16, stun |-> "message"]}

(* A message without attributes, one with, one with an attribute of 4 bytes     *)
(* behind its last seal, and one whose length field wrapped.                   *)
MCMessages ==
    { [size |-> 0,     length |-> 0, stun |-> "message"],
      [size |-> 4,     length |-> 4, stun |-> "message"],
      [size |-> 12,    length |-> 8, stun |-> "message"],
      [size |-> 65540, length |-> 4, stun |-> "malformed"] }

(* Inside a payload or a message: application data, the header of an attribute, *)
(* a message, a frame.                                                       *)
MCInside ==
    { [stun |-> "no",        first |-> 127,   second |-> 0],
      [stun |-> "malformed", first |-> 33,    second |-> 8],
      [stun |-> "message",   first |-> 1,     second |-> 60000],
      [stun |-> "no",        first |-> 16384, second |-> 60000] }

MCRooms == {4, 8, 65540}
(* Before, at and after every size the reader asks for. *)
MCEdges == {1, 2, 3, 4, 5, 6, 7, 19, 20, 21, 23}
=============================================================================

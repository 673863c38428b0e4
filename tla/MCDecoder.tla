----------------------------- MODULE MCDecoder ------------------------------
(* Instances of Decoder for TLC. *)
EXTENDS Decoder

(* What an attribute header may read: a known attribute whose value needs     *)
(* padding, an unknown comprehension-required one that takes a whole word, an  *)
(* unknown optional one without a value, and bytes that claim a value longer   *)
(* than any of these buffers.                                                 *)
MCWireAttr ==
    { [type |-> 6,     len |-> 1],
      [type |-> 127,   len |-> 4],
      [type |-> 40000, len |-> 0],
      [type |-> 6,     len |-> 65535] }

(* Buffers of every size at which something changes: too short for a header,  *)
(* a header alone, and room for one to three attributes, the second size with  *)
(* three bytes that cannot start one.                                         *)
MCBuffers ==
    LET lengths == {0, 4, 5, 8, 11, 12} IN
    { [size |-> 12, cookie |-> FALSE, length |-> 0, attr |-> <<>>],
      [size |-> 20, cookie |-> FALSE, length |-> 0, attr |-> <<>>] }
    \cup UNION { [size : {n}, cookie : {TRUE}, length : lengths,
                  attr : [Slots(n) -> MCWireAttr]] : n \in {20, 27, 32} }
=============================================================================

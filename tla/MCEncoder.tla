----------------------------- MODULE MCEncoder ------------------------------
(* Instances of Encoder for TLC. *)
EXTENDS Encoder

(* One attribute of each shape the calls tell apart: no value at all         *)
(* (DONT-FRAGMENT), one byte of value where encode() asks for room for four  *)
(* (EVEN-PORT), a string of five bytes that takes eight, DATA whose length() *)
(* is truncated to 16 bits, which encode() refuses, and a list of 32768 types, *)
(* whose length() is not truncated, for which the buffer has no room.        *)
MCAttributes ==
    { [type |-> 26, len |-> 0, need |-> 0],
      [type |-> 24, len |-> 1, need |-> 4],
      [type |-> 6,  len |-> 5, need |-> 8],
      [type |-> 19, len |-> 1, need |-> 65540],
      [type |-> 10, len |-> 65536, need |-> 65536] }
=============================================================================

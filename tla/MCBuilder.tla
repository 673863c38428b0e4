----------------------------- MODULE MCBuilder ------------------------------
(* Instances of Builder for TLC. *)
EXTENDS Builder

(* An attribute without a value, one that takes two words, and one that      *)
(* encode() refuses.                                                         *)
MCAttributes ==
    { [type |-> 26, len |-> 0, need |-> 0],
      [type |-> 6,  len |-> 3, need |-> 4],
      [type |-> 19, len |-> 1, need |-> 65540] }
=============================================================================

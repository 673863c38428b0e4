------------------------------ MODULE MCCodec -------------------------------
(* Instances of Codec for TLC. *)
EXTENDS Codec

(* A word of value and none at all; the word behind an attribute, if the       *)
(* reader took it for a header, would be an unknown one that may be missing.   *)
MCAttributes ==
    { [type |-> 26, len |-> 0, need |-> 0],
      [type |-> 6,  len |-> 3, need |-> 4] }

MCFiller == [type |-> 127, len |-> 0]

(* Nothing at all, less than a header, a header, and an attribute lost. *)
MCCuts == {0, 19, 20, 24, 32, 44}
=============================================================================

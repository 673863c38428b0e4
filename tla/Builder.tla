------------------------------ MODULE Builder -------------------------------
(***************************************************************************)
(* stunxx::StunMessageBuilder (include/stunxx/StunMessageBuilder.hpp): an   *)
(* Encoder and a flag.  The first call that fails makes the builder invalid *)
(* and every later add is ignored (a stuttering step here); finalize() is    *)
(* passed on whether the builder is valid or not.                            *)
(***************************************************************************)
EXTENDS Encoder

VARIABLE valid   \* valid_

builderVars == <<vars, valid>>

(* if (!valid_) return *this *)
Proceeds_bug == TRUE
Proceeds == valid

(* valid_ = what the encoder returned *)
Tracks_bug == UNCHANGED valid
Tracks == valid' = last'.ok

BuilderInit == Init /\ valid = TRUE

BuilderAdd(a) == Proceeds /\ AddAttribute(a) /\ Tracks

(* add<MessageIntegrity...Attr>(key), or with no key at all *)
BuilderAddIntegrity(mi, keyed) == Proceeds /\ AddIntegrity(mi, keyed) /\ Tracks

BuilderAddFingerprint == Proceeds /\ AddFingerprint /\ Tracks

BuilderFinalize == Finalize /\ UNCHANGED valid

BuilderNext ==
    \/ \E a \in Attributes : BuilderAdd(a)
    \/ \E mi \in IntegrityKinds, keyed \in BOOLEAN : BuilderAddIntegrity(mi, keyed)
    \/ BuilderAddFingerprint
    \/ BuilderFinalize

BuilderSpec == BuilderInit /\ [][BuilderNext]_builderVars

-----------------------------------------------------------------------------
(* Every variable in its range: valid_ is what the encoder returned. *)
BuilderTypeOK == TypeOK /\ valid \in BOOLEAN

(* As long as the builder is valid, the last seal in the message verifies:   *)
(* the header in the buffer is the one its HMAC or CRC was computed over,    *)
(* whatever was added after it and however often the message was finalized   *)
(* (StunMessageBuilder.hpp:22-24,31-33, Encoder.hpp:73-81).                  *)
LastSealHolds ==
    valid => \A i \in 1 .. Len(body) :
                 IsSeal(body[i]) /\ (\A j \in i+1 .. Len(body) : ~IsSeal(body[j]))
                     => wire = body[i].cover

(* A message taken from finalize(), valid or without seals, declares a whole *)
(* number of its attributes: a reader never cuts one in two or runs into     *)
(* what the buffer held before (StunMessageBuilder.hpp:37-40).               *)
FinalizeEndsOnAttribute ==
    last.call = "finalize" /\ (valid \/ ~Sealed)
        => \E i \in 1 .. Len(body) + 1 : wire = LengthField(EndBefore(i))
=============================================================================

--------------------------- MODULE BuilderProofs ----------------------------
(***************************************************************************)
(* A valid builder's last seal verifies, for every buffer and every set of  *)
(* attributes.  That a message with a seal has a last one would need an     *)
(* induction on its length; the inductive invariant SealedHeader carries    *)
(* the index of the last seal along instead.                                *)
(***************************************************************************)
EXTENDS Builder, EncoderProofs

(* A builder only makes calls of the encoder, so its message has all the     *)
(* invariants of an encoder's (StunMessageBuilder.hpp:24,33,38).             *)
THEOREM BuilderImplementsEncoder == BuilderSpec => Spec
  <1>1. BuilderInit => Init
    BY DEF BuilderInit
  <1>2. [BuilderNext]_builderVars => [Next]_vars
    <2> SUFFICES ASSUME [BuilderNext]_builderVars
                 PROVE  [Next]_vars
      OBVIOUS
    <2>1. BuilderNext => Next
      BY DEF BuilderNext, BuilderAdd, BuilderAddIntegrity,
             BuilderAddFingerprint, BuilderFinalize, Next
    <2>2. UNCHANGED builderVars => UNCHANGED vars
      BY DEF builderVars
    <2> QED
      BY <2>1, <2>2
  <1> QED
    BY <1>1, <1>2, PTL DEF BuilderSpec, Spec

(* Every variable of a builder stays in its range (StunMessageBuilder.hpp:24). *)
THEOREM BuilderTypeCorrect == BuilderSpec => []BuilderTypeOK
  <1>1. BuilderInit => valid \in BOOLEAN
    BY DEF BuilderInit
  <1>2. TypeOK' /\ valid \in BOOLEAN /\ [BuilderNext]_builderVars => (valid \in BOOLEAN)'
    <2> SUFFICES ASSUME TypeOK', valid \in BOOLEAN, [BuilderNext]_builderVars
                 PROVE  (valid \in BOOLEAN)'
      OBVIOUS
    <2>1. Tracks \/ UNCHANGED valid
      BY DEF BuilderNext, BuilderAdd, BuilderAddIntegrity, BuilderAddFingerprint,
             BuilderFinalize, builderVars
    <2>2. last'.ok \in BOOLEAN
      BY DEF TypeOK
    <2> QED
      BY <2>1, <2>2 DEF Tracks
  <1> QED
    BY <1>1, <1>2, BuilderImplementsEncoder, TypeCorrect, PTL
    DEF BuilderSpec, BuilderTypeOK

-----------------------------------------------------------------------------
LastSealIs(i) ==
    /\ IsSeal(body[i])
    /\ \A j \in 1 .. Len(body) : i < j => ~IsSeal(body[j])

(* The header of a valid, sealed message is the one its last seal covers. *)
SealedHeader ==
    valid /\ Sealed => \E i \in 1 .. Len(body) : LastSealIs(i) /\ wire = body[i].cover

(* The state after a call that appended a seal over the header it wrote. *)
LEMMA SealAppended ==
    ASSUME TypeOK, NEW type \in UInt16, NEW len \in Nat,
           Grows(type, len, LengthWith(AttrSize(len))),
           wire' = LengthWith(AttrSize(len))
    PROVE  SealedHeader'
  <1>1. AttrSize(len) \in Nat
    BY PaddedBounds
  <1>2. /\ Len(body) \in Nat /\ Len(body') = Len(body) + 1
        /\ body'[Len(body) + 1].cover = LengthWith(AttrSize(len))
    BY GrownBody
  <1>3. LengthWith(AttrSize(len)) # NotCovering
    BY <1>1, LengthWithValue
  <1>4. PICK n \in Nat : n = Len(body) + 1
    BY <1>2
  <1>5. n \in 1 .. Len(body') /\ \A j \in 1 .. Len(body') : ~(n < j)
    BY <1>2, <1>4
  <1>6. body'[n].cover = wire' /\ IsSeal(body'[n])
    BY <1>2, <1>3, <1>4 DEF IsSeal
  <1>7. LastSealIs(n)'
    BY <1>5, <1>6 DEF LastSealIs, IsSeal
  <1> QED
    BY <1>5, <1>6, <1>7 DEF SealedHeader

(* A plain attribute after the last seal leaves it the last one. *)
LEMMA PlainAppended ==
    ASSUME TypeOK, SealedHeader, NEW type \in UInt16, NEW len \in Nat,
           Grows(type, len, NotCovering), wire' = wire, valid
    PROVE  SealedHeader'
  <1>1. /\ Len(body) \in Nat /\ Len(body') = Len(body) + 1
        /\ \A i \in 1 .. Len(body) : body'[i] = body[i]
        /\ body'[Len(body) + 1].cover = NotCovering
    BY GrownBody
  <1>2. Sealed' = Sealed
    BY DEF Grows, Sealed
  <1>3. SUFFICES ASSUME NEW i \in 1 .. Len(body), LastSealIs(i),
                        wire = body[i].cover
                 PROVE  SealedHeader'
    BY <1>2 DEF SealedHeader
  <1>4. i \in 1 .. Len(body') /\ body'[i] = body[i]
    BY <1>1
  <1>5. ASSUME NEW j \in 1 .. Len(body'), i < j
        PROVE  ~IsSeal(body'[j])
    <2>1. CASE j \in 1 .. Len(body)
      BY <2>1, <1>1, <1>3, <1>5 DEF LastSealIs
    <2>2. CASE j = Len(body) + 1
      BY <2>2, <1>1 DEF IsSeal
    <2> QED
      BY <2>1, <2>2, <1>1
  <1>6. LastSealIs(i)'
    BY <1>3, <1>4, <1>5 DEF LastSealIs
  <1> QED
    BY <1>3, <1>4, <1>6 DEF SealedHeader

LEMMA SealedHeaderStep ==
    ASSUME TypeOK, SealedHeader, BuilderNext
    PROVE  SealedHeader'
  <1>1. ASSUME NEW a \in Attributes, BuilderAdd(a)
        PROVE  SealedHeader'
    <2>1. AddAttribute(a) /\ valid /\ Tracks
      BY <1>1 DEF BuilderAdd, Proceeds
    <2>2. CASE ~CanPlace(a) /\ Fails("add")
      BY <2>1, <2>2 DEF Fails, Returns, Tracks, SealedHeader
    <2>3. CASE CanPlace(a)
      <3>1. a.type \in UInt16 /\ a.len \in Nat
        BY AttributesAssumption
      <3>2. Grows(a.type, a.len, NotCovering) /\ wire' = wire
        BY <2>1, <2>3 DEF AddAttribute, CanPlace, Grows
      <3> QED
        BY <2>1, <3>1, <3>2, PlainAppended
    <2> QED
      BY <2>1, <2>2, <2>3 DEF AddAttribute
  <1>2. ASSUME NEW mi \in IntegrityKinds, NEW keyed \in BOOLEAN,
               BuilderAddIntegrity(mi, keyed)
        PROVE  SealedHeader'
    <2>1. AddIntegrity(mi, keyed) /\ Tracks
      BY <1>2 DEF BuilderAddIntegrity
    <2>2. CASE Returns("integrity", FALSE)
      BY <2>1, <2>2 DEF Returns, Tracks, SealedHeader
    <2>3. CASE ~Returns("integrity", FALSE)
      <3>1. mi.type \in UInt16 /\ mi.size \in UInt16 /\ mi.type # Fingerprint.type
        BY SealSizes
      <3>2. AttrSize(mi.size) \in Nat
        BY <3>1, PaddedBounds, UInt16Range
      <3>3. LengthWith(AttrSize(mi.size)) # NotCovering
        BY <3>2, LengthWithValue
      <3>4. /\ Grows(mi.type, mi.size, LengthWith(AttrSize(mi.size)))
            /\ wire' = LengthWith(AttrSize(mi.size))
        BY <2>1, <2>3, <3>1, <3>3, SealSizes
        DEF AddIntegrity, Fails, Grows, WriteHeader, TypeOK
      <3>5. mi.size \in Nat
        BY <3>1, UInt16Range
      <3> QED
        BY <3>1, <3>4, <3>5, SealAppended
    <2> QED
      BY <2>2, <2>3
  <1>3. ASSUME BuilderAddFingerprint
        PROVE  SealedHeader'
    <2>1. AddFingerprint /\ Tracks
      BY <1>3 DEF BuilderAddFingerprint
    <2>2. CASE Returns("fingerprint", FALSE)
      BY <2>1, <2>2 DEF Returns, Tracks, SealedHeader
    <2>3. CASE ~Returns("fingerprint", FALSE)
      <3>1. Fingerprint.type \in UInt16 /\ Fingerprint.size \in UInt16
        BY SealSizes
      <3>2. AttrSize(Fingerprint.size) \in Nat
        BY <3>1, PaddedBounds, UInt16Range
      <3>3. LengthWith(AttrSize(Fingerprint.size)) # NotCovering
        BY <3>2, LengthWithValue
      <3>4. /\ Grows(Fingerprint.type, Fingerprint.size,
                     LengthWith(AttrSize(Fingerprint.size)))
            /\ wire' = LengthWith(AttrSize(Fingerprint.size))
        BY <2>1, <2>3, <3>1, <3>3, SealSizes
        DEF AddFingerprint, CanFingerprint, Fails, Grows, WriteHeader,
            FingerprintSize, TypeOK
      <3>5. Fingerprint.size \in Nat
        BY <3>1, UInt16Range
      <3> QED
        BY <3>1, <3>4, <3>5, SealAppended
    <2> QED
      BY <2>2, <2>3
  <1>4. CASE BuilderFinalize
    <2>1. CASE Sealed
      <3>1. UNCHANGED <<body, wire, valid, has_fingerprint, has_message_integrity>>
        BY <1>4, <2>1 DEF BuilderFinalize, Finalize
      <3> QED
        BY <2>1, <3>1 DEF SealedHeader, Sealed, LastSealIs, IsSeal
    <2>2. CASE ~Sealed
      <3>1. ~Sealed'
        BY <1>4, <2>2 DEF BuilderFinalize, Finalize, Sealed
      <3> QED
        BY <3>1 DEF SealedHeader
    <2> QED
      BY <2>1, <2>2
  <1> QED
    BY <1>1, <1>2, <1>3, <1>4 DEF BuilderNext

LEMMA SealedHeaderInvariant == BuilderSpec => []SealedHeader
  <1>1. BuilderInit => SealedHeader
    BY DEF BuilderInit, Init, SealedHeader, Sealed
  <1>2. TypeOK /\ SealedHeader /\ [BuilderNext]_builderVars => SealedHeader'
    <2>1. ASSUME SealedHeader, UNCHANGED builderVars
          PROVE  SealedHeader'
      BY <2>1 DEF builderVars, vars, SealedHeader, Sealed, LastSealIs, IsSeal
    <2> QED
      BY <2>1, SealedHeaderStep
  <1> QED
    BY <1>1, <1>2, BuilderImplementsEncoder, TypeCorrect, PTL DEF BuilderSpec

(* As long as the builder is valid, the header in the buffer is the one the  *)
(* last seal was computed over (StunMessageBuilder.hpp:22-24,31-33).         *)
THEOREM LastSealVerifies == BuilderSpec => []LastSealHolds
  <1>1. ASSUME TypeOK, SealsFlagged, SealedHeader
        PROVE  LastSealHolds
    <2>1. Len(body) \in Nat
      BY <1>1 DEF TypeOK
    <2> SUFFICES ASSUME valid, NEW i \in 1 .. Len(body), IsSeal(body[i]),
                        \A j \in i+1 .. Len(body) : ~IsSeal(body[j])
                 PROVE  wire = body[i].cover
      BY DEF LastSealHolds
    <2>2. Sealed
      BY <1>1 DEF SealsFlagged, Sealed, IsFingerprint, IsIntegrity
    <2>3. PICK k \in 1 .. Len(body) : LastSealIs(k) /\ wire = body[k].cover
      BY <1>1, <2>2 DEF SealedHeader
    <2>4. ~(i < k)
      BY <2>1, <2>3 DEF LastSealIs
    <2>5. ~(k < i)
      BY <2>3 DEF LastSealIs
    <2>6. i = k
      BY <2>1, <2>4, <2>5
    <2> QED
      BY <2>3, <2>6
  <1> QED
    BY <1>1, SealedHeaderInvariant, BuilderImplementsEncoder, TypeCorrect,
       FlagsTellSeals, PTL

(* A message taken from a valid builder, or one without seals, ends with one *)
(* of its attributes (StunMessageBuilder.hpp:37-40).                         *)
THEOREM FinalizedMessageIsWhole == BuilderSpec => []FinalizeEndsOnAttribute
  <1>1. ASSUME TypeOK, Contiguous, CoversOwnEnd, SealsFlagged,
               UnsealedFinalizeExact, SealedHeader
        PROVE  FinalizeEndsOnAttribute
    <2>1. Len(body) \in Nat
      BY <1>1 DEF TypeOK
    <2> SUFFICES ASSUME last.call = "finalize", valid \/ ~Sealed
                 PROVE  \E i \in 1 .. Len(body) + 1 : wire = LengthField(EndBefore(i))
      BY DEF FinalizeEndsOnAttribute
    <2>2. CASE ~Sealed
      <3>1. \A i \in 1 .. Len(body) : ~IsSeal(body[i])
        BY <1>1, <2>2 DEF SealsFlagged, Sealed, IsFingerprint, IsIntegrity
      <3>2. wire = LengthField(offset)
        BY <1>1, <3>1 DEF UnsealedFinalizeExact, stunSize
      <3>3. offset = EndBefore(Len(body) + 1) /\ Len(body) + 1 \in 1 .. Len(body) + 1
        BY <1>1, <2>1 DEF Contiguous
      <3> QED
        BY <3>2, <3>3
    <2>3. CASE Sealed
      <3>1. PICK k \in 1 .. Len(body) : LastSealIs(k) /\ wire = body[k].cover
        BY <1>1, <2>3 DEF SealedHeader
      <3>2. wire = LengthField(body[k].end)
        BY <1>1, <3>1 DEF CoversOwnEnd, LastSealIs
      <3>3. /\ k + 1 \in 1 .. Len(body) + 1
            /\ k + 1 # 1
            /\ (k + 1) - 1 = k
        BY <2>1
      <3>4. EndBefore(k + 1) = body[k].end
        BY <3>3 DEF EndBefore
      <3> QED
        BY <3>2, <3>3, <3>4
    <2> QED
      BY <2>2, <2>3
  <1> QED
    BY <1>1, SealedHeaderInvariant, BuilderImplementsEncoder, TypeCorrect, Framing,
       SealsCoverTheirOwnEnd, FlagsTellSeals, FinalizeExactWithoutSeals, PTL
=============================================================================

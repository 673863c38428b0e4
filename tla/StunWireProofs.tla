--------------------------- MODULE StunWireProofs ---------------------------
(* Facts about the arithmetic of the wire format, used by the other proofs. *)
EXTENDS StunWire, SequenceTheorems, FiniteSetTheorems, WellFoundedInduction, TLAPS

LEMMA IntervalRange ==
    ASSUME NEW a \in Int, NEW b \in Int, NEW n
    PROVE  n \in a .. b <=> n \in Int /\ a <= n /\ n <= b
  OBVIOUS

LEMMA UInt16Range ==
    \A n : n \in UInt16 <=> n \in Nat /\ n <= MaxUInt16
  <1>1. MaxUInt16 \in Int
    BY DEF MaxUInt16
  <1>2. ASSUME NEW n
        PROVE  n \in UInt16 <=> n \in Int /\ 0 <= n /\ n <= MaxUInt16
    BY <1>1, IntervalRange DEF UInt16
  <1>3. ASSUME NEW n
        PROVE  n \in Nat <=> n \in Int /\ 0 <= n
    OBVIOUS
  <1> QED
    BY <1>2, <1>3

(* Padding adds at most three bytes and ends on a word. *)
LEMMA PaddedBounds ==
    ASSUME NEW n \in Nat
    PROVE  /\ Padded(n) \in Nat
           /\ n <= Padded(n)
           /\ Padded(n) <= n + 3
           /\ Padded(n) % 4 = 0
           /\ AttrSize(n) \in Nat
           /\ AttrSize(n) >= ATTR_HEADER_SIZE
  BY DEF Padded, AttrSize, ATTR_HEADER_SIZE

(* The conversion to 16 bits only ever takes away. *)
LEMMA ToUInt16Bounds ==
    ASSUME NEW n \in Nat
    PROVE  ToUInt16(n) \in UInt16 /\ ToUInt16(n) <= n
  <1>1. ToUInt16(n) \in Nat /\ ToUInt16(n) <= MaxUInt16 /\ ToUInt16(n) <= n
    BY DEF ToUInt16, MaxUInt16
  <1> QED
    BY <1>1, UInt16Range

(* Converting before an addition and converting after it agree. *)
LEMMA ToUInt16Sum ==
    ASSUME NEW m \in Nat, NEW n \in Nat
    PROVE  ToUInt16(ToUInt16(m) + n) = ToUInt16(m + n)
  BY DEF ToUInt16, MaxUInt16

-----------------------------------------------------------------------------
LEMMA ClassValues ==
    ASSUME NEW cls \in DOMAIN StunClass
    PROVE  StunClass[cls] \in {0, 16, 256, 272}
  BY DEF StunClass

(* Whatever stands below the class bits, they are read as they are. *)
LEMMA ClassBits ==
    ASSUME NEW n \in Nat, n < 16, NEW c \in {0, 16, 256, 272}
    PROVE  /\ Bit(n + c, 256) = IF c \in {256, 272} THEN 1 ELSE 0
           /\ Bit(n + c, 16) = IF c \in {16, 272} THEN 1 ELSE 0
           /\ Bit(c, 256) = IF c \in {256, 272} THEN 1 ELSE 0
           /\ Bit(c, 16) = IF c \in {16, 272} THEN 1 ELSE 0
  <1>1. CASE c = 0
    <2>1. /\ (n + 0) \div 256 = 0 /\ (n + 0) \div 16 = 0
          /\ 0 \div 256 = 0 /\ 0 \div 16 = 0
      OBVIOUS
    <2> QED
      BY <1>1, <2>1 DEF Bit
  <1>2. CASE c = 16
    <2>1. /\ (n + 16) \div 256 = 0 /\ (n + 16) \div 16 = 1
          /\ 16 \div 256 = 0 /\ 16 \div 16 = 1
      OBVIOUS
    <2> QED
      BY <1>2, <2>1 DEF Bit
  <1>3. CASE c = 256
    <2>1. /\ (n + 256) \div 256 = 1 /\ (n + 256) \div 16 = 16
          /\ 256 \div 256 = 1 /\ 256 \div 16 = 16
      OBVIOUS
    <2> QED
      BY <1>3, <2>1 DEF Bit
  <1>4. CASE c = 272
    <2>1. /\ (n + 272) \div 256 = 1 /\ (n + 272) \div 16 = 17
          /\ 272 \div 256 = 1 /\ 272 \div 16 = 17
      OBVIOUS
    <2> QED
      BY <1>4, <2>1 DEF Bit
  <1> QED
    BY <1>1, <1>2, <1>3, <1>4

(* The class and the method that a builder puts into the message type are the *)
(* ones a decoder takes out of it, and the type is no number of a channel     *)
(* (StunMessageBuilder.hpp:10-18, Decoder.cpp:77-83, ChannelData.hpp:109).    *)
THEOREM MessageTypeReadBack ==
    ASSUME NEW method \in StunMethod, NEW cls \in DOMAIN StunClass
    PROVE  /\ messageClass(MessageType(method, cls)) = StunClass[cls]
           /\ messageMethod(MessageType(method, cls)) = method
           /\ MessageType(method, cls) \in Nat
           /\ MessageType(method, cls) <= 16383
  <1>1. PICK c \in {0, 16, 256, 272} : c = StunClass[cls]
    BY ClassValues
  <1>2. method \in Nat /\ 1 <= method /\ method <= 12
    BY DEF StunMethod
  <1>3. Bit(method + c, 256) * 256 + Bit(method + c, 16) * 16 = c
    BY <1>1, <1>2, ClassBits
  <1> QED
    BY <1>1, <1>2, <1>3 DEF MessageType, messageClass, messageMethod

(* A class that was read answers to the predicate it belongs to, and to no    *)
(* other (Stun.hpp:149-159, Decoder.cpp:101-111).                             *)
THEOREM OnePredicateOfAClass ==
    ASSUME NEW cls \in DOMAIN StunClass
    PROVE  /\ is_request(StunClass[cls]) <=> StunClass[cls] = StunClass.Request
           /\ is_indication(StunClass[cls]) <=> StunClass[cls] = StunClass.Indication
           /\ is_response(StunClass[cls]) <=>
                 StunClass[cls] \in {StunClass.SuccessResp, StunClass.ErrorResp}
  <1>1. PICK c \in {0, 16, 256, 272} : c = StunClass[cls]
    BY ClassValues
  <1>2. Bit(0 + c, 256) * 256 + Bit(0 + c, 16) * 16 = c
    BY <1>1, ClassBits
  <1>3. /\ is_request(c) <=> c = 0
        /\ is_indication(c) <=> c = 16
        /\ is_response(c) <=> c \in {256, 272}
    BY <1>1, <1>2, ClassBits DEF is_request, is_indication, is_response, messageClass
  <1> QED
    BY <1>1, <1>3 DEF StunClass

-----------------------------------------------------------------------------
(* Loops. *)

(* Induction over the numbers, for a set of them: no least one is missing. *)
LEMMA NatLess == \A x, y \in Nat : x < y => <<x, y>> \in OpToRel(<, Nat)
  BY DEF OpToRel

LEMMA NatSetInduction ==
    ASSUME NEW S, 0 \in S, \A n \in Nat : n \in S => n + 1 \in S
    PROVE  Nat \subseteq S
  <1> SUFFICES ASSUME Nat \ S # {} PROVE FALSE
    OBVIOUS
  <1>1. Nat \ S \subseteq Nat
    OBVIOUS
  <1>2. PICK x \in Nat \ S : \A y \in Nat \ S : ~ (<<y, x>> \in OpToRel(<, Nat))
    BY <1>1, NatLessThanWellFounded, WFMin
  <1>3. x # 0 /\ x - 1 \in Nat /\ x - 1 < x /\ (x - 1) + 1 = x
    OBVIOUS
  <1>4. x - 1 \in S
    BY <1>2, <1>3, NatLess
  <1> QED
    BY <1>3, <1>4

(* A loop of N iterations, as a function of their number: step[n] is iteration n. *)
IsLoop(f, N, V, first, step) ==
    /\ f \in [Nat -> V]
    /\ f[0] = first
    /\ \A n \in Nat : n < N => f[n + 1] = step[n][f[n]]

LEMMA LoopExists ==
    ASSUME NEW N \in Nat, NEW V, NEW first \in V, NEW step \in [Nat -> [V -> V]]
    PROVE  \E f : IsLoop(f, N, V, first, step)
  <1> DEFINE Good(m, f) == f[0] = first /\ \A n \in Nat : n < m => f[n + 1] = step[n][f[n]]
             S == {m \in Nat : m <= N => \E f \in [Nat -> V] : Good(m, f)}
  <1>1. 0 \in S
    <2> DEFINE f == [n \in Nat |-> first]
    <2>1. f \in [Nat -> V]
      OBVIOUS
    <2>2. Good(0, f)
      <3>1. f[0] = first
        OBVIOUS
      <3>2. \A n \in Nat : ~(n < 0)
        OBVIOUS
      <3> QED
        BY <3>1, <3>2
    <2> HIDE DEF f, Good
    <2>3. \E h \in [Nat -> V] : Good(0, h)
      BY <2>1, <2>2
    <2> QED
      BY <2>3
  <1>2. ASSUME NEW m \in Nat, m \in S
        PROVE  m + 1 \in S
    <2> HIDE DEF Good
    <2>0. SUFFICES ASSUME m + 1 <= N
                 PROVE  \E f \in [Nat -> V] : Good(m + 1, f)
      OBVIOUS
    <2>1. PICK f \in [Nat -> V] : Good(m, f)
      BY <1>2, <2>0
    <2>a. m < N
      BY <2>0
    <2> DEFINE g == [f EXCEPT ![m + 1] = step[m][f[m]]]
    <2>2. f[m] \in V /\ step[m][f[m]] \in V
      BY <2>a
    <2>3. g \in [Nat -> V]
      BY <2>2
    <2>4. ASSUME NEW n \in Nat, n < m + 1
          PROVE  g[n + 1] = step[n][g[n]]
      <3>0. g[n] = f[n]
        BY <2>4
      <3>1. CASE n = m
        <4>1. g[m + 1] = step[m][f[m]]
          OBVIOUS
        <4> HIDE DEF g
        <4> QED
          BY <4>1, <3>1, <3>0
      <3>2. CASE n # m
        <4>1. n < m
          BY <3>2, <2>4
        <4>2. g[n + 1] = f[n + 1]
          BY <3>2
        <4> HIDE DEF g
        <4> QED
          BY <4>1, <4>2, <3>0, <2>1 DEF Good
      <3> QED
        BY <3>1, <3>2
    <2>5. g[0] = f[0]
      OBVIOUS
    <2> HIDE DEF g
    <2> QED
      BY <2>1, <2>3, <2>4, <2>5 DEF Good
  <1> HIDE DEF Good
  <1>3. S \subseteq Nat /\ \A n \in Nat : n \in S => n + 1 \in S
    BY <1>2
  <1> HIDE DEF S
  <1>4. N \in S
    BY <1>1, <1>3, NatSetInduction
  <1>5. PICK f \in [Nat -> V] : Good(N, f)
    BY <1>4 DEF S
  <1>6. IsLoop(f, N, V, first, step)
    BY <1>5 DEF Good, IsLoop
  <1> QED
    BY <1>6

-----------------------------------------------------------------------------
(* What one more place does to the list and to the ranks.               *)
LEMMA RanksGrow ==
    ASSUME NEW I \in SUBSET Nat, IsFiniteSet(I), NEW m \in Nat, \A i \in I : i < m
    PROVE  /\ IsFiniteSet(I \cup {m})
           /\ Cardinality(I) \in Nat
           /\ Cardinality(I \cup {m}) = Cardinality(I) + 1
           /\ Rank(I \cup {m}, m) = Cardinality(I) + 1
           /\ \A i \in I :
                 /\ Rank(I \cup {m}, i) = Rank(I, i)
                 /\ Rank(I, i) \in 1 .. Cardinality(I)
  <1>1. m \notin I
    OBVIOUS
  <1>2. /\ IsFiniteSet(I \cup {m})
        /\ Cardinality(I \cup {m}) = Cardinality(I) + 1
    BY <1>1, FS_AddElement
  <1>3. Cardinality(I) \in Nat
    BY FS_CardinalityType
  <1>4. Rank(I \cup {m}, m) = Cardinality(I) + 1
    <2>1. \A j \in I \cup {m} : j <= m
      OBVIOUS
    <2>2. {j \in I \cup {m} : j <= m} = I \cup {m}
      BY <2>1
    <2> QED
      BY <1>2, <2>2 DEF Rank
  <1>5. ASSUME NEW i \in I
        PROVE  /\ Rank(I \cup {m}, i) = Rank(I, i)
               /\ Rank(I, i) \in 1 .. Cardinality(I)
    <2> DEFINE J == {j \in I : j <= i}
    <2>1. {j \in I \cup {m} : j <= i} = J
      OBVIOUS
    <2>2. J \in SUBSET I /\ i \in J
      OBVIOUS
    <2> HIDE DEF J
    <2>3. IsFiniteSet(J) /\ Cardinality(J) <= Cardinality(I)
      BY <2>2, FS_Subset
    <2>4. Cardinality(J) \in Nat /\ Cardinality(J) # 0
      BY <2>2, <2>3, FS_CardinalityType, FS_EmptySet
    <2>5. Cardinality(J) \in 1 .. Cardinality(I)
      BY <1>3, <2>3, <2>4
    <2> QED
      BY <2>1, <2>5 DEF Rank, J
  <1> QED
    BY <1>2, <1>3, <1>4, <1>5

LEMMA ListsNothing == ASSUME NEW f  PROVE Lists(<<>>, f, {})
  BY FS_EmptySet DEF Lists

LEMMA ListsSame ==
    ASSUME NEW v, NEW f, NEW g, NEW I, \A i \in I : g[i] = f[i], Lists(v, f, I)
    PROVE  Lists(v, g, I)
  BY DEF Lists

LEMMA ListsGrow ==
    ASSUME NEW X, NEW v \in Seq(X), NEW x \in X, NEW f, NEW g,
           NEW I \in SUBSET Nat, IsFiniteSet(I), NEW m \in Nat, \A i \in I : i < m,
           Lists(v, f, I), \A i \in I : g[i] = f[i], g[m] = x
    PROVE  Lists(Append(v, x), g, I \cup {m})
  <1>1. /\ Len(v) = Cardinality(I)
        /\ \A i \in I : v[Rank(I, i)] = f[i]
    BY DEF Lists
  <1>2. /\ Len(Append(v, x)) = Cardinality(I) + 1
        /\ \A n \in 1 .. Cardinality(I) : Append(v, x)[n] = v[n]
        /\ Append(v, x)[Cardinality(I) + 1] = x
    BY <1>1, AppendProperties
  <1>3. \A i \in I \cup {m} : Append(v, x)[Rank(I \cup {m}, i)] = g[i]
    BY <1>1, <1>2, RanksGrow
  <1> QED
    BY <1>2, <1>3, RanksGrow DEF Lists

(* The places behind some others count alike when they are counted from there. *)
LEMMA RankShifted ==
    ASSUME NEW I \in SUBSET Nat, IsFiniteSet(I), NEW b \in Nat
    PROVE  LET K == {b + i : i \in I} IN
           /\ IsFiniteSet(K)
           /\ Cardinality(K) = Cardinality(I)
  <1> DEFINE K == {b + i : i \in I}
             h == [i \in I |-> b + i]
  <1>1. h \in Bijection(I, K)
    <2>1. h \in [I -> K]
      OBVIOUS
    <2>2. \A i, j \in I : h[i] = h[j] => i = j
      OBVIOUS
    <2>3. \A k \in K : \E i \in I : h[i] = k
      OBVIOUS
    <2> QED
      BY <2>1, <2>2, <2>3 DEF Bijection, Injection, Surjection, IsInjective
  <1>2. ExistsBijection(I, K)
    BY <1>1 DEF ExistsBijection
  <1> QED
    BY <1>2, FS_Bijection

LEMMA ListsShifted ==
    ASSUME NEW I \in SUBSET Nat, IsFiniteSet(I), NEW b \in Nat, NEW v, NEW f, NEW g,
           \A i \in I : f[b + i] = g[i],
           Lists(v, f, {b + i : i \in I})
    PROVE  Lists(v, g, I)
  <1> DEFINE K == {b + i : i \in I}
  <1>1. Len(v) = Cardinality(I)
    BY RankShifted DEF Lists
  <1>2. ASSUME NEW i \in I
        PROVE  v[Rank(I, i)] = g[i]
    <2> DEFINE J == {j \in I : j <= i}
    <2>1. {k \in K : k <= b + i} = {b + j : j \in J}
      OBVIOUS
    <2>2. IsFiniteSet(J) /\ J \in SUBSET Nat
      BY FS_Subset
    <2>3. Cardinality({b + j : j \in J}) = Cardinality(J)
      BY <2>2, RankShifted
    <2>4. Rank(K, b + i) = Rank(I, i)
      BY <2>1, <2>3 DEF Rank
    <2>5. v[Rank(K, b + i)] = f[b + i]
      BY DEF Lists
    <2> QED
      BY <2>4, <2>5
  <1> QED
    BY <1>1, <1>2 DEF Lists
=============================================================================

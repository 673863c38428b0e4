---------------------------- MODULE Crc32Proofs -----------------------------
(* FINGERPRINT for messages of every length and every burst of damage. *)
EXTENDS Crc32, StunWireProofs

LEMMA XorFacts ==
    ASSUME NEW u, NEW v, NEW w
    PROVE  /\ Xor(v, w) = Xor(w, v)
           /\ Xor(Xor(v, w), w) = v
           /\ Xor(v, Xor(v, w)) = w
           /\ Xor(Xor(u, v), w) = Xor(u, Xor(v, w))
           /\ Xor(v, {}) = v
           /\ v # w => Xor(v, w) # {}
  BY DEF Xor

LEMMA XorCancels ==
    ASSUME NEW u, NEW v, NEW w, Xor(v, w) = Xor(u, w)
    PROVE  v = u
  BY DEF Xor

LEMMA XorCancelsLeft ==
    ASSUME NEW u, NEW v, NEW w, Xor(w, v) = Xor(w, u)
    PROVE  v = u
  BY DEF Xor

LEMMA WordXor ==
    /\ \A v, w \in Word : Xor(v, w) \in Word
    /\ \A v, w \in Byte : Xor(v, w) \in Byte
    /\ \A v, w : LowByte(Xor(v, w)) = Xor(LowByte(v), LowByte(w))
    /\ \A v : LowByte(v) \in Byte
    /\ \A v \in Byte : LowByte(v) = v
    /\ Ones \in Word /\ Zero \in Word
  BY DEF Word, Byte, Xor, LowByte, Ones, Zero

LEMMA ShiftWord ==
    ASSUME NEW w \in Word
    PROVE  /\ ShiftByte(w) \in Word
           /\ \A k \in 0 .. 31 : k \in ShiftByte(w) <=> k + 8 \in w
  <1>1. ASSUME NEW k \in ShiftByte(w)
        PROVE  k \in 0 .. 31 /\ k + 8 \in w
    <2>1. PICK j \in w : j \notin 0 .. 7 /\ k = j - 8
      BY DEF ShiftByte
    <2> QED
      BY <2>1 DEF Word
  <1>2. ASSUME NEW k \in 0 .. 31, k + 8 \in w
        PROVE  k \in ShiftByte(w)
    <2>1. k + 8 \in w \ (0 .. 7) /\ (k + 8) - 8 = k
      BY <1>2
    <2> QED
      BY <2>1 DEF ShiftByte
  <1> QED
    BY <1>1, <1>2 DEF Word

LEMMA TurnWord ==
    ASSUME NEW crc \in Word, NEW byte \in Byte
    PROVE  Turn(crc, byte) \in Word
  BY WordXor, ShiftWord, TableAssumption DEF Turn

-----------------------------------------------------------------------------
(* The register after each turn of the loop. *)
Register(r, crc, buf) ==
    /\ r \in [0 .. Len(buf) -> Word]
    /\ r[0] = Xor(crc, Ones)
    /\ \A n \in 0 .. Len(buf) : n < Len(buf) => r[n + 1] = Turn(r[n], buf[n + 1])

LEMMA RegisterLoop ==
    ASSUME NEW crc \in Word, NEW buf \in Seq(Byte)
    PROVE  \E r : /\ Register(r, crc, buf)
                  /\ crc32_update(crc, buf) = Xor(r[Len(buf)], Ones)
  <1> DEFINE N == Len(buf)
             first == Xor(crc, Ones)
             Fix(g) == g = [n \in 0 .. N |-> IF n = 0 THEN first ELSE Turn(g[n - 1], buf[n])]
             r == CHOOSE g : Fix(g)
  <1>1. N \in Nat /\ first \in Word /\ \A n \in 1 .. N : buf[n] \in Byte
    BY LenProperties, ElementOfSeq, WordXor
  <1>2. crc32_update(crc, buf) = Xor(r[N], Ones)
    BY DEF crc32_update
  <1> HIDE DEF first
  <1>3. PICK l \in [Nat -> Word] :
           l[0] = first /\ \A n \in Nat : n < N => l[n + 1] = Turn(l[n], buf[n + 1])
    <2> DEFINE step == [n \in Nat |-> [w \in Word |-> IF n < N THEN Turn(w, buf[n + 1]) ELSE w]]
    <2> HIDE DEF N
    <2>1. step \in [Nat -> [Word -> Word]]
      <3>1. \A n \in Nat : n < N => n + 1 \in 1 .. N
        BY <1>1
      <3>2. \A n \in Nat : n < N => \A w \in Word : Turn(w, buf[n + 1]) \in Word
        BY <1>1, <3>1, TurnWord
      <3> QED
        BY <3>2
    <2>2. \A n \in Nat : n < N => \A w \in Word : step[n][w] = Turn(w, buf[n + 1])
      OBVIOUS
    <2> HIDE DEF step
    <2>3. PICK l : IsLoop(l, N, Word, first, step)
      BY <1>1, <2>1, LoopExists
    <2> QED
      BY <2>2, <2>3 DEF IsLoop
  <1>4. Fix([n \in 0 .. N |-> l[n]])
    <2> DEFINE g == [n \in 0 .. N |-> l[n]]
    <2>1. ASSUME NEW n \in 0 .. N
          PROVE  l[n] = IF n = 0 THEN first ELSE Turn(g[n - 1], buf[n])
      <3>1. CASE n = 0
        BY <1>3, <3>1
      <3>2. CASE n # 0
        <4>1. n - 1 \in Nat /\ n - 1 < N /\ n - 1 \in 0 .. N /\ (n - 1) + 1 = n
          BY <1>1, <3>2
        <4>2. g[n - 1] = l[n - 1]
          BY <4>1
        <4> HIDE DEF g, N
        <4>3. l[(n - 1) + 1] = Turn(l[n - 1], buf[(n - 1) + 1])
          BY <1>3, <4>1
        <4> QED
          BY <3>2, <4>1, <4>2, <4>3
      <3> QED
        BY <3>1, <3>2
    <2> QED
      BY <2>1
  <1>5. Fix(r)
    <2> HIDE DEF Fix
    <2> QED
      BY <1>4
  <1> HIDE DEF r
  <1>6. DOMAIN r = 0 .. N /\ r[0] = first
    BY <1>1, <1>5
  <1>7. \A n \in 0 .. N : n < N => r[n + 1] = Turn(r[n], buf[n + 1])
    <2> SUFFICES ASSUME NEW n \in 0 .. N, n < N
                 PROVE  r[n + 1] = Turn(r[n], buf[n + 1])
      OBVIOUS
    <2>1. n + 1 \in 0 .. N /\ n + 1 # 0 /\ (n + 1) - 1 = n
      BY <1>1
    <2>2. r[n + 1] = Turn(r[(n + 1) - 1], buf[n + 1])
      BY <1>5, <2>1
    <2> QED
      BY <2>1, <2>2
  <1> DEFINE S == {n \in Nat : n <= N => r[n] \in Word}
  <1>8. Nat \subseteq S
    <2>1. 0 \in S
      BY <1>1, <1>6
    <2>2. ASSUME NEW n \in Nat, n \in S
          PROVE  n + 1 \in S
      <3> SUFFICES ASSUME n + 1 <= N
                   PROVE  r[n + 1] \in Word
        OBVIOUS
      <3>1. n \in 0 .. N /\ n < N /\ n + 1 \in 1 .. N /\ r[n] \in Word
        BY <1>1, <2>2
      <3> QED
        BY <1>1, <1>7, <3>1, TurnWord
    <2> HIDE DEF S
    <2> QED
      BY <2>1, <2>2, NatSetInduction
  <1>9. r \in [0 .. N -> Word]
    <2>1. \A n \in 0 .. N : r[n] \in Word
      BY <1>1, <1>8
    <2>2. r = [n \in 0 .. N |-> r[n]]
      BY <1>5
    <2> QED
      BY <2>1, <2>2
  <1>10. Register(r, crc, buf)
    BY <1>6, <1>7, <1>9 DEF Register, first
  <1> QED
    BY <1>2, <1>10

LEMMA UpdateWord ==
    ASSUME NEW crc \in Word, NEW buf \in Seq(Byte)
    PROVE  crc32_update(crc, buf) \in Word
  <1>1. PICK r : Register(r, crc, buf) /\ crc32_update(crc, buf) = Xor(r[Len(buf)], Ones)
    BY RegisterLoop
  <1>2. Len(buf) \in 0 .. Len(buf)
    BY LenProperties
  <1>3. r[Len(buf)] \in Word
    BY <1>1, <1>2 DEF Register
  <1> QED
    BY <1>1, <1>3, WordXor

(* Two loops over the same bytes from the same register. *)
SameBytes(a, i, b, j, N) ==
    /\ i + N <= Len(a) /\ j + N <= Len(b)
    /\ \A n \in 1 .. N : a[i + n] = b[j + n]

LEMMA SameTurns ==
    ASSUME NEW a \in Seq(Byte), NEW r, NEW c, Register(r, c, a),
           NEW b \in Seq(Byte), NEW q, NEW d, Register(q, d, b),
           NEW i \in Nat, NEW j \in Nat, NEW N \in Nat,
           SameBytes(a, i, b, j, N), r[i] = q[j]
    PROVE  r[i + N] = q[j + N]
  <1> DEFINE S == {n \in Nat : n <= N => r[i + n] = q[j + n]}
  <1>1. 0 \in S
    OBVIOUS
  <1>2. ASSUME NEW n \in Nat, n \in S
        PROVE  n + 1 \in S
    <2> SUFFICES ASSUME n + 1 <= N
                 PROVE  r[i + (n + 1)] = q[j + (n + 1)]
      OBVIOUS
    <2>1. /\ Len(a) \in Nat /\ Len(b) \in Nat
          /\ i + n \in 0 .. Len(a) /\ i + n < Len(a) /\ i + (n + 1) = (i + n) + 1
          /\ j + n \in 0 .. Len(b) /\ j + n < Len(b) /\ j + (n + 1) = (j + n) + 1
          /\ n + 1 \in 1 .. N
      BY LenProperties DEF SameBytes
    <2>2. r[i + n] = q[j + n]
      BY <1>2
    <2>3. a[i + (n + 1)] = b[j + (n + 1)]
      BY <2>1 DEF SameBytes
    <2>4. /\ r[(i + n) + 1] = Turn(r[i + n], a[(i + n) + 1])
          /\ q[(j + n) + 1] = Turn(q[j + n], b[(j + n) + 1])
      BY <2>1 DEF Register
    <2> QED
      BY <2>1, <2>2, <2>3, <2>4
  <1> HIDE DEF S
  <1>3. N \in S
    BY <1>1, <1>2, NatSetInduction
  <1> QED
    BY <1>3 DEF S

LEMMA Pieces ==
    ASSUME NEW crc \in Word, NEW buf \in Seq(Byte), NEW n \in 0 .. Len(buf)
    PROVE  crc32_update(crc32_update(crc, SubSeq(buf, 1, n)), SubSeq(buf, n + 1, Len(buf)))
              = crc32_update(crc, buf)
  <1> DEFINE N == Len(buf)
             a == SubSeq(buf, 1, n)
             b == SubSeq(buf, n + 1, N)
             c == crc32_update(crc, a)
  <1>1. N \in Nat /\ n \in Nat /\ n <= N
    BY LenProperties
  <1>2. /\ a \in Seq(Byte) /\ Len(a) = n
        /\ \A i \in 1 .. n : a[i] = buf[i]
    BY <1>1, SubSeqProperties
  <1>3. /\ b \in Seq(Byte) /\ Len(b) = N - n
        /\ \A i \in 1 .. N - n : b[i] = buf[n + i]
    <2>1. n + 1 \in Int /\ N \in Int /\ \A i \in n + 1 .. N : i \in 1 .. N
      BY <1>1
    <2>2. \A i \in n + 1 .. N : buf[i] \in Byte
      BY <2>1, ElementOfSeq
    <2>3. b = [i \in 1 .. (N - (n + 1) + 1) |-> buf[i + (n + 1) - 1]]
      BY <1>1
    <2>4. N - (n + 1) + 1 = N - n /\ N - n \in Nat /\ \A i \in 1 .. N - n : i + (n + 1) - 1 = n + i
      BY <1>1
    <2>5. b = [i \in 1 .. N - n |-> buf[n + i]]
      BY <2>3, <2>4
    <2>6. \A i \in 1 .. N - n : n + i \in n + 1 .. N
      BY <1>1
    <2> HIDE DEF b
    <2> QED
      BY <2>2, <2>4, <2>5, <2>6
  <1> HIDE DEF a, b
  <1>4. PICK r : Register(r, crc, buf) /\ crc32_update(crc, buf) = Xor(r[N], Ones)
    BY RegisterLoop
  <1>5. PICK p : Register(p, crc, a) /\ c = Xor(p[n], Ones)
    BY <1>2, RegisterLoop
  <1>6. c \in Word
    BY <1>2, UpdateWord
  <1> HIDE DEF c
  <1>7. PICK q : Register(q, c, b) /\ crc32_update(c, b) = Xor(q[N - n], Ones)
    BY <1>3, <1>6, RegisterLoop
  <1>8. p[n] = r[n]
    <2>1. p[0] = r[0]
      BY <1>4, <1>5 DEF Register
    <2>2. SameBytes(a, 0, buf, 0, n)
      BY <1>1, <1>2 DEF SameBytes
    <2>3. p[0 + n] = r[0 + n]
      BY <1>1, <1>2, <1>4, <1>5, <2>1, <2>2, SameTurns
    <2> QED
      BY <1>1, <2>3
  <1>9. q[0] = r[n]
    <2>1. q[0] = Xor(Xor(p[n], Ones), Ones)
      BY <1>5, <1>7 DEF Register
    <2> QED
      BY <1>8, <2>1, XorFacts
  <1>10. q[N - n] = r[N]
    <2> DEFINE m == N - n
    <2>1. m \in Nat /\ 0 + m = m /\ n + m = N
      BY <1>1
    <2>2. SameBytes(b, 0, buf, n, m)
      BY <1>1, <1>3 DEF SameBytes
    <2> HIDE DEF m
    <2>3. q[0 + m] = r[n + m]
      BY <1>1, <1>3, <1>4, <1>7, <1>9, <2>1, <2>2, SameTurns
    <2> QED
      BY <2>1, <2>3 DEF m
  <1> QED
    BY <1>4, <1>7, <1>10 DEF a, b, c

-----------------------------------------------------------------------------
(* Polynomials.  A word or byte w is placed in one with its bit 0 at degree t.  *)
Placed(w, t) == {t - k : k \in w}

LEMMA PlacedElement ==
    ASSUME NEW w \in SUBSET Int, NEW t \in Int, NEW e
    PROVE  e \in Placed(w, t) <=> e \in Int /\ t - e \in w
  <1>1. ASSUME e \in Placed(w, t)
        PROVE  e \in Int /\ t - e \in w
    <2>1. PICK k \in w : e = t - k
      BY <1>1 DEF Placed
    <2> QED
      BY <2>1
  <1>2. ASSUME e \in Int, t - e \in w
        PROVE  e \in Placed(w, t)
    <2>1. e = t - (t - e)
      BY <1>2
    <2> QED
      BY <1>2, <2>1 DEF Placed
  <1> QED
    BY <1>1, <1>2

LEMMA ShiftedElement ==
    ASSUME NEW p \in SUBSET Int, NEW n \in Int, NEW e
    PROVE  e \in Shifted(p, n) <=> e \in Int /\ e - n \in p
  <1>1. ASSUME e \in Shifted(p, n)
        PROVE  e \in Int /\ e - n \in p
    <2>1. PICK k \in p : e = k + n
      BY <1>1 DEF Shifted
    <2> QED
      BY <2>1
  <1>2. ASSUME e \in Int, e - n \in p
        PROVE  e \in Shifted(p, n)
    <2>1. e = (e - n) + n
      BY <1>2
    <2> QED
      BY <1>2, <2>1 DEF Shifted
  <1> QED
    BY <1>1, <1>2

LEMMA Degrees ==
    /\ \A w \in Word : w \in SUBSET Int
    /\ \A b \in Byte : b \in SUBSET Int
    /\ Ones \in SUBSET Int
    /\ \A p, q \in SUBSET Int : Xor(p, q) \in SUBSET Int
  BY DEF Word, Byte, Ones, Xor

LEMMA PlacedInt ==
    ASSUME NEW w \in SUBSET Int, NEW t \in Int
    PROVE  Placed(w, t) \in SUBSET Int
  BY PlacedElement

LEMMA PlacedShifted ==
    ASSUME NEW w \in SUBSET Int, NEW t \in Int, NEW n \in Int
    PROVE  Shifted(Placed(w, t), n) = Placed(w, t + n)
  <1>1. Placed(w, t) \in SUBSET Int
    BY PlacedInt
  <1>2. ASSUME NEW e
        PROVE  e \in Shifted(Placed(w, t), n) <=> e \in Placed(w, t + n)
    <2>1. e \in Shifted(Placed(w, t), n) <=> e \in Int /\ e - n \in Placed(w, t)
      BY <1>1, ShiftedElement
    <2>2. e \in Int => (e - n \in Int /\ t - (e - n) = (t + n) - e)
      OBVIOUS
    <2>3. e - n \in Placed(w, t) <=> e - n \in Int /\ t - (e - n) \in w
      BY PlacedElement
    <2>4. e \in Placed(w, t + n) <=> e \in Int /\ (t + n) - e \in w
      BY PlacedElement
    <2> QED
      BY <2>1, <2>2, <2>3, <2>4
  <1> QED
    BY <1>1, <1>2

LEMMA PlacedXor ==
    ASSUME NEW v \in SUBSET Int, NEW w \in SUBSET Int, NEW t \in Int
    PROVE  Placed(Xor(v, w), t) = Xor(Placed(v, t), Placed(w, t))
  <1>1. Xor(v, w) \in SUBSET Int
    BY DEF Xor
  <1>2. ASSUME NEW e
        PROVE  e \in Placed(Xor(v, w), t) <=> e \in Xor(Placed(v, t), Placed(w, t))
    <2>1. e \in Placed(Xor(v, w), t) <=> e \in Int /\ t - e \in Xor(v, w)
      BY <1>1, PlacedElement
    <2>2. /\ e \in Placed(v, t) <=> e \in Int /\ t - e \in v
          /\ e \in Placed(w, t) <=> e \in Int /\ t - e \in w
      BY PlacedElement
    <2> QED
      BY <2>1, <2>2 DEF Xor
  <1> QED
    BY <1>2

LEMMA ShiftedXor ==
    ASSUME NEW p \in SUBSET Int, NEW q \in SUBSET Int, NEW n \in Int
    PROVE  Shifted(Xor(p, q), n) = Xor(Shifted(p, n), Shifted(q, n))
  <1>1. Xor(p, q) \in SUBSET Int
    BY DEF Xor
  <1>2. ASSUME NEW e
        PROVE  e \in Shifted(Xor(p, q), n) <=> e \in Xor(Shifted(p, n), Shifted(q, n))
    <2>1. e \in Shifted(Xor(p, q), n) <=> e \in Int /\ e - n \in Xor(p, q)
      BY <1>1, ShiftedElement
    <2>2. /\ e \in Shifted(p, n) <=> e \in Int /\ e - n \in p
          /\ e \in Shifted(q, n) <=> e \in Int /\ e - n \in q
      BY ShiftedElement
    <2> QED
      BY <2>1, <2>2 DEF Xor
  <1> QED
    BY <1>2

LEMMA ShiftedShifted ==
    ASSUME NEW p \in SUBSET Int, NEW m \in Int, NEW n \in Int
    PROVE  /\ Shifted(p, m) \in SUBSET Int
           /\ Shifted(Shifted(p, m), n) = Shifted(p, m + n)
  <1>1. Shifted(p, m) \in SUBSET Int
    BY ShiftedElement
  <1>2. ASSUME NEW e
        PROVE  e \in Shifted(Shifted(p, m), n) <=> e \in Shifted(p, m + n)
    <2>1. e \in Shifted(Shifted(p, m), n) <=> e \in Int /\ e - n \in Shifted(p, m)
      BY <1>1, ShiftedElement
    <2>2. e \in Int => (e - n \in Int /\ (e - n) - m = e - (m + n))
      OBVIOUS
    <2>3. e - n \in Shifted(p, m) <=> e - n \in Int /\ (e - n) - m \in p
      BY ShiftedElement
    <2>4. e \in Shifted(p, m + n) <=> e \in Int /\ e - (m + n) \in p
      BY ShiftedElement
    <2> QED
      BY <2>1, <2>2, <2>3, <2>4
  <1> QED
    BY <1>1, <1>2

-----------------------------------------------------------------------------
(* Long division, one term at a time. *)
LEMMA DividedInt ==
    ASSUME NEW p \in SUBSET Int, NEW d \in Int
    PROVE  Divided(p, d) \in SUBSET Int
  <1>1. V42 \in SUBSET Int
    BY DEF V42
  <1>2. Shifted(V42, d - 32) \in SUBSET Int
    BY <1>1, ShiftedShifted
  <1> QED
    BY <1>2 DEF Divided, Xor

(* The polynomial may be shifted, and have other terms of no such degree.      *)
LEMMA DividedElsewhere ==
    ASSUME NEW p \in SUBSET Int, NEW d \in Int, NEW n \in Int,
           NEW q \in SUBSET Int, d + n \notin q
    PROVE  Divided(Xor(Shifted(p, n), q), d + n) = Xor(Shifted(Divided(p, d), n), q)
  <1> DEFINE a == Shifted(p, n)
             v == Shifted(V42, d - 32)
  <1>1. V42 \in SUBSET Int
    BY DEF V42
  <1>2. d + n \in Xor(a, q) <=> d \in p
    <2>1. d + n \in a <=> d \in p
      <3>1. d + n \in Int /\ (d + n) - n = d
        OBVIOUS
      <3> QED
        BY <3>1, ShiftedElement
    <2> QED
      BY <2>1 DEF Xor
  <1>3. v \in SUBSET Int /\ Shifted(v, n) = Shifted(V42, (d + n) - 32)
    <2>1. d - 32 \in Int /\ (d - 32) + n = (d + n) - 32
      OBVIOUS
    <2> QED
      BY <1>1, <2>1, ShiftedShifted
  <1>4. Shifted(Xor(p, v), n) = Xor(a, Shifted(v, n))
    BY <1>3, ShiftedXor
  <1> HIDE DEF a, v
  <1>5. Xor(Xor(a, q), Shifted(v, n)) = Xor(Xor(a, Shifted(v, n)), q)
    BY DEF Xor
  <1> QED
    BY <1>2, <1>3, <1>4, <1>5 DEF Divided, a, v

Rest(f, p, n) ==
    /\ f \in [0 .. n -> SUBSET Int]
    /\ f[0] = p
    /\ \A i \in 0 .. n : i < n => f[i + 1] = Divided(f[i], 32 + n - (i + 1))

LEMMA RemainderLoop ==
    ASSUME NEW p \in SUBSET Int, NEW N \in Nat
    PROVE  \E f : Rest(f, p, N) /\ Remainder(p, N) = f[N]
  <1> DEFINE V == SUBSET Int
             Fix(g) == g = [n \in 0 .. N |-> IF n = 0 THEN p ELSE Divided(g[n - 1], 32 + N - n)]
             f == CHOOSE g : Fix(g)
  <1>1. Remainder(p, N) = f[N]
    BY DEF Remainder
  <1>2. p \in V /\ \A v \in V : \A d \in Int : Divided(v, d) \in V
    BY DividedInt
  <1> HIDE DEF V
  <1>3. PICK l \in [Nat -> V] :
           l[0] = p /\ \A n \in Nat : n < N => l[n + 1] = Divided(l[n], 32 + N - (n + 1))
    <2> DEFINE step == [n \in Nat |-> [v \in V |-> Divided(v, 32 + N - (n + 1))]]
    <2>1. step \in [Nat -> [V -> V]]
      <3>1. \A n \in Nat : 32 + N - (n + 1) \in Int
        OBVIOUS
      <3>2. \A n \in Nat : \A v \in V : Divided(v, 32 + N - (n + 1)) \in V
        BY <1>2, <3>1
      <3> QED
        BY <3>2
    <2>2. \A n \in Nat : \A v \in V : step[n][v] = Divided(v, 32 + N - (n + 1))
      OBVIOUS
    <2> HIDE DEF step
    <2>3. PICK l : IsLoop(l, N, V, p, step)
      BY <1>2, <2>1, LoopExists
    <2> QED
      BY <2>2, <2>3 DEF IsLoop
  <1>4. Fix([n \in 0 .. N |-> l[n]])
    <2> DEFINE g == [n \in 0 .. N |-> l[n]]
    <2>1. ASSUME NEW n \in 0 .. N
          PROVE  l[n] = IF n = 0 THEN p ELSE Divided(g[n - 1], 32 + N - n)
      <3>1. CASE n = 0
        BY <1>3, <3>1
      <3>2. CASE n # 0
        <4>1. n - 1 \in Nat /\ n - 1 < N /\ n - 1 \in 0 .. N /\ (n - 1) + 1 = n
          BY <3>2
        <4>2. g[n - 1] = l[n - 1]
          BY <4>1
        <4> HIDE DEF g
        <4>3. l[(n - 1) + 1] = Divided(l[n - 1], 32 + N - ((n - 1) + 1))
          BY <1>3, <4>1
        <4> QED
          BY <3>2, <4>1, <4>2, <4>3
      <3> QED
        BY <3>1, <3>2
    <2> QED
      BY <2>1
  <1>5. Fix(f)
    <2> HIDE DEF Fix
    <2> QED
      BY <1>4
  <1> HIDE DEF f
  <1>6. DOMAIN f = 0 .. N /\ f[0] = p
    BY <1>5
  <1>7. \A n \in 0 .. N : n < N => f[n + 1] = Divided(f[n], 32 + N - (n + 1))
    <2> SUFFICES ASSUME NEW n \in 0 .. N, n < N
                 PROVE  f[n + 1] = Divided(f[n], 32 + N - (n + 1))
      OBVIOUS
    <2>1. n + 1 \in 0 .. N /\ n + 1 # 0 /\ (n + 1) - 1 = n
      OBVIOUS
    <2>2. f[n + 1] = Divided(f[(n + 1) - 1], 32 + N - (n + 1))
      BY <1>5, <2>1
    <2> QED
      BY <2>1, <2>2
  <1> DEFINE S == {n \in Nat : n <= N => f[n] \in V}
  <1>8. Nat \subseteq S
    <2>1. 0 \in S
      BY <1>2, <1>6
    <2>2. ASSUME NEW n \in Nat, n \in S
          PROVE  n + 1 \in S
      <3> SUFFICES ASSUME n + 1 <= N
                   PROVE  f[n + 1] \in V
        OBVIOUS
      <3>1. n \in 0 .. N /\ n < N /\ 32 + N - (n + 1) \in Int /\ f[n] \in V
        BY <2>2
      <3> QED
        BY <1>2, <1>7, <3>1
    <2> HIDE DEF S
    <2> QED
      BY <2>1, <2>2, NatSetInduction
  <1>9. f \in [0 .. N -> V]
    <2>1. \A n \in 0 .. N : f[n] \in V
      BY <1>8
    <2>2. f = [n \in 0 .. N |-> f[n]]
      BY <1>5
    <2> QED
      BY <2>1, <2>2
  <1>10. Rest(f, p, N)
    BY <1>6, <1>7, <1>9 DEF Rest, V
  <1> QED
    BY <1>1, <1>10

(* Eight steps of a division are those of dividing one byte, when the other     *)
(* terms have lower degrees.                                                 *)
EightLeft(f, P, N, j, s) ==
    /\ Rest(f, P, N)
    /\ j \in Nat /\ s \in Nat /\ N = j + 8 + s

HasComeTo(f, j, p, s, q) ==
    /\ q \in SUBSET Int /\ \A e \in q : e < 32 + s
    /\ f[j] = Xor(Shifted(p, s), q)

LEMMA EightSteps ==
    ASSUME NEW p \in SUBSET Int, NEW g, Rest(g, p, 8),
           NEW P, NEW N, NEW f, NEW j, NEW s, EightLeft(f, P, N, j, s),
           NEW q, HasComeTo(f, j, p, s, q)
    PROVE  f[j + 8] = Xor(Shifted(g[8], s), q)
  <1> DEFINE S == {n \in Nat : n <= 8 => f[j + n] = Xor(Shifted(g[n], s), q)}
  <1> USE DEF EightLeft, HasComeTo
  <1>1. 0 \in S
    BY DEF Rest
  <1>2. ASSUME NEW n \in Nat, n \in S
        PROVE  n + 1 \in S
    <2> SUFFICES ASSUME n + 1 <= 8
                 PROVE  f[j + (n + 1)] = Xor(Shifted(g[n + 1], s), q)
      OBVIOUS
    <2> DEFINE d == 32 + 8 - (n + 1)
               i == j + n
    <2>1. /\ n \in 0 .. 8 /\ n < 8
          /\ i \in 0 .. N /\ i < N /\ j + (n + 1) = i + 1
          /\ d \in Int /\ 32 + N - (i + 1) = d + s /\ d + s >= 32 + s
      OBVIOUS
    <2>2. d + s \notin q /\ q \in SUBSET Int
      BY <2>1
    <2>3. f[i] = Xor(Shifted(g[n], s), q)
      BY <1>2, <2>1
    <2>4. g[n] \in SUBSET Int /\ g[n + 1] = Divided(g[n], d)
      BY <2>1 DEF Rest
    <2>5. f[i + 1] = Divided(f[i], 32 + N - (i + 1))
      BY <2>1 DEF Rest
    <2> HIDE DEF d, i
    <2>6. Divided(Xor(Shifted(g[n], s), q), d + s) = Xor(Shifted(Divided(g[n], d), s), q)
      BY <2>1, <2>2, <2>4, DividedElsewhere
    <2> QED
      BY <2>1, <2>3, <2>4, <2>5, <2>6
  <1> HIDE DEF S
  <1>3. 8 \in S
    BY <1>1, <1>2, NatSetInduction
  <1> QED
    BY <1>3 DEF S

(* What the table says of it.                                               *)
LEMMA ByteDivided ==
    ASSUME NEW b \in Byte
    PROVE  \E g : Rest(g, Placed(b, 39), 8) /\ g[8] = Placed(Table[b], 31)
  <1>0. b \in SUBSET Int /\ Table[b] \in Word
    BY TableAssumption DEF Byte
  <1>1. Shifted(Terms(b), 32) = Placed(b, 39)
    <2>1. Terms(b) = Placed(b, 7)
      BY DEF Terms, Placed
    <2>2. 7 + 32 = 39
      OBVIOUS
    <2> QED
      BY <1>0, <2>1, <2>2, PlacedShifted
  <1>2. Placed(b, 39) \in SUBSET Int
    BY <1>0, PlacedInt
  <1>3. PICK g : Rest(g, Placed(b, 39), 8) /\ Remainder(Placed(b, 39), 8) = g[8]
    BY <1>2, RemainderLoop
  <1>4. g[8] \in SUBSET Int
    BY <1>3 DEF Rest
  <1>5. Table[b] = Placed(g[8], 31)
    BY <1>1, <1>3, TableAssumption DEF Placed
  <1>6. ASSUME NEW e
        PROVE  e \in g[8] <=> e \in Placed(Table[b], 31)
    <2>1. e \in Placed(Table[b], 31) <=> e \in Int /\ 31 - e \in Table[b]
      BY <1>0, PlacedElement DEF Word
    <2>2. 31 - e \in Table[b] <=> 31 - e \in Int /\ 31 - (31 - e) \in g[8]
      BY <1>4, <1>5, PlacedElement
    <2>3. e \in Int => 31 - e \in Int /\ 31 - (31 - e) = e
      OBVIOUS
    <2> QED
      BY <1>4, <2>1, <2>2, <2>3
  <1>7. g[8] = Placed(Table[b], 31)
    BY <1>6
  <1> QED
    BY <1>3, <1>7

(* The same step of two divisions is that step of the division of both.       *)
LEMMA DividedXor ==
    ASSUME NEW p, NEW q, NEW d
    PROVE  Xor(Divided(p, d), Divided(q, d)) = Divided(Xor(p, q), d)
  BY DEF Xor, Divided

(* After n steps of a division no term has a degree below 8 - n; and either no  *)
(* step changed anything, or the last one that did left its lowest term.       *)
Dividing(x, n) ==
    /\ \A e \in x[n] : e >= 8 - n
    /\ \/ x[n] = x[0] /\ \A e \in x[0] : e < 40 - n
       \/ \E e \in 8 - n .. 7 : e \in x[n]

LEMMA DividingStep ==
    ASSUME NEW x, Rest(x, x[0], 8), NEW n \in 0 .. 7, Dividing(x, n)
    PROVE  Dividing(x, n + 1)
  <1> DEFINE d == 39 - n
             v == Shifted(V42, 7 - n)
  <1>1. /\ x[n + 1] = Divided(x[n], d)
        /\ x[n] \in SUBSET Int
        /\ x[0] \in SUBSET Int
    <2>1. n \in 0 .. 8 /\ n < 8 /\ 0 \in 0 .. 8 /\ 32 + 8 - (n + 1) = d
      OBVIOUS
    <2>2. /\ x[n + 1] = Divided(x[n], 32 + 8 - (n + 1))
          /\ x[n] \in SUBSET Int /\ x[0] \in SUBSET Int
      BY <2>1 DEF Rest
    <2> QED
      BY <2>1, <2>2
  <1>2. \A e \in v : e \in Int /\ e >= 7 - n
    BY DEF Shifted, V42
  <1>3. 7 - n \in v
    <2>1. 0 \in V42 /\ 0 + (7 - n) = 7 - n
      BY DEF V42
    <2> QED
      BY <2>1 DEF Shifted
  <1> HIDE DEF v
  <1>4. CASE d \in x[n]
    <2>1. x[n + 1] = Xor(x[n], v)
      <3>1. d - 32 = 7 - n
        OBVIOUS
      <3> QED
        BY <1>1, <1>4, <3>1 DEF Divided, v
    <2>2. 7 - n \notin x[n]
      BY DEF Dividing
    <2>3. 7 - n \in x[n + 1]
      BY <1>3, <2>1, <2>2 DEF Xor
    <2>4. ASSUME NEW e \in x[n + 1]
          PROVE  e >= 8 - (n + 1)
      <3>1. CASE e \in v
        BY <1>2, <3>1
      <3>2. CASE e \in x[n]
        <4>1. e >= 8 - n /\ e \in Int
          BY <1>1, <3>2 DEF Dividing
        <4> QED
          BY <4>1
      <3> QED
        BY <2>1, <3>1, <3>2 DEF Xor
    <2>5. 7 - n \in 8 - (n + 1) .. 7
      OBVIOUS
    <2> QED
      BY <2>3, <2>4, <2>5 DEF Dividing
  <1>5. CASE d \notin x[n]
    <2>1. x[n + 1] = x[n]
      BY <1>1, <1>5 DEF Divided
    <2>2. \A e \in x[n + 1] : e >= 8 - (n + 1)
      <3> SUFFICES ASSUME NEW e \in x[n]
                   PROVE  e >= 8 - (n + 1)
        BY <2>1
      <3>1. e >= 8 - n /\ e \in Int
        BY <1>1 DEF Dividing
      <3> QED
        BY <3>1
    <2>3. CASE x[n] = x[0] /\ \A e \in x[0] : e < 40 - n
      <3>1. \A e \in x[0] : e < 40 - (n + 1)
        <4> SUFFICES ASSUME NEW e \in x[0]
                     PROVE  e < 40 - (n + 1)
          OBVIOUS
        <4>1. e < 40 - n /\ e # 39 - n /\ e \in Int
          BY <1>1, <1>5, <2>3
        <4> QED
          BY <4>1
      <3> QED
        BY <2>1, <2>2, <2>3, <3>1 DEF Dividing
    <2>4. CASE \E e \in 8 - n .. 7 : e \in x[n]
      <3>1. PICK e \in 8 - n .. 7 : e \in x[n]
        BY <2>4
      <3>2. e \in 8 - (n + 1) .. 7
        OBVIOUS
      <3> QED
        BY <2>1, <2>2, <3>1, <3>2 DEF Dividing
    <2> QED
      BY <2>3, <2>4 DEF Dividing
  <1> QED
    BY <1>4, <1>5

(* No two entries of the table begin with the same byte: the polynomial has a   *)
(* constant term, so the last multiple of it that a division subtracts stays    *)
(* visible in the last eight terms.                                           *)
LEMMA EntriesApart ==
    ASSUME NEW b \in Byte, NEW c \in Byte,
           Table[b] \cap 24 .. 31 = Table[c] \cap 24 .. 31
    PROVE  b = c
  <1>1. PICK g : Rest(g, Placed(b, 39), 8) /\ g[8] = Placed(Table[b], 31)
    BY ByteDivided
  <1>2. PICK h : Rest(h, Placed(c, 39), 8) /\ h[8] = Placed(Table[c], 31)
    BY ByteDivided
  <1> DEFINE x == [n \in 0 .. 8 |-> Xor(g[n], h[n])]
  <1>3. Rest(x, x[0], 8)
    <2>1. \A n \in 0 .. 8 : g[n] \in SUBSET Int /\ h[n] \in SUBSET Int
      BY <1>1, <1>2 DEF Rest
    <2>2. x \in [0 .. 8 -> SUBSET Int]
      BY <2>1 DEF Xor
    <2>3. ASSUME NEW n \in 0 .. 8, n < 8
          PROVE  x[n + 1] = Divided(x[n], 32 + 8 - (n + 1))
      <3> DEFINE d == 32 + 8 - (n + 1)
      <3>1. g[n + 1] = Divided(g[n], d) /\ h[n + 1] = Divided(h[n], d)
        BY <1>1, <1>2, <2>3 DEF Rest
      <3>2. n + 1 \in 0 .. 8
        BY <2>3
      <3>3. x[n + 1] = Xor(g[n + 1], h[n + 1]) /\ x[n] = Xor(g[n], h[n])
        BY <3>2
      <3> HIDE DEF d, x
      <3>4. x[n + 1] = Divided(x[n], d)
        BY <3>1, <3>3, DividedXor
      <3> QED
        BY <3>4 DEF d
    <2> HIDE DEF x
    <2> QED
      BY <2>2, <2>3 DEF Rest
  <1>4. x[0] = Xor(Placed(b, 39), Placed(c, 39))
    BY <1>1, <1>2 DEF Rest
  <1>5. x[8] = Xor(Placed(Table[b], 31), Placed(Table[c], 31))
    BY <1>1, <1>2
  <1> HIDE DEF x
  <1>6. /\ b \in SUBSET Int /\ \A k \in b : k \in 0 .. 7
        /\ c \in SUBSET Int /\ \A k \in c : k \in 0 .. 7
        /\ Table[b] \in SUBSET Int /\ Table[c] \in SUBSET Int
    BY TableAssumption DEF Byte, Word
  <1>7. \A e \in x[0] : e \in Int /\ e >= 32 /\ e < 40
    BY <1>4, <1>6 DEF Placed, Xor
  <1> DEFINE S == {n \in Nat : n <= 8 => Dividing(x, n)}
  <1>8. 0 \in S
    <2>1. \A e \in x[0] : e >= 8 - 0
      BY <1>7
    <2>2. \A e \in x[0] : e < 40 - 0
      BY <1>7
    <2> QED
      BY <2>1, <2>2 DEF Dividing
  <1>9. ASSUME NEW n \in Nat, n \in S
        PROVE  n + 1 \in S
    <2> SUFFICES ASSUME n + 1 <= 8
                 PROVE  Dividing(x, n + 1)
      OBVIOUS
    <2>1. n \in 0 .. 7 /\ Dividing(x, n)
      BY <1>9
    <2> QED
      BY <1>3, <2>1, DividingStep
  <1> HIDE DEF S
  <1>10. 8 \in S
    BY <1>8, <1>9, NatSetInduction
  <1>11. Dividing(x, 8)
    BY <1>10 DEF S
  <1>12. ASSUME NEW e \in 0 .. 7
         PROVE  e \notin x[8]
    <2>1. 31 - e \in 24 .. 31 /\ e \in Int
      OBVIOUS
    <2>2. 31 - e \in Table[b] <=> 31 - e \in Table[c]
      BY <2>1
    <2>3. /\ e \in Placed(Table[b], 31) <=> 31 - e \in Table[b]
          /\ e \in Placed(Table[c], 31) <=> 31 - e \in Table[c]
      BY <1>6, <2>1, PlacedElement
    <2> QED
      BY <1>5, <2>2, <2>3 DEF Xor
  <1>13. x[0] = {}
    <2>1. ASSUME NEW e \in 8 - 8 .. 7
          PROVE  e \notin x[8]
      <3>1. e \in 0 .. 7
        OBVIOUS
      <3> QED
        BY <1>12, <3>1
    <2>2. \A e \in x[0] : e < 40 - 8
      BY <1>11, <2>1 DEF Dividing
    <2>3. ASSUME NEW e \in x[0]
          PROVE  FALSE
      <3>1. e \in Int /\ e >= 32 /\ e < 40 - 8
        BY <1>7, <2>2
      <3> QED
        BY <3>1
    <2> QED
      BY <2>3
  <1>14. Placed(b, 39) = Placed(c, 39)
    BY <1>4, <1>13, XorFacts
  <1>15. ASSUME NEW k \in 0 .. 7
         PROVE  k \in b <=> k \in c
    <2>1. 39 - k \in Int /\ 39 - (39 - k) = k
      OBVIOUS
    <2>2. /\ 39 - k \in Placed(b, 39) <=> 39 - (39 - k) \in b
          /\ 39 - k \in Placed(c, 39) <=> 39 - (39 - k) \in c
      BY <1>6, <2>1, PlacedElement
    <2> QED
      BY <1>14, <2>1, <2>2
  <1> QED
    BY <1>6, <1>15

-----------------------------------------------------------------------------
(* Two registers that are the same from bit n upwards. *)
AgreeFrom(n, v, w) == \A k \in n .. 31 : k \in v <=> k \in w

LEMMA AgreeAll ==
    ASSUME NEW v \in Word, NEW w \in Word
    PROVE  AgreeFrom(0, v, w) <=> v = w
  BY DEF AgreeFrom, Word

(* Registers are the same after a turn only if they were looked up at the same *)
(* index and were the same above their lowest byte; so too if only the upper    *)
(* bits are known, as long as there is a byte of them.                        *)
LEMMA TurnBack ==
    ASSUME NEW v \in Word, NEW w \in Word, NEW b \in Byte, NEW c \in Byte,
           NEW n \in 0 .. 24,
           AgreeFrom(n, Turn(v, b), Turn(w, c))
    PROVE  /\ Xor(LowByte(v), b) = Xor(LowByte(w), c)
           /\ AgreeFrom(n + 8, v, w)
  <1> DEFINE i == LowByte(Xor(v, b))
             j == LowByte(Xor(w, c))
  <1>1. i = Xor(LowByte(v), b) /\ j = Xor(LowByte(w), c) /\ i \in Byte /\ j \in Byte
    BY WordXor
  <1> HIDE DEF i, j
  <1>2. Turn(v, b) = Xor(Table[i], ShiftByte(v)) /\ Turn(w, c) = Xor(Table[j], ShiftByte(w))
    BY DEF Turn, i, j
  <1>3. Table[i] \in Word /\ Table[j] \in Word
    BY <1>1, TableAssumption
  <1>4. \A k \in 24 .. 31 : k \notin ShiftByte(v) /\ k \notin ShiftByte(w)
    <2>1. \A k \in 24 .. 31 : k \in 0 .. 31 /\ k + 8 \notin 0 .. 31
      OBVIOUS
    <2> QED
      BY <2>1, ShiftWord DEF Word
  <1>5. \A k \in 24 .. 31 : k \in Table[i] <=> k \in Table[j]
    <2>1. \A k \in 24 .. 31 : k \in n .. 31
      OBVIOUS
    <2>2. \A k \in 24 .. 31 : k \in Turn(v, b) <=> k \in Turn(w, c)
      BY <2>1 DEF AgreeFrom
    <2> QED
      BY <1>2, <1>4, <2>2 DEF Xor
  <1>6. i = j
    <2>1. Table[i] \cap 24 .. 31 = Table[j] \cap 24 .. 31
      BY <1>5
    <2> QED
      BY <1>1, <2>1, EntriesApart
  <1>7. AgreeFrom(n + 8, v, w)
    <2> SUFFICES ASSUME NEW k \in n + 8 .. 31
                 PROVE  k \in v <=> k \in w
      BY DEF AgreeFrom
    <2>1. k - 8 \in n .. 31 /\ k - 8 \in 0 .. 31 /\ (k - 8) + 8 = k
      OBVIOUS
    <2>2. k - 8 \in Turn(v, b) <=> k - 8 \in Turn(w, c)
      BY <2>1 DEF AgreeFrom
    <2>3. k - 8 \in ShiftByte(v) <=> k - 8 \in ShiftByte(w)
      BY <1>2, <1>6, <2>2 DEF Xor
    <2> QED
      BY <2>1, <2>3, ShiftWord
  <1> QED
    BY <1>1, <1>6, <1>7

LEMMA LoopBack ==
    ASSUME NEW a \in Seq(Byte), NEW r, NEW crc, Register(r, crc, a),
           NEW b \in Seq(Byte), NEW q, Register(q, crc, b), Len(b) = Len(a),
           NEW k \in 1 .. Len(a), NEW n \in 0 .. 24, AgreeFrom(n, r[k], q[k])
    PROVE  /\ r[k - 1] \in Word /\ q[k - 1] \in Word
           /\ Xor(LowByte(r[k - 1]), a[k]) = Xor(LowByte(q[k - 1]), b[k])
           /\ AgreeFrom(n + 8, r[k - 1], q[k - 1])
  <1>1. /\ Len(a) \in Nat
        /\ k - 1 \in 0 .. Len(a) /\ k - 1 < Len(a) /\ (k - 1) + 1 = k
    BY LenProperties
  <1>2. a[k] \in Byte /\ b[k] \in Byte
    BY ElementOfSeq
  <1>3. r[k - 1] \in Word /\ q[k - 1] \in Word
    BY <1>1 DEF Register
  <1>4. r[k] = Turn(r[k - 1], a[k]) /\ q[k] = Turn(q[k - 1], b[k])
    <2>1. /\ r[(k - 1) + 1] = Turn(r[k - 1], a[(k - 1) + 1])
          /\ q[(k - 1) + 1] = Turn(q[k - 1], b[(k - 1) + 1])
      BY <1>1 DEF Register
    <2> QED
      BY <1>1, <2>1
  <1>5. AgreeFrom(n, Turn(r[k - 1], a[k]), Turn(q[k - 1], b[k]))
    BY <1>4
  <1> QED
    BY <1>2, <1>3, <1>5, TurnBack

(* Two messages that differ, but in no more than four bytes in a row. *)
Burst(a, b, h) ==
    /\ Len(b) = Len(a)
    /\ h \in 1 .. Len(a) /\ a[h] # b[h]
    /\ \A i \in 1 .. Len(a) : a[i] # b[i] => h <= i /\ i <= h + 3

(* Behind the burst the loop can be undone, turn by turn, up to its last byte;  *)
(* from there each turn loses the lowest byte of the register, but the indices  *)
(* of four turns are still known, and the one at the first damaged byte differs.*)
LEMMA BurstChangesCrc ==
    ASSUME NEW a \in Seq(Byte), NEW b \in Seq(Byte), NEW h, Burst(a, b, h),
           NEW crc \in Word
    PROVE  crc32_update(crc, a) # crc32_update(crc, b)
  <1> SUFFICES ASSUME crc32_update(crc, a) = crc32_update(crc, b)
               PROVE  FALSE
    OBVIOUS
  <1> DEFINE N == Len(a)
             e == IF h + 3 <= N THEN h + 3 ELSE N
  <1>1. PICK r : Register(r, crc, a) /\ crc32_update(crc, a) = Xor(r[N], Ones)
    BY RegisterLoop
  <1>2. PICK q : Register(q, crc, b) /\ crc32_update(crc, b) = Xor(q[N], Ones)
    BY RegisterLoop DEF Burst
  <1>3. /\ N \in Nat /\ Len(b) = N /\ h \in 1 .. N /\ h \in Nat /\ h - 1 \in Nat
        /\ e \in Nat /\ h <= e /\ e <= N /\ e - h <= 3 /\ (e < N => e = h + 3)
    BY LenProperties DEF Burst
  <1>4. /\ a[h] # b[h]
        /\ \A i \in 1 .. N : i < h \/ h + 3 < i => a[i] = b[i]
    BY <1>3 DEF Burst
  <1>5. r[N] = q[N]
    BY <1>1, <1>2, XorCancels
  <1> HIDE DEF N, e
  <1>6. r[h - 1] = q[h - 1]
    <2>1. SameBytes(a, 0, b, 0, h - 1)
      BY <1>3, <1>4 DEF SameBytes, N
    <2>2. r[0] = q[0]
      BY <1>1, <1>2 DEF Register
    <2>3. r[0 + (h - 1)] = q[0 + (h - 1)]
      BY <1>1, <1>2, <1>3, <2>1, <2>2, SameTurns DEF N
    <2> QED
      BY <1>3, <2>3
  <1>7. r[e] = q[e]
    <2> DEFINE S == {n \in Nat : n <= N - e => r[N - n] = q[N - n]}
    <2>1. 0 \in S
      BY <1>3, <1>5
    <2>2. ASSUME NEW n \in Nat, n \in S
          PROVE  n + 1 \in S
      <3> SUFFICES ASSUME n + 1 <= N - e
                   PROVE  r[N - (n + 1)] = q[N - (n + 1)]
        OBVIOUS
      <3> DEFINE k == N - n
      <3>1. k \in 1 .. N /\ h + 3 < k /\ N - (n + 1) = k - 1
        BY <1>3
      <3>2. r[k] = q[k] /\ a[k] = b[k]
        BY <1>3, <1>4, <2>2, <3>1
      <3> HIDE DEF k
      <3>3. AgreeFrom(0, r[k], q[k])
        BY <3>2 DEF AgreeFrom
      <3>4. /\ r[k - 1] \in Word /\ q[k - 1] \in Word
            /\ Xor(LowByte(r[k - 1]), a[k]) = Xor(LowByte(q[k - 1]), b[k])
            /\ AgreeFrom(0 + 8, r[k - 1], q[k - 1])
        BY <1>1, <1>2, <1>3, <3>1, <3>3, LoopBack DEF N
      <3>5. LowByte(r[k - 1]) = LowByte(q[k - 1])
        BY <3>2, <3>4, XorCancels
      <3>6. AgreeFrom(0, r[k - 1], q[k - 1])
        <4> SUFFICES ASSUME NEW i \in 0 .. 31
                     PROVE  i \in r[k - 1] <=> i \in q[k - 1]
          BY DEF AgreeFrom
        <4>1. i \in 0 .. 7 \/ i \in 0 + 8 .. 31
          OBVIOUS
        <4> QED
          BY <3>4, <3>5, <4>1 DEF AgreeFrom, LowByte
      <3> QED
        BY <3>1, <3>4, <3>6, AgreeAll
    <2> HIDE DEF S
    <2>3. N - e \in S
      BY <1>3, <2>1, <2>2, NatSetInduction
    <2> QED
      BY <1>3, <2>3 DEF S
  <1>8. AgreeFrom(8 * (e - h), r[h], q[h])
    <2> DEFINE S == {n \in Nat : n <= e - h => AgreeFrom(8 * n, r[e - n], q[e - n])}
    <2>1. 0 \in S
      BY <1>3, <1>7 DEF AgreeFrom
    <2>2. ASSUME NEW n \in Nat, n \in S
          PROVE  n + 1 \in S
      <3> SUFFICES ASSUME n + 1 <= e - h
                   PROVE  AgreeFrom(8 * (n + 1), r[e - (n + 1)], q[e - (n + 1)])
        OBVIOUS
      <3> DEFINE k == e - n
                 m == 8 * n
      <3>1. /\ k \in 1 .. N /\ e - (n + 1) = k - 1
            /\ m \in 0 .. 24 /\ 8 * (n + 1) = m + 8
        BY <1>3
      <3>2. AgreeFrom(m, r[k], q[k])
        BY <1>3, <2>2
      <3> HIDE DEF k, m
      <3>3. AgreeFrom(m + 8, r[k - 1], q[k - 1])
        BY <1>1, <1>2, <1>3, <3>1, <3>2, LoopBack DEF N
      <3> QED
        BY <3>1, <3>3
    <2> HIDE DEF S
    <2>3. e - h \in S
      BY <1>3, <2>1, <2>2, NatSetInduction
    <2>4. e - (e - h) = h
      BY <1>3
    <2> QED
      BY <1>3, <2>3, <2>4 DEF S
  <1>9. Xor(LowByte(r[h - 1]), a[h]) = Xor(LowByte(q[h - 1]), b[h])
    <2> DEFINE m == 8 * (e - h)
    <2>1. m \in 0 .. 24 /\ AgreeFrom(m, r[h], q[h])
      BY <1>3, <1>8
    <2> HIDE DEF m
    <2>2. h \in 1 .. Len(a) /\ Len(b) = Len(a)
      BY <1>3 DEF N
    <2>3. /\ r[h - 1] \in Word /\ q[h - 1] \in Word
          /\ Xor(LowByte(r[h - 1]), a[h]) = Xor(LowByte(q[h - 1]), b[h])
          /\ AgreeFrom(m + 8, r[h - 1], q[h - 1])
      BY <1>1, <1>2, <2>1, <2>2, LoopBack
    <2> QED
      BY <2>3
  <1> QED
    BY <1>4, <1>6, <1>9, XorCancelsLeft

-----------------------------------------------------------------------------
(* The bit of a word that is bit k of byte i of its encoding. *)
LEMMA BitOfByte ==
    ASSUME NEW i \in 1 .. 4, NEW k \in 0 .. 7
    PROVE  LET j == k + 8 * (4 - i) IN
           j \in Ones /\ j % 8 = k /\ 4 - j \div 8 = i
  BY DEF Ones

LEMMA BytesReadBack ==
    ASSUME NEW w \in Word
    PROVE  FromBytes(ToBytes(w)) = w
  <1>1. ASSUME NEW j \in Ones
        PROVE  j % 8 \in ToBytes(w)[4 - j \div 8] <=> j \in w
    <2> DEFINE k == j % 8
               i == 4 - j \div 8
    <2>1. i \in 1 .. 4 /\ k \in 0 .. 7 /\ k + 8 * (4 - i) = j
      BY DEF Ones
    <2> HIDE DEF i, k
    <2>2. k \in ToBytes(w)[i] <=> k + 8 * (4 - i) \in w
      BY <2>1 DEF ToBytes
    <2> QED
      BY <2>1, <2>2 DEF i, k
  <1>2. \A j \in w : j \in Ones
    BY DEF Word, Ones
  <1> QED
    BY <1>1, <1>2 DEF FromBytes

LEMMA DamagedBytes ==
    ASSUME NEW w \in Word, NEW burst \in [1 .. 4 -> Byte], NEW i \in 1 .. 4, burst[i] # {}
    PROVE  FromBytes([n \in 1 .. 4 |-> Xor(ToBytes(w)[n], burst[n])]) # w
  <1> DEFINE v == [n \in 1 .. 4 |-> Xor(ToBytes(w)[n], burst[n])]
  <1>1. PICK k \in 0 .. 7 : k \in burst[i]
    BY DEF Byte
  <1> DEFINE j == k + 8 * (4 - i)
  <1>2. j \in Ones /\ j % 8 = k /\ 4 - j \div 8 = i
    BY BitOfByte
  <1>3. k \in ToBytes(w)[i] <=> j \in w
    BY DEF ToBytes
  <1>4. k \in v[i] <=> ~(k \in ToBytes(w)[i])
    BY <1>1 DEF Xor
  <1> HIDE DEF j, v
  <1>5. j \in FromBytes(v) <=> k \in v[i]
    BY <1>2 DEF FromBytes
  <1>6. FromBytes(v) # w
    BY <1>3, <1>4, <1>5
  <1> QED
    BY <1>6 DEF v

LEMMA FingerprintWord ==
    ASSUME NEW msg \in Seq(Byte)
    PROVE  computeFingerprint(msg) \in Word
  <1>1. STUN \in Word
    BY DEF STUN, Word
  <1> QED
    BY <1>1, UpdateWord, WordXor DEF computeFingerprint

-----------------------------------------------------------------------------
(* What damage there was, and where. *)
OnItsWay ==
    /\ message \in Seq(Byte) /\ copy \in Seq(Byte)
    /\ \/ hit = 0 /\ copy = message
       \/ hit # 0 /\ Burst(message, copy, hit)
       \/ hit # 0 /\ copy = message /\ value # <<>>

Sealed ==
    value # <<>> =>
        \E burst \in [1 .. 4 -> Byte] :
           /\ value = [i \in 1 .. 4 |-> Xor(ToBytes(computeFingerprint(message))[i], burst[i])]
           /\ (\A i \in 1 .. 4 : burst[i] = {}) <=> (hit = 0 \/ copy # message)

LEMMA WayExtends ==
    ASSUME NEW b \in Byte, NEW d \in Byte, Extend(b, d), OnItsWay
    PROVE  OnItsWay'
  <1> DEFINE n == Len(message) + 1
  <1>1. /\ Len(message) \in Nat /\ n \in Nat
        /\ \A i \in 1 .. n : i \in 1 .. Len(message) \/ i = n
    BY LenProperties DEF OnItsWay
  <1>2. /\ message \in Seq(Byte) /\ copy \in Seq(Byte) /\ Xor(b, d) \in Byte
        /\ value = <<>> /\ value' = value
        /\ message' = Append(message, b) /\ copy' = Append(copy, Xor(b, d))
        /\ hit' = IF d # {} /\ hit = 0 THEN n ELSE hit
        /\ d # {} => hit = 0 \/ n < hit + 4
    BY WordXor DEF OnItsWay, Extend
  <1> HIDE DEF n
  <1>3. Len(copy) = Len(message)
    BY <1>2 DEF OnItsWay, Burst
  <1>4. /\ message' \in Seq(Byte) /\ copy' \in Seq(Byte)
        /\ Len(message') = n /\ Len(copy') = n
        /\ \A i \in 1 .. Len(message) : message'[i] = message[i] /\ copy'[i] = copy[i]
        /\ message'[n] = b /\ copy'[n] = Xor(b, d)
    BY <1>2, <1>3, AppendProperties DEF n
  <1>5. CASE hit = 0 /\ d = {}
    BY <1>2, <1>4, <1>5, XorFacts DEF OnItsWay, Burst
  <1>6. CASE hit = 0 /\ d # {}
    <2>1. copy = message /\ hit' = n
      BY <1>2, <1>6 DEF OnItsWay, Burst
    <2>2. b # Xor(b, d)
      BY <1>6 DEF Xor
    <2>3. n # 0 /\ n \in 1 .. n
      BY <1>1 DEF n
    <2>4. \A i \in 1 .. n : message'[i] # copy'[i] => n <= i /\ i <= n + 3
      BY <1>1, <1>4, <2>1
    <2>5. Burst(message', copy', hit')
      BY <1>4, <2>1, <2>2, <2>3, <2>4 DEF Burst
    <2> QED
      BY <1>4, <2>1, <2>3, <2>5 DEF OnItsWay
  <1>7. CASE hit # 0
    <2>1. Burst(message, copy, hit) /\ hit' = hit
      BY <1>2, <1>7 DEF OnItsWay
    <2>2. /\ hit \in 1 .. Len(message) /\ hit \in 1 .. n /\ message[hit] # copy[hit]
          /\ \A i \in 1 .. Len(message) : message[i] # copy[i] => hit <= i /\ i <= hit + 3
      BY <1>1, <2>1 DEF Burst, n
    <2>3. b # Xor(b, d) => hit <= n /\ n <= hit + 3
      <3>1. d = {} => Xor(b, d) = b
        BY XorFacts
      <3> QED
        BY <1>1, <1>2, <1>7, <2>2, <3>1
    <2>4. \A i \in 1 .. n : message'[i] # copy'[i] => hit <= i /\ i <= hit + 3
      BY <1>1, <1>4, <2>2, <2>3
    <2>5. Burst(message', copy', hit')
      BY <1>4, <2>1, <2>2, <2>4 DEF Burst
    <2> QED
      BY <1>4, <1>7, <2>1, <2>5 DEF OnItsWay
  <1> QED
    BY <1>5, <1>6, <1>7

LEMMA WaySealed ==
    ASSUME NEW burst \in [1 .. 4 -> Byte], Seal(burst), OnItsWay
    PROVE  OnItsWay' /\ Sealed'
  <1> DEFINE harmless == \A i \in 1 .. 4 : burst[i] = {}
  <1>1. /\ message' = message /\ copy' = copy
        /\ message \in Seq(Byte) /\ copy \in Seq(Byte) /\ Len(message) \in Nat
        /\ value' = [i \in 1 .. 4 |-> Xor(ToBytes(computeFingerprint(message))[i], burst[i])]
        /\ ~harmless => hit = 0
        /\ hit' = IF harmless THEN hit ELSE Len(message) + 5
        /\ value = <<>>
    BY LenProperties DEF Seal, OnItsWay
  <1>2. value' # <<>>
    <2>1. DOMAIN value' = 1 .. 4 /\ 1 \in 1 .. 4
      BY <1>1
    <2>2. DOMAIN <<>> = {}
      OBVIOUS
    <2> QED
      BY <2>1, <2>2
  <1>3. hit # 0 => copy # message
    BY <1>1 DEF OnItsWay, Burst
  <1>4. CASE harmless
    <2>1. hit' = hit
      BY <1>1, <1>4
    <2>2. OnItsWay'
      BY <1>1, <1>3, <2>1 DEF OnItsWay
    <2>3. Sealed'
      BY <1>1, <1>3, <1>4, <2>1 DEF Sealed
    <2> QED
      BY <2>2, <2>3
  <1>5. CASE ~harmless
    <2>1. hit = 0 /\ copy = message /\ hit' # 0
      BY <1>1, <1>5 DEF OnItsWay
    <2>2. OnItsWay'
      BY <1>1, <1>2, <2>1 DEF OnItsWay
    <2>3. Sealed'
      BY <1>1, <1>5, <2>1 DEF Sealed
    <2> QED
      BY <2>2, <2>3
  <1> QED
    BY <1>4, <1>5

LEMMA WayInvariant == Spec => [](OnItsWay /\ Sealed)
  <1>1. Init => OnItsWay /\ Sealed
    BY EmptySeq DEF Init, OnItsWay, Sealed
  <1>2. OnItsWay /\ Sealed /\ [Next]_vars => OnItsWay' /\ Sealed'
    <2> SUFFICES ASSUME OnItsWay, Sealed, [Next]_vars
                 PROVE  OnItsWay' /\ Sealed'
      OBVIOUS
    <2>1. ASSUME NEW b \in FirstBytes \cup OtherBytes, NEW d \in Damage \cup {{}},
                 Extend(b, d)
          PROVE  OnItsWay' /\ Sealed'
      <3>1. b \in Byte /\ d \in Byte
        BY CrcAssumption DEF Byte
      <3>2. value' = <<>>
        BY <2>1 DEF Extend
      <3>3. Sealed'
        BY <3>2 DEF Sealed
      <3> QED
        BY <2>1, <3>1, <3>3, WayExtends
    <2>2. ASSUME NEW burst \in [1 .. 4 -> Damage \cup {{}}], Seal(burst)
          PROVE  OnItsWay' /\ Sealed'
      <3>1. burst \in [1 .. 4 -> Byte]
        BY CrcAssumption DEF Byte
      <3> QED
        BY <2>2, <3>1, WaySealed
    <2>3. CASE UNCHANGED vars
      BY <2>3 DEF vars, OnItsWay, Sealed
    <2> QED
      BY <2>1, <2>2, <2>3 DEF Next
  <1> QED
    BY <1>1, <1>2, PTL DEF Spec

(* Wherever a message of any length is cut, the CRC-32 of its pieces, each     *)
(* started from the result for the one before, is that of the whole            *)
(* (crc32.hpp:75-81).                                                        *)
THEOREM AnyPieces == Spec => []PiecesMakeWhole
  <1>1. OnItsWay => PiecesMakeWhole
    BY Pieces, WordXor DEF OnItsWay, PiecesMakeWhole
  <1> QED
    BY <1>1, WayInvariant, PTL

(* No burst of up to four bytes, in a message of any length or in the value,   *)
(* leaves a FINGERPRINT that verifies, and without damage it does              *)
(* (crc32.hpp:77-79, FingerprintAttr.hpp:64-67,79-80).                         *)
THEOREM BurstsDetected == Spec => []DamageDetected
  <1>1. ASSUME OnItsWay, Sealed
        PROVE  DamageDetected
    <2> SUFFICES ASSUME value # <<>>
                 PROVE  Verifies <=> hit = 0
      BY DEF DamageDetected
    <2> DEFINE w == computeFingerprint(message)
    <2>1. PICK burst \in [1 .. 4 -> Byte] :
             /\ value = [i \in 1 .. 4 |-> Xor(ToBytes(w)[i], burst[i])]
             /\ (\A i \in 1 .. 4 : burst[i] = {}) <=> (hit = 0 \/ copy # message)
      BY <1>1 DEF Sealed
    <2>2. w \in Word /\ message \in Seq(Byte) /\ copy \in Seq(Byte)
      BY <1>1, FingerprintWord DEF OnItsWay
    <2> HIDE DEF w
    <2>3. (\A i \in 1 .. 4 : burst[i] = {}) => FromBytes(value) = w
      <3> SUFFICES ASSUME \A i \in 1 .. 4 : burst[i] = {}
                   PROVE  FromBytes(value) = w
        OBVIOUS
      <3>1. \A i \in 1 .. 4 : value[i] = ToBytes(w)[i]
        BY <2>1, XorFacts
      <3>2. value = ToBytes(w)
        BY <2>1, <3>1 DEF ToBytes
      <3> QED
        BY <2>2, <3>2, BytesReadBack
    <2>4. CASE hit = 0
      <3>1. copy = message
        BY <1>1, <2>4 DEF OnItsWay
      <3> QED
        BY <2>1, <2>3, <2>4, <3>1 DEF Verifies, w
    <2>5. CASE hit # 0 /\ copy = message
      <3>1. PICK i \in 1 .. 4 : burst[i] # {}
        BY <2>1, <2>5
      <3>2. FromBytes(value) # w
        BY <2>1, <2>2, <3>1, DamagedBytes
      <3> QED
        BY <2>5, <3>2 DEF Verifies, w
    <2>6. CASE hit # 0 /\ copy # message
      <3>1. FromBytes(value) = w
        BY <2>1, <2>3, <2>6
      <3>2. Burst(message, copy, hit)
        BY <1>1, <2>6 DEF OnItsWay
      <3>3. crc32_update(Zero, message) # crc32_update(Zero, copy)
        BY <2>2, <3>2, BurstChangesCrc, WordXor
      <3>4. computeFingerprint(copy) # w
        BY <3>3, XorCancels DEF computeFingerprint, w
      <3> QED
        BY <2>6, <3>1, <3>4 DEF Verifies
    <2> QED
      BY <2>4, <2>5, <2>6
  <1> QED
    BY <1>1, WayInvariant, PTL

-----------------------------------------------------------------------------
(* The terms of the bytes behind the first j, above the 32 zeros.              *)
Pending(msg, j) ==
    UNION {Placed(msg[i], 39 + 8 * (Len(msg) - i)) : i \in j + 1 .. Len(msg)}

LEMMA PendingElement ==
    ASSUME NEW msg \in Seq(Byte), NEW j \in 0 .. Len(msg), NEW e
    PROVE  e \in Pending(msg, j) <=>
              e \in Int /\ \E i \in j + 1 .. Len(msg) : 39 + 8 * (Len(msg) - i) - e \in msg[i]
  <1>1. Len(msg) \in Nat /\ \A i \in j + 1 .. Len(msg) : i \in 1 .. Len(msg) /\ i \in Int
    BY LenProperties
  <1>2. \A i \in j + 1 .. Len(msg) :
           msg[i] \in SUBSET Int /\ 39 + 8 * (Len(msg) - i) \in Int
    BY <1>1, ElementOfSeq DEF Byte
  <1>3. \A i \in j + 1 .. Len(msg) :
           e \in Placed(msg[i], 39 + 8 * (Len(msg) - i))
              <=> e \in Int /\ 39 + 8 * (Len(msg) - i) - e \in msg[i]
    BY <1>2, PlacedElement
  <1>4. e \in Pending(msg, j) <=>
           \E i \in j + 1 .. Len(msg) : e \in Placed(msg[i], 39 + 8 * (Len(msg) - i))
    BY DEF Pending
  <1> QED
    BY <1>3, <1>4

LEMMA PendingBounds ==
    ASSUME NEW msg \in Seq(Byte), NEW j \in 0 .. Len(msg)
    PROVE  /\ Pending(msg, j) \in SUBSET Int
           /\ \A e \in Pending(msg, j) : e < 32 + 8 * (Len(msg) - j)
  <1>1. ASSUME NEW e \in Pending(msg, j)
        PROVE  e \in Int /\ e < 32 + 8 * (Len(msg) - j)
    <2>1. PICK i \in j + 1 .. Len(msg) : 39 + 8 * (Len(msg) - i) - e \in msg[i]
      BY PendingElement
    <2>2. e \in Int
      BY PendingElement
    <2>3. Len(msg) \in Nat /\ i \in 1 .. Len(msg) /\ i \in Int /\ j + 1 <= i
      BY LenProperties
    <2>4. 39 + 8 * (Len(msg) - i) - e \in 0 .. 7
      BY <2>1, <2>3, ElementOfSeq DEF Byte
    <2> QED
      BY <2>2, <2>3, <2>4
  <1> QED
    BY <1>1

(* The next byte is the one with the highest terms.                          *)
LEMMA PendingNext ==
    ASSUME NEW msg \in Seq(Byte), NEW j \in 0 .. Len(msg), j < Len(msg)
    PROVE  Pending(msg, j) =
              Xor(Placed(msg[j + 1], 39 + 8 * (Len(msg) - (j + 1))), Pending(msg, j + 1))
  <1> DEFINE L == Len(msg)
             t == 39 + 8 * (L - (j + 1))
  <1>1. /\ L \in Nat /\ j + 1 \in 1 .. L /\ j + 1 \in 0 .. L /\ t \in Int
        /\ \A i : i \in j + 1 .. L <=> i = j + 1 \/ i \in (j + 1) + 1 .. L
    BY LenProperties
  <1>2. msg[j + 1] \in Byte /\ msg[j + 1] \in SUBSET Int
    BY <1>1, ElementOfSeq DEF Byte
  <1>3. ASSUME NEW e
        PROVE  e \in Pending(msg, j) <=> e \in Placed(msg[j + 1], t) \/ e \in Pending(msg, j + 1)
    <2>1. e \in Pending(msg, j) <=>
             e \in Int /\ \E i \in j + 1 .. L : 39 + 8 * (L - i) - e \in msg[i]
      BY PendingElement
    <2>2. e \in Pending(msg, j + 1) <=>
             e \in Int /\ \E i \in (j + 1) + 1 .. L : 39 + 8 * (L - i) - e \in msg[i]
      BY <1>1, PendingElement
    <2>3. e \in Placed(msg[j + 1], t) <=> e \in Int /\ t - e \in msg[j + 1]
      BY <1>1, <1>2, PlacedElement
    <2> DEFINE Has(i) == 39 + 8 * (L - i) - e \in msg[i]
    <2>4. /\ e \in Pending(msg, j) <=> e \in Int /\ \E i \in j + 1 .. L : Has(i)
          /\ e \in Pending(msg, j + 1) <=> e \in Int /\ \E i \in (j + 1) + 1 .. L : Has(i)
          /\ e \in Placed(msg[j + 1], t) <=> e \in Int /\ Has(j + 1)
      BY <2>1, <2>2, <2>3
    <2> HIDE DEF Has
    <2> QED
      BY <1>1, <2>4
  <1>4. ASSUME NEW e \in Placed(msg[j + 1], t)
        PROVE  e \notin Pending(msg, j + 1)
    <2>1. e \in Int /\ t - e \in msg[j + 1]
      BY <1>1, <1>2, PlacedElement
    <2>2. t - e \in 0 .. 7
      BY <1>2, <2>1 DEF Byte
    <2>3. ~(e < 32 + 8 * (L - (j + 1)))
      BY <1>1, <2>1, <2>2
    <2> QED
      BY <1>1, <2>3, PendingBounds
  <1> QED
    BY <1>3, <1>4 DEF Xor

-----------------------------------------------------------------------------
(* The register above the byte that is shifted out. *)
LEMMA RegisterSplit ==
    ASSUME NEW w \in Word, NEW t \in Int
    PROVE  /\ Placed(w, t) = Xor(Placed(LowByte(w), t), Placed(ShiftByte(w), t - 8))
           /\ \A e \in Placed(ShiftByte(w), t - 8) : e <= t - 8
  <1>1. w \in SUBSET Int /\ LowByte(w) \in SUBSET Int
    BY DEF Word, LowByte
  <1>2. ShiftByte(w) \in Word /\ ShiftByte(w) \in SUBSET Int
    BY ShiftWord DEF Word
  <1>3. t - 8 \in Int
    OBVIOUS
  <1>4. ASSUME NEW e
        PROVE  /\ e \in Placed(w, t) <=> e \in Int /\ t - e \in w
               /\ e \in Placed(LowByte(w), t) <=> e \in Int /\ t - e \in w /\ t - e \in 0 .. 7
               /\ e \in Placed(ShiftByte(w), t - 8) <=>
                     e \in Int /\ t - e \in w /\ ~(t - e \in 0 .. 7)
               /\ e \in Placed(ShiftByte(w), t - 8) => e <= t - 8
    <2>1. /\ e \in Placed(w, t) <=> e \in Int /\ t - e \in w
          /\ e \in Placed(LowByte(w), t) <=> e \in Int /\ t - e \in LowByte(w)
          /\ e \in Placed(ShiftByte(w), t - 8) <=> e \in Int /\ (t - 8) - e \in ShiftByte(w)
      BY <1>1, <1>2, <1>3, PlacedElement
    <2>2. t - e \in LowByte(w) <=> t - e \in w /\ t - e \in 0 .. 7
      BY DEF LowByte
    <2>3. ASSUME e \in Int
          PROVE  /\ (t - 8) - e \in ShiftByte(w) <=> t - e \in w /\ ~(t - e \in 0 .. 7)
                 /\ (t - 8) - e \in ShiftByte(w) => e <= t - 8
      <3> DEFINE k == (t - 8) - e
      <3>1. k \in Int /\ k + 8 = t - e
        BY <2>3
      <3>2. t - e \in w => k + 8 \in 0 .. 31
        BY <3>1 DEF Word
      <3>3. k \in ShiftByte(w) => k \in 0 .. 31
        BY <1>2 DEF Word
      <3>4. k \in 0 .. 31 => (k \in ShiftByte(w) <=> k + 8 \in w)
        BY ShiftWord
      <3>5. k \in 0 .. 31 => ~(k + 8 \in 0 .. 7) /\ e <= t - 8
        BY <2>3
      <3>6. k + 8 \in 0 .. 31 /\ ~(k + 8 \in 0 .. 7) => k \in 0 .. 31
        BY <3>1
      <3> HIDE DEF k
      <3>7. k \in ShiftByte(w) <=> k + 8 \in w /\ ~(k + 8 \in 0 .. 7)
        BY <3>1, <3>2, <3>3, <3>4, <3>5, <3>6
      <3> QED
        BY <3>1, <3>3, <3>5, <3>7 DEF k
    <2> QED
      BY <2>1, <2>2, <2>3
  <1> QED
    BY <1>4 DEF Xor

(* The dividend of a message when its first j bytes are divided: the register  *)
(* in the place of the next 32 terms, and the bytes that are left.             *)
Dividend(msg, reg, j) == Xor(Placed(reg, 31 + 8 * (Len(msg) - j)), Pending(msg, j))

LEMMA LoopDivides ==
    ASSUME NEW msg \in Seq(Byte), NEW r, NEW crc, Register(r, crc, msg),
           NEW P, NEW f, Rest(f, P, 8 * Len(msg)),
           NEW j \in 0 .. Len(msg), j < Len(msg),
           f[8 * j] = Dividend(msg, r[j], j)
    PROVE  f[8 * (j + 1)] = Dividend(msg, r[j + 1], j + 1)
  <1> DEFINE s == 8 * (Len(msg) - (j + 1))
             b == msg[j + 1]
             w == r[j]
             i == Xor(LowByte(w), b)
             q == Xor(Placed(ShiftByte(w), 31 + s), Pending(msg, j + 1))
  <1>1. /\ Len(msg) \in Nat /\ j \in Nat /\ j + 1 \in 1 .. Len(msg) /\ j + 1 \in 0 .. Len(msg)
        /\ s \in Nat /\ 31 + 8 * (Len(msg) - j) = 39 + s /\ 31 + s = (39 + s) - 8
        /\ 8 * Len(msg) = 8 * j + 8 + s /\ 8 * j \in Nat /\ 8 * Len(msg) \in Nat
        /\ 8 * (j + 1) = 8 * j + 8
        /\ 39 + s \in Int /\ 31 + s \in Int
    BY LenProperties
  <1>2. b \in Byte /\ w \in Word /\ LowByte(w) \in Byte /\ i \in Byte
    BY <1>1, ElementOfSeq, WordXor DEF Register
  <1>3. r[j + 1] = Xor(Table[i], ShiftByte(w))
    <2>1. r[j + 1] = Turn(w, b)
      BY DEF Register
    <2>2. LowByte(Xor(w, b)) = i
      BY <1>2, WordXor
    <2> QED
      BY <2>1, <2>2 DEF Turn
  <1>4. /\ ShiftByte(w) \in SUBSET Int /\ i \in SUBSET Int /\ b \in SUBSET Int
        /\ LowByte(w) \in SUBSET Int /\ Table[i] \in SUBSET Int
    <2>1. Table[i] \in Word
      BY <1>2, TableAssumption
    <2>2. ShiftByte(w) \in Word
      BY <1>2, ShiftWord
    <2> HIDE DEF i, b, w
    <2> QED
      BY <1>2, <2>1, <2>2, Degrees
  <1>5. Pending(msg, j) = Xor(Placed(b, 39 + s), Pending(msg, j + 1))
    BY PendingNext
  <1>6. f[8 * j] = Xor(Placed(w, 39 + s), Pending(msg, j))
    BY <1>1 DEF Dividend
  <1>7. /\ Pending(msg, j + 1) \in SUBSET Int
        /\ \A e \in Pending(msg, j + 1) : e < 32 + s
    BY <1>1, PendingBounds
  <1> HIDE DEF s, b, w, i
  <1>8. /\ Placed(w, 39 + s) = Xor(Placed(LowByte(w), 39 + s), Placed(ShiftByte(w), 31 + s))
        /\ \A e \in Placed(ShiftByte(w), 31 + s) : e <= 31 + s
    BY <1>1, <1>2, RegisterSplit
  <1>9. /\ Placed(ShiftByte(w), 31 + s) \in SUBSET Int
        /\ q \in SUBSET Int /\ \A e \in q : e < 32 + s
    <2>1. Placed(ShiftByte(w), 31 + s) \in SUBSET Int
      BY <1>1, <1>4, PlacedInt
    <2>2. \A e \in q : e \in Placed(ShiftByte(w), 31 + s) \/ e \in Pending(msg, j + 1)
      BY DEF Xor
    <2>3. \A e \in q : e \in Int /\ e < 32 + s
      BY <1>1, <1>7, <1>8, <2>1, <2>2
    <2> QED
      BY <2>1, <2>3
  <1>10. PICK g : Rest(g, Placed(i, 39), 8) /\ g[8] = Placed(Table[i], 31)
    BY <1>2, ByteDivided
  <1>11. f[8 * j] = Xor(Shifted(Placed(i, 39), s), q)
    <2>0. s \in Int /\ 39 \in Int /\ i \in SUBSET Int
      BY <1>1, <1>4
    <2>1. Shifted(Placed(i, 39), s) = Placed(i, 39 + s)
      BY <2>0, PlacedShifted
    <2>2. Placed(i, 39 + s) = Xor(Placed(LowByte(w), 39 + s), Placed(b, 39 + s))
      BY <1>1, <1>4, PlacedXor DEF i
    <2>3. \A x, y, z, u : Xor(Xor(x, y), Xor(z, u)) = Xor(Xor(x, z), Xor(y, u))
      BY DEF Xor
    <2> QED
      BY <1>5, <1>6, <1>8, <2>1, <2>2, <2>3
  <1>12. f[8 * j + 8] = Xor(Shifted(g[8], s), q)
    <2> DEFINE m == 8 * j
               N == 8 * Len(msg)
               p == Placed(i, 39)
    <2>1. p \in SUBSET Int /\ Rest(g, p, 8)
      BY <1>4, <1>10, PlacedInt
    <2>2. EightLeft(f, P, N, m, s)
      BY <1>1 DEF EightLeft
    <2>3. HasComeTo(f, m, p, s, q)
      BY <1>9, <1>11 DEF HasComeTo
    <2> HIDE DEF m, N, p, q
    <2>4. f[m + 8] = Xor(Shifted(g[8], s), q)
      BY <2>1, <2>2, <2>3, EightSteps
    <2> QED
      BY <2>4 DEF m, q
  <1>13. Shifted(g[8], s) = Placed(Table[i], 31 + s)
    <2>1. s \in Int /\ 31 \in Int /\ Table[i] \in SUBSET Int
      BY <1>1, <1>4
    <2> QED
      BY <1>10, <2>1, PlacedShifted
  <1>14. Placed(r[j + 1], 31 + s) = Xor(Placed(Table[i], 31 + s), Placed(ShiftByte(w), 31 + s))
    BY <1>1, <1>3, <1>4, PlacedXor
  <1>15. f[8 * (j + 1)] = Xor(Placed(r[j + 1], 31 + s), Pending(msg, j + 1))
    BY <1>1, <1>12, <1>13, <1>14, XorFacts
  <1> QED
    BY <1>15 DEF Dividend, s

LEMMA DividendStarts ==
    ASSUME NEW msg \in Seq(Byte)
    PROVE  Xor(Shifted(Polynomial(msg), 32), Shifted(Ones, 8 * Len(msg))) = Dividend(msg, Ones, 0)
  <1> DEFINE L == Len(msg)
  <1>1. /\ L \in Nat /\ 0 \in 0 .. L /\ 8 * L \in Int /\ 31 + 8 * L \in Int
        /\ L - 0 = L /\ 0 + 1 = 1
        /\ Ones \in SUBSET Int
    BY LenProperties DEF Ones
  <1>2. \A i \in 1 .. L : msg[i] \in SUBSET Int /\ 8 * (L - i) \in Int
    BY <1>1, ElementOfSeq DEF Byte
  <1>3. Shifted(Ones, 8 * L) = Placed(Ones, 31 + 8 * L)
    <2>1. ASSUME NEW e
          PROVE  e \in Shifted(Ones, 8 * L) <=> e \in Placed(Ones, 31 + 8 * L)
      <3>1. e \in Shifted(Ones, 8 * L) <=> e \in Int /\ e - 8 * L \in Ones
        BY <1>1, ShiftedElement
      <3>2. e \in Placed(Ones, 31 + 8 * L) <=> e \in Int /\ (31 + 8 * L) - e \in Ones
        BY <1>1, PlacedElement
      <3>3. e \in Int => (e - 8 * L \in 0 .. 31 <=> (31 + 8 * L) - e \in 0 .. 31)
        <4>1. \A m, d \in Int : d - m \in 0 .. 31 <=> (31 + m) - d \in 0 .. 31
          OBVIOUS
        <4> QED
          BY <1>1, <4>1
      <3> QED
        BY <3>1, <3>2, <3>3 DEF Ones
    <2> QED
      BY <2>1
  <1>4. Shifted(Polynomial(msg), 32) = Pending(msg, 0)
    <2> DEFINE T(i) == Shifted(Terms(msg[i]), 8 * (L - i))
    <2>1. ASSUME NEW i \in 1 .. L
          PROVE  /\ T(i) \in SUBSET Int
                 /\ \A e \in Int : e - 32 \in T(i) <=> 39 + 8 * (L - i) - e \in msg[i]
      <3>1. T(i) = Placed(msg[i], 7 + 8 * (L - i))
        <4>1. Terms(msg[i]) = Placed(msg[i], 7)
          BY DEF Terms, Placed
        <4> QED
          BY <1>2, <4>1, PlacedShifted
      <3>2. 7 + 8 * (L - i) \in Int
        BY <1>2
      <3>3. T(i) \in SUBSET Int
        BY <1>2, <3>1, <3>2, PlacedInt
      <3>4. ASSUME NEW e \in Int
            PROVE  e - 32 \in T(i) <=> 39 + 8 * (L - i) - e \in msg[i]
        <4>1. (7 + 8 * (L - i)) - (e - 32) = 39 + 8 * (L - i) - e /\ e - 32 \in Int
          BY <1>2
        <4>2. e - 32 \in Placed(msg[i], 7 + 8 * (L - i))
                 <=> e - 32 \in Int /\ (7 + 8 * (L - i)) - (e - 32) \in msg[i]
          BY <1>2, <3>2, PlacedElement
        <4> QED
          BY <3>1, <4>1, <4>2
      <3> QED
        BY <3>3, <3>4
    <2>2. Polynomial(msg) = UNION {T(i) : i \in 1 .. L}
      BY DEF Polynomial
    <2> HIDE DEF T
    <2>3. Polynomial(msg) \in SUBSET Int
      BY <2>1, <2>2
    <2>4. ASSUME NEW e
          PROVE  e \in Shifted(Polynomial(msg), 32) <=> e \in Pending(msg, 0)
      <3>1. e \in Shifted(Polynomial(msg), 32) <=> e \in Int /\ e - 32 \in Polynomial(msg)
        BY <2>3, ShiftedElement
      <3>2. e - 32 \in Polynomial(msg) <=> \E i \in 1 .. L : e - 32 \in T(i)
        BY <2>2
      <3>3. e \in Pending(msg, 0) <=>
               e \in Int /\ \E i \in 1 .. L : 39 + 8 * (L - i) - e \in msg[i]
        BY <1>1, PendingElement
      <3> QED
        BY <2>1, <3>1, <3>2, <3>3
    <2> QED
      BY <2>4
  <1>5. Dividend(msg, Ones, 0) = Xor(Placed(Ones, 31 + 8 * L), Pending(msg, 0))
    BY <1>1 DEF Dividend
  <1> QED
    BY <1>3, <1>4, <1>5, XorFacts

LEMMA UpdateDivides ==
    ASSUME NEW msg \in Seq(Byte)
    PROVE  crc32_update(Zero, msg) = Checksum(msg)
  <1> DEFINE L == Len(msg)
             P == Xor(Shifted(Polynomial(msg), 32), Shifted(Ones, 8 * L))
  <1>1. L \in Nat /\ 8 * L \in Nat /\ 8 * 0 = 0 /\ L - L = 0 /\ L \in 0 .. L /\ 31 + 8 * 0 = 31
    BY LenProperties
  <1>2. PICK r : Register(r, Zero, msg) /\ crc32_update(Zero, msg) = Xor(r[L], Ones)
    BY RegisterLoop, WordXor
  <1>3. r[0] = Ones
    BY <1>2, XorFacts DEF Register, Zero
  <1>4. P = Dividend(msg, r[0], 0)
    BY <1>3, DividendStarts
  <1>5. P \in SUBSET Int
    <2>1. Ones \in SUBSET Int /\ 31 + 8 * (L - 0) \in Int /\ 0 \in 0 .. L
      BY <1>1 DEF Ones
    <2>2. Placed(Ones, 31 + 8 * (L - 0)) \in SUBSET Int
      BY <2>1, PlacedInt
    <2>3. Pending(msg, 0) \in SUBSET Int
      BY <2>1, PendingBounds
    <2> HIDE DEF P
    <2> QED
      BY <1>3, <1>4, <2>2, <2>3 DEF Dividend, Xor
  <1>6. Checksum(msg) = {31 - e : e \in Xor(Remainder(P, 8 * L), Ones)}
    BY DEF Checksum
  <1> HIDE DEF P
  <1>7. PICK f : Rest(f, P, 8 * L) /\ Remainder(P, 8 * L) = f[8 * L]
    BY <1>1, <1>5, RemainderLoop
  <1> DEFINE S == {j \in Nat : j <= L => f[8 * j] = Dividend(msg, r[j], j)}
  <1>8. 0 \in S
    BY <1>1, <1>4, <1>7 DEF Rest
  <1>9. ASSUME NEW j \in Nat, j \in S
        PROVE  j + 1 \in S
    <2> SUFFICES ASSUME j + 1 <= L
                 PROVE  f[8 * (j + 1)] = Dividend(msg, r[j + 1], j + 1)
      OBVIOUS
    <2>1. j \in 0 .. L /\ j < L /\ f[8 * j] = Dividend(msg, r[j], j)
      BY <1>1, <1>9
    <2> QED
      BY <1>2, <1>7, <2>1, LoopDivides
  <1> HIDE DEF S
  <1>10. f[8 * L] = Dividend(msg, r[L], L)
    <2>1. L \in S
      BY <1>1, <1>8, <1>9, NatSetInduction
    <2> QED
      BY <1>1, <2>1 DEF S
  <1>11. Dividend(msg, r[L], L) = Placed(r[L], 31)
    <2>1. Pending(msg, L) = {}
      <3>1. \A i : i \notin L + 1 .. L
        BY <1>1
      <3> QED
        BY <3>1 DEF Pending
    <2> QED
      BY <1>1, <2>1, XorFacts DEF Dividend
  <1>12. r[L] \in Word /\ r[L] \in SUBSET Int
    <2>1. r[L] \in Word
      BY <1>1, <1>2 DEF Register
    <2> QED
      BY <2>1, Degrees
  <1> DEFINE w == r[L]
             R == Xor(Placed(w, 31), Ones)
  <1>13. Checksum(msg) = Placed(R, 31)
    BY <1>6, <1>7, <1>10, <1>11 DEF Placed
  <1>14. Placed(w, 31) \in SUBSET Int /\ R \in SUBSET Int
    <2>1. Placed(w, 31) \in SUBSET Int
      BY <1>12, PlacedInt
    <2> QED
      BY <2>1, Degrees
  <1>15. ASSUME NEW e
         PROVE  e \in Placed(R, 31) <=> e \in Xor(w, Ones)
    <2>1. e \in Placed(R, 31) <=> e \in Int /\ 31 - e \in R
      BY <1>14, PlacedElement
    <2>2. 31 - e \in Placed(w, 31) <=> 31 - e \in Int /\ 31 - (31 - e) \in w
      BY <1>12, PlacedElement
    <2>3. e \in Int => /\ 31 - e \in Int /\ 31 - (31 - e) = e
                       /\ 31 - e \in Ones <=> e \in Ones
      BY DEF Ones
    <2>4. 31 - e \in R <=> ~(31 - e \in Placed(w, 31) <=> 31 - e \in Ones)
      BY DEF Xor
    <2>5. e \in Xor(w, Ones) <=> ~(e \in w <=> e \in Ones)
      BY DEF Xor
    <2>6. e \in Xor(w, Ones) => e \in Int
      <3>1. Xor(w, Ones) \in SUBSET Int
        BY <1>12, Degrees
      <3> QED
        BY <3>1
    <2> QED
      BY <2>1, <2>2, <2>3, <2>4, <2>5, <2>6
  <1> HIDE DEF R, w
  <1>16. Placed(R, 31) = Xor(w, Ones)
    BY <1>15
  <1> QED
    BY <1>2, <1>13, <1>16 DEF w

(* FINGERPRINT is the CRC-32 of ITU-T V.42, XOR'd with 0x5354554E, for         *)
(* messages of every length (crc32.hpp:8-73,75-81, FingerprintAttr.hpp:17-18). *)
THEOREM FingerprintIsCrc32 == Spec => []IsCrc32
  <1>1. OnItsWay => IsCrc32
    BY UpdateDivides DEF OnItsWay, IsCrc32, computeFingerprint
  <1> QED
    BY <1>1, WayInvariant, PTL

=============================================================================

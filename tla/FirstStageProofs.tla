---------------------------- MODULE FirstStageProofs ----------------------------
(***************************************************************************)
(* Proofs about the first stage: the program it jumps to is the one that   *)
(* was turned into a boot table, for every program, every size of blocks,  *)
(* buffer and pulls, every layout of the flash and any reads that fail or  *)
(* return an inverted bit.                                                 *)
(*                                                                         *)
(* The path of the bytes is followed from its beginning.  First what the   *)
(* tools make: the boot table of a program (SectionTableBytes, TableBytes),*)
(* its blocks with their checksums (BlockBytes), the image of the flash    *)
(* and its map (FlashLayout).  Then what the readers get of it: the address*)
(* of the table (TableAddressIs), the bytes of a block (BlockRead), and    *)
(* that the checksum lets no block with an inverted bit through            *)
(* (NoiseNoticed).  Then the invariant BootInv: Streamed relates the fifo  *)
(* to the blocks of the table, Followed the processor to its sections and  *)
(* memory.  TurnFollows is one turn of the processor, SectionCopied the    *)
(* copying.                                                                *)
(***************************************************************************)
EXTENDS FirstStageProperties, NaturalsInduction, WellFoundedInduction, FiniteSetTheorems, TLAPS

-----------------------------------------------------------------------------
(* Induction and recursion on an interval, with sets for predicates and    *)
(* functions for steps.                                                    *)

LEMMA Ascent ==
    ASSUME NEW N \in Nat, NEW S, 0 \in S, \A n \in 0 .. N - 1 : n \in S => n + 1 \in S
    PROVE  0 .. N \subseteq S
  <1> DEFINE R == {ss \in Nat \X Nat : ss[1] < ss[2]}
             T == {n \in 0 .. N : n \notin S}
  <1>1. IsWellFoundedOn(R, Nat)
    BY NatLessThanWellFounded DEF OpToRel
  <1>2. SUFFICES ASSUME T # {} PROVE FALSE
    OBVIOUS
  <1>3. PICK x \in T : \A y \in T : ~(<<y, x>> \in R)
    <2>1. T \subseteq Nat
      OBVIOUS
    <2> HIDE DEF T
    <2> QED
      BY <1>1, <1>2, <2>1, WFMin
  <1>4. x \in 1 .. N
    BY <1>3
  <1>5. x - 1 \in 0 .. N - 1 /\ (x - 1) + 1 = x /\ x - 1 < x /\ x - 1 \in Nat /\ x \in Nat
    BY <1>4
  <1>6. <<x - 1, x>> \in R
    BY <1>5
  <1>7. x - 1 \notin T
    BY <1>3, <1>6
  <1>8. x - 1 \in S
    BY <1>5, <1>7
  <1>9. x \in S
    BY <1>5, <1>8
  <1> QED
    BY <1>3, <1>9

LEMMA Agreement ==
    ASSUME NEW N \in Nat, NEW f, NEW g, f[0] = g[0],
           \A n \in 0 .. N - 1 : f[n] = g[n] => f[n + 1] = g[n + 1]
    PROVE  \A n \in 0 .. N : f[n] = g[n]
  <1> DEFINE S == {n \in 0 .. N : f[n] = g[n]}
  <1>1. 0 \in S /\ \A n \in 0 .. N - 1 : n \in S => n + 1 \in S
    OBVIOUS
  <1> HIDE DEF S
  <1>2. 0 .. N \subseteq S
    BY <1>1, Ascent
  <1> QED
    BY <1>2 DEF S

\* The function that a recursion on an interval defines.
IsIteration(f, N, V, base, step) ==
    /\ f \in [0 .. N -> V]
    /\ f[0] = base
    /\ \A n \in 1 .. N : f[n] = step[<<n, f[n - 1]>>]

LEMMA Recursion ==
    ASSUME NEW N \in Nat, NEW V, NEW base \in V, NEW step \in [(1 .. N) \X V -> V]
    PROVE  \E f : IsIteration(f, N, V, base, step)
  <1> DEFINE S == {n \in 0 .. N : \E f : IsIteration(f, n, V, base, step)}
  <1>1. 0 \in S
    <2> DEFINE f == [m \in 0 .. 0 |-> base]
    <2>1. f \in [0 .. 0 -> V] /\ f[0] = base
      OBVIOUS
    <2>2. 1 .. 0 = {}
      OBVIOUS
    <2>3. IsIteration(f, 0, V, base, step)
      BY <2>1, <2>2 DEF IsIteration
    <2> HIDE DEF f
    <2> QED
      BY <2>3
  <1>2. ASSUME NEW n \in 0 .. N - 1, n \in S PROVE n + 1 \in S
    <2>1. PICK f : IsIteration(f, n, V, base, step)
      BY <1>2
    <2> DEFINE next == step[<<n + 1, f[n]>>]
               g == [m \in 0 .. n + 1 |-> IF m = n + 1 THEN next ELSE f[m]]
    <2>2. n \in 0 .. n /\ n + 1 \in 1 .. N /\ n + 1 \in 0 .. N /\ n \in Nat /\ n + 1 # 0
      OBVIOUS
    <2>3. next \in V
      BY <2>1, <2>2 DEF IsIteration
    <2> HIDE DEF next
    <2>4. g \in [0 .. n + 1 -> V]
      BY <2>1, <2>2, <2>3 DEF IsIteration
    <2>5. g[0] = base
      BY <2>1, <2>2 DEF IsIteration
    <2>6. ASSUME NEW m \in 1 .. n + 1 PROVE g[m] = step[<<m, g[m - 1]>>]
      <3>1. m - 1 \in 0 .. n /\ m - 1 # n + 1 /\ m \in 0 .. n + 1 /\ m - 1 \in 0 .. n + 1
        BY <2>2
      <3>2. g[m - 1] = f[m - 1]
        BY <3>1
      <3>3. CASE m = n + 1
        <4>1. g[m] = next /\ m - 1 = n
          BY <3>1, <3>3
        <4> QED
          BY <3>2, <3>3, <4>1 DEF next
      <3>4. CASE m # n + 1
        <4>1. m \in 1 .. n /\ g[m] = f[m]
          BY <3>1, <3>4
        <4> QED
          BY <2>1, <3>2, <4>1 DEF IsIteration
      <3> QED
        BY <3>3, <3>4
    <2>7. IsIteration(g, n + 1, V, base, step)
      <3> HIDE DEF g
      <3> QED
        BY <2>4, <2>5, <2>6 DEF IsIteration
    <2> HIDE DEF g
    <2> QED
      BY <2>2, <2>7
  <1> HIDE DEF S
  <1>3. 0 .. N \subseteq S
    BY <1>1, <1>2, Ascent
  <1> QED
    BY <1>3 DEF S

-----------------------------------------------------------------------------
(* The checksum.                                                           *)

AllOnes == 2^16 - 1
Word == 0 .. AllOnes

LEMMA AddWords ==
    ASSUME NEW v \in Word, NEW w \in Word
    PROVE  /\ onesComplementAdd(v, w) \in Word
           /\ onesComplementAdd(v, w) = v + w \/ onesComplementAdd(v, w) = v + w - AllOnes
  BY SMT DEF onesComplementAdd, Word, AllOnes

\* The sums of the first words.
IsSum(s, words) ==
    /\ s \in [0 .. Len(words) -> Word]
    /\ s[0] = 0
    /\ \A n \in 1 .. Len(words) : s[n] = onesComplementAdd(s[n - 1], words[n])

LEMMA ZeroIsWord == 0 \in Word
  BY DEF Word, AllOnes

\* What onesComplementChksum returns is the last of these sums.
LEMMA ChecksumSums ==
    ASSUME NEW words \in Seq(Word)
    PROVE  \E s : IsSum(s, words) /\ onesComplementChksum(words) = s[Len(words)]
  <1> DEFINE N == Len(words)
             step == [p \in (1 .. N) \X Word |-> onesComplementAdd(p[2], words[p[1]])]
             Eq(f) == f = [n \in 0 .. N |->
                              IF n = 0 THEN 0 ELSE onesComplementAdd(f[n - 1], words[n])]
             partial == CHOOSE f : Eq(f)
  <1>1. N \in Nat /\ \A n \in 1 .. N : words[n] \in Word
    OBVIOUS
  <1>2. step \in [(1 .. N) \X Word -> Word]
    <2>1. ASSUME NEW p \in (1 .. N) \X Word PROVE onesComplementAdd(p[2], words[p[1]]) \in Word
      BY SMTT(30), <1>1, <2>1, AddWords
    <2> QED
      BY <2>1
  <1>3. 0 \in Word
    BY ZeroIsWord
  <1>4. PICK f : IsIteration(f, N, Word, 0, step)
    <2> HIDE DEF step, N
    <2> QED
      BY <1>1, <1>2, <1>3, Recursion
  <1>5. f \in [0 .. N -> Word] /\ f[0] = 0
    BY <1>4 DEF IsIteration
  <1>6. ASSUME NEW n \in 1 .. N
        PROVE  f[n] = onesComplementAdd(f[n - 1], words[n])
    <2>1. n - 1 \in 0 .. N
      BY <1>1
    <2>2. f[n] = step[<<n, f[n - 1]>>] /\ <<n, f[n - 1]>> \in (1 .. N) \X Word
      BY <1>4, <2>1 DEF IsIteration
    <2> QED
      BY <2>2
  <1>7. Eq(f)
    BY <1>1, <1>5, <1>6
  <1>8. Eq(partial)
    BY <1>7
  <1>9. \A n \in 0 .. N : partial[n] = f[n]
    <2>1. partial[0] = f[0]
      <3>1. 0 \in 0 .. N
        BY <1>1
      <3> HIDE DEF N
      <3> QED
        BY <1>5, <1>8, <3>1
    <2>2. ASSUME NEW n \in 0 .. N - 1, partial[n] = f[n] PROVE partial[n + 1] = f[n + 1]
      <3>1. n + 1 \in 1 .. N /\ n + 1 \in 0 .. N /\ n + 1 # 0 /\ (n + 1) - 1 = n
        BY <1>1
      <3> HIDE DEF N
      <3>2. partial[n + 1] = onesComplementAdd(partial[n], words[n + 1])
        BY <1>8, <3>1
      <3> QED
        BY <1>6, <2>2, <3>1, <3>2
    <2> HIDE DEF partial, N
    <2> QED
      BY ZenonT(60), <1>1, <2>1, <2>2, Agreement
  <1>10. onesComplementChksum(words) = partial[N]
    BY DEF onesComplementChksum
  <1>11. onesComplementChksum(words) = f[N]
    <2> HIDE DEF partial, N
    <2> QED
      BY <1>1, <1>9, <1>10
  <1> QED
    BY <1>5, <1>6, <1>11 DEF IsSum

\* Equal but for multiples of 2^16 - 1.
Congruent(x, y) == \E z \in Int : x = y + AllOnes * z

LEMMA WordTypes == (\A x \in Word : x \in Int) /\ 0 \in Word /\ AllOnes \in Word /\ AllOnes \in Nat
  BY SMT DEF Word, AllOnes

LEMMA AddCongruent ==
    ASSUME NEW x \in Word, NEW v \in Word
    PROVE  \E k \in Int : onesComplementAdd(x, v) = x + v + AllOnes * k
  <1>1. x \in Int /\ v \in Int /\ AllOnes \in Int
    BY WordTypes
  <1>2. CASE onesComplementAdd(x, v) = x + v
    <2> DEFINE y == onesComplementAdd(x, v)
    <2>1. y = x + v
      BY <1>2
    <2> HIDE DEF y
    <2>2. y = x + v + AllOnes * 0
      BY <1>1, <2>1
    <2> QED
      BY <2>2 DEF y
  <1>3. CASE onesComplementAdd(x, v) = x + v - AllOnes
    <2> DEFINE y == onesComplementAdd(x, v)
    <2>1. y = x + v - AllOnes
      BY <1>3
    <2> HIDE DEF y
    <2>2. y = x + v + AllOnes * (-1)
      BY <1>1, <2>1
    <2> QED
      BY <2>2 DEF y
  <1> QED
    BY <1>2, <1>3, AddWords

LEMMA SumStep ==
    ASSUME NEW x \in Word, NEW y \in Word, NEW v \in Word, NEW w \in Word, NEW d \in Int,
           Congruent(x - y, d)
    PROVE  Congruent(onesComplementAdd(x, v) - onesComplementAdd(y, w), d + (v - w))
  <1> DEFINE X == onesComplementAdd(x, v)
             Y == onesComplementAdd(y, w)
  <1>1. PICK k \in Int : X = x + v + AllOnes * k
    BY AddCongruent
  <1>2. PICK l \in Int : Y = y + w + AllOnes * l
    BY AddCongruent
  <1>3. PICK z \in Int : x - y = d + AllOnes * z
    BY DEF Congruent
  <1>4. x \in Int /\ y \in Int /\ v \in Int /\ w \in Int
    BY WordTypes
  <1> HIDE DEF X, Y
  <1>5. X - Y = (d + (v - w)) + AllOnes * (z + (k - l))
    BY SMT, <1>1, <1>2, <1>3, <1>4 DEF AllOnes
  <1>6. z + (k - l) \in Int
    OBVIOUS
  <1>7. Congruent(X - Y, d + (v - w))
    BY <1>5, <1>6 DEF Congruent
  <1> QED
    BY <1>7 DEF X, Y

\* Sums that add the same words from some place on keep their difference, but
\* for multiples of AllOnes.
LEMMA SumDifference ==
    ASSUME NEW v \in Seq(Word), NEW w \in Seq(Word), NEW s, NEW t,
           IsSum(s, v), IsSum(t, w),
           NEW h \in Nat, NEW m \in 0 .. Len(w), Len(v) = Len(w) + h,
           NEW d \in Int, Congruent(s[m + h] - t[m], d),
           \A n \in m + 1 .. Len(w) : v[n + h] = w[n]
    PROVE  Congruent(s[Len(v)] - t[Len(w)], d)
  <1> DEFINE L == Len(w)
             N == L - m
             S == {n \in 0 .. N : Congruent(s[m + n + h] - t[m + n], d)}
  <1>1. L \in Nat /\ N \in Nat /\ m \in Nat /\ m <= L /\ h \in Nat
    OBVIOUS
  <1>2. 0 \in S
    BY <1>1
  <1>3. ASSUME NEW n \in 0 .. N - 1, n \in S PROVE n + 1 \in S
    <2> DEFINE i == m + n + 1
    <2>1. i \in 1 .. L /\ i \in m + 1 .. L /\ i - 1 \in 0 .. L /\ i - 1 = m + n
          /\ i + h \in 1 .. L + h /\ (i + h) - 1 = m + n + h /\ m + n + h \in 0 .. L + h
          /\ n + 1 \in 0 .. N /\ m + (n + 1) + h = i + h /\ m + (n + 1) = i
          /\ m + n \in 0 .. L
      BY <1>1
    <2>2. Congruent(s[m + n + h] - t[m + n], d)
      BY <1>3
    <2> HIDE DEF i, S
    <2>3. s[m + n + h] \in Word /\ t[m + n] \in Word
      BY <2>1 DEF IsSum
    <2>4. w[i] \in Word /\ v[i + h] = w[i]
      BY <2>1
    <2>5. s[i + h] = onesComplementAdd(s[m + n + h], w[i])
      BY <2>1, <2>4 DEF IsSum
    <2>6. t[i] = onesComplementAdd(t[m + n], w[i])
      BY <2>1 DEF IsSum
    <2>7. Congruent(s[i + h] - t[i], d + (w[i] - w[i]))
      BY <2>2, <2>3, <2>4, <2>5, <2>6, SumStep
    <2>8. d + (w[i] - w[i]) = d
      <3> DEFINE x == w[i]
      <3>1. x \in Int
        BY <2>4, WordTypes
      <3> HIDE DEF x
      <3>2. d + (x - x) = d
        BY <3>1
      <3> QED
        BY <3>2 DEF x
    <2>9. Congruent(s[i + h] - t[i], d)
      BY <2>7, <2>8
    <2> QED
      BY <2>1, <2>9 DEF S
  <1>4. N \in 0 .. N /\ m + N = L
    BY <1>1
  <1>5. N \in S
    <2> HIDE DEF S, N
    <2>1. 0 .. N \subseteq S
      BY <1>1, <1>2, <1>3, Ascent
    <2> QED
      BY <1>4, <2>1
  <1> QED
    BY <1>1, <1>4, <1>5

LEMMA SumsAgree ==
    ASSUME NEW v \in Seq(Word), NEW w \in Seq(Word), NEW s, NEW t,
           IsSum(s, v), IsSum(t, w),
           NEW p \in Nat, p <= Len(v), p <= Len(w), \A n \in 1 .. p : v[n] = w[n]
    PROVE  s[p] = t[p]
  <1>1. s[0] = t[0]
    BY DEF IsSum
  <1>2. \A n \in 0 .. p - 1 : s[n] = t[n] => s[n + 1] = t[n + 1]
    <2> SUFFICES ASSUME NEW n \in 0 .. p - 1, s[n] = t[n] PROVE s[n + 1] = t[n + 1]
      OBVIOUS
    <2>1. n + 1 \in 1 .. p /\ n + 1 \in 1 .. Len(v) /\ n + 1 \in 1 .. Len(w) /\ (n + 1) - 1 = n
      OBVIOUS
    <2>2. s[n + 1] = onesComplementAdd(s[n], v[n + 1])
          /\ t[n + 1] = onesComplementAdd(t[n], w[n + 1])
      BY <2>1 DEF IsSum
    <2> QED
      BY <2>1, <2>2
  <1>3. \A n \in 0 .. p : s[n] = t[n]
    BY ONLY ZenonT(60), <1>1, <1>2, p \in Nat, Agreement
  <1> QED
    BY <1>3

LEMMA NoMultiple ==
    ASSUME NEW x \in {0, AllOnes}, NEW y \in {0, AllOnes},
           NEW d \in Int, d # 0, -AllOnes < d, d < AllOnes, Congruent(x - y, d)
    PROVE  FALSE
  <1>1. PICK z \in Int : x - y = d + AllOnes * z
    BY DEF Congruent
  <1> QED
    BY SMT, <1>1 DEF AllOnes

LEMMA OnlyMultiples ==
    ASSUME NEW x \in Word, NEW y \in Word, Congruent(x - y, AllOnes - y)
    PROVE  x \in {0, AllOnes}
  <1>1. PICK z \in Int : x - y = (AllOnes - y) + AllOnes * z
    BY DEF Congruent
  <1> QED
    BY SMT, <1>1 DEF Word, AllOnes

\* A sum of all ones or of all zeros notices that one word has changed, unless
\* it has changed by AllOnes.
LEMMA ChangedWordNoticed ==
    ASSUME NEW v \in Seq(Word), NEW w \in Seq(Word), Len(v) = Len(w),
           NEW m \in 1 .. Len(w), \A n \in (1 .. Len(w)) \ {m} : v[n] = w[n],
           v[m] # w[m], -AllOnes < v[m] - w[m], v[m] - w[m] < AllOnes,
           onesComplementChksum(v) \in {0, AllOnes},
           onesComplementChksum(w) \in {0, AllOnes}
    PROVE  FALSE
  <1> DEFINE L == Len(w)
  <1>1. PICK s : IsSum(s, v) /\ onesComplementChksum(v) = s[L]
    BY ChecksumSums
  <1>2. PICK t : IsSum(t, w) /\ onesComplementChksum(w) = t[L]
    BY ChecksumSums
  <1>3. L \in Nat /\ m \in 1 .. L /\ m - 1 \in 0 .. L /\ m \in Nat /\ m >= 1 /\ m \in 0 .. L
        /\ v[m] \in Word /\ w[m] \in Word
    OBVIOUS
  <1>4. s[m - 1] = t[m - 1]
    <2>1. m - 1 \in Nat /\ m - 1 <= Len(v) /\ m - 1 <= Len(w)
      BY <1>3
    <2>2. \A n \in 1 .. m - 1 : v[n] = w[n]
      BY <1>3
    <2> QED
      BY <1>1, <1>2, <2>1, <2>2, SumsAgree
  <1> DEFINE d == v[m] - w[m]
  <1>5. d \in Int /\ d # 0 /\ -AllOnes < d /\ d < AllOnes
    <2> DEFINE x == v[m]
               y == w[m]
    <2>1. x \in Int /\ y \in Int /\ x # y /\ -AllOnes < x - y /\ x - y < AllOnes
      BY <1>3, WordTypes
    <2> HIDE DEF x, y
    <2>2. x - y # 0 /\ x - y \in Int
      BY <2>1
    <2> QED
      BY <2>1, <2>2 DEF x, y
  <1>6. Congruent(s[m] - t[m], d)
    <2>1. s[m - 1] \in Word /\ t[m - 1] \in Word
      BY <1>1, <1>2, <1>3 DEF IsSum
    <2>2. s[m] = onesComplementAdd(s[m - 1], v[m])
      BY <1>1, <1>3 DEF IsSum
    <2>3. t[m] = onesComplementAdd(t[m - 1], w[m])
      BY <1>2, <1>3 DEF IsSum
    <2>4. Congruent(s[m - 1] - t[m - 1], 0)
      <3>1. s[m - 1] - t[m - 1] = 0 + AllOnes * 0
        <4> DEFINE x == s[m - 1]
        <4>1. x \in Int /\ AllOnes \in Int
          BY <2>1, WordTypes
        <4> HIDE DEF x
        <4>2. x - x = 0 + AllOnes * 0
          BY <4>1
        <4> QED
          BY <1>4, <4>2 DEF x
      <3>2. 0 \in Int
        OBVIOUS
      <3> QED
        BY <3>1, <3>2 DEF Congruent
    <2>5. Congruent(s[m] - t[m], 0 + (v[m] - w[m]))
      BY SMTT(30), <1>3, <2>1, <2>2, <2>3, <2>4, SumStep
    <2>6. 0 + (v[m] - w[m]) = d
      BY <1>5
    <2> QED
      BY <2>5, <2>6
  <1>7. Congruent(s[L] - t[L], d)
    <2>1. m + 0 = m /\ L = L + 0 /\ \A n \in m + 1 .. L : n + 0 = n /\ n \in (1 .. L) \ {m}
      BY <1>3
    <2>2. \A n \in m + 1 .. L : v[n + 0] = w[n]
      BY <2>1
    <2> HIDE DEF d
    <2>3. Congruent(s[m + 0] - t[m], d)
      BY <1>6, <2>1
    <2>4. 0 \in Nat /\ Len(v) = L /\ Len(v) = Len(w) + 0 /\ m \in 0 .. Len(w)
      BY <1>3
    <2>5. IsSum(s, v) /\ IsSum(t, w) /\ d \in Int
      BY <1>1, <1>2, <1>5
    <2>6. Congruent(s[Len(v)] - t[Len(w)], d)
      BY ONLY v \in Seq(Word), w \in Seq(Word), <2>2, <2>3, <2>4, <2>5, SumDifference
    <2> QED
      BY <2>4, <2>6
  <1>8. s[L] \in {0, AllOnes} /\ t[L] \in {0, AllOnes}
    BY <1>1, <1>2
  <1> HIDE DEF d
  <1> QED
    BY <1>5, <1>7, <1>8, NoMultiple

\* The checksum of b2i2c makes the sum of all words so.
LEMMA BlockAddsUp ==
    ASSUME NEW v \in Seq(Word), NEW w \in Seq(Word), Len(v) = Len(w) + 1, Len(w) >= 1,
           v[1] = w[1], v[2] = AllOnes - onesComplementChksum(w),
           \A n \in 2 .. Len(w) : v[n + 1] = w[n]
    PROVE  onesComplementChksum(v) \in {0, AllOnes}
  <1> DEFINE L == Len(w)
             c == v[2]
  <1>1. L \in Nat /\ L >= 1 /\ Len(v) = L + 1 /\ c \in Word /\ w[1] \in Word
    OBVIOUS
  <1>2. PICK s : IsSum(s, v) /\ onesComplementChksum(v) = s[L + 1]
    BY ChecksumSums
  <1>3. PICK t : IsSum(t, w) /\ onesComplementChksum(w) = t[L]
    BY ChecksumSums
  <1>4. /\ s[0] = 0 /\ s[1] = onesComplementAdd(s[0], w[1]) /\ s[2] = onesComplementAdd(s[1], c)
        /\ t[0] = 0 /\ t[1] = onesComplementAdd(t[0], w[1]) /\ s[1] \in Word
        /\ s[L + 1] \in Word /\ t[L] \in Word
    <2>1. 1 \in 1 .. L + 1 /\ 2 \in 1 .. L + 1 /\ 1 \in 1 .. L /\ L + 1 \in 0 .. L + 1
          /\ L \in 0 .. L /\ 1 - 1 = 0 /\ 2 - 1 = 1 /\ 1 \in 0 .. L + 1
      BY <1>1
    <2> QED
      BY <1>1, <1>2, <1>3, <2>1 DEF IsSum
  <1>5. Congruent(s[1 + 1] - t[1], c)
    <2>1. s[1] = t[1] /\ 1 + 1 = 2
      BY <1>4
    <2>5. c \in Int /\ s[1] \in Int /\ AllOnes \in Int
      BY <1>1, <1>4, WordTypes
    <2>2. PICK k \in Int : s[2] = s[1] + c + AllOnes * k
      BY <1>1, <1>4, AddCongruent
    <2> DEFINE x == s[1]
    <2>3. s[1 + 1] - t[1] = (x + c + AllOnes * k) - x /\ x \in Int
      BY <2>1, <2>2, <2>5
    <2> HIDE DEF c, x
    <2>4. (x + c + AllOnes * k) - x = c + AllOnes * k
      BY SMT, <2>3, <2>5 DEF AllOnes
    <2> QED
      BY <2>3, <2>4 DEF Congruent
  <1>6. Congruent(s[L + 1] - t[L], c)
    <2>1. c \in Int
      BY <1>1, WordTypes
    <2> HIDE DEF c
    <2>2. 1 \in 0 .. L /\ 1 \in Nat /\ \A n \in 1 + 1 .. L : v[n + 1] = w[n]
      BY <1>1
    <2> QED
      BY <1>1, <1>2, <1>3, <1>5, <2>1, <2>2, SumDifference
  <1>7. c = AllOnes - t[L]
    BY <1>3
  <1>8. s[L + 1] \in {0, AllOnes}
    <2> HIDE DEF c
    <2> QED
      BY <1>4, <1>6, <1>7, OnlyMultiples
  <1> QED
    BY <1>2, <1>8

-----------------------------------------------------------------------------
(* Sequences put together from parts.                                      *)

\* The second sequence begins with the first.
Extends(a, b) == Len(a) <= Len(b) /\ \A i \in 1 .. Len(a) : b[i] = a[i]

LEMMA Chain ==
    ASSUME NEW V, NEW N \in Nat, NEW f \in [0 .. N -> Seq(V)],
           \A n \in 1 .. N : Extends(f[n - 1], f[n]), NEW n \in 0 .. N
    PROVE  Extends(f[n], f[N])
  <1> DEFINE S == {j \in 0 .. N - n : Extends(f[n], f[n + j])}
  <1>1. N - n \in Nat /\ n \in Nat /\ n + (N - n) = N /\ N - n \in 0 .. N - n
    OBVIOUS
  <1>2. 0 \in S
    <2>1. n + 0 = n /\ f[n] \in Seq(V) /\ 0 \in 0 .. N - n
      BY <1>1
    <2>2. Len(f[n]) \in Nat
      BY <2>1
    <2> QED
      BY <2>1, <2>2 DEF Extends
  <1>3. ASSUME NEW j \in 0 .. (N - n) - 1, j \in S PROVE j + 1 \in S
    <2>1. n + j \in 0 .. N /\ n + (j + 1) \in 1 .. N /\ (n + (j + 1)) - 1 = n + j
          /\ j + 1 \in 0 .. N - n /\ n + (j + 1) \in 0 .. N
      BY <1>1
    <2>2. Extends(f[n], f[n + j]) /\ Extends(f[n + j], f[n + (j + 1)])
      BY <1>3, <2>1
    <2>3. Len(f[n]) \in Nat /\ Len(f[n + j]) \in Nat /\ Len(f[n + (j + 1)]) \in Nat
      BY <2>1
    <2>4. Extends(f[n], f[n + (j + 1)])
      BY ONLY <2>2, <2>3 DEF Extends
    <2> QED
      BY <2>1, <2>4
  <1> HIDE DEF S
  <1>4. 0 .. N - n \subseteq S
    BY ONLY <1>1, <1>2, <1>3, Ascent
  <1> QED
    BY <1>1, <1>4 DEF S

LEMMA Concatenated ==
    ASSUME NEW V, NEW a \in Seq(V), NEW b \in Seq(V)
    PROVE  /\ a \o b \in Seq(V) /\ Len(a \o b) = Len(a) + Len(b) /\ Extends(a, a \o b)
           /\ \A i \in 1 .. Len(b) : (a \o b)[Len(a) + i] = b[i]
  BY DEF Extends

LEMMA Part ==
    ASSUME NEW V, NEW s \in Seq(V), NEW a \in 1 .. Len(s) + 1, NEW b \in a - 1 .. Len(s)
    PROVE  /\ SubSeq(s, a, b) \in Seq(V) /\ Len(SubSeq(s, a, b)) = (b - a) + 1
           /\ \A i \in 1 .. (b - a) + 1 : SubSeq(s, a, b)[i] = s[(a + i) - 1]
  <1>1. Len(s) \in Nat
    OBVIOUS
  <1>2. Len(SubSeq(s, a, b)) = (b - a) + 1
    <2>1. CASE b < a
      BY <1>1, <2>1
    <2>2. CASE b >= a
      BY <1>1, <2>2
    <2> QED
      BY <2>1, <2>2, <1>1
  <1>3. \A i \in 1 .. (b - a) + 1 : SubSeq(s, a, b)[i] = s[(a + i) - 1] /\ (a + i) - 1 \in 1 .. Len(s)
    BY <1>1
  <1>4. SubSeq(s, a, b) \in Seq(V)
    BY <1>1, <1>2, <1>3
  <1> QED
    BY <1>2, <1>3, <1>4

\* FlattenSeq concatenates one sequence after the other.
IsFlat(f, seqs, V) ==
    /\ f \in [0 .. Len(seqs) -> Seq(V)]
    /\ f[0] = << >>
    /\ \A n \in 1 .. Len(seqs) : f[n] = f[n - 1] \o seqs[n]

LEMMA FlattenParts ==
    ASSUME NEW V, NEW seqs \in Seq(Seq(V))
    PROVE  \E f : IsFlat(f, seqs, V) /\ FlattenSeq(seqs) = f[Len(seqs)]
  <1> DEFINE N == Len(seqs)
             step == [p \in (1 .. N) \X Seq(V) |-> p[2] \o seqs[p[1]]]
             Eq(f) == f = [i \in 1 .. N |-> IF i = 1 THEN seqs[i] ELSE f[i - 1] \o seqs[i]]
             flatten == CHOOSE f : Eq(f)
  <1>1. N \in Nat /\ \A n \in 1 .. N : seqs[n] \in Seq(V)
    OBVIOUS
  <1>2. step \in [(1 .. N) \X Seq(V) -> Seq(V)]
    <2>1. ASSUME NEW p \in (1 .. N) \X Seq(V) PROVE p[2] \o seqs[p[1]] \in Seq(V)
      BY <1>1, <2>1, Concatenated
    <2> QED
      BY <2>1
  <1>3. << >> \in Seq(V)
    OBVIOUS
  <1>4. PICK f : IsIteration(f, N, Seq(V), << >>, step)
    <2> HIDE DEF step, N
    <2> QED
      BY <1>1, <1>2, <1>3, Recursion
  <1>5. f \in [0 .. N -> Seq(V)] /\ f[0] = << >>
    BY <1>4 DEF IsIteration
  <1>6. ASSUME NEW n \in 1 .. N PROVE f[n] = f[n - 1] \o seqs[n]
    <2>1. n - 1 \in 0 .. N
      BY <1>1
    <2>2. f[n] = step[<<n, f[n - 1]>>] /\ <<n, f[n - 1]>> \in (1 .. N) \X Seq(V)
      BY <1>4, <2>1 DEF IsIteration
    <2> QED
      BY <2>2
  <1>7. IsFlat(f, seqs, V)
    BY <1>5, <1>6 DEF IsFlat
  <1>8. CASE N = 0
    <2>1. FlattenSeq(seqs) = << >>
      BY <1>8 DEF FlattenSeq
    <2> QED
      BY <1>5, <1>7, <1>8, <2>1
  <1>9. CASE N # 0
    <2> DEFINE g == [n \in 1 .. N |-> f[n]]
    <2>1. Eq(g)
      <3>1. ASSUME NEW i \in 1 .. N
            PROVE  g[i] = IF i = 1 THEN seqs[i] ELSE g[i - 1] \o seqs[i]
        <4>1. CASE i = 1
          <5>3. 1 \in 1 .. N /\ 1 - 1 = 0
            BY <4>1
          <5> HIDE DEF N
          <5>1. f[1] = f[0] \o seqs[1] /\ seqs[1] \in Seq(V)
            BY <1>1, <1>6, <5>3
          <5>2. << >> \o seqs[1] = seqs[1]
            BY <5>1
          <5> QED
            BY <1>5, <4>1, <5>1, <5>2
        <4>2. CASE i # 1
          <5>1. i - 1 \in 1 .. N
            BY <1>1, <4>2
          <5> QED
            BY <1>6, <4>2, <5>1
        <4> QED
          BY <4>1, <4>2
      <3> QED
        BY <3>1
    <2>2. Eq(flatten)
      <3> HIDE DEF g
      <3> QED
        BY <2>1
    <2> DEFINE h == [n \in 0 .. N |-> IF n = 0 THEN << >> ELSE flatten[n]]
    <2>3. \A n \in 0 .. N : h[n] = f[n]
      <3>1. h[0] = f[0]
        <4>1. 0 \in 0 .. N
          BY <1>1
        <4> HIDE DEF flatten, N
        <4> QED
          BY <1>5, <4>1
      <3>2. ASSUME NEW n \in 0 .. N - 1, h[n] = f[n] PROVE h[n + 1] = f[n + 1]
        <4>1. n + 1 \in 1 .. N /\ n + 1 \in 0 .. N /\ n + 1 # 0 /\ (n + 1) - 1 = n
              /\ n \in 0 .. N /\ (n # 0 => n + 1 # 1) /\ (n = 0 => n + 1 = 1)
          BY SMTT(30), <1>1
        <4> HIDE DEF N
        <4>2. flatten[n + 1] = IF n + 1 = 1 THEN seqs[n + 1] ELSE flatten[n] \o seqs[n + 1]
          BY <2>2, <4>1
        <4> HIDE DEF flatten
        <4>3. h[n + 1] = flatten[n + 1]
          BY <4>1
        <4>4. f[n + 1] = f[n] \o seqs[n + 1] /\ seqs[n + 1] \in Seq(V)
          BY <1>1, <1>6, <4>1
        <4>5. CASE n = 0
          <5>1. << >> \o seqs[1] = seqs[1]
            BY <4>4, <4>5
          <5> QED
            BY <1>5, <4>1, <4>2, <4>3, <4>4, <4>5, <5>1
        <4>6. CASE n # 0
          <5>1. h[n] = flatten[n]
            BY <4>1, <4>6
          <5> QED
            BY <3>2, <4>1, <4>2, <4>3, <4>4, <4>6, <5>1
        <4> QED
          BY <4>5, <4>6
      <3> HIDE DEF h, N
      <3> QED
        BY ONLY <1>1, <3>1, <3>2, Agreement
    <2>4. FlattenSeq(seqs) = flatten[N]
      BY <1>9 DEF FlattenSeq
    <2>5. N \in 0 .. N /\ h[N] = flatten[N]
      <3>1. N \in 0 .. N
        BY <1>1
      <3> HIDE DEF flatten, N
      <3> QED
        BY <1>9, <3>1
    <2>6. FlattenSeq(seqs) = f[N]
      <3> HIDE DEF flatten, h, N
      <3> QED
        BY <2>3, <2>4, <2>5
    <2> QED
      BY <1>7, <2>6
  <1> QED
    BY <1>8, <1>9

\* Sequence k is found behind those before it.
FlatAt(f, seqs, k) ==
    /\ Len(f[k]) = Len(f[k - 1]) + Len(seqs[k])
    /\ Len(f[k]) <= Len(f[Len(seqs)])
    /\ \A i \in 1 .. Len(seqs[k]) : f[Len(seqs)][Len(f[k - 1]) + i] = seqs[k][i]

LEMMA FlatContent ==
    ASSUME NEW V, NEW seqs \in Seq(Seq(V)), NEW f, IsFlat(f, seqs, V),
           NEW k \in 1 .. Len(seqs)
    PROVE  FlatAt(f, seqs, k)
  <1> DEFINE N == Len(seqs)
  <1>0. N \in Nat /\ \A n \in 1 .. N : seqs[n] \in Seq(V)
    OBVIOUS
  <1>1. f \in [0 .. N -> Seq(V)] /\ \A n \in 1 .. N : f[n] = f[n - 1] \o seqs[n]
    BY DEF IsFlat
  <1>7. k \in 1 .. N
    OBVIOUS
  <1> HIDE DEF N
  <1>2. ASSUME NEW n \in 1 .. N
        PROVE  /\ Extends(f[n - 1], f[n]) /\ Len(f[n]) = Len(f[n - 1]) + Len(seqs[n])
               /\ \A i \in 1 .. Len(seqs[n]) : f[n][Len(f[n - 1]) + i] = seqs[n][i]
               /\ Len(f[n - 1]) \in Nat /\ Len(seqs[n]) \in Nat
    <2>1. n - 1 \in 0 .. N
      BY <1>0
    <2>2. f[n - 1] \in Seq(V) /\ seqs[n] \in Seq(V) /\ f[n] = f[n - 1] \o seqs[n]
      BY <1>0, <1>1, <2>1
    <2>3. Len(f[n - 1]) \in Nat /\ Len(seqs[n]) \in Nat
      BY <2>2
    <2> DEFINE a == f[n - 1]
               b == seqs[n]
    <2>4. f[n] = a \o b /\ a \in Seq(V) /\ b \in Seq(V)
      BY <2>2
    <2> HIDE DEF a, b
    <2>5. /\ Len(f[n]) = Len(a) + Len(b) /\ Extends(a, f[n])
          /\ \A i \in 1 .. Len(b) : f[n][Len(a) + i] = b[i]
      BY ONLY <2>4, Concatenated
    <2> QED
      BY <2>3, <2>5 DEF a, b
  <1>3. k \in 0 .. N
    BY <1>0, <1>7
  <1>4. Extends(f[k], f[N])
    BY ONLY <1>0, <1>1, <1>2, <1>3, Chain
  <1>5. ASSUME NEW i \in 1 .. Len(seqs[k])
        PROVE  f[N][Len(f[k - 1]) + i] = seqs[k][i]
    <2> DEFINE x == Len(f[k - 1])
               y == Len(seqs[k])
    <2>3. x \in Nat /\ y \in Nat /\ Len(f[k]) = x + y /\ i \in 1 .. y
      BY <1>2, <1>7, <1>5
    <2> HIDE DEF x, y
    <2>4. x + i \in 1 .. Len(f[k])
      BY <2>3
    <2>1. Len(f[k - 1]) + i \in 1 .. Len(f[k])
      BY <2>4 DEF x
    <2>2. f[N][Len(f[k - 1]) + i] = f[k][Len(f[k - 1]) + i]
      BY <1>4, <2>1 DEF Extends
    <2> QED
      BY <1>2, <1>7, <2>2
  <1>6. Len(f[k]) <= Len(f[N])
    BY <1>4 DEF Extends
  <1> QED
    BY <1>2, <1>7, <1>5, <1>6 DEF N, FlatAt

-----------------------------------------------------------------------------
(* The boot table.                                                         *)

Bytes == 0 .. 255

LEMMA HalfWords ==
    ASSUME NEW v \in Nat, v < 2^16
    PROVE  /\ v \div 2^8 \in Bytes /\ v % 2^8 \in Bytes
           /\ Word16(v \div 2^8, v % 2^8) = v
  BY SMT DEF Bytes, Word16

LEMMA Bytes16Bytes ==
    ASSUME NEW v \in Nat, v < 2^16
    PROVE  /\ Bytes16(v) \in Seq(Bytes) /\ Len(Bytes16(v)) = 2
           /\ Bytes16(v)[1] = v \div 2^8 /\ Bytes16(v)[2] = v % 2^8
  <1> DEFINE hi == v \div 2^8
             lo == v % 2^8
  <1>1. hi \in Bytes /\ lo \in Bytes
    BY HalfWords
  <1>2. Bytes16(v) = <<hi, lo>>
    BY DEF Bytes16
  <1> HIDE DEF hi, lo
  <1>3. /\ Bytes16(v) \in Seq(Bytes) /\ Len(Bytes16(v)) = 2
        /\ Bytes16(v)[1] = hi /\ Bytes16(v)[2] = lo
    BY <1>1, <1>2
  <1> QED
    BY <1>3 DEF hi, lo

LEMMA Halves ==
    ASSUME NEW v, Is32Bit(v)
    PROVE  /\ v \in Nat /\ v \div 2^16 \in Nat /\ v \div 2^16 < 2^16
           /\ v % 2^16 \in Nat /\ v % 2^16 < 2^16
           /\ Word32(v \div 2^16, v % 2^16) = v
           /\ Word32(v \div 2^16, 0) + (v % 2^16) = v
  BY SMT DEF Is32Bit, Word32

LEMMA Smaller32Bit ==
    ASSUME NEW v, Is32Bit(v), NEW w \in Nat, w <= v
    PROVE  Is32Bit(w)
  BY SMT DEF Is32Bit

\* A control word as it lies in the table.
LEMMA Bytes32Bytes ==
    ASSUME NEW v, Is32Bit(v)
    PROVE  /\ Bytes32(v) \in Seq(Bytes) /\ Len(Bytes32(v)) = 4
           /\ Word16(Bytes32(v)[1], Bytes32(v)[2]) = v \div 2^16
           /\ Word16(Bytes32(v)[3], Bytes32(v)[4]) = v % 2^16
  <1> DEFINE hi == v \div 2^16
             lo == v % 2^16
             a == Bytes16(hi)
             b == Bytes16(lo)
  <1>1. hi \in Nat /\ hi < 2^16 /\ lo \in Nat /\ lo < 2^16
    BY Halves
  <1> HIDE DEF hi, lo
  <1>2. /\ a \in Seq(Bytes) /\ Len(a) = 2 /\ a[1] = hi \div 2^8 /\ a[2] = hi % 2^8
    BY <1>1, Bytes16Bytes
  <1>3. /\ b \in Seq(Bytes) /\ Len(b) = 2 /\ b[1] = lo \div 2^8 /\ b[2] = lo % 2^8
    BY <1>1, Bytes16Bytes
  <1>4. Bytes32(v) = a \o b
    BY DEF Bytes32, hi, lo
  <1> HIDE DEF a, b
  <1>5. /\ Bytes32(v) \in Seq(Bytes) /\ Len(Bytes32(v)) = 4
        /\ Bytes32(v)[1] = a[1] /\ Bytes32(v)[2] = a[2]
        /\ Bytes32(v)[3] = b[1] /\ Bytes32(v)[4] = b[2]
    <2>1. /\ a \o b \in Seq(Bytes) /\ Len(a \o b) = Len(a) + Len(b) /\ Extends(a, a \o b)
          /\ \A i \in 1 .. Len(b) : (a \o b)[Len(a) + i] = b[i]
      <3>1. a \in Seq(Bytes) /\ b \in Seq(Bytes)
        BY <1>2, <1>3
      <3> QED
        BY ONLY <3>1, Concatenated
    <2>2. (a \o b)[2 + 1] = b[1] /\ (a \o b)[2 + 2] = b[2]
      BY <1>2, <1>3, <2>1
    <2>3. (a \o b)[1] = a[1] /\ (a \o b)[2] = a[2]
      BY <1>2, <2>1 DEF Extends
    <2> QED
      BY <1>2, <1>3, <1>4, <2>1, <2>2, <2>3
  <1>6. Word16(hi \div 2^8, hi % 2^8) = hi /\ Word16(lo \div 2^8, lo % 2^8) = lo
    BY <1>1, HalfWords
  <1> QED
    BY <1>2, <1>3, <1>5, <1>6 DEF hi, lo

\* The data of a section in the table.
Body(data, e) == remain32bit(HexData(data, e), Len(data), e)

Padded(data) == [i \in 1 .. RoundedUp(Len(data)) |-> IF i <= Len(data) THEN data[i] ELSE 0]

LEMMA Rounding ==
    ASSUME NEW n \in Nat
    PROVE  /\ RoundedUp(n) \in Nat /\ n <= RoundedUp(n) /\ RoundedUp(n) % 4 = 0
           /\ n % 4 = 0 => RoundedUp(n) = n
           /\ n % 4 # 0 => RoundedUp(n) = (n - (n % 4)) + 4
           /\ n - (n % 4) \in Nat /\ (n - (n % 4)) % 4 = 0 /\ n - (n % 4) <= n /\ n % 4 \in 0 .. 3
  BY SMT DEF RoundedUp

LEMMA PaddedBytes ==
    ASSUME NEW data \in Seq(Bytes)
    PROVE  /\ Padded(data) \in Seq(Bytes) /\ Len(Padded(data)) = RoundedUp(Len(data))
           /\ DOMAIN Padded(data) = 1 .. RoundedUp(Len(data))
           /\ \A i \in 1 .. Len(data) : Padded(data)[i] = data[i]
  <1> DEFINE n == Len(data)
             R == RoundedUp(n)
  <1>1. n \in Nat /\ R \in Nat /\ n <= R
    BY Rounding
  <1>2. \A i \in 1 .. n : data[i] \in Bytes
    OBVIOUS
  <1>3. 0 \in Bytes
    BY DEF Bytes
  <1>4. Padded(data) = [i \in 1 .. R |-> IF i <= n THEN data[i] ELSE 0]
    BY DEF Padded
  <1> HIDE DEF R, n
  <1>5. \A i \in 1 .. R : (IF i <= n THEN data[i] ELSE 0) \in Bytes
    BY <1>1, <1>2, <1>3
  <1>6. Padded(data) \in [1 .. R -> Bytes]
    BY <1>4, <1>5
  <1>7. Padded(data) \in Seq(Bytes) /\ Len(Padded(data)) = R
    BY <1>1, <1>6
  <1>8. \A i \in 1 .. n : Padded(data)[i] = data[i]
    BY <1>1, <1>4
  <1> QED
    BY <1>6, <1>7, <1>8 DEF n, R

LEMMA ReversedBytes ==
    ASSUME NEW s \in Seq(Bytes), Len(s) % 4 = 0
    PROVE  /\ Reversed(s) \in Seq(Bytes) /\ Len(Reversed(s)) = Len(s)
           /\ \A i \in 1 .. Len(s) :
                  Reversed(s)[i] = s[4 * ((i - 1) \div 4) + 4 - ((i - 1) % 4)]
  <1> DEFINE n == Len(s)
             r(i) == 4 * ((i - 1) \div 4) + 4 - ((i - 1) % 4)
  <1>1. n \in Nat /\ n % 4 = 0 /\ DOMAIN s = 1 .. n
    OBVIOUS
  <1>2. ASSUME NEW i \in 1 .. n PROVE r(i) \in 1 .. n
    BY SMT, <1>1
  <1>3. Reversed(s) = [i \in 1 .. n |-> s[r(i)]]
    BY <1>1 DEF Reversed
  <1>4. \A i \in 1 .. n : s[r(i)] \in Bytes
    BY <1>1, <1>2
  <1> HIDE DEF n, r
  <1>5. Reversed(s) \in [1 .. n -> Bytes]
    BY <1>3, <1>4
  <1>6. Reversed(s) \in Seq(Bytes) /\ Len(Reversed(s)) = n
    BY <1>1, <1>5
  <1>7. \A i \in 1 .. n : Reversed(s)[i] = s[r(i)]
    BY <1>3
  <1> QED
    BY <1>6, <1>7 DEF n, r

\* Byte q of the table's data, from 0.
LEMMA BodyBytes ==
    ASSUME NEW data \in Seq(Bytes), NEW e
    PROVE  LET n == Len(data)
               whole == n - (n % 4)
           IN /\ Body(data, e) \in Seq(Bytes) /\ Len(Body(data, e)) = RoundedUp(n)
              /\ \A q \in 0 .. n - 1 :
                     IF e = "little" /\ q < whole
                     THEN Body(data, e)[q + 1] = data[4 * (q \div 4) + 4 - (q % 4)]
                     ELSE Body(data, e)[q + 1] = data[q + 1]
  <1> DEFINE n == Len(data)
             whole == n - (n % 4)
             R == RoundedUp(n)
             p == Padded(data)
             hex == HexData(data, e)
             last == SubSeq(hex, whole + 1, whole + 4)
  <1>1. n \in Nat /\ R \in Nat /\ n <= R /\ R % 4 = 0 /\ whole \in Nat /\ whole <= n
        /\ whole % 4 = 0 /\ (n % 4 = 0 => R = n /\ whole = n) /\ (n % 4 # 0 => R = whole + 4)
        /\ n < whole + 4
    BY Rounding
  <1>2. p \in Seq(Bytes) /\ Len(p) = R /\ \A i \in 1 .. n : p[i] = data[i]
    BY PaddedBytes
  <1>3. hex = IF e = "little" THEN Reversed(p) ELSE p
    BY DEF HexData, Padded
  <1>4. Body(data, e) = IF e = "little" /\ n % 4 # 0
                        THEN SubSeq(hex, 1, whole) \o Reversed(last) ELSE hex
    BY DEF Body, remain32bit
  <1> HIDE DEF n, whole, R, p, hex, last
  <1>5. CASE e # "little"
    BY <1>1, <1>2, <1>3, <1>4, <1>5 DEF n, R, whole
  <1>6. CASE e = "little"
    <2>1. hex \in Seq(Bytes) /\ Len(hex) = R
          /\ \A i \in 1 .. R : hex[i] = p[4 * ((i - 1) \div 4) + 4 - ((i - 1) % 4)]
      BY <1>1, <1>2, <1>3, <1>6, ReversedBytes
    <2>2. ASSUME NEW q \in 0 .. n - 1, q < whole
          PROVE  hex[q + 1] = data[4 * (q \div 4) + 4 - (q % 4)] /\ q + 1 \in 1 .. whole
      <3> DEFINE r == 4 * (q \div 4) + 4 - (q % 4)
      <3>1. q \in Nat /\ q + 1 \in 1 .. R /\ (q + 1) - 1 = q /\ q + 1 \in 1 .. whole
        BY <1>1, <2>2
      <3>2. r \in 1 .. n
        BY SMT, <1>1, <2>2, <3>1
      <3>3. hex[q + 1] = p[r]
        BY <2>1, <3>1
      <3> HIDE DEF r
      <3>4. hex[q + 1] = data[r]
        BY <1>2, <3>2, <3>3
      <3> QED
        BY <3>1, <3>4 DEF r
    <2>3. CASE n % 4 = 0
      <3>1. Body(data, e) = hex /\ whole = n
        BY <1>1, <1>4, <2>3
      <3>2. ASSUME NEW q \in 0 .. n - 1 PROVE q < whole
        BY <1>1, <3>1
      <3> QED
        BY <1>1, <1>6, <2>1, <2>2, <2>3, <3>1, <3>2 DEF n, R, whole
    <2>4. CASE n % 4 # 0
      <3>1. R = whole + 4
        BY <1>1, <2>4
      <3>2. last \in Seq(Bytes) /\ Len(last) = 4 /\ \A j \in 1 .. 4 : last[j] = hex[whole + j]
        <4>1. whole + 1 \in 1 .. Len(hex) + 1 /\ whole + 4 \in (whole + 1) - 1 .. Len(hex)
              /\ ((whole + 4) - (whole + 1)) + 1 = 4
          BY <1>1, <2>1, <3>1
        <4>2. /\ last \in Seq(Bytes) /\ Len(last) = ((whole + 4) - (whole + 1)) + 1
              /\ \A i \in 1 .. ((whole + 4) - (whole + 1)) + 1 :
                     last[i] = hex[((whole + 1) + i) - 1]
          <5> DEFINE x == whole + 1
                     y == whole + 4
          <5>1. x \in 1 .. Len(hex) + 1 /\ y \in x - 1 .. Len(hex) /\ hex \in Seq(Bytes)
                /\ last = SubSeq(hex, x, y)
            BY <2>1, <4>1 DEF last
          <5> HIDE DEF x, y
          <5>2. /\ SubSeq(hex, x, y) \in Seq(Bytes) /\ Len(SubSeq(hex, x, y)) = (y - x) + 1
                /\ \A i \in 1 .. (y - x) + 1 : SubSeq(hex, x, y)[i] = hex[(x + i) - 1]
            BY ONLY <5>1, Part
          <5>3. /\ last \in Seq(Bytes) /\ Len(last) = (y - x) + 1
                /\ \A i \in 1 .. (y - x) + 1 : last[i] = hex[(x + i) - 1]
            BY <5>1, <5>2
          <5> QED
            BY <5>3 DEF x, y
        <4>3. \A j \in 1 .. 4 : ((whole + 1) + j) - 1 = whole + j
          BY <1>1
        <4> QED
          BY <4>1, <4>2, <4>3
      <3>3. Reversed(last) \in Seq(Bytes) /\ Len(Reversed(last)) = 4
            /\ \A j \in 1 .. 4 : Reversed(last)[j] = last[5 - j]
        <4>1. Len(last) % 4 = 0
          BY <3>2
        <4>2. \A j \in 1 .. 4 : 4 * ((j - 1) \div 4) + 4 - ((j - 1) % 4) = 5 - j
          BY SMT
        <4>3. /\ Reversed(last) \in Seq(Bytes) /\ Len(Reversed(last)) = Len(last)
              /\ \A i \in 1 .. Len(last) :
                     Reversed(last)[i] = last[4 * ((i - 1) \div 4) + 4 - ((i - 1) % 4)]
          BY ONLY <3>2, <4>1, ReversedBytes
        <4>4. ASSUME NEW j \in 1 .. 4 PROVE Reversed(last)[j] = last[5 - j]
          <5> DEFINE r == 4 * ((j - 1) \div 4) + 4 - ((j - 1) % 4)
          <5>1. Reversed(last)[j] = last[r] /\ r = 5 - j
            BY <3>2, <4>2, <4>3
          <5> HIDE DEF r
          <5> QED
            BY <5>1
        <4> QED
          BY <3>2, <4>3, <4>4
      <3> DEFINE first == SubSeq(hex, 1, whole)
                 rev == Reversed(last)
      <3>4. first \in Seq(Bytes) /\ Len(first) = whole /\ \A i \in 1 .. whole : first[i] = hex[i]
        BY <1>1, <2>1, <3>1
      <3>5. Body(data, e) = first \o rev
        BY <1>4, <1>6, <2>4
      <3> HIDE DEF first, rev
      <3>6. /\ Body(data, e) \in Seq(Bytes) /\ Len(Body(data, e)) = R
            /\ \A i \in 1 .. whole : Body(data, e)[i] = hex[i]
            /\ \A j \in 1 .. 4 : Body(data, e)[whole + j] = rev[j]
        <4>1. rev \in Seq(Bytes) /\ Len(rev) = 4
          BY <3>3 DEF rev
        <4>2. /\ first \o rev \in Seq(Bytes) /\ Len(first \o rev) = Len(first) + Len(rev)
              /\ Extends(first, first \o rev)
              /\ \A i \in 1 .. Len(rev) : (first \o rev)[Len(first) + i] = rev[i]
          <5>1. first \in Seq(Bytes) /\ rev \in Seq(Bytes)
            BY <3>4, <4>1
          <5> QED
            BY ONLY <5>1, Concatenated
        <4> QED
          BY <3>1, <3>4, <3>5, <4>1, <4>2 DEF Extends
      <3>7. ASSUME NEW q \in 0 .. n - 1, ~ (q < whole)
            PROVE  Body(data, e)[q + 1] = data[q + 1]
        <4> DEFINE j == (q - whole) + 1
        <4>1. j \in 1 .. 4 /\ whole + j = q + 1 /\ 5 - j \in 1 .. 4 /\ q + 1 \in 1 .. n
          BY <1>1, <3>7
        <4>2. Body(data, e)[q + 1] = hex[whole + (5 - j)]
          BY <3>2, <3>3, <3>6, <4>1 DEF rev
        <4> DEFINE i == whole + (5 - j)
        <4>3. i \in 1 .. R /\ 4 * ((i - 1) \div 4) + 4 - ((i - 1) % 4) = q + 1
          <5>1. PICK w \in Nat : whole = 4 * w
            BY SMT, <1>1
          <5>2. i - 1 = 4 * w + (4 - j) /\ 4 - j \in 0 .. 3 /\ j = q - whole + 1 /\ i \in 1 .. R
            BY <1>1, <3>1, <4>1, <5>1
          <5> HIDE DEF i, j
          <5>3. (i - 1) \div 4 = w /\ (i - 1) % 4 = 4 - j
            BY SMT, <5>1, <5>2
          <5> QED
            BY <4>1, <5>1, <5>2, <5>3
        <4>4. Body(data, e)[q + 1] = p[q + 1]
          <5> HIDE DEF i, j
          <5>1. Body(data, e)[q + 1] = hex[i]
            BY <4>2 DEF i
          <5>2. hex[i] = p[q + 1]
            BY <2>1, <4>3
          <5> QED
            BY <5>1, <5>2
        <4> QED
          BY <1>2, <4>1, <4>4
      <3>8. ASSUME NEW q \in 0 .. n - 1, q < whole
            PROVE  Body(data, e)[q + 1] = data[4 * (q \div 4) + 4 - (q % 4)]
        BY <2>2, <3>6, <3>8
      <3> QED
        BY <1>6, <3>6, <3>7, <3>8 DEF n, R, whole
    <2> QED
      BY <2>3, <2>4
  <1> QED
    BY <1>5, <1>6

LEMMA JoinedThree ==
    ASSUME NEW V, NEW a \in Seq(V), NEW b \in Seq(V), NEW c \in Seq(V)
    PROVE  /\ a \o b \o c \in Seq(V) /\ Len(a \o b \o c) = Len(a) + Len(b) + Len(c)
           /\ \A i \in 1 .. Len(a) : (a \o b \o c)[i] = a[i]
           /\ \A i \in 1 .. Len(b) : (a \o b \o c)[Len(a) + i] = b[i]
           /\ \A i \in 1 .. Len(c) : (a \o b \o c)[Len(a) + Len(b) + i] = c[i]
  <1> DEFINE d == a \o b
             n == Len(a)
             m == Len(b)
  <1>1. /\ d \in Seq(V) /\ Len(d) = n + m /\ Extends(a, d) /\ \A i \in 1 .. m : d[n + i] = b[i]
        /\ n \in Nat /\ m \in Nat
    BY Concatenated
  <1> HIDE DEF d
  <1>2. /\ d \o c \in Seq(V) /\ Len(d \o c) = Len(d) + Len(c) /\ Extends(d, d \o c)
        /\ \A i \in 1 .. Len(c) : (d \o c)[Len(d) + i] = c[i]
    <2>1. d \in Seq(V) /\ c \in Seq(V)
      BY <1>1
    <2> QED
      BY ONLY <2>1, Concatenated
  <1> HIDE DEF n, m
  <1>3. \A i \in 1 .. n : i \in 1 .. n + m
    BY <1>1
  <1>4. \A i \in 1 .. m : n + i \in 1 .. n + m
    BY <1>1
  <1>5. \A i \in 1 .. n : (d \o c)[i] = a[i]
    BY <1>1, <1>2, <1>3 DEF Extends, n
  <1>6. \A i \in 1 .. m : (d \o c)[n + i] = b[i]
    BY <1>1, <1>2, <1>4 DEF Extends
  <1> QED
    BY <1>1, <1>2, <1>5, <1>6 DEF d, n, m

\* The word at offset p of a sequence of bytes.
WordAt(s, p) == Word16(s[p + 1], s[p + 2])

\* A section as the table holds it, and what the images guarantee of one.
IsSection(s) ==
    /\ s.data \in Seq(Bytes) /\ Is32Bit(s.addr) /\ Is32Bit(Len(s.data))
    /\ Len(s.data) > 0 /\ Len(s.data) % 2 = 0 /\ s.addr + Len(s.data) <= MemoryLen

SectionSize(s) == 8 + RoundedUp(Len(s.data))

LEMMA SectionTableBytes ==
    ASSUME NEW s, IsSection(s), NEW e
    PROVE  LET t == SectionTable(s, e)
           IN /\ t \in Seq(Bytes) /\ Len(t) = SectionSize(s)
              /\ SectionSize(s) \in Nat /\ SectionSize(s) >= 8 + Len(s.data)
              /\ SectionSize(s) % 4 = 0
              /\ WordAt(t, 0) = Len(s.data) \div 2^16 /\ WordAt(t, 2) = Len(s.data) % 2^16
              /\ WordAt(t, 4) = s.addr \div 2^16 /\ WordAt(t, 6) = s.addr % 2^16
              /\ \A i \in 1 .. Len(s.data) : t[8 + i] = Body(s.data, e)[i]
  <1> DEFINE n == Len(s.data)
             a == Bytes32(n)
             b == Bytes32(s.addr)
             c == Body(s.data, e)
             t == SectionTable(s, e)
  <1>1. n \in Nat /\ RoundedUp(n) \in Nat /\ n <= RoundedUp(n) /\ RoundedUp(n) % 4 = 0
    <2>1. n \in Nat
      BY DEF IsSection
    <2> QED
      BY <2>1, Rounding
  <1>2. /\ a \in Seq(Bytes) /\ Len(a) = 4
        /\ Word16(a[1], a[2]) = n \div 2^16 /\ Word16(a[3], a[4]) = n % 2^16
    BY Bytes32Bytes DEF IsSection
  <1>3. /\ b \in Seq(Bytes) /\ Len(b) = 4
        /\ Word16(b[1], b[2]) = s.addr \div 2^16 /\ Word16(b[3], b[4]) = s.addr % 2^16
    BY Bytes32Bytes DEF IsSection
  <1>4. c \in Seq(Bytes) /\ Len(c) = RoundedUp(n)
    BY BodyBytes DEF IsSection
  <1>5. t = a \o b \o c
    BY DEF SectionTable, Body
  <1> HIDE DEF a, b, c, t
  <1>6. /\ t \in Seq(Bytes) /\ Len(t) = Len(a) + Len(b) + Len(c)
        /\ \A i \in 1 .. Len(a) : t[i] = a[i]
        /\ \A i \in 1 .. Len(b) : t[Len(a) + i] = b[i]
        /\ \A i \in 1 .. Len(c) : t[Len(a) + Len(b) + i] = c[i]
    <2>1. a \in Seq(Bytes) /\ b \in Seq(Bytes) /\ c \in Seq(Bytes)
      BY <1>2, <1>3, <1>4
    <2>2. /\ a \o b \o c \in Seq(Bytes) /\ Len(a \o b \o c) = Len(a) + Len(b) + Len(c)
          /\ \A i \in 1 .. Len(a) : (a \o b \o c)[i] = a[i]
          /\ \A i \in 1 .. Len(b) : (a \o b \o c)[Len(a) + i] = b[i]
          /\ \A i \in 1 .. Len(c) : (a \o b \o c)[Len(a) + Len(b) + i] = c[i]
      BY ONLY <2>1, JoinedThree
    <2> QED
      BY ONLY <1>5, <2>2
  <1>7. /\ t[0 + 1] = a[1] /\ t[0 + 2] = a[2] /\ t[2 + 1] = a[3] /\ t[2 + 2] = a[4]
        /\ t[4 + 1] = b[1] /\ t[4 + 2] = b[2] /\ t[6 + 1] = b[3] /\ t[6 + 2] = b[4]
    <2>1. \A i \in 1 .. 4 : t[i] = a[i] /\ t[4 + i] = b[i]
      BY <1>2, <1>3, <1>6
    <2> QED
      BY <2>1
  <1>8. ASSUME NEW i \in 1 .. n PROVE t[8 + i] = c[i]
    BY SMTT(30), <1>1, <1>2, <1>3, <1>4, <1>6, <1>8
  <1>9. Len(t) = SectionSize(s) /\ SectionSize(s) \in Nat /\ SectionSize(s) >= 8 + n
        /\ SectionSize(s) % 4 = 0
    <2> DEFINE R == RoundedUp(n)
    <2>1. Len(t) = 8 + R /\ SectionSize(s) = 8 + R /\ R \in Nat /\ n <= R /\ R % 4 = 0
      BY <1>1, <1>2, <1>3, <1>4, <1>6 DEF SectionSize
    <2> HIDE DEF R, n
    <2>2. (8 + R) % 4 = 0
      BY SMT, <2>1
    <2> QED
      BY <1>1, <2>1, <2>2
  <1>10. /\ WordAt(t, 0) = Word16(a[1], a[2]) /\ WordAt(t, 2) = Word16(a[3], a[4])
         /\ WordAt(t, 4) = Word16(b[1], b[2]) /\ WordAt(t, 6) = Word16(b[3], b[4])
    BY <1>7 DEF WordAt
  <1> QED
    BY <1>2, <1>3, <1>6, <1>8, <1>9, <1>10 DEF t, c

LEMMA ImageSections ==
    ASSUME NEW im \in Images
    PROVE  /\ Is32Bit(im.entry)
           /\ Len(im.sections) \in Nat /\ DOMAIN im.sections = 1 .. Len(im.sections)
           /\ \A k \in 1 .. Len(im.sections) : IsSection(im.sections[k])
           /\ \A j, k \in 1 .. Len(im.sections) :
                  j # k => \/ im.sections[j].addr + Len(im.sections[j].data) <= im.sections[k].addr
                           \/ im.sections[k].addr + Len(im.sections[k].data) <= im.sections[j].addr
  <1> DEFINE ss == im.sections
             N == Len(ss)
  <1>1. ss \in Seq([addr : Nat, data : Seq(0 .. 255)])
    BY ImagesAssumption
  <1>2. N \in Nat /\ DOMAIN ss = 1 .. N /\ \A k \in 1 .. N : ss[k].data \in Seq(0 .. 255)
    <2> HIDE DEF ss
    <2>1. N \in Nat /\ DOMAIN ss = 1 .. N
      BY <1>1
    <2>2. ASSUME NEW k \in 1 .. N PROVE ss[k].data \in Seq(0 .. 255)
      <3> DEFINE V == [addr : Nat, data : Seq(0 .. 255)]
      <3>2. ss \in Seq(V) /\ k \in 1 .. Len(ss)
        BY <1>1
      <3> HIDE DEF V
      <3>3. ss[k] \in V
        BY <3>2
      <3>1. ss[k] \in [addr : Nat, data : Seq(0 .. 255)]
        BY <3>3 DEF V
      <3> QED
        BY <3>1
    <2> QED
      BY <2>1, <2>2
  <1>3. \A k \in 1 .. N : IsSection(ss[k])
    BY ZenonT(60), <1>2, ImagesAssumption DEF IsSection, Bytes
  <1>4. \A j, k \in 1 .. N :
            j # k => ss[j].addr + Len(ss[j].data) <= ss[k].addr
                     \/ ss[k].addr + Len(ss[k].data) <= ss[j].addr
    BY <1>2, ImagesAssumption
  <1> QED
    BY <1>2, <1>3, <1>4, ImagesAssumption

\* Where section k + 1 begins; behind the last one the table ends.
Tables(im, e, k) == [j \in 1 .. k |-> SectionTable(im.sections[j], e)]
Start(im, e, k) == 4 + Len(FlattenSeq(Tables(im, e, k)))

LEMMA PrefixFlat ==
    ASSUME NEW V, NEW seqs \in Seq(Seq(V)), NEW f, IsFlat(f, seqs, V),
           NEW k \in 0 .. Len(seqs), NEW prefix \in Seq(Seq(V)), Len(prefix) = k,
           \A j \in 1 .. k : prefix[j] = seqs[j]
    PROVE  FlattenSeq(prefix) = f[k]
  <1>1. PICK g : IsFlat(g, prefix, V) /\ FlattenSeq(prefix) = g[k]
    BY FlattenParts
  <1> DEFINE N == Len(seqs)
  <1>2. N \in Nat /\ k \in Nat /\ k <= N
    OBVIOUS
  <1>3. f[0] = g[0]
    BY <1>1 DEF IsFlat
  <1>4. \A n \in 0 .. k - 1 : f[n] = g[n] => f[n + 1] = g[n + 1]
    <2> SUFFICES ASSUME NEW n \in 0 .. k - 1, f[n] = g[n] PROVE f[n + 1] = g[n + 1]
      OBVIOUS
    <2>1. n + 1 \in 1 .. k /\ n + 1 \in 1 .. N /\ (n + 1) - 1 = n
      BY <1>2
    <2>2. f[n + 1] = f[n] \o seqs[n + 1]
      BY <2>1 DEF IsFlat
    <2>3. g[n + 1] = g[n] \o prefix[n + 1]
      BY <1>1, <2>1 DEF IsFlat
    <2>4. prefix[n + 1] = seqs[n + 1]
      BY <2>1
    <2> QED
      BY <2>2, <2>3, <2>4
  <1>5. \A n \in 0 .. k : f[n] = g[n]
    BY ONLY ZenonT(60), <1>2, <1>3, <1>4, Agreement
  <1> QED
    BY <1>1, <1>2, <1>5

LEMMA TableBytes ==
    ASSUME NEW im \in Images, NEW e
    PROVE  LET t == Table(im, e)
               N == Len(im.sections)
           IN /\ t \in Seq(Bytes) /\ Len(t) = Start(im, e, N) + 4
              /\ WordAt(t, 0) = im.entry \div 2^16 /\ WordAt(t, 2) = im.entry % 2^16
              /\ WordAt(t, Start(im, e, N)) = 0 /\ WordAt(t, Start(im, e, N) + 2) = 0
              /\ Start(im, e, 0) = 4
              /\ \A k \in 1 .. N :
                     /\ Start(im, e, k - 1) \in Nat
                     /\ Start(im, e, k) = Start(im, e, k - 1) + SectionSize(im.sections[k])
                     /\ Start(im, e, k) <= Start(im, e, N)
                     /\ \A i \in 1 .. SectionSize(im.sections[k]) :
                            t[Start(im, e, k - 1) + i] = SectionTable(im.sections[k], e)[i]
  <1> DEFINE t == Table(im, e)
             N == Len(im.sections)
             seqs == Tables(im, e, N)
             first == Bytes32(im.entry)
             last == Bytes32(0)
             flat == FlattenSeq(seqs)
             size(k) == SectionSize(im.sections[k])
  <1>1. /\ Is32Bit(im.entry) /\ N \in Nat /\ DOMAIN im.sections = 1 .. N
        /\ \A k \in 1 .. N : IsSection(im.sections[k])
    BY ImageSections
  <1>2. \A k \in 1 .. N : /\ SectionTable(im.sections[k], e) \in Seq(Bytes)
                          /\ Len(SectionTable(im.sections[k], e)) = size(k)
                          /\ size(k) \in Nat
    BY <1>1, SectionTableBytes
  <1> HIDE DEF size
  <1>3. ASSUME NEW k \in 0 .. N
        PROVE  /\ Tables(im, e, k) \in Seq(Seq(Bytes)) /\ Len(Tables(im, e, k)) = k
               /\ \A j \in 1 .. k : Tables(im, e, k)[j] = SectionTable(im.sections[j], e)
    <2>1. k \in Nat /\ \A j \in 1 .. k : j \in 1 .. N
      BY <1>1
    <2>2. Tables(im, e, k) = [j \in 1 .. k |-> SectionTable(im.sections[j], e)]
      BY DEF Tables
    <2>3. Tables(im, e, k) \in [1 .. k -> Seq(Bytes)]
      BY <1>2, <2>1, <2>2
    <2> QED
      BY <2>1, <2>2, <2>3
  <1>4. N \in 0 .. N /\ 0 \in 0 .. N
    BY <1>1
  <1>5. /\ seqs \in Seq(Seq(Bytes)) /\ Len(seqs) = N
        /\ \A j \in 1 .. N : seqs[j] = SectionTable(im.sections[j], e)
    BY <1>3, <1>4
  <1>6. PICK f : IsFlat(f, seqs, Bytes) /\ flat = f[N]
    <2>1. \E f : IsFlat(f, seqs, Bytes) /\ FlattenSeq(seqs) = f[Len(seqs)]
      BY ONLY <1>5, FlattenParts
    <2> QED
      BY <1>5, <2>1
  <1>7. f \in [0 .. N -> Seq(Bytes)] /\ f[0] = << >>
    BY <1>5, <1>6 DEF IsFlat
  <1>8. ASSUME NEW k \in 0 .. N PROVE Start(im, e, k) = 4 + Len(f[k]) /\ Len(f[k]) \in Nat
    <2> DEFINE prefix == Tables(im, e, k)
    <2>1. prefix \in Seq(Seq(Bytes)) /\ Len(prefix) = k /\ \A j \in 1 .. k : prefix[j] = seqs[j]
      <3>1. \A j \in 1 .. k : j \in 1 .. N
        BY <1>1
      <3> HIDE DEF seqs
      <3> QED
        BY <1>3, <1>5, <3>1
    <2> HIDE DEF prefix, seqs, N
    <2>2. k \in 0 .. Len(seqs)
      BY <1>5
    <2>3. FlattenSeq(prefix) = f[k]
      BY ONLY <1>5, <1>6, <2>1, <2>2, PrefixFlat
    <2>4. Len(f[k]) \in Nat
      BY <1>7
    <2> QED
      BY <2>3, <2>4 DEF Start, prefix
  <1>9. /\ first \in Seq(Bytes) /\ Len(first) = 4
        /\ Word16(first[1], first[2]) = im.entry \div 2^16
        /\ Word16(first[3], first[4]) = im.entry % 2^16
    BY <1>1, Bytes32Bytes
  <1>10. /\ last \in Seq(Bytes) /\ Len(last) = 4
         /\ Word16(last[1], last[2]) = 0 /\ Word16(last[3], last[4]) = 0
    <2>1. Is32Bit(0) /\ 0 \div 2^16 = 0 /\ 0 % 2^16 = 0
      BY SMT DEF Is32Bit
    <2> QED
      BY <2>1, Bytes32Bytes
  <1>11. t = first \o flat \o last
    <2>1. [k \in DOMAIN im.sections |-> SectionTable(im.sections[k], e)] = seqs
      BY <1>1 DEF Tables
    <2> HIDE DEF seqs
    <2> QED
      BY <2>1 DEF Table
  <1>12. flat \in Seq(Bytes)
    BY <1>4, <1>6, <1>7
  <1> HIDE DEF t, first, last, flat, seqs, N
  <1>13. /\ t \in Seq(Bytes) /\ Len(t) = Len(first) + Len(flat) + Len(last)
         /\ \A i \in 1 .. Len(first) : t[i] = first[i]
         /\ \A i \in 1 .. Len(flat) : t[Len(first) + i] = flat[i]
         /\ \A i \in 1 .. Len(last) : t[Len(first) + Len(flat) + i] = last[i]
    <2>1. first \in Seq(Bytes) /\ flat \in Seq(Bytes) /\ last \in Seq(Bytes)
      BY <1>9, <1>10, <1>12
    <2> QED
      BY ONLY <1>11, <2>1, JoinedThree
  <1> DEFINE S == Start(im, e, N)
  <1>14. S = 4 + Len(flat) /\ Len(flat) \in Nat /\ Len(t) = S + 4
    BY <1>4, <1>6, <1>8, <1>9, <1>10, <1>13
  <1>15. WordAt(t, 0) = im.entry \div 2^16 /\ WordAt(t, 2) = im.entry % 2^16
    <2>1. \A i \in 1 .. 4 : t[i] = first[i]
      BY <1>9, <1>13
    <2>2. t[0 + 1] = first[1] /\ t[0 + 2] = first[2] /\ t[2 + 1] = first[3] /\ t[2 + 2] = first[4]
      BY <2>1
    <2> QED
      BY <1>9, <2>2 DEF WordAt
  <1>16. WordAt(t, S) = 0 /\ WordAt(t, S + 2) = 0
    <2>1. \A i \in 1 .. 4 : t[S + i] = last[i]
      BY <1>9, <1>10, <1>13, <1>14
    <2>2. (S + 2) + 1 = S + 3 /\ (S + 2) + 2 = S + 4
      BY <1>14
    <2>3. t[S + 1] = last[1] /\ t[S + 2] = last[2] /\ t[(S + 2) + 1] = last[3] /\ t[(S + 2) + 2] = last[4]
      BY <2>1, <2>2
    <2> HIDE DEF S
    <2> QED
      BY <1>10, <2>3 DEF WordAt
  <1>17. Start(im, e, 0) = 4
    BY <1>4, <1>7, <1>8
  <1>18. ASSUME NEW k \in 1 .. N
         PROVE  /\ Start(im, e, k - 1) \in Nat
                /\ Start(im, e, k) = Start(im, e, k - 1) + size(k)
                /\ Start(im, e, k) <= S
                /\ \A i \in 1 .. size(k) :
                       t[Start(im, e, k - 1) + i] = SectionTable(im.sections[k], e)[i]
    <2>1. k - 1 \in 0 .. N /\ k \in 0 .. N /\ k \in 1 .. Len(seqs)
      BY <1>1, <1>5
    <2>2. /\ Len(f[k]) = Len(f[k - 1]) + Len(seqs[k]) /\ Len(f[k]) <= Len(f[Len(seqs)])
          /\ \A i \in 1 .. Len(seqs[k]) : f[Len(seqs)][Len(f[k - 1]) + i] = seqs[k][i]
      <3>1. seqs \in Seq(Seq(Bytes)) /\ IsFlat(f, seqs, Bytes)
        BY <1>5, <1>6
      <3>2. FlatAt(f, seqs, k)
        BY ONLY <3>1, <2>1, FlatContent
      <3> QED
        BY <3>2 DEF FlatAt
    <2> DEFINE x == Len(f[k - 1])
    <2>3. /\ Start(im, e, k - 1) = 4 + x /\ x \in Nat /\ Start(im, e, k) = 4 + Len(f[k])
          /\ Len(f[k]) \in Nat /\ S = 4 + Len(flat)
          /\ Len(seqs[k]) = size(k) /\ size(k) \in Nat /\ f[Len(seqs)] = flat
          /\ seqs[k] = SectionTable(im.sections[k], e)
      BY <1>2, <1>5, <1>6, <1>8, <1>14, <2>1
    <2> HIDE DEF x, S
    <2>4. ASSUME NEW i \in 1 .. size(k)
          PROVE  t[(4 + x) + i] = SectionTable(im.sections[k], e)[i]
      <3> DEFINE z == size(k)
                 y == Len(flat)
      <3>3. x \in Nat /\ z \in Nat /\ y \in Nat /\ x + z <= y /\ i \in 1 .. z
        BY <1>14, <2>2, <2>3 DEF x
      <3> HIDE DEF z, y
      <3>4. x + i \in 1 .. y /\ (4 + x) + i = 4 + (x + i)
        BY <3>3
      <3>1. x + i \in 1 .. Len(flat) /\ (4 + x) + i = 4 + (x + i)
        BY <3>4 DEF y
      <3>2. t[4 + (x + i)] = flat[x + i]
        BY <1>9, <1>13, <3>1
      <3> QED
        BY <2>2, <2>3, <3>1, <3>2 DEF x
    <2>5. Start(im, e, k) = Start(im, e, k - 1) + size(k) /\ Start(im, e, k) <= S
      BY SMTT(30), <1>14, <2>2, <2>3 DEF x
    <2>6. Start(im, e, k - 1) \in Nat
      BY <2>3
    <2> QED
      BY ONLY <2>3, <2>4, <2>5, <2>6
  <1> QED
    BY <1>13, <1>14, <1>15, <1>16, <1>17, <1>18 DEF t, N, size, S

-----------------------------------------------------------------------------
(* The blocks.                                                             *)

LEMMA WordBytes ==
    ASSUME NEW a \in Bytes, NEW b \in Bytes
    PROVE  Word16(a, b) \in Word
  BY SMT DEF Bytes, Word, AllOnes, Word16

\* The words of the first n bytes.
WordsOf(b, n) == [j \in 1 .. n \div 2 |-> Word16(b[2 * j - 1], b[2 * j])]

LEMMA WordsOfBytes ==
    ASSUME NEW n \in Nat, n % 2 = 0, NEW b, \A i \in 1 .. n : b[i] \in Bytes
    PROVE  /\ WordsOf(b, n) \in Seq(Word) /\ Len(WordsOf(b, n)) = n \div 2 /\ n \div 2 \in Nat
           /\ n = 2 * (n \div 2)
           /\ \A j \in 1 .. n \div 2 : /\ WordsOf(b, n)[j] = Word16(b[2 * j - 1], b[2 * j])
                                       /\ 2 * j - 1 \in 1 .. n /\ 2 * j \in 1 .. n
  <1> DEFINE h == n \div 2
  <1>1. h \in Nat /\ n = 2 * h
    BY SMT
  <1>2. WordsOf(b, n) = [j \in 1 .. h |-> Word16(b[2 * j - 1], b[2 * j])]
    BY DEF WordsOf
  <1> HIDE DEF h
  <1>3. ASSUME NEW j \in 1 .. h PROVE 2 * j - 1 \in 1 .. n /\ 2 * j \in 1 .. n
    BY SMT, <1>1
  <1>4. ASSUME NEW j \in 1 .. h PROVE Word16(b[2 * j - 1], b[2 * j]) \in Word
    BY <1>3, WordBytes
  <1>5. WordsOf(b, n) \in [1 .. h -> Word]
    BY <1>2, <1>4
  <1>6. WordsOf(b, n) \in Seq(Word) /\ Len(WordsOf(b, n)) = h
    BY <1>1, <1>5
  <1> QED
    BY <1>1, <1>2, <1>3, <1>6 DEF h

\* The words of a block are the length, the checksum and the words of the data.
LEMMA BlockBytes ==
    ASSUME NEW data \in Seq(Bytes), Len(data) % 2 = 0, Len(data) + HeaderBytes < 2^16
    PROVE  LET b == Block(data)
               n == Len(data) + HeaderBytes
           IN /\ b \in Seq(Bytes) /\ Len(b) = n /\ n \in Nat /\ n % 2 = 0
              /\ b[1] = n \div 2^8 /\ b[2] = n % 2^8
              /\ \A i \in 1 .. Len(data) : b[HeaderBytes + i] = data[i]
              /\ onesComplementChksum(WordsOf(b, n)) \in {0, AllOnes}
  <1> DEFINE n == Len(data) + HeaderBytes
             d == Len(data)
             length == Bytes16(n)
             short == length \o data
             w == Words(short)
             c == AllOnes - onesComplementChksum(w)
             partial == Bytes16(c)
             b == Block(data)
  <1>1. d \in Nat /\ d % 2 = 0 /\ n = d + 4 /\ n \in Nat /\ n < 2^16 /\ n % 2 = 0
    <2>1. d \in Nat /\ n = d + 4 /\ d % 2 = 0 /\ n < 2^16
      BY DEF HeaderBytes
    <2> HIDE DEF d, n
    <2> QED
      BY SMT, <2>1
  <1> HIDE DEF n
  <1>2. length \in Seq(Bytes) /\ Len(length) = 2 /\ length[1] = n \div 2^8 /\ length[2] = n % 2^8
    BY <1>1, Bytes16Bytes
  <1> HIDE DEF length
  <1>3. /\ short \in Seq(Bytes) /\ Len(short) = d + 2
        /\ short[1] = length[1] /\ short[2] = length[2]
        /\ \A i \in 1 .. d : short[2 + i] = data[i]
    <2>1. /\ length \o data \in Seq(Bytes) /\ Len(length \o data) = Len(length) + Len(data)
          /\ Extends(length, length \o data)
          /\ \A i \in 1 .. Len(data) : (length \o data)[Len(length) + i] = data[i]
      <3>1. length \in Seq(Bytes) /\ data \in Seq(Bytes)
        BY <1>2
      <3> QED
        BY ONLY <3>1, Concatenated
    <2> HIDE DEF d
    <2>2. short[1] = length[1] /\ short[2] = length[2]
      BY <1>2, <2>1 DEF Extends
    <2> QED
      BY SMTT(30), <1>1, <1>2, <2>1, <2>2 DEF d
  <1> HIDE DEF short
  <1>4. w = WordsOf(short, d + 2)
    <2> HIDE DEF d
    <2> QED
      BY <1>3 DEF Words, WordsOf
  <1>5. d + 2 \in Nat /\ (d + 2) % 2 = 0 /\ \A i \in 1 .. d + 2 : short[i] \in Bytes
    <2> HIDE DEF d
    <2>1. d + 2 \in Nat /\ (d + 2) % 2 = 0
      BY SMT, <1>1
    <2> QED
      BY <1>3, <2>1
  <1> DEFINE h == d \div 2
  <1>6. h \in Nat /\ d = 2 * h /\ (d + 2) \div 2 = h + 1 /\ n \div 2 = h + 2
    <2>1. h \in Nat /\ d = 2 * h
      BY SMT, <1>1
    <2> HIDE DEF h, d
    <2> QED
      BY SMT, <1>1, <2>1
  <1> HIDE DEF d, h
  <1>7. /\ w \in Seq(Word) /\ Len(w) = h + 1
        /\ \A j \in 1 .. h + 1 : w[j] = Word16(short[2 * j - 1], short[2 * j])
    BY <1>4, <1>5, <1>6, WordsOfBytes
  <1> HIDE DEF w
  <1>8. onesComplementChksum(w) \in Word
    <2>1. PICK s : IsSum(s, w) /\ onesComplementChksum(w) = s[Len(w)]
      BY <1>7, ChecksumSums
    <2>2. Len(w) \in 0 .. Len(w)
      BY <1>6, <1>7
    <2> QED
      BY <2>1, <2>2 DEF IsSum
  <1>9. c \in Nat /\ c < 2^16 /\ c \in Word
    <2> DEFINE x == onesComplementChksum(w)
    <2>1. x \in Word /\ c = AllOnes - x
      BY <1>8
    <2> HIDE DEF x, c
    <2> QED
      BY SMT, <2>1 DEF Word, AllOnes
  <1>10. partial \in Seq(Bytes) /\ Len(partial) = 2 /\ Word16(partial[1], partial[2]) = c
    <2> HIDE DEF c
    <2> QED
      BY <1>9, Bytes16Bytes, HalfWords
  <1>11. b = length \o partial \o data
    BY DEF Block, length, n, w, short, AllOnes
  <1> HIDE DEF c, partial, b
  <1>12. /\ b \in Seq(Bytes) /\ Len(b) = Len(length) + Len(partial) + Len(data)
         /\ \A i \in 1 .. Len(length) : b[i] = length[i]
         /\ \A i \in 1 .. Len(partial) : b[Len(length) + i] = partial[i]
         /\ \A i \in 1 .. Len(data) : b[Len(length) + Len(partial) + i] = data[i]
    <2> DEFINE x == length \o partial \o data
    <2>1. length \in Seq(Bytes) /\ partial \in Seq(Bytes) /\ data \in Seq(Bytes)
      BY <1>2, <1>10
    <2>2. /\ x \in Seq(Bytes) /\ Len(x) = Len(length) + Len(partial) + Len(data)
          /\ \A i \in 1 .. Len(length) : x[i] = length[i]
          /\ \A i \in 1 .. Len(partial) : x[Len(length) + i] = partial[i]
          /\ \A i \in 1 .. Len(data) : x[Len(length) + Len(partial) + i] = data[i]
      BY ONLY <2>1, JoinedThree
    <2>3. b = x
      BY <1>11
    <2> HIDE DEF x
    <2> QED
      BY ONLY <2>2, <2>3
  <1>13. /\ Len(b) = n /\ b[1] = length[1] /\ b[2] = length[2] /\ b[3] = partial[1] /\ b[4] = partial[2]
         /\ \A i \in 1 .. d : b[4 + i] = data[i]
    <2>1. Len(data) = d
      BY DEF d
    <2>2. \A i \in 1 .. 2 : b[i] = length[i] /\ b[2 + i] = partial[i]
      BY <1>2, <1>10, <1>12
    <2>3. b[1] = length[1] /\ b[2] = length[2] /\ b[2 + 1] = partial[1] /\ b[2 + 2] = partial[2]
      BY <2>2
    <2>4. \A i \in 1 .. d : b[4 + i] = data[i]
      BY <1>2, <1>10, <1>12, <2>1
    <2> QED
      BY <1>1, <1>2, <1>10, <1>12, <2>1, <2>3, <2>4
  <1>14. \A i \in 1 .. n : b[i] \in Bytes
    BY <1>1, <1>12, <1>13
  <1> DEFINE v == WordsOf(b, n)
  <1>15. /\ v \in Seq(Word) /\ Len(v) = h + 2
         /\ \A j \in 1 .. h + 2 : v[j] = Word16(b[2 * j - 1], b[2 * j])
    BY <1>1, <1>6, <1>14, WordsOfBytes
  <1> HIDE DEF v
  <1>16. v[1] = w[1] /\ v[2] = c
    <2>1. 1 \in 1 .. h + 2 /\ 2 \in 1 .. h + 2 /\ 1 \in 1 .. h + 1 /\ 2 * 1 - 1 = 1 /\ 2 * 1 = 2
          /\ 2 * 2 - 1 = 3 /\ 2 * 2 = 4
      BY <1>6
    <2>2. v[1] = Word16(b[1], b[2]) /\ v[2] = Word16(b[3], b[4]) /\ w[1] = Word16(short[1], short[2])
      BY <1>7, <1>15, <2>1
    <2> QED
      BY <1>3, <1>10, <1>13, <2>2
  <1>17. ASSUME NEW j \in 2 .. h + 1 PROVE v[j + 1] = w[j]
    <2>1. j \in 1 .. h + 1 /\ j + 1 \in 1 .. h + 2 /\ 2 * (j + 1) - 1 = 4 + (2 * j - 3)
          /\ 2 * (j + 1) = 4 + (2 * j - 2) /\ 2 * j - 1 = 2 + (2 * j - 3) /\ 2 * j = 2 + (2 * j - 2)
          /\ 2 * j - 3 \in 1 .. d /\ 2 * j - 2 \in 1 .. d
      BY <1>6
    <2> DEFINE x == 2 * j - 3
               y == 2 * j - 2
    <2>2. v[j + 1] = Word16(b[4 + x], b[4 + y])
      BY <1>15, <2>1
    <2>3. w[j] = Word16(short[2 + x], short[2 + y])
      BY <1>7, <2>1
    <2>4. x \in 1 .. d /\ y \in 1 .. d
      BY <2>1
    <2> HIDE DEF x, y
    <2> QED
      BY <1>3, <1>13, <2>2, <2>3, <2>4
  <1>18. onesComplementChksum(v) \in {0, AllOnes}
    <2>1. Len(v) = Len(w) + 1 /\ Len(w) >= 1
      BY <1>6, <1>7, <1>15
    <2>2. \A j \in 2 .. Len(w) : v[j + 1] = w[j]
      BY <1>7, <1>17
    <2>3. v[2] = AllOnes - onesComplementChksum(w)
      BY <1>16 DEF c
    <2>4. v \in Seq(Word) /\ w \in Seq(Word) /\ v[1] = w[1]
      BY <1>7, <1>15, <1>16
    <2> QED
      BY ONLY <2>1, <2>2, <2>3, <2>4, BlockAddsUp
  <1>19. \A i \in 1 .. Len(data) : b[HeaderBytes + i] = data[i]
    BY <1>13 DEF d, HeaderBytes
  <1>20. b \in Seq(Bytes) /\ Len(b) = n /\ n \in Nat /\ n % 2 = 0 /\ b[1] = n \div 2^8 /\ b[2] = n % 2^8
    BY <1>1, <1>2, <1>12, <1>13
  <1> QED
    BY <1>18, <1>19, <1>20 DEF v, b, n

\* A byte with one bit inverted.
LEMMA InvertedByte ==
    ASSUME NEW v \in Bytes, NEW bit \in {2^k : k \in 0 .. 7}
    PROVE  /\ Inverted(v, bit) \in Bytes
           /\ Inverted(v, bit) = v + bit \/ Inverted(v, bit) = v - bit
           /\ bit \in 1 .. 128
  <1>1. bit \in {2^0, 2^1, 2^2, 2^3, 2^4, 2^5, 2^6, 2^7}
    <2>1. 0 .. 7 = {0, 1, 2, 3, 4, 5, 6, 7}
      BY SMT
    <2> QED
      BY <2>1
  <1>2. bit \in {1, 2, 4, 8, 16, 32, 64, 128}
    <2>1. 2^0 = 1 /\ 2^1 = 2 /\ 2^2 = 4 /\ 2^3 = 8 /\ 2^4 = 16 /\ 2^5 = 32 /\ 2^6 = 64 /\ 2^7 = 128
      BY SMT
    <2> QED
      BY <1>1, <2>1
  <1>3. CASE bit = 1
    BY SMT, <1>3 DEF Inverted, Bytes
  <1>4. CASE bit = 2
    BY SMT, <1>4 DEF Inverted, Bytes
  <1>5. CASE bit = 4
    BY SMT, <1>5 DEF Inverted, Bytes
  <1>6. CASE bit = 8
    BY SMT, <1>6 DEF Inverted, Bytes
  <1>7. CASE bit = 16
    BY SMT, <1>7 DEF Inverted, Bytes
  <1>8. CASE bit = 32
    BY SMT, <1>8 DEF Inverted, Bytes
  <1>9. CASE bit = 64
    BY SMT, <1>9 DEF Inverted, Bytes
  <1>10. CASE bit = 128
    BY SMT, <1>10 DEF Inverted, Bytes
  <1> QED
    BY <1>2, <1>3, <1>4, <1>5, <1>6, <1>7, <1>8, <1>9, <1>10

LEMMA InvertedWord ==
    ASSUME NEW a \in Bytes, NEW b \in Bytes, NEW bit \in {2^k : k \in 0 .. 7}
    PROVE  /\ Word16(Inverted(a, bit), b) # Word16(a, b)
           /\ -AllOnes < Word16(Inverted(a, bit), b) - Word16(a, b)
           /\ Word16(Inverted(a, bit), b) - Word16(a, b) < AllOnes
           /\ Word16(a, Inverted(b, bit)) # Word16(a, b)
           /\ -AllOnes < Word16(a, Inverted(b, bit)) - Word16(a, b)
           /\ Word16(a, Inverted(b, bit)) - Word16(a, b) < AllOnes
  <1> DEFINE x == Inverted(a, bit)
             y == Inverted(b, bit)
  <1>1. (x = a + bit \/ x = a - bit) /\ bit \in 1 .. 128 /\ (y = b + bit \/ y = b - bit)
    BY InvertedByte
  <1> HIDE DEF x, y
  <1>2. /\ Word16(x, b) # Word16(a, b) /\ -AllOnes < Word16(x, b) - Word16(a, b)
        /\ Word16(x, b) - Word16(a, b) < AllOnes /\ Word16(a, y) # Word16(a, b)
        /\ -AllOnes < Word16(a, y) - Word16(a, b) /\ Word16(a, y) - Word16(a, b) < AllOnes
    BY SMT, <1>1 DEF Word16, AllOnes, Bytes
  <1> QED
    BY <1>2 DEF x, y

\* One inverted bit never escapes the checksum.
LEMMA NoiseNoticed ==
    ASSUME NEW n \in Nat, n % 2 = 0, NEW b, \A i \in 1 .. n : b[i] \in Bytes,
           onesComplementChksum(WordsOf(b, n)) \in {0, AllOnes},
           NEW m \in 1 .. n, NEW bit \in {2^k : k \in 0 .. 7},
           NEW c, \A i \in (1 .. n) \ {m} : c[i] = b[i], c[m] = Inverted(b[m], bit)
    PROVE  ~ (onesComplementChksum(WordsOf(c, n)) \in {0, AllOnes})
  <1> DEFINE h == n \div 2
             v == WordsOf(c, n)
             w == WordsOf(b, n)
             j == (m + 1) \div 2
  <1>1. \A i \in 1 .. n : c[i] \in Bytes
    <2>1. b[m] \in Bytes
      OBVIOUS
    <2>2. c[m] \in Bytes
      BY <2>1, InvertedByte
    <2> QED
      BY <2>2
  <1>2. /\ w \in Seq(Word) /\ Len(w) = h /\ h \in Nat /\ n = 2 * h
        /\ \A i \in 1 .. h : /\ w[i] = Word16(b[2 * i - 1], b[2 * i])
                             /\ 2 * i - 1 \in 1 .. n /\ 2 * i \in 1 .. n
    BY WordsOfBytes
  <1>3. /\ v \in Seq(Word) /\ Len(v) = h
        /\ \A i \in 1 .. h : v[i] = Word16(c[2 * i - 1], c[2 * i])
    BY ONLY n \in Nat, n % 2 = 0, <1>1, WordsOfBytes
  <1> HIDE DEF h, v, w
  <1>4. j \in 1 .. h /\ (m = 2 * j \/ m = 2 * j - 1)
    BY SMT, <1>2
  <1> HIDE DEF j
  <1>5. ASSUME NEW i \in (1 .. h) \ {j} PROVE v[i] = w[i]
    <2>1. 2 * i # m /\ 2 * i - 1 # m
      BY SMTT(30), <1>2, <1>4, <1>5
    <2> QED
      BY <1>2, <1>3, <2>1
  <1>6. v[j] # w[j] /\ -AllOnes < v[j] - w[j] /\ v[j] - w[j] < AllOnes
    <2> DEFINE x == b[2 * j - 1]
               y == b[2 * j]
    <2>1. x \in Bytes /\ y \in Bytes /\ w[j] = Word16(x, y) /\ v[j] = Word16(c[2 * j - 1], c[2 * j])
      BY <1>2, <1>3, <1>4
    <2>2. 2 * j # 2 * j - 1 /\ 2 * j - 1 \in 1 .. n /\ 2 * j \in 1 .. n
      BY <1>2, <1>4
    <2>3. CASE m = 2 * j
      <3>1. c[2 * j] = Inverted(y, bit) /\ c[2 * j - 1] = x
        BY <2>2, <2>3
      <3> HIDE DEF x, y
      <3> QED
        BY <2>1, <3>1, InvertedWord
    <2>4. CASE m = 2 * j - 1
      <3>1. c[2 * j - 1] = Inverted(x, bit) /\ c[2 * j] = y
        BY <2>2, <2>4
      <3> HIDE DEF x, y
      <3> QED
        BY <2>1, <3>1, InvertedWord
    <2> QED
      BY <1>4, <2>3, <2>4
  <1> SUFFICES ASSUME onesComplementChksum(v) \in {0, AllOnes} PROVE FALSE
    BY DEF v
  <1>7. onesComplementChksum(w) \in {0, AllOnes}
    BY DEF w
  <1>8. /\ Len(v) = Len(w) /\ j \in 1 .. Len(w) /\ \A i \in (1 .. Len(w)) \ {j} : v[i] = w[i]
        /\ v \in Seq(Word) /\ w \in Seq(Word) /\ onesComplementChksum(v) \in {0, AllOnes}
    BY <1>2, <1>3, <1>4, <1>5
  <1> QED
    BY ONLY <1>6, <1>7, <1>8, ChangedWordNoticed

\* The part of the table that a block carries.
BlockCount(t) == (Len(t) + BLOCK_DATA - 1) \div BLOCK_DATA
Chunk(t, k) ==
    SubSeq(t, BLOCK_DATA * (k - 1) + 1, IF k * BLOCK_DATA < Len(t) THEN k * BLOCK_DATA ELSE Len(t))
ChunkEnd(t, k) == IF BLOCK_DATA * k < Len(t) THEN BLOCK_DATA * k ELSE Len(t)

LEMMA Dividing ==
    ASSUME NEW n \in Nat, NEW b \in Nat \ {0}
    PROVE  n \div b \in Nat /\ b * (n \div b) <= n /\ n < b * (n \div b) + b
  <1>1. n \div b \in Int /\ n % b \in 0 .. b - 1 /\ n = b * (n \div b) + (n % b)
    BY SMT
  <1> DEFINE q == n \div b
  <1>2. q \in Int /\ b * q <= n /\ n < b * q + b
    <2> DEFINE r == n % b
               p == b * q
    <2>1. r \in 0 .. b - 1 /\ n = p + r /\ p \in Int /\ q \in Int
      BY <1>1
    <2> HIDE DEF r, p, q
    <2>2. p <= n /\ n < p + b
      BY <2>1
    <2> QED
      BY <2>1, <2>2 DEF p
  <1>3. q >= 0
    BY SMT
  <1> QED
    BY <1>2, <1>3

LEMMA Times ==
    ASSUME NEW b \in Nat, NEW i \in Int, NEW k \in Int
    PROVE  /\ b * (k - 1) = b * k - b /\ k * b = b * k /\ b * (k + 1) = b * k + b
           /\ b * i \in Int /\ b * k \in Int
           /\ i <= k => b * i <= b * k
  BY SMT

LEMMA Chunks ==
    ASSUME NEW t \in Seq(Bytes), Len(t) % 2 = 0, NEW k \in 1 .. BlockCount(t)
    PROVE  /\ Chunk(t, k) \in Seq(Bytes) /\ Len(Chunk(t, k)) \in 1 .. BLOCK_DATA
           /\ Len(Chunk(t, k)) % 2 = 0
           /\ BLOCK_DATA * (k - 1) \in Nat
           /\ BLOCK_DATA * (k - 1) < Len(t)
           /\ ChunkEnd(t, k) = BLOCK_DATA * (k - 1) + Len(Chunk(t, k))
           /\ \A i \in 1 .. Len(Chunk(t, k)) : Chunk(t, k)[i] = t[BLOCK_DATA * (k - 1) + i]
           /\ k < BlockCount(t) => Len(Chunk(t, k)) = BLOCK_DATA
           /\ k = BlockCount(t) => ChunkEnd(t, k) = Len(t)
           /\ k < BlockCount(t) => ChunkEnd(t, k) < Len(t)
  <1> DEFINE L == Len(t)
             B == BLOCK_DATA
             M == BlockCount(t)
             o == B * (k - 1)
             end == IF k * B < L THEN k * B ELSE L
  <1>1. B \in Nat /\ B > 0 /\ B % 2 = 0 /\ B \in Nat \ {0}
    BY BootImageAssumption
  <1>2. L \in Nat /\ L % 2 = 0
    OBVIOUS
  <1>3. L + B - 1 \in Nat
    BY <1>1, <1>2
  <1> DEFINE top == B * M
  <1>4. M \in Nat /\ top <= L + B - 1 /\ L + B - 1 < top + B
    <2> DEFINE n == L + B - 1
    <2>1. n \in Nat /\ M = n \div B
      BY <1>3 DEF BlockCount
    <2> HIDE DEF n, M, B
    <2>2. M \in Nat /\ B * M <= n /\ n < B * M + B
      BY <1>1, <2>1, Dividing
    <2> QED
      BY <2>2 DEF n
  <1>5. k \in Int /\ k <= M /\ k >= 1
    BY <1>4
  <1>6. /\ o = B * k - B /\ k * B = B * k /\ B * k \in Int /\ top \in Int
        /\ B * k <= top /\ (k # M => B * k + B <= top) /\ (k = M => B * k = top)
        /\ o >= 0
    <2> HIDE DEF M, B
    <2>1. o = B * k - B /\ k * B = B * k /\ B * k \in Int /\ B * M \in Int
      BY <1>1, <1>4, <1>5, Times
    <2>2. B * k <= B * M
      BY <1>1, <1>4, <1>5, Times
    <2>3. ASSUME k # M PROVE B * k + B <= B * M
      <3>1. k + 1 <= M /\ k + 1 \in Int
        BY <1>4, <1>5, <2>3
      <3>2. B * (k + 1) <= B * M /\ B * (k + 1) = B * k + B
        BY <1>1, <1>4, <1>5, <3>1, Times
      <3> QED
        BY <3>2
    <2>4. B * 1 <= B * k /\ B * 1 = B
      BY <1>1, <1>5, Times
    <2> QED
      BY <1>1, <2>1, <2>2, <2>3, <2>4
  <1> DEFINE x == B * k
  <1>7. /\ x \in Int /\ o = x - B /\ k * B = x /\ x <= top /\ o >= 0 /\ top \in Int
        /\ (k # M => x + B <= top) /\ (k = M => x = top)
    BY ONLY <1>6
  <1> HIDE DEF x, top, M, B, L, o
  <1>8. o \in Nat /\ o < L
    BY <1>1, <1>2, <1>4, <1>7
  <1>9. end = (IF x < L THEN x ELSE L) /\ ChunkEnd(t, k) = end
    <2>1. ChunkEnd(t, k) = IF x < L THEN x ELSE L
      BY DEF ChunkEnd, x, B, L
    <2> QED
      BY <1>7, <2>1
  <1> HIDE DEF end
  <1>10. /\ end \in o + 1 .. L /\ end - o \in 1 .. B /\ (k = M => end = L)
         /\ (k # M => end = x /\ end < L)
    BY <1>1, <1>2, <1>4, <1>7, <1>8, <1>9
  <1>11. (end - o) % 2 = 0
    <2>1. x % 2 = 0 /\ o % 2 = 0
      <3>1. PICK y \in Nat : B = 2 * y
        BY SMT, <1>1
      <3>2. x = 2 * (y * k)
        BY SMT, <1>5, <3>1 DEF x
      <3>3. y * k \in Int
        BY <1>5, <3>1
      <3> DEFINE z == y * k
      <3>4. x = 2 * z /\ z \in Int
        BY <3>2, <3>3
      <3> HIDE DEF z
      <3> QED
        BY SMT, <1>1, <1>7, <3>1, <3>4
    <2> QED
      BY SMT, <1>1, <1>2, <1>7, <1>8, <1>9, <2>1
  <1>12. Chunk(t, k) = SubSeq(t, o + 1, end)
    BY DEF Chunk, o, end, B, L
  <1>13. /\ Chunk(t, k) \in Seq(Bytes) /\ Len(Chunk(t, k)) = end - o
         /\ \A i \in 1 .. end - o : Chunk(t, k)[i] = t[o + i]
    <2> DEFINE a == o + 1
    <2>1. /\ a \in 1 .. Len(t) + 1 /\ end \in a - 1 .. Len(t) /\ (end - a) + 1 = end - o
          /\ \A i \in 1 .. end - o : (a + i) - 1 = o + i
      BY <1>2, <1>8, <1>10 DEF L
    <2>2. Chunk(t, k) = SubSeq(t, a, end)
      BY <1>12
    <2> HIDE DEF a
    <2>3. /\ SubSeq(t, a, end) \in Seq(Bytes) /\ Len(SubSeq(t, a, end)) = (end - a) + 1
          /\ \A i \in 1 .. (end - a) + 1 : SubSeq(t, a, end)[i] = t[(a + i) - 1]
      BY ONLY t \in Seq(Bytes), <2>1, Part
    <2> QED
      BY <2>1, <2>2, <2>3
  <1>14. ChunkEnd(t, k) = o + Len(Chunk(t, k))
    BY <1>8, <1>9, <1>10, <1>13
  <1>15. k < M => Len(Chunk(t, k)) = B
    BY <1>1, <1>4, <1>5, <1>7, <1>8, <1>10, <1>13
  <1>16. k = M => ChunkEnd(t, k) = L
    BY <1>9, <1>10
  <1>17. k < M => ChunkEnd(t, k) < L
    BY <1>4, <1>5, <1>9, <1>10
  <1>18. Len(Chunk(t, k)) \in 1 .. B /\ Len(Chunk(t, k)) % 2 = 0
    BY <1>10, <1>11, <1>13
  <1>19. \A i \in 1 .. Len(Chunk(t, k)) : Chunk(t, k)[i] = t[o + i]
    BY <1>13
  <1>20. Chunk(t, k) \in Seq(Bytes)
    BY <1>13
  <1> QED
    BY ONLY <1>8, <1>14, <1>15, <1>16, <1>17, <1>18, <1>19, <1>20 DEF o, B, L, M

BlockSize == BLOCK_DATA + HeaderBytes

LEMMA SizesOfBlocks ==
    /\ BlockSize \in Nat /\ BlockSize = BLOCK_DATA + 4 /\ BlockSize > 4 /\ BlockSize % 2 = 0
    /\ BlockSize < 2^16 /\ BlockSize <= I_MAX_BLOCK_SIZE
    /\ BLOCK_DATA \in Nat /\ BLOCK_DATA > 0 /\ BLOCK_DATA % 2 = 0
    /\ I_MAX_BLOCK_SIZE \in Nat /\ I_MAX_BLOCK_SIZE < 2^16 /\ I_MAX_BLOCK_SIZE % 2 = 0
  <1>1. /\ BLOCK_DATA \in Nat /\ BLOCK_DATA > 0 /\ BLOCK_DATA % 2 = 0
        /\ I_MAX_BLOCK_SIZE \in Nat /\ I_MAX_BLOCK_SIZE < 2^16 /\ I_MAX_BLOCK_SIZE % 2 = 0
        /\ BLOCK_DATA + HeaderBytes <= I_MAX_BLOCK_SIZE
    BY BootImageAssumption, FirstStageAssumption
  <1>2. BlockSize = BLOCK_DATA + 4
    BY DEF BlockSize, HeaderBytes
  <1> QED
    BY SMT, <1>1, <1>2 DEF HeaderBytes

\* The data and the block of it.
LEMMA ChunkBlock ==
    ASSUME NEW t \in Seq(Bytes), Len(t) % 2 = 0, NEW k \in 1 .. BlockCount(t)
    PROVE  LET b == Block(Chunk(t, k))
               n == Len(Chunk(t, k)) + HeaderBytes
           IN /\ b \in Seq(Bytes) /\ Len(b) = n /\ n \in 5 .. BlockSize /\ n % 2 = 0
              /\ b[1] = n \div 2^8 /\ b[2] = n % 2^8
              /\ \A i \in 1 .. Len(Chunk(t, k)) : b[HeaderBytes + i] = Chunk(t, k)[i]
              /\ onesComplementChksum(WordsOf(b, n)) \in {0, AllOnes}
              /\ k < BlockCount(t) => n = BlockSize
  <1> DEFINE data == Chunk(t, k)
             n == Len(data) + HeaderBytes
  <1>1. data \in Seq(Bytes) /\ Len(data) \in 1 .. BLOCK_DATA /\ Len(data) % 2 = 0
        /\ (k < BlockCount(t) => Len(data) = BLOCK_DATA)
    BY Chunks
  <1> HIDE DEF data
  <1>2. n \in 5 .. BlockSize /\ n < 2^16 /\ (k < BlockCount(t) => n = BlockSize)
    BY <1>1, SizesOfBlocks DEF HeaderBytes
  <1>3. LET b == Block(data)
        IN /\ b \in Seq(Bytes) /\ Len(b) = n /\ n \in Nat /\ n % 2 = 0
           /\ b[1] = n \div 2^8 /\ b[2] = n % 2^8
           /\ \A i \in 1 .. Len(data) : b[HeaderBytes + i] = data[i]
           /\ onesComplementChksum(WordsOf(b, n)) \in {0, AllOnes}
    BY <1>1, <1>2, BlockBytes
  <1> QED
    BY <1>2, <1>3 DEF data

\* Block k of the file, at a multiple of the size of a block.
LEMMA BlocksBytes ==
    ASSUME NEW t \in Seq(Bytes), Len(t) % 2 = 0
    PROVE  /\ Blocks(t) \in Seq(Bytes)
           /\ \A k \in 1 .. BlockCount(t) : \A i \in 1 .. Len(Block(Chunk(t, k))) :
                  /\ BlockSize * (k - 1) + i \in 1 .. Len(Blocks(t))
                  /\ Blocks(t)[BlockSize * (k - 1) + i] = Block(Chunk(t, k))[i]
  <1> DEFINE M == BlockCount(t)
             seqs == [k \in 1 .. M |-> Block(Chunk(t, k))]
  <1>1. M \in Nat
    <2> DEFINE n == Len(t) + BLOCK_DATA - 1
    <2>1. n \in Nat /\ BLOCK_DATA \in Nat \ {0} /\ M = n \div BLOCK_DATA
      BY SizesOfBlocks DEF BlockCount
    <2> HIDE DEF n, M
    <2> QED
      BY <2>1, Dividing
  <1>2. ASSUME NEW k \in 1 .. M
        PROVE  /\ Block(Chunk(t, k)) \in Seq(Bytes)
               /\ Len(Block(Chunk(t, k))) \in 5 .. BlockSize
               /\ (k < M => Len(Block(Chunk(t, k))) = BlockSize)
    BY ChunkBlock
  <1> HIDE DEF M
  <1>3. seqs \in Seq(Seq(Bytes)) /\ Len(seqs) = M /\ \A k \in 1 .. M : seqs[k] = Block(Chunk(t, k))
    <2>1. seqs \in [1 .. M -> Seq(Bytes)]
      BY <1>2
    <2> QED
      BY <1>1, <2>1
  <1>4. Blocks(t) = FlattenSeq(seqs)
    BY DEF Blocks, M, Chunk, BlockCount
  <1> HIDE DEF seqs
  <1>5. PICK f : IsFlat(f, seqs, Bytes) /\ Blocks(t) = f[M]
    <2>1. \E f : IsFlat(f, seqs, Bytes) /\ FlattenSeq(seqs) = f[Len(seqs)]
      BY ONLY <1>3, FlattenParts
    <2> QED
      BY <1>3, <1>4, <2>1
  <1>6. f \in [0 .. M -> Seq(Bytes)] /\ f[0] = << >>
    BY <1>3, <1>5 DEF IsFlat
  <1>7. ASSUME NEW k \in 1 .. M
        PROVE  /\ Len(f[k]) = Len(f[k - 1]) + Len(seqs[k]) /\ Len(f[k]) <= Len(f[M])
               /\ \A i \in 1 .. Len(seqs[k]) : f[M][Len(f[k - 1]) + i] = seqs[k][i]
    <2>1. k \in 1 .. Len(seqs) /\ seqs \in Seq(Seq(Bytes)) /\ IsFlat(f, seqs, Bytes)
      BY <1>3, <1>5
    <2>2. FlatAt(f, seqs, k)
      BY ONLY <2>1, FlatContent
    <2> QED
      BY <1>3, <2>2 DEF FlatAt
  <1>8. ASSUME NEW k \in 1 .. M PROVE Len(f[k - 1]) = BlockSize * (k - 1)
    <2> DEFINE N == k - 1
               S == {n \in 0 .. N : Len(f[n]) = BlockSize * n}
    <2>1. N \in Nat /\ N < M /\ N \in 0 .. N
      BY <1>1
    <2>2. 0 \in S
      <3>1. BlockSize * 0 = 0 /\ 0 \in 0 .. N
        BY <2>1, SizesOfBlocks
      <3> QED
        BY <1>6, <3>1
    <2>3. ASSUME NEW n \in 0 .. N - 1, n \in S PROVE n + 1 \in S
      <3>1. n + 1 \in 1 .. M /\ (n + 1) - 1 = n /\ n + 1 < M /\ n + 1 \in 0 .. N
            /\ n \in Int /\ n + 1 \in Int
        BY <1>1, <2>1
      <3>2. Len(f[n + 1]) = Len(f[n]) + BlockSize
        BY <1>2, <1>3, <1>7, <3>1
      <3>3. BlockSize * (n + 1) = BlockSize * n + BlockSize
        BY <3>1, Times, SizesOfBlocks
      <3> QED
        BY <2>3, <3>1, <3>2, <3>3
    <2> HIDE DEF N, S
    <2>4. 0 .. N \subseteq S
      BY ONLY <2>1, <2>2, <2>3, Ascent
    <2> QED
      BY <2>1, <2>4 DEF N, S
  <1>9. ASSUME NEW k \in 1 .. M, NEW i \in 1 .. Len(seqs[k])
        PROVE  /\ BlockSize * (k - 1) + i \in 1 .. Len(f[M])
               /\ f[M][BlockSize * (k - 1) + i] = seqs[k][i]
    <2> DEFINE p == BlockSize * (k - 1)
    <2>1. k - 1 \in 0 .. M /\ k \in 0 .. M /\ M \in 0 .. M
      BY <1>1
    <2>2. Len(f[k - 1]) \in Nat /\ Len(f[k - 1]) = p /\ Len(f[M]) \in Nat /\ Len(f[k]) \in Nat
          /\ Len(seqs[k]) \in Nat
      BY SMTT(30), <1>2, <1>3, <1>6, <1>8, <2>1
    <2> HIDE DEF p
    <2>3. Len(f[k]) = p + Len(seqs[k]) /\ Len(f[k]) <= Len(f[M])
          /\ f[M][p + i] = seqs[k][i]
      BY <1>7, <2>2, <1>9
    <2> DEFINE x == Len(seqs[k])
               y == Len(f[M])
    <2>4. p \in Nat /\ x \in Nat /\ y \in Nat /\ p + x <= y /\ i \in 1 .. x
      BY <2>2, <2>3
    <2> HIDE DEF x, y
    <2>5. p + i \in 1 .. y
      BY <2>4
    <2> QED
      BY <2>3, <2>5 DEF p, y
  <1>10. f[M] \in Seq(Bytes)
    BY <1>1, <1>6
  <1> QED
    BY <1>3, <1>5, <1>9, <1>10 DEF M

-----------------------------------------------------------------------------
(* The flash: each part lies at its address, and the map holds that of the *)
(* table.                                                                  *)

\* The image after each part.
IsImage(f, parts, fillVal, V) ==
    /\ f \in [0 .. Len(parts) -> Seq(V)]
    /\ f[0] = [i \in 1 .. PARAM_BYTES |-> 0]
    /\ \A n \in 1 .. Len(parts) :
           f[n] = imagePad(f[n - 1], parts[n].at, fillVal) \o parts[n].bytes

\* Parts with bytes of V that do not overlap.
ArePlaced(parts, V) ==
    /\ Len(parts) \in Nat
    /\ \A n \in 1 .. Len(parts) : parts[n].at \in Nat /\ parts[n].bytes \in Seq(V)
    /\ Len(parts) >= 1 => PARAM_BYTES <= parts[1].at
    /\ \A n \in 1 .. Len(parts) - 1 :
           parts[n].at + Len(parts[n].bytes) <= parts[n + 1].at

LEMMA Padding ==
    ASSUME NEW V, NEW s \in Seq(V), NEW n \in Nat, NEW v \in V
    PROVE  imagePad(s, n, v) \in Seq(V) /\ (Len(s) <= n => Len(imagePad(s, n, v)) = n)
  <1> DEFINE m == n - Len(s)
             p == [i \in 1 .. m |-> v]
  <1>1. Len(s) \in Nat /\ m \in Int
    OBVIOUS
  <1>2. CASE m >= 0
    <2>1. p \in Seq(V) /\ Len(p) = m
      <3>1. m \in Nat
        BY <1>1, <1>2
      <3> HIDE DEF m
      <3> QED
        BY <3>1
    <2>2. imagePad(s, n, v) = s \o p
      BY DEF imagePad
    <2> HIDE DEF p
    <2>3. s \o p \in Seq(V) /\ Len(s \o p) = Len(s) + Len(p)
      BY <2>1, Concatenated
    <2>4. Len(s) + m = n
      BY <1>1
    <2> QED
      BY <2>1, <2>2, <2>3, <2>4
  <1>3. CASE m < 0
    <2> DEFINE none == [i \in 1 .. 0 |-> v]
    <2>1. none \in Seq(V)
      OBVIOUS
    <2>2. 1 .. m = 1 .. 0
      <3> HIDE DEF m
      <3> QED
        BY <1>1, <1>3
    <2>3. p = none
      BY <2>2
    <2>4. imagePad(s, n, v) = s \o p
      BY DEF imagePad
    <2> HIDE DEF none, p
    <2>5. s \o none \in Seq(V)
      BY <2>1, Concatenated
    <2>6. ~ (Len(s) <= n)
      BY <1>1, <1>3
    <2> QED
      BY <2>3, <2>4, <2>5, <2>6
  <1> QED
    BY <1>1, <1>2, <1>3

LEMMA ImageParts ==
    ASSUME NEW V, 0 \in V, NEW fillVal \in V, NEW parts, ArePlaced(parts, V)
    PROVE  \E f : IsImage(f, parts, fillVal, V) /\ Image(parts, fillVal) = f[Len(parts)]
  <1> DEFINE N == Len(parts)
             base == [i \in 1 .. PARAM_BYTES |-> 0]
             step == [p \in (1 .. N) \X Seq(V) |->
                          imagePad(p[2], parts[p[1]].at, fillVal) \o parts[p[1]].bytes]
             Eq(f) == f = [k \in 0 .. N |->
                               IF k = 0 THEN base
                               ELSE imagePad(f[k - 1], parts[k].at, fillVal) \o parts[k].bytes]
             built == CHOOSE f : Eq(f)
  <1>1. N \in Nat /\ \A n \in 1 .. N : parts[n].at \in Nat /\ parts[n].bytes \in Seq(V)
    BY DEF ArePlaced
  <1>2. base \in Seq(V) /\ PARAM_BYTES \in Nat
    <2>1. PARAM_BYTES \in Nat
      BY ONLY RomImageAssumption
    <2>2. base \in Seq(V)
      BY ONLY <2>1, 0 \in V
    <2> QED
      BY <2>1, <2>2
  <1>3. step \in [(1 .. N) \X Seq(V) -> Seq(V)]
    <2>1. ASSUME NEW p \in (1 .. N) \X Seq(V)
          PROVE  imagePad(p[2], parts[p[1]].at, fillVal) \o parts[p[1]].bytes \in Seq(V)
      <3> DEFINE a == imagePad(p[2], parts[p[1]].at, fillVal)
                 b == parts[p[1]].bytes
      <3>1. p[2] \in Seq(V) /\ p[1] \in 1 .. N
        BY <2>1
      <3>2. parts[p[1]].at \in Nat /\ b \in Seq(V)
        BY <1>1, <3>1
      <3>3. a \in Seq(V)
        BY <3>1, <3>2, Padding
      <3> HIDE DEF a, b
      <3>4. a \o b \in Seq(V)
        BY ONLY <3>2, <3>3, Concatenated
      <3> QED
        BY <3>4 DEF a, b
    <2> QED
      BY <2>1
  <1>4. PICK f : IsIteration(f, N, Seq(V), base, step)
    <2> HIDE DEF step, N, base
    <2> QED
      BY <1>1, <1>2, <1>3, Recursion
  <1>5. f \in [0 .. N -> Seq(V)] /\ f[0] = base
    BY <1>4 DEF IsIteration
  <1>6. ASSUME NEW n \in 1 .. N
        PROVE  f[n] = imagePad(f[n - 1], parts[n].at, fillVal) \o parts[n].bytes
    <2>1. n - 1 \in 0 .. N
      BY <1>1
    <2>2. f[n] = step[<<n, f[n - 1]>>] /\ <<n, f[n - 1]>> \in (1 .. N) \X Seq(V)
      BY <1>4, <2>1 DEF IsIteration
    <2> QED
      BY <2>2
  <1>7. IsImage(f, parts, fillVal, V)
    BY <1>5, <1>6 DEF IsImage
  <1> HIDE DEF base, step
  <1>8. Eq(f)
    <2>1. ASSUME NEW k \in 0 .. N
          PROVE  f[k] = IF k = 0 THEN base
                        ELSE imagePad(f[k - 1], parts[k].at, fillVal) \o parts[k].bytes
      <3>1. CASE k = 0
        BY <1>5, <3>1
      <3>2. CASE k # 0
        <4>1. k \in 1 .. N
          BY <1>1, <3>2
        <4> QED
          BY <1>6, <3>2, <4>1
      <3> QED
        BY <3>1, <3>2
    <2> HIDE DEF N
    <2> QED
      BY <1>5, <2>1
  <1>9. Eq(built)
    BY <1>8
  <1>10. \A n \in 0 .. N : built[n] = f[n]
    <2>1. built[0] = f[0]
      <3>1. 0 \in 0 .. N
        BY <1>1
      <3> HIDE DEF N
      <3> QED
        BY <1>5, <1>9, <3>1
    <2>2. ASSUME NEW n \in 0 .. N - 1, built[n] = f[n] PROVE built[n + 1] = f[n + 1]
      <3>1. n + 1 \in 1 .. N /\ n + 1 \in 0 .. N /\ n + 1 # 0 /\ (n + 1) - 1 = n
        BY SMTT(30), <1>1
      <3> HIDE DEF N
      <3>2. built[n + 1] = imagePad(built[n], parts[n + 1].at, fillVal) \o parts[n + 1].bytes
        BY <1>9, <3>1
      <3> HIDE DEF built
      <3>3. f[n + 1] = imagePad(f[n], parts[n + 1].at, fillVal) \o parts[n + 1].bytes
        BY <1>6, <3>1
      <3> QED
        BY <2>2, <3>2, <3>3
    <2> HIDE DEF built, N
    <2> QED
      BY ONLY ZenonT(60), <1>1, <2>1, <2>2, Agreement
  <1>11. Image(parts, fillVal) = built[N]
    BY DEF Image, base
  <1>12. Image(parts, fillVal) = f[N]
    <2> HIDE DEF built, N
    <2> QED
      BY <1>1, <1>10, <1>11
  <1> QED
    BY <1>7, <1>12

\* Part k in an image.
PartAt(bytes, parts, k) ==
    /\ parts[k].at + Len(parts[k].bytes) <= Len(bytes)
    /\ \A i \in 1 .. Len(parts[k].bytes) : bytes[parts[k].at + i] = parts[k].bytes[i]

LEMMA ImagePlaces ==
    ASSUME NEW V, 0 \in V, NEW fillVal \in V, NEW parts, ArePlaced(parts, V)
    PROVE  /\ Image(parts, fillVal) \in Seq(V)
           /\ \A k \in 1 .. Len(parts) : PartAt(Image(parts, fillVal), parts, k)
  <1> DEFINE N == Len(parts)
  <1>1. PICK f : IsImage(f, parts, fillVal, V) /\ Image(parts, fillVal) = f[N]
    BY ImageParts
  <1>2. N \in Nat /\ \A n \in 1 .. N : parts[n].at \in Nat /\ parts[n].bytes \in Seq(V)
    BY DEF ArePlaced
  <1>3. f \in [0 .. N -> Seq(V)]
    BY <1>1 DEF IsImage
  <1> DEFINE end(n) == parts[n].at + Len(parts[n].bytes)
             Fits1(n) == Len(f[n - 1]) <= parts[n].at
  <1>4. ASSUME NEW n \in 1 .. N, Fits1(n)
        PROVE  /\ Extends(f[n - 1], f[n]) /\ Len(f[n]) = end(n)
               /\ \A i \in 1 .. Len(parts[n].bytes) : f[n][parts[n].at + i] = parts[n].bytes[i]
    <2> DEFINE s == f[n - 1]
               a == imagePad(s, parts[n].at, fillVal)
               b == parts[n].bytes
    <2>1. n - 1 \in 0 .. N /\ n \in 0 .. N
      BY <1>2
    <2>2. s \in Seq(V) /\ b \in Seq(V) /\ parts[n].at \in Nat /\ f[n] = a \o b
      BY <1>1, <1>2, <1>3, <2>1 DEF IsImage
    <2>3. Len(s) <= parts[n].at
      BY <1>4
    <2>4. a = s \o [i \in 1 .. parts[n].at - Len(s) |-> fillVal]
      BY DEF imagePad
    <2> HIDE DEF s, b
    <2>5. a \in Seq(V) /\ Len(a) = parts[n].at
      BY <2>2, <2>3, Padding
    <2>6. Extends(s, a)
      <3> DEFINE m == parts[n].at - Len(s)
                 p == [i \in 1 .. m |-> fillVal]
      <3>1. m \in Nat
        BY <2>2, <2>3
      <3> HIDE DEF m
      <3>2. p \in Seq(V)
        BY <3>1
      <3>3. a = s \o p
        BY <2>4 DEF m
      <3> HIDE DEF p, a
      <3>4. Extends(s, s \o p)
        BY ONLY <2>2, <3>2, Concatenated
      <3> QED
        BY <3>3, <3>4
    <2> HIDE DEF a
    <2>7. /\ Len(a \o b) = Len(a) + Len(b) /\ Extends(a, a \o b)
          /\ \A i \in 1 .. Len(b) : (a \o b)[Len(a) + i] = b[i]
      <3>1. a \in Seq(V) /\ b \in Seq(V)
        BY <2>2, <2>5
      <3> QED
        BY ONLY <3>1, Concatenated
    <2>8. Extends(s, f[n])
      <3>1. Len(s) \in Nat /\ Len(a) \in Nat /\ Len(f[n]) \in Nat
        BY <1>3, <2>1, <2>2, <2>5
      <3>2. Extends(a, f[n])
        BY <2>2, <2>7
      <3> QED
        BY <2>6, <3>1, <3>2 DEF Extends
    <2> QED
      BY <2>2, <2>5, <2>7, <2>8 DEF s, b
  <1>5. \A n \in 1 .. N : Fits1(n)
    <2> DEFINE S == {n \in 0 .. N : n = 0 \/ Fits1(n)}
    <2>1. 0 \in S
      BY <1>2
    <2>2. ASSUME NEW n \in 0 .. N - 1, n \in S PROVE n + 1 \in S
      <3>1. n + 1 \in 0 .. N /\ n + 1 \in 1 .. N /\ (n + 1) - 1 = n
        BY <1>2
      <3>2. CASE n = 0
        <4>1. Len(f[0]) = PARAM_BYTES
          <5>1. f[0] = [i \in 1 .. PARAM_BYTES |-> 0] /\ PARAM_BYTES \in Nat
            BY <1>1, RomImageAssumption DEF IsImage
          <5> QED
            BY <5>1
        <4>2. PARAM_BYTES <= parts[1].at
          BY <1>2, <3>1, <3>2 DEF ArePlaced
        <4> QED
          BY <3>1, <3>2, <4>1, <4>2
      <3>3. CASE n # 0
        <4>1. n \in 1 .. N /\ n \in 1 .. N - 1
          BY <1>2, <3>1, <3>3
        <4>2. Len(f[n]) = end(n)
          BY <1>4, <2>2, <3>3, <4>1
        <4>3. end(n) <= parts[n + 1].at
          BY <4>1 DEF ArePlaced
        <4> QED
          BY <3>1, <4>2, <4>3
      <3> QED
        BY <3>2, <3>3
    <2> HIDE DEF S, N
    <2>3. 0 .. N \subseteq S
      BY ONLY <1>2, <2>1, <2>2, Ascent
    <2> QED
      BY <1>2, <2>3 DEF S
  <1> HIDE DEF Fits1
  <1>6. \A n \in 1 .. N : Extends(f[n - 1], f[n])
    BY <1>4, <1>5
  <1>7. ASSUME NEW k \in 1 .. N PROVE PartAt(f[N], parts, k)
    <2>1. k \in 0 .. N /\ N \in 0 .. N
      BY <1>2
    <2>2. Extends(f[k], f[N])
      <3> HIDE DEF N
      <3> QED
        BY ONLY <1>2, <1>3, <1>6, <2>1, Chain
    <2> DEFINE x == parts[k].at
               y == Len(parts[k].bytes)
    <2>3. x \in Nat /\ y \in Nat /\ Len(f[k]) = x + y /\ Len(f[N]) \in Nat
          /\ \A i \in 1 .. y : f[k][x + i] = parts[k].bytes[i]
      BY <1>2, <1>3, <1>4, <1>5, <2>1
    <2> HIDE DEF x, y
    <2>4. \A i \in 1 .. y : x + i \in 1 .. Len(f[k])
      BY <2>3
    <2>5. x + y <= Len(f[N]) /\ \A i \in 1 .. y : f[N][x + i] = parts[k].bytes[i]
      BY <2>2, <2>3, <2>4 DEF Extends
    <2> QED
      BY <2>5 DEF PartAt, x, y
  <1>8. f[N] \in Seq(V)
    <2>1. N \in 0 .. N
      BY <1>2
    <2> QED
      BY <1>3, <2>1
  <1> QED
    BY <1>1, <1>7, <1>8

-----------------------------------------------------------------------------
(* Alignment.                                                              *)

LEMMA Multiples ==
    ASSUME NEW b \in Nat \ {0}, NEW q \in Nat
    PROVE  (b * q) % b = 0
  <1> DEFINE n == b * q
             d == n \div b
             r == n % b
  <1>1. n \in Nat
    OBVIOUS
  <1>2. d \in Int /\ r \in 0 .. b - 1 /\ n = b * d + r
    <2> HIDE DEF n
    <2> QED
      BY <1>1
  <1>3. q \in Int /\ d \in Int /\ b * q = b * d + r
    BY <1>2
  <1> HIDE DEF d, r
  <1>4. r = b * (q - d)
    BY <1>2, <1>3, b \in Nat, q \in Nat
  <1> DEFINE z == q - d
  <1>5. z \in Int /\ r = b * z
    BY <1>3, <1>4
  <1> HIDE DEF z
  <1>6. z >= 1 => b * z >= b
    BY <1>5
  <1>7. z <= -1 => b * z <= -b
    BY <1>5
  <1>8. z = 0
    BY <1>2, <1>5, <1>6, <1>7
  <1>9. r = 0
    BY <1>5, <1>8
  <1> QED
    BY <1>9 DEF r

LEMMA Multiple ==
    ASSUME NEW n \in Nat, NEW b \in Nat \ {0}, n % b = 0
    PROVE  n \div b \in Nat /\ n = b * (n \div b)
  OBVIOUS

\* What is aligned for a file is for a block.
LEMMA Alignment ==
    ASSUME NEW n \in Nat, NEW b \in Nat \ {0}, NEW c \in Nat \ {0}, n % b = 0, b % c = 0
    PROVE  n % c = 0
  <1> DEFINE x == n \div b
             y == b \div c
  <1>1. x \in Nat /\ n = b * x /\ y \in Nat /\ b = c * y
    BY Multiple
  <1> HIDE DEF x, y
  <1>2. y * x \in Nat /\ n = c * (y * x)
    BY <1>1
  <1> QED
    BY <1>2, Multiples

LEMMA AligningUp ==
    ASSUME NEW v \in Nat, NEW align \in Nat \ {0}
    PROVE  /\ AlignedUp(v, align) \in Nat /\ v <= AlignedUp(v, align)
           /\ AlignedUp(v, align) % align = 0
  <1> DEFINE n == v + align - 1
             q == n \div align
  <1>1. n \in Nat
    OBVIOUS
  <1>2. q \in Nat /\ align * q <= n /\ n < align * q + align
    <2> HIDE DEF n
    <2> QED
      BY <1>1, Dividing
  <1>3. AlignedUp(v, align) = align * q
    BY DEF AlignedUp
  <1>4. (align * q) % align = 0 /\ align * q \in Nat
    <2> HIDE DEF q
    <2> QED
      BY <1>2, Multiples
  <1>5. v <= align * q
    <2> DEFINE p == align * q
    <2> HIDE DEF p, q
    <2>1. p \in Nat /\ n < p + align
      BY <1>2, <1>4 DEF p
    <2> QED
      BY <2>1 DEF p
  <1> QED
    BY <1>3, <1>4, <1>5

-----------------------------------------------------------------------------
(* The addresses of the parts.                                             *)

LEMMA LastItem ==
    ASSUME NEW romStart \in Nat, NEW items, Len(items) \in Nat \ {0},
           \A n \in 1 .. Len(items) : \A b \in Int : AfterItem(romStart, b, items[n]) \in Int
    PROVE  \E b \in Int :
               TablesEnd(romStart, items) = AfterItem(romStart, b, items[Len(items)])
  <1> DEFINE N == Len(items)
             base == romStart + PARAM_BYTES
             step == [p \in (1 .. N) \X Int |-> AfterItem(romStart, p[2], items[p[1]])]
             Eq(f) == f = [k \in 0 .. N |->
                               IF k = 0 THEN base ELSE AfterItem(romStart, f[k - 1], items[k])]
             end == CHOOSE f : Eq(f)
  <1>1. base \in Int /\ N \in Nat
    BY RomImageAssumption
  <1>2. step \in [(1 .. N) \X Int -> Int]
    OBVIOUS
  <1>3. PICK f : IsIteration(f, N, Int, base, step)
    <2> HIDE DEF step, N, base
    <2> QED
      BY <1>1, <1>2, Recursion
  <1>4. f \in [0 .. N -> Int] /\ f[0] = base
    BY <1>3 DEF IsIteration
  <1>5. ASSUME NEW n \in 1 .. N
        PROVE  f[n] = AfterItem(romStart, f[n - 1], items[n])
    <2>1. n - 1 \in 0 .. N
      BY <1>1
    <2>2. f[n] = step[<<n, f[n - 1]>>] /\ <<n, f[n - 1]>> \in (1 .. N) \X Int
      BY <1>3, <2>1 DEF IsIteration
    <2> QED
      BY <2>2
  <1> HIDE DEF base, step
  <1>6. Eq(f)
    <2>1. ASSUME NEW k \in 0 .. N
          PROVE  f[k] = IF k = 0 THEN base ELSE AfterItem(romStart, f[k - 1], items[k])
      <3>1. CASE k = 0
        BY <1>4, <3>1
      <3>2. CASE k # 0
        <4>1. k \in 1 .. N
          BY <1>1, <3>2
        <4> QED
          BY <1>5, <3>2, <4>1
      <3> QED
        BY <3>1, <3>2
    <2> HIDE DEF N
    <2> QED
      BY <1>4, <2>1
  <1>7. Eq(end)
    BY <1>6
  <1>8. TablesEnd(romStart, items) = end[N]
    BY DEF TablesEnd, base
  <1> HIDE DEF end
  <1>9. \A n \in 0 .. N : end[n] = f[n]
    <2>1. end[0] = f[0]
      <3>1. 0 \in 0 .. N
        BY <1>1
      <3> HIDE DEF N
      <3> QED
        BY <1>4, <1>7, <3>1
    <2>2. ASSUME NEW n \in 0 .. N - 1, end[n] = f[n] PROVE end[n + 1] = f[n + 1]
      <3>1. n + 1 \in 1 .. N /\ n + 1 \in 0 .. N /\ n + 1 # 0 /\ (n + 1) - 1 = n
        BY <1>1
      <3>2. f[n + 1] = AfterItem(romStart, f[n], items[n + 1])
        BY <1>5, <3>1
      <3> HIDE DEF N
      <3>3. end[n + 1] = AfterItem(romStart, end[n], items[n + 1])
        BY <1>7, <3>1
      <3> QED
        BY <2>2, <3>2, <3>3
    <2> HIDE DEF N
    <2> QED
      BY ONLY <1>1, <2>1, <2>2, Agreement
  <1>10. N \in 1 .. N /\ N - 1 \in 0 .. N /\ N \in 0 .. N
    BY <1>1
  <1>11. f[N - 1] \in Int /\ f[N] = AfterItem(romStart, f[N - 1], items[N]) /\ end[N] = f[N]
    BY <1>4, <1>5, <1>9, <1>10
  <1> QED
    BY <1>8, <1>11

\* What AddressBytes guarantees of the address of file k.
FileAddress(a, base, files, k) ==
    /\ a[k] \in Nat /\ a[k] % files[k].align = 0
    /\ k = 1 => base <= a[k]
    /\ k > 1 => a[k - 1] + Len(files[k - 1].data) <= a[k]

LEMMA FileAddresses ==
    ASSUME NEW base \in Nat, NEW files, NEW N \in Nat, DOMAIN files = 1 .. N,
           \A k \in 1 .. N : Len(files[k].data) \in Nat /\ files[k].align \in Nat \ {0}
    PROVE  /\ DOMAIN AddressBytes(base, files) = 1 .. N
           /\ \A k \in 1 .. N : FileAddress(AddressBytes(base, files), base, files, k)
  <1> DEFINE value(k, v) ==
                 AlignedUp(IF k = 1 THEN base ELSE v + Len(files[k - 1].data), files[k].align)
             step == [p \in (1 .. N) \X Nat |-> value(p[1], p[2])]
             Eq(a) == a = [k \in DOMAIN files |->
                               AlignedUp(IF k = 1 THEN base
                                         ELSE a[k - 1] + Len(files[k - 1].data),
                                         files[k].align)]
             address == CHOOSE a : Eq(a)
  <1>1. ASSUME NEW k \in 1 .. N, NEW v \in Nat
        PROVE  /\ value(k, v) \in Nat /\ value(k, v) % files[k].align = 0
               /\ k = 1 => base <= value(k, v)
               /\ k > 1 => v + Len(files[k - 1].data) <= value(k, v)
    <2> DEFINE from == IF k = 1 THEN base ELSE v + Len(files[k - 1].data)
    <2>1. from \in Nat
      <3>1. k # 1 => k - 1 \in 1 .. N
        OBVIOUS
      <3> QED
        BY <3>1
    <2>2. files[k].align \in Nat \ {0}
      OBVIOUS
    <2>3. value(k, v) = AlignedUp(from, files[k].align)
      OBVIOUS
    <2>4. (k = 1 => from = base) /\ (k > 1 => from = v + Len(files[k - 1].data))
      OBVIOUS
    <2> HIDE DEF from, value
    <2>5. /\ AlignedUp(from, files[k].align) \in Nat
          /\ from <= AlignedUp(from, files[k].align)
          /\ AlignedUp(from, files[k].align) % files[k].align = 0
      BY <2>1, <2>2, AligningUp
    <2> QED
      BY <2>3, <2>4, <2>5
  <1>2. step \in [(1 .. N) \X Nat -> Nat]
    <2> HIDE DEF value
    <2> QED
      BY <1>1
  <1>3. PICK f : IsIteration(f, N, Nat, base, step)
    <2> HIDE DEF step
    <2> QED
      BY <1>2, Recursion
  <1> DEFINE g == [k \in 1 .. N |-> f[k]]
  <1>4. ASSUME NEW k \in 1 .. N
        PROVE  f[k] = value(k, f[k - 1]) /\ f[k - 1] \in Nat /\ f[k] \in Nat
    <2>1. k - 1 \in 0 .. N /\ k \in 0 .. N
      OBVIOUS
    <2>2. f[k] = step[<<k, f[k - 1]>>] /\ f[k - 1] \in Nat /\ f[k] \in Nat
      BY <1>3, <2>1 DEF IsIteration
    <2>3. <<k, f[k - 1]>> \in (1 .. N) \X Nat
      BY <2>2
    <2> HIDE DEF value
    <2> QED
      BY <2>2, <2>3
  <1>5. Eq(g)
    <2>1. ASSUME NEW k \in 1 .. N
          PROVE  g[k] = AlignedUp(IF k = 1 THEN base ELSE g[k - 1] + Len(files[k - 1].data),
                                  files[k].align)
      <3>1. k # 1 => k - 1 \in 1 .. N
        OBVIOUS
      <3> QED
        BY <1>4, <3>1
    <2> QED
      BY <2>1
  <1>6. Eq(address)
    <2> HIDE DEF g
    <2> QED
      BY <1>5
  <1>7. AddressBytes(base, files) = address
    BY DEF AddressBytes
  <1> HIDE DEF address
  <1>8. ASSUME NEW k \in 1 .. N
        PROVE  /\ k = 1 => address[k] = value(k, 0)
               /\ k # 1 => address[k] = value(k, address[k - 1])
    BY <1>6
  <1> DEFINE S == {k \in 0 .. N : k = 0 \/ address[k] \in Nat}
  <1>9. 0 .. N \subseteq S
    <2>1. 0 \in S
      OBVIOUS
    <2>2. ASSUME NEW n \in 0 .. N - 1, n \in S PROVE n + 1 \in S
      <3>1. n + 1 \in 0 .. N /\ n + 1 \in 1 .. N /\ (n + 1) - 1 = n
        OBVIOUS
      <3> HIDE DEF value
      <3>2. CASE n = 0
        <4>1. n + 1 = 1
          BY <3>2
        <4> QED
          BY ZenonT(60), <1>1, <1>8, <3>1, <4>1
      <3>3. CASE n # 0
        <4>1. n + 1 # 1 /\ address[n] \in Nat
          BY <2>2, <3>3
        <4>2. address[n + 1] = value(n + 1, address[n])
          BY <1>8, <3>1, <4>1
        <4> QED
          BY <1>1, <3>1, <4>1, <4>2
      <3> QED
        BY <3>2, <3>3
    <2> HIDE DEF S
    <2>3. N \in Nat
      OBVIOUS
    <2> QED
      BY ONLY <2>1, <2>2, <2>3, Ascent
  <1>10. ASSUME NEW k \in 1 .. N PROVE FileAddress(address, base, files, k)
    <2> HIDE DEF value
    <2>1. CASE k = 1
      <3>1. address[k] = value(k, 0)
        BY <1>8, <2>1
      <3>2. value(k, 0) \in Nat /\ value(k, 0) % files[k].align = 0 /\ base <= value(k, 0)
        BY <1>1, <2>1
      <3>3. ~ (k > 1)
        BY <2>1
      <3> QED
        BY <3>1, <3>2, <3>3 DEF FileAddress
    <2>2. CASE k # 1
      <3>1. k - 1 \in 0 .. N /\ k - 1 # 0 /\ k > 1
        BY <2>2
      <3>2. address[k - 1] \in Nat
        BY <1>9, <3>1
      <3>3. address[k] = value(k, address[k - 1])
        BY <1>8, <2>2
      <3>4. /\ value(k, address[k - 1]) \in Nat /\ value(k, address[k - 1]) % files[k].align = 0
            /\ address[k - 1] + Len(files[k - 1].data) <= value(k, address[k - 1])
        BY <1>1, <3>1, <3>2
      <3> QED
        BY <2>2, <3>3, <3>4 DEF FileAddress
    <2> QED
      BY <2>1, <2>2
  <1>11. DOMAIN address = 1 .. N
    BY <1>6
  <1> QED
    BY <1>7, <1>10, <1>11

-----------------------------------------------------------------------------
(* The layout of a flash.                                                  *)

Endians == {"little", "big"}
Devices == {"i2c", "spi", "other"}

LEMMA HowMany ==
    /\ Cardinality({"little"}) = 1 /\ Cardinality({"big"}) = 1
    /\ Cardinality({"little", "big"}) = 2
  <1>1. Cardinality({"little"}) = 1 /\ Cardinality({"big"}) = 1
    BY FS_Singleton
  <1>2. IsFiniteSet({"big"})
    BY FS_Singleton
  <1>3. "little" \notin {"big"}
    OBVIOUS
  <1>4. Cardinality({"big"} \cup {"little"}) = Cardinality({"big"}) + 1
    BY <1>2, <1>3, FS_AddElement
  <1>5. {"big"} \cup {"little"} = {"little", "big"}
    OBVIOUS
  <1> QED
    BY <1>1, <1>4, <1>5

LEMMA EndianSets ==
    ASSUME NEW E \in (SUBSET Endians) \ {{}}
    PROVE  E = {"little"} \/ E = {"big"} \/ E = {"little", "big"}
  BY DEF Endians

\* Which file has the table, and which entry of the map names it.
FileOf(E, e) == IF e = "little" THEN 2 ELSE 1 + Cardinality(E)
EntryOf(e) == IF e = "little" THEN 1 ELSE 3

TableFile(im, e) == File(Blocks(Table(im, e)), FILE_ALIGN)
InitFile == File([i \in 1 .. INIT_BYTES |-> 0], 1)

\* a with x behind it.
IsAppended(c, V, a, x) ==
    /\ c \in Seq(V) /\ Len(c) = Len(a) + 1 /\ DOMAIN c = 1 .. Len(a) + 1
    /\ c[Len(a) + 1] = x
    /\ \A i \in 1 .. Len(a) : c[i] = a[i]

LEMMA Appended ==
    ASSUME NEW V, NEW a \in Seq(V), NEW x \in V
    PROVE  IsAppended(a \o <<x>>, V, a, x)
  <1>1. <<x>> \in Seq(V) /\ Len(<<x>>) = 1 /\ <<x>>[1] = x /\ a \in Seq(V) /\ 1 \in 1 .. 1
    OBVIOUS
  <1> DEFINE b == <<x>>
  <1>2. b \in Seq(V) /\ Len(b) = 1 /\ b[1] = x
    BY <1>1
  <1> HIDE DEF b
  <1>3. /\ a \o b \in Seq(V) /\ Len(a \o b) = Len(a) + Len(b) /\ Extends(a, a \o b)
        /\ \A i \in 1 .. Len(b) : (a \o b)[Len(a) + i] = b[i]
    BY ONLY SMTT(30), <1>1, <1>2, Concatenated
  <1> DEFINE c == a \o b
  <1>4. c \in Seq(V) /\ Len(c) = Len(a) + 1 /\ c[Len(a) + 1] = x
        /\ \A i \in 1 .. Len(a) : c[i] = a[i]
    BY <1>1, <1>2, <1>3 DEF Extends
  <1> HIDE DEF c
  <1>5. DOMAIN c = 1 .. Len(a) + 1
    BY <1>4
  <1> QED
    BY <1>4, <1>5 DEF c, b, IsAppended

LEMMA Two ==
    ASSUME NEW x, NEW y
    PROVE  LET s == <<x>> \o <<y>>
           IN s \in Seq({x, y}) /\ Len(s) = 2 /\ DOMAIN s = 1 .. 2 /\ s[1] = x /\ s[2] = y
  <1> DEFINE V == {x, y}
  <1>1. <<x>> \in Seq(V) /\ x \in V /\ y \in V /\ Len(<<x>>) = 1 /\ <<x>>[1] = x
    OBVIOUS
  <1> DEFINE a == <<x>>
  <1>2. a \in Seq(V) /\ Len(a) = 1 /\ a[1] = x
    BY <1>1
  <1> HIDE DEF a, V
  <1>3. IsAppended(a \o <<y>>, V, a, y)
    <2>1. a \in Seq(V)
      BY <1>2
    <2>2. y \in V
      BY <1>1
    <2> QED
      BY ONLY <2>1, <2>2, Appended, Zenon
  <1>4. 1 \in 1 .. 1 /\ 1 + 1 = 2
    OBVIOUS
  <1> QED
    BY <1>2, <1>3, <1>4 DEF a, V, IsAppended

LEMMA FilesOfImage ==
    ASSUME NEW im \in Images, NEW E \in (SUBSET Endians) \ {{}}
    PROVE  LET files == ProgFiles(im, E)
               N == 1 + Cardinality(E)
           IN /\ N \in {2, 3} /\ DOMAIN files = 1 .. N
              /\ files[1] = InitFile
              /\ \A k \in 2 .. N : \E e \in E : files[k] = TableFile(im, e)
              /\ \A e \in E : FileOf(E, e) \in 2 .. N /\ files[FileOf(E, e)] = TableFile(im, e)
  <1> DEFINE l == TableFile(im, "little")
             b == TableFile(im, "big")
             files == ProgFiles(im, E)
  <1>1. files = <<InitFile>> \o (IF "little" \in E THEN <<l>> ELSE << >>)
                    \o (IF "big" \in E THEN <<b>> ELSE << >>)
    BY DEF ProgFiles, InitFile, TableFile
  <1> HIDE DEF files, l, b
  <1>2. CASE E = {"little"}
    <2>1. Cardinality(E) = 1 /\ "big" \notin E
      BY <1>2, HowMany
    <2> DEFINE s == <<InitFile>> \o <<l>>
    <2>2. s \in Seq({InitFile, l}) /\ DOMAIN s = 1 .. 2 /\ s[1] = InitFile /\ s[2] = l
      BY Two
    <2>3. DOMAIN files = 1 .. 2 /\ files[1] = InitFile /\ files[2] = l
      <3>1. files = s \o << >>
        BY <1>1, <1>2, <2>1, Zenon
      <3> HIDE DEF s
      <3>2. s \o << >> = s
        BY <2>2
      <3> QED
        BY <2>2, <3>1, <3>2
    <2> QED
      BY <1>2, <2>1, <2>3 DEF FileOf, files, l
  <1>3. CASE E = {"big"}
    <2>1. Cardinality(E) = 1 /\ "little" \notin E
      BY <1>3, HowMany
    <2> DEFINE s == <<InitFile>> \o <<b>>
    <2>2. s \in Seq({InitFile, b}) /\ DOMAIN s = 1 .. 2 /\ s[1] = InitFile /\ s[2] = b
      BY Two
    <2>3. DOMAIN files = 1 .. 2 /\ files[1] = InitFile /\ files[2] = b
      <3>1. files = <<InitFile>> \o << >> \o <<b>>
        BY <1>1, <1>3, <2>1, Zenon
      <3>2. <<InitFile>> \o << >> = <<InitFile>>
        OBVIOUS
      <3> QED
        BY <2>2, <3>1, <3>2
    <2> QED
      BY <1>3, <2>1, <2>3 DEF FileOf, files, b
  <1>4. CASE E = {"little", "big"}
    <2>1. Cardinality(E) = 2
      BY <1>4, HowMany
    <2> DEFINE s == <<InitFile>> \o <<l>>
               V == {InitFile, l, b}
    <2>2. s \in Seq(V) /\ b \in V /\ Len(s) = 2 /\ s[1] = InitFile /\ s[2] = l
      <3>1. s \in Seq({InitFile, l}) /\ Len(s) = 2 /\ s[1] = InitFile /\ s[2] = l
        BY Two
      <3> HIDE DEF s
      <3> QED
        BY <3>1
    <2>3. DOMAIN files = 1 .. 3 /\ files[1] = InitFile /\ files[2] = l /\ files[3] = b
      <3>1. files = s \o <<b>>
        BY <1>1, <1>4, Zenon
      <3> HIDE DEF s, V
      <3>2. IsAppended(s \o <<b>>, V, s, b)
        <4>1. s \in Seq(V)
          BY <2>2
        <4>2. b \in V
          BY <2>2
        <4> QED
          BY ONLY <4>1, <4>2, Appended, Zenon
      <3>3. 2 + 1 = 3 /\ 1 \in 1 .. 2 /\ 2 \in 1 .. 2
        OBVIOUS
      <3> QED
        BY <2>2, <3>1, <3>2, <3>3 DEF IsAppended
    <2> QED
      BY <1>4, <2>1, <2>3 DEF FileOf, files, l, b
  <1> QED
    BY <1>2, <1>3, <1>4, EndianSets

LEMMA PadsOfImage ==
    ASSUME NEW E \in (SUBSET Endians) \ {{}}, NEW dev
    PROVE  LET pads == Pads(E, dev)
               N == Cardinality(E)
           IN /\ N \in {1, 2} /\ pads \in Seq([type : {"pad"}, address : Nat, len : Nat])
              /\ Len(pads) = N
              /\ \A k \in 1 .. N : /\ pads[k].address >= CONFIG_ADDR_1
                                  /\ pads[k].address <= pads[N].address
  <1> DEFINE P == [type : {"pad"}, address : Nat, len : Nat]
             p == Pad(CONFIG_ADDR_1, CONFIG_LEN)
             q == Pad(CONFIG_ADDR_2, IF dev = "spi" THEN 0 ELSE CONFIG_LEN)
             pads == Pads(E, dev)
  <1>1. CONFIG_ADDR_1 \in Nat /\ CONFIG_ADDR_2 \in Nat /\ CONFIG_LEN \in Nat
        /\ CONFIG_ADDR_1 <= CONFIG_ADDR_2
    BY RomImageAssumption DEF MapBytes
  <1>2. p \in P /\ q \in P /\ p.address = CONFIG_ADDR_1 /\ q.address = CONFIG_ADDR_2
    BY <1>1 DEF Pad
  <1>3. pads = <<p>> \o (IF Cardinality(E) = 2 THEN <<q>> ELSE << >>)
    BY DEF Pads
  <1> HIDE DEF p, q, pads, P
  <1>4. CASE Cardinality(E) = 1
    <2>1. pads = <<p>>
      <3>1. pads = <<p>> \o << >>
        BY <1>3, <1>4
      <3> QED
        BY <3>1
    <2> QED
      BY <1>1, <1>2, <1>4, <2>1 DEF pads, P
  <1>5. CASE Cardinality(E) = 2
    <2>1. pads = <<p>> \o <<q>>
      BY <1>3, <1>5
    <2>2. pads \in Seq({p, q}) /\ Len(pads) = 2 /\ pads[1] = p /\ pads[2] = q
      BY <2>1, Two
    <2>3. pads \in Seq(P)
      BY <1>2, <2>2
    <2> QED
      BY <1>1, <1>2, <1>5, <2>2, <2>3 DEF pads, P
  <1>6. Cardinality(E) = 1 \/ Cardinality(E) = 2
    BY EndianSets, HowMany
  <1> QED
    BY <1>4, <1>5, <1>6

LEMMA StartsAligned ==
    ASSUME NEW im \in Images, NEW e
    PROVE  /\ \A k \in 0 .. Len(im.sections) : Start(im, e, k) \in Nat /\ Start(im, e, k) % 4 = 0
           /\ Len(Table(im, e)) \in Nat /\ Len(Table(im, e)) % 4 = 0
           /\ Len(Table(im, e)) % 2 = 0 /\ Len(Table(im, e)) >= 8
  <1> DEFINE N == Len(im.sections)
             from(k) == Start(im, e, k)
             size(k) == SectionSize(im.sections[k])
  <1>1. N \in Nat /\ \A k \in 1 .. N : IsSection(im.sections[k])
    BY ImageSections
  <1>2. /\ from(0) = 4 /\ Len(Table(im, e)) = from(N) + 4
        /\ \A k \in 1 .. N : from(k) = from(k - 1) + size(k)
    <2>1. from(0) = 4 /\ Len(Table(im, e)) = from(N) + 4
      BY TableBytes
    <2>2. ASSUME NEW k \in 1 .. N PROVE from(k) = from(k - 1) + size(k)
      BY ZenonT(60), TableBytes
    <2> QED
      BY <2>1, <2>2
  <1>3. \A k \in 1 .. N : size(k) \in Nat /\ size(k) % 4 = 0
    BY <1>1, SectionTableBytes
  <1> DEFINE S == {k \in 0 .. N : from(k) \in Nat /\ from(k) % 4 = 0 /\ from(k) >= 4}
  <1> HIDE DEF N, from, size
  <1>4. 0 .. N \subseteq S
    <2>1. 0 \in S
      BY <1>1, <1>2
    <2>2. ASSUME NEW n \in 0 .. N - 1, n \in S PROVE n + 1 \in S
      <3>1. n + 1 \in 0 .. N /\ n + 1 \in 1 .. N /\ (n + 1) - 1 = n
        BY <1>1
      <3>2. from(n + 1) = from(n) + size(n + 1) /\ size(n + 1) \in Nat /\ size(n + 1) % 4 = 0
        BY <1>2, <1>3, <3>1
      <3>3. from(n) \in Nat /\ from(n) % 4 = 0 /\ from(n) >= 4
        BY <2>2
      <3> QED
        BY <3>1, <3>2, <3>3
    <2> HIDE DEF S
    <2> QED
      BY ONLY <1>1, <2>1, <2>2, Ascent
  <1>5. N \in 0 .. N
    BY <1>1
  <1>6. from(N) \in Nat /\ from(N) % 4 = 0 /\ from(N) >= 4
    BY <1>4, <1>5
  <1> DEFINE len1 == Len(Table(im, e))
  <1>7. len1 = from(N) + 4
    BY <1>2
  <1> HIDE DEF len1
  <1>8. len1 \in Nat /\ len1 % 4 = 0 /\ len1 % 2 = 0 /\ len1 >= 8
    BY <1>6, <1>7
  <1> QED
    BY <1>4, <1>8 DEF N, from, len1

LEMMA LayoutEntries ==
    ASSUME NEW E \in (SUBSET Endians) \ {{}}
    PROVE  LET l == Layout(E)
           IN /\ l.type = "layout" /\ l.address = MAP_ADDR
              /\ DOMAIN l.plt = 1 .. 4 /\ Len(l.plt) = 4 /\ Size(l) = 20
              /\ l.plt[2] = PadEntry(1) /\ l.plt[4] = PadEntry(Cardinality(E))
              /\ \A e \in Endians :
                     l.plt[EntryOf(e)] = FileEntry(IF e \in E THEN FileOf(E, e) ELSE NoFile)
  <1> DEFINE a == FileEntry(IF "little" \in E THEN 2 ELSE NoFile)
             b == FileEntry(IF "big" \in E THEN 1 + Cardinality(E) ELSE NoFile)
             plt == <<a, PadEntry(1), b, PadEntry(Cardinality(E))>>
             l == Layout(E)
  <1>1. l.type = "layout" /\ l.address = MAP_ADDR /\ l.plt = plt
    BY DEF Layout
  <1>2. DOMAIN plt = 1 .. 4 /\ Len(plt) = 4 /\ plt[1] = a /\ plt[2] = PadEntry(1) /\ plt[3] = b
        /\ plt[4] = PadEntry(Cardinality(E))
    <2> HIDE DEF a, b
    <2> QED
      OBVIOUS
  <1> HIDE DEF plt, l
  <1>3. Size(l) = 20
    BY <1>1, <1>2 DEF Size
  <1>4. \A e \in Endians :
            plt[EntryOf(e)] = FileEntry(IF e \in E THEN FileOf(E, e) ELSE NoFile)
    BY <1>2 DEF Endians, EntryOf, FileOf
  <1> QED
    BY <1>1, <1>2, <1>3, <1>4 DEF l

RomStart(dev) == (IF dev = "i2c" THEN I2C_BUS_ADDR ELSE 0) * DEVICE_BYTES

LEMMA MapConstants ==
    /\ MAP_ADDR \in Nat /\ PARAM_BYTES \in Nat /\ PARAM_BYTES <= MAP_ADDR
    /\ CONFIG_ADDR_1 \in Nat /\ MAP_ADDR + 20 <= CONFIG_ADDR_1
    /\ DEVICE_BYTES \in Nat \ {0} /\ FILE_ALIGN \in Nat \ {0} /\ I2C_BUS_ADDR \in Nat
    /\ MAP_ADDR + 20 <= DEVICE_BYTES
    /\ FILE_ALIGN % BlockSize = 0 /\ DEVICE_BYTES % FILE_ALIGN = 0
    /\ \A dev : RomStart(dev) \in Nat
  <1>1. /\ MAP_ADDR \in Nat /\ PARAM_BYTES \in Nat /\ PARAM_BYTES <= MAP_ADDR
        /\ CONFIG_ADDR_1 \in Nat /\ MAP_ADDR + 20 <= CONFIG_ADDR_1
        /\ DEVICE_BYTES \in Nat \ {0} /\ FILE_ALIGN \in Nat \ {0} /\ I2C_BUS_ADDR \in Nat
        /\ MAP_ADDR + 20 <= DEVICE_BYTES
    BY RomImageAssumption DEF MapBytes
  <1>2. FILE_ALIGN % BlockSize = 0 /\ DEVICE_BYTES % FILE_ALIGN = 0
    BY RomImageAssumption DEF BlockSize
  <1>3. \A dev : RomStart(dev) \in Nat
    BY <1>1 DEF RomStart
  <1> QED
    BY <1>1, <1>2, <1>3

EndOfTables(E, dev) == TablesEnd(RomStart(dev), <<Layout(E)>> \o Pads(E, dev))

LEMMA TailOfTables ==
    ASSUME NEW E \in (SUBSET Endians) \ {{}}, NEW dev
    PROVE  /\ EndOfTables(E, dev) \in Nat /\ RomStart(dev) + MAP_ADDR + 20 <= EndOfTables(E, dev)
           /\ \A k \in 1 .. Cardinality(E) :
                  /\ RomStart(dev) + Pads(E, dev)[k].address \in Nat
                  /\ RomStart(dev) + Pads(E, dev)[k].address <= EndOfTables(E, dev)
  <1> DEFINE P == [type : {"pad"}, address : Nat, len : Nat]
             l == Layout(E)
             pads == Pads(E, dev)
             V == {l} \cup P
             start == RomStart(dev)
             ls == <<l>>
             items == ls \o pads
             N == Cardinality(E)
  <1>1. /\ N \in {1, 2} /\ pads \in Seq(P) /\ Len(pads) = N
        /\ \A k \in 1 .. N : /\ pads[k].address >= CONFIG_ADDR_1
                            /\ pads[k].address <= pads[N].address
    BY PadsOfImage
  <1>2. l.type = "layout" /\ l.address = MAP_ADDR /\ Size(l) = 20
    BY LayoutEntries
  <1>3. /\ MAP_ADDR \in Nat /\ CONFIG_ADDR_1 \in Nat /\ MAP_ADDR + 20 <= CONFIG_ADDR_1
        /\ start \in Nat
    BY MapConstants
  <1> HIDE DEF l, pads, P, start, N
  <1>4. ls \in Seq(V) /\ pads \in Seq(V)
    <2>1. \A p \in P : p \in V
      OBVIOUS
    <2>2. l \in V
      OBVIOUS
    <2> HIDE DEF V
    <2> QED
      BY <1>1, <2>1, <2>2
  <1>5. Len(ls) = 1 /\ ls[1] = l
    OBVIOUS
  <1> HIDE DEF ls
  <1>6. /\ items \in Seq(V) /\ Len(items) = Len(ls) + Len(pads) /\ Extends(ls, items)
        /\ \A i \in 1 .. Len(pads) : items[Len(ls) + i] = pads[i]
    <2> HIDE DEF V
    <2> QED
      BY ONLY <1>4, Concatenated
  <1> HIDE DEF items
  <1>7. Len(items) = 1 + N /\ N \in Nat /\ items[1] = l /\ \A i \in 1 .. N : items[1 + i] = pads[i]
    BY <1>1, <1>5, <1>6 DEF Extends
  <1>8. ASSUME NEW p \in P, NEW b \in Int
        PROVE  AfterItem(start, b, p) = start + p.address + p.len /\ p.address \in Nat /\ p.len \in Nat
    BY DEF AfterItem, Size, P
  <1>9. ASSUME NEW b \in Int PROVE AfterItem(start, b, l) \in Int
    BY <1>2, <1>3 DEF AfterItem
  <1>10. ASSUME NEW n \in 1 .. Len(items), NEW b \in Int
         PROVE  AfterItem(start, b, items[n]) \in Int
    <2>1. CASE n = 1
      BY <1>7, <1>9, <2>1
    <2>2. CASE n # 1
      <3>1. n - 1 \in 1 .. N /\ 1 + (n - 1) = n
        BY <1>7, <2>2
      <3>2. items[n] = pads[n - 1] /\ pads[n - 1] \in P
        BY <1>1, <1>7, <3>1
      <3>3. pads[n - 1].address \in Nat /\ pads[n - 1].len \in Nat
            /\ AfterItem(start, b, pads[n - 1]) = start + pads[n - 1].address + pads[n - 1].len
        BY <1>8, <3>2
      <3> QED
        BY <1>3, <3>2, <3>3
    <2> QED
      BY <2>1, <2>2
  <1>11. Len(items) \in Nat \ {0}
    BY <1>7
  <1>12. PICK b \in Int : TablesEnd(start, items) = AfterItem(start, b, items[Len(items)])
    BY ONLY <1>3, <1>10, <1>11, LastItem
  <1>13. items[Len(items)] = pads[N] /\ pads[N] \in P /\ pads[N].address >= CONFIG_ADDR_1
    <2>1. N \in 1 .. N
      BY <1>1
    <2> QED
      BY <1>1, <1>7, <2>1
  <1>14. TablesEnd(start, items) = start + pads[N].address + pads[N].len
         /\ pads[N].address \in Nat /\ pads[N].len \in Nat
    BY <1>8, <1>12, <1>13
  <1>15. EndOfTables(E, dev) = TablesEnd(start, items)
    BY DEF EndOfTables, start, items, ls, l, pads
  <1> DEFINE x == pads[N].address
             y == pads[N].len
             z == EndOfTables(E, dev)
  <1>16. x \in Nat /\ y \in Nat /\ x >= CONFIG_ADDR_1 /\ z = start + x + y
    BY <1>13, <1>14, <1>15
  <1> HIDE DEF x, y, z
  <1>17. z \in Nat /\ start + MAP_ADDR + 20 <= z
    BY <1>3, <1>16
  <1>18. ASSUME NEW k \in 1 .. N
         PROVE  start + pads[k].address \in Nat /\ start + pads[k].address <= z
    <2>1. pads[k] \in P /\ pads[k].address <= x
      BY <1>1 DEF x
    <2> DEFINE w == pads[k].address
    <2>2. w \in Nat /\ w <= x
      BY <2>1 DEF P
    <2> HIDE DEF w
    <2>3. start + w \in Nat /\ start + w <= z
      BY <1>3, <1>16, <2>2
    <2> QED
      BY <2>3 DEF w
  <1> QED
    BY <1>17, <1>18 DEF start, z, pads, N

Addresses(im, E, dev) == AddressBytes(EndOfTables(E, dev), ProgFiles(im, E))

LEMMA BlocksOfTable ==
    ASSUME NEW im \in Images, NEW e
    PROVE  Blocks(Table(im, e)) \in Seq(Bytes)
  <1>1. Table(im, e) \in Seq(Bytes)
    BY TableBytes
  <1>2. Len(Table(im, e)) % 2 = 0
    BY StartsAligned
  <1> QED
    BY <1>1, <1>2, BlocksBytes

LEMMA FileBytes ==
    ASSUME NEW im \in Images, NEW E \in (SUBSET Endians) \ {{}}, NEW k \in 1 .. 1 + Cardinality(E)
    PROVE  LET f == ProgFiles(im, E)[k]
           IN f.data \in Seq(Bytes) /\ Len(f.data) \in Nat /\ f.align \in Nat \ {0}
  <1> DEFINE f == ProgFiles(im, E)[k]
  <1>1. Cardinality(E) \in Nat
    BY PadsOfImage
  <1>2. CASE k = 1
    <2>1. f = InitFile
      BY <1>2, FilesOfImage
    <2>2. INIT_BYTES \in Nat
      BY RomImageAssumption
    <2> DEFINE s == [i \in 1 .. INIT_BYTES |-> 0]
    <2>3. s \in Seq(Bytes)
      BY <2>2 DEF Bytes
    <2>4. f.data = s /\ f.align = 1
      BY <2>1 DEF InitFile, File
    <2> HIDE DEF s, f
    <2>5. f.data \in Seq(Bytes) /\ Len(f.data) \in Nat /\ f.align \in Nat \ {0}
      BY <2>3, <2>4
    <2> QED
      BY <2>5 DEF f
  <1>3. CASE k # 1
    <2>1. k \in 2 .. 1 + Cardinality(E)
      BY <1>1, <1>3
    <2>2. PICK e \in E : f = TableFile(im, e)
      BY <2>1, FilesOfImage
    <2>3. f.data = Blocks(Table(im, e)) /\ f.align = FILE_ALIGN
      BY <2>2 DEF TableFile, File
    <2>4. Blocks(Table(im, e)) \in Seq(Bytes)
      BY BlocksOfTable
    <2>5. FILE_ALIGN \in Nat \ {0}
      BY MapConstants
    <2> HIDE DEF f
    <2>6. f.data \in Seq(Bytes) /\ Len(f.data) \in Nat /\ f.align \in Nat \ {0}
      BY <2>3, <2>4, <2>5
    <2> QED
      BY <2>6 DEF f
  <1> QED
    BY <1>2, <1>3

\* The files follow the tables and one another.
LEMMA AddressesAscend ==
    ASSUME NEW im \in Images, NEW E \in (SUBSET Endians) \ {{}}, NEW dev
    PROVE  LET A == Addresses(im, E, dev)
               N == 1 + Cardinality(E)
               files == ProgFiles(im, E)
           IN /\ DOMAIN A = 1 .. N
              /\ \A k \in 1 .. N : A[k] \in Nat /\ A[k] % files[k].align = 0
              /\ \A k \in 1 .. N : RomStart(dev) + MAP_ADDR + 20 <= A[k]
              /\ \A k \in 1 .. N - 1 : A[k] + Len(files[k].data) <= A[k + 1]
  <1> DEFINE A == Addresses(im, E, dev)
             N == 1 + Cardinality(E)
             files == ProgFiles(im, E)
             base == EndOfTables(E, dev)
             low == RomStart(dev) + MAP_ADDR + 20
  <1>1. N \in {2, 3} /\ DOMAIN files = 1 .. N
    BY FilesOfImage
  <1>2. base \in Nat /\ low <= base /\ low \in Nat
    <2>1. low \in Nat
      BY MapConstants
    <2>2. base \in Nat /\ low <= base
      <3> HIDE DEF A, N, files
      <3> QED
        BY ONLY TailOfTables, E \in (SUBSET Endians) \ {{}}
    <2> QED
      BY ONLY <2>1, <2>2
  <1>3. \A k \in 1 .. N : Len(files[k].data) \in Nat /\ files[k].align \in Nat \ {0}
    BY FileBytes
  <1>4. A = AddressBytes(base, files)
    BY DEF Addresses
  <1> HIDE DEF A, N, files, base, low
  <1>5. DOMAIN A = 1 .. N /\ \A k \in 1 .. N : FileAddress(A, base, files, k)
    <2>1. N \in Nat
      BY <1>1
    <2> QED
      BY ONLY SMTT(30), <1>1, <1>2, <1>3, <1>4, <2>1, FileAddresses
  <1>6. \A k \in 1 .. N : A[k] \in Nat /\ A[k] % files[k].align = 0
    BY <1>5 DEF FileAddress
  <1>7. \A k \in 1 .. N - 1 : A[k] + Len(files[k].data) <= A[k + 1]
    <2>1. ASSUME NEW k \in 1 .. N - 1 PROVE A[k] + Len(files[k].data) <= A[k + 1]
      <3>1. k + 1 \in 1 .. N /\ k + 1 > 1 /\ (k + 1) - 1 = k
        BY <1>1
      <3> QED
        BY <1>5, <3>1 DEF FileAddress
    <2> QED
      BY <2>1
  <1>8. low <= A[1] /\ A[1] \in Nat
    <2>1. 1 \in 1 .. N
      BY <1>1
    <2>2. base <= A[1]
      BY <1>5, <2>1 DEF FileAddress
    <2> QED
      BY <1>2, <1>6, <2>1, <2>2
  <1>9. low <= A[2] /\ A[2] \in Nat
    <2>1. 1 \in 1 .. N - 1 /\ 2 \in 1 .. N /\ 1 \in 1 .. N /\ 1 + 1 = 2
      BY <1>1
    <2>2. A[1] + Len(files[1].data) <= A[2] /\ Len(files[1].data) \in Nat
      BY <1>3, <1>7, <2>1
    <2> QED
      BY <1>2, <1>6, <1>8, <2>1, <2>2
  <1>10. ASSUME N = 3 PROVE low <= A[3]
    <2>1. 2 \in 1 .. N - 1 /\ 3 \in 1 .. N /\ 2 \in 1 .. N /\ 2 + 1 = 3
      BY <1>10
    <2>2. A[2] + Len(files[2].data) <= A[3] /\ Len(files[2].data) \in Nat /\ A[3] \in Nat
      BY <1>3, <1>6, <1>7, <2>1
    <2> QED
      BY <1>2, <1>9, <2>2
  <1>11. \A k \in 1 .. N : low <= A[k]
    <2>1. \A k \in 1 .. N : k = 1 \/ k = 2 \/ (N = 3 /\ k = 3)
      BY <1>1
    <2> QED
      BY <1>8, <1>9, <1>10, <2>1
  <1> QED
    BY <1>5, <1>6, <1>7, <1>11 DEF A, N, files, low

\* Entry j of the map.
MapWord(im, E, dev, j) ==
    EntryWord(Layout(E).plt[j], RomStart(dev), Pads(E, dev), Addresses(im, E, dev))

IsWord(s, V) == s \in Seq(V) /\ Len(s) = 4

LEMMA MapWords ==
    ASSUME NEW im \in Images, NEW E \in (SUBSET Endians) \ {{}}, NEW dev, NEW V, 255 \in V,
           \A k \in 1 .. Cardinality(E) :
               IsWord(Bytes32(RomStart(dev) + Pads(E, dev)[k].address), V),
           \A k \in 1 .. 1 + Cardinality(E) : IsWord(Bytes32(Addresses(im, E, dev)[k]), V)
    PROVE  /\ \A j \in 1 .. 4 : IsWord(MapWord(im, E, dev, j), V)
           /\ \A e \in Endians :
                  MapWord(im, E, dev, EntryOf(e)) =
                      IF e \in E THEN Bytes32(Addresses(im, E, dev)[FileOf(E, e)])
                      ELSE <<255, 255, 255, 255>>
  <1> DEFINE plt == Layout(E).plt
             word(j) == MapWord(im, E, dev, j)
             pads == Pads(E, dev)
             A == Addresses(im, E, dev)
             N == Cardinality(E)
             none == <<255, 255, 255, 255>>
  <1>1. plt[2] = PadEntry(1) /\ plt[4] = PadEntry(N)
        /\ \A e \in Endians : plt[EntryOf(e)] = FileEntry(IF e \in E THEN FileOf(E, e) ELSE NoFile)
    BY LayoutEntries
  <1>2. N \in {1, 2} /\ 1 \in 1 .. N /\ N \in 1 .. N
    <2>1. N \in {1, 2}
      BY ONLY PadsOfImage, E \in (SUBSET Endians) \ {{}}
    <2> HIDE DEF N
    <2> QED
      BY ONLY <2>1
  <1>3. \A e \in E : FileOf(E, e) \in 2 .. 1 + N
    BY FilesOfImage
  <1>4. IsWord(none, V)
    BY DEF IsWord
  <1> HIDE DEF plt, pads, A, N
  <1>5. ASSUME NEW j, NEW k, plt[j] = PadEntry(k)
        PROVE  word(j) = Bytes32(RomStart(dev) + pads[k].address)
    BY <1>5 DEF MapWord, EntryWord, PadEntry, plt, pads
  <1>6. ASSUME NEW j, NEW k \in Nat, k # 0, plt[j] = FileEntry(k)
        PROVE  word(j) = Bytes32(A[k])
    BY <1>6 DEF MapWord, EntryWord, FileEntry, NoFile, plt, A
  <1>7. ASSUME NEW j, plt[j] = FileEntry(NoFile)
        PROVE  word(j) = none
    BY <1>7 DEF MapWord, EntryWord, FileEntry, NoFile, plt
  <1> HIDE DEF none
  <1>8. ASSUME NEW e \in Endians
        PROVE  /\ word(EntryOf(e)) = IF e \in E THEN Bytes32(A[FileOf(E, e)]) ELSE none
               /\ IsWord(word(EntryOf(e)), V)
    <2>1. CASE e \in E
      <3> DEFINE k == FileOf(E, e)
      <3>1. k \in 2 .. 1 + N
        BY <1>3, <2>1
      <3>2. plt[EntryOf(e)] = FileEntry(k)
        BY <1>1, <2>1
      <3> HIDE DEF k
      <3>3. k \in Nat /\ k # 0 /\ k \in 1 .. 1 + N
        BY <1>2, <3>1
      <3>4. word(EntryOf(e)) = Bytes32(A[k])
        BY <1>6, <3>2, <3>3
      <3>5. IsWord(Bytes32(A[k]), V)
        BY <3>3 DEF A, N
      <3> HIDE DEF word
      <3> QED
        BY <2>1, <3>4, <3>5 DEF k
    <2>2. CASE e \notin E
      <3>1. plt[EntryOf(e)] = FileEntry(NoFile)
        BY <1>1, <2>2
      <3>2. word(EntryOf(e)) = none
        BY <1>7, <3>1
      <3> HIDE DEF word
      <3> QED
        BY <1>4, <2>2, <3>2 DEF none
    <2> QED
      BY <2>1, <2>2
  <1>9. IsWord(word(2), V) /\ IsWord(word(4), V)
    <2>1. word(2) = Bytes32(RomStart(dev) + pads[1].address)
          /\ word(4) = Bytes32(RomStart(dev) + pads[N].address)
      BY <1>1, <1>5
    <2>2. IsWord(Bytes32(RomStart(dev) + pads[1].address), V)
          /\ IsWord(Bytes32(RomStart(dev) + pads[N].address), V)
      BY <1>2 DEF pads, N
    <2> HIDE DEF word
    <2> QED
      BY <2>1, <2>2
  <1>10. "little" \in Endians /\ "big" \in Endians /\ EntryOf("little") = 1 /\ EntryOf("big") = 3
    BY DEF Endians, EntryOf
  <1>11. IsWord(word(1), V) /\ IsWord(word(3), V)
    BY <1>8, <1>10
  <1>12. ASSUME NEW j \in 1 .. 4 PROVE IsWord(word(j), V)
    <2>1. j = 1 \/ j = 2 \/ j = 3 \/ j = 4
      OBVIOUS
    <2> HIDE DEF word
    <2> QED
      BY <1>9, <1>11, <2>1
  <1> QED
    BY <1>8, <1>12 DEF A, none

TheMap(im, E, dev) ==
    LayoutBytes(Layout(E), RomStart(dev), Pads(E, dev), Addresses(im, E, dev))

\* The map is its length, no checksum and the four words.
LEMMA MapBytesAre ==
    ASSUME NEW im \in Images, NEW E \in (SUBSET Endians) \ {{}}, NEW dev, NEW V, 0 \in V, 20 \in V,
           \A j \in 1 .. 4 : IsWord(MapWord(im, E, dev, j), V)
    PROVE  /\ TheMap(im, E, dev) \in Seq(V) /\ Len(TheMap(im, E, dev)) = 20
           /\ \A j \in 1 .. 4 : \A i \in 1 .. 4 :
                  TheMap(im, E, dev)[4 * j + i] = MapWord(im, E, dev, j)[i]
  <1> DEFINE plt == Layout(E).plt
             word(j) == MapWord(im, E, dev, j)
             seqs == [j \in DOMAIN plt |-> word(j)]
             a == Bytes16(Size(Layout(E)))
             b == Bytes16(0)
             c == FlattenSeq(seqs)
             m == TheMap(im, E, dev)
  <1>1. DOMAIN plt = 1 .. 4 /\ Size(Layout(E)) = 20
    BY LayoutEntries
  <1>2. seqs \in Seq(Seq(V)) /\ Len(seqs) = 4 /\ \A j \in 1 .. 4 : seqs[j] = word(j)
    <2> HIDE DEF plt, word
    <2>1. \A j \in 1 .. 4 : word(j) \in Seq(V)
      BY DEF IsWord, word
    <2> QED
      BY <1>1, <2>1
  <1>3. m = a \o b \o c
    BY DEF TheMap, LayoutBytes, MapWord
  <1>4. a \in Seq(V) /\ Len(a) = 2 /\ b \in Seq(V) /\ Len(b) = 2
    <2>1. 20 \div 2^8 = 0 /\ 20 % 2^8 = 20 /\ 0 \div 2^8 = 0 /\ 0 % 2^8 = 0
      BY SMT
    <2>2. a = <<0, 20>> /\ b = <<0, 0>>
      BY <1>1, <2>1 DEF Bytes16
    <2> HIDE DEF a, b
    <2> QED
      BY <2>2
  <1> HIDE DEF seqs
  <1>5. PICK f : IsFlat(f, seqs, V) /\ c = f[Len(seqs)]
    BY <1>2, FlattenParts
  <1>6. \A k \in 1 .. Len(seqs) : FlatAt(f, seqs, k)
    BY <1>2, <1>5, FlatContent
  <1>7. f[0] = << >> /\ f \in [0 .. 4 -> Seq(V)]
    BY <1>2, <1>5 DEF IsFlat
  <1> HIDE DEF c
  <1>8. c \in Seq(V)
    BY <1>2, <1>5, <1>7
  <1>9. \A j \in 1 .. 4 : Len(f[j]) = Len(f[j - 1]) + 4
    <2>1. ASSUME NEW j \in 1 .. 4 PROVE Len(f[j]) = Len(f[j - 1]) + 4
      <3>1. j \in 1 .. Len(seqs) /\ seqs[j] = word(j)
        BY <1>2
      <3>2. Len(word(j)) = 4
        BY DEF IsWord
      <3>3. FlatAt(f, seqs, j)
        BY <1>6, <3>1
      <3> QED
        BY <3>1, <3>2, <3>3 DEF FlatAt
    <2> QED
      BY <2>1
  <1>10. Len(f[0]) = 0 /\ Len(f[1]) = 4 /\ Len(f[2]) = 8 /\ Len(f[3]) = 12 /\ Len(f[4]) = 16
    <2>1. Len(f[0]) = 0
      BY <1>7
    <2>2. /\ Len(f[1]) = Len(f[0]) + 4 /\ Len(f[2]) = Len(f[1]) + 4
          /\ Len(f[3]) = Len(f[2]) + 4 /\ Len(f[4]) = Len(f[3]) + 4
      BY <1>9
    <2> QED
      BY <2>1, <2>2
  <1>11. Len(c) = 16
    BY <1>2, <1>5, <1>10
  <1>12. ASSUME NEW j \in 1 .. 4, NEW i \in 1 .. 4 PROVE c[4 * (j - 1) + i] = word(j)[i]
    <2>1. j \in 1 .. Len(seqs) /\ seqs[j] = word(j)
      BY <1>2
    <2>2. Len(word(j)) = 4
      BY DEF IsWord
    <2>3. FlatAt(f, seqs, j)
      BY <1>6, <2>1
    <2>4. Len(f[j - 1]) = 4 * (j - 1)
      <3>1. CASE j = 1
        BY <1>10, <3>1
      <3>2. CASE j = 2
        BY <1>10, <3>2
      <3>3. CASE j = 3
        BY <1>10, <3>3
      <3>4. CASE j = 4
        BY <1>10, <3>4
      <3> QED
        BY <3>1, <3>2, <3>3, <3>4
    <2>5. c[Len(f[j - 1]) + i] = seqs[j][i]
      BY <1>5, <2>1, <2>2, <2>3 DEF FlatAt
    <2> QED
      BY <2>1, <2>4, <2>5
  <1> HIDE DEF a, b
  <1>13. /\ a \o b \o c \in Seq(V) /\ Len(a \o b \o c) = Len(a) + Len(b) + Len(c)
         /\ \A i \in 1 .. Len(c) : (a \o b \o c)[Len(a) + Len(b) + i] = c[i]
    <2>1. a \in Seq(V) /\ b \in Seq(V) /\ c \in Seq(V)
      BY <1>4, <1>8
    <2> QED
      BY ONLY <2>1, JoinedThree
  <1> HIDE DEF m
  <1>14. m \in Seq(V) /\ Len(m) = 20 /\ \A i \in 1 .. 16 : m[4 + i] = c[i]
    <2>1. m \in Seq(V) /\ Len(m) = 20
      BY <1>3, <1>4, <1>11, <1>13
    <2>2. ASSUME NEW i \in 1 .. 16 PROVE m[4 + i] = c[i]
      <3>1. Len(a) + Len(b) + i = 4 + i /\ i \in 1 .. Len(c)
        BY <1>4, <1>11
      <3>2. (a \o b \o c)[Len(a) + Len(b) + i] = c[i]
        BY <1>13, <3>1
      <3> QED
        BY <1>3, <3>1, <3>2
    <2> QED
      BY <2>1, <2>2
  <1>15. ASSUME NEW j \in 1 .. 4, NEW i \in 1 .. 4 PROVE m[4 * j + i] = word(j)[i]
    <2>1. 4 * (j - 1) + i \in 1 .. 16 /\ 4 + (4 * (j - 1) + i) = 4 * j + i
      OBVIOUS
    <2>2. c[4 * (j - 1) + i] = word(j)[i]
      BY <1>12
    <2> QED
      BY <1>14, <2>1, <2>2
  <1> QED
    BY <1>14, <1>15 DEF m

Parts(im, E, dev) ==
    <<[at |-> Layout(E).address, bytes |-> TheMap(im, E, dev)]>>
        \o [k \in DOMAIN ProgFiles(im, E) |->
                [at |-> Addresses(im, E, dev)[k] - RomStart(dev),
                 bytes |-> ProgFiles(im, E)[k].data]]

Filling(dev) == IF dev = "spi" THEN 255 ELSE 0

LEMMA Building ==
    ASSUME NEW im, NEW E, NEW dev
    PROVE  /\ BuildFlash(im, E, dev).start = RomStart(dev)
           /\ BuildFlash(im, E, dev).bytes = Image(Parts(im, E, dev), Filling(dev))
  BY DEF BuildFlash, createOutput, Parts, TheMap, Addresses, EndOfTables, RomStart, Filling

\* The parts in their order.
LEMMA PartsAre ==
    ASSUME NEW im \in Images, NEW E \in (SUBSET Endians) \ {{}}, NEW dev
    PROVE  LET p == Parts(im, E, dev)
               N == 1 + Cardinality(E)
           IN /\ Len(p) = 1 + N
              /\ p[1].at = MAP_ADDR /\ p[1].bytes = TheMap(im, E, dev)
              /\ \A k \in 1 .. N :
                     /\ p[1 + k].at = Addresses(im, E, dev)[k] - RomStart(dev)
                     /\ p[1 + k].bytes = ProgFiles(im, E)[k].data
  <1> DEFINE N == 1 + Cardinality(E)
             first == [at |-> Layout(E).address, bytes |-> TheMap(im, E, dev)]
             file(k) == [at |-> Addresses(im, E, dev)[k] - RomStart(dev),
                         bytes |-> ProgFiles(im, E)[k].data]
             a == <<first>>
             b == [k \in 1 .. N |-> file(k)]
             V == {first} \cup {file(k) : k \in 1 .. N}
             p == Parts(im, E, dev)
  <1>1. N \in Nat /\ DOMAIN ProgFiles(im, E) = 1 .. N
    BY FilesOfImage
  <1>2. p = a \o b
    BY <1>1 DEF Parts
  <1>3. a \in Seq(V) /\ Len(a) = 1 /\ a[1] = first
    <2>1. first \in V
      OBVIOUS
    <2> HIDE DEF V, first
    <2> QED
      BY <2>1
  <1>4. b \in Seq(V) /\ Len(b) = N /\ \A k \in 1 .. N : b[k] = file(k)
    <2>1. \A k \in 1 .. N : file(k) \in V
      OBVIOUS
    <2> HIDE DEF V, file, N
    <2> QED
      BY <1>1, <2>1
  <1>5. first.at = MAP_ADDR /\ first.bytes = TheMap(im, E, dev)
    BY LayoutEntries
  <1> HIDE DEF a, b, V, N, first
  <1>6. /\ a \o b \in Seq(V) /\ Len(a \o b) = Len(a) + Len(b) /\ Extends(a, a \o b)
        /\ \A i \in 1 .. Len(b) : (a \o b)[Len(a) + i] = b[i]
    <2>1. a \in Seq(V) /\ b \in Seq(V)
      BY <1>3, <1>4
    <2> QED
      BY ONLY <2>1, Concatenated
  <1> HIDE DEF p
  <1>7. Len(p) = 1 + N /\ p[1] = first
    BY <1>1, <1>2, <1>3, <1>4, <1>6 DEF Extends
  <1>8. ASSUME NEW k \in 1 .. N PROVE p[1 + k] = file(k)
    BY <1>2, <1>3, <1>4, <1>6
  <1>9. p[1].at = MAP_ADDR /\ p[1].bytes = TheMap(im, E, dev)
    BY <1>5, <1>7
  <1>10. ASSUME NEW k \in 1 .. N
         PROVE  /\ p[1 + k].at = Addresses(im, E, dev)[k] - RomStart(dev)
                /\ p[1 + k].bytes = ProgFiles(im, E)[k].data
    <2>1. /\ file(k).at = Addresses(im, E, dev)[k] - RomStart(dev)
          /\ file(k).bytes = ProgFiles(im, E)[k].data
      OBVIOUS
    <2>2. p[1 + k] = file(k)
      BY <1>8
    <2> HIDE DEF file
    <2> QED
      BY <2>1, <2>2
  <1> QED
    BY <1>7, <1>9, <1>10 DEF p, N

LEMMA PartsPlaced ==
    ASSUME NEW im \in Images, NEW E \in (SUBSET Endians) \ {{}}, NEW dev, NEW V,
           \A v \in Bytes : v \in V, \A j \in 1 .. 4 : IsWord(MapWord(im, E, dev, j), V)
    PROVE  ArePlaced(Parts(im, E, dev), V)
  <1> DEFINE p == Parts(im, E, dev)
             N == 1 + Cardinality(E)
             A == Addresses(im, E, dev)
             files == ProgFiles(im, E)
             start == RomStart(dev)
             m == TheMap(im, E, dev)
  <1>1. N \in {2, 3}
    BY FilesOfImage
  <1>2. /\ Len(p) = 1 + N /\ p[1].at = MAP_ADDR /\ p[1].bytes = m
        /\ \A k \in 1 .. N : p[1 + k].at = A[k] - start /\ p[1 + k].bytes = files[k].data
    <2>1. Len(p) = 1 + N /\ p[1].at = MAP_ADDR /\ p[1].bytes = m
      BY PartsAre
    <2>2. ASSUME NEW k \in 1 .. N
          PROVE  p[1 + k].at = A[k] - start /\ p[1 + k].bytes = files[k].data
      BY PartsAre
    <2> QED
      BY <2>1, <2>2
  <1>3. m \in Seq(V) /\ Len(m) = 20
    <2>1. 0 \in V /\ 20 \in V
      BY DEF Bytes
    <2> QED
      BY <2>1, MapBytesAre
  <1>4. \A k \in 1 .. N : files[k].data \in Seq(V) /\ Len(files[k].data) \in Nat
    <2>1. ASSUME NEW k \in 1 .. N PROVE files[k].data \in Seq(V) /\ Len(files[k].data) \in Nat
      <3> DEFINE d == files[k].data
      <3>1. d \in Seq(Bytes)
        BY FileBytes
      <3> HIDE DEF d
      <3>2. d \in Seq(V) /\ Len(d) \in Nat
        BY <3>1
      <3> QED
        BY <3>2 DEF d
    <2> QED
      BY <2>1
  <1>5. /\ MAP_ADDR \in Nat /\ PARAM_BYTES <= MAP_ADDR /\ start \in Nat
    BY MapConstants
  <1>6. /\ \A k \in 1 .. N : A[k] \in Nat /\ start + MAP_ADDR + 20 <= A[k]
        /\ \A k \in 1 .. N - 1 : A[k] + Len(files[k].data) <= A[k + 1]
    BY AddressesAscend
  <1> HIDE DEF p, N, A, files, start, m
  <1>7. Len(p) \in Nat /\ PARAM_BYTES <= p[1].at
    BY <1>1, <1>2, <1>5
  <1>8. ASSUME NEW n \in 1 .. Len(p) PROVE p[n].at \in Nat /\ p[n].bytes \in Seq(V)
    <2>1. CASE n = 1
      BY <1>2, <1>3, <1>5, <2>1
    <2>2. CASE n # 1
      <3>1. n - 1 \in 1 .. N /\ 1 + (n - 1) = n
        BY <1>1, <1>2, <2>2
      <3>2. p[n].at = A[n - 1] - start /\ p[n].bytes = files[n - 1].data
        BY <1>2, <3>1
      <3> DEFINE x == A[n - 1]
      <3>3. x \in Nat /\ start + MAP_ADDR + 20 <= x
        BY <1>6, <3>1
      <3> HIDE DEF x
      <3>4. x - start \in Nat
        BY <1>5, <3>3
      <3> QED
        BY <1>4, <3>1, <3>2, <3>4 DEF x
    <2> QED
      BY <2>1, <2>2
  <1>9. ASSUME NEW n \in 1 .. Len(p) - 1
        PROVE  p[n].at + Len(p[n].bytes) <= p[n + 1].at
    <2>1. CASE n = 1
      <3>1. 1 \in 1 .. N /\ n + 1 = 1 + 1
        BY <1>1, <2>1
      <3>2. p[n + 1].at = A[1] - start /\ p[n].at = MAP_ADDR /\ Len(p[n].bytes) = 20
        BY <1>2, <1>3, <2>1, <3>1
      <3> DEFINE x == A[1]
      <3>3. x \in Nat /\ start + MAP_ADDR + 20 <= x
        BY <1>6, <3>1
      <3> HIDE DEF x
      <3>4. MAP_ADDR + 20 <= x - start
        BY <1>5, <3>3
      <3> QED
        BY <3>2, <3>4 DEF x
    <2>2. CASE n # 1
      <3> DEFINE k == n - 1
      <3>1. k \in 1 .. N - 1 /\ k \in 1 .. N /\ k + 1 \in 1 .. N /\ 1 + k = n /\ 1 + (k + 1) = n + 1
        BY <1>1, <1>2, <2>2
      <3> HIDE DEF k
      <3>2. /\ p[n].at = A[k] - start /\ p[n].bytes = files[k].data
            /\ p[n + 1].at = A[k + 1] - start
        BY <1>2, <3>1
      <3> DEFINE x == A[k]
                 y == A[k + 1]
                 l == Len(files[k].data)
      <3>3. x \in Nat /\ y \in Nat /\ l \in Nat /\ x + l <= y
        BY <1>4, <1>6, <3>1
      <3>4. p[n].at = x - start /\ Len(p[n].bytes) = l /\ p[n + 1].at = y - start
        BY <3>2
      <3> HIDE DEF x, y, l
      <3>5. (x - start) + l <= y - start
        BY <1>5, <3>3
      <3> QED
        BY <3>4, <3>5
    <2> QED
      BY <2>1, <2>2
  <1> QED
    BY <1>7, <1>8, <1>9 DEF ArePlaced, p

\* What the reader relies on: the entry of the map for each endianness, and
\* the blocks of the table where it says.
Column(e) == MAP_ADDR + 4 * EntryOf(e)

HasTable(rom, im, e, at) ==
    /\ Is32Bit(at) /\ at % BlockSize = 0 /\ rom.start <= at
    /\ \A i \in 1 .. 4 : rom.bytes[Column(e) + i] = Bytes32(at)[i]
    /\ at - rom.start + Len(Blocks(Table(im, e))) <= Len(rom.bytes)
    /\ \A i \in 1 .. Len(Blocks(Table(im, e))) :
           rom.bytes[at - rom.start + i] = Blocks(Table(im, e))[i]

HasNoTable(rom, e) == \A i \in 1 .. 4 : rom.bytes[Column(e) + i] = 255

IsRom(rom, im, dev) ==
    /\ rom.bytes \in Seq(Bytes) /\ rom.start = RomStart(dev)
    /\ MAP_ADDR + 20 <= Len(rom.bytes)
    /\ \A e \in Endians : HasNoTable(rom, e) \/ \E at \in Nat : HasTable(rom, im, e, at)

LEMMA Bytes32Naturals ==
    ASSUME NEW v \in Nat
    PROVE  IsWord(Bytes32(v), Nat)
  <1> DEFINE h == v \div 2^16
             l == v % 2^16
  <1>1. h \in Nat /\ l \in Nat
    BY SMT
  <1>2. Bytes32(v) = Bytes16(h) \o Bytes16(l)
    BY DEF Bytes32
  <1>3. ASSUME NEW n \in Nat PROVE Bytes16(n) \in Seq(Nat) /\ Len(Bytes16(n)) = 2
    <2> DEFINE x == n \div 2^8
               y == n % 2^8
    <2>1. x \in Nat /\ y \in Nat
      BY SMT
    <2>2. Bytes16(n) = <<x, y>>
      BY DEF Bytes16
    <2> HIDE DEF x, y
    <2> QED
      BY <2>1, <2>2
  <1> HIDE DEF h, l
  <1> DEFINE a == Bytes16(h)
             b == Bytes16(l)
  <1>4. a \in Seq(Nat) /\ b \in Seq(Nat) /\ Len(a) = 2 /\ Len(b) = 2
    BY <1>1, <1>3
  <1> HIDE DEF a, b
  <1>5. a \o b \in Seq(Nat) /\ Len(a \o b) = Len(a) + Len(b)
    BY ONLY <1>4, Concatenated
  <1> QED
    BY <1>2, <1>4, <1>5 DEF IsWord, a, b

LEMMA AddressesFit ==
    ASSUME NEW im \in Images, NEW E \in (SUBSET Endians) \ {{}}, NEW dev \in Devices
    PROVE  /\ \A k \in 1 .. Cardinality(E) : Is32Bit(RomStart(dev) + Pads(E, dev)[k].address)
           /\ \A k \in 1 .. 1 + Cardinality(E) : Is32Bit(Addresses(im, E, dev)[k])
  <1> DEFINE N == 1 + Cardinality(E)
             p == Parts(im, E, dev)
             A == Addresses(im, E, dev)
             files == ProgFiles(im, E)
             start == RomStart(dev)
             bytes == Image(p, Filling(dev))
             pad(k) == RomStart(dev) + Pads(E, dev)[k].address
  <1>1. N \in {2, 3}
    BY FilesOfImage
  <1>2. \A k \in 1 .. Cardinality(E) : pad(k) \in Nat /\ pad(k) <= EndOfTables(E, dev)
    BY TailOfTables
  <1>3. \A k \in 1 .. N : A[k] \in Nat
    BY AddressesAscend
  <1>4. \A j \in 1 .. 4 : IsWord(MapWord(im, E, dev, j), Nat)
    <2>1. \A k \in 1 .. Cardinality(E) : IsWord(Bytes32(pad(k)), Nat)
      BY <1>2, Bytes32Naturals
    <2>2. \A k \in 1 .. N : IsWord(Bytes32(A[k]), Nat)
      BY <1>3, Bytes32Naturals
    <2>3. 255 \in Nat
      OBVIOUS
    <2> QED
      BY <2>1, <2>2, <2>3, MapWords
  <1>5. ArePlaced(p, Nat)
    <2>1. \A v \in Bytes : v \in Nat
      BY DEF Bytes
    <2> QED
      BY <1>4, <2>1, PartsPlaced
  <1>6. bytes \in Seq(Nat) /\ \A k \in 1 .. Len(p) : PartAt(bytes, p, k)
    <2>1. 0 \in Nat /\ Filling(dev) \in Nat
      BY DEF Filling
    <2> HIDE DEF p
    <2> QED
      BY <1>5, <2>1, ImagePlaces
  <1>7. Is32Bit(start + Len(bytes))
    <2>1. Is32Bit(BuildFlash(im, E, dev).start + Len(BuildFlash(im, E, dev).bytes))
      BY ImagesAssumption DEF Endians, Devices
    <2> QED
      BY <2>1, Building
  <1>8. ASSUME NEW k \in 1 .. N PROVE A[k] <= start + Len(bytes)
    <2>1. /\ Len(p) = 1 + N /\ p[1 + k].at = A[k] - start
          /\ p[1 + k].bytes = files[k].data
      BY PartsAre
    <2>2. Len(files[k].data) \in Nat
      BY FileBytes
    <2>3. start \in Nat /\ Len(bytes) \in Nat
      <3>1. start \in Nat
        BY MapConstants
      <3> HIDE DEF bytes
      <3> QED
        BY <1>6, <3>1
    <2>4. 1 + k \in 1 .. Len(p)
      BY <1>1, <2>1
    <2>5. p[1 + k].at + Len(p[1 + k].bytes) <= Len(bytes)
      BY <1>6, <2>4 DEF PartAt
    <2> DEFINE x == A[k]
               l == Len(files[k].data)
               b == Len(bytes)
    <2>6. x \in Nat /\ l \in Nat /\ b \in Nat /\ (x - start) + l <= b
      BY <1>3, <2>1, <2>2, <2>3, <2>5
    <2> HIDE DEF x, l, b, start
    <2>7. x <= start + b
      BY <2>3, <2>6
    <2> QED
      BY <2>7 DEF x, b
  <1>9. \A k \in 1 .. N : Is32Bit(A[k])
    <2> HIDE DEF A, bytes, start
    <2> QED
      BY <1>3, <1>7, <1>8, Smaller32Bit
  <1>10. \A k \in 1 .. Cardinality(E) : Is32Bit(pad(k))
    <2>1. 1 \in 1 .. N
      BY <1>1
    <2>2. EndOfTables(E, dev) <= A[1]
      <3> DEFINE base == EndOfTables(E, dev)
      <3>1. DOMAIN files = 1 .. N /\ base \in Nat /\ N \in Nat
        <4>1. DOMAIN files = 1 .. N
          BY FilesOfImage
        <4>2. base \in Nat
          BY TailOfTables
        <4> QED
          BY <1>1, <4>1, <4>2
      <3>2. \A k \in 1 .. N : Len(files[k].data) \in Nat /\ files[k].align \in Nat \ {0}
        BY FileBytes
      <3>3. A = AddressBytes(base, files)
        BY DEF Addresses
      <3> HIDE DEF base, files, A, N
      <3>4. \A k \in 1 .. N : FileAddress(A, base, files, k)
        BY ONLY <3>1, <3>2, <3>3, FileAddresses
      <3> QED
        BY <2>1, <3>4 DEF FileAddress, base
    <2>3. Is32Bit(A[1]) /\ A[1] \in Nat /\ EndOfTables(E, dev) \in Nat
      BY <1>3, <1>9, <2>1, TailOfTables
    <2>4. ASSUME NEW k \in 1 .. Cardinality(E) PROVE Is32Bit(pad(k))
      <3>1. pad(k) \in Nat /\ pad(k) <= EndOfTables(E, dev)
        BY <1>2
      <3> HIDE DEF pad, A
      <3>2. pad(k) <= A[1]
        BY <2>2, <2>3, <3>1
      <3> QED
        BY <2>3, <3>1, <3>2, Smaller32Bit
    <2> QED
      BY <2>4
  <1> QED
    BY <1>9, <1>10

\* Every flash that romparse builds is as the reader expects it.
LEMMA FlashLayout ==
    ASSUME NEW im \in Images, NEW E \in (SUBSET Endians) \ {{}}, NEW dev \in Devices
    PROVE  IsRom(BuildFlash(im, E, dev), im, dev)
  <1> DEFINE N == 1 + Cardinality(E)
             p == Parts(im, E, dev)
             A == Addresses(im, E, dev)
             files == ProgFiles(im, E)
             start == RomStart(dev)
             bytes == Image(p, Filling(dev))
             word(j) == MapWord(im, E, dev, j)
             m == TheMap(im, E, dev)
             rom == BuildFlash(im, E, dev)
  <1>1. N \in {2, 3}
    BY FilesOfImage
  <1>2. /\ \A j \in 1 .. 4 : IsWord(word(j), Bytes)
        /\ \A e \in Endians :
               word(EntryOf(e)) = IF e \in E THEN Bytes32(A[FileOf(E, e)])
                                  ELSE <<255, 255, 255, 255>>
    <2>1. \A k \in 1 .. Cardinality(E) : IsWord(Bytes32(RomStart(dev) + Pads(E, dev)[k].address), Bytes)
      BY AddressesFit, Bytes32Bytes DEF IsWord
    <2>2. \A k \in 1 .. N : IsWord(Bytes32(A[k]), Bytes)
      BY AddressesFit, Bytes32Bytes DEF IsWord
    <2>3. 255 \in Bytes
      BY DEF Bytes
    <2> QED
      BY <2>1, <2>2, <2>3, MapWords
  <1>3. ArePlaced(p, Bytes)
    <2>1. \A v \in Bytes : v \in Bytes
      OBVIOUS
    <2> QED
      BY <1>2, <2>1, PartsPlaced
  <1>4. bytes \in Seq(Bytes) /\ \A k \in 1 .. Len(p) : PartAt(bytes, p, k)
    <2>1. 0 \in Bytes /\ Filling(dev) \in Bytes
      BY DEF Filling, Bytes
    <2> HIDE DEF p
    <2> QED
      BY <1>3, <2>1, ImagePlaces
  <1>5. m \in Seq(Bytes) /\ Len(m) = 20
        /\ \A j \in 1 .. 4 : \A i \in 1 .. 4 : m[4 * j + i] = word(j)[i]
    <2>1. 0 \in Bytes /\ 20 \in Bytes
      BY DEF Bytes
    <2> QED
      BY <1>2, <2>1, MapBytesAre
  <1>6. Len(p) = 1 + N /\ p[1].at = MAP_ADDR /\ p[1].bytes = m
    BY PartsAre
  <1>7. MAP_ADDR \in Nat /\ start \in Nat /\ FILE_ALIGN \in Nat \ {0}
        /\ FILE_ALIGN % BlockSize = 0
    BY MapConstants
  <1>8. MAP_ADDR + 20 <= Len(bytes) /\ \A i \in 1 .. 20 : bytes[MAP_ADDR + i] = m[i]
    <2>1. 1 \in 1 .. Len(p)
      BY <1>1, <1>6
    <2> HIDE DEF p, m, bytes
    <2> QED
      BY ZenonT(60), <1>4, <1>5, <1>6, <2>1 DEF PartAt
  <1> HIDE DEF bytes, m, word, A
  <1>9. ASSUME NEW e \in Endians, NEW i \in 1 .. 4
        PROVE  bytes[Column(e) + i] = word(EntryOf(e))[i]
    <2> DEFINE j == EntryOf(e)
    <2>1. j \in 1 .. 4
      BY DEF EntryOf
    <2>2. Column(e) = MAP_ADDR + 4 * j
      BY DEF Column
    <2> HIDE DEF j
    <2>3. 4 * j + i \in 1 .. 20 /\ Column(e) + i = MAP_ADDR + (4 * j + i)
      BY <1>7, <2>1, <2>2
    <2> QED
      BY ZenonT(60), <1>5, <1>8, <2>1, <2>3 DEF j
  <1>10. rom.start = start /\ rom.bytes = bytes
    BY Building DEF bytes
  <1> HIDE DEF rom, start, files, N, p
  <1>11. ASSUME NEW e \in Endians, e \notin E PROVE HasNoTable(rom, e)
    <2>1. word(EntryOf(e)) = <<255, 255, 255, 255>>
      BY <1>2, <1>11
    <2>2. \A i \in 1 .. 4 : <<255, 255, 255, 255>>[i] = 255
      OBVIOUS
    <2> QED
      BY <1>9, <1>10, <2>1, <2>2 DEF HasNoTable
  <1>12. ASSUME NEW e \in Endians, e \in E PROVE \E at \in Nat : HasTable(rom, im, e, at)
    <2> DEFINE k == FileOf(E, e)
               at == A[k]
               t == Blocks(Table(im, e))
    <2>1. k \in 2 .. N /\ files[k] = TableFile(im, e)
      BY <1>12, FilesOfImage DEF N, files
    <2> HIDE DEF k
    <2>2. k \in 1 .. N /\ 1 + k \in 1 .. Len(p)
      BY <1>1, <1>6, <2>1
    <2>3. files[k].data = t /\ files[k].align = FILE_ALIGN
      BY <2>1 DEF TableFile, File
    <2>4. at \in Nat /\ at % FILE_ALIGN = 0 /\ start + MAP_ADDR + 20 <= at
      <3>1. A[k] \in Nat /\ A[k] % files[k].align = 0 /\ start + MAP_ADDR + 20 <= A[k]
        BY <2>2, AddressesAscend DEF A, N, files, start
      <3> QED
        BY <2>3, <3>1
    <2>5. Is32Bit(at)
      BY <2>2, AddressesFit DEF A, N
    <2>6. p[1 + k].at = at - start /\ p[1 + k].bytes = t
      BY <2>2, <2>3, PartsAre DEF p, N, A, start, files
    <2>7. PartAt(bytes, p, 1 + k)
      BY <1>4, <2>2
    <2>8. /\ at - start + Len(t) <= Len(bytes)
          /\ \A i \in 1 .. Len(t) : bytes[at - start + i] = t[i]
      BY <2>6, <2>7 DEF PartAt
    <2>9. at % BlockSize = 0
      <3>1. BlockSize \in Nat \ {0}
        BY SizesOfBlocks
      <3> HIDE DEF at
      <3> QED
        BY <1>7, <2>4, <3>1, Alignment
    <2>10. word(EntryOf(e)) = Bytes32(at)
      BY <1>2, <1>12 DEF k
    <2> HIDE DEF at, t
    <2>11. start <= at
      BY <1>7, <2>4
    <2>12. HasTable(rom, im, e, at)
      BY <1>9, <1>10, <2>5, <2>8, <2>9, <2>10, <2>11 DEF HasTable, t
    <2> QED
      BY <2>4, <2>12
  <1>13. \A e \in Endians : HasNoTable(rom, e) \/ \E at \in Nat : HasTable(rom, im, e, at)
    BY <1>11, <1>12
  <1> QED
    BY <1>4, <1>8, <1>10, <1>13 DEF IsRom, start, rom

-----------------------------------------------------------------------------
(* Reading the flash.                                                      *)

LEMMA Remainder ==
    ASSUME NEW d \in Nat \ {0}, NEW q \in Int, NEW s \in Nat, s < d, NEW n \in Nat, n = d * q + s
    PROVE  n % d = s
  <1> DEFINE p == n \div d
             m == n % d
  <1>1. p \in Int /\ m \in 0 .. d - 1 /\ n = d * p + m
    OBVIOUS
  <1> HIDE DEF p, m
  <1> DEFINE z == p - q
  <1>2. z \in Int /\ d * z = s - m
    BY <1>1
  <1> HIDE DEF z
  <1>3. z >= 1 => d * z >= d
    BY <1>2
  <1>4. z <= -1 => d * z <= -d
    BY <1>2
  <1>5. z = 0
    BY <1>1, <1>2, <1>3, <1>4
  <1>6. m = s
    BY <1>1, <1>2, <1>5
  <1> QED
    BY <1>6 DEF m

\* A block lies in one EEPROM.
LEMMA WithinDevice ==
    ASSUME NEW c \in Nat \ {0}, NEW d \in Nat \ {0}, d % c = 0, NEW a \in Nat, a % c = 0,
           NEW j \in 0 .. c - 1
    PROVE  (a \div d) * d + ((a + j) % d) = a + j
  <1> DEFINE x == a \div c
             y == d \div c
             q == a \div d
             r == a % d
  <1>1. x \in Nat /\ a = c * x /\ y \in Nat /\ d = c * y
    BY Multiple
  <1>2. q \in Int /\ r \in 0 .. d - 1 /\ a = d * q + r
    OBVIOUS
  <1> HIDE DEF x, y, q, r
  <1> DEFINE z == y - (x - y * q)
  <1>3. z \in Int /\ c * z = d - r
    <2>1. z \in Int
      BY <1>1, <1>2
    <2>2. c * z = c * y - (c * x - (c * y) * q)
      BY <1>1, <1>2
    <2> QED
      BY <1>1, <1>2, <2>1, <2>2
  <1> HIDE DEF z
  <1>4. z <= 0 => c * z <= 0
    BY <1>3
  <1>5. z >= 1
    BY <1>2, <1>3, <1>4
  <1>6. c * z >= c
    BY <1>3, <1>5
  <1>7. r + j \in Nat /\ r + j < d
    BY <1>2, <1>3, <1>6
  <1>8. a + j \in Nat /\ a + j = d * q + (r + j)
    BY <1>2
  <1>9. (a + j) % d = r + j
    BY ONLY <1>2, <1>7, <1>8, Remainder, d \in Nat \ {0}
  <1>10. q * d = d * q
    BY <1>2
  <1> QED
    BY <1>2, <1>9, <1>10 DEF q

LEMMA FlashByteType ==
    ASSUME NEW rom, rom.bytes \in Seq(Bytes), rom.start \in Nat, NEW a \in Int
    PROVE  /\ FlashByte(rom, a) \in Bytes
           /\ \A i \in 1 .. Len(rom.bytes) :
                  a = rom.start + (i - 1) => FlashByte(rom, a) = rom.bytes[i]
  <1> DEFINE b == rom.bytes
             n == Len(b)
             s == rom.start
  <1>1. FlashByte(rom, a) = IF a - s \in 0 .. n - 1 THEN b[a - s + 1] ELSE 255
    BY DEF FlashByte
  <1>2. b \in Seq(Bytes) /\ s \in Nat /\ n \in Nat
    OBVIOUS
  <1>3. \A i \in 1 .. n : b[i] \in Bytes
    BY <1>2
  <1>4. 255 \in Bytes
    BY DEF Bytes
  <1> HIDE DEF b, n, s
  <1>5. ASSUME a - s \in 0 .. n - 1 PROVE a - s + 1 \in 1 .. n
    BY <1>2, <1>5
  <1>6. ASSUME NEW i \in 1 .. n, a = s + (i - 1) PROVE a - s \in 0 .. n - 1 /\ a - s + 1 = i
    BY <1>2, <1>6
  <1>7. FlashByte(rom, a) \in Bytes
    BY <1>1, <1>3, <1>4, <1>5
  <1>8. ASSUME NEW i \in 1 .. n, a = s + (i - 1) PROVE FlashByte(rom, a) = b[i]
    BY <1>1, <1>6, <1>8
  <1> QED
    BY <1>7, <1>8 DEF b, n, s

LEMMA FlashBytesType ==
    ASSUME flash.bytes \in Seq(Bytes), flash.start \in Nat, readAddress \in Int,
           busAddress \in Int, NEW n \in Nat
    PROVE  /\ FlashBytes(n) \in Seq(Bytes) /\ Len(FlashBytes(n)) = n
           /\ DOMAIN FlashBytes(n) = 1 .. n
  <1> DEFINE f(i) == FlashByte(flash, busAddress * DEVICE_BYTES
                                          + ((readAddress + i - 1) % DEVICE_BYTES))
             g(i) == FlashByte(flash, readAddress + i - 1)
             fs == [i \in 1 .. n |-> f(i)]
             gs == [i \in 1 .. n |-> g(i)]
  <1>1. DEVICE_BYTES \in Nat \ {0}
    BY MapConstants
  <1>2. \A i \in 1 .. n : f(i) \in Bytes
    <2>1. ASSUME NEW i \in 1 .. n PROVE f(i) \in Bytes
      <3>1. busAddress * DEVICE_BYTES + ((readAddress + i - 1) % DEVICE_BYTES) \in Int
        BY <1>1
      <3> QED
        BY <3>1, FlashByteType
    <2> QED
      BY <2>1
  <1>3. \A i \in 1 .. n : g(i) \in Bytes
    <2>1. ASSUME NEW i \in 1 .. n PROVE g(i) \in Bytes
      <3>1. readAddress + i - 1 \in Int
        OBVIOUS
      <3> QED
        BY <3>1, FlashByteType
    <2> QED
      BY <2>1
  <1>4. FlashBytes(n) = IF device = "i2c" THEN fs ELSE gs
    BY DEF FlashBytes, hwI2cMasterRead, hwSpiRead
  <1> HIDE DEF f, g
  <1>5. fs \in Seq(Bytes) /\ Len(fs) = n /\ DOMAIN fs = 1 .. n
    BY <1>2
  <1>6. gs \in Seq(Bytes) /\ Len(gs) = n /\ DOMAIN gs = 1 .. n
    BY <1>3
  <1> HIDE DEF fs, gs
  <1> QED
    BY <1>4, <1>5, <1>6

\* One byte with one bit inverted.
Noisy(read, bytes, bits) ==
    \E i \in 1 .. Len(bytes) : \E bit \in bits :
        read[i] = Inverted(bytes[i], bit) /\ \A j \in (1 .. Len(bytes)) \ {i} : read[j] = bytes[j]

LEMMA ReadingsAre ==
    ASSUME NEW n \in Nat, FlashBytes(n) \in Seq(Bytes), Len(FlashBytes(n)) = n,
           DOMAIN FlashBytes(n) = 1 .. n,
           NEW bits, \A bit \in bits : bit \in {2^k : k \in 0 .. 7}, NEW read \in Readings(n, bits)
    PROVE  /\ read \in Seq(Bytes) /\ Len(read) = n
           /\ \/ read = FlashBytes(n)
              \/ faults < MaxFaults /\ Noisy(read, FlashBytes(n), bits)
  <1> DEFINE b == FlashBytes(n)
  <1>1. b \in Seq(Bytes) /\ Len(b) = n /\ DOMAIN b = 1 .. n
    OBVIOUS
  <1>2. read = b \/ (faults < MaxFaults /\ read \in WithNoise(b, bits))
    BY DEF Readings
  <1> HIDE DEF b
  <1>3. CASE read = b
    BY <1>1, <1>3 DEF b
  <1>4. CASE faults < MaxFaults /\ read \in WithNoise(b, bits)
    <2>1. PICK i \in 1 .. n, bit \in bits : read = [b EXCEPT ![i] = Inverted(@, bit)]
      BY <1>1, <1>4 DEF WithNoise
    <2>2. b[i] \in Bytes
      BY <1>1
    <2>3. Inverted(b[i], bit) \in Bytes
      BY <2>2, InvertedByte
    <2> DEFINE v == Inverted(b[i], bit)
    <2>4. read = [b EXCEPT ![i] = v]
      BY <2>1
    <2> HIDE DEF v
    <2>5. /\ read \in Seq(Bytes) /\ Len(read) = n /\ read[i] = v
          /\ \A j \in (1 .. n) \ {i} : read[j] = b[j]
      BY <1>1, <2>3, <2>4 DEF v
    <2>6. Noisy(read, b, bits)
      BY <1>1, <2>5 DEF Noisy, v
    <2> QED
      BY <1>4, <2>5, <2>6 DEF b
  <1> QED
    BY <1>2, <1>3, <1>4

LEMMA StoredBytes ==
    ASSUME iData \in [1 .. I_MAX_BLOCK_SIZE -> Bytes], NEW bytes \in Seq(Bytes)
    PROVE  /\ Stored(bytes) \in [1 .. I_MAX_BLOCK_SIZE -> Bytes]
           /\ Len(bytes) <= I_MAX_BLOCK_SIZE =>
                  \A i \in 1 .. Len(bytes) : Stored(bytes)[i] = bytes[i]
  <1>1. DOMAIN iData = 1 .. I_MAX_BLOCK_SIZE /\ DOMAIN bytes = 1 .. Len(bytes)
    OBVIOUS
  <1>2. Stored(bytes) = [i \in 1 .. I_MAX_BLOCK_SIZE |->
                             IF i \in 1 .. Len(bytes) THEN bytes[i] ELSE iData[i]]
    BY <1>1 DEF Stored
  <1>3. I_MAX_BLOCK_SIZE \in Nat /\ Len(bytes) \in Nat
    BY SizesOfBlocks
  <1> QED
    BY <1>2, <1>3

LEMMA MapTableIs ==
    ASSUME NEW im, IsRom(flash, im, device), device = "i2c" \/ device = "spi"
    PROVE  /\ MapTable \in Seq(Bytes) /\ Len(MapTable) = 20
           /\ \A i \in 1 .. 20 : MapTable[i] = flash.bytes[MAP_ADDR + i]
  <1> DEFINE f(i) == FlashByte(flash, I2C_BUS_ADDR * DEVICE_BYTES
                                          + ((MAP_ADDR + i - 1) % DEVICE_BYTES))
             g(i) == FlashByte(flash, MAP_ADDR + i - 1)
             fs == [i \in 1 .. 20 |-> f(i)]
             gs == [i \in 1 .. 20 |-> g(i)]
             b == flash.bytes
  <1>1. b \in Seq(Bytes) /\ flash.start = RomStart(device) /\ MAP_ADDR + 20 <= Len(b)
    BY DEF IsRom
  <1>2. /\ MAP_ADDR \in Nat /\ DEVICE_BYTES \in Nat \ {0} /\ I2C_BUS_ADDR \in Nat
        /\ MAP_ADDR + 20 <= DEVICE_BYTES /\ flash.start \in Nat
    BY <1>1, MapConstants
  <1>3. MapTable = IF device = "i2c" THEN fs ELSE gs
    BY DEF MapTable, hwI2cMasterRead, hwSpiRead, MapBytes
  <1>4. ASSUME NEW i \in 1 .. 20
        PROVE  /\ MAP_ADDR + i \in 1 .. Len(b) /\ b[MAP_ADDR + i] \in Bytes
               /\ device = "i2c" => f(i) = b[MAP_ADDR + i]
               /\ device = "spi" => g(i) = b[MAP_ADDR + i]
    <2>1. MAP_ADDR + i \in 1 .. Len(b)
      BY <1>1, <1>2
    <2>2. b[MAP_ADDR + i] \in Bytes
      BY <1>1, <2>1
    <2>3. ASSUME device = "i2c" PROVE f(i) = b[MAP_ADDR + i]
      <3> DEFINE a == I2C_BUS_ADDR * DEVICE_BYTES + ((MAP_ADDR + i - 1) % DEVICE_BYTES)
      <3>1. flash.start = I2C_BUS_ADDR * DEVICE_BYTES
        BY <1>1, <2>3 DEF RomStart
      <3>2. (MAP_ADDR + i - 1) % DEVICE_BYTES = MAP_ADDR + i - 1
        <4> DEFINE m == MAP_ADDR + i - 1
        <4>1. m \in Nat /\ m < DEVICE_BYTES /\ m = DEVICE_BYTES * 0 + m
          BY <1>2
        <4> HIDE DEF m
        <4>2. DEVICE_BYTES \in Nat \ {0} /\ 0 \in Int
          BY <1>2
        <4>3. m % DEVICE_BYTES = m
          BY ONLY <4>1, <4>2, Remainder
        <4> QED
          BY <4>3 DEF m
      <3>3. a = flash.start + (MAP_ADDR + i - 1) /\ a \in Int
        BY <1>2, <3>1, <3>2
      <3> HIDE DEF a, b
      <3>4. FlashByte(flash, a) = b[MAP_ADDR + i]
        <4>1. a = flash.start + ((MAP_ADDR + i) - 1)
          BY <1>2, <3>3
        <4> QED
          BY <1>1, <1>2, <2>1, <3>3, <4>1, FlashByteType DEF b
      <3> QED
        BY <3>4 DEF a
    <2>4. ASSUME device = "spi" PROVE g(i) = b[MAP_ADDR + i]
      <3>1. flash.start = 0
        BY <1>1, <1>2, <2>4 DEF RomStart
      <3> DEFINE a == MAP_ADDR + i - 1
      <3>2. a \in Int /\ a = flash.start + ((MAP_ADDR + i) - 1)
        BY <1>2, <3>1
      <3> HIDE DEF a, b
      <3>3. FlashByte(flash, a) = b[MAP_ADDR + i]
        BY <1>1, <1>2, <2>1, <3>2, FlashByteType DEF b
      <3> QED
        BY <3>3 DEF a
    <2> QED
      BY <2>1, <2>2, <2>3, <2>4
  <1> HIDE DEF f, g, b
  <1>5. ASSUME device = "i2c" PROVE MapTable = [i \in 1 .. 20 |-> b[MAP_ADDR + i]]
    BY <1>3, <1>4, <1>5
  <1>6. ASSUME device = "spi" PROVE MapTable = [i \in 1 .. 20 |-> b[MAP_ADDR + i]]
    BY <1>3, <1>4, <1>6
  <1>7. MapTable = [i \in 1 .. 20 |-> b[MAP_ADDR + i]]
    BY <1>5, <1>6
  <1>8. \A i \in 1 .. 20 : b[MAP_ADDR + i] \in Bytes
    BY <1>4
  <1> HIDE DEF fs, gs
  <1> QED
    BY <1>7, <1>8 DEF b

LEMMA Element ==
    ASSUME NEW V, NEW s \in Seq(V), NEW i \in 1 .. Len(s)
    PROVE  s[i] \in V
  OBVIOUS

LEMMA EvenWord ==
    ASSUME NEW v \in Nat, v % 2 = 0, NEW a \in Bytes, NEW b \in Bytes, Word16(a, b) = v % 2^16
    PROVE  b # 255
  <1>1. 2^8 * a + b = v % 2^16 /\ 2^8 = 256 /\ 2^16 = 65536
    BY SMT DEF Word16
  <1>2. 256 * a + b = v % 65536
    BY <1>1, SMT
  <1>3. (256 * a + b) % 2 = 0
    BY <1>2, SMT
  <1>4. a \in Nat /\ b \in Nat
    BY DEF Bytes
  <1> QED
    BY <1>3, <1>4, SMT

\* The map gives the address of the table for the endianness of the device, or
\* none.
LEMMA TableAddressIs ==
    ASSUME NEW im, IsRom(flash, im, device), device = "i2c" \/ device = "spi",
           endian \in Endians
    PROVE  \/ TableAddress = NoAddress
           \/ TableAddress \in Nat /\ HasTable(flash, im, endian, TableAddress)
  <1> DEFINE col == 4 * EntryOf(endian)
             bytes == SubSeq(MapTable, col + 1, col + 4)
             none == <<255, 255, 255, 255>>
  <1>1. /\ MapTable \in Seq(Bytes) /\ Len(MapTable) = 20
        /\ \A i \in 1 .. 20 : MapTable[i] = flash.bytes[MAP_ADDR + i]
    BY MapTableIs
  <1>2. col = (IF endian = "little" THEN 4 ELSE 12)
    BY DEF EntryOf
  <1>3. TableAddress = IF bytes = none THEN NoAddress
                       ELSE Word32(Word16(bytes[1], bytes[2]), Word16(bytes[3], bytes[4]))
    BY ZenonT(60), <1>2 DEF TableAddress
  <1>4. col \in {4, 12}
    BY <1>2
  <1>5. /\ bytes \in Seq(Bytes) /\ Len(bytes) = 4
        /\ \A i \in 1 .. 4 : bytes[i] = MapTable[col + i]
    <2> HIDE DEF col
    <2> DEFINE lo == col + 1
               hi == col + 4
    <2>1. lo \in 1 .. Len(MapTable) + 1 /\ hi \in lo - 1 .. Len(MapTable) /\ (hi - lo) + 1 = 4
      BY SMTT(30), <1>1, <1>4
    <2>2. MapTable \in Seq(Bytes)
      BY <1>1
    <2> HIDE DEF lo, hi
    <2>3. /\ SubSeq(MapTable, lo, hi) \in Seq(Bytes) /\ Len(SubSeq(MapTable, lo, hi)) = (hi - lo) + 1
          /\ \A i \in 1 .. (hi - lo) + 1 : SubSeq(MapTable, lo, hi)[i] = MapTable[(lo + i) - 1]
      BY ONLY <2>1, <2>2, Part
    <2>4. \A i \in 1 .. 4 : (lo + i) - 1 = col + i
      BY <1>4 DEF lo
    <2>5. bytes = SubSeq(MapTable, lo, hi)
      BY DEF lo, hi
    <2> HIDE DEF bytes
    <2> QED
      BY <2>1, <2>3, <2>4, <2>5
  <1>6. Column(endian) = MAP_ADDR + col /\ MAP_ADDR \in Nat
    BY MapConstants DEF Column
  <1> HIDE DEF col, bytes
  <1>7. ASSUME NEW i \in 1 .. 4 PROVE bytes[i] = flash.bytes[Column(endian) + i]
    <2>1. col + i \in 1 .. 20 /\ MAP_ADDR + (col + i) = Column(endian) + i
      BY <1>4, <1>6
    <2> QED
      BY <1>1, <1>5, <2>1
  <1>8. 1 \in 1 .. 4 /\ 2 \in 1 .. 4 /\ 3 \in 1 .. 4 /\ 4 \in 1 .. 4
    OBVIOUS
  <1>9. CASE HasNoTable(flash, endian)
    <2>1. \A i \in 1 .. 4 : bytes[i] = 255
      BY <1>7, <1>9 DEF HasNoTable
    <2>2. none \in Seq(Bytes) /\ Len(none) = 4 /\ \A i \in 1 .. 4 : none[i] = 255
      BY DEF Bytes
    <2> HIDE DEF none
    <2>3. bytes = none
      BY <1>5, <2>1, <2>2
    <2> QED
      BY <1>3, <2>3
  <1>10. ASSUME NEW at \in Nat, HasTable(flash, im, endian, at)
         PROVE  TableAddress = at
    <2>1. Is32Bit(at) /\ at % BlockSize = 0
      BY <1>10 DEF HasTable
    <2>2. \A i \in 1 .. 4 : bytes[i] = Bytes32(at)[i]
      BY <1>7, <1>10 DEF HasTable
    <2>3. /\ Word16(bytes[1], bytes[2]) = at \div 2^16
          /\ Word16(bytes[3], bytes[4]) = at % 2^16
      BY <1>8, <2>1, <2>2, Bytes32Bytes
    <2>4. at % 2 = 0
      <3>1. BlockSize \in Nat \ {0} /\ BlockSize % 2 = 0 /\ 2 \in Nat \ {0}
        BY SizesOfBlocks
      <3> QED
        BY ONLY <2>1, <3>1, Alignment, at \in Nat
    <2>5. bytes[4] # 255
      <3>1. bytes[3] \in Bytes /\ bytes[4] \in Bytes
        <4>1. bytes \in Seq(Bytes) /\ Len(bytes) = 4
          BY <1>5
        <4>2. 3 \in 1 .. Len(bytes) /\ 4 \in 1 .. Len(bytes)
          BY <4>1
        <4>3. bytes \in Seq(Bytes)
          BY <4>1
        <4> QED
          BY ONLY <4>2, <4>3, Element
      <3> QED
        BY <2>3, <2>4, <3>1, EvenWord
    <2>6. bytes # none
      <3>1. none[4] = 255
        OBVIOUS
      <3> QED
        BY <2>5, <3>1
    <2>7. Word32(at \div 2^16, at % 2^16) = at
      BY <2>1, Halves
    <2> QED
      BY <1>3, <2>3, <2>6, <2>7
  <1>11. HasNoTable(flash, endian) \/ \E at \in Nat : HasTable(flash, im, endian, at)
    BY DEF IsRom
  <1> QED
    BY <1>9, <1>10, <1>11

\* What is read of block k, counted from 0.
LEMMA BlockRead ==
    ASSUME NEW im \in Images, IsRom(flash, im, device), device = "i2c" \/ device = "spi",
           NEW at \in Nat, HasTable(flash, im, endian, at),
           NEW k \in Nat, k < BlockCount(Table(im, endian)),
           readAddress = at + BlockSize * k, busAddress = Bus(readAddress),
           NEW n \in Nat, n <= Len(Block(Chunk(Table(im, endian), k + 1)))
    PROVE  \A i \in 1 .. n : FlashBytes(n)[i] = Block(Chunk(Table(im, endian), k + 1))[i]
  <1> DEFINE t == Table(im, endian)
             block == Block(Chunk(t, k + 1))
             file == Blocks(t)
             b == flash.bytes
             off == BlockSize * k
  <1>1. t \in Seq(Bytes) /\ Len(t) % 2 = 0
    BY TableBytes, StartsAligned
  <1>2. BlockCount(t) \in Nat
    <2>1. Len(t) + BLOCK_DATA - 1 \in Nat /\ BLOCK_DATA \in Nat \ {0}
      <3>1. Len(t) \in Nat
        BY <1>1
      <3> HIDE DEF t
      <3> QED
        BY <3>1, SizesOfBlocks
    <2> QED
      BY <2>1, Dividing DEF BlockCount
  <1>3. k + 1 \in 1 .. BlockCount(t)
    BY <1>2
  <1>4. /\ file \in Seq(Bytes) /\ Len(block) \in Nat /\ Len(block) <= BlockSize
        /\ \A i \in 1 .. Len(block) : /\ BlockSize * ((k + 1) - 1) + i \in 1 .. Len(file)
                                      /\ file[BlockSize * ((k + 1) - 1) + i] = block[i]
    <2>1. file \in Seq(Bytes)
      BY <1>1, BlocksBytes
    <2>2. Len(block) = Len(Chunk(t, k + 1)) + HeaderBytes
          /\ Len(Chunk(t, k + 1)) + HeaderBytes \in 5 .. BlockSize
      BY <1>1, <1>3, ChunkBlock
    <2>3. \A i \in 1 .. Len(block) : /\ BlockSize * ((k + 1) - 1) + i \in 1 .. Len(file)
                                     /\ file[BlockSize * ((k + 1) - 1) + i] = block[i]
      BY <1>1, <1>3, BlocksBytes
    <2>4. BlockSize \in Nat
      BY SizesOfBlocks
    <2> HIDE DEF block, file, t
    <2> QED
      BY <2>1, <2>2, <2>3, <2>4
  <1>5. BlockSize \in Nat \ {0} /\ off \in Nat /\ BlockSize * ((k + 1) - 1) = off
    BY SizesOfBlocks
  <1>6. /\ at % BlockSize = 0 /\ flash.start <= at
        /\ at - flash.start + Len(file) <= Len(b)
        /\ \A i \in 1 .. Len(file) : b[at - flash.start + i] = file[i]
    BY DEF HasTable
  <1>7. b \in Seq(Bytes) /\ flash.start \in Nat
    BY MapConstants DEF IsRom
  <1>8. readAddress % BlockSize = 0 /\ readAddress \in Nat /\ readAddress = at + off
    <2>1. at = BlockSize * (at \div BlockSize) /\ at \div BlockSize \in Nat
      BY <1>5, <1>6, Multiple
    <2> DEFINE x == at \div BlockSize
    <2> HIDE DEF x
    <2>2. x \in Nat /\ at = BlockSize * x
      BY <2>1 DEF x
    <2>3. readAddress = BlockSize * (x + k) /\ x + k \in Nat
      BY <1>5, <2>2
    <2> QED
      BY SMTT(30), <1>5, <2>3, Multiples
  <1> HIDE DEF off, file, block, b, t
  <1>9. ASSUME NEW i \in 1 .. n
        PROVE  /\ readAddress + i - 1 \in Int
               /\ FlashByte(flash, readAddress + i - 1) = block[i]
               /\ busAddress * DEVICE_BYTES + ((readAddress + i - 1) % DEVICE_BYTES)
                      = readAddress + i - 1
    <2>1. i \in 1 .. Len(block) /\ i - 1 \in 0 .. BlockSize - 1
      BY SMTT(30), <1>4, <1>5 DEF block, t
    <2>2. off + i \in 1 .. Len(file) /\ file[off + i] = block[i]
      BY <1>4, <1>5, <2>1
    <2> DEFINE j == at - flash.start + (off + i)
               a == readAddress + i - 1
    <2>3. Len(file) \in Nat /\ Len(b) \in Nat
      BY <1>4, <1>7
    <2>4. b[j] = block[i]
      BY <1>6, <2>2
    <2>5. j \in 1 .. Len(b) /\ a \in Int /\ a = flash.start + (j - 1)
      <3> DEFINE s == flash.start
                 r == readAddress
                 l == Len(b)
                 m == Len(file)
      <3>1. /\ s \in Nat /\ s <= at /\ (at - s) + m <= l /\ m \in Nat /\ l \in Nat
            /\ r \in Nat /\ r = at + off
        BY <1>6, <1>7, <1>8, <2>3
      <3>2. off + i \in 1 .. m
        BY <2>2
      <3> HIDE DEF s, r, l, m
      <3>3. (at - s) + (off + i) \in 1 .. l
        BY <1>5, <3>1, <3>2
      <3>4. r + i - 1 \in Int /\ r + i - 1 = s + (((at - s) + (off + i)) - 1)
        BY <1>5, <3>1
      <3> QED
        BY <3>3, <3>4 DEF s, r, l
    <2> HIDE DEF j
    <2>6. FlashByte(flash, a) = b[j]
      <3> HIDE DEF a
      <3> QED
        BY <1>7, <2>5, FlashByteType DEF b
    <2>7. busAddress * DEVICE_BYTES + ((readAddress + i - 1) % DEVICE_BYTES)
              = readAddress + i - 1
      <3>1. DEVICE_BYTES \in Nat \ {0} /\ DEVICE_BYTES % BlockSize = 0
        <4>1. /\ DEVICE_BYTES \in Nat \ {0} /\ FILE_ALIGN \in Nat \ {0}
              /\ FILE_ALIGN % BlockSize = 0 /\ DEVICE_BYTES % FILE_ALIGN = 0
          BY MapConstants
        <4>2. DEVICE_BYTES \in Nat
          BY <4>1
        <4> QED
          BY ONLY <1>5, <4>1, <4>2, Alignment
      <3> DEFINE r == readAddress
                 l == i - 1
      <3>2. r \in Nat /\ r % BlockSize = 0 /\ l \in 0 .. BlockSize - 1
        BY <1>8, <2>1
      <3>3. r + l = readAddress + i - 1 /\ busAddress = r \div DEVICE_BYTES
        BY <1>8 DEF Bus
      <3> HIDE DEF r, l
      <3>4. (r \div DEVICE_BYTES) * DEVICE_BYTES + ((r + l) % DEVICE_BYTES) = r + l
        BY ONLY <1>5, <3>1, <3>2, WithinDevice
      <3> QED
        BY <3>3, <3>4
    <2> QED
      BY <2>4, <2>5, <2>6, <2>7
  <1>10. ASSUME NEW i \in 1 .. n PROVE FlashBytes(n)[i] = block[i]
    <2>1. FlashBytes(n)[i] =
              IF device = "i2c"
              THEN FlashByte(flash, busAddress * DEVICE_BYTES
                                        + ((readAddress + i - 1) % DEVICE_BYTES))
              ELSE FlashByte(flash, readAddress + i - 1)
      BY DEF FlashBytes, hwI2cMasterRead, hwSpiRead
    <2> QED
      BY <1>9, <2>1
  <1> QED
    BY <1>10 DEF block, t

-----------------------------------------------------------------------------
(* The invariant.                                                          *)

BootStates == {"INIT", "SIZE", "ADDR", "DATA", "PAD", "FLUSH"}

Instances ==
    [state : BootStates, f_wait_lsw : BOOLEAN, code_start_addr : Nat,
     section_size_bytes : Nat, section_addr : Nat, p_data : Nat \ {0}, data_size_uint16 : Nat]

Wrappers == [readSize : Nat, blockSize : 0 .. TI_BTBL_BLOCK_SIZE, data : Seq(Bytes)]

Starting == {"main", "map", "config", "boot", "failed"}
Reading == {"read", "take", "header", "block"}
Running == {"pull", "process", "entered"} \cup Reading

\* What the processor is given lies within what it asked for.
Shared ==
    /\ pc \in Reading \cup {"process"} => wrap.blockSize <= wrap.readSize
    /\ Len(wrap.data) <= wrap.blockSize
    /\ pc \in {"take", "header", "block"} => Len(wrap.data) < wrap.blockSize
    /\ pc = "process" => Len(wrap.data) = wrap.blockSize
    /\ pc = "process" /\ inst.data_size_uint16 # 0 =>
           inst.p_data + inst.data_size_uint16 = Len(PulledWords) + 1

Hardware ==
    /\ image \in Images /\ device \in Devices /\ endian \in Endians
    /\ IsRom(flash, image, device)

AddressesTyped ==
    /\ readAddress \in Nat \cup {NoAddress} /\ busAddress \in Int
    /\ pc \in Running \cup {"boot"} => readAddress \in Nat
    /\ pc \in Running \cup {"map", "config", "boot"} => device # "other"

FifoTyped ==
    /\ iFifoIn \in 0 .. I_MAX_BLOCK_SIZE
    /\ iFifoOut \in 0 .. I_MAX_BLOCK_SIZE - 1
    /\ iData \in [1 .. I_MAX_BLOCK_SIZE -> Bytes]
    /\ len \in Word
    /\ pc = "block" => len <= I_MAX_BLOCK_SIZE

LoaderTyped ==
    /\ inst \in Instances /\ inst.data_size_uint16 <= TI_BTBL_BLOCK_SIZE
    /\ wrap \in Wrappers
    /\ DOMAIN memory = 0 .. MemoryLen - 1
    /\ Shared

CountsTyped == faults \in 0 .. MaxFaults /\ delivered \in Nat

Typed ==
    /\ Hardware /\ pc \in Starting \cup Running
    /\ AddressesTyped /\ FifoTyped /\ LoaderTyped /\ CountsTyped

\* Nothing has been read before the map and the configuration are.
Fresh ==
    /\ iFifoIn = 0 /\ iFifoOut = 0 /\ delivered = 0
    /\ inst = BootTblStart
    /\ wrap = [readSize |-> 0, blockSize |-> 0, data |-> << >>]
    /\ memory = [a \in 0 .. MemoryLen - 1 |-> Untouched]

AtTable(at) == HasTable(flash, image, endian, at)

\* Block nb is the last one that was read; some of its bytes may still be in
\* the fifo.
Drained(t, nb, in, out, pulled) ==
    in = 0 /\ out = 0 /\ pulled = (IF nb = 0 THEN 0 ELSE ChunkEnd(t, nb))

Waiting(t, nb, in, out, buffer, pulled) ==
    /\ nb # 0 /\ HeaderBytes <= out /\ out < in
    /\ pulled + (in - out) = ChunkEnd(t, nb)
    /\ \A j \in 1 .. in - out : buffer[out + j] = t[pulled + j]

Buffered(t, nb, in, out, buffer, pulled) ==
    Drained(t, nb, in, out, pulled) \/ Waiting(t, nb, in, out, buffer, pulled)

Positioned(t, nb, at, address, bus) ==
    nb < BlockCount(t) => address = at + BlockSize * nb /\ bus = Bus(address)

StreamedAt(at, nb) ==
    /\ AtTable(at)
    /\ Positioned(BootTable, nb, at, readAddress, busAddress)
    /\ Buffered(BootTable, nb, iFifoIn, iFifoOut, iData, delivered)
    /\ pc \in {"header", "block"} => iFifoIn = 0
    /\ pc = "take" => iFifoIn # 0
    /\ pc = "block" => nb < BlockCount(BootTable)
                       /\ len = Len(Block(Chunk(BootTable, nb + 1)))

Streamed == \E at \in Nat : \E nb \in 0 .. BlockCount(BootTable) : StreamedAt(at, nb)

\* Where the next word of the table is taken from, and how much of what was
\* asked for follows.
Position ==
    CASE pc = "process" -> delivered - 2 * inst.data_size_uint16
      [] pc \in Reading -> delivered - Len(wrap.data)
      [] OTHER -> delivered

Left ==
    IF pc = "process"
    THEN wrap.readSize - wrap.blockSize + 2 * inst.data_size_uint16
    ELSE wrap.readSize

\* The byte that the program has at an address.
ImageByte(im, a) ==
    LET s == im.sections[CHOOSE k \in DOMAIN im.sections : Covers(im.sections[k], a)]
    IN s.data[a - s.addr + 1]

\* The first k sections are in memory, and so many bytes of the next.
InPlace(im, k, done, a) ==
    \/ \E j \in 1 .. k : Covers(im.sections[j], a)
    \/ k < Len(im.sections) /\ im.sections[k + 1].addr <= a /\ a < im.sections[k + 1].addr + done

Filled(im, k, done, mem) ==
    mem = [a \in 0 .. MemoryLen - 1 |->
              IF InPlace(im, k, done, a) THEN ImageByte(im, a) ELSE Untouched]

\* A control word is due at p, or its lower half is.
Control(i, p, at, left) ==
    IF i.f_wait_lsw THEN at = p + 2 /\ left = 2 ELSE at = p /\ left \in {0, 4}

UpperOf(i, v, field) == i.f_wait_lsw => field = Word32(v \div 2^16, 0)

InSize(im, e, i, at, left, k) ==
    /\ Control(i, Start(im, e, k), at, left)
    /\ UpperOf(i, IF k < Len(im.sections) THEN Len(im.sections[k + 1].data) ELSE 0,
               i.section_size_bytes)

InAddr(im, e, i, at, left, k) ==
    /\ k < Len(im.sections)
    /\ Control(i, Start(im, e, k) + 4, at, left)
    /\ UpperOf(i, im.sections[k + 1].addr, i.section_addr)
    /\ i.section_size_bytes = Len(im.sections[k + 1].data)

InData(im, e, i, at, left, k, done) ==
    LET s == im.sections[k + 1]
    IN /\ k < Len(im.sections) /\ ~ i.f_wait_lsw
       /\ done < Len(s.data) /\ done % 4 = 0
       /\ at = Start(im, e, k) + 8 + done
       /\ i.section_addr = s.addr + done
       /\ i.section_size_bytes = Len(s.data) - done
       /\ left \in {0, Len(s.data) - done}

InPad(im, e, i, at, left, k) ==
    /\ k > 0 /\ ~ i.f_wait_lsw
    /\ at = Start(im, e, k) - 2
    /\ i.section_size_bytes = 2
    /\ left \in {0, 2}

InFlush(im, e, i, at, left, k) ==
    /\ k = Len(im.sections)
    /\ at + left = Len(Table(im, e))
    /\ left = 2 * i.data_size_uint16

\* The first k sections have been copied, and so many bytes of the next.
Parsed(im, e, i, at, left, k, done, mem) ==
    /\ i.state # "INIT" => i.code_start_addr = im.entry
    /\ i.state # "DATA" => done = 0
    /\ i.state = "INIT" => /\ k = 0 /\ Control(i, 0, at, left)
                           /\ UpperOf(i, im.entry, i.code_start_addr)
    /\ i.state = "SIZE" => InSize(im, e, i, at, left, k)
    /\ i.state = "ADDR" => InAddr(im, e, i, at, left, k)
    /\ i.state = "DATA" => InData(im, e, i, at, left, k, done)
    /\ i.state = "PAD" => InPad(im, e, i, at, left, k)
    /\ i.state = "FLUSH" => InFlush(im, e, i, at, left, k)
    /\ Filled(im, k, done, mem)

\* The processor has come to somewhere in the table.
Continued(im, e, i, at, left, mem) ==
    \E k \in 0 .. Len(im.sections) : \E done \in 0 .. MemoryLen :
        Parsed(im, e, i, at, left, k, done, mem)

Followed == Continued(image, endian, inst, Position, Left, memory)

\* The processor is given whole words, and of the data whole elements unless
\* it is the rest.
Aligned ==
    /\ wrap.readSize % 2 = 0 /\ wrap.blockSize % 2 = 0
    /\ pc \in Reading \cup {"process"} =>
           wrap.blockSize = wrap.readSize \/ wrap.blockSize % 4 = 0
    /\ pc # "process" => inst.data_size_uint16 = 0
    /\ pc = "process" /\ inst.state = "DATA" /\ inst.data_size_uint16 # 0 =>
           \/ 2 * inst.data_size_uint16 = Left
           \/ (2 * inst.data_size_uint16) % 4 = 0

InOrder == BytesInOrder /\ Len(wrap.data) <= delivered /\ delivered <= Len(BootTable)

Progress ==
    /\ Aligned /\ InOrder /\ Followed
    /\ pc = "entered" => inst.state = "FLUSH" /\ wrap.readSize = 0 /\ entry = image.entry

BootInv ==
    /\ Typed
    /\ pc \in Starting => Fresh
    /\ pc = "config" => readAddress = NoAddress \/ AtTable(readAddress)
    /\ pc = "boot" => AtTable(readAddress)
    /\ pc \in {"config", "boot"} => busAddress = Bus(readAddress)
    /\ pc \in Running => Streamed /\ Progress

-----------------------------------------------------------------------------
(* One turn of the processor.                                              *)

\* What an instance holds.
Holds(o, s, w, c, z, a, p, d) ==
    /\ o.state = s /\ o.f_wait_lsw = w /\ o.code_start_addr = c
    /\ o.section_size_bytes = z /\ o.section_addr = a
    /\ o.p_data = p /\ o.data_size_uint16 = d

LEMMA InitTurn ==
    ASSUME NEW i \in Instances, NEW words, i.state = "INIT"
    PROVE  LET w == words[i.p_data]
               o == BootTblStep(i, words)
           IN /\ ~ i.f_wait_lsw =>
                     Holds(o, "INIT", TRUE, Word32(w, 0), i.section_size_bytes, i.section_addr,
                           i.p_data + 1, i.data_size_uint16 - 1)
              /\ i.f_wait_lsw =>
                     Holds(o, "SIZE", FALSE, i.code_start_addr + w, i.section_size_bytes,
                           i.section_addr, i.p_data + 1, i.data_size_uint16 - 1)
  BY DEF BootTblStep, boot_proc_boot_tbl_init, ControlWord, UpperHalf, LowerHalf, Consumed,
         Instances, Holds

LEMMA SizeTurn ==
    ASSUME NEW i \in Instances, NEW words, i.state = "SIZE"
    PROVE  LET w == words[i.p_data]
               o == BootTblStep(i, words)
           IN /\ ~ i.f_wait_lsw =>
                     Holds(o, "SIZE", TRUE, i.code_start_addr, Word32(w, 0), i.section_addr,
                           i.p_data + 1, i.data_size_uint16 - 1)
              /\ i.f_wait_lsw /\ i.section_size_bytes + w # 0 =>
                     Holds(o, "ADDR", FALSE, i.code_start_addr, i.section_size_bytes + w,
                           i.section_addr, i.p_data + 1, i.data_size_uint16 - 1)
              /\ i.f_wait_lsw /\ i.section_size_bytes + w = 0 =>
                     Holds(o, "FLUSH", FALSE, i.code_start_addr, i.section_size_bytes,
                           i.section_addr, i.p_data, i.data_size_uint16)
  BY DEF BootTblStep, boot_proc_boot_tbl_size, ControlWord, UpperHalf, LowerHalf, Consumed,
         Instances, Holds

LEMMA AddrTurn ==
    ASSUME NEW i \in Instances, NEW words, i.state = "ADDR"
    PROVE  LET w == words[i.p_data]
               o == BootTblStep(i, words)
           IN /\ ~ i.f_wait_lsw =>
                     Holds(o, "ADDR", TRUE, i.code_start_addr, i.section_size_bytes,
                           Word32(w, 0), i.p_data + 1, i.data_size_uint16 - 1)
              /\ i.f_wait_lsw =>
                     Holds(o, "DATA", FALSE, i.code_start_addr, i.section_size_bytes,
                           i.section_addr + w, i.p_data + 1, i.data_size_uint16 - 1)
  BY DEF BootTblStep, boot_proc_boot_tbl_addr, ControlWord, UpperHalf, LowerHalf, Consumed,
         Instances, Holds

\* n bytes, m words of the section or of its padding are at hand.
LEMMA DataTurn ==
    ASSUME NEW i \in Instances, NEW words, i.state = "DATA",
           NEW n, n = BytesAtHand(i), NEW m, m = CHIP_BYTES_TO_UINT16(n)
    PROVE  LET z == i.section_size_bytes
               o == BootTblStep(i, words)
           IN /\ z - n # 0 =>
                     Holds(o, "DATA", i.f_wait_lsw, i.code_start_addr, z - n,
                           i.section_addr + n, i.p_data + m, i.data_size_uint16 - m)
              /\ z - n = 0 /\ PadWords(m) = 0 =>
                     Holds(o, "SIZE", i.f_wait_lsw, i.code_start_addr, z - n,
                           i.section_addr + n, i.p_data + m, i.data_size_uint16 - m)
              /\ z - n = 0 /\ PadWords(m) # 0 =>
                     Holds(o, "PAD", i.f_wait_lsw, i.code_start_addr, 2 * PadWords(m),
                           i.section_addr + n, i.p_data + m, i.data_size_uint16 - m)
  BY DEF BootTblStep, boot_proc_boot_tbl_data, Advanced, Consumed, CHIP_UINT16_TO_BYTES,
         Instances, Holds

LEMMA PadTurn ==
    ASSUME NEW i \in Instances, NEW words, i.state = "PAD",
           NEW n, n = BytesAtHand(i), NEW m, m = CHIP_BYTES_TO_UINT16(n)
    PROVE  LET z == i.section_size_bytes
           IN Holds(BootTblStep(i, words), IF z - n = 0 THEN "SIZE" ELSE "PAD", i.f_wait_lsw,
                    i.code_start_addr, z - n, i.section_addr + n, i.p_data + m,
                    i.data_size_uint16 - m)
  BY DEF BootTblStep, boot_proc_boot_tbl_pad, Advanced, Consumed, Instances, Holds

LEMMA FlushTurn ==
    ASSUME NEW i \in Instances, NEW words, i.state = "FLUSH"
    PROVE  Holds(BootTblStep(i, words), "FLUSH", i.f_wait_lsw, i.code_start_addr,
                 i.section_size_bytes, i.section_addr, i.p_data, 0)
  BY DEF BootTblStep, boot_proc_boot_tbl_flush, Instances, Holds

\* Bytes and words at hand are no more than there are.
LEMMA AtHand ==
    ASSUME NEW z \in Nat, NEW d \in Nat
    PROVE  LET n == Lower(z, 2 * d)
               m == CHIP_BYTES_TO_UINT16(n)
           IN /\ n \in Nat /\ m \in Nat /\ m <= d /\ z - n \in Nat
              /\ d - m \in Nat /\ PadWords(m) \in Nat /\ PadWords(m) = m % 2
              /\ n = z \/ n = 2 * d
              /\ n <= 2 * d /\ (n % 2 = 0 => n = 2 * m)
              /\ d # 0 /\ z # 0 => n # 0
  <1>1. Lower(z, 2 * d) \in Nat /\ Lower(z, 2 * d) <= z /\ Lower(z, 2 * d) <= 2 * d
    BY DEF Lower
  <1>2. Lower(z, 2 * d) = z \/ Lower(z, 2 * d) = 2 * d
    BY DEF Lower
  <1>3. ASSUME NEW n \in Nat, n <= z, n <= 2 * d
        PROVE  /\ (n + 1) \div 2 \in Nat /\ (n + 1) \div 2 <= d /\ z - n \in Nat
               /\ d - ((n + 1) \div 2) \in Nat
               /\ n % 2 = 0 => n = 2 * ((n + 1) \div 2)
    BY <1>3
  <1>4. ASSUME NEW m \in Nat
        PROVE  PadWords(m) \in Nat /\ PadWords(m) = m % 2
    BY <1>4 DEF PadWords, chipAddBtblUint16Pad
  <1> DEFINE n == Lower(z, 2 * d)
             m == (n + 1) \div 2
  <1>5. n \in Nat /\ n <= z /\ n <= 2 * d
    BY <1>1
  <1> HIDE DEF n
  <1>6. /\ m \in Nat /\ m <= d /\ z - n \in Nat /\ d - m \in Nat
        /\ n % 2 = 0 => n = 2 * m
    BY <1>3, <1>5
  <1>7. PadWords(m) \in Nat /\ PadWords(m) = m % 2
    BY <1>4, <1>6
  <1>8. d # 0 /\ z # 0 => n # 0
    BY <1>2 DEF n
  <1>9. n = z \/ n = 2 * d
    BY <1>2 DEF n
  <1> HIDE DEF m
  <1> QED
    BY <1>5, <1>6, <1>7, <1>8, <1>9 DEF n, m, CHIP_BYTES_TO_UINT16

\* What a turn leaves of the words that are at hand.
Stepped(o, p, d) ==
    /\ o \in Instances /\ o.data_size_uint16 <= d
    /\ o.data_size_uint16 # 0 => o.p_data + o.data_size_uint16 = p + d

\* Every turn leaves an instance, no more words than there were, and the rest
\* of them where they were (boot_proc_boot_tbl).
LEMMA TurnStepped ==
    ASSUME NEW i \in Instances, i.data_size_uint16 # 0, NEW words, words[i.p_data] \in Nat
    PROVE  Stepped(BootTblStep(i, words), i.p_data, i.data_size_uint16)
  <1> DEFINE o == BootTblStep(i, words)
             w == words[i.p_data]
             z == i.section_size_bytes
             d == i.data_size_uint16
             n == BytesAtHand(i)
             m == CHIP_BYTES_TO_UINT16(n)
  <1>1. /\ i.state \in BootStates /\ i.f_wait_lsw \in BOOLEAN /\ i.code_start_addr \in Nat
        /\ z \in Nat /\ i.section_addr \in Nat /\ i.p_data \in Nat \ {0} /\ d \in Nat /\ d # 0
        /\ w \in Nat
    BY DEF Instances
  <1>2. o = [state |-> o.state, f_wait_lsw |-> o.f_wait_lsw,
             code_start_addr |-> o.code_start_addr, section_size_bytes |-> o.section_size_bytes,
             section_addr |-> o.section_addr, p_data |-> o.p_data,
             data_size_uint16 |-> o.data_size_uint16]
    <2>1. CASE i.state = "INIT"
      BY <2>1 DEF BootTblStep, boot_proc_boot_tbl_init, ControlWord, UpperHalf, LowerHalf,
                  Consumed, Instances
    <2>2. CASE i.state = "SIZE"
      BY <2>2 DEF BootTblStep, boot_proc_boot_tbl_size, ControlWord, UpperHalf, LowerHalf,
                  Consumed, Instances
    <2>3. CASE i.state = "ADDR"
      BY <2>3 DEF BootTblStep, boot_proc_boot_tbl_addr, ControlWord, UpperHalf, LowerHalf,
                  Consumed, Instances
    <2>4. CASE i.state = "DATA"
      BY <2>4 DEF BootTblStep, boot_proc_boot_tbl_data, Advanced, Consumed, Instances
    <2>5. CASE i.state = "PAD"
      BY <2>5 DEF BootTblStep, boot_proc_boot_tbl_pad, Advanced, Consumed, Instances
    <2>6. CASE i.state = "FLUSH"
      BY <2>6 DEF BootTblStep, boot_proc_boot_tbl_flush, Instances
    <2> QED
      BY <1>1, <2>1, <2>2, <2>3, <2>4, <2>5, <2>6 DEF BootStates
  <1>3. /\ n \in Nat /\ m \in Nat /\ m <= d /\ z - n \in Nat /\ d - m \in Nat
        /\ PadWords(m) \in Nat
    BY <1>1, AtHand DEF BytesAtHand, CHIP_UINT16_TO_BYTES
  <1>7. /\ Word32(w, 0) \in Nat /\ d - 1 \in Nat /\ d - 1 <= d /\ d <= d
        /\ (i.p_data + 1) + (d - 1) = i.p_data + d /\ i.p_data + 1 \in Nat \ {0}
        /\ i.code_start_addr + w \in Nat /\ z + w \in Nat /\ i.section_addr + w \in Nat
    <2>1. ASSUME NEW p \in Nat \ {0}, NEW e \in Nat, e # 0
          PROVE  /\ e - 1 \in Nat /\ e - 1 <= e /\ e <= e
                 /\ (p + 1) + (e - 1) = p + e /\ p + 1 \in Nat \ {0}
      BY <2>1
    <2>2. ASSUME NEW v \in Nat, NEW x \in Nat, NEW y \in Nat, NEW u \in Nat
          PROVE  Word32(v, 0) \in Nat /\ x + v \in Nat /\ y + v \in Nat /\ u + v \in Nat
      BY DEF Word32
    <2> HIDE DEF w, z, d
    <2> QED
      BY <1>1, <2>1, <2>2
  <1>4. /\ o.state \in BootStates /\ o.f_wait_lsw \in BOOLEAN
        /\ o.code_start_addr \in Nat /\ o.section_size_bytes \in Nat /\ o.section_addr \in Nat
        /\ o.p_data \in Nat \ {0} /\ o.data_size_uint16 \in Nat /\ o.data_size_uint16 <= d
        /\ o.data_size_uint16 # 0 => o.p_data + o.data_size_uint16 = i.p_data + d
    <2>1. CASE i.state = "INIT"
      <3>1. /\ ~ i.f_wait_lsw =>
                   Holds(o, "INIT", TRUE, Word32(w, 0), z, i.section_addr, i.p_data + 1, d - 1)
            /\ i.f_wait_lsw =>
                   Holds(o, "SIZE", FALSE, i.code_start_addr + w, z, i.section_addr,
                         i.p_data + 1, d - 1)
        BY <2>1, InitTurn
      <3> HIDE DEF o, w, z, d
      <3> QED
        BY <1>1, <1>7, <3>1 DEF BootStates, Holds
    <2>2. CASE i.state = "SIZE"
      <3>1. /\ ~ i.f_wait_lsw =>
                   Holds(o, "SIZE", TRUE, i.code_start_addr, Word32(w, 0), i.section_addr,
                         i.p_data + 1, d - 1)
            /\ i.f_wait_lsw /\ z + w # 0 =>
                   Holds(o, "ADDR", FALSE, i.code_start_addr, z + w, i.section_addr,
                         i.p_data + 1, d - 1)
            /\ i.f_wait_lsw /\ z + w = 0 =>
                   Holds(o, "FLUSH", FALSE, i.code_start_addr, z, i.section_addr, i.p_data, d)
        BY <2>2, SizeTurn
      <3> HIDE DEF o, w, z, d
      <3> QED
        BY <1>1, <1>7, <3>1 DEF BootStates, Holds
    <2>3. CASE i.state = "ADDR"
      <3>1. /\ ~ i.f_wait_lsw =>
                   Holds(o, "ADDR", TRUE, i.code_start_addr, z, Word32(w, 0), i.p_data + 1, d - 1)
            /\ i.f_wait_lsw =>
                   Holds(o, "DATA", FALSE, i.code_start_addr, z, i.section_addr + w,
                         i.p_data + 1, d - 1)
        BY <2>3, AddrTurn
      <3> HIDE DEF o, w, z, d
      <3> QED
        BY <1>1, <1>7, <3>1 DEF BootStates, Holds
    <2>4. CASE i.state = "DATA"
      BY <1>1, <1>3, <2>4, DataTurn DEF BootStates, Holds
    <2>5. CASE i.state = "PAD"
      BY <1>1, <1>3, <2>5, PadTurn DEF BootStates, Holds
    <2>6. CASE i.state = "FLUSH"
      BY <1>1, <2>6, FlushTurn DEF BootStates, Holds
    <2> QED
      BY <1>1, <2>1, <2>2, <2>3, <2>4, <2>5, <2>6 DEF BootStates
  <1> HIDE DEF o
  <1>5. o \in Instances
    BY <1>2, <1>4 DEF Instances
  <1> QED
    BY <1>4, <1>5 DEF Stepped, o

-----------------------------------------------------------------------------
(* Types.                                                                  *)

LEMMA Sizes ==
    /\ TI_BTBL_BLOCK_SIZE \in Nat /\ TI_BTBL_BLOCK_SIZE > 0 /\ TI_BTBL_BLOCK_SIZE % 4 = 0
    /\ MemoryLen \in Nat /\ MaxFaults \in Nat /\ Untouched \in Bytes
    /\ \A bit \in HeaderNoise \cup DataNoise : bit \in {2^k : k \in 0 .. 7}
  BY FirstStageAssumption DEF Bytes

LEMMA WordOfBytes ==
    ASSUME NEW a \in Bytes, NEW b \in Bytes
    PROVE  Word16(a, b) \in Word
  <1>1. a \in Nat /\ a <= 255 /\ b \in Nat /\ b <= 255
    BY DEF Bytes
  <1>2. 2^8 = 256 /\ 2^16 = 65536
    BY SMT
  <1>3. 256 * a + b \in Nat /\ 256 * a + b <= 65535
    BY <1>1, SMT
  <1> QED
    BY <1>2, <1>3, SMT DEF Word16, Word, AllOnes

\* The words that are handed to the processor.
LEMMA PulledWordsType ==
    ASSUME wrap \in Wrappers, Len(wrap.data) = wrap.blockSize
    PROVE  /\ Len(PulledWords) = CHIP_BYTES_TO_UINT16(wrap.blockSize)
           /\ Len(PulledWords) \in Nat /\ Len(PulledWords) <= TI_BTBL_BLOCK_SIZE
           /\ wrap.blockSize <= 2 * Len(PulledWords)
           /\ wrap.blockSize % 2 = 0 => wrap.blockSize = 2 * Len(PulledWords)
           /\ \A j \in 1 .. Len(PulledWords) : PulledWords[j] \in Word
           /\ wrap.blockSize % 2 = 0 =>
                  \A j \in 1 .. Len(PulledWords) :
                      PulledWords[j] = Word16(wrap.data[2 * j - 1], wrap.data[2 * j])
  <1> DEFINE n == wrap.blockSize
             m == CHIP_BYTES_TO_UINT16(n)
             s == wrap.data
             w(j) == Word16(s[2 * j - 1], IF 2 * j <= Len(s) THEN s[2 * j] ELSE Untouched)
             ws == [j \in 1 .. m |-> w(j)]
  <1>1. n \in Nat /\ n <= TI_BTBL_BLOCK_SIZE /\ s \in Seq(Bytes) /\ Len(s) = n
    BY Sizes DEF Wrappers
  <1>2. /\ m \in Nat /\ m <= TI_BTBL_BLOCK_SIZE /\ n <= 2 * m
        /\ n % 2 = 0 => n = 2 * m
        /\ \A j \in 1 .. m : 2 * j - 1 \in 1 .. n
    <2> HIDE DEF n, s
    <2> QED
      BY <1>1, Sizes DEF CHIP_BYTES_TO_UINT16
  <1>3. PulledWords = ws
    BY DEF PulledWords
  <1>4. ASSUME NEW j \in 1 .. m PROVE w(j) \in Word
    <2>1. s[2 * j - 1] \in Bytes
      BY <1>1, <1>2, Element
    <2>2. 2 * j <= Len(s) => 2 * j \in 1 .. Len(s)
      <3> HIDE DEF n, m, s
      <3> QED
        BY <1>1, <1>2
    <2>3. 2 * j <= Len(s) => s[2 * j] \in Bytes
      BY <1>1, <2>2, Element
    <2> HIDE DEF s
    <2> QED
      BY <2>1, <2>3, Sizes, WordOfBytes
  <1>5. ASSUME n % 2 = 0, NEW j \in 1 .. m PROVE w(j) = Word16(s[2 * j - 1], s[2 * j])
    <2>1. 2 * j <= Len(s)
      <3> HIDE DEF n, m, s
      <3> QED
        BY <1>1, <1>2, <1>5
    <2> QED
      BY <2>1
  <1> HIDE DEF w
  <1>6. Len(ws) = m /\ \A j \in 1 .. m : ws[j] = w(j)
    <2> HIDE DEF m
    <2> QED
      BY <1>2
  <1> HIDE DEF ws, m
  <1>7. Len(PulledWords) = m /\ \A j \in 1 .. m : PulledWords[j] = w(j)
    BY <1>3, <1>6
  <1> QED
    BY <1>2, <1>4, <1>5, <1>7 DEF m

\* The indices of the fifo stay within the buffer.
LEMMA FifoIndices ==
    ASSUME NEW in \in 0 .. I_MAX_BLOCK_SIZE, NEW out \in 0 .. I_MAX_BLOCK_SIZE - 1
    PROVE  /\ AfterRead(in, out).in \in 0 .. I_MAX_BLOCK_SIZE
           /\ AfterRead(in, out).out \in 0 .. I_MAX_BLOCK_SIZE - 1
  <1>1. I_MAX_BLOCK_SIZE \in Nat /\ I_MAX_BLOCK_SIZE > 0
    BY SizesOfBlocks
  <1> QED
    BY <1>1 DEF AfterRead

LEMMA Stages ==
    /\ Starting = {"main", "map", "config", "boot", "failed"}
    /\ Running = {"pull", "process", "entered", "read", "take", "header", "block"}
    /\ Reading = {"read", "take", "header", "block"}
  BY DEF Starting, Running, Reading

LEMMA InitTyped == Init => Typed
  <1> SUFFICES ASSUME Init PROVE Typed
    OBVIOUS
  <1> USE DEF Init
  <1>1. Hardware
    <2>1. PICK E \in (SUBSET {"little", "big"}) \ {{}} : flash = BuildFlash(image, E, device)
      OBVIOUS
    <2>2. E \in (SUBSET Endians) \ {{}} /\ image \in Images /\ device \in Devices
          /\ endian \in Endians
      BY DEF Endians, Devices
    <2>3. IsRom(BuildFlash(image, E, device), image, device)
      BY <2>2, FlashLayout
    <2> QED
      BY <2>1, <2>2, <2>3 DEF Hardware
  <1>2. pc \in Starting \cup Running
    BY Stages
  <1>3. AddressesTyped
    BY Stages DEF AddressesTyped
  <1>4. FifoTyped
    <2>1. /\ I_MAX_BLOCK_SIZE \in Nat /\ I_MAX_BLOCK_SIZE > 0 /\ 0 \in Bytes /\ 0 \in Word
      BY SizesOfBlocks, WordTypes DEF Bytes
    <2> QED
      BY <2>1 DEF FifoTyped
  <1>5. LoaderTyped
    <2>1. inst \in Instances /\ inst.data_size_uint16 = 0
      BY DEF BootTblStart, Instances, BootStates
    <2>2. /\ wrap \in Wrappers /\ wrap.blockSize = 0 /\ Len(wrap.data) = 0
      BY Sizes DEF Wrappers
    <2>3. DOMAIN memory = 0 .. MemoryLen - 1
      OBVIOUS
    <2>4. Shared
      BY <2>2, Stages DEF Shared
    <2> QED
      BY <2>1, <2>2, <2>3, <2>4, Sizes DEF LoaderTyped
  <1>6. CountsTyped
    BY Sizes DEF CountsTyped
  <1> QED
    BY <1>1, <1>2, <1>3, <1>4, <1>5, <1>6 DEF Typed

\* A read of the flash returns bytes, and what it stores is bytes.
LEMMA ReadTyped ==
    ASSUME Typed, readAddress \in Nat
    PROVE  /\ \A n \in Nat : /\ FlashBytes(n) \in Seq(Bytes) /\ Len(FlashBytes(n)) = n
                             /\ DOMAIN FlashBytes(n) = 1 .. n
           /\ \A bytes \in Seq(Bytes) : Stored(bytes) \in [1 .. I_MAX_BLOCK_SIZE -> Bytes]
  <1>1. /\ flash.bytes \in Seq(Bytes) /\ flash.start \in Nat
        /\ readAddress \in Int /\ busAddress \in Int
        /\ iData \in [1 .. I_MAX_BLOCK_SIZE -> Bytes]
    BY MapConstants DEF Typed, Hardware, IsRom, AddressesTyped, FifoTyped, RomStart
  <1>2. ASSUME NEW n \in Nat
        PROVE  /\ FlashBytes(n) \in Seq(Bytes) /\ Len(FlashBytes(n)) = n
               /\ DOMAIN FlashBytes(n) = 1 .. n
    BY <1>1, FlashBytesType
  <1>3. ASSUME NEW bytes \in Seq(Bytes)
        PROVE  Stored(bytes) \in [1 .. I_MAX_BLOCK_SIZE -> Bytes]
    BY <1>1, StoredBytes
  <1> QED
    BY <1>2, <1>3

LEMMA ReadingTyped ==
    ASSUME Typed, readAddress \in Nat, NEW n \in Nat, NEW bits \in {HeaderNoise, DataNoise},
           NEW bytes \in Readings(n, bits), Counted(bytes)
    PROVE  /\ bytes \in Seq(Bytes) /\ Len(bytes) = n /\ faults' \in 0 .. MaxFaults
           /\ \/ bytes = FlashBytes(n)
              \/ faults < MaxFaults /\ Noisy(bytes, FlashBytes(n), bits)
  <1>1. \A bit \in bits : bit \in {2^k : k \in 0 .. 7}
    BY Sizes
  <1>2. /\ FlashBytes(n) \in Seq(Bytes) /\ Len(FlashBytes(n)) = n
        /\ DOMAIN FlashBytes(n) = 1 .. n
    BY ReadTyped
  <1>3. /\ bytes \in Seq(Bytes) /\ Len(bytes) = n
        /\ \/ bytes = FlashBytes(n)
           \/ faults < MaxFaults /\ Noisy(bytes, FlashBytes(n), bits)
    BY <1>1, <1>2, ReadingsAre
  <1>4. faults' = IF bytes = FlashBytes(n) THEN faults ELSE faults + 1
    BY <1>3 DEF Counted
  <1>5. faults \in 0 .. MaxFaults /\ MaxFaults \in Nat
    BY Sizes DEF Typed, CountsTyped
  <1>6. faults' \in 0 .. MaxFaults
    BY <1>3, <1>4, <1>5
  <1> QED
    BY <1>3, <1>6

LEMMA FailedReadTyped ==
    ASSUME Typed, readAddress \in Nat, NEW n \in Nat, FailedRead(n)
    PROVE  iData' \in [1 .. I_MAX_BLOCK_SIZE -> Bytes] /\ faults' \in 0 .. MaxFaults
  <1>1. PICK k \in 0 .. (IF device = "i2c" THEN n ELSE n - 1) : iData' = Stored(FlashBytes(k))
    BY DEF FailedRead
  <1>2. k \in Nat
    OBVIOUS
  <1>3. iData' \in [1 .. I_MAX_BLOCK_SIZE -> Bytes]
    BY <1>1, <1>2, ReadTyped
  <1>4. faults' \in 0 .. MaxFaults
    BY Sizes DEF FailedRead, Fault, Typed, CountsTyped
  <1> QED
    BY <1>3, <1>4

\* What every step leaves alone stays typed.
LEMMA TypedKept ==
    ASSUME Typed, UNCHANGED hardware
    PROVE  /\ Hardware'
           /\ UNCHANGED fifo /\ UNCHANGED len /\ pc' # "block" => FifoTyped'
           /\ UNCHANGED <<faults, delivered>> => CountsTyped'
           /\ UNCHANGED loader /\ pc' \notin Reading \cup {"process"} => LoaderTyped'
           /\ UNCHANGED position /\ pc' \notin Running \cup {"map", "config", "boot"}
                  => AddressesTyped'
           /\ UNCHANGED position /\ pc \in Running /\ pc' \in Running => AddressesTyped'
  <1>1. Hardware'
    BY DEF Typed, Hardware, hardware
  <1>2. UNCHANGED fifo /\ UNCHANGED len /\ pc' # "block" => FifoTyped'
    BY DEF Typed, FifoTyped, fifo
  <1>3. UNCHANGED <<faults, delivered>> => CountsTyped'
    BY DEF Typed, CountsTyped
  <1>4. UNCHANGED loader /\ pc' \notin Reading \cup {"process"} => LoaderTyped'
    BY Stages DEF Typed, LoaderTyped, loader, Shared
  <1>5. UNCHANGED position /\ pc' \notin Running \cup {"map", "config", "boot"} => AddressesTyped'
    BY DEF Typed, AddressesTyped, position
  <1>6. UNCHANGED position /\ pc \in Running /\ pc' \in Running => AddressesTyped'
    BY DEF Typed, AddressesTyped, position, hardware
  <1> QED
    BY <1>1, <1>2, <1>3, <1>4, <1>5, <1>6

LEMMA StartTyped ==
    ASSUME Typed, InitDevice \/ ReadMap \/ ReadConfig \/ StartBtbl
    PROVE  Typed'
  <1>1. CASE InitDevice
    <2>1. /\ UNCHANGED hardware /\ UNCHANGED fifo /\ UNCHANGED len /\ UNCHANGED position
          /\ UNCHANGED <<faults, delivered>> /\ UNCHANGED loader
          /\ pc' = "failed" \/ (pc' = "map" /\ device \in {"i2c", "spi"})
      BY <1>1 DEF InitDevice, Goto, reader
    <2>2. Hardware' /\ FifoTyped' /\ CountsTyped' /\ LoaderTyped'
      BY <2>1, TypedKept, Stages
    <2>3. AddressesTyped'
      BY <2>1, Stages DEF Typed, AddressesTyped, position, hardware
    <2> QED
      BY <2>1, <2>2, <2>3, Stages DEF Typed
  <1>2. CASE ReadMap
    <2>1. /\ UNCHANGED hardware /\ UNCHANGED fifo /\ UNCHANGED len /\ UNCHANGED delivered
          /\ UNCHANGED loader /\ pc = "map" /\ pc' \in {"map", "config"}
      BY <1>2 DEF ReadMap, Goto
    <2>2. Hardware' /\ FifoTyped' /\ LoaderTyped'
      BY <2>1, TypedKept, Stages
    <2>3. CountsTyped'
      BY <1>2, <2>1, Sizes DEF ReadMap, Fault, Typed, CountsTyped
    <2>4. device # "other" /\ device \in Devices /\ endian \in Endians
          /\ IsRom(flash, image, device)
      BY <2>1, Stages DEF Typed, AddressesTyped, Hardware
    <2>5. TableAddress \in Nat \cup {NoAddress}
      BY <2>4, TableAddressIs DEF Devices
    <2>6. \A a \in Nat \cup {NoAddress} : Bus(a) \in Int
      BY MapConstants DEF Bus, NoAddress
    <2>7. readAddress' \in Nat \cup {NoAddress} /\ busAddress' \in Int
      BY <1>2, <2>5, <2>6 DEF ReadMap, Typed, AddressesTyped, position
    <2>8. AddressesTyped'
      BY <2>1, <2>4, <2>7, Stages DEF AddressesTyped, hardware
    <2> QED
      BY <2>1, <2>2, <2>3, <2>8, Stages DEF Typed
  <1>3. CASE ReadConfig
    <2>1. /\ UNCHANGED hardware /\ UNCHANGED fifo /\ UNCHANGED len /\ UNCHANGED delivered
          /\ UNCHANGED loader /\ UNCHANGED position /\ pc = "config"
          /\ pc' \in {"config", "failed"} \/ (pc' = "boot" /\ readAddress # NoAddress)
      BY <1>3 DEF ReadConfig, Goto, reader
    <2>2. Hardware' /\ FifoTyped' /\ LoaderTyped'
      BY <2>1, TypedKept, Stages
    <2>3. CountsTyped'
      BY <1>3, <2>1, Sizes DEF ReadConfig, Fault, Typed, CountsTyped
    <2>4. AddressesTyped'
      BY <2>1, Stages DEF Typed, AddressesTyped, position, hardware
    <2> QED
      BY <2>1, <2>2, <2>3, <2>4, Stages DEF Typed
  <1>4. CASE StartBtbl
    <2>1. /\ UNCHANGED hardware /\ UNCHANGED fifo /\ UNCHANGED len
          /\ UNCHANGED <<faults, delivered>>
          /\ UNCHANGED loader /\ UNCHANGED position /\ pc = "boot" /\ pc' \in {"pull", "failed"}
      BY <1>4 DEF StartBtbl, Goto, reader
    <2>2. Hardware' /\ FifoTyped' /\ LoaderTyped' /\ CountsTyped'
      BY <2>1, TypedKept, Stages
    <2>3. AddressesTyped'
      BY <2>1, Stages DEF Typed, AddressesTyped, position, hardware
    <2> QED
      BY <2>1, <2>2, <2>3, Stages DEF Typed
  <1> QED
    BY <1>1, <1>2, <1>3, <1>4

LEMMA PullTyped ==
    ASSUME Typed, Pull
    PROVE  Typed' /\ wrap'.blockSize = Lower(wrap'.readSize, TI_BTBL_BLOCK_SIZE)
           /\ wrap'.data = << >> /\ wrap'.readSize \in Nat
           /\ wrap'.readSize = IF wrap.readSize = 0 THEN SizeToRead ELSE wrap.readSize
  <1> DEFINE r == IF wrap.readSize = 0 THEN SizeToRead ELSE wrap.readSize
             w == [readSize |-> r, blockSize |-> Lower(r, TI_BTBL_BLOCK_SIZE), data |-> << >>]
  <1>1. /\ UNCHANGED hardware /\ UNCHANGED fifo /\ UNCHANGED len /\ UNCHANGED <<faults, delivered>>
        /\ UNCHANGED <<inst, memory>> /\ UNCHANGED position /\ pc = "pull" /\ pc' = "read"
        /\ wrap' = w
        /\ wrap.readSize # 0 \/ inst.state # "FLUSH"
    BY DEF Pull, Goto, reader
  <1>2. Hardware' /\ FifoTyped' /\ CountsTyped' /\ AddressesTyped'
    BY <1>1, TypedKept, Stages
  <1>3. inst \in Instances /\ wrap \in Wrappers
    BY DEF Typed, LoaderTyped
  <1>4. r \in Nat
    BY <1>1, <1>3 DEF Instances, Wrappers, SizeToRead, BootStates
  <1> HIDE DEF r
  <1>5. /\ Lower(r, TI_BTBL_BLOCK_SIZE) \in 0 .. TI_BTBL_BLOCK_SIZE
        /\ Lower(r, TI_BTBL_BLOCK_SIZE) <= r
    BY <1>4, Sizes DEF Lower
  <1>6. /\ w \in Wrappers /\ w.blockSize = Lower(r, TI_BTBL_BLOCK_SIZE) /\ w.readSize = r
        /\ w.data = << >> /\ Len(w.data) = 0
    BY <1>4, <1>5 DEF Wrappers
  <1> HIDE DEF w
  <1>7. Shared'
    BY <1>1, <1>5, <1>6, Stages DEF Shared
  <1>8. LoaderTyped'
    BY <1>1, <1>6, <1>7 DEF Typed, LoaderTyped
  <1> QED
    BY <1>1, <1>2, <1>4, <1>6, <1>8, Stages DEF Typed, r

LEMMA Started ==
    ASSUME NEW i \in Instances, NEW m \in Nat
    PROVE  LET o == [i EXCEPT !.p_data = 1, !.data_size_uint16 = m]
           IN /\ o \in Instances /\ o.p_data = 1 /\ o.data_size_uint16 = m
              /\ o.state = i.state /\ o.f_wait_lsw = i.f_wait_lsw
              /\ o.code_start_addr = i.code_start_addr /\ o.section_addr = i.section_addr
              /\ o.section_size_bytes = i.section_size_bytes
  <1>1. 1 \in Nat \ {0}
    OBVIOUS
  <1>2. [i EXCEPT !.p_data = 1] \in Instances
    BY <1>1 DEF Instances
  <1>3. [[i EXCEPT !.p_data = 1] EXCEPT !.data_size_uint16 = m] \in Instances
    BY <1>2 DEF Instances
  <1> QED
    BY <1>3 DEF Instances

LEMMA ProcessorTyped ==
    ASSUME Typed, Jump \/ StartProcess \/ Process \/ EndProcess
    PROVE  Typed'
  <1>1. CASE Jump
    <2>1. /\ UNCHANGED hardware /\ UNCHANGED fifo /\ UNCHANGED len
          /\ UNCHANGED <<faults, delivered>> /\ UNCHANGED <<inst, wrap, memory>>
          /\ UNCHANGED position /\ pc = "pull" /\ pc' = "entered"
      BY <1>1 DEF Jump, Goto, reader
    <2>2. Hardware' /\ FifoTyped' /\ CountsTyped' /\ AddressesTyped'
      BY <2>1, TypedKept, Stages
    <2>3. LoaderTyped'
      BY <2>1, Stages DEF Typed, LoaderTyped, Shared
    <2> QED
      BY <2>1, <2>2, <2>3, Stages DEF Typed
  <1>2. CASE StartProcess
    <2>1. /\ UNCHANGED hardware /\ UNCHANGED fifo /\ UNCHANGED len
          /\ UNCHANGED <<faults, delivered>> /\ UNCHANGED <<wrap, memory>>
          /\ UNCHANGED position /\ pc = "read" /\ pc' = "process"
          /\ Len(wrap.data) = wrap.blockSize
          /\ inst' = [inst EXCEPT !.p_data = 1, !.data_size_uint16 = Len(PulledWords)]
      BY <1>2 DEF StartProcess, Goto, reader
    <2>2. Hardware' /\ FifoTyped' /\ CountsTyped' /\ AddressesTyped'
      BY <2>1, TypedKept, Stages
    <2>3. inst \in Instances /\ wrap \in Wrappers /\ Shared
      BY DEF Typed, LoaderTyped
    <2>4. Len(PulledWords) \in Nat /\ Len(PulledWords) <= TI_BTBL_BLOCK_SIZE
      BY <2>1, <2>3, PulledWordsType
    <2>5. /\ inst' \in Instances /\ inst'.data_size_uint16 = Len(PulledWords) /\ inst'.p_data = 1
      BY <2>1, <2>3, <2>4, Started
    <2>6. PulledWords' = PulledWords
      BY <2>1 DEF PulledWords
    <2>7. inst'.p_data + inst'.data_size_uint16 = Len(PulledWords') + 1
      BY <2>4, <2>5, <2>6
    <2>8. Shared'
      BY <2>1, <2>3, <2>7, Stages DEF Shared
    <2>9. LoaderTyped'
      BY <2>1, <2>4, <2>5, <2>8 DEF Typed, LoaderTyped
    <2> QED
      BY <2>1, <2>2, <2>9, Stages DEF Typed
  <1>3. CASE Process
    <2>1. /\ UNCHANGED hardware /\ UNCHANGED fifo /\ UNCHANGED len
          /\ UNCHANGED <<faults, delivered>> /\ UNCHANGED wrap
          /\ UNCHANGED position /\ pc = "process" /\ pc' = "process"
          /\ inst.data_size_uint16 # 0
          /\ inst' = BootTblStep(inst, PulledWords)
          /\ DOMAIN memory' = DOMAIN memory
      BY <1>3 DEF Process, reader, coreCopyData
    <2>2. Hardware' /\ FifoTyped' /\ CountsTyped' /\ AddressesTyped'
      BY <2>1, TypedKept, Stages
    <2>3. inst \in Instances /\ wrap \in Wrappers /\ Shared
          /\ inst.data_size_uint16 <= TI_BTBL_BLOCK_SIZE
      BY DEF Typed, LoaderTyped
    <2>4. /\ Len(wrap.data) = wrap.blockSize
          /\ inst.p_data + inst.data_size_uint16 = Len(PulledWords) + 1
      BY <2>1, <2>3 DEF Shared
    <2>5. /\ Len(PulledWords) \in Nat
          /\ \A j \in 1 .. Len(PulledWords) : PulledWords[j] \in Word
      BY <2>3, <2>4, PulledWordsType
    <2>6. inst.p_data \in 1 .. Len(PulledWords)
      <3>1. inst.p_data \in Nat \ {0} /\ inst.data_size_uint16 \in Nat
        BY <2>3 DEF Instances
      <3> QED
        BY <2>1, <2>4, <2>5, <3>1
    <2>7. PulledWords[inst.p_data] \in Nat
      BY <2>5, <2>6, WordTypes DEF Word
    <2>8. Stepped(inst', inst.p_data, inst.data_size_uint16)
      BY <2>1, <2>3, <2>7, TurnStepped
    <2>9. PulledWords' = PulledWords
      BY <2>1 DEF PulledWords
    <2>10. /\ inst' \in Instances /\ inst'.data_size_uint16 <= TI_BTBL_BLOCK_SIZE
           /\ inst'.data_size_uint16 # 0 =>
                  inst'.p_data + inst'.data_size_uint16 = Len(PulledWords') + 1
      <3>1. inst'.data_size_uint16 \in Nat /\ inst.data_size_uint16 \in Nat
        BY <2>3, <2>8 DEF Stepped, Instances
      <3> QED
        BY <2>3, <2>4, <2>8, <2>9, <3>1, Sizes DEF Stepped
    <2>11. Shared'
      BY <2>1, <2>3, <2>4, <2>10, Stages DEF Shared
    <2>12. LoaderTyped'
      BY <2>1, <2>3, <2>10, <2>11 DEF Typed, LoaderTyped
    <2> QED
      BY <2>1, <2>2, <2>12, Stages DEF Typed
  <1>4. CASE EndProcess
    <2>1. /\ UNCHANGED hardware /\ UNCHANGED fifo /\ UNCHANGED len
          /\ UNCHANGED <<faults, delivered>> /\ UNCHANGED <<inst, memory>>
          /\ UNCHANGED position /\ pc = "process" /\ pc' = "pull"
          /\ wrap' = [wrap EXCEPT !.readSize = @ - wrap.blockSize]
      BY <1>4 DEF EndProcess, Goto, reader
    <2>2. Hardware' /\ FifoTyped' /\ CountsTyped' /\ AddressesTyped'
      BY <2>1, TypedKept, Stages
    <2>3. wrap \in Wrappers /\ wrap.blockSize <= wrap.readSize
      BY <2>1, Stages DEF Typed, LoaderTyped, Shared
    <2>4. wrap.readSize - wrap.blockSize \in Nat
      BY <2>3 DEF Wrappers
    <2>5. wrap' \in Wrappers /\ wrap'.blockSize = wrap.blockSize /\ wrap'.data = wrap.data
      BY <2>1, <2>3, <2>4 DEF Wrappers
    <2>6. Shared'
      BY <2>1, <2>5, Stages DEF Typed, LoaderTyped, Shared
    <2>7. LoaderTyped'
      BY <2>1, <2>5, <2>6 DEF Typed, LoaderTyped
    <2> QED
      BY <2>1, <2>2, <2>7, Stages DEF Typed
  <1> QED
    BY <1>1, <1>2, <1>3, <1>4

LEMMA ByteTakenTyped ==
    ASSUME Typed, FifoEmpty \/ iFifoRead
    PROVE  Typed'
  <1>1. CASE FifoEmpty
    <2>1. /\ UNCHANGED hardware /\ UNCHANGED fifo /\ UNCHANGED len
          /\ UNCHANGED <<faults, delivered>> /\ UNCHANGED <<inst, wrap, memory>>
          /\ UNCHANGED position /\ pc = "read" /\ pc' = "header"
          /\ Len(wrap.data) < wrap.blockSize
      BY <1>1 DEF FifoEmpty, Goto, reader, loader
    <2>2. Hardware' /\ FifoTyped' /\ CountsTyped' /\ AddressesTyped'
      BY <2>1, TypedKept, Stages
    <2>3. LoaderTyped'
      BY <2>1, Stages DEF Typed, LoaderTyped, Shared
    <2> QED
      BY <2>1, <2>2, <2>3, Stages DEF Typed
  <1>2. CASE iFifoRead
    <2> DEFINE byte == iData[iFifoOut + 1]
               w == [wrap EXCEPT !.data = Append(@, byte)]
    <2>1. /\ UNCHANGED hardware /\ UNCHANGED iData /\ UNCHANGED len
          /\ UNCHANGED faults /\ UNCHANGED <<inst, memory>>
          /\ UNCHANGED position /\ pc \in {"read", "take"} /\ pc' = "read"
          /\ pc = "read" => Len(wrap.data) < wrap.blockSize
          /\ wrap' = w /\ delivered' = delivered + 1
          /\ iFifoIn' = AfterRead(iFifoIn, iFifoOut).in
          /\ iFifoOut' = AfterRead(iFifoIn, iFifoOut).out
      BY <1>2 DEF iFifoRead, Goto
    <2>2. /\ iFifoIn \in 0 .. I_MAX_BLOCK_SIZE /\ iFifoOut \in 0 .. I_MAX_BLOCK_SIZE - 1
          /\ iData \in [1 .. I_MAX_BLOCK_SIZE -> Bytes] /\ len \in Word
          /\ wrap \in Wrappers /\ Shared
      BY DEF Typed, FifoTyped, LoaderTyped
    <2>3. Hardware' /\ AddressesTyped'
      BY <2>1, TypedKept, Stages
    <2>4. CountsTyped'
      BY <2>1 DEF Typed, CountsTyped
    <2>5. FifoTyped'
      BY <2>1, <2>2, FifoIndices DEF FifoTyped
    <2>6. byte \in Bytes
      BY <2>2, SizesOfBlocks
    <2>7. /\ wrap.data \in Seq(Bytes) /\ Len(wrap.data) < wrap.blockSize
          /\ wrap.blockSize <= wrap.readSize /\ wrap.blockSize \in Nat
      BY <2>1, <2>2, Stages DEF Wrappers, Shared
    <2> HIDE DEF byte
    <2>8. Append(wrap.data, byte) \in Seq(Bytes) /\ Len(Append(wrap.data, byte)) = Len(wrap.data) + 1
      BY <2>6, <2>7
    <2>9. /\ w \in Wrappers /\ w.readSize = wrap.readSize /\ w.blockSize = wrap.blockSize
          /\ w.data = Append(wrap.data, byte)
      BY <2>2, <2>8 DEF Wrappers
    <2>10. Len(w.data) <= w.blockSize
      BY <2>7, <2>8, <2>9
    <2> HIDE DEF w
    <2>11. Shared'
      BY <2>1, <2>7, <2>9, <2>10, Stages DEF Shared
    <2>12. LoaderTyped'
      BY <2>1, <2>9, <2>11 DEF Typed, LoaderTyped
    <2> QED
      BY <2>1, <2>3, <2>4, <2>5, <2>12, Stages DEF Typed
  <1> QED
    BY <1>1, <1>2

LEMMA BlockTyped ==
    ASSUME Typed, ReadHeader \/ ReadBlock
    PROVE  Typed'
  <1>1. readAddress \in Nat
    BY Stages DEF Typed, AddressesTyped, ReadHeader, ReadBlock
  <1>2. CASE ReadHeader
    <2>1. /\ UNCHANGED hardware /\ UNCHANGED <<iFifoIn, iFifoOut, delivered>>
          /\ UNCHANGED <<inst, wrap, memory>> /\ UNCHANGED position /\ pc = "header"
      BY <1>2 DEF ReadHeader, loader
    <2>2. HeaderBytes \in Nat /\ HeaderBytes = 4
      BY DEF HeaderBytes
    <2>3. /\ iData' \in [1 .. I_MAX_BLOCK_SIZE -> Bytes] /\ faults' \in 0 .. MaxFaults
          /\ len' \in Word /\ pc' \in {"header", "block"}
          /\ pc' = "block" => len' <= I_MAX_BLOCK_SIZE
      <3>1. CASE FailedRead(HeaderBytes) /\ UNCHANGED <<pc, len>>
        BY <1>1, <2>1, <2>2, <3>1, FailedReadTyped DEF Typed, FifoTyped
      <3>2. ASSUME NEW bytes \in Readings(HeaderBytes, HeaderNoise), Counted(bytes),
                   iData' = Stored(bytes), len' = Word16(bytes[1], bytes[2]),
                   Goto(IF Fits(len') THEN "block" ELSE "header")
            PROVE  /\ iData' \in [1 .. I_MAX_BLOCK_SIZE -> Bytes] /\ faults' \in 0 .. MaxFaults
                   /\ len' \in Word /\ pc' \in {"header", "block"}
                   /\ pc' = "block" => len' <= I_MAX_BLOCK_SIZE
        <4>1. bytes \in Seq(Bytes) /\ Len(bytes) = 4 /\ faults' \in 0 .. MaxFaults
          BY <1>1, <2>2, <3>2, ReadingTyped
        <4>2. bytes[1] \in Bytes /\ bytes[2] \in Bytes
          BY ONLY SMTT(30), <4>1, Element
        <4>3. len' \in Word
          BY <3>2, <4>2, WordOfBytes
        <4>4. iData' \in [1 .. I_MAX_BLOCK_SIZE -> Bytes]
          BY <1>1, <3>2, <4>1, ReadTyped
        <4>5. pc' \in {"header", "block"} /\ (pc' = "block" => len' <= I_MAX_BLOCK_SIZE)
          BY <3>2 DEF Goto, Fits
        <4> QED
          BY <4>1, <4>3, <4>4, <4>5
      <3> QED
        BY <1>2, <3>1, <3>2 DEF ReadHeader
    <2>4. Hardware' /\ AddressesTyped'
      BY <2>1, <2>3, TypedKept, Stages
    <2>5. FifoTyped'
      BY <2>1, <2>3 DEF Typed, FifoTyped
    <2>6. CountsTyped'
      BY <2>1, <2>3 DEF Typed, CountsTyped
    <2>7. LoaderTyped'
      BY <2>1, <2>3, Stages DEF Typed, LoaderTyped, Shared
    <2> QED
      BY <2>3, <2>4, <2>5, <2>6, <2>7, Stages DEF Typed
  <1>3. CASE ReadBlock
    <2>1. /\ UNCHANGED hardware /\ UNCHANGED <<len, delivered>>
          /\ UNCHANGED <<inst, wrap, memory>> /\ pc = "block"
      BY <1>3 DEF ReadBlock, loader
    <2>2. /\ len \in Nat /\ len <= I_MAX_BLOCK_SIZE
          /\ iFifoIn \in 0 .. I_MAX_BLOCK_SIZE /\ iFifoOut \in 0 .. I_MAX_BLOCK_SIZE - 1
      BY <2>1, WordTypes DEF Typed, FifoTyped, Word
    <2>3. /\ iData' \in [1 .. I_MAX_BLOCK_SIZE -> Bytes] /\ faults' \in 0 .. MaxFaults
          /\ \/ UNCHANGED <<position, iFifoIn, iFifoOut>> /\ pc' \in {"header", "block"}
             \/ /\ readAddress' = readAddress + len /\ busAddress' = Bus(readAddress')
                /\ iFifoIn' = len /\ iFifoOut' = HeaderBytes /\ pc' = "take"
      <3>1. CASE FailedRead(len) /\ UNCHANGED <<pc, position, iFifoIn, iFifoOut>>
        BY <1>1, <2>1, <2>2, <3>1, FailedReadTyped
      <3>2. ASSUME NEW bytes \in Readings(len, DataNoise), Counted(bytes),
                   iData' = Stored(bytes)
            PROVE  iData' \in [1 .. I_MAX_BLOCK_SIZE -> Bytes] /\ faults' \in 0 .. MaxFaults
        <4>1. bytes \in Seq(Bytes) /\ faults' \in 0 .. MaxFaults
          BY <1>1, <2>2, <3>2, ReadingTyped
        <4> QED
          BY <1>1, <3>2, <4>1, ReadTyped
      <3> QED
        BY <1>3, <3>1, <3>2 DEF ReadBlock, Goto
    <2>4. Hardware'
      BY <2>1, TypedKept
    <2>5. /\ readAddress' \in Nat /\ busAddress' \in Int
          /\ iFifoIn' \in 0 .. I_MAX_BLOCK_SIZE /\ iFifoOut' \in 0 .. I_MAX_BLOCK_SIZE - 1
      <3>1. 4 \in 0 .. I_MAX_BLOCK_SIZE - 1 /\ I_MAX_BLOCK_SIZE \in Nat
        BY SizesOfBlocks
      <3>2. readAddress + len \in Nat /\ Bus(readAddress + len) \in Int
        BY <1>1, <2>2, MapConstants DEF Bus
      <3>3. len \in 0 .. I_MAX_BLOCK_SIZE
        BY <2>2, <3>1
      <3> QED
        BY <1>1, <2>2, <2>3, <3>1, <3>2, <3>3 DEF Typed, AddressesTyped, position, HeaderBytes
    <2>6. FifoTyped'
      BY <2>1, <2>2, <2>3, <2>5 DEF Typed, FifoTyped
    <2>7. device # "other"
      BY <2>1, Stages DEF Typed, AddressesTyped
    <2>8. AddressesTyped'
      BY <2>1, <2>5, <2>7 DEF AddressesTyped, hardware
    <2>9. CountsTyped'
      BY <2>1, <2>3 DEF Typed, CountsTyped
    <2>10. LoaderTyped'
      BY <2>1, <2>3, Stages DEF Typed, LoaderTyped, Shared
    <2> QED
      BY <2>3, <2>4, <2>6, <2>8, <2>9, <2>10, Stages DEF Typed
  <1> QED
    BY <1>2, <1>3

LEMMA TypedStutter == Typed /\ UNCHANGED vars => Typed'
  <1> SUFFICES ASSUME Typed, UNCHANGED vars PROVE Typed'
    OBVIOUS
  <1>1. /\ UNCHANGED hardware /\ UNCHANGED fifo /\ UNCHANGED len /\ UNCHANGED position
        /\ UNCHANGED <<faults, delivered, pc, inst, wrap, memory>>
    BY DEF vars, reader, loader
  <1>2. Hardware' /\ CountsTyped'
    BY <1>1, TypedKept
  <1>3. FifoTyped'
    BY <1>1 DEF Typed, FifoTyped, fifo
  <1>4. AddressesTyped'
    BY <1>1 DEF Typed, AddressesTyped, position, hardware
  <1>5. PulledWords' = PulledWords
    BY <1>1 DEF PulledWords
  <1>6. Shared'
    BY <1>1, <1>5 DEF Typed, LoaderTyped, Shared
  <1>7. LoaderTyped'
    BY <1>1, <1>6 DEF Typed, LoaderTyped
  <1> QED
    BY <1>1, <1>2, <1>3, <1>4, <1>7 DEF Typed

LEMMA TypedStep == Typed /\ [Next]_vars => Typed'
  <1> SUFFICES ASSUME Typed, [Next]_vars PROVE Typed'
    OBVIOUS
  <1>1. CASE InitDevice \/ ReadMap \/ ReadConfig \/ StartBtbl
    BY <1>1, StartTyped
  <1>2. CASE Pull
    BY <1>2, PullTyped
  <1>3. CASE Jump \/ StartProcess \/ Process \/ EndProcess
    BY <1>3, ProcessorTyped
  <1>4. CASE FifoEmpty \/ iFifoRead
    BY <1>4, ByteTakenTyped
  <1>5. CASE ReadHeader \/ ReadBlock
    BY <1>5, BlockTyped
  <1>6. CASE UNCHANGED vars
    BY <1>6, TypedStutter
  <1> QED
    BY <1>1, <1>2, <1>3, <1>4, <1>5, <1>6 DEF Next

\* Every variable keeps its type, and what the processor is given lies within
\* what the wrapper was asked for (btblwrap.c).
THEOREM FirstStageTyped == Spec => []Typed
  <1> QED
    BY InitTyped, TypedStep, PTL DEF Spec

\* Whatever the flash reads wrongly, the fifo of the I2C and the SPI reader
\* (iblinit.c) keeps its indices within the buffer, and neither the wrapper nor
\* the boot table processor is ever given more than it asked for.
THEOREM FirstStageTypes == Spec => []TypeOK
  <1>1. Typed => TypeOK
    <2> SUFFICES ASSUME Typed PROVE TypeOK
      OBVIOUS
    <2>1. /\ pc \in {"main", "map", "config", "boot", "pull", "read", "take", "header",
                     "block", "process", "entered", "failed"}
      BY Stages DEF Typed
    <2>2. readAddress \in Nat \cup {NoAddress} /\ busAddress \in Int
      BY DEF Typed, AddressesTyped
    <2>3. /\ iFifoIn \in 0 .. I_MAX_BLOCK_SIZE
          /\ iFifoOut \in 0 .. I_MAX_BLOCK_SIZE - 1
          /\ iData \in [1 .. I_MAX_BLOCK_SIZE -> 0 .. 255]
      BY DEF Typed, FifoTyped, Bytes
    <2>4. len \in 0 .. 2^16 - 1
      BY DEF Typed, FifoTyped, Word, AllOnes
    <2>5. /\ inst.state \in {"INIT", "SIZE", "ADDR", "DATA", "PAD", "FLUSH"}
          /\ inst.f_wait_lsw \in BOOLEAN
          /\ inst.data_size_uint16 \in 0 .. TI_BTBL_BLOCK_SIZE
      BY Sizes DEF Typed, LoaderTyped, Instances, BootStates
    <2>6. /\ wrap.blockSize \in 0 .. TI_BTBL_BLOCK_SIZE
          /\ Len(wrap.data) <= wrap.blockSize
          /\ DOMAIN memory = 0 .. MemoryLen - 1
      BY DEF Typed, LoaderTyped, Wrappers, Shared
    <2>7. faults \in 0 .. MaxFaults
      BY DEF Typed, CountsTyped
    <2> QED
      BY <2>1, <2>2, <2>3, <2>4, <2>5, <2>6, <2>7 DEF TypeOK
  <1> QED
    BY <1>1, FirstStageTyped, PTL

-----------------------------------------------------------------------------
(* What is copied to memory.                                               *)

\* Sections do not overlap, so that a byte of the program has one place.
LEMMA ImageByteIs ==
    ASSUME NEW im \in Images, NEW k \in 1 .. Len(im.sections), NEW a \in Nat,
           Covers(im.sections[k], a)
    PROVE  ImageByte(im, a) = im.sections[k].data[a - im.sections[k].addr + 1]
  <1> DEFINE N == Len(im.sections)
             S(j) == im.sections[j]
             c == CHOOSE j \in DOMAIN im.sections : Covers(S(j), a)
  <1>1. /\ N \in Nat /\ DOMAIN im.sections = 1 .. N
        /\ \A j \in 1 .. N : S(j).addr \in Nat /\ Len(S(j).data) \in Nat
        /\ \A j, l \in 1 .. N :
               j # l => \/ S(j).addr + Len(S(j).data) <= S(l).addr
                        \/ S(l).addr + Len(S(l).data) <= S(j).addr
    BY ImageSections DEF IsSection, Is32Bit
  <1>2. c \in 1 .. N /\ Covers(S(c), a)
    BY <1>1
  <1> HIDE DEF c
  <1>3. ASSUME c # k PROVE FALSE
    <2> DEFINE x == S(c).addr
               y == S(k).addr
               u == Len(S(c).data)
               v == Len(S(k).data)
    <2>1. a \in x .. x + u - 1 /\ a \in y .. y + v - 1
      BY <1>2 DEF Covers
    <2>2. x \in Nat /\ y \in Nat /\ u \in Nat /\ v \in Nat /\ (x + u <= y \/ y + v <= x)
      BY <1>1, <1>2, <1>3
    <2> HIDE DEF x, y, u, v
    <2> QED
      BY <2>1, <2>2
  <1>4. ImageByte(im, a) = S(c).data[a - S(c).addr + 1]
    BY DEF ImageByte, c
  <1> QED
    BY <1>3, <1>4

\* The words at hand are those of the table from where it has been read to.
AreOf(words, p, n, t, at) == \A j \in 0 .. n - 1 : words[p + j] = WordAt(t, at + 2 * j)

\* Byte r of the words at hand is byte r of the table from where they are.
LEMMA TableByteIs ==
    ASSUME NEW t \in Seq(Bytes), NEW at \in Nat, NEW n \in Nat, at + 2 * n <= Len(t),
           NEW words, NEW p \in Nat, AreOf(words, p, n, t, at),
           NEW r \in 0 .. 2 * n - 1
    PROVE  TableByte(words, p, r) = t[at + r + 1]
  <1> DEFINE j == r \div 2
             x == t[at + 2 * j + 1]
             y == t[at + 2 * j + 2]
  <1>1. /\ j \in 0 .. n - 1 /\ r = 2 * j + (r % 2) /\ r % 2 \in {0, 1}
        /\ at + 2 * j + 1 \in 1 .. Len(t) /\ at + 2 * j + 2 \in 1 .. Len(t)
    OBVIOUS
  <1>2. words[p + j] = Word16(x, y)
    BY <1>1 DEF AreOf, WordAt
  <1>3. x \in Bytes /\ y \in Bytes
    BY <1>1, Element
  <1>4. Word16(x, y) \div 2^8 = x /\ Word16(x, y) % 2^8 = y
    <2> HIDE DEF x, y
    <2>1. x \in Nat /\ x <= 255 /\ y \in Nat /\ y <= 255
      BY <1>3 DEF Bytes
    <2>2. (256 * x + y) \div 256 = x /\ (256 * x + y) % 256 = y
      BY <2>1, SMT
    <2> QED
      BY <2>2, SMT DEF Word16
  <1>5. TableByte(words, p, r) = IF r % 2 = 0 THEN words[p + j] \div 2^8 ELSE words[p + j] % 2^8
    BY DEF TableByte
  <1> HIDE DEF j
  <1>6. CASE r % 2 = 0
    <2>1. at + r + 1 = at + 2 * j + 1
      BY <1>1, <1>6
    <2> QED
      BY <1>2, <1>4, <1>5, <1>6, <2>1
  <1>7. CASE r % 2 = 1
    <2>1. at + r + 1 = at + 2 * j + 2
      BY <1>1, <1>7
    <2> QED
      BY <1>2, <1>4, <1>5, <1>7, <2>1
  <1> QED
    BY <1>1, <1>6, <1>7

\* Which byte of a section the table has at an offset, from 0, of its data.
DataOffset(L, e, at) ==
    IF e = "little" /\ at < L - (L % 4) THEN 4 * (at \div 4) + 4 - (at % 4) ELSE at + 1

\* A part of a section that is copied at once: whole elements, or its rest.
IsPart(done, b, L) == done % 4 = 0 /\ done + b <= L /\ (b % 4 = 0 \/ done + b = L)

\* The elements are stored in the order of the device.
LEMMA SourceOffsets ==
    ASSUME NEW b \in Nat, NEW L \in Nat, NEW done \in Nat, IsPart(done, b, L), NEW e,
           NEW q \in 0 .. b - 1
    PROVE  /\ SourceOffset(q, b, e) \in 0 .. b - 1
           /\ done + SourceOffset(q, b, e) \in 0 .. L - 1
           /\ DataOffset(L, e, done + SourceOffset(q, b, e)) = done + q + 1
  <1> DEFINE wb == b - (b % 4)
             whole == L - (L % 4)
             r == SourceOffset(q, b, e)
             back == 4 * (q \div 4) + 3 - (q % 4)
             at == done + r
  <1> USE DEF IsPart
  <1>1. /\ q \in Nat /\ q < b /\ wb \in Nat /\ wb <= b /\ whole \in Nat /\ whole <= L
        /\ wb % 4 = 0 /\ whole % 4 = 0
    OBVIOUS
  <1>2. q < wb <=> done + q < whole
    <2>1. CASE b % 4 = 0
      <3>1. wb = b /\ done + b <= whole
        BY <2>1
      <3> QED
        BY <1>1, <3>1
    <2>2. CASE b % 4 # 0
      <3>1. done + b = L /\ done + wb = whole
        BY <2>2
      <3> HIDE DEF wb, whole
      <3> QED
        BY <1>1, <3>1
    <2> QED
      BY <2>1, <2>2
  <1>3. CASE e = "little" /\ q < wb
    <2>1. r = back
      BY <1>3 DEF SourceOffset
    <2>2. back \in Nat /\ back < wb /\ (done + back) % 4 = 3 - (q % 4)
          /\ 4 * ((done + back) \div 4) = done + 4 * (q \div 4)
      BY <1>1, <1>3
    <2>3. done + back < whole
      <3>1. CASE b % 4 = 0
        <4>1. wb = b /\ done + b <= whole
          BY <3>1
        <4> HIDE DEF back, wb, whole
        <4> QED
          BY <1>1, <2>2, <4>1
      <3>2. CASE b % 4 # 0
        <4>1. done + b = L /\ done + wb = whole
          BY <3>2
        <4> HIDE DEF back, wb, whole
        <4> QED
          BY <1>1, <2>2, <4>1
      <3> QED
        BY <3>1, <3>2
    <2>4. 4 * ((done + back) \div 4) + 4 - ((done + back) % 4) = done + q + 1
      <3>1. q = 4 * (q \div 4) + (q % 4) /\ q % 4 \in 0 .. 3
        BY <1>1
      <3> DEFINE f == 4 * ((done + back) \div 4)
                 g == (done + back) % 4
                 q4 == 4 * (q \div 4)
                 q1 == q % 4
      <3>2. q4 \in Nat /\ q1 \in Nat /\ f = done + q4 /\ g = 3 - q1 /\ q = q4 + q1
        BY <1>1, <2>2, <3>1
      <3> HIDE DEF f, g, q4, q1
      <3>3. f + 4 - g = done + q + 1
        BY <3>2
      <3> QED
        BY <3>3 DEF f, g
    <2>5. back \in 0 .. b - 1 /\ done + back \in 0 .. L - 1
      <3> HIDE DEF back, wb, whole
      <3> QED
        BY <1>1, <2>2
    <2> HIDE DEF back
    <2> QED
      BY <1>3, <2>1, <2>3, <2>4, <2>5 DEF DataOffset
  <1>4. CASE ~ (e = "little" /\ q < wb)
    <2>1. r = q
      BY <1>4 DEF SourceOffset
    <2>2. ~ (e = "little" /\ done + q < whole)
      BY <1>2, <1>4
    <2>3. done + q \in 0 .. L - 1
      BY <1>1
    <2> QED
      BY <2>1, <2>2, <2>3 DEF DataOffset
  <1> QED
    BY <1>3, <1>4

LEMMA InSection ==
    ASSUME NEW x \in Nat, NEW done \in Nat, NEW b \in Nat, NEW L \in Nat, done + b <= L,
           NEW a \in Nat
    PROVE  /\ a \in x + done .. x + done + b - 1 =>
                  /\ a - (x + done) \in 0 .. b - 1 /\ done + (a - (x + done)) + 1 = a - x + 1
                  /\ a \in x .. x + L - 1 /\ x <= a /\ a < x + (done + b)
           /\ a \notin x + done .. x + done + b - 1 =>
                  (x <= a /\ a < x + (done + b) <=> x <= a /\ a < x + done)
  OBVIOUS

\* The words at hand go to where the section has come to (coreCopyData).
LEMMA SectionCopied ==
    ASSUME NEW im \in Images, NEW e, NEW k \in Nat, k < Len(im.sections), NEW done \in Nat,
           NEW n \in Nat, done % 4 = 0, done + 2 * n <= Len(im.sections[k + 1].data),
           (2 * n) % 4 = 0 \/ done + 2 * n = Len(im.sections[k + 1].data),
           NEW words, NEW p \in Nat,
           AreOf(words, p, n, Table(im, e), Start(im, e, k) + 8 + done),
           NEW mem, Filled(im, k, done, mem)
    PROVE  Filled(im, k, done + 2 * n,
                  coreCopyData(mem, im.sections[k + 1].addr + done, words, p, 2 * n, e))
  <1> DEFINE s == im.sections[k + 1]
             L == Len(s.data)
             b == 2 * n
             dest == s.addr + done
             t == Table(im, e)
             from == Start(im, e, k)
             copy == coreCopyData(mem, dest, words, p, b, e)
             src(q) == SourceOffset(q, b, e)
             M == 0 .. MemoryLen - 1
             was(a) == IF InPlace(im, k, done, a) THEN ImageByte(im, a) ELSE Untouched
             is(a) == IF InPlace(im, k, done + b, a) THEN ImageByte(im, a) ELSE Untouched
  <1>1. k + 1 \in 1 .. Len(im.sections) /\ IsSection(s) /\ (k + 1) - 1 = k
    <2>1. Len(im.sections) \in Nat /\ \A j \in 1 .. Len(im.sections) : IsSection(im.sections[j])
      BY ONLY ImageSections, im \in Images
    <2>2. k + 1 \in 1 .. Len(im.sections) /\ (k + 1) - 1 = k
      BY ONLY <2>1, k \in Nat, k < Len(im.sections)
    <2> QED
      BY ONLY <2>1, <2>2
  <1>2. /\ s.addr \in Nat /\ L \in Nat /\ s.data \in Seq(Bytes) /\ b \in Nat /\ dest \in Nat
        /\ done + b <= L /\ (b % 4 = 0 \/ done + b = L)
    <2>1. s.addr \in Nat /\ L \in Nat /\ s.data \in Seq(Bytes)
      BY ONLY <1>1 DEF IsSection, Is32Bit
    <2> HIDE DEF s
    <2>2. b \in Nat /\ s.addr + done \in Nat
      BY ONLY <2>1, n \in Nat, done \in Nat
    <2>3. done + b <= L /\ (b % 4 = 0 \/ done + b = L)
      BY DEF s
    <2> QED
      BY ONLY <2>1, <2>2, <2>3 DEF s
  <1>3. /\ t \in Seq(Bytes) /\ from \in Nat /\ Len(t) \in Nat
        /\ \A i \in 1 .. SectionSize(s) : t[from + i] = SectionTable(s, e)[i]
        /\ from + SectionSize(s) <= Len(t)
    <2>1. /\ t \in Seq(Bytes) /\ from \in Nat /\ Len(t) = Start(im, e, Len(im.sections)) + 4
          /\ Start(im, e, k + 1) = from + SectionSize(s)
          /\ Start(im, e, k + 1) <= Start(im, e, Len(im.sections))
          /\ \A i \in 1 .. SectionSize(s) : t[from + i] = SectionTable(s, e)[i]
      <3>1. \A j \in 1 .. Len(im.sections) :
                /\ Start(im, e, j - 1) \in Nat
                /\ Start(im, e, j) = Start(im, e, j - 1) + SectionSize(im.sections[j])
                /\ Start(im, e, j) <= Start(im, e, Len(im.sections))
                /\ \A i \in 1 .. SectionSize(im.sections[j]) :
                       t[Start(im, e, j - 1) + i] = SectionTable(im.sections[j], e)[i]
        BY SMTT(30), TableBytes
      <3>2. t \in Seq(Bytes) /\ Len(t) = Start(im, e, Len(im.sections)) + 4
        BY TableBytes
      <3> DEFINE l == k + 1
      <3>3. l \in 1 .. Len(im.sections) /\ l - 1 = k
        BY <1>1
      <3> HIDE DEF l, t
      <3>4. /\ Start(im, e, l - 1) \in Nat
            /\ Start(im, e, l) = Start(im, e, l - 1) + SectionSize(im.sections[l])
            /\ Start(im, e, l) <= Start(im, e, Len(im.sections))
            /\ \A i \in 1 .. SectionSize(im.sections[l]) :
                   t[Start(im, e, l - 1) + i] = SectionTable(im.sections[l], e)[i]
        BY <3>1, <3>3
      <3> QED
        BY <3>2, <3>3, <3>4 DEF l
    <2>2. Start(im, e, k + 1) \in Nat /\ Start(im, e, Len(im.sections)) \in Nat
      <3>1. k + 1 \in 0 .. Len(im.sections) /\ Len(im.sections) \in 0 .. Len(im.sections)
        BY <1>1
      <3> QED
        BY <3>1, StartsAligned
    <2>3. SectionSize(s) \in Nat
      BY <1>1, SectionTableBytes
    <2> HIDE DEF t, from, s
    <2> QED
      BY SMTT(30), <2>1, <2>2, <2>3
  <1>4. /\ SectionSize(s) \in Nat /\ SectionSize(s) >= 8 + L
        /\ \A i \in 1 .. L : SectionTable(s, e)[8 + i] = Body(s.data, e)[i]
    BY <1>1, SectionTableBytes
  <1>5. \A q \in 0 .. L - 1 :
            Body(s.data, e)[q + 1]
                = s.data[DataOffset(L, e, q)]
    <2>1. \A q \in 0 .. L - 1 :
              IF e = "little" /\ q < L - (L % 4)
              THEN Body(s.data, e)[q + 1] = s.data[4 * (q \div 4) + 4 - (q % 4)]
              ELSE Body(s.data, e)[q + 1] = s.data[q + 1]
      BY <1>2, BodyBytes
    <2> HIDE DEF s, L
    <2> QED
      BY <2>1 DEF DataOffset
  <1> HIDE DEF L, t, from
  <1>6. ASSUME NEW q \in 0 .. b - 1
        PROVE  TableByte(words, p, src(q)) = s.data[done + q + 1]
    <2> DEFINE r == src(q)
               o == done + r
    <2>1. /\ r \in 0 .. b - 1 /\ o \in 0 .. L - 1
          /\ DataOffset(L, e, o) = done + q + 1
      <3> HIDE DEF b
      <3>1. b \in Nat /\ L \in Nat /\ IsPart(done, b, L) /\ q \in 0 .. b - 1
        BY <1>2, <1>6 DEF IsPart
      <3> QED
        BY ONLY <3>1, SourceOffsets, done \in Nat
    <2> HIDE DEF r
    <2>2. from + 8 + done \in Nat /\ (from + 8 + done) + 2 * n <= Len(t)
      <3>1. /\ SectionSize(s) \in Nat /\ SectionSize(s) >= 8 + L /\ L \in Nat /\ from \in Nat
            /\ from + SectionSize(s) <= Len(t) /\ Len(t) \in Nat /\ done + b <= L
        BY <1>2, <1>3, <1>4
      <3> DEFINE size == SectionSize(s)
                 lt == Len(t)
      <3>2. /\ size \in Nat /\ size >= 8 + L /\ L \in Nat /\ from \in Nat
            /\ from + size <= lt /\ lt \in Nat /\ done + 2 * n <= L
        BY <3>1
      <3> HIDE DEF size, lt
      <3>3. from + 8 + done \in Nat /\ (from + 8 + done) + 2 * n <= lt
        BY ONLY <3>2, done \in Nat, n \in Nat
      <3> QED
        BY <3>3 DEF lt
    <2>3. AreOf(words, p, n, t, from + 8 + done)
      BY DEF t, from
    <2>4. TableByte(words, p, r) = t[(from + 8 + done) + r + 1]
      <3> DEFINE at == from + 8 + done
      <3>1. at \in Nat /\ at + 2 * n <= Len(t) /\ r \in 0 .. 2 * n - 1
            /\ AreOf(words, p, n, t, at) /\ t \in Seq(Bytes)
        BY <1>3, <2>1, <2>2, <2>3
      <3> HIDE DEF at
      <3>2. TableByte(words, p, r) = t[at + r + 1]
        BY ONLY <3>1, TableByteIs, n \in Nat, p \in Nat
      <3> QED
        BY <3>2 DEF at
    <2>5. /\ (from + 8 + done) + r + 1 = from + (8 + (o + 1))
          /\ 8 + (o + 1) \in 1 .. SectionSize(s) /\ o + 1 \in 1 .. L
      <3> HIDE DEF s
      <3> QED
        BY SMTT(30), <1>2, <1>3, <1>4, <2>1
    <2> HIDE DEF o
    <2>6. t[from + (8 + (o + 1))] = SectionTable(s, e)[8 + (o + 1)]
      BY <1>3, <2>5
    <2>7. SectionTable(s, e)[8 + (o + 1)] = Body(s.data, e)[o + 1]
      BY <1>4, <2>5
    <2>8. Body(s.data, e)[o + 1] = s.data[done + q + 1]
      <3>1. Body(s.data, e)[o + 1] = s.data[DataOffset(L, e, o)]
        BY <1>5, <2>1
      <3> QED
        BY <2>1, <3>1, Zenon
    <2> QED
      BY <2>4, <2>5, <2>6, <2>7, <2>8 DEF r
  <1>7. mem = [a \in M |-> was(a)] /\ DOMAIN mem = M
    BY DEF Filled
  <1>8. ASSUME NEW a \in M
        PROVE  (IF a \in dest .. dest + b - 1 THEN TableByte(words, p, src(a - dest))
                ELSE mem[a]) = is(a)
    <2>1. MemoryLen \in Nat /\ a \in Nat
      BY Sizes
    <2>2. CASE a \in dest .. dest + b - 1
      <3>1. a - dest \in 0 .. b - 1 /\ done + (a - dest) + 1 = a - s.addr + 1
            /\ a \in s.addr .. s.addr + L - 1 /\ s.addr <= a /\ a < s.addr + (done + b)
        <4> DEFINE x == s.addr
        <4>1. /\ x \in Nat /\ L \in Nat /\ b \in Nat /\ done + b <= L
              /\ a \in x + done .. x + done + b - 1
          BY <1>2, <2>2
        <4> HIDE DEF x, b
        <4>2. /\ a - (x + done) \in 0 .. b - 1 /\ done + (a - (x + done)) + 1 = a - x + 1
              /\ a \in x .. x + L - 1 /\ x <= a /\ a < x + (done + b)
          BY ONLY <2>1, <4>1, InSection, done \in Nat
        <4> QED
          BY <4>2 DEF x
      <3>2. Covers(s, a)
        BY <3>1 DEF Covers, L
      <3>3. ImageByte(im, a) = s.data[a - s.addr + 1]
        BY ONLY <1>1, <2>1, <3>2, ImageByteIs, im \in Images DEF s
      <3>4. InPlace(im, k, done + b, a)
        BY <3>1 DEF InPlace, s
      <3>5. TableByte(words, p, src(a - dest)) = s.data[done + (a - dest) + 1]
        BY <1>6, <3>1
      <3> QED
        BY <2>2, <3>1, <3>3, <3>4, <3>5
    <2>3. CASE a \notin dest .. dest + b - 1
      <3>1. s.addr <= a /\ a < s.addr + (done + b) <=> s.addr <= a /\ a < s.addr + done
        <4> DEFINE x == s.addr
        <4>1. /\ x \in Nat /\ L \in Nat /\ b \in Nat /\ done + b <= L
              /\ a \notin x + done .. x + done + b - 1
          BY <1>2, <2>3
        <4> HIDE DEF x, b
        <4>2. x <= a /\ a < x + (done + b) <=> x <= a /\ a < x + done
          BY ONLY <2>1, <4>1, InSection, done \in Nat
        <4> QED
          BY <4>2 DEF x
      <3>2. InPlace(im, k, done + b, a) <=> InPlace(im, k, done, a)
        BY <3>1 DEF InPlace, s
      <3>3. mem[a] = was(a)
        BY <1>7
      <3> HIDE DEF dest, b
      <3> QED
        BY <2>3, <3>2, <3>3
    <2> QED
      BY <2>2, <2>3
  <1>9. copy = [a \in M |-> IF a \in dest .. dest + b - 1 THEN TableByte(words, p, src(a - dest))
                            ELSE mem[a]]
    BY <1>7 DEF coreCopyData
  <1> HIDE DEF src, is, was, dest, b, M, copy
  <1>10. copy = [a \in M |-> is(a)]
    BY <1>8, <1>9
  <1> QED
    BY <1>10 DEF Filled, is, b, M, copy, dest

\* A section all of which has been copied is one more in place.
LEMMA SectionInPlace ==
    ASSUME NEW im \in Images, NEW k \in Nat, k < Len(im.sections), NEW mem,
           Filled(im, k, Len(im.sections[k + 1].data), mem)
    PROVE  Filled(im, k + 1, 0, mem)
  <1> DEFINE s == im.sections[k + 1]
             L == Len(s.data)
             N == Len(im.sections)
  <1>1. /\ N \in Nat /\ k + 1 \in 1 .. N
        /\ \A j \in 1 .. N : im.sections[j].addr \in Nat /\ Len(im.sections[j].data) \in Nat
    <2>1. N \in Nat /\ \A j \in 1 .. N : IsSection(im.sections[j])
      BY ImageSections
    <2>2. \A j \in 1 .. N : im.sections[j].addr \in Nat /\ Len(im.sections[j].data) \in Nat
      BY <2>1 DEF IsSection, Is32Bit
    <2> QED
      BY <2>1, <2>2
  <1>2. ASSUME NEW a \in 0 .. MemoryLen - 1
        PROVE  InPlace(im, k, L, a) <=> InPlace(im, k + 1, 0, a)
    <2>1. MemoryLen \in Nat /\ a \in Nat
      BY Sizes
    <2>2. (s.addr <= a /\ a < s.addr + L) <=> Covers(s, a)
      <3>1. s.addr \in Nat /\ L \in Nat
        BY <1>1
      <3> QED
        BY SMTT(30), <2>1, <3>1 DEF Covers
    <2>3. (\E j \in 1 .. k + 1 : Covers(im.sections[j], a))
              <=> Covers(s, a) \/ \E j \in 1 .. k : Covers(im.sections[j], a)
      <3>1. \A j \in 1 .. k + 1 : j = k + 1 \/ j \in 1 .. k
        OBVIOUS
      <3>2. k + 1 \in 1 .. k + 1 /\ \A j \in 1 .. k : j \in 1 .. k + 1
        OBVIOUS
      <3> QED
        BY <3>1, <3>2
    <2>4. ~ (k + 1 < N /\ im.sections[k + 1 + 1].addr <= a
             /\ a < im.sections[k + 1 + 1].addr + 0)
      <3>1. CASE k + 1 < N
        <4>1. k + 1 + 1 \in 1 .. N
          BY <1>1, <3>1
        <4>2. im.sections[k + 1 + 1].addr \in Nat
          BY <1>1, <4>1
        <4> QED
          BY <2>1, <4>2
      <3> QED
        BY <3>1
    <2> HIDE DEF L
    <2>5. InPlace(im, k, L, a) <=>
              (\E j \in 1 .. k : Covers(im.sections[j], a)) \/ (s.addr <= a /\ a < s.addr + L)
      BY DEF InPlace, s
    <2>6. InPlace(im, k + 1, 0, a) <=> \E j \in 1 .. k + 1 : Covers(im.sections[j], a)
      BY <2>4 DEF InPlace
    <2> QED
      BY <2>2, <2>3, <2>5, <2>6
  <1> HIDE DEF L
  <1> QED
    BY <1>2 DEF Filled, L

-----------------------------------------------------------------------------
(* The processor follows the table.                                        *)

\* What the table has where section k + 1, or its end, is due.
SectionAt(im, e, k) ==
    LET t == Table(im, e)
        N == Len(im.sections)
        from == Start(im, e, k)
    IN /\ from \in Nat /\ from % 4 = 0 /\ Len(t) \in Nat /\ from + 4 <= Len(t)
       /\ k < N =>
              LET s == im.sections[k + 1]
              IN /\ Is32Bit(s.addr) /\ s.addr \in Nat /\ Is32Bit(Len(s.data))
                 /\ Len(s.data) \in Nat /\ Len(s.data) > 0 /\ Len(s.data) % 2 = 0
                 /\ Len(s.data) <= MemoryLen
                 /\ Start(im, e, k + 1) = from + 8 + RoundedUp(Len(s.data))
                 /\ from + 8 + RoundedUp(Len(s.data)) + 4 <= Len(t)
                 /\ WordAt(t, from) = Len(s.data) \div 2^16
                 /\ WordAt(t, from + 2) = Len(s.data) % 2^16
                 /\ WordAt(t, from + 4) = s.addr \div 2^16
                 /\ WordAt(t, from + 6) = s.addr % 2^16
       /\ k = N => /\ from + 4 = Len(t)
                   /\ WordAt(t, from) = 0 /\ WordAt(t, from + 2) = 0

HasBytes(t, from, s, size) == \A i \in 1 .. size : t[from + i] = s[i]

SameWords(t, from, s) ==
    /\ WordAt(t, from) = WordAt(s, 0) /\ WordAt(t, from + 2) = WordAt(s, 2)
    /\ WordAt(t, from + 4) = WordAt(s, 4) /\ WordAt(t, from + 6) = WordAt(s, 6)

LEMMA WordOfSection ==
    ASSUME NEW t, NEW from \in Nat, NEW s, NEW size \in Nat, size >= 8,
           HasBytes(t, from, s, size)
    PROVE  SameWords(t, from, s)
  <1>1. ASSUME NEW j \in {0, 2, 4, 6}
        PROVE  t[from + j + 1] = s[j + 1] /\ t[from + j + 2] = s[j + 2]
    <2>1. j + 1 \in 1 .. size /\ j + 2 \in 1 .. size
          /\ from + j + 1 = from + (j + 1) /\ from + j + 2 = from + (j + 2)
      OBVIOUS
    <2>2. t[from + (j + 1)] = s[j + 1] /\ t[from + (j + 2)] = s[j + 2]
      BY <2>1 DEF HasBytes
    <2> QED
      BY ONLY <2>1, <2>2
  <1>2. /\ t[from + 0 + 1] = s[0 + 1] /\ t[from + 0 + 2] = s[0 + 2]
        /\ t[from + 2 + 1] = s[2 + 1] /\ t[from + 2 + 2] = s[2 + 2]
        /\ t[from + 4 + 1] = s[4 + 1] /\ t[from + 4 + 2] = s[4 + 2]
        /\ t[from + 6 + 1] = s[6 + 1] /\ t[from + 6 + 2] = s[6 + 2]
    BY <1>1
  <1>3. from + 0 = from
    OBVIOUS
  <1> QED
    BY ONLY <1>2, <1>3 DEF WordAt, SameWords

LEMMA SectionsAt ==
    ASSUME NEW im \in Images, NEW e, NEW k \in 0 .. Len(im.sections)
    PROVE  SectionAt(im, e, k)
  <1> DEFINE t == Table(im, e)
             N == Len(im.sections)
             from == Start(im, e, k)
  <1>1. N \in Nat /\ k \in Nat /\ k <= N
    BY ImageSections
  <1>2. from \in Nat /\ from % 4 = 0 /\ Len(t) \in Nat /\ Start(im, e, N) \in Nat
    <2>1. N \in 0 .. N
      BY <1>1
    <2> QED
      BY <2>1, StartsAligned
  <1>3. Len(t) = Start(im, e, N) + 4
    BY TableBytes
  <1>4. CASE k = N
    <2>1. WordAt(t, Start(im, e, N)) = 0 /\ WordAt(t, Start(im, e, N) + 2) = 0
      BY TableBytes
    <2> HIDE DEF t
    <2>2. from + 4 = Len(t) /\ from + 4 <= Len(t)
      BY <1>2, <1>3, <1>4
    <2>3. ~ (k < N)
      BY <1>1, <1>4
    <2> HIDE DEF from, N
    <2> QED
      BY <1>2, <1>4, <2>1, <2>2, <2>3 DEF SectionAt, t, from, N
  <1>5. CASE k < N
    <2> DEFINE l == k + 1
               s == im.sections[l]
               L == Len(s.data)
    <2>1. l \in 1 .. N /\ l - 1 = k /\ l \in 0 .. N /\ k # N
      BY <1>1, <1>5
    <2>2. IsSection(s)
      BY <2>1, ImageSections
    <2> HIDE DEF l
    <2>3. /\ Start(im, e, l) = Start(im, e, l - 1) + SectionSize(im.sections[l])
          /\ Start(im, e, l) <= Start(im, e, N)
          /\ \A i \in 1 .. SectionSize(im.sections[l]) :
                 t[Start(im, e, l - 1) + i] = SectionTable(im.sections[l], e)[i]
      BY ZenonT(60), <2>1, TableBytes
    <2>4. /\ SectionSize(s) \in Nat /\ SectionSize(s) >= 8 + L
          /\ WordAt(SectionTable(s, e), 0) = L \div 2^16
          /\ WordAt(SectionTable(s, e), 2) = L % 2^16
          /\ WordAt(SectionTable(s, e), 4) = s.addr \div 2^16
          /\ WordAt(SectionTable(s, e), 6) = s.addr % 2^16
      BY <2>2, SectionTableBytes
    <2>5. /\ L \in Nat /\ Is32Bit(L) /\ L > 0 /\ L % 2 = 0 /\ Is32Bit(s.addr) /\ s.addr \in Nat
          /\ s.addr + L <= MemoryLen /\ MemoryLen \in Nat
      BY <2>2, Sizes DEF IsSection, Is32Bit
    <2>6. /\ WordAt(t, from) = L \div 2^16 /\ WordAt(t, from + 2) = L % 2^16
          /\ WordAt(t, from + 4) = s.addr \div 2^16 /\ WordAt(t, from + 6) = s.addr % 2^16
      <3> DEFINE size == SectionSize(s)
                 st == SectionTable(s, e)
      <3>1. HasBytes(t, from, st, size)
        BY <2>1, <2>3 DEF HasBytes
      <3>2. size \in Nat /\ size >= 8
        BY SMTT(30), <2>4, <2>5
      <3> HIDE DEF size, st, t, from, L
      <3>3. SameWords(t, from, st)
        BY ONLY <1>2, <3>1, <3>2, WordOfSection
      <3> QED
        BY <2>4, <3>3 DEF st, SameWords
    <2>7. /\ Start(im, e, l) = from + 8 + RoundedUp(L)
          /\ from + 8 + RoundedUp(L) + 4 <= Len(t) /\ from + 4 <= Len(t) /\ L <= MemoryLen
      <3>1. SectionSize(s) = 8 + RoundedUp(L) /\ RoundedUp(L) \in Nat
        BY <2>5, Rounding DEF SectionSize
      <3> DEFINE r == RoundedUp(L)
                 x == Start(im, e, l)
                 y == Start(im, e, N)
      <3>2. x = from + SectionSize(s) /\ x <= y
        BY <2>1, <2>3
      <3> HIDE DEF r, t, from, x, y, s, L
      <3>3. r \in Nat /\ SectionSize(s) = 8 + r /\ y \in Nat /\ Len(t) = y + 4
        BY <1>2, <1>3, <3>1 DEF r, y
      <3>4. x = from + 8 + r /\ from + 8 + r + 4 <= Len(t) /\ from + 4 <= Len(t)
        BY ONLY <1>2, <3>2, <3>3
      <3>5. L <= MemoryLen
        BY ONLY <2>5
      <3> QED
        BY <3>4, <3>5 DEF r, x
    <2> HIDE DEF t, from, N
    <2> QED
      BY <1>2, <2>1, <2>5, <2>6, <2>7 DEF SectionAt, t, from, N, l
  <1> QED
    BY <1>1, <1>4, <1>5

\* The processor holds n words of the table, which has been read from there on.
Ready(im, e, i, words, at, left, k, done, mem) ==
    /\ Parsed(im, e, i, at, left, k, done, mem)
    /\ i.data_size_uint16 # 0 /\ 2 * i.data_size_uint16 <= left
    /\ AreOf(words, i.p_data, i.data_size_uint16, Table(im, e), at)
    /\ i.state = "DATA" => \/ 2 * i.data_size_uint16 = left
                           \/ (2 * i.data_size_uint16) % 4 = 0

\* It has taken the words it does not hold any more.
Turned(im, e, i, o, at, left, mem) ==
    /\ Continued(im, e, o, at + 2 * (i.data_size_uint16 - o.data_size_uint16),
                 left - 2 * (i.data_size_uint16 - o.data_size_uint16), mem)
    /\ o.state = "DATA" => o.data_size_uint16 = 0

LEMMA FirstWord ==
    ASSUME NEW words, NEW p \in Nat, NEW n \in Nat, n # 0, NEW t, NEW at \in Nat,
           AreOf(words, p, n, t, at)
    PROVE  words[p] = WordAt(t, at)
  <1>1. 0 \in 0 .. n - 1 /\ p + 0 = p /\ at + 2 * 0 = at
    OBVIOUS
  <1>2. words[p + 0] = WordAt(t, at + 2 * 0)
    BY <1>1 DEF AreOf
  <1> QED
    BY ONLY <1>1, <1>2

LEMMA WordTaken ==
    ASSUME NEW n \in Nat, n # 0, NEW left \in Nat, 2 * n <= left, NEW at \in Nat
    PROVE  /\ left = 4 => at + 2 * (n - (n - 1)) = at + 2 /\ left - 2 * (n - (n - 1)) = 2
           /\ left = 2 => /\ n = 1 /\ n - 1 = 0
                          /\ at + 2 * (n - (n - 1)) = at + 2 /\ left - 2 * (n - (n - 1)) = 0
           /\ left # 0
           /\ at + 2 * (n - n) = at /\ left - 2 * (n - n) = left
           /\ at + 2 * (n - 0) = at + 2 * n /\ left - 2 * (n - 0) = left - 2 * n
           /\ left - 2 * n \in Nat
  OBVIOUS

LEMMA InstanceFields ==
    ASSUME NEW i \in Instances
    PROVE  /\ i.state \in BootStates /\ i.f_wait_lsw \in BOOLEAN /\ i.code_start_addr \in Nat
           /\ i.section_size_bytes \in Nat /\ i.section_addr \in Nat
           /\ i.p_data \in Nat /\ i.data_size_uint16 \in Nat
  BY DEF Instances

\* The entry point.
LEMMA InitTurned ==
    ASSUME NEW im \in Images, NEW e, NEW i \in Instances, i.state = "INIT", NEW words,
           NEW at \in Nat, NEW left \in Nat, NEW k \in 0 .. Len(im.sections),
           NEW done \in 0 .. MemoryLen, NEW mem,
           Ready(im, e, i, words, at, left, k, done, mem)
    PROVE  Turned(im, e, i, BootTblStep(i, words), at, left, mem)
  <1> DEFINE o == BootTblStep(i, words)
             w == words[i.p_data]
             n == i.data_size_uint16
             at2 == at + 2 * (n - o.data_size_uint16)
             left2 == left - 2 * (n - o.data_size_uint16)
  <1>1. /\ i.f_wait_lsw \in BOOLEAN /\ i.code_start_addr \in Nat /\ i.p_data \in Nat /\ n \in Nat
        /\ n # 0 /\ 2 * n <= left /\ AreOf(words, i.p_data, n, Table(im, e), at)
    BY InstanceFields DEF Ready
  <1>2. /\ done = 0 /\ k = 0 /\ Control(i, 0, at, left)
        /\ UpperOf(i, im.entry, i.code_start_addr) /\ Filled(im, 0, 0, mem)
    BY DEF Ready, Parsed
  <1>3. 0 \in 0 .. Len(im.sections) /\ 0 \in 0 .. MemoryLen
    BY ImageSections, Sizes
  <1>4. w = WordAt(Table(im, e), at)
    BY <1>1, FirstWord
  <1>5. /\ WordAt(Table(im, e), 0) = im.entry \div 2^16
        /\ WordAt(Table(im, e), 2) = im.entry % 2^16 /\ Start(im, e, 0) = 4
    BY TableBytes
  <1>6. Word32(im.entry \div 2^16, 0) + (im.entry % 2^16) = im.entry
    BY ImageSections, Halves
  <1>7. CASE ~ i.f_wait_lsw
    <2>1. Holds(o, "INIT", TRUE, Word32(w, 0), i.section_size_bytes, i.section_addr,
                i.p_data + 1, n - 1)
      BY <1>7, InitTurn
    <2> HIDE DEF o
    <2>2. at = 0 /\ left = 4
      BY <1>1, <1>2, <1>7 DEF Control
    <2>3. at2 = 0 + 2 /\ left2 = 2
      BY <1>1, <2>1, <2>2, WordTaken DEF Holds
    <2> HIDE DEF at2, left2, w
    <2>4. Parsed(im, e, o, at2, left2, 0, 0, mem)
      BY <1>2, <1>4, <1>5, <2>1, <2>2, <2>3 DEF Parsed, Holds, Control, UpperOf
    <2>5. Continued(im, e, o, at2, left2, mem) /\ o.state # "DATA"
      BY <1>3, <2>1, <2>4 DEF Continued, Holds
    <2> QED
      BY <2>5 DEF Turned, o, at2, left2
  <1>8. CASE i.f_wait_lsw
    <2>1. Holds(o, "SIZE", FALSE, i.code_start_addr + w, i.section_size_bytes,
                i.section_addr, i.p_data + 1, n - 1)
      BY <1>8, InitTurn
    <2> HIDE DEF o
    <2>2. at = 2 /\ left = 2 /\ i.code_start_addr = Word32(im.entry \div 2^16, 0)
      BY <1>2, <1>8 DEF Control, UpperOf
    <2>3. at2 = 4 /\ left2 = 0
      BY <1>1, <2>1, <2>2, WordTaken DEF Holds
    <2>4. o.code_start_addr = im.entry
      BY <1>4, <1>5, <1>6, <2>1, <2>2 DEF Holds
    <2> HIDE DEF at2, left2, w
    <2>5. InSize(im, e, o, at2, left2, 0)
      BY <1>5, <2>1, <2>3 DEF InSize, Holds, Control, UpperOf
    <2>6. Parsed(im, e, o, at2, left2, 0, 0, mem)
      BY <1>2, <2>1, <2>4, <2>5 DEF Parsed, Holds
    <2>7. Continued(im, e, o, at2, left2, mem) /\ o.state # "DATA"
      BY <1>3, <2>1, <2>6 DEF Continued, Holds
    <2> QED
      BY <2>7 DEF Turned, o, at2, left2
  <1> QED
    BY <1>1, <1>7, <1>8

\* The size of a section, or the end of the table.
LEMMA SizeTurned ==
    ASSUME NEW im \in Images, NEW e, NEW i \in Instances, i.state = "SIZE", NEW words,
           NEW at \in Nat, NEW left \in Nat, NEW k \in 0 .. Len(im.sections),
           NEW done \in 0 .. MemoryLen, NEW mem,
           Ready(im, e, i, words, at, left, k, done, mem)
    PROVE  Turned(im, e, i, BootTblStep(i, words), at, left, mem)
  <1> DEFINE o == BootTblStep(i, words)
             w == words[i.p_data]
             n == i.data_size_uint16
             at2 == at + 2 * (n - o.data_size_uint16)
             left2 == left - 2 * (n - o.data_size_uint16)
             from == Start(im, e, k)
             N == Len(im.sections)
             size == IF k < N THEN Len(im.sections[k + 1].data) ELSE 0
             t == Table(im, e)
  <1>1. /\ i.f_wait_lsw \in BOOLEAN /\ i.section_size_bytes \in Nat /\ i.p_data \in Nat /\ n \in Nat
        /\ n # 0 /\ 2 * n <= left /\ AreOf(words, i.p_data, n, t, at)
    BY InstanceFields DEF Ready
  <1>2. /\ done = 0 /\ Control(i, from, at, left) /\ i.code_start_addr = im.entry
        /\ UpperOf(i, size, i.section_size_bytes) /\ Filled(im, k, 0, mem)
    BY DEF Ready, Parsed, InSize
  <1>3. 0 \in 0 .. MemoryLen
    BY Sizes
  <1>4. w = WordAt(t, at)
    BY <1>1, FirstWord
  <1>5. SectionAt(im, e, k) /\ N \in Nat /\ k \in Nat /\ k <= N
    BY SectionsAt, ImageSections
  <1>6. /\ from \in Nat /\ Is32Bit(size) /\ size \in Nat
        /\ WordAt(t, from) = size \div 2^16 /\ WordAt(t, from + 2) = size % 2^16
        /\ size = 0 <=> k = N
        /\ k = N => from + 4 = Len(t)
        /\ k < N => size = Len(im.sections[k + 1].data)
    <2>1. Is32Bit(0) /\ 0 \in Nat /\ 0 \div 2^16 = 0 /\ 0 % 2^16 = 0
      BY DEF Is32Bit
    <2>2. CASE k < N
      <3>1. k # N
        BY <1>5, <2>2
      <3>2. size = Len(im.sections[k + 1].data)
        BY <2>2
      <3> HIDE DEF size
      <3>3. size \in Nat /\ size > 0
        BY <1>5, <2>2, <3>2 DEF SectionAt
      <3>4. size # 0
        BY <3>3
      <3> QED
        BY <1>5, <2>2, <3>1, <3>2, <3>3, <3>4 DEF SectionAt
    <2>3. CASE k = N
      <3>1. ~ (k < N)
        BY <1>5, <2>3
      <3>2. size = 0
        BY <3>1
      <3> HIDE DEF size
      <3> QED
        BY <1>5, <2>1, <2>3, <3>1, <3>2 DEF SectionAt
    <2> HIDE DEF size
    <2> QED
      BY <1>5, <2>2, <2>3
  <1> HIDE DEF size
  <1>7. Word32(size \div 2^16, 0) + (size % 2^16) = size
    BY <1>6, Halves
  <1>8. CASE ~ i.f_wait_lsw
    <2>1. Holds(o, "SIZE", TRUE, i.code_start_addr, Word32(w, 0), i.section_addr,
                i.p_data + 1, n - 1)
      BY <1>8, SizeTurn
    <2> HIDE DEF o
    <2>2. at = from /\ left = 4
      BY <1>1, <1>2, <1>8 DEF Control
    <2>3. at2 = from + 2 /\ left2 = 2
      BY <1>1, <2>1, <2>2, WordTaken DEF Holds
    <2>4. w = size \div 2^16
      BY <1>4, <1>6, <2>2
    <2> HIDE DEF at2, left2, w
    <2>5. InSize(im, e, o, at2, left2, k)
      BY <2>1, <2>3, <2>4 DEF InSize, Holds, Control, UpperOf, size
    <2>6. Parsed(im, e, o, at2, left2, k, 0, mem)
      BY <1>2, <2>1, <2>5 DEF Parsed, Holds
    <2>7. Continued(im, e, o, at2, left2, mem) /\ o.state # "DATA"
      BY <1>3, <2>1, <2>6 DEF Continued, Holds
    <2> QED
      BY <2>7 DEF Turned, o, at2, left2
  <1>9. CASE i.f_wait_lsw
    <2>1. /\ i.section_size_bytes + w # 0 =>
                 Holds(o, "ADDR", FALSE, i.code_start_addr, i.section_size_bytes + w,
                       i.section_addr, i.p_data + 1, n - 1)
          /\ i.section_size_bytes + w = 0 =>
                 Holds(o, "FLUSH", FALSE, i.code_start_addr, i.section_size_bytes,
                       i.section_addr, i.p_data, n)
      BY <1>9, SizeTurn
    <2> HIDE DEF o
    <2>2. at = from + 2 /\ left = 2 /\ i.section_size_bytes = Word32(size \div 2^16, 0)
      BY <1>2, <1>9 DEF Control, UpperOf
    <2>3. i.section_size_bytes + w = size
      BY <1>4, <1>6, <1>7, <2>2
    <2>4. CASE k < N
      <3>1. size # 0
        BY <1>5, <1>6, <2>4
      <3>2. Holds(o, "ADDR", FALSE, i.code_start_addr, size, i.section_addr, i.p_data + 1, n - 1)
        BY <2>1, <2>3, <3>1
      <3>3. at2 = at + 2 /\ left2 = 0
        BY <1>1, <2>2, <3>2, WordTaken DEF Holds
      <3>4. at2 = from + 4
        BY <1>6, <2>2, <3>3
      <3> HIDE DEF at2, left2, w
      <3>5. InAddr(im, e, o, at2, left2, k)
        BY <1>6, <2>4, <3>2, <3>3, <3>4 DEF InAddr, Holds, Control, UpperOf
      <3>6. Parsed(im, e, o, at2, left2, k, 0, mem)
        BY <1>2, <3>2, <3>5 DEF Parsed, Holds
      <3>7. Continued(im, e, o, at2, left2, mem) /\ o.state # "DATA"
        BY <1>3, <3>2, <3>6 DEF Continued, Holds
      <3> QED
        BY <3>7 DEF Turned, o, at2, left2
    <2>5. CASE k = N
      <3>1. Holds(o, "FLUSH", FALSE, i.code_start_addr, i.section_size_bytes, i.section_addr,
                  i.p_data, n)
        BY <1>6, <2>1, <2>3, <2>5
      <3>2. at2 = at /\ left2 = left /\ n = 1
        BY <1>1, <2>2, <3>1, WordTaken DEF Holds
      <3> HIDE DEF at2, left2, w, t
      <3>3. at2 + left2 = Len(t) /\ left2 = 2 * n
        BY <1>6, <2>2, <2>5, <3>2
      <3>4. InFlush(im, e, o, at2, left2, k)
        BY <2>5, <3>1, <3>3 DEF InFlush, Holds, t
      <3>5. Parsed(im, e, o, at2, left2, k, 0, mem)
        BY <1>2, <3>1, <3>4 DEF Parsed, Holds
      <3>6. Continued(im, e, o, at2, left2, mem) /\ o.state # "DATA"
        BY <1>3, <3>1, <3>5 DEF Continued, Holds
      <3> QED
        BY <3>6 DEF Turned, o, at2, left2
    <2> QED
      BY <1>5, <2>4, <2>5
  <1> QED
    BY <1>1, <1>8, <1>9

\* The address of a section.
LEMMA AddrTurned ==
    ASSUME NEW im \in Images, NEW e, NEW i \in Instances, i.state = "ADDR", NEW words,
           NEW at \in Nat, NEW left \in Nat, NEW k \in 0 .. Len(im.sections),
           NEW done \in 0 .. MemoryLen, NEW mem,
           Ready(im, e, i, words, at, left, k, done, mem)
    PROVE  Turned(im, e, i, BootTblStep(i, words), at, left, mem)
  <1> DEFINE o == BootTblStep(i, words)
             w == words[i.p_data]
             n == i.data_size_uint16
             at2 == at + 2 * (n - o.data_size_uint16)
             left2 == left - 2 * (n - o.data_size_uint16)
             from == Start(im, e, k)
             s == im.sections[k + 1]
             L == Len(s.data)
             t == Table(im, e)
  <1>1. /\ i.f_wait_lsw \in BOOLEAN /\ i.section_addr \in Nat /\ i.p_data \in Nat /\ n \in Nat
        /\ n # 0 /\ 2 * n <= left /\ AreOf(words, i.p_data, n, t, at)
    BY InstanceFields DEF Ready
  <1>2. /\ done = 0 /\ k < Len(im.sections) /\ Control(i, from + 4, at, left)
        /\ i.code_start_addr = im.entry /\ UpperOf(i, s.addr, i.section_addr)
        /\ i.section_size_bytes = L /\ Filled(im, k, 0, mem)
    BY DEF Ready, Parsed, InAddr
  <1>3. 0 \in 0 .. MemoryLen
    BY Sizes
  <1>4. w = WordAt(t, at)
    BY <1>1, FirstWord
  <1>5. SectionAt(im, e, k)
    BY SectionsAt
  <1>6. /\ from \in Nat /\ Is32Bit(s.addr) /\ s.addr \in Nat /\ L \in Nat /\ L > 0
        /\ WordAt(t, from + 4) = s.addr \div 2^16 /\ WordAt(t, from + 6) = s.addr % 2^16
    BY <1>2, <1>5 DEF SectionAt
  <1>7. Word32(s.addr \div 2^16, 0) + (s.addr % 2^16) = s.addr
    BY <1>6, Halves
  <1>8. CASE ~ i.f_wait_lsw
    <2>1. Holds(o, "ADDR", TRUE, i.code_start_addr, i.section_size_bytes, Word32(w, 0),
                i.p_data + 1, n - 1)
      BY <1>8, AddrTurn
    <2> HIDE DEF o
    <2>2. at = from + 4 /\ left = 4
      BY <1>1, <1>2, <1>8 DEF Control
    <2>3. at2 = at + 2 /\ left2 = 2
      BY <1>1, <2>1, <2>2, WordTaken DEF Holds
    <2>4. w = s.addr \div 2^16
      BY <1>4, <1>6, <2>2
    <2> HIDE DEF at2, left2, w
    <2>5. InAddr(im, e, o, at2, left2, k)
      BY <1>2, <2>1, <2>2, <2>3, <2>4 DEF InAddr, Holds, Control, UpperOf
    <2>6. Parsed(im, e, o, at2, left2, k, 0, mem)
      BY <1>2, <2>1, <2>5 DEF Parsed, Holds
    <2>7. Continued(im, e, o, at2, left2, mem) /\ o.state # "DATA"
      BY <1>3, <2>1, <2>6 DEF Continued, Holds
    <2> QED
      BY <2>7 DEF Turned, o, at2, left2
  <1>9. CASE i.f_wait_lsw
    <2>1. Holds(o, "DATA", FALSE, i.code_start_addr, i.section_size_bytes, i.section_addr + w,
                i.p_data + 1, n - 1)
      BY <1>9, AddrTurn
    <2> HIDE DEF o
    <2>2. at = (from + 4) + 2 /\ left = 2 /\ i.section_addr = Word32(s.addr \div 2^16, 0)
      BY <1>2, <1>9 DEF Control, UpperOf
    <2>3. at2 = at + 2 /\ left2 = 0 /\ n - 1 = 0
      <3>1. o.data_size_uint16 = n - 1
        BY <2>1 DEF Holds
      <3>2. /\ at + 2 * (n - (n - 1)) = at + 2 /\ left - 2 * (n - (n - 1)) = 0
            /\ n - 1 = 0
        <4> HIDE DEF n
        <4>1. left = 2 /\ n \in Nat /\ n # 0 /\ 2 * n <= left
          BY <1>1, <2>2
        <4> QED
          BY ONLY <4>1, WordTaken, at \in Nat, left \in Nat
      <3> QED
        BY <3>1, <3>2
    <2>4. at = from + 6 /\ at2 = from + 8 + 0
      BY <1>6, <2>2, <2>3
    <2>5. i.section_addr + w = s.addr
      BY <1>4, <1>6, <1>7, <2>2, <2>4
    <2>6. /\ o.section_addr = s.addr + 0 /\ o.section_size_bytes = L - 0
          /\ 0 < L /\ 0 % 4 = 0
      <3>1. o.section_addr = s.addr /\ o.section_size_bytes = L
        BY <1>2, <2>1, <2>5 DEF Holds
      <3> HIDE DEF s, L
      <3> QED
        BY <1>6, <3>1
    <2> HIDE DEF at2, left2, w
    <2>7. InData(im, e, o, at2, left2, k, 0)
      BY <1>2, <2>1, <2>3, <2>4, <2>6 DEF InData, Holds
    <2>8. Parsed(im, e, o, at2, left2, k, 0, mem)
      BY <1>2, <2>1, <2>7 DEF Parsed, Holds
    <2>9. Continued(im, e, o, at2, left2, mem) /\ o.data_size_uint16 = 0
      BY <1>3, <2>1, <2>3, <2>8 DEF Continued, Holds
    <2> QED
      BY <2>9 DEF Turned, o, at2, left2
  <1> QED
    BY <1>1, <1>8, <1>9

\* The data: as much of it as is at hand is copied.
LEMMA DataTurned ==
    ASSUME NEW im \in Images, NEW e, NEW i \in Instances, i.state = "DATA", NEW words,
           NEW at \in Nat, NEW left \in Nat, NEW k \in 0 .. Len(im.sections),
           NEW done \in 0 .. MemoryLen, NEW mem,
           Ready(im, e, i, words, at, left, k, done, mem)
    PROVE  Turned(im, e, i, BootTblStep(i, words), at, left,
                  coreCopyData(mem, i.section_addr, words, i.p_data, BytesAtHand(i), e))
  <1> DEFINE o == BootTblStep(i, words)
             n == i.data_size_uint16
             b == BytesAtHand(i)
             m == CHIP_BYTES_TO_UINT16(b)
             z == i.section_size_bytes
             at2 == at + 2 * (n - o.data_size_uint16)
             left2 == left - 2 * (n - o.data_size_uint16)
             from == Start(im, e, k)
             s == im.sections[k + 1]
             L == Len(s.data)
             t == Table(im, e)
             copy == coreCopyData(mem, i.section_addr, words, i.p_data, b, e)
             done2 == done + 2 * n
  <1>1. /\ i.f_wait_lsw \in BOOLEAN /\ i.p_data \in Nat /\ n \in Nat /\ z \in Nat
        /\ n # 0 /\ 2 * n <= left /\ AreOf(words, i.p_data, n, t, at)
        /\ 2 * n = left \/ (2 * n) % 4 = 0
    BY InstanceFields DEF Ready
  <1>2. /\ k < Len(im.sections) /\ ~ i.f_wait_lsw /\ done < L /\ done % 4 = 0
        /\ at = from + 8 + done /\ i.section_addr = s.addr + done /\ z = L - done
        /\ left \in {0, L - done}
        /\ i.code_start_addr = im.entry /\ Filled(im, k, done, mem)
    BY DEF Ready, Parsed, InData
  <1>3. SectionAt(im, e, k) /\ done \in Nat /\ MemoryLen \in Nat /\ k \in Nat
        /\ k + 1 \in 0 .. Len(im.sections)
    BY <1>2, SectionsAt, Sizes, ImageSections
  <1>4. /\ from \in Nat /\ L \in Nat /\ L % 2 = 0 /\ L <= MemoryLen
        /\ Start(im, e, k + 1) = from + 8 + RoundedUp(L)
    BY <1>2, <1>3 DEF SectionAt
  <1>5. /\ left = L - done /\ left = z /\ 2 * n <= z
        /\ 2 * n = L - done \/ (2 * n) % 4 = 0
    <2> HIDE DEF n, z, L
    <2>1. left # 0
      BY <1>1
    <2> QED
      BY <1>1, <1>2, <2>1
  <1>6. b = 2 * n /\ m = n
    <2>1. b = 2 * n
      BY <1>1, <1>5 DEF BytesAtHand, Lower, CHIP_UINT16_TO_BYTES
    <2>2. ((2 * n) + 1) \div 2 = n
      <3> HIDE DEF n
      <3> QED
        BY <1>1
    <2> HIDE DEF b
    <2> QED
      BY <2>1, <2>2 DEF CHIP_BYTES_TO_UINT16
  <1>7. /\ z - b # 0 =>
               Holds(o, "DATA", i.f_wait_lsw, i.code_start_addr, z - b, i.section_addr + b,
                     i.p_data + m, n - m)
        /\ z - b = 0 /\ PadWords(m) = 0 =>
               Holds(o, "SIZE", i.f_wait_lsw, i.code_start_addr, z - b, i.section_addr + b,
                     i.p_data + m, n - m)
        /\ z - b = 0 /\ PadWords(m) # 0 =>
               Holds(o, "PAD", i.f_wait_lsw, i.code_start_addr, 2 * PadWords(m),
                     i.section_addr + b, i.p_data + m, n - m)
    BY DataTurn
  <1>8. PadWords(n) \in Nat /\ PadWords(n) = n % 2
    <2> HIDE DEF n
    <2> QED
      BY <1>1 DEF PadWords, chipAddBtblUint16Pad
  <1> HIDE DEF o, b, m
  <1>9. /\ o.data_size_uint16 = 0 /\ o.code_start_addr = im.entry /\ ~ o.f_wait_lsw
        /\ o.section_addr = (s.addr + done) + 2 * n
        /\ z - 2 * n # 0 => o.state = "DATA" /\ o.section_size_bytes = z - 2 * n
        /\ z - 2 * n = 0 /\ n % 2 = 0 => o.state = "SIZE"
        /\ z - 2 * n = 0 /\ n % 2 # 0 =>
               o.state = "PAD" /\ o.section_size_bytes = 2 * (n % 2)
    <2>1. n - n = 0
      <3> HIDE DEF n
      <3> QED
        BY <1>1
    <2> QED
      BY <1>2, <1>6, <1>7, <1>8, <2>1 DEF Holds
  <1>10. at2 = at + 2 * n /\ left2 = left - 2 * n
    <2> HIDE DEF n
    <2> QED
      BY SMTT(30), <1>1, <1>9
  <1>11. Filled(im, k, done2, copy)
    <2>1. /\ done % 4 = 0 /\ done + 2 * n <= L
          /\ (2 * n) % 4 = 0 \/ done + 2 * n = L
      <3> HIDE DEF n, L
      <3> QED
        BY <1>1, <1>2, <1>3, <1>4, <1>5
    <2>2. AreOf(words, i.p_data, n, Table(im, e), Start(im, e, k) + 8 + done)
      BY <1>1, <1>2
    <2>3. Filled(im, k, done + 2 * n,
                 coreCopyData(mem, im.sections[k + 1].addr + done, words, i.p_data, 2 * n, e))
      <3> DEFINE nn == n
                 p == i.p_data
      <3>1. nn \in Nat /\ p \in Nat
        BY <1>1
      <3>2. /\ done % 4 = 0 /\ done + 2 * nn <= Len(im.sections[k + 1].data)
            /\ (2 * nn) % 4 = 0 \/ done + 2 * nn = Len(im.sections[k + 1].data)
            /\ AreOf(words, p, nn, Table(im, e), Start(im, e, k) + 8 + done)
        BY <2>1, <2>2
      <3> HIDE DEF nn, p
      <3>3. Filled(im, k, done + 2 * nn,
                   coreCopyData(mem, im.sections[k + 1].addr + done, words, p, 2 * nn, e))
        BY ONLY <1>2, <1>3, <3>1, <3>2, SectionCopied, im \in Images
      <3> QED
        BY <3>3 DEF nn, p
    <2> QED
      BY <1>2, <1>6, <2>3
  <1> HIDE DEF at2, left2, copy
  <1>12. CASE z - 2 * n # 0
    <2>1. /\ done2 < L /\ done2 % 4 = 0 /\ at2 = from + 8 + done2
          /\ o.section_addr = s.addr + done2 /\ o.section_size_bytes = L - done2
          /\ left2 = L - done2 /\ done2 \in 0 .. MemoryLen
      <3> DEFINE x == s.addr
                 os == o.section_size_bytes
                 oa == o.section_addr
      <3>1. x \in Nat
        BY <1>2, <1>3 DEF SectionAt
      <3>2. os = z - 2 * n /\ oa = (x + done) + 2 * n
        BY <1>9, <1>12
      <3>3. /\ n \in Nat /\ z = L - done /\ L \in Nat /\ done \in Nat /\ from \in Nat
            /\ 2 * n <= z /\ z - 2 * n # 0 /\ (2 * n = L - done \/ (2 * n) % 4 = 0)
            /\ done % 4 = 0 /\ done < L /\ L <= MemoryLen /\ MemoryLen \in Nat
            /\ at = from + 8 + done /\ left = L - done
            /\ at2 = at + 2 * n /\ left2 = left - 2 * n
        BY <1>1, <1>2, <1>3, <1>4, <1>5, <1>10, <1>12
      <3> HIDE DEF n, z, L, from, s, os, oa, x
      <3>4. (2 * n) % 4 = 0
        BY ONLY <3>3
      <3>5. (done + 2 * n) % 4 = 0
        BY ONLY <3>3, <3>4
      <3>6. done + 2 * n < L /\ done + 2 * n \in 0 .. MemoryLen
        BY ONLY <3>3
      <3>7. at2 = from + 8 + (done + 2 * n) /\ left2 = L - (done + 2 * n)
        BY ONLY <3>3
      <3>8. oa = x + (done + 2 * n) /\ os = L - (done + 2 * n)
        BY ONLY <3>1, <3>2, <3>3
      <3> QED
        BY <3>5, <3>6, <3>7, <3>8 DEF oa, os, x
    <2>2. o.state = "DATA"
      BY <1>9, <1>12
    <2> HIDE DEF done2
    <2>3. InData(im, e, o, at2, left2, k, done2)
      BY <1>2, <1>9, <2>1, <2>2 DEF InData
    <2>4. Parsed(im, e, o, at2, left2, k, done2, copy)
      BY <1>9, <1>11, <2>2, <2>3 DEF Parsed
    <2>5. Continued(im, e, o, at2, left2, copy)
      BY <2>1, <2>4 DEF Continued
    <2> QED
      BY <1>9, <2>5 DEF Turned, at2, left2, copy, o, b
  <1>13. CASE z - 2 * n = 0
    <2>1. done2 = L /\ left2 = 0 /\ at2 = from + 8 + L
      <3>1. /\ n \in Nat /\ z = L - done /\ L \in Nat /\ done \in Nat /\ from \in Nat
            /\ z - 2 * n = 0 /\ at = from + 8 + done /\ left = L - done
            /\ at2 = at + 2 * n /\ left2 = left - 2 * n
        BY <1>1, <1>2, <1>3, <1>4, <1>5, <1>10, <1>13
      <3> HIDE DEF n, z, L, from, s
      <3>2. done + 2 * n = L /\ left2 = 0 /\ at2 = from + 8 + L
        BY ONLY <3>1
      <3> QED
        BY <3>2
    <2>2. Filled(im, k + 1, 0, copy)
      <3>1. Filled(im, k, Len(im.sections[k + 1].data), copy)
        BY <1>11, <2>1
      <3> QED
        BY ONLY <1>2, <1>3, <3>1, SectionInPlace, im \in Images
    <2>3. 0 \in 0 .. MemoryLen
      BY <1>3
    <2>4. CASE n % 2 = 0
      <3>1. o.state = "SIZE"
        BY <1>9, <1>13, <2>4
      <3>2. L % 4 = 0
        <4> HIDE DEF n, z, L, from, s
        <4>1. n = 2 * (n \div 2) /\ n \div 2 \in Nat /\ done = 4 * (done \div 4)
              /\ done \div 4 \in Nat
          BY <1>1, <1>2, <1>3, <2>4
        <4>2. L = 4 * (done \div 4 + n \div 2)
          BY SMTT(30), <2>1, <4>1
        <4> QED
          BY <4>1, <4>2
      <3>3. RoundedUp(L) = L
        BY <1>4, <3>2, Rounding
      <3>4. at2 = Start(im, e, k + 1)
        BY <1>4, <2>1, <3>3
      <3>5. InSize(im, e, o, at2, left2, k + 1)
        BY <1>9, <2>1, <3>4 DEF InSize, Control, UpperOf
      <3>6. Parsed(im, e, o, at2, left2, k + 1, 0, copy)
        BY <1>9, <2>2, <3>1, <3>5 DEF Parsed
      <3>7. Continued(im, e, o, at2, left2, copy)
        BY <1>3, <2>3, <3>6 DEF Continued
      <3> QED
        BY <1>9, <3>7 DEF Turned, at2, left2, copy, o, b
    <2>5. CASE n % 2 # 0
      <3>1. o.state = "PAD" /\ o.section_size_bytes = 2
        <4>1. n % 2 = 1
          <5> HIDE DEF n
          <5> QED
            BY <1>1, <2>5
        <4>2. o.state = "PAD" /\ o.section_size_bytes = 2 * (n % 2)
          BY <1>9, <1>13, <2>5
        <4> QED
          BY ONLY <4>1, <4>2
      <3>2. L % 4 = 2
        <4> HIDE DEF n, z, L, from, s
        <4>1. n = 2 * (n \div 2) + 1 /\ n \div 2 \in Nat /\ done = 4 * (done \div 4)
              /\ done \div 4 \in Nat
          BY <1>1, <1>2, <1>3, <2>5
        <4> DEFINE a == done \div 4
                   c == n \div 2
        <4>3. n = 2 * c + 1 /\ c \in Nat /\ done = 4 * a /\ a \in Nat /\ done + 2 * n = L
          BY <2>1, <4>1
        <4> HIDE DEF a, c
        <4>4. L = 4 * (a + c) + 2
          BY ONLY <4>3
        <4>2. L = 4 * (done \div 4 + n \div 2) + 2
          BY <4>4 DEF a, c
        <4> QED
          BY SMTT(30), <4>1, <4>2
      <3>3. RoundedUp(L) = (L - 2) + 4
        <4> HIDE DEF L
        <4>1. L % 4 # 0
          BY <3>2
        <4>2. RoundedUp(L) = (L - (L % 4)) + 4
          BY ONLY <1>4, <4>1, Rounding
        <4> QED
          BY ONLY <3>2, <4>2
      <3>4. at2 = Start(im, e, k + 1) - 2
        <4> HIDE DEF L, from
        <4> QED
          BY <1>4, <2>1, <3>3
      <3>5. k + 1 > 0
        BY <1>3
      <3>6. InPad(im, e, o, at2, left2, k + 1)
        BY <1>9, <2>1, <3>1, <3>4, <3>5 DEF InPad
      <3>7. Parsed(im, e, o, at2, left2, k + 1, 0, copy)
        BY <1>9, <2>2, <3>1, <3>6 DEF Parsed
      <3>8. Continued(im, e, o, at2, left2, copy)
        BY <1>3, <2>3, <3>7 DEF Continued
      <3> QED
        BY <1>9, <3>8 DEF Turned, at2, left2, copy, o, b
    <2> QED
      BY <2>4, <2>5
  <1> QED
    BY <1>12, <1>13

\* The padding of a section, and what remains when the table has ended.
LEMMA PadTurned ==
    ASSUME NEW im \in Images, NEW e, NEW i \in Instances, i.state = "PAD", NEW words,
           NEW at \in Nat, NEW left \in Nat, NEW k \in 0 .. Len(im.sections),
           NEW done \in 0 .. MemoryLen, NEW mem,
           Ready(im, e, i, words, at, left, k, done, mem)
    PROVE  Turned(im, e, i, BootTblStep(i, words), at, left, mem)
  <1> DEFINE o == BootTblStep(i, words)
             n == i.data_size_uint16
             b == BytesAtHand(i)
             m == CHIP_BYTES_TO_UINT16(b)
             z == i.section_size_bytes
             at2 == at + 2 * (n - o.data_size_uint16)
             left2 == left - 2 * (n - o.data_size_uint16)
             from == Start(im, e, k)
  <1>1. n \in Nat /\ n # 0 /\ 2 * n <= left
    BY InstanceFields DEF Ready
  <1>2. /\ done = 0 /\ k > 0 /\ ~ i.f_wait_lsw /\ at = from - 2 /\ z = 2 /\ left \in {0, 2}
        /\ i.code_start_addr = im.entry /\ Filled(im, k, 0, mem)
    BY DEF Ready, Parsed, InPad
  <1>3. 0 \in 0 .. MemoryLen /\ from \in Nat
    <2>1. SectionAt(im, e, k)
      BY SectionsAt
    <2> QED
      BY <2>1, Sizes DEF SectionAt
  <1>4. left = 2 /\ n = 1
    <2> HIDE DEF n
    <2> QED
      BY <1>1, <1>2
  <1>5. b = 2 /\ m = 1 /\ z - b = 0 /\ n - m = 0
    BY <1>2, <1>4 DEF BytesAtHand, Lower, CHIP_UINT16_TO_BYTES, CHIP_BYTES_TO_UINT16
  <1>6. Holds(o, IF z - b = 0 THEN "SIZE" ELSE "PAD", i.f_wait_lsw, i.code_start_addr, z - b,
              i.section_addr + b, i.p_data + m, n - m)
    BY PadTurn
  <1>7. /\ o.state = "SIZE" /\ ~ o.f_wait_lsw /\ o.code_start_addr = im.entry
        /\ o.data_size_uint16 = 0
    <2> HIDE DEF o, b, m, z, n
    <2> QED
      BY <1>2, <1>5, <1>6 DEF Holds
  <1> HIDE DEF o
  <1>8. at2 = from /\ left2 = 0
    <2> HIDE DEF n, from
    <2> QED
      BY <1>2, <1>3, <1>4, <1>7
  <1> HIDE DEF at2, left2
  <1>9. InSize(im, e, o, at2, left2, k)
    BY <1>7, <1>8 DEF InSize, Control, UpperOf
  <1>10. Parsed(im, e, o, at2, left2, k, 0, mem)
    BY <1>2, <1>7, <1>9 DEF Parsed
  <1>11. Continued(im, e, o, at2, left2, mem)
    BY <1>3, <1>10 DEF Continued
  <1> QED
    BY <1>7, <1>11 DEF Turned, at2, left2, o

LEMMA FlushTurned ==
    ASSUME NEW im \in Images, NEW e, NEW i \in Instances, i.state = "FLUSH", NEW words,
           NEW at \in Nat, NEW left \in Nat, NEW k \in 0 .. Len(im.sections),
           NEW done \in 0 .. MemoryLen, NEW mem,
           Ready(im, e, i, words, at, left, k, done, mem)
    PROVE  Turned(im, e, i, BootTblStep(i, words), at, left, mem)
  <1> DEFINE o == BootTblStep(i, words)
             n == i.data_size_uint16
             at2 == at + 2 * (n - o.data_size_uint16)
             left2 == left - 2 * (n - o.data_size_uint16)
  <1>1. n \in Nat /\ n # 0 /\ 2 * n <= left
    BY InstanceFields DEF Ready
  <1>2. /\ done = 0 /\ k = Len(im.sections) /\ at + left = Len(Table(im, e)) /\ left = 2 * n
        /\ i.code_start_addr = im.entry /\ Filled(im, k, 0, mem)
    BY DEF Ready, Parsed, InFlush
  <1>3. 0 \in 0 .. MemoryLen
    BY Sizes
  <1>4. Holds(o, "FLUSH", i.f_wait_lsw, i.code_start_addr, i.section_size_bytes,
              i.section_addr, i.p_data, 0)
    BY FlushTurn
  <1> HIDE DEF o
  <1>5. /\ o.state = "FLUSH" /\ o.code_start_addr = im.entry /\ o.data_size_uint16 = 0
    BY <1>2, <1>4 DEF Holds
  <1>6. at2 + left2 = at + left /\ left2 = 2 * 0
    <2> HIDE DEF n
    <2> QED
      BY <1>1, <1>2, <1>5
  <1> HIDE DEF at2, left2
  <1>7. InFlush(im, e, o, at2, left2, k)
    BY <1>2, <1>5, <1>6 DEF InFlush
  <1>8. Parsed(im, e, o, at2, left2, k, 0, mem)
    BY <1>2, <1>5, <1>7 DEF Parsed
  <1>9. Continued(im, e, o, at2, left2, mem)
    BY <1>3, <1>8 DEF Continued
  <1> QED
    BY <1>5, <1>9 DEF Turned, at2, left2, o

Copied(mem, i, words, e) ==
    IF i.state = "DATA"
    THEN coreCopyData(mem, i.section_addr, words, i.p_data, BytesAtHand(i), e)
    ELSE mem

LEMMA TurnFollows ==
    ASSUME NEW im \in Images, NEW e, NEW i \in Instances, NEW words,
           NEW at \in Nat, NEW left \in Nat, NEW k \in 0 .. Len(im.sections),
           NEW done \in 0 .. MemoryLen, NEW mem,
           Ready(im, e, i, words, at, left, k, done, mem)
    PROVE  Turned(im, e, i, BootTblStep(i, words), at, left, Copied(mem, i, words, e))
  <1>1. CASE i.state = "INIT"
    BY <1>1, InitTurned DEF Copied
  <1>2. CASE i.state = "SIZE"
    BY <1>2, SizeTurned DEF Copied
  <1>3. CASE i.state = "ADDR"
    BY <1>3, AddrTurned DEF Copied
  <1>4. CASE i.state = "DATA"
    BY <1>4, DataTurned DEF Copied
  <1>5. CASE i.state = "PAD"
    BY <1>5, PadTurned DEF Copied
  <1>6. CASE i.state = "FLUSH"
    BY <1>6, FlushTurned DEF Copied
  <1> QED
    BY <1>1, <1>2, <1>3, <1>4, <1>5, <1>6, InstanceFields DEF BootStates

-----------------------------------------------------------------------------
(* The fifo and the processor in step with the table.                      *)

\* What is asked for is in the table.
LEMMA WithinTable ==
    ASSUME NEW im \in Images, NEW e, NEW i \in Instances, NEW at \in Nat, NEW left \in Nat,
           NEW mem, Continued(im, e, i, at, left, mem)
    PROVE  at + left <= Len(Table(im, e))
  <1>1. PICK k \in 0 .. Len(im.sections) :
            \E done \in 0 .. MemoryLen : Parsed(im, e, i, at, left, k, done, mem)
    BY DEF Continued
  <1>2. PICK done \in 0 .. MemoryLen : Parsed(im, e, i, at, left, k, done, mem)
    BY <1>1
  <1> DEFINE size == Len(Table(im, e))
             from == Start(im, e, k)
             N == Len(im.sections)
             L == Len(im.sections[k + 1].data)
  <1>3. SectionAt(im, e, k) /\ N \in Nat /\ k \in Nat /\ k <= N /\ done \in Nat
    BY SectionsAt, ImageSections, Sizes
  <1>4. /\ from \in Nat /\ size \in Nat /\ from + 4 <= size
        /\ k < N => L \in Nat /\ from + 8 + L <= size
    <2>1. from \in Nat /\ size \in Nat /\ from + 4 <= size
      BY <1>3 DEF SectionAt
    <2>2. CASE k < N
      <3>1. L \in Nat /\ from + 8 + RoundedUp(L) + 4 <= size
        BY <1>3, <2>2 DEF SectionAt
      <3> DEFINE r == RoundedUp(L)
      <3>2. r \in Nat /\ L <= r
        BY <3>1, Rounding
      <3> HIDE DEF r, L, from, size
      <3>3. from + 8 + r + 4 <= size
        BY <3>1 DEF r
      <3>4. from + 8 + L <= size
        BY ONLY <2>1, <3>1, <3>2, <3>3
      <3> QED
        BY <2>1, <3>1, <3>4
    <2> QED
      BY <2>1, <2>2
  <1>5. i.f_wait_lsw \in BOOLEAN /\ i.state \in BootStates
    BY InstanceFields
  <1>6. \A p \in Nat : Control(i, p, at, left) => at + left <= p + 4
    BY <1>5 DEF Control
  <1>7. CASE i.state = "INIT"
    <2>1. Control(i, 0, at, left)
      BY <1>2, <1>7 DEF Parsed
    <2> HIDE DEF size, from
    <2> QED
      BY <1>4, <1>6, <2>1 DEF size
  <1>8. CASE i.state = "SIZE"
    <2>1. Control(i, from, at, left)
      BY <1>2, <1>8 DEF Parsed, InSize
    <2> HIDE DEF size, from
    <2> QED
      BY <1>4, <1>6, <2>1 DEF size
  <1>9. CASE i.state = "ADDR"
    <2>1. Control(i, from + 4, at, left) /\ k < N
      BY <1>2, <1>9 DEF Parsed, InAddr
    <2> HIDE DEF size, from, L, N
    <2> QED
      BY <1>4, <1>6, <2>1 DEF size
  <1>10. CASE i.state = "DATA"
    <2>1. /\ k < N /\ done < L /\ at = from + 8 + done /\ left \in {0, L - done}
      BY <1>2, <1>10 DEF Parsed, InData
    <2> HIDE DEF size, from, L, N
    <2> QED
      BY <1>3, <1>4, <2>1 DEF size
  <1>11. CASE i.state = "PAD"
    <2>1. at = from - 2 /\ left \in {0, 2}
      BY <1>2, <1>11 DEF Parsed, InPad
    <2> HIDE DEF size, from, L, N
    <2> QED
      BY <1>3, <1>4, <2>1 DEF size
  <1>12. CASE i.state = "FLUSH"
    <2>1. at + left = size
      BY <1>2, <1>12 DEF Parsed, InFlush
    <2> QED
      BY <1>4, <2>1
  <1> QED
    BY <1>5, <1>7, <1>8, <1>9, <1>10, <1>11, <1>12 DEF BootStates

\* Where the loader is in the table: both are natural numbers, and not all of
\* the table has been pulled while it waits for a byte.
LEMMA Positions ==
    ASSUME Typed, pc \in Running, Progress
    PROVE  /\ Position \in Nat /\ Left \in Nat /\ Position + Left <= Len(BootTable)
           /\ Len(BootTable) \in Nat /\ BootTable \in Seq(Bytes)
           /\ pc \in Reading /\ Len(wrap.data) < wrap.blockSize => delivered < Len(BootTable)
  <1> DEFINE size == Len(BootTable)
             d == Len(wrap.data)
             n == inst.data_size_uint16
             r == wrap.readSize
             b == wrap.blockSize
  <1>1. /\ image \in Images /\ inst \in Instances /\ wrap \in Wrappers /\ Shared
        /\ delivered \in Nat /\ pc \in Running
    BY DEF Typed, Hardware, LoaderTyped, CountsTyped
  <1>2. d \in Nat /\ r \in Nat /\ b \in Nat /\ n \in Nat
    BY <1>1, Sizes, InstanceFields DEF Wrappers
  <1>3. size \in Nat /\ BootTable \in Seq(Bytes)
    BY <1>1, StartsAligned, TableBytes DEF BootTable
  <1>4. d <= delivered /\ b % 2 = 0
    BY DEF Progress, InOrder, Aligned
  <1>5. ASSUME pc = "process" PROVE Position \in Nat /\ Left \in Nat
    <2>1. d = b /\ b <= r /\ (n # 0 => inst.p_data + n = Len(PulledWords) + 1)
      BY <1>1, <1>5 DEF Shared
    <2>2. b = 2 * Len(PulledWords) /\ Len(PulledWords) \in Nat
      BY <1>1, <1>4, <2>1, PulledWordsType
    <2>3. inst.p_data \in Nat \ {0}
      BY <1>1 DEF Instances
    <2>4. 2 * n <= d
      <3> DEFINE w == Len(PulledWords)
                 p == inst.p_data
      <3> HIDE DEF w, p, n, d, b, r
      <3>1. d = 2 * w /\ w \in Nat /\ p \in Nat \ {0} /\ (n # 0 => p + n = w + 1)
        BY <2>1, <2>2, <2>3 DEF w, p
      <3> QED
        BY ONLY <1>2, <3>1
    <2>5. Position = delivered - 2 * n /\ Left = r - b + 2 * n
      BY <1>5, Stages DEF Position, Left
    <2>6. ~ (pc \in Reading)
      BY <1>5, Stages
    <2> HIDE DEF n, d, b, r
    <2> QED
      BY <1>1, <1>2, <1>4, <2>1, <2>4, <2>5, <2>6
  <1>6. ASSUME pc # "process" PROVE Position \in Nat /\ Left \in Nat
    <2>1. Left = r /\ (pc \in Reading => Position = delivered - d)
          /\ (pc \notin Reading => Position = delivered)
      BY <1>6 DEF Position, Left
    <2> HIDE DEF d, r
    <2> QED
      BY <1>1, <1>2, <1>4, <2>1
  <1>7. Position \in Nat /\ Left \in Nat
    BY <1>5, <1>6
  <1>8. Position + Left <= size
    <2>1. Continued(image, endian, inst, Position, Left, memory)
      BY DEF Progress, Followed
    <2> DEFINE at == Position
               left == Left
               mem == memory
               im == image
               e == endian
               i == inst
    <2>2. at \in Nat /\ left \in Nat /\ im \in Images /\ i \in Instances
          /\ Continued(im, e, i, at, left, mem)
      BY <1>1, <1>7, <2>1
    <2> HIDE DEF at, left, mem, im, e, i
    <2>3. at + left <= Len(Table(im, e))
      BY ONLY <2>2, WithinTable
    <2> QED
      BY <2>3 DEF at, left, im, e, BootTable
  <1>9. ASSUME pc \in Reading, d < b
        PROVE  delivered < size
    <2>1. pc # "process" /\ b <= r
      BY <1>1, <1>9, Stages DEF Shared
    <2>2. Left = r /\ Position = delivered - d
      BY <1>9, <2>1 DEF Position, Left
    <2> HIDE DEF d, r, b, size
    <2>3. (delivered - d) + r <= size
      BY <1>8, <2>2
    <2> QED
      BY ONLY <1>1, <1>2, <1>3, <1>4, <1>9, <2>1, <2>3
  <1> QED
    BY <1>3, <1>7, <1>8, <1>9

LEMMA TableKept ==
    ASSUME UNCHANGED hardware
    PROVE  /\ BootTable' = BootTable /\ BlockCount(BootTable)' = BlockCount(BootTable)
           /\ \A at : AtTable(at)' = AtTable(at)
  BY DEF hardware, BootTable, AtTable, BlockCount

\* An empty fifo holds nothing of the buffer.
LEMMA BufferedFifo ==
    ASSUME NEW t \in Seq(Bytes), Len(t) % 2 = 0, NEW nb \in 0 .. BlockCount(t),
           NEW in \in Nat, NEW out \in Nat, NEW buffer, NEW pulled \in Nat,
           Buffered(t, nb, in, out, buffer, pulled)
    PROVE  /\ in = 0 => Drained(t, nb, in, out, pulled)
           /\ in # 0 => Waiting(t, nb, in, out, buffer, pulled)
           /\ in >= out /\ (in - out = 0 <=> in = 0)
  <1>1. HeaderBytes = 4
    BY DEF HeaderBytes
  <1>2. CASE Drained(t, nb, in, out, pulled)
    BY <1>2 DEF Drained
  <1>3. CASE Waiting(t, nb, in, out, buffer, pulled)
    <2>1. out < in /\ 4 <= out
      BY <1>1, <1>3 DEF Waiting
    <2> QED
      BY <1>3, <2>1
  <1> QED
    BY <1>2, <1>3 DEF Buffered

LEMMA StreamKept ==
    ASSUME Typed, Streamed, UNCHANGED hardware, UNCHANGED position,
           UNCHANGED <<iFifoIn, iFifoOut, delivered>>,
           iData' = iData \/ iFifoIn = 0,
           \/ pc' \notin {"header", "block", "take"}
           \/ pc' = "header" /\ iFifoIn = 0
           \/ pc' = pc /\ len' = len
    PROVE  Streamed'
  <1>1. PICK at \in Nat : \E nb \in 0 .. BlockCount(BootTable) : StreamedAt(at, nb)
    BY DEF Streamed
  <1>2. PICK nb \in 0 .. BlockCount(BootTable) : StreamedAt(at, nb)
    BY <1>1
  <1>3. /\ BootTable' = BootTable /\ BlockCount(BootTable)' = BlockCount(BootTable)
        /\ AtTable(at)' = AtTable(at)
    BY TableKept
  <1>4. /\ BootTable \in Seq(Bytes) /\ Len(BootTable) % 2 = 0
        /\ iFifoIn \in Nat /\ iFifoOut \in Nat /\ delivered \in Nat
    <2>1. image \in Images /\ I_MAX_BLOCK_SIZE \in Nat
      BY SizesOfBlocks DEF Typed, Hardware
    <2>2. BootTable \in Seq(Bytes) /\ Len(BootTable) % 2 = 0
      BY <2>1, TableBytes, StartsAligned DEF BootTable
    <2> QED
      BY <2>1, <2>2 DEF Typed, FifoTyped, CountsTyped
  <1>5. Buffered(BootTable, nb, iFifoIn, iFifoOut, iData, delivered)
    BY <1>2 DEF StreamedAt
  <1>6. Buffered(BootTable, nb, iFifoIn, iFifoOut, iData', delivered)
    <2>1. CASE iData' = iData
      BY <1>5, <2>1
    <2>2. CASE iFifoIn = 0
      <3> DEFINE in == iFifoIn
                 out == iFifoOut
                 buffer == iData
                 other == iData'
                 pulled == delivered
                 t == BootTable
      <3>1. /\ t \in Seq(Bytes) /\ Len(t) % 2 = 0 /\ nb \in 0 .. BlockCount(t)
            /\ in \in Nat /\ out \in Nat /\ pulled \in Nat /\ in = 0
            /\ Buffered(t, nb, in, out, buffer, pulled)
        BY <1>4, <1>5, <2>2
      <3> HIDE DEF in, out, buffer, other, pulled, t
      <3>2. Drained(t, nb, in, out, pulled)
        BY ONLY <3>1, BufferedFifo
      <3>3. Buffered(t, nb, in, out, other, pulled)
        BY <3>2 DEF Buffered
      <3> QED
        BY <3>3 DEF in, out, buffer, other, pulled, t
    <2> QED
      BY <2>1, <2>2
  <1>7. Buffered(BootTable, nb, iFifoIn, iFifoOut, iData, delivered)'
    <2>1. Buffered(BootTable', nb, iFifoIn', iFifoOut', iData', delivered')
      BY <1>3, <1>6
    <2> QED
      BY <2>1 DEF Buffered, Drained, Waiting, ChunkEnd
  <1>8. Positioned(BootTable, nb, at, readAddress, busAddress)'
    BY <1>2, <1>3 DEF StreamedAt, Positioned, position
  <1>9. StreamedAt(at, nb)'
    BY <1>2, <1>3, <1>7, <1>8 DEF StreamedAt
  <1> QED
    BY <1>3, <1>9 DEF Streamed

\* A byte is taken from the fifo.
LEMMA ByteTaken ==
    ASSUME NEW t \in Seq(Bytes), Len(t) % 2 = 0, NEW nb \in 0 .. BlockCount(t),
           NEW in \in Nat, in <= I_MAX_BLOCK_SIZE, NEW out \in Nat, NEW buffer,
           NEW pulled \in Nat, Buffered(t, nb, in, out, buffer, pulled), in # 0
    PROVE  /\ Buffered(t, nb, AfterRead(in, out).in, AfterRead(in, out).out, buffer, pulled + 1)
           /\ buffer[out + 1] = t[pulled + 1]
  <1>1. /\ nb # 0 /\ out < in /\ HeaderBytes <= out
        /\ pulled + (in - out) = ChunkEnd(t, nb)
        /\ \A j \in 1 .. in - out : buffer[out + j] = t[pulled + j]
    <2>1. Waiting(t, nb, in, out, buffer, pulled)
      BY BufferedFifo
    <2> QED
      BY <2>1 DEF Waiting
  <1>2. I_MAX_BLOCK_SIZE \in Nat /\ HeaderBytes = 4
    BY SizesOfBlocks DEF HeaderBytes
  <1>3. buffer[out + 1] = t[pulled + 1]
    BY <1>1
  <1> DEFINE end == ChunkEnd(t, nb)
  <1> HIDE DEF end
  <1>4. CASE out + 1 = in
    <2>1. AfterRead(in, out).in = 0 /\ AfterRead(in, out).out = 0
      BY <1>4 DEF AfterRead
    <2>2. pulled + 1 = end
      BY <1>1, <1>4 DEF end
    <2> QED
      BY <1>1, <1>3, <2>1, <2>2 DEF Buffered, Drained, end
  <1>5. CASE out + 1 # in
    <2>1. AfterRead(in, out).in = in /\ AfterRead(in, out).out = out + 1
      BY <1>1, <1>2, <1>5 DEF AfterRead
    <2>2. /\ HeaderBytes <= out + 1 /\ out + 1 < in
          /\ (pulled + 1) + (in - (out + 1)) = end
      BY <1>1, <1>2, <1>5 DEF end
    <2>3. ASSUME NEW j \in 1 .. in - (out + 1)
          PROVE  buffer[(out + 1) + j] = t[(pulled + 1) + j]
      <3>1. j + 1 \in 1 .. in - out /\ (out + 1) + j = out + (j + 1)
            /\ (pulled + 1) + j = pulled + (j + 1)
        BY <1>1
      <3>2. buffer[out + (j + 1)] = t[pulled + (j + 1)]
        BY <1>1, <3>1
      <3> QED
        BY ONLY <3>1, <3>2
    <2>4. Buffered(t, nb, in, out + 1, buffer, pulled + 1)
      BY <1>1, <2>2, <2>3 DEF Buffered, Waiting, end
    <2> QED
      BY <1>3, <2>1, <2>4
  <1> QED
    BY <1>4, <1>5

\* What has been pulled and the next byte.
Precedes(s, x, t, d) ==
    /\ t \in Seq(Bytes) /\ s \in Seq(Bytes) /\ d \in Nat /\ d < Len(t) /\ Len(s) <= d
    /\ s = SubSeq(t, d - Len(s) + 1, d) /\ x = t[d + 1]

StillPart(s, x, t, d) ==
    Append(s, x) = SubSeq(t, (d + 1) - Len(Append(s, x)) + 1, d + 1)

LEMMA NextByte ==
    ASSUME NEW t, NEW s, NEW d, NEW x, Precedes(s, x, t, d)
    PROVE  StillPart(s, x, t, d)
  <1> DEFINE l == Len(s)
             a == (d - l) + 1
             v == SubSeq(t, a, d + 1)
             u == Append(s, x)
  <1>0. /\ t \in Seq(Bytes) /\ s \in Seq(Bytes) /\ d \in Nat /\ d < Len(t) /\ Len(s) <= d
        /\ s = SubSeq(t, d - Len(s) + 1, d) /\ x = t[d + 1]
    BY DEF Precedes
  <1> USE <1>0
  <1>1. l \in Nat /\ Len(t) \in Nat
    OBVIOUS
  <1>2. /\ a \in 1 .. Len(t) + 1 /\ d \in a - 1 .. Len(t) /\ d + 1 \in a - 1 .. Len(t)
        /\ (d - a) + 1 = l /\ ((d + 1) - a) + 1 = l + 1 /\ a = d - l + 1
        /\ \A i \in 1 .. l : i \in 1 .. (d - a) + 1 /\ i \in 1 .. ((d + 1) - a) + 1
        /\ l + 1 \in 1 .. ((d + 1) - a) + 1 /\ (a + (l + 1)) - 1 = d + 1
    <2> HIDE DEF l
    <2>1. l <= d
      BY DEF l
    <2> QED
      BY <1>1, <2>1
  <1>3. /\ v \in Seq(Bytes) /\ Len(v) = l + 1
        /\ \A i \in 1 .. ((d + 1) - a) + 1 : v[i] = t[(a + i) - 1]
    <2> DEFINE b == d + 1
    <2>1. a \in 1 .. Len(t) + 1 /\ b \in a - 1 .. Len(t)
      BY <1>2
    <2> HIDE DEF a, l, b
    <2>2. /\ SubSeq(t, a, b) \in Seq(Bytes) /\ Len(SubSeq(t, a, b)) = (b - a) + 1
          /\ \A i \in 1 .. (b - a) + 1 : SubSeq(t, a, b)[i] = t[(a + i) - 1]
      BY ONLY <2>1, Part, t \in Seq(Bytes)
    <2> QED
      BY <1>2, <2>2 DEF b
  <1>4. s = SubSeq(t, a, d)
    <2>1. d - Len(s) + 1 = a
      BY <1>2
    <2> QED
      BY <2>1
  <1>5. \A i \in 1 .. l : s[i] = t[(a + i) - 1]
    <2> HIDE DEF a, l
    <2>1. \A i \in 1 .. (d - a) + 1 : SubSeq(t, a, d)[i] = t[(a + i) - 1]
      <3>1. a \in 1 .. Len(t) + 1 /\ d \in a - 1 .. Len(t)
        BY <1>2
      <3> QED
        BY ONLY <3>1, Part, t \in Seq(Bytes)
    <2> QED
      BY <1>2, <1>4, <2>1
  <1>6. x \in Bytes
    <2>1. d + 1 \in 1 .. Len(t)
      BY <1>1
    <2> QED
      BY <2>1
  <1>7. /\ u \in Seq(Bytes) /\ Len(u) = l + 1 /\ u[l + 1] = x
        /\ \A i \in 1 .. l : u[i] = s[i]
    BY <1>6
  <1>8. \A i \in 1 .. l + 1 : u[i] = v[i]
    <2> HIDE DEF u, v, a, l
    <2>1. ASSUME NEW i \in 1 .. l
          PROVE  u[i] = v[i]
      BY <1>2, <1>3, <1>5, <1>7
    <2>2. u[l + 1] = v[l + 1]
      BY <1>2, <1>3, <1>7
    <2>3. \A i \in 1 .. l + 1 : i \in 1 .. l \/ i = l + 1
      BY <1>1
    <2> QED
      BY <2>1, <2>2, <2>3
  <1>9. u = v
    <2> HIDE DEF u, v, a, l
    <2> QED
      BY <1>3, <1>7, <1>8
  <1>10. (d + 1) - Len(u) + 1 = a
    <2>1. Len(u) = l + 1
      BY <1>7
    <2> HIDE DEF u, l
    <2> QED
      BY <1>1, <2>1
  <1> HIDE DEF a
  <1> QED
    BY <1>9, <1>10 DEF StillPart

\* What the invariant says of a read.
LEMMA ReadingBlock ==
    ASSUME Typed, pc \in Running, NEW at, AtTable(at),
           NEW nb \in 0 .. BlockCount(BootTable), nb < BlockCount(BootTable),
           Positioned(BootTable, nb, at, readAddress, busAddress), at \in Nat,
           NEW n \in Nat, n <= Len(Block(Chunk(BootTable, nb + 1)))
    PROVE  \A i \in 1 .. n : FlashBytes(n)[i] = Block(Chunk(BootTable, nb + 1))[i]
  <1>1. image \in Images /\ IsRom(flash, image, device) /\ (device = "i2c" \/ device = "spi")
    BY DEF Typed, Hardware, AddressesTyped, Devices
  <1>2. HasTable(flash, image, endian, at)
    BY DEF AtTable
  <1>3. /\ nb \in Nat /\ nb < BlockCount(Table(image, endian))
        /\ readAddress = at + BlockSize * nb /\ busAddress = Bus(readAddress)
        /\ n <= Len(Block(Chunk(Table(image, endian), nb + 1)))
    BY DEF Positioned, BootTable
  <1>4. \A i \in 1 .. n : FlashBytes(n)[i] = Block(Chunk(Table(image, endian), nb + 1))[i]
    BY ONLY <1>1, <1>2, <1>3, BlockRead, at \in Nat, n \in Nat
  <1> QED
    BY <1>4 DEF BootTable

\* While bytes are missing there is another block.
LEMMA BlocksLeft ==
    ASSUME NEW t \in Seq(Bytes), Len(t) % 2 = 0, NEW nb \in 0 .. BlockCount(t),
           NEW pulled \in Nat, pulled < Len(t), NEW out, Drained(t, nb, 0, out, pulled)
    PROVE  /\ nb < BlockCount(t) /\ nb + 1 \in 1 .. BlockCount(t)
           /\ pulled = BLOCK_DATA * nb
  <1>1. Len(t) \in Nat /\ BLOCK_DATA \in Nat /\ BLOCK_DATA > 0
    BY SizesOfBlocks
  <1>2. BlockCount(t) \in Nat /\ (Len(t) > 0 => BlockCount(t) > 0)
    <2> DEFINE l == Len(t)
    <2>1. l + BLOCK_DATA - 1 \in Nat /\ BLOCK_DATA \in Nat \ {0}
      BY <1>1
    <2> DEFINE x == l + BLOCK_DATA - 1
               q == x \div BLOCK_DATA
    <2>2. q \in Nat /\ BLOCK_DATA * q <= x /\ x < BLOCK_DATA * q + BLOCK_DATA
      <3> HIDE DEF x
      <3> QED
        BY <2>1, Dividing DEF x
    <2>3. BlockCount(t) = q
      BY DEF BlockCount
    <2>4. CASE q = 0
      <3>1. BLOCK_DATA * q = 0
        BY <1>1, <2>4
      <3> HIDE DEF q, x
      <3>2. x < BLOCK_DATA
        BY <1>1, <2>1, <2>2, <3>1 DEF x
      <3>3. l = 0
        BY <1>1, <3>2 DEF x
      <3> QED
        BY <1>1, <2>2, <2>3, <2>4, <3>3
    <2>5. CASE q # 0
      BY <1>1, <2>2, <2>3, <2>5
    <2> QED
      BY <2>4, <2>5
  <1>3. CASE nb = 0
    <2>1. pulled = 0 /\ BLOCK_DATA * 0 = 0
      BY <1>1, <1>3 DEF Drained
    <2> QED
      BY <1>1, <1>2, <1>3, <2>1
  <1>4. CASE nb # 0
    <2>1. nb \in 1 .. BlockCount(t) /\ pulled = ChunkEnd(t, nb)
      BY <1>2, <1>4 DEF Drained
    <2>2. nb # BlockCount(t)
      <3>1. nb = BlockCount(t) => ChunkEnd(t, nb) = Len(t)
        BY <2>1, Chunks
      <3> QED
        BY <1>1, <2>1, <3>1
    <2>3. pulled = BLOCK_DATA * nb
      BY <1>1, <2>1 DEF ChunkEnd
    <2> QED
      BY <1>2, <2>1, <2>2, <2>3
  <1> QED
    BY <1>3, <1>4

\* A block that is all in the buffer continues what has been pulled.
LEMMA BlockBuffered ==
    ASSUME NEW t \in Seq(Bytes), Len(t) % 2 = 0, NEW nb \in 0 .. BlockCount(t),
           nb < BlockCount(t), NEW buffer, NEW n, n = Len(Block(Chunk(t, nb + 1))),
           \A i \in 1 .. n : buffer[i] = Block(Chunk(t, nb + 1))[i]
    PROVE  /\ Waiting(t, nb + 1, n, HeaderBytes, buffer, BLOCK_DATA * nb)
           /\ nb + 1 < BlockCount(t) => n = BlockSize
           /\ n \in Nat /\ n # 0
  <1> DEFINE k == nb + 1
             c == Chunk(t, k)
             bytes == Block(c)
  <1>1. k \in 1 .. BlockCount(t) /\ k - 1 = nb /\ nb \in Nat /\ k # 0
    <2>1. BlockCount(t) \in Int
      BY SizesOfBlocks DEF BlockCount
    <2> QED
      BY <2>1
  <1> HIDE DEF k
  <1>2. /\ c \in Seq(Bytes) /\ Len(c) \in 1 .. BLOCK_DATA
        /\ BLOCK_DATA * (k - 1) \in Nat
        /\ ChunkEnd(t, k) = BLOCK_DATA * (k - 1) + Len(c)
        /\ \A i \in 1 .. Len(c) : c[i] = t[BLOCK_DATA * (k - 1) + i]
    BY <1>1, Chunks
  <1>3. /\ Len(bytes) = Len(c) + HeaderBytes
        /\ \A i \in 1 .. Len(c) : bytes[HeaderBytes + i] = c[i]
        /\ k < BlockCount(t) => Len(c) + HeaderBytes = BlockSize
    BY <1>1, ChunkBlock
  <1>4. n = Len(c) + HeaderBytes /\ HeaderBytes = 4 /\ Len(c) \in Nat /\ Len(c) > 0
    <2>1. Len(c) \in Nat /\ Len(c) > 0
      BY <1>2
    <2> QED
      BY <1>3, <2>1 DEF HeaderBytes, k
  <1>5. \A i \in 1 .. n : buffer[i] = bytes[i]
    BY DEF k
  <1> HIDE DEF c, bytes
  <1>6. /\ n - HeaderBytes = Len(c) /\ HeaderBytes < n /\ HeaderBytes <= HeaderBytes
        /\ n \in Nat /\ n # 0
    BY <1>4
  <1>7. ASSUME NEW j \in 1 .. Len(c)
        PROVE  buffer[HeaderBytes + j] = t[BLOCK_DATA * nb + j]
    <2>1. HeaderBytes + j \in 1 .. n
      BY <1>4
    <2> QED
      BY <1>1, <1>2, <1>3, <1>5, <2>1
  <1>8. BLOCK_DATA * nb + (n - HeaderBytes) = ChunkEnd(t, k)
    BY <1>1, <1>2, <1>6
  <1>9. Waiting(t, k, n, HeaderBytes, buffer, BLOCK_DATA * nb)
    BY <1>1, <1>6, <1>7, <1>8 DEF Waiting
  <1>10. k < BlockCount(t) => n = BlockSize
    BY <1>3, <1>4
  <1> QED
    BY <1>6, <1>9, <1>10 DEF k

\* A block of n bytes of which one has been read wrongly.
ReadWrongly(t, k, n, bits, read, noisy, buffer) ==
    /\ n = Len(Block(Chunk(t, k))) /\ Len(read) = n
    /\ \A bit \in bits : bit \in {2^j : j \in 0 .. 7}
    /\ \A i \in 1 .. n : read[i] = Block(Chunk(t, k))[i]
    /\ Noisy(noisy, read, bits)
    /\ \A i \in 1 .. n : buffer[i] = noisy[i]

\* The checksum lets no block through but the one that is in the flash.
LEMMA OnlyBlock ==
    ASSUME NEW t \in Seq(Bytes), Len(t) % 2 = 0, NEW k \in 1 .. BlockCount(t),
           NEW n, NEW bits, NEW read, NEW noisy, NEW buffer,
           ReadWrongly(t, k, n, bits, read, noisy, buffer)
    PROVE  ~ SumsUp(buffer, n)
  <1> USE DEF ReadWrongly
  <1> DEFINE c == Chunk(t, k)
             bytes == Block(c)
  <1>1. /\ bytes \in Seq(Bytes) /\ n \in Nat /\ n % 2 = 0
        /\ onesComplementChksum(WordsOf(bytes, n)) \in {0, AllOnes}
    <2>1. LET m == Len(c) + HeaderBytes
          IN /\ bytes \in Seq(Bytes) /\ Len(bytes) = m /\ m \in 5 .. BlockSize /\ m % 2 = 0
             /\ onesComplementChksum(WordsOf(bytes, m)) \in {0, AllOnes}
      BY ChunkBlock
    <2> QED
      BY <2>1
  <1>2. n = Len(bytes)
    OBVIOUS
  <1> HIDE DEF bytes
  <1>3. \A i \in 1 .. n : bytes[i] \in Bytes
    BY <1>1, <1>2
  <1>4. PICK m \in 1 .. Len(read) : \E bit \in bits :
            noisy[m] = Inverted(read[m], bit)
            /\ \A j \in (1 .. Len(read)) \ {m} : noisy[j] = read[j]
    BY DEF Noisy
  <1>5. PICK bit \in bits :
            noisy[m] = Inverted(read[m], bit)
            /\ \A j \in (1 .. Len(read)) \ {m} : noisy[j] = read[j]
    BY <1>4
  <1>6. /\ m \in 1 .. n /\ bit \in {2^j : j \in 0 .. 7}
        /\ buffer[m] = Inverted(bytes[m], bit)
        /\ \A i \in (1 .. n) \ {m} : buffer[i] = bytes[i]
    BY <1>5 DEF bytes
  <1>7. ~ (onesComplementChksum(WordsOf(buffer, n)) \in {0, AllOnes})
    BY ONLY <1>1, <1>3, <1>6, NoiseNoticed
  <1>8. (n + 1) \div 2 = n \div 2
    <2>1. n \in Nat /\ n % 2 = 0
      BY <1>1
    <2> QED
      BY ONLY <2>1
  <1> QED
    BY <1>7, <1>8 DEF SumsUp, WordsOf, AllOnes

LEMMA TableTyped ==
    ASSUME Typed
    PROVE  /\ BootTable \in Seq(Bytes) /\ Len(BootTable) % 2 = 0 /\ Len(BootTable) \in Nat
           /\ iFifoIn \in Nat /\ iFifoIn <= I_MAX_BLOCK_SIZE /\ iFifoOut \in Nat
           /\ delivered \in Nat /\ len \in Nat
  <1>1. image \in Images /\ I_MAX_BLOCK_SIZE \in Nat
    BY SizesOfBlocks DEF Typed, Hardware
  <1>2. BootTable \in Seq(Bytes) /\ Len(BootTable) % 2 = 0 /\ Len(BootTable) \in Nat
    BY <1>1, TableBytes, StartsAligned DEF BootTable
  <1>3. len \in Nat
    BY WordTypes DEF Typed, FifoTyped, Word
  <1> QED
    BY <1>1, <1>2, <1>3 DEF Typed, FifoTyped, CountsTyped

\* The length of the next block is the one that is read, or is noticed.
LEMMA HeaderStreamed ==
    ASSUME Typed, Streamed, ReadHeader, delivered < Len(BootTable)
    PROVE  Streamed'
  <1>1. /\ UNCHANGED hardware /\ UNCHANGED position /\ UNCHANGED <<iFifoIn, iFifoOut, delivered>>
        /\ pc = "header"
    BY DEF ReadHeader
  <1>2. PICK at \in Nat : \E nb \in 0 .. BlockCount(BootTable) : StreamedAt(at, nb)
    BY DEF Streamed
  <1>3. PICK nb \in 0 .. BlockCount(BootTable) : StreamedAt(at, nb)
    BY <1>2
  <1>4. /\ AtTable(at) /\ Positioned(BootTable, nb, at, readAddress, busAddress)
        /\ Buffered(BootTable, nb, iFifoIn, iFifoOut, iData, delivered) /\ iFifoIn = 0
    BY <1>1, <1>3 DEF StreamedAt
  <1>5. CASE pc' # "block"
    <2>1. iFifoIn = 0 /\ pc' = "header"
      BY <1>1, <1>4, <1>5 DEF ReadHeader, Goto
    <2> QED
      BY <1>1, <2>1, StreamKept
  <1>6. CASE pc' = "block"
    <2>1. PICK bytes \in Readings(HeaderBytes, HeaderNoise) :
              /\ Counted(bytes) /\ iData' = Stored(bytes) /\ len' = Word16(bytes[1], bytes[2])
              /\ Goto(IF Fits(len') THEN "block" ELSE "header")
      BY <1>1, <1>6 DEF ReadHeader
    <2>2. len' <= I_MAX_BLOCK_SIZE
      BY <1>6, <2>1 DEF Goto, Fits
    <2>3. Drained(BootTable, nb, 0, iFifoOut, delivered)
      BY <1>4, TableTyped, BufferedFifo
    <2>4. nb < BlockCount(BootTable) /\ nb + 1 \in 1 .. BlockCount(BootTable)
      <3> DEFINE t == BootTable
                 out == iFifoOut
                 pulled == delivered
      <3>1. /\ t \in Seq(Bytes) /\ Len(t) % 2 = 0 /\ pulled \in Nat /\ pulled < Len(t)
            /\ nb \in 0 .. BlockCount(t) /\ Drained(t, nb, 0, out, pulled)
        BY <2>3, TableTyped
      <3> HIDE DEF t, out, pulled
      <3>2. nb < BlockCount(t) /\ nb + 1 \in 1 .. BlockCount(t)
        BY ONLY <3>1, BlocksLeft
      <3> QED
        BY <3>2 DEF t
    <2> DEFINE c == Chunk(BootTable, nb + 1)
               n == Len(Block(c))
    <2>5. /\ n \in 5 .. BlockSize /\ n \in Nat
          /\ Block(c)[1] = n \div 2^8 /\ Block(c)[2] = n % 2^8
      <3> DEFINE t == BootTable
                 k == nb + 1
      <3>1. t \in Seq(Bytes) /\ Len(t) % 2 = 0 /\ k \in 1 .. BlockCount(t)
        BY <2>4, TableTyped
      <3> HIDE DEF t, k
      <3>2. LET b == Block(Chunk(t, k))
                m == Len(Chunk(t, k)) + HeaderBytes
            IN /\ Len(b) = m /\ m \in 5 .. BlockSize
               /\ b[1] = m \div 2^8 /\ b[2] = m % 2^8
        BY ONLY <3>1, ChunkBlock
      <3>3. n = Len(Block(Chunk(t, k)))
        BY DEF t, k
      <3>4. n \in 5 .. BlockSize /\ Block(Chunk(t, k))[1] = n \div 2^8
            /\ Block(Chunk(t, k))[2] = n % 2^8
        BY <3>2, <3>3
      <3> HIDE DEF n
      <3>5. n \in Nat
        BY <3>4, SizesOfBlocks
      <3> QED
        BY <3>4, <3>5 DEF t, k
    <2>6. HeaderBytes \in Nat /\ HeaderBytes = 4 /\ HeaderBytes <= n
      <3> HIDE DEF n
      <3> QED
        BY <2>5, SizesOfBlocks DEF HeaderBytes
    <2>7. pc \in Running /\ readAddress \in Nat
      BY <1>1, Stages DEF Typed, AddressesTyped
    <2>8. \A i \in 1 .. 4 : FlashBytes(4)[i] = Block(c)[i]
      <3>1. HeaderBytes <= Len(Block(Chunk(BootTable, nb + 1)))
        BY <2>6
      <3>2. \A i \in 1 .. HeaderBytes :
                FlashBytes(HeaderBytes)[i] = Block(Chunk(BootTable, nb + 1))[i]
        BY <1>4, <2>4, <2>6, <2>7, <3>1, ReadingBlock
      <3> HIDE DEF c
      <3> QED
        BY <2>6, <3>2 DEF c
    <2>9. FlashBytes(4)[1] = n \div 2^8 /\ FlashBytes(4)[2] = n % 2^8
      <3> HIDE DEF n, c
      <3>1. 1 \in 1 .. 4 /\ 2 \in 1 .. 4
        OBVIOUS
      <3> QED
        BY <2>5, <2>8, <3>1
    <2>10. /\ Len(FlashBytes(4)) = 4
           /\ bytes = FlashBytes(4) \/ Noisy(bytes, FlashBytes(4), HeaderNoise)
      <3>1. HeaderNoise \in {HeaderNoise, DataNoise} /\ Counted(bytes)
            /\ bytes \in Readings(HeaderBytes, HeaderNoise)
        BY <2>1
      <3>2. bytes = FlashBytes(HeaderBytes) \/ Noisy(bytes, FlashBytes(HeaderBytes), HeaderNoise)
        BY <2>6, <2>7, <3>1, ReadingTyped
      <3> QED
        BY <2>6, <2>7, <3>2, ReadTyped
    <2> HIDE DEF n, c
    <2>11. len' = n
      <3>1. n \in Nat /\ n < 2^16 /\ n \in HeaderBytes .. BLOCK_DATA + HeaderBytes
        <4>1. /\ HeaderBytes = 4 /\ BlockSize = BLOCK_DATA + HeaderBytes /\ BlockSize < 2^16
              /\ BlockSize \in Nat /\ BLOCK_DATA \in Nat
          BY <2>6, SizesOfBlocks DEF BlockSize
        <4> QED
          BY <2>5, <4>1
      <3>2. Word16(n \div 2^8, n % 2^8) = n
        BY <3>1, HalfWords
      <3>3. CASE bytes = FlashBytes(4)
        BY <2>1, <2>9, <3>2, <3>3
      <3>4. ASSUME Noisy(bytes, FlashBytes(4), HeaderNoise)
            PROVE  len' = n
        <4> DEFINE clean == FlashBytes(4)
        <4>1. Len(clean) = 4 /\ clean[1] = n \div 2^8 /\ clean[2] = n % 2^8
          BY <2>9, <2>10
        <4>2. Noisy(bytes, clean, HeaderNoise)
          BY <3>4
        <4> HIDE DEF clean
        <4>3. PICK m \in 1 .. 4 : \E bit \in HeaderNoise :
                  bytes[m] = Inverted(clean[m], bit)
                  /\ \A j \in (1 .. 4) \ {m} : bytes[j] = clean[j]
          BY <4>1, <4>2 DEF Noisy
        <4>4. PICK bit \in HeaderNoise :
                  bytes[m] = Inverted(clean[m], bit)
                  /\ \A j \in (1 .. 4) \ {m} : bytes[j] = clean[j]
          BY <4>3
        <4>5. /\ Word16(Inverted(n \div 2^8, bit), n % 2^8) > I_MAX_BLOCK_SIZE
              /\ Word16(n \div 2^8, Inverted(n % 2^8, bit)) > I_MAX_BLOCK_SIZE
          BY ONLY <3>1, <4>4, LengthsNoticed, bit \in HeaderNoise
        <4>6. len' \in Int /\ I_MAX_BLOCK_SIZE \in Int
          <5>1. len' \in Word
            BY <1>1, BlockTyped DEF Typed, FifoTyped
          <5> QED
            BY <5>1, WordTypes, SizesOfBlocks
        <4>7. m # 1
          <5>1. ASSUME m = 1 PROVE FALSE
            <6>1. 2 \in (1 .. 4) \ {m}
              BY <5>1
            <6>2. bytes[1] = Inverted(n \div 2^8, bit) /\ bytes[2] = n % 2^8
              BY <4>1, <4>4, <5>1, <6>1
            <6>3. len' > I_MAX_BLOCK_SIZE
              BY <2>1, <4>5, <6>2
            <6> QED
              BY ONLY <2>2, <4>6, <6>3
          <5> QED
            BY <5>1
        <4>8. m # 2
          <5>1. ASSUME m = 2 PROVE FALSE
            <6>1. 1 \in (1 .. 4) \ {m}
              BY <5>1
            <6>2. bytes[2] = Inverted(n % 2^8, bit) /\ bytes[1] = n \div 2^8
              BY <4>1, <4>4, <5>1, <6>1
            <6>3. len' > I_MAX_BLOCK_SIZE
              BY <2>1, <4>5, <6>2
            <6> QED
              BY ONLY <2>2, <4>6, <6>3
          <5> QED
            BY <5>1
        <4>9. 1 \in (1 .. 4) \ {m} /\ 2 \in (1 .. 4) \ {m}
          BY <4>7, <4>8
        <4>10. bytes[1] = n \div 2^8 /\ bytes[2] = n % 2^8
          BY <4>1, <4>4, <4>9
        <4> QED
          BY <2>1, <3>2, <4>10
      <3> QED
        BY <2>10, <3>3, <3>4
    <2>12. /\ BootTable' = BootTable /\ BlockCount(BootTable)' = BlockCount(BootTable)
           /\ AtTable(at)' = AtTable(at)
      BY <1>1, TableKept
    <2>13. Buffered(BootTable, nb, iFifoIn, iFifoOut, iData, delivered)'
      <3>1. Buffered(BootTable', nb, iFifoIn', iFifoOut', iData', delivered')
        BY <1>1, <1>4, <2>3, <2>12 DEF Buffered
      <3> QED
        BY <3>1 DEF Buffered, Drained, Waiting, ChunkEnd
    <2>14. Positioned(BootTable, nb, at, readAddress, busAddress)'
      BY <1>1, <1>4, <2>12 DEF Positioned, position
    <2>15. StreamedAt(at, nb)'
      BY <1>1, <1>4, <1>6, <2>4, <2>11, <2>12, <2>13, <2>14 DEF StreamedAt, n, c
    <2> QED
      BY <2>12, <2>15 DEF Streamed
  <1> QED
    BY <1>5, <1>6

\* A block that adds up is the one that is due.
LEMMA BlockStreamed ==
    ASSUME Typed, Streamed, ReadBlock, delivered < Len(BootTable)
    PROVE  Streamed'
  <1>1. UNCHANGED hardware /\ UNCHANGED <<len, delivered>> /\ pc = "block"
    BY DEF ReadBlock
  <1>2. PICK at \in Nat : \E nb \in 0 .. BlockCount(BootTable) : StreamedAt(at, nb)
    BY DEF Streamed
  <1>3. PICK nb \in 0 .. BlockCount(BootTable) : StreamedAt(at, nb)
    BY <1>2
  <1> DEFINE c == Chunk(BootTable, nb + 1)
             n == Len(Block(c))
  <1>4. /\ AtTable(at) /\ Positioned(BootTable, nb, at, readAddress, busAddress)
        /\ Buffered(BootTable, nb, iFifoIn, iFifoOut, iData, delivered) /\ iFifoIn = 0
        /\ nb < BlockCount(BootTable) /\ len = n
    BY <1>1, <1>3 DEF StreamedAt
  <1>5. CASE pc' # "take"
    <2>1. /\ UNCHANGED position /\ UNCHANGED <<iFifoIn, iFifoOut>>
          /\ pc' = pc \/ pc' = "header"
      BY <1>1, <1>5 DEF ReadBlock, Goto
    <2> QED
      BY <1>1, <1>4, <2>1, StreamKept
  <1>6. CASE pc' = "take"
    <2>1. PICK bytes \in Readings(len, DataNoise) :
              /\ Counted(bytes) /\ iData' = Stored(bytes) /\ SumsUp(iData', len)
              /\ readAddress' = readAddress + len /\ busAddress' = Bus(readAddress')
              /\ iFifoIn' = len /\ iFifoOut' = HeaderBytes
      BY <1>1, <1>6 DEF ReadBlock, Goto
    <2>2. /\ pc \in Running /\ readAddress \in Nat /\ len \in Nat /\ len <= I_MAX_BLOCK_SIZE
      BY <1>1, Stages, TableTyped DEF Typed, AddressesTyped, FifoTyped
    <2>3. \A i \in 1 .. len : FlashBytes(len)[i] = Block(c)[i]
      <3>1. len <= Len(Block(Chunk(BootTable, nb + 1)))
        BY <1>4, <2>2
      <3> QED
        BY <1>4, <2>2, <3>1, ReadingBlock
    <2>4. /\ Len(FlashBytes(len)) = len /\ bytes \in Seq(Bytes) /\ Len(bytes) = len
          /\ bytes = FlashBytes(len) \/ Noisy(bytes, FlashBytes(len), DataNoise)
      <3>1. DataNoise \in {HeaderNoise, DataNoise} /\ Counted(bytes)
            /\ bytes \in Readings(len, DataNoise)
        BY <2>1
      <3>2. /\ bytes \in Seq(Bytes) /\ Len(bytes) = len
            /\ bytes = FlashBytes(len) \/ Noisy(bytes, FlashBytes(len), DataNoise)
        BY <2>2, <3>1, ReadingTyped
      <3> QED
        BY <2>2, <3>2, ReadTyped
    <2>5. \A i \in 1 .. len : iData'[i] = bytes[i]
      <3>1. iData \in [1 .. I_MAX_BLOCK_SIZE -> Bytes]
        BY DEF Typed, FifoTyped
      <3>2. \A i \in 1 .. Len(bytes) : Stored(bytes)[i] = bytes[i]
        BY <2>2, <2>4, <3>1, StoredBytes
      <3> QED
        BY <2>1, <2>4, <3>2
    <2>6. nb + 1 \in 1 .. BlockCount(BootTable)
      <3>1. BlockCount(BootTable) \in Int
        BY TableTyped, SizesOfBlocks DEF BlockCount
      <3> QED
        BY <1>4, <3>1
    <2>7. bytes = FlashBytes(len)
      <3>1. ASSUME Noisy(bytes, FlashBytes(len), DataNoise) PROVE FALSE
        <4> DEFINE t == BootTable
                   k == nb + 1
                   l == len
                   read == FlashBytes(len)
                   buffer == iData'
        <4>1. /\ t \in Seq(Bytes) /\ Len(t) % 2 = 0 /\ k \in 1 .. BlockCount(t)
              /\ ReadWrongly(t, k, l, DataNoise, read, bytes, buffer)
          <5>1. \A bit \in DataNoise : bit \in {2^j : j \in 0 .. 7}
            BY Sizes
          <5> QED
            BY <1>4, <2>3, <2>4, <2>5, <2>6, <3>1, <5>1, TableTyped DEF ReadWrongly
        <4>2. SumsUp(buffer, l)
          BY <2>1
        <4> HIDE DEF t, k, l, read, buffer
        <4>3. ~ SumsUp(buffer, l)
          BY ONLY <4>1, OnlyBlock
        <4> QED
          BY <4>2, <4>3
      <3> QED
        BY <2>4, <3>1
    <2>8. Drained(BootTable, nb, 0, iFifoOut, delivered)
      BY <1>4, TableTyped, BufferedFifo
    <2>9. delivered = BLOCK_DATA * nb
      <3> DEFINE t == BootTable
                 out == iFifoOut
                 pulled == delivered
      <3>1. /\ t \in Seq(Bytes) /\ Len(t) % 2 = 0 /\ pulled \in Nat /\ pulled < Len(t)
            /\ nb \in 0 .. BlockCount(t) /\ Drained(t, nb, 0, out, pulled)
        BY <2>8, TableTyped
      <3> HIDE DEF t, out, pulled
      <3>2. pulled = BLOCK_DATA * nb
        BY ONLY <3>1, BlocksLeft
      <3> QED
        BY <3>2 DEF pulled
    <2>10. /\ Waiting(BootTable, nb + 1, len, HeaderBytes, iData', delivered)
           /\ nb + 1 < BlockCount(BootTable) => len = BlockSize
           /\ len # 0
      <3> DEFINE t == BootTable
                 l == len
                 buffer == iData'
      <3>1. /\ t \in Seq(Bytes) /\ Len(t) % 2 = 0 /\ nb \in 0 .. BlockCount(t)
            /\ nb < BlockCount(t) /\ l = Len(Block(Chunk(t, nb + 1)))
            /\ \A i \in 1 .. l : buffer[i] = Block(Chunk(t, nb + 1))[i]
        BY <1>4, <2>3, <2>5, <2>7, TableTyped
      <3> HIDE DEF t, l, buffer
      <3>2. /\ Waiting(t, nb + 1, l, HeaderBytes, buffer, BLOCK_DATA * nb)
            /\ nb + 1 < BlockCount(t) => l = BlockSize
            /\ l # 0
        BY ONLY <3>1, BlockBuffered
      <3> QED
        BY <2>9, <3>2 DEF t, l, buffer
    <2>11. /\ BootTable' = BootTable /\ BlockCount(BootTable)' = BlockCount(BootTable)
           /\ AtTable(at)' = AtTable(at)
      BY <1>1, TableKept
    <2>12. Buffered(BootTable, nb + 1, iFifoIn, iFifoOut, iData, delivered)'
      <3>1. Buffered(BootTable', nb + 1, iFifoIn', iFifoOut', iData', delivered')
        BY <1>1, <2>1, <2>10, <2>11 DEF Buffered
      <3> QED
        BY <3>1 DEF Buffered, Drained, Waiting, ChunkEnd
    <2>13. Positioned(BootTable, nb + 1, at, readAddress, busAddress)'
      <3>1. ASSUME nb + 1 < BlockCount(BootTable)
            PROVE  readAddress' = at + BlockSize * (nb + 1)
        <4>1. readAddress' = (at + BlockSize * nb) + BlockSize
          BY <1>4, <2>1, <2>10, <3>1 DEF Positioned
        <4>2. BlockSize * (nb + 1) = BlockSize * nb + BlockSize /\ BlockSize * nb \in Int
          BY SizesOfBlocks, Times
        <4> DEFINE x == BlockSize * nb
                   y == BlockSize * (nb + 1)
        <4>3. BlockSize \in Nat
          BY SizesOfBlocks
        <4> HIDE DEF x, y
        <4>4. y = x + BlockSize /\ x \in Int /\ readAddress' = (at + x) + BlockSize
          BY <4>1, <4>2 DEF x, y
        <4>5. readAddress' = at + y
          BY ONLY <4>3, <4>4, at \in Nat
        <4> QED
          BY <4>5 DEF y
      <3> QED
        BY <2>1, <2>11, <3>1 DEF Positioned, Bus
    <2>14. StreamedAt(at, nb + 1)'
      BY <1>4, <1>6, <2>1, <2>10, <2>11, <2>12, <2>13 DEF StreamedAt
    <2>15. nb + 1 \in 0 .. BlockCount(BootTable)
      BY <2>6
    <2> QED
      BY <2>11, <2>14, <2>15 DEF Streamed
  <1> QED
    BY <1>5, <1>6

-----------------------------------------------------------------------------
(* The invariant is inductive.                                             *)

LEMMA NothingPulled ==
    ASSUME NEW t \in Seq(Bytes), NEW d \in Nat, d <= Len(t)
    PROVE  << >> = SubSeq(t, d - Len(<< >>) + 1, d)
  <1> DEFINE a == d + 1
  <1>1. /\ a \in 1 .. Len(t) + 1 /\ d \in a - 1 .. Len(t) /\ (d - a) + 1 = 0
        /\ d - Len(<< >>) + 1 = a
    <2>1. Len(t) \in Nat
      OBVIOUS
    <2> QED
      BY <2>1
  <1> HIDE DEF a
  <1>2. SubSeq(t, a, d) \in Seq(Bytes) /\ Len(SubSeq(t, a, d)) = (d - a) + 1
    BY ONLY <1>1, Part, t \in Seq(Bytes)
  <1>3. SubSeq(t, a, d) = << >>
    BY <1>1, <1>2
  <1> QED
    BY <1>1, <1>3

LEMMA NothingFilled ==
    ASSUME NEW im \in Images
    PROVE  Filled(im, 0, 0, [a \in 0 .. MemoryLen - 1 |-> Untouched])
  <1>1. ASSUME NEW a \in 0 .. MemoryLen - 1
        PROVE  ~ InPlace(im, 0, 0, a)
    <2>1. a \in Nat
      BY Sizes
    <2>2. CASE 0 < Len(im.sections)
      <3>1. 0 + 1 \in 1 .. Len(im.sections)
        BY <2>2, ImageSections
      <3>2. im.sections[0 + 1].addr \in Nat
        BY <3>1, ImageSections DEF IsSection, Is32Bit
      <3> QED
        BY <2>1, <3>2 DEF InPlace
    <2>3. CASE ~ (0 < Len(im.sections))
      BY <2>3 DEF InPlace
    <2> QED
      BY <2>2, <2>3
  <1> QED
    BY <1>1 DEF Filled

LEMMA InitInv == Init => BootInv
  <1> SUFFICES ASSUME Init PROVE BootInv
    OBVIOUS
  <1>1. Typed
    BY InitTyped
  <1>2. pc = "main" /\ Fresh
    BY DEF Init, Fresh
  <1> QED
    BY <1>1, <1>2, Stages DEF BootInv

LEMMA FreshKept ==
    ASSUME Fresh, UNCHANGED fifo, UNCHANGED loader, UNCHANGED delivered
    PROVE  Fresh'
  BY DEF Fresh, fifo, loader

\* The table is read from its beginning into memory that is untouched.
LEMMA PullingStarts ==
    ASSUME BootInv, StartBtbl, pc' = "pull"
    PROVE  Streamed' /\ Progress'
  <1>1. /\ UNCHANGED hardware /\ UNCHANGED reader /\ UNCHANGED loader /\ UNCHANGED delivered
        /\ pc = "boot" /\ Typed /\ Fresh /\ AtTable(readAddress) /\ busAddress = Bus(readAddress)
    BY Stages DEF StartBtbl, BootInv
  <1>2. /\ BootTable' = BootTable /\ BlockCount(BootTable)' = BlockCount(BootTable)
        /\ AtTable(readAddress)' = AtTable(readAddress)
    <2>1. \A at : AtTable(at)' = AtTable(at)
      BY <1>1, TableKept
    <2> QED
      BY <1>1, <2>1, TableKept DEF reader, position, AtTable, hardware
  <1>3. readAddress \in Nat /\ image \in Images
    BY <1>1, Stages DEF Typed, AddressesTyped, Hardware
  <1>4. /\ iFifoIn' = 0 /\ iFifoOut' = 0 /\ delivered' = 0 /\ readAddress' = readAddress
        /\ busAddress' = busAddress /\ image' = image /\ endian' = endian
        /\ inst' = BootTblStart
        /\ wrap' = [readSize |-> 0, blockSize |-> 0, data |-> << >>]
        /\ memory' = [a \in 0 .. MemoryLen - 1 |-> Untouched]
    BY <1>1 DEF Fresh, reader, fifo, position, loader, hardware
  <1>5. StreamedAt(readAddress, 0)'
    <2>1. AtTable(readAddress)' /\ readAddress' = readAddress
      BY <1>1, <1>2, <1>4
    <2>2. BlockSize * 0 = 0 /\ readAddress + 0 = readAddress
      BY <1>3, SizesOfBlocks
    <2>3. Positioned(BootTable, 0, readAddress, readAddress, busAddress)'
      BY <1>1, <1>2, <1>4, <2>2 DEF Positioned, Bus
    <2>4. Buffered(BootTable, 0, iFifoIn, iFifoOut, iData, delivered)'
      BY <1>4 DEF Buffered, Drained
    <2> QED
      BY <2>1, <2>3, <2>4 DEF StreamedAt
  <1>6. Streamed'
    <2>1. BlockCount(BootTable) \in Nat
      <3> DEFINE t == BootTable
                 b == BLOCK_DATA
                 x == Len(t) + b - 1
      <3>1. Len(t) \in Nat /\ b \in Nat \ {0}
        BY <1>1, TableTyped, SizesOfBlocks
      <3> HIDE DEF t, b
      <3>2. x \in Nat
        BY <3>1
      <3> HIDE DEF x
      <3>3. x \div b \in Nat
        BY ONLY <3>1, <3>2, Dividing
      <3> QED
        BY <3>3 DEF BlockCount, x, b, t
    <2>2. 0 \in 0 .. BlockCount(BootTable)'
      BY <1>2, <2>1
    <2> QED
      BY <1>3, <1>4, <1>5, <2>2 DEF Streamed
  <1>7. Aligned'
    BY <1>4, Stages DEF Aligned, BootTblStart
  <1>8. InOrder'
    <2>1. << >> = SubSeq(BootTable, 0 - Len(<< >>) + 1, 0) /\ 0 <= Len(BootTable)
      BY <1>1, TableTyped, NothingPulled
    <2> QED
      BY <1>2, <1>4, <2>1 DEF InOrder, BytesInOrder
  <1>9. Followed'
    <2>1. Position' = 0 /\ Left' = 0
      BY <1>4, Stages DEF Position, Left
    <2>2. Parsed(image, endian, BootTblStart, 0, 0, 0, 0, memory')
      <3>1. Control(BootTblStart, 0, 0, 0)
            /\ UpperOf(BootTblStart, image.entry, BootTblStart.code_start_addr)
        BY DEF Control, UpperOf, BootTblStart
      <3>2. Filled(image, 0, 0, memory')
        BY <1>3, <1>4, NothingFilled
      <3>3. BootTblStart.state = "INIT"
        BY DEF BootTblStart
      <3> QED
        BY <3>1, <3>2, <3>3 DEF Parsed
    <2>3. 0 \in 0 .. Len(image.sections) /\ 0 \in 0 .. MemoryLen
      BY <1>3, ImageSections, Sizes
    <2>4. Continued(image, endian, BootTblStart, 0, 0, memory')
      BY <2>2, <2>3 DEF Continued
    <2> QED
      BY <1>4, <2>1, <2>4 DEF Followed
  <1> QED
    BY <1>6, <1>7, <1>8, <1>9 DEF Progress

LEMMA StartInv ==
    ASSUME BootInv, InitDevice \/ ReadMap \/ ReadConfig \/ StartBtbl
    PROVE  BootInv'
  <1>1. Typed /\ Typed'
    BY StartTyped DEF BootInv
  <1>2. CASE InitDevice
    <2>1. /\ UNCHANGED reader /\ UNCHANGED loader /\ UNCHANGED delivered
          /\ pc = "main" /\ pc' \in {"failed", "map"} /\ Fresh
      BY <1>2, Stages DEF InitDevice, Goto, BootInv
    <2>2. Fresh'
      BY <2>1, FreshKept DEF reader
    <2> QED
      BY <1>1, <2>1, <2>2, Stages DEF BootInv
  <1>3. CASE ReadMap
    <2>1. /\ UNCHANGED fifo /\ UNCHANGED loader /\ UNCHANGED delivered /\ UNCHANGED hardware
          /\ pc = "map" /\ pc' \in {"map", "config"} /\ Fresh
          /\ pc' = "config" => readAddress' = TableAddress /\ busAddress' = Bus(readAddress')
      BY <1>3, Stages DEF ReadMap, Goto, BootInv
    <2>2. Fresh'
      BY <2>1, FreshKept
    <2>3. TableAddress = NoAddress \/ HasTable(flash, image, endian, TableAddress)
      <3>1. /\ IsRom(flash, image, device) /\ endian \in Endians
            /\ device = "i2c" \/ device = "spi"
        BY <1>1, <2>1 DEF Typed, Hardware, AddressesTyped, Devices
      <3> QED
        BY <3>1, TableAddressIs
    <2>4. pc' = "config" => readAddress' = NoAddress \/ AtTable(readAddress)'
      BY <2>1, <2>3 DEF AtTable, hardware
    <2>5. pc' = "config" => busAddress' = Bus(readAddress)'
      BY <2>1 DEF Bus
    <2> QED
      BY <1>1, <2>1, <2>2, <2>4, <2>5, Stages DEF BootInv
  <1>4. CASE ReadConfig
    <2>1. /\ UNCHANGED reader /\ UNCHANGED loader /\ UNCHANGED delivered /\ UNCHANGED hardware
          /\ pc = "config" /\ Fresh
          /\ pc' \in {"config", "failed"} \/ (pc' = "boot" /\ readAddress # NoAddress)
          /\ readAddress = NoAddress \/ AtTable(readAddress)
          /\ busAddress = Bus(readAddress)
      BY <1>4, Stages DEF ReadConfig, Goto, BootInv
    <2>2. Fresh'
      BY <2>1, FreshKept DEF reader
    <2>3. readAddress' = NoAddress \/ AtTable(readAddress)'
      BY <2>1 DEF AtTable, hardware, reader, position
    <2>4. readAddress' = readAddress /\ busAddress' = Bus(readAddress)'
      BY <2>1 DEF Bus, reader, position
    <2> QED
      BY <1>1, <2>1, <2>2, <2>3, <2>4, Stages DEF BootInv
  <1>5. CASE StartBtbl
    <2>1. /\ UNCHANGED reader /\ UNCHANGED loader /\ UNCHANGED delivered
          /\ pc = "boot" /\ pc' \in {"failed", "pull"} /\ Fresh
      BY <1>5, Stages DEF StartBtbl, Goto, BootInv
    <2>2. CASE pc' = "failed"
      <3>1. Fresh'
        BY <2>1, FreshKept DEF reader
      <3> QED
        BY <1>1, <2>2, <3>1, Stages DEF BootInv
    <2>3. CASE pc' = "pull"
      <3>1. Streamed' /\ Progress'
        BY <1>5, <2>3, PullingStarts
      <3> QED
        BY <1>1, <2>3, <3>1, Stages DEF BootInv
    <2> QED
      BY <2>1, <2>2, <2>3
  <1> QED
    BY <1>2, <1>3, <1>4, <1>5

Asked(i) ==
    CASE i.state = "PAD" -> 2
      [] i.state \in {"INIT", "SIZE", "ADDR"} -> 4
      [] i.state = "DATA" -> i.section_size_bytes

\* What the wrapper asks for is what the table has next.
LEMMA AskedFollows ==
    ASSUME NEW im \in Images, NEW e, NEW i \in Instances, i.state # "FLUSH",
           NEW at \in Nat, NEW mem, Continued(im, e, i, at, 0, mem)
    PROVE  /\ Continued(im, e, i, at, Asked(i), mem)
           /\ Asked(i) \in Nat /\ Asked(i) % 2 = 0
  <1>1. PICK k \in 0 .. Len(im.sections) :
            \E done \in 0 .. MemoryLen : Parsed(im, e, i, at, 0, k, done, mem)
    BY DEF Continued
  <1>2. PICK done \in 0 .. MemoryLen : Parsed(im, e, i, at, 0, k, done, mem)
    BY <1>1
  <1>3. i.state \in BootStates /\ i.f_wait_lsw \in BOOLEAN
    BY InstanceFields
  <1>4. \A p : Control(i, p, at, 0) => Control(i, p, at, 4)
    BY DEF Control
  <1>5. CASE i.state \in {"INIT", "SIZE", "ADDR"}
    <2>1. Asked(i) = 4
      BY <1>5 DEF Asked
    <2>2. Parsed(im, e, i, at, 4, k, done, mem)
      BY <1>2, <1>4, <1>5 DEF Parsed, InSize, InAddr
    <2>3. Continued(im, e, i, at, 4, mem)
      BY <2>2 DEF Continued
    <2> QED
      BY <2>1, <2>3
  <1>6. CASE i.state = "PAD"
    <2>1. Asked(i) = 2
      BY <1>6 DEF Asked
    <2>2. Parsed(im, e, i, at, 2, k, done, mem)
      BY <1>2, <1>6 DEF Parsed, InPad
    <2>3. Continued(im, e, i, at, 2, mem)
      BY <2>2 DEF Continued
    <2> QED
      BY <2>1, <2>3
  <1>7. CASE i.state = "DATA"
    <2> DEFINE L == Len(im.sections[k + 1].data)
               z == i.section_size_bytes
    <2>1. Asked(i) = z /\ z \in Nat
      BY <1>7, InstanceFields DEF Asked
    <2>2. InData(im, e, i, at, 0, k, done)
      BY <1>2, <1>7 DEF Parsed
    <2>3. k < Len(im.sections) /\ done < L /\ done % 4 = 0 /\ z = L - done
      BY <2>2 DEF InData
    <2>4. L \in Nat /\ L % 2 = 0 /\ done \in Nat
      <3>1. SectionAt(im, e, k) /\ done \in Nat
        BY SectionsAt, Sizes
      <3>2. L \in Nat /\ L % 2 = 0
        BY <2>3, <3>1 DEF SectionAt
      <3> QED
        BY <3>1, <3>2
    <2>5. z % 2 = 0
      <3> HIDE DEF z, L
      <3> QED
        BY ONLY <2>3, <2>4
    <2>6. InData(im, e, i, at, z, k, done)
      BY <2>2, <2>3 DEF InData
    <2>7. Parsed(im, e, i, at, z, k, done, mem)
      BY <1>2, <1>7, <2>6 DEF Parsed
    <2>8. Continued(im, e, i, at, z, mem)
      BY <2>7 DEF Continued
    <2> QED
      BY <2>1, <2>5, <2>8
  <1> QED
    BY <1>3, <1>5, <1>6, <1>7 DEF BootStates

LEMMA PullInv ==
    ASSUME BootInv, Pull
    PROVE  BootInv'
  <1> DEFINE r == IF wrap.readSize = 0 THEN SizeToRead ELSE wrap.readSize
  <1>1. /\ UNCHANGED hardware /\ UNCHANGED reader /\ UNCHANGED <<inst, memory, entry>>
        /\ UNCHANGED delivered /\ pc = "pull" /\ pc' = "read"
        /\ wrap.readSize # 0 \/ inst.state # "FLUSH"
        /\ Typed /\ Streamed /\ Progress
    BY Stages DEF Pull, Goto, BootInv
  <1>2. /\ Typed' /\ wrap'.blockSize = Lower(wrap'.readSize, TI_BTBL_BLOCK_SIZE)
        /\ wrap'.data = << >> /\ wrap'.readSize \in Nat /\ wrap'.readSize = r
    BY <1>1, PullTyped
  <1>3. Streamed'
    BY <1>1, StreamKept DEF reader, fifo
  <1>4. BootTable' = BootTable /\ image' = image /\ endian' = endian
    BY <1>1, TableKept DEF hardware
  <1>5. /\ Position = delivered /\ Left = wrap.readSize
        /\ Position' = delivered /\ Left' = r
    <2>1. Len(<< >>) = 0 /\ delivered - 0 = delivered
      BY <1>1, TableTyped
    <2> QED
      BY <1>1, <1>2, <2>1, Stages DEF Position, Left
  <1>6. Aligned /\ InOrder /\ Followed
    BY <1>1 DEF Progress
  <1>7. /\ image \in Images /\ inst \in Instances /\ delivered \in Nat /\ wrap \in Wrappers
        /\ inst.data_size_uint16 = 0
    BY <1>1, <1>6 DEF Typed, Hardware, LoaderTyped, CountsTyped, Aligned
  <1>8. Continued(image, endian, inst, delivered, r, memory) /\ r % 2 = 0 /\ r \in Nat
    <2>1. CASE wrap.readSize # 0
      <3>1. r = wrap.readSize
        BY <2>1
      <3>2. Continued(image, endian, inst, delivered, wrap.readSize, memory)
        BY <1>5, <1>6 DEF Followed
      <3>3. wrap.readSize % 2 = 0 /\ wrap.readSize \in Nat
        BY <1>6, <1>7 DEF Aligned, Wrappers
      <3> QED
        BY <3>1, <3>2, <3>3
    <2>2. CASE wrap.readSize = 0
      <3>1. inst.state # "FLUSH" /\ r = Asked(inst)
        BY <1>1, <2>2 DEF SizeToRead, Asked
      <3>2. Continued(image, endian, inst, delivered, 0, memory)
        BY <1>5, <1>6, <2>2 DEF Followed
      <3> HIDE DEF r
      <3>3. Continued(image, endian, inst, delivered, Asked(inst), memory)
            /\ Asked(inst) \in Nat /\ Asked(inst) % 2 = 0
        BY <1>7, <3>1, <3>2, AskedFollows
      <3> QED
        BY <3>1, <3>3
    <2> QED
      BY <2>1, <2>2
  <1> HIDE DEF r
  <1>9. Followed'
    BY <1>1, <1>4, <1>5, <1>8 DEF Followed
  <1>10. Aligned'
    <2>1. /\ Lower(r, TI_BTBL_BLOCK_SIZE) % 2 = 0
          /\ Lower(r, TI_BTBL_BLOCK_SIZE) = r \/ Lower(r, TI_BTBL_BLOCK_SIZE) % 4 = 0
      <3>1. \A n \in Nat : n % 4 = 0 => n % 2 = 0
        OBVIOUS
      <3> QED
        BY <1>8, <3>1, Sizes DEF Lower
    <2> QED
      BY <1>1, <1>2, <1>7, <1>8, <2>1 DEF Aligned
  <1>11. InOrder'
    <2>1. << >> = SubSeq(BootTable, delivered - Len(<< >>) + 1, delivered)
      BY <1>1, <1>6, TableTyped, NothingPulled DEF InOrder
    <2>2. Len(<< >>) <= delivered
      BY <1>7
    <2> QED
      BY <1>1, <1>2, <1>4, <1>6, <2>1, <2>2 DEF InOrder, BytesInOrder
  <1>12. Progress'
    BY <1>1, <1>9, <1>10, <1>11 DEF Progress
  <1> QED
    BY <1>1, <1>2, <1>3, <1>12, Stages DEF BootInv

LEMMA JumpInv ==
    ASSUME BootInv, Jump
    PROVE  BootInv'
  <1>1. /\ UNCHANGED hardware /\ UNCHANGED reader /\ UNCHANGED <<inst, wrap, memory>>
        /\ UNCHANGED delivered /\ pc = "pull" /\ pc' = "entered" /\ wrap.readSize = 0
        /\ inst.state = "FLUSH" /\ entry' = inst.code_start_addr
        /\ Typed /\ Streamed /\ Progress
    BY Stages DEF Jump, Goto, BootInv
  <1>2. Typed'
    BY <1>1, ProcessorTyped
  <1>3. Streamed'
    BY <1>1, StreamKept DEF reader, fifo
  <1>4. BootTable' = BootTable /\ image' = image /\ endian' = endian
    BY <1>1, TableKept DEF hardware
  <1>5. Position' = Position /\ Left' = Left
    BY <1>1, Stages DEF Position, Left
  <1>6. Aligned' /\ InOrder' /\ Followed'
    <2>1. Aligned'
      BY <1>1, Stages DEF Progress, Aligned
    <2>2. InOrder'
      BY <1>1, <1>4 DEF Progress, InOrder, BytesInOrder
    <2>3. Followed'
      BY <1>1, <1>4, <1>5 DEF Progress, Followed
    <2> QED
      BY <2>1, <2>2, <2>3
  <1>7. entry' = image'.entry
    <2>1. \E k \in 0 .. Len(image.sections) : \E done \in 0 .. MemoryLen :
              Parsed(image, endian, inst, Position, Left, k, done, memory)
      BY <1>1 DEF Progress, Followed, Continued
    <2>2. inst.code_start_addr = image.entry
      BY <1>1, <2>1 DEF Parsed
    <2> QED
      BY <1>1, <1>4, <2>2
  <1>8. Progress'
    BY <1>1, <1>6, <1>7 DEF Progress
  <1> QED
    BY <1>1, <1>2, <1>3, <1>8, Stages DEF BootInv

\* What is pulled is what the processor is given.
LEMMA Given ==
    ASSUME NEW im \in Images, NEW e, NEW i \in Instances, NEW o \in Instances,
           NEW at, NEW left, NEW mem, Continued(im, e, i, at, left, mem),
           o.state = i.state, o.f_wait_lsw = i.f_wait_lsw,
           o.code_start_addr = i.code_start_addr, o.section_addr = i.section_addr,
           o.section_size_bytes = i.section_size_bytes,
           i.state = "FLUSH" => o.data_size_uint16 = i.data_size_uint16
    PROVE  Continued(im, e, o, at, left, mem)
  <1>1. PICK k \in 0 .. Len(im.sections) :
            \E done \in 0 .. MemoryLen : Parsed(im, e, i, at, left, k, done, mem)
    BY DEF Continued
  <1>2. PICK done \in 0 .. MemoryLen : Parsed(im, e, i, at, left, k, done, mem)
    BY <1>1
  <1>3. \A p : Control(o, p, at, left) <=> Control(i, p, at, left)
    BY DEF Control
  <1>4. \A v, field : UpperOf(o, v, field) <=> UpperOf(i, v, field)
    BY DEF UpperOf
  <1>5. i.state = "INIT" => /\ Control(o, 0, at, left)
                            /\ UpperOf(o, im.entry, o.code_start_addr)
    BY <1>2, <1>3, <1>4 DEF Parsed
  <1>6. i.state = "SIZE" => InSize(im, e, o, at, left, k)
    BY <1>2, <1>3, <1>4 DEF Parsed, InSize
  <1>7. i.state = "ADDR" => InAddr(im, e, o, at, left, k)
    BY <1>2, <1>3, <1>4 DEF Parsed, InAddr
  <1>8. i.state = "DATA" => InData(im, e, o, at, left, k, done)
    BY <1>2 DEF Parsed, InData
  <1>9. i.state = "PAD" => InPad(im, e, o, at, left, k)
    BY <1>2 DEF Parsed, InPad
  <1>10. i.state = "FLUSH" => InFlush(im, e, o, at, left, k)
    BY <1>2 DEF Parsed, InFlush
  <1>11. Parsed(im, e, o, at, left, k, done, mem)
    BY <1>2, <1>5, <1>6, <1>7, <1>8, <1>9, <1>10 DEF Parsed
  <1> QED
    BY <1>11 DEF Continued

LEMMA StartProcessInv ==
    ASSUME BootInv, StartProcess
    PROVE  BootInv'
  <1>1. /\ UNCHANGED hardware /\ UNCHANGED reader /\ UNCHANGED <<wrap, memory, entry>>
        /\ UNCHANGED delivered /\ pc = "read" /\ pc' = "process"
        /\ Len(wrap.data) = wrap.blockSize
        /\ inst' = [inst EXCEPT !.p_data = 1, !.data_size_uint16 = Len(PulledWords)]
        /\ Typed /\ Streamed /\ Progress
    BY Stages DEF StartProcess, Goto, BootInv
  <1>2. Typed'
    BY <1>1, ProcessorTyped
  <1>3. Streamed'
    BY <1>1, StreamKept DEF reader, fifo
  <1>4. BootTable' = BootTable /\ image' = image /\ endian' = endian
    BY <1>1, TableKept DEF hardware
  <1>5. Aligned /\ InOrder /\ Followed
    BY <1>1 DEF Progress
  <1>6. /\ image \in Images /\ inst \in Instances /\ delivered \in Nat /\ wrap \in Wrappers
        /\ inst.data_size_uint16 = 0 /\ wrap.blockSize <= wrap.readSize
    BY <1>1, <1>5, Stages DEF Typed, Hardware, LoaderTyped, CountsTyped, Aligned, Shared
  <1> DEFINE w == Len(PulledWords)
             b == wrap.blockSize
             r == wrap.readSize
  <1>7. b = 2 * w /\ w \in Nat /\ b \in Nat /\ r \in Nat
    BY <1>1, <1>5, <1>6, PulledWordsType, Sizes DEF Aligned, Wrappers
  <1>8. /\ inst' \in Instances /\ inst'.data_size_uint16 = w
        /\ inst'.state = inst.state /\ inst'.f_wait_lsw = inst.f_wait_lsw
        /\ inst'.code_start_addr = inst.code_start_addr
        /\ inst'.section_addr = inst.section_addr
        /\ inst'.section_size_bytes = inst.section_size_bytes
    BY <1>1, <1>6, <1>7, Started
  <1> HIDE DEF w
  <1>9. /\ Position' = delivered - 2 * w /\ Position = delivered - b
        /\ Left' = r - b + 2 * w /\ Left = r
    BY <1>1, <1>8, Stages DEF Position, Left
  <1>10. Position' = Position /\ Left' = Left
    <2>1. (r - b) + 2 * w = r
      <3> HIDE DEF r, b
      <3> QED
        BY <1>7
    <2>2. r - b + 2 * w = r
      <3> HIDE DEF r, b
      <3> QED
        BY <1>7
    <2> HIDE DEF r, b
    <2> QED
      BY <1>7, <1>9, <2>1, <2>2
  <1>11. inst.state = "FLUSH" => w = 0
    <2>1. ASSUME inst.state = "FLUSH" PROVE r = 0
      <3>1. \E k \in 0 .. Len(image.sections) : \E done \in 0 .. MemoryLen :
                Parsed(image, endian, inst, Position, Left, k, done, memory)
        BY <1>5 DEF Followed, Continued
      <3>2. Left = 2 * inst.data_size_uint16
        BY <2>1, <3>1 DEF Parsed, InFlush
      <3> QED
        BY <1>6, <1>9, <3>2
    <2> HIDE DEF r, b
    <2>2. b <= r
      BY <1>6 DEF r, b
    <2> QED
      BY <1>7, <2>1, <2>2
  <1>12. Followed'
    <2>1. Continued(image, endian, inst, Position, Left, memory)
      BY <1>5 DEF Followed
    <2>2. inst.state = "FLUSH" => inst'.data_size_uint16 = inst.data_size_uint16
      BY <1>6, <1>8, <1>11
    <2> DEFINE at == Position
               left == Left
               mem == memory
               im == image
               e == endian
               i == inst
               o == inst'
    <2>3. /\ im \in Images /\ i \in Instances /\ o \in Instances
          /\ Continued(im, e, i, at, left, mem)
          /\ o.state = i.state /\ o.f_wait_lsw = i.f_wait_lsw
          /\ o.code_start_addr = i.code_start_addr /\ o.section_addr = i.section_addr
          /\ o.section_size_bytes = i.section_size_bytes
          /\ i.state = "FLUSH" => o.data_size_uint16 = i.data_size_uint16
      BY <1>6, <1>8, <2>1, <2>2
    <2> HIDE DEF at, left, mem, im, e, i, o
    <2>4. Continued(im, e, o, at, left, mem)
      BY ONLY <2>3, Given
    <2>5. Continued(image, endian, inst', Position, Left, memory)
      BY <2>4 DEF at, left, mem, im, e, o
    <2> QED
      BY <1>1, <1>4, <1>10, <2>5 DEF Followed
  <1>13. Aligned'
    <2>1. inst'.data_size_uint16 # 0 =>
              2 * inst'.data_size_uint16 = Left' \/ (2 * inst'.data_size_uint16) % 4 = 0
      <3>1. b = r \/ b % 4 = 0
        BY <1>1, <1>5, Stages DEF Aligned
      <3> HIDE DEF b, r
      <3> QED
        BY <1>7, <1>8, <1>9, <1>10, <3>1
    <2> QED
      BY <1>1, <1>5, <2>1, Stages DEF Aligned
  <1>14. InOrder'
    BY <1>1, <1>4, <1>5 DEF InOrder, BytesInOrder
  <1>15. Progress'
    BY <1>1, <1>12, <1>13, <1>14 DEF Progress
  <1> QED
    BY <1>1, <1>2, <1>3, <1>15, Stages DEF BootInv

LEMMA EndProcessInv ==
    ASSUME BootInv, EndProcess
    PROVE  BootInv'
  <1>1. /\ UNCHANGED hardware /\ UNCHANGED reader /\ UNCHANGED <<inst, memory, entry>>
        /\ UNCHANGED delivered /\ pc = "process" /\ pc' = "pull"
        /\ inst.data_size_uint16 = 0
        /\ wrap' = [wrap EXCEPT !.readSize = @ - wrap.blockSize]
        /\ Typed /\ Streamed /\ Progress
    BY Stages DEF EndProcess, Goto, BootInv
  <1>2. Typed'
    BY <1>1, ProcessorTyped
  <1>3. Streamed'
    BY <1>1, StreamKept DEF reader, fifo
  <1>4. BootTable' = BootTable /\ image' = image /\ endian' = endian
    BY <1>1, TableKept DEF hardware
  <1>5. Aligned /\ InOrder /\ Followed
    BY <1>1 DEF Progress
  <1>6. /\ delivered \in Nat /\ wrap \in Wrappers /\ wrap.blockSize <= wrap.readSize
    BY <1>1, Stages DEF Typed, LoaderTyped, CountsTyped, Shared
  <1> DEFINE b == wrap.blockSize
             r == wrap.readSize
  <1>7. b \in Nat /\ r \in Nat /\ r % 2 = 0 /\ b % 2 = 0
    BY <1>5, <1>6, Sizes DEF Aligned, Wrappers
  <1>8. wrap'.readSize = r - b /\ wrap'.blockSize = b /\ wrap'.data = wrap.data
    BY <1>1, <1>6 DEF Wrappers
  <1>9. Position' = Position /\ Left' = Left
    <2>1. delivered - 2 * 0 = delivered /\ r - b + 2 * 0 = r - b
      <3> HIDE DEF r, b
      <3> QED
        BY <1>6, <1>7
    <2>2. Position = delivered - 2 * 0 /\ Left = r - b + 2 * 0
      BY <1>1, Stages DEF Position, Left
    <2>3. Position' = delivered /\ Left' = r - b
      BY <1>1, <1>8, Stages DEF Position, Left
    <2> QED
      BY <2>1, <2>2, <2>3
  <1>10. Followed'
    BY <1>1, <1>4, <1>5, <1>9 DEF Followed
  <1>11. Aligned'
    <2>1. (r - b) % 2 = 0
      <3> HIDE DEF r, b
      <3> QED
        BY <1>7
    <2> QED
      BY <1>1, <1>7, <1>8, <2>1, Stages DEF Aligned
  <1>12. InOrder'
    BY <1>1, <1>4, <1>5, <1>8 DEF InOrder, BytesInOrder
  <1>13. Progress'
    BY <1>1, <1>10, <1>11, <1>12 DEF Progress
  <1> QED
    BY <1>1, <1>2, <1>3, <1>13, Stages DEF BootInv

\* w words that the bytes of s make.
MadeOf(words, s, w) ==
    Len(s) = 2 * w /\ \A j \in 1 .. w : words[j] = Word16(s[2 * j - 1], s[2 * j])

\* The words at hand are the last of those that have been pulled.
LEMMA WordsAtHand ==
    ASSUME NEW t \in Seq(Bytes), NEW d \in Nat, d <= Len(t), NEW s,
           s = SubSeq(t, d - Len(s) + 1, d), NEW w \in Nat, 2 * w <= d,
           NEW words, MadeOf(words, s, w),
           NEW p \in Nat \ {0}, NEW n \in Nat, n # 0, p + n = w + 1
    PROVE  AreOf(words, p, n, t, d - 2 * n)
  <1> DEFINE a == (d - 2 * w) + 1
  <1>1. a \in 1 .. Len(t) + 1 /\ d \in a - 1 .. Len(t) /\ (d - a) + 1 = 2 * w
        /\ d - Len(s) + 1 = a
    <2>1. Len(t) \in Nat /\ Len(s) = 2 * w
      BY DEF MadeOf
    <2> QED
      BY <2>1
  <1>2. s = SubSeq(t, a, d)
    BY <1>1
  <1> HIDE DEF a
  <1>3. \A i \in 1 .. (d - a) + 1 : SubSeq(t, a, d)[i] = t[(a + i) - 1]
    BY ONLY <1>1, Part, t \in Seq(Bytes)
  <1>4. ASSUME NEW j \in 0 .. n - 1
        PROVE  words[p + j] = WordAt(t, (d - 2 * n) + 2 * j)
    <2> DEFINE l == p + j
               x == 2 * l - 1
               y == 2 * l
               from == (d - 2 * n) + 2 * j
    <2>1. l \in 1 .. w /\ x \in 1 .. 2 * w /\ y \in 1 .. 2 * w
      OBVIOUS
    <2>2. (a + x) - 1 = from + 1 /\ (a + y) - 1 = from + 2
      BY DEF a
    <2>3. words[l] = Word16(s[x], s[y])
      BY <2>1 DEF MadeOf
    <2> HIDE DEF x, y, from
    <2>4. s[x] = t[(a + x) - 1] /\ s[y] = t[(a + y) - 1]
      BY ONLY <1>1, <1>2, <1>3, <2>1
    <2>5. words[l] = WordAt(t, from)
      BY ONLY <2>2, <2>3, <2>4 DEF WordAt
    <2> QED
      BY <2>5 DEF from
  <1> QED
    BY <1>4 DEF AreOf

LEMMA ProcessInv ==
    ASSUME BootInv, Process
    PROVE  BootInv'
  <1> DEFINE n == inst.data_size_uint16
             w == Len(PulledWords)
             b == wrap.blockSize
             r == wrap.readSize
             d == delivered
             later == inst'.data_size_uint16
  <1>1. /\ UNCHANGED hardware /\ UNCHANGED reader /\ UNCHANGED <<wrap, entry>>
        /\ UNCHANGED delivered /\ pc = "process" /\ pc' = "process"
        /\ n # 0 /\ inst' = BootTblStep(inst, PulledWords)
        /\ memory' = Copied(memory, inst, PulledWords, endian)
        /\ Typed /\ Streamed /\ Progress
    BY Stages DEF Process, BootInv, Copied
  <1>2. Typed'
    BY <1>1, ProcessorTyped
  <1>3. Streamed'
    BY <1>1, StreamKept DEF reader, fifo
  <1>4. BootTable' = BootTable /\ image' = image /\ endian' = endian
    BY <1>1, TableKept DEF hardware
  <1>5. Aligned /\ InOrder /\ Followed
    BY <1>1 DEF Progress
  <1>6. /\ image \in Images /\ inst \in Instances /\ inst' \in Instances /\ d \in Nat
        /\ wrap \in Wrappers /\ b <= r /\ Len(wrap.data) = b /\ inst.p_data + n = w + 1
    BY <1>1, <1>2, Stages DEF Typed, Hardware, LoaderTyped, CountsTyped, Shared
  <1>7. /\ b = 2 * w /\ w \in Nat /\ r \in Nat /\ n \in Nat /\ later \in Nat
        /\ inst.p_data \in Nat \ {0}
        /\ MadeOf(PulledWords, wrap.data, w) /\ b <= d /\ d <= Len(BootTable)
        /\ Len(BootTable) \in Nat
    <2>1. b % 2 = 0 /\ Len(wrap.data) <= d /\ d <= Len(BootTable)
      BY <1>5 DEF Aligned, InOrder
    <2>2. /\ Len(PulledWords) \in Nat /\ b = 2 * Len(PulledWords)
          /\ \A j \in 1 .. Len(PulledWords) :
                 PulledWords[j] = Word16(wrap.data[2 * j - 1], wrap.data[2 * j])
      BY <1>6, <2>1, PulledWordsType
    <2>3. r \in Nat /\ n \in Nat /\ later \in Nat /\ inst.p_data \in Nat \ {0}
          /\ Len(BootTable) \in Nat
      BY <1>1, <1>6, TableTyped DEF Wrappers, Instances
    <2> QED
      BY <1>6, <2>1, <2>2, <2>3 DEF MadeOf
  <1>8. /\ Position \in Nat /\ Left \in Nat /\ BootTable \in Seq(Bytes)
        /\ Position = d - 2 * n /\ Left = r - b + 2 * n
        /\ Position' = d - 2 * later /\ Left' = r - b + 2 * later
    <2>1. Position \in Nat /\ Left \in Nat /\ BootTable \in Seq(Bytes)
      BY <1>1, Positions, Stages
    <2>2. Position = d - 2 * n /\ Left = r - b + 2 * n
      BY <1>1, Stages DEF Position, Left
    <2>3. Position' = d - 2 * later /\ Left' = r - b + 2 * later
      BY <1>1, Stages DEF Position, Left
    <2> QED
      BY <2>1, <2>2, <2>3
  <1>9. AreOf(PulledWords, inst.p_data, n, BootTable, Position)
    <2> DEFINE t == BootTable
               s == wrap.data
               p == inst.p_data
               words == PulledWords
    <2>1. /\ t \in Seq(Bytes) /\ d \in Nat /\ d <= Len(t) /\ s = SubSeq(t, d - Len(s) + 1, d)
          /\ w \in Nat /\ 2 * w <= d /\ MadeOf(words, s, w) /\ p \in Nat \ {0}
          /\ n \in Nat /\ n # 0 /\ p + n = w + 1
      BY <1>1, <1>5, <1>6, <1>7, <1>8 DEF InOrder, BytesInOrder
    <2> HIDE DEF t, s, p, words, d, n, w
    <2>2. AreOf(words, p, n, t, d - 2 * n)
      BY ONLY <2>1, WordsAtHand
    <2> QED
      BY <1>8, <2>2 DEF t, s, p, words, d, n, w
  <1>10. 2 * n <= Left
    <2> HIDE DEF n, r, b
    <2> QED
      BY <1>6, <1>7, <1>8
  <1>11. Turned(image, endian, inst, inst', Position, Left, memory')
    <2>1. PICK k \in 0 .. Len(image.sections) : \E done \in 0 .. MemoryLen :
              Parsed(image, endian, inst, Position, Left, k, done, memory)
      BY <1>5 DEF Followed, Continued
    <2>2. PICK done \in 0 .. MemoryLen :
              Parsed(image, endian, inst, Position, Left, k, done, memory)
      BY <2>1
    <2>3. inst.state = "DATA" => 2 * n = Left \/ (2 * n) % 4 = 0
      BY <1>1, <1>5 DEF Aligned
    <2>4. Ready(image, endian, inst, PulledWords, Position, Left, k, done, memory)
      BY <1>1, <1>9, <1>10, <2>2, <2>3 DEF Ready, BootTable
    <2> DEFINE im == image
               e == endian
               i == inst
               words == PulledWords
               at == Position
               left == Left
               mem == memory
    <2>5. /\ im \in Images /\ i \in Instances /\ at \in Nat /\ left \in Nat
          /\ k \in 0 .. Len(im.sections) /\ done \in 0 .. MemoryLen
          /\ Ready(im, e, i, words, at, left, k, done, mem)
      BY <1>6, <1>8, <2>4
    <2> HIDE DEF im, e, i, words, at, left, mem
    <2>6. Turned(im, e, i, BootTblStep(i, words), at, left, Copied(mem, i, words, e))
      BY ONLY <2>5, TurnFollows
    <2> QED
      BY <1>1, <2>6 DEF im, e, i, words, at, left, mem
  <1>12. /\ Continued(image, endian, inst', Position + 2 * (n - later),
                      Left - 2 * (n - later), memory')
         /\ inst'.state = "DATA" => later = 0
    BY <1>11 DEF Turned
  <1>13. Position + 2 * (n - later) = Position' /\ Left - 2 * (n - later) = Left'
    <2> DEFINE at == Position
               left == Left
               at2 == Position'
               left2 == Left'
               x == r - b
    <2>1. /\ at = d - 2 * n /\ left = x + 2 * n /\ at2 = d - 2 * later /\ left2 = x + 2 * later
          /\ x \in Int /\ n \in Nat /\ later \in Nat /\ d \in Nat
      <3>1. r - b + 2 * n = (r - b) + 2 * n /\ r - b + 2 * later = (r - b) + 2 * later
            /\ r - b \in Int
        <4> HIDE DEF r, b, n, later
        <4> QED
          BY <1>7
      <3> QED
        BY <1>6, <1>7, <1>8, <3>1
    <2> HIDE DEF at, left, at2, left2, x, d, n, later
    <2>2. at + 2 * (n - later) = at2 /\ left - 2 * (n - later) = left2
      BY ONLY <2>1
    <2> QED
      BY <2>2 DEF at, left, at2, left2
  <1>14. Followed'
    <2>1. Continued(image, endian, inst', Position', Left', memory')
      BY <1>12, <1>13
    <2> QED
      BY <1>4, <2>1 DEF Followed
  <1>15. Aligned'
    BY <1>1, <1>5, <1>12 DEF Aligned
  <1>16. InOrder'
    BY <1>1, <1>4, <1>5 DEF InOrder, BytesInOrder
  <1>17. Progress'
    BY <1>1, <1>14, <1>15, <1>16 DEF Progress
  <1> QED
    BY <1>1, <1>2, <1>3, <1>17, Stages DEF BootInv

\* Reading ahead changes nothing of what has been read.
LEMMA ProgressKept ==
    ASSUME Progress, pc \in Reading, pc' \in Reading, UNCHANGED hardware,
           UNCHANGED <<inst, wrap, memory>>, UNCHANGED delivered
    PROVE  Progress'
  <1>1. BootTable' = BootTable /\ image' = image /\ endian' = endian
    BY TableKept DEF hardware
  <1>2. pc # "process" /\ pc' # "process" /\ pc' # "entered"
    BY Stages
  <1>3. Position' = Position /\ Left' = Left
    BY <1>2 DEF Position, Left
  <1>4. Followed'
    BY <1>1, <1>3 DEF Progress, Followed
  <1>5. Aligned'
    BY <1>2 DEF Progress, Aligned
  <1>6. InOrder'
    BY <1>1 DEF Progress, InOrder, BytesInOrder
  <1> QED
    BY <1>2, <1>4, <1>5, <1>6 DEF Progress

\* An empty fifo is one that was drained.
LEMMA FifoCounted ==
    ASSUME Typed, Streamed
    PROVE  iFifoCount = 0 <=> iFifoIn = 0
  <1>1. PICK at \in Nat : \E nb \in 0 .. BlockCount(BootTable) : StreamedAt(at, nb)
    BY DEF Streamed
  <1>2. PICK nb \in 0 .. BlockCount(BootTable) : StreamedAt(at, nb)
    BY <1>1
  <1> DEFINE t == BootTable
             in == iFifoIn
             out == iFifoOut
             buffer == iData
             pulled == delivered
  <1>3. /\ t \in Seq(Bytes) /\ Len(t) % 2 = 0 /\ nb \in 0 .. BlockCount(t) /\ in \in Nat
        /\ out \in Nat /\ pulled \in Nat /\ Buffered(t, nb, in, out, buffer, pulled)
    BY <1>2, TableTyped DEF StreamedAt
  <1> HIDE DEF t, in, out, buffer, pulled
  <1>4. in >= out /\ (in - out = 0 <=> in = 0)
    BY ONLY <1>3, BufferedFifo
  <1> QED
    BY <1>4 DEF iFifoCount, in, out

LEMMA FifoEmptyInv ==
    ASSUME BootInv, FifoEmpty
    PROVE  BootInv'
  <1>1. /\ UNCHANGED hardware /\ UNCHANGED reader /\ UNCHANGED loader
        /\ UNCHANGED delivered /\ pc = "read" /\ pc' = "header" /\ iFifoCount = 0
        /\ Typed /\ Streamed /\ Progress
    BY Stages DEF FifoEmpty, Goto, BootInv
  <1>2. Typed'
    BY <1>1, ByteTakenTyped
  <1>3. iFifoIn = 0
    BY <1>1, FifoCounted
  <1>4. Streamed'
    BY <1>1, <1>3, StreamKept DEF reader, fifo
  <1>5. Progress'
    BY <1>1, ProgressKept, Stages DEF loader
  <1> QED
    BY <1>1, <1>2, <1>4, <1>5, Stages DEF BootInv

LEMMA FifoReadInv ==
    ASSUME BootInv, iFifoRead
    PROVE  BootInv'
  <1> DEFINE t == BootTable
             in == iFifoIn
             out == iFifoOut
             buffer == iData
             s == wrap.data
             d == delivered
             x == buffer[out + 1]
  <1>1. /\ UNCHANGED hardware /\ UNCHANGED position /\ UNCHANGED <<inst, memory, entry>>
        /\ iData' = buffer /\ len' = len /\ delivered' = d + 1
        /\ wrap' = [wrap EXCEPT !.data = Append(@, x)]
        /\ iFifoIn' = AfterRead(in, out).in /\ iFifoOut' = AfterRead(in, out).out
        /\ pc \in {"read", "take"} /\ pc' = "read"
        /\ pc = "read" => Len(s) < wrap.blockSize /\ iFifoCount # 0
        /\ Typed /\ Streamed /\ Progress
    BY Stages DEF iFifoRead, Goto, BootInv
  <1>2. Typed'
    BY <1>1, ByteTakenTyped DEF iFifoRead
  <1>3. BootTable' = BootTable /\ image' = image /\ endian' = endian
        /\ BlockCount(BootTable)' = BlockCount(BootTable)
    BY <1>1, TableKept DEF hardware
  <1>4. Aligned /\ InOrder /\ Followed
    BY <1>1 DEF Progress
  <1>5. /\ wrap \in Wrappers /\ Len(s) < wrap.blockSize /\ s \in Seq(Bytes)
    BY <1>1, Stages DEF Typed, LoaderTyped, Shared, Wrappers
  <1>6. d < Len(t)
    BY <1>1, <1>5, Positions, Stages
  <1>7. PICK at \in Nat : \E nb \in 0 .. BlockCount(BootTable) : StreamedAt(at, nb)
    BY <1>1 DEF Streamed
  <1>8. PICK nb \in 0 .. BlockCount(BootTable) : StreamedAt(at, nb)
    BY <1>7
  <1>9. in # 0
    BY <1>1, <1>8, FifoCounted DEF StreamedAt
  <1>10. /\ Buffered(t, nb, iFifoIn', iFifoOut', buffer, d + 1)
         /\ x = t[d + 1]
    <2>1. /\ t \in Seq(Bytes) /\ Len(t) % 2 = 0 /\ nb \in 0 .. BlockCount(t) /\ in \in Nat
          /\ in <= I_MAX_BLOCK_SIZE /\ out \in Nat /\ d \in Nat
          /\ Buffered(t, nb, in, out, buffer, d) /\ in # 0
      BY <1>1, <1>8, <1>9, TableTyped DEF StreamedAt
    <2> HIDE DEF t, in, out, buffer, d
    <2>2. /\ Buffered(t, nb, AfterRead(in, out).in, AfterRead(in, out).out, buffer, d + 1)
          /\ buffer[out + 1] = t[d + 1]
      BY ONLY <2>1, ByteTaken
    <2> QED
      BY <1>1, <2>2
  <1>11. Streamed'
    <2>1. AtTable(at)'
      BY <1>1, <1>8, TableKept DEF StreamedAt, AtTable, hardware
    <2>2. Positioned(BootTable, nb, at, readAddress, busAddress)'
      BY <1>1, <1>3, <1>8 DEF StreamedAt, Positioned, position
    <2>3. Buffered(BootTable, nb, iFifoIn, iFifoOut, iData, delivered)'
      <3>1. Buffered(BootTable', nb, iFifoIn', iFifoOut', iData', delivered')
        BY <1>1, <1>3, <1>10
      <3> QED
        BY <3>1 DEF Buffered, Drained, Waiting, ChunkEnd
    <2>4. StreamedAt(at, nb)'
      BY <1>1, <2>1, <2>2, <2>3 DEF StreamedAt
    <2> QED
      BY <1>3, <2>4 DEF Streamed
  <1>12. /\ wrap'.data = Append(s, x) /\ wrap'.readSize = wrap.readSize
         /\ wrap'.blockSize = wrap.blockSize
    BY <1>1, <1>5 DEF Wrappers
  <1>13. /\ Append(s, x) = SubSeq(t, (d + 1) - Len(Append(s, x)) + 1, d + 1)
         /\ Len(Append(s, x)) = Len(s) + 1 /\ Len(s) \in Nat /\ d \in Nat
         /\ Len(s) <= d /\ Len(t) \in Nat
    <2>1. /\ t \in Seq(Bytes) /\ s \in Seq(Bytes) /\ d \in Nat /\ d < Len(t) /\ Len(s) <= d
          /\ s = SubSeq(t, d - Len(s) + 1, d) /\ x = t[d + 1] /\ Len(t) \in Nat
      BY <1>1, <1>4, <1>5, <1>6, <1>10, TableTyped DEF InOrder, BytesInOrder
    <2> HIDE DEF t, s, d, x
    <2>2. Append(s, x) = SubSeq(t, (d + 1) - Len(Append(s, x)) + 1, d + 1)
      <3>1. Precedes(s, x, t, d)
        BY ONLY <2>1 DEF Precedes
      <3>2. StillPart(s, x, t, d)
        BY ONLY <3>1, NextByte
      <3> QED
        BY ONLY <3>2 DEF StillPart
    <2>3. x \in Bytes
      <3>1. d + 1 \in 1 .. Len(t)
        BY ONLY <2>1
      <3> QED
        BY ONLY <2>1, <3>1, Element
    <2>4. s \in Seq(Bytes)
      BY <2>1
    <2>5. Len(Append(s, x)) = Len(s) + 1 /\ Len(s) \in Nat
      BY ONLY <2>3, <2>4
    <2>6. d \in Nat /\ Len(s) <= d /\ Len(t) \in Nat
      BY <2>1
    <2> QED
      BY ONLY <2>2, <2>5, <2>6
  <1>14. InOrder'
    <2>1. wrap'.data = SubSeq(t, delivered' - Len(wrap'.data) + 1, delivered')
      BY <1>1, <1>12, <1>13
    <2>2. Len(wrap'.data) <= delivered' /\ delivered' <= Len(t)
      <3>1. delivered' = d + 1 /\ Len(wrap'.data) = Len(Append(s, x))
        BY <1>1, <1>12
      <3>2. d < Len(t) /\ Len(t) \in Nat /\ d \in Nat /\ Len(s) <= d /\ Len(s) \in Nat
            /\ Len(Append(s, x)) = Len(s) + 1
        BY <1>6, <1>13
      <3> HIDE DEF t, s, d, x
      <3>3. Len(s) + 1 <= d + 1 /\ d + 1 <= Len(t)
        BY ONLY <3>2
      <3> QED
        BY ONLY <3>1, <3>2, <3>3
    <2> QED
      BY <1>3, <2>1, <2>2 DEF InOrder, BytesInOrder
  <1>15. Position' = Position /\ Left' = Left
    <2>1. Position = d - Len(s) /\ Left = wrap.readSize
      BY <1>1, Stages DEF Position, Left
    <2>2. Position' = (d + 1) - (Len(s) + 1) /\ Left' = wrap.readSize
      BY <1>1, <1>12, <1>13, Stages DEF Position, Left
    <2>3. (d + 1) - (Len(s) + 1) = d - Len(s)
      <3> HIDE DEF s, d
      <3> QED
        BY <1>13
    <2> QED
      BY <2>1, <2>2, <2>3
  <1>16. Followed'
    BY <1>1, <1>3, <1>4, <1>15 DEF Followed
  <1>17. Aligned'
    BY <1>1, <1>4, <1>12, Stages DEF Aligned
  <1>18. Progress'
    BY <1>1, <1>14, <1>16, <1>17 DEF Progress
  <1> QED
    BY <1>1, <1>2, <1>11, <1>18, Stages DEF BootInv

LEMMA BlockInv ==
    ASSUME BootInv, ReadHeader \/ ReadBlock
    PROVE  BootInv'
  <1>1. /\ UNCHANGED hardware /\ UNCHANGED loader /\ UNCHANGED delivered
        /\ pc \in {"header", "block"} /\ pc' \in {"header", "block", "take"}
        /\ Typed /\ Streamed /\ Progress
    BY Stages DEF ReadHeader, ReadBlock, Goto, BootInv
  <1>2. Typed'
    BY <1>1, BlockTyped
  <1>3. delivered < Len(BootTable)
    <2>1. Len(wrap.data) < wrap.blockSize
      BY <1>1 DEF Typed, LoaderTyped, Shared
    <2> QED
      BY <1>1, <2>1, Positions, Stages
  <1>4. Streamed'
    BY <1>1, <1>3, HeaderStreamed, BlockStreamed
  <1>5. Progress'
    BY <1>1, ProgressKept, Stages DEF loader
  <1> QED
    BY <1>1, <1>2, <1>4, <1>5, Stages DEF BootInv

LEMMA BootInvStep == BootInv /\ [Next]_vars => BootInv'
  <1> SUFFICES ASSUME BootInv, [Next]_vars PROVE BootInv'
    OBVIOUS
  <1>1. CASE InitDevice \/ ReadMap \/ ReadConfig \/ StartBtbl
    BY <1>1, StartInv
  <1>2. CASE Pull
    BY <1>2, PullInv
  <1>3. CASE Jump
    BY <1>3, JumpInv
  <1>4. CASE StartProcess
    BY <1>4, StartProcessInv
  <1>5. CASE Process
    BY <1>5, ProcessInv
  <1>6. CASE EndProcess
    BY <1>6, EndProcessInv
  <1>7. CASE FifoEmpty
    BY <1>7, FifoEmptyInv
  <1>8. CASE iFifoRead
    BY <1>8, FifoReadInv
  <1>9. CASE ReadHeader \/ ReadBlock
    BY <1>9, BlockInv
  <1>10. CASE UNCHANGED vars
    <2>1. /\ UNCHANGED hardware /\ UNCHANGED reader /\ UNCHANGED loader
          /\ UNCHANGED <<pc, faults, delivered>> /\ Typed
      BY <1>10 DEF vars, BootInv
    <2>2. Typed'
      BY <1>10, <2>1, TypedStutter
    <2>3. pc \in Starting => Fresh'
      BY <2>1, FreshKept DEF reader, BootInv
    <2>4. /\ readAddress' = readAddress /\ busAddress' = busAddress
          /\ AtTable(readAddress)' = AtTable(readAddress) /\ Bus(readAddress)' = Bus(readAddress)
      BY <2>1 DEF AtTable, Bus, reader, position, hardware
    <2>5. pc \in Running => Streamed'
      BY <2>1, StreamKept DEF reader, fifo, BootInv
    <2>6. pc \in Running => Progress'
      <3>1. BootTable' = BootTable /\ image' = image /\ endian' = endian
        BY <2>1, TableKept DEF hardware
      <3>2. UNCHANGED <<inst, wrap, memory, entry>>
        BY <2>1 DEF loader
      <3>3. Position' = Position /\ Left' = Left
        BY <2>1, <3>2 DEF Position, Left
      <3>4. ASSUME Progress PROVE Progress'
        <4>1. Aligned'
          BY <2>1, <3>2, <3>3, <3>4 DEF Progress, Aligned
        <4>2. InOrder'
          BY <2>1, <3>1, <3>2, <3>4 DEF Progress, InOrder, BytesInOrder
        <4>3. Followed'
          BY <3>1, <3>2, <3>3, <3>4 DEF Progress, Followed
        <4> QED
          BY <2>1, <3>1, <3>2, <3>4, <4>1, <4>2, <4>3 DEF Progress
      <3> QED
        BY <3>4 DEF BootInv
    <2> QED
      BY <2>1, <2>2, <2>3, <2>4, <2>5, <2>6 DEF BootInv
  <1> QED
    BY <1>1, <1>2, <1>3, <1>4, <1>5, <1>6, <1>7, <1>8, <1>9, <1>10 DEF Next

\* At any moment the fifo holds the bytes of the table that follow those the
\* wrapper has, the processor is where its state says it is in the table, and
\* memory holds what of the program comes before (iblinit.c, btblwrap.c, btblpr.c).
THEOREM BootInvHolds == Spec => []BootInv
  <1> QED
    BY InitInv, BootInvStep, PTL DEF Spec

-----------------------------------------------------------------------------
(* What the invariant says.                                                *)

\* The wrapper gets the bytes of the boot table for the device's endianness,
\* each once and in order, whatever reads failed or were noisy on the way
\* (iblI2cRead and iblSpiRead, the fifo of iblinit.c).
THEOREM TableDelivered == Spec => []BytesInOrder
  <1>1. BootInv => BytesInOrder
    <2> SUFFICES ASSUME BootInv PROVE BytesInOrder
      OBVIOUS
    <2>1. Typed /\ pc \in Starting \cup Running
      BY DEF BootInv, Typed
    <2>2. CASE pc \in Running
      BY <2>2 DEF BootInv, Progress, InOrder
    <2>3. CASE pc \in Starting
      <3>1. wrap.data = << >> /\ delivered = 0
        BY <2>3 DEF BootInv, Fresh
      <3>2. << >> = SubSeq(BootTable, 0 - Len(<< >>) + 1, 0)
        BY <2>1, TableTyped, NothingPulled
      <3> QED
        BY <3>1, <3>2 DEF BytesInOrder
    <2> QED
      BY <2>1, <2>2, <2>3
  <1> QED
    BY <1>1, BootInvHolds, PTL

\* Where the processor is, as the invariant has it.
LEMMA Following ==
    ASSUME BootInv, pc \in Running
    PROVE  \E k \in 0 .. Len(image.sections) : \E done \in 0 .. MemoryLen :
               Parsed(image, endian, inst, Position, Left, k, done, memory)
  BY DEF BootInv, Progress, Followed, Continued

\* The size of a section is asked for where the table has one, and the end of
\* the table is noticed at its end, so that what follows the table in the flash
\* is never taken for a part of it (boot_proc_boot_tbl_size, btblwrap.c).
THEOREM BoundariesKept == Spec => []SectionBoundaries
  <1>1. BootInv => SectionBoundaries
    <2> SUFFICES ASSUME BootInv, pc = "pull", wrap.readSize = 0
                 PROVE  /\ inst.state = "SIZE" => delivered \in SectionStarts
                        /\ inst.state = "FLUSH" => delivered = Len(BootTable)
      BY DEF SectionBoundaries
    <2>1. pc \in Running /\ Typed /\ Aligned
      BY Stages DEF BootInv, Progress
    <2>2. Position = delivered /\ Left = 0
      BY Stages DEF Position, Left
    <2>3. PICK k \in 0 .. Len(image.sections) : \E done \in 0 .. MemoryLen :
              Parsed(image, endian, inst, delivered, 0, k, done, memory)
      BY <2>1, <2>2, Following
    <2>4. PICK done \in 0 .. MemoryLen :
              Parsed(image, endian, inst, delivered, 0, k, done, memory)
      BY <2>3
    <2>5. ASSUME inst.state = "SIZE" PROVE delivered \in SectionStarts
      <3>1. Control(inst, Start(image, endian, k), delivered, 0)
        BY <2>4, <2>5 DEF Parsed, InSize
      <3>2. delivered = Start(image, endian, k)
        BY <3>1 DEF Control
      <3>3. Len(Bytes32(image.entry)) = 4
        BY <2>1, ImageSections, Bytes32Bytes DEF Typed, Hardware
      <3>4. Start(image, endian, k)
                = Len(Bytes32(image.entry))
                    + Len(FlattenSeq([j \in 1 .. k |->
                              SectionTable(image.sections[j], endian)]))
        BY <3>3 DEF Start, Tables
      <3> QED
        BY <3>2, <3>4 DEF SectionStarts
    <2>6. ASSUME inst.state = "FLUSH" PROVE delivered = Len(BootTable)
      <3>1. delivered + 0 = Len(BootTable)
        BY <2>4, <2>6 DEF Parsed, InFlush, BootTable
      <3> QED
        BY <2>1, <3>1, TableTyped
    <2> QED
      BY <2>5, <2>6
  <1> QED
    BY <1>1, BootInvHolds, PTL

\* What is in place is what the sections have there.
LEMMA OnlySections ==
    ASSUME NEW im \in Images, NEW e, NEW i \in Instances, NEW at, NEW left,
           NEW k \in 0 .. Len(im.sections), NEW done \in 0 .. MemoryLen, NEW mem,
           Parsed(im, e, i, at, left, k, done, mem),
           NEW a \in 0 .. MemoryLen - 1, InPlace(im, k, done, a)
    PROVE  \E j \in 1 .. Len(im.sections) : Covers(im.sections[j], a)
  <1>1. Len(im.sections) \in Nat /\ a \in Nat
    BY ImageSections, Sizes
  <1>2. CASE \E j \in 1 .. k : Covers(im.sections[j], a)
    <2>1. \A j \in 1 .. k : j \in 1 .. Len(im.sections)
      BY <1>1
    <2> QED
      BY <1>2, <2>1
  <1>3. CASE /\ k < Len(im.sections) /\ im.sections[k + 1].addr <= a
             /\ a < im.sections[k + 1].addr + done
    <2> DEFINE s == im.sections[k + 1]
               x == s.addr
               L == Len(s.data)
    <2>1. k + 1 \in 1 .. Len(im.sections)
      BY <1>1, <1>3
    <2>2. x \in Nat /\ L \in Nat /\ done \in Nat
      <3>1. IsSection(s)
        BY <2>1, ImageSections
      <3>2. x \in Nat /\ L \in Nat
        BY ONLY <3>1 DEF IsSection, Is32Bit
      <3> QED
        BY <3>2, Sizes
    <2>3. done # 0
      <3> HIDE DEF x
      <3>1. x <= a /\ a < x + done
        BY <1>3 DEF x
      <3> QED
        BY <1>1, <2>2, <3>1
    <2>4. done < L
      BY <2>3 DEF Parsed, InData
    <2>5. Covers(s, a)
      <3>1. x <= a /\ a < x + done
        BY <1>3
      <3> HIDE DEF x, L, s
      <3>2. a \in x .. x + L - 1
        BY <1>1, <2>2, <2>4, <3>1
      <3> QED
        BY <3>2 DEF Covers, x, L
    <2> QED
      BY <2>1, <2>5
  <1> QED
    BY <1>2, <1>3 DEF InPlace

\* A byte of memory while the table is pulled.
LEMMA MemoryByte ==
    ASSUME BootInv, NEW a \in DOMAIN memory
    PROVE  /\ a \in 0 .. MemoryLen - 1 /\ image \in Images
           /\ ImageMemory[a] = IF \E j \in 1 .. Len(image.sections) : Covers(image.sections[j], a)
                               THEN ImageByte(image, a) ELSE Untouched
  <1>1. image \in Images /\ DOMAIN memory = 0 .. MemoryLen - 1
    BY DEF BootInv, Typed, Hardware, LoaderTyped
  <1>2. DOMAIN image.sections = 1 .. Len(image.sections)
    BY <1>1, ImageSections
  <1>3. ImageMemory[a] = IF \E k \in DOMAIN image.sections : Covers(image.sections[k], a)
                         THEN ImageByte(image, a) ELSE Untouched
    BY DEF ImageMemory, ImageByte
  <1> QED
    BY <1>1, <1>2, <1>3

\* Only bytes of the program are written, and each of them where it belongs
\* (boot_proc_boot_tbl_data, coreCopyData).
THEOREM OnlyProgramWritten == Spec => []OnlyImageWritten
  <1>1. BootInv => OnlyImageWritten
    <2> SUFFICES ASSUME BootInv, NEW a \in DOMAIN memory
                 PROVE  memory[a] = Untouched \/ memory[a] = ImageMemory[a]
      BY DEF OnlyImageWritten
    <2>1. a \in 0 .. MemoryLen - 1 /\ image \in Images /\ pc \in Starting \cup Running
          /\ inst \in Instances
      BY MemoryByte DEF BootInv, Typed, LoaderTyped
    <2>2. CASE pc \in Starting
      BY <2>1, <2>2 DEF BootInv, Fresh
    <2>3. CASE pc \in Running
      <3>1. PICK k \in 0 .. Len(image.sections) : \E done \in 0 .. MemoryLen :
                Parsed(image, endian, inst, Position, Left, k, done, memory)
        BY <2>3, Following
      <3>2. PICK done \in 0 .. MemoryLen :
                Parsed(image, endian, inst, Position, Left, k, done, memory)
        BY <3>1
      <3>3. memory[a] = IF InPlace(image, k, done, a) THEN ImageByte(image, a) ELSE Untouched
        BY <2>1, <3>2 DEF Parsed, Filled
      <3>4. InPlace(image, k, done, a) =>
                \E j \in 1 .. Len(image.sections) : Covers(image.sections[j], a)
        BY <2>1, <3>2, OnlySections
      <3> QED
        BY <3>3, <3>4, MemoryByte
    <2> QED
      BY <2>1, <2>2, <2>3
  <1> QED
    BY <1>1, BootInvHolds, PTL

\* The first stage jumps to the entry point of the program, and not before the
\* whole program is in place (main of iblinit.c).
THEOREM EnteredWhenLoaded == Spec => []LoadedWhenEntered
  <1>1. BootInv => LoadedWhenEntered
    <2> SUFFICES ASSUME BootInv, pc = "entered"
                 PROVE  memory = ImageMemory /\ entry = image.entry
      BY DEF LoadedWhenEntered
    <2>1. /\ pc \in Running /\ inst.state = "FLUSH" /\ entry = image.entry
          /\ image \in Images /\ inst \in Instances /\ DOMAIN memory = 0 .. MemoryLen - 1
      BY Stages DEF BootInv, Progress, Typed, Hardware, LoaderTyped
    <2>2. PICK k \in 0 .. Len(image.sections) : \E done \in 0 .. MemoryLen :
              Parsed(image, endian, inst, Position, Left, k, done, memory)
      BY <2>1, Following
    <2>3. PICK done \in 0 .. MemoryLen :
              Parsed(image, endian, inst, Position, Left, k, done, memory)
      BY <2>2
    <2>4. k = Len(image.sections) /\ done = 0 /\ Filled(image, k, done, memory)
      BY <2>1, <2>3 DEF Parsed, InFlush
    <2>5. ASSUME NEW a \in DOMAIN memory
          PROVE  memory[a] = ImageMemory[a]
      <3>1. a \in 0 .. MemoryLen - 1
        BY <2>1
      <3>2. ~ (k < Len(image.sections))
        BY <2>1, <2>4, ImageSections
      <3>3. InPlace(image, k, done, a)
                <=> \E j \in 1 .. Len(image.sections) : Covers(image.sections[j], a)
        BY <2>4, <3>2 DEF InPlace
      <3>4. memory[a] = IF InPlace(image, k, done, a) THEN ImageByte(image, a) ELSE Untouched
        BY <2>4, <3>1 DEF Filled
      <3> QED
        BY <3>3, <3>4, MemoryByte
    <2>6. memory = [a \in DOMAIN memory |-> memory[a]]
      <3>1. memory = [a \in 0 .. MemoryLen - 1 |->
                         IF InPlace(image, k, done, a) THEN ImageByte(image, a) ELSE Untouched]
        BY <2>4 DEF Filled
      <3> QED
        BY <3>1
    <2>7. ImageMemory = [a \in DOMAIN memory |-> ImageMemory[a]]
      BY DEF ImageMemory
    <2> QED
      BY <2>1, <2>5, <2>6, <2>7
  <1> QED
    BY <1>1, BootInvHolds, PTL
=================================================================================

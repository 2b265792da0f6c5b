------------------------------ MODULE FlashProofs ------------------------------
(***************************************************************************)
(* What is proved of booting from flash, for every geometry of the flash,  *)
(* every content of its blocks and every image; and, before that, of the   *)
(* error correction, for every width of the addresses and every content of *)
(* the block: the argument is that of the code itself, by the parities an  *)
(* error turns over.                                                       *)
(***************************************************************************)
EXTENDS FlashBootProperties, FiniteSetTheorems, TLAPS

\* The parities that change when bit b of the data does.
Turned(b) == {p \in Parities : Covers(p, b)}

-----------------------------------------------------------------------------
(* Finite sets.                                                            *)

\* The bits of a block are finitely many.
LEMMA BitsFinite == IsFiniteSet(Bits)
  <1> DEFINE Pairs == (SUBSET Lines) \X (SUBSET Columns)
             name == [x \in Pairs |-> [line |-> x[1], column |-> x[2]]]
  <1>1. IsFiniteSet(SUBSET Lines) /\ IsFiniteSet(SUBSET Columns)
    BY EccAssumption, FS_SUBSET
  <1>2. IsFiniteSet(Pairs)
    BY <1>1, FS_Product
  <1>3. name \in Surjection(Pairs, Bits)
    <2>1. name \in [Pairs -> Bits]
      BY DEF Bits
    <2>2. ASSUME NEW b \in Bits
          PROVE  \E x \in Pairs : name[x] = b
      <3>1. <<b.line, b.column>> \in Pairs /\ b = [line |-> b.line, column |-> b.column]
        BY DEF Bits
      <3> QED
        BY <3>1
    <2> HIDE DEF name
    <2> QED
      BY <2>1, <2>2 DEF Surjection
  <1> QED
    BY <1>2, <1>3, FS_Surjection

LEMMA NextParity ==
    ASSUME NEW n \in Int
    PROVE  (n + 1) % 2 = 1 <=> ~(n % 2 = 1)
  OBVIOUS

LEMMA BooleanFinite == IsFiniteSet(BOOLEAN)
  <1>1. IsFiniteSet({TRUE})
    BY FS_Singleton
  <1>2. IsFiniteSet({TRUE} \cup {FALSE})
    BY <1>1, FS_AddElement
  <1>3. BOOLEAN = {TRUE} \cup {FALSE}
    OBVIOUS
  <1> QED
    BY <1>2, <1>3

\* So are the parities of one kind.
LEMMA KindFinite ==
    ASSUME NEW kind, NEW S, IsFiniteSet(S)
    PROVE  IsFiniteSet([of : {kind}, bit : S, has : BOOLEAN])
  <1> DEFINE Pairs == S \X BOOLEAN
             Kind == [of : {kind}, bit : S, has : BOOLEAN]
             name == [x \in Pairs |-> [of |-> kind, bit |-> x[1], has |-> x[2]]]
  <1>1. IsFiniteSet(Pairs)
    BY BooleanFinite, FS_Product
  <1>2. name \in Surjection(Pairs, Kind)
    <2>1. name \in [Pairs -> Kind]
      OBVIOUS
    <2>2. ASSUME NEW p \in Kind
          PROVE  \E x \in Pairs : name[x] = p
      <3>1. <<p.bit, p.has>> \in Pairs /\ p = [of |-> kind, bit |-> p.bit, has |-> p.has]
        OBVIOUS
      <3> QED
        BY <3>1
    <2> HIDE DEF name
    <2> QED
      BY <2>1, <2>2 DEF Surjection
  <1> QED
    BY <1>1, <1>2, FS_Surjection

LEMMA ParitiesFinite == IsFiniteSet(Parities)
  <1>1. IsFiniteSet(LineParities) /\ IsFiniteSet(ColumnParities)
    BY KindFinite, EccAssumption DEF LineParities, ColumnParities
  <1> QED
    BY <1>1, FS_Union DEF Parities

\* One element more or less turns the parity over.
LEMMA FlipOne ==
    ASSUME NEW S, NEW x, IsFiniteSet(S)
    PROVE  /\ IsFiniteSet(Flip(S, {x}))
           /\ Odd(Flip(S, {x})) <=> ~Odd(S)
  <1>1. Cardinality(S) \in Nat
    BY FS_CardinalityType
  <1>2. CASE x \in S
    <2>1. Flip(S, {x}) = S \ {x}
      BY <1>2 DEF Flip
    <2>2. IsFiniteSet(S \ {x}) /\ Cardinality(S \ {x}) = Cardinality(S) - 1
      BY <1>2, FS_RemoveElement
    <2>3. (Cardinality(S) - 1) % 2 = 1 <=> ~(Cardinality(S) % 2 = 1)
      BY <1>1, NextParity
    <2>4. Odd(S \ {x}) <=> ~Odd(S)
      BY <2>2, <2>3 DEF Odd
    <2> QED
      BY <2>1, <2>2, <2>4
  <1>3. CASE x \notin S
    <2>1. Flip(S, {x}) = S \cup {x}
      BY <1>3 DEF Flip
    <2>2. IsFiniteSet(S \cup {x}) /\ Cardinality(S \cup {x}) = Cardinality(S) + 1
      BY <1>3, FS_AddElement
    <2>3. (Cardinality(S) + 1) % 2 = 1 <=> ~(Cardinality(S) % 2 = 1)
      BY <1>1, NextParity
    <2>4. Odd(S \cup {x}) <=> ~Odd(S)
      BY <2>2, <2>3 DEF Odd
    <2> QED
      BY <2>1, <2>2, <2>4
  <1> QED
    BY <1>2, <1>3

\* Members of a set that is large enough.
LEMMA OneMember ==
    ASSUME NEW S, IsFiniteSet(S), Cardinality(S) >= 1
    PROVE  \E x \in S : IsFiniteSet(S \ {x}) /\ Cardinality(S \ {x}) = Cardinality(S) - 1
  <1>1. S # {}
    BY FS_EmptySet
  <1>2. PICK x \in S : TRUE
    BY <1>1
  <1> QED
    BY <1>2, FS_RemoveElement

LEMMA TwoMembers ==
    ASSUME NEW S, IsFiniteSet(S), Cardinality(S) >= 2
    PROVE  \E x, y \in S : x # y
  <1>1. Cardinality(S) \in Nat
    BY FS_CardinalityType
  <1>2. PICK x \in S : IsFiniteSet(S \ {x}) /\ Cardinality(S \ {x}) = Cardinality(S) - 1
    BY <1>1, OneMember
  <1>3. PICK y \in S \ {x} : TRUE
    BY <1>1, <1>2, OneMember
  <1> QED
    BY <1>3

LEMMA ThreeMembers ==
    ASSUME NEW S, IsFiniteSet(S), Cardinality(S) >= 3
    PROVE  \E x, y, z \in S : x # y /\ x # z /\ y # z
  <1>1. Cardinality(S) \in Nat
    BY FS_CardinalityType
  <1>2. PICK x \in S : IsFiniteSet(S \ {x}) /\ Cardinality(S \ {x}) = Cardinality(S) - 1
    BY <1>1, OneMember
  <1>3. PICK y, z \in S \ {x} : y # z
    BY <1>1, <1>2, TwoMembers
  <1> QED
    BY <1>3

LEMMA PairSize ==
    ASSUME NEW x, NEW y, x # y
    PROVE  IsFiniteSet({x, y}) /\ Cardinality({x, y}) = 2
  <1>1. IsFiniteSet({x}) /\ Cardinality({x}) = 1
    BY FS_Singleton
  <1>2. IsFiniteSet({x} \cup {y}) /\ Cardinality({x} \cup {y}) = Cardinality({x}) + 1
    BY <1>1, FS_AddElement
  <1>3. {x} \cup {y} = {x, y}
    OBVIOUS
  <1> QED
    BY <1>1, <1>2, <1>3

\* The errors the claim is about, and their number.
LEMMA AtMostTwo ==
    ASSUME NEW S, NEW F \in SetsOfAtMostTwo(S)
    PROVE  \/ F = {} /\ Cardinality(F) = 0
           \/ \E x \in S : F = {x} /\ Cardinality(F) = 1
           \/ \E x, y \in S : x # y /\ F = {x, y} /\ Cardinality(F) = 2
  <1>1. F = {} \/ \E x, y \in S : F = {x, y}
    BY DEF SetsOfAtMostTwo
  <1>2. CASE F = {}
    BY <1>2, FS_EmptySet
  <1>3. ASSUME NEW x \in S, NEW y \in S, F = {x, y}
        PROVE  \/ \E u \in S : F = {u} /\ Cardinality(F) = 1
               \/ \E u, v \in S : u # v /\ F = {u, v} /\ Cardinality(F) = 2
    <2>1. CASE x = y
      <3>1. F = {x}
        BY <1>3, <2>1
      <3> QED
        BY <3>1, FS_Singleton
    <2>2. CASE x # y
      BY <1>3, <2>2, PairSize
    <2> QED
      BY <2>1, <2>2
  <1> QED
    BY <1>1, <1>2, <1>3

-----------------------------------------------------------------------------
(* What an error does to the code.                                         *)

LEMMA FlipBasics ==
    /\ \A S, T, x : x \in Flip(S, T) <=> (x \in S <=> x \notin T)
    /\ \A S, T : Flip(Flip(S, T), T) = S
    /\ \A S : Flip(S, {}) = S /\ Flip(S, S) = {}
  <1>1. \A S, T, x : x \in Flip(S, T) <=> (x \in S <=> x \notin T)
    BY DEF Flip
  <1>2. \A S, T : Flip(Flip(S, T), T) = S
    BY DEF Flip
  <1>3. \A S : Flip(S, {}) = S /\ Flip(S, S) = {}
    BY DEF Flip
  <1> QED
    BY <1>1, <1>2, <1>3

\* The code of a block with one bit wrong differs in the parities it is part of.
LEMMA CodeOfFlip ==
    ASSUME NEW data \in SUBSET Bits, NEW b \in Bits
    PROVE  eccComputeECC(Flip(data, {b})) = Flip(eccComputeECC(data), Turned(b))
  <1> DEFINE Seen(p, d) == {c \in d : Covers(p, c)}
             after == Flip(data, {b})
  <1>1. \A p : IsFiniteSet(Seen(p, data))
    <2> SUFFICES ASSUME NEW p PROVE IsFiniteSet(Seen(p, data))
      OBVIOUS
    <2>1. Seen(p, data) \in SUBSET Bits
      OBVIOUS
    <2> QED
      BY <2>1, BitsFinite, FS_Subset
  <1>2. \A p : Seen(p, after) = IF Covers(p, b) THEN Flip(Seen(p, data), {b}) ELSE Seen(p, data)
    BY DEF Flip
  <1>3. \A p \in Parities : Odd(Seen(p, after)) <=> (Odd(Seen(p, data)) <=> p \notin Turned(b))
    BY ZenonT(60), <1>1, <1>2, FlipOne DEF Turned
  <1>4. \A d : eccComputeECC(d) = Unused \cup {p \in Parities : ~Odd(Seen(p, d))}
    BY DEF eccComputeECC
  <1>5. Unused \cap Parities = {} /\ Turned(b) \subseteq Parities
    BY DEF Unused, Parities, LineParities, ColumnParities, Turned
  <1> HIDE DEF Seen, after
  <1>6. \A p : p \in eccComputeECC(after) <=> p \in Flip(eccComputeECC(data), Turned(b))
    BY <1>3, <1>4, <1>5 DEF Flip
  <1> QED
    BY <1>6 DEF after

\* The parities a bit turns are those of its address and its place.
LEMMA TurnedParities ==
    ASSUME NEW b \in Bits
    PROVE  /\ \A r \in Lines : /\ HasLine(r) \in Turned(b) <=> r \in b.line
                               /\ LacksLine(r) \in Turned(b) <=> r \notin b.line
           /\ \A r \in Columns : /\ HasColumn(r) \in Turned(b) <=> r \in b.column
                                 /\ LacksColumn(r) \in Turned(b) <=> r \notin b.column
           /\ Turned(b) \subseteq Parities
  BY DEF Turned, Covers, HasLine, LacksLine, HasColumn, LacksColumn, Parities, LineParities, ColumnParities

LEMMA TurnedLooksLikeOneBit ==
    ASSUME NEW b \in Bits, NEW u \in SUBSET Unused
    PROVE  /\ LooksLikeOneBit(Flip(u, Turned(b)))
           /\ WrongBit(Flip(u, Turned(b))) = b
  <1>0. PICK d : d = Flip(u, Turned(b))
    OBVIOUS
  <1>1. \A r : /\ HasLine(r) \notin u /\ LacksLine(r) \notin u
              /\ HasColumn(r) \notin u /\ LacksColumn(r) \notin u
    BY DEF HasLine, LacksLine, HasColumn, LacksColumn, Unused
  <1>2. /\ \A r \in Lines : /\ HasLine(r) \in d <=> r \in b.line
                            /\ LacksLine(r) \in d <=> r \notin b.line
        /\ \A r \in Columns : /\ HasColumn(r) \in d <=> r \in b.column
                              /\ LacksColumn(r) \in d <=> r \notin b.column
    BY <1>0, <1>1, TurnedParities DEF Flip
  <1>3. b = [line |-> b.line, column |-> b.column] /\ b.line \subseteq Lines
        /\ b.column \subseteq Columns
    BY DEF Bits
  <1>4. LooksLikeOneBit(d)
    BY <1>2 DEF LooksLikeOneBit
  <1>5. {r \in Lines : HasLine(r) \in d} = b.line
    BY <1>2, <1>3
  <1>6. {r \in Columns : HasColumn(r) \in d} = b.column
    BY <1>2, <1>3
  <1>7. WrongBit(d) = b
    BY <1>3, <1>5, <1>6 DEF WrongBit
  <1> QED
    BY <1>0, <1>4, <1>7

\* There are at least three pairs of parities, so what looks like one wrong
\* bit of the data differs in three places.
LEMMA ThreePlaces ==
    ASSUME NEW d, LooksLikeOneBit(d)
    PROVE  \E p, q, s \in d : p # q /\ p # s /\ q # s
  <1>1. \A r \in Lines : HasLine(r) \in d \/ LacksLine(r) \in d
    BY DEF LooksLikeOneBit
  <1>2. \A r \in Columns : HasColumn(r) \in d \/ LacksColumn(r) \in d
    BY DEF LooksLikeOneBit
  <1> DEFINE line(r) == IF HasLine(r) \in d THEN HasLine(r) ELSE LacksLine(r)
             column(r) == IF HasColumn(r) \in d THEN HasColumn(r) ELSE LacksColumn(r)
  <1>3. /\ \A r \in Lines : line(r) \in d
        /\ \A r \in Columns : column(r) \in d
        /\ \A r, s : line(r) # column(s) /\ (r # s => line(r) # line(s) /\ column(r) # column(s))
    BY <1>1, <1>2 DEF HasLine, LacksLine, HasColumn, LacksColumn
  <1> HIDE DEF line, column
  <1>4. Cardinality(Lines) \in Nat /\ Cardinality(Columns) \in Nat
    BY EccAssumption, FS_CardinalityType
  <1>5. CASE Cardinality(Lines) >= 3
    <2>1. PICK r, s, t \in Lines : r # s /\ r # t /\ s # t
      BY <1>5, EccAssumption, ThreeMembers
    <2> QED
      BY <1>3, <2>1
  <1>6. CASE Cardinality(Lines) = 2
    <2>1. PICK r, s \in Lines : r # s
      BY <1>6, EccAssumption, TwoMembers
    <2>2. PICK t \in Columns : TRUE
      BY <1>4, <1>6, EccAssumption, OneMember
    <2> QED
      BY <1>3, <2>1, <2>2
  <1>7. CASE Cardinality(Lines) = 1
    <2>1. PICK r \in Lines : TRUE
      BY <1>7, EccAssumption, OneMember
    <2>2. PICK s, t \in Columns : s # t
      BY <1>4, <1>7, EccAssumption, TwoMembers
    <2> QED
      BY <1>3, <2>1, <2>2
  <1>8. CASE Cardinality(Lines) = 0
    <2>1. PICK r, s, t \in Columns : r # s /\ r # t /\ s # t
      BY <1>4, <1>8, EccAssumption, ThreeMembers
    <2> QED
      BY <1>3, <2>1
  <1> QED
    BY <1>4, <1>5, <1>6, <1>7, <1>8

\* Two differences among the parities are not counted as one.
LEMMA CountsMoreThanOne ==
    ASSUME NEW d, d \subseteq Parities, NEW u \in d, NEW v \in d, u # v
    PROVE  d # {} /\ Cardinality(d) # 1
  <1>1. IsFiniteSet(d)
    BY ParitiesFinite, FS_Subset
  <1> QED
    BY <1>1, FS_Singleton

\* All parities of one bit, but for one of them, or one more: no longer the
\* pattern of one bit, and not a single difference either.
LEMMA OneBitAndOneParity ==
    ASSUME NEW b \in Bits, NEW p \in Parities
    PROVE  LET d == Flip({p}, Turned(b))
           IN  /\ ~LooksLikeOneBit(d)
               /\ \E x, y \in d : x # y
  <1> DEFINE d == Flip({p}, Turned(b))
  <1>1. LooksLikeOneBit(Turned(b))
    <2>1. Flip({}, Turned(b)) = Turned(b)
      BY DEF Flip
    <2> QED
      BY <2>1, TurnedLooksLikeOneBit
  <1>2. PICK x, y, z \in Turned(b) : x # y /\ x # z /\ y # z
    BY <1>1, ThreePlaces
  <1>3. \A q : q # p => (q \in d <=> q \in Turned(b))
    BY DEF Flip
  <1>4. p \in d <=> p \notin Turned(b)
    BY DEF Flip
  <1>5. \E u, v \in d : u # v
    BY <1>2, <1>3
  <1>6. ~LooksLikeOneBit(d)
    <2>1. CASE p \in LineParities
      <3>1. PICK r \in Lines : p = HasLine(r) \/ p = LacksLine(r)
        BY <2>1 DEF LineParities, HasLine, LacksLine
      <3>2. HasLine(r) # LacksLine(r)
        BY DEF HasLine, LacksLine
      <3>3. HasLine(r) \in d <=> LacksLine(r) \in d
        BY <1>1, <1>3, <1>4, <3>1, <3>2 DEF LooksLikeOneBit
      <3> QED
        BY <3>3 DEF LooksLikeOneBit
    <2>2. CASE p \in ColumnParities
      <3>1. PICK r \in Columns : p = HasColumn(r) \/ p = LacksColumn(r)
        BY <2>2 DEF ColumnParities, HasColumn, LacksColumn
      <3>2. HasColumn(r) # LacksColumn(r)
        BY DEF HasColumn, LacksColumn
      <3>3. HasColumn(r) \in d <=> LacksColumn(r) \in d
        BY <1>1, <1>3, <1>4, <3>1, <3>2 DEF LooksLikeOneBit
      <3> QED
        BY <3>3 DEF LooksLikeOneBit
    <2> QED
      BY <2>1, <2>2 DEF Parities
  <1> QED
    BY <1>5, <1>6

\* Two bits of the data differ somewhere, and there both parities are turned.
LEMMA TwoBits ==
    ASSUME NEW x \in Bits, NEW y \in Bits, x # y
    PROVE  LET d == Flip(Turned(x), Turned(y))
           IN  /\ ~LooksLikeOneBit(d)
               /\ \E u, v \in d : u # v
  <1>0. PICK d : d = Flip(Turned(x), Turned(y))
    OBVIOUS
  <1>1. \A p : p \in d <=> (p \in Turned(x) <=> p \notin Turned(y))
    BY <1>0 DEF Flip
  <1>2. x.line # y.line \/ x.column # y.column
    BY DEF Bits
  <1>3. CASE x.line # y.line
    <2>1. PICK r \in Lines : r \in x.line <=> r \notin y.line
      BY <1>3 DEF Bits
    <2>2. HasLine(r) \in d /\ LacksLine(r) \in d
      BY <1>1, <2>1, TurnedParities
    <2>3. HasLine(r) # LacksLine(r)
      BY DEF HasLine, LacksLine
    <2> QED
      BY <1>0, <2>2, <2>3 DEF LooksLikeOneBit
  <1>4. CASE x.column # y.column
    <2>1. PICK r \in Columns : r \in x.column <=> r \notin y.column
      BY <1>4 DEF Bits
    <2>2. HasColumn(r) \in d /\ LacksColumn(r) \in d
      BY <1>1, <2>1, TurnedParities
    <2>3. HasColumn(r) # LacksColumn(r)
      BY DEF HasColumn, LacksColumn
    <2> QED
      BY <1>0, <2>2, <2>3 DEF LooksLikeOneBit
  <1> QED
    BY <1>2, <1>3, <1>4

-----------------------------------------------------------------------------

\* What is read back of a block with at most two flipped bits.
LEMMA ReadBackSound ==
    ASSUME NEW data \in SUBSET Bits,
           NEW dataFlips \in SetsOfAtMostTwo(Bits),
           NEW codeFlips \in SetsOfAtMostTwo(CodeBits),
           Cardinality(dataFlips) + Cardinality(codeFlips) <= 2
    PROVE  LET r == ReadBack(data, dataFlips, codeFlips)
           IN  /\ r.status = "ECC_SUCCESS" => r.data = data
               /\ Cardinality(dataFlips) + Cardinality(codeFlips) <= 1 =>
                      r.status = "ECC_SUCCESS"
  <1> DEFINE code == eccComputeECC(data)
             flipped == Flip(data, dataFlips)
             r == ReadBack(data, dataFlips, codeFlips)
  <1>1. PICK d : d = Flip(Flip(code, codeFlips), eccComputeECC(flipped))
    OBVIOUS
  <1>2. r = IF d = {} THEN Corrected("ECC_SUCCESS", flipped)
            ELSE IF LooksLikeOneBit(d) THEN Corrected("ECC_SUCCESS", Flip(flipped, {WrongBit(d)}))
            ELSE Corrected(IF Cardinality(d) = 1 THEN "ECC_SUCCESS" ELSE "ECC_FAIL", flipped)
    BY <1>1 DEF ReadBack, eccCorrectData
  <1>3. CASE dataFlips = {}
    <2>1. flipped = data /\ d = codeFlips
      BY <1>1, <1>3 DEF Flip
    <2>2. Cardinality(dataFlips) = 0
      BY <1>3, FS_EmptySet
    <2>3. ~LooksLikeOneBit(d)
      <3>1. ~ \E p, q, s \in codeFlips : p # q /\ p # s /\ q # s
        BY DEF SetsOfAtMostTwo
      <3> QED
        BY <2>1, <3>1, ThreePlaces
    <2>4. r.data = data /\ (r.status = "ECC_SUCCESS" <=> d = {} \/ Cardinality(d) = 1)
      BY <1>2, <2>1, <2>3 DEF Corrected
    <2>5. Cardinality(codeFlips) <= 1 => codeFlips = {} \/ Cardinality(codeFlips) = 1
      BY AtMostTwo
    <2> QED
      BY <2>1, <2>2, <2>4, <2>5, AtMostTwo
  <1>4. ASSUME NEW x \in Bits, dataFlips = {x}
        PROVE  /\ r.status = "ECC_SUCCESS" => r.data = data
               /\ codeFlips = {} => r.status = "ECC_SUCCESS"
    <2>1. d = Flip(codeFlips, Turned(x))
      <3>1. eccComputeECC(flipped) = Flip(code, Turned(x))
        BY <1>4, CodeOfFlip
      <3>2. d = Flip(Flip(code, codeFlips), Flip(code, Turned(x)))
        BY <1>1, <3>1
      <3> QED
        BY <3>2 DEF Flip
    <2>2. Flip(flipped, {x}) = data
      BY <1>4, FlipBasics
    <2>3. ASSUME codeFlips \subseteq Unused
          PROVE  r = Corrected("ECC_SUCCESS", data)
      <3>1. LooksLikeOneBit(d) /\ WrongBit(d) = x
        BY <2>1, <2>3, TurnedLooksLikeOneBit
      <3>2. d # {}
        BY <3>1, ThreePlaces
      <3> QED
        BY <1>2, <2>2, <3>1, <3>2
    <2>4. ASSUME NEW p \in Parities, codeFlips = {p}
          PROVE  r = Corrected("ECC_FAIL", flipped)
      <3>1. ~LooksLikeOneBit(d) /\ \E u, v \in d : u # v
        BY <2>1, <2>4, OneBitAndOneParity
      <3>2. d \subseteq Parities
        BY <2>1, <2>4 DEF Flip, Turned
      <3>3. d # {} /\ Cardinality(d) # 1
        BY <3>1, <3>2, CountsMoreThanOne
      <3> QED
        BY <1>2, <3>1, <3>3
    <2>5. codeFlips \subseteq Unused \/ \E p \in Parities : codeFlips = {p}
      <3>1. Cardinality(dataFlips) = 1
        BY <1>4, FS_Singleton
      <3>2. codeFlips = {} \/ \E c \in CodeBits : codeFlips = {c}
        BY <3>1, AtMostTwo
      <3> QED
        BY <3>2 DEF CodeBits
    <2>6. codeFlips = {} => codeFlips \subseteq Unused
      OBVIOUS
    <2>7. codeFlips = {} => r.status = "ECC_SUCCESS"
      BY <2>3, <2>6 DEF Corrected
    <2>8. r.status = "ECC_SUCCESS" => r.data = data
      BY <2>3, <2>4, <2>5 DEF Corrected
    <2> QED
      BY <2>7, <2>8
  <1>5. ASSUME NEW x \in Bits, NEW y \in Bits, x # y, dataFlips = {x, y}, codeFlips = {}
        PROVE  r.status = "ECC_FAIL"
    <2>1. flipped = Flip(Flip(data, {x}), {y}) /\ Flip(data, {x}) \in SUBSET Bits
      BY <1>5 DEF Flip
    <2>2. eccComputeECC(flipped) = Flip(Flip(code, Turned(x)), Turned(y))
      BY <2>1, CodeOfFlip
    <2>3. d = Flip(Turned(x), Turned(y))
      <3>1. d = Flip(Flip(code, {}), Flip(Flip(code, Turned(x)), Turned(y)))
        BY <1>1, <1>5, <2>2
      <3> QED
        BY <3>1 DEF Flip
    <2>4. ~LooksLikeOneBit(d) /\ \E u, v \in d : u # v
      BY <1>5, <2>3, TwoBits
    <2>5. d \subseteq Parities
      BY <2>3 DEF Flip, Turned
    <2>6. d # {} /\ Cardinality(d) # 1
      BY <2>4, <2>5, CountsMoreThanOne
    <2> QED
      BY <1>2, <2>4, <2>6 DEF Corrected
  <1>6. Cardinality(codeFlips) \in Nat /\ (Cardinality(codeFlips) = 0 => codeFlips = {})
    BY AtMostTwo
  <1>7. CASE \E x \in Bits : dataFlips = {x} /\ Cardinality(dataFlips) = 1
    <2>1. Cardinality(dataFlips) + Cardinality(codeFlips) <= 1 => codeFlips = {}
      BY <1>6, <1>7
    <2> QED
      BY <1>4, <1>7, <2>1
  <1>8. CASE \E x, y \in Bits : x # y /\ dataFlips = {x, y} /\ Cardinality(dataFlips) = 2
    <2>1. codeFlips = {} /\ ~(Cardinality(dataFlips) + Cardinality(codeFlips) <= 1)
      BY <1>6, <1>8
    <2>2. r.status = "ECC_FAIL"
      BY <1>5, <1>8, <2>1
    <2> QED
      BY <2>1, <2>2
  <1> QED
    BY <1>3, <1>7, <1>8, AtMostTwo

\* For every width of the address, every block and every place: one flipped
\* bit, of the block or of its code, is corrected, and two flipped bits are
\* never taken for the data.
THEOREM EccSound == CorrectsOneNoticesTwo
  <1> SUFFICES ASSUME NEW data \in SUBSET Bits,
                      NEW dataFlips \in SetsOfAtMostTwo(Bits),
                      NEW codeFlips \in SetsOfAtMostTwo(CodeBits)
               PROVE  LET flips == Cardinality(dataFlips) + Cardinality(codeFlips)
                          r == ReadBack(data, dataFlips, codeFlips)
                      IN  /\ flips <= 2 /\ r.status = "ECC_SUCCESS" => r.data = data
                          /\ flips <= 1 => r.status = "ECC_SUCCESS"
    BY DEF CorrectsOneNoticesTwo
  <1>1. Cardinality(dataFlips) \in Nat /\ Cardinality(codeFlips) \in Nat
    BY AtMostTwo
  <1>2. CASE Cardinality(dataFlips) + Cardinality(codeFlips) <= 2
    BY <1>2, ReadBackSound
  <1>3. CASE ~(Cardinality(dataFlips) + Cardinality(codeFlips) <= 2)
    BY <1>1, <1>3
  <1> QED
    BY <1>2, <1>3

-----------------------------------------------------------------------------
(* Positions and pages.                                                    *)

LEMMA Division ==
    ASSUME NEW p \in Nat \ {0}, NEW x \in Int
    PROVE  /\ x \div p \in Int /\ x % p \in 0 .. p - 1
           /\ x = p * (x \div p) + (x % p)
  OBVIOUS

LEMMA Multiples ==
    ASSUME NEW p \in Nat \ {0}, NEW q \in Int, NEW r \in Int, q >= r + 1
    PROVE  p * q >= p * r + p
  OBVIOUS

LEMMA DivisionUnique ==
    ASSUME NEW p \in Nat \ {0}, NEW q \in Int, NEW r \in 0 .. p - 1
    PROVE  (p * q + r) \div p = q /\ (p * q + r) % p = r
  <1> DEFINE x == p * q + r
             d == x \div p
             m == x % p
  <1>1. x \in Int
    OBVIOUS
  <1>2. d \in Int /\ m \in 0 .. p - 1 /\ x = p * d + m
    BY <1>1, Division
  <1>3. x = p * q + r
    OBVIOUS
  <1> HIDE DEF x, d, m
  <1>4. ~(d >= q + 1)
    BY <1>1, <1>2, <1>3, Multiples
  <1>5. ~(q >= d + 1)
    BY <1>1, <1>2, <1>3, Multiples
  <1>6. d = q
    BY <1>2, <1>4, <1>5
  <1>7. m = r
    BY <1>2, <1>3, <1>6
  <1> QED
    BY <1>6, <1>7 DEF x, d, m

\* The page of a byte that lies i after position x.
LEMMA PageAfter ==
    ASSUME NEW p \in Nat \ {0}, NEW x \in Int, NEW i \in Int
    PROVE  (x \div p) + (((x % p) + i) \div p) = (x + i) \div p
  <1> DEFINE q == x \div p
             r == x % p
             k == (r + i) \div p
             m == (r + i) % p
  <1>1. q \in Int /\ r \in 0 .. p - 1 /\ x = p * q + r
    BY Division
  <1>2. k \in Int /\ m \in 0 .. p - 1 /\ r + i = p * k + m
    BY SMTT(60), <1>1, Division
  <1> HIDE DEF q, r, k, m
  <1>3. p * (q + k) = p * q + p * k
    BY <1>1, <1>2
  <1>4. x + i = p * (q + k) + m
    BY <1>1, <1>2, <1>3
  <1>5. (x + i) \div p = q + k
    BY <1>1, <1>2, <1>4, DivisionUnique
  <1> QED
    BY <1>5 DEF q, r, k

LEMMA QuotientInRange ==
    ASSUME NEW p \in Nat \ {0}, NEW n \in Nat, NEW x \in Int
    PROVE  x \in 0 .. n * p - 1 <=> x \div p \in 0 .. n - 1
  <1> DEFINE d == x \div p
             m == x % p
  <1>1. d \in Int /\ m \in 0 .. p - 1 /\ x = p * d + m
    BY Division
  <1> HIDE DEF d, m
  <1>2. n * p = p * n /\ p * 0 = 0 /\ p * n \in Int /\ p * d \in Int
    BY <1>1
  <1>3. CASE d >= n
    <2>1. p * d >= p * n
      BY <1>1, <1>3, Multiples
    <2> QED
      BY <1>1, <1>2, <1>3, <2>1 DEF d
  <1>4. CASE d <= -1
    <2>1. 0 >= d + 1
      BY <1>1, <1>4
    <2>2. p * 0 >= p * d + p
      BY <1>1, <2>1, Multiples
    <2> QED
      BY <1>1, <1>2, <1>4, <2>2 DEF d
  <1>5. CASE d \in 0 .. n - 1
    <2>1. n >= d + 1
      BY <1>1, <1>5
    <2>2. p * n >= p * d + p
      BY <1>1, <2>1, Multiples
    <2>3. p * d >= 0
      BY <1>1, <1>5
    <2> QED
      BY <1>1, <1>2, <1>5, <2>2, <2>3 DEF d
  <1> QED
    BY <1>1, <1>3, <1>4, <1>5

LEMMA NextPage ==
    ASSUME NEW p \in Nat \ {0}, NEW x \in Int
    PROVE  (x + p) \div p = (x \div p) + 1
  <1>1. x \div p \in Int /\ x % p \in 0 .. p - 1 /\ x = p * (x \div p) + (x % p)
    BY Division
  <1> DEFINE q == x \div p
             r == x % p
  <1> HIDE DEF q, r
  <1>2. q \in Int /\ r \in 0 .. p - 1 /\ x = p * q + r
    BY <1>1 DEF q, r
  <1>3. x + p = p * (q + 1) + r
    BY <1>2
  <1>4. (x + p) \div p = q + 1
    BY <1>2, <1>3, DivisionUnique
  <1> QED
    BY <1>4 DEF q

-----------------------------------------------------------------------------
(* The block map.                                                          *)

\* In a finite set of integers there is one with any number of others below
\* it, up to the size of the set.
LEMMA RankIsOnto ==
    ASSUME NEW S \in SUBSET Int, IsFiniteSet(S), NEW j \in 0 .. Cardinality(S) - 1
    PROVE  \E i \in S : Cardinality({g \in S : g < i}) = j
  <1> DEFINE below(i) == {g \in S : g < i}
             T == 0 .. Cardinality(S) - 1
             rank == [i \in S |-> Cardinality(below(i))]
  <1>1. Cardinality(S) \in Nat
    BY FS_CardinalityType
  <1>2. ASSUME NEW i \in S
        PROVE  IsFiniteSet(below(i)) /\ Cardinality(below(i)) \in T
    <2>1. below(i) \in SUBSET (S \ {i})
      OBVIOUS
    <2>2. IsFiniteSet(S \ {i}) /\ Cardinality(S \ {i}) = Cardinality(S) - 1
      BY FS_RemoveElement
    <2>3. IsFiniteSet(below(i)) /\ Cardinality(below(i)) <= Cardinality(S) - 1
      BY <2>1, <2>2, FS_Subset
    <2>4. Cardinality(below(i)) \in Nat
      BY <2>3, FS_CardinalityType
    <2> HIDE DEF below
    <2> QED
      BY <1>1, <2>3, <2>4
  <1>3. ASSUME NEW i \in S, NEW k \in S, i < k
        PROVE  Cardinality(below(i)) # Cardinality(below(k))
    <2>1. \A g \in S : g \in Int
      OBVIOUS
    <2>2. i < k /\ ~(i < i) /\ \A g \in S : g < i => g < k
      BY <1>3, <2>1
    <2>3. below(i) \in SUBSET below(k) /\ i \in below(k) /\ i \notin below(i)
      BY <2>2
    <2>4. IsFiniteSet(below(k))
      BY <1>2
    <2> HIDE DEF below
    <2> QED
      BY <2>3, <2>4, FS_Subset
  <1>4. rank \in [S -> T]
    <2> HIDE DEF below, T
    <2> QED
      BY <1>2
  <1>5. ASSUME NEW i \in S, NEW k \in S, rank[i] = rank[k]
        PROVE  i = k
    <2>1. rank[i] = Cardinality(below(i)) /\ rank[k] = Cardinality(below(k))
      OBVIOUS
    <2>2. ~(i < k) /\ ~(k < i)
      BY <1>3, <1>5, <2>1
    <2> QED
      BY <2>2
  <1>6. rank \in Injection(S, T)
    <2> HIDE DEF rank, T
    <2>1. IsInjective(rank)
      BY <1>4, <1>5 DEF IsInjective
    <2> QED
      BY <1>4, <2>1 DEF Injection
  <1>7. IsFiniteSet(T) /\ Cardinality(T) = Cardinality(S)
    BY <1>1, FS_Interval
  <1>8. rank \in Surjection(S, T)
    <2> HIDE DEF rank, T
    <2> QED
      BY <1>6, <1>7, FS_Injection
  <1>9. PICK i \in S : rank[i] = j
    <2>1. j \in T
      OBVIOUS
    <2> HIDE DEF rank, T
    <2> QED
      BY <1>8, <2>1 DEF Surjection
  <1> QED
    BY <1>9

LEMMA GoodBlocksFinite ==
    GoodBlocks \in SUBSET Int /\ IsFiniteSet(GoodBlocks) /\ Cardinality(GoodBlocks) \in Nat
  <1>1. IsFiniteSet(startBlock .. totalBlocks - 1)
    BY NandAssumption, FS_Interval
  <1>2. GoodBlocks \in SUBSET (startBlock .. totalBlocks - 1)
    BY DEF GoodBlocks
  <1>3. startBlock .. totalBlocks - 1 \subseteq Int
    BY NandAssumption
  <1> QED
    BY <1>1, <1>2, <1>3, FS_Subset, FS_CardinalityType

-----------------------------------------------------------------------------
(* The error correction.                                                   *)

LEMMA SpiPagesAreHonest == "unnoticed" \notin SpiResults
  <1> SUFFICES ASSUME NEW r \in BlockReads
               PROVE  SpiPage(r) # "unnoticed"
    BY DEF SpiResults
  <1>1. PICK dataFlips \in SetsOfAtMostTwo(Bits), codeFlips \in SetsOfAtMostTwo(CodeBits) :
           /\ Cardinality(dataFlips) + Cardinality(codeFlips) <= 2
           /\ LET b == ReadBack(BlockData, dataFlips, codeFlips)
              IN  r = [status |-> b.status, good |-> b.data = BlockData]
    BY DEF BlockReads
  <1> DEFINE b == ReadBack(BlockData, dataFlips, codeFlips)
  <1>2. b.status = "ECC_SUCCESS" => b.data = BlockData
    BY <1>1, EccSound, NandAssumption DEF CorrectsOneNoticesTwo
  <1>3. r.status = b.status /\ r.good = (b.data = BlockData)
    BY <1>1
  <1> QED
    BY <1>2, <1>3 DEF SpiPage

\* Whatever the blocks of the flash hold, the SPI driver never serves a block
\* with one or two wrong bits as if it were what was written.
THEOREM SpiDriverNotices == Spec => []SpiNoticesDamage
  <1>1. SpiNoticesDamage
    BY SpiPagesAreHonest DEF SpiNoticesDamage, PageResults
  <1> QED
    BY <1>1, PTL
-----------------------------------------------------------------------------
(* The pages of the file.                                                  *)

\* The logical pages of the file, and what a cache in order looks like: its tag is
\* the page of the position, and its buffer holds that page if the file has it.
FilePages == 0 .. Cardinality(GoodBlocks) * pagesPerBlock - 1

Serves(nd) ==
    /\ nd.logicalToPhysMap = MappedBlocks
    /\ nd.cur = nd.fpos \div pageSizeBytes
    /\ nd.cur \in FilePages => nd.buf = nd.cur

\* The map leads from every block of the file to the block it was written to.
LEMMA MapLeadsBack ==
    ASSUME NEW j \in 0 .. Cardinality(GoodBlocks) - 1
    PROVE  /\ j \in DOMAIN MappedBlocks
           /\ MappedBlocks[j] \in GoodBlocks
           /\ BlockRank(MappedBlocks[j]) = j
  <1>1. PICK i \in GoodBlocks : BlockRank(i) = j
    BY GoodBlocksFinite, RankIsOnto DEF BlockRank
  <1>2. j \in {BlockRank(g) : g \in GoodBlocks}
    BY <1>1
  <1>3. MappedBlocks[j] = CHOOSE g \in GoodBlocks : BlockRank(g) = j
    BY <1>2 DEF MappedBlocks
  <1>4. j \in DOMAIN MappedBlocks
    BY <1>2 DEF MappedBlocks
  <1> QED
    BY <1>1, <1>3, <1>4

LEMMA MapRange ==
    ASSUME NEW j \in DOMAIN MappedBlocks
    PROVE  MappedBlocks[j] \in GoodBlocks
  <1>1. PICK i \in GoodBlocks : BlockRank(i) = j
    BY DEF MappedBlocks
  <1>2. MappedBlocks[j] = CHOOSE g \in GoodBlocks : BlockRank(g) = j
    BY DEF MappedBlocks
  <1> QED
    BY <1>1, <1>2

LEMMA RankType ==
    ASSUME NEW i \in GoodBlocks
    PROVE  BlockRank(i) \in Nat
  <1>1. {g \in GoodBlocks : g < i} \in SUBSET GoodBlocks
    OBVIOUS
  <1>2. IsFiniteSet({g \in GoodBlocks : g < i})
    BY <1>1, GoodBlocksFinite, FS_Subset
  <1> QED
    BY <1>2, FS_CardinalityType DEF BlockRank

\* Whatever page is read, the buffer then holds some page of the flash, or junk.
LEMMA LoadedType ==
    ASSUME NEW nd \in NandType, NEW l \in Int, NEW res
    PROVE  Loaded(nd, l, res) \in Contents /\ (Loaded(nd, l, res) # Junk => nd.logicalToPhysMap = MappedBlocks)
  <1>1. CASE Mapped(nd.logicalToPhysMap, l) /\ res[l] = "ok"
    <2>1. nd.logicalToPhysMap = MappedBlocks
      <3>1. nd.logicalToPhysMap \in {<< >>, MappedBlocks} /\ DOMAIN << >> = {}
        BY DEF NandType, NandClosed
      <3> QED
        BY <1>1, <3>1 DEF Mapped
    <2>2. MappedBlocks[l \div pagesPerBlock] \in GoodBlocks
      BY <1>1, <2>1, MapRange DEF Mapped
    <2> DEFINE b == MappedBlocks[l \div pagesPerBlock]
    <2>3. BlockRank(b) \in Nat
      BY <2>2, RankType
    <2>4. l % pagesPerBlock \in Nat
      BY NandAssumption, Division
    <2>5. BlockRank(b) * pagesPerBlock + (l % pagesPerBlock) \in Nat
      <3> DEFINE k == BlockRank(b)
                 r == l % pagesPerBlock
      <3>1. k \in Nat /\ r \in Nat /\ pagesPerBlock \in Nat
        BY <2>3, <2>4, NandAssumption
      <3> HIDE DEF k, r
      <3>2. k * pagesPerBlock + r \in Nat
        BY <3>1
      <3> QED
        BY <3>2 DEF k, r
    <2>6. Loaded(nd, l, res) = BlockRank(b) * pagesPerBlock + (l % pagesPerBlock)
      BY <1>1, <2>1, <2>2 DEF Loaded, PageContent
    <2> QED
      BY <2>1, <2>5, <2>6 DEF Contents
  <1>2. CASE ~(Mapped(nd.logicalToPhysMap, l) /\ res[l] = "ok")
    BY <1>2 DEF Loaded, Contents
  <1> QED
    BY <1>1, <1>2

\* A page of the file that is read without an error is in the buffer.
LEMMA LoadedPage ==
    ASSUME NEW nd, nd.logicalToPhysMap = MappedBlocks, NEW l \in FilePages, NEW res, res[l] = "ok"
    PROVE  Loaded(nd, l, res) = l
  <1> DEFINE j == l \div pagesPerBlock
             r == l % pagesPerBlock
  <1>1. l \in Int /\ l >= 0
    BY DEF FilePages
  <1>2. j \in Int /\ r \in 0 .. pagesPerBlock - 1 /\ l = pagesPerBlock * j + r
    BY <1>1, NandAssumption, Division
  <1>3. j \in 0 .. Cardinality(GoodBlocks) - 1
    BY <1>1, NandAssumption, GoodBlocksFinite, QuotientInRange DEF FilePages
  <1>4. j \in DOMAIN MappedBlocks /\ MappedBlocks[j] \in GoodBlocks /\ BlockRank(MappedBlocks[j]) = j
    BY <1>3, MapLeadsBack
  <1>5. Mapped(nd.logicalToPhysMap, l)
    BY <1>1, <1>4 DEF Mapped
  <1>6. Loaded(nd, l, res) = PageContent(MappedBlocks[j], r)
    BY <1>5 DEF Loaded
  <1>7. PageContent(MappedBlocks[j], r) = j * pagesPerBlock + r
    BY <1>4 DEF PageContent
  <1> HIDE DEF j, r
  <1>8. j * pagesPerBlock + r = l
    BY <1>2, NandAssumption
  <1> QED
    BY <1>6, <1>7, <1>8

\* A position in the file is on a page of the file.
LEMMA PageOfPosition ==
    ASSUME NEW pos \in Nat
    PROVE  /\ pos \div pageSizeBytes \in Int
           /\ pos \in Extent <=> pos \div pageSizeBytes \in FilePages
  <1> DEFINE n == Cardinality(GoodBlocks) * pagesPerBlock
  <1>1. n \in Nat
    BY GoodBlocksFinite, NandAssumption
  <1>2. Extent = 0 .. n * pageSizeBytes - 1 /\ FilePages = 0 .. n - 1
    BY DEF Extent, FilePages, FlashSize
  <1> HIDE DEF n
  <1>3. pageSizeBytes \in Nat \ {0} /\ pos \in Int
    BY NandAssumption
  <1>4. pos \in 0 .. n * pageSizeBytes - 1 <=> pos \div pageSizeBytes \in 0 .. n - 1
    BY <1>1, <1>3, QuotientInRange
  <1> QED
    BY <1>2, <1>3, <1>4, Division

\* The page reads of a driver that reports what it cannot correct.
LEMMA ReportedPages ==
    ASSUME NEW driver \in {"emif", "spi"}, NEW mapped
    PROVE  PageResults(driver, mapped) \subseteq {"ok", "failed"}
  <1>1. EmifResults \subseteq {"ok", "failed"}
    BY DEF EmifResults, EmifPage
  <1>2. SpiResults \subseteq {"ok", "failed", "unnoticed"}
    BY DEF SpiResults, SpiPage
  <1>3. SpiResults \subseteq {"ok", "failed"}
    BY <1>2, SpiPagesAreHonest
  <1> QED
    BY <1>1, <1>3 DEF PageResults

LEMMA HonestAnswers ==
    ASSUME config \in Configs, Reporting, NEW map, NEW pages, NEW res \in Answers(map, pages),
           NEW l \in pages
    PROVE  res[l] \in {"ok", "failed"}
  <1>1. config.driver \in {"emif", "spi"}
    BY FlashBootAssumption DEF Reporting
  <1>2. res[l] \in PageResults(config.driver, Mapped(map, l))
    BY DEF Answers
  <1> QED
    BY <1>1, <1>2, ReportedPages
-----------------------------------------------------------------------------
(* The calls of the NAND module.                                           *)

LEMMA QuotientType ==
    ASSUME NEW p \in Nat \ {0}, NEW x \in Nat
    PROVE  x \div p \in Nat
  <1>1. x \div p \in Int
    BY Division
  <1>2. CASE x \div p <= -1
    <2> DEFINE d == x \div p
               m == x % p
    <2>1. d \in Int /\ m \in 0 .. p - 1 /\ x = p * d + m /\ 0 >= d + 1
      BY <1>2, Division
    <2> HIDE DEF d, m
    <2>2. p * 0 >= p * d + p /\ p * 0 = 0
      BY <2>1, Multiples
    <2> QED
      BY <2>1, <2>2
  <1> QED
    BY <1>1, <1>2

LEMMA LeastOf ==
    ASSUME NEW n \in Nat, NEW S \in SUBSET (1 .. n), S # {}
    PROVE  Min(S) \in S
  <1>1. IsFiniteSet(S) /\ Cardinality(S) \in Nat /\ Cardinality(S) # 0 /\ S \in SUBSET Int
    <2>1. IsFiniteSet(1 .. n)
      BY FS_Interval
    <2>2. IsFiniteSet(S)
      BY <2>1, FS_Subset
    <2> QED
      BY <2>2, FS_CardinalityType, FS_EmptySet
  <1>2. 0 \in 0 .. Cardinality(S) - 1
    BY <1>1
  <1>3. PICK i \in S : Cardinality({g \in S : g < i}) = 0
    BY <1>1, <1>2, RankIsOnto
  <1>4. {g \in S : g < i} = {}
    <2>1. {g \in S : g < i} \in SUBSET S
      OBVIOUS
    <2>2. IsFiniteSet({g \in S : g < i})
      BY <1>1, <2>1, FS_Subset
    <2> HIDE DEF Min
    <2> QED
      BY <1>3, <2>2, FS_EmptySet
  <1>5. \A g \in S : i <= g
    BY <1>1, <1>4
  <1> QED
    BY <1>5 DEF Min

LEMMA PageEndsType ==
    ASSUME NEW nd \in NandType, NEW i \in Nat
    PROVE  /\ PageEnds(nd, i) \in Nat
           /\ (nd.fpos \div pageSizeBytes) + PageEnds(nd, i)
                 = (nd.fpos + i) \div pageSizeBytes
  <1>1. nd.fpos \in Nat /\ pageSizeBytes \in Nat \ {0}
    BY NandAssumption DEF NandType
  <1>2. nd.fpos % pageSizeBytes \in Nat
    BY <1>1, Division
  <1>3. (nd.fpos % pageSizeBytes) + i \in Nat
    BY <1>2
  <1>4. ((nd.fpos % pageSizeBytes) + i) \div pageSizeBytes \in Nat
    BY <1>1, <1>3, QuotientType
  <1>5. nd.fpos \in Int /\ i \in Int
    BY <1>1
  <1> QED
    BY <1>1, <1>4, <1>5, PageAfter DEF PageEnds

LEMMA BufferType ==
    ASSUME NEW nd \in NandType, nd.buf # Junk => nd.logicalToPhysMap = MappedBlocks,
           NEW k \in Int, NEW res
    PROVE  /\ BufferDuring(nd, k, res) \in Contents
           /\ BufferDuring(nd, k, res) # Junk => nd.logicalToPhysMap = MappedBlocks
  <1>1. nd.buf \in Contents /\ nd.cur + k \in Int
    BY DEF NandType
  <1>2. CASE k = 0
    BY <1>1, <1>2 DEF BufferDuring
  <1>3. CASE k # 0
    BY <1>1, <1>3, LoadedType DEF BufferDuring
  <1> QED
    BY <1>2, <1>3

\* A control block before its page is loaded.
NandMemory == [fpos : Int, cur : Int, buf : Contents,
               logicalToPhysMap : {NandClosed.logicalToPhysMap, MappedBlocks}]

NandIs(u, nd, pos, page, content) ==
    /\ u.fpos = pos /\ u.cur = page /\ u.buf = content
    /\ u.logicalToPhysMap = nd.logicalToPhysMap
    /\ u \in NandMemory

LEMMA Positioned ==
    ASSUME NEW nd \in NandMemory, NEW pos \in Int
    PROVE  NandIs([nd EXCEPT !.fpos = pos], nd, pos, nd.cur, nd.buf)
  BY DEF NandMemory, NandIs

LEMMA Refilled ==
    ASSUME NEW nd \in NandMemory, NEW content \in Contents
    PROVE  NandIs([nd EXCEPT !.buf = content], nd, nd.fpos, nd.cur, content)
  BY DEF NandMemory, NandIs

LEMMA Retagged ==
    ASSUME NEW nd \in NandMemory, NEW page \in Int
    PROVE  NandIs([nd EXCEPT !.cur = page], nd, nd.fpos, page, nd.buf)
  BY DEF NandMemory, NandIs

LEMMA PositionedAndRefilled ==
    ASSUME NEW nd \in NandMemory, NEW pos \in Int, NEW content \in Contents
    PROVE  NandIs([nd EXCEPT !.fpos = pos, !.buf = content], nd, pos, nd.cur, content)
  <1> DEFINE at == [nd EXCEPT !.fpos = pos]
  <1>1. NandIs(at, nd, pos, nd.cur, nd.buf)
    BY Positioned
  <1> HIDE DEF at
  <1>2. NandIs([at EXCEPT !.buf = content], at, at.fpos, at.cur, content)
    BY <1>1, Refilled DEF NandIs
  <1>3. NandIs([at EXCEPT !.buf = content], nd, pos, nd.cur, content)
    BY <1>1, <1>2 DEF NandIs
  <1> QED
    BY <1>3 DEF at

LEMMA AllMoved ==
    ASSUME NEW nd \in NandMemory, NEW pos \in Int, NEW page \in Int, NEW content \in Contents
    PROVE  NandIs([nd EXCEPT !.fpos = pos, !.cur = page, !.buf = content],
                  nd, pos, page, content)
  <1> DEFINE at == [nd EXCEPT !.fpos = pos]
             turned == [at EXCEPT !.cur = page]
  <1>1. NandIs(at, nd, pos, nd.cur, nd.buf)
    BY Positioned
  <1>2. NandIs(turned, at, at.fpos, page, at.buf)
    <2> HIDE DEF at
    <2> QED
      BY <1>1, Retagged DEF NandIs
  <1>3. NandIs([turned EXCEPT !.buf = content], turned, turned.fpos, turned.cur, content)
    <2> HIDE DEF turned
    <2> QED
      BY <1>2, Refilled DEF NandIs
  <1>4. NandIs([turned EXCEPT !.buf = content], nd, pos, page, content)
    <2> HIDE DEF turned, at
    <2> QED
      BY <1>1, <1>2, <1>3 DEF NandIs
  <1> QED
    BY <1>4 DEF turned, at

\* What a call may make of the control block.
KeepsBlock(nd, o) ==
    /\ o.nd \in NandType
    /\ o.nd.logicalToPhysMap = nd.logicalToPhysMap
    /\ o.nd.buf # Junk => nd.logicalToPhysMap = MappedBlocks
    /\ o.val \in {0, -2}

LEMMA BlockKept ==
    ASSUME NEW nd \in NandMemory, NEW o, NEW pos \in Nat, NEW page, NEW content,
           content # Junk => nd.logicalToPhysMap = MappedBlocks,
           NandIs(o.nd, nd, pos, page, content),
           o.val \in {0, -2}
    PROVE  KeepsBlock(nd, o)
  <1>1. o.nd \in NandMemory /\ o.nd.fpos \in Nat
    BY DEF NandIs
  <1>2. o.nd \in NandType
    BY <1>1 DEF NandMemory, NandType
  <1> QED
    BY <1>2 DEF KeepsBlock, NandIs

LEMMA SeekCases ==
    ASSUME NEW nd \in NandMemory, nd.buf # Junk => nd.logicalToPhysMap = MappedBlocks,
           NEW pos \in Nat, NEW res
    PROVE  LET o == NandSeek(nd, pos, res)
               l == pos \div pageSizeBytes
           IN  /\ KeepsBlock(nd, o)
               /\ o.nd.fpos = pos /\ o.bytes = << >>
               /\ o.val = 0 =>
                     /\ o.nd.cur = l
                     /\ \/ l = nd.cur /\ o.nd.buf = nd.buf
                        \/ res[l] # "failed" /\ o.nd.buf = Loaded(nd, l, res)
               /\ o.val # 0 => o.nd.buf = Junk
  <1> DEFINE o == NandSeek(nd, pos, res)
             l == pos \div pageSizeBytes
             at == [nd EXCEPT !.fpos = pos]
             content == Loaded(nd, l, res)
             Goal == /\ KeepsBlock(nd, o)
                     /\ o.nd.fpos = pos /\ o.bytes = << >>
                     /\ o.val = 0 =>
                           /\ o.nd.cur = l
                           /\ \/ l = nd.cur /\ o.nd.buf = nd.buf
                              \/ res[l] # "failed" /\ o.nd.buf = content
                     /\ o.val # 0 => o.nd.buf = Junk
  <1>1. l \in Int /\ ~(pos < 0) /\ pos \in Int /\ nd.cur \in Int /\ nd.buf \in Contents
    BY PageOfPosition DEF NandMemory
  <1>2. content = Loaded(at, l, res) /\ at \in NandType
        /\ at.logicalToPhysMap = nd.logicalToPhysMap
    BY DEF Loaded, NandType, NandMemory
  <1>3. content \in Contents /\ (content # Junk => nd.logicalToPhysMap = MappedBlocks)
    <2>1. /\ Loaded(at, l, res) \in Contents
          /\ Loaded(at, l, res) # Junk => at.logicalToPhysMap = MappedBlocks
      BY <1>1, <1>2, LoadedType
    <2> QED
      BY <1>2, <2>1
  <1>4. Junk \in Contents
    BY DEF Contents
  <1>5. ASSUME l = nd.cur PROVE Goal
    <2>1. o.nd = at /\ o.val = 0 /\ o.bytes = << >>
      BY <1>1, <1>5 DEF NandSeek, Outcome
    <2>2. NandIs(o.nd, nd, pos, nd.cur, nd.buf)
      BY <1>1, <2>1, Positioned
    <2> HIDE DEF o, l, at
    <2>3. KeepsBlock(nd, o)
      BY <1>1, <2>1, <2>2, BlockKept
    <2>4. o.nd.fpos = pos /\ o.nd.cur = nd.cur /\ o.nd.buf = nd.buf
      BY <2>2 DEF NandIs
    <2> QED
      BY <1>5, <2>1, <2>3, <2>4
  <1>6. ASSUME l # nd.cur, res[l] = "failed" PROVE Goal
    <2>1. o.nd = [nd EXCEPT !.fpos = pos, !.buf = Junk] /\ o.val = -2 /\ o.bytes = << >>
      BY <1>1, <1>6 DEF NandSeek, Outcome
    <2>2. NandIs(o.nd, nd, pos, nd.cur, Junk)
      BY ZenonT(60), <1>1, <1>4, <2>1, PositionedAndRefilled
    <2> HIDE DEF o, l, at
    <2>3. KeepsBlock(nd, o)
      BY <1>1, <1>4, <2>1, <2>2, BlockKept
    <2>4. o.nd.fpos = pos /\ o.nd.buf = Junk
      BY <2>2 DEF NandIs
    <2> QED
      BY <2>1, <2>3, <2>4
  <1>7. ASSUME l # nd.cur, res[l] # "failed" PROVE Goal
    <2>1. /\ o.nd = [nd EXCEPT !.fpos = pos, !.cur = l, !.buf = content]
          /\ o.val = 0 /\ o.bytes = << >>
      BY <1>1, <1>7 DEF NandSeek, Outcome
    <2> HIDE DEF o, l, at, content
    <2>2. NandIs(o.nd, nd, pos, l, content)
      <3>1. content \in Contents
        BY <1>3
      <3>2. NandIs([nd EXCEPT !.fpos = pos, !.cur = l, !.buf = content], nd, pos, l, content)
        BY <1>1, <3>1, AllMoved
      <3> QED
        BY <2>1, <3>2, Zenon
    <2>3. KeepsBlock(nd, o)
      BY <1>1, <1>3, <2>1, <2>2, BlockKept
    <2>4. o.nd.fpos = pos /\ o.nd.cur = l /\ o.nd.buf = content
      BY <2>2 DEF NandIs
    <2> QED
      BY <1>7, <2>1, <2>3, <2>4
  <1>8. Goal
    <2> HIDE DEF Goal
    <2> QED
      BY <1>5, <1>6, <1>7
  <1> QED
    BY <1>8

\* A seek that succeeds leaves the cache in order.
LEMMA SeekServes ==
    ASSUME NEW nd \in NandMemory, nd.buf # Junk => nd.logicalToPhysMap = MappedBlocks,
           nd.logicalToPhysMap = MappedBlocks, nd.cur \in FilePages => nd.buf = nd.cur,
           NEW pos \in Nat, NEW res, res[pos \div pageSizeBytes] \in {"ok", "failed"},
           NandSeek(nd, pos, res).val = 0
    PROVE  Serves(NandSeek(nd, pos, res).nd)
  <1> DEFINE u == NandSeek(nd, pos, res).nd
             l == pos \div pageSizeBytes
  <1>1. /\ u.fpos = pos /\ u.cur = l /\ u.logicalToPhysMap = MappedBlocks
        /\ \/ l = nd.cur /\ u.buf = nd.buf
           \/ res[l] # "failed" /\ u.buf = Loaded(nd, l, res)
    BY SeekCases DEF KeepsBlock
  <1>2. l \in FilePages /\ res[l] # "failed" => Loaded(nd, l, res) = l
    BY LoadedPage
  <1> HIDE DEF u
  <1> QED
    BY <1>1, <1>2 DEF Serves, u
LEMMA NandTypeIsMemory == NandType \subseteq NandMemory
  BY DEF NandType, NandMemory

LEMMA ReadCases ==
    ASSUME NEW nd \in NandType, nd.buf # Junk => nd.logicalToPhysMap = MappedBlocks,
           NEW n \in Nat, NEW res
    PROVE  LET o == NandRead(nd, n, res)
               pages == PageEnds(nd, n)
           IN  /\ KeepsBlock(nd, o)
               /\ o.val = 0 =>
                     /\ o.nd.fpos = nd.fpos + n
                     /\ o.nd.cur = nd.cur + pages
                     /\ o.nd.buf = BufferDuring(nd, pages, res)
                     /\ o.bytes = CopiedBytes(nd, n, res)
                     /\ \A k \in 1 .. pages : res[nd.cur + k] # "failed"
  <1> DEFINE o == NandRead(nd, n, res)
             pages == PageEnds(nd, n)
             failed == FailedLoads(nd, n, res)
             content == BufferDuring(nd, pages, res)
             Goal == /\ KeepsBlock(nd, o)
                     /\ o.val = 0 =>
                           /\ o.nd.fpos = nd.fpos + n
                           /\ o.nd.cur = nd.cur + pages
                           /\ o.nd.buf = BufferDuring(nd, pages, res)
                           /\ o.bytes = CopiedBytes(nd, n, res)
                           /\ \A k \in 1 .. pages : res[nd.cur + k] # "failed"
  <1>1. /\ pages \in Nat /\ nd.cur \in Int /\ nd.fpos \in Nat
        /\ nd.cur + pages \in Int /\ nd.fpos + n \in Nat
        /\ nd \in NandMemory
    BY PageEndsType, NandTypeIsMemory DEF NandType
  <1>2. content \in Contents /\ (content # Junk => nd.logicalToPhysMap = MappedBlocks)
    BY <1>1, BufferType
  <1>3. ASSUME failed = {} PROVE Goal
    <2>1. /\ o.nd = [nd EXCEPT !.fpos = nd.fpos + n, !.cur = nd.cur + pages, !.buf = content]
          /\ o.val = 0 /\ o.bytes = CopiedBytes(nd, n, res)
      BY <1>3 DEF NandRead, Outcome
    <2>2. \A k \in 1 .. pages : res[nd.cur + k] # "failed"
      BY <1>3 DEF FailedLoads
    <2> HIDE DEF o, pages, content
    <2>3. NandIs([nd EXCEPT !.fpos = nd.fpos + n, !.cur = nd.cur + pages, !.buf = content],
                 nd, nd.fpos + n, nd.cur + pages, content)
      <3>1. nd.fpos + n \in Int /\ nd.cur + pages \in Int /\ content \in Contents
        BY <1>1, <1>2
      <3> QED
        BY <1>1, <3>1, AllMoved
    <2>4. NandIs(o.nd, nd, nd.fpos + n, nd.cur + pages, content)
      BY <2>1, <2>3, Zenon
    <2>5. KeepsBlock(nd, o)
      BY <1>1, <1>2, <2>1, <2>4, BlockKept
    <2>6. o.nd.fpos = nd.fpos + n /\ o.nd.cur = nd.cur + pages /\ o.nd.buf = content
      BY <2>4 DEF NandIs
    <2> QED
      BY <2>1, <2>2, <2>5, <2>6 DEF content
  <1>4. ASSUME failed # {} PROVE Goal
    <2> DEFINE k == Min(failed)
               copied == k * pageSizeBytes - (nd.fpos % pageSizeBytes)
    <2>1. k \in 1 .. pages
      <3>1. failed \in SUBSET (1 .. pages)
        BY DEF FailedLoads
      <3> HIDE DEF pages, failed
      <3>2. k \in failed
        BY <1>1, <1>4, <3>1, LeastOf
      <3> QED
        BY <3>1, <3>2
    <2>2. copied \in Nat
      <3>0. nd.fpos \in Int /\ pageSizeBytes \in Nat \ {0}
        BY <1>1, NandAssumption
      <3>1. nd.fpos % pageSizeBytes \in 0 .. pageSizeBytes - 1
        BY <3>0, Division
      <3> DEFINE r == nd.fpos % pageSizeBytes
                 size == pageSizeBytes
      <3>2. size \in Nat \ {0} /\ r \in 0 .. size - 1 /\ k \in Nat /\ k >= 1
        BY <1>1, <2>1, <3>1, NandAssumption
      <3> HIDE DEF r, size, k
      <3>3. k * size - r \in Nat
        <4>1. size * k >= size * 0 + size /\ size * 0 = 0
          BY <3>2, Multiples
        <4>2. k * size = size * k /\ size * k \in Int
          BY <3>2
        <4> QED
          BY <3>2, <4>1, <4>2
      <3> QED
        BY <3>3 DEF r, size
    <2>3. /\ o.nd = [nd EXCEPT !.fpos = nd.fpos + copied, !.cur = nd.cur + k, !.buf = Junk]
          /\ o.val = -2
      BY <1>4 DEF NandRead, Outcome
    <2> HIDE DEF o, k, copied
    <2>4. NandIs([nd EXCEPT !.fpos = nd.fpos + copied, !.cur = nd.cur + k, !.buf = Junk],
                 nd, nd.fpos + copied, nd.cur + k, Junk)
      <3>1. nd.fpos + copied \in Int /\ nd.cur + k \in Int /\ Junk \in Contents
        BY <1>1, <2>1, <2>2 DEF Contents
      <3> QED
        BY <1>1, <3>1, AllMoved
    <2>5. NandIs(o.nd, nd, nd.fpos + copied, nd.cur + k, Junk)
      BY <2>3, <2>4, Zenon
    <2>6. nd.fpos + copied \in Nat
      BY <1>1, <2>2
    <2>7. KeepsBlock(nd, o)
      BY <1>1, <2>3, <2>5, <2>6, BlockKept
    <2> QED
      BY <2>3, <2>7
  <1>5. Goal
    <2> HIDE DEF Goal
    <2> QED
      BY <1>3, <1>4
  <1> QED
    BY <1>5

\* What a call that succeeds gives, of n bytes from the position.
FileBytes(nd, n) == [i \in 1 .. n |-> nd.fpos + i - 1]

InFile(nd, n) == nd.fpos .. nd.fpos + n - 1 \subseteq Extent

LEMMA CopiedFromFile ==
    ASSUME NEW nd \in NandType, Serves(nd), NEW n \in Nat, NEW res,
           \A l \in PagesRead(nd, n) : res[l] \in {"ok", "failed"},
           \A k \in 1 .. PageEnds(nd, n) : res[nd.cur + k] # "failed",
           InFile(nd, n)
    PROVE  CopiedBytes(nd, n, res) = FileBytes(nd, n)
  <1>1. SUFFICES ASSUME NEW i \in 1 .. n
                 PROVE  BufferByte(BufferDuring(nd, PageEnds(nd, i - 1), res),
                                   (nd.fpos + i - 1) % pageSizeBytes) = nd.fpos + i - 1
    BY DEF CopiedBytes, FileBytes
  <1> DEFINE pos == nd.fpos + i - 1
             l == pos \div pageSizeBytes
             k == PageEnds(nd, i - 1)
  <1>2. nd.fpos \in Nat /\ pos \in Nat /\ i - 1 \in Nat /\ nd.cur \in Int
    BY DEF NandType
  <1>3. k \in Nat /\ nd.cur + k = l
    <2>1. nd.fpos + (i - 1) = pos
      BY <1>2
    <2> QED
      BY <1>2, <2>1, PageEndsType DEF Serves
  <1>4. pos \in Extent
    BY <1>2 DEF InFile
  <1>5. l \in FilePages /\ l \in Int
    BY <1>2, <1>4, PageOfPosition
  <1>6. k <= PageEnds(nd, n)
    <2>1. nd.cur + PageEnds(nd, n) = (nd.fpos + n) \div pageSizeBytes /\ PageEnds(nd, n) \in Nat
      BY <1>2, PageEndsType DEF Serves
    <2>2. ASSUME NEW x \in Nat, NEW y \in Nat, x <= y
          PROVE  x \div pageSizeBytes <= y \div pageSizeBytes
      <3> DEFINE p == pageSizeBytes
                 d == x \div p
                 e == y \div p
      <3>1. /\ p \in Nat \ {0} /\ d \in Int /\ e \in Int
            /\ x % p \in 0 .. p - 1 /\ y % p \in 0 .. p - 1
            /\ x = p * d + (x % p) /\ y = p * e + (y % p)
        BY NandAssumption, Division
      <3>2. ASSUME d >= e + 1 PROVE FALSE
        <4>1. p * d >= p * e + p
          BY <3>1, <3>2, Multiples
        <4> DEFINE v == x % p
                   w == y % p
                   dp == p * d
                   ep == p * e
        <4>2. /\ p \in Nat /\ v \in 0 .. p - 1 /\ w \in 0 .. p - 1
              /\ x = dp + v /\ y = ep + w /\ dp \in Int /\ ep \in Int /\ dp >= ep + p
          BY <3>1, <4>1
        <4> HIDE DEF v, w, d, e, p, dp, ep
        <4> QED
          BY <2>2, <4>2
      <3> HIDE DEF p
      <3> QED
        BY <3>1, <3>2 DEF p
    <2>3. l <= (nd.fpos + n) \div pageSizeBytes
      BY <1>2, <2>2
    <2> HIDE DEF k, l
    <2>4. (nd.fpos + n) \div pageSizeBytes \in Int
      BY <1>2, NandAssumption, Division
    <2> QED
      BY <1>2, <1>3, <1>5, <2>1, <2>3, <2>4
  <1>7. BufferDuring(nd, k, res) = l
    <2>1. CASE k = 0
      <3>1. nd.cur = l
        BY <1>2, <1>3, <2>1
      <3> QED
        BY <1>5, <2>1, <3>1 DEF BufferDuring, Serves
    <2>2. CASE k # 0
      <3>1. l \in PagesRead(nd, n) /\ k \in 1 .. PageEnds(nd, n)
        <4>1. PageEnds(nd, n) \in Nat
          BY PageEndsType
        <4> HIDE DEF k, l
        <4> QED
          BY <1>2, <1>3, <1>5, <1>6, <2>2, <4>1 DEF PagesRead
      <3>2. res[l] # "failed"
        BY <1>3, <3>1
      <3>3. res[l] \in {"ok", "failed"}
        BY <3>1
      <3>4. res[l] = "ok"
        BY <3>2, <3>3
      <3>5. Loaded(nd, l, res) = l
        BY <1>5, <3>4, LoadedPage DEF Serves
      <3> QED
        BY <1>3, <2>2, <3>5 DEF BufferDuring
    <2> QED
      BY <2>1, <2>2
  <1>8. l * pageSizeBytes + (pos % pageSizeBytes) = pos
    <2> DEFINE r == pos % pageSizeBytes
               p == pageSizeBytes
    <2>0. pos \in Int
      BY <1>2
    <2>1. p \in Nat \ {0} /\ l \in Int /\ r \in 0 .. p - 1 /\ pos = p * l + r
      BY <2>0, NandAssumption, Division
    <2> HIDE DEF r, p, l, pos
    <2>2. l * p + r = pos
      BY <2>1
    <2> QED
      BY <2>2 DEF r, p
  <1>9. l # Junk
    BY <1>5 DEF FilePages, Junk
  <1>10. BufferByte(BufferDuring(nd, k, res), pos % pageSizeBytes) = pos
    <2> HIDE DEF k, l, pos
    <2> QED
      BY <1>7, <1>8, <1>9 DEF BufferByte
  <1> QED
    BY <1>10
LEMMA LastBuffer ==
    ASSUME NEW nd \in NandType, Serves(nd), NEW n \in Nat, NEW res,
           \A l \in PagesRead(nd, n) : res[l] \in {"ok", "failed"},
           \A k \in 1 .. PageEnds(nd, n) : res[nd.cur + k] # "failed",
           nd.cur + PageEnds(nd, n) \in FilePages
    PROVE  BufferDuring(nd, PageEnds(nd, n), res) = nd.cur + PageEnds(nd, n)
  <1> DEFINE k == PageEnds(nd, n)
             l == nd.cur + k
  <1>1. k \in Nat /\ nd.cur \in Int
    BY PageEndsType DEF NandType
  <1>2. CASE k = 0
    <2>1. l = nd.cur
      BY <1>1, <1>2
    <2> QED
      BY <1>2, <2>1 DEF BufferDuring, Serves
  <1>3. CASE k # 0
    <2>1. l \in PagesRead(nd, n) /\ k \in 1 .. k
      BY <1>1, <1>3 DEF PagesRead
    <2>2. res[l] \in {"ok", "failed"} /\ res[l] # "failed"
      BY <2>1
    <2>3. Loaded(nd, l, res) = l
      BY <2>2, LoadedPage DEF Serves
    <2> QED
      BY <1>3, <2>3 DEF BufferDuring
  <1> QED
    BY <1>2, <1>3

\* A read that succeeds gives bytes of the file, and leaves the cache in order.
LEMMA ReadServes ==
    ASSUME NEW nd \in NandType, Serves(nd), NEW n \in Nat, NEW res,
           \A l \in PagesRead(nd, n) : res[l] \in {"ok", "failed"},
           NandRead(nd, n, res).val = 0
    PROVE  /\ Serves(NandRead(nd, n, res).nd)
           /\ InFile(nd, n) => NandRead(nd, n, res).bytes = FileBytes(nd, n)
  <1> DEFINE o == NandRead(nd, n, res)
             k == PageEnds(nd, n)
  <1>1. /\ o.nd.fpos = nd.fpos + n /\ o.nd.cur = nd.cur + k
        /\ o.nd.buf = BufferDuring(nd, k, res)
        /\ o.bytes = CopiedBytes(nd, n, res)
        /\ \A j \in 1 .. k : res[nd.cur + j] # "failed"
        /\ o.nd.logicalToPhysMap = MappedBlocks
    BY ReadCases DEF KeepsBlock, Serves
  <1>2. nd.cur + k = (nd.fpos + n) \div pageSizeBytes
    BY PageEndsType DEF Serves
  <1>3. nd.cur + k \in FilePages => BufferDuring(nd, k, res) = nd.cur + k
    BY <1>1, LastBuffer
  <1>4. InFile(nd, n) => CopiedBytes(nd, n, res) = FileBytes(nd, n)
    BY <1>1, CopiedFromFile
  <1> HIDE DEF o, k
  <1>5. Serves(o.nd)
    BY <1>1, <1>2, <1>3 DEF Serves
  <1> QED
    BY <1>1, <1>4, <1>5 DEF o

LEMMA PeekCases ==
    ASSUME NEW nd \in NandType, nd.buf # Junk => nd.logicalToPhysMap = MappedBlocks,
           NEW n \in Nat, NEW res
    PROVE  LET o == NandPeek(nd, n, res)
               r == NandRead(nd, n, res)
           IN  /\ KeepsBlock(nd, o)
               /\ o.bytes = r.bytes
               /\ o.val = 0 =>
                     /\ r.val = 0
                     /\ o.nd.fpos = nd.fpos /\ o.nd.cur = nd.cur
                     /\ \/ PageEnds(nd, n) = 0 /\ o.nd.buf = nd.buf
                        \/ PageEnds(nd, n) # 0 /\ res[nd.cur] # "failed"
                              /\ o.nd.buf = Loaded(nd, nd.cur, res)
  <1> DEFINE o == NandPeek(nd, n, res)
             r == NandRead(nd, n, res)
             k == PageEnds(nd, n)
             content == Loaded(nd, nd.cur, res)
             Goal == /\ KeepsBlock(nd, o)
                     /\ o.bytes = r.bytes
                     /\ o.val = 0 =>
                           /\ r.val = 0
                           /\ o.nd.fpos = nd.fpos /\ o.nd.cur = nd.cur
                           /\ \/ k = 0 /\ o.nd.buf = nd.buf
                              \/ k # 0 /\ res[nd.cur] # "failed" /\ o.nd.buf = content
  <1>1. nd \in NandMemory /\ nd.fpos \in Nat /\ nd.cur \in Int /\ k \in Nat
    BY NandTypeIsMemory, PageEndsType DEF NandType
  <1>2. /\ r.nd \in NandMemory /\ r.val \in {0, -2}
        /\ r.nd.logicalToPhysMap = nd.logicalToPhysMap
        /\ r.nd.buf # Junk => nd.logicalToPhysMap = MappedBlocks
        /\ r.val = 0 => r.nd.cur = nd.cur + k /\ r.nd.buf = BufferDuring(nd, k, res)
    BY ReadCases, NandTypeIsMemory DEF KeepsBlock
  <1>3. content \in Contents /\ (content # Junk => nd.logicalToPhysMap = MappedBlocks)
    BY <1>1, LoadedType
  <1>4. Junk \in Contents
    BY DEF Contents
  <1>5. ASSUME r.nd.cur = nd.cur PROVE Goal
    <2>1. o.nd = [r.nd EXCEPT !.fpos = nd.fpos] /\ o.val = r.val /\ o.bytes = r.bytes
      BY <1>5 DEF NandPeek, Outcome
    <2> HIDE DEF o, r, k
    <2>2. NandIs([r.nd EXCEPT !.fpos = nd.fpos], r.nd, nd.fpos, r.nd.cur, r.nd.buf)
      BY <1>1, <1>2, Positioned
    <2>3. NandIs(o.nd, nd, nd.fpos, nd.cur, r.nd.buf)
      BY <1>2, <1>5, <2>1, <2>2 DEF NandIs
    <2>4. KeepsBlock(nd, o)
      BY <1>1, <1>2, <2>1, <2>3, BlockKept
    <2>5. r.val = 0 => k = 0 /\ r.nd.buf = nd.buf
      <3>1. r.val = 0 => k = 0
        BY <1>1, <1>2, <1>5
      <3> QED
        BY <1>2, <3>1 DEF BufferDuring
    <2>6. o.nd.fpos = nd.fpos /\ o.nd.cur = nd.cur /\ o.nd.buf = r.nd.buf
      BY <2>3 DEF NandIs
    <2> QED
      BY <2>1, <2>4, <2>5, <2>6
  <1>6. ASSUME r.nd.cur # nd.cur, res[nd.cur] = "failed" PROVE Goal
    <2>1. o.nd = [r.nd EXCEPT !.buf = Junk] /\ o.val = -2 /\ o.bytes = r.bytes
      BY <1>6 DEF NandPeek, Outcome
    <2>2. r.nd.fpos \in Nat
      BY ReadCases DEF KeepsBlock, NandType
    <2> HIDE DEF o, r, k
    <2>3. NandIs([r.nd EXCEPT !.buf = Junk], r.nd, r.nd.fpos, r.nd.cur, Junk)
      BY <1>2, <1>4, Refilled
    <2>4. NandIs(o.nd, nd, r.nd.fpos, r.nd.cur, Junk)
      BY <1>2, <2>1, <2>3 DEF NandIs
    <2>5. KeepsBlock(nd, o)
      BY <1>1, <2>1, <2>2, <2>4, BlockKept
    <2> QED
      BY <2>1, <2>5
  <1>7. ASSUME r.nd.cur # nd.cur, res[nd.cur] # "failed" PROVE Goal
    <2>1. o.nd = [nd EXCEPT !.buf = content] /\ o.val = r.val /\ o.bytes = r.bytes
      BY <1>7 DEF NandPeek, Outcome
    <2> HIDE DEF o, r, k, content
    <2>2. NandIs([nd EXCEPT !.buf = content], nd, nd.fpos, nd.cur, content)
      BY <1>1, <1>3, Refilled
    <2>3. NandIs(o.nd, nd, nd.fpos, nd.cur, content)
      BY <2>1, <2>2, Zenon
    <2>4. KeepsBlock(nd, o)
      BY <1>1, <1>2, <1>3, <2>1, <2>3, BlockKept
    <2>5. r.val = 0 => k # 0
      BY <1>1, <1>2, <1>7
    <2>6. o.nd.fpos = nd.fpos /\ o.nd.cur = nd.cur /\ o.nd.buf = content
      BY <2>3 DEF NandIs
    <2> QED
      BY <1>7, <2>1, <2>4, <2>5, <2>6
  <1>8. Goal
    <2> HIDE DEF Goal
    <2> QED
      BY <1>5, <1>6, <1>7
  <1> QED
    BY <1>8

\* So does a peek, which moves nothing.
LEMMA PeekServes ==
    ASSUME NEW nd \in NandType, Serves(nd), NEW n \in Nat, NEW res,
           \A l \in PagesRead(nd, n) : res[l] \in {"ok", "failed"},
           NandPeek(nd, n, res).val = 0
    PROVE  /\ Serves(NandPeek(nd, n, res).nd)
           /\ InFile(nd, n) => NandPeek(nd, n, res).bytes = FileBytes(nd, n)
  <1> DEFINE o == NandPeek(nd, n, res)
             r == NandRead(nd, n, res)
             k == PageEnds(nd, n)
  <1>1. /\ r.val = 0 /\ o.bytes = r.bytes
        /\ o.nd.fpos = nd.fpos /\ o.nd.cur = nd.cur
        /\ \/ k = 0 /\ o.nd.buf = nd.buf
           \/ k # 0 /\ res[nd.cur] # "failed" /\ o.nd.buf = Loaded(nd, nd.cur, res)
        /\ o.nd.logicalToPhysMap = MappedBlocks
    BY PeekCases DEF KeepsBlock, Serves
  <1>2. InFile(nd, n) => r.bytes = FileBytes(nd, n)
    BY <1>1, ReadServes
  <1>3. nd.cur \in Int /\ k \in Nat
    BY PageEndsType DEF NandType
  <1>4. res[nd.cur] \in {"ok", "failed"}
    <2>1. nd.cur \in PagesRead(nd, n)
      BY <1>3 DEF PagesRead
    <2> QED
      BY <2>1
  <1>5. nd.cur \in FilePages /\ res[nd.cur] # "failed" => Loaded(nd, nd.cur, res) = nd.cur
    BY <1>4, LoadedPage DEF Serves
  <1> HIDE DEF o, r, k
  <1>6. Serves(o.nd)
    BY <1>1, <1>5 DEF Serves
  <1> QED
    BY <1>1, <1>2, <1>6 DEF o, r

\* Opening starts before the file.  If the buffer holds anything then, the first page
\* was loaded.
LEMMA OpenCases ==
    ASSUME NEW res, res[0] \in {"ok", "failed", "unnoticed"}
    PROVE  LET o == NandOpen(res) IN
           /\ o.nd \in NandType /\ o.nd.fpos = 0 /\ o.val = 0 /\ o.bytes = << >>
           /\ o.nd.buf # Junk => o.nd.logicalToPhysMap = MappedBlocks /\ Serves(o.nd)
  <1> DEFINE fresh == [fpos |-> -1, cur |-> NoPage, buf |-> Junk,
                       logicalToPhysMap |-> MappedBlocks]
             s == NandSeek(fresh, 0, res)
  <1>1. fresh \in NandMemory /\ fresh.buf = Junk /\ fresh.logicalToPhysMap = MappedBlocks
    BY NandAssumption DEF NandMemory, NoPage, Contents
  <1>2. 0 \div pageSizeBytes = 0
    <2>1. pageSizeBytes * 0 + 0 = 0 /\ 0 \in 0 .. pageSizeBytes - 1
      BY NandAssumption
    <2>2. (pageSizeBytes * 0 + 0) \div pageSizeBytes = 0
      BY <2>1, NandAssumption, DivisionUnique
    <2> QED
      BY <2>1, <2>2
  <1>3. fresh.cur # 0
    BY NandAssumption DEF NoPage
  <1>4. NandOpen(res).nd = s.nd /\ NandOpen(res).val = 0 /\ NandOpen(res).bytes = << >>
    BY DEF NandOpen, Outcome
  <1>5. /\ KeepsBlock(fresh, s) /\ s.nd.fpos = 0
        /\ s.val = 0 => /\ s.nd.cur = 0
                        /\ \/ 0 = fresh.cur /\ s.nd.buf = fresh.buf
                           \/ res[0] # "failed" /\ s.nd.buf = Loaded(fresh, 0, res)
    <2> HIDE DEF fresh
    <2> QED
      BY <1>1, <1>2, SeekCases
  <1>6. s.val # 0 => s.nd.buf = Junk
    <2> HIDE DEF fresh
    <2> QED
      BY <1>1, SeekCases
  <1>7. Loaded(fresh, 0, res) # Junk => res[0] = "ok"
    <2> HIDE DEF fresh
    <2> QED
      BY DEF Loaded
  <1>8. s.nd.buf # Junk => Serves(s.nd)
    <2> SUFFICES ASSUME s.nd.buf # Junk
                 PROVE  Serves(s.nd)
      OBVIOUS
    <2>1. s.val = 0
      BY <1>6
    <2>2. s.nd.cur = 0 /\ s.nd.fpos = 0 /\ s.nd.buf = Loaded(fresh, 0, res)
      BY <1>3, <1>5, <2>1
    <2>3. res[0] = "ok"
      BY <1>7, <2>2
    <2>4. s.nd.logicalToPhysMap = MappedBlocks
      BY <1>1, <1>5 DEF KeepsBlock
    <2>5. 0 \in FilePages => Loaded(fresh, 0, res) = 0
      BY <1>1, <2>3, LoadedPage
    <2> HIDE DEF s, fresh
    <2> QED
      BY <1>2, <2>2, <2>4, <2>5 DEF Serves
  <1> HIDE DEF s
  <1>9. s.nd \in NandType /\ (s.nd.buf # Junk => s.nd.logicalToPhysMap = MappedBlocks)
    BY <1>1, <1>5 DEF KeepsBlock
  <1> QED
    BY <1>4, <1>5, <1>8, <1>9
-----------------------------------------------------------------------------
(* The module as the loaders see it.                                       *)

Cache ==
    /\ nand.buf # Junk => nand.logicalToPhysMap = MappedBlocks
    /\ config.medium = "nand" /\ Reporting /\ doubt = "none" => Serves(nand)

\* The boot module and what its last call said.
Media ==
    /\ config \in Configs
    /\ nand \in NandType
    /\ nor \in [fpos : Nat]
    /\ result.op \in {"none", "open", "read", "peek", "seek"}
    /\ result.val \in {0, -1, -2}
    /\ doubt \in {"none", "open", "call"}
    /\ Cache

OpensNand ==
    /\ config.medium = "nand"
    /\ \/ \E res \in Answers(MappedBlocks, {0}) : CallNand("open", NandOpen(res))
       \/ CallNand("open", Outcome(NandClosed, -1, << >>))

OpensNor ==
    config.medium = "nor" /\ CallNor("open", NorOutcome(NorOpen, 0, << >>))

\* What a step can be to the boot module.
Calls ==
    /\ config' = config
    /\ \/ UNCHANGED callVars
       \/ OpensNand \/ OpensNor
       \/ \E n \in Nat : Read(n) \/ Peek(n)
       \/ \E p \in SeekTargets : Seek(p)

FileStep == [File!FileNext]_(File!fileVars)

LEMMA CoherentServes ==
    ASSUME Media, Reporting, Coherent
    PROVE  Serves(nand)
  <1>1. nand.fpos \in Nat /\ nand.cur = nand.fpos \div pageSizeBytes /\ nand.buf = nand.cur
    BY DEF Media, NandType, Coherent
  <1>2. nand.cur \in Nat
    BY <1>1, NandAssumption, QuotientType
  <1>3. nand.buf # Junk
    BY <1>1, <1>2 DEF Junk
  <1> QED
    BY <1>1, <1>3 DEF Media, Cache, Serves

LEMMA ServesCoherent ==
    ASSUME nand \in NandType, Serves(nand), nand.fpos \in Extent
    PROVE  Coherent
  <1>1. nand.fpos \in Nat
    BY DEF NandType
  <1>2. nand.cur \in FilePages
    BY <1>1, PageOfPosition DEF Serves
  <1> QED
    BY <1>2 DEF Serves, Coherent

LEMMA NorStep ==
    ASSUME Media, config' = config, config.medium = "nor", UNCHANGED nand,
           NEW op \in {"open", "read", "peek", "seek"}, NEW o, Returned(op, o),
           o.val \in {0, -1, -2}, nor' \in [fpos : Nat]
    PROVE  Media' /\ FileStep
  <1>1. result'.op = op /\ result'.val = o.val /\ doubt' \in {"none", "open", "call"}
    BY DEF Returned, Media
  <1>2. Reporting' = Reporting /\ Coherent' = Coherent
    BY DEF Reporting, Coherent
  <1>3. Media'
    BY <1>1, <1>2 DEF Media, Cache
  <1>4. UNCHANGED File!fileVars
    BY <1>2 DEF File!fileVars
  <1> QED
    BY <1>3, <1>4 DEF FileStep

\* A call into the NAND module that keeps its block, and brings the cache in
\* order or fails.
LEMMA NandStep ==
    ASSUME Media, config' = config, UNCHANGED nor,
           NEW op \in {"read", "peek", "seek"}, NEW o, Returned(op, o), nand' = o.nd,
           KeepsBlock(nand, o),
           Reporting /\ Serves(nand) /\ o.val = 0 => Serves(o.nd)
    PROVE  Media'
  <1>1. /\ result'.op = op /\ result'.val = o.val /\ o.val \in {0, -2}
        /\ doubt' = IF doubt = "none" /\ o.val < 0 THEN "call" ELSE doubt
    BY DEF Returned, KeepsBlock
  <1>2. doubt' = "none" => doubt = "none" /\ o.val = 0
    BY <1>1
  <1>3. Reporting' = Reporting
    BY DEF Reporting
  <1>4. /\ nand' \in NandType
        /\ nand'.buf # Junk => nand'.logicalToPhysMap = MappedBlocks
    BY DEF KeepsBlock
  <1>5. config.medium = "nand" /\ Reporting /\ doubt' = "none" => Serves(nand')
    BY <1>2 DEF Media, Cache
  <1>6. Cache'
    BY <1>3, <1>4, <1>5 DEF Cache, Serves
  <1>7. doubt' \in {"none", "open", "call"}
    BY <1>1 DEF Media
  <1> QED
    BY <1>1, <1>4, <1>6, <1>7 DEF Media

LEMMA OpenStep ==
    ASSUME Media, config' = config, OpensNand
    PROVE  Media' /\ FileStep
  <1>1. CASE CallNand("open", Outcome(NandClosed, -1, << >>))
    <2>1. /\ nand' = NandClosed /\ nor' = nor
          /\ result' = [op |-> "open", val |-> -1, bytes |-> << >>]
          /\ doubt' = "open"
      BY <1>1 DEF OpensNand, CallNand, Returned, Outcome, NandClosed
    <2>2. NandClosed \in NandType /\ NandClosed.buf = Junk
      BY DEF NandClosed, NandType, Contents
    <2>3. Media'
      BY <2>1, <2>2 DEF Media, Cache
    <2>4. File!FileNext
      BY <2>1 DEF OpensNand, File!FileNext, File!FileFails
    <2> QED
      BY <2>3, <2>4 DEF FileStep
  <1>2. ASSUME NEW res \in Answers(MappedBlocks, {0}), CallNand("open", NandOpen(res))
        PROVE  Media' /\ FileStep
    <2>1. res[0] \in {"ok", "failed", "unnoticed"}
      BY DEF Answers
    <2>2. /\ nand' \in NandType /\ nand'.fpos = 0
          /\ nand'.buf # Junk => nand'.logicalToPhysMap = MappedBlocks /\ Serves(nand')
          /\ nor' = nor
          /\ result' = [op |-> "open", val |-> 0, bytes |-> << >>]
          /\ doubt' = IF nand'.buf = Junk THEN "open" ELSE "none"
      BY <1>2, <2>1, OpenCases DEF CallNand, Returned, OpensNand
    <2>3. Media'
      BY <2>2 DEF Media, Cache, Serves
    <2>4. File!FileNext
      BY <2>2 DEF OpensNand, File!FileNext, File!FileOpen
    <2> QED
      BY <2>3, <2>4 DEF FileStep
  <1> QED
    BY <1>1, <1>2 DEF OpensNand

LEMMA SeekStep ==
    ASSUME Media, config' = config, NEW p \in SeekTargets, Seek(p)
    PROVE  Media' /\ FileStep
  <1>1. p \in Nat
    BY FlashBootAssumption
  <1>2. ASSUME config.medium = "nor", CallNor("seek", NorSeek(nor, p))
        PROVE  Media' /\ FileStep
    <2>1. nor' = [fpos |-> p] /\ NorSeek(nor, p).val = 0
      BY <1>1, <1>2 DEF CallNor, NorSeek, NorOutcome
    <2> QED
      BY <1>1, <1>2, <2>1, NorStep DEF CallNor
  <1>3. ASSUME config.medium = "nand",
               NEW res \in Answers(nand.logicalToPhysMap, {p \div pageSizeBytes}),
               CallNand("seek", NandSeek(nand, p, res))
        PROVE  Media' /\ FileStep
    <2> DEFINE o == NandSeek(nand, p, res)
    <2>1. /\ nand \in NandType /\ nand \in NandMemory
          /\ nand.buf # Junk => nand.logicalToPhysMap = MappedBlocks
      BY NandTypeIsMemory DEF Media, Cache
    <2>2. KeepsBlock(nand, o) /\ o.nd.fpos = p /\ o.bytes = << >>
      BY <1>1, <2>1, SeekCases
    <2>3. Reporting => res[p \div pageSizeBytes] \in {"ok", "failed"}
      BY HonestAnswers DEF Media
    <2>4. Reporting /\ Serves(nand) /\ o.val = 0 => Serves(o.nd)
      BY <1>1, <2>1, <2>3, SeekServes DEF Serves
    <2>5. /\ Returned("seek", o) /\ nand' = o.nd /\ UNCHANGED nor
          /\ result' = [op |-> "seek", val |-> o.val, bytes |-> o.bytes]
      BY <1>3 DEF CallNand, Returned
    <2> HIDE DEF o
    <2>6. Media'
      BY <2>2, <2>4, <2>5, NandStep
    <2>7. CASE o.val # 0
      <3>1. o.val < 0
        BY <2>2, <2>7 DEF KeepsBlock
      <3>2. File!FileNext
        BY <1>3, <2>5, <3>1 DEF File!FileNext, File!FileFails
      <3> QED
        BY <2>6, <3>2 DEF FileStep
    <2>8. CASE o.val = 0
      <3>1. Reporting' = Reporting
        BY DEF Reporting
      <3>2. Reporting /\ Coherent /\ p \in Extent => Coherent'
        <4>1. SUFFICES ASSUME Reporting, Coherent, p \in Extent
                       PROVE  Coherent'
          OBVIOUS
        <4>2. Serves(nand')
          BY <2>4, <2>5, <2>8, <4>1, CoherentServes
        <4>3. nand'.cur \in FilePages
          BY <1>1, <2>2, <2>5, <4>1, <4>2, PageOfPosition DEF Serves
        <4> QED
          BY <4>2, <4>3 DEF Serves, Coherent
      <3>3. File!FileSeek(p)
        BY <1>3, <2>2, <2>5, <2>8, <3>1, <3>2 DEF File!FileSeek
      <3>4. File!FileNext
        BY <3>3 DEF File!FileNext
      <3> QED
        BY <2>6, <3>4 DEF FileStep
    <2> QED
      BY <2>2, <2>7, <2>8
  <1> QED
    BY <1>2, <1>3 DEF Seek
LEMMA NorReads ==
    ASSUME Media, NEW n \in Nat, NEW copied \in 0 .. n
    PROVE  /\ NorRead(nor, n, copied).nr \in [fpos : Nat]
           /\ NorRead(nor, n, copied).val \in {0, -1}
  <1>1. nor \in [fpos : Nat]
    BY DEF Media
  <1>2. nor.fpos + n \in Nat
    BY <1>1
  <1>3. CASE copied = n
    BY <1>2, <1>3 DEF NorRead, NorOutcome
  <1>4. CASE copied # n
    BY <1>1, <1>4 DEF NorRead, NorOutcome
  <1> QED
    BY <1>3, <1>4

\* To the file, a call that succeeds is a read or a peek of as many bytes as were asked for.
LEMMA ReadStep ==
    ASSUME Media, config' = config, NEW n \in Nat, Read(n)
    PROVE  Media' /\ FileStep
  <1>1. ASSUME config.medium = "nor", NEW copied \in 0 .. n,
               CallNor("read", NorRead(nor, n, copied))
        PROVE  Media' /\ FileStep
    BY <1>1, NorReads, NorStep DEF CallNor
  <1>2. ASSUME config.medium = "nand",
               NEW res \in Answers(nand.logicalToPhysMap, PagesRead(nand, n)),
               CallNand("read", NandRead(nand, n, res))
        PROVE  Media' /\ FileStep
    <2> DEFINE o == NandRead(nand, n, res)
    <2>1. nand \in NandType /\ (nand.buf # Junk => nand.logicalToPhysMap = MappedBlocks)
      BY DEF Media, Cache
    <2>2. /\ KeepsBlock(nand, o)
          /\ o.val = 0 => o.nd.fpos = nand.fpos + n /\ o.bytes = CopiedBytes(nand, n, res)
      BY <2>1, ReadCases
    <2>3. Reporting => \A l \in PagesRead(nand, n) : res[l] \in {"ok", "failed"}
      BY HonestAnswers DEF Media
    <2>4. Reporting /\ Serves(nand) /\ o.val = 0 =>
              Serves(o.nd) /\ (InFile(nand, n) => o.bytes = FileBytes(nand, n))
      BY <2>1, <2>3, ReadServes
    <2>5. /\ Returned("read", o) /\ nand' = o.nd /\ UNCHANGED nor
          /\ result' = [op |-> "read", val |-> o.val, bytes |-> o.bytes]
      BY <1>2 DEF CallNand, Returned
    <2>6. Len(CopiedBytes(nand, n, res)) = n
      BY DEF CopiedBytes
    <2> HIDE DEF o
    <2>7. Media'
      BY <2>2, <2>4, <2>5, NandStep
    <2>8. CASE o.val # 0
      <3>1. o.val < 0
        BY <2>2, <2>8 DEF KeepsBlock
      <3>2. File!FileNext
        BY <1>2, <2>5, <3>1 DEF File!FileNext, File!FileFails
      <3> QED
        BY <2>7, <3>2 DEF FileStep
    <2>9. CASE o.val = 0
      <3>1. Reporting' = Reporting
        BY DEF Reporting
      <3>2. ASSUME Reporting, Coherent, InFile(nand, n)
            PROVE  /\ o.bytes = FileBytes(nand, n)
                   /\ nand'.fpos \in Extent => Coherent'
        <4>1. Serves(nand') /\ o.bytes = FileBytes(nand, n)
          BY <2>4, <2>5, <2>9, <3>2, CoherentServes
        <4>2. nand' \in NandType
          BY <2>7 DEF Media
        <4>3. nand'.fpos \in Extent => nand'.cur \in FilePages
          <5>1. nand'.fpos \in Nat
            BY <4>2 DEF NandType
          <5> QED
            BY <4>1, <5>1, PageOfPosition DEF Serves
        <4> QED
          BY <4>1, <4>3 DEF Serves, Coherent
      <3>3. Len(result'.bytes) = n /\ result'.op = "read" /\ result'.val = 0
            /\ result'.bytes = o.bytes /\ nand'.fpos = nand.fpos + n
        BY <2>2, <2>5, <2>6, <2>9
      <3>4. File!FileRead(n)
        BY <1>2, <3>1, <3>2, <3>3 DEF File!FileRead, File!InExtent, File!Bytes, InFile, FileBytes
      <3>5. File!FileNext
        BY <1>2, <3>3, <3>4 DEF File!FileNext
      <3> QED
        BY <2>7, <3>5 DEF FileStep
    <2> QED
      BY <2>2, <2>8, <2>9
  <1> QED
    BY <1>1, <1>2 DEF Read

LEMMA PeekStep ==
    ASSUME Media, config' = config, NEW n \in Nat, Peek(n)
    PROVE  Media' /\ FileStep
  <1>1. ASSUME config.medium = "nor", NEW copied \in 0 .. n,
               CallNor("peek", NorPeek(nor, n, copied))
        PROVE  Media' /\ FileStep
    BY <1>1, NorReads, NorStep DEF CallNor, NorPeek
  <1>2. ASSUME config.medium = "nand",
               NEW res \in Answers(nand.logicalToPhysMap, PagesRead(nand, n)),
               CallNand("peek", NandPeek(nand, n, res))
        PROVE  Media' /\ FileStep
    <2> DEFINE o == NandPeek(nand, n, res)
    <2>1. nand \in NandType /\ (nand.buf # Junk => nand.logicalToPhysMap = MappedBlocks)
      BY DEF Media, Cache
    <2>2. /\ KeepsBlock(nand, o)
          /\ o.val = 0 => o.nd.fpos = nand.fpos /\ o.bytes = CopiedBytes(nand, n, res)
      BY <2>1, PeekCases, ReadCases
    <2>3. Reporting => \A l \in PagesRead(nand, n) : res[l] \in {"ok", "failed"}
      BY HonestAnswers DEF Media
    <2>4. Reporting /\ Serves(nand) /\ o.val = 0 =>
              Serves(o.nd) /\ (InFile(nand, n) => o.bytes = FileBytes(nand, n))
      BY <2>1, <2>3, PeekServes
    <2>5. /\ Returned("peek", o) /\ nand' = o.nd /\ UNCHANGED nor
          /\ result' = [op |-> "peek", val |-> o.val, bytes |-> o.bytes]
      BY <1>2 DEF CallNand, Returned
    <2>6. Len(CopiedBytes(nand, n, res)) = n
      BY DEF CopiedBytes
    <2> HIDE DEF o
    <2>7. Media'
      BY <2>2, <2>4, <2>5, NandStep
    <2>8. CASE o.val # 0
      <3>1. o.val < 0
        BY <2>2, <2>8 DEF KeepsBlock
      <3>2. File!FileNext
        BY <1>2, <2>5, <3>1 DEF File!FileNext, File!FileFails
      <3> QED
        BY <2>7, <3>2 DEF FileStep
    <2>9. CASE o.val = 0
      <3>1. Reporting' = Reporting
        BY DEF Reporting
      <3>2. ASSUME Reporting, Coherent, InFile(nand, n)
            PROVE  o.bytes = FileBytes(nand, n) /\ Coherent'
        <4>1. Serves(nand') /\ o.bytes = FileBytes(nand, n)
          BY <2>4, <2>5, <2>9, <3>2, CoherentServes
        <4>2. CASE nand.fpos \in Extent
          <5>1. nand'.fpos \in Nat /\ nand'.fpos \in Extent
            BY <2>1, <2>2, <2>5, <2>9, <4>2 DEF NandType
          <5>2. nand'.cur \in FilePages
            BY <4>1, <5>1, PageOfPosition DEF Serves
          <5> QED
            BY <4>1, <5>2 DEF Serves, Coherent
        <4>3. CASE nand.fpos \notin Extent
          <5>1. n = 0
            <6>1. nand.fpos \in Int
              BY <2>1 DEF NandType
            <6>2. n # 0 => nand.fpos \in nand.fpos .. nand.fpos + n - 1
              BY <6>1
            <6> QED
              BY <3>2, <4>3, <6>2 DEF InFile
          <5>2. PageEnds(nand, n) = 0
            <6>1. nand.fpos \in Nat /\ nand.fpos + 0 = nand.fpos
              BY <2>1 DEF NandType
            <6>2. /\ PageEnds(nand, 0) \in Nat
                  /\ (nand.fpos \div pageSizeBytes) + PageEnds(nand, 0) = nand.fpos \div pageSizeBytes
              BY <2>1, <6>1, PageEndsType
            <6>3. nand.fpos \div pageSizeBytes \in Int
              BY <6>1, PageOfPosition
            <6> HIDE DEF PageEnds
            <6> QED
              BY <5>1, <6>2, <6>3
          <5>3. o.nd.fpos = nand.fpos /\ o.nd.cur = nand.cur /\ o.nd.buf = nand.buf
            <6>1. /\ NandPeek(nand, n, res).val = 0
                  /\ ~(PageEnds(nand, n) # 0)
              BY <2>9, <5>2 DEF o
            <6>2. /\ NandPeek(nand, n, res).nd.fpos = nand.fpos
                  /\ NandPeek(nand, n, res).nd.cur = nand.cur
                  /\ NandPeek(nand, n, res).nd.buf = nand.buf
              BY <2>1, <6>1, PeekCases
            <6> QED
              BY <6>2 DEF o
          <5> QED
            BY <2>5, <3>2, <4>1, <5>3 DEF Coherent
        <4> QED
          BY <4>1, <4>2, <4>3
      <3>3. Len(result'.bytes) = n /\ result'.op = "peek" /\ result'.val = 0
            /\ result'.bytes = o.bytes /\ nand'.fpos = nand.fpos
        BY <2>2, <2>5, <2>6, <2>9
      <3>4. File!FilePeek(n)
        BY <1>2, <3>1, <3>2, <3>3 DEF File!FilePeek, File!InExtent, File!Bytes, InFile, FileBytes
      <3>5. File!FileNext
        BY <1>2, <3>3, <3>4 DEF File!FileNext
      <3> QED
        BY <2>7, <3>5 DEF FileStep
    <2> QED
      BY <2>2, <2>8, <2>9
  <1> QED
    BY <1>1, <1>2 DEF Peek

LEMMA CallsKeepTheFile ==
    ASSUME Media, Calls
    PROVE  Media' /\ FileStep
  <1>1. CASE UNCHANGED callVars
    <2>1. Reporting' = Reporting /\ Coherent' = Coherent
      BY <1>1 DEF Calls, callVars, Reporting, Coherent
    <2>2. Media'
      BY <1>1, <2>1 DEF Calls, callVars, Media, Cache, Serves
    <2>3. UNCHANGED File!fileVars
      BY <1>1, <2>1 DEF Calls, callVars, File!fileVars
    <2> QED
      BY <2>2, <2>3 DEF FileStep
  <1>2. CASE OpensNor
    <2>1. nor' \in [fpos : Nat]
      BY <1>2 DEF OpensNor, CallNor, NorOutcome, NorOpen
    <2>2. NorOutcome(NorOpen, 0, << >>).val = 0
      BY DEF NorOutcome
    <2> QED
      BY <1>2, <2>1, <2>2, NorStep DEF OpensNor, CallNor, Calls
  <1> QED
    BY <1>1, <1>2, OpenStep, ReadStep, PeekStep, SeekStep DEF Calls
-----------------------------------------------------------------------------
(* The loaders.                                                            *)

\* Where the program is, and the parser, whose fields are unsigned.
Control ==
    /\ pc \in {"idle", "start", "detect", "detected", "bis", "blob", "elf",
               "close", "jumped", "astray"}
    /\ bis.todo \in Seq(BisWords) /\ bis.reg \in [BisFieldNames -> Nat]
    /\ bis = [todo |-> bis.todo, reg |-> bis.reg]
    /\ fn_table \in [0 .. MAX_BIS_FUNCTION_SUPPORT - 1 -> Nat]
    /\ blob \in [datap : Nat, remainSize : Nat, bytesRead : Nat]
    /\ blob.bytesRead + blob.remainSize \in {0, BlobParams.sizeBytes}
    /\ DOMAIN memory = 0 .. MemoryLen - 1
    /\ attempts \in 0 .. MaxAttempts

LEMMA ControlKept ==
    ASSUME Control,
           pc' \in {"idle", "start", "detect", "detected", "bis", "blob", "elf",
                    "close", "jumped", "astray"},
           UNCHANGED <<bis, fn_table, blob, memory, attempts>>
    PROVE  Control'
  BY DEF Control

LEMMA BisStartType ==
    /\ BisStart.todo \in Seq(BisWords) /\ BisStart.reg \in [BisFieldNames -> Nat]
    /\ BisStart = [todo |-> BisStart.todo, reg |-> BisStart.reg]
  BY DEF BisStart, BisWords, BisFieldNames

LEMMA OperandsType ==
    ASSUME NEW command \in BisCommands
    PROVE  BisOperands(command) \in Seq(BisWords)
  <1>1. {"loadAddress", "sectionSize", "commandFlags", "argCnt", "fn_num", "op_type", "mask",
         "sleep_cnt", "dataWord", "payload"} \subseteq BisWords
    BY DEF BisWords, BisFieldNames
  <1>2. <<"loadAddress", "sectionSize", "commandFlags", "payload">> \in Seq(BisWords)
    BY <1>1
  <1>3. <<"loadAddress", "sectionSize", "commandFlags", "argCnt", "fn_num", "payload">>
           \in Seq(BisWords)
    BY <1>1
  <1>4. <<"argCnt", "fn_num">> \in Seq(BisWords) /\ <<"dataWord">> \in Seq(BisWords)
    BY <1>1
  <1>5. <<"loadAddress", "argCnt", "op_type", "mask", "sleep_cnt", "dataWord">> \in Seq(BisWords)
    BY <1>1
  <1> QED
    BY <1>2, <1>3, <1>4, <1>5 DEF BisCommands, BisOperands

LEMMA FieldValuesType ==
    ASSUME Media, NEW bytes
    PROVE  FieldValues(bytes) \subseteq Nat
  <1>1. ASSUME NEW b PROVE UnitAt(b) \in Nat
    <2>1. CASE b \in 0 .. Len(Image) - 1
      <3>1. Image \in Seq(Nat) /\ Len(Image) \in Nat /\ b + 1 \in 1 .. Len(Image)
        BY <2>1, FlashBootAssumption
      <3>2. Image[b + 1] \in Nat
        BY <3>1
      <3> QED
        BY <2>1, <3>2 DEF UnitAt
    <2>2. CASE b \notin 0 .. Len(Image) - 1
      BY <2>2, FlashBootAssumption DEF UnitAt
    <2> QED
      BY <2>1, <2>2
  <1>2. Anything \in Nat
    BY FlashBootAssumption
  <1> QED
    BY <1>1, <1>2 DEF FieldValues

LEMMA StoredField ==
    ASSUME Control, bis.todo # << >>, BisField # "payload", NEW value \in Nat,
           ~BisRejects(BisField, value)
    PROVE  /\ BisStore(bis, value).todo \in Seq(BisWords)
           /\ BisStore(bis, value).reg \in [BisFieldNames -> Nat]
           /\ BisStore(bis, value)
                 = [todo |-> BisStore(bis, value).todo, reg |-> BisStore(bis, value).reg]
  <1>1. bis.todo \in Seq(BisWords) /\ Head(bis.todo) \in BisWords /\ Tail(bis.todo) \in Seq(BisWords)
    BY DEF Control
  <1>2. BisField \in BisFieldNames /\ BisField = Head(bis.todo)
    BY <1>1 DEF BisField, BisWords
  <1>3. BisField = "command" => BisOperands(value) \in Seq(BisWords)
    BY OperandsType DEF BisRejects
  <1>4. <<"command">> \in Seq(BisWords)
    BY DEF BisWords, BisFieldNames
  <1>5. [bis.reg EXCEPT ![BisField] = value] \in [BisFieldNames -> Nat]
    BY <1>2 DEF Control
  <1>6. BisStore(bis, value).todo \in Seq(BisWords)
    <2>1. CASE BisField = "magic"
      BY <1>2, <1>4, <2>1 DEF BisStore
    <2>2. CASE BisField = "command"
      BY <1>2, <1>3, <2>2 DEF BisStore
    <2>3. CASE BisField # "magic" /\ BisField # "command"
      BY <1>1, <1>2, <2>3 DEF BisStore
    <2> QED
      BY <2>1, <2>2, <2>3
  <1> QED
    BY <1>2, <1>5, <1>6 DEF BisStore

LEMMA NextCommandType ==
    ASSUME Control
    PROVE  /\ BisNextCommand(bis).todo \in Seq(BisWords)
           /\ BisNextCommand(bis).reg \in [BisFieldNames -> Nat]
           /\ BisNextCommand(bis)
                 = [todo |-> BisNextCommand(bis).todo, reg |-> BisNextCommand(bis).reg]
  <1>1. <<"command">> \in Seq(BisWords)
    BY DEF BisWords, BisFieldNames
  <1>2. bis = [todo |-> bis.todo, reg |-> bis.reg] /\ bis.reg \in [BisFieldNames -> Nat]
    BY DEF Control
  <1>3. BisNextCommand(bis) = [todo |-> <<"command">>, reg |-> bis.reg]
    BY <1>2 DEF BisNextCommand
  <1> QED
    BY <1>1, <1>2, <1>3

LEMMA LoaderStarts ==
    ASSUME Control, NEW format, StartLoader(format), attempts' = attempts
    PROVE  Control'
  <1>1. pc' \in {"bis", "blob", "elf", "close"}
    BY DEF StartLoader, LoaderFor
  <1>2. blob' \in [datap : Nat, remainSize : Nat, bytesRead : Nat]
        /\ blob'.bytesRead + blob'.remainSize = BlobParams.sizeBytes
    BY FlashBootAssumption DEF StartLoader
  <1> QED
    BY <1>1, <1>2, BisStartType DEF StartLoader, Control

LEMMA BlobSizes ==
    ASSUME Control
    PROVE  /\ DataSize \in Nat /\ DataSize <= blob.remainSize
           /\ DataSize \in {Query, blob.remainSize} /\ Query \in Nat \ {0}
  <1>1. Query \in Nat \ {0} /\ blob.remainSize \in Nat
    BY NandAssumption, NorAssumption DEF Query, Control
  <1> DEFINE q == Query
             r == blob.remainSize
  <1>2. Min({q, r}) \in {q, r} /\ Min({q, r}) <= r
    <2> HIDE DEF q, r
    <2>1. q \in Nat /\ r \in Nat
      BY <1>1 DEF q, r
    <2>2. \E x \in {q, r} : \A y \in {q, r} : x =< y
      BY <2>1
    <2>3. Min({q, r}) \in {q, r} /\ \A y \in {q, r} : Min({q, r}) =< y
      BY <2>2 DEF Min
    <2> QED
      BY <2>3
  <1> QED
    BY <1>1, <1>2 DEF DataSize

LEMMA StoredMemory ==
    ASSUME NEW address, NEW bytes, Store(address, bytes)
    PROVE  DOMAIN memory' = 0 .. MemoryLen - 1
  BY DEF Store

LEMMA WidthType ==
    ASSUME NEW field
    PROVE  BisWidth(field) \in Nat
  BY DEF BisWidth

LEMMA BisFieldStep ==
    ASSUME Media, Control, BisReadField
    PROVE  Calls /\ Control'
  <1>1. Calls
    BY WidthType DEF BisReadField, Calls
  <1>2. attempts' = attempts
    BY DEF BisReadField
  <1>3. CASE LoaderReturns(0) /\ UNCHANGED loaderVars
    BY <1>1, <1>2, <1>3, ControlKept DEF LoaderReturns, loaderVars
  <1>4. ASSUME NEW value \in FieldValues(result'.bytes), TakeField(value)
        PROVE  Control'
    <2>1. value \in Nat
      BY FieldValuesType
    <2>2. CASE LoaderReturns(0) /\ UNCHANGED loaderVars
      BY <1>2, <2>2, ControlKept DEF LoaderReturns, loaderVars
    <2>3. CASE pc' = "astray" /\ UNCHANGED <<loaderVars, entry>>
      BY <1>2, <2>3, ControlKept DEF loaderVars
    <2>4. CASE /\ ~BisRejects(BisField, value)
               /\ bis' = BisStore(bis, value)
               /\ UNCHANGED <<pc, fn_table, blob, memory, entry>>
      BY <2>1, <2>4, StoredField DEF BisReadField, Control
    <2> QED
      BY <1>4, <2>2, <2>3, <2>4 DEF TakeField
  <1> QED
    BY <1>1, <1>3, <1>4 DEF BisReadField

LEMMA BisPayloadStep ==
    ASSUME Media, Control, BisReadPayload
    PROVE  Calls /\ Control'
  <1>1. bis.reg.sectionSize \in Nat
    BY DEF Control, BisFieldNames
  <1>2. Calls
    BY <1>1 DEF BisReadPayload, Calls
  <1>3. UNCHANGED <<config, fn_table, blob, attempts>>
    BY DEF BisReadPayload
  <1>4. DOMAIN memory' = 0 .. MemoryLen - 1
    BY StoredMemory DEF BisReadPayload
  <1>5. CASE LoaderReturns(0) /\ UNCHANGED bis
    BY <1>2, <1>3, <1>4, <1>5 DEF LoaderReturns, Control
  <1>6. CASE bis' = [bis EXCEPT !.todo = << >>] /\ UNCHANGED <<pc, entry>>
    <2>1. bis = [todo |-> bis.todo, reg |-> bis.reg]
      BY DEF Control
    <2>2. bis' = [todo |-> << >>, reg |-> bis.reg]
      BY <1>6, <2>1
    <2>3. << >> \in Seq(BisWords)
      OBVIOUS
    <2> QED
      BY <1>2, <1>3, <1>4, <1>6, <2>2, <2>3 DEF Control
  <1> QED
    BY <1>2, <1>5, <1>6 DEF BisReadPayload

LEMMA BisCommandStep ==
    ASSUME Media, Control, BisSkip \/ BisFunctionLoad \/ BisFunctionExec \/ BisTerminate
    PROVE  Calls /\ Control'
  <1>1. CASE BisSkip
    BY <1>1, NextCommandType DEF BisSkip, Calls, Control
  <1>2. CASE BisFunctionLoad
    <2>1. CASE LoaderReturns(0) /\ UNCHANGED <<bis, fn_table>>
      BY <1>2, <2>1, ControlKept DEF BisFunctionLoad, LoaderReturns, Calls
    <2>2. CASE /\ fn_table' = [fn_table EXCEPT ![bis.reg.fn_num] = bis.reg.loadAddress]
               /\ bis' = BisNextCommand(bis)
               /\ AfterAccess /\ UNCHANGED entry
      <3>1. bis.reg.loadAddress \in Nat
        BY DEF Control, BisFieldNames
      <3>2. fn_table' \in [0 .. MAX_BIS_FUNCTION_SUPPORT - 1 -> Nat]
        BY <2>2, <3>1 DEF Control
      <3> QED
        BY <1>2, <2>2, <3>2, NextCommandType DEF BisFunctionLoad, AfterAccess, Calls, Control
    <2> QED
      BY <1>2, <2>1, <2>2 DEF BisFunctionLoad
  <1>3. CASE BisFunctionExec
    <2>1. CASE LoaderReturns(0) /\ UNCHANGED bis
      BY <1>3, <2>1, ControlKept DEF BisFunctionExec, LoaderReturns, Calls
    <2>2. CASE bis' = BisNextCommand(bis) /\ AfterAccess /\ UNCHANGED entry
      BY <1>3, <2>2, NextCommandType DEF BisFunctionExec, AfterAccess, Calls, Control
    <2> QED
      BY <1>3, <2>1, <2>2 DEF BisFunctionExec
  <1>4. CASE BisTerminate
    BY <1>4, ControlKept DEF BisTerminate, LoaderReturns, Calls, loaderVars
  <1> QED
    BY <1>1, <1>2, <1>3, <1>4

LEMMA BlobStep ==
    ASSUME Media, Control, BlobRead \/ BlobDone
    PROVE  Calls /\ Control'
  <1>1. CASE BlobRead
    <2>1. Calls
      BY <1>1, BlobSizes DEF BlobRead, Calls
    <2>2. DOMAIN memory' = 0 .. MemoryLen - 1
      BY <1>1, StoredMemory DEF BlobRead
    <2> DEFINE size == DataSize
               left == blob.remainSize
               got == blob.bytesRead
               at == blob.datap
    <2>3. /\ size \in Nat /\ left \in Nat /\ got \in Nat /\ at \in Nat /\ size <= left
          /\ got + left \in {0, BlobParams.sizeBytes}
      BY BlobSizes DEF Control
    <2>4. blob' = [datap |-> at + size, remainSize |-> left - size, bytesRead |-> got + size]
      BY <1>1 DEF BlobRead
    <2> HIDE DEF size, left, got, at
    <2>5. /\ at + size \in Nat /\ left - size \in Nat /\ got + size \in Nat
          /\ (got + size) + (left - size) = got + left
      BY <2>3
    <2>6. blob' \in [datap : Nat, remainSize : Nat, bytesRead : Nat]
          /\ blob'.bytesRead + blob'.remainSize \in {0, BlobParams.sizeBytes}
      BY <2>3, <2>4, <2>5
    <2> QED
      BY <1>1, <2>1, <2>2, <2>6 DEF BlobRead, Control
  <1>2. CASE BlobDone
    BY <1>2, ControlKept DEF BlobDone, LoaderReturns, Calls, loaderVars
  <1> QED
    BY <1>1, <1>2

LEMMA SeekingLoaderStep ==
    ASSUME Media, Control,
           SeekingLoaderReads \/ SeekingLoaderPeeks \/ SeekingLoaderSeeks \/ SeekingLoaderStops
    PROVE  Calls /\ Control'
  <1>1. ReadSizes \subseteq Nat
    BY FlashBootAssumption
  <1>2. CASE SeekingLoaderReads
    BY <1>1, <1>2, ControlKept DEF SeekingLoaderReads, LoaderReturns, Calls, loaderVars, Control
  <1>3. CASE SeekingLoaderPeeks
    BY <1>1, <1>3, ControlKept DEF SeekingLoaderPeeks, Calls, loaderVars, Control
  <1>4. CASE SeekingLoaderSeeks
    BY <1>4, ControlKept DEF SeekingLoaderSeeks, Calls, loaderVars, Control
  <1>5. CASE SeekingLoaderStops
    BY <1>5, ControlKept DEF SeekingLoaderStops, LoaderReturns, Calls, loaderVars
  <1> QED
    BY <1>2, <1>3, <1>4, <1>5

LEMMA OpeningStep ==
    ASSUME Media, Control, Open \/ OpenFails \/ Close
    PROVE  Calls /\ Control'
  <1>1. CASE Open
    <2>1. Calls
      BY <1>1 DEF Open, Calls, OpensNand, OpensNor
    <2>2. attempts' \in 0 .. MaxAttempts
      BY SMTT(60), <1>1, FlashBootAssumption DEF Open, Control
    <2>3. pc' \in {"detect", "start"}
      BY <1>1 DEF Open, Opened
    <2> QED
      BY <1>1, <2>1, <2>2, <2>3 DEF Open, loaderVars, Control
  <1>2. CASE OpenFails
    <2>1. Calls
      BY <1>2 DEF OpenFails, Calls, OpensNand
    <2>2. attempts' \in 0 .. MaxAttempts
      BY SMTT(60), <1>2, FlashBootAssumption DEF OpenFails, Control
    <2> QED
      BY <1>2, <2>1, <2>2 DEF OpenFails, loaderVars, Control
  <1>3. CASE Close
    BY <1>3, ControlKept DEF Close, Calls, loaderVars
  <1> QED
    BY <1>1, <1>2, <1>3

LEMMA DetectingStep ==
    ASSUME Media, Control, Detect \/ StartDetected \/ StartConfigured
    PROVE  Calls /\ Control'
  <1>1. CASE Detect
    <2>1. HeaderSize \in Nat
      BY FlashBootAssumption
    <2> QED
      BY <1>1, <2>1, ControlKept DEF Detect, Calls, loaderVars
  <1>2. CASE StartDetected
    BY <1>2, LoaderStarts DEF StartDetected, Calls
  <1>3. CASE StartConfigured
    BY <1>3, LoaderStarts DEF StartConfigured, Calls
  <1> QED
    BY <1>1, <1>2, <1>3

LEMMA FlashStep ==
    ASSUME Media, Control, [Next]_vars
    PROVE  /\ Media' /\ Control' /\ FileStep
  <1>1. CASE UNCHANGED vars
    <2>1. Calls /\ Control'
      BY <1>1, ControlKept DEF vars, callVars, loaderVars, Calls, Control
    <2> QED
      BY <2>1, CallsKeepTheFile
  <1>2. CASE Next
    <2>1. Calls /\ Control'
      BY <1>2, BisFieldStep, BisPayloadStep, BisCommandStep, BlobStep, SeekingLoaderStep,
         OpeningStep, DetectingStep DEF Next
    <2> QED
      BY <2>1, CallsKeepTheFile
  <1> QED
    BY <1>1, <1>2

LEMMA FlashInit ==
    ASSUME Init
    PROVE  Media /\ Control
  <1>1. NandClosed \in NandType /\ NandClosed.buf = Junk
    BY DEF NandClosed, NandType, Contents
  <1>2. Media
    BY <1>1 DEF Init, Media, Cache, NorOpen
  <1>3. fn_table \in [0 .. MAX_BIS_FUNCTION_SUPPORT - 1 -> Nat]
    BY DEF Init, EmptyFnTable
  <1>4. attempts \in 0 .. MaxAttempts
    BY FlashBootAssumption DEF Init
  <1>5. Control
    BY <1>3, <1>4, BisStartType DEF Init, Control
  <1> QED
    BY <1>2, <1>5
-----------------------------------------------------------------------------
(* The theorems about the module.                                          *)

FlashInv == Media /\ Control

\* The map, the cache and the loaders' statics agree, through every call of nand.c, nor.c
\* and the loaders.
THEOREM FlashInvariant == Spec => []FlashInv
  <1>1. Init => FlashInv
    BY FlashInit DEF FlashInv
  <1>2. FlashInv /\ [Next]_vars => FlashInv'
    BY FlashStep DEF FlashInv
  <1> QED
    BY <1>1, <1>2, PTL DEF Spec

\* Every variable stays within its type, with every file and every way the flash answers.
THEOREM FlashTypes == Spec => []TypeOK
  <1>1. FlashInv => TypeOK
    BY DEF FlashInv, Media, Control, TypeOK
  <1> QED
    BY <1>1, FlashInvariant, PTL

\* A driver that reports what it cannot correct never leaves a page in the cache
\* that is not the one the position is in, unless some call has said so (nand_read,
\* nand_peek and nand_seek of nand.c).
THEOREM DamageAlwaysReported == Spec => []DamageIsReported
  <1>1. FlashInv => DamageIsReported
    <2> SUFFICES ASSUME Media, config.medium = "nand", Reporting, doubt = "none",
                        nand.fpos \in Extent
                 PROVE  Coherent
      BY DEF FlashInv, DamageIsReported
    <2> QED
      BY ServesCoherent DEF Media, Cache
  <1> QED
    BY <1>1, FlashInvariant, PTL

\* NAND boot is a file made of the good blocks, for every geometry, every set of bad
\* blocks and every size of call (nand_read, nand_peek and nand_seek of nand.c).
THEOREM FlashImplementsFile == Spec => ImplementsFile
  <1>1. Init => File!FileInit
    <2> SUFFICES ASSUME Init
                 PROVE  File!FileInit
      OBVIOUS
    <2>1. nand.cur = 0 /\ nand.buf = Junk
      BY DEF Init, NandClosed
    <2>2. ~Coherent
      BY <2>1 DEF Coherent, Junk
    <2> QED
      BY <2>2 DEF Init, File!FileInit
  <1>2. FlashInv /\ [Next]_vars => [File!FileNext]_(File!fileVars)
    BY FlashStep DEF FlashInv, FileStep
  <1> QED
    BY <1>1, <1>2, FlashInvariant, PTL DEF Spec, ImplementsFile, File!FileSpec
-----------------------------------------------------------------------------
(* The blob.                                                               *)

\* The position of the medium that is booted.
Position == IF config.medium = "nand" THEN nand.fpos ELSE nor.fpos

\* The n bytes from the position are bytes of the medium.
OnMedium(n) == config.medium = "nand" => Position + n - 1 \in Extent

\* A read after which there is no doubt has given the bytes at the position.
LEMMA SureRead ==
    ASSUME Media, config' = config, NEW n \in Nat \ {0}, Read(n),
           config.medium = "nand" => Reporting /\ doubt' = "none",
           result'.val = 0,
           OnMedium(n)
    PROVE  /\ Position' = Position + n
           /\ result'.bytes = [i \in 1 .. n |-> Position + i - 1]
           /\ Position \in Nat
           /\ doubt' = doubt
  <1>1. nand.fpos \in Nat /\ nor.fpos \in Nat
    BY DEF Media, NandType
  <1>2. ASSUME config.medium = "nor", NEW copied \in 0 .. n,
               CallNor("read", NorRead(nor, n, copied))
        PROVE  /\ nor'.fpos = nor.fpos + n
               /\ result'.bytes = [i \in 1 .. n |-> nor.fpos + i - 1]
               /\ doubt' = doubt
    <2>1. copied = n
      BY <1>2 DEF CallNor, Returned, NorRead, NorOutcome
    <2> QED
      BY <1>2, <2>1 DEF CallNor, Returned, NorRead, NorOutcome
  <1>3. ASSUME config.medium = "nand",
               NEW res \in Answers(nand.logicalToPhysMap, PagesRead(nand, n)),
               CallNand("read", NandRead(nand, n, res))
        PROVE  /\ nand'.fpos = nand.fpos + n
               /\ result'.bytes = [i \in 1 .. n |-> nand.fpos + i - 1]
               /\ doubt' = doubt
    <2> DEFINE o == NandRead(nand, n, res)
    <2>1. /\ nand' = o.nd /\ result'.val = o.val /\ result'.bytes = o.bytes /\ o.val = 0
          /\ doubt' = IF doubt = "none" /\ o.val < 0 THEN "call" ELSE doubt
      BY <1>3 DEF CallNand, Returned
    <2>2. doubt = "none" /\ doubt' = doubt
      BY <1>3, <2>1
    <2>3. nand \in NandType /\ Serves(nand) /\ Reporting
      BY <1>3, <2>2 DEF Media, Cache
    <2>4. \A l \in PagesRead(nand, n) : res[l] \in {"ok", "failed"}
      BY <2>3, HonestAnswers DEF Media
    <2>5. InFile(nand, n) => o.bytes = FileBytes(nand, n)
      BY <2>1, <2>3, <2>4, ReadServes
    <2>6. InFile(nand, n)
      <3> DEFINE last == Cardinality(GoodBlocks) * pagesPerBlock * pageSizeBytes - 1
      <3>1. last \in Int
        BY GoodBlocksFinite, NandAssumption
      <3>2. nand.fpos + n - 1 \in 0 .. last
        BY <1>3 DEF OnMedium, Position, Extent, FlashSize
      <3> HIDE DEF last
      <3>3. nand.fpos .. nand.fpos + n - 1 \subseteq 0 .. last
        BY <1>1, <3>1, <3>2
      <3> QED
        BY <3>3 DEF InFile, Extent, last, FlashSize
    <2>7. o.nd.fpos = nand.fpos + n
      BY <2>1, <2>3, ReadCases DEF Media, Cache
    <2> HIDE DEF o
    <2> QED
      BY <2>1, <2>2, <2>5, <2>6, <2>7 DEF FileBytes
  <1>4. CASE config.medium = "nor"
    BY <1>1, <1>2, <1>4 DEF Read, Position
  <1>5. CASE config.medium = "nand"
    BY <1>1, <1>3, <1>5 DEF Read, Position
  <1> QED
    BY <1>4, <1>5 DEF Read

BlobSize == BlobParams.sizeBytes
BlobStart == BlobParams.startAddress

\* The blob fits the memory it is loaded into and the flash it is loaded from.
BlobFits ==
    /\ BlobStart + BlobSize <= MemoryLen
    /\ BlobSize <= Cardinality(GoodBlocks) * pagesPerBlock * pageSizeBytes

BlobLoaded(n) == \A i \in 0 .. n - 1 : memory[BlobStart + i] = i

\* How far the blob loader has come.
BlobProgress ==
    config.format = "bblob" =>
        /\ pc \in {"idle", "start", "blob", "close", "jumped"}
        /\ doubt = "none" /\ Reporting =>
              /\ pc = "start" => Position = 0
              /\ pc = "blob" =>
                    /\ Position = blob.bytesRead
                    /\ blob.datap = BlobStart + blob.bytesRead
                    /\ blob.bytesRead + blob.remainSize = BlobSize
                    /\ BlobLoaded(blob.bytesRead)
              /\ pc = "close" \/ pc = "jumped" => BlobLoaded(BlobSize)

LEMMA StoredBytes ==
    ASSUME NEW got \in Nat, NEW n \in Nat \ {0}, got + n <= BlobSize, BlobFits,
           BlobLoaded(got),
           NEW at, at = BlobStart + got,
           NEW bytes, bytes = [i \in 1 .. n |-> got + i - 1],
           NEW read, read = got + n,
           Store(at, bytes)
    PROVE  \A i \in 0 .. read - 1 : memory'[BlobStart + i] = i
  <1>1. /\ BlobStart \in Nat /\ BlobSize \in Nat /\ MemoryLen \in Nat
        /\ BlobStart + BlobSize <= MemoryLen
    BY FlashBootAssumption DEF BlobFits, BlobStart, BlobSize
  <1>2. Len(bytes) = n /\ at \in Nat
    BY <1>1
  <1>3. ASSUME NEW i \in 0 .. got + n - 1, NEW a, a = BlobStart + i
        PROVE  memory'[a] = i
    <2>1. a \in 0 .. MemoryLen - 1 /\ i \in Int
      BY <1>1, <1>3
    <2>2. memory'[a] = IF a \in at .. at + n - 1 THEN bytes[a - at + 1] ELSE memory[a]
      <3>1. memory'[a] = IF a \in at .. at + Len(bytes) - 1 THEN bytes[a - at + 1] ELSE memory[a]
        BY <2>1, Zenon DEF Store
      <3> QED
        BY <1>2, <3>1, Zenon
    <2>3. CASE i < got
      <3>1. a \notin at .. at + n - 1
        BY <1>1, <1>3, <2>1, <2>3
      <3>2. memory[a] = i
        BY <1>1, <1>3, <2>1, <2>3 DEF BlobLoaded
      <3> QED
        BY <2>2, <3>1, <3>2
    <2>4. CASE i >= got
      <3>1. a \in at .. at + n - 1
        BY <1>1, <1>3, <2>1, <2>4
      <3>2. a - at + 1 = i - got + 1 /\ i - got + 1 \in 1 .. n
        BY <1>1, <1>3, <2>1, <2>4
      <3>3. bytes[i - got + 1] = got + (i - got + 1) - 1
        BY <3>2
      <3>4. got + (i - got + 1) - 1 = i
        BY <2>1
      <3> QED
        BY <2>2, <3>1, <3>2, <3>3, <3>4
    <2> QED
      BY <2>1, <2>3, <2>4
  <1>4. \A i \in 0 .. read - 1 : memory'[BlobStart + i] = i
    <2>1. 0 .. read - 1 = 0 .. got + n - 1
      OBVIOUS
    <2> QED
      BY <1>3, <2>1, Zenon
  <1> QED
    BY <1>4

LEMMA BlobProgressInit == Init => BlobProgress
  BY DEF Init, BlobProgress

\* What the steps other than those of the loader need.
LEMMA BlobOtherSteps ==
    ASSUME Media, Control, BlobProgress, [Next]_vars, ~BlobRead, ~BlobDone
    PROVE  BlobProgress'
  <1>1. SUFFICES ASSUME config.format = "bblob", config' = config
                 PROVE  BlobProgress'
    <2>1. config' = config
      BY FlashStep, BisFieldStep, BisPayloadStep, BisCommandStep, SeekingLoaderStep, OpeningStep,
         DetectingStep DEF Next, Calls, vars
    <2> QED
      BY <2>1 DEF BlobProgress
  <1>2. pc \in {"idle", "start", "blob", "close", "jumped"} /\ Reporting' = Reporting
    BY <1>1 DEF BlobProgress, Reporting
  <1>3. CASE UNCHANGED vars
    BY <1>3, <1>2 DEF vars, callVars, loaderVars, BlobProgress, BlobLoaded, Position
  <1>4. CASE Open
    <2>1. pc' = "start" /\ (doubt' = "none" => Position' = 0)
      <3>1. pc' = "start"
        BY <1>1, <1>4 DEF Open, Opened
      <3>2. CASE config.medium = "nor"
        <4>1. nor'.fpos = 0
          BY <1>4, <3>2 DEF Open, CallNor, NorOutcome, NorOpen
        <4> QED
          BY <1>1, <3>1, <3>2, <4>1 DEF Position
      <3>3. CASE config.medium = "nand"
        <4>1. PICK res \in Answers(MappedBlocks, {0}) : CallNand("open", NandOpen(res))
          BY <1>4, <3>3 DEF Open
        <4>2. res[0] \in {"ok", "failed", "unnoticed"}
          BY DEF Answers
        <4>3. nand'.fpos = 0
          BY <4>1, <4>2, OpenCases DEF CallNand
        <4> QED
          BY <1>1, <3>1, <3>3, <4>3 DEF Position
      <3>4. config.medium \in {"nand", "nor"}
        BY FlashBootAssumption DEF Media
      <3> QED
        BY <3>1, <3>2, <3>3, <3>4
    <2> QED
      BY <2>1 DEF BlobProgress
  <1>5. CASE OpenFails
    BY <1>2, <1>5 DEF OpenFails, CallNand, Returned, Outcome, NandClosed, BlobProgress
  <1>6. CASE StartConfigured
    <2>1. /\ pc = "start" /\ pc' = "blob" /\ UNCHANGED <<nand, nor, doubt>>
          /\ blob' = [datap |-> BlobStart, remainSize |-> BlobSize, bytesRead |-> 0]
      BY <1>1, <1>6 DEF StartConfigured, StartLoader, LoaderFor, BlobStart, BlobSize, callVars
    <2>2. BlobStart \in Nat /\ BlobSize \in Nat
      BY FlashBootAssumption DEF BlobStart, BlobSize
    <2>3. Position' = Position
      BY <1>1, <2>1 DEF Position
    <2>4. blob'.datap = BlobStart /\ blob'.remainSize = BlobSize /\ blob'.bytesRead = 0
      BY <2>1
    <2>5. /\ blob'.datap = BlobStart + blob'.bytesRead
          /\ blob'.bytesRead + blob'.remainSize = BlobSize
          /\ \A i \in 0 .. blob'.bytesRead - 1 : memory'[BlobStart + i] = i
      BY <2>2, <2>4
    <2>6. doubt' = "none" /\ Reporting => Position' = blob'.bytesRead
      BY <1>1, <2>1, <2>3, <2>4 DEF BlobProgress
    <2> HIDE DEF Position
    <2> QED
      BY <1>2, <2>1, <2>5, <2>6 DEF BlobProgress, BlobLoaded
  <1>7. CASE Close
    <2>1. pc = "close" /\ pc' \in {"jumped", "idle"} /\ UNCHANGED <<memory, doubt>>
      BY <1>7 DEF Close, callVars, loaderVars
    <2> QED
      BY <1>1, <1>2, <2>1 DEF BlobProgress, BlobLoaded
  <1>8. ~(Detect \/ StartDetected \/ BisReadField \/ BisReadPayload
          \/ BisSkip \/ BisFunctionLoad \/ BisFunctionExec \/ BisTerminate
          \/ SeekingLoaderReads \/ SeekingLoaderPeeks \/ SeekingLoaderSeeks \/ SeekingLoaderStops)
    BY <1>2 DEF Detect, StartDetected, BisReadField, BisReadPayload, BisCommandRead,
       BisSkip, BisFunctionLoad, BisFunctionExec, BisTerminate,
       SeekingLoaderReads, SeekingLoaderPeeks, SeekingLoaderSeeks, SeekingLoaderStops
  <1> QED
    BY <1>3, <1>4, <1>5, <1>6, <1>7, <1>8 DEF Next

LEMMA BlobReadStep ==
    ASSUME Media, Control, BlobFits, BlobProgress, BlobRead
    PROVE  BlobProgress'
  <1> DEFINE size == DataSize
             left == blob.remainSize
             got == blob.bytesRead
             at == blob.datap
  <1>1. /\ pc = "blob" /\ pc' = "blob" /\ config' = config /\ left > 0
        /\ Read(size) /\ Store(at, result'.bytes)
        /\ blob' = [datap |-> at + size, remainSize |-> left - size, bytesRead |-> got + size]
    BY DEF BlobRead
  <1>2. /\ size \in Nat \ {0} /\ left \in Nat /\ got \in Nat /\ at \in Nat /\ size <= left
    BY <1>1, BlobSizes DEF Control
  <1>3. Reporting' = Reporting
    BY <1>1 DEF Reporting
  <1>4. SUFFICES ASSUME config.format = "bblob", doubt' = "none", Reporting
                 PROVE  /\ Position' = blob'.bytesRead
                        /\ blob'.datap = BlobStart + blob'.bytesRead
                        /\ blob'.bytesRead + blob'.remainSize = BlobSize
                        /\ \A i \in 0 .. blob'.bytesRead - 1 : memory'[BlobStart + i] = i
    <2> HIDE DEF size, left, got, at
    <2> QED
      BY <1>1, <1>3 DEF BlobProgress, BlobLoaded
  <1>5. result'.val = 0 /\ doubt = "none"
    <2>1. /\ config.medium = "nor" => result'.val \in {0, -1}
          /\ config.medium = "nand" => result'.val \in {0, -2}
      <3>1. ASSUME NEW copied \in 0 .. size, CallNor("read", NorRead(nor, size, copied))
            PROVE  result'.val \in {0, -1}
        BY <1>2, <3>1, NorReads DEF CallNor, Returned
      <3>2. ASSUME NEW res, CallNand("read", NandRead(nand, size, res))
            PROVE  result'.val \in {0, -2}
        BY <1>2, <3>2, ReadCases DEF CallNand, Returned, KeepsBlock, Media, Cache
      <3> HIDE DEF size
      <3> QED
        BY <1>1, <3>1, <3>2 DEF Read
    <2>2. doubt' = IF doubt = "none" /\ result'.val < 0 THEN "call" ELSE doubt
      <3> HIDE DEF size
      <3> QED
        BY <1>1 DEF Read, CallNand, CallNor, Returned
    <2>3. config.medium \in {"nand", "nor"}
      BY FlashBootAssumption DEF Media
    <2> QED
      BY <1>4, <2>1, <2>2, <2>3
  <1>6. /\ Position = got /\ at = BlobStart + got /\ got + left = BlobSize
        /\ BlobLoaded(got)
    BY <1>1, <1>4, <1>5 DEF BlobProgress
  <1>7. OnMedium(size)
    <2> DEFINE end == Cardinality(GoodBlocks) * pagesPerBlock * pageSizeBytes
    <2>1. end \in Int /\ BlobSize <= end /\ Extent = 0 .. end - 1
      BY GoodBlocksFinite, NandAssumption DEF BlobFits, Extent, FlashSize
    <2>2. BlobSize \in Nat
      BY FlashBootAssumption DEF BlobSize
    <2> HIDE DEF end, size, left, got, at
    <2>3. got + size - 1 \in 0 .. end - 1
      BY <1>2, <1>6, <2>1, <2>2
    <2> QED
      BY <1>6, <2>1, <2>3 DEF OnMedium
  <1>8. /\ Position' = got + size
        /\ result'.bytes = [i \in 1 .. size |-> got + i - 1]
    <2> HIDE DEF size
    <2> QED
      BY <1>1, <1>2, <1>4, <1>5, <1>6, <1>7, SureRead
  <1>10. \A i \in 0 .. blob'.bytesRead - 1 : memory'[BlobStart + i] = i
    <2>1. got + size <= BlobSize
      <3> HIDE DEF size, left, got
      <3> QED
        BY <1>2, <1>6
    <2> DEFINE b == result'.bytes
               read == blob'.bytesRead
    <2>2. Store(at, b) /\ read = got + size /\ b = [i \in 1 .. size |-> got + i - 1]
      BY <1>1, <1>8
    <2> HIDE DEF size, got, at, b, read
    <2>3. Store(at, b) /\ read = got + size
      BY <2>2
    <2>4. /\ size \in Nat \ {0} /\ got \in Nat /\ at = BlobStart + got /\ BlobLoaded(got)
          /\ b = [i \in 1 .. size |-> got + i - 1]
      BY <1>2, <1>6, <2>2
    <2>5. \A i \in 0 .. read - 1 : memory'[BlobStart + i] = i
      BY <1>2, <2>1, <2>3, <2>4, BlobFits, StoredBytes
    <2> QED
      BY <2>5 DEF read
  <1>11. BlobStart \in Nat /\ BlobSize \in Nat
    BY FlashBootAssumption DEF BlobStart, BlobSize
  <1>12. blob'.bytesRead = got + size /\ blob'.datap = at + size /\ blob'.remainSize = left - size
    BY <1>1
  <1>13. at + size = BlobStart + (got + size) /\ (got + size) + (left - size) = BlobSize
    <2> HIDE DEF size, left, got, at
    <2> QED
      BY <1>2, <1>6, <1>11
  <1> QED
    BY <1>8, <1>10, <1>12, <1>13

LEMMA BlobDoneStep ==
    ASSUME Media, Control, BlobProgress, BlobDone
    PROVE  BlobProgress'
  <1>1. /\ pc = "blob" /\ pc' = "close" /\ config' = config /\ blob.remainSize = 0
        /\ UNCHANGED <<memory, doubt>>
    BY DEF BlobDone, LoaderReturns, callVars, loaderVars
  <1>2. Reporting' = Reporting
    BY <1>1 DEF Reporting
  <1>3. blob.bytesRead \in Nat
    BY DEF Control
  <1>4. config.format = "bblob" /\ doubt = "none" /\ Reporting => BlobLoaded(BlobSize)
    <2>1. blob.bytesRead + 0 = blob.bytesRead
      BY <1>3
    <2> QED
      BY <1>1, <2>1 DEF BlobProgress
  <1> QED
    BY <1>1, <1>2, <1>4 DEF BlobProgress, BlobLoaded

\* A blob that fits the memory and the flash is in memory, from its first byte to its
\* last, when it is jumped to and no call failed (blob.c, which looks at no result).
THEOREM BlobIsLoaded ==
    ASSUME BlobFits
    PROVE  Spec => []BlobImageLoaded
  <1>1. FlashInv /\ BlobProgress /\ [Next]_vars => BlobProgress'
    BY BlobOtherSteps, BlobReadStep, BlobDoneStep DEF FlashInv
  <1>2. BlobProgress => BlobImageLoaded
    BY DEF BlobProgress, BlobImageLoaded, BlobLoaded, BlobStart, BlobSize
  <1> QED
    BY <1>1, <1>2, BlobProgressInit, FlashInvariant, PTL DEF Spec
-----------------------------------------------------------------------------
(* The script.                                                             *)

\* The parser has come to word k, in the command at m or about to read it.
InCommand(m, k) ==
    \/ k = m /\ bis.todo = <<"command">>
    \/ /\ m < k
       /\ Len(bis.todo) = m + 1 + Len(Operands(m)) - k
       /\ \A i \in DOMAIN bis.todo : bis.todo[i] = Operands(m)[k - m + i - 1]
       /\ \A i \in m .. k - 1 :
              Script[i].field # "payload" => bis.reg[Script[i].field] = Script[i].value

LoadedBefore(k) == \A n \in Loads : Payload(n) < k => IsInPlace(LoadOf(n))

RecordedBefore(m) ==
    \A n \in FunctionLoads : n < m =>
        /\ LoadedNumber(n) \in 0 .. MAX_BIS_FUNCTION_SUPPORT - 1
        /\ fn_table[LoadedNumber(n)] = LoadAddress(n)

Parsing(m, k) ==
    /\ k \in DOMAIN Script => Position = Script[k].at
    /\ InCommand(m, k)
    /\ LoadedBefore(k)
    /\ RecordedBefore(m)

\* The start of the file, or, because nor_peek moves, where the header ends.
AtStart == Position = 0 \/ (config.medium = "nor" /\ Position = HeaderSize)

EveryCommand == Commands(BisCommands)

\* How far the script has come.
Progress ==
    /\ pc \in {"start", "detect", "detected", "bis"} =>
           entry = 0 /\ (config.medium = "nand" => doubt = "none")
    /\ pc \in {"start", "detect"} => Position = 0
    /\ pc = "detected" => AtStart
    /\ pc = "bis" => \/ bis.todo = <<"magic">> /\ AtStart
                     \/ \E m \in EveryCommand : \E k \in m .. Len(Script) + 1 : Parsing(m, k)
    /\ pc \in {"close", "jumped"} /\ entry # 0 =>
           entry = EntryPoint /\ \A n \in Loads : IsInPlace(LoadOf(n))
    /\ pc = "jumped" => entry # 0

Sure == Reporting /\ doubt # "open"

ScriptProgress ==
    IF config.format = "bblob"
    THEN pc \in {"idle", "start", "blob", "close", "jumped"}
    ELSE pc # "blob" /\ (Sure => Progress)

-----------------------------------------------------------------------------

LEMMA MemberType ==
    ASSUME NEW S, NEW s \in Seq(S), NEW k \in DOMAIN s
    PROVE  s[k] \in S
  OBVIOUS

LEMMA ScriptTypes ==
    /\ Len(Script) \in Nat /\ DOMAIN Script = 1 .. Len(Script)
    /\ \A k \in DOMAIN Script :
           /\ Script[k].at \in Nat /\ Script[k].field \in BisWords /\ Script[k].value \in Nat
  <1>1. Script \in Seq([at : Nat, field : BisWords, value : Nat])
    BY ScriptAssumption
  <1>2. Len(Script) \in Nat /\ DOMAIN Script = 1 .. Len(Script)
    BY <1>1
  <1>3. \A k \in DOMAIN Script : Script[k] \in [at : Nat, field : BisWords, value : Nat]
    <2> DEFINE Words == [at : Nat, field : BisWords, value : Nat]
    <2>1. Script \in Seq(Words)
      BY <1>1
    <2> HIDE DEF Words
    <2>2. \A k \in DOMAIN Script : Script[k] \in Words
      BY <2>1, MemberType
    <2> QED
      BY <2>2 DEF Words
  <1> QED
    BY <1>2, <1>3

\* The operand lists as they are written, one per command.
LEMMA OperandLists ==
    /\ BisOperands(BIS_CMD_SECTION_LOAD)
          = <<"loadAddress", "sectionSize", "commandFlags", "payload">>
    /\ BisOperands(BIS_CMD_FUNCTION_LOAD)
          = <<"loadAddress", "sectionSize", "commandFlags", "argCnt", "fn_num", "payload">>
    /\ BisOperands(BIS_CMD_FUNCTION_EXEC) = <<"argCnt", "fn_num">>
    /\ BisOperands(BIS_CMD_MEMORY_ACCESS)
          = <<"loadAddress", "argCnt", "op_type", "mask", "sleep_cnt", "dataWord">>
    /\ BisOperands(BIS_CMD_SECTION_TERMINATE) = <<"dataWord">>
  BY BisAssumption DEF BisOperands

\* The operands of a command have names of their own, and a payload ends a load.
NamesApart(ops, loads) ==
    /\ Len(ops) \in Nat \ {0} /\ DOMAIN ops = 1 .. Len(ops)
    /\ \A i \in 1 .. Len(ops) :
           /\ ops[i] \notin {"magic", "command"} /\ ops[i] \in BisWords
           /\ ops[i] = "payload" <=> (i = Len(ops) /\ loads)
           /\ \A j \in 1 .. Len(ops) : ops[i] = ops[j] => i = j

LEMMA OperandNames ==
    ASSUME NEW c \in BisCommands
    PROVE  NamesApart(BisOperands(c), c \in {BIS_CMD_SECTION_LOAD, BIS_CMD_FUNCTION_LOAD})
  <1> USE DEF NamesApart, BisWords, BisFieldNames
  <1>1. NamesApart(<<"loadAddress", "sectionSize", "commandFlags", "payload">>, TRUE)
    OBVIOUS
  <1>2. NamesApart(<<"loadAddress", "sectionSize", "commandFlags", "argCnt", "fn_num", "payload">>,
                   TRUE)
    OBVIOUS
  <1>3. NamesApart(<<"argCnt", "fn_num">>, FALSE)
    OBVIOUS
  <1>4. NamesApart(<<"loadAddress", "argCnt", "op_type", "mask", "sleep_cnt", "dataWord">>, FALSE)
    OBVIOUS
  <1>5. NamesApart(<<"dataWord">>, FALSE)
    OBVIOUS
  <1> HIDE DEF NamesApart
  <1> DEFINE loads == c \in {BIS_CMD_SECTION_LOAD, BIS_CMD_FUNCTION_LOAD}
  <1>6. CASE c = BIS_CMD_SECTION_LOAD
    <2>1. loads = TRUE
      BY <1>6
    <2> QED
      BY <1>1, <1>6, <2>1, OperandLists
  <1>7. CASE c = BIS_CMD_FUNCTION_LOAD
    <2>1. loads = TRUE
      BY <1>7
    <2> QED
      BY <1>2, <1>7, <2>1, OperandLists
  <1>8. CASE c = BIS_CMD_FUNCTION_EXEC
    <2>1. loads = FALSE
      BY <1>8, BisAssumption
    <2> QED
      BY <1>3, <1>8, <2>1, OperandLists
  <1>9. CASE c = BIS_CMD_MEMORY_ACCESS
    <2>1. loads = FALSE
      BY <1>9, BisAssumption
    <2> QED
      BY <1>4, <1>9, <2>1, OperandLists
  <1>10. CASE c = BIS_CMD_SECTION_TERMINATE
    <2>1. loads = FALSE
      BY <1>10, BisAssumption
    <2> QED
      BY <1>5, <1>10, <2>1, OperandLists
  <1> QED
    BY <1>6, <1>7, <1>8, <1>9, <1>10 DEF BisCommands

\* A command and the words behind it.
LEMMA CommandWords ==
    ASSUME NEW m \in EveryCommand
    PROVE  /\ m \in Nat /\ m >= 2 /\ m \in DOMAIN Script
           /\ Script[m].field = "command" /\ Script[m].value \in BisCommands
           /\ NamesApart(Operands(m), m \in Loads)
           /\ m + Len(Operands(m)) <= Len(Script)
           /\ \A i \in 1 .. Len(Operands(m)) :
                  m + i \in DOMAIN Script /\ Script[m + i].field = Operands(m)[i]
           /\ IF Script[m].value = BIS_CMD_SECTION_TERMINATE
              THEN m + 1 = Len(Script)
              ELSE m + Len(Operands(m)) + 1 \in EveryCommand
  <1>1. m \in DOMAIN Script /\ Script[m].field = "command" /\ Script[m].value \in BisCommands
    BY DEF EveryCommand, Commands
  <1>2. Script[1].field = "magic"
    BY ScriptAssumption DEF WrittenAsTold
  <1>3. m \in Nat /\ m >= 2
    BY <1>1, <1>2, ScriptTypes
  <1>4. m \in Loads <=> Script[m].value \in {BIS_CMD_SECTION_LOAD, BIS_CMD_FUNCTION_LOAD}
    BY <1>1 DEF Loads, Commands
  <1>5. NamesApart(Operands(m), m \in Loads)
    <2>1. NamesApart(BisOperands(Script[m].value),
                     Script[m].value \in {BIS_CMD_SECTION_LOAD, BIS_CMD_FUNCTION_LOAD})
      BY <1>1, OperandNames
    <2>2. (m \in Loads) = (Script[m].value \in {BIS_CMD_SECTION_LOAD, BIS_CMD_FUNCTION_LOAD})
      BY <1>4
    <2> QED
      BY <2>1, <2>2 DEF Operands
  <1>6. /\ m + Len(Operands(m)) <= Len(Script)
        /\ \A i \in 1 .. Len(Operands(m)) : Script[m + i].field = Operands(m)[i]
        /\ IF Script[m].value = BIS_CMD_SECTION_TERMINATE
           THEN m + 1 = Len(Script)
           ELSE m + Len(Operands(m)) + 1 \in EveryCommand
    BY <1>1, ScriptAssumption DEF Grammatical, EveryCommand
  <1>7. Len(Operands(m)) \in Nat
    BY <1>5 DEF NamesApart
  <1>8. \A i \in 1 .. Len(Operands(m)) : m + i \in DOMAIN Script
    <2> SUFFICES ASSUME NEW i \in 1 .. Len(Operands(m))
                 PROVE  m + i \in 1 .. Len(Script)
      BY ScriptTypes
    <2> DEFINE n == Len(Operands(m))
               last == Len(Script)
    <2>1. n \in Nat /\ last \in Nat /\ m + n <= last /\ i \in 1 .. n /\ m \in Nat
      BY <1>3, <1>6, <1>7, ScriptTypes
    <2> HIDE DEF n, last
    <2>2. m + i \in 1 .. last
      BY <2>1
    <2> QED
      BY <2>2 DEF last
  <1> QED
    BY <1>1, <1>3, <1>5, <1>6, <1>8

LEMMA CommandsApart ==
    ASSUME NEW m \in EveryCommand, NEW n \in EveryCommand, n < m
    PROVE  n + Len(Operands(n)) < m
  <1>1. m \in Nat /\ n \in Nat /\ Script[m].field = "command"
    BY CommandWords
  <1>2. Len(Operands(n)) \in Nat
    BY CommandWords DEF NamesApart
  <1>3. ASSUME m <= n + Len(Operands(n)) PROVE FALSE
    <2>1. m - n \in 1 .. Len(Operands(n)) /\ n + (m - n) = m
      BY <1>1, <1>2, <1>3
    <2>2. Script[n + (m - n)].field = Operands(n)[m - n]
      BY <2>1, CommandWords
    <2>3. Operands(n)[m - n] # "command"
      BY <2>1, CommandWords DEF NamesApart
    <2> QED
      BY <1>1, <2>1, <2>2, <2>3
  <1> QED
    BY <1>1, <1>2, <1>3

LEMMA CommandKinds ==
    /\ Loads \subseteq EveryCommand /\ FunctionLoads \subseteq Loads
    /\ FunctionExecs \subseteq EveryCommand
    /\ 2 \in EveryCommand
  BY ScriptAssumption DEF Loads, FunctionLoads, FunctionExecs, EveryCommand, Commands, BisCommands,
     Grammatical

\* Where what is loaded comes from and goes to.
LEMMA LoadWords ==
    ASSUME NEW m \in Loads
    PROVE  /\ Payload(m) \in DOMAIN Script /\ Payload(m) \in Nat /\ Payload(m) > m + 2
           /\ Script[Payload(m)].field = "payload"
           /\ Script[m + 1].field = "loadAddress" /\ Script[m + 2].field = "sectionSize"
           /\ LoadAddress(m) \in Nat /\ SectionSize(m) \in Nat \ {0}
           /\ Script[Payload(m)].value = SectionSize(m)
           /\ LoadAddress(m) + SectionSize(m) <= MemoryLen
           /\ LoadOf(m).address = LoadAddress(m) /\ LoadOf(m).size = SectionSize(m)
           /\ LoadOf(m).position = Script[Payload(m)].at
  <1>1. m \in EveryCommand /\ m \in Nat
    BY CommandKinds, CommandWords
  <1>2. Script[m].value \in {BIS_CMD_SECTION_LOAD, BIS_CMD_FUNCTION_LOAD}
    BY DEF Loads, Commands
  <1>3. /\ Len(Operands(m)) \in Nat /\ Len(Operands(m)) > 2
        /\ Operands(m)[1] = "loadAddress" /\ Operands(m)[2] = "sectionSize"
    <2>1. CASE Script[m].value = BIS_CMD_SECTION_LOAD
      BY <2>1, OperandLists DEF Operands
    <2>2. CASE Script[m].value = BIS_CMD_FUNCTION_LOAD
      BY <2>2, OperandLists DEF Operands
    <2> QED
      BY <1>2, <2>1, <2>2
  <1>4. Operands(m)[Len(Operands(m))] = "payload"
    <2>1. (m \in Loads) = TRUE
      OBVIOUS
    <2>2. NamesApart(Operands(m), m \in Loads)
      BY <1>1, CommandWords
    <2>3. NamesApart(Operands(m), TRUE)
      BY <2>1, <2>2
    <2>4. Len(Operands(m)) \in 1 .. Len(Operands(m))
      BY <1>3
    <2>5. Operands(m)[Len(Operands(m))] = "payload"
             <=> (Len(Operands(m)) = Len(Operands(m)) /\ TRUE)
      BY <2>3, <2>4, Zenon DEF NamesApart
    <2> QED
      BY <2>5
  <1>5. \A i \in 1 .. Len(Operands(m)) :
            m + i \in DOMAIN Script /\ Script[m + i].field = Operands(m)[i]
    BY <1>1, CommandWords
  <1>6. /\ Script[m + 1].field = "loadAddress" /\ Script[m + 2].field = "sectionSize"
        /\ Script[m + Len(Operands(m))].field = "payload"
        /\ m + 1 \in DOMAIN Script /\ m + 2 \in DOMAIN Script
        /\ m + Len(Operands(m)) \in DOMAIN Script
    BY <1>3, <1>4, <1>5
  <1>7. Script[Payload(m)].value > 0
    BY <1>6, ScriptAssumption DEF Payload, WrittenAsTold
  <1>8. /\ Script[Payload(m)].value = SectionSize(m)
        /\ LoadAddress(m) + SectionSize(m) <= MemoryLen
    BY ScriptAssumption DEF Sensible
  <1>9. LoadAddress(m) \in Nat /\ SectionSize(m) \in Nat
    BY <1>6, ScriptTypes DEF LoadAddress, SectionSize
  <1>10. Payload(m) \in Nat /\ Payload(m) > m + 2
    BY <1>1, <1>3 DEF Payload
  <1> QED
    BY <1>6, <1>7, <1>8, <1>9, <1>10 DEF LoadOf, Payload

-----------------------------------------------------------------------------
(* What a read of the script gives, and where a payload goes.              *)

LEMMA ReadDoubt ==
    ASSUME NEW n, Read(n)
    PROVE  doubt' = IF doubt = "none" /\ result'.val < 0 THEN "call" ELSE doubt
  BY DEF Read, CallNand, CallNor, Returned

Reads(at, n, v) == \A u \in 0 .. n - 1 : UnitAt(at + u) = v

\* Units that all have one value are a field of that value.
LEMMA OneValue ==
    ASSUME NEW n \in Nat \ {0}, NEW at \in Nat, NEW v, v # Anything,
           Reads(at, n, v), NEW bytes, bytes = [i \in 1 .. n |-> at + i - 1]
    PROVE  FieldValues(bytes) = {v}
  <1> DEFINE values == {IF b = Damaged THEN Anything ELSE UnitAt(b) : b \in Range(bytes)}
  <1>1. \A b \in Range(bytes) : b # Damaged /\ UnitAt(b) = v
    <2> SUFFICES ASSUME NEW i \in 1 .. n
                 PROVE  at + i - 1 # Damaged /\ UnitAt(at + i - 1) = v
      BY DEF Range
    <2>1. i - 1 \in 0 .. n - 1 /\ at + i - 1 \in Nat
      OBVIOUS
    <2>2. UnitAt(at + (i - 1)) = v
      BY <2>1, Zenon DEF Reads
    <2> QED
      BY <2>1, <2>2 DEF Damaged
  <1>2. at \in Range(bytes)
    <2>1. 1 \in 1 .. n /\ at + 1 - 1 = at
      OBVIOUS
    <2>2. 1 \in DOMAIN bytes /\ bytes[1] = at
      BY <2>1
    <2> QED
      BY <2>2 DEF Range
  <1>3. values = {v}
    BY <1>1, <1>2
  <1>4. Cardinality(values) = 1 /\ Anything \notin values
    BY <1>3, FS_Singleton
  <1> QED
    BY <1>3, <1>4 DEF FieldValues

\* What makes a read of n units from a position of the script one of the file.
LEMMA SureReadAt ==
    ASSUME Media, config' = config, Sure, NEW n \in Nat \ {0}, Read(n), result'.val = 0,
           config.medium = "nand" => doubt = "none",
           NEW at \in Nat, Position = at, at + n <= FlashSize
    PROVE  /\ Position' = at + n
           /\ result'.bytes = [i \in 1 .. n |-> at + i - 1]
           /\ doubt' = doubt
  <1>1. doubt' = doubt
    BY ReadDoubt
  <1>2. at + n - 1 \in Extent
    <2>1. FlashSize \in Int
      BY GoodBlocksFinite, NandAssumption DEF FlashSize
    <2> QED
      BY <2>1 DEF Extent
  <1>3. OnMedium(n)
    BY <1>2 DEF OnMedium
  <1> QED
    BY <1>1, <1>3, SureRead DEF Sure

\* A word the parser is at is read as it was written.
LEMMA ReadWord ==
    ASSUME Media, config' = config, Sure, config.medium = "nand" => doubt = "none",
           NEW k \in DOMAIN Script, Script[k].field # "payload",
           NEW n, n = BisWidth(Script[k].field),
           Read(n), result'.val = 0,
           Position = Script[k].at
    PROVE  /\ FieldValues(result'.bytes) = {Script[k].value}
           /\ k + 1 \in DOMAIN Script => Position' = Script[k + 1].at
           /\ doubt' = doubt
  <1> DEFINE at == Script[k].at
             v == Script[k].value
  <1>1. /\ k < Len(Script) => Script[k + 1].at = at + Units(Script[k])
        /\ at + Units(Script[k]) <= FlashSize
        /\ v # Anything
        /\ \A u \in 0 .. Units(Script[k]) - 1 : UnitAt(at + u) = v
    BY ScriptAssumption DEF WrittenAsTold
  <1>2. Units(Script[k]) = n /\ n \in Nat \ {0}
    BY DEF Units, BisWidth
  <1>3. at \in Nat
    BY ScriptTypes
  <1>4. k + 1 \in DOMAIN Script => k < Len(Script)
    BY ScriptTypes
  <1> HIDE DEF at, v
  <1>5. /\ at + n <= FlashSize /\ Position = at
        /\ Reads(at, n, v)
    BY <1>1, <1>2 DEF at, Reads
  <1>6. /\ Position' = at + n /\ doubt' = doubt
        /\ result'.bytes = [i \in 1 .. n |-> at + i - 1]
    BY <1>2, <1>3, <1>5, SureReadAt
  <1>7. FieldValues(result'.bytes) = {v}
    <2>1. ASSUME NEW b, b = [i \in 1 .. n |-> at + i - 1]
          PROVE  FieldValues(b) = {v}
      <3>1. v # Anything /\ n \in Nat \ {0} /\ Reads(at, n, v)
        BY <1>1, <1>2, <1>5
      <3> QED
        BY SMTT(30), <1>3, <2>1, <3>1, OneValue
    <2> QED
      BY <1>6, <2>1, Zenon
  <1> QED
    BY <1>1, <1>2, <1>4, <1>6, <1>7 DEF v

\* What is stored is there.
LEMMA StoredPayload ==
    ASSUME NEW address \in Nat, NEW n \in Nat \ {0}, address + n <= MemoryLen,
           NEW at \in Nat, NEW bytes, bytes = [i \in 1 .. n |-> at + i - 1],
           Store(address, bytes)
    PROVE  \A i \in 0 .. n - 1 : memory'[address + i] = at + i
  <1> SUFFICES ASSUME NEW i \in 0 .. n - 1, NEW a, a = address + i
               PROVE  memory'[a] = at + i
    OBVIOUS
  <1>0. MemoryLen \in Nat
    BY FlashBootAssumption
  <1>1. Len(bytes) = n
    OBVIOUS
  <1>2. a \in 0 .. MemoryLen - 1 /\ a \in address .. address + n - 1
    BY <1>0
  <1>3. a \in address .. address + Len(bytes) - 1
    BY <1>1, <1>2
  <1>4. memory'[a] = bytes[a - address + 1]
    BY <1>2, <1>3, Zenon DEF Store
  <1>5. a - address + 1 = i + 1 /\ i + 1 \in 1 .. n /\ at + (i + 1) - 1 = at + i
    OBVIOUS
  <1>6. bytes[i + 1] = at + (i + 1) - 1
    BY <1>5
  <1> QED
    BY <1>4, <1>5, <1>6

\* Nothing else changes.
LEMMA StoredElsewhere ==
    ASSUME NEW address, NEW bytes, Store(address, bytes),
           NEW a \in 0 .. MemoryLen - 1, a \notin address .. address + Len(bytes) - 1
    PROVE  memory'[a] = memory[a]
  BY Zenon DEF Store

-----------------------------------------------------------------------------
(* The parser.                                                             *)

\* Before the first load nothing has to be loaded.
LEMMA NothingBefore ==
    ASSUME NEW k \in 1 .. 2
    PROVE  LoadedBefore(k) /\ RecordedBefore(k)
  <1>1. \A n \in Loads : n >= 2 /\ n \in Nat /\ Payload(n) \in Nat /\ Payload(n) > n + 2
    BY CommandKinds, CommandWords, LoadWords
  <1>2. \A n \in Loads : ~(Payload(n) < k) /\ ~(n < k)
    BY <1>1
  <1> QED
    BY <1>2, CommandKinds DEF LoadedBefore, RecordedBefore

\* A word that is no payload loads nothing.
LEMMA NothingLoaded ==
    ASSUME NEW k \in Nat, LoadedBefore(k), Script[k].field # "payload"
    PROVE  LoadedBefore(k + 1)
  <1> SUFFICES ASSUME NEW n \in Loads, Payload(n) < k + 1
               PROVE  Payload(n) < k
    BY DEF LoadedBefore
  <1>1. Payload(n) \in Nat /\ Script[Payload(n)].field = "payload"
    BY LoadWords
  <1> QED
    BY <1>1

\* From one command to the next no function is loaded but by the first.
LEMMA NextCommand ==
    ASSUME NEW m \in EveryCommand, Script[m].value # BIS_CMD_SECTION_TERMINATE,
           NEW k, k = m + Len(Operands(m)) + 1
    PROVE  /\ k \in EveryCommand /\ k \in DOMAIN Script
           /\ \A n \in FunctionLoads : n < k => n < m \/ n = m
  <1>1. k \in EveryCommand
    BY CommandWords
  <1>2. m \in Nat /\ k \in DOMAIN Script /\ Len(Operands(m)) \in Nat
    BY <1>1, CommandWords DEF NamesApart
  <1>3. ASSUME NEW n \in FunctionLoads, n < k, ~(n < m), n # m
        PROVE  FALSE
    <2>1. n \in EveryCommand /\ n \in Nat
      BY CommandKinds, CommandWords
    <2>2. m + Len(Operands(m)) < n
      <3>1. m < n
        BY <1>2, <1>3, <2>1
      <3> QED
        BY <2>1, <3>1, CommandsApart
    <2> DEFINE l == Len(Operands(m))
    <2>3. l \in Nat /\ m + l < n /\ n < m + l + 1
      BY <1>2, <1>3, <2>2
    <2> HIDE DEF l
    <2> QED
      BY <1>2, <2>1, <2>3
  <1> QED
    BY <1>1, <1>2, <1>3

\* The parser when a word is due.
LEMMA WordDue ==
    ASSUME Control, NEW m \in EveryCommand, NEW k \in m .. Len(Script) + 1,
           InCommand(m, k), m < k, bis.todo # << >>
    PROVE  /\ k \in DOMAIN Script /\ k - m \in 1 .. Len(Operands(m)) /\ m + (k - m) = k
           /\ k \in Nat
           /\ BisField = Operands(m)[k - m] /\ BisField = Script[k].field
           /\ BisField \notin {"magic", "command"}
  <1>1. /\ m \in Nat /\ Len(Operands(m)) \in Nat /\ Len(Script) \in Nat
        /\ m + Len(Operands(m)) <= Len(Script) /\ NamesApart(Operands(m), m \in Loads)
        /\ m \in DOMAIN Script
    BY CommandWords, ScriptTypes DEF NamesApart
  <1>2. bis.todo \in Seq(BisWords)
    BY DEF Control
  <1>3. /\ Len(bis.todo) \in Nat /\ Len(bis.todo) >= 1 /\ 1 \in DOMAIN bis.todo
        /\ BisField = bis.todo[1]
    BY <1>2 DEF BisField
  <1>4. m # k /\ k \in Nat
    BY <1>1
  <1>5. /\ Len(bis.todo) = m + 1 + Len(Operands(m)) - k
        /\ bis.todo[1] = Operands(m)[k - m + 1 - 1]
    BY <1>3, <1>4 DEF InCommand
  <1> DEFINE l == Len(Operands(m))
             left == Len(bis.todo)
  <1>6. left = m + 1 + l - k /\ left >= 1 /\ left \in Nat /\ l \in Nat
    BY <1>1, <1>3, <1>5
  <1> HIDE DEF l, left
  <1>7. k - m \in 1 .. l /\ m + (k - m) = k /\ k - m + 1 - 1 = k - m
    BY <1>1, <1>4, <1>6
  <1>8. BisField = Operands(m)[k - m]
    BY <1>3, <1>5, <1>7
  <1>9. m + (k - m) \in DOMAIN Script /\ Script[m + (k - m)].field = Operands(m)[k - m]
    BY <1>7, CommandWords DEF l
  <1>10. Operands(m)[k - m] \notin {"magic", "command"}
    BY <1>1, <1>7 DEF l, NamesApart
  <1> QED
    BY <1>4, <1>7, <1>8, <1>9, <1>10 DEF l

LEMMA StoredParts ==
    ASSUME Control, NEW value
    PROVE  /\ BisStore(bis, value).todo =
                 CASE BisField = "magic" -> <<"command">>
                   [] BisField = "command" -> BisOperands(value)
                   [] OTHER -> Tail(bis.todo)
           /\ BisStore(bis, value).reg = [bis.reg EXCEPT ![BisField] = value]
  BY DEF BisStore, BisField

\* The command read is followed by its operands.
LEMMA CommandStored ==
    ASSUME Control, NEW m \in EveryCommand, BisField = "command",
           bis' = BisStore(bis, Script[m].value)
    PROVE  InCommand(m, m + 1)'
  <1>1. m \in Nat /\ Script[m].field = "command" /\ NamesApart(Operands(m), m \in Loads)
    BY SMTT(60), CommandWords
  <1>2. Len(Operands(m)) \in Nat /\ DOMAIN Operands(m) = 1 .. Len(Operands(m))
    BY <1>1 DEF NamesApart
  <1>3. bis'.todo = Operands(m) /\ bis'.reg = [bis.reg EXCEPT !["command"] = Script[m].value]
    BY StoredParts DEF Operands
  <1>4. bis'.reg["command"] = Script[m].value
    BY <1>3 DEF Control, BisFieldNames
  <1>5. \A i \in m .. (m + 1) - 1 :
            Script[i].field # "payload" => bis'.reg[Script[i].field] = Script[i].value
    <2> SUFFICES ASSUME NEW i \in m .. (m + 1) - 1
                 PROVE  i = m
      BY <1>1, <1>4
    <2> QED
      BY <1>1
  <1>6. \A i \in DOMAIN bis'.todo : bis'.todo[i] = Operands(m)[(m + 1) - m + i - 1]
    <2> SUFFICES ASSUME NEW i \in 1 .. Len(Operands(m))
                 PROVE  (m + 1) - m + i - 1 = i
      BY <1>2, <1>3
    <2> QED
      BY <1>1, <1>2
  <1>7. m < m + 1 /\ Len(bis'.todo) = m + 1 + Len(Operands(m)) - (m + 1)
    BY <1>1, <1>2, <1>3
  <1> QED
    BY <1>5, <1>6, <1>7 DEF InCommand

\* An operand read leaves the others to be read.
LEMMA OperandStored ==
    ASSUME Control, NEW m \in EveryCommand, NEW k \in m .. Len(Script) + 1,
           InCommand(m, k), m < k, bis.todo # << >>, BisField # "payload",
           bis' = BisStore(bis, Script[k].value)
    PROVE  InCommand(m, k + 1)'
  <1>1. /\ k \in DOMAIN Script /\ k - m \in 1 .. Len(Operands(m)) /\ m + (k - m) = k
        /\ k \in Nat
        /\ BisField = Operands(m)[k - m] /\ BisField = Script[k].field
        /\ BisField \notin {"magic", "command"}
    BY WordDue
  <1>2. /\ m \in Nat /\ m >= 2
        /\ Script[m].field = "command" /\ NamesApart(Operands(m), m \in Loads)
        /\ Len(Operands(m)) \in Nat
        /\ \A i \in 1 .. Len(Operands(m)) : Script[m + i].field = Operands(m)[i]
    BY CommandWords DEF NamesApart
  <1>3. /\ Len(bis.todo) = m + 1 + Len(Operands(m)) - k
        /\ \A i \in DOMAIN bis.todo : bis.todo[i] = Operands(m)[k - m + i - 1]
        /\ \A i \in m .. k - 1 :
              Script[i].field # "payload" => bis.reg[Script[i].field] = Script[i].value
    BY <1>1, <1>2 DEF InCommand
  <1>4. bis'.todo = Tail(bis.todo) /\ bis'.reg = [bis.reg EXCEPT ![BisField] = Script[k].value]
    BY <1>1, StoredParts
  <1>5. bis.todo \in Seq(BisWords) /\ bis.reg \in [BisFieldNames -> Nat] /\ bis.todo # << >>
    BY DEF Control
  <1>6. /\ Len(bis'.todo) = Len(bis.todo) - 1 /\ Len(bis.todo) \in Nat
        /\ \A i \in DOMAIN bis'.todo : i \in Nat /\ i + 1 \in DOMAIN bis.todo
                                       /\ bis'.todo[i] = bis.todo[i + 1]
    <2>1. PICK s \in Seq(BisWords) : s = bis.todo /\ s # << >>
      BY <1>5
    <2>2. /\ Len(Tail(s)) = Len(s) - 1 /\ Len(s) \in Nat
          /\ \A i \in DOMAIN Tail(s) : i \in Nat /\ i + 1 \in DOMAIN s /\ Tail(s)[i] = s[i + 1]
      BY <2>1
    <2> QED
      BY <1>4, <2>1, <2>2
  <1>7. \A i \in DOMAIN bis'.todo : bis'.todo[i] = Operands(m)[(k + 1) - m + i - 1]
    <2> SUFFICES ASSUME NEW i \in DOMAIN bis'.todo
                 PROVE  bis'.todo[i] = Operands(m)[(k + 1) - m + i - 1]
      OBVIOUS
    <2>1. /\ i \in Nat /\ i + 1 \in DOMAIN bis.todo /\ bis'.todo[i] = bis.todo[i + 1]
          /\ bis.todo[i + 1] = Operands(m)[k - m + (i + 1) - 1]
      BY <1>3, <1>6
    <2>2. k - m + (i + 1) - 1 = (k + 1) - m + i - 1
      BY SMTT(30), <1>1, <1>2, <2>1
    <2> QED
      BY <2>1, <2>2
  <1>8. \A i \in m .. (k + 1) - 1 :
            Script[i].field # "payload" => bis'.reg[Script[i].field] = Script[i].value
    <2> SUFFICES ASSUME NEW i \in m .. k, Script[i].field # "payload"
                 PROVE  bis'.reg[Script[i].field] = Script[i].value
      BY <1>1
    <2>1. Script[i].field \in BisFieldNames
      <3>1. i \in DOMAIN Script
        BY <1>1, <1>2, ScriptTypes
      <3> QED
        BY <3>1, ScriptTypes DEF BisWords
    <2>2. CASE i = k
      BY <1>1, <1>4, <1>5, <2>1, <2>2
    <2>3. CASE i # k
      <3>1. i \in m .. k - 1 /\ i \in Nat
        BY <1>1, <1>2, <2>3
      <3>2. Script[i].field # BisField
        <4>1. CASE i = m
          BY <1>1, <1>2, <4>1
        <4>2. CASE i # m
          <5>1. i - m \in 1 .. Len(Operands(m)) /\ m + (i - m) = i /\ i - m # k - m
            BY SMTT(30), <1>1, <1>2, <3>1, <4>2
          <5>2. Script[m + (i - m)].field = Operands(m)[i - m]
            BY <1>2, <5>1
          <5>3. Operands(m)[i - m] # Operands(m)[k - m]
            BY <1>1, <1>2, <5>1 DEF NamesApart
          <5> QED
            BY <1>1, <5>1, <5>2, <5>3
        <4> QED
          BY <4>1, <4>2
      <3>3. bis'.reg[Script[i].field] = bis.reg[Script[i].field]
        BY <1>4, <1>5, <2>1, <3>2
      <3> QED
        BY <1>3, <2>1, <3>1, <3>3
    <2> QED
      BY <2>2, <2>3
  <1>9. m < k + 1 /\ Len(bis'.todo) = m + 1 + Len(Operands(m)) - (k + 1)
    <2> DEFINE l == Len(Operands(m))
               left == Len(bis.todo)
               rest == Len(bis'.todo)
    <2>1. left = m + 1 + l - k /\ rest = left - 1 /\ left \in Nat /\ l \in Nat
      BY <1>2, <1>3, <1>6
    <2>0. m \in Nat /\ k \in Nat
      BY <1>1, <1>2
    <2> HIDE DEF l, left, rest
    <2>2. rest = m + 1 + l - (k + 1)
      BY SMTT(60), <2>0, <2>1
    <2> QED
      BY <1>1, <1>2, <2>2 DEF l, rest
  <1> QED
    BY <1>7, <1>8, <1>9 DEF InCommand

\* The parser stays in the script: what a step of it comes to.
LEMMA StaysInScript ==
    ASSUME pc' = "bis", entry' = 0, config.medium = "nand" => doubt' = "none",
           config' = config,
           NEW m \in EveryCommand, NEW k \in m .. Len(Script) + 1, Parsing(m, k)'
    PROVE  Progress'
  <1>1. \E i \in EveryCommand : \E j \in i .. Len(Script) + 1 : Parsing(i, j)'
    OBVIOUS
  <1> QED
    BY <1>1 DEF Progress

LEMMA LoaderGivesUp ==
    ASSUME LoaderReturns(0) \/ pc' = "astray"
    PROVE  Progress'
  BY DEF LoaderReturns, Progress

\* Reading the magic number.
LEMMA MagicProgress ==
    ASSUME Media, Control, config' = config, Sure, pc = "bis", entry = 0,
           config.medium = "nand" => doubt = "none",
           bis.todo = <<"magic">>, AtStart,
           Read(BisWidth("magic")), result'.val = 0,
           NEW value \in FieldValues(result'.bytes), ~BisRejects("magic", value),
           bis' = BisStore(bis, value), UNCHANGED <<pc, fn_table, blob, memory, entry>>
    PROVE  Progress'
  <1>1. /\ 1 \in DOMAIN Script /\ 2 \in DOMAIN Script /\ 2 \in EveryCommand
        /\ Script[2].field = "command" /\ Script[2].value \in BisCommands
        /\ 2 \in 2 .. Len(Script) + 1
    BY CommandKinds, CommandWords, ScriptTypes
  <1>2. /\ Script[1].at = 0 /\ Script[1].field = "magic" /\ Script[1].value = BIS_MAGIC_NUMBER
        /\ Script[2].at = Script[1].at + Units(Script[1])
    <2>1. 1 < Len(Script) /\ 1 + 1 = 2
      BY <1>1, ScriptTypes
    <2>2. /\ Script[1] = [at |-> 0, field |-> "magic", value |-> BIS_MAGIC_NUMBER]
          /\ 1 < Len(Script) => Script[1 + 1].at = Script[1].at + Units(Script[1])
      BY <1>1, ScriptAssumption DEF WrittenAsTold
    <2> QED
      BY <2>1, <2>2
  <1>3. Script[2].at = HeaderSize /\ BisWidth("magic") = BisWidth("command")
    <2>1. Units(Script[1]) = HeaderSize /\ HeaderSize \in Nat
      BY <1>2, ScriptAssumption DEF Units, BisWidth
    <2> QED
      BY <1>2, <2>1 DEF BisWidth
  <1>4. value = BIS_MAGIC_NUMBER
    BY DEF BisRejects
  <1>5. CASE Position = 0
    <2>1. /\ FieldValues(result'.bytes) = {BIS_MAGIC_NUMBER}
          /\ 2 \in DOMAIN Script => Position' = Script[2].at
          /\ doubt' = doubt
      <3>1. 1 + 1 = 2
        OBVIOUS
      <3> QED
        BY <1>1, <1>2, <1>5, <3>1, ReadWord
    <2>2. bis'.todo = <<"command">>
      <3>1. BisField = "magic"
        BY DEF BisField
      <3> QED
        BY <3>1, StoredParts
    <2>3. LoadedBefore(2)' /\ RecordedBefore(2)'
      <3>1. LoadedBefore(2) /\ RecordedBefore(2)
        BY NothingBefore
      <3> QED
        BY <3>1 DEF LoadedBefore, RecordedBefore, IsInPlace
    <2>4. Parsing(2, 2)'
      BY <1>1, <2>1, <2>2, <2>3 DEF Parsing, InCommand
    <2> QED
      BY <1>1, <2>1, <2>4, StaysInScript
  <1>6. CASE config.medium = "nor" /\ Position = HeaderSize
    <2>1. FieldValues(result'.bytes) = {Script[2].value}
      BY <1>1, <1>3, <1>6, ReadWord
    <2>2. value = Script[2].value
      BY <2>1
    <2> QED
      BY <1>1, <1>4, <2>2, BisAssumption
  <1> QED
    BY <1>5, <1>6 DEF AtStart

\* Reading a word of a command.
LEMMA WordProgress ==
    ASSUME Media, Control, config' = config, Sure, pc = "bis", entry = 0,
           config.medium = "nand" => doubt = "none",
           bis.todo # << >>, BisField # "payload",
           NEW m \in EveryCommand, NEW k \in m .. Len(Script) + 1, Parsing(m, k),
           Read(BisWidth(BisField)), result'.val = 0,
           NEW value \in FieldValues(result'.bytes),
           bis' = BisStore(bis, value), UNCHANGED <<pc, fn_table, blob, memory, entry>>
    PROVE  Progress'
  <1>1. m \in Nat /\ m \in DOMAIN Script /\ Script[m].field = "command"
    BY CommandWords
  <1>2. /\ k \in DOMAIN Script /\ k \in Nat /\ BisField = Script[k].field
        /\ InCommand(m, k + 1)' \/ value # Script[k].value
    <2>1. CASE m < k
      <3>1. k \in DOMAIN Script /\ k \in Nat /\ BisField = Script[k].field
        BY <2>1, WordDue DEF Parsing
      <3>2. value = Script[k].value => InCommand(m, k + 1)'
        BY <2>1, OperandStored DEF Parsing
      <3> QED
        BY <3>1, <3>2
    <2>2. CASE k = m
      <3>1. bis.todo = <<"command">>
        BY <1>1, <2>2 DEF Parsing, InCommand
      <3>2. BisField = "command"
        BY <3>1 DEF BisField
      <3>3. value = Script[m].value => InCommand(m, m + 1)'
        BY <3>2, CommandStored
      <3> QED
        BY <1>1, <2>2, <3>2, <3>3
    <2> QED
      BY <1>1, <2>1, <2>2
  <1>3. /\ FieldValues(result'.bytes) = {Script[k].value}
        /\ k + 1 \in DOMAIN Script => Position' = Script[k + 1].at
        /\ doubt' = doubt
    <2>1. Position = Script[k].at
      BY <1>2 DEF Parsing
    <2> QED
      BY <1>2, <2>1, ReadWord
  <1>4. InCommand(m, k + 1)'
    BY <1>2, <1>3
  <1>5. LoadedBefore(k + 1)' /\ RecordedBefore(m)'
    <2>1. LoadedBefore(k + 1) /\ RecordedBefore(m)
      BY <1>2, NothingLoaded DEF Parsing
    <2> QED
      BY <2>1 DEF LoadedBefore, RecordedBefore, IsInPlace
  <1>6. Parsing(m, k + 1)'
    BY <1>3, <1>4, <1>5 DEF Parsing
  <1>7. k + 1 \in m .. Len(Script) + 1
    BY <1>1, <1>2, ScriptTypes
  <1> QED
    BY <1>3, <1>6, <1>7, StaysInScript

LEMMA FieldProgress ==
    ASSUME Media, Control, config' = config, Sure, Progress, BisReadField
    PROVE  Progress'
  <1>1. /\ pc = "bis" /\ bis.todo # << >> /\ BisField # "payload" /\ Read(BisWidth(BisField))
        /\ entry = 0 /\ (config.medium = "nand" => doubt = "none")
    BY DEF BisReadField, Progress
  <1>2. CASE LoaderReturns(0)
    BY <1>2, LoaderGivesUp
  <1>3. ASSUME result'.val = 0, NEW value \in FieldValues(result'.bytes), TakeField(value)
        PROVE  Progress'
    <2>1. CASE LoaderReturns(0) \/ pc' = "astray"
      BY <2>1, LoaderGivesUp
    <2>2. CASE /\ ~BisRejects(BisField, value)
               /\ bis' = BisStore(bis, value)
               /\ UNCHANGED <<pc, fn_table, blob, memory, entry>>
      <3>1. CASE bis.todo = <<"magic">> /\ AtStart
        <4>1. BisField = "magic"
          BY <3>1 DEF BisField
        <4> QED
          BY <1>1, <1>3, <2>2, <3>1, <4>1, MagicProgress
      <3>2. ASSUME NEW m \in EveryCommand, NEW k \in m .. Len(Script) + 1, Parsing(m, k)
            PROVE  Progress'
        BY <1>1, <1>3, <2>2, <3>2, WordProgress
      <3> QED
        BY <1>1, <3>1, <3>2 DEF Progress
    <2> QED
      BY <1>3, <2>1, <2>2 DEF TakeField
  <1> QED
    BY <1>2, <1>3 DEF BisReadField

\* Reading a payload puts all of it in place, and disturbs nothing in place.
LEMMA PayloadProgress ==
    ASSUME Media, Control, config' = config, Sure, Progress, BisReadPayload
    PROVE  Progress'
  <1>1. /\ pc = "bis" /\ bis.todo # << >> /\ BisField = "payload"
        /\ Read(bis.reg.sectionSize) /\ Store(bis.reg.loadAddress, result'.bytes)
        /\ fn_table' = fn_table
        /\ entry = 0 /\ (config.medium = "nand" => doubt = "none")
    BY DEF BisReadPayload, Progress
  <1>2. CASE LoaderReturns(0)
    BY <1>2, LoaderGivesUp
  <1>3. CASE /\ result'.val = 0 /\ bis' = [bis EXCEPT !.todo = << >>] /\ UNCHANGED <<pc, entry>>
    <2>1. bis.todo # <<"magic">>
      BY <1>1 DEF BisField
    <2>0. PICK m \in EveryCommand : \E k \in m .. Len(Script) + 1 : Parsing(m, k)
      BY <1>1, <2>1 DEF Progress
    <2>2. PICK k \in m .. Len(Script) + 1 : Parsing(m, k)
      BY <2>0
    <2>3. m \in Nat /\ NamesApart(Operands(m), m \in Loads) /\ Len(Operands(m)) \in Nat
          /\ m \in DOMAIN Script
      BY CommandWords DEF NamesApart
    <2>4. m < k /\ InCommand(m, k)
      <3>1. k # m
        BY <1>1, <2>2, <2>3 DEF Parsing, InCommand, BisField
      <3> QED
        BY <2>2, <2>3, <3>1 DEF Parsing
    <2>5. /\ k \in DOMAIN Script /\ k - m \in 1 .. Len(Operands(m)) /\ m + (k - m) = k
          /\ k \in Nat /\ Operands(m)[k - m] = "payload"
      BY <1>1, <2>4, WordDue
    <2>6. k - m = Len(Operands(m)) /\ m \in Loads
      <3>1. Operands(m)[k - m] = "payload" <=> (k - m = Len(Operands(m)) /\ m \in Loads)
        BY <2>3, <2>5, Zenon DEF NamesApart
      <3> QED
        BY <2>5, <3>1
    <2>7. k = Payload(m)
      BY <2>3, <2>5, <2>6 DEF Payload
    <2> DEFINE address == LoadAddress(m)
               n == SectionSize(m)
               at == Script[k].at
    <2>8. /\ Script[m + 1].field = "loadAddress" /\ Script[m + 2].field = "sectionSize"
          /\ k > m + 2 /\ address \in Nat /\ n \in Nat \ {0} /\ Script[k].value = n
          /\ address + n <= MemoryLen /\ Script[k].field = "payload"
      BY <2>6, <2>7, LoadWords
    <2>9. /\ bis.reg.loadAddress = address /\ bis.reg.sectionSize = n
          /\ \A i \in m .. k - 1 :
                Script[i].field # "payload" => bis.reg[Script[i].field] = Script[i].value
      <3>1. \A i \in m .. k - 1 :
                Script[i].field # "payload" => bis.reg[Script[i].field] = Script[i].value
        BY <2>3, <2>4 DEF InCommand
      <3>2. m + 1 \in m .. k - 1 /\ m + 2 \in m .. k - 1
        BY SMTT(30), <2>3, <2>5, <2>8
      <3> QED
        BY <2>8, <3>1, <3>2 DEF LoadAddress, SectionSize
    <2>10. at \in Nat /\ Position = at /\ at + n <= FlashSize
           /\ (k < Len(Script) => Script[k + 1].at = at + n)
      BY <2>2, <2>5, <2>8, ScriptTypes, ScriptAssumption DEF Parsing, WrittenAsTold, Units
    <2>11. /\ Position' = at + n /\ doubt' = doubt
           /\ result'.bytes = [i \in 1 .. n |-> at + i - 1]
      <3> HIDE DEF n, at
      <3>1. Read(n)
        BY <1>1, <2>9
      <3> QED
        BY <1>1, <1>3, <2>8, <2>10, <3>1, SureReadAt
    <2>12. Store(address, result'.bytes)
      BY <1>1, <2>9
    <2>13. IsInPlace(LoadOf(m))'
      <3>1. ASSUME NEW b, b = [i \in 1 .. n |-> at + i - 1], Store(address, b)
            PROVE  \A i \in 0 .. n - 1 : memory'[address + i] = at + i
        <4> HIDE DEF address, n, at
        <4> QED
          BY <2>8, <2>10, <3>1, StoredPayload
      <3>2. \A i \in 0 .. n - 1 : memory'[address + i] = at + i
        BY <2>11, <2>12, <3>1
      <3>3. /\ LoadOf(m).address = address /\ LoadOf(m).size = n /\ LoadOf(m).position = at
        BY <2>6, <2>7, LoadWords
      <3> HIDE DEF address, n, at
      <3> QED
        BY <3>2, <3>3 DEF IsInPlace
    <2>14. ASSUME NEW other \in Loads, other # m, IsInPlace(LoadOf(other))
           PROVE  IsInPlace(LoadOf(other))'
      <3> DEFINE to == LoadAddress(other)
                 size == SectionSize(other)
      <3>1. /\ to \in Nat /\ size \in Nat /\ to + size <= MemoryLen
            /\ LoadOf(other).address = to /\ LoadOf(other).size = size
        BY LoadWords
      <3>2. address + n <= to \/ to + size <= address
        BY <2>6, <2>14, ScriptAssumption DEF Sensible
      <3>3. Len(result'.bytes) = n
        BY <2>8, <2>11
      <3> HIDE DEF to, size, address, n, at
      <3>4. ASSUME NEW i \in 0 .. size - 1, NEW a, a = to + i
            PROVE  memory'[a] = memory[a]
        <4>1. a \in 0 .. MemoryLen - 1 /\ a \notin address .. address + n - 1
          BY <2>8, <3>1, <3>2, <3>4, FlashBootAssumption
        <4>2. a \notin address .. address + Len(result'.bytes) - 1
          BY <3>3, <4>1
        <4> QED
          BY <2>12, <4>1, <4>2, StoredElsewhere, Zenon
      <3>5. \A i \in 0 .. size - 1 : memory'[to + i] = memory[to + i]
        BY <3>4
      <3> QED
        BY <2>14, <3>1, <3>5 DEF IsInPlace
    <2>15. LoadedBefore(k + 1)'
      <3> SUFFICES ASSUME NEW other \in Loads, Payload(other) < k + 1, other # m
                   PROVE  IsInPlace(LoadOf(other))
        BY <2>13, <2>14 DEF LoadedBefore
      <3>1. Payload(other) < k
        <4>1. m \in EveryCommand /\ other \in EveryCommand /\ other \in Nat
              /\ Payload(other) \in Nat /\ Len(Operands(other)) \in Nat
          BY CommandKinds, CommandWords, LoadWords DEF NamesApart
        <4>2. CASE other < m
          <5>1. other + Len(Operands(other)) < m
            BY <4>1, <4>2, CommandsApart
          <5> QED
            BY <2>3, <2>4, <2>5, <4>1, <5>1 DEF Payload
        <4>3. CASE m < other
          <5>1. m + Len(Operands(m)) < other
            BY <4>1, <4>3, CommandsApart
          <5>2. Payload(other) > other + 2
            BY LoadWords
          <5>3. k < other
            BY <2>7, <5>1 DEF Payload
          <5> QED
            BY SMTT(30), <2>5, <4>1, <5>2, <5>3
        <4> QED
          BY <2>3, <4>1, <4>2, <4>3
      <3> QED
        BY <2>2, <3>1 DEF Parsing, LoadedBefore
    <2>16. InCommand(m, k + 1)'
      <3>1. bis'.todo = << >> /\ bis'.reg = bis.reg
        BY <1>3 DEF Control
      <3>2. m < k + 1 /\ Len(bis'.todo) = m + 1 + Len(Operands(m)) - (k + 1)
        <4> DEFINE l == Len(Operands(m))
        <4>1. l \in Nat /\ k - m = l /\ m \in Nat /\ k \in Nat
          BY <2>3, <2>5, <2>6
        <4> HIDE DEF l
        <4>2. m + 1 + l - (k + 1) = 0 /\ m < k + 1
          BY <4>1
        <4> QED
          BY <3>1, <4>2 DEF l
      <3>3. \A i \in m .. (k + 1) - 1 :
                Script[i].field # "payload" => bis'.reg[Script[i].field] = Script[i].value
        <4> SUFFICES ASSUME NEW i \in m .. k, Script[i].field # "payload"
                     PROVE  bis.reg[Script[i].field] = Script[i].value
          BY <2>5, <3>1
        <4>1. i \in m .. k - 1
          BY SMTT(60), <2>3, <2>5, <2>8
        <4> QED
          BY <2>9, <4>1
      <3> QED
        BY <3>1, <3>2, <3>3 DEF InCommand
    <2>17. RecordedBefore(m)'
      BY <1>1, <2>2 DEF Parsing, RecordedBefore
    <2>18. k + 1 \in DOMAIN Script => k < Len(Script)
      BY <2>5, ScriptTypes
    <2>19. Parsing(m, k + 1)'
      BY <2>10, <2>11, <2>15, <2>16, <2>17, <2>18 DEF Parsing
    <2>20. k + 1 \in m .. Len(Script) + 1
      BY <2>3, <2>4, <2>5, ScriptTypes
    <2> QED
      BY <1>1, <1>3, <2>11, <2>19, <2>20, StaysInScript
  <1> QED
    BY <1>2, <1>3 DEF BisReadPayload

\* All of the command at m is read.
CommandRead(m) ==
    /\ Parsing(m, m + Len(Operands(m)) + 1)
    /\ bis.reg.command = Script[m].value
    /\ \A i \in 1 .. Len(Operands(m)) :
           Operands(m)[i] # "payload" => bis.reg[Operands(m)[i]] = Script[m + i].value

LEMMA SomeCommandRead ==
    ASSUME Progress, pc = "bis", bis.todo = << >>
    PROVE  \E m \in EveryCommand : CommandRead(m)
  <1>1. bis.todo # <<"magic">> /\ bis.todo # <<"command">>
    OBVIOUS
  <1>2. PICK m \in EveryCommand : \E k \in m .. Len(Script) + 1 : Parsing(m, k)
    BY <1>1 DEF Progress
  <1>3. PICK k \in m .. Len(Script) + 1 : Parsing(m, k)
    BY <1>2
  <1>4. /\ m \in Nat /\ Len(Operands(m)) \in Nat /\ k \in Int
        /\ Script[m].field = "command"
        /\ \A i \in 1 .. Len(Operands(m)) : Script[m + i].field = Operands(m)[i]
    <2>1. NamesApart(Operands(m), m \in Loads)
      BY CommandWords
    <2>2. Len(Operands(m)) \in Nat
      BY <2>1 DEF NamesApart
    <2> QED
      BY <2>2, CommandWords, ScriptTypes
  <1>5. /\ m < k /\ 0 = m + 1 + Len(Operands(m)) - k
        /\ \A i \in m .. k - 1 :
              Script[i].field # "payload" => bis.reg[Script[i].field] = Script[i].value
    BY <1>1, <1>3 DEF Parsing, InCommand
  <1> DEFINE l == Len(Operands(m))
  <1>6. k = m + l + 1 /\ m \in m .. k - 1
    <2>1. l \in Nat /\ m < k /\ 0 = m + 1 + l - k
      BY <1>4, <1>5
    <2> HIDE DEF l
    <2> QED
      BY <1>4, <2>1
  <1>7. bis.reg.command = Script[m].value
    BY <1>4, <1>5, <1>6
  <1>8. ASSUME NEW i \in 1 .. l, Operands(m)[i] # "payload"
        PROVE  bis.reg[Operands(m)[i]] = Script[m + i].value
    <2>1. m + i \in m .. k - 1
      <3>1. l \in Nat /\ i \in 1 .. l
        BY <1>4
      <3> HIDE DEF l
      <3> QED
        BY <1>4, <1>6, <3>1
    <2>2. Script[m + i].field = Operands(m)[i]
      BY <1>4
    <2> QED
      BY <1>5, <1>8, <2>1, <2>2
  <1> QED
    BY <1>3, <1>6, <1>7, <1>8 DEF CommandRead

\* The parser goes on to the next command.
LEMMA GoesOn ==
    ASSUME Control, Progress, pc = "bis", NEW m \in EveryCommand, CommandRead(m),
           Script[m].value # BIS_CMD_SECTION_TERMINATE,
           UNCHANGED <<config, callVars, pc, memory, entry>>, bis' = BisNextCommand(bis),
           RecordedBefore(m + Len(Operands(m)) + 1)'
    PROVE  Progress'
  <1>1. PICK k : k = m + Len(Operands(m)) + 1
    OBVIOUS
  <1>2. k \in EveryCommand /\ k \in DOMAIN Script /\ k \in Nat
    BY <1>1, NextCommand, CommandWords
  <1>3. Parsing(m, k) /\ RecordedBefore(k)'
    BY <1>1 DEF CommandRead
  <1>4. bis'.todo = <<"command">>
    BY DEF BisNextCommand, Control
  <1>5. Position' = Position /\ LoadedBefore(k)'
    BY <1>3 DEF callVars, Position, Parsing, LoadedBefore, IsInPlace
  <1>6. Parsing(k, k)'
    BY <1>2, <1>3, <1>4, <1>5 DEF Parsing, InCommand
  <1>7. k \in k .. Len(Script) + 1
    BY <1>2, ScriptTypes
  <1>8. pc' = "bis" /\ entry' = 0 /\ (config.medium = "nand" => doubt' = "none")
    BY DEF Progress, callVars
  <1> QED
    BY <1>2, <1>6, <1>7, <1>8, StaysInScript

\* Functions loaded before the command at m are loaded before the next one.
LEMMA NothingRecorded ==
    ASSUME NEW m \in EveryCommand, CommandRead(m), m \notin FunctionLoads,
           Script[m].value # BIS_CMD_SECTION_TERMINATE, fn_table' = fn_table
    PROVE  RecordedBefore(m + Len(Operands(m)) + 1)'
  <1>1. \A n \in FunctionLoads : n < m + Len(Operands(m)) + 1 => n < m
    BY NextCommand
  <1> QED
    BY <1>1 DEF CommandRead, Parsing, RecordedBefore

LEMMA FunctionRecorded ==
    ASSUME Control, NEW m \in EveryCommand, CommandRead(m),
           Script[m].value = BIS_CMD_FUNCTION_LOAD, bis.reg.fn_num \in DOMAIN fn_table,
           fn_table' = [fn_table EXCEPT ![bis.reg.fn_num] = bis.reg.loadAddress]
    PROVE  RecordedBefore(m + Len(Operands(m)) + 1)'
  <1>1. bis.reg.fn_num = LoadedNumber(m) /\ bis.reg.loadAddress = LoadAddress(m)
    <2>1. /\ Len(Operands(m)) = 6
          /\ Operands(m)[1] = "loadAddress" /\ Operands(m)[5] = "fn_num"
      BY OperandLists DEF Operands
    <2>2. 1 \in 1 .. Len(Operands(m)) /\ 5 \in 1 .. Len(Operands(m))
      BY <2>1
    <2>3. \A i \in 1 .. Len(Operands(m)) :
              Operands(m)[i] # "payload" => bis.reg[Operands(m)[i]] = Script[m + i].value
      BY DEF CommandRead
    <2>4. bis.reg["loadAddress"] = Script[m + 1].value /\ bis.reg["fn_num"] = Script[m + 5].value
      BY <2>1, <2>2, <2>3
    <2> QED
      BY <2>4 DEF LoadedNumber, LoadAddress
  <1>2. bis.reg.fn_num \in 0 .. MAX_BIS_FUNCTION_SUPPORT - 1
    BY DEF Control
  <1>3. ASSUME NEW n \in FunctionLoads, n < m + Len(Operands(m)) + 1
        PROVE  /\ LoadedNumber(n) \in 0 .. MAX_BIS_FUNCTION_SUPPORT - 1
               /\ fn_table'[LoadedNumber(n)] = LoadAddress(n)
    <2>1. n < m \/ n = m
      BY <1>3, BisAssumption, NextCommand
    <2>2. DOMAIN fn_table = 0 .. MAX_BIS_FUNCTION_SUPPORT - 1
      BY DEF Control
    <2>3. CASE n = m
      BY <1>1, <1>2, <2>2, <2>3
    <2>4. CASE n < m /\ n # m
      <3>1. LoadedNumber(n) \in 0 .. MAX_BIS_FUNCTION_SUPPORT - 1
            /\ fn_table[LoadedNumber(n)] = LoadAddress(n)
        BY <2>4 DEF CommandRead, Parsing, RecordedBefore
      <3>2. m \in FunctionLoads
        BY CommandWords DEF FunctionLoads, Commands
      <3>3. LoadedNumber(n) # LoadedNumber(m)
        BY <2>4, <3>2, ScriptAssumption DEF Sensible
      <3> QED
        BY <1>1, <2>2, <3>1, <3>3
    <2>5. n \in Nat /\ m \in Nat
      BY CommandKinds, CommandWords
    <2> QED
      BY <2>1, <2>3, <2>4, <2>5
  <1> QED
    BY <1>3 DEF RecordedBefore

\* A command is carried out.
LEMMA CommandProgress ==
    ASSUME Media, Control, config' = config, Progress,
           BisSkip \/ BisFunctionLoad \/ BisFunctionExec \/ BisTerminate
    PROVE  Progress'
  <1>1. pc = "bis" /\ bis.todo = << >>
    BY DEF BisSkip, BisFunctionLoad, BisFunctionExec, BisTerminate, BisCommandRead
  <1>2. PICK m \in EveryCommand : CommandRead(m)
    BY <1>1, SomeCommandRead
  <1>3. bis.reg.command = Script[m].value
    BY <1>2 DEF CommandRead
  <1>4. m \in FunctionLoads <=> Script[m].value = BIS_CMD_FUNCTION_LOAD
    BY CommandWords DEF FunctionLoads, Commands
  <1>5. CASE BisSkip
    <2>1. Script[m].value \in {BIS_CMD_SECTION_LOAD, BIS_CMD_MEMORY_ACCESS}
      BY <1>3, <1>5 DEF BisSkip, BisCommandRead
    <2>2. Script[m].value # BIS_CMD_SECTION_TERMINATE /\ m \notin FunctionLoads
      BY <1>4, <2>1, BisAssumption
    <2>3. RecordedBefore(m + Len(Operands(m)) + 1)'
      BY <1>2, <1>5, <2>2, NothingRecorded DEF BisSkip
    <2> QED
      BY <1>1, <1>2, <1>5, <2>2, <2>3, GoesOn DEF BisSkip
  <1>6. CASE BisFunctionLoad
    <2>1. Script[m].value = BIS_CMD_FUNCTION_LOAD
      BY <1>3, <1>6 DEF BisFunctionLoad, BisCommandRead
    <2>2. Script[m].value # BIS_CMD_SECTION_TERMINATE
      BY <2>1, BisAssumption
    <2>3. CASE LoaderReturns(0)
      BY <2>3, LoaderGivesUp
    <2>4. CASE pc' = "astray"
      BY <2>4, LoaderGivesUp
    <2>5. CASE /\ bis.reg.fn_num \in DOMAIN fn_table
               /\ fn_table' = [fn_table EXCEPT ![bis.reg.fn_num] = bis.reg.loadAddress]
               /\ bis' = BisNextCommand(bis)
               /\ UNCHANGED <<pc, entry>>
      <3>1. RecordedBefore(m + Len(Operands(m)) + 1)'
        BY <1>2, <2>1, <2>5, FunctionRecorded
      <3> QED
        BY <1>1, <1>2, <1>6, <2>2, <2>5, <3>1, GoesOn DEF BisFunctionLoad
    <2> QED
      BY <1>6, <2>3, <2>4, <2>5 DEF BisFunctionLoad, AfterAccess
  <1>7. CASE BisFunctionExec
    <2>1. Script[m].value = BIS_CMD_FUNCTION_EXEC
      BY <1>3, <1>7 DEF BisFunctionExec, BisCommandRead
    <2>2. Script[m].value # BIS_CMD_SECTION_TERMINATE /\ m \notin FunctionLoads
      BY <1>4, <2>1, BisAssumption
    <2>3. CASE LoaderReturns(0)
      BY <2>3, LoaderGivesUp
    <2>4. CASE pc' = "astray"
      BY <2>4, LoaderGivesUp
    <2>5. CASE bis' = BisNextCommand(bis) /\ UNCHANGED <<pc, entry>>
      <3>1. RecordedBefore(m + Len(Operands(m)) + 1)'
        BY <1>2, <1>7, <2>2, NothingRecorded DEF BisFunctionExec
      <3> QED
        BY <1>1, <1>2, <1>7, <2>2, <2>5, <3>1, GoesOn DEF BisFunctionExec
    <2> QED
      BY <1>7, <2>3, <2>4, <2>5 DEF BisFunctionExec, AfterAccess
  <1>8. CASE BisTerminate
    <2>1. Script[m].value = BIS_CMD_SECTION_TERMINATE
      BY <1>3, <1>8 DEF BisTerminate, BisCommandRead
    <2>2. m + 1 = Len(Script) /\ m \in Nat
      BY <2>1, CommandWords
    <2>3. Len(Operands(m)) = 1 /\ Operands(m)[1] = "dataWord"
      BY <2>1, OperandLists DEF Operands
    <2>4. bis.reg.dataWord = Script[m + 1].value
      <3>1. 1 \in 1 .. Len(Operands(m)) /\ Operands(m)[1] # "payload"
        BY <2>3
      <3>2. bis.reg[Operands(m)[1]] = Script[m + 1].value
        BY <1>2, <3>1 DEF CommandRead
      <3> QED
        BY <2>3, <3>2
    <2>5. pc' = "close" /\ entry' = EntryPoint /\ memory' = memory
      BY <1>8, <2>2, <2>4 DEF BisTerminate, LoaderReturns, EntryPoint, loaderVars
    <2>6. \A n \in Loads : IsInPlace(LoadOf(n))
      <3> SUFFICES ASSUME NEW n \in Loads
                   PROVE  Payload(n) < m + Len(Operands(m)) + 1
        BY <1>2 DEF CommandRead, Parsing, LoadedBefore
      <3>1. Payload(n) \in 1 .. Len(Script)
        BY LoadWords, ScriptTypes
      <3>2. m + Len(Operands(m)) + 1 = Len(Script) + 1 /\ Len(Script) \in Nat
        BY <2>2, <2>3, ScriptTypes
      <3> QED
        BY <3>1, <3>2
    <2>7. \A n \in Loads : IsInPlace(LoadOf(n))'
      BY <2>5, <2>6 DEF IsInPlace
    <2> QED
      BY <2>5, <2>7 DEF Progress
  <1> QED
    BY <1>5, <1>6, <1>7, <1>8

-----------------------------------------------------------------------------
(* The steps outside the parser.                                           *)

LEMMA ConfigKept ==
    ASSUME Media, Control, [Next]_vars
    PROVE  config' = config
  BY FlashStep, BisFieldStep, BisPayloadStep, BisCommandStep, BlobStep, SeekingLoaderStep,
     OpeningStep, DetectingStep DEF Next, Calls, vars

\* Only opening the module settles a doubt about how it was opened.
LEMMA DoubtStays ==
    ASSUME Media, Control, [Next]_vars, ~Open, doubt = "open"
    PROVE  doubt' = "open"
  <1>1. ASSUME NEW n, Read(n) \/ Peek(n) \/ Seek(n) PROVE doubt' = "open"
    BY <1>1 DEF Read, Peek, Seek, CallNand, CallNor, Returned
  <1>2. CASE OpenFails
    BY <1>2 DEF OpenFails, CallNand, Returned, Outcome, NandClosed
  <1>3. CASE UNCHANGED callVars
    BY <1>3 DEF callVars
  <1>4. CASE Next /\ ~OpenFails
    BY <1>1, <1>3, <1>4 DEF Next, Detect, StartDetected, StartConfigured, Close, BisReadField,
       BisReadPayload, BisSkip, BisFunctionLoad, BisFunctionExec, BisTerminate, BlobRead, BlobDone,
       SeekingLoaderReads, SeekingLoaderPeeks, SeekingLoaderSeeks, SeekingLoaderStops
  <1> QED
    BY <1>2, <1>3, <1>4 DEF vars

\* Opened without doubt, the module is at the start of the file.
LEMMA OpenProgress ==
    ASSUME Media, config' = config, Open, doubt' # "open"
    PROVE  Progress'
  <1>1. entry' = 0 /\ pc' \in {"start", "detect"}
    BY DEF Open, Opened
  <1>2. CASE config.medium = "nor"
    <2>1. nor'.fpos = 0
      BY <1>2 DEF Open, CallNor, NorOutcome, NorOpen
    <2> QED
      BY <1>1, <1>2, <2>1 DEF Progress, Position
  <1>3. CASE config.medium = "nand"
    <2>1. PICK res \in Answers(MappedBlocks, {0}) : CallNand("open", NandOpen(res))
      BY <1>3 DEF Open
    <2>2. res[0] \in {"ok", "failed", "unnoticed"}
      BY DEF Answers
    <2>3. nand'.fpos = 0
      BY <2>1, <2>2, OpenCases DEF CallNand
    <2>4. doubt' = "none"
      BY <2>1, <1>3 DEF CallNand, Returned
    <2> QED
      BY <1>1, <1>3, <2>3, <2>4 DEF Progress, Position
  <1>4. config.medium \in {"nand", "nor"}
    BY FlashBootAssumption DEF Media
  <1> QED
    BY <1>2, <1>3, <1>4

\* The header ends within the first page: peeking it loads no page, and cannot fail.
LEMMA PeekedHeader ==
    ASSUME NEW nd \in NandType, nd.fpos = 0, NEW res
    PROVE  /\ NandPeek(nd, HeaderSize, res).val = 0
           /\ NandPeek(nd, HeaderSize, res).nd.fpos = 0
  <1> DEFINE k == PageEnds(nd, HeaderSize)
  <1>1. HeaderSize \in 0 .. pageSizeBytes - 1 /\ pageSizeBytes \in Nat \ {0}
    BY FlashBootAssumption, ScriptAssumption, NandAssumption
  <1>2. k = 0
    <2>1. (pageSizeBytes * 0 + HeaderSize) \div pageSizeBytes = 0
      BY <1>1, DivisionUnique
    <2>2. (pageSizeBytes * 0 + 0) \div pageSizeBytes = 0
      <3>1. 0 \in 0 .. pageSizeBytes - 1
        BY <1>1
      <3> QED
        BY <1>1, <3>1, DivisionUnique
    <2>3. pageSizeBytes * 0 + HeaderSize = HeaderSize /\ pageSizeBytes * 0 + 0 = 0
          /\ 0 + HeaderSize = HeaderSize
      BY <1>1
    <2>4. k \in Nat /\ (0 \div pageSizeBytes) + k = (0 + HeaderSize) \div pageSizeBytes
      BY <1>1, PageEndsType
    <2> HIDE DEF k
    <2>5. 0 + k = 0 /\ k \in Nat
      BY <2>1, <2>2, <2>3, <2>4
    <2> QED
      BY <2>5
  <1>3. FailedLoads(nd, HeaderSize, res) = {}
    BY <1>2 DEF FailedLoads
  <1> DEFINE r == NandRead(nd, HeaderSize, res)
  <1>4. r.val = 0 /\ r.nd.cur = nd.cur
    <2>1. nd.cur + 0 = nd.cur /\ DOMAIN nd = {"fpos", "cur", "buf", "logicalToPhysMap"}
      BY DEF NandType
    <2> QED
      BY <1>2, <1>3, <2>1 DEF NandRead, Outcome
  <1>5. DOMAIN r.nd = {"fpos", "cur", "buf", "logicalToPhysMap"}
    BY <1>3 DEF NandRead, Outcome, NandType
  <1>6. NandPeek(nd, HeaderSize, res) = Outcome([r.nd EXCEPT !.fpos = nd.fpos], r.val, r.bytes)
    BY <1>4 DEF NandPeek
  <1> HIDE DEF r
  <1> QED
    BY <1>4, <1>5, <1>6 DEF Outcome

LEMMA DetectProgress ==
    ASSUME Media, config' = config, Progress, Detect
    PROVE  Progress'
  <1>1. /\ pc = "detect" /\ pc' = "detected" /\ entry' = 0 /\ Peek(HeaderSize)
        /\ Position = 0 /\ (config.medium = "nand" => doubt = "none")
    BY DEF Detect, Progress
  <1>2. ASSUME config.medium = "nor", NEW copied,
               CallNor("peek", NorPeek(nor, HeaderSize, copied))
        PROVE  AtStart'
    <2>1. nor = [fpos |-> 0] /\ 0 + HeaderSize = HeaderSize
      BY <1>1, <1>2, FlashBootAssumption DEF Position, Media
    <2>2. nor'.fpos \in {0, HeaderSize}
      BY <1>2, <2>1 DEF CallNor, NorPeek, NorRead, NorOutcome
    <2> QED
      BY <1>2, <2>2 DEF AtStart, Position
  <1>3. ASSUME config.medium = "nand", NEW res,
               CallNand("peek", NandPeek(nand, HeaderSize, res))
        PROVE  AtStart' /\ doubt' = "none"
    <2>1. nand.fpos = 0 /\ nand \in NandType
      BY <1>1, <1>3 DEF Position, Media
    <2>2. NandPeek(nand, HeaderSize, res).val = 0 /\ NandPeek(nand, HeaderSize, res).nd.fpos = 0
      BY <2>1, PeekedHeader
    <2> QED
      BY <1>1, <1>3, <2>2 DEF AtStart, Position, CallNand, Returned
  <1>4. AtStart' /\ (config.medium = "nand" => doubt' = "none")
    BY <1>1, <1>2, <1>3, FlashBootAssumption DEF Peek, Media
  <1> QED
    BY <1>1, <1>4 DEF Progress

LEMMA StartProgress ==
    ASSUME config' = config, config.format # "bblob", Progress, StartDetected \/ StartConfigured
    PROVE  Progress'
  <1>1. /\ pc \in {"start", "detected"} /\ pc' \in {"bis", "elf", "close"}
        /\ bis'.todo = <<"magic">> /\ UNCHANGED <<nand, nor, doubt, entry>>
    BY DEF StartDetected, StartConfigured, StartLoader, LoaderFor, DetectedFormats, BisStart, callVars
  <1>2. /\ AtStart /\ entry = 0 /\ (config.medium = "nand" => doubt = "none")
    BY <1>1 DEF Progress, AtStart
  <1>3. AtStart'
    BY <1>1, <1>2 DEF AtStart, Position
  <1> QED
    BY <1>1, <1>2, <1>3 DEF Progress

LEMMA SeekingProgress ==
    ASSUME SeekingLoaderReads \/ SeekingLoaderPeeks \/ SeekingLoaderSeeks \/ SeekingLoaderStops
    PROVE  Progress'
  <1>1. LoaderReturns(0) \/ pc' = "elf"
    BY DEF SeekingLoaderReads, SeekingLoaderPeeks, SeekingLoaderSeeks, SeekingLoaderStops
  <1> QED
    BY <1>1, LoaderGivesUp DEF Progress

LEMMA CloseProgress ==
    ASSUME config' = config, Progress, Close
    PROVE  Progress'
  <1>1. pc = "close" /\ entry' = entry /\ memory' = memory
        /\ pc' = IF entry # 0 THEN "jumped" ELSE "idle"
    BY DEF Close, loaderVars
  <1> QED
    BY <1>1 DEF Progress, IsInPlace

LEMMA SameProgress ==
    ASSUME Progress, UNCHANGED vars
    PROVE  Progress'
  <1>1. /\ Position' = Position /\ LoadedBefore(1)' = LoadedBefore(1)
        /\ UNCHANGED <<config, pc, doubt, entry, bis, fn_table, memory>>
    BY DEF vars, callVars, loaderVars, Position, LoadedBefore, IsInPlace
  <1>2. \A m, k : Parsing(m, k)' <=> Parsing(m, k)
    BY <1>1 DEF Parsing, InCommand, LoadedBefore, RecordedBefore, IsInPlace
  <1>3. \A n : IsInPlace(LoadOf(n))' <=> IsInPlace(LoadOf(n))
    BY <1>1 DEF IsInPlace
  <1>4. AtStart' <=> AtStart
    BY <1>1 DEF AtStart
  <1> QED
    BY <1>1, <1>2, <1>3, <1>4 DEF Progress

LEMMA ScriptStep ==
    ASSUME Media, Control, ScriptProgress, [Next]_vars
    PROVE  ScriptProgress'
  <1>1. config' = config /\ Reporting' = Reporting
    BY ConfigKept DEF Reporting
  <1>2. CASE config.format = "bblob"
    <2>1. pc \in {"idle", "start", "blob", "close", "jumped"}
      BY <1>2 DEF ScriptProgress
    <2>2. pc' \in {"idle", "start", "blob", "close", "jumped"}
      BY <1>2, <2>1 DEF Next, vars, Open, Opened, OpenFails, Detect, StartDetected, StartConfigured,
         StartLoader, LoaderFor, Close, BisReadField, BisReadPayload, BisCommandRead, BisSkip,
         BisFunctionLoad, BisFunctionExec, BisTerminate, BlobRead, BlobDone, LoaderReturns,
         SeekingLoaderReads, SeekingLoaderPeeks, SeekingLoaderSeeks, SeekingLoaderStops
    <2> QED
      BY <1>1, <1>2, <2>2 DEF ScriptProgress
  <1>3. CASE config.format # "bblob"
    <2>1. pc # "blob" /\ (Sure => Progress)
      BY <1>3 DEF ScriptProgress
    <2>2. pc' # "blob"
      BY <1>3, <2>1 DEF Next, vars, Open, Opened, OpenFails, Detect, StartDetected, DetectedFormats,
         StartConfigured, StartLoader, LoaderFor, Close, BisReadField, TakeField, BisReadPayload,
         BisSkip, BisFunctionLoad, BisFunctionExec, AfterAccess, BisTerminate, BlobRead, BlobDone,
         LoaderReturns, SeekingLoaderReads, SeekingLoaderPeeks, SeekingLoaderSeeks,
         SeekingLoaderStops
    <2>3. ASSUME Sure' PROVE Progress'
      <3>1. CASE Open
        BY <1>1, <2>3, <3>1, OpenProgress DEF Sure
      <3>2. CASE ~Open
        <4>1. Sure
          BY <1>1, <2>3, <3>2, DoubtStays DEF Sure
        <4>2. Progress
          BY <2>1, <4>1
        <4>3. CASE UNCHANGED vars
          BY <4>2, <4>3, SameProgress
        <4>4. CASE OpenFails
          BY <2>3, <4>4 DEF OpenFails, CallNand, Returned, Outcome, NandClosed, Sure
        <4>5. CASE Next /\ ~OpenFails
          <5>1. ~BlobRead /\ ~BlobDone
            BY <2>1 DEF BlobRead, BlobDone
          <5> QED
            BY <1>1, <1>3, <3>2, <4>1, <4>2, <4>5, <5>1, DetectProgress, StartProgress, CloseProgress,
               FieldProgress, PayloadProgress, CommandProgress, SeekingProgress DEF Next
        <4> QED
          BY <4>3, <4>4, <4>5
      <3> QED
        BY <3>1, <3>2
    <2> QED
      BY <1>1, <1>3, <2>2, <2>3 DEF ScriptProgress
  <1> QED
    BY <1>2, <1>3

LEMMA ScriptInit == Init => ScriptProgress
  BY DEF Init, ScriptProgress, Sure

\* The parser of bis.c and the boot modules keep to the script, whatever fails on the way.
THEOREM ScriptIsFollowed == Spec => []ScriptProgress
  <1>1. FlashInv /\ ScriptProgress /\ [Next]_vars => ScriptProgress'
    BY ScriptStep DEF FlashInv
  <1> QED
    BY <1>1, ScriptInit, FlashInvariant, PTL DEF Spec

\* For every script that follows the grammar of bis.c and fits the flash and the memory,
\* every geometry and every set of bad blocks: iblNandBoot and iblNorBoot jump only to
\* the script's entry point, with every section and function of it in memory.
THEOREM ScriptIsLoaded == Spec => []BisImageLoaded
  <1>1. ScriptProgress => BisImageLoaded
    <2> SUFFICES ASSUME ScriptProgress, pc = "jumped", config.format # "bblob", Reporting,
                        doubt # "open"
                 PROVE  entry = EntryPoint /\ \A m \in Loads : IsInPlace(LoadOf(m))
      BY DEF BisImageLoaded
    <2>1. Progress
      BY DEF ScriptProgress, Sure
    <2> QED
      BY <2>1 DEF Progress
  <1> QED
    BY <1>1, ScriptIsFollowed, PTL

\* BIS_CMD_FUNCTION_EXEC in bis.c calls only what the script loaded under that number,
\* although the static fn_table outlives the attempt that filled it.
THEOREM FunctionsRunLoadedCode == Spec => []ExecRunsLoadedCode
  <1>1. ScriptProgress => ExecRunsLoadedCode
    <2> SUFFICES ASSUME ScriptProgress, BisCommandRead({BIS_CMD_FUNCTION_EXEC}),
                        Reporting, doubt # "open"
                 PROVE  \E m \in FunctionLoads :
                            /\ LoadedNumber(m) = bis.reg.fn_num
                            /\ LoadAddress(m) = fn_table[bis.reg.fn_num]
                            /\ IsInPlace(LoadOf(m))
      BY DEF ExecRunsLoadedCode
    <2>1. pc = "bis" /\ bis.todo = << >> /\ bis.reg.command = BIS_CMD_FUNCTION_EXEC
      BY DEF BisCommandRead
    <2>2. Progress
      BY <2>1 DEF ScriptProgress, Sure
    <2>3. PICK e \in EveryCommand : CommandRead(e)
      BY <2>1, <2>2, SomeCommandRead
    <2>4. Script[e].value = BIS_CMD_FUNCTION_EXEC
      BY <2>1, <2>3 DEF CommandRead
    <2>5. bis.reg.fn_num = CalledNumber(e)
      <3>1. Len(Operands(e)) = 2 /\ Operands(e)[2] = "fn_num"
        BY <2>4, OperandLists DEF Operands
      <3>2. 2 \in 1 .. Len(Operands(e)) /\ Operands(e)[2] # "payload"
        BY <3>1
      <3>3. bis.reg[Operands(e)[2]] = Script[e + 2].value
        BY <2>3, <3>2 DEF CommandRead
      <3> QED
        BY <3>1, <3>3 DEF CalledNumber
    <2>6. e \in FunctionExecs
      BY <2>4, CommandWords DEF FunctionExecs, Commands
    <2>7. PICK m \in FunctionLoads : m < e /\ LoadedNumber(m) = CalledNumber(e)
      BY <2>6, ScriptAssumption DEF Sensible
    <2>8. fn_table[LoadedNumber(m)] = LoadAddress(m)
      BY <2>3, <2>7 DEF CommandRead, Parsing, RecordedBefore
    <2>9. IsInPlace(LoadOf(m))
      <3>1. m \in EveryCommand /\ m \in Loads
        BY CommandKinds
      <3>2. m + Len(Operands(m)) < e
        BY <2>7, <3>1, CommandsApart
      <3>3. Payload(m) < e + Len(Operands(e)) + 1
        <4>1. e \in Nat /\ Len(Operands(e)) \in Nat /\ Payload(m) \in Nat
          BY <3>1, CommandWords, LoadWords DEF NamesApart
        <4> QED
          BY <3>2, <4>1 DEF Payload
      <3> QED
        BY <2>3, <3>1, <3>3 DEF CommandRead, Parsing, LoadedBefore
    <2> QED
      BY <2>5, <2>7, <2>8, <2>9
  <1> QED
    BY <1>1, ScriptIsFollowed, PTL
==============================================================================

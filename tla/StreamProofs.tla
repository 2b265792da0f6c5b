----------------------------- MODULE StreamProofs -----------------------------
(***************************************************************************)
(* What TLAPS proves of the ring buffer, for every capacity, byte set and  *)
(* choice of arguments.                                                    *)
(***************************************************************************)
EXTENDS Stream, SequenceTheorems, TLAPS

USE StreamConstants DEF Index

\* Adding less than a lap to an index wraps at most once.
LEMMA WrapOnce ==
    ASSUME NEW i \in 0 .. 2 * MAX_SIZE_STREAM_BUFFER - 1
    PROVE  Wrap(i) = IF i < MAX_SIZE_STREAM_BUFFER THEN i ELSE i - MAX_SIZE_STREAM_BUFFER
  BY DEF Wrap

\* Moving the read index on by k renumbers the slots after it by k.
LEMMA WrapShift ==
    ASSUME NEW r \in Index,
           NEW k \in 0 .. MAX_SIZE_STREAM_BUFFER,
           NEW j \in 1 .. MAX_SIZE_STREAM_BUFFER - k
    PROVE  Wrap(Wrap(r + k) + (j - 1)) = Wrap(r + (j + k - 1))
  <1> DEFINE w == Wrap(r + k)
  <1>1. w = IF r + k < MAX_SIZE_STREAM_BUFFER THEN r + k ELSE r + k - MAX_SIZE_STREAM_BUFFER
    BY WrapOnce
  <1>2. w \in Index
    BY <1>1
  <1> HIDE DEF w
  <1>3. Wrap(w + (j - 1)) = IF w + (j - 1) < MAX_SIZE_STREAM_BUFFER THEN w + (j - 1)
                            ELSE w + (j - 1) - MAX_SIZE_STREAM_BUFFER
    BY <1>2, WrapOnce
  <1>4. Wrap(r + (j + k - 1)) =
           IF r + (j + k - 1) < MAX_SIZE_STREAM_BUFFER THEN r + (j + k - 1)
           ELSE r + (j + k - 1) - MAX_SIZE_STREAM_BUFFER
    BY WrapOnce
  <1> QED
    BY <1>1, <1>2, <1>3, <1>4 DEF w

LEMMA WrapInIndex == ASSUME NEW i \in Nat PROVE Wrap(i) \in Index
  BY DEF Wrap

------------------------------------------------------------------------------

Inv == TypeOK /\ IndicesAgree

LEMMA InitInv == Init => Inv
  <1>1. Wrap(0 + MAX_SIZE_STREAM_BUFFER) = 0
    BY WrapOnce
  <1> SUFFICES ASSUME Init PROVE Inv
    OBVIOUS
  <1>2. TypeOK
    BY DEF Init, TypeOK
  <1>3. read_idx + Remain = 0 + MAX_SIZE_STREAM_BUFFER
    BY DEF Init, Remain
  <1> QED
    BY <1>1, <1>2, <1>3 DEF Init, Inv, IndicesAgree

LEMMA NumBytesRange ==
    ASSUME TypeOK, NEW n \in ReadSizes
    PROVE  NumBytesToRead(n) \in 0 .. Remain
  BY DEF TypeOK, NumBytesToRead, Remain

LEMMA ReadInv == ASSUME Inv, NEW n \in ReadSizes, StreamRead(n) PROVE Inv'
  <1> DEFINE k == NumBytesToRead(n)
  <1>1. k \in 0 .. Remain
    BY NumBytesRange DEF Inv
  <1> HIDE DEF k
  <1>2. /\ read_idx' = Wrap(read_idx + k)
        /\ free_size' = free_size + k
        /\ UNCHANGED <<is_open, buffer, write_idx>>
    BY DEF StreamRead, k
  <1>3. TypeOK'
    BY SMTT(30), <1>1, <1>2, WrapInIndex DEF Inv, TypeOK, Remain
  <1>4. read_idx' = IF read_idx + k < MAX_SIZE_STREAM_BUFFER THEN read_idx + k
                    ELSE read_idx + k - MAX_SIZE_STREAM_BUFFER
    BY <1>1, <1>2, WrapOnce DEF Inv, TypeOK, Remain
  <1>5. IndicesAgree'
    <2>1. write_idx = IF read_idx + Remain < MAX_SIZE_STREAM_BUFFER THEN read_idx + Remain
                      ELSE read_idx + Remain - MAX_SIZE_STREAM_BUFFER
      BY WrapOnce DEF Inv, TypeOK, IndicesAgree, Remain
    <2>2. Remain' = Remain - k /\ Remain' \in 0 .. MAX_SIZE_STREAM_BUFFER
      BY <1>1, <1>2 DEF Inv, TypeOK, Remain
    <2>3. Wrap(read_idx' + Remain') =
             IF read_idx' + Remain' < MAX_SIZE_STREAM_BUFFER THEN read_idx' + Remain'
             ELSE read_idx' + Remain' - MAX_SIZE_STREAM_BUFFER
      BY <1>3, <2>2, WrapOnce DEF TypeOK
    <2>4. Wrap(read_idx' + Remain') = write_idx'
      BY SMTT(30), <1>1, <1>2, <1>4, <2>1, <2>2, <2>3 DEF Inv, TypeOK, Remain
    <2> QED
      BY <2>4 DEF IndicesAgree, Wrap
  <1> QED
    BY <1>3, <1>5 DEF Inv

LEMMA WriteInv == ASSUME Inv, NEW b \in Writes, StreamWrite(b) PROVE Inv'
  <1> DEFINE n == Len(b)
  <1>1. n \in Nat /\ b \in Seq(Byte)
    OBVIOUS
  <1>2. CASE n > free_size
    <2>1. UNCHANGED ring
      BY <1>1, <1>2 DEF StreamWrite, Inv, TypeOK
    <2> QED
      BY <2>1 DEF ring, Inv, TypeOK, IndicesAgree, Remain, Wrap
  <1>3. CASE n <= free_size
    <2>1. /\ buffer' = [i \in Index |-> IF Beyond(i) < n THEN b[Beyond(i) + 1]
                                        ELSE buffer[i]]
          /\ write_idx' = Wrap(write_idx + n)
          /\ free_size' = free_size - n
          /\ UNCHANGED <<is_open, read_idx>>
      BY <1>1, <1>3 DEF StreamWrite, Inv, TypeOK
    <2>2. \A i \in Index : Beyond(i) \in Nat
      BY DEF Inv, TypeOK, Beyond
    <2>3. \A i \in Index : Beyond(i) < n => b[Beyond(i) + 1] \in Byte
      BY <1>1, <2>2
    <2>4. buffer' \in [Index -> Byte]
      BY <2>1, <2>3 DEF Inv, TypeOK
    <2>5. TypeOK'
      <3>1. write_idx + n \in Nat
        BY <1>1 DEF Inv, TypeOK
      <3>2. write_idx' \in Index
        BY <2>1, <3>1, WrapInIndex
      <3>3. free_size' \in 0 .. MAX_SIZE_STREAM_BUFFER
        BY <1>1, <1>3, <2>1 DEF Inv, TypeOK
      <3> QED
        BY <2>1, <2>4, <3>2, <3>3 DEF Inv, TypeOK
    <2>6. IndicesAgree'
      <3>1. write_idx = IF read_idx + Remain < MAX_SIZE_STREAM_BUFFER
                        THEN read_idx + Remain
                        ELSE read_idx + Remain - MAX_SIZE_STREAM_BUFFER
        BY WrapOnce DEF Inv, TypeOK, IndicesAgree, Remain
      <3>2. write_idx' = IF write_idx + n < MAX_SIZE_STREAM_BUFFER THEN write_idx + n
                         ELSE write_idx + n - MAX_SIZE_STREAM_BUFFER
        BY <1>1, <1>3, <2>1, WrapOnce DEF Inv, TypeOK
      <3>3. Remain' = Remain + n /\ Remain' \in 0 .. MAX_SIZE_STREAM_BUFFER
        BY <1>1, <1>3, <2>1 DEF Inv, TypeOK, Remain
      <3>4. Wrap(read_idx' + Remain') =
               IF read_idx' + Remain' < MAX_SIZE_STREAM_BUFFER THEN read_idx' + Remain'
               ELSE read_idx' + Remain' - MAX_SIZE_STREAM_BUFFER
        BY <2>5, <3>3, WrapOnce DEF TypeOK
      <3>5. Wrap(read_idx' + Remain') = write_idx'
        BY <1>1, <2>1, <2>5, <3>1, <3>2, <3>3, <3>4 DEF Inv, TypeOK, Remain
      <3> QED
        BY <3>5 DEF IndicesAgree, Wrap
    <2> QED
      BY <2>5, <2>6 DEF Inv
  <1> QED
    BY <1>1, <1>2, <1>3 DEF Inv, TypeOK

LEMMA OpenInv == ASSUME Inv, NEW c \in ChunkSizes, StreamOpen(c) PROVE Inv'
  <1>1. CASE UNCHANGED ring
    BY <1>1 DEF ring, Inv, TypeOK, IndicesAgree, Remain, Wrap
  <1>2. CASE /\ is_open' = TRUE
             /\ read_idx' = 0
             /\ write_idx' = 0
             /\ free_size' = MAX_SIZE_STREAM_BUFFER
             /\ UNCHANGED buffer
    BY <1>2 DEF Inv, TypeOK, IndicesAgree, Remain, Wrap
  <1> QED
    BY <1>1, <1>2 DEF StreamOpen

LEMMA NextInv == Inv /\ [Next]_vars => Inv'
  <1> SUFFICES ASSUME Inv, [Next]_vars PROVE Inv'
    OBVIOUS
  <1>1. ASSUME NEW c \in ChunkSizes, StreamOpen(c) PROVE Inv'
    BY <1>1, OpenInv
  <1>2. ASSUME NEW n \in ReadSizes, StreamRead(n) PROVE Inv'
    BY <1>2, ReadInv
  <1>3. ASSUME NEW n \in ReadSizes, StreamPeek(n) PROVE Inv'
    BY <1>3 DEF StreamPeek, ring, Inv, TypeOK, IndicesAgree, Remain, Wrap
  <1>4. ASSUME NEW b \in Writes, StreamWrite(b) PROVE Inv'
    BY <1>4, WriteInv
  <1>5. CASE StreamClose
    BY <1>5 DEF StreamClose, Inv, TypeOK, IndicesAgree, Remain, Wrap
  <1>6. CASE StreamLevel
    BY <1>6 DEF StreamLevel, ring, Inv, TypeOK, IndicesAgree, Remain, Wrap
  <1>7. CASE UNCHANGED vars
    BY <1>7 DEF vars, Inv, TypeOK, IndicesAgree, Remain, Wrap
  <1> QED
    BY <1>1, <1>2, <1>3, <1>4, <1>5, <1>6, <1>7 DEF Next

\* The fields of STREAM_MCB stay in range whatever is called in whatever order.
THEOREM TypeCorrect == Spec => []TypeOK
  <1>1. Inv => TypeOK
    BY DEF Inv
  <1> QED
    BY <1>1, InitInv, NextInv, PTL DEF Spec

\* read_idx, write_idx and free_size always describe the same queue.
THEOREM IndicesCorrect == Spec => []IndicesAgree
  <1>1. Inv => IndicesAgree
    BY DEF Inv
  <1> QED
    BY <1>1, InitInv, NextInv, PTL DEF Spec

------------------------------------------------------------------------------
(***************************************************************************)
(* The ring implements the queue.                                          *)
(***************************************************************************)

LEMMA CopyOutSeq ==
    ASSUME TypeOK, NEW n \in 0 .. MAX_SIZE_STREAM_BUFFER
    PROVE  /\ CopyOut(n) \in Seq(Byte)
           /\ Len(CopyOut(n)) = n
           /\ DOMAIN CopyOut(n) = 1 .. n
           /\ \A k \in 1 .. n : CopyOut(n)[k] = buffer[Wrap(read_idx + (k - 1))]
  <1>1. \A k \in 1 .. n : Wrap(read_idx + (k - 1)) \in Index
    BY WrapInIndex DEF TypeOK
  <1>2. \A k \in 1 .. n : buffer[Wrap(read_idx + (k - 1))] \in Byte
    BY <1>1 DEF TypeOK
  <1> QED
    BY <1>2 DEF CopyOut

\* What a read or a peek copies out is a prefix of the contents.
LEMMA CopyOutPrefix ==
    ASSUME TypeOK, NEW k \in 0 .. Remain
    PROVE  CopyOut(k) = SubSeq(Contents, 1, k)
  <1>1. Remain \in 0 .. MAX_SIZE_STREAM_BUFFER
    BY DEF TypeOK, Remain
  <1>2. /\ Contents \in Seq(Byte) /\ Len(Contents) = Remain
        /\ \A j \in 1 .. Remain : Contents[j] = buffer[Wrap(read_idx + (j - 1))]
    BY <1>1, CopyOutSeq DEF Contents
  <1>3. SubSeq(Contents, 1, k) = [j \in 1 .. k |-> Contents[j]]
    BY <1>1, <1>2
  <1>4. \A j \in 1 .. k : Contents[j] = buffer[Wrap(read_idx + (j - 1))]
    BY <1>1, <1>2
  <1> QED
    BY <1>3, <1>4 DEF CopyOut

\* A read moves the contents on by the bytes it took.
LEMMA ReadContents ==
    ASSUME Inv, NEW n \in ReadSizes, StreamRead(n)
    PROVE  Contents' = SubSeq(Contents, NumBytesToRead(n) + 1, Len(Contents))
  <1> DEFINE k == NumBytesToRead(n)
  <1>1. k \in 0 .. Remain /\ Remain \in 0 .. MAX_SIZE_STREAM_BUFFER
    BY NumBytesRange DEF Inv, TypeOK, Remain
  <1> HIDE DEF k
  <1>2. /\ read_idx' = Wrap(read_idx + k)
        /\ free_size' = free_size + k
        /\ buffer' = buffer
    BY DEF StreamRead, k
  <1>3. TypeOK' /\ Remain' = Remain - k /\ Remain' \in 0 .. MAX_SIZE_STREAM_BUFFER
    BY <1>1, <1>2, ReadInv DEF Inv, TypeOK, Remain
  <1>4. /\ Contents \in Seq(Byte) /\ Len(Contents) = Remain
        /\ \A j \in 1 .. Remain : Contents[j] = buffer[Wrap(read_idx + (j - 1))]
    BY <1>1, CopyOutSeq DEF Contents, Inv
  <1>5. Contents' = [j \in 1 .. Remain - k |-> buffer[Wrap(read_idx' + (j - 1))]]
    BY <1>2, <1>3 DEF Contents, CopyOut, Wrap
  <1>6. ASSUME NEW j \in 1 .. Remain - k
        PROVE  Wrap(read_idx' + (j - 1)) = Wrap(read_idx + (j + k - 1))
    <2>1. /\ read_idx \in Index
          /\ k \in 0 .. MAX_SIZE_STREAM_BUFFER
          /\ j \in 1 .. MAX_SIZE_STREAM_BUFFER - k
      BY <1>1 DEF Inv, TypeOK
    <2> QED
      BY <1>2, <2>1, WrapShift
  <1>7. SubSeq(Contents, k + 1, Len(Contents)) = [j \in 1 .. Remain - k |-> Contents[j + k]]
    BY <1>1, <1>4
  <1>8. ASSUME NEW j \in 1 .. Remain - k
        PROVE  Contents[j + k] = buffer[Wrap(read_idx' + (j - 1))]
    <2>1. j + k \in 1 .. Remain
      BY <1>1
    <2> QED
      BY <1>1, <1>4, <1>6, <2>1
  <1> QED
    BY <1>5, <1>7, <1>8 DEF k

\* A write that fits appends its bytes, and disturbs none that wait.
LEMMA WriteContents ==
    ASSUME Inv, NEW b \in Writes, StreamWrite(b), Len(b) <= free_size
    PROVE  Contents' = Contents \o b
  <1> DEFINE n == Len(b)
  <1>1. n \in Nat /\ b \in Seq(Byte)
    OBVIOUS
  <1>2. /\ buffer' = [i \in Index |-> IF Beyond(i) < n THEN b[Beyond(i) + 1]
                                      ELSE buffer[i]]
        /\ free_size' = free_size - n
        /\ read_idx' = read_idx
    BY <1>1 DEF StreamWrite, Inv, TypeOK
  <1>3. /\ Remain \in 0 .. MAX_SIZE_STREAM_BUFFER
        /\ Remain' = Remain + n
        /\ Remain' \in 0 .. MAX_SIZE_STREAM_BUFFER
        /\ read_idx \in Index
        /\ write_idx \in Index
    BY <1>1, <1>2 DEF Inv, TypeOK, Remain
  <1>4. /\ Contents \in Seq(Byte) /\ Len(Contents) = Remain
        /\ \A j \in 1 .. Remain : Contents[j] = buffer[Wrap(read_idx + (j - 1))]
    BY <1>3, CopyOutSeq DEF Contents, Inv
  <1>5. write_idx = IF read_idx + Remain < MAX_SIZE_STREAM_BUFFER THEN read_idx + Remain
                    ELSE read_idx + Remain - MAX_SIZE_STREAM_BUFFER
    BY <1>3, WrapOnce DEF Inv, IndicesAgree
  <1> HIDE DEF n
  <1>6. ASSUME NEW j \in 1 .. Remain + n
        PROVE  /\ Wrap(read_idx + (j - 1)) \in Index
               /\ j <= Remain => Beyond(Wrap(read_idx + (j - 1))) >= n
               /\ j > Remain => Beyond(Wrap(read_idx + (j - 1))) = j - 1 - Remain
    <2>1. read_idx + (j - 1) \in 0 .. 2 * MAX_SIZE_STREAM_BUFFER - 1
      BY <1>1, <1>3
    <2>2. Wrap(read_idx + (j - 1)) =
             IF read_idx + (j - 1) < MAX_SIZE_STREAM_BUFFER THEN read_idx + (j - 1)
             ELSE read_idx + (j - 1) - MAX_SIZE_STREAM_BUFFER
      BY <1>1, <1>3, <2>1, WrapOnce
    <2> QED
      BY <1>1, <1>3, <1>5, <2>2 DEF Beyond
  <1>7. Contents' = [j \in 1 .. Remain + n |-> buffer'[Wrap(read_idx + (j - 1))]]
    BY <1>2, <1>3 DEF Contents, CopyOut, Wrap
  <1>8. ASSUME NEW j \in 1 .. Remain + n
        PROVE  buffer'[Wrap(read_idx + (j - 1))] =
                  IF j <= Remain THEN Contents[j] ELSE b[j - Remain]
    <2> DEFINE i == Wrap(read_idx + (j - 1))
    <2>0. /\ i \in Index
          /\ j <= Remain => Beyond(i) >= n
          /\ j > Remain => Beyond(i) = j - 1 - Remain
          /\ Beyond(i) \in Nat
      BY SMTT(30), <1>3, <1>6 DEF Beyond
    <2>1. CASE j <= Remain
      <3>1. Contents[j] = buffer[i]
        BY <1>1, <1>3, <1>4, <2>1
      <3> HIDE DEF i
      <3> QED
        BY <1>1, <1>2, <2>0, <2>1, <3>1 DEF i
    <2>2. CASE j > Remain
      <3> HIDE DEF i
      <3>1. Beyond(i) < n /\ Beyond(i) + 1 = j - Remain
        BY <1>1, <1>3, <2>0, <2>2
      <3>2. buffer'[i] = b[j - Remain]
        BY <1>1, <1>2, <2>0, <3>1
      <3> QED
        BY <1>3, <2>2, <3>2 DEF i
    <2> QED
      BY <1>1, <1>3, <2>1, <2>2
  <1>9. /\ Contents \o b \in Seq(Byte)
        /\ Len(Contents \o b) = Remain + n
        /\ \A j \in 1 .. Remain + n :
              (Contents \o b)[j] = IF j <= Remain THEN Contents[j] ELSE b[j - Remain]
    BY <1>1, <1>4, ConcatProperties DEF n
  <1>10. Contents \o b = [j \in 1 .. Remain + n |-> (Contents \o b)[j]]
    BY <1>9, LenProperties
  <1> QED
    BY <1>7, <1>8, <1>9, <1>10

LEMMA ContentsSeq ==
    ASSUME TypeOK
    PROVE  Contents \in Seq(Byte) /\ Len(Contents) = Remain
           /\ Remain \in 0 .. MAX_SIZE_STREAM_BUFFER
  <1>1. Remain \in 0 .. MAX_SIZE_STREAM_BUFFER
    BY DEF TypeOK, Remain
  <1> QED
    BY <1>1, CopyOutSeq DEF Contents

LEMMA InitRefines == Init => Queue!SpecInit
  <1> SUFFICES ASSUME Init PROVE Queue!SpecInit
    OBVIOUS
  <1>1. Contents \in Seq(Byte) /\ Len(Contents) = MAX_SIZE_STREAM_BUFFER
    BY InitInv, ContentsSeq DEF Inv, Init, Remain
  <1> QED
    BY <1>1 DEF Init, Queue!SpecInit, Queue!StreamType

LEMMA OpenRefines ==
    ASSUME Inv, NEW c \in ChunkSizes, StreamOpen(c) PROVE Queue!SpecOpen(c)
  <1>1. CASE c > MAX_SIZE_STREAM_BUFFER
    <2>1. UNCHANGED <<is_open, Contents>> /\ Returns(-1, << >>)
      BY <1>1 DEF StreamOpen, ring, Contents, CopyOut, Remain, Wrap
    <2> QED
      BY <1>1, <2>1 DEF Queue!SpecOpen, Queue!Returns, Returns
  <1>2. CASE c <= MAX_SIZE_STREAM_BUFFER
    <2>1. free_size' = MAX_SIZE_STREAM_BUFFER /\ is_open' = TRUE /\ Returns(0, << >>)
      BY <1>2 DEF StreamOpen
    <2>2. Contents' = << >>
      BY <2>1 DEF Contents, CopyOut, Remain
    <2> QED
      BY <1>2, <2>1, <2>2 DEF Queue!SpecOpen, Queue!OpenStream, Queue!Returns, Returns
  <1> QED
    BY <1>1, <1>2

LEMMA AvailableIsNumBytes ==
    ASSUME Inv, NEW n \in ReadSizes
    PROVE  /\ Queue!Available([is_open |-> is_open, data |-> Contents], n) = NumBytesToRead(n)
           /\ Queue!PeekBytes([is_open |-> is_open, data |-> Contents], n) =
                 CopyOut(NumBytesToRead(n))
  BY ContentsSeq, NumBytesRange, CopyOutPrefix
     DEF Inv, Queue!Available, Queue!PeekBytes, NumBytesToRead

LEMMA ReadRefines ==
    ASSUME Inv, NEW n \in ReadSizes, StreamRead(n) PROVE Queue!SpecRead(n)
  <1>1. Contents' = SubSeq(Contents, NumBytesToRead(n) + 1, Len(Contents))
    BY ReadContents
  <1>2. is_open' = is_open /\ Returns(NumBytesToRead(n), CopyOut(NumBytesToRead(n)))
    BY DEF StreamRead
  <1> DEFINE q == [is_open |-> is_open, data |-> Contents]
  <1>3. Queue!AfterRead(q, n) =
           [is_open |-> is_open,
            data |-> SubSeq(Contents, NumBytesToRead(n) + 1, Len(Contents))]
    BY AvailableIsNumBytes DEF Queue!AfterRead
  <1>4. Queue!Returns(Queue!Available(q, n), Queue!PeekBytes(q, n))
    BY <1>2, AvailableIsNumBytes DEF Queue!Returns, Returns
  <1> QED
    BY <1>1, <1>2, <1>3, <1>4 DEF Queue!SpecRead

LEMMA PeekRefines ==
    ASSUME Inv, NEW n \in ReadSizes, StreamPeek(n) PROVE Queue!SpecPeek(n)
  <1>1. UNCHANGED <<is_open, Contents>>
    BY DEF StreamPeek, ring, Contents, CopyOut, Remain, Wrap
  <1>2. Returns(NumBytesToRead(n), CopyOut(NumBytesToRead(n)))
    BY DEF StreamPeek
  <1> QED
    BY <1>1, <1>2, AvailableIsNumBytes DEF Queue!SpecPeek, Queue!Returns, Returns

LEMMA WriteRefines ==
    ASSUME Inv, NEW b \in Writes, StreamWrite(b) PROVE Queue!SpecWrite(b)
  <1>1. /\ Len(b) \in Nat
        /\ Len(Contents) = MAX_SIZE_STREAM_BUFFER - free_size
        /\ free_size \in 0 .. MAX_SIZE_STREAM_BUFFER
    BY ContentsSeq DEF Inv, TypeOK, Remain
  <1>2. Queue!WriteFits([is_open |-> is_open, data |-> Contents], b) <=> Len(b) <= free_size
    BY <1>1 DEF Queue!WriteFits
  <1>3. CASE Len(b) > free_size
    <2>1. UNCHANGED <<is_open, Contents>> /\ Returns(-1, << >>)
      BY <1>1, <1>3 DEF StreamWrite, ring, Contents, CopyOut, Remain, Wrap
    <2> QED
      BY <1>1, <1>2, <1>3, <2>1
         DEF Queue!SpecWrite, Queue!AfterWrite, Queue!Returns, Returns
  <1>4. CASE Len(b) <= free_size
    <2>1. /\ is_open' = is_open
          /\ Returns(0, << >>)
          /\ Contents' = Contents \o b
      BY <1>1, <1>4, WriteContents DEF StreamWrite
    <2> QED
      BY <1>2, <1>4, <2>1
         DEF Queue!SpecWrite, Queue!AfterWrite, Queue!Returns, Returns
  <1> QED
    BY <1>1, <1>3, <1>4

LEMMA CloseRefines == ASSUME Inv, StreamClose PROVE Queue!SpecClose
  <1>1. Contents' = Contents
    BY DEF StreamClose, Contents, CopyOut, Remain, Wrap
  <1>2. is_open' = FALSE /\ Returns(0, << >>)
    BY DEF StreamClose
  <1>3. Queue!CloseStream([is_open |-> is_open, data |-> Contents]) =
           [is_open |-> FALSE, data |-> Contents]
    BY DEF Queue!CloseStream
  <1> QED
    BY <1>1, <1>2, <1>3 DEF Queue!SpecClose, Queue!Returns, Returns

LEMMA LevelRefines == ASSUME Inv, StreamLevel PROVE Queue!SpecLevel
  <1>1. UNCHANGED <<is_open, Contents>>
    BY DEF StreamLevel, ring, Contents, CopyOut, Remain, Wrap
  <1>2. Contents = << >> <=> Remain = 0
    BY ContentsSeq, EmptySeq DEF Inv
  <1> QED
    BY <1>1, <1>2, ContentsSeq
       DEF Inv, StreamLevel, Queue!SpecLevel, Queue!StreamLevel, Queue!StreamIsEmpty,
           Queue!Returns, Returns

LEMMA NextRefines == Inv /\ [Next]_vars => [Queue!SpecNext]_(Queue!specVars)
  <1> SUFFICES ASSUME Inv, [Next]_vars PROVE [Queue!SpecNext]_(Queue!specVars)
    OBVIOUS
  <1> USE DEF Queue!SpecNext
  <1>1. ASSUME NEW c \in ChunkSizes, StreamOpen(c) PROVE Queue!SpecNext
    BY <1>1, OpenRefines
  <1>2. ASSUME NEW n \in ReadSizes, StreamRead(n) PROVE Queue!SpecNext
    BY <1>2, ReadRefines
  <1>3. ASSUME NEW n \in ReadSizes, StreamPeek(n) PROVE Queue!SpecNext
    BY <1>3, PeekRefines
  <1>4. ASSUME NEW b \in Writes, StreamWrite(b) PROVE Queue!SpecNext
    BY <1>4, WriteRefines
  <1>5. CASE StreamClose
    BY <1>5, CloseRefines
  <1>6. CASE StreamLevel
    BY <1>6, LevelRefines
  <1>7. CASE UNCHANGED vars
    BY <1>7 DEF vars, Queue!specVars, Contents, CopyOut, Remain, Wrap
  <1> QED
    BY <1>1, <1>2, <1>3, <1>4, <1>5, <1>6, <1>7 DEF Next

\* For every capacity the ring buffer is a first-in first-out byte queue: a
\* reader gets the written bytes in order, none twice, none lost.
THEOREM RingImplementsQueue == Spec => ImplementsQueue
  <1>1. Inv /\ [Next]_vars => [Queue!SpecNext]_(Queue!specVars)
    BY NextRefines
  <1> QED
    BY <1>1, InitInv, NextInv, InitRefines, PTL DEF Spec, ImplementsQueue, Queue!SpecSpec
==============================================================================

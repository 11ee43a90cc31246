---------------------------- MODULE BufferProofs ----------------------------
(***************************************************************************)
(* What holds of Buffer for every size and every input: its indices stay   *)
(* in bounds, it grows only when it must, and it is a queue of bytes.      *)
(*                                                                         *)
(* Each operator of Buffer has a lemma that says what it makes of the      *)
(* contents and of the free space; the steps follow from those.            *)
(***************************************************************************)
EXTENDS Buffer, SequenceTheorems, TLAPS

\* What is between the indices is a sequence of bytes.
LEMMA ContentsType ==
  ASSUME NEW b, WellFormed(b)
  PROVE  /\ Contents(b) \in Seq(Byte)
         /\ Len(Contents(b)) = ReadableBytes(b)
         /\ ReadableBytes(b) \in Nat
         /\ WritableBytes(b) \in Nat
         /\ \A i \in 1 .. ReadableBytes(b) :
              Contents(b)[i] = b.data[b.reader + i - 1]
PROOF
<1>1. ReadableBytes(b) \in Nat /\ WritableBytes(b) \in Nat
  BY SizesAssumption DEF WellFormed, ReadableBytes, WritableBytes
<1>2. \A i \in 1 .. ReadableBytes(b) : b.data[b.reader + i - 1] \in Byte
  BY SizesAssumption DEF WellFormed, ReadableBytes
<1>3. Contents(b) \in [1 .. ReadableBytes(b) -> Byte]
  BY <1>2 DEF Contents
<1>4. Contents(b) \in Seq(Byte)
  BY <1>1, <1>3, SeqDef
<1>5. Len(Contents(b)) = ReadableBytes(b)
  BY <1>1, <1>3, <1>4, LenProperties
<1> QED
  BY <1>1, <1>4, <1>5 DEF Contents

\* A buffer is well-formed when its parts are.
LEMMA BufWellFormed ==
  ASSUME NEW size \in Nat, NEW reader \in Nat, NEW writer \in Nat,
         NEW data \in [0 .. size - 1 -> Byte],
         CheapPrepend <= reader, reader <= writer, writer <= size
  PROVE  WellFormed(Buf(data, size, reader, writer))
PROOF BY DEF WellFormed, Buf

\* Two buffers whose readable parts agree byte by byte have the same contents.
LEMMA SameContents ==
  ASSUME NEW b, NEW c, WellFormed(b), WellFormed(c),
         ReadableBytes(b) = ReadableBytes(c),
         \A i \in 1 .. ReadableBytes(b) :
           b.data[b.reader + i - 1] = c.data[c.reader + i - 1]
  PROVE  Contents(b) = Contents(c)
PROOF BY DEF Contents

\* Growing keeps the contents.
LEMMA ResizeKeeps ==
  ASSUME NEW b, WellFormed(b), NEW size \in Nat, b.size <= size
  PROVE  /\ WellFormed(Resize(b, size))
         /\ Contents(Resize(b, size)) = Contents(b)
         /\ WritableBytes(Resize(b, size)) = size - b.writer
         /\ Resize(b, size).size = size
PROOF
<1> DEFINE c == Resize(b, size)
<1>1. /\ c.size = size /\ c.reader = b.reader /\ c.writer = b.writer
      /\ c.data = [i \in 0 .. size - 1 |->
                     IF i < b.size THEN b.data[i] ELSE Zero]
  BY DEF Resize, Buf
<1>2. c.data \in [0 .. size - 1 -> Byte]
  BY <1>1, ByteAssumption DEF WellFormed
<1>3. WellFormed(c)
  <2>1. c = Buf(c.data, c.size, c.reader, c.writer)
    BY DEF Resize, Buf
  <2> QED BY <2>1, <1>1, <1>2 DEF WellFormed
<1>4. \A i \in 1 .. ReadableBytes(b) :
        b.data[b.reader + i - 1] = c.data[c.reader + i - 1]
  BY <1>1, SizesAssumption DEF WellFormed, ReadableBytes
<1>5. ReadableBytes(b) = ReadableBytes(c)
  BY <1>1 DEF ReadableBytes
<1>6. Contents(c) = Contents(b)
  BY <1>3, <1>4, <1>5, SameContents
<1> QED BY <1>1, <1>3, <1>6 DEF WritableBytes

\* Moving the readable part down keeps the contents.
LEMMA MoveDownKeeps ==
  ASSUME NEW b, WellFormed(b)
  PROVE  /\ WellFormed(MoveDown(b))
         /\ Contents(MoveDown(b)) = Contents(b)
         /\ WritableBytes(MoveDown(b)) =
              b.size - (CheapPrepend + ReadableBytes(b))
         /\ MoveDown(b).size = b.size
PROOF
<1> DEFINE c == MoveDown(b)
<1> DEFINE n == ReadableBytes(b)
<1>1. /\ c.size = b.size /\ c.reader = CheapPrepend
      /\ c.writer = CheapPrepend + n
      /\ c.data = [i \in 0 .. b.size - 1 |->
                     IF i \in CheapPrepend .. CheapPrepend + n - 1
                     THEN b.data[b.reader + (i - CheapPrepend)]
                     ELSE b.data[i]]
  BY DEF MoveDown, Buf
<1>2. n \in Nat /\ CheapPrepend + n <= b.size
  BY SizesAssumption DEF WellFormed, ReadableBytes
<1>3. c.data \in [0 .. b.size - 1 -> Byte]
  <2> SUFFICES ASSUME NEW i \in 0 .. b.size - 1
               PROVE  c.data[i] \in Byte
    BY <1>1
  <2>1. CASE i \in CheapPrepend .. CheapPrepend + n - 1
    <3>1. b.reader + (i - CheapPrepend) \in 0 .. b.size - 1
      BY <2>1, SizesAssumption DEF WellFormed, ReadableBytes
    <3> QED BY <1>1, <2>1, <3>1 DEF WellFormed
  <2>2. CASE i \notin CheapPrepend .. CheapPrepend + n - 1
    BY <1>1, <2>2 DEF WellFormed
  <2> QED BY <2>1, <2>2
<1>4. WellFormed(c)
  <2>1. c = Buf(c.data, c.size, c.reader, c.writer)
    BY DEF MoveDown, Buf
  <2>2. /\ c.size \in Nat /\ c.reader \in Nat /\ c.writer \in Nat
        /\ c.reader <= c.writer /\ c.writer <= c.size
    BY <1>1, <1>2, SizesAssumption DEF WellFormed
  <2> QED BY <2>1, <2>2, <1>1, <1>3, SizesAssumption DEF WellFormed
<1>5. ReadableBytes(c) = n
  BY <1>1, <1>2, SizesAssumption DEF ReadableBytes
<1>6. \A i \in 1 .. n : b.data[b.reader + i - 1] = c.data[c.reader + i - 1]
  <2> TAKE i \in 1 .. n
  <2>1. /\ c.reader + i - 1 \in CheapPrepend .. CheapPrepend + n - 1
        /\ c.reader + i - 1 \in 0 .. b.size - 1
    BY <1>1, <1>2, SizesAssumption DEF WellFormed
  <2>2. c.data[c.reader + i - 1]
          = b.data[b.reader + ((c.reader + i - 1) - CheapPrepend)]
    BY <1>1, <2>1
  <2>3. b.reader + ((c.reader + i - 1) - CheapPrepend) = b.reader + i - 1
    BY <1>1, SizesAssumption DEF WellFormed
  <2> QED BY <2>2, <2>3
<1>7. Contents(c) = Contents(b)
  BY <1>4, <1>5, <1>6, SameContents
<1> QED BY <1>1, <1>4, <1>7 DEF WritableBytes

\* makeSpace(len) makes room for len bytes and keeps the contents; it grows
\* the vector only when they and the contents do not fit in it.
LEMMA MakeSpaceMakesRoom ==
  ASSUME NEW b, WellFormed(b), NEW len \in Nat, WritableBytes(b) < len
  PROVE  /\ WellFormed(MakeSpace(b, len))
         /\ Contents(MakeSpace(b, len)) = Contents(b)
         /\ len <= WritableBytes(MakeSpace(b, len))
         /\ MakeSpace(b, len).size # b.size =>
              b.size < CheapPrepend + ReadableBytes(b) + len
PROOF
<1>1. CASE WritableBytes(b) + PrependableBytes(b) < len + CheapPrepend
  <2>1. MakeSpace(b, len) = Resize(b, len + b.writer)
    BY <1>1 DEF MakeSpace
  <2>2. len + b.writer \in Nat /\ b.size <= len + b.writer
    BY DEF WellFormed, WritableBytes
  <2>3. (len + b.writer) - b.writer = len
    BY DEF WellFormed
  <2>4. b.size < CheapPrepend + ReadableBytes(b) + len
    BY <1>1, SizesAssumption
    DEF WellFormed, WritableBytes, PrependableBytes, ReadableBytes
  <2> QED BY <2>1, <2>2, <2>3, <2>4, ResizeKeeps
<1>2. CASE ~(WritableBytes(b) + PrependableBytes(b) < len + CheapPrepend)
  <2>1. MakeSpace(b, len) = MoveDown(b)
    BY <1>2 DEF MakeSpace
  <2>2. len <= b.size - (CheapPrepend + ReadableBytes(b))
    BY <1>2, SizesAssumption
    DEF WellFormed, WritableBytes, PrependableBytes, ReadableBytes
  <2> QED BY <2>1, <2>2, MoveDownKeeps
<1> QED BY <1>1, <1>2

LEMMA EnsureMakesRoom ==
  ASSUME NEW b, WellFormed(b), NEW len \in Nat
  PROVE  /\ WellFormed(EnsureWritableBytes(b, len))
         /\ Contents(EnsureWritableBytes(b, len)) = Contents(b)
         /\ len <= WritableBytes(EnsureWritableBytes(b, len))
         /\ EnsureWritableBytes(b, len).size # b.size =>
              b.size < CheapPrepend + ReadableBytes(b) + len
PROOF
<1>1. CASE WritableBytes(b) < len
  BY <1>1, MakeSpaceMakesRoom DEF EnsureWritableBytes
<1>2. CASE ~(WritableBytes(b) < len)
  <2>1. EnsureWritableBytes(b, len) = b
    BY <1>2 DEF EnsureWritableBytes
  <2>2. len <= WritableBytes(b)
    BY <1>2, ContentsType
  <2> QED BY <2>1, <2>2
<1> QED BY <1>1, <1>2

\* Bytes that fit are put behind the contents.
LEMMA FillAppends ==
  ASSUME NEW b, WellFormed(b), NEW bytes \in Seq(Byte),
         Len(bytes) <= WritableBytes(b)
  PROVE  /\ WellFormed(Fill(b, bytes))
         /\ Contents(Fill(b, bytes)) = Contents(b) \o bytes
         /\ Fill(b, bytes).size = b.size
         /\ WritableBytes(Fill(b, bytes)) = WritableBytes(b) - Len(bytes)
         /\ ReadableBytes(Fill(b, bytes)) = ReadableBytes(b) + Len(bytes)
PROOF
<1> DEFINE c == Fill(b, bytes)
<1> DEFINE n == ReadableBytes(b)
<1>0. Len(bytes) \in Nat
  BY LenProperties
<1>1. /\ c.size = b.size /\ c.reader = b.reader
      /\ c.writer = b.writer + Len(bytes)
      /\ c.data = [i \in 0 .. b.size - 1 |->
                     IF i \in b.writer .. b.writer + Len(bytes) - 1
                     THEN bytes[i - b.writer + 1] ELSE b.data[i]]
  BY DEF Fill, Buf
<1>2. b.writer + Len(bytes) \in Nat /\ b.writer + Len(bytes) <= b.size
  BY <1>0 DEF WellFormed, WritableBytes
<1>3. c.data \in [0 .. b.size - 1 -> Byte]
  <2> SUFFICES ASSUME NEW i \in 0 .. b.size - 1
               PROVE  c.data[i] \in Byte
    BY <1>1
  <2>1. CASE i \in b.writer .. b.writer + Len(bytes) - 1
    <3>1. i - b.writer + 1 \in 1 .. Len(bytes)
      BY <2>1, <1>0 DEF WellFormed
    <3>2. bytes[i - b.writer + 1] \in Byte
      BY <3>1, ElementOfSeq
    <3> QED BY <1>1, <2>1, <3>2
  <2>2. CASE i \notin b.writer .. b.writer + Len(bytes) - 1
    BY <1>1, <2>2 DEF WellFormed
  <2> QED BY <2>1, <2>2
<1>4. WellFormed(c)
  <2>1. c = Buf(c.data, c.size, c.reader, c.writer)
    BY DEF Fill, Buf
  <2>2. /\ c.size \in Nat /\ c.reader \in Nat /\ c.writer \in Nat
        /\ CheapPrepend <= c.reader
        /\ c.reader <= c.writer /\ c.writer <= c.size
    BY <1>0, <1>1, <1>2 DEF WellFormed
  <2> QED BY <2>1, <2>2, <1>1, <1>3 DEF WellFormed
<1>5. ReadableBytes(c) = n + Len(bytes)
  BY <1>0, <1>1 DEF WellFormed, ReadableBytes
<1>6. WritableBytes(c) = WritableBytes(b) - Len(bytes)
  BY <1>0, <1>1 DEF WellFormed, WritableBytes
<1>7. /\ Contents(b) \in Seq(Byte) /\ Len(Contents(b)) = n /\ n \in Nat
      /\ \A i \in 1 .. n : Contents(b)[i] = b.data[b.reader + i - 1]
  BY ContentsType
<1>8. /\ Contents(c) \in Seq(Byte) /\ Len(Contents(c)) = n + Len(bytes)
      /\ \A i \in 1 .. n + Len(bytes) :
           Contents(c)[i] = c.data[c.reader + i - 1]
  BY <1>4, <1>5, ContentsType
<1>9. /\ Contents(b) \o bytes \in Seq(Byte)
      /\ Len(Contents(b) \o bytes) = n + Len(bytes)
      /\ \A i \in 1 .. n + Len(bytes) :
           (Contents(b) \o bytes)[i] =
             IF i <= n THEN Contents(b)[i] ELSE bytes[i - n]
  <2> DEFINE s == Contents(b)
  <2>1. s \in Seq(Byte) /\ Len(s) = n
    BY <1>7
  <2> HIDE DEF s, n
  <2>2. /\ s \o bytes \in Seq(Byte)
        /\ Len(s \o bytes) = Len(s) + Len(bytes)
        /\ \A i \in 1 .. Len(s) + Len(bytes) : (s \o bytes)[i] =
             IF i <= Len(s) THEN s[i] ELSE bytes[i - Len(s)]
    BY <2>1, ConcatProperties
  <2>3. /\ s \o bytes \in Seq(Byte)
        /\ Len(s \o bytes) = n + Len(bytes)
        /\ \A i \in 1 .. n + Len(bytes) : (s \o bytes)[i] =
             IF i <= n THEN s[i] ELSE bytes[i - n]
    BY <2>1, <2>2
  <2> QED BY <2>3 DEF s
<1>10. \A i \in 1 .. n + Len(bytes) :
         Contents(c)[i] = (Contents(b) \o bytes)[i]
  <2> TAKE i \in 1 .. n + Len(bytes)
  <2>0. /\ i \in Nat /\ 1 <= i /\ i <= n + Len(bytes)
        /\ b.reader \in Nat /\ b.writer = b.reader + n
    BY <1>0, <1>7 DEF WellFormed, ReadableBytes
  <2> HIDE DEF c, n
  <2>1. c.reader + i - 1 \in 0 .. b.size - 1
    <3>1. c.reader = b.reader /\ b.size \in Nat
      BY <1>1 DEF WellFormed
    <3> QED BY <3>1, <2>0, <1>0, <1>2, <1>7
  <2>2. CASE i <= n
    <3>1. /\ i \in 1 .. n
          /\ c.reader + i - 1 \notin b.writer .. b.writer + Len(bytes) - 1
      BY <2>2, <2>0, <1>0, <1>1, <1>7
    <3>2. c.data[c.reader + i - 1] = b.data[b.reader + i - 1]
      BY <1>1, <2>1, <3>1
    <3> QED BY <3>1, <3>2, <2>2, <1>7, <1>8, <1>9
  <2>3. CASE ~(i <= n)
    <3>1. /\ c.reader + i - 1 \in b.writer .. b.writer + Len(bytes) - 1
          /\ (c.reader + i - 1) - b.writer + 1 = i - n
      BY <2>3, <2>0, <1>0, <1>1, <1>7
    <3>2. c.data[c.reader + i - 1] = bytes[i - n]
      BY <1>1, <2>1, <3>1
    <3> QED BY <3>2, <2>3, <1>8, <1>9
  <2> QED BY <2>2, <2>3
<1>11. Contents(c) = Contents(b) \o bytes
  BY <1>8, <1>9, <1>10, SeqEqual
<1> QED BY <1>1, <1>4, <1>5, <1>6, <1>11

\* append puts its bytes behind the contents.
LEMMA AppendedAppends ==
  ASSUME NEW b, WellFormed(b), NEW bytes \in Seq(Byte)
  PROVE  /\ WellFormed(Appended(b, bytes))
         /\ Contents(Appended(b, bytes)) = Contents(b) \o bytes
         /\ ReadableBytes(Appended(b, bytes)) = ReadableBytes(b) + Len(bytes)
         /\ Appended(b, bytes).size # b.size =>
              b.size < CheapPrepend + ReadableBytes(b) + Len(bytes)
PROOF
<1> DEFINE c == EnsureWritableBytes(b, Len(bytes))
<1>1. Len(bytes) \in Nat
  BY LenProperties
<1>2. /\ WellFormed(c) /\ Contents(c) = Contents(b)
      /\ Len(bytes) <= WritableBytes(c)
      /\ c.size # b.size =>
           b.size < CheapPrepend + ReadableBytes(b) + Len(bytes)
  BY <1>1, EnsureMakesRoom
<1>3. ReadableBytes(c) = ReadableBytes(b)
  BY <1>2, ContentsType
<1> HIDE DEF c
<1>4. /\ WellFormed(Fill(c, bytes))
      /\ Contents(Fill(c, bytes)) = Contents(c) \o bytes
      /\ Fill(c, bytes).size = c.size
      /\ ReadableBytes(Fill(c, bytes)) = ReadableBytes(c) + Len(bytes)
  BY <1>2, FillAppends
<1>5. Appended(b, bytes) = Fill(c, bytes)
  BY DEF Appended, c
<1> QED BY <1>2, <1>3, <1>4, <1>5

\* What readv read into two areas ends up in one piece behind the contents.
LEMMA ReadInAppends ==
  ASSUME NEW b, WellFormed(b), NEW bytes \in Seq(Byte)
  PROVE  /\ WellFormed(ReadIn(b, bytes))
         /\ Contents(ReadIn(b, bytes)) = Contents(b) \o bytes
         /\ ReadableBytes(ReadIn(b, bytes)) = ReadableBytes(b) + Len(bytes)
         /\ ReadIn(b, bytes).size # b.size =>
              b.size < CheapPrepend + ReadableBytes(b) + Len(bytes)
PROOF
<1> DEFINE w == WritableBytes(b)
<1>0. Len(bytes) \in Nat /\ w \in Nat
  BY LenProperties, ContentsType
<1>1. CASE Len(bytes) <= w
  <2>1. ReadIn(b, bytes) = Fill(b, bytes)
    BY <1>1 DEF ReadIn
  <2> QED BY <2>1, <1>1, FillAppends
<1>2. CASE ~(Len(bytes) <= w)
  <2> DEFINE first == SubSeq(bytes, 1, w)
  <2> DEFINE rest == SubSeq(bytes, w + 1, Len(bytes))
  <2> DEFINE c == Fill(b, first)
  <2>1. ReadIn(b, bytes) = Appended(c, rest)
    BY <1>2 DEF ReadIn
  <2>2. /\ first \in Seq(Byte) /\ Len(first) = w
        /\ rest \in Seq(Byte) /\ Len(rest) = Len(bytes) - w
        /\ first \o rest = bytes
    <3> HIDE DEF w
    <3>1. /\ first \in Seq(Byte) /\ Len(first) = w
          /\ \A i \in 1 .. w : first[i] = bytes[i]
      BY <1>0, <1>2, LenProperties
    <3>2. /\ rest \in Seq(Byte) /\ Len(rest) = Len(bytes) - w
          /\ \A i \in 1 .. Len(bytes) - w : rest[i] = bytes[w + i]
      BY <1>0, <1>2, LenProperties
    <3> HIDE DEF first, rest
    <3>3. /\ first \o rest \in Seq(Byte)
          /\ Len(first \o rest) = Len(first) + Len(rest)
          /\ \A i \in 1 .. Len(first) + Len(rest) : (first \o rest)[i] =
               IF i <= Len(first) THEN first[i] ELSE rest[i - Len(first)]
      BY <3>1, <3>2, ConcatProperties
    <3>4. Len(first \o rest) = Len(bytes)
      BY <3>1, <3>2, <3>3, <1>0
    <3>5. \A i \in 1 .. Len(bytes) : (first \o rest)[i] = bytes[i]
      BY <3>1, <3>2, <3>3, <1>0, <1>2
    <3> QED BY <3>1, <3>2, <3>3, <3>4, <3>5, SeqEqual
  <2> HIDE DEF first, rest
  <2>3. /\ WellFormed(c) /\ Contents(c) = Contents(b) \o first
        /\ c.size = b.size
        /\ ReadableBytes(c) = ReadableBytes(b) + w
    BY <2>2, <1>0, FillAppends
  <2> HIDE DEF c
  <2>4. /\ WellFormed(Appended(c, rest))
        /\ Contents(Appended(c, rest)) = Contents(c) \o rest
        /\ ReadableBytes(Appended(c, rest)) = ReadableBytes(c) + Len(rest)
        /\ Appended(c, rest).size # c.size =>
             c.size < CheapPrepend + ReadableBytes(c) + Len(rest)
    BY <2>2, <2>3, AppendedAppends
  <2>5. (Contents(b) \o first) \o rest = Contents(b) \o (first \o rest)
    <3>1. Contents(b) \in Seq(Byte)
      BY ContentsType
    <3>2. first \in Seq(Byte) /\ rest \in Seq(Byte)
      BY <2>2
    <3>3. \A s, t, u \in Seq(Byte) : (s \o t) \o u = s \o (t \o u)
      BY ConcatAssociative
    <3> QED BY <3>1, <3>2, <3>3
  <2>6. ReadableBytes(c) + Len(rest) = ReadableBytes(b) + Len(bytes)
    BY <2>2, <2>3, <1>0, ContentsType
  <2>7. CheapPrepend + ReadableBytes(c) + Len(rest)
          = CheapPrepend + ReadableBytes(b) + Len(bytes)
    BY <2>6, <2>2, <2>3, <1>0, ContentsType, SizesAssumption
  <2> QED BY <2>1, <2>2, <2>3, <2>4, <2>5, <2>6, <2>7
<1> QED BY <1>1, <1>2

\* retrieve takes from the front, and empties the buffer when asked for all
\* there is or more.
LEMMA RetrievedDrops ==
  ASSUME NEW b, WellFormed(b), NEW len \in Nat
  PROVE  /\ WellFormed(Retrieved(b, len))
         /\ Retrieved(b, len).size = b.size
         /\ len <= ReadableBytes(b) =>
              Contents(Retrieved(b, len))
                = SubSeq(Contents(b), len + 1, Len(Contents(b)))
         /\ ReadableBytes(b) <= len => Contents(Retrieved(b, len)) = <<>>
PROOF
<1> DEFINE n == ReadableBytes(b)
<1> DEFINE c == Retrieved(b, len)
<1>1. /\ Contents(b) \in Seq(Byte) /\ Len(Contents(b)) = n /\ n \in Nat
      /\ \A i \in 1 .. n : Contents(b)[i] = b.data[b.reader + i - 1]
  BY ContentsType
<1>2. CASE len < n
  <2>1. c = Buf(b.data, b.size, b.reader + len, b.writer)
    BY <1>2 DEF Retrieved
  <2>2. /\ c.size = b.size /\ c.data = b.data
        /\ c.reader = b.reader + len /\ c.writer = b.writer
    BY <2>1 DEF Buf
  <2>3. WellFormed(c)
    <3>1. /\ b.size \in Nat /\ b.reader + len \in Nat /\ b.writer \in Nat
          /\ b.data \in [0 .. b.size - 1 -> Byte]
          /\ CheapPrepend <= b.reader + len
          /\ b.reader + len <= b.writer /\ b.writer <= b.size
      BY <1>2, SizesAssumption DEF WellFormed, ReadableBytes
    <3>2. WellFormed(Buf(b.data, b.size, b.reader + len, b.writer))
      BY <3>1, BufWellFormed
    <3> QED BY <2>1, <3>2
  <2>4. ReadableBytes(c) = n - len
    BY <2>2, <1>2 DEF WellFormed, ReadableBytes
  <2>5. /\ Contents(c) \in Seq(Byte) /\ Len(Contents(c)) = n - len
        /\ \A i \in 1 .. n - len :
             Contents(c)[i] = c.data[c.reader + i - 1]
    BY <2>3, <2>4, ContentsType
  <2> DEFINE s == Contents(b)
  <2> DEFINE t == SubSeq(s, len + 1, Len(s))
  <2>6. /\ t \in Seq(Byte) /\ Len(t) = n - len
        /\ \A i \in 1 .. n - len : t[i] = s[len + i]
    <3> HIDE DEF s, n
    <3>1. s \in Seq(Byte) /\ Len(s) = n /\ n \in Nat
      BY <1>1 DEF s
    <3>2. s \in [1 .. n -> Byte]
      BY <3>1, LenProperties
    <3> QED BY <3>1, <3>2, <1>2
  <2>7. \A i \in 1 .. n - len : Contents(c)[i] = t[i]
    <3> TAKE i \in 1 .. n - len
    <3>1. len + i \in 1 .. n
      BY <1>1, <1>2
    <3>2. c.reader + i - 1 = b.reader + (len + i) - 1
      BY <2>2, <1>1, <1>2 DEF WellFormed
    <3>3. s[len + i] = b.data[b.reader + (len + i) - 1]
      BY <3>1, <1>1
    <3> QED BY <3>2, <3>3, <2>2, <2>5, <2>6
  <2>8. Contents(c) = t
    BY <2>5, <2>6, <2>7, SeqEqual
  <2> QED BY <2>2, <2>3, <2>8, <1>1, <1>2
<1>3. CASE ~(len < n)
  <2>1. c = Buf(b.data, b.size, CheapPrepend, CheapPrepend)
    BY <1>3 DEF Retrieved, Reset
  <2>2. /\ c.size = b.size
        /\ c.reader = CheapPrepend /\ c.writer = CheapPrepend
    BY <2>1 DEF Buf
  <2>3. WellFormed(c)
    <3>1. CheapPrepend <= b.size
      BY SizesAssumption DEF WellFormed
    <3>2. /\ b.size \in Nat /\ CheapPrepend \in Nat
          /\ b.data \in [0 .. b.size - 1 -> Byte]
          /\ CheapPrepend <= CheapPrepend
      BY SizesAssumption DEF WellFormed
    <3>3. WellFormed(Buf(b.data, b.size, CheapPrepend, CheapPrepend))
      BY <3>1, <3>2, BufWellFormed
    <3> QED BY <2>1, <3>3
  <2>4. ReadableBytes(c) = 0
    BY <2>2, SizesAssumption DEF ReadableBytes
  <2>5. Contents(c) = <<>>
    <3>1. Contents(c) \in Seq(Byte) /\ Len(Contents(c)) = 0
      BY <2>3, <2>4, ContentsType
    <3> QED BY <3>1, EmptySeq
  <2>6. len <= n => SubSeq(Contents(b), len + 1, Len(Contents(b))) = <<>>
    <3> SUFFICES ASSUME len <= n
                 PROVE  SubSeq(Contents(b), len + 1, Len(Contents(b))) = <<>>
      OBVIOUS
    <3>1. Len(Contents(b)) < len + 1 /\ Len(Contents(b)) \in Int
      BY <1>1, <1>3
    <3> QED BY <3>1, SubSeqEmpty
  <2> QED BY <2>2, <2>3, <2>5, <2>6
<1> QED BY <1>2, <1>3
-----------------------------------------------------------------------------
(***************************************************************************)
(* The specification.                                                      *)
(***************************************************************************)
LEMMA InitTypeOK == Init => TypeOK
PROOF
<1> SUFFICES ASSUME Init PROVE TypeOK
  OBVIOUS
<1> DEFINE size == CheapPrepend + InitialSize
<1>1. size \in Nat /\ CheapPrepend \in Nat /\ CheapPrepend <= size
  BY SizesAssumption
<1>2. [i \in 0 .. size - 1 |-> Zero] \in [0 .. size - 1 -> Byte]
  BY ByteAssumption
<1> HIDE DEF size
<1>3. WellFormed(Buf([i \in 0 .. size - 1 |-> Zero],
                     size, CheapPrepend, CheapPrepend))
  <2>1. CheapPrepend <= CheapPrepend
    BY SizesAssumption
  <2> QED BY <1>1, <1>2, <2>1, BufWellFormed
<1>4. WellFormed(buf)
  <2>1. buf = Buf([i \in 0 .. size - 1 |-> Zero],
                  size, CheapPrepend, CheapPrepend)
    <3>1. CheapPrepend + InitialSize - 1 = size - 1
      BY SizesAssumption DEF size
    <3> QED BY <3>1 DEF Init, size
  <2> QED BY <2>1, <1>3
<1>5. moved \in Seq(Byte)
  BY EmptySeq DEF Init
<1> QED BY <1>4, <1>5 DEF TypeOK

LEMMA PrefixOfContents ==
  ASSUME NEW b, WellFormed(b), NEW n \in 0 .. ReadableBytes(b)
  PROVE  SubSeq(Contents(b), 1, n) \in Seq(Byte)
PROOF
<1> DEFINE s == Contents(b)
<1>1. s \in Seq(Byte) /\ Len(s) = ReadableBytes(b) /\ n \in Nat
  BY ContentsType
<1> HIDE DEF s
<1>2. \A i \in 1 .. n : s[i] \in Byte
  BY <1>1, ElementOfSeq
<1>3. SubSeq(s, 1, n) \in Seq(Byte)
  BY <1>1, <1>2, SubSeqProperties
<1> QED BY <1>3 DEF s

\* Each operation keeps the buffer well-formed.
LEMMA NextTypeOK == TypeOK /\ [Next]_vars => TypeOK'
PROOF
<1> SUFFICES ASSUME TypeOK, [Next]_vars PROVE TypeOK'
  OBVIOUS
<1>0. WellFormed(buf) /\ moved \in Seq(Byte)
  BY DEF TypeOK
<1>1. ASSUME NEW bytes \in Inputs, AppendBytes(bytes)
      PROVE  TypeOK'
  <2>1. bytes \in Seq(Byte)
    BY InputsAssumption
  <2> QED BY <1>0, <1>1, <2>1, AppendedAppends DEF AppendBytes, TypeOK
<1>2. ASSUME NEW bytes \in Inputs, ReadFd(bytes)
      PROVE  TypeOK'
  <2>1. bytes \in Seq(Byte)
    BY InputsAssumption
  <2> QED BY <1>0, <1>2, <2>1, ReadInAppends DEF ReadFd, TypeOK
<1>3. ASSUME NEW n \in 0 .. ReadableBytes(buf), WriteFd(n)
      PROVE  TypeOK'
  BY <1>0, <1>3, PrefixOfContents DEF WriteFd, TypeOK
<1>4. ASSUME NEW n \in 0 .. ReadableBytes(buf), RetrieveAsString(n)
      PROVE  TypeOK'
  <2>1. n \in Nat
    BY <1>0, ContentsType
  <2> QED BY <1>0, <1>4, <2>1, PrefixOfContents, RetrievedDrops
          DEF RetrieveAsString, TypeOK
<1>5. ASSUME NEW len \in 0 .. MaxReadable + 1, Retrieve(len)
      PROVE  TypeOK'
  <2>1. len \in Nat
    BY SizesAssumption
  <2> QED BY <1>0, <1>5, <2>1, RetrievedDrops DEF Retrieve, TypeOK
<1>6. CASE UNCHANGED vars
  BY <1>0, <1>6 DEF TypeOK, vars
<1> QED BY <1>1, <1>2, <1>3, <1>4, <1>5, <1>6 DEF Next

\* The indices of a buffer stay in order and in the vector, for every
\* prepend area, initial size, extrabuf and input (Buffer.h, Buffer.cc).
THEOREM BufferTypeCorrect == Spec => []TypeOK
PROOF
<1>1. Init => TypeOK
  BY InitTypeOK
<1>2. TypeOK /\ [Next]_vars => TypeOK'
  BY NextTypeOK
<1> QED BY <1>1, <1>2, PTL DEF Spec

LEMMA GrowthStep ==
  TypeOK /\ [Next]_vars =>
    [buf'.size # buf.size =>
       buf.size < CheapPrepend + ReadableBytes(buf')]_vars
PROOF
<1> SUFFICES ASSUME TypeOK, Next, buf'.size # buf.size
             PROVE  buf.size < CheapPrepend + ReadableBytes(buf')
  OBVIOUS
<1>0. WellFormed(buf)
  BY DEF TypeOK
<1>1. ASSUME NEW bytes \in Inputs, AppendBytes(bytes) \/ ReadFd(bytes)
      PROVE  buf.size < CheapPrepend + ReadableBytes(buf')
  <2>1. bytes \in Seq(Byte)
    BY InputsAssumption
  <2>2. /\ ReadableBytes(buf') = ReadableBytes(buf) + Len(bytes)
        /\ buf.size < CheapPrepend + ReadableBytes(buf) + Len(bytes)
    <3>1. CASE AppendBytes(bytes)
      BY <1>0, <2>1, <3>1, AppendedAppends DEF AppendBytes
    <3>2. CASE ReadFd(bytes)
      BY <1>0, <2>1, <3>2, ReadInAppends DEF ReadFd
    <3> QED BY <1>1, <3>1, <3>2
  <2>3. CheapPrepend + ReadableBytes(buf) + Len(bytes)
          = CheapPrepend + (ReadableBytes(buf) + Len(bytes))
    BY <1>0, <2>1, ContentsType, LenProperties, SizesAssumption
  <2> QED BY <2>2, <2>3
<1>2. ASSUME NEW n \in 0 .. ReadableBytes(buf),
             WriteFd(n) \/ RetrieveAsString(n)
      PROVE  FALSE
  <2>1. n \in Nat
    BY <1>0, ContentsType
  <2> QED BY <1>0, <1>2, <2>1, RetrievedDrops DEF WriteFd, RetrieveAsString
<1>3. ASSUME NEW len \in 0 .. MaxReadable + 1, Retrieve(len)
      PROVE  FALSE
  <2>1. len \in Nat
    BY SizesAssumption
  <2> QED BY <1>0, <1>3, <2>1, RetrievedDrops DEF Retrieve
<1> QED BY <1>1, <1>2, <1>3 DEF Next

\* makeSpace grows the vector only when the contents and what is put behind
\* them do not fit in it, whatever was read and appended before.
THEOREM BufferGrowsWhenNeeded == Spec => GrowsWhenNeeded
PROOF
<1>1. TypeOK /\ [Next]_vars =>
        [buf'.size # buf.size =>
           buf.size < CheapPrepend + ReadableBytes(buf')]_vars
  BY GrowthStep
<1> QED BY <1>1, BufferTypeCorrect, PTL DEF Spec, GrowsWhenNeeded
-----------------------------------------------------------------------------
(***************************************************************************)
(* Refinement.                                                             *)
(***************************************************************************)
LEMMA InitRefines == Init => Queue!BQInit
PROOF
<1> SUFFICES ASSUME Init PROVE Queue!BQInit
  OBVIOUS
<1>1. buf.reader = CheapPrepend /\ buf.writer = CheapPrepend
  BY DEF Init, Buf
<1>2. ReadableBytes(buf) = 0
  BY <1>1, SizesAssumption DEF ReadableBytes
<1>3. Contents(buf) \in Seq(Byte) /\ Len(Contents(buf)) = 0
  BY <1>2, InitTypeOK, ContentsType DEF TypeOK
<1>4. Contents(buf) = <<>>
  BY <1>3, EmptySeq
<1> QED BY <1>4 DEF Init, Queue!BQInit

\* An operation puts in, shows, drops or takes.
LEMMA StepRefines == TypeOK /\ [Next]_vars => [Queue!BQNext]_(Queue!bqVars)
PROOF
<1> SUFFICES ASSUME TypeOK, [Next]_vars
             PROVE  [Queue!BQNext]_(Queue!bqVars)
  OBVIOUS
<1> DEFINE queue == Contents(buf)
<1>0. /\ WellFormed(buf) /\ moved \in Seq(Byte)
      /\ queue \in Seq(Byte) /\ Len(queue) = ReadableBytes(buf)
      /\ ReadableBytes(buf) \in Nat
  BY ContentsType DEF TypeOK
<1>1. ASSUME NEW bytes \in Inputs, AppendBytes(bytes) \/ ReadFd(bytes)
      PROVE  Queue!BQNext
  <2>1. bytes \in Seq(Byte)
    BY InputsAssumption
  <2>2. Contents(buf)' = Contents(buf) \o bytes /\ moved' = bytes
    <3>1. CASE AppendBytes(bytes)
      BY <1>0, <2>1, <3>1, AppendedAppends DEF AppendBytes
    <3>2. CASE ReadFd(bytes)
      BY <1>0, <2>1, <3>2, ReadInAppends DEF ReadFd
    <3> QED BY <1>1, <3>1, <3>2
  <2>3. Queue!Put(bytes)
    BY <2>2 DEF Queue!Put
  <2> QED BY <2>3 DEF Queue!BQNext
<1>2. ASSUME NEW n \in 0 .. ReadableBytes(buf), WriteFd(n)
      PROVE  Queue!BQNext
  <2>1. Queue!Show(n)
    BY <1>2 DEF WriteFd, Queue!Show
  <2> QED BY <1>0, <2>1 DEF Queue!BQNext
<1>3. ASSUME NEW n \in 0 .. ReadableBytes(buf), RetrieveAsString(n)
      PROVE  Queue!BQNext
  <2>1. n \in Nat /\ n <= ReadableBytes(buf)
    BY <1>0
  <2>2. Contents(buf)' = SubSeq(queue, n + 1, Len(queue))
    BY <1>0, <1>3, <2>1, RetrievedDrops DEF RetrieveAsString
  <2>3. Queue!Take(n)
    BY <1>3, <2>2 DEF RetrieveAsString, Queue!Take
  <2> QED BY <1>0, <2>3 DEF Queue!BQNext
<1>4. ASSUME NEW len \in 0 .. MaxReadable + 1, Retrieve(len)
      PROVE  Queue!BQNext
  <2>1. len \in Nat
    BY SizesAssumption
  <2>2. CASE len <= ReadableBytes(buf)
    <3>1. Contents(buf)' = SubSeq(queue, len + 1, Len(queue))
      BY <1>0, <1>4, <2>1, <2>2, RetrievedDrops DEF Retrieve
    <3>2. Queue!Drop(len)
      BY <1>4, <3>1 DEF Retrieve, Queue!Drop
    <3>3. len \in 0 .. Len(queue)
      BY <1>0, <2>1, <2>2
    <3> QED BY <3>2, <3>3 DEF Queue!BQNext
  <2>3. CASE ~(len <= ReadableBytes(buf))
    <3>1. Contents(buf)' = <<>>
      BY <1>0, <1>4, <2>1, <2>3, RetrievedDrops DEF Retrieve
    <3>2. SubSeq(queue, Len(queue) + 1, Len(queue)) = <<>>
      <4>1. Len(queue) \in Int /\ Len(queue) < Len(queue) + 1
        BY <1>0
      <4> QED BY <4>1, SubSeqEmpty
    <3>3. Queue!Drop(Len(queue))
      BY <1>4, <3>1, <3>2 DEF Retrieve, Queue!Drop
    <3>4. Len(queue) \in 0 .. Len(queue)
      BY <1>0
    <3> QED BY <3>3, <3>4 DEF Queue!BQNext
  <2> QED BY <2>2, <2>3
<1>5. CASE UNCHANGED vars
  <2>1. Contents(buf)' = Contents(buf) /\ moved' = moved
    BY <1>5 DEF vars, Contents, ReadableBytes
  <2> QED BY <2>1 DEF Queue!bqVars
<1> QED BY <1>1, <1>2, <1>3, <1>4, <1>5 DEF Next

\* A buffer is a queue of bytes, for every size of its vector and whatever
\* parts readv and write split the stream into (Buffer.h, Buffer.cc).
THEOREM BufferImplementsByteQueue == Spec => ImplementsByteQueue
PROOF
<1>1. Init => Queue!BQInit
  BY InitRefines
<1>2. TypeOK /\ [Next]_vars => [Queue!BQNext]_(Queue!bqVars)
  BY StepRefines
<1> QED BY <1>1, <1>2, BufferTypeCorrect, PTL
    DEF Spec, ImplementsByteQueue, Queue!BQSpec
=============================================================================

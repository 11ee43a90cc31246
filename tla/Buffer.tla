------------------------------- MODULE Buffer -------------------------------
(***************************************************************************)
(* Buffer (Buffer.h, Buffer.cc): a vector of bytes with a reader's and a   *)
(* writer's index, as TcpConnection uses it for input and for output.      *)
(*                                                                         *)
(* Indices are those of the vector, from 0.  What lies outside the         *)
(* readable part keeps its bytes, as it does in the vector.  One thread    *)
(* uses a Buffer, one call after another.  The file descriptor, readv and  *)
(* write are external: readv fills its areas in order, write takes any     *)
(* number of bytes.                                                        *)
(*                                                                         *)
(* Assumed of the user: retrieveAsString is asked for no more than there   *)
(* is (its comment asks for it).                                           *)
(***************************************************************************)
EXTENDS Naturals, Sequences

CONSTANTS
  Byte, Zero,               \* the bytes, and the one resize fills up with
  Inputs,                   \* what may be appended or read at once
  CheapPrepend,             \* kCheapPrepend
  InitialSize,              \* kInitialSize
  ExtraSize,                \* sizeof extrabuf
  MaxReadable               \* bound: how much is kept in the buffer

ASSUME ByteAssumption == Zero \in Byte
ASSUME InputsAssumption == Inputs \subseteq Seq(Byte)
ASSUME SizesAssumption ==
  /\ CheapPrepend \in Nat /\ InitialSize \in Nat /\ ExtraSize \in Nat
  /\ MaxReadable \in Nat

VARIABLES
  buf,                      \* buffer_ with its size, readerIndex_ and
                            \* writerIndex_
  moved                     \* the bytes the last call was given or handed out

vars == <<buf, moved>>

Buf(data, size, reader, writer) ==
  [data |-> data, size |-> size, reader |-> reader, writer |-> writer]

Init ==
  /\ buf = Buf([i \in 0 .. CheapPrepend + InitialSize - 1 |-> Zero],
               CheapPrepend + InitialSize, CheapPrepend, CheapPrepend)
  /\ moved = <<>>
-----------------------------------------------------------------------------
ReadableBytes(b) == b.writer - b.reader
WritableBytes(b) == b.size - b.writer
PrependableBytes(b) == b.reader

\* The bytes from peek() on.
Contents(b) == [i \in 1 .. ReadableBytes(b) |-> b.data[b.reader + i - 1]]

\* vector::resize to a larger size.
Resize(b, size) ==
  Buf([i \in 0 .. size - 1 |-> IF i < b.size THEN b.data[i] ELSE Zero],
      size, b.reader, b.writer)

\* The readable part is copied down to the end of the prepend area.
MoveDown(b) ==
  LET readable == ReadableBytes(b) IN
  Buf([i \in 0 .. b.size - 1 |->
         IF i \in CheapPrepend .. CheapPrepend + readable - 1
         THEN b.data[b.reader + (i - CheapPrepend)] ELSE b.data[i]],
      b.size, CheapPrepend, CheapPrepend + readable)

\* A makeSpace that forgets the prepend area, and one that always grows.
Fits(b, len) == WritableBytes(b) + PrependableBytes(b) >= len
AlwaysGrow(b, len) == Resize(b, len + b.writer)

MakeSpaceUnreserved(b, len) ==
  IF Fits(b, len) THEN MoveDown(b) ELSE Resize(b, len + b.writer)

MakeSpace(b, len) ==
  IF WritableBytes(b) + PrependableBytes(b) < len + CheapPrepend
  THEN Resize(b, len + b.writer) ELSE MoveDown(b)

EnsureWritableBytes(b, len) ==
  IF WritableBytes(b) < len THEN MakeSpace(b, len) ELSE b

\* Copying bytes to beginWrite().
Fill(b, bytes) ==
  Buf([i \in 0 .. b.size - 1 |->
         IF i \in b.writer .. b.writer + Len(bytes) - 1
         THEN bytes[i - b.writer + 1] ELSE b.data[i]],
      b.size, b.reader, b.writer + Len(bytes))

Appended(b, bytes) == Fill(EnsureWritableBytes(b, Len(bytes)), bytes)

Reset(b) == Buf(b.data, b.size, CheapPrepend, CheapPrepend)

Retrieved(b, len) ==
  IF len < ReadableBytes(b)
  THEN Buf(b.data, b.size, b.reader + len, b.writer) ELSE Reset(b)

\* A readFd that appends the second area without having set writerIndex_ to
\* the end of the first.
ReadInUnset(b, bytes) ==
  IF Len(bytes) <= WritableBytes(b) THEN Fill(b, bytes)
  ELSE Appended(b, SubSeq(bytes, WritableBytes(b) + 1, Len(bytes)))

\* readv fills the writable part, and then extrabuf, which is appended.
ReadIn(b, bytes) ==
  LET writable == WritableBytes(b) IN
  IF Len(bytes) <= writable THEN Fill(b, bytes)
  ELSE Appended(Fill(b, SubSeq(bytes, 1, writable)),
                SubSeq(bytes, writable + 1, Len(bytes)))

\* How much readv can return: extrabuf is offered to it only when less than
\* its size is writable.
ReadLimit(b) ==
  WritableBytes(b) + IF WritableBytes(b) < ExtraSize THEN ExtraSize ELSE 0
-----------------------------------------------------------------------------
(***************************************************************************)
(* The operations.                                                         *)
(***************************************************************************)
Room(bytes) == ReadableBytes(buf) + Len(bytes) <= MaxReadable

\* append.
AppendBytes(bytes) ==
  /\ Room(bytes)
  /\ buf' = Appended(buf, bytes)
  /\ moved' = bytes

\* readFd that returns at least 0; one that fails leaves the buffer alone.
ReadFd(bytes) ==
  /\ Room(bytes)
  /\ Len(bytes) <= ReadLimit(buf)
  /\ buf' = ReadIn(buf, bytes)
  /\ moved' = bytes

\* writeFd of which write takes n bytes: they stay in the buffer until the
\* caller retrieves them.
WriteFd(n) ==
  /\ moved' = SubSeq(Contents(buf), 1, n)
  /\ UNCHANGED buf

\* retrieve; asked for too much, it empties the buffer.
Retrieve(len) ==
  /\ buf' = Retrieved(buf, len)
  /\ UNCHANGED moved

\* retrieveAsString and, with all there is, retrieveAllAsString.
RetrieveAsString(len) ==
  /\ moved' = SubSeq(Contents(buf), 1, len)
  /\ buf' = Retrieved(buf, len)

Next ==
  \/ \E bytes \in Inputs : AppendBytes(bytes) \/ ReadFd(bytes)
  \/ \E n \in 0 .. ReadableBytes(buf) : WriteFd(n) \/ RetrieveAsString(n)
  \/ \E len \in 0 .. MaxReadable + 1 : Retrieve(len)

Spec == Init /\ [][Next]_vars
-----------------------------------------------------------------------------
(***************************************************************************)
(* Properties.                                                             *)
(***************************************************************************)
WellFormed(b) ==
  /\ b = Buf(b.data, b.size, b.reader, b.writer)
  /\ b.size \in Nat /\ b.reader \in Nat /\ b.writer \in Nat
  /\ b.data \in [0 .. b.size - 1 -> Byte]
  /\ CheapPrepend <= b.reader /\ b.reader <= b.writer /\ b.writer <= b.size

\* Every variable keeps its type, and the indices stay in bounds and in
\* order: the prepend area is kept free, and nothing is written past the end
\* of the vector.
TypeOK == WellFormed(buf) /\ moved \in Seq(Byte)

\* The vector grows only when what is kept does not fit behind the prepend
\* area: space that was read is used again.
GrowsWhenNeeded ==
  [][buf'.size # buf.size =>
       buf.size < CheapPrepend + ReadableBytes(buf')]_vars

\* The buffer is a queue of bytes: whatever makeSpace moves and readFd reads
\* in two parts, every byte put in comes out once and in order.
Queue == INSTANCE ByteQueue WITH queue <- Contents(buf)
ImplementsByteQueue == Queue!BQSpec
=============================================================================

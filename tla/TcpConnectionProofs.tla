------------------------- MODULE TcpConnectionProofs -------------------------
(***************************************************************************)
(* What holds of a TcpConnection for any messages, threads, callbacks and  *)
(* high-water mark: its types, that EPOLLOUT and outputBuffer_ go together,*)
(* and, where other threads keep to one kind of call, that it writes       *)
(* nothing after its shutdown, leaves the poller before it is destroyed,   *)
(* and keeps ConnectionPromise.                                            *)
(*                                                                         *)
(* The invariant is Ordered: a connection starts with connectEstablished   *)
(* (Start), whoever disables its channel finds it watched (Watched), and   *)
(* so the interest in output follows outputBuffer_ (Output).  The other    *)
(* theorems add what waits in the queues (Waiting), and what a call of     *)
(* another thread that comes late can still do (Sealed, Single, Told).     *)
(***************************************************************************)
EXTENDS TcpConnection, Integers, SequenceTheorems, TLAPS

Byte == Messages \X Nat
-----------------------------------------------------------------------------
(***************************************************************************)
(* Types.                                                                  *)
(***************************************************************************)
\* The bytes of a message.
LEMMA BytesType ==
  ASSUME NEW m \in Messages
  PROVE  Bytes(m) \in Seq(Byte) /\ Len(Bytes(m)) = Size[m]
<1>1. Size[m] \in Nat
  BY SizeAssumption
<1>2. \A i \in 1 .. Size[m] : <<m, i>> \in Byte
  BY <1>1 DEF Byte
<1>3. Bytes(m) \in [1 .. Size[m] -> Byte]
  BY <1>2 DEF Bytes
<1>4. Bytes(m) \in Seq(Byte)
  BY <1>1, <1>3, SeqDef
<1>. QED
  BY <1>1, <1>3, <1>4, LenProperties

\* What a write leaves of a sequence of bytes, and what it takes.
LEMMA SplitType ==
  ASSUME NEW bytes \in Seq(Byte), NEW n \in 0 .. Len(bytes)
  PROVE  /\ SubSeq(bytes, 1, n) \in Seq(Byte)
         /\ SubSeq(bytes, n + 1, Len(bytes)) \in Seq(Byte)
         /\ Len(SubSeq(bytes, n + 1, Len(bytes))) = Len(bytes) - n
<1>1. \A i \in 1 .. Len(bytes) : bytes[i] \in Byte
  BY ElementOfSeq
<1>2. Len(bytes) \in Nat
  OBVIOUS
<1>3. SubSeq(bytes, 1, n) \in Seq(Byte)
  BY <1>1, <1>2, SubSeqProperties
<1>4. /\ SubSeq(bytes, n + 1, Len(bytes)) \in Seq(Byte)
      /\ Len(SubSeq(bytes, n + 1, Len(bytes))) =
           IF n + 1 <= Len(bytes) THEN Len(bytes) - (n + 1) + 1 ELSE 0
  BY <1>1, <1>2, SubSeqProperties
<1>. QED
  BY <1>2, <1>3, <1>4

\* The functors that TcpConnection binds to itself.
LEMMA FunctorType ==
  ASSUME NEW kind \in Kinds \ {"send"}
  PROVE  /\ Functor(kind) \in Functors /\ Functor(kind).kind = kind
         /\ <<Functor(kind)>> \in Seq(Functors)
         /\ \A i \in DOMAIN <<Functor(kind)>> : <<Functor(kind)>>[i].kind = kind
<1>1. Functor(kind) \in Functors /\ Functor(kind).kind = kind
  BY DEF Functor, Functors
<1>. QED
  BY <1>1

LEMMA IfSetType ==
  ASSUME NEW kind \in {"writeComplete", "highWater"}
  PROVE  /\ IfSet(kind) \in Seq(Functors)
         /\ \A i \in DOMAIN IfSet(kind) : IfSet(kind)[i].kind = kind
<1>1. kind \in Kinds \ {"send"}
  BY DEF Kinds
<1>. QED
  BY <1>1, FunctorType DEF IfSet

\* Channel::update.
LEMMA UpdateChannelType ==
  ASSUME NEW events \in Interests, UpdateChannel(events), index_ \in Indices
  PROVE  /\ events_' = events /\ index_' \in Indices
         /\ events # {} => index_' = "kAdded"
         /\ index_ # "kAdded" => index_' = "kAdded"
         /\ events = {} /\ index_ = "kAdded" => index_' = "kDeleted"
BY DEF UpdateChannel, IndexAfter, CtlOp, Indices

\* A write to the socket.
LEMMA WriteSockFacts ==
  ASSUME sock \in Socket, wire \in Seq(Byte), NEW bytes \in Seq(Byte), NEW n,
         WriteSock(bytes, n)
  PROVE  /\ n \in 0 .. Len(bytes) /\ (Broken => n = 0)
         /\ wire' = wire \o SubSeq(bytes, 1, n) /\ wire' \in Seq(Byte)
         /\ sock' \in Socket
         /\ sock'.shutWr <=> sock.shutWr
         /\ sock'.pipe => sock.pipe \/ sock.shutWr
<1>1. n \in 0 .. Len(bytes) /\ (Broken => n = 0)
  BY DEF WriteSock, Written
<1>2. wire' = wire \o SubSeq(bytes, 1, n) /\ wire' \in Seq(Byte)
  BY <1>1, SplitType, ConcatProperties DEF WriteSock
<1>3. sock' = [sock EXCEPT !.pipe = sock.pipe \/ sock.shutWr, !.err = FALSE]
  BY DEF WriteSock
<1>4. sock.pipe \/ sock.shutWr \in BOOLEAN
  BY DEF Socket
<1>. QED
  BY <1>1, <1>2, <1>3, <1>4 DEF Socket

\* Functors that tell the user about outputBuffer_.
Note(fs) == \A i \in DOMAIN fs : fs[i].kind \in {"writeComplete", "highWater"}
Notifies == \E fs \in Seq(Functors) : Note(fs) /\ Push(fs)

LEMMA NotifiesFacts ==
  ASSUME pendingFunctors_ \in Seq(Functors)
  PROVE  /\ UNCHANGED pendingFunctors_ => Notifies
         /\ Push(IfSet("writeComplete")) => Notifies
         /\ Push(IfSet("highWater")) => Notifies
<1>1. UNCHANGED pendingFunctors_ => Push(<<>>)
  BY ConcatEmptySeq DEF Push
<1>2. <<>> \in Seq(Functors) /\ Note(<<>>)
  BY DEF Note
<1>3. \A kind \in {"writeComplete", "highWater"} :
        IfSet(kind) \in Seq(Functors) /\ Note(IfSet(kind))
  BY IfSetType DEF Note
<1>. QED
  BY <1>1, <1>2, <1>3 DEF Notifies

\* What sendInLoop keeps, and how it asks for EPOLLOUT.
LEMMA KeepFacts ==
  ASSUME TypeOK, NEW rest \in Seq(Byte), Keep(rest)
  PROVE  /\ outputBuffer_' = outputBuffer_ \o rest
         /\ outputBuffer_' \in Seq(Byte)
         /\ outputBuffer_' = <<>> => outputBuffer_ = <<>> /\ rest = <<>>
         /\ Notifies
         /\ \/ "write" \in events_ /\ UNCHANGED <<events_, index_>>
            \/ /\ "write" \notin events_ /\ events_' = events_ \cup {"write"}
               /\ events_' \in Interests /\ index_' = "kAdded"
<1>. USE DEF TypeOK
<1>1. outputBuffer_ \in Seq(Byte) /\ pendingFunctors_ \in Seq(Functors)
  BY DEF Byte
<1>2. outputBuffer_' = outputBuffer_ \o rest
  BY DEF Keep
<1>3. Notifies
  BY <1>1, NotifiesFacts DEF Keep
<1>4. events_ \cup {"write"} \in Interests /\ events_ \cup {"write"} # {}
  BY DEF Interests
<1>5. \/ "write" \in events_ /\ UNCHANGED <<events_, index_>>
      \/ /\ "write" \notin events_ /\ events_' = events_ \cup {"write"}
         /\ events_' \in Interests /\ index_' = "kAdded"
  BY <1>4, UpdateChannelType DEF Keep
<1>. QED
  BY <1>1, <1>2, <1>3, <1>5, ConcatProperties, ConcatEqualIffEmpty

\* The state that sendInLoop and handleWrite may change keeps its type.
BufferTypes ==
  /\ events_ \in Interests /\ index_ \in Indices
  /\ outputBuffer_ \in Seq(Byte) /\ wire \in Seq(Byte) /\ sock \in Socket

LEMMA TypesAtHand ==
  ASSUME TypeOK
  PROVE  BufferTypes /\ pendingFunctors_ \in Seq(Functors)
BY DEF TypeOK, BufferTypes, Byte

\* What a sendInLoop of the bytes comes to: the interest in output only grows,
\* and then something waits in outputBuffer_.
SendEffect ==
  /\ UNCHANGED state_ /\ BufferTypes' /\ Notifies
  /\ sock'.shutWr <=> sock.shutWr
  /\ sock'.pipe => sock.pipe \/ sock.shutWr
  /\ outputBuffer_' = <<>> => outputBuffer_ = <<>>
  /\ sock.shutWr /\ WriteDirectly =>
       UNCHANGED <<events_, index_, outputBuffer_>>
  /\ \/ /\ UNCHANGED <<events_, index_>>
        /\ "write" \in events_ \/ UNCHANGED outputBuffer_
     \/ /\ state_ # "kDisconnected" /\ "write" \notin events_
        /\ events_' = events_ \cup {"write"} /\ index_' = "kAdded"
        /\ outputBuffer_' # <<>>

LEMMA SendInLoopFacts ==
  ASSUME TypeOK, NEW bytes \in Seq(Byte), SendInLoop(bytes)
  PROVE  SendEffect
<1>1. BufferTypes /\ pendingFunctors_ \in Seq(Functors)
  BY TypesAtHand
<1>2. UNCHANGED state_
  BY DEF SendInLoop
<1>3. ASSUME GiveUp,
             UNCHANGED <<outputBuffer_, events_, index_, pendingFunctors_,
                         sock, wire>>
      PROVE  SendEffect
  BY <1>1, <1>2, <1>3, NotifiesFacts DEF SendEffect, BufferTypes
<1>4. ASSUME ~GiveUp, ~WriteDirectly, Keep(bytes), UNCHANGED <<sock, wire>>
      PROVE  SendEffect
  <2>1. "write" \notin events_ => outputBuffer_' # <<>>
    BY <1>4, KeepFacts DEF WriteDirectly
  <2>2. index_' \in Indices /\ events_' \in Interests
    BY <1>1, <1>4, KeepFacts DEF Indices, BufferTypes
  <2>3. BufferTypes'
    BY <1>1, <1>4, <2>2, KeepFacts DEF BufferTypes
  <2>. QED
    BY <1>2, <1>4, <2>1, <2>3, KeepFacts DEF SendEffect, GiveUp
<1>5. ASSUME ~GiveUp, WriteDirectly, NEW n \in Written(bytes),
             WriteSock(bytes, n)
      PROVE  /\ n = Len(bytes) /\ Push(IfSet("writeComplete"))
             /\ UNCHANGED <<outputBuffer_, events_, index_>>
             => SendEffect
  <2>. SUFFICES ASSUME Push(IfSet("writeComplete")),
                       UNCHANGED <<outputBuffer_, events_, index_>>
                PROVE  SendEffect
    OBVIOUS
  <2>1. BufferTypes'
    BY <1>1, <1>5, WriteSockFacts DEF BufferTypes
  <2>. QED
    BY <1>1, <1>2, <1>5, <2>1, WriteSockFacts, NotifiesFacts
       DEF SendEffect, BufferTypes
<1>6. ASSUME ~GiveUp, WriteDirectly, NEW n \in Written(bytes),
             WriteSock(bytes, n)
      PROVE  /\ n < Len(bytes) /\ ~Broken
             /\ Keep(SubSeq(bytes, n + 1, Len(bytes)))
             => SendEffect
  <2>. SUFFICES ASSUME n < Len(bytes), ~Broken,
                       Keep(SubSeq(bytes, n + 1, Len(bytes)))
                PROVE  SendEffect
    OBVIOUS
  <2>. DEFINE rest == SubSeq(bytes, n + 1, Len(bytes))
  <2>1. n \in 0 .. Len(bytes)
    BY <1>1, <1>5, <1>6, WriteSockFacts DEF BufferTypes
  <2>2. rest \in Seq(Byte) /\ Len(rest) = Len(bytes) - n
    BY <2>1, SplitType
  <2>. HIDE DEF rest
  <2>3. rest # <<>>
    BY <2>1, <2>2
  <2>4. "write" \notin events_ => outputBuffer_' # <<>>
    BY <2>2, <2>3, KeepFacts DEF rest
  <2>5. index_' \in Indices /\ events_' \in Interests
    BY <1>1, <2>2, KeepFacts DEF Indices, BufferTypes, rest
  <2>6. BufferTypes'
    BY <1>1, <1>6, <2>2, <2>5, KeepFacts, WriteSockFacts
       DEF BufferTypes, rest
  <2>. QED
    BY <1>1, <1>2, <1>6, <2>2, <2>4, <2>6, KeepFacts, WriteSockFacts
       DEF SendEffect, GiveUp, BufferTypes, Broken, rest
<1>7. ASSUME ~GiveUp, WriteDirectly, NEW n \in Written(bytes),
             WriteSock(bytes, n)
      PROVE  Broken /\ UNCHANGED <<outputBuffer_, events_, index_,
                                   pendingFunctors_>>
             => SendEffect
  <2>. SUFFICES ASSUME UNCHANGED <<outputBuffer_, events_, index_,
                                   pendingFunctors_>>
                PROVE  SendEffect
    OBVIOUS
  <2>1. BufferTypes'
    BY <1>1, <1>7, WriteSockFacts DEF BufferTypes
  <2>. QED
    BY <1>1, <1>2, <1>7, <2>1, WriteSockFacts, NotifiesFacts
       DEF SendEffect, BufferTypes
<1>. QED
  BY <1>3, <1>4, <1>5, <1>6, <1>7 DEF SendInLoop

\* handleWrite: what it writes leaves outputBuffer_, and once that is empty,
\* EPOLLOUT is off and state_ is kDisconnected.
WriteEffect ==
  /\ BufferTypes' /\ Notifies
  /\ sock'.shutWr <=> sock.shutWr
  /\ sock'.pipe => sock.pipe \/ (sock.shutWr /\ "write" \in events_)
  /\ \/ UNCHANGED <<state_, events_, index_, outputBuffer_>>
     \/ /\ UNCHANGED <<state_, events_, index_>> /\ "write" \in events_
        /\ outputBuffer_' # <<>>
     \/ /\ state_' = "kDisconnected" /\ events_' = events_ \ {"write"}
        /\ outputBuffer_' = <<>>
        /\ index_ # "kAdded" => index_' = "kAdded"
        /\ index_' # "kAdded" => index_' = "kDeleted" /\ events_' = {}

LEMMA HandleWriteFacts ==
  ASSUME TypeOK, HandleWriteEvent
  PROVE  WriteEffect
<1>1. BufferTypes /\ pendingFunctors_ \in Seq(Functors)
  BY TypesAtHand
<1>2. ASSUME UNCHANGED <<connVars, pendingFunctors_, sock, wire>>
      PROVE  WriteEffect
  <2>1. UNCHANGED <<state_, events_, index_, outputBuffer_, sock, wire>>
    BY <1>2 DEF connVars
  <2>. QED
    BY <1>1, <1>2, <2>1, NotifiesFacts DEF WriteEffect, BufferTypes
<1>3. ASSUME "write" \in events_, NEW n \in Written(outputBuffer_),
             WriteSock(outputBuffer_, n),
             outputBuffer_' = SubSeq(outputBuffer_, n + 1,
                                     Len(outputBuffer_)),
             \/ /\ n = 0
                /\ UNCHANGED <<state_, events_, index_, pendingFunctors_>>
             \/ n > 0 /\ Drained(n)
      PROVE  WriteEffect
  <2>1. /\ n \in 0 .. Len(outputBuffer_)
        /\ wire' \in Seq(Byte) /\ sock' \in Socket
        /\ sock'.shutWr <=> sock.shutWr
        /\ sock'.pipe => sock.pipe \/ sock.shutWr
    BY <1>1, <1>3, WriteSockFacts DEF BufferTypes
  <2>2. /\ outputBuffer_' \in Seq(Byte)
        /\ Len(outputBuffer_') = Len(outputBuffer_) - n
    BY <1>1, <1>3, <2>1, SplitType DEF BufferTypes
  <2>3. Len(outputBuffer_) \in Nat
    BY <1>1 DEF BufferTypes
  <2>4. CASE n = 0 /\ UNCHANGED <<state_, events_, index_, pendingFunctors_>>
    <3>1. outputBuffer_' = outputBuffer_
      BY <1>1, <1>3, <2>4, SubSeqFull DEF BufferTypes
    <3>. QED
      BY <1>1, <1>3, <2>1, <2>4, <3>1, NotifiesFacts
         DEF WriteEffect, BufferTypes
  <2>5. CASE /\ n < Len(outputBuffer_)
             /\ UNCHANGED <<state_, events_, index_, pendingFunctors_>>
    <3>1. outputBuffer_' # <<>>
      BY <2>1, <2>2, <2>3, <2>5
    <3>. QED
      BY <1>1, <1>3, <2>1, <2>2, <2>5, <3>1, NotifiesFacts
         DEF WriteEffect, BufferTypes
  <2>6. CASE /\ n = Len(outputBuffer_) /\ UpdateChannel(events_ \ {"write"})
             /\ Push(IfSet("writeComplete")) /\ state_' = "kDisconnected"
    <3>1. outputBuffer_' = <<>>
      BY <2>2, <2>3, <2>6
    <3>2. events_ \ {"write"} \in Interests
      BY <1>1 DEF BufferTypes, Interests
    <3>3. /\ events_' = events_ \ {"write"} /\ index_' \in Indices
          /\ events_' # {} => index_' = "kAdded"
          /\ index_ # "kAdded" => index_' = "kAdded"
          /\ events_' = {} /\ index_ = "kAdded" => index_' = "kDeleted"
      BY <1>1, <2>6, <3>2, UpdateChannelType DEF BufferTypes
    <3>4. index_' # "kAdded" => index_' = "kDeleted" /\ events_' = {}
      BY <3>3
    <3>5. Notifies
      BY <1>1, <2>6, NotifiesFacts
    <3>6. BufferTypes'
      BY <2>1, <2>2, <3>2, <3>3 DEF BufferTypes
    <3>. QED
      BY <1>3, <2>1, <2>6, <3>1, <3>3, <3>4, <3>5, <3>6 DEF WriteEffect
  <2>. QED
    BY <1>3, <2>4, <2>5, <2>6 DEF Drained
<1>. QED
  BY <1>2, <1>3 DEF HandleWriteEvent

\* A push, and the functors of what is pushed.
LEMMA PushType ==
  ASSUME pendingFunctors_ \in Seq(Functors)
  PROVE  /\ \A fs \in Seq(Functors) :
              Push(fs) => pendingFunctors_' \in Seq(Functors)
         /\ Notifies => pendingFunctors_' \in Seq(Functors)
         /\ Push(<<Functor("connectDestroyed")>>)
              => pendingFunctors_' \in Seq(Functors)
<1>1. <<Functor("connectDestroyed")>> \in Seq(Functors)
  BY FunctorType DEF Kinds
<1>2. \A fs \in Seq(Functors) : pendingFunctors_ \o fs \in Seq(Functors)
  BY ConcatProperties
<1>. QED
  BY <1>1, <1>2 DEF Push, Notifies

\* The handlers that enable, disable and remove the channel.
LEMMA ConnectEstablishedFacts ==
  ASSUME TypeOK, ConnectEstablished
  PROVE  /\ state_' = "kConnected" /\ state_' \in States
         /\ events_' = events_ \cup {"read"} /\ events_' \in Interests
         /\ index_' = "kAdded" /\ index_' \in Indices
         /\ callback' = "plain" /\ told' = "up"
         /\ UNCHANGED <<outputBuffer_, received>>
<1>1. events_ \cup {"read"} \in Interests /\ events_ \cup {"read"} # {}
  BY DEF TypeOK, Interests
<1>2. index_ \in Indices
  BY DEF TypeOK
<1>. QED
  BY <1>1, <1>2, UpdateChannelType DEF ConnectEstablished, States

LEMMA HandleCloseFacts ==
  ASSUME TypeOK, HandleClose
  PROVE  /\ state_' = "kDisconnected" /\ state_' \in States
         /\ events_' = {} /\ events_' \in Interests
         /\ index_' = (IF index_ = "kAdded" THEN "kDeleted" ELSE "kAdded")
         /\ index_' \in Indices
         /\ callback' = "close" /\ told' = "down"
         /\ UNCHANGED <<outputBuffer_, received>>
<1>1. {} \in Interests
  BY DEF Interests
<1>2. index_ \in Indices
  BY DEF TypeOK
<1>. QED
  BY <1>1, <1>2, UpdateChannelType DEF HandleClose, States

LEMMA ConnectDestroyedFacts ==
  ASSUME TypeOK, ConnectDestroyed
  PROVE  /\ state_' \in States /\ events_' \in Interests
         /\ index_' \in Indices
         /\ UNCHANGED <<outputBuffer_, received>>
         /\ \/ /\ state_ = "kConnected" /\ state_' = "kDisconnected"
               /\ events_' = {}
               /\ index_' = (IF index_ = "kAdded" THEN "kDeleted" ELSE "kAdded")
               /\ callback' = "destroy" /\ told' = "down"
            \/ /\ state_ # "kConnected" /\ index_' = "kNew"
               /\ UNCHANGED <<state_, events_, callback, told>>
<1>1. {} \in Interests
  BY DEF Interests
<1>2. index_ \in Indices /\ events_ \in Interests /\ state_ \in States
  BY DEF TypeOK
<1>3. CASE state_ = "kConnected"
  BY <1>1, <1>2, <1>3, UpdateChannelType DEF ConnectDestroyed, States
<1>4. CASE state_ # "kConnected"
  BY <1>2, <1>4 DEF ConnectDestroyed, RemoveChannel, Indices
<1>. QED
  BY <1>3, <1>4

LEMMA TypeInit ==
  ASSUME Init
  PROVE  TypeOK
<1>1. <<Functor("connectEstablished")>> \in Seq(Functors)
  BY FunctorType DEF Kinds
<1>2. /\ pendingFunctors_ \in Seq(Functors) /\ functors \in Seq(Functors)
      /\ ran \in 0 .. Len(functors)
  BY <1>1 DEF Init
<1>3. sock \in Socket
  BY DEF Init, Socket
<1>4. /\ state_ \in States /\ events_ \in Interests /\ index_ \in Indices
      /\ outputBuffer_ \in Seq(Messages \X Nat)
      /\ wire \in Seq(Messages \X Nat)
  BY DEF Init, States, Interests, Indices
<1>5. /\ pc \in {"poll", "events", "functors", "left"}
      /\ todo \subseteq {"close", "error", "read", "write"}
      /\ callback \in {"none", "plain", "close", "destroy"}
  BY DEF Init
<1>6. thread \in [Threads -> [step : {"set", "push"}, f : Functors] \cup {None}]
  BY DEF Init
<1>7. /\ mainPending \in Nat /\ arrivals \in Nat /\ received \in Nat
      /\ {inMap, serverGone, ioIsMain} \subseteq BOOLEAN
      /\ foreignOps \in ForeignUses
      /\ hold \subseteq Threads /\ used \subseteq Messages
      /\ told \in {"nothing", "up", "down"}
  BY DEF Init
<1>. QED
  BY <1>2, <1>3, <1>4, <1>5, <1>6, <1>7 DEF TypeOK

\* The counters go up and down by one.
LEMMA CountersType ==
  ASSUME TypeOK
  PROVE  /\ mainPending + 1 \in Nat /\ received + 1 \in Nat
         /\ arrivals + 1 \in Nat
         /\ mainPending > 0 => mainPending - 1 \in Nat
         /\ [sock EXCEPT !.data = FALSE] \in Socket
         /\ [sock EXCEPT !.data = TRUE] \in Socket
<1>1. mainPending \in Nat /\ arrivals \in Nat /\ received \in Nat
  BY DEF TypeOK
<1>2. sock \in Socket
  BY DEF TypeOK
<1>3. /\ [sock EXCEPT !.data = FALSE] \in Socket
      /\ [sock EXCEPT !.data = TRUE] \in Socket
  BY <1>2 DEF Socket
<1>. QED
  BY <1>1, <1>3

LEMMA TypeStep ==
  ASSUME TypeOK, [Next]_vars
  PROVE  TypeOK'
<1>. USE DEF TypeOK
<1>1. BufferTypes /\ pendingFunctors_ \in Seq(Functors)
  BY TypesAtHand
<1>2. ASSUME NEW r \in Reports, PollReturn(r) PROVE TypeOK'
  BY <1>2 DEF PollReturn, Handlers, connVars, serverVars, threadVars, toldVars
<1>3. CASE PollOther
  BY <1>3 DEF PollOther, connVars, serverVars, threadVars, toldVars
<1>4. CASE HandleCloseEvent
  BY <1>4, HandleCloseFacts
     DEF HandleCloseEvent, Dispatch, serverVars, threadVars
<1>5. CASE HandleErrorEvent
  BY <1>5 DEF HandleErrorEvent, Dispatch, connVars, serverVars, threadVars,
              toldVars, Socket
<1>6. CASE ReadMessage
  <2>1. received' \in Nat /\ sock' \in Socket
    BY <1>6, CountersType DEF ReadMessage
  <2>. QED
    BY <1>6, <2>1 DEF ReadMessage, Dispatch, connVars, serverVars, threadVars
<1>7. CASE ReadEof
  BY <1>7, HandleCloseFacts DEF ReadEof, Dispatch, serverVars, threadVars
<1>8. CASE ReadError
  BY <1>8 DEF ReadError, Dispatch, connVars, serverVars, threadVars,
              toldVars, Socket
<1>9. CASE HandleWriteEvent
  <2>1. WriteEffect /\ pendingFunctors_' \in Seq(Functors)
    BY <1>1, <1>9, HandleWriteFacts, PushType DEF WriteEffect
  <2>. QED
    BY <1>9, <2>1
       DEF HandleWriteEvent, WriteEffect, BufferTypes, Byte, Dispatch,
           serverVars, threadVars, toldVars, States
<1>10. CASE EstablishHere
  BY <1>10, ConnectEstablishedFacts DEF EstablishHere, serverVars, threadVars
<1>11. CASE SwapFunctors
  BY <1>11 DEF SwapFunctors, connVars, serverVars, threadVars, toldVars
<1>12. ASSUME NEW kind, RunFunctor(kind)
       PROVE  /\ ran' \in 0 .. Len(functors') /\ functors' \in Seq(Functors)
              /\ NextFunctor \in Functors /\ NextFunctor.kind = kind
  BY <1>12 DEF RunFunctor, NextFunctor
<1>13. CASE RunConnectEstablished
  BY <1>12, <1>13, ConnectEstablishedFacts
     DEF RunConnectEstablished, RunFunctor, serverVars, threadVars
<1>14. CASE RunConnectDestroyed
  <2>1. ran' \in 0 .. Len(functors') /\ functors' \in Seq(Functors)
    BY <1>12, <1>14 DEF RunConnectDestroyed
  <2>2. /\ callback' \in {"none", "plain", "close", "destroy"}
        /\ told' \in {"nothing", "up", "down"}
    BY <1>14, ConnectDestroyedFacts DEF RunConnectDestroyed
  <2>. QED
    BY <1>14, <2>1, <2>2, ConnectDestroyedFacts
       DEF RunConnectDestroyed, RunFunctor, serverVars, threadVars
<1>15. CASE RunUserFunctor
  <2>1. ran' \in 0 .. Len(functors') /\ functors' \in Seq(Functors)
    BY <1>12, <1>15 DEF RunUserFunctor
  <2>2. UNCHANGED <<pc, todo, serverVars, threadVars, arrivals>>
    BY <1>15 DEF RunUserFunctor, RunFunctor
  <2>. QED
    BY <1>15, <2>1, <2>2
       DEF RunUserFunctor, connVars, serverVars, threadVars, toldVars
<1>16. CASE RunSend
  <2>1. /\ ran' \in 0 .. Len(functors') /\ functors' \in Seq(Functors)
        /\ NextFunctor.msg \in Messages
    BY <1>12, <1>16 DEF RunSend, Functors
  <2>2. SendEffect /\ pendingFunctors_' \in Seq(Functors)
    BY <1>1, <1>16, <2>1, BytesType, SendInLoopFacts, PushType
       DEF RunSend, SendEffect
  <2>. QED
    BY <1>16, <2>1, <2>2
       DEF RunSend, RunFunctor, SendEffect, BufferTypes, Byte, serverVars,
           threadVars, toldVars
<1>17. CASE RunShutdown
  BY <1>12, <1>17 DEF RunShutdown, RunFunctor, ShutdownInLoop, Socket,
                      connVars, serverVars, threadVars, toldVars
<1>18. CASE FunctorsDone
  BY <1>18 DEF FunctorsDone, connVars, serverVars, threadVars, toldVars
<1>19. CASE CallbackReturns
  BY <1>19 DEF CallbackReturns, connVars, serverVars, threadVars, toldVars
<1>20. CASE CloseCallback
  <2>1. mainPending' \in Nat /\ pendingFunctors_' \in Seq(Functors)
    BY <1>1, <1>20, PushType, CountersType DEF CloseCallback
  <2>. QED
    BY <1>20, <2>1 DEF CloseCallback, connVars, threadVars, toldVars
<1>21. CASE DestroyCallbackReturns
  BY <1>21 DEF DestroyCallbackReturns, RemoveChannel, Indices, serverVars,
               threadVars, toldVars
<1>22. ASSUME NEW m \in Messages, UserSend(m) PROVE TypeOK'
  <2>1. CASE state_ = "kConnected" /\ SendInLoop(Bytes(m))
    <3>1. SendEffect /\ pendingFunctors_' \in Seq(Functors)
      BY <1>1, <2>1, BytesType, SendInLoopFacts, PushType DEF SendEffect
    <3>. QED
      BY <1>22, <3>1
         DEF UserSend, SendEffect, BufferTypes, Byte, loopVars, serverVars,
             toldVars
  <2>2. CASE UNCHANGED <<connVars, pendingFunctors_, sock, wire>>
    BY <1>22, <2>2 DEF UserSend, connVars, loopVars, serverVars, toldVars
  <2>. QED
    BY <1>22, <2>1, <2>2 DEF UserSend
<1>23. CASE UserShutdown
  BY <1>23 DEF UserShutdown, ShutdownInLoop, Socket, States, loopVars,
               serverVars, threadVars, toldVars
<1>24. ASSUME NEW t \in Threads, UserShares(t) PROVE TypeOK'
  BY <1>24 DEF UserShares, connVars, loopVars, serverVars, toldVars
<1>25. CASE RemoveConnectionInLoop
  <2>1. mainPending' \in Nat /\ pendingFunctors_' \in Seq(Functors)
    BY <1>1, <1>25, PushType, CountersType DEF RemoveConnectionInLoop
  <2>. QED
    BY <1>25, <2>1
       DEF RemoveConnectionInLoop, connVars, loopVars, threadVars, toldVars
<1>26. CASE DestroyServer
  BY <1>1, <1>26, PushType
     DEF DestroyServer, connVars, loopVars, threadVars, toldVars
<1>27. CASE DestroyServerHere
  <2>1. CASE ConnectDestroyed
    <3>1. /\ callback' \in {"none", "plain", "close", "destroy"}
          /\ told' \in {"nothing", "up", "down"}
      BY <2>1, ConnectDestroyedFacts
    <3>. QED
      BY <1>27, <2>1, <3>1, ConnectDestroyedFacts
         DEF DestroyServerHere, threadVars
  <2>2. CASE UNCHANGED <<connVars, callback, toldVars>>
    BY <1>27, <2>2 DEF DestroyServerHere, threadVars, connVars, toldVars
  <2>. QED
    BY <1>27, <2>1, <2>2 DEF DestroyServerHere
<1>28. CASE IoLoopEnds
  BY <1>28 DEF IoLoopEnds, connVars, serverVars, threadVars, toldVars
<1>29. CASE MainLoopDestroyed
  BY <1>29 DEF MainLoopDestroyed, connVars, loopVars, threadVars, toldVars
<1>30. ASSUME NEW t \in Threads, ThreadStep(t) PROVE TypeOK'
  <2>1. ASSUME NEW m \in Messages, ForeignSend(t, m) PROVE TypeOK'
    <3>1. Call("push", "send", m, t) \in [step : {"set", "push"}, f : Functors]
      BY DEF Call, Functors
    <3>. QED
      BY <2>1, <3>1 DEF ForeignSend, connVars, loopVars, serverVars, toldVars
  <2>2. CASE ForeignShutdown(t)
    <3>1. Call("set", "shutdown", None, t)
            \in [step : {"set", "push"}, f : Functors]
      BY DEF Call, Functors, Kinds
    <3>. QED
      BY <2>2, <3>1
         DEF ForeignShutdown, connVars, loopVars, serverVars, toldVars
  <2>3. CASE ForeignSetState(t)
    <3>1. [thread[t] EXCEPT !.step = "push"]
            \in [step : {"set", "push"}, f : Functors]
      BY <2>3 DEF ForeignSetState
    <3>. QED
      BY <2>3, <3>1 DEF ForeignSetState, States, loopVars, serverVars, toldVars
  <2>4. CASE ForeignPush(t)
    <3>1. thread[t].f \in Functors
      BY <2>4 DEF ForeignPush
    <3>2. <<thread[t].f>> \in Seq(Functors)
      BY <3>1
    <3>3. pendingFunctors_' \in Seq(Functors)
      BY <1>1, <2>4, <3>2, PushType DEF ForeignPush
    <3>. QED
      BY <2>4, <3>3 DEF ForeignPush, connVars, loopVars, serverVars, toldVars
  <2>5. CASE ForeignRelease(t)
    BY <2>5 DEF ForeignRelease, connVars, loopVars, serverVars, toldVars
  <2>. QED
    BY <1>30, <2>1, <2>2, <2>3, <2>4, <2>5 DEF ThreadStep
<1>31. CASE PeerSends
  <2>1. arrivals' \in Nat /\ sock' \in Socket
    BY <1>31, CountersType DEF PeerSends, Arrive
  <2>. QED
    BY <1>31, <2>1
       DEF PeerSends, Arrive, connVars, loopVars, serverVars, threadVars,
           toldVars
<1>32. CASE PeerCloses
  BY <1>32 DEF PeerCloses, Arrive, Socket, connVars, loopVars, serverVars,
               threadVars, toldVars
<1>33. CASE PeerResets
  BY <1>33 DEF PeerResets, Arrive, Socket, connVars, loopVars, serverVars,
               threadVars, toldVars
<1>34. CASE UNCHANGED vars
  BY <1>34 DEF vars, connVars, loopVars, serverVars, threadVars, toldVars
<1>. QED
  BY <1>2, <1>3, <1>4, <1>5, <1>6, <1>7, <1>8, <1>9, <1>10, <1>11, <1>13,
     <1>14, <1>15, <1>16, <1>17, <1>18, <1>19, <1>20, <1>21, <1>22, <1>23,
     <1>24, <1>25, <1>26, <1>27, <1>28, <1>29, <1>30, <1>31, <1>32, <1>33,
     <1>34
     DEF Next, LoopStep, UserStep

\* Every variable keeps its type, whatever the messages, threads and callbacks.
THEOREM ConnectionTypeCorrect == Spec => []TypeOK
BY TypeInit, TypeStep, PTL DEF Spec
-----------------------------------------------------------------------------
(***************************************************************************)
(* The calls of other threads.                                             *)
(***************************************************************************)
\* A thread is within a call that threads make.
Calls ==
  \A t \in Threads : thread[t] # None =>
    /\ thread[t].f.kind \in foreignOps
    /\ thread[t].step = "set" => thread[t].f.kind = "shutdown"

\* Only the threads' own steps change where they stand.
LEMMA ThreadFrame ==
  ASSUME [Next]_vars
  PROVE  \/ UNCHANGED <<foreignOps, thread>>
         \/ \E t \in Threads : ThreadStep(t) /\ UNCHANGED foreignOps
<1>1. CASE LoopStep
  BY <1>1
     DEF LoopStep, PollReturn, PollOther, HandleCloseEvent, HandleErrorEvent,
         ReadMessage, ReadEof, ReadError, HandleWriteEvent, Dispatch,
         EstablishHere, SwapFunctors, RunConnectEstablished,
         RunConnectDestroyed, RunUserFunctor, RunSend, RunShutdown,
         RunFunctor, FunctorsDone, CallbackReturns, CloseCallback,
         DestroyCallbackReturns, threadVars
<1>2. CASE UserStep
  BY <1>2 DEF UserStep, UserSend, UserShutdown, UserShares, threadVars
<1>3. CASE \/ RemoveConnectionInLoop \/ DestroyServer \/ DestroyServerHere
           \/ IoLoopEnds \/ MainLoopDestroyed
           \/ PeerSends \/ PeerCloses \/ PeerResets \/ UNCHANGED vars
  BY <1>3
     DEF RemoveConnectionInLoop, DestroyServer, DestroyServerHere, IoLoopEnds,
         MainLoopDestroyed, PeerSends, PeerCloses, PeerResets, Arrive, vars,
         threadVars
<1>4. ASSUME NEW t \in Threads, ThreadStep(t) PROVE UNCHANGED foreignOps
  BY <1>4
     DEF ThreadStep, ForeignSend, ForeignShutdown, ForeignSetState,
         ForeignPush, ForeignRelease
<1>. QED
  BY <1>1, <1>2, <1>3, <1>4 DEF Next

LEMMA CallsStep ==
  ASSUME TypeOK, Calls, [Next]_vars
  PROVE  Calls'
<1>1. CASE UNCHANGED <<foreignOps, thread>>
  BY <1>1 DEF Calls
<1>2. ASSUME NEW t \in Threads, ThreadStep(t), UNCHANGED foreignOps
      PROVE  Calls'
  <2>. SUFFICES ASSUME NEW u \in Threads, thread'[u] # None
                PROVE  /\ thread'[u].f.kind \in foreignOps
                       /\ thread'[u].step = "set" =>
                            thread'[u].f.kind = "shutdown"
    BY <1>2 DEF Calls
  <2>1. thread \in [Threads -> [step : {"set", "push"}, f : Functors]
                                 \cup {None}]
    BY DEF TypeOK
  <2>2. ASSUME NEW m \in Messages, ForeignSend(t, m)
        PROVE  /\ thread'[u].f.kind \in foreignOps
               /\ thread'[u].step = "set" => thread'[u].f.kind = "shutdown"
    <3>1. /\ Call("push", "send", m, t).f.kind = "send"
          /\ Call("push", "send", m, t).step # "set"
      BY DEF Call
    <3>. QED
      BY <2>1, <2>2, <3>1 DEF ForeignSend, Calls
  <2>3. CASE ForeignShutdown(t)
    <3>1. Call("set", "shutdown", None, t).f.kind = "shutdown"
      BY DEF Call
    <3>. QED
      BY <2>1, <2>3, <3>1 DEF ForeignShutdown, Calls
  <2>4. CASE ForeignSetState(t)
    <3>1. /\ thread[t] \in [step : {"set", "push"}, f : Functors]
          /\ thread[t].f.kind \in foreignOps
      BY <2>1, <2>4 DEF ForeignSetState, Calls
    <3>2. /\ [thread[t] EXCEPT !.step = "push"].f = thread[t].f
          /\ [thread[t] EXCEPT !.step = "push"].step # "set"
      BY <3>1
    <3>. QED
      BY <2>1, <2>4, <3>1, <3>2 DEF ForeignSetState, Calls
  <2>5. CASE ForeignPush(t)
    BY <2>1, <2>5 DEF ForeignPush, Calls
  <2>6. CASE ForeignRelease(t)
    BY <2>6 DEF ForeignRelease, Calls
  <2>. QED
    BY <1>2, <2>2, <2>3, <2>4, <2>5, <2>6 DEF ThreadStep
<1>. QED
  BY <1>1, <1>2, ThreadFrame
-----------------------------------------------------------------------------
(***************************************************************************)
(* The start of a connection: connectEstablished is the first thing that   *)
(* happens to it, and happens once.                                        *)
(***************************************************************************)
EstablishFirst(fs) == fs # <<>> /\ fs[1].kind = "connectEstablished"

Phases ==
  /\ pc # "functors" => functors = <<>> /\ ran = 0
  /\ pc = "poll" => callback = "none"

\* Until then nothing has touched the connection,
Untouched ==
  state_ = "kConnecting" =>
    /\ index_ = "kNew" /\ events_ = {} /\ outputBuffer_ = <<>> /\ wire = <<>>
    /\ todo = {} /\ callback = "none" /\ told = "nothing"
    /\ hold = {} /\ \A t \in Threads : thread[t] = None

\* and connectEstablished is next,
Expected ==
  state_ = "kConnecting" =>
    \/ ioIsMain /\ pc = "events"
    \/ /\ ~ioIsMain
       /\ \/ pc = "left"
          \/ pc \in {"poll", "events"} /\ EstablishFirst(pendingFunctors_)
          \/ pc = "functors" /\ ran = 0 /\ EstablishFirst(functors)

\* and nowhere else.
Once ==
  /\ \A i \in DOMAIN pendingFunctors_ :
       pendingFunctors_[i].kind = "connectEstablished" =>
         /\ i = 1 /\ state_ = "kConnecting" /\ ~ioIsMain
         /\ pc \in {"poll", "events"}
  /\ \A i \in ran + 1 .. Len(functors) :
       functors[i].kind = "connectEstablished" =>
         i = 1 /\ state_ = "kConnecting" /\ ~ioIsMain /\ pc = "functors"

Start == Phases /\ Untouched /\ Expected /\ Once

\* pendingFunctors_ keeps what it has, and what comes is of these kinds.
Grows(kinds) ==
  /\ \A i \in DOMAIN pendingFunctors_ :
       /\ i \in DOMAIN pendingFunctors_'
       /\ pendingFunctors_'[i] = pendingFunctors_[i]
  /\ \A i \in DOMAIN pendingFunctors_' :
       i \in DOMAIN pendingFunctors_ \/ pendingFunctors_'[i].kind \in kinds

LEMMA PushGrows ==
  ASSUME pendingFunctors_ \in Seq(Functors), NEW fs \in Seq(Functors),
         NEW kinds, \A j \in DOMAIN fs : fs[j].kind \in kinds, Push(fs)
  PROVE  /\ Grows(kinds)
         /\ \A j \in DOMAIN fs : \E i \in DOMAIN pendingFunctors_' :
              pendingFunctors_'[i] = fs[j]
<1>. DEFINE n == Len(pendingFunctors_)
<1>1. n \in Nat /\ DOMAIN pendingFunctors_ = 1 .. n
  OBVIOUS
<1>2. Len(fs) \in Nat /\ DOMAIN fs = 1 .. Len(fs)
  OBVIOUS
<1>3. /\ pendingFunctors_' \in Seq(Functors)
      /\ Len(pendingFunctors_') = n + Len(fs)
      /\ \A i \in 1 .. n + Len(fs) : pendingFunctors_'[i] =
           IF i <= n THEN pendingFunctors_[i] ELSE fs[i - n]
  BY ConcatProperties DEF Push
<1>4. DOMAIN pendingFunctors_' = 1 .. n + Len(fs)
  BY <1>3
<1>. HIDE DEF n
<1>5. ASSUME NEW j \in DOMAIN fs
      PROVE  \E i \in DOMAIN pendingFunctors_' : pendingFunctors_'[i] = fs[j]
  <2>1. n + j \in DOMAIN pendingFunctors_' /\ ~(n + j <= n) /\ (n + j) - n = j
    BY <1>1, <1>2, <1>4
  <2>. QED
    BY <1>3, <1>4, <2>1
<1>6. ASSUME NEW i \in DOMAIN pendingFunctors_', i \notin DOMAIN pendingFunctors_
      PROVE  pendingFunctors_'[i].kind \in kinds
  <2>1. i \in 1 .. n + Len(fs) /\ ~(i <= n) /\ i - n \in DOMAIN fs
    BY <1>1, <1>2, <1>4, <1>6
  <2>. QED
    BY <1>3, <2>1
<1>7. ASSUME NEW i \in DOMAIN pendingFunctors_
      PROVE  /\ i \in DOMAIN pendingFunctors_'
             /\ pendingFunctors_'[i] = pendingFunctors_[i]
  BY <1>1, <1>2, <1>3, <1>4
<1>. QED
  BY <1>5, <1>6, <1>7 DEF Grows

Notes == {"writeComplete", "highWater"}

LEMMA QueueGrows ==
  ASSUME pendingFunctors_ \in Seq(Functors)
  PROVE  /\ UNCHANGED pendingFunctors_ => Grows({})
         /\ Notifies => Grows(Notes)
         /\ Push(<<Functor("connectDestroyed")>>) =>
              /\ Grows({"connectDestroyed"})
              /\ \E i \in DOMAIN pendingFunctors_' :
                   pendingFunctors_'[i].kind = "connectDestroyed"
         /\ \A f \in Functors : Push(<<f>>) => Grows({f.kind})
<1>1. UNCHANGED pendingFunctors_ => Grows({})
  BY DEF Grows
<1>2. Notifies => Grows(Notes)
  BY PushGrows DEF Notifies, Note, Notes
<1>3. \A f \in Functors : <<f>> \in Seq(Functors) /\ DOMAIN <<f>> = {1}
                          /\ <<f>>[1] = f
  OBVIOUS
<1>4. ASSUME NEW f \in Functors, Push(<<f>>)
      PROVE  /\ Grows({f.kind})
             /\ \E i \in DOMAIN pendingFunctors_' : pendingFunctors_'[i] = f
  <2>. DEFINE fs == <<f>>
  <2>1. fs \in Seq(Functors) /\ DOMAIN fs = {1} /\ fs[1] = f
    BY <1>3
  <2>2. Push(fs)
    BY <1>4
  <2>. HIDE DEF fs
  <2>3. \A j \in DOMAIN fs : fs[j].kind \in {f.kind}
    BY <2>1
  <2>4. /\ Grows({f.kind})
        /\ \A j \in DOMAIN fs : \E i \in DOMAIN pendingFunctors_' :
             pendingFunctors_'[i] = fs[j]
    BY <2>1, <2>2, <2>3, PushGrows
  <2>. QED
    BY <2>1, <2>4
<1>5. /\ Functor("connectDestroyed") \in Functors
      /\ Functor("connectDestroyed").kind = "connectDestroyed"
  BY FunctorType DEF Kinds
<1>. QED
  BY <1>1, <1>2, <1>4, <1>5

\* Once the connection is established, nothing leads back.
LEMMA UnderwayKeepsStart ==
  ASSUME Start, state_ # "kConnecting", state_' # "kConnecting",
         UNCHANGED <<pc, functors, ran>>, pc = "poll" => callback' = "none",
         NEW kinds, "connectEstablished" \notin kinds, Grows(kinds)
  PROVE  Start'
<1>1. Phases' /\ Untouched' /\ Expected'
  BY DEF Start, Phases, Untouched, Expected
<1>2. \A i \in DOMAIN pendingFunctors_' :
        pendingFunctors_'[i].kind # "connectEstablished"
  BY DEF Start, Once, Grows
<1>3. \A i \in ran' + 1 .. Len(functors') :
        functors'[i].kind # "connectEstablished"
  BY DEF Start, Once
<1>. QED
  BY <1>1, <1>2, <1>3 DEF Start, Once

\* Until then, nothing but the queues and the peer moves.
LEMMA EarlyKeepsStart ==
  ASSUME TypeOK, Start, UNCHANGED <<state_, index_, events_, outputBuffer_>>,
         UNCHANGED <<wire, todo, callback, told, hold, thread, ioIsMain>>,
         UNCHANGED <<pc, functors, ran>>,
         NEW kinds, "connectEstablished" \notin kinds, Grows(kinds)
  PROVE  Start'
<1>1. pendingFunctors_ \in Seq(Functors)
  BY DEF TypeOK
<1>2. EstablishFirst(pendingFunctors_) => EstablishFirst(pendingFunctors_')
  <2>1. pendingFunctors_ # <<>> => 1 \in DOMAIN pendingFunctors_
    BY <1>1
  <2>. QED
    BY <2>1 DEF EstablishFirst, Grows
<1>3. EstablishFirst(functors) => EstablishFirst(functors')
  BY DEF EstablishFirst
<1>4. Phases' /\ Untouched'
  BY DEF Start, Phases, Untouched
<1>5. Expected'
  BY <1>2, <1>3 DEF Start, Expected, EstablishFirst
<1>6. Once'
  BY DEF Start, Once, Grows
<1>. QED
  BY <1>4, <1>5, <1>6 DEF Start

\* A functor that runs while the connection is being established is
\* connectEstablished.
LEMMA RunsInOrder ==
  ASSUME TypeOK, Start, NEW kind, RunFunctor(kind)
  PROVE  /\ state_ = "kConnecting" => kind = "connectEstablished"
         /\ kind = "connectEstablished" =>
              state_ = "kConnecting" /\ ~ioIsMain
<1>1. ran + 1 \in ran + 1 .. Len(functors) /\ functors[ran + 1].kind = kind
  BY DEF TypeOK, RunFunctor, NextFunctor
<1>2. pc = "functors"
  BY DEF RunFunctor
<1>3. state_ = "kConnecting" => kind = "connectEstablished"
  BY <1>1, <1>2 DEF Start, Expected, EstablishFirst
<1>4. kind = "connectEstablished" => state_ = "kConnecting" /\ ~ioIsMain
  BY <1>1 DEF Start, Once
<1>. QED
  BY <1>3, <1>4

LEMMA RunKeepsStart ==
  ASSUME TypeOK, Start, NEW kind, RunFunctor(kind), state_' # "kConnecting",
         NEW kinds, "connectEstablished" \notin kinds, Grows(kinds)
  PROVE  Start'
<1>1. Phases' /\ Untouched' /\ Expected'
  BY DEF RunFunctor, Start, Phases, Untouched, Expected
<1>2. /\ ran' = ran + 1 /\ UNCHANGED functors /\ ran \in 0 .. Len(functors)
      /\ pc = "functors"
  BY DEF RunFunctor, TypeOK
<1>3. \A i \in DOMAIN pendingFunctors_' :
        pendingFunctors_'[i].kind # "connectEstablished"
  BY <1>2 DEF Start, Once, Grows
<1>4. \A i \in ran' + 1 .. Len(functors') :
        functors'[i].kind # "connectEstablished"
  <2>. SUFFICES ASSUME NEW i \in ran + 2 .. Len(functors),
                       functors[i].kind = "connectEstablished"
                PROVE  FALSE
    BY <1>2
  <2>1. i \in ran + 1 .. Len(functors) /\ i # 1
    BY <1>2
  <2>. QED
    BY <2>1 DEF Start, Once
<1>. QED
  BY <1>1, <1>3, <1>4 DEF Start, Once

LEMMA StartInit ==
  ASSUME Init
  PROVE  Start /\ Calls
<1>0. Functor("connectEstablished").kind = "connectEstablished"
  BY FunctorType DEF Kinds
<1>1. /\ DOMAIN <<Functor("connectEstablished")>> = {1}
      /\ <<Functor("connectEstablished")>> # <<>>
      /\ <<Functor("connectEstablished")>>[1].kind = "connectEstablished"
  BY <1>0
<1>2. Phases /\ Untouched /\ Expected
  BY <1>1 DEF Init, Phases, Untouched, Expected, EstablishFirst
<1>3. Once
  BY <1>1 DEF Init, Once
<1>4. Calls
  BY DEF Init, Calls
<1>. QED
  BY <1>2, <1>3, <1>4 DEF Start

LEMMA StartStep ==
  ASSUME TypeOK, Calls, Start, [Next]_vars
  PROVE  Start'
<1>1. pendingFunctors_ \in Seq(Functors)
  BY DEF TypeOK
<1>2. /\ UNCHANGED pendingFunctors_ => Grows({})
      /\ Notifies => Grows(Notes)
      /\ Push(<<Functor("connectDestroyed")>>) => Grows({"connectDestroyed"})
      /\ \A f \in Functors : Push(<<f>>) => Grows({f.kind})
  BY <1>1, QueueGrows
<1>3. /\ "connectEstablished" \notin {}
      /\ "connectEstablished" \notin Notes
      /\ "connectEstablished" \notin {"connectDestroyed"}
  BY DEF Notes
<1>4. ASSUME NEW r \in Reports, PollReturn(r) PROVE Start'
  <2>1. /\ state_ # "kConnecting" /\ UNCHANGED <<state_, pendingFunctors_>>
        /\ UNCHANGED <<functors, ran, callback>> /\ pc' = "events"
        /\ pc = "poll"
    BY <1>4 DEF PollReturn, Start, Untouched, connVars
  <2>. QED
    BY <2>1 DEF Start, Phases, Untouched, Expected, Once
<1>5. CASE PollOther
  <2>1. /\ UNCHANGED <<state_, pendingFunctors_, index_, events_, outputBuffer_>>
        /\ UNCHANGED <<functors, ran, callback, ioIsMain, todo, thread, hold>>
        /\ UNCHANGED <<wire, told>>
        /\ pc' = "events" /\ pc = "poll"
    BY <1>5 DEF PollOther, connVars, serverVars, threadVars, toldVars
  <2>2. Phases' /\ Untouched'
    BY <2>1 DEF Start, Phases, Untouched
  <2>3. Expected'
    BY <2>1 DEF Start, Expected, EstablishFirst
  <2>4. Once'
    BY <2>1 DEF Start, Once
  <2>. QED
    BY <2>2, <2>3, <2>4 DEF Start
<1>6. ASSUME NEW handler, Dispatch(handler), state_' # "kConnecting",
             UNCHANGED pendingFunctors_ \/ Notifies
      PROVE  Start'
  <2>1. state_ # "kConnecting" /\ UNCHANGED <<pc, functors, ran>>
        /\ pc # "poll"
    BY <1>6 DEF Dispatch, Start, Untouched
  <2>. QED
    BY <1>2, <1>3, <1>6, <2>1, UnderwayKeepsStart
<1>7. CASE HandleCloseEvent
  BY <1>6, <1>7, HandleCloseFacts DEF HandleCloseEvent
<1>8. ASSUME NEW handler, Dispatch(handler) PROVE state_ # "kConnecting"
  BY <1>8 DEF Dispatch, Start, Untouched
<1>9. CASE HandleErrorEvent
  BY <1>6, <1>8, <1>9 DEF HandleErrorEvent, connVars
<1>10. CASE ReadMessage
  BY <1>6, <1>8, <1>10 DEF ReadMessage, connVars
<1>11. CASE ReadEof
  BY <1>6, <1>11, HandleCloseFacts DEF ReadEof
<1>12. CASE ReadError
  BY <1>6, <1>8, <1>12 DEF ReadError, connVars
<1>13. CASE HandleWriteEvent
  <2>1. Dispatch("write")
    BY <1>13 DEF HandleWriteEvent
  <2>2. state_' # "kConnecting" /\ Notifies
    BY <1>8, <1>13, <2>1, HandleWriteFacts DEF WriteEffect
  <2>. QED
    BY <1>6, <2>1, <2>2
<1>14. CASE EstablishHere
  <2>1. /\ state_ = "kConnecting" /\ ioIsMain /\ state_' = "kConnected"
        /\ UNCHANGED <<pc, functors, ran, pendingFunctors_>>
    BY <1>14, ConnectEstablishedFacts DEF EstablishHere, Establishing
  <2>2. pc = "events"
    BY <2>1 DEF Start, Expected
  <2>3. Phases' /\ Untouched' /\ Expected'
    BY <2>1, <2>2 DEF Start, Phases, Untouched, Expected
  <2>4. Once'
    BY <2>1 DEF Start, Once
  <2>. QED
    BY <2>3, <2>4 DEF Start
<1>15. CASE SwapFunctors
  <2>1. /\ UNCHANGED <<state_, index_, events_, outputBuffer_>>
        /\ UNCHANGED <<callback, ioIsMain, todo, thread, hold, wire, told>>
        /\ pc' = "functors" /\ pc = "events" /\ ~Establishing
        /\ functors' = pendingFunctors_ /\ ran' = 0
        /\ pendingFunctors_' = <<>>
    BY <1>15 DEF SwapFunctors, connVars, serverVars, threadVars, toldVars
  <2>2. Phases' /\ Untouched'
    BY <2>1 DEF Start, Phases, Untouched
  <2>3. Expected'
    BY <2>1 DEF Start, Expected, Establishing, EstablishFirst
  <2>4. \A i \in ran' + 1 .. Len(functors') : i \in DOMAIN pendingFunctors_
    BY <1>1, <2>1
  <2>5. Once'
    BY <2>1, <2>4 DEF Start, Once
  <2>. QED
    BY <2>2, <2>3, <2>5 DEF Start
<1>16. CASE RunConnectEstablished
  BY <1>2, <1>3, <1>16, RunKeepsStart, ConnectEstablishedFacts
     DEF RunConnectEstablished
<1>17. CASE RunConnectDestroyed
  <2>1. RunFunctor("connectDestroyed") /\ state_ # "kConnecting"
    BY <1>17, RunsInOrder DEF RunConnectDestroyed
  <2>2. state_' # "kConnecting"
    BY <1>17, <2>1, ConnectDestroyedFacts DEF RunConnectDestroyed
  <2>. QED
    BY <1>2, <1>3, <1>17, <2>1, <2>2, RunKeepsStart DEF RunConnectDestroyed
<1>18. CASE RunUserFunctor
  <2>1. PICK kind \in {"writeComplete", "highWater"} : RunFunctor(kind)
    BY <1>18 DEF RunUserFunctor
  <2>2. state_' # "kConnecting"
    BY <1>18, <2>1, RunsInOrder DEF RunUserFunctor, connVars
  <2>. QED
    BY <1>2, <1>3, <1>18, <2>1, <2>2, RunKeepsStart DEF RunUserFunctor
<1>19. CASE RunSend
  <2>1. RunFunctor("send") /\ NextFunctor.msg \in Messages
    <3>1. NextFunctor \in Functors /\ NextFunctor.kind = "send"
      BY <1>19 DEF RunSend, RunFunctor, NextFunctor, TypeOK
    <3>. QED
      BY <1>19, <3>1 DEF RunSend, Functors
  <2>2. SendEffect
    BY <1>19, <2>1, BytesType, SendInLoopFacts DEF RunSend
  <2>3. state_' # "kConnecting"
    BY <2>1, <2>2, RunsInOrder DEF SendEffect
  <2>. QED
    BY <1>2, <1>3, <2>1, <2>2, <2>3, RunKeepsStart DEF SendEffect
<1>20. CASE RunShutdown
  <2>1. RunFunctor("shutdown") /\ state_' # "kConnecting"
    BY <1>20, RunsInOrder DEF RunShutdown, connVars
  <2>. QED
    BY <1>2, <1>3, <1>20, <2>1, RunKeepsStart DEF RunShutdown
<1>21. CASE FunctorsDone
  <2>1. /\ UNCHANGED <<state_, pendingFunctors_, callback>>
        /\ functors' = <<>> /\ ran' = 0 /\ pc' = "poll" /\ pc = "functors"
        /\ ran = Len(functors) /\ callback = "none"
    BY <1>21 DEF FunctorsDone, connVars
  <2>2. state_ # "kConnecting"
    <3>1. functors # <<>> => Len(functors) # 0
      BY DEF TypeOK
    <3>. QED
      BY <2>1, <3>1 DEF Start, Expected, EstablishFirst
  <2>3. ~(\E i \in ran' + 1 .. Len(functors') : TRUE)
    BY <2>1
  <2>. QED
    BY <2>1, <2>2, <2>3 DEF Start, Phases, Untouched, Expected, Once
<1>22. CASE CallbackReturns \/ CloseCallback \/ DestroyCallbackReturns
  <2>1. /\ state_ # "kConnecting" /\ UNCHANGED state_
        /\ UNCHANGED <<pc, functors, ran>> /\ callback' = "none"
    BY <1>22
       DEF CallbackReturns, CloseCallback, DestroyCallbackReturns, connVars,
           Start, Untouched
  <2>2. UNCHANGED pendingFunctors_ \/ Push(<<Functor("connectDestroyed")>>)
    BY <1>22 DEF CallbackReturns, CloseCallback, DestroyCallbackReturns
  <2>. QED
    BY <1>2, <1>3, <2>1, <2>2, UnderwayKeepsStart
<1>23. ASSUME NEW m \in Messages, UserSend(m) PROVE Start'
  <2>1. /\ state_ # "kConnecting" /\ UNCHANGED <<pc, functors, ran, callback>>
        /\ callback # "none"
    BY <1>23 DEF UserSend, loopVars, Start, Untouched
  <2>2. UNCHANGED state_ /\ (UNCHANGED pendingFunctors_ \/ Notifies)
    BY <1>23, BytesType, SendInLoopFacts DEF UserSend, SendEffect, connVars
  <2>3. pc # "poll"
    BY <2>1 DEF Start, Phases
  <2>. QED
    BY <1>2, <1>3, <2>1, <2>2, <2>3, UnderwayKeepsStart
<1>24. CASE UserShutdown
  BY <1>2, <1>3, <1>24, UnderwayKeepsStart
     DEF UserShutdown, loopVars, Start, Phases
<1>25. ASSUME NEW t \in Threads, UserShares(t) PROVE Start'
  BY <1>2, <1>3, <1>25, UnderwayKeepsStart
     DEF UserShares, connVars, loopVars, Start, Phases, Untouched
<1>26. CASE RemoveConnectionInLoop \/ DestroyServer
  <2>1. /\ UNCHANGED <<state_, index_, events_, outputBuffer_>>
        /\ UNCHANGED <<wire, todo, callback, told, hold, thread, ioIsMain>>
        /\ UNCHANGED <<pc, functors, ran>>
    BY <1>26
       DEF RemoveConnectionInLoop, DestroyServer, connVars, loopVars,
           threadVars, toldVars
  <2>2. UNCHANGED pendingFunctors_ \/ Push(<<Functor("connectDestroyed")>>)
    BY <1>26 DEF RemoveConnectionInLoop, DestroyServer
  <2>. QED
    BY <1>2, <1>3, <2>1, <2>2, EarlyKeepsStart
<1>27. CASE DestroyServerHere
  <2>1. /\ UNCHANGED <<functors, ran, pendingFunctors_>>
        /\ pc = "poll" /\ pc' = "left" /\ ioIsMain
    BY <1>27 DEF DestroyServerHere
  <2>2. state_ # "kConnecting"
    BY <2>1 DEF Start, Expected
  <2>3. state_' # "kConnecting"
    BY <1>27, <2>2, ConnectDestroyedFacts DEF DestroyServerHere, connVars
  <2>4. Phases' /\ Untouched' /\ Expected'
    BY <2>1, <2>3 DEF Start, Phases, Untouched, Expected
  <2>5. Once'
    BY <2>1, <2>2 DEF Start, Once
  <2>. QED
    BY <2>4, <2>5 DEF Start
<1>28. CASE IoLoopEnds \/ MainLoopDestroyed
  <2>1. /\ UNCHANGED <<state_, index_, events_, outputBuffer_>>
        /\ UNCHANGED <<wire, todo, callback, told, hold, thread, ioIsMain>>
        /\ UNCHANGED <<functors, ran>>
        /\ pc \in {"poll", "left"} /\ pc' = "left"
        /\ pendingFunctors_' = <<>>
    BY <1>28
       DEF IoLoopEnds, MainLoopDestroyed, connVars, loopVars, serverVars,
           threadVars, toldVars
  <2>2. Phases' /\ Untouched'
    BY <2>1 DEF Start, Phases, Untouched
  <2>3. Expected'
    BY <1>28, <2>1 DEF Start, Expected, IoLoopEnds
  <2>4. Once'
    BY <2>1 DEF Start, Once, Phases
  <2>. QED
    BY <2>2, <2>3, <2>4 DEF Start
<1>29. ASSUME NEW t \in Threads, ThreadStep(t) PROVE Start'
  <2>1. /\ UNCHANGED <<pc, functors, ran, callback>>
        /\ pc = "poll" => callback = "none"
    BY <1>29
       DEF ThreadStep, ForeignSend, ForeignShutdown, ForeignSetState,
           ForeignPush, ForeignRelease, loopVars, Start, Phases
  <2>2. state_ # "kConnecting"
    BY <1>29
       DEF ThreadStep, ForeignSend, ForeignShutdown, ForeignSetState,
           ForeignPush, ForeignRelease, Start, Untouched
  <2>3. state_' # "kConnecting"
    BY <1>29, <2>2
       DEF ThreadStep, ForeignSend, ForeignShutdown, ForeignSetState,
           ForeignPush, ForeignRelease, connVars
  <2>4. UNCHANGED pendingFunctors_ \/ ForeignPush(t)
    BY <1>29
       DEF ThreadStep, ForeignSend, ForeignShutdown, ForeignSetState,
           ForeignRelease
  <2>5. CASE ForeignPush(t)
    <3>1. /\ thread[t] \in [step : {"set", "push"}, f : Functors]
          /\ thread[t].f.kind \in foreignOps
      BY <2>5 DEF ForeignPush, Calls, TypeOK
    <3>2. /\ thread[t].f \in Functors
          /\ "connectEstablished" \notin {thread[t].f.kind}
      BY <3>1, ForeignUsesAssumption DEF TypeOK
    <3>3. Grows({thread[t].f.kind})
      BY <1>2, <2>5, <3>2 DEF ForeignPush
    <3>. QED
      BY <2>1, <2>2, <2>3, <3>2, <3>3, UnderwayKeepsStart
  <2>. QED
    BY <1>2, <1>3, <2>1, <2>2, <2>3, <2>4, <2>5, UnderwayKeepsStart
<1>30. CASE PeerSends \/ PeerCloses \/ PeerResets \/ UNCHANGED vars
  <2>1. /\ UNCHANGED <<state_, index_, events_, outputBuffer_>>
        /\ UNCHANGED <<wire, todo, callback, told, hold, thread, ioIsMain>>
        /\ UNCHANGED <<pc, functors, ran, pendingFunctors_>>
    BY <1>30
       DEF PeerSends, PeerCloses, PeerResets, Arrive, vars, connVars,
           loopVars, serverVars, threadVars, toldVars
  <2>. QED
    BY <1>2, <1>3, <2>1, EarlyKeepsStart
<1>. QED
  BY <1>4, <1>5, <1>7, <1>9, <1>10, <1>11, <1>12, <1>13, <1>14, <1>15, <1>16,
     <1>17, <1>18, <1>19, <1>20, <1>21, <1>22, <1>23, <1>24, <1>25, <1>26,
     <1>27, <1>28, <1>29, <1>30
     DEF Next, LoopStep, UserStep
-----------------------------------------------------------------------------
(***************************************************************************)
(* The interest in output.                                                 *)
(***************************************************************************)
\* Whoever disables the channel finds it watched,
Watched ==
  /\ state_ = "kConnected" => index_ = "kAdded"
  /\ index_ = "kDeleted" => events_ = {}
  /\ todo # {} => pc = "events" /\ index_ # "kNew"
  /\ todo \cap {"close", "read"} # {} => index_ = "kAdded"
  /\ "close" \notin todo \/ "read" \notin todo
  /\ callback = "destroy" => state_ # "kConnected" /\ pc \in {"functors", "left"}

\* so that EPOLLOUT and outputBuffer_ go together.
Output ==
  /\ "write" \in events_ => outputBuffer_ # <<>>
  /\ index_ = "kAdded" /\ outputBuffer_ # <<>> => "write" \in events_

Interested == Watched /\ Output

LEMMA InterestedFrame ==
  ASSUME Interested, UNCHANGED <<state_, events_, index_, outputBuffer_>>,
         UNCHANGED <<todo, callback, pc>>
  PROVE  Interested'
BY DEF Interested, Watched, Output

\* A sendInLoop that does not run after the last close.
LEMMA SendKeepsInterested ==
  ASSUME TypeOK, Interested, SendEffect, UNCHANGED <<todo, callback, pc>>
  PROVE  Interested'
<1>1. Output'
  BY DEF SendEffect, Interested, Output
<1>2. Watched'
  BY DEF SendEffect, Interested, Watched
<1>. QED
  BY <1>1, <1>2 DEF Interested

LEMMA InterestedStep ==
  ASSUME TypeOK, Start, Interested, [Next]_vars
  PROVE  Interested'
<1>. USE DEF Interested
<1>1. ASSUME NEW r \in Reports, PollReturn(r) PROVE Interested'
  BY <1>1 DEF PollReturn, Handlers, connVars, Watched, Output, Start, Phases
<1>2. CASE PollOther
  BY <1>2 DEF PollOther, connVars, Watched, Output, Start, Phases
<1>3. ASSUME NEW handler, Dispatch(handler)
      PROVE  /\ pc = "events" /\ UNCHANGED pc /\ callback = "none"
             /\ handler \in todo /\ todo' = todo \ {handler}
             /\ todo \cap Earlier(handler) = {}
  BY <1>3 DEF Dispatch
<1>4. ASSUME Dispatch("close") \/ Dispatch("read"), HandleClose
      PROVE  Interested'
  <2>1. /\ index_ = "kAdded" /\ UNCHANGED pc /\ todo' \subseteq todo
        /\ todo' \cap {"close", "read"} = {} /\ pc = "events"
    BY <1>3, <1>4 DEF Watched, Earlier
  <2>. QED
    BY <1>4, <2>1, HandleCloseFacts DEF Watched, Output
<1>5. CASE HandleCloseEvent
  BY <1>4, <1>5 DEF HandleCloseEvent
<1>6. CASE ReadEof
  BY <1>4, <1>6 DEF ReadEof
<1>7. CASE HandleErrorEvent
  BY <1>3, <1>7 DEF HandleErrorEvent, connVars, Watched, Output
<1>8. CASE ReadMessage
  BY <1>3, <1>8 DEF ReadMessage, connVars, Watched, Output
<1>9. CASE ReadError
  BY <1>3, <1>9 DEF ReadError, connVars, Watched, Output
<1>10. CASE HandleWriteEvent
  <2>1. /\ pc = "events" /\ UNCHANGED <<pc, callback>> /\ callback = "none"
        /\ todo' = {} /\ index_ # "kNew"
    BY <1>3, <1>10 DEF HandleWriteEvent, Watched, Earlier, TypeOK
  <2>2. WriteEffect
    BY <1>10, HandleWriteFacts
  <2>3. Output'
    BY <2>2 DEF WriteEffect, Output
  <2>4. Watched'
    BY <2>1, <2>2 DEF WriteEffect, Watched
  <2>. QED
    BY <2>3, <2>4
<1>11. ASSUME state_ = "kConnecting", ConnectEstablished,
              UNCHANGED <<pc, todo>>
       PROVE  Interested'
  <2>1. /\ outputBuffer_' = <<>> /\ events_' = {"read"} /\ todo' = {}
        /\ index_' = "kAdded" /\ callback' = "plain"
    BY <1>11, ConnectEstablishedFacts DEF Start, Untouched
  <2>. QED
    BY <2>1 DEF Watched, Output
<1>12. CASE EstablishHere
  BY <1>11, <1>12 DEF EstablishHere, Establishing
<1>13. CASE RunConnectEstablished
  BY <1>11, <1>13, RunsInOrder DEF RunConnectEstablished, RunFunctor
<1>14. ASSUME ConnectDestroyed, UNCHANGED todo, todo = {},
              callback = "none", pc' \in {"functors", "left"}
       PROVE  Interested'
  BY <1>14, ConnectDestroyedFacts DEF Watched, Output
<1>15. CASE RunConnectDestroyed
  <2>1. /\ ConnectDestroyed /\ UNCHANGED <<todo, pc>> /\ pc = "functors"
        /\ callback = "none"
    BY <1>15 DEF RunConnectDestroyed, RunFunctor
  <2>2. todo = {}
    BY <2>1 DEF Watched
  <2>. QED
    BY <1>14, <2>1, <2>2
<1>16. CASE DestroyServerHere
  <2>1. /\ UNCHANGED todo /\ pc = "poll" /\ pc' = "left"
        /\ ConnectDestroyed \/ UNCHANGED <<connVars, callback, toldVars>>
    BY <1>16 DEF DestroyServerHere
  <2>2. todo = {} /\ callback = "none"
    BY <2>1 DEF Watched, Start, Phases
  <2>3. CASE UNCHANGED <<connVars, callback, toldVars>>
    BY <2>1, <2>2, <2>3 DEF connVars, Watched, Output
  <2>. QED
    BY <1>14, <2>1, <2>2, <2>3
<1>17. CASE SwapFunctors \/ FunctorsDone
  BY <1>17 DEF SwapFunctors, FunctorsDone, connVars, Watched, Output
<1>18. CASE RunUserFunctor
  <2>1. UNCHANGED <<pc, todo>> /\ callback' = "plain" /\ UNCHANGED connVars
    BY <1>18 DEF RunUserFunctor, RunFunctor
  <2>. QED
    BY <2>1 DEF connVars, Watched, Output
<1>19. CASE RunSend
  <2>1. NextFunctor \in Functors /\ NextFunctor.kind = "send"
    BY <1>19 DEF RunSend, RunFunctor, NextFunctor, TypeOK
  <2>2. NextFunctor.msg \in Messages
    BY <2>1 DEF Functors
  <2>3. SendEffect /\ UNCHANGED <<todo, callback, pc>>
    BY <1>19, <2>2, BytesType, SendInLoopFacts DEF RunSend, RunFunctor
  <2>. QED
    BY <2>3, SendKeepsInterested
<1>20. CASE RunShutdown
  BY <1>20, InterestedFrame DEF RunShutdown, RunFunctor, connVars
<1>21. CASE CallbackReturns \/ CloseCallback
  BY <1>21 DEF CallbackReturns, CloseCallback, connVars, Watched, Output
<1>22. CASE DestroyCallbackReturns
  BY <1>22 DEF DestroyCallbackReturns, RemoveChannel, Watched, Output
<1>23. ASSUME NEW m \in Messages, UserSend(m) PROVE Interested'
  <2>1. UNCHANGED <<todo, callback, pc>>
    BY <1>23 DEF UserSend, loopVars
  <2>2. SendInLoop(Bytes(m)) \/ UNCHANGED connVars
    BY <1>23 DEF UserSend
  <2>. QED
    BY <2>1, <2>2, BytesType, SendInLoopFacts, SendKeepsInterested,
       InterestedFrame DEF connVars
<1>24. CASE UserShutdown
  BY <1>24 DEF UserShutdown, loopVars, Watched, Output
<1>25. ASSUME NEW t \in Threads, UserShares(t) PROVE Interested'
  BY <1>25, InterestedFrame DEF UserShares, connVars, loopVars
<1>26. CASE RemoveConnectionInLoop \/ DestroyServer \/ MainLoopDestroyed
  BY <1>26, InterestedFrame
     DEF RemoveConnectionInLoop, DestroyServer, MainLoopDestroyed, connVars,
         loopVars
<1>27. CASE IoLoopEnds
  BY <1>27 DEF IoLoopEnds, connVars, Watched, Output, Start, Phases
<1>28. ASSUME NEW t \in Threads, ThreadStep(t) PROVE Interested'
  <2>1. CASE ForeignSetState(t)
    BY <2>1 DEF ForeignSetState, loopVars, Watched, Output
  <2>2. CASE ~ForeignSetState(t)
    BY <1>28, <2>2, InterestedFrame
       DEF ThreadStep, ForeignSend, ForeignShutdown, ForeignPush,
           ForeignRelease, connVars, loopVars
  <2>. QED
    BY <2>1, <2>2
<1>29. CASE PeerSends \/ PeerCloses \/ PeerResets \/ UNCHANGED vars
  BY <1>29, InterestedFrame
     DEF PeerSends, PeerCloses, PeerResets, Arrive, vars, connVars, loopVars
<1>. QED
  BY <1>1, <1>2, <1>5, <1>6, <1>7, <1>8, <1>9, <1>10, <1>12, <1>13, <1>15,
     <1>16, <1>17, <1>18, <1>19, <1>20, <1>21, <1>22, <1>23, <1>24, <1>25,
     <1>26, <1>27, <1>28, <1>29
     DEF Next, LoopStep, UserStep

LEMMA InterestedInit ==
  ASSUME Init
  PROVE  Interested
BY DEF Init, Interested, Watched, Output

\* The invariant that everything else rests on.
Ordered == TypeOK /\ Calls /\ Start /\ Interested

LEMMA OrderedInvariant == Spec => []Ordered
<1>1. Init => Ordered
  BY TypeInit, StartInit, InterestedInit DEF Ordered
<1>2. Ordered /\ [Next]_vars => Ordered'
  BY TypeStep, CallsStep, StartStep, InterestedStep DEF Ordered
<1>. QED
  BY <1>1, <1>2, PTL DEF Spec

\* While the channel is watched, EPOLLOUT is asked for exactly when bytes wait.
\* It needs that connectEstablished comes first, and that whoever disables the
\* channel finds it watched: a second disableAll would add it again.
THEOREM ConnectionWriteInterest == Spec => []WriteInterest
<1>1. Ordered => WriteInterest
  BY DEF Ordered, Interested, Output, WriteInterest
<1>. QED
  BY <1>1, OrderedInvariant, PTL
-----------------------------------------------------------------------------
(***************************************************************************)
(* What waits in the queues.                                               *)
(***************************************************************************)
\* The kinds that the io loop and the main loop push: connectDestroyed only by
\* whoever takes the connection out of the map.
LoopKinds == IF inMap' THEN Notes ELSE Notes \cup {"connectDestroyed"}

\* One step of the queues.
QueueMoves ==
  \/ UNCHANGED <<functors, ran>> /\ Grows(LoopKinds)
  \/ \E t \in Threads :
       /\ ForeignPush(t) /\ UNCHANGED <<functors, ran>>
       /\ Grows({thread[t].f.kind})
  \/ \E kind \in Kinds : RunFunctor(kind) /\ Grows(LoopKinds)
  \/ /\ functors' = pendingFunctors_ /\ ran' = 0 /\ pendingFunctors_' = <<>>
     /\ functors = <<>>
  \/ /\ functors' = <<>> /\ ran' = 0 /\ UNCHANGED pendingFunctors_
     /\ ran = Len(functors)
  \/ UNCHANGED <<functors, ran>> /\ pendingFunctors_' = <<>> /\ pc' = "left"

LEMMA GrowsMore ==
  ASSUME NEW kinds, NEW more, kinds \subseteq more, Grows(kinds)
  PROVE  Grows(more)
BY DEF Grows

LEMMA QueueStep ==
  ASSUME Ordered, [Next]_vars
  PROVE  QueueMoves
<1>1. /\ pendingFunctors_ \in Seq(Functors) /\ TypeOK /\ Start
      /\ Notes \subseteq LoopKinds /\ {} \subseteq LoopKinds
      /\ ~inMap' => {"connectDestroyed"} \subseteq LoopKinds
  BY DEF Ordered, TypeOK, LoopKinds
<1>2. /\ UNCHANGED pendingFunctors_ => Grows(LoopKinds)
      /\ Notifies => Grows(LoopKinds)
      /\ Push(<<Functor("connectDestroyed")>>) /\ ~inMap' => Grows(LoopKinds)
      /\ \A f \in Functors : Push(<<f>>) => Grows({f.kind})
  BY <1>1, QueueGrows, GrowsMore
<1>3. CASE /\ UNCHANGED <<functors, ran>>
           /\ \/ UNCHANGED pendingFunctors_ \/ Notifies
              \/ Push(<<Functor("connectDestroyed")>>) /\ ~inMap'
  BY <1>2, <1>3 DEF QueueMoves
<1>4. ASSUME NEW kind \in Kinds, RunFunctor(kind),
             UNCHANGED pendingFunctors_ \/ Notifies
      PROVE  QueueMoves
  BY <1>2, <1>4 DEF QueueMoves
<1>5. ASSUME NEW r \in Reports, PollReturn(r) PROVE QueueMoves
  BY <1>3, <1>5 DEF PollReturn
<1>6. CASE \/ PollOther \/ HandleCloseEvent \/ HandleErrorEvent \/ ReadMessage
           \/ ReadEof \/ ReadError \/ EstablishHere
  BY <1>3, <1>6
     DEF PollOther, HandleCloseEvent, HandleErrorEvent, ReadMessage, ReadEof,
         ReadError, EstablishHere, Dispatch
<1>7. CASE HandleWriteEvent
  BY <1>1, <1>3, <1>7, HandleWriteFacts
     DEF HandleWriteEvent, Dispatch, WriteEffect
<1>8. CASE SwapFunctors
  BY <1>1, <1>8 DEF SwapFunctors, QueueMoves, Start, Phases
<1>9. CASE FunctorsDone
  BY <1>9 DEF FunctorsDone, QueueMoves
<1>10. CASE \/ RunConnectEstablished \/ RunConnectDestroyed
            \/ RunUserFunctor \/ RunShutdown
  BY <1>4, <1>10
     DEF RunConnectEstablished, RunConnectDestroyed, RunUserFunctor,
         RunShutdown, Kinds
<1>11. CASE RunSend
  <2>1. RunFunctor("send") /\ NextFunctor \in Functors
        /\ NextFunctor.kind = "send"
    BY <1>1, <1>11 DEF RunSend, RunFunctor, NextFunctor, TypeOK
  <2>2. NextFunctor.msg \in Messages
    BY <2>1 DEF Functors
  <2>3. Notifies
    BY <1>1, <1>11, <2>2, BytesType, SendInLoopFacts DEF RunSend, SendEffect
  <2>. QED
    BY <1>4, <2>1, <2>3 DEF Kinds
<1>12. CASE CallbackReturns \/ CloseCallback \/ DestroyCallbackReturns
  BY <1>3, <1>12 DEF CallbackReturns, CloseCallback, DestroyCallbackReturns
<1>13. ASSUME NEW m \in Messages, UserSend(m) PROVE QueueMoves
  BY <1>1, <1>3, <1>13, BytesType, SendInLoopFacts
     DEF UserSend, SendEffect, loopVars
<1>14. CASE UserShutdown
  BY <1>3, <1>14 DEF UserShutdown, loopVars
<1>15. ASSUME NEW t \in Threads, UserShares(t) PROVE QueueMoves
  BY <1>3, <1>15 DEF UserShares, loopVars
<1>16. CASE RemoveConnectionInLoop \/ DestroyServer \/ DestroyServerHere
  BY <1>3, <1>16
     DEF RemoveConnectionInLoop, DestroyServer, DestroyServerHere, loopVars
<1>17. CASE IoLoopEnds \/ MainLoopDestroyed
  BY <1>17 DEF IoLoopEnds, MainLoopDestroyed, loopVars, QueueMoves
<1>18. ASSUME NEW t \in Threads, ThreadStep(t) PROVE QueueMoves
  <2>1. CASE ForeignPush(t)
    <3>1. thread[t].f \in Functors
      BY <1>1, <2>1 DEF ForeignPush, TypeOK
    <3>. QED
      BY <1>2, <2>1, <3>1 DEF ForeignPush, QueueMoves, loopVars
  <2>2. CASE ~ForeignPush(t)
    BY <1>3, <1>18, <2>2
       DEF ThreadStep, ForeignSend, ForeignShutdown, ForeignSetState,
           ForeignRelease, loopVars
  <2>. QED
    BY <2>1, <2>2
<1>19. CASE PeerSends \/ PeerCloses \/ PeerResets \/ UNCHANGED vars
  BY <1>3, <1>19
     DEF PeerSends, PeerCloses, PeerResets, Arrive, vars, loopVars
<1>. QED
  BY <1>5, <1>6, <1>7, <1>8, <1>9, <1>10, <1>11, <1>12, <1>13, <1>14, <1>15,
     <1>16, <1>17, <1>18, <1>19
     DEF Next, LoopStep, UserStep

\* What waits was pushed, and goes when it runs or with the loop.
LEMMA WaitingStep ==
  ASSUME Ordered, [Next]_vars, NEW kind
  PROVE  /\ Waiting(kind)' =>
              \/ Waiting(kind) \/ kind \in LoopKinds
              \/ \E t \in Threads : ForeignPush(t) /\ thread[t].f.kind = kind
         /\ Waiting(kind) =>
              Waiting(kind)' \/ RunFunctor(kind) \/ pc' = "left"
<1>. DEFINE Comes == Waiting(kind)' =>
              \/ Waiting(kind) \/ kind \in LoopKinds
              \/ \E t \in Threads : ForeignPush(t) /\ thread[t].f.kind = kind
            Stays == Waiting(kind) =>
              Waiting(kind)' \/ RunFunctor(kind) \/ pc' = "left"
<1>1. /\ pendingFunctors_ \in Seq(Functors) /\ functors \in Seq(Functors)
      /\ ran \in 0 .. Len(functors)
  BY DEF Ordered, TypeOK
<1>2. CASE UNCHANGED <<functors, ran>> /\ Grows(LoopKinds)
  BY <1>2 DEF Waiting, Grows
<1>3. ASSUME NEW t \in Threads, ForeignPush(t), UNCHANGED <<functors, ran>>,
             Grows({thread[t].f.kind})
      PROVE  Comes /\ Stays
  BY <1>3 DEF Waiting, Grows
<1>4. ASSUME NEW k \in Kinds, RunFunctor(k), Grows(LoopKinds)
      PROVE  Comes /\ Stays
  <2>1. /\ UNCHANGED functors /\ ran' = ran + 1 /\ ran < Len(functors)
        /\ functors[ran + 1].kind = k
    BY <1>4 DEF RunFunctor, NextFunctor
  <2>2. \A i : i \in ran' + 1 .. Len(functors') <=>
                 i \in ran + 1 .. Len(functors) /\ i # ran + 1
    BY <1>1, <2>1
  <2>3. Comes
    BY <1>4, <2>1, <2>2 DEF Waiting, Grows
  <2>4. Stays
    <3>1. CASE k = kind
      BY <1>4, <3>1
    <3>2. CASE k # kind
      BY <1>4, <2>1, <2>2, <3>2 DEF Waiting, Grows
    <3>. QED
      BY <3>1, <3>2
  <2>. QED
    BY <2>3, <2>4
<1>5. CASE /\ functors' = pendingFunctors_ /\ ran' = 0
           /\ pendingFunctors_' = <<>> /\ functors = <<>>
  <2>1. \A i : i \in ran' + 1 .. Len(functors') <=> i \in DOMAIN pendingFunctors_
    BY <1>1, <1>5
  <2>2. /\ ~(\E i \in ran + 1 .. Len(functors) : TRUE)
        /\ ~(\E i \in DOMAIN pendingFunctors_' : TRUE)
    BY <1>1, <1>5
  <2>. QED
    BY <1>5, <2>1, <2>2 DEF Waiting
<1>6. CASE /\ functors' = <<>> /\ ran' = 0 /\ UNCHANGED pendingFunctors_
           /\ ran = Len(functors)
  <2>1. /\ ~(\E i \in ran + 1 .. Len(functors) : TRUE)
        /\ ~(\E i \in ran' + 1 .. Len(functors') : TRUE)
    BY <1>1, <1>6
  <2>. QED
    BY <1>6, <2>1 DEF Waiting
<1>7. CASE UNCHANGED <<functors, ran>> /\ pendingFunctors_' = <<>> /\ pc' = "left"
  <2>1. ~(\E i \in DOMAIN pendingFunctors_' : TRUE)
    BY <1>7
  <2>. QED
    BY <1>7, <2>1 DEF Waiting
<1>. QED
  BY <1>2, <1>3, <1>4, <1>5, <1>6, <1>7, QueueStep DEF QueueMoves

LEMMA RunsWhatWaits ==
  ASSUME TypeOK, NEW kind, RunFunctor(kind)
  PROVE  Waiting(kind)
<1>1. ran + 1 \in ran + 1 .. Len(functors) /\ functors[ran + 1].kind = kind
  BY DEF TypeOK, RunFunctor, NextFunctor
<1>. QED
  BY <1>1 DEF Waiting

\* Only what other threads may ask for waits.
Uses == \A kind \in {"send", "shutdown"} : Waiting(kind) => kind \in foreignOps

LEMMA UsesStep ==
  ASSUME Ordered, Uses, [Next]_vars
  PROVE  Uses'
<1>1. UNCHANGED foreignOps
  BY ThreadFrame
<1>2. ASSUME NEW kind \in {"send", "shutdown"}, Waiting(kind)'
      PROVE  kind \in foreignOps
  <2>1. kind \notin LoopKinds
    BY <1>2 DEF LoopKinds, Notes
  <2>2. CASE Waiting(kind)
    BY <1>2, <2>2 DEF Uses
  <2>3. ASSUME NEW t \in Threads, ForeignPush(t), thread[t].f.kind = kind
        PROVE  kind \in foreignOps
    BY <2>3 DEF ForeignPush, Ordered, Calls
  <2>. QED
    BY <1>2, <2>1, <2>2, <2>3, WaitingStep
<1>. QED
  BY <1>1, <1>2 DEF Uses

Kept == Ordered /\ Uses

LEMMA KeptInvariant == Spec => []Kept
<1>1. Init => Uses
  <2>. SUFFICES ASSUME Init PROVE Uses
    OBVIOUS
  <2>1. \A i \in DOMAIN pendingFunctors_ :
          pendingFunctors_[i].kind \notin {"send", "shutdown"}
    BY FunctorType DEF Init, Kinds
  <2>2. ~(\E i \in ran + 1 .. Len(functors) : TRUE)
    BY DEF Init
  <2>. QED
    BY <2>1, <2>2 DEF Uses, Waiting
<1>2. Ordered /\ Uses /\ [Next]_vars => Uses'
  BY UsesStep
<1>. QED
  BY <1>1, <1>2, OrderedInvariant, PTL DEF Spec, Kept
-----------------------------------------------------------------------------
(***************************************************************************)
(* The write side of the socket.                                           *)
(***************************************************************************)
Settled == state_ \notin {"kConnecting", "kConnected"}

\* Who asks for output, who shuts the write side down, who may write after
\* that; and nothing leads back to kConnected.
WriteSideMoves ==
  /\ "write" \in events_' =>
       "write" \in events_ \/ state_ = "kConnected" \/ RunSend
  /\ sock.shutWr => sock'.shutWr
  /\ sock'.shutWr =>
       sock.shutWr \/ ("write" \notin events_' /\ (UserShutdown \/ RunShutdown))
  /\ sock'.pipe =>
       \/ sock.pipe
       \/ /\ sock.shutWr
          /\ "write" \in events_ \/ state_ = "kConnected" \/ RunSend
  /\ Settled => Settled'

LEMMA WriteSideStep ==
  ASSUME Ordered, [Next]_vars
  PROVE  WriteSideMoves
<1>. USE DEF WriteSideMoves
<1>1. TypeOK /\ Start /\ Interested /\ sock \in Socket
  BY DEF Ordered, TypeOK
<1>2. /\ [sock EXCEPT !.err = FALSE].shutWr = sock.shutWr
      /\ [sock EXCEPT !.err = FALSE].pipe = sock.pipe
      /\ [sock EXCEPT !.data = FALSE].shutWr = sock.shutWr
      /\ [sock EXCEPT !.data = FALSE].pipe = sock.pipe
      /\ [sock EXCEPT !.data = TRUE].shutWr = sock.shutWr
      /\ [sock EXCEPT !.data = TRUE].pipe = sock.pipe
      /\ [sock EXCEPT !.fin = TRUE].shutWr = sock.shutWr
      /\ [sock EXCEPT !.fin = TRUE].pipe = sock.pipe
      /\ [sock EXCEPT !.rst = TRUE, !.err = TRUE].shutWr = sock.shutWr
      /\ [sock EXCEPT !.rst = TRUE, !.err = TRUE].pipe = sock.pipe
      /\ [sock EXCEPT !.shutWr = TRUE].shutWr
      /\ [sock EXCEPT !.shutWr = TRUE].pipe = sock.pipe
  BY <1>1 DEF Socket
<1>3. ASSUME NEW r \in Reports, PollReturn(r) PROVE WriteSideMoves
  BY <1>3 DEF PollReturn, connVars, Settled
<1>4. CASE \/ PollOther \/ SwapFunctors \/ FunctorsDone
           \/ CallbackReturns \/ CloseCallback \/ RunUserFunctor
           \/ RemoveConnectionInLoop \/ DestroyServer \/ IoLoopEnds
           \/ MainLoopDestroyed \/ UNCHANGED vars
  BY <1>4
     DEF PollOther, SwapFunctors, FunctorsDone, CallbackReturns,
         CloseCallback, RunUserFunctor, RemoveConnectionInLoop,
         DestroyServer, IoLoopEnds, MainLoopDestroyed, vars, connVars, Settled
<1>5. CASE \/ HandleErrorEvent \/ ReadMessage \/ ReadError
           \/ PeerSends \/ PeerCloses \/ PeerResets
  BY <1>2, <1>5
     DEF HandleErrorEvent, ReadMessage, ReadError, PeerSends, PeerCloses,
         PeerResets, Arrive, connVars, Settled
<1>6. CASE HandleCloseEvent \/ ReadEof
  BY <1>1, <1>6, HandleCloseFacts DEF HandleCloseEvent, ReadEof, Settled
<1>7. CASE HandleWriteEvent
  BY <1>1, <1>7, HandleWriteFacts DEF WriteEffect, Settled
<1>8. ASSUME ConnectEstablished, UNCHANGED sock, state_ = "kConnecting"
      PROVE  WriteSideMoves
  BY <1>1, <1>8, ConnectEstablishedFacts DEF Settled
<1>9. CASE EstablishHere
  BY <1>8, <1>9 DEF EstablishHere, Establishing
<1>10. CASE RunConnectEstablished
  BY <1>1, <1>8, <1>10, RunsInOrder DEF RunConnectEstablished
<1>11. CASE RunConnectDestroyed
  BY <1>1, <1>11, ConnectDestroyedFacts DEF RunConnectDestroyed, Settled
<1>12. CASE DestroyServerHere
  BY <1>1, <1>12, ConnectDestroyedFacts
     DEF DestroyServerHere, connVars, Settled
<1>13. CASE RunSend
  <2>1. NextFunctor \in Functors /\ NextFunctor.kind = "send"
    BY <1>1, <1>13 DEF RunSend, RunFunctor, NextFunctor, TypeOK
  <2>2. NextFunctor.msg \in Messages
    BY <2>1 DEF Functors
  <2>3. SendEffect
    BY <1>1, <1>13, <2>2, BytesType, SendInLoopFacts DEF RunSend
  <2>. QED
    BY <1>13, <2>3 DEF SendEffect, Settled
<1>14. CASE RunShutdown \/ UserShutdown
  <2>1. /\ UNCHANGED events_
        /\ Settled => Settled'
        /\ \/ UNCHANGED sock
           \/ "write" \notin events_ /\ sock' = [sock EXCEPT !.shutWr = TRUE]
    BY <1>14
       DEF RunShutdown, UserShutdown, ShutdownInLoop, connVars, Settled
  <2>. QED
    BY <1>2, <1>14, <2>1
<1>15. CASE DestroyCallbackReturns
  BY <1>15 DEF DestroyCallbackReturns, RemoveChannel, Settled
<1>16. ASSUME NEW m \in Messages, UserSend(m) PROVE WriteSideMoves
  <2>1. CASE state_ = "kConnected" /\ SendInLoop(Bytes(m))
    BY <1>1, <2>1, BytesType, SendInLoopFacts DEF SendEffect, Settled
  <2>2. CASE UNCHANGED <<connVars, pendingFunctors_, sock, wire>>
    BY <2>2 DEF connVars, Settled
  <2>. QED
    BY <1>16, <2>1, <2>2 DEF UserSend
<1>17. ASSUME NEW t \in Threads, UserShares(t) PROVE WriteSideMoves
  BY <1>17 DEF UserShares, connVars, Settled
<1>18. ASSUME NEW t \in Threads, ThreadStep(t) PROVE WriteSideMoves
  BY <1>18
     DEF ThreadStep, ForeignSend, ForeignShutdown, ForeignSetState,
         ForeignPush, ForeignRelease, connVars, Settled
<1>. QED
  BY <1>3, <1>4, <1>5, <1>6, <1>7, <1>9, <1>10, <1>11, <1>12, <1>13, <1>14,
     <1>15, <1>16, <1>17, <1>18
     DEF Next, LoopStep, UserStep

\* Where no other thread sends, a socket whose write side is shut down, and a
\* connection that is about to do so, have left kConnected, and EPOLLOUT stays
\* off once the write side is shut.
Sealed ==
  "send" \notin foreignOps =>
    /\ sock.shutWr => Settled /\ "write" \notin events_
    /\ \/ Waiting("shutdown")
       \/ \E t \in Threads : thread[t] # None /\ thread[t].step = "push"
       => Settled
    /\ ~sock.pipe

LEMMA SealedStep ==
  ASSUME Kept, Sealed, [Next]_vars
  PROVE  Sealed'
<1>. SUFFICES ASSUME "send" \notin foreignOps
              PROVE  Sealed'
  BY ThreadFrame DEF Sealed
<1>1. /\ sock.shutWr => Settled /\ "write" \notin events_
      /\ Waiting("shutdown") => Settled
      /\ \A t \in Threads : thread[t] # None /\ thread[t].step = "push"
                              => Settled
      /\ ~sock.pipe
  BY DEF Sealed
<1>2. Ordered /\ TypeOK /\ WriteSideMoves /\ (Settled => Settled')
  BY WriteSideStep DEF Kept, Ordered, WriteSideMoves
<1>3. ~RunSend
  BY <1>2, RunsWhatWaits DEF RunSend, Kept, Uses
<1>4. UserShutdown \/ RunShutdown => Settled'
  <2>1. UserShutdown => Settled'
    BY DEF UserShutdown, Settled
  <2>2. RunShutdown => Settled
    BY <1>1, <1>2, RunsWhatWaits DEF RunShutdown
  <2>. QED
    BY <1>2, <2>1, <2>2
<1>5. Settled => state_ # "kConnected"
  BY DEF Settled
<1>6. sock'.shutWr => Settled' /\ "write" \notin events_'
  BY <1>1, <1>2, <1>3, <1>4, <1>5 DEF WriteSideMoves
<1>7. ~sock'.pipe
  BY <1>1, <1>2, <1>3, <1>5 DEF WriteSideMoves
<1>8. Waiting("shutdown")' => Settled'
  <2>1. "shutdown" \notin LoopKinds
    BY DEF LoopKinds, Notes
  <2>2. ASSUME NEW t \in Threads, ForeignPush(t) PROVE Settled
    BY <1>1, <2>2 DEF ForeignPush
  <2>. QED
    BY <1>1, <1>2, <2>1, <2>2, WaitingStep
<1>9. ASSUME NEW u \in Threads, thread'[u] # None, thread'[u].step = "push"
      PROVE  Settled'
  <2>1. CASE UNCHANGED thread
    BY <1>1, <1>2, <1>9, <2>1
  <2>2. ASSUME NEW t \in Threads, ThreadStep(t)
        PROVE  Settled'
    <3>1. thread \in [Threads -> [step : {"set", "push"}, f : Functors]
                                   \cup {None}]
      BY <1>2 DEF TypeOK
    <3>2. CASE ForeignSetState(t)
      BY <3>2 DEF ForeignSetState, Settled
    <3>3. CASE ForeignShutdown(t)
      <4>1. Call("set", "shutdown", None, t).step # "push"
        BY DEF Call
      <4>2. thread'[u] = thread[u]
        BY <1>9, <3>1, <3>3, <4>1 DEF ForeignShutdown
      <4>. QED
        BY <1>1, <1>2, <1>9, <4>2
    <3>4. CASE ForeignPush(t)
      <4>1. thread'[u] = thread[u]
        BY <1>9, <3>1, <3>4 DEF ForeignPush
      <4>. QED
        BY <1>1, <1>2, <1>9, <4>1
    <3>5. CASE ForeignRelease(t)
      BY <1>1, <1>2, <1>9, <3>5 DEF ForeignRelease
    <3>. QED
      BY <2>2, <3>2, <3>3, <3>4, <3>5 DEF ThreadStep, ForeignSend
  <2>. QED
    BY <2>1, <2>2, ThreadFrame
<1>. QED
  BY <1>6, <1>7, <1>8, <1>9 DEF Sealed

LEMMA SealedInit ==
  ASSUME Init
  PROVE  Sealed
<1>1. ~sock.shutWr /\ ~sock.pipe
  BY DEF Init
<1>2. \A t \in Threads : thread[t] = None
  BY DEF Init
<1>3. ~Waiting("shutdown")
  <2>1. \A i \in DOMAIN pendingFunctors_ :
          pendingFunctors_[i].kind # "shutdown"
    BY FunctorType DEF Init, Kinds
  <2>2. ~(\E i \in ran + 1 .. Len(functors) : TRUE)
    BY DEF Init
  <2>. QED
    BY <2>1, <2>2 DEF Waiting
<1>. QED
  BY <1>1, <1>2, <1>3 DEF Sealed

\* If no other thread calls send(), the connection never writes after its
\* shutdown(SHUT_WR), whatever its own callbacks do and whichever threads call
\* shutdown(): a shutdown that waits has left kConnected behind it.
THEOREM ConnectionWritesBeforeShutdown ==
  ASSUME \A uses \in ForeignUses : "send" \notin uses
  PROVE  Spec => []NoWriteAfterShutdown
<1>1. Sealed /\ Kept => NoWriteAfterShutdown
  BY DEF Sealed, Kept, Ordered, TypeOK, NoWriteAfterShutdown
<1>2. Kept /\ Sealed /\ [Next]_vars => Sealed'
  BY SealedStep
<1>3. Init => Sealed
  BY SealedInit
<1>. QED
  BY <1>1, <1>2, <1>3, KeptInvariant, PTL DEF Spec
-----------------------------------------------------------------------------
(***************************************************************************)
(* The end of a connection.                                                *)
(***************************************************************************)
\* Where no other thread calls shutdown(), a connection in kDisconnecting
\* either waits for its output or has shut its write side: a send() that was
\* queued no longer moves the channel.
Parked == "write" \in events_ \/ (sock.shutWr /\ outputBuffer_ = <<>>)
Single ==
  "shutdown" \notin foreignOps /\ state_ = "kDisconnecting" => Parked

LEMMA SingleStep ==
  ASSUME Kept, Single, [Next]_vars
  PROVE  Single'
<1>. SUFFICES ASSUME "shutdown" \notin foreignOps, state_' = "kDisconnecting"
              PROVE  Parked'
  BY ThreadFrame DEF Single
<1>1. /\ TypeOK /\ Start /\ Interested /\ Calls /\ sock \in Socket
      /\ sock.shutWr => sock'.shutWr
      /\ state_ = "kDisconnecting" => Parked
  BY WriteSideStep DEF Kept, Ordered, TypeOK, WriteSideMoves, Single
<1>2. CASE UNCHANGED <<state_, events_, outputBuffer_>>
  BY <1>1, <1>2 DEF Parked
<1>3. CASE SendEffect
  <2>1. UNCHANGED state_ /\ Parked
    BY <1>1, <1>3 DEF SendEffect
  <2>. QED
    BY <1>1, <1>3, <2>1 DEF SendEffect, Parked, WriteDirectly
<1>4. ASSUME NEW r \in Reports, PollReturn(r) PROVE Parked'
  BY <1>2, <1>4 DEF PollReturn, connVars
<1>5. CASE \/ PollOther \/ HandleErrorEvent \/ ReadMessage \/ ReadError
           \/ SwapFunctors \/ FunctorsDone \/ RunUserFunctor \/ RunShutdown
           \/ CallbackReturns \/ CloseCallback \/ DestroyCallbackReturns
           \/ RemoveConnectionInLoop \/ DestroyServer \/ IoLoopEnds
           \/ MainLoopDestroyed \/ PeerSends \/ PeerCloses \/ PeerResets
           \/ UNCHANGED vars
  BY <1>2, <1>5
     DEF PollOther, HandleErrorEvent, ReadMessage, ReadError, SwapFunctors,
         FunctorsDone, RunUserFunctor, RunShutdown, CallbackReturns,
         CloseCallback, DestroyCallbackReturns, RemoveChannel,
         RemoveConnectionInLoop, DestroyServer, IoLoopEnds,
         MainLoopDestroyed, PeerSends, PeerCloses, PeerResets, Arrive, vars,
         connVars
<1>6. CASE HandleCloseEvent \/ ReadEof
  BY <1>1, <1>6, HandleCloseFacts DEF HandleCloseEvent, ReadEof
<1>7. CASE HandleWriteEvent
  BY <1>1, <1>2, <1>7, HandleWriteFacts DEF WriteEffect, Parked
<1>8. CASE EstablishHere \/ RunConnectEstablished
  BY <1>1, <1>8, ConnectEstablishedFacts
     DEF EstablishHere, RunConnectEstablished
<1>9. CASE RunConnectDestroyed \/ DestroyServerHere
  BY <1>1, <1>2, <1>9, ConnectDestroyedFacts
     DEF RunConnectDestroyed, DestroyServerHere, connVars
<1>10. CASE RunSend
  <2>1. NextFunctor \in Functors /\ NextFunctor.kind = "send"
    BY <1>1, <1>10 DEF RunSend, RunFunctor, NextFunctor, TypeOK
  <2>2. NextFunctor.msg \in Messages
    BY <2>1 DEF Functors
  <2>. QED
    BY <1>1, <1>3, <1>10, <2>2, BytesType, SendInLoopFacts DEF RunSend
<1>11. ASSUME NEW m \in Messages, UserSend(m) PROVE Parked'
  BY <1>1, <1>2, <1>3, <1>11, BytesType, SendInLoopFacts DEF UserSend, connVars
<1>12. CASE UserShutdown
  <2>1. index_ = "kAdded" /\ UNCHANGED <<events_, outputBuffer_>>
    BY <1>1, <1>12 DEF UserShutdown, Interested, Watched
  <2>2. "write" \notin events_ => sock'.shutWr /\ outputBuffer_ = <<>>
    BY <1>1, <1>12, <2>1
       DEF UserShutdown, ShutdownInLoop, Socket, Interested, Output
  <2>. QED
    BY <2>1, <2>2 DEF Parked
<1>13. ASSUME NEW t \in Threads, UserShares(t) PROVE Parked'
  BY <1>2, <1>13 DEF UserShares, connVars
<1>14. ASSUME NEW t \in Threads, ThreadStep(t) PROVE Parked'
  <2>1. ~ForeignSetState(t)
    BY <1>1 DEF ForeignSetState, Calls
  <2>. QED
    BY <1>2, <1>14, <2>1
       DEF ThreadStep, ForeignSend, ForeignShutdown, ForeignPush,
           ForeignRelease, connVars
<1>. QED
  BY <1>4, <1>5, <1>6, <1>7, <1>8, <1>9, <1>10, <1>11, <1>12, <1>13, <1>14
     DEF Next, LoopStep, UserStep

\* The server is to ask for connectDestroyed, or it is under way.
Coming ==
  inMap \/ callback = "destroy" \/ Waiting("connectDestroyed")

Registered == index_ # "kNew" \/ state_ = "kConnecting"

Coverage == Registered /\ pc # "left" => Coming

EndMoves ==
  /\ Registered' => Registered
  /\ pc = "left" => pc' = "left"
  /\ Coming /\ Registered' => Coming' \/ pc' = "left"

LEMMA EndStep ==
  ASSUME Kept, Single, foreignOps # {"send", "shutdown"}, [Next]_vars
  PROVE  EndMoves
<1>. USE DEF EndMoves
<1>1. /\ TypeOK /\ Start /\ Interested /\ Calls /\ sock \in Socket
      /\ pendingFunctors_ \in Seq(Functors) /\ ran \in Nat
  BY DEF Kept, Ordered, TypeOK
<1>2. Waiting("connectDestroyed") =>
        \/ Waiting("connectDestroyed")' \/ RunFunctor("connectDestroyed")
        \/ pc' = "left"
  BY WaitingStep DEF Kept
<1>3. ran' = ran => ~RunFunctor("connectDestroyed")
  BY <1>1 DEF RunFunctor
<1>4. Push(<<Functor("connectDestroyed")>>) => Waiting("connectDestroyed")'
  BY <1>1, QueueGrows DEF Waiting
<1>5. CASE UNCHANGED <<index_, state_, inMap, callback, ran, pc>>
  BY <1>2, <1>3, <1>5 DEF Coming, Registered
<1>6. ASSUME NEW r \in Reports, PollReturn(r) PROVE EndMoves
  BY <1>2, <1>3, <1>6
     DEF PollReturn, connVars, serverVars, Coming, Registered
<1>7. CASE PollOther
  BY <1>2, <1>3, <1>7
     DEF PollOther, connVars, serverVars, Coming, Registered
<1>8. CASE \/ HandleErrorEvent
           \/ PeerSends \/ PeerCloses \/ PeerResets \/ UNCHANGED vars
  BY <1>5, <1>8
     DEF HandleErrorEvent, Dispatch, PeerSends, PeerCloses, PeerResets,
         Arrive, vars, connVars, loopVars, serverVars
<1>9. CASE ReadError
  BY <1>5, <1>9 DEF ReadError, Dispatch, connVars, serverVars
<1>10. CASE ReadMessage
  <2>1. /\ UNCHANGED <<index_, state_, inMap, mainPending, ran, pc>>
        /\ callback = "none"
    BY <1>10 DEF ReadMessage, Dispatch, connVars, serverVars
  <2>. QED
    BY <1>2, <1>3, <2>1 DEF Coming, Registered
<1>11. CASE HandleCloseEvent \/ ReadEof
  <2>1. /\ index_ # "kNew" /\ callback = "none"
        /\ UNCHANGED <<inMap, ran, pc>>
    BY <1>1, <1>11
       DEF HandleCloseEvent, ReadEof, Dispatch, serverVars, Interested, Watched
  <2>. QED
    BY <1>2, <1>3, <2>1 DEF Coming, Registered
<1>12. CASE HandleWriteEvent
  <2>1. /\ index_ # "kNew"
        /\ UNCHANGED <<inMap, mainPending, ran, pc, callback>>
    BY <1>1, <1>12
       DEF HandleWriteEvent, Dispatch, serverVars, Interested, Watched
  <2>. QED
    BY <1>2, <1>3, <2>1 DEF Coming, Registered
<1>13. CASE EstablishHere
  <2>1. /\ state_ = "kConnecting" /\ callback = "none"
        /\ UNCHANGED <<inMap, mainPending, ran, pc>>
    BY <1>13 DEF EstablishHere, Establishing, serverVars
  <2>. QED
    BY <1>2, <1>3, <2>1 DEF Coming, Registered
<1>14. CASE SwapFunctors \/ FunctorsDone
  <2>1. /\ UNCHANGED <<index_, state_, inMap, mainPending, callback>>
        /\ pc # "left" /\ ~RunFunctor("connectDestroyed")
    BY <1>14
       DEF SwapFunctors, FunctorsDone, connVars, serverVars, RunFunctor
  <2>. QED
    BY <1>2, <2>1 DEF Coming, Registered
<1>15. ASSUME NEW kind, RunFunctor(kind), kind # "connectDestroyed"
       PROVE  /\ ~RunFunctor("connectDestroyed")
              /\ callback = "none"
              /\ UNCHANGED <<inMap, mainPending, pc>>
  BY <1>15 DEF RunFunctor, serverVars
<1>16. CASE RunConnectEstablished
  <2>1. state_ = "kConnecting"
    BY <1>1, <1>16, RunsInOrder DEF RunConnectEstablished
  <2>. QED
    BY <1>2, <1>15, <1>16, <2>1
       DEF RunConnectEstablished, Coming, Registered
<1>17. CASE RunConnectDestroyed
  <2>1. state_ # "kConnecting" /\ UNCHANGED pc
    BY <1>1, <1>17, RunsInOrder DEF RunConnectDestroyed, RunFunctor
  <2>2. \/ callback' = "destroy" /\ state_ = "kConnected"
        \/ index_' = "kNew" /\ UNCHANGED state_
    BY <1>1, <1>17, ConnectDestroyedFacts DEF RunConnectDestroyed
  <2>3. state_ = "kConnected" => index_ # "kNew"
    BY <1>1 DEF Interested, Watched
  <2>. QED
    BY <2>1, <2>2, <2>3 DEF Coming, Registered
<1>18. CASE RunUserFunctor
  <2>1. PICK kind \in {"writeComplete", "highWater"} : RunFunctor(kind)
    BY <1>18 DEF RunUserFunctor
  <2>. QED
    BY <1>2, <1>15, <1>18, <2>1
       DEF RunUserFunctor, connVars, Coming, Registered
<1>19. CASE RunShutdown
  BY <1>2, <1>15, <1>19 DEF RunShutdown, connVars, Coming, Registered
<1>20. CASE RunSend
  <2>1. NextFunctor \in Functors /\ NextFunctor.kind = "send"
    BY <1>1, <1>20 DEF RunSend, RunFunctor, NextFunctor, TypeOK
  <2>2. SendEffect
    BY <1>1, <1>20, <2>1, BytesType, SendInLoopFacts DEF RunSend, Functors
  <2>3. "send" \in foreignOps /\ "shutdown" \notin foreignOps
    <3>1. "send" \in foreignOps
      BY <1>1, <1>20, RunsWhatWaits DEF RunSend, Kept, Uses
    <3>2. foreignOps \subseteq {"send", "shutdown"}
      BY <1>1, ForeignUsesAssumption DEF TypeOK
    <3>. QED
      BY <3>1, <3>2
  <2>4. state_ # "kConnecting"
    BY <1>1, <1>20, RunsInOrder DEF RunSend
  <2>5. index_ = "kNew" => index_' = "kNew"
    <3>1. state_ = "kDisconnecting" => Parked
      BY <2>3 DEF Single
    <3>2. CASE state_ = "kConnected"
      BY <1>1, <3>2 DEF Interested, Watched
    <3>3. CASE state_ = "kDisconnected"
      BY <2>2, <3>3 DEF SendEffect
    <3>4. CASE state_ = "kDisconnecting"
      BY <2>2, <3>1, <3>4 DEF SendEffect, Parked, WriteDirectly
    <3>. QED
      BY <1>1, <2>4, <3>2, <3>3, <3>4 DEF TypeOK, States
  <2>. QED
    BY <1>2, <1>15, <1>20, <2>2, <2>5
       DEF RunSend, SendEffect, Coming, Registered
<1>21. CASE CallbackReturns
  BY <1>2, <1>3, <1>21
     DEF CallbackReturns, connVars, serverVars, Coming, Registered
<1>22. CASE CloseCallback
  <2>1. Coming => Coming' \/ pc' = "left"
    <3>1. (ioIsMain \/ UNCHANGED inMap) /\ UNCHANGED ran /\ callback # "destroy"
      BY <1>22 DEF CloseCallback
    <3>. QED
      BY <1>2, <1>3, <1>4, <1>22, <3>1 DEF CloseCallback, Coming
  <2>2. UNCHANGED <<index_, state_, pc>>
    BY <1>22 DEF CloseCallback, connVars
  <2>. QED
    BY <2>1, <2>2 DEF Registered
<1>23. CASE DestroyCallbackReturns
  <2>1. index_' = "kNew" /\ UNCHANGED <<state_, pc>>
    BY <1>23 DEF DestroyCallbackReturns, RemoveChannel
  <2>2. state_ # "kConnecting"
    BY <1>1, <1>23 DEF DestroyCallbackReturns, Start, Untouched
  <2>. QED
    BY <2>1, <2>2 DEF Registered
<1>24. ASSUME NEW m \in Messages, UserSend(m) PROVE EndMoves
  <2>1. UNCHANGED <<inMap, mainPending, callback, ran, pc>>
    BY <1>24 DEF UserSend, loopVars, serverVars
  <2>2. CASE state_ = "kConnected" /\ SendInLoop(Bytes(m))
    <3>1. index_ # "kNew"
      BY <1>1, <2>2 DEF Interested, Watched
    <3>. QED
      BY <1>2, <1>3, <2>1, <3>1 DEF Coming, Registered
  <2>3. CASE UNCHANGED connVars
    BY <1>5, <2>1, <2>3 DEF connVars
  <2>. QED
    BY <1>24, <2>2, <2>3 DEF UserSend
<1>25. CASE UserShutdown
  <2>1. /\ UNCHANGED <<index_, inMap, mainPending, callback, ran, pc>>
        /\ state_' # "kConnecting"
    BY <1>25 DEF UserShutdown, loopVars, serverVars
  <2>. QED
    BY <1>2, <1>3, <2>1 DEF Coming, Registered
<1>26. ASSUME NEW t \in Threads, UserShares(t) PROVE EndMoves
  BY <1>5, <1>26 DEF UserShares, connVars, loopVars, serverVars
<1>27. CASE RemoveConnectionInLoop \/ DestroyServer
  <2>1. /\ \/ Push(<<Functor("connectDestroyed")>>)
           \/ ~inMap
        /\ UNCHANGED <<index_, state_, pc, callback, ran>>
    BY <1>27 DEF RemoveConnectionInLoop, DestroyServer, connVars, loopVars
  <2>. QED
    BY <1>2, <1>3, <1>4, <2>1 DEF Coming, Registered
<1>28. CASE DestroyServerHere
  <2>1. /\ pc = "poll" /\ pc' = "left" /\ ioIsMain
        /\ ConnectDestroyed \/ UNCHANGED connVars
    BY <1>28 DEF DestroyServerHere
  <2>2. state_ # "kConnecting"
    BY <1>1, <2>1 DEF Start, Expected
  <2>3. Registered' => Registered
    <3>1. CASE ConnectDestroyed
      BY <1>1, <2>2, <3>1, ConnectDestroyedFacts
         DEF Registered, Interested, Watched
    <3>2. CASE UNCHANGED connVars
      BY <3>2 DEF connVars, Registered
    <3>. QED
      BY <2>1, <3>1, <3>2
  <2>. QED
    BY <2>1, <2>3
<1>29. CASE IoLoopEnds \/ MainLoopDestroyed
  BY <1>29 DEF IoLoopEnds, MainLoopDestroyed, connVars, loopVars, Registered
<1>30. ASSUME NEW t \in Threads, ThreadStep(t) PROVE EndMoves
  <2>1. /\ UNCHANGED <<index_, inMap, mainPending, callback, ran, pc>>
        /\ UNCHANGED state_ \/ state_' = "kDisconnecting"
    BY <1>30
       DEF ThreadStep, ForeignSend, ForeignShutdown, ForeignSetState,
           ForeignPush, ForeignRelease, connVars, loopVars, serverVars
  <2>. QED
    BY <1>2, <1>3, <2>1 DEF Coming, Registered
<1>. QED
  BY <1>6, <1>7, <1>8, <1>9, <1>10, <1>11, <1>12, <1>13, <1>14, <1>16, <1>17,
     <1>18, <1>19, <1>20, <1>21, <1>22, <1>23, <1>24, <1>25, <1>26, <1>27,
     <1>28, <1>29, <1>30
     DEF Next, LoopStep, UserStep

Covered == foreignOps # {"send", "shutdown"} => Coverage

LEMMA CoveredInvariant == Spec => [](Kept /\ Single /\ Covered)
<1>1. Init => Single /\ Covered
  BY DEF Init, Single, Covered, Coverage, Coming
<1>2. Kept /\ Single /\ [Next]_vars => Single'
  BY SingleStep
<1>3. Kept /\ Single /\ Covered /\ [Next]_vars => Covered'
  <2>1. [Next]_vars => UNCHANGED foreignOps
    BY ThreadFrame
  <2>. QED
    BY <2>1, EndStep DEF Covered, Coverage, EndMoves
<1>. QED
  BY <1>1, <1>2, <1>3, KeptInvariant, PTL DEF Spec

\* If no other thread both sends and shuts down, the last reference goes only
\* after the channel has left the poller: from connectEstablished on somebody
\* is to call connectDestroyed, and once it has been called no queued send()
\* registers the channel again.
THEOREM ConnectionDestroyedClean ==
  ASSUME \A uses \in ForeignUses : uses # {"send", "shutdown"}
  PROVE  Spec => []DestroyedClean
<1>1. Kept /\ Covered => DestroyedClean
  <2>. SUFFICES ASSUME Kept, Covered, ~Alive, pc # "left"
                PROVE  index_ = "kNew"
    BY DEF DestroyedClean
  <2>1. TypeOK
    BY DEF Kept, Ordered
  <2>2. Coverage
    BY <2>1 DEF TypeOK, Covered
  <2>3. ~Waiting("connectDestroyed")
    <3>1. \A i \in ran + 1 .. Len(functors) : i \in DOMAIN functors
      BY <2>1 DEF TypeOK
    <3>. QED
      BY <3>1 DEF Alive, Owns, Waiting
  <2>4. ~Coming
    BY <2>3 DEF Alive, Coming
  <2>. QED
    BY <2>2, <2>4 DEF Coverage, Registered
<1>. QED
  BY <1>1, CoveredInvariant, PTL
-----------------------------------------------------------------------------
(***************************************************************************)
(* What the user is told, and the stream of bytes.                         *)
(***************************************************************************)
\* The user is told up with kConnected.  Where no other thread both sends and
\* shuts down, a user who has been told down has a channel that nothing enables
\* again, and where none shuts down, kDisconnected is final.
Told ==
  /\ told = "nothing" <=> state_ = "kConnecting"
  /\ state_ = "kConnected" => told = "up"
  /\ told = "down" /\ foreignOps # {"send", "shutdown"} =>
       index_ # "kAdded" /\ events_ = {}
  /\ told = "down" /\ "shutdown" \notin foreignOps => state_ = "kDisconnected"

\* A step that tells the user nothing and leaves the channel alone.
LEMMA ToldFrame ==
  ASSUME Told, UNCHANGED <<state_, told, index_, events_, foreignOps>>
  PROVE  Told'
BY DEF Told

\* The io loop's sendInLoop after "down": only where nobody shuts down.
LEMMA SendsOnlyUp ==
  ASSUME Kept, Told, foreignOps # {"send", "shutdown"}, RunSend
  PROVE  told = "up" \/ (told = "down" /\ state_ = "kDisconnected")
<1>1. TypeOK /\ Start
  BY DEF Kept, Ordered
<1>2. "send" \in foreignOps /\ foreignOps \subseteq {"send", "shutdown"}
  BY <1>1, RunsWhatWaits, ForeignUsesAssumption
     DEF RunSend, Kept, Uses, TypeOK
<1>3. "shutdown" \notin foreignOps
  BY <1>2
<1>4. state_ # "kConnecting"
  BY <1>1, RunsInOrder DEF RunSend
<1>. QED
  BY <1>1, <1>3, <1>4 DEF Told, TypeOK

LEMMA RunSendEffect ==
  ASSUME TypeOK, RunSend
  PROVE  SendEffect /\ NextFunctor.msg \in Messages
<1>1. NextFunctor \in Functors /\ NextFunctor.kind = "send"
  BY DEF RunSend, RunFunctor, NextFunctor, TypeOK
<1>2. NextFunctor.msg \in Messages
  BY <1>1 DEF Functors
<1>. QED
  BY <1>2, BytesType, SendInLoopFacts DEF RunSend

LEMMA ToldStep ==
  ASSUME Kept, Told, [Next]_vars
  PROVE  Told'
<1>1. /\ TypeOK /\ Start /\ Interested /\ Calls /\ Untouched /\ Watched
      /\ state_ \in States /\ told \in {"nothing", "up", "down"}
      /\ UNCHANGED foreignOps
  BY ThreadFrame DEF Kept, Ordered, TypeOK, Start, Interested
<1>2. ASSUME NEW r \in Reports, PollReturn(r) PROVE Told'
  BY <1>1, <1>2, ToldFrame DEF PollReturn, connVars, toldVars
<1>3. CASE \/ PollOther \/ HandleErrorEvent \/ ReadMessage \/ ReadError
           \/ SwapFunctors \/ FunctorsDone \/ RunUserFunctor \/ RunShutdown
           \/ CallbackReturns \/ CloseCallback
           \/ RemoveConnectionInLoop \/ DestroyServer \/ IoLoopEnds
           \/ MainLoopDestroyed \/ PeerSends \/ PeerCloses \/ PeerResets
           \/ UNCHANGED vars
  BY <1>1, <1>3, ToldFrame
     DEF PollOther, HandleErrorEvent, ReadMessage, ReadError, SwapFunctors,
         FunctorsDone, RunUserFunctor, RunShutdown, CallbackReturns,
         CloseCallback, RemoveConnectionInLoop, DestroyServer, IoLoopEnds,
         MainLoopDestroyed, PeerSends, PeerCloses, PeerResets, Arrive, vars,
         connVars, toldVars
<1>4. CASE HandleCloseEvent \/ ReadEof
  <2>1. HandleClose /\ index_ = "kAdded"
    BY <1>1, <1>4 DEF HandleCloseEvent, ReadEof, Dispatch, Watched
  <2>. QED
    BY <1>1, <2>1, HandleCloseFacts DEF Told
<1>5. CASE HandleWriteEvent
  <2>1. WriteEffect /\ UNCHANGED told /\ todo # {}
    BY <1>1, <1>5, HandleWriteFacts DEF HandleWriteEvent, Dispatch, toldVars
  <2>2. told # "nothing" /\ state_ # "kConnecting"
    BY <1>1, <2>1 DEF Untouched, Told
  <2>3. CASE UNCHANGED <<state_, events_, index_>>
    BY <1>1, <2>1, <2>3, ToldFrame
  <2>4. CASE ~UNCHANGED <<state_, events_, index_>> /\ "write" \in events_
    BY <1>1, <2>1, <2>2, <2>4 DEF WriteEffect, Told
  <2>5. "write" \notin events_ => UNCHANGED <<state_, events_, index_>>
    BY <1>5 DEF HandleWriteEvent, connVars
  <2>. QED
    BY <2>3, <2>4, <2>5
<1>6. CASE EstablishHere \/ RunConnectEstablished
  BY <1>1, <1>6, ConnectEstablishedFacts
     DEF EstablishHere, RunConnectEstablished, Told
<1>7. ASSUME ConnectDestroyed, state_ # "kConnecting" PROVE Told'
  BY <1>1, <1>7, ConnectDestroyedFacts DEF Told, Watched
<1>8. CASE RunConnectDestroyed
  BY <1>1, <1>7, <1>8, RunsInOrder DEF RunConnectDestroyed
<1>9. CASE DestroyServerHere
  <2>1. /\ pc = "poll" /\ ioIsMain
        /\ ConnectDestroyed \/ UNCHANGED <<connVars, callback, toldVars>>
    BY <1>9 DEF DestroyServerHere
  <2>2. state_ # "kConnecting"
    BY <1>1, <2>1 DEF Start, Expected
  <2>. QED
    BY <1>1, <1>7, <2>1, <2>2, ToldFrame DEF connVars, toldVars
<1>10. CASE RunSend
  <2>1. SendEffect /\ UNCHANGED told
    BY <1>1, <1>10, RunSendEffect DEF RunSend, toldVars
  <2>. QED
    BY <1>1, <1>10, <2>1, SendsOnlyUp DEF SendEffect, Told
<1>11. CASE DestroyCallbackReturns
  BY <1>1, <1>11
     DEF DestroyCallbackReturns, RemoveChannel, connVars, toldVars, Told
<1>12. ASSUME NEW m \in Messages, UserSend(m) PROVE Told'
  <2>1. UNCHANGED told
    BY <1>12 DEF UserSend, toldVars
  <2>2. CASE state_ = "kConnected" /\ SendInLoop(Bytes(m))
    <3>1. SendEffect
      BY <1>1, <2>2, BytesType, SendInLoopFacts
    <3>. QED
      BY <1>1, <2>1, <2>2, <3>1 DEF SendEffect, Told
  <2>3. CASE UNCHANGED connVars
    BY <1>1, <2>1, <2>3, ToldFrame DEF connVars
  <2>. QED
    BY <1>12, <2>2, <2>3 DEF UserSend
<1>13. CASE UserShutdown
  BY <1>1, <1>13 DEF UserShutdown, toldVars, Told
<1>14. ASSUME NEW t \in Threads, UserShares(t) PROVE Told'
  BY <1>1, <1>14, ToldFrame DEF UserShares, connVars, toldVars
<1>15. ASSUME NEW t \in Threads, ThreadStep(t) PROVE Told'
  <2>1. CASE ForeignSetState(t)
    <3>1. "shutdown" \in foreignOps /\ state_ # "kConnecting"
      BY <1>1, <2>1 DEF ForeignSetState, Calls, Untouched
    <3>. QED
      BY <1>1, <2>1, <3>1 DEF ForeignSetState, toldVars, Told
  <2>2. CASE ~ForeignSetState(t)
    BY <1>1, <1>15, <2>2, ToldFrame
       DEF ThreadStep, ForeignSend, ForeignShutdown, ForeignPush,
           ForeignRelease, connVars, toldVars
  <2>. QED
    BY <2>1, <2>2
<1>. QED
  BY <1>2, <1>3, <1>4, <1>5, <1>6, <1>8, <1>9, <1>10, <1>11, <1>12, <1>13,
     <1>14, <1>15
     DEF Next, LoopStep, UserStep

\* A longer sequence has the shorter one as a prefix.
LEMMA PrefixOfConcat ==
  ASSUME NEW s \in Seq(Byte), NEW t \in Seq(Byte)
  PROVE  Promise!IsPrefix(s, s \o t)
<1>1. /\ Len(s) \in Nat /\ Len(t) \in Nat /\ s \o t \in Seq(Byte)
      /\ Len(s \o t) = Len(s) + Len(t)
      /\ \A i \in 1 .. Len(s) + Len(t) : (s \o t)[i] =
           IF i <= Len(s) THEN s[i] ELSE t[i - Len(s)]
  BY ConcatProperties
<1>2. CASE Len(s) = 0
  <2>1. SubSeq(s, 1, Len(s)) = <<>> /\ SubSeq(s \o t, 1, Len(s)) = <<>>
    BY <1>2, SubSeqEmpty
  <2>. QED
    BY <1>1, <2>1 DEF Promise!IsPrefix
<1>3. CASE Len(s) # 0
  <2>1. 1 \in 1 .. Len(s) /\ Len(s) \in 1 .. Len(s)
    BY <1>1, <1>3
  <2>2. SubSeq(s \o t, 1, Len(s)) = SubSeq(s, 1, Len(s))
    BY <2>1, SubSeqOfConcat1
  <2>. QED
    BY <1>1, <2>2 DEF Promise!IsPrefix
<1>. QED
  BY <1>2, <1>3

\* What is written only adds to wire, which stays a prefix of the stream.
LEMMA WireAdvancing ==
  ASSUME TypeOK, NEW taken \in Seq(Byte), wire' = wire \o taken,
         outputBuffer_' \in Seq(Byte)
  PROVE  /\ Promise!IsPrefix(wire, wire')
         /\ Promise!IsPrefix(wire', wire' \o outputBuffer_')
<1>1. wire \in Seq(Byte)
  BY DEF TypeOK, Byte
<1>2. wire' \in Seq(Byte)
  BY <1>1, ConcatProperties
<1>. QED
  BY <1>1, <1>2, PrefixOfConcat

LEMMA SendStream ==
  ASSUME TypeOK, NEW bytes \in Seq(Byte), SendInLoop(bytes)
  PROVE  \/ UNCHANGED <<wire, outputBuffer_>>
         \/ /\ wire' \o outputBuffer_' = (wire \o outputBuffer_) \o bytes
            /\ Promise!IsPrefix(wire, wire')
            /\ Promise!IsPrefix(wire', wire' \o outputBuffer_')
<1>. DEFINE Same == UNCHANGED <<wire, outputBuffer_>>
            Longer == /\ wire' \o outputBuffer_' = (wire \o outputBuffer_) \o bytes
                      /\ Promise!IsPrefix(wire, wire')
                      /\ Promise!IsPrefix(wire', wire' \o outputBuffer_')
<1>1. /\ wire \in Seq(Byte) /\ outputBuffer_ \in Seq(Byte)
      /\ sock \in Socket /\ Len(bytes) \in Nat
  BY DEF TypeOK, Byte
<1>2. /\ outputBuffer_' \in Seq(Byte)
      /\ wire' \in Seq(Byte)
  BY SendInLoopFacts DEF SendEffect, BufferTypes
<1>3. ASSUME Keep(bytes), UNCHANGED wire PROVE Longer
  <2>1. outputBuffer_' = outputBuffer_ \o bytes /\ wire' = wire \o <<>>
    BY <1>1, <1>3, KeepFacts, ConcatEmptySeq
  <2>2. wire' \o outputBuffer_' = (wire \o outputBuffer_) \o bytes
    BY <1>1, <1>3, <2>1, ConcatAssociative
  <2>3. <<>> \in Seq(Byte)
    OBVIOUS
  <2>. QED
    BY <1>2, <2>1, <2>2, <2>3, WireAdvancing
<1>4. ASSUME WriteDirectly, NEW n \in Written(bytes), WriteSock(bytes, n)
      PROVE  /\ wire' = wire \o SubSeq(bytes, 1, n) /\ n \in 0 .. Len(bytes)
             /\ SubSeq(bytes, 1, n) \in Seq(Byte)
             /\ SubSeq(bytes, n + 1, Len(bytes)) \in Seq(Byte)
             /\ Broken => n = 0
             /\ outputBuffer_ = <<>>
             /\ Promise!IsPrefix(wire, wire')
             /\ Promise!IsPrefix(wire', wire' \o outputBuffer_')
  <2>1. /\ wire' = wire \o SubSeq(bytes, 1, n) /\ n \in 0 .. Len(bytes)
        /\ Broken => n = 0
    BY <1>1, <1>4, WriteSockFacts
  <2>2. /\ SubSeq(bytes, 1, n) \in Seq(Byte)
        /\ SubSeq(bytes, n + 1, Len(bytes)) \in Seq(Byte)
    BY <2>1, SplitType
  <2>. QED
    BY <1>2, <1>4, <2>1, <2>2, WireAdvancing DEF WriteDirectly
<1>5. ASSUME WriteDirectly, NEW n \in Written(bytes), WriteSock(bytes, n),
             n = Len(bytes), UNCHANGED outputBuffer_
      PROVE  Longer
  <2>1. wire' = wire \o bytes
    BY <1>4, <1>5, SubSeqFull
  <2>2. wire' \o outputBuffer_' = wire \o bytes
    BY <1>2, <1>4, <1>5, <2>1, ConcatEmptySeq
  <2>3. wire \o outputBuffer_ = wire
    BY <1>1, <1>4, <1>5, ConcatEmptySeq
  <2>. QED
    BY <1>4, <1>5, <2>2, <2>3
<1>6. ASSUME WriteDirectly, NEW n \in Written(bytes), WriteSock(bytes, n),
             n < Len(bytes), Keep(SubSeq(bytes, n + 1, Len(bytes)))
      PROVE  Longer
  <2>. DEFINE head == SubSeq(bytes, 1, n)
              tail == SubSeq(bytes, n + 1, Len(bytes))
  <2>1. /\ wire' = wire \o head /\ head \in Seq(Byte) /\ tail \in Seq(Byte)
        /\ outputBuffer_ = <<>> /\ n \in 0 .. Len(bytes)
        /\ Promise!IsPrefix(wire, wire')
        /\ Promise!IsPrefix(wire', wire' \o outputBuffer_')
    BY <1>4, <1>6
  <2>2. head \o tail = bytes
    <3>1. /\ 1 \in 1 .. Len(bytes) + 1 /\ n \in 1 - 1 .. Len(bytes)
          /\ Len(bytes) \in n .. Len(bytes)
      BY <1>1, <2>1
    <3>2. SubSeq(bytes, 1, n) \o SubSeq(bytes, n + 1, Len(bytes))
            = SubSeq(bytes, 1, Len(bytes))
      BY <3>1, ConcatAdjacentSubSeq
    <3>. QED
      BY <3>2, SubSeqFull
  <2>. HIDE DEF head, tail
  <2>3. outputBuffer_' = tail
    <3>1. outputBuffer_' = outputBuffer_ \o tail
      BY <1>6, <2>1, KeepFacts DEF tail
    <3>. QED
      BY <2>1, <3>1, ConcatEmptySeq
  <2>4. wire' \o outputBuffer_' = wire \o bytes
    <3>0. wire \in Seq(Byte) /\ head \in Seq(Byte) /\ tail \in Seq(Byte)
      BY <1>1, <2>1
    <3>1. (wire \o head) \o tail = wire \o (head \o tail)
      BY <3>0, ConcatAssociative
    <3>. QED
      BY <2>1, <2>2, <2>3, <3>1
  <2>5. wire \o outputBuffer_ = wire
    BY <1>1, <2>1, ConcatEmptySeq
  <2>. QED
    BY <2>1, <2>4, <2>5
<1>7. ASSUME WriteDirectly, NEW n \in Written(bytes), WriteSock(bytes, n),
             Broken, UNCHANGED outputBuffer_
      PROVE  Same
  <2>1. wire' = wire \o SubSeq(bytes, 1, 0)
    BY <1>4, <1>7
  <2>. QED
    BY <1>1, <1>7, <2>1, SubSeqEmpty, ConcatEmptySeq
<1>. QED
  BY <1>3, <1>5, <1>6, <1>7 DEF SendInLoop

LEMMA WriteStream ==
  ASSUME TypeOK, HandleWriteEvent
  PROVE  \/ UNCHANGED <<wire, outputBuffer_>>
         \/ /\ "write" \in events_
            /\ wire' \o outputBuffer_' = wire \o outputBuffer_
            /\ Promise!IsPrefix(wire, wire')
            /\ Promise!IsPrefix(wire', wire' \o outputBuffer_')
<1>1. /\ wire \in Seq(Byte) /\ outputBuffer_ \in Seq(Byte)
      /\ sock \in Socket /\ Len(outputBuffer_) \in Nat
  BY DEF TypeOK, Byte
<1>2. outputBuffer_' \in Seq(Byte)
  BY HandleWriteFacts DEF WriteEffect, BufferTypes
<1>3. ASSUME NEW n, WriteSock(outputBuffer_, n),
             outputBuffer_' = SubSeq(outputBuffer_, n + 1, Len(outputBuffer_))
      PROVE  /\ wire' \o outputBuffer_' = wire \o outputBuffer_
             /\ Promise!IsPrefix(wire, wire')
             /\ Promise!IsPrefix(wire', wire' \o outputBuffer_')
  <2>. DEFINE head == SubSeq(outputBuffer_, 1, n)
              tail == SubSeq(outputBuffer_, n + 1, Len(outputBuffer_))
  <2>1. wire' = wire \o head /\ n \in 0 .. Len(outputBuffer_)
    BY <1>1, <1>3, WriteSockFacts
  <2>2. head \in Seq(Byte) /\ tail \in Seq(Byte)
    BY <1>1, <2>1, SplitType
  <2>3. head \o tail = outputBuffer_
    <3>1. /\ 1 \in 1 .. Len(outputBuffer_) + 1
          /\ n \in 1 - 1 .. Len(outputBuffer_)
          /\ Len(outputBuffer_) \in n .. Len(outputBuffer_)
      BY <1>1, <2>1
    <3>2. SubSeq(outputBuffer_, 1, n)
            \o SubSeq(outputBuffer_, n + 1, Len(outputBuffer_))
            = SubSeq(outputBuffer_, 1, Len(outputBuffer_))
      BY <1>1, <3>1, ConcatAdjacentSubSeq
    <3>. QED
      BY <1>1, <3>2, SubSeqFull
  <2>4. outputBuffer_' = tail
    BY <1>3
  <2>. HIDE DEF head, tail
  <2>5. wire' \o outputBuffer_' = wire \o outputBuffer_
    <3>1. (wire \o head) \o tail = wire \o (head \o tail)
      BY <1>1, <2>2, ConcatAssociative
    <3>. QED
      BY <2>1, <2>3, <2>4, <3>1
  <2>. QED
    BY <1>2, <2>1, <2>2, <2>5, WireAdvancing
<1>. QED
  BY <1>3 DEF HandleWriteEvent, connVars

LEMMA PromiseStep ==
  ASSUME Kept, Told, foreignOps # {"send", "shutdown"}, [Next]_vars
  PROVE  [Promise!CPNext]_(Promise!cpVars)
<1>. DEFINE Unheard == UNCHANGED <<told, received, wire, outputBuffer_>>
            Down == /\ told = "up" /\ told' = "down"
                    /\ UNCHANGED <<received, wire, outputBuffer_>>
<1>1. /\ TypeOK /\ Start /\ Interested /\ Calls /\ Untouched /\ Watched
      /\ state_ \in States /\ told \in {"nothing", "up", "down"}
  BY DEF Kept, Ordered, TypeOK, Start, Interested
<1>2. CASE Unheard
  BY <1>2 DEF Promise!cpVars
<1>3. CASE Down
  BY <1>3 DEF Promise!CPNext, Promise!TellDown
<1>4. ASSUME told = "up", UNCHANGED <<told, received>>,
             NEW m \in Messages, SendInLoop(Bytes(m))
      PROVE  [Promise!CPNext]_(Promise!cpVars)
  <2>1. CASE UNCHANGED <<wire, outputBuffer_>>
    BY <1>2, <1>4, <2>1
  <2>2. CASE /\ wire' \o outputBuffer_' = (wire \o outputBuffer_) \o Bytes(m)
             /\ Promise!IsPrefix(wire, wire')
             /\ Promise!IsPrefix(wire', wire' \o outputBuffer_')
    <3>1. Promise!Accept(m)
      BY <1>4, <2>2 DEF Promise!Accept, Promise!WireAdvances
    <3>. QED
      BY <3>1 DEF Promise!CPNext
  <2>. QED
    BY <1>1, <1>4, <2>1, <2>2, BytesType, SendStream
<1>5. ASSUME NEW r \in Reports, PollReturn(r) PROVE Unheard
  BY <1>5 DEF PollReturn, connVars, toldVars
<1>6. CASE \/ PollOther \/ HandleErrorEvent \/ ReadError
           \/ SwapFunctors \/ FunctorsDone \/ RunUserFunctor \/ RunShutdown
           \/ CallbackReturns \/ CloseCallback \/ DestroyCallbackReturns
           \/ UserShutdown
           \/ RemoveConnectionInLoop \/ DestroyServer \/ IoLoopEnds
           \/ MainLoopDestroyed \/ PeerSends \/ PeerCloses \/ PeerResets
           \/ UNCHANGED vars
  <2>1. Unheard
    BY <1>6
       DEF PollOther, HandleErrorEvent, ReadError, SwapFunctors,
           FunctorsDone, RunUserFunctor, RunShutdown, CallbackReturns,
           CloseCallback, DestroyCallbackReturns, UserShutdown,
           RemoveConnectionInLoop, DestroyServer, IoLoopEnds,
           MainLoopDestroyed, PeerSends, PeerCloses, PeerResets, Arrive,
           vars, connVars, toldVars
  <2>. QED
    BY <1>2, <2>1
<1>7. todo \cap {"close", "read"} # {} => told = "up"
  BY <1>1 DEF Watched, Untouched, Told
<1>8. CASE HandleCloseEvent \/ ReadEof
  <2>1. Down
    BY <1>1, <1>7, <1>8, HandleCloseFacts
       DEF HandleCloseEvent, ReadEof, Dispatch
  <2>. QED
    BY <1>3, <2>1
<1>9. CASE ReadMessage
  <2>1. /\ told = "up" /\ received' = received + 1
        /\ UNCHANGED <<told, wire, outputBuffer_>>
    BY <1>7, <1>9 DEF ReadMessage, Dispatch, connVars
  <2>. QED
    BY <2>1 DEF Promise!CPNext, Promise!Receive
<1>10. CASE HandleWriteEvent
  <2>1. UNCHANGED <<told, received>> /\ todo # {}
    BY <1>10 DEF HandleWriteEvent, Dispatch, toldVars
  <2>2. CASE UNCHANGED <<wire, outputBuffer_>>
    BY <1>2, <2>1, <2>2
  <2>3. CASE /\ "write" \in events_
             /\ wire' \o outputBuffer_' = wire \o outputBuffer_
             /\ Promise!IsPrefix(wire, wire')
             /\ Promise!IsPrefix(wire', wire' \o outputBuffer_')
    <3>1. told = "up"
      BY <1>1, <2>1, <2>3 DEF Untouched, Told
    <3>2. Promise!Write
      BY <2>1, <2>3, <3>1 DEF Promise!Write, Promise!WireAdvances
    <3>. QED
      BY <3>2 DEF Promise!CPNext
  <2>. QED
    BY <1>1, <1>10, <2>2, <2>3, WriteStream
<1>11. CASE EstablishHere \/ RunConnectEstablished
  <2>1. state_ = "kConnecting" /\ ConnectEstablished /\ UNCHANGED wire
    BY <1>1, <1>11, RunsInOrder
       DEF EstablishHere, Establishing, RunConnectEstablished
  <2>2. /\ told = "nothing" /\ told' = "up"
        /\ UNCHANGED <<received, wire, outputBuffer_>>
    BY <1>1, <2>1, ConnectEstablishedFacts DEF Told
  <2>. QED
    BY <2>2 DEF Promise!CPNext, Promise!TellUp
<1>12. CASE RunConnectDestroyed \/ DestroyServerHere
  <2>1. /\ UNCHANGED wire
        /\ \/ ConnectDestroyed
           \/ UNCHANGED <<told, received, outputBuffer_>>
    BY <1>12
       DEF RunConnectDestroyed, DestroyServerHere, connVars, toldVars
  <2>2. Down \/ Unheard
    BY <1>1, <2>1, ConnectDestroyedFacts DEF Told
  <2>. QED
    BY <1>2, <1>3, <2>2
<1>13. CASE RunSend
  <2>1. /\ UNCHANGED <<told, received>> /\ SendInLoop(Bytes(NextFunctor.msg))
        /\ NextFunctor.msg \in Messages
    BY <1>1, <1>13, RunSendEffect DEF RunSend, toldVars
  <2>2. CASE told = "up"
    BY <1>4, <2>1, <2>2
  <2>3. CASE state_ = "kDisconnected"
    <3>1. UNCHANGED <<wire, outputBuffer_>>
      BY <2>1, <2>3 DEF SendInLoop, GiveUp
    <3>. QED
      BY <1>2, <2>1, <3>1
  <2>. QED
    BY <1>13, <2>2, <2>3, SendsOnlyUp
<1>14. ASSUME NEW m \in Messages, UserSend(m)
       PROVE  [Promise!CPNext]_(Promise!cpVars)
  <2>1. UNCHANGED <<told, received>>
    BY <1>14 DEF UserSend, toldVars
  <2>2. CASE state_ = "kConnected" /\ SendInLoop(Bytes(m))
    BY <1>4, <2>1, <2>2 DEF Told
  <2>3. CASE UNCHANGED <<connVars, pendingFunctors_, sock, wire>>
    BY <1>2, <2>1, <2>3 DEF connVars
  <2>. QED
    BY <1>14, <2>2, <2>3 DEF UserSend
<1>15. ASSUME NEW t \in Threads, UserShares(t) \/ ThreadStep(t) PROVE Unheard
  BY <1>15
     DEF UserShares, ThreadStep, ForeignSend, ForeignShutdown,
         ForeignSetState, ForeignPush, ForeignRelease, connVars, toldVars
<1>. QED
  BY <1>2, <1>5, <1>6, <1>8, <1>9, <1>10, <1>11, <1>12, <1>13, <1>14, <1>15
     DEF Next, LoopStep, UserStep

LEMMA PromiseInit ==
  ASSUME Init
  PROVE  Promise!CPInit
<1>1. <<>> \o <<>> = <<>>
  OBVIOUS
<1>. QED
  BY <1>1 DEF Init, Promise!CPInit

\* If no other thread both sends and shuts down, the connection implements
\* ConnectionPromise: the user is told up once and then down at most once, and
\* what is written is a prefix of the messages accepted, in order, and none is
\* accepted or written but between the two.
THEOREM ConnectionImplementsPromise ==
  ASSUME \A uses \in ForeignUses : uses # {"send", "shutdown"}
  PROVE  Spec => ImplementsPromise
<1>1. Init => Told /\ Promise!CPInit
  BY PromiseInit DEF Init, Told
<1>2. Kept /\ Told /\ [Next]_vars => Told'
  BY ToldStep
<1>3. Kept /\ Told /\ [Next]_vars => [Promise!CPNext]_(Promise!cpVars)
  <2>1. Kept => foreignOps # {"send", "shutdown"}
    BY DEF Kept, Ordered, TypeOK
  <2>. QED
    BY <2>1, PromiseStep
<1>. QED
  BY <1>1, <1>2, <1>3, KeptInvariant, PTL
     DEF Spec, ImplementsPromise, Promise!CPSpec
-----------------------------------------------------------------------------
(***************************************************************************)
(* How a connection leaves: handleClose, the main loop, connectDestroyed.  *)
(***************************************************************************)
\* connectDestroyed comes when the connection is out of the map; while there
\* is a server it is out of the map, or on its way out, only after the user
\* was told down, and then it is on its way.
Leaving ==
  /\ Waiting("connectDestroyed") \/ callback = "destroy" \/ serverGone => ~inMap
  /\ ~inMap /\ ~serverGone => told = "down"
  /\ mainPending > 0 \/ callback \in {"close", "destroy"} => told = "down"
  /\ told = "down" /\ inMap => mainPending > 0 \/ callback = "close"

\* Until it is asked to leave, the channel is watched for input.
Reading ==
  told = "up" /\ ~serverGone => index_ = "kAdded" /\ "read" \in events_

LEMMA LeavingStep ==
  ASSUME Kept, Told, Leaving, Reading, [Next]_vars
  PROVE  Leaving'
<1>1. /\ TypeOK /\ Start /\ Interested /\ Phases /\ Untouched /\ Watched
      /\ mainPending \in Nat /\ told \in {"nothing", "up", "down"}
  BY DEF Kept, Ordered, TypeOK, Start, Interested
<1>2. Waiting("connectDestroyed")' => Waiting("connectDestroyed") \/ ~inMap'
  <2>1. "connectDestroyed" \in LoopKinds => ~inMap'
    BY DEF LoopKinds, Notes
  <2>2. ASSUME NEW t \in Threads, ForeignPush(t),
               thread[t].f.kind = "connectDestroyed"
        PROVE  FALSE
    <3>1. "connectDestroyed" \in foreignOps
      BY <2>2 DEF ForeignPush, Kept, Ordered, Calls
    <3>. QED
      BY <1>1, <3>1, ForeignUsesAssumption DEF TypeOK
  <2>. QED
    BY <2>1, <2>2, WaitingStep DEF Kept
<1>3. CASE UNCHANGED <<callback, serverGone, inMap, mainPending, told>>
  BY <1>2, <1>3 DEF Leaving
<1>4. CASE /\ callback \in {"none", "plain", "destroy"}
           /\ callback' \in {"none", "plain"}
           /\ UNCHANGED <<serverGone, inMap, mainPending, told>>
  BY <1>1, <1>2, <1>4 DEF Leaving
<1>5. ASSUME NEW r \in Reports, PollReturn(r) PROVE Leaving'
  BY <1>3, <1>5 DEF PollReturn, serverVars, toldVars
<1>6. CASE \/ PollOther \/ HandleErrorEvent \/ ReadError \/ HandleWriteEvent
           \/ SwapFunctors \/ FunctorsDone \/ RunShutdown \/ RunSend
           \/ UserShutdown \/ IoLoopEnds
           \/ PeerSends \/ PeerCloses \/ PeerResets \/ UNCHANGED vars
  BY <1>3, <1>6
     DEF PollOther, HandleErrorEvent, ReadError, HandleWriteEvent, Dispatch,
         SwapFunctors, FunctorsDone, RunShutdown, RunSend, RunFunctor,
         UserShutdown, IoLoopEnds, PeerSends, PeerCloses, PeerResets, Arrive,
         vars, loopVars, serverVars, toldVars
<1>7. CASE \/ ReadMessage \/ RunUserFunctor \/ CallbackReturns
           \/ DestroyCallbackReturns
  BY <1>4, <1>7
     DEF ReadMessage, Dispatch, RunUserFunctor, RunFunctor, CallbackReturns,
         DestroyCallbackReturns, serverVars, toldVars
<1>8. CASE HandleCloseEvent \/ ReadEof
  <2>1. /\ callback' = "close" /\ told' = "down" /\ callback = "none"
        /\ UNCHANGED <<serverGone, inMap, mainPending>>
    BY <1>8 DEF HandleCloseEvent, ReadEof, HandleClose, Dispatch, serverVars
  <2>. QED
    BY <1>2, <2>1 DEF Leaving
<1>9. CASE EstablishHere \/ RunConnectEstablished
  <2>1. state_ = "kConnecting"
    BY <1>1, <1>9, RunsInOrder
       DEF EstablishHere, Establishing, RunConnectEstablished
  <2>2. /\ callback' = "plain" /\ told' = "up" /\ callback = "none"
        /\ UNCHANGED <<serverGone, inMap, mainPending>>
    BY <1>9
       DEF EstablishHere, RunConnectEstablished, RunFunctor,
           ConnectEstablished, serverVars
  <2>3. told = "nothing"
    BY <2>1 DEF Told
  <2>. QED
    BY <1>2, <2>2, <2>3 DEF Leaving
<1>10. CASE RunConnectDestroyed
  <2>1. ~inMap /\ callback = "none" /\ UNCHANGED <<serverGone, inMap, mainPending>>
    BY <1>1, <1>10, RunsWhatWaits
       DEF RunConnectDestroyed, RunFunctor, serverVars, Leaving
  <2>2. \/ callback' = "destroy" /\ told' = "down"
        \/ UNCHANGED <<callback, told>>
    BY <1>10 DEF RunConnectDestroyed, ConnectDestroyed
  <2>. QED
    BY <1>2, <2>1, <2>2 DEF Leaving
<1>11. CASE CloseCallback
  <2>1. /\ callback' = "none" /\ callback = "close" /\ UNCHANGED <<told, serverGone>>
        /\ \/ ~inMap' /\ UNCHANGED mainPending
           \/ UNCHANGED inMap /\ mainPending' = mainPending + 1
    BY <1>11 DEF CloseCallback, toldVars
  <2>. QED
    BY <1>1, <1>2, <2>1 DEF Leaving
<1>12. ASSUME NEW m \in Messages, UserSend(m) PROVE Leaving'
  BY <1>3, <1>12 DEF UserSend, loopVars, serverVars, toldVars
<1>13. ASSUME NEW t \in Threads, UserShares(t) \/ ThreadStep(t) PROVE Leaving'
  BY <1>3, <1>13
     DEF UserShares, ThreadStep, ForeignSend, ForeignShutdown,
         ForeignSetState, ForeignPush, ForeignRelease, loopVars, serverVars,
         toldVars
<1>14. CASE RemoveConnectionInLoop
  <2>1. /\ mainPending > 0 /\ mainPending' = mainPending - 1 /\ ~inMap'
        /\ UNCHANGED <<callback, told, serverGone>>
    BY <1>14 DEF RemoveConnectionInLoop, loopVars, toldVars
  <2>. QED
    BY <1>1, <1>2, <2>1 DEF Leaving
<1>15. CASE DestroyServer
  <2>1. ~inMap' /\ serverGone' /\ UNCHANGED <<callback, told, mainPending>>
    BY <1>15 DEF DestroyServer, loopVars, toldVars
  <2>. QED
    BY <1>1, <1>2, <2>1 DEF Leaving
<1>16. CASE DestroyServerHere
  <2>1. /\ ~inMap' /\ serverGone' /\ UNCHANGED mainPending
        /\ \/ callback' = "destroy" /\ told' = "down"
           \/ UNCHANGED <<callback, told>>
    BY <1>16 DEF DestroyServerHere, ConnectDestroyed, toldVars
  <2>. QED
    BY <1>1, <1>2, <2>1 DEF Leaving
<1>17. CASE MainLoopDestroyed
  <2>1. /\ mainPending' = 0 /\ serverGone
        /\ UNCHANGED <<callback, told, inMap, serverGone>>
    BY <1>17 DEF MainLoopDestroyed, loopVars, toldVars
  <2>. QED
    BY <1>1, <1>2, <2>1 DEF Leaving
<1>. QED
  BY <1>5, <1>6, <1>7, <1>8, <1>9, <1>10, <1>11, <1>12, <1>13, <1>14, <1>15,
     <1>16, <1>17
     DEF Next, LoopStep, UserStep

LEMMA ReadingStep ==
  ASSUME Kept, Told, Leaving, Reading, [Next]_vars
  PROVE  Reading'
<1>1. /\ TypeOK /\ Start /\ Interested /\ Phases /\ Untouched /\ Watched
      /\ events_ \in Interests /\ told \in {"nothing", "up", "down"}
  BY DEF Kept, Ordered, TypeOK, Start, Interested
<1>2. CASE UNCHANGED <<told, serverGone, index_, events_>>
  BY <1>2 DEF Reading
<1>3. CASE told' = "down" \/ serverGone'
  BY <1>3 DEF Reading
<1>4. CASE SendEffect /\ UNCHANGED <<told, serverGone>>
  BY <1>4 DEF SendEffect, Reading
<1>5. ASSUME NEW r \in Reports, PollReturn(r) PROVE Reading'
  BY <1>2, <1>5 DEF PollReturn, connVars, serverVars, toldVars
<1>6. CASE \/ PollOther \/ HandleErrorEvent \/ ReadMessage \/ ReadError
           \/ SwapFunctors \/ FunctorsDone \/ RunUserFunctor \/ RunShutdown
           \/ CallbackReturns \/ CloseCallback \/ UserShutdown
           \/ RemoveConnectionInLoop \/ IoLoopEnds \/ MainLoopDestroyed
           \/ PeerSends \/ PeerCloses \/ PeerResets \/ UNCHANGED vars
  BY <1>2, <1>6
     DEF PollOther, HandleErrorEvent, ReadMessage, ReadError, Dispatch,
         SwapFunctors, FunctorsDone, RunUserFunctor, RunShutdown, RunFunctor,
         CallbackReturns, CloseCallback, UserShutdown, RemoveConnectionInLoop,
         IoLoopEnds, MainLoopDestroyed, PeerSends, PeerCloses, PeerResets,
         Arrive, vars, connVars, serverVars, toldVars
<1>7. CASE \/ HandleCloseEvent \/ ReadEof \/ DestroyServer
           \/ DestroyServerHere
  BY <1>3, <1>7
     DEF HandleCloseEvent, ReadEof, HandleClose, DestroyServer,
         DestroyServerHere
<1>8. CASE HandleWriteEvent
  <2>1. WriteEffect /\ UNCHANGED <<told, serverGone>>
    BY <1>1, <1>8, HandleWriteFacts
       DEF HandleWriteEvent, Dispatch, serverVars, toldVars
  <2>. QED
    BY <2>1 DEF WriteEffect, Reading
<1>9. CASE EstablishHere \/ RunConnectEstablished
  BY <1>1, <1>9, ConnectEstablishedFacts
     DEF EstablishHere, RunConnectEstablished, Reading
<1>10. CASE RunConnectDestroyed
  <2>1. /\ ~inMap /\ UNCHANGED serverGone
        /\ told' = "down" \/ UNCHANGED told
    BY <1>1, <1>10, RunsWhatWaits
       DEF RunConnectDestroyed, RunFunctor, ConnectDestroyed, serverVars,
           Leaving
  <2>. QED
    BY <2>1 DEF Leaving, Reading
<1>11. CASE RunSend
  BY <1>1, <1>4, <1>11, RunSendEffect
     DEF RunSend, RunFunctor, serverVars, toldVars
<1>12. CASE DestroyCallbackReturns
  BY <1>12 DEF DestroyCallbackReturns, toldVars, serverVars, Leaving, Reading
<1>13. ASSUME NEW m \in Messages, UserSend(m) PROVE Reading'
  BY <1>1, <1>2, <1>4, <1>13, BytesType, SendInLoopFacts
     DEF UserSend, connVars, serverVars, toldVars
<1>14. ASSUME NEW t \in Threads, UserShares(t) \/ ThreadStep(t) PROVE Reading'
  BY <1>2, <1>14
     DEF UserShares, ThreadStep, ForeignSend, ForeignShutdown,
         ForeignSetState, ForeignPush, ForeignRelease, connVars, serverVars,
         toldVars
<1>. QED
  BY <1>5, <1>6, <1>7, <1>8, <1>9, <1>10, <1>11, <1>12, <1>13, <1>14
     DEF Next, LoopStep, UserStep

LEMMA LeavingInvariant == Spec => [](Kept /\ Told /\ Leaving /\ Reading)
<1>1. Init => Told /\ Leaving /\ Reading
  <2>. SUFFICES ASSUME Init PROVE Told /\ Leaving /\ Reading
    OBVIOUS
  <2>1. \A i \in DOMAIN pendingFunctors_ :
          pendingFunctors_[i].kind # "connectDestroyed"
    BY FunctorType DEF Init, Kinds
  <2>2. ~(\E i \in ran + 1 .. Len(functors) : TRUE)
    BY DEF Init
  <2>. QED
    BY <2>1, <2>2 DEF Init, Told, Leaving, Reading, Waiting
<1>2. Kept /\ Told /\ [Next]_vars => Told'
  BY ToldStep
<1>3. Kept /\ Told /\ Leaving /\ Reading /\ [Next]_vars => Leaving' /\ Reading'
  BY LeavingStep, ReadingStep
<1>. QED
  BY <1>1, <1>2, <1>3, KeptInvariant, PTL DEF Spec

\* If no other thread both sends and shuts down, epoll watches the channel
\* exactly while the user believes the connection is up: a close the peer asks
\* for is reported, and once "down" has been said the channel is never
\* registered again.  It needs that connectDestroyed comes only after "down"
\* as long as there is a server.
THEOREM ConnectionWatchedWhileUp ==
  ASSUME \A uses \in ForeignUses : uses # {"send", "shutdown"}
  PROVE  Spec => []WatchedWhileUp
<1>1. Kept /\ Told /\ Reading => WatchedWhileUp
  <2>. SUFFICES ASSUME Kept, Told, Reading, index_ = "kAdded"
                PROVE  told = "up"
    BY DEF WatchedWhileUp, Reading
  <2>1. /\ foreignOps # {"send", "shutdown"} /\ Untouched
        /\ told \in {"nothing", "up", "down"}
    BY DEF Kept, Ordered, TypeOK, Start
  <2>. QED
    BY <2>1 DEF Told, Untouched
<1>. QED
  BY <1>1, LeavingInvariant, PTL

\* Under the same condition, once the user has been told "down" the removal of
\* the channel is always on its way, in one hand or another: no order of the
\* two loops, of the server's destruction and of the other threads drops it,
\* until the io loop itself has ended.
THEOREM ConnectionRemovalIsComing ==
  ASSUME \A uses \in ForeignUses : uses # {"send", "shutdown"}
  PROVE  Spec => []RemovalIsComing
<1>1. Kept /\ Covered /\ Leaving => RemovalIsComing
  <2>. SUFFICES ASSUME Kept, Covered, Leaving, told = "down",
                       index_ # "kNew", pc # "left",
                       callback \notin {"close", "destroy"},
                       ~Waiting("connectDestroyed")
                PROVE  mainPending > 0 /\ ~serverGone
    BY DEF RemovalIsComing
  <2>1. Coming
    BY DEF Kept, Ordered, TypeOK, Covered, Coverage, Registered
  <2>2. inMap
    BY <2>1 DEF Coming
  <2>. QED
    BY <2>2 DEF Leaving
<1>. QED
  BY <1>1, CoveredInvariant, LeavingInvariant, PTL
=============================================================================

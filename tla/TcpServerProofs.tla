--------------------------- MODULE TcpServerProofs ---------------------------
(***************************************************************************)
(* What holds of a TcpServer for any number of threads, clients and        *)
(* descriptors: its types, that functors are queued to the right loop,     *)
(* that pollers point at living connections only, that a connection is     *)
(* destroyed once, and that the server keeps ServerPromise.                *)
(***************************************************************************)
EXTENDS TcpServer, Integers, FiniteSetTheorems, SequenceTheorems, TLAPS

\* What the operations make of a connection's record.
LEMMA EstablishedType ==
  ASSUME NEW r \in Connection
  PROVE  /\ Established(r) \in Connection
         /\ Established(r).loop = r.loop
         /\ Established(r).state_ = "kConnected"
         /\ Established(r).index_ = "kAdded"
         /\ Established(r).told = Append(r.told, "up")
<1>1. Append(r.told, "up") \in Seq({"up", "down"})
  BY DEF Connection
<1>2. IndexAfter(CtlOp(r.index_, {"read"})) = "kAdded"
  BY {"read"} # {} DEF IndexAfter, CtlOp
<1>. QED
  BY <1>1, <1>2 DEF Established, Connection, Indices

LEMMA DisconnectedType ==
  ASSUME NEW r \in Connection
  PROVE  /\ Disconnected(r) \in Connection
         /\ Disconnected(r).loop = r.loop
         /\ Disconnected(r).state_ = "kDisconnected"
         /\ r.index_ = "kAdded" => Disconnected(r).index_ = "kDeleted"
         /\ Disconnected(r).told = Append(r.told, "down")
<1>1. Append(r.told, "down") \in Seq({"up", "down"})
  BY DEF Connection
<1>2. IndexAfter(CtlOp(r.index_, {})) \in Indices
  BY DEF IndexAfter, CtlOp, Indices
<1>3. r.index_ = "kAdded" => IndexAfter(CtlOp(r.index_, {})) = "kDeleted"
  BY DEF IndexAfter, CtlOp
<1>. QED
  BY <1>1, <1>2, <1>3 DEF Disconnected, Connection

LEMMA DestroyedType ==
  ASSUME NEW r \in Connection
  PROVE  /\ Destroyed(r) \in Connection
         /\ Destroyed(r).loop = r.loop
         /\ Destroyed(r).index_ = "kNew"
         /\ r.state_ = "kConnected" =>
              /\ Destroyed(r).state_ = "kDisconnected"
              /\ Destroyed(r).told = Append(r.told, "down")
         /\ r.state_ # "kConnected" =>
              Destroyed(r).state_ = r.state_ /\ Destroyed(r).told = r.told
<1>1. Append(r.told, "down") \in Seq({"up", "down"})
  BY DEF Connection
<1>2. IndexAfter(CtlOp(r.index_, {})) \in Indices
  BY DEF IndexAfter, CtlOp, Indices
<1>3. /\ Disconnected(r) \in Connection
      /\ Disconnected(r).loop = r.loop
      /\ Disconnected(r).state_ = "kDisconnected"
      /\ Disconnected(r).told = Append(r.told, "down")
  BY <1>1, <1>2 DEF Disconnected, Connection
<1>. QED
  BY <1>3 DEF Destroyed, Connection, Indices

LEMMA ChangesType ==
  ASSUME NEW r \in Connection
  PROVE  /\ [r EXCEPT !.peerClosed = TRUE] \in Connection
         /\ [r EXCEPT !.state_ = "kDisconnecting"] \in Connection
         /\ LET q == [r EXCEPT !.peerClosed = TRUE] IN
            /\ q.loop = r.loop /\ q.state_ = r.state_ /\ q.told = r.told
            /\ q.index_ = r.index_
         /\ LET q == [r EXCEPT !.state_ = "kDisconnecting"] IN
            /\ q.loop = r.loop /\ q.told = r.told /\ q.index_ = r.index_
            /\ q.state_ = "kDisconnecting"
BY DEF Connection

LEMMA NoConnectionType ==
  /\ NoConnection \in Connection
  /\ \A l \in Loops :
       /\ [NoConnection EXCEPT !.loop = l] \in Connection
       /\ [NoConnection EXCEPT !.loop = l].loop = l
       /\ [NoConnection EXCEPT !.loop = l].state_ = "kConnecting"
       /\ [NoConnection EXCEPT !.loop = l].index_ = "kNew"
       /\ [NoConnection EXCEPT !.loop = l].told = <<>>
<1>1. <<>> \in Seq({"up", "down"})
  OBVIOUS
<1>2. NoConnection \in Connection
  BY <1>1, MaxThreadsAssumption
  DEF NoConnection, Connection, Indices, Loops, Main
<1>3. /\ NoConnection.state_ = "kConnecting" /\ NoConnection.index_ = "kNew"
      /\ NoConnection.told = <<>>
  BY DEF NoConnection
<1>. QED
  BY <1>2, <1>3 DEF Connection

LEMMA NextLoopType ==
  ASSUME TypeOK
  PROVE  NextLoop \in Loops /\ (NextLoop = Main \/ NextLoop \in IoLoops)
BY MaxThreadsAssumption DEF TypeOK, NextLoop, Loops, IoLoops, Main

LEMMA PushType ==
  ASSUME TypeOK, NEW l \in Loops, NEW run \in Runs, NEW c \in Conns,
         Push(l, run, c)
  PROVE  pendingFunctors_' \in [Loops -> Seq(Functors)]
<1>1. [run |-> run, conn |-> c] \in Functors
  BY DEF Functors
<1>. QED
  BY <1>1 DEF TypeOK, Push

-----------------------------------------------------------------------------
\* Every variable keeps its type, whatever loops, clients and the destructor
\* do.
LEMMA TypeInit == Init => TypeOK
<1>. SUFFICES ASSUME Init PROVE TypeOK
  OBVIOUS
<1>1. \A l \in Loops : <<>> \in Seq(Functors) /\ Len(<<>>) = 0
  OBVIOUS
<1>2. conn \in [Conns -> Connection]
  BY NoConnectionType DEF Init
<1>3. /\ pendingFunctors_ \in [Loops -> Seq(Functors)]
      /\ functors \in [Loops -> Seq(Functors)]
      /\ ran \in [Loops -> Nat]
      /\ \A l \in Loops : /\ ran[l] <= Len(functors[l])
                         /\ functors[l] = <<>> /\ active[l] = {}
  BY <1>1 DEF Init
<1>4. /\ phase \in [Loops -> InLoop \cup {"outside", "left"}]
      /\ active \in [Loops -> SUBSET (Conns \cup {Listener})]
      /\ \A l \in Loops : phase[l] = "outside"
      /\ quit_ \in [Loops -> BOOLEAN]
  BY DEF Init
<1>5. /\ numThreads_ = 0 /\ started_ = 0 /\ listenning_ = FALSE
      /\ waiting = 0 /\ nextConnId_ = 1 /\ next_ = 0 /\ connections_ = {}
      /\ server = "serving" /\ joining = 0
  BY DEF Init
<1>6. /\ numThreads_ \in 0 .. MaxThreads
      /\ nextConnId_ \in 1 .. MaxConns + 1
      /\ waiting + nextConnId_ <= MaxConns + 1
      /\ joining \in 0 .. MaxThreads
  BY <1>5, MaxThreadsAssumption, MaxConnsAssumption
<1>. QED
  BY <1>2, <1>3, <1>4, <1>5, <1>6 DEF TypeOK

LEMMA TypeStep == TypeOK /\ [Next]_vars => TypeOK'
<1>. SUFFICES ASSUME TypeOK, [Next]_vars PROVE TypeOK'
  OBVIOUS
<1>. USE MaxThreadsAssumption, MaxConnsAssumption
     DEF setupVars, acceptVars, connVars, queueVars, loopVars,
         destructVars
<1>a. Main \in Loops
  BY DEF Main, Loops
<1>b. IoLoops \subseteq Loops
  BY DEF TypeOK, IoLoops, Loops
<1>1. ASSUME NEW n \in 0 .. MaxThreads, SetThreadNum(n) PROVE TypeOK'
  BY <1>1 DEF SetThreadNum, TypeOK
<1>2. CASE Start
  BY <1>2 DEF Start, TypeOK, InLoop
<1>3. ASSUME NEW l \in Loops, EnterLoop(l) PROVE TypeOK'
  <2>1. /\ phase[l] = "outside" /\ active[l] = {} /\ started_ = 1
        /\ phase' \in [Loops -> InLoop \cup {"outside", "left"}]
        /\ phase'[l] = "functors"
        /\ \A m \in Loops \ {l} : phase'[m] = phase[m]
        /\ quit_' \in [Loops -> BOOLEAN]
    BY <1>3 DEF EnterLoop, TypeOK, InLoop
  <2>2. \A m \in Loops : /\ phase'[m] # "functors" => functors[m] = <<>>
                         /\ phase'[m] # "events" => active[m] = {}
    BY <2>1 DEF TypeOK
  <2>. QED
    BY <1>3, <2>1, <2>2 DEF EnterLoop, TypeOK
<1>4. CASE ClientConnects
  BY <1>4 DEF ClientConnects, TypeOK
<1>5. CASE QuitMain
  BY <1>5 DEF QuitMain, TypeOK
<1>6. CASE Destroy
  BY <1>6 DEF Destroy, TypeOK
<1>7. ASSUME NEW c \in Conns, PeerCloses(c) PROVE TypeOK'
  <2>1. conn' \in [Conns -> Connection]
    BY <1>7, ChangesType DEF PeerCloses, TypeOK
  <2>. QED
    BY <1>7, <2>1 DEF PeerCloses, TypeOK
<1>8. ASSUME NEW c \in Conns, Shutdown(c) PROVE TypeOK'
  <2>1. conn' \in [Conns -> Connection]
    BY <1>8, ChangesType DEF Shutdown, TypeOK
  <2>. QED
    BY <1>8, <2>1 DEF Shutdown, TypeOK
<1>9. CASE Accept
  <2>. DEFINE r == [NoConnection EXCEPT !.loop = NextLoop]
  <2>1. Established(r) \in Connection /\ r \in Connection
    BY NextLoopType, NoConnectionType, EstablishedType
  <2>2. nextConnId_ \in Conns
    BY <1>9 DEF Accept, TypeOK, Conns
  <2>3. conn' \in [Conns -> Connection]
    BY <1>9, <2>1 DEF Accept, TypeOK
  <2>4. pendingFunctors_' \in [Loops -> Seq(Functors)]
    BY <1>9, <2>2, NextLoopType, PushType DEF Accept, Runs, TypeOK
  <2>5. /\ active' \in [Loops -> SUBSET (Conns \cup {Listener})]
        /\ \A l \in Loops : active'[l] \subseteq active[l]
    BY <1>9 DEF Accept, Handle, TypeOK
  <2>6. /\ started_ = 1
        /\ next_' \in Nat /\ (next_' = 0 \/ next_' < numThreads_')
    BY <1>9, <1>a DEF Accept, Handle, NextIndex, TypeOK
  <2>. QED
    BY <1>9, <2>2, <2>3, <2>4, <2>5, <2>6 DEF Accept, TypeOK
<1>10. CASE AcceptFails
  <2>1. /\ active' \in [Loops -> SUBSET (Conns \cup {Listener})]
        /\ \A l \in Loops : active'[l] \subseteq active[l]
    BY <1>10 DEF AcceptFails, Handle, TypeOK
  <2>. QED
    BY <1>10, <2>1 DEF AcceptFails, TypeOK
<1>11. ASSUME NEW l \in Loops, PollReturn(l) PROVE TypeOK'
  <2>1. Ready(l) \in SUBSET (Conns \cup {Listener})
    BY DEF Ready
  <2>. QED
    BY <1>11, <2>1 DEF PollReturn, TypeOK, InLoop
<1>12. ASSUME NEW l \in Loops, NEW c \in Conns, HandleClose(l, c)
       PROVE  TypeOK'
  <2>1. conn' \in [Conns -> Connection]
    BY <1>12, DisconnectedType DEF HandleClose, TypeOK
  <2>2. pendingFunctors_' \in [Loops -> Seq(Functors)]
    BY <1>12, <1>a, PushType DEF HandleClose, Runs
  <2>3. /\ active' \in [Loops -> SUBSET (Conns \cup {Listener})]
        /\ \A m \in Loops : active'[m] \subseteq active[m]
    BY <1>12 DEF HandleClose, Handle, TypeOK
  <2>. QED
    BY <1>12, <2>1, <2>2, <2>3 DEF HandleClose, TypeOK
<1>13. ASSUME NEW c \in Conns, HandleCloseInMain(c) PROVE TypeOK'
  <2>1. conn' \in [Conns -> Connection]
    BY <1>13, DisconnectedType DEF HandleCloseInMain, TypeOK
  <2>2. conn[c].loop \in Loops
    BY DEF TypeOK, Connection
  <2>3. pendingFunctors_' \in [Loops -> Seq(Functors)]
    BY <1>13, <2>2, PushType DEF HandleCloseInMain, Runs
  <2>4. /\ active' \in [Loops -> SUBSET (Conns \cup {Listener})]
        /\ \A m \in Loops : active'[m] \subseteq active[m]
    BY <1>13 DEF HandleCloseInMain, Handle, TypeOK
  <2>. QED
    BY <1>13, <2>1, <2>3, <2>4 DEF HandleCloseInMain, TypeOK
<1>14. ASSUME NEW l \in Loops, SwapFunctors(l) PROVE TypeOK'
  <2>1. /\ functors' \in [Loops -> Seq(Functors)]
        /\ pendingFunctors_' \in [Loops -> Seq(Functors)]
    BY <1>14 DEF SwapFunctors, TypeOK
  <2>2. /\ phase' \in [Loops -> InLoop \cup {"outside", "left"}]
        /\ phase[l] = "events" /\ phase'[l] = "functors" /\ started_ = 1
        /\ \A m \in Loops \ {l} : /\ phase'[m] = phase[m]
                                  /\ functors'[m] = functors[m]
    BY <1>14 DEF SwapFunctors, TypeOK, InLoop
  <2>3. ran[l] = 0 /\ Len(functors'[l]) \in Nat /\ active[l] = {}
    <3>1. functors[l] = <<>>
      BY <2>2 DEF TypeOK
    <3>2. Len(functors[l]) = 0
      BY <3>1
    <3>. QED
      BY <1>14, <2>1, <3>2 DEF SwapFunctors, TypeOK
  <2>4. \A m \in Loops : /\ ran[m] <= Len(functors'[m])
                         /\ phase'[m] # "functors" => functors'[m] = <<>>
                         /\ phase'[m] # "events" => active[m] = {}
    BY <2>2, <2>3 DEF TypeOK
  <2>. QED
    BY <1>14, <2>1, <2>2, <2>4 DEF SwapFunctors, TypeOK
<1>15. ASSUME NEW l \in Loops, NEW run, NEW c, Run(l, run, c)
       PROVE  /\ ran' \in [Loops -> Nat]
              /\ \A m \in Loops : ran'[m] <= Len(functors[m])
  <2>1. Len(functors[l]) \in Nat /\ ran[l] \in Nat
    BY DEF TypeOK
  <2>. QED
    BY <1>15, <2>1 DEF Run, TypeOK
<1>16. ASSUME NEW l \in Loops, NEW c \in Conns, ConnectEstablished(l, c)
       PROVE  TypeOK'
  <2>1. conn' \in [Conns -> Connection]
    BY <1>16, EstablishedType DEF ConnectEstablished, TypeOK
  <2>. QED
    BY <1>15, <1>16, <2>1 DEF ConnectEstablished, Run, TypeOK
<1>17. ASSUME NEW l \in Loops, NEW c \in Conns, ConnectDestroyed(l, c)
       PROVE  TypeOK'
  <2>1. conn' \in [Conns -> Connection]
    BY <1>17, DestroyedType DEF ConnectDestroyed, TypeOK
  <2>. QED
    BY <1>15, <1>17, <2>1 DEF ConnectDestroyed, Run, TypeOK
<1>18. ASSUME NEW c \in Conns, RemoveConnectionInLoop(c) PROVE TypeOK'
  <2>1. conn[c].loop \in Loops
    BY DEF TypeOK, Connection
  <2>2. pendingFunctors_' \in [Loops -> Seq(Functors)]
    BY <1>18, <2>1, PushType DEF RemoveConnectionInLoop, Runs
  <2>. QED
    BY <1>15, <1>18, <1>a, <2>2 DEF RemoveConnectionInLoop, Run, TypeOK
<1>19. ASSUME NEW l \in Loops, FinishFunctors(l) PROVE TypeOK'
  <2>1. <<>> \in Seq(Functors) /\ Len(<<>>) = 0
    OBVIOUS
  <2>2. /\ functors' \in [Loops -> Seq(Functors)]
        /\ pendingFunctors_' \in [Loops -> Seq(Functors)]
        /\ ran' \in [Loops -> Nat]
    BY <1>19, <2>1 DEF FinishFunctors, TypeOK
  <2>3. /\ phase' \in [Loops -> InLoop \cup {"outside", "left"}]
        /\ phase'[l] # "events" /\ active[l] = {} /\ started_ = 1
        /\ functors'[l] = <<>> /\ ran'[l] = 0
        /\ \A m \in Loops \ {l} : /\ phase'[m] = phase[m]
                                  /\ functors'[m] = functors[m]
                                  /\ ran'[m] = ran[m]
    BY <1>19 DEF FinishFunctors, TypeOK, InLoop
  <2>4. \A m \in Loops : /\ ran'[m] <= Len(functors'[m])
                         /\ phase'[m] # "functors" => functors'[m] = <<>>
                         /\ phase'[m] # "events" => active[m] = {}
    BY <2>1, <2>3 DEF TypeOK
  <2>. QED
    BY <1>19, <2>2, <2>3, <2>4 DEF FinishFunctors, TypeOK
<1>20. ASSUME NEW c \in Conns, DestroyItem(c) PROVE TypeOK'
  <2>1. conn' \in [Conns -> Connection]
    BY <1>20, DestroyedType DEF DestroyItem, TypeOK
  <2>2. conn[c].loop \in Loops
    BY DEF TypeOK, Connection
  <2>3. pendingFunctors_' \in [Loops -> Seq(Functors)]
    BY <1>20, <2>2, PushType DEF DestroyItem, Runs, TypeOK
  <2>. QED
    BY <1>20, <2>1, <2>3 DEF DestroyItem, TypeOK
<1>21. ASSUME NEW k \in IoLoops, QuitThread(k) PROVE TypeOK'
  <2>1. k \in 0 .. MaxThreads
    BY DEF IoLoops, TypeOK
  <2>. QED
    BY <1>21, <1>b, <2>1 DEF QuitThread, EndsNext, TypeOK
<1>22. CASE DestroyAcceptor
  BY <1>22 DEF DestroyAcceptor, TypeOK
<1>23. CASE DestroyMainLoop
  <2>1. pendingFunctors_' \in [Loops -> Seq(Functors)]
    <3>1. <<>> \in Seq(Functors)
      OBVIOUS
    <3>. QED
      BY <1>23, <3>1, <1>a DEF DestroyMainLoop, TypeOK
  <2>. QED
    BY <1>23, <2>1 DEF DestroyMainLoop, TypeOK
<1>24. CASE UNCHANGED vars
  BY <1>24 DEF vars, TypeOK
<1>. QED
  BY <1>1, <1>2, <1>3, <1>4, <1>5, <1>6, <1>7, <1>8, <1>9, <1>10, <1>11,
     <1>12, <1>13, <1>14, <1>16, <1>17, <1>18, <1>19, <1>20, <1>21, <1>22,
     <1>23, <1>24
  DEF Next, Environment, MainStep, DestructorStep, LoopStep

\* The type invariant of the server, for any number of threads, clients and
\* descriptors.
THEOREM ServerTypeCorrect == Spec => []TypeOK
BY TypeInit, TypeStep, PTL DEF Spec

-----------------------------------------------------------------------------
\* Only started loops run; the destructor comes after the main loop, ends
\* the io loops when connections_ is empty, and returns after the last.
Life ==
  /\ \A l \in Loops : phase[l] # "outside" =>
       started_ = 1 /\ l \in IoLoops \cup {Main}
  /\ server # "serving" => phase[Main] = "left"
  /\ \A k \in Loops \ {Main} :
       /\ phase[k] = "left" => quit_[k]
       /\ quit_[k] => server # "serving" /\ connections_ = {}
  /\ server \in {"freed", "over"} =>
       connections_ = {} /\ \A k \in IoLoops : phase[k] = "left"

LEMMA LifeInit == Init => Life
BY DEF Init, Life

LEMMA LifeStep == TypeOK /\ Life /\ [Next]_vars => Life'
<1>. SUFFICES ASSUME TypeOK, Life, [Next]_vars PROVE Life'
  OBVIOUS
<1>. USE MaxThreadsAssumption
     DEF setupVars, acceptVars, connVars, queueVars, loopVars,
         destructVars
<1>a. Main \in Loops /\ \A k \in IoLoops : k \in Loops \ {Main}
  BY DEF Main, Loops, IoLoops, TypeOK
<1>b. phase \in [Loops -> InLoop \cup {"outside", "left"}]
        /\ quit_ \in [Loops -> BOOLEAN]
  BY DEF TypeOK
<1>1. ASSUME NEW n \in 0 .. MaxThreads, SetThreadNum(n) PROVE Life'
  BY <1>1, <1>a DEF SetThreadNum, Life, TypeOK
<1>2. CASE Start
  BY <1>2, <1>a, <1>b DEF Start, Life, TypeOK, IoLoops
<1>3. ASSUME NEW l \in Loops, EnterLoop(l) PROVE Life'
  BY <1>3, <1>a, <1>b DEF EnterLoop, Life, IoLoops
<1>4. CASE QuitMain
  BY <1>4, <1>a, <1>b DEF QuitMain, Life, IoLoops
<1>5. CASE Destroy
  BY <1>5 DEF Destroy, Life, IoLoops
<1>6. CASE Accept
  BY <1>6 DEF Accept, Handle, Life, IoLoops
<1>7. ASSUME NEW l \in Loops, PollReturn(l) PROVE Life'
  BY <1>7, <1>b DEF PollReturn, Life, IoLoops
<1>8. ASSUME NEW l \in Loops, SwapFunctors(l) PROVE Life'
  BY <1>8, <1>b DEF SwapFunctors, Life, IoLoops
<1>9. ASSUME NEW l \in Loops, FinishFunctors(l) PROVE Life'
  BY <1>9, <1>b DEF FinishFunctors, Life, IoLoops
<1>10. ASSUME NEW c \in Conns,
              HandleCloseInMain(c) \/ RemoveConnectionInLoop(c)
                \/ DestroyItem(c)
       PROVE  Life'
  BY <1>10 DEF HandleCloseInMain, RemoveConnectionInLoop, DestroyItem, Run,
               Life, IoLoops
<1>11. ASSUME NEW k \in IoLoops, QuitThread(k) PROVE Life'
  BY <1>11, <1>a, <1>b DEF QuitThread, EndsNext, Life, IoLoops
<1>12. CASE DestroyAcceptor
  BY <1>12 DEF DestroyAcceptor, Life, IoLoops
<1>13. CASE DestroyMainLoop
  BY <1>13 DEF DestroyMainLoop, Life, IoLoops
<1>14. ASSUME UNCHANGED <<setupVars, connections_, phase, quit_, server>>
       PROVE  Life'
  BY <1>14 DEF Life, IoLoops
<1>15. ASSUME NEW c \in Conns, PeerCloses(c) \/ Shutdown(c) PROVE Life'
  BY <1>14, <1>15 DEF PeerCloses, Shutdown
<1>16. ASSUME NEW l \in Loops, NEW c \in Conns,
              HandleClose(l, c) \/ ConnectEstablished(l, c)
                \/ ConnectDestroyed(l, c)
       PROVE  Life'
  BY <1>14, <1>16 DEF HandleClose, ConnectEstablished, ConnectDestroyed, Run
<1>17. CASE ClientConnects \/ AcceptFails
  BY <1>14, <1>17 DEF ClientConnects, AcceptFails
<1>18. CASE UNCHANGED vars
  BY <1>14, <1>18 DEF vars
<1>. QED
  BY <1>1, <1>2, <1>3, <1>4, <1>5, <1>6, <1>7, <1>8, <1>9, <1>10, <1>11,
     <1>12, <1>13, <1>15, <1>16, <1>17, <1>18
  DEF Next, Environment, MainStep, DestructorStep, LoopStep

-----------------------------------------------------------------------------
\* What has not been accepted is nowhere yet.
Fresh ==
  \A c \in Conns : c >= nextConnId_ =>
    /\ c \notin connections_ /\ conn[c].index_ = "kNew"
    /\ \A l \in Loops : \A f \in FunctorsOf(l) : f.conn # c

\* What a poll has reported stays registered until it is handled.
Reported ==
  \A l \in Loops : \A c \in active[l] \cap Conns :
    conn[c].loop = l /\ conn[c].index_ = "kAdded"

HomeInv == Life /\ FunctorsAtHome /\ Fresh /\ Reported

\* How a push and the loops' own steps change what their queues hold.
LEMMA PushAdds ==
  ASSUME TypeOK, NEW l \in Loops, NEW run \in Runs, NEW c \in Conns,
         Push(l, run, c), functors' = functors
  PROVE  \A m \in Loops : \A f \in FunctorsOf(m)' :
           \/ f \in FunctorsOf(m)
           \/ m = l /\ f = [run |-> run, conn |-> c]
<1>. SUFFICES ASSUME NEW m \in Loops, NEW f \in FunctorsOf(m)'
              PROVE  \/ f \in FunctorsOf(m)
                     \/ m = l /\ f = [run |-> run, conn |-> c]
  OBVIOUS
<1>1. CASE f \in Elements(functors[m])'
  BY <1>1 DEF FunctorsOf, Elements
<1>2. CASE f \in Elements(pendingFunctors_[m])' /\ m # l
  BY <1>2 DEF Push, TypeOK, FunctorsOf, Elements
<1>3. CASE f \in Elements(pendingFunctors_[m])' /\ m = l
  <2>. DEFINE s == pendingFunctors_[l]
              x == [run |-> run, conn |-> c]
  <2>1. s \in Seq(Functors) /\ pendingFunctors_'[l] = Append(s, x)
    BY DEF Push, TypeOK
  <2>2. PICK i \in DOMAIN Append(s, x) : f = Append(s, x)[i]
    BY <1>3, <2>1 DEF Elements
  <2>3. CASE i = Len(s) + 1
    BY <1>3, <2>1, <2>2, <2>3
  <2>4. CASE i \in 1 .. Len(s)
    <3>1. f = s[i] /\ i \in DOMAIN s
      BY <2>1, <2>2, <2>4
    <3>. QED
      BY <1>3, <3>1 DEF FunctorsOf, Elements
  <2>5. i = Len(s) + 1 \/ i \in 1 .. Len(s)
    <3>1. DOMAIN Append(s, x) = 1 .. Len(s) + 1 /\ Len(s) \in Nat
      BY <2>1
    <3>. QED
      BY <3>1
  <2>. QED
    BY <2>3, <2>4, <2>5
<1>. QED
  BY <1>1, <1>2, <1>3 DEF FunctorsOf

LEMMA LoopAddsNothing ==
  ASSUME TypeOK,
         \/ \E l \in Loops : SwapFunctors(l) \/ FinishFunctors(l)
         \/ DestroyMainLoop
         \/ UNCHANGED <<pendingFunctors_, functors>>
  PROVE  \A m \in Loops : FunctorsOf(m)' \subseteq FunctorsOf(m)
<1>. SUFFICES ASSUME NEW m \in Loops, NEW f \in FunctorsOf(m)'
              PROVE  f \in FunctorsOf(m)
  OBVIOUS
<1>a. Elements(<<>>) = {}
  BY DEF Elements
<1>b. pendingFunctors_'[m] = pendingFunctors_[m] \/ pendingFunctors_'[m] = <<>>
  BY DEF SwapFunctors, FinishFunctors, DestroyMainLoop, TypeOK
<1>c. \/ functors'[m] = functors[m] \/ functors'[m] = <<>>
      \/ functors'[m] = pendingFunctors_[m]
  BY DEF SwapFunctors, FinishFunctors, DestroyMainLoop, TypeOK
<1>. QED
  BY <1>a, <1>b, <1>c DEF FunctorsOf

LEMMA FunctorTypes ==
  ASSUME TypeOK, NEW l \in Loops, NEW f \in FunctorsOf(l)
  PROVE  f.run \in Runs /\ f.conn \in Conns
<1>1. /\ \A i \in DOMAIN pendingFunctors_[l] : pendingFunctors_[l][i] \in Functors
      /\ \A i \in DOMAIN functors[l] : functors[l][i] \in Functors
  BY DEF TypeOK
<1>2. f \in Functors
  BY <1>1 DEF FunctorsOf, Elements
<1>. QED
  BY <1>2 DEF Functors

LEMMA HomeKept ==
  ASSUME TypeOK, FunctorsAtHome,
         \A m \in Loops : FunctorsOf(m)' \subseteq FunctorsOf(m),
         \A d \in Conns : conn'[d].loop = conn[d].loop,
         \A m \in Loops : LoopGone(m)' => LoopGone(m) \/ FunctorsOf(m)' = {}
  PROVE  FunctorsAtHome'
<1>. SUFFICES ASSUME NEW l \in Loops
              PROVE  /\ \A f \in FunctorsOf(l)' :
                          IF f.run = "removeConnectionInLoop" THEN l = Main
                          ELSE l = conn'[f.conn].loop
                     /\ LoopGone(l)' => FunctorsOf(l)' = {}
  BY DEF FunctorsAtHome
<1>1. \A f \in FunctorsOf(l)' : f \in FunctorsOf(l) /\ f.conn \in Conns
  BY FunctorTypes
<1>. QED
  BY <1>1 DEF FunctorsAtHome

LEMMA HomePushed ==
  ASSUME TypeOK, FunctorsAtHome,
         NEW l \in Loops, NEW run \in Runs, NEW c \in Conns,
         \A m \in Loops : \A f \in FunctorsOf(m)' :
           \/ f \in FunctorsOf(m)
           \/ m = l /\ f = [run |-> run, conn |-> c],
         IF run = "removeConnectionInLoop" THEN l = Main
                                           ELSE l = conn'[c].loop,
         ~LoopGone(l)',
         \A m \in Loops : \A f \in FunctorsOf(m) :
           conn'[f.conn].loop = conn[f.conn].loop,
         \A m \in Loops : LoopGone(m)' => LoopGone(m)
  PROVE  FunctorsAtHome'
<1>. SUFFICES ASSUME NEW m \in Loops
              PROVE  /\ \A f \in FunctorsOf(m)' :
                          IF f.run = "removeConnectionInLoop" THEN m = Main
                          ELSE m = conn'[f.conn].loop
                     /\ LoopGone(m)' => FunctorsOf(m)' = {}
  BY DEF FunctorsAtHome
<1>1. \A f \in FunctorsOf(m) :
        IF f.run = "removeConnectionInLoop" THEN m = Main
                                            ELSE m = conn'[f.conn].loop
  BY DEF FunctorsAtHome
<1>2. m = l => ~LoopGone(m)'
  OBVIOUS
<1>3. m # l => FunctorsOf(m)' \subseteq FunctorsOf(m)
  OBVIOUS
<1>4. LoopGone(m)' => FunctorsOf(m)' = {}
  BY <1>2, <1>3 DEF FunctorsAtHome
<1>. QED
  BY <1>1, <1>4

LEMMA FreshKept ==
  ASSUME Fresh, nextConnId_' = nextConnId_,
         connections_' \subseteq connections_,
         \A m \in Loops : \A f \in FunctorsOf(m)' :
           f \in FunctorsOf(m) \/ ~(f.conn >= nextConnId_),
         \A d \in Conns : d >= nextConnId_ => conn'[d].index_ = conn[d].index_
  PROVE  Fresh'
BY DEF Fresh

LEMMA HomeInit == Init => HomeInv
<1>. SUFFICES ASSUME Init PROVE HomeInv
  OBVIOUS
<1>1. \A l \in Loops : FunctorsOf(l) = {}
  BY DEF Init, FunctorsOf, Elements
<1>2. Fresh
  BY <1>1 DEF Init, Fresh, NoConnection
<1>3. FunctorsAtHome
  BY <1>1 DEF FunctorsAtHome
<1>4. Reported
  BY DEF Init, Reported
<1>. QED
  BY <1>2, <1>3, <1>4, LifeInit DEF HomeInv

LEMMA HomeStep == TypeOK /\ TypeOK' /\ HomeInv /\ [Next]_vars => HomeInv'
<1>. SUFFICES ASSUME TypeOK, TypeOK', HomeInv, [Next]_vars PROVE HomeInv'
  OBVIOUS
<1>. USE MaxThreadsAssumption
     DEF setupVars, acceptVars, connVars, queueVars, loopVars,
         destructVars
<1>a. Life /\ Life' /\ FunctorsAtHome /\ Fresh /\ Reported
  BY LifeStep DEF HomeInv
<1>b. /\ Main \in Loops /\ IoLoops \subseteq Loops
      /\ conn \in [Conns -> Connection] /\ conn' \in [Conns -> Connection]
      /\ phase \in [Loops -> InLoop \cup {"outside", "left"}]
      /\ active \in [Loops -> SUBSET (Conns \cup {Listener})]
  <2>1. Main \in Loops /\ IoLoops \subseteq Loops
    BY DEF Main, Loops, IoLoops, TypeOK
  <2>2. conn' \in [Conns -> Connection]
    BY DEF TypeOK
  <2>. QED
    BY <2>1, <2>2 DEF TypeOK
<1>c. \A c \in Conns : conn[c].loop \in Loops
  BY <1>b DEF Connection
\* Steps that touch neither connections nor queues.
<1>1. ASSUME UNCHANGED <<nextConnId_, connVars, pendingFunctors_, functors>>,
             \A m \in Loops : LoopGone(m)' => LoopGone(m),
             \A m \in Loops : active'[m] \subseteq active[m]
      PROVE  HomeInv'
  <2>1. \A m \in Loops : FunctorsOf(m)' \subseteq FunctorsOf(m)
    BY <1>1, LoopAddsNothing
  <2>2. FunctorsAtHome'
    BY <1>1, <1>a, <2>1, HomeKept
  <2>3. Fresh'
    BY <1>1, <1>a, <2>1, FreshKept
  <2>4. Reported'
    BY <1>1, <1>a DEF Reported
  <2>. QED
    BY <1>a, <2>2, <2>3, <2>4 DEF HomeInv
<1>2. ASSUME NEW n \in 0 .. MaxThreads,
             SetThreadNum(n) \/ ClientConnects \/ QuitMain \/ Destroy
               \/ AcceptFails
      PROVE  HomeInv'
  <2>1. UNCHANGED <<nextConnId_, connVars, pendingFunctors_, functors>>
    BY <1>2 DEF SetThreadNum, ClientConnects, QuitMain, Destroy, AcceptFails
  <2>2. \A m \in Loops : LoopGone(m)' => LoopGone(m)
    BY <1>2, <1>a, <1>b DEF SetThreadNum, ClientConnects, QuitMain, Destroy,
      AcceptFails, LoopGone
  <2>3. \A m \in Loops : active'[m] \subseteq active[m]
    BY <1>2, <1>b DEF SetThreadNum, ClientConnects, QuitMain, Destroy,
      AcceptFails, Handle
  <2>. QED
    BY <1>1, <2>1, <2>2, <2>3
<1>3. ASSUME Start \/ \E l \in Loops : EnterLoop(l) PROVE HomeInv'
  <2>1. \A m \in Loops : LoopGone(m)' => LoopGone(m)
    BY <1>3, <1>b DEF Start, EnterLoop, LoopGone
  <2>. QED
    BY <1>1, <1>3, <2>1 DEF Start, EnterLoop
<1>4. ASSUME NEW k \in IoLoops, QuitThread(k) PROVE HomeInv'
  BY <1>1, <1>4 DEF QuitThread, EndsNext, LoopGone
<1>5. CASE DestroyAcceptor
  BY <1>1, <1>5 DEF DestroyAcceptor, LoopGone
<1>6. CASE UNCHANGED vars
  BY <1>1, <1>6 DEF vars, LoopGone
<1>7. ASSUME NEW l \in Loops, PollReturn(l) PROVE HomeInv'
  <2>1. \A m \in Loops : FunctorsOf(m)' \subseteq FunctorsOf(m)
    BY <1>7, LoopAddsNothing DEF PollReturn
  <2>2. \A m \in Loops : LoopGone(m)' => LoopGone(m)
    BY <1>7, <1>b DEF PollReturn, LoopGone
  <2>3. FunctorsAtHome'
    BY <1>7, <1>a, <2>1, <2>2, HomeKept DEF PollReturn
  <2>4. Fresh'
    BY <1>7, <1>a, <2>1, FreshKept DEF PollReturn
  <2>5. \A c \in Ready(l) \cap Conns :
          conn[c].loop = l /\ conn[c].index_ = "kAdded"
    BY DEF Ready, Listener, Conns
  <2>6. Reported'
    BY <1>7, <1>a, <1>b, <2>5 DEF PollReturn, Reported
  <2>. QED
    BY <1>a, <2>3, <2>4, <2>6 DEF HomeInv
\* What handlers and functors do to a connection leaves its loop alone.
<1>d. \A c \in Conns :
        /\ Established(conn[c]).loop = conn[c].loop
        /\ Disconnected(conn[c]).loop = conn[c].loop
        /\ Destroyed(conn[c]).loop = conn[c].loop
  BY <1>b, EstablishedType, DisconnectedType, DestroyedType
<1>e. nextConnId_ \in Nat /\ \A c \in Conns : c \in Nat
  BY DEF TypeOK, Conns
<1>8. ASSUME NEW c \in Conns, PeerCloses(c) \/ Shutdown(c) PROVE HomeInv'
  <2>1. \A m \in Loops : FunctorsOf(m)' \subseteq FunctorsOf(m)
    BY <1>8, LoopAddsNothing DEF PeerCloses, Shutdown
  <2>2. \A d \in Conns : /\ conn'[d].loop = conn[d].loop
                        /\ conn'[d].index_ = conn[d].index_
    <3>1. CASE PeerCloses(c)
      <4>1. /\ conn'[c].loop = conn[c].loop
            /\ conn'[c].index_ = conn[c].index_
        BY <1>b, <3>1, ChangesType DEF PeerCloses
      <4>. QED
        BY <1>b, <3>1, <4>1 DEF PeerCloses
    <3>2. CASE Shutdown(c)
      <4>1. /\ conn'[c].loop = conn[c].loop
            /\ conn'[c].index_ = conn[c].index_
        BY <1>b, <3>2, ChangesType DEF Shutdown
      <4>. QED
        BY <1>b, <3>2, <4>1 DEF Shutdown
    <3>. QED
      BY <1>8, <3>1, <3>2
  <2>3. FunctorsAtHome'
    BY <1>8, <1>a, <2>1, <2>2, HomeKept DEF PeerCloses, Shutdown, LoopGone
  <2>4. Fresh'
    BY <1>8, <1>a, <2>1, <2>2, FreshKept DEF PeerCloses, Shutdown
  <2>5. Reported'
    BY <1>8, <1>a, <2>2 DEF PeerCloses, Shutdown, Reported
  <2>. QED
    BY <1>a, <2>3, <2>4, <2>5 DEF HomeInv
<1>9. ASSUME NEW l \in Loops, NEW c \in Conns, HandleClose(l, c)
      PROVE  HomeInv'
  <2>1. /\ c \in active[l] /\ conn[c].loop = l /\ conn[c].index_ = "kAdded"
        /\ phase[l] = "events" /\ l # Main
    BY <1>9, <1>a DEF HandleClose, Handle, Reported
  <2>2. ~(c >= nextConnId_)
    BY <1>a, <2>1 DEF Fresh
  <2>3. \A m \in Loops : \A f \in FunctorsOf(m)' :
          \/ f \in FunctorsOf(m)
          \/ m = Main /\ f = [run |-> "removeConnectionInLoop", conn |-> c]
    BY <1>9, <1>b, PushAdds DEF HandleClose, Runs
  <2>4. ~LoopGone(Main)' /\ \A m \in Loops : LoopGone(m)' => LoopGone(m)
    BY <1>9, <1>a, <2>1 DEF HandleClose, LoopGone, Life
  <2>5. /\ \A d \in Conns : conn'[d].loop = conn[d].loop
        /\ \A d \in Conns \ {c} : conn'[d] = conn[d]
    BY <1>9, <1>b, <1>d DEF HandleClose
  <2>6. FunctorsAtHome'
    BY <1>a, <1>b, <2>3, <2>4, <2>5, HomePushed, FunctorTypes DEF Runs
  <2>7. Fresh'
    BY <1>9, <1>a, <2>2, <2>3, <2>5, FreshKept DEF HandleClose
  <2>8. Reported'
    BY <1>9, <1>a, <1>b, <2>1, <2>5 DEF HandleClose, Handle, Reported
  <2>. QED
    BY <1>a, <2>6, <2>7, <2>8 DEF HomeInv
<1>10. ASSUME NEW c \in Conns, HandleCloseInMain(c) PROVE HomeInv'
  <2>1. /\ c \in active[Main] /\ conn[c].loop = Main
        /\ conn[c].index_ = "kAdded" /\ phase[Main] = "events"
    BY <1>10, <1>a, <1>b DEF HandleCloseInMain, Handle, Reported
  <2>2. ~(c >= nextConnId_)
    BY <1>a, <2>1 DEF Fresh
  <2>3. \A m \in Loops : \A f \in FunctorsOf(m)' :
          \/ f \in FunctorsOf(m)
          \/ m = Main /\ f = [run |-> "connectDestroyed", conn |-> c]
    BY <1>10, <1>b, <2>1, PushAdds DEF HandleCloseInMain, Runs
  <2>4. ~LoopGone(Main)' /\ \A m \in Loops : LoopGone(m)' => LoopGone(m)
    BY <1>10, <1>a, <2>1 DEF HandleCloseInMain, LoopGone, Life
  <2>5. /\ \A d \in Conns : conn'[d].loop = conn[d].loop
        /\ \A d \in Conns \ {c} : conn'[d] = conn[d]
    BY <1>10, <1>b, <1>d DEF HandleCloseInMain
  <2>6. FunctorsAtHome'
    BY <1>a, <1>b, <2>1, <2>3, <2>4, <2>5, HomePushed, FunctorTypes DEF Runs
  <2>7. Fresh'
    BY <1>10, <1>a, <2>2, <2>3, <2>5, FreshKept DEF HandleCloseInMain
  <2>8. Reported'
    BY <1>10, <1>a, <1>b, <2>1, <2>5 DEF HandleCloseInMain, Handle, Reported
  <2>. QED
    BY <1>a, <2>6, <2>7, <2>8 DEF HomeInv
<1>11. ASSUME NEW l \in Loops, SwapFunctors(l) \/ FinishFunctors(l)
       PROVE  HomeInv'
  <2>1. \A m \in Loops : FunctorsOf(m)' \subseteq FunctorsOf(m)
    BY <1>11, LoopAddsNothing
  <2>2. \A m \in Loops : LoopGone(m)' => LoopGone(m) \/ FunctorsOf(m)' = {}
    <3>1. SwapFunctors(l) => \A m \in Loops : LoopGone(m)' => LoopGone(m)
      BY <1>b DEF SwapFunctors, LoopGone
    <3>2. FinishFunctors(l) /\ l = Main =>
            \A m \in Loops : LoopGone(m)' => LoopGone(m)
      BY <1>b DEF FinishFunctors, LoopGone
    <3>3. FinishFunctors(l) /\ l # Main /\ ~quit_[l] =>
            \A m \in Loops : LoopGone(m)' => LoopGone(m)
      BY <1>b DEF FinishFunctors, LoopGone
    <3>4. FinishFunctors(l) /\ l # Main /\ quit_[l] =>
            /\ functors'[l] = <<>> /\ pendingFunctors_'[l] = <<>>
            /\ \A m \in Loops \ {l} : LoopGone(m)' => LoopGone(m)
      BY <1>b DEF FinishFunctors, LoopGone, TypeOK
    <3>5. functors'[l] = <<>> /\ pendingFunctors_'[l] = <<>>
            => FunctorsOf(l)' = {}
      BY DEF FunctorsOf, Elements
    <3>. QED
      BY <1>11, <3>1, <3>2, <3>3, <3>4, <3>5
  <2>3. /\ UNCHANGED <<nextConnId_, connections_, conn, active>>
    BY <1>11 DEF SwapFunctors, FinishFunctors
  <2>4. FunctorsAtHome'
    BY <1>a, <2>1, <2>2, <2>3, HomeKept
  <2>5. Fresh'
    BY <1>a, <2>1, <2>3, FreshKept
  <2>6. Reported'
    BY <1>a, <2>3 DEF Reported
  <2>. QED
    BY <1>a, <2>4, <2>5, <2>6 DEF HomeInv
<1>12. CASE DestroyMainLoop
  <2>1. \A m \in Loops : FunctorsOf(m)' \subseteq FunctorsOf(m)
    BY <1>12, LoopAddsNothing
  <2>2. FunctorsOf(Main)' = {}
    <3>1. phase[Main] = "left"
      BY <1>12, <1>a DEF DestroyMainLoop, Life
    <3>2. functors[Main] = <<>>
      BY <1>b, <3>1 DEF TypeOK
    <3>3. functors'[Main] = <<>> /\ pendingFunctors_'[Main] = <<>>
      BY <1>12, <1>b, <3>2 DEF DestroyMainLoop, TypeOK
    <3>. QED
      BY <3>3 DEF FunctorsOf, Elements
  <2>3. \A m \in Loops : LoopGone(m)' => LoopGone(m) \/ FunctorsOf(m)' = {}
    BY <1>12, <2>2 DEF DestroyMainLoop, LoopGone
  <2>4. FunctorsAtHome'
    BY <1>12, <1>a, <2>1, <2>3, HomeKept DEF DestroyMainLoop
  <2>5. Fresh'
    BY <1>12, <1>a, <2>1, FreshKept DEF DestroyMainLoop
  <2>6. Reported'
    BY <1>12, <1>a DEF DestroyMainLoop, Reported
  <2>. QED
    BY <1>a, <2>4, <2>5, <2>6 DEF HomeInv
<1>13. ASSUME NEW l \in Loops, NEW run, NEW c, Run(l, run, c)
       PROVE  /\ [run |-> run, conn |-> c] \in FunctorsOf(l)
              /\ ~(c >= nextConnId_)
              /\ active[l] = {}
              /\ run # "removeConnectionInLoop" => conn[c].loop = l
  <2>1. ran[l] + 1 \in DOMAIN functors[l]
    BY <1>13 DEF Run, TypeOK
  <2>2. [run |-> run, conn |-> c] \in FunctorsOf(l)
    BY <1>13, <2>1 DEF Run, FunctorsOf, Elements
  <2>3. c \in Conns
    BY <2>2, FunctorTypes
  <2>. QED
    BY <1>13, <1>a, <2>2, <2>3 DEF Run, TypeOK, Fresh, FunctorsAtHome
<1>14. ASSUME NEW l \in Loops, NEW c \in Conns,
              ConnectEstablished(l, c) \/ ConnectDestroyed(l, c)
       PROVE  HomeInv'
  <2>1. ~(c >= nextConnId_) /\ active[l] = {} /\ conn[c].loop = l
    <3>1. /\ "connectEstablished" # "removeConnectionInLoop"
          /\ "connectDestroyed" # "removeConnectionInLoop"
      OBVIOUS
    <3>2. Run(l, "connectEstablished", c) \/ Run(l, "connectDestroyed", c)
      BY <1>14 DEF ConnectEstablished, ConnectDestroyed
    <3>. QED
      BY <1>13, <3>1, <3>2
  <2>2. UNCHANGED <<nextConnId_, connections_, pendingFunctors_, functors,
                    active, phase, server>>
    BY <1>14 DEF ConnectEstablished, ConnectDestroyed, Run
  <2>3. /\ \A d \in Conns : conn'[d].loop = conn[d].loop
        /\ \A d \in Conns \ {c} : conn'[d] = conn[d]
    BY <1>14, <1>b, <1>d DEF ConnectEstablished, ConnectDestroyed
  <2>4. \A m \in Loops : FunctorsOf(m)' \subseteq FunctorsOf(m)
    BY <2>2, LoopAddsNothing
  <2>5. FunctorsAtHome'
    BY <1>a, <2>2, <2>3, <2>4, HomeKept DEF LoopGone
  <2>6. Fresh'
    BY <1>a, <2>1, <2>2, <2>3, <2>4, FreshKept
  <2>7. Reported'
    BY <1>a, <2>1, <2>2, <2>3 DEF Reported
  <2>. QED
    BY <1>a, <2>5, <2>6, <2>7 DEF HomeInv
<1>15. ASSUME NEW l \in Loops, NEW c \in Conns, ~(c >= nextConnId_),
              Push(l, "connectDestroyed", c), l = conn[c].loop,
              UNCHANGED <<nextConnId_, conn, functors, active, phase, server>>,
              connections_' \subseteq connections_, ~LoopGone(l)
       PROVE  HomeInv'
  <2>1. \A m \in Loops : \A f \in FunctorsOf(m)' :
          \/ f \in FunctorsOf(m)
          \/ m = l /\ f = [run |-> "connectDestroyed", conn |-> c]
    BY <1>15, PushAdds DEF Runs
  <2>2. FunctorsAtHome'
    BY <1>15, <1>a, <2>1, HomePushed DEF Runs, LoopGone
  <2>3. Fresh'
    BY <1>15, <1>a, <2>1, FreshKept
  <2>4. Reported'
    BY <1>15, <1>a DEF Reported
  <2>. QED
    BY <1>a, <2>2, <2>3, <2>4 DEF HomeInv
<1>16. ASSUME NEW c \in Conns, RemoveConnectionInLoop(c) PROVE HomeInv'
  <2>1. ~(c >= nextConnId_)
    BY <1>13, <1>16, <1>b DEF RemoveConnectionInLoop
  <2>2. ~LoopGone(conn[c].loop)
    BY <1>16, <1>a, <1>b, <1>c DEF RemoveConnectionInLoop, Run, LoopGone, Life
  <2>. QED
    BY <1>15, <1>16, <1>c, <2>1, <2>2 DEF RemoveConnectionInLoop, Run
<1>17. ASSUME NEW c \in Conns, DestroyItem(c) PROVE HomeInv'
  <2>1. ~(c >= nextConnId_)
    BY <1>17, <1>a DEF DestroyItem, Fresh
  <2>2. CASE conn[c].loop # Main
    <3>1. ~LoopGone(conn[c].loop)
      BY <1>17, <1>a, <1>c, <2>2 DEF DestroyItem, LoopGone, Life
    <3>. QED
      BY <1>15, <1>17, <1>c, <2>1, <2>2, <3>1 DEF DestroyItem
  <2>3. CASE conn[c].loop = Main
    <3>1. active[Main] = {}
      BY <1>17, <1>a, <1>b DEF DestroyItem, Life, TypeOK
    <3>2. UNCHANGED <<nextConnId_, pendingFunctors_, functors, active, phase,
                      server>>
      BY <1>17, <2>3 DEF DestroyItem
    <3>3. /\ \A d \in Conns : conn'[d].loop = conn[d].loop
          /\ \A d \in Conns \ {c} : conn'[d] = conn[d]
      BY <1>17, <1>b, <1>d, <2>3 DEF DestroyItem
    <3>4. \A m \in Loops : FunctorsOf(m)' \subseteq FunctorsOf(m)
      BY <3>2, LoopAddsNothing
    <3>5. FunctorsAtHome'
      BY <1>a, <3>2, <3>3, <3>4, HomeKept DEF LoopGone
    <3>6. Fresh'
      BY <1>17, <1>a, <2>1, <3>2, <3>3, <3>4, FreshKept DEF DestroyItem
    <3>7. Reported'
      BY <1>a, <2>3, <3>1, <3>2, <3>3 DEF Reported
    <3>. QED
      BY <1>a, <3>5, <3>6, <3>7 DEF HomeInv
  <2>. QED
    BY <2>2, <2>3
<1>18. CASE Accept
  <2>. DEFINE c == nextConnId_
  <2>1. c \in Conns /\ NextLoop \in Loops
    BY <1>18, MaxConnsAssumption, NextLoopType DEF Accept, TypeOK, Conns
  <2>2. /\ \A m \in Loops : \A f \in FunctorsOf(m) : f.conn # c
        /\ \A m \in Loops : c \notin active[m]
    BY <1>a, <1>e, <2>1 DEF Fresh, Reported
  <2>3. \A d \in Conns \ {c} : conn'[d] = conn[d]
    BY <1>18, <1>b, <2>1 DEF Accept
  <2>4. \A m \in Loops : \A f \in FunctorsOf(m) :
          conn'[f.conn].loop = conn[f.conn].loop
    BY <2>2, <2>3, FunctorTypes
  <2>5. PICK l \in Loops : l = NextLoop
    BY <2>1
  <2>6. ~LoopGone(l)' /\ \A m \in Loops : LoopGone(m)' => LoopGone(m)
    BY <1>18, <1>a, <2>5 DEF Accept, Handle, LoopGone, Life
  <2>. DEFINE Goal == /\ FunctorsAtHome'
                      /\ \A m \in Loops : \A f \in FunctorsOf(m)' :
                           f \in FunctorsOf(m) \/ f.conn = c
  <2>7. ASSUME l # Main PROVE Goal
    <3>1. \A m \in Loops : \A f \in FunctorsOf(m)' :
            \/ f \in FunctorsOf(m)
            \/ m = l /\ f = [run |-> "connectEstablished", conn |-> c]
      BY <1>18, <2>1, <2>5, <2>7, PushAdds DEF Accept, Runs
    <3>2. conn'[c].loop = l
      BY <1>18, <1>b, <2>1, <2>5, <2>7, NoConnectionType DEF Accept
    <3>3. FunctorsAtHome'
      BY <1>a, <2>1, <2>4, <2>6, <3>1, <3>2, HomePushed DEF Runs
    <3>. QED
      BY <3>1, <3>3
  <2>8. ASSUME l = Main PROVE Goal
    <3>1. \A m \in Loops : FunctorsOf(m)' \subseteq FunctorsOf(m)
      BY <1>18, <2>5, <2>8, LoopAddsNothing DEF Accept
    <3>2. FunctorsAtHome'
      BY <1>a, <2>4, <2>6, <3>1 DEF FunctorsAtHome
    <3>. QED
      BY <3>1, <3>2
  <2>9. Goal
    BY <2>7, <2>8
  <2>10. Fresh'
    <3>1. /\ nextConnId_' = c + 1 /\ connections_' = connections_ \cup {c}
      BY <1>18 DEF Accept
    <3>. QED
      BY <1>a, <1>e, <2>3, <2>9, <3>1 DEF Fresh
  <2>11. Reported'
    BY <1>18, <1>a, <1>b, <2>2, <2>3 DEF Accept, Handle, Reported
  <2>. QED
    BY <1>a, <2>9, <2>10, <2>11 DEF HomeInv
<1>. QED
  BY <1>2, <1>3, <1>4, <1>5, <1>6, <1>7, <1>8, <1>9, <1>10, <1>11, <1>12,
     <1>14, <1>16, <1>17, <1>18
  DEF Next, Environment, MainStep, DestructorStep, LoopStep

\* FunctorsAtHome holds for any number of threads and connections: who
\* touches a connection, and connections_, is decided by what is queued where.
THEOREM ServerFunctorsAtHome == Spec => []FunctorsAtHome
<1>1. Init => TypeOK /\ HomeInv
  BY TypeInit, HomeInit
<1>2. TypeOK /\ HomeInv /\ [Next]_vars => TypeOK' /\ HomeInv'
  BY TypeStep, HomeStep
<1>3. HomeInv => FunctorsAtHome
  BY DEF HomeInv
<1>. QED
  BY <1>1, <1>2, <1>3, PTL DEF Spec

-----------------------------------------------------------------------------
(***************************************************************************)
(* The functors a loop has yet to run, as one queue: the rest r.. of the   *)
(* vector f, then p.                                                       *)
(***************************************************************************)
QueueLen(f, r, p) == Len(f) - r + Len(p)
QueueAt(f, r, p, i) == IF i <= Len(f) - r THEN f[r + i] ELSE p[i - (Len(f) - r)]

LEMMA QueueElements ==
  ASSUME NEW S, NEW f \in Seq(S), NEW p \in Seq(S), NEW r \in Nat, r <= Len(f)
  PROVE  /\ QueueLen(f, r, p) \in Nat
         /\ \A i \in 1 .. QueueLen(f, r, p) :
              QueueAt(f, r, p, i) \in Elements(f) \cup Elements(p)
<1>1. Len(f) \in Nat /\ Len(p) \in Nat
  OBVIOUS
<1>2. ASSUME NEW i \in 1 .. QueueLen(f, r, p)
      PROVE  QueueAt(f, r, p, i) \in Elements(f) \cup Elements(p)
  <2>1. CASE i <= Len(f) - r
    <3>1. r + i \in DOMAIN f
      BY <1>1, <2>1
    <3>. QED
      BY <2>1, <3>1 DEF QueueAt, Elements
  <2>2. CASE ~(i <= Len(f) - r)
    <3>1. i - (Len(f) - r) \in DOMAIN p
      BY <1>1, <2>2 DEF QueueLen
    <3>. QED
      BY <2>2, <3>1 DEF QueueAt, Elements
  <2>. QED
    BY <2>1, <2>2
<1>. QED
  BY <1>1, <1>2 DEF QueueLen

LEMMA QueueAppend ==
  ASSUME NEW S, NEW f \in Seq(S), NEW p \in Seq(S), NEW r \in Nat, r <= Len(f),
         NEW x \in S
  PROVE  /\ QueueLen(f, r, Append(p, x)) = QueueLen(f, r, p) + 1
         /\ \A i \in 1 .. QueueLen(f, r, p) + 1 :
              QueueAt(f, r, Append(p, x), i) =
                IF i = QueueLen(f, r, p) + 1 THEN x ELSE QueueAt(f, r, p, i)
<1>1. Len(f) \in Nat /\ Len(p) \in Nat
  OBVIOUS
<1>2. /\ Len(Append(p, x)) = Len(p) + 1
      /\ \A k \in 1 .. Len(p) : Append(p, x)[k] = p[k]
      /\ Append(p, x)[Len(p) + 1] = x
  OBVIOUS
<1>3. ASSUME NEW i \in 1 .. QueueLen(f, r, p) + 1
      PROVE  QueueAt(f, r, Append(p, x), i) =
               IF i = QueueLen(f, r, p) + 1 THEN x ELSE QueueAt(f, r, p, i)
  <2>1. CASE i <= Len(f) - r
    BY <1>1, <2>1 DEF QueueAt, QueueLen
  <2>2. CASE i = QueueLen(f, r, p) + 1
    BY <1>1, <1>2, <2>2 DEF QueueAt, QueueLen
  <2>3. CASE ~(i <= Len(f) - r) /\ i # QueueLen(f, r, p) + 1
    <3>1. i - (Len(f) - r) \in 1 .. Len(p)
      BY <1>1, <2>3 DEF QueueLen
    <3>. QED
      BY <1>2, <2>3, <3>1 DEF QueueAt
  <2>. QED
    BY <2>1, <2>2, <2>3
<1>. QED
  BY <1>1, <1>2, <1>3 DEF QueueLen

LEMMA QueueRun ==
  ASSUME NEW S, NEW f \in Seq(S), NEW p \in Seq(S), NEW r \in Nat, r < Len(f)
  PROVE  /\ QueueLen(f, r, p) >= 1 /\ QueueAt(f, r, p, 1) = f[r + 1]
         /\ QueueLen(f, r + 1, p) = QueueLen(f, r, p) - 1
         /\ \A i \in 1 .. QueueLen(f, r, p) - 1 :
              QueueAt(f, r + 1, p, i) = QueueAt(f, r, p, i + 1)
<1>1. Len(f) \in Nat /\ Len(p) \in Nat
  OBVIOUS
<1>2. ASSUME NEW i \in 1 .. QueueLen(f, r, p) - 1
      PROVE  QueueAt(f, r + 1, p, i) = QueueAt(f, r, p, i + 1)
  <2>. DEFINE n == Len(f)
  <2>1. i \in Int /\ n \in Int /\ r \in Int
    BY <1>1 DEF QueueLen
  <2>. HIDE DEF n
  <2>2. /\ (r + 1) + i = r + (i + 1)
        /\ i - (n - (r + 1)) = (i + 1) - (n - r)
        /\ (i <= n - (r + 1)) <=> (i + 1 <= n - r)
    BY <2>1
  <2>. QED
    BY <2>2 DEF QueueAt, n
<1>. QED
  BY <1>1, <1>2 DEF QueueLen, QueueAt

LEMMA QueueSwap ==
  ASSUME NEW S, NEW p \in Seq(S)
  PROVE  /\ QueueLen(p, 0, <<>>) = QueueLen(<<>>, 0, p)
         /\ \A i \in 1 .. QueueLen(<<>>, 0, p) :
              QueueAt(p, 0, <<>>, i) = QueueAt(<<>>, 0, p, i)
<1>1. Len(p) \in Nat /\ Len(<<>>) = 0
  OBVIOUS
<1>2. QueueLen(<<>>, 0, p) = Len(p) /\ QueueLen(p, 0, <<>>) = Len(p)
  BY <1>1 DEF QueueLen
<1>3. ASSUME NEW i \in 1 .. Len(p)
      PROVE  QueueAt(p, 0, <<>>, i) = p[i] /\ QueueAt(<<>>, 0, p, i) = p[i]
  BY <1>1 DEF QueueAt
<1>. QED
  BY <1>2, <1>3

LEMMA QueueFinish ==
  ASSUME NEW S, NEW f \in Seq(S), NEW p \in Seq(S)
  PROVE  /\ QueueLen(<<>>, 0, p) = QueueLen(f, Len(f), p)
         /\ \A i \in 1 .. QueueLen(f, Len(f), p) :
              QueueAt(<<>>, 0, p, i) = QueueAt(f, Len(f), p, i)
         /\ QueueLen(<<>>, 0, <<>>) = 0
<1>1. Len(p) \in Nat /\ Len(f) \in Nat /\ Len(<<>>) = 0
  OBVIOUS
<1>2. /\ QueueLen(<<>>, 0, p) = Len(p) /\ QueueLen(f, Len(f), p) = Len(p)
      /\ QueueLen(<<>>, 0, <<>>) = 0
  BY <1>1 DEF QueueLen
<1>3. ASSUME NEW i \in 1 .. Len(p)
      PROVE  QueueAt(f, Len(f), p, i) = p[i] /\ QueueAt(<<>>, 0, p, i) = p[i]
  BY <1>1 DEF QueueAt
<1>. QED
  BY <1>2, <1>3

\* The queue of loop l, and the functors it may hold.
Waits(l) == QueueLen(functors[l], ran[l], pendingFunctors_[l])
Nth(l, i) == QueueAt(functors[l], ran[l], pendingFunctors_[l], i)
Has(l, x) == \E i \in 1 .. Waits(l) : Nth(l, i) = x

E(c) == [run |-> "connectEstablished", conn |-> c]
D(c) == [run |-> "connectDestroyed", conn |-> c]
R(c) == [run |-> "removeConnectionInLoop", conn |-> c]

\* connectEstablished is queued once, and before any connectDestroyed.
Before(l, c) ==
  \A i, j \in 1 .. Waits(l) : Nth(l, i) = E(c) =>
    /\ Nth(l, j) = E(c) => j = i
    /\ Nth(l, j) = D(c) => j > i

\* A step takes k functors from the front of a queue and adds x at its end
\* if a = 1.
Moves(l, k, a, x) ==
  /\ k <= Waits(l) /\ Waits(l)' = Waits(l) - k + a
  /\ \A i \in 1 .. Waits(l) - k : Nth(l, i)' = Nth(l, i + k)
  /\ \A i \in 1 .. Waits(l)' : a = 1 /\ i = Waits(l) - k + 1 => Nth(l, i)' = x

LEMMA WaitsType ==
  ASSUME TypeOK, NEW l \in Loops
  PROVE  /\ Waits(l) \in Nat
         /\ \A x : Has(l, x) => x \in FunctorsOf(l)
<1>1. /\ functors[l] \in Seq(Functors) /\ pendingFunctors_[l] \in Seq(Functors)
      /\ ran[l] \in Nat /\ ran[l] <= Len(functors[l])
  BY DEF TypeOK
<1>2. /\ Waits(l) \in Nat
      /\ \A i \in 1 .. Waits(l) :
           Nth(l, i) \in Elements(functors[l]) \cup Elements(pendingFunctors_[l])
  BY <1>1, QueueElements DEF Waits, Nth
<1>. QED
  BY <1>2 DEF Has, FunctorsOf

\* What a move leaves of what the queue holds and of its order.
LEMMA MovesLaw ==
  ASSUME TypeOK, NEW l \in Loops, NEW k \in Nat, NEW a \in {0, 1}, NEW x,
         Moves(l, k, a, x)
  PROVE  /\ \A y : Has(l, y)' => Has(l, y) \/ (a = 1 /\ y = x)
         /\ \A y : Has(l, y) => Has(l, y)' \/ \E i \in 1 .. k : Nth(l, i) = y
         /\ a = 1 => Has(l, x)'
<1>1. Waits(l) \in Nat
  BY WaitsType
<1>2. ASSUME NEW y, Has(l, y)' PROVE Has(l, y) \/ (a = 1 /\ y = x)
  <2>1. PICK i \in 1 .. Waits(l)' : Nth(l, i)' = y
    BY <1>2 DEF Has
  <2>2. CASE i \in 1 .. Waits(l) - k
    <3>1. i + k \in 1 .. Waits(l) /\ Nth(l, i + k) = y
      BY <1>1, <2>1, <2>2 DEF Moves
    <3>. QED
      BY <3>1 DEF Has
  <2>3. CASE a = 1 /\ i = Waits(l) - k + 1
    BY <2>1, <2>3 DEF Moves
  <2>. QED
    BY <1>1, <2>1, <2>2, <2>3 DEF Moves
<1>3. ASSUME NEW y, Has(l, y), ~ \E i \in 1 .. k : Nth(l, i) = y
      PROVE  Has(l, y)'
  <2>1. PICK i \in 1 .. Waits(l) : Nth(l, i) = y
    BY <1>3 DEF Has
  <2>2. i - k \in 1 .. Waits(l) - k /\ (i - k) + k = i
    BY <1>1, <1>3, <2>1
  <2>3. PICK j \in 1 .. Waits(l) - k : j + k = i
    BY <2>2
  <2>4. j \in 1 .. Waits(l)' /\ Nth(l, j)' = y
    BY <1>1, <2>1, <2>3 DEF Moves
  <2>. QED
    BY <2>4 DEF Has
<1>4. ASSUME a = 1 PROVE Has(l, x)'
  <2>1. PICK j \in 1 .. Waits(l)' : j = Waits(l) - k + 1
    BY <1>1, <1>4 DEF Moves
  <2>. QED
    BY <1>4, <2>1 DEF Moves, Has
<1>. QED
  BY <1>2, <1>3, <1>4

LEMMA MovesOrder ==
  ASSUME TypeOK, NEW l \in Loops, NEW k \in Nat, NEW a \in {0, 1}, NEW x,
         Moves(l, k, a, x), NEW c, Before(l, c),
         a = 1 /\ x = E(c) => ~Has(l, E(c)) /\ ~Has(l, D(c))
  PROVE  Before(l, c)'
<1>1. Waits(l) \in Nat /\ E(c) # D(c)
  BY WaitsType DEF E, D
<1>. SUFFICES ASSUME NEW i \in 1 .. Waits(l)', NEW j \in 1 .. Waits(l)',
                     Nth(l, i)' = E(c)
              PROVE  /\ Nth(l, j)' = E(c) => j = i
                     /\ Nth(l, j)' = D(c) => j > i
  BY DEF Before
<1>2. \A h \in 1 .. Waits(l)' :
        \/ h \in 1 .. Waits(l) - k /\ h + k \in 1 .. Waits(l)
             /\ Nth(l, h)' = Nth(l, h + k)
        \/ a = 1 /\ h = Waits(l) - k + 1 /\ Nth(l, h)' = x
  BY <1>1 DEF Moves
<1>3. CASE i \in 1 .. Waits(l) - k /\ j \in 1 .. Waits(l) - k
  <2>1. /\ i + k \in 1 .. Waits(l) /\ Nth(l, i)' = Nth(l, i + k)
        /\ j + k \in 1 .. Waits(l) /\ Nth(l, j)' = Nth(l, j + k)
    BY <1>1, <1>3 DEF Moves
  <2>2. /\ Nth(l, j + k) = E(c) => j + k = i + k
        /\ Nth(l, j + k) = D(c) => j + k > i + k
    BY <2>1 DEF Before
  <2>. QED
    BY <1>1, <1>3, <2>1, <2>2
<1>4. CASE i \in 1 .. Waits(l) - k /\ j \notin 1 .. Waits(l) - k
  <2>1. Has(l, E(c))
    BY <1>2, <1>4, <1>1 DEF Has
  <2>2. a = 1 /\ j = Waits(l) - k + 1 /\ Nth(l, j)' = x
    BY <1>2, <1>4
  <2>. QED
    BY <1>1, <1>4, <2>1, <2>2
<1>5. CASE i \notin 1 .. Waits(l) - k /\ j \in 1 .. Waits(l) - k
  <2>1. a = 1 /\ x = E(c)
    BY <1>2, <1>5
  <2>2. Nth(l, j)' = E(c) => Has(l, E(c))
    BY <1>2, <1>5, <1>1 DEF Has
  <2>3. Nth(l, j)' = D(c) => Has(l, D(c))
    BY <1>2, <1>5, <1>1 DEF Has
  <2>. QED
    BY <2>1, <2>2, <2>3
<1>6. CASE i \notin 1 .. Waits(l) - k /\ j \notin 1 .. Waits(l) - k
  <2>1. i = Waits(l) - k + 1 /\ j = Waits(l) - k + 1
    BY <1>2, <1>6
  <2>. QED
    BY <1>1, <2>1
<1>. QED
  BY <1>3, <1>4, <1>5, <1>6

\* The front functor, taken.
LEMMA MovesFront ==
  ASSUME TypeOK, NEW l \in Loops, NEW a \in {0, 1}, NEW x, Moves(l, 1, a, x),
         NEW c, Before(l, c), x # E(c)
  PROVE  /\ Has(l, Nth(l, 1))
         /\ Nth(l, 1) = E(c) => ~Has(l, E(c))'
         /\ Nth(l, 1) = D(c) => ~Has(l, E(c))
<1>1. Waits(l) \in Nat /\ 1 \in 1 .. Waits(l)
  BY WaitsType DEF Moves
<1>2. ASSUME Nth(l, 1) = E(c), Has(l, E(c))' PROVE FALSE
  <2>1. PICK i \in 1 .. Waits(l)' : Nth(l, i)' = E(c)
    BY <1>2 DEF Has
  <2>2. i \in 1 .. Waits(l) - 1
    BY <1>1, <2>1 DEF Moves
  <2>3. i + 1 \in 1 .. Waits(l) /\ Nth(l, i + 1) = E(c) /\ i + 1 # 1
    BY <1>1, <2>1, <2>2 DEF Moves
  <2>. QED
    BY <1>1, <1>2, <2>3 DEF Before
<1>3. ASSUME Nth(l, 1) = D(c), Has(l, E(c)) PROVE FALSE
  <2>1. PICK i \in 1 .. Waits(l) : Nth(l, i) = E(c)
    BY <1>3 DEF Has
  <2>2. 1 > i
    BY <1>1, <1>3, <2>1 DEF Before
  <2>. QED
    BY <2>2
<1>. QED
  BY <1>1, <1>2, <1>3 DEF Has

\* How the steps move a queue.
LEMMA MovesNone ==
  ASSUME TypeOK, NEW l \in Loops, NEW x,
         functors'[l] = functors[l], ran'[l] = ran[l],
         pendingFunctors_'[l] = pendingFunctors_[l]
  PROVE  Moves(l, 0, 0, x)
<1>1. Waits(l) \in Nat
  BY WaitsType
<1>2. Waits(l)' = Waits(l) /\ \A i \in 1 .. Waits(l) : Nth(l, i)' = Nth(l, i)
  BY DEF Waits, Nth
<1>. QED
  BY <1>1, <1>2 DEF Moves

LEMMA MovesPush ==
  ASSUME TypeOK, NEW l \in Loops, NEW x \in Functors,
         functors'[l] = functors[l], ran'[l] = ran[l],
         pendingFunctors_'[l] = Append(pendingFunctors_[l], x)
  PROVE  Moves(l, 0, 1, x)
<1>1. Waits(l) \in Nat
  BY WaitsType
<1>2. /\ functors[l] \in Seq(Functors) /\ pendingFunctors_[l] \in Seq(Functors)
      /\ ran[l] \in Nat /\ ran[l] <= Len(functors[l])
  BY DEF TypeOK
<1>3. /\ Waits(l)' = Waits(l) + 1
      /\ \A i \in 1 .. Waits(l) + 1 :
           Nth(l, i)' = IF i = Waits(l) + 1 THEN x ELSE Nth(l, i)
  BY <1>2, QueueAppend DEF Waits, Nth
<1>4. \A i \in 1 .. Waits(l) : i \in 1 .. Waits(l) + 1 /\ i # Waits(l) + 1
  BY <1>1
<1>. QED
  BY <1>1, <1>3, <1>4 DEF Moves

LEMMA MovesRun ==
  ASSUME TypeOK, NEW l \in Loops, NEW x \in Functors, ran[l] < Len(functors[l]),
         functors'[l] = functors[l], ran'[l] = ran[l] + 1,
         NEW a \in {0, 1},
         pendingFunctors_'[l] = IF a = 1 THEN Append(pendingFunctors_[l], x)
                                         ELSE pendingFunctors_[l]
  PROVE  Moves(l, 1, a, x) /\ Nth(l, 1) = functors[l][ran[l] + 1]
<1>1. Waits(l) \in Nat
  BY WaitsType
<1>2. /\ functors[l] \in Seq(Functors) /\ pendingFunctors_[l] \in Seq(Functors)
      /\ ran[l] \in Nat /\ ran[l] + 1 \in Nat /\ ran[l] + 1 <= Len(functors[l])
  BY DEF TypeOK
<1>. DEFINE W == QueueLen(functors[l], ran[l] + 1, pendingFunctors_[l])
            N(i) == QueueAt(functors[l], ran[l] + 1, pendingFunctors_[l], i)
<1>3. /\ Waits(l) >= 1 /\ Nth(l, 1) = functors[l][ran[l] + 1]
      /\ W = Waits(l) - 1
      /\ \A i \in 1 .. Waits(l) - 1 : N(i) = Nth(l, i + 1)
  BY <1>2, QueueRun DEF Waits, Nth
<1>4. CASE a = 0
  <2>1. Waits(l)' = W /\ \A i \in 1 .. W : Nth(l, i)' = N(i)
    BY <1>4 DEF Waits, Nth
  <2>. QED
    BY <1>1, <1>3, <1>4, <2>1 DEF Moves
<1>5. CASE a = 1
  <2>1. /\ Waits(l)' = W + 1
        /\ \A i \in 1 .. W + 1 : Nth(l, i)' = IF i = W + 1 THEN x ELSE N(i)
    BY <1>2, <1>5, QueueAppend DEF Waits, Nth
  <2>. HIDE DEF W, N
  <2>2. \A i \in 1 .. W : i \in 1 .. W + 1 /\ i # W + 1
    BY <1>1, <1>3
  <2>3. /\ \A i \in 1 .. Waits(l) - 1 : Nth(l, i)' = Nth(l, i + 1)
        /\ \A i \in 1 .. Waits(l)' : i = Waits(l) - 1 + 1 => Nth(l, i)' = x
    BY <1>1, <1>3, <2>1, <2>2
  <2>. QED
    BY <1>1, <1>3, <1>5, <2>1, <2>3 DEF Moves
<1>. QED
  BY <1>3, <1>4, <1>5

LEMMA MovesTurn ==
  ASSUME TypeOK, NEW l \in Loops, SwapFunctors(l) \/ FinishFunctors(l),
         NEW m \in Loops, NEW x
  PROVE  \/ Moves(m, 0, 0, x)
         \/ Waits(m)' = 0 /\ LoopGone(m)'
<1>1. CASE m # l
  BY <1>1, MovesNone DEF SwapFunctors, FinishFunctors, queueVars, TypeOK
<1>2. Waits(l) \in Nat /\ functors[l] \in Seq(Functors)
        /\ pendingFunctors_[l] \in Seq(Functors)
  BY WaitsType DEF TypeOK
<1>3. CASE m = l /\ SwapFunctors(l)
  <2>1. functors[l] = <<>> /\ ran[l] = 0
    <3>1. functors[l] = <<>> /\ ran[l] <= Len(functors[l]) /\ ran[l] \in Nat
      BY <1>3 DEF SwapFunctors, TypeOK
    <3>. QED
      BY <3>1
  <2>2. /\ functors'[l] = pendingFunctors_[l] /\ pendingFunctors_'[l] = <<>>
        /\ ran'[l] = 0
    BY <1>3, <2>1 DEF SwapFunctors, TypeOK
  <2>3. Waits(l)' = Waits(l) /\ \A i \in 1 .. Waits(l) : Nth(l, i)' = Nth(l, i)
    BY <1>2, <2>1, <2>2, QueueSwap DEF Waits, Nth
  <2>. QED
    BY <1>2, <1>3, <2>3 DEF Moves
<1>4. CASE m = l /\ FinishFunctors(l)
  <2>1. /\ ran[l] = Len(functors[l]) /\ functors'[l] = <<>> /\ ran'[l] = 0
        /\ pendingFunctors_'[l] = IF quit_[l] /\ l # Main THEN <<>>
                                  ELSE pendingFunctors_[l]
        /\ phase'[l] = IF quit_[l] THEN "left" ELSE "poll"
    BY <1>4 DEF FinishFunctors, TypeOK
  <2>2. CASE quit_[l] /\ l # Main
    BY <1>2, <1>4, <2>1, <2>2, QueueFinish DEF Waits, LoopGone
  <2>3. CASE ~(quit_[l] /\ l # Main)
    <3>1. Waits(l)' = Waits(l) /\ \A i \in 1 .. Waits(l) : Nth(l, i)' = Nth(l, i)
      BY <1>2, <2>1, <2>3, QueueFinish DEF Waits, Nth
    <3>. QED
      BY <1>2, <1>4, <3>1 DEF Moves
  <2>. QED
    BY <2>2, <2>3
<1>. QED
  BY <1>1, <1>3, <1>4

\* A step that adds x to some queues and runs y from some.
Shift(x, y) ==
  \A m \in Loops : \E k \in {0, 1}, a \in {0, 1} :
    Moves(m, k, a, x) /\ (k = 1 => Nth(m, 1) = y)

LEMMA QueueTypes ==
  ASSUME TypeOK
  PROVE  /\ Main \in Loops /\ conn \in [Conns -> Connection]
         /\ pendingFunctors_ \in [Loops -> Seq(Functors)]
         /\ functors \in [Loops -> Seq(Functors)]
         /\ ran \in [Loops -> Nat]
         /\ \A c \in Conns : /\ conn[c].loop \in Loops /\ R(c) \in Functors
                             /\ E(c) \in Functors /\ D(c) \in Functors
<1>1. Main \in Loops
  BY MaxThreadsAssumption DEF Main, Loops
<1>2. /\ conn \in [Conns -> Connection]
      /\ pendingFunctors_ \in [Loops -> Seq(Functors)]
      /\ functors \in [Loops -> Seq(Functors)]
      /\ ran \in [Loops -> Nat]
  BY DEF TypeOK
<1>3. \A c \in Conns : conn[c].loop \in Loops
  BY <1>2 DEF Connection
<1>4. \A c \in Conns : R(c) \in Functors /\ E(c) \in Functors /\ D(c) \in Functors
  BY DEF R, E, D, Functors, Runs
<1>. QED
  BY <1>1, <1>2, <1>3, <1>4

\* What each operation does to the queues.
LEMMA CloseMoves ==
  ASSUME TypeOK, NEW l \in Loops, NEW c \in Conns, HandleClose(l, c)
  PROVE  Shift(R(c), R(c))
<1>. USE QueueTypes
<1>1. Moves(Main, 0, 1, R(c))
  BY MovesPush DEF HandleClose, Push, R
<1>2. \A m \in Loops \ {Main} : Moves(m, 0, 0, R(c))
  BY MovesNone DEF HandleClose, Push
<1>. QED
  BY <1>1, <1>2 DEF Shift

LEMMA CloseInMainMoves ==
  ASSUME TypeOK, NEW c \in Conns, HandleCloseInMain(c), conn[c].loop = Main
  PROVE  Shift(D(c), E(c)) /\ Has(Main, D(c))'
<1>. USE QueueTypes
<1>1. Moves(Main, 0, 1, D(c))
  BY MovesPush DEF HandleCloseInMain, Push, D
<1>2. \A m \in Loops \ {Main} : Moves(m, 0, 0, D(c))
  BY MovesNone DEF HandleCloseInMain, Push
<1>3. Has(Main, D(c))'
  <2>1. 0 \in Nat /\ 1 \in {0, 1}
    OBVIOUS
  <2>. QED
    BY <1>1, <2>1, MovesLaw
<1>. QED
  BY <1>1, <1>2, <1>3 DEF Shift

\* A functor that is run is the front one.
LEMMA RunMoves ==
  ASSUME TypeOK, NEW l \in Loops, NEW c \in Conns, NEW f \in Functors,
         NEW x \in Functors, f.conn = c, Run(l, f.run, c),
         UNCHANGED pendingFunctors_
  PROVE  Shift(x, f) /\ Moves(l, 1, 0, x) /\ Nth(l, 1) = f
<1>. USE QueueTypes
<1>1. /\ ran[l] < Len(functors[l]) /\ functors' = functors
      /\ ran' = [ran EXCEPT ![l] = @ + 1]
      /\ functors[l][ran[l] + 1] = f
  BY DEF Run, Functors
<1>2. Moves(l, 1, 0, x) /\ Nth(l, 1) = f
  <2>1. 0 \in {0, 1}
    OBVIOUS
  <2>. QED
    BY <1>1, <2>1, MovesRun
<1>3. \A m \in Loops \ {l} : Moves(m, 0, 0, x)
  BY <1>1, MovesNone
<1>. QED
  BY <1>2, <1>3 DEF Shift

LEMMA RemoveMoves ==
  ASSUME TypeOK, NEW c \in Conns, RemoveConnectionInLoop(c)
  PROVE  /\ Shift(D(c), R(c)) /\ Has(conn[c].loop, D(c))'
         /\ \E a \in {0, 1} : Moves(Main, 1, a, D(c)) /\ Nth(Main, 1) = R(c)
<1>. USE QueueTypes
<1>1. PICK l \in Loops : l = conn[c].loop
  OBVIOUS
<1>2. /\ ran[Main] < Len(functors[Main]) /\ functors' = functors
      /\ ran' = [ran EXCEPT ![Main] = @ + 1]
      /\ functors[Main][ran[Main] + 1] = R(c)
      /\ pendingFunctors_' = [pendingFunctors_ EXCEPT ![l] = Append(@, D(c))]
      /\ conn' = conn /\ 0 \in {0, 1} /\ 1 \in {0, 1}
  BY <1>1 DEF RemoveConnectionInLoop, Run, Push, R, D
<1>3. CASE l = Main
  <2>1. Moves(Main, 1, 1, D(c)) /\ Nth(Main, 1) = R(c)
    BY <1>2, <1>3, MovesRun
  <2>2. \A m \in Loops \ {Main} : Moves(m, 0, 0, D(c))
    BY <1>2, <1>3, MovesNone
  <2>3. Has(l, D(c))'
    <3>1. 1 \in Nat
      OBVIOUS
    <3>. QED
      BY <1>2, <1>3, <2>1, <3>1, MovesLaw
  <2>4. Shift(D(c), R(c))
    BY <2>1, <2>2 DEF Shift
  <2>5. \E a \in {0, 1} : Moves(Main, 1, a, D(c)) /\ Nth(Main, 1) = R(c)
    BY <1>2, <2>1
  <2>. QED
    BY <1>1, <1>2, <2>3, <2>4, <2>5
<1>4. CASE l # Main
  <2>1. Moves(Main, 1, 0, D(c)) /\ Nth(Main, 1) = R(c)
    BY <1>2, <1>4, MovesRun
  <2>2. Moves(l, 0, 1, D(c))
    BY <1>2, <1>4, MovesPush
  <2>3. \A m \in Loops \ {Main, l} : Moves(m, 0, 0, D(c))
    BY <1>2, <1>4, MovesNone
  <2>4. Has(l, D(c))'
    <3>1. 0 \in Nat
      OBVIOUS
    <3>. QED
      BY <1>2, <2>2, <3>1, MovesLaw
  <2>5. Shift(D(c), R(c))
    <3>. SUFFICES ASSUME NEW m \in Loops
                  PROVE  \E k \in {0, 1}, a \in {0, 1} :
                           Moves(m, k, a, D(c)) /\ (k = 1 => Nth(m, 1) = R(c))
      BY DEF Shift
    <3>1. CASE m = Main
      BY <1>2, <2>1, <3>1
    <3>2. CASE m # Main
      <4>1. \E a \in {0, 1} : Moves(m, 0, a, D(c))
        BY <1>2, <2>2, <2>3, <3>2
      <4>. QED
        BY <1>2, <4>1
    <3>. QED
      BY <3>1, <3>2
  <2>6. \E a \in {0, 1} : Moves(Main, 1, a, D(c)) /\ Nth(Main, 1) = R(c)
    BY <1>2, <2>1
  <2>. QED
    BY <1>1, <1>2, <2>4, <2>5, <2>6
<1>. QED
  BY <1>3, <1>4

LEMMA DestroyItemMoves ==
  ASSUME TypeOK, NEW c \in Conns, DestroyItem(c)
  PROVE  /\ Shift(D(c), E(c))
         /\ IF conn[c].loop = Main THEN \A m \in Loops : Moves(m, 0, 0, D(c))
                                   ELSE Has(conn[c].loop, D(c))'
<1>. USE QueueTypes
<1>1. PICK l \in Loops : l = conn[c].loop
  OBVIOUS
<1>2. functors' = functors /\ ran' = ran
  BY DEF DestroyItem
<1>3. CASE l = Main
  <2>1. \A m \in Loops : Moves(m, 0, 0, D(c))
    BY <1>1, <1>2, <1>3, MovesNone DEF DestroyItem
  <2>. QED
    BY <1>1, <1>3, <2>1 DEF Shift
<1>4. CASE l # Main
  <2>0. conn[c].loop # Main
    BY <1>1, <1>4
  <2>1. pendingFunctors_' = [pendingFunctors_ EXCEPT ![l] = Append(@, D(c))]
    BY <1>1, <1>4 DEF DestroyItem, Push, D
  <2>2. Moves(l, 0, 1, D(c))
    BY <1>2, <2>1, MovesPush
  <2>3. \A m \in Loops \ {l} : Moves(m, 0, 0, D(c))
    BY <1>2, <2>1, MovesNone
  <2>4. Has(l, D(c))'
    <3>1. 0 \in Nat /\ 1 \in {0, 1}
      OBVIOUS
    <3>. QED
      BY <2>2, <3>1, MovesLaw
  <2>5. Shift(D(c), E(c))
    BY <2>2, <2>3 DEF Shift
  <2>6. Has(conn[c].loop, D(c))'
    <3>1. conn' = conn
      BY <2>0 DEF DestroyItem
    <3>. QED
      BY <1>1, <2>4, <3>1
  <2>. QED
    BY <2>0, <2>5, <2>6
<1>. QED
  BY <1>3, <1>4

LEMMA AcceptMoves ==
  ASSUME TypeOK, Accept, NEW c \in Conns, c = nextConnId_
  PROVE  /\ Shift(E(c), E(c))
         /\ \A m \in Loops :
              Moves(m, 0, IF m = NextLoop /\ m # Main THEN 1 ELSE 0, E(c))
<1>. USE QueueTypes
<1>1. PICK l \in Loops : l = NextLoop
  BY NextLoopType
<1>2. /\ functors' = functors /\ ran' = ran
      /\ l = Main => pendingFunctors_' = pendingFunctors_
      /\ l # Main => pendingFunctors_' =
                       [pendingFunctors_ EXCEPT ![l] = Append(@, E(c))]
  BY <1>1 DEF Accept, Push, E
<1>3. \A m \in Loops :
        Moves(m, 0, IF m = NextLoop /\ m # Main THEN 1 ELSE 0, E(c))
  <2>1. l # Main => Moves(l, 0, 1, E(c))
    BY <1>2, MovesPush
  <2>2. \A m \in Loops : m # l \/ l = Main => Moves(m, 0, 0, E(c))
    BY <1>2, MovesNone
  <2>. QED
    BY <1>1, <2>1, <2>2
<1>4. \A m \in Loops : (IF m = NextLoop /\ m # Main THEN 1 ELSE 0) \in {0, 1}
  OBVIOUS
<1>5. Shift(E(c), E(c))
  <2>. SUFFICES ASSUME NEW m \in Loops
                PROVE  \E k \in {0, 1}, a \in {0, 1} :
                         Moves(m, k, a, E(c)) /\ (k = 1 => Nth(m, 1) = E(c))
    BY DEF Shift
  <2>1. \E a \in {0, 1} : Moves(m, 0, a, E(c))
    BY <1>3, <1>4
  <2>. QED
    BY <2>1
<1>. QED
  BY <1>3, <1>5

\* Where the functors of connection c may be.
LEMMA QueueHome ==
  ASSUME TypeOK, FunctorsAtHome, Fresh, NEW m \in Loops, NEW c \in Conns
  PROVE  /\ Has(m, D(c)) => m = conn[c].loop /\ ~(c >= nextConnId_)
         /\ Has(m, E(c)) => m = conn[c].loop /\ ~(c >= nextConnId_)
         /\ Has(m, R(c)) => m = Main /\ ~(c >= nextConnId_)
<1>. SUFFICES ASSUME NEW f \in {D(c), E(c), R(c)}, Has(m, f)
              PROVE  /\ f # R(c) => m = conn[c].loop
                     /\ f = R(c) => m = Main
                     /\ ~(c >= nextConnId_)
  BY DEF D, E, R
<1>1. /\ f \in FunctorsOf(m) /\ f.conn = c
      /\ f = R(c) <=> f.run = "removeConnectionInLoop"
  BY WaitsType DEF D, E, R
<1>. QED
  BY <1>1 DEF FunctorsAtHome, Fresh

LEMMA MainLoopEmptied ==
  ASSUME TypeOK, Life, DestroyMainLoop
  PROVE  Waits(Main)' = 0 /\ LoopGone(Main)'
<1>1. functors[Main] = <<>> /\ ran[Main] = 0
  <2>1. phase[Main] = "left" /\ Main \in Loops
    BY QueueTypes DEF DestroyMainLoop, Life
  <2>2. functors[Main] = <<>> /\ ran[Main] <= Len(functors[Main])
          /\ ran[Main] \in Nat
    BY <2>1 DEF TypeOK
  <2>. QED
    BY <2>2
<1>. QED
  BY <1>1, QueueTypes DEF DestroyMainLoop, Waits, QueueLen, LoopGone, queueVars

-----------------------------------------------------------------------------
(***************************************************************************)
(* A connection's line: connectEstablished comes first, and as long as the *)
(* connection may be in a poller connectDestroyed is still to come.        *)
(***************************************************************************)
Line(d) ==
  \A l \in Loops :
    /\ Before(l, d)
    /\ Has(l, E(d)) =>
         /\ l # Main /\ conn[d].state_ = "kConnecting"
         /\ d \in connections_ \/ Has(l, D(d))
    /\ conn[d].loop = l /\ conn[d].index_ # "kNew" /\ ~LoopGone(l) =>
         d \in connections_ \/ Has(l, D(d))

\* What has been said fits the state.
Told(d) ==
  /\ conn[d].index_ = "kAdded" => conn[d].state_ \in {"kConnected", "kDisconnecting"}
  /\ conn[d].state_ = "kConnecting" =>
       conn[d].told = <<>> /\ conn[d].index_ = "kNew"
  /\ conn[d].state_ \in {"kConnected", "kDisconnecting"} => conn[d].told = <<"up">>

LiveInv == \A d \in Conns : Line(d) /\ Told(d)

LEMMA LineKept ==
  ASSUME NEW d \in Conns, Line(d), conn'[d].loop = conn[d].loop,
         conn'[d].state_ = conn[d].state_ \/ conn[d].state_ # "kConnecting",
         conn'[d].index_ # "kNew" => conn[d].index_ # "kNew",
         \A m \in Loops :
           /\ LoopGone(m) => LoopGone(m)'
           /\ Before(m, d)'
           /\ Has(m, E(d))' => Has(m, E(d))
           /\ d \in connections_ \/ Has(m, D(d)) =>
                \/ d \in connections_' \/ Has(m, D(d))'
                \/ /\ ~Has(m, E(d))'
                   /\ \/ conn[d].loop # m \/ LoopGone(m)'
                      \/ conn'[d].index_ = "kNew"
  PROVE  Line(d)'
<1>. SUFFICES ASSUME NEW l \in Loops
              PROVE  /\ Has(l, E(d))' =>
                          /\ l # Main /\ conn'[d].state_ = "kConnecting"
                          /\ d \in connections_' \/ Has(l, D(d))'
                     /\ conn'[d].loop = l /\ conn'[d].index_ # "kNew"
                          /\ ~LoopGone(l)' =>
                          d \in connections_' \/ Has(l, D(d))'
  BY DEF Line
<1>1. /\ Has(l, E(d)) =>
           /\ l # Main /\ conn[d].state_ = "kConnecting"
           /\ d \in connections_ \/ Has(l, D(d))
      /\ conn[d].loop = l /\ conn[d].index_ # "kNew" /\ ~LoopGone(l) =>
           d \in connections_ \/ Has(l, D(d))
  BY DEF Line
<1>. QED
  BY <1>1

LEMMA GoneStays ==
  ASSUME TypeOK, Life, [Next]_vars, NEW m \in Loops, LoopGone(m)
  PROVE  LoopGone(m)'
<1>. USE MaxThreadsAssumption
     DEF setupVars, acceptVars, connVars, queueVars, loopVars,
         destructVars
<1>1. Main \in Loops /\ phase \in [Loops -> InLoop \cup {"outside", "left"}]
        /\ (started_ = 0 => \A l \in Loops : phase[l] = "outside")
  BY DEF TypeOK, Main, Loops
<1>2. CASE m = Main
  <2>1. server = "over"
    BY <1>2 DEF LoopGone
  <2>2. ASSUME NEW l \in Loops, LoopStep(l) PROVE server' = "over"
    BY <2>1, <2>2 DEF LoopStep, EnterLoop, PollReturn, SwapFunctors,
      FinishFunctors, HandleClose, ConnectEstablished, ConnectDestroyed, Run
  <2>3. ASSUME Environment \/ MainStep PROVE server' = "over"
    BY <2>1, <2>3 DEF Environment, MainStep, SetThreadNum, Start,
      ClientConnects, QuitMain, Destroy, PeerCloses, Shutdown, Accept,
      AcceptFails, HandleCloseInMain, RemoveConnectionInLoop, Run
  <2>4. ~DestructorStep
    BY <2>1 DEF DestructorStep, DestroyItem, QuitThread, EndsNext,
      DestroyAcceptor, DestroyMainLoop
  <2>5. server' = "over"
    BY <2>1, <2>2, <2>3, <2>4 DEF Next, vars
  <2>. QED
    BY <1>2, <2>5 DEF LoopGone
<1>3. CASE m # Main
  <2>1. phase[m] = "left"
    BY <1>3 DEF LoopGone
  <2>2. ASSUME NEW l \in Loops, LoopStep(l) PROVE phase'[m] = "left"
    <3>1. ASSUME \/ EnterLoop(l) \/ PollReturn(l) \/ SwapFunctors(l)
                 \/ FinishFunctors(l)
          PROVE  phase'[m] = "left"
      BY <1>1, <2>1, <3>1 DEF EnterLoop, PollReturn, SwapFunctors,
                              FinishFunctors
    <3>2. ASSUME NEW c \in Conns,
                 \/ HandleClose(l, c) \/ ConnectEstablished(l, c)
                 \/ ConnectDestroyed(l, c)
          PROVE  phase'[m] = "left"
      BY <2>1, <3>2 DEF HandleClose, ConnectEstablished, ConnectDestroyed, Run
    <3>. QED
      BY <2>2, <3>1, <3>2 DEF LoopStep
  <2>3. ASSUME UNCHANGED phase PROVE phase'[m] = "left"
    BY <2>1, <2>3
  <2>. QED
    BY <1>3, <2>2, <2>3 DEF Next, Environment, MainStep, DestructorStep, vars,
      LoopGone, SetThreadNum, Start, ClientConnects, QuitMain, Destroy,
      PeerCloses, Shutdown, Accept, AcceptFails, HandleCloseInMain,
      RemoveConnectionInLoop, DestroyItem, QuitThread, DestroyAcceptor,
      DestroyMainLoop, Run
<1>. QED
  BY <1>2, <1>3

\* A step that changes the queues by moves that put no connectEstablished in.
LEMMA LineMoves ==
  ASSUME TypeOK, NEW d \in Conns, Line(d), NEW x, NEW y, x # E(d),
         Shift(x, y)
  PROVE  \A m \in Loops :
           /\ Before(m, d)'
           /\ Has(m, E(d))' => Has(m, E(d))
           /\ Has(m, D(d)) =>
                Has(m, D(d))' \/ (y = D(d) /\ ~Has(m, E(d)))
<1>. SUFFICES ASSUME NEW m \in Loops
              PROVE  /\ Before(m, d)'
                     /\ Has(m, E(d))' => Has(m, E(d))
                     /\ Has(m, D(d)) =>
                          Has(m, D(d))' \/ (y = D(d) /\ ~Has(m, E(d)))
  OBVIOUS
<1>1. PICK k \in {0, 1}, a \in {0, 1} :
        Moves(m, k, a, x) /\ (k = 1 => Nth(m, 1) = y)
  BY DEF Shift
<1>2. Before(m, d) /\ k \in Nat
  BY DEF Line
<1>3. Before(m, d)'
  BY <1>1, <1>2, MovesOrder
<1>4. Has(m, E(d))' => Has(m, E(d))
  BY <1>1, <1>2, MovesLaw
<1>5. ASSUME Has(m, D(d)), ~Has(m, D(d))'
      PROVE  y = D(d) /\ ~Has(m, E(d))
  <2>1. \E i \in 1 .. k : Nth(m, i) = D(d)
    BY <1>1, <1>2, <1>5, MovesLaw
  <2>2. k = 1 /\ Nth(m, 1) = D(d)
    BY <2>1
  <2>3. Moves(m, 1, a, x)
    BY <1>1, <2>2
  <2>. QED
    BY <1>1, <1>2, <2>2, <2>3, MovesFront
<1>. QED
  BY <1>3, <1>4, <1>5

LEMMA LiveInit == Init => LiveInv
<1>. SUFFICES ASSUME Init, NEW d \in Conns PROVE Line(d) /\ Told(d)
  BY DEF LiveInv
<1>1. /\ conn[d].state_ = "kConnecting" /\ conn[d].index_ = "kNew"
      /\ conn[d].told = <<>>
  BY DEF Init, NoConnection
<1>2. \A l \in Loops : Waits(l) = 0
  BY DEF Init, Waits, QueueLen
<1>3. \A l \in Loops : Before(l, d) /\ ~Has(l, E(d))
  BY <1>2 DEF Before, Has
<1>. QED
  BY <1>1, <1>3 DEF Line, Told

\* What connection d has from LiveInv after each step.
LEMMA LiveStep ==
  TypeOK /\ TypeOK' /\ HomeInv /\ LiveInv /\ [Next]_vars => LiveInv'
<1>. SUFFICES ASSUME TypeOK, TypeOK', HomeInv, LiveInv, [Next]_vars,
                     NEW d \in Conns
              PROVE  Line(d)' /\ Told(d)'
  BY DEF LiveInv
<1>. USE MaxThreadsAssumption
     DEF setupVars, acceptVars, connVars, queueVars, loopVars,
         destructVars
<1>a. Life /\ FunctorsAtHome /\ Fresh /\ Reported /\ LiveInv
  BY DEF HomeInv
<1>b. /\ Main \in Loops /\ conn \in [Conns -> Connection]
      /\ phase \in [Loops -> InLoop \cup {"outside", "left"}]
      /\ active \in [Loops -> SUBSET (Conns \cup {Listener})]
      /\ pendingFunctors_ \in [Loops -> Seq(Functors)]
      /\ functors \in [Loops -> Seq(Functors)]
      /\ ran \in [Loops -> Nat]
  <2>1. Main \in Loops
    BY DEF Main, Loops
  <2>. QED
    BY <2>1 DEF TypeOK
<1>c. \A c \in Conns : conn[c] \in Connection /\ conn[c].loop \in Loops
  BY <1>b DEF Connection
<1>d. \A m \in Loops : LoopGone(m) => LoopGone(m)'
  BY <1>a, GoneStays
<1>e. \A c \in Conns : /\ E(c).conn = c /\ D(c).conn = c /\ E(c) # D(c)
                       /\ E(c) \in Functors /\ D(c) \in Functors
                       /\ E(c).run # "removeConnectionInLoop"
                       /\ D(c).run # "removeConnectionInLoop"
  BY DEF E, D, Functors, Runs
<1>r. \A c \in Conns : /\ R(c) \in Functors
                       /\ \A e \in Conns : R(c) # E(e) /\ R(c) # D(e)
                       /\ \A e \in Conns : /\ D(c) # E(e)
                                           /\ e # c => E(c) # E(e) /\ D(c) # D(e)
  BY DEF R, E, D, Functors, Runs
<1>f. \A m \in Loops : \A c \in Conns :
        Has(m, E(c)) \/ Has(m, D(c)) => m = conn[c].loop /\ ~(c >= nextConnId_)
  BY <1>a, QueueHome
<1>g. Line(d) /\ Told(d)
  BY <1>a DEF LiveInv
\* Steps that run no functor, queue none, and at most shut d down.
<1>1. ASSUME connections_' = connections_,
             /\ conn'[d].loop = conn[d].loop /\ conn'[d].index_ = conn[d].index_
             /\ conn'[d].told = conn[d].told
             /\ \/ conn'[d].state_ = conn[d].state_
                \/ /\ conn[d].state_ = "kConnected"
                   /\ conn'[d].state_ = "kDisconnecting",
             \A m \in Loops : \/ Moves(m, 0, 0, D(d))
                              \/ Waits(m)' = 0 /\ LoopGone(m)'
      PROVE  Line(d)' /\ Told(d)'
  <2>1. Told(d)'
    BY <1>1, <1>g DEF Told
  <2>2. ASSUME NEW m \in Loops
        PROVE  /\ Before(m, d)' /\ (Has(m, E(d))' => Has(m, E(d)))
               /\ Has(m, D(d)) => Has(m, D(d))' \/ (~Has(m, E(d))' /\ LoopGone(m)')
               /\ Has(m, D(d))' \/ ~Has(m, D(d)) \/ (~Has(m, E(d))' /\ LoopGone(m)')
    <3>1. CASE Moves(m, 0, 0, D(d))
      <4>1. Before(m, d) /\ 0 \in Nat /\ 0 \in {0, 1} /\ (1 .. 0 = {})
        BY <1>g DEF Line
      <4>2. Before(m, d)'
        BY <3>1, <4>1, MovesOrder
      <4>. QED
        BY <3>1, <4>1, <4>2, MovesLaw
    <3>2. CASE Waits(m)' = 0 /\ LoopGone(m)'
      BY <3>2 DEF Before, Has
    <3>. QED
      BY <1>1, <3>1, <3>2
  <2>3. conn'[d].state_ = conn[d].state_ \/ conn[d].state_ # "kConnecting"
    BY <1>1
  <2>4. Line(d)'
    BY <1>1, <1>d, <1>g, <2>2, <2>3, LineKept
  <2>. QED
    BY <2>1, <2>4
<1>2. ASSUME UNCHANGED <<connVars, queueVars>>
      PROVE  Line(d)' /\ Told(d)'
  <2>1. \A m \in Loops : Moves(m, 0, 0, D(d))
    BY <1>2, MovesNone
  <2>. QED
    BY <1>1, <1>2, <2>1
<1>3. ASSUME NEW c \in Conns, PeerCloses(c) \/ Shutdown(c)
      PROVE  Line(d)' /\ Told(d)'
  <2>1. \A m \in Loops : Moves(m, 0, 0, D(d))
    BY <1>3, MovesNone DEF PeerCloses, Shutdown
  <2>2. /\ conn'[d].loop = conn[d].loop /\ conn'[d].index_ = conn[d].index_
        /\ conn'[d].told = conn[d].told
        /\ \/ conn'[d].state_ = conn[d].state_
           \/ /\ conn[d].state_ = "kConnected"
              /\ conn'[d].state_ = "kDisconnecting"
    <3>1. CASE d # c
      BY <1>3, <1>b, <3>1 DEF PeerCloses, Shutdown
    <3>2. CASE d = c /\ PeerCloses(c)
      BY <1>b, <1>c, <3>2, ChangesType DEF PeerCloses
    <3>3. CASE d = c /\ Shutdown(c)
      BY <1>b, <1>c, <3>3, ChangesType DEF Shutdown
    <3>. QED
      BY <1>3, <3>1, <3>2, <3>3
  <2>. QED
    BY <1>1, <1>3, <2>1, <2>2 DEF PeerCloses, Shutdown
<1>4. ASSUME NEW l \in Loops, SwapFunctors(l) \/ FinishFunctors(l)
      PROVE  Line(d)' /\ Told(d)'
  <2>1. \A m \in Loops : \/ Moves(m, 0, 0, D(d))
                         \/ Waits(m)' = 0 /\ LoopGone(m)'
    BY <1>4, MovesTurn
  <2>. QED
    BY <1>1, <1>4, <2>1 DEF SwapFunctors, FinishFunctors
<1>5. CASE DestroyMainLoop
  <2>1. \A m \in Loops \ {Main} : Moves(m, 0, 0, D(d))
    BY <1>5, <1>b, MovesNone DEF DestroyMainLoop
  <2>3. Waits(Main)' = 0 /\ LoopGone(Main)'
    BY <1>5, <1>a, MainLoopEmptied
  <2>. QED
    BY <1>1, <1>5, <2>1, <2>3 DEF DestroyMainLoop
\* Steps that move queues, none of them by a connectEstablished.
<1>6. ASSUME NEW x \in Functors, NEW y, x # E(d),
             Shift(x, y),
             y = D(d) => conn'[d].index_ = "kNew",
             conn'[d].loop = conn[d].loop,
             conn'[d].state_ = conn[d].state_ \/ conn[d].state_ # "kConnecting",
             conn'[d].index_ # "kNew" => conn[d].index_ # "kNew",
             \/ d \in connections_ => d \in connections_'
             \/ conn'[d].index_ = "kNew" /\ \A m \in Loops : ~Has(m, E(d))
             \/ Has(conn[d].loop, D(d))'
      PROVE  Line(d)'
  <2>1. \A m \in Loops :
           /\ Before(m, d)'
           /\ Has(m, E(d))' => Has(m, E(d))
           /\ Has(m, D(d)) =>
                Has(m, D(d))' \/ (y = D(d) /\ ~Has(m, E(d)))
    BY <1>6, <1>g, LineMoves
  <2>. QED
    BY <1>6, <1>d, <1>f, <1>g, <2>1, LineKept
\* The other connections' records.
<1>7. ASSUME NEW c \in Conns, conn' = [conn EXCEPT ![c] = conn'[c]], d # c
      PROVE  conn'[d] = conn[d] /\ Told(d)'
  <2>1. conn'[d] = conn[d]
    BY <1>7, <1>b
  <2>. QED
    BY <1>g, <2>1 DEF Told
<1>8. ASSUME NEW l \in Loops, NEW c \in Conns, HandleClose(l, c)
      PROVE  Line(d)' /\ Told(d)'
  <2>. DEFINE x == R(c)
  <2>1. x \in Functors /\ x # E(d) /\ x # D(d)
    BY <1>r
  <2>2. Shift(x, x)
    BY <1>8, CloseMoves
  <2>3. /\ conn[c].index_ = "kAdded"
        /\ conn'[c] = Disconnected(conn[c])
        /\ conn' = [conn EXCEPT ![c] = conn'[c]]
        /\ connections_' = connections_
    BY <1>8, <1>a, <1>b DEF HandleClose, Handle, Reported
  <2>4. CASE d = c
    <3>1. /\ conn'[d].loop = conn[d].loop
          /\ conn'[d].state_ = "kDisconnected" /\ conn'[d].index_ = "kDeleted"
      BY <1>c, <2>3, <2>4, DisconnectedType
    <3>2. conn[d].state_ # "kConnecting" /\ conn[d].index_ # "kNew"
      BY <1>g, <2>3, <2>4 DEF Told
    <3>3. Told(d)'
      BY <3>1 DEF Told
    <3>. QED
      BY <1>6, <2>1, <2>2, <2>3, <3>1, <3>2, <3>3
  <2>5. CASE d # c
    BY <1>6, <1>7, <2>1, <2>2, <2>3, <2>5
  <2>. QED
    BY <2>4, <2>5
<1>9. ASSUME NEW c \in Conns, HandleCloseInMain(c)
      PROVE  Line(d)' /\ Told(d)'
  <2>. DEFINE x == D(c)
  <2>1. x \in Functors /\ x # E(d)
    BY <1>e, <1>r
  <2>2. /\ conn[c].index_ = "kAdded" /\ conn[c].loop = Main
        /\ conn'[c] = Disconnected(conn[c])
        /\ conn' = [conn EXCEPT ![c] = conn'[c]]
        /\ connections_' = connections_ \ {c}
    BY <1>9, <1>a, <1>b DEF HandleCloseInMain, Handle, Reported
  <2>3. Shift(x, E(c)) /\ Has(Main, D(c))' /\ E(c) # D(d)
    BY <1>9, <1>e, <1>r, <2>2, CloseInMainMoves
  <2>6. CASE d = c
    <3>1. /\ conn'[d].loop = conn[d].loop
          /\ conn'[d].state_ = "kDisconnected" /\ conn'[d].index_ = "kDeleted"
      BY <1>c, <2>2, <2>6, DisconnectedType
    <3>2. conn[d].state_ # "kConnecting" /\ conn[d].index_ # "kNew"
      BY <1>g, <2>2, <2>6 DEF Told
    <3>3. Told(d)'
      BY <3>1 DEF Told
    <3>4. Has(conn[d].loop, D(d))'
      BY <2>2, <2>3, <2>6, <3>1
    <3>. QED
      BY <1>6, <2>1, <2>3, <3>1, <3>2, <3>3, <3>4
  <2>7. CASE d # c
    <3>1. conn'[d] = conn[d] /\ Told(d)'
      BY <1>7, <2>2, <2>7
    <3>2. d \in connections_ => d \in connections_'
      BY <2>2, <2>7
    <3>. QED
      BY <1>6, <2>1, <2>3, <3>1, <3>2
  <2>. QED
    BY <2>6, <2>7
<1>11. ASSUME NEW l \in Loops, NEW c \in Conns, ConnectDestroyed(l, c)
       PROVE  Line(d)' /\ Told(d)'
  <2>1. /\ Shift(D(c), D(c))
        /\ D(c) \in Functors /\ D(c) # E(d)
    <3>1. D(c).run = "connectDestroyed" /\ D(c).conn = c /\ D(c) \in Functors
      BY <1>e DEF D
    <3>. QED
      BY <1>11, <1>r, <3>1, RunMoves DEF ConnectDestroyed
  <2>2. /\ conn'[c] = Destroyed(conn[c]) /\ conn' = [conn EXCEPT ![c] = conn'[c]]
        /\ connections_' = connections_
    BY <1>11, <1>b DEF ConnectDestroyed
  <2>3. CASE d = c
    <3>1. /\ conn'[d].loop = conn[d].loop /\ conn'[d].index_ = "kNew"
          /\ conn[d].state_ = "kConnected" => conn'[d].state_ = "kDisconnected"
          /\ conn[d].state_ # "kConnected" =>
               /\ conn'[d].state_ = conn[d].state_
               /\ conn'[d].told = conn[d].told
      BY <1>c, <2>2, <2>3, DestroyedType
    <3>2. conn'[d].state_ = conn[d].state_ \/ conn[d].state_ # "kConnecting"
      BY <3>1
    <3>3. Told(d)'
      BY <1>g, <3>1 DEF Told
    <3>. QED
      BY <1>6, <2>1, <2>2, <3>1, <3>2, <3>3
  <2>4. CASE d # c
    <3>1. conn'[d] = conn[d] /\ Told(d)' /\ D(c) # D(d)
      BY <1>7, <1>r, <2>2, <2>4
    <3>. QED
      BY <1>6, <2>1, <2>2, <3>1
  <2>. QED
    BY <2>3, <2>4
<1>12. ASSUME NEW c \in Conns, RemoveConnectionInLoop(c)
       PROVE  Line(d)' /\ Told(d)'
  <2>1. PICK l \in Loops : l = conn[c].loop
    BY <1>c
  <2>2. conn' = conn /\ connections_' = connections_ \ {c}
    BY <1>12 DEF RemoveConnectionInLoop
  <2>3. D(c) \in Functors /\ D(c) # E(d) /\ R(c) # D(d)
    BY <1>e, <1>r
  <2>6. Shift(D(c), R(c)) /\ Has(l, D(c))'
    BY <1>12, <2>1, <2>2, RemoveMoves
  <2>8. Told(d)' /\ conn'[d] = conn[d]
    BY <1>g, <2>2 DEF Told
  <2>9. (d \in connections_ => d \in connections_') \/ Has(conn[d].loop, D(d))'
    <3>1. CASE d = c
      <4>1. conn'[d].loop = l
        BY <2>1, <2>8, <3>1
      <4>. QED
        BY <2>1, <2>6, <3>1, <4>1
    <3>. QED
      BY <2>2, <3>1
  <2>. QED
    BY <1>6, <2>3, <2>6, <2>8, <2>9
<1>13. ASSUME NEW c \in Conns, DestroyItem(c)
       PROVE  Line(d)' /\ Told(d)'
  <2>1. PICK l \in Loops : l = conn[c].loop
    BY <1>c
  <2>2. /\ D(c) \in Functors /\ D(c) # E(d) /\ E(c) # D(d)
        /\ 0 \in {0, 1} /\ 1 \in {0, 1} /\ 0 \in Nat
    BY <1>e, <1>r
  <2>3. /\ connections_' = connections_ \ {c}
        /\ functors' = functors /\ ran' = ran
    BY <1>13 DEF DestroyItem
  <2>4. CASE l # Main
    <3>1. /\ pendingFunctors_' =
               [pendingFunctors_ EXCEPT ![l] = Append(@, D(c))]
          /\ conn' = conn
      BY <1>13, <2>1, <2>4 DEF DestroyItem, Push, D
    <3>4. Shift(D(c), E(c))
      BY <1>13, DestroyItemMoves
    <3>5. Has(l, D(c))'
      BY <1>13, <2>1, <2>4, <3>1, DestroyItemMoves
    <3>6. Told(d)' /\ conn'[d] = conn[d]
      BY <1>g, <3>1 DEF Told
    <3>7. (d \in connections_ => d \in connections_') \/ Has(conn[d].loop, D(d))'
      <4>1. CASE d = c
        <5>1. conn'[d].loop = l
          BY <2>1, <3>6, <4>1
        <5>. QED
          BY <2>1, <3>5, <4>1, <5>1
      <4>. QED
        BY <2>3, <4>1
    <3>. QED
      BY <1>6, <2>2, <3>4, <3>6, <3>7
  <2>5. CASE l = Main
    <3>1. /\ conn'[c] = Destroyed(conn[c])
          /\ conn' = [conn EXCEPT ![c] = conn'[c]]
          /\ pendingFunctors_' = pendingFunctors_
      BY <1>13, <1>b, <2>1, <2>5 DEF DestroyItem
    <3>3. Shift(D(c), E(c))
      BY <1>13, DestroyItemMoves
    <3>4. CASE d = c
      <4>1. /\ conn'[d].loop = conn[d].loop /\ conn'[d].index_ = "kNew"
            /\ conn[d].state_ = "kConnected" => conn'[d].state_ = "kDisconnected"
            /\ conn[d].state_ # "kConnected" =>
                 /\ conn'[d].state_ = conn[d].state_
                 /\ conn'[d].told = conn[d].told
        BY <1>c, <3>1, <3>4, DestroyedType
      <4>2. conn'[d].state_ = conn[d].state_ \/ conn[d].state_ # "kConnecting"
        BY <4>1
      <4>3. Told(d)'
        BY <1>g, <4>1 DEF Told
      <4>4. \A m \in Loops : ~Has(m, E(d))
        <5>. SUFFICES ASSUME NEW m \in Loops, Has(m, E(d)) PROVE FALSE
          OBVIOUS
        <5>1. m # Main
          BY <1>g DEF Line
        <5>2. m = conn[d].loop
          BY <1>f
        <5>. QED
          BY <2>1, <2>5, <3>4, <5>1, <5>2
      <4>. QED
        BY <1>6, <2>2, <3>3, <4>1, <4>2, <4>3, <4>4
    <3>5. CASE d # c
      <4>1. conn'[d] = conn[d] /\ Told(d)'
        BY <1>7, <3>1, <3>5
      <4>2. d \in connections_ => d \in connections_'
        BY <2>3, <3>5
      <4>. QED
        BY <1>6, <2>2, <3>3, <4>1, <4>2
    <3>. QED
      BY <3>4, <3>5
  <2>. QED
    BY <2>4, <2>5
<1>14. ASSUME NEW l \in Loops, NEW c \in Conns, ConnectEstablished(l, c)
       PROVE  Line(d)' /\ Told(d)'
  <2>1. /\ Shift(D(c), E(c))
        /\ Moves(l, 1, 0, D(c)) /\ Nth(l, 1) = E(c)
        /\ D(c) \in Functors /\ D(c) # E(d) /\ E(c) # D(d)
    <3>1. /\ E(c).run = "connectEstablished" /\ E(c).conn = c
          /\ E(c) \in Functors /\ D(c) \in Functors
      BY <1>e DEF E
    <3>2. /\ Shift(D(c), E(c))
          /\ Moves(l, 1, 0, D(c)) /\ Nth(l, 1) = E(c)
      BY <1>14, <3>1, RunMoves DEF ConnectEstablished
    <3>. QED
      BY <1>e, <1>r, <3>1, <3>2
  <2>2. /\ conn'[c] = Established(conn[c]) /\ conn' = [conn EXCEPT ![c] = conn'[c]]
        /\ connections_' = connections_
    BY <1>14, <1>b DEF ConnectEstablished
  <2>3. CASE d # c
    <3>1. conn'[d] = conn[d] /\ Told(d)'
      BY <1>7, <2>2, <2>3
    <3>. QED
      BY <1>6, <2>1, <2>2, <3>1
  <2>4. CASE d = c
    <3>1. /\ Has(l, E(c)) /\ ~Has(l, E(c))'
      <4>1. Before(l, c) /\ 0 \in {0, 1} /\ D(c) # E(c)
        BY <1>g, <1>r, <2>4 DEF Line
      <4>. QED
        BY <2>1, <4>1, MovesFront
    <3>2. /\ l = conn[c].loop /\ conn[c].state_ = "kConnecting"
          /\ c \in connections_ \/ Has(l, D(c))
      BY <1>f, <1>g, <2>4, <3>1 DEF Line
    <3>3. /\ conn'[c].loop = l /\ conn'[c].state_ = "kConnected"
          /\ conn'[c].told = <<"up">>
      <4>1. conn[c].told = <<>>
        BY <1>g, <2>4, <3>2 DEF Told
      <4>2. Append(<<>>, "up") = <<"up">>
        OBVIOUS
      <4>. QED
        BY <1>c, <2>2, <3>2, <4>1, <4>2, EstablishedType
    <3>4. \A m \in Loops :
            /\ Before(m, d)'
            /\ Has(m, E(d))' => Has(m, E(d))
            /\ Has(m, D(d)) => Has(m, D(d))'
      BY <1>g, <2>1, LineMoves
    <3>5. \A m \in Loops : ~Has(m, E(d))'
      BY <1>f, <2>4, <3>1, <3>2, <3>4
    <3>6. Line(d)'
      <4>1. c \in connections_' \/ Has(l, D(c))'
        BY <2>2, <2>4, <3>2, <3>4
      <4>. SUFFICES ASSUME NEW m \in Loops, conn'[d].loop = m
                    PROVE  d \in connections_' \/ Has(m, D(d))'
        BY <3>4, <3>5 DEF Line
      <4>. QED
        BY <2>4, <3>3, <4>1
    <3>7. Told(d)'
      BY <2>4, <3>3 DEF Told
    <3>. QED
      BY <3>6, <3>7
  <2>. QED
    BY <2>3, <2>4
<1>15. CASE Accept
  <2>1. nextConnId_ \in Conns
    BY <1>15, MaxConnsAssumption DEF Accept, TypeOK, Conns
  <2>2. PICK c \in Conns : c = nextConnId_
    BY <2>1
  <2>3. PICK l \in Loops : l = NextLoop
    BY NextLoopType
  <2>4. /\ connections_' = connections_ \cup {c}
        /\ functors' = functors /\ ran' = ran
        /\ conn' = [conn EXCEPT ![c] = conn'[c]]
        /\ l = Main => /\ conn'[c] = Established([NoConnection EXCEPT !.loop = l])
                       /\ pendingFunctors_' = pendingFunctors_
        /\ l # Main => /\ conn'[c] = [NoConnection EXCEPT !.loop = l]
                       /\ pendingFunctors_' =
                            [pendingFunctors_ EXCEPT ![l] = Append(@, E(c))]
    BY <1>15, <1>b, <2>2, <2>3 DEF Accept, Push, E
  <2>5. \A m \in Loops : ~Has(m, E(c)) /\ ~Has(m, D(c))
    <3>1. c >= nextConnId_
      BY <2>2 DEF Conns, TypeOK
    <3>. QED
      BY <1>f, <3>1
  <2>6. /\ E(c) \in Functors /\ E(c) # D(c) /\ E(c) # D(d)
        /\ d # c => E(c) # E(d)
        /\ 0 \in {0, 1} /\ 1 \in {0, 1} /\ 0 \in Nat
    BY <1>e, <1>r
  <2>7. l # Main => /\ Moves(l, 0, 1, E(c))
                    /\ \A m \in Loops \ {l} : Moves(m, 0, 0, E(c))
    BY <1>15, <2>2, <2>3, AcceptMoves
  <2>8. l = Main => \A m \in Loops : Moves(m, 0, 0, E(c))
    BY <1>15, <2>2, <2>3, AcceptMoves
  <2>9. CASE d # c
    <3>1. conn'[d] = conn[d] /\ Told(d)'
      BY <1>7, <2>4, <2>9
    <3>2. Shift(E(c), E(c))
      BY <1>15, <2>2, AcceptMoves
    <3>. QED
      BY <1>6, <2>4, <2>6, <2>9, <3>1, <3>2
  <2>10. CASE d = c
    <3>1. ASSUME NEW m \in Loops
          PROVE  Before(m, c)' /\ (Has(m, E(c))' => m = l /\ l # Main)
      <4>1. Before(m, c)
        BY <1>g, <2>10 DEF Line
      <4>2. CASE m = l /\ l # Main
        BY <2>5, <2>6, <2>7, <4>1, <4>2, MovesOrder
      <4>3. ASSUME ~(m = l /\ l # Main)
            PROVE  Before(m, c)' /\ ~Has(m, E(c))'
        <5>1. Moves(m, 0, 0, E(c))
          BY <2>7, <2>8, <4>3
        <5>2. Before(m, c)'
          BY <2>5, <2>6, <4>1, <5>1, MovesOrder
        <5>3. ~Has(m, E(c))'
          BY <2>5, <2>6, <5>1, MovesLaw
        <5>. QED
          BY <5>2, <5>3
      <4>. QED
        BY <4>2, <4>3
    <3>. DEFINE r == [NoConnection EXCEPT !.loop = l]
    <3>r. /\ r \in Connection /\ r.state_ = "kConnecting"
          /\ r.index_ = "kNew" /\ r.told = <<>>
      BY NoConnectionType
    <3>q. (l = Main => conn'[c] = Established(r)) /\ (l # Main => conn'[c] = r)
      BY <2>4
    <3>. HIDE DEF r
    <3>2. CASE l # Main
      <4>1. /\ conn'[c].state_ = "kConnecting" /\ conn'[c].index_ = "kNew"
            /\ conn'[c].told = <<>>
        BY <3>2, <3>q, <3>r
      <4>2. Line(d)'
        BY <2>4, <2>10, <3>1, <4>1 DEF Line
      <4>3. Told(d)'
        BY <2>10, <4>1 DEF Told
      <4>. QED
        BY <4>2, <4>3
    <3>3. CASE l = Main
      <4>1. /\ conn'[c].state_ = "kConnected" /\ conn'[c].told = <<"up">>
        <5>1. Append(<<>>, "up") = <<"up">>
          OBVIOUS
        <5>. QED
          BY <3>3, <3>q, <3>r, <5>1, EstablishedType
      <4>2. Line(d)'
        BY <2>4, <2>10, <3>1, <3>3 DEF Line
      <4>3. Told(d)'
        BY <2>10, <4>1 DEF Told
      <4>. QED
        BY <4>2, <4>3
    <3>. QED
      BY <3>2, <3>3
  <2>. QED
    BY <2>9, <2>10
<1>16. ASSUME NEW n \in 0 .. MaxThreads,
              SetThreadNum(n) \/ Start \/ ClientConnects
                \/ QuitMain \/ Destroy \/ AcceptFails \/ DestroyAcceptor
       PROVE  Line(d)' /\ Told(d)'
  BY <1>2, <1>16 DEF SetThreadNum, Start, ClientConnects, QuitMain,
    Destroy, AcceptFails, DestroyAcceptor
<1>17. ASSUME NEW l \in Loops, EnterLoop(l) \/ PollReturn(l)
       PROVE  Line(d)' /\ Told(d)'
  BY <1>2, <1>17 DEF EnterLoop, PollReturn
<1>18. ASSUME NEW k \in IoLoops, QuitThread(k) PROVE Line(d)' /\ Told(d)'
  BY <1>2, <1>18 DEF QuitThread, EndsNext
<1>19. CASE UNCHANGED vars
  BY <1>2, <1>19 DEF vars
<1>20. ASSUME Environment PROVE Line(d)' /\ Told(d)'
  <2>1. 0 \in 0 .. MaxThreads
    OBVIOUS
  <2>. QED
    BY <1>3, <1>16, <1>20, <2>1 DEF Environment
<1>21. ASSUME MainStep \/ DestructorStep PROVE Line(d)' /\ Told(d)'
  <2>1. 0 \in 0 .. MaxThreads
    OBVIOUS
  <2>. QED
    BY <1>5, <1>9, <1>12, <1>13, <1>15, <1>16, <1>18, <1>21, <2>1
    DEF MainStep, DestructorStep
<1>22. ASSUME NEW l \in Loops, LoopStep(l) PROVE Line(d)' /\ Told(d)'
  BY <1>4, <1>8, <1>11, <1>14, <1>17, <1>22 DEF LoopStep
<1>. QED
  BY <1>19, <1>20, <1>21, <1>22 DEF Next

\* Nothing has been done to a connection that was not accepted yet.
Silent == \A c \in Conns : c >= nextConnId_ => conn[c].state_ = "kConnecting"

LEMMA SilentStep ==
  TypeOK /\ HomeInv /\ Silent /\ [Next]_vars => Silent'
<1>. SUFFICES ASSUME TypeOK, HomeInv, Silent, [Next]_vars PROVE Silent'
  OBVIOUS
<1>. USE DEF setupVars, acceptVars, connVars, queueVars, loopVars,
         destructVars
<1>a. FunctorsAtHome /\ Fresh /\ Reported
  BY DEF HomeInv
<1>b. nextConnId_ \in Nat /\ (\A c \in Conns : c \in Nat)
        /\ conn \in [Conns -> Connection]
  BY DEF TypeOK, Conns
\* A step either changes nobody's record, or the record of one connection that
\* was accepted.
<1>1. ASSUME UNCHANGED <<conn, nextConnId_>> PROVE Silent'
  BY <1>1 DEF Silent
<1>2. ASSUME NEW c \in Conns, conn' = [conn EXCEPT ![c] = conn'[c]],
             ~(c >= nextConnId_'),
             nextConnId_' = nextConnId_ \/ nextConnId_' = nextConnId_ + 1
      PROVE  Silent'
  <2>. SUFFICES ASSUME NEW d \in Conns, d >= nextConnId_'
                PROVE  conn'[d].state_ = "kConnecting"
    BY DEF Silent
  <2>1. d >= nextConnId_ /\ d # c
    BY <1>2, <1>b
  <2>. QED
    BY <1>2, <1>b, <2>1 DEF Silent
<1>3. ASSUME NEW c \in Conns, PeerCloses(c) \/ Shutdown(c) PROVE Silent'
  <2>1. ~(c >= nextConnId_)
    <3>1. "kAdded" # "kNew" /\ "kConnected" # "kConnecting"
      OBVIOUS
    <3>. QED
      BY <1>3, <1>a, <3>1 DEF PeerCloses, Shutdown, Fresh, Silent
  <2>2. conn' = [conn EXCEPT ![c] = conn'[c]] /\ nextConnId_' = nextConnId_
    BY <1>3, <1>b DEF PeerCloses, Shutdown
  <2>. QED
    BY <1>2, <2>1, <2>2
<1>4. ASSUME NEW l \in Loops, NEW c \in Conns,
             HandleClose(l, c) \/ (l = Main /\ HandleCloseInMain(c))
      PROVE  Silent'
  <2>1. /\ c \in active[l] /\ conn' = [conn EXCEPT ![c] = conn'[c]]
        /\ nextConnId_' = nextConnId_
    BY <1>4, <1>b DEF HandleClose, HandleCloseInMain, Handle
  <2>2. ~(c >= nextConnId_)
    BY <1>a, <2>1 DEF Fresh, Reported
  <2>. QED
    BY <1>2, <2>1, <2>2
<1>5. ASSUME NEW l \in Loops, NEW c \in Conns,
             ConnectEstablished(l, c) \/ ConnectDestroyed(l, c)
      PROVE  Silent'
  <2>1. /\ conn' = [conn EXCEPT ![c] = conn'[c]] /\ nextConnId_' = nextConnId_
        /\ ran[l] + 1 \in DOMAIN functors[l]
        /\ functors[l][ran[l] + 1].conn = c
    BY <1>5, <1>b DEF ConnectEstablished, ConnectDestroyed, Run, TypeOK
  <2>2. \E f \in FunctorsOf(l) : f.conn = c
    BY <2>1 DEF FunctorsOf, Elements
  <2>3. ~(c >= nextConnId_)
    BY <1>a, <2>2 DEF Fresh
  <2>. QED
    BY <1>2, <2>1, <2>3
<1>6. ASSUME NEW c \in Conns, DestroyItem(c) PROVE Silent'
  <2>1. ~(c >= nextConnId_) /\ nextConnId_' = nextConnId_
          /\ conn' = [conn EXCEPT ![c] = conn'[c]]
    BY <1>6, <1>a, <1>b DEF DestroyItem, Fresh
  <2>. QED
    BY <1>2, <2>1
<1>7. ASSUME Accept PROVE Silent'
  <2>1. nextConnId_ \in Conns
    BY <1>7, MaxConnsAssumption DEF Accept, TypeOK, Conns
  <2>2. PICK c \in Conns : c = nextConnId_
    BY <2>1
  <2>3. conn' = [conn EXCEPT ![c] = conn'[c]] /\ nextConnId_' = nextConnId_ + 1
    BY <1>7, <1>b, <2>2 DEF Accept
  <2>4. ~(c >= nextConnId_')
    BY <1>b, <2>2, <2>3
  <2>. QED
    BY <1>2, <2>3, <2>4
<1>8. ASSUME Environment PROVE Silent'
  BY <1>1, <1>3, <1>8 DEF Environment, SetThreadNum, Start,
    ClientConnects, QuitMain, Destroy
<1>9. ASSUME MainStep \/ DestructorStep PROVE Silent'
  <2>1. Main \in Loops
    BY MaxThreadsAssumption DEF Main, Loops
  <2>. QED
    BY <1>1, <1>4, <1>6, <1>7, <1>9, <2>1 DEF MainStep, DestructorStep,
      AcceptFails, RemoveConnectionInLoop, Run, QuitThread, EndsNext,
      DestroyAcceptor, DestroyMainLoop
<1>10. ASSUME NEW l \in Loops, LoopStep(l) PROVE Silent'
  BY <1>1, <1>4, <1>5, <1>10 DEF LoopStep, EnterLoop, PollReturn, SwapFunctors,
    FinishFunctors
<1>. QED
  BY <1>1, <1>8, <1>9, <1>10 DEF Next, vars

\* The invariant of everything below.
LEMMA ServerInvariant == Spec => [](TypeOK /\ HomeInv /\ LiveInv /\ Silent)
<1>1. Init => TypeOK /\ HomeInv /\ LiveInv /\ Silent
  <2>1. Init => Silent
    BY DEF Init, Silent, NoConnection
  <2>. QED
    BY <2>1, TypeInit, HomeInit, LiveInit
<1>2. TypeOK /\ HomeInv /\ LiveInv /\ Silent /\ [Next]_vars
        => TypeOK' /\ HomeInv' /\ LiveInv' /\ Silent'
  BY TypeStep, HomeStep, LiveStep, SilentStep
<1>. QED
  BY <1>1, <1>2, PTL DEF Spec

\* PollersPointAtLive holds for any number of threads and connections:
\* whichever thread deletes a connection, no poller still has its Channel.
THEOREM ServerPollersPointAtLive == Spec => []PollersPointAtLive
<1>1. TypeOK /\ HomeInv /\ LiveInv => PollersPointAtLive
  <2>. SUFFICES ASSUME TypeOK, HomeInv, LiveInv, NEW c \in Conns,
                       \/ conn[c].index_ # "kNew" /\ ~LoopGone(conn[c].loop)
                       \/ \E l \in Loops : c \in active[l]
                PROVE  Held(c)
    BY DEF PollersPointAtLive
  <2>1. PICK l \in Loops : l = conn[c].loop
    BY DEF TypeOK, Connection
  <2>2. conn[c].index_ # "kNew" /\ ~LoopGone(l)
    <3>1. CASE \E m \in Loops : c \in active[m]
      <4>1. PICK m \in Loops : c \in active[m]
        BY <3>1
      <4>2. l = m /\ conn[c].index_ = "kAdded"
        BY <2>1, <4>1 DEF HomeInv, Reported
      <4>3. phase[m] = "events"
        BY <4>1 DEF TypeOK
      <4>. QED
        BY <4>2, <4>3 DEF HomeInv, Life, LoopGone
    <3>. QED
      BY <2>1, <3>1
  <2>3. c \in connections_ \/ Has(l, D(c))
    BY <2>1, <2>2 DEF LiveInv, Line
  <2>4. Has(l, D(c)) => D(c) \in FunctorsOf(l) /\ D(c).conn = c
    BY WaitsType DEF D
  <2>. QED
    BY <2>3, <2>4 DEF Held
<1>. QED
  BY <1>1, ServerInvariant, PTL

-----------------------------------------------------------------------------
(***************************************************************************)
(* connectDestroyed and removeConnectionInLoop come once.                  *)
(***************************************************************************)
AtMostOnce(l, x) ==
  \A i, j \in 1 .. Waits(l) : Nth(l, i) = x /\ Nth(l, j) = x => i = j

\* While the server serves, a connection is out of its poller when it is about
\* to be removed, and in connections_ until removeConnectionInLoop has run;
\* from then on, or once ~TcpServer has erased it, it waits for the one
\* connectDestroyed.
Once(d) ==
  /\ \A m \in Loops : AtMostOnce(m, D(d)) /\ AtMostOnce(m, R(d))
  /\ \A m \in Loops : Has(m, D(d)) =>
       /\ d \notin connections_ /\ ~BeenDestroyed(d)
       /\ server = "serving" =>
            conn[d].index_ # "kAdded" /\ conn[d].state_ # "kConnecting"
  /\ \A m \in Loops : Has(m, R(d)) =>
       /\ conn[d].index_ # "kAdded" /\ conn[d].state_ # "kConnecting"
       /\ server = "serving" => d \in connections_
  /\ BeenDestroyed(d) => d \notin connections_

OnceInv == \A d \in Conns : Once(d)

LEMMA MovesOnce ==
  ASSUME TypeOK, NEW l \in Loops, NEW k \in Nat, NEW a \in {0, 1}, NEW x,
         Moves(l, k, a, x), NEW y, AtMostOnce(l, y),
         a = 1 /\ x = y => ~Has(l, y)
  PROVE  /\ AtMostOnce(l, y)'
         /\ k = 1 /\ Nth(l, 1) = y /\ ~(a = 1 /\ x = y) => ~Has(l, y)'
<1>1. Waits(l) \in Nat
  BY WaitsType
<1>2. \A h \in 1 .. Waits(l)' :
        \/ h \in 1 .. Waits(l) - k /\ h + k \in 1 .. Waits(l)
             /\ Nth(l, h)' = Nth(l, h + k)
        \/ a = 1 /\ h = Waits(l) - k + 1 /\ Nth(l, h)' = x
  BY <1>1 DEF Moves
<1>3. ASSUME NEW i \in 1 .. Waits(l)', NEW j \in 1 .. Waits(l)',
             Nth(l, i)' = y, Nth(l, j)' = y
      PROVE  i = j
  <2>1. CASE i \in 1 .. Waits(l) - k /\ j \in 1 .. Waits(l) - k
    <3>1. /\ i + k \in 1 .. Waits(l) /\ Nth(l, i + k) = y
          /\ j + k \in 1 .. Waits(l) /\ Nth(l, j + k) = y
      BY <1>1, <1>3, <2>1 DEF Moves
    <3>2. i + k = j + k
      BY <3>1 DEF AtMostOnce
    <3>. QED
      BY <2>1, <3>2
  <2>2. ASSUME NEW h \in 1 .. Waits(l)', h \in 1 .. Waits(l) - k,
               Nth(l, h)' = y
        PROVE  Has(l, y)
    BY <1>1, <1>2, <2>2 DEF Has
  <2>3. CASE ~(i \in 1 .. Waits(l) - k) \/ ~(j \in 1 .. Waits(l) - k)
    <3>1. a = 1 /\ x = y
      BY <1>2, <1>3, <2>3
    <3>2. ~(i \in 1 .. Waits(l) - k) /\ ~(j \in 1 .. Waits(l) - k)
      BY <1>3, <2>2, <3>1
    <3>. QED
      BY <1>2, <3>2
  <2>. QED
    BY <2>1, <2>3
<1>4. ASSUME k = 1, Nth(l, 1) = y, ~(a = 1 /\ x = y), Has(l, y)'
      PROVE  FALSE
  <2>1. PICK i \in 1 .. Waits(l)' : Nth(l, i)' = y
    BY <1>4 DEF Has
  <2>2. /\ i + 1 \in 1 .. Waits(l) /\ Nth(l, i + 1) = y
        /\ 1 \in 1 .. Waits(l) /\ i + 1 # 1
    BY <1>1, <1>2, <1>4, <2>1
  <2>. QED
    BY <1>4, <2>2 DEF AtMostOnce
<1>. QED
  BY <1>3, <1>4 DEF AtMostOnce

\* What a step that moves the queues leaves of the functors of connection d.
LEMMA ShiftOnce ==
  ASSUME TypeOK, NEW d \in Conns, Once(d), NEW x, NEW y, Shift(x, y),
         x = D(d) => \A m \in Loops : ~Has(m, D(d)),
         x = R(d) => \A m \in Loops : ~Has(m, R(d))
  PROVE  \A m \in Loops :
           /\ AtMostOnce(m, D(d))' /\ AtMostOnce(m, R(d))'
           /\ Has(m, D(d))' => Has(m, D(d)) \/ x = D(d)
           /\ Has(m, R(d))' => Has(m, R(d)) \/ x = R(d)
<1>. SUFFICES ASSUME NEW m \in Loops
              PROVE  /\ AtMostOnce(m, D(d))' /\ AtMostOnce(m, R(d))'
                     /\ Has(m, D(d))' => Has(m, D(d)) \/ x = D(d)
                     /\ Has(m, R(d))' => Has(m, R(d)) \/ x = R(d)
  OBVIOUS
<1>1. PICK k \in {0, 1}, a \in {0, 1} : Moves(m, k, a, x)
  BY DEF Shift
<1>2. AtMostOnce(m, D(d)) /\ AtMostOnce(m, R(d)) /\ k \in Nat
  BY DEF Once
<1>3. AtMostOnce(m, D(d))' /\ AtMostOnce(m, R(d))'
  BY <1>1, <1>2, MovesOnce
<1>4. /\ Has(m, D(d))' => Has(m, D(d)) \/ x = D(d)
      /\ Has(m, R(d))' => Has(m, R(d)) \/ x = R(d)
  BY <1>1, <1>2, MovesLaw
<1>. QED
  BY <1>3, <1>4

\* A step that brings connection d none of the two and leaves its place in
\* its poller.
LEMMA OnceKept ==
  ASSUME NEW d \in Conns, Once(d),
         \A m \in Loops :
           /\ AtMostOnce(m, D(d))' /\ AtMostOnce(m, R(d))'
           /\ Has(m, D(d))' => Has(m, D(d))
           /\ Has(m, R(d))' => Has(m, R(d)),
         d \in connections_' <=> d \in connections_,
         server' = "serving" => server = "serving",
         conn'[d].index_ = conn[d].index_,
         conn'[d].state_ = "kConnecting" <=> conn[d].state_ = "kConnecting"
  PROVE  Once(d)'
BY DEF Once, BeenDestroyed

LEMMA OnceInit == Init => OnceInv
<1>. SUFFICES ASSUME Init, NEW d \in Conns PROVE Once(d)
  BY DEF OnceInv
<1>1. conn[d].state_ = "kConnecting"
  BY DEF Init, NoConnection
<1>2. \A l \in Loops : Waits(l) = 0
  BY DEF Init, Waits, QueueLen
<1>3. \A l \in Loops : \A x : AtMostOnce(l, x) /\ ~Has(l, x)
  BY <1>2 DEF AtMostOnce, Has
<1>. QED
  BY <1>1, <1>3 DEF Once, BeenDestroyed

\* What connection d has from OnceInv after each step.
LEMMA OnceStep ==
  TypeOK /\ TypeOK' /\ HomeInv /\ LiveInv /\ OnceInv /\ [Next]_vars => OnceInv'
<1>. SUFFICES ASSUME TypeOK, TypeOK', HomeInv, LiveInv, OnceInv, [Next]_vars,
                     NEW d \in Conns
              PROVE  Once(d)'
  BY DEF OnceInv
<1>. USE DEF setupVars, acceptVars, connVars, queueVars, loopVars,
         destructVars
<1>a. Life /\ FunctorsAtHome /\ Fresh /\ Reported
  BY DEF HomeInv
<1>b. /\ Main \in Loops /\ conn \in [Conns -> Connection]
      /\ \A c \in Conns : conn[c] \in Connection
  BY QueueTypes
<1>c. phase[Main] \in {"events", "functors"} => server = "serving"
  BY <1>a DEF Life
<1>d. Once(d) /\ Line(d) /\ Told(d)
  BY DEF OnceInv, LiveInv
<1>e. \A c \in Conns :
        /\ \A e \in Conns : /\ D(c) # R(e) /\ E(c) # R(e) /\ E(c) # D(e)
                            /\ R(c) # D(e)
                            /\ e # c => D(c) # D(e) /\ R(c) # R(e)
        /\ D(c).conn = c /\ D(c).run = "connectDestroyed"
        /\ E(c).conn = c /\ E(c).run = "connectEstablished"
        /\ D(c) \in Functors /\ E(c) \in Functors
  BY QueueTypes DEF D, E, R
\* Steps that run no functor and queue none.
<1>1. ASSUME connections_' = connections_,
             server' = "serving" => server = "serving",
             conn'[d].index_ = conn[d].index_,
             conn'[d].state_ = "kConnecting" <=> conn[d].state_ = "kConnecting",
             \A m \in Loops : \/ Moves(m, 0, 0, D(d))
                              \/ Waits(m)' = 0 /\ LoopGone(m)'
      PROVE  Once(d)'
  <2>1. ASSUME NEW m \in Loops
        PROVE  /\ AtMostOnce(m, D(d))' /\ AtMostOnce(m, R(d))'
               /\ Has(m, D(d))' => Has(m, D(d))
               /\ Has(m, R(d))' => Has(m, R(d))
    <3>1. CASE Moves(m, 0, 0, D(d))
      <4>1. AtMostOnce(m, D(d)) /\ AtMostOnce(m, R(d))
              /\ 0 \in Nat /\ 0 \in {0, 1} /\ 0 # 1
        BY <1>d DEF Once
      <4>2. AtMostOnce(m, D(d))' /\ AtMostOnce(m, R(d))'
        BY <3>1, <4>1, MovesOnce
      <4>3. \A y : Has(m, y)' => Has(m, y)
        BY <3>1, <4>1, MovesLaw
      <4>. QED
        BY <4>2, <4>3
    <3>2. CASE Waits(m)' = 0
      BY <3>2 DEF AtMostOnce, Has
    <3>. QED
      BY <1>1, <3>1, <3>2
  <2>. QED
    BY <1>1, <1>d, <2>1, OnceKept
<1>2. ASSUME UNCHANGED <<connVars, queueVars>>,
             server' = "serving" => server = "serving"
      PROVE  Once(d)'
  <2>1. \A m \in Loops : Moves(m, 0, 0, D(d))
    BY <1>2, MovesNone
  <2>. QED
    BY <1>1, <1>2, <2>1
<1>3. ASSUME NEW c \in Conns, PeerCloses(c) \/ Shutdown(c)
      PROVE  Once(d)'
  <2>1. \A m \in Loops : Moves(m, 0, 0, D(d))
    BY <1>3, MovesNone DEF PeerCloses, Shutdown
  <2>2. /\ conn'[d].index_ = conn[d].index_
        /\ conn'[d].state_ = "kConnecting" <=> conn[d].state_ = "kConnecting"
    <3>1. CASE d # c
      BY <1>3, <1>b, <3>1 DEF PeerCloses, Shutdown
    <3>2. CASE d = c /\ PeerCloses(c)
      BY <1>b, <3>2, ChangesType DEF PeerCloses
    <3>3. CASE d = c /\ Shutdown(c)
      BY <1>b, <3>3, ChangesType DEF Shutdown
    <3>. QED
      BY <1>3, <3>1, <3>2, <3>3
  <2>. QED
    BY <1>1, <1>3, <2>1, <2>2 DEF PeerCloses, Shutdown
<1>4. ASSUME NEW l \in Loops, SwapFunctors(l) \/ FinishFunctors(l)
      PROVE  Once(d)'
  <2>1. \A m \in Loops : \/ Moves(m, 0, 0, D(d))
                         \/ Waits(m)' = 0 /\ LoopGone(m)'
    BY <1>4, MovesTurn
  <2>. QED
    BY <1>1, <1>4, <2>1 DEF SwapFunctors, FinishFunctors
<1>5. CASE DestroyMainLoop
  <2>1. \A m \in Loops \ {Main} : Moves(m, 0, 0, D(d))
    BY <1>5, QueueTypes, MovesNone DEF DestroyMainLoop
  <2>2. Waits(Main)' = 0 /\ LoopGone(Main)'
    BY <1>5, <1>a, MainLoopEmptied
  <2>. QED
    BY <1>1, <1>5, <2>1, <2>2 DEF DestroyMainLoop
\* What another connection's step does to d.
<1>6. ASSUME NEW c \in Conns, d # c, NEW x \in {E(c), D(c), R(c)}, NEW y,
             Shift(x, y), conn' = [conn EXCEPT ![c] = conn'[c]],
             connections_' \in {connections_, connections_ \cup {c},
                                connections_ \ {c}},
             UNCHANGED server
      PROVE  Once(d)'
  <2>1. conn'[d] = conn[d] /\ (d \in connections_' <=> d \in connections_)
    BY <1>6, <1>b
  <2>2. x # D(d) /\ x # R(d)
    BY <1>6, <1>e
  <2>. QED
    BY <1>6, <1>d, <2>1, <2>2, ShiftOnce, OnceKept
<1>7. ASSUME NEW l \in Loops, NEW c \in Conns, HandleClose(l, c)
      PROVE  Once(d)'
  <2>1. /\ conn[c].index_ = "kAdded" /\ conn[c].loop = l
        /\ conn'[c] = Disconnected(conn[c])
        /\ conn' = [conn EXCEPT ![c] = conn'[c]]
        /\ UNCHANGED <<connections_, server>> /\ Shift(R(c), R(c))
    BY <1>7, <1>a, <1>b, CloseMoves DEF HandleClose, Handle, Reported
  <2>2. CASE d = c
    <3>1. conn'[d].state_ = "kDisconnected" /\ conn'[d].index_ = "kDeleted"
      BY <1>b, <2>1, <2>2, DisconnectedType
    <3>2. \A m \in Loops : ~Has(m, R(d))
      BY <1>d, <2>1, <2>2 DEF Once
    <3>3. \A m \in Loops :
            /\ AtMostOnce(m, D(d))' /\ AtMostOnce(m, R(d))'
            /\ Has(m, D(d))' => Has(m, D(d))
      BY <1>d, <1>e, <2>1, <2>2, <3>2, ShiftOnce
    <3>4. server = "serving" => d \in connections_
      <4>1. ~LoopGone(l)
        BY <1>7 DEF HandleClose, Handle, LoopGone
      <4>2. d \in connections_ \/ Has(l, D(d))
        BY <1>d, <2>1, <2>2, <4>1 DEF Line
      <4>. QED
        BY <1>d, <2>1, <2>2, <4>2 DEF Once
    <3>. QED
      BY <1>d, <2>1, <3>1, <3>3, <3>4 DEF Once, BeenDestroyed
  <2>. QED
    BY <1>6, <2>1, <2>2
<1>8. ASSUME NEW c \in Conns, HandleCloseInMain(c)
      PROVE  Once(d)'
  <2>1. /\ conn[c].index_ = "kAdded" /\ conn[c].loop = Main
        /\ conn'[c] = Disconnected(conn[c])
        /\ conn' = [conn EXCEPT ![c] = conn'[c]]
        /\ connections_' = connections_ \ {c} /\ UNCHANGED server
        /\ server = "serving"
    BY <1>8, <1>a, <1>b, <1>c DEF HandleCloseInMain, Handle, Reported
  <2>2. Shift(D(c), E(c))
    BY <1>8, <2>1, CloseInMainMoves
  <2>3. CASE d = c
    <3>1. conn'[d].state_ = "kDisconnected" /\ conn'[d].index_ = "kDeleted"
      BY <1>b, <2>1, <2>3, DisconnectedType
    <3>2. \A m \in Loops : ~Has(m, R(d)) /\ ~Has(m, D(d))
      BY <1>d, <2>1, <2>3 DEF Once
    <3>3. \A m \in Loops :
            AtMostOnce(m, D(d))' /\ AtMostOnce(m, R(d))' /\ ~Has(m, R(d))'
      BY <1>d, <1>e, <2>2, <2>3, <3>2, ShiftOnce
    <3>. QED
      BY <2>1, <2>3, <3>1, <3>3 DEF Once, BeenDestroyed
  <2>. QED
    BY <1>6, <2>1, <2>2, <2>3
<1>9. ASSUME NEW l \in Loops, NEW c \in Conns, ConnectDestroyed(l, c)
      PROVE  Once(d)'
  <2>1. /\ Shift(E(c), D(c)) /\ Moves(l, 1, 0, E(c)) /\ Nth(l, 1) = D(c)
        /\ conn'[c] = Destroyed(conn[c]) /\ conn' = [conn EXCEPT ![c] = conn'[c]]
        /\ UNCHANGED <<connections_, server>>
    <3>1. Run(l, D(c).run, c) /\ UNCHANGED pendingFunctors_
      BY <1>9, <1>e DEF ConnectDestroyed
    <3>2. Shift(E(c), D(c)) /\ Moves(l, 1, 0, E(c)) /\ Nth(l, 1) = D(c)
      BY <1>e, <3>1, RunMoves
    <3>. QED
      BY <1>9, <1>b, <3>2 DEF ConnectDestroyed, Run
  <2>2. CASE d = c
    <3>1. Has(l, D(d))
      BY <2>1, <2>2, WaitsType DEF Moves, Has
    <3>2. ~Has(l, D(d))'
      <4>1. AtMostOnce(l, D(d)) /\ 1 \in Nat /\ 0 \in {0, 1} /\ 0 # 1
        BY <1>d DEF Once
      <4>. QED
        BY <2>1, <2>2, <4>1, MovesOnce
    <3>3. \A m \in Loops :
            /\ AtMostOnce(m, D(d))' /\ AtMostOnce(m, R(d))'
            /\ Has(m, D(d))' => Has(m, D(d))
            /\ Has(m, R(d))' => Has(m, R(d))
      BY <1>d, <1>e, <2>1, ShiftOnce
    <3>4. \A m \in Loops : ~Has(m, D(d))'
      BY <1>a, <3>1, <3>2, <3>3, QueueHome
    <3>5. /\ conn'[d].index_ = "kNew"
          /\ conn[d].state_ # "kConnecting" => conn'[d].state_ # "kConnecting"
      BY <1>b, <2>1, <2>2, DestroyedType
    <3>6. d \notin connections_
      BY <1>d, <3>1 DEF Once
    <3>. QED
      BY <1>d, <2>1, <3>3, <3>4, <3>5, <3>6 DEF Once, BeenDestroyed
  <2>. QED
    BY <1>6, <2>1, <2>2
<1>10. ASSUME NEW c \in Conns, RemoveConnectionInLoop(c)
       PROVE  Once(d)'
  <2>1. /\ UNCHANGED <<conn, server>> /\ connections_' = connections_ \ {c}
        /\ server = "serving" /\ Shift(D(c), R(c))
    BY <1>10, <1>c, RemoveMoves DEF RemoveConnectionInLoop, Run
  <2>2. PICK a \in {0, 1} : Moves(Main, 1, a, D(c)) /\ Nth(Main, 1) = R(c)
    BY <1>10, RemoveMoves
  <2>3. CASE d = c
    <3>1. Has(Main, R(d))
      BY <1>b, <2>2, <2>3, WaitsType DEF Moves, Has
    <3>2. /\ d \in connections_ /\ conn[d].index_ # "kAdded"
          /\ conn[d].state_ # "kConnecting"
      BY <1>b, <1>d, <2>1, <3>1 DEF Once
    <3>3. ~BeenDestroyed(d) /\ \A m \in Loops : ~Has(m, D(d))
      BY <1>d, <3>2 DEF Once
    <3>4. ~Has(Main, R(d))'
      <4>1. AtMostOnce(Main, R(d)) /\ 1 \in Nat /\ D(c) # R(d)
        BY <1>b, <1>d, <1>e DEF Once
      <4>. QED
        BY <1>b, <2>2, <2>3, <4>1, MovesOnce
    <3>5. \A m \in Loops :
            /\ AtMostOnce(m, D(d))' /\ AtMostOnce(m, R(d))'
            /\ Has(m, R(d))' => Has(m, R(d))
      BY <1>d, <1>e, <2>1, <2>3, <3>3, ShiftOnce
    <3>6. \A m \in Loops : ~Has(m, R(d))'
      BY <1>a, <3>4, <3>5, QueueHome
    <3>. QED
      BY <2>1, <2>3, <3>2, <3>3, <3>5, <3>6 DEF Once, BeenDestroyed
  <2>4. conn' = [conn EXCEPT ![c] = conn'[c]]
    BY <1>b, <2>1
  <2>. QED
    BY <1>6, <2>1, <2>3, <2>4
<1>11. ASSUME NEW c \in Conns, DestroyItem(c)
       PROVE  Once(d)'
  <2>1. /\ UNCHANGED server /\ server # "serving" /\ c \in connections_
        /\ connections_' = connections_ \ {c} /\ Shift(D(c), E(c))
        /\ conn' = [conn EXCEPT ![c] = conn'[c]]
    BY <1>11, <1>b, DestroyItemMoves DEF DestroyItem
  <2>2. CASE d = c
    <3>1. ~BeenDestroyed(d) /\ \A m \in Loops : ~Has(m, D(d))
      BY <1>d, <2>1, <2>2 DEF Once
    <3>2. \A m \in Loops :
            /\ AtMostOnce(m, D(d))' /\ AtMostOnce(m, R(d))'
            /\ Has(m, R(d))' => Has(m, R(d))
      BY <1>d, <1>e, <2>1, <2>2, <3>1, ShiftOnce
    <3>3. CASE conn[c].loop = Main
      <4>1. \A m \in Loops : ~Has(m, D(d))'
        <5>1. 0 \in Nat /\ 0 \in {0, 1} /\ 0 # 1
          OBVIOUS
        <5>2. \A m \in Loops : Moves(m, 0, 0, D(c))
          BY <1>11, <3>3, DestroyItemMoves
        <5>. QED
          BY <3>1, <5>1, <5>2, MovesLaw
      <4>2. /\ conn'[d].index_ = "kNew"
            /\ conn[d].state_ # "kConnecting" => conn'[d].state_ # "kConnecting"
        BY <1>11, <1>b, <2>2, <3>3, DestroyedType DEF DestroyItem
      <4>. QED
        BY <1>d, <2>1, <2>2, <3>2, <4>1, <4>2 DEF Once, BeenDestroyed
    <3>4. CASE conn[c].loop # Main
      <4>1. conn' = conn
        BY <1>11, <3>4 DEF DestroyItem
      <4>. QED
        BY <1>d, <2>1, <2>2, <3>1, <3>2, <4>1 DEF Once, BeenDestroyed
    <3>. QED
      BY <3>3, <3>4
  <2>. QED
    BY <1>6, <2>1, <2>2
<1>12. ASSUME NEW l \in Loops, NEW c \in Conns, ConnectEstablished(l, c)
       PROVE  Once(d)'
  <2>1. /\ Shift(E(c), E(c)) /\ Moves(l, 1, 0, E(c)) /\ Nth(l, 1) = E(c)
        /\ conn'[c] = Established(conn[c]) /\ conn' = [conn EXCEPT ![c] = conn'[c]]
        /\ UNCHANGED <<connections_, server>>
    <3>1. Run(l, E(c).run, c) /\ UNCHANGED pendingFunctors_
      BY <1>12, <1>e DEF ConnectEstablished
    <3>2. Shift(E(c), E(c)) /\ Moves(l, 1, 0, E(c)) /\ Nth(l, 1) = E(c)
      BY <1>e, <3>1, RunMoves
    <3>. QED
      BY <1>12, <1>b, <3>2 DEF ConnectEstablished, Run
  <2>2. CASE d = c
    <3>1. Has(l, E(d))
      BY <2>1, <2>2, WaitsType DEF Moves, Has
    <3>2. conn[d].state_ = "kConnecting"
      BY <1>d, <3>1 DEF Line
    <3>3. \A m \in Loops :
            /\ AtMostOnce(m, D(d))' /\ AtMostOnce(m, R(d))'
            /\ Has(m, D(d))' => Has(m, D(d))
            /\ Has(m, R(d))' => Has(m, R(d))
      BY <1>d, <1>e, <2>1, ShiftOnce
    <3>4. conn'[d].state_ = "kConnected" /\ conn'[d].index_ = "kAdded"
      BY <1>b, <2>1, <2>2, EstablishedType
    <3>. QED
      BY <1>d, <2>1, <3>2, <3>3, <3>4 DEF Once, BeenDestroyed
  <2>. QED
    BY <1>6, <2>1, <2>2
<1>13. CASE Accept
  <2>1. nextConnId_ \in Conns
    BY <1>13, MaxConnsAssumption DEF Accept, TypeOK, Conns
  <2>2. PICK c \in Conns : c = nextConnId_
    BY <2>1
  <2>3. PICK l \in Loops : l = NextLoop
    BY NextLoopType
  <2>4. /\ Shift(E(c), E(c)) /\ UNCHANGED server
        /\ connections_' = connections_ \cup {c}
        /\ conn' = [conn EXCEPT ![c] = conn'[c]]
        /\ l = Main => conn'[c] = Established([NoConnection EXCEPT !.loop = l])
        /\ l # Main => conn'[c] = [NoConnection EXCEPT !.loop = l]
    BY <1>13, <1>b, <2>2, <2>3, AcceptMoves DEF Accept
  <2>5. CASE d = c
    <3>1. c >= nextConnId_
      BY <2>2 DEF Conns, TypeOK
    <3>2. \A m \in Loops : ~Has(m, D(d)) /\ ~Has(m, R(d))
      BY <1>a, <2>5, <3>1, QueueHome
    <3>3. \A m \in Loops :
            /\ AtMostOnce(m, D(d))' /\ AtMostOnce(m, R(d))'
            /\ ~Has(m, D(d))' /\ ~Has(m, R(d))'
      BY <1>d, <1>e, <2>4, <3>2, ShiftOnce
    <3>4. ~BeenDestroyed(d)'
      <4>. DEFINE r == [NoConnection EXCEPT !.loop = l]
      <4>1. r \in Connection /\ r.state_ = "kConnecting"
        BY NoConnectionType
      <4>2. /\ l = Main => conn'[c] = Established(r)
            /\ l # Main => conn'[c] = r
        BY <2>4
      <4>. HIDE DEF r
      <4>3. Established(r).index_ = "kAdded"
        BY <4>1, EstablishedType
      <4>4. conn'[c].index_ = "kAdded" \/ conn'[c].state_ = "kConnecting"
        BY <4>1, <4>2, <4>3
      <4>. QED
        BY <2>5, <4>4 DEF BeenDestroyed
    <3>. QED
      BY <3>3, <3>4 DEF Once
  <2>. QED
    BY <1>6, <2>4, <2>5
<1>14. ASSUME Environment PROVE Once(d)'
  BY <1>2, <1>3, <1>14 DEF Environment, SetThreadNum, Start,
    ClientConnects, QuitMain, Destroy
<1>15. ASSUME MainStep \/ DestructorStep PROVE Once(d)'
  BY <1>2, <1>5, <1>8, <1>10, <1>11, <1>13, <1>15 DEF MainStep, DestructorStep,
    AcceptFails, QuitThread, EndsNext, DestroyAcceptor
<1>16. ASSUME NEW l \in Loops, LoopStep(l) PROVE Once(d)'
  BY <1>2, <1>4, <1>7, <1>9, <1>12, <1>16 DEF LoopStep, EnterLoop, PollReturn
<1>. QED
  BY <1>2, <1>14, <1>15, <1>16 DEF Next, vars

LEMMA ToDoIsQueue ==
  ASSUME TypeOK, NEW l \in Loops
  PROVE  /\ DOMAIN ToDo(l) = 1 .. Waits(l)
         /\ \A i \in 1 .. Waits(l) : ToDo(l)[i] = Nth(l, i)
<1>. DEFINE f == functors[l]
            p == pendingFunctors_[l]
            r == ran[l]
            s == SubSeq(f, r + 1, Len(f))
<1>1. f \in Seq(Functors) /\ p \in Seq(Functors) /\ r \in Nat /\ r <= Len(f)
  BY DEF TypeOK
<1>2. Len(f) \in Nat /\ Len(p) \in Nat /\ r + 1 \in Int /\ Len(f) \in Int
  BY <1>1
<1>3. \A i \in r + 1 .. Len(f) : f[i] \in Functors
  BY <1>1, <1>2
<1>4. /\ s \in Seq(Functors) /\ Len(s) = Len(f) - r
      /\ \A i \in 1 .. Len(f) - r : s[i] = f[r + i]
  <2>. HIDE DEF f, r
  <2>1. /\ s \in Seq(Functors)
        /\ Len(s) = IF r + 1 <= Len(f) THEN Len(f) - (r + 1) + 1 ELSE 0
        /\ \A i \in 1 .. Len(f) - (r + 1) + 1 : s[i] = f[(r + 1) + i - 1]
    BY <1>2, <1>3, SubSeqProperties
  <2>2. /\ Len(f) - (r + 1) + 1 = Len(f) - r
        /\ r + 1 <= Len(f) \/ Len(f) - r = 0
    BY <1>1, <1>2
  <2>3. \A i \in 1 .. Len(f) - r : (r + 1) + i - 1 = r + i
    BY <1>1, <1>2
  <2>4. Len(s) = Len(f) - r
    BY <2>1, <2>2
  <2>5. \A i \in 1 .. Len(f) - r : s[i] = f[r + i]
    BY <2>1, <2>2, <2>3
  <2>. QED
    BY <2>1, <2>4, <2>5
<1>. HIDE DEF f, p, r, s
<1>5. /\ s \o p \in Seq(Functors) /\ Len(s \o p) = Len(s) + Len(p)
      /\ \A i \in 1 .. Len(s) + Len(p) :
           (s \o p)[i] = IF i <= Len(s) THEN s[i] ELSE p[i - Len(s)]
  BY <1>1, <1>4, ConcatProperties
<1>6. ToDo(l) = s \o p /\ Waits(l) = Len(s) + Len(p)
  BY <1>4 DEF ToDo, Waits, QueueLen, f, p, r, s
<1>7. ASSUME NEW i \in 1 .. Waits(l) PROVE ToDo(l)[i] = Nth(l, i)
  <2>1. Nth(l, i) = IF i <= Len(s) THEN f[r + i] ELSE p[i - Len(s)]
    BY <1>4 DEF Nth, QueueAt, f, p, r
  <2>2. i <= Len(s) => s[i] = f[r + i]
    BY <1>2, <1>4, <1>6
  <2>. QED
    BY <1>5, <1>6, <2>1, <2>2
<1>. QED
  BY <1>5, <1>6, <1>7

\* Queued as a question about the queues.
LEMMA QueuedIn ==
  ASSUME TypeOK, NEW c \in Conns, NEW run, NEW p
  PROVE  p \in Queued(c, run) <=>
           \E l \in Loops : \E i \in 1 .. Waits(l) :
             p = <<l, i>> /\ Nth(l, i) = [run |-> run, conn |-> c]
<1>1. \A l \in Loops : DOMAIN ToDo(l) = 1 .. Waits(l)
  BY ToDoIsQueue
<1>2. ASSUME p \in Queued(c, run)
      PROVE  \E l \in Loops : \E i \in 1 .. Waits(l) :
               p = <<l, i>> /\ Nth(l, i) = [run |-> run, conn |-> c]
  <2>1. PICK l \in Loops : p \in {l} \X DOMAIN ToDo(l)
    BY <1>2 DEF Queued
  <2>2. PICK i \in 1 .. Waits(l) : p = <<l, i>>
    <3>. DEFINE I == 1 .. Waits(l)
    <3>1. p \in {l} \X I
      BY <1>1, <2>1
    <3>. HIDE DEF I
    <3>2. \E i \in I : p = <<l, i>>
      BY <3>1
    <3>. QED
      BY <3>2 DEF I
  <2>3. ToDo(l)[i] = [run |-> run, conn |-> c]
    BY <1>2, <2>2 DEF Queued
  <2>. QED
    BY <2>2, <2>3, ToDoIsQueue
<1>3. ASSUME NEW l \in Loops, NEW i \in 1 .. Waits(l),
             p = <<l, i>>, Nth(l, i) = [run |-> run, conn |-> c]
      PROVE  p \in Queued(c, run)
  <2>1. p \in {l} \X DOMAIN ToDo(l)
    BY <1>1, <1>3
  <2>2. ToDo(p[1])[p[2]] = [run |-> run, conn |-> c]
    BY <1>3, ToDoIsQueue
  <2>. QED
    BY <2>1, <2>2 DEF Queued
<1>. QED
  BY <1>2, <1>3

LEMMA AtMostOneElement ==
  ASSUME NEW S, \A p, q \in S : p = q
  PROVE  Cardinality(S) = IF S = {} THEN 0 ELSE 1
<1>1. CASE S = {}
  BY <1>1, FS_EmptySet
<1>2. CASE S # {}
  <2>1. PICK p : p \in S
    BY <1>2
  <2>2. S = {p}
    BY <2>1
  <2>3. Cardinality({p}) = 1
    BY FS_Singleton
  <2>. QED
    BY <1>2, <2>2, <2>3
<1>. QED
  BY <1>1, <1>2

\* DestroyedOnce holds for any number of threads and connections: whether the
\* peer's close, ~TcpServer or both at once end a connection, it has
\* connectDestroyed called once, after connectEstablished.
THEOREM ServerDestroysOnce == Spec => []DestroyedOnce
<1>1. TypeOK /\ HomeInv /\ LiveInv /\ OnceInv => DestroyedOnce
  <2>. SUFFICES ASSUME TypeOK, HomeInv, LiveInv, OnceInv, NEW c \in Conns
                PROVE  /\ Cardinality(Queued(c, "connectDestroyed"))
                            + (IF c \in connections_ THEN 1 ELSE 0)
                            + (IF BeenDestroyed(c) THEN 1 ELSE 0) <= 1
                       /\ Cardinality(Queued(c, "removeConnectionInLoop")) <= 1
                       /\ \A p \in Queued(c, "connectEstablished") :
                            /\ conn[c].state_ = "kConnecting"
                            /\ Queued(c, "removeConnectionInLoop") = {}
                            /\ \A q \in Queued(c, "connectDestroyed") :
                                 p[2] < q[2]
    BY DEF DestroyedOnce
  <2>. DEFINE QD == Queued(c, "connectDestroyed")
              QR == Queued(c, "removeConnectionInLoop")
  <2>1. FunctorsAtHome /\ Fresh /\ Once(c) /\ Line(c)
    BY DEF HomeInv, LiveInv, OnceInv
  <2>2. /\ \A p : p \in QD <=> \E l \in Loops : \E i \in 1 .. Waits(l) :
             p = <<l, i>> /\ Nth(l, i) = D(c)
        /\ \A p : p \in QR <=> \E l \in Loops : \E i \in 1 .. Waits(l) :
             p = <<l, i>> /\ Nth(l, i) = R(c)
        /\ \A p : p \in Queued(c, "connectEstablished") <=>
             \E l \in Loops : \E i \in 1 .. Waits(l) :
               p = <<l, i>> /\ Nth(l, i) = E(c)
    BY QueuedIn DEF D, R, E
  <2>. HIDE DEF QD, QR
  <2>3. \A p, q \in QD : p = q
    BY <2>1, <2>2, QueueHome DEF Has, Once, AtMostOnce
  <2>4. \A p, q \in QR : p = q
    BY <2>1, <2>2, QueueHome DEF Has, Once, AtMostOnce
  <2>5. QD # {} => c \notin connections_ /\ ~BeenDestroyed(c)
    BY <2>1, <2>2 DEF Has, Once
  <2>6. BeenDestroyed(c) => c \notin connections_
    BY <2>1 DEF Once
  <2>7. /\ Cardinality(QD) = IF QD = {} THEN 0 ELSE 1
        /\ Cardinality(QR) = IF QR = {} THEN 0 ELSE 1
    BY <2>3, <2>4, AtMostOneElement
  <2>8. ASSUME NEW p \in Queued(c, "connectEstablished")
        PROVE  /\ conn[c].state_ = "kConnecting" /\ QR = {}
               /\ \A q \in QD : p[2] < q[2]
    <3>1. PICK l \in Loops : \E i \in 1 .. Waits(l) :
            p = <<l, i>> /\ Nth(l, i) = E(c)
      BY <2>2
    <3>2. PICK i \in 1 .. Waits(l) : p = <<l, i>> /\ Nth(l, i) = E(c)
      BY <3>1
    <3>3. Has(l, E(c))
      BY <3>2 DEF Has
    <3>4. conn[c].state_ = "kConnecting" /\ l = conn[c].loop
      BY <2>1, <3>3, QueueHome DEF Line
    <3>5. QR = {}
      BY <2>1, <2>2, <3>4 DEF Once, Has
    <3>6. ASSUME NEW q \in QD PROVE p[2] < q[2]
      <4>1. PICK m \in Loops : \E j \in 1 .. Waits(m) :
              q = <<m, j>> /\ Nth(m, j) = D(c)
        BY <2>2
      <4>2. PICK j \in 1 .. Waits(m) : q = <<m, j>> /\ Nth(m, j) = D(c)
        BY <4>1
      <4>3. m = l
        BY <2>1, <3>4, <4>2, QueueHome DEF Has
      <4>4. j > i
        BY <2>1, <3>2, <4>2, <4>3 DEF Line, Before
      <4>. QED
        BY <3>2, <4>2, <4>4
    <3>. QED
      BY <3>4, <3>5, <3>6
  <2>. QED
    BY <2>5, <2>6, <2>7, <2>8 DEF QD, QR
<1>2. Init => OnceInv
  BY OnceInit
<1>3. /\ TypeOK /\ HomeInv /\ LiveInv /\ Silent
      /\ (TypeOK /\ HomeInv /\ LiveInv /\ Silent)' /\ OnceInv /\ [Next]_vars
      => OnceInv'
  BY OnceStep
<1>. QED
  BY <1>1, <1>2, <1>3, ServerInvariant, PTL DEF Spec

-----------------------------------------------------------------------------
(***************************************************************************)
(* No connection is forgotten.                                             *)
(***************************************************************************)
\* What is owed to a connection that was accepted: connectDestroyed, and
\* connectEstablished before; while the server serves, a place in
\* connections_ and the watch of epoll until it is closed, and from then on
\* removeConnectionInLoop.
Owed(d) ==
  d < nextConnId_ =>
    /\ \A l \in Loops : conn[d].loop = l =>
         /\ \/ d \in connections_ \/ Has(l, D(d))
            \/ BeenDestroyed(d) \/ LoopGone(l)
         /\ conn[d].state_ = "kConnecting" => Has(l, E(d)) \/ LoopGone(l)
    /\ conn[d].state_ = "kDisconnected" => conn[d].told = <<"up", "down">>
    /\ server = "serving" =>
         /\ conn[d].told = <<>> => d \in connections_
         /\ conn[d].told = <<"up">> =>
              d \in connections_ /\ conn[d].index_ = "kAdded"
         /\ d \in connections_ /\ conn[d].told = <<"up", "down">> =>
              Has(Main, R(d))

OwedInv == \A d \in Conns : Owed(d)

\* A step that leaves connection d as it is, or in kDisconnecting, and takes
\* none of its functors but with their loop.
LEMMA OwedKept ==
  ASSUME NEW d \in Conns, Owed(d),
         d < nextConnId_' => d < nextConnId_,
         conn'[d].loop = conn[d].loop, conn'[d].told = conn[d].told,
         conn'[d].index_ = conn[d].index_,
         \/ conn'[d].state_ = conn[d].state_
         \/ conn[d].state_ = "kConnected" /\ conn'[d].state_ = "kDisconnecting",
         d \in connections_' <=> d \in connections_,
         server' = "serving" => server = "serving",
         Has(Main, R(d)) => Has(Main, R(d))' \/ server' # "serving",
         \A m \in Loops :
           /\ LoopGone(m) => LoopGone(m)'
           /\ Has(m, D(d)) => Has(m, D(d))' \/ LoopGone(m)'
           /\ Has(m, E(d)) => Has(m, E(d))' \/ LoopGone(m)'
  PROVE  Owed(d)'
BY DEF Owed, BeenDestroyed

\* A step that moves the queues takes no functor but the one that is run.
LEMMA ShiftKeeps ==
  ASSUME TypeOK, NEW x, NEW y, Shift(x, y), NEW z, z # y
  PROVE  \A m \in Loops : Has(m, z) => Has(m, z)'
<1>. SUFFICES ASSUME NEW m \in Loops, Has(m, z) PROVE Has(m, z)'
  OBVIOUS
<1>1. PICK k \in {0, 1}, a \in {0, 1} :
        Moves(m, k, a, x) /\ (k = 1 => Nth(m, 1) = y)
  BY DEF Shift
<1>2. Has(m, z)' \/ \E i \in 1 .. k : Nth(m, i) = z
  BY <1>1, MovesLaw
<1>. QED
  BY <1>1, <1>2

\* The push of removeConnectionInLoop takes nothing.
LEMMA ClosePushes ==
  ASSUME TypeOK, NEW l \in Loops, NEW c \in Conns, HandleClose(l, c)
  PROVE  /\ Has(Main, R(c))'
         /\ \A m \in Loops : \A z : Has(m, z) => Has(m, z)'
<1>. USE QueueTypes
<1>1. Moves(Main, 0, 1, R(c))
  BY MovesPush DEF HandleClose, Push, R
<1>2. \A m \in Loops \ {Main} : Moves(m, 0, 0, R(c))
  BY MovesNone DEF HandleClose, Push
<1>3. 0 \in Nat /\ 0 \in {0, 1} /\ 1 \in {0, 1} /\ 1 .. 0 = {}
  OBVIOUS
<1>4. Has(Main, R(c))' /\ \A z : Has(Main, z) => Has(Main, z)'
  BY <1>1, <1>3, MovesLaw
<1>5. ASSUME NEW m \in Loops \ {Main}
      PROVE  \A z : Has(m, z) => Has(m, z)'
  BY <1>2, <1>3, MovesLaw
<1>. QED
  BY <1>4, <1>5

\* Nor does that of connectDestroyed.
LEMMA DestroyItemKeeps ==
  ASSUME TypeOK, NEW c \in Conns, DestroyItem(c), NEW m \in Loops, NEW z,
         Has(m, z)
  PROVE  Has(m, z)'
<1>. USE QueueTypes
<1>1. 0 \in Nat /\ 0 \in {0, 1} /\ 1 \in {0, 1} /\ 1 .. 0 = {}
  OBVIOUS
<1>2. \/ pendingFunctors_'[m] = pendingFunctors_[m]
      \/ pendingFunctors_'[m] = Append(pendingFunctors_[m], D(c))
  BY DEF DestroyItem, Push, D
<1>3. functors'[m] = functors[m] /\ ran'[m] = ran[m]
  BY DEF DestroyItem
<1>4. Moves(m, 0, 0, D(c)) \/ Moves(m, 0, 1, D(c))
  BY <1>2, <1>3, MovesNone, MovesPush
<1>. QED
  BY <1>1, <1>4, MovesLaw

\* What the connection callback has said after "down".
LEMMA UpDown == Append(<<"up">>, "down") = <<"up", "down">>
<1>. DEFINE S == {"up", "down"}
            u == <<"up">>
            v == <<"up", "down">>
<1>1. u \in Seq(S) /\ Len(u) = 1 /\ u[1] = "up"
  <2>1. u \in Seq(S)
    OBVIOUS
  <2>2. Len(u) = 1 /\ u[1] = "up"
    OBVIOUS
  <2>. QED
    BY <2>1, <2>2
<1>2. v \in Seq(S) /\ Len(v) = 2 /\ v[1] = "up" /\ v[2] = "down"
  <2>1. v \in Seq(S)
    OBVIOUS
  <2>2. Len(v) = 2
    OBVIOUS
  <2>3. v[1] = "up"
    OBVIOUS
  <2>4. v[2] = "down"
    OBVIOUS
  <2>. QED
    BY <2>1, <2>2, <2>3, <2>4
<1>3. "down" \in S
  OBVIOUS
<1>. HIDE DEF S, u, v
<1>. DEFINE t == Append(u, "down")
<1>4. /\ t \in Seq(S) /\ Len(t) = Len(u) + 1 /\ t[Len(u) + 1] = "down"
      /\ \A i \in 1 .. Len(u) : t[i] = u[i]
  <2>1. u \in Seq(S) /\ "down" \in S
    BY <1>1, <1>3
  <2>. QED
    BY ONLY <2>1, AppendProperties
<1>5. /\ t \in Seq(S) /\ Len(t) = 2 /\ t[1] = "up" /\ t[2] = "down"
      /\ 1 .. 2 = {1, 2}
  <2>. HIDE DEF t
  <2>1. 1 \in 1 .. 1 /\ 1 + 1 = 2 /\ 1 .. 2 = {1, 2}
    OBVIOUS
  <2>. QED
    BY <1>1, <1>4, <2>1
<1>6. \A i \in 1 .. 2 : t[i] = v[i]
  <2>. HIDE DEF t
  <2>. QED
    BY <1>2, <1>5
<1>7. t = v
  <2>. HIDE DEF t
  <2>. QED
    BY <1>2, <1>5, <1>6, SeqEqual
<1>. QED
  BY <1>7 DEF u, v

LEMMA OwedStep ==
  TypeOK /\ TypeOK' /\ HomeInv /\ LiveInv /\ OnceInv /\ OwedInv /\ [Next]_vars
    => OwedInv'
<1>. SUFFICES ASSUME TypeOK, TypeOK', HomeInv, LiveInv, OnceInv, OwedInv,
                     [Next]_vars, NEW d \in Conns
              PROVE  Owed(d)'
  BY DEF OwedInv
<1>. USE DEF setupVars, acceptVars, connVars, queueVars, loopVars,
         destructVars
<1>a. Life /\ FunctorsAtHome /\ Fresh /\ Reported
  BY DEF HomeInv
<1>b. /\ Main \in Loops /\ conn \in [Conns -> Connection]
      /\ \A c \in Conns : conn[c] \in Connection /\ conn[c].loop \in Loops
  BY QueueTypes
<1>c. phase[Main] \in {"events", "functors"} => server = "serving"
  BY <1>a DEF Life
<1>d. Once(d) /\ Line(d) /\ Told(d) /\ Owed(d)
  BY DEF OnceInv, LiveInv, OwedInv
<1>e. \A c \in Conns :
        /\ \A e \in Conns : /\ D(c) # R(e) /\ E(c) # R(e) /\ E(c) # D(e)
                            /\ R(c) # D(e) /\ R(c) # E(e) /\ D(c) # E(e)
                            /\ e # c => /\ D(c) # D(e) /\ R(c) # R(e)
                                        /\ E(c) # E(e)
        /\ D(c).conn = c /\ D(c).run = "connectDestroyed"
        /\ E(c).conn = c /\ E(c).run = "connectEstablished"
        /\ D(c) \in Functors /\ E(c) \in Functors
  BY QueueTypes DEF D, E, R
<1>f. \A m \in Loops : LoopGone(m) => LoopGone(m)'
  BY <1>a, GoneStays
<1>g. server = "serving" => \A m \in Loops : ~LoopGone(m)
  BY <1>a DEF Life, LoopGone
<1>h. conn[d].told = <<>> => conn[d].state_ = "kConnecting" \/ ~(d < nextConnId_)
  <2>1. conn[d].state_ \in {"kConnecting", "kConnected", "kDisconnecting",
                            "kDisconnected"}
    BY <1>b DEF Connection
  <2>2. <<>> # <<"up">> /\ <<>> # <<"up", "down">>
    OBVIOUS
  <2>. QED
    BY <1>d, <2>1, <2>2 DEF Told, Owed
<1>s. /\ <<>> # <<"up">> /\ <<>> # <<"up", "down">> /\ <<"up">> # <<"up", "down">>
      /\ Append(<<>>, "up") = <<"up">> /\ Append(<<"up">>, "down") = <<"up", "down">>
  <2>1. <<>> # <<"up">> /\ <<>> # <<"up", "down">>
    OBVIOUS
  <2>2. <<"up">> # <<"up", "down">>
    OBVIOUS
  <2>3. Append(<<>>, "up") = <<"up">>
    OBVIOUS
  <2>4. Append(<<"up">>, "down") = <<"up", "down">>
    BY UpDown
  <2>. QED
    BY <2>1, <2>2, <2>3, <2>4
\* Steps that run no functor and queue none.
<1>1. ASSUME UNCHANGED <<connections_, nextConnId_>>,
             server' = "serving" => server = "serving",
             conn'[d].loop = conn[d].loop, conn'[d].told = conn[d].told,
             conn'[d].index_ = conn[d].index_,
             \/ conn'[d].state_ = conn[d].state_
             \/ /\ conn[d].state_ = "kConnected"
                /\ conn'[d].state_ = "kDisconnecting",
             \A m \in Loops : \/ Moves(m, 0, 0, D(d))
                              \/ Waits(m)' = 0 /\ LoopGone(m)'
      PROVE  Owed(d)'
  <2>1. ASSUME NEW m \in Loops, NEW z, Has(m, z)
        PROVE  Has(m, z)' \/ LoopGone(m)'
    <3>1. CASE Moves(m, 0, 0, D(d))
      <4>1. 0 \in Nat /\ 0 \in {0, 1} /\ 1 .. 0 = {}
        OBVIOUS
      <4>. QED
        BY <2>1, <3>1, <4>1, MovesLaw
    <3>. QED
      BY <1>1, <3>1
  <2>2. LoopGone(Main)' => server' # "serving"
    BY DEF LoopGone
  <2>. QED
    BY <1>1, <1>b, <1>d, <1>f, <2>1, <2>2, OwedKept
<1>2. ASSUME UNCHANGED <<connVars, queueVars, nextConnId_>>,
             server' = "serving" => server = "serving"
      PROVE  Owed(d)'
  <2>1. \A m \in Loops : Moves(m, 0, 0, D(d))
    BY <1>2, MovesNone
  <2>. QED
    BY <1>1, <1>2, <2>1
<1>3. ASSUME NEW c \in Conns, PeerCloses(c) \/ Shutdown(c)
      PROVE  Owed(d)'
  <2>1. \A m \in Loops : Moves(m, 0, 0, D(d))
    BY <1>3, MovesNone DEF PeerCloses, Shutdown
  <2>2. /\ conn'[d].loop = conn[d].loop /\ conn'[d].told = conn[d].told
        /\ conn'[d].index_ = conn[d].index_
        /\ \/ conn'[d].state_ = conn[d].state_
           \/ /\ conn[d].state_ = "kConnected"
              /\ conn'[d].state_ = "kDisconnecting"
    <3>1. CASE d # c
      BY <1>3, <1>b, <3>1 DEF PeerCloses, Shutdown
    <3>2. CASE d = c /\ PeerCloses(c)
      BY <1>b, <3>2, ChangesType DEF PeerCloses
    <3>3. CASE d = c /\ Shutdown(c)
      BY <1>b, <3>3, ChangesType DEF Shutdown
    <3>. QED
      BY <1>3, <3>1, <3>2, <3>3
  <2>. QED
    BY <1>1, <1>3, <2>1, <2>2 DEF PeerCloses, Shutdown
<1>4. ASSUME NEW l \in Loops, SwapFunctors(l) \/ FinishFunctors(l)
      PROVE  Owed(d)'
  <2>1. \A m \in Loops : \/ Moves(m, 0, 0, D(d))
                         \/ Waits(m)' = 0 /\ LoopGone(m)'
    BY <1>4, MovesTurn
  <2>. QED
    BY <1>1, <1>4, <2>1 DEF SwapFunctors, FinishFunctors
<1>5. CASE DestroyMainLoop
  <2>1. \A m \in Loops \ {Main} : Moves(m, 0, 0, D(d))
    BY <1>5, QueueTypes, MovesNone DEF DestroyMainLoop
  <2>2. Waits(Main)' = 0 /\ LoopGone(Main)'
    BY <1>5, <1>a, MainLoopEmptied
  <2>. QED
    BY <1>1, <1>5, <2>1, <2>2 DEF DestroyMainLoop
\* What another connection's step does to d.
<1>6. ASSUME NEW c \in Conns, d # c, NEW x, NEW y \in {E(c), D(c), R(c)},
             Shift(x, y), conn' = [conn EXCEPT ![c] = conn'[c]],
             connections_' \in {connections_, connections_ \cup {c},
                                connections_ \ {c}},
             UNCHANGED server, d < nextConnId_' => d < nextConnId_
      PROVE  Owed(d)'
  <2>1. conn'[d] = conn[d] /\ (d \in connections_' <=> d \in connections_)
    BY <1>6, <1>b
  <2>2. y # E(d) /\ y # D(d) /\ y # R(d)
    BY <1>6, <1>e
  <2>3. \A m \in Loops : /\ Has(m, D(d)) => Has(m, D(d))'
                         /\ Has(m, E(d)) => Has(m, E(d))'
                         /\ Has(m, R(d)) => Has(m, R(d))'
    BY <1>6, <2>2, ShiftKeeps
  <2>. QED
    BY <1>6, <1>b, <1>d, <1>f, <2>1, <2>3, OwedKept
<1>7. ASSUME NEW l \in Loops, NEW c \in Conns, HandleClose(l, c)
      PROVE  Owed(d)'
  <2>1. /\ conn[c].index_ = "kAdded" /\ conn[c].loop = l
        /\ conn'[c] = Disconnected(conn[c])
        /\ conn' = [conn EXCEPT ![c] = conn'[c]]
        /\ UNCHANGED <<connections_, server, nextConnId_>> /\ Shift(R(c), R(c))
    BY <1>7, <1>a, <1>b, CloseMoves DEF HandleClose, Handle, Reported
  <2>2. CASE d = c
    <3>1. conn[d].told = <<"up">>
      BY <1>d, <2>1, <2>2 DEF Told
    <3>2. /\ conn'[d].state_ = "kDisconnected" /\ conn'[d].loop = conn[d].loop
          /\ conn'[d].told = <<"up", "down">>
      <4>1. conn[d] \in Connection /\ conn'[d] = Disconnected(conn[d])
        BY <1>b, <2>1, <2>2
      <4>2. conn'[d].told = Append(<<"up">>, "down")
        BY <3>1, <4>1, DisconnectedType
      <4>3. conn'[d].state_ = "kDisconnected" /\ conn'[d].loop = conn[d].loop
        BY <4>1, DisconnectedType
      <4>. QED
        BY <1>s, <4>2, <4>3
    <3>3. /\ Has(Main, R(d))'
          /\ \A m \in Loops : Has(m, D(d)) => Has(m, D(d))'
      BY <1>7, <2>2, ClosePushes
    <3>4. ~BeenDestroyed(d)
      BY <2>1, <2>2 DEF BeenDestroyed
    <3>. QED
      BY <1>d, <1>f, <1>s, <2>1, <3>2, <3>3, <3>4 DEF Owed
  <2>. QED
    BY <1>6, <2>1, <2>2
<1>8. ASSUME NEW c \in Conns, HandleCloseInMain(c)
      PROVE  Owed(d)'
  <2>1. /\ conn[c].index_ = "kAdded" /\ conn[c].loop = Main
        /\ conn'[c] = Disconnected(conn[c])
        /\ conn' = [conn EXCEPT ![c] = conn'[c]]
        /\ connections_' = connections_ \ {c}
        /\ UNCHANGED <<server, nextConnId_>>
    BY <1>8, <1>a, <1>b DEF HandleCloseInMain, Handle, Reported
  <2>2. Shift(D(c), E(c)) /\ Has(Main, D(c))'
    BY <1>8, <2>1, CloseInMainMoves
  <2>3. CASE d = c
    <3>1. conn[d].told = <<"up">>
      BY <1>d, <2>1, <2>3 DEF Told
    <3>2. /\ conn'[d].state_ = "kDisconnected" /\ conn'[d].loop = Main
          /\ conn'[d].told = <<"up", "down">>
      <4>1. conn[d] \in Connection /\ conn'[d] = Disconnected(conn[d])
        BY <1>b, <2>1, <2>3
      <4>2. conn'[d].told = Append(<<"up">>, "down")
        BY <3>1, <4>1, DisconnectedType
      <4>3. conn'[d].state_ = "kDisconnected" /\ conn'[d].loop = conn[d].loop
        BY <4>1, DisconnectedType
      <4>. QED
        BY <1>s, <2>1, <2>3, <4>2, <4>3
    <3>. QED
      BY <1>s, <2>1, <2>2, <2>3, <3>2 DEF Owed
  <2>. QED
    BY <1>6, <2>1, <2>2, <2>3
<1>9. ASSUME NEW l \in Loops, NEW c \in Conns, ConnectDestroyed(l, c)
      PROVE  Owed(d)'
  <2>1. /\ Shift(E(c), D(c)) /\ Moves(l, 1, 0, R(c)) /\ Nth(l, 1) = D(c)
        /\ conn'[c] = Destroyed(conn[c]) /\ conn' = [conn EXCEPT ![c] = conn'[c]]
        /\ UNCHANGED <<connections_, server, nextConnId_>>
        /\ phase[l] = "functors"
    <3>1. Run(l, D(c).run, c) /\ UNCHANGED pendingFunctors_
      BY <1>9, <1>e DEF ConnectDestroyed
    <3>2. Shift(E(c), D(c)) /\ Moves(l, 1, 0, R(c)) /\ Nth(l, 1) = D(c)
      BY <1>e, <3>1, QueueTypes, RunMoves
    <3>. QED
      BY <1>9, <1>b, <3>2 DEF ConnectDestroyed, Run
  <2>2. CASE d = c
    <3>1. Has(l, D(d)) /\ ~Has(l, E(d))
      <4>1. Before(l, d) /\ R(c) # E(d) /\ 0 \in {0, 1}
        BY <1>d, <1>e DEF Line
      <4>. QED
        BY <2>1, <2>2, <4>1, MovesFront
    <3>2. l = conn[d].loop /\ ~(d >= nextConnId_)
      BY <1>a, <3>1, QueueHome
    <3>3. ~LoopGone(l)
      BY <1>c, <2>1 DEF LoopGone
    <3>4. d < nextConnId_
      BY <3>2 DEF TypeOK, Conns
    <3>5. conn[d].state_ # "kConnecting" /\ d \notin connections_
      BY <1>d, <3>1, <3>2, <3>3, <3>4 DEF Owed, Once
    <3>6. /\ conn'[d].index_ = "kNew" /\ conn'[d].loop = conn[d].loop
          /\ conn[d].state_ = "kConnected" =>
               /\ conn'[d].state_ = "kDisconnected"
               /\ conn'[d].told = Append(conn[d].told, "down")
          /\ conn[d].state_ # "kConnected" =>
               /\ conn'[d].state_ = conn[d].state_
               /\ conn'[d].told = conn[d].told
      BY <1>b, <2>1, <2>2, DestroyedType
    <3>7. conn[d].state_ = "kConnected" =>
            conn[d].told = <<"up">> /\ conn'[d].told = <<"up", "down">>
      BY <1>d, <1>s, <3>6 DEF Told
    <3>8. BeenDestroyed(d)'
      BY <3>5, <3>6 DEF BeenDestroyed
    <3>9. conn'[d].state_ = "kDisconnected" => conn'[d].told = <<"up", "down">>
      BY <1>d, <3>4, <3>6, <3>7 DEF Owed
    <3>10. server = "serving" =>
             conn'[d].told # <<>> /\ conn'[d].told # <<"up">>
      BY <1>d, <1>s, <3>4, <3>5, <3>6, <3>7 DEF Owed
    <3>. QED
      BY <2>1, <3>5, <3>6, <3>8, <3>9, <3>10 DEF Owed
  <2>. QED
    BY <1>6, <2>1, <2>2
<1>10. ASSUME NEW c \in Conns, RemoveConnectionInLoop(c)
       PROVE  Owed(d)'
  <2>1. /\ UNCHANGED <<conn, server, nextConnId_>>
        /\ connections_' = connections_ \ {c}
        /\ Shift(D(c), R(c))
    BY <1>10, RemoveMoves DEF RemoveConnectionInLoop, Run
  <2>2. PICK a \in {0, 1} : Moves(Main, 1, a, D(c)) /\ Nth(Main, 1) = R(c)
    BY <1>10, RemoveMoves
  <2>3. CASE d = c
    <3>1. Has(Main, R(d))
      BY <1>b, <2>2, <2>3, WaitsType DEF Moves, Has
    <3>2. conn[d].index_ # "kAdded" /\ conn[d].state_ # "kConnecting"
      BY <1>b, <1>d, <3>1 DEF Once
    <3>3. PICK l \in Loops : l = conn[c].loop
      BY <1>b
    <3>4. Has(l, D(d))'
      BY <1>10, <2>1, <2>3, <3>3, RemoveMoves
    <3>5. ASSUME d < nextConnId_, server = "serving"
          PROVE  conn[d].told # <<>> /\ conn[d].told # <<"up">>
      BY <1>d, <1>h, <3>2, <3>5 DEF Owed
    <3>. QED
      BY <1>d, <2>1, <2>3, <3>2, <3>3, <3>4, <3>5 DEF Owed
  <2>4. conn' = [conn EXCEPT ![c] = conn'[c]]
    BY <1>b, <2>1
  <2>. QED
    BY <1>6, <2>1, <2>3, <2>4
<1>11. ASSUME NEW c \in Conns, DestroyItem(c)
       PROVE  Owed(d)'
  <2>1. /\ UNCHANGED <<server, nextConnId_>> /\ server = "dtor"
        /\ c \in connections_
        /\ connections_' = connections_ \ {c} /\ Shift(D(c), E(c))
        /\ conn' = [conn EXCEPT ![c] = conn'[c]]
    BY <1>11, <1>b, DestroyItemMoves DEF DestroyItem
  <2>2. CASE d = c
    <3>1. CASE conn[c].loop = Main
      <4>1. conn'[d] = Destroyed(conn[d])
        BY <1>11, <1>b, <2>2, <3>1 DEF DestroyItem
      <4>2. /\ conn'[d].index_ = "kNew" /\ conn'[d].loop = conn[d].loop
            /\ conn[d].state_ = "kConnected" =>
                 /\ conn'[d].state_ = "kDisconnected"
                 /\ conn'[d].told = Append(conn[d].told, "down")
            /\ conn[d].state_ # "kConnected" =>
                 /\ conn'[d].state_ = conn[d].state_
                 /\ conn'[d].told = conn[d].told
        BY <1>b, <4>1, DestroyedType
      <4>3. d < nextConnId_ => conn[d].state_ # "kConnecting"
        <5>1. ~Has(Main, E(d)) /\ ~LoopGone(Main)
          BY <1>b, <1>d, <2>1 DEF Line, LoopGone
        <5>. QED
          BY <1>b, <1>d, <2>2, <3>1, <5>1 DEF Owed
      <4>4. conn[d].state_ = "kConnected" => conn'[d].told = <<"up", "down">>
        BY <1>d, <1>s, <4>2 DEF Told
      <4>5. d < nextConnId_ => BeenDestroyed(d)' /\ conn'[d].state_ # "kConnecting"
        BY <4>2, <4>3 DEF BeenDestroyed
      <4>6. d < nextConnId_ /\ conn'[d].state_ = "kDisconnected" =>
              conn'[d].told = <<"up", "down">>
        BY <1>d, <4>2, <4>4 DEF Owed
      <4>. QED
        BY <2>1, <4>5, <4>6 DEF Owed
    <3>2. CASE conn[c].loop # Main
      <4>1. conn' = conn
        BY <1>11, <3>2 DEF DestroyItem
      <4>2. PICK l \in Loops : l = conn[c].loop
        BY <1>b
      <4>3. Has(l, D(d))'
        BY <1>11, <2>2, <3>2, <4>1, <4>2, DestroyItemMoves
      <4>4. \A m \in Loops : Has(m, E(d)) => Has(m, E(d))'
        BY <1>11, DestroyItemKeeps
      <4>. QED
        BY <1>d, <1>f, <2>1, <2>2, <4>1, <4>2, <4>3, <4>4 DEF Owed
    <3>. QED
      BY <3>1, <3>2
  <2>. QED
    BY <1>6, <2>1, <2>2
<1>12. ASSUME NEW l \in Loops, NEW c \in Conns, ConnectEstablished(l, c)
       PROVE  Owed(d)'
  <2>1. /\ Shift(E(c), E(c)) /\ Moves(l, 1, 0, E(c)) /\ Nth(l, 1) = E(c)
        /\ conn'[c] = Established(conn[c]) /\ conn' = [conn EXCEPT ![c] = conn'[c]]
        /\ UNCHANGED <<connections_, server, nextConnId_>>
    <3>1. Run(l, E(c).run, c) /\ UNCHANGED pendingFunctors_
      BY <1>12, <1>e DEF ConnectEstablished
    <3>2. Shift(E(c), E(c)) /\ Moves(l, 1, 0, E(c)) /\ Nth(l, 1) = E(c)
      BY <1>e, <3>1, RunMoves
    <3>. QED
      BY <1>12, <1>b, <3>2 DEF ConnectEstablished, Run
  <2>2. CASE d = c
    <3>1. Has(l, E(d))
      BY <2>1, <2>2, WaitsType DEF Moves, Has
    <3>2. conn[d].state_ = "kConnecting"
      BY <1>d, <3>1 DEF Line
    <3>3. conn[d].told = <<>> /\ ~BeenDestroyed(d)
      BY <1>d, <3>2 DEF Told, BeenDestroyed
    <3>4. /\ conn'[d].state_ = "kConnected" /\ conn'[d].index_ = "kAdded"
          /\ conn'[d].loop = conn[d].loop /\ conn'[d].told = <<"up">>
      BY <1>b, <1>s, <2>1, <2>2, <3>3, EstablishedType
    <3>5. \A m \in Loops : Has(m, D(d)) => Has(m, D(d))'
      BY <1>e, <2>1, <2>2, ShiftKeeps
    <3>. QED
      BY <1>d, <1>f, <1>s, <2>1, <3>3, <3>4, <3>5 DEF Owed
  <2>. QED
    BY <1>6, <2>1, <2>2
<1>13. CASE Accept
  <2>1. nextConnId_ \in Conns /\ nextConnId_' = nextConnId_ + 1
    BY <1>13, MaxConnsAssumption DEF Accept, TypeOK, Conns
  <2>2. PICK c \in Conns : c = nextConnId_
    BY <2>1
  <2>3. PICK l \in Loops : l = NextLoop
    BY NextLoopType
  <2>4. /\ Shift(E(c), E(c)) /\ UNCHANGED server
        /\ connections_' = connections_ \cup {c}
        /\ conn' = [conn EXCEPT ![c] = conn'[c]]
        /\ l = Main => conn'[c] = Established([NoConnection EXCEPT !.loop = l])
        /\ l # Main => conn'[c] = [NoConnection EXCEPT !.loop = l]
    BY <1>13, <1>b, <2>2, <2>3, AcceptMoves DEF Accept
  <2>5. CASE d = c
    <3>. DEFINE r == [NoConnection EXCEPT !.loop = l]
    <3>1. /\ r \in Connection /\ r.loop = l /\ r.state_ = "kConnecting"
          /\ r.told = <<>>
      BY NoConnectionType
    <3>2. (l = Main => conn'[d] = Established(r)) /\ (l # Main => conn'[d] = r)
      BY <2>4, <2>5
    <3>. HIDE DEF r
    <3>3. CASE l = Main
      <4>1. /\ conn'[d].state_ = "kConnected" /\ conn'[d].index_ = "kAdded"
            /\ conn'[d].told = <<"up">>
        BY <1>s, <3>1, <3>2, <3>3, EstablishedType
      <4>. QED
        BY <1>s, <2>4, <2>5, <4>1 DEF Owed
    <3>4. CASE l # Main
      <4>1. /\ conn'[d].state_ = "kConnecting" /\ conn'[d].loop = l
            /\ conn'[d].told = <<>>
        BY <3>1, <3>2, <3>4
      <4>2. Has(l, E(d))'
        <5>1. Moves(l, 0, 1, E(c)) /\ 0 \in Nat /\ 1 \in {0, 1}
          BY <1>13, <2>2, <2>3, <3>4, AcceptMoves
        <5>. QED
          BY <2>5, <5>1, MovesLaw
      <4>. QED
        BY <1>s, <2>4, <2>5, <4>1, <4>2 DEF Owed
    <3>. QED
      BY <3>3, <3>4
  <2>6. CASE d # c
    <3>1. d < nextConnId_' => d < nextConnId_
      BY <2>1, <2>2, <2>6 DEF Conns
    <3>. QED
      BY <1>6, <2>4, <2>6, <3>1
  <2>. QED
    BY <2>5, <2>6
<1>14. ASSUME Environment PROVE Owed(d)'
  BY <1>2, <1>3, <1>14 DEF Environment, SetThreadNum, Start,
    ClientConnects, QuitMain, Destroy
<1>15. ASSUME MainStep \/ DestructorStep PROVE Owed(d)'
  BY <1>2, <1>5, <1>8, <1>10, <1>11, <1>13, <1>15 DEF MainStep, DestructorStep,
    AcceptFails, QuitThread, EndsNext, DestroyAcceptor
<1>16. ASSUME NEW l \in Loops, LoopStep(l) PROVE Owed(d)'
  BY <1>2, <1>4, <1>7, <1>9, <1>12, <1>16 DEF LoopStep, EnterLoop, PollReturn
<1>. QED
  BY <1>2, <1>14, <1>15, <1>16 DEF Next, vars

\* NoneLost holds for any number of threads and connections: at every moment of
\* the hops between the loops, and of ~TcpServer, somebody still has the
\* connection to end.
THEOREM ServerLosesNone == Spec => []NoneLost
<1>1. TypeOK /\ HomeInv /\ LiveInv /\ OwedInv => NoneLost
  <2>. SUFFICES ASSUME TypeOK, HomeInv, LiveInv, OwedInv,
                       NEW c \in 1 .. nextConnId_ - 1
                PROVE  /\ \/ c \in connections_
                          \/ Queued(c, "connectDestroyed") # {}
                          \/ BeenDestroyed(c) \/ LoopGone(conn[c].loop)
                       /\ server = "serving" =>
                            /\ conn[c].told = <<>> =>
                                 /\ c \in connections_
                                 /\ Queued(c, "connectEstablished") # {}
                            /\ conn[c].told = <<"up">> =>
                                 c \in connections_ /\ conn[c].index_ = "kAdded"
                            /\ c \in connections_
                                 /\ conn[c].told = <<"up", "down">> =>
                                 Queued(c, "removeConnectionInLoop") # {}
    BY DEF NoneLost
  <2>1. c \in Conns /\ c < nextConnId_
    BY MaxConnsAssumption DEF TypeOK, Conns
  <2>2. Owed(c) /\ Told(c) /\ Life
    BY <2>1 DEF LiveInv, OwedInv, HomeInv
  <2>3. PICK l \in Loops : l = conn[c].loop
    BY <2>1, QueueTypes
  <2>4. \A m \in Loops :
          /\ Has(m, D(c)) => Queued(c, "connectDestroyed") # {}
          /\ Has(m, E(c)) => Queued(c, "connectEstablished") # {}
          /\ Has(m, R(c)) => Queued(c, "removeConnectionInLoop") # {}
    <3>1. ASSUME NEW m \in Loops, NEW run, Has(m, [run |-> run, conn |-> c])
          PROVE  Queued(c, run) # {}
      <4>1. PICK i \in 1 .. Waits(m) : Nth(m, i) = [run |-> run, conn |-> c]
        BY <3>1 DEF Has
      <4>2. <<m, i>> \in Queued(c, run)
        BY <2>1, <4>1, QueuedIn
      <4>. QED
        BY <4>2
    <3>. QED
      BY <3>1 DEF D, E, R
  <2>5. ASSUME server = "serving", conn[c].told = <<>>
        PROVE  Has(l, E(c))
    <3>1. conn[c].state_ \in {"kConnecting", "kConnected", "kDisconnecting",
                              "kDisconnected"}
      BY <2>1 DEF TypeOK, Connection
    <3>2. <<>> # <<"up">> /\ <<>> # <<"up", "down">>
      OBVIOUS
    <3>3. conn[c].state_ = "kConnecting"
      BY <2>1, <2>2, <2>5, <3>1, <3>2 DEF Told, Owed
    <3>4. ~LoopGone(l)
      BY <2>2, <2>5 DEF Life, LoopGone
    <3>. QED
      BY <2>1, <2>2, <2>3, <3>3, <3>4 DEF Owed
  <2>6. Main \in Loops
    BY QueueTypes
  <2>. QED
    BY <2>1, <2>2, <2>3, <2>4, <2>5, <2>6 DEF Owed
<1>2. Init => OwedInv
  BY DEF Init, OwedInv, Owed, Conns
<1>3. /\ TypeOK /\ HomeInv /\ LiveInv /\ Silent
      /\ (TypeOK /\ HomeInv /\ LiveInv /\ Silent)' /\ OnceInv /\ [Next]_vars
      => OnceInv'
  BY OnceStep
<1>4. /\ TypeOK /\ HomeInv /\ LiveInv /\ Silent /\ OnceInv
      /\ (TypeOK /\ HomeInv /\ LiveInv /\ Silent)' /\ OwedInv /\ [Next]_vars
      => OwedInv'
  BY OwedStep
<1>. QED
  BY <1>1, <1>2, <1>3, <1>4, OnceInit, ServerInvariant, PTL DEF Spec

-----------------------------------------------------------------------------
(***************************************************************************)
(* TcpServer implements ServerPromise.                                     *)
(***************************************************************************)
Exists == server \in {"serving", "dtor"}

LEMMA QuietStep ==
  ASSUME \A c \in Conns : conn'[c].told = conn[c].told, Exists' = Exists
  PROVE  [Promise!SPNext]_(Promise!spVars)
BY DEF Promise!spVars, Exists

LEMMA DestructorReturnsStep ==
  ASSUME UNCHANGED conn, Exists, ~Exists'
  PROVE  [Promise!SPNext]_(Promise!spVars)
BY DEF Promise!SPNext, Promise!DestructorReturns, Exists

\* One connection is told something, the others nothing.
LEMMA SaidStep ==
  ASSUME NEW c \in Conns, conn \in [Conns -> Connection],
         conn' = [conn EXCEPT ![c] = conn'[c]], Exists, UNCHANGED server,
         \/ conn[c].told = <<>> /\ conn'[c].told = Append(<<>>, "up")
         \/ conn[c].told = <<"up">> /\ conn'[c].told = Append(<<"up">>, "down")
         \/ conn'[c].told = conn[c].told
  PROVE  [Promise!SPNext]_(Promise!spVars)
<1>. DEFINE said == [d \in Conns |-> conn[d].told]
<1>1. \A d \in Conns : d # c => conn'[d] = conn[d]
  OBVIOUS
<1>2. said' = [said EXCEPT ![c] = conn'[c].told]
  BY <1>1
<1>3. Exists' = Exists
  BY DEF Exists
<1>4. said[c] = conn[c].told
  OBVIOUS
<1>5. CASE conn'[c].told = conn[c].told
  BY <1>1, <1>3, <1>5, QuietStep
<1>6. CASE conn[c].told = <<>> /\ conn'[c].told = Append(<<>>, "up")
  <2>1. Promise!SayUp(c)
    BY <1>2, <1>4, <1>6 DEF Promise!SayUp, Exists
  <2>. QED
    BY <2>1 DEF Promise!SPNext
<1>7. CASE conn[c].told = <<"up">> /\ conn'[c].told = Append(<<"up">>, "down")
  <2>1. Promise!SayDown(c)
    BY <1>2, <1>4, <1>7 DEF Promise!SayDown, Exists
  <2>. QED
    BY <2>1 DEF Promise!SPNext
<1>. QED
  BY <1>5, <1>6, <1>7

LEMMA PromiseStep ==
  TypeOK /\ HomeInv /\ LiveInv /\ Silent /\ [Next]_vars
    => [Promise!SPNext]_(Promise!spVars)
<1>. SUFFICES ASSUME TypeOK, HomeInv, LiveInv, Silent, [Next]_vars
              PROVE  [Promise!SPNext]_(Promise!spVars)
  OBVIOUS
<1>. DEFINE Goal == [Promise!SPNext]_(Promise!spVars)
<1>. USE MaxThreadsAssumption
     DEF setupVars, acceptVars, connVars, queueVars, loopVars,
         destructVars
<1>a. Life /\ FunctorsAtHome /\ Fresh /\ Reported
  BY DEF HomeInv
<1>b. Main \in Loops /\ conn \in [Conns -> Connection]
  <2>1. Main \in Loops
    BY DEF Main, Loops
  <2>. QED
    BY <2>1 DEF TypeOK
<1>c. \A l \in Loops : phase[l] \in InLoop => Exists
  BY <1>a DEF TypeOK, Life, InLoop, Exists
<1>d. \A c \in Conns : conn[c] \in Connection /\ Line(c) /\ Told(c)
  BY <1>b DEF LiveInv
<1>1. ASSUME conn' = conn, server' = server PROVE Goal
  BY <1>1, QuietStep DEF Exists
<1>2. ASSUME NEW n \in 0 .. MaxThreads,
             SetThreadNum(n) \/ Start \/ ClientConnects \/ QuitMain
               \/ AcceptFails
      PROVE  Goal
  BY <1>1, <1>2 DEF SetThreadNum, Start, ClientConnects, QuitMain,
    AcceptFails
<1>3. ASSUME NEW l \in Loops,
             \/ EnterLoop(l) \/ PollReturn(l) \/ SwapFunctors(l)
             \/ FinishFunctors(l)
      PROVE  Goal
  BY <1>1, <1>3 DEF EnterLoop, PollReturn, SwapFunctors, FinishFunctors
<1>4. ASSUME NEW k \in IoLoops, QuitThread(k) PROVE Goal
  BY <1>1, <1>4 DEF QuitThread, EndsNext
<1>5. CASE UNCHANGED vars
  BY <1>1, <1>5 DEF vars
<1>6. ASSUME Destroy \/ DestroyMainLoop PROVE Goal
  <2>1. conn' = conn /\ Exists' = Exists
    BY <1>6 DEF Destroy, DestroyMainLoop, Exists
  <2>. QED
    BY <2>1, QuietStep
<1>7. ASSUME DestroyAcceptor PROVE Goal
  <2>1. conn' = conn /\ Exists /\ ~Exists'
    BY <1>7 DEF DestroyAcceptor, Exists
  <2>. QED
    BY <2>1, DestructorReturnsStep
<1>8. ASSUME NEW c \in Conns, PeerCloses(c) \/ Shutdown(c) PROVE Goal
  <2>1. conn'[c].told = conn[c].told
    <3>1. CASE PeerCloses(c)
      BY <1>b, <1>d, <3>1, ChangesType DEF PeerCloses
    <3>2. CASE Shutdown(c)
      BY <1>b, <1>d, <3>2, ChangesType DEF Shutdown
    <3>. QED
      BY <1>8, <3>1, <3>2
  <2>2. \A d \in Conns \ {c} : conn'[d] = conn[d]
    BY <1>8, <1>b DEF PeerCloses, Shutdown
  <2>3. \A d \in Conns : conn'[d].told = conn[d].told
    BY <2>1, <2>2
  <2>4. Exists' = Exists
    BY <1>8 DEF PeerCloses, Shutdown, Exists
  <2>. QED
    BY <2>3, <2>4, QuietStep
<1>9. ASSUME NEW l \in Loops, NEW c \in Conns,
             HandleClose(l, c) \/ (l = Main /\ HandleCloseInMain(c))
      PROVE  Goal
  <2>1. /\ c \in active[l] /\ phase[l] = "events" /\ server' = server
        /\ conn'[c] = Disconnected(conn[c]) /\ conn' = [conn EXCEPT ![c] = conn'[c]]
    BY <1>9, <1>b DEF HandleClose, HandleCloseInMain, Handle
  <2>2. conn[c].told = <<"up">>
    BY <1>a, <1>d, <2>1 DEF Reported, Told
  <2>3. conn'[c].told = Append(<<"up">>, "down")
    BY <1>d, <2>1, <2>2, DisconnectedType
  <2>4. Exists
    BY <1>c, <2>1 DEF InLoop
  <2>. QED
    BY <1>b, <2>1, <2>2, <2>3, <2>4, SaidStep
\* connectDestroyed, wherever it is called.
<1>10. ASSUME NEW c \in Conns, conn' = [conn EXCEPT ![c] = conn'[c]],
              conn'[c] = Destroyed(conn[c]), Exists, server' = server
       PROVE  Goal
  <2>1. CASE conn[c].state_ = "kConnected"
    <3>1. conn[c].told = <<"up">>
      BY <1>d, <2>1 DEF Told
    <3>2. conn'[c].told = Append(<<"up">>, "down")
      BY <1>d, <1>10, <2>1, <3>1, DestroyedType
    <3>. QED
      BY <1>b, <1>10, <3>1, <3>2, SaidStep
  <2>2. CASE conn[c].state_ # "kConnected"
    <3>1. conn'[c].told = conn[c].told
      BY <1>d, <1>10, <2>2, DestroyedType
    <3>. QED
      BY <1>b, <1>10, <3>1, SaidStep
  <2>. QED
    BY <2>1, <2>2
<1>11. ASSUME NEW l \in Loops, NEW c \in Conns, ConnectDestroyed(l, c)
       PROVE  Goal
  <2>1. /\ conn'[c] = Destroyed(conn[c]) /\ conn' = [conn EXCEPT ![c] = conn'[c]]
        /\ server' = server /\ phase[l] = "functors"
    BY <1>11, <1>b DEF ConnectDestroyed, Run
  <2>2. Exists
    BY <1>c, <2>1 DEF InLoop
  <2>. QED
    BY <1>10, <2>1, <2>2
<1>12. ASSUME NEW c \in Conns, RemoveConnectionInLoop(c) PROVE Goal
  BY <1>1, <1>12 DEF RemoveConnectionInLoop, Run
<1>13. ASSUME NEW c \in Conns, DestroyItem(c) PROVE Goal
  <2>1. CASE conn[c].loop # Main
    BY <1>1, <1>13, <2>1 DEF DestroyItem
  <2>2. CASE conn[c].loop = Main
    <3>1. /\ conn'[c] = Destroyed(conn[c])
          /\ conn' = [conn EXCEPT ![c] = conn'[c]]
          /\ server' = server /\ Exists
      BY <1>13, <1>b, <2>2 DEF DestroyItem, Exists
    <3>. QED
      BY <1>10, <3>1
  <2>. QED
    BY <2>1, <2>2
<1>14. ASSUME NEW l \in Loops, NEW c \in Conns, ConnectEstablished(l, c)
       PROVE  Goal
  <2>1. /\ conn'[c] = Established(conn[c]) /\ conn' = [conn EXCEPT ![c] = conn'[c]]
        /\ server' = server /\ phase[l] = "functors"
    BY <1>14, <1>b DEF ConnectEstablished, Run
  <2>2. Has(l, E(c))
    <3>1. /\ ran[l] < Len(functors[l]) /\ functors[l][ran[l] + 1] = E(c)
          /\ functors' = functors /\ ran'[l] = ran[l] + 1
          /\ pendingFunctors_' = pendingFunctors_
      BY <1>14 DEF ConnectEstablished, Run, E, TypeOK
    <3>2. E(c) \in Functors /\ 0 \in {0, 1} /\ D(c) # E(c)
      BY DEF E, D, Functors, Runs
    <3>3. Moves(l, 1, 0, E(c)) /\ Nth(l, 1) = E(c)
      BY <3>1, <3>2, MovesRun
    <3>4. Waits(l) \in Nat /\ 1 <= Waits(l)
      BY <3>3, WaitsType DEF Moves
    <3>. QED
      BY <3>3, <3>4 DEF Has
  <2>3. conn[c].told = <<>>
    BY <1>d, <2>2 DEF Line, Told
  <2>4. conn'[c].told = Append(<<>>, "up")
    BY <1>d, <2>1, <2>3, EstablishedType
  <2>5. Exists
    BY <1>c, <2>1 DEF InLoop
  <2>. QED
    BY <1>b, <2>1, <2>3, <2>4, <2>5, SaidStep
<1>15. ASSUME Accept PROVE Goal
  <2>1. nextConnId_ \in Conns
    BY <1>15, MaxConnsAssumption DEF Accept, TypeOK, Conns
  <2>2. PICK c \in Conns : c = nextConnId_
    BY <2>1
  <2>. DEFINE r == [NoConnection EXCEPT !.loop = NextLoop]
  <2>3. r \in Connection /\ r.told = <<>>
    BY NoConnectionType, NextLoopType
  <2>4. /\ conn' = [conn EXCEPT ![c] = conn'[c]] /\ server' = server
        /\ conn'[c] = Established(r) \/ conn'[c] = r
        /\ phase[Main] = "events"
    BY <1>15, <1>b, <2>2 DEF Accept, Handle
  <2>. HIDE DEF r
  <2>5. conn[c].told = <<>>
    <3>1. conn[c].state_ = "kConnecting"
      BY <2>2 DEF Silent, TypeOK
    <3>. QED
      BY <1>d, <3>1 DEF Told
  <2>6. \/ conn'[c].told = Append(<<>>, "up")
        \/ conn'[c].told = conn[c].told
    BY <2>3, <2>4, <2>5, EstablishedType
  <2>7. Exists
    BY <1>b, <1>c, <2>4 DEF InLoop
  <2>. QED
    BY <1>b, <2>4, <2>5, <2>6, <2>7, SaidStep
<1>. HIDE DEF Goal
<1>16. ASSUME Environment PROVE Goal
  <2>1. 0 \in 0 .. MaxThreads
    OBVIOUS
  <2>. QED
    BY <1>2, <1>6, <1>8, <1>16, <2>1 DEF Environment
<1>17. ASSUME MainStep \/ DestructorStep PROVE Goal
  <2>1. 0 \in 0 .. MaxThreads
    OBVIOUS
  <2>. QED
    BY <1>b, <1>2, <1>4, <1>6, <1>7, <1>9, <1>12, <1>13, <1>15, <1>17, <2>1
    DEF MainStep, DestructorStep
<1>18. ASSUME NEW l \in Loops, LoopStep(l) PROVE Goal
  BY <1>3, <1>9, <1>11, <1>14, <1>18 DEF LoopStep
<1>. QED
  BY <1>5, <1>16, <1>17, <1>18 DEF Next, Goal

\* Every run of the server is a run of ServerPromise: it says "up" once, then
\* "down" at most once, and nothing after the destructor, for any number of
\* threads and connections.
THEOREM ServerImplementsPromise == Spec => ImplementsPromise
<1>1. Init => Promise!SPInit
  <2>. SUFFICES ASSUME Init PROVE Promise!SPInit
    OBVIOUS
  <2>1. \A c \in Conns : conn[c].told = <<>>
    BY DEF Init, NoConnection
  <2>2. server \in {"serving", "dtor"}
    BY DEF Init
  <2>. QED
    BY <2>1, <2>2 DEF Promise!SPInit
<1>2. TypeOK /\ HomeInv /\ LiveInv /\ Silent /\ [Next]_vars
        => [Promise!SPNext]_(Promise!spVars)
  BY PromiseStep
<1>. QED
  BY <1>1, <1>2, ServerInvariant, PTL DEF Spec, ImplementsPromise,
     Promise!SPSpec
=============================================================================

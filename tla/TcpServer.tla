------------------------------ MODULE TcpServer ------------------------------
(***************************************************************************)
(* TcpServer with its Acceptor, the loops it hands connections to and the  *)
(* TcpConnectionPtrs that keep a connection and its descriptor alive: how  *)
(* a connection is accepted in the main loop, established in its io loop,  *)
(* closed there, erased from connections_ in the main loop and destroyed   *)
(* in its io loop again, and how ~TcpServer ends what is left.             *)
(*                                                                         *)
(* A loop's turn is EventLoop::loop's: poll, the handlers of the channels  *)
(* it reported, then the functors queued until then; quit_ is tested in    *)
(* the step that ends the turn.  A handler or functor is one step: what it *)
(* does to its connection only its own thread sees, and it makes at most   *)
(* one call that other threads see, a push to a loop's pendingFunctors_.   *)
(* Bytes, wakeups and how EventLoopThreadPool starts its threads are the   *)
(* business of modules TcpConnection, EventLoop and EventLoopThreadPool;   *)
(* the threads are here from where their loop_ is published, outside       *)
(* loop().                                                                 *)
(*                                                                         *)
(* Assumed of the user, as in testcode/testserver.cc: setThreadNum and     *)
(* start come before loop(), the server is destroyed after loop() has      *)
(* returned and before its EventLoop, no TcpConnectionPtr is kept outside  *)
(* the callbacks, and callbacks quit no io loop.                           *)
(***************************************************************************)
EXTENDS Naturals, Sequences, FiniteSets, ChannelOps

CONSTANTS
  MaxThreads,               \* bound: setThreadNum
  MaxConns,                 \* bound: clients that connect
  Descriptors               \* descriptors the process has for connections

ASSUME MaxThreadsAssumption == MaxThreads \in Nat
ASSUME MaxConnsAssumption == MaxConns \in Nat
ASSUME DescriptorsAssumption == Descriptors \in Nat

VARIABLES
  numThreads_, started_,
  listenning_,              \* the Acceptor's channel is registered
  waiting,                  \* clients the kernel holds for accept
  nextConnId_,
  next_,                    \* EventLoopThreadPool's
  connections_,
  conn,                     \* the TcpConnection made for each nextConnId_
  phase,                    \* where each loop's thread stands
  active,                   \* activeChannels_ not handled yet
  pendingFunctors_,
  functors, ran,            \* doPendingFunctors' vector, and how many of it
                            \* have been run
  quit_,
  server,                   \* how far the server's destruction is
  joining                   \* the io thread threadPool_ ended last

setupVars == <<numThreads_, started_>>
acceptVars == <<listenning_, waiting, nextConnId_, next_>>
connVars == <<connections_, conn>>
queueVars == <<pendingFunctors_, functors, ran>>
loopVars == <<phase, active, queueVars, quit_>>
destructVars == <<server, joining>>
vars == <<setupVars, acceptVars, connVars, loopVars, destructVars>>

Main == 0
IoLoops == 1 .. numThreads_
Loops == 0 .. MaxThreads
Conns == 1 .. MaxConns
Listener == 0               \* the Acceptor's channel, among the Conns'

Runs == {"connectEstablished", "connectDestroyed", "removeConnectionInLoop"}
Functors == [run : Runs, conn : Conns]      \* each holds a TcpConnectionPtr

InLoop == {"poll", "events", "functors"}

NoConnection ==
  [loop |-> Main, state_ |-> "kConnecting", index_ |-> "kNew",
   told |-> <<>>, peerClosed |-> FALSE]

Init ==
  /\ numThreads_ = 0 /\ started_ = 0
  /\ listenning_ = FALSE /\ waiting = 0 /\ nextConnId_ = 1 /\ next_ = 0
  /\ connections_ = {} /\ conn = [c \in Conns |-> NoConnection]
  /\ phase = [l \in Loops |-> "outside"]
  /\ active = [l \in Loops |-> {}]
  /\ pendingFunctors_ = [l \in Loops |-> <<>>]
  /\ functors = [l \in Loops |-> <<>>] /\ ran = [l \in Loops |-> 0]
  /\ quit_ = [l \in Loops |-> FALSE]
  /\ server = "serving" /\ joining = 0

-----------------------------------------------------------------------------
(***************************************************************************)
(* Who holds a connection.  Its descriptor is closed with the last         *)
(* reference, in whichever thread drops it.                                *)
(***************************************************************************)
Elements(s) == {s[i] : i \in DOMAIN s}

FunctorsOf(l) == Elements(pendingFunctors_[l]) \cup Elements(functors[l])

Held(c) ==
  \/ c \in connections_
  \/ \E l \in Loops : \E f \in FunctorsOf(l) : f.conn = c

DescriptorFree == Cardinality({c \in Conns : Held(c)}) < Descriptors

-----------------------------------------------------------------------------
(***************************************************************************)
(* What the operations do to a connection r; told is what the connection   *)
(* callback has said.                                                      *)
(***************************************************************************)
Established(r) ==
  [r EXCEPT !.state_ = "kConnected",
            !.index_ = IndexAfter(CtlOp(r.index_, {"read"})),
            !.told = Append(r.told, "up")]

Disconnected(r) ==
  [r EXCEPT !.state_ = "kDisconnected",
            !.index_ = IndexAfter(CtlOp(r.index_, {})),
            !.told = Append(r.told, "down")]

\* connectDestroyed: Channel::remove comes in any case.
Destroyed(r) ==
  [IF r.state_ = "kConnected" THEN Disconnected(r) ELSE r
     EXCEPT !.index_ = "kNew"]

\* queueInLoop of a functor bound to connection c.
Push(l, run, c) ==
  pendingFunctors_' = [pendingFunctors_ EXCEPT
                         ![l] = Append(@, [run |-> run, conn |-> c])]

-----------------------------------------------------------------------------
(***************************************************************************)
(* The main thread before it loops, and what the environment does.         *)
(***************************************************************************)
SetThreadNum(n) ==
  /\ started_ = 0
  /\ numThreads_' = n
  /\ UNCHANGED <<started_, acceptVars, connVars, loopVars, destructVars>>

\* It returns when each io thread has published its loop, which may be called
\* upon from then on; the thread has loop() still before it.  A later start()
\* only counts.
Start ==
  /\ started_ = 0
  /\ started_' = 1
  /\ listenning_' = TRUE
  /\ UNCHANGED <<numThreads_, waiting, nextConnId_, next_, connVars, loopVars,
                 destructVars>>

\* loop() forgets a quit() that came before it, and begins where a turn ends,
\* with the test of quit_.
EnterLoop(l) ==
  /\ started_ = 1 /\ l \in IoLoops \cup {Main} /\ phase[l] = "outside"
  /\ phase' = [phase EXCEPT ![l] = "functors"]
  /\ quit_' = [quit_ EXCEPT ![l] = FALSE]
  /\ UNCHANGED <<setupVars, acceptVars, connVars, active, queueVars,
                 destructVars>>

ClientConnects ==
  /\ listenning_ /\ waiting + nextConnId_ <= MaxConns
  /\ waiting' = waiting + 1
  /\ UNCHANGED <<setupVars, listenning_, nextConnId_, next_, connVars,
                 loopVars, destructVars>>

\* A peer that has closed before is noticed no earlier.
PeerCloses(c) ==
  /\ conn[c].index_ = "kAdded" /\ ~conn[c].peerClosed
  /\ conn' = [conn EXCEPT ![c] = [@ EXCEPT !.peerClosed = TRUE]]
  /\ UNCHANGED <<setupVars, acceptVars, connections_, loopVars, destructVars>>

\* shutdown(), by a thread that holds the connection.  TcpConnection.cc's
\* line 275 leaves kConnected as well.
Shutdown(c) ==
  /\ Held(c) /\ conn[c].state_ = "kConnected"
  /\ conn' = [conn EXCEPT ![c] = [@ EXCEPT !.state_ = "kDisconnecting"]]
  /\ UNCHANGED <<setupVars, acceptVars, connections_, loopVars, destructVars>>

QuitMain ==
  /\ phase[Main] \in InLoop
  /\ quit_' = [quit_ EXCEPT ![Main] = TRUE]
  /\ UNCHANGED <<setupVars, acceptVars, connVars, phase, active, queueVars,
                 destructVars>>

-----------------------------------------------------------------------------
(***************************************************************************)
(* A loop's turn.                                                          *)
(***************************************************************************)
\* What a poll reports, level-triggered.
Ready(l) ==
  {c \in Conns : /\ conn[c].loop = l /\ conn[c].index_ = "kAdded"
                 /\ conn[c].peerClosed}
    \cup (IF l = Main /\ listenning_ /\ waiting > 0 THEN {Listener} ELSE {})

PollReturn(l) ==
  /\ phase[l] = "poll"
  /\ active' = [active EXCEPT ![l] = Ready(l)]
  /\ phase' = [phase EXCEPT ![l] = "events"]
  /\ UNCHANGED <<setupVars, acceptVars, connVars, queueVars, quit_, destructVars>>

Handle(l, c) ==
  /\ phase[l] = "events" /\ c \in active[l]
  /\ active' = [active EXCEPT ![l] = @ \ {c}]

\* A next_ that wraps a step too late.
NextIndexLate == IF next_ + 1 > numThreads_ THEN 0 ELSE next_ + 1

NextIndex == IF next_ + 1 >= numThreads_ THEN 0 ELSE next_ + 1

NextLoop == IF numThreads_ = 0 THEN Main ELSE next_ + 1

\* Acceptor::handleRead where accept succeeds, with newConnection.
Accept ==
  /\ Handle(Main, Listener)
  /\ waiting > 0 /\ DescriptorFree
  /\ waiting' = waiting - 1
  /\ nextConnId_' = nextConnId_ + 1
  /\ next_' = NextIndex
  /\ connections_' = connections_ \cup {nextConnId_}
  /\ LET r == [NoConnection EXCEPT !.loop = NextLoop] IN
     IF NextLoop = Main
     THEN /\ conn' = [conn EXCEPT ![nextConnId_] = Established(r)]
          /\ UNCHANGED pendingFunctors_
     ELSE /\ conn' = [conn EXCEPT ![nextConnId_] = r]
          /\ Push(NextLoop, "connectEstablished", nextConnId_)
  /\ UNCHANGED <<setupVars, listenning_, phase, functors, ran, quit_, destructVars>>

\* An Acceptor that stops listening when descriptors run out.
AcceptGivesUp ==
  /\ Handle(Main, Listener)
  /\ ~DescriptorFree
  /\ listenning_' = FALSE
  /\ UNCHANGED <<setupVars, waiting, nextConnId_, next_, connVars, phase,
                 queueVars, quit_, destructVars>>

\* EMFILE: the client stays where it is.
AcceptFails ==
  /\ Handle(Main, Listener)
  /\ ~(waiting > 0 /\ DescriptorFree)
  /\ UNCHANGED <<setupVars, acceptVars, connVars, phase, queueVars, quit_,
                 destructVars>>

\* A connection whose closeCallback_ was not set.
HandleCloseOnly(l, c) ==
  /\ l # Main /\ c # Listener
  /\ Handle(l, c)
  /\ conn' = [conn EXCEPT ![c] = Disconnected(@)]
  /\ UNCHANGED <<setupVars, acceptVars, connections_, phase, queueVars, quit_,
                 destructVars>>

\* TcpConnection::handleClose and removeConnection, in an io loop.
HandleClose(l, c) ==
  /\ l # Main /\ c # Listener
  /\ Handle(l, c)
  /\ conn' = [conn EXCEPT ![c] = Disconnected(@)]
  /\ Push(Main, "removeConnectionInLoop", c)
  /\ UNCHANGED <<setupVars, acceptVars, connections_, phase, functors, ran,
                 quit_, destructVars>>

\* The same where the io loop is the main loop: runInLoop runs the functor.
HandleCloseInMain(c) ==
  /\ c # Listener
  /\ Handle(Main, c)
  /\ conn' = [conn EXCEPT ![c] = Disconnected(@)]
  /\ connections_' = connections_ \ {c}
  /\ Push(conn[c].loop, "connectDestroyed", c)
  /\ UNCHANGED <<setupVars, acceptVars, phase, functors, ran, quit_, destructVars>>

SwapFunctors(l) ==
  /\ phase[l] = "events" /\ active[l] = {}
  /\ functors' = [functors EXCEPT ![l] = pendingFunctors_[l]]
  /\ pendingFunctors_' = [pendingFunctors_ EXCEPT ![l] = <<>>]
  /\ phase' = [phase EXCEPT ![l] = "functors"]
  /\ UNCHANGED <<setupVars, acceptVars, connVars, active, ran, quit_, destructVars>>

Run(l, run, c) ==
  /\ phase[l] = "functors" /\ ran[l] < Len(functors[l])
  /\ functors[l][ran[l] + 1] = [run |-> run, conn |-> c]
  /\ ran' = [ran EXCEPT ![l] = @ + 1]
  /\ UNCHANGED <<setupVars, acceptVars, phase, active, functors, quit_,
                 destructVars>>

ConnectEstablished(l, c) ==
  /\ Run(l, "connectEstablished", c)
  /\ conn' = [conn EXCEPT ![c] = Established(@)]
  /\ UNCHANGED <<connections_, pendingFunctors_>>

ConnectDestroyed(l, c) ==
  /\ Run(l, "connectDestroyed", c)
  /\ conn' = [conn EXCEPT ![c] = Destroyed(@)]
  /\ UNCHANGED <<connections_, pendingFunctors_>>

\* A removeConnectionInLoop that queues connectDestroyed to loop_.
DestroyInMain(c) ==
  /\ Run(Main, "removeConnectionInLoop", c)
  /\ connections_' = connections_ \ {c}
  /\ Push(Main, "connectDestroyed", c)
  /\ UNCHANGED conn

\* One that leaves the connection's end to its destructor.
EraseOnly(c) ==
  /\ Run(Main, "removeConnectionInLoop", c)
  /\ connections_' = connections_ \ {c}
  /\ UNCHANGED <<conn, pendingFunctors_>>

\* One that does not find the connection under its name.
KeepsItem(c) ==
  /\ Run(Main, "removeConnectionInLoop", c)
  /\ Push(conn[c].loop, "connectDestroyed", c)
  /\ UNCHANGED connVars

RemoveConnectionInLoop(c) ==
  /\ Run(Main, "removeConnectionInLoop", c)
  /\ connections_' = connections_ \ {c}
  /\ Push(conn[c].loop, "connectDestroyed", c)
  /\ UNCHANGED conn

\* doPendingFunctors returns, its vector is destroyed, and quit_ is tested.
\* An io loop's EventLoop is destroyed as its thread ends.
FinishFunctors(l) ==
  /\ phase[l] = "functors" /\ ran[l] = Len(functors[l])
  /\ functors' = [functors EXCEPT ![l] = <<>>]
  /\ ran' = [ran EXCEPT ![l] = 0]
  /\ phase' = [phase EXCEPT ![l] = IF quit_[l] THEN "left" ELSE "poll"]
  /\ pendingFunctors_' = [pendingFunctors_ EXCEPT
                            ![l] = IF quit_[l] /\ l # Main THEN <<>> ELSE @]
  /\ UNCHANGED <<setupVars, acceptVars, connVars, active, quit_, destructVars>>

-----------------------------------------------------------------------------
(***************************************************************************)
(* The destructors, in the main thread.                                    *)
(***************************************************************************)
Destroy ==
  /\ server = "serving" /\ phase[Main] = "left"
  /\ server' = "dtor"
  /\ UNCHANGED <<setupVars, acceptVars, connVars, loopVars, joining>>

\* One item of ~TcpServer's loop, in any order.
DestroyItem(c) ==
  /\ server = "dtor" /\ c \in connections_
  /\ connections_' = connections_ \ {c}
  /\ IF conn[c].loop = Main
     THEN /\ conn' = [conn EXCEPT ![c] = Destroyed(@)]
          /\ UNCHANGED pendingFunctors_
     ELSE /\ Push(conn[c].loop, "connectDestroyed", c)
          /\ UNCHANGED conn
  /\ UNCHANGED <<setupVars, acceptVars, phase, active, functors, ran, quit_,
                 destructVars>>

\* The thread that threadPool_ ends next: connections_ is done with, and the
\* threads before it have been joined.
EndsNext(k) ==
  /\ server = "dtor" /\ connections_ = {}
  /\ k \in IoLoops /\ joining = k - 1
  /\ \A j \in 1 .. k - 1 : phase[j] = "left"
  /\ joining' = k

\* A pool that joins its threads without ending their loops.
JoinOnly(k) ==
  /\ EndsNext(k)
  /\ UNCHANGED <<setupVars, acceptVars, connVars, loopVars, server>>

\* ~EventLoopThread calls quit() once, wherever the thread is, and joins it.
QuitThread(k) ==
  /\ EndsNext(k)
  /\ quit_' = [quit_ EXCEPT ![k] = TRUE]
  /\ UNCHANGED <<setupVars, acceptVars, connVars, phase, active, queueVars,
                 server>>

\* A pool that ends its threads' loops and detaches the threads.
DestroyDetached ==
  /\ server = "dtor" /\ connections_ = {}
  /\ joining = numThreads_
  /\ listenning_' = FALSE
  /\ server' = "freed"
  /\ UNCHANGED <<setupVars, waiting, nextConnId_, next_, connVars, loopVars,
                 joining>>

\* The last thread has been joined; ~Acceptor removes its channel.
DestroyAcceptor ==
  /\ server = "dtor" /\ connections_ = {}
  /\ \A k \in IoLoops : phase[k] = "left"
  /\ listenning_' = FALSE
  /\ server' = "freed"
  /\ UNCHANGED <<setupVars, waiting, nextConnId_, next_, connVars, loopVars,
                 joining>>

\* The main loop's EventLoop goes, with what is left in pendingFunctors_.
DestroyMainLoop ==
  /\ server = "freed"
  /\ pendingFunctors_' = [pendingFunctors_ EXCEPT ![Main] = <<>>]
  /\ server' = "over"
  /\ UNCHANGED <<setupVars, acceptVars, connVars, phase, active, functors,
                 ran, quit_, joining>>

-----------------------------------------------------------------------------
LoopStep(l) ==
  \/ EnterLoop(l) \/ PollReturn(l) \/ SwapFunctors(l) \/ FinishFunctors(l)
  \/ \E c \in Conns : \/ HandleClose(l, c)
                      \/ ConnectEstablished(l, c)
                      \/ ConnectDestroyed(l, c)

MainStep ==
  \/ Accept \/ AcceptFails
  \/ \E c \in Conns : HandleCloseInMain(c) \/ RemoveConnectionInLoop(c)

DestructorStep ==
  \/ \E c \in Conns : DestroyItem(c)
  \/ \E k \in IoLoops : QuitThread(k)
  \/ DestroyAcceptor \/ DestroyMainLoop

Environment ==
  \/ \E n \in 0 .. MaxThreads : SetThreadNum(n)
  \/ Start \/ ClientConnects \/ QuitMain \/ Destroy
  \/ \E c \in Conns : PeerCloses(c) \/ Shutdown(c)

Next ==
  \/ Environment \/ MainStep \/ DestructorStep
  \/ \E l \in Loops : LoopStep(l)

Spec == Init /\ [][Next]_vars

\* The threads run, each into loop() once the server has been started; the
\* destructor, once begun, goes on.
FairSpec ==
  /\ Spec
  /\ WF_vars(LoopStep(Main) \/ MainStep \/ DestructorStep)
  /\ \A l \in Loops \ {Main} : WF_vars(LoopStep(l))

-----------------------------------------------------------------------------
(***************************************************************************)
(* Properties.                                                             *)
(***************************************************************************)
Connection ==
  [loop : Loops,
   state_ : {"kConnecting", "kConnected", "kDisconnecting", "kDisconnected"},
   index_ : Indices,
   told : Seq({"up", "down"}),
   peerClosed : BOOLEAN]

\* The types of the variables, the bounds, that next_ points at a loop, that
\* nothing runs before start(), and that a loop's vector is there only while
\* doPendingFunctors runs.
TypeOK ==
  /\ numThreads_ \in 0 .. MaxThreads /\ started_ \in {0, 1}
  /\ listenning_ \in BOOLEAN /\ waiting \in Nat
  /\ nextConnId_ \in 1 .. MaxConns + 1 /\ next_ \in Nat
  /\ waiting + nextConnId_ <= MaxConns + 1
  /\ next_ = 0 \/ next_ < numThreads_
  /\ started_ = 0 => next_ = 0 /\ \A l \in Loops : phase[l] = "outside"
  /\ connections_ \subseteq Conns
  /\ conn \in [Conns -> Connection]
  /\ phase \in [Loops -> InLoop \cup {"outside", "left"}]
  /\ active \in [Loops -> SUBSET (Conns \cup {Listener})]
  /\ pendingFunctors_ \in [Loops -> Seq(Functors)]
  /\ functors \in [Loops -> Seq(Functors)]
  /\ ran \in [Loops -> Nat]
  /\ \A l \in Loops : /\ ran[l] <= Len(functors[l])
                      /\ phase[l] # "functors" => functors[l] = <<>>
                      /\ phase[l] # "events" => active[l] = {}
  /\ quit_ \in [Loops -> BOOLEAN]
  /\ server \in {"serving", "dtor", "freed", "over"}
  /\ joining \in 0 .. MaxThreads

\* The loop's EventLoop, and with it its poller, has been destroyed.
LoopGone(l) == IF l = Main THEN server = "over" ELSE phase[l] = "left"

\* A connection is touched only by the thread of the loop it was given to,
\* connections_ only by the main thread, and nothing is queued to a loop that
\* has been destroyed: what newConnection, handleClose, removeConnection,
\* removeConnectionInLoop and ~TcpServer queue, they queue to the right loop,
\* and in time.
FunctorsAtHome ==
  \A l \in Loops :
    /\ \A f \in FunctorsOf(l) :
         IF f.run = "removeConnectionInLoop" THEN l = Main
                                             ELSE l = conn[f.conn].loop
    /\ LoopGone(l) => FunctorsOf(l) = {}

\* A Channel that a poller still points at (registered, or reported and not
\* handled yet) belongs to a connection that has not been deleted: whoever
\* drops the last TcpConnectionPtr, in whichever thread, connectDestroyed has
\* taken the Channel out of the poller by then, or the poller is gone.
PollersPointAtLive ==
  \A c \in Conns :
    (\/ conn[c].index_ # "kNew" /\ ~LoopGone(conn[c].loop)
     \/ \E l \in Loops : c \in active[l])
      => Held(c)

\* Functors not run yet, in the order they will be.
ToDo(l) ==
  SubSeq(functors[l], ran[l] + 1, Len(functors[l])) \o pendingFunctors_[l]

Queued(c, run) ==
  {p \in UNION {{l} \X DOMAIN ToDo(l) : l \in Loops} :
     ToDo(p[1])[p[2]] = [run |-> run, conn |-> c]}

BeenDestroyed(c) ==
  conn[c].state_ # "kConnecting" /\ conn[c].index_ = "kNew"

\* connectDestroyed comes to a connection once: it is in connections_, or its
\* connectDestroyed is queued, or it has been run, and never two of these,
\* whether the peer's close or ~TcpServer started it, or both did at once.
\* removeConnectionInLoop comes once as well, and neither before
\* connectEstablished.
DestroyedOnce ==
  \A c \in Conns :
    /\ Cardinality(Queued(c, "connectDestroyed"))
         + (IF c \in connections_ THEN 1 ELSE 0)
         + (IF BeenDestroyed(c) THEN 1 ELSE 0) <= 1
    /\ Cardinality(Queued(c, "removeConnectionInLoop")) <= 1
    /\ \A p \in Queued(c, "connectEstablished") :
         /\ conn[c].state_ = "kConnecting"
         /\ Queued(c, "removeConnectionInLoop") = {}
         /\ \A q \in Queued(c, "connectDestroyed") : p[2] < q[2]

\* No connection is forgotten: one that was accepted is in connections_, or its
\* connectDestroyed is queued or has been run, unless its loop has ended; and
\* while the server serves, each hop has handed it on to the next: the user
\* will be told "up", or epoll watches for the peer's close, or
\* removeConnectionInLoop is queued.
NoneLost ==
  \A c \in 1 .. nextConnId_ - 1 :
    /\ \/ c \in connections_ \/ Queued(c, "connectDestroyed") # {}
       \/ BeenDestroyed(c) \/ LoopGone(conn[c].loop)
    /\ server = "serving" =>
         /\ conn[c].told = <<>> =>
              c \in connections_ /\ Queued(c, "connectEstablished") # {}
         /\ conn[c].told = <<"up">> =>
              c \in connections_ /\ conn[c].index_ = "kAdded"
         /\ c \in connections_ /\ conn[c].told = <<"up", "down">> =>
              Queued(c, "removeConnectionInLoop") # {}

\* TcpServer implements ServerPromise: "up" once, then "down" at most once,
\* and no loop calls back once ~TcpServer has returned.
Promise == INSTANCE ServerPromise WITH
  Connections <- Conns,
  said <- [c \in Conns |-> conn[c].told],
  exists <- server \in {"serving", "dtor"}

ImplementsPromise == Promise!SPSpec

\* While the main loop runs, a connection whose peer has closed is deleted in
\* the end and its descriptor is given back: the last reference is dropped,
\* through the hops from its io loop to the main loop and back.
ClosedIsReclaimed ==
  \A c \in Conns :
    conn[c].peerClosed ~> ~Held(c) \/ quit_[Main]

\* A client that waits while a descriptor is free is accepted, also when
\* accept has failed for it with EMFILE before: whenever descriptors come back
\* the level-triggered listening channel gets another chance.
WaitingIsAccepted ==
  \A n \in Conns :
    nextConnId_ = n /\ waiting > 0 /\ DescriptorFree
      ~> nextConnId_ > n \/ quit_[Main]

\* ~EventLoopThreadPool begins when every io thread is inside loop(), where
\* quit_ is not reset any more.
LoopsEntered ==
  server = "dtor" /\ joining = 0 /\ \A k \in IoLoops : phase[k] \in InLoop

\* ~TcpServer returns if it finds every io thread inside loop() (each thread it
\* joins then ends), and with the main EventLoop the last connection is
\* deleted: closes that were under way do not leak one.  Of a thread that is
\* on its way into loop() this cannot be said: EventLoop.cc's line 68 forgets
\* the quit(), and the join waits for ever.
DestructionReleasesAll ==
  LoopsEntered ~> server = "over" /\ \A c \in Conns : ~Held(c)
=============================================================================

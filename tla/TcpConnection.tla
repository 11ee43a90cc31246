---------------------------- MODULE TcpConnection ----------------------------
(***************************************************************************)
(* One TcpConnection, from TcpServer::newConnection to its destruction:    *)
(* the io loop that owns it, the main loop of the server, other threads    *)
(* that hold a TcpConnectionPtr, and the socket's other end.               *)
(*                                                                         *)
(* A handler of the io loop runs in one step up to the user's callback it  *)
(* ends in, if any; the callback's own calls are steps, and what the       *)
(* handler does after the callback is the step in which the callback       *)
(* returns.  Other threads run send() and shutdown() in several steps: the *)
(* test of state_, its assignment, and the push to pendingFunctors_.       *)
(*                                                                         *)
(* Assumed of the parts below, and shown of them in their own modules:     *)
(* epoll watches the channel for events_ exactly when index_ is kAdded     *)
(* (EPollPoller), and a functor that is pushed is run (EventLoop).         *)
(*                                                                         *)
(* External: the kernel's socket, the peer, the user's callbacks, and the  *)
(* disposition of SIGPIPE.  The server is destroyed only after the main    *)
(* loop has left loop(), as in the test server, and the loops only when no *)
(* other thread holds the connection any more.                             *)
(***************************************************************************)
EXTENDS Naturals, Sequences, ChannelOps

CONSTANTS
  Messages, Size,           \* what the user sends, and the lengths in bytes
  Threads,                  \* threads other than the two loops'
  ForeignUses,              \* what these may call: a set of subsets of
                            \* {"send", "shutdown"}, one of which is used
  CallersKeep,              \* these keep what they passed until it was used
  Callbacks,                \* subset of {"writeComplete", "highWater"}
  HighWaterMark,            \* highWaterMark_
  MaxArrivals,              \* bound: how often the peer sends
  None

ASSUME SizeAssumption == Size \in [Messages -> Nat]
ASSUME ForeignUsesAssumption == ForeignUses \subseteq SUBSET {"send", "shutdown"}

VARIABLES
  state_, events_, index_, outputBuffer_,
  pc,                       \* the io loop: "poll", "events", "functors",
                            \* or "left": out of loop() for good
  todo,                     \* the handlers handleEventWithGuard has yet to call
  callback,                 \* the user's callback that is running, by what
                            \* follows it: "none", "plain", "close", "destroy"
  pendingFunctors_,
  functors, ran,            \* doPendingFunctors' vector, how many have run
  mainPending,              \* removeConnectionInLoop functors in the main loop
  inMap,                    \* the server's connections_ holds the connection
  serverGone,
  ioIsMain,                 \* no io threads: the main loop is the io loop
  foreignOps,               \* the calls that other threads make
  thread,                   \* where each other thread stands in its call
  hold,                     \* the threads that hold a TcpConnectionPtr
  used,                     \* the messages passed to send() so far
  sock,                     \* the kernel's socket
  wire,                     \* the bytes it has accepted
  arrivals,
  told, received            \* history: what the user has been told

connVars == <<state_, events_, index_, outputBuffer_>>
loopVars == <<pc, todo, callback, functors, ran>>
serverVars == <<mainPending, inMap, serverGone, ioIsMain>>
threadVars == <<foreignOps, thread, hold, used>>
toldVars == <<told, received>>
vars == <<connVars, loopVars, pendingFunctors_, serverVars, threadVars,
          sock, wire, arrivals, toldVars>>

States == {"kConnecting", "kConnected", "kDisconnecting", "kDisconnected"}

Bytes(m) == [i \in 1 .. Size[m] |-> <<m, i>>]

\* Functors: send and shutdown carry a bare this, the others a
\* TcpConnectionPtr.
Kinds == {"connectEstablished", "connectDestroyed", "writeComplete",
          "highWater", "send", "shutdown"}
Functor(kind) == [kind |-> kind, msg |-> None, by |-> None]
Owns(f) == f.kind \notin {"send", "shutdown"}

\* newConnection has put the connection into the map and handed
\* connectEstablished to runInLoop.
Init ==
  /\ state_ = "kConnecting" /\ events_ = {} /\ index_ = "kNew"
  /\ outputBuffer_ = <<>>
  /\ ioIsMain \in BOOLEAN
  /\ pc = IF ioIsMain THEN "events" ELSE "poll"
  /\ pendingFunctors_ = IF ioIsMain THEN <<>>
                                    ELSE <<Functor("connectEstablished")>>
  /\ todo = {} /\ callback = "none" /\ functors = <<>> /\ ran = 0
  /\ mainPending = 0 /\ inMap = TRUE /\ serverGone = FALSE
  /\ foreignOps \in ForeignUses
  /\ thread = [t \in Threads |-> None] /\ hold = {} /\ used = {}
  /\ sock = [data |-> FALSE, fin |-> FALSE, rst |-> FALSE, err |-> FALSE,
             shutWr |-> FALSE, pipe |-> FALSE]
  /\ wire = <<>> /\ arrivals = 0 /\ told = "nothing" /\ received = 0

\* Somebody holds a shared_ptr to the connection.  handleEvent's guard and
\* the callers of a callback do.
Alive ==
  \/ inMap \/ mainPending > 0 \/ hold # {}
  \/ \E i \in DOMAIN pendingFunctors_ : Owns(pendingFunctors_[i])
  \/ \E i \in DOMAIN functors : Owns(functors[i])
  \/ todo # {} \/ callback # "none"
-----------------------------------------------------------------------------
(***************************************************************************)
(* The socket.  pipe records a write after the connection's own            *)
(* shutdown(SHUT_WR): EPIPE, and SIGPIPE.                                  *)
(***************************************************************************)
Readable == sock.data \/ sock.fin \/ sock.rst
HangUp == sock.rst \/ (sock.fin /\ sock.shutWr)
Broken == sock.rst \/ sock.shutWr

\* What a write of the bytes may return, 0 standing for an error.  A failing
\* write takes the pending error.
Written(bytes) == IF Broken THEN {0} ELSE 0 .. Len(bytes)

WriteSock(bytes, n) ==
  /\ n \in Written(bytes)
  /\ wire' = wire \o SubSeq(bytes, 1, n)
  /\ sock' = [sock EXCEPT !.pipe = @ \/ sock.shutWr, !.err = FALSE]

UpdateChannel(events) ==
  /\ events_' = events
  /\ index_' = IndexAfter(CtlOp(index_, events))

Push(fs) == pendingFunctors_' = pendingFunctors_ \o fs

IfSet(kind) == IF kind \in Callbacks THEN <<Functor(kind)>> ELSE <<>>
-----------------------------------------------------------------------------
(***************************************************************************)
(* TcpConnection's operations, as far as they run in the loop's thread.    *)
(***************************************************************************)
\* A sendInLoop that does not ask for EPOLLOUT.
KeepUnwatched(rest) ==
  /\ outputBuffer_' = outputBuffer_ \o rest
  /\ UNCHANGED <<events_, index_, pendingFunctors_>>

\* The rest of sendInLoop once what could be written has been.
Keep(rest) ==
  LET oldlen == Len(outputBuffer_)
      crosses == oldlen < HighWaterMark /\ oldlen + Len(rest) >= HighWaterMark
  IN
  /\ outputBuffer_' = outputBuffer_ \o rest
  /\ \/ crosses /\ Push(IfSet("highWater"))
     \/ ~crosses /\ UNCHANGED pendingFunctors_
  /\ \/ "write" \in events_ /\ UNCHANGED <<events_, index_>>
     \/ "write" \notin events_ /\ UpdateChannel(events_ \cup {"write"})

\* sendInLoop that never gives up, and one that always writes at once.
NeverGiveUp == FALSE
AlwaysDirect == TRUE

\* sendInLoop's test of state_, and its test for writing to the socket ahead
\* of outputBuffer_.
GiveUp == state_ = "kDisconnected"
WriteDirectly == "write" \notin events_ /\ outputBuffer_ = <<>>

SendInLoop(bytes) ==
  /\ UNCHANGED state_
  /\ \/ /\ GiveUp
        /\ UNCHANGED <<outputBuffer_, events_, index_, pendingFunctors_,
                       sock, wire>>
     \/ /\ ~GiveUp /\ ~WriteDirectly
        /\ Keep(bytes)
        /\ UNCHANGED <<sock, wire>>
     \/ /\ ~GiveUp /\ WriteDirectly
        /\ \E n \in Written(bytes) :
             /\ WriteSock(bytes, n)
             /\ \/ /\ n = Len(bytes)
                   /\ Push(IfSet("writeComplete"))
                   /\ UNCHANGED <<outputBuffer_, events_, index_>>
                \/ /\ n < Len(bytes) /\ ~Broken
                   /\ Keep(SubSeq(bytes, n + 1, Len(bytes)))
                \/ /\ Broken                            \* faultError
                   /\ UNCHANGED <<outputBuffer_, events_, index_,
                                  pendingFunctors_>>

\* shutdownInLoop that does not wait for outputBuffer_.
ShutdownAtOnce ==
  sock' = [sock EXCEPT !.shutWr = TRUE]

ShutdownInLoop ==
  IF "write" \in events_ THEN UNCHANGED sock
                         ELSE sock' = [sock EXCEPT !.shutWr = TRUE]

HandleClose ==
  /\ state_' = "kDisconnected"
  /\ UpdateChannel({})
  /\ callback' = "close" /\ told' = "down"
  /\ UNCHANGED <<outputBuffer_, received>>

\* Channel::remove; events_ stays as it is.
RemoveChannel == index_' = "kNew" /\ UNCHANGED events_

\* A connectDestroyed without its test of state_.
DestroyAlways ==
  /\ UNCHANGED <<outputBuffer_, received>>
  /\ state_' = "kDisconnected"
  /\ UpdateChannel({})
  /\ callback' = "destroy" /\ told' = "down"

ConnectDestroyed ==
  /\ UNCHANGED <<outputBuffer_, received>>
  /\ \/ /\ state_ = "kConnected"
        /\ state_' = "kDisconnected"
        /\ UpdateChannel({})
        /\ callback' = "destroy" /\ told' = "down"
     \/ /\ state_ # "kConnected"
        /\ RemoveChannel
        /\ UNCHANGED <<state_, callback, told>>

ConnectEstablished ==
  /\ state_' = "kConnected"
  /\ UpdateChannel(events_ \cup {"read"})
  /\ callback' = "plain" /\ told' = "up"
  /\ UNCHANGED <<outputBuffer_, received>>
-----------------------------------------------------------------------------
(***************************************************************************)
(* The io loop: epoll_wait, Channel::handleEventWithGuard, and             *)
(* doPendingFunctors.                                                      *)
(***************************************************************************)
\* What epoll may report of the channel: error and hangup always, input and
\* output if asked for, output if there is room.  Input may be left out of a
\* hangup with nothing to read; on Linux a TCP socket never does so.
Reports ==
  {r \in SUBSET {"IN", "OUT", "HUP", "ERR"} :
     /\ r # {}
     /\ "HUP" \in r <=> HangUp
     /\ "ERR" \in r <=> sock.err
     /\ "OUT" \in r => "write" \in events_
     /\ "IN" \in r => "read" \in events_ /\ Readable
     /\ "IN" \notin r => "read" \notin events_ \/ ~Readable
                          \/ (HangUp /\ ~sock.data)}

\* The handlers that handleEventWithGuard calls, and which it calls before h.
Handlers(r) ==
  {h \in {"close", "error", "read", "write"} :
     \/ h = "close" /\ "HUP" \in r /\ "IN" \notin r
     \/ h = "error" /\ "ERR" \in r
     \/ h = "read"  /\ "IN" \in r
     \/ h = "write" /\ "OUT" \in r}

Earlier(h) ==
  CASE h = "close" -> {}
    [] h = "error" -> {"close"}
    [] h = "read"  -> {"close", "error"}
    [] h = "write" -> {"close", "error", "read"}

PollReturn(r) ==
  /\ pc = "poll" /\ index_ = "kAdded"
  /\ pc' = "events" /\ todo' = Handlers(r)
  /\ UNCHANGED <<connVars, callback, functors, ran, pendingFunctors_,
                 serverVars, threadVars, sock, wire, arrivals, toldVars>>

\* epoll_wait returns without an event of this channel.
PollOther ==
  /\ pc = "poll"
  /\ pc' = "events"
  /\ UNCHANGED <<connVars, todo, callback, functors, ran, pendingFunctors_,
                 serverVars, threadVars, sock, wire, arrivals, toldVars>>

Dispatch(handler) ==
  /\ pc = "events" /\ callback = "none"
  /\ handler \in todo /\ todo \cap Earlier(handler) = {}
  /\ todo' = todo \ {handler}
  /\ UNCHANGED <<pc, functors, ran, serverVars, threadVars, arrivals>>

HandleCloseEvent ==
  /\ Dispatch("close")
  /\ HandleClose
  /\ UNCHANGED <<pendingFunctors_, sock, wire>>

\* handleError: getsockopt takes the pending error.
HandleErrorEvent ==
  /\ Dispatch("error")
  /\ sock' = [sock EXCEPT !.err = FALSE]
  /\ UNCHANGED <<connVars, callback, pendingFunctors_, wire, toldVars>>

\* handleRead with n > 0.
ReadMessage ==
  /\ Dispatch("read")
  /\ sock.data
  /\ sock' = [sock EXCEPT !.data = FALSE]
  /\ callback' = "plain" /\ received' = received + 1
  /\ UNCHANGED <<connVars, pendingFunctors_, wire, told>>

\* handleRead with n = 0.
ReadEof ==
  /\ Dispatch("read")
  /\ ~sock.data /\ ~sock.err
  /\ HandleClose
  /\ UNCHANGED <<pendingFunctors_, sock, wire>>

\* handleRead with n < 0.
ReadError ==
  /\ Dispatch("read")
  /\ ~sock.data /\ sock.err
  /\ sock' = [sock EXCEPT !.err = FALSE]
  /\ UNCHANGED <<connVars, callback, pendingFunctors_, wire, toldVars>>

\* A handleWrite that leaves EPOLLOUT on when it has written everything.
DrainedStillWriting(n) ==
  UNCHANGED <<state_, events_, index_, pendingFunctors_>>

\* What handleWrite does after it has retrieved n bytes.  Line 275 assigns
\* to state_: the value is 0, so shutdownInLoop is not called.
Drained(n) ==
  \/ n < Len(outputBuffer_)
     /\ UNCHANGED <<state_, events_, index_, pendingFunctors_>>
  \/ /\ n = Len(outputBuffer_)
     /\ UpdateChannel(events_ \ {"write"})
     /\ Push(IfSet("writeComplete"))
     /\ state_' = "kDisconnected"

HandleWriteEvent ==
  /\ Dispatch("write")
  /\ UNCHANGED <<callback, toldVars>>
  /\ \/ /\ "write" \notin events_
        /\ UNCHANGED <<connVars, pendingFunctors_, sock, wire>>
     \/ /\ "write" \in events_
        /\ \E n \in Written(outputBuffer_) :
             /\ WriteSock(outputBuffer_, n)
             /\ outputBuffer_' = SubSeq(outputBuffer_, n + 1,
                                        Len(outputBuffer_))
             /\ \/ /\ n = 0
                   /\ UNCHANGED <<state_, events_, index_, pendingFunctors_>>
                \/ n > 0 /\ Drained(n)

\* Within newConnection, which the main loop's handler runs.
Establishing == ioIsMain /\ state_ = "kConnecting"

EstablishHere ==
  /\ Establishing /\ callback = "none"
  /\ ConnectEstablished
  /\ UNCHANGED <<pc, todo, functors, ran, pendingFunctors_, serverVars,
                 threadVars, sock, wire, arrivals>>

SwapFunctors ==
  /\ pc = "events" /\ todo = {} /\ callback = "none" /\ ~Establishing
  /\ pc' = "functors"
  /\ functors' = pendingFunctors_ /\ ran' = 0
  /\ pendingFunctors_' = <<>>
  /\ UNCHANGED <<connVars, todo, callback, serverVars, threadVars, sock,
                 wire, arrivals, toldVars>>

NextFunctor == functors[ran + 1]

\* The vector holds on to every functor until doPendingFunctors returns.
RunFunctor(kind) ==
  /\ pc = "functors" /\ callback = "none"
  /\ ran < Len(functors) /\ NextFunctor.kind = kind
  /\ ran' = ran + 1
  /\ UNCHANGED <<pc, todo, functors, serverVars, threadVars, arrivals>>

RunConnectEstablished ==
  /\ RunFunctor("connectEstablished")
  /\ ConnectEstablished
  /\ UNCHANGED <<pendingFunctors_, sock, wire>>

RunConnectDestroyed ==
  /\ RunFunctor("connectDestroyed")
  /\ ConnectDestroyed
  /\ UNCHANGED <<pendingFunctors_, sock, wire>>

RunUserFunctor ==
  /\ RunFunctor("writeComplete") \/ RunFunctor("highWater")
  /\ callback' = "plain"
  /\ UNCHANGED <<connVars, pendingFunctors_, sock, wire, toldVars>>

RunSend ==
  /\ RunFunctor("send")
  /\ SendInLoop(Bytes(NextFunctor.msg))
  /\ UNCHANGED <<callback, toldVars>>

RunShutdown ==
  /\ RunFunctor("shutdown")
  /\ ShutdownInLoop
  /\ UNCHANGED <<connVars, callback, pendingFunctors_, wire, toldVars>>

\* A doPendingFunctors that carries its cursor over to the next vector.
FunctorsDoneCursorKept ==
  /\ pc = "functors" /\ callback = "none" /\ ran = Len(functors)
  /\ pc' = "poll"
  /\ functors' = <<>> /\ ran' = ran
  /\ UNCHANGED <<connVars, todo, callback, pendingFunctors_, serverVars,
                 threadVars, sock, wire, arrivals, toldVars>>

FunctorsDone ==
  /\ pc = "functors" /\ callback = "none" /\ ran = Len(functors)
  /\ pc' = "poll"
  /\ functors' = <<>> /\ ran' = 0
  /\ UNCHANGED <<connVars, todo, callback, pendingFunctors_, serverVars,
                 threadVars, sock, wire, arrivals, toldVars>>
-----------------------------------------------------------------------------
(***************************************************************************)
(* The user's code in a callback, and the return from it.                  *)
(***************************************************************************)
\* send() in the loop's thread.
UserSend(m) ==
  /\ callback # "none" /\ m \notin used
  /\ used' = used \cup {m}
  /\ \/ state_ = "kConnected" /\ SendInLoop(Bytes(m))
     \/ state_ # "kConnected"
        /\ UNCHANGED <<connVars, pendingFunctors_, sock, wire>>
  /\ UNCHANGED <<loopVars, serverVars, foreignOps, thread, hold,
                 arrivals, toldVars>>

\* shutdown() in the loop's thread.
UserShutdown ==
  /\ callback # "none" /\ state_ = "kConnected"
  /\ state_' = "kDisconnecting"
  /\ ShutdownInLoop
  /\ UNCHANGED <<events_, index_, outputBuffer_, loopVars, pendingFunctors_,
                 serverVars, threadVars, wire, arrivals, toldVars>>

\* The user gives thread t a copy of the TcpConnectionPtr.
UserShares(t) ==
  /\ callback # "none"
  /\ hold' = hold \cup {t}
  /\ UNCHANGED <<connVars, loopVars, pendingFunctors_, serverVars, foreignOps,
                 thread, used, sock, wire, arrivals, toldVars>>

CallbackReturns ==
  /\ callback = "plain"
  /\ callback' = "none"
  /\ UNCHANGED <<connVars, pc, todo, functors, ran, pendingFunctors_,
                 serverVars, threadVars, sock, wire, arrivals, toldVars>>

\* handleClose goes on to closeCallback_, TcpServer::removeConnection.  The
\* main loop's thread runs removeConnectionInLoop at once.
CloseCallback ==
  /\ callback = "close"
  /\ callback' = "none"
  /\ \/ /\ ioIsMain
        /\ inMap' = FALSE
        /\ Push(<<Functor("connectDestroyed")>>)
        /\ UNCHANGED mainPending
     \/ /\ ~ioIsMain
        /\ mainPending' = mainPending + 1
        /\ UNCHANGED <<inMap, pendingFunctors_>>
  /\ UNCHANGED <<connVars, pc, todo, functors, ran, serverGone, ioIsMain,
                 threadVars, sock, wire, arrivals, toldVars>>

\* connectDestroyed goes on to Channel::remove.
DestroyCallbackReturns ==
  /\ callback = "destroy"
  /\ callback' = "none"
  /\ RemoveChannel
  /\ UNCHANGED <<state_, outputBuffer_, pc, todo, functors, ran,
                 pendingFunctors_, serverVars, threadVars, sock, wire,
                 arrivals, toldVars>>
-----------------------------------------------------------------------------
(***************************************************************************)
(* The main loop's thread, and TcpServer::~TcpServer.                      *)
(***************************************************************************)
\* A removeConnectionInLoop that erases the last reference and no more.
EraseOnly ==
  /\ mainPending > 0 /\ ~serverGone
  /\ mainPending' = mainPending - 1
  /\ inMap' = FALSE
  /\ UNCHANGED <<connVars, loopVars, pendingFunctors_, serverGone, ioIsMain,
                 threadVars, sock, wire, arrivals, toldVars>>

RemoveConnectionInLoop ==
  /\ mainPending > 0 /\ ~serverGone
  /\ mainPending' = mainPending - 1
  /\ inMap' = FALSE
  /\ Push(<<Functor("connectDestroyed")>>)
  /\ UNCHANGED <<connVars, loopVars, serverGone, ioIsMain, threadVars, sock,
                 wire, arrivals, toldVars>>

\* With io threads, connectDestroyed is pushed to the io loop.
DestroyServer ==
  /\ ~ioIsMain /\ ~serverGone
  /\ serverGone' = TRUE /\ inMap' = FALSE
  /\ \/ inMap /\ Push(<<Functor("connectDestroyed")>>)
     \/ ~inMap /\ UNCHANGED pendingFunctors_
  /\ UNCHANGED <<connVars, loopVars, mainPending, ioIsMain, threadVars, sock,
                 wire, arrivals, toldVars>>

\* Without, connectDestroyed is called at once: the loop is the caller's, and
\* it has left loop() for good.
DestroyServerHere ==
  /\ ioIsMain /\ ~serverGone /\ pc = "poll"
  /\ serverGone' = TRUE /\ inMap' = FALSE /\ pc' = "left"
  /\ \/ inMap /\ ConnectDestroyed
     \/ ~inMap /\ UNCHANGED <<connVars, callback, toldVars>>
  /\ UNCHANGED <<todo, functors, ran, pendingFunctors_, mainPending, ioIsMain,
                 threadVars, sock, wire, arrivals>>
\* The server's thread pool goes after its destructor's body: it quits the io
\* loop and joins its thread, whatever waits in pendingFunctors_.
IoLoopEnds ==
  /\ ~ioIsMain /\ serverGone /\ hold = {} /\ pc = "poll"
  /\ pc' = "left"
  /\ pendingFunctors_' = <<>>
  /\ UNCHANGED <<connVars, todo, callback, functors, ran, serverVars,
                 threadVars, sock, wire, arrivals, toldVars>>

\* The main loop is destroyed last, with the functors it did not run.
MainLoopDestroyed ==
  /\ serverGone /\ hold = {} /\ pc = "left" /\ callback = "none"
  /\ mainPending' = 0 /\ pendingFunctors_' = <<>>
  /\ UNCHANGED <<connVars, loopVars, inMap, serverGone, ioIsMain, threadVars,
                 sock, wire, arrivals, toldVars>>
-----------------------------------------------------------------------------
(***************************************************************************)
(* Other threads that hold a TcpConnectionPtr.                             *)
(***************************************************************************)
\* The step that a thread takes next, and the functor it will push.
Call(step, kind, m, t) ==
  [step |-> step, f |-> [kind |-> kind, msg |-> m, by |-> t]]

\* send() up to the test of state_.
ForeignSend(t, m) ==
  /\ "send" \in foreignOps
  /\ t \in hold /\ thread[t] = None /\ m \notin used
  /\ state_ = "kConnected"
  /\ used' = used \cup {m}
  /\ thread' = [thread EXCEPT ![t] = Call("push", "send", m, t)]
  /\ UNCHANGED <<connVars, loopVars, pendingFunctors_, serverVars, foreignOps,
                 hold, sock, wire, arrivals, toldVars>>

\* shutdown() up to the test of state_.
ForeignShutdown(t) ==
  /\ "shutdown" \in foreignOps
  /\ t \in hold /\ thread[t] = None
  /\ state_ = "kConnected"
  /\ thread' = [thread EXCEPT ![t] = Call("set", "shutdown", None, t)]
  /\ UNCHANGED <<connVars, loopVars, pendingFunctors_, serverVars, foreignOps,
                 hold, used, sock, wire, arrivals, toldVars>>

ForeignSetState(t) ==
  /\ thread[t] # None /\ thread[t].step = "set"
  /\ state_' = "kDisconnecting"
  /\ thread' = [thread EXCEPT ![t] = [@ EXCEPT !.step = "push"]]
  /\ UNCHANGED <<events_, index_, outputBuffer_, loopVars, pendingFunctors_,
                 serverVars, foreignOps, hold, used, sock, wire, arrivals,
                 toldVars>>

ForeignPush(t) ==
  /\ thread[t] # None /\ thread[t].step = "push"
  /\ Push(<<thread[t].f>>)
  /\ thread' = [thread EXCEPT ![t] = None]
  /\ UNCHANGED <<connVars, loopVars, serverVars, foreignOps, hold, used,
                 sock, wire, arrivals, toldVars>>

\* A functor of t has yet to run.
Outstanding(t) ==
  \/ \E i \in DOMAIN pendingFunctors_ : pendingFunctors_[i].by = t
  \/ \E i \in ran + 1 .. Len(functors) : functors[i].by = t

\* t lets go of the connection and of the string it passed.
ForeignRelease(t) ==
  /\ t \in hold /\ thread[t] = None
  /\ CallersKeep => ~Outstanding(t)
  /\ hold' = hold \ {t}
  /\ UNCHANGED <<connVars, loopVars, pendingFunctors_, serverVars, foreignOps,
                 thread, used, sock, wire, arrivals, toldVars>>
-----------------------------------------------------------------------------
(***************************************************************************)
(* The peer.                                                               *)
(***************************************************************************)
Arrive(sock2) ==
  /\ Alive /\ ~sock.rst
  /\ sock' = sock2
  /\ UNCHANGED <<connVars, loopVars, pendingFunctors_, serverVars, threadVars,
                 wire, toldVars>>

PeerSends ==
  /\ arrivals < MaxArrivals /\ ~sock.fin
  /\ arrivals' = arrivals + 1
  /\ Arrive([sock EXCEPT !.data = TRUE])

PeerCloses ==
  /\ ~sock.fin
  /\ Arrive([sock EXCEPT !.fin = TRUE])
  /\ UNCHANGED arrivals

PeerResets ==
  /\ Arrive([sock EXCEPT !.rst = TRUE, !.err = TRUE])
  /\ UNCHANGED arrivals
-----------------------------------------------------------------------------
LoopStep ==
  \/ \E r \in Reports : PollReturn(r)
  \/ PollOther
  \/ HandleCloseEvent \/ HandleErrorEvent
  \/ ReadMessage \/ ReadEof \/ ReadError
  \/ HandleWriteEvent
  \/ EstablishHere
  \/ SwapFunctors
  \/ RunConnectEstablished \/ RunConnectDestroyed \/ RunUserFunctor
  \/ RunSend \/ RunShutdown
  \/ FunctorsDone
  \/ CallbackReturns \/ CloseCallback \/ DestroyCallbackReturns

UserStep ==
  \/ \E m \in Messages : UserSend(m)
  \/ UserShutdown
  \/ \E t \in Threads : UserShares(t)

ThreadStep(t) ==
  \/ \E m \in Messages : ForeignSend(t, m)
  \/ ForeignShutdown(t) \/ ForeignSetState(t) \/ ForeignPush(t)
  \/ ForeignRelease(t)

Next ==
  \/ LoopStep \/ UserStep
  \/ RemoveConnectionInLoop \/ DestroyServer \/ DestroyServerHere
  \/ IoLoopEnds \/ MainLoopDestroyed
  \/ \E t \in Threads : ThreadStep(t)
  \/ PeerSends \/ PeerCloses \/ PeerResets

Spec == Init /\ [][Next]_vars

ReportsClose(r) == r \cap {"IN", "HUP"} # {}

\* The io loop and the main loop run, callbacks return, calls by other
\* threads end, and epoll, which is level-triggered, does not pass over a
\* readable channel for ever.  Nothing is assumed of the peer.
Fairness ==
  /\ WF_vars(LoopStep)
  /\ WF_vars(RemoveConnectionInLoop)
  /\ \A t \in Threads : WF_vars(ForeignSetState(t)) /\ WF_vars(ForeignPush(t))
  /\ SF_vars(\E r \in Reports : ReportsClose(r) /\ PollReturn(r))

FairSpec == Spec /\ Fairness

\* In addition the peer keeps reading: the socket has room again and again.
PeerReads ==
  /\ SF_vars(\E r \in Reports : "OUT" \in r /\ PollReturn(r))
  /\ SF_vars(HandleWriteEvent /\ wire' # wire)

DrainingSpec == FairSpec /\ PeerReads
-----------------------------------------------------------------------------
(***************************************************************************)
(* Properties.                                                             *)
(***************************************************************************)
Functors ==
  [kind : Kinds \ {"send"}, msg : {None}, by : Threads \cup {None}]
    \cup [kind : {"send"}, msg : Messages, by : Threads]

Socket == [data : BOOLEAN, fin : BOOLEAN, rst : BOOLEAN, err : BOOLEAN,
           shutWr : BOOLEAN, pipe : BOOLEAN]

\* Every variable keeps its type.
TypeOK ==
  /\ state_ \in States /\ events_ \in Interests /\ index_ \in Indices
  /\ outputBuffer_ \in Seq(Messages \X Nat) /\ wire \in Seq(Messages \X Nat)
  /\ pc \in {"poll", "events", "functors", "left"}
  /\ todo \subseteq {"close", "error", "read", "write"}
  /\ callback \in {"none", "plain", "close", "destroy"}
  /\ pendingFunctors_ \in Seq(Functors) /\ functors \in Seq(Functors)
  /\ ran \in 0 .. Len(functors)
  /\ mainPending \in Nat /\ arrivals \in Nat /\ received \in Nat
  /\ {inMap, serverGone, ioIsMain} \subseteq BOOLEAN
  /\ thread \in [Threads -> [step : {"set", "push"}, f : Functors] \cup {None}]
  /\ foreignOps \in ForeignUses
  /\ hold \subseteq Threads /\ used \subseteq Messages
  /\ sock \in Socket
  /\ told \in {"nothing", "up", "down"}

\* While the channel is watched, it is watched for output exactly when bytes
\* wait in outputBuffer_: no output is forgotten, and the loop does not spin.
WriteInterest ==
  index_ = "kAdded" => ("write" \in events_ <=> outputBuffer_ # <<>>)

\* The connection writes nothing after it has shut down its write side.
NoWriteAfterShutdown == ~sock.pipe

\* When the last reference goes, the channel has been removed from the poller
\* (what Channel.cc asks of the owner of a channel).  A loop that ends with
\* connectDestroyed still waiting is the exception: what waits is dropped, and
\* the channel goes together with the loop's poller.
DestroyedClean == ~Alive /\ pc # "left" => index_ = "kNew"

\* A functor that carries a bare this, and with send() the address of a
\* caller's string, finds what it points at.
CallArgumentsLive ==
  \A i \in ran + 1 .. Len(functors) :
    ~Owns(functors[i]) => functors[i].by \in hold

\* epoll watches the channel exactly while the user believes the connection is
\* up: it may report the peer's close as long as "down" is owed, and nothing
\* registers the channel again once "down" has been said.  (A server that is
\* destroyed takes the channel out and may leave "down" unsaid.)
WatchedWhileUp ==
  /\ index_ = "kAdded" => told = "up"
  /\ told = "up" /\ ~serverGone => index_ = "kAdded" /\ "read" \in events_

\* A functor of the kind has yet to run.
Waiting(kind) ==
  \/ \E i \in DOMAIN pendingFunctors_ : pendingFunctors_[i].kind = kind
  \/ \E i \in ran + 1 .. Len(functors) : functors[i].kind = kind

\* From the moment the user has been told "down" until the channel is removed,
\* somebody is on the way to remove it: handleClose or connectDestroyed under
\* way, removeConnectionInLoop in the main loop while there is a server for it
\* to run on, or connectDestroyed in the io loop.
RemovalIsComing ==
  told = "down" /\ index_ # "kNew" /\ pc # "left" =>
    \/ callback \in {"close", "destroy"}
    \/ mainPending > 0 /\ ~serverGone
    \/ Waiting("connectDestroyed")

\* The user is told up once and down at most once; the bytes written are a
\* prefix of the messages accepted, in order.
Promise == INSTANCE ConnectionPromise
             WITH stream <- wire \o outputBuffer_
ImplementsPromise == Promise!CPSpec

\* When the peer closes or resets, the user is told, the server forgets the
\* connection and the poller lets go of its channel.  (A server that is
\* destroyed meanwhile lets go of it too, but may leave the user untold.)
CloseCompletes ==
  (told = "up" /\ (sock.fin \/ sock.rst))
    ~> \/ pc = "left"
       \/ ~inMap /\ index_ = "kNew" /\ (told = "down" \/ serverGone)

\* What waits in outputBuffer_ is written as long as the peer reads, unless
\* the connection is lost or the server destroyed.
Drains ==
  (told = "up" /\ outputBuffer_ # <<>>)
    ~> (outputBuffer_ = <<>> \/ told = "down" \/ sock.rst \/ serverGone)

\* shutdown() is carried out: what waits in outputBuffer_ is written first,
\* and then the write side is closed (the comments of shutdownInLoop and of
\* handleWrite).
ShutdownCompletes ==
  state_ = "kDisconnecting"
    ~> (sock.shutWr \/ told = "down" \/ sock.rst \/ serverGone)
=============================================================================

# A verification project for mymuduo

The repository is a small C++11 network library after muduo: reactors on
`epoll`, one event loop per thread, a TCP server that hands its connections to
the loops.  This directory holds TLA+ modules of its concurrent core, TLC
configurations that check them on small instances, and TLAPS proofs of what
holds for every instance.

    tlc -config EventLoop.cfg EventLoop          (and the other .cfg files)
    tlapm EventLoopProofs.tla                    (and the other *Proofs.tla)

## The system

| component | state | operations | interacts with | what makes it correct |
|---|---|---|---|---|
| `EventLoop` | `quit_`, `callingPendingFunctors_`, `pendingFunctors_` under `mutex_`, the eventfd `wakeupFd_`, `activeChannels_` | `loop`, `quit`, `runInLoop`, `queueInLoop`, `wakeup`, `handleRead`, `doPendingFunctors` | any thread hands it functors; it calls its poller and the handlers of channels | no lost wake-up, every functor once and in order, `quit` ends the loop |
| `EPollPoller`, `Poller` | the map `channels_`, the list `events_`; each channel's `index_`; the kernel's interest list | `poll`, `updateChannel`, `removeChannel`, `update`, `fillActiveChannels` | called by channels through their loop | map, `index_` and kernel agree; `epoll_ctl` never fails; no dangling `Channel*` |
| `Channel` | `events_`, `revents_`, `index_`, `tie_` | enable and disable, `remove`, `handleEvent` | owned by a connection, the acceptor or the loop | handlers run in the right order, on an object that lives |
| `TcpConnection` | `state_`, `outputBuffer_`, its channel and socket | `connectEstablished`, `connectDestroyed`, `handleRead/Write/Close/Error`, `send`, `sendInLoop`, `shutdown`, `shutdownInLoop` | its io loop, the server in the main loop, user callbacks, other threads, the peer | bytes in order, none lost or repeated; output drains; up, then down, once; clean removal |
| `TcpServer` | `connections_`, `nextConnId_`, `started_`, `numThreads_` | `start`, `newConnection`, `removeConnection`, `removeConnectionInLoop`, destructor | acceptor, pool, connections | each connection is removed once and destroyed in its loop |
| `Acceptor` | `listenning_`, its channel | `listen`, `handleRead` | main loop, `newConnection` | every accepted descriptor finds an owner |
| `EventLoopThread`, `Thread`, `EventLoopThreadPool` | `loop_`, semaphore, condition variable, `loops_`, `next_` | `startLoop`, `threadFunc`, destructor, `getNextLoop` | the server | start-up hands out a live loop; destruction ends the thread |
| `Buffer` | vector, `readerIndex_`, `writerIndex_` | `append`, `retrieve`, `readFd`, `writeFd`, `makeSpace` | connections | a byte FIFO; indices stay in bounds |
| `Socket`, `InetAddress`, `Timestamp`, `Logger`, `CurrentThread`, `DefaultPoller` | wrappers of system calls and values | | all | |

The behaviours that are hard to test are the interleavings of the threads that
queue functors and quit with the loop that sleeps; the reuse of a descriptor;
partial writes; a close that travels from the io loop to the main loop and
back while the server is destroyed or another thread sends; and calls of other
threads that test `state_` in one step and act on it in a later one.
`PROJECT.json` lists each of these hazards at its line, with the properties that
cover it.

## The modules

| module | models | role |
|---|---|---|
| `FunctorQueue` | what `runInLoop` and `queueInLoop` promise | abstract specification |
| `EventLoop` | `EventLoop.cc` | detailed; implements `FunctorQueue` |
| `EventLoopProofs` | | theorems about `EventLoop` |
| `ChannelOps` | how a change of interest becomes an `epoll_ctl` call | operators shared by `EPollPoller` and `TcpConnection` |
| `PollerPromise` | what a poller promises the owners of channels | abstract specification |
| `EPollPoller` | `EPollPoller.cc`, `Channel.h`, `Channel.cc` | detailed; implements `PollerPromise` |
| `EPollPollerProofs` | | theorems about `EPollPoller` |
| `ConnectionPromise` | what a connection promises its user | abstract specification |
| `TcpConnection` | `TcpConnection.cc`, `Channel::handleEvent`, and the server's part in a connection's life | detailed; implements `ConnectionPromise` |
| `TcpConnectionProofs` | | theorems about `TcpConnection` |
| `ServerPromise` | what a server promises: up once, then down at most once, nothing after the destructor | abstract specification |
| `TcpServer` | `TcpServer.cc`, `Acceptor.cc`, the turns of the loops, who holds each `TcpConnectionPtr` | detailed; implements `ServerPromise` |
| `TcpServerProofs` | | theorems about `TcpServer` |
| `EventLoopThreadPool` | `EventLoopThreadPool.cc`, `EventLoopThread.cc`, `Thread.cc` | detailed |
| `EventLoopThreadPoolProofs` | | theorems about `EventLoopThreadPool` |
| `ByteQueue` | what a buffer promises: bytes out in the order they went in | abstract specification |
| `Buffer` | `Buffer.h`, `Buffer.cc` | detailed; implements `ByteQueue` |
| `BufferProofs` | | theorems about `Buffer` |
| `MCEPollPoller`, `MCTcpConnection`, `MCBuffer` | | the symmetry, message lengths and inputs TLC uses |

**EventLoop.**  `pc` is where the loop's thread stands: before the test of
`quit_`, in `epoll_wait`, among the handlers, in `doPendingFunctors`, or outside
`loop()`.  The swap under `mutex_` is one step and each functor another, so that
other threads push between any two.  In another thread the push and the write
to the eventfd are two steps (`caller[t] = "wake"` in between), and so are the
two halves of `quit`.  The eventfd's counter is abstracted to its being nonzero.
`loop()` may be left and called again.  The two loops of functors, `functors` and
`pendingFunctors_`, concatenated, are the abstract queue.

**EPollPoller.**  A channel's life: created on a descriptor, enabled, disabled,
removed and destroyed in any order its owner may choose, with the descriptor
closed and given to another channel.  `updateChannel` runs whole in every
change of interest, with its null dereference and its `exit` as values of
`fault`.  The kernel refuses `ADD` for a descriptor it has and `MOD` and `DEL`
for one it has not.  The owner keeps what `Channel.h` and `Channel.cc` ask: one
channel per descriptor, none destroyed while registered or still waiting in
`activeChannels_`.  That the owner TcpConnection keeps the first half of this
is what `DestroyedClean` checks, and where it does not, a finding.
`PollerPromise` knows channels only, no descriptors and no `index_`: what a channel
is watched for there is read off the kernel's registrations that carry its
address, under whatever descriptor.

**TcpConnection.**  The io loop is `pc`, `todo` (the set of handlers that
`handleEventWithGuard` still has to call, in the order `Earlier`) and `functors`/`ran`.  A handler runs in one step up to
the user's callback it ends in; `callback` records what the handler does after
it.  In a callback the user sends, shuts down, or gives its pointer to another
thread.  Other threads test `state_`, set it and push in separate steps.  The
main loop is reduced to the functors it holds for this connection
(`mainPending`), `inMap` and the server's destruction.  `ioIsMain` chooses between
a server with io threads and one without.  `Alive` says that somebody holds a
`shared_ptr`; a functor that carries a bare `this` does not count.  The socket
has pending data, end of file, reset, a pending error and a closed write side;
a write takes any prefix, and fails on a reset or closed socket.  `stream` of
the abstract specification is `wire \o outputBuffer_`.  The loops end when the
server is gone and no other thread holds the connection: `IoLoopEnds` is the
pool's destruction, which drops the functors that still wait,
`MainLoopDestroyed` the end of the main loop.

**TcpServer.**  Several connections in several loops, where `TcpConnection` looks
at one connection closely.  Connection `c` is the one made for `nextConnId_ = c`;
its record keeps the loop it was given to, `state_`, its channel's `index_`, what
the connection callback has said, and whether the peer has closed.  Each loop
has a `phase` (outside `loop()` since its `loop_` was published, polling, among the handlers, in
`doPendingFunctors`, left), the channels reported and not handled yet, and its
functors; loop 0 is the main loop, and with `numThreads_ = 0` also the only io
loop.  `Accept` is `Acceptor::handleRead` with the whole of `newConnection`;
`AcceptFails` is its `EMFILE` branch.  `HandleClose` pushes
`removeConnectionInLoop` to the main loop; in the main loop (`HandleCloseInMain`)
the same call runs at once.  `RemoveConnectionInLoop` erases and pushes
`connectDestroyed`, `ConnectDestroyed` runs it in the connection's loop.
`Start` leaves each io thread where `startLoop` may return, between the publication
of `loop_` and `loop()`: connections can be queued to it, and the destructor can
call `quit()` on it, before `EnterLoop(l)` resets `quit_` (`EventLoop.cc:68`).
`EnterLoop` goes to the test of `quit_`, so a `quit()` just after the reset ends the
loop without a turn.  `joining` is the io thread whose `quit()` was called last;
it is called once for each, and a thread that forgot it is waited for for ever.
`Destroy`, `DestroyItem`, `QuitThread`, `DestroyAcceptor` and `DestroyMainLoop` are
the destructors in the order the language runs them.  `Held(c)` says that
`connections_` or a queued functor holds a `TcpConnectionPtr`; the descriptor goes
with the last one, and an accept needs a free one.  A handler or functor is one
step: it touches only what belongs to its own thread and makes at most one push
that others see, and its place among their steps is that push's.  The test of
`quit_` is in the step that ends a turn.  Assumed of the user, as in
`testcode/testserver.cc`: `setThreadNum` and `start` come before `loop()`, the server
is destroyed after `loop()` has returned and before its `EventLoop`, no
`TcpConnectionPtr` is kept outside callbacks, and callbacks quit no io loop.

**EventLoopThreadPool.**  The main thread goes through `start()` (`Thread::start`
and its semaphore, then `startLoop` and its condition variable), serves, and
destroys the pool (`dtor`, `quit`, `wake`, `join` for each thread).  Each io thread
is somewhere in `threadFunc`: building its loop, publishing `loop_`, about to
enter `loop()`, in it, about to clear `loop_`, ended.  A critical section under
`mutex_` is one step; a wait ends on the notification or spuriously.  The
destructor's test of `loop_`, `quit()`'s store, its wakeup and the join are four
steps.  A loop may be quit by its own callbacks, in which case the destructor
may find `loop_` null and detach.  Module `EventLoop` has the inside of `loop()`;
here a loop that is woken with `quit_` set ends.

**Buffer.**  The vector is a function from indices to bytes, with its size and
the two indices; `resize` fills up with zeroes and what lies outside the readable
part is kept, as in the vector.  `readFd` writes into the free part and appends
the rest, as `readv` and `extrabuf` do.  `Contents` is the abstract queue.  The
variable `moved` holds the bytes the last call took in or handed out, so that the
refinement also says that what is put in is what was given.

## The runs

| run | bounds | states | shows |
|---|---|---|---|
| `loop` (EventLoop.cfg) | 2 other threads, 3 functors | 40,004 | no lost wake-up, neither a functor's nor `quit`'s, the queue refinement, every announced functor runs, `quit` ends the loop |
| `poller` (EPollPoller.cfg) | 3 channels, 2 descriptors, list of 1 | 2,748 (symmetry) | `epoll_ctl` never fails; `index_`, map and kernel agree; no stale pointer; the list stays bounded; the promise: a channel is watched for what it asked for and reported only while it is watched |
| `connection` (TcpConnection.cfg) | messages of 1 and 2 bytes, high-water mark 2, one arrival, all callbacks | 72,026 | the connection used from its loop: promise, drain, close-down, output interest, no write after the shutdown |
| `connection_foreign` (TcpConnectionForeign.cfg) | one other thread that sends or shuts down | 271,037 | with another thread that keeps its pointer and string until they are used: watched while it is up, its removal on the way once it is down, destroyed after it, close-down |
| `server` (TcpServer.cfg) | 3 clients, 2 descriptors, 0 to 2 io threads | 138,559 | functors go to the right loop, pollers point at live connections, `connectDestroyed` comes once, no connection is forgotten between two hops, the promise, closed connections are reclaimed, clients that wait are accepted, a destruction that finds the io threads inside `loop()` returns and releases all |
| `pool` (EventLoopThreadPool.cfg) | 3 threads, 2 connections to each loop | 20,146 | `start()` returns live loops and waits only for news that comes, round robin, loops live until they are quit, every thread is ended and joined |
| `lost_quit` (LostQuit.cfg) | 1 thread | | the finding below |
| `buffer` (Buffer.cfg) | 2 bytes, inputs of up to 3, at most 5 kept; prepend, initial size and `extrabuf` of 2 | 46,234 | indices in bounds, growth only when needed, the queue refinement |
| `shutdown_after_drain`, `send_after_shutdown`, `send_shutdown_race`, `send_arguments` | one message, 0 to 2 threads | | the findings below |

Why the bounds are enough to be of use.  *loop*: two threads can be in the gap
between push and wake-up at once, and with three functors one can run, one wait
in the batch and one in `pendingFunctors_`, while the loop may be left and
entered again without limit.  *poller*: three channels on two descriptors force
reuse by another channel; an `InitEventListSize` of 1 makes the list grow, which
16 would not.  *connection*: a message of two bytes can be written in none, one
or two parts; the two messages together cross the mark from below in one step or
in two; one arrival gives a message callback beside those of connect, close,
write-complete and high water.  Messages are sent at most once each; a
third message would only lengthen the buffer.  *send* by two threads at once is
not in a passing run: it is the same push twice.  *server*: three clients on two
descriptors make an accept fail and a descriptor come back; with two io threads
`next_` wraps, and two loops can close, and the server's destructor erase, at the
same time; with none every hop is a call within the main loop.  *pool*: with three threads one
is before, one at and one behind the main thread's place, at start and at
destruction; two rounds of connections make `next_` wrap.  *buffer*: with sizes of
2, an input of 3 fits, fits after moving down, or makes the vector grow, and it
fills one area of `readv`, both, or more than the second alone; the contents'
bound of 5 is more than twice the first size.

A safety property that a theorem establishes for both uses of a connection is
checked in one of its two runs, the one whose steps come closest to breaking it.

`CHECK_DEADLOCK FALSE` is set for the connection, the server and the pool: their
stories end.

## Fairness

*EventLoop*: the loop's thread and the callers are scheduled by the system,
callbacks return, and `epoll_wait` reports an eventfd that is readable.  The
10-second timeout is never relied upon, nor is any other channel's activity, nor
that anybody calls `loop()`.
*TcpConnection*: the two loops run and other threads finish calls they have
begun.  A level-triggered epoll that is asked again and again about a readable
channel reports it again and again (strong fairness, because the loop also
returns for other channels).  Nothing is assumed of the peer, except in
`DrainingSpec`, where it keeps reading: room for output comes up again and again,
and a write then writes something.  `Drains` and `ShutdownCompletes` are claims
under that assumption only.
*TcpServer*: the threads are scheduled, each enters `loop()` once the server has
been started, the destructor goes on once it has begun, and a
level-triggered epoll reports what is ready at every poll.  Nothing is assumed
of clients, peers and the user.  `DestructionReleasesAll` is claimed for a
destruction that finds every io thread inside `loop()` when it comes to
`threadPool_`.  Of a thread that is still on its way there it would be false, for
the reason that `lost_quit` shows: its `quit()` may be forgotten, the join does not
return, and the server stays in its destructor.  The other properties hold in
those behaviours as well, and are checked and proved with them.
*EventLoopThreadPool*: the threads are scheduled, and a loop that was woken or
whose callback called `quit()` comes to its test of `quit_`.  Neither spurious
wake-ups nor the 10-second timeout are relied upon.

## What is proved

All proofs are of the modules TLC checks, for every value of the constants.

*EventLoopProofs* (nothing assumed of `Callers` and `Functors`):
`TypeCorrect`; `LoopInvariant`, the inductive invariant; from it `WakeupNotLost`;
`LoopIsAQueue`, the refinement of `FunctorQueue`.
`NoLostWakeup` alone is not inductive: while the handlers run, the eventfd may
just have been emptied with functors waiting, which is harmless as
`doPendingFunctors` follows.  `LoopInv` says so: what waits is announced *unless*
`pc = "events"`; that user code runs only among handlers and functors; and that
`callingPendingFunctors_` is set exactly in `doPendingFunctors`, which is what makes
the condition in `queueInLoop` right: a functor queued by a handler needs no
wake-up, one queued by a functor does.  The refinement rests on two lemmas about
concatenation (`TailOfConcat`, `AppendToConcat`).

*EPollPollerProofs* (from `NoneAssumption`, `FdsAssumption`, `ListSizeAssumption`):
`PollerInvariant`, the inductive invariant, and from it `PollerTypeCorrect`,
`PollerNeverFails`, `IndexAgreesAlways` and `PollerHoldsNoStalePointer`; then `EventListBounded`.  The invariant needs all its
parts at once: `epoll_ctl` succeeds because the kernel agrees with `index_`; the
kernel keeps agreeing because updates succeed; and a channel created on a used
descriptor finds it unregistered because nothing stale is left, which in turn
rests on one channel per descriptor (`OneChannelPerFd`).  `SetInterestKeepsInv` and
`RemoveKeepsInv` are the two operations, cited once per action.
`PollerImplementsPromise`, the refinement of `PollerPromise`, follows from it through
`WatchedByIndex`: the registrations that lead to a channel are none or its own, and
`index_` says which.  The destruction of a channel is allowed by the promise only
because `removeChannel` has left nothing in the kernel.

*EventLoopThreadPoolProofs* (from `NumThreadsAssumption`, for any number of
threads): `PoolInvariant`, and from it `PoolTypeCorrect`, `PoolLoopsLive`,
`PoolRoundRobin`, `PoolLeavesNoneRunning` and, with one more invariant, `PoolStartWaitsForNews`.  `PoolInv` ties the main thread's
place to its cursor (`MainInv`) and each io thread's place to both (`WorkerInv`):
`loop_` is set exactly from publication to withdrawal, a loop that `start()` has
taken is past its publication, and a loop ends only when it or the destructor
quit it, which is why a loop handed out is alive.  Round robin is not inductive
by itself: `InTurn` says that the loops before `next_` have been handed out
exactly once more than the others.  That loops live until the
destructor has called `quit()` is why its unlocked test of `loop_` is harmless.
`PoolStartWaitsForNews` needs `StartInv`
besides: at each point of `start()`, a thread that has gone past the post or the
notification has left the semaphore up or `loop_` set, so that the test before
the wait sees it.

*BufferProofs* (from `ByteAssumption`, `InputsAssumption`, `SizesAssumption`):
`BufferTypeCorrect`, `BufferGrowsWhenNeeded` and `BufferImplementsByteQueue`, for every
prepend area, initial size, size of `extrabuf` and set of inputs.  `TypeOK` is
inductive.  Each operator has a lemma that says what it makes of the contents
and of the free space: growing and moving down keep the contents
(`ResizeKeeps`, `MoveDownKeeps`), `makeSpace` makes room (`MakeSpaceMakesRoom`),
`append` and the two areas of `readFd` put their bytes behind (`AppendedAppends`,
`ReadInAppends`), `retrieve` drops from the front (`RetrievedDrops`).

*TcpConnectionProofs* (from `SizeAssumption`, `ForeignUsesAssumption`):
`ConnectionTypeCorrect` and `ConnectionWriteInterest` for all constants;
`ConnectionWritesBeforeShutdown` where other threads only shut down;
`ConnectionDestroyedClean`, `ConnectionWatchedWhileUp`, `ConnectionRemovalIsComing`
and `ConnectionImplementsPromise` where no other thread both sends and shuts down.  These hypotheses on `ForeignUses` are what the code
needs: the findings `send_after_shutdown` and `send_shutdown_race` are the
counterexamples without them.  The invariant is built in layers.  `Ordered` is
about one thread's order of calls: which callbacks may be under way in which
handler, that `connectEstablished` comes first and once, that `EPOLLOUT` is on
exactly while `outputBuffer_` holds bytes, and that whoever disables the channel
finds it registered.  `WriteInterest` needs all of this, as a handler whose
connection was closed inside a callback goes on after it.  `QueueStep` and
`WaitingStep` say once what each action does to the queue of functors;
`DestroyedClean` then follows from where a late send may still wait (`Single`,
`Parked`) and from the fact that a connection not yet removed from its poller has
a `connectDestroyed` on its way (`Coverage`, `Coming`).  `WatchedWhileUp` ties three
things that different steps change, what the user was told, `state_` and the
registration: `Leaving` says who is on the way to remove a connection that is down
and not removed, `Reading` that one that is up is registered for reading.  It is
where a late `sendInLoop` would do harm, and the hypothesis is what excludes it.
The refinement adds what
the user was told (`Told`) and that writes take from the front what sends put
behind (`SendStream`, `WriteStream`).

*TcpServerProofs* (from `MaxThreadsAssumption`, `MaxConnsAssumption`, for any number
of threads, clients and descriptors): `ServerTypeCorrect`,
`ServerFunctorsAtHome`, `ServerPollersPointAtLive`, `ServerDestroysOnce`,
`ServerLosesNone` and `ServerImplementsPromise`.
`HomeInv` adds to `FunctorsAtHome` the order in which threads end (`Life`), that a
connection not accepted yet is nowhere (`Fresh`), and that a loop has only its
own channels reported (`Reported`).  `PollersPointAtLive` is about references that
travel: `LiveInv` says that a connection has one line of functors, its
`connectEstablished` before any `connectDestroyed`, and that while its channel is
registered it is in `connections_` or a `connectDestroyed` is queued to its loop.
Its step (`LiveStep`) looks at functors still to be run as one sequence per loop,
which each action leaves, extends behind or shortens in front (`Shift`,
`MovesLaw`).  `DestroyedOnce` needs `OnceInv` besides: while the server serves, a
connection whose `removeConnectionInLoop` is queued is out of its poller and still
in `connections_`, and one whose `connectDestroyed` is queued is in neither, so
that no second close can start; once the destructor runs, the main loop runs no
functor any more.  `ServerLosesNone` is the other half: not that a hop is taken at
most once, but that it has not been dropped.  `Owed` says of each connection what
is still due to it and where that waits, in `connections_`, in `epoll` or in a queue;
each action moves the debt on, and `MovesLaw` says that a functor leaves a queue
only by being run.

`StartWaitsForNews`, `RemovalIsComing`, `WatchedWhileUp` and `NoneLost` are the safety
side of liveness claims (`StartReturns`, `CloseCompletes`, `ClosedIsReclaimed`): as
long as something is due, something that can be scheduled will do it.  They are
proved for every instance; that it then happens is left to fairness and TLC.

Only model-checked is all liveness (`FunctorsRun`, `QuitEndsLoop`, `CloseCompletes`,
`Drains`, `StartReturns`, `JoinReturns`, `ClosedIsReclaimed`, `WaitingIsAccepted`,
`DestructionReleasesAll`), which is out of the prover's reach: every other property of
the passing runs is a theorem.

## Findings

- `shutdown_after_drain`: `TcpConnection.cc:275` assigns `state_ = kDisconnected`
  inside an `if`.  A shutdown that waits for output is never carried out, though
  the comments at 195 and 277-278 say it is; and a connection whose output has
  drained counts as disconnected, so that later sends are dropped.
- `send_after_shutdown`: `sendInLoop` tests for `kDisconnected`, while its comment
  speaks of a shutdown, which sets `kDisconnecting`; a send of another thread may
  write to the closed write side.
- `send_shutdown_race`: `shutdown` tests and sets `state_` in two steps and may
  overwrite `kDisconnected`; a late send then registers a removed channel again,
  and the connection is destroyed registered, against `Channel.cc:19`.
- `send_arguments`: the functor a foreign `send` queues holds a bare `this` and the
  address of the caller's characters; the functor of `shutdown` holds a bare `this`.
- `lost_quit`: `loop()` resets `quit_` on entry (`EventLoop.cc:68`), after `loop_` was
  published; a `quit()` in between is forgotten and `EventLoopThread`'s destructor
  waits in `join` for ever, and `~TcpServer` with it.

Seen in the models and not stated as findings, as nothing in the repository says
otherwise: a functor queued by the loop's own thread before `loop()` may wait for
the first timeout; a server destroyed after a `shutdown()` leaves the user
without a "down"; `disableAll()` twice registers the channel again without events;
a loop that quits by itself at once may leave `startLoop` waiting, and its thread
may outlive its `EventLoopThread`; functors still queued when an io loop leaves
are dropped with it, which keeps their connections from `connectDestroyed`;
`quit()` of another thread writes to `wakeupFd_` after it has stored `quit_`
(`EventLoop.cc:109-113`), and a loop that sees `quit_` for another reason may have
ended and been destroyed by then.

## Not modelled

`Socket`'s options, `InetAddress`, `Timestamp`, `Logger` and `CurrentThread` keep no
state the rest depends on.  `DefaultPoller` is a switch at start-up.
`send(const void*, int)` is declared and never defined.  `inputBuffer_` is the
number of messages received.  A server destroyed from within the main loop, or
one whose user keeps connections beyond the callbacks, is outside `TcpServer`'s
assumptions.  The kernel, the peer and the user are external and
modelled from how the code uses them.  The disposition of SIGPIPE is the
application's.  `hasChannel` has no caller.

## Plan

Modelled so far, in this order: `EventLoop`, `EPollPoller`, `TcpConnection`,
`EventLoopThreadPool`, `Buffer`, `TcpServer`; each has proofs.  What is left:

1. The composition of `TcpConnection` with `Buffer` by their abstract
   specifications: `outputBuffer_` is used through `append`, `peek`, `retrieve` only.
2. An abstract specification of `EventLoopThreadPool`, refined as the others are.
3. A user who keeps a `TcpConnectionPtr`, in `TcpServer`: which properties survive a
   reference the server does not know of.

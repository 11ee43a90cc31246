------------------------------ MODULE EventLoop ------------------------------
(***************************************************************************)
(* One EventLoop (EventLoop.cc): the thread that runs loop(), and the      *)
(* other threads that hand it functors or ask it to quit.                  *)
(*                                                                         *)
(* The loop's thread alternates between epoll_wait, the handlers of the    *)
(* active channels and doPendingFunctors().  Other threads push functors   *)
(* under mutex_ and then write to wakeupFd_; push and write are separate   *)
(* steps here, as they are in queueInLoop.  A push by the loop's thread    *)
(* and the write that may follow it are one step: no other thread reads    *)
(* wakeupFd_, so nothing can tell them apart.                              *)
(*                                                                         *)
(* The eventfd's 64-bit counter is abstracted to whether it is nonzero:    *)
(* that is what makes the fd readable, and one read resets it.  looping_   *)
(* is TRUE exactly when pc # "outside"; no code reads it.                  *)
(***************************************************************************)
EXTENDS Sequences, Functions

CONSTANTS
  Callers,                  \* the threads other than the loop's own
  Functors                  \* one element for each functor handed in

VARIABLES
  pc,                       \* where the loop's thread stands in loop()
  inCallback,               \* the loop's thread is running user code
  active,                   \* activeChannels_ that are not handled yet
  quit_,
  callingPendingFunctors_,
  pendingFunctors_,
  functors,                 \* doPendingFunctors' local vector, what is left
  wakeupFd_,                \* the eventfd is readable
  caller,                   \* where each other thread stands in its call
  given,                    \* history: the functors handed in
  executed,                 \* history: the functors run, in order
  unsignalled               \* history: those the loop's thread queued
                            \* while it was outside loop()

queueVars == <<pendingFunctors_, functors, given, executed, unsignalled>>
vars == <<pc, inCallback, active, quit_, callingPendingFunctors_,
          wakeupFd_, caller, queueVars>>

Locations == {"outside", "test", "poll", "events", "functors"}
Channels == {"wakeup", "io"}        \* wakeupChannel_, and any other channel

Init ==
  /\ pc = "outside" /\ inCallback = FALSE /\ active = {}
  /\ quit_ = FALSE /\ callingPendingFunctors_ = FALSE /\ wakeupFd_ = FALSE
  /\ pendingFunctors_ = <<>> /\ functors = <<>>
  /\ caller = [t \in Callers |-> "idle"]
  /\ given = {} /\ executed = <<>> /\ unsignalled = {}

(***************************************************************************)
(* Steps of loop().                                                        *)
(***************************************************************************)
\* loop() sets quit_ to false before its first test of it.
Enter ==
  /\ pc = "outside"
  /\ pc' = "test"
  /\ quit_' = FALSE
  /\ UNCHANGED <<inCallback, active, callingPendingFunctors_, wakeupFd_,
                 caller, queueVars>>

Test ==
  /\ pc = "test"
  /\ pc' = IF quit_ THEN "outside" ELSE "poll"
  /\ UNCHANGED <<inCallback, active, quit_, callingPendingFunctors_,
                 wakeupFd_, caller, queueVars>>

\* epoll_wait returns some ready channels, or none on timeout or EINTR.
PollReturn(ready) ==
  /\ pc = "poll"
  /\ "wakeup" \in ready => wakeupFd_
  /\ pc' = "events"
  /\ active' = ready
  /\ UNCHANGED <<inCallback, quit_, callingPendingFunctors_, wakeupFd_,
                 caller, queueVars>>

\* wakeupChannel_'s handler: EventLoop::handleRead empties the eventfd.
HandleWakeup ==
  /\ pc = "events" /\ ~inCallback /\ "wakeup" \in active
  /\ active' = active \ {"wakeup"}
  /\ wakeupFd_' = FALSE
  /\ UNCHANGED <<pc, inCallback, quit_, callingPendingFunctors_, caller,
                 queueVars>>

\* Another channel's handler runs user code.
HandleIo ==
  /\ pc = "events" /\ ~inCallback /\ "io" \in active
  /\ active' = active \ {"io"}
  /\ inCallback' = TRUE
  /\ UNCHANGED <<pc, quit_, callingPendingFunctors_, wakeupFd_, caller,
                 queueVars>>

CallbackReturns ==
  /\ inCallback
  /\ inCallback' = FALSE
  /\ UNCHANGED <<pc, active, quit_, callingPendingFunctors_, wakeupFd_,
                 caller, queueVars>>

\* doPendingFunctors up to the swap under mutex_.
SwapFunctors ==
  /\ pc = "events" /\ ~inCallback /\ active = {}
  /\ pc' = "functors"
  /\ callingPendingFunctors_' = TRUE
  /\ functors' = pendingFunctors_
  /\ pendingFunctors_' = <<>>
  /\ UNCHANGED <<inCallback, active, quit_, wakeupFd_, caller, given,
                 executed, unsignalled>>

RunFunctor ==
  /\ pc = "functors" /\ ~inCallback /\ functors # <<>>
  /\ executed' = Append(executed, Head(functors))
  /\ functors' = Tail(functors)
  /\ inCallback' = TRUE
  /\ UNCHANGED <<pc, active, quit_, callingPendingFunctors_,
                 pendingFunctors_, wakeupFd_, caller, given, unsignalled>>

\* A doPendingFunctors that runs the vector in place and then clears it
\* loses what was queued meanwhile.
FunctorsDoneClearing ==
  /\ pc = "functors" /\ ~inCallback /\ functors = <<>>
  /\ callingPendingFunctors_' = FALSE
  /\ pendingFunctors_' = <<>>
  /\ pc' = "test"
  /\ UNCHANGED <<inCallback, active, quit_, functors, wakeupFd_, caller,
                 given, executed, unsignalled>>

\* A missing reset.
FunctorsDoneStillCalling ==
  /\ pc = "functors" /\ ~inCallback /\ functors = <<>>
  /\ pc' = "test"
  /\ UNCHANGED <<inCallback, active, quit_, callingPendingFunctors_, wakeupFd_,
                 caller, queueVars>>

FunctorsDone ==
  /\ pc = "functors" /\ ~inCallback /\ functors = <<>>
  /\ callingPendingFunctors_' = FALSE
  /\ pc' = "test"
  /\ UNCHANGED <<inCallback, active, quit_, wakeupFd_, caller, queueVars>>
-----------------------------------------------------------------------------
(***************************************************************************)
(* Calls of runInLoop, queueInLoop and quit by user code that the loop's   *)
(* own thread runs: a callback, or code outside loop().                    *)
(***************************************************************************)
UserCode == inCallback \/ pc = "outside"

\* Waking the loop for other threads only.
MustWakeOthersOnly(inLoopThread) == ~inLoopThread

\* queueInLoop's condition for waking the loop.
MustWake(inLoopThread) == ~inLoopThread \/ callingPendingFunctors_

Push(f) ==
  /\ f \notin given
  /\ given' = given \cup {f}
  /\ pendingFunctors_' = Append(pendingFunctors_, f)
  /\ UNCHANGED <<functors, executed>>

QueueInLoopHere(f) ==
  /\ UserCode
  /\ Push(f)
  /\ wakeupFd_' = (wakeupFd_ \/ MustWake(TRUE))
  /\ unsignalled' = IF pc = "outside" THEN unsignalled \cup {f}
                                      ELSE unsignalled
  /\ UNCHANGED <<pc, inCallback, active, quit_, callingPendingFunctors_,
                 caller>>

\* runInLoop in the loop's thread calls cb() at once.
RunInLoopHere(f) ==
  /\ UserCode
  /\ f \notin given
  /\ given' = given \cup {f}
  /\ executed' = Append(executed, f)
  /\ UNCHANGED <<pc, inCallback, active, quit_, callingPendingFunctors_,
                 pendingFunctors_, functors, wakeupFd_, caller, unsignalled>>

QuitHere ==
  /\ UserCode
  /\ quit_' = TRUE
  /\ UNCHANGED <<pc, inCallback, active, callingPendingFunctors_,
                 wakeupFd_, caller, queueVars>>
-----------------------------------------------------------------------------
(***************************************************************************)
(* Calls by another thread t.  For it runInLoop is queueInLoop.            *)
(***************************************************************************)
QueueInLoop(t, f) ==
  /\ caller[t] = "idle"
  /\ Push(f)
  /\ caller' = IF MustWake(FALSE) THEN [caller EXCEPT ![t] = "wake"]
                                  ELSE caller
  /\ UNCHANGED <<pc, inCallback, active, quit_, callingPendingFunctors_,
                 wakeupFd_, unsignalled>>

\* quit() that leaves the waking of the loop out.
QuitSilently(t) ==
  /\ caller[t] = "idle"
  /\ quit_' = TRUE
  /\ UNCHANGED <<pc, inCallback, active, callingPendingFunctors_,
                 wakeupFd_, caller, queueVars>>

Quit(t) ==
  /\ caller[t] = "idle"
  /\ quit_' = TRUE
  /\ caller' = [caller EXCEPT ![t] = "wake"]
  /\ UNCHANGED <<pc, inCallback, active, callingPendingFunctors_,
                 wakeupFd_, queueVars>>

\* wakeup(): the write to the eventfd that ends queueInLoop or quit.
Wakeup(t) ==
  /\ caller[t] = "wake"
  /\ caller' = [caller EXCEPT ![t] = "idle"]
  /\ wakeupFd_' = TRUE
  /\ UNCHANGED <<pc, inCallback, active, quit_, callingPendingFunctors_,
                 queueVars>>
-----------------------------------------------------------------------------
LoopStep ==
  \/ Enter \/ Test
  \/ \E ready \in SUBSET Channels : PollReturn(ready)
  \/ HandleWakeup \/ HandleIo \/ CallbackReturns
  \/ SwapFunctors \/ RunFunctor \/ FunctorsDone

HereStep ==
  \/ QuitHere
  \/ \E f \in Functors : QueueInLoopHere(f) \/ RunInLoopHere(f)

CallerStep(t) ==
  \/ Wakeup(t) \/ Quit(t)
  \/ \E f \in Functors : QueueInLoop(t, f)

Next == LoopStep \/ HereStep \/ \E t \in Callers : CallerStep(t)

\* The loop's thread and the callers are scheduled, callbacks return, and
\* epoll_wait reports a readable eventfd.  Nothing is assumed of the
\* 10-second timeout, of other channels, or of anyone calling loop().
Fairness ==
  /\ WF_vars(Test)
  /\ WF_vars(\E ready \in SUBSET Channels :
               "wakeup" \in ready /\ PollReturn(ready))
  /\ WF_vars(HandleWakeup)
  /\ WF_vars(HandleIo)
  /\ WF_vars(CallbackReturns)
  /\ WF_vars(SwapFunctors)
  /\ WF_vars(RunFunctor)
  /\ WF_vars(FunctorsDone)
  /\ \A t \in Callers : WF_vars(Wakeup(t))

Spec == Init /\ [][Next]_vars
FairSpec == Spec /\ Fairness
-----------------------------------------------------------------------------
(***************************************************************************)
(* Properties.                                                             *)
(***************************************************************************)
\* Every variable keeps its type.
TypeOK ==
  /\ pc \in Locations
  /\ inCallback \in BOOLEAN /\ quit_ \in BOOLEAN
  /\ callingPendingFunctors_ \in BOOLEAN /\ wakeupFd_ \in BOOLEAN
  /\ active \in SUBSET Channels
  /\ pendingFunctors_ \in Seq(Functors) /\ functors \in Seq(Functors)
  /\ caller \in [Callers -> {"idle", "wake"}]
  /\ given \in SUBSET Functors /\ unsignalled \in SUBSET Functors
  /\ executed \in Seq(Functors)

SomeoneWakes == wakeupFd_ \/ \E t \in Callers : caller[t] = "wake"

\* A loop that sleeps in epoll_wait after quit() is about to be woken.
NoSleepAfterQuit == pc = "poll" /\ quit_ => SomeoneWakes

\* queueInLoop's wake-up condition and quit()'s are enough: whenever the loop
\* is about to sleep or sleeps in epoll_wait, a functor that waits and a quit()
\* are announced by a readable wakeupFd_ or by a caller about to write to it,
\* so that nothing sits out the 10 s timeout.  The exception is a functor the
\* loop's thread queued while it was not inside loop().
NoLostWakeup ==
  /\ pc = "poll" =>
       \A i \in DOMAIN pendingFunctors_ :
         pendingFunctors_[i] \in unsignalled \/ SomeoneWakes
  /\ NoSleepAfterQuit

\* What wakes the loop need only hold while the handlers are not running:
\* they are followed by doPendingFunctors, which takes everything.
Announced ==
  pc # "events" =>
    \A i \in DOMAIN pendingFunctors_ :
      pendingFunctors_[i] \in unsignalled \/ SomeoneWakes

\* User code runs under a handler or a functor only, callingPendingFunctors_
\* says which, and doPendingFunctors leaves nothing in its local vector.
LoopShape ==
  /\ inCallback => pc \in {"events", "functors"}
  /\ callingPendingFunctors_ <=> pc = "functors"
  /\ functors # <<>> => pc = "functors"

\* Types, and what ties loop()'s state together at every step: user code runs
\* only under a handler or a functor, callingPendingFunctors_ is set exactly
\* during doPendingFunctors, which leaves its vector empty, and outside the
\* handlers whatever waits or asks the loop to end is announced.  Inductive.
LoopInv == TypeOK /\ LoopShape /\ Announced /\ NoSleepAfterQuit

\* The loop is a functor queue: the batch taken by the last swap, followed by
\* what was queued since, is one FIFO that loses and repeats nothing.
Queue == INSTANCE FunctorQueue
           WITH queue <- functors \o pendingFunctors_
ImplementsQueue == Queue!FQSpec

\* Without help from the timeout, a functor that was announced runs, or the
\* loop leaves loop().
FunctorsRun ==
  \A f \in Functors :
    (f \in Range(pendingFunctors_) \ unsignalled)
      ~> (f \in Range(executed) \/ pc = "outside")

\* quit() during loop() ends it.
QuitEndsLoop == (quit_ /\ pc # "outside") ~> (pc = "outside")
=============================================================================

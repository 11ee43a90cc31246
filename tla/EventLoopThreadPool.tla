------------------------ MODULE EventLoopThreadPool ------------------------
(***************************************************************************)
(* EventLoopThreadPool, the EventLoopThreads it owns and their Threads:    *)
(* how the main thread starts the io loops, hands them out in turn, and    *)
(* ends them.                                                              *)
(*                                                                         *)
(* A critical section under an EventLoopThread's mutex_ is one step;       *)
(* cond_.wait gives the mutex up and is left on a notification or          *)
(* spuriously.  What a loop does between EventLoop::loop's entry and its   *)
(* exit is module EventLoop's business: here it ends once it sees quit_,   *)
(* and is sure to see it only when woken.                                  *)
(*                                                                         *)
(* A loop may be quit by its own thread's callbacks, or by the destructor. *)
(* Assumed of the user: the pool is destroyed by the thread that started   *)
(* it, and no other thread quits the pool's loops.                         *)
(***************************************************************************)
EXTENDS Naturals

CONSTANTS
  numThreads_,
  MaxPicks                  \* bound: calls of getNextLoop

ASSUME NumThreadsAssumption == numThreads_ \in Nat
ASSUME MaxPicksAssumption == MaxPicks \in Nat

VARIABLES
  main,                     \* where the main thread stands
  current,                  \* the EventLoopThread it is busy with
  worker,                   \* where each io thread stands
  sem,                      \* Thread::start's semaphore has been posted
  loop_,                    \* EventLoopThread's loop_ is not null
  quit_, woken,             \* its loop's quit_; that loop's wakeupFd_ was
                            \* written to
  selfQuit,                 \* history: loops quit by their own threads
  started,                  \* how many loops the pool's loops_ holds
  next_,
  picks                     \* history: how often each loop was handed out

mainVars == <<main, current>>
poolVars == <<started, next_, picks>>
quitVars == <<quit_, woken, selfQuit>>
vars == <<mainVars, worker, sem, loop_, quitVars, poolVars>>

Threads == 1 .. numThreads_
BaseLoop == 0
Loops == Threads \cup {BaseLoop}

MainAt == {"start", "semaphore", "check", "wait", "serving",
           "dtor", "quit", "wake", "join", "gone"}
WorkerAt == {"none", "created", "building", "publishing", "entering",
             "looping", "leaving", "ending", "ended"}

Init ==
  /\ main = "start" /\ current = 1
  /\ worker = [i \in Threads |-> "none"]
  /\ sem = [i \in Threads |-> FALSE]
  /\ loop_ = [i \in Threads |-> FALSE]
  /\ quit_ = [i \in Threads |-> FALSE]
  /\ woken = [i \in Threads |-> FALSE]
  /\ selfQuit = {} /\ started = 0 /\ next_ = 0 /\ picks = [l \in Loops |-> 0]
-----------------------------------------------------------------------------
(***************************************************************************)
(* The main thread: start(), getNextLoop(), and the destructors.           *)
(***************************************************************************)
\* Thread::start up to sem_wait.
StartThread ==
  /\ main = "start" /\ current \in Threads
  /\ worker' = [worker EXCEPT ![current] = "created"]
  /\ main' = "semaphore"
  /\ UNCHANGED <<current, sem, loop_, quitVars, poolVars>>

SemaphorePassed ==
  /\ main = "semaphore" /\ sem[current]
  /\ sem' = [sem EXCEPT ![current] = FALSE]
  /\ main' = "check"
  /\ UNCHANGED <<current, worker, loop_, quitVars, poolVars>>

\* A start() that does not go on to the next thread.
TakeSame ==
  /\ started' = started + 1
  /\ main' = "start"
  /\ UNCHANGED <<current, next_, picks>>

\* startLoop returns, and start() stores what it returns and goes on.
TakeLoop ==
  /\ started' = started + 1
  /\ current' = current + 1
  /\ main' = "start"
  /\ UNCHANGED <<next_, picks>>

\* A startLoop that takes loop_ without waiting for its thread to publish it.
CheckOnce ==
  /\ main = "check"
  /\ TakeLoop
  /\ UNCHANGED <<worker, sem, loop_, quitVars>>

\* startLoop's test of loop_ under mutex_.
CheckLoop ==
  /\ main = "check"
  /\ \/ loop_[current] /\ TakeLoop
     \/ ~loop_[current] /\ main' = "wait" /\ UNCHANGED <<current, poolVars>>
  /\ UNCHANGED <<worker, sem, loop_, quitVars>>

WakeSpuriously ==
  /\ main = "wait"
  /\ main' = "check"
  /\ UNCHANGED <<current, worker, sem, loop_, quitVars, poolVars>>

StartDone ==
  /\ main = "start" /\ current \notin Threads
  /\ main' = "serving"
  /\ UNCHANGED <<current, worker, sem, loop_, quitVars, poolVars>>

\* A next_ that is reset to the second loop.
NextFromOne(n) == IF n + 1 >= started THEN 1 ELSE n + 1

NextIndex(n) == IF n + 1 >= started THEN 0 ELSE n + 1

\* loops_[next_] is the loop of thread next_ + 1.
NextLoop == IF started = 0 THEN BaseLoop ELSE next_ + 1

GetNextLoop ==
  /\ main = "serving"
  /\ picks[NextLoop] < MaxPicks
  /\ picks' = [picks EXCEPT ![NextLoop] = @ + 1]
  /\ next_' = IF started = 0 THEN next_ ELSE NextIndex(next_)
  /\ UNCHANGED <<mainVars, worker, sem, loop_, quitVars, started>>

\* The pool's threads_ are destroyed, first to last.
DestroyPool ==
  /\ main = "serving"
  /\ current' = 1
  /\ main' = IF numThreads_ = 0 THEN "gone" ELSE "dtor"
  /\ UNCHANGED <<worker, sem, loop_, quitVars, poolVars>>

NextThread ==
  \/ current < numThreads_ /\ current' = current + 1 /\ main' = "dtor"
  \/ current = numThreads_ /\ main' = "gone" /\ UNCHANGED current

\* EventLoopThread's destructor reads loop_, without mutex_.  A thread whose
\* loop has ended by itself is detached.
ReadLoop ==
  /\ main = "dtor"
  /\ \/ loop_[current] /\ main' = "quit" /\ UNCHANGED current
     \/ ~loop_[current] /\ NextThread
  /\ UNCHANGED <<worker, sem, loop_, quitVars, poolVars>>

\* EventLoop::quit sets quit_, and then wakes the loop.
SetQuit ==
  /\ main = "quit"
  /\ quit_' = [quit_ EXCEPT ![current] = TRUE]
  /\ main' = "wake"
  /\ UNCHANGED <<current, worker, sem, loop_, woken, selfQuit, poolVars>>

\* quit() without the wakeup.
SkipWake ==
  /\ main = "wake"
  /\ main' = "join"
  /\ UNCHANGED <<current, worker, sem, loop_, quitVars, poolVars>>

WakeLoop ==
  /\ main = "wake"
  /\ woken' = [woken EXCEPT ![current] = TRUE]
  /\ main' = "join"
  /\ UNCHANGED <<current, worker, sem, loop_, quit_, selfQuit, poolVars>>

\* A destructor that does not wait for the thread.
DetachThread ==
  /\ main = "join"
  /\ NextThread
  /\ UNCHANGED <<worker, sem, loop_, quitVars, poolVars>>

JoinThread ==
  /\ main = "join" /\ worker[current] = "ended"
  /\ NextThread
  /\ UNCHANGED <<worker, sem, loop_, quitVars, poolVars>>
-----------------------------------------------------------------------------
(***************************************************************************)
(* The io threads: Thread::start's lambda and EventLoopThread::threadFunc. *)
(***************************************************************************)
Goes(i, from, to) ==
  /\ worker[i] = from
  /\ worker' = [worker EXCEPT ![i] = to]

PostSemaphore(i) ==
  /\ Goes(i, "created", "building")
  /\ sem' = [sem EXCEPT ![i] = TRUE]
  /\ UNCHANGED <<mainVars, loop_, quitVars, poolVars>>

\* The EventLoop is constructed and the user's ThreadInitCallback is called.
BuildLoop(i) ==
  /\ Goes(i, "building", "publishing")
  /\ UNCHANGED <<mainVars, sem, loop_, quitVars, poolVars>>

\* Setting loop_ without notifying.
PublishSilently(i) ==
  /\ Goes(i, "publishing", "entering")
  /\ loop_' = [loop_ EXCEPT ![i] = TRUE]
  /\ UNCHANGED <<mainVars, sem, quitVars, poolVars>>

PublishLoop(i) ==
  /\ Goes(i, "publishing", "entering")
  /\ loop_' = [loop_ EXCEPT ![i] = TRUE]
  /\ main' = IF main = "wait" /\ current = i THEN "check" ELSE main
  /\ UNCHANGED <<current, sem, quitVars, poolVars>>

\* EventLoop::loop resets quit_.
EnterLoop(i) ==
  /\ Goes(i, "entering", "looping")
  /\ quit_' = [quit_ EXCEPT ![i] = FALSE]
  /\ UNCHANGED <<mainVars, sem, loop_, woken, selfQuit, poolVars>>

\* quit() in a callback of the loop.
QuitSelf(i) ==
  /\ worker[i] = "looping"
  /\ quit_' = [quit_ EXCEPT ![i] = TRUE]
  /\ selfQuit' = selfQuit \cup {i}
  /\ UNCHANGED <<mainVars, worker, sem, loop_, woken, poolVars>>

LeaveLoop(i) ==
  /\ quit_[i]
  /\ Goes(i, "looping", "leaving")
  /\ UNCHANGED <<mainVars, sem, loop_, quitVars, poolVars>>

\* threadFunc clears loop_ under mutex_.
WithdrawLoop(i) ==
  /\ Goes(i, "leaving", "ending")
  /\ loop_' = [loop_ EXCEPT ![i] = FALSE]
  /\ UNCHANGED <<mainVars, sem, quitVars, poolVars>>

\* The EventLoop is destroyed, and the thread ends.
EndThread(i) ==
  /\ Goes(i, "ending", "ended")
  /\ UNCHANGED <<mainVars, sem, loop_, quitVars, poolVars>>
-----------------------------------------------------------------------------
MainStep ==
  \/ StartThread \/ SemaphorePassed \/ CheckLoop \/ StartDone
  \/ ReadLoop \/ SetQuit \/ WakeLoop \/ JoinThread

ThreadStep(i) ==
  \/ PostSemaphore(i) \/ BuildLoop(i) \/ PublishLoop(i) \/ EnterLoop(i)
  \/ WithdrawLoop(i) \/ EndThread(i)

Next ==
  \/ MainStep \/ WakeSpuriously \/ GetNextLoop \/ DestroyPool
  \/ \E i \in Threads : ThreadStep(i) \/ QuitSelf(i) \/ LeaveLoop(i)

Spec == Init /\ [][Next]_vars

\* The threads are scheduled, and a loop that was woken, or whose callback
\* called quit(), goes on to its test of quit_.  Nothing is assumed of the
\* 10-second timeout, of spurious wake-ups, or of anybody destroying the pool.
Fairness ==
  /\ WF_vars(MainStep)
  /\ \A i \in Threads : WF_vars(ThreadStep(i))
  /\ \A i \in Threads : WF_vars((woken[i] \/ i \in selfQuit) /\ LeaveLoop(i))

FairSpec == Spec /\ Fairness
-----------------------------------------------------------------------------
(***************************************************************************)
(* Properties.                                                             *)
(***************************************************************************)
\* Every variable keeps its type.
TypeOK ==
  /\ main \in MainAt /\ current \in 1 .. numThreads_ + 1
  /\ worker \in [Threads -> WorkerAt]
  /\ sem \in [Threads -> BOOLEAN] /\ loop_ \in [Threads -> BOOLEAN]
  /\ quit_ \in [Threads -> BOOLEAN] /\ woken \in [Threads -> BOOLEAN]
  /\ selfQuit \subseteq Threads /\ started \in 0 .. numThreads_
  /\ next_ \in Nat /\ picks \in [Loops -> Nat]

Destroying == main \in {"dtor", "quit", "wake", "join", "gone"}

\* The pool holds the loop of thread i, which has not quit by itself, and the
\* destructor of its EventLoopThread has not called quit().
Serves(i) ==
  /\ i <= started /\ i \notin selfQuit
  /\ Destroying => current < i \/ (current = i /\ main \in {"dtor", "quit"})

\* A loop that the pool hands out exists, and goes on existing until its
\* EventLoopThread's destructor quits it, unless it quits by itself: the
\* destructor's test of loop_ needs no mutex_ for the quit() that follows.
LoopsLive ==
  \A i \in Threads : Serves(i) =>
    loop_[i] /\ worker[i] \in {"entering", "looping"}

\* Loops are handed out in turn: no loop gets two connections more than
\* another, nor one more than a loop that comes before it.
RoundRobin ==
  \A i, j \in 1 .. started : i < j =>
    picks[j] <= picks[i] /\ picks[i] <= picks[j] + 1

\* When an EventLoopThread is gone its thread does not run, and so does not
\* touch it, unless its loop quit by itself.
NoneLeftRunning ==
  \A i \in Threads \ selfQuit :
    main = "gone" \/ (Destroying /\ i < current) => worker[i] = "ended"

\* start() waits only for what is still to come: for the semaphore as long as
\* it is posted or the thread is going to post it, on the condition variable
\* as long as the thread has yet to publish loop_ and to notify.  (A loop that
\* quits before startLoop has seen it is missed.)
StartWaitsForNews ==
  /\ main = "semaphore" => sem[current] \/ worker[current] = "created"
  /\ main = "wait" => \/ worker[current] \in {"building", "publishing"}
                      \/ current \in selfQuit

\* start() returns: neither the semaphore nor the condition variable loses
\* its signal.  (A loop that quits before startLoop has seen it is missed.)
StartReturns == <>(main = "serving" \/ selfQuit # {})

\* A loop that the destructor has found running is ended, and joined.
JoinReturns ==
  \A i \in Threads :
    (main = "wake" /\ current = i /\ quit_[i] /\ worker[i] = "looping")
      ~> (main = "gone" \/ current # i)

\* The destructor returns: quit() ends the loop it is called on.
DestructorReturns == Destroying ~> (main = "gone")
=============================================================================

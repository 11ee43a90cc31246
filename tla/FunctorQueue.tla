---------------------------- MODULE FunctorQueue ----------------------------
(***************************************************************************)
(* What an event loop promises to the threads that hand it work            *)
(* (EventLoop::runInLoop and EventLoop::queueInLoop): no functor is lost   *)
(* while the loop has not run it, none runs twice, and the functors that   *)
(* wait for the loop run in the order in which they were queued.  A        *)
(* functor that the loop's own thread passes to runInLoop runs at once,    *)
(* ahead of those that wait.                                               *)
(*                                                                         *)
(* Module EventLoop implements this specification.                         *)
(***************************************************************************)
EXTENDS Sequences

CONSTANT Functors           \* one element for each call that hands one in

VARIABLES
  given,                    \* the functors handed in so far
  queue,                    \* those that wait, oldest first
  executed                  \* those that were run, in that order

fqVars == <<given, queue, executed>>

FQInit ==
  /\ given = {}
  /\ queue = <<>>
  /\ executed = <<>>

Enqueue(f) ==
  /\ f \notin given
  /\ given' = given \cup {f}
  /\ queue' = Append(queue, f)
  /\ UNCHANGED executed

RunHead ==
  /\ queue # <<>>
  /\ executed' = Append(executed, Head(queue))
  /\ queue' = Tail(queue)
  /\ UNCHANGED given

RunNow(f) ==
  /\ f \notin given
  /\ given' = given \cup {f}
  /\ executed' = Append(executed, f)
  /\ UNCHANGED queue

FQNext == RunHead \/ \E f \in Functors : Enqueue(f) \/ RunNow(f)

FQSpec == FQInit /\ [][FQNext]_fqVars
=============================================================================

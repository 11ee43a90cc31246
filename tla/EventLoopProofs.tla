--------------------------- MODULE EventLoopProofs ---------------------------
(***************************************************************************)
(* Proofs about EventLoop, for any sets of callers and of functors: the    *)
(* type invariant, the two wake-up invariants, and that the loop is the    *)
(* functor queue of module FunctorQueue.                                   *)
(***************************************************************************)
EXTENDS EventLoop, SequenceTheorems, TLAPS
-----------------------------------------------------------------------------
\* Every variable keeps its type, whatever the loop and its callers do.
THEOREM TypeCorrect == Spec => []TypeOK
<1>1. Init => TypeOK
  BY EmptySeq DEF Init, TypeOK, Locations, Channels
<1>2. TypeOK /\ [Next]_vars => TypeOK'
  <2> SUFFICES ASSUME TypeOK, [Next]_vars PROVE TypeOK'
    OBVIOUS
  <2> USE DEF TypeOK, queueVars, Locations
  <2>1. CASE Enter
    BY <2>1 DEF Enter
  <2>2. CASE Test
    BY <2>2 DEF Test
  <2>3. ASSUME NEW ready \in SUBSET Channels, PollReturn(ready)
        PROVE  TypeOK'
    BY <2>3 DEF PollReturn
  <2>4. CASE HandleWakeup
    BY <2>4 DEF HandleWakeup
  <2>5. CASE HandleIo
    BY <2>5 DEF HandleIo
  <2>6. CASE CallbackReturns
    BY <2>6 DEF CallbackReturns
  <2>7. CASE SwapFunctors
    BY <2>7, EmptySeq DEF SwapFunctors
  <2>8. CASE RunFunctor
    <3>1. Head(functors) \in Functors /\ Tail(functors) \in Seq(Functors)
      BY <2>8, HeadTailProperties DEF RunFunctor
    <3>2. executed' \in Seq(Functors)
      BY <2>8, <3>1, AppendProperties DEF RunFunctor
    <3>. QED
      BY <2>8, <3>1, <3>2 DEF RunFunctor
  <2>9. CASE FunctorsDone
    BY <2>9 DEF FunctorsDone
  <2>10. CASE QuitHere
    BY <2>10 DEF QuitHere
  <2>11. ASSUME NEW f \in Functors, QueueInLoopHere(f)
         PROVE  TypeOK'
    <3>1. pendingFunctors_' \in Seq(Functors)
      BY <2>11, AppendProperties DEF QueueInLoopHere, Push
    <3>. QED
      BY <2>11, <3>1 DEF QueueInLoopHere, Push, MustWake
  <2>12. ASSUME NEW f \in Functors, RunInLoopHere(f)
         PROVE  TypeOK'
    <3>1. executed' \in Seq(Functors)
      BY <2>12, AppendProperties DEF RunInLoopHere
    <3>. QED
      BY <2>12, <3>1 DEF RunInLoopHere
  <2>13. ASSUME NEW t \in Callers, Wakeup(t)
         PROVE  TypeOK'
    BY <2>13 DEF Wakeup
  <2>14. ASSUME NEW t \in Callers, Quit(t)
         PROVE  TypeOK'
    BY <2>14 DEF Quit
  <2>15. ASSUME NEW t \in Callers, NEW f \in Functors, QueueInLoop(t, f)
         PROVE  TypeOK'
    <3>1. pendingFunctors_' \in Seq(Functors)
      BY <2>15, AppendProperties DEF QueueInLoop, Push
    <3>. QED
      BY <2>15, <3>1 DEF QueueInLoop, Push, MustWake
  <2>16. CASE UNCHANGED vars
    BY <2>16 DEF vars
  <2>. QED
    BY <2>1, <2>2, <2>3, <2>4, <2>5, <2>6, <2>7, <2>8, <2>9, <2>10, <2>11,
       <2>12, <2>13, <2>14, <2>15, <2>16
    DEF Next, LoopStep, HereStep, CallerStep
<1>. QED
  BY <1>1, <1>2, PTL DEF Spec
-----------------------------------------------------------------------------
\* The strengthened invariant holds: user code runs where it should, and a
\* functor that waits is announced unless the handlers are running.
THEOREM LoopInvariant == Spec => []LoopInv
<1>1. Init => LoopInv
  <2>1. Init => TypeOK
    BY EmptySeq DEF Init, TypeOK, Locations, Channels
  <2>. QED
    BY <2>1 DEF Init, LoopInv, LoopShape, Announced, NoSleepAfterQuit
<1>2. LoopInv /\ TypeOK' /\ [Next]_vars => LoopInv'
  <2> SUFFICES ASSUME LoopInv, TypeOK', [Next]_vars PROVE LoopInv'
    OBVIOUS
  <2> USE DEF LoopInv, TypeOK, LoopShape, Announced,
              NoSleepAfterQuit, SomeoneWakes, queueVars
  <2>1. CASE Enter
    BY <2>1 DEF Enter
  <2>2. CASE Test
    BY <2>2 DEF Test
  <2>3. ASSUME NEW ready \in SUBSET Channels, PollReturn(ready)
        PROVE  LoopInv'
    BY <2>3 DEF PollReturn
  <2>4. CASE HandleWakeup
    BY <2>4 DEF HandleWakeup
  <2>5. CASE HandleIo
    BY <2>5 DEF HandleIo
  <2>6. CASE CallbackReturns
    BY <2>6 DEF CallbackReturns
  <2>7. CASE SwapFunctors
    BY <2>7 DEF SwapFunctors
  <2>8. CASE RunFunctor
    BY <2>8 DEF RunFunctor
  <2>9. CASE FunctorsDone
    BY <2>9 DEF FunctorsDone
  <2>10. CASE QuitHere
    BY <2>10 DEF QuitHere, UserCode
  <2>11. ASSUME NEW f \in Functors, QueueInLoopHere(f)
         PROVE  LoopInv'
    <3>1. CASE pc = "functors"
      BY <2>11, <3>1 DEF QueueInLoopHere, Push, MustWake
    <3>2. CASE pc = "events"
      BY <2>11, <3>2 DEF QueueInLoopHere, Push
    <3>3. CASE pc = "outside"
      <4>1. /\ DOMAIN pendingFunctors_' = 1 .. Len(pendingFunctors_) + 1
            /\ pendingFunctors_'[Len(pendingFunctors_) + 1] = f
            /\ \A i \in 1 .. Len(pendingFunctors_) :
                 pendingFunctors_'[i] = pendingFunctors_[i]
        BY <2>11, AppendProperties, LenProperties DEF QueueInLoopHere, Push
      <4>2. /\ DOMAIN pendingFunctors_ = 1 .. Len(pendingFunctors_)
            /\ Len(pendingFunctors_) \in Nat
        BY LenProperties
      <4>3. unsignalled' = unsignalled \cup {f}
        BY <2>11, <3>3 DEF QueueInLoopHere
      <4>4. SomeoneWakes => SomeoneWakes'
        BY <2>11 DEF QueueInLoopHere
      <4>5. ASSUME NEW i \in DOMAIN pendingFunctors_'
            PROVE  pendingFunctors_'[i] \in unsignalled' \/ SomeoneWakes'
        <5>1. CASE i = Len(pendingFunctors_) + 1
          BY <4>1, <4>3, <5>1
        <5>2. CASE i \in DOMAIN pendingFunctors_
          BY <4>1, <4>2, <4>3, <4>4, <5>2, <3>3
        <5>. QED
          BY <4>1, <4>2, <5>1, <5>2
      <4>6. LoopShape' /\ NoSleepAfterQuit'
        BY <2>11, <3>3 DEF QueueInLoopHere, Push
      <4>. QED
        BY <4>5, <4>6
    <3>. QED
      BY <2>11, <3>1, <3>2, <3>3 DEF QueueInLoopHere, UserCode
  <2>12. ASSUME NEW f \in Functors, RunInLoopHere(f)
         PROVE  LoopInv'
    BY <2>12 DEF RunInLoopHere
  <2>13. ASSUME NEW t \in Callers, Wakeup(t)
         PROVE  LoopInv'
    BY <2>13 DEF Wakeup
  <2>14. ASSUME NEW t \in Callers, Quit(t)
         PROVE  LoopInv'
    <3>1. SomeoneWakes'
      BY <2>14 DEF Quit
    <3>. QED
      BY <2>14, <3>1 DEF Quit
  <2>15. ASSUME NEW t \in Callers, NEW f \in Functors, QueueInLoop(t, f)
         PROVE  LoopInv'
    <3>1. SomeoneWakes'
      BY <2>15 DEF QueueInLoop, MustWake
    <3>. QED
      BY <2>15, <3>1 DEF QueueInLoop, Push
  <2>16. CASE UNCHANGED vars
    BY <2>16 DEF vars
  <2>. QED
    BY <2>1, <2>2, <2>3, <2>4, <2>5, <2>6, <2>7, <2>8, <2>9, <2>10, <2>11,
       <2>12, <2>13, <2>14, <2>15, <2>16
    DEF Next, LoopStep, HereStep, CallerStep
<1>. QED
  BY <1>1, <1>2, TypeCorrect, PTL DEF Spec

\* queueInLoop's wake-up condition suffices: the loop never sleeps on a
\* functor that nothing announces, except one queued outside loop().
THEOREM WakeupNotLost == Spec => []NoLostWakeup
<1>1. LoopInv => NoLostWakeup
  BY DEF LoopInv, Announced, NoLostWakeup
<1>. QED
  BY <1>1, LoopInvariant, PTL

-----------------------------------------------------------------------------
\* Taking the head of a concatenation takes it from its first part.
LEMMA TailOfConcat ==
  ASSUME NEW S, NEW s \in Seq(S), NEW t \in Seq(S), s # <<>>
  PROVE  /\ s \o t # <<>>
         /\ Head(s \o t) = Head(s)
         /\ Tail(s \o t) = Tail(s) \o t
<1>1. /\ s \o t \in Seq(S) /\ Len(s \o t) = Len(s) + Len(t)
      /\ Len(s) \in Nat \ {0} /\ Len(t) \in Nat
  BY ConcatProperties, EmptySeq, LenProperties
<1>2. s \o t # <<>>
  BY <1>1, EmptySeq
<1>3. Head(s \o t) = Head(s)
  BY <1>1, <1>2, ConcatProperties
<1>4. /\ Tail(s \o t) \in Seq(S) /\ Tail(s) \in Seq(S)
      /\ Len(Tail(s \o t)) = Len(s) + Len(t) - 1
      /\ Len(Tail(s)) = Len(s) - 1
      /\ \A i \in 1 .. Len(s) + Len(t) - 1 : Tail(s \o t)[i] = (s \o t)[i + 1]
      /\ \A i \in 1 .. Len(s) - 1 : Tail(s)[i] = s[i + 1]
  BY <1>1, <1>2, HeadTailProperties
<1>5. /\ Tail(s) \o t \in Seq(S)
      /\ Len(Tail(s) \o t) = Len(s) - 1 + Len(t)
      /\ \A i \in 1 .. Len(s) - 1 + Len(t) : (Tail(s) \o t)[i] =
           IF i <= Len(s) - 1 THEN Tail(s)[i] ELSE t[i - (Len(s) - 1)]
  BY <1>4, ConcatProperties
<1>6. ASSUME NEW i \in 1 .. Len(s) + Len(t) - 1
      PROVE  Tail(s \o t)[i] = (Tail(s) \o t)[i]
  <2>1. (s \o t)[i + 1] = IF i + 1 <= Len(s) THEN s[i + 1]
                                           ELSE t[i + 1 - Len(s)]
    BY <1>1, ConcatProperties
  <2>. QED
    BY <2>1, <1>1, <1>4, <1>5
<1>7. Tail(s \o t) = Tail(s) \o t
  BY <1>1, <1>4, <1>5, <1>6, SeqEqual
<1>. QED
  BY <1>2, <1>3, <1>7

\* Appending to the second part appends to the concatenation.
LEMMA AppendToConcat ==
  ASSUME NEW S, NEW s \in Seq(S), NEW t \in Seq(S), NEW e \in S
  PROVE  s \o Append(t, e) = Append(s \o t, e)
<1>1. <<e>> \in Seq(S) /\ s \o t \in Seq(S)
  BY ConcatProperties
<1>2. Append(t, e) = t \o <<e>> /\ Append(s \o t, e) = (s \o t) \o <<e>>
  BY <1>1, AppendIsConcat
<1>. QED
  BY <1>1, <1>2, ConcatAssociative

\* The loop implements the functor queue: every functor handed in runs at
\* most once, and those that wait run in the order in which they came.
THEOREM LoopIsAQueue == Spec => ImplementsQueue
<1>1. Init => Queue!FQInit
  BY ConcatEmptySeq, EmptySeq DEF Init, Queue!FQInit
<1>2. LoopInv /\ [Next]_vars
        => [Queue!FQNext]_(Queue!fqVars)
  <2> SUFFICES ASSUME LoopInv, [Next]_vars
               PROVE  [Queue!FQNext]_(Queue!fqVars)
    OBVIOUS
  <2> USE DEF queueVars
  <2>0. functors \in Seq(Functors) /\ pendingFunctors_ \in Seq(Functors)
    BY DEF LoopInv, TypeOK
  <2>1. CASE UNCHANGED queueVars
    BY <2>1 DEF Queue!fqVars
  <2>2. CASE SwapFunctors
    <3>1. functors = <<>>
      BY <2>2 DEF SwapFunctors, LoopInv, LoopShape
    <3>2. functors' \o pendingFunctors_' = functors \o pendingFunctors_
      BY <2>0, <2>2, <3>1, ConcatEmptySeq DEF SwapFunctors
    <3>. QED
      BY <2>2, <3>2 DEF SwapFunctors, Queue!fqVars
  <2>3. CASE RunFunctor
    <3>1. Queue!RunHead
      BY <2>0, <2>3, TailOfConcat DEF RunFunctor, Queue!RunHead
    <3>. QED
      BY <3>1 DEF Queue!FQNext
  <2>4. ASSUME NEW f \in Functors, Push(f)
        PROVE  Queue!FQNext
    <3>1. functors' \o pendingFunctors_' =
            Append(functors \o pendingFunctors_, f)
      BY <2>0, <2>4, AppendToConcat DEF Push
    <3>2. Queue!Enqueue(f)
      BY <2>4, <3>1 DEF Push, Queue!Enqueue
    <3>. QED
      BY <3>2 DEF Queue!FQNext
  <2>5. ASSUME NEW f \in Functors, RunInLoopHere(f)
        PROVE  Queue!FQNext
    <3>1. Queue!RunNow(f)
      BY <2>5 DEF RunInLoopHere, Queue!RunNow
    <3>. QED
      BY <3>1 DEF Queue!FQNext
  <2>. QED
    BY <2>1, <2>2, <2>3, <2>4, <2>5
    DEF Next, LoopStep, HereStep, CallerStep, vars, Enter, Test, PollReturn,
        HandleWakeup, HandleIo, CallbackReturns, FunctorsDone, QuitHere,
        QueueInLoopHere, Wakeup, Quit, QueueInLoop
<1>. QED
  BY <1>1, <1>2, LoopInvariant, PTL
  DEF Spec, ImplementsQueue, Queue!FQSpec
=============================================================================

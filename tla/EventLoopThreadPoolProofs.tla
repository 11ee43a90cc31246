--------------------- MODULE EventLoopThreadPoolProofs ---------------------
(***************************************************************************)
(* What holds of the pool for every number of threads: its types, that the *)
(* loops it hands out live, that they are handed out in turn, and that no  *)
(* thread outlives its EventLoopThread.                                    *)
(***************************************************************************)
EXTENDS EventLoopThreadPool, TLAPS

Starting == main \in {"start", "semaphore", "check", "wait"}

\* What the main thread's place says of its cursor and of the pool's loops_.
MainInv ==
  /\ Starting => started = current - 1
  /\ Starting => main = "start" \/ current \in Threads
  /\ ~Starting => started = numThreads_
  /\ main \in {"dtor", "quit", "wake", "join"} => current \in Threads
  /\ main = "gone" => numThreads_ = 0 \/ current = numThreads_

\* The destructor has quit the loop of thread i.
QuitByPool(i) ==
  \/ main = "gone"
  \/ Destroying /\ i < current
  \/ main \in {"wake", "join"} /\ i = current

HasEnded == {"leaving", "ending", "ended"}

\* loop_ is set from publication to withdrawal, the threads of the loops that
\* start() has taken have published theirs, and a loop ends only when quit.
WorkerInv ==
  \A i \in Threads :
    /\ loop_[i] <=> worker[i] \in {"entering", "looping", "leaving"}
    /\ i <= started => worker[i] \in {"entering", "looping"} \cup HasEnded
    /\ i > started /\ (i > current \/ main = "start") => worker[i] = "none"
    /\ quit_[i] \/ worker[i] \in HasEnded => i \in selfQuit \/ QuitByPool(i)

\* next_ loops have been handed out once more than the others.
InTurn ==
  /\ Starting => next_ = 0 /\ \A l \in Loops : picks[l] = 0
  /\ next_ = 0 \/ next_ < started
  /\ \E q \in Nat : \A i \in 1 .. started :
       picks[i] = IF i <= next_ THEN q + 1 ELSE q

PoolInv == TypeOK /\ MainInv /\ WorkerInv /\ NoneLeftRunning /\ InTurn
-----------------------------------------------------------------------------
\* The invariant holds throughout: no order of the main thread's and the io
\* threads' steps breaks it.
THEOREM PoolInvariant == Spec => []PoolInv
<1>. USE NumThreadsAssumption, MaxPicksAssumption
     DEF Threads, Loops, BaseLoop, Starting, Destroying
<1>1. Init => PoolInv
  <2>. SUFFICES ASSUME Init PROVE PoolInv
    OBVIOUS
  <2>1. TypeOK /\ MainInv /\ WorkerInv /\ NoneLeftRunning
    BY DEF Init, TypeOK, MainAt, WorkerAt, MainInv, WorkerInv, QuitByPool,
      HasEnded, NoneLeftRunning
  <2>2. \A i \in 1 .. started : picks[i] = IF i <= next_ THEN 0 + 1 ELSE 0
    BY DEF Init
  <2>3. InTurn
    BY <2>2, 0 \in Nat DEF Init, InTurn
  <2>. QED
    BY <2>1, <2>3 DEF PoolInv
<1>2. PoolInv /\ [Next]_vars => PoolInv'
  <2>. SUFFICES ASSUME PoolInv, [Next]_vars PROVE PoolInv'
    OBVIOUS
  <2>. USE DEF PoolInv
  <2>1. CASE StartThread
    <3>1. TypeOK'
      BY <2>1 DEF StartThread, TypeOK, MainAt, WorkerAt, MainInv, mainVars,
        quitVars, poolVars
    <3>2. MainInv'
      BY <2>1 DEF StartThread, TypeOK, MainAt, MainInv, mainVars, quitVars,
        poolVars
    <3>3. WorkerInv'
      BY <2>1 DEF StartThread, TypeOK, MainInv, WorkerInv, QuitByPool,
        HasEnded, mainVars, quitVars, poolVars
    <3>4. NoneLeftRunning'
      BY <2>1 DEF StartThread, TypeOK, MainInv, WorkerInv, QuitByPool,
        HasEnded, NoneLeftRunning, mainVars, quitVars, poolVars
    <3>5. InTurn'
      BY <2>1 DEF StartThread, TypeOK, MainInv, InTurn, mainVars, quitVars,
        poolVars
    <3>. QED
      BY <3>1, <3>2, <3>3, <3>4, <3>5
  <2>2. CASE SemaphorePassed
    <3>1. TypeOK'
      BY <2>2 DEF SemaphorePassed, TypeOK, MainAt, WorkerAt, MainInv,
        mainVars, quitVars, poolVars
    <3>2. MainInv'
      BY <2>2 DEF SemaphorePassed, TypeOK, MainAt, MainInv, mainVars,
        quitVars, poolVars
    <3>3. WorkerInv'
      BY <2>2 DEF SemaphorePassed, TypeOK, MainInv, WorkerInv, QuitByPool,
        HasEnded, mainVars, quitVars, poolVars
    <3>4. NoneLeftRunning'
      BY <2>2 DEF SemaphorePassed, TypeOK, MainInv, WorkerInv, QuitByPool,
        HasEnded, NoneLeftRunning, mainVars, quitVars, poolVars
    <3>5. InTurn'
      BY <2>2 DEF SemaphorePassed, TypeOK, MainInv, InTurn, mainVars,
        quitVars, poolVars
    <3>. QED
      BY <3>1, <3>2, <3>3, <3>4, <3>5
  <2>3. CASE CheckLoop
    <3>0. /\ main = "check" /\ current \in Threads /\ started = current - 1
          /\ UNCHANGED <<worker, sem, loop_, quit_, woken, selfQuit>>
          /\ UNCHANGED <<next_, picks>>
      BY <2>3 DEF CheckLoop, TakeLoop, MainInv, quitVars, poolVars
    <3>1. CASE loop_[current] /\ TakeLoop
      <4>0. started' = current /\ current' = current + 1 /\ main' = "start"
        BY <3>0, <3>1 DEF TakeLoop
      <4>1. TypeOK'
        BY <3>0, <4>0 DEF TypeOK, MainAt
      <4>2. MainInv'
        BY <3>0, <4>0 DEF MainInv
      <4>3. WorkerInv'
        BY <3>0, <3>1, <4>0 DEF WorkerInv, QuitByPool, HasEnded
      <4>4. NoneLeftRunning'
        BY <4>0 DEF NoneLeftRunning
      <4>5. next_' = 0 /\ \A l \in Loops : picks'[l] = 0
        BY <3>0 DEF InTurn
      <4>6. \A i \in 1 .. started' :
              picks'[i] = IF i <= next_' THEN 0 + 1 ELSE 0
        BY <3>0, <4>0, <4>5
      <4>7. InTurn'
        BY <4>5, <4>6, 0 \in Nat DEF InTurn
      <4>. QED
        BY <4>1, <4>2, <4>3, <4>4, <4>7
    <3>2. CASE /\ ~loop_[current] /\ main' = "wait"
                /\ UNCHANGED <<current, started>>
      <4>1. TypeOK'
        BY <3>0, <3>2 DEF TypeOK, MainAt
      <4>2. MainInv'
        BY <3>0, <3>2 DEF MainInv
      <4>3. WorkerInv'
        BY <3>0, <3>2 DEF WorkerInv, QuitByPool, HasEnded
      <4>4. NoneLeftRunning'
        BY <3>2 DEF NoneLeftRunning
      <4>5. InTurn'
        BY <3>0, <3>2 DEF InTurn
      <4>. QED
        BY <4>1, <4>2, <4>3, <4>4, <4>5
    <3>. QED
      BY <2>3, <3>1, <3>2 DEF CheckLoop, poolVars
  <2>4. CASE StartDone
    <3>1. TypeOK'
      BY <2>4 DEF StartDone, TypeOK, MainAt, WorkerAt, MainInv, mainVars,
        quitVars, poolVars
    <3>2. MainInv'
      BY <2>4 DEF StartDone, TypeOK, MainAt, MainInv, mainVars, quitVars,
        poolVars
    <3>3. WorkerInv'
      BY <2>4 DEF StartDone, TypeOK, MainInv, WorkerInv, QuitByPool, HasEnded,
        mainVars, quitVars, poolVars
    <3>4. NoneLeftRunning'
      BY <2>4 DEF StartDone, TypeOK, MainInv, WorkerInv, QuitByPool, HasEnded,
        NoneLeftRunning, mainVars, quitVars, poolVars
    <3>5. InTurn'
      BY <2>4 DEF StartDone, TypeOK, MainInv, InTurn, mainVars, quitVars,
        poolVars
    <3>. QED
      BY <3>1, <3>2, <3>3, <3>4, <3>5
  <2>5. CASE ReadLoop
    <3>1. TypeOK'
      BY <2>5 DEF ReadLoop, NextThread, TypeOK, MainAt, WorkerAt, MainInv,
        mainVars, quitVars, poolVars
    <3>2. MainInv'
      BY <2>5 DEF ReadLoop, NextThread, TypeOK, MainAt, MainInv, mainVars,
        quitVars, poolVars
    <3>3. WorkerInv'
      BY <2>5 DEF ReadLoop, NextThread, TypeOK, MainInv, WorkerInv,
        QuitByPool, HasEnded, mainVars, quitVars, poolVars
    <3>4. NoneLeftRunning'
      <4>1. UNCHANGED <<worker, selfQuit>> /\ main = "dtor"
        BY <2>5 DEF ReadLoop, quitVars
      <4>2. CASE main' = "quit" /\ UNCHANGED current
        BY <4>1, <4>2 DEF NoneLeftRunning
      <4>3. CASE ~loop_[current] /\ NextThread
        <5>1. current \in selfQuit
          BY <2>5, <4>3 DEF ReadLoop, TypeOK, MainInv, WorkerInv, QuitByPool,
            HasEnded
        <5>2. \A i \in Threads \ selfQuit : i < current => worker[i] = "ended"
          BY <4>1 DEF NoneLeftRunning
        <5>3. \A i \in Threads \ selfQuit :
                main' = "gone" \/ i < current' => i < current
          BY <4>1, <4>3, <5>1 DEF NextThread, TypeOK, MainInv
        <5>. QED
          BY <4>1, <5>2, <5>3 DEF NoneLeftRunning
      <4>. QED
        BY <2>5, <4>2, <4>3 DEF ReadLoop
    <3>5. InTurn'
      BY <2>5 DEF ReadLoop, NextThread, TypeOK, MainInv, InTurn, mainVars,
        quitVars, poolVars
    <3>. QED
      BY <3>1, <3>2, <3>3, <3>4, <3>5
  <2>6. CASE SetQuit
    <3>1. TypeOK'
      BY <2>6 DEF SetQuit, TypeOK, MainAt, WorkerAt, MainInv, mainVars,
        quitVars, poolVars
    <3>2. MainInv'
      BY <2>6 DEF SetQuit, TypeOK, MainAt, MainInv, mainVars, quitVars,
        poolVars
    <3>3. WorkerInv'
      BY <2>6 DEF SetQuit, TypeOK, MainInv, WorkerInv, QuitByPool, HasEnded,
        mainVars, quitVars, poolVars
    <3>4. NoneLeftRunning'
      BY <2>6 DEF SetQuit, TypeOK, MainInv, WorkerInv, QuitByPool, HasEnded,
        NoneLeftRunning, mainVars, quitVars, poolVars
    <3>5. InTurn'
      BY <2>6 DEF SetQuit, TypeOK, MainInv, InTurn, mainVars, quitVars,
        poolVars
    <3>. QED
      BY <3>1, <3>2, <3>3, <3>4, <3>5
  <2>7. CASE WakeLoop
    <3>1. TypeOK'
      BY <2>7 DEF WakeLoop, TypeOK, MainAt, WorkerAt, MainInv, mainVars,
        quitVars, poolVars
    <3>2. MainInv'
      BY <2>7 DEF WakeLoop, TypeOK, MainAt, MainInv, mainVars, quitVars,
        poolVars
    <3>3. WorkerInv'
      BY <2>7 DEF WakeLoop, TypeOK, MainInv, WorkerInv, QuitByPool, HasEnded,
        mainVars, quitVars, poolVars
    <3>4. NoneLeftRunning'
      BY <2>7 DEF WakeLoop, TypeOK, MainInv, WorkerInv, QuitByPool, HasEnded,
        NoneLeftRunning, mainVars, quitVars, poolVars
    <3>5. InTurn'
      BY <2>7 DEF WakeLoop, TypeOK, MainInv, InTurn, mainVars, quitVars,
        poolVars
    <3>. QED
      BY <3>1, <3>2, <3>3, <3>4, <3>5
  <2>8. CASE JoinThread
    <3>1. TypeOK'
      BY <2>8 DEF JoinThread, NextThread, TypeOK, MainAt, WorkerAt, MainInv,
        mainVars, quitVars, poolVars
    <3>2. MainInv'
      BY <2>8 DEF JoinThread, NextThread, TypeOK, MainAt, MainInv, mainVars,
        quitVars, poolVars
    <3>3. WorkerInv'
      BY <2>8 DEF JoinThread, NextThread, TypeOK, MainInv, WorkerInv,
        QuitByPool, HasEnded, mainVars, quitVars, poolVars
    <3>4. NoneLeftRunning'
      BY <2>8 DEF JoinThread, NextThread, TypeOK, MainInv, WorkerInv,
        QuitByPool, HasEnded, NoneLeftRunning, mainVars, quitVars, poolVars
    <3>5. InTurn'
      BY <2>8 DEF JoinThread, NextThread, TypeOK, MainInv, InTurn, mainVars,
        quitVars, poolVars
    <3>. QED
      BY <3>1, <3>2, <3>3, <3>4, <3>5
  <2>9. CASE WakeSpuriously
    <3>1. TypeOK'
      BY <2>9 DEF WakeSpuriously, TypeOK, MainAt, WorkerAt, MainInv, mainVars,
        quitVars, poolVars
    <3>2. MainInv'
      BY <2>9 DEF WakeSpuriously, TypeOK, MainAt, MainInv, mainVars, quitVars,
        poolVars
    <3>3. WorkerInv'
      BY <2>9 DEF WakeSpuriously, TypeOK, MainInv, WorkerInv, QuitByPool,
        HasEnded, mainVars, quitVars, poolVars
    <3>4. NoneLeftRunning'
      BY <2>9 DEF WakeSpuriously, TypeOK, MainInv, WorkerInv, QuitByPool,
        HasEnded, NoneLeftRunning, mainVars, quitVars, poolVars
    <3>5. InTurn'
      BY <2>9 DEF WakeSpuriously, TypeOK, MainInv, InTurn, mainVars, quitVars,
        poolVars
    <3>. QED
      BY <3>1, <3>2, <3>3, <3>4, <3>5
  <2>10. CASE GetNextLoop
    <3>1. TypeOK'
      <4>1. NextIndex(next_) \in Nat
        BY DEF TypeOK, NextIndex
      <4>2. picks' \in [Loops -> Nat]
        <5>1. picks' = [picks EXCEPT ![NextLoop] = picks[NextLoop] + 1]
          BY <2>10 DEF GetNextLoop
        <5>2. picks \in [Loops -> Nat]
          BY DEF TypeOK
        <5>3. NextLoop \in Loops
          BY <2>10 DEF GetNextLoop, NextLoop, TypeOK, MainInv, InTurn
        <5>. HIDE DEF Loops
        <5>. QED
          BY <5>1, <5>2, <5>3
      <4>. QED
        BY <2>10, <4>1, <4>2 DEF GetNextLoop, TypeOK, MainAt, mainVars,
          quitVars
    <3>2. MainInv'
      BY <2>10 DEF GetNextLoop, TypeOK, MainAt, MainInv, mainVars, quitVars,
        poolVars
    <3>3. WorkerInv'
      BY <2>10 DEF GetNextLoop, TypeOK, MainInv, WorkerInv, QuitByPool,
        HasEnded, mainVars, quitVars, poolVars
    <3>4. NoneLeftRunning'
      BY <2>10 DEF GetNextLoop, TypeOK, MainInv, WorkerInv, QuitByPool,
        HasEnded, NoneLeftRunning, mainVars, quitVars, poolVars
    <3>5. InTurn'
      <4>0. main = "serving" /\ main' = main /\ started' = started
        BY <2>10 DEF GetNextLoop, mainVars
      <4>1. CASE started = 0
        BY <2>10, <4>0, <4>1 DEF GetNextLoop, NextLoop, TypeOK, InTurn
      <4>2. CASE started # 0
        <5>1. started \in Nat /\ next_ \in Nat /\ next_ < started
          BY <4>2 DEF TypeOK, InTurn
        <5>2. PICK q \in Nat : \A i \in 1 .. started :
                picks[i] = IF i <= next_ THEN q + 1 ELSE q
          BY DEF InTurn
        <5>3. /\ next_' = NextIndex(next_)
              /\ picks' = [picks EXCEPT ![next_ + 1] = @ + 1]
          BY <2>10, <4>2 DEF GetNextLoop, NextLoop
        <5>4. \A i \in 1 .. started : i \in Loops
          BY <5>1 DEF TypeOK
        <5>5. \A i \in 1 .. started :
                picks'[i] = IF i <= next_ + 1 THEN q + 1 ELSE q
          BY <5>1, <5>2, <5>3, <5>4 DEF TypeOK
        <5>6. CASE next_ + 1 < started
          <6>1. next_' = next_ + 1
            BY <5>1, <5>3, <5>6 DEF NextIndex
          <6>. QED
            BY <4>0, <5>1, <5>5, <5>6, <6>1 DEF InTurn
        <5>7. CASE next_ + 1 >= started
          <6>1. next_' = 0
            BY <5>1, <5>3, <5>7 DEF NextIndex
          <6>2. \A i \in 1 .. started :
                  picks'[i] = IF i <= next_' THEN (q + 1) + 1 ELSE q + 1
            BY <5>1, <5>5, <5>7, <6>1
          <6>3. q + 1 \in Nat
            OBVIOUS
          <6>. QED
            BY <4>0, <6>1, <6>2, <6>3 DEF InTurn
        <5>. QED
          BY <5>1, <5>6, <5>7
      <4>. QED
        BY <4>1, <4>2
    <3>. QED
      BY <3>1, <3>2, <3>3, <3>4, <3>5
  <2>11. CASE DestroyPool
    <3>1. TypeOK'
      BY <2>11 DEF DestroyPool, TypeOK, MainAt, WorkerAt, MainInv, mainVars,
        quitVars, poolVars
    <3>2. MainInv'
      BY <2>11 DEF DestroyPool, TypeOK, MainAt, MainInv, mainVars, quitVars,
        poolVars
    <3>3. WorkerInv'
      BY <2>11 DEF DestroyPool, TypeOK, MainInv, WorkerInv, QuitByPool,
        HasEnded, mainVars, quitVars, poolVars
    <3>4. NoneLeftRunning'
      BY <2>11 DEF DestroyPool, TypeOK, MainInv, WorkerInv, QuitByPool,
        HasEnded, NoneLeftRunning, mainVars, quitVars, poolVars
    <3>5. InTurn'
      BY <2>11 DEF DestroyPool, TypeOK, MainInv, InTurn, mainVars, quitVars,
        poolVars
    <3>. QED
      BY <3>1, <3>2, <3>3, <3>4, <3>5
  <2>12. ASSUME NEW t \in Threads, PostSemaphore(t) PROVE PoolInv'
    <3>1. TypeOK'
      BY <2>12 DEF PostSemaphore, Goes, TypeOK, MainAt, WorkerAt, MainInv,
        mainVars, quitVars, poolVars
    <3>2. MainInv'
      BY <2>12 DEF PostSemaphore, Goes, TypeOK, MainAt, MainInv, mainVars,
        quitVars, poolVars
    <3>3. WorkerInv'
      BY <2>12 DEF PostSemaphore, Goes, TypeOK, MainInv, WorkerInv,
        QuitByPool, HasEnded, mainVars, quitVars, poolVars
    <3>4. NoneLeftRunning'
      BY <2>12 DEF PostSemaphore, Goes, TypeOK, MainInv, WorkerInv,
        QuitByPool, HasEnded, NoneLeftRunning, mainVars, quitVars, poolVars
    <3>5. InTurn'
      BY <2>12 DEF PostSemaphore, Goes, TypeOK, MainInv, InTurn, mainVars,
        quitVars, poolVars
    <3>. QED
      BY <3>1, <3>2, <3>3, <3>4, <3>5
  <2>13. ASSUME NEW t \in Threads, BuildLoop(t) PROVE PoolInv'
    <3>1. TypeOK'
      BY <2>13 DEF BuildLoop, Goes, TypeOK, MainAt, WorkerAt, MainInv,
        mainVars, quitVars, poolVars
    <3>2. MainInv'
      BY <2>13 DEF BuildLoop, Goes, TypeOK, MainAt, MainInv, mainVars,
        quitVars, poolVars
    <3>3. WorkerInv'
      BY <2>13 DEF BuildLoop, Goes, TypeOK, MainInv, WorkerInv, QuitByPool,
        HasEnded, mainVars, quitVars, poolVars
    <3>4. NoneLeftRunning'
      BY <2>13 DEF BuildLoop, Goes, TypeOK, MainInv, WorkerInv, QuitByPool,
        HasEnded, NoneLeftRunning, mainVars, quitVars, poolVars
    <3>5. InTurn'
      BY <2>13 DEF BuildLoop, Goes, TypeOK, MainInv, InTurn, mainVars,
        quitVars, poolVars
    <3>. QED
      BY <3>1, <3>2, <3>3, <3>4, <3>5
  <2>14. ASSUME NEW t \in Threads, PublishLoop(t) PROVE PoolInv'
    <3>1. TypeOK'
      BY <2>14 DEF PublishLoop, Goes, TypeOK, MainAt, WorkerAt, MainInv,
        mainVars, quitVars, poolVars
    <3>2. MainInv'
      BY <2>14 DEF PublishLoop, Goes, TypeOK, MainAt, MainInv, mainVars,
        quitVars, poolVars
    <3>3. WorkerInv'
      BY <2>14 DEF PublishLoop, Goes, TypeOK, MainInv, WorkerInv, QuitByPool,
        HasEnded, mainVars, quitVars, poolVars
    <3>4. NoneLeftRunning'
      BY <2>14 DEF PublishLoop, Goes, TypeOK, MainInv, WorkerInv, QuitByPool,
        HasEnded, NoneLeftRunning, mainVars, quitVars, poolVars
    <3>5. InTurn'
      BY <2>14 DEF PublishLoop, Goes, TypeOK, MainInv, InTurn, mainVars,
        quitVars, poolVars
    <3>. QED
      BY <3>1, <3>2, <3>3, <3>4, <3>5
  <2>15. ASSUME NEW t \in Threads, EnterLoop(t) PROVE PoolInv'
    <3>1. TypeOK'
      BY <2>15 DEF EnterLoop, Goes, TypeOK, MainAt, WorkerAt, MainInv,
        mainVars, quitVars, poolVars
    <3>2. MainInv'
      BY <2>15 DEF EnterLoop, Goes, TypeOK, MainAt, MainInv, mainVars,
        quitVars, poolVars
    <3>3. WorkerInv'
      BY <2>15 DEF EnterLoop, Goes, TypeOK, MainInv, WorkerInv, QuitByPool,
        HasEnded, mainVars, quitVars, poolVars
    <3>4. NoneLeftRunning'
      BY <2>15 DEF EnterLoop, Goes, TypeOK, MainInv, WorkerInv, QuitByPool,
        HasEnded, NoneLeftRunning, mainVars, quitVars, poolVars
    <3>5. InTurn'
      BY <2>15 DEF EnterLoop, Goes, TypeOK, MainInv, InTurn, mainVars,
        quitVars, poolVars
    <3>. QED
      BY <3>1, <3>2, <3>3, <3>4, <3>5
  <2>16. ASSUME NEW t \in Threads, WithdrawLoop(t) PROVE PoolInv'
    <3>1. TypeOK'
      BY <2>16 DEF WithdrawLoop, Goes, TypeOK, MainAt, WorkerAt, MainInv,
        mainVars, quitVars, poolVars
    <3>2. MainInv'
      BY <2>16 DEF WithdrawLoop, Goes, TypeOK, MainAt, MainInv, mainVars,
        quitVars, poolVars
    <3>3. WorkerInv'
      BY <2>16 DEF WithdrawLoop, Goes, TypeOK, MainInv, WorkerInv, QuitByPool,
        HasEnded, mainVars, quitVars, poolVars
    <3>4. NoneLeftRunning'
      BY <2>16 DEF WithdrawLoop, Goes, TypeOK, MainInv, WorkerInv, QuitByPool,
        HasEnded, NoneLeftRunning, mainVars, quitVars, poolVars
    <3>5. InTurn'
      BY <2>16 DEF WithdrawLoop, Goes, TypeOK, MainInv, InTurn, mainVars,
        quitVars, poolVars
    <3>. QED
      BY <3>1, <3>2, <3>3, <3>4, <3>5
  <2>17. ASSUME NEW t \in Threads, EndThread(t) PROVE PoolInv'
    <3>1. TypeOK'
      BY <2>17 DEF EndThread, Goes, TypeOK, MainAt, WorkerAt, MainInv,
        mainVars, quitVars, poolVars
    <3>2. MainInv'
      BY <2>17 DEF EndThread, Goes, TypeOK, MainAt, MainInv, mainVars,
        quitVars, poolVars
    <3>3. WorkerInv'
      BY <2>17 DEF EndThread, Goes, TypeOK, MainInv, WorkerInv, QuitByPool,
        HasEnded, mainVars, quitVars, poolVars
    <3>4. NoneLeftRunning'
      BY <2>17 DEF EndThread, Goes, TypeOK, MainInv, WorkerInv, QuitByPool,
        HasEnded, NoneLeftRunning, mainVars, quitVars, poolVars
    <3>5. InTurn'
      BY <2>17 DEF EndThread, Goes, TypeOK, MainInv, InTurn, mainVars,
        quitVars, poolVars
    <3>. QED
      BY <3>1, <3>2, <3>3, <3>4, <3>5
  <2>18. ASSUME NEW t \in Threads, QuitSelf(t) PROVE PoolInv'
    <3>1. TypeOK'
      BY <2>18 DEF QuitSelf, TypeOK, MainAt, WorkerAt, MainInv, mainVars,
        quitVars, poolVars
    <3>2. MainInv'
      BY <2>18 DEF QuitSelf, TypeOK, MainAt, MainInv, mainVars, quitVars,
        poolVars
    <3>3. WorkerInv'
      BY <2>18 DEF QuitSelf, TypeOK, MainInv, WorkerInv, QuitByPool, HasEnded,
        mainVars, quitVars, poolVars
    <3>4. NoneLeftRunning'
      BY <2>18 DEF QuitSelf, TypeOK, MainInv, WorkerInv, QuitByPool, HasEnded,
        NoneLeftRunning, mainVars, quitVars, poolVars
    <3>5. InTurn'
      BY <2>18 DEF QuitSelf, TypeOK, MainInv, InTurn, mainVars, quitVars,
        poolVars
    <3>. QED
      BY <3>1, <3>2, <3>3, <3>4, <3>5
  <2>19. ASSUME NEW t \in Threads, LeaveLoop(t) PROVE PoolInv'
    <3>1. TypeOK'
      BY <2>19 DEF LeaveLoop, Goes, TypeOK, MainAt, WorkerAt, MainInv,
        mainVars, quitVars, poolVars
    <3>2. MainInv'
      BY <2>19 DEF LeaveLoop, Goes, TypeOK, MainAt, MainInv, mainVars,
        quitVars, poolVars
    <3>3. WorkerInv'
      BY <2>19 DEF LeaveLoop, Goes, TypeOK, MainInv, WorkerInv, QuitByPool,
        HasEnded, mainVars, quitVars, poolVars
    <3>4. NoneLeftRunning'
      BY <2>19 DEF LeaveLoop, Goes, TypeOK, MainInv, WorkerInv, QuitByPool,
        HasEnded, NoneLeftRunning, mainVars, quitVars, poolVars
    <3>5. InTurn'
      BY <2>19 DEF LeaveLoop, Goes, TypeOK, MainInv, InTurn, mainVars,
        quitVars, poolVars
    <3>. QED
      BY <3>1, <3>2, <3>3, <3>4, <3>5
  <2>20. CASE UNCHANGED vars
    BY <2>20 DEF vars, mainVars, quitVars, poolVars, TypeOK, MainInv,
      WorkerInv, QuitByPool, NoneLeftRunning, InTurn
  <2>. QED
    BY <2>1, <2>2, <2>3, <2>4, <2>5, <2>6, <2>7, <2>8, <2>9, <2>10, <2>11,
      <2>12, <2>13, <2>14, <2>15, <2>16, <2>17, <2>18, <2>19, <2>20
    DEF Next, MainStep, ThreadStep
<1>. QED
  BY <1>1, <1>2, PTL DEF Spec

\* Every variable keeps its type, for any number of threads.
THEOREM PoolTypeCorrect == Spec => []TypeOK
BY PoolInvariant, PTL DEF PoolInv

\* A loop that the pool hands out exists until the destructor has quit it.
THEOREM PoolLoopsLive == Spec => []LoopsLive
<1>1. PoolInv => LoopsLive
  BY NumThreadsAssumption
  DEF PoolInv, TypeOK, MainInv, WorkerInv, QuitByPool, HasEnded, LoopsLive,
    Serves, Destroying, Threads
<1>. QED
  BY <1>1, PoolInvariant, PTL

\* Connections are spread evenly over the loops.
THEOREM PoolRoundRobin == Spec => []RoundRobin
<1>1. PoolInv => RoundRobin
  <2>. SUFFICES ASSUME PoolInv, NEW i \in 1 .. started, NEW j \in 1 .. started,
                       i < j
                PROVE  picks[j] <= picks[i] /\ picks[i] <= picks[j] + 1
    BY DEF RoundRobin
  <2>1. PICK q \in Nat : \A k \in 1 .. started :
          picks[k] = IF k <= next_ THEN q + 1 ELSE q
    BY DEF PoolInv, InTurn
  <2>2. next_ \in Nat /\ started \in Nat
    BY NumThreadsAssumption DEF PoolInv, TypeOK
  <2>. QED
    BY <2>1, <2>2
<1>. QED
  BY <1>1, PoolInvariant, PTL

\* No thread outlives its EventLoopThread, unless its loop quit by itself.
THEOREM PoolLeavesNoneRunning == Spec => []NoneLeftRunning
BY PoolInvariant, PTL DEF PoolInv

-----------------------------------------------------------------------------
(***************************************************************************)
(* start() waits only for what is still to come.  The semaphore is posted  *)
(* only by a thread that runs, and startLoop looks at loop_ only when it   *)
(* has passed the semaphore.                                               *)
(***************************************************************************)
StartInv ==
  /\ \A i \in Threads : sem[i] => worker[i] \notin {"none", "created"}
  /\ main = "semaphore" => worker[current] # "none"
  /\ main \in {"check", "wait"} => worker[current] \notin {"none", "created"}
  /\ StartWaitsForNews

\* Thread::start and startLoop wait for nothing that has happened already.
THEOREM PoolStartWaitsForNews == Spec => []StartWaitsForNews
<1>. USE NumThreadsAssumption DEF Threads
<1>1. Init => StartInv
  BY DEF Init, StartInv, StartWaitsForNews
<1>2. PoolInv /\ StartInv /\ [Next]_vars => StartInv'
  <2>. SUFFICES ASSUME PoolInv, StartInv, [Next]_vars PROVE StartInv'
    OBVIOUS
  <2>. USE DEF PoolInv, TypeOK, StartInv, StartWaitsForNews, mainVars, quitVars,
         poolVars
  <2>0. \A i \in Threads : ~loop_[i] /\ worker[i] \notin {"none", "created"}
          => worker[i] \in {"building", "publishing"} \/ i \in selfQuit
                                                    \/ QuitByPool(i)
    BY DEF WorkerInv, HasEnded, WorkerAt
  <2>1. CASE StartThread
    <3>1. worker[current] = "none" /\ current \in Threads
      BY <2>1 DEF StartThread, MainInv, WorkerInv, Starting
    <3>. QED
      BY <2>1, <3>1 DEF StartThread
  <2>2. CASE SemaphorePassed
    BY <2>2 DEF SemaphorePassed, MainInv, Starting
  <2>3. CASE CheckLoop
    <3>1. current \in Threads /\ ~QuitByPool(current)
      BY <2>3 DEF CheckLoop, MainInv, Starting, QuitByPool, Destroying
    <3>. QED
      BY <2>0, <2>3, <3>1 DEF CheckLoop, TakeLoop
  <2>4. CASE \/ StartDone \/ ReadLoop \/ SetQuit \/ WakeLoop \/ JoinThread
             \/ WakeSpuriously \/ GetNextLoop \/ DestroyPool
    BY <2>4 DEF StartDone, ReadLoop, SetQuit, WakeLoop, JoinThread, NextThread,
      WakeSpuriously, GetNextLoop, DestroyPool
  <2>5. ASSUME NEW i \in Threads, PostSemaphore(i) \/ BuildLoop(i)
        PROVE  StartInv'
    BY <2>5 DEF PostSemaphore, BuildLoop, Goes, MainInv, Starting
  <2>6. ASSUME NEW i \in Threads, PublishLoop(i) PROVE StartInv'
    BY <2>6 DEF PublishLoop, Goes, MainInv, Starting
  <2>7. ASSUME NEW i \in Threads,
               \/ EnterLoop(i) \/ LeaveLoop(i) \/ WithdrawLoop(i)
               \/ EndThread(i) \/ QuitSelf(i)
        PROVE  StartInv'
    BY <2>7 DEF EnterLoop, LeaveLoop, WithdrawLoop, EndThread, QuitSelf, Goes,
      MainInv, Starting
  <2>8. CASE UNCHANGED vars
    BY <2>8 DEF vars
  <2>. QED
    BY <2>1, <2>2, <2>3, <2>4, <2>5, <2>6, <2>7, <2>8
    DEF Next, MainStep, ThreadStep
<1>. QED
  BY <1>1, <1>2, PoolInvariant, PTL DEF Spec, StartInv
=============================================================================

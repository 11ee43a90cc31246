-------------------------- MODULE EPollPollerProofs --------------------------
(***************************************************************************)
(* Proofs about EPollPoller, for any sets of channels and of descriptors:  *)
(* types, the absence of epoll_ctl failures, the agreement of index_, the  *)
(* poller's map and the kernel's list, and the bound on the event list.    *)
(***************************************************************************)
EXTENDS EPollPoller, FiniteSetTheorems, TLAPS

\* No two live channels share a descriptor.
OneChannelPerFd ==
  \A c \in Live, d \in Live : fd_[c] = fd_[d] => c = d

\* The inductive invariant.  None of its parts is inductive alone: that the
\* kernel accepts an operation follows from KernelAgrees, which a descriptor
\* used again would break were it not for NoStalePointer.
PollerInv ==
  TypeOK /\ NoFault /\ KernelAgrees /\ MapAgrees /\ NoStalePointer
         /\ OneChannelPerFd
-----------------------------------------------------------------------------
\* A channel operation the kernel accepts.
LEMMA UpdateAccepted ==
  ASSUME NEW op, NEW c, ~Refused(op, fd_[c]), Update(op, c)
  PROVE  /\ interest' = [interest EXCEPT ![fd_[c]] =
              IF op = "DEL" THEN None ELSE [ptr |-> c, events |-> events_'[c]]]
         /\ fault' = fault
BY DEF Update

\* Adding, changing or dropping the interest of a live channel keeps the
\* invariant.
LEMMA SetInterestKeepsInv ==
  ASSUME PollerInv, NEW c \in Channels, NEW events \in Interests,
         SetInterest(c, events)
  PROVE  PollerInv'
<1> DEFINE f == fd_[c]
<1>0. /\ c \in Live /\ f \in Fds
      /\ events_' = [events_ EXCEPT ![c] = events]
      /\ events_'[c] = events
      /\ UNCHANGED <<fd_, listSize, activeChannels_, polling>>
      /\ Live' = Live
  BY NoneAssumption DEF SetInterest, Running, Live, PollerInv, TypeOK
<1>1. CASE UpdateUnregistered(c)
  <2>1. interest[f] = None
    BY <1>0, <1>1 DEF UpdateUnregistered, PollerInv, KernelAgrees
  <2>2. /\ interest' = [interest EXCEPT ![f] =
                          [ptr |-> c, events |-> events]]
        /\ fault' = fault
    BY <1>0, <1>1, <2>1, UpdateAccepted DEF UpdateUnregistered, Refused
  <2>3. index_' = [index_ EXCEPT ![c] = "kAdded"]
    BY <1>1 DEF UpdateUnregistered
  <2>4. channels_' = [channels_ EXCEPT ![f] = c]
    <3>1. CASE index_[c] = "kNew"
      BY <1>1, <3>1 DEF UpdateUnregistered
    <3>2. CASE index_[c] # "kNew"
      <4>1. channels_[f] = c /\ channels_' = channels_
        BY <1>0, <1>1, <3>2 DEF UpdateUnregistered, PollerInv, MapAgrees
      <4>. QED
        BY <4>1, <1>0 DEF PollerInv, TypeOK
    <3>. QED
      BY <3>1, <3>2
  <2>5. TypeOK'
    BY <1>0, <2>2, <2>3, <2>4
    DEF PollerInv, TypeOK, Registrations, Interests, Indices
  <2>6. KernelAgrees'
    BY <1>0, <2>2, <2>3
    DEF PollerInv, TypeOK, KernelAgrees, OneChannelPerFd, Live
  <2>7. MapAgrees'
    BY <1>0, <2>3, <2>4
    DEF PollerInv, TypeOK, MapAgrees, OneChannelPerFd, Live
  <2>8. NoStalePointer'
    BY <1>0, <2>2, <2>4 DEF PollerInv, TypeOK, NoStalePointer
  <2>. QED
    BY <1>0, <2>2, <2>5, <2>6, <2>7, <2>8
    DEF PollerInv, NoFault, OneChannelPerFd
<1>2. CASE UpdateRegistered(c)
  <2>1. /\ index_[c] = "kAdded" /\ channels_[f] = c
        /\ interest[f] # None /\ channels_' = channels_
    <3>1. [ptr |-> c, events |-> events_[c]] \in Registrations
      BY DEF PollerInv, TypeOK, Registrations
    <3>. QED
      BY <1>0, <1>2, <3>1, NoneAssumption
      DEF UpdateRegistered, PollerInv, MapAgrees, KernelAgrees
  <2>2. c # None
    BY NoneAssumption
  <2>3. PICK op \in {"DEL", "MOD"} :
          /\ op = "DEL" <=> events = {}
          /\ index_' = [index_ EXCEPT ![c] = IndexAfter(op)]
          /\ Update(op, c)
    BY <1>0, <1>2, <2>1, <2>2 DEF UpdateRegistered, CtlOp
  <2>4. /\ interest' = [interest EXCEPT ![f] =
              IF op = "DEL" THEN None ELSE [ptr |-> c, events |-> events]]
        /\ fault' = fault
    BY <1>0, <2>1, <2>3, UpdateAccepted DEF Refused
  <2>5. TypeOK'
    BY <1>0, <2>1, <2>3, <2>4
    DEF PollerInv, TypeOK, Registrations, Interests, Indices, IndexAfter
  <2>6. KernelAgrees'
    BY <1>0, <2>3, <2>4
    DEF PollerInv, TypeOK, KernelAgrees, OneChannelPerFd, Live, IndexAfter
  <2>7. MapAgrees'
    BY <1>0, <2>1, <2>3
    DEF PollerInv, TypeOK, MapAgrees, OneChannelPerFd, Live, IndexAfter
  <2>8. NoStalePointer'
    BY <1>0, <2>1, <2>4 DEF PollerInv, TypeOK, NoStalePointer
  <2>. QED
    BY <1>0, <2>4, <2>5, <2>6, <2>7, <2>8
    DEF PollerInv, NoFault, OneChannelPerFd
<1>. QED
  BY <1>1, <1>2 DEF SetInterest

\* Removing a live channel keeps the invariant.
LEMMA RemoveKeepsInv ==
  ASSUME PollerInv, NEW c \in Channels, Remove(c)
  PROVE  PollerInv'
<1> DEFINE f == fd_[c]
<1>0. /\ c \in Live /\ f \in Fds /\ Live' = Live
      /\ channels_' = [channels_ EXCEPT ![f] = None]
      /\ index_' = [index_ EXCEPT ![c] = "kNew"]
      /\ UNCHANGED <<fd_, events_, listSize, activeChannels_, polling>>
  BY NoneAssumption DEF Remove, Live, PollerInv, TypeOK
<1>1. interest' = [interest EXCEPT ![f] = None] /\ fault' = fault
  <2>1. CASE index_[c] = "kAdded"
    <3>1. interest[f] # None
      <4>1. [ptr |-> c, events |-> events_[c]] \in Registrations
        BY DEF PollerInv, TypeOK, Registrations
      <4>. QED
        BY <1>0, <2>1, <4>1, NoneAssumption DEF PollerInv, KernelAgrees
    <3>2. Update("DEL", c)
      BY <2>1 DEF Remove
    <3>. QED
      BY <3>1, <3>2, UpdateAccepted DEF Refused
  <2>2. CASE index_[c] # "kAdded"
    <3>1. interest[f] = None /\ interest' = interest /\ fault' = fault
      BY <1>0, <2>2 DEF Remove, PollerInv, KernelAgrees
    <3>. QED
      BY <1>0, <3>1 DEF PollerInv, TypeOK
  <2>. QED
    BY <2>1, <2>2
<1>2. TypeOK'
  BY <1>0, <1>1 DEF PollerInv, TypeOK, Indices
<1>3. KernelAgrees' /\ MapAgrees'
  BY <1>0, <1>1
  DEF PollerInv, TypeOK, KernelAgrees, MapAgrees, OneChannelPerFd, Live
<1>4. NoStalePointer'
  BY <1>0, <1>1 DEF PollerInv, TypeOK, NoStalePointer
<1>. QED
  BY <1>0, <1>1, <1>2, <1>3, <1>4 DEF PollerInv, NoFault, OneChannelPerFd
-----------------------------------------------------------------------------
\* The list of events after a round is as long as before or twice the number
\* of descriptors that were ready.
LEMMA GrowBounded ==
  ASSUME listSize \in Nat, NEW ready \in SUBSET Fds
  PROVE  LET n == Cardinality(ready) IN
         /\ Grow(n) \in Nat
         /\ Grow(n) = listSize \/ Grow(n) <= 2 * Cardinality(Fds)
<1>1. /\ Cardinality(ready) \in Nat /\ Cardinality(Fds) \in Nat
      /\ Cardinality(ready) <= Cardinality(Fds)
  BY FdsAssumption, FS_Subset, FS_CardinalityType
<1>. QED
  BY <1>1 DEF Grow

\* The invariant holds throughout: channel operations, descriptors that are
\* closed and given out again, and rounds of epoll_wait all keep it.
THEOREM PollerInvariant == Spec => []PollerInv
<1>1. Init => PollerInv
  <2> SUFFICES ASSUME Init PROVE PollerInv
    OBVIOUS
  <2>1. Live = {}
    BY DEF Init, Live
  <2>2. TypeOK
    BY ListSizeAssumption
    DEF Init, TypeOK, Interests, Indices, Faults
  <2>. QED
    BY <2>1, <2>2
    DEF Init, PollerInv, NoFault, KernelAgrees, MapAgrees, NoStalePointer,
        OneChannelPerFd
<1>2. PollerInv /\ [Next]_vars => PollerInv'
  <2> SUFFICES ASSUME PollerInv, [Next]_vars PROVE PollerInv'
    OBVIOUS
  <2>1. CASE Poll
    BY <2>1
    DEF Poll, channelVars, PollerInv, TypeOK, NoFault, KernelAgrees,
        MapAgrees, NoStalePointer, OneChannelPerFd, Live
  <2>2. ASSUME NEW ready \in SUBSET Fds, PollReturn(ready)
        PROVE  PollerInv'
    <3>1. activeChannels_' \subseteq Live
      BY <2>2 DEF PollReturn, PollerInv, NoStalePointer
    <3>2. TypeOK'
      BY <2>2, <3>1, GrowBounded
      DEF PollReturn, channelVars, PollerInv, TypeOK, Live
    <3>. QED
      BY <2>2, <3>1, <3>2
      DEF PollReturn, channelVars, PollerInv, NoFault, KernelAgrees,
          MapAgrees, NoStalePointer, OneChannelPerFd, Live
  <2>3. ASSUME NEW c \in Channels, NEW event \in {"read", "write"},
               Enable(c, event) \/ Disable(c, event)
        PROVE  PollerInv'
    <3>1. /\ events_[c] \cup {event} \in Interests
          /\ events_[c] \ {event} \in Interests
      BY DEF PollerInv, TypeOK, Interests
    <3>. QED
      BY <2>3, <3>1, SetInterestKeepsInv DEF Enable, Disable
  <2>4. ASSUME NEW c \in Channels, DisableAll(c)
        PROVE  PollerInv'
    BY <2>4, SetInterestKeepsInv DEF DisableAll, Interests
  <2>5. ASSUME NEW c \in Channels, Remove(c)
        PROVE  PollerInv'
    BY <2>5, RemoveKeepsInv
  <2>6. ASSUME NEW c \in Channels, NEW g \in Fds, Create(c, g)
        PROVE  PollerInv'
    <3>1. channels_[g] = None /\ interest[g] = None
      BY <2>6 DEF Create, PollerInv, NoStalePointer
    <3>2. /\ Live' = Live \cup {c}
          /\ fd_'[c] = g /\ index_'[c] = "kNew"
          /\ \A d \in Live : fd_'[d] = fd_[d] /\ index_'[d] = index_[d]
                               /\ events_'[d] = events_[d] /\ fd_[d] # g
      BY <2>6, NoneAssumption DEF Create, Live, PollerInv, TypeOK
    <3>3. TypeOK'
      BY <2>6 DEF Create, PollerInv, TypeOK, Interests, Indices
    <3>4. KernelAgrees' /\ MapAgrees'
      BY <2>6, <3>1, <3>2 DEF Create, PollerInv, KernelAgrees, MapAgrees
    <3>5. NoStalePointer'
      BY <2>6, <3>2 DEF Create, PollerInv, NoStalePointer
    <3>. QED
      BY <2>6, <3>2, <3>3, <3>4, <3>5
      DEF Create, PollerInv, NoFault, OneChannelPerFd
  <2>7. ASSUME NEW c \in Channels, Destroy(c)
        PROVE  PollerInv'
    <3>1. /\ c \in Live /\ fd_[c] \in Fds
          /\ channels_[fd_[c]] = None /\ interest[fd_[c]] = None
      BY <2>7, NoneAssumption
      DEF Destroy, Live, PollerInv, TypeOK, KernelAgrees, MapAgrees
    <3>2. interest' = interest
      BY <2>7, <3>1 DEF Destroy, PollerInv, TypeOK
    <3>3. /\ Live' = Live \ {c}
          /\ \A d \in Live \ {c} : fd_'[d] = fd_[d]
      BY <2>7, <3>1, NoneAssumption DEF Destroy, Live, PollerInv, TypeOK
    <3>4. TypeOK'
      BY <2>7, <3>2 DEF Destroy, PollerInv, TypeOK
    <3>5. NoStalePointer'
      BY <2>7, <3>1, <3>2, <3>3 DEF Destroy, PollerInv, NoStalePointer
    <3>. QED
      BY <2>7, <3>2, <3>3, <3>4, <3>5
      DEF Destroy, PollerInv, NoFault, KernelAgrees, MapAgrees,
          OneChannelPerFd
  <2>8. ASSUME NEW c \in Channels, HandleEvent(c)
        PROVE  PollerInv'
    BY <2>8
    DEF HandleEvent, channelVars, PollerInv, TypeOK, NoFault, KernelAgrees,
        MapAgrees, NoStalePointer, OneChannelPerFd, Live
  <2>9. CASE UNCHANGED vars
    BY <2>9
    DEF vars, channelVars, PollerInv, TypeOK, NoFault, KernelAgrees,
        MapAgrees, NoStalePointer, OneChannelPerFd, Live
  <2>. QED
    BY <2>1, <2>2, <2>3, <2>4, <2>5, <2>6, <2>7, <2>8, <2>9
    DEF Next, ChannelStep
<1>. QED
  BY <1>1, <1>2, PTL DEF Spec

\* Every variable keeps its type.
THEOREM PollerTypeCorrect == Spec => []TypeOK
BY PollerInvariant, PTL DEF PollerInv

\* epoll_ctl never fails, and updateChannel never finds the map entry absent.
THEOREM PollerNeverFails == Spec => []NoFault
BY PollerInvariant, PTL DEF PollerInv

\* The kernel watches exactly what index_ and events_ say, and the poller's map
\* holds exactly the channels that index_ says it does.
THEOREM IndexAgreesAlways == Spec => []IndexAgrees
BY PollerInvariant, PTL DEF PollerInv, IndexAgrees

\* No pointer to a destroyed channel survives in the poller or the kernel.
THEOREM PollerHoldsNoStalePointer == Spec => []NoStalePointer
BY PollerInvariant, PTL DEF PollerInv

\* The doubling of the event list stops.
THEOREM EventListBounded == Spec => []ListBounded
<1> DEFINE Bound == Max({InitEventListSize, 2 * Cardinality(Fds)})
<1>1. /\ Cardinality(Fds) \in Nat
      /\ Bound \in Nat
      /\ InitEventListSize <= Bound /\ 2 * Cardinality(Fds) <= Bound
  BY FdsAssumption, ListSizeAssumption, FS_CardinalityType DEF Max
<1>2. Init => ListBounded
  BY <1>1 DEF Init, ListBounded
<1>3. TypeOK /\ ListBounded /\ [Next]_vars => ListBounded'
  <2> SUFFICES ASSUME TypeOK, ListBounded, [Next]_vars PROVE ListBounded'
    OBVIOUS
  <2>1. ASSUME NEW ready \in SUBSET Fds, PollReturn(ready)
        PROVE  ListBounded'
    BY <1>1, <2>1, GrowBounded DEF PollReturn, ListBounded, TypeOK
  <2>2. CASE UNCHANGED listSize
    BY <2>2 DEF ListBounded
  <2>. QED
    BY <2>1, <2>2
    DEF Next, ChannelStep, vars, Poll, Enable, Disable, DisableAll,
        SetInterest, Remove, Destroy, Create, HandleEvent
<1>. QED
  BY <1>2, <1>3, PollerTypeCorrect, PTL DEF Spec
-----------------------------------------------------------------------------
(***************************************************************************)
(* EPollPoller implements PollerPromise.                                   *)
(***************************************************************************)
\* What a channel is watched for, in the terms of PollerPromise.
WatchedFor ==
  [c \in Channels |->
    {interest[f].events : f \in {g \in Fds : interest[g] # None
                                              /\ interest[g].ptr = c}}]

\* A channel is registered under one descriptor, its own, or nowhere.
LEMMA WatchedByIndex ==
  PollerInv => \A c \in Channels :
    WatchedFor[c] = IF c \in Live /\ index_[c] = "kAdded"
                    THEN {events_[c]} ELSE {}
<1>. SUFFICES ASSUME PollerInv, NEW c \in Channels
              PROVE  WatchedFor[c] = IF c \in Live /\ index_[c] = "kAdded"
                                     THEN {events_[c]} ELSE {}
  OBVIOUS
<1>1. ASSUME NEW g \in Fds, interest[g] # None, interest[g].ptr = c
      PROVE  /\ c \in Live /\ index_[c] = "kAdded"
             /\ interest[g].events = events_[c]
  <2>1. c \in Live /\ fd_[c] = g
    BY <1>1 DEF PollerInv, NoStalePointer
  <2>2. interest[g] = IF index_[c] = "kAdded"
                      THEN [ptr |-> c, events |-> events_[c]] ELSE None
    BY <2>1 DEF PollerInv, KernelAgrees
  <2>3. index_[c] = "kAdded"
    BY <1>1, <2>2
  <2>. QED
    BY <2>1, <2>2, <2>3
<1>2. CASE c \in Live /\ index_[c] = "kAdded"
  <2>1. fd_[c] \in Fds
    BY <1>2 DEF Live, PollerInv, TypeOK
  <2>2. interest[fd_[c]] = [ptr |-> c, events |-> events_[c]]
    BY <1>2 DEF PollerInv, KernelAgrees
  <2>3. interest[fd_[c]] # None
    <3>1. [ptr |-> c, events |-> events_[c]] \in Registrations
      BY DEF PollerInv, TypeOK, Registrations
    <3>. QED
      BY <2>2, <3>1, NoneAssumption
  <2>4. events_[c] \in WatchedFor[c]
    BY <2>1, <2>2, <2>3 DEF WatchedFor
  <2>5. \A e \in WatchedFor[c] : e = events_[c]
    BY <1>1 DEF WatchedFor
  <2>. QED
    BY <1>2, <2>4, <2>5
<1>3. CASE ~(c \in Live /\ index_[c] = "kAdded")
  <2>1. \A e : e \notin WatchedFor[c]
    BY <1>1, <1>3 DEF WatchedFor
  <2>. QED
    BY <1>3, <2>1
<1>. QED
  BY <1>2, <1>3

\* The same, of a step.
LEMMA WatchedStep ==
  ASSUME PollerInv, PollerInv'
  PROVE  \A c \in Channels :
           /\ WatchedFor[c] = IF c \in Live /\ index_[c] = "kAdded"
                              THEN {events_[c]} ELSE {}
           /\ WatchedFor'[c] = IF c \in Live' /\ index_'[c] = "kAdded"
                               THEN {events_'[c]} ELSE {}
<1>1. \A c \in Channels :
        WatchedFor[c] = IF c \in Live /\ index_[c] = "kAdded"
                        THEN {events_[c]} ELSE {}
  BY WatchedByIndex
<1>2. (PollerInv => \A c \in Channels :
          WatchedFor[c] = IF c \in Live /\ index_[c] = "kAdded"
                          THEN {events_[c]} ELSE {})'
  BY WatchedByIndex, PTL
<1>. QED
  BY <1>1, <1>2

\* A step that leaves every channel but c alone changes what c is watched for.
LEMMA OneChannelWatched ==
  ASSUME PollerInv, PollerInv', NEW c \in Channels,
         \A d \in Channels \ {c} :
           /\ d \in Live' <=> d \in Live
           /\ index_'[d] = index_[d] /\ events_'[d] = events_[d]
  PROVE  WatchedFor' = [WatchedFor EXCEPT ![c] =
                          IF c \in Live' /\ index_'[c] = "kAdded"
                          THEN {events_'[c]} ELSE {}]
<1>1. \A d \in Channels \ {c} : WatchedFor'[d] = WatchedFor[d]
  BY WatchedStep
<1>2. WatchedFor'[c] = IF c \in Live' /\ index_'[c] = "kAdded"
                       THEN {events_'[c]} ELSE {}
  BY WatchedStep
<1>3. /\ WatchedFor = [d \in Channels |-> WatchedFor[d]]
      /\ WatchedFor' = [d \in Channels |-> WatchedFor'[d]]
  BY DEF WatchedFor
<1>. QED
  BY <1>1, <1>2, <1>3

\* A step that leaves all of them alone changes nothing of it.
LEMMA NoneWatchedAnew ==
  ASSUME UNCHANGED interest
  PROVE  WatchedFor' = WatchedFor
BY DEF WatchedFor

\* Every step of the poller is a step of PollerPromise, or none.
LEMMA PromiseStep ==
  PollerInv /\ PollerInv' /\ [Next]_vars
    => [Promise!PPNext]_(Promise!ppVars)
<1>. SUFFICES ASSUME PollerInv, PollerInv', [Next]_vars
              PROVE  [Promise!PPNext]_(Promise!ppVars)
  OBVIOUS
<1>. DEFINE Goal == [Promise!PPNext]_(Promise!ppVars)
<1>a. fd_ \in [Channels -> Fds \cup {None}] /\ Live \in SUBSET Channels
  BY DEF PollerInv, TypeOK, Live
<1>b. /\ events_ \in [Channels -> Interests]
      /\ index_ \in [Channels -> Indices]
  BY DEF PollerInv, TypeOK
<1>1. CASE Poll
  <2>1. Promise!Wait
    BY <1>1 DEF Poll, Running, Promise!Wait, channelVars, Live
  <2>. QED
    BY <2>1 DEF Promise!PPNext
<1>2. ASSUME NEW ready \in SUBSET Fds, PollReturn(ready)
      PROVE  Goal
  <2>1. \A c \in activeChannels_' :
          c \in Channels /\ c \in Live /\ WatchedFor[c] # {}
    <3>. SUFFICES ASSUME NEW f \in ready
                  PROVE  LET c == interest[f].ptr IN
                         c \in Channels /\ c \in Live /\ WatchedFor[c] # {}
      BY <1>2 DEF PollReturn
    <3>. DEFINE c == interest[f].ptr
    <3>1. interest[f] # None /\ f \in Fds
      BY <1>2 DEF PollReturn
    <3>2. c \in Live /\ fd_[c] = f
      BY <3>1 DEF PollerInv, NoStalePointer
    <3>3. interest[f].events \in WatchedFor[c]
      BY <1>a, <3>1, <3>2 DEF WatchedFor
    <3>. QED
      BY <1>a, <3>2, <3>3
  <2>2. /\ Live' = Live /\ UNCHANGED interest
        /\ polling /\ polling' = FALSE
    BY <1>2 DEF PollReturn, channelVars, Live
  <2>3. Promise!Report(activeChannels_')
    BY <2>1, <2>2 DEF Promise!Report, WatchedFor
  <2>4. activeChannels_' \in SUBSET Channels
    BY <2>1
  <2>. QED
    BY <2>3, <2>4 DEF Promise!PPNext
<1>3. ASSUME NEW c \in Channels, NEW events \in Interests,
             SetInterest(c, events)
      PROVE  Goal
  <2>1. /\ Live' = Live /\ c \in Live /\ ~polling
        /\ events_' = [events_ EXCEPT ![c] = events]
        /\ UNCHANGED <<activeChannels_, polling>>
    BY <1>3 DEF SetInterest, Running, Live
  <2>2. /\ \A d \in Channels \ {c} : index_'[d] = index_[d]
        /\ \/ index_'[c] = "kAdded"
           \/ events = {} /\ index_'[c] = "kDeleted"
    <3>1. CASE UpdateUnregistered(c)
      BY <1>b, <3>1 DEF UpdateUnregistered
    <3>2. CASE UpdateRegistered(c)
      <4>1. fault' # "null channel"
        BY DEF PollerInv, NoFault
      <4>2. channels_[fd_[c]] = c
        BY <2>1, <3>2 DEF UpdateRegistered, PollerInv, MapAgrees
      <4>3. index_' = [index_ EXCEPT ![c] =
                         IndexAfter(CtlOp(index_[c], events_'[c]))]
        BY <3>2, <4>1, <4>2 DEF UpdateRegistered
      <4>4. events_'[c] = events
        BY <1>b, <2>1
      <4>. QED
        BY <1>b, <3>2, <4>3, <4>4 DEF UpdateRegistered, IndexAfter, CtlOp
    <3>. QED
      BY <1>3, <3>1, <3>2 DEF SetInterest
  <2>3. WatchedFor' = [WatchedFor EXCEPT ![c] =
                         IF c \in Live' /\ index_'[c] = "kAdded"
                         THEN {events_'[c]} ELSE {}]
    BY <1>b, <2>1, <2>2, OneChannelWatched
  <2>4. \/ WatchedFor' = [WatchedFor EXCEPT ![c] = {events}]
        \/ events = {} /\ WatchedFor' = [WatchedFor EXCEPT ![c] = {}]
    BY <1>b, <2>1, <2>2, <2>3
  <2>5. Promise!Ask(c, events)
    BY <2>1, <2>4 DEF Promise!Ask, WatchedFor
  <2>. QED
    BY <2>5 DEF Promise!PPNext
<1>4. ASSUME NEW c \in Channels, Remove(c)
      PROVE  Goal
  <2>1. /\ Live' = Live /\ c \in Live /\ ~polling
        /\ index_' = [index_ EXCEPT ![c] = "kNew"]
        /\ UNCHANGED <<events_, activeChannels_, polling>>
    BY <1>4 DEF Remove, Running, Live
  <2>2. WatchedFor' = [WatchedFor EXCEPT ![c] =
                         IF c \in Live' /\ index_'[c] = "kAdded"
                         THEN {events_'[c]} ELSE {}]
    BY <1>b, <2>1, OneChannelWatched
  <2>3. WatchedFor' = [WatchedFor EXCEPT ![c] = {}]
    BY <1>b, <2>1, <2>2
  <2>4. Promise!Leave(c)
    BY <2>1, <2>3 DEF Promise!Leave, WatchedFor
  <2>. QED
    BY <2>4 DEF Promise!PPNext
<1>5. ASSUME NEW c \in Channels, NEW f \in Fds, Create(c, f)
      PROVE  Goal
  <2>1. /\ Live' = Live \cup {c} /\ c \notin Live /\ ~polling
        /\ UNCHANGED <<interest, activeChannels_, polling>>
    BY <1>5, <1>a, NoneAssumption DEF Create, Running, Live
  <2>2. WatchedFor[c] = {} /\ WatchedFor' = WatchedFor
    BY <2>1, WatchedByIndex, NoneWatchedAnew
  <2>3. Promise!Appear(c)
    BY <2>1, <2>2 DEF Promise!Appear, WatchedFor
  <2>. QED
    BY <2>3 DEF Promise!PPNext
<1>6. ASSUME NEW c \in Channels, Destroy(c)
      PROVE  Goal
  <2>1. /\ Live' = Live \ {c} /\ c \in Live /\ ~polling
        /\ index_[c] = "kNew" /\ c \notin activeChannels_
        /\ UNCHANGED <<events_, index_, activeChannels_, polling>>
    BY <1>6, <1>a DEF Destroy, Running, Live
  <2>2. WatchedFor[c] = {}
    BY <2>1, WatchedByIndex
  <2>3. WatchedFor' = [WatchedFor EXCEPT ![c] =
                         IF c \in Live' /\ index_'[c] = "kAdded"
                         THEN {events_'[c]} ELSE {}]
    BY <2>1, OneChannelWatched
  <2>4. WatchedFor = [d \in Channels |-> WatchedFor[d]]
    BY DEF WatchedFor
  <2>5. WatchedFor' = WatchedFor
    BY <2>1, <2>2, <2>3, <2>4
  <2>6. Promise!Vanish(c)
    BY <2>1, <2>2, <2>5 DEF Promise!Vanish, WatchedFor
  <2>. QED
    BY <2>6 DEF Promise!PPNext
<1>7. ASSUME NEW c \in Channels, HandleEvent(c)
      PROVE  Goal
  <2>1. Promise!Handle(c)
    BY <1>7 DEF HandleEvent, Running, Promise!Handle, channelVars, Live
  <2>. QED
    BY <2>1 DEF Promise!PPNext
<1>8. CASE UNCHANGED vars
  BY <1>8 DEF vars, channelVars, Promise!ppVars, Live
<1>9. ASSUME NEW c \in Channels, NEW event \in {"read", "write"},
             Enable(c, event) \/ Disable(c, event)
      PROVE  Goal
  <2>1. /\ events_[c] \cup {event} \in Interests
        /\ events_[c] \ {event} \in Interests
    BY <1>b DEF Interests
  <2>. QED
    BY <1>3, <1>9, <2>1 DEF Enable, Disable
<1>10. ASSUME NEW c \in Channels, DisableAll(c)
       PROVE  Goal
  BY <1>3, <1>10 DEF DisableAll, Interests
<1>. HIDE DEF Goal
<1>11. ASSUME NEW c \in Channels, ChannelStep(c)
       PROVE  Goal
  BY <1>4, <1>5, <1>6, <1>7, <1>9, <1>10, <1>11 DEF ChannelStep
<1>. QED
  BY <1>1, <1>2, <1>8, <1>11 DEF Next, Goal

\* Every run of the poller is a run of PollerPromise, for any channels and any
\* finite set of descriptors: whichever channels had a descriptor before, each
\* is watched for what it asked for, and reported only while it is watched.
THEOREM PollerImplementsPromise == Spec => ImplementsPromise
<1>1. Init => Promise!PPInit
  <2>. SUFFICES ASSUME Init PROVE Promise!PPInit
    OBVIOUS
  <2>1. Live = {}
    BY DEF Init, Live
  <2>2. \A f \in Fds : interest[f] = None
    BY DEF Init
  <2>3. \A c \in Channels : \A e : e \notin WatchedFor[c]
    BY <2>2 DEF WatchedFor
  <2>4. WatchedFor = [c \in Channels |-> {}]
    <3>1. \A c \in Channels : WatchedFor[c] = {}
      BY <2>3
    <3>2. WatchedFor = [c \in Channels |-> WatchedFor[c]]
      BY DEF WatchedFor
    <3>. QED
      BY <3>1, <3>2
  <2>. QED
    BY <2>1, <2>4 DEF Init, Promise!PPInit, WatchedFor
<1>2. PollerInv /\ PollerInv' /\ [Next]_vars
        => [Promise!PPNext]_(Promise!ppVars)
  BY PromiseStep
<1>. QED
  BY <1>1, <1>2, PollerInvariant, PTL DEF Spec, ImplementsPromise,
     Promise!PPSpec
=============================================================================

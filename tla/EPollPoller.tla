---------------------------- MODULE EPollPoller ----------------------------
(***************************************************************************)
(* EPollPoller and the Channels of one EventLoop.                          *)
(*                                                                         *)
(* Channels are created on open descriptors, change their interest, are    *)
(* removed and destroyed, and their descriptors are closed and given out   *)
(* again by the kernel.  All of it happens in the loop's thread, between   *)
(* two calls of epoll_wait.  Every change of interest runs the whole of    *)
(* updateChannel.  The kernel's interest list (epoll_ctl, epoll_wait) is   *)
(* external.                                                               *)
(*                                                                         *)
(* The owner of a Channel keeps what Channel.h and Channel.cc ask of it:   *)
(* one Channel per descriptor, and no Channel is destroyed while it is     *)
(* registered or while it waits in activeChannels_.                        *)
(***************************************************************************)
EXTENDS Naturals, FiniteSets, FiniteSetsExt, ChannelOps

CONSTANTS
  Channels, Fds,
  None,                     \* no channel, no descriptor, no registration
  InitEventListSize         \* kInitEventListSize

\* What the kernel keeps for a descriptor in its list.
Registrations == [ptr : Channels, events : Interests]

ASSUME NoneAssumption == None \notin Channels \cup Fds \cup Registrations
ASSUME FdsAssumption == IsFiniteSet(Fds)
ASSUME ListSizeAssumption == InitEventListSize \in Nat \ {0}

VARIABLES
  fd_,                      \* each live channel's descriptor
  events_, index_,          \* the channels' fields
  channels_,                \* the poller's map
  listSize,                 \* events_.size() of the poller
  activeChannels_,          \* those the current round has yet to handle
  polling,                  \* the loop's thread is in epoll_wait
  interest,                 \* the kernel's interest list, by descriptor
  fault                     \* the first failure, if any

channelVars == <<fd_, events_, index_, channels_, interest, fault>>
vars == <<channelVars, listSize, activeChannels_, polling>>

Live == {c \in Channels : fd_[c] # None}

Faults == {"none", "delete error", "exit", "null channel"}

Init ==
  /\ fd_ = [c \in Channels |-> None]
  /\ events_ = [c \in Channels |-> {}]
  /\ index_ = [c \in Channels |-> "kNew"]
  /\ channels_ = [f \in Fds |-> None]
  /\ interest = [f \in Fds |-> None]
  /\ listSize = InitEventListSize
  /\ activeChannels_ = {} /\ polling = FALSE
  /\ fault = "none"
-----------------------------------------------------------------------------
(***************************************************************************)
(* EPollPoller::update.  The kernel refuses to add a descriptor it has and *)
(* to change or delete one it has not.  Failing to delete is logged;       *)
(* failing to add or modify ends the program.                              *)
(***************************************************************************)
\* The loop's thread runs, and may call channels and the poller.
Running == ~polling /\ fault \notin {"exit", "null channel"}

Refused(op, f) == (op = "ADD") <=> (interest[f] # None)

\* data is a union: assigning ptr before fd leaves the descriptor in it.
UpdateFdLast(op, c) ==
  LET f == fd_[c] IN
  /\ interest' = [interest EXCEPT ![f] =
       IF op = "DEL" THEN None ELSE [ptr |-> f, events |-> events_'[c]]]
  /\ fault' = fault

Update(op, c) ==
  LET f == fd_[c] IN
  \/ /\ ~Refused(op, f)
     /\ interest' = [interest EXCEPT ![f] =
          IF op = "DEL" THEN None ELSE [ptr |-> c, events |-> events_'[c]]]
     /\ fault' = fault
  \/ /\ Refused(op, f)
     /\ fault' = IF op = "DEL" THEN "delete error" ELSE "exit"
     /\ UNCHANGED interest

UpdateUnregistered(c) ==
  /\ index_[c] # "kAdded"
  /\ channels_' = IF index_[c] = "kNew"
                  THEN [channels_ EXCEPT ![fd_[c]] = c] ELSE channels_
  /\ index_' = [index_ EXCEPT ![c] = "kAdded"]
  /\ Update("ADD", c)

\* The channel asked for its events is the one in the map.
UpdateRegistered(c) ==
  LET mapped == channels_[fd_[c]] IN
  /\ index_[c] = "kAdded"
  /\ UNCHANGED channels_
  /\ \/ /\ mapped = None
        /\ fault' = "null channel"
        /\ UNCHANGED <<index_, interest>>
     \/ LET op == CtlOp(index_[c], events_'[mapped]) IN
        /\ mapped # None
        /\ index_' = [index_ EXCEPT ![c] = IndexAfter(op)]
        /\ Update(op, c)

\* enableReading, enableWriting, disableReading, disableWriting, disableAll.
SetInterest(c, events) ==
  /\ Running /\ c \in Live
  /\ events_' = [events_ EXCEPT ![c] = events]
  /\ UpdateUnregistered(c) \/ UpdateRegistered(c)
  /\ UNCHANGED <<fd_, listSize, activeChannels_, polling>>

Enable(c, event) == SetInterest(c, events_[c] \cup {event})
Disable(c, event) == SetInterest(c, events_[c] \ {event})
DisableAll(c) == SetInterest(c, {})

\* removeChannel that forgets to reset index_.
RemoveKeepingIndex(c) ==
  /\ Running /\ c \in Live
  /\ channels_' = [channels_ EXCEPT ![fd_[c]] = None]
  /\ \/ index_[c] = "kAdded" /\ Update("DEL", c)
     \/ index_[c] # "kAdded" /\ UNCHANGED <<interest, fault>>
  /\ UNCHANGED <<fd_, events_, index_, listSize, activeChannels_, polling>>

\* removeChannel that leaves the descriptor in the kernel's list.
RemoveFromMapOnly(c) ==
  /\ Running /\ c \in Live
  /\ channels_' = [channels_ EXCEPT ![fd_[c]] = None]
  /\ index_' = [index_ EXCEPT ![c] = "kNew"]
  /\ UNCHANGED <<fd_, events_, interest, fault, listSize, activeChannels_,
                 polling>>

\* Channel::remove, EPollPoller::removeChannel.
Remove(c) ==
  /\ Running /\ c \in Live
  /\ channels_' = [channels_ EXCEPT ![fd_[c]] = None]
  /\ \/ index_[c] = "kAdded" /\ Update("DEL", c)
     \/ index_[c] # "kAdded" /\ UNCHANGED <<interest, fault>>
  /\ index_' = [index_ EXCEPT ![c] = "kNew"]
  /\ UNCHANGED <<fd_, events_, listSize, activeChannels_, polling>>
-----------------------------------------------------------------------------
(***************************************************************************)
(* The owners of channels.                                                 *)
(***************************************************************************)
\* The kernel gives out a descriptor that no live channel has.
Create(c, f) ==
  /\ Running /\ c \notin Live
  /\ \A d \in Live : fd_[d] # f
  /\ fd_' = [fd_ EXCEPT ![c] = f]
  /\ events_' = [events_ EXCEPT ![c] = {}]
  /\ index_' = [index_ EXCEPT ![c] = "kNew"]
  /\ UNCHANGED <<channels_, interest, fault, listSize, activeChannels_,
                 polling>>

\* An owner that destroys a channel without having removed it.
DestroyWithoutRemove(c) ==
  /\ Running /\ c \in Live \ activeChannels_
  /\ fd_' = [fd_ EXCEPT ![c] = None]
  /\ interest' = [interest EXCEPT ![fd_[c]] = None]
  /\ UNCHANGED <<events_, index_, channels_, fault, listSize,
                 activeChannels_, polling>>

\* Destroying the channel comes with closing its descriptor, which drops the
\* descriptor from the kernel's list.
Destroy(c) ==
  /\ Running /\ c \in Live \ activeChannels_
  /\ index_[c] = "kNew"
  /\ fd_' = [fd_ EXCEPT ![c] = None]
  /\ interest' = [interest EXCEPT ![fd_[c]] = None]
  /\ UNCHANGED <<events_, index_, channels_, fault, listSize,
                 activeChannels_, polling>>
-----------------------------------------------------------------------------
(***************************************************************************)
(* EPollPoller::poll, and the loop's walk over activeChannels_.            *)
(***************************************************************************)
Poll ==
  /\ Running /\ activeChannels_ = {}
  /\ polling' = TRUE
  /\ UNCHANGED <<channelVars, listSize, activeChannels_>>

\* A list that doubles whenever something happened.
GrowAlways(numEvents) == IF numEvents > 0 THEN listSize * 2 ELSE listSize

\* A full list is doubled for the next call.
Grow(numEvents) == IF numEvents = listSize THEN listSize * 2 ELSE listSize

\* epoll_wait reports up to listSize of the registered descriptors, as
\* error and hangup are reported whatever the interest; none on timeout or
\* on an error.
PollReturn(ready) ==
  /\ polling
  /\ Cardinality(ready) <= listSize
  /\ \A f \in ready : interest[f] # None
  /\ activeChannels_' = {interest[f].ptr : f \in ready}
  /\ listSize' = Grow(Cardinality(ready))
  /\ polling' = FALSE
  /\ UNCHANGED channelVars

\* handleEvent begins.  What the callbacks do to channels are steps of their
\* own; the next channel may be handled at any time after.
HandleEvent(c) ==
  /\ Running /\ c \in activeChannels_
  /\ activeChannels_' = activeChannels_ \ {c}
  /\ UNCHANGED <<channelVars, listSize, polling>>
-----------------------------------------------------------------------------
ChannelStep(c) ==
  \/ \E event \in {"read", "write"} : Enable(c, event) \/ Disable(c, event)
  \/ DisableAll(c) \/ Remove(c) \/ Destroy(c)
  \/ \E f \in Fds : Create(c, f)
  \/ HandleEvent(c)

Next ==
  \/ Poll
  \/ \E ready \in SUBSET Fds : PollReturn(ready)
  \/ \E c \in Channels : ChannelStep(c)

Spec == Init /\ [][Next]_vars
-----------------------------------------------------------------------------
(***************************************************************************)
(* Properties.                                                             *)
(***************************************************************************)
\* Every variable keeps its type.
TypeOK ==
  /\ fd_ \in [Channels -> Fds \cup {None}]
  /\ events_ \in [Channels -> Interests]
  /\ index_ \in [Channels -> Indices]
  /\ channels_ \in [Fds -> Channels \cup {None}]
  /\ interest \in [Fds -> Registrations \cup {None}]
  /\ listSize \in Nat
  /\ activeChannels_ \in SUBSET Channels
  /\ polling \in BOOLEAN
  /\ fault \in Faults

\* No sequence of channel operations makes epoll_ctl fail, and so none ends
\* the program in EPollPoller::update or dereferences an absent map entry.
NoFault == fault = "none"

\* The kernel watches a live channel exactly when index_ says kAdded, and
\* then for the events the channel wants; otherwise not at all.
KernelAgrees ==
  \A c \in Live :
    interest[fd_[c]] = IF index_[c] = "kAdded"
                       THEN [ptr |-> c, events |-> events_[c]] ELSE None

\* A live channel is in the poller's map exactly until it is removed.
MapAgrees ==
  \A c \in Live :
    channels_[fd_[c]] = IF index_[c] = "kNew" THEN None ELSE c

\* The index_ of a live channel tells the truth of the kernel and of the map.
IndexAgrees == KernelAgrees /\ MapAgrees

\* Neither the map nor the kernel nor the list of active channels holds on
\* to a channel that is gone, though its descriptor be in use again.
NoStalePointer ==
  /\ \A f \in Fds : channels_[f] # None =>
       channels_[f] \in Live /\ fd_[channels_[f]] = f
  /\ \A f \in Fds : interest[f] # None =>
       interest[f].ptr \in Live /\ fd_[interest[f].ptr] = f
  /\ activeChannels_ \subseteq Live

\* EPollPoller implements PollerPromise, whatever descriptors the channels
\* have and whichever channel had them before: what a channel is watched for
\* is what the kernel's registrations that lead to it say.
Promise == INSTANCE PollerPromise WITH
  existing <- Live,
  watched <- [c \in Channels |->
    {interest[f].events : f \in {g \in Fds : interest[g] # None
                                              /\ interest[g].ptr = c}}],
  reported <- activeChannels_,
  waiting <- polling

ImplementsPromise == Promise!PPSpec

\* Doubling stops: the list of events never outgrows twice the number of
\* descriptors.
ListBounded ==
  listSize <= Max({InitEventListSize, 2 * Cardinality(Fds)})
=============================================================================

---------------------------- MODULE PollerPromise ----------------------------
(***************************************************************************)
(* What a Poller promises the owners of Channels, who know nothing of      *)
(* descriptors, of the poller's map or of index_.  A channel that asks for *)
(* events is watched for these and nothing else, from that call until it   *)
(* asks again or leaves.  One that asks for nothing may still be watched   *)
(* for errors and hangups.  A round of events reports channels that are    *)
(* watched when it ends, and so channels that exist; all of them are       *)
(* handled before the next round.                                          *)
(*                                                                         *)
(* Module EPollPoller implements this specification.                       *)
(***************************************************************************)
CONSTANTS Channels, Interests

VARIABLES
  existing,                 \* the channels that have an owner
  watched,                  \* what each is watched for: {} if it is not
  reported,                 \* those the current round has yet to handle
  waiting                   \* a round has begun and reported nothing yet

ppVars == <<existing, watched, reported, waiting>>

PPInit ==
  /\ existing = {} /\ reported = {} /\ waiting = FALSE
  /\ watched = [c \in Channels |-> {}]

Appear(c) ==
  /\ ~waiting /\ c \notin existing /\ watched[c] = {}
  /\ existing' = existing \cup {c}
  /\ UNCHANGED <<watched, reported, waiting>>

Ask(c, events) ==
  /\ ~waiting /\ c \in existing
  /\ \/ watched' = [watched EXCEPT ![c] = {events}]
     \/ events = {} /\ watched' = [watched EXCEPT ![c] = {}]
  /\ UNCHANGED <<existing, reported, waiting>>

Leave(c) ==
  /\ ~waiting /\ c \in existing
  /\ watched' = [watched EXCEPT ![c] = {}]
  /\ UNCHANGED <<existing, reported, waiting>>

\* Only a channel that has left, and that no round is about to handle.
Vanish(c) ==
  /\ ~waiting /\ c \in existing \ reported /\ watched[c] = {}
  /\ existing' = existing \ {c}
  /\ UNCHANGED <<watched, reported, waiting>>

Wait ==
  /\ ~waiting /\ reported = {}
  /\ waiting' = TRUE
  /\ UNCHANGED <<existing, watched, reported>>

Report(channels) ==
  /\ waiting /\ \A c \in channels : c \in existing /\ watched[c] # {}
  /\ reported' = channels /\ waiting' = FALSE
  /\ UNCHANGED <<existing, watched>>

Handle(c) ==
  /\ ~waiting /\ c \in reported
  /\ reported' = reported \ {c}
  /\ UNCHANGED <<existing, watched, waiting>>

PPNext ==
  \/ Wait
  \/ \E channels \in SUBSET Channels : Report(channels)
  \/ \E c \in Channels :
       \/ Appear(c) \/ Leave(c) \/ Vanish(c) \/ Handle(c)
       \/ \E events \in Interests : Ask(c, events)

PPSpec == PPInit /\ [][PPNext]_ppVars
=============================================================================

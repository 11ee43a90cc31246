----------------------------- MODULE ByteQueue -----------------------------
(***************************************************************************)
(* What a Buffer promises: bytes go in at one end, come out at the other   *)
(* in the same order, and may be looked at (peek) without taking them out. *)
(*                                                                         *)
(* Module Buffer implements this specification.                            *)
(***************************************************************************)
EXTENDS Naturals, Sequences

CONSTANT Inputs             \* what may be put in at once

VARIABLES
  queue,                    \* the bytes that can be read
  moved                     \* those the last call took in or handed out

bqVars == <<queue, moved>>

BQInit == queue = <<>> /\ moved = <<>>

Put(bytes) ==
  /\ queue' = queue \o bytes
  /\ moved' = bytes

Show(n) ==
  /\ moved' = SubSeq(queue, 1, n)
  /\ UNCHANGED queue

Drop(n) ==
  /\ queue' = SubSeq(queue, n + 1, Len(queue))
  /\ UNCHANGED moved

Take(n) ==
  /\ moved' = SubSeq(queue, 1, n)
  /\ queue' = SubSeq(queue, n + 1, Len(queue))

BQNext ==
  \/ \E bytes \in Inputs : Put(bytes)
  \/ \E n \in 0 .. Len(queue) : Show(n) \/ Drop(n) \/ Take(n)

BQSpec == BQInit /\ [][BQNext]_bqVars
=============================================================================

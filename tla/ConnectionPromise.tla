-------------------------- MODULE ConnectionPromise --------------------------
(***************************************************************************)
(* What a TcpConnection promises its user.  The connection callback says   *)
(* "up" once and then "down" at most once.  The bytes of the messages it   *)
(* accepts make up one stream, message after message; what is written to   *)
(* the socket is at every moment a prefix of that stream.  Messages come   *)
(* in from the peer, are accepted and written only between "up" and        *)
(* "down".                                                                 *)
(*                                                                         *)
(* Module TcpConnection implements this specification.                     *)
(***************************************************************************)
EXTENDS Naturals, Sequences, SequencesExt

CONSTANTS
  Messages,
  Bytes(_)                  \* the bytes of a message

VARIABLES
  told,                     \* what the connection callback said last
  received,                 \* how often the message callback was called
  stream,                   \* the bytes accepted for sending
  wire                      \* the bytes written to the socket

cpVars == <<told, received, stream, wire>>

CPInit == told = "nothing" /\ received = 0 /\ stream = <<>> /\ wire = <<>>

TellUp ==
  /\ told = "nothing" /\ told' = "up"
  /\ UNCHANGED <<received, stream, wire>>

TellDown ==
  /\ told = "up" /\ told' = "down"
  /\ UNCHANGED <<received, stream, wire>>

Receive ==
  /\ told = "up"
  /\ received' = received + 1
  /\ UNCHANGED <<told, stream, wire>>

WireAdvances == IsPrefix(wire, wire') /\ IsPrefix(wire', stream')

Write ==
  /\ told = "up"
  /\ UNCHANGED <<told, received, stream>>
  /\ WireAdvances

\* Accepting a message may write some of it at once.
Accept(m) ==
  /\ told = "up"
  /\ stream' = stream \o Bytes(m)
  /\ UNCHANGED <<told, received>>
  /\ WireAdvances

CPNext ==
  \/ TellUp \/ TellDown \/ Receive \/ Write
  \/ \E m \in Messages : Accept(m)

CPSpec == CPInit /\ [][CPNext]_cpVars
=============================================================================

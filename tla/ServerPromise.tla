---------------------------- MODULE ServerPromise ----------------------------
(***************************************************************************)
(* What a TcpServer promises the code that uses it.  For every connection  *)
(* the connection callback says "up" once and then "down" at most once,    *)
(* and no callback is made once the server's destructor has returned.      *)
(*                                                                         *)
(* Module TcpServer implements this specification.                         *)
(***************************************************************************)
EXTENDS Sequences

CONSTANT Connections

VARIABLES
  said,                     \* what the connection callback has said
  exists                    \* the server has not been destroyed

spVars == <<said, exists>>

SPInit == said = [c \in Connections |-> <<>>] /\ exists = TRUE

SayUp(c) ==
  /\ exists /\ said[c] = <<>>
  /\ said' = [said EXCEPT ![c] = Append(@, "up")]
  /\ UNCHANGED exists

SayDown(c) ==
  /\ exists /\ said[c] = <<"up">>
  /\ said' = [said EXCEPT ![c] = Append(@, "down")]
  /\ UNCHANGED exists

DestructorReturns ==
  /\ exists
  /\ exists' = FALSE
  /\ UNCHANGED said

SPNext ==
  \/ \E c \in Connections : SayUp(c) \/ SayDown(c)
  \/ DestructorReturns

SPSpec == SPInit /\ [][SPNext]_spVars
=============================================================================

--------------------------- MODULE MCTcpConnection ---------------------------
(***************************************************************************)
(* TcpConnection with messages of one and of two bytes.                    *)
(***************************************************************************)
EXTENDS TcpConnection

CONSTANTS Long              \* the messages of two bytes

MCSize == [m \in Messages |-> IF m \in Long THEN 2 ELSE 1]
=============================================================================

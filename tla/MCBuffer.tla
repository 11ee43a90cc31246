------------------------------ MODULE MCBuffer ------------------------------
(***************************************************************************)
(* Buffer with two bytes, and inputs of up to MaxInput of them.            *)
(***************************************************************************)
EXTENDS Buffer

CONSTANT MaxInput

MCInputs == UNION {[1 .. n -> Byte] : n \in 0 .. MaxInput}
=============================================================================

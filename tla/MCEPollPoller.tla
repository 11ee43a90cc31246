---------------------------- MODULE MCEPollPoller ----------------------------
(***************************************************************************)
(* EPollPoller with more channels than descriptors, so that descriptors    *)
(* are used again, and a list of one event, so that it grows.              *)
(***************************************************************************)
EXTENDS EPollPoller, TLC

Symmetry == Permutations(Channels) \cup Permutations(Fds)
=============================================================================

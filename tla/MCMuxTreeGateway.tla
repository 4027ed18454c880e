-------------------------- MODULE MCMuxTreeGateway --------------------------
(***************************************************************************)
(* The gateways for TLC.  Subscribers are interchangeable: only their      *)
(* registration IDs, which are numbers, tell them apart.                   *)
(***************************************************************************)
EXTENDS MuxTreeGateway

Symmetry == Permutations(Subscribers)
=============================================================================

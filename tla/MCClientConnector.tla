------------------------- MODULE MCClientConnector -------------------------
(***************************************************************************)
(* The client connector for TLC.                                           *)
(***************************************************************************)
EXTENDS ClientConnector

CONSTANTS a, b

\* A setting that fits both servers, and one that fits b only and does not
\* reconnect.
TwoSettings == {[match |-> {a, b}, reconnect |-> TRUE], [match |-> {b}, reconnect |-> FALSE]}
=============================================================================

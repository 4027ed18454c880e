------------------------ MODULE MCNetworkIO ------------------------
(* Instances of PZGNetworkIOSession for TLC. *)
EXTENDS PZGNetworkIOSession

(* Mixes of events: changes of senior peer while states change; sleep;      *)
(* packets that arrive twice, late and through new sockets; and what        *)
(* happens to sessions with back-orders.                                    *)
Nothing == [kind \in EventKinds |-> 0]
MCBounds ==
  {[Nothing EXCEPT !["reports"] = 2, !["states"] = 1],
   [Nothing EXCEPT !["reports"] = 1, !["states"] = 1, !["packets"] = 1],
   [Nothing EXCEPT !["reports"] = 2, !["states"] = 1, !["sleeps"] = 1],
   [Nothing EXCEPT !["packets"] = 2, !["multicasts"] = 1],
   [Nothing EXCEPT !["packets"] = 1, !["multicasts"] = 1, !["networks"] = 1],
   [Nothing EXCEPT !["reports"] = 1, !["states"] = 1, !["networks"] = 1],
   [Nothing EXCEPT !["reports"] = 2, !["requests"] = 2, !["sessions"] = 1],
   [Nothing EXCEPT !["reports"] = 1, !["requests"] = 2, !["sessions"] = 3],
   [Nothing EXCEPT !["reports"] = 1, !["requests"] = 2, !["sessions"] = 1,
                   !["sleeps"] = 1]}
====================================================================

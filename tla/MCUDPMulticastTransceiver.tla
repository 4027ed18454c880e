-------------------- MODULE MCUDPMulticastTransceiver --------------------
(* Instances of UDPMulticastTransceiver for TLC. *)
EXTENDS UDPMulticastTransceiver

NoEvents == [packets |-> 0, starts |-> 1, sleeps |-> 0, networks |-> 0, sends |-> 0,
             registrations |-> 0, failures |-> 0]

(* Packets across restarts and changes of the interfaces; sleep while      *)
(* targets register; sends while interfaces change.                        *)
MCBounds ==
  { [NoEvents EXCEPT !.packets = 3, !.starts = 2, !.failures = 1],
    [NoEvents EXCEPT !.packets = 2, !.networks = 1, !.sends = 1],
    [NoEvents EXCEPT !.packets = 1, !.starts = 2, !.sleeps = 3, !.registrations = 2],
    [NoEvents EXCEPT !.sends = 2, !.networks = 1, !.failures = 1] }
==========================================================================

------------------------ MODULE MCSystemDiscovery ------------------------
(* Instances of SystemDiscovery for TLC. *)
EXTENDS SystemDiscovery

MCSystemOf == [s \in Servers |-> IF s = "s2" THEN "y" ELSE "x"]
MCBounds == [changes |-> 1, starts |-> 2, networks |-> 1, registrations |-> 2]
==========================================================================

---------------------- MODULE MCDatabaseReplication ----------------------
(* DatabaseReplication for TLC.                                            *)
EXTENDS DatabaseReplication

(* All peers have joined, the database was changed once, every junior has  *)
(* executed that update, and nothing is under way.  Spec reaches this      *)
(* state from Init; the runs about gaps and failover start here, so that   *)
(* their bounds are spent on what follows.                                 *)
EstablishedInit ==
  LET up == [id |-> 1, pre |-> DefaultContents, post |-> DefaultContents,
             payload |-> TRUE]
      first == [NewDatabaseState EXCEPT
                  !.attached = TRUE, !.stateID = 1,
                  !.updateLog = [k \in {1} |-> up], !.totalBytes = 1,
                  !.seniorStateID = 1, !.seniorOldest = 1]
  IN  /\ db = [p \in Peers |->
                 IF p = FirstSenior THEN [first EXCEPT !.firstUnsent = 2]
                   ELSE [first EXCEPT !.firstUnsent = 1, !.seniorReceived = TRUE]]
      /\ senior = [p \in Peers |-> FirstSenior]
      /\ beaconPending = [p \in Peers |-> FALSE]
      /\ outgoing = [p \in Peers |->
           IF p = FirstSenior THEN {GetDatabaseStateInfo(first)} ELSE {}]
      /\ multicasts = {} /\ beacons = {} /\ requests = {} /\ replies = {}
      /\ alive = Peers
      /\ faults = 0
      /\ history = {<<0, DefaultContents>>, <<1, DefaultContents>>}

EstablishedSpec == EstablishedInit /\ [][Next]_vars

(* Bound of the failover run: multicast packets in flight at a time.       *)
MaxPacketsInFlight == 2

FewPackets == Cardinality(multicasts) + Cardinality(beacons) <= MaxPacketsInFlight
==========================================================================

----------------------- MODULE MCHeartbeatElection -----------------------
(* HeartbeatElection for TLC.                                              *)
EXTENDS HeartbeatElection

(* Bound on how far a main thread lags behind its heartbeat thread.        *)
MaxUpdatesQueued == 1

ShortQueues == \A p \in Peers : Len(toMain[p]) <= MaxUpdatesQueued

(* Bound on what the network carries: heartbeats of different peers do not *)
(* overlap.                                                                *)
OneSenderAtATime == \A k, l \in packets : k.from = l.from

(* All peers but the lowest, the kingmaker, are switched on at time 0; the *)
(* lowest starts when it likes.                                            *)
PowerOnInit ==
  /\ now = 0
  /\ hb = [p \in Peers |-> [IdleThread EXCEPT !.running = p # Min(Peers)]]
  /\ packets = {}
  /\ toMain = [p \in Peers |-> <<>>]
  /\ mainPeers = [p \in Peers |-> <<>>]
  /\ ended = {}
  /\ losses = 0
  /\ disturbed = 0

PowerOnSpec == PowerOnInit /\ [][Next]_vars
==========================================================================

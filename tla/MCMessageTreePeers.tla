------------------------- MODULE MCMessageTreePeers -------------------------
EXTENDS MessageTreePeers

MCHome == [s \in Sessions |-> IF s = "s1" THEN 1 ELSE IF s = "s2" THEN 2 ELSE 3]
MCAddress == [s \in Sessions |-> "a"]

Workload(founders, kinds, ops, crashes, starts, losses) ==
  [founders |-> founders, kinds |-> kinds, ops |-> ops, crashes |-> crashes,
   starts |-> starts, losses |-> losses]

EveryWorkload ==
  { Workload({1, 2, 3}, {"upload", "ping"}, 2, 2, 0, 0),
    Workload({1, 2}, {"upload", "delete", "ping"}, 3, 0, 0, 1),
    Workload({1, 2}, {"upload", "attach", "detach", "subtree"}, 2, 0, 1, 0),
    Workload({1, 2}, {"subtree"}, 2, 1, 1, 0),
    Workload({1}, {"attach", "upload"}, 2, 1, 1, 1),
    Workload({1, 2}, {"toSenior", "toSubscriber", "upload", "answer"}, 4, 1, 0, 0) }

LateUpload == {Workload({1}, {"attach", "upload"}, 2, 1, 1, 0)}

Departures == {Workload({1, 2}, {"upload", "detach"}, 2, 0, 0, 1)}
=============================================================================

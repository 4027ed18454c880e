------------------- MODULE UDPMulticastTransceiverProofs -------------------
(***************************************************************************)
(* Theorems about UDPMulticastTransceiver, for every number of interfaces, *)
(* every backlog depth and any number of packets and restarts.             *)
(***************************************************************************)
EXTENDS UDPMulticastTransceiver, TLAPS

---------------------------------------------------------------------------
(* Queues of packets.                                                      *)

(* Nothing is fresher than no packets.                                     *)
LEMMA NoPacketsAreFresh ==
  \A s \in Nics : NoPackets[s] = <<>> /\ Fresh(s, <<>>)
  BY DEF NoPackets, Fresh

(* A queue without its head.                                               *)
LEMMA TailOfQueue ==
  ASSUME NEW q \in Seq(Nat), q # <<>>
  PROVE  /\ Tail(q) \in Seq(Nat) /\ Len(q) \in Nat /\ Len(q) > 0
         /\ Len(Tail(q)) = Len(q) - 1
         /\ \A i \in 1 .. Len(Tail(q)) : Tail(q)[i] = q[i + 1] /\ i + 1 \in 1 .. Len(q)
         /\ Head(q) = q[1] /\ 1 \in 1 .. Len(q) /\ Head(q) \in Nat
  OBVIOUS

(* A backlog, after a packet has come, is the old one with the new packet  *)
(* at its end, maybe without its first.                                    *)
LEMMA BacklogOfQueue ==
  ASSUME NEW q \in Seq(Nat), NEW p \in Nat
  PROVE  /\ Backlog(Append(q, p)) \in Seq(Nat)
         /\ \E k \in {0, 1} :
              /\ Len(Backlog(Append(q, p))) = Len(q) + 1 - k
              /\ \A i \in 1 .. Len(Backlog(Append(q, p))) :
                   Backlog(Append(q, p))[i] = IF i + k <= Len(q) THEN q[i + k] ELSE p
<1> DEFINE a == Append(q, p)
           b == Backlog(a)
           Dropped(k) == /\ Len(b) = Len(q) + 1 - k
                         /\ \A i \in 1 .. Len(b) : b[i] = IF i + k <= Len(q) THEN q[i + k] ELSE p
<1>1. /\ a \in Seq(Nat) /\ a # <<>> /\ Len(q) \in Nat /\ Len(a) = Len(q) + 1
      /\ \A i \in 1 .. Len(a) : a[i] = IF i <= Len(q) THEN q[i] ELSE p
  OBVIOUS
<1> HIDE DEF a
<1>2. b = a \/ b = Tail(a)
  BY DEF Backlog
<1> HIDE DEF b
<1>3. CASE b = a
  <2>1. Dropped(0)
    BY <1>1, <1>3
  <2> HIDE DEF Dropped
  <2>2. b \in Seq(Nat) /\ \E k \in {0, 1} : Dropped(k)
    BY <1>1, <1>3, <2>1
  <2> QED
    BY <2>2 DEF Dropped, b, a
<1>4. CASE b = Tail(a)
  <2>1. /\ Tail(a) \in Seq(Nat) /\ Len(Tail(a)) = Len(q)
        /\ \A i \in 1 .. Len(Tail(a)) : Tail(a)[i] = a[i + 1] /\ i + 1 \in 1 .. Len(a)
    BY <1>1, TailOfQueue
  <2>2. \A i \in 1 .. Len(Tail(a)) : Tail(a)[i] = IF i + 1 <= Len(q) THEN q[i + 1] ELSE p
    BY <1>1, <2>1
  <2>3. Dropped(1)
    BY <1>1, <1>4, <2>1, <2>2
  <2> HIDE DEF Dropped
  <2>4. b \in Seq(Nat) /\ \E k \in {0, 1} : Dropped(k)
    BY <1>4, <2>1, <2>3
  <2> QED
    BY <2>4 DEF Dropped, b, a
<1> QED
  BY <1>2, <1>3, <1>4

---------------------------------------------------------------------------
(* The packets that wait.                                                  *)

(* A step that touches neither the packets nor what was heard of them.     *)
LEMMA PacketsStay ==
  ASSUME PendingPacketsAreFresh, UNCHANGED <<mainPending, ioPending, received, heard, floor>>,
         main = main' \/ mainPending = NoPackets
  PROVE  PendingPacketsAreFresh'
<1>1. NoPackets' = NoPackets
  BY DEF NoPackets
<1>2. \A s \in Nics : /\ Fresh(s, mainPending[s])' <=> Fresh(s, mainPending[s])
                     /\ Fresh(s, ioPending[s])' <=> Fresh(s, ioPending[s])
  BY DEF Fresh
<1> QED
  BY <1>1, <1>2 DEF PendingPacketsAreFresh

(* Stop() and Start() forget the packets that wait and begin a new count.  *)
LEMMA PacketsForgotten ==
  ASSUME PendingPacketsAreFresh, ForgetPendingUpdates, floor' = received,
         UNCHANGED <<received, heard>>
  PROVE  PendingPacketsAreFresh'
<1>1. mainPending' = NoPackets /\ ioPending' = NoPackets
  BY DEF ForgetPendingUpdates
<1>2. NoPackets \in [Nics -> Seq(Nat)] /\ \A s \in Nics : NoPackets[s] = <<>>
  BY DEF NoPackets
<1>3. Len(<<>>) = 0
  OBVIOUS
<1>4. \A s \in Nics : Fresh(s, <<>>)'
  BY DEF Fresh
<1>5. \A s \in Nics : Fresh(s, mainPending[s])' /\ Fresh(s, ioPending[s])'
  BY <1>1, <1>2, <1>4
<1>6. \A s \in Nics : \A i \in 1 .. Len(mainPending'[s]), j \in 1 .. Len(ioPending'[s]) :
        mainPending'[s][i] < ioPending'[s][j]
  BY <1>1, <1>2, <1>3
<1>7. /\ received' \in [Nics -> Nat] /\ heard' \in [Nics -> Nat] /\ floor' \in [Nics -> Nat]
      /\ \A s \in Nics : heard'[s] <= received'[s] /\ floor'[s] <= received'[s]
  BY DEF PendingPacketsAreFresh
<1>8. /\ mainPending' \in [Nics -> Seq(Nat)] /\ ioPending' \in [Nics -> Seq(Nat)]
      /\ mainPending' = NoPackets'
  BY <1>1, <1>2 DEF NoPackets
<1> QED
  BY <1>5, <1>6, <1>7, <1>8 DEF PendingPacketsAreFresh

(* The main thread takes all that wait, when it has none of its own.       *)
LEMMA PacketsSwapped ==
  ASSUME PendingPacketsAreFresh, DispatchCallbacks
  PROVE  PendingPacketsAreFresh'
<1>1. main = "idle" /\ mainPending = NoPackets /\ main' = "dispatching"
      /\ UNCHANGED <<received, heard, floor>>
  BY DEF DispatchCallbacks, PendingPacketsAreFresh, configVars
<1>2. \A s \in Nics : NoPackets[s] = <<>> /\ Len(NoPackets[s]) = 0
  BY DEF NoPackets
<1>3. CASE mainPending' = ioPending /\ ioPending' = mainPending
  <2>1. \A s \in Nics : Fresh(s, mainPending[s])' /\ Fresh(s, ioPending[s])'
    BY <1>1, <1>3 DEF PendingPacketsAreFresh, Fresh
  <2> QED
    BY <1>1, <1>2, <1>3, <2>1 DEF PendingPacketsAreFresh
<1>4. CASE UNCHANGED <<mainPending, ioPending>>
  BY <1>1, <1>4 DEF PendingPacketsAreFresh, Fresh
<1> QED
  BY <1>3, <1>4 DEF DispatchCallbacks

(* The oldest packet that waits is the next that is heard of.              *)
LEMMA PacketHeard ==
  ASSUME PendingPacketsAreFresh, NEW s \in Nics, DispatchPacket(s)
  PROVE  /\ PendingPacketsAreFresh'
         /\ \A x \in Nics :
              heard'[x] # heard[x] => heard'[x] > heard[x] /\ heard'[x] > floor[x]
<1> DEFINE q == mainPending[s]
<1>1. /\ q \in Seq(Nat) /\ q # <<>> /\ main = "dispatching"
      /\ heard' = [heard EXCEPT ![s] = Head(q)]
      /\ mainPending' = [mainPending EXCEPT ![s] = Tail(q)]
      /\ UNCHANGED <<main, ioPending, received, floor>>
  BY DEF DispatchPacket, PendingPacketsAreFresh, configVars
<1>2. /\ received \in [Nics -> Nat] /\ heard \in [Nics -> Nat] /\ floor \in [Nics -> Nat]
      /\ mainPending \in [Nics -> Seq(Nat)] /\ ioPending \in [Nics -> Seq(Nat)]
  BY DEF PendingPacketsAreFresh
<1>3. /\ Fresh(s, q) /\ Fresh(s, ioPending[s])
      /\ \A i \in 1 .. Len(q), j \in 1 .. Len(ioPending[s]) : q[i] < ioPending[s][j]
  BY DEF PendingPacketsAreFresh
<1> HIDE DEF q
<1>4. /\ Tail(q) \in Seq(Nat) /\ Len(q) \in Nat /\ Len(q) > 0
      /\ Len(Tail(q)) = Len(q) - 1
      /\ \A i \in 1 .. Len(Tail(q)) : Tail(q)[i] = q[i + 1] /\ i + 1 \in 1 .. Len(q)
      /\ Head(q) = q[1] /\ 1 \in 1 .. Len(q) /\ Head(q) \in Nat
  BY <1>1, TailOfQueue
<1>5. heard'[s] = q[1] /\ mainPending'[s] = Tail(q) /\ ioPending'[s] = ioPending[s]
      /\ heard[s] < q[1] /\ floor[s] < q[1] /\ q[1] <= received[s]
  BY <1>1, <1>2, <1>3, <1>4 DEF Fresh
<1>6. \A x \in Nics \ {s} : heard'[x] = heard[x] /\ mainPending'[x] = mainPending[x]
                            /\ ioPending'[x] = ioPending[x]
  BY <1>1, <1>2
<1>7. \A x \in Nics : heard'[x] # heard[x] => heard'[x] > heard[x] /\ heard'[x] > floor[x]
  BY <1>1, <1>2, <1>4, <1>5, <1>6
<1>8. /\ received' \in [Nics -> Nat] /\ heard' \in [Nics -> Nat] /\ floor' \in [Nics -> Nat]
      /\ mainPending' \in [Nics -> Seq(Nat)] /\ ioPending' \in [Nics -> Seq(Nat)]
  BY <1>1, <1>2, <1>4
<1>9. \A i \in 1 .. Len(Tail(q)) : /\ q[1] < q[i + 1] /\ floor[s] < q[i + 1]
                                   /\ q[i + 1] <= received[s]
  BY <1>3, <1>4 DEF Fresh
<1>10. \A i, j \in 1 .. Len(Tail(q)) : i < j => Tail(q)[i] < Tail(q)[j]
  BY <1>3, <1>4 DEF Fresh
<1>11. Fresh(s, mainPending[s])'
  BY <1>1, <1>4, <1>5, <1>9, <1>10 DEF Fresh
<1>12. Fresh(s, ioPending[s])'
  BY <1>1, <1>3, <1>4, <1>5 DEF Fresh
<1>13. \A i \in 1 .. Len(Tail(q)), j \in 1 .. Len(ioPending[s]) : Tail(q)[i] < ioPending[s][j]
  BY <1>3, <1>4
<1>14. \A x \in Nics \ {s} :
         /\ heard'[x] <= received'[x] /\ floor'[x] <= received'[x]
         /\ Fresh(x, mainPending[x])' /\ Fresh(x, ioPending[x])'
         /\ \A i \in 1 .. Len(mainPending'[x]), j \in 1 .. Len(ioPending'[x]) :
              mainPending'[x][i] < ioPending'[x][j]
  <2> SUFFICES ASSUME NEW x \in Nics \ {s}
               PROVE  /\ heard'[x] <= received'[x] /\ floor'[x] <= received'[x]
                      /\ Fresh(x, mainPending[x])' /\ Fresh(x, ioPending[x])'
                      /\ \A i \in 1 .. Len(mainPending'[x]), j \in 1 .. Len(ioPending'[x]) :
                           mainPending'[x][i] < ioPending'[x][j]
    OBVIOUS
  <2>1. /\ heard'[x] = heard[x] /\ received'[x] = received[x] /\ floor'[x] = floor[x]
        /\ mainPending'[x] = mainPending[x] /\ ioPending'[x] = ioPending[x]
    BY <1>1, <1>6 DEF PendingPacketsAreFresh
  <2>2. /\ heard[x] <= received[x] /\ floor[x] <= received[x]
        /\ Fresh(x, mainPending[x]) /\ Fresh(x, ioPending[x])
        /\ \A i \in 1 .. Len(mainPending[x]), j \in 1 .. Len(ioPending[x]) :
             mainPending[x][i] < ioPending[x][j]
    BY DEF PendingPacketsAreFresh
  <2>3. Fresh(x, mainPending[x])' /\ Fresh(x, ioPending[x])'
    BY <2>1, <2>2 DEF Fresh
  <2> QED
    BY <2>1, <2>2, <2>3
<1>15. /\ heard'[s] <= received'[s] /\ floor'[s] <= received'[s]
       /\ \A i \in 1 .. Len(mainPending'[s]), j \in 1 .. Len(ioPending'[s]) :
            mainPending'[s][i] < ioPending'[s][j]
  BY <1>1, <1>5, <1>13 DEF PendingPacketsAreFresh
<1>16. main' = "dispatching"
  BY <1>1
<1> QED
  BY <1>7, <1>8, <1>11, <1>12, <1>14, <1>15, <1>16 DEF PendingPacketsAreFresh

(* A packet that is read is newer than all that wait.                      *)
LEMMA PacketReceived ==
  ASSUME PendingPacketsAreFresh, NEW s \in Nics, DoInput(s)
  PROVE  PendingPacketsAreFresh'
<1> DEFINE q == ioPending[s]
           p == received[s] + 1
           b == Backlog(Append(q, p))
<1>1. /\ received \in [Nics -> Nat] /\ heard \in [Nics -> Nat] /\ floor \in [Nics -> Nat]
      /\ mainPending \in [Nics -> Seq(Nat)] /\ ioPending \in [Nics -> Seq(Nat)]
      /\ q \in Seq(Nat) /\ p \in Nat /\ Len(q) \in Nat
      /\ main # "dispatching" => mainPending = NoPackets
      /\ heard[s] <= received[s] /\ floor[s] <= received[s]
      /\ Fresh(s, mainPending[s]) /\ Fresh(s, q)
      /\ \A i \in 1 .. Len(mainPending[s]), j \in 1 .. Len(q) : mainPending[s][i] < q[j]
  BY DEF PendingPacketsAreFresh
<1>2. /\ received' = [received EXCEPT ![s] = p]
      /\ UNCHANGED <<main, mainPending, heard, floor>>
      /\ ioPending' = [ioPending EXCEPT ![s] = b] \/ ioPending' = ioPending
  BY <1>1 DEF DoInput, UDPPacketReceived, configVars
<1>3. /\ b \in Seq(Nat)
      /\ \E k \in {0, 1} :
           /\ Len(b) = Len(q) + 1 - k
           /\ \A i \in 1 .. Len(b) : b[i] = IF i + k <= Len(q) THEN q[i + k] ELSE p
  BY <1>1, BacklogOfQueue
<1> HIDE DEF q, b
<1>4. PICK k \in {0, 1} :
           /\ Len(b) = Len(q) + 1 - k
           /\ \A i \in 1 .. Len(b) : b[i] = IF i + k <= Len(q) THEN q[i + k] ELSE p
  BY <1>3
<1>5. received'[s] = p /\ received[s] \in Nat /\ received[s] < p
      /\ \A x \in Nics \ {s} : received'[x] = received[x] /\ ioPending'[x] = ioPending[x]
  BY <1>1, <1>2
<1>6. \A i \in 1 .. Len(q) : q[i] \in Nat /\ heard[s] < q[i] /\ floor[s] < q[i] /\ q[i] < p
  <2>1. \A i \in 1 .. Len(q) : q[i] \in Nat
    BY <1>1
  <2> QED
    BY <1>1, <1>5, <2>1 DEF Fresh
<1>7. \A i \in 1 .. Len(mainPending[s]) :
        /\ mainPending[s][i] \in Nat /\ mainPending[s][i] < p
        /\ heard[s] < mainPending[s][i] /\ floor[s] < mainPending[s][i]
  <2>1. \A i \in 1 .. Len(mainPending[s]) : mainPending[s][i] \in Nat
    BY <1>1
  <2> QED
    BY <1>1, <1>5, <2>1 DEF Fresh
<1>8. \A i, j \in 1 .. Len(q) : i < j => q[i] < q[j]
  BY <1>1 DEF Fresh
<1>9. /\ heard[s] \in Nat /\ floor[s] \in Nat /\ heard[s] < p /\ floor[s] < p
      /\ p \in Nat /\ Len(q) \in Nat
  BY <1>1, <1>5
<1> HIDE DEF p
<1>10. \A i \in 1 .. Len(b) :
         /\ i + k <= Len(q) => b[i] = q[i + k] /\ i + k \in 1 .. Len(q)
         /\ ~(i + k <= Len(q)) => b[i] = p /\ i = Len(b)
  BY <1>4, <1>9
<1>11. /\ \A i \in 1 .. Len(b) : heard[s] < b[i] /\ floor[s] < b[i] /\ b[i] <= p
       /\ \A i, j \in 1 .. Len(b) : i < j => b[i] < b[j]
       /\ \A i \in 1 .. Len(mainPending[s]), j \in 1 .. Len(b) : mainPending[s][i] < b[j]
  <2>1. ASSUME NEW i \in 1 .. Len(b) PROVE heard[s] < b[i] /\ floor[s] < b[i] /\ b[i] <= p
    <3>1. CASE i + k <= Len(q)
      BY <1>6, <1>9, <1>10, <3>1
    <3>2. CASE ~(i + k <= Len(q))
      BY <1>9, <1>10, <3>2
    <3> QED
      BY <3>1, <3>2
  <2>2. ASSUME NEW i \in 1 .. Len(b), NEW j \in 1 .. Len(b), i < j PROVE b[i] < b[j]
    <3>1. i + k <= Len(q)
      BY <1>4, <1>9, <2>2
    <3>2. CASE j + k <= Len(q)
      BY <1>8, <1>10, <2>2, <3>1, <3>2
    <3>3. CASE ~(j + k <= Len(q))
      BY <1>6, <1>10, <3>1, <3>3
    <3> QED
      BY <3>2, <3>3
  <2>3. ASSUME NEW i \in 1 .. Len(mainPending[s]), NEW j \in 1 .. Len(b)
        PROVE  mainPending[s][i] < b[j]
    <3>1. \A l \in 1 .. Len(q) : mainPending[s][i] < q[l]
      BY <1>1 DEF q
    <3> QED
      BY <1>7, <1>10, <3>1
  <2> QED
    BY <2>1, <2>2, <2>3
<1>12. Fresh(s, ioPending[s])' /\ \A i \in 1 .. Len(mainPending[s]), j \in 1 .. Len(ioPending'[s]) :
                                    mainPending[s][i] < ioPending'[s][j]
  <2>1. CASE ioPending' = [ioPending EXCEPT ![s] = b]
    <3>1. ioPending'[s] = b
      BY <1>1, <2>1
    <3> QED
      BY <1>2, <1>5, <1>11, <3>1 DEF Fresh
  <2>2. CASE ioPending' = ioPending
    <3>1. ioPending'[s] = q
      BY <2>2 DEF q
    <3> QED
      BY <1>1, <1>2, <1>5, <1>6, <1>8, <3>1 DEF Fresh
  <2> QED
    BY <1>2, <2>1, <2>2
<1>13. Fresh(s, mainPending[s])'
  BY <1>1, <1>2, <1>5, <1>7 DEF Fresh
<1>14. \A x \in Nics \ {s} :
         /\ heard'[x] <= received'[x] /\ floor'[x] <= received'[x]
         /\ Fresh(x, mainPending[x])' /\ Fresh(x, ioPending[x])'
         /\ \A i \in 1 .. Len(mainPending'[x]), j \in 1 .. Len(ioPending'[x]) :
              mainPending'[x][i] < ioPending'[x][j]
  <2> SUFFICES ASSUME NEW x \in Nics \ {s}
               PROVE  /\ heard'[x] <= received'[x] /\ floor'[x] <= received'[x]
                      /\ Fresh(x, mainPending[x])' /\ Fresh(x, ioPending[x])'
                      /\ \A i \in 1 .. Len(mainPending'[x]), j \in 1 .. Len(ioPending'[x]) :
                           mainPending'[x][i] < ioPending'[x][j]
    OBVIOUS
  <2>1. /\ heard'[x] = heard[x] /\ received'[x] = received[x] /\ floor'[x] = floor[x]
        /\ mainPending'[x] = mainPending[x] /\ ioPending'[x] = ioPending[x]
    BY <1>2, <1>5 DEF PendingPacketsAreFresh
  <2>2. /\ heard[x] <= received[x] /\ floor[x] <= received[x]
        /\ Fresh(x, mainPending[x]) /\ Fresh(x, ioPending[x])
        /\ \A i \in 1 .. Len(mainPending[x]), j \in 1 .. Len(ioPending[x]) :
             mainPending[x][i] < ioPending[x][j]
    BY DEF PendingPacketsAreFresh
  <2>3. Fresh(x, mainPending[x])' /\ Fresh(x, ioPending[x])'
    BY <2>1, <2>2 DEF Fresh
  <2> QED
    BY <2>1, <2>2, <2>3
<1>15. /\ received' \in [Nics -> Nat] /\ heard' \in [Nics -> Nat] /\ floor' \in [Nics -> Nat]
       /\ mainPending' \in [Nics -> Seq(Nat)] /\ ioPending' \in [Nics -> Seq(Nat)]
  BY <1>1, <1>2, <1>3
<1>16. heard'[s] <= received'[s] /\ floor'[s] <= received'[s]
  BY <1>1, <1>2, <1>5
<1>17. main' # "dispatching" => mainPending' = NoPackets'
  BY <1>1, <1>2 DEF NoPackets
<1> QED
  BY <1>2, <1>12, <1>13, <1>14, <1>15, <1>16, <1>17 DEF PendingPacketsAreFresh

(* Every step keeps the packets that wait in order, and the targets hear   *)
(* of them in order.                                                       *)
LEMMA EveryStepKeepsOrder ==
  PendingPacketsAreFresh /\ [Next]_vars =>
    /\ PendingPacketsAreFresh'
    /\ \A s \in Nics : heard'[s] # heard[s] => heard'[s] > heard[s] /\ heard'[s] > floor[s]
<1> SUFFICES ASSUME PendingPacketsAreFresh, [Next]_vars
             PROVE  /\ PendingPacketsAreFresh'
                    /\ \A s \in Nics : heard'[s] # heard[s] =>
                         heard'[s] > heard[s] /\ heard'[s] > floor[s]
  OBVIOUS
<1>1. main # "dispatching" => mainPending = NoPackets
  BY DEF PendingPacketsAreFresh
<1>2. ASSUME NEW s \in Nics, DispatchPacket(s)
      PROVE  /\ PendingPacketsAreFresh'
             /\ \A x \in Nics : heard'[x] # heard[x] =>
                  heard'[x] > heard[x] /\ heard'[x] > floor[x]
  BY <1>2, PacketHeard
<1>3. CASE StopReturns \/ StartReturns
  BY <1>3, PacketsForgotten DEF StopReturns, StartReturns
<1>4. CASE DispatchCallbacks
  BY <1>4, PacketsSwapped DEF DispatchCallbacks
<1>5. CASE DispatchReturns \/ Start \/ Stop
  BY <1>1, <1>5, PacketsStay DEF DispatchReturns, Start, Stop, configVars
<1>6. ASSUME NEW s \in Nics, DoInput(s)
      PROVE  PendingPacketsAreFresh' /\ heard' = heard
  BY <1>6, PacketReceived DEF DoInput
<1>7. CASE InternalThreadEntry \/ NetworkInterfacesChanged \/ HandleMessageFromOwner
           \/ RequestCallbackInDispatchThread \/ ComputerSleepChanges \/ InterfacesComeAndGo
  BY <1>7, PacketsStay
  DEF InternalThreadEntry, NetworkInterfacesChanged, HandleMessageFromOwner,
      RequestCallbackInDispatchThread, ComputerSleepChanges, InterfacesComeAndGo, configVars
<1>8. CASE (\E n \in Nics : DoOutput(n)) \/ SendMulticastPacket \/ SendUnicastPacket
           \/ \E t \in Targets : RegisterTarget(t) \/ UnregisterTarget(t)
  BY <1>8, PacketsStay
  DEF DoOutput, SendMulticastPacket, SendUnicastPacket, SendPacket, RegisterTarget,
      UnregisterTarget, configVars
<1>9. CASE UNCHANGED vars
  BY <1>9, PacketsStay DEF vars
<1> QED
  BY <1>2, <1>3, <1>4, <1>5, <1>6, <1>7, <1>8, <1>9 DEF Next, MainThread, IOThread

(* Every step that leaves packets waiting leaves a callback asked for.     *)
LEMMA EveryStepKeepsTheCallback ==
  PendingPacketsAreFresh /\ WaitingPacketsHaveACallback /\ [Next]_vars
    => WaitingPacketsHaveACallback'
<1> SUFFICES ASSUME PendingPacketsAreFresh, WaitingPacketsHaveACallback, [Next]_vars
             PROVE  WaitingPacketsHaveACallback'
  OBVIOUS
<1>1. NoPackets' = NoPackets
  BY DEF NoPackets
<1> USE DEF WaitingPacketsHaveACallback
<1>2. CASE StopReturns \/ StartReturns
  BY <1>1, <1>2 DEF StopReturns, StartReturns, ForgetPendingUpdates
<1>3. CASE DispatchCallbacks
  <2>1. mainPending = NoPackets
    BY <1>3 DEF DispatchCallbacks, PendingPacketsAreFresh
  <2> QED
    BY <1>1, <1>3, <2>1 DEF DispatchCallbacks
<1>4. ASSUME NEW s \in Nics, DoInput(s) PROVE WaitingPacketsHaveACallback'
  <2>1. thread = "looping" /\ bits' = bits
    BY <1>4 DEF DoInput
  <2>2. CASE depth > 0
    BY <1>1, <1>4, <2>1, <2>2 DEF DoInput, UDPPacketReceived
  <2>3. CASE ~(depth > 0)
    BY <1>1, <1>4, <2>1, <2>3 DEF DoInput
  <2> QED
    BY <2>2, <2>3
<1>5. CASE RequestCallbackInDispatchThread \/ InternalThreadEntry \/ NetworkInterfacesChanged
           \/ HandleMessageFromOwner
  BY <1>1, <1>5 DEF RequestCallbackInDispatchThread, InternalThreadEntry,
                    NetworkInterfacesChanged, HandleMessageFromOwner
<1>6. CASE ComputerSleepChanges
  BY <1>1, <1>6 DEF ComputerSleepChanges, ReportSleepNotification
<1>7. CASE (\E s \in Nics : DispatchPacket(s)) \/ DispatchReturns \/ Start \/ Stop
           \/ (\E n \in Nics : DoOutput(n)) \/ SendMulticastPacket \/ SendUnicastPacket
           \/ (\E t \in Targets : RegisterTarget(t) \/ UnregisterTarget(t))
           \/ InterfacesComeAndGo
  BY <1>1, <1>7 DEF DispatchPacket, DispatchReturns, Start, Stop, DoOutput, SendMulticastPacket,
                    SendUnicastPacket, SendPacket, RegisterTarget, UnregisterTarget,
                    InterfacesComeAndGo
<1>8. CASE UNCHANGED vars
  BY <1>1, <1>8 DEF vars
<1> QED
  BY <1>2, <1>3, <1>4, <1>5, <1>6, <1>7, <1>8 DEF Next, MainThread, IOThread

---------------------------------------------------------------------------
(* Nothing waits at first.                                                 *)
LEMMA NothingWaitsAtFirst ==
  Init => PendingPacketsAreFresh /\ WaitingPacketsHaveACallback
<1> SUFFICES ASSUME Init PROVE PendingPacketsAreFresh /\ WaitingPacketsHaveACallback
  OBVIOUS
<1>1. /\ NoPackets \in [Nics -> Seq(Nat)]
      /\ \A s \in Nics : NoPackets[s] = <<>> /\ Len(NoPackets[s]) = 0
  BY DEF NoPackets
<1>2. /\ received \in [Nics -> Nat] /\ heard = received /\ floor = received
      /\ mainPending = NoPackets /\ ioPending = NoPackets
  BY DEF Init
<1> QED
  BY <1>1, <1>2 DEF PendingPacketsAreFresh, WaitingPacketsHaveACallback, Fresh

(* Packets wait in order, whatever the threads do to the two buffers.      *)
THEOREM PacketsWaitInOrder ==
  Spec => []PendingPacketsAreFresh
  BY NothingWaitsAtFirst, EveryStepKeepsOrder, PTL DEF Spec

(* Targets hear of a sender's packets in order, of each at most once and   *)
(* of none from before the last Stop(), whatever the backlog limit drops   *)
(* and whenever the two buffers are swapped (SwapUpdateBuffers).           *)
THEOREM PacketsAreHeardInOrder ==
  Spec => HeardInOrder
<1>1. PendingPacketsAreFresh /\ [Next]_vars =>
        [\A s \in Nics : heard'[s] # heard[s] =>
           heard'[s] > heard[s] /\ heard'[s] > floor[s]]_vars
  BY EveryStepKeepsOrder
<1> QED
  BY PacketsWaitInOrder, <1>1, PTL DEF Spec, HeardInOrder

(* No packet is left lying: as long as packets wait to be swapped out, the *)
(* main thread has a callback coming that swaps them out, although         *)
(* UDPPacketReceived() asks for one only when the buffer was empty.        *)
THEOREM NoPacketIsStranded ==
  Spec => []WaitingPacketsHaveACallback
  BY NothingWaitsAtFirst, PacketsWaitInOrder, EveryStepKeepsTheCallback, PTL DEF Spec
=============================================================================

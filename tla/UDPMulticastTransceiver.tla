---------------------- MODULE UDPMulticastTransceiver ----------------------
(***************************************************************************)
(* UDPMulticastTransceiver: low-latency packets between the programs of a  *)
(* network.  The main thread starts and stops the transceiver, sends and   *)
(* hears of received packets; an I/O thread (InternalThreadEntry) has one  *)
(* MulticastUDPSession, with a socket of its own, per network interface.   *)
(* Commands go to the thread in a queue.  Received packets are left in     *)
(* _ioThreadPendingUpdates, at most _perSenderMaxBacklogDepth per sender,  *)
(* for the main thread to swap out when its callback comes.                *)
(*                                                                         *)
(* The packets of a sender are numbered in the order in which the thread   *)
(* reads them.  An interface has one remote sender: a source address names *)
(* the interface it was heard on.  Which kind of multicast a socket uses   *)
(* makes no difference here.                                               *)
(***************************************************************************)
EXTENDS Integers, Sequences, FiniteSets

CONSTANTS
  Nics,        \* network interfaces, and the sender heard on each of them
  Depths,      \* backlog depths that Start() is called with
  Targets,     \* IUDPMulticastNotificationTargets
  Bounds       \* a set of [packets, starts, sleeps, networks, sends,
               \* registrations, failures]: a behaviour has at most so many of
               \* each, for one member

ASSUME DepthAssumption == Depths \subseteq Nat

VARIABLES
  active,      \* _isActive
  depth,       \* _perSenderMaxBacklogDepth
  targets,     \* _targets
  main,        \* what the main thread is doing
  wanted,      \* the depth that the Start() under way asks for
  taken,       \* the event bits DispatchCallbacks() was called with
  mainPending, \* _mainThreadPendingUpdates
  ioPending,   \* _ioThreadPendingUpdates
  bits,        \* event bits that wait for a callback
  toThread,    \* the main thread's commands to the I/O thread
  thread,      \* what the I/O thread is doing
  sessions,    \* _udpSessions, each with its outgoing queue
  nics,        \* the interfaces there are
  changed,     \* have they changed without the thread noticing?
  received,    \* received[s]: the last packet of s that was read
  heard,       \* heard[s]: the last packet of s that targets were told of
  floor,       \* received as of the last Stop()
  budget

vars == <<active, depth, targets, main, wanted, taken, mainPending, ioPending, bits, toThread,
          thread, sessions, nics, changed, received, heard, floor, budget>>

configVars  == <<active, depth, wanted, floor>>
networkVars == <<nics, changed>>

MaxPackets == CHOOSE n \in {b.packets : b \in Bounds} : \A b \in Bounds : b.packets <= n
NoPackets  == [s \in Nics |-> <<>>]
NoSessions == [n \in {} |-> <<>>]

Spend(what) ==
  /\ budget[what] > 0
  /\ budget' = [budget EXCEPT ![what] = @ - 1]

(* The main thread runs the application's code: between callbacks, and     *)
(* inside a target's callback.                                             *)
InApplication == main \in {"idle", "dispatching"}

Init ==
  /\ active = FALSE /\ depth = 1 /\ targets = {}
  /\ main = "idle" /\ wanted = 1 /\ taken = {}
  /\ mainPending = NoPackets /\ ioPending = NoPackets
  /\ bits = {} /\ toThread = <<>>
  /\ thread = "none" /\ sessions = NoSessions
  /\ nics \in SUBSET Nics /\ changed = FALSE
  /\ received = [s \in Nics |-> 0] /\ heard = received /\ floor = received
  /\ budget \in Bounds

---------------------------------------------------------------------------
(* Starting and stopping, in the main thread.  Neither is called from      *)
(* within a callback.                                                      *)

(* ShutdownInternalThread: an empty Message asks the thread to go away,    *)
(* and the main thread waits until it has.                                 *)
ShutdownInternalThread ==
  toThread' = IF thread = "none" THEN toThread ELSE Append(toThread, [what |-> "exit"])

Start ==
  /\ main = "idle"
  /\ Spend("starts")
  /\ main' = "starting"
  /\ wanted' \in Depths
  /\ ShutdownInternalThread
  /\ UNCHANGED <<active, depth, floor, targets, taken, mainPending, ioPending, bits,
                 thread, sessions, networkVars, received, heard>>

Stop ==
  /\ main = "idle" /\ active
  /\ main' = "stopping"
  /\ ShutdownInternalThread
  /\ UNCHANGED <<configVars, targets, taken, mainPending, ioPending, bits,
                 thread, sessions, networkVars, received, heard, budget>>

(* Mutant: only the main thread's packets are forgotten.                   *)
ForgetMainPendingUpdates ==
  /\ mainPending' = NoPackets
  /\ UNCHANGED ioPending

ForgetPendingUpdates ==
  /\ mainPending' = NoPackets
  /\ ioPending' = NoPackets

(* The rest of Stop(), once the thread is gone; a callback that was asked  *)
(* for still comes.                                                        *)
StopReturns ==
  /\ main = "stopping" /\ thread = "none"
  /\ main' = "idle"
  /\ ForgetPendingUpdates
  /\ floor' = received
  /\ depth' = 1 /\ active' = FALSE
  /\ UNCHANGED <<wanted, targets, taken, bits, toThread, thread, sessions, networkVars,
                 received, heard, budget>>

(* The rest of Start().  If no thread can be started, the old settings are *)
(* put back, but the transceiver has stopped.                              *)
StartReturns ==
  /\ main = "starting" /\ thread = "none"
  /\ main' = "idle"
  /\ ForgetPendingUpdates
  /\ floor' = received
  /\ \/ /\ thread' = "entering"
        /\ depth' = wanted /\ active' = TRUE
        /\ UNCHANGED budget
     \/ /\ Spend("failures")
        /\ active' = FALSE
        /\ UNCHANGED <<thread, depth>>
  /\ UNCHANGED <<wanted, targets, taken, bits, toThread, sessions, networkVars,
                 received, heard>>

---------------------------------------------------------------------------
(* The other calls of the main thread.                                     *)

RegisterTarget(t) ==
  /\ InApplication
  /\ t \notin targets
  /\ Spend("registrations")
  /\ targets' = targets \cup {t}
  /\ UNCHANGED <<configVars, main, taken, mainPending, ioPending, bits, toThread, thread,
                 sessions, networkVars, received, heard>>

UnregisterTarget(t) ==
  /\ InApplication
  /\ t \in targets
  /\ targets' = targets \ {t}
  /\ UNCHANGED <<configVars, main, taken, mainPending, ioPending, bits, toThread, thread,
                 sessions, networkVars, received, heard, budget>>

(* SendMulticastPacket and SendUnicastPacket are refused unless the        *)
(* transceiver is active.                                                  *)
SendPacket(cmd) ==
  /\ InApplication
  /\ active
  /\ Spend("sends")
  /\ toThread' = Append(toThread, cmd)
  /\ UNCHANGED <<configVars, targets, main, taken, mainPending, ioPending, bits, thread,
                 sessions, networkVars, received, heard>>

SendMulticastPacket == SendPacket([what |-> "multicast"])

SendUnicastPacket == \E n \in Nics : SendPacket([what |-> "unicast", to |-> n])

(* The callback mechanism takes the bits and calls DispatchCallbacks(),    *)
(* which first swaps the two buffers (SwapUpdateBuffers).                  *)
DispatchCallbacks ==
  /\ main = "idle"
  /\ bits # {}
  /\ main' = "dispatching"
  /\ taken' = bits
  /\ bits' = {}
  /\ IF "packet" \in bits
       THEN mainPending' = ioPending /\ ioPending' = mainPending
       ELSE UNCHANGED <<mainPending, ioPending>>
  /\ UNCHANGED <<configVars, targets, toThread, thread, sessions, networkVars,
                 received, heard, budget>>

(* The targets are told of one packet.  Senders are visited one after the  *)
(* other; the model visits them in any order.                              *)
DispatchPacket(s) ==
  /\ main = "dispatching"
  /\ mainPending[s] # <<>>
  /\ heard' = [heard EXCEPT ![s] = Head(mainPending[s])]
  /\ mainPending' = [mainPending EXCEPT ![s] = Tail(@)]
  /\ UNCHANGED <<configVars, targets, main, taken, ioPending, bits, toThread, thread,
                 sessions, networkVars, received, budget>>

(* At last every target is told of sleep and of waking, if the bits say so. *)
DispatchReturns ==
  /\ main = "dispatching"
  /\ mainPending = NoPackets
  /\ main' = "idle"
  /\ taken' = {}
  /\ UNCHANGED <<configVars, targets, mainPending, ioPending, bits, toThread, thread, sessions,
                 networkVars, received, heard, budget>>

---------------------------------------------------------------------------
(* The I/O thread.                                                         *)

(* CreateDefaultSocket: an interface may refuse to have a socket set up.   *)
CreateDefaultSockets(ns) ==
  \/ /\ sessions' = [n \in ns |-> <<>>]
     /\ UNCHANGED budget
  \/ /\ Spend("failures")
     /\ \E bad \in ns : sessions' = [n \in ns \ {bad} |-> <<>>]

(* A session per interface whose socket could be set up; the others are    *)
(* done without until the interfaces change again.                         *)
AddNewMulticastUDPSessions == CreateDefaultSockets(nics)

InternalThreadEntry ==
  /\ thread = "entering"
  /\ thread' = "looping"
  /\ AddNewMulticastUDPSessions
  /\ changed' = FALSE
  /\ UNCHANGED <<configVars, targets, main, taken, mainPending, ioPending, bits, toThread,
                 nics, received, heard>>

(* EndExistingMulticastUDPSessions and AddNewMulticastUDPSessions: what    *)
(* the old sessions had not sent is lost.                                  *)
NetworkInterfacesChanged ==
  /\ thread = "looping"
  /\ changed
  /\ changed' = FALSE
  /\ AddNewMulticastUDPSessions
  /\ UNCHANGED <<configVars, targets, main, taken, mainPending, ioPending, bits, toThread,
                 thread, nics, received, heard>>

(* A multicast goes out through all sessions, a unicast through that of    *)
(* its interface or, for lack of it, through the first there is.           *)
Queued(cmd) ==
  LET through == IF cmd.what = "multicast" THEN {DOMAIN sessions}
                 ELSE IF cmd.to \in DOMAIN sessions THEN {{cmd.to}}
                 ELSE IF sessions = NoSessions THEN {{}}
                 ELSE {{n} : n \in DOMAIN sessions}
  IN  {[n \in DOMAIN sessions |->
          IF n \in ns THEN Append(sessions[n], cmd) ELSE sessions[n]] : ns \in through}

HandleMessageFromOwner ==
  /\ thread = "looping"
  /\ toThread # <<>>
  /\ toThread' = Tail(toThread)
  /\ IF Head(toThread).what = "exit"       \* EndServer, Cleanup
       THEN thread' = "none" /\ sessions' = NoSessions
       ELSE UNCHANGED thread /\ sessions' \in Queued(Head(toThread))
  /\ UNCHANGED <<configVars, targets, main, taken, mainPending, ioPending, bits,
                 networkVars, received, heard, budget>>

(* One packet is written, or cannot be; either way it leaves the queue.    *)
DoOutput(n) ==
  /\ thread = "looping"
  /\ n \in DOMAIN sessions
  /\ sessions[n] # <<>>
  /\ sessions' = [sessions EXCEPT ![n] = Tail(@)]
  /\ UNCHANGED <<configVars, targets, main, taken, mainPending, ioPending, bits, toThread,
                 thread, networkVars, received, heard, budget>>

(* Mutant: of a backlog that is too long, the newest packet goes.          *)
RefuseNewest(q) == IF Len(q) > depth THEN SubSeq(q, 1, depth) ELSE q

(* Of a backlog that is too long, the oldest packet goes.                  *)
Backlog(q) == IF Len(q) > depth THEN Tail(q) ELSE q

(* The critical section of UDPPacketReceived: the first packet in the      *)
(* buffer makes the thread ask for a callback.                             *)
UDPPacketReceived(s, p) ==
  /\ ioPending' = [ioPending EXCEPT ![s] = Backlog(Append(@, p))]
  /\ thread' = IF ioPending = NoPackets /\ ioPending' # NoPackets THEN "signalling" ELSE thread

(* MulticastUDPSession::DoInput, for one packet: with a depth of zero it   *)
(* is read and dropped.                                                    *)
DoInput(s) ==
  /\ thread = "looping"
  /\ s \in DOMAIN sessions
  /\ Spend("packets")
  /\ received' = [received EXCEPT ![s] = @ + 1]
  /\ IF depth > 0 THEN UDPPacketReceived(s, received'[s]) ELSE UNCHANGED <<ioPending, thread>>
  /\ UNCHANGED <<configVars, targets, main, taken, mainPending, bits, toThread, sessions,
                 networkVars, heard>>

(* The end of UDPPacketReceived, after the mutex has been let go.          *)
RequestCallbackInDispatchThread ==
  /\ thread = "signalling"
  /\ thread' = "looping"
  /\ bits' = bits \cup {"packet"}
  /\ UNCHANGED <<configVars, targets, main, taken, mainPending, ioPending, toThread, sessions,
                 networkVars, received, heard, budget>>

(* The news replaces the opposite news that no callback has taken yet.     *)
ReportSleepNotification(news) == bits' = (bits \ {"sleep", "awake"}) \cup {news}

(* ComputerIsAboutToSleep and ComputerJustWokeUp.                          *)
ComputerSleepChanges ==
  /\ thread = "looping"
  /\ Spend("sleeps")
  /\ \E news \in {"sleep", "awake"} : ReportSleepNotification(news)
  /\ UNCHANGED <<configVars, targets, main, taken, mainPending, ioPending, toThread, thread,
                 sessions, networkVars, received, heard>>

(* Interfaces come and go.                                                 *)
InterfacesComeAndGo ==
  /\ Spend("networks")
  /\ nics' \in (SUBSET Nics) \ {nics}
  /\ changed' = TRUE
  /\ UNCHANGED <<configVars, targets, main, taken, mainPending, ioPending, bits, toThread,
                 thread, sessions, received, heard>>

---------------------------------------------------------------------------
MainThread ==
  \/ StopReturns \/ StartReturns
  \/ DispatchCallbacks \/ DispatchReturns
  \/ \E s \in Nics : DispatchPacket(s)

IOThread ==
  \/ InternalThreadEntry \/ NetworkInterfacesChanged
  \/ HandleMessageFromOwner
  \/ RequestCallbackInDispatchThread
  \/ \E n \in Nics : DoOutput(n)

Next ==
  \/ MainThread \/ IOThread
  \/ Start \/ Stop \/ SendMulticastPacket \/ SendUnicastPacket
  \/ \E t \in Targets : RegisterTarget(t) \/ UnregisterTarget(t)
  \/ \E s \in Nics : DoInput(s)
  \/ ComputerSleepChanges \/ InterfacesComeAndGo

(* Both threads go on with what they have been asked to do.  Nothing is    *)
(* assumed of the application and of the network.                          *)
Spec == Init /\ [][Next]_vars /\ WF_vars(MainThread) /\ WF_vars(IOThread)

---------------------------------------------------------------------------
(* Of what a sender sends, the newest packet always gets through to the    *)
(* targets, however the threads interleave and however many older packets  *)
(* the backlog limit drops, unless the transceiver is stopped first: the   *)
(* one request for a callback that UDPPacketReceived() makes is enough.    *)
NewestPacketIsHeard ==
  \A s \in Nics : \A n \in 1 .. MaxPackets :
    (received[s] = n /\ floor[s] < n /\ depth > 0)
      ~> (heard[s] >= n \/ main \in {"stopping", "starting"})

(* Targets hear of a sender's packets in order and of each at most once,   *)
(* and never of a packet from before the last Stop(), even though the      *)
(* callback that was asked for then may only come after the next Start().  *)
HeardInOrder ==
  [][\A s \in Nics :
       heard'[s] # heard[s] => heard'[s] > heard[s] /\ heard'[s] > floor[s]]_vars

---------------------------------------------------------------------------
(* The inductive invariants behind the theorems.                           *)

(* Packets q of s wait in order; none was heard of, none is from before    *)
(* the last Stop().                                                        *)
Fresh(s, q) ==
  /\ \A i \in 1 .. Len(q) : heard[s] < q[i] /\ floor[s] < q[i] /\ q[i] <= received[s]
  /\ \A i, j \in 1 .. Len(q) : i < j => q[i] < q[j]

(* What the main thread has swapped out is older than what has come since, *)
(* and only a callback that is under way has swapped anything out.         *)
PendingPacketsAreFresh ==
  /\ received \in [Nics -> Nat] /\ heard \in [Nics -> Nat] /\ floor \in [Nics -> Nat]
  /\ mainPending \in [Nics -> Seq(Nat)] /\ ioPending \in [Nics -> Seq(Nat)]
  /\ main # "dispatching" => mainPending = NoPackets
  /\ \A s \in Nics :
       /\ heard[s] <= received[s] /\ floor[s] <= received[s]
       /\ Fresh(s, mainPending[s]) /\ Fresh(s, ioPending[s])
       /\ \A i \in 1 .. Len(mainPending[s]), j \in 1 .. Len(ioPending[s]) :
            mainPending[s][i] < ioPending[s][j]

(* Packets that wait to be swapped out have a callback asked for, or the   *)
(* I/O thread is about to ask for it: it asks only when the first packet   *)
(* arrives, and a callback for other news leaves the packets alone.        *)
WaitingPacketsHaveACallback ==
  ioPending # NoPackets => "packet" \in bits \/ thread = "signalling"

============================================================================

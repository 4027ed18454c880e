----------------------- MODULE PZGNetworkIOSession -----------------------
(* A peer's network I/O: PZGNetworkIOSession in the main thread, its        *)
(* internal thread, which does the multicasting, the two message queues     *)
(* between them, and the PZGUnicastSessions (TCP) through which back-orders *)
(* are placed.                                                              *)
(*                                                                          *)
(* The network is external: several interfaces, each of which delivers a    *)
(* multicast packet or loses it, so that a packet may arrive more than once *)
(* and an old one after a new one.  So are the heartbeat thread, of which   *)
(* only its reports are seen here (HeartbeatElection models it), and the    *)
(* databases, of which only the state that a beacon announces and the       *)
(* back-orders they wait for are seen (DatabaseReplication models them).    *)
EXTENDS Integers, Sequences, FiniteSets, SequencesExt

CONSTANTS Self,            \* GetLocalPeerID()
          Others,          \* the other peers that may be heard
          NoPeer,          \* an invalid ZGPeerID
          None,            \* a NULL reference
          Interfaces,      \* network interfaces
          Loopback,        \* what is used when there is none
          Sessions,        \* PZGUnicastSession objects
          MaxRecentlyReceived,  \* 1000 in the code
          Bounds           \* how many events of each kind there may be, in
                           \* each of several mixes of events

EventKinds == {"reports", "sleeps", "networks", "packets", "multicasts",
               "states", "sessions", "requests"}

ASSUME NetworkIOAssumption ==
  /\ Self \notin Others /\ NoPeer \notin Others \cup {Self}
  /\ MaxRecentlyReceived \in Nat
  /\ IsFiniteSet(Others) /\ IsFiniteSet(Sessions)
  /\ \A b \in Bounds : b \in [EventKinds -> Nat]

VARIABLES
  \* The main thread: PZGNetworkIOSession and its ZGPeerSession
  running,               \* between AttachedToServer() and its shutdown
  seniorPeerID, mainThreadPeers, iAmFullyAttached, computerIsAsleep,
  setBeaconDataPending,
  databaseStateID,       \* the state that this peer's beacon data announces
  heard,                 \* what BeaconDataChanged() was last called with
  delivered,             \* tags of the Messages given to the ZGPeerSession
  \* Its unicast sessions
  sessions,              \* the registered ones and what they know
  namedUnicastSessions,
  awaited,               \* the back-orders that the database waits for
  thread,                \* the internal thread's local variables
  \* Between the threads
  toThread, toOwner,
  \* The network
  present,               \* the interfaces that work
  air,                   \* packets that have yet to arrive at an interface
  sentBeacon,            \* the beacon last handed to the packet gateways
  announcing,            \* the state each of the others announces as senior
  events                 \* how many events of each kind there have been

unicastVars == <<sessions, namedUnicastSessions, awaited>>
mainVars == <<running, seniorPeerID, mainThreadPeers, iAmFullyAttached,
              computerIsAsleep, setBeaconDataPending, databaseStateID, heard,
              delivered>>
networkVars == <<present, air, sentBeacon, announcing>>
vars == <<mainVars, unicastVars, thread, toThread, toOwner, networkVars,
          events>>

(* Messages to the internal thread and to its owner, and packets.  A tag is *)
(* a peer and a number, 0 for all beacons.                                  *)
Command(what, arg) == [what |-> what, arg |-> arg]
Packet(what, from, n, data) ==
  [what |-> what, from |-> from, n |-> n, data |-> data]
TagOf(m) == <<m.from, m.n>>

NoSession == [registered |-> FALSE, remotePeerID |-> NoPeer, backorders |-> <<>>]

(* InternalThreadEntry() begins.                                            *)
NewThread ==
  [dios |-> {}, recreateMulticastDataIORequested |-> TRUE,
   seniorPeerID |-> NoPeer, outgoingBeaconData |-> None,
   outgoingBeaconMsg |-> None, lastReceivedBeaconData |-> None,
   recentlyReceived |-> <<>>, tagCounter |-> 0]

Happens(kind) ==
  /\ \E b \in Bounds : /\ events[kind] < b[kind]
                       /\ \A k \in EventKinds : events[k] <= b[k]
  /\ events' = [events EXCEPT ![kind] = @ + 1]

Init ==
  /\ running = TRUE /\ seniorPeerID = NoPeer /\ mainThreadPeers = {}
  /\ iAmFullyAttached = FALSE /\ computerIsAsleep = FALSE
  /\ setBeaconDataPending = TRUE      \* ZGPeerSession::AttachedToServer()
  /\ databaseStateID = 0 /\ heard = None /\ delivered = <<>>
  /\ sessions = [s \in Sessions |-> NoSession]
  /\ namedUnicastSessions = [p \in Others |-> <<>>] /\ awaited = {}
  /\ thread = NewThread /\ toThread = <<>> /\ toOwner = <<>>
  /\ present = Interfaces /\ air = {}
  /\ sentBeacon = None /\ announcing = [p \in Others |-> 0]
  /\ events = [kind \in EventKinds |-> 0]

----------------------------------------------------------------------------
(* Unicast sessions.  `u' is [sessions, named, awaited].                    *)
Unicast == [sessions |-> sessions, named |-> namedUnicastSessions,
            awaited |-> awaited]
UnicastIs(u) == /\ sessions' = u.sessions
                /\ namedUnicastSessions' = u.named
                /\ awaited' = u.awaited

RegisterUnicastSession(u, s, p) ==
  [u EXCEPT !.sessions[s] = [NoSession EXCEPT !.registered = TRUE,
                                              !.remotePeerID = p],
            !.named = [q \in Others |-> IF q = p THEN Append(@[q], s) ELSE @[q]]]

(* RemoveAllInstancesOf(s) in the queue q.                                  *)
Without(q, s) ==
  LET upTo[i \in 0 .. Len(q)] ==
        IF i = 0 THEN <<>>
        ELSE IF q[i] = s THEN upTo[i - 1] ELSE Append(upTo[i - 1], q[i])
  IN upTo[Len(q)]

UnregisterUnicastSession(u, s) ==
  [u EXCEPT !.sessions[s] = NoSession,
            !.named = [q \in Others |-> Without(@[q], s)]]

(* There is a heartbeat session, and with it a list of peers, except when   *)
(* ClearHeartbeatSession() has been called and SetupHeartbeatSession() has  *)
(* not.                                                                     *)
HeartbeatSession == running /\ ~computerIsAsleep

(* GetUnicastSessionForPeerID(): the first session there is, or a new one   *)
(* to the address the peer's heartbeats come from; {} if there is neither.  *)
GetUnicastSessionForPeerID(u, p) ==
  IF u.named[p] # <<>> THEN {u.named[p][1]}
  ELSE IF ~HeartbeatSession \/ p \notin mainThreadPeers THEN {}
  ELSE {s \in Sessions : ~u.sessions[s].registered}

(* RequestBackOrderFromSeniorPeer(): of the database, which keeps what it   *)
(* waits for, and of the session.                                           *)
RequestBackOrder(u, p, s, key) ==
  LET v == IF u.sessions[s].registered THEN u ELSE RegisterUnicastSession(u, s, p)
  IN [v EXCEPT !.sessions[s].backorders =
                    IF Contains(@, key) THEN @ ELSE Append(@, key),
               !.awaited = @ \cup {<<p, key>>}]

(* PZGDatabaseState::BackOrderResultReceived() for an update that did not   *)
(* come: the whole database is asked for, through the first session to the  *)
(* senior peer -- even if it is this session that is being unregistered.    *)
UpdateFailed(u, p) ==
  IF p # seniorPeerID \/ <<p, "full">> \in u.awaited
  THEN u ELSE RequestBackOrder(u, p, u.named[p][1], "full")

BackOrderResultReceived(u, p, key, ok) ==
  LET v == [u EXCEPT !.awaited = @ \ {<<p, key>>}]
  IN IF key = "update" /\ ~ok THEN UpdateFailed(v, p) ELSE v

(* Mutant: the session forgets its back-orders and tells nobody.            *)
ForgottenBackOrders(u, s) == UnregisterUnicastSession(u, s)

(* UnregisterMyself(): every back-order placed through the session fails,   *)
(* those that are placed while this goes on too.  A session has two at the  *)
(* most.                                                                    *)
BackOrderFails(u, s, n) ==
  IF n > Len(u.sessions[s].backorders) THEN u
  ELSE BackOrderResultReceived(
         u, u.sessions[s].remotePeerID, u.sessions[s].backorders[n], FALSE)

UnregisterMyself(u, s) ==
  UnregisterUnicastSession(BackOrderFails(BackOrderFails(u, s, 1), s, 2), s)

(* EndSession() of one session after the other.                             *)
EndSessions(u, q) ==
  LET after[i \in 0 .. Len(q)] ==
        IF i = 0 THEN u ELSE UnregisterMyself(after[i - 1], q[i])
  IN after[Len(q)]

(* ClearAllUnicastSessions(), in no particular order.                       *)
ClearAllUnicastSessions(u) ==
  EndSessions(u, SetToSeq({s \in Sessions : u.sessions[s].registered}))

----------------------------------------------------------------------------
(* The main thread.                                                         *)

Queued(commands) == toThread' = toThread \o commands

(* ScheduleSetBeaconData() is called whenever this peer becomes or ceases   *)
(* to be the senior peer.                                                   *)
SeniorPeerChanged(new) ==
  /\ seniorPeerID' = new
  /\ setBeaconDataPending' =
       (setBeaconDataPending \/ (seniorPeerID = Self) # (new = Self))
  /\ IF new # seniorPeerID
     THEN Queued(<<Command("SET_SENIOR_PEER_ID", new)>>)
     ELSE UNCHANGED toThread

(* PeerHasGoneOffline() of one peer after the other.                        *)
PeersHaveGoneOffline(u, gone) ==
  LET after[i \in 0 .. Len(gone)] ==
        IF i = 0 THEN u ELSE EndSessions(after[i - 1], after[i - 1].named[gone[i]])
  IN after[Len(gone)]

(* A report of the heartbeat thread: the peers that are on line now, and    *)
(* who is the first of them.  Sessions of those that have gone are ended,   *)
(* under the old senior peer, before the new one is made known.             *)
PeersUpdate(peers, senior) ==
  /\ HeartbeatSession /\ Self \in peers /\ senior \in peers
  /\ Happens("reports")
  /\ UnicastIs(PeersHaveGoneOffline(Unicast,
                                    SetToSeq((mainThreadPeers \ peers) \cap Others)))
  /\ mainThreadPeers' = peers /\ iAmFullyAttached' = TRUE
  /\ SeniorPeerChanged(senior)
  /\ UNCHANGED <<running, computerIsAsleep, databaseStateID, heard, delivered,
                 thread, toOwner, networkVars>>

(* ComputerIsAboutToSleep(): no heartbeats, sessions, senior peer or peers  *)
(* until the computer wakes.                                                *)
ComputerIsAboutToSleep ==
  /\ running /\ ~computerIsAsleep /\ Happens("sleeps")
  /\ UnicastIs(ClearAllUnicastSessions(Unicast))
  /\ SeniorPeerChanged(NoPeer)
  /\ mainThreadPeers' = {} /\ computerIsAsleep' = TRUE
  /\ UNCHANGED <<running, iAmFullyAttached, databaseStateID, heard, delivered,
                 thread, toOwner, networkVars>>

ComputerJustWokeUp ==
  /\ running /\ computerIsAsleep
  /\ computerIsAsleep' = FALSE
  /\ UNCHANGED <<running, seniorPeerID, mainThreadPeers, iAmFullyAttached,
                 setBeaconDataPending, databaseStateID, heard, delivered,
                 unicastVars, thread, toThread, toOwner, networkVars, events>>

TellInternalThreadToRecreateMulticastSockets ==
  Queued(<<Command("RECREATE_SOCKETS", None)>>)

NetworkInterfacesChanged(interfaces) ==
  /\ running /\ interfaces # present /\ Happens("networks")
  /\ present' = interfaces
  /\ TellInternalThreadToRecreateMulticastSockets
  /\ UNCHANGED <<mainVars, unicastVars, thread, toOwner, air,
                 sentBeacon, announcing>>

(* The senior peer's database moves on: the update is multicast and new     *)
(* beacon data is due.                                                      *)
SeniorUpdate ==
  /\ running /\ seniorPeerID = Self /\ Happens("states")
  /\ databaseStateID' = databaseStateID + 1
  /\ Queued(<<Command("UPDATE_JUNIOR_DATABASE", databaseStateID + 1)>>)
  /\ setBeaconDataPending' = TRUE
  /\ UNCHANGED <<running, seniorPeerID, mainThreadPeers, iAmFullyAttached,
                 computerIsAsleep, heard, delivered, unicastVars, thread,
                 toOwner, networkVars>>

(* SendMulticastUserMessageToAllPeers().                                    *)
SendMulticastMessageToAllPeers ==
  /\ running /\ Happens("multicasts")
  /\ Queued(<<Command("USER_MESSAGE", None)>>)
  /\ UNCHANGED <<mainVars, unicastVars, thread, toOwner, networkVars>>

(* ZGPeerSession::Pulse() and SetBeaconData().                              *)
Pulse ==
  /\ running /\ setBeaconDataPending
  /\ setBeaconDataPending' = FALSE
  /\ Queued(<<Command("SET_BEACON_DATA",
                      IF seniorPeerID = Self THEN databaseStateID ELSE None)>>)
  /\ UNCHANGED <<running, seniorPeerID, mainThreadPeers, iAmFullyAttached,
                 computerIsAsleep, databaseStateID, heard, delivered,
                 unicastVars, thread, toOwner, networkVars, events>>

(* Mutant: beacon data of the wrong peer is dropped and that is all.        *)
WrongBeaconDropped ==
  /\ running /\ toOwner # <<>>
  /\ toOwner' = Tail(toOwner)
  /\ LET m == Head(toOwner)
     IN /\ delivered' = IF m.what # "BEACON" THEN Append(delivered, TagOf(m))
                                             ELSE delivered
        /\ heard' = IF m.what = "BEACON" /\ m.from = seniorPeerID
                    THEN m.data ELSE heard
  /\ UNCHANGED <<running, seniorPeerID, mainThreadPeers, iAmFullyAttached,
                 computerIsAsleep, setBeaconDataPending, databaseStateID,
                 toThread, unicastVars, thread, networkVars, events>>

(* MessageReceivedFromInternalThread().  Beacon data of a peer that is not, *)
(* or not any more, the senior peer makes the thread forget it, lest it     *)
(* take the same data from the right peer for old news.                     *)
MessageReceivedFromInternalThread ==
  /\ running /\ toOwner # <<>>
  /\ toOwner' = Tail(toOwner)
  /\ LET m == Head(toOwner)
     IN CASE m.what # "BEACON" ->
               /\ delivered' = Append(delivered, TagOf(m))
               /\ UNCHANGED <<heard, toThread>>
          [] m.what = "BEACON" /\ m.from = seniorPeerID ->
               heard' = m.data /\ UNCHANGED <<delivered, toThread>>
          [] OTHER ->
               /\ Queued(<<Command("INVALIDATE_LAST_RECEIVED_BEACON_DATA", None)>>)
               /\ UNCHANGED <<heard, delivered>>
  /\ UNCHANGED <<running, seniorPeerID, mainThreadPeers, iAmFullyAttached,
                 computerIsAsleep, setBeaconDataPending, databaseStateID,
                 unicastVars, thread, networkVars, events>>

(* The database places a back-order with the senior peer: an update while   *)
(* it does not wait for the whole database, or the whole database.          *)
RequestBackOrderFromSeniorPeer(key) ==
  /\ running /\ seniorPeerID \in Others
  /\ <<seniorPeerID, key>> \notin awaited
  /\ <<seniorPeerID, "full">> \notin awaited
  /\ Happens("requests")
  /\ LET u == Unicast
         found == GetUnicastSessionForPeerID(u, seniorPeerID)
     IN \/ found = {} /\ UNCHANGED unicastVars
        \/ \E s \in found : UnicastIs(RequestBackOrder(u, seniorPeerID, s, key))
  /\ UNCHANGED <<mainVars, thread, toThread, toOwner, networkVars>>

(* SendUnicastMessageToPeer(): opens a session if there is none.            *)
SendUnicastMessageToPeer(p) ==
  /\ running /\ namedUnicastSessions[p] = <<>> /\ Happens("sessions")
  /\ \E s \in GetUnicastSessionForPeerID(Unicast, p) :
       UnicastIs(RegisterUnicastSession(Unicast, s, p))
  /\ UNCHANGED <<mainVars, thread, toThread, toOwner, networkVars>>

(* A TCP connection is accepted from a peer that has yet to say who it is.  *)
CreateSession(s) ==
  /\ running /\ ~sessions[s].registered /\ Happens("sessions")
  /\ UnicastIs(RegisterUnicastSession(Unicast, s, NoPeer))
  /\ UNCHANGED <<mainVars, thread, toThread, toOwner, networkVars>>

(* ANNOUNCE_UNICAST_PEER_ID: it has said who it is.                         *)
AnnounceUnicastPeerID(s, p) ==
  /\ running /\ sessions[s].registered /\ sessions[s].remotePeerID = NoPeer
  /\ UnicastIs(RegisterUnicastSession(UnregisterMyself(Unicast, s), s, p))
  /\ UNCHANGED <<mainVars, thread, toThread, toOwner, networkVars, events>>

(* REPLY_BACK_ORDER: the first order is answered, with what was asked for   *)
(* or without.                                                              *)
ReplyBackOrder(s, ok) ==
  /\ running /\ sessions[s].backorders # <<>>
  /\ UnicastIs(BackOrderResultReceived(
       [Unicast EXCEPT !.sessions[s].backorders = Tail(@)],
       sessions[s].remotePeerID, Head(sessions[s].backorders), ok))
  /\ UNCHANGED <<mainVars, thread, toThread, toOwner, networkVars, events>>

(* A TCP connection breaks, or is never made.                               *)
AboutToDetachFromServer(s) ==
  /\ running /\ sessions[s].registered /\ Happens("sessions")
  /\ UnicastIs(UnregisterMyself(Unicast, s))
  /\ UNCHANGED <<mainVars, thread, toThread, toOwner, networkVars>>

(* ShutdownChildSessions(): waits for the internal thread to end first,     *)
(* and with it all that it knew and all that was under way.                 *)
ShutdownChildSessions ==
  /\ running /\ running' = FALSE
  /\ UnicastIs(ClearAllUnicastSessions(Unicast))
  /\ mainThreadPeers' = {} /\ setBeaconDataPending' = FALSE
  /\ thread' = NewThread /\ toThread' = <<>> /\ toOwner' = <<>> /\ air' = {}
  /\ UNCHANGED <<seniorPeerID, iAmFullyAttached, computerIsAsleep,
                 databaseStateID, heard, delivered, sentBeacon, present,
                 announcing, events>>

----------------------------------------------------------------------------
(* The internal thread: InternalThreadEntry().                              *)

(* CreateMulticastDataIOs(): one for each interface, or, when there is none *)
(* to use, one that hears nobody but this peer.                             *)
CreateMulticastDataIOs == IF present = {} THEN {Loopback} ELSE present

(* New sockets for the interfaces there are; what the old ones held is lost.*)
RecreateMulticastDataIOs ==
  /\ running /\ thread.recreateMulticastDataIORequested
  /\ thread' = [thread EXCEPT !.recreateMulticastDataIORequested = FALSE,
                              !.dios = CreateMulticastDataIOs]
  /\ air' = {}
  /\ UNCHANGED <<mainVars, unicastVars, toThread, toOwner, present, sentBeacon,
                 announcing, events>>

(* Mutant: the Message made of the old beacon data stays in use.            *)
KeepBeaconMessage(data) == [thread EXCEPT !.outgoingBeaconData = data]

(* SET_BEACON_DATA: the Message is made anew the next time it is sent.      *)
SetBeaconData(data) == [thread EXCEPT !.outgoingBeaconData = data,
                                      !.outgoingBeaconMsg = None]

(* A command of the owner.  A Message goes out with the next tag, and comes *)
(* back on each interface.                                                  *)
MessageFromOwner ==
  /\ running /\ ~thread.recreateMulticastDataIORequested /\ toThread # <<>>
  /\ toThread' = Tail(toThread)
  /\ LET c == Head(toThread)
         isMessage == c.what \in {"UPDATE_JUNIOR_DATABASE", "USER_MESSAGE"}
     IN /\ thread' = CASE c.what = "RECREATE_SOCKETS" ->
                           [thread EXCEPT !.recreateMulticastDataIORequested = TRUE]
                      [] isMessage -> [thread EXCEPT !.tagCounter = @ + 1]
                      [] c.what = "SET_SENIOR_PEER_ID" ->
                           [thread EXCEPT !.seniorPeerID = c.arg]
                      [] c.what = "SET_BEACON_DATA" -> SetBeaconData(c.arg)
                      [] c.what = "INVALIDATE_LAST_RECEIVED_BEACON_DATA" ->
                           [thread EXCEPT !.lastReceivedBeaconData = None]
        /\ air' = IF isMessage
                  THEN air \cup ({Packet("MESSAGE", Self, thread'.tagCounter, None)}
                                  \X (thread.dios \cap (present \cup {Loopback})))
                  ELSE air
  /\ UNCHANGED <<mainVars, unicastVars, toOwner, present, sentBeacon, announcing,
                 events>>

(* It is time for a beacon.                                                 *)
SendBeacon ==
  /\ running
  /\ thread.outgoingBeaconData # None /\ ~computerIsAsleep /\ iAmFullyAttached
  /\ thread' = [thread EXCEPT !.outgoingBeaconMsg =
                  IF @ = None THEN thread.outgoingBeaconData ELSE @]
  /\ sentBeacon' = thread'.outgoingBeaconMsg
  /\ UNCHANGED <<mainVars, unicastVars, toThread, toOwner, present, air,
                 announcing, events>>

(* Beacon data is passed on if it comes from the peer that the thread takes *)
(* for senior and is not what was passed on last.                           *)
BeaconReceived(m) ==
  IF m.from = thread.seniorPeerID /\ m.data # thread.lastReceivedBeaconData
  THEN /\ thread' = [thread EXCEPT !.lastReceivedBeaconData = m.data]
       /\ toOwner' = Append(toOwner, m)
  ELSE UNCHANGED <<thread, toOwner>>

(* Mutant: the cache is trimmed one tag too far.                            *)
TrimmedTooFar(tags) ==
  SubSeq(tags, Len(tags) - MaxRecentlyReceived + 2, Len(tags))

(* The tags received of late, the oldest of too many forgotten.             *)
Trimmed(tags) ==
  IF Len(tags) > MaxRecentlyReceived THEN Tail(tags) ELSE tags

(* Any other Message is passed on unless it has been received of late.      *)
MessageReceived(m) ==
  IF Contains(thread.recentlyReceived, TagOf(m)) THEN UNCHANGED <<thread, toOwner>>
  ELSE /\ thread' = [thread EXCEPT !.recentlyReceived =
                                     Trimmed(Append(@, TagOf(m)))]
       /\ toOwner' = Append(toOwner, m)

(* DoInput(): a packet has come in on one of the interfaces.  What this     *)
(* peer has sent comes back to it and is ignored.  (So are the packets of   *)
(* incompatible peers, which might as well not have been sent.)             *)
DoInput(m) ==
  /\ running
  /\ IF m.from = Self THEN UNCHANGED <<thread, toOwner>>
     ELSE IF m.what = "BEACON" THEN BeaconReceived(m) ELSE MessageReceived(m)
  /\ UNCHANGED <<mainVars, unicastVars, toThread, present, sentBeacon,
                 announcing, events>>

----------------------------------------------------------------------------
(* The network.                                                             *)

(* The beacon that a peer keeps sending.                                    *)
Beacon(p) == Packet("BEACON", p, 0, announcing[p])

(* It arrives, now and then, through some interface, ...                    *)
BeaconArrives(p) == /\ thread.dios \cap present # {}
                    /\ DoInput(Beacon(p)) /\ UNCHANGED air

(* ... and a packet that was sent before arrives through interface i, after *)
(* others maybe.                                                            *)
PacketArrives(m, i) == /\ i \in thread.dios /\ <<m, i>> \in air
                       /\ DoInput(m) /\ air' = air \ {<<m, i>>}

(* Another peer sends a Message, or a beacon that will take its time, which *)
(* some interfaces may lose.                                                *)
PacketIsSent(p) ==
  /\ Happens("packets")
  /\ \E m \in {Packet("MESSAGE", p, events["packets"] + 1, None), Beacon(p)},
        some \in (SUBSET present) \ {{}} : air' = air \cup ({m} \X some)
  /\ UNCHANGED <<mainVars, unicastVars, thread, toThread, toOwner, present,
                 sentBeacon, announcing>>

(* Another peer's database moves on.                                        *)
OtherUpdate(p) ==
  /\ Happens("states")
  /\ announcing' = [announcing EXCEPT ![p] = @ + 1]
  /\ UNCHANGED <<mainVars, unicastVars, thread, toThread, toOwner, present,
                 air, sentBeacon>>

MainThread ==
  \/ \E peers \in SUBSET (Others \cup {Self}), senior \in Others \cup {Self} :
       PeersUpdate(peers, senior)
  \/ ComputerIsAboutToSleep
  \/ ComputerJustWokeUp
  \/ \E interfaces \in SUBSET Interfaces : NetworkInterfacesChanged(interfaces)
  \/ SeniorUpdate
  \/ SendMulticastMessageToAllPeers
  \/ Pulse
  \/ MessageReceivedFromInternalThread
  \/ ShutdownChildSessions

UnicastSessions ==
  \/ \E key \in {"update", "full"} : RequestBackOrderFromSeniorPeer(key)
  \/ \E p \in Others : SendUnicastMessageToPeer(p)
  \/ \E s \in Sessions : CreateSession(s)
  \/ \E s \in Sessions, p \in Others : AnnounceUnicastPeerID(s, p)
  \/ \E s \in Sessions, ok \in BOOLEAN : ReplyBackOrder(s, ok)
  \/ \E s \in Sessions : AboutToDetachFromServer(s)

InternalThread ==
  \/ RecreateMulticastDataIOs
  \/ MessageFromOwner
  \/ SendBeacon
  \/ \E p \in Others : BeaconArrives(p)
  \/ \E packet \in air : PacketArrives(packet[1], packet[2])

Network == \E p \in Others : PacketIsSent(p) \/ OtherUpdate(p)

Next == MainThread \/ UnicastSessions \/ InternalThread \/ Network

(* Both threads go on, and of the beacons that a peer keeps sending some    *)
(* arrive.                                                                  *)
Fairness ==
  /\ WF_vars(Pulse) /\ WF_vars(MessageReceivedFromInternalThread)
  /\ WF_vars(RecreateMulticastDataIOs) /\ WF_vars(MessageFromOwner)
  /\ WF_vars(SendBeacon)
  /\ \A p \in Others : WF_vars(BeaconArrives(p))

Spec == Init /\ [][Next]_vars /\ Fairness

----------------------------------------------------------------------------
States == 0 .. Max({b["states"] : b \in Bounds})

(* The ZGPeerSession ends up with the beacon data of the peer that it takes *)
(* for senior, although the thread passes on only what is new and may have  *)
(* asked about another peer: the race that MessageReceivedFromInternal-     *)
(* Thread() settles by INVALIDATE_LAST_RECEIVED_BEACON_DATA.                *)
SeniorIsHeard ==
  \A p \in Others, d \in States :
    <>[](running /\ seniorPeerID = p /\ announcing[p] = d /\ present # {})
      => <>[](heard = d)

(* What a senior peer announces is in the end the state of its database,    *)
(* and a peer that has ceased to be senior falls silent, through sleep,     *)
(* changes of senior peer and the Message that the thread keeps.            *)
BeaconsFollowTheDatabase ==
  /\ \A d \in States :
       <>[](running /\ seniorPeerID = Self /\ databaseStateID = d)
         => <>[](sentBeacon = d)
  /\ <>[](running /\ seniorPeerID # Self) => <>[](thread.outgoingBeaconData = None)

(* The tags of the Messages that the ZGPeerSession will have been given     *)
(* when the queue is empty, if it has been given some already.              *)
PassedOn(given, queue) ==
  LET tags[n \in 0 .. Len(queue)] ==
        IF n = 0 THEN given
        ELSE IF queue[n].what = "BEACON" THEN tags[n - 1]
        ELSE Append(tags[n - 1], TagOf(queue[n]))
  IN tags[Len(queue)]

(* A Message that arrives through several interfaces is delivered once,     *)
(* unless MaxRecentlyReceived others at least have come in between.         *)
DeliveredOnce ==
  LET all == PassedOn(delivered, toOwner)
  IN \A j, k \in DOMAIN all :
       j < k /\ all[j] = all[k] => k - j > MaxRecentlyReceived

(* Whatever the database waits for is on order in exactly one session to    *)
(* the peer it was ordered from, which will answer or fail it, however      *)
(* sessions end; and a session is listed under the peer it belongs to.      *)
BackOrdersAreHeld ==
  LET holders(p, key) == {s \in Sessions : /\ sessions[s].remotePeerID = p
                                           /\ Contains(sessions[s].backorders, key)}
  IN /\ \A p \in Others, key \in {"update", "full"} :
          Cardinality(holders(p, key)) = IF <<p, key>> \in awaited THEN 1 ELSE 0
     /\ \A p \in Others, s \in Sessions :
          Contains(namedUnicastSessions[p], s) <=>
            sessions[s].registered /\ sessions[s].remotePeerID = p

----------------------------------------------------------------------------
(* The inductive invariant behind DeliveredOnce.                            *)

Tags == Others \X Nat
BeaconData == {None} \cup Nat
Packets == [what : {"BEACON", "MESSAGE"}, from : Others \cup {Self}, n : Nat,
            data : BeaconData]
Commands ==
  [what : {"RECREATE_SOCKETS", "USER_MESSAGE",
           "INVALIDATE_LAST_RECEIVED_BEACON_DATA"}, arg : {None}]
  \cup [what : {"UPDATE_JUNIOR_DATABASE"}, arg : Nat]
  \cup [what : {"SET_SENIOR_PEER_ID"}, arg : Others \cup {Self, NoPeer}]
  \cup [what : {"SET_BEACON_DATA"}, arg : BeaconData]
ThreadStates ==
  [dios : SUBSET (Interfaces \cup {Loopback}),
   recreateMulticastDataIORequested : BOOLEAN,
   seniorPeerID : Others \cup {Self, NoPeer},
   outgoingBeaconData : BeaconData, outgoingBeaconMsg : BeaconData,
   lastReceivedBeaconData : BeaconData,
   recentlyReceived : Seq(Tags), tagCounter : Nat]

(* Types of what Messages pass through on their way to the ZGPeerSession.   *)
MulticastTypeOK ==
  /\ running \in BOOLEAN /\ databaseStateID \in Nat
  /\ seniorPeerID \in Others \cup {Self, NoPeer}
  /\ heard \in BeaconData /\ delivered \in Seq(Tags)
  /\ thread \in ThreadStates /\ toThread \in Seq(Commands)
  /\ toOwner \in Seq({m \in Packets : m.from \in Others})
  /\ present \subseteq Interfaces
  /\ air \subseteq Packets \X (Interfaces \cup {Loopback})
  /\ announcing \in [Others -> Nat]
  /\ events \in [EventKinds -> Nat]

(* The thread remembers the tags of the last Messages it has passed on, as  *)
(* many as it may; when it has ended nothing is under way.                  *)
CacheIsRecent ==
  LET all == PassedOn(delivered, toOwner)
      cache == thread.recentlyReceived
  IN IF running
     THEN /\ Len(cache) = IF Len(all) < MaxRecentlyReceived THEN Len(all)
                          ELSE MaxRecentlyReceived
          /\ \A i \in DOMAIN cache : cache[i] = all[Len(all) - Len(cache) + i]
     ELSE toOwner = <<>>

MulticastInvariant == MulticastTypeOK /\ CacheIsRecent /\ DeliveredOnce

----------------------------------------------------------------------------
(* The inductive invariant behind BackOrdersAreHeld.                        *)

(* A session's back-orders: the whole database is never followed by         *)
(* anything.                                                                *)
OrderQueues == {<<>>, <<"update">>, <<"full">>, <<"update", "full">>}

Holds(ss, s, p, key) ==
  ss[s].remotePeerID = p /\ Contains(ss[s].backorders, key)

ListedOnce(q) == \A i, j \in DOMAIN q : q[i] = q[j] => i = j

(* Sessions ss, lists nm of them and back-orders aw that are waited for.    *)
SessionsAreSound(ss) ==
  /\ ss \in [Sessions -> [registered : BOOLEAN, remotePeerID : Others \cup {NoPeer},
                          backorders : OrderQueues]]
  /\ \A s \in Sessions :
       /\ ~ss[s].registered => ss[s].remotePeerID = NoPeer
       /\ ss[s].remotePeerID = NoPeer => ss[s].backorders = <<>>

ListsAreSound(ss, nm) ==
  /\ nm \in [Others -> Seq(Sessions)]
  /\ \A p \in Others : ListedOnce(nm[p])
  /\ \A p \in Others, s \in Sessions :
       Contains(nm[p], s) <=> ss[s].registered /\ ss[s].remotePeerID = p

OrdersAreSound(ss, aw) ==
  /\ aw \subseteq Others \X {"update", "full"}
  /\ \A p \in Others, key \in {"update", "full"} :
       /\ <<p, key>> \in aw <=> \E s \in Sessions : Holds(ss, s, p, key)
       /\ \A s, t \in Sessions : Holds(ss, s, p, key) /\ Holds(ss, t, p, key) => s = t

UnicastInvariant ==
  /\ SessionsAreSound(sessions)
  /\ ListsAreSound(sessions, namedUnicastSessions)
  /\ OrdersAreSound(sessions, awaited)
==========================================================================

----------------------- MODULE DatabaseReplication -----------------------
(***************************************************************************)
(* Replication of one database among the peers of a system: ZGPeerSession  *)
(* and PZGDatabaseState on every peer's main thread, the multicast of      *)
(* updates and beacons (PZGNetworkIOSession), and the back-orders carried  *)
(* by the TCP session between two peers (PZGUnicastSession).               *)
(*                                                                         *)
(* The network.  A multicast packet reaches any subset of the other peers, *)
(* in any order (loss is a packet that is never put in flight).  A request *)
(* or reply on a TCP session is never lost while the session lives; the    *)
(* model handles those of one session in any order, which only adds        *)
(* behaviours.  Two peers have one session, opened when it is needed.      *)
(*                                                                         *)
(* Reign is the part of the system where the senior peer stays up; Next    *)
(* adds peers that crash and the change of senior peer that follows.       *)
(* A restarted process has a new peer ID, so a crashed peer never returns. *)
(***************************************************************************)
EXTENDS PZGDatabaseState

CONSTANTS
  NoPeer,              \* an invalid ZGPeerID
  FirstSenior,         \* the peer that is senior as long as it lives
  FaultKinds,          \* which of the faults below may happen
  MaxFaults,           \* bound on the number of faults in a behaviour
  MaxBeaconsInFlight   \* bound on undelivered beacon packets per receiver

AllFaultKinds ==
  { "session",   \* a TCP session breaks
    "request",   \* a back-order request cannot be sent
    "junior",    \* a junior mis-executes an update or a replacement
    "save",      \* the senior cannot save its database for a back-order
    "senior",    \* the application fails a requested change half-way
    "crash" }    \* a peer's process ends

ASSUME SeniorAssumption ==
  FirstSenior \in Peers /\ \A p \in Peers : FirstSenior <= p
ASSUME NoPeerAssumption == NoPeer \notin Peers
ASSUME FaultAssumption == FaultKinds \subseteq AllFaultKinds /\ MaxFaults \in Nat
ASSUME BeaconAssumption == MaxBeaconsInFlight \in Nat

VARIABLES
  db,             \* db[p]: peer p's PZGDatabaseState
  senior,         \* senior[p]: p's _seniorPeerID
  beaconPending,  \* p's _setBeaconDataPending
  outgoing,       \* the beacon p's I/O thread keeps sending, as a set of at most one
  multicasts,     \* update packets on their way to a peer
  beacons,        \* beacon packets on their way to a peer
  requests,       \* back-order requests on their way to their target
  replies,        \* answers to back-orders on their way to the asker
  alive,          \* peers whose process runs
  faults,         \* number of faults so far
  history         \* every <<state ID, contents>> that a senior peer has held

vars == <<db, senior, beaconPending, outgoing, multicasts, beacons,
          requests, replies, alive, faults, history>>

Multicasts == [from : Peers, to : Peers, up : Updates]
Beacons    == [from : Peers, to : Peers, info : StateInfos]
Requests   == [from : Peers, to : Peers, id : StateIDs \cup {FULL}]
Replies    == [from : Peers, to : Peers, id : StateIDs \cup {FULL}, ups : SUBSET Updates]

TypeOK ==
  /\ db \in [Peers -> DatabaseStates]
  /\ senior \in [Peers -> Peers \cup {NoPeer}]
  /\ beaconPending \in [Peers -> BOOLEAN]
  /\ outgoing \in [Peers -> SUBSET StateInfos]
  /\ multicasts \subseteq Multicasts
  /\ beacons \subseteq Beacons
  /\ requests \subseteq Requests
  /\ replies \subseteq Replies
  /\ alive \subseteq Peers
  /\ faults \in Nat
  /\ history \subseteq StateIDs \X Contents

IAmTheSeniorPeer(p) == senior[p] = p

Held(d) == <<d.stateID, d.contents>>

Fault(kind) ==
  /\ kind \in FaultKinds
  /\ faults < MaxFaults
  /\ faults' = faults + 1

TwoFaults(kind1, kind2) ==
  /\ {kind1, kind2} \subseteq FaultKinds
  /\ faults + 1 < MaxFaults
  /\ faults' = faults + 2

Init ==
  /\ db = [p \in Peers |-> NewDatabaseState]
  /\ senior = [p \in Peers |-> NoPeer]
  /\ beaconPending = [p \in Peers |-> TRUE]
  /\ outgoing = [p \in Peers |-> {}]
  /\ multicasts = {}
  /\ beacons = {}
  /\ requests = {}
  /\ replies = {}
  /\ alive = Peers
  /\ faults = 0
  /\ history = {<<0, DefaultContents>>}

---------------------------------------------------------------------------
(* Joining, and who is senior.  The heartbeat component gives every peer   *)
(* the same order of peers; here it is the order of their IDs.             *)

MostSenior(s) == s \in alive /\ \A q \in alive : s <= q

SeniorPeerChanged(p, s) ==
  /\ senior' = [senior EXCEPT ![p] = s]
  /\ beaconPending' =
       [beaconPending EXCEPT ![p] = @ \/ IAmTheSeniorPeer(p) # (s = p)]
  /\ history' = IF s = p THEN history \cup {Held(db[p])} ELSE history

(* p's first PeerHasComeOnline() and the senior peer it is told of.        *)
PeerHasComeOnline(p) ==
  /\ p \in alive
  /\ ~db[p].attached
  /\ db' = [db EXCEPT ![p] = ScheduleLogContentsRescan([@ EXCEPT !.attached = TRUE])]
  /\ \E s \in Peers : MostSenior(s) /\ SeniorPeerChanged(p, s)
  /\ UNCHANGED <<outgoing, multicasts, beacons, requests, replies, alive, faults>>

(* Mutant: the back-orders placed with the old senior are not failed.      *)
BackOrdersOutliveSenior(p) ==
  LET gone == senior[p]
  IN  /\ p \in alive
      /\ gone \in Peers \ alive
      /\ requests' = {r \in requests : ~(r.from = p /\ r.to = gone)}
      /\ replies' = {r \in replies : ~(r.to = p /\ r.from = gone)}
      /\ \E s \in Peers : MostSenior(s) /\ SeniorPeerChanged(p, s)
      /\ UNCHANGED <<db, outgoing, multicasts, beacons, alive, faults>>

(* The heartbeat session tells p that its senior peer went offline: p's    *)
(* session to it ends, then the senior peer changes.                       *)
SeniorPeerHasGoneOffline(p) ==
  LET gone == senior[p]
  IN  /\ p \in alive
      /\ gone \in Peers \ alive
      /\ db' = [db EXCEPT ![p] = BackOrdersFailed(@, gone)]
      /\ requests' = {r \in requests : ~(r.from = p /\ r.to = gone)}
      /\ replies' = {r \in replies : ~(r.to = p /\ r.from = gone)}
      /\ \E s \in Peers : MostSenior(s) /\ SeniorPeerChanged(p, s)
      /\ UNCHANGED <<outgoing, multicasts, beacons, alive, faults>>

(* A process ends, and with it all it knew and what was on its way to it.  *)
Crash(p) ==
  /\ p \in alive
  /\ Fault("crash")
  /\ alive' = alive \ {p}
  /\ db' = [db EXCEPT ![p] = NewDatabaseState]
  /\ senior' = [senior EXCEPT ![p] = NoPeer]
  /\ beaconPending' = [beaconPending EXCEPT ![p] = FALSE]
  /\ outgoing' = [outgoing EXCEPT ![p] = {}]
  /\ multicasts' = {m \in multicasts : m.to # p}
  /\ beacons' = {b \in beacons : b.to # p}
  /\ requests' = {r \in requests : r.from # p}
  /\ replies' = {r \in replies : r.to # p}
  /\ UNCHANGED history

---------------------------------------------------------------------------
(* Requests to change the database, handled by the senior peer.            *)

(* Mutant: completing an update does not schedule a new beacon.            *)
NoBeaconAfterUpdate(p, newContents, hasPayload) ==
  /\ p \in alive
  /\ IAmTheSeniorPeer(p)
  /\ db[p].stateID < MaxStateID
  /\ db' = [db EXCEPT ![p] = SeniorUpdateCompleted(@, newContents, hasPayload)]
  /\ history' = history \cup {<<db[p].stateID + 1, newContents>>}
  /\ UNCHANGED <<senior, beaconPending, outgoing, multicasts, beacons, requests,
                 replies, alive, faults>>

HandleSuccessfulRequest(p, newContents, hasPayload) ==
  /\ p \in alive
  /\ IAmTheSeniorPeer(p)
  /\ db[p].stateID < MaxStateID
  /\ db' = [db EXCEPT ![p] = SeniorUpdateCompleted(@, newContents, hasPayload)]
  /\ beaconPending' = [beaconPending EXCEPT ![p] = TRUE]
  /\ history' = history \cup {<<db[p].stateID + 1, newContents>>}
  /\ UNCHANGED <<senior, outgoing, multicasts, beacons, requests, replies, alive, faults>>

HandleResetRequest(p) == HandleSuccessfulRequest(p, DefaultContents, FALSE)

HandleReplaceOrUpdateRequest(p) ==
  \E c \in Contents : HandleSuccessfulRequest(p, c, TRUE)

(* SetLocalDatabaseFromMessage() or SeniorUpdateLocalDatabase() fails.     *)
HandleFailingRequest(p) ==
  /\ p \in alive
  /\ IAmTheSeniorPeer(p)
  /\ db[p].stateID < MaxStateID
  /\ Fault("senior")
  /\ \E c \in Contents :
       /\ db' = [db EXCEPT ![p] = SeniorUpdateRolledBack(@, c)]
       /\ history' = history \cup {<<db[p].stateID, c>>}
  /\ UNCHANGED <<senior, beaconPending, outgoing, multicasts, beacons,
                 requests, replies, alive>>

---------------------------------------------------------------------------
(* RescanUpdateLog() and the back-orders it places.                        *)

(* A request that cannot be sent stops the loop over the missing IDs; the  *)
(* full database is asked for instead, and that may fail as well.          *)
PossibleOrders(wanted) ==
  {wanted} \cup
    {{i \in wanted : i < stop} \cup fallback :
       stop \in wanted,
       fallback \in IF FULL \in wanted THEN {{}} ELSE {{}, {FULL}}}

(* p, whose state is d by now, asks its senior peer for `wanted', of which *)
(* `placed' is what gets sent.                                             *)
RequestBackOrders(p, d, wanted, placed) ==
  /\ IF placed = wanted THEN UNCHANGED faults ELSE Fault("request")
  /\ requests' = requests \cup
       [from : {p}, to : {senior[p]}, id : NotOnOrder(d, senior[p], placed)]

(* How a junior's rescan ends: it orders what it lacks and trims its log.  *)
OrderAndTrim(p, d, wanted) ==
  \E placed \in PossibleOrders(wanted) :
    LET e == OnOrder(d, senior[p], placed) IN
    /\ RequestBackOrders(p, d, wanted, placed)
    /\ db' = [db EXCEPT ![p] =
                TrimUpdateLog(e, StillNeededUpdates(e, senior[p]), FALSE)]

(* Every packet reaches some of the other peers that run.                  *)
SeniorRescan(p) ==
  /\ IAmTheSeniorPeer(p)
  /\ \E got \in SUBSET (UnsentUpdates(db[p]) \X (alive \ {p})) :
       multicasts' = multicasts \cup
         {[from |-> p, to |-> g[2], up |-> db[p].updateLog[g[1]]] : g \in got}
  /\ db' = [db EXCEPT ![p] = SeniorRescanned(@)]
  /\ UNCHANGED <<requests, faults>>

(* A junior that has seen no beacon does not know where to go.             *)
UninformedRescan(p) ==
  /\ ~IAmTheSeniorPeer(p)
  /\ ~db[p].seniorReceived
  /\ db' = [db EXCEPT ![p].rescanPending = FALSE]
  /\ UNCHANGED <<multicasts, requests, faults>>

JuniorRescan(p) ==
  LET d == [db[p] EXCEPT !.rescanPending = FALSE, !.firstUnsent = db[p].stateID + 1]
      s == senior[p]
      target == GetTargetDatabaseStateID(d)
      Waits ==
        /\ IsAwaitingFullDatabaseResendReply(d, s)
        /\ OrderAndTrim(p, d, {})
      DownloadsInitialState ==
        /\ ~IsAwaitingFullDatabaseResendReply(d, s)
        /\ d.stateID = 0 /\ target > 1
        /\ OrderAndTrim(p, d, {FULL})
      Replays ==
        /\ ~IsAwaitingFullDatabaseResendReply(d, s)
        /\ ~(d.stateID = 0 /\ target > 1)
        /\ \E n \in {d.stateID} \cup (d.stateID .. target) :
             LET e == ReplayedTo(d, n) IN
             /\ CanReplayTo(d, n)
             /\ \/ \* the target is reached
                   n >= target /\ OrderAndTrim(p, e, {})
                \/ \* update n+1 was not made from these contents
                   /\ n < target /\ n + 1 \in DOMAIN d.updateLog
                   /\ d.updateLog[n + 1].pre # e.contents
                   /\ OrderAndTrim(p, e, {FULL})
                \/ \* update n+1 is missing
                   /\ n < target /\ n + 1 \notin DOMAIN d.updateLog
                   /\ OrderAndTrim(p, e, NotOnOrder(e, s, MissingUpdates(e, n)))
  IN  /\ ~IAmTheSeniorPeer(p)
      /\ db[p].seniorReceived
      /\ Waits \/ DownloadsInitialState \/ Replays
      /\ UNCHANGED multicasts

(* Mutant: a junior that mis-executes starts again from the default state. *)
MisexecutionStartsOver(p) ==
  LET d == [db[p] EXCEPT !.rescanPending = FALSE, !.stateID = 0,
                         !.contents = DefaultContents]
      s == senior[p]
  IN  /\ ~IAmTheSeniorPeer(p)
      /\ db[p].seniorReceived
      /\ ~IsAwaitingFullDatabaseResendReply(db[p], s)
      /\ db[p].stateID < GetTargetDatabaseStateID(d)
      /\ CanReplayTo(db[p], db[p].stateID + 1)
      /\ Fault("junior")
      /\ db' = [db EXCEPT ![p] = OnOrder(d, s, {FULL})]
      /\ requests' = requests \cup {[from |-> p, to |-> s, id |-> FULL]}
      /\ UNCHANGED multicasts

(* As Replays, but executing update n+1 fails or leaves contents that do   *)
(* not match the update's post-update checksum.  The full database is      *)
(* asked for, and that may fail as well.                                   *)
JuniorRescanMisexecutes(p) ==
  LET d == [db[p] EXCEPT !.rescanPending = FALSE, !.firstUnsent = db[p].stateID + 1]
      s == senior[p]
      target == GetTargetDatabaseStateID(d)
  IN  /\ ~IAmTheSeniorPeer(p)
      /\ db[p].seniorReceived
      /\ ~IsAwaitingFullDatabaseResendReply(d, s)
      /\ ~(d.stateID = 0 /\ target > 1)
      /\ \E n \in d.stateID .. (target - 1), c \in Contents, placed \in {{FULL}, {}} :
           LET e == OnOrder([ReplayedTo(d, n) EXCEPT !.contents = c], s, placed)
           IN  /\ CanReplayTo(d, n + 1)
               /\ IF placed = {} THEN TwoFaults("junior", "request") ELSE Fault("junior")
               /\ db' = [db EXCEPT ![p] =
                           TrimUpdateLog(e, StillNeededUpdates(e, s), FALSE)]
               /\ requests' = requests \cup [from : {p}, to : {s}, id : placed]
      /\ UNCHANGED multicasts

RescanUpdateLog(p) ==
  \/ SeniorRescan(p)
  \/ UninformedRescan(p)
  \/ JuniorRescan(p)
  \/ JuniorRescanMisexecutes(p)

(* PZGDatabaseState::Pulse().                                              *)
RescanUpdateLogIfNecessary(p) ==
  /\ p \in alive
  /\ db[p].rescanPending
  /\ RescanUpdateLog(p)
  /\ UNCHANGED <<senior, beaconPending, outgoing, beacons, replies, alive, history>>

(* ZGPeerSession::Pulse(): unsent updates go out before the beacon that    *)
(* mentions them.                                                          *)
SetBeaconData(p) ==
  /\ p \in alive
  /\ beaconPending[p]
  /\ beaconPending' = [beaconPending EXCEPT ![p] = FALSE]
  /\ IF db[p].rescanPending THEN RescanUpdateLog(p)
       ELSE UNCHANGED <<db, multicasts, requests, faults>>
  /\ outgoing' = [outgoing EXCEPT ![p] =
       IF IAmTheSeniorPeer(p) THEN {GetDatabaseStateInfo(db'[p])} ELSE {}]
  /\ UNCHANGED <<senior, beacons, replies, alive, history>>

---------------------------------------------------------------------------
(* Deliveries.                                                             *)

(* The I/O thread sends its beacon again and again; one gets through to q. *)
SendBeacon(p, q) ==
  /\ {p, q} \subseteq alive /\ p # q
  /\ Cardinality({b \in beacons : b.to = q}) < MaxBeaconsInFlight
  /\ \E info \in outgoing[p] :
       beacons' = beacons \cup {[from |-> p, to |-> q, info |-> info]}
  /\ UNCHANGED <<db, senior, beaconPending, outgoing, multicasts, requests,
                 replies, alive, faults, history>>

BeaconDataChanged(b) ==
  /\ b \in beacons
  /\ beacons' = beacons \ {b}
  /\ db' = IF senior[b.to] = b.from
             THEN [db EXCEPT ![b.to] = SeniorDatabaseStateInfoChanged(@, b.info)]
             ELSE db
  /\ UNCHANGED <<senior, beaconPending, outgoing, multicasts, requests,
                 replies, alive, faults, history>>

(* An update for juniors counts only on a junior, from its senior peer.    *)
HandleJuniorUpdate(m) ==
  /\ m \in multicasts
  /\ multicasts' = multicasts \ {m}
  /\ db' = IF senior[m.to] = m.from /\ ~IAmTheSeniorPeer(m.to)
             THEN [db EXCEPT ![m.to] = AddDatabaseUpdateToUpdateLog(@, m.up, FALSE)]
             ELSE db
  /\ UNCHANGED <<senior, beaconPending, outgoing, beacons, requests,
                 replies, alive, faults, history>>

(* A peer answers a back-order whether or not it takes itself for senior.  *)
HandleBackOrderRequest(r) ==
  /\ r \in requests
  /\ r.to \in alive
  /\ requests' = requests \ {r}
  /\ \/ /\ replies' = replies \cup
             {[from |-> r.to, to |-> r.from, id |-> r.id,
               ups |-> GetDatabaseUpdateByID(db[r.to], r.id)]}
        /\ history' = IF r.id = FULL THEN history \cup {Held(db[r.to])} ELSE history
        /\ UNCHANGED faults
     \/ /\ r.id = FULL
        /\ Fault("save")
        /\ replies' = replies \cup
             {[from |-> r.to, to |-> r.from, id |-> FULL, ups |-> {}]}
        /\ UNCHANGED history
  /\ UNCHANGED <<db, senior, beaconPending, outgoing, multicasts, beacons, alive>>

BackOrderResultReceived(r) ==
  LET p == r.to
      key == <<r.from, r.id>>
      d == [db[p] EXCEPT !.backorders = @ \ {key}]
      Applies == key \in db[p].backorders /\ senior[p] = r.from /\ ~IAmTheSeniorPeer(p)
      Becomes(e) == db' = [db EXCEPT ![p] = e] /\ UNCHANGED requests
      IsIgnored ==
        /\ ~Applies
        /\ Becomes(d) /\ UNCHANGED faults
      FullDatabaseMissing ==    \* "now what do we do?"
        /\ Applies /\ r.id = FULL /\ r.ups = {}
        /\ Becomes(d) /\ UNCHANGED faults
      FullDatabaseArrives ==
        /\ Applies /\ r.id = FULL
        /\ \E up \in r.ups : Becomes(ScheduleLogContentsRescan(JuniorReplaced(d, up)))
        /\ UNCHANGED faults
      FullDatabaseFails ==      \* error, or contents that do not match the checksum
        /\ Applies /\ r.id = FULL /\ r.ups # {}
        /\ Fault("junior")
        /\ \E c \in Contents : Becomes([d EXCEPT !.contents = c])
      UpdateArrives ==
        /\ Applies /\ r.id # FULL
        /\ \E up \in r.ups : Becomes(AddDatabaseUpdateToUpdateLog(d, up, FALSE))
        /\ UNCHANGED faults
      UpdateMissing ==
        /\ Applies /\ r.id # FULL /\ r.ups = {}
        /\ \E placed \in PossibleOrders(NotOnOrder(d, senior[p], {FULL})) :
             /\ RequestBackOrders(p, d, NotOnOrder(d, senior[p], {FULL}), placed)
             /\ db' = [db EXCEPT ![p] = OnOrder(d, senior[p], placed)]
  IN  /\ r \in replies
      /\ replies' = replies \ {r}
      /\ \/ IsIgnored \/ FullDatabaseMissing \/ FullDatabaseArrives
         \/ FullDatabaseFails \/ UpdateArrives \/ UpdateMissing
      /\ UNCHANGED <<senior, beaconPending, outgoing, multicasts, beacons, alive, history>>

(* The TCP session between p and q breaks while back-orders are out.       *)
UnicastSessionEnds(p, q) ==
  /\ {p, q} \subseteq alive /\ p # q
  /\ \E id \in StateIDs \cup {FULL} : <<q, id>> \in db[p].backorders
  /\ Fault("session")
  /\ db' = [db EXCEPT ![p] = BackOrdersFailed(@, q), ![q] = BackOrdersFailed(@, p)]
  /\ requests' = {r \in requests : {r.from, r.to} # {p, q}}
  /\ replies' = {r \in replies : {r.from, r.to} # {p, q}}
  /\ UNCHANGED <<senior, beaconPending, outgoing, multicasts, beacons, alive, history>>

---------------------------------------------------------------------------
ReignNext ==
  \/ \E p \in Peers :
       \/ PeerHasComeOnline(p)
       \/ HandleResetRequest(p)
       \/ HandleReplaceOrUpdateRequest(p)
       \/ HandleFailingRequest(p)
       \/ RescanUpdateLogIfNecessary(p)
       \/ SetBeaconData(p)
  \/ \E p, q \in Peers : SendBeacon(p, q) \/ UnicastSessionEnds(p, q)
  \/ \E b \in beacons : BeaconDataChanged(b)
  \/ \E m \in multicasts : HandleJuniorUpdate(m)
  \/ \E r \in requests : HandleBackOrderRequest(r)
  \/ \E r \in replies : BackOrderResultReceived(r)

Next ==
  \/ ReignNext
  \/ \E p \in Peers : Crash(p) \/ SeniorPeerHasGoneOffline(p)

ReignSpec == Init /\ [][ReignNext]_vars
Spec == Init /\ [][Next]_vars

(* A pending rescan or beacon wakes the main thread at once (GetPulseTime  *)
(* returns 0); TCP delivers while a session lives; a beacon is repeated    *)
(* for ever, so not every copy of it is lost.  Nothing is assumed of the   *)
(* multicast of updates, nor that anyone asks for changes.                 *)
Fairness ==
  /\ \A p \in Peers : WF_vars(PeerHasComeOnline(p))
  /\ \A p \in Peers : WF_vars(RescanUpdateLogIfNecessary(p))
  /\ \A p \in Peers : WF_vars(SetBeaconData(p))
  /\ \A p, q \in Peers : WF_vars(SendBeacon(p, q))
  /\ WF_vars(\E b \in beacons : BeaconDataChanged(b))
  /\ WF_vars(\E m \in multicasts : HandleJuniorUpdate(m))
  /\ WF_vars(\E r \in requests : HandleBackOrderRequest(r))
  /\ WF_vars(\E r \in replies : BackOrderResultReceived(r))

FairReignSpec == ReignSpec /\ Fairness

---------------------------------------------------------------------------
(* Properties of every behaviour.                                          *)

(* The condition on every step of the property below.                      *)
VerifiedStep ==
  \A p \in Peers :
    db'[p].stateID # db[p].stateID =>
      \/ Held(db'[p]) \in history'
      \/ IsAwaitingFullDatabaseResendReply(db'[p], senior[p])
      \/ faults' = faults + 2

(* A peer's database only ever moves to a state ID together with contents  *)
(* that a peer acting as senior has held at that very state ID, whatever   *)
(* was lost, reordered, replayed twice or left over from an earlier senior *)
(* (the checksum checks of JuniorExecuteDatabaseUpdate() and               *)
(* JuniorExecuteDatabaseReplace()).  The exception is a rescan that goes   *)
(* on to mis-execute the next update: it asks for the full database, and   *)
(* only a second fault in the same step can keep it from doing so.         *)
OnlyVerifiedStates == [][VerifiedStep]_vars

(* A running peer's outstanding back-order has its request or its reply    *)
(* under way.                                                              *)
NobodyWaitsInVain ==
  \A p \in alive : \A b \in db[p].backorders :
    \/ [from |-> p, to |-> b[1], id |-> b[2]] \in requests
    \/ \E r \in replies : r.from = b[1] /\ r.to = p /\ r.id = b[2]

(* Every request and every reply belongs to an outstanding back-order of   *)
(* the peer that asked, and no back-order has two of them under way.       *)
OneAnswerPerBackOrder ==
  /\ \A r \in requests : <<r.to, r.id>> \in db[r.from].backorders
  /\ \A r \in replies : <<r.from, r.id>> \in db[r.to].backorders
  /\ \A q \in requests, r \in replies :
       ~(q.from = r.to /\ q.to = r.from /\ q.id = r.id)
  /\ \A q, r \in replies :
       q.from = r.from /\ q.to = r.to /\ q.id = r.id => q = r

(* Nobody waits for a back-order that nobody will answer, nothing is under *)
(* way that nobody waits for, and nothing twice: each outstanding          *)
(* back-order has exactly one request or reply under way                   *)
(* (PZGDatabaseState::_backorders against PZGUnicastSession's traffic).    *)
BackOrdersAreUnderWay == NobodyWaitsInVain /\ OneAnswerPerBackOrder

(* The unsigned byte count of a log never drops below the bytes that are   *)
(* in the log, so no subtraction from it ever wraps around.                *)
NoByteCountUnderflow ==
  \A p \in Peers : BytesIn(db[p].updateLog, 1 .. MaxStateID) <= db[p].totalBytes

(* The byte count of a log is exactly the bytes in the log, as the         *)
(* declaration of _totalPayloadBytesInLog says.                            *)
ByteCountIsExact ==
  \A p \in Peers : BytesIn(db[p].updateLog, 1 .. MaxStateID) = db[p].totalBytes

DatabasesAreSound == \A p \in Peers : SoundDatabaseState(db[p], history)

SeniorStatesAreHeld == \A p \in Peers : IAmTheSeniorPeer(p) => Held(db[p]) \in history

UnattachedPeersAreBlank == \A p \in Peers : senior[p] = NoPeer => db[p] = NewDatabaseState

UpdatesUnderWayAreHeld ==
  /\ \A m \in multicasts : m.up.id > 0 /\ <<m.up.id, m.up.post>> \in history
  /\ \A r \in replies : \A up \in r.ups :
       /\ <<up.id, up.post>> \in history
       /\ r.id # FULL => up.id > 0

(* The inductive invariant behind the theorems: whatever peers hold, keep  *)
(* in logs or have under way names states that a peer acting as senior has *)
(* held, so no order of deliveries and no failover can add another one.    *)
EverythingComesFromASenior ==
  /\ TypeOK
  /\ <<0, DefaultContents>> \in history
  /\ DatabasesAreSound
  /\ SeniorStatesAreHeld
  /\ UnattachedPeersAreBlank
  /\ UpdatesUnderWayAreHeld

---------------------------------------------------------------------------
(* Properties of the reign of one senior peer.                             *)

AllUpdates ==
  (UNION {{db[p].updateLog[k] : k \in DOMAIN db[p].updateLog} : p \in Peers})
    \cup {m.up : m \in multicasts}
    \cup (UNION {r.ups : r \in {r \in replies : r.id # FULL}})

(* There is one update per state ID: all copies of it, in logs and on the  *)
(* network, are the same, so it makes no difference whether a junior gets  *)
(* it by multicast, by back-order or by both.  In particular an update     *)
(* that the senior rolled back was seen by nobody.                         *)
OneUpdatePerStateID ==
  \A u, v \in AllUpdates : u.id = v.id => u = v

(* The log is within its budget; a log of one entry may be of any size.    *)
WithinBudget(d) ==
  \/ BytesIn(d.updateLog, 1 .. MaxStateID) <= MaxPayloadBytesInLog
  \/ Cardinality(DOMAIN d.updateLog) <= 1

(* A log that is over its budget is not left like that.  Either a rescan,  *)
(* which ends with trimming, is pending; or the peer is a junior that      *)
(* waits for the first beacon or for what it has ordered: each of these    *)
(* leads to another rescan (ScheduleLogContentsRescan()'s callers).  After *)
(* a fault a junior may wait for nothing but the next change of the beacon *)
(* with its log over the budget.                                           *)
LogsFitTheBudget ==
  \A p \in alive :
    \/ WithinBudget(db[p])
    \/ db[p].rescanPending
    \/ ~IAmTheSeniorPeer(p) /\ (~db[p].seniorReceived \/ db[p].backorders # {})
    \/ faults > 0

(* What LogsFitTheBudget rests on: every message finds its receiver        *)
(* attached, only juniors place orders, and the full database comes when   *)
(* it was ordered.                                                         *)
OrdersAreMet ==
  /\ \A p \in Peers : senior[p] # NoPeer => db[p].attached
  /\ db[FirstSenior].backorders = {}
  /\ \A r \in replies : r.id = FULL /\ r.ups = {} => faults > 0

(* The inductive invariant of the reign: nothing and nobody is ahead of    *)
(* the senior peer, whose next update therefore has a fresh state ID; only *)
(* the senior peer is asked; and a full database that is under way is not  *)
(* older than what the junior that waits for it has.                       *)
NothingIsAheadOfTheSenior ==
  /\ alive = Peers
  /\ \A p \in Peers : senior[p] \in {NoPeer, FirstSenior}
  /\ \A p \in Peers : db[p].stateID <= db[FirstSenior].stateID
  /\ \A u \in AllUpdates : u.id <= db[FirstSenior].stateID
  /\ \A r \in requests : r.to = FirstSenior
  /\ \A r \in replies :
       /\ r.from = FirstSenior
       /\ \A up \in r.ups : up.id <= db[FirstSenior].stateID
       /\ r.id = FULL /\ r.to # FirstSenior =>
            \A up \in r.ups : db[r.to].stateID <= up.id

(* Nothing is pending or under way, and every junior has the senior's      *)
(* current beacon.                                                         *)
Quiet ==
  /\ \E s \in alive : \A p \in alive : db[p].attached /\ senior[p] = s
  /\ \A p \in alive : ~db[p].rescanPending /\ ~beaconPending[p]
  /\ {m \in multicasts : m.to \in alive} = {}
  /\ requests = {} /\ replies = {}
  /\ \A p \in alive : LET s == senior[p] IN
       p # s => /\ db[p].seniorStateID = db[s].stateID
                /\ db[p].seniorOldest = FirstKey(db[s].updateLog)

(* When all is quiet, every junior holds the senior's database.            *)
QuietPeersAgree ==
  Quiet => \A p \in alive : Held(db[p]) = Held(db[senior[p]])

(* Every junior ends up with, and keeps, the senior's database (requests   *)
(* for changes end because MaxStateID bounds them): "the system will        *)
(* immediately recognize the problem and automatically take steps to        *)
(* recover from it", as the developers' guide has it.                       *)
RecoversFromEveryError ==
  <>[](\A p \in Peers : Held(db[p]) = Held(db[FirstSenior]))

(* As long as there is no fault, the same: packets that are lost, however   *)
(* many, are made up for by beacons, back-orders and full resends           *)
(* (PZGDatabaseState::RescanUpdateLog).  With a fault it need not be: a     *)
(* full-database request that fails is not repeated.                        *)
Convergence == [](faults = 0) => RecoversFromEveryError

---------------------------------------------------------------------------
(* The reign implements the replicated database it promises.               *)
Replicated ==
  INSTANCE ReplicatedDatabase WITH
    Senior <- FirstSenior,
    replica <- [p \in Peers |-> Held(db[p])],
    states <- history,
    mishaps <- faults

(* Seen from the databases alone, everything the peers and the network do  *)
(* is the senior peer executing updates and juniors moving forwards to     *)
(* states of the senior, or being damaged by an update they mis-execute.   *)
ImplementsReplicatedDatabase == Replicated!ReplicaSpec

===========================================================================

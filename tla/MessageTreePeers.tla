------------------------- MODULE MessageTreePeers -------------------------
(***************************************************************************)
(* The peers of a message-tree system and the clients connected to them.   *)
(* Each client session keeps data in its own peer, and                     *)
(* ClientDataMessageTreeDatabaseObject mirrors that data, under            *)
(* peer/address/session, in a database that all peers share: every upload  *)
(* and deletion is also a request to the senior peer; a new senior peer,   *)
(* or one that sees a peer come online, asks for the data again; a senior  *)
(* peer that sees a peer go offline deletes what that peer had shared.     *)
(* MessageTreeDatabasePeerSession routes these requests, the pings that    *)
(* travel through the database, and the messages between subscribers.      *)
(*                                                                         *)
(* The replication of the shared database is what DatabaseReplication      *)
(* shows of it: a junior peer executes its senior peer's updates in order, *)
(* or takes over the whole state.  The peers on line are what              *)
(* HeartbeatElection delivers: a set, whose eldest member is senior.       *)
(***************************************************************************)
EXTENDS Integers, Sequences, FiniteSets, SequencesExt

CONSTANTS
  Peers,         \* numbers, by age: the lowest one is the eldest
  Sessions,      \* client sessions
  Home,          \* Home[s]: the peer that session s connects to
  Address,       \* Address[s]: the IP address it connects from
  Nodes,         \* names of the nodes that clients upload
  Values,        \* payloads
  Workloads      \* who runs at the start (founders), what clients do (kinds)
                 \* and how often (ops), and how many crashes, starts of
                 \* other peers and losses of heartbeats there are

ASSUME PeersAssumption ==
  /\ Peers \subseteq Nat \ {0}
  /\ \A w \in Workloads : w.founders \in (SUBSET Peers) \ {{}}
  /\ Home \in [Sessions -> Peers]
  /\ IsFiniteSet(Peers) /\ IsFiniteSet(Sessions)

NoPeer == 0                                \* ZGPeerID()
EmptyPayload == "no payload"

Eldest(P) == CHOOSE p \in P : \A q \in P : p <= q

VARIABLES
  up,            \* the running peers
  online,        \* online[p]: the peers on line, as p's main thread knows
  senior,        \* senior[p]: _seniorPeerID of p
  chan,          \* chan[p][q]: messages from p to q; chan[p][p] is p's
                 \* _messagesSentToSelf
  pulsing,       \* the peers that are emptying _messagesSentToSelf
  attached,      \* the client sessions connected to their peers
  local,         \* local[s]: the data of session s in its own peer
  log,           \* log[p]: the updates of the shared database p executed
  tree,          \* tree[p]: the nodes of p's copy of it, with payloads
  ponged,        \* the pings that were answered
  heard,         \* <<peer, message>> that reached a subscriber
  answered,      \* answered[p]: the peer p last sent its local data to
  astray,        \* peers that since then sent a request to another peer
  unnoticed,     \* peers that crashed while the senior peer had them off line
  budget         \* what is left of the workload

vars == <<up, online, senior, chan, pulsing, attached, local, log, tree,
          ponged, heard, answered, astray, unnoticed, budget>>

viewVars    == <<up, online, senior, unnoticed>>
clientVars  == <<attached, local>>
ghostVars   == <<ponged, heard, answered, astray>>

---------------------------------------------------------------------------
(* The shared tree.                                                        *)

(* GetSharedPathFromLocalPath.                                             *)
SharedPath(s, names) == <<Home[s], Address[s], s>> \o names

UpTo(path) == {SubSeq(path, 1, i) : i \in 1..Len(path)}
Under(paths, t) == {x \in DOMAIN t : UpTo(x) \cap paths # {}}
HasKids(path, t) == \E x \in DOMAIN t : Len(x) = Len(path) + 1 /\ IsPrefix(path, x)

Put(path, payload, t) ==
  [x \in DOMAIN t \cup UpTo(path) |->
     IF x = path THEN payload ELSE IF x \in DOMAIN t THEN t[x] ELSE EmptyPayload]

Without(paths, t) == [x \in DOMAIN t \ Under(paths, t) |-> t[x]]

(* HandleSubtreeUpdateMessage: nodes are added and overwritten, none goes. *)
PutAll(path, nodes, t) ==
  LET kids == {Append(path, n) : n \in DOMAIN nodes}
      base == Put(path, EmptyPayload, t)
  IN  [x \in DOMAIN base \cup kids |-> IF x \in kids THEN nodes[Last(x)] ELSE base[x]]

Apply(u, t) ==
  CASE u.op = "put"    -> Put(u.path, u.payload, t)
    [] u.op = "putAll" -> PutAll(u.path, u.nodes, t)
    [] u.op = "delete" -> Without(u.paths, t)
    [] u.op = "prune"  -> IF HasKids(u.path, t) THEN t ELSE Without({u.path}, t)
    [] u.op = "ping"   -> t

---------------------------------------------------------------------------
(* Messages.                                                               *)

Update(src, id, u) == [type |-> "update", src |-> src, id |-> id, update |-> u]
Upload(path, payload) == [op |-> "put", path |-> path, payload |-> payload]
UploadSubtree(path, nodes) == [op |-> "putAll", path |-> path, nodes |-> nodes]
Delete(paths) == [op |-> "delete", paths |-> paths]
DeleteIfNoKids(path) == [op |-> "prune", path |-> path]
Ping(to) == [op |-> "ping", to |-> to]
UploadLocalData == [type |-> "uploadLocalData"]

(* SendUnicastMessageToPeer: what is sent to a peer that is no more is     *)
(* lost with its TCP connection.                                           *)
SendUnicastMessageToPeer(c, p, q, msgs) ==
  IF q \in up THEN [c EXCEPT ![p][q] = @ \o msgs] ELSE c

(* SendUnicastMessageToAllPeers, to p itself too.                          *)
SendUnicastMessageToAllPeers(c, p, known, msg) ==
  [c EXCEPT ![p] = [q \in Peers |-> IF q \in known \cap up THEN Append(c[p][q], msg)
                                    ELSE c[p][q]]]

(* SendRequestToSeniorPeer, on behalf of a client of p or of p itself.     *)
SendRequestToSeniorPeer(c, p, id, updates) ==
  IF senior[p] = NoPeer THEN c
  ELSE SendUnicastMessageToPeer(c, p, senior[p],
         [i \in DOMAIN updates |-> Update(p, id, updates[i])])

IAmTheSeniorPeer(p) == senior[p] = p

(* Outside the loop of Pulse() a peer serves whatever comes next.          *)
Serving(p) == p \in up /\ p \notin pulsing

---------------------------------------------------------------------------
(* Clients.                                                                *)

(* A client of peer p does something of the given kind.                    *)
Client(p, kind) ==
  /\ Serving(p)
  /\ kind \in budget.kinds
  /\ budget.done < budget.ops
  /\ budget' = [budget EXCEPT !.done = @ + 1]

Request(p, updates) ==
  /\ senior[p] # NoPeer
  /\ chan' = SendRequestToSeniorPeer(chan, p, budget.done + 1, updates)
  /\ astray' = IF senior[p] = answered[p] THEN astray ELSE astray \cup {p}

UploadNodeValue(s, n, v) ==
  /\ s \in attached
  /\ Client(Home[s], "upload")
  /\ Request(Home[s], <<Upload(SharedPath(s, <<n>>), v)>>)
  /\ local' = [local EXCEPT ![s] = [x \in DOMAIN @ \cup {n} |-> IF x = n THEN v ELSE @[x]]]
  /\ UNCHANGED <<viewVars, pulsing, attached, log, tree, ponged, heard, answered>>

(* TreeGateway_UploadNodeSubtree of all of a session's data: what was      *)
(* there is deleted first.                                                 *)
UploadNodeSubtree(s, v) ==
  LET nodes == [n \in Nodes |-> v] IN
  /\ s \in attached
  /\ Client(Home[s], "subtree")
  /\ Request(Home[s], <<Delete({SharedPath(s, <<>>)}), UploadSubtree(SharedPath(s, <<>>), nodes)>>)
  /\ local' = [local EXCEPT ![s] = nodes]
  /\ UNCHANGED <<viewVars, pulsing, attached, log, tree, ponged, heard, answered>>

RequestDeleteNodes(s, n) ==
  /\ s \in attached
  /\ Client(Home[s], "delete")
  /\ Request(Home[s], <<Delete({SharedPath(s, <<n>>)})>>)
  /\ local' = [local EXCEPT ![s] = [x \in DOMAIN @ \ {n} |-> @[x]]]
  /\ UNCHANGED <<viewVars, pulsing, attached, log, tree, ponged, heard, answered>>

SessionAttached(s) ==
  /\ s \notin attached
  /\ Client(Home[s], "attach")
  /\ attached' = attached \cup {s}
  /\ local' = [local EXCEPT ![s] = <<>>]
  /\ UNCHANGED <<viewVars, chan, pulsing, log, tree, ghostVars>>

(* ServerSideMessageTreeSessionIsDetaching: the session's node goes, and   *)
(* the address and the peer above it if nothing is left below them.        *)
ServerSideMessageTreeSessionIsDetaching(s) ==
  LET path == SharedPath(s, <<>>)
      updates == <<Delete({path}), DeleteIfNoKids(SubSeq(path, 1, 2)),
                   DeleteIfNoKids(SubSeq(path, 1, 1))>>
  IN
  /\ s \in attached
  /\ Client(Home[s], "detach")
  /\ chan' = SendRequestToSeniorPeer(chan, Home[s], budget.done + 1, updates)
  /\ attached' = attached \ {s}
  /\ local' = [local EXCEPT ![s] = <<>>]
  /\ UNCHANGED <<viewVars, pulsing, log, tree, ghostVars>>

PingSeniorPeer(p) ==
  /\ Client(p, "ping")
  /\ Request(p, <<Ping(senior[p])>>)
  /\ UNCHANGED <<viewVars, pulsing, clientVars, log, tree, ponged, heard, answered>>

SendMessageToSeniorPeer(p) ==
  /\ Client(p, "toSenior")
  /\ senior[p] # NoPeer
  /\ chan' = SendUnicastMessageToPeer(chan, p, senior[p],
               <<[type |-> "toSenior", src |-> p, tag |-> budget.done + 1]>>)
  /\ UNCHANGED <<viewVars, pulsing, clientVars, log, tree, ghostVars>>

(* GetPerClientPeerIDsForPath for the nodes named n of all clients: the    *)
(* peers that p's copy of the tree shows above such nodes.                 *)
GetPerClientPeerIDsForPath(p, n) == {x[1] : x \in {y \in DOMAIN tree[p] : Len(y) = 4 /\ y[4] = n}}

(* A path may also match a node beyond those of the clients, such as the   *)
(* root of the database: that names no peer, and the message goes to all   *)
(* that are on line.  The tag tells the receiver how to answer:            *)
(* "{peer}:tag".                                                           *)
SendMessageToSubscriber(p, n, beyond) ==
  LET msg == [type |-> "toSubscriber", node |-> n, beyond |-> beyond, src |-> p,
              tag |-> budget.done + 1]
      targets == IF beyond THEN online[p] ELSE GetPerClientPeerIDsForPath(p, n)
  IN
  /\ Client(p, "toSubscriber")
  /\ chan' = SendUnicastMessageToAllPeers(chan, p, targets, msg)
  /\ UNCHANGED <<viewVars, pulsing, clientVars, log, tree, ghostVars>>

(* A subscriber answers a message with SendMessageToSubscriber, whose path *)
(* is the return address that came with it.                                *)
AnswerSubscriber(p) ==
  \E h \in heard :
    /\ h[1] = p /\ h[2].type = "toSubscriber"
    /\ Client(p, "answer")
    /\ chan' = SendUnicastMessageToPeer(chan, p, h[2].src,
                 <<[type |-> "toReturnAddress", peer |-> h[2].src, tag |-> h[2].tag]>>)
    /\ UNCHANGED <<viewVars, pulsing, clientVars, log, tree, ghostVars>>

---------------------------------------------------------------------------
(* Messages from peers.  In each handler c holds the messages on their way *)
(* without the one that p is handling.                                     *)

(* Mutant of Pong: the pinged peer itself says when it has the ping.       *)
PongFromSeniorPeer(p, m) ==
  IF m.update.op = "ping" THEN {[peer |-> m.src, id |-> m.id, to |-> m.update.to]} ELSE {}

(* HandleSeniorPeerPingMessage.                                            *)
Pong(p, m) ==
  IF m.update.op = "ping" /\ m.src = p THEN {[peer |-> p, id |-> m.id, to |-> m.update.to]}
  ELSE {}

Execute(p, m) ==
  /\ log' = [log EXCEPT ![p] = Append(@, m)]
  /\ tree' = [tree EXCEPT ![p] = Apply(m.update, @)]
  /\ ponged' = ponged \cup Pong(p, m)

(* HandleDatabaseUpdateRequest: dropped unless p is the senior peer.       *)
HandleDatabaseUpdateRequest(p, m, c) ==
  /\ m.type = "update"
  /\ IF IAmTheSeniorPeer(p) THEN Execute(p, m) ELSE UNCHANGED <<log, tree, ponged>>
  /\ chan' = c
  /\ UNCHANGED <<heard, answered, astray>>

(* CLIENTDATA_COMMAND_UPLOADLOCALDATA: p answers r with its sessions' data *)
(* if it has sessions.                                                     *)
UploadLocalDataReceived(p, r, m, c) ==
  LET mine == {s \in attached : Home[s] = p}
      data == [s \in mine |-> local[s]]
  IN
  /\ m = UploadLocalData
  /\ chan' = IF mine = {} THEN c
             ELSE SendUnicastMessageToPeer(c, p, r, <<[type |-> "localData", data |-> data]>>)
  /\ answered' = [answered EXCEPT ![p] = r]
  /\ astray' = astray \ {p}
  /\ UNCHANGED <<log, tree, ponged, heard>>

(* CLIENTDATA_COMMAND_LOCALDATA: a senior peer asks itself for the uploads.*)
LocalDataReceived(p, m, c) ==
  LET uploads == [i \in 1..Cardinality(DOMAIN m.data) |->
                    LET s == SetToSeq(DOMAIN m.data)[i]
                    IN  UploadSubtree(SharedPath(s, <<>>), m.data[s])]
  IN
  /\ m.type = "localData"
  /\ chan' = IF IAmTheSeniorPeer(p) THEN SendRequestToSeniorPeer(c, p, 0, uploads) ELSE c
  /\ UNCHANGED <<log, tree, ghostVars>>

(* MTDPS_COMMAND_MESSAGETOSENIORPEER; the application's handler answers    *)
(* with SendMessageToTreeGatewaySubscriber.                                *)
MessageToSeniorPeerReceived(p, m, c) ==
  /\ m.type = "toSenior"
  /\ chan' = IF IAmTheSeniorPeer(p)
             THEN SendUnicastMessageToPeer(c, p, m.src, <<[type |-> "fromSenior", tag |-> m.tag]>>)
             ELSE c
  /\ UNCHANGED <<log, tree, ghostVars>>

(* MTDPS_COMMAND_MESSAGEFROMSENIORPEER, and MTDPS_COMMAND_MESSAGETOSUB-    *)
(* SCRIBER: for the owner of the return address, or else for the sessions  *)
(* that subscribe to a node that the path matches here.                    *)
MessageForSubscriberReceived(p, m, c) ==
  /\ m.type \in {"fromSenior", "toReturnAddress", "toSubscriber"}
  /\ LET wanted == CASE m.type = "fromSenior" -> TRUE
                     [] m.type = "toReturnAddress" -> m.peer = p
                     [] OTHER -> /\ m.beyond \/ GetPerClientPeerIDsForPath(p, m.node) # {}
                                 /\ \E s \in attached : Home[s] = p
     IN heard' = IF wanted THEN heard \cup {<<p, m>>} ELSE heard
  /\ chan' = c
  /\ UNCHANGED <<log, tree, ponged, answered, astray>>

PrivateMessageReceivedFromPeer(p, r, m, c) ==
  \/ HandleDatabaseUpdateRequest(p, m, c)
  \/ UploadLocalDataReceived(p, r, m, c)
  \/ LocalDataReceived(p, m, c)
  \/ MessageToSeniorPeerReceived(p, m, c)
  \/ MessageForSubscriberReceived(p, m, c)

(* A message arrives from r.  What a peer sends in one round of its event  *)
(* loop cannot be answered before the next round, and that begins by       *)
(* emptying _messagesSentToSelf; so what r sends waits until it has done   *)
(* so, while p may handle several messages of one round before it does.    *)
UnicastMessageReceivedFromPeer(p, r) ==
  /\ Serving(p)
  /\ r # p
  /\ chan[r][p] # <<>>
  /\ r \in up => chan[r][r] = <<>>
  /\ PrivateMessageReceivedFromPeer(p, r, Head(chan[r][p]), [chan EXCEPT ![r][p] = Tail(@)])
  /\ UNCHANGED <<viewVars, pulsing, clientVars, budget>>

(* One turn of the loop in Pulse(), which goes on until nothing is left.   *)
Pulse(p) ==
  /\ p \in up
  /\ chan[p][p] # <<>>
  /\ PrivateMessageReceivedFromPeer(p, p, Head(chan[p][p]), [chan EXCEPT ![p][p] = Tail(@)])
  /\ pulsing' = IF chan'[p][p] = <<>> THEN pulsing \ {p} ELSE pulsing \cup {p}
  /\ UNCHANGED <<viewVars, clientVars, budget>>

---------------------------------------------------------------------------
(* Replication, seen from here.                                            *)

HasSenior(q) ==
  /\ Serving(q)
  /\ senior[q] \in up \ {q}
  /\ IAmTheSeniorPeer(senior[q])

(* A junior peer executes the senior peer's next update.                   *)
JuniorUpdate(q) ==
  /\ HasSenior(q)
  /\ IsStrictPrefix(log[q], log[senior[q]])
  /\ Execute(q, log[senior[q]][Len(log[q]) + 1])
  /\ UNCHANGED <<viewVars, chan, pulsing, clientVars, heard, answered, astray, budget>>

(* A junior peer takes over the senior peer's database, because updates it *)
(* needs are no longer in the senior peer's log or its own state is one    *)
(* that the senior peer never had.                                         *)
FullUpdate(q) ==
  /\ HasSenior(q)
  /\ log[q] # log[senior[q]]
  /\ log' = [log EXCEPT ![q] = log[senior[q]]]
  /\ tree' = [tree EXCEPT ![q] = tree[senior[q]]]
  /\ UNCHANGED <<viewVars, chan, pulsing, clientVars, ghostVars, budget>>

---------------------------------------------------------------------------
(* Peers come and go.                                                      *)

(* PeerHasGoneOffline: the TCP sessions with the peers that went are ended,*)
(* with whatever was on its way.                                           *)
SessionsEnded(c, q, gone) ==
  [a \in Peers |-> [b \in Peers |->
     IF (a = q /\ b \in gone) \/ (a \in gone /\ b = q) THEN <<>> ELSE c[a][b]]]

OfflineHandled(c, q, gone) ==
  LET deletions == [i \in 1..Cardinality(gone) |-> Delete({<<SetToSeq(gone)[i]>>})]
  IN  SessionsEnded(IF IAmTheSeniorPeer(q) THEN SendRequestToSeniorPeer(c, q, 0, deletions) ELSE c,
                    q, gone)

(* Mutant of OnlineHandled: a peer that comes online is not asked.         *)
OnlineIgnored(c, q, new) == c

(* PeerHasComeOnline.                                                      *)
OnlineHandled(c, q, new) ==
  IF IAmTheSeniorPeer(q) THEN SendUnicastMessageToAllPeers(c, q, new, UploadLocalData) ELSE c

(* Mutant of SeniorStatusHandled: nothing is flushed.                      *)
SeniorStatusNotFlushed(c, q, V) == SendUnicastMessageToAllPeers(c, q, V, UploadLocalData)

(* LocalSeniorPeerStatusChanged, when q is senior from now on: the nodes   *)
(* of peers that are off line go, and everyone uploads again.              *)
SeniorStatusHandled(c, q, V) ==
  LET dead == {x[1] : x \in DOMAIN tree[q]} \ V
      flushed == IF dead = {} THEN c
                 ELSE [c EXCEPT ![q][q] = Append(@, Update(q, 0, Delete({<<d>> : d \in dead})))]
  IN  SendUnicastMessageToAllPeers(flushed, q, V, UploadLocalData)

(* The heartbeat thread tells q's main thread that V is the set of peers   *)
(* on line: the ones that went are handled first, then the new ones, then  *)
(* the change of the senior peer.                                          *)
PeersChanged(q, V) ==
  LET told == OnlineHandled(OfflineHandled(chan, q, online[q] \ V), q, V \ online[q])
  IN
  /\ Serving(q)
  /\ online' = [online EXCEPT ![q] = V]
  /\ senior' = [senior EXCEPT ![q] = Eldest(V)]
  /\ chan' = IF Eldest(V) = q /\ ~IAmTheSeniorPeer(q) THEN SeniorStatusHandled(told, q, V) ELSE told
  /\ UNCHANGED <<up, unnoticed, pulsing, clientVars, log, tree, ghostVars>>

(* q notices a peer that started, or one that crashed.                     *)
Notice(q) ==
  /\ \E V \in {up, online[q] \cap up, online[q] \cup up} :
       /\ q \in V /\ V # online[q]
       /\ online[q] = {} => V = up
       /\ PeersChanged(q, V)
  /\ UNCHANGED budget

(* The senior peer misses the heartbeats of a peer that runs.              *)
LosePeer(q, p) ==
  /\ budget.losses > 0
  /\ IAmTheSeniorPeer(q) /\ q # p /\ p \in online[q] \cap up
  /\ PeersChanged(q, online[q] \ {p})
  /\ budget' = [budget EXCEPT !.losses = @ - 1]

(* A peer that starts is younger than all those that ran before.           *)
Start(p) ==
  /\ budget.starts > 0
  /\ p \notin up /\ online[p] = {}
  /\ \A q \in Peers : q \in up \/ online[q] # {} => q < p
  /\ up' = up \cup {p}
  /\ budget' = [budget EXCEPT !.starts = @ - 1]
  /\ UNCHANGED <<online, senior, unnoticed, chan, pulsing, clientVars, log, tree, ghostVars>>

(* A peer crashes, and its clients lose their sessions.  What it had sent  *)
(* may still arrive; it starts again only under another peer ID.           *)
Crash(p) ==
  /\ budget.crashes > 0
  /\ p \in up /\ up # {p} /\ online[p] # {}
  /\ up' = up \ {p}
  /\ chan' = [a \in Peers |-> [chan[a] EXCEPT ![p] = <<>>]]
  /\ pulsing' = pulsing \ {p}
  /\ attached' = {s \in attached : Home[s] # p}
  /\ unnoticed' = IF p \in online[Eldest(up \ {p})] THEN unnoticed ELSE unnoticed \cup {p}
  /\ budget' = [budget EXCEPT !.crashes = @ - 1]
  /\ UNCHANGED <<online, senior, local, log, tree, ghostVars>>

---------------------------------------------------------------------------
(* The founders are up and have settled on the eldest of them.             *)
InitFor(w) ==
  LET founded(x, y) == [p \in Peers |-> IF p \in w.founders THEN x ELSE y] IN
  /\ up = w.founders
  /\ online = founded(w.founders, {})
  /\ senior = founded(Eldest(w.founders), NoPeer)
  /\ answered = founded(Eldest(w.founders), NoPeer)
  /\ chan = [p \in Peers |-> [q \in Peers |-> <<>>]]
  /\ pulsing = {}
  /\ attached \in {{s \in Sessions : Home[s] \in w.founders}, {}}
  /\ local = [s \in Sessions |-> <<>>]
  /\ log = [p \in Peers |-> <<>>]
  /\ tree = [p \in Peers |-> <<>>]
  /\ ponged = {} /\ heard = {} /\ astray = {} /\ unnoticed = {}
  /\ budget = [kinds |-> w.kinds, ops |-> w.ops, done |-> 0, crashes |-> w.crashes,
               starts |-> w.starts, losses |-> w.losses]

Init == \E w \in Workloads : InitFor(w)

ClientNext ==
  \/ \E s \in Sessions :
       \/ SessionAttached(s)
       \/ ServerSideMessageTreeSessionIsDetaching(s)
       \/ \E v \in Values : UploadNodeSubtree(s, v)
       \/ \E n \in Nodes : RequestDeleteNodes(s, n)
       \/ \E n \in Nodes, v \in Values : UploadNodeValue(s, n, v)
  \/ \E p \in Peers :
       \/ PingSeniorPeer(p)
       \/ SendMessageToSeniorPeer(p)
       \/ AnswerSubscriber(p)
       \/ \E n \in Nodes, beyond \in BOOLEAN : SendMessageToSubscriber(p, n, beyond)

PeerNext ==
  \E p \in Peers :
    \/ Pulse(p)
    \/ JuniorUpdate(p)
    \/ FullUpdate(p)
    \/ Notice(p)
    \/ Start(p)
    \/ Crash(p)
    \/ \E q \in Peers : UnicastMessageReceivedFromPeer(p, q) \/ LosePeer(p, q)

Next == ClientNext \/ PeerNext

Spec == Init /\ [][Next]_vars

---------------------------------------------------------------------------
(* Nothing is on its way and everyone agrees.                              *)
Settled ==
  /\ \A p \in up : /\ online[p] = up
                   /\ senior[p] = Eldest(up)
                   /\ log[p] = log[senior[p]]
                   /\ \A q \in Peers : chan[q][p] = <<>>

Shared == tree[Eldest(up)]

(* A pong tells a client that the shared database, here, has everything    *)
(* that was requested through its peer before the ping: such a request is  *)
(* no longer on its way to the peer that was pinged, and if the senior     *)
(* peer executed it, this peer has done so too (PingSeniorPeer,            *)
(* HandleSeniorPeerPingMessage).                                           *)
PongMeansFlushed ==
  \A k \in ponged :
    LET Older(m) == m.type = "update" /\ m.src = k.peer /\ m.id # 0 /\ m.id < k.id
        here == ToSet(log[k.peer])
    IN
    /\ \A i \in DOMAIN chan[k.peer][k.to] : ~Older(chan[k.peer][k.to][i])
    /\ k.to = senior[k.peer] => \A m \in ToSet(log[k.to]) : Older(m) => m \in here

(* Once things have settled, nothing that a peer shared is left when that  *)
(* peer is gone, whichever of the others saw it go, and whoever was senior *)
(* then (PeerHasGoneOffline, LocalSeniorPeerStatusChanged).  Left out are  *)
(* peers that crashed while the senior peer had them off line.             *)
NoDataOfTheDead ==
  Settled => \A x \in DOMAIN Shared : x[1] \in up \cup unnoticed

(* The same without that exception does not hold: the senior peer executes *)
(* the requests of a peer that it has not seen on line yet, and is never   *)
(* told that this peer has gone (UnnoticedPeer.cfg).                       *)
NoDataOfUnnoticedPeers ==
  Settled => \A x \in DOMAIN Shared : x[1] \in up

(* Once things have settled, every node that a client still has is in the  *)
(* shared database too, in spite of crashes of senior and junior peers and *)
(* of peers that seemed off line for a while.  Left out are peers that     *)
(* sent a request to one peer after they had given their data to another.  *)
UploadsAreShared ==
  Settled =>
    \A s \in attached : Home[s] \notin astray =>
      \A n \in DOMAIN local[s] : SharedPath(s, <<n>>) \in DOMAIN Shared

(* "Data posted by the client to this subtree will be tied to the lifetime *)
(* of the client's connection, and it will automatically get deleted when  *)
(* the client disconnects from the system."                                *)
ClientDataDiesWithItsSession ==
  Settled => \A x \in DOMAIN Shared : Len(x) >= 3 => x[3] \in attached
---------------------------------------------------------------------------
(* The inductive invariant behind PongMeansFlushed.                        *)

IsSequence(s) == s \in Seq(ToSet(s))

TypeOK ==
  /\ up \subseteq Peers
  /\ online \in [Peers -> SUBSET Peers]
  /\ senior \in [Peers -> Peers \cup {NoPeer}]
  /\ DOMAIN chan = Peers /\ \A p \in Peers : DOMAIN chan[p] = Peers
  /\ attached \subseteq Sessions
  /\ DOMAIN log = Peers /\ \A p \in Peers : IsSequence(log[p])
  /\ \A p \in Peers : \A m \in ToSet(log[p]) : m.type = "update"
  /\ DOMAIN budget = {"kinds", "ops", "done", "crashes", "starts", "losses"}
  /\ budget.done \in Nat

(* A peer knows of every elder peer that runs, so that one that takes      *)
(* itself for senior is the eldest, and stays so until it crashes.         *)
SeniorsAreEldest ==
  \A q \in Peers :
    /\ online[q] = {} => senior[q] = NoPeer
    /\ online[q] # {} => /\ q \in online[q]
                         /\ senior[q] = Eldest(online[q])
                         /\ \A e \in up : e < q => e \in online[q]
    /\ senior[q] = q => \A u \in up : q <= u

(* Requests are those updates that clients asked for.                      *)
IsRequest(m) == m.type = "update" /\ m.id # 0
IsPing(m) == m.type = "update" /\ m.update.op = "ping"
PingIn(m) == [peer |-> m.src, id |-> m.id, to |-> m.update.to]

(* The pings that the senior peer they were sent to has executed.          *)
PingsSeen == ponged \cup (UNION {{PingIn(m) : m \in {x \in ToSet(log[p]) : IsPing(x)}} : p \in Peers})

(* A message from p to q when n operations have been done.                 *)
GoodMessage(p, q, m, n) ==
  /\ m.type = "update" =>
       /\ m.src = p /\ m.id \in 0..n
       /\ m.update.op = "ping" => m.update.to = q /\ m.id # 0
  /\ m.type = "localData" => IsFiniteSet(DOMAIN m.data)

(* Requests arrive in the order in which they were made ...                *)
GoodChannel(p, q, s, n) ==
  /\ IsSequence(s)
  /\ \A i \in DOMAIN s : GoodMessage(p, q, s[i], n)
  /\ \A i, j \in DOMAIN s : i < j /\ IsRequest(s[i]) /\ IsRequest(s[j]) => s[i].id <= s[j].id

(* ... and none is left behind a ping that has been executed.              *)
NoneOlder(s, k) == \A i \in DOMAIN s : IsRequest(s[i]) => s[i].id >= k.id

ChannelsInOrder(c, n, pings) ==
  /\ DOMAIN c = Peers /\ \A p \in Peers : DOMAIN c[p] = Peers
  /\ \A p, q \in Peers : GoodChannel(p, q, c[p][q], n)
  /\ \A k \in pings : NoneOlder(c[k.peer][k.to], k)

(* The pinged peer was senior, and from then on executes requests only.    *)
PingsReachedTheSenior ==
  \A k \in PingsSeen :
    /\ k.peer \in Peers /\ k.to \in Peers /\ k.id \in 1..budget.done
    /\ senior[k.to] = k.to

OlderThan(m, k) == m.type = "update" /\ m.src = k.peer /\ m.id # 0 /\ m.id < k.id

(* Every log has, before a ping, all the older requests of the same peer   *)
(* that the pinged peer has ever executed.                                 *)
PingsComeLast ==
  \A p \in Peers : \A i \in DOMAIN log[p] : IsPing(log[p][i]) =>
    \A m \in ToSet(log[log[p][i].update.to]) :
      OlderThan(m, PingIn(log[p][i])) => \E j \in DOMAIN log[p] : j < i /\ log[p][j] = m

(* A peer that was told of its ping has all those requests, or has turned  *)
(* to another senior peer for good.                                        *)
PongsAreTrue ==
  \A k \in ponged :
    \/ \A m \in ToSet(log[k.to]) : OlderThan(m, k) => m \in ToSet(log[k.peer])
    \/ k.to \notin up /\ k.to \notin online[k.peer]

PongInvariant ==
  /\ TypeOK
  /\ SeniorsAreEldest
  /\ ChannelsInOrder(chan, budget.done, PingsSeen)
  /\ PingsReachedTheSenior
  /\ PingsComeLast
  /\ PongsAreTrue
===========================================================================

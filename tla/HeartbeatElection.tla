------------------------ MODULE HeartbeatElection ------------------------
(***************************************************************************)
(* Who is online and who is senior: the heartbeat thread of every peer     *)
(* (PZGHeartbeatThreadState) and the list of online peers that its main    *)
(* thread keeps (PZGHeartbeatSession).                                     *)
(*                                                                         *)
(* Time.  One tick of the clock is one heartbeat interval.  A thread does  *)
(* what is due, and a multicast heartbeat is received or lost, before the  *)
(* next tick; the main thread may lag behind without bound.  A peer's own  *)
(* heartbeats come back to it and are not lost.                            *)
(*                                                                         *)
(* A peer is heard on one network interface, so a source is a peer.  The   *)
(* settings in a peer's heartbeats are immutable, so two heartbeats of a   *)
(* peer differ in transients only.  A restarted process has a new peer ID. *)
(***************************************************************************)
EXTENDS Integers, FiniteSets, FiniteSetsExt, Sequences, Functions

CONSTANTS
  Peers,              \* the IDs of the peers; peer IDs are ordered
  JuniorOnly,         \* the peers of type PEER_TYPE_JUNIOR_ONLY
  NoPeer,             \* an invalid ZGPeerID
  HeartbeatsPerSecond,
  HeartbeatsBeforeFullyAttached,
  MaxMissingHeartbeats,
  MaxTime,            \* bound on the clock
  MaxCrashes,         \* bound on the number of processes that end
  MaxLosses           \* bound on the number of heartbeats lost on their way to a peer

ASSUME HeartbeatPeersAssumption ==
  Peers \subseteq Nat /\ IsFiniteSet(Peers) /\ JuniorOnly \subseteq Peers /\ NoPeer \notin Peers
ASSUME IntervalsAssumption ==
  /\ {HeartbeatsPerSecond, HeartbeatsBeforeFullyAttached, MaxMissingHeartbeats}
       \subseteq Nat \ {0}
  /\ {MaxTime, MaxCrashes, MaxLosses} \subseteq Nat

VARIABLES
  now,        \* the clock
  hb,         \* hb[p]: peer p's PZGHeartbeatThreadState
  packets,    \* heartbeats on their way to a peer
  toMain,     \* toMain[p]: the peers-updates that p's main thread has yet to handle
  mainPeers,  \* mainPeers[p]: p's _mainThreadPeers
  ended,      \* peers whose process has ended
  losses,     \* number of heartbeats lost so far
  disturbed   \* when a process last started or ended, or a heartbeat was lost

vars == <<now, hb, packets, toMain, mainPeers, ended, losses, disturbed>>

Times == 0 .. MaxTime
NEVER == MaxTime + MaxMissingHeartbeats + 1   \* MUSCLE_TIME_NEVER

PeerLists == {s \in UNION {[1 .. n -> Peers] : n \in 0 .. Cardinality(Peers)} : IsInjective(s)}

Heartbeats == [uptime : Times, attached : BOOLEAN, list : PeerLists]

(* Something about each of some sources.                                   *)
BySource(S) == UNION {[D -> S] : D \in SUBSET Peers}

Threads ==
  [running : BOOLEAN, birth : Times, nextSend : 0 .. MaxTime + 1, reported : BOOLEAN,
   pending : BOOLEAN, force : BOOLEAN, lastSent : PeerLists,
   heard : BySource(Heartbeats), expires : BySource(0 .. NEVER)]

TypeOK ==
  /\ now \in Times
  /\ hb \in [Peers -> Threads]
  /\ \A p \in Peers : DOMAIN hb[p].expires = DOMAIN hb[p].heard /\ hb[p].birth <= now
  /\ packets \subseteq [from : Peers, to : Peers, packet : Heartbeats]
  /\ toMain \in [Peers -> Seq(PeerLists)]
  /\ mainPeers \in [Peers -> PeerLists]
  /\ ended \subseteq Peers
  /\ losses \in 0 .. MaxLosses
  /\ disturbed \in Times

Nowhere == [q \in {} |-> 0]

IdleThread ==
  [running |-> FALSE, birth |-> 0, nextSend |-> 0, reported |-> FALSE, pending |-> FALSE,
   force |-> FALSE, lastSent |-> <<>>, heard |-> Nowhere, expires |-> Nowhere]

Init ==
  /\ now = 0
  /\ hb = [p \in Peers |-> IdleThread]
  /\ packets = {}
  /\ toMain = [p \in Peers |-> <<>>]
  /\ mainPeers = [p \in Peers |-> <<>>]
  /\ ended = {}
  /\ losses = 0
  /\ disturbed = 0

Running == {p \in Peers : hb[p].running}

---------------------------------------------------------------------------
(* The order of peers, seen from a thread that has heard `heard'.          *)

IsAtLeastHalfAttached(d) == 2 * (now - d.birth) >= HeartbeatsBeforeFullyAttached
IsFullyAttached(d) == now - d.birth >= HeartbeatsBeforeFullyAttached

PeersListMatchesIgnoreOrdering(heard, list) ==
  /\ Len(list) = Cardinality(DOMAIN heard)
  /\ Range(list) \subseteq DOMAIN heard

(* The lowest peer that advertises the same set of peers.                  *)
GetKingmakerPeerID(heard) ==
  LET matching == {q \in DOMAIN heard :
                     PeersListMatchesIgnoreOrdering(heard, heard[q].list)}
  IN  IF matching = {} THEN NoPeer ELSE Min(matching)

PeerType(q) == IF q \in JuniorOnly THEN 1 ELSE 0

(* a comes before b: the larger type first, then the longer uptime, then   *)
(* the larger ID.                                                          *)
ComparePeerIDsBySeniority(heard, a, b) ==
  \/ PeerType(a) > PeerType(b)
  \/ /\ PeerType(a) = PeerType(b)
     /\ \/ heard[a].uptime > heard[b].uptime
        \/ heard[a].uptime = heard[b].uptime /\ a > b

SortedBySeniority(heard) ==
  [i \in 1 .. Cardinality(DOMAIN heard) |->
     CHOOSE q \in DOMAIN heard :
       Cardinality({r \in DOMAIN heard : ComparePeerIDsBySeniority(heard, r, q)}) = i - 1]

(* Mutant: every peer goes by its own order.                               *)
OwnOrder(heard) == SortedBySeniority(heard)

CalculateOrderedPeersList(heard) ==
  LET kingmaker == GetKingmakerPeerID(heard)
  IN  IF kingmaker = NoPeer THEN SortedBySeniority(heard) ELSE heard[kingmaker].list

---------------------------------------------------------------------------
(* The heartbeat thread.                                                   *)

ScheduleUpdateOfficialPeersList(d, forceUpdate) ==
  [d EXCEPT !.pending = TRUE, !.force = @ \/ forceUpdate]

(* InternalThreadEntry() and Initialize().                                 *)
StartHeartbeatThread(p) ==
  /\ ~hb[p].running /\ p \notin ended
  /\ hb' = [hb EXCEPT ![p] = [IdleThread EXCEPT !.running = TRUE, !.birth = now,
                                                !.nextSend = now]]
  /\ disturbed' = now
  /\ UNCHANGED <<now, packets, toMain, mainPeers, ended, losses>>

(* The members of a list that are in S, in their order.                    *)
Only(list, S) ==
  LET upTo[i \in 0 .. Len(list)] ==
        IF i = 0 THEN <<>>
          ELSE IF list[i] \in S THEN Append(upTo[i - 1], list[i])
          ELSE upTo[i - 1]
  IN  upTo[Len(list)]

Attached(heard) == {q \in DOMAIN heard : heard[q].attached}

(* The peers-updates of a thread in state d, a sequence of at most one:    *)
(* the order, without the peers that are not fully attached.               *)
OfficialPeers(d) == Only(CalculateOrderedPeersList(d.heard), Attached(d.heard))

SendsUpdate(d) ==
  d.force \/ Range(CalculateOrderedPeersList(d.heard)) # Range(d.lastSent)

UpdateOfficialPeersList(d) ==
  [d EXCEPT !.pending = FALSE, !.force = FALSE,
            !.lastSent = IF SendsUpdate(d) THEN CalculateOrderedPeersList(d.heard) ELSE @]

UpdatesForMain(d) ==
  IF d.pending /\ SendsUpdate(d) /\ IsFullyAttached(d) THEN <<OfficialPeers(d)>> ELSE <<>>

HeartbeatPacket(p, d) ==
  [uptime |-> (now - d.birth) \div HeartbeatsPerSecond,
   attached |-> IsFullyAttached(d),
   list |-> IF p \notin JuniorOnly /\ IsAtLeastHalfAttached(d)
              THEN CalculateOrderedPeersList(d.heard) ELSE <<>>]

Expired(d) == {q \in DOMAIN d.heard : now >= d.expires[q]}

ExpireSources(d) ==
  IF Expired(d) = {} THEN d
    ELSE ScheduleUpdateOfficialPeersList(
           [d EXCEPT !.heard = Restrict(@, DOMAIN @ \ Expired(d)),
                     !.expires = Restrict(@, DOMAIN @ \ Expired(d))], TRUE)

ReportFullAttachment(d) ==
  IF ~d.reported /\ IsFullyAttached(d)
    THEN ScheduleUpdateOfficialPeersList([d EXCEPT !.reported = TRUE], TRUE) ELSE d

PulseIsDue(d) == d.pending \/ now >= d.nextSend \/ Expired(d) # {}

(* A heartbeat for every running peer, except those in `lost'.             *)
SendHeartbeatPackets(p, d) ==
  \E lost \in SUBSET (Running \ {p}) :
    /\ losses + Cardinality(lost) <= MaxLosses
    /\ losses' = losses + Cardinality(lost)
    /\ disturbed' = IF lost = {} THEN disturbed ELSE now
    /\ packets' = packets \cup
         [from : {p}, to : Running \ lost, packet : {HeartbeatPacket(p, d)}]

Pulse(p) ==
  LET d == hb[p]
      updated == IF d.pending THEN UpdateOfficialPeersList(d) ELSE d
      sends == now >= d.nextSend
      sent == IF sends THEN [updated EXCEPT !.nextSend = now + 1] ELSE updated
  IN  /\ d.running
      /\ PulseIsDue(d)
      /\ toMain' = [toMain EXCEPT ![p] = @ \o UpdatesForMain(d)]
      /\ IF sends THEN SendHeartbeatPackets(p, updated)
           ELSE UNCHANGED <<packets, losses, disturbed>>
      /\ hb' = [hb EXCEPT ![p] = ReportFullAttachment(ExpireSources(sent))]
      /\ UNCHANGED <<now, mainPeers, ended>>

(* d with the source's last heartbeat replaced or introduced.              *)
SetHeartbeatPacket(d, q, packet, expiration, forceUpdate) ==
  LET e == [d EXCEPT
              !.heard = [r \in DOMAIN @ \cup {q} |-> IF r = q THEN packet ELSE @[r]],
              !.expires = [r \in DOMAIN @ \cup {q} |-> IF r = q THEN expiration ELSE @[r]]]
  IN  IF forceUpdate THEN ScheduleUpdateOfficialPeersList(e, TRUE) ELSE e

(* A peer's own heartbeats do not expire.                                  *)
Expiration(p, q) == IF q = p THEN NEVER ELSE now + MaxMissingHeartbeats

IsNews(d, q, packet) ==
  q \notin DOMAIN d.heard \/ d.heard[q].attached # packet.attached

(* Mutant: a peer that becomes fully attached forces no update.            *)
AttachmentGoesUnnoticed(p, d, q, packet) ==
  SetHeartbeatPacket(d, q, packet, Expiration(p, q), q \notin DOMAIN d.heard)

(* Mutant: sources never expire.                                           *)
SourcesNeverExpire(p, d, q, packet) ==
  SetHeartbeatPacket(d, q, packet, NEVER, IsNews(d, q, packet))

(* Mutant: a heartbeat of a known source does not renew its expiration.    *)
ExpirationNotRenewed(p, d, q, packet) ==
  SetHeartbeatPacket(d, q, packet,
    IF q \in DOMAIN d.heard THEN d.expires[q] ELSE Expiration(p, q),
    IsNews(d, q, packet))

(* What p does with a heartbeat of q.                                      *)
SourceHeard(p, d, q, packet) ==
  SetHeartbeatPacket(d, q, packet, Expiration(p, q), IsNews(d, q, packet))

ReceiveMulticastTraffic(k) ==
  LET d == SourceHeard(k.to, hb[k.to], k.from, k.packet)
      isKingmakers == ~d.pending /\ GetKingmakerPeerID(d.heard) = k.from
  IN  /\ k \in packets
      /\ packets' = packets \ {k}
      /\ hb' = [hb EXCEPT ![k.to] =
                  IF isKingmakers THEN ScheduleUpdateOfficialPeersList(d, FALSE) ELSE d]
      /\ UNCHANGED <<now, toMain, mainPeers, ended, losses, disturbed>>

---------------------------------------------------------------------------
(* The main thread.                                                        *)

(* x right behind prev, a member of list.                                  *)
MoveToBehind(list, x, prev) ==
  LET i == CHOOSE i \in DOMAIN list : list[i] = prev
  IN  SubSeq(list, 1, i) \o <<x>> \o SubSeq(list, i + 1, Len(list))

(* The i-th peer of the update, when it is new to the list, is put behind  *)
(* the peer that precedes it in the update.                                *)
PeerAdded(list, update, i) ==
  IF update[i] \in Range(list) THEN list
    ELSE IF i = 1 THEN <<update[1]>> \o list
    ELSE MoveToBehind(list, update[i], update[i - 1])

(* Offline peers leave the list, then new ones are added; the others stay  *)
(* where they are.                                                         *)
UpdatedPeers(list, update) ==
  LET upTo[i \in 0 .. Len(update)] ==
        IF i = 0 THEN Only(list, Range(update)) ELSE PeerAdded(upTo[i - 1], update, i)
  IN  upTo[Len(update)]

MessageReceivedFromInternalThread(p) ==
  /\ toMain[p] # <<>>
  /\ mainPeers' = [mainPeers EXCEPT ![p] = UpdatedPeers(@, Head(toMain[p]))]
  /\ toMain' = [toMain EXCEPT ![p] = Tail(@)]
  /\ UNCHANGED <<now, hb, packets, ended, losses, disturbed>>

GetSeniorPeerID(p) ==
  IF mainPeers[p] = <<>> THEN NoPeer
    ELSE IF Head(mainPeers[p]) \in JuniorOnly THEN NoPeer ELSE Head(mainPeers[p])

---------------------------------------------------------------------------
EndProcess(p) ==
  /\ hb[p].running
  /\ Cardinality(ended) < MaxCrashes
  /\ ended' = ended \cup {p}
  /\ hb' = [hb EXCEPT ![p] = IdleThread]
  /\ toMain' = [toMain EXCEPT ![p] = <<>>]
  /\ mainPeers' = [mainPeers EXCEPT ![p] = <<>>]
  /\ packets' = {k \in packets : k.to # p}
  /\ disturbed' = now
  /\ UNCHANGED <<now, losses>>

Tick ==
  /\ now < MaxTime
  /\ packets = {}
  /\ \A p \in Running : ~PulseIsDue(hb[p])
  /\ now' = now + 1
  /\ UNCHANGED <<hb, packets, toMain, mainPeers, ended, losses, disturbed>>

Next ==
  \/ \E p \in Peers :
       \/ StartHeartbeatThread(p)
       \/ Pulse(p)
       \/ MessageReceivedFromInternalThread(p)
       \/ EndProcess(p)
  \/ \E k \in packets : ReceiveMulticastTraffic(k)
  \/ Tick

Spec == Init /\ [][Next]_vars

---------------------------------------------------------------------------
(* A main thread that has handled its updates, of a thread that owes it    *)
(* none, lists exactly the peers its thread hears and knows to be fully    *)
(* attached: no start, attachment or expiry is missed by the rules for     *)
(* when an update is forced.                                               *)
OfficialPeersAreCurrent ==
  \A p \in Running :
    hb[p].reported /\ ~hb[p].pending /\ toMain[p] = <<>> =>
      Range(mainPeers[p]) = Attached(hb[p].heard)

(* The last update sent to p's main thread, or what it made of the last.   *)
LastTold(p) == IF toMain[p] = <<>> THEN mainPeers[p] ELSE toMain[p][Len(toMain[p])]

(* Why no update is missed: from when a thread has reported its own        *)
(* attachment, what it has last told its main thread is what it knows, or  *)
(* an update is being forced.                                              *)
NewsIsForced ==
  \A p \in Peers :
    /\ hb[p].force => hb[p].pending
    /\ hb[p].reported => IsFullyAttached(hb[p])
    /\ hb[p].reported /\ ~hb[p].force => Range(LastTold(p)) = Attached(hb[p].heard)

(* How many intervals after a start, an end or a lost heartbeat the peers  *)
(* may disagree.                                                           *)
SettlingTime ==
  Max({HeartbeatsBeforeFullyAttached, MaxMissingHeartbeats}) + 2

Calm == now >= disturbed + SettlingTime

Settled == Calm /\ packets = {} /\ \A p \in Running : ~PulseIsDue(hb[p])

(* Once nothing has been disturbed for the settling time, all threads have *)
(* one order of peers, and main threads that have caught up list exactly   *)
(* the running peers.                                                      *)
SettledPeersAgree ==
  Settled =>
    /\ \A p, q \in Running :
         CalculateOrderedPeersList(hb[p].heard) = CalculateOrderedPeersList(hb[q].heard)
    /\ \A p \in Running : toMain[p] = <<>> => Range(mainPeers[p]) = Running

(* In calm times no thread's order of peers ever changes, although their   *)
(* uptimes pass the second at different moments, so that a local sort      *)
(* would turn them round and back (the kingmaker rule of                   *)
(* CalculateOrderedPeersList()).                                           *)
CalmOrderIsStable ==
  [][Calm /\ disturbed' = disturbed =>
       \A p \in Running :
         CalculateOrderedPeersList(hb[p].heard) = CalculateOrderedPeersList(hb'[p].heard)]_vars

(* Once settled, all main threads name the same senior peer.               *)
SettledSeniorsAgree ==
  Settled =>
    \A p, q \in Running :
      toMain[p] = <<>> /\ toMain[q] = <<>> => GetSeniorPeerID(p) = GetSeniorPeerID(q)

(* A full peer that is online is never listed behind a junior-only peer.   *)
FullPeersComeFirst ==
  \A p \in Peers : \A i, j \in DOMAIN mainPeers[p] :
    i < j => ~(mainPeers[p][i] \in JuniorOnly /\ mainPeers[p][j] \notin JuniorOnly)

(* As long as fewer heartbeats are lost than a source may miss, a peer     *)
(* that is listed is only taken off the list after its process has ended.  *)
OnlyEndedPeersGoOffline ==
  [][\A p \in Running :
       hb'[p].running /\ losses < MaxMissingHeartbeats - 1 =>
       Range(mainPeers[p]) \subseteq Range(mainPeers'[p]) \cup ended']_vars
===========================================================================

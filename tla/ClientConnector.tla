--------------------------- MODULE ClientConnector ---------------------------
(***************************************************************************)
(* A client's connection to a ZG server: the owner's thread calls Start(), *)
(* Stop() and SendOutgoingMessageToNetwork(), and is told of everything    *)
(* through a queue of callbacks; the I/O thread of                         *)
(* ClientConnectorImplementation looks for a server, connects, watches the *)
(* connection and starts over.  MessageTreeClientConnector, on the owner's *)
(* side, asks each new connection for its parameters before it declares    *)
(* the gateway connected.                                                  *)
(*                                                                         *)
(* Connections are numbered; the number a message carries says which       *)
(* connection it came from, or which one its sender believed in.  Time is  *)
(* counted in inactivity-ping intervals without any data read.             *)
(***************************************************************************)
EXTENDS Integers, Sequences, SequencesExt, FiniteSets

CONSTANTS
  Servers,          \* the servers discovery can find
  NoServer,
  Settings,         \* arguments of Start(): [match, reconnect]
  NotStarted,       \* the settings of a stopped connector
  TimeSync,         \* TRUE: servers offer a time-sync port
  Overdue,          \* intervals without data until the connection is given up (5)
  MaxOwnerCalls,    \* bound: calls of Start(), Stop() and of SendOutgoing...
  MaxServerSends,   \* bound: messages the servers send of their own accord
  MaxFaults         \* bound: failures of servers, connections and sockets

ASSUME ConnectorAssumption ==
    /\ NoServer \notin Servers
    /\ NotStarted \notin Settings
    /\ \A set \in Settings : set.match \subseteq Servers /\ set.reconnect \in BOOLEAN
    /\ TimeSync \in BOOLEAN
    /\ {Overdue, MaxOwnerCalls, MaxServerSends, MaxFaults} \subseteq Nat

VARIABLES
  owner,            \* the owner's side, see OwnerInit
  thread,           \* the I/O thread, see ThreadInit
  toThread,         \* messages from the owner to the I/O thread
  replies,          \* _replyQueue
  callback,         \* TRUE: a call of DispatchCallbacks() has been requested
  down,             \* messages on their way from the server to the thread
  status,           \* what each server is doing: "up", "frozen" or "off"
  calls, sends, faults          \* how often the bounded actions were taken

vars == <<owner, thread, toThread, replies, callback, down,
          status, calls, sends, faults>>

\* next is the setting to start with once a Stop() has joined the thread.
OwnerInit == [setting |-> NotStarted, next |-> NotStarted, stopping |-> FALSE,
              server |-> NoServer, conn |-> 0,
              expecting |-> FALSE, gateway |-> FALSE, params |-> 0]

IdleThread(n) == [stage |-> "off", conn |-> n, server |-> NoServer, out |-> <<>>,
                  pinging |-> FALSE, timer |-> FALSE, overdue |-> 0]

Shutdown == [kind |-> "null"]
Message(kind, conn) == [kind |-> kind, conn |-> conn]
PeerInfo(server, conn) == [kind |-> "peerinfo", server |-> server, conn |-> conn]

\* RecordThatDataWasRead(): the count of silent intervals starts again.
RecordThatDataWasRead(t) == [t EXCEPT !.timer = TRUE, !.overdue = 0]

InConnectionStage == thread.stage \in {"connecting", "connected"}

-----------------------------------------------------------------------------
\* The owner's thread.

OwnerCalls == ~owner.stopping /\ calls < MaxOwnerCalls /\ calls' = calls + 1

\* Stop() and the first half of a Start() with other settings: the thread is
\* told to end, and the owner blocks until it has.
EndThread(next) ==
    /\ thread.stage # "off"
    /\ owner' = [owner EXCEPT !.stopping = TRUE, !.next = next]
    /\ toThread' = Append(toThread, Shutdown)
    /\ UNCHANGED <<thread, replies, callback, down, status, sends, faults>>

\* Start() of a stopped connector: StartInternalThread().
StartThread(set) ==
    /\ owner' = [owner EXCEPT !.setting = set, !.next = NotStarted, !.stopping = FALSE]
    /\ thread' = [IdleThread(thread.conn) EXCEPT !.stage = "discover"]
    /\ UNCHANGED faults

\* StartInternalThread() fails: the settings are rolled back.
StartThreadFails ==
    /\ faults < MaxFaults /\ faults' = faults + 1
    /\ owner' = [owner EXCEPT !.setting = NotStarted, !.next = NotStarted, !.stopping = FALSE]
    /\ UNCHANGED thread

\* Start() does nothing when all its arguments are those in force.
InDesiredState(set) == owner.setting = set

Start(set) ==
    /\ OwnerCalls
    /\ ~InDesiredState(set)
    /\ \/ EndThread(set)
       \/ /\ thread.stage = "off"
          /\ StartThread(set) \/ StartThreadFails
          /\ UNCHANGED <<toThread, replies, callback, down, status, sends>>

Stop == OwnerCalls /\ owner.setting # NotStarted /\ EndThread(NotStarted)

\* ShutdownInternalThread() returns, and Start() goes on if it was the caller.
Joined ==
    /\ owner.stopping /\ thread.stage = "off"
    /\ \/ owner.next # NotStarted /\ (StartThread(owner.next) \/ StartThreadFails)
       \/ /\ owner.next = NotStarted
          /\ owner' = [owner EXCEPT !.setting = NotStarted, !.stopping = FALSE]
          /\ UNCHANGED <<thread, faults>>
    /\ UNCHANGED <<toThread, replies, callback, down, status, calls, sends>>

\* SendOutgoingMessageToNetwork(), possible at any time; "sync" is a ping
\* that the I/O thread answers itself once it has sent what was before it.
SendOutgoingMessageToNetwork(kind) ==
    /\ OwnerCalls
    /\ toThread' = Append(toThread, Message(kind, owner.conn))
    /\ UNCHANGED <<owner, thread, replies, callback, down, status, sends, faults>>

\* ConnectionStatusUpdated(): the parameters and the undo key go first.
ConnectionStatusUpdated(acc, r) ==
    IF r.server # NoServer
    THEN [own |-> [acc.own EXCEPT !.server = r.server, !.conn = r.conn, !.expecting = TRUE],
          out |-> acc.out \o <<Message("getparams", r.conn), Message("undokey", r.conn)>>]
    ELSE [acc EXCEPT !.own.server = NoServer, !.own.conn = 0,
                     !.own.gateway = FALSE, !.own.params = 0]

\* MessageReceivedFromNetwork(): the parameters open the gateway.
MessageReceivedFromNetwork(acc, r) ==
    IF r.kind = "params" /\ acc.own.expecting
    THEN [acc EXCEPT !.own.expecting = FALSE, !.own.gateway = TRUE, !.own.params = r.conn]
    ELSE acc

CallbackHandled(acc, r) ==
    IF r.kind = "peerinfo" THEN ConnectionStatusUpdated(acc, r)
    ELSE MessageReceivedFromNetwork(acc, r)

\* DispatchCallbacks(): everything queued is handled in order.
DispatchCallbacks ==
    /\ callback /\ ~owner.stopping
    /\ LET after[i \in 0..Len(replies)] ==
              IF i = 0 THEN [own |-> owner, out |-> toThread]
              ELSE CallbackHandled(after[i - 1], replies[i])
       IN  /\ owner' = after[Len(replies)].own
           /\ toThread' = after[Len(replies)].out
    /\ replies' = <<>>
    /\ callback' = FALSE
    /\ UNCHANGED <<thread, down, status, calls, sends, faults>>

-----------------------------------------------------------------------------
\* The I/O thread.

\* MessageReceivedFromIOThread(): a callback is requested for an empty queue.
Tell(rs) ==
    /\ callback' = (callback \/ (replies = <<>> /\ rs # <<>>))
    /\ replies' = replies \o rs

\* Mutant of LeaveConnectionStage: an attempt that failed is not reported.
LeaveSilently(stage) ==
    /\ thread' = [IdleThread(thread.conn) EXCEPT !.stage = stage]
    /\ Tell(IF stage = "off" THEN <<>> ELSE <<PeerInfo(NoServer, 0)>>)
    /\ down' = <<>>

\* Mutant of LeaveConnectionStage: input of the old connection is kept.
LeaveInputUnread(stage) ==
    /\ thread' = [IdleThread(thread.conn) EXCEPT !.stage = stage]
    /\ Tell(<<PeerInfo(NoServer, 0)>>)
    /\ UNCHANGED down

\* The end of DoConnectionStage(): the owner is told, whatever the reason.
LeaveConnectionStage(stage) ==
    /\ thread' = [IdleThread(thread.conn) EXCEPT !.stage = stage]
    /\ Tell(<<PeerInfo(NoServer, 0)>>)
    /\ down' = <<>>

\* Every stage wakes up for a message from the owner: the wait of two stages
\* includes the owner's socket, MonitorOwnerThreadSession watches it in the
\* third.
OwnerSignals == thread.stage # "off" /\ toThread # <<>>

\* Mutant of ReadFromOwner: the NULL message is only heeded while connected.
IgnoreShutdownWhileWaiting ==
    /\ OwnerSignals
    /\ LET at == SelectInSeq(toThread, LAMBDA x : x = Shutdown)
       IN  /\ toThread' = <<>>
           /\ \/ at # 0 /\ InConnectionStage /\ LeaveConnectionStage("off")
              \/ (at = 0 \/ ~InConnectionStage)
                 /\ UNCHANGED <<thread, replies, callback, down>>
    /\ UNCHANGED <<owner, status, calls, sends, faults>>

\* HandleIncomingMessagesFromOwnerThread(): read up to the NULL message; only
\* a connection has a use for the others.
ReadFromOwner ==
    /\ OwnerSignals
    /\ LET at  == SelectInSeq(toThread, LAMBDA x : x = Shutdown)
           new == IF at = 0 THEN toThread ELSE SubSeq(toThread, 1, at - 1)
       IN  /\ toThread' = IF at = 0 THEN <<>> ELSE SubSeq(toThread, at + 1, Len(toThread))
           /\ \/ at = 0 /\ InConnectionStage
                 /\ thread' = [thread EXCEPT !.out = @ \o new]
                 /\ UNCHANGED <<replies, callback, down>>
              \/ at = 0 /\ ~InConnectionStage
                 /\ UNCHANGED <<thread, replies, callback, down>>
              \/ at # 0 /\ InConnectionStage /\ LeaveConnectionStage("off")
              \/ at # 0 /\ ~InConnectionStage
                 /\ thread' = IdleThread(thread.conn)
                 /\ UNCHANGED <<replies, callback, down>>
    /\ UNCHANGED <<owner, status, calls, sends, faults>>

\* DoDiscoveryStage() ends with a server that fits; DoConnectionStage() sets
\* up the TCP and the time-sync session.
DiscoveryUpdate(s) ==
    /\ thread.stage = "discover" /\ status[s] = "up" /\ s \in owner.setting.match
    /\ thread' = [IdleThread(thread.conn + 1) EXCEPT !.stage = "connecting", !.server = s]
    /\ UNCHANGED <<owner, toThread, replies, callback, down, status, calls, sends, faults>>

\* The discovery client cannot be started.
DiscoveryFails ==
    /\ thread.stage = "discover"
    /\ faults < MaxFaults /\ faults' = faults + 1
    /\ thread' = [thread EXCEPT !.stage = "delay"]
    /\ UNCHANGED <<owner, toThread, replies, callback, down, status, calls, sends>>

AsyncConnectCompleted ==
    /\ thread.stage = "connecting" /\ status[thread.server] = "up"
    /\ thread' = RecordThatDataWasRead([thread EXCEPT !.stage = "connected", !.pinging = FALSE])
    /\ Tell(<<PeerInfo(thread.server, thread.conn)>>)
    /\ UNCHANGED <<owner, toThread, down, status, calls, sends, faults>>

\* ClientConnectionClosed(): the event loop ends, and the thread waits before
\* it looks for a server again.
ClientConnectionClosed ==
    /\ LeaveConnectionStage("delay")
    /\ UNCHANGED <<owner, toThread, status, calls, sends>>

\* The operating system sooner or later fails a connection to a server that
\* is off, and an attempt to connect that nobody answers.
Hopeless ==
    \/ InConnectionStage /\ status[thread.server] = "off"
    \/ thread.stage = "connecting" /\ status[thread.server] = "frozen"

\* The connection, or the attempt to make one, breaks.
ConnectionBreaks ==
    /\ InConnectionStage
    /\ \/ Hopeless /\ UNCHANGED faults
       \/ faults < MaxFaults /\ faults' = faults + 1
    /\ ClientConnectionClosed

\* DoDelayStage() ends, unless reconnecting is turned off.
DelayEnds ==
    /\ thread.stage = "delay" /\ owner.setting.reconnect
    /\ thread' = [thread EXCEPT !.stage = "discover"]
    /\ UNCHANGED <<owner, toThread, replies, callback, down, status, calls, sends, faults>>

\* A message is taken off the output queue.  PopNextOutgoingMessage() answers
\* a sync-ping itself; the server answers requests.
Answer(x) == CASE x.kind = "getparams" -> <<Message("params", thread.conn)>>
               [] x.kind = "ping"      -> <<Message("pong", thread.conn)>>
               [] OTHER                -> <<>>

PopNextOutgoingMessage ==
    /\ thread.stage = "connected" /\ thread.out # <<>>
    /\ LET x == Head(thread.out) IN
       /\ thread' = [thread EXCEPT !.out = Tail(@)]
       /\ \/ /\ x.kind = "sync"
             /\ Tell(<<Message("sync", thread.conn)>>)
             /\ UNCHANGED down
          \/ /\ x.kind # "sync" /\ status[thread.server] = "up"
             /\ down' = down \o Answer(x)
             /\ UNCHANGED <<replies, callback>>
    /\ UNCHANGED <<owner, toThread, status, calls, sends, faults>>

\* MessageReceivedFromGateway(): the pong of an inactivity ping is eaten.
MessageReceivedFromGateway ==
    /\ thread.stage = "connected" /\ down # <<>>
    /\ down' = Tail(down)
    /\ thread' = RecordThatDataWasRead([thread EXCEPT !.pinging = @ /\ Head(down).kind # "pong"])
    /\ Tell(IF Head(down).kind = "pong" THEN <<>> ELSE <<Head(down)>>)
    /\ UNCHANGED <<owner, toThread, status, calls, sends, faults>>

\* The time-sync session sends UDP pings from the moment the attempt to
\* connect is under way; a server that is up answers.
TimeSyncIsAnswered ==
    TimeSync /\ InConnectionStage /\ status[thread.server] = "up"

\* TimeSyncReceived(): the answer to a UDP ping counts as data read.
TimeSyncReceived ==
    /\ TimeSyncIsAnswered
    /\ thread' = RecordThatDataWasRead(thread)
    /\ UNCHANGED <<owner, toThread, replies, callback, down, status, calls, sends, faults>>

\* Mutant of Pulse: the ping that is due again pretends that data was read.
PulseResetsCount ==
    /\ InConnectionStage /\ thread.timer
    /\ status[thread.server] = "up" => (thread.out = <<>> /\ down = <<>> /\ thread.overdue = 0)
    /\ thread' = [thread EXCEPT !.pinging = TRUE, !.overdue = 0,
                     !.out = IF thread.pinging THEN @ ELSE Append(@, Message("ping", thread.conn))]
    /\ UNCHANGED <<owner, toThread, replies, callback, down, status, calls, sends, faults>>

\* Pulse(): an interval has passed without data.  One ping at a time is under
\* way; with a time-sync session the connection is given up in the end.  A
\* server that is up answers a ping before the next one falls due.
Pulse ==
    /\ InConnectionStage /\ thread.timer
    /\ status[thread.server] = "up" => (thread.out = <<>> /\ down = <<>> /\ thread.overdue = 0)
    /\ \/ /\ TimeSync /\ thread.overdue + 1 >= Overdue
          /\ ClientConnectionClosed
          /\ UNCHANGED faults
       \/ /\ ~TimeSync \/ thread.overdue + 1 < Overdue
          /\ thread' = [thread EXCEPT !.pinging = TRUE,
                           !.overdue = IF @ < Overdue THEN @ + 1 ELSE @,
                           !.out = IF thread.pinging THEN @ ELSE Append(@, Message("ping", thread.conn))]
          /\ UNCHANGED <<owner, toThread, replies, callback, down, status, calls, sends, faults>>

-----------------------------------------------------------------------------
\* The servers.

ServerSends ==
    /\ thread.stage = "connected" /\ status[thread.server] = "up"
    /\ sends < MaxServerSends /\ sends' = sends + 1
    /\ down' = Append(down, Message("data", thread.conn))
    /\ UNCHANGED <<owner, thread, toThread, replies, callback, status, calls, faults>>

\* A server hangs, dies, or comes back.
ServerChanges(s, now) ==
    /\ status[s] # now
    /\ \/ faults < MaxFaults /\ faults' = faults + 1
       \/ now = "up" /\ UNCHANGED faults
    /\ status' = [status EXCEPT ![s] = now]
    /\ UNCHANGED <<owner, thread, toThread, replies, callback, down, calls, sends>>

-----------------------------------------------------------------------------
Init ==
    /\ owner = OwnerInit
    /\ thread = IdleThread(0)
    /\ toThread = <<>> /\ replies = <<>> /\ callback = FALSE
    /\ down = <<>>
    /\ status = [s \in Servers |-> "up"]
    /\ calls = 0 /\ sends = 0 /\ faults = 0

OwnerStep ==
    \/ \E set \in Settings : Start(set)
    \/ Stop
    \/ Joined
    \/ \E kind \in {"data", "sync"} : SendOutgoingMessageToNetwork(kind)
    \/ DispatchCallbacks

\* What the I/O thread does with its time, and what it is woken up for.
ThreadStep ==
    \/ ReadFromOwner
    \/ \E s \in Servers : DiscoveryUpdate(s)
    \/ AsyncConnectCompleted
    \/ DelayEnds
    \/ PopNextOutgoingMessage
    \/ MessageReceivedFromGateway

Next ==
    \/ OwnerStep
    \/ ThreadStep
    \/ DiscoveryFails
    \/ ConnectionBreaks
    \/ TimeSyncReceived
    \/ Pulse
    \/ ServerSends
    \/ \E s \in Servers, now \in {"up", "frozen", "off"} : ServerChanges(s, now)

\* Both threads keep running, time passes, and a broken connection is noticed.
Fairness ==
    /\ WF_vars(Joined)
    /\ WF_vars(DispatchCallbacks)
    /\ WF_vars(ReadFromOwner)
    /\ WF_vars(\E s \in Servers : DiscoveryUpdate(s))
    /\ WF_vars(AsyncConnectCompleted)
    /\ WF_vars(DelayEnds)
    /\ WF_vars(PopNextOutgoingMessage)
    /\ WF_vars(MessageReceivedFromGateway)
    /\ WF_vars(Hopeless /\ ConnectionBreaks)
    /\ WF_vars(InConnectionStage /\ status[thread.server] = "frozen" /\ Pulse)

Spec == Init /\ [][Next]_vars
FairSpec == Spec /\ Fairness

-----------------------------------------------------------------------------
\* Properties.

\* What a server sends, and what the I/O thread hands to the owner.
FromServer == [kind : {"params", "pong", "data"}, conn : Nat]

Callbacks ==
    [kind : {"peerinfo"}, server : Servers \union {NoServer}, conn : Nat]
    \union [kind : {"params", "data", "sync"}, conn : Nat]

OwnerStates ==
    [setting : Settings \union {NotStarted}, next : Settings \union {NotStarted},
     stopping : BOOLEAN, server : Servers \union {NoServer}, conn : Nat,
     expecting : BOOLEAN, gateway : BOOLEAN, params : Nat]

\* Types of the state of both threads and of the queues between them.
TypeOK ==
    /\ owner \in OwnerStates
    /\ DOMAIN thread = DOMAIN IdleThread(0)
    /\ thread.stage \in {"off", "discover", "connecting", "connected", "delay"}
    /\ thread.conn \in Nat
    /\ thread.server \in Servers \union {NoServer}
    /\ thread.overdue \in 0..Overdue
    /\ replies \in Seq(Callbacks)
    /\ callback \in BOOLEAN
    /\ down \in Seq(FromServer)
    /\ status \in [Servers -> {"up", "frozen", "off"}]

\* What the owner will believe once the first n queued callbacks are handled.
Believed(n) ==
    LET infos == {i \in 1..n : replies[i].kind = "peerinfo"}
    IN  IF infos = {} THEN owner.conn ELSE replies[Max(infos)].conn

\* The owner is never left with a wrong idea of the connection: at any moment
\* the queued callbacks lead to the truth and DispatchCallbacks() is going to
\* be called for them, across failures, Stop() and restarts.
OwnerLearnsTheTruth ==
    /\ Believed(Len(replies)) = IF thread.stage = "connected" THEN thread.conn ELSE 0
    /\ replies # <<>> => callback

\* A message is handed to the owner while it believes in the connection the
\* message came over, and in no other.
MessagesBelongToConnection ==
    \A i \in DOMAIN replies :
       replies[i].kind # "peerinfo" => replies[i].conn = Believed(i)

\* A connection that is wanted, and possible, comes about and its gateway
\* opens, whatever has failed before.
Wanted ==
    /\ ~owner.stopping /\ owner.setting # NotStarted /\ owner.setting.reconnect
    /\ \E s \in owner.setting.match : status[s] = "up"
Reconnects == <>[]Wanted => <>[]owner.gateway

\* Stop(), and Start() with new settings, return.
StopReturns == owner.stopping ~> ~owner.stopping

-----------------------------------------------------------------------------
\* The inductive invariant behind OwnerLearnsTheTruth and
\* MessagesBelongToConnection.

\* A connection has a server, and what has come over it and is not handled
\* yet is of this connection; without one nothing is left to handle.
InputIsOfThisConnection ==
    /\ InConnectionStage => thread.server # NoServer
    /\ \A i \in DOMAIN down : down[i].conn = thread.conn
    /\ down # <<>> => thread.stage = "connected"

\* Who is told that there is no server is told that there is no connection.
NoServerNoConnection ==
    \A i \in DOMAIN replies :
       replies[i].kind = "peerinfo" /\ replies[i].server = NoServer => replies[i].conn = 0

ConnectorInvariant ==
    /\ TypeOK
    /\ InputIsOfThisConnection
    /\ NoServerNoConnection
    /\ OwnerLearnsTheTruth
    /\ MessagesBelongToConnection
=============================================================================

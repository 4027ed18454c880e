--------------------------- MODULE MuxTreeGateway ---------------------------
(***************************************************************************)
(* The message-tree subscription path, from the subscribers of one client  *)
(* through its MuxTreeGateway and ClientSideNetworkTreeGateway, over one   *)
(* TCP connection, to the client's ServerSideMessageTreeSession on a peer  *)
(* and back.  The mux merges its subscribers' subscriptions into one set   *)
(* of upstream subscriptions, and splits what the server answers again:    *)
(* a re-subscription is bracketed by two pings ("obss:ids" and "obss:")    *)
(* whose pongs limit the callbacks in between to the subscribers that      *)
(* asked for it.                                                           *)
(*                                                                         *)
(* A subscription path is the set of nodes it selects, a QueryFilter the   *)
(* set of payloads it accepts.  The server's tree and its subscription     *)
(* table (MUSCLE's StorageReflectSession) are external.                    *)
(***************************************************************************)
EXTENDS Integers, Sequences, FiniteSets, SequencesExt, Functions

CONSTANTS
  Subscribers,      \* the ITreeGatewaySubscriber objects of this client
  Nodes,            \* nodes of the server's message tree
  Patterns,         \* subscription paths, each the set of nodes it selects
  Values,           \* node payloads
  NoValue,          \* the payload of a node that does not exist
  Filters,          \* QueryFilters, each a set of payloads (Values: no filter)
  QuietFlags,       \* settings of TREE_GATEWAY_FLAG_NOREPLY that callers use
  BatchFlags,       \* whether a call that issues several commands may be made
                    \* inside a command batch (TRUE), outside of one (FALSE)
  Hasty,            \* TRUE: a subscriber may subscribe twice to one path, or
                    \* to one whose last subscription still has results coming
  MaxCommands,      \* bound: commands issued by subscribers
  MaxWrites,        \* bound: changes to the tree by other clients
  MaxConnects       \* bound: connections made

ASSUME MuxAssumption ==
    /\ NoValue \notin Values
    /\ Patterns \subseteq SUBSET Nodes
    /\ Filters \subseteq SUBSET Values
    /\ QuietFlags \subseteq BOOLEAN /\ BatchFlags \subseteq BOOLEAN
    /\ Hasty \in BOOLEAN
    /\ {MaxCommands, MaxWrites, MaxConnects} \subseteq Nat

VARIABLES
  mux,              \* the MuxTreeGateway object, see MuxType
  view,             \* what each subscriber has been told of each node
  up,               \* the TCP stream to the server: a sequence of packets
  down,             \* the TCP stream to the client: a sequence of replies
  tree,             \* the server's message tree
  table,            \* the subscriptions of the server-side session
  withheld,         \* history: <<s, n>> if a change of node n was sent while a
                    \* bracket was open that leaves subscriber s out, and s
                    \* has not been sent n's payload since
  commands, writes, connects    \* how often the bounded actions were taken

vars == <<mux, view, up, down, tree, table, withheld, commands, writes, connects>>

NoFunction == [x \in {} |-> x]
PartialFunctions(S, T) == UNION {[D -> T] : D \in SUBSET S}
Without(f, x) == Restrict(f, DOMAIN f \ {x})
With(f, x, y) == [z \in DOMAIN f \union {x} |-> IF z = x THEN y ELSE f[z]]

SubscriptionInfo == [sub : Subscribers, filter : Filters, quiet : BOOLEAN]

(***************************************************************************)
(* The fields of MuxTreeGateway and IGateway.  ids is _registeredSubscri-  *)
(* bers (0: not registered); infos is the path matcher of each entry of    *)
(* _subscriberInfos (empty: no info), received its _receivedPaths;         *)
(* allowed is _allowedCallbacks as registration IDs, 0 for                 *)
(* _dummySubscriber.                                                       *)
(***************************************************************************)
MuxInit ==
    [connected  |-> FALSE,
     counter    |-> 0,
     ids        |-> [s \in Subscribers |-> 0],
     infos      |-> [s \in Subscribers |-> NoFunction],
     received   |-> [s \in Subscribers |-> {}],
     subscribed |-> NoFunction,
     allowed    |-> {},
     requested  |-> [s \in Subscribers |-> <<>>]]

Registered(m, s) == m.ids[s] # 0

\* ParseRegistrationID(): the subscriber with this ID, if it still exists.
Holders(m, id) == {s \in Subscribers : id # 0 /\ m.ids[s] = id}

-----------------------------------------------------------------------------
\* Upstream traffic.

\* The commands, as ClientSideNetworkTreeGateway puts them into messages.
PingCommand(ids) == [cmd |-> "obss", ids |-> ids]
AddCommand(path, filter, quiet) ==
    [cmd |-> "subscribe", path |-> path, filter |-> filter, quiet |-> quiet]
RemoveCommand(path) == [cmd |-> "unsubscribe", path |-> path]
SubtreesCommand(id, path, values) == [cmd |-> "subtrees", id |-> id, path |-> path, values |-> values]
UploadCommand(n, v, skip) == [cmd |-> "upload", node |-> n, value |-> v, skip |-> skip]
DeleteCommand(n, skip) == [cmd |-> "upload", node |-> n, value |-> NoValue, skip |-> skip]
MessageCommand(n, from) == [cmd |-> "tosubscriber", node |-> n, from |-> from]

\* SendOutgoingMessageToNetwork(): inside a command batch the commands travel
\* as one message; without a connection they get nowhere.
Send(m, stream, cmds, batched) ==
    IF ~m.connected \/ cmds = <<>> THEN stream
    ELSE IF batched THEN Append(stream, cmds)
    ELSE stream \o [i \in DOMAIN cmds |-> <<cmds[i]>>]


\* The filter UpdateSubscription() sends: the union of the subscribers'.
UnionFilter(q) == UNION {q[i].filter : i \in DOMAIN q}

\* Mutant of UpdateSubscription: the closing ping is forgotten.
UpdateWithoutClosingPing(m, path, names, quiet) ==
    IF path \in DOMAIN m.subscribed /\ m.subscribed[path] # <<>>
    THEN <<PingCommand(names), AddCommand(path, UnionFilter(m.subscribed[path]), quiet)>>
    ELSE <<RemoveCommand(path)>>

\* UpdateSubscription(): (re)subscribe upstream for everyone who wants this
\* path, bracketed by the pings that name those the answer is for.
UpdateSubscription(m, path, names, quiet) ==
    IF path \in DOMAIN m.subscribed /\ m.subscribed[path] # <<>>
    THEN <<PingCommand(names),
           AddCommand(path, UnionFilter(m.subscribed[path]), quiet),
           PingCommand({})>>
    ELSE <<RemoveCommand(path)>>

\* TreeGateway_AddSubscription().
AddedSubscription(m, s, path, filter, quiet) ==
    LET q == IF path \in DOMAIN m.subscribed THEN m.subscribed[path] ELSE <<>> IN
    [m EXCEPT !.subscribed = With(@, path, Append(q, [sub |-> s, filter |-> filter, quiet |-> quiet])),
              !.infos[s]   = With(@, path, filter)]

\* Whether path matcher pm selects node n holding v (v ignored when NoValue).
MatchesPath(pm, n, v) == \E p \in DOMAIN pm : n \in p /\ (v = NoValue \/ v \in pm[p])

\* The entry of the path's queue that TreeGateway_RemoveSubscription() removes.
RemoveIndexes(m, s, path, filter, quiet) ==
    IF path \notin DOMAIN m.subscribed THEN {}
    ELSE {i \in DOMAIN m.subscribed[path] :
             m.subscribed[path][i] = [sub |-> s, filter |-> filter, quiet |-> quiet]}

\* TreeGateway_RemoveSubscription(), its effect on the mux once such an entry
\* is found: the path leaves the subscriber's matcher, and with it the
\* received nodes that no other of its paths selects.
RemovedSubscription(m, s, path, filter, quiet) ==
    LET idxs == RemoveIndexes(m, s, path, filter, quiet)
        i    == CHOOSE k \in idxs : \A j \in idxs : k <= j
        q    == RemoveAt(m.subscribed[path], i)
        pm   == Without(m.infos[s], path)
    IN  [m EXCEPT !.subscribed  = IF q = <<>> THEN Without(@, path) ELSE With(@, path, q),
                  !.infos[s]    = pm,
                  !.received[s] = {n \in @ : MatchesPath(pm, n, NoValue)}]

\* Mutant of RemoveStep: the server is not told of the removal.
RemoveWithoutUpdate(acc, s, path) ==
    LET m == acc.mux IN
    IF RemoveIndexes(m, s, path, m.infos[s][path], FALSE) = {} THEN acc
    ELSE [acc EXCEPT !.mux = RemovedSubscription(m, s, path, m.infos[s][path], FALSE)]

\* One step of TreeGateway_RemoveAllSubscriptions(): the removal of a path
\* that the subscriber's matcher lists, always with default flags.
RemoveStep(acc, s, path) ==
    LET m == acc.mux IN
    IF RemoveIndexes(m, s, path, m.infos[s][path], FALSE) = {} THEN acc
    ELSE LET m2 == RemovedSubscription(m, s, path, m.infos[s][path], FALSE)
         IN  [mux  |-> m2,
              cmds |-> acc.cmds \o UpdateSubscription(m2, path, {m.ids[s]}, FALSE)]

\* Its loop over the paths.
RemovedInTurn(m, s, paths) ==
    LET after[n \in 0..Len(paths)] ==
            IF n = 0 THEN [mux |-> m, cmds |-> <<>>]
            ELSE RemoveStep(after[n - 1], s, paths[n])
    IN  after[Len(paths)]

\* TreeGateway_RemoveAllSubscriptions().
RemovedAll(m, s) == RemovedInTurn(m, s, SetToSeq(DOMAIN m.infos[s]))

-----------------------------------------------------------------------------
\* Actions of the subscribers, in the client's main thread.

Command(s) == commands < MaxCommands /\ commands' = commands + 1

\* A subscriber forgets the nodes it is no longer subscribed to.
Forget(s, m) ==
    /\ view' = [view EXCEPT ![s] = [n \in Nodes |->
                  IF MatchesPath(m.infos[s], n, NoValue) THEN @[n] ELSE NoValue]]
    /\ withheld' = {x \in withheld : x[1] = s => MatchesPath(m.infos[s], x[2], NoValue)}

\* IGateway::RegisterSubscriber(): IDs are never used twice.
NewRegistration(m, s) == [m EXCEPT !.counter = @ + 1, !.ids[s] = m.counter + 1]

\* IGateway::UnregisterSubscriber().
EndRegistration(m, s) == [m EXCEPT !.ids[s] = 0]

\* SetGateway(): RegisterSubscriber().
RegisterSubscriber(s) ==
    /\ Command(s)
    /\ ~Registered(mux, s)
    /\ mux' = NewRegistration(mux, s)
    /\ UNCHANGED <<view, up, down, tree, table, withheld, writes, connects>>

\* UnregisterSubscriber(): what is under way for it must reach nobody else.
UnregisterSubscriber(s) ==
    /\ Command(s)
    /\ Registered(mux, s)
    /\ LET acc == RemovedAll(mux, s) IN
       /\ mux' = [EndRegistration(acc.mux, s) EXCEPT
                      !.infos[s]     = NoFunction,
                      !.received[s]  = {},
                      !.requested[s] = <<>>,
                      !.allowed      = IF mux.ids[s] \in @
                                       THEN (@ \ {mux.ids[s]}) \union {0} ELSE @]
       /\ up' = Send(mux, up, acc.cmds, TRUE)
    /\ Forget(s, mux')
    /\ UNCHANGED <<down, tree, table, writes, connects>>

\* Nothing that an earlier subscription to this path caused is under way.
Settled(path) ==
    /\ \A i \in DOMAIN up : \A j \in DOMAIN up[i] :
          up[i][j].cmd \in {"subscribe", "unsubscribe"} => up[i][j].path \intersect path = {}
    /\ \A i \in DOMAIN down : down[i].re = "items" => DOMAIN down[i].items \intersect path = {}

AddSubscription(s, path, filter, quiet) ==
    /\ Command(s)
    /\ Registered(mux, s)
    /\ \/ Hasty
       \/ path \in DOMAIN mux.subscribed /\ path \notin DOMAIN mux.infos[s]
       \/ path \notin DOMAIN mux.subscribed /\ Settled(path)
    /\ mux' = AddedSubscription(mux, s, path, filter, quiet)
    /\ \E batched \in BatchFlags :
          up' = Send(mux, up, UpdateSubscription(mux', path, {mux.ids[s]}, quiet), batched)
    /\ UNCHANGED <<view, down, tree, table, withheld, writes, connects>>

RemoveSubscription(s, path, filter, quiet) ==
    /\ Command(s)
    /\ Registered(mux, s)
    /\ RemoveIndexes(mux, s, path, filter, quiet) # {}
    /\ mux' = RemovedSubscription(mux, s, path, filter, quiet)
    /\ \E batched \in BatchFlags :
          up' = Send(mux, up, UpdateSubscription(mux', path, {mux.ids[s]}, FALSE), batched)
    /\ Forget(s, mux')
    /\ UNCHANGED <<down, tree, table, writes, connects>>

RemoveAllSubscriptions(s) ==
    /\ Command(s)
    /\ Registered(mux, s) /\ mux.infos[s] # NoFunction
    /\ LET acc == RemovedAll(mux, s) IN
       /\ mux' = acc.mux
       /\ up' = Send(mux, up, acc.cmds, TRUE)
    /\ Forget(s, mux')
    /\ UNCHANGED <<down, tree, table, writes, connects>>

\* TreeGateway_RequestNodeSubtreesAux(): refused while disconnected.
RequestNodeSubtreesAux(s, path, values) ==
    /\ Command(s)
    /\ Registered(mux, s) /\ mux.connected
    /\ mux' = [mux EXCEPT !.requested[s] = Append(@, path)]
    /\ up' = Send(mux, up, <<SubtreesCommand(mux.ids[s], path, values)>>, TRUE)
    /\ UNCHANGED <<view, down, tree, table, withheld, writes, connects>>

RequestNodeSubtrees(s, path) == RequestNodeSubtreesAux(s, path, FALSE)

\* TreeGateway_RequestNodeValues(): the same under the marker '='.
RequestNodeValues(s, path) == RequestNodeSubtreesAux(s, path, TRUE)

\* TagToExcludeClientFromReplies(): the registration a NOREPLY operation is
\* tagged with, so that its own mux leaves the caller out.
TagToExclude(s, quiet) == IF quiet THEN mux.ids[s] ELSE 0

UploadNodeValue(s, n, v, quiet) ==
    /\ Command(s)
    /\ Registered(mux, s)
    /\ up' = Send(mux, up, <<UploadCommand(n, v, TagToExclude(s, quiet))>>, TRUE)
    /\ UNCHANGED <<mux, view, down, tree, table, withheld, writes, connects>>

\* TreeGateway_RequestDeleteNodes() goes upstream untagged.
RequestDeleteNodes(s, n) ==
    /\ Command(s)
    /\ Registered(mux, s)
    /\ up' = Send(mux, up, <<DeleteCommand(n, 0)>>, TRUE)
    /\ UNCHANGED <<mux, view, down, tree, table, withheld, writes, connects>>

\* TreeGateway_SendMessageToSubscriber(), to whoever is subscribed to n.
SendMessageToSubscriber(s, n) ==
    /\ Command(s)
    /\ Registered(mux, s) /\ mux.connected
    /\ up' = Send(mux, up, <<MessageCommand(n, mux.ids[s])>>, TRUE)
    /\ UNCHANGED <<mux, view, down, tree, table, withheld, writes, connects>>

-----------------------------------------------------------------------------
\* The server: ServerSideMessageTreeSession and the tree behind it.

\* What the session's subscriptions select of node n holding v.
Subscribed(tab, n, v) == \E p \in DOMAIN tab : n \in p /\ v \in tab[p]

\* The notification a change of node n from old to new causes, if any.
Notification(tab, n, old, new, skip) ==
    IF Subscribed(tab, n, new)
    THEN <<[re |-> "items", items |-> [k \in {n} |-> new], skip |-> skip]>>
    ELSE IF Subscribed(tab, n, old)
    THEN <<[re |-> "items", items |-> [k \in {n} |-> NoValue], skip |-> skip]>>
    ELSE <<>>

CurrentItems(t, path, filter) ==
    Restrict(t, {n \in path : t[n] # NoValue /\ t[n] \in filter})

\* The answers, as ServerSideNetworkTreeGatewaySubscriber puts them together.
PongReply(ids) == [re |-> "obss", ids |-> ids]
SubtreesReply(c) == [re |-> "subtrees", id |-> c.id, path |-> c.path, values |-> c.values]
MessageReply(n, from) == [re |-> "fromsubscriber", node |-> n, from |-> from]

\* IncomingTreeMessageReceivedFromClient() for one command: what it makes of
\* the subscriptions and of the tree, and what it answers.
TableAfter(tab, c) ==
    CASE c.cmd = "subscribe"   -> With(tab, c.path, c.filter)
      [] c.cmd = "unsubscribe" -> Without(tab, c.path)
      [] OTHER                 -> tab

TreeAfter(t, c) == IF c.cmd = "upload" THEN [t EXCEPT ![c.node] = c.value] ELSE t

Answers(tab, t, c) ==
    CASE c.cmd = "obss" -> <<PongReply(c.ids)>>
      [] c.cmd = "subscribe" ->
           LET items == CurrentItems(t, c.path, c.filter) IN
           IF c.quiet \/ items = NoFunction THEN <<>>
           ELSE <<[re |-> "items", items |-> items, skip |-> 0]>>
      [] c.cmd = "unsubscribe" -> <<>>
      [] c.cmd = "subtrees" -> <<SubtreesReply(c)>>
      [] c.cmd = "upload" -> Notification(tab, c.node, t[c.node], c.value, c.skip)
      [] c.cmd = "tosubscriber" ->
           IF Subscribed(tab, c.node, t[c.node]) THEN <<MessageReply(c.node, c.from)>> ELSE <<>>

\* The same on the server's state acc = [tab, tree, out].
ServeCommand(acc, c) ==
    [tab  |-> TableAfter(acc.tab, c),
     tree |-> TreeAfter(acc.tree, c),
     out  |-> acc.out \o Answers(acc.tab, acc.tree, c)]

\* Every command of a batch, in order.
Served(acc, packet) ==
    LET after[n \in 0..Len(packet)] ==
            IF n = 0 THEN acc ELSE ServeCommand(after[n - 1], packet[n])
    IN  after[Len(packet)]

\* The registrations that reply i of a stream on its way to mux m is meant for,
\* as the pongs before it say ({}: for everybody).
Addressees(m, replies, i) ==
    LET pongs == {j \in 1..(i - 1) : replies[j].re = "obss"}
    IN  IF pongs = {} THEN m.allowed ELSE replies[Max(pongs)].ids

\* Subscriber s is to be told of node n by reply i.
Tells(m, replies, i, s, n) ==
    /\ replies[i].re = "items" /\ n \in DOMAIN replies[i].items
    /\ Addressees(m, replies, i) = {} \/ m.ids[s] \in Addressees(m, replies, i)

\* What remains withheld when a stream has grown from `old' to `new'.
StillWithheld(old, new) ==
    {x \in withheld : \A i \in DOMAIN new \ DOMAIN old : ~Tells(mux, new, i, x[1], x[2])}

\* The subscribers that the notification of node n ending a stream leaves out.
LeftOut(n, replies) ==
    {s \in Subscribers : /\ MatchesPath(mux.infos[s], n, NoValue)
                         /\ ~Tells(mux, replies, Len(replies), s, n)}

\* MessageReceivedFromGateway(): one packet.
ServePacket ==
    /\ up # <<>>
    /\ LET acc == Served([tab |-> table, tree |-> tree, out |-> down], Head(up))
       IN  /\ table' = acc.tab
           /\ tree' = acc.tree
           /\ down' = acc.out
    /\ up' = Tail(up)
    /\ withheld' = StillWithheld(down, down')
    /\ UNCHANGED <<mux, view, commands, writes, connects>>

\* Another client, or another peer, changes, creates or deletes a node.
OtherWrite(n, v) ==
    /\ writes < MaxWrites /\ writes' = writes + 1
    /\ tree[n] # v
    /\ tree' = [tree EXCEPT ![n] = v]
    /\ down' = IF mux.connected THEN down \o Notification(table, n, tree[n], v, 0) ELSE down
    /\ withheld' = StillWithheld(down, down') \union
                      (IF down' = down THEN {} ELSE LeftOut(n, down') \X {n})
    /\ UNCHANGED <<mux, view, up, table, commands, connects>>

-----------------------------------------------------------------------------
\* The mux handles what comes down.

\* The subscribers TreeNodeUpdatedAux() considers.
Audience(m, skip) ==
    {s \in Subscribers : /\ m.infos[s] # NoFunction
                         /\ m.allowed = {} \/ m.ids[s] \in m.allowed
                         /\ s \notin Holders(m, skip)}

\* DoesPathMatch(): whether node n with payload v is for subscriber s.
DoesPathMatch(m, s, n, v) == v # NoValue /\ MatchesPath(m.infos[s], n, v)

\* TreeNodeUpdated() and UpdateSubscriber(), for all the nodes of a reply.
HandleItems(r) ==
    LET told(s) == IF s \in Audience(mux, r.skip) THEN DOMAIN r.items ELSE {}
        hit(s)  == {n \in told(s) : DoesPathMatch(mux, s, n, r.items[n])}
        lost(s) == (told(s) \ hit(s)) \intersect mux.received[s]
    IN  /\ mux' = [mux EXCEPT !.received = [s \in Subscribers |-> (@[s] \union hit(s)) \ lost(s)]]
        /\ view' = [s \in Subscribers |-> [n \in Nodes |->
                       IF n \in hit(s) THEN r.items[n]
                       ELSE IF n \in lost(s) THEN NoValue ELSE view[s][n]]]

\* TreeLocalPeerPonged() with an "obss:" tag: a requester that is gone is
\* replaced by _dummySubscriber, so that the answer reaches nobody else.
HandleObss(r) ==
    /\ mux' = [mux EXCEPT !.allowed = {IF Holders(mux, id) = {} THEN 0 ELSE id : id \in r.ids}]
    /\ UNCHANGED view

\* SubtreesRequestResultReturned(): only a result that was asked for counts.
HandleSubtrees(r) ==
    /\ mux' = [mux EXCEPT !.requested = [s \in Subscribers |->
                 IF s \in Holders(mux, r.id) THEN RemoveFirst(@[s], r.path) ELSE @[s]]]
    /\ UNCHANGED view

\* MessageReceivedFromSubscriber(): for those who have been told of the node.
HandleMessage(r) ==
    /\ \E s \in Subscribers : r.node \in mux.received[s]
    /\ UNCHANGED <<mux, view>>

IgnoreMessage(r) ==
    /\ \A s \in Subscribers : r.node \notin mux.received[s]
    /\ UNCHANGED <<mux, view>>

\* IncomingTreeMessageReceivedFromServer().
HandleReply ==
    /\ down # <<>>
    /\ down' = Tail(down)
    /\ LET r == Head(down) IN
       \/ r.re = "items" /\ HandleItems(r)
       \/ r.re = "obss" /\ HandleObss(r)
       \/ r.re = "subtrees" /\ HandleSubtrees(r)
       \/ r.re = "fromsubscriber" /\ (HandleMessage(r) \/ IgnoreMessage(r))
    /\ UNCHANGED <<up, tree, table, withheld, commands, writes, connects>>

-----------------------------------------------------------------------------
\* SetNetworkConnected() and TreeGatewayConnectionStateChanged().

\* A path is subscribed again for everyone who wants it.
SubscribedAgain(m, p) ==
    UpdateSubscription(m, p, {m.ids[m.subscribed[p][i].sub] : i \in DOMAIN m.subscribed[p]},
                       \A i \in DOMAIN m.subscribed[p] : m.subscribed[p][i].quiet)

\* The loop over the paths, whose commands are one batch.
SubscribedInTurn(m, paths) ==
    LET cmds[n \in 0..Len(paths)] ==
            IF n = 0 THEN <<>> ELSE cmds[n - 1] \o SubscribedAgain(m, paths[n])
    IN  cmds[Len(paths)]

Resubscribe(m) == SubscribedInTurn(m, SetToSeq(DOMAIN m.subscribed))

Connected ==
    /\ connects < MaxConnects /\ connects' = connects + 1
    /\ ~mux.connected
    /\ mux' = [mux EXCEPT !.connected = TRUE]
    /\ up' = IF Resubscribe(mux) = <<>> THEN <<>> ELSE <<Resubscribe(mux)>>
    /\ down' = <<>>
    /\ table' = NoFunction
    /\ UNCHANGED <<view, tree, withheld, commands, writes>>

\* Mutant of Disconnected: requests stay pending after the connection is lost.
RequestsOutliveConnection ==
    /\ mux.connected
    /\ mux' = [mux EXCEPT !.connected = FALSE]
    /\ view' = [s \in Subscribers |-> [n \in Nodes |-> NoValue]]
    /\ up' = <<>> /\ down' = <<>> /\ table' = NoFunction /\ withheld' = {}
    /\ UNCHANGED <<tree, commands, writes, connects>>

\* The server forgets the session; the subscribers learn of it and drop what
\* they know.
Disconnected ==
    /\ mux.connected
    /\ mux' = [mux EXCEPT !.connected = FALSE,
                          !.requested = [s \in Subscribers |-> <<>>]]
    /\ view' = [s \in Subscribers |-> [n \in Nodes |-> NoValue]]
    /\ up' = <<>> /\ down' = <<>> /\ table' = NoFunction /\ withheld' = {}
    /\ UNCHANGED <<tree, commands, writes, connects>>

-----------------------------------------------------------------------------
Init ==
    /\ mux = MuxInit
    /\ view = [s \in Subscribers |-> [n \in Nodes |-> NoValue]]
    /\ up = <<>> /\ down = <<>>
    /\ tree \in [Nodes -> Values \union {NoValue}]
    /\ table = NoFunction /\ withheld = {}
    /\ commands = 0 /\ writes = 0 /\ connects = 0

SubscriberStep(s) ==
    \/ RegisterSubscriber(s)
    \/ UnregisterSubscriber(s)
    \/ \E p \in Patterns, f \in Filters, quiet \in QuietFlags :
          AddSubscription(s, p, f, quiet) \/ RemoveSubscription(s, p, f, quiet)
    \/ RemoveAllSubscriptions(s)
    \/ \E p \in Patterns : RequestNodeSubtrees(s, p) \/ RequestNodeValues(s, p)
    \/ \E n \in Nodes, v \in Values, quiet \in QuietFlags : UploadNodeValue(s, n, v, quiet)
    \/ \E n \in Nodes : RequestDeleteNodes(s, n) \/ SendMessageToSubscriber(s, n)

Next ==
    \/ \E s \in Subscribers : SubscriberStep(s)
    \/ ServePacket
    \/ \E n \in Nodes, v \in Values \union {NoValue} : OtherWrite(n, v)
    \/ HandleReply
    \/ Connected
    \/ Disconnected

Spec == Init /\ [][Next]_vars

-----------------------------------------------------------------------------
\* Properties.

Payloads == Values \union {NoValue}

IsPartialFunction(f, S, T) == DOMAIN f \subseteq S /\ f \in [DOMAIN f -> T]

\* The fields of a mux, and nothing else.
IsMux(m) ==
    /\ m = [connected |-> m.connected, counter |-> m.counter, ids |-> m.ids,
            infos |-> m.infos, received |-> m.received, subscribed |-> m.subscribed,
            allowed |-> m.allowed, requested |-> m.requested]
    /\ m.connected \in BOOLEAN
    /\ m.counter \in Nat
    /\ m.ids \in [Subscribers -> Nat]
    /\ m.infos \in [Subscribers -> PartialFunctions(Patterns, Filters)]
    /\ m.received \in [Subscribers -> SUBSET Nodes]
    /\ IsPartialFunction(m.subscribed, Patterns, Seq(SubscriptionInfo))
    /\ m.allowed \in SUBSET Nat
    /\ m.requested \in [Subscribers -> Seq(Patterns)]

\* What travels while n registrations have been made.
Commands(n) ==
    [cmd : {"obss"}, ids : SUBSET Nat]
    \union [cmd : {"subscribe"}, path : Patterns, filter : SUBSET Values, quiet : BOOLEAN]
    \union [cmd : {"unsubscribe"}, path : Patterns]
    \union [cmd : {"subtrees"}, id : 1..n, path : Patterns, values : BOOLEAN]
    \union [cmd : {"upload"}, node : Nodes, value : Payloads, skip : Nat]
    \union [cmd : {"tosubscriber"}, node : Nodes, from : Nat]

Replies(n) ==
    [re : {"obss"}, ids : SUBSET Nat]
    \union [re : {"items"}, items : PartialFunctions(Nodes, Payloads), skip : Nat]
    \union [re : {"subtrees"}, id : 1..n, path : Patterns, values : BOOLEAN]
    \union [re : {"fromsubscriber"}, node : Nodes, from : Nat]

\* Types of the mux's tables, of everybody's views and of the traffic.
TypeOK ==
    /\ IsMux(mux)
    /\ view \in [Subscribers -> [Nodes -> Payloads]]
    /\ up \in Seq(Seq(Commands(mux.counter)))
    /\ down \in Seq(Replies(mux.counter))
    /\ tree \in [Nodes -> Payloads]
    /\ table \in PartialFunctions(Patterns, SUBSET Values)
    /\ withheld \subseteq Subscribers \X Nodes
    /\ {commands, writes, connects} \subseteq Nat

Quiet == mux.connected /\ up = <<>> /\ down = <<>>

\* What subscriber s should know of node n.
Current(s, n) == IF DoesPathMatch(mux, s, n, tree[n]) THEN tree[n] ELSE NoValue

\* "Called by the upstream gateway to notify this subscriber about the new
\* current state of a particular subscribed-to database node", as
\* ITreeGatewaySubscriber::TreeNodeUpdated() has it: once the traffic has
\* settled every subscriber knows the server's current payload of each node
\* its subscriptions select.  It does not hold: see the property below.
EveryViewIsCurrent ==
    Quiet => \A s \in Subscribers : mux.infos[s] # NoFunction => \A n \in Nodes :
       view[s][n] = Current(s, n)


-----------------------------------------------------------------------------
(***************************************************************************)
(* What the traffic under way will have led to when it has all been        *)
(* handled: tab is the server-side session's subscriptions, open says      *)
(* whether the mux is left in the receiving-initial-results mode, and      *)
(* answers are the paths of the results returned to registration id.       *)
(***************************************************************************)
ReplyDone(id, x, r) ==
    [tab     |-> x.tab,
     open    |-> IF r.re = "obss" THEN r.ids # {} ELSE x.open,
     answers |-> IF r.re = "subtrees" /\ r.id = id THEN Append(x.answers, r.path) ELSE x.answers]

CommandDone(id, x, c) ==
    [tab     |-> TableAfter(x.tab, c),
     open    |-> IF c.cmd = "obss" THEN c.ids # {} ELSE x.open,
     answers |-> IF c.cmd = "subtrees" /\ c.id = id THEN Append(x.answers, c.path) ELSE x.answers]

RepliesDone(id, x, replies) ==
    LET after[n \in 0..Len(replies)] ==
            IF n = 0 THEN x ELSE ReplyDone(id, after[n - 1], replies[n])
    IN  after[Len(replies)]

PacketDone(id, x, packet) ==
    LET after[n \in 0..Len(packet)] ==
            IF n = 0 THEN x ELSE CommandDone(id, after[n - 1], packet[n])
    IN  after[Len(packet)]

PacketsDone(id, x, packets) ==
    LET after[n \in 0..Len(packets)] ==
            IF n = 0 THEN x ELSE PacketDone(id, after[n - 1], packets[n])
    IN  after[Len(packets)]

Foreseen(id) ==
    LET now == [tab |-> table, open |-> mux.allowed # {}, answers |-> <<>>]
    IN  PacketsDone(id, RepliesDone(id, now, down), up)

\* The upstream subscriptions that the subscribers want.
Wanted(m) == [p \in DOMAIN m.subscribed |-> UnionFilter(m.subscribed[p])]

\* At any moment the commands already issued lead to exactly the upstream
\* subscriptions the subscribers want, each with the union of their filters:
\* nothing is left subscribed for nobody, and nobody is forgotten.
UpstreamMatchesDownstream == mux.connected => Foreseen(0).tab = Wanted(mux)

\* Every request a subscriber waits for has its command or its answer under
\* way, under the registration it was made with, and conversely.
RequestsAreUnderWay ==
    \A s \in Subscribers : mux.requested[s] = Foreseen(mux.ids[s]).answers

\* Nobody is left in the receiving-initial-results mode, which would cut the
\* others off from updates, once the traffic has settled.
NobodyIsCutOff == Quiet /\ mux.allowed # {} => \A s \in Subscribers : mux.infos[s] = NoFunction

-----------------------------------------------------------------------------
\* The inductive invariant behind them.

\* A path is kept upstream while somebody wants it, in particular for every
\* subscriber whose matcher has it; there are finitely many.
SubscriptionsAreShared(m) ==
    /\ IsFiniteSet(DOMAIN m.subscribed)
    /\ \A p \in DOMAIN m.subscribed : m.subscribed[p] # <<>>
    /\ \A s \in Subscribers : IsFiniteSet(DOMAIN m.infos[s])
    /\ \A s \in Subscribers : \A p \in DOMAIN m.infos[s] :
          /\ p \in DOMAIN m.subscribed
          /\ \E i \in DOMAIN m.subscribed[p] : m.subscribed[p][i].sub = s

\* Registrations differ, and none is from the future.
IDsAreUnique ==
    /\ \A s \in Subscribers : mux.ids[s] <= mux.counter
    /\ \A s, t \in Subscribers : mux.ids[s] = mux.ids[t] /\ mux.ids[s] # 0 => s = t

\* The mode will be left, unless there is nobody to be cut off.
BracketsAreClosed ==
    mux.connected /\ Foreseen(0).open => \A s \in Subscribers : mux.infos[s] = NoFunction

NoTrafficOffLine == ~mux.connected => up = <<>> /\ down = <<>>

GatewayInvariant ==
    /\ TypeOK
    /\ SubscriptionsAreShared(mux)
    /\ IDsAreUnique
    /\ NoTrafficOffLine
    /\ UpstreamMatchesDownstream
    /\ BracketsAreClosed
    /\ RequestsAreUnderWay
=============================================================================

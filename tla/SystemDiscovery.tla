-------------------------- MODULE SystemDiscovery --------------------------
(***************************************************************************)
(* How a client finds the systems on its network: SystemDiscoveryClient    *)
(* with its discovery thread (DiscoveryClientManagerSession and one        *)
(* DiscoverySession per network interface), and the DiscoveryServerSession *)
(* of every peer, which answers pings.  The thread sends a ping on every   *)
(* interface once per interval, remembers each pong for three intervals,   *)
(* boils them down to one entry per system, and leaves what changed for    *)
(* the main thread, which tells the registered targets.                    *)
(*                                                                         *)
(* Time is counted in ticks and only as far as it matters: how long until  *)
(* the next ping, how late the thread runs, how long a pong is remembered. *)
(***************************************************************************)
EXTENDS Integers, FiniteSets

CONSTANTS
  Servers,       \* peers that may answer
  SystemOf,      \* SystemOf[s]: the name of the system that s belongs to
  Wanted,        \* the servers that match the client's query filter
  Interfaces,    \* network interfaces, numbered
  Infos,         \* what a peer says of itself (its attributes)
  Targets,       \* objects that want to be told
  Interval,      \* ticks between two pings
  Bounds         \* [changes, starts, networks, registrations]: at most so many
                 \* changes of servers, calls of Start(), changes of the
                 \* interfaces and calls of RegisterTarget()

ASSUME DiscoveryAssumption ==
  /\ Interfaces \subseteq Nat
  /\ Interval \in Nat \ {0}

Systems == {SystemOf[s] : s \in Servers}
Gone == [s \in {} |-> s]                        \* a NULL MessageRef: no peers left

VARIABLES
  answering,     \* the servers that run
  info,          \* info[s]
  pings,         \* <<interface, server>> of the pings on their way
  pongs,         \* <<interface, server, info>> of the pongs on their way
  nics,          \* interfaces with a DiscoverySession
  active,        \* does the discovery thread run?
  raw,           \* _rawDiscoveryResults: what is known, and for how long
  wait,          \* ticks until _nextPingTime
  late,          \* ticks by which the next Pulse() is late
  pending,       \* _updateResultSetPending
  reported,      \* _reportedCookedResults
  updates,       \* _pendingUpdates
  signal,        \* is the main thread to call DispatchCallbacks()?
  known,         \* _knownInfos
  targets,       \* _targets: "none", "new" or "told"
  view,          \* view[t]: what target t has been told
  leftover,      \* systems that targets knew of at the last Stop()
  unanswered,    \* unanswered[k]: pings sent since the last pong for k
  budget

vars == <<answering, info, pings, pongs, nics, active, raw, wait, late, pending,
          reported, updates, signal, known, targets, view, leftover, unanswered, budget>>

serverVars == <<answering, info>>
threadVars == <<active, raw, wait, late, pending, reported, unanswered>>
mainVars   == <<known, targets, view, leftover>>

None == [x \in {} |-> Gone]

---------------------------------------------------------------------------
(* Servers.                                                                *)

(* ZGPeerSession::HandleDiscoveryPing: a server that the ping's filter     *)
(* does not want stays silent.                                             *)
HandleDiscoveryPing(s) == {info[x] : x \in {s} \cap Wanted}

(* DoInput, Pulse and DoOutput send the answer back to where the ping came *)
(* from.  A ping or a pong that is lost is one that never arrives: nothing *)
(* makes the network deliver.                                              *)
AnswerPing(s, i) ==
  /\ <<i, s>> \in pings
  /\ s \in answering
  /\ pings' = pings \ {<<i, s>>}
  /\ pongs' = pongs \cup {<<i, s, x>> : x \in HandleDiscoveryPing(s)}
  /\ UNCHANGED <<serverVars, nics, threadVars, updates, signal, mainVars, budget>>

ServerChanges(s) ==
  /\ budget.changes > 0
  /\ budget' = [budget EXCEPT !.changes = @ - 1]
  /\ \/ /\ answering' = (answering \ {s}) \cup ({s} \ answering)
        /\ UNCHANGED info
     \/ \E x \in Infos \ {info[s]} : info' = [info EXCEPT ![s] = x]
        /\ UNCHANGED answering
  /\ UNCHANGED <<pings, pongs, nics, threadVars, updates, signal, mainVars>>

---------------------------------------------------------------------------
(* The discovery thread.                                                   *)

Lifetime == 3 * Interval                        \* GetExpirationTime

RawResults(k, x) ==
  [j \in DOMAIN raw \cup {k} |-> IF j = k THEN [data |-> x, ttl |-> Lifetime] ELSE raw[j]]

(* DiscoverySession::DoInput, RawDiscoveryResultReceived: only a change of *)
(* the data is worth a new look at the result set.  The manager's session  *)
(* is older than the DiscoverySessions, so a thread that was kept from     *)
(* running calls its Pulse() before it reads any socket (external:         *)
(* ReflectServer's loop).                                                  *)
RawDiscoveryResultReceived(x) ==
  LET k == <<x[1], x[2]>>
      data == [info |-> x[3], source |-> x[1]]
  IN
  /\ active /\ late = 0 /\ x \in pongs /\ x[1] \in nics
  /\ pongs' = pongs \ {x}
  /\ raw' = RawResults(k, data)
  /\ pending' = (pending \/ k \notin DOMAIN raw \/ raw[k].data # data)
  /\ unanswered' = [unanswered EXCEPT ![k] = 0]
  /\ UNCHANGED <<serverVars, pings, nics, active, wait, late, reported, updates, signal,
                 mainVars, budget>>

(* CalculateCookedResults: of the results of one peer over several         *)
(* interfaces, the last one in the order of the keys is taken.             *)
CalculateCookedResults(r) ==
  LET Keys(s) == {k \in DOMAIN r : k[2] = s}
      LastKey(s) == CHOOSE k \in Keys(s) : \A j \in Keys(s) : j[1] <= k[1]
      Seen(x) == {s \in Servers : SystemOf[s] = x /\ Keys(s) # {}}
  IN  [x \in {y \in Systems : Seen(y) # {}} |-> [s \in Seen(x) |-> r[LastKey(s)].data]]

(* UpdateResultSet and ReportSystemUpdate: what to tell the main thread,   *)
(* on top of what it has not yet fetched.                                  *)
UpdateResultSet(cooked) ==
  LET missing == DOMAIN reported \ DOMAIN cooked
      changed == {x \in DOMAIN cooked : x \in DOMAIN reported => reported[x] # cooked[x]}
  IN
  /\ updates' = [x \in DOMAIN updates \cup missing \cup changed |->
                   IF x \in missing THEN Gone ELSE IF x \in changed THEN cooked[x] ELSE updates[x]]
  /\ signal' = (signal \/ missing \cup changed # {})
  /\ reported' = cooked

(* Mutants of Awakened and Unexpired.                                      *)
NeverLate(r) == r
NothingExpires(r) == [k \in {j \in DOMAIN r : r[j].ttl >= 0} |-> r[k]]

(* If the thread was kept from running, it has no right to hold that       *)
(* against anybody: everyone counts as heard from just now.                *)
Awakened(r) ==
  IF late >= Interval THEN [k \in DOMAIN r |-> [r[k] EXCEPT !.ttl = Lifetime]] ELSE r

Unexpired(r) == [k \in {j \in DOMAIN r : r[j].ttl > 0} |-> r[k]]

(* Every session sends the ping to whoever listens on its interface.       *)
DoOutput == pings \cup (nics \X Servers)

Pulse ==
  LET due == wait = 0
      awake == Awakened(raw)
      kept == IF due THEN Unexpired(awake) ELSE awake
      look == pending \/ DOMAIN kept # DOMAIN raw
  IN
  /\ active
  /\ due \/ pending
  /\ pings' = IF due THEN DoOutput ELSE pings
  /\ unanswered' = IF due THEN [k \in DOMAIN unanswered |-> IF unanswered[k] < 2 THEN unanswered[k] + 1 ELSE 2]
                   ELSE unanswered
  /\ raw' = kept
  /\ wait' = IF due THEN Interval ELSE wait
  /\ late' = 0
  /\ pending' = FALSE
  /\ IF look THEN UpdateResultSet(CalculateCookedResults(kept))
     ELSE UNCHANGED <<updates, signal, reported>>
  /\ UNCHANGED <<serverVars, pongs, nics, active, mainVars, budget>>

(* One session, with a socket of its own, per interface in use.            *)
AddNewDiscoverySessions(inUse) == nics' = inUse

(* What was on its way to the old sockets is lost.                         *)
EndExistingDiscoverySessions == pings' = {} /\ pongs' = {}

NetworkInterfacesChanged ==
  /\ active
  /\ budget.networks > 0
  /\ budget' = [budget EXCEPT !.networks = @ - 1]
  /\ EndExistingDiscoverySessions
  /\ \E inUse \in (SUBSET Interfaces) \ {{}} : AddNewDiscoverySessions(inUse)
  /\ UNCHANGED <<serverVars, threadVars, updates, signal, mainVars>>

Tick ==
  /\ raw' = [k \in DOMAIN raw |-> [raw[k] EXCEPT !.ttl = IF @ > 0 THEN @ - 1 ELSE 0]]
  /\ wait' = IF wait > 0 THEN wait - 1 ELSE 0
  /\ late' = IF (wait = 0 \/ pending) /\ late < Interval THEN late + 1 ELSE late
  /\ active
  /\ UNCHANGED <<serverVars, pings, pongs, nics, active, pending, reported, unanswered,
                 updates, signal, mainVars, budget>>

---------------------------------------------------------------------------
(* The main thread.                                                        *)

(* PutOrRemove for every update.                                           *)
Patched(old, up) ==
  LET left == {x \in DOMAIN old \cup DOMAIN up : x \in DOMAIN up => up[x] # Gone}
  IN  [x \in left |-> IF x \in DOMAIN up THEN up[x] ELSE old[x]]

(* Mutant of Told: a new target has to wait for news.                      *)
ToldTheNews(t) == IF targets[t] = "none" THEN view[t] ELSE Patched(view[t], updates)

(* A new target is told of everything known; then everybody is told of     *)
(* what is new.                                                            *)
Told(t) ==
  CASE targets[t] = "none" -> view[t]
    [] targets[t] = "new"  -> Patched(Patched(view[t], known), updates)
    [] targets[t] = "told" -> Patched(view[t], updates)

DispatchCallbacks ==
  /\ signal
  /\ signal' = FALSE
  /\ updates' = None                            \* GrabUpdates
  /\ view' = [t \in Targets |-> Told(t)]
  /\ targets' = [t \in Targets |-> IF targets[t] = "none" THEN "none" ELSE "told"]
  /\ known' = Patched(known, updates)
  /\ UNCHANGED <<serverVars, pings, pongs, nics, threadVars, leftover, budget>>

RegisterTarget(t) ==
  /\ targets[t] = "none"
  /\ budget.registrations > 0
  /\ budget' = [budget EXCEPT !.registrations = @ - 1]
  /\ targets' = [targets EXCEPT ![t] = "new"]
  /\ view' = [view EXCEPT ![t] = None]
  /\ signal' = TRUE                             \* ScheduleDiscoveryUpdate
  /\ UNCHANGED <<serverVars, pings, pongs, nics, threadVars, updates, known, leftover>>

UnregisterTarget(t) ==
  /\ targets[t] # "none"
  /\ budget.registrations > 0
  /\ targets' = [targets EXCEPT ![t] = "none"]
  /\ UNCHANGED <<serverVars, pings, pongs, nics, threadVars, updates, signal, known, view,
                 leftover, budget>>

(* The thread's sessions, and all that they know, go with it.              *)
ShutdownInternalThread ==
  /\ active' = FALSE
  /\ raw' = None /\ reported' = None
  /\ pending' = FALSE /\ wait' = 0 /\ late' = 0
  /\ EndExistingDiscoverySessions
  /\ unanswered' = [k \in DOMAIN unanswered |-> 0]

(* InternalThreadEntry: the first ping is due at once.                     *)
InternalThreadEntry ==
  /\ active' = TRUE
  /\ AddNewDiscoverySessions(Interfaces)

(* Stop(): the thread ends and all it knew is forgotten, but no target is  *)
(* told that the systems it was told of are gone.                          *)
Stop ==
  /\ active
  /\ budget.starts > 0
  /\ ShutdownInternalThread
  /\ updates' = None /\ known' = None
  /\ leftover' = leftover \cup (UNION {DOMAIN view[t] : t \in Targets})
  /\ UNCHANGED <<serverVars, nics, signal, targets, view, budget>>

(* Start() of a client that does not run; else it calls Stop() first.      *)
Start ==
  /\ ~active
  /\ budget.starts > 0
  /\ budget' = [budget EXCEPT !.starts = @ - 1]
  /\ InternalThreadEntry
  /\ UNCHANGED <<serverVars, pings, pongs, raw, wait, late, pending, reported, unanswered,
                 updates, signal, mainVars>>

---------------------------------------------------------------------------
Init ==
  /\ answering \in SUBSET Servers
  /\ info \in {[s \in Servers |-> x] : x \in Infos}
  /\ pings = {} /\ pongs = {} /\ nics = Interfaces
  /\ active = FALSE /\ raw = None /\ wait = 0 /\ late = 0 /\ pending = FALSE
  /\ reported = None /\ updates = None /\ signal = FALSE /\ known = None
  /\ targets = [t \in Targets |-> "none"]
  /\ view = [t \in Targets |-> None]
  /\ leftover = {}
  /\ unanswered = [k \in Interfaces \X Servers |-> 0]
  /\ budget = Bounds

Deliver ==
  \/ \E s \in Servers, i \in Interfaces : AnswerPing(s, i)
  \/ \E x \in pongs : RawDiscoveryResultReceived(x)

Next ==
  \/ Deliver
  \/ \E s \in Servers : ServerChanges(s)
  \/ Pulse \/ Tick \/ NetworkInterfacesChanged
  \/ DispatchCallbacks \/ Stop \/ Start
  \/ \E t \in Targets : RegisterTarget(t) \/ UnregisterTarget(t)

Spec == Init /\ [][Next]_vars

(* Both threads go on, and so does time.  Nothing is assumed of the        *)
(* network or of the servers.                                              *)
FairSpec == Spec /\ WF_vars(Pulse) /\ WF_vars(Tick) /\ WF_vars(DispatchCallbacks)

---------------------------------------------------------------------------
(* Once the main thread has nothing left to fetch, every target it has     *)
(* told anything knows exactly the systems that the discovery thread last  *)
(* reported, each with the latest information, no matter when the target   *)
(* registered and how updates overtook each other in _pendingUpdates.      *)
(* What a target was told before a Stop() may be out of date.              *)
TargetsAreUpToDate ==
  \A t \in Targets :
    targets[t] = "told" /\ ~signal /\ active =>
      /\ \A x \in DOMAIN reported : x \in DOMAIN view[t] /\ view[t][x] = reported[x]
      /\ DOMAIN view[t] \subseteq DOMAIN reported \cup leftover

(* A peer is forgotten only when at least two pings went unanswered, the   *)
(* last of which may have been sent just now: neither a nap of the process *)
(* nor running late makes a system vanish that was not even asked          *)
(* (DiscoveryClientManagerSession::Pulse).                                 *)
NobodyVanishesUnasked ==
  [][active' => \A k \in DOMAIN raw \ DOMAIN raw' : unanswered'[k] >= 2]_vars

(* When a system has gone for good, every target that stays registered is  *)
(* eventually told so, provided that from some time on the thread is not   *)
(* kept from running.                                                      *)
GoneSystemsAreReported ==
  \A t \in Targets, x \in Systems :
    <>[](/\ \A s \in answering : SystemOf[s] # x
         /\ active /\ late < Interval
         /\ targets[t] # "none" /\ x \notin leftover)
      => <>[](x \notin DOMAIN view[t])
---------------------------------------------------------------------------
(* The inductive invariants behind the theorems.                           *)

TypeOK ==
  /\ answering \subseteq Servers
  /\ info \in [Servers -> Infos]
  /\ pings \subseteq Interfaces \X Servers
  /\ pongs \subseteq Interfaces \X Servers \X Infos
  /\ nics \subseteq Interfaces
  /\ active \in BOOLEAN /\ pending \in BOOLEAN /\ signal \in BOOLEAN
  /\ DOMAIN raw \subseteq Interfaces \X Servers
  /\ \A k \in DOMAIN raw :
       raw[k] \in [data : [info : Infos, source : Interfaces], ttl : 0..Lifetime]
  /\ wait \in 0..Interval
  /\ late \in 0..Interval
  /\ targets \in [Targets -> {"none", "new", "told"}]
  /\ DOMAIN view = Targets
  /\ unanswered \in [Interfaces \X Servers -> 0..2]

(* What somebody who knows old will know when told of the updates that the *)
(* thread has left: all that was reported, and nothing else but the        *)
(* systems in rest.                                                        *)
CatchesUp(old, rest) ==
  LET next == Patched(old, updates) IN
  /\ \A x \in DOMAIN reported : x \in DOMAIN next /\ next[x] = reported[x]
  /\ DOMAIN next \subseteq DOMAIN reported \cup rest

(* The main thread and the targets it has told anything are behind the     *)
(* thread by just the updates that wait in _pendingUpdates, and whenever   *)
(* there are any, or a target is new, a signal is under way.  No system    *)
(* that anybody knows of is one without peers.                             *)
UpdatesBridgeTheGap ==
  /\ DOMAIN updates # {} => signal
  /\ CatchesUp(known, {})
  /\ \A x \in DOMAIN known : known[x] # Gone
  /\ \A t \in Targets :
       /\ targets[t] = "new" => signal /\ DOMAIN view[t] = {}
       /\ targets[t] = "told" => CatchesUp(view[t], leftover)

(* A peer that was not pinged since it was heard of is remembered for two  *)
(* more intervals after the next ping is due, if that ping is sent in time.*)
UnaskedPeersAreRemembered ==
  \A k \in DOMAIN raw :
    unanswered[k] = 0 /\ late < Interval =>
      raw[k].ttl >= 2 * Interval + wait - (IF wait = 0 THEN late ELSE 0)
===========================================================================

----------------------- MODULE ClientConnectorProofs -----------------------
(***************************************************************************)
(* What the owner of a client connector is told, for any number of calls,  *)
(* failures, restarts and messages: at any moment the queued callbacks     *)
(* lead it to the truth about the connection, and every message is handed  *)
(* to it while it believes in the connection the message came over.        *)
(***************************************************************************)
EXTENDS ClientConnector, WellFoundedInduction, TLAPS

-----------------------------------------------------------------------------
\* Induction.

\* A set of numbers that has 0 and, with every number, the next one.
LEMMA SetInduction ==
  ASSUME NEW T, 0 \in T, \A n \in Nat : n \in T => n + 1 \in T
  PROVE  \A n \in Nat : n \in T
<1> DEFINE U == {n \in Nat : n \notin T}
           R == OpToRel(<, Nat)
<1> SUFFICES ASSUME U # {} PROVE FALSE
  OBVIOUS
<1>1. IsWellFoundedOn(R, Nat)
  BY NatLessThanWellFounded
<1>2. \A x, y \in Nat : <<x, y>> \in R <=> x < y
  BY DEF OpToRel
<1> HIDE DEF R
<1>3. U \subseteq Nat
  OBVIOUS
<1>4. PICK x \in U : \A y \in U : ~(<<y, x>> \in R)
  BY <1>1, <1>3, WFMin
<1>5. x \in Nat /\ x \notin T /\ \A y \in Nat : y < x => y \in T
  BY <1>2, <1>4
<1>6. x # 0
  BY <1>5
<1>7. x - 1 \in Nat /\ x - 1 < x /\ (x - 1) + 1 = x
  BY <1>5, <1>6
<1> QED
  BY <1>5, <1>7

-----------------------------------------------------------------------------
\* What the owner believes after some of the callbacks in s, if it believed
\* in conn before.
Belief(s, conn, n) ==
    LET infos == {i \in 1..n : s[i].kind = "peerinfo"}
    IN  IF infos = {} THEN conn ELSE s[Max(infos)].conn

\* Before the first callback.
LEMMA BeliefZero ==
  ASSUME NEW s, NEW conn
  PROVE  Belief(s, conn, 0) = conn
BY DEF Belief

\* After one more.
LEMMA BeliefNext ==
  ASSUME NEW s, NEW conn, NEW n \in Nat
  PROVE  Belief(s, conn, n + 1)
           = IF s[n + 1].kind = "peerinfo" THEN s[n + 1].conn ELSE Belief(s, conn, n)
<1> DEFINE I(k) == {i \in 1..k : s[i].kind = "peerinfo"}
<1>1. CASE s[n + 1].kind = "peerinfo"
  <2>1. n + 1 \in I(n + 1) /\ \A y \in I(n + 1) : n + 1 >= y
    BY <1>1
  <2>2. \A x \in I(n + 1) : (\A y \in I(n + 1) : x >= y) => x = n + 1
    BY <2>1
  <2> HIDE DEF I
  <2>3. Max(I(n + 1)) = n + 1
    BY <2>1, <2>2 DEF Max
  <2>4. I(n + 1) # {}
    BY <2>1
  <2> QED
    BY <1>1, <2>3, <2>4 DEF Belief, I
<1>2. CASE s[n + 1].kind # "peerinfo"
  <2>1. \A i : i \in I(n + 1) <=> i \in I(n)
    BY <1>2
  <2>2. I(n + 1) = I(n)
    BY <2>1
  <2> QED
    BY <1>2, <2>2 DEF Belief
<1> QED
  BY <1>1, <1>2

\* Callbacks behind the first n do not matter.
LEMMA BeliefSame ==
  ASSUME NEW s, NEW t, NEW conn, NEW n \in Nat, \A i \in 1..n : s[i] = t[i]
  PROVE  Belief(s, conn, n) = Belief(t, conn, n)
<1> DEFINE T == {m \in Nat : m <= n => Belief(s, conn, m) = Belief(t, conn, m)}
<1>1. 0 \in T
  BY BeliefZero
<1>2. ASSUME NEW m \in Nat, m \in T
      PROVE  m + 1 \in T
  <2>1. ASSUME m + 1 <= n
        PROVE  Belief(s, conn, m + 1) = Belief(t, conn, m + 1)
    <3>1. Belief(s, conn, m) = Belief(t, conn, m)
      BY <1>2, <2>1
    <3>2. s[m + 1] = t[m + 1]
      BY <2>1
    <3> QED
      BY <3>1, <3>2, BeliefNext
  <2> QED
    BY <2>1
<1>3. \A m \in Nat : m \in T
  <2> HIDE DEF T
  <2> QED
    BY <1>1, <1>2, SetInduction
<1> QED
  BY <1>3

-----------------------------------------------------------------------------
\* The owner handles what is queued.

\* The accumulator of DispatchCallbacks() after each callback.
IsDispatch(f, N, t, a) ==
    f = [i \in 0..N |-> IF i = 0 THEN a ELSE CallbackHandled(f[i - 1], t[i])]

\* There is one.
LEMMA DispatchExists ==
  ASSUME NEW t, NEW a
  PROVE  \A N \in Nat : \E f : IsDispatch(f, N, t, a)
<1> DEFINE T == {N \in Nat : \E f : IsDispatch(f, N, t, a)}
<1>1. 0 \in T
  <2> DEFINE f == [i \in 0..0 |-> a]
  <2>1. f = [i \in 0..0 |-> IF i = 0 THEN a ELSE CallbackHandled(f[i - 1], t[i])]
    OBVIOUS
  <2> QED
    BY <2>1 DEF IsDispatch
<1>2. ASSUME NEW n \in Nat, n \in T
      PROVE  n + 1 \in T
  <2>1. PICK f : IsDispatch(f, n, t, a)
    BY <1>2
  <2> DEFINE x == n + 1
             g == [i \in 0..x |-> IF i < x THEN f[i] ELSE CallbackHandled(f[n], t[x])]
  <2>2. f = [i \in 0..n |-> IF i = 0 THEN a ELSE CallbackHandled(f[i - 1], t[i])]
    BY <2>1 DEF IsDispatch
  <2>3. ASSUME NEW i \in 0..x
        PROVE  g[i] = IF i = 0 THEN a ELSE CallbackHandled(g[i - 1], t[i])
    <3>1. CASE i = 0
      BY <2>2, <3>1
    <3>2. CASE i > 0 /\ i < x
      <4>1. i \in 0..n /\ i - 1 \in 0..n /\ i - 1 < x /\ i - 1 \in 0..x
        BY <2>3, <3>2
      <4>2. f[i] = CallbackHandled(f[i - 1], t[i])
        BY <2>2, <3>2, <4>1
      <4>3. g[i] = f[i] /\ g[i - 1] = f[i - 1]
        BY <2>3, <3>2, <4>1
      <4> QED
        BY <3>2, <4>2, <4>3
    <3>3. CASE i = x
      <4>1. n \in 0..x /\ n < x /\ ~(x < x) /\ x - 1 = n /\ x # 0
        OBVIOUS
      <4>2. g[x] = CallbackHandled(f[n], t[x]) /\ g[n] = f[n]
        BY <3>3, <4>1
      <4> QED
        BY <3>3, <4>1, <4>2
    <3> QED
      BY <2>3, <3>1, <3>2, <3>3
  <2>4. g = [i \in 0..x |-> IF i = 0 THEN a ELSE CallbackHandled(g[i - 1], t[i])]
    BY <2>3
  <2> HIDE DEF g
  <2>5. IsDispatch(g, x, t, a)
    BY <2>4 DEF IsDispatch
  <2> QED
    BY <2>5
<1>3. \A n \in Nat : n \in T
  <2> HIDE DEF T
  <2> QED
    BY <1>1, <1>2, SetInduction
<1> QED
  BY <1>3

\* So that is what DispatchCallbacks() computes.
LEMMA DispatchUnfolds ==
  ASSUME TypeOK, DispatchCallbacks
  PROVE  \E f : /\ IsDispatch(f, Len(replies), replies, [own |-> owner, out |-> toThread])
                /\ owner' = f[Len(replies)].own
<1>1. Len(replies) \in Nat
  BY DEF TypeOK
<1>2. \E f : IsDispatch(f, Len(replies), replies, [own |-> owner, out |-> toThread])
  BY <1>1, DispatchExists
<1> QED
  BY <1>2 DEF IsDispatch, DispatchCallbacks

\* A callback leads the owner to what it says.
LEMMA CallbackFacts ==
  ASSUME NEW acc, DOMAIN acc = {"own", "out"}, acc.own \in OwnerStates,
         acc = [own |-> acc.own, out |-> acc.out],
         NEW r \in Callbacks,
         r.kind = "peerinfo" /\ r.server = NoServer => r.conn = 0
  PROVE  /\ CallbackHandled(acc, r)
              = [own |-> CallbackHandled(acc, r).own, out |-> CallbackHandled(acc, r).out]
         /\ CallbackHandled(acc, r).own \in OwnerStates
         /\ CallbackHandled(acc, r).own.conn
              = IF r.kind = "peerinfo" THEN r.conn ELSE acc.own.conn
<1> DEFINE new == CallbackHandled(acc, r)
<1>1. r.kind = "peerinfo" => r.server \in Servers \union {NoServer} /\ r.conn \in Nat
  BY DEF Callbacks
<1>2. r.conn \in Nat
  BY DEF Callbacks
<1>3. CASE r.kind = "peerinfo" /\ r.server # NoServer
  <2>1. new = [own |-> [acc.own EXCEPT !.server = r.server, !.conn = r.conn, !.expecting = TRUE],
               out |-> acc.out \o <<Message("getparams", r.conn), Message("undokey", r.conn)>>]
    BY <1>3 DEF CallbackHandled, ConnectionStatusUpdated
  <2>2. [acc.own EXCEPT !.server = r.server, !.conn = r.conn, !.expecting = TRUE] \in OwnerStates
    BY <1>1, <1>3 DEF OwnerStates
  <2>3. [acc.own EXCEPT !.server = r.server, !.conn = r.conn, !.expecting = TRUE].conn = r.conn
    BY DEF OwnerStates
  <2> HIDE DEF new
  <2>4. new.own \in OwnerStates /\ new.own.conn = r.conn /\ new = [own |-> new.own, out |-> new.out]
    BY <2>1, <2>2, <2>3
  <2> QED
    BY <1>3, <2>4 DEF new
<1>4. CASE r.kind = "peerinfo" /\ r.server = NoServer
  <2>1. new = [acc EXCEPT !.own.server = NoServer, !.own.conn = 0,
                          !.own.gateway = FALSE, !.own.params = 0]
    BY <1>4 DEF CallbackHandled, ConnectionStatusUpdated
  <2>2. new = [own |-> [acc.own EXCEPT !.server = NoServer, !.conn = 0,
                                       !.gateway = FALSE, !.params = 0],
               out |-> acc.out]
    BY <2>1 DEF OwnerStates
  <2> DEFINE own == [acc.own EXCEPT !.server = NoServer, !.conn = 0, !.gateway = FALSE, !.params = 0]
  <2>3. own \in OwnerStates /\ own.conn = 0
    BY DEF OwnerStates
  <2> HIDE DEF new
  <2>4. new.own \in OwnerStates /\ new.own.conn = r.conn /\ new = [own |-> new.own, out |-> new.out]
    BY <1>4, <2>2, <2>3
  <2> QED
    BY <1>4, <2>4 DEF new
<1>5. CASE r.kind # "peerinfo"
  <2>1. \/ new = acc
        \/ new = [acc EXCEPT !.own.expecting = FALSE, !.own.gateway = TRUE, !.own.params = r.conn]
    BY <1>5 DEF CallbackHandled, MessageReceivedFromNetwork
  <2>2. \/ new = acc
        \/ new = [own |-> [acc.own EXCEPT !.expecting = FALSE, !.gateway = TRUE, !.params = r.conn],
                  out |-> acc.out]
    BY <2>1 DEF OwnerStates
  <2> DEFINE own == [acc.own EXCEPT !.expecting = FALSE, !.gateway = TRUE, !.params = r.conn]
  <2>3. own \in OwnerStates /\ own.conn = acc.own.conn
    BY <1>2 DEF OwnerStates
  <2> HIDE DEF new
  <2>4. /\ new.own \in OwnerStates /\ new.own.conn = acc.own.conn
        /\ new = [own |-> new.own, out |-> new.out]
    <3>1. CASE new = acc
      BY <3>1
    <3>2. CASE new = [own |-> own, out |-> acc.out]
      <4> HIDE DEF own
      <4> QED
        BY <2>3, <3>2
    <3> QED
      BY <2>2, <3>1, <3>2
  <2> QED
    BY <1>5, <2>4 DEF new
<1> QED
  BY <1>3, <1>4, <1>5

\* Through all callbacks.
LEMMA DispatchFacts ==
  ASSUME TypeOK, NoServerNoConnection, DispatchCallbacks
  PROVE  owner' \in OwnerStates /\ owner'.conn = Belief(replies, owner.conn, Len(replies))
<1> DEFINE N == Len(replies)
           a == [own |-> owner, out |-> toThread]
<1>1. N \in Nat /\ \A i \in 1..N : replies[i] \in Callbacks /\ i \in DOMAIN replies
  BY DEF TypeOK
<1>2. PICK f : IsDispatch(f, N, replies, a) /\ owner' = f[N].own
  BY DispatchUnfolds
<1>3. \A i \in 0..N : f[i] = IF i = 0 THEN a ELSE CallbackHandled(f[i - 1], replies[i])
  BY <1>2 DEF IsDispatch
<1> DEFINE Good(acc, n) == /\ acc = [own |-> acc.own, out |-> acc.out]
                           /\ acc.own \in OwnerStates
                           /\ acc.own.conn = Belief(replies, owner.conn, n)
           T == {n \in Nat : n <= N => Good(f[n], n)}
<1>4. 0 \in T
  <2>1. f[0] = a
    BY <1>1, <1>3
  <2>2. a.own \in OwnerStates /\ a.own.conn = owner.conn /\ a = [own |-> a.own, out |-> a.out]
    BY DEF TypeOK
  <2> QED
    BY <2>1, <2>2, BeliefZero
<1>5. ASSUME NEW n \in Nat, n \in T
      PROVE  n + 1 \in T
  <2> SUFFICES ASSUME n + 1 <= N
               PROVE  Good(f[n + 1], n + 1)
    OBVIOUS
  <2> DEFINE acc == f[n]
             r == replies[n + 1]
  <2>1. Good(acc, n)
    BY <1>1, <1>5
  <2>2. f[n + 1] = CallbackHandled(acc, r)
    <3>1. n + 1 \in 0..N /\ n + 1 # 0 /\ (n + 1) - 1 = n
      BY <1>1
    <3> QED
      BY <1>3, <3>1
  <2>3. n + 1 \in 1..N
    BY <1>1
  <2>4. r \in Callbacks /\ (r.kind = "peerinfo" /\ r.server = NoServer => r.conn = 0)
    BY <1>1, <2>3 DEF NoServerNoConnection
  <2>5. Belief(replies, owner.conn, n + 1)
          = IF r.kind = "peerinfo" THEN r.conn ELSE Belief(replies, owner.conn, n)
    BY BeliefNext
  <2> HIDE DEF acc, r
  <2>6. DOMAIN acc = {"own", "out"}
    BY <2>1
  <2> QED
    BY <2>1, <2>2, <2>4, <2>5, <2>6, CallbackFacts
<1>6. \A n \in Nat : n \in T
  <2> HIDE DEF T
  <2> QED
    BY <1>4, <1>5, SetInduction
<1>7. Good(f[N], N)
  BY <1>1, <1>6
<1> QED
  BY <1>2, <1>7

\* Believed() in terms of Belief().
LEMMA BelievedIsBelief == \A n : Believed(n) = Belief(replies, owner.conn, n)
BY DEF Believed, Belief

\* The types do not depend on the state.
LEMMA TypeLater ==
  ASSUME owner' \in OwnerStates, DOMAIN thread' = DOMAIN IdleThread(0),
         thread'.stage \in {"off", "discover", "connecting", "connected", "delay"},
         thread'.conn \in Nat, thread'.server \in Servers \union {NoServer},
         thread'.overdue \in 0..Overdue, replies' \in Seq(Callbacks), callback' \in BOOLEAN,
         down' \in Seq(FromServer), status' \in [Servers -> {"up", "frozen", "off"}]
  PROVE  TypeOK'
BY DEF TypeOK, OwnerStates, IdleThread, Callbacks, FromServer

\* DispatchCallbacks() leaves the owner with the truth, and nothing queued.
LEMMA DispatchStep ==
  ASSUME ConnectorInvariant, DispatchCallbacks
  PROVE  ConnectorInvariant'
<1>1. TypeOK /\ NoServerNoConnection
  BY DEF ConnectorInvariant
<1>2. owner' \in OwnerStates /\ owner'.conn = Believed(Len(replies))
  BY <1>1, DispatchFacts, BelievedIsBelief
<1>3. replies' = <<>> /\ callback' = FALSE /\ UNCHANGED <<thread, down, status>>
  BY DEF DispatchCallbacks
<1>4. TypeOK'
  <2>1. replies' \in Seq(Callbacks)
    BY <1>3
  <2> QED
    BY <1>1, <1>2, <1>3, <2>1, TypeLater DEF TypeOK
<1>5. Len(replies') = 0 /\ DOMAIN replies' = {}
  BY <1>3
<1>6. Believed(0)' = owner'.conn
  BY DEF Believed
<1>7. OwnerLearnsTheTruth'
  BY <1>2, <1>3, <1>5, <1>6 DEF ConnectorInvariant, OwnerLearnsTheTruth
<1>8. NoServerNoConnection' /\ MessagesBelongToConnection'
  BY <1>5 DEF NoServerNoConnection, MessagesBelongToConnection
<1>9. InputIsOfThisConnection'
  BY <1>3 DEF ConnectorInvariant, InputIsOfThisConnection, InConnectionStage
<1> QED
  BY <1>4, <1>7, <1>8, <1>9 DEF ConnectorInvariant

-----------------------------------------------------------------------------
\* Steps after which the owner is told nothing.

\* The connection as the I/O thread has it.
Truth == IF thread.stage = "connected" THEN thread.conn ELSE 0

\* Neither the connection changes nor what the owner knows of it.
LEMMA SilentStep ==
  ASSUME ConnectorInvariant, TypeOK', InputIsOfThisConnection',
         UNCHANGED <<replies, callback>>, owner'.conn = owner.conn, Truth' = Truth
  PROVE  ConnectorInvariant'
<1>1. \A n : Believed(n)' = Believed(n)
  BY DEF Believed
<1>2. OwnerLearnsTheTruth'
  BY <1>1 DEF ConnectorInvariant, OwnerLearnsTheTruth, Truth
<1>3. MessagesBelongToConnection'
  BY <1>1 DEF ConnectorInvariant, MessagesBelongToConnection
<1>4. NoServerNoConnection'
  BY DEF ConnectorInvariant, NoServerNoConnection
<1> QED
  BY <1>2, <1>3, <1>4 DEF ConnectorInvariant

\* The fields of a thread that is in no connection.
LEMMA IdleFacts ==
  ASSUME NEW n, NEW stage, NEW server
  PROVE  /\ [IdleThread(n) EXCEPT !.stage = stage].stage = stage
         /\ [IdleThread(n) EXCEPT !.stage = stage].conn = n
         /\ [IdleThread(n) EXCEPT !.stage = stage].server = NoServer
         /\ [IdleThread(n) EXCEPT !.stage = stage].overdue = 0
         /\ DOMAIN [IdleThread(n) EXCEPT !.stage = stage] = DOMAIN IdleThread(0)
         /\ [IdleThread(n) EXCEPT !.stage = stage, !.server = server].stage = stage
         /\ [IdleThread(n) EXCEPT !.stage = stage, !.server = server].conn = n
         /\ [IdleThread(n) EXCEPT !.stage = stage, !.server = server].server = server
         /\ [IdleThread(n) EXCEPT !.stage = stage, !.server = server].overdue = 0
         /\ DOMAIN [IdleThread(n) EXCEPT !.stage = stage, !.server = server] = DOMAIN IdleThread(0)
         /\ IdleThread(n).stage = "off" /\ IdleThread(n).conn = n
         /\ IdleThread(n).server = NoServer /\ IdleThread(n).overdue = 0
         /\ DOMAIN IdleThread(n) = DOMAIN IdleThread(0)
BY DEF IdleThread

\* Steps of the owner that leave the thread and its input alone.
LEMMA OwnerOnly ==
  ASSUME ConnectorInvariant, owner' \in OwnerStates, owner'.conn = owner.conn,
         UNCHANGED <<thread, replies, callback, down, status>>
  PROVE  ConnectorInvariant'
<1>1. TypeOK'
  BY TypeLater DEF ConnectorInvariant, TypeOK
<1>2. InputIsOfThisConnection' /\ Truth' = Truth
  BY DEF ConnectorInvariant, InputIsOfThisConnection, InConnectionStage, Truth
<1> QED
  BY <1>1, <1>2, SilentStep

\* Steps that move the thread from one stage without a connection to another.
LEMMA Unconnected ==
  ASSUME ConnectorInvariant, owner' \in OwnerStates, owner'.conn = owner.conn,
         UNCHANGED <<replies, callback, down, status>>,
         thread.stage \notin {"connecting", "connected"},
         DOMAIN thread' = DOMAIN IdleThread(0), thread'.conn \in Nat,
         thread'.stage \in {"off", "discover", "connecting", "delay"},
         thread'.server \in Servers \union {NoServer},
         thread'.stage = "connecting" => thread'.server # NoServer,
         thread'.overdue \in 0..Overdue
  PROVE  ConnectorInvariant'
<1>1. TypeOK'
  BY TypeLater DEF ConnectorInvariant, TypeOK
<1>2. down = <<>> /\ DOMAIN <<>> = {}
  BY DEF ConnectorInvariant, InputIsOfThisConnection
<1>3. InputIsOfThisConnection' /\ Truth' = Truth
  BY <1>2 DEF InputIsOfThisConnection, InConnectionStage, Truth
<1> QED
  BY <1>1, <1>3, SilentStep

\* Start(), whether the thread starts or not.
LEMMA StartThreadStep ==
  ASSUME ConnectorInvariant, NEW set \in Settings, thread.stage = "off",
         StartThread(set) \/ StartThreadFails,
         UNCHANGED <<replies, callback, down, status>>
  PROVE  ConnectorInvariant'
<1>1. owner \in OwnerStates /\ thread.conn \in Nat /\ Overdue \in Nat
  BY ConnectorAssumption DEF ConnectorInvariant, TypeOK
<1>2. CASE StartThread(set)
  <2>1. owner' \in OwnerStates /\ owner'.conn = owner.conn
    BY <1>1, <1>2 DEF StartThread, OwnerStates
  <2>2. thread' = [IdleThread(thread.conn) EXCEPT !.stage = "discover"]
    BY <1>2 DEF StartThread
  <2>3. /\ DOMAIN thread' = DOMAIN IdleThread(0) /\ thread'.conn = thread.conn
        /\ thread'.stage = "discover" /\ thread'.server = NoServer /\ thread'.overdue = 0
    BY <2>2, IdleFacts
  <2> QED
    BY <1>1, <2>1, <2>3, Unconnected
<1>3. CASE StartThreadFails
  <2>1. owner' \in OwnerStates /\ owner'.conn = owner.conn /\ thread' = thread
    BY <1>1, <1>3 DEF StartThreadFails, OwnerStates
  <2> QED
    BY <2>1, OwnerOnly
<1> QED
  BY <1>2, <1>3

\* Stop() and Start() with other settings.
LEMMA EndThreadStep ==
  ASSUME ConnectorInvariant, NEW next \in Settings \union {NotStarted}, EndThread(next)
  PROVE  ConnectorInvariant'
<1>1. owner \in OwnerStates
  BY DEF ConnectorInvariant, TypeOK
<1>2. owner' \in OwnerStates /\ owner'.conn = owner.conn
  BY <1>1 DEF EndThread, OwnerStates
<1> QED
  BY <1>2, OwnerOnly DEF EndThread

\* Stop() returns.
LEMMA JoinedStep ==
  ASSUME ConnectorInvariant, Joined
  PROVE  ConnectorInvariant'
<1>1. owner \in OwnerStates /\ thread.stage = "off" /\ UNCHANGED <<replies, callback, down, status>>
  BY DEF ConnectorInvariant, TypeOK, Joined
<1>2. CASE owner.next # NotStarted /\ (StartThread(owner.next) \/ StartThreadFails)
  <2>1. owner.next \in Settings
    BY <1>1, <1>2 DEF OwnerStates
  <2> QED
    BY <1>1, <1>2, <2>1, StartThreadStep
<1>3. CASE /\ owner' = [owner EXCEPT !.setting = NotStarted, !.stopping = FALSE]
           /\ thread' = thread
  <2>1. owner' \in OwnerStates /\ owner'.conn = owner.conn
    BY <1>1, <1>3 DEF OwnerStates
  <2> QED
    BY <1>1, <1>3, <2>1, OwnerOnly
<1> QED
  BY <1>2, <1>3 DEF Joined

\* Everything the owner does.
LEMMA OwnerKeeps ==
  ASSUME ConnectorInvariant, OwnerStep
  PROVE  ConnectorInvariant'
<1>1. owner \in OwnerStates
  BY DEF ConnectorInvariant, TypeOK
<1>2. ASSUME NEW set \in Settings, Start(set)
      PROVE  ConnectorInvariant'
  BY <1>2, EndThreadStep, StartThreadStep DEF Start
<1>3. ASSUME Stop
      PROVE  ConnectorInvariant'
  BY <1>3, EndThreadStep DEF Stop
<1>4. ASSUME NEW kind, SendOutgoingMessageToNetwork(kind)
      PROVE  ConnectorInvariant'
  <2>1. UNCHANGED <<owner, thread, replies, callback, down, status>>
    BY <1>4 DEF SendOutgoingMessageToNetwork
  <2> QED
    BY <1>1, <2>1, OwnerOnly
<1> QED
  BY <1>2, <1>3, <1>4, JoinedStep, DispatchStep DEF OwnerStep

-----------------------------------------------------------------------------
\* Steps that tell the owner something.

\* One more callback: the owner is told the truth about the connection, or
\* handed a message that came over it.
LEMMA TellStep ==
  ASSUME ConnectorInvariant, TypeOK', InputIsOfThisConnection',
         NEW r \in Callbacks, Tell(<<r>>), owner' = owner,
         r.kind = "peerinfo" => /\ r.conn = Truth'
                                /\ r.server = NoServer => r.conn = 0,
         r.kind # "peerinfo" => r.conn = Truth /\ Truth' = Truth
  PROVE  ConnectorInvariant'
<1>0. replies \in Seq(Callbacks) /\ Len(replies) \in Nat
  BY DEF ConnectorInvariant, TypeOK
<1> PICK N \in Nat : N = Len(replies)
  BY <1>0
<1>1. replies \in Seq(Callbacks) /\ N \in Nat /\ N = Len(replies) /\ DOMAIN replies = 1..N
  BY <1>0
<1>2. replies' = replies \o <<r>> /\ callback' = (callback \/ (replies = <<>> /\ <<r>> # <<>>))
  BY DEF Tell
<1>3. /\ Len(replies') = N + 1 /\ DOMAIN replies' = 1..(N + 1) /\ replies'[N + 1] = r
      /\ \A i \in 1..N : replies'[i] = replies[i]
  BY <1>1, <1>2
<1>4. callback'
  BY <1>2 DEF ConnectorInvariant, OwnerLearnsTheTruth
<1>5. ASSUME NEW n \in 0..N
      PROVE  /\ Belief(replies', owner.conn, n) = Belief(replies, owner.conn, n)
             /\ Believed(n)' = Believed(n)
  <2>1. n \in Nat /\ \A i \in 1..n : replies'[i] = replies[i]
    BY <1>3
  <2>2. Belief(replies', owner.conn, n) = Belief(replies, owner.conn, n)
    BY <2>1, BeliefSame
  <2>3. Believed(n)' = Belief(replies', owner.conn, n)
    BY DEF Believed, Belief
  <2> QED
    BY <2>2, <2>3, BelievedIsBelief
<1>6. Believed(N + 1)' = IF r.kind = "peerinfo" THEN r.conn ELSE Believed(N)
  <2>1. Believed(N + 1)' = Belief(replies', owner.conn, N + 1)
    BY DEF Believed, Belief
  <2>2. Belief(replies', owner.conn, N + 1)
          = IF r.kind = "peerinfo" THEN r.conn ELSE Belief(replies', owner.conn, N)
    <3>1. Belief(replies', owner.conn, N + 1)
            = IF replies'[N + 1].kind = "peerinfo" THEN replies'[N + 1].conn
              ELSE Belief(replies', owner.conn, N)
      BY BeliefNext
    <3> QED
      BY <1>3, <3>1
  <2>3. Belief(replies', owner.conn, N) = Belief(replies, owner.conn, N)
    <3>1. N \in 0..N
      OBVIOUS
    <3> QED
      BY <1>5, <3>1
  <2> QED
    BY <2>1, <2>2, <2>3, BelievedIsBelief
<1>7. Believed(N) = Truth
  BY DEF ConnectorInvariant, OwnerLearnsTheTruth, Truth
<1>8. Believed(N + 1)' = Truth'
  BY <1>6, <1>7
<1>9. OwnerLearnsTheTruth'
  <2>1. Believed(Len(replies))' = Believed(N + 1)'
    BY <1>3 DEF Believed
  <2> QED
    BY <1>4, <1>8, <2>1 DEF OwnerLearnsTheTruth, Truth
<1>10. ASSUME NEW i \in DOMAIN replies', replies'[i].kind # "peerinfo"
       PROVE  replies'[i].conn = Believed(i)'
  <2>1. CASE i \in 1..N
    <3>1. i \in 0..N /\ i \in DOMAIN replies /\ replies'[i] = replies[i]
      BY <1>1, <1>3, <2>1
    <3>2. replies[i].conn = Believed(i)
      BY <1>10, <3>1 DEF ConnectorInvariant, MessagesBelongToConnection
    <3> QED
      BY <1>5, <3>1, <3>2
  <2>2. CASE i = N + 1
    BY <1>3, <1>6, <1>7, <1>10, <2>2
  <2> QED
    BY <1>1, <1>3, <2>1, <2>2
<1>11. MessagesBelongToConnection'
  BY <1>10 DEF MessagesBelongToConnection
<1>12. NoServerNoConnection'
  BY <1>1, <1>3 DEF ConnectorInvariant, NoServerNoConnection
<1> QED
  BY <1>9, <1>11, <1>12 DEF ConnectorInvariant

\* The queue after Tell(), and that there is something to call back for.
LEMMA TellTypes ==
  ASSUME TypeOK, NEW r \in Callbacks, Tell(<<r>>)
  PROVE  replies' \in Seq(Callbacks) /\ callback' \in BOOLEAN
BY DEF TypeOK, Tell

\* The end of a connection, or of the attempt to make one.
LEMMA LeaveStep ==
  ASSUME ConnectorInvariant, NEW stage \in {"off", "delay"}, LeaveConnectionStage(stage),
         UNCHANGED <<owner, status>>
  PROVE  ConnectorInvariant'
<1> DEFINE r == PeerInfo(NoServer, 0)
<1>1. r \in Callbacks /\ r.kind = "peerinfo" /\ r.conn = 0
  BY DEF PeerInfo, Callbacks
<1>2. /\ thread' = [IdleThread(thread.conn) EXCEPT !.stage = stage]
      /\ Tell(<<r>>) /\ down' = <<>>
  BY DEF LeaveConnectionStage
<1> HIDE DEF r
<1>3. TypeOK /\ Overdue \in Nat
  BY ConnectorAssumption DEF ConnectorInvariant
<1>4. /\ DOMAIN thread' = DOMAIN IdleThread(0) /\ thread'.conn = thread.conn
      /\ thread'.stage = stage /\ thread'.server = NoServer /\ thread'.overdue = 0
  BY <1>2, IdleFacts
<1>5. TypeOK'
  <2>1. down' \in Seq(FromServer)
    BY <1>2
  <2>2. replies' \in Seq(Callbacks) /\ callback' \in BOOLEAN
    BY <1>1, <1>2, <1>3, TellTypes
  <2>3. /\ owner' \in OwnerStates /\ status' \in [Servers -> {"up", "frozen", "off"}]
        /\ thread'.conn \in Nat /\ thread'.server \in Servers \union {NoServer}
        /\ thread'.overdue \in 0..Overdue
        /\ thread'.stage \in {"off", "discover", "connecting", "connected", "delay"}
    BY <1>3, <1>4 DEF TypeOK
  <2> QED
    BY <1>4, <2>1, <2>2, <2>3, TypeLater
<1>6. Truth' = 0
  BY <1>4 DEF Truth
<1>7. InputIsOfThisConnection'
  BY <1>2, <1>4 DEF InputIsOfThisConnection, InConnectionStage
<1> QED
  BY <1>1, <1>2, <1>5, <1>6, <1>7, TellStep

-----------------------------------------------------------------------------
\* The I/O thread and the servers.

\* Steps in a stage that change neither the stage nor the connection, but at
\* most what has come over it.
LEMMA SameConnection ==
  ASSUME ConnectorInvariant, UNCHANGED <<owner, replies, callback>>,
         status' \in [Servers -> {"up", "frozen", "off"}],
         DOMAIN thread' = DOMAIN thread, thread'.stage = thread.stage,
         thread'.conn = thread.conn, thread'.server = thread.server,
         thread'.overdue \in 0..Overdue, down' \in Seq(FromServer),
         \/ down' = down
         \/ /\ thread.stage = "connected"
            /\ \A i \in DOMAIN down' : down'[i].conn = thread.conn
  PROVE  ConnectorInvariant'
<1>1. TypeOK'
  BY TypeLater DEF ConnectorInvariant, TypeOK
<1>2. InputIsOfThisConnection' /\ Truth' = Truth
  BY DEF ConnectorInvariant, InputIsOfThisConnection, InConnectionStage, Truth
<1> QED
  BY <1>1, <1>2, SilentStep

\* HandleIncomingMessagesFromOwnerThread().
LEMMA ReadFromOwnerStep ==
  ASSUME ConnectorInvariant, ReadFromOwner
  PROVE  ConnectorInvariant'
<1>1. TypeOK /\ Overdue \in Nat /\ UNCHANGED <<owner, status>>
  BY ConnectorAssumption DEF ConnectorInvariant, ReadFromOwner
<1>2. \/ /\ \E new : thread' = [thread EXCEPT !.out = @ \o new]
         /\ UNCHANGED <<replies, callback, down>>
      \/ UNCHANGED <<thread, replies, callback, down>>
      \/ LeaveConnectionStage("off")
      \/ /\ ~InConnectionStage /\ thread' = IdleThread(thread.conn)
         /\ UNCHANGED <<replies, callback, down>>
  BY DEF ReadFromOwner
<1>3. ASSUME NEW new, thread' = [thread EXCEPT !.out = @ \o new],
             UNCHANGED <<replies, callback, down>>
      PROVE  ConnectorInvariant'
  <2>1. /\ DOMAIN thread' = DOMAIN thread /\ thread'.stage = thread.stage
        /\ thread'.conn = thread.conn /\ thread'.server = thread.server
        /\ thread'.overdue = thread.overdue
    BY <1>1, <1>3 DEF TypeOK, IdleThread
  <2> QED
    BY <1>1, <1>3, <2>1, SameConnection DEF TypeOK
<1>4. CASE UNCHANGED <<thread, replies, callback, down>>
  BY <1>1, <1>4, SameConnection DEF TypeOK
<1>5. CASE LeaveConnectionStage("off")
  BY <1>1, <1>5, LeaveStep
<1>6. CASE /\ ~InConnectionStage /\ thread' = IdleThread(thread.conn)
           /\ UNCHANGED <<replies, callback, down>>
  <2>1. /\ DOMAIN thread' = DOMAIN IdleThread(0) /\ thread'.conn = thread.conn
        /\ thread'.stage = "off" /\ thread'.server = NoServer /\ thread'.overdue = 0
    BY <1>6, IdleFacts
  <2> QED
    BY <1>1, <1>6, <2>1, Unconnected DEF TypeOK, InConnectionStage
<1> QED
  BY <1>2, <1>3, <1>4, <1>5, <1>6

\* Discovery finds a server, or fails; the delay ends.
LEMMA StageStep ==
  ASSUME ConnectorInvariant,
         (\E s \in Servers : DiscoveryUpdate(s)) \/ DiscoveryFails \/ DelayEnds
  PROVE  ConnectorInvariant'
<1>1. TypeOK /\ Overdue \in Nat /\ NoServer \notin Servers
  BY ConnectorAssumption DEF ConnectorInvariant
<1>2. ASSUME NEW s \in Servers, DiscoveryUpdate(s)
      PROVE  ConnectorInvariant'
  <2>1. /\ thread.stage = "discover"
        /\ thread' = [IdleThread(thread.conn + 1) EXCEPT !.stage = "connecting", !.server = s]
        /\ UNCHANGED <<owner, replies, callback, down, status>>
    BY <1>2 DEF DiscoveryUpdate
  <2>2. /\ DOMAIN thread' = DOMAIN IdleThread(0) /\ thread'.conn = thread.conn + 1
        /\ thread'.stage = "connecting" /\ thread'.server = s /\ thread'.overdue = 0
    BY <2>1, IdleFacts
  <2> QED
    BY <1>1, <2>1, <2>2, Unconnected DEF TypeOK
<1>3. ASSUME NEW now \in {"delay", "discover"}, thread.stage \in {"delay", "discover"},
             thread' = [thread EXCEPT !.stage = now],
             UNCHANGED <<owner, replies, callback, down, status>>
      PROVE  ConnectorInvariant'
  <2>1. /\ DOMAIN thread' = DOMAIN IdleThread(0) /\ thread'.conn = thread.conn
        /\ thread'.stage = now /\ thread'.server = thread.server
        /\ thread'.overdue = thread.overdue
    BY <1>1, <1>3 DEF TypeOK, IdleThread
  <2> QED
    BY <1>1, <1>3, <2>1, Unconnected DEF TypeOK
<1> QED
  BY <1>2, <1>3 DEF DiscoveryFails, DelayEnds

\* The connection is there, and the owner told.
LEMMA ConnectedStep ==
  ASSUME ConnectorInvariant, AsyncConnectCompleted
  PROVE  ConnectorInvariant'
<1> DEFINE r == PeerInfo(thread.server, thread.conn)
<1>1. TypeOK /\ Overdue \in Nat
  BY ConnectorAssumption DEF ConnectorInvariant
<1>2. /\ thread.stage = "connecting" /\ Tell(<<r>>) /\ UNCHANGED <<owner, down, status>>
      /\ thread' = RecordThatDataWasRead([thread EXCEPT !.stage = "connected", !.pinging = FALSE])
  BY DEF AsyncConnectCompleted
<1>3. r \in Callbacks /\ r.kind = "peerinfo" /\ r.conn = thread.conn /\ r.server = thread.server
  BY <1>1 DEF PeerInfo, Callbacks, TypeOK
<1> HIDE DEF r
<1>4. /\ DOMAIN thread' = DOMAIN IdleThread(0) /\ thread'.conn = thread.conn
      /\ thread'.stage = "connected" /\ thread'.server = thread.server /\ thread'.overdue = 0
  BY <1>1, <1>2 DEF TypeOK, IdleThread, RecordThatDataWasRead
<1>5. thread.server # NoServer
  BY <1>2 DEF ConnectorInvariant, InputIsOfThisConnection, InConnectionStage
<1>6. TypeOK'
  <2>1. replies' \in Seq(Callbacks) /\ callback' \in BOOLEAN
    BY <1>1, <1>2, <1>3, TellTypes
  <2> QED
    BY <1>1, <1>2, <1>4, <2>1, TypeLater DEF TypeOK
<1>7. InputIsOfThisConnection' /\ Truth' = thread.conn
  BY <1>2, <1>4, <1>5 DEF ConnectorInvariant, InputIsOfThisConnection, InConnectionStage, Truth
<1> QED
  BY <1>2, <1>3, <1>5, <1>6, <1>7, TellStep

\* A message for the owner: the answer to a sync-ping, or what a server sent.
LEMMA MessageStep ==
  ASSUME ConnectorInvariant, thread.stage = "connected", UNCHANGED <<owner, status>>,
         DOMAIN thread' = DOMAIN thread, thread'.stage = thread.stage,
         thread'.conn = thread.conn, thread'.server = thread.server,
         thread'.overdue \in 0..Overdue, down' \in Seq(FromServer),
         \A i \in DOMAIN down' : down'[i].conn = thread.conn,
         NEW r \in Callbacks, r.kind # "peerinfo", r.conn = thread.conn, Tell(<<r>>)
  PROVE  ConnectorInvariant'
<1>1. TypeOK
  BY DEF ConnectorInvariant
<1>2. TypeOK'
  <2>1. replies' \in Seq(Callbacks) /\ callback' \in BOOLEAN
    BY <1>1, TellTypes
  <2> QED
    BY <1>1, <2>1, TypeLater DEF TypeOK
<1>3. InputIsOfThisConnection' /\ Truth' = Truth /\ Truth = thread.conn
  BY DEF ConnectorInvariant, InputIsOfThisConnection, InConnectionStage, Truth
<1> QED
  BY <1>2, <1>3, TellStep

\* PopNextOutgoingMessage(): a sync-ping is answered on the spot, other
\* messages go to the server, whose answers come over the same connection.
LEMMA PopStep ==
  ASSUME ConnectorInvariant, PopNextOutgoingMessage
  PROVE  ConnectorInvariant'
<1>1. TypeOK /\ thread.stage = "connected" /\ UNCHANGED <<owner, status>>
  BY DEF ConnectorInvariant, PopNextOutgoingMessage
<1>2. down \in Seq(FromServer) /\ \A i \in DOMAIN down : down[i].conn = thread.conn
  BY DEF ConnectorInvariant, InputIsOfThisConnection, TypeOK
<1>3. thread' = [thread EXCEPT !.out = Tail(@)]
  BY DEF PopNextOutgoingMessage
<1>4. /\ DOMAIN thread' = DOMAIN thread /\ thread'.stage = thread.stage
      /\ thread'.conn = thread.conn /\ thread'.server = thread.server
      /\ thread'.overdue = thread.overdue /\ thread.overdue \in 0..Overdue
  BY <1>1, <1>3 DEF TypeOK, IdleThread
<1>5. CASE Tell(<<Message("sync", thread.conn)>>) /\ down' = down
  <2> DEFINE r == Message("sync", thread.conn)
  <2>1. r \in Callbacks /\ r.kind # "peerinfo" /\ r.conn = thread.conn
    BY <1>1 DEF Message, Callbacks, TypeOK
  <2>2. Tell(<<r>>)
    BY <1>5
  <2> HIDE DEF r
  <2> QED
    BY <1>1, <1>2, <1>4, <1>5, <2>1, <2>2, MessageStep
<1>6. ASSUME NEW x, down' = down \o Answer(x), UNCHANGED <<replies, callback>>
      PROVE  ConnectorInvariant'
  <2>1. /\ Message("params", thread.conn) \in FromServer
        /\ Message("pong", thread.conn) \in FromServer
    BY <1>1 DEF Message, FromServer, TypeOK
  <2>2. /\ Message("params", thread.conn).conn = thread.conn
        /\ Message("pong", thread.conn).conn = thread.conn
    BY DEF Message
  <2>3. \/ Answer(x) = <<>>
        \/ Answer(x) = <<Message("params", thread.conn)>>
        \/ Answer(x) = <<Message("pong", thread.conn)>>
    BY DEF Answer
  <2>4. /\ Answer(x) \in Seq(FromServer)
        /\ \A i \in DOMAIN Answer(x) : Answer(x)[i].conn = thread.conn
    <3>1. ASSUME NEW m \in FromServer, m.conn = thread.conn
          PROVE  <<m>> \in Seq(FromServer) /\ \A i \in DOMAIN <<m>> : <<m>>[i].conn = thread.conn
      BY <3>1
    <3>2. CASE Answer(x) = <<>>
      BY <3>2
    <3> QED
      BY <2>1, <2>2, <2>3, <3>1, <3>2
  <2>5. down' \in Seq(FromServer) /\ \A i \in DOMAIN down' : down'[i].conn = thread.conn
    BY <1>2, <1>6, <2>4
  <2> QED
    BY <1>1, <1>4, <1>6, <2>5, SameConnection DEF TypeOK
<1> QED
  BY <1>5, <1>6 DEF PopNextOutgoingMessage

\* MessageReceivedFromGateway(): a pong is eaten, anything else handed on.
LEMMA ReceiveStep ==
  ASSUME ConnectorInvariant, MessageReceivedFromGateway
  PROVE  ConnectorInvariant'
<1>1. /\ TypeOK /\ thread.stage = "connected" /\ UNCHANGED <<owner, status>>
      /\ down # <<>> /\ down' = Tail(down) /\ Overdue \in Nat
  BY ConnectorAssumption DEF ConnectorInvariant, MessageReceivedFromGateway
<1>2. down \in Seq(FromServer) /\ \A i \in DOMAIN down : down[i].conn = thread.conn
  BY DEF ConnectorInvariant, InputIsOfThisConnection, TypeOK
<1>3. /\ Head(down) \in FromServer /\ Head(down).conn = thread.conn
      /\ down' \in Seq(FromServer) /\ \A i \in DOMAIN down' : down'[i].conn = thread.conn
  BY <1>1, <1>2
<1>4. /\ DOMAIN thread' = DOMAIN thread /\ thread'.stage = thread.stage
      /\ thread'.conn = thread.conn /\ thread'.server = thread.server
      /\ thread'.overdue \in 0..Overdue
  <2>1. thread' = RecordThatDataWasRead([thread EXCEPT !.pinging = @ /\ Head(down).kind # "pong"])
    BY DEF MessageReceivedFromGateway
  <2> QED
    BY <1>1, <2>1 DEF TypeOK, IdleThread, RecordThatDataWasRead
<1>5. CASE Head(down).kind = "pong"
  <2>1. Tell(<<>>)
    BY <1>5 DEF MessageReceivedFromGateway
  <2>2. replies' = replies /\ callback' = callback
    BY <1>1, <2>1 DEF Tell, TypeOK
  <2> QED
    BY <1>1, <1>3, <1>4, <2>2, SameConnection DEF TypeOK
<1>6. CASE Head(down).kind # "pong"
  <2>1. Tell(<<Head(down)>>)
    BY <1>6 DEF MessageReceivedFromGateway
  <2>2. Head(down) \in Callbacks /\ Head(down).kind # "peerinfo"
    BY <1>3, <1>6 DEF FromServer, Callbacks
  <2> QED
    BY <1>1, <1>3, <1>4, <2>1, <2>2, MessageStep
<1> QED
  BY <1>5, <1>6

\* Time-sync answers, the inactivity timer, and breaks.
LEMMA WatchStep ==
  ASSUME ConnectorInvariant, TimeSyncReceived \/ Pulse \/ ConnectionBreaks
  PROVE  ConnectorInvariant'
<1>1. TypeOK /\ Overdue \in Nat
  BY ConnectorAssumption DEF ConnectorInvariant
<1>2. CASE ClientConnectionClosed
  BY <1>2, LeaveStep DEF ClientConnectionClosed
<1>3. CASE TimeSyncReceived
  <2>1. /\ thread' = RecordThatDataWasRead(thread)
        /\ UNCHANGED <<owner, replies, callback, down, status>>
    BY <1>3 DEF TimeSyncReceived
  <2>2. /\ DOMAIN thread' = DOMAIN thread /\ thread'.stage = thread.stage
        /\ thread'.conn = thread.conn /\ thread'.server = thread.server
        /\ thread'.overdue \in 0..Overdue
    BY <1>1, <2>1 DEF TypeOK, IdleThread, RecordThatDataWasRead
  <2> QED
    BY <1>1, <2>1, <2>2, SameConnection DEF TypeOK
<1>4. ASSUME NEW out, UNCHANGED <<owner, replies, callback, down, status>>,
             thread' = [thread EXCEPT !.pinging = TRUE,
                           !.overdue = IF @ < Overdue THEN @ + 1 ELSE @, !.out = out]
      PROVE  ConnectorInvariant'
  <2>1. /\ DOMAIN thread' = DOMAIN thread /\ thread'.stage = thread.stage
        /\ thread'.conn = thread.conn /\ thread'.server = thread.server
        /\ thread'.overdue \in 0..Overdue
    BY <1>1, <1>4 DEF TypeOK, IdleThread
  <2> QED
    BY <1>1, <1>4, <2>1, SameConnection DEF TypeOK
<1> QED
  BY <1>2, <1>3, <1>4 DEF Pulse, ConnectionBreaks

\* What the servers do.
LEMMA ServerStep ==
  ASSUME ConnectorInvariant,
         ServerSends \/ \E s \in Servers, now \in {"up", "frozen", "off"} : ServerChanges(s, now)
  PROVE  ConnectorInvariant'
<1>1. TypeOK
  BY DEF ConnectorInvariant
<1>2. CASE ServerSends
  <2>1. /\ thread.stage = "connected" /\ down' = Append(down, Message("data", thread.conn))
        /\ UNCHANGED <<owner, thread, replies, callback, status>>
    BY <1>2 DEF ServerSends
  <2>2. down \in Seq(FromServer) /\ \A i \in DOMAIN down : down[i].conn = thread.conn
    BY DEF ConnectorInvariant, InputIsOfThisConnection, TypeOK
  <2>3. /\ Message("data", thread.conn) \in FromServer
        /\ Message("data", thread.conn).conn = thread.conn
    BY <1>1 DEF Message, FromServer, TypeOK
  <2>4. down' \in Seq(FromServer) /\ \A i \in DOMAIN down' : down'[i].conn = thread.conn
    BY <2>1, <2>2, <2>3
  <2> QED
    BY <1>1, <2>1, <2>4, SameConnection DEF TypeOK
<1>3. ASSUME NEW s \in Servers, NEW now \in {"up", "frozen", "off"}, ServerChanges(s, now)
      PROVE  ConnectorInvariant'
  <2>1. /\ status' = [status EXCEPT ![s] = now]
        /\ UNCHANGED <<owner, thread, replies, callback, down>>
    BY <1>3 DEF ServerChanges
  <2>2. status' \in [Servers -> {"up", "frozen", "off"}]
    BY <1>1, <2>1 DEF TypeOK
  <2> QED
    BY <1>1, <2>1, <2>2, SameConnection DEF TypeOK
<1> QED
  BY <1>2, <1>3

-----------------------------------------------------------------------------
\* The theorems.

\* A connector that was never started has nothing queued and no connection.
LEMMA ConnectorInitial == Init => ConnectorInvariant
<1> SUFFICES ASSUME Init PROVE ConnectorInvariant
  OBVIOUS
<1>1. /\ owner = OwnerInit /\ thread = IdleThread(0) /\ replies = <<>> /\ callback = FALSE
      /\ down = <<>> /\ status = [s \in Servers |-> "up"]
  BY DEF Init
<1>2. thread.conn = 0 /\ thread.stage = "off" /\ thread.server = NoServer /\ thread.overdue = 0
  BY <1>1, IdleFacts DEF IdleThread
<1>3. owner \in OwnerStates /\ owner.conn = 0
  BY <1>1 DEF OwnerInit, OwnerStates
<1>4. TypeOK
  <2>1. Overdue \in Nat
    BY ConnectorAssumption
  <2>2. DOMAIN thread = DOMAIN IdleThread(0)
    BY <1>1
  <2>3. replies \in Seq(Callbacks) /\ down \in Seq(FromServer)
    BY <1>1
  <2>4. callback \in BOOLEAN /\ status \in [Servers -> {"up", "frozen", "off"}]
    BY <1>1
  <2> QED
    BY <1>2, <1>3, <2>1, <2>2, <2>3, <2>4 DEF TypeOK
<1>5. Believed(Len(replies)) = 0
  <2>1. Len(replies) = 0
    BY <1>1
  <2>2. {i \in 1..Len(replies) : replies[i].kind = "peerinfo"} = {}
    BY <2>1
  <2> QED
    BY <1>3, <2>2 DEF Believed
<1> QED
  BY <1>1, <1>2, <1>4, <1>5
     DEF ConnectorInvariant, InputIsOfThisConnection, InConnectionStage, NoServerNoConnection,
         OwnerLearnsTheTruth, MessagesBelongToConnection

\* Whatever the owner, the I/O thread and the servers do in which order.
LEMMA ConnectorInductive == ConnectorInvariant /\ [Next]_vars => ConnectorInvariant'
<1> SUFFICES ASSUME ConnectorInvariant, [Next]_vars PROVE ConnectorInvariant'
  OBVIOUS
<1>1. CASE Next
  BY <1>1, OwnerKeeps, ReadFromOwnerStep, StageStep, ConnectedStep, PopStep, ReceiveStep,
     WatchStep, ServerStep DEF Next, ThreadStep
<1>2. CASE vars' = vars
  <2>1. UNCHANGED <<owner, thread, replies, callback, down, status>>
    BY <1>2 DEF vars
  <2>2. TypeOK
    BY DEF ConnectorInvariant
  <2> QED
    BY <2>1, <2>2, SameConnection DEF TypeOK
<1> QED
  BY <1>1, <1>2

\* The state of both threads and of the queue between them at any moment:
\* what is queued leads the owner to the truth, and is about the connection
\* the owner will then believe in.
THEOREM ConnectorIsSound == Spec => []ConnectorInvariant
BY ConnectorInitial, ConnectorInductive, PTL DEF Spec

\* The owner of a ClientConnector is never left with a wrong idea of the
\* connection: the queued callbacks lead to the truth and a call of
\* DispatchCallbacks() for them has been requested, for any number of
\* servers, calls of Start() and Stop(), messages and failures.
THEOREM OwnerIsToldTheTruth == Spec => []OwnerLearnsTheTruth
<1>1. ConnectorInvariant => OwnerLearnsTheTruth
  BY DEF ConnectorInvariant
<1> QED
  BY <1>1, ConnectorIsSound, PTL

\* No message is handed to the owner as one of a connection it did not come
\* over, however many connections have come and gone while it was queued.
THEOREM MessagesKeepTheirConnection == Spec => []MessagesBelongToConnection
<1>1. ConnectorInvariant => MessagesBelongToConnection
  BY DEF ConnectorInvariant
<1> QED
  BY <1>1, ConnectorIsSound, PTL
=============================================================================

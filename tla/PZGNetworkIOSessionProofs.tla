--------------------- MODULE PZGNetworkIOSessionProofs ---------------------
(* Theorems about PZGNetworkIOSession, for any number of peers, sessions    *)
(* and interfaces, and any mix of events.                                   *)
EXTENDS PZGNetworkIOSession, SequenceTheorems, FiniteSetTheorems,
        WellFoundedInduction, TLAPS

----------------------------------------------------------------------------
(* A set of numbers that has 0 and, with every number, the next one.        *)
LEMMA SetInduction ==
  ASSUME NEW T, 0 \in T, \A n \in Nat : n \in T => n + 1 \in T
  PROVE  \A n \in Nat : n \in T
<1> DEFINE U == {n \in Nat : n \notin T}
           R == OpToRel(<, Nat)
<1> SUFFICES ASSUME U # {} PROVE FALSE
  OBVIOUS
<1>1. IsWellFoundedOn(R, Nat)
  BY NatLessThanWellFounded
<1>2. \A x, y \in Nat : <<x, y>> \in R <=> x < y
  BY DEF OpToRel
<1> HIDE DEF R
<1>3. U \subseteq Nat
  OBVIOUS
<1>4. PICK x \in U : \A y \in U : ~(<<y, x>> \in R)
  BY <1>1, <1>3, WFMin
<1>5. x \in Nat /\ x \notin T /\ \A y \in Nat : y < x => y \in T
  BY <1>2, <1>4
<1>6. x # 0
  BY <1>5
<1>7. x - 1 \in Nat /\ x - 1 < x /\ (x - 1) + 1 = x
  BY <1>5, <1>6
<1> QED
  BY <1>5, <1>7

(* A finite set can be listed.                                              *)
LEMMA SetToSeqFacts ==
  ASSUME NEW S, IsFiniteSet(S)
  PROVE  SetToSeq(S) \in Seq(S)
<1> DEFINE n == Cardinality(S)
<1>1. n \in Nat
  BY FS_CardinalityType
<1>2. PICK g : g \in Bijection(1 .. n, S)
  BY FS_CardinalityType DEF ExistsBijection
<1>3. g \in [1 .. n -> S] /\ IsInjective(g)
  BY <1>2 DEF Bijection, Injection, IsInjective
<1>4. SetToSeq(S) \in [1 .. n -> S]
  BY <1>3 DEF SetToSeq
<1> HIDE DEF n
<1> QED
  BY <1>1, <1>4, SeqDef

----------------------------------------------------------------------------
(* Queues of back-orders.                                                   *)

Keys == {"update", "full"}

LEMMA QueueFacts ==
  /\ \A key : ~Contains(<<>>, key)
  /\ \A key : Contains(<<"update">>, key) <=> key = "update"
  /\ \A key : Contains(<<"full">>, key) <=> key = "full"
  /\ \A key : Contains(<<"update", "full">>, key) <=> key \in Keys
<1>1. \A a, key : Contains(<<a>>, key) <=> key = a
  <2> SUFFICES ASSUME NEW a, NEW key PROVE Contains(<<a>>, key) <=> key = a
    OBVIOUS
  <2>1. Len(<<a>>) = 1 /\ <<a>>[1] = a /\ 1 .. 1 = {1}
    OBVIOUS
  <2> QED
    BY <2>1 DEF Contains
<1>2. \A a, b, key : Contains(<<a, b>>, key) <=> key \in {a, b}
  <2> SUFFICES ASSUME NEW a, NEW b, NEW key PROVE Contains(<<a, b>>, key) <=> key \in {a, b}
    OBVIOUS
  <2>1. Len(<<a, b>>) = 2 /\ <<a, b>>[1] = a /\ <<a, b>>[2] = b /\ 1 .. 2 = {1, 2}
    OBVIOUS
  <2> QED
    BY <2>1 DEF Contains
<1>3. \A key : ~Contains(<<>>, key)
  BY DEF Contains
<1> QED
  BY <1>1, <1>2, <1>3 DEF Keys

(* Orders are added at the end and answered from the front.                 *)
LEMMA EndsOfQueues ==
  ASSUME NEW a, NEW b
  PROVE  /\ Append(<<>>, a) = <<a>> /\ Append(<<a>>, b) = <<a, b>>
         /\ Head(<<a>>) = a /\ Tail(<<a>>) = <<>> /\ Len(<<a>>) = 1
         /\ Head(<<a, b>>) = a /\ Tail(<<a, b>>) = <<b>> /\ Len(<<a, b>>) = 2
<1> DEFINE S == {a, b}
<1>1. <<>> \in Seq(S) /\ <<a>> \in Seq(S) /\ <<b>> \in Seq(S) /\ <<a, b>> \in Seq(S) /\ a \in S /\ b \in S
  OBVIOUS
<1>2. Len(<<>>) = 0 /\ Len(<<a>>) = 1 /\ Len(<<b>>) = 1 /\ Len(<<a, b>>) = 2
  OBVIOUS
<1>3. <<a>>[1] = a /\ <<b>>[1] = b /\ <<a, b>>[1] = a /\ <<a, b>>[2] = b
  OBVIOUS
<1> HIDE DEF S
<1>4. Append(<<>>, a) = <<a>>
  <2>1. /\ Append(<<>>, a) \in Seq(S) /\ Len(Append(<<>>, a)) = Len(<<>>) + 1
        /\ Append(<<>>, a)[Len(<<>>) + 1] = a
    BY <1>1, AppendProperties
  <2>2. \A i \in 1 .. Len(Append(<<>>, a)) : i = 1
    BY <1>2, <2>1
  <2> QED
    BY <1>1, <1>2, <1>3, <2>1, <2>2, SeqEqual
<1>5. Append(<<a>>, b) = <<a, b>>
  <2>1. /\ Append(<<a>>, b) \in Seq(S) /\ Len(Append(<<a>>, b)) = Len(<<a>>) + 1
        /\ Append(<<a>>, b)[Len(<<a>>) + 1] = b
        /\ \A i \in 1 .. Len(<<a>>) : Append(<<a>>, b)[i] = <<a>>[i]
    BY <1>1, AppendProperties
  <2>2. Append(<<a>>, b)[1] = a /\ Append(<<a>>, b)[2] = b /\ Len(Append(<<a>>, b)) = 2
    BY <1>2, <1>3, <2>1
  <2>3. \A i \in 1 .. 2 : i = 1 \/ i = 2
    OBVIOUS
  <2>4. \A i \in 1 .. Len(Append(<<a>>, b)) : Append(<<a>>, b)[i] = <<a, b>>[i]
    BY <1>3, <2>2, <2>3
  <2> QED
    BY <1>1, <1>2, <2>1, <2>2, <2>4, SeqEqual
<1>6. Head(<<a>>) = a /\ Head(<<a, b>>) = a
  OBVIOUS
<1>7. Tail(<<a>>) = <<>> /\ Tail(<<a, b>>) = <<b>>
  OBVIOUS
<1> QED
  BY <1>2, <1>4, <1>5, <1>6, <1>7

LEMMA AppendContains ==
  ASSUME NEW S, NEW q \in Seq(S), NEW x \in S
  PROVE  /\ Append(q, x) \in Seq(S)
         /\ \A y : Contains(Append(q, x), y) <=> Contains(q, y) \/ y = x
         /\ ListedOnce(q) /\ ~Contains(q, x) => ListedOnce(Append(q, x))
<1> DEFINE t == Append(q, x)
           n == Len(q)
<1>1. /\ n \in Nat /\ DOMAIN q = 1 .. n /\ t \in Seq(S) /\ Len(t) = n + 1 /\ DOMAIN t = 1 .. n + 1
      /\ t[n + 1] = x /\ \A i \in 1 .. n : t[i] = q[i]
  BY AppendProperties, LenProperties
<1> HIDE DEF t, n
<1>2. \A i \in 1 .. n + 1 : i \in 1 .. n \/ i = n + 1
  BY <1>1
<1>3. \A i \in 1 .. n : i \in 1 .. n + 1
  BY <1>1
<1>4. n + 1 \in 1 .. n + 1
  BY <1>1
<1>5. \A y : Contains(t, y) <=> Contains(q, y) \/ y = x
  BY <1>1, <1>2, <1>3, <1>4 DEF Contains, n
<1>6. ASSUME ListedOnce(q), ~Contains(q, x),
             NEW i \in 1 .. n + 1, NEW j \in 1 .. n + 1, t[i] = t[j]
      PROVE  i = j
  <2>1. \A l \in 1 .. n : q[l] # x
    BY <1>6 DEF Contains, n
  <2>2. CASE i \in 1 .. n /\ j \in 1 .. n
    BY <1>1, <1>6, <2>2 DEF ListedOnce
  <2>3. CASE i = n + 1 \/ j = n + 1
    BY <1>1, <1>2, <1>6, <2>1, <2>3
  <2> QED
    BY <1>2, <2>2, <2>3
<1>7. ListedOnce(q) /\ ~Contains(q, x) => ListedOnce(t)
  BY <1>1, <1>6 DEF ListedOnce
<1> QED
  BY <1>1, <1>5, <1>7 DEF t

(* What Without() leaves of a queue, step by step.                          *)
IsThinning(f, q, s, N) ==
  f = [i \in 0 .. N |->
         IF i = 0 THEN <<>>
         ELSE IF q[i] = s THEN f[i - 1] ELSE Append(f[i - 1], q[i])]

LEMMA ThinningExists ==
  ASSUME NEW q, NEW s
  PROVE  \A N \in Nat : \E f : IsThinning(f, q, s, N)
<1> DEFINE T == {N \in Nat : \E f : IsThinning(f, q, s, N)}
           G(x, i) == IF q[i] = s THEN x ELSE Append(x, q[i])
<1>1. 0 \in T
  <2> DEFINE f == [i \in 0 .. 0 |-> <<>>]
  <2>1. f = [i \in 0 .. 0 |-> IF i = 0 THEN <<>>
                 ELSE IF q[i] = s THEN f[i - 1] ELSE Append(f[i - 1], q[i])]
    OBVIOUS
  <2> QED
    BY <2>1 DEF IsThinning
<1>2. ASSUME NEW n \in Nat, n \in T
      PROVE  n + 1 \in T
  <2>1. PICK f : IsThinning(f, q, s, n)
    BY <1>2
  <2> DEFINE x == n + 1
             g == [i \in 0 .. x |-> IF i < x THEN f[i] ELSE G(f[n], x)]
  <2>2. f = [i \in 0 .. n |-> IF i = 0 THEN <<>> ELSE G(f[i - 1], i)]
    BY <2>1 DEF IsThinning
  <2> HIDE DEF G
  <2>3. ASSUME NEW i \in 0 .. x
        PROVE  g[i] = IF i = 0 THEN <<>> ELSE G(g[i - 1], i)
    <3>1. CASE i = 0
      BY <2>2, <3>1
    <3>2. CASE i > 0 /\ i < x
      <4>1. i \in 0 .. n /\ i - 1 \in 0 .. n /\ i - 1 < x /\ i - 1 \in 0 .. x
        BY <2>3, <3>2
      <4>2. f[i] = G(f[i - 1], i)
        BY <2>2, <3>2, <4>1
      <4>3. g[i] = f[i] /\ g[i - 1] = f[i - 1]
        BY <2>3, <3>2, <4>1
      <4> QED
        BY <3>2, <4>2, <4>3
    <3>3. CASE i = x
      <4>1. n \in 0 .. x /\ n < x /\ ~(x < x) /\ x - 1 = n /\ x # 0
        OBVIOUS
      <4>2. g[x] = G(f[n], x) /\ g[n] = f[n]
        BY <3>3, <4>1
      <4> QED
        BY <3>3, <4>1, <4>2
    <3> QED
      BY <2>3, <3>1, <3>2, <3>3
  <2>4. g = [i \in 0 .. x |-> IF i = 0 THEN <<>> ELSE G(g[i - 1], i)]
    BY <2>3
  <2> HIDE DEF g
  <2>5. IsThinning(g, q, s, x)
    BY <2>4 DEF IsThinning, G
  <2> QED
    BY <2>5
<1>3. \A n \in Nat : n \in T
  <2> HIDE DEF T
  <2> QED
    BY <1>1, <1>2, SetInduction
<1> QED
  BY <1>3

LEMMA WithoutFacts ==
  ASSUME NEW S, NEW q \in Seq(S), NEW s
  PROVE  /\ Without(q, s) \in Seq(S)
         /\ \A y : Contains(Without(q, s), y) <=> Contains(q, y) /\ y # s
         /\ ListedOnce(q) => ListedOnce(Without(q, s))
<1> DEFINE N == Len(q)
<1>1. N \in Nat /\ DOMAIN q = 1 .. N /\ \A i \in 1 .. N : q[i] \in S
  BY LenProperties, ElementOfSeq
<1>2. PICK f : IsThinning(f, q, s, N) /\ Without(q, s) = f[N]
  <2>1. \E f : IsThinning(f, q, s, N)
    BY <1>1, ThinningExists
  <2> QED
    BY <2>1 DEF IsThinning, Without
<1> DEFINE In(n, y) == \E j \in 1 .. n : q[j] = y /\ y # s
           Good(n) == /\ f[n] \in Seq(S)
                      /\ \A y : Contains(f[n], y) <=> In(n, y)
                      /\ ListedOnce(q) => ListedOnce(f[n])
           T == {n \in Nat : n <= N => Good(n)}
<1>3. 0 \in T
  <2>1. f[0] = <<>>
    BY <1>1, <1>2 DEF IsThinning
  <2>2. <<>> \in Seq(S) /\ ListedOnce(<<>>) /\ \A y : ~Contains(<<>>, y)
    BY DEF ListedOnce, Contains
  <2>3. \A y : ~In(0, y)
    OBVIOUS
  <2> HIDE DEF In
  <2> QED
    BY <2>1, <2>2, <2>3
<1>4. ASSUME NEW n \in Nat, n \in T
      PROVE  n + 1 \in T
  <2> SUFFICES ASSUME n + 1 <= N PROVE Good(n + 1)
    OBVIOUS
  <2> DEFINE x == n + 1
  <2>1. /\ n \in 0 .. N /\ x \in 0 .. N /\ x \in 1 .. N /\ x - 1 = n /\ x # 0 /\ x \in 1 .. x
        /\ \A i \in 1 .. x : i \in 1 .. n \/ i = x
        /\ \A i \in 1 .. n : i \in 1 .. x /\ i \in 1 .. N /\ i # x
    BY <1>1
  <2>2. f[x] = IF q[x] = s THEN f[n] ELSE Append(f[n], q[x])
    BY <1>2, <2>1 DEF IsThinning
  <2>3. Good(n)
    BY <1>4, <2>1
  <2>4. CASE q[x] = s
    <3>1. \A y : In(x, y) <=> In(n, y)
      BY <2>1, <2>4
    <3>2. f[x] = f[n]
      BY <2>2, <2>4
    <3> HIDE DEF In
    <3> QED
      BY <2>3, <3>1, <3>2
  <2>5. CASE q[x] # s
    <3>1. \A y : In(x, y) <=> In(n, y) \/ y = q[x]
      BY <2>1, <2>5
    <3>2. f[x] = Append(f[n], q[x]) /\ q[x] \in S
      BY <1>1, <2>1, <2>2, <2>5
    <3>3. ListedOnce(q) => ~Contains(f[n], q[x])
      BY <1>1, <2>1, <2>3 DEF ListedOnce
    <3> HIDE DEF In
    <3>4. /\ f[x] \in Seq(S)
          /\ \A y : Contains(f[x], y) <=> Contains(f[n], y) \/ y = q[x]
          /\ ListedOnce(f[n]) /\ ~Contains(f[n], q[x]) => ListedOnce(f[x])
      BY <2>3, <3>2, AppendContains
    <3> QED
      BY <2>3, <3>1, <3>3, <3>4
  <2> QED
    BY <2>4, <2>5
<1>5. \A n \in Nat : n \in T
  <2> HIDE DEF T
  <2> QED
    BY <1>3, <1>4, SetInduction
<1>6. Good(N)
  <2>1. N \in T /\ N <= N
    <3> HIDE DEF T
    <3> QED
      BY <1>1, <1>5
  <2> HIDE DEF Good, N
  <2> QED
    BY <2>1
<1>7. \A y : Contains(q, y) /\ y # s <=> In(N, y)
  BY DEF Contains
<1> HIDE DEF In, N
<1> QED
  BY <1>2, <1>6, <1>7
----------------------------------------------------------------------------
(* Sound states of the unicast sessions.                                    *)

SessionStates == [registered : BOOLEAN, remotePeerID : Others \cup {NoPeer},
                  backorders : OrderQueues]

UnicastStates == [sessions : [Sessions -> SessionStates],
                  named : [Others -> Seq(Sessions)],
                  awaited : SUBSET (Others \X Keys)]

Sound(u) ==
  /\ u \in UnicastStates
  /\ SessionsAreSound(u.sessions)
  /\ ListsAreSound(u.sessions, u.named)
  /\ OrdersAreSound(u.sessions, u.awaited)

SoundStates == {u \in UnicastStates : Sound(u)}

LEMMA NoSessionFacts ==
  /\ NoSession \in SessionStates /\ NoSession.registered = FALSE
  /\ NoSession.remotePeerID = NoPeer /\ NoSession.backorders = <<>>
  /\ \A p \in Others : p # NoPeer
  /\ \A p \in Others \cup {NoPeer} :
       LET r == [NoSession EXCEPT !.registered = TRUE, !.remotePeerID = p]
       IN  r \in SessionStates /\ r.registered = TRUE /\ r.remotePeerID = p /\ r.backorders = <<>>
BY NetworkIOAssumption DEF NoSession, SessionStates, OrderQueues

(* What soundness says, piece by piece.                                     *)
LEMMA SoundFacts ==
  ASSUME NEW u, Sound(u)
  PROVE  /\ u \in UnicastStates
         /\ u.sessions \in [Sessions -> SessionStates]
         /\ u.named \in [Others -> Seq(Sessions)]
         /\ u.awaited \subseteq Others \X Keys
         /\ \A s \in Sessions :
              /\ ~u.sessions[s].registered => u.sessions[s].remotePeerID = NoPeer
              /\ u.sessions[s].remotePeerID = NoPeer => u.sessions[s].backorders = <<>>
         /\ \A p \in Others : ListedOnce(u.named[p])
         /\ \A p \in Others, s \in Sessions :
              Contains(u.named[p], s) <=> u.sessions[s].registered /\ u.sessions[s].remotePeerID = p
         /\ \A p \in Others, key \in Keys :
              <<p, key>> \in u.awaited <=> \E s \in Sessions : Holds(u.sessions, s, p, key)
         /\ \A p \in Others, key \in Keys, s \in Sessions, t \in Sessions :
              Holds(u.sessions, s, p, key) /\ Holds(u.sessions, t, p, key) => s = t
<1>1. u \in UnicastStates
  BY DEF Sound
<1>2. /\ u.sessions \in [Sessions -> SessionStates] /\ u.named \in [Others -> Seq(Sessions)]
      /\ u.awaited \subseteq Others \X Keys
  BY <1>1 DEF UnicastStates
<1>3. \A s \in Sessions :
        /\ ~u.sessions[s].registered => u.sessions[s].remotePeerID = NoPeer
        /\ u.sessions[s].remotePeerID = NoPeer => u.sessions[s].backorders = <<>>
  BY DEF Sound, SessionsAreSound
<1>4. /\ \A p \in Others : ListedOnce(u.named[p])
      /\ \A p \in Others, s \in Sessions :
           Contains(u.named[p], s) <=> u.sessions[s].registered /\ u.sessions[s].remotePeerID = p
  BY DEF Sound, ListsAreSound
<1>5. /\ \A p \in Others, key \in Keys :
           <<p, key>> \in u.awaited <=> \E s \in Sessions : Holds(u.sessions, s, p, key)
      /\ \A p \in Others, key \in Keys, s \in Sessions, t \in Sessions :
           Holds(u.sessions, s, p, key) /\ Holds(u.sessions, t, p, key) => s = t
  BY DEF Sound, OrdersAreSound, Keys
<1> QED
  BY <1>1, <1>2, <1>3, <1>4, <1>5

LEMMA SoundIntro ==
  ASSUME NEW u \in UnicastStates,
         \A s \in Sessions :
           /\ ~u.sessions[s].registered => u.sessions[s].remotePeerID = NoPeer
           /\ u.sessions[s].remotePeerID = NoPeer => u.sessions[s].backorders = <<>>,
         \A p \in Others : ListedOnce(u.named[p]),
         \A p \in Others, s \in Sessions :
           Contains(u.named[p], s) <=> u.sessions[s].registered /\ u.sessions[s].remotePeerID = p,
         \A p \in Others, key \in Keys :
           <<p, key>> \in u.awaited <=> \E s \in Sessions : Holds(u.sessions, s, p, key),
         \A p \in Others, key \in Keys, s \in Sessions, t \in Sessions :
           Holds(u.sessions, s, p, key) /\ Holds(u.sessions, t, p, key) => s = t
  PROVE  Sound(u)
<1>1. SessionsAreSound(u.sessions)
  BY DEF SessionsAreSound, UnicastStates, SessionStates
<1>2. ListsAreSound(u.sessions, u.named)
  BY DEF ListsAreSound, UnicastStates
<1>3. OrdersAreSound(u.sessions, u.awaited)
  BY DEF OrdersAreSound, UnicastStates, Keys
<1> QED
  BY <1>1, <1>2, <1>3 DEF Sound

(* A new session under a peer's name, or under none.                        *)
LEMMA RegisterIsSound ==
  ASSUME NEW u, Sound(u), NEW s \in Sessions, ~u.sessions[s].registered,
         NEW p \in Others \cup {NoPeer}
  PROVE  LET v == RegisterUnicastSession(u, s, p)
         IN  /\ Sound(v) /\ v.awaited = u.awaited
             /\ v.sessions[s].registered /\ v.sessions[s].remotePeerID = p
             /\ v.sessions[s].backorders = <<>>
<1> DEFINE r == [NoSession EXCEPT !.registered = TRUE, !.remotePeerID = p]
           ss == [u.sessions EXCEPT ![s] = r]
           nm == [q \in Others |-> IF q = p THEN Append(u.named[q], s) ELSE u.named[q]]
           v == RegisterUnicastSession(u, s, p)
<1>1. u \in UnicastStates
  BY DEF Sound
<1>2. /\ u.sessions \in [Sessions -> SessionStates] /\ u.named \in [Others -> Seq(Sessions)]
      /\ u.awaited \subseteq Others \X Keys
  BY <1>1 DEF UnicastStates
<1>3. /\ r \in SessionStates /\ r.registered = TRUE /\ r.remotePeerID = p /\ r.backorders = <<>>
  BY NoSessionFacts
<1> HIDE DEF r
<1>4. /\ ss \in [Sessions -> SessionStates] /\ ss[s] = r
      /\ \A t \in Sessions : t # s => ss[t] = u.sessions[t]
  BY <1>2, <1>3
<1>5. \A q \in Others : nm[q] = IF q = p THEN Append(u.named[q], s) ELSE u.named[q]
  OBVIOUS
<1>6. v = [u EXCEPT !.sessions = ss, !.named = nm]
  BY <1>1, <1>2 DEF RegisterUnicastSession, UnicastStates, r
<1>7. \A q \in Others : /\ Append(u.named[q], s) \in Seq(Sessions)
                        /\ \A y : Contains(Append(u.named[q], s), y) <=> Contains(u.named[q], y) \/ y = s
                        /\ ListedOnce(u.named[q]) /\ ~Contains(u.named[q], s) => ListedOnce(Append(u.named[q], s))
  BY <1>2, AppendContains
<1>8. nm \in [Others -> Seq(Sessions)]
  BY <1>2, <1>7
<1> HIDE DEF ss, nm
<1>9. v \in UnicastStates /\ v.sessions = ss /\ v.named = nm /\ v.awaited = u.awaited
  BY <1>1, <1>4, <1>6, <1>8 DEF UnicastStates
<1> HIDE DEF v
<1>10. u.sessions[s].remotePeerID = NoPeer /\ u.sessions[s].backorders = <<>>
  BY DEF Sound, SessionsAreSound
<1>11. SessionsAreSound(ss)
  <2>1. ss \in [Sessions -> [registered : BOOLEAN, remotePeerID : Others \cup {NoPeer}, backorders : OrderQueues]]
    BY <1>4 DEF SessionStates
  <2> QED
    BY <1>3, <1>4, <2>1 DEF Sound, SessionsAreSound
<1>12. ListsAreSound(ss, nm)
  <2>1. \A q \in Others : ListedOnce(u.named[q]) /\ ~Contains(u.named[q], s)
    BY DEF Sound, ListsAreSound
  <2>2. \A q \in Others : ListedOnce(nm[q])
    BY <1>5, <1>7, <2>1
  <2>3. ASSUME NEW q \in Others, NEW t \in Sessions
        PROVE  Contains(nm[q], t) <=> ss[t].registered /\ ss[t].remotePeerID = q
    <3>1. Contains(u.named[q], t) <=> u.sessions[t].registered /\ u.sessions[t].remotePeerID = q
      BY DEF Sound, ListsAreSound
    <3> QED
      BY <1>3, <1>4, <1>5, <1>7, <2>1, <3>1
  <2> QED
    BY <1>8, <2>2, <2>3 DEF ListsAreSound
<1>13. OrdersAreSound(ss, u.awaited)
  <2>1. ASSUME NEW q \in Others, NEW key, NEW t \in Sessions
        PROVE  Holds(ss, t, q, key) <=> Holds(u.sessions, t, q, key)
    BY <1>3, <1>4, <1>10, QueueFacts DEF Holds
  <2> QED
    BY <2>1 DEF Sound, OrdersAreSound
<1> QED
  BY <1>3, <1>4, <1>9, <1>11, <1>12, <1>13 DEF Sound, v

(* A session has room for an order that is not waited for.                  *)
LEMMA OrderRoom ==
  ASSUME NEW u, Sound(u), NEW s \in Sessions, NEW p \in Others, NEW key \in Keys,
         u.sessions[s].remotePeerID = p,
         <<p, key>> \notin u.awaited, <<p, "full">> \notin u.awaited
  PROVE  LET o == u.sessions[s].backorders
         IN  /\ ~Contains(o, key) /\ Append(o, key) \in OrderQueues
             /\ \A k : Contains(Append(o, key), k) <=> Contains(o, k) \/ k = key
<1> DEFINE o == u.sessions[s].backorders
           n == Append(o, key)
<1>1. u.sessions[s] \in SessionStates
  BY SoundFacts
<1>3. u.sessions[s] \in SessionStates /\ o \in OrderQueues
  BY <1>1 DEF SessionStates
<1>4. ~Contains(o, key) /\ ~Contains(o, "full")
  <2>1. ~Holds(u.sessions, s, p, key) /\ ~Holds(u.sessions, s, p, "full")
    <3>1. \A k \in Keys : <<p, k>> \in u.awaited <=> \E t \in Sessions : Holds(u.sessions, t, p, k)
      BY SoundFacts
    <3>2. "full" \in Keys
      BY DEF Keys
    <3> QED
      BY <3>1, <3>2
  <2> QED
    BY <2>1 DEF Holds
<1>5. o = <<>> \/ (o = <<"update">> /\ key = "full")
  BY <1>3, <1>4, QueueFacts DEF OrderQueues, Keys
<1>6. n \in OrderQueues /\ \A k : Contains(n, k) <=> Contains(o, k) \/ k = key
  <2>1. CASE o = <<>>
    <3>1. Append(<<>>, key) = <<key>>
      BY EndsOfQueues
    <3>2. n = <<key>>
      BY <2>1, <3>1
    <3> QED
      BY <2>1, <3>2, QueueFacts DEF OrderQueues, Keys
  <2>2. CASE o = <<"update">> /\ key = "full"
    <3>1. Append(<<"update">>, "full") = <<"update", "full">>
      BY EndsOfQueues
    <3>2. n = <<"update", "full">>
      BY <2>2, <3>1
    <3> QED
      BY <2>2, <3>2, QueueFacts DEF OrderQueues, Keys
  <2> QED
    BY <1>5, <2>1, <2>2
<1> QED
  BY <1>4, <1>6

(* An order through a registered session.                                   *)
LEMMA PlacingIsSound ==
  ASSUME NEW u, Sound(u), NEW s \in Sessions, NEW p \in Others, NEW key \in Keys,
         u.sessions[s].registered, u.sessions[s].remotePeerID = p,
         <<p, key>> \notin u.awaited, <<p, "full">> \notin u.awaited
  PROVE  Sound(RequestBackOrder(u, p, s, key))
<1> DEFINE o == u.sessions[s].backorders
           n == Append(o, key)
           r == [u.sessions[s] EXCEPT !.backorders = n]
           ss == [u.sessions EXCEPT ![s] = r]
           aw == u.awaited \cup {<<p, key>>}
           v == [u EXCEPT !.sessions = ss, !.awaited = aw]
<1>1. u \in UnicastStates
  BY DEF Sound
<1>2. /\ u.sessions \in [Sessions -> SessionStates] /\ u.named \in [Others -> Seq(Sessions)]
      /\ u.awaited \subseteq Others \X Keys
  BY <1>1 DEF UnicastStates
<1>3. u.sessions[s] \in SessionStates
  BY <1>2
<1>6. ~Contains(o, key) /\ n \in OrderQueues /\ \A k : Contains(n, k) <=> Contains(o, k) \/ k = key
  BY OrderRoom
<1>7. RequestBackOrder(u, p, s, key) = v
  BY <1>1, <1>2, <1>3, <1>6 DEF RequestBackOrder, UnicastStates, SessionStates
<1> HIDE DEF n
<1>8. /\ r \in SessionStates /\ r.registered = u.sessions[s].registered
      /\ r.remotePeerID = p /\ r.backorders = n
  BY <1>3, <1>6 DEF SessionStates
<1> HIDE DEF r, o
<1>9. /\ ss \in [Sessions -> SessionStates] /\ ss[s] = r
      /\ \A t \in Sessions : t # s => ss[t] = u.sessions[t]
  BY <1>2, <1>8
<1>10. aw \subseteq Others \X Keys
  BY <1>2
<1> HIDE DEF ss
<1>11. v \in UnicastStates /\ v.sessions = ss /\ v.named = u.named /\ v.awaited = aw
  BY <1>1, <1>9, <1>10 DEF UnicastStates
<1> HIDE DEF v
<1>12. \A t \in Sessions : /\ ss[t].registered = u.sessions[t].registered
                           /\ ss[t].remotePeerID = u.sessions[t].remotePeerID
                           /\ t # s => ss[t].backorders = u.sessions[t].backorders
  BY <1>8, <1>9
<1>13. ASSUME NEW q \in Others, NEW k \in Keys, NEW t \in Sessions
      PROVE  Holds(ss, t, q, k) <=> Holds(u.sessions, t, q, k) \/ (t = s /\ q = p /\ k = key)
  BY <1>6, <1>8, <1>9 DEF Holds, o
<1>14. \A t \in Sessions : ~Holds(u.sessions, t, p, key)
  BY SoundFacts
<1>15. ASSUME NEW q \in Others, NEW k \in Keys
       PROVE  <<q, k>> \in aw <=> \E t \in Sessions : Holds(ss, t, q, k)
  <2>1. <<q, k>> \in aw <=> <<q, k>> \in u.awaited \/ (q = p /\ k = key)
    OBVIOUS
  <2>2. <<q, k>> \in u.awaited <=> \E t \in Sessions : Holds(u.sessions, t, q, k)
    BY SoundFacts
  <2> QED
    BY <1>13, <2>1, <2>2
<1>16. ASSUME NEW q \in Others, NEW k \in Keys, NEW t \in Sessions, NEW w \in Sessions,
              Holds(ss, t, q, k), Holds(ss, w, q, k)
       PROVE  t = w
  <2>1. Holds(u.sessions, t, q, k) /\ Holds(u.sessions, w, q, k) => t = w
    BY SoundFacts
  <2> QED
    BY <1>13, <1>14, <1>16, <2>1
<1>17. \A t \in Sessions : /\ ~ss[t].registered => ss[t].remotePeerID = NoPeer
                           /\ ss[t].remotePeerID = NoPeer => ss[t].backorders = <<>>
  <2>1. \A t \in Sessions :
          /\ ~u.sessions[t].registered => u.sessions[t].remotePeerID = NoPeer
          /\ u.sessions[t].remotePeerID = NoPeer => u.sessions[t].backorders = <<>>
    BY SoundFacts
  <2>2. p # NoPeer
    BY NetworkIOAssumption
  <2> QED
    BY <1>12, <2>1, <2>2
<1>18. \A q \in Others, t \in Sessions :
         Contains(u.named[q], t) <=> ss[t].registered /\ ss[t].remotePeerID = q
  <2>1. \A q \in Others, t \in Sessions :
          Contains(u.named[q], t) <=> u.sessions[t].registered /\ u.sessions[t].remotePeerID = q
    BY SoundFacts
  <2> QED
    BY <1>12, <2>1
<1>19. \A q \in Others : ListedOnce(u.named[q])
  BY SoundFacts
<1> HIDE DEF aw
<1>20. Sound(v)
  BY <1>11, <1>15, <1>16, <1>17, <1>18, <1>19, SoundIntro
<1> QED
  BY <1>7, <1>20

(* The fields of a state after one of the operations.                       *)

Placed(ss, s, key) ==
  [ss EXCEPT ![s] = [ss[s] EXCEPT !.backorders = Append(ss[s].backorders, key)]]

Answered(u, p, key) == [u EXCEPT !.awaited = @ \ {<<p, key>>}]

LEMMA PlacingFacts ==
  ASSUME NEW u \in UnicastStates, NEW s \in Sessions, NEW p \in Others, NEW key \in Keys,
         u.sessions[s].registered, ~Contains(u.sessions[s].backorders, key),
         Append(u.sessions[s].backorders, key) \in OrderQueues
  PROVE  LET v == RequestBackOrder(u, p, s, key)
         IN  /\ v \in UnicastStates
             /\ v.sessions = Placed(u.sessions, s, key)
             /\ v.named = u.named /\ v.awaited = u.awaited \cup {<<p, key>>}
<1> DEFINE o == u.sessions[s].backorders
           n == Append(o, key)
           r == [u.sessions[s] EXCEPT !.backorders = n]
           ss == [u.sessions EXCEPT ![s] = r]
           aw == u.awaited \cup {<<p, key>>}
           v == [u EXCEPT !.sessions = ss, !.awaited = aw]
<1>1. /\ u.sessions \in [Sessions -> SessionStates] /\ u.named \in [Others -> Seq(Sessions)]
      /\ u.awaited \subseteq Others \X Keys
  BY DEF UnicastStates
<1>2. u.sessions[s] \in SessionStates
  BY <1>1
<1>3. RequestBackOrder(u, p, s, key) = v
  BY <1>1, <1>2 DEF RequestBackOrder, UnicastStates, SessionStates
<1>4. r \in SessionStates
  BY <1>2 DEF SessionStates
<1> HIDE DEF r
<1>5. ss \in [Sessions -> SessionStates] /\ aw \subseteq Others \X Keys
  BY <1>1, <1>4
<1> HIDE DEF ss, aw
<1>6. v \in UnicastStates /\ v.sessions = ss /\ v.named = u.named /\ v.awaited = aw
  BY <1>5 DEF UnicastStates
<1> QED
  BY <1>3, <1>6 DEF ss, aw, r, Placed

LEMMA UnregisteringFacts ==
  ASSUME NEW u \in UnicastStates, NEW s \in Sessions
  PROVE  LET v == UnregisterUnicastSession(u, s)
         IN  /\ v \in UnicastStates
             /\ v.sessions = [u.sessions EXCEPT ![s] = NoSession]
             /\ v.named = [q \in Others |-> Without(u.named[q], s)]
             /\ v.awaited = u.awaited
<1> DEFINE ss == [u.sessions EXCEPT ![s] = NoSession]
           nm == [q \in Others |-> Without(u.named[q], s)]
           v == [u EXCEPT !.sessions = ss, !.named = nm]
<1>1. /\ u.sessions \in [Sessions -> SessionStates] /\ u.named \in [Others -> Seq(Sessions)]
      /\ u.awaited \subseteq Others \X Keys
  BY DEF UnicastStates
<1>2. UnregisterUnicastSession(u, s) = v
  BY <1>1 DEF UnregisterUnicastSession, UnicastStates
<1>3. ss \in [Sessions -> SessionStates]
  BY <1>1, NoSessionFacts
<1>4. \A q \in Others : Without(u.named[q], s) \in Seq(Sessions)
  BY <1>1, WithoutFacts
<1>5. nm \in [Others -> Seq(Sessions)]
  BY <1>4
<1> HIDE DEF ss, nm
<1>6. v \in UnicastStates /\ v.sessions = ss /\ v.named = nm /\ v.awaited = u.awaited
  BY <1>3, <1>5 DEF UnicastStates
<1> QED
  BY <1>2, <1>6 DEF ss, nm

LEMMA WaitingFacts ==
  ASSUME NEW u \in UnicastStates, NEW p, NEW key
  PROVE  LET v == Answered(u, p, key)
         IN  /\ v \in UnicastStates /\ v.sessions = u.sessions /\ v.named = u.named
             /\ v.awaited = u.awaited \ {<<p, key>>}
BY DEF UnicastStates, Answered

(* A session that is gone with its back-orders, and leaves the rest alone.  *)
LEMMA DroppingIsSound ==
  ASSUME NEW u, Sound(u), NEW s \in Sessions, NEW w \in UnicastStates,
         w.sessions[s] = NoSession,
         \A t \in Sessions : t # s => w.sessions[t] = u.sessions[t],
         \A q \in Others : w.named[q] = Without(u.named[q], s),
         \A q \in Others, k \in Keys :
           <<q, k>> \in w.awaited <=> <<q, k>> \in u.awaited /\ ~Holds(u.sessions, s, q, k)
  PROVE  Sound(w)
<1>1. /\ NoSession.registered = FALSE /\ NoSession.remotePeerID = NoPeer /\ NoSession.backorders = <<>>
  BY DEF NoSession
<1>2. \A t \in Sessions : /\ ~w.sessions[t].registered => w.sessions[t].remotePeerID = NoPeer
                          /\ w.sessions[t].remotePeerID = NoPeer => w.sessions[t].backorders = <<>>
  <2>1. \A t \in Sessions :
          /\ ~u.sessions[t].registered => u.sessions[t].remotePeerID = NoPeer
          /\ u.sessions[t].remotePeerID = NoPeer => u.sessions[t].backorders = <<>>
    BY SoundFacts
  <2> QED
    BY <1>1, <2>1
<1>3. \A q \in Others : u.named[q] \in Seq(Sessions) /\ ListedOnce(u.named[q])
  BY SoundFacts
<1>4. \A q \in Others : ListedOnce(w.named[q])
  BY <1>3, WithoutFacts
<1>5. ASSUME NEW q \in Others, NEW t \in Sessions
      PROVE  Contains(w.named[q], t) <=> w.sessions[t].registered /\ w.sessions[t].remotePeerID = q
  <2>1. Contains(u.named[q], t) <=> u.sessions[t].registered /\ u.sessions[t].remotePeerID = q
    BY SoundFacts
  <2>2. Contains(w.named[q], t) <=> Contains(u.named[q], t) /\ t # s
    BY <1>3, WithoutFacts
  <2> QED
    BY <1>1, <2>1, <2>2
<1>6. ASSUME NEW q \in Others, NEW k \in Keys, NEW t \in Sessions
      PROVE  Holds(w.sessions, t, q, k) <=> Holds(u.sessions, t, q, k) /\ t # s
  BY <1>1, QueueFacts DEF Holds
<1>7. ASSUME NEW q \in Others, NEW k \in Keys
      PROVE  <<q, k>> \in w.awaited <=> \E t \in Sessions : Holds(w.sessions, t, q, k)
  <2>1. <<q, k>> \in u.awaited <=> \E t \in Sessions : Holds(u.sessions, t, q, k)
    BY SoundFacts
  <2>2. \A t \in Sessions : Holds(u.sessions, s, q, k) /\ Holds(u.sessions, t, q, k) => t = s
    BY SoundFacts
  <2> QED
    BY <1>6, <2>1, <2>2
<1>8. ASSUME NEW q \in Others, NEW k \in Keys, NEW t \in Sessions, NEW x \in Sessions,
             Holds(w.sessions, t, q, k), Holds(w.sessions, x, q, k)
      PROVE  t = x
  <2>1. Holds(u.sessions, t, q, k) /\ Holds(u.sessions, x, q, k) => t = x
    BY SoundFacts
  <2> QED
    BY <1>6, <1>8, <2>1
<1> QED
  BY <1>2, <1>4, <1>5, <1>7, <1>8, SoundIntro

(* The same, when an update has been given up: the peer's first session,    *)
(* if it is another one, is asked for the whole database.                   *)
LEMMA TurningToAnother ==
  ASSUME NEW u, Sound(u), NEW s \in Sessions, NEW t \in Sessions, s # t, NEW p \in Others,
         u.sessions[s].remotePeerID = p, u.sessions[s].backorders = <<"update">>,
         u.sessions[t].registered, u.sessions[t].remotePeerID = p,
         <<p, "full">> \notin u.awaited,
         NEW w \in UnicastStates,
         w.sessions[s] = NoSession,
         w.sessions[t] = Placed(u.sessions, t, "full")[t],
         \A r \in Sessions : r # s /\ r # t => w.sessions[r] = u.sessions[r],
         w.named = [q \in Others |-> Without(u.named[q], s)],
         w.awaited = (u.awaited \ {<<p, "update">>}) \cup {<<p, "full">>}
  PROVE  Sound(w)
<1> DEFINE a == UnregisterUnicastSession(u, s)
           v == Answered(a, p, "update")
           x == RequestBackOrder(v, p, t, "full")
<1>1. u \in UnicastStates /\ u.sessions \in [Sessions -> SessionStates]
  BY SoundFacts
<1>2. /\ a \in UnicastStates
      /\ a.sessions = [u.sessions EXCEPT ![s] = NoSession]
      /\ a.named = [q \in Others |-> Without(u.named[q], s)]
      /\ a.awaited = u.awaited
  BY <1>1, UnregisteringFacts
<1> HIDE DEF a
<1>3. /\ v \in UnicastStates /\ v.sessions = a.sessions /\ v.named = a.named
      /\ v.awaited = a.awaited \ {<<p, "update">>}
  BY <1>2, WaitingFacts
<1> HIDE DEF v
<1>4. \A q \in Others, k \in Keys : Holds(u.sessions, s, q, k) <=> q = p /\ k = "update"
  <2>1. \A k : Contains(<<"update">>, k) <=> k = "update"
    BY QueueFacts
  <2> QED
    BY <2>1 DEF Holds
<1>5. v.sessions[s] = NoSession /\ \A r \in Sessions : r # s => v.sessions[r] = u.sessions[r]
  BY <1>1, <1>2, <1>3
<1>6. Sound(v)
  <2>1. \A q \in Others, k \in Keys :
          <<q, k>> \in v.awaited <=> <<q, k>> \in u.awaited /\ ~Holds(u.sessions, s, q, k)
    BY <1>2, <1>3, <1>4
  <2>2. \A q \in Others : v.named[q] = Without(u.named[q], s)
    BY <1>2, <1>3
  <2> QED
    BY <1>3, <1>5, <2>1, <2>2, DroppingIsSound
<1>7. v.sessions[t] = u.sessions[t] /\ "full" \in Keys /\ <<p, "full">> \notin v.awaited
  BY <1>2, <1>3, <1>5 DEF Keys
<1>8. Sound(x)
  BY <1>6, <1>7, PlacingIsSound
<1>9. x \in UnicastStates /\ x.sessions = Placed(v.sessions, t, "full")
      /\ x.named = v.named /\ x.awaited = v.awaited \cup {<<p, "full">>}
  <2>1. ~Contains(v.sessions[t].backorders, "full") /\ Append(v.sessions[t].backorders, "full") \in OrderQueues
    BY <1>6, <1>7, OrderRoom
  <2>2. v.sessions[t].registered
    BY <1>7
  <2>3. v \in UnicastStates /\ "full" \in Keys
    BY <1>3, <1>7
  <2> QED
    BY <2>1, <2>2, <2>3, PlacingFacts
<1> HIDE DEF x
<1>10. x.sessions = w.sessions
  <2>1. w.sessions \in [Sessions -> SessionStates] /\ x.sessions \in [Sessions -> SessionStates]
    BY <1>9 DEF UnicastStates
  <2>2. v.sessions \in [Sessions -> SessionStates]
    BY <1>3 DEF UnicastStates
  <2>3. x.sessions[t] = w.sessions[t]
    BY <1>1, <1>7, <1>9, <2>2 DEF Placed
  <2>4. \A r \in Sessions : r # t => x.sessions[r] = v.sessions[r]
    BY <1>9, <2>2 DEF Placed
  <2>5. \A r \in Sessions : x.sessions[r] = w.sessions[r]
    BY <1>5, <2>3, <2>4
  <2> QED
    BY <2>1, <2>5
<1>11. x = w
  <2>1. /\ x = [sessions |-> x.sessions, named |-> x.named, awaited |-> x.awaited]
        /\ w = [sessions |-> w.sessions, named |-> w.named, awaited |-> w.awaited]
    BY <1>9 DEF UnicastStates
  <2>2. x.named = w.named /\ x.awaited = w.awaited
    BY <1>2, <1>3, <1>9
  <2> QED
    BY <1>10, <2>1, <2>2
<1> QED
  BY <1>8, <1>11

(* What is left when nothing was ordered elsewhere.                         *)
LEMMA CuttingIsSound ==
  ASSUME NEW u, Sound(u), NEW s \in Sessions, NEW e \in UnicastStates,
         e.named = u.named,
         \A t \in Sessions : t # s => e.sessions[t] = u.sessions[t],
         \A q \in Others, k \in Keys :
           <<q, k>> \in e.awaited <=> <<q, k>> \in u.awaited /\ ~Holds(u.sessions, s, q, k)
  PROVE  /\ Sound(UnregisterUnicastSession(e, s))
         /\ UnregisterUnicastSession(e, s).sessions[s] = NoSession
<1> DEFINE w == UnregisterUnicastSession(e, s)
<1>1. /\ w \in UnicastStates
      /\ w.sessions = [e.sessions EXCEPT ![s] = NoSession]
      /\ w.named = [q \in Others |-> Without(e.named[q], s)]
      /\ w.awaited = e.awaited
  BY UnregisteringFacts
<1> HIDE DEF w
<1>2. e.sessions \in [Sessions -> SessionStates]
  BY DEF UnicastStates
<1>3. w.sessions[s] = NoSession /\ \A t \in Sessions : t # s => w.sessions[t] = u.sessions[t]
  BY <1>1, <1>2
<1>4. \A q \in Others : w.named[q] = Without(u.named[q], s)
  BY <1>1
<1>5. \A q \in Others, k \in Keys :
        <<q, k>> \in w.awaited <=> <<q, k>> \in u.awaited /\ ~Holds(u.sessions, s, q, k)
  BY <1>1
<1>6. Sound(w)
  BY <1>1, <1>3, <1>4, <1>5, DroppingIsSound
<1> QED
  BY <1>3, <1>6 DEF w

(* UnregisterMyself(): whatever is on order, and wherever the whole         *)
(* database is asked for next.                                              *)
LEMMA EndingIsSound ==
  ASSUME NEW u, Sound(u), NEW s \in Sessions
  PROVE  Sound(UnregisterMyself(u, s)) /\ UnregisterMyself(u, s).sessions[s] = NoSession
<1> DEFINE o == u.sessions[s].backorders
           p == u.sessions[s].remotePeerID
           e1 == BackOrderFails(u, s, 1)
           e == BackOrderFails(e1, s, 2)
<1>1. u \in UnicastStates /\ u.sessions \in [Sessions -> SessionStates] /\ u.sessions[s] \in SessionStates
  BY SoundFacts
<1>2. o \in OrderQueues /\ p \in Others \cup {NoPeer}
  BY <1>1 DEF SessionStates
<1>3. UnregisterMyself(u, s) = UnregisterUnicastSession(e, s)
  BY DEF UnregisterMyself
<1>4. \A q \in Others, k \in Keys : Holds(u.sessions, s, q, k) <=> q = p /\ Contains(o, k)
  BY DEF Holds
<1>5. o # <<>> => p \in Others
  BY <1>2, SoundFacts
<1>0. \A x : Len(x.sessions[s].backorders) \in {0, 1} => BackOrderFails(x, s, 2) = x
  <2> SUFFICES ASSUME NEW x, Len(x.sessions[s].backorders) \in {0, 1}
               PROVE  BackOrderFails(x, s, 2) = x
    OBVIOUS
  <2> DEFINE n == Len(x.sessions[s].backorders)
  <2>1. n \in {0, 1}
    OBVIOUS
  <2>2. BackOrderFails(x, s, 2) =
          IF 2 > n THEN x
          ELSE BackOrderResultReceived(x, x.sessions[s].remotePeerID, x.sessions[s].backorders[2], FALSE)
    BY Zenon DEF BackOrderFails
  <2> HIDE DEF n
  <2>3. 2 > n
    BY <2>1
  <2> QED
    BY <2>2, <2>3, Zenon
<1>6. CASE o = <<>>
  <2>1. Len(o) = 0
    BY <1>6
  <2>2. e1 = u
    BY <2>1 DEF BackOrderFails
  <2> HIDE DEF e1
  <2>3. e = u
    BY <1>0, <2>1, <2>2
  <2>4. \A k : ~Contains(o, k)
    BY <1>6, QueueFacts
  <2> HIDE DEF e, e1, o, p
  <2> QED
    BY <1>1, <1>3, <1>4, <2>3, <2>4, CuttingIsSound
<1>7. CASE o = <<"full">>
  <2>1. Len(o) = 1 /\ o[1] = "full" /\ p \in Others
    BY <1>5, <1>7, EndsOfQueues
  <2>2. e1 = Answered(u, p, "full")
    BY <2>1 DEF BackOrderFails, BackOrderResultReceived, Answered
  <2>3. e1 \in UnicastStates /\ e1.sessions = u.sessions /\ e1.named = u.named
        /\ e1.awaited = u.awaited \ {<<p, "full">>}
    BY <1>1, <2>2, WaitingFacts
  <2> HIDE DEF e1
  <2>4. e = e1
    BY <1>0, <2>1, <2>3
  <2>5. \A k : Contains(o, k) <=> k = "full"
    BY <1>7, QueueFacts
  <2> HIDE DEF e, o, p
  <2>6. \A q \in Others, k \in Keys :
          <<q, k>> \in e1.awaited <=> <<q, k>> \in u.awaited /\ ~Holds(u.sessions, s, q, k)
    BY <1>4, <2>3, <2>5
  <2> QED
    BY <1>3, <2>3, <2>4, <2>6, CuttingIsSound
<1>8. CASE o = <<"update", "full">>
  <2>1. Len(o) = 2 /\ o[1] = "update" /\ o[2] = "full" /\ p \in Others
    BY <1>5, <1>8, EndsOfQueues
  <2>2. \A k : Contains(o, k) <=> k \in Keys
    BY <1>8, QueueFacts
  <2> DEFINE v == Answered(u, p, "update")
  <2>3. v \in UnicastStates /\ v.sessions = u.sessions /\ v.named = u.named
        /\ v.awaited = u.awaited \ {<<p, "update">>}
    BY <1>1, WaitingFacts
  <2>4. <<p, "full">> \in v.awaited
    <3>1. "full" \in Keys /\ Holds(u.sessions, s, p, "full")
      BY <1>4, <2>1, <2>2 DEF Keys
    <3>2. <<p, "full">> \in u.awaited
      BY <2>1, <3>1, SoundFacts
    <3> QED
      BY <2>3, <3>2
  <2>5. e1 = v
    <3>1. e1 = BackOrderResultReceived(u, p, "update", FALSE)
      BY <2>1 DEF BackOrderFails
    <3>2. e1 = UpdateFailed(v, p)
      BY <3>1 DEF BackOrderResultReceived, Answered
    <3> QED
      BY <2>4, <3>2 DEF UpdateFailed
  <2> HIDE DEF e1, v
  <2>6. e = Answered(v, p, "full")
    <3>1. e = BackOrderFails(v, s, 2) /\ v.sessions[s].backorders = o /\ v.sessions[s].remotePeerID = p
      BY <2>3, <2>5
    <3> HIDE DEF e, o, p
    <3>2. e = IF 2 > Len(o) THEN v ELSE BackOrderResultReceived(v, p, o[2], FALSE)
      BY <3>1, Zenon DEF BackOrderFails
    <3>3. ~(2 > Len(o))
      BY <2>1
    <3>4. e = BackOrderResultReceived(v, p, "full", FALSE)
      BY <2>1, <3>2, <3>3, Zenon
    <3> QED
      BY <3>4 DEF BackOrderResultReceived, Answered
  <2>7. e \in UnicastStates /\ e.sessions = v.sessions /\ e.named = v.named
        /\ e.awaited = v.awaited \ {<<p, "full">>}
    BY <2>3, <2>6, WaitingFacts
  <2> HIDE DEF e, o, p
  <2>8. \A q \in Others, k \in Keys :
          <<q, k>> \in e.awaited <=> <<q, k>> \in u.awaited /\ ~Holds(u.sessions, s, q, k)
    BY <1>4, <2>2, <2>3, <2>7 DEF Keys
  <2>9. e.named = u.named /\ \A t \in Sessions : t # s => e.sessions[t] = u.sessions[t]
    BY <2>3, <2>7
  <2> QED
    BY <1>3, <2>7, <2>8, <2>9, CuttingIsSound
<1>9. CASE o = <<"update">>
  <2>1. Len(o) = 1 /\ o[1] = "update" /\ p \in Others
    BY <1>5, <1>9, EndsOfQueues
  <2>2. \A k : Contains(o, k) <=> k = "update"
    BY <1>9, QueueFacts
  <2> DEFINE v == Answered(u, p, "update")
  <2>3. v \in UnicastStates /\ v.sessions = u.sessions /\ v.named = u.named
        /\ v.awaited = u.awaited \ {<<p, "update">>}
    BY <1>1, WaitingFacts
  <2>4. e1 = UpdateFailed(v, p)
    <3>1. e1 = BackOrderResultReceived(u, p, "update", FALSE)
      BY <2>1 DEF BackOrderFails
    <3> QED
      BY <3>1 DEF BackOrderResultReceived, Answered
  <2> HIDE DEF e1, v
  <2>5. \A q \in Others, k \in Keys :
          <<q, k>> \in v.awaited <=> <<q, k>> \in u.awaited /\ ~Holds(u.sessions, s, q, k)
    <3> HIDE DEF o, p
    <3> QED
      BY <1>4, <2>2, <2>3
  <2>6. CASE p # seniorPeerID \/ <<p, "full">> \in v.awaited
    <3>1. e1 = v
      BY <2>4, <2>6 DEF UpdateFailed
    <3>2. e = v
      BY <1>0, <2>1, <2>3, <3>1
    <3> HIDE DEF e, o, p
    <3> QED
      BY <1>3, <2>3, <2>5, <3>2, CuttingIsSound
  <2>7. CASE ~(p # seniorPeerID \/ <<p, "full">> \in v.awaited)
    <3> DEFINE t == u.named[p][1]
    <3>1. e1 = RequestBackOrder(v, p, t, "full")
      <4>1. UpdateFailed(v, p) = RequestBackOrder(v, p, v.named[p][1], "full")
        BY <2>7, Zenon DEF UpdateFailed
      <4> QED
        BY <2>3, <2>4, <4>1, Zenon
    <3>2. t \in Sessions /\ u.sessions[t].registered /\ u.sessions[t].remotePeerID = p
      <4>1. u.sessions[s].registered
        BY <2>1, SoundFacts, NetworkIOAssumption
      <4>2. Contains(u.named[p], s)
        BY <2>1, <4>1, SoundFacts
      <4>3. u.named[p] \in Seq(Sessions)
        BY <2>1, SoundFacts
      <4>4. 1 \in 1 .. Len(u.named[p])
        BY <4>2, <4>3 DEF Contains
      <4>5. t \in Sessions /\ Contains(u.named[p], t)
        BY <4>3, <4>4, ElementOfSeq DEF Contains
      <4>6. Contains(u.named[p], t) <=> u.sessions[t].registered /\ u.sessions[t].remotePeerID = p
        <5> HIDE DEF p, t
        <5> QED
          BY <2>1, <4>5, SoundFacts
      <4> QED
        BY <4>5, <4>6, Zenon
    <3>3. <<p, "full">> \notin u.awaited /\ "full" \in Keys
      BY <2>3, <2>7 DEF Keys
    <3> HIDE DEF t
    <3>4. ~Contains(u.sessions[t].backorders, "full")
          /\ Append(u.sessions[t].backorders, "full") \in OrderQueues
      BY <2>1, <3>2, <3>3, OrderRoom
    <3>5. /\ e1 \in UnicastStates /\ e1.sessions = Placed(u.sessions, t, "full")
          /\ e1.named = u.named /\ e1.awaited = v.awaited \cup {<<p, "full">>}
      <4>1. v.sessions[t].registered /\ ~Contains(v.sessions[t].backorders, "full")
            /\ Append(v.sessions[t].backorders, "full") \in OrderQueues
        BY <2>3, <3>2, <3>4
      <4> HIDE DEF p
      <4> QED
        BY <2>1, <2>3, <3>1, <3>2, <3>3, <4>1, PlacingFacts
    <3>6. \A r \in Sessions : r # t => e1.sessions[r] = u.sessions[r]
      BY <1>1, <3>5 DEF Placed
    <3>7. CASE t = s
      <4>1. e1.sessions[s].backorders = <<"update", "full">> /\ e1.sessions[s].remotePeerID = p
        <5>1. e1.sessions[s] = [u.sessions[s] EXCEPT !.backorders = Append(o, "full")]
          BY <1>1, <3>5, <3>7 DEF Placed
        <5>2. Append(o, "full") = <<"update", "full">>
          <6>1. Append(<<"update">>, "full") = <<"update", "full">>
            BY EndsOfQueues
          <6> QED
            BY <1>9, <6>1
        <5> HIDE DEF o
        <5> QED
          BY <1>1, <5>1, <5>2 DEF SessionStates
      <4>2. Len(<<"update", "full">>) = 2 /\ <<"update", "full">>[2] = "full"
        BY EndsOfQueues
      <4> HIDE DEF o, p
      <4>3. e = BackOrderResultReceived(e1, p, "full", FALSE)
        BY <4>1, <4>2 DEF BackOrderFails
      <4>4. e = Answered(e1, p, "full")
        BY <4>3 DEF BackOrderResultReceived, Answered
      <4>5. /\ e \in UnicastStates /\ e.sessions = e1.sessions /\ e.named = e1.named
            /\ e.awaited = e1.awaited \ {<<p, "full">>}
        BY <3>5, <4>4, WaitingFacts
      <4> HIDE DEF e
      <4>6. e.awaited = v.awaited
        BY <2>7, <3>5, <4>5
      <4>7. e.named = u.named /\ \A r \in Sessions : r # s => e.sessions[r] = u.sessions[r]
        BY <3>5, <3>6, <3>7, <4>5
      <4>8. \A q \in Others, k \in Keys :
              <<q, k>> \in e.awaited <=> <<q, k>> \in u.awaited /\ ~Holds(u.sessions, s, q, k)
        BY <2>5, <4>6
      <4> QED
        BY <1>3, <4>5, <4>7, <4>8, CuttingIsSound
    <3>8. CASE t # s
      <4>1. e1.sessions[s] = u.sessions[s]
        BY <3>6, <3>8
      <4>2. e = e1
        BY <1>0, <2>1, <4>1
      <4> DEFINE w == UnregisterUnicastSession(e1, s)
      <4>3. /\ w \in UnicastStates
            /\ w.sessions = [e1.sessions EXCEPT ![s] = NoSession]
            /\ w.named = [q \in Others |-> Without(e1.named[q], s)]
            /\ w.awaited = e1.awaited
        BY <3>5, UnregisteringFacts
      <4> HIDE DEF w
      <4>4. e1.sessions \in [Sessions -> SessionStates]
        BY <3>5 DEF UnicastStates
      <4>5. w.sessions[s] = NoSession /\ w.sessions[t] = Placed(u.sessions, t, "full")[t]
            /\ \A r \in Sessions : r # s /\ r # t => w.sessions[r] = u.sessions[r]
        BY <3>2, <3>5, <3>6, <3>8, <4>3, <4>4
      <4>6. /\ w.named = [q \in Others |-> Without(u.named[q], s)]
            /\ w.awaited = (u.awaited \ {<<p, "update">>}) \cup {<<p, "full">>}
        BY <2>3, <3>5, <4>3
      <4>7. u.sessions[s].remotePeerID = p /\ u.sessions[s].backorders = <<"update">>
        BY <1>9
      <4> HIDE DEF o, p, e
      <4>8. Sound(w)
        <5>1. p \in Others /\ t \in Sessions /\ s # t /\ w \in UnicastStates
          BY <2>1, <3>2, <3>8, <4>3
        <5>2. u.sessions[t].registered /\ u.sessions[t].remotePeerID = p /\ <<p, "full">> \notin u.awaited
          BY <3>2, <3>3
        <5> QED
          BY <4>5, <4>6, <4>7, <5>1, <5>2, TurningToAnother
      <4> QED
        BY <1>3, <4>2, <4>5, <4>8 DEF w
    <3> QED
      BY <3>7, <3>8
  <2> QED
    BY <2>6, <2>7
<1> QED
  BY <1>2, <1>6, <1>7, <1>8, <1>9 DEF OrderQueues
----------------------------------------------------------------------------
(* Sessions that end one after the other.                                   *)

IsEnding(f, u, q, N) ==
  f = [i \in 0 .. N |-> IF i = 0 THEN u ELSE UnregisterMyself(f[i - 1], q[i])]

LEMMA EndingExists ==
  ASSUME NEW u, NEW q
  PROVE  \A N \in Nat : \E f : IsEnding(f, u, q, N)
<1> DEFINE T == {N \in Nat : \E f : IsEnding(f, u, q, N)}
           G(x, i) == UnregisterMyself(x, q[i])
<1>1. 0 \in T
  <2> DEFINE f == [i \in 0 .. 0 |-> u]
  <2>1. f = [i \in 0 .. 0 |-> IF i = 0 THEN u ELSE UnregisterMyself(f[i - 1], q[i])]
    OBVIOUS
  <2> QED
    BY <2>1 DEF IsEnding
<1>2. ASSUME NEW n \in Nat, n \in T
      PROVE  n + 1 \in T
  <2>1. PICK f : IsEnding(f, u, q, n)
    BY <1>2
  <2> DEFINE x == n + 1
             g == [i \in 0 .. x |-> IF i < x THEN f[i] ELSE G(f[n], x)]
  <2>2. f = [i \in 0 .. n |-> IF i = 0 THEN u ELSE G(f[i - 1], i)]
    BY <2>1 DEF IsEnding
  <2> HIDE DEF G
  <2>3. ASSUME NEW i \in 0 .. x
        PROVE  g[i] = IF i = 0 THEN u ELSE G(g[i - 1], i)
    <3>1. CASE i = 0
      BY <2>2, <3>1
    <3>2. CASE i > 0 /\ i < x
      <4>1. i \in 0 .. n /\ i - 1 \in 0 .. n /\ i - 1 < x /\ i - 1 \in 0 .. x
        BY <2>3, <3>2
      <4>2. f[i] = G(f[i - 1], i)
        BY <2>2, <3>2, <4>1
      <4>3. g[i] = f[i] /\ g[i - 1] = f[i - 1]
        BY <2>3, <3>2, <4>1
      <4> QED
        BY <3>2, <4>2, <4>3
    <3>3. CASE i = x
      <4>1. n \in 0 .. x /\ n < x /\ ~(x < x) /\ x - 1 = n /\ x # 0
        OBVIOUS
      <4>2. g[x] = G(f[n], x) /\ g[n] = f[n]
        BY <3>3, <4>1
      <4> QED
        BY <3>3, <4>1, <4>2
    <3> QED
      BY <2>3, <3>1, <3>2, <3>3
  <2>4. g = [i \in 0 .. x |-> IF i = 0 THEN u ELSE G(g[i - 1], i)]
    BY <2>3
  <2> HIDE DEF g
  <2>5. IsEnding(g, u, q, x)
    BY <2>4 DEF IsEnding, G
  <2> QED
    BY <2>5
<1>3. \A n \in Nat : n \in T
  <2> HIDE DEF T
  <2> QED
    BY <1>1, <1>2, SetInduction
<1> QED
  BY <1>3

(* EndSession() of any sessions, in any order.                              *)
LEMMA EndSessionsIsSound ==
  ASSUME NEW u, Sound(u), NEW q \in Seq(Sessions)
  PROVE  Sound(EndSessions(u, q))
<1> DEFINE N == Len(q)
<1>1. N \in Nat /\ \A i \in 1 .. N : q[i] \in Sessions
  BY LenProperties, ElementOfSeq
<1>2. PICK f : IsEnding(f, u, q, N) /\ EndSessions(u, q) = f[N]
  <2>1. \E f : IsEnding(f, u, q, N)
    BY <1>1, EndingExists
  <2> QED
    BY <2>1 DEF IsEnding, EndSessions
<1> DEFINE T == {n \in Nat : n <= N => Sound(f[n])}
<1>3. 0 \in T
  <2>1. f[0] = u
    BY <1>1, <1>2 DEF IsEnding
  <2> QED
    BY <2>1
<1>4. ASSUME NEW n \in Nat, n \in T
      PROVE  n + 1 \in T
  <2> SUFFICES ASSUME n + 1 <= N PROVE Sound(f[n + 1])
    OBVIOUS
  <2> DEFINE x == n + 1
  <2>1. n \in 0 .. N /\ x \in 0 .. N /\ x \in 1 .. N /\ x - 1 = n /\ x # 0 /\ n <= N
    BY <1>1
  <2>2. Sound(f[n]) /\ q[x] \in Sessions
    BY <1>1, <1>4, <2>1
  <2>3. f[x] = UnregisterMyself(f[n], q[x])
    BY <1>2, <2>1 DEF IsEnding
  <2> QED
    BY <2>2, <2>3, EndingIsSound
<1>5. \A n \in Nat : n \in T
  <2> HIDE DEF T
  <2> QED
    BY <1>3, <1>4, SetInduction
<1>6. N \in T /\ N <= N
  <2> HIDE DEF T
  <2> QED
    BY <1>1, <1>5
<1> HIDE DEF N
<1> QED
  BY <1>2, <1>6

IsDeparting(f, u, gone, N) ==
  f = [i \in 0 .. N |->
         IF i = 0 THEN u ELSE EndSessions(f[i - 1], f[i - 1].named[gone[i]])]

LEMMA DepartingExists ==
  ASSUME NEW u, NEW gone
  PROVE  \A N \in Nat : \E f : IsDeparting(f, u, gone, N)
<1> DEFINE T == {N \in Nat : \E f : IsDeparting(f, u, gone, N)}
           G(x, i) == EndSessions(x, x.named[gone[i]])
<1>1. 0 \in T
  <2> DEFINE f == [i \in 0 .. 0 |-> u]
  <2>1. f = [i \in 0 .. 0 |-> IF i = 0 THEN u ELSE EndSessions(f[i - 1], f[i - 1].named[gone[i]])]
    OBVIOUS
  <2> QED
    BY <2>1 DEF IsDeparting
<1>2. ASSUME NEW n \in Nat, n \in T
      PROVE  n + 1 \in T
  <2>1. PICK f : IsDeparting(f, u, gone, n)
    BY <1>2
  <2> DEFINE x == n + 1
             g == [i \in 0 .. x |-> IF i < x THEN f[i] ELSE G(f[n], x)]
  <2>2. f = [i \in 0 .. n |-> IF i = 0 THEN u ELSE G(f[i - 1], i)]
    BY <2>1 DEF IsDeparting
  <2> HIDE DEF G
  <2>3. ASSUME NEW i \in 0 .. x
        PROVE  g[i] = IF i = 0 THEN u ELSE G(g[i - 1], i)
    <3>1. CASE i = 0
      BY <2>2, <3>1
    <3>2. CASE i > 0 /\ i < x
      <4>1. i \in 0 .. n /\ i - 1 \in 0 .. n /\ i - 1 < x /\ i - 1 \in 0 .. x
        BY <2>3, <3>2
      <4>2. f[i] = G(f[i - 1], i)
        BY <2>2, <3>2, <4>1
      <4>3. g[i] = f[i] /\ g[i - 1] = f[i - 1]
        BY <2>3, <3>2, <4>1
      <4> QED
        BY <3>2, <4>2, <4>3
    <3>3. CASE i = x
      <4>1. n \in 0 .. x /\ n < x /\ ~(x < x) /\ x - 1 = n /\ x # 0
        OBVIOUS
      <4>2. g[x] = G(f[n], x) /\ g[n] = f[n]
        BY <3>3, <4>1
      <4> QED
        BY <3>3, <4>1, <4>2
    <3> QED
      BY <2>3, <3>1, <3>2, <3>3
  <2>4. g = [i \in 0 .. x |-> IF i = 0 THEN u ELSE G(g[i - 1], i)]
    BY <2>3
  <2> HIDE DEF g
  <2>5. IsDeparting(g, u, gone, x)
    BY <2>4 DEF IsDeparting, G
  <2> QED
    BY <2>5
<1>3. \A n \in Nat : n \in T
  <2> HIDE DEF T
  <2> QED
    BY <1>1, <1>2, SetInduction
<1> QED
  BY <1>3

(* PeerHasGoneOffline() of any peers, in any order.                         *)
LEMMA PeersGoingIsSound ==
  ASSUME NEW u, Sound(u), NEW gone \in Seq(Others)
  PROVE  Sound(PeersHaveGoneOffline(u, gone))
<1> DEFINE N == Len(gone)
<1>1. N \in Nat /\ \A i \in 1 .. N : gone[i] \in Others
  BY LenProperties, ElementOfSeq
<1>2. PICK f : IsDeparting(f, u, gone, N) /\ PeersHaveGoneOffline(u, gone) = f[N]
  <2>1. \E f : IsDeparting(f, u, gone, N)
    BY <1>1, DepartingExists
  <2> QED
    BY <2>1 DEF IsDeparting, PeersHaveGoneOffline
<1> DEFINE T == {n \in Nat : n <= N => Sound(f[n])}
<1>3. 0 \in T
  <2>1. f[0] = u
    BY <1>1, <1>2 DEF IsDeparting
  <2> QED
    BY <2>1
<1>4. ASSUME NEW n \in Nat, n \in T
      PROVE  n + 1 \in T
  <2> SUFFICES ASSUME n + 1 <= N PROVE Sound(f[n + 1])
    OBVIOUS
  <2> DEFINE x == n + 1
  <2>1. n \in 0 .. N /\ x \in 0 .. N /\ x \in 1 .. N /\ x - 1 = n /\ x # 0 /\ n <= N
    BY <1>1
  <2>2. Sound(f[n]) /\ gone[x] \in Others
    BY <1>1, <1>4, <2>1
  <2>3. f[x] = EndSessions(f[n], f[n].named[gone[x]])
    BY <1>2, <2>1 DEF IsDeparting
  <2>4. f[n].named[gone[x]] \in Seq(Sessions)
    BY <2>2, SoundFacts
  <2> QED
    BY <2>2, <2>3, <2>4, EndSessionsIsSound
<1>5. \A n \in Nat : n \in T
  <2> HIDE DEF T
  <2> QED
    BY <1>3, <1>4, SetInduction
<1>6. N \in T /\ N <= N
  <2> HIDE DEF T
  <2> QED
    BY <1>1, <1>5
<1> HIDE DEF N
<1> QED
  BY <1>2, <1>6

LEMMA ClearingIsSound ==
  ASSUME NEW u, Sound(u)
  PROVE  Sound(ClearAllUnicastSessions(u))
<1> DEFINE S == {s \in Sessions : u.sessions[s].registered}
<1>1. IsFiniteSet(S) /\ S \subseteq Sessions
  BY FS_Subset, NetworkIOAssumption
<1>2. SetToSeq(S) \in Seq(S)
  BY <1>1, SetToSeqFacts
<1>3. SetToSeq(S) \in Seq(Sessions)
  BY <1>1, <1>2, SeqMonotonic
<1>4. ClearAllUnicastSessions(u) = EndSessions(u, SetToSeq(S))
  BY DEF ClearAllUnicastSessions
<1> HIDE DEF S
<1> QED
  BY <1>3, <1>4, EndSessionsIsSound

----------------------------------------------------------------------------
(* Answers.                                                                 *)

LEMMA FrontOfQueue ==
  ASSUME NEW o \in OrderQueues, o # <<>>
  PROVE  /\ Head(o) \in Keys /\ Tail(o) \in OrderQueues
         /\ \A k : Contains(o, k) <=> Contains(Tail(o), k) \/ k = Head(o)
         /\ ~Contains(Tail(o), Head(o))
<1>1. CASE o = <<"update">>
  <2>1. Head(o) = "update" /\ Tail(o) = <<>>
    BY <1>1, EndsOfQueues
  <2>2. \A k : ~Contains(Tail(o), k) /\ (Contains(o, k) <=> k = "update")
    BY <1>1, <2>1, QueueFacts
  <2> QED
    BY <2>1, <2>2 DEF Keys, OrderQueues
<1>2. CASE o = <<"full">>
  <2>1. Head(o) = "full" /\ Tail(o) = <<>>
    BY <1>2, EndsOfQueues
  <2>2. \A k : ~Contains(Tail(o), k) /\ (Contains(o, k) <=> k = "full")
    BY <1>2, <2>1, QueueFacts
  <2> QED
    BY <2>1, <2>2 DEF Keys, OrderQueues
<1>3. CASE o = <<"update", "full">>
  <2>1. Head(o) = "update" /\ Tail(o) = <<"full">>
    BY <1>3, EndsOfQueues
  <2>2. \A k : (Contains(Tail(o), k) <=> k = "full") /\ (Contains(o, k) <=> k \in Keys)
    BY <1>3, <2>1, QueueFacts
  <2> QED
    BY <2>1, <2>2 DEF Keys, OrderQueues
<1> QED
  BY <1>1, <1>2, <1>3 DEF OrderQueues

Advanced(u, s) == [u EXCEPT !.sessions[s].backorders = Tail(@)]

(* The first order is struck off the session's list and the database's.     *)
LEMMA AnsweringIsSound ==
  ASSUME NEW u, Sound(u), NEW s \in Sessions, u.sessions[s].backorders # <<>>
  PROVE  LET v == Answered(Advanced(u, s), u.sessions[s].remotePeerID,
                           Head(u.sessions[s].backorders))
         IN  /\ Sound(v) /\ v.sessions[s].registered
             /\ v.sessions[s].remotePeerID = u.sessions[s].remotePeerID
             /\ u.sessions[s].remotePeerID \in Others
<1> DEFINE o == u.sessions[s].backorders
           p == u.sessions[s].remotePeerID
           key == Head(o)
           a == Advanced(u, s)
           v == Answered(a, p, key)
<1>1. u \in UnicastStates /\ u.sessions \in [Sessions -> SessionStates] /\ u.sessions[s] \in SessionStates
  BY SoundFacts
<1>2. o \in OrderQueues /\ p \in Others \cup {NoPeer}
  BY <1>1 DEF SessionStates
<1>3. p \in Others /\ u.sessions[s].registered
  BY <1>2, SoundFacts, NetworkIOAssumption
<1>4. /\ key \in Keys /\ Tail(o) \in OrderQueues
      /\ \A k : Contains(o, k) <=> Contains(Tail(o), k) \/ k = key
      /\ ~Contains(Tail(o), key)
  BY <1>2, FrontOfQueue
<1> DEFINE t == Tail(o)
           r == [u.sessions[s] EXCEPT !.backorders = t]
<1>5. /\ a.sessions = [u.sessions EXCEPT ![s] = r] /\ a.named = u.named /\ a.awaited = u.awaited
      /\ a = [sessions |-> a.sessions, named |-> a.named, awaited |-> a.awaited]
  <2>1. u = [sessions |-> u.sessions, named |-> u.named, awaited |-> u.awaited]
    BY <1>1 DEF UnicastStates
  <2>2. a = [u EXCEPT !.sessions = [u.sessions EXCEPT ![s] = r]]
    BY DEF Advanced
  <2> DEFINE ss == [u.sessions EXCEPT ![s] = r]
  <2> HIDE DEF a, t, r, ss
  <2>3. a = [sessions |-> ss, named |-> u.named, awaited |-> u.awaited]
    BY <2>1, <2>2 DEF ss
  <2> QED
    BY <2>3 DEF ss
<1> HIDE DEF a, t
<1>6. r \in SessionStates /\ r.registered = u.sessions[s].registered /\ r.remotePeerID = p /\ r.backorders = t
  BY <1>1, <1>4 DEF SessionStates, t
<1> HIDE DEF r
<1>7. a.sessions \in [Sessions -> SessionStates] /\ a.sessions[s] = r
      /\ \A x \in Sessions : x # s => a.sessions[x] = u.sessions[x]
  BY <1>1, <1>5, <1>6
<1>8. a \in UnicastStates
  BY <1>1, <1>5, <1>7 DEF UnicastStates
<1>9. /\ v \in UnicastStates /\ v.sessions = a.sessions /\ v.named = u.named
      /\ v.awaited = u.awaited \ {<<p, key>>}
  BY <1>5, <1>8, WaitingFacts
<1> HIDE DEF v
<1>10. \A q \in Others, k \in Keys, x \in Sessions :
         Holds(v.sessions, x, q, k) <=> Holds(u.sessions, x, q, k) /\ ~(x = s /\ q = p /\ k = key)
  <2> SUFFICES ASSUME NEW q \in Others, NEW k \in Keys, NEW x \in Sessions
               PROVE  Holds(v.sessions, x, q, k) <=>
                        Holds(u.sessions, x, q, k) /\ ~(x = s /\ q = p /\ k = key)
    OBVIOUS
  <2>1. CASE x = s
    <3>1. Holds(v.sessions, x, q, k) <=> q = p /\ Contains(t, k)
      BY <1>6, <1>7, <1>9, <2>1 DEF Holds
    <3>2. Holds(u.sessions, x, q, k) <=> q = p /\ Contains(o, k)
      BY <2>1 DEF Holds
    <3> HIDE DEF key, o, p
    <3> QED
      BY <1>4, <2>1, <3>1, <3>2 DEF t
  <2>2. CASE x # s
    BY <1>7, <1>9, <2>2 DEF Holds
  <2> QED
    BY <2>1, <2>2
<1>11. Holds(u.sessions, s, p, key)
  BY <1>4 DEF Holds
<1>12. \A x \in Sessions :
         /\ v.sessions[x].registered = u.sessions[x].registered
         /\ v.sessions[x].remotePeerID = u.sessions[x].remotePeerID
  BY <1>6, <1>7, <1>9
<1>13. \A x \in Sessions :
         /\ ~v.sessions[x].registered => v.sessions[x].remotePeerID = NoPeer
         /\ v.sessions[x].remotePeerID = NoPeer => v.sessions[x].backorders = <<>>
  <2>1. v.sessions[s].remotePeerID # NoPeer
    BY <1>3, <1>12, NetworkIOAssumption
  <2>2. \A x \in Sessions : x # s => v.sessions[x] = u.sessions[x]
    BY <1>7, <1>9
  <2> HIDE DEF p, o, key
  <2> QED
    BY <1>3, <1>12, <2>1, <2>2, SoundFacts
<1> HIDE DEF p, o, key
<1>14. \A q \in Others, k \in Keys :
         <<q, k>> \in v.awaited <=> \E x \in Sessions : Holds(v.sessions, x, q, k)
  <2> SUFFICES ASSUME NEW q \in Others, NEW k \in Keys
               PROVE  <<q, k>> \in v.awaited <=> \E x \in Sessions : Holds(v.sessions, x, q, k)
    OBVIOUS
  <2>1. <<q, k>> \in u.awaited <=> \E x \in Sessions : Holds(u.sessions, x, q, k)
    BY SoundFacts
  <2>2. \A x \in Sessions : Holds(u.sessions, s, q, k) /\ Holds(u.sessions, x, q, k) => x = s
    BY SoundFacts
  <2>3. <<q, k>> \in v.awaited <=> <<q, k>> \in u.awaited /\ ~(q = p /\ k = key)
    BY <1>9
  <2> QED
    BY <1>10, <1>11, <2>1, <2>2, <2>3
<1>15. ASSUME NEW q \in Others, NEW k \in Keys, NEW x \in Sessions, NEW y \in Sessions,
              Holds(v.sessions, x, q, k), Holds(v.sessions, y, q, k)
       PROVE  x = y
  <2>1. Holds(u.sessions, x, q, k) /\ Holds(u.sessions, y, q, k) => x = y
    BY SoundFacts
  <2> QED
    BY <1>10, <1>15, <2>1
<1>16. \A q \in Others : ListedOnce(v.named[q])
  BY <1>9, SoundFacts
<1>17. \A q \in Others, x \in Sessions :
         Contains(v.named[q], x) <=> v.sessions[x].registered /\ v.sessions[x].remotePeerID = q
  <2>1. \A q \in Others, x \in Sessions :
         Contains(u.named[q], x) <=> u.sessions[x].registered /\ u.sessions[x].remotePeerID = q
    BY SoundFacts
  <2> QED
    BY <1>9, <1>12, <2>1
<1>18. Sound(v)
  BY <1>9, <1>13, <1>14, <1>15, <1>16, <1>17, SoundIntro
<1>19. v.sessions[s].registered /\ v.sessions[s].remotePeerID = p
  BY <1>3, <1>12 DEF p
<1> QED
  BY <1>3, <1>18, <1>19 DEF v, a, p, o, key

(* The first of the sessions to a peer.                                     *)
LEMMA FirstSession ==
  ASSUME NEW u, Sound(u), NEW p \in Others, u.named[p] # <<>>
  PROVE  /\ u.named[p][1] \in Sessions
         /\ u.sessions[u.named[p][1]].registered
         /\ u.sessions[u.named[p][1]].remotePeerID = p
<1> DEFINE q == u.named[p]
           t == q[1]
<1>1. q \in Seq(Sessions)
  BY SoundFacts
<1>2. Len(q) # 0 /\ Len(q) \in Nat
  BY <1>1, EmptySeq, LenProperties
<1>3. 1 \in 1 .. Len(q)
  BY <1>2
<1>4. t \in Sessions /\ Contains(q, t)
  BY <1>1, <1>3, ElementOfSeq DEF Contains
<1> HIDE DEF t
<1>5. u.sessions[t].registered /\ u.sessions[t].remotePeerID = p
  BY <1>4, SoundFacts
<1> QED
  BY <1>4, <1>5 DEF t

(* REPLY_BACK_ORDER: and, if an update did not come, the whole database is  *)
(* asked for.                                                               *)
LEMMA ReplyingIsSound ==
  ASSUME NEW u, Sound(u), NEW s \in Sessions, u.sessions[s].backorders # <<>>, NEW ok
  PROVE  Sound(BackOrderResultReceived(Advanced(u, s), u.sessions[s].remotePeerID,
                                       Head(u.sessions[s].backorders), ok))
<1> DEFINE p == u.sessions[s].remotePeerID
           key == Head(u.sessions[s].backorders)
           v == Answered(Advanced(u, s), p, key)
           e == BackOrderResultReceived(Advanced(u, s), p, key, ok)
<1>1. Sound(v) /\ v.sessions[s].registered /\ v.sessions[s].remotePeerID = p /\ p \in Others
  BY AnsweringIsSound
<1>2. e = IF key = "update" /\ ~ok THEN UpdateFailed(v, p) ELSE v
  BY Zenon DEF BackOrderResultReceived, Answered
<1>3. Contains(v.named[p], s)
  <2> HIDE DEF v, p
  <2> QED
    BY <1>1, SoundFacts
<1> HIDE DEF v, e, p, key
<1>4. v.named[p] # <<>>
  BY <1>3, QueueFacts
<1> DEFINE t == v.named[p][1]
<1>5. t \in Sessions /\ v.sessions[t].registered /\ v.sessions[t].remotePeerID = p
  BY <1>1, <1>4, FirstSession
<1>6. CASE p = seniorPeerID /\ <<p, "full">> \notin v.awaited
  <2>1. UpdateFailed(v, p) = RequestBackOrder(v, p, t, "full")
    BY <1>6 DEF UpdateFailed
  <2> HIDE DEF t
  <2>2. Sound(RequestBackOrder(v, p, t, "full"))
    BY <1>1, <1>5, <1>6, PlacingIsSound DEF Keys
  <2> QED
    BY <1>1, <1>2, <2>1, <2>2 DEF e, key, p
<1>7. CASE ~(p = seniorPeerID /\ <<p, "full">> \notin v.awaited)
  <2>1. UpdateFailed(v, p) = v
    BY <1>7 DEF UpdateFailed
  <2> QED
    BY <1>1, <1>2, <2>1 DEF e, key, p
<1> QED
  BY <1>6, <1>7

(* A back-order through the session found, or through a new one.            *)
LEMMA OrderingIsSound ==
  ASSUME NEW u, Sound(u), NEW p \in Others, NEW key \in Keys,
         <<p, key>> \notin u.awaited, <<p, "full">> \notin u.awaited,
         NEW s \in GetUnicastSessionForPeerID(u, p)
  PROVE  Sound(RequestBackOrder(u, p, s, key))
<1>1. CASE u.named[p] # <<>>
  <2>1. s = u.named[p][1]
    BY <1>1 DEF GetUnicastSessionForPeerID
  <2>2. s \in Sessions /\ u.sessions[s].registered /\ u.sessions[s].remotePeerID = p
    BY <1>1, <2>1, FirstSession
  <2> QED
    BY <2>2, PlacingIsSound
<1>2. CASE u.named[p] = <<>>
  <2>1. s \in Sessions /\ ~u.sessions[s].registered
    BY <1>2 DEF GetUnicastSessionForPeerID
  <2> DEFINE v == RegisterUnicastSession(u, s, p)
  <2>2. /\ Sound(v) /\ v.awaited = u.awaited
        /\ v.sessions[s].registered /\ v.sessions[s].remotePeerID = p
    <3>1. p \in Others \cup {NoPeer}
      OBVIOUS
    <3> QED
      BY <2>1, <3>1, RegisterIsSound
  <2>3. RequestBackOrder(u, p, s, key) = RequestBackOrder(v, p, s, key)
    <3> DEFINE K(x) == [x EXCEPT !.sessions[s].backorders =
                                   IF Contains(@, key) THEN @ ELSE Append(@, key),
                                 !.awaited = @ \cup {<<p, key>>}]
    <3>1. RequestBackOrder(u, p, s, key) = K(IF u.sessions[s].registered THEN u ELSE v)
      BY Zenon DEF RequestBackOrder
    <3> HIDE DEF v
    <3>2. RequestBackOrder(v, p, s, key) =
            K(IF v.sessions[s].registered THEN v ELSE RegisterUnicastSession(v, s, p))
      BY Zenon DEF RequestBackOrder
    <3>3. (IF u.sessions[s].registered THEN u ELSE v) = v
      BY <2>1, Zenon
    <3>4. (IF v.sessions[s].registered THEN v ELSE RegisterUnicastSession(v, s, p)) = v
      BY <2>2, Zenon
    <3> HIDE DEF K
    <3> QED
      BY <3>1, <3>2, <3>3, <3>4, Zenon
  <2> HIDE DEF v
  <2>4. Sound(RequestBackOrder(v, p, s, key))
    BY <2>1, <2>2, PlacingIsSound
  <2> QED
    BY <2>3, <2>4
<1> QED
  BY <1>1, <1>2

----------------------------------------------------------------------------
(* The unicast sessions are sound whatever happens.                         *)

LEMMA SoundNow ==
  ASSUME UnicastInvariant
  PROVE  /\ Sound(Unicast) /\ Unicast.sessions = sessions
         /\ Unicast.named = namedUnicastSessions /\ Unicast.awaited = awaited
<1>1. Unicast.sessions = sessions /\ Unicast.named = namedUnicastSessions /\ Unicast.awaited = awaited
  BY DEF Unicast
<1>2. Unicast \in UnicastStates
  BY DEF Unicast, UnicastStates, UnicastInvariant, SessionsAreSound, ListsAreSound,
         OrdersAreSound, SessionStates, Keys
<1> QED
  BY <1>1, <1>2 DEF Sound, UnicastInvariant

LEMMA SoundNext ==
  ASSUME NEW u, Sound(u), UnicastIs(u)
  PROVE  UnicastInvariant'
<1>1. sessions' = u.sessions /\ namedUnicastSessions' = u.named /\ awaited' = u.awaited
  BY DEF UnicastIs
<1>2. SessionsAreSound(u.sessions) /\ ListsAreSound(u.sessions, u.named) /\ OrdersAreSound(u.sessions, u.awaited)
  BY DEF Sound
<1>3. SessionsAreSound(sessions') /\ ListsAreSound(sessions', namedUnicastSessions')
      /\ OrdersAreSound(sessions', awaited')
  BY <1>1, <1>2
<1> QED
  BY <1>3 DEF UnicastInvariant, SessionsAreSound, ListsAreSound, OrdersAreSound, Holds

LEMMA SoundUnchanged ==
  ASSUME UnicastInvariant, UNCHANGED unicastVars
  PROVE  UnicastInvariant'
BY DEF UnicastInvariant, unicastVars, SessionsAreSound, ListsAreSound, OrdersAreSound, Holds

LEMMA InitiallySound ==
  ASSUME Init
  PROVE  UnicastInvariant
<1>1. /\ NoSession \in SessionStates /\ NoSession.registered = FALSE
      /\ NoSession.remotePeerID = NoPeer /\ NoSession.backorders = <<>>
      /\ \A p \in Others : p # NoPeer
  BY NoSessionFacts
<1>2. sessions = [s \in Sessions |-> NoSession] /\ awaited = {}
      /\ namedUnicastSessions = [p \in Others |-> <<>>]
  BY DEF Init
<1>3. sessions \in [Sessions -> SessionStates] /\ \A s \in Sessions : sessions[s] = NoSession
  BY <1>1, <1>2
<1>4. \A key : ~Contains(<<>>, key)
  BY QueueFacts
<1>5. SessionsAreSound(sessions)
  BY <1>1, <1>3 DEF SessionsAreSound, SessionStates
<1>6. ListsAreSound(sessions, namedUnicastSessions)
  <2>1. <<>> \in Seq(Sessions) /\ ListedOnce(<<>>)
    BY DEF ListedOnce
  <2> QED
    BY <1>1, <1>2, <1>3, <1>4, <2>1 DEF ListsAreSound
<1>7. OrdersAreSound(sessions, awaited)
  BY <1>1, <1>2, <1>3, <1>4 DEF OrdersAreSound, Holds
<1> QED
  BY <1>5, <1>6, <1>7 DEF UnicastInvariant

(* The main thread.                                                         *)
LEMMA MainThreadIsSound ==
  ASSUME UnicastInvariant, MainThread
  PROVE  UnicastInvariant'
<1>1. Sound(Unicast)
  BY SoundNow
<1>2. ASSUME NEW peers \in SUBSET (Others \cup {Self}), NEW senior \in Others \cup {Self},
             PeersUpdate(peers, senior)
      PROVE  UnicastInvariant'
  <2> DEFINE S == (mainThreadPeers \ peers) \cap Others
             u == PeersHaveGoneOffline(Unicast, SetToSeq(S))
  <2>1. IsFiniteSet(S) /\ S \subseteq Others
    BY FS_Subset, NetworkIOAssumption
  <2>2. SetToSeq(S) \in Seq(Others)
    <3>1. SetToSeq(S) \in Seq(S)
      BY <2>1, SetToSeqFacts
    <3> HIDE DEF S
    <3> QED
      BY <2>1, <3>1, SeqMonotonic
  <2>3. UnicastIs(u)
    BY <1>2 DEF PeersUpdate
  <2>4. Sound(u)
    <3> HIDE DEF S
    <3> QED
      BY <1>1, <2>2, PeersGoingIsSound
  <2> HIDE DEF u
  <2> QED
    BY <2>3, <2>4, SoundNext
<1>3. Sound(ClearAllUnicastSessions(Unicast))
  BY <1>1, ClearingIsSound
<1>4. CASE ComputerIsAboutToSleep
  <2>1. UnicastIs(ClearAllUnicastSessions(Unicast))
    BY <1>4 DEF ComputerIsAboutToSleep
  <2> QED
    BY <1>3, <2>1, SoundNext
<1>5. CASE ShutdownChildSessions
  <2>1. UnicastIs(ClearAllUnicastSessions(Unicast))
    BY <1>5 DEF ShutdownChildSessions
  <2> QED
    BY <1>3, <2>1, SoundNext
<1>6. CASE ComputerJustWokeUp
  BY <1>6, SoundUnchanged DEF ComputerJustWokeUp
<1>7. CASE \E interfaces \in SUBSET Interfaces : NetworkInterfacesChanged(interfaces)
  BY <1>7, SoundUnchanged DEF NetworkInterfacesChanged
<1>8. CASE SeniorUpdate
  BY <1>8, SoundUnchanged DEF SeniorUpdate
<1>9. CASE SendMulticastMessageToAllPeers
  BY <1>9, SoundUnchanged DEF SendMulticastMessageToAllPeers
<1>10. CASE Pulse
  BY <1>10, SoundUnchanged DEF Pulse
<1>11. CASE MessageReceivedFromInternalThread
  BY <1>11, SoundUnchanged DEF MessageReceivedFromInternalThread
<1> QED
  BY <1>2, <1>4, <1>5, <1>6, <1>7, <1>8, <1>9, <1>10, <1>11 DEF MainThread

(* The unicast sessions' own steps.                                         *)
LEMMA UnicastSessionsAreSound ==
  ASSUME UnicastInvariant, UnicastSessions
  PROVE  UnicastInvariant'
<1>1. /\ Sound(Unicast) /\ Unicast.sessions = sessions
      /\ Unicast.named = namedUnicastSessions /\ Unicast.awaited = awaited
  BY SoundNow
<1>2. ASSUME NEW key \in Keys, RequestBackOrderFromSeniorPeer(key)
      PROVE  UnicastInvariant'
  <2> DEFINE found == GetUnicastSessionForPeerID(Unicast, seniorPeerID)
  <2>1. /\ seniorPeerID \in Others
        /\ <<seniorPeerID, key>> \notin Unicast.awaited /\ <<seniorPeerID, "full">> \notin Unicast.awaited
    BY <1>1, <1>2 DEF RequestBackOrderFromSeniorPeer
  <2>2. \/ UNCHANGED unicastVars
        \/ \E s \in found : UnicastIs(RequestBackOrder(Unicast, seniorPeerID, s, key))
    BY <1>2 DEF RequestBackOrderFromSeniorPeer
  <2>3. ASSUME NEW s \in found, UnicastIs(RequestBackOrder(Unicast, seniorPeerID, s, key))
        PROVE  UnicastInvariant'
    <3>1. Sound(RequestBackOrder(Unicast, seniorPeerID, s, key))
      BY <1>1, <2>1, OrderingIsSound
    <3> QED
      BY <2>3, <3>1, SoundNext
  <2> HIDE DEF found
  <2> QED
    BY <2>2, <2>3, SoundUnchanged
<1>3. ASSUME NEW p \in Others, SendUnicastMessageToPeer(p)
      PROVE  UnicastInvariant'
  <2>1. PICK s \in GetUnicastSessionForPeerID(Unicast, p) :
          UnicastIs(RegisterUnicastSession(Unicast, s, p))
    BY <1>3 DEF SendUnicastMessageToPeer
  <2>2. s \in Sessions /\ ~Unicast.sessions[s].registered
    BY <1>1, <1>3 DEF SendUnicastMessageToPeer, GetUnicastSessionForPeerID
  <2>3. p \in Others \cup {NoPeer}
    OBVIOUS
  <2>4. Sound(RegisterUnicastSession(Unicast, s, p))
    BY <1>1, <2>2, <2>3, RegisterIsSound
  <2> QED
    BY <2>1, <2>4, SoundNext
<1>4. ASSUME NEW s \in Sessions, CreateSession(s)
      PROVE  UnicastInvariant'
  <2>1. ~Unicast.sessions[s].registered /\ UnicastIs(RegisterUnicastSession(Unicast, s, NoPeer))
    BY <1>1, <1>4 DEF CreateSession
  <2>2. NoPeer \in Others \cup {NoPeer}
    OBVIOUS
  <2>3. Sound(RegisterUnicastSession(Unicast, s, NoPeer))
    BY <1>1, <2>1, <2>2, RegisterIsSound
  <2> QED
    BY <2>1, <2>3, SoundNext
<1>5. ASSUME NEW s \in Sessions, NEW p \in Others, AnnounceUnicastPeerID(s, p)
      PROVE  UnicastInvariant'
  <2> DEFINE v == UnregisterMyself(Unicast, s)
  <2>1. UnicastIs(RegisterUnicastSession(v, s, p))
    BY <1>5 DEF AnnounceUnicastPeerID
  <2>2. Sound(v) /\ v.sessions[s] = NoSession
    BY <1>1, EndingIsSound
  <2> HIDE DEF v
  <2>3. ~v.sessions[s].registered /\ p \in Others \cup {NoPeer}
    BY <2>2, NoSessionFacts
  <2>4. Sound(RegisterUnicastSession(v, s, p))
    BY <2>2, <2>3, RegisterIsSound
  <2> QED
    BY <2>1, <2>4, SoundNext
<1>6. ASSUME NEW s \in Sessions, NEW ok \in BOOLEAN, ReplyBackOrder(s, ok)
      PROVE  UnicastInvariant'
  <2> DEFINE u == Unicast
             e == BackOrderResultReceived(Advanced(u, s), u.sessions[s].remotePeerID,
                                          Head(u.sessions[s].backorders), ok)
  <2>1. UnicastIs(e) /\ u.sessions[s].backorders # <<>>
    BY <1>1, <1>6 DEF ReplyBackOrder, Advanced
  <2>2. Sound(e)
    <3> HIDE DEF u
    <3> QED
      BY <1>1, <2>1, ReplyingIsSound DEF u
  <2> HIDE DEF e
  <2> QED
    BY <2>1, <2>2, SoundNext
<1>7. ASSUME NEW s \in Sessions, AboutToDetachFromServer(s)
      PROVE  UnicastInvariant'
  <2>1. UnicastIs(UnregisterMyself(Unicast, s))
    BY <1>7 DEF AboutToDetachFromServer
  <2>2. Sound(UnregisterMyself(Unicast, s))
    BY <1>1, EndingIsSound
  <2> QED
    BY <2>1, <2>2, SoundNext
<1> QED
  BY <1>2, <1>3, <1>4, <1>5, <1>6, <1>7 DEF UnicastSessions, Keys

(* The internal thread and the network leave the sessions alone.            *)
LEMMA OtherStepsAreSound ==
  ASSUME UnicastInvariant, InternalThread \/ Network
  PROVE  UnicastInvariant'
<1>1. \A m : DoInput(m) => UNCHANGED unicastVars
  BY DEF DoInput
<1>2. CASE InternalThread
  <2>1. UNCHANGED unicastVars
    BY <1>1, <1>2 DEF InternalThread, RecreateMulticastDataIOs, MessageFromOwner, SendBeacon,
                      BeaconArrives, PacketArrives
  <2> QED
    BY <2>1, SoundUnchanged
<1>3. CASE Network
  <2>1. UNCHANGED unicastVars
    BY <1>3 DEF Network, PacketIsSent, OtherUpdate
  <2> QED
    BY <2>1, SoundUnchanged
<1> QED
  BY <1>2, <1>3

(* Every state of the unicast sessions that can be reached is sound: a      *)
(* session's queue holds an update, the whole database or both in that      *)
(* order, and no order is placed twice with a peer.                         *)
THEOREM UnicastSessionsStaySound == Spec => []UnicastInvariant
<1>1. Init => UnicastInvariant
  BY InitiallySound
<1>2. UnicastInvariant /\ [Next]_vars => UnicastInvariant'
  <2>1. CASE UnicastInvariant /\ UNCHANGED vars
    BY <2>1, SoundUnchanged DEF vars
  <2>2. CASE UnicastInvariant /\ Next
    BY <2>2, MainThreadIsSound, UnicastSessionsAreSound, OtherStepsAreSound DEF Next
  <2> QED
    BY <2>1, <2>2
<1> QED
  BY <1>1, <1>2, PTL DEF Spec

LEMMA SoundOrdersAreHeld ==
  ASSUME UnicastInvariant
  PROVE  BackOrdersAreHeld
<1> DEFINE H(p, key) == {s \in Sessions : /\ sessions[s].remotePeerID = p
                                          /\ Contains(sessions[s].backorders, key)}
<1>1. ASSUME NEW p \in Others, NEW key \in {"update", "full"}
      PROVE  Cardinality(H(p, key)) = IF <<p, key>> \in awaited THEN 1 ELSE 0
  <2>1. <<p, key>> \in awaited <=> \E s \in Sessions : Holds(sessions, s, p, key)
    BY DEF UnicastInvariant, OrdersAreSound
  <2>2. \A s, t \in Sessions : Holds(sessions, s, p, key) /\ Holds(sessions, t, p, key) => s = t
    BY DEF UnicastInvariant, OrdersAreSound
  <2>3. \A s : s \in H(p, key) <=> s \in Sessions /\ Holds(sessions, s, p, key)
    BY DEF Holds
  <2> HIDE DEF H
  <2>4. CASE <<p, key>> \in awaited
    <3>1. PICK s \in Sessions : Holds(sessions, s, p, key)
      BY <2>1, <2>4
    <3>2. H(p, key) = {s}
      BY <2>2, <2>3, <3>1
    <3> QED
      BY <2>4, <3>2, FS_Singleton
  <2>5. CASE <<p, key>> \notin awaited
    <3>1. H(p, key) = {}
      BY <2>1, <2>3, <2>5
    <3> QED
      BY <2>5, <3>1, FS_EmptySet
  <2> QED
    BY <2>4, <2>5
<1>2. \A p \in Others, s \in Sessions :
        Contains(namedUnicastSessions[p], s) <=>
          sessions[s].registered /\ sessions[s].remotePeerID = p
  BY DEF UnicastInvariant, ListsAreSound
<1> QED
  BY <1>1, <1>2 DEF BackOrdersAreHeld

(* Whatever the database waits for is on order in exactly one session to    *)
(* the peer it was ordered from, however many sessions and peers there are, *)
(* and although UnregisterMyself() places new orders while it fails the old *)
(* ones, possibly through the session that is ending.                       *)
THEOREM BackOrdersStayHeld == Spec => []BackOrdersAreHeld
<1>1. UnicastInvariant => BackOrdersAreHeld
  BY SoundOrdersAreHeld
<1> QED
  BY <1>1, UnicastSessionsStaySound, PTL

----------------------------------------------------------------------------
(* Messages on their way to the ZGPeerSession.                              *)

(* The tags after message m, if there were tags before.                     *)
After(tags, m) == IF m.what = "BEACON" THEN tags ELSE Append(tags, TagOf(m))

IsPassing(f, g, q, N) ==
  f = [n \in 0 .. N |-> IF n = 0 THEN g ELSE After(f[n - 1], q[n])]

LEMMA PassingExists ==
  ASSUME NEW given, NEW q
  PROVE  \A N \in Nat : \E f : IsPassing(f, given, q, N)
<1> DEFINE T == {N \in Nat : \E f : IsPassing(f, given, q, N)}
           G(x, i) == After(x, q[i])
<1>1. 0 \in T
  <2> DEFINE f == [i \in 0 .. 0 |-> given]
  <2>1. f = [i \in 0 .. 0 |-> IF i = 0 THEN given ELSE After(f[i - 1], q[i])]
    OBVIOUS
  <2> QED
    BY <2>1 DEF IsPassing
<1>2. ASSUME NEW n \in Nat, n \in T
      PROVE  n + 1 \in T
  <2>1. PICK f : IsPassing(f, given, q, n)
    BY <1>2
  <2> DEFINE x == n + 1
             g == [i \in 0 .. x |-> IF i < x THEN f[i] ELSE G(f[n], x)]
  <2>2. f = [i \in 0 .. n |-> IF i = 0 THEN given ELSE G(f[i - 1], i)]
    BY <2>1 DEF IsPassing
  <2> HIDE DEF G
  <2>3. ASSUME NEW i \in 0 .. x
        PROVE  g[i] = IF i = 0 THEN given ELSE G(g[i - 1], i)
    <3>1. CASE i = 0
      BY <2>2, <3>1
    <3>2. CASE i > 0 /\ i < x
      <4>1. i \in 0 .. n /\ i - 1 \in 0 .. n /\ i - 1 < x /\ i - 1 \in 0 .. x
        BY <2>3, <3>2
      <4>2. f[i] = G(f[i - 1], i)
        BY <2>2, <3>2, <4>1
      <4>3. g[i] = f[i] /\ g[i - 1] = f[i - 1]
        BY <2>3, <3>2, <4>1
      <4> QED
        BY <3>2, <4>2, <4>3
    <3>3. CASE i = x
      <4>1. n \in 0 .. x /\ n < x /\ ~(x < x) /\ x - 1 = n /\ x # 0
        OBVIOUS
      <4>2. g[x] = G(f[n], x) /\ g[n] = f[n]
        BY <3>3, <4>1
      <4> QED
        BY <3>3, <4>1, <4>2
    <3> QED
      BY <2>3, <3>1, <3>2, <3>3
  <2>4. g = [i \in 0 .. x |-> IF i = 0 THEN given ELSE G(g[i - 1], i)]
    BY <2>3
  <2> HIDE DEF g
  <2>5. IsPassing(g, given, q, x)
    BY <2>4 DEF IsPassing, G
  <2> QED
    BY <2>5
<1>3. \A n \in Nat : n \in T
  <2> HIDE DEF T
  <2> QED
    BY <1>1, <1>2, SetInduction
<1> QED
  BY <1>3

(* PassedOn() takes the messages of the queue one by one.                   *)
LEMMA Passing ==
  ASSUME NEW g, NEW q, Len(q) \in Nat
  PROVE  \E f : IsPassing(f, g, q, Len(q)) /\ PassedOn(g, q) = f[Len(q)]
<1>1. \E f : IsPassing(f, g, q, Len(q))
  BY PassingExists
<1> QED
  BY <1>1 DEF IsPassing, PassedOn, After

LEMMA NothingPassed ==
  ASSUME NEW g
  PROVE  PassedOn(g, <<>>) = g
<1>1. Len(<<>>) = 0
  OBVIOUS
<1>2. PICK f : IsPassing(f, g, <<>>, 0) /\ PassedOn(g, <<>>) = f[0]
  BY <1>1, Passing
<1> QED
  BY <1>2 DEF IsPassing

(* A message at the end of the queue.                                       *)
LEMMA LastPassed ==
  ASSUME NEW g, NEW S, NEW q \in Seq(S), NEW m \in S
  PROVE  PassedOn(g, Append(q, m)) = After(PassedOn(g, q), m)
<1> DEFINE N == Len(q)
           r == Append(q, m)
<1>1. N \in Nat /\ r \in Seq(S) /\ Len(r) = N + 1 /\ r[N + 1] = m /\ \A i \in 1 .. N : r[i] = q[i]
  BY AppendProperties, LenProperties
<1>2. PICK f : IsPassing(f, g, q, N) /\ PassedOn(g, q) = f[N]
  BY <1>1, Passing
<1> HIDE DEF r
<1>3. PICK h : IsPassing(h, g, r, N + 1) /\ PassedOn(g, r) = h[N + 1]
  <2>1. Len(r) \in Nat
    BY <1>1
  <2>2. \E h : IsPassing(h, g, r, Len(r)) /\ PassedOn(g, r) = h[Len(r)]
    BY <2>1, Passing
  <2> QED
    BY <1>1, <2>2
<1> DEFINE T == {n \in Nat : n <= N => f[n] = h[n]}
<1>4. 0 \in T
  <2>1. f[0] = g
    BY <1>1, <1>2 DEF IsPassing
  <2>2. h[0] = g
    BY <1>1, <1>3 DEF IsPassing
  <2> QED
    BY <2>1, <2>2
<1>5. ASSUME NEW n \in Nat, n \in T
      PROVE  n + 1 \in T
  <2> SUFFICES ASSUME n + 1 <= N PROVE f[n + 1] = h[n + 1]
    OBVIOUS
  <2> DEFINE x == n + 1
  <2>1. x \in 0 .. N /\ x \in 0 .. N + 1 /\ x \in 1 .. N /\ x - 1 = n /\ x # 0 /\ n <= N
    BY <1>1
  <2> HIDE DEF x
  <2>2. f[x] = After(f[n], q[x])
    BY <1>2, <2>1 DEF IsPassing
  <2>3. h[x] = After(h[n], r[x])
    BY <1>3, <2>1 DEF IsPassing
  <2>4. r[x] = q[x] /\ f[n] = h[n]
    BY <1>1, <1>5, <2>1
  <2> QED
    BY <2>2, <2>3, <2>4 DEF x
<1>6. \A n \in Nat : n \in T
  <2> HIDE DEF T
  <2> QED
    BY <1>4, <1>5, SetInduction
<1>7. f[N] = h[N]
  <2>1. N \in T /\ N <= N
    <3> HIDE DEF T
    <3> QED
      BY <1>1, <1>6
  <2> HIDE DEF N
  <2> QED
    BY <2>1
<1> DEFINE x == N + 1
<1>8. x \in 0 .. x /\ x # 0 /\ x - 1 = N
  BY <1>1
<1>9. IsPassing(h, g, r, x) /\ PassedOn(g, r) = h[x]
  BY <1>3
<1>10. r[x] = m
  BY <1>1
<1> HIDE DEF x, N
<1>11. h[x] = After(h[N], r[x])
  BY <1>8, <1>9 DEF IsPassing
<1> QED
  BY <1>2, <1>7, <1>9, <1>10, <1>11 DEF r

(* A message taken from its front and delivered.                            *)
LEMMA FirstPassed ==
  ASSUME NEW g, NEW S, NEW q \in Seq(S), q # <<>>
  PROVE  PassedOn(After(g, Head(q)), Tail(q)) = PassedOn(g, q)
<1> DEFINE N == Len(q)
           r == Tail(q)
           M == N - 1
           g1 == After(g, Head(q))
<1>1. N \in Nat /\ N # 0 /\ Head(q) = q[1]
  BY LenProperties, EmptySeq, HeadTailProperties
<1>2. r \in Seq(S) /\ Len(r) = M /\ M \in Nat /\ N = M + 1
      /\ \A i \in 1 .. M : r[i] = q[i + 1]
  BY <1>1, HeadTailProperties
<1>3. PICK f : IsPassing(f, g, q, N) /\ PassedOn(g, q) = f[N]
  BY <1>1, Passing
<1> HIDE DEF r, g1
<1>4. PICK h : IsPassing(h, g1, r, M) /\ PassedOn(g1, r) = h[M]
  <2>1. Len(r) \in Nat
    BY <1>2
  <2>2. \E h : IsPassing(h, g1, r, Len(r)) /\ PassedOn(g1, r) = h[Len(r)]
    BY <2>1, Passing
  <2> QED
    BY <1>2, <2>2
<1> HIDE DEF M, N
<1> DEFINE T == {n \in Nat : n <= M => f[n + 1] = h[n]}
<1>5. 0 \in T
  <2>1. 0 \in 0 .. N /\ 1 \in 0 .. N /\ 0 \in 0 .. M /\ 1 - 1 = 0 /\ 0 + 1 = 1 /\ 1 # 0
    BY <1>1, <1>2
  <2>2. f[0] = g /\ f[1] = After(f[0], q[1])
    BY <1>3, <2>1 DEF IsPassing
  <2>3. h[0] = g1
    BY <1>4, <2>1 DEF IsPassing
  <2> QED
    BY <1>1, <2>1, <2>2, <2>3 DEF g1
<1>6. ASSUME NEW n \in Nat, n \in T
      PROVE  n + 1 \in T
  <2> SUFFICES ASSUME n + 1 <= M PROVE f[(n + 1) + 1] = h[n + 1]
    OBVIOUS
  <2> DEFINE x == n + 1
             y == x + 1
  <2>1. /\ x \in 0 .. M /\ x \in 1 .. M /\ y \in 0 .. N /\ x - 1 = n /\ y - 1 = x /\ x # 0 /\ y # 0
        /\ n <= M
    BY <1>2
  <2>2. f[x] = h[n]
    BY <1>6, <2>1
  <2>3. r[x] = q[y]
    BY <1>2, <2>1
  <2> HIDE DEF x, y
  <2>4. f[y] = After(f[x], q[y])
    BY <1>3, <2>1 DEF IsPassing
  <2>5. h[x] = After(h[n], r[x])
    BY <1>4, <2>1 DEF IsPassing
  <2> QED
    BY <2>2, <2>3, <2>4, <2>5 DEF x, y
<1>7. \A n \in Nat : n \in T
  <2> HIDE DEF T
  <2> QED
    BY <1>5, <1>6, SetInduction
<1>8. M \in T /\ M <= M
  <2> HIDE DEF T
  <2> QED
    BY <1>2, <1>7
<1>9. f[M + 1] = h[M]
  BY <1>8
<1> QED
  BY <1>2, <1>3, <1>4, <1>9 DEF r, g1

(* What is passed on is a sequence of tags.                                 *)
Received == {m \in Packets : m.from \in Others}

LEMMA ReceivedFacts ==
  ASSUME NEW m \in Received
  PROVE  TagOf(m) \in Tags /\ m.data \in BeaconData /\ m.from \in Others
BY DEF Received, Packets, Tags, TagOf

LEMMA PassedOnType ==
  ASSUME NEW g \in Seq(Tags), NEW q \in Seq(Received)
  PROVE  PassedOn(g, q) \in Seq(Tags)
<1> DEFINE N == Len(q)
<1>1. N \in Nat /\ \A i \in 1 .. N : q[i] \in Received
  BY LenProperties, ElementOfSeq
<1>2. PICK f : IsPassing(f, g, q, N) /\ PassedOn(g, q) = f[N]
  BY <1>1, Passing
<1> DEFINE T == {n \in Nat : n <= N => f[n] \in Seq(Tags)}
<1>3. 0 \in T
  <2>1. f[0] = g
    BY <1>1, <1>2 DEF IsPassing
  <2> QED
    BY <2>1
<1>4. ASSUME NEW n \in Nat, n \in T
      PROVE  n + 1 \in T
  <2> SUFFICES ASSUME n + 1 <= N PROVE f[n + 1] \in Seq(Tags)
    OBVIOUS
  <2> DEFINE x == n + 1
  <2>1. x \in 0 .. N /\ x \in 1 .. N /\ x - 1 = n /\ x # 0 /\ n <= N
    BY <1>1
  <2>2. f[n] \in Seq(Tags) /\ q[x] \in Received
    BY <1>1, <1>4, <2>1
  <2> HIDE DEF x
  <2>3. f[x] = After(f[n], q[x])
    BY <1>2, <2>1 DEF IsPassing
  <2>4. TagOf(q[x]) \in Tags
    BY <2>2, ReceivedFacts
  <2> QED
    BY <2>2, <2>3, <2>4, AppendProperties DEF After, x
<1>5. \A n \in Nat : n \in T
  <2> HIDE DEF T
  <2> QED
    BY <1>3, <1>4, SetInduction
<1>6. N \in T /\ N <= N
  <2> HIDE DEF T
  <2> QED
    BY <1>1, <1>5
<1> HIDE DEF N
<1> QED
  BY <1>2, <1>6

(* The cache and what has been passed on.                                   *)
Recent(cache, all) ==
  /\ Len(cache) = IF Len(all) < MaxRecentlyReceived THEN Len(all) ELSE MaxRecentlyReceived
  /\ \A i \in DOMAIN cache : cache[i] = all[Len(all) - Len(cache) + i]

Apart(all) ==
  \A j, k \in DOMAIN all : j < k /\ all[j] = all[k] => k - j > MaxRecentlyReceived

(* A tag that is not in the cache was last passed on long ago, and the      *)
(* cache stays recent when its oldest tag is dropped.                       *)
LEMMA CacheStep ==
  ASSUME NEW S, NEW cache \in Seq(S), NEW all \in Seq(S), NEW t \in S,
         Recent(cache, all), Apart(all), ~Contains(cache, t)
  PROVE  /\ Trimmed(Append(cache, t)) \in Seq(S)
         /\ Recent(Trimmed(Append(cache, t)), Append(all, t))
         /\ Apart(Append(all, t))
<1> DEFINE M == MaxRecentlyReceived
           n == Len(all)
           c == Len(cache)
           al == Append(all, t)
           ca == Append(cache, t)
<1>1. M \in Nat /\ n \in Nat /\ c \in Nat /\ c = (IF n < M THEN n ELSE M)
  BY NetworkIOAssumption, LenProperties DEF Recent
<1>2. DOMAIN all = 1 .. n /\ DOMAIN cache = 1 .. c
      /\ \A i \in 1 .. c : cache[i] = all[n - c + i] /\ cache[i] # t
  BY LenProperties DEF Recent, Contains
<1>3. /\ al \in Seq(S) /\ Len(al) = n + 1 /\ DOMAIN al = 1 .. n + 1
      /\ al[n + 1] = t /\ \A i \in 1 .. n : al[i] = all[i]
  BY AppendProperties, LenProperties
<1>4. /\ ca \in Seq(S) /\ Len(ca) = c + 1 /\ DOMAIN ca = 1 .. c + 1
      /\ ca[c + 1] = t /\ \A i \in 1 .. c : ca[i] = cache[i]
  BY AppendProperties, LenProperties
<1>5. \A j, k \in 1 .. n : j < k /\ all[j] = all[k] => k - j > M
  BY <1>2 DEF Apart
<1> HIDE DEF M, n, c, al, ca
<1>6. \A i \in 1 .. c + 1 : ca[i] = al[n - c + i]
  <2> SUFFICES ASSUME NEW i \in 1 .. c + 1 PROVE ca[i] = al[n - c + i]
    OBVIOUS
  <2>1. CASE i = c + 1
    <3>1. n - c + i = n + 1
      BY <1>1, <2>1
    <3> QED
      BY <1>3, <1>4, <2>1, <3>1
  <2>2. CASE i # c + 1
    <3>1. i \in 1 .. c /\ n - c + i \in 1 .. n
      BY <1>1, <2>2
    <3> QED
      BY <1>2, <1>3, <1>4, <3>1
  <2> QED
    BY <2>1, <2>2
<1>7. Apart(al)
  <2> SUFFICES ASSUME NEW j \in 1 .. n + 1, NEW k \in 1 .. n + 1, j < k, al[j] = al[k]
               PROVE  k - j > M
    BY <1>3 DEF Apart, M
  <2>1. j \in 1 .. n
    BY <1>1
  <2>2. CASE k = n + 1
    <3> SUFFICES ASSUME k - j <= M PROVE FALSE
      BY <1>1, <2>1
    <3> DEFINE i == j - (n - c)
    <3>1. i \in 1 .. c /\ n - c + i = j
      BY <1>1, <2>1, <2>2
    <3> HIDE DEF i
    <3>2. all[j] # t
      BY <1>2, <3>1
    <3> QED
      BY <1>3, <2>1, <2>2, <3>2
  <2>3. CASE k # n + 1
    <3>1. k \in 1 .. n
      BY <1>1, <2>3
    <3> QED
      BY <1>3, <1>5, <2>1, <3>1
  <2> QED
    BY <2>2, <2>3
<1>8. Trimmed(ca) \in Seq(S) /\ Recent(Trimmed(ca), al)
  <2>1. CASE c + 1 > M
    <3> DEFINE r == Tail(ca)
    <3>1. ca # <<>>
      BY <1>1, <1>4
    <3>2. r \in Seq(S) /\ Len(r) = Len(ca) - 1 /\ \A i \in 1 .. Len(r) : r[i] = ca[i + 1]
      BY <1>4, <3>1, HeadTailProperties
    <3>3. Trimmed(ca) = r
      <4>1. Len(ca) > MaxRecentlyReceived
        BY <1>4, <2>1 DEF M
      <4> QED
        BY <4>1, Zenon DEF Trimmed
    <3> HIDE DEF r
    <3>4. Len(ca) - 1 = c /\ DOMAIN r = 1 .. Len(r)
      BY <1>1, <1>4, <3>2, LenProperties
    <3>5. Len(r) = c /\ DOMAIN r = 1 .. c
      BY <3>2, <3>4
    <3>6. c = M /\ ~(n + 1 < M)
      BY <1>1, <2>1
    <3>7. ASSUME NEW i \in 1 .. c PROVE r[i] = al[(n + 1) - c + i]
      <4>1. i + 1 \in 1 .. c + 1 /\ n - c + (i + 1) = (n + 1) - c + i
        BY <1>1, <3>7
      <4> QED
        BY <1>6, <3>2, <3>5, <4>1
    <3>8. Recent(r, al)
      <4>1. Len(r) = IF Len(al) < M THEN Len(al) ELSE M
        BY <1>1, <1>3, <3>5, <3>6
      <4>2. \A i \in DOMAIN r : r[i] = al[Len(al) - Len(r) + i]
        <5> SUFFICES ASSUME NEW i \in 1 .. c PROVE r[i] = al[Len(al) - Len(r) + i]
          BY <3>5
        <5>1. Len(al) = n + 1 /\ Len(r) = c
          BY <1>3, <3>5
        <5>2. Len(al) - Len(r) + i = (n + 1) - c + i
          BY <5>1, Zenon
        <5> QED
          BY <3>7, <5>2
      <4> QED
        BY <4>1, <4>2 DEF Recent, M
    <3> QED
      BY <3>2, <3>3, <3>8
  <2>2. CASE ~(c + 1 > M)
    <3>1. Trimmed(ca) = ca
      <4>1. ~(Len(ca) > MaxRecentlyReceived)
        BY <1>4, <2>2 DEF M
      <4> QED
        BY <4>1, Zenon DEF Trimmed
    <3>2. c = n /\ c + 1 = (IF n + 1 < M THEN n + 1 ELSE M)
      BY <1>1, <2>2
    <3>3. \A i \in 1 .. c + 1 : (n + 1) - (c + 1) + i = n - c + i
      BY <1>1
    <3>4. Recent(ca, al)
      BY <1>3, <1>4, <1>6, <3>2, <3>3 DEF Recent, M
    <3> QED
      BY <1>4, <3>1, <3>4
  <2> QED
    BY <2>1, <2>2
<1> QED
  BY <1>3, <1>7, <1>8 DEF al, ca

(* What has been delivered comes first.                                     *)
LEMMA PassedOnExtends ==
  ASSUME NEW g \in Seq(Tags), NEW q \in Seq(Received)
  PROVE  LET all == PassedOn(g, q)
         IN  Len(g) <= Len(all) /\ \A i \in 1 .. Len(g) : all[i] = g[i]
<1> DEFINE N == Len(q)
           L == Len(g)
<1>1. N \in Nat /\ L \in Nat /\ \A i \in 1 .. N : q[i] \in Received
  BY LenProperties, ElementOfSeq
<1>2. PICK f : IsPassing(f, g, q, N) /\ PassedOn(g, q) = f[N]
  BY <1>1, Passing
<1> DEFINE Good(n) == f[n] \in Seq(Tags) /\ L <= Len(f[n]) /\ \A i \in 1 .. L : f[n][i] = g[i]
           T == {n \in Nat : n <= N => Good(n)}
<1>3. 0 \in T
  <2>1. f[0] = g
    BY <1>1, <1>2 DEF IsPassing
  <2> QED
    BY <1>1, <2>1
<1>4. ASSUME NEW n \in Nat, n \in T
      PROVE  n + 1 \in T
  <2> SUFFICES ASSUME n + 1 <= N PROVE Good(n + 1)
    OBVIOUS
  <2> DEFINE x == n + 1
  <2>1. x \in 0 .. N /\ x \in 1 .. N /\ x - 1 = n /\ x # 0 /\ n <= N
    BY <1>1
  <2>2. Good(n) /\ q[x] \in Received
    BY <1>1, <1>4, <2>1
  <2> HIDE DEF x, L
  <2>3. f[x] = After(f[n], q[x])
    BY <1>2, <2>1 DEF IsPassing
  <2>4. TagOf(q[x]) \in Tags
    BY <2>2, ReceivedFacts
  <2>5. CASE q[x].what = "BEACON"
    BY <2>2, <2>3, <2>5 DEF After, x
  <2>6. CASE q[x].what # "BEACON"
    <3> DEFINE s == f[n]
               t == TagOf(q[x])
               y == f[x]
    <3>1. y = Append(s, t)
      BY <2>3, <2>6 DEF After
    <3>2. s \in Seq(Tags) /\ t \in Tags /\ Len(s) \in Nat /\ L <= Len(s) /\ \A i \in 1 .. L : s[i] = g[i]
      BY <2>2, <2>4, LenProperties
    <3> HIDE DEF s, t, y
    <3>3. y \in Seq(Tags) /\ Len(y) = Len(s) + 1 /\ \A i \in 1 .. Len(s) : y[i] = s[i]
      BY <3>1, <3>2, AppendProperties
    <3>4. L <= Len(s) + 1 /\ \A i \in 1 .. L : i \in 1 .. Len(s)
      BY <1>1, <3>2
    <3>5. y \in Seq(Tags) /\ L <= Len(y) /\ \A i \in 1 .. L : y[i] = g[i]
      BY <3>2, <3>3, <3>4
    <3> QED
      BY <3>5 DEF y, x
  <2> QED
    BY <2>5, <2>6
<1>5. \A n \in Nat : n \in T
  <2> HIDE DEF T
  <2> QED
    BY <1>3, <1>4, SetInduction
<1>6. Good(N)
  <2>1. N \in T /\ N <= N
    <3> HIDE DEF T
    <3> QED
      BY <1>1, <1>5
  <2> HIDE DEF Good, N
  <2> QED
    BY <2>1
<1> HIDE DEF N, L
<1> QED
  BY <1>2, <1>6 DEF L

LEMMA DeliveredAreApart ==
  ASSUME NEW g \in Seq(Tags), NEW q \in Seq(Received), Apart(PassedOn(g, q))
  PROVE  Apart(g)
<1> DEFINE all == PassedOn(g, q)
           L == Len(g)
<1>1. L <= Len(all) /\ \A i \in 1 .. L : all[i] = g[i]
  BY PassedOnExtends
<1>2. all \in Seq(Tags)
  BY PassedOnType
<1> HIDE DEF all
<1>3. L \in Nat /\ Len(all) \in Nat /\ DOMAIN g = 1 .. L /\ DOMAIN all = 1 .. Len(all)
  BY <1>2, LenProperties
<1>4. \A i \in 1 .. L : i \in 1 .. Len(all)
  BY <1>1, <1>3
<1>5. Apart(all)
  BY DEF all
<1> HIDE DEF L
<1>6. \A j, k \in DOMAIN all : j < k /\ all[j] = all[k] => k - j > MaxRecentlyReceived
  BY <1>5 DEF Apart
<1>7. \A j, k \in 1 .. L : j < k /\ g[j] = g[k] => k - j > MaxRecentlyReceived
  BY <1>1, <1>3, <1>4, <1>6
<1> QED
  BY <1>3, <1>7 DEF Apart

----------------------------------------------------------------------------
(* Types of the multicast part.                                             *)

LEMMA EventsType ==
  ASSUME events \in [EventKinds -> Nat], NEW kind \in EventKinds, Happens(kind)
  PROVE  events' \in [EventKinds -> Nat]
BY DEF Happens

LEMMA KindsOfEvents ==
  \A kind \in {"reports", "sleeps", "networks", "packets", "multicasts",
               "states", "sessions", "requests"} : kind \in EventKinds
BY DEF EventKinds

LEMMA CommandTypes ==
  /\ Command("RECREATE_SOCKETS", None) \in Commands
  /\ Command("USER_MESSAGE", None) \in Commands
  /\ Command("INVALIDATE_LAST_RECEIVED_BEACON_DATA", None) \in Commands
  /\ \A d \in Nat : Command("UPDATE_JUNIOR_DATABASE", d) \in Commands
  /\ \A p \in Others \cup {Self, NoPeer} : Command("SET_SENIOR_PEER_ID", p) \in Commands
  /\ \A d \in BeaconData : Command("SET_BEACON_DATA", d) \in Commands
BY DEF Command, Commands

LEMMA QueuedType ==
  ASSUME toThread \in Seq(Commands), NEW c \in Commands, Queued(<<c>>)
  PROVE  toThread' \in Seq(Commands)
<1>1. <<c>> \in Seq(Commands)
  OBVIOUS
<1>2. toThread' = toThread \o <<c>>
  BY DEF Queued
<1> QED
  BY <1>1, <1>2, ConcatProperties

LEMMA SeniorType ==
  ASSUME toThread \in Seq(Commands), NEW new \in Others \cup {Self, NoPeer}, SeniorPeerChanged(new)
  PROVE  seniorPeerID' \in Others \cup {Self, NoPeer} /\ toThread' \in Seq(Commands)
<1>1. seniorPeerID' = new
  BY DEF SeniorPeerChanged
<1>2. CASE new # seniorPeerID
  <2>1. Queued(<<Command("SET_SENIOR_PEER_ID", new)>>)
    BY <1>2 DEF SeniorPeerChanged
  <2>2. Command("SET_SENIOR_PEER_ID", new) \in Commands
    BY CommandTypes
  <2> QED
    BY <1>1, <2>1, <2>2, QueuedType
<1>3. CASE new = seniorPeerID
  BY <1>1, <1>3 DEF SeniorPeerChanged
<1> QED
  BY <1>2, <1>3

LEMMA PacketTypes ==
  /\ \A p \in Others \cup {Self}, n \in Nat : Packet("MESSAGE", p, n, None) \in Packets
  /\ announcing \in [Others -> Nat] => \A p \in Others : Beacon(p) \in Packets /\ Beacon(p).from = p
BY DEF Packet, Packets, Beacon, BeaconData

LEMMA ThreadTypes ==
  /\ NewThread \in ThreadStates /\ NewThread.recentlyReceived = <<>>
  /\ \A t \in ThreadStates :
       t.recentlyReceived \in Seq(Tags) /\ t.tagCounter \in Nat
       /\ t.dios \subseteq Interfaces \cup {Loopback}
<1>1. <<>> \in Seq(Tags)
  OBVIOUS
<1> QED
  BY <1>1 DEF NewThread, ThreadStates, BeaconData

----------------------------------------------------------------------------
(* The cache and the Messages passed on, folded.                            *)

LEMMA FoldedNow ==
  /\ DeliveredOnce <=> Apart(PassedOn(delivered, toOwner))
  /\ CacheIsRecent <=> IF running THEN Recent(thread.recentlyReceived, PassedOn(delivered, toOwner))
                       ELSE toOwner = <<>>
BY DEF DeliveredOnce, CacheIsRecent, Apart, Recent

LEMMA FoldedNext ==
  /\ DeliveredOnce' <=> Apart(PassedOn(delivered', toOwner'))
  /\ CacheIsRecent' <=> IF running' THEN Recent(thread'.recentlyReceived, PassedOn(delivered', toOwner'))
                        ELSE toOwner' = <<>>
BY DEF DeliveredOnce, CacheIsRecent, Apart, Recent, PassedOn, TagOf

LEMMA CacheKept ==
  ASSUME CacheIsRecent, DeliveredOnce,
         running' = running, delivered' = delivered, toOwner' = toOwner,
         thread'.recentlyReceived = thread.recentlyReceived
  PROVE  CacheIsRecent' /\ DeliveredOnce'
<1>1. PassedOn(delivered', toOwner') = PassedOn(delivered, toOwner)
  BY Zenon
<1> QED
  BY <1>1, FoldedNow, FoldedNext

(* A step that leaves the thread, its owner's queue and what was delivered  *)
(* alone.                                                                   *)
MulticastFrame == UNCHANGED <<running, delivered, thread, toOwner>>

LEMMA FrameStep ==
  ASSUME MulticastInvariant, MulticastFrame,
         databaseStateID' \in Nat, seniorPeerID' \in Others \cup {Self, NoPeer},
         heard' \in BeaconData, toThread' \in Seq(Commands), present' \subseteq Interfaces,
         air' \subseteq Packets \X (Interfaces \cup {Loopback}),
         announcing' \in [Others -> Nat], events' \in [EventKinds -> Nat]
  PROVE  MulticastInvariant'
<1>1. CacheIsRecent' /\ DeliveredOnce'
  BY CacheKept DEF MulticastInvariant, MulticastFrame
<1>2. MulticastTypeOK'
  <2>1. /\ running' \in BOOLEAN /\ delivered' \in Seq(Tags) /\ thread' \in ThreadStates
        /\ toOwner' \in Seq({m \in Packets : m.from \in Others})
    BY DEF MulticastInvariant, MulticastTypeOK, MulticastFrame
  <2>2. /\ running' \in BOOLEAN /\ databaseStateID' \in Nat
        /\ seniorPeerID' \in Others \cup {Self, NoPeer}
        /\ heard' \in BeaconData /\ delivered' \in Seq(Tags)
        /\ thread' \in ThreadStates /\ toThread' \in Seq(Commands)
        /\ toOwner' \in Seq({m \in Packets : m.from \in Others})
        /\ present' \subseteq Interfaces
        /\ air' \subseteq Packets \X (Interfaces \cup {Loopback})
        /\ announcing' \in [Others -> Nat]
        /\ events' \in [EventKinds -> Nat]
    BY <2>1
  <2> QED
    BY <2>2 DEF MulticastTypeOK, Packets, Commands, ThreadStates, Tags, BeaconData, EventKinds
<1> QED
  BY <1>1, <1>2 DEF MulticastInvariant

LEMMA MulticastTypes ==
  ASSUME MulticastInvariant
  PROVE  /\ running \in BOOLEAN /\ databaseStateID \in Nat
         /\ seniorPeerID \in Others \cup {Self, NoPeer}
         /\ heard \in BeaconData /\ delivered \in Seq(Tags)
         /\ thread \in ThreadStates /\ toThread \in Seq(Commands)
         /\ toOwner \in Seq(Received)
         /\ present \subseteq Interfaces
         /\ air \subseteq Packets \X (Interfaces \cup {Loopback})
         /\ announcing \in [Others -> Nat]
         /\ events \in [EventKinds -> Nat]
BY DEF MulticastInvariant, MulticastTypeOK, Received

(* Steps of the unicast sessions and of the network.                        *)
LEMMA UnicastMulticastStep ==
  ASSUME MulticastInvariant, UnicastSessions
  PROVE  MulticastInvariant'
<1>1. UNCHANGED <<mainVars, thread, toThread, toOwner, networkVars>>
  BY DEF UnicastSessions, RequestBackOrderFromSeniorPeer, SendUnicastMessageToPeer,
         CreateSession, AnnounceUnicastPeerID, ReplyBackOrder, AboutToDetachFromServer
<1>2. UNCHANGED events \/ Happens("requests") \/ Happens("sessions")
  BY DEF UnicastSessions, RequestBackOrderFromSeniorPeer, SendUnicastMessageToPeer,
         CreateSession, AnnounceUnicastPeerID, ReplyBackOrder, AboutToDetachFromServer
<1>3. events' \in [EventKinds -> Nat]
  BY <1>2, MulticastTypes, EventsType, KindsOfEvents
<1>4. MulticastFrame
  BY <1>1 DEF MulticastFrame, mainVars
<1> QED
  BY <1>1, <1>3, <1>4, MulticastTypes, FrameStep DEF mainVars, networkVars

LEMMA NetworkMulticastStep ==
  ASSUME MulticastInvariant, Network
  PROVE  MulticastInvariant'
<1>1. ASSUME NEW p \in Others, PacketIsSent(p)
      PROVE  MulticastInvariant'
  <2>1. UNCHANGED <<mainVars, thread, toThread, toOwner, present, announcing>>
    BY <1>1 DEF PacketIsSent
  <2>2. MulticastFrame
    BY <2>1 DEF MulticastFrame, mainVars
  <2>3. events' \in [EventKinds -> Nat] /\ events["packets"] + 1 \in Nat
    <3>1. Happens("packets") /\ "packets" \in EventKinds
      BY <1>1, KindsOfEvents DEF PacketIsSent
    <3>2. events' \in [EventKinds -> Nat]
      BY <3>1, MulticastTypes, EventsType
    <3> QED
      BY <3>1, <3>2, MulticastTypes
  <2>4. PICK m \in {Packet("MESSAGE", p, events["packets"] + 1, None), Beacon(p)},
             some \in (SUBSET present) \ {{}} : air' = air \cup ({m} \X some)
    BY <1>1 DEF PacketIsSent
  <2>5. m \in Packets
    BY <2>3, <2>4, MulticastTypes, PacketTypes
  <2>6. some \subseteq Interfaces \cup {Loopback}
    BY <2>4, MulticastTypes
  <2>7. air' \subseteq Packets \X (Interfaces \cup {Loopback})
    BY <2>4, <2>5, <2>6, MulticastTypes
  <2> QED
    BY <2>1, <2>2, <2>3, <2>7, MulticastTypes, FrameStep DEF mainVars
<1>2. ASSUME NEW p \in Others, OtherUpdate(p)
      PROVE  MulticastInvariant'
  <2>1. UNCHANGED <<mainVars, thread, toThread, toOwner, present, air>>
    BY <1>2 DEF OtherUpdate
  <2>2. MulticastFrame
    BY <2>1 DEF MulticastFrame, mainVars
  <2>3. events' \in [EventKinds -> Nat]
    BY <1>2, MulticastTypes, EventsType, KindsOfEvents DEF OtherUpdate
  <2>4. announcing' \in [Others -> Nat]
    BY <1>2, MulticastTypes DEF OtherUpdate
  <2> QED
    BY <2>1, <2>2, <2>3, <2>4, MulticastTypes, FrameStep DEF mainVars
<1> QED
  BY <1>1, <1>2 DEF Network

(* A Message reaches the ZGPeerSession: it was passed on already.           *)
LEMMA DeliveryStep ==
  ASSUME MulticastInvariant, MessageReceivedFromInternalThread
  PROVE  MulticastInvariant'
<1> DEFINE m == Head(toOwner)
<1>1. /\ running \in BOOLEAN /\ databaseStateID \in Nat
      /\ seniorPeerID \in Others \cup {Self, NoPeer}
      /\ heard \in BeaconData /\ delivered \in Seq(Tags)
      /\ thread \in ThreadStates /\ toThread \in Seq(Commands)
      /\ toOwner \in Seq(Received)
      /\ present \subseteq Interfaces
      /\ air \subseteq Packets \X (Interfaces \cup {Loopback})
      /\ announcing \in [Others -> Nat]
      /\ events \in [EventKinds -> Nat]
  BY MulticastTypes
<1>2. /\ running /\ toOwner # <<>> /\ toOwner' = Tail(toOwner)
      /\ UNCHANGED <<running, seniorPeerID, databaseStateID, thread, networkVars, events>>
  BY DEF MessageReceivedFromInternalThread
<1>3. m \in Received /\ toOwner' \in Seq(Received)
  BY <1>1, <1>2, HeadTailProperties
<1>4. TagOf(m) \in Tags /\ m.data \in BeaconData
  BY <1>3, ReceivedFacts
<1> HIDE DEF m
<1>5. /\ delivered' = After(delivered, m) /\ heard' \in BeaconData
      /\ toThread' \in Seq(Commands)
  <2>1. CASE m.what # "BEACON"
    <3>1. delivered' = Append(delivered, TagOf(m)) /\ UNCHANGED <<heard, toThread>>
      BY <2>1 DEF MessageReceivedFromInternalThread, m
    <3> QED
      BY <1>1, <2>1, <3>1 DEF After
  <2>2. CASE m.what = "BEACON" /\ m.from = seniorPeerID
    <3>1. heard' = m.data /\ UNCHANGED <<delivered, toThread>>
      BY <2>2 DEF MessageReceivedFromInternalThread, m
    <3> QED
      BY <1>1, <1>4, <2>2, <3>1 DEF After
  <2>3. CASE m.what = "BEACON" /\ m.from # seniorPeerID
    <3>1. /\ Queued(<<Command("INVALIDATE_LAST_RECEIVED_BEACON_DATA", None)>>)
          /\ UNCHANGED <<heard, delivered>>
      BY <2>3 DEF MessageReceivedFromInternalThread, m
    <3>2. Command("INVALIDATE_LAST_RECEIVED_BEACON_DATA", None) \in Commands
      BY CommandTypes
    <3>3. toThread' \in Seq(Commands)
      BY <1>1, <3>1, <3>2, QueuedType
    <3> QED
      BY <1>1, <2>3, <3>1, <3>3 DEF After
  <2> QED
    BY <2>1, <2>2, <2>3
<1>6. delivered' \in Seq(Tags)
  BY <1>1, <1>4, <1>5, AppendProperties DEF After
<1>7. PassedOn(delivered', toOwner') = PassedOn(delivered, toOwner)
  <2>1. PassedOn(After(delivered, Head(toOwner)), Tail(toOwner)) = PassedOn(delivered, toOwner)
    BY <1>1, <1>2, FirstPassed
  <2> QED
    BY <1>2, <1>5, <2>1, Zenon DEF m
<1>8. CacheIsRecent' /\ DeliveredOnce'
  <2>1. CacheIsRecent /\ DeliveredOnce
    BY DEF MulticastInvariant
  <2>2. thread' = thread /\ running' /\ running
    BY <1>2
  <2> QED
    BY <1>7, <2>1, <2>2, FoldedNow, FoldedNext
<1>9. /\ present' \subseteq Interfaces /\ running' \in BOOLEAN
      /\ air' \subseteq Packets \X (Interfaces \cup {Loopback})
      /\ announcing' \in [Others -> Nat] /\ events' \in [EventKinds -> Nat]
      /\ databaseStateID' \in Nat /\ seniorPeerID' \in Others \cup {Self, NoPeer}
      /\ thread' \in ThreadStates
  BY <1>1, <1>2 DEF networkVars
<1>10. MulticastTypeOK'
  BY <1>3, <1>5, <1>6, <1>9 DEF MulticastTypeOK, Received
<1> QED
  BY <1>8, <1>10 DEF MulticastInvariant

(* When the thread ends, what was under way is lost, and nothing comes any  *)
(* more.                                                                    *)
LEMMA ShutdownStep ==
  ASSUME MulticastInvariant, ShutdownChildSessions
  PROVE  MulticastInvariant'
<1>1. /\ running' = FALSE /\ thread' = NewThread /\ toThread' = <<>> /\ toOwner' = <<>> /\ air' = {}
      /\ UNCHANGED <<seniorPeerID, databaseStateID, heard, delivered, present, announcing, events>>
  BY DEF ShutdownChildSessions
<1>2. delivered \in Seq(Tags) /\ toOwner \in Seq(Received)
  BY MulticastTypes
<1>3. Apart(delivered)
  <2>1. Apart(PassedOn(delivered, toOwner))
    BY FoldedNow DEF MulticastInvariant
  <2> QED
    BY <1>2, <2>1, DeliveredAreApart
<1>4. PassedOn(delivered', toOwner') = delivered
  <2>1. PassedOn(delivered, <<>>) = delivered
    BY NothingPassed
  <2> QED
    BY <1>1, <2>1, Zenon
<1>5. CacheIsRecent' /\ DeliveredOnce'
  BY <1>1, <1>3, <1>4, FoldedNext
<1>6. MulticastTypeOK'
  <2>1. thread' \in ThreadStates
    BY <1>1, ThreadTypes
  <2>2. toThread' \in Seq(Commands) /\ toOwner' \in Seq(Received)
    BY <1>1
  <2> QED
    BY <1>1, <2>1, <2>2, MulticastTypes DEF MulticastTypeOK, Received
<1> QED
  BY <1>5, <1>6 DEF MulticastInvariant

(* Other steps of the main thread.                                          *)
LEMMA MainMulticastStep ==
  ASSUME MulticastInvariant, MainThread
  PROVE  MulticastInvariant'
<1>1. ASSUME NEW peers \in SUBSET (Others \cup {Self}), NEW senior \in Others \cup {Self},
             PeersUpdate(peers, senior)
      PROVE  MulticastInvariant'
  <2>1. /\ Happens("reports") /\ SeniorPeerChanged(senior)
        /\ UNCHANGED <<running, databaseStateID, heard, delivered, thread, toOwner, networkVars>>
    BY <1>1 DEF PeersUpdate
  <2>2. events' \in [EventKinds -> Nat]
    BY <2>1, MulticastTypes, EventsType, KindsOfEvents
  <2>3. seniorPeerID' \in Others \cup {Self, NoPeer} /\ toThread' \in Seq(Commands)
    <3>1. senior \in Others \cup {Self, NoPeer}
      OBVIOUS
    <3> QED
      BY <2>1, <3>1, MulticastTypes, SeniorType
  <2>4. MulticastFrame
    BY <2>1 DEF MulticastFrame
  <2> QED
    BY <2>1, <2>2, <2>3, <2>4, MulticastTypes, FrameStep DEF networkVars
<1>2. CASE ComputerIsAboutToSleep
  <2>1. /\ Happens("sleeps") /\ SeniorPeerChanged(NoPeer)
        /\ UNCHANGED <<running, databaseStateID, heard, delivered, thread, toOwner, networkVars>>
    BY <1>2 DEF ComputerIsAboutToSleep
  <2>2. events' \in [EventKinds -> Nat]
    BY <2>1, MulticastTypes, EventsType, KindsOfEvents
  <2>3. seniorPeerID' \in Others \cup {Self, NoPeer} /\ toThread' \in Seq(Commands)
    <3>1. NoPeer \in Others \cup {Self, NoPeer}
      OBVIOUS
    <3> QED
      BY <2>1, <3>1, MulticastTypes, SeniorType
  <2>4. MulticastFrame
    BY <2>1 DEF MulticastFrame
  <2> QED
    BY <2>1, <2>2, <2>3, <2>4, MulticastTypes, FrameStep DEF networkVars
<1>3. CASE ComputerJustWokeUp
  <2>1. UNCHANGED <<running, seniorPeerID, databaseStateID, heard, delivered, thread, toThread,
                    toOwner, networkVars, events>>
    BY <1>3 DEF ComputerJustWokeUp
  <2>2. MulticastFrame
    BY <2>1 DEF MulticastFrame
  <2> QED
    BY <2>1, <2>2, MulticastTypes, FrameStep DEF networkVars
<1>4. ASSUME NEW interfaces \in SUBSET Interfaces, NetworkInterfacesChanged(interfaces)
      PROVE  MulticastInvariant'
  <2>1. /\ Happens("networks") /\ present' = interfaces
        /\ Queued(<<Command("RECREATE_SOCKETS", None)>>)
        /\ UNCHANGED <<mainVars, thread, toOwner, air, announcing>>
    BY <1>4 DEF NetworkInterfacesChanged, TellInternalThreadToRecreateMulticastSockets
  <2>2. events' \in [EventKinds -> Nat]
    BY <2>1, MulticastTypes, EventsType, KindsOfEvents
  <2>3. toThread' \in Seq(Commands)
    BY <2>1, MulticastTypes, CommandTypes, QueuedType
  <2>4. MulticastFrame
    BY <2>1 DEF MulticastFrame, mainVars
  <2> QED
    BY <2>1, <2>2, <2>3, <2>4, MulticastTypes, FrameStep DEF mainVars
<1>5. CASE SeniorUpdate
  <2>1. /\ Happens("states") /\ databaseStateID' = databaseStateID + 1
        /\ Queued(<<Command("UPDATE_JUNIOR_DATABASE", databaseStateID + 1)>>)
        /\ UNCHANGED <<running, seniorPeerID, heard, delivered, thread, toOwner, networkVars>>
    BY <1>5 DEF SeniorUpdate
  <2>2. events' \in [EventKinds -> Nat]
    BY <2>1, MulticastTypes, EventsType, KindsOfEvents
  <2>3. databaseStateID + 1 \in Nat
    BY MulticastTypes
  <2>4. Command("UPDATE_JUNIOR_DATABASE", databaseStateID + 1) \in Commands
    BY <2>3, CommandTypes
  <2>5. toThread' \in Seq(Commands)
    BY <2>1, <2>4, MulticastTypes, QueuedType
  <2>6. MulticastFrame
    BY <2>1 DEF MulticastFrame
  <2> QED
    BY <2>1, <2>2, <2>3, <2>5, <2>6, MulticastTypes, FrameStep DEF networkVars
<1>6. CASE SendMulticastMessageToAllPeers
  <2>1. /\ Happens("multicasts") /\ Queued(<<Command("USER_MESSAGE", None)>>)
        /\ UNCHANGED <<mainVars, thread, toOwner, networkVars>>
    BY <1>6 DEF SendMulticastMessageToAllPeers
  <2>2. events' \in [EventKinds -> Nat]
    BY <2>1, MulticastTypes, EventsType, KindsOfEvents
  <2>3. toThread' \in Seq(Commands)
    BY <2>1, MulticastTypes, CommandTypes, QueuedType
  <2>4. MulticastFrame
    BY <2>1 DEF MulticastFrame, mainVars
  <2> QED
    BY <2>1, <2>2, <2>3, <2>4, MulticastTypes, FrameStep DEF mainVars, networkVars
<1>7. CASE Pulse
  <2> DEFINE d == IF seniorPeerID = Self THEN databaseStateID ELSE None
  <2>1. /\ Queued(<<Command("SET_BEACON_DATA", d)>>)
        /\ UNCHANGED <<running, seniorPeerID, databaseStateID, heard, delivered, thread, toOwner,
                       networkVars, events>>
    BY <1>7 DEF Pulse
  <2>2. d \in BeaconData
    BY MulticastTypes DEF BeaconData
  <2> HIDE DEF d
  <2>3. Command("SET_BEACON_DATA", d) \in Commands
    BY <2>2, CommandTypes
  <2>4. toThread' \in Seq(Commands)
    BY <2>1, <2>3, MulticastTypes, QueuedType
  <2>5. MulticastFrame
    BY <2>1 DEF MulticastFrame
  <2> QED
    BY <2>1, <2>4, <2>5, MulticastTypes, FrameStep DEF networkVars
<1> QED
  BY <1>1, <1>2, <1>3, <1>4, <1>5, <1>6, <1>7, DeliveryStep, ShutdownStep DEF MainThread

(* A packet that comes in.                                                  *)
LEMMA InputStep ==
  ASSUME MulticastInvariant, NEW m \in Packets, DoInput(m),
         air' \subseteq Packets \X (Interfaces \cup {Loopback})
  PROVE  MulticastInvariant'
<1>1. running /\ UNCHANGED <<mainVars, toThread, present, announcing, events>>
  BY DEF DoInput
<1>2. /\ running \in BOOLEAN /\ databaseStateID \in Nat
      /\ seniorPeerID \in Others \cup {Self, NoPeer}
      /\ heard \in BeaconData /\ delivered \in Seq(Tags)
      /\ thread \in ThreadStates /\ toThread \in Seq(Commands)
      /\ toOwner \in Seq(Received)
      /\ present \subseteq Interfaces
      /\ announcing \in [Others -> Nat]
      /\ events \in [EventKinds -> Nat]
  BY MulticastTypes
<1>3. Recent(thread.recentlyReceived, PassedOn(delivered, toOwner)) /\ Apart(PassedOn(delivered, toOwner))
  BY <1>1, FoldedNow DEF MulticastInvariant
<1>4. thread.recentlyReceived \in Seq(Tags) /\ PassedOn(delivered, toOwner) \in Seq(Tags)
  BY <1>2, ThreadTypes, PassedOnType
<1>5. SUFFICES /\ thread' \in ThreadStates /\ toOwner' \in Seq(Received)
               /\ Recent(thread'.recentlyReceived, PassedOn(delivered, toOwner'))
               /\ Apart(PassedOn(delivered, toOwner'))
  <2>1. MulticastTypeOK'
    BY <1>1, <1>2, <1>5 DEF MulticastTypeOK, Received, mainVars
  <2>2. delivered' = delivered /\ running'
    BY <1>1 DEF mainVars
  <2>3. PassedOn(delivered', toOwner') = PassedOn(delivered, toOwner')
    BY <2>2, Zenon
  <2>4. CacheIsRecent' /\ DeliveredOnce'
    BY <1>5, <2>2, <2>3, FoldedNext
  <2> QED
    BY <2>1, <2>4 DEF MulticastInvariant
<1>6. CASE UNCHANGED <<thread, toOwner>>
  <2>1. PassedOn(delivered, toOwner') = PassedOn(delivered, toOwner)
    BY <1>6, Zenon
  <2> QED
    BY <1>2, <1>3, <1>6, <2>1
<1>7. CASE m.from # Self /\ m.what = "BEACON" /\ BeaconReceived(m) /\ ~UNCHANGED <<thread, toOwner>>
  <2>1. thread' = [thread EXCEPT !.lastReceivedBeaconData = m.data] /\ toOwner' = Append(toOwner, m)
    BY <1>7 DEF BeaconReceived
  <2>2. m \in Received /\ m.data \in BeaconData
    BY <1>7 DEF Received, Packets
  <2>3. toOwner' \in Seq(Received)
    BY <1>2, <2>1, <2>2, AppendProperties
  <2>4. thread' \in ThreadStates /\ thread'.recentlyReceived = thread.recentlyReceived
    BY <1>2, <2>1, <2>2 DEF ThreadStates
  <2>5. PassedOn(delivered, toOwner') = PassedOn(delivered, toOwner)
    <3>1. PassedOn(delivered, Append(toOwner, m)) = After(PassedOn(delivered, toOwner), m)
      BY <1>2, <2>2, LastPassed
    <3>2. After(PassedOn(delivered, toOwner), m) = PassedOn(delivered, toOwner)
      BY <1>7, Zenon DEF After
    <3> QED
      BY <2>1, <3>1, <3>2, Zenon
  <2> QED
    BY <1>3, <2>3, <2>4, <2>5
<1>8. CASE m.from # Self /\ m.what # "BEACON" /\ MessageReceived(m) /\ ~UNCHANGED <<thread, toOwner>>
  <2> DEFINE t == TagOf(m)
             cache == thread.recentlyReceived
             all == PassedOn(delivered, toOwner)
  <2>1. /\ ~Contains(cache, t) /\ toOwner' = Append(toOwner, m)
        /\ thread' = [thread EXCEPT !.recentlyReceived = Trimmed(Append(cache, t))]
    BY <1>8 DEF MessageReceived
  <2>2. m \in Received
    BY <1>8 DEF Received, Packets
  <2>3. t \in Tags
    BY <2>2, ReceivedFacts
  <2>4. toOwner' \in Seq(Received)
    BY <1>2, <2>1, <2>2, AppendProperties
  <2>5. PassedOn(delivered, toOwner') = Append(all, t)
    <3>1. PassedOn(delivered, Append(toOwner, m)) = After(all, m)
      BY <1>2, <2>2, LastPassed
    <3>2. After(all, m) = Append(all, t)
      BY <1>8, Zenon DEF After
    <3> QED
      BY <2>1, <3>1, <3>2, Zenon
  <2> HIDE DEF t, cache, all
  <2>6. /\ Trimmed(Append(cache, t)) \in Seq(Tags)
        /\ Recent(Trimmed(Append(cache, t)), Append(all, t))
        /\ Apart(Append(all, t))
    BY <1>3, <1>4, <2>1, <2>3, CacheStep DEF cache, all
  <2> DEFINE r == Trimmed(Append(cache, t))
  <2>7. r \in Seq(Tags) /\ thread' = [thread EXCEPT !.recentlyReceived = r]
    BY <2>1, <2>6
  <2>8. Recent(r, Append(all, t)) /\ Apart(Append(all, t))
    BY <2>6
  <2> HIDE DEF r
  <2>9. thread' \in ThreadStates /\ thread'.recentlyReceived = r
    BY <1>2, <2>7 DEF ThreadStates
  <2> QED
    BY <2>4, <2>5, <2>8, <2>9
<1> QED
  BY <1>6, <1>7, <1>8 DEF DoInput

(* Steps of the internal thread.                                            *)
LEMMA ThreadStep ==
  ASSUME MulticastInvariant, thread' \in ThreadStates,
         thread'.recentlyReceived = thread.recentlyReceived,
         UNCHANGED <<mainVars, toOwner, present, announcing, events>>,
         toThread' \in Seq(Commands), air' \subseteq Packets \X (Interfaces \cup {Loopback})
  PROVE  MulticastInvariant'
<1>1. CacheIsRecent' /\ DeliveredOnce'
  BY CacheKept DEF MulticastInvariant, mainVars
<1>2. MulticastTypeOK'
  BY MulticastTypes DEF MulticastTypeOK, Received, mainVars
<1> QED
  BY <1>1, <1>2 DEF MulticastInvariant

LEMMA CommandStep ==
  ASSUME MulticastInvariant, MessageFromOwner
  PROVE  MulticastInvariant'
<1> DEFINE c == Head(toThread)
           isMessage == c.what \in {"UPDATE_JUNIOR_DATABASE", "USER_MESSAGE"}
<1>1. thread \in ThreadStates /\ toThread \in Seq(Commands)
      /\ air \subseteq Packets \X (Interfaces \cup {Loopback}) /\ present \subseteq Interfaces
  BY MulticastTypes
<1>2. toThread # <<>> /\ toThread' = Tail(toThread)
      /\ UNCHANGED <<mainVars, toOwner, present, announcing, events>>
  BY DEF MessageFromOwner
<1>3. c \in Commands /\ toThread' \in Seq(Commands)
  BY <1>1, <1>2, HeadTailProperties
<1>4. /\ thread' = CASE c.what = "RECREATE_SOCKETS" ->
                           [thread EXCEPT !.recreateMulticastDataIORequested = TRUE]
                      [] isMessage -> [thread EXCEPT !.tagCounter = @ + 1]
                      [] c.what = "SET_SENIOR_PEER_ID" ->
                           [thread EXCEPT !.seniorPeerID = c.arg]
                      [] c.what = "SET_BEACON_DATA" -> SetBeaconData(c.arg)
                      [] c.what = "INVALIDATE_LAST_RECEIVED_BEACON_DATA" ->
                           [thread EXCEPT !.lastReceivedBeaconData = None]
      /\ air' = IF isMessage
                THEN air \cup ({Packet("MESSAGE", Self, thread'.tagCounter, None)}
                                \X (thread.dios \cap (present \cup {Loopback})))
                ELSE air
  BY DEF MessageFromOwner
<1> HIDE DEF c
<1>5. /\ c.what \in {"RECREATE_SOCKETS", "USER_MESSAGE", "INVALIDATE_LAST_RECEIVED_BEACON_DATA",
                     "UPDATE_JUNIOR_DATABASE", "SET_SENIOR_PEER_ID", "SET_BEACON_DATA"}
      /\ c.what = "SET_SENIOR_PEER_ID" => c.arg \in Others \cup {Self, NoPeer}
      /\ c.what = "SET_BEACON_DATA" => c.arg \in BeaconData
  BY <1>3 DEF Commands
<1>6. thread' \in ThreadStates /\ thread'.recentlyReceived = thread.recentlyReceived
  <2>1. CASE c.what = "RECREATE_SOCKETS"
    <3>1. thread' = [thread EXCEPT !.recreateMulticastDataIORequested = TRUE]
      BY <1>4, <2>1
    <3> QED
      BY <1>1, <3>1 DEF ThreadStates
  <2>2. CASE isMessage
    <3>1. thread' = [thread EXCEPT !.tagCounter = @ + 1]
      BY <1>4, <2>2
    <3> QED
      BY <1>1, <3>1 DEF ThreadStates
  <2>3. CASE c.what = "SET_SENIOR_PEER_ID"
    <3>1. thread' = [thread EXCEPT !.seniorPeerID = c.arg]
      BY <1>4, <2>3
    <3> QED
      BY <1>1, <1>5, <2>3, <3>1 DEF ThreadStates
  <2>4. CASE c.what = "SET_BEACON_DATA"
    <3>1. thread' = SetBeaconData(c.arg)
      BY <1>4, <2>4
    <3>2. thread' = [thread EXCEPT !.outgoingBeaconData = c.arg, !.outgoingBeaconMsg = None]
      BY <3>1 DEF SetBeaconData
    <3>3. c.arg \in BeaconData /\ None \in BeaconData
      BY <1>5, <2>4 DEF BeaconData
    <3> QED
      BY <1>1, <3>2, <3>3 DEF ThreadStates
  <2>5. CASE c.what = "INVALIDATE_LAST_RECEIVED_BEACON_DATA"
    <3>1. thread' = [thread EXCEPT !.lastReceivedBeaconData = None]
      BY <1>4, <2>5
    <3>2. None \in BeaconData
      BY DEF BeaconData
    <3> QED
      BY <1>1, <3>1, <3>2 DEF ThreadStates
  <2> QED
    BY <1>5, <2>1, <2>2, <2>3, <2>4, <2>5
<1>7. air' \subseteq Packets \X (Interfaces \cup {Loopback})
  <2>1. thread'.tagCounter \in Nat /\ thread.dios \subseteq Interfaces \cup {Loopback}
    BY <1>1, <1>6, ThreadTypes
  <2> DEFINE packet == Packet("MESSAGE", Self, thread'.tagCounter, None)
             some == thread.dios \cap (present \cup {Loopback})
  <2>2. packet \in Packets
    BY <2>1, PacketTypes
  <2>3. some \subseteq Interfaces \cup {Loopback}
    BY <2>1
  <2>4. air' = air \/ air' = air \cup ({packet} \X some)
    BY <1>4
  <2> HIDE DEF packet, some
  <2> QED
    BY <1>1, <2>2, <2>3, <2>4
<1> QED
  BY <1>2, <1>3, <1>6, <1>7, ThreadStep

LEMMA ThreadMulticastStep ==
  ASSUME MulticastInvariant, InternalThread
  PROVE  MulticastInvariant'
<1>1. thread \in ThreadStates /\ toThread \in Seq(Commands)
      /\ air \subseteq Packets \X (Interfaces \cup {Loopback}) /\ present \subseteq Interfaces
      /\ announcing \in [Others -> Nat]
  BY MulticastTypes
<1>2. CASE RecreateMulticastDataIOs
  <2>1. /\ thread' = [thread EXCEPT !.recreateMulticastDataIORequested = FALSE,
                                    !.dios = CreateMulticastDataIOs]
        /\ air' = {} /\ UNCHANGED <<mainVars, toThread, toOwner, present, announcing, events>>
    BY <1>2 DEF RecreateMulticastDataIOs
  <2>2. CreateMulticastDataIOs \subseteq Interfaces \cup {Loopback}
    BY <1>1 DEF CreateMulticastDataIOs
  <2>3. thread' \in ThreadStates /\ thread'.recentlyReceived = thread.recentlyReceived
    BY <1>1, <2>1, <2>2 DEF ThreadStates
  <2> QED
    BY <1>1, <2>1, <2>3, ThreadStep
<1>3. CASE SendBeacon
  <2> DEFINE d == IF thread.outgoingBeaconMsg = None THEN thread.outgoingBeaconData
                  ELSE thread.outgoingBeaconMsg
  <2>1. /\ thread' = [thread EXCEPT !.outgoingBeaconMsg = d]
        /\ UNCHANGED <<mainVars, toThread, toOwner, present, air, announcing, events>>
    BY <1>3 DEF SendBeacon
  <2>2. d \in BeaconData
    BY <1>1 DEF ThreadStates
  <2> HIDE DEF d
  <2>3. thread' \in ThreadStates /\ thread'.recentlyReceived = thread.recentlyReceived
    BY <1>1, <2>1, <2>2 DEF ThreadStates
  <2> QED
    BY <1>1, <2>1, <2>3, ThreadStep
<1>4. ASSUME NEW p \in Others, BeaconArrives(p)
      PROVE  MulticastInvariant'
  <2>1. DoInput(Beacon(p)) /\ UNCHANGED air
    BY <1>4 DEF BeaconArrives
  <2>2. Beacon(p) \in Packets
    BY <1>1, PacketTypes
  <2> QED
    BY <1>1, <2>1, <2>2, InputStep
<1>5. ASSUME NEW packet \in air, PacketArrives(packet[1], packet[2])
      PROVE  MulticastInvariant'
  <2>1. DoInput(packet[1]) /\ air' \subseteq air
    BY <1>5 DEF PacketArrives
  <2>2. packet[1] \in Packets
    BY <1>1
  <2> QED
    BY <1>1, <2>1, <2>2, InputStep
<1> QED
  BY <1>2, <1>3, <1>4, <1>5, CommandStep DEF InternalThread

LEMMA MulticastInit ==
  ASSUME Init
  PROVE  MulticastInvariant
<1>1. /\ running = TRUE /\ seniorPeerID = NoPeer /\ databaseStateID = 0 /\ heard = None
      /\ delivered = <<>> /\ thread = NewThread /\ toThread = <<>> /\ toOwner = <<>>
      /\ present = Interfaces /\ air = {} /\ announcing = [p \in Others |-> 0]
      /\ events = [kind \in EventKinds |-> 0]
  BY DEF Init
<1>2. MulticastTypeOK
  BY <1>1, ThreadTypes DEF MulticastTypeOK, BeaconData
<1>3. PassedOn(delivered, toOwner) = <<>>
  <2>1. PassedOn(<<>>, <<>>) = <<>>
    BY NothingPassed
  <2> QED
    BY <1>1, <2>1, Zenon
<1>4. Recent(<<>>, <<>>) /\ Apart(<<>>)
  BY NetworkIOAssumption DEF Recent, Apart
<1>5. thread.recentlyReceived = <<>>
  BY <1>1, ThreadTypes
<1>6. CacheIsRecent /\ DeliveredOnce
  BY <1>1, <1>3, <1>4, <1>5, FoldedNow
<1> QED
  BY <1>2, <1>6 DEF MulticastInvariant

(* The tags that the thread remembers are always those of the last Messages *)
(* it has passed on, whether or not they have been delivered yet.           *)
THEOREM MulticastStaysSound == Spec => []MulticastInvariant
<1>1. Init => MulticastInvariant
  BY MulticastInit
<1>2. MulticastInvariant /\ [Next]_vars => MulticastInvariant'
  <2>1. CASE MulticastInvariant /\ UNCHANGED vars
    <3>1. UNCHANGED <<mainVars, toThread, thread, toOwner, networkVars, events>>
      BY <2>1 DEF vars
    <3>2. MulticastFrame
      BY <3>1 DEF MulticastFrame, mainVars
    <3> QED
      BY <2>1, <3>1, <3>2, MulticastTypes, FrameStep DEF mainVars, networkVars
  <2>2. CASE MulticastInvariant /\ Next
    BY <2>2, MainMulticastStep, UnicastMulticastStep, ThreadMulticastStep, NetworkMulticastStep DEF Next
  <2> QED
    BY <2>1, <2>2
<1> QED
  BY <1>1, <1>2, PTL DEF Spec

(* A Message that arrives any number of times, through any number of        *)
(* interfaces, is delivered once, unless MaxRecentlyReceived others at      *)
(* least have come in between.                                              *)
THEOREM MessagesAreDeliveredOnce == Spec => []DeliveredOnce
<1>1. MulticastInvariant => DeliveredOnce
  BY DEF MulticastInvariant
<1> QED
  BY <1>1, MulticastStaysSound, PTL
==========================================================================

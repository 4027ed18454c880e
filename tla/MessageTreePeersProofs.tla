---------------------- MODULE MessageTreePeersProofs ----------------------
(***************************************************************************)
(* Pings through the shared database, for any number of peers, sessions    *)
(* and operations, and any crashes, starts and losses of heartbeats: when  *)
(* a client has its pong, its peer has executed all that was requested     *)
(* through it before the ping and that the pinged peer ever executed.      *)
(***************************************************************************)
EXTENDS MessageTreePeers, SequenceTheorems, FiniteSetTheorems, WellFoundedInduction, TLAPS

---------------------------------------------------------------------------
(* Sequences.                                                              *)

(* Whatever its elements, a sequence is one over the set of them.          *)
LEMMA SequenceIntro ==
  ASSUME NEW S, NEW s \in Seq(S)
  PROVE  IsSequence(s)
<1>1. Len(s) \in Nat /\ s \in [1 .. Len(s) -> S] /\ DOMAIN s = 1 .. Len(s)
  BY LenProperties
<1>2. s \in [1 .. Len(s) -> ToSet(s)]
  <2>1. \A i \in DOMAIN s : s[i] \in ToSet(s)
    BY Zenon DEF ToSet
  <2> QED
    BY <1>1, <2>1, Zenon
<1>3. s \in UNION {[1 .. n -> ToSet(s)] : n \in Nat}
  BY <1>1, <1>2
<1> QED
  BY <1>3, SeqDef DEF IsSequence

(* The length and the indices of a sequence.                               *)
LEMMA SequenceFacts ==
  ASSUME NEW s, IsSequence(s)
  PROVE  Len(s) \in Nat /\ DOMAIN s = 1 .. Len(s)
BY LenProperties DEF IsSequence

(* No messages.                                                            *)
LEMMA NoMessages == IsSequence(<<>>) /\ DOMAIN <<>> = {}
<1>1. <<>> \in Seq({}) /\ Len(<<>>) = 0
  BY EmptySeq
<1>2. IsSequence(<<>>)
  BY <1>1, SequenceIntro
<1> QED
  BY <1>1, <1>2, SequenceFacts

(* Messages added at the end.                                              *)
LEMMA ConcatFacts ==
  ASSUME NEW s, NEW t, IsSequence(s), IsSequence(t)
  PROVE  /\ IsSequence(s \o t)
         /\ DOMAIN (s \o t) = 1 .. Len(s) + Len(t)
         /\ \A i \in DOMAIN (s \o t) :
              (s \o t)[i] = IF i <= Len(s) THEN s[i] ELSE t[i - Len(s)]
<1> DEFINE S == ToSet(s) \cup ToSet(t)
<1>1. s \in Seq(S) /\ t \in Seq(S)
  BY SeqMonotonic DEF IsSequence
<1> HIDE DEF S
<1>2. /\ s \o t \in Seq(S) /\ Len(s \o t) = Len(s) + Len(t)
      /\ \A i \in 1 .. Len(s) + Len(t) : (s \o t)[i] = IF i <= Len(s) THEN s[i] ELSE t[i - Len(s)]
  BY <1>1, ConcatProperties
<1>3. IsSequence(s \o t)
  BY <1>2, SequenceIntro
<1>4. DOMAIN (s \o t) = 1 .. Len(s) + Len(t)
  BY <1>2, <1>3, SequenceFacts
<1> QED
  BY <1>2, <1>3, <1>4

(* One message added at the end.                                           *)
LEMMA AppendFacts ==
  ASSUME NEW s, NEW m, IsSequence(s)
  PROVE  /\ IsSequence(Append(s, m))
         /\ DOMAIN Append(s, m) = 1 .. Len(s) + 1
         /\ \A i \in DOMAIN Append(s, m) : Append(s, m)[i] = IF i <= Len(s) THEN s[i] ELSE m
<1> DEFINE S == ToSet(s) \cup {m}
<1>1. s \in Seq(S) /\ m \in S
  BY SeqMonotonic DEF IsSequence
<1> HIDE DEF S
<1>2. /\ Append(s, m) \in Seq(S) /\ Len(Append(s, m)) = Len(s) + 1
      /\ \A i \in 1 .. Len(s) : Append(s, m)[i] = s[i]
      /\ Append(s, m)[Len(s) + 1] = m
  BY <1>1, AppendProperties
<1>3. IsSequence(Append(s, m))
  BY <1>2, SequenceIntro
<1>4. DOMAIN Append(s, m) = 1 .. Len(s) + 1 /\ Len(s) \in Nat
  BY <1>2, <1>3, SequenceFacts
<1>5. ASSUME NEW i \in DOMAIN Append(s, m)
      PROVE  Append(s, m)[i] = IF i <= Len(s) THEN s[i] ELSE m
  <2>1. i \in 1 .. Len(s) \/ (i = Len(s) + 1 /\ ~(i <= Len(s)))
    BY <1>4, <1>5
  <2> QED
    BY <1>2, <1>4, <1>5, <2>1
<1> QED
  BY <1>3, <1>4, <1>5

(* A channel without the message that is being handled.                    *)
LEMMA TailFacts ==
  ASSUME NEW s, IsSequence(s), s # <<>>
  PROVE  /\ Len(s) \in Nat /\ Len(s) > 0 /\ Head(s) = s[1] /\ 1 \in DOMAIN s
         /\ IsSequence(Tail(s))
         /\ DOMAIN Tail(s) = 1 .. Len(s) - 1
         /\ \A i \in DOMAIN Tail(s) : Tail(s)[i] = s[i + 1] /\ i + 1 \in DOMAIN s
<1> DEFINE S == ToSet(s)
<1>1. s \in Seq(S)
  BY DEF IsSequence
<1> HIDE DEF S
<1>2. /\ Head(s) \in S /\ Tail(s) \in Seq(S)
      /\ Len(Tail(s)) = Len(s) - 1 /\ Len(s) \in Nat /\ Len(s) > 0
      /\ Head(s) = s[1]
      /\ \A i \in 1 .. Len(Tail(s)) : Tail(s)[i] = s[i + 1]
  BY <1>1
<1>3. IsSequence(Tail(s))
  BY <1>2, SequenceIntro
<1> QED
  BY <1>2, <1>3, SequenceFacts

(* A list of updates is a sequence.                                        *)
LEMMA ListFacts ==
  ASSUME NEW n \in Nat, NEW s, DOMAIN s = 1 .. n, s = [i \in 1 .. n |-> s[i]]
  PROVE  IsSequence(s) /\ Len(s) = n
<1>1. s \in [1 .. n -> ToSet(s)]
  BY DEF ToSet
<1>2. s \in Seq(ToSet(s))
  BY <1>1, SeqDef
<1>3. Len(s) \in Nat /\ DOMAIN s = 1 .. Len(s)
  BY <1>2, LenProperties
<1> QED
  BY <1>2, <1>3 DEF IsSequence

---------------------------------------------------------------------------
(* The eldest peer.                                                        *)

(* A non-empty set of numbers has a least one.                             *)
LEMMA LeastNumber ==
  ASSUME NEW T \in SUBSET Nat, T # {}
  PROVE  \E x \in T : \A y \in T : x <= y
<1> DEFINE R == OpToRel(<, Nat)
<1>1. IsWellFoundedOn(R, Nat)
  BY NatLessThanWellFounded
<1>2. \A x, y \in Nat : <<x, y>> \in R <=> x < y
  BY DEF OpToRel
<1> HIDE DEF R
<1>3. PICK x \in T : \A y \in T : ~(<<y, x>> \in R)
  BY <1>1, WFMin
<1>4. ASSUME NEW y \in T
      PROVE  x <= y
  <2>1. x \in Nat /\ y \in Nat
    OBVIOUS
  <2>2. ~(y < x)
    BY <1>2, <1>3, <2>1
  <2> QED
    BY <2>1, <2>2
<1> QED
  BY <1>4

(* Eldest picks it.                                                        *)
LEMMA EldestFacts ==
  ASSUME NEW P \in SUBSET Peers, P # {}
  PROVE  Eldest(P) \in P /\ \A q \in P : Eldest(P) <= q
<1>1. \E p \in P : \A q \in P : p <= q
  BY LeastNumber, PeersAssumption
<1> QED
  BY <1>1 DEF Eldest

(* Peers are numbers, and none of them is NoPeer.                          *)
LEMMA PeersAreNumbers == Peers \subseteq Nat /\ NoPeer \notin Peers
BY PeersAssumption DEF NoPeer

---------------------------------------------------------------------------
(* Channels.                                                               *)

(* More operations done: what was good is good.                            *)
LEMMA GoodMessageLater ==
  ASSUME NEW n \in Nat, NEW p, NEW q, NEW m, GoodMessage(p, q, m, n)
  PROVE  GoodMessage(p, q, m, n + 1)
BY DEF GoodMessage

(* An empty channel (a session that has ended, SessionsEnded) is good.     *)
LEMMA EmptyChannel ==
  ASSUME NEW p, NEW q, NEW n, NEW k
  PROVE  GoodChannel(p, q, <<>>, n) /\ NoneOlder(<<>>, k)
BY NoMessages DEF GoodChannel, NoneOlder

(* A channel stays good when its first message is taken.                   *)
LEMMA ShorterChannel ==
  ASSUME NEW p, NEW q, NEW s, NEW n, GoodChannel(p, q, s, n), s # <<>>
  PROVE  /\ GoodChannel(p, q, Tail(s), n)
         /\ \A k : NoneOlder(s, k) => NoneOlder(Tail(s), k)
         /\ GoodMessage(p, q, Head(s), n)
         /\ \A i \in DOMAIN Tail(s) :
              IsRequest(Head(s)) /\ IsRequest(Tail(s)[i]) => Tail(s)[i].id >= Head(s).id
<1>1. IsSequence(s)
  BY DEF GoodChannel
<1>2. /\ Len(s) \in Nat /\ Len(s) > 0 /\ Head(s) = s[1] /\ 1 \in DOMAIN s
      /\ IsSequence(Tail(s))
      /\ DOMAIN Tail(s) = 1 .. Len(s) - 1
      /\ \A i \in DOMAIN Tail(s) : Tail(s)[i] = s[i + 1] /\ i + 1 \in DOMAIN s
  BY <1>1, TailFacts
<1>3. \A i \in DOMAIN Tail(s) : GoodMessage(p, q, Tail(s)[i], n)
  BY <1>2 DEF GoodChannel
<1>4. ASSUME NEW i \in DOMAIN Tail(s), NEW j \in DOMAIN Tail(s), i < j,
             IsRequest(Tail(s)[i]), IsRequest(Tail(s)[j])
      PROVE  Tail(s)[i].id <= Tail(s)[j].id
  <2>1. i + 1 < j + 1 /\ i + 1 \in DOMAIN s /\ j + 1 \in DOMAIN s
    BY <1>2, <1>4
  <2> QED
    BY <1>2, <1>4, <2>1 DEF GoodChannel
<1>5. \A k : NoneOlder(s, k) => NoneOlder(Tail(s), k)
  BY <1>2 DEF NoneOlder
<1>6. GoodMessage(p, q, Head(s), n)
  BY <1>2 DEF GoodChannel
<1>7. ASSUME NEW i \in DOMAIN Tail(s), IsRequest(Head(s)), IsRequest(Tail(s)[i])
      PROVE  Tail(s)[i].id >= Head(s).id
  <2>1. 1 < i + 1 /\ i + 1 \in DOMAIN s /\ Tail(s)[i] = s[i + 1]
    BY <1>2, <1>7
  <2>2. s[1].id <= s[i + 1].id
    BY <1>2, <1>7, <2>1 DEF GoodChannel
  <2> QED
    BY <1>2, <1>3, <1>6, <2>1, <2>2, <1>7 DEF GoodMessage, IsRequest
<1> QED
  BY <1>2, <1>3, <1>4, <1>5, <1>6, <1>7 DEF GoodChannel

(* A channel stays good when messages are added: those of a new operation, *)
(* whose number is larger than all before, or some that are no requests.   *)
LEMMA LongerChannel ==
  ASSUME NEW p, NEW q, NEW s, NEW t, NEW n \in Nat, NEW N \in {n, n + 1},
         GoodChannel(p, q, s, n), IsSequence(t),
         \A i \in DOMAIN t : /\ GoodMessage(p, q, t[i], N)
                             /\ IsRequest(t[i]) => t[i].id = n + 1
  PROVE  /\ GoodChannel(p, q, s \o t, N)
         /\ \A k : NoneOlder(s, k) /\ k.id \in 0..n => NoneOlder(s \o t, k)
<1> DEFINE u == s \o t
<1>1. IsSequence(s) /\ Len(s) \in Nat /\ DOMAIN s = 1 .. Len(s) /\ Len(t) \in Nat
      /\ DOMAIN t = 1 .. Len(t)
  BY SequenceFacts DEF GoodChannel
<1>2. /\ IsSequence(u) /\ DOMAIN u = 1 .. Len(s) + Len(t)
      /\ \A i \in DOMAIN u : u[i] = IF i <= Len(s) THEN s[i] ELSE t[i - Len(s)]
  BY <1>1, ConcatFacts
<1> HIDE DEF u
<1>3. ASSUME NEW i \in DOMAIN u
      PROVE  \/ i \in DOMAIN s /\ u[i] = s[i]
             \/ i > Len(s) /\ i - Len(s) \in DOMAIN t /\ u[i] = t[i - Len(s)]
  BY <1>1, <1>2, <1>3
<1>4. \A i \in DOMAIN s : GoodMessage(p, q, s[i], N)
  BY GoodMessageLater DEF GoodChannel
<1>5. \A i \in DOMAIN u : GoodMessage(p, q, u[i], N)
  BY <1>3, <1>4
<1>6. \A i \in DOMAIN s : IsRequest(s[i]) => s[i].id \in 0..n
  BY DEF GoodChannel, GoodMessage, IsRequest
<1>7. ASSUME NEW i \in DOMAIN u, NEW j \in DOMAIN u, i < j, IsRequest(u[i]), IsRequest(u[j])
      PROVE  u[i].id <= u[j].id
  <2>1. CASE j \in DOMAIN s /\ u[j] = s[j]
    <3>1. i \in DOMAIN s /\ u[i] = s[i]
      BY <1>1, <1>2, <1>7, <2>1
    <3> QED
      BY <1>7, <2>1, <3>1 DEF GoodChannel
  <2>2. CASE j > Len(s) /\ j - Len(s) \in DOMAIN t /\ u[j] = t[j - Len(s)]
    <3>1. u[j].id = n + 1
      BY <1>7, <2>2
    <3>2. u[i].id \in 0..n \/ u[i].id = n + 1
      BY <1>3, <1>6, <1>7
    <3> QED
      BY <3>1, <3>2
  <2> QED
    BY <1>3, <2>1, <2>2
<1>8. ASSUME NEW k, NoneOlder(s, k), k.id \in 0..n
      PROVE  NoneOlder(u, k)
  <2> SUFFICES ASSUME NEW i \in DOMAIN u, IsRequest(u[i])
               PROVE  u[i].id >= k.id
    BY DEF NoneOlder
  <2>1. CASE i \in DOMAIN s /\ u[i] = s[i]
    BY <1>8, <2>1 DEF NoneOlder
  <2>2. CASE i - Len(s) \in DOMAIN t /\ u[i] = t[i - Len(s)]
    BY <1>8, <2>2
  <2> QED
    BY <1>3, <2>1, <2>2
<1>9. GoodChannel(p, q, u, N)
  BY <1>2, <1>5, <1>7 DEF GoodChannel
<1> QED
  BY <1>8, <1>9 DEF u

(* Channels that are in order stay so as operations are done.              *)
LEMMA ChannelsLater ==
  ASSUME NEW c, NEW n \in Nat, NEW K, ChannelsInOrder(c, n, K)
  PROVE  ChannelsInOrder(c, n + 1, K)
BY GoodMessageLater DEF ChannelsInOrder, GoodChannel

(* All channels are in order if each that changed is good and holds        *)
(* nothing older than a ping that has been seen.                           *)
LEMMA ChannelsReplaced ==
  ASSUME NEW c, NEW d, NEW n \in Nat, NEW N \in {n, n + 1}, NEW K, ChannelsInOrder(c, n, K),
         \A k \in K : k.peer \in Peers /\ k.to \in Peers,
         DOMAIN d = Peers, \A p \in Peers : DOMAIN d[p] = Peers,
         \A p, q \in Peers :
            \/ d[p][q] = c[p][q]
            \/ /\ GoodChannel(p, q, d[p][q], N)
               /\ \A k \in K : NoneOlder(c[p][q], k) => NoneOlder(d[p][q], k)
  PROVE  ChannelsInOrder(d, N, K)
<1>1. ChannelsInOrder(c, N, K)
  BY ChannelsLater
<1>2. ASSUME NEW p \in Peers, NEW q \in Peers
      PROVE  GoodChannel(p, q, d[p][q], N)
  BY <1>1 DEF ChannelsInOrder
<1>3. ASSUME NEW k \in K
      PROVE  NoneOlder(d[k.peer][k.to], k)
  BY DEF ChannelsInOrder
<1> QED
  BY <1>2, <1>3 DEF ChannelsInOrder

---------------------------------------------------------------------------
(* Sending.                                                                *)

(* Pings of peers, numbered by the operations done so far.                 *)
KnownPings(K, n) == \A k \in K : k.peer \in Peers /\ k.to \in Peers /\ k.id \in 0..n

(* What p may send to q as the n-th operation is done, after m before it.  *)
NewMessages(p, q, t, m, n) ==
  /\ IsSequence(t)
  /\ \A i \in DOMAIN t : /\ GoodMessage(p, q, t[i], n)
                         /\ IsRequest(t[i]) => t[i].id = m + 1

(* New messages on a channel.                                              *)
LEMMA NewOnChannel ==
  ASSUME NEW p, NEW q, NEW s, NEW t, NEW n \in Nat, NEW N \in {n, n + 1}, NEW K,
         GoodChannel(p, q, s, n), NewMessages(p, q, t, n, N), KnownPings(K, n)
  PROVE  /\ GoodChannel(p, q, s \o t, N)
         /\ \A k \in K : NoneOlder(s, k) => NoneOlder(s \o t, k)
<1>1. /\ IsSequence(t)
      /\ \A i \in DOMAIN t : GoodMessage(p, q, t[i], N) /\ (IsRequest(t[i]) => t[i].id = n + 1)
  BY DEF NewMessages
<1>2. /\ GoodChannel(p, q, s \o t, N)
      /\ \A k : NoneOlder(s, k) /\ k.id \in 0..n => NoneOlder(s \o t, k)
  BY <1>1, LongerChannel
<1>3. \A k \in K : k.id \in 0..n
  BY DEF KnownPings
<1> QED
  BY <1>2, <1>3

(* SendUnicastMessageToPeer keeps the channels in order.                   *)
LEMMA UnicastInOrder ==
  ASSUME up \subseteq Peers,
         NEW c, NEW n \in Nat, NEW N \in {n, n + 1}, NEW K,
         ChannelsInOrder(c, n, K), KnownPings(K, n),
         NEW p \in Peers, NEW q, NEW msgs, q \in up => NewMessages(p, q, msgs, n, N)
  PROVE  ChannelsInOrder(SendUnicastMessageToPeer(c, p, q, msgs), N, K)
<1> DEFINE d == SendUnicastMessageToPeer(c, p, q, msgs)
<1>1. CASE q \notin up
  BY <1>1, ChannelsLater DEF SendUnicastMessageToPeer
<1>2. CASE q \in up
  <2>1. DOMAIN c = Peers /\ \A a \in Peers : DOMAIN c[a] = Peers
    BY DEF ChannelsInOrder
  <2>2. d = [c EXCEPT ![p][q] = @ \o msgs]
    BY <1>2 DEF SendUnicastMessageToPeer
  <2>3. /\ DOMAIN d = Peers /\ \A a \in Peers : DOMAIN d[a] = Peers
        /\ d[p][q] = c[p][q] \o msgs
        /\ \A a, b \in Peers : a # p \/ b # q => d[a][b] = c[a][b]
    BY <1>2, <2>1, <2>2
  <2> HIDE DEF d
  <2>4. GoodChannel(p, q, c[p][q], n)
    BY <1>2 DEF ChannelsInOrder
  <2>5. /\ GoodChannel(p, q, d[p][q], N)
        /\ \A k \in K : NoneOlder(c[p][q], k) => NoneOlder(d[p][q], k)
    <3>1. /\ GoodChannel(p, q, c[p][q] \o msgs, N)
          /\ \A k \in K : NoneOlder(c[p][q], k) => NoneOlder(c[p][q] \o msgs, k)
      BY <1>2, <2>4, NewOnChannel
    <3> QED
      BY <2>3, <3>1
  <2>6. \A a, b \in Peers :
          \/ d[a][b] = c[a][b]
          \/ /\ GoodChannel(a, b, d[a][b], N)
             /\ \A k \in K : NoneOlder(c[a][b], k) => NoneOlder(d[a][b], k)
    BY <2>3, <2>5
  <2>7. ChannelsInOrder(d, N, K)
    BY <2>3, <2>6, ChannelsReplaced DEF KnownPings
  <2> QED
    BY <2>7 DEF d
<1> QED
  BY <1>1, <1>2

(* A message on its own.                                                   *)
LEMMA OneMessage ==
  ASSUME NEW m
  PROVE  IsSequence(<<m>>) /\ DOMAIN <<m>> = {1} /\ <<m>>[1] = m
<1>1. <<m>> \in Seq({m}) /\ Len(<<m>>) = 1
  OBVIOUS
<1>2. IsSequence(<<m>>)
  BY <1>1, SequenceIntro
<1>3. DOMAIN <<m>> = {1} /\ <<m>>[1] = m
  OBVIOUS
<1> QED
  BY <1>2, <1>3

(* A message that is neither an update nor local data can always be sent.  *)
LEMMA PlainMessage ==
  ASSUME NEW m, m.type \notin {"update", "localData"}, NEW p, NEW q, NEW n, NEW N
  PROVE  NewMessages(p, q, <<m>>, n, N)
BY OneMessage DEF NewMessages, GoodMessage, IsRequest

(* SendUnicastMessageToAllPeers keeps the channels in order.               *)
LEMMA MulticastInOrder ==
  ASSUME NEW c, NEW n \in Nat, NEW N \in {n, n + 1}, NEW K,
         ChannelsInOrder(c, n, K), KnownPings(K, n),
         NEW p \in Peers, NEW to, NEW m, m.type \notin {"update", "localData"}
  PROVE  ChannelsInOrder(SendUnicastMessageToAllPeers(c, p, to, m), N, K)
<1> DEFINE d == SendUnicastMessageToAllPeers(c, p, to, m)
<1>1. DOMAIN c = Peers /\ \A a \in Peers : DOMAIN c[a] = Peers
  BY DEF ChannelsInOrder
<1>2. d = [c EXCEPT ![p] = [q \in Peers |-> IF q \in to \cap up THEN Append(c[p][q], m)
                                             ELSE c[p][q]]]
  BY DEF SendUnicastMessageToAllPeers
<1>3. /\ DOMAIN d = Peers /\ \A a \in Peers : DOMAIN d[a] = Peers
      /\ \A b \in Peers : d[p][b] = Append(c[p][b], m) \/ d[p][b] = c[p][b]
      /\ \A a, b \in Peers : a # p => d[a][b] = c[a][b]
  BY <1>1, <1>2
<1> HIDE DEF d
<1>4. ASSUME NEW b \in Peers, d[p][b] = Append(c[p][b], m)
      PROVE  /\ GoodChannel(p, b, d[p][b], N)
             /\ \A k \in K : NoneOlder(c[p][b], k) => NoneOlder(d[p][b], k)
  <2>1. GoodChannel(p, b, c[p][b], n)
    BY DEF ChannelsInOrder
  <2>2. NewMessages(p, b, <<m>>, n, N)
    BY PlainMessage
  <2>3. Append(c[p][b], m) = c[p][b] \o <<m>>
    <3> DEFINE s == c[p][b]
               S == ToSet(s) \cup {m}
    <3>1. s \in Seq(S) /\ m \in S
      BY <2>1, SeqMonotonic DEF GoodChannel, IsSequence
    <3> HIDE DEF s, S
    <3>2. Append(s, m) = s \o <<m>>
      BY <3>1, AppendIsConcat
    <3> QED
      BY <3>2 DEF s
  <2>4. /\ GoodChannel(p, b, c[p][b] \o <<m>>, N)
        /\ \A k \in K : NoneOlder(c[p][b], k) => NoneOlder(c[p][b] \o <<m>>, k)
    BY <2>1, <2>2, NewOnChannel
  <2> QED
    BY <1>4, <2>3, <2>4
<1>5. \A a, b \in Peers :
        \/ d[a][b] = c[a][b]
        \/ /\ GoodChannel(a, b, d[a][b], N)
           /\ \A k \in K : NoneOlder(c[a][b], k) => NoneOlder(d[a][b], k)
  BY <1>3, <1>4
<1>6. ChannelsInOrder(d, N, K)
  BY <1>3, <1>5, ChannelsReplaced DEF KnownPings
<1> QED
  BY <1>6 DEF d

(* SendRequestToSeniorPeer keeps the channels in order, for an operation   *)
(* of a client, which is the next one, or for the peer itself.             *)
LEMMA RequestInOrder ==
  ASSUME up \subseteq Peers,
         NEW c, NEW n \in Nat, NEW N \in {n, n + 1}, NEW K,
         ChannelsInOrder(c, n, K), KnownPings(K, n),
         NEW p \in Peers, NEW id \in {0, n + 1}, id <= N,
         NEW updates, IsSequence(updates),
         \A i \in DOMAIN updates :
            updates[i].op = "ping" => updates[i].to = senior[p] /\ id # 0
  PROVE  ChannelsInOrder(SendRequestToSeniorPeer(c, p, id, updates), N, K)
<1> DEFINE msgs == [i \in DOMAIN updates |-> Update(p, id, updates[i])]
<1>1. CASE senior[p] = NoPeer
  BY <1>1, ChannelsLater DEF SendRequestToSeniorPeer
<1>2. CASE senior[p] # NoPeer
  <2>1. DOMAIN updates = 1 .. Len(updates) /\ Len(updates) \in Nat
    BY SequenceFacts
  <2>2. DOMAIN msgs = 1 .. Len(updates) /\ \A i \in DOMAIN msgs : msgs[i] = Update(p, id, updates[i])
    BY <2>1
  <2>3. IsSequence(msgs)
    <3>1. msgs = [i \in 1 .. Len(updates) |-> msgs[i]]
      BY <2>1
    <3> HIDE DEF msgs
    <3> QED
      BY <2>1, <2>2, <3>1, ListFacts
  <2>4. SendRequestToSeniorPeer(c, p, id, updates) = SendUnicastMessageToPeer(c, p, senior[p], msgs)
    BY <1>2 DEF SendRequestToSeniorPeer
  <2> HIDE DEF msgs
  <2>5. ASSUME NEW i \in DOMAIN msgs
        PROVE  /\ GoodMessage(p, senior[p], msgs[i], N)
               /\ IsRequest(msgs[i]) => msgs[i].id = n + 1
    <3>1. /\ msgs[i].type = "update" /\ msgs[i].src = p /\ msgs[i].id = id
          /\ msgs[i].update = updates[i]
      BY <2>2, <2>5 DEF Update
    <3>2. i \in DOMAIN updates
      BY <2>1, <2>2, <2>5
    <3> QED
      BY <3>1, <3>2 DEF GoodMessage, IsRequest
  <2>6. NewMessages(p, senior[p], msgs, n, N)
    BY <2>3, <2>5 DEF NewMessages
  <2> QED
    BY <2>4, <2>6, UnicastInOrder
<1> QED
  BY <1>1, <1>2

(* The channels without the message that p has taken from r.               *)
LEMMA TakenInOrder ==
  ASSUME NEW c, NEW n \in Nat, NEW K, ChannelsInOrder(c, n, K), KnownPings(K, n),
         NEW r \in Peers, NEW p \in Peers, c[r][p] # <<>>
  PROVE  ChannelsInOrder([c EXCEPT ![r][p] = Tail(@)], n, K)
<1> DEFINE d == [c EXCEPT ![r][p] = Tail(@)]
<1>1. DOMAIN c = Peers /\ \A a \in Peers : DOMAIN c[a] = Peers
  BY DEF ChannelsInOrder
<1>2. /\ DOMAIN d = Peers /\ \A a \in Peers : DOMAIN d[a] = Peers
      /\ d[r][p] = Tail(c[r][p])
      /\ \A a, b \in Peers : a # r \/ b # p => d[a][b] = c[a][b]
  BY <1>1
<1> HIDE DEF d
<1>3. GoodChannel(r, p, c[r][p], n)
  BY DEF ChannelsInOrder
<1>4. /\ GoodChannel(r, p, d[r][p], n)
      /\ \A k \in K : NoneOlder(c[r][p], k) => NoneOlder(d[r][p], k)
  BY <1>2, <1>3, ShorterChannel
<1>5. \A a, b \in Peers :
        \/ d[a][b] = c[a][b]
        \/ /\ GoodChannel(a, b, d[a][b], n)
           /\ \A k \in K : NoneOlder(c[a][b], k) => NoneOlder(d[a][b], k)
  BY <1>2, <1>4
<1>6. n \in {n, n + 1} /\ \A k \in K : k.peer \in Peers /\ k.to \in Peers
  BY DEF KnownPings
<1>7. ChannelsInOrder(d, n, K)
  BY <1>2, <1>5, <1>6, ChannelsReplaced
<1> QED
  BY <1>7 DEF d

(* Channels may be emptied at any time: SessionsEnded and Crash.           *)
LEMMA EmptiedInOrder ==
  ASSUME NEW c, NEW d, NEW n \in Nat, NEW K, ChannelsInOrder(c, n, K), KnownPings(K, n),
         DOMAIN d = Peers, \A a \in Peers : DOMAIN d[a] = Peers,
         \A a, b \in Peers : d[a][b] = c[a][b] \/ d[a][b] = <<>>
  PROVE  ChannelsInOrder(d, n, K)
<1>1. \A a, b \in Peers :
        \/ d[a][b] = c[a][b]
        \/ /\ GoodChannel(a, b, d[a][b], n)
           /\ \A k \in K : NoneOlder(c[a][b], k) => NoneOlder(d[a][b], k)
  BY EmptyChannel
<1> QED
  BY <1>1, ChannelsReplaced DEF KnownPings

(* A pair of updates, and three of them.                                   *)
LEMMA TwoMessages ==
  ASSUME NEW a, NEW b
  PROVE  IsSequence(<<a, b>>) /\ DOMAIN <<a, b>> = {1, 2} /\ <<a, b>>[1] = a /\ <<a, b>>[2] = b
<1>1. <<a, b>> \in Seq({a, b})
  OBVIOUS
<1>2. IsSequence(<<a, b>>)
  BY <1>1, SequenceIntro
<1>3. DOMAIN <<a, b>> = {1, 2} /\ <<a, b>>[1] = a /\ <<a, b>>[2] = b
  OBVIOUS
<1> QED
  BY <1>2, <1>3

(* The three deletions of a session that detaches.                         *)
LEMMA ThreeMessages ==
  ASSUME NEW a, NEW b, NEW c
  PROVE  /\ IsSequence(<<a, b, c>>) /\ DOMAIN <<a, b, c>> = {1, 2, 3}
         /\ <<a, b, c>>[1] = a /\ <<a, b, c>>[2] = b /\ <<a, b, c>>[3] = c
<1>1. <<a, b, c>> \in Seq({a, b, c})
  OBVIOUS
<1>2. IsSequence(<<a, b, c>>)
  BY <1>1, SequenceIntro
<1>3. /\ DOMAIN <<a, b, c>> = {1, 2, 3}
      /\ <<a, b, c>>[1] = a /\ <<a, b, c>>[2] = b /\ <<a, b, c>>[3] = c
  OBVIOUS
<1> QED
  BY <1>2, <1>3

---------------------------------------------------------------------------
(* Steps that execute nothing and change nobody's view of the others.      *)

(* What the proofs about channels need of the invariant.                   *)
LEMMA InvariantFacts ==
  ASSUME PongInvariant
  PROVE  /\ up \subseteq Peers /\ budget.done \in Nat
         /\ ChannelsInOrder(chan, budget.done, PingsSeen)
         /\ KnownPings(PingsSeen, budget.done)
         /\ \A p \in Peers : senior[p] \in Peers \cup {NoPeer}
         /\ IsFiniteSet(Sessions) /\ attached \subseteq Sessions
<1>1. KnownPings(PingsSeen, budget.done)
  BY DEF PongInvariant, PingsReachedTheSenior, KnownPings, TypeOK
<1> QED
  BY <1>1, PeersAssumption DEF PongInvariant, TypeOK

(* A step that only sends messages, of an operation or not.                *)
LEMMA QuietStep ==
  ASSUME PongInvariant, UNCHANGED <<up, online, senior, log, ponged>>,
         attached' \subseteq Sessions,
         DOMAIN budget' = DOMAIN budget, budget'.done \in {budget.done, budget.done + 1},
         ChannelsInOrder(chan', budget'.done, PingsSeen)
  PROVE  PongInvariant'
<1>1. PingsSeen' = PingsSeen
  BY DEF PingsSeen, IsPing, PingIn
<1>2. budget.done \in Nat /\ budget'.done \in Nat
  BY InvariantFacts
<1>3. TypeOK'
  BY <1>2 DEF PongInvariant, TypeOK, ChannelsInOrder
<1>4. SeniorsAreEldest'
  BY DEF PongInvariant, SeniorsAreEldest
<1>5. ChannelsInOrder(chan, budget.done, PingsSeen)'
  BY <1>1 DEF ChannelsInOrder
<1>6. PingsReachedTheSenior'
  <2>1. 1..budget.done \subseteq 1..budget'.done
    BY <1>2
  <2> QED
    BY <1>1, <2>1 DEF PongInvariant, PingsReachedTheSenior
<1>7. PingsComeLast'
  BY DEF PongInvariant, PingsComeLast
<1>8. PongsAreTrue'
  BY DEF PongInvariant, PongsAreTrue
<1> QED
  BY <1>3, <1>4, <1>5, <1>6, <1>7, <1>8 DEF PongInvariant

(* An operation of a client counts.                                        *)
LEMMA ClientCounts ==
  ASSUME PongInvariant, NEW p, NEW kind, Client(p, kind)
  PROVE  /\ DOMAIN budget' = DOMAIN budget
         /\ budget'.done = budget.done + 1
         /\ p \in up /\ p \in Peers
BY DEF PongInvariant, TypeOK, Client, Serving

(* A client's request.                                                     *)
LEMMA ClientRequest ==
  ASSUME PongInvariant, NEW p, NEW kind, Client(p, kind),
         NEW updates, IsSequence(updates),
         \A i \in DOMAIN updates : updates[i].op = "ping" => updates[i].to = senior[p],
         chan' = SendRequestToSeniorPeer(chan, p, budget.done + 1, updates),
         UNCHANGED <<up, online, senior, log, ponged>>, attached' \subseteq Sessions
  PROVE  PongInvariant'
<1> DEFINE n == budget.done
           N == n + 1
           id == n + 1
<1>1. n \in Nat /\ N \in {n, n + 1} /\ id \in {0, n + 1} /\ id <= N /\ id # 0
  BY InvariantFacts
<1>2. /\ up \subseteq Peers /\ ChannelsInOrder(chan, n, PingsSeen) /\ KnownPings(PingsSeen, n)
      /\ p \in Peers
  BY InvariantFacts, ClientCounts
<1>3. chan' = SendRequestToSeniorPeer(chan, p, id, updates)
  OBVIOUS
<1>4. budget'.done = N /\ DOMAIN budget' = DOMAIN budget
  BY ClientCounts
<1>5. budget'.done \in {budget.done, budget.done + 1}
  BY <1>4
<1> HIDE DEF n, N, id
<1>6. ChannelsInOrder(chan', N, PingsSeen)
  BY <1>1, <1>2, <1>3, RequestInOrder
<1> QED
  BY <1>4, <1>5, <1>6, QuietStep

(* UploadNodeValue and RequestDeleteNodes: one request.                    *)
LEMMA UploadStep ==
  ASSUME PongInvariant, NEW s, NEW n, NEW v, UploadNodeValue(s, n, v)
  PROVE  PongInvariant'
<1> DEFINE u == Upload(SharedPath(s, <<n>>), v)
<1>1. /\ Client(Home[s], "upload")
      /\ chan' = SendRequestToSeniorPeer(chan, Home[s], budget.done + 1, <<u>>)
      /\ UNCHANGED <<up, online, senior, log, ponged, attached>>
  BY DEF UploadNodeValue, Request, viewVars
<1>2. u.op = "put"
  BY DEF Upload
<1> HIDE DEF u
<1>3. IsSequence(<<u>>) /\ \A i \in DOMAIN <<u>> : <<u>>[i].op # "ping"
  BY <1>2, OneMessage
<1> QED
  BY <1>1, <1>3, ClientRequest, InvariantFacts

(* A deletion.                                                             *)
LEMMA DeleteStep ==
  ASSUME PongInvariant, NEW s, NEW n, RequestDeleteNodes(s, n)
  PROVE  PongInvariant'
<1> DEFINE u == Delete({SharedPath(s, <<n>>)})
<1>1. /\ Client(Home[s], "delete")
      /\ chan' = SendRequestToSeniorPeer(chan, Home[s], budget.done + 1, <<u>>)
      /\ UNCHANGED <<up, online, senior, log, ponged, attached>>
  BY DEF RequestDeleteNodes, Request, viewVars
<1>2. u.op = "delete"
  BY DEF Delete
<1> HIDE DEF u
<1>3. IsSequence(<<u>>) /\ \A i \in DOMAIN <<u>> : <<u>>[i].op # "ping"
  BY <1>2, OneMessage
<1> QED
  BY <1>1, <1>3, ClientRequest, InvariantFacts

(* UploadNodeSubtree: a deletion and an upload.                            *)
LEMMA SubtreeStep ==
  ASSUME PongInvariant, NEW s, NEW v, UploadNodeSubtree(s, v)
  PROVE  PongInvariant'
<1> DEFINE u == Delete({SharedPath(s, <<>>)})
           w == UploadSubtree(SharedPath(s, <<>>), [n \in Nodes |-> v])
<1>1. /\ Client(Home[s], "subtree")
      /\ chan' = SendRequestToSeniorPeer(chan, Home[s], budget.done + 1, <<u, w>>)
      /\ UNCHANGED <<up, online, senior, log, ponged, attached>>
  BY DEF UploadNodeSubtree, Request, viewVars
<1>2. u.op = "delete" /\ w.op = "putAll"
  BY DEF Delete, UploadSubtree
<1> HIDE DEF u, w
<1>3. IsSequence(<<u, w>>) /\ \A i \in DOMAIN <<u, w>> : <<u, w>>[i].op # "ping"
  BY <1>2, TwoMessages
<1> QED
  BY <1>1, <1>3, ClientRequest, InvariantFacts

(* ServerSideMessageTreeSessionIsDetaching: a deletion and two prunings.   *)
LEMMA DetachStep ==
  ASSUME PongInvariant, NEW s, ServerSideMessageTreeSessionIsDetaching(s)
  PROVE  PongInvariant'
<1> DEFINE path == SharedPath(s, <<>>)
           u == Delete({path})
           v == DeleteIfNoKids(SubSeq(path, 1, 2))
           w == DeleteIfNoKids(SubSeq(path, 1, 1))
<1>1. /\ Client(Home[s], "detach")
      /\ chan' = SendRequestToSeniorPeer(chan, Home[s], budget.done + 1, <<u, v, w>>)
      /\ UNCHANGED <<up, online, senior, log, ponged>>
      /\ attached' = attached \ {s}
  BY DEF ServerSideMessageTreeSessionIsDetaching, viewVars, ghostVars
<1>2. u.op = "delete" /\ v.op = "prune" /\ w.op = "prune"
  BY DEF Delete, DeleteIfNoKids
<1> HIDE DEF u, v, w
<1>3. IsSequence(<<u, v, w>>) /\ \A i \in DOMAIN <<u, v, w>> : <<u, v, w>>[i].op # "ping"
  BY <1>2, ThreeMessages
<1>4. attached' \subseteq Sessions
  BY <1>1, InvariantFacts
<1> QED
  BY <1>1, <1>3, <1>4, ClientRequest

(* PingSeniorPeer: the ping names the peer it is sent to.                  *)
LEMMA PingStep ==
  ASSUME PongInvariant, NEW p, PingSeniorPeer(p)
  PROVE  PongInvariant'
<1> DEFINE u == Ping(senior[p])
<1>1. /\ Client(p, "ping")
      /\ chan' = SendRequestToSeniorPeer(chan, p, budget.done + 1, <<u>>)
      /\ UNCHANGED <<up, online, senior, log, ponged, attached>>
  BY DEF PingSeniorPeer, Request, viewVars, clientVars
<1>2. u.to = senior[p]
  BY DEF Ping
<1> HIDE DEF u
<1>3. IsSequence(<<u>>) /\ \A i \in DOMAIN <<u>> : <<u>>[i].to = senior[p]
  BY <1>2, OneMessage
<1> QED
  BY <1>1, <1>3, ClientRequest, InvariantFacts

(* An operation that sends messages which are no updates, or none.         *)
LEMMA ClientMessage ==
  ASSUME PongInvariant, NEW p, NEW kind, Client(p, kind),
         \/ chan' = chan
         \/ \E q, m : /\ m.type \notin {"update", "localData"}
                      /\ chan' = SendUnicastMessageToPeer(chan, p, q, <<m>>)
         \/ \E to, m : /\ m.type \notin {"update", "localData"}
                       /\ chan' = SendUnicastMessageToAllPeers(chan, p, to, m),
         UNCHANGED <<up, online, senior, log, ponged>>, attached' \subseteq Sessions
  PROVE  PongInvariant'
<1> DEFINE n == budget.done
           N == n + 1
<1>1. n \in Nat /\ N \in {n, n + 1} /\ N = n + 1
  BY InvariantFacts
<1>2. /\ up \subseteq Peers /\ ChannelsInOrder(chan, n, PingsSeen) /\ KnownPings(PingsSeen, n)
      /\ p \in Peers
  BY InvariantFacts, ClientCounts
<1>3. budget'.done = N /\ DOMAIN budget' = DOMAIN budget
  BY ClientCounts
<1>4. budget'.done \in {budget.done, budget.done + 1}
  BY <1>3
<1> HIDE DEF n, N
<1>5. CASE chan' = chan
  <2>1. ChannelsInOrder(chan, N, PingsSeen)
    BY <1>1, <1>2, ChannelsLater
  <2> QED
    BY <1>3, <1>4, <1>5, <2>1, QuietStep
<1>6. ASSUME NEW q, NEW m, m.type \notin {"update", "localData"},
             chan' = SendUnicastMessageToPeer(chan, p, q, <<m>>)
      PROVE  PongInvariant'
  <2>1. NewMessages(p, q, <<m>>, n, N)
    BY <1>6, PlainMessage
  <2>2. ChannelsInOrder(SendUnicastMessageToPeer(chan, p, q, <<m>>), N, PingsSeen)
    BY <1>1, <1>2, <2>1, UnicastInOrder
  <2> QED
    BY <1>3, <1>4, <1>6, <2>2, QuietStep
<1>7. ASSUME NEW to, NEW m, m.type \notin {"update", "localData"},
             chan' = SendUnicastMessageToAllPeers(chan, p, to, m)
      PROVE  PongInvariant'
  <2>1. ChannelsInOrder(SendUnicastMessageToAllPeers(chan, p, to, m), N, PingsSeen)
    BY <1>1, <1>2, <1>7, MulticastInOrder
  <2> QED
    BY <1>3, <1>4, <1>7, <2>1, QuietStep
<1> QED
  BY <1>5, <1>6, <1>7

(* SessionAttached, SendMessageToSeniorPeer, SendMessageToSubscriber and   *)
(* AnswerSubscriber.                                                       *)
LEMMA AttachStep ==
  ASSUME PongInvariant, NEW s \in Sessions, SessionAttached(s)
  PROVE  PongInvariant'
<1>1. /\ Client(Home[s], "attach") /\ chan' = chan
      /\ UNCHANGED <<up, online, senior, log, ponged>> /\ attached' = attached \cup {s}
  BY DEF SessionAttached, viewVars, ghostVars
<1>2. attached' \subseteq Sessions
  BY <1>1, InvariantFacts
<1> QED
  BY <1>1, <1>2, ClientMessage

(* A message to the senior peer.                                           *)
LEMMA ToSeniorStep ==
  ASSUME PongInvariant, NEW p, SendMessageToSeniorPeer(p)
  PROVE  PongInvariant'
<1> DEFINE m == [type |-> "toSenior", src |-> p, tag |-> budget.done + 1]
<1>1. /\ Client(p, "toSenior") /\ chan' = SendUnicastMessageToPeer(chan, p, senior[p], <<m>>)
      /\ UNCHANGED <<up, online, senior, log, ponged, attached>>
  BY DEF SendMessageToSeniorPeer, viewVars, ghostVars, clientVars
<1>2. m.type \notin {"update", "localData"}
  OBVIOUS
<1> HIDE DEF m
<1>3. attached' \subseteq Sessions
  BY <1>1, InvariantFacts
<1> QED
  BY <1>1, <1>2, <1>3, ClientMessage

(* A message to subscribers.                                               *)
LEMMA ToSubscriberStep ==
  ASSUME PongInvariant, NEW p, NEW n, NEW beyond, SendMessageToSubscriber(p, n, beyond)
  PROVE  PongInvariant'
<1> DEFINE m == [type |-> "toSubscriber", node |-> n, beyond |-> beyond, src |-> p,
                 tag |-> budget.done + 1]
           to == IF beyond THEN online[p] ELSE GetPerClientPeerIDsForPath(p, n)
<1>1. /\ Client(p, "toSubscriber") /\ chan' = SendUnicastMessageToAllPeers(chan, p, to, m)
      /\ UNCHANGED <<up, online, senior, log, ponged, attached>>
  BY DEF SendMessageToSubscriber, viewVars, ghostVars, clientVars
<1>2. m.type \notin {"update", "localData"}
  OBVIOUS
<1> HIDE DEF m, to
<1>3. attached' \subseteq Sessions
  BY <1>1, InvariantFacts
<1> QED
  BY <1>1, <1>2, <1>3, ClientMessage

(* An answer to a subscriber.                                              *)
LEMMA AnswerStep ==
  ASSUME PongInvariant, NEW p, AnswerSubscriber(p)
  PROVE  PongInvariant'
<1>1. PICK h \in heard :
        /\ Client(p, "answer")
        /\ chan' = SendUnicastMessageToPeer(chan, p, h[2].src,
                     <<[type |-> "toReturnAddress", peer |-> h[2].src, tag |-> h[2].tag]>>)
        /\ UNCHANGED <<viewVars, pulsing, clientVars, log, tree, ghostVars>>
  BY DEF AnswerSubscriber
<1> DEFINE m == [type |-> "toReturnAddress", peer |-> h[2].src, tag |-> h[2].tag]
<1>2. chan' = SendUnicastMessageToPeer(chan, p, h[2].src, <<m>>)
  BY <1>1
<1>3. m.type \notin {"update", "localData"}
  OBVIOUS
<1> HIDE DEF m
<1>4. UNCHANGED <<up, online, senior, log, ponged, attached>>
  BY <1>1 DEF viewVars, ghostVars, clientVars
<1>5. attached' \subseteq Sessions
  BY <1>4, InvariantFacts
<1> QED
  BY <1>1, <1>2, <1>3, <1>4, <1>5, ClientMessage

(* All steps of clients.                                                   *)
LEMMA ClientStep ==
  ASSUME PongInvariant, ClientNext
  PROVE  PongInvariant'
BY UploadStep, DeleteStep, SubtreeStep, DetachStep, PingStep, AttachStep, ToSeniorStep,
   ToSubscriberStep, AnswerStep DEF ClientNext

---------------------------------------------------------------------------
(* Messages from peers that are not executed.                              *)

(* A step that sends messages, but is no operation of a client.            *)
LEMMA QuietAnswer ==
  ASSUME PongInvariant, UNCHANGED <<up, online, senior, log, ponged, attached, budget>>,
         ChannelsInOrder(chan', budget.done, PingsSeen)
  PROVE  PongInvariant'
<1>1. attached' \subseteq Sessions /\ budget'.done = budget.done
  BY InvariantFacts
<1> QED
  BY <1>1, QuietStep

(* What a handler has: the channels without the message, and the message.  *)
Handling(p, r, m, c) ==
  /\ p \in Peers /\ r \in Peers
  /\ ChannelsInOrder(c, budget.done, PingsSeen)
  /\ GoodMessage(r, p, m, budget.done)

(* CLIENTDATA_COMMAND_UPLOADLOCALDATA: the local data is finite.           *)
LEMMA UploadLocalDataStep ==
  ASSUME PongInvariant, NEW p, NEW r, NEW m, NEW c, Handling(p, r, m, c),
         UploadLocalDataReceived(p, r, m, c),
         UNCHANGED <<up, online, senior, attached, budget>>
  PROVE  PongInvariant'
<1> DEFINE mine == {s \in attached : Home[s] = p}
           data == [s \in mine |-> local[s]]
           msg == [type |-> "localData", data |-> data]
           n == budget.done
<1>1. /\ chan' = c \/ chan' = SendUnicastMessageToPeer(c, p, r, <<msg>>)
      /\ UNCHANGED <<log, ponged>>
  BY DEF UploadLocalDataReceived
<1>2. IsFiniteSet(mine)
  <2>1. mine \subseteq Sessions /\ IsFiniteSet(Sessions)
    BY InvariantFacts
  <2> QED
    BY <2>1, FS_Subset
<1>3. msg.type = "localData" /\ IsFiniteSet(DOMAIN msg.data)
  BY <1>2
<1>4. /\ n \in Nat /\ n \in {n, n + 1} /\ up \subseteq Peers /\ KnownPings(PingsSeen, n)
      /\ ChannelsInOrder(c, n, PingsSeen) /\ p \in Peers
  BY InvariantFacts DEF Handling
<1> HIDE DEF msg, n
<1>5. NewMessages(p, r, <<msg>>, n, n)
  BY <1>3, OneMessage DEF NewMessages, GoodMessage, IsRequest
<1>6. ChannelsInOrder(SendUnicastMessageToPeer(c, p, r, <<msg>>), n, PingsSeen)
  BY <1>4, <1>5, UnicastInOrder
<1>7. ChannelsInOrder(chan', n, PingsSeen)
  BY <1>1, <1>4, <1>6
<1>8. ChannelsInOrder(chan', budget.done, PingsSeen)
  BY <1>7 DEF n
<1> QED
  BY <1>1, <1>8, QuietAnswer

(* Requests of the peer itself.                                            *)
LEMMA OwnRequest ==
  ASSUME PongInvariant, NEW p \in Peers, NEW c, ChannelsInOrder(c, budget.done, PingsSeen),
         NEW updates, IsSequence(updates), \A i \in DOMAIN updates : updates[i].op # "ping"
  PROVE  ChannelsInOrder(SendRequestToSeniorPeer(c, p, 0, updates), budget.done, PingsSeen)
<1> DEFINE n == budget.done
           id == 0
<1>1. /\ n \in Nat /\ n \in {n, n + 1} /\ id \in {0, n + 1} /\ id <= n
      /\ up \subseteq Peers /\ KnownPings(PingsSeen, n) /\ ChannelsInOrder(c, n, PingsSeen)
  BY InvariantFacts
<1> HIDE DEF n, id
<1>2. ChannelsInOrder(SendRequestToSeniorPeer(c, p, id, updates), n, PingsSeen)
  BY <1>1, RequestInOrder
<1> QED
  BY <1>2 DEF n, id

(* CLIENTDATA_COMMAND_LOCALDATA: one request for each session.             *)
LEMMA LocalDataStep ==
  ASSUME PongInvariant, NEW p, NEW r, NEW m, NEW c, Handling(p, r, m, c),
         LocalDataReceived(p, m, c),
         UNCHANGED <<up, online, senior, attached, budget>>
  PROVE  PongInvariant'
<1> DEFINE num == Cardinality(DOMAIN m.data)
           uploads == [i \in 1 .. num |->
                         LET s == SetToSeq(DOMAIN m.data)[i]
                         IN  UploadSubtree(SharedPath(s, <<>>), m.data[s])]
<1>1. /\ m.type = "localData"
      /\ chan' = c \/ chan' = SendRequestToSeniorPeer(c, p, 0, uploads)
      /\ UNCHANGED <<log, ponged>>
  BY DEF LocalDataReceived, ghostVars
<1>2. num \in Nat
  <2>1. IsFiniteSet(DOMAIN m.data)
    BY <1>1 DEF Handling, GoodMessage
  <2> QED
    BY <2>1, FS_CardinalityType
<1>3. /\ DOMAIN uploads = 1 .. num
      /\ \A i \in 1 .. num : uploads[i].op = "putAll"
      /\ uploads = [i \in 1 .. num |-> uploads[i]]
  BY DEF UploadSubtree
<1> HIDE DEF uploads, num
<1>4. IsSequence(uploads)
  BY <1>2, <1>3, ListFacts
<1>5. ChannelsInOrder(SendRequestToSeniorPeer(c, p, 0, uploads), budget.done, PingsSeen)
  BY <1>3, <1>4, OwnRequest DEF Handling
<1>6. ChannelsInOrder(chan', budget.done, PingsSeen)
  BY <1>1, <1>5 DEF Handling
<1> QED
  BY <1>1, <1>6, QuietAnswer

(* A message to the senior peer is answered, or dropped.                   *)
LEMMA MessageToSeniorPeerStep ==
  ASSUME PongInvariant, NEW p, NEW r, NEW m, NEW c, Handling(p, r, m, c),
         MessageToSeniorPeerReceived(p, m, c),
         UNCHANGED <<up, online, senior, attached, budget>>
  PROVE  PongInvariant'
<1> DEFINE msg == [type |-> "fromSenior", tag |-> m.tag]
           n == budget.done
<1>1. /\ chan' = c \/ chan' = SendUnicastMessageToPeer(c, p, m.src, <<msg>>)
      /\ UNCHANGED <<log, ponged>>
  BY DEF MessageToSeniorPeerReceived, ghostVars
<1>2. msg.type \notin {"update", "localData"}
  OBVIOUS
<1>3. /\ n \in Nat /\ n \in {n, n + 1} /\ up \subseteq Peers /\ KnownPings(PingsSeen, n)
      /\ ChannelsInOrder(c, n, PingsSeen) /\ p \in Peers
  BY InvariantFacts DEF Handling
<1> HIDE DEF msg, n
<1>4. NewMessages(p, m.src, <<msg>>, n, n)
  BY <1>2, PlainMessage
<1>5. ChannelsInOrder(SendUnicastMessageToPeer(c, p, m.src, <<msg>>), n, PingsSeen)
  BY <1>3, <1>4, UnicastInOrder
<1>6. ChannelsInOrder(chan', budget.done, PingsSeen)
  BY <1>1, <1>3, <1>5 DEF n
<1> QED
  BY <1>1, <1>6, QuietAnswer

(* A message for subscribers.                                              *)
LEMMA MessageForSubscriberStep ==
  ASSUME PongInvariant, NEW p, NEW r, NEW m, NEW c, Handling(p, r, m, c),
         MessageForSubscriberReceived(p, m, c),
         UNCHANGED <<up, online, senior, attached, budget>>
  PROVE  PongInvariant'
<1>1. chan' = c /\ UNCHANGED <<log, ponged>>
  BY DEF MessageForSubscriberReceived
<1>2. ChannelsInOrder(chan', budget.done, PingsSeen)
  BY <1>1 DEF Handling
<1> QED
  BY <1>1, <1>2, QuietAnswer

---------------------------------------------------------------------------
(* Updates that are executed.                                              *)

(* The log of p, and those of the others, after p has executed m.          *)
LEMMA ExecutedFacts ==
  ASSUME TypeOK, NEW p \in Peers, NEW m, Execute(p, m)
  PROVE  /\ DOMAIN log' = Peers /\ \A a \in Peers : IsSequence(log'[a])
         /\ \A a \in Peers : a # p => log'[a] = log[a]
         /\ \A a \in Peers : \A i \in DOMAIN log[a] : i \in DOMAIN log'[a] /\ log'[a][i] = log[a][i]
         /\ Len(log[p]) \in Nat /\ DOMAIN log[p] = 1 .. Len(log[p])
         /\ DOMAIN log'[p] = 1 .. Len(log[p]) + 1 /\ log'[p][Len(log[p]) + 1] = m
         /\ \A x : x \in ToSet(log'[p]) => x \in ToSet(log[p]) \/ x = m
         /\ \A a \in Peers : ToSet(log[a]) \subseteq ToSet(log'[a])
<1> DEFINE L == log[p]
<1>1. DOMAIN log = Peers /\ \A a \in Peers : IsSequence(log[a])
  BY DEF TypeOK
<1>2. log' = [log EXCEPT ![p] = Append(L, m)]
  BY DEF Execute
<1>3. log'[p] = Append(L, m) /\ DOMAIN log' = Peers /\ \A a \in Peers : a # p => log'[a] = log[a]
  BY <1>1, <1>2
<1>4. Len(L) \in Nat /\ DOMAIN L = 1 .. Len(L)
  BY <1>1, SequenceFacts
<1>5. /\ IsSequence(log'[p]) /\ DOMAIN log'[p] = 1 .. Len(L) + 1
      /\ \A i \in DOMAIN log'[p] : log'[p][i] = IF i <= Len(L) THEN L[i] ELSE m
  <2>1. IsSequence(L)
    BY <1>1
  <2> HIDE DEF L
  <2> QED
    BY <1>3, <2>1, AppendFacts
<1>6. \A i \in DOMAIN L : i \in DOMAIN log'[p] /\ log'[p][i] = L[i]
  BY <1>4, <1>5
<1>7. log'[p][Len(L) + 1] = m
  BY <1>4, <1>5
<1>8. ASSUME NEW x, x \in ToSet(log'[p])
      PROVE  x \in ToSet(L) \/ x = m
  <2>1. PICK i \in DOMAIN log'[p] : x = log'[p][i]
    BY <1>8 DEF ToSet
  <2>2. CASE i <= Len(L)
    <3>1. i \in DOMAIN L /\ x = L[i]
      BY <1>4, <1>5, <2>1, <2>2
    <3> QED
      BY <3>1 DEF ToSet
  <2>3. CASE ~(i <= Len(L))
    BY <1>5, <2>1, <2>3
  <2> QED
    BY <2>2, <2>3
<1>9. \A a \in Peers : \A i \in DOMAIN log[a] : i \in DOMAIN log'[a] /\ log'[a][i] = log[a][i]
  BY <1>3, <1>6
<1>10. \A a \in Peers : ToSet(log[a]) \subseteq ToSet(log'[a])
  BY <1>9 DEF ToSet
<1> QED
  BY <1>1, <1>3, <1>4, <1>5, <1>7, <1>8, <1>9, <1>10

(* Pings in a log have been seen.                                          *)
LEMMA LoggedPings ==
  ASSUME NEW a \in Peers, NEW x \in ToSet(log[a]), IsPing(x)
  PROVE  PingIn(x) \in PingsSeen
BY DEF PingsSeen

(* After p has executed m, no other ping than that in m is new.            *)
LEMMA NewPings ==
  ASSUME TypeOK, NEW p \in Peers, NEW m, m.type = "update", Execute(p, m)
  PROVE  \A k \in PingsSeen' : k \in PingsSeen \/ (IsPing(m) /\ k = PingIn(m))
<1>1. ASSUME NEW k \in ponged'
      PROVE  k \in PingsSeen \/ (IsPing(m) /\ k = PingIn(m))
  BY <1>1 DEF Execute, Pong, PingsSeen, IsPing, PingIn
<1>2. ASSUME NEW a \in Peers, NEW x \in ToSet(log'[a]), IsPing(x)
      PROVE  PingIn(x) \in PingsSeen \/ (IsPing(m) /\ PingIn(x) = PingIn(m))
  <2>1. x \in ToSet(log[a]) \/ x = m
    BY <1>2, ExecutedFacts
  <2> QED
    BY <1>2, <2>1, LoggedPings
<1>3. \A k \in PingsSeen' : k \in ponged' \/ \E a \in Peers : \E x \in ToSet(log'[a]) : IsPing(x) /\ k = PingIn(x)
  BY DEF PingsSeen
<1> QED
  BY <1>1, <1>2, <1>3

(* A senior peer p executes the first of the messages from r: older        *)
(* requests of r than a ping it has executed cannot come any more.         *)
LEMMA SeniorExecutes ==
  ASSUME PongInvariant, NEW p \in Peers, NEW r \in Peers, chan[r][p] # <<>>,
         senior[p] = p, Head(chan[r][p]).type = "update",
         Execute(p, Head(chan[r][p])),
         chan' = [chan EXCEPT ![r][p] = Tail(@)],
         UNCHANGED <<up, online, senior, attached, budget>>
  PROVE  PongInvariant'
<1> DEFINE m == Head(chan[r][p])
           n == budget.done
<1>1. /\ n \in Nat /\ up \subseteq Peers /\ KnownPings(PingsSeen, n)
      /\ ChannelsInOrder(chan, n, PingsSeen)
  BY InvariantFacts
<1>2. GoodChannel(r, p, chan[r][p], n)
  BY <1>1 DEF ChannelsInOrder
<1>3. /\ GoodMessage(r, p, m, n)
      /\ \A i \in DOMAIN Tail(chan[r][p]) :
           IsRequest(m) /\ IsRequest(Tail(chan[r][p])[i]) => Tail(chan[r][p])[i].id >= m.id
  BY <1>2, ShorterChannel
<1>4. m.src = r /\ m.id \in 0..n /\ m.type = "update"
      /\ (m.update.op = "ping" => m.update.to = p /\ m.id # 0)
  BY <1>3 DEF GoodMessage
<1>5. ChannelsInOrder(chan', n, PingsSeen)
  BY <1>1, TakenInOrder
<1>6. chan'[r][p] = Tail(chan[r][p])
  BY <1>1 DEF ChannelsInOrder
<1>7. TypeOK
  BY DEF PongInvariant
<1>8. ASSUME NEW k \in PingsSeen, k.to = p, OlderThan(m, k)
      PROVE  FALSE
  <2>1. NoneOlder(chan[r][p], k)
    BY <1>1, <1>4, <1>8 DEF ChannelsInOrder, OlderThan
  <2>2. 1 \in DOMAIN chan[r][p] /\ chan[r][p][1] = m
    BY <1>2, TailFacts DEF GoodChannel
  <2>3. m.id >= k.id /\ k.id \in 0..n
    BY <1>1, <1>8, <2>1, <2>2 DEF NoneOlder, OlderThan, IsRequest, KnownPings
  <2> QED
    BY <1>4, <1>8, <2>3 DEF OlderThan
<1> HIDE DEF m, n
<1>9. Execute(p, m)
  BY DEF m
<1>10. /\ DOMAIN log' = Peers /\ \A a \in Peers : IsSequence(log'[a])
       /\ \A a \in Peers : a # p => log'[a] = log[a]
       /\ \A a \in Peers : \A i \in DOMAIN log[a] : i \in DOMAIN log'[a] /\ log'[a][i] = log[a][i]
       /\ Len(log[p]) \in Nat /\ DOMAIN log[p] = 1 .. Len(log[p])
       /\ DOMAIN log'[p] = 1 .. Len(log[p]) + 1 /\ log'[p][Len(log[p]) + 1] = m
       /\ \A x : x \in ToSet(log'[p]) => x \in ToSet(log[p]) \/ x = m
       /\ \A a \in Peers : ToSet(log[a]) \subseteq ToSet(log'[a])
  BY <1>7, <1>9, ExecutedFacts
<1>11. \A k \in PingsSeen' : k \in PingsSeen \/ (IsPing(m) /\ k = PingIn(m))
  BY <1>4, <1>7, <1>9, NewPings
<1>12. IsPing(m) => /\ PingIn(m).peer = r /\ PingIn(m).to = p /\ PingIn(m).id = m.id
                    /\ m.id \in 1..n /\ IsRequest(m)
  BY <1>1, <1>4 DEF IsPing, PingIn, IsRequest
<1>13. TypeOK'
  <2>1. \A a \in Peers : \A x \in ToSet(log'[a]) : x.type = "update"
    BY <1>4, <1>7, <1>10 DEF TypeOK
  <2> QED
    BY <1>1, <1>5, <1>7, <1>10, <2>1 DEF TypeOK, ChannelsInOrder, n
<1>14. SeniorsAreEldest'
  BY DEF PongInvariant, SeniorsAreEldest
<1>15. ChannelsInOrder(chan, budget.done, PingsSeen)'
  <2>1. ASSUME IsPing(m)
        PROVE  NoneOlder(chan'[r][p], PingIn(m))
    BY <1>3, <1>6, <1>12, <2>1 DEF NoneOlder, m
  <2>2. \A k \in PingsSeen' : NoneOlder(chan'[k.peer][k.to], k)
    BY <1>5, <1>11, <1>12, <2>1 DEF ChannelsInOrder
  <2> QED
    BY <1>5, <2>2 DEF ChannelsInOrder, n
<1>16. PingsReachedTheSenior'
  BY <1>11, <1>12 DEF PongInvariant, PingsReachedTheSenior, n
<1>17. PingsComeLast'
  <2> SUFFICES ASSUME NEW a \in Peers, NEW i \in DOMAIN log'[a], IsPing(log'[a][i]),
                      NEW x \in ToSet(log'[log'[a][i].update.to]),
                      OlderThan(x, PingIn(log'[a][i]))
               PROVE  \E j \in DOMAIN log'[a] : j < i /\ log'[a][j] = x
    BY DEF PingsComeLast
  <2> DEFINE y == log'[a][i]
  <2>1. PingIn(y).to = y.update.to /\ PingIn(y).peer = y.src /\ PingIn(y).id = y.id
    BY DEF PingIn
  <2>2. i \in DOMAIN log[a] \/ (a = p /\ i = Len(log[p]) + 1)
    BY <1>10
  <2>3. CASE i \in DOMAIN log[a]
    <3>1. y = log[a][i] /\ y \in ToSet(log[a])
      BY <1>10, <2>3 DEF ToSet
    <3>2. PingIn(y) \in PingsSeen
      BY <3>1, LoggedPings
    <3>3. y.update.to \in Peers
      BY <2>1, <3>2 DEF PongInvariant, PingsReachedTheSenior
    <3>4. x \in ToSet(log[y.update.to])
      BY <1>8, <1>10, <2>1, <3>2, <3>3
    <3>5. \E j \in DOMAIN log[a] : j < i /\ log[a][j] = x
      BY <2>3, <3>1, <3>4 DEF PongInvariant, PingsComeLast
    <3> QED
      BY <1>10, <3>5
  <2>4. CASE a = p /\ i = Len(log[p]) + 1
    <3>1. y = m
      BY <1>10, <2>4
    <3>2. x # m
      BY <1>4, <1>12, <3>1 DEF OlderThan
    <3>3. x \in ToSet(log[p])
      BY <1>10, <1>12, <2>1, <3>1, <3>2
    <3>4. PICK j \in DOMAIN log[p] : log[p][j] = x
      BY <3>3 DEF ToSet
    <3>5. j < i /\ j \in DOMAIN log'[a] /\ log'[a][j] = x
      BY <1>10, <2>4, <3>4
    <3> QED
      BY <3>5
  <2> QED
    BY <2>2, <2>3, <2>4
<1>18. PongsAreTrue'
  <2>1. ASSUME NEW k \in ponged, NEW x \in ToSet(log'[k.to]), OlderThan(x, k)
        PROVE  x \in ToSet(log[k.to]) /\ k.peer \in Peers
    <3>1. k \in PingsSeen /\ k.to \in Peers /\ k.peer \in Peers
      BY DEF PongInvariant, PingsReachedTheSenior, PingsSeen
    <3> QED
      BY <1>8, <1>10, <2>1, <3>1
  <2>2. \A k \in ponged' : k \in ponged \/ (k.peer = p /\ k.to = p)
    BY <1>4, <1>9 DEF Execute, Pong
  <2> QED
    BY <1>10, <2>1, <2>2 DEF PongInvariant, PongsAreTrue
<1> QED
  BY <1>13, <1>14, <1>15, <1>16, <1>17, <1>18 DEF PongInvariant

(* PrivateMessageReceivedFromPeer: p handles the first message from r.     *)
LEMMA HandlerStep ==
  ASSUME PongInvariant, NEW p \in Peers, NEW r \in Peers, chan[r][p] # <<>>,
         PrivateMessageReceivedFromPeer(p, r, Head(chan[r][p]), [chan EXCEPT ![r][p] = Tail(@)]),
         UNCHANGED <<up, online, senior, attached, budget>>
  PROVE  PongInvariant'
<1> DEFINE m == Head(chan[r][p])
           c == [chan EXCEPT ![r][p] = Tail(@)]
<1>1. Handling(p, r, m, c)
  <2>1. /\ budget.done \in Nat /\ KnownPings(PingsSeen, budget.done)
        /\ ChannelsInOrder(chan, budget.done, PingsSeen)
    BY InvariantFacts
  <2>2. ChannelsInOrder(c, budget.done, PingsSeen)
    BY <2>1, TakenInOrder
  <2>3. GoodChannel(r, p, chan[r][p], budget.done)
    BY <2>1 DEF ChannelsInOrder
  <2>4. GoodMessage(r, p, m, budget.done)
    BY <2>3, ShorterChannel
  <2> QED
    BY <2>2, <2>4 DEF Handling
<1>2. CASE HandleDatabaseUpdateRequest(p, m, c)
  <2>1. m.type = "update" /\ chan' = c
    BY <1>2 DEF HandleDatabaseUpdateRequest
  <2>2. CASE IAmTheSeniorPeer(p)
    <3>1. senior[p] = p /\ Execute(p, m)
      BY <1>2, <2>2 DEF HandleDatabaseUpdateRequest, IAmTheSeniorPeer
    <3> QED
      BY <2>1, <3>1, SeniorExecutes
  <2>3. CASE ~IAmTheSeniorPeer(p)
    <3>1. UNCHANGED <<log, ponged>>
      BY <1>2, <2>3 DEF HandleDatabaseUpdateRequest
    <3>2. ChannelsInOrder(chan', budget.done, PingsSeen)
      BY <1>1, <2>1 DEF Handling
    <3> QED
      BY <3>1, <3>2, QuietAnswer
  <2> QED
    BY <2>2, <2>3
<1> HIDE DEF m, c
<1>3. PrivateMessageReceivedFromPeer(p, r, m, c)
  BY DEF m, c
<1> QED
  BY <1>1, <1>2, <1>3, UploadLocalDataStep, LocalDataStep, MessageToSeniorPeerStep,
     MessageForSubscriberStep DEF PrivateMessageReceivedFromPeer

(* A prefix of the senior peer's log.                                      *)
LEMMA PrefixFacts ==
  ASSUME NEW s, NEW t, IsSequence(s), IsSequence(t), IsStrictPrefix(s, t)
  PROVE  /\ Len(s) \in Nat /\ DOMAIN s = 1 .. Len(s) /\ Len(s) + 1 \in DOMAIN t
         /\ \A i \in DOMAIN s : t[i] = s[i]
<1>1. /\ Len(s) \in Nat /\ DOMAIN s = 1 .. Len(s) /\ Len(t) \in Nat /\ DOMAIN t = 1 .. Len(t)
      /\ s \in Seq(ToSet(s)) /\ t \in Seq(ToSet(t))
  BY SequenceFacts DEF IsSequence
<1>2. Len(s) <= Len(t) /\ SubSeq(s, 1, Len(s)) = SubSeq(t, 1, Len(s)) /\ s # t
  BY DEF IsStrictPrefix, IsPrefix
<1>3. \A i \in 1 .. Len(s) : SubSeq(s, 1, Len(s))[i] = s[i] /\ SubSeq(t, 1, Len(s))[i] = t[i]
  <2> DEFINE n == Len(s)
  <2>1. n \in Nat /\ n <= Len(t)
    BY <1>1, <1>2
  <2>2. SubSeq(s, 1, n) = [i \in 1 .. n |-> s[i]] /\ SubSeq(t, 1, n) = [i \in 1 .. n |-> t[i]]
    BY <1>1, <2>1, SubSeqProperties
  <2> QED
    BY <2>2
<1>4. \A i \in 1 .. Len(s) : t[i] = s[i]
  BY <1>2, <1>3
<1>5. ASSUME Len(s) = Len(t)
      PROVE  FALSE
  <2>1. s \in [1 .. Len(s) -> ToSet(s)] /\ t \in [1 .. Len(s) -> ToSet(t)]
    BY <1>1, <1>5, LenProperties
  <2>2. s = t
    BY <1>4, <2>1
  <2> QED
    BY <1>2, <2>2
<1>6. Len(s) + 1 <= Len(t)
  <2>1. Len(s) # Len(t)
    BY <1>5
  <2>2. Len(s) \in Nat /\ Len(t) \in Nat
    BY <1>1
  <2>3. Len(s) <= Len(t)
    BY <1>2
  <2> QED
    BY <2>1, <2>2, <2>3
<1>7. Len(s) + 1 \in DOMAIN t
  BY <1>1, <1>6
<1> QED
  BY <1>1, <1>4, <1>7

(* A junior peer is never one that was pinged.                             *)
LEMMA JuniorsAreNotPinged ==
  ASSUME PongInvariant, NEW q \in Peers, HasSenior(q)
  PROVE  /\ senior[q] \in Peers /\ senior[q] # q /\ senior[senior[q]] = senior[q]
         /\ senior[q] \in up /\ q \in up
         /\ \A k \in PingsSeen : k.to # q /\ k.to \in Peers /\ k.peer \in Peers
BY DEF PongInvariant, PingsReachedTheSenior, HasSenior, Serving, IAmTheSeniorPeer, TypeOK

(* JuniorUpdate: the senior peer's log has everything that is older than a *)
(* ping before it, and q has executed all that comes before.               *)
LEMMA JuniorExecutes ==
  ASSUME PongInvariant, NEW q \in Peers, JuniorUpdate(q)
  PROVE  PongInvariant'
<1> DEFINE S == senior[q]
           N == Len(log[q]) + 1
           m == log[S][N]
<1>1. /\ HasSenior(q) /\ IsStrictPrefix(log[q], log[S]) /\ Execute(q, m)
      /\ UNCHANGED <<up, online, senior, chan, attached, budget>>
  BY DEF JuniorUpdate, viewVars, clientVars
<1>2. /\ S \in Peers /\ S # q
      /\ \A k \in PingsSeen : k.to # q /\ k.to \in Peers /\ k.peer \in Peers
  BY <1>1, JuniorsAreNotPinged
<1>3. TypeOK
  BY DEF PongInvariant
<1>4. IsSequence(log[q]) /\ IsSequence(log[S])
  BY <1>2, <1>3 DEF TypeOK
<1>5. N \in DOMAIN log[S] /\ \A i \in DOMAIN log[q] : log[S][i] = log[q][i]
  BY <1>1, <1>4, PrefixFacts
<1>6. m \in ToSet(log[S]) /\ m.type = "update"
  BY <1>2, <1>3, <1>5 DEF ToSet, TypeOK
<1> HIDE DEF m
<1>7. /\ DOMAIN log' = Peers /\ \A a \in Peers : IsSequence(log'[a])
      /\ \A a \in Peers : a # q => log'[a] = log[a]
      /\ \A a \in Peers : \A i \in DOMAIN log[a] : i \in DOMAIN log'[a] /\ log'[a][i] = log[a][i]
      /\ Len(log[q]) \in Nat /\ DOMAIN log[q] = 1 .. Len(log[q])
      /\ DOMAIN log'[q] = 1 .. N /\ log'[q][N] = m
      /\ \A x : x \in ToSet(log'[q]) => x \in ToSet(log[q]) \/ x = m
      /\ \A a \in Peers : ToSet(log[a]) \subseteq ToSet(log'[a])
  BY <1>1, <1>3, ExecutedFacts
<1>8. \A k \in PingsSeen' : k \in PingsSeen
  <2>1. \A k \in PingsSeen' : k \in PingsSeen \/ (IsPing(m) /\ k = PingIn(m))
    BY <1>1, <1>3, <1>6, NewPings
  <2>2. IsPing(m) => PingIn(m) \in PingsSeen
    BY <1>2, <1>6, LoggedPings
  <2> QED
    BY <2>1, <2>2
<1>9. TypeOK'
  <2>1. \A a \in Peers : \A x \in ToSet(log'[a]) : x.type = "update"
    BY <1>3, <1>6, <1>7 DEF TypeOK
  <2> QED
    BY <1>1, <1>3, <1>7, <2>1 DEF TypeOK
<1>10. SeniorsAreEldest'
  BY <1>1 DEF PongInvariant, SeniorsAreEldest
<1>11. ChannelsInOrder(chan, budget.done, PingsSeen)'
  BY <1>1, <1>8 DEF PongInvariant, ChannelsInOrder
<1>12. PingsReachedTheSenior'
  BY <1>1, <1>8 DEF PongInvariant, PingsReachedTheSenior
<1>13. ASSUME IsPing(m), NEW x \in ToSet(log[m.update.to]), OlderThan(x, PingIn(m))
       PROVE  \E j \in DOMAIN log'[q] : j < N /\ log'[q][j] = x
  <2>1. PICK j \in DOMAIN log[S] : j < N /\ log[S][j] = x
    BY <1>2, <1>5, <1>13 DEF PongInvariant, PingsComeLast, m
  <2>2. j \in DOMAIN log[q]
    <3>1. j \in 1 .. Len(log[S]) /\ Len(log[S]) \in Nat
      BY <1>4, SequenceFacts
    <3> QED
      BY <1>7, <2>1, <3>1
  <2>3. j \in DOMAIN log'[q] /\ log'[q][j] = x
    BY <1>5, <1>7, <2>1, <2>2
  <2> QED
    BY <2>1, <2>3
<1>14. PingsComeLast'
  <2> SUFFICES ASSUME NEW a \in Peers, NEW i \in DOMAIN log'[a], IsPing(log'[a][i]),
                      NEW x \in ToSet(log'[log'[a][i].update.to]),
                      OlderThan(x, PingIn(log'[a][i]))
               PROVE  \E j \in DOMAIN log'[a] : j < i /\ log'[a][j] = x
    BY DEF PingsComeLast
  <2> DEFINE y == log'[a][i]
  <2>1. PingIn(y).to = y.update.to
    BY DEF PingIn
  <2>2. PingIn(y) \in PingsSeen
    <3>1. PingIn(y) \in PingsSeen'
      BY DEF PingsSeen, ToSet
    <3> QED
      BY <1>8, <3>1
  <2>3. x \in ToSet(log[y.update.to])
    BY <1>2, <1>7, <2>1, <2>2
  <2>4. CASE i \in DOMAIN log[a]
    <3>1. y = log[a][i]
      BY <1>7, <2>4
    <3>2. \E j \in DOMAIN log[a] : j < i /\ log[a][j] = x
      BY <2>3, <2>4, <3>1 DEF PongInvariant, PingsComeLast
    <3> QED
      BY <1>7, <3>2
  <2>5. CASE a = q /\ i = N
    <3>1. y = m
      BY <1>7, <2>5
    <3> QED
      BY <1>13, <2>3, <2>5, <3>1
  <2>6. i \in DOMAIN log[a] \/ (a = q /\ i = N)
    BY <1>7
  <2> QED
    BY <2>4, <2>5, <2>6
<1>15. PongsAreTrue'
  <2>1. ASSUME NEW k \in ponged
        PROVE  k.to \in Peers /\ k.peer \in Peers /\ log'[k.to] = log[k.to]
    <3>1. k \in PingsSeen
      BY DEF PingsSeen
    <3> QED
      BY <1>2, <1>7, <3>1
  <2>2. ASSUME NEW k \in ponged', k \notin ponged
        PROVE  \A x \in ToSet(log'[k.to]) : OlderThan(x, k) => x \in ToSet(log'[k.peer])
    <3>1. IsPing(m) /\ k = PingIn(m) /\ k.peer = q /\ k.to = m.update.to
      BY <1>1, <1>6, <2>2 DEF Execute, Pong, IsPing, PingIn
    <3>2. k.to # q /\ k.to \in Peers
      BY <1>2, <1>6, <3>1, LoggedPings
    <3> QED
      BY <1>7, <1>13, <3>1, <3>2 DEF ToSet
  <2> QED
    BY <1>1, <1>7, <2>1, <2>2 DEF PongInvariant, PongsAreTrue
<1> QED
  BY <1>9, <1>10, <1>11, <1>12, <1>14, <1>15 DEF PongInvariant

(* A peer that takes itself for senior is elder than all that run, and     *)
(* knows peers.                                                            *)
LEMMA SeniorFacts ==
  ASSUME PongInvariant, NEW s \in Peers, senior[s] = s
  PROVE  online[s] # {} /\ \A u \in up : s <= u
BY PeersAreNumbers DEF PongInvariant, SeniorsAreEldest

(* FullUpdate: q has what its senior peer has; if another peer was pinged, *)
(* that one is no longer among the peers, and q knows it.                  *)
LEMMA FullUpdateStep ==
  ASSUME PongInvariant, NEW q \in Peers, FullUpdate(q)
  PROVE  PongInvariant'
<1> DEFINE S == senior[q]
<1>1. /\ HasSenior(q) /\ log' = [log EXCEPT ![q] = log[S]]
      /\ UNCHANGED <<up, online, senior, chan, attached, budget, ponged>>
  BY DEF FullUpdate, viewVars, clientVars, ghostVars
<1>2. /\ S \in Peers /\ S # q /\ S \in up /\ q \in up /\ senior[S] = S
      /\ \A k \in PingsSeen : k.to # q /\ k.to \in Peers /\ k.peer \in Peers
  BY <1>1, JuniorsAreNotPinged
<1>3. TypeOK
  BY DEF PongInvariant
<1>4. DOMAIN log' = Peers /\ log'[q] = log[S] /\ \A a \in Peers : a # q => log'[a] = log[a]
  BY <1>1, <1>3 DEF TypeOK
<1>5. \A k \in PingsSeen' : k \in PingsSeen
  <2>1. \A a \in Peers : \E b \in Peers : log'[a] = log[b]
    BY <1>2, <1>4
  <2>2. \A k \in PingsSeen' : k \in ponged \/ \E a \in Peers : \E x \in ToSet(log'[a]) : IsPing(x) /\ k = PingIn(x)
    BY <1>1 DEF PingsSeen
  <2>3. \A k \in ponged : k \in PingsSeen
    BY DEF PingsSeen
  <2> QED
    BY <2>1, <2>2, <2>3, LoggedPings
<1>6. TypeOK'
  BY <1>1, <1>2, <1>3, <1>4 DEF TypeOK
<1>7. SeniorsAreEldest'
  BY <1>1 DEF PongInvariant, SeniorsAreEldest
<1>8. ChannelsInOrder(chan, budget.done, PingsSeen)'
  BY <1>1, <1>5 DEF PongInvariant, ChannelsInOrder
<1>9. PingsReachedTheSenior'
  BY <1>1, <1>5 DEF PongInvariant, PingsReachedTheSenior
<1>10. PingsComeLast'
  <2> SUFFICES ASSUME NEW a \in Peers, NEW i \in DOMAIN log'[a], IsPing(log'[a][i]),
                      NEW x \in ToSet(log'[log'[a][i].update.to]),
                      OlderThan(x, PingIn(log'[a][i]))
               PROVE  \E j \in DOMAIN log'[a] : j < i /\ log'[a][j] = x
    BY DEF PingsComeLast
  <2> DEFINE y == log'[a][i]
  <2>1. PICK b \in Peers : log'[a] = log[b]
    BY <1>2, <1>4
  <2>2. PingIn(y) \in PingsSeen /\ PingIn(y).to = y.update.to
    BY <2>1, LoggedPings DEF PingIn, ToSet
  <2>3. x \in ToSet(log[y.update.to])
    BY <1>2, <1>4, <2>2
  <2> QED
    BY <2>1, <2>3 DEF PongInvariant, PingsComeLast
<1>11. PongsAreTrue'
  <2> SUFFICES ASSUME NEW k \in ponged
               PROVE  \/ \A x \in ToSet(log'[k.to]) : OlderThan(x, k) => x \in ToSet(log'[k.peer])
                      \/ k.to \notin up /\ k.to \notin online[k.peer]
    BY <1>1 DEF PongsAreTrue
  <2>1. k \in PingsSeen /\ k.to \in Peers /\ k.peer \in Peers /\ k.to # q /\ senior[k.to] = k.to
    BY <1>2 DEF PingsSeen, PongInvariant, PingsReachedTheSenior
  <2>2. CASE k.peer # q
    BY <1>4, <2>1, <2>2 DEF PongInvariant, PongsAreTrue
  <2>3. CASE k.to = S
    BY <1>4, <2>1, <2>2, <2>3
  <2>4. CASE k.peer = q /\ k.to # S
    <3>1. \A u \in up : k.to <= u /\ S <= u
      BY <1>2, <2>1, SeniorFacts
    <3>2. k.to \in Nat /\ S \in Nat
      BY <1>2, <2>1, PeersAreNumbers
    <3>3. k.to < S
      BY <1>2, <2>4, <3>1, <3>2
    <3>4. k.to \notin up
      BY <3>1, <3>2, <3>3
    <3>5. online[q] \subseteq Peers /\ online[q] # {} /\ S = Eldest(online[q])
      BY <1>2, <1>3, PeersAreNumbers DEF PongInvariant, SeniorsAreEldest, TypeOK
    <3>6. \A u \in online[q] : S <= u
      BY <3>5, EldestFacts
    <3> QED
      BY <2>4, <3>2, <3>3, <3>4, <3>6
  <2> QED
    BY <2>2, <2>3, <2>4
<1> QED
  BY <1>6, <1>7, <1>8, <1>9, <1>10, <1>11 DEF PongInvariant

---------------------------------------------------------------------------
(* Peers that come and go.                                                 *)

(* Steps that change who runs and who knows of whom, but execute nothing.  *)
LEMMA ViewStep ==
  ASSUME PongInvariant, UNCHANGED <<log, ponged>>,
         up' \subseteq Peers, online' \in [Peers -> SUBSET Peers],
         senior' \in [Peers -> Peers \cup {NoPeer}], attached' \subseteq Sessions,
         DOMAIN budget' = DOMAIN budget, budget'.done = budget.done,
         ChannelsInOrder(chan', budget.done, PingsSeen),
         SeniorsAreEldest',
         \A k \in PingsSeen : senior'[k.to] = k.to,
         \A k \in PingsSeen : k.to \notin up /\ k.to \notin online[k.peer]
                                => k.to \notin up' /\ k.to \notin online'[k.peer]
  PROVE  PongInvariant'
<1>1. PingsSeen' = PingsSeen
  BY DEF PingsSeen, IsPing, PingIn
<1>2. TypeOK'
  BY DEF PongInvariant, TypeOK, ChannelsInOrder
<1>3. ChannelsInOrder(chan, budget.done, PingsSeen)'
  BY <1>1 DEF ChannelsInOrder
<1>4. PingsReachedTheSenior'
  BY <1>1 DEF PongInvariant, PingsReachedTheSenior
<1>5. PingsComeLast'
  BY DEF PongInvariant, PingsComeLast
<1>6. PongsAreTrue'
  <2>1. \A k \in ponged : k \in PingsSeen
    BY DEF PingsSeen
  <2> QED
    BY <2>1 DEF PongInvariant, PongsAreTrue
<1> QED
  BY <1>2, <1>3, <1>4, <1>5, <1>6 DEF PongInvariant

(* A peer that starts is younger than those that know anyone.              *)
LEMMA StartStep ==
  ASSUME PongInvariant, NEW p \in Peers, Start(p)
  PROVE  PongInvariant'
<1>1. /\ online[p] = {} /\ up' = up \cup {p}
      /\ \A q \in Peers : q \in up \/ online[q] # {} => q < p
      /\ UNCHANGED <<online, senior, chan, attached, log, ponged>>
      /\ budget' = [budget EXCEPT !.starts = @ - 1]
  BY DEF Start, clientVars, ghostVars
<1>2. TypeOK /\ ChannelsInOrder(chan, budget.done, PingsSeen)
  BY DEF PongInvariant
<1>3. DOMAIN budget' = DOMAIN budget /\ budget'.done = budget.done
  BY <1>1, <1>2 DEF TypeOK
<1>4. p \in Nat /\ \A q \in Peers : q \in Nat
  BY PeersAreNumbers
<1>5. \A q \in Peers : online[q] # {} => q < p
  BY <1>1
<1>6. SeniorsAreEldest'
  <2> SUFFICES ASSUME NEW q \in Peers
               PROVE  /\ online[q] = {} => senior[q] = NoPeer
                      /\ online[q] # {} => /\ q \in online[q]
                                           /\ senior[q] = Eldest(online[q])
                                           /\ \A e \in up' : e < q => e \in online[q]
                      /\ senior[q] = q => \A u \in up' : q <= u
    BY <1>1 DEF SeniorsAreEldest
  <2>1. online[q] # {} => \A e \in up' : e < q => e \in online[q]
    BY <1>1, <1>4, <1>5 DEF PongInvariant, SeniorsAreEldest
  <2>2. senior[q] = q => \A u \in up' : q <= u
    BY <1>1, <1>4, <1>5, SeniorFacts
  <2> QED
    BY <2>1, <2>2 DEF PongInvariant, SeniorsAreEldest
<1>7. ASSUME NEW k \in PingsSeen
      PROVE  senior[k.to] = k.to /\ k.to # p
  <2>1. k.to \in Peers /\ senior[k.to] = k.to
    BY DEF PongInvariant, PingsReachedTheSenior
  <2> QED
    BY <1>1, <2>1, SeniorFacts
<1>8. /\ up' \subseteq Peers /\ online' \in [Peers -> SUBSET Peers]
      /\ senior' \in [Peers -> Peers \cup {NoPeer}] /\ attached' \subseteq Sessions
      /\ ChannelsInOrder(chan', budget.done, PingsSeen)
  BY <1>1, <1>2 DEF TypeOK
<1> QED
  BY <1>1, <1>3, <1>6, <1>7, <1>8, ViewStep

(* A crash takes a peer, and whatever was on its way to it.                *)
LEMMA CrashStep ==
  ASSUME PongInvariant, NEW p \in Peers, Crash(p)
  PROVE  PongInvariant'
<1>1. /\ up' = up \ {p}
      /\ chan' = [a \in Peers |-> [chan[a] EXCEPT ![p] = <<>>]]
      /\ attached' = {s \in attached : Home[s] # p}
      /\ UNCHANGED <<online, senior, log, ponged>>
      /\ budget' = [budget EXCEPT !.crashes = @ - 1]
  BY DEF Crash, ghostVars
<1>2. TypeOK /\ ChannelsInOrder(chan, budget.done, PingsSeen)
  BY DEF PongInvariant
<1>3. DOMAIN budget' = DOMAIN budget /\ budget'.done = budget.done
  BY <1>1, <1>2 DEF TypeOK
<1>4. ChannelsInOrder(chan', budget.done, PingsSeen)
  <2>1. \A a \in Peers : DOMAIN chan[a] = Peers
    BY <1>2 DEF ChannelsInOrder
  <2>2. /\ DOMAIN chan' = Peers /\ \A a \in Peers : DOMAIN chan'[a] = Peers
        /\ \A a, b \in Peers : chan'[a][b] = chan[a][b] \/ chan'[a][b] = <<>>
    BY <1>1, <2>1
  <2>3. budget.done \in Nat /\ KnownPings(PingsSeen, budget.done)
    BY InvariantFacts
  <2> QED
    BY <1>2, <2>2, <2>3, EmptiedInOrder
<1>5. SeniorsAreEldest'
  BY <1>1 DEF PongInvariant, SeniorsAreEldest
<1>6. \A k \in PingsSeen : senior'[k.to] = k.to
  BY <1>1 DEF PongInvariant, PingsReachedTheSenior
<1>7. /\ up' \subseteq Peers /\ online' \in [Peers -> SUBSET Peers]
      /\ senior' \in [Peers -> Peers \cup {NoPeer}] /\ attached' \subseteq Sessions
  BY <1>1, <1>2 DEF TypeOK
<1> QED
  BY <1>1, <1>3, <1>4, <1>5, <1>6, <1>7, ViewStep

(* PeerHasGoneOffline: deletions are requested, sessions end.              *)
LEMMA OfflineInOrder ==
  ASSUME PongInvariant, NEW q \in Peers, NEW gone \in SUBSET Peers
  PROVE  ChannelsInOrder(OfflineHandled(chan, q, gone), budget.done, PingsSeen)
<1> DEFINE num == Cardinality(gone)
           deletions == [i \in 1 .. num |-> Delete({<<SetToSeq(gone)[i]>>})]
           c == IF IAmTheSeniorPeer(q) THEN SendRequestToSeniorPeer(chan, q, 0, deletions) ELSE chan
           d == SessionsEnded(c, q, gone)
<1>1. num \in Nat
  <2>1. IsFiniteSet(gone)
    BY PeersAssumption, FS_Subset
  <2> QED
    BY <2>1, FS_CardinalityType
<1>2. /\ DOMAIN deletions = 1 .. num
      /\ \A i \in 1 .. num : deletions[i].op = "delete"
      /\ deletions = [i \in 1 .. num |-> deletions[i]]
  BY DEF Delete
<1>3. OfflineHandled(chan, q, gone) = d
  BY DEF OfflineHandled
<1>4. budget.done \in Nat /\ KnownPings(PingsSeen, budget.done)
      /\ ChannelsInOrder(chan, budget.done, PingsSeen)
  BY InvariantFacts
<1>5. ChannelsInOrder(c, budget.done, PingsSeen)
  <2> HIDE DEF deletions, num
  <2>1. IsSequence(deletions)
    BY <1>1, <1>2, ListFacts
  <2>2. ChannelsInOrder(SendRequestToSeniorPeer(chan, q, 0, deletions), budget.done, PingsSeen)
    BY <1>2, <1>4, <2>1, OwnRequest
  <2> QED
    BY <1>4, <2>2
<1> HIDE DEF c
<1>6. /\ DOMAIN d = Peers /\ \A a \in Peers : DOMAIN d[a] = Peers
      /\ \A a, b \in Peers : d[a][b] = c[a][b] \/ d[a][b] = <<>>
  BY DEF SessionsEnded
<1> HIDE DEF d
<1>7. ChannelsInOrder(d, budget.done, PingsSeen)
  BY <1>4, <1>5, <1>6, EmptiedInOrder
<1> QED
  BY <1>3, <1>7

(* Everyone in a set of peers is asked for its local data.                 *)
LEMMA AskedInOrder ==
  ASSUME PongInvariant, NEW q \in Peers, NEW to, NEW c, ChannelsInOrder(c, budget.done, PingsSeen)
  PROVE  ChannelsInOrder(SendUnicastMessageToAllPeers(c, q, to, UploadLocalData), budget.done, PingsSeen)
<1> DEFINE n == budget.done
           m == UploadLocalData
<1>1. /\ n \in Nat /\ n \in {n, n + 1} /\ KnownPings(PingsSeen, n)
      /\ ChannelsInOrder(c, n, PingsSeen)
  BY InvariantFacts
<1>2. m.type \notin {"update", "localData"}
  BY DEF UploadLocalData
<1> HIDE DEF n, m
<1>3. ChannelsInOrder(SendUnicastMessageToAllPeers(c, q, to, m), n, PingsSeen)
  BY <1>1, <1>2, MulticastInOrder
<1> QED
  BY <1>3 DEF n, m

(* LocalSeniorPeerStatusChanged: the new senior peer sends itself a        *)
(* deletion, which is no client's request, and asks everyone.              *)
LEMMA SeniorStatusInOrder ==
  ASSUME PongInvariant, NEW q \in Peers, NEW V, NEW c, ChannelsInOrder(c, budget.done, PingsSeen),
         q \in up
  PROVE  ChannelsInOrder(SeniorStatusHandled(c, q, V), budget.done, PingsSeen)
<1> DEFINE n == budget.done
           dead == {x[1] : x \in DOMAIN tree[q]} \ V
           m == Update(q, 0, Delete({<<d>> : d \in dead}))
           e == [c EXCEPT ![q][q] = Append(@, m)]
           f == IF dead = {} THEN c ELSE e
<1>1. /\ n \in Nat /\ n \in {n, n + 1} /\ KnownPings(PingsSeen, n) /\ up \subseteq Peers
      /\ ChannelsInOrder(c, n, PingsSeen)
  BY InvariantFacts
<1>2. m.type = "update" /\ m.src = q /\ m.id = 0 /\ m.update.op = "delete"
  BY DEF Update, Delete
<1>3. SeniorStatusHandled(c, q, V) = SendUnicastMessageToAllPeers(f, q, V, UploadLocalData)
  BY DEF SeniorStatusHandled
<1> HIDE DEF m, n
<1>4. NewMessages(q, q, <<m>>, n, n)
  BY <1>1, <1>2, OneMessage DEF NewMessages, GoodMessage, IsRequest
<1>5. ChannelsInOrder(SendUnicastMessageToPeer(c, q, q, <<m>>), n, PingsSeen)
  BY <1>1, <1>4, UnicastInOrder
<1>6. e = SendUnicastMessageToPeer(c, q, q, <<m>>)
  <2> DEFINE s == c[q][q]
             S == ToSet(s) \cup {m}
  <2>1. s \in Seq(S) /\ m \in S
    BY <1>1, SeqMonotonic DEF ChannelsInOrder, GoodChannel, IsSequence
  <2> HIDE DEF s, S
  <2>2. Append(s, m) = s \o <<m>>
    BY <2>1, AppendIsConcat
  <2>3. Append(c[q][q], m) = c[q][q] \o <<m>>
    BY <2>2 DEF s
  <2> QED
    BY <2>3 DEF SendUnicastMessageToPeer
<1> HIDE DEF e
<1>7. ChannelsInOrder(f, n, PingsSeen)
  BY <1>1, <1>5, <1>6
<1> HIDE DEF f
<1>8. ChannelsInOrder(SendUnicastMessageToAllPeers(f, q, V, UploadLocalData), n, PingsSeen)
  BY <1>7, AskedInOrder DEF n
<1> QED
  BY <1>3, <1>8 DEF n

(* PeersChanged: q knows the elder peers that run, and no peer comes back. *)
LEMMA PeersChangedStep ==
  ASSUME PongInvariant, NEW q \in Peers, NEW V \in SUBSET Peers, PeersChanged(q, V),
         q \in V, \A e \in up : e < q => e \in V, V \subseteq online[q] \cup up,
         DOMAIN budget' = DOMAIN budget, budget'.done = budget.done
  PROVE  PongInvariant'
<1> DEFINE off == OfflineHandled(chan, q, online[q] \ V)
           told == OnlineHandled(off, q, V \ online[q])
<1>1. /\ q \in up
      /\ online' = [online EXCEPT ![q] = V]
      /\ senior' = [senior EXCEPT ![q] = Eldest(V)]
      /\ chan' = told \/ chan' = SeniorStatusHandled(told, q, V)
      /\ UNCHANGED <<up, attached, log, ponged>>
  BY DEF PeersChanged, Serving, clientVars, ghostVars
<1>2. TypeOK
  BY DEF PongInvariant
<1>3. ChannelsInOrder(off, budget.done, PingsSeen)
  <2>1. online[q] \ V \in SUBSET Peers
    BY <1>2 DEF TypeOK
  <2> QED
    BY <2>1, OfflineInOrder
<1>4. ChannelsInOrder(told, budget.done, PingsSeen)
  <2> HIDE DEF off
  <2>1. ChannelsInOrder(SendUnicastMessageToAllPeers(off, q, V \ online[q], UploadLocalData),
                        budget.done, PingsSeen)
    BY <1>3, AskedInOrder
  <2> QED
    BY <1>3, <2>1 DEF OnlineHandled
<1> HIDE DEF told
<1>5. ChannelsInOrder(chan', budget.done, PingsSeen)
  <2>1. ChannelsInOrder(SeniorStatusHandled(told, q, V), budget.done, PingsSeen)
    BY <1>1, <1>4, SeniorStatusInOrder
  <2> QED
    BY <1>1, <1>4, <2>1
<1>6. Eldest(V) \in V /\ \A v \in V : Eldest(V) <= v
  BY EldestFacts
<1>7. \A a \in Peers : a \in Nat
  BY PeersAreNumbers
<1>8. /\ online'[q] = V /\ senior'[q] = Eldest(V)
      /\ \A a \in Peers : a # q => online'[a] = online[a] /\ senior'[a] = senior[a]
      /\ online' \in [Peers -> SUBSET Peers]
      /\ senior' \in [Peers -> Peers \cup {NoPeer}]
  BY <1>1, <1>2, <1>6 DEF TypeOK
<1>9. SeniorsAreEldest'
  <2>1. Eldest(V) = q => \A u \in up : q <= u
    BY <1>2, <1>6, <1>7 DEF TypeOK
  <2> QED
    BY <1>1, <1>8, <2>1 DEF PongInvariant, SeniorsAreEldest
<1>10. ASSUME NEW k \in PingsSeen
       PROVE  senior'[k.to] = k.to /\ k.peer \in Peers /\ k.to \in Peers
  <2>1. k.to \in Peers /\ k.peer \in Peers /\ senior[k.to] = k.to
    BY DEF PongInvariant, PingsReachedTheSenior
  <2>2. CASE k.to = q
    <3>1. online[q] # {} /\ \A u \in up : q <= u
      BY <2>1, <2>2, SeniorFacts
    <3>2. \A u \in online[q] : q <= u
      <4>1. online[q] \in SUBSET Peers /\ q = Eldest(online[q])
        BY <1>2, <2>1, <2>2, <3>1 DEF PongInvariant, SeniorsAreEldest, TypeOK
      <4> QED
        BY <3>1, <4>1, EldestFacts
    <3>3. \A v \in V : q <= v
      BY <3>1, <3>2
    <3>4. Eldest(V) = q
      BY <1>6, <1>7, <3>3
    <3> QED
      BY <1>8, <2>1, <2>2, <3>4
  <2>3. CASE k.to # q
    BY <1>8, <2>1, <2>3
  <2> QED
    BY <2>2, <2>3
<1>11. \A k \in PingsSeen : k.to \notin up /\ k.to \notin online[k.peer]
                              => k.to \notin up' /\ k.to \notin online'[k.peer]
  BY <1>1, <1>8, <1>10
<1>12. up' \subseteq Peers /\ attached' \subseteq Sessions
  BY <1>1, <1>2 DEF TypeOK
<1> QED
  BY <1>1, <1>5, <1>8, <1>9, <1>10, <1>11, <1>12, ViewStep

(* q notices a peer that started or one that crashed.                      *)
LEMMA NoticeStep ==
  ASSUME PongInvariant, NEW q \in Peers, Notice(q)
  PROVE  PongInvariant'
<1>1. PICK V \in {up, online[q] \cap up, online[q] \cup up} :
        q \in V /\ (online[q] = {} => V = up) /\ PeersChanged(q, V)
  BY DEF Notice
<1>2. budget' = budget
  BY DEF Notice
<1>3. up \subseteq Peers /\ online[q] \subseteq Peers
  BY DEF PongInvariant, TypeOK
<1>4. \A e \in up : e < q => e \in V
  BY <1>1 DEF PongInvariant, SeniorsAreEldest
<1>5. V \in SUBSET Peers /\ V \subseteq online[q] \cup up
  BY <1>1, <1>3
<1> QED
  BY <1>1, <1>2, <1>4, <1>5, PeersChangedStep

(* The senior peer misses the heartbeats of another.                       *)
LEMMA LosePeerStep ==
  ASSUME PongInvariant, NEW q \in Peers, NEW p \in Peers, LosePeer(q, p)
  PROVE  PongInvariant'
<1> DEFINE V == online[q] \ {p}
<1>1. /\ senior[q] = q /\ q # p /\ PeersChanged(q, V)
      /\ budget' = [budget EXCEPT !.losses = @ - 1]
  BY DEF LosePeer, IAmTheSeniorPeer
<1>2. TypeOK
  BY DEF PongInvariant
<1>3. online[q] \subseteq Peers /\ DOMAIN budget' = DOMAIN budget /\ budget'.done = budget.done
  BY <1>1, <1>2 DEF TypeOK
<1>4. online[q] # {} /\ \A u \in up : q <= u
  BY <1>1, SeniorFacts
<1>5. q \in V
  BY <1>1, <1>4 DEF PongInvariant, SeniorsAreEldest
<1>6. \A e \in up : e < q => e \in V
  <2> SUFFICES ASSUME NEW e \in up, e < q PROVE FALSE
    OBVIOUS
  <2>1. e \in Nat /\ q \in Nat
    BY <1>2, PeersAreNumbers DEF TypeOK
  <2>2. q <= e
    BY <1>4
  <2> QED
    BY <2>1, <2>2
<1>7. V \in SUBSET Peers /\ V \subseteq online[q] \cup up
  BY <1>3
<1> HIDE DEF V
<1> QED
  BY <1>1, <1>3, <1>5, <1>6, <1>7, PeersChangedStep

---------------------------------------------------------------------------
(* All steps.                                                              *)

(* The steps of peers keep the invariant.                                  *)
LEMMA PeerStep ==
  ASSUME PongInvariant, PeerNext
  PROVE  PongInvariant'
<1>1. ASSUME NEW p \in Peers, Pulse(p)
      PROVE  PongInvariant'
  BY <1>1, HandlerStep DEF Pulse, viewVars, clientVars
<1>2. ASSUME NEW p \in Peers, NEW r \in Peers, UnicastMessageReceivedFromPeer(p, r)
      PROVE  PongInvariant'
  BY <1>2, HandlerStep DEF UnicastMessageReceivedFromPeer, viewVars, clientVars
<1> QED
  BY <1>1, <1>2, JuniorExecutes, FullUpdateStep, NoticeStep, StartStep, CrashStep, LosePeerStep
     DEF PeerNext

(* It holds at first.                                                      *)
LEMMA PongInvariantInitially ==
  ASSUME Init
  PROVE  PongInvariant
<1>1. PICK w \in Workloads : InitFor(w)
  BY DEF Init
<1> DEFINE F == w.founders
<1>2. F \in SUBSET Peers /\ F # {}
  BY PeersAssumption
<1>3. Eldest(F) \in F /\ \A v \in F : Eldest(F) <= v
  BY <1>2, EldestFacts
<1>4. /\ up = F
      /\ online = [p \in Peers |-> IF p \in F THEN F ELSE {}]
      /\ senior = [p \in Peers |-> IF p \in F THEN Eldest(F) ELSE NoPeer]
      /\ chan = [p \in Peers |-> [q \in Peers |-> <<>>]]
      /\ attached \subseteq Sessions
      /\ log = [p \in Peers |-> <<>>]
      /\ ponged = {}
      /\ DOMAIN budget = {"kinds", "ops", "done", "crashes", "starts", "losses"}
      /\ budget.done = 0
  BY <1>1 DEF InitFor
<1>5. \A p \in Peers : ToSet(log[p]) = {} /\ DOMAIN log[p] = {}
  BY <1>4, NoMessages DEF ToSet
<1>6. PingsSeen = {}
  BY <1>4, <1>5 DEF PingsSeen
<1>7. TypeOK
  BY <1>2, <1>3, <1>4, <1>5, NoMessages DEF TypeOK
<1>8. SeniorsAreEldest
  <2>1. \A q \in Peers : q \in Nat /\ q # NoPeer
    BY PeersAreNumbers
  <2> QED
    BY <1>2, <1>3, <1>4, <2>1 DEF SeniorsAreEldest
<1>9. ChannelsInOrder(chan, budget.done, PingsSeen)
  BY <1>4, <1>6, EmptyChannel DEF ChannelsInOrder
<1>10. PingsReachedTheSenior /\ PingsComeLast /\ PongsAreTrue
  BY <1>4, <1>5, <1>6 DEF PingsReachedTheSenior, PingsComeLast, PongsAreTrue
<1> QED
  BY <1>7, <1>8, <1>9, <1>10 DEF PongInvariant

(* What a pong tells a client follows: as long as k.to is the senior peer  *)
(* of k.peer, it is among the peers that k.peer knows.                     *)
LEMMA PongInvariantSuffices ==
  ASSUME PongInvariant
  PROVE  PongMeansFlushed
<1> SUFFICES ASSUME NEW k \in ponged
             PROVE  /\ \A i \in DOMAIN chan[k.peer][k.to] :
                         LET m == chan[k.peer][k.to][i]
                         IN  ~(m.type = "update" /\ m.src = k.peer /\ m.id # 0 /\ m.id < k.id)
                    /\ k.to = senior[k.peer] =>
                         \A m \in ToSet(log[k.to]) :
                           m.type = "update" /\ m.src = k.peer /\ m.id # 0 /\ m.id < k.id
                             => m \in ToSet(log[k.peer])
  BY DEF PongMeansFlushed
<1>1. /\ k \in PingsSeen /\ k.peer \in Peers /\ k.to \in Peers /\ k.id \in 1..budget.done
      /\ budget.done \in Nat
  BY DEF PongInvariant, PingsReachedTheSenior, PingsSeen, TypeOK
<1>2. NoneOlder(chan[k.peer][k.to], k) /\ GoodChannel(k.peer, k.to, chan[k.peer][k.to], budget.done)
  BY <1>1 DEF PongInvariant, ChannelsInOrder
<1>3. ASSUME NEW i \in DOMAIN chan[k.peer][k.to]
      PROVE  LET m == chan[k.peer][k.to][i]
             IN  ~(m.type = "update" /\ m.src = k.peer /\ m.id # 0 /\ m.id < k.id)
  <2> DEFINE m == chan[k.peer][k.to][i]
  <2>1. m.type = "update" => m.id \in 0..budget.done
    BY <1>2, Zenon DEF GoodChannel, GoodMessage
  <2>2. m.type = "update" /\ m.id # 0 => m.id >= k.id
    BY <1>2 DEF NoneOlder, IsRequest
  <2> HIDE DEF m
  <2>3. ~(m.type = "update" /\ m.src = k.peer /\ m.id # 0 /\ m.id < k.id)
    <3>1. SUFFICES ASSUME m.type = "update", m.id # 0, m.id < k.id
                   PROVE  FALSE
      OBVIOUS
    <3>2. m.id >= k.id
      BY <2>2, <3>1
    <3>3. m.id \in 0..budget.done
      BY <2>1, <3>1
    <3>4. budget.done \in Nat /\ k.id \in 1..budget.done
      BY <1>1
    <3>5. m.id \in Int /\ k.id \in Int
      BY <3>3, <3>4
    <3>6. \A a, b \in Int : ~(a < b /\ a >= b)
      OBVIOUS
    <3> QED
      BY <3>1, <3>2, <3>5, <3>6, Zenon
  <2> QED
    BY <2>3, Zenon DEF m
<1>4. ASSUME k.to = senior[k.peer]
      PROVE  k.to \in online[k.peer]
  <2>1. online[k.peer] \in SUBSET Peers
    BY <1>1 DEF PongInvariant, TypeOK
  <2>2. online[k.peer] = {} => senior[k.peer] = NoPeer
    BY <1>1 DEF PongInvariant, SeniorsAreEldest
  <2>3. online[k.peer] # {}
    BY <1>1, <1>4, <2>2, PeersAreNumbers
  <2>4. senior[k.peer] = Eldest(online[k.peer])
    BY <1>1, <2>3 DEF PongInvariant, SeniorsAreEldest
  <2> QED
    BY <1>4, <2>1, <2>3, <2>4, EldestFacts
<1>5. k.to = senior[k.peer] =>
        \A m \in ToSet(log[k.to]) : OlderThan(m, k) => m \in ToSet(log[k.peer])
  BY <1>4 DEF PongInvariant, PongsAreTrue
<1> QED
  BY <1>3, <1>5 DEF OlderThan

(* The invariant of the peers: requests reach the senior peer in the order *)
(* in which clients made them, whoever takes itself for senior is elder    *)
(* than all that run, and every log that holds a ping holds, before it,    *)
(* the older requests that the pinged peer executed.                       *)
THEOREM PingsAreInOrder == Spec => []PongInvariant
<1>1. ASSUME PongInvariant, [Next]_vars
      PROVE  PongInvariant'
  <2>1. CASE Next
    BY <1>1, <2>1, ClientStep, PeerStep DEF Next
  <2>2. CASE UNCHANGED vars
    <3>1. UNCHANGED <<up, online, senior, log, ponged, attached, budget, chan>>
      BY <2>2 DEF vars
    <3>2. ChannelsInOrder(chan', budget.done, PingsSeen)
      BY <1>1, <3>1, InvariantFacts
    <3> QED
      BY <1>1, <3>1, <3>2, QuietAnswer
  <2> QED
    BY <1>1, <2>1, <2>2
<1> QED
  BY <1>1, PongInvariantInitially, PTL DEF Spec

(* A pong tells a client that its peer has all that was requested through  *)
(* it before the ping, of what the senior peer has (PingSeniorPeer,        *)
(* HandleSeniorPeerPingMessage).                                           *)
THEOREM PongsAreFlushed == Spec => []PongMeansFlushed
BY PingsAreInOrder, PongInvariantSuffices, PTL
===========================================================================

---------------------- MODULE HeartbeatElectionProofs ----------------------
(***************************************************************************)
(* Theorems about HeartbeatElection, for any number of peers, any          *)
(* settings, and any starts, crashes and losses of heartbeats.             *)
(***************************************************************************)
EXTENDS HeartbeatElection, SequenceTheorems, FiniteSetTheorems, WellFoundedInduction, TLAPS

---------------------------------------------------------------------------
(* Induction.                                                              *)

(* A set of numbers that has 0 and, with every number, the next one.       *)
LEMMA SetInduction ==
  ASSUME NEW T, 0 \in T, \A n \in Nat : n \in T => n + 1 \in T
  PROVE  \A n \in Nat : n \in T
<1> DEFINE U == {n \in Nat : n \notin T}
           R == OpToRel(<, Nat)
<1> SUFFICES ASSUME U # {} PROVE FALSE
  OBVIOUS
<1>1. IsWellFoundedOn(R, Nat)
  BY NatLessThanWellFounded
<1>2. \A x, y \in Nat : <<x, y>> \in R <=> x < y
  BY DEF OpToRel
<1> HIDE DEF R
<1>3. U \subseteq Nat
  OBVIOUS
<1>4. PICK x \in U : \A y \in U : ~(<<y, x>> \in R)
  BY <1>1, <1>3, WFMin
<1>5. x \in Nat /\ x \notin T /\ \A y \in Nat : y < x => y \in T
  BY <1>2, <1>4
<1>6. x # 0
  BY <1>5
<1>7. x - 1 \in Nat /\ x - 1 < x /\ (x - 1) + 1 = x
  BY <1>5, <1>6
<1> QED
  BY <1>5, <1>7

(* A set of numbers has a least one.                                       *)
LEMMA MinFacts ==
  ASSUME NEW S \in SUBSET Nat, S # {}
  PROVE  Min(S) \in S /\ \A y \in S : Min(S) <= y
<1> DEFINE R == OpToRel(<, Nat)
<1>1. IsWellFoundedOn(R, Nat)
  BY NatLessThanWellFounded
<1>2. \A x, y \in Nat : <<x, y>> \in R <=> x < y
  BY DEF OpToRel
<1> HIDE DEF R
<1>3. PICK x \in S : \A y \in S : ~(<<y, x>> \in R)
  BY <1>1, WFMin
<1>4. \A y \in S : y \in Nat /\ ~(y < x) /\ x \in Nat
  BY <1>2, <1>3
<1>5. \A y \in S : x =< y
  BY <1>4
<1> QED
  BY <1>5 DEF Min

(* The values a, G(a, 1), G(G(a, 1), 2), ... after 0 to N steps.           *)
IsFold(f, a, G, N) ==
  \A i \in 0 .. N : f[i] = IF i = 0 THEN a ELSE G[<<f[i - 1], i>>]

(* There are such values.                                                  *)
LEMMA FoldExists ==
  ASSUME NEW V, NEW a \in V, NEW N \in Nat, NEW G \in [V \X (1 .. N) -> V]
  PROVE  \E f \in [0 .. N -> V] : IsFold(f, a, G, N)
<1> USE DEF IsFold
<1> DEFINE Upto(n) == {f \in [0 .. n -> V] : IsFold(f, a, G, n)}
           T == {n \in Nat : n <= N => Upto(n) # {}}
<1>1. 0 \in T
  <2> DEFINE f == [i \in 0 .. 0 |-> a]
  <2>1. f \in Upto(0)
    OBVIOUS
  <2> QED
    BY <2>1
<1>2. ASSUME NEW n \in Nat, n \in T
      PROVE  n + 1 \in T
  <2> SUFFICES ASSUME n + 1 <= N PROVE Upto(n + 1) # {}
    OBVIOUS
  <2> DEFINE x == n + 1
  <2>1. PICK f \in Upto(n) : TRUE
    BY <1>2
  <2>2. f[n] \in V /\ x \in 1 .. N /\ <<f[n], x>> \in V \X (1 .. N)
    BY <2>1
  <2>3. PICK v \in V : v = G[<<f[n], x>>]
    BY <2>2
  <2> DEFINE g == [i \in 0 .. x |-> IF i < x THEN f[i] ELSE v]
  <2>4. g \in [0 .. x -> V]
    <3>1. \A i \in 0 .. x : i < x => i \in 0 .. n
      OBVIOUS
    <3>2. \A i \in 0 .. x : g[i] \in V
      BY <2>1, <2>3, <3>1
    <3> QED
      BY <3>2
  <2>5. ASSUME NEW i \in 0 .. x
        PROVE  g[i] = IF i = 0 THEN a ELSE G[<<g[i - 1], i>>]
    <3>1. CASE i < x
      <4>1. i \in 0 .. n /\ (i # 0 => i - 1 \in 0 .. x /\ i - 1 < x)
        BY <3>1
      <4>2. f[i] = IF i = 0 THEN a ELSE G[<<f[i - 1], i>>]
        BY <2>1, <4>1
      <4>3. g[i] = f[i] /\ (i # 0 => g[i - 1] = f[i - 1])
        BY <3>1, <4>1
      <4> QED
        BY <4>2, <4>3
    <3>2. CASE i = x
      <4>1. n \in 0 .. x /\ n < x /\ ~(x < x) /\ x - 1 = n /\ x # 0
        OBVIOUS
      <4>2. g[x] = v /\ g[n] = f[n]
        BY <3>2, <4>1
      <4> QED
        BY <2>3, <3>2, <4>1, <4>2
    <3> QED
      BY <3>1, <3>2
  <2> HIDE DEF g
  <2>6. g \in Upto(x)
    BY <2>4, <2>5
  <2> QED
    BY <2>6
<1>3. \A n \in Nat : n \in T
  <2> HIDE DEF T
  <2> QED
    BY <1>1, <1>2, SetInduction
<1>4. PICK f \in Upto(N) : TRUE
  BY <1>3
<1> QED
  BY <1>4

---------------------------------------------------------------------------
(* Lists of peers.                                                         *)

LEMMA PeerListFacts ==
  ASSUME NEW s \in PeerLists
  PROVE  s \in Seq(Peers) /\ IsInjective(s) /\ Len(s) \in Nat /\ DOMAIN s = 1 .. Len(s)
<1>1. PICK n \in 0 .. Cardinality(Peers) : s \in [1 .. n -> Peers] /\ IsInjective(s)
  BY DEF PeerLists
<1>2. Cardinality(Peers) \in Nat
  BY HeartbeatPeersAssumption, FS_CardinalityType
<1>3. n \in Nat
  BY <1>1, <1>2
<1>4. s \in Seq(Peers)
  BY <1>1, <1>3, SeqDef
<1> QED
  BY <1>1, <1>4, LenProperties

(* A list without duplicates is no longer than there are peers.            *)
LEMMA PeerListIntro ==
  ASSUME NEW s \in Seq(Peers), IsInjective(s)
  PROVE  s \in PeerLists
<1>1. Len(s) \in Nat /\ s \in [1 .. Len(s) -> Peers]
  BY LenProperties
<1>2. s \in Injection(1 .. Len(s), Peers)
  BY <1>1 DEF Injection, IsInjective
<1>3. IsFiniteSet(Peers)
  BY HeartbeatPeersAssumption
<1>4. Cardinality(1 .. Len(s)) <= Cardinality(Peers)
  BY <1>2, <1>3, FS_Injection
<1>5. Cardinality(1 .. Len(s)) = Len(s)
  BY <1>1, FS_Interval
<1>6. Cardinality(Peers) \in Nat
  BY <1>3, FS_CardinalityType
<1>7. Len(s) \in 0 .. Cardinality(Peers)
  BY <1>1, <1>4, <1>5, <1>6
<1> QED
  BY <1>1, <1>7 DEF PeerLists

(* One more peer at the end.                                               *)
LEMMA AppendFacts ==
  ASSUME NEW s \in Seq(Peers), NEW q \in Peers
  PROVE  /\ Append(s, q) \in Seq(Peers)
         /\ Range(Append(s, q)) = Range(s) \cup {q}
         /\ IsInjective(s) /\ q \notin Range(s) => IsInjective(Append(s, q))
<1> DEFINE t == Append(s, q)
           n == Len(s)
<1>1. /\ t \in Seq(Peers) /\ n \in Nat /\ DOMAIN s = 1 .. n /\ DOMAIN t = 1 .. n + 1
      /\ \A i \in 1 .. n : t[i] = s[i]
      /\ t[n + 1] = q
  BY AppendProperties, LenProperties
<1>2. \A i \in 1 .. n + 1 : i \in 1 .. n \/ i = n + 1
  BY <1>1
<1>3. Range(t) = Range(s) \cup {q}
  BY <1>1, <1>2 DEF Range
<1>4. ASSUME IsInjective(s), q \notin Range(s), NEW i \in 1 .. n + 1, NEW j \in 1 .. n + 1, t[i] = t[j]
      PROVE  i = j
  BY <1>1, <1>2, <1>4 DEF IsInjective, Range
<1>5. IsInjective(s) /\ q \notin Range(s) => IsInjective(t)
  BY <1>1, <1>4 DEF IsInjective
<1> QED
  BY <1>1, <1>3, <1>5

(* What Only() does: some of the peers, and none twice.                    *)
LEMMA OnlyFacts ==
  ASSUME NEW list \in PeerLists, NEW S
  PROVE  Only(list, S) \in PeerLists /\ Range(Only(list, S)) = Range(list) \cap S
<1> DEFINE V == Seq(Peers)
           N == Len(list)
           G == [x \in V \X (1 .. N) |->
                   IF list[x[2]] \in S THEN Append(x[1], list[x[2]]) ELSE x[1]]
<1>1. /\ N \in Nat /\ list \in Seq(Peers) /\ IsInjective(list) /\ DOMAIN list = 1 .. N
      /\ \A i \in 1 .. N : list[i] \in Peers
  <2>1. N \in Nat /\ list \in Seq(Peers) /\ IsInjective(list) /\ DOMAIN list = 1 .. N
    BY PeerListFacts
  <2> QED
    BY <2>1, ElementOfSeq
<1>2. G \in [V \X (1 .. N) -> V]
  <2>1. ASSUME NEW x \in V \X (1 .. N)
        PROVE  (IF list[x[2]] \in S THEN Append(x[1], list[x[2]]) ELSE x[1]) \in V
    <3>1. x[1] \in V /\ list[x[2]] \in Peers
      BY <1>1
    <3> QED
      BY <3>1, AppendFacts
  <2> QED
    BY <2>1
<1>3. <<>> \in V
  OBVIOUS
<1>4. PICK h \in [0 .. N -> V] : IsFold(h, <<>>, G, N)
  <2>1. N \in Nat
    BY <1>1
  <2> HIDE DEF G, V, N
  <2> QED
    BY <1>2, <1>3, <2>1, FoldExists
<1>5. h = [i \in 0 .. N |-> IF i = 0 THEN <<>>
               ELSE IF list[i] \in S THEN Append(h[i - 1], list[i]) ELSE h[i - 1]]
  <2>1. ASSUME NEW i \in 0 .. N, i # 0
        PROVE  G[<<h[i - 1], i>>] = IF list[i] \in S THEN Append(h[i - 1], list[i]) ELSE h[i - 1]
    <3>1. i - 1 \in 0 .. N /\ i \in 1 .. N
      BY <1>1, <2>1
    <3>2. <<h[i - 1], i>> \in V \X (1 .. N)
      BY <3>1
    <3> QED
      BY <3>2
  <2> HIDE DEF G
  <2> QED
    BY <1>4, <2>1 DEF IsFold
<1>6. PICK f : /\ f = [i \in 0 .. N |-> IF i = 0 THEN <<>>
                          ELSE IF list[i] \in S THEN Append(f[i - 1], list[i]) ELSE f[i - 1]]
               /\ Only(list, S) = f[N]
  <2> HIDE DEF G, V
  <2> QED
    BY <1>5 DEF Only
<1> DEFINE Seen(n) == {list[j] : j \in 1 .. n} \cap S
           Good(n) == Range(f[n]) = Seen(n) /\ IsInjective(f[n]) /\ f[n] \in Seq(Peers)
           T == {n \in Nat : n <= N => Good(n)}
<1>7. 0 \in T
  <2>1. f[0] = <<>>
    BY <1>1, <1>6
  <2>2. Range(<<>>) = {} /\ IsInjective(<<>>) /\ <<>> \in Seq(Peers)
    BY DEF Range, IsInjective
  <2>3. Seen(0) = {}
    OBVIOUS
  <2> HIDE DEF Seen
  <2> QED
    BY <2>1, <2>2, <2>3
<1>8. ASSUME NEW n \in Nat, n \in T
      PROVE  n + 1 \in T
  <2> SUFFICES ASSUME n + 1 <= N PROVE Good(n + 1)
    OBVIOUS
  <2>1. n \in 0 .. N /\ n + 1 \in 0 .. N /\ n + 1 \in 1 .. N /\ (n + 1) - 1 = n /\ n + 1 # 0
    BY <1>1
  <2>2. f[n + 1] = IF list[n + 1] \in S THEN Append(f[n], list[n + 1]) ELSE f[n]
    BY <1>6, <2>1
  <2>3. Range(f[n]) = Seen(n) /\ IsInjective(f[n]) /\ f[n] \in Seq(Peers)
    BY <1>8, <2>1
  <2>4. Seen(n + 1) = IF list[n + 1] \in S THEN Seen(n) \cup {list[n + 1]} ELSE Seen(n)
    <3>1. \A j : j \in 1 .. n + 1 <=> j \in 1 .. n \/ j = n + 1
      OBVIOUS
    <3> QED
      BY <3>1
  <2>5. list[n + 1] \notin Seen(n)
    <3>1. \A j \in 1 .. n : j \in DOMAIN list /\ n + 1 \in DOMAIN list /\ j # n + 1
      BY <1>1, <2>1
    <3> QED
      BY <1>1, <3>1 DEF IsInjective
  <2>6. list[n + 1] \in Peers
    BY <1>1, <2>1
  <2>7. CASE list[n + 1] \in S
    <3> DEFINE q == list[n + 1]
    <3>1. f[n + 1] = Append(f[n], q) /\ Seen(n + 1) = Seen(n) \cup {q}
      BY <2>2, <2>4, <2>7
    <3>2. q \notin Range(f[n]) /\ q \in Peers
      BY <2>3, <2>5, <2>6
    <3> HIDE DEF q, Seen
    <3>3. /\ Append(f[n], q) \in Seq(Peers) /\ Range(Append(f[n], q)) = Range(f[n]) \cup {q}
          /\ IsInjective(Append(f[n], q))
      BY <2>3, <3>2, AppendFacts
    <3> QED
      BY <2>3, <3>1, <3>3
  <2>8. CASE list[n + 1] \notin S
    BY <2>2, <2>3, <2>4, <2>8
  <2> QED
    BY <2>7, <2>8
<1>9. \A n \in Nat : n \in T
  <2> HIDE DEF T
  <2> QED
    BY <1>7, <1>8, SetInduction
<1>10. Range(f[N]) = Seen(N) /\ IsInjective(f[N]) /\ f[N] \in Seq(Peers)
  <2>1. N \in T /\ N <= N
    <3> HIDE DEF T
    <3> QED
      BY <1>1, <1>9
  <2>2. Good(N)
    <3> HIDE DEF Good, N
    <3> QED
      BY <2>1
  <2> QED
    BY <2>2
<1>11. Seen(N) = Range(list) \cap S
  BY <1>1 DEF Range
<1> HIDE DEF G, V, N
<1> QED
  BY <1>6, <1>10, <1>11, PeerListIntro

---------------------------------------------------------------------------
(* The order of peers.                                                     *)

LEMMA SourceFacts ==
  ASSUME NEW S, NEW f \in BySource(S)
  PROVE  /\ DOMAIN f \subseteq Peers /\ IsFiniteSet(DOMAIN f)
         /\ f = [q \in DOMAIN f |-> f[q]]
         /\ \A q \in DOMAIN f : f[q] \in S
<1>1. PICK D \in SUBSET Peers : f \in [D -> S]
  BY DEF BySource
<1>2. IsFiniteSet(D)
  BY HeartbeatPeersAssumption, FS_Subset
<1> QED
  BY <1>1, <1>2

LEMMA SourceIntro ==
  ASSUME NEW S, NEW D \in SUBSET Peers, NEW f \in [D -> S]
  PROVE  f \in BySource(S)
BY DEF BySource

(* The peers that come before q.                                           *)
Before(heard, q) == {r \in DOMAIN heard : ComparePeerIDsBySeniority(heard, r, q)}

(* What peers are compared by.                                             *)
LEMMA SeniorityTypes ==
  ASSUME NEW heard \in BySource(Heartbeats), NEW x \in DOMAIN heard
  PROVE  x \in Nat /\ heard[x].uptime \in Nat /\ PeerType(x) \in {0, 1}
<1>1. x \in Peers /\ heard[x] \in Heartbeats
  BY SourceFacts
<1>2. heard[x].uptime \in Times
  BY <1>1 DEF Heartbeats
<1>3. Times \subseteq Nat
  BY IntervalsAssumption DEF Times
<1> QED
  BY <1>1, <1>2, <1>3, HeartbeatPeersAssumption DEF PeerType

(* Of two peers one comes before the other, and then fewer come before it. *)
LEMMA SeniorityIsAnOrder ==
  ASSUME NEW heard \in BySource(Heartbeats), NEW q \in DOMAIN heard, NEW r \in DOMAIN heard, q # r
  PROVE  /\ ComparePeerIDsBySeniority(heard, q, r) \/ ComparePeerIDsBySeniority(heard, r, q)
         /\ ComparePeerIDsBySeniority(heard, q, r) =>
              Before(heard, q) \subseteq Before(heard, r) \ {q} /\ q \in Before(heard, r)
<1>1. \A x \in DOMAIN heard : x \in Nat /\ heard[x].uptime \in Nat /\ PeerType(x) \in {0, 1}
  BY SeniorityTypes
<1>2. ComparePeerIDsBySeniority(heard, q, r) \/ ComparePeerIDsBySeniority(heard, r, q)
  BY <1>1 DEF ComparePeerIDsBySeniority
<1>3. ~ComparePeerIDsBySeniority(heard, q, q)
  BY <1>1 DEF ComparePeerIDsBySeniority
<1>4. ASSUME ComparePeerIDsBySeniority(heard, q, r), NEW x \in DOMAIN heard,
             ComparePeerIDsBySeniority(heard, x, q)
      PROVE  ComparePeerIDsBySeniority(heard, x, r)
  BY <1>1, <1>4 DEF ComparePeerIDsBySeniority
<1> QED
  BY <1>2, <1>3, <1>4 DEF Before

(* How many come before a peer tells who it is, so that the sorted list    *)
(* has everybody.                                                          *)
LEMMA SortedFacts ==
  ASSUME NEW heard \in BySource(Heartbeats)
  PROVE  SortedBySeniority(heard) \in PeerLists /\ Range(SortedBySeniority(heard)) = DOMAIN heard
<1> DEFINE D == DOMAIN heard
           n == Cardinality(D)
           Rank == [q \in D |-> Cardinality(Before(heard, q)) + 1]
           s == SortedBySeniority(heard)
<1>1. D \subseteq Peers /\ IsFiniteSet(D) /\ n \in Nat
  BY SourceFacts, FS_CardinalityType
<1>2. \A q \in D : /\ Before(heard, q) \in SUBSET D /\ IsFiniteSet(Before(heard, q))
                   /\ Cardinality(Before(heard, q)) \in Nat
  <2>1. \A q \in D : Before(heard, q) \in SUBSET D
    BY DEF Before
  <2> QED
    BY <1>1, <2>1, FS_Subset, FS_CardinalityType
<1>3. ASSUME NEW q \in D, NEW r \in D, ComparePeerIDsBySeniority(heard, q, r), q # r
      PROVE  Cardinality(Before(heard, q)) < Cardinality(Before(heard, r))
  <2> DEFINE B == Before(heard, r)
  <2>1. Before(heard, q) \subseteq B \ {q} /\ q \in B
    BY <1>3, SeniorityIsAnOrder
  <2>2. IsFiniteSet(B) /\ Cardinality(B) \in Nat
    BY <1>2
  <2>3. IsFiniteSet(B \ {q}) /\ Cardinality(B \ {q}) = Cardinality(B) - 1
    BY <2>1, <2>2, FS_RemoveElement
  <2>4. Cardinality(Before(heard, q)) <= Cardinality(B \ {q})
    BY <2>1, <2>3, FS_Subset
  <2> QED
    BY <1>2, <2>2, <2>3, <2>4
<1>4. ASSUME NEW q \in D
      PROVE  Cardinality(Before(heard, q)) + 1 \in 1 .. n
  <2>1. Before(heard, q) \subseteq D \ {q}
    <3>1. \A x \in D : x \in Nat /\ heard[x].uptime \in Nat /\ PeerType(x) \in {0, 1}
      BY SeniorityTypes
    <3>2. ~ComparePeerIDsBySeniority(heard, q, q)
      BY <3>1 DEF ComparePeerIDsBySeniority
    <3> QED
      BY <3>2 DEF Before
  <2>2. IsFiniteSet(D \ {q}) /\ Cardinality(D \ {q}) = n - 1
    BY <1>1, FS_RemoveElement
  <2>3. Cardinality(Before(heard, q)) <= n - 1
    BY <2>1, <2>2, FS_Subset
  <2> QED
    BY <1>1, <1>2, <2>3
<1>5. Rank \in Injection(D, 1 .. n)
  <2>1. Rank \in [D -> 1 .. n]
    BY <1>4
  <2>2. ASSUME NEW q \in D, NEW r \in D, Rank[q] = Rank[r], q # r
        PROVE  FALSE
    <3>1. Cardinality(Before(heard, q)) = Cardinality(Before(heard, r))
      BY <1>2, <2>2
    <3>2. \/ Cardinality(Before(heard, q)) < Cardinality(Before(heard, r))
          \/ Cardinality(Before(heard, r)) < Cardinality(Before(heard, q))
      BY <1>3, <2>2, SeniorityIsAnOrder
    <3> QED
      BY <1>2, <3>1, <3>2
  <2> QED
    BY <2>1, <2>2 DEF Injection, IsInjective
<1>6. Rank \in Surjection(D, 1 .. n)
  <2>1. IsFiniteSet(1 .. n) /\ Cardinality(1 .. n) = n
    BY <1>1, FS_Interval
  <2> HIDE DEF Rank
  <2> QED
    BY <1>5, <2>1, FS_Injection
<1>7. \A i \in 1 .. n : \E q \in D : Rank[q] = i
  BY <1>6 DEF Surjection
<1>8. \A q, r \in D : Rank[q] = Rank[r] => q = r
  BY <1>5 DEF Injection, IsInjective
<1>9. DOMAIN s = 1 .. n /\ \A i \in 1 .. n : s[i] \in D /\ Rank[s[i]] = i
  <2>1. ASSUME NEW i \in 1 .. n
        PROVE  \E q \in D : Cardinality(Before(heard, q)) = i - 1
    <3>1. PICK q \in D : Rank[q] = i
      BY <1>7
    <3> QED
      BY <1>2, <3>1
  <2>2. \A i \in 1 .. n : s[i] = CHOOSE q \in D : Cardinality(Before(heard, q)) = i - 1
    BY DEF SortedBySeniority, Before
  <2>3. \A i \in 1 .. n : s[i] \in D /\ Cardinality(Before(heard, s[i])) = i - 1
    <3> HIDE DEF s, Rank
    <3> QED
      BY <2>1, <2>2
  <2>4. DOMAIN s = 1 .. n
    BY DEF SortedBySeniority
  <2> HIDE DEF s
  <2> QED
    BY <2>3, <2>4
<1> HIDE DEF s, Rank
<1>10. IsInjective(s)
  BY <1>9 DEF IsInjective
<1>11. Range(s) = D
  <2>1. ASSUME NEW q \in D PROVE \E i \in 1 .. n : s[i] = q
    <3>1. Rank[q] \in 1 .. n
      BY <1>5 DEF Injection
    <3> QED
      BY <1>8, <1>9, <3>1
  <2>2. Range(s) = {s[i] : i \in 1 .. n}
    BY <1>9 DEF Range
  <2>3. \A i \in 1 .. n : s[i] \in D
    BY <1>9
  <2> HIDE DEF D, n
  <2> QED
    BY <2>1, <2>2, <2>3
<1>12. s \in Seq(Peers)
  <2>1. s = [i \in 1 .. n |-> s[i]]
    <3> DEFINE g(i) == CHOOSE q \in DOMAIN heard :
                 Cardinality({r \in DOMAIN heard : ComparePeerIDsBySeniority(heard, r, q)}) = i - 1
    <3>1. s = [i \in 1 .. n |-> g(i)]
      BY DEF s, SortedBySeniority
    <3> HIDE DEF g
    <3> QED
      BY <3>1
  <2>2. s \in [1 .. n -> Peers]
    BY <1>1, <1>9, <2>1
  <2> QED
    BY <1>1, <2>2, SeqDef
<1> QED
  BY <1>10, <1>11, <1>12, PeerListIntro DEF s

(* Whoever it is taken from, the order has everybody who is heard, once.   *)
LEMMA OrderFacts ==
  ASSUME NEW heard \in BySource(Heartbeats)
  PROVE  /\ CalculateOrderedPeersList(heard) \in PeerLists
         /\ Range(CalculateOrderedPeersList(heard)) = DOMAIN heard
<1> DEFINE D == DOMAIN heard
           matching == {q \in D : PeersListMatchesIgnoreOrdering(heard, heard[q].list)}
           k == Min(matching)
<1>1. D \subseteq Peers /\ IsFiniteSet(D) /\ D \subseteq Nat
  BY SourceFacts, HeartbeatPeersAssumption
<1>2. CASE matching = {}
  <2>1. GetKingmakerPeerID(heard) = NoPeer
    BY <1>2 DEF GetKingmakerPeerID
  <2> QED
    BY <2>1, SortedFacts DEF CalculateOrderedPeersList
<1>3. CASE matching # {}
  <2>1. GetKingmakerPeerID(heard) = k
    BY <1>3 DEF GetKingmakerPeerID
  <2>2. k \in matching
    <3>1. matching \in SUBSET Nat
      BY <1>1
    <3> HIDE DEF matching
    <3> QED
      BY <1>3, <3>1, MinFacts
  <2> HIDE DEF k
  <2>3. k \in D /\ k # NoPeer
    BY <1>1, <2>2, HeartbeatPeersAssumption
  <2> DEFINE s == heard[k].list
  <2>4. CalculateOrderedPeersList(heard) = s
    BY <2>1, <2>3 DEF CalculateOrderedPeersList
  <2>5. s \in PeerLists
    <3>1. heard[k] \in Heartbeats
      BY <2>3, SourceFacts
    <3> QED
      BY <3>1 DEF Heartbeats
  <2>6. Len(s) = Cardinality(D) /\ Range(s) \subseteq D
    BY <2>2 DEF PeersListMatchesIgnoreOrdering
  <2> HIDE DEF s
  <2>7. /\ s \in Seq(Peers) /\ IsInjective(s) /\ Len(s) \in Nat /\ DOMAIN s = 1 .. Len(s)
        /\ s \in [1 .. Len(s) -> Peers]
    BY <2>5, PeerListFacts, LenProperties
  <2>8. s \in [1 .. Len(s) -> D]
    BY <2>6, <2>7 DEF Range
  <2>9. s \in Injection(1 .. Len(s), D)
    BY <2>7, <2>8 DEF Injection, IsInjective
  <2>10. Cardinality(1 .. Len(s)) = Len(s)
    BY <2>7, FS_Interval
  <2>11. s \in Surjection(1 .. Len(s), D)
    BY <1>1, <2>6, <2>9, <2>10, FS_Injection
  <2>12. Range(s) = D
    BY <2>6, <2>7, <2>11 DEF Surjection, Range
  <2> QED
    BY <2>4, <2>5, <2>12
<1> QED
  BY <1>2, <1>3

(* What the main thread is told.                                           *)
LEMMA OfficialFacts ==
  ASSUME NEW d \in Threads
  PROVE  OfficialPeers(d) \in PeerLists /\ Range(OfficialPeers(d)) = Attached(d.heard)
<1>1. d.heard \in BySource(Heartbeats)
  BY DEF Threads
<1>2. Range(CalculateOrderedPeersList(d.heard)) \cap Attached(d.heard) = Attached(d.heard)
  BY <1>1, OrderFacts DEF Attached
<1> QED
  BY <1>1, <1>2, OrderFacts, OnlyFacts DEF OfficialPeers

---------------------------------------------------------------------------
(* What the main thread makes of it.                                       *)

LEMMA MoveToBehindFacts ==
  ASSUME NEW list \in Seq(Peers), NEW x \in Peers, NEW prev \in Range(list)
  PROVE  /\ MoveToBehind(list, x, prev) \in Seq(Peers)
         /\ Range(MoveToBehind(list, x, prev)) = Range(list) \cup {x}
         /\ IsInjective(list) /\ x \notin Range(list) => IsInjective(MoveToBehind(list, x, prev))
<1> DEFINE i == CHOOSE j \in DOMAIN list : list[j] = prev
           n == Len(list)
           t == MoveToBehind(list, x, prev)
           a == SubSeq(list, 1, i)
           b == SubSeq(list, i + 1, n)
<1>1. n \in Nat /\ DOMAIN list = 1 .. n /\ \A j \in 1 .. n : list[j] \in Peers
  BY LenProperties, ElementOfSeq
<1>2. i \in 1 .. n
  BY <1>1 DEF Range
<1>3. t = a \o <<x>> \o b
  BY DEF MoveToBehind
<1> HIDE DEF i, t
<1>4. /\ t \in Seq(Peers) /\ Len(t) = n + 1
      /\ \A j \in 1 .. n + 1 :
           t[j] = IF j <= i THEN list[j] ELSE IF j = i + 1 THEN x ELSE list[j - 1]
  <2>1. /\ a \in Seq(Peers) /\ Len(a) = i
        /\ \A j \in 1 .. i : a[j] = list[j]
    BY <1>1, <1>2
  <2>2. /\ b \in Seq(Peers) /\ Len(b) = n - i
        /\ \A j \in 1 .. n - i : b[j] = list[i + j]
    <3> DEFINE m == i + 1
    <3>1. m \in Int /\ n \in Int /\ \A j \in m .. n : list[j] \in Peers
      BY <1>1, <1>2
    <3> HIDE DEF m, n
    <3>2. /\ SubSeq(list, m, n) \in Seq(Peers)
          /\ Len(SubSeq(list, m, n)) = IF m <= n THEN n - m + 1 ELSE 0
          /\ \A j \in 1 .. n - m + 1 : SubSeq(list, m, n)[j] = list[m + j - 1]
      BY <3>1, SubSeqProperties
    <3>3. n \in Int /\ i \in Int /\ i <= n
      BY <1>1, <1>2
    <3>4. n - m + 1 = n - i /\ (IF m <= n THEN n - m + 1 ELSE 0) = n - i
      BY <3>3 DEF m
    <3>5. \A j \in 1 .. n - i : m + j - 1 = i + j
      BY <3>3 DEF m
    <3> QED
      BY <3>2, <3>4, <3>5 DEF m
  <2> HIDE DEF a, b
  <2>3. /\ a \o <<x>> \in Seq(Peers) /\ Len(a \o <<x>>) = i + 1
        /\ \A j \in 1 .. i + 1 : (a \o <<x>>)[j] = IF j <= i THEN list[j] ELSE x
    BY <1>1, <1>2, <2>1
  <2> DEFINE c == a \o <<x>>
  <2>4. t = c \o b
    BY <1>3
  <2> HIDE DEF c
  <2>5. c \in Seq(Peers) /\ Len(c) = i + 1 /\ \A j \in 1 .. i + 1 : c[j] = IF j <= i THEN list[j] ELSE x
    BY <2>3 DEF c
  <2>6. /\ t \in Seq(Peers) /\ Len(t) = (i + 1) + (n - i)
        /\ \A j \in 1 .. (i + 1) + (n - i) : t[j] = IF j <= i + 1 THEN c[j] ELSE b[j - (i + 1)]
    <3>1. b \in Seq(Peers) /\ Len(b) = n - i
      BY <2>2
    <3>2. c \in Seq(Peers) /\ Len(c) = i + 1
      BY <2>5
    <3>3. /\ c \o b \in Seq(Peers) /\ Len(c \o b) = Len(c) + Len(b)
          /\ \A j \in 1 .. Len(c) + Len(b) : (c \o b)[j] = IF j <= Len(c) THEN c[j] ELSE b[j - Len(c)]
      BY <3>1, <3>2, ConcatProperties
    <3> QED
      BY <2>4, <3>1, <3>2, <3>3
  <2>7. (i + 1) + (n - i) = n + 1
    BY <1>1, <1>2
  <2>8. ASSUME NEW j \in 1 .. n + 1
        PROVE  t[j] = IF j <= i THEN list[j] ELSE IF j = i + 1 THEN x ELSE list[j - 1]
    <3>1. t[j] = IF j <= i + 1 THEN c[j] ELSE b[j - (i + 1)]
      BY <2>6, <2>7
    <3>2. CASE j <= i + 1
      BY <1>1, <1>2, <2>5, <3>1, <3>2
    <3>3. CASE ~(j <= i + 1)
      <4>1. j - (i + 1) \in 1 .. n - i /\ i + (j - (i + 1)) = j - 1
        BY <1>1, <1>2, <3>3
      <4> QED
        BY <1>1, <1>2, <2>2, <3>1, <3>3, <4>1
    <3> QED
      BY <3>2, <3>3
  <2> QED
    BY <2>6, <2>7, <2>8
<1>5. DOMAIN t = 1 .. n + 1
  BY <1>1, <1>4, LenProperties
<1>6. Range(t) = Range(list) \cup {x}
  <2>1. ASSUME NEW j \in 1 .. n + 1 PROVE t[j] \in Range(list) \cup {x}
    <3>1. (j <= i => j \in 1 .. n) /\ (j > i + 1 => j - 1 \in 1 .. n)
      BY <1>1, <1>2
    <3>2. CASE j = i + 1
      BY <1>2, <1>4, <3>2
    <3>3. CASE j <= i
      BY <1>1, <1>4, <3>1, <3>3 DEF Range
    <3>4. CASE j > i + 1
      <4>1. t[j] = list[j - 1]
        BY <1>2, <1>4, <3>4
      <4> QED
        BY <1>1, <3>1, <3>4, <4>1 DEF Range
    <3> QED
      BY <1>2, <3>2, <3>3, <3>4
  <2>2. ASSUME NEW j \in 1 .. n PROVE list[j] \in Range(t)
    <3>1. CASE j <= i
      <4>1. j \in 1 .. n + 1 /\ t[j] = list[j]
        BY <1>1, <1>4, <3>1
      <4> QED
        BY <1>5, <4>1 DEF Range
    <3>2. CASE ~(j <= i)
      <4>1. j + 1 \in 1 .. n + 1 /\ ~(j + 1 <= i) /\ j + 1 # i + 1 /\ (j + 1) - 1 = j
        BY <1>1, <1>2, <3>2
      <4>2. t[j + 1] = list[j]
        BY <1>4, <4>1
      <4> QED
        BY <1>5, <4>1, <4>2 DEF Range
    <3> QED
      BY <3>1, <3>2
  <2>3. i + 1 \in 1 .. n + 1 /\ t[i + 1] = x
    BY <1>1, <1>2, <1>4
  <2>4. x \in Range(t)
    BY <1>5, <2>3 DEF Range
  <2> QED
    BY <1>1, <1>5, <2>1, <2>2, <2>4 DEF Range
<1>7. ASSUME IsInjective(list), x \notin Range(list),
             NEW j \in 1 .. n + 1, NEW m \in 1 .. n + 1, t[j] = t[m]
      PROVE  j = m
  <2> DEFINE from(l) == IF l <= i THEN l ELSE l - 1
  <2>1. \A l \in 1 .. n + 1 : l # i + 1 => from(l) \in 1 .. n /\ t[l] = list[from(l)]
    BY <1>1, <1>2, <1>4
  <2>2. \A l \in 1 .. n : list[l] # x
    BY <1>1, <1>7 DEF Range
  <2>3. t[i + 1] = x
    BY <1>1, <1>2, <1>4
  <2>4. CASE j = i + 1 \/ m = i + 1
    BY <1>7, <2>1, <2>2, <2>3, <2>4
  <2>5. CASE j # i + 1 /\ m # i + 1
    <3>1. from(j) = from(m)
      BY <1>1, <1>7, <2>1, <2>5 DEF IsInjective
    <3> QED
      BY <1>2, <2>5, <3>1
  <2> QED
    BY <2>4, <2>5
<1>8. IsInjective(list) /\ x \notin Range(list) => IsInjective(t)
  BY <1>5, <1>7 DEF IsInjective
<1> QED
  BY <1>4, <1>6, <1>8 DEF t

(* The list after each step of UpdatedPeers().                             *)
IsUpdating(f, list, update, N) ==
  f = [i \in 0 .. N |-> IF i = 0 THEN Only(list, Range(update)) ELSE PeerAdded(f[i - 1], update, i)]

LEMMA UpdatingExists ==
  ASSUME NEW list, NEW update
  PROVE  \A N \in Nat : \E f : IsUpdating(f, list, update, N)
<1> DEFINE a == Only(list, Range(update))
           T == {N \in Nat : \E f : IsUpdating(f, list, update, N)}
<1>1. 0 \in T
  <2> DEFINE f == [i \in 0 .. 0 |-> a]
  <2>1. f = [i \in 0 .. 0 |-> IF i = 0 THEN a ELSE PeerAdded(f[i - 1], update, i)]
    OBVIOUS
  <2> QED
    BY <2>1 DEF IsUpdating
<1>2. ASSUME NEW n \in Nat, n \in T
      PROVE  n + 1 \in T
  <2>1. PICK f : IsUpdating(f, list, update, n)
    BY <1>2
  <2> HIDE DEF a
  <2> DEFINE x == n + 1
             g == [i \in 0 .. x |-> IF i < x THEN f[i] ELSE PeerAdded(f[n], update, x)]
  <2>2. f = [i \in 0 .. n |-> IF i = 0 THEN a ELSE PeerAdded(f[i - 1], update, i)]
    BY <2>1 DEF IsUpdating, a
  <2>3. ASSUME NEW i \in 0 .. x
        PROVE  g[i] = IF i = 0 THEN a ELSE PeerAdded(g[i - 1], update, i)
    <3>1. CASE i = 0
      BY <2>2, <3>1
    <3>2. CASE i > 0 /\ i < x
      <4>1. i \in 0 .. n /\ i - 1 \in 0 .. n /\ i - 1 < x /\ i - 1 \in 0 .. x
        BY <2>3, <3>2
      <4>2. f[i] = PeerAdded(f[i - 1], update, i)
        BY <2>2, <3>2, <4>1
      <4>3. g[i] = f[i] /\ g[i - 1] = f[i - 1]
        BY <2>3, <3>2, <4>1
      <4> QED
        BY <3>2, <4>2, <4>3
    <3>3. CASE i = x
      <4>1. n \in 0 .. x /\ n < x /\ ~(x < x) /\ x - 1 = n /\ x # 0
        OBVIOUS
      <4>2. g[x] = PeerAdded(f[n], update, x) /\ g[n] = f[n]
        BY <3>3, <4>1
      <4> QED
        BY <3>3, <4>1, <4>2
    <3> QED
      BY <2>3, <3>1, <3>2, <3>3
  <2>4. g = [i \in 0 .. x |-> IF i = 0 THEN a ELSE PeerAdded(g[i - 1], update, i)]
    BY <2>3
  <2> HIDE DEF g
  <2>5. IsUpdating(g, list, update, x)
    BY <2>4 DEF IsUpdating, a
  <2> QED
    BY <2>5
<1>3. \A n \in Nat : n \in T
  <2> HIDE DEF T
  <2> QED
    BY <1>1, <1>2, SetInduction
<1> QED
  BY <1>3

(* A new peer that comes first.                                            *)
LEMMA PutFirstFacts ==
  ASSUME NEW s \in Seq(Peers), NEW q \in Peers, q \notin Range(s), IsInjective(s)
  PROVE  /\ <<q>> \o s \in Seq(Peers)
         /\ Range(<<q>> \o s) = Range(s) \cup {q}
         /\ IsInjective(<<q>> \o s)
<1> DEFINE t == <<q>> \o s
           n == Len(s)
<1>1. n \in Nat /\ DOMAIN s = 1 .. n
  BY LenProperties
<1>2. <<q>> \in Seq(Peers) /\ Len(<<q>>) = 1 /\ <<q>>[1] = q
  OBVIOUS
<1>3. /\ t \in Seq(Peers) /\ Len(t) = 1 + n
      /\ \A i \in 1 .. 1 + n : t[i] = IF i <= 1 THEN <<q>>[i] ELSE s[i - 1]
  <2>1. /\ t \in Seq(Peers) /\ Len(t) = Len(<<q>>) + n
        /\ \A i \in 1 .. Len(<<q>>) + n : t[i] = IF i <= Len(<<q>>) THEN <<q>>[i] ELSE s[i - Len(<<q>>)]
    BY <1>2, ConcatProperties
  <2> QED
    BY <1>2, <2>1
<1> HIDE DEF t
<1>4. DOMAIN t = 1 .. n + 1
  BY <1>1, <1>3, LenProperties
<1>5. t[1] = q /\ \A i \in 2 .. n + 1 : i - 1 \in 1 .. n /\ t[i] = s[i - 1]
  BY <1>1, <1>2, <1>3
<1>6. \A i \in 1 .. n + 1 : i = 1 \/ i \in 2 .. n + 1
  BY <1>1
<1>7. \A i \in 1 .. n : i + 1 \in 2 .. n + 1 /\ t[i + 1] = s[i] /\ i + 1 \in 1 .. n + 1
  BY <1>1, <1>5
<1>8. Range(t) = Range(s) \cup {q}
  <2>1. 1 \in 1 .. n + 1
    BY <1>1
  <2> QED
    BY <1>1, <1>4, <1>5, <1>6, <1>7, <2>1 DEF Range
<1>9. ASSUME NEW i \in 1 .. n + 1, NEW j \in 1 .. n + 1, t[i] = t[j]
      PROVE  i = j
  <2>1. \A k \in 1 .. n : s[k] # q
    BY <1>1 DEF Range
  <2>2. CASE i = 1 \/ j = 1
    BY <1>5, <1>6, <1>9, <2>1, <2>2
  <2>3. CASE i \in 2 .. n + 1 /\ j \in 2 .. n + 1
    <3>1. i - 1 = j - 1
      BY <1>1, <1>5, <1>9, <2>3 DEF IsInjective
    <3> QED
      BY <2>3, <3>1
  <2> QED
    BY <1>6, <2>2, <2>3
<1> QED
  BY <1>3, <1>4, <1>8, <1>9 DEF t, IsInjective

(* The main thread ends up with exactly the peers of the update.           *)
LEMMA UpdatedFacts ==
  ASSUME NEW list \in PeerLists, NEW update \in PeerLists
  PROVE  /\ UpdatedPeers(list, update) \in PeerLists
         /\ Range(UpdatedPeers(list, update)) = Range(update)
<1> DEFINE N == Len(update)
<1>1. /\ N \in Nat /\ DOMAIN update = 1 .. N
      /\ \A i \in 1 .. N : update[i] \in Peers /\ update[i] \in Range(update)
  <2>1. update \in Seq(Peers) /\ N \in Nat /\ DOMAIN update = 1 .. N
    BY PeerListFacts
  <2> QED
    BY <2>1, ElementOfSeq DEF Range
<1>2. PICK f : IsUpdating(f, list, update, N) /\ UpdatedPeers(list, update) = f[N]
  <2>1. \E f : IsUpdating(f, list, update, N)
    BY <1>1, UpdatingExists
  <2> QED
    BY <2>1 DEF IsUpdating, UpdatedPeers
<1> DEFINE Some(n) == /\ f[n] \in Seq(Peers) /\ IsInjective(f[n])
                      /\ Range(f[n]) \subseteq Range(update)
                      /\ \A i \in 1 .. n : update[i] \in Range(f[n])
           T == {n \in Nat : n <= N => Some(n)}
<1>3. 0 \in T
  <2>1. f[0] = Only(list, Range(update))
    BY <1>1, <1>2 DEF IsUpdating
  <2>2. f[0] \in PeerLists /\ Range(f[0]) \subseteq Range(update)
    BY <2>1, OnlyFacts
  <2> QED
    BY <2>2, PeerListFacts
<1>4. ASSUME NEW n \in Nat, n \in T
      PROVE  n + 1 \in T
  <2> SUFFICES ASSUME n + 1 <= N PROVE Some(n + 1)
    OBVIOUS
  <2> DEFINE x == n + 1
  <2>1. /\ n \in 0 .. N /\ x \in 0 .. N /\ x \in 1 .. N /\ x - 1 = n /\ x # 0
        /\ \A i \in 1 .. x : i \in 1 .. n \/ i = x
        /\ (x # 1 => n \in 1 .. n)
    BY <1>1
  <2>2. f[x] = PeerAdded(f[n], update, x)
    BY <1>2, <2>1 DEF IsUpdating
  <2>3. Some(n)
    BY <1>4, <2>1
  <2>4. update[x] \in Peers /\ update[x] \in Range(update)
    BY <1>1, <2>1
  <2>5. CASE update[x] \in Range(f[n])
    <3>1. f[x] = f[n]
      BY <2>2, <2>5 DEF PeerAdded
    <3> QED
      BY <2>1, <2>3, <2>5, <3>1
  <2>6. CASE update[x] \notin Range(f[n]) /\ x = 1
    <3>1. f[x] = <<update[x]>> \o f[n]
      BY <2>2, <2>6 DEF PeerAdded
    <3>2. f[x] \in Seq(Peers) /\ Range(f[x]) = Range(f[n]) \cup {update[x]} /\ IsInjective(f[x])
      BY <2>3, <2>4, <2>6, <3>1, PutFirstFacts
    <3> QED
      BY <2>1, <2>3, <2>4, <3>2
  <2>7. CASE update[x] \notin Range(f[n]) /\ x # 1
    <3>1. f[x] = MoveToBehind(f[n], update[x], update[n])
      BY <2>1, <2>2, <2>7 DEF PeerAdded
    <3>2. update[n] \in Range(f[n])
      BY <2>1, <2>3, <2>7
    <3>3. f[x] \in Seq(Peers) /\ Range(f[x]) = Range(f[n]) \cup {update[x]} /\ IsInjective(f[x])
      BY <2>3, <2>4, <2>7, <3>1, <3>2, MoveToBehindFacts
    <3> QED
      BY <2>1, <2>3, <2>4, <3>3
  <2> QED
    BY <2>5, <2>6, <2>7
<1>5. \A n \in Nat : n \in T
  <2> HIDE DEF T
  <2> QED
    BY <1>3, <1>4, SetInduction
<1>6. N \in T /\ N <= N
  <2> HIDE DEF T
  <2> QED
    BY <1>1, <1>5
<1>7. Some(N)
  <2> HIDE DEF Some, N
  <2> QED
    BY <1>6
<1>8. Range(f[N]) = Range(update)
  BY <1>1, <1>7 DEF Range
<1>9. f[N] \in PeerLists
  BY <1>7, PeerListIntro
<1> QED
  BY <1>2, <1>8, <1>9

---------------------------------------------------------------------------
(* What a heartbeat thread does to its own state.                          *)

LEMMA NumberFacts ==
  /\ {MaxTime, MaxCrashes, MaxLosses, NEVER} \subseteq Nat
  /\ {HeartbeatsPerSecond, HeartbeatsBeforeFullyAttached, MaxMissingHeartbeats} \subseteq Nat \ {0}
  /\ Times = 0 .. MaxTime
  /\ NEVER = MaxTime + MaxMissingHeartbeats + 1
BY IntervalsAssumption DEF Times, NEVER

LEMMA EmptyPeerList == <<>> \in PeerLists /\ Range(<<>>) = {}
<1>1. <<>> \in Seq(Peers) /\ IsInjective(<<>>)
  BY DEF IsInjective
<1>2. Range(<<>>) = {}
  BY DEF Range
<1> QED
  BY <1>1, <1>2, PeerListIntro

LEMMA IdleFacts ==
  ASSUME now \in Times
  PROVE  /\ IdleThread \in Threads
         /\ [IdleThread EXCEPT !.running = TRUE, !.birth = now, !.nextSend = now] \in Threads
<1>1. \A S : Nowhere \in BySource(S)
  <2>1. \A S : Nowhere \in [{} -> S]
    BY DEF Nowhere
  <2> QED
    BY <2>1, SourceIntro
<1>2. 0 \in Times /\ 0 \in 0 .. MaxTime + 1 /\ now \in 0 .. MaxTime + 1
  BY NumberFacts
<1>3. Nowhere \in BySource(Heartbeats) /\ Nowhere \in BySource(0 .. NEVER)
  BY <1>1
<1>4. IdleThread \in Threads
  BY <1>2, <1>3, EmptyPeerList DEF IdleThread, Threads
<1> QED
  BY <1>2, <1>4 DEF Threads

(* The part of the invariant that concerns a thread's state alone.         *)
SoundThread(d) ==
  /\ d \in Threads
  /\ DOMAIN d.expires = DOMAIN d.heard
  /\ d.birth <= now
  /\ d.force => d.pending
  /\ d.reported => IsFullyAttached(d)

LEMMA UpdateFacts ==
  ASSUME NEW d, SoundThread(d)
  PROVE  LET e == UpdateOfficialPeersList(d)
         IN  /\ SoundThread(e) /\ ~e.force /\ ~e.pending
             /\ e.heard = d.heard /\ e.reported = d.reported /\ e.nextSend = d.nextSend
<1> DEFINE l == IF SendsUpdate(d) THEN CalculateOrderedPeersList(d.heard) ELSE d.lastSent
           e == [d EXCEPT !.pending = FALSE, !.force = FALSE, !.lastSent = l]
<1>1. d \in Threads
  BY DEF SoundThread
<1>2. d.heard \in BySource(Heartbeats) /\ d.lastSent \in PeerLists
  BY <1>1 DEF Threads
<1>3. l \in PeerLists
  BY <1>2, OrderFacts
<1>4. UpdateOfficialPeersList(d) = e
  BY DEF UpdateOfficialPeersList
<1> HIDE DEF l
<1>5. /\ e \in Threads /\ e.force = FALSE /\ e.pending = FALSE /\ e.heard = d.heard
      /\ e.expires = d.expires /\ e.birth = d.birth /\ e.reported = d.reported
      /\ e.nextSend = d.nextSend
  BY <1>1, <1>3 DEF Threads
<1> HIDE DEF e
<1> QED
  BY <1>4, <1>5 DEF SoundThread, IsFullyAttached

LEMMA SentFacts ==
  ASSUME now \in Times, NEW d, SoundThread(d)
  PROVE  LET e == [d EXCEPT !.nextSend = now + 1]
         IN  /\ SoundThread(e) /\ e.force = d.force /\ e.pending = d.pending
             /\ e.heard = d.heard /\ e.reported = d.reported
<1> DEFINE e == [d EXCEPT !.nextSend = now + 1]
<1>1. now + 1 \in 0 .. MaxTime + 1
  BY NumberFacts
<1>2. /\ e \in Threads /\ e.force = d.force /\ e.pending = d.pending /\ e.heard = d.heard
      /\ e.expires = d.expires /\ e.birth = d.birth /\ e.reported = d.reported
  BY <1>1 DEF SoundThread, Threads
<1> HIDE DEF e
<1>3. SoundThread(e)
  BY <1>2 DEF SoundThread, IsFullyAttached
<1> QED
  BY <1>2, <1>3 DEF e

LEMMA ExpireFacts ==
  ASSUME NEW d, SoundThread(d)
  PROVE  LET e == ExpireSources(d)
         IN  /\ SoundThread(e) /\ e.reported = d.reported
             /\ e = d \/ e.force
<1>1. CASE Expired(d) = {}
  BY <1>1 DEF ExpireSources
<1>2. CASE Expired(d) # {}
  <2> DEFINE D == DOMAIN d.heard \ Expired(d)
             h == [q \in D |-> d.heard[q]]
             x == [q \in D |-> d.expires[q]]
             e == [d EXCEPT !.heard = h, !.expires = x, !.pending = TRUE, !.force = TRUE]
  <2>1. d \in Threads /\ DOMAIN d.expires = DOMAIN d.heard
    BY DEF SoundThread
  <2>2. d.heard \in BySource(Heartbeats) /\ d.expires \in BySource(0 .. NEVER)
    BY <2>1 DEF Threads
  <2>3. /\ DOMAIN d.heard \subseteq Peers
        /\ \A q \in DOMAIN d.heard : d.heard[q] \in Heartbeats /\ d.expires[q] \in 0 .. NEVER
    BY <2>1, <2>2, SourceFacts
  <2>4. D \in SUBSET Peers /\ h \in [D -> Heartbeats] /\ x \in [D -> 0 .. NEVER]
    BY <2>3
  <2>5. h \in BySource(Heartbeats) /\ x \in BySource(0 .. NEVER)
    <3> HIDE DEF h, x, D
    <3> QED
      BY <2>4, SourceIntro
  <2>6. ExpireSources(d) = e
    <3>1. Restrict(d.heard, D) = h /\ Restrict(d.expires, D) = x
      BY DEF Restrict
    <3>2. [d EXCEPT !.heard = Restrict(@, DOMAIN @ \ Expired(d)),
                    !.expires = Restrict(@, DOMAIN @ \ Expired(d))]
            = [d EXCEPT !.heard = h, !.expires = x]
      BY <2>1, <3>1 DEF Threads
    <3> HIDE DEF h, x, D
    <3> QED
      BY <1>2, <2>1, <3>2 DEF ExpireSources, ScheduleUpdateOfficialPeersList, Threads
  <2>7. DOMAIN h = D /\ DOMAIN x = D
    OBVIOUS
  <2> HIDE DEF h, x, D
  <2>8. /\ e \in Threads /\ e.force = TRUE /\ e.pending = TRUE /\ e.heard = h /\ e.expires = x
        /\ e.birth = d.birth /\ e.reported = d.reported
    BY <2>1, <2>5 DEF Threads
  <2> HIDE DEF e
  <2> QED
    BY <2>6, <2>7, <2>8 DEF SoundThread, IsFullyAttached
<1> QED
  BY <1>1, <1>2

LEMMA ReportFacts ==
  ASSUME NEW d, SoundThread(d)
  PROVE  LET e == ReportFullAttachment(d)
         IN  SoundThread(e) /\ (e = d \/ e.force)
<1>1. CASE ~(~d.reported /\ IsFullyAttached(d))
  BY <1>1 DEF ReportFullAttachment
<1>2. CASE ~d.reported /\ IsFullyAttached(d)
  <2> DEFINE e == [d EXCEPT !.reported = TRUE, !.pending = TRUE, !.force = TRUE]
  <2>1. d \in Threads
    BY DEF SoundThread
  <2>2. ReportFullAttachment(d) = e
    BY <1>2, <2>1 DEF ReportFullAttachment, ScheduleUpdateOfficialPeersList, Threads
  <2>3. /\ e \in Threads /\ e.force = TRUE /\ e.pending = TRUE /\ e.heard = d.heard
        /\ e.expires = d.expires /\ e.birth = d.birth /\ e.reported = TRUE
    BY <2>1 DEF Threads
  <2> HIDE DEF e
  <2> QED
    BY <1>2, <2>2, <2>3 DEF SoundThread, IsFullyAttached
<1> QED
  BY <1>1, <1>2

(* The heartbeat a thread sends.                                           *)
LEMMA PacketFacts ==
  ASSUME now \in Times, NEW p \in Peers, NEW d, SoundThread(d)
  PROVE  HeartbeatPacket(p, d) \in Heartbeats
<1>1. d.heard \in BySource(Heartbeats) /\ d.birth \in Times /\ d.birth <= now
  BY DEF SoundThread, Threads
<1>2. CalculateOrderedPeersList(d.heard) \in PeerLists
  BY <1>1, OrderFacts
<1>3. (now - d.birth) \div HeartbeatsPerSecond \in Times
  <2> DEFINE x == now - d.birth
             k == HeartbeatsPerSecond
             y == x \div k
  <2>1. x \in 0 .. MaxTime /\ k \in Nat /\ k > 0 /\ MaxTime \in Nat
    BY <1>1, NumberFacts
  <2> HIDE DEF x, k
  <2>2. y \in 0 .. x
    BY <2>1
  <2>3. y \in 0 .. MaxTime
    BY <2>1, <2>2
  <2> QED
    BY <2>3, NumberFacts DEF x, k
<1>4. IsFullyAttached(d) \in BOOLEAN
  BY DEF IsFullyAttached
<1> QED
  BY <1>2, <1>3, <1>4, EmptyPeerList DEF HeartbeatPacket, Heartbeats

(* What a heartbeat changes.  Unless an update is forced, the attached     *)
(* peers are those that were before.                                       *)
LEMMA HeardFacts ==
  ASSUME now \in Times, NEW p \in Peers, NEW q \in Peers, NEW packet \in Heartbeats,
         NEW d, SoundThread(d)
  PROVE  LET e == SourceHeard(p, d, q, packet)
         IN  /\ SoundThread(e) /\ e.reported = d.reported
             /\ d.force => e.force
             /\ e.force \/ Attached(e.heard) = Attached(d.heard)
<1> DEFINE D == DOMAIN d.heard \cup {q}
           t == Expiration(p, q)
           h == [r \in D |-> IF r = q THEN packet ELSE d.heard[r]]
           x == [r \in D |-> IF r = q THEN t ELSE d.expires[r]]
           c == [d EXCEPT !.heard = h, !.expires = x]
           b == [c EXCEPT !.pending = TRUE, !.force = TRUE]
<1>1. d \in Threads /\ DOMAIN d.expires = DOMAIN d.heard
  BY DEF SoundThread
<1>2. d.heard \in BySource(Heartbeats) /\ d.expires \in BySource(0 .. NEVER)
  BY <1>1 DEF Threads
<1>3. /\ DOMAIN d.heard \subseteq Peers
      /\ \A r \in DOMAIN d.heard : d.heard[r] \in Heartbeats /\ d.expires[r] \in 0 .. NEVER
  BY <1>1, <1>2, SourceFacts
<1>4. t \in 0 .. NEVER
  BY NumberFacts DEF Expiration
<1> HIDE DEF t
<1>5. D \in SUBSET Peers /\ h \in [D -> Heartbeats] /\ x \in [D -> 0 .. NEVER]
  BY <1>3, <1>4
<1>6. h \in BySource(Heartbeats) /\ x \in BySource(0 .. NEVER) /\ DOMAIN h = D /\ DOMAIN x = D
  <2> HIDE DEF h, x, D
  <2> QED
    BY <1>5, SourceIntro
<1>7. SetHeartbeatPacket(d, q, packet, t, IsNews(d, q, packet))
        = IF IsNews(d, q, packet) THEN b ELSE c
  <2>1. [d EXCEPT
            !.heard = [r \in DOMAIN @ \cup {q} |-> IF r = q THEN packet ELSE @[r]],
            !.expires = [r \in DOMAIN @ \cup {q} |-> IF r = q THEN t ELSE @[r]]] = c
    BY <1>1 DEF Threads
  <2> HIDE DEF h, x, D
  <2>2. ScheduleUpdateOfficialPeersList(c, TRUE) = b
    BY <1>1 DEF ScheduleUpdateOfficialPeersList, Threads
  <2> HIDE DEF c, b
  <2> QED
    BY <2>1, <2>2 DEF SetHeartbeatPacket
<1>8. SourceHeard(p, d, q, packet) = IF IsNews(d, q, packet) THEN b ELSE c
  BY <1>7 DEF SourceHeard, t
<1>9. ~IsNews(d, q, packet) => Attached(h) = Attached(d.heard)
  BY <1>3 DEF IsNews, Attached
<1> HIDE DEF h, x, D
<1>10. /\ c \in Threads /\ c.force = d.force /\ c.pending = d.pending /\ c.heard = h /\ c.expires = x
       /\ c.birth = d.birth /\ c.reported = d.reported
  BY <1>1, <1>6 DEF Threads
<1>11. /\ b \in Threads /\ b.force = TRUE /\ b.pending = TRUE /\ b.heard = h /\ b.expires = x
       /\ b.birth = d.birth /\ b.reported = d.reported
  <2> HIDE DEF c
  <2> QED
    BY <1>10 DEF Threads
<1> HIDE DEF b, c
<1>12. SoundThread(c)
  BY <1>6, <1>10 DEF SoundThread, IsFullyAttached
<1>13. SoundThread(b)
  BY <1>6, <1>11 DEF SoundThread, IsFullyAttached
<1> QED
  BY <1>8, <1>9, <1>10, <1>11, <1>12, <1>13

(* An update that is not forced is scheduled.                              *)
LEMMA ScheduleFacts ==
  ASSUME NEW d, SoundThread(d)
  PROVE  LET e == ScheduleUpdateOfficialPeersList(d, FALSE)
         IN  SoundThread(e) /\ e.reported = d.reported /\ e.force = d.force /\ e.heard = d.heard
<1> DEFINE e == [d EXCEPT !.pending = TRUE, !.force = @ \/ FALSE]
<1>1. d \in Threads
  BY DEF SoundThread
<1>2. /\ e \in Threads /\ e.force = d.force /\ e.pending = TRUE /\ e.heard = d.heard
      /\ e.expires = d.expires /\ e.birth = d.birth /\ e.reported = d.reported
  BY <1>1 DEF Threads
<1>3. ScheduleUpdateOfficialPeersList(d, FALSE) = e
  BY DEF ScheduleUpdateOfficialPeersList
<1> HIDE DEF e
<1> QED
  BY <1>2, <1>3 DEF SoundThread, IsFullyAttached

---------------------------------------------------------------------------
(* The invariant: types, and that news is forced.                          *)

HeartbeatInvariant == TypeOK /\ NewsIsForced

(* The invariant by peer.                                                  *)
SoundPeer(p) ==
  /\ SoundThread(hb[p])
  /\ toMain[p] \in Seq(PeerLists) /\ mainPeers[p] \in PeerLists
  /\ hb[p].reported /\ ~hb[p].force => Range(LastTold(p)) = Attached(hb[p].heard)

SoundPackets == packets \subseteq [from : Peers, to : Peers, packet : Heartbeats]

SoundRest ==
  /\ now \in Times /\ ended \subseteq Peers /\ losses \in 0 .. MaxLosses /\ disturbed \in Times
  /\ DOMAIN hb = Peers /\ hb = [p \in Peers |-> hb[p]]
  /\ DOMAIN toMain = Peers /\ toMain = [p \in Peers |-> toMain[p]]
  /\ DOMAIN mainPeers = Peers /\ mainPeers = [p \in Peers |-> mainPeers[p]]

LEMMA InvariantByPeer ==
  HeartbeatInvariant <=> SoundRest /\ SoundPackets /\ \A p \in Peers : SoundPeer(p)
<1>1. ASSUME HeartbeatInvariant
      PROVE  SoundRest /\ SoundPackets /\ \A p \in Peers : SoundPeer(p)
  BY <1>1 DEF HeartbeatInvariant, TypeOK, NewsIsForced, SoundRest, SoundPackets, SoundPeer, SoundThread
<1>2. ASSUME SoundRest, SoundPackets, \A p \in Peers : SoundPeer(p)
      PROVE  HeartbeatInvariant
  <2>1. /\ \A p \in Peers : hb[p] \in Threads /\ toMain[p] \in Seq(PeerLists) /\ mainPeers[p] \in PeerLists
        /\ \A p \in Peers : DOMAIN hb[p].expires = DOMAIN hb[p].heard /\ hb[p].birth <= now
    BY <1>2 DEF SoundPeer, SoundThread
  <2>2. hb \in [Peers -> Threads]
    BY <1>2, <2>1 DEF SoundRest
  <2>3. toMain \in [Peers -> Seq(PeerLists)]
    BY <1>2, <2>1 DEF SoundRest
  <2>4. mainPeers \in [Peers -> PeerLists]
    BY <1>2, <2>1 DEF SoundRest
  <2>5. TypeOK
    BY <1>2, <2>1, <2>2, <2>3, <2>4 DEF SoundRest, SoundPackets, TypeOK
  <2>6. NewsIsForced
    BY <1>2 DEF NewsIsForced, SoundPeer, SoundThread
  <2> QED
    BY <2>5, <2>6 DEF HeartbeatInvariant
<1> QED
  BY <1>1, <1>2

LEMMA PrimedInvariantByPeer ==
  ASSUME SoundRest', SoundPackets', \A p \in Peers : SoundPeer(p)'
  PROVE  HeartbeatInvariant'
<1>1. /\ \A p \in Peers : hb'[p] \in Threads /\ toMain'[p] \in Seq(PeerLists) /\ mainPeers'[p] \in PeerLists
      /\ \A p \in Peers : DOMAIN hb'[p].expires = DOMAIN hb'[p].heard /\ hb'[p].birth <= now'
  BY DEF SoundPeer, SoundThread
<1>2. hb' \in [Peers -> Threads]
  BY <1>1 DEF SoundRest
<1>3. toMain' \in [Peers -> Seq(PeerLists)]
  BY <1>1 DEF SoundRest
<1>4. mainPeers' \in [Peers -> PeerLists]
  BY <1>1 DEF SoundRest
<1>5. TypeOK'
  BY <1>1, <1>2, <1>3, <1>4 DEF SoundRest, SoundPackets, TypeOK
<1>6. NewsIsForced'
  BY DEF NewsIsForced, SoundPeer, SoundThread
<1> QED
  BY <1>5, <1>6 DEF HeartbeatInvariant

LEMMA HeartbeatInit == Init => HeartbeatInvariant
<1> SUFFICES ASSUME Init PROVE HeartbeatInvariant
  OBVIOUS
<1>1. now = 0 /\ now \in Times /\ 0 \in 0 .. MaxLosses
  BY NumberFacts DEF Init
<1>2. SoundRest
  BY <1>1 DEF Init, SoundRest
<1>3. SoundPackets
  BY DEF Init, SoundPackets
<1>4. ASSUME NEW p \in Peers PROVE SoundPeer(p)
  <2>1. hb[p] = IdleThread /\ toMain[p] = <<>> /\ mainPeers[p] = <<>>
    BY DEF Init
  <2>2. /\ IdleThread \in Threads /\ IdleThread.birth = 0 /\ ~IdleThread.force /\ ~IdleThread.reported
        /\ DOMAIN IdleThread.expires = DOMAIN IdleThread.heard
    BY <1>1, IdleFacts DEF IdleThread
  <2>3. <<>> \in Seq(PeerLists)
    OBVIOUS
  <2> QED
    BY <1>1, <2>1, <2>2, <2>3, EmptyPeerList DEF SoundPeer, SoundThread
<1> QED
  BY <1>2, <1>3, <1>4, InvariantByPeer

(* A peer that a step leaves alone.                                        *)
LEMMA PeerLeftAlone ==
  ASSUME NEW p \in Peers, SoundPeer(p), now' = now,
         hb'[p] = hb[p], toMain'[p] = toMain[p], mainPeers'[p] = mainPeers[p]
  PROVE  SoundPeer(p)'
BY DEF SoundPeer, SoundThread, IsFullyAttached, LastTold

(* A step that concerns one peer.                                          *)
LEMMA OnePeerChanges ==
  ASSUME HeartbeatInvariant, SoundRest', SoundPackets', now' = now,
         NEW p \in Peers, SoundPeer(p)',
         \A q \in Peers : q # p =>
           hb'[q] = hb[q] /\ toMain'[q] = toMain[q] /\ mainPeers'[q] = mainPeers[q]
  PROVE  HeartbeatInvariant'
<1>1. \A q \in Peers : SoundPeer(q)
  BY InvariantByPeer
<1>2. \A q \in Peers : SoundPeer(q)'
  BY <1>1, PeerLeftAlone
<1> QED
  BY <1>2, PrimedInvariantByPeer

LEMMA StartIsSound ==
  ASSUME HeartbeatInvariant, NEW p \in Peers, StartHeartbeatThread(p)
  PROVE  HeartbeatInvariant'
<1> DEFINE d == [IdleThread EXCEPT !.running = TRUE, !.birth = now, !.nextSend = now]
<1>1. SoundRest /\ SoundPackets /\ SoundPeer(p)
  BY InvariantByPeer
<1>2. now \in Times /\ hb' = [hb EXCEPT ![p] = d] /\ UNCHANGED <<now, packets, toMain, mainPeers, ended, losses>>
      /\ disturbed' = now
  BY <1>1 DEF StartHeartbeatThread, SoundRest
<1>3. /\ d \in Threads /\ d.birth = now /\ d.force = FALSE /\ d.reported = FALSE
      /\ DOMAIN d.expires = DOMAIN d.heard
  <2>1. d \in Threads
    BY <1>2, IdleFacts
  <2> QED
    BY <2>1 DEF IdleThread
<1> HIDE DEF d
<1>4. SoundRest' /\ SoundPackets'
  BY <1>1, <1>2 DEF SoundRest, SoundPackets
<1>5. hb'[p] = d /\ \A q \in Peers : q # p => hb'[q] = hb[q]
  BY <1>1, <1>2 DEF SoundRest
<1>6. SoundPeer(p)'
  BY <1>1, <1>2, <1>3, <1>5, NumberFacts DEF SoundPeer, SoundThread
<1> QED
  BY <1>2, <1>4, <1>5, <1>6, OnePeerChanges

LEMMA ReceiveIsSound ==
  ASSUME HeartbeatInvariant, NEW k \in packets, ReceiveMulticastTraffic(k)
  PROVE  HeartbeatInvariant'
<1> DEFINE p == k.to
           e == SourceHeard(k.to, hb[k.to], k.from, k.packet)
           s == ScheduleUpdateOfficialPeersList(e, FALSE)
           isKingmakers == ~e.pending /\ GetKingmakerPeerID(e.heard) = k.from
           d == IF isKingmakers THEN s ELSE e
<1>1. SoundRest /\ SoundPackets /\ now \in Times
  BY InvariantByPeer DEF SoundRest
<1>2. p \in Peers /\ k.from \in Peers /\ k.packet \in Heartbeats
  BY <1>1 DEF SoundPackets
<1>3. SoundPeer(p)
  BY <1>2, InvariantByPeer
<1>4. hb' = [hb EXCEPT ![p] = d] /\ packets' \subseteq packets
      /\ UNCHANGED <<now, toMain, mainPeers, ended, losses, disturbed>>
  BY DEF ReceiveMulticastTraffic
<1>5. /\ SoundThread(e) /\ e.reported = hb[p].reported
      /\ hb[p].force => e.force
      /\ e.force \/ Attached(e.heard) = Attached(hb[p].heard)
  <2>1. SoundThread(hb[p])
    BY <1>3 DEF SoundPeer
  <2> QED
    BY <1>1, <1>2, <2>1, HeardFacts
<1> HIDE DEF e, isKingmakers
<1>6. SoundThread(s) /\ s.reported = e.reported /\ s.force = e.force /\ s.heard = e.heard
  BY <1>5, ScheduleFacts
<1> HIDE DEF s
<1>7. /\ SoundThread(d) /\ d.reported = hb[p].reported
      /\ hb[p].force => d.force
      /\ d.force \/ Attached(d.heard) = Attached(hb[p].heard)
  BY <1>5, <1>6
<1> HIDE DEF d, p
<1>8. SoundRest' /\ SoundPackets'
  BY <1>1, <1>4 DEF SoundRest, SoundPackets
<1>9. hb'[p] = d /\ \A q \in Peers : q # p => hb'[q] = hb[q]
  BY <1>1, <1>2, <1>4 DEF SoundRest
<1>10. SoundThread(hb[p])'
  BY <1>4, <1>7, <1>9 DEF SoundThread, IsFullyAttached
<1>11. SoundPeer(p)'
  BY <1>3, <1>4, <1>7, <1>9, <1>10 DEF SoundPeer, LastTold
<1> QED
  BY <1>2, <1>4, <1>8, <1>9, <1>11, OnePeerChanges

LEMMA MainThreadIsSound ==
  ASSUME HeartbeatInvariant, NEW p \in Peers, MessageReceivedFromInternalThread(p)
  PROVE  HeartbeatInvariant'
<1> DEFINE s == toMain[p]
           t == Tail(s)
           u == UpdatedPeers(mainPeers[p], Head(s))
<1>1. SoundRest /\ SoundPackets /\ SoundPeer(p)
  BY InvariantByPeer
<1>2. s # <<>> /\ mainPeers' = [mainPeers EXCEPT ![p] = u] /\ toMain' = [toMain EXCEPT ![p] = t]
      /\ UNCHANGED <<now, hb, packets, ended, losses, disturbed>>
  BY <1>1 DEF MessageReceivedFromInternalThread, SoundRest
<1>3. s \in Seq(PeerLists) /\ mainPeers[p] \in PeerLists
  BY <1>1 DEF SoundPeer
<1>4. /\ Head(s) = s[1] /\ s[1] \in PeerLists /\ t \in Seq(PeerLists)
      /\ Len(s) \in Nat /\ Len(s) >= 1 /\ Len(t) = Len(s) - 1
      /\ \A i \in 1 .. Len(s) - 1 : t[i] = s[i + 1]
  BY <1>2, <1>3
<1> HIDE DEF t
<1>5. u \in PeerLists /\ Range(u) = Range(s[1])
  BY <1>3, <1>4, UpdatedFacts
<1> HIDE DEF u
<1>6. SoundRest' /\ SoundPackets'
  BY <1>1, <1>2 DEF SoundRest, SoundPackets
<1>7. mainPeers'[p] = u /\ toMain'[p] = t /\ hb'[p] = hb[p]
      /\ \A q \in Peers : q # p => mainPeers'[q] = mainPeers[q] /\ toMain'[q] = toMain[q]
  BY <1>1, <1>2 DEF SoundRest
<1>8. LastTold(p) = s[Len(s)]
  BY <1>2 DEF LastTold
<1>9. Range(LastTold(p)') = Range(LastTold(p))
  <2>1. LastTold(p)' = IF t = <<>> THEN u ELSE t[Len(t)]
    BY <1>7 DEF LastTold
  <2>2. CASE t = <<>>
    <3>1. Len(t) = 0
      BY <2>2
    <3>2. Len(s) = 1
      BY <1>4, <3>1
    <3> QED
      BY <1>5, <1>8, <2>1, <2>2, <3>2
  <2>3. CASE t # <<>>
    <3>1. Len(t) # 0
      BY <1>4, <2>3, EmptySeq
    <3>2. Len(t) \in 1 .. Len(s) - 1 /\ Len(t) + 1 = Len(s)
      <4> DEFINE m == Len(t)
                 n == Len(s)
      <4>1. n \in Nat /\ n >= 1 /\ m = n - 1 /\ m # 0
        BY <1>4, <3>1
      <4> HIDE DEF m, n
      <4>2. m \in 1 .. n - 1 /\ m + 1 = n
        BY <4>1
      <4> QED
        BY <4>2 DEF m, n
    <3>3. t[Len(t)] = s[Len(s)]
      BY <1>4, <3>2
    <3> QED
      BY <1>8, <2>1, <2>3, <3>3
  <2> QED
    BY <2>2, <2>3
<1>10. SoundThread(hb[p])'
  BY <1>1, <1>2 DEF SoundPeer, SoundThread, IsFullyAttached
<1>11. SoundPeer(p)'
  BY <1>1, <1>4, <1>5, <1>7, <1>9, <1>10 DEF SoundPeer
<1> QED
  BY <1>2, <1>6, <1>7, <1>11, OnePeerChanges

LEMMA EndIsSound ==
  ASSUME HeartbeatInvariant, NEW p \in Peers, EndProcess(p)
  PROVE  HeartbeatInvariant'
<1>1. SoundRest /\ SoundPackets /\ SoundPeer(p) /\ now \in Times
  BY InvariantByPeer DEF SoundRest
<1>2. /\ hb' = [hb EXCEPT ![p] = IdleThread] /\ toMain' = [toMain EXCEPT ![p] = <<>>]
      /\ mainPeers' = [mainPeers EXCEPT ![p] = <<>>] /\ packets' \subseteq packets
      /\ ended' = ended \cup {p} /\ disturbed' = now /\ UNCHANGED <<now, losses>>
  BY DEF EndProcess
<1>3. /\ IdleThread \in Threads /\ IdleThread.birth = 0 /\ IdleThread.force = FALSE
      /\ IdleThread.reported = FALSE /\ DOMAIN IdleThread.expires = DOMAIN IdleThread.heard
  BY <1>1, IdleFacts DEF IdleThread
<1>4. SoundRest' /\ SoundPackets'
  BY <1>1, <1>2 DEF SoundRest, SoundPackets
<1>5. hb'[p] = IdleThread /\ toMain'[p] = <<>> /\ mainPeers'[p] = <<>>
      /\ \A q \in Peers : q # p =>
           hb'[q] = hb[q] /\ toMain'[q] = toMain[q] /\ mainPeers'[q] = mainPeers[q]
  BY <1>1, <1>2 DEF SoundRest
<1>6. <<>> \in Seq(PeerLists) /\ 0 <= now
  BY <1>1, NumberFacts
<1>7. SoundPeer(p)'
  BY <1>2, <1>3, <1>5, <1>6, EmptyPeerList DEF SoundPeer, SoundThread
<1> QED
  BY <1>2, <1>4, <1>5, <1>7, OnePeerChanges

LEMMA TickIsSound ==
  ASSUME HeartbeatInvariant, Tick
  PROVE  HeartbeatInvariant'
<1>1. SoundRest /\ SoundPackets /\ \A p \in Peers : SoundPeer(p)
  BY InvariantByPeer
<1>2. now \in Nat /\ now' = now + 1 /\ now' \in Times
      /\ UNCHANGED <<hb, packets, toMain, mainPeers, ended, losses, disturbed>>
  BY <1>1, NumberFacts DEF Tick, SoundRest
<1>3. SoundRest' /\ SoundPackets'
  BY <1>1, <1>2 DEF SoundRest, SoundPackets
<1>4. ASSUME NEW p \in Peers PROVE SoundPeer(p)'
  <2>1. SoundPeer(p) /\ SoundThread(hb[p]) /\ hb[p].birth \in Nat
    <3>1. SoundPeer(p) /\ SoundThread(hb[p])
      BY <1>1 DEF SoundPeer
    <3>2. hb[p].birth \in Times
      BY <3>1 DEF SoundThread, Threads
    <3> QED
      BY <3>1, <3>2, NumberFacts
  <2>2. hb[p].birth <= now' /\ (IsFullyAttached(hb[p]) => IsFullyAttached(hb[p])')
    <3> DEFINE b == hb[p].birth
               n == HeartbeatsBeforeFullyAttached
    <3>1. b \in Nat /\ n \in Nat /\ b <= now
      BY <2>1, NumberFacts DEF SoundThread
    <3> HIDE DEF b, n
    <3>2. b <= now' /\ (now - b >= n => now' - b >= n)
      BY <1>2, <3>1
    <3> QED
      BY <1>2, <3>2 DEF b, n, IsFullyAttached
  <2>3. SoundThread(hb[p])'
    BY <1>2, <2>1, <2>2 DEF SoundThread
  <2> QED
    BY <1>2, <2>1, <2>3 DEF SoundPeer, LastTold
<1> QED
  BY <1>3, <1>4, PrimedInvariantByPeer
(* What Pulse() leaves of a thread: unless an update is being forced, the  *)
(* thread knows what it knew before.                                       *)
LEMMA PulsedFacts ==
  ASSUME now \in Times, NEW d, SoundThread(d)
  PROVE  LET updated == IF d.pending THEN UpdateOfficialPeersList(d) ELSE d
             sends == now >= d.nextSend
             sent == IF sends THEN [updated EXCEPT !.nextSend = now + 1] ELSE updated
             e == ReportFullAttachment(ExpireSources(sent))
         IN  /\ SoundThread(updated) /\ SoundThread(e)
             /\ e.force \/ (e.heard = d.heard /\ e.reported = d.reported)
<1> DEFINE u == UpdateOfficialPeersList(d)
           updated == IF d.pending THEN u ELSE d
           t == [updated EXCEPT !.nextSend = now + 1]
           sent == IF now >= d.nextSend THEN t ELSE updated
           x == ExpireSources(sent)
           e == ReportFullAttachment(x)
<1>1. SoundThread(u) /\ u.heard = d.heard /\ u.reported = d.reported
  BY UpdateFacts
<1> HIDE DEF u
<1>2. SoundThread(updated) /\ updated.heard = d.heard /\ updated.reported = d.reported
  BY <1>1
<1> HIDE DEF updated
<1>3. SoundThread(t) /\ t.heard = updated.heard /\ t.reported = updated.reported
  BY <1>2, SentFacts
<1> HIDE DEF t
<1>4. SoundThread(sent) /\ sent.heard = d.heard /\ sent.reported = d.reported
  BY <1>2, <1>3
<1> HIDE DEF sent
<1>5. SoundThread(x) /\ (x = sent \/ x.force)
  BY <1>4, ExpireFacts
<1> HIDE DEF x
<1>6. SoundThread(e) /\ (e = x \/ e.force)
  BY <1>5, ReportFacts
<1> HIDE DEF e
<1>7. e.force \/ (e.heard = d.heard /\ e.reported = d.reported)
  BY <1>4, <1>5, <1>6
<1> QED
  BY <1>2, <1>6, <1>7 DEF e, x, sent, t, updated, u

(* What a thread tells its main thread.                                    *)
LEMMA ToldFacts ==
  ASSUME NEW d, SoundThread(d), NEW s \in Seq(PeerLists)
  PROVE  /\ s \o UpdatesForMain(d) \in Seq(PeerLists)
         /\ \/ s \o UpdatesForMain(d) = s /\ (d.reported => ~d.force)
            \/ /\ s \o UpdatesForMain(d) = Append(s, OfficialPeers(d))
               /\ OfficialPeers(d) \in PeerLists
               /\ Range(OfficialPeers(d)) = Attached(d.heard)
<1>1. d \in Threads
  BY DEF SoundThread
<1>2. OfficialPeers(d) \in PeerLists /\ Range(OfficialPeers(d)) = Attached(d.heard)
  BY <1>1, OfficialFacts
<1>3. CASE d.pending /\ SendsUpdate(d) /\ IsFullyAttached(d)
  <2>1. UpdatesForMain(d) = <<OfficialPeers(d)>>
    BY <1>3 DEF UpdatesForMain
  <2> DEFINE o == OfficialPeers(d)
  <2> HIDE DEF o
  <2>2. s \o <<o>> = Append(s, o) /\ (o \in PeerLists => Append(s, o) \in Seq(PeerLists))
    OBVIOUS
  <2> QED
    BY <1>2, <2>1, <2>2 DEF o
<1>4. CASE ~(d.pending /\ SendsUpdate(d) /\ IsFullyAttached(d))
  <2>1. UpdatesForMain(d) = <<>>
    BY <1>4 DEF UpdatesForMain
  <2>2. d.reported => ~d.force
    BY <1>4 DEF SoundThread, SendsUpdate
  <2>3. s \o <<>> = s
    OBVIOUS
  <2> QED
    BY <2>1, <2>2, <2>3
<1> QED
  BY <1>3, <1>4

LEMMA PulseIsSound ==
  ASSUME HeartbeatInvariant, NEW p \in Peers, Pulse(p)
  PROVE  HeartbeatInvariant'
<1> DEFINE d == hb[p]
           updated == IF d.pending THEN UpdateOfficialPeersList(d) ELSE d
           sends == now >= d.nextSend
           sent == IF sends THEN [updated EXCEPT !.nextSend = now + 1] ELSE updated
           e == ReportFullAttachment(ExpireSources(sent))
           s == toMain[p]
           t == s \o UpdatesForMain(d)
<1>1. SoundRest /\ SoundPackets /\ SoundPeer(p) /\ now \in Times
  BY InvariantByPeer DEF SoundRest
<1>2. /\ toMain' = [toMain EXCEPT ![p] = t] /\ hb' = [hb EXCEPT ![p] = e]
      /\ UNCHANGED <<now, mainPeers, ended>>
      /\ SendHeartbeatPackets(p, updated) \/ UNCHANGED <<packets, losses, disturbed>>
  BY <1>1 DEF Pulse, SoundRest
<1>3. SoundThread(d) /\ s \in Seq(PeerLists) /\ mainPeers[p] \in PeerLists
  BY <1>1 DEF SoundPeer
<1>4. /\ SoundThread(updated) /\ SoundThread(e)
      /\ e.force \/ (e.heard = d.heard /\ e.reported = d.reported)
  BY <1>1, <1>3, PulsedFacts
<1> HIDE DEF updated, e
<1> DEFINE o == OfficialPeers(d)
<1>5. /\ t \in Seq(PeerLists)
      /\ \/ t = s /\ (d.reported => ~d.force)
         \/ (t = Append(s, o) /\ o \in PeerLists /\ Range(o) = Attached(d.heard))
  BY <1>3, ToldFacts
<1> HIDE DEF t, o
<1>6. packets' \subseteq [from : Peers, to : Peers, packet : Heartbeats]
      /\ losses' \in 0 .. MaxLosses /\ disturbed' \in Times
  <2>1. CASE UNCHANGED <<packets, losses, disturbed>>
    BY <1>1, <2>1 DEF SoundPackets, SoundRest
  <2>2. CASE SendHeartbeatPackets(p, updated)
    <3>1. PICK lost \in SUBSET (Running \ {p}) :
            /\ losses + Cardinality(lost) <= MaxLosses
            /\ losses' = losses + Cardinality(lost)
            /\ disturbed' = IF lost = {} THEN disturbed ELSE now
            /\ packets' = packets \cup
                 [from : {p}, to : Running \ lost, packet : {HeartbeatPacket(p, updated)}]
      BY <2>2 DEF SendHeartbeatPackets
    <3>2. Cardinality(lost) \in Nat
      <4>1. lost \subseteq Peers
        BY DEF Running
      <4> QED
        BY <4>1, HeartbeatPeersAssumption, FS_Subset, FS_CardinalityType
    <3>3. losses' \in 0 .. MaxLosses /\ disturbed' \in Times
      BY <1>1, <3>1, <3>2, NumberFacts DEF SoundRest
    <3>4. HeartbeatPacket(p, updated) \in Heartbeats
      BY <1>1, <1>4, PacketFacts
    <3>5. [from : {p}, to : Running \ lost, packet : {HeartbeatPacket(p, updated)}]
            \subseteq [from : Peers, to : Peers, packet : Heartbeats]
      BY <3>4 DEF Running
    <3>6. packets' \subseteq [from : Peers, to : Peers, packet : Heartbeats]
      BY <1>1, <3>1, <3>5 DEF SoundPackets
    <3> QED
      BY <3>3, <3>6
  <2> QED
    BY <1>2, <2>1, <2>2
<1>7. SoundRest' /\ SoundPackets'
  BY <1>1, <1>2, <1>6 DEF SoundRest, SoundPackets
<1>8. hb'[p] = e /\ toMain'[p] = t /\ mainPeers'[p] = mainPeers[p]
      /\ \A q \in Peers : q # p => hb'[q] = hb[q] /\ toMain'[q] = toMain[q] /\ mainPeers'[q] = mainPeers[q]
  BY <1>1, <1>2 DEF SoundRest
<1>9. SoundThread(hb[p])'
  BY <1>2, <1>4, <1>8 DEF SoundThread, IsFullyAttached
<1>10. ASSUME e.reported, ~e.force PROVE Range(LastTold(p)') = Attached(e.heard)
  <2>1. e.heard = d.heard /\ d.reported
    BY <1>4, <1>10
  <2>2. CASE t = s /\ (d.reported => ~d.force)
    <3>1. Range(LastTold(p)) = Attached(d.heard)
      BY <1>1, <2>1, <2>2 DEF SoundPeer
    <3>2. LastTold(p)' = LastTold(p)
      BY <1>8, <2>2 DEF LastTold
    <3> QED
      BY <2>1, <3>1, <3>2
  <2>3. CASE t = Append(s, o) /\ o \in PeerLists /\ Range(o) = Attached(d.heard)
    <3>1. t # <<>> /\ t[Len(t)] = o
      BY <1>3, <2>3
    <3>2. LastTold(p)' = o
      BY <1>8, <3>1 DEF LastTold
    <3> QED
      BY <2>1, <2>3, <3>2
  <2> QED
    BY <1>5, <2>2, <2>3
<1>11. SoundPeer(p)'
  BY <1>3, <1>5, <1>8, <1>9, <1>10 DEF SoundPeer
<1> QED
  BY <1>2, <1>7, <1>8, <1>11, OnePeerChanges

---------------------------------------------------------------------------
LEMMA HeartbeatNext ==
  HeartbeatInvariant /\ [Next]_vars => HeartbeatInvariant'
<1> SUFFICES ASSUME HeartbeatInvariant, [Next]_vars PROVE HeartbeatInvariant'
  OBVIOUS
<1>1. CASE UNCHANGED vars
  <2>1. SoundRest /\ SoundPackets /\ \A p \in Peers : SoundPeer(p)
    BY InvariantByPeer
  <2>2. SoundRest' /\ SoundPackets'
    BY <1>1, <2>1 DEF vars, SoundRest, SoundPackets
  <2>3. \A p \in Peers : SoundPeer(p)'
    BY <1>1, <2>1, PeerLeftAlone DEF vars
  <2> QED
    BY <2>2, <2>3, PrimedInvariantByPeer
<1>2. CASE \E p \in Peers : StartHeartbeatThread(p)
  BY <1>2, StartIsSound
<1>3. CASE \E p \in Peers : Pulse(p)
  BY <1>3, PulseIsSound
<1>4. CASE \E p \in Peers : MessageReceivedFromInternalThread(p)
  BY <1>4, MainThreadIsSound
<1>5. CASE \E p \in Peers : EndProcess(p)
  BY <1>5, EndIsSound
<1>6. CASE \E k \in packets : ReceiveMulticastTraffic(k)
  BY <1>6, ReceiveIsSound
<1>7. CASE Tick
  BY <1>7, TickIsSound
<1> QED
  BY <1>1, <1>2, <1>3, <1>4, <1>5, <1>6, <1>7 DEF Next

(* The types of a heartbeat thread and its main thread: every list of      *)
(* peers that a thread sends, receives, calculates or keeps names each     *)
(* peer at most once (PZGHeartbeatThreadState, PZGHeartbeatSession).       *)
THEOREM ElectionTypeCorrect == Spec => []TypeOK
<1>1. HeartbeatInvariant => TypeOK
  BY DEF HeartbeatInvariant
<1> QED
  BY <1>1, HeartbeatInit, HeartbeatNext, PTL DEF Spec

(* From when a thread has reported its own full attachment, what it has    *)
(* last told its main thread is what it knows, unless an update is being   *)
(* forced (ScheduleUpdateOfficialPeersList(), UpdateOfficialPeersList()).  *)
THEOREM NewsReachesTheMainThread == Spec => []NewsIsForced
<1>1. HeartbeatInvariant => NewsIsForced
  BY DEF HeartbeatInvariant
<1> QED
  BY <1>1, HeartbeatInit, HeartbeatNext, PTL DEF Spec

(* With any number of peers, losses and crashes, a main thread that has    *)
(* handled its updates, of a thread that owes it none, lists exactly the   *)
(* peers its thread hears and knows to be fully attached.                  *)
THEOREM OfficialPeersStayCurrent == Spec => []OfficialPeersAreCurrent
<1>1. HeartbeatInvariant => OfficialPeersAreCurrent
  <2> SUFFICES ASSUME HeartbeatInvariant, NEW p \in Running,
                      hb[p].reported, ~hb[p].pending, toMain[p] = <<>>
               PROVE  Range(mainPeers[p]) = Attached(hb[p].heard)
    BY DEF OfficialPeersAreCurrent
  <2>1. p \in Peers
    BY DEF Running
  <2>2. ~hb[p].force /\ Range(LastTold(p)) = Attached(hb[p].heard)
    BY <2>1 DEF HeartbeatInvariant, NewsIsForced
  <2> QED
    BY <2>2 DEF LastTold
<1> QED
  BY <1>1, HeartbeatInit, HeartbeatNext, PTL DEF Spec
===========================================================================

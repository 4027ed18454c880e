----------------------- MODULE MuxTreeGatewayProofs -----------------------
(***************************************************************************)
(* Theorems about MuxTreeGateway, for any subscribers, nodes, paths and    *)
(* filters, with and without command batches, for hasty subscribers and    *)
(* any bounds.                                                             *)
(***************************************************************************)
EXTENDS MuxTreeGateway, SequenceTheorems, FiniteSetTheorems,
        WellFoundedInduction, TLAPS

-----------------------------------------------------------------------------
\* Induction over numbers and over sequences, for sets instead of predicates.

\* A set of numbers that has 0 and, with every number, the next one.
LEMMA SetInduction ==
  ASSUME NEW T, 0 \in T, \A n \in Nat : n \in T => n + 1 \in T
  PROVE  \A n \in Nat : n \in T
<1> DEFINE U == {n \in Nat : n \notin T}
           R == OpToRel(<, Nat)
<1> SUFFICES ASSUME U # {} PROVE FALSE
  OBVIOUS
<1>1. IsWellFoundedOn(R, Nat)
  BY NatLessThanWellFounded
<1>2. \A x, y \in Nat : <<x, y>> \in R <=> x < y
  BY DEF OpToRel
<1> HIDE DEF R
<1>3. U \subseteq Nat
  OBVIOUS
<1>4. PICK x \in U : \A y \in U : ~(<<y, x>> \in R)
  BY <1>1, <1>3, WFMin
<1>5. x \in Nat /\ x \notin T /\ \A y \in Nat : y < x => y \in T
  BY <1>2, <1>4
<1>6. x # 0
  BY <1>5
<1>7. x - 1 \in Nat /\ x - 1 < x /\ (x - 1) + 1 = x
  BY <1>5, <1>6
<1> QED
  BY <1>5, <1>7

\* A sequence that is not empty is its front and its last element.
LEMMA FrontAndLast ==
  ASSUME NEW S, NEW q \in Seq(S), NEW n \in Nat, Len(q) = n + 1
  PROVE  \E f \in Seq(S), c \in S : q = Append(f, c) /\ Len(f) = n
<1> DEFINE N == n + 1
           f == SubSeq(q, 1, n)
           c == q[N]
<1>1. N \in Nat /\ Len(q) = N /\ N \in 1 .. N /\ \A i \in 1 .. N : q[i] \in S
  BY ElementOfSeq
<1>2. c \in S
  BY <1>1
<1>3. \A i \in 1 .. n : q[i] \in S
  BY <1>1
<1>4. f \in Seq(S) /\ Len(f) = n /\ \A i \in 1 .. n : f[i] = q[i]
  <2>1. n \in Int /\ 1 \in Int
    OBVIOUS
  <2>2. /\ f \in Seq(S) /\ Len(f) = IF 1 <= n THEN n - 1 + 1 ELSE 0
        /\ \A i \in 1 .. n - 1 + 1 : f[i] = q[1 + i - 1]
    BY <1>3, <2>1, SubSeqProperties
  <2>3. n - 1 + 1 = n /\ \A i \in 1 .. n : 1 + i - 1 = i
    OBVIOUS
  <2> HIDE DEF f
  <2> QED
    BY <2>2, <2>3
<1> HIDE DEF f, c
<1>5. /\ Append(f, c) \in Seq(S) /\ Len(Append(f, c)) = N /\ Append(f, c)[N] = c
      /\ \A i \in 1 .. n : Append(f, c)[i] = f[i]
  BY <1>2, <1>4, AppendProperties
<1>6. \A i \in 1 .. N : i = N \/ i \in 1 .. n
  OBVIOUS
<1>7. \A i \in 1 .. N : q[i] = Append(f, c)[i]
  BY <1>4, <1>5, <1>6 DEF c
<1>8. q = Append(f, c)
  BY <1>1, <1>5, <1>7, SeqEqual
<1> QED
  BY <1>2, <1>4, <1>8

\* A set that has the empty sequence and, with every sequence, those that are
\* one element longer.
LEMMA SeqInduction ==
  ASSUME NEW S, NEW T, <<>> \in T,
         \A q \in Seq(S), c \in S : q \in T => Append(q, c) \in T
  PROVE  \A q \in Seq(S) : q \in T
<1> DEFINE U == {n \in Nat : \A q \in Seq(S) : Len(q) = n => q \in T}
<1>1. 0 \in U
  BY EmptySeq
<1>2. ASSUME NEW n \in Nat, n \in U
      PROVE  n + 1 \in U
  <2> SUFFICES ASSUME NEW q \in Seq(S), Len(q) = n + 1 PROVE q \in T
    OBVIOUS
  <2>1. PICK f \in Seq(S), c \in S : q = Append(f, c) /\ Len(f) = n
    BY FrontAndLast
  <2>2. f \in T
    BY <1>2, <2>1
  <2> QED
    BY <2>1, <2>2
<1>3. \A n \in Nat : n \in U
  <2> HIDE DEF U
  <2> QED
    BY <1>1, <1>2, SetInduction
<1> QED
  BY <1>3, LenProperties

\* Sequences that are put together.
LEMMA Joining ==
  ASSUME NEW S, NEW a \in Seq(S), NEW b \in Seq(S), NEW c \in S
  PROVE  /\ a \o Append(b, c) = Append(a \o b, c)
         /\ a \o <<c>> = Append(a, c)
         /\ a \o b \in Seq(S) /\ Append(a, c) \in Seq(S) /\ <<c>> \in Seq(S)
         /\ Append(<<>>, c) = <<c>>
         /\ a \o <<>> = a /\ <<>> \o a = a
  OBVIOUS

LEMMA TakingApart ==
  ASSUME NEW S, NEW q \in Seq(S), q # <<>>
  PROVE  Head(q) \in S /\ Tail(q) \in Seq(S) /\ q = <<Head(q)>> \o Tail(q)
  OBVIOUS

-----------------------------------------------------------------------------
\* The model's loops: each takes the elements of a sequence one by one.

IsServing(f, acc, q, N) ==
  f = [i \in 0 .. N |-> IF i = 0 THEN acc ELSE ServeCommand(f[i - 1], q[i])]

LEMMA ServingExists ==
  ASSUME NEW acc, NEW q
  PROVE  \A N \in Nat : \E f : IsServing(f, acc, q, N)
<1> DEFINE T == {N \in Nat : \E f : IsServing(f, acc, q, N)}
           G(z, i) == ServeCommand(z, q[i])
<1>1. 0 \in T
  <2> DEFINE f == [i \in 0 .. 0 |-> acc]
  <2>1. f = [i \in 0 .. 0 |-> IF i = 0 THEN acc ELSE ServeCommand(f[i - 1], q[i])]
    OBVIOUS
  <2> QED
    BY <2>1 DEF IsServing
<1>2. ASSUME NEW n \in Nat, n \in T
      PROVE  n + 1 \in T
  <2>1. PICK f : IsServing(f, acc, q, n)
    BY <1>2
  <2> DEFINE y == n + 1
             g == [i \in 0 .. y |-> IF i < y THEN f[i] ELSE G(f[n], y)]
  <2>2. f = [i \in 0 .. n |-> IF i = 0 THEN acc ELSE G(f[i - 1], i)]
    BY <2>1 DEF IsServing
  <2> HIDE DEF G
  <2>3. ASSUME NEW i \in 0 .. y
        PROVE  g[i] = IF i = 0 THEN acc ELSE G(g[i - 1], i)
    <3>1. CASE i = 0
      BY <2>2, <3>1
    <3>2. CASE i > 0 /\ i < y
      <4>1. i \in 0 .. n /\ i - 1 \in 0 .. n /\ i - 1 < y /\ i - 1 \in 0 .. y
        BY <2>3, <3>2
      <4>2. f[i] = G(f[i - 1], i)
        BY <2>2, <3>2, <4>1
      <4>3. g[i] = f[i] /\ g[i - 1] = f[i - 1]
        BY <2>3, <3>2, <4>1
      <4> QED
        BY <3>2, <4>2, <4>3
    <3>3. CASE i = y
      <4>1. n \in 0 .. y /\ n < y /\ ~(y < y) /\ y - 1 = n /\ y # 0
        OBVIOUS
      <4>2. g[y] = G(f[n], y) /\ g[n] = f[n]
        BY <3>3, <4>1
      <4> QED
        BY <3>3, <4>1, <4>2
    <3> QED
      BY <2>3, <3>1, <3>2, <3>3
  <2>4. g = [i \in 0 .. y |-> IF i = 0 THEN acc ELSE G(g[i - 1], i)]
    BY <2>3
  <2> HIDE DEF g
  <2>5. IsServing(g, acc, q, y)
    BY <2>4 DEF IsServing, G
  <2> QED
    BY <2>5
<1>3. \A n \in Nat : n \in T
  <2> HIDE DEF T
  <2> QED
    BY <1>1, <1>2, SetInduction
<1> QED
  BY <1>3

LEMMA Serving ==
  ASSUME NEW acc, NEW q, Len(q) \in Nat
  PROVE  \E f : IsServing(f, acc, q, Len(q)) /\ Served(acc, q) = f[Len(q)]
<1>1. \E f : IsServing(f, acc, q, Len(q))
  BY ServingExists
<1> QED
  BY <1>1 DEF IsServing, Served

LEMMA ServingNothing ==
  ASSUME NEW acc
  PROVE  Served(acc, <<>>) = acc
<1>1. Len(<<>>) = 0
  OBVIOUS
<1>2. PICK f : IsServing(f, acc, <<>>, 0) /\ Served(acc, <<>>) = f[0]
  BY <1>1, Serving
<1> QED
  BY <1>2 DEF IsServing

\* The last command of a packet.
LEMMA ServingLast ==
  ASSUME NEW acc, NEW S, NEW q \in Seq(S), NEW c \in S
  PROVE  Served(acc, Append(q, c)) = ServeCommand(Served(acc, q), c)
<1> DEFINE N == Len(q)
           r == Append(q, c)
<1>1. N \in Nat /\ r \in Seq(S) /\ Len(r) = N + 1 /\ r[N + 1] = c /\ \A i \in 1 .. N : r[i] = q[i]
  BY AppendProperties, LenProperties
<1>2. PICK f : IsServing(f, acc, q, N) /\ Served(acc, q) = f[N]
  BY <1>1, Serving
<1> HIDE DEF r
<1>3. PICK h : IsServing(h, acc, r, N + 1) /\ Served(acc, r) = h[N + 1]
  <2>1. Len(r) \in Nat
    BY <1>1
  <2>2. \E h : IsServing(h, acc, r, Len(r)) /\ Served(acc, r) = h[Len(r)]
    BY <2>1, Serving
  <2> QED
    BY <1>1, <2>2
<1> DEFINE T == {n \in Nat : n <= N => f[n] = h[n]}
<1>4. 0 \in T
  <2>1. f[0] = acc
    BY <1>1, <1>2 DEF IsServing
  <2>2. h[0] = acc
    BY <1>1, <1>3 DEF IsServing
  <2> QED
    BY <2>1, <2>2
<1>5. ASSUME NEW n \in Nat, n \in T
      PROVE  n + 1 \in T
  <2> SUFFICES ASSUME n + 1 <= N PROVE f[n + 1] = h[n + 1]
    OBVIOUS
  <2> DEFINE y == n + 1
  <2>1. y \in 0 .. N /\ y \in 0 .. N + 1 /\ y \in 1 .. N /\ y - 1 = n /\ y # 0 /\ n <= N
    BY <1>1
  <2> HIDE DEF y
  <2>2. f[y] = ServeCommand(f[n], q[y])
    BY <1>2, <2>1 DEF IsServing
  <2>3. h[y] = ServeCommand(h[n], r[y])
    BY <1>3, <2>1 DEF IsServing
  <2>4. r[y] = q[y] /\ f[n] = h[n]
    BY <1>1, <1>5, <2>1
  <2> QED
    BY <2>2, <2>3, <2>4 DEF y
<1>6. \A n \in Nat : n \in T
  <2> HIDE DEF T
  <2> QED
    BY <1>4, <1>5, SetInduction
<1>7. f[N] = h[N]
  <2>1. N \in T /\ N <= N
    <3> HIDE DEF T
    <3> QED
      BY <1>1, <1>6
  <2> HIDE DEF N
  <2> QED
    BY <2>1
<1> DEFINE y == N + 1
<1>8. y \in 0 .. y /\ y # 0 /\ y - 1 = N
  BY <1>1
<1>9. IsServing(h, acc, r, y) /\ Served(acc, r) = h[y]
  BY <1>3
<1>10. r[y] = c
  BY <1>1
<1> HIDE DEF y, N
<1>11. h[y] = ServeCommand(h[N], r[y])
  BY <1>8, <1>9 DEF IsServing
<1> QED
  BY <1>2, <1>7, <1>9, <1>10, <1>11 DEF r

IsReplying(f, id, x, q, N) ==
  f = [i \in 0 .. N |-> IF i = 0 THEN x ELSE ReplyDone(id, f[i - 1], q[i])]

LEMMA ReplyingExists ==
  ASSUME NEW id, NEW x, NEW q
  PROVE  \A N \in Nat : \E f : IsReplying(f, id, x, q, N)
<1> DEFINE T == {N \in Nat : \E f : IsReplying(f, id, x, q, N)}
           G(z, i) == ReplyDone(id, z, q[i])
<1>1. 0 \in T
  <2> DEFINE f == [i \in 0 .. 0 |-> x]
  <2>1. f = [i \in 0 .. 0 |-> IF i = 0 THEN x ELSE ReplyDone(id, f[i - 1], q[i])]
    OBVIOUS
  <2> QED
    BY <2>1 DEF IsReplying
<1>2. ASSUME NEW n \in Nat, n \in T
      PROVE  n + 1 \in T
  <2>1. PICK f : IsReplying(f, id, x, q, n)
    BY <1>2
  <2> DEFINE y == n + 1
             g == [i \in 0 .. y |-> IF i < y THEN f[i] ELSE G(f[n], y)]
  <2>2. f = [i \in 0 .. n |-> IF i = 0 THEN x ELSE G(f[i - 1], i)]
    BY <2>1 DEF IsReplying
  <2> HIDE DEF G
  <2>3. ASSUME NEW i \in 0 .. y
        PROVE  g[i] = IF i = 0 THEN x ELSE G(g[i - 1], i)
    <3>1. CASE i = 0
      BY <2>2, <3>1
    <3>2. CASE i > 0 /\ i < y
      <4>1. i \in 0 .. n /\ i - 1 \in 0 .. n /\ i - 1 < y /\ i - 1 \in 0 .. y
        BY <2>3, <3>2
      <4>2. f[i] = G(f[i - 1], i)
        BY <2>2, <3>2, <4>1
      <4>3. g[i] = f[i] /\ g[i - 1] = f[i - 1]
        BY <2>3, <3>2, <4>1
      <4> QED
        BY <3>2, <4>2, <4>3
    <3>3. CASE i = y
      <4>1. n \in 0 .. y /\ n < y /\ ~(y < y) /\ y - 1 = n /\ y # 0
        OBVIOUS
      <4>2. g[y] = G(f[n], y) /\ g[n] = f[n]
        BY <3>3, <4>1
      <4> QED
        BY <3>3, <4>1, <4>2
    <3> QED
      BY <2>3, <3>1, <3>2, <3>3
  <2>4. g = [i \in 0 .. y |-> IF i = 0 THEN x ELSE G(g[i - 1], i)]
    BY <2>3
  <2> HIDE DEF g
  <2>5. IsReplying(g, id, x, q, y)
    BY <2>4 DEF IsReplying, G
  <2> QED
    BY <2>5
<1>3. \A n \in Nat : n \in T
  <2> HIDE DEF T
  <2> QED
    BY <1>1, <1>2, SetInduction
<1> QED
  BY <1>3

LEMMA Replying ==
  ASSUME NEW id, NEW x, NEW q, Len(q) \in Nat
  PROVE  \E f : IsReplying(f, id, x, q, Len(q)) /\ RepliesDone(id, x, q) = f[Len(q)]
<1>1. \E f : IsReplying(f, id, x, q, Len(q))
  BY ReplyingExists
<1> QED
  BY <1>1 DEF IsReplying, RepliesDone

LEMMA ReplyingNothing ==
  ASSUME NEW id, NEW x
  PROVE  RepliesDone(id, x, <<>>) = x
<1>1. Len(<<>>) = 0
  OBVIOUS
<1>2. PICK f : IsReplying(f, id, x, <<>>, 0) /\ RepliesDone(id, x, <<>>) = f[0]
  BY <1>1, Replying
<1> QED
  BY <1>2 DEF IsReplying

\* The last reply under way.
LEMMA ReplyingLast ==
  ASSUME NEW id, NEW x, NEW S, NEW q \in Seq(S), NEW c \in S
  PROVE  RepliesDone(id, x, Append(q, c)) = ReplyDone(id, RepliesDone(id, x, q), c)
<1> DEFINE N == Len(q)
           r == Append(q, c)
<1>1. N \in Nat /\ r \in Seq(S) /\ Len(r) = N + 1 /\ r[N + 1] = c /\ \A i \in 1 .. N : r[i] = q[i]
  BY AppendProperties, LenProperties
<1>2. PICK f : IsReplying(f, id, x, q, N) /\ RepliesDone(id, x, q) = f[N]
  BY <1>1, Replying
<1> HIDE DEF r
<1>3. PICK h : IsReplying(h, id, x, r, N + 1) /\ RepliesDone(id, x, r) = h[N + 1]
  <2>1. Len(r) \in Nat
    BY <1>1
  <2>2. \E h : IsReplying(h, id, x, r, Len(r)) /\ RepliesDone(id, x, r) = h[Len(r)]
    BY <2>1, Replying
  <2> QED
    BY <1>1, <2>2
<1> DEFINE T == {n \in Nat : n <= N => f[n] = h[n]}
<1>4. 0 \in T
  <2>1. f[0] = x
    BY <1>1, <1>2 DEF IsReplying
  <2>2. h[0] = x
    BY <1>1, <1>3 DEF IsReplying
  <2> QED
    BY <2>1, <2>2
<1>5. ASSUME NEW n \in Nat, n \in T
      PROVE  n + 1 \in T
  <2> SUFFICES ASSUME n + 1 <= N PROVE f[n + 1] = h[n + 1]
    OBVIOUS
  <2> DEFINE y == n + 1
  <2>1. y \in 0 .. N /\ y \in 0 .. N + 1 /\ y \in 1 .. N /\ y - 1 = n /\ y # 0 /\ n <= N
    BY <1>1
  <2> HIDE DEF y
  <2>2. f[y] = ReplyDone(id, f[n], q[y])
    BY <1>2, <2>1 DEF IsReplying
  <2>3. h[y] = ReplyDone(id, h[n], r[y])
    BY <1>3, <2>1 DEF IsReplying
  <2>4. r[y] = q[y] /\ f[n] = h[n]
    BY <1>1, <1>5, <2>1
  <2> QED
    BY <2>2, <2>3, <2>4 DEF y
<1>6. \A n \in Nat : n \in T
  <2> HIDE DEF T
  <2> QED
    BY <1>4, <1>5, SetInduction
<1>7. f[N] = h[N]
  <2>1. N \in T /\ N <= N
    <3> HIDE DEF T
    <3> QED
      BY <1>1, <1>6
  <2> HIDE DEF N
  <2> QED
    BY <2>1
<1> DEFINE y == N + 1
<1>8. y \in 0 .. y /\ y # 0 /\ y - 1 = N
  BY <1>1
<1>9. IsReplying(h, id, x, r, y) /\ RepliesDone(id, x, r) = h[y]
  BY <1>3
<1>10. r[y] = c
  BY <1>1
<1> HIDE DEF y, N
<1>11. h[y] = ReplyDone(id, h[N], r[y])
  BY <1>8, <1>9 DEF IsReplying
<1> QED
  BY <1>2, <1>7, <1>9, <1>10, <1>11 DEF r

IsCommanding(f, id, x, q, N) ==
  f = [i \in 0 .. N |-> IF i = 0 THEN x ELSE CommandDone(id, f[i - 1], q[i])]

LEMMA CommandingExists ==
  ASSUME NEW id, NEW x, NEW q
  PROVE  \A N \in Nat : \E f : IsCommanding(f, id, x, q, N)
<1> DEFINE T == {N \in Nat : \E f : IsCommanding(f, id, x, q, N)}
           G(z, i) == CommandDone(id, z, q[i])
<1>1. 0 \in T
  <2> DEFINE f == [i \in 0 .. 0 |-> x]
  <2>1. f = [i \in 0 .. 0 |-> IF i = 0 THEN x ELSE CommandDone(id, f[i - 1], q[i])]
    OBVIOUS
  <2> QED
    BY <2>1 DEF IsCommanding
<1>2. ASSUME NEW n \in Nat, n \in T
      PROVE  n + 1 \in T
  <2>1. PICK f : IsCommanding(f, id, x, q, n)
    BY <1>2
  <2> DEFINE y == n + 1
             g == [i \in 0 .. y |-> IF i < y THEN f[i] ELSE G(f[n], y)]
  <2>2. f = [i \in 0 .. n |-> IF i = 0 THEN x ELSE G(f[i - 1], i)]
    BY <2>1 DEF IsCommanding
  <2> HIDE DEF G
  <2>3. ASSUME NEW i \in 0 .. y
        PROVE  g[i] = IF i = 0 THEN x ELSE G(g[i - 1], i)
    <3>1. CASE i = 0
      BY <2>2, <3>1
    <3>2. CASE i > 0 /\ i < y
      <4>1. i \in 0 .. n /\ i - 1 \in 0 .. n /\ i - 1 < y /\ i - 1 \in 0 .. y
        BY <2>3, <3>2
      <4>2. f[i] = G(f[i - 1], i)
        BY <2>2, <3>2, <4>1
      <4>3. g[i] = f[i] /\ g[i - 1] = f[i - 1]
        BY <2>3, <3>2, <4>1
      <4> QED
        BY <3>2, <4>2, <4>3
    <3>3. CASE i = y
      <4>1. n \in 0 .. y /\ n < y /\ ~(y < y) /\ y - 1 = n /\ y # 0
        OBVIOUS
      <4>2. g[y] = G(f[n], y) /\ g[n] = f[n]
        BY <3>3, <4>1
      <4> QED
        BY <3>3, <4>1, <4>2
    <3> QED
      BY <2>3, <3>1, <3>2, <3>3
  <2>4. g = [i \in 0 .. y |-> IF i = 0 THEN x ELSE G(g[i - 1], i)]
    BY <2>3
  <2> HIDE DEF g
  <2>5. IsCommanding(g, id, x, q, y)
    BY <2>4 DEF IsCommanding, G
  <2> QED
    BY <2>5
<1>3. \A n \in Nat : n \in T
  <2> HIDE DEF T
  <2> QED
    BY <1>1, <1>2, SetInduction
<1> QED
  BY <1>3

LEMMA Commanding ==
  ASSUME NEW id, NEW x, NEW q, Len(q) \in Nat
  PROVE  \E f : IsCommanding(f, id, x, q, Len(q)) /\ PacketDone(id, x, q) = f[Len(q)]
<1>1. \E f : IsCommanding(f, id, x, q, Len(q))
  BY CommandingExists
<1> QED
  BY <1>1 DEF IsCommanding, PacketDone

LEMMA CommandingNothing ==
  ASSUME NEW id, NEW x
  PROVE  PacketDone(id, x, <<>>) = x
<1>1. Len(<<>>) = 0
  OBVIOUS
<1>2. PICK f : IsCommanding(f, id, x, <<>>, 0) /\ PacketDone(id, x, <<>>) = f[0]
  BY <1>1, Commanding
<1> QED
  BY <1>2 DEF IsCommanding

\* The last command of a packet, and what it will lead to.
LEMMA CommandingLast ==
  ASSUME NEW id, NEW x, NEW S, NEW q \in Seq(S), NEW c \in S
  PROVE  PacketDone(id, x, Append(q, c)) = CommandDone(id, PacketDone(id, x, q), c)
<1> DEFINE N == Len(q)
           r == Append(q, c)
<1>1. N \in Nat /\ r \in Seq(S) /\ Len(r) = N + 1 /\ r[N + 1] = c /\ \A i \in 1 .. N : r[i] = q[i]
  BY AppendProperties, LenProperties
<1>2. PICK f : IsCommanding(f, id, x, q, N) /\ PacketDone(id, x, q) = f[N]
  BY <1>1, Commanding
<1> HIDE DEF r
<1>3. PICK h : IsCommanding(h, id, x, r, N + 1) /\ PacketDone(id, x, r) = h[N + 1]
  <2>1. Len(r) \in Nat
    BY <1>1
  <2>2. \E h : IsCommanding(h, id, x, r, Len(r)) /\ PacketDone(id, x, r) = h[Len(r)]
    BY <2>1, Commanding
  <2> QED
    BY <1>1, <2>2
<1> DEFINE T == {n \in Nat : n <= N => f[n] = h[n]}
<1>4. 0 \in T
  <2>1. f[0] = x
    BY <1>1, <1>2 DEF IsCommanding
  <2>2. h[0] = x
    BY <1>1, <1>3 DEF IsCommanding
  <2> QED
    BY <2>1, <2>2
<1>5. ASSUME NEW n \in Nat, n \in T
      PROVE  n + 1 \in T
  <2> SUFFICES ASSUME n + 1 <= N PROVE f[n + 1] = h[n + 1]
    OBVIOUS
  <2> DEFINE y == n + 1
  <2>1. y \in 0 .. N /\ y \in 0 .. N + 1 /\ y \in 1 .. N /\ y - 1 = n /\ y # 0 /\ n <= N
    BY <1>1
  <2> HIDE DEF y
  <2>2. f[y] = CommandDone(id, f[n], q[y])
    BY <1>2, <2>1 DEF IsCommanding
  <2>3. h[y] = CommandDone(id, h[n], r[y])
    BY <1>3, <2>1 DEF IsCommanding
  <2>4. r[y] = q[y] /\ f[n] = h[n]
    BY <1>1, <1>5, <2>1
  <2> QED
    BY <2>2, <2>3, <2>4 DEF y
<1>6. \A n \in Nat : n \in T
  <2> HIDE DEF T
  <2> QED
    BY <1>4, <1>5, SetInduction
<1>7. f[N] = h[N]
  <2>1. N \in T /\ N <= N
    <3> HIDE DEF T
    <3> QED
      BY <1>1, <1>6
  <2> HIDE DEF N
  <2> QED
    BY <2>1
<1> DEFINE y == N + 1
<1>8. y \in 0 .. y /\ y # 0 /\ y - 1 = N
  BY <1>1
<1>9. IsCommanding(h, id, x, r, y) /\ PacketDone(id, x, r) = h[y]
  BY <1>3
<1>10. r[y] = c
  BY <1>1
<1> HIDE DEF y, N
<1>11. h[y] = CommandDone(id, h[N], r[y])
  BY <1>8, <1>9 DEF IsCommanding
<1> QED
  BY <1>2, <1>7, <1>9, <1>10, <1>11 DEF r

IsSending(f, id, x, q, N) ==
  f = [i \in 0 .. N |-> IF i = 0 THEN x ELSE PacketDone(id, f[i - 1], q[i])]

LEMMA SendingExists ==
  ASSUME NEW id, NEW x, NEW q
  PROVE  \A N \in Nat : \E f : IsSending(f, id, x, q, N)
<1> DEFINE T == {N \in Nat : \E f : IsSending(f, id, x, q, N)}
           G(z, i) == PacketDone(id, z, q[i])
<1>1. 0 \in T
  <2> DEFINE f == [i \in 0 .. 0 |-> x]
  <2>1. f = [i \in 0 .. 0 |-> IF i = 0 THEN x ELSE PacketDone(id, f[i - 1], q[i])]
    OBVIOUS
  <2> QED
    BY <2>1 DEF IsSending
<1>2. ASSUME NEW n \in Nat, n \in T
      PROVE  n + 1 \in T
  <2>1. PICK f : IsSending(f, id, x, q, n)
    BY <1>2
  <2> DEFINE y == n + 1
             g == [i \in 0 .. y |-> IF i < y THEN f[i] ELSE G(f[n], y)]
  <2>2. f = [i \in 0 .. n |-> IF i = 0 THEN x ELSE G(f[i - 1], i)]
    BY <2>1 DEF IsSending
  <2> HIDE DEF G
  <2>3. ASSUME NEW i \in 0 .. y
        PROVE  g[i] = IF i = 0 THEN x ELSE G(g[i - 1], i)
    <3>1. CASE i = 0
      BY <2>2, <3>1
    <3>2. CASE i > 0 /\ i < y
      <4>1. i \in 0 .. n /\ i - 1 \in 0 .. n /\ i - 1 < y /\ i - 1 \in 0 .. y
        BY <2>3, <3>2
      <4>2. f[i] = G(f[i - 1], i)
        BY <2>2, <3>2, <4>1
      <4>3. g[i] = f[i] /\ g[i - 1] = f[i - 1]
        BY <2>3, <3>2, <4>1
      <4> QED
        BY <3>2, <4>2, <4>3
    <3>3. CASE i = y
      <4>1. n \in 0 .. y /\ n < y /\ ~(y < y) /\ y - 1 = n /\ y # 0
        OBVIOUS
      <4>2. g[y] = G(f[n], y) /\ g[n] = f[n]
        BY <3>3, <4>1
      <4> QED
        BY <3>3, <4>1, <4>2
    <3> QED
      BY <2>3, <3>1, <3>2, <3>3
  <2>4. g = [i \in 0 .. y |-> IF i = 0 THEN x ELSE G(g[i - 1], i)]
    BY <2>3
  <2> HIDE DEF g
  <2>5. IsSending(g, id, x, q, y)
    BY <2>4 DEF IsSending, G
  <2> QED
    BY <2>5
<1>3. \A n \in Nat : n \in T
  <2> HIDE DEF T
  <2> QED
    BY <1>1, <1>2, SetInduction
<1> QED
  BY <1>3

LEMMA Sending ==
  ASSUME NEW id, NEW x, NEW q, Len(q) \in Nat
  PROVE  \E f : IsSending(f, id, x, q, Len(q)) /\ PacketsDone(id, x, q) = f[Len(q)]
<1>1. \E f : IsSending(f, id, x, q, Len(q))
  BY SendingExists
<1> QED
  BY <1>1 DEF IsSending, PacketsDone

LEMMA SendingNothing ==
  ASSUME NEW id, NEW x
  PROVE  PacketsDone(id, x, <<>>) = x
<1>1. Len(<<>>) = 0
  OBVIOUS
<1>2. PICK f : IsSending(f, id, x, <<>>, 0) /\ PacketsDone(id, x, <<>>) = f[0]
  BY <1>1, Sending
<1> QED
  BY <1>2 DEF IsSending

\* The last packet under way.
LEMMA SendingLast ==
  ASSUME NEW id, NEW x, NEW S, NEW q \in Seq(S), NEW c \in S
  PROVE  PacketsDone(id, x, Append(q, c)) = PacketDone(id, PacketsDone(id, x, q), c)
<1> DEFINE N == Len(q)
           r == Append(q, c)
<1>1. N \in Nat /\ r \in Seq(S) /\ Len(r) = N + 1 /\ r[N + 1] = c /\ \A i \in 1 .. N : r[i] = q[i]
  BY AppendProperties, LenProperties
<1>2. PICK f : IsSending(f, id, x, q, N) /\ PacketsDone(id, x, q) = f[N]
  BY <1>1, Sending
<1> HIDE DEF r
<1>3. PICK h : IsSending(h, id, x, r, N + 1) /\ PacketsDone(id, x, r) = h[N + 1]
  <2>1. Len(r) \in Nat
    BY <1>1
  <2>2. \E h : IsSending(h, id, x, r, Len(r)) /\ PacketsDone(id, x, r) = h[Len(r)]
    BY <2>1, Sending
  <2> QED
    BY <1>1, <2>2
<1> DEFINE T == {n \in Nat : n <= N => f[n] = h[n]}
<1>4. 0 \in T
  <2>1. f[0] = x
    BY <1>1, <1>2 DEF IsSending
  <2>2. h[0] = x
    BY <1>1, <1>3 DEF IsSending
  <2> QED
    BY <2>1, <2>2
<1>5. ASSUME NEW n \in Nat, n \in T
      PROVE  n + 1 \in T
  <2> SUFFICES ASSUME n + 1 <= N PROVE f[n + 1] = h[n + 1]
    OBVIOUS
  <2> DEFINE y == n + 1
  <2>1. y \in 0 .. N /\ y \in 0 .. N + 1 /\ y \in 1 .. N /\ y - 1 = n /\ y # 0 /\ n <= N
    BY <1>1
  <2> HIDE DEF y
  <2>2. f[y] = PacketDone(id, f[n], q[y])
    BY <1>2, <2>1 DEF IsSending
  <2>3. h[y] = PacketDone(id, h[n], r[y])
    BY <1>3, <2>1 DEF IsSending
  <2>4. r[y] = q[y] /\ f[n] = h[n]
    BY <1>1, <1>5, <2>1
  <2> QED
    BY <2>2, <2>3, <2>4 DEF y
<1>6. \A n \in Nat : n \in T
  <2> HIDE DEF T
  <2> QED
    BY <1>4, <1>5, SetInduction
<1>7. f[N] = h[N]
  <2>1. N \in T /\ N <= N
    <3> HIDE DEF T
    <3> QED
      BY <1>1, <1>6
  <2> HIDE DEF N
  <2> QED
    BY <2>1
<1> DEFINE y == N + 1
<1>8. y \in 0 .. y /\ y # 0 /\ y - 1 = N
  BY <1>1
<1>9. IsSending(h, id, x, r, y) /\ PacketsDone(id, x, r) = h[y]
  BY <1>3
<1>10. r[y] = c
  BY <1>1
<1> HIDE DEF y, N
<1>11. h[y] = PacketDone(id, h[N], r[y])
  BY <1>8, <1>9 DEF IsSending
<1> QED
  BY <1>2, <1>7, <1>9, <1>10, <1>11 DEF r

IsRemoving(f, m, s, q, N) ==
  f = [i \in 0 .. N |-> IF i = 0 THEN [mux |-> m, cmds |-> <<>>] ELSE RemoveStep(f[i - 1], s, q[i])]

LEMMA RemovingExists ==
  ASSUME NEW m, NEW s, NEW q
  PROVE  \A N \in Nat : \E f : IsRemoving(f, m, s, q, N)
<1> DEFINE T == {N \in Nat : \E f : IsRemoving(f, m, s, q, N)}
           G(z, i) == RemoveStep(z, s, q[i])
<1>1. 0 \in T
  <2> DEFINE f == [i \in 0 .. 0 |-> [mux |-> m, cmds |-> <<>>]]
  <2>1. f = [i \in 0 .. 0 |-> IF i = 0 THEN [mux |-> m, cmds |-> <<>>] ELSE RemoveStep(f[i - 1], s, q[i])]
    OBVIOUS
  <2> QED
    BY <2>1 DEF IsRemoving
<1>2. ASSUME NEW n \in Nat, n \in T
      PROVE  n + 1 \in T
  <2>1. PICK f : IsRemoving(f, m, s, q, n)
    BY <1>2
  <2> DEFINE y == n + 1
             g == [i \in 0 .. y |-> IF i < y THEN f[i] ELSE G(f[n], y)]
  <2>2. f = [i \in 0 .. n |-> IF i = 0 THEN [mux |-> m, cmds |-> <<>>] ELSE G(f[i - 1], i)]
    BY <2>1 DEF IsRemoving
  <2> HIDE DEF G
  <2>3. ASSUME NEW i \in 0 .. y
        PROVE  g[i] = IF i = 0 THEN [mux |-> m, cmds |-> <<>>] ELSE G(g[i - 1], i)
    <3>1. CASE i = 0
      BY <2>2, <3>1
    <3>2. CASE i > 0 /\ i < y
      <4>1. i \in 0 .. n /\ i - 1 \in 0 .. n /\ i - 1 < y /\ i - 1 \in 0 .. y
        BY <2>3, <3>2
      <4>2. f[i] = G(f[i - 1], i)
        BY <2>2, <3>2, <4>1
      <4>3. g[i] = f[i] /\ g[i - 1] = f[i - 1]
        BY <2>3, <3>2, <4>1
      <4> QED
        BY <3>2, <4>2, <4>3
    <3>3. CASE i = y
      <4>1. n \in 0 .. y /\ n < y /\ ~(y < y) /\ y - 1 = n /\ y # 0
        OBVIOUS
      <4>2. g[y] = G(f[n], y) /\ g[n] = f[n]
        BY <3>3, <4>1
      <4> QED
        BY <3>3, <4>1, <4>2
    <3> QED
      BY <2>3, <3>1, <3>2, <3>3
  <2>4. g = [i \in 0 .. y |-> IF i = 0 THEN [mux |-> m, cmds |-> <<>>] ELSE G(g[i - 1], i)]
    BY <2>3
  <2> HIDE DEF g
  <2>5. IsRemoving(g, m, s, q, y)
    BY <2>4 DEF IsRemoving, G
  <2> QED
    BY <2>5
<1>3. \A n \in Nat : n \in T
  <2> HIDE DEF T
  <2> QED
    BY <1>1, <1>2, SetInduction
<1> QED
  BY <1>3

LEMMA Removing ==
  ASSUME NEW m, NEW s, NEW q, Len(q) \in Nat
  PROVE  \E f : IsRemoving(f, m, s, q, Len(q)) /\ RemovedInTurn(m, s, q) = f[Len(q)]
<1>1. \E f : IsRemoving(f, m, s, q, Len(q))
  BY RemovingExists
<1> QED
  BY <1>1 DEF IsRemoving, RemovedInTurn

LEMMA RemovingNothing ==
  ASSUME NEW m, NEW s
  PROVE  RemovedInTurn(m, s, <<>>) = [mux |-> m, cmds |-> <<>>]
<1>1. Len(<<>>) = 0
  OBVIOUS
<1>2. PICK f : IsRemoving(f, m, s, <<>>, 0) /\ RemovedInTurn(m, s, <<>>) = f[0]
  BY <1>1, Removing
<1> QED
  BY <1>2 DEF IsRemoving

\* The last path that is removed.
LEMMA RemovingLast ==
  ASSUME NEW m, NEW s, NEW S, NEW q \in Seq(S), NEW c \in S
  PROVE  RemovedInTurn(m, s, Append(q, c)) = RemoveStep(RemovedInTurn(m, s, q), s, c)
<1> DEFINE N == Len(q)
           r == Append(q, c)
<1>1. N \in Nat /\ r \in Seq(S) /\ Len(r) = N + 1 /\ r[N + 1] = c /\ \A i \in 1 .. N : r[i] = q[i]
  BY AppendProperties, LenProperties
<1>2. PICK f : IsRemoving(f, m, s, q, N) /\ RemovedInTurn(m, s, q) = f[N]
  BY <1>1, Removing
<1> HIDE DEF r
<1>3. PICK h : IsRemoving(h, m, s, r, N + 1) /\ RemovedInTurn(m, s, r) = h[N + 1]
  <2>1. Len(r) \in Nat
    BY <1>1
  <2>2. \E h : IsRemoving(h, m, s, r, Len(r)) /\ RemovedInTurn(m, s, r) = h[Len(r)]
    BY <2>1, Removing
  <2> QED
    BY <1>1, <2>2
<1> DEFINE T == {n \in Nat : n <= N => f[n] = h[n]}
<1>4. 0 \in T
  <2>1. f[0] = [mux |-> m, cmds |-> <<>>]
    BY <1>1, <1>2 DEF IsRemoving
  <2>2. h[0] = [mux |-> m, cmds |-> <<>>]
    BY <1>1, <1>3 DEF IsRemoving
  <2> QED
    BY <2>1, <2>2
<1>5. ASSUME NEW n \in Nat, n \in T
      PROVE  n + 1 \in T
  <2> SUFFICES ASSUME n + 1 <= N PROVE f[n + 1] = h[n + 1]
    OBVIOUS
  <2> DEFINE y == n + 1
  <2>1. y \in 0 .. N /\ y \in 0 .. N + 1 /\ y \in 1 .. N /\ y - 1 = n /\ y # 0 /\ n <= N
    BY <1>1
  <2> HIDE DEF y
  <2>2. f[y] = RemoveStep(f[n], s, q[y])
    BY <1>2, <2>1 DEF IsRemoving
  <2>3. h[y] = RemoveStep(h[n], s, r[y])
    BY <1>3, <2>1 DEF IsRemoving
  <2>4. r[y] = q[y] /\ f[n] = h[n]
    BY <1>1, <1>5, <2>1
  <2> QED
    BY <2>2, <2>3, <2>4 DEF y
<1>6. \A n \in Nat : n \in T
  <2> HIDE DEF T
  <2> QED
    BY <1>4, <1>5, SetInduction
<1>7. f[N] = h[N]
  <2>1. N \in T /\ N <= N
    <3> HIDE DEF T
    <3> QED
      BY <1>1, <1>6
  <2> HIDE DEF N
  <2> QED
    BY <2>1
<1> DEFINE y == N + 1
<1>8. y \in 0 .. y /\ y # 0 /\ y - 1 = N
  BY <1>1
<1>9. IsRemoving(h, m, s, r, y) /\ RemovedInTurn(m, s, r) = h[y]
  BY <1>3
<1>10. r[y] = c
  BY <1>1
<1> HIDE DEF y, N
<1>11. h[y] = RemoveStep(h[N], s, r[y])
  BY <1>8, <1>9 DEF IsRemoving
<1> QED
  BY <1>2, <1>7, <1>9, <1>10, <1>11 DEF r

IsSubscribing(f, m, q, N) ==
  f = [i \in 0 .. N |-> IF i = 0 THEN <<>> ELSE f[i - 1] \o SubscribedAgain(m, q[i])]

LEMMA SubscribingExists ==
  ASSUME NEW m, NEW q
  PROVE  \A N \in Nat : \E f : IsSubscribing(f, m, q, N)
<1> DEFINE T == {N \in Nat : \E f : IsSubscribing(f, m, q, N)}
           G(z, i) == z \o SubscribedAgain(m, q[i])
<1>1. 0 \in T
  <2> DEFINE f == [i \in 0 .. 0 |-> <<>>]
  <2>1. f = [i \in 0 .. 0 |-> IF i = 0 THEN <<>> ELSE f[i - 1] \o SubscribedAgain(m, q[i])]
    OBVIOUS
  <2> QED
    BY <2>1 DEF IsSubscribing
<1>2. ASSUME NEW n \in Nat, n \in T
      PROVE  n + 1 \in T
  <2>1. PICK f : IsSubscribing(f, m, q, n)
    BY <1>2
  <2> DEFINE y == n + 1
             g == [i \in 0 .. y |-> IF i < y THEN f[i] ELSE G(f[n], y)]
  <2>2. f = [i \in 0 .. n |-> IF i = 0 THEN <<>> ELSE G(f[i - 1], i)]
    BY <2>1 DEF IsSubscribing
  <2> HIDE DEF G
  <2>3. ASSUME NEW i \in 0 .. y
        PROVE  g[i] = IF i = 0 THEN <<>> ELSE G(g[i - 1], i)
    <3>1. CASE i = 0
      BY <2>2, <3>1
    <3>2. CASE i > 0 /\ i < y
      <4>1. i \in 0 .. n /\ i - 1 \in 0 .. n /\ i - 1 < y /\ i - 1 \in 0 .. y
        BY <2>3, <3>2
      <4>2. f[i] = G(f[i - 1], i)
        BY <2>2, <3>2, <4>1
      <4>3. g[i] = f[i] /\ g[i - 1] = f[i - 1]
        BY <2>3, <3>2, <4>1
      <4> QED
        BY <3>2, <4>2, <4>3
    <3>3. CASE i = y
      <4>1. n \in 0 .. y /\ n < y /\ ~(y < y) /\ y - 1 = n /\ y # 0
        OBVIOUS
      <4>2. g[y] = G(f[n], y) /\ g[n] = f[n]
        BY <3>3, <4>1
      <4> QED
        BY <3>3, <4>1, <4>2
    <3> QED
      BY <2>3, <3>1, <3>2, <3>3
  <2>4. g = [i \in 0 .. y |-> IF i = 0 THEN <<>> ELSE G(g[i - 1], i)]
    BY <2>3
  <2> HIDE DEF g
  <2>5. IsSubscribing(g, m, q, y)
    BY <2>4 DEF IsSubscribing, G
  <2> QED
    BY <2>5
<1>3. \A n \in Nat : n \in T
  <2> HIDE DEF T
  <2> QED
    BY <1>1, <1>2, SetInduction
<1> QED
  BY <1>3

LEMMA Subscribing ==
  ASSUME NEW m, NEW q, Len(q) \in Nat
  PROVE  \E f : IsSubscribing(f, m, q, Len(q)) /\ SubscribedInTurn(m, q) = f[Len(q)]
<1>1. \E f : IsSubscribing(f, m, q, Len(q))
  BY SubscribingExists
<1> QED
  BY <1>1 DEF IsSubscribing, SubscribedInTurn

LEMMA SubscribingNothing ==
  ASSUME NEW m
  PROVE  SubscribedInTurn(m, <<>>) = <<>>
<1>1. Len(<<>>) = 0
  OBVIOUS
<1>2. PICK f : IsSubscribing(f, m, <<>>, 0) /\ SubscribedInTurn(m, <<>>) = f[0]
  BY <1>1, Subscribing
<1> QED
  BY <1>2 DEF IsSubscribing

\* The last path that is subscribed again.
LEMMA SubscribingLast ==
  ASSUME NEW m, NEW S, NEW q \in Seq(S), NEW c \in S
  PROVE  SubscribedInTurn(m, Append(q, c)) = SubscribedInTurn(m, q) \o SubscribedAgain(m, c)
<1> DEFINE N == Len(q)
           r == Append(q, c)
<1>1. N \in Nat /\ r \in Seq(S) /\ Len(r) = N + 1 /\ r[N + 1] = c /\ \A i \in 1 .. N : r[i] = q[i]
  BY AppendProperties, LenProperties
<1>2. PICK f : IsSubscribing(f, m, q, N) /\ SubscribedInTurn(m, q) = f[N]
  BY <1>1, Subscribing
<1> HIDE DEF r
<1>3. PICK h : IsSubscribing(h, m, r, N + 1) /\ SubscribedInTurn(m, r) = h[N + 1]
  <2>1. Len(r) \in Nat
    BY <1>1
  <2>2. \E h : IsSubscribing(h, m, r, Len(r)) /\ SubscribedInTurn(m, r) = h[Len(r)]
    BY <2>1, Subscribing
  <2> QED
    BY <1>1, <2>2
<1> DEFINE T == {n \in Nat : n <= N => f[n] = h[n]}
<1>4. 0 \in T
  <2>1. f[0] = <<>>
    BY <1>1, <1>2 DEF IsSubscribing
  <2>2. h[0] = <<>>
    BY <1>1, <1>3 DEF IsSubscribing
  <2> QED
    BY <2>1, <2>2
<1>5. ASSUME NEW n \in Nat, n \in T
      PROVE  n + 1 \in T
  <2> SUFFICES ASSUME n + 1 <= N PROVE f[n + 1] = h[n + 1]
    OBVIOUS
  <2> DEFINE y == n + 1
  <2>1. y \in 0 .. N /\ y \in 0 .. N + 1 /\ y \in 1 .. N /\ y - 1 = n /\ y # 0 /\ n <= N
    BY <1>1
  <2> HIDE DEF y
  <2>2. f[y] = f[n] \o SubscribedAgain(m, q[y])
    BY <1>2, <2>1 DEF IsSubscribing
  <2>3. h[y] = h[n] \o SubscribedAgain(m, r[y])
    BY <1>3, <2>1 DEF IsSubscribing
  <2>4. r[y] = q[y] /\ f[n] = h[n]
    BY <1>1, <1>5, <2>1
  <2> QED
    BY <2>2, <2>3, <2>4 DEF y
<1>6. \A n \in Nat : n \in T
  <2> HIDE DEF T
  <2> QED
    BY <1>4, <1>5, SetInduction
<1>7. f[N] = h[N]
  <2>1. N \in T /\ N <= N
    <3> HIDE DEF T
    <3> QED
      BY <1>1, <1>6
  <2> HIDE DEF N
  <2> QED
    BY <2>1
<1> DEFINE y == N + 1
<1>8. y \in 0 .. y /\ y # 0 /\ y - 1 = N
  BY <1>1
<1>9. IsSubscribing(h, m, r, y) /\ SubscribedInTurn(m, r) = h[y]
  BY <1>3
<1>10. r[y] = c
  BY <1>1
<1> HIDE DEF y, N
<1>11. h[y] = h[N] \o SubscribedAgain(m, r[y])
  BY <1>8, <1>9 DEF IsSubscribing
<1> QED
  BY <1>2, <1>7, <1>9, <1>10, <1>11 DEF r

-----------------------------------------------------------------------------
\* One part of the traffic after the other.

LEMMA CommandsInTurn ==
  ASSUME NEW id, NEW x, NEW S, NEW a \in Seq(S)
  PROVE  \A b \in Seq(S) : PacketDone(id, x, a \o b) = PacketDone(id, PacketDone(id, x, a), b)
<1> DEFINE y == PacketDone(id, x, a)
           T == {b \in Seq(S) : PacketDone(id, x, a \o b) = PacketDone(id, y, b)}
<1>1. <<>> \in T
  <2>1. PacketDone(id, y, <<>>) = y
    BY CommandingNothing
  <2> QED
    BY <2>1
<1>2. ASSUME NEW b \in Seq(S), NEW c \in S, b \in T
      PROVE  Append(b, c) \in T
  <2> DEFINE ab == a \o b
  <2>1. a \o Append(b, c) = Append(ab, c) /\ ab \in Seq(S) /\ Append(b, c) \in Seq(S)
    BY Joining
  <2> HIDE DEF ab
  <2>2. PacketDone(id, x, Append(ab, c)) = CommandDone(id, PacketDone(id, x, ab), c)
    BY <2>1, CommandingLast
  <2>3. PacketDone(id, y, Append(b, c)) = CommandDone(id, PacketDone(id, y, b), c)
    BY CommandingLast
  <2> QED
    BY <1>2, <2>1, <2>2, <2>3 DEF ab
<1>3. \A b \in Seq(S) : b \in T
  <2> HIDE DEF T
  <2> QED
    BY <1>1, <1>2, SeqInduction
<1> QED
  BY <1>3

LEMMA RepliesInTurn ==
  ASSUME NEW id, NEW x, NEW S, NEW a \in Seq(S)
  PROVE  \A b \in Seq(S) : RepliesDone(id, x, a \o b) = RepliesDone(id, RepliesDone(id, x, a), b)
<1> DEFINE y == RepliesDone(id, x, a)
           T == {b \in Seq(S) : RepliesDone(id, x, a \o b) = RepliesDone(id, y, b)}
<1>1. <<>> \in T
  <2>1. RepliesDone(id, y, <<>>) = y
    BY ReplyingNothing
  <2> QED
    BY <2>1
<1>2. ASSUME NEW b \in Seq(S), NEW c \in S, b \in T
      PROVE  Append(b, c) \in T
  <2> DEFINE ab == a \o b
  <2>1. a \o Append(b, c) = Append(ab, c) /\ ab \in Seq(S) /\ Append(b, c) \in Seq(S)
    BY Joining
  <2> HIDE DEF ab
  <2>2. RepliesDone(id, x, Append(ab, c)) = ReplyDone(id, RepliesDone(id, x, ab), c)
    BY <2>1, ReplyingLast
  <2>3. RepliesDone(id, y, Append(b, c)) = ReplyDone(id, RepliesDone(id, y, b), c)
    BY ReplyingLast
  <2> QED
    BY <1>2, <2>1, <2>2, <2>3 DEF ab
<1>3. \A b \in Seq(S) : b \in T
  <2> HIDE DEF T
  <2> QED
    BY <1>1, <1>2, SeqInduction
<1> QED
  BY <1>3

LEMMA PacketsInTurn ==
  ASSUME NEW id, NEW x, NEW S, NEW a \in Seq(S)
  PROVE  \A b \in Seq(S) : PacketsDone(id, x, a \o b) = PacketsDone(id, PacketsDone(id, x, a), b)
<1> DEFINE y == PacketsDone(id, x, a)
           T == {b \in Seq(S) : PacketsDone(id, x, a \o b) = PacketsDone(id, y, b)}
<1>1. <<>> \in T
  <2>1. PacketsDone(id, y, <<>>) = y
    BY SendingNothing
  <2> QED
    BY <2>1
<1>2. ASSUME NEW b \in Seq(S), NEW c \in S, b \in T
      PROVE  Append(b, c) \in T
  <2> DEFINE ab == a \o b
  <2>1. a \o Append(b, c) = Append(ab, c) /\ ab \in Seq(S) /\ Append(b, c) \in Seq(S)
    BY Joining
  <2> HIDE DEF ab
  <2>2. PacketsDone(id, x, Append(ab, c)) = PacketDone(id, PacketsDone(id, x, ab), c)
    BY <2>1, SendingLast
  <2>3. PacketsDone(id, y, Append(b, c)) = PacketDone(id, PacketsDone(id, y, b), c)
    BY SendingLast
  <2> QED
    BY <1>2, <2>1, <2>2, <2>3 DEF ab
<1>3. \A b \in Seq(S) : b \in T
  <2> HIDE DEF T
  <2> QED
    BY <1>1, <1>2, SeqInduction
<1> QED
  BY <1>3

\* What is first under way is handled first.
LEMMA OneCommand ==
  ASSUME NEW id, NEW x, NEW c
  PROVE  PacketDone(id, x, <<c>>) = CommandDone(id, x, c)
<1> DEFINE S == {c}
           e == <<>>
<1>1. c \in S /\ e \in Seq(S)
  OBVIOUS
<1>2. Append(e, c) = <<c>>
  OBVIOUS
<1>3. PacketDone(id, x, e) = x
  BY CommandingNothing
<1> HIDE DEF S, e
<1>4. PacketDone(id, x, Append(e, c)) = CommandDone(id, PacketDone(id, x, e), c)
  BY <1>1, CommandingLast
<1> QED
  BY <1>2, <1>3, <1>4

LEMMA OneReply ==
  ASSUME NEW id, NEW x, NEW r
  PROVE  RepliesDone(id, x, <<r>>) = ReplyDone(id, x, r)
<1> DEFINE S == {r}
           e == <<>>
<1>1. r \in S /\ e \in Seq(S)
  OBVIOUS
<1>2. Append(e, r) = <<r>>
  OBVIOUS
<1>3. RepliesDone(id, x, e) = x
  BY ReplyingNothing
<1> HIDE DEF S, e
<1>4. RepliesDone(id, x, Append(e, r)) = ReplyDone(id, RepliesDone(id, x, e), r)
  BY <1>1, ReplyingLast
<1> QED
  BY <1>2, <1>3, <1>4

LEMMA OnePacket ==
  ASSUME NEW id, NEW x, NEW p
  PROVE  PacketsDone(id, x, <<p>>) = PacketDone(id, x, p)
<1> DEFINE S == {p}
           e == <<>>
<1>1. p \in S /\ e \in Seq(S)
  OBVIOUS
<1>2. Append(e, p) = <<p>>
  OBVIOUS
<1>3. PacketsDone(id, x, e) = x
  BY SendingNothing
<1> HIDE DEF S, e
<1>4. PacketsDone(id, x, Append(e, p)) = PacketDone(id, PacketsDone(id, x, e), p)
  BY <1>1, SendingLast
<1> QED
  BY <1>2, <1>3, <1>4

LEMMA FirstReply ==
  ASSUME NEW id, NEW x, NEW S, NEW q \in Seq(S), q # <<>>
  PROVE  RepliesDone(id, x, q) = RepliesDone(id, ReplyDone(id, x, Head(q)), Tail(q))
<1> DEFINE h == <<Head(q)>>
           t == Tail(q)
<1>1. Head(q) \in S /\ t \in Seq(S) /\ q = h \o t /\ h \in Seq(S)
  BY TakingApart, Joining
<1>2. RepliesDone(id, x, h) = ReplyDone(id, x, Head(q))
  BY OneReply
<1> HIDE DEF h, t
<1>3. RepliesDone(id, x, h \o t) = RepliesDone(id, RepliesDone(id, x, h), t)
  BY <1>1, RepliesInTurn
<1> QED
  BY <1>1, <1>2, <1>3 DEF t

LEMMA FirstPacket ==
  ASSUME NEW id, NEW x, NEW S, NEW q \in Seq(S), q # <<>>
  PROVE  PacketsDone(id, x, q) = PacketsDone(id, PacketDone(id, x, Head(q)), Tail(q))
<1> DEFINE h == <<Head(q)>>
           t == Tail(q)
<1>1. Head(q) \in S /\ t \in Seq(S) /\ q = h \o t /\ h \in Seq(S)
  BY TakingApart, Joining
<1>2. PacketsDone(id, x, h) = PacketDone(id, x, Head(q))
  BY OnePacket
<1> HIDE DEF h, t
<1>3. PacketsDone(id, x, h \o t) = PacketsDone(id, PacketsDone(id, x, h), t)
  BY <1>1, PacketsInTurn
<1> QED
  BY <1>1, <1>2, <1>3 DEF t

\* Commands that travel one by one do what they do in one packet.
LEMMA UnbatchedCommands ==
  ASSUME NEW id, NEW x, NEW S
  PROVE  \A q \in Seq(S) :
            /\ [i \in DOMAIN q |-> <<q[i]>>] \in Seq(Seq(S))
            /\ PacketsDone(id, x, [i \in DOMAIN q |-> <<q[i]>>]) = PacketDone(id, x, q)
<1> DEFINE Singles(q) == [i \in DOMAIN q |-> <<q[i]>>]
           T == {q \in Seq(S) : /\ Singles(q) \in Seq(Seq(S))
                                /\ PacketsDone(id, x, Singles(q)) = PacketDone(id, x, q)}
<1>1. <<>> \in T
  <2>1. Singles(<<>>) = <<>> /\ <<>> \in Seq(S) /\ <<>> \in Seq(Seq(S))
    OBVIOUS
  <2>2. PacketsDone(id, x, <<>>) = x /\ PacketDone(id, x, <<>>) = x
    BY SendingNothing, CommandingNothing
  <2> HIDE DEF Singles
  <2> QED
    BY <2>1, <2>2
<1>2. ASSUME NEW q \in Seq(S), NEW c \in S, q \in T
      PROVE  Append(q, c) \in T
  <2> DEFINE qc == Append(q, c)
  <2>1. qc \in Seq(S) /\ <<c>> \in Seq(S)
    BY Joining
  <2>2. Singles(q) \in Seq(Seq(S)) /\ PacketsDone(id, x, Singles(q)) = PacketDone(id, x, q)
    BY <1>2
  <2>3. Singles(qc) = Append(Singles(q), <<c>>)
    <3> DEFINE n == Len(q)
               u == Singles(qc)
               v == Append(Singles(q), <<c>>)
    <3>1. /\ n \in Nat /\ DOMAIN q = 1 .. n /\ Len(qc) = n + 1 /\ DOMAIN qc = 1 .. n + 1
          /\ qc[n + 1] = c /\ \A i \in 1 .. n : qc[i] = q[i]
      BY <2>1, AppendProperties, LenProperties
    <3>2. u = [i \in 1 .. n + 1 |-> <<qc[i]>>]
      BY <3>1
    <3>3. Singles(q) = [i \in 1 .. n |-> <<q[i]>>] /\ Len(Singles(q)) = n
      BY <2>2, <3>1
    <3>4. \A i \in 1 .. n + 1 : qc[i] \in S
      BY <2>1, <3>1
    <3> HIDE DEF n, qc
    <3>5. u \in Seq(Seq(S)) /\ Len(u) = n + 1
      BY <3>1, <3>2, <3>4
    <3>6. v \in Seq(Seq(S)) /\ Len(v) = n + 1 /\ v[n + 1] = <<c>> /\ \A i \in 1 .. n : v[i] = Singles(q)[i]
      BY <2>1, <2>2, <3>3, AppendProperties
    <3>7. ASSUME NEW i \in 1 .. n + 1 PROVE u[i] = v[i]
      <4>1. CASE i = n + 1
        BY <3>1, <3>2, <3>6, <4>1
      <4>2. CASE i \in 1 .. n
        BY <3>1, <3>2, <3>3, <3>6, <4>2
      <4> QED
        BY <3>1, <4>1, <4>2
    <3> HIDE DEF u, v
    <3>8. u = v
      BY <3>5, <3>6, <3>7, SeqEqual
    <3> QED
      BY <3>8 DEF u, v
  <2> HIDE DEF Singles
  <2> DEFINE u == Singles(q)
             cc == <<c>>
  <2>4. Append(u, cc) \in Seq(Seq(S)) /\ u \in Seq(Seq(S)) /\ cc \in Seq(S)
    BY <2>1, <2>2, Joining
  <2> HIDE DEF u, cc
  <2>5. PacketsDone(id, x, Append(u, cc)) = PacketDone(id, PacketsDone(id, x, u), cc)
    BY <2>4, SendingLast
  <2>6. PacketDone(id, PacketDone(id, x, q), <<c>>) = CommandDone(id, PacketDone(id, x, q), c)
    BY OneCommand
  <2>7. PacketDone(id, x, qc) = CommandDone(id, PacketDone(id, x, q), c)
    BY CommandingLast
  <2> QED
    BY <2>1, <2>2, <2>3, <2>4, <2>5, <2>6, <2>7 DEF u, cc
<1>3. \A q \in Seq(S) : q \in T
  <2> HIDE DEF T
  <2> QED
    BY <1>1, <1>2, SeqInduction
<1> QED
  BY <1>3

LEMMA SendingType ==
  ASSUME NEW m, NEW b, NEW S, NEW u \in Seq(Seq(S)), NEW q \in Seq(S)
  PROVE  Send(m, u, q, b) \in Seq(Seq(S))
<1> DEFINE v == [i \in DOMAIN q |-> <<q[i]>>]
<1>1. v \in Seq(Seq(S))
  BY UnbatchedCommands
<1>2. Append(u, q) \in Seq(Seq(S))
  BY Joining
<1> HIDE DEF v
<1>3. u \o v \in Seq(Seq(S))
  BY <1>1, ConcatProperties
<1> QED
  BY <1>2, <1>3 DEF Send, v

\* Send() on a connection: the commands come after everything under way.
LEMMA SendingCommands ==
  ASSUME NEW id, NEW x, NEW b, NEW m, m.connected, NEW S, NEW u \in Seq(Seq(S)), NEW q \in Seq(S)
  PROVE  PacketsDone(id, x, Send(m, u, q, b)) = PacketDone(id, PacketsDone(id, x, u), q)
<1> DEFINE y == PacketsDone(id, x, u)
           v == [i \in DOMAIN q |-> <<q[i]>>]
<1>1. CASE q = <<>>
  <2>1. Send(m, u, q, b) = u
    BY <1>1 DEF Send
  <2> QED
    BY <1>1, <2>1, CommandingNothing
<1>2. CASE q # <<>> /\ b
  <2>1. Send(m, u, q, b) = Append(u, q)
    BY <1>2 DEF Send
  <2> QED
    BY <2>1, SendingLast
<1>3. CASE q # <<>> /\ ~b
  <2>1. Send(m, u, q, b) = u \o v
    BY <1>3 DEF Send
  <2>2. v \in Seq(Seq(S)) /\ PacketsDone(id, y, v) = PacketDone(id, y, q)
    BY UnbatchedCommands
  <2> HIDE DEF v
  <2>3. PacketsDone(id, x, u \o v) = PacketsDone(id, y, v)
    BY <2>2, PacketsInTurn
  <2> QED
    BY <2>1, <2>2, <2>3
<1> QED
  BY <1>1, <1>2, <1>3

-----------------------------------------------------------------------------
\* Types.

LEMMA PartialFunctionFacts ==
  ASSUME NEW S, NEW T, NEW f
  PROVE  f \in PartialFunctions(S, T) <=> IsPartialFunction(f, S, T)
BY DEF PartialFunctions, IsPartialFunction

LEMMA WithFacts ==
  ASSUME NEW S, NEW T, NEW f, IsPartialFunction(f, S, T), NEW p \in S, NEW y \in T
  PROVE  /\ IsPartialFunction(With(f, p, y), S, T)
         /\ DOMAIN With(f, p, y) = DOMAIN f \union {p}
         /\ With(f, p, y)[p] = y
         /\ \A r \in DOMAIN f : r # p => With(f, p, y)[r] = f[r]
BY DEF IsPartialFunction, With

LEMMA WithoutFacts ==
  ASSUME NEW S, NEW T, NEW f, IsPartialFunction(f, S, T), NEW p
  PROVE  /\ IsPartialFunction(Without(f, p), S, T)
         /\ DOMAIN Without(f, p) = DOMAIN f \ {p}
         /\ \A r \in DOMAIN f : r # p => Without(f, p)[r] = f[r]
BY DEF IsPartialFunction, Without, Restrict

LEMMA NoFunctionFacts ==
  /\ \A S, T : IsPartialFunction(NoFunction, S, T)
  /\ DOMAIN NoFunction = {}
  /\ \A S, T, f : IsPartialFunction(f, S, T) /\ DOMAIN f = {} => f = NoFunction
BY DEF IsPartialFunction, NoFunction

LEMMA CommandFacts ==
  ASSUME NEW n, NEW c \in Commands(n)
  PROVE  /\ c.cmd \in {"obss", "subscribe", "unsubscribe", "subtrees", "upload", "tosubscriber"}
         /\ c.cmd = "obss" => c.ids \in SUBSET Nat
         /\ c.cmd = "subscribe" => c.path \in Patterns /\ c.filter \in SUBSET Values
         /\ c.cmd = "unsubscribe" => c.path \in Patterns
         /\ c.cmd = "subtrees" => c.id \in 1 .. n /\ c.path \in Patterns /\ c.values \in BOOLEAN
         /\ c.cmd = "upload" => c.node \in Nodes /\ c.value \in Payloads /\ c.skip \in Nat
         /\ c.cmd = "tosubscriber" => c.node \in Nodes /\ c.from \in Nat
BY DEF Commands

LEMMA ReplyFacts ==
  ASSUME NEW n, NEW r \in Replies(n)
  PROVE  /\ r.re \in {"obss", "items", "subtrees", "fromsubscriber"}
         /\ r.re = "obss" => r.ids \in SUBSET Nat
         /\ r.re = "items" => r.items \in PartialFunctions(Nodes, Payloads) /\ r.skip \in Nat
         /\ r.re = "subtrees" => r.id \in 1 .. n /\ r.path \in Patterns
         /\ r.re = "fromsubscriber" => r.node \in Nodes
BY DEF Replies

\* What may travel may also travel after more registrations.
LEMMA MoreRegistrations ==
  ASSUME NEW n \in Nat, NEW k \in Nat, n <= k
  PROVE  /\ Seq(Seq(Commands(n))) \subseteq Seq(Seq(Commands(k)))
         /\ Seq(Replies(n)) \subseteq Seq(Replies(k))
<1>1. 1 .. n \subseteq 1 .. k
  OBVIOUS
<1>2. Commands(n) \subseteq Commands(k)
  BY <1>1 DEF Commands
<1>3. Replies(n) \subseteq Replies(k)
  BY <1>1 DEF Replies
<1>4. ASSUME NEW S, NEW T, S \subseteq T PROVE Seq(S) \subseteq Seq(T)
  BY <1>4
<1>5. Seq(Commands(n)) \subseteq Seq(Commands(k))
  BY <1>2, <1>4
<1> QED
  BY <1>3, <1>4, <1>5

-----------------------------------------------------------------------------
\* What the traffic leads to.

Outcome(t, o, a) == [tab |-> t, open |-> o, answers |-> a]

\* The same with answers that came earlier.
Before(p, x) == Outcome(x.tab, x.open, p \o x.answers)

\* Replies do not concern the server's table.
LEMMA RepliesLeaveTable ==
  ASSUME NEW id, NEW t, NEW u, NEW o, NEW a, NEW S
  PROVE  \A q \in Seq(S) :
            RepliesDone(id, Outcome(u, o, a), q)
              = Outcome(u, RepliesDone(id, Outcome(t, o, a), q).open,
                        RepliesDone(id, Outcome(t, o, a), q).answers)
<1> DEFINE X(q) == RepliesDone(id, Outcome(t, o, a), q)
           Y(q) == RepliesDone(id, Outcome(u, o, a), q)
           T == {q \in Seq(S) : Y(q) = Outcome(u, X(q).open, X(q).answers)}
<1>1. <<>> \in T
  <2>1. X(<<>>) = Outcome(t, o, a) /\ Y(<<>>) = Outcome(u, o, a)
    BY ReplyingNothing
  <2> HIDE DEF X, Y
  <2> QED
    BY <2>1 DEF Outcome
<1>2. ASSUME NEW q \in Seq(S), NEW r \in S, q \in T
      PROVE  Append(q, r) \in T
  <2> DEFINE qr == Append(q, r)
  <2>1. X(qr) = ReplyDone(id, X(q), r) /\ Y(qr) = ReplyDone(id, Y(q), r)
    BY ReplyingLast
  <2>2. Y(q) = Outcome(u, X(q).open, X(q).answers)
    BY <1>2
  <2>3. qr \in Seq(S)
    BY Joining
  <2> HIDE DEF X, Y, qr
  <2>4. ReplyDone(id, Y(q), r) = Outcome(u, ReplyDone(id, X(q), r).open, ReplyDone(id, X(q), r).answers)
    BY <2>2 DEF ReplyDone, Outcome
  <2>5. qr \in T
    BY <2>1, <2>3, <2>4
  <2> QED
    BY <2>5 DEF qr
<1>3. \A q \in Seq(S) : q \in T
  <2> HIDE DEF T
  <2> QED
    BY <1>1, <1>2, SeqInduction
<1> QED
  BY <1>3

\* Answers come behind earlier ones, and only to a registration in use.
AnswersAdd(id, x, y, n, w, p) ==
  /\ y = Outcome(y.tab, y.open, y.answers)
  /\ y.answers \in Seq(Patterns)
  /\ id \notin 1 .. n => y.answers = x.answers
  /\ w = Before(p, y)

LEMMA OneReplyAdds ==
  ASSUME NEW id, NEW n, NEW r \in Replies(n), NEW p \in Seq(Patterns),
         NEW x, x.answers \in Seq(Patterns), NEW z, z = Before(p, x)
  PROVE  AnswersAdd(id, x, ReplyDone(id, x, r), n, ReplyDone(id, z, r), p)
<1> DEFINE y == ReplyDone(id, x, r)
<1>1. r.re = "subtrees" => r.id \in 1 .. n /\ r.path \in Patterns
  BY ReplyFacts
<1>2. CASE r.re = "subtrees" /\ r.id = id
  <2>1. y.answers = Append(x.answers, r.path) /\ y = Outcome(y.tab, y.open, y.answers)
    BY <1>2 DEF ReplyDone, Outcome
  <2>2. y.tab = x.tab /\ y.open = x.open
    BY <1>2 DEF ReplyDone
  <2>3. p \o Append(x.answers, r.path) = Append(p \o x.answers, r.path) /\ Append(x.answers, r.path) \in Seq(Patterns)
    BY <1>1, <1>2, Joining
  <2>4. ReplyDone(id, z, r) = Outcome(x.tab, x.open, Append(p \o x.answers, r.path))
    BY <1>2 DEF ReplyDone, Before, Outcome
  <2> HIDE DEF y
  <2>5. AnswersAdd(id, x, y, n, ReplyDone(id, z, r), p)
    BY <1>1, <1>2, <2>1, <2>2, <2>3, <2>4 DEF AnswersAdd, Before
  <2> QED
    BY <2>5 DEF y
<1>3. CASE ~(r.re = "subtrees" /\ r.id = id)
  BY <1>3 DEF AnswersAdd, ReplyDone, Before, Outcome
<1> QED
  BY <1>2, <1>3

LEMMA OneCommandAdds ==
  ASSUME NEW id, NEW n, NEW c \in Commands(n), NEW p \in Seq(Patterns),
         NEW x, x.answers \in Seq(Patterns), NEW z, z = Before(p, x)
  PROVE  AnswersAdd(id, x, CommandDone(id, x, c), n, CommandDone(id, z, c), p)
<1> DEFINE y == CommandDone(id, x, c)
           t == TableAfter(x.tab, c)
<1>1. c.cmd = "subtrees" => c.id \in 1 .. n /\ c.path \in Patterns
  BY CommandFacts
<1>2. z.tab = x.tab
  BY DEF Before, Outcome
<1>3. CASE c.cmd = "subtrees" /\ c.id = id
  <2>1. y.answers = Append(x.answers, c.path) /\ y = Outcome(y.tab, y.open, y.answers)
    BY <1>3 DEF CommandDone, Outcome
  <2>2. y.tab = t /\ y.open = x.open
    BY <1>3 DEF CommandDone
  <2>3. p \o Append(x.answers, c.path) = Append(p \o x.answers, c.path) /\ Append(x.answers, c.path) \in Seq(Patterns)
    BY <1>1, <1>3, Joining
  <2>4. CommandDone(id, z, c) = Outcome(t, x.open, Append(p \o x.answers, c.path))
    BY <1>2, <1>3 DEF CommandDone, Before, Outcome
  <2> HIDE DEF y, t
  <2>5. AnswersAdd(id, x, y, n, CommandDone(id, z, c), p)
    BY <1>1, <1>3, <2>1, <2>2, <2>3, <2>4 DEF AnswersAdd, Before
  <2> QED
    BY <2>5 DEF y
<1>4. CASE ~(c.cmd = "subtrees" /\ c.id = id)
  BY <1>2, <1>4 DEF AnswersAdd, CommandDone, Before, Outcome
<1> QED
  BY <1>3, <1>4

LEMMA RepliesAdd ==
  ASSUME NEW id, NEW n, NEW p \in Seq(Patterns),
         NEW x, x = Outcome(x.tab, x.open, x.answers), x.answers \in Seq(Patterns)
  PROVE  \A q \in Seq(Replies(n)) :
            AnswersAdd(id, x, RepliesDone(id, x, q), n, RepliesDone(id, Before(p, x), q), p)
<1> DEFINE S == Replies(n)
           X(q) == RepliesDone(id, x, q)
           W(q) == RepliesDone(id, Before(p, x), q)
           T == {q \in Seq(S) : AnswersAdd(id, x, X(q), n, W(q), p)}
<1>1. <<>> \in T
  <2>1. X(<<>>) = x /\ W(<<>>) = Before(p, x)
    BY ReplyingNothing
  <2> HIDE DEF X, W
  <2> QED
    BY <2>1 DEF AnswersAdd
<1>2. ASSUME NEW q \in Seq(S), NEW c \in S, q \in T
      PROVE  Append(q, c) \in T
  <2> DEFINE qc == Append(q, c)
  <2>1. X(qc) = ReplyDone(id, X(q), c) /\ W(qc) = ReplyDone(id, W(q), c)
    BY ReplyingLast
  <2>2. AnswersAdd(id, x, X(q), n, W(q), p)
    BY <1>2
  <2>3. qc \in Seq(S)
    BY Joining
  <2> HIDE DEF X, W, qc
  <2>4. X(q) = Outcome(X(q).tab, X(q).open, X(q).answers) /\ X(q).answers \in Seq(Patterns) /\ W(q) = Before(p, X(q))
    BY <2>2 DEF AnswersAdd
  <2>5. AnswersAdd(id, X(q), ReplyDone(id, X(q), c), n, ReplyDone(id, W(q), c), p)
    BY <2>4, OneReplyAdds
  <2>6. AnswersAdd(id, x, X(qc), n, W(qc), p)
    BY <2>1, <2>2, <2>5 DEF AnswersAdd
  <2>7. qc \in T
    BY <2>3, <2>6
  <2> QED
    BY <2>7 DEF qc
<1>3. \A q \in Seq(S) : q \in T
  <2> HIDE DEF T, S
  <2> QED
    BY <1>1, <1>2, SeqInduction
<1> QED
  BY <1>3

LEMMA CommandsAdd ==
  ASSUME NEW id, NEW n, NEW p \in Seq(Patterns),
         NEW x, x = Outcome(x.tab, x.open, x.answers), x.answers \in Seq(Patterns)
  PROVE  \A q \in Seq(Commands(n)) :
            AnswersAdd(id, x, PacketDone(id, x, q), n, PacketDone(id, Before(p, x), q), p)
<1> DEFINE S == Commands(n)
           X(q) == PacketDone(id, x, q)
           W(q) == PacketDone(id, Before(p, x), q)
           T == {q \in Seq(S) : AnswersAdd(id, x, X(q), n, W(q), p)}
<1>1. <<>> \in T
  <2>1. X(<<>>) = x /\ W(<<>>) = Before(p, x)
    BY CommandingNothing
  <2> HIDE DEF X, W
  <2> QED
    BY <2>1 DEF AnswersAdd
<1>2. ASSUME NEW q \in Seq(S), NEW c \in S, q \in T
      PROVE  Append(q, c) \in T
  <2> DEFINE qc == Append(q, c)
  <2>1. X(qc) = CommandDone(id, X(q), c) /\ W(qc) = CommandDone(id, W(q), c)
    BY CommandingLast
  <2>2. AnswersAdd(id, x, X(q), n, W(q), p)
    BY <1>2
  <2>3. qc \in Seq(S)
    BY Joining
  <2> HIDE DEF X, W, qc
  <2>4. X(q) = Outcome(X(q).tab, X(q).open, X(q).answers) /\ X(q).answers \in Seq(Patterns) /\ W(q) = Before(p, X(q))
    BY <2>2 DEF AnswersAdd
  <2>5. AnswersAdd(id, X(q), CommandDone(id, X(q), c), n, CommandDone(id, W(q), c), p)
    BY <2>4, OneCommandAdds
  <2>6. AnswersAdd(id, x, X(qc), n, W(qc), p)
    BY <2>1, <2>2, <2>5 DEF AnswersAdd
  <2>7. qc \in T
    BY <2>3, <2>6
  <2> QED
    BY <2>7 DEF qc
<1>3. \A q \in Seq(S) : q \in T
  <2> HIDE DEF T, S
  <2> QED
    BY <1>1, <1>2, SeqInduction
<1> QED
  BY <1>3

LEMMA PacketsAdd ==
  ASSUME NEW id, NEW n, NEW p \in Seq(Patterns),
         NEW x, x = Outcome(x.tab, x.open, x.answers), x.answers \in Seq(Patterns)
  PROVE  \A q \in Seq(Seq(Commands(n))) :
            AnswersAdd(id, x, PacketsDone(id, x, q), n, PacketsDone(id, Before(p, x), q), p)
<1> DEFINE S == Seq(Commands(n))
           X(q) == PacketsDone(id, x, q)
           W(q) == PacketsDone(id, Before(p, x), q)
           T == {q \in Seq(S) : AnswersAdd(id, x, X(q), n, W(q), p)}
<1>1. <<>> \in T
  <2>1. X(<<>>) = x /\ W(<<>>) = Before(p, x)
    BY SendingNothing
  <2> HIDE DEF X, W
  <2> QED
    BY <2>1 DEF AnswersAdd
<1>2. ASSUME NEW q \in Seq(S), NEW c \in S, q \in T
      PROVE  Append(q, c) \in T
  <2> DEFINE qc == Append(q, c)
  <2>1. X(qc) = PacketDone(id, X(q), c) /\ W(qc) = PacketDone(id, W(q), c)
    BY SendingLast
  <2>2. AnswersAdd(id, x, X(q), n, W(q), p)
    BY <1>2
  <2>3. qc \in Seq(S)
    BY Joining
  <2> HIDE DEF X, W, qc
  <2>4. X(q) = Outcome(X(q).tab, X(q).open, X(q).answers) /\ X(q).answers \in Seq(Patterns) /\ W(q) = Before(p, X(q))
    BY <2>2 DEF AnswersAdd
  <2>5. AnswersAdd(id, X(q), PacketDone(id, X(q), c), n, PacketDone(id, W(q), c), p)
    BY <2>4, CommandsAdd
  <2>6. AnswersAdd(id, x, X(qc), n, W(qc), p)
    BY <2>1, <2>2, <2>5 DEF AnswersAdd
  <2>7. qc \in T
    BY <2>3, <2>6
  <2> QED
    BY <2>7 DEF qc
<1>3. \A q \in Seq(S) : q \in T
  <2> HIDE DEF T, S
  <2> QED
    BY <1>1, <1>2, SeqInduction
<1> QED
  BY <1>3

-----------------------------------------------------------------------------
\* The server.

Tables == PartialFunctions(Patterns, SUBSET Values)
Trees == [Nodes -> Payloads]

\* A command is answered by what the mux is to make of it.
LEMMA AnswerFacts ==
  ASSUME NEW n, NEW c \in Commands(n), NEW tab, NEW t \in Trees
  PROVE  \/ /\ Answers(tab, t, c) = <<>>
            /\ \A id, x : /\ CommandDone(id, x, c).open = x.open
                          /\ CommandDone(id, x, c).answers = x.answers
         \/ \E r \in Replies(n) :
              /\ Answers(tab, t, c) = <<r>>
              /\ \A id, x : /\ CommandDone(id, x, c).open = ReplyDone(id, x, r).open
                            /\ CommandDone(id, x, c).answers = ReplyDone(id, x, r).answers
<1> USE CommandFacts
<1>1. CASE c.cmd = "obss"
  <2> DEFINE r == PongReply(c.ids)
  <2>1. Answers(tab, t, c) = <<r>>
    BY <1>1 DEF Answers
  <2>2. r \in Replies(n)
    BY <1>1 DEF PongReply, Replies
  <2>3. \A id, x : /\ CommandDone(id, x, c).open = ReplyDone(id, x, r).open
                   /\ CommandDone(id, x, c).answers = ReplyDone(id, x, r).answers
    BY <1>1 DEF CommandDone, ReplyDone, PongReply
  <2> QED
    BY <2>1, <2>2, <2>3
<1>2. CASE c.cmd = "subtrees"
  <2> DEFINE r == SubtreesReply(c)
  <2>1. Answers(tab, t, c) = <<r>>
    BY <1>2 DEF Answers
  <2>2. r \in Replies(n)
    BY <1>2 DEF SubtreesReply, Replies
  <2>3. \A id, x : /\ CommandDone(id, x, c).open = ReplyDone(id, x, r).open
                   /\ CommandDone(id, x, c).answers = ReplyDone(id, x, r).answers
    BY <1>2 DEF CommandDone, ReplyDone, SubtreesReply
  <2> QED
    BY <2>1, <2>2, <2>3
<1>3. CASE c.cmd \notin {"obss", "subtrees"}
  <2>1. \A id, x : /\ CommandDone(id, x, c).open = x.open
                   /\ CommandDone(id, x, c).answers = x.answers
    BY <1>3 DEF CommandDone
  <2>2. ASSUME NEW r, r.re \notin {"obss", "subtrees"}
        PROVE  \A id, x : /\ ReplyDone(id, x, r).open = x.open
                          /\ ReplyDone(id, x, r).answers = x.answers
    BY <2>2 DEF ReplyDone
  <2>3. \/ Answers(tab, t, c) = <<>>
        \/ \E r \in Replies(n) : Answers(tab, t, c) = <<r>> /\ r.re \notin {"obss", "subtrees"}
    <3>1. CASE c.cmd = "subscribe"
      <4> DEFINE items == CurrentItems(t, c.path, c.filter)
                 r == [re |-> "items", items |-> items, skip |-> 0]
      <4>1. items \in PartialFunctions(Nodes, Payloads)
        <5>1. c.path \subseteq Nodes
          BY <3>1, MuxAssumption
        <5>2. items = [k \in {i \in c.path : t[i] # NoValue /\ t[i] \in c.filter} |-> t[k]]
          BY DEF CurrentItems, Restrict
        <5>3. IsPartialFunction(items, Nodes, Payloads)
          BY <5>1, <5>2 DEF IsPartialFunction, Trees
        <5> QED
          BY <5>3, PartialFunctionFacts
      <4>2. r \in Replies(n) /\ r.re \notin {"obss", "subtrees"}
        BY <4>1 DEF Replies
      <4>3. Answers(tab, t, c) = <<>> \/ Answers(tab, t, c) = <<r>>
        BY <3>1 DEF Answers
      <4> QED
        BY <4>2, <4>3
    <3>2. CASE c.cmd = "unsubscribe"
      BY <3>2 DEF Answers
    <3>3. CASE c.cmd = "upload"
      <4> DEFINE r(v) == [re |-> "items", items |-> [k \in {c.node} |-> v], skip |-> c.skip]
      <4>1. ASSUME NEW v \in Payloads
            PROVE  r(v) \in Replies(n) /\ r(v).re \notin {"obss", "subtrees"}
        <5>1. IsPartialFunction([k \in {c.node} |-> v], Nodes, Payloads)
          BY <3>3 DEF IsPartialFunction
        <5>2. [k \in {c.node} |-> v] \in PartialFunctions(Nodes, Payloads)
          BY <5>1, PartialFunctionFacts
        <5> QED
          BY <3>3, <5>2 DEF Replies
      <4>2. NoValue \in Payloads /\ c.value \in Payloads
        BY <3>3 DEF Payloads
      <4>3. Answers(tab, t, c) = <<>> \/ Answers(tab, t, c) = <<r(c.value)>> \/ Answers(tab, t, c) = <<r(NoValue)>>
        BY <3>3 DEF Answers, Notification
      <4> HIDE DEF r
      <4> QED
        BY <4>1, <4>2, <4>3
    <3>4. CASE c.cmd = "tosubscriber"
      <4> DEFINE r == MessageReply(c.node, c.from)
      <4>1. r \in Replies(n) /\ r.re \notin {"obss", "subtrees"}
        BY <3>4 DEF Replies, MessageReply
      <4>2. Answers(tab, t, c) = <<>> \/ Answers(tab, t, c) = <<r>>
        BY <3>4 DEF Answers
      <4> QED
        BY <4>1, <4>2
    <3> QED
      BY <1>3, <3>1, <3>2, <3>3, <3>4
  <2> QED
    BY <2>1, <2>2, <2>3
<1> QED
  BY <1>1, <1>2, <1>3

LEMMA TableAfterType ==
  ASSUME NEW n, NEW c \in Commands(n), NEW tab \in Tables
  PROVE  TableAfter(tab, c) \in Tables
<1>1. IsPartialFunction(tab, Patterns, SUBSET Values)
  BY PartialFunctionFacts DEF Tables
<1>2. IsPartialFunction(TableAfter(tab, c), Patterns, SUBSET Values)
  <2>1. CASE c.cmd = "subscribe"
    <3>1. c.path \in Patterns /\ c.filter \in SUBSET Values
      BY <2>1, CommandFacts
    <3> QED
      BY <1>1, <2>1, <3>1, WithFacts DEF TableAfter
  <2>2. CASE c.cmd = "unsubscribe"
    BY <1>1, <2>2, WithoutFacts DEF TableAfter
  <2>3. CASE c.cmd \notin {"subscribe", "unsubscribe"}
    BY <1>1, <2>3 DEF TableAfter
  <2> QED
    BY <2>1, <2>2, <2>3
<1> QED
  BY <1>2, PartialFunctionFacts DEF Tables

LEMMA TreeAfterType ==
  ASSUME NEW n, NEW c \in Commands(n), NEW t \in Trees
  PROVE  TreeAfter(t, c) \in Trees
<1>1. CASE c.cmd = "upload"
  <2>1. c.node \in Nodes /\ c.value \in Payloads
    BY <1>1, CommandFacts
  <2> QED
    BY <1>1, <2>1 DEF TreeAfter, Trees
<1>2. CASE c.cmd # "upload"
  BY <1>2 DEF TreeAfter
<1> QED
  BY <1>1, <1>2

\* The server's state while it works on a packet.
IsServer(acc, n) ==
  /\ acc = [tab |-> acc.tab, tree |-> acc.tree, out |-> acc.out]
  /\ acc.tab \in Tables /\ acc.tree \in Trees /\ acc.out \in Seq(Replies(n))

\* What its table and its answers so far will lead to.
SeenSoFar(id, o, acc) == RepliesDone(id, Outcome(acc.tab, o, <<>>), acc.out)

LEMMA ServeCommandFacts ==
  ASSUME NEW n, NEW c \in Commands(n), NEW acc, IsServer(acc, n)
  PROVE  /\ IsServer(ServeCommand(acc, c), n)
         /\ \A id, o : SeenSoFar(id, o, ServeCommand(acc, c)) = CommandDone(id, SeenSoFar(id, o, acc), c)
<1> DEFINE a == Answers(acc.tab, acc.tree, c)
           tab == TableAfter(acc.tab, c)
           out == acc.out
           new == ServeCommand(acc, c)
           R == Replies(n)
<1>1. acc.tab \in Tables /\ acc.tree \in Trees /\ out \in Seq(R)
  BY DEF IsServer
<1>2. new.tab = tab /\ new.tree = TreeAfter(acc.tree, c) /\ new.out = out \o a
      /\ new = [tab |-> new.tab, tree |-> new.tree, out |-> new.out]
  BY DEF ServeCommand
<1>3. tab \in Tables /\ TreeAfter(acc.tree, c) \in Trees
  BY <1>1, TableAfterType, TreeAfterType
<1>4. ASSUME NEW id, NEW o
      PROVE  LET x == SeenSoFar(id, o, acc)
             IN  /\ RepliesDone(id, Outcome(tab, o, <<>>), out) = Outcome(tab, x.open, x.answers)
                 /\ x.tab = acc.tab
  <2> DEFINE e == <<>>
             x == RepliesDone(id, Outcome(acc.tab, o, e), out)
  <2>1. RepliesDone(id, Outcome(tab, o, e), out) = Outcome(tab, x.open, x.answers)
    BY <1>1, RepliesLeaveTable
  <2>2. x = Outcome(acc.tab, x.open, x.answers)
    BY <1>1, RepliesLeaveTable
  <2>3. x.tab = acc.tab
    <3> HIDE DEF x
    <3> QED
      BY <2>2 DEF Outcome
  <2> QED
    BY <2>1, <2>3 DEF SeenSoFar
<1>5. CASE /\ a = <<>>
           /\ \A id, x : /\ CommandDone(id, x, c).open = x.open
                         /\ CommandDone(id, x, c).answers = x.answers
  <2>1. new.out = out
    BY <1>1, <1>2, <1>5
  <2>2. IsServer(new, n)
    BY <1>1, <1>2, <1>3, <2>1 DEF IsServer
  <2>3. ASSUME NEW id, NEW o
        PROVE  SeenSoFar(id, o, new) = CommandDone(id, SeenSoFar(id, o, acc), c)
    <3> DEFINE x == SeenSoFar(id, o, acc)
    <3>1. SeenSoFar(id, o, new) = Outcome(tab, x.open, x.answers) /\ x.tab = acc.tab
      BY <1>2, <1>4, <2>1 DEF SeenSoFar
    <3> HIDE DEF x, new, a
    <3>2. CommandDone(id, x, c) = Outcome(TableAfter(x.tab, c), CommandDone(id, x, c).open, CommandDone(id, x, c).answers)
      BY DEF CommandDone, Outcome
    <3>3. SeenSoFar(id, o, new) = CommandDone(id, x, c)
      BY <1>5, <3>1, <3>2
    <3> QED
      BY <3>3 DEF x
  <2> QED
    BY <2>2, <2>3
<1>6. ASSUME NEW r \in R, a = <<r>>,
             \A id, x : /\ CommandDone(id, x, c).open = ReplyDone(id, x, r).open
                        /\ CommandDone(id, x, c).answers = ReplyDone(id, x, r).answers
      PROVE  IsServer(new, n) /\ \A id, o : SeenSoFar(id, o, new) = CommandDone(id, SeenSoFar(id, o, acc), c)
  <2> HIDE DEF out, R
  <2>1. new.out = Append(out, r) /\ Append(out, r) \in Seq(R)
    BY <1>1, <1>2, <1>6, Joining
  <2>2. IsServer(new, n)
    BY <1>2, <1>3, <2>1 DEF IsServer, R
  <2>3. ASSUME NEW id, NEW o
        PROVE  SeenSoFar(id, o, new) = CommandDone(id, SeenSoFar(id, o, acc), c)
    <3> DEFINE x == SeenSoFar(id, o, acc)
               y == Outcome(tab, o, <<>>)
    <3>1. RepliesDone(id, y, out) = Outcome(tab, x.open, x.answers) /\ x.tab = acc.tab
      BY <1>4
    <3>2. SeenSoFar(id, o, new) = RepliesDone(id, y, Append(out, r))
      BY <1>2, <2>1 DEF SeenSoFar
    <3> HIDE DEF x, y, new, a
    <3>3. RepliesDone(id, y, Append(out, r)) = ReplyDone(id, RepliesDone(id, y, out), r)
      BY <1>1, ReplyingLast
    <3>4. CommandDone(id, x, c) = Outcome(TableAfter(x.tab, c), CommandDone(id, x, c).open, CommandDone(id, x, c).answers)
      BY DEF CommandDone, Outcome
    <3>5. ReplyDone(id, Outcome(tab, x.open, x.answers), r) = Outcome(tab, ReplyDone(id, x, r).open, ReplyDone(id, x, r).answers)
      BY DEF ReplyDone, Outcome
    <3>6. SeenSoFar(id, o, new) = CommandDone(id, x, c)
      BY <1>6, <3>1, <3>2, <3>3, <3>4, <3>5
    <3> QED
      BY <3>6 DEF x
  <2> QED
    BY <2>2, <2>3
<1> QED
  BY <1>1, <1>5, <1>6, AnswerFacts

LEMMA ServedFacts ==
  ASSUME NEW n, NEW acc, IsServer(acc, n)
  PROVE  \A q \in Seq(Commands(n)) :
            /\ IsServer(Served(acc, q), n)
            /\ \A id, o : SeenSoFar(id, o, Served(acc, q)) = PacketDone(id, SeenSoFar(id, o, acc), q)
<1> DEFINE S == Commands(n)
           A(q) == Served(acc, q)
           T == {q \in Seq(S) :
                   /\ IsServer(A(q), n)
                   /\ \A id, o : SeenSoFar(id, o, A(q)) = PacketDone(id, SeenSoFar(id, o, acc), q)}
<1>1. <<>> \in T
  <2>1. A(<<>>) = acc
    BY ServingNothing
  <2>2. \A id, o : PacketDone(id, SeenSoFar(id, o, acc), <<>>) = SeenSoFar(id, o, acc)
    BY CommandingNothing
  <2> HIDE DEF A
  <2> QED
    BY <2>1, <2>2
<1>2. ASSUME NEW q \in Seq(S), NEW c \in S, q \in T
      PROVE  Append(q, c) \in T
  <2> DEFINE qc == Append(q, c)
  <2>1. A(qc) = ServeCommand(A(q), c)
    BY ServingLast
  <2>2. \A id, o : PacketDone(id, SeenSoFar(id, o, acc), qc) = CommandDone(id, PacketDone(id, SeenSoFar(id, o, acc), q), c)
    BY CommandingLast
  <2>3. /\ IsServer(A(q), n)
        /\ \A id, o : SeenSoFar(id, o, A(q)) = PacketDone(id, SeenSoFar(id, o, acc), q)
    BY <1>2
  <2>4. qc \in Seq(S)
    BY Joining
  <2> HIDE DEF A, qc
  <2>5. /\ IsServer(ServeCommand(A(q), c), n)
        /\ \A id, o : SeenSoFar(id, o, ServeCommand(A(q), c)) = CommandDone(id, SeenSoFar(id, o, A(q)), c)
    BY <2>3, ServeCommandFacts
  <2>6. qc \in T
    BY <2>1, <2>2, <2>3, <2>4, <2>5
  <2> QED
    BY <2>6 DEF qc
<1>3. \A q \in Seq(S) : q \in T
  <2> HIDE DEF T, S
  <2> QED
    BY <1>1, <1>2, SeqInduction
<1> QED
  BY <1>3

-----------------------------------------------------------------------------
\* All the traffic, in both directions.

Traffic(id, t, o, d, u) == PacketsDone(id, RepliesDone(id, Outcome(t, o, <<>>), d), u)

\* Serving a packet moves it from one direction to the other.
LEMMA ServingIsNoNews ==
  ASSUME NEW n, NEW t \in Tables, NEW r \in Trees, NEW d \in Seq(Replies(n)),
         NEW u \in Seq(Seq(Commands(n))), u # <<>>, NEW id, NEW o,
         NEW acc, acc = Served([tab |-> t, tree |-> r, out |-> d], Head(u))
  PROVE  /\ IsServer(acc, n)
         /\ Tail(u) \in Seq(Seq(Commands(n)))
         /\ Traffic(id, acc.tab, o, acc.out, Tail(u)) = Traffic(id, t, o, d, u)
<1> DEFINE S == Seq(Commands(n))
           first == [tab |-> t, tree |-> r, out |-> d]
           x == RepliesDone(id, Outcome(t, o, <<>>), d)
<1>1. Head(u) \in S /\ Tail(u) \in Seq(S)
  BY TakingApart
<1>2. IsServer(first, n)
  BY DEF IsServer
<1>3. SeenSoFar(id, o, first) = x
  BY DEF SeenSoFar
<1> HIDE DEF first
<1>4. IsServer(acc, n) /\ SeenSoFar(id, o, acc) = PacketDone(id, x, Head(u))
  BY <1>1, <1>2, <1>3, ServedFacts DEF first
<1> HIDE DEF S, x
<1>5. PacketsDone(id, x, u) = PacketsDone(id, PacketDone(id, x, Head(u)), Tail(u))
  BY FirstPacket DEF S
<1> QED
  BY <1>1, <1>4, <1>5 DEF Traffic, SeenSoFar, S, x

LEMMA TrafficAdds ==
  ASSUME NEW id, NEW n, NEW t, NEW o, NEW d \in Seq(Replies(n)), NEW u \in Seq(Seq(Commands(n))),
         NEW p \in Seq(Patterns)
  PROVE  AnswersAdd(id, Outcome(t, o, <<>>), Traffic(id, t, o, d, u), n,
                    PacketsDone(id, RepliesDone(id, Outcome(t, o, p), d), u), p)
<1> DEFINE x == Outcome(t, o, <<>>)
           y == RepliesDone(id, x, d)
           z == PacketsDone(id, y, u)
<1>1. x = Outcome(x.tab, x.open, x.answers) /\ x.answers \in Seq(Patterns)
  BY DEF Outcome
<1>2. Before(p, x) = Outcome(t, o, p)
  BY DEF Before, Outcome
<1>3. Traffic(id, t, o, d, u) = z
  BY DEF Traffic
<1> HIDE DEF x
<1>4. AnswersAdd(id, x, y, n, RepliesDone(id, Before(p, x), d), p)
  BY <1>1, RepliesAdd
<1> HIDE DEF y
<1>5. /\ y = Outcome(y.tab, y.open, y.answers) /\ y.answers \in Seq(Patterns)
      /\ RepliesDone(id, Before(p, x), d) = Before(p, y)
  BY <1>4 DEF AnswersAdd
<1>6. AnswersAdd(id, y, z, n, PacketsDone(id, Before(p, y), u), p)
  BY <1>5, PacketsAdd
<1> HIDE DEF z
<1>7. AnswersAdd(id, x, z, n, PacketsDone(id, Before(p, y), u), p)
  BY <1>4, <1>6 DEF AnswersAdd
<1> QED
  BY <1>2, <1>3, <1>5, <1>7 DEF x

LEMMA TrafficFacts ==
  ASSUME NEW id, NEW n, NEW t, NEW o, NEW d \in Seq(Replies(n)), NEW u \in Seq(Seq(Commands(n)))
  PROVE  /\ Traffic(id, t, o, d, u).answers \in Seq(Patterns)
         /\ id \notin 1 .. n => Traffic(id, t, o, d, u).answers = <<>>
<1> DEFINE p == <<>>
           x == Outcome(t, o, <<>>)
           y == Traffic(id, t, o, d, u)
           w == PacketsDone(id, RepliesDone(id, Outcome(t, o, p), d), u)
<1>1. p \in Seq(Patterns) /\ x.answers = <<>>
  BY DEF Outcome
<1> HIDE DEF p
<1>2. AnswersAdd(id, x, y, n, w, p)
  BY <1>1, TrafficAdds
<1> HIDE DEF x, y, w
<1>3. y.answers \in Seq(Patterns) /\ (id \notin 1 .. n => y.answers = <<>>)
  BY <1>1, <1>2 DEF AnswersAdd
<1> QED
  BY <1>3 DEF y

LEMMA EarlierAnswers ==
  ASSUME NEW id, NEW n, NEW t, NEW o, NEW d \in Seq(Replies(n)), NEW u \in Seq(Seq(Commands(n))),
         NEW p \in Seq(Patterns)
  PROVE  PacketsDone(id, RepliesDone(id, Outcome(t, o, p), d), u) = Before(p, Traffic(id, t, o, d, u))
<1> DEFINE x == Outcome(t, o, <<>>)
           y == Traffic(id, t, o, d, u)
           w == PacketsDone(id, RepliesDone(id, Outcome(t, o, p), d), u)
<1>1. AnswersAdd(id, x, y, n, w, p)
  BY TrafficAdds
<1> HIDE DEF x, y, w
<1>2. w = Before(p, y)
  BY <1>1 DEF AnswersAdd
<1> QED
  BY <1>2 DEF y, w

\* Whether a reply leaves the receiving-initial-results mode on.
OpenAfter(o, r) == IF r.re = "obss" THEN r.ids # {} ELSE o

\* The mux handles the first reply: the same is ahead, in mode o2 now, but
\* for an answer to registration id.
TakesFirst(id, n, t, o, o2, d, u) ==
  LET r == Head(d)
  IN  /\ r \in Replies(n) /\ Tail(d) \in Seq(Replies(n))
      /\ ~(r.re = "subtrees" /\ r.id = id) =>
            Traffic(id, t, o, d, u) = Traffic(id, t, o2, Tail(d), u)
      /\ r.re = "subtrees" /\ r.id = id =>
            Traffic(id, t, o, d, u).answers = <<r.path>> \o Traffic(id, t, o2, Tail(d), u).answers

LEMMA HandlingTheFirst ==
  ASSUME NEW id, NEW n, NEW t, NEW o, NEW d \in Seq(Replies(n)), d # <<>>,
         NEW u \in Seq(Seq(Commands(n)))
  PROVE  TakesFirst(id, n, t, o, OpenAfter(o, Head(d)), d, u)
<1> DEFINE r == Head(d)
           o2 == OpenAfter(o, r)
           e == <<>>
           S == Replies(n)
<1>1. r \in S /\ Tail(d) \in Seq(S)
  BY TakingApart
<1>2. RepliesDone(id, Outcome(t, o, e), d) = RepliesDone(id, ReplyDone(id, Outcome(t, o, e), r), Tail(d))
  <2> HIDE DEF S, e
  <2> QED
    BY FirstReply DEF S
<1>3. ASSUME ~(r.re = "subtrees" /\ r.id = id)
      PROVE  Traffic(id, t, o, d, u) = Traffic(id, t, o2, Tail(d), u)
  <2>1. ReplyDone(id, Outcome(t, o, e), r) = Outcome(t, o2, e)
    BY <1>3 DEF ReplyDone, Outcome, OpenAfter
  <2> QED
    BY <1>2, <2>1 DEF Traffic
<1>4. ASSUME r.re = "subtrees" /\ r.id = id
      PROVE  Traffic(id, t, o, d, u).answers = <<r.path>> \o Traffic(id, t, o2, Tail(d), u).answers
  <2> DEFINE p == <<r.path>>
             y == Traffic(id, t, o2, Tail(d), u)
  <2>1. r.path \in Patterns
    BY <1>1, <1>4, ReplyFacts
  <2>2. p \in Seq(Patterns)
    BY <2>1
  <2>3. ReplyDone(id, Outcome(t, o, e), r) = Outcome(t, o2, p)
    <3>1. Append(e, r.path) = p
      OBVIOUS
    <3> QED
      BY <1>4, <3>1 DEF ReplyDone, Outcome, OpenAfter
  <2> HIDE DEF p, y, o2
  <2>4. PacketsDone(id, RepliesDone(id, Outcome(t, o2, p), Tail(d)), u) = Before(p, Traffic(id, t, o2, Tail(d), u))
    <3> DEFINE rest == Tail(d)
    <3>1. rest \in Seq(Replies(n))
      BY <1>1
    <3> HIDE DEF rest
    <3>2. PacketsDone(id, RepliesDone(id, Outcome(t, o2, p), rest), u) = Before(p, Traffic(id, t, o2, rest, u))
      BY <2>2, <3>1, EarlierAnswers
    <3> QED
      BY <3>2 DEF rest
  <2>5. Traffic(id, t, o, d, u) = Before(p, y)
    BY <1>2, <2>3, <2>4 DEF Traffic, y
  <2>6. Before(p, y).answers = p \o y.answers
    BY DEF Before, Outcome
  <2> QED
    BY <2>5, <2>6 DEF p, y, o2
<1> QED
  BY <1>1, <1>3, <1>4 DEF TakesFirst

\* News of a node.
LEMMA ItemsAreNoNews ==
  ASSUME NEW id, NEW t, NEW o, NEW S, NEW d \in Seq(S), NEW r \in S, r.re = "items", NEW u
  PROVE  Traffic(id, t, o, Append(d, r), u) = Traffic(id, t, o, d, u)
<1> DEFINE e == <<>>
           y == RepliesDone(id, Outcome(t, o, e), d)
<1>1. y = Outcome(t, y.open, y.answers)
  BY RepliesLeaveTable
<1> HIDE DEF e
<1>2. RepliesDone(id, Outcome(t, o, e), Append(d, r)) = ReplyDone(id, y, r)
  BY ReplyingLast
<1> HIDE DEF y
<1>3. ReplyDone(id, y, r) = y
  BY <1>1 DEF ReplyDone, Outcome
<1> QED
  BY <1>2, <1>3 DEF Traffic, y, e

\* Nothing is under way.
LEMMA NoTraffic ==
  ASSUME NEW id, NEW t, NEW o
  PROVE  Traffic(id, t, o, <<>>, <<>>) = Outcome(t, o, <<>>)
BY ReplyingNothing, SendingNothing DEF Traffic

LEMMA SendingTraffic ==
  ASSUME NEW id, NEW t, NEW o, NEW d, NEW b, NEW m, m.connected, NEW S, NEW u \in Seq(Seq(S)), NEW q \in Seq(S)
  PROVE  Traffic(id, t, o, d, Send(m, u, q, b)) = PacketDone(id, Traffic(id, t, o, d, u), q)
<1> DEFINE y == RepliesDone(id, Outcome(t, o, <<>>), d)
<1>1. \A v : Traffic(id, t, o, d, v) = PacketsDone(id, y, v)
  BY DEF Traffic
<1> HIDE DEF y
<1>2. PacketsDone(id, y, Send(m, u, q, b)) = PacketDone(id, PacketsDone(id, y, u), q)
  BY SendingCommands
<1> QED
  BY <1>1, <1>2

-----------------------------------------------------------------------------
\* Changes of the subscriptions, and the commands that go with them.

\* Commands cmds tell the server what changed between m and m2, and put the
\* mux into the receiving-initial-results mode only for a while.
IsChange(m, m2, cmds) ==
  /\ IsMux(m2) /\ SubscriptionsAreShared(m2)
  /\ m2.connected = m.connected /\ m2.counter = m.counter /\ m2.ids = m.ids
  /\ m2.allowed = m.allowed /\ m2.requested = m.requested
  /\ \A n : cmds \in Seq(Commands(n))
  /\ \A id, x : x.tab = Wanted(m) => PacketDone(id, x, cmds).tab = Wanted(m2)
  /\ \A id, x : PacketDone(id, x, cmds).answers = x.answers
  /\ \A id, x : PacketDone(id, x, cmds).open =>
        x.open /\ ((\A s \in Subscribers : m.infos[s] = NoFunction)
                     => \A s \in Subscribers : m2.infos[s] = NoFunction)

\* The pings around a subscription.
LEMMA ThreeCommands ==
  ASSUME NEW id, NEW x, NEW a, NEW b, NEW c
  PROVE  PacketDone(id, x, <<a, b, c>>) = CommandDone(id, CommandDone(id, CommandDone(id, x, a), b), c)
<1> DEFINE S == {a, b, c}
           ab == <<a, b>>
           ia == <<a>>
<1>1. ab \in Seq(S) /\ ia \in Seq(S) /\ a \in S /\ b \in S /\ c \in S
  OBVIOUS
<1>2. PacketDone(id, x, ia) = CommandDone(id, x, a)
  BY OneCommand
<1>3. Append(ab, c) = <<a, b, c>>
  <2> DEFINE q == Append(ab, c)
             r == <<a, b, c>>
  <2>1. r \in Seq(S) /\ Len(r) = 3 /\ r[1] = a /\ r[2] = b /\ r[3] = c
    OBVIOUS
  <2>2. Len(ab) = 2 /\ ab[1] = a /\ ab[2] = b
    OBVIOUS
  <2> HIDE DEF ab, S, r
  <2>3. q \in Seq(S) /\ Len(q) = 3 /\ q[3] = c /\ q[1] = ab[1] /\ q[2] = ab[2]
    <3>1. /\ q \in Seq(S) /\ Len(q) = Len(ab) + 1 /\ q[Len(ab) + 1] = c
          /\ \A i \in 1 .. Len(ab) : q[i] = ab[i]
      BY <1>1, AppendProperties
    <3> HIDE DEF q
    <3> QED
      BY <2>2, <3>1
  <2>4. \A i \in 1 .. 3 : i = 1 \/ i = 2 \/ i = 3
    OBVIOUS
  <2> HIDE DEF q
  <2>5. q = r
    BY <2>1, <2>2, <2>3, <2>4, SeqEqual
  <2> QED
    BY <2>5 DEF q, r
<1>6. Append(ia, b) = ab
  <2> DEFINE q == Append(ia, b)
  <2>1. Len(ab) = 2 /\ ab[1] = a /\ ab[2] = b
    OBVIOUS
  <2>2. Len(ia) = 1 /\ ia[1] = a
    OBVIOUS
  <2> HIDE DEF ab, S, ia
  <2>3. q \in Seq(S) /\ Len(q) = 2 /\ q[2] = b /\ q[1] = ia[1]
    <3>1. /\ q \in Seq(S) /\ Len(q) = Len(ia) + 1 /\ q[Len(ia) + 1] = b
          /\ \A i \in 1 .. Len(ia) : q[i] = ia[i]
      BY <1>1, AppendProperties
    <3> HIDE DEF q
    <3> QED
      BY <2>2, <3>1
  <2>4. \A i \in 1 .. 2 : i = 1 \/ i = 2
    OBVIOUS
  <2> HIDE DEF q
  <2>5. q = ab
    BY <1>1, <2>1, <2>2, <2>3, <2>4, SeqEqual
  <2> QED
    BY <2>5 DEF q
<1> HIDE DEF ab, S, ia
<1>4. PacketDone(id, x, Append(ab, c)) = CommandDone(id, PacketDone(id, x, ab), c)
  BY <1>1, CommandingLast
<1>5. PacketDone(id, x, Append(ia, b)) = CommandDone(id, PacketDone(id, x, ia), b)
  BY <1>1, CommandingLast
<1> QED
  BY <1>2, <1>3, <1>4, <1>5, <1>6

\* UpdateSubscription() for a path whose queue is not empty.
LEMMA SubscribingForAll ==
  ASSUME NEW m, NEW path \in Patterns, path \in DOMAIN m.subscribed, m.subscribed[path] # <<>>,
         NEW names \in SUBSET Nat, NEW quiet \in BOOLEAN,
         UnionFilter(m.subscribed[path]) \in SUBSET Values
  PROVE  LET cmds == UpdateSubscription(m, path, names, quiet)
         IN  /\ \A n : cmds \in Seq(Commands(n))
             /\ \A id, x : PacketDone(id, x, cmds)
                             = Outcome(With(x.tab, path, UnionFilter(m.subscribed[path])), FALSE, x.answers)
<1> DEFINE f == UnionFilter(m.subscribed[path])
           a == PingCommand(names)
           b == AddCommand(path, f, quiet)
           c == PingCommand({})
<1>1. UpdateSubscription(m, path, names, quiet) = <<a, b, c>>
  BY DEF UpdateSubscription
<1>2. ASSUME NEW n PROVE a \in Commands(n) /\ b \in Commands(n) /\ c \in Commands(n)
  BY DEF PingCommand, AddCommand, Commands
<1>3. ASSUME NEW n PROVE <<a, b, c>> \in Seq(Commands(n))
  <2> HIDE DEF a, b, c
  <2> QED
    BY <1>2
<1>4. ASSUME NEW id, NEW x
      PROVE  PacketDone(id, x, <<a, b, c>>) = Outcome(With(x.tab, path, f), FALSE, x.answers)
  <2>1. ASSUME NEW y, NEW k PROVE CommandDone(id, y, PingCommand(k)) = Outcome(y.tab, k # {}, y.answers)
    BY DEF CommandDone, PingCommand, TableAfter, Outcome
  <2>2. ASSUME NEW y PROVE CommandDone(id, y, b) = Outcome(With(y.tab, path, f), y.open, y.answers)
    BY DEF CommandDone, AddCommand, TableAfter, Outcome
  <2> HIDE DEF b, f
  <2>3. CommandDone(id, x, a).tab = x.tab /\ CommandDone(id, x, a).answers = x.answers
    BY <2>1 DEF Outcome
  <2> HIDE DEF a
  <2> DEFINE y == CommandDone(id, x, a)
             z == CommandDone(id, y, b)
  <2>4. z.tab = With(x.tab, path, f) /\ z.answers = x.answers
    BY <2>2, <2>3 DEF Outcome
  <2> HIDE DEF z
  <2>5. CommandDone(id, z, c) = Outcome(z.tab, FALSE, z.answers)
    BY <2>1
  <2> HIDE DEF c
  <2>6. PacketDone(id, x, <<a, b, c>>) = CommandDone(id, z, c)
    BY ThreeCommands DEF z
  <2> QED
    BY <2>4, <2>5, <2>6
<1> HIDE DEF a, b, c, f
<1> QED
  BY <1>1, <1>3, <1>4 DEF f

\* UpdateSubscription() for a path that nobody wants any more.
LEMMA Unsubscribing ==
  ASSUME NEW m, NEW path \in Patterns, path \notin DOMAIN m.subscribed,
         NEW names, NEW quiet
  PROVE  LET cmds == UpdateSubscription(m, path, names, quiet)
         IN  /\ \A n : cmds \in Seq(Commands(n))
             /\ \A id, x : PacketDone(id, x, cmds) = Outcome(Without(x.tab, path), x.open, x.answers)
<1> DEFINE a == RemoveCommand(path)
<1>1. UpdateSubscription(m, path, names, quiet) = <<a>>
  BY DEF UpdateSubscription
<1>2. ASSUME NEW n PROVE <<a>> \in Seq(Commands(n))
  <2>1. a \in Commands(n)
    BY DEF RemoveCommand, Commands
  <2> QED
    BY <2>1
<1>3. ASSUME NEW id, NEW x PROVE CommandDone(id, x, a) = Outcome(Without(x.tab, path), x.open, x.answers)
  BY DEF CommandDone, RemoveCommand, TableAfter, Outcome
<1> HIDE DEF a
<1> QED
  BY <1>1, <1>2, <1>3, OneCommand

\* A mux with other subscriptions.
Resubscribed(m, sub, inf, rec) ==
  [connected |-> m.connected, counter |-> m.counter, ids |-> m.ids, infos |-> inf, received |-> rec,
   subscribed |-> sub, allowed |-> m.allowed, requested |-> m.requested]

Queues == Seq(SubscriptionInfo)

LEMMA ResubscribedFacts ==
  ASSUME NEW m, IsMux(m), NEW sub, IsPartialFunction(sub, Patterns, Queues),
         NEW inf \in [Subscribers -> PartialFunctions(Patterns, Filters)],
         NEW rec \in [Subscribers -> SUBSET Nodes],
         NEW m2, m2 = Resubscribed(m, sub, inf, rec)
  PROVE  /\ IsMux(m2)
         /\ m2.subscribed = sub /\ m2.infos = inf /\ m2.received = rec
         /\ m2.connected = m.connected /\ m2.counter = m.counter /\ m2.ids = m.ids
         /\ m2.allowed = m.allowed /\ m2.requested = m.requested
<1>1. /\ m2.subscribed = sub /\ m2.infos = inf /\ m2.received = rec
      /\ m2.connected = m.connected /\ m2.counter = m.counter /\ m2.ids = m.ids
      /\ m2.allowed = m.allowed /\ m2.requested = m.requested
  BY DEF Resubscribed
<1>2. m2 = [connected |-> m2.connected, counter |-> m2.counter, ids |-> m2.ids,
            infos |-> m2.infos, received |-> m2.received, subscribed |-> m2.subscribed,
            allowed |-> m2.allowed, requested |-> m2.requested]
  BY <1>1 DEF Resubscribed
<1>3. IsMux(m2)
  BY <1>1, <1>2 DEF IsMux, Queues
<1> QED
  BY <1>1, <1>3

LEMMA MuxFacts ==
  ASSUME NEW m, IsMux(m)
  PROVE  /\ IsPartialFunction(m.subscribed, Patterns, Queues)
         /\ m.infos \in [Subscribers -> PartialFunctions(Patterns, Filters)]
         /\ \A s \in Subscribers : IsPartialFunction(m.infos[s], Patterns, Filters)
         /\ m.received \in [Subscribers -> SUBSET Nodes]
         /\ m.ids \in [Subscribers -> Nat] /\ m.counter \in Nat
         /\ \A p \in DOMAIN m.subscribed : p \in Patterns /\ m.subscribed[p] \in Queues
<1>1. /\ m.infos \in [Subscribers -> PartialFunctions(Patterns, Filters)]
      /\ m.received \in [Subscribers -> SUBSET Nodes]
      /\ m.ids \in [Subscribers -> Nat] /\ m.counter \in Nat
      /\ IsPartialFunction(m.subscribed, Patterns, Queues)
  BY DEF IsMux, Queues
<1>2. \A s \in Subscribers : IsPartialFunction(m.infos[s], Patterns, Filters)
  BY <1>1, PartialFunctionFacts
<1>3. \A p \in DOMAIN m.subscribed : p \in Patterns /\ m.subscribed[p] \in Queues
  BY <1>1 DEF IsPartialFunction
<1> QED
  BY <1>1, <1>2, <1>3

LEMMA UnionFilterType ==
  ASSUME NEW q \in Queues
  PROVE  UnionFilter(q) \in SUBSET Values
<1>1. \A i \in DOMAIN q : q[i] \in SubscriptionInfo
  BY DEF Queues
<1>2. \A i \in DOMAIN q : q[i].filter \in Filters
  BY <1>1 DEF SubscriptionInfo
<1> QED
  BY <1>2, MuxAssumption DEF UnionFilter

LEMMA WantedWith ==
  ASSUME NEW m, NEW m2, NEW path, NEW q, m2.subscribed = With(m.subscribed, path, q)
  PROVE  Wanted(m2) = With(Wanted(m), path, UnionFilter(q))
BY DEF Wanted, With

LEMMA WantedWithout ==
  ASSUME NEW m, NEW m2, NEW path, m2.subscribed = Without(m.subscribed, path)
  PROVE  Wanted(m2) = Without(Wanted(m), path)
BY DEF Wanted, Without, Restrict

LEMMA NoChange ==
  ASSUME NEW m, IsMux(m), SubscriptionsAreShared(m)
  PROVE  IsChange(m, m, <<>>)
<1>1. \A n : <<>> \in Seq(Commands(n))
  OBVIOUS
<1>2. \A id, x : PacketDone(id, x, <<>>) = x
  BY CommandingNothing
<1> QED
  BY <1>1, <1>2 DEF IsChange

LEMMA ChangesAdd ==
  ASSUME NEW m, NEW m2, NEW m3, NEW a, NEW b, IsChange(m, m2, a), IsChange(m2, m3, b)
  PROVE  IsChange(m, m3, a \o b)
<1>1. \A n : a \in Seq(Commands(n)) /\ b \in Seq(Commands(n))
  BY DEF IsChange
<1>2. \A n : a \o b \in Seq(Commands(n))
  BY <1>1
<1>3. \A id, x : PacketDone(id, x, a \o b) = PacketDone(id, PacketDone(id, x, a), b)
  <2> DEFINE S == Commands(0)
  <2>1. a \in Seq(S) /\ b \in Seq(S)
    BY <1>1
  <2> HIDE DEF S
  <2> QED
    BY <2>1, CommandsInTurn
<1>4. /\ IsMux(m3) /\ SubscriptionsAreShared(m3)
      /\ m3.connected = m.connected /\ m3.counter = m.counter /\ m3.ids = m.ids
      /\ m3.allowed = m.allowed /\ m3.requested = m.requested
  BY DEF IsChange
<1>5. ASSUME NEW id, NEW x
      PROVE  LET y == PacketDone(id, x, a \o b)
             IN  /\ x.tab = Wanted(m) => y.tab = Wanted(m3)
                 /\ y.answers = x.answers
                 /\ y.open => x.open /\ ((\A s \in Subscribers : m.infos[s] = NoFunction)
                                           => \A s \in Subscribers : m3.infos[s] = NoFunction)
  <2> DEFINE z == PacketDone(id, x, a)
             y == PacketDone(id, z, b)
             None(k) == \A s \in Subscribers : k.infos[s] = NoFunction
  <2>1. /\ x.tab = Wanted(m) => z.tab = Wanted(m2)
        /\ z.answers = x.answers
        /\ z.open => x.open /\ (None(m) => None(m2))
    BY DEF IsChange
  <2>2. /\ z.tab = Wanted(m2) => y.tab = Wanted(m3)
        /\ y.answers = z.answers
        /\ y.open => z.open /\ (None(m2) => None(m3))
    BY DEF IsChange
  <2>3. PacketDone(id, x, a \o b) = y
    BY <1>3
  <2> HIDE DEF z, y, None
  <2>4. /\ x.tab = Wanted(m) => y.tab = Wanted(m3)
        /\ y.answers = x.answers
        /\ y.open => x.open /\ (None(m) => None(m3))
    BY <2>1, <2>2
  <2> QED
    BY <2>3, <2>4 DEF None
<1> HIDE DEF IsChange
<1> QED
  BY <1>2, <1>4, <1>5 DEF IsChange

\* UpdateSubscription() when the queue of a path has changed.
LEMMA UpdatingIsAChange ==
  ASSUME NEW m, IsMux(m), NEW m2, IsMux(m2), SubscriptionsAreShared(m2),
         m2.connected = m.connected, m2.counter = m.counter, m2.ids = m.ids,
         m2.allowed = m.allowed, m2.requested = m.requested,
         NEW path \in Patterns, NEW names \in SUBSET Nat, NEW quiet \in BOOLEAN, NEW cmds,
         cmds = UpdateSubscription(m2, path, names, quiet),
         \/ \E q \in Queues : q # <<>> /\ m2.subscribed = With(m.subscribed, path, q)
         \/ /\ m2.subscribed = Without(m.subscribed, path)
            /\ (\A s \in Subscribers : m.infos[s] = NoFunction)
                  => \A s \in Subscribers : m2.infos[s] = NoFunction
  PROVE  IsChange(m, m2, cmds)
<1> DEFINE None(k) == \A s \in Subscribers : k.infos[s] = NoFunction
<1>1. ASSUME NEW q \in Queues, q # <<>>, m2.subscribed = With(m.subscribed, path, q)
      PROVE  IsChange(m, m2, cmds)
  <2> DEFINE f == UnionFilter(q)
  <2>1. path \in DOMAIN m2.subscribed /\ m2.subscribed[path] = q
    BY <1>1 DEF With
  <2>2. f \in SUBSET Values
    BY UnionFilterType
  <2>3. Wanted(m2) = With(Wanted(m), path, f)
    BY <1>1, WantedWith
  <2> HIDE DEF f
  <2>4. /\ \A n : cmds \in Seq(Commands(n))
        /\ \A id, x : PacketDone(id, x, cmds) = Outcome(With(x.tab, path, f), FALSE, x.answers)
    <3> DEFINE g == UnionFilter(m2.subscribed[path])
    <3>1. g = f /\ g \in SUBSET Values /\ m2.subscribed[path] # <<>>
      BY <1>1, <2>1, <2>2 DEF f
    <3>2. /\ \A n : UpdateSubscription(m2, path, names, quiet) \in Seq(Commands(n))
          /\ \A id, x : PacketDone(id, x, UpdateSubscription(m2, path, names, quiet))
                            = Outcome(With(x.tab, path, g), FALSE, x.answers)
      BY <2>1, <3>1, SubscribingForAll
    <3> HIDE DEF g
    <3> QED
      BY <3>1, <3>2
  <2>5. \A id, x : /\ PacketDone(id, x, cmds).tab = With(x.tab, path, f)
                   /\ ~PacketDone(id, x, cmds).open
                   /\ PacketDone(id, x, cmds).answers = x.answers
    BY <2>4 DEF Outcome
  <2> QED
    BY <2>3, <2>4, <2>5 DEF IsChange
<1>2. ASSUME m2.subscribed = Without(m.subscribed, path), None(m) => None(m2)
      PROVE  IsChange(m, m2, cmds)
  <2>1. path \notin DOMAIN m2.subscribed
    BY <1>2 DEF Without, Restrict
  <2>2. Wanted(m2) = Without(Wanted(m), path)
    BY <1>2, WantedWithout
  <2>3. /\ \A n : cmds \in Seq(Commands(n))
        /\ \A id, x : PacketDone(id, x, cmds) = Outcome(Without(x.tab, path), x.open, x.answers)
    BY <2>1, Unsubscribing
  <2>4. \A id, x : /\ PacketDone(id, x, cmds).tab = Without(x.tab, path)
                   /\ PacketDone(id, x, cmds).open = x.open
                   /\ PacketDone(id, x, cmds).answers = x.answers
    BY <2>3 DEF Outcome
  <2> QED
    BY <1>2, <2>2, <2>3, <2>4 DEF IsChange
<1> QED
  BY <1>1, <1>2

Replaced(f, path, q) == IF q = <<>> THEN Without(f, path) ELSE With(f, path, q)

IsReplacement(sub, f, path, q) ==
  /\ q # <<>> => /\ sub = With(f, path, q) /\ IsPartialFunction(sub, Patterns, Queues)
                 /\ DOMAIN sub = DOMAIN f \union {path} /\ sub[path] = q
                 /\ \A r \in DOMAIN f : r # path => sub[r] = f[r]
  /\ q = <<>> => /\ sub = Without(f, path) /\ IsPartialFunction(sub, Patterns, Queues)
                 /\ DOMAIN sub = DOMAIN f \ {path}
                 /\ \A r \in DOMAIN f : r # path => sub[r] = f[r]

LEMMA QueueReplaced ==
  ASSUME NEW f, IsPartialFunction(f, Patterns, Queues), NEW path \in Patterns, NEW q \in Queues,
         NEW sub, sub = Replaced(f, path, q)
  PROVE  IsReplacement(sub, f, path, q)
<1>1. CASE q # <<>>
  <2>1. sub = With(f, path, q)
    BY <1>1 DEF Replaced
  <2> QED
    BY <1>1, <2>1 DEF With, IsPartialFunction, IsReplacement
<1>2. CASE q = <<>>
  <2>1. sub = Without(f, path)
    BY <1>2 DEF Replaced
  <2> QED
    BY <1>2, <2>1 DEF Without, Restrict, IsPartialFunction, IsReplacement
<1> QED
  BY <1>1, <1>2

\* The queue of a path, and the matcher of a subscriber, are replaced.
IsQueueChange(m, s, path, q, pm, rec, m2) ==
  /\ s \in Subscribers /\ path \in Patterns /\ q \in Queues
  /\ IsPartialFunction(pm, Patterns, Filters) /\ IsFiniteSet(DOMAIN pm)
  /\ DOMAIN pm \subseteq DOMAIN m.infos[s] \union {path}
  /\ path \in DOMAIN pm => \E i \in DOMAIN q : q[i].sub = s
  /\ \A t \in Subscribers :
        t # s /\ path \in DOMAIN m.infos[t] => \E i \in DOMAIN q : q[i].sub = t
  /\ rec \in [Subscribers -> SUBSET Nodes]
  /\ m2 = Resubscribed(m, Replaced(m.subscribed, path, q), [m.infos EXCEPT ![s] = pm], rec)

LEMMA ChangingAQueue ==
  ASSUME NEW m, IsMux(m), SubscriptionsAreShared(m),
         NEW s, NEW path, NEW q, NEW pm, NEW rec, NEW m2, IsQueueChange(m, s, path, q, pm, rec, m2),
         NEW names \in SUBSET Nat, NEW quiet \in BOOLEAN
  PROVE  IsChange(m, m2, UpdateSubscription(m2, path, names, quiet))
<1> DEFINE sub == Replaced(m.subscribed, path, q)
           inf == [m.infos EXCEPT ![s] = pm]
           cmds == UpdateSubscription(m2, path, names, quiet)
<1> SUFFICES ASSUME s \in Subscribers, path \in Patterns, q \in Queues,
                    IsPartialFunction(pm, Patterns, Filters), IsFiniteSet(DOMAIN pm),
                    DOMAIN pm \subseteq DOMAIN m.infos[s] \union {path},
                    path \in DOMAIN pm => \E i \in DOMAIN q : q[i].sub = s,
                    \A t \in Subscribers :
                       t # s /\ path \in DOMAIN m.infos[t] => \E i \in DOMAIN q : q[i].sub = t,
                    rec \in [Subscribers -> SUBSET Nodes],
                    m2 = Resubscribed(m, sub, inf, rec)
             PROVE  IsChange(m, m2, cmds)
  BY DEF IsQueueChange
<1> HIDE DEF cmds, sub
<1>1. /\ IsPartialFunction(m.subscribed, Patterns, Queues)
      /\ m.infos \in [Subscribers -> PartialFunctions(Patterns, Filters)]
  BY MuxFacts
<1>2. pm \in PartialFunctions(Patterns, Filters)
  BY PartialFunctionFacts
<1>3. /\ inf \in [Subscribers -> PartialFunctions(Patterns, Filters)]
      /\ inf[s] = pm /\ \A t \in Subscribers : t # s => inf[t] = m.infos[t]
  BY <1>1, <1>2
<1> HIDE DEF inf
<1>0. IsReplacement(sub, m.subscribed, path, q)
  BY <1>1, QueueReplaced DEF sub
<1>4. q # <<>> => /\ sub = With(m.subscribed, path, q) /\ IsPartialFunction(sub, Patterns, Queues)
                  /\ DOMAIN sub = DOMAIN m.subscribed \union {path} /\ sub[path] = q
                  /\ \A r \in DOMAIN m.subscribed : r # path => sub[r] = m.subscribed[r]
  BY <1>0 DEF IsReplacement
<1>5. q = <<>> => /\ sub = Without(m.subscribed, path) /\ IsPartialFunction(sub, Patterns, Queues)
                  /\ DOMAIN sub = DOMAIN m.subscribed \ {path}
                  /\ \A r \in DOMAIN m.subscribed : r # path => sub[r] = m.subscribed[r]
  BY <1>0 DEF IsReplacement
<1>6. IsPartialFunction(sub, Patterns, Queues)
  BY <1>4, <1>5
<1>7. /\ IsMux(m2)
      /\ m2.subscribed = sub /\ m2.infos = inf
      /\ m2.connected = m.connected /\ m2.counter = m.counter /\ m2.ids = m.ids
      /\ m2.allowed = m.allowed /\ m2.requested = m.requested
  BY <1>3, <1>6, ResubscribedFacts
<1>8. SubscriptionsAreShared(m2)
  <2>1. IsFiniteSet(DOMAIN sub)
    <3>1. IsFiniteSet(DOMAIN m.subscribed)
      BY DEF SubscriptionsAreShared
    <3>2. IsFiniteSet(DOMAIN m.subscribed \union {path}) /\ IsFiniteSet(DOMAIN m.subscribed \ {path})
      BY <3>1, FS_AddElement, FS_RemoveElement
    <3> QED
      BY <1>4, <1>5, <3>2
  <2>2. \A p \in DOMAIN sub : sub[p] # <<>>
    <3>1. \A p \in DOMAIN m.subscribed : m.subscribed[p] # <<>>
      BY DEF SubscriptionsAreShared
    <3> QED
      BY <1>4, <1>5, <3>1
  <2>3. \A t \in Subscribers : IsFiniteSet(DOMAIN inf[t])
    BY <1>3 DEF SubscriptionsAreShared
  <2>4. ASSUME NEW t \in Subscribers, NEW p \in DOMAIN inf[t]
        PROVE  p \in DOMAIN sub /\ \E i \in DOMAIN sub[p] : sub[p][i].sub = t
    <3>1. CASE p = path
      <4>1. \E i \in DOMAIN q : q[i].sub = t
        BY <1>3, <2>4, <3>1
      <4>2. q # <<>>
        BY <4>1
      <4> QED
        BY <1>4, <3>1, <4>1, <4>2
    <3>2. CASE p # path
      <4>1. p \in DOMAIN m.infos[t]
        BY <1>3, <2>4, <3>2
      <4>2. p \in DOMAIN m.subscribed /\ \E i \in DOMAIN m.subscribed[p] : m.subscribed[p][i].sub = t
        BY <4>1 DEF SubscriptionsAreShared
      <4>3. p \in DOMAIN sub /\ sub[p] = m.subscribed[p]
        BY <1>4, <1>5, <3>2, <4>2
      <4> QED
        BY <4>2, <4>3
    <3> QED
      BY <3>1, <3>2
  <2> QED
    BY <1>7, <2>1, <2>2, <2>3, <2>4 DEF SubscriptionsAreShared
<1>9. CASE q # <<>>
  <2>1. \E k \in Queues : k # <<>> /\ m2.subscribed = With(m.subscribed, path, k)
    BY <1>4, <1>7, <1>9
  <2> QED
    BY <1>7, <1>8, <2>1, UpdatingIsAChange DEF cmds
<1>10. CASE q = <<>>
  <2>1. ASSUME \A t \in Subscribers : m.infos[t] = NoFunction, NEW t \in Subscribers
        PROVE  m2.infos[t] = NoFunction
    <3>1. CASE t # s
      BY <1>3, <1>7, <2>1, <3>1
    <3>2. CASE t = s
      <4>1. m.infos[s] = NoFunction
        BY <2>1
      <4>2. DOMAIN pm = {}
        <5>1. path \notin DOMAIN pm
          BY <1>10
        <5> QED
          BY <4>1, <5>1, NoFunctionFacts
      <4>3. pm = NoFunction
        BY <4>2, NoFunctionFacts
      <4> QED
        BY <1>3, <1>7, <3>2, <4>3
    <3> QED
      BY <3>1, <3>2
  <2>2. m2.subscribed = Without(m.subscribed, path)
    BY <1>5, <1>7, <1>10
  <2>3. (\A t \in Subscribers : m.infos[t] = NoFunction) => \A t \in Subscribers : m2.infos[t] = NoFunction
    BY <2>1
  <2> QED
    BY <1>7, <1>8, <2>2, <2>3, UpdatingIsAChange DEF cmds
<1> QED
  BY <1>9, <1>10

\* TreeGateway_AddSubscription().
LEMMA AddingIsAChange ==
  ASSUME NEW m, IsMux(m), SubscriptionsAreShared(m),
         NEW s \in Subscribers, NEW path \in Patterns, NEW filter \in Filters, NEW quiet \in BOOLEAN,
         NEW m2, m2 = AddedSubscription(m, s, path, filter, quiet)
  PROVE  IsChange(m, m2, UpdateSubscription(m2, path, {m.ids[s]}, quiet))
<1> DEFINE q == IF path \in DOMAIN m.subscribed THEN m.subscribed[path] ELSE <<>>
           new == [sub |-> s, filter |-> filter, quiet |-> quiet]
           q2 == Append(q, new)
           pm == With(m.infos[s], path, filter)
           inf == [m.infos EXCEPT ![s] = pm]
           sub == With(m.subscribed, path, q2)
<1>1. q \in Queues
  BY MuxFacts DEF Queues
<1>2. new \in SubscriptionInfo /\ new.sub = s
  BY DEF SubscriptionInfo
<1>3. m2 = Resubscribed(m, sub, inf, m.received)
  <2>1. m = [connected |-> m.connected, counter |-> m.counter, ids |-> m.ids,
             infos |-> m.infos, received |-> m.received, subscribed |-> m.subscribed,
             allowed |-> m.allowed, requested |-> m.requested]
    BY DEF IsMux
  <2>2. m2 = [m EXCEPT !.subscribed = sub, !.infos = inf]
    BY <2>1 DEF AddedSubscription
  <2> HIDE DEF sub, inf
  <2> QED
    BY <2>1, <2>2 DEF Resubscribed
<1>4. IsPartialFunction(m.infos[s], Patterns, Filters) /\ m.received \in [Subscribers -> SUBSET Nodes]
      /\ m.ids[s] \in Nat
  BY MuxFacts
<1>5. IsPartialFunction(pm, Patterns, Filters) /\ DOMAIN pm = DOMAIN m.infos[s] \union {path}
  BY <1>4, WithFacts
<1>6. IsFiniteSet(DOMAIN pm)
  <2>1. IsFiniteSet(DOMAIN m.infos[s])
    BY DEF SubscriptionsAreShared
  <2> QED
    BY <1>5, <2>1, FS_AddElement
<1> HIDE DEF pm, new
<1>7. /\ q2 \in Queues /\ Len(q2) = Len(q) + 1 /\ q2[Len(q) + 1] = new
      /\ \A i \in 1 .. Len(q) : q2[i] = q[i]
  BY <1>1, <1>2, AppendProperties DEF Queues
<1>8. Len(q) \in Nat /\ DOMAIN q = 1 .. Len(q) /\ DOMAIN q2 = 1 .. Len(q2)
  BY <1>1, <1>7, LenProperties DEF Queues
<1>9. \A t \in Subscribers : t # s /\ path \in DOMAIN m.infos[t] => \E i \in DOMAIN q : q[i].sub = t
  BY DEF SubscriptionsAreShared
<1> HIDE DEF q, q2
<1>10. Len(q) + 1 \in DOMAIN q2 /\ \A i \in DOMAIN q : i \in DOMAIN q2 /\ q2[i] = q[i]
  BY <1>7, <1>8
<1>11. q2 # <<>>
  BY <1>10
<1>12. /\ \A t \in Subscribers :
             t # s /\ path \in DOMAIN m.infos[t] => \E i \in DOMAIN q2 : q2[i].sub = t
       /\ \E i \in DOMAIN q2 : q2[i].sub = s
  BY <1>2, <1>7, <1>9, <1>10
<1>13. sub = Replaced(m.subscribed, path, q2)
  BY <1>11 DEF Replaced
<1> HIDE DEF sub
<1>14. IsQueueChange(m, s, path, q2, pm, m.received, m2)
  BY <1>3, <1>4, <1>5, <1>6, <1>7, <1>12, <1>13 DEF IsQueueChange
<1>15. {m.ids[s]} \in SUBSET Nat
  BY <1>4
<1> QED
  BY <1>14, <1>15, ChangingAQueue

\* A set of indexes has a smallest one.
LEMMA SmallestIndex ==
  ASSUME NEW I, I \subseteq Nat, I # {}
  PROVE  \E k \in I : \A j \in I : k <= j
<1> DEFINE R == OpToRel(<, Nat)
<1>1. IsWellFoundedOn(R, Nat)
  BY NatLessThanWellFounded
<1>2. \A x, y \in Nat : <<x, y>> \in R <=> x < y
  BY DEF OpToRel
<1> HIDE DEF R
<1>3. PICK x \in I : \A y \in I : ~(<<y, x>> \in R)
  BY <1>1, WFMin
<1>4. \A y \in I : x \in Nat /\ y \in Nat /\ ~(y < x)
  BY <1>2, <1>3
<1>5. \A y \in I : x <= y
  BY <1>4
<1> QED
  BY <1>5

\* Removing an entry of a sequence keeps the others.
LEMMA RemoveAtFacts ==
  ASSUME NEW S, NEW q \in Seq(S), NEW i \in 1 .. Len(q)
  PROVE  /\ RemoveAt(q, i) \in Seq(S)
         /\ \A j \in 1 .. Len(q) : j # i => \E k \in DOMAIN RemoveAt(q, i) : RemoveAt(q, i)[k] = q[j]
<1> DEFINE N == Len(q)
           h == i - 1
           f == i + 1
           a == SubSeq(q, 1, h)
           b == SubSeq(q, f, N)
<1>1. N \in Nat /\ (\A j \in 1 .. N : q[j] \in S) /\ i \in 1 .. N /\ i \in Nat
  BY LenProperties, ElementOfSeq
<1>2. h \in Nat /\ f \in Nat /\ 1 \in Int /\ h \in Int /\ f \in Int /\ N \in Int
  BY <1>1
<1>3. (\A j \in 1 .. h : j \in 1 .. N) /\ \A j \in f .. N : j \in 1 .. N
  BY <1>1
<1>4. (\A j \in 1 .. h : q[j] \in S) /\ \A j \in f .. N : q[j] \in S
  BY <1>1, <1>3
<1>5. RemoveAt(q, i) = a \o b
  BY DEF RemoveAt
<1> HIDE DEF N, h, f
<1>6. /\ a \in Seq(S) /\ Len(a) = IF 1 <= h THEN h - 1 + 1 ELSE 0
      /\ \A j \in 1 .. h - 1 + 1 : a[j] = q[1 + j - 1]
  BY <1>2, <1>4, SubSeqProperties
<1>7. /\ b \in Seq(S) /\ Len(b) = IF f <= N THEN N - f + 1 ELSE 0
      /\ \A j \in 1 .. N - f + 1 : b[j] = q[f + j - 1]
  BY <1>2, <1>4, SubSeqProperties
<1> DEFINE r == a \o b
<1> HIDE DEF a, b
<1>8. /\ r \in Seq(S) /\ Len(r) = Len(a) + Len(b)
      /\ \A j \in 1 .. Len(a) : r[j] = a[j]
      /\ \A j \in 1 .. Len(b) : r[Len(a) + j] = b[j]
  <2>1. a \in Seq(S) /\ b \in Seq(S) /\ Len(a) \in Nat /\ Len(b) \in Nat
    BY <1>6, <1>7, LenProperties
  <2>2. /\ r \in Seq(S) /\ Len(r) = Len(a) + Len(b)
        /\ \A j \in 1 .. Len(a) + Len(b) : r[j] = IF j <= Len(a) THEN a[j] ELSE b[j - Len(a)]
    BY <2>1, ConcatProperties
  <2> HIDE DEF r
  <2> DEFINE A == Len(a)
             B == Len(b)
  <2>3. A \in Nat /\ B \in Nat /\ \A j \in 1 .. A + B : r[j] = IF j <= A THEN a[j] ELSE b[j - A]
    BY <2>1, <2>2
  <2> HIDE DEF A, B
  <2>4. ASSUME NEW j \in 1 .. A PROVE r[j] = a[j]
    BY <2>3
  <2>5. ASSUME NEW j \in 1 .. B PROVE r[A + j] = b[j]
    <3>1. A + j \in 1 .. A + B /\ ~(A + j <= A) /\ (A + j) - A = j
      BY <2>3
    <3> QED
      BY <2>3, <3>1
  <2> QED
    BY <2>2, <2>4, <2>5 DEF A, B
<1>9. DOMAIN r = 1 .. Len(a) + Len(b)
  BY <1>8
<1> HIDE DEF r
<1>10. ASSUME NEW j \in 1 .. N, j < i
       PROVE  \E k \in DOMAIN r : r[k] = q[j]
  <2>1. j \in 1 .. h /\ 1 <= h
    BY <1>1, <1>10 DEF h
  <2>2. Len(a) = h /\ Len(b) \in Nat
    BY <1>2, <1>6, <1>7, <2>1, LenProperties
  <2>3. j \in DOMAIN r
    BY <1>2, <1>9, <2>1, <2>2
  <2>4. j \in 1 .. h - 1 + 1 /\ 1 + j - 1 = j
    BY <1>2, <2>1
  <2>5. r[j] = a[j] /\ a[j] = q[j]
    BY <1>6, <1>8, <2>1, <2>2, <2>4
  <2> QED
    BY <2>3, <2>5
<1>11. ASSUME NEW j \in 1 .. N, i < j
       PROVE  \E k \in DOMAIN r : r[k] = q[j]
  <2> DEFINE k == j - i
  <2>1. f <= N /\ k \in 1 .. N - f + 1 /\ f + k - 1 = j
    BY <1>1, <1>11 DEF f
  <2>2. Len(a) = h /\ Len(b) = N - f + 1
    BY <1>1, <1>2, <1>6, <1>7, <2>1 DEF h
  <2>3. k \in 1 .. Len(b) /\ h + k \in 1 .. Len(a) + Len(b)
    BY <1>1, <1>2, <2>1, <2>2
  <2> HIDE DEF k
  <2>4. r[h + k] = b[k] /\ b[k] = q[j]
    BY <1>7, <1>8, <2>1, <2>2, <2>3
  <2> QED
    BY <1>9, <2>3, <2>4
<1>12. \A j \in 1 .. N : j # i => j < i \/ i < j
  BY <1>1
<1> QED
  BY <1>5, <1>8, <1>10, <1>11, <1>12 DEF r, N

\* TreeGateway_RemoveSubscription(), once an entry is found.
LEMMA RemovingIsAChange ==
  ASSUME NEW m, IsMux(m), SubscriptionsAreShared(m),
         NEW s \in Subscribers, NEW path, NEW filter, NEW was,
         RemoveIndexes(m, s, path, filter, was) # {},
         NEW m2, m2 = RemovedSubscription(m, s, path, filter, was), NEW quiet \in BOOLEAN
  PROVE  IsChange(m, m2, UpdateSubscription(m2, path, {m.ids[s]}, quiet))
<1> DEFINE idxs == RemoveIndexes(m, s, path, filter, was)
           i == CHOOSE k \in idxs : \A j \in idxs : k <= j
           old == m.subscribed[path]
           q == RemoveAt(old, i)
           pm == Without(m.infos[s], path)
           inf == [m.infos EXCEPT ![s] = pm]
           rec == [m.received EXCEPT ![s] = {n \in @ : MatchesPath(pm, n, NoValue)}]
           sub == Replaced(m.subscribed, path, q)
<1>1. path \in DOMAIN m.subscribed
  BY DEF RemoveIndexes
<1>2. path \in Patterns /\ old \in Queues
  BY <1>1, MuxFacts
<1>3. \A j \in idxs : j \in DOMAIN old /\ old[j].sub = s
  BY <1>1 DEF RemoveIndexes
<1>4. DOMAIN old = 1 .. Len(old) /\ Len(old) \in Nat
  BY <1>2, LenProperties DEF Queues
<1> HIDE DEF idxs
<1>5. idxs \subseteq Nat /\ idxs # {}
  BY <1>3, <1>4 DEF idxs
<1>6. i \in idxs
  BY <1>5, SmallestIndex
<1>7. i \in 1 .. Len(old) /\ old[i].sub = s
  BY <1>3, <1>4, <1>6
<1>8. m2 = Resubscribed(m, sub, inf, rec)
  <2>1. m = [connected |-> m.connected, counter |-> m.counter, ids |-> m.ids,
             infos |-> m.infos, received |-> m.received, subscribed |-> m.subscribed,
             allowed |-> m.allowed, requested |-> m.requested]
    BY DEF IsMux
  <2>2. m2 = [m EXCEPT !.subscribed = sub, !.infos = inf, !.received = rec]
    <3> HIDE DEF i
    <3> QED
      BY <2>1 DEF RemovedSubscription, Replaced, i, idxs
  <2> HIDE DEF sub, inf, rec
  <2> QED
    BY <2>1, <2>2 DEF Resubscribed
<1> HIDE DEF i, old
<1>9. q \in Queues /\ \A j \in 1 .. Len(old) : j # i => \E k \in DOMAIN q : q[k] = old[j]
  BY <1>2, <1>7, RemoveAtFacts DEF Queues
<1>10. IsPartialFunction(m.infos[s], Patterns, Filters) /\ m.received \in [Subscribers -> SUBSET Nodes]
      /\ m.ids[s] \in Nat
  BY MuxFacts
<1>11. IsPartialFunction(pm, Patterns, Filters) /\ DOMAIN pm = DOMAIN m.infos[s] \ {path}
  <2> DEFINE f == m.infos[s]
  <2>1. IsPartialFunction(f, Patterns, Filters) /\ pm = Without(f, path)
    BY <1>10
  <2> HIDE DEF f, pm
  <2>2. IsPartialFunction(Without(f, path), Patterns, Filters) /\ DOMAIN Without(f, path) = DOMAIN f \ {path}
    BY <2>1 DEF Without, Restrict, IsPartialFunction
  <2> QED
    BY <2>1, <2>2 DEF f
<1>12. IsFiniteSet(DOMAIN pm)
  <2>1. IsFiniteSet(DOMAIN m.infos[s])
    BY DEF SubscriptionsAreShared
  <2> QED
    BY <1>11, <2>1, FS_RemoveElement
<1> HIDE DEF pm, q
<1>13. ASSUME NEW t \in Subscribers, t # s, path \in DOMAIN m.infos[t]
       PROVE  \E k \in DOMAIN q : q[k].sub = t
  <2>1. PICK j \in DOMAIN old : old[j].sub = t
    BY <1>13 DEF SubscriptionsAreShared, old
  <2>2. j \in 1 .. Len(old) /\ j # i
    BY <1>4, <1>7, <1>13, <2>1
  <2> QED
    BY <1>9, <2>1, <2>2
<1>14. rec \in [Subscribers -> SUBSET Nodes]
  BY <1>10
<1> HIDE DEF rec
<1>15. IsQueueChange(m, s, path, q, pm, rec, m2)
  BY <1>2, <1>8, <1>9, <1>11, <1>12, <1>13, <1>14 DEF IsQueueChange
<1>16. {m.ids[s]} \in SUBSET Nat
  BY <1>10
<1> QED
  BY <1>15, <1>16, ChangingAQueue

\* One step of TreeGateway_RemoveAllSubscriptions().
LEMMA RemoveStepIsAChange ==
  ASSUME NEW m, NEW s \in Subscribers, NEW acc, IsChange(m, acc.mux, acc.cmds), NEW path,
         NEW acc2, acc2 = RemoveStep(acc, s, path)
  PROVE  IsChange(m, acc2.mux, acc2.cmds)
<1> DEFINE k == acc.mux
           f == k.infos[s][path]
           k2 == RemovedSubscription(k, s, path, f, FALSE)
           cmds == UpdateSubscription(k2, path, {k.ids[s]}, FALSE)
<1>1. CASE RemoveIndexes(k, s, path, f, FALSE) = {}
  <2>1. acc2 = acc
    BY <1>1 DEF RemoveStep
  <2> QED
    BY <2>1
<1>2. CASE RemoveIndexes(k, s, path, f, FALSE) # {}
  <2>1. acc2.mux = k2 /\ acc2.cmds = acc.cmds \o cmds
    BY <1>2 DEF RemoveStep
  <2>2. IsMux(k) /\ SubscriptionsAreShared(k)
    BY DEF IsChange
  <2> HIDE DEF k, f
  <2>3. IsChange(k, k2, cmds)
    BY <1>2, <2>2, RemovingIsAChange
  <2> HIDE DEF k2, cmds
  <2>4. IsChange(m, k2, acc.cmds \o cmds)
    BY <2>3, ChangesAdd DEF k
  <2> QED
    BY <2>1, <2>4
<1> QED
  BY <1>1, <1>2

\* Its loop.
LEMMA RemovingInTurnIsAChange ==
  ASSUME NEW m, IsMux(m), SubscriptionsAreShared(m), NEW s \in Subscribers
  PROVE  \A paths \in Seq(Patterns) :
            IsChange(m, RemovedInTurn(m, s, paths).mux, RemovedInTurn(m, s, paths).cmds)
<1> DEFINE T == {q \in Seq(Patterns) : IsChange(m, RemovedInTurn(m, s, q).mux, RemovedInTurn(m, s, q).cmds)}
<1>1. <<>> \in T
  <2>1. RemovedInTurn(m, s, <<>>) = [mux |-> m, cmds |-> <<>>]
    BY RemovingNothing
  <2>2. IsChange(m, m, <<>>)
    BY NoChange
  <2> QED
    BY <2>1, <2>2
<1>2. ASSUME NEW q \in Seq(Patterns), NEW c \in Patterns, q \in T
      PROVE  Append(q, c) \in T
  <2> DEFINE acc == RemovedInTurn(m, s, q)
             acc2 == RemovedInTurn(m, s, Append(q, c))
  <2>1. acc2 = RemoveStep(acc, s, c)
    BY RemovingLast
  <2>2. IsChange(m, acc.mux, acc.cmds)
    BY <1>2
  <2>3. Append(q, c) \in Seq(Patterns)
    BY Joining
  <2> HIDE DEF acc, acc2
  <2>4. IsChange(m, acc2.mux, acc2.cmds)
    BY <2>1, <2>2, RemoveStepIsAChange
  <2> QED
    BY <2>3, <2>4 DEF acc2
<1>3. \A q \in Seq(Patterns) : q \in T
  <2> HIDE DEF T
  <2> QED
    BY <1>1, <1>2, SeqInduction
<1> QED
  BY <1>3

-----------------------------------------------------------------------------
\* Sets that are gone through in some order.

Listed(q) == {q[i] : i \in 1 .. Len(q)}

LEMMA ListedFacts ==
  ASSUME NEW S, NEW q \in Seq(S), NEW c \in S
  PROVE  /\ Listed(<<>>) = {}
         /\ Listed(Append(q, c)) = Listed(q) \union {c}
<1> DEFINE r == Append(q, c)
           N == Len(q)
<1>1. /\ N \in Nat /\ Len(r) = N + 1 /\ r[N + 1] = c
      /\ \A i \in 1 .. N : r[i] = q[i]
  BY AppendProperties, LenProperties
<1> HIDE DEF r, N
<1>2. \A i \in 1 .. N + 1 : i = N + 1 \/ i \in 1 .. N
  BY <1>1
<1>3. N + 1 \in 1 .. N + 1 /\ \A i \in 1 .. N : i \in 1 .. N + 1
  BY <1>1
<1>4. Listed(r) = {r[i] : i \in 1 .. N + 1} /\ Listed(q) = {q[i] : i \in 1 .. N}
  BY <1>1 DEF Listed, N
<1>5. Listed(r) \subseteq Listed(q) \union {c}
  BY <1>1, <1>2, <1>4
<1>6. Listed(q) \union {c} \subseteq Listed(r)
  BY <1>1, <1>3, <1>4
<1>7. Listed(<<>>) = {}
  BY DEF Listed
<1> QED
  BY <1>5, <1>6, <1>7 DEF r

LEMMA SetToSeqFacts ==
  ASSUME NEW S, IsFiniteSet(S)
  PROVE  SetToSeq(S) \in Seq(S) /\ Listed(SetToSeq(S)) = S
<1> DEFINE n == Cardinality(S)
           q == SetToSeq(S)
<1>1. n \in Nat
  BY FS_CardinalityType
<1>2. PICK g : g \in Bijection(1 .. n, S)
  BY FS_CardinalityType DEF ExistsBijection
<1>3. g \in [1 .. n -> S] /\ IsInjective(g)
  BY <1>2 DEF Bijection, Injection, IsInjective
<1>4. q \in [1 .. n -> S] /\ IsInjective(q)
  BY <1>3 DEF SetToSeq
<1> HIDE DEF n, q
<1>5. q \in Injection(1 .. n, S)
  BY <1>4 DEF Injection, IsInjective
<1>6. Cardinality(1 .. n) = n
  BY <1>1, FS_Interval
<1>7. q \in Surjection(1 .. n, S)
  BY <1>5, <1>6, FS_Injection DEF n
<1>8. \A x \in S : \E i \in 1 .. n : q[i] = x
  BY <1>7 DEF Surjection
<1>9. q \in Seq(S) /\ Len(q) = n
  BY <1>1, <1>4, SeqDef, LenProperties
<1>10. Listed(q) = S
  BY <1>4, <1>8, <1>9 DEF Listed
<1> QED
  BY <1>9, <1>10 DEF q

-----------------------------------------------------------------------------
\* TreeGatewayConnectionStateChanged(): everything is subscribed again.

IsResubscription(m, q, cmds) ==
  /\ \A n : cmds \in Seq(Commands(n))
  /\ \A id, o : LET y == PacketDone(id, Outcome(NoFunction, o, <<>>), cmds)
                IN  /\ y.tab = [p \in Listed(q) |-> UnionFilter(m.subscribed[p])]
                    /\ y.answers = <<>>
                    /\ y.open => q = <<>>

LEMMA SubscribingAgain ==
  ASSUME NEW m, IsMux(m), SubscriptionsAreShared(m), NEW p \in DOMAIN m.subscribed
  PROVE  LET cmds == SubscribedAgain(m, p)
         IN  /\ \A n : cmds \in Seq(Commands(n))
             /\ \A id, x : PacketDone(id, x, cmds)
                             = Outcome(With(x.tab, p, UnionFilter(m.subscribed[p])), FALSE, x.answers)
<1> DEFINE q == m.subscribed[p]
           names == {m.ids[q[i].sub] : i \in DOMAIN q}
           quiet == \A i \in DOMAIN q : q[i].quiet
<1>1. p \in Patterns /\ q \in Queues /\ m.ids \in [Subscribers -> Nat]
  BY MuxFacts
<1>2. q # <<>>
  BY DEF SubscriptionsAreShared
<1>3. \A i \in DOMAIN q : q[i] \in SubscriptionInfo
  BY <1>1 DEF Queues
<1>4. \A i \in DOMAIN q : q[i].sub \in Subscribers
  BY <1>3 DEF SubscriptionInfo
<1>5. names \in SUBSET Nat
  BY <1>1, <1>4
<1>6. UnionFilter(q) \in SUBSET Values
  BY <1>1, UnionFilterType
<1>7. quiet \in BOOLEAN
  OBVIOUS
<1>8. SubscribedAgain(m, p) = UpdateSubscription(m, p, names, quiet)
  BY DEF SubscribedAgain
<1> HIDE DEF names, quiet
<1>9. /\ p \in DOMAIN m.subscribed /\ m.subscribed[p] # <<>>
      /\ UnionFilter(m.subscribed[p]) \in SUBSET Values
  BY <1>2, <1>6
<1>10. /\ \A n : UpdateSubscription(m, p, names, quiet) \in Seq(Commands(n))
       /\ \A id, x : PacketDone(id, x, UpdateSubscription(m, p, names, quiet))
                       = Outcome(With(x.tab, p, UnionFilter(m.subscribed[p])), FALSE, x.answers)
  BY <1>1, <1>5, <1>7, <1>9, SubscribingForAll
<1> QED
  BY <1>8, <1>10

LEMMA ResubscribingInTurn ==
  ASSUME NEW m, IsMux(m), SubscriptionsAreShared(m)
  PROVE  \A q \in Seq(DOMAIN m.subscribed) : IsResubscription(m, q, SubscribedInTurn(m, q))
<1> DEFINE D == DOMAIN m.subscribed
           T == {q \in Seq(D) : IsResubscription(m, q, SubscribedInTurn(m, q))}
<1>1. <<>> \in T
  <2> DEFINE e == <<>>
  <2>1. SubscribedInTurn(m, e) = e
    BY SubscribingNothing
  <2>2. \A n : e \in Seq(Commands(n))
    OBVIOUS
  <2>3. Listed(e) = {}
    BY DEF Listed
  <2>4. ASSUME NEW id, NEW o
        PROVE  LET y == PacketDone(id, Outcome(NoFunction, o, <<>>), e)
               IN  /\ y.tab = [p \in Listed(e) |-> UnionFilter(m.subscribed[p])]
                   /\ y.answers = <<>>
    <3>1. PacketDone(id, Outcome(NoFunction, o, <<>>), e) = Outcome(NoFunction, o, <<>>)
      BY CommandingNothing
    <3>2. NoFunction = [p \in Listed(e) |-> UnionFilter(m.subscribed[p])]
      BY <2>3 DEF NoFunction
    <3> QED
      BY <3>1, <3>2 DEF Outcome
  <2>5. e \in Seq(D)
    OBVIOUS
  <2> QED
    BY <2>1, <2>2, <2>4, <2>5 DEF IsResubscription
<1>2. ASSUME NEW q \in Seq(D), NEW c \in D, q \in T
      PROVE  Append(q, c) \in T
  <2> DEFINE r == Append(q, c)
             a == SubscribedInTurn(m, q)
             b == SubscribedAgain(m, c)
             F(p) == UnionFilter(m.subscribed[p])
  <2>1. SubscribedInTurn(m, r) = a \o b
    BY SubscribingLast
  <2>2. /\ \A n : b \in Seq(Commands(n))
        /\ \A id, x : PacketDone(id, x, b) = Outcome(With(x.tab, c, F(c)), FALSE, x.answers)
    BY SubscribingAgain
  <2>3. r \in Seq(D) /\ Listed(r) = Listed(q) \union {c}
    BY Joining, ListedFacts
  <2>4. IsResubscription(m, q, a)
    BY <1>2
  <2> HIDE DEF r, a, b
  <2>5. \A n : a \in Seq(Commands(n))
    BY <2>4 DEF IsResubscription
  <2>6. \A n : a \o b \in Seq(Commands(n))
    BY <2>2, <2>5
  <2>7. ASSUME NEW id, NEW o
        PROVE  LET y == PacketDone(id, Outcome(NoFunction, o, <<>>), a \o b)
               IN  /\ y.tab = [p \in Listed(r) |-> F(p)]
                   /\ y.answers = <<>>
                   /\ ~y.open
    <3> DEFINE x == Outcome(NoFunction, o, <<>>)
               z == PacketDone(id, x, a)
               S == Commands(0)
    <3>1. z.tab = [p \in Listed(q) |-> F(p)] /\ z.answers = <<>>
      BY <2>4 DEF IsResubscription
    <3>2. a \in Seq(S) /\ b \in Seq(S)
      BY <2>2, <2>5
    <3> HIDE DEF x, S
    <3>3. PacketDone(id, x, a \o b) = PacketDone(id, z, b)
      BY <3>2, CommandsInTurn
    <3> HIDE DEF z
    <3>4. PacketDone(id, z, b) = Outcome(With(z.tab, c, F(c)), FALSE, z.answers)
      BY <2>2
    <3> HIDE DEF F
    <3>5. With(z.tab, c, F(c)) = [p \in Listed(r) |-> F(p)]
      BY <2>3, <3>1 DEF With
    <3>6. PacketDone(id, x, a \o b) = Outcome([p \in Listed(r) |-> F(p)], FALSE, <<>>)
      BY <3>1, <3>3, <3>4, <3>5
    <3> QED
      BY <3>6 DEF x, Outcome
  <2>8. IsResubscription(m, r, a \o b)
    BY <2>6, <2>7 DEF IsResubscription
  <2> QED
    BY <2>1, <2>3, <2>8 DEF r
<1>3. \A q \in Seq(D) : q \in T
  <2> HIDE DEF T, D
  <2> QED
    BY <1>1, <1>2, SeqInduction
<1> QED
  BY <1>3

\* What Resubscribe() sends leads to what the subscribers want.
LEMMA ResubscribeFacts ==
  ASSUME NEW m, IsMux(m), SubscriptionsAreShared(m), NEW cmds, cmds = Resubscribe(m)
  PROVE  /\ \A n : cmds \in Seq(Commands(n))
         /\ \A id, o : LET y == PacketDone(id, Outcome(NoFunction, o, <<>>), cmds)
                       IN  /\ y.tab = Wanted(m)
                           /\ y.answers = <<>>
                           /\ y.open => \A s \in Subscribers : m.infos[s] = NoFunction
<1> DEFINE D == DOMAIN m.subscribed
           q == SetToSeq(D)
<1>1. IsFiniteSet(D)
  BY DEF SubscriptionsAreShared
<1>2. q \in Seq(D) /\ Listed(q) = D
  BY <1>1, SetToSeqFacts
<1>3. cmds = SubscribedInTurn(m, q)
  BY DEF Resubscribe
<1> HIDE DEF q
<1>4. IsResubscription(m, q, cmds)
  BY <1>2, <1>3, ResubscribingInTurn
<1>5. ASSUME q = <<>>, NEW s \in Subscribers PROVE m.infos[s] = NoFunction
  <2>1. D = {}
    BY <1>2, <1>5 DEF Listed
  <2>2. DOMAIN m.infos[s] = {}
    BY <2>1 DEF SubscriptionsAreShared
  <2>3. IsPartialFunction(m.infos[s], Patterns, Filters)
    BY MuxFacts
  <2> QED
    BY <2>2, <2>3, NoFunctionFacts
<1>6. [p \in Listed(q) |-> UnionFilter(m.subscribed[p])] = Wanted(m)
  BY <1>2 DEF Wanted
<1> QED
  BY <1>4, <1>5, <1>6 DEF IsResubscription

-----------------------------------------------------------------------------
\* The invariant of a mux m, the session's table t and the traffic d and u.

\* What all this will have led to.
Ahead(id, m, t, d, u) == Traffic(id, t, m.allowed # {}, d, u)

Unsubscribed(m) == \A s \in Subscribers : m.infos[s] = NoFunction

IsSound(m, t, d, u) ==
  /\ IsMux(m) /\ SubscriptionsAreShared(m)
  /\ \A s \in Subscribers : m.ids[s] <= m.counter
  /\ \A s, k \in Subscribers : m.ids[s] = m.ids[k] /\ m.ids[s] # 0 => s = k
  /\ t \in Tables /\ d \in Seq(Replies(m.counter)) /\ u \in Seq(Seq(Commands(m.counter)))
  /\ ~m.connected => u = <<>> /\ d = <<>>
  /\ m.connected => Ahead(0, m, t, d, u).tab = Wanted(m)
  /\ m.connected /\ Ahead(0, m, t, d, u).open => Unsubscribed(m)
  /\ \A s \in Subscribers : m.requested[s] = Ahead(m.ids[s], m, t, d, u).answers

\* The mode matters, not for whom it is.
LEMMA SameMode ==
  ASSUME NEW m, NEW m2, m2.allowed = {} <=> m.allowed = {}, NEW id, NEW t, NEW d, NEW u
  PROVE  Ahead(id, m2, t, d, u) = Ahead(id, m, t, d, u)
<1>1. (m2.allowed # {}) = (m.allowed # {})
  OBVIOUS
<1> QED
  BY <1>1 DEF Ahead

LEMMA SendingAhead ==
  ASSUME NEW b, NEW m, m.connected, NEW n, NEW u \in Seq(Seq(Commands(n))), NEW q \in Seq(Commands(n)),
         NEW id, NEW t, NEW d
  PROVE  Ahead(id, m, t, d, Send(m, u, q, b)) = PacketDone(id, Ahead(id, m, t, d, u), q)
<1> DEFINE S == Commands(n)
<1> HIDE DEF S
<1>1. \A o : Traffic(id, t, o, d, Send(m, u, q, b)) = PacketDone(id, Traffic(id, t, o, d, u), q)
  BY SendingTraffic DEF S
<1> QED
  BY <1>1 DEF Ahead

\* Answers to a registration that has not been made.
LEMMA NoAnswers ==
  ASSUME NEW id, NEW n, NEW m, NEW t, NEW d \in Seq(Replies(n)), NEW u \in Seq(Seq(Commands(n))), id \notin 1 .. n
  PROVE  Ahead(id, m, t, d, u).answers = <<>>
<1>1. \A o : Traffic(id, t, o, d, u).answers = <<>>
  BY TrafficFacts
<1> QED
  BY <1>1 DEF Ahead

LEMMA NoAnswersToNobody ==
  ASSUME NEW n \in Nat, NEW m, NEW t, NEW d \in Seq(Replies(n)), NEW u \in Seq(Seq(Commands(n)))
  PROVE  Ahead(0, m, t, d, u).answers = <<>>
<1> DEFINE z == 0
<1>1. z \notin 1 .. n
  OBVIOUS
<1> HIDE DEF z
<1>2. Ahead(z, m, t, d, u).answers = <<>>
  BY <1>1, NoAnswers
<1> QED
  BY <1>2 DEF z

\* Without traffic.
LEMMA NothingAhead ==
  ASSUME NEW id, NEW m, NEW t
  PROVE  Ahead(id, m, t, <<>>, <<>>).tab = t /\ Ahead(id, m, t, <<>>, <<>>).answers = <<>>
BY NoTraffic DEF Ahead, Outcome

\* Subscriptions change, and the commands that say so are sent.
LEMMA SoundChange ==
  ASSUME NEW m, NEW t, NEW d, NEW u, IsSound(m, t, d, u),
         NEW m2, NEW cmds, IsChange(m, m2, cmds), NEW b, NEW u2, u2 = Send(m, u, cmds, b)
  PROVE  IsSound(m2, t, d, u2)
<1>1. /\ IsMux(m2) /\ SubscriptionsAreShared(m2)
      /\ m2.connected = m.connected /\ m2.counter = m.counter /\ m2.ids = m.ids
      /\ m2.allowed = m.allowed /\ m2.requested = m.requested
      /\ cmds \in Seq(Commands(m.counter))
  BY DEF IsChange
<1>2. /\ u \in Seq(Seq(Commands(m.counter))) /\ d \in Seq(Replies(m.counter)) /\ t \in Tables
      /\ \A s \in Subscribers : m.ids[s] <= m.counter
      /\ \A s, k \in Subscribers : m.ids[s] = m.ids[k] /\ m.ids[s] # 0 => s = k
      /\ ~m.connected => u = <<>> /\ d = <<>>
  BY DEF IsSound
<1>3. u2 \in Seq(Seq(Commands(m.counter)))
  BY <1>1, <1>2, SendingType
<1>4. ~m.connected => u2 = u
  BY DEF Send
<1>5. \A id, v : Ahead(id, m2, t, d, v) = Ahead(id, m, t, d, v)
  BY <1>1, SameMode
<1>6. ASSUME m.connected, NEW id
      PROVE  Ahead(id, m2, t, d, u2) = PacketDone(id, Ahead(id, m, t, d, u), cmds)
  BY <1>1, <1>2, <1>5, <1>6, SendingAhead
<1>7. ASSUME m2.connected PROVE Ahead(0, m2, t, d, u2).tab = Wanted(m2)
  <2>1. Ahead(0, m, t, d, u).tab = Wanted(m)
    BY <1>1, <1>7 DEF IsSound
  <2> QED
    BY <1>1, <1>6, <1>7, <2>1 DEF IsChange
<1>8. ASSUME m2.connected, Ahead(0, m2, t, d, u2).open PROVE Unsubscribed(m2)
  <2>1. Ahead(0, m, t, d, u).open => Unsubscribed(m)
    BY <1>1, <1>8 DEF IsSound
  <2>2. PacketDone(0, Ahead(0, m, t, d, u), cmds).open
    BY <1>1, <1>6, <1>8
  <2>3. Ahead(0, m, t, d, u).open /\ (Unsubscribed(m) => Unsubscribed(m2))
    BY <2>2 DEF IsChange, Unsubscribed
  <2> QED
    BY <2>1, <2>3
<1>9. ASSUME NEW s \in Subscribers PROVE m2.requested[s] = Ahead(m2.ids[s], m2, t, d, u2).answers
  <2>1. m.requested[s] = Ahead(m.ids[s], m, t, d, u).answers
    BY DEF IsSound
  <2>2. CASE m.connected
    BY <1>1, <1>6, <2>1, <2>2 DEF IsChange
  <2>3. CASE ~m.connected
    BY <1>1, <1>4, <1>5, <2>1, <2>3
  <2> QED
    BY <2>2, <2>3
<1> QED
  BY <1>1, <1>2, <1>3, <1>4, <1>7, <1>8, <1>9 DEF IsSound

\* A mux with other values in the fields that subscriptions do not touch.
Updated(m, cnt, ids, inf, rec, alw, req) ==
  [connected |-> m.connected, counter |-> cnt, ids |-> ids, infos |-> inf, received |-> rec,
   subscribed |-> m.subscribed, allowed |-> alw, requested |-> req]

AreFields(cnt, ids, inf, rec, alw, req) ==
  /\ cnt \in Nat /\ ids \in [Subscribers -> Nat]
  /\ inf \in [Subscribers -> PartialFunctions(Patterns, Filters)]
  /\ rec \in [Subscribers -> SUBSET Nodes] /\ alw \in SUBSET Nat
  /\ req \in [Subscribers -> Seq(Patterns)]

LEMMA UpdatedFacts ==
  ASSUME NEW m, IsMux(m), NEW cnt, NEW ids, NEW inf, NEW rec, NEW alw, NEW req,
         AreFields(cnt, ids, inf, rec, alw, req), NEW m2, m2 = Updated(m, cnt, ids, inf, rec, alw, req)
  PROVE  /\ IsMux(m2)
         /\ m2.connected = m.connected /\ m2.counter = cnt /\ m2.ids = ids /\ m2.infos = inf
         /\ m2.allowed = alw /\ m2.requested = req /\ m2.subscribed = m.subscribed
         /\ Wanted(m2) = Wanted(m)
<1>1. /\ m2.connected = m.connected /\ m2.counter = cnt /\ m2.ids = ids /\ m2.infos = inf
      /\ m2.received = rec /\ m2.subscribed = m.subscribed
      /\ m2.allowed = alw /\ m2.requested = req
  BY DEF Updated
<1>2. m2 = [connected |-> m2.connected, counter |-> m2.counter, ids |-> m2.ids,
            infos |-> m2.infos, received |-> m2.received, subscribed |-> m2.subscribed,
            allowed |-> m2.allowed, requested |-> m2.requested]
  BY <1>1 DEF Updated
<1>3. IsPartialFunction(m2.subscribed, Patterns, Seq(SubscriptionInfo))
  BY <1>1 DEF IsMux
<1>4. IsMux(m2)
  BY <1>1, <1>2, <1>3 DEF IsMux, AreFields
<1>5. Wanted(m2) = Wanted(m)
  BY <1>1 DEF Wanted
<1> QED
  BY <1>1, <1>4, <1>5

LEMMA FieldsOfAMux ==
  ASSUME NEW m, IsMux(m)
  PROVE  /\ m = [connected |-> m.connected, counter |-> m.counter, ids |-> m.ids,
                 infos |-> m.infos, received |-> m.received, subscribed |-> m.subscribed,
                 allowed |-> m.allowed, requested |-> m.requested]
         /\ m.connected \in BOOLEAN /\ m.counter \in Nat /\ m.ids \in [Subscribers -> Nat]
         /\ m.infos \in [Subscribers -> PartialFunctions(Patterns, Filters)]
         /\ m.received \in [Subscribers -> SUBSET Nodes]
         /\ m.allowed \in SUBSET Nat /\ m.requested \in [Subscribers -> Seq(Patterns)]
BY DEF IsMux

LEMMA SharedStays ==
  ASSUME NEW m, SubscriptionsAreShared(m), NEW m2, m2.subscribed = m.subscribed, m2.infos = m.infos
  PROVE  SubscriptionsAreShared(m2)
BY DEF SubscriptionsAreShared

\* IGateway::RegisterSubscriber().
LEMMA SoundRegistration ==
  ASSUME NEW m, NEW t, NEW d, NEW u, IsSound(m, t, d, u), NEW s \in Subscribers, ~Registered(m, s),
         NEW m2, m2 = NewRegistration(m, s)
  PROVE  IsSound(m2, t, d, u)
<1> DEFINE n == m.counter
           n2 == n + 1
           ids == [m.ids EXCEPT ![s] = n2]
<1>1. /\ IsMux(m) /\ SubscriptionsAreShared(m)
      /\ u \in Seq(Seq(Commands(n))) /\ d \in Seq(Replies(n)) /\ t \in Tables
      /\ \A k \in Subscribers : m.ids[k] <= n
      /\ \A j, k \in Subscribers : m.ids[j] = m.ids[k] /\ m.ids[j] # 0 => j = k
      /\ ~m.connected => u = <<>> /\ d = <<>>
  BY DEF IsSound
<1>2. /\ m.connected \in BOOLEAN /\ n \in Nat /\ m.ids \in [Subscribers -> Nat]
      /\ m.infos \in [Subscribers -> PartialFunctions(Patterns, Filters)]
      /\ m.received \in [Subscribers -> SUBSET Nodes]
      /\ m.allowed \in SUBSET Nat /\ m.requested \in [Subscribers -> Seq(Patterns)]
  BY <1>1, FieldsOfAMux
<1>16. m = [connected |-> m.connected, counter |-> m.counter, ids |-> m.ids,
            infos |-> m.infos, received |-> m.received, subscribed |-> m.subscribed,
            allowed |-> m.allowed, requested |-> m.requested]
  BY <1>1, FieldsOfAMux
<1>3. m2 = Updated(m, n2, ids, m.infos, m.received, m.allowed, m.requested)
  <2>1. m2 = [m EXCEPT !.counter = n2, !.ids = ids]
    BY <1>16 DEF NewRegistration
  <2> HIDE DEF n2, ids
  <2> QED
    BY <1>16, <2>1 DEF Updated
<1>4. n2 \in Nat /\ n <= n2 /\ n2 \notin 1 .. n
  BY <1>2
<1>5. /\ ids \in [Subscribers -> Nat] /\ ids[s] = n2
      /\ \A k \in Subscribers : k # s => ids[k] = m.ids[k]
  BY <1>2, <1>4
<1>6. m.ids[s] = 0
  BY DEF Registered
<1> HIDE DEF n2, ids
<1>7. /\ IsMux(m2)
      /\ m2.connected = m.connected /\ m2.counter = n2 /\ m2.ids = ids /\ m2.infos = m.infos
      /\ m2.allowed = m.allowed /\ m2.requested = m.requested /\ m2.subscribed = m.subscribed
      /\ Wanted(m2) = Wanted(m)
  <2>1. AreFields(n2, ids, m.infos, m.received, m.allowed, m.requested)
    BY <1>2, <1>4, <1>5 DEF AreFields
  <2> QED
    BY <1>1, <1>3, <2>1, UpdatedFacts
<1>8. u \in Seq(Seq(Commands(n2))) /\ d \in Seq(Replies(n2))
  BY <1>1, <1>2, <1>4, MoreRegistrations
<1>9. \A id : Ahead(id, m2, t, d, u) = Ahead(id, m, t, d, u)
  BY <1>7, SameMode
<1>10. ASSUME NEW k \in Subscribers PROVE m2.requested[k] = Ahead(m2.ids[k], m2, t, d, u).answers
  <2>1. m.requested[k] = Ahead(m.ids[k], m, t, d, u).answers
    BY DEF IsSound
  <2>2. CASE k # s
    BY <1>5, <1>7, <1>9, <2>1, <2>2
  <2>3. CASE k = s
    <3>1. Ahead(0, m, t, d, u).answers = <<>>
      BY <1>1, <1>2, NoAnswersToNobody
    <3>2. Ahead(n2, m, t, d, u).answers = <<>>
      BY <1>1, <1>4, NoAnswers
    <3> QED
      BY <1>5, <1>6, <1>7, <1>9, <2>1, <2>3, <3>1, <3>2
  <2> QED
    BY <2>2, <2>3
<1>11. \A k \in Subscribers : ids[k] <= n2
  <2>1. \A k \in Subscribers : m.ids[k] \in Nat /\ m.ids[k] <= n2
    BY <1>1, <1>2 DEF n2
  <2> QED
    BY <1>4, <1>5, <2>1
<1>12. \A j, k \in Subscribers : ids[j] = ids[k] /\ ids[j] # 0 => j = k
  <2>1. \A k \in Subscribers : m.ids[k] # n2
    BY <1>1, <1>2 DEF n2
  <2> QED
    BY <1>1, <1>5, <2>1
<1>13. SubscriptionsAreShared(m2)
  BY <1>1, <1>7, SharedStays
<1>14. /\ m2.connected => Ahead(0, m2, t, d, u).tab = Wanted(m2)
       /\ m2.connected /\ Ahead(0, m2, t, d, u).open => Unsubscribed(m2)
  BY <1>7, <1>9 DEF IsSound, Unsubscribed
<1> QED
  BY <1>1, <1>7, <1>8, <1>10, <1>11, <1>12, <1>13, <1>14 DEF IsSound

\* IGateway::UnregisterSubscriber(), once the subscriptions are removed.
Unregistered(m, s) ==
  [EndRegistration(m, s) EXCEPT
      !.infos[s]     = NoFunction,
      !.received[s]  = {},
      !.requested[s] = <<>>,
      !.allowed      = IF m.ids[s] \in @ THEN (@ \ {m.ids[s]}) \union {0} ELSE @]

LEMMA SoundUnregistration ==
  ASSUME NEW m, NEW t, NEW d, NEW u, IsSound(m, t, d, u), NEW s \in Subscribers,
         NEW m2, m2 = Unregistered(m, s)
  PROVE  IsSound(m2, t, d, u)
<1> DEFINE n == m.counter
           ids == [m.ids EXCEPT ![s] = 0]
           inf == [m.infos EXCEPT ![s] = NoFunction]
           rec == [m.received EXCEPT ![s] = {}]
           req == [m.requested EXCEPT ![s] = <<>>]
           alw == IF m.ids[s] \in m.allowed THEN (m.allowed \ {m.ids[s]}) \union {0} ELSE m.allowed
<1>1. /\ IsMux(m) /\ SubscriptionsAreShared(m)
      /\ u \in Seq(Seq(Commands(n))) /\ d \in Seq(Replies(n)) /\ t \in Tables
      /\ \A k \in Subscribers : m.ids[k] <= n
      /\ \A j, k \in Subscribers : m.ids[j] = m.ids[k] /\ m.ids[j] # 0 => j = k
      /\ ~m.connected => u = <<>> /\ d = <<>>
  BY DEF IsSound
<1>2. /\ m.connected \in BOOLEAN /\ n \in Nat /\ m.ids \in [Subscribers -> Nat]
      /\ m.infos \in [Subscribers -> PartialFunctions(Patterns, Filters)]
      /\ m.received \in [Subscribers -> SUBSET Nodes]
      /\ m.allowed \in SUBSET Nat /\ m.requested \in [Subscribers -> Seq(Patterns)]
  BY <1>1, FieldsOfAMux
<1>16. m = [connected |-> m.connected, counter |-> m.counter, ids |-> m.ids,
            infos |-> m.infos, received |-> m.received, subscribed |-> m.subscribed,
            allowed |-> m.allowed, requested |-> m.requested]
  BY <1>1, FieldsOfAMux
<1>3. m2 = Updated(m, n, ids, inf, rec, alw, req)
  <2>1. EndRegistration(m, s) = [m EXCEPT !.ids = ids]
    BY <1>16 DEF EndRegistration
  <2>2. m2 = [m EXCEPT !.ids = ids, !.infos = inf, !.received = rec, !.requested = req, !.allowed = alw]
    <3> HIDE DEF ids
    <3> QED
      BY <1>16, <2>1 DEF Unregistered
  <2> HIDE DEF ids, inf, rec, req, alw
  <2> QED
    BY <1>16, <2>2 DEF Updated
<1>4. /\ ids \in [Subscribers -> Nat] /\ ids[s] = 0
      /\ \A k \in Subscribers : k # s => ids[k] = m.ids[k]
  BY <1>2
<1>5. NoFunction \in PartialFunctions(Patterns, Filters)
  BY NoFunctionFacts, PartialFunctionFacts
<1>6. /\ inf \in [Subscribers -> PartialFunctions(Patterns, Filters)] /\ inf[s] = NoFunction
      /\ \A k \in Subscribers : k # s => inf[k] = m.infos[k]
  <2> HIDE DEF NoFunction
  <2> QED
    BY <1>2, <1>5
<1>7. rec \in [Subscribers -> SUBSET Nodes] /\ alw \in SUBSET Nat
  BY <1>2
<1>8. /\ req \in [Subscribers -> Seq(Patterns)] /\ req[s] = <<>>
      /\ \A k \in Subscribers : k # s => req[k] = m.requested[k]
  BY <1>2
<1>9. alw = {} <=> m.allowed = {}
  OBVIOUS
<1> HIDE DEF ids, inf, rec, req, alw
<1>10. /\ IsMux(m2)
       /\ m2.connected = m.connected /\ m2.counter = n /\ m2.ids = ids /\ m2.infos = inf
       /\ m2.allowed = alw /\ m2.requested = req /\ m2.subscribed = m.subscribed
       /\ Wanted(m2) = Wanted(m)
  <2>1. AreFields(n, ids, inf, rec, alw, req)
    BY <1>2, <1>4, <1>6, <1>7, <1>8 DEF AreFields
  <2> QED
    BY <1>1, <1>3, <2>1, UpdatedFacts
<1>11. \A id : Ahead(id, m2, t, d, u) = Ahead(id, m, t, d, u)
  BY <1>9, <1>10, SameMode
<1>12. ASSUME NEW k \in Subscribers PROVE m2.requested[k] = Ahead(m2.ids[k], m2, t, d, u).answers
  <2>1. m.requested[k] = Ahead(m.ids[k], m, t, d, u).answers
    BY DEF IsSound
  <2>2. CASE k # s
    BY <1>4, <1>8, <1>10, <1>11, <2>1, <2>2
  <2>3. CASE k = s
    <3>1. Ahead(0, m, t, d, u).answers = <<>>
      BY <1>1, <1>2, NoAnswersToNobody
    <3> QED
      BY <1>4, <1>8, <1>10, <1>11, <2>3, <3>1
  <2> QED
    BY <2>2, <2>3
<1>13. (\A k \in Subscribers : ids[k] <= n) /\ \A j, k \in Subscribers : ids[j] = ids[k] /\ ids[j] # 0 => j = k
  <2>1. \A k \in Subscribers : m.ids[k] \in Nat
    BY <1>2
  <2>2. ASSUME NEW k \in Subscribers PROVE ids[k] <= n
    <3>1. n \in Nat /\ m.ids[k] <= n
      BY <1>1, <1>2
    <3> HIDE DEF n
    <3>2. CASE k = s
      BY <1>4, <3>1, <3>2
    <3>3. CASE k # s
      BY <1>4, <3>1, <3>3
    <3> QED
      BY <3>2, <3>3
  <2>3. ASSUME NEW j \in Subscribers, NEW k \in Subscribers, ids[j] = ids[k], ids[j] # 0 PROVE j = k
    BY <1>1, <1>4, <2>1, <2>3
  <2> QED
    BY <2>2, <2>3
<1>14. SubscriptionsAreShared(m2)
  <2>1. DOMAIN NoFunction = {} /\ IsFiniteSet({})
    BY NoFunctionFacts, FS_EmptySet
  <2>2. \A k \in Subscribers : DOMAIN inf[k] \subseteq DOMAIN m.infos[k] /\ IsFiniteSet(DOMAIN inf[k])
    BY <1>1, <1>6, <2>1 DEF SubscriptionsAreShared
  <2> QED
    BY <1>1, <1>10, <2>2 DEF SubscriptionsAreShared
<1>15. /\ m2.connected => Ahead(0, m2, t, d, u).tab = Wanted(m2)
       /\ m2.connected /\ Ahead(0, m2, t, d, u).open => Unsubscribed(m2)
  BY <1>6, <1>10, <1>11 DEF IsSound, Unsubscribed
<1> QED
  BY <1>1, <1>10, <1>12, <1>13, <1>14, <1>15 DEF IsSound

\* Subscriptions and registrations stay, and traffic moves on.
MovesOn(m, t, d, u, m2, t2, d2, u2) ==
  /\ IsMux(m2) /\ m2.connected /\ m2.counter = m.counter /\ m2.ids = m.ids
  /\ m2.infos = m.infos /\ m2.subscribed = m.subscribed
  /\ t2 \in Tables /\ d2 \in Seq(Replies(m.counter)) /\ u2 \in Seq(Seq(Commands(m.counter)))
  /\ Ahead(0, m2, t2, d2, u2).tab = Ahead(0, m, t, d, u).tab
  /\ Ahead(0, m2, t2, d2, u2).open => Ahead(0, m, t, d, u).open
  /\ \A s \in Subscribers : m2.requested[s] = Ahead(m.ids[s], m2, t2, d2, u2).answers

LEMMA StillSound ==
  ASSUME NEW m, NEW t, NEW d, NEW u, IsSound(m, t, d, u), m.connected,
         NEW m2, NEW t2, NEW d2, NEW u2, MovesOn(m, t, d, u, m2, t2, d2, u2)
  PROVE  IsSound(m2, t2, d2, u2)
<1> USE DEF MovesOn
<1>1. SubscriptionsAreShared(m2)
  <2>1. SubscriptionsAreShared(m)
    BY DEF IsSound
  <2> QED
    BY <2>1, SharedStays
<1>2. Wanted(m2) = Wanted(m) /\ (Unsubscribed(m) => Unsubscribed(m2))
  BY DEF Wanted, Unsubscribed
<1>3. Ahead(0, m2, t2, d2, u2).tab = Wanted(m2)
  BY <1>2 DEF IsSound
<1>4. Ahead(0, m2, t2, d2, u2).open => Unsubscribed(m2)
  BY <1>2 DEF IsSound
<1>5. /\ \A s \in Subscribers : m2.ids[s] <= m2.counter
      /\ \A s, k \in Subscribers : m2.ids[s] = m2.ids[k] /\ m2.ids[s] # 0 => s = k
  BY DEF IsSound
<1> QED
  BY <1>1, <1>3, <1>4, <1>5 DEF IsSound

\* TreeGateway_RequestNodeSubtreesAux().
Requesting(m, s, path) == [m EXCEPT !.requested[s] = Append(@, path)]

IsRequesting(m, m2, s, path) ==
  /\ IsMux(m2)
  /\ m2.connected = m.connected /\ m2.counter = m.counter /\ m2.ids = m.ids /\ m2.infos = m.infos
  /\ m2.allowed = m.allowed /\ m2.subscribed = m.subscribed
  /\ m2.requested[s] = Append(m.requested[s], path)
  /\ \A k \in Subscribers : k # s => m2.requested[k] = m.requested[k]

LEMMA RequestingFacts ==
  ASSUME NEW m, IsMux(m), NEW s \in Subscribers, NEW path \in Patterns,
         NEW m2, m2 = Requesting(m, s, path)
  PROVE  IsRequesting(m, m2, s, path)
<1> DEFINE n == m.counter
           req == [m.requested EXCEPT ![s] = Append(@, path)]
<1>2. /\ n \in Nat /\ m.ids \in [Subscribers -> Nat]
      /\ m.infos \in [Subscribers -> PartialFunctions(Patterns, Filters)]
      /\ m.received \in [Subscribers -> SUBSET Nodes]
      /\ m.allowed \in SUBSET Nat /\ m.requested \in [Subscribers -> Seq(Patterns)]
  BY FieldsOfAMux
<1>3. /\ req \in [Subscribers -> Seq(Patterns)] /\ req[s] = Append(m.requested[s], path)
      /\ \A k \in Subscribers : k # s => req[k] = m.requested[k]
  <2> DEFINE new == Append(m.requested[s], path)
  <2>1. new \in Seq(Patterns)
    BY <1>2
  <2>2. req = [m.requested EXCEPT ![s] = new]
    OBVIOUS
  <2> HIDE DEF new, req
  <2> QED
    BY <1>2, <2>1, <2>2 DEF new
<1>4. m = [connected |-> m.connected, counter |-> m.counter, ids |-> m.ids,
           infos |-> m.infos, received |-> m.received, subscribed |-> m.subscribed,
           allowed |-> m.allowed, requested |-> m.requested]
  BY FieldsOfAMux
<1>5. m2 = Updated(m, n, m.ids, m.infos, m.received, m.allowed, req)
  <2>1. m2 = [m EXCEPT !.requested = req]
    BY <1>4 DEF Requesting
  <2> HIDE DEF req
  <2> QED
    BY <1>4, <2>1 DEF Updated
<1> HIDE DEF req
<1>6. AreFields(n, m.ids, m.infos, m.received, m.allowed, req)
  BY <1>2, <1>3 DEF AreFields
<1>7. /\ IsMux(m2)
      /\ m2.connected = m.connected /\ m2.counter = n /\ m2.ids = m.ids /\ m2.infos = m.infos
      /\ m2.allowed = m.allowed /\ m2.requested = req /\ m2.subscribed = m.subscribed
  BY <1>5, <1>6, UpdatedFacts
<1> QED
  BY <1>3, <1>7 DEF IsRequesting

LEMMA SoundRequest ==
  ASSUME NEW m, NEW t, NEW d, NEW u, IsSound(m, t, d, u), NEW s \in Subscribers,
         Registered(m, s), m.connected, NEW path \in Patterns, NEW values \in BOOLEAN,
         NEW m2, m2 = Requesting(m, s, path),
         NEW b, NEW u2, u2 = Send(m, u, <<SubtreesCommand(m.ids[s], path, values)>>, b)
  PROVE  IsSound(m2, t, d, u2)
<1> DEFINE n == m.counter
           c == SubtreesCommand(m.ids[s], path, values)
           cmds == <<c>>
<1>1. /\ IsMux(m) /\ u \in Seq(Seq(Commands(n))) /\ d \in Seq(Replies(n)) /\ t \in Tables
      /\ m.ids[s] <= n
      /\ \A j, k \in Subscribers : m.ids[j] = m.ids[k] /\ m.ids[j] # 0 => j = k
  BY DEF IsSound
<1>2. /\ n \in Nat /\ m.ids \in [Subscribers -> Nat]
      /\ m.infos \in [Subscribers -> PartialFunctions(Patterns, Filters)]
      /\ m.received \in [Subscribers -> SUBSET Nodes]
      /\ m.allowed \in SUBSET Nat /\ m.requested \in [Subscribers -> Seq(Patterns)]
  BY <1>1, FieldsOfAMux
<1>3. IsRequesting(m, m2, s, path)
  BY <1>1, RequestingFacts
<1>4. /\ IsMux(m2)
      /\ m2.connected = m.connected /\ m2.counter = n /\ m2.ids = m.ids /\ m2.infos = m.infos
      /\ m2.allowed = m.allowed /\ m2.subscribed = m.subscribed
      /\ \A k \in Subscribers : k # s => m2.requested[k] = m.requested[k]
  BY <1>3 DEF IsRequesting
<1>7. m2.requested[s] = Append(m.requested[s], path)
  BY <1>3 DEF IsRequesting
<1>8. m.ids[s] \in 1 .. n
  <2>1. m.ids[s] \in Nat /\ m.ids[s] # 0
    BY <1>2 DEF Registered
  <2> QED
    BY <1>1, <1>2, <2>1
<1>9. c \in Commands(n)
  <2> HIDE DEF n
  <2> QED
    BY <1>8 DEF SubtreesCommand, Commands
<1>10. c.cmd = "subtrees" /\ c.id = m.ids[s] /\ c.path = path
  BY DEF SubtreesCommand
<1> HIDE DEF c
<1>11. cmds \in Seq(Commands(n))
  BY <1>9
<1>12. \A id, x : PacketDone(id, x, cmds) = CommandDone(id, x, c)
  BY OneCommand
<1>13. u2 = Send(m, u, cmds, b)
  BY DEF c
<1> HIDE DEF cmds
<1>14. u2 \in Seq(Seq(Commands(n)))
  BY <1>1, <1>11, <1>13, SendingType
<1>15. \A id : Ahead(id, m2, t, d, u2) = CommandDone(id, Ahead(id, m, t, d, u), c)
  <2>1. \A id : Ahead(id, m, t, d, u2) = PacketDone(id, Ahead(id, m, t, d, u), cmds)
    BY <1>1, <1>11, <1>13, SendingAhead
  <2>2. \A id : Ahead(id, m2, t, d, u2) = Ahead(id, m, t, d, u2)
    BY <1>4, SameMode
  <2> QED
    BY <1>12, <2>1, <2>2
<1>16. \A id, x : /\ CommandDone(id, x, c).tab = x.tab
                  /\ CommandDone(id, x, c).open => x.open
                  /\ id = m.ids[s] => CommandDone(id, x, c).answers = Append(x.answers, path)
                  /\ id # m.ids[s] => CommandDone(id, x, c).answers = x.answers
  BY <1>10 DEF CommandDone, TableAfter
<1>17. ASSUME NEW k \in Subscribers
       PROVE  m2.requested[k] = Ahead(m.ids[k], m2, t, d, u2).answers
  <2>1. m.requested[k] = Ahead(m.ids[k], m, t, d, u).answers
    BY DEF IsSound
  <2>2. CASE k = s
    <3> DEFINE x == Ahead(m.ids[s], m, t, d, u)
    <3>1. CommandDone(m.ids[s], x, c).answers = Append(x.answers, path)
      BY <1>16
    <3>2. Ahead(m.ids[s], m2, t, d, u2) = CommandDone(m.ids[s], x, c)
      BY <1>15
    <3>3. m.requested[s] = x.answers
      BY <2>1, <2>2
    <3> HIDE DEF x
    <3> QED
      BY <1>7, <2>2, <3>1, <3>2, <3>3
  <2>3. CASE k # s
    <3>1. m.ids[k] # m.ids[s]
      BY <1>1, <2>3 DEF Registered
    <3> QED
      BY <1>4, <1>15, <1>16, <2>1, <2>3, <3>1
  <2> QED
    BY <2>2, <2>3
<1>18. /\ Ahead(0, m2, t, d, u2).tab = Ahead(0, m, t, d, u).tab
       /\ Ahead(0, m2, t, d, u2).open => Ahead(0, m, t, d, u).open
  BY <1>15, <1>16
<1> QED
  <2>1. /\ IsMux(m2) /\ m2.connected /\ m2.counter = m.counter /\ m2.ids = m.ids
        /\ m2.infos = m.infos /\ m2.subscribed = m.subscribed
    BY <1>4
  <2>2. t \in Tables /\ d \in Seq(Replies(m.counter)) /\ u2 \in Seq(Seq(Commands(m.counter)))
    BY <1>1, <1>14
  <2> QED
    <3>1. MovesOn(m, t, d, u, m2, t, d, u2)
      BY <1>17, <1>18, <2>1, <2>2 DEF MovesOn
    <3> QED
      BY <3>1, StillSound

\* A command that is about the tree only.
LEMMA SoundCommand ==
  ASSUME NEW m, NEW t, NEW d, NEW u, IsSound(m, t, d, u),
         NEW c \in Commands(m.counter), c.cmd \in {"upload", "tosubscriber"},
         NEW b, NEW u2, u2 = Send(m, u, <<c>>, b)
  PROVE  IsSound(m, t, d, u2)
<1> DEFINE n == m.counter
           cmds == <<c>>
<1>1. /\ IsMux(m) /\ u \in Seq(Seq(Commands(n))) /\ d \in Seq(Replies(n)) /\ t \in Tables
  BY DEF IsSound
<1>2. CASE ~m.connected
  <2>1. u2 = u
    BY <1>2 DEF Send
  <2> QED
    BY <2>1
<1>3. CASE m.connected
  <2>1. cmds \in Seq(Commands(n))
    OBVIOUS
  <2>2. \A id, x : PacketDone(id, x, cmds) = CommandDone(id, x, c)
    BY OneCommand
  <2>3. u2 = Send(m, u, cmds, b)
    OBVIOUS
  <2> HIDE DEF cmds
  <2>4. u2 \in Seq(Seq(Commands(n)))
    BY <1>1, <2>1, <2>3, SendingType
  <2>5. \A id : Ahead(id, m, t, d, u2) = CommandDone(id, Ahead(id, m, t, d, u), c)
    <3>1. \A id : Ahead(id, m, t, d, u2) = PacketDone(id, Ahead(id, m, t, d, u), cmds)
      BY <1>1, <1>3, <2>1, <2>3, SendingAhead
    <3> QED
      BY <2>2, <3>1
  <2>6. \A id, x : /\ CommandDone(id, x, c).tab = x.tab
                   /\ CommandDone(id, x, c).open => x.open
                   /\ CommandDone(id, x, c).answers = x.answers
    BY DEF CommandDone, TableAfter
  <2>7. /\ Ahead(0, m, t, d, u2).tab = Ahead(0, m, t, d, u).tab
        /\ Ahead(0, m, t, d, u2).open => Ahead(0, m, t, d, u).open
    BY <2>5, <2>6
  <2>8. \A k \in Subscribers : m.requested[k] = Ahead(m.ids[k], m, t, d, u2).answers
    BY <2>5, <2>6 DEF IsSound
  <2> QED
    <3>1. MovesOn(m, t, d, u, m, t, d, u2)
      BY <1>1, <1>3, <2>4, <2>7, <2>8 DEF MovesOn
    <3> QED
      BY <1>3, <3>1, StillSound
<1> QED
  BY <1>2, <1>3

\* MessageReceivedFromGateway() at the server.
LEMMA SoundServing ==
  ASSUME NEW m, NEW t, NEW d, NEW u, IsSound(m, t, d, u), u # <<>>, NEW tr \in Trees,
         NEW acc, acc = Served([tab |-> t, tree |-> tr, out |-> d], Head(u))
  PROVE  acc.tree \in Trees /\ IsSound(m, acc.tab, acc.out, Tail(u))
<1> DEFINE n == m.counter
           rest == Tail(u)
<1>1. /\ IsMux(m) /\ u \in Seq(Seq(Commands(n))) /\ d \in Seq(Replies(n)) /\ t \in Tables
      /\ m.connected
  BY DEF IsSound
<1>2. /\ IsServer(acc, n) /\ rest \in Seq(Seq(Commands(n)))
      /\ \A id, o : Traffic(id, acc.tab, o, acc.out, rest) = Traffic(id, t, o, d, u)
  BY <1>1, ServingIsNoNews
<1> HIDE DEF rest
<1>3. \A id : Ahead(id, m, acc.tab, acc.out, rest) = Ahead(id, m, t, d, u)
  BY <1>2 DEF Ahead
<1>4. acc.tab \in Tables /\ acc.out \in Seq(Replies(n)) /\ acc.tree \in Trees
  BY <1>2 DEF IsServer
<1>5. MovesOn(m, t, d, u, m, acc.tab, acc.out, rest)
  BY <1>1, <1>2, <1>3, <1>4 DEF MovesOn, IsSound
<1> QED
  BY <1>1, <1>4, <1>5, StillSound DEF rest

\* A change of the tree by somebody else.
LEMMA SoundWrite ==
  ASSUME NEW m, NEW t, NEW d, NEW u, IsSound(m, t, d, u), m.connected,
         NEW n \in Nodes, NEW v \in Payloads, NEW old
  PROVE  IsSound(m, t, d \o Notification(t, n, old, v, 0), u)
<1> DEFINE S == Replies(m.counter)
           Items(k) == [re |-> "items", items |-> [j \in {n} |-> k], skip |-> 0]
           news == Notification(t, n, old, v, 0)
<1>1. /\ IsMux(m) /\ u \in Seq(Seq(Commands(m.counter))) /\ d \in Seq(S) /\ t \in Tables
  BY DEF IsSound
<1>2. ASSUME NEW k \in Payloads PROVE Items(k) \in S /\ Items(k).re = "items"
  <2>1. IsPartialFunction([j \in {n} |-> k], Nodes, Payloads)
    BY <1>2 DEF IsPartialFunction
  <2>2. [j \in {n} |-> k] \in PartialFunctions(Nodes, Payloads)
    BY <2>1, PartialFunctionFacts
  <2> DEFINE f == [j \in {n} |-> k]
  <2> HIDE DEF f
  <2> QED
    BY <2>2 DEF Replies, f
<1>3. NoValue \in Payloads
  BY DEF Payloads
<1>4. news = <<>> \/ news = <<Items(v)>> \/ news = <<Items(NoValue)>>
  BY DEF Notification
<1> HIDE DEF Items, news, S
<1>5. CASE news = <<>>
  <2>1. d \o news = d
    BY <1>1, <1>5, Joining
  <2> QED
    BY <2>1 DEF news
<1>6. ASSUME NEW k \in Payloads, news = <<Items(k)>>
      PROVE  IsSound(m, t, d \o news, u)
  <2> DEFINE r == Items(k)
             d2 == Append(d, r)
  <2>1. r \in S /\ r.re = "items"
    BY <1>2, <1>6
  <2> HIDE DEF r
  <2>2. d \o news = d2 /\ d2 \in Seq(S)
    BY <1>1, <1>6, <2>1, Joining DEF r
  <2>3. \A id, o : Traffic(id, t, o, d2, u) = Traffic(id, t, o, d, u)
    BY <1>1, <2>1, ItemsAreNoNews
  <2> HIDE DEF d2
  <2>4. \A id : Ahead(id, m, t, d2, u) = Ahead(id, m, t, d, u)
    BY <2>3 DEF Ahead
  <2>5. MovesOn(m, t, d, u, m, t, d2, u)
    BY <1>1, <2>2, <2>4 DEF MovesOn, IsSound, S
  <2>6. IsSound(m, t, d2, u)
    BY <2>5, StillSound
  <2> QED
    BY <2>2, <2>6
<1> QED
  BY <1>3, <1>4, <1>5, <1>6 DEF news

\* IncomingTreeMessageReceivedFromServer(): what every reply has in common.
Handles(m, r, m2) ==
  /\ IsMux(m2) /\ m2.connected = m.connected /\ m2.counter = m.counter /\ m2.ids = m.ids
  /\ m2.infos = m.infos /\ m2.subscribed = m.subscribed
  /\ r.re = "obss" => (m2.allowed = {} <=> r.ids = {})
  /\ r.re # "obss" => m2.allowed = m.allowed
  /\ \A s \in Subscribers : r.re = "subtrees" /\ r.id = m.ids[s] => m2.requested[s] = Tail(m.requested[s])
  /\ \A s \in Subscribers : ~(r.re = "subtrees" /\ r.id = m.ids[s]) => m2.requested[s] = m.requested[s]

LEMMA ModeAfter ==
  ASSUME NEW m, NEW r, NEW m2, Handles(m, r, m2)
  PROVE  (m2.allowed # {}) = OpenAfter(m.allowed # {}, r)
<1>1. CASE r.re = "obss"
  <2>1. m2.allowed = {} <=> r.ids = {}
    BY <1>1 DEF Handles
  <2> QED
    BY <1>1, <2>1 DEF OpenAfter
<1>2. CASE r.re # "obss"
  <2>1. m2.allowed = m.allowed
    BY <1>2 DEF Handles
  <2> QED
    BY <1>2, <2>1 DEF OpenAfter
<1> QED
  BY <1>1, <1>2

ComesNext(id, n, t, d, u, m, m2) ==
  LET r == Head(d)
      x == Ahead(id, m, t, d, u)
      y == Ahead(id, m2, t, Tail(d), u)
  IN  /\ r \in Replies(n) /\ Tail(d) \in Seq(Replies(n))
      /\ ~(r.re = "subtrees" /\ r.id = id) => y = x
      /\ r.re = "subtrees" /\ r.id = id => x.answers = <<r.path>> \o y.answers

LEMMA FirstAhead ==
  ASSUME NEW id, NEW n, NEW t, NEW d \in Seq(Replies(n)), d # <<>>, NEW u \in Seq(Seq(Commands(n))),
         NEW m, NEW m2, Handles(m, Head(d), m2)
  PROVE  ComesNext(id, n, t, d, u, m, m2)
<1> DEFINE r == Head(d)
           rest == Tail(d)
           o == m.allowed # {}
           o2 == m2.allowed # {}
           p == OpenAfter(o, r)
<1>1. o2 = p
  BY ModeAfter
<1>2. Ahead(id, m, t, d, u) = Traffic(id, t, o, d, u) /\ Ahead(id, m2, t, rest, u) = Traffic(id, t, o2, rest, u)
  BY DEF Ahead
<1>3. /\ r \in Replies(n) /\ rest \in Seq(Replies(n))
      /\ ~(r.re = "subtrees" /\ r.id = id) =>
            Traffic(id, t, o, d, u) = Traffic(id, t, p, rest, u)
      /\ r.re = "subtrees" /\ r.id = id =>
            Traffic(id, t, o, d, u).answers = <<r.path>> \o Traffic(id, t, p, rest, u).answers
  <2>1. TakesFirst(id, n, t, o, OpenAfter(o, Head(d)), d, u)
    <3> HIDE DEF o
    <3> QED
      BY HandlingTheFirst
  <2> HIDE DEF o
  <2> QED
    BY <2>1 DEF TakesFirst
<1> HIDE DEF o, o2, p, r, rest
<1>4. Ahead(id, m2, t, rest, u) = Traffic(id, t, p, rest, u)
  BY <1>1, <1>2
<1>5. /\ r \in Replies(n) /\ rest \in Seq(Replies(n))
      /\ ~(r.re = "subtrees" /\ r.id = id) => Ahead(id, m2, t, rest, u) = Ahead(id, m, t, d, u)
      /\ r.re = "subtrees" /\ r.id = id =>
            Ahead(id, m, t, d, u).answers = <<r.path>> \o Ahead(id, m2, t, rest, u).answers
  BY <1>2, <1>3, <1>4
<1> QED
  BY <1>5 DEF r, rest, ComesNext

LEMMA SoundHandling ==
  ASSUME NEW m, NEW t, NEW d, NEW u, IsSound(m, t, d, u), d # <<>>,
         NEW m2, Handles(m, Head(d), m2)
  PROVE  IsSound(m2, t, Tail(d), u)
<1> DEFINE n == m.counter
           r == Head(d)
           rest == Tail(d)
<1>1. /\ IsMux(m) /\ u \in Seq(Seq(Commands(n))) /\ d \in Seq(Replies(n)) /\ t \in Tables
      /\ m.connected
  BY DEF IsSound
<1>2. /\ r \in Replies(n) /\ rest \in Seq(Replies(n))
      /\ \A id : ~(r.re = "subtrees" /\ r.id = id) => Ahead(id, m2, t, rest, u) = Ahead(id, m, t, d, u)
      /\ \A id : r.re = "subtrees" /\ r.id = id =>
            Ahead(id, m, t, d, u).answers = <<r.path>> \o Ahead(id, m2, t, rest, u).answers
  <2>1. \A id : ComesNext(id, n, t, d, u, m, m2)
    BY <1>1, FirstAhead
  <2> QED
    BY <2>1 DEF ComesNext
<1> HIDE DEF r, rest
<1>3. r.re = "subtrees" => r.id # 0
  <2>1. n \in Nat
    BY <1>1, FieldsOfAMux
  <2>2. r.re = "subtrees" => r.id \in 1 .. n
    BY <1>2, ReplyFacts
  <2> HIDE DEF n
  <2> QED
    BY <2>1, <2>2
<1>4. Ahead(0, m2, t, rest, u) = Ahead(0, m, t, d, u)
  BY <1>2, <1>3
<1>5. ASSUME NEW s \in Subscribers
      PROVE  m2.requested[s] = Ahead(m.ids[s], m2, t, rest, u).answers
  <2>1. m.requested[s] = Ahead(m.ids[s], m, t, d, u).answers
    BY DEF IsSound
  <2>2. CASE r.re = "subtrees" /\ r.id = m.ids[s]
    <3> DEFINE w == Ahead(m.ids[s], m2, t, rest, u).answers
    <3>1. m.requested[s] = <<r.path>> \o w
      BY <1>2, <2>1, <2>2
    <3>2. m2.requested[s] = Tail(m.requested[s])
      BY <2>2 DEF Handles, r
    <3>3. w \in Seq(Patterns)
      <4>1. \A o : Traffic(m.ids[s], t, o, rest, u).answers \in Seq(Patterns)
        BY <1>1, <1>2, TrafficFacts
      <4> QED
        BY <4>1 DEF Ahead
    <3>4. r.path \in Patterns
      BY <1>2, <2>2, ReplyFacts
    <3> DEFINE e == r.path
    <3> HIDE DEF w, e
    <3>5. Tail(<<e>> \o w) = w
      BY <3>3, <3>4 DEF e
    <3> QED
      BY <3>1, <3>2, <3>5 DEF w, e
  <2>3. CASE ~(r.re = "subtrees" /\ r.id = m.ids[s])
    <3>1. m2.requested[s] = m.requested[s]
      BY <2>3 DEF Handles, r
    <3>2. Ahead(m.ids[s], m2, t, rest, u) = Ahead(m.ids[s], m, t, d, u)
      BY <1>2, <2>3
    <3> QED
      BY <2>1, <3>1, <3>2
  <2> QED
    BY <2>2, <2>3
<1>6. MovesOn(m, t, d, u, m2, t, rest, u)
  <2>1. /\ IsMux(m2) /\ m2.connected = m.connected /\ m2.counter = m.counter /\ m2.ids = m.ids
        /\ m2.infos = m.infos /\ m2.subscribed = m.subscribed
    BY DEF Handles
  <2> QED
    BY <1>1, <1>2, <1>4, <1>5, <2>1 DEF MovesOn
<1> QED
  BY <1>1, <1>6, StillSound DEF rest

\* Removing the first occurrence of the first element.
LEMMA RemovingTheHead ==
  ASSUME NEW S, NEW e \in S, NEW w \in Seq(S)
  PROVE  LET q == <<e>> \o w IN RemoveFirst(q, e) = Tail(q) /\ Tail(q) = w
<1> DEFINE q == <<e>> \o w
           I == {i \in 1 .. Len(q) : q[i] = e}
<1>1. q \in Seq(S) /\ Len(q) \in Nat /\ Len(q) >= 1 /\ q[1] = e /\ Tail(q) = w
  OBVIOUS
<1> HIDE DEF q
<1>2. 1 \in 1 .. Len(q) /\ 1 \in I
  BY <1>1
<1>3. \A i \in I : 1 <= i /\ i \in Nat
  OBVIOUS
<1> HIDE DEF I
<1>4. Min(I) = 1
  <2>1. 1 \in I /\ \A y \in I : 1 <= y
    BY <1>2, <1>3
  <2>2. ASSUME NEW x \in I, \A y \in I : x <= y PROVE x = 1
    BY <1>3, <2>1, <2>2
  <2> QED
    BY <2>1, <2>2 DEF Min
<1>5. SelectInSeq(q, LAMBDA v : v = e) = 1
  <2>1. SelectInSeq(q, LAMBDA v : v = e) = IF I # {} THEN Min(I) ELSE 0
    BY DEF SelectInSeq, I
  <2> QED
    BY <1>2, <1>4, <2>1
<1>6. RemoveFirst(q, e) = RemoveAt(q, 1)
  <2>1. \E i \in 1 .. Len(q) : q[i] = e
    BY <1>1, <1>2
  <2> QED
    BY <1>5, <2>1 DEF RemoveFirst
<1>7. RemoveAt(q, 1) = Tail(q)
  <2>1. RemoveAt(q, 1) = SubSeq(q, 1, 0) \o SubSeq(q, 2, Len(q))
    BY DEF RemoveAt
  <2>2. SubSeq(q, 1, 0) = <<>>
    BY SubSeqEmpty
  <2>3. Tail(q) = SubSeq(q, 2, Len(q))
    BY <1>1
  <2>4. Tail(q) \in Seq(S) /\ <<>> \o Tail(q) = Tail(q)
    BY <1>1
  <2> QED
    BY <2>1, <2>2, <2>3, <2>4
<1> QED
  BY <1>1, <1>6, <1>7 DEF q

\* A mux of which only what subscriptions and registrations do not touch is new.
IsHandled(m, alw, req, m2) ==
  /\ IsMux(m2) /\ m2.connected = m.connected /\ m2.counter = m.counter /\ m2.ids = m.ids
  /\ m2.infos = m.infos /\ m2.subscribed = m.subscribed
  /\ m2.allowed = alw /\ m2.requested = req

LEMMA HandledFacts ==
  ASSUME NEW m, IsMux(m), NEW rec \in [Subscribers -> SUBSET Nodes], NEW alw \in SUBSET Nat,
         NEW req \in [Subscribers -> Seq(Patterns)],
         NEW m2, m2 = Updated(m, m.counter, m.ids, m.infos, rec, alw, req)
  PROVE  IsHandled(m, alw, req, m2)
<1>1. AreFields(m.counter, m.ids, m.infos, rec, alw, req)
  <2>1. /\ m.counter \in Nat /\ m.ids \in [Subscribers -> Nat]
        /\ m.infos \in [Subscribers -> PartialFunctions(Patterns, Filters)]
    BY FieldsOfAMux
  <2> QED
    BY <2>1 DEF AreFields
<1> QED
  BY <1>1, UpdatedFacts DEF IsHandled

\* TreeNodeUpdated() and UpdateSubscriber().
LEMMA HandlingItems ==
  ASSUME NEW m, IsMux(m), NEW r, r.re = "items", NEW rec \in [Subscribers -> SUBSET Nodes],
         NEW m2, m2 = Updated(m, m.counter, m.ids, m.infos, rec, m.allowed, m.requested)
  PROVE  Handles(m, r, m2)
<1>1. m.allowed \in SUBSET Nat /\ m.requested \in [Subscribers -> Seq(Patterns)]
  BY FieldsOfAMux
<1>2. /\ IsMux(m2) /\ m2.connected = m.connected /\ m2.counter = m.counter /\ m2.ids = m.ids
      /\ m2.infos = m.infos /\ m2.subscribed = m.subscribed
      /\ m2.allowed = m.allowed /\ m2.requested = m.requested
  <2>1. IsHandled(m, m.allowed, m.requested, m2)
    BY <1>1, HandledFacts
  <2> QED
    BY <2>1 DEF IsHandled
<1> QED
  BY <1>2 DEF Handles

\* TreeLocalPeerPonged().
LEMMA HandlingPongs ==
  ASSUME NEW m, IsMux(m), NEW r, r.re = "obss", NEW alw \in SUBSET Nat, alw = {} <=> r.ids = {},
         NEW m2, m2 = Updated(m, m.counter, m.ids, m.infos, m.received, alw, m.requested)
  PROVE  Handles(m, r, m2)
<1>1. m.received \in [Subscribers -> SUBSET Nodes] /\ m.requested \in [Subscribers -> Seq(Patterns)]
  BY FieldsOfAMux
<1>2. /\ IsMux(m2) /\ m2.connected = m.connected /\ m2.counter = m.counter /\ m2.ids = m.ids
      /\ m2.infos = m.infos /\ m2.subscribed = m.subscribed
      /\ m2.allowed = alw /\ m2.requested = m.requested
  <2>1. IsHandled(m, alw, m.requested, m2)
    BY <1>1, HandledFacts
  <2> QED
    BY <2>1 DEF IsHandled
<1> QED
  BY <1>2 DEF Handles

\* SubtreesRequestResultReturned().
LEMMA HandlingResults ==
  ASSUME NEW m, NEW t, NEW d, NEW u, IsSound(m, t, d, u), d # <<>>,
         NEW r, r = Head(d), r.re = "subtrees",
         NEW req, req = [s \in Subscribers |->
                           IF s \in Holders(m, r.id) THEN RemoveFirst(m.requested[s], r.path)
                           ELSE m.requested[s]],
         NEW m2, m2 = Updated(m, m.counter, m.ids, m.infos, m.received, m.allowed, req)
  PROVE  Handles(m, r, m2)
<1> DEFINE n == m.counter
<1>1. /\ IsMux(m) /\ u \in Seq(Seq(Commands(n))) /\ d \in Seq(Replies(n))
      /\ \A s \in Subscribers : m.requested[s] = Ahead(m.ids[s], m, t, d, u).answers
  BY DEF IsSound
<1>2. /\ n \in Nat /\ m.received \in [Subscribers -> SUBSET Nodes] /\ m.allowed \in SUBSET Nat
      /\ m.requested \in [Subscribers -> Seq(Patterns)]
  BY <1>1, FieldsOfAMux
<1>3. r \in Replies(n) /\ Tail(d) \in Seq(Replies(n))
  BY <1>1, TakingApart
<1>4. r.id \in 1 .. n /\ r.path \in Patterns
  BY <1>3, ReplyFacts
<1>5. r.id # 0
  BY <1>2, <1>4
<1>6. ASSUME NEW s \in Subscribers PROVE s \in Holders(m, r.id) <=> r.id = m.ids[s]
  BY <1>5 DEF Holders
<1> DEFINE After(s) == IF s \in Holders(m, r.id) THEN RemoveFirst(m.requested[s], r.path) ELSE m.requested[s]
<1>7. ASSUME NEW s \in Subscribers, r.id = m.ids[s]
      PROVE  After(s) = Tail(m.requested[s]) /\ After(s) \in Seq(Patterns)
  <2> DEFINE o == m.allowed # {}
             p == OpenAfter(o, Head(d))
             rest == Tail(d)
             w == Traffic(r.id, t, p, rest, u).answers
             e == r.path
             q == <<e>> \o w
  <2>1. TakesFirst(r.id, n, t, o, p, d, u)
    <3> HIDE DEF o, n
    <3> QED
      BY <1>1, HandlingTheFirst DEF n
  <2>2. m.requested[s] = Traffic(r.id, t, o, d, u).answers
    BY <1>1, <1>7 DEF Ahead
  <2>3. m.requested[s] = q
    <3> HIDE DEF o, p
    <3> QED
      BY <2>1, <2>2 DEF TakesFirst
  <2>4. w \in Seq(Patterns)
    <3> HIDE DEF p, rest
    <3> QED
      BY <1>1, <1>3, TrafficFacts DEF rest
  <2>5. e \in Patterns
    BY <1>4
  <2> HIDE DEF w, e
  <2>6. RemoveFirst(q, e) = Tail(q) /\ Tail(q) = w
    BY <2>4, <2>5, RemovingTheHead
  <2> HIDE DEF q
  <2>7. After(s) = RemoveFirst(q, e)
    BY <1>6, <1>7, <2>3 DEF e
  <2> QED
    BY <2>3, <2>4, <2>6, <2>7
<1>8. ASSUME NEW s \in Subscribers, r.id # m.ids[s]
      PROVE  After(s) = m.requested[s] /\ After(s) \in Seq(Patterns)
  BY <1>2, <1>6, <1>8
<1>9. req = [s \in Subscribers |-> After(s)]
  OBVIOUS
<1> HIDE DEF After
<1>10. req \in [Subscribers -> Seq(Patterns)]
  BY <1>7, <1>8, <1>9
<1>11. \A s \in Subscribers : req[s] = After(s)
  BY <1>9
<1>12. /\ IsMux(m2) /\ m2.connected = m.connected /\ m2.counter = m.counter /\ m2.ids = m.ids
       /\ m2.infos = m.infos /\ m2.subscribed = m.subscribed
       /\ m2.allowed = m.allowed /\ m2.requested = req
  <2>1. IsHandled(m, m.allowed, req, m2)
    BY <1>1, <1>2, <1>10, HandledFacts
  <2> QED
    BY <2>1 DEF IsHandled
<1> QED
  BY <1>7, <1>8, <1>11, <1>12 DEF Handles

\* A reply that is for nobody, or changes nothing the mux keeps.
LEMMA HandlingMessages ==
  ASSUME NEW m, IsMux(m), NEW r, r.re = "fromsubscriber"
  PROVE  Handles(m, r, m)
BY DEF Handles

\* The commands of a new connection are all there is.
Opening(cmds) == IF cmds = <<>> THEN <<>> ELSE <<cmds>>

LEMMA OpeningTraffic ==
  ASSUME NEW id, NEW t, NEW o, NEW n, NEW cmds \in Seq(Commands(n))
  PROVE  /\ Opening(cmds) \in Seq(Seq(Commands(n)))
         /\ Traffic(id, t, o, <<>>, Opening(cmds)) = PacketDone(id, Outcome(t, o, <<>>), cmds)
<1> DEFINE x == Outcome(t, o, <<>>)
<1>1. \A v : Traffic(id, t, o, <<>>, v) = PacketsDone(id, x, v)
  BY ReplyingNothing DEF Traffic
<1> HIDE DEF x
<1>2. CASE cmds = <<>>
  <2>1. Opening(cmds) = <<>>
    BY <1>2 DEF Opening
  <2>2. PacketsDone(id, x, <<>>) = x /\ PacketDone(id, x, <<>>) = x
    BY SendingNothing, CommandingNothing
  <2>3. Opening(cmds) \in Seq(Seq(Commands(n)))
    BY <2>1
  <2>4. Traffic(id, t, o, <<>>, Opening(cmds)) = PacketDone(id, x, cmds)
    BY <1>1, <1>2, <2>1, <2>2
  <2> QED
    BY <2>3, <2>4 DEF x
<1>3. CASE cmds # <<>>
  <2>1. Opening(cmds) = <<cmds>>
    BY <1>3 DEF Opening
  <2>2. PacketsDone(id, x, <<cmds>>) = PacketDone(id, x, cmds)
    BY OnePacket
  <2> QED
    BY <1>1, <2>1, <2>2 DEF x
<1> QED
  BY <1>2, <1>3

\* A mux whose connection comes or goes.
Online(m, con, req) ==
  [connected |-> con, counter |-> m.counter, ids |-> m.ids, infos |-> m.infos,
   received |-> m.received, subscribed |-> m.subscribed, allowed |-> m.allowed, requested |-> req]

IsOnline(m, con, req, m2) ==
  /\ IsMux(m2) /\ (m2.connected <=> con) /\ m2.counter = m.counter /\ m2.ids = m.ids
  /\ m2.infos = m.infos /\ m2.subscribed = m.subscribed
  /\ m2.allowed = m.allowed /\ m2.requested = req

LEMMA OnlineFacts ==
  ASSUME NEW m, IsMux(m), NEW con \in BOOLEAN, NEW req \in [Subscribers -> Seq(Patterns)],
         NEW m2, m2 = Online(m, con, req)
  PROVE  IsOnline(m, con, req, m2)
<1>1. /\ m2.connected = con /\ m2.counter = m.counter /\ m2.ids = m.ids /\ m2.infos = m.infos
      /\ m2.received = m.received /\ m2.subscribed = m.subscribed
      /\ m2.allowed = m.allowed /\ m2.requested = req
  BY DEF Online
<1>2. m2 = [connected |-> m2.connected, counter |-> m2.counter, ids |-> m2.ids,
            infos |-> m2.infos, received |-> m2.received, subscribed |-> m2.subscribed,
            allowed |-> m2.allowed, requested |-> m2.requested]
  BY <1>1 DEF Online
<1>3. IsMux(m2)
  BY <1>1, <1>2 DEF IsMux
<1> QED
  BY <1>1, <1>3 DEF IsOnline

\* TreeGatewayConnectionStateChanged(), connected.
LEMMA SoundConnection ==
  ASSUME NEW m, NEW t, NEW d, NEW u, IsSound(m, t, d, u), ~m.connected,
         NEW m2, IsOnline(m, TRUE, m.requested, m2)
  PROVE  IsSound(m2, NoFunction, <<>>, Opening(Resubscribe(m)))
<1> DEFINE cmds == Resubscribe(m)
           u2 == Opening(cmds)
           n == m.counter
<1>1. /\ IsMux(m) /\ SubscriptionsAreShared(m)
      /\ \A s \in Subscribers : m.ids[s] <= n
      /\ \A j, k \in Subscribers : m.ids[j] = m.ids[k] /\ m.ids[j] # 0 => j = k
      /\ u = <<>> /\ d = <<>>
  BY DEF IsSound
<1>3. /\ IsMux(m2) /\ m2.connected /\ m2.counter = n /\ m2.ids = m.ids
      /\ m2.infos = m.infos /\ m2.subscribed = m.subscribed
      /\ m2.allowed = m.allowed /\ m2.requested = m.requested
  BY DEF IsOnline
<1>4. SubscriptionsAreShared(m2)
  BY <1>1, <1>3, SharedStays
<1>5. /\ \A k : cmds \in Seq(Commands(k))
      /\ \A id, o : LET y == PacketDone(id, Outcome(NoFunction, o, <<>>), cmds)
                    IN  /\ y.tab = Wanted(m)
                        /\ y.answers = <<>>
                        /\ y.open => \A s \in Subscribers : m.infos[s] = NoFunction
  BY <1>1, ResubscribeFacts
<1> HIDE DEF cmds
<1>6. /\ u2 \in Seq(Seq(Commands(n)))
      /\ \A id, o : Traffic(id, NoFunction, o, <<>>, u2) = PacketDone(id, Outcome(NoFunction, o, <<>>), cmds)
  <2>1. cmds \in Seq(Commands(n))
    BY <1>5
  <2> QED
    BY <2>1, OpeningTraffic
<1> HIDE DEF u2
<1>7. ASSUME NEW id
      PROVE  /\ Ahead(id, m2, NoFunction, <<>>, u2).tab = Wanted(m)
             /\ Ahead(id, m2, NoFunction, <<>>, u2).answers = <<>>
             /\ Ahead(id, m2, NoFunction, <<>>, u2).open => Unsubscribed(m)
  <2> DEFINE o == m2.allowed # {}
             y == PacketDone(id, Outcome(NoFunction, o, <<>>), cmds)
  <2>1. Ahead(id, m2, NoFunction, <<>>, u2) = Traffic(id, NoFunction, o, <<>>, u2)
    BY DEF Ahead
  <2> HIDE DEF o
  <2>2. Ahead(id, m2, NoFunction, <<>>, u2) = y
    BY <1>6, <2>1
  <2>3. y.tab = Wanted(m) /\ y.answers = <<>> /\ (y.open => Unsubscribed(m))
    BY <1>5 DEF Unsubscribed
  <2> HIDE DEF y
  <2> QED
    BY <2>2, <2>3
<1>8. \A s \in Subscribers : m.requested[s] = <<>>
  <2>1. \A s \in Subscribers : m.requested[s] = Ahead(m.ids[s], m, t, <<>>, <<>>).answers
    BY <1>1 DEF IsSound
  <2> QED
    BY <2>1, NothingAhead
<1>9. Wanted(m2) = Wanted(m) /\ (Unsubscribed(m) => Unsubscribed(m2))
  BY <1>3 DEF Wanted, Unsubscribed
<1>10. NoFunction \in Tables
  BY NoFunctionFacts, PartialFunctionFacts DEF Tables
<1>11. IsSound(m2, NoFunction, <<>>, u2)
  <2> DEFINE e == <<>>
             f == NoFunction
  <2>1. e \in Seq(Replies(n))
    OBVIOUS
  <2>2. /\ Ahead(0, m2, f, e, u2).tab = Wanted(m2)
        /\ Ahead(0, m2, f, e, u2).open => Unsubscribed(m2)
        /\ \A s \in Subscribers : m2.requested[s] = Ahead(m2.ids[s], m2, f, e, u2).answers
    BY <1>3, <1>7, <1>8, <1>9
  <2>3. f \in Tables
    BY <1>10
  <2> HIDE DEF e, f
  <2>4. IsSound(m2, f, e, u2)
    BY <1>1, <1>3, <1>4, <1>6, <2>1, <2>2, <2>3 DEF IsSound
  <2> QED
    BY <2>4 DEF e, f
<1> QED
  BY <1>11 DEF u2, cmds

\* TreeGatewayConnectionStateChanged(), disconnected.
LEMMA SoundDisconnection ==
  ASSUME NEW m, NEW t, NEW d, NEW u, IsSound(m, t, d, u),
         NEW req, \A s \in Subscribers : req[s] = <<>>, NEW m2, IsOnline(m, FALSE, req, m2)
  PROVE  IsSound(m2, NoFunction, <<>>, <<>>)
<1> DEFINE n == m.counter
<1>1. /\ IsMux(m) /\ SubscriptionsAreShared(m)
      /\ \A s \in Subscribers : m.ids[s] <= n
      /\ \A j, k \in Subscribers : m.ids[j] = m.ids[k] /\ m.ids[j] # 0 => j = k
  BY DEF IsSound
<1>4. /\ IsMux(m2) /\ ~m2.connected /\ m2.counter = n /\ m2.ids = m.ids
      /\ m2.infos = m.infos /\ m2.subscribed = m.subscribed /\ m2.requested = req
  BY DEF IsOnline
<1>5. SubscriptionsAreShared(m2)
  BY <1>1, <1>4, SharedStays
<1>6. NoFunction \in Tables
  BY NoFunctionFacts, PartialFunctionFacts DEF Tables
<1>7. \A s \in Subscribers : m2.requested[s] = Ahead(m2.ids[s], m2, NoFunction, <<>>, <<>>).answers
  BY <1>4, NothingAhead
<1> DEFINE e == <<>>
           f == NoFunction
<1>8. e \in Seq(Replies(n)) /\ e \in Seq(Seq(Commands(n))) /\ f \in Tables
  BY <1>6
<1>9. (\A s \in Subscribers : m2.requested[s] = Ahead(m2.ids[s], m2, f, e, e).answers) /\ e = <<>>
  BY <1>7
<1> HIDE DEF e, f
<1>10. IsSound(m2, f, e, e)
  BY <1>1, <1>4, <1>5, <1>8, <1>9 DEF IsSound
<1> QED
  BY <1>10 DEF e, f

\* The start.
LEMMA SoundStart == IsSound(MuxInit, NoFunction, <<>>, <<>>)
<1> DEFINE m == MuxInit
           e == <<>>
           f == NoFunction
<1>1. /\ ~m.connected /\ m.counter = 0 /\ m.ids = [s \in Subscribers |-> 0]
      /\ m.infos = [s \in Subscribers |-> NoFunction] /\ m.received = [s \in Subscribers |-> {}]
      /\ m.subscribed = NoFunction /\ m.allowed = {} /\ m.requested = [s \in Subscribers |-> <<>>]
      /\ m.connected \in BOOLEAN
  BY DEF MuxInit
<1>2. m = [connected |-> m.connected, counter |-> m.counter, ids |-> m.ids,
            infos |-> m.infos, received |-> m.received, subscribed |-> m.subscribed,
            allowed |-> m.allowed, requested |-> m.requested]
  BY DEF MuxInit
<1>3. /\ IsPartialFunction(NoFunction, Patterns, Seq(SubscriptionInfo))
      /\ NoFunction \in PartialFunctions(Patterns, Filters)
      /\ f \in Tables /\ DOMAIN NoFunction = {} /\ IsFiniteSet({})
  BY NoFunctionFacts, PartialFunctionFacts, FS_EmptySet DEF Tables
<1> HIDE DEF m
<1>4. /\ m.infos \in [Subscribers -> PartialFunctions(Patterns, Filters)]
      /\ \A s \in Subscribers : m.infos[s] = NoFunction
  <2> HIDE DEF NoFunction
  <2> QED
    BY <1>1, <1>3
<1>5. IsMux(m)
  <2>1. /\ m.ids \in [Subscribers -> Nat] /\ m.received \in [Subscribers -> SUBSET Nodes]
        /\ m.requested \in [Subscribers -> Seq(Patterns)] /\ m.counter \in Nat /\ m.allowed \in SUBSET Nat
    BY <1>1
  <2> QED
    BY <1>1, <1>2, <1>3, <1>4, <2>1 DEF IsMux
<1>6. SubscriptionsAreShared(m)
  BY <1>1, <1>3, <1>4 DEF SubscriptionsAreShared
<1>7. \A s \in Subscribers : m.requested[s] = Ahead(m.ids[s], m, f, e, e).answers
  BY <1>1, NothingAhead
<1>8. /\ \A s \in Subscribers : m.ids[s] <= m.counter
      /\ \A j, k \in Subscribers : m.ids[j] = m.ids[k] /\ m.ids[j] # 0 => j = k
  BY <1>1
<1>9. e \in Seq(Replies(m.counter)) /\ e \in Seq(Seq(Commands(m.counter))) /\ e = <<>>
  OBVIOUS
<1> HIDE DEF e, f
<1>10. IsSound(m, f, e, e)
  BY <1>1, <1>3, <1>5, <1>6, <1>7, <1>8, <1>9 DEF IsSound
<1> QED
  BY <1>10 DEF m, e, f

-----------------------------------------------------------------------------
\* The invariant of the specification.

\* What the invariant says of the other variables.
OthersOK(v, tr, w, n) ==
  /\ v \in [Subscribers -> [Nodes -> Payloads]]
  /\ w \subseteq Subscribers \X Nodes
  /\ tr \in Trees
  /\ n \subseteq Nat

LEMMA ForeseenIsAhead ==
  /\ \A id : Foreseen(id) = Ahead(id, mux, table, down, up)
  /\ \A id : Foreseen(id)' = Ahead(id, mux', table', down', up')
BY DEF Foreseen, Ahead, Traffic, Outcome

LEMMA InvariantIsSoundness ==
  GatewayInvariant <=> IsSound(mux, table, down, up) /\ OthersOK(view, tree, withheld, {commands, writes, connects})
<1>1. \A id : Foreseen(id) = Ahead(id, mux, table, down, up)
  BY ForeseenIsAhead
<1> HIDE DEF Foreseen
<1> QED
  BY <1>1 DEF GatewayInvariant, TypeOK, IDsAreUnique, NoTrafficOffLine, UpstreamMatchesDownstream,
              BracketsAreClosed, RequestsAreUnderWay, IsSound, OthersOK, Tables, Trees, Unsubscribed

LEMMA NextInvariantIsSoundness ==
  GatewayInvariant' <=> IsSound(mux', table', down', up') /\ OthersOK(view', tree', withheld', {commands', writes', connects'})
<1>1. \A id : Foreseen(id)' = Ahead(id, mux', table', down', up')
  BY ForeseenIsAhead
<1> QED
  BY <1>1 DEF GatewayInvariant, TypeOK, IDsAreUnique, NoTrafficOffLine, UpstreamMatchesDownstream,
              BracketsAreClosed, RequestsAreUnderWay, IsSound, OthersOK, Tables, Trees, Unsubscribed

\* TreeGateway_RemoveAllSubscriptions().
LEMMA RemovingAllIsAChange ==
  ASSUME NEW m, IsMux(m), SubscriptionsAreShared(m), NEW s \in Subscribers,
         NEW acc, acc = RemovedAll(m, s)
  PROVE  IsChange(m, acc.mux, acc.cmds)
<1> DEFINE D == DOMAIN m.infos[s]
           q == SetToSeq(D)
<1>1. IsFiniteSet(D)
  BY DEF SubscriptionsAreShared
<1>2. D \subseteq Patterns
  BY MuxFacts DEF IsPartialFunction
<1> HIDE DEF D
<1>3. q \in Seq(D)
  BY <1>1, SetToSeqFacts
<1> HIDE DEF q
<1>4. q \in Seq(Patterns)
  BY <1>2, <1>3
<1>5. acc = RemovedInTurn(m, s, q)
  BY DEF RemovedAll, q, D
<1> QED
  BY <1>4, <1>5, RemovingInTurnIsAChange

\* The actions, one by one.

LEMMA RegisterStep ==
  ASSUME IsSound(mux, table, down, up), NEW s \in Subscribers, RegisterSubscriber(s)
  PROVE  IsSound(mux', table', down', up')
<1>1. ~Registered(mux, s) /\ mux' = NewRegistration(mux, s) /\ table' = table /\ down' = down /\ up' = up
  BY DEF RegisterSubscriber
<1>2. IsSound(mux', table, down, up)
  BY <1>1, SoundRegistration
<1> QED
  BY <1>1, <1>2

LEMMA UnregisterStep ==
  ASSUME IsSound(mux, table, down, up), NEW s \in Subscribers, UnregisterSubscriber(s)
  PROVE  IsSound(mux', table', down', up')
<1> DEFINE acc == RemovedAll(mux, s)
           m2 == acc.mux
<1>1. IsMux(mux) /\ SubscriptionsAreShared(mux)
  BY DEF IsSound
<1>2. IsChange(mux, m2, acc.cmds)
  BY <1>1, RemovingAllIsAChange
<1>3. m2.ids = mux.ids
  BY <1>2 DEF IsChange
<1>4. PICK b : up' = Send(mux, up, acc.cmds, b) /\ table' = table /\ down' = down
  BY DEF UnregisterSubscriber
<1>5. mux' = Unregistered(m2, s)
  <2>1. mux' = [EndRegistration(m2, s) EXCEPT
                    !.infos[s]     = NoFunction,
                    !.received[s]  = {},
                    !.requested[s] = <<>>,
                    !.allowed      = IF mux.ids[s] \in @ THEN (@ \ {mux.ids[s]}) \union {0} ELSE @]
    BY DEF UnregisterSubscriber
  <2> HIDE DEF m2, acc
  <2> QED
    BY <1>3, <2>1 DEF Unregistered
<1> HIDE DEF acc, m2
<1>6. IsSound(m2, table, down, up')
  BY <1>2, <1>4, SoundChange
<1>7. IsSound(mux', table, down, up')
  BY <1>5, <1>6, SoundUnregistration
<1> QED
  BY <1>4, <1>7

LEMMA AddStep ==
  ASSUME IsSound(mux, table, down, up), NEW s \in Subscribers, NEW p \in Patterns, NEW f \in Filters,
         NEW quiet \in QuietFlags, AddSubscription(s, p, f, quiet)
  PROVE  IsSound(mux', table', down', up')
<1> DEFINE cmds == UpdateSubscription(mux', p, {mux.ids[s]}, quiet)
<1>1. IsMux(mux) /\ SubscriptionsAreShared(mux)
  BY DEF IsSound
<1>2. PICK b :
        /\ mux' = AddedSubscription(mux, s, p, f, quiet)
        /\ up' = Send(mux, up, cmds, b) /\ table' = table /\ down' = down
  BY DEF AddSubscription
<1>3. quiet \in BOOLEAN
  BY MuxAssumption
<1>4. IsChange(mux, mux', cmds)
  BY <1>1, <1>2, <1>3, AddingIsAChange
<1> HIDE DEF cmds
<1>5. IsSound(mux', table, down, up')
  BY <1>2, <1>4, SoundChange
<1> QED
  BY <1>2, <1>5

LEMMA RemoveOneStep ==
  ASSUME IsSound(mux, table, down, up), NEW s \in Subscribers, NEW p \in Patterns, NEW f \in Filters,
         NEW quiet \in QuietFlags, RemoveSubscription(s, p, f, quiet)
  PROVE  IsSound(mux', table', down', up')
<1> DEFINE cmds == UpdateSubscription(mux', p, {mux.ids[s]}, FALSE)
<1>1. IsMux(mux) /\ SubscriptionsAreShared(mux)
  BY DEF IsSound
<1>2. PICK b :
        /\ RemoveIndexes(mux, s, p, f, quiet) # {}
        /\ mux' = RemovedSubscription(mux, s, p, f, quiet)
        /\ up' = Send(mux, up, cmds, b) /\ table' = table /\ down' = down
  BY DEF RemoveSubscription
<1>3. FALSE \in BOOLEAN
  OBVIOUS
<1>4. IsChange(mux, mux', cmds)
  BY <1>1, <1>2, <1>3, RemovingIsAChange
<1> HIDE DEF cmds
<1>5. IsSound(mux', table, down, up')
  BY <1>2, <1>4, SoundChange
<1> QED
  BY <1>2, <1>5

LEMMA RemoveAllStep ==
  ASSUME IsSound(mux, table, down, up), NEW s \in Subscribers, RemoveAllSubscriptions(s)
  PROVE  IsSound(mux', table', down', up')
<1> DEFINE acc == RemovedAll(mux, s)
<1>1. IsMux(mux) /\ SubscriptionsAreShared(mux)
  BY DEF IsSound
<1>2. PICK b : mux' = acc.mux /\ up' = Send(mux, up, acc.cmds, b) /\ table' = table /\ down' = down
  BY DEF RemoveAllSubscriptions
<1>3. IsChange(mux, acc.mux, acc.cmds)
  BY <1>1, RemovingAllIsAChange
<1> HIDE DEF acc
<1>4. IsSound(acc.mux, table, down, up')
  BY <1>2, <1>3, SoundChange
<1> QED
  BY <1>2, <1>4

LEMMA RequestStep ==
  ASSUME IsSound(mux, table, down, up), NEW s \in Subscribers, NEW p \in Patterns,
         NEW values \in BOOLEAN, RequestNodeSubtreesAux(s, p, values)
  PROVE  IsSound(mux', table', down', up')
<1>1. PICK b :
        /\ Registered(mux, s) /\ mux.connected /\ mux' = Requesting(mux, s, p)
        /\ up' = Send(mux, up, <<SubtreesCommand(mux.ids[s], p, values)>>, b)
        /\ table' = table /\ down' = down
  BY DEF RequestNodeSubtreesAux, Requesting
<1>2. IsSound(mux', table, down, up')
  BY <1>1, SoundRequest
<1> QED
  BY <1>1, <1>2

\* What UploadNodeValue(), RequestDeleteNodes() and SendMessageToSubscriber()
\* have in common.
LEMMA TreeCommandStep ==
  ASSUME IsSound(mux, table, down, up), NEW c \in Commands(mux.counter),
         c.cmd \in {"upload", "tosubscriber"}, NEW b, up' = Send(mux, up, <<c>>, b),
         UNCHANGED <<mux, table, down>>
  PROVE  IsSound(mux', table', down', up')
<1>1. IsSound(mux, table, down, up')
  BY SoundCommand
<1> QED
  BY <1>1

LEMMA UploadStep ==
  ASSUME IsSound(mux, table, down, up), NEW s \in Subscribers, NEW n \in Nodes, NEW v \in Values,
         NEW quiet \in QuietFlags, UploadNodeValue(s, n, v, quiet)
  PROVE  IsSound(mux', table', down', up')
<1> DEFINE c == UploadCommand(n, v, TagToExclude(s, quiet))
<1>1. mux.ids[s] \in Nat
  BY MuxFacts DEF IsSound
<1>2. TagToExclude(s, quiet) \in Nat
  BY <1>1 DEF TagToExclude
<1>3. c \in Commands(mux.counter) /\ c.cmd = "upload"
  BY <1>2 DEF UploadCommand, Commands, Payloads
<1>4. PICK b : up' = Send(mux, up, <<c>>, b) /\ UNCHANGED <<mux, table, down>>
  BY DEF UploadNodeValue
<1> HIDE DEF c
<1> QED
  BY <1>3, <1>4, TreeCommandStep

LEMMA DeleteStep ==
  ASSUME IsSound(mux, table, down, up), NEW s \in Subscribers, NEW n \in Nodes, RequestDeleteNodes(s, n)
  PROVE  IsSound(mux', table', down', up')
<1> DEFINE c == DeleteCommand(n, 0)
<1>1. c \in Commands(mux.counter) /\ c.cmd = "upload"
  BY DEF DeleteCommand, Commands, Payloads
<1>2. PICK b : up' = Send(mux, up, <<c>>, b) /\ UNCHANGED <<mux, table, down>>
  BY DEF RequestDeleteNodes
<1> HIDE DEF c
<1> QED
  BY <1>1, <1>2, TreeCommandStep

LEMMA MessageStep ==
  ASSUME IsSound(mux, table, down, up), NEW s \in Subscribers, NEW n \in Nodes, SendMessageToSubscriber(s, n)
  PROVE  IsSound(mux', table', down', up')
<1> DEFINE c == MessageCommand(n, mux.ids[s])
<1>1. mux.ids[s] \in Nat
  BY MuxFacts DEF IsSound
<1>2. c \in Commands(mux.counter) /\ c.cmd = "tosubscriber"
  BY <1>1 DEF MessageCommand, Commands
<1>3. PICK b : up' = Send(mux, up, <<c>>, b) /\ UNCHANGED <<mux, table, down>>
  BY DEF SendMessageToSubscriber
<1> HIDE DEF c
<1> QED
  BY <1>2, <1>3, TreeCommandStep

LEMMA ServeStep ==
  ASSUME IsSound(mux, table, down, up), tree \in Trees, ServePacket
  PROVE  IsSound(mux', table', down', up') /\ tree' \in Trees
<1> DEFINE acc == Served([tab |-> table, tree |-> tree, out |-> down], Head(up))
<1>1. /\ up # <<>> /\ table' = acc.tab /\ tree' = acc.tree /\ down' = acc.out
      /\ up' = Tail(up) /\ mux' = mux
  BY DEF ServePacket
<1>2. acc.tree \in Trees /\ IsSound(mux, acc.tab, acc.out, Tail(up))
  BY <1>1, SoundServing
<1> HIDE DEF acc
<1> QED
  BY <1>1, <1>2

LEMMA WriteStep ==
  ASSUME IsSound(mux, table, down, up), tree \in Trees,
         NEW n \in Nodes, NEW v \in Values \union {NoValue}, OtherWrite(n, v)
  PROVE  IsSound(mux', table', down', up') /\ tree' \in Trees
<1>1. /\ tree' = [tree EXCEPT ![n] = v] /\ mux' = mux /\ up' = up /\ table' = table
      /\ mux.connected => down' = down \o Notification(table, n, tree[n], v, 0)
      /\ ~mux.connected => down' = down
  BY DEF OtherWrite
<1>2. v \in Payloads
  BY DEF Payloads
<1>3. tree' \in Trees
  BY <1>1, <1>2 DEF Trees
<1>4. CASE mux.connected
  <2>1. IsSound(mux, table, down \o Notification(table, n, tree[n], v, 0), up)
    BY <1>2, <1>4, SoundWrite
  <2> QED
    BY <1>1, <1>3, <1>4, <2>1
<1>5. CASE ~mux.connected
  BY <1>1, <1>3, <1>5
<1> QED
  BY <1>4, <1>5

LEMMA ReplyStep ==
  ASSUME IsSound(mux, table, down, up), view \in [Subscribers -> [Nodes -> Payloads]], HandleReply
  PROVE  IsSound(mux', table', down', up') /\ view' \in [Subscribers -> [Nodes -> Payloads]]
<1> DEFINE r == Head(down)
           n == mux.counter
           rest == Tail(down)
<1>1. /\ down # <<>> /\ down' = rest /\ up' = up /\ table' = table
      /\ \/ r.re = "items" /\ HandleItems(r)
         \/ r.re = "obss" /\ HandleObss(r)
         \/ r.re = "subtrees" /\ HandleSubtrees(r)
         \/ r.re = "fromsubscriber" /\ (HandleMessage(r) \/ IgnoreMessage(r))
  BY DEF HandleReply
<1>2. IsMux(mux) /\ down \in Seq(Replies(n))
  BY DEF IsSound
<1>3. mux = [connected |-> mux.connected, counter |-> mux.counter, ids |-> mux.ids,
             infos |-> mux.infos, received |-> mux.received, subscribed |-> mux.subscribed,
             allowed |-> mux.allowed, requested |-> mux.requested]
  BY <1>2, FieldsOfAMux
<1>4. mux.ids \in [Subscribers -> Nat] /\ mux.received \in [Subscribers -> SUBSET Nodes]
  BY <1>2, FieldsOfAMux
<1>5. r \in Replies(n)
  BY <1>1, <1>2, TakingApart
<1> HIDE DEF r, rest, n
<1>6. SUFFICES ASSUME TRUE
               PROVE  Handles(mux, r, mux') /\ view' \in [Subscribers -> [Nodes -> Payloads]]
  <2>1. ASSUME Handles(mux, r, mux') PROVE IsSound(mux', table, rest, up)
    BY <1>1, <2>1, SoundHandling DEF r, rest
  <2> QED
    BY <1>1, <2>1
<1>7. CASE r.re = "items" /\ HandleItems(r)
  <2> DEFINE told(s) == IF s \in Audience(mux, r.skip) THEN DOMAIN r.items ELSE {}
             hit(s)  == {k \in told(s) : DoesPathMatch(mux, s, k, r.items[k])}
             lost(s) == (told(s) \ hit(s)) \intersect mux.received[s]
             rec == [s \in Subscribers |-> (mux.received[s] \union hit(s)) \ lost(s)]
  <2>1. /\ mux' = [mux EXCEPT !.received = rec]
        /\ view' = [s \in Subscribers |-> [k \in Nodes |->
                       IF k \in hit(s) THEN r.items[k]
                       ELSE IF k \in lost(s) THEN NoValue ELSE view[s][k]]]
    BY <1>7 DEF HandleItems
  <2>2. r.items \in PartialFunctions(Nodes, Payloads)
    BY <1>5, <1>7, ReplyFacts
  <2>3. DOMAIN r.items \subseteq Nodes /\ \A k \in DOMAIN r.items : r.items[k] \in Payloads
    BY <2>2, PartialFunctionFacts DEF IsPartialFunction
  <2>4. \A s \in Subscribers : told(s) \subseteq DOMAIN r.items
    OBVIOUS
  <2> HIDE DEF told
  <2>5. \A s \in Subscribers : hit(s) \subseteq DOMAIN r.items
    BY <2>4
  <2> HIDE DEF hit
  <2>6. rec \in [Subscribers -> SUBSET Nodes]
    BY <1>4, <2>3, <2>5
  <2>7. mux' = Updated(mux, mux.counter, mux.ids, mux.infos, rec, mux.allowed, mux.requested)
    <3> HIDE DEF rec
    <3> QED
      BY <1>3, <2>1 DEF Updated
  <2>8. view' \in [Subscribers -> [Nodes -> Payloads]]
    <3> HIDE DEF lost
    <3>1. NoValue \in Payloads
      BY DEF Payloads
    <3> DEFINE V(s, k) == IF k \in hit(s) THEN r.items[k]
                          ELSE IF k \in lost(s) THEN NoValue ELSE view[s][k]
    <3>2. \A s \in Subscribers : \A k \in Nodes : V(s, k) \in Payloads
      BY <2>3, <2>5, <3>1
    <3>3. view' = [s \in Subscribers |-> [k \in Nodes |-> V(s, k)]]
      BY <2>1
    <3> HIDE DEF V
    <3> QED
      BY <3>2, <3>3
  <2> HIDE DEF rec
  <2>9. Handles(mux, r, mux')
    BY <1>2, <1>7, <2>6, <2>7, HandlingItems
  <2> QED
    BY <2>8, <2>9
<1>8. CASE r.re = "obss" /\ HandleObss(r)
  <2> DEFINE alw == {IF Holders(mux, id) = {} THEN 0 ELSE id : id \in r.ids}
  <2>1. mux' = [mux EXCEPT !.allowed = alw] /\ view' = view
    BY <1>8 DEF HandleObss
  <2>2. r.ids \in SUBSET Nat
    BY <1>5, <1>8, ReplyFacts
  <2>3. alw \in SUBSET Nat /\ (alw = {} <=> r.ids = {})
    <3> DEFINE ids == r.ids
               F(id) == IF Holders(mux, id) = {} THEN 0 ELSE id
    <3>1. \A id \in ids : F(id) \in Nat
      BY <2>2
    <3>2. alw = {F(id) : id \in ids}
      OBVIOUS
    <3> HIDE DEF F, alw, ids
    <3>3. alw \subseteq Nat /\ (alw = {} <=> ids = {})
      BY <3>1, <3>2
    <3> QED
      BY <3>3 DEF ids
  <2> HIDE DEF alw
  <2>4. mux' = Updated(mux, mux.counter, mux.ids, mux.infos, mux.received, alw, mux.requested)
    BY <1>3, <2>1 DEF Updated
  <2>5. Handles(mux, r, mux')
    BY <1>2, <1>8, <2>3, <2>4, HandlingPongs
  <2> QED
    BY <2>1, <2>5
<1>9. CASE r.re = "subtrees" /\ HandleSubtrees(r)
  <2> DEFINE req == [s \in Subscribers |->
                       IF s \in Holders(mux, r.id) THEN RemoveFirst(mux.requested[s], r.path)
                       ELSE mux.requested[s]]
  <2>1. mux' = [mux EXCEPT !.requested = req] /\ view' = view
    BY <1>9 DEF HandleSubtrees
  <2>2. req = [s \in Subscribers |->
                  IF s \in Holders(mux, r.id) THEN RemoveFirst(mux.requested[s], r.path)
                  ELSE mux.requested[s]]
    OBVIOUS
  <2> HIDE DEF req
  <2>3. mux' = Updated(mux, mux.counter, mux.ids, mux.infos, mux.received, mux.allowed, req)
    BY <1>3, <2>1 DEF Updated
  <2>4. Handles(mux, r, mux')
    BY <1>1, <1>9, <2>2, <2>3, HandlingResults DEF r
  <2> QED
    BY <2>1, <2>4
<1>10. CASE r.re = "fromsubscriber" /\ (HandleMessage(r) \/ IgnoreMessage(r))
  <2>1. mux' = mux /\ view' = view
    BY <1>10 DEF HandleMessage, IgnoreMessage
  <2>2. Handles(mux, r, mux)
    BY <1>2, <1>10, HandlingMessages
  <2> QED
    BY <2>1, <2>2
<1> QED
  BY <1>1, <1>7, <1>8, <1>9, <1>10

LEMMA ConnectedStep ==
  ASSUME IsSound(mux, table, down, up), Connected
  PROVE  IsSound(mux', table', down', up')
<1>1. /\ ~mux.connected /\ mux' = [mux EXCEPT !.connected = TRUE] /\ down' = <<>>
      /\ table' = NoFunction /\ up' = Opening(Resubscribe(mux))
  BY DEF Connected, Opening
<1>2. IsMux(mux)
  BY DEF IsSound
<1>3. mux = [connected |-> mux.connected, counter |-> mux.counter, ids |-> mux.ids,
             infos |-> mux.infos, received |-> mux.received, subscribed |-> mux.subscribed,
             allowed |-> mux.allowed, requested |-> mux.requested]
  BY <1>2, FieldsOfAMux
<1>4. mux' = Online(mux, TRUE, mux.requested)
  BY <1>1, <1>3 DEF Online
<1>5. mux.requested \in [Subscribers -> Seq(Patterns)] /\ TRUE \in BOOLEAN
  BY <1>2, FieldsOfAMux
<1>6. IsOnline(mux, TRUE, mux.requested, mux')
  BY <1>2, <1>4, <1>5, OnlineFacts
<1>7. IsSound(mux', NoFunction, <<>>, Opening(Resubscribe(mux)))
  BY <1>1, <1>6, SoundConnection
<1> QED
  BY <1>1, <1>7

LEMMA DisconnectedStep ==
  ASSUME IsSound(mux, table, down, up), Disconnected
  PROVE  IsSound(mux', table', down', up')
<1> DEFINE req == [s \in Subscribers |-> <<>>]
<1>1. /\ mux' = [mux EXCEPT !.connected = FALSE, !.requested = req]
      /\ up' = <<>> /\ down' = <<>> /\ table' = NoFunction
  BY DEF Disconnected
<1>2. IsMux(mux)
  BY DEF IsSound
<1>3. mux = [connected |-> mux.connected, counter |-> mux.counter, ids |-> mux.ids,
             infos |-> mux.infos, received |-> mux.received, subscribed |-> mux.subscribed,
             allowed |-> mux.allowed, requested |-> mux.requested]
  BY <1>2, FieldsOfAMux
<1>4. req \in [Subscribers -> Seq(Patterns)] /\ FALSE \in BOOLEAN /\ \A s \in Subscribers : req[s] = <<>>
  OBVIOUS
<1> HIDE DEF req
<1>5. mux' = Online(mux, FALSE, req)
  BY <1>1, <1>3 DEF Online
<1>6. IsOnline(mux, FALSE, req, mux')
  BY <1>2, <1>4, <1>5, OnlineFacts
<1>7. IsSound(mux', NoFunction, <<>>, <<>>)
  BY <1>4, <1>6, SoundDisconnection
<1> QED
  BY <1>1, <1>7

-----------------------------------------------------------------------------
\* What the actions do to the other variables.

Views == [Subscribers -> [Nodes -> Payloads]]

\* Counting a command.
LEMMA CountedFacts ==
  ASSUME NEW k \in Nat, NEW a \in Nat, NEW b \in Nat
  PROVE  {k + 1, a, b} \subseteq Nat /\ {a, k + 1, b} \subseteq Nat /\ {a, b, k + 1} \subseteq Nat
OBVIOUS

\* Forgetting what is no longer selected.
LEMMA ForgetFacts ==
  ASSUME view \in Views, NEW s \in Subscribers, NEW m, Forget(s, m)
  PROVE  view' \in Views /\ withheld' \subseteq withheld
<1> DEFINE M(n) == MatchesPath(m.infos[s], n, NoValue)
           F == [n \in Nodes |-> IF M(n) THEN view[s][n] ELSE NoValue]
<1>1. view' = [view EXCEPT ![s] = F]
  BY DEF Forget, Views
<1> HIDE DEF M
<1>2. NoValue \in Payloads
  BY DEF Payloads
<1>3. F \in [Nodes -> Payloads]
  BY <1>2 DEF Views
<1> HIDE DEF F
<1>4. withheld' \subseteq withheld
  BY DEF Forget
<1> QED
  BY <1>1, <1>3, <1>4 DEF Views

\* Knowing nothing.
LEMMA BlankFacts == [n \in Nodes |-> NoValue] \in [Nodes -> Payloads]
BY DEF Payloads

\* A subscriber's step.
LEMMA SubscriberStepFacts ==
  ASSUME GatewayInvariant, NEW s \in Subscribers, SubscriberStep(s)
  PROVE  GatewayInvariant'
<1> DEFINE Sound == IsSound(mux', table', down', up')
           Counted == commands' = commands + 1 /\ writes' = writes /\ connects' = connects
           Rest == view' \in Views /\ withheld' \subseteq withheld /\ tree' = tree /\ Counted
<1>1. IsSound(mux, table, down, up) /\ OthersOK(view, tree, withheld, {commands, writes, connects})
  BY InvariantIsSoundness
<1>2. view \in Views /\ withheld \subseteq Subscribers \X Nodes /\ tree \in Trees /\ commands \in Nat /\ writes \in Nat /\ connects \in Nat
  BY <1>1 DEF OthersOK, Views
<1>3. SUFFICES Sound /\ Rest
  <2>1. {commands', writes', connects'} \subseteq Nat
    BY <1>2, <1>3, CountedFacts
  <2>2. OthersOK(view', tree', withheld', {commands', writes', connects'})
    BY <1>2, <1>3, <2>1 DEF OthersOK, Views
  <2> QED
    BY <1>3, <2>2, NextInvariantIsSoundness
<1>4. CASE RegisterSubscriber(s)
  <2>1. Sound
    BY <1>1, <1>4, RegisterStep
  <2>2. Rest
    BY <1>2, <1>4 DEF RegisterSubscriber, Command
  <2> QED
    BY <2>1, <2>2
<1>5. CASE UnregisterSubscriber(s)
  <2>1. Sound
    BY <1>1, <1>5, UnregisterStep
  <2>2. Forget(s, mux') /\ tree' = tree /\ Counted
    BY <1>5 DEF UnregisterSubscriber, Command
  <2>3. view' \in Views /\ withheld' \subseteq withheld
    BY <1>2, <2>2, ForgetFacts
  <2> QED
    BY <2>1, <2>2, <2>3
<1>6. ASSUME NEW p \in Patterns, NEW f \in Filters, NEW quiet \in QuietFlags, AddSubscription(s, p, f, quiet)
      PROVE  Sound /\ Rest
  <2>1. Sound
    BY <1>1, <1>6, AddStep
  <2>2. Rest
    BY <1>2, <1>6 DEF AddSubscription, Command
  <2> QED
    BY <2>1, <2>2
<1>7. ASSUME NEW p \in Patterns, NEW f \in Filters, NEW quiet \in QuietFlags, RemoveSubscription(s, p, f, quiet)
      PROVE  Sound /\ Rest
  <2>1. Sound
    BY <1>1, <1>7, RemoveOneStep
  <2>2. Forget(s, mux') /\ tree' = tree /\ Counted
    BY <1>7 DEF RemoveSubscription, Command
  <2>3. view' \in Views /\ withheld' \subseteq withheld
    BY <1>2, <2>2, ForgetFacts
  <2> QED
    BY <2>1, <2>2, <2>3
<1>8. CASE RemoveAllSubscriptions(s)
  <2>1. Sound
    BY <1>1, <1>8, RemoveAllStep
  <2>2. Forget(s, mux') /\ tree' = tree /\ Counted
    BY <1>8 DEF RemoveAllSubscriptions, Command
  <2>3. view' \in Views /\ withheld' \subseteq withheld
    BY <1>2, <2>2, ForgetFacts
  <2> QED
    BY <2>1, <2>2, <2>3
<1>9. ASSUME NEW p \in Patterns, NEW values \in BOOLEAN, RequestNodeSubtreesAux(s, p, values)
      PROVE  Sound /\ Rest
  <2>1. Sound
    BY <1>1, <1>9, RequestStep
  <2>2. Rest
    BY <1>2, <1>9 DEF RequestNodeSubtreesAux, Command
  <2> QED
    BY <2>1, <2>2
<1>10. ASSUME NEW n \in Nodes, NEW v \in Values, NEW quiet \in QuietFlags, UploadNodeValue(s, n, v, quiet)
       PROVE  Sound /\ Rest
  <2>1. Sound
    BY <1>1, <1>10, UploadStep
  <2>2. Rest
    BY <1>2, <1>10 DEF UploadNodeValue, Command
  <2> QED
    BY <2>1, <2>2
<1>11. ASSUME NEW n \in Nodes, RequestDeleteNodes(s, n)
       PROVE  Sound /\ Rest
  <2>1. Sound
    BY <1>1, <1>11, DeleteStep
  <2>2. Rest
    BY <1>2, <1>11 DEF RequestDeleteNodes, Command
  <2> QED
    BY <2>1, <2>2
<1>12. ASSUME NEW n \in Nodes, SendMessageToSubscriber(s, n)
       PROVE  Sound /\ Rest
  <2>1. Sound
    BY <1>1, <1>12, MessageStep
  <2>2. Rest
    BY <1>2, <1>12 DEF SendMessageToSubscriber, Command
  <2> QED
    BY <2>1, <2>2
<1> HIDE DEF Sound, Rest
<1>13. ASSUME NEW p \in Patterns, RequestNodeSubtrees(s, p) \/ RequestNodeValues(s, p)
       PROVE  Sound /\ Rest
  BY <1>9, <1>13 DEF RequestNodeSubtrees, RequestNodeValues
<1> QED
  BY <1>4, <1>5, <1>6, <1>7, <1>8, <1>10, <1>11, <1>12, <1>13 DEF SubscriberStep

\* A step of the streams, of the server or of another client.
LEMMA OtherStepFacts ==
  ASSUME GatewayInvariant,
         \/ ServePacket
         \/ \E n \in Nodes, v \in Values \union {NoValue} : OtherWrite(n, v)
         \/ HandleReply
         \/ Connected
         \/ Disconnected
  PROVE  GatewayInvariant'
<1> DEFINE Sound == IsSound(mux', table', down', up')
           Rest == /\ view' \in Views /\ tree' \in Trees
                   /\ withheld' \subseteq Subscribers \X Nodes
                   /\ commands' \in Nat /\ writes' \in Nat /\ connects' \in Nat
<1>1. IsSound(mux, table, down, up) /\ OthersOK(view, tree, withheld, {commands, writes, connects})
  BY InvariantIsSoundness
<1>2. view \in Views /\ withheld \subseteq Subscribers \X Nodes /\ tree \in Trees /\ commands \in Nat /\ writes \in Nat /\ connects \in Nat
  BY <1>1 DEF OthersOK, Views
<1>3. SUFFICES Sound /\ Rest
  <2>1. OthersOK(view', tree', withheld', {commands', writes', connects'})
    BY <1>3 DEF OthersOK, Views
  <2> QED
    BY <1>3, <2>1, NextInvariantIsSoundness
<1>4. CASE ServePacket
  <2>1. Sound /\ tree' \in Trees
    BY <1>1, <1>2, <1>4, ServeStep
  <2>2. view' = view /\ commands' = commands /\ writes' = writes /\ connects' = connects
    BY <1>4 DEF ServePacket
  <2>3. withheld' \subseteq withheld
    BY <1>4 DEF ServePacket, StillWithheld
  <2> QED
    BY <1>2, <2>1, <2>2, <2>3
<1>5. ASSUME NEW n \in Nodes, NEW v \in Values \union {NoValue}, OtherWrite(n, v)
      PROVE  Sound /\ Rest
  <2>1. Sound /\ tree' \in Trees
    BY <1>1, <1>2, <1>5, WriteStep
  <2>2. view' = view /\ commands' = commands /\ writes' = writes + 1 /\ connects' = connects
    BY <1>5 DEF OtherWrite
  <2>3. withheld' \subseteq Subscribers \X Nodes
    <3>1. LeftOut(n, down') \subseteq Subscribers
      BY DEF LeftOut
    <3>2. StillWithheld(down, down') \subseteq withheld
      BY DEF StillWithheld
    <3>3. withheld' = StillWithheld(down, down') \union
                        (IF down' = down THEN {} ELSE LeftOut(n, down') \X {n})
      BY <1>5 DEF OtherWrite
    <3> QED
      BY <1>2, <3>1, <3>2, <3>3
  <2> QED
    BY <1>2, <2>1, <2>2, <2>3
<1>6. CASE HandleReply
  <2>1. Sound /\ view' \in Views
    BY <1>1, <1>2, <1>6, ReplyStep DEF Views
  <2>2. /\ tree' = tree /\ withheld' = withheld
        /\ commands' = commands /\ writes' = writes /\ connects' = connects
    BY <1>6 DEF HandleReply
  <2> QED
    BY <1>2, <2>1, <2>2
<1>7. CASE Connected
  <2>1. Sound
    BY <1>1, <1>7, ConnectedStep
  <2>2. /\ view' = view /\ tree' = tree /\ withheld' = withheld
        /\ commands' = commands /\ writes' = writes /\ connects' = connects + 1
    BY <1>7 DEF Connected
  <2> QED
    BY <1>2, <2>1, <2>2
<1>8. CASE Disconnected
  <2>1. Sound
    BY <1>1, <1>8, DisconnectedStep
  <2> DEFINE blank == [n \in Nodes |-> NoValue]
  <2>2. /\ view' = [s \in Subscribers |-> blank] /\ withheld' = {}
        /\ tree' = tree /\ commands' = commands /\ writes' = writes /\ connects' = connects
    BY <1>8 DEF Disconnected
  <2>3. blank \in [Nodes -> Payloads]
    BY BlankFacts
  <2> HIDE DEF blank
  <2> QED
    BY <1>2, <2>1, <2>2, <2>3 DEF Views
<1> HIDE DEF Sound, Rest
<1> QED
  BY <1>4, <1>5, <1>6, <1>7, <1>8

-----------------------------------------------------------------------------
\* The theorems.

\* MuxTreeGateway, ClientSideNetworkTreeGateway and the server-side session
\* keep the whole invariant: whatever subscribers register, subscribe, leave
\* and ask for, while other clients write and the connection comes and goes,
\* what is under way leads to the upstream subscriptions the subscribers
\* want, closes every pair of "obss:" pings and answers every request.
THEOREM GatewayStaysSound == Spec => []GatewayInvariant
<1>1. Init => GatewayInvariant
  <2> SUFFICES ASSUME Init PROVE GatewayInvariant
    OBVIOUS
  <2> DEFINE blank == [n \in Nodes |-> NoValue]
  <2>1. /\ mux = MuxInit /\ table = NoFunction /\ down = <<>> /\ up = <<>>
        /\ view = [s \in Subscribers |-> blank] /\ tree \in Trees
        /\ withheld = {} /\ commands = 0 /\ writes = 0 /\ connects = 0
    BY DEF Init, Trees, Payloads
  <2>2. IsSound(mux, table, down, up)
    BY <2>1, SoundStart
  <2>3. blank \in [Nodes -> Payloads]
    BY BlankFacts
  <2> HIDE DEF blank
  <2>4. OthersOK(view, tree, withheld, {commands, writes, connects})
    BY <2>1, <2>3 DEF OthersOK
  <2> QED
    BY <2>2, <2>4, InvariantIsSoundness
<1>2. GatewayInvariant /\ [Next]_vars => GatewayInvariant'
  <2> SUFFICES ASSUME GatewayInvariant, [Next]_vars PROVE GatewayInvariant'
    OBVIOUS
  <2>1. ASSUME NEW s \in Subscribers, SubscriberStep(s) PROVE GatewayInvariant'
    BY <2>1, SubscriberStepFacts
  <2>2. CASE \/ ServePacket
             \/ \E n \in Nodes, v \in Values \union {NoValue} : OtherWrite(n, v)
             \/ HandleReply
             \/ Connected
             \/ Disconnected
    BY <2>2, OtherStepFacts
  <2>3. CASE UNCHANGED vars
    <3>1. /\ mux' = mux /\ table' = table /\ down' = down /\ up' = up /\ view' = view /\ tree' = tree
          /\ withheld' = withheld /\ commands' = commands /\ writes' = writes /\ connects' = connects
      BY <2>3 DEF vars
    <3>2. IsSound(mux, table, down, up) /\ OthersOK(view, tree, withheld, {commands, writes, connects})
      BY InvariantIsSoundness
    <3>3. IsSound(mux', table', down', up') /\ OthersOK(view', tree', withheld', {commands', writes', connects'})
      BY <3>1, <3>2
    <3> QED
      BY <3>3, NextInvariantIsSoundness
  <2> QED
    BY <2>1, <2>2, <2>3 DEF Next
<1> QED
  BY <1>1, <1>2, PTL DEF Spec

\* UpdateSubscription() and the re-subscription after a reconnect: at any
\* moment the commands already issued lead to exactly the upstream
\* subscriptions the subscribers want, each with the union of their filters.
THEOREM UpstreamFollowsSubscribers == Spec => []UpstreamMatchesDownstream
<1>1. GatewayInvariant => UpstreamMatchesDownstream
  BY DEF GatewayInvariant
<1> QED
  BY <1>1, GatewayStaysSound, PTL

\* _requestedSubtrees of a subscriber: every request it waits for has its
\* command or its answer under way, in order, under the registration it was
\* made with, and there is no answer that nobody waits for.
THEOREM RequestsStayUnderWay == Spec => []RequestsAreUnderWay
<1>1. GatewayInvariant => RequestsAreUnderWay
  BY DEF GatewayInvariant
<1> QED
  BY <1>1, GatewayStaysSound, PTL

\* TreeLocalPeerPonged(): once the traffic has settled, _allowedCallbacks
\* cuts no subscriber off from the updates of the nodes it is subscribed to.
THEOREM EverybodyIsServedAgain == Spec => []NobodyIsCutOff
<1>1. GatewayInvariant => NobodyIsCutOff
  <2> DEFINE o == mux.allowed # {}
             z == 0
  <2> SUFFICES ASSUME GatewayInvariant, Quiet, o PROVE Unsubscribed(mux)
    BY DEF NobodyIsCutOff, Unsubscribed
  <2>1. IsSound(mux, table, down, up)
    BY InvariantIsSoundness
  <2>2. mux.connected /\ up = <<>> /\ down = <<>>
    BY DEF Quiet
  <2>3. Ahead(0, mux, table, <<>>, <<>>).open => Unsubscribed(mux)
    BY <2>1, <2>2 DEF IsSound
  <2>4. Ahead(z, mux, table, <<>>, <<>>) = Outcome(table, o, <<>>)
    <3> HIDE DEF z
    <3>1. Ahead(z, mux, table, <<>>, <<>>) = Traffic(z, table, o, <<>>, <<>>)
      BY DEF Ahead
    <3> HIDE DEF o
    <3> QED
      BY <3>1, NoTraffic
  <2> HIDE DEF o
  <2>5. Outcome(table, o, <<>>).open
    BY DEF Outcome
  <2> QED
    BY <2>3, <2>4, <2>5
<1> QED
  BY <1>1, GatewayStaysSound, PTL
=============================================================================

----------------------- MODULE SystemDiscoveryProofs -----------------------
(***************************************************************************)
(* Discovery, for any servers, interfaces, targets and any ping interval:  *)
(* the targets catch up with what the discovery thread reports, and no     *)
(* peer is forgotten that was not asked.                                   *)
(***************************************************************************)
EXTENDS SystemDiscovery, TLAPS

---------------------------------------------------------------------------
(* Operators.                                                              *)

(* Patched (PutOrRemove for every update) keeps what was known unless an   *)
(* update says otherwise, and takes every update that is not a removal.    *)
LEMMA PatchedEntries ==
  ASSUME NEW old, NEW up
  PROVE  /\ \A x : x \in DOMAIN Patched(old, up) <=>
                   /\ x \in DOMAIN old \/ x \in DOMAIN up
                   /\ x \in DOMAIN up => up[x] # Gone
         /\ \A x \in DOMAIN Patched(old, up) :
              Patched(old, up)[x] = IF x \in DOMAIN up THEN up[x] ELSE old[x]
BY DEF Patched

(* Nothing is known and nothing waits: None has no entries.                *)
LEMMA NoneIsEmpty == DOMAIN None = {}
BY DEF None

(* GrabUpdates leaves nothing behind, and no update changes nothing.       *)
LEMMA PatchedWithNothing ==
  ASSUME NEW old, NEW up, DOMAIN up = {}
  PROVE  /\ DOMAIN Patched(old, up) = DOMAIN old
         /\ \A x \in DOMAIN old : Patched(old, up)[x] = old[x]
BY PatchedEntries

(* An update never leaves a system without peers behind (PutOrRemove).     *)
LEMMA PatchedIsNeverGone ==
  ASSUME NEW old, NEW up, \A x \in DOMAIN old : old[x] # Gone
  PROVE  \A x \in DOMAIN Patched(old, up) : Patched(old, up)[x] # Gone
BY PatchedEntries

(* A new target that is told all that is known knows just that.            *)
LEMMA PatchedFromNothing ==
  ASSUME NEW old, NEW up, DOMAIN old = {}, \A x \in DOMAIN up : up[x] # Gone
  PROVE  /\ DOMAIN Patched(old, up) = DOMAIN up
         /\ \A x \in DOMAIN up : Patched(old, up)[x] = up[x]
BY PatchedEntries

(* CalculateCookedResults has no system without peers.                     *)
LEMMA CookedSystemsHavePeers ==
  ASSUME NEW r
  PROVE  \A x \in DOMAIN CalculateCookedResults(r) : CalculateCookedResults(r)[x] # Gone
<1> DEFINE Keys(s) == {k \in DOMAIN r : k[2] = s}
           LastKey(s) == CHOOSE k \in Keys(s) : \A j \in Keys(s) : j[1] <= k[1]
           Seen(x) == {s \in Servers : SystemOf[s] = x /\ Keys(s) # {}}
           entry(x) == [s \in Seen(x) |-> r[LastKey(s)].data]
<1>1. CalculateCookedResults(r) = [x \in {y \in Systems : Seen(y) # {}} |-> entry(x)]
  BY DEF CalculateCookedResults
<1>2. \A x : DOMAIN entry(x) = Seen(x)
  OBVIOUS
<1>3. DOMAIN Gone = {}
  BY DEF Gone
<1> HIDE DEF entry, Seen
<1>4. DOMAIN CalculateCookedResults(r) = {y \in Systems : Seen(y) # {}}
  BY <1>1
<1>5. SUFFICES ASSUME NEW x \in {y \in Systems : Seen(y) # {}}
               PROVE  entry(x) # Gone
  BY <1>1, <1>4
<1> QED
  BY <1>2, <1>3, <1>5

---------------------------------------------------------------------------
(* Types.                                                                  *)

(* Init and every step keep the types.                                     *)
LEMMA TypeOKInitially == Init => TypeOK
<1> SUFFICES ASSUME Init PROVE TypeOK
  OBVIOUS
<1>1. DOMAIN raw = {} /\ DOMAIN view = Targets
  BY NoneIsEmpty DEF Init
<1>2. info \in [Servers -> Infos] /\ unanswered \in [Interfaces \X Servers -> 0..2]
  BY DEF Init
<1>3. targets \in [Targets -> {"none", "new", "told"}]
  BY DEF Init
<1>4. wait \in 0..Interval /\ late \in 0..Interval
  BY DiscoveryAssumption DEF Init
<1> QED
  BY <1>1, <1>2, <1>3, <1>4 DEF Init, TypeOK

(* The interval is positive and a pong is remembered for three of them.    *)
LEMMA IntervalFacts == Interval \in Nat /\ Interval > 0 /\ Lifetime \in Nat /\ Lifetime = 3 * Interval
BY DiscoveryAssumption DEF Lifetime

(* AnswerPing: only the packets on their way change.                       *)
LEMMA AnswerPingTypes ==
  ASSUME TypeOK, NEW s \in Servers, NEW i \in Interfaces, AnswerPing(s, i)
  PROVE  TypeOK'
<1>1. pongs' \subseteq Interfaces \X Servers \X Infos
  <2>1. \A x \in HandleDiscoveryPing(s) : x \in Infos
    BY DEF HandleDiscoveryPing, TypeOK
  <2> QED
    BY <2>1 DEF AnswerPing, TypeOK
<1>2. pings' \subseteq Interfaces \X Servers
  BY DEF AnswerPing, TypeOK
<1> QED
  BY <1>1, <1>2 DEF AnswerPing, TypeOK, serverVars, threadVars, mainVars, Lifetime

(* RawDiscoveryResultReceived: a result is filed under the interface it    *)
(* came from and the peer that sent it.                                    *)
LEMMA ResultTypes ==
  ASSUME TypeOK, NEW x \in pongs, RawDiscoveryResultReceived(x)
  PROVE  TypeOK'
<1> DEFINE k == <<x[1], x[2]>>
           data == [info |-> x[3], source |-> x[1]]
<1>1. x[1] \in Interfaces /\ x[2] \in Servers /\ x[3] \in Infos
  BY DEF TypeOK
<1>2. k \in Interfaces \X Servers /\ data \in [info : Infos, source : Interfaces]
  BY <1>1
<1>3. raw' = RawResults(k, data) /\ unanswered' = [unanswered EXCEPT ![k] = 0]
  BY DEF RawDiscoveryResultReceived
<1>4. pending' \in BOOLEAN /\ pongs' \subseteq pongs
  BY DEF RawDiscoveryResultReceived, TypeOK
<1> HIDE DEF k, data
<1>5. DOMAIN raw' = DOMAIN raw \cup {k}
  BY <1>3 DEF RawResults
<1>6. \A j \in DOMAIN raw' : raw'[j] = IF j = k THEN [data |-> data, ttl |-> Lifetime] ELSE raw[j]
  BY <1>3, <1>5 DEF RawResults
<1>7. [data |-> data, ttl |-> Lifetime]
        \in [data : [info : Infos, source : Interfaces], ttl : 0..Lifetime]
  BY <1>2, IntervalFacts
<1>8. \A j \in DOMAIN raw' :
        raw'[j] \in [data : [info : Infos, source : Interfaces], ttl : 0..Lifetime]
  BY <1>5, <1>6, <1>7 DEF TypeOK
<1>9. unanswered' \in [Interfaces \X Servers -> 0..2]
  BY <1>2, <1>3 DEF TypeOK
<1>10. DOMAIN raw' \subseteq Interfaces \X Servers
  BY <1>2, <1>5 DEF TypeOK
<1>11. UNCHANGED <<serverVars, pings, nics, active, wait, late, signal, mainVars>>
  BY DEF RawDiscoveryResultReceived
<1> QED
  BY <1>4, <1>8, <1>9, <1>10, <1>11 DEF TypeOK, serverVars, mainVars, Lifetime

(* Awakened and Unexpired keep at most what was there, with its data, and  *)
(* renew a lifetime or leave it.                                           *)
LEMMA KeptResults ==
  ASSUME late \in Nat, NEW due \in BOOLEAN,
         NEW kept, kept = IF due THEN Unexpired(Awakened(raw)) ELSE Awakened(raw)
  PROVE  /\ DOMAIN kept \subseteq DOMAIN raw
         /\ \A k \in DOMAIN kept :
              kept[k] = IF late >= Interval THEN [raw[k] EXCEPT !.ttl = Lifetime] ELSE raw[k]
         /\ ~due => DOMAIN kept = DOMAIN raw
         /\ late < Interval =>
              \A k \in DOMAIN raw \ DOMAIN kept : ~(raw[k].ttl > 0)
         /\ late >= Interval =>
              \A k \in DOMAIN raw \ DOMAIN kept : ~([raw[k] EXCEPT !.ttl = Lifetime].ttl > 0)
<1> DEFINE a == Awakened(raw)
<1>1. /\ DOMAIN a = DOMAIN raw
      /\ \A k \in DOMAIN raw :
           a[k] = IF late >= Interval THEN [raw[k] EXCEPT !.ttl = Lifetime] ELSE raw[k]
  BY DEF Awakened
<1>2. /\ DOMAIN Unexpired(a) = {j \in DOMAIN a : a[j].ttl > 0}
      /\ \A k \in DOMAIN Unexpired(a) : Unexpired(a)[k] = a[k]
  BY DEF Unexpired
<1>3. kept = IF due THEN Unexpired(a) ELSE a
  OBVIOUS
<1> HIDE DEF a
<1>4. DOMAIN kept \subseteq DOMAIN raw /\ (~due => DOMAIN kept = DOMAIN raw)
  BY <1>1, <1>2, <1>3
<1>5. \A k \in DOMAIN kept :
        kept[k] = IF late >= Interval THEN [raw[k] EXCEPT !.ttl = Lifetime] ELSE raw[k]
  BY <1>1, <1>2, <1>3
<1>6. \A k \in DOMAIN raw \ DOMAIN kept : ~(a[k].ttl > 0)
  BY <1>1, <1>2, <1>3
<1>7. late < Interval => \A k \in DOMAIN raw \ DOMAIN kept : ~(raw[k].ttl > 0)
  BY <1>1, <1>6, IntervalFacts
<1>8. late >= Interval =>
        \A k \in DOMAIN raw \ DOMAIN kept : ~([raw[k] EXCEPT !.ttl = Lifetime].ttl > 0)
  BY <1>1, <1>6
<1> QED
  BY <1>4, <1>5, <1>7, <1>8

(* Pulse, as the proofs use it: what is kept of the results.               *)
LEMMA PulseFacts ==
  ASSUME TypeOK, Pulse
  PROVE  /\ DOMAIN raw' \subseteq DOMAIN raw
         /\ \A k \in DOMAIN raw' :
              raw'[k] = IF late >= Interval THEN [raw[k] EXCEPT !.ttl = Lifetime] ELSE raw[k]
         /\ \A k \in DOMAIN raw \ DOMAIN raw' :
              wait = 0 /\ late < Interval /\ raw[k].ttl = 0
         /\ wait' = IF wait = 0 THEN Interval ELSE wait
         /\ late' = 0
<1> DEFINE due == wait = 0
           kept == IF due THEN Unexpired(Awakened(raw)) ELSE Awakened(raw)
<1>1. raw' = kept /\ late' = 0 /\ wait' = IF due THEN Interval ELSE wait
  BY DEF Pulse
<1>2. late \in Nat /\ (late < Interval \/ late >= Interval)
  BY IntervalFacts DEF TypeOK
<1>3. due \in BOOLEAN
  OBVIOUS
<1> HIDE DEF due
<1>4. kept = IF due THEN Unexpired(Awakened(raw)) ELSE Awakened(raw)
  OBVIOUS
<1> HIDE DEF kept
<1>5. /\ DOMAIN kept \subseteq DOMAIN raw
      /\ \A k \in DOMAIN kept :
           kept[k] = IF late >= Interval THEN [raw[k] EXCEPT !.ttl = Lifetime] ELSE raw[k]
      /\ ~due => DOMAIN kept = DOMAIN raw
      /\ late < Interval => \A k \in DOMAIN raw \ DOMAIN kept : ~(raw[k].ttl > 0)
      /\ late >= Interval =>
           \A k \in DOMAIN raw \ DOMAIN kept : ~([raw[k] EXCEPT !.ttl = Lifetime].ttl > 0)
  BY <1>2, <1>3, <1>4, KeptResults
<1>6. ASSUME NEW k \in DOMAIN raw \ DOMAIN kept
      PROVE  due /\ late < Interval /\ raw[k].ttl = 0
  <2>1. raw[k] \in [data : [info : Infos, source : Interfaces], ttl : 0..Lifetime]
    BY <1>6 DEF TypeOK
  <2>2. [raw[k] EXCEPT !.ttl = Lifetime].ttl = Lifetime /\ raw[k].ttl \in Nat
    BY <2>1, IntervalFacts
  <2>3. late < Interval
    BY <1>2, <1>5, <1>6, <2>2, IntervalFacts
  <2> QED
    BY <1>5, <1>6, <2>2, <2>3
<1>7. due <=> wait = 0
  BY DEF due
<1> QED
  BY <1>1, <1>5, <1>6, <1>7

(* Pulse keeps the types.                                                  *)
LEMMA PulseTypes ==
  ASSUME TypeOK, Pulse
  PROVE  TypeOK'
<1>1. \A k \in DOMAIN raw' :
        raw'[k] \in [data : [info : Infos, source : Interfaces], ttl : 0..Lifetime]
  <2> SUFFICES ASSUME NEW k \in DOMAIN raw'
               PROVE  raw'[k] \in [data : [info : Infos, source : Interfaces], ttl : 0..Lifetime]
    OBVIOUS
  <2>1. raw[k] \in [data : [info : Infos, source : Interfaces], ttl : 0..Lifetime]
    BY PulseFacts DEF TypeOK
  <2>2. [raw[k] EXCEPT !.ttl = Lifetime]
          \in [data : [info : Infos, source : Interfaces], ttl : 0..Lifetime]
    BY <2>1, IntervalFacts
  <2> QED
    BY <2>1, <2>2, PulseFacts
<1>2. DOMAIN raw' \subseteq Interfaces \X Servers
  BY PulseFacts DEF TypeOK
<1>3. wait' \in 0..Interval /\ late' \in 0..Interval
  BY PulseFacts, IntervalFacts DEF TypeOK
<1>4. unanswered' \in [Interfaces \X Servers -> 0..2]
  BY DEF Pulse, TypeOK
<1>5. pings' \subseteq Interfaces \X Servers
  BY DEF Pulse, TypeOK, DoOutput
<1>6. pending' \in BOOLEAN /\ signal' \in BOOLEAN
  BY DEF Pulse, TypeOK, UpdateResultSet
<1>7. UNCHANGED <<serverVars, pongs, nics, active, mainVars>>
  BY DEF Pulse
<1> QED
  BY <1>1, <1>2, <1>3, <1>4, <1>5, <1>6, <1>7 DEF TypeOK, serverVars, mainVars, Lifetime

(* Time passes: lifetimes and the wait for the next ping run down.         *)
LEMMA TickFacts ==
  ASSUME TypeOK, Tick
  PROVE  /\ DOMAIN raw' = DOMAIN raw
         /\ \A k \in DOMAIN raw :
              /\ raw'[k] \in [data : [info : Infos, source : Interfaces], ttl : 0..Lifetime]
              /\ raw'[k].ttl = IF raw[k].ttl > 0 THEN raw[k].ttl - 1 ELSE 0
<1>1. DOMAIN raw' = DOMAIN raw
  BY DEF Tick
<1>2. SUFFICES ASSUME NEW k \in DOMAIN raw
               PROVE  /\ raw'[k] \in [data : [info : Infos, source : Interfaces], ttl : 0..Lifetime]
                      /\ raw'[k].ttl = IF raw[k].ttl > 0 THEN raw[k].ttl - 1 ELSE 0
  BY <1>1
<1>3. raw'[k] = [raw[k] EXCEPT !.ttl = IF @ > 0 THEN @ - 1 ELSE 0]
  BY DEF Tick
<1>4. raw[k] \in [data : [info : Infos, source : Interfaces], ttl : 0..Lifetime]
  BY DEF TypeOK
<1> QED
  BY <1>3, <1>4, IntervalFacts

(* The passing of time keeps the types.                                    *)
LEMMA TickTypes ==
  ASSUME TypeOK, Tick
  PROVE  TypeOK'
<1>1. wait' \in 0..Interval /\ late' \in 0..Interval
  BY IntervalFacts DEF Tick, TypeOK
<1> QED
  BY <1>1, TickFacts DEF Tick, TypeOK, serverVars, mainVars, Lifetime

(* A server starts, ends, or changes what it says of itself.               *)
LEMMA ServerChangesTypes ==
  ASSUME TypeOK, NEW s \in Servers, ServerChanges(s)
  PROVE  TypeOK'
<1>1. answering' \subseteq Servers /\ info' \in [Servers -> Infos]
  BY DEF ServerChanges, TypeOK
<1> QED
  BY <1>1 DEF ServerChanges, TypeOK, threadVars, mainVars, Lifetime

(* The steps of the main thread, and of the network's interfaces.          *)
LEMMA MainThreadTypes ==
  ASSUME TypeOK,
         \/ NetworkInterfacesChanged \/ DispatchCallbacks \/ Stop \/ Start
         \/ \E t \in Targets : RegisterTarget(t) \/ UnregisterTarget(t)
  PROVE  TypeOK'
<1>1. CASE NetworkInterfacesChanged
  BY <1>1 DEF NetworkInterfacesChanged, EndExistingDiscoverySessions, AddNewDiscoverySessions,
              TypeOK, serverVars, threadVars, mainVars, Lifetime
<1>2. CASE DispatchCallbacks
  <2>1. targets' \in [Targets -> {"none", "new", "told"}] /\ DOMAIN view' = Targets
    BY <1>2 DEF DispatchCallbacks, TypeOK
  <2> QED
    BY <1>2, <2>1 DEF DispatchCallbacks, TypeOK, serverVars, threadVars, Lifetime
<1>3. CASE Stop
  <2>1. DOMAIN raw' = {}
    BY <1>3, NoneIsEmpty DEF Stop, ShutdownInternalThread
  <2>2. unanswered' \in [Interfaces \X Servers -> 0..2]
    BY <1>3 DEF Stop, ShutdownInternalThread, TypeOK
  <2>3. wait' \in 0..Interval /\ late' \in 0..Interval
    BY <1>3, IntervalFacts DEF Stop, ShutdownInternalThread
  <2> QED
    BY <1>3, <2>1, <2>2, <2>3
    DEF Stop, ShutdownInternalThread, EndExistingDiscoverySessions, TypeOK, serverVars
<1>4. CASE Start
  BY <1>4 DEF Start, InternalThreadEntry, AddNewDiscoverySessions, TypeOK, serverVars, mainVars,
              Lifetime
<1>5. CASE \E t \in Targets : RegisterTarget(t) \/ UnregisterTarget(t)
  <2> PICK t \in Targets : RegisterTarget(t) \/ UnregisterTarget(t)
    BY <1>5
  <2>1. targets' \in [Targets -> {"none", "new", "told"}] /\ DOMAIN view' = Targets
    BY DEF RegisterTarget, UnregisterTarget, TypeOK
  <2>2. signal' \in BOOLEAN
    BY DEF RegisterTarget, UnregisterTarget, TypeOK
  <2> QED
    BY <2>1, <2>2 DEF RegisterTarget, UnregisterTarget, TypeOK, serverVars, threadVars, Lifetime
<1> QED
  BY <1>1, <1>2, <1>3, <1>4, <1>5

(* No step leaves the types.                                               *)
LEMMA TypeOKStep == TypeOK /\ [Next]_vars => TypeOK'
<1> SUFFICES ASSUME TypeOK, [Next]_vars PROVE TypeOK'
  OBVIOUS
<1>1. CASE Deliver
  BY <1>1, AnswerPingTypes, ResultTypes DEF Deliver
<1>2. CASE \E s \in Servers : ServerChanges(s)
  BY <1>2, ServerChangesTypes
<1>3. CASE Pulse
  BY <1>3, PulseTypes
<1>4. CASE Tick
  BY <1>4, TickTypes
<1>5. CASE UNCHANGED vars
  BY <1>5 DEF vars, TypeOK, Lifetime
<1> QED
  BY <1>1, <1>2, <1>3, <1>4, <1>5, MainThreadTypes DEF Next

---------------------------------------------------------------------------
(* Nobody is forgotten unasked.                                            *)

(* A step that leaves the results, the clock and the counts of unanswered  *)
(* pings alone keeps what is remembered.                                   *)
LEMMA RememberedUnchanged ==
  ASSUME UnaskedPeersAreRemembered, UNCHANGED <<raw, wait, late, unanswered>>
  PROVE  UnaskedPeersAreRemembered'
BY DEF UnaskedPeersAreRemembered

(* A pong renews the lifetime of its own result (RawDiscoveryResult-       *)
(* Received) and leaves the others alone.                                  *)
LEMMA ResultRemembered ==
  ASSUME TypeOK, UnaskedPeersAreRemembered, NEW x \in pongs, RawDiscoveryResultReceived(x)
  PROVE  UnaskedPeersAreRemembered'
<1> DEFINE k == <<x[1], x[2]>>
           data == [info |-> x[3], source |-> x[1]]
<1>1. /\ raw' = RawResults(k, data) /\ unanswered' = [unanswered EXCEPT ![k] = 0]
      /\ wait' = wait /\ late' = late
  BY DEF RawDiscoveryResultReceived
<1> HIDE DEF k, data
<1>2. DOMAIN raw' = DOMAIN raw \cup {k}
  BY <1>1 DEF RawResults
<1>3. \A j \in DOMAIN raw' : raw'[j] = IF j = k THEN [data |-> data, ttl |-> Lifetime] ELSE raw[j]
  BY <1>1, <1>2 DEF RawResults
<1> SUFFICES ASSUME NEW j \in DOMAIN raw', unanswered'[j] = 0, late' < Interval
             PROVE  raw'[j].ttl >= 2 * Interval + wait' - (IF wait' = 0 THEN late' ELSE 0)
  BY DEF UnaskedPeersAreRemembered
<1>4. CASE j = k
  <2>1. raw'[j].ttl = 3 * Interval
    BY <1>3, <1>4, IntervalFacts
  <2> QED
    BY <1>1, <2>1, IntervalFacts DEF TypeOK
<1>5. CASE j # k
  <2>1. j \in DOMAIN raw /\ raw'[j] = raw[j]
    BY <1>2, <1>3, <1>5
  <2>2. unanswered[j] = 0
    BY <1>1, <1>5, <2>1 DEF TypeOK
  <2> QED
    BY <1>1, <2>1, <2>2 DEF UnaskedPeersAreRemembered
<1> QED
  BY <1>4, <1>5

(* A Pulse() that comes late renews every lifetime, one that is due counts *)
(* a ping for everybody, and any other changes nothing that matters.       *)
LEMMA PulseRemembers ==
  ASSUME TypeOK, UnaskedPeersAreRemembered, Pulse
  PROVE  UnaskedPeersAreRemembered'
<1> SUFFICES ASSUME NEW k \in DOMAIN raw', unanswered'[k] = 0
             PROVE  raw'[k].ttl >= 2 * Interval + wait' - (IF wait' = 0 THEN late' ELSE 0)
  BY DEF UnaskedPeersAreRemembered
<1>1. k \in DOMAIN raw /\ k \in Interfaces \X Servers
  BY PulseFacts DEF TypeOK
<1>2. raw[k] \in [data : [info : Infos, source : Interfaces], ttl : 0..Lifetime]
  BY <1>1 DEF TypeOK
<1>3. late' = 0 /\ wait' \in 0..Interval
  BY PulseFacts, PulseTypes DEF TypeOK
<1>4. CASE late >= Interval
  <2>1. raw'[k].ttl = 3 * Interval
    BY <1>2, <1>4, PulseFacts, IntervalFacts
  <2>2. (IF wait' = 0 THEN late' ELSE 0) = 0
    BY <1>3
  <2>3. wait' \in Nat /\ wait' <= Interval
    BY <1>3, IntervalFacts
  <2> QED
    BY <2>1, <2>2, <2>3, IntervalFacts
<1>5. CASE ~(late >= Interval)
  <2>1. raw'[k] = raw[k] /\ late < Interval
    BY <1>5, PulseFacts, IntervalFacts DEF TypeOK
  <2>2. wait # 0 /\ unanswered[k] = 0
    <3>1. ASSUME wait = 0
          PROVE  unanswered'[k] # 0
      <4>1. unanswered' = [j \in DOMAIN unanswered |->
                             IF unanswered[j] < 2 THEN unanswered[j] + 1 ELSE 2]
        BY <3>1 DEF Pulse
      <4>2. unanswered[k] \in 0..2 /\ k \in DOMAIN unanswered
        BY <1>1 DEF TypeOK
      <4> QED
        BY <4>1, <4>2
    <3>2. wait # 0 => unanswered' = unanswered
      BY DEF Pulse
    <3> QED
      BY <3>1, <3>2
  <2>3. wait' = wait
    BY <2>2, PulseFacts
  <2>4. raw[k].ttl >= 2 * Interval + wait - (IF wait = 0 THEN late ELSE 0)
    BY <1>1, <2>1, <2>2 DEF UnaskedPeersAreRemembered
  <2> QED
    BY <1>3, <2>1, <2>2, <2>3, <2>4
<1> QED
  BY <1>4, <1>5

(* As time passes a lifetime runs down no faster than the wait for the     *)
(* ping and then the delay of the ping account for.                        *)
LEMMA TickRemembers ==
  ASSUME TypeOK, UnaskedPeersAreRemembered, Tick
  PROVE  UnaskedPeersAreRemembered'
<1> SUFFICES ASSUME NEW k \in DOMAIN raw', unanswered'[k] = 0, late' < Interval
             PROVE  raw'[k].ttl >= 2 * Interval + wait' - (IF wait' = 0 THEN late' ELSE 0)
  BY DEF UnaskedPeersAreRemembered
<1>1. k \in DOMAIN raw /\ unanswered[k] = 0
  BY TickFacts DEF Tick
<1>2. wait' = IF wait > 0 THEN wait - 1 ELSE 0
  BY DEF Tick
<1>3. wait = 0 /\ late < Interval => late' = late + 1
  BY DEF Tick
<1>4. late' \in Nat /\ late \in Nat /\ wait \in Nat /\ late < Interval
  BY TickTypes, IntervalFacts DEF Tick, TypeOK
<1>5. raw[k].ttl >= 2 * Interval + wait - (IF wait = 0 THEN late ELSE 0)
  BY <1>1, <1>4 DEF UnaskedPeersAreRemembered
<1>6. raw[k].ttl \in Nat /\ raw'[k].ttl = IF raw[k].ttl > 0 THEN raw[k].ttl - 1 ELSE 0
  BY <1>1, TickFacts, IntervalFacts DEF TypeOK
<1>7. raw[k].ttl > 0
  BY <1>4, <1>5, <1>6, IntervalFacts
<1>8. raw'[k].ttl >= 2 * Interval + wait - (IF wait = 0 THEN late ELSE 0) - 1
  BY <1>4, <1>5, <1>6, <1>7, IntervalFacts
<1>9. CASE wait = 0
  BY <1>2, <1>3, <1>4, <1>6, <1>8, <1>9, IntervalFacts
<1>10. CASE wait > 0
  BY <1>2, <1>4, <1>6, <1>8, <1>10, IntervalFacts
<1> QED
  BY <1>4, <1>9, <1>10

(* Init and every step keep it.                                            *)
LEMMA RememberedStep == TypeOK /\ UnaskedPeersAreRemembered /\ [Next]_vars => UnaskedPeersAreRemembered'
<1> SUFFICES ASSUME TypeOK, UnaskedPeersAreRemembered, [Next]_vars
             PROVE  UnaskedPeersAreRemembered'
  OBVIOUS
<1>1. CASE \E s \in Servers, i \in Interfaces : AnswerPing(s, i)
  BY <1>1, RememberedUnchanged DEF AnswerPing, threadVars
<1>2. CASE \E x \in pongs : RawDiscoveryResultReceived(x)
  BY <1>2, ResultRemembered
<1>3. CASE \E s \in Servers : ServerChanges(s)
  BY <1>3, RememberedUnchanged DEF ServerChanges, threadVars
<1>4. CASE Pulse
  BY <1>4, PulseRemembers
<1>5. CASE Tick
  BY <1>5, TickRemembers
<1>6. CASE NetworkInterfacesChanged
  BY <1>6, RememberedUnchanged DEF NetworkInterfacesChanged, threadVars
<1>7. CASE DispatchCallbacks
  BY <1>7, RememberedUnchanged DEF DispatchCallbacks, threadVars
<1>8. CASE Stop
  <2>1. DOMAIN raw' = {}
    BY <1>8, NoneIsEmpty DEF Stop, ShutdownInternalThread
  <2> QED
    BY <2>1 DEF UnaskedPeersAreRemembered
<1>9. CASE Start
  BY <1>9, RememberedUnchanged DEF Start
<1>10. CASE \E t \in Targets : RegisterTarget(t) \/ UnregisterTarget(t)
  BY <1>10, RememberedUnchanged DEF RegisterTarget, UnregisterTarget, threadVars
<1>11. CASE UNCHANGED vars
  BY <1>11, RememberedUnchanged DEF vars
<1> QED
  BY <1>1, <1>2, <1>3, <1>4, <1>5, <1>6, <1>7, <1>8, <1>9, <1>10, <1>11 DEF Next, Deliver

(* A peer that a Pulse() forgets was pinged before, and is pinged now.     *)
LEMMA ForgottenPeersWereAsked ==
  ASSUME TypeOK, UnaskedPeersAreRemembered, [Next]_vars, active',
         NEW k \in DOMAIN raw \ DOMAIN raw'
  PROVE  unanswered'[k] >= 2
<1>1. Pulse
  <2>1. ~(UNCHANGED vars) /\ ~(UNCHANGED raw)
    BY DEF vars
  <2>2. ASSUME NEW x \in pongs, RawDiscoveryResultReceived(x)
        PROVE  FALSE
    BY <2>2 DEF RawDiscoveryResultReceived, RawResults
  <2>3. ~Tick
    BY TickFacts
  <2>4. ~Stop
    BY DEF Stop, ShutdownInternalThread
  <2>5. ~Start
    BY <2>1 DEF Start
  <2>6. ASSUME NEW s \in Servers, NEW i \in Interfaces, AnswerPing(s, i)
        PROVE  FALSE
    BY <2>1, <2>6 DEF AnswerPing, threadVars
  <2>7. ASSUME NEW s \in Servers, ServerChanges(s)
        PROVE  FALSE
    BY <2>1, <2>7 DEF ServerChanges, threadVars
  <2>8. ~NetworkInterfacesChanged /\ ~DispatchCallbacks
    BY <2>1 DEF NetworkInterfacesChanged, DispatchCallbacks, threadVars
  <2>9. ASSUME NEW t \in Targets, RegisterTarget(t) \/ UnregisterTarget(t)
        PROVE  FALSE
    BY <2>1, <2>9 DEF RegisterTarget, UnregisterTarget, threadVars
  <2> QED
    BY <2>1, <2>2, <2>3, <2>4, <2>5, <2>6, <2>7, <2>8, <2>9 DEF Next, Deliver
<1>2. wait = 0 /\ late < Interval /\ raw[k].ttl = 0
  BY <1>1, PulseFacts
<1>3. unanswered[k] # 0
  BY <1>2, IntervalFacts DEF UnaskedPeersAreRemembered, TypeOK
<1>4. unanswered' = [j \in DOMAIN unanswered |->
                       IF unanswered[j] < 2 THEN unanswered[j] + 1 ELSE 2]
  BY <1>1, <1>2 DEF Pulse
<1>5. k \in DOMAIN unanswered /\ unanswered[k] \in 0..2
  BY DEF TypeOK
<1> QED
  BY <1>3, <1>4, <1>5

(* Every variable of the client, its thread and the network keeps its type.*)
THEOREM DiscoveryTypeCorrect == Spec => []TypeOK
BY TypeOKInitially, TypeOKStep, PTL DEF Spec

(* Whatever the interval, the schedule of the thread and the losses on the *)
(* network: a peer is forgotten only when at least two pings went          *)
(* unanswered (DiscoveryClientManagerSession::Pulse).                      *)
THEOREM NobodyIsForgottenUnasked == Spec => NobodyVanishesUnasked
<1>1. Init => UnaskedPeersAreRemembered
  BY NoneIsEmpty DEF Init, UnaskedPeersAreRemembered
<1>2. TypeOK /\ UnaskedPeersAreRemembered /\ [Next]_vars
        => [active' => \A k \in DOMAIN raw \ DOMAIN raw' : unanswered'[k] >= 2]_vars
  BY ForgottenPeersWereAsked
<1> QED
  BY <1>1, <1>2, DiscoveryTypeCorrect, RememberedStep, PTL DEF Spec, NobodyVanishesUnasked

---------------------------------------------------------------------------
(* Targets catch up.                                                       *)

(* Once nothing waits, catching up means being up to date.                 *)
LEMMA CaughtUp ==
  ASSUME NEW now, NEW rest, DOMAIN updates = {}
  PROVE  CatchesUp(now, rest) <=>
           /\ \A x \in DOMAIN reported : x \in DOMAIN now /\ now[x] = reported[x]
           /\ DOMAIN now \subseteq DOMAIN reported \cup rest
BY PatchedWithNothing DEF CatchesUp

(* UpdateResultSet: the updates that it adds, on top of those not fetched  *)
(* yet, lead from whatever somebody knew to the new report.                *)
LEMMA UpdateResultSetBridges ==
  ASSUME NEW cooked, \A x \in DOMAIN cooked : cooked[x] # Gone,
         UpdateResultSet(cooked),
         NEW old, NEW rest, CatchesUp(old, rest)
  PROVE  /\ \A x \in DOMAIN reported' :
              /\ x \in DOMAIN Patched(old, updates')
              /\ Patched(old, updates')[x] = reported'[x]
         /\ DOMAIN Patched(old, updates') \subseteq DOMAIN reported' \cup rest
<1> DEFINE missing == DOMAIN reported \ DOMAIN cooked
           changed == {x \in DOMAIN cooked : x \in DOMAIN reported => reported[x] # cooked[x]}
           before == Patched(old, updates)
           after == Patched(old, updates')
<1>1. /\ updates' = [x \in DOMAIN updates \cup missing \cup changed |->
                       IF x \in missing THEN Gone
                       ELSE IF x \in changed THEN cooked[x] ELSE updates[x]]
      /\ reported' = cooked
  BY DEF UpdateResultSet
<1>2. /\ \A x \in DOMAIN reported : x \in DOMAIN before /\ before[x] = reported[x]
      /\ DOMAIN before \subseteq DOMAIN reported \cup rest
  BY DEF CatchesUp
<1>3. /\ \A x : x \in DOMAIN before <=>
                  /\ x \in DOMAIN old \/ x \in DOMAIN updates
                  /\ x \in DOMAIN updates => updates[x] # Gone
      /\ \A x \in DOMAIN before : before[x] = IF x \in DOMAIN updates THEN updates[x] ELSE old[x]
  BY PatchedEntries
<1>4. /\ \A x : x \in DOMAIN after <=>
                  /\ x \in DOMAIN old \/ x \in DOMAIN updates'
                  /\ x \in DOMAIN updates' => updates'[x] # Gone
      /\ \A x \in DOMAIN after : after[x] = IF x \in DOMAIN updates' THEN updates'[x] ELSE old[x]
  BY PatchedEntries
<1>5. \A x : (x \in missing <=> x \in DOMAIN reported /\ x \notin DOMAIN cooked)
  OBVIOUS
<1>6. \A x : x \in changed <=>
             /\ x \in DOMAIN cooked
             /\ x \in DOMAIN reported => reported[x] # cooked[x]
  OBVIOUS
<1> HIDE DEF missing, changed, before, after
<1>7. DOMAIN updates' = DOMAIN updates \cup missing \cup changed
  BY <1>1
<1>8. \A x \in missing : x \in DOMAIN updates' /\ updates'[x] = Gone
  BY <1>1, <1>7
<1>9. \A x \in changed : x \in DOMAIN updates' /\ updates'[x] = cooked[x]
  BY <1>1, <1>5, <1>6, <1>7
<1>10. ASSUME NEW x, x \notin missing, x \notin changed
       PROVE  /\ x \in DOMAIN after <=> x \in DOMAIN before
              /\ x \in DOMAIN before => after[x] = before[x]
  <2>1. x \in DOMAIN updates' <=> x \in DOMAIN updates
    BY <1>7, <1>10
  <2>2. x \in DOMAIN updates => updates'[x] = updates[x]
    BY <1>1, <1>10
  <2> QED
    BY <1>3, <1>4, <2>1, <2>2
<1>11. ASSUME NEW x \in DOMAIN cooked
       PROVE  x \in DOMAIN after /\ after[x] = cooked[x]
  <2>1. CASE x \in changed
    BY <1>4, <1>9, <1>11, <2>1
  <2>2. CASE x \notin changed
    <3>1. x \notin missing /\ x \in DOMAIN reported /\ reported[x] = cooked[x]
      BY <1>5, <1>6, <1>11, <2>2
    <3> QED
      BY <1>2, <1>10, <2>2, <3>1
  <2> QED
    BY <2>1, <2>2
<1>12. ASSUME NEW x \in DOMAIN after, x \notin DOMAIN cooked
       PROVE  x \in rest
  <2>1. x \notin changed
    BY <1>6, <1>12
  <2>2. x \notin missing
    BY <1>4, <1>8, <1>12
  <2> QED
    BY <1>2, <1>5, <1>10, <1>12, <2>1, <2>2
<1> QED
  BY <1>1, <1>11, <1>12 DEF after

(* A step that leaves the updates, the report and the main thread's state  *)
(* alone keeps the invariant.                                              *)
LEMMA GapUnchanged ==
  ASSUME UpdatesBridgeTheGap, UNCHANGED <<updates, reported, signal, mainVars>>
  PROVE  UpdatesBridgeTheGap'
BY DEF UpdatesBridgeTheGap, CatchesUp, Patched, mainVars

(* Pulse reports with UpdateResultSet or not at all.                       *)
LEMMA PulseBridges ==
  ASSUME TypeOK, UpdatesBridgeTheGap, Pulse
  PROVE  UpdatesBridgeTheGap'
<1>1. UNCHANGED mainVars
  BY DEF Pulse
<1>2. CASE UNCHANGED <<updates, signal, reported>>
  BY <1>1, <1>2, GapUnchanged
<1>3. CASE \E r : UpdateResultSet(CalculateCookedResults(r))
  <2>1. PICK r : UpdateResultSet(CalculateCookedResults(r))
    BY <1>3
  <2> DEFINE cooked == CalculateCookedResults(r)
  <2>2. UpdateResultSet(cooked) /\ \A x \in DOMAIN cooked : cooked[x] # Gone
    BY <2>1, CookedSystemsHavePeers
  <2> HIDE DEF cooked
  <2>3. \A old, rest : CatchesUp(old, rest) =>
          /\ \A x \in DOMAIN reported' :
               x \in DOMAIN Patched(old, updates') /\ Patched(old, updates')[x] = reported'[x]
          /\ DOMAIN Patched(old, updates') \subseteq DOMAIN reported' \cup rest
    BY <2>2, UpdateResultSetBridges
  <2>4. DOMAIN updates' # {} => signal'
    <3> DEFINE missing == DOMAIN reported \ DOMAIN cooked
               changed == {x \in DOMAIN cooked : x \in DOMAIN reported => reported[x] # cooked[x]}
    <3>1. /\ DOMAIN updates' = DOMAIN updates \cup missing \cup changed
          /\ signal' = (signal \/ missing \cup changed # {})
      BY <2>2 DEF UpdateResultSet
    <3> HIDE DEF missing, changed
    <3> QED
      BY <3>1 DEF UpdatesBridgeTheGap, TypeOK
  <2>5. signal => signal'
    BY <2>2 DEF UpdateResultSet
  <2>6. CatchesUp(known, {})'
    BY <1>1, <2>3 DEF UpdatesBridgeTheGap, CatchesUp, mainVars
  <2>7. ASSUME NEW t \in Targets, targets'[t] = "told"
        PROVE  CatchesUp(view[t], leftover)'
    BY <1>1, <2>3, <2>7 DEF UpdatesBridgeTheGap, CatchesUp, mainVars
  <2> QED
    BY <1>1, <2>4, <2>5, <2>6, <2>7 DEF UpdatesBridgeTheGap, mainVars
<1> QED
  BY <1>2, <1>3 DEF Pulse

(* DispatchCallbacks: nothing waits any more, and the main thread and      *)
(* every target know what was reported.                                    *)
LEMMA DispatchBridges ==
  ASSUME TypeOK, UpdatesBridgeTheGap, DispatchCallbacks
  PROVE  UpdatesBridgeTheGap'
<1>1. /\ updates' = None /\ reported' = reported /\ leftover' = leftover
      /\ known' = Patched(known, updates)
      /\ view' = [t \in Targets |-> Told(t)]
      /\ targets' = [t \in Targets |-> IF targets[t] = "none" THEN "none" ELSE "told"]
  BY DEF DispatchCallbacks, threadVars
<1>2. DOMAIN updates' = {}
  BY <1>1, NoneIsEmpty
<1> DEFINE UpToDate(v, rest) ==
             /\ \A x \in DOMAIN reported : x \in DOMAIN v /\ v[x] = reported[x]
             /\ DOMAIN v \subseteq DOMAIN reported \cup rest
<1>3. ASSUME NEW old, NEW rest, CatchesUp(old, rest)
      PROVE  UpToDate(Patched(old, updates), rest)
  BY <1>3 DEF CatchesUp
<1>4. \A v, rest : CatchesUp(v, rest)' <=> UpToDate(v, rest)'
  <2> QED
    BY <1>2, PatchedWithNothing DEF CatchesUp
<1>5. CatchesUp(known, {}) /\ \A x \in DOMAIN known : known[x] # Gone
  BY DEF UpdatesBridgeTheGap
<1>6. UpToDate(known', {})
  BY <1>1, <1>3, <1>5
<1>7. \A x \in DOMAIN known' : known'[x] # Gone
  BY <1>1, <1>5, PatchedIsNeverGone
<1>8. ASSUME NEW t \in Targets, targets'[t] = "told"
      PROVE  UpToDate(view'[t], leftover)
  <2>1. view'[t] = Told(t) /\ targets[t] \in {"new", "told"}
    BY <1>1, <1>8 DEF TypeOK
  <2>2. CASE targets[t] = "told"
    BY <1>3, <2>1, <2>2 DEF UpdatesBridgeTheGap, Told
  <2>3. CASE targets[t] = "new"
    <3> DEFINE first == Patched(view[t], known)
    <3>1. Told(t) = Patched(first, updates)
      BY <2>3 DEF Told
    <3>2. DOMAIN view[t] = {}
      BY <2>3 DEF UpdatesBridgeTheGap
    <3>3. DOMAIN first = DOMAIN known /\ \A x \in DOMAIN known : first[x] = known[x]
      BY <1>5, <3>2, PatchedFromNothing
    <3> HIDE DEF first
    <3>4. /\ DOMAIN Patched(first, updates) = DOMAIN Patched(known, updates)
          /\ \A x \in DOMAIN Patched(known, updates) :
               Patched(first, updates)[x] = Patched(known, updates)[x]
      BY <3>3 DEF Patched
    <3> QED
      BY <1>1, <1>6, <2>1, <3>1, <3>4
  <2> QED
    BY <2>1, <2>2, <2>3
<1>9. CatchesUp(known, {})'
  BY <1>1, <1>4, <1>6
<1>10. ASSUME NEW t \in Targets
       PROVE  /\ targets'[t] # "new"
              /\ targets'[t] = "told" => CatchesUp(view[t], leftover)'
  BY <1>1, <1>4, <1>8
<1> QED
  BY <1>2, <1>7, <1>9, <1>10 DEF UpdatesBridgeTheGap

(* Stop: nothing is reported any more, and what the targets know is left   *)
(* over.                                                                   *)
LEMMA StopBridges ==
  ASSUME TypeOK, UpdatesBridgeTheGap, Stop
  PROVE  UpdatesBridgeTheGap'
<1>1. /\ DOMAIN updates' = {} /\ DOMAIN reported' = {} /\ DOMAIN known' = {}
      /\ UNCHANGED <<signal, targets, view>>
  BY NoneIsEmpty DEF Stop, ShutdownInternalThread
<1>2. \A t \in Targets : DOMAIN view[t] \subseteq leftover'
  BY DEF Stop
<1>3. CatchesUp(known, {})'
  BY <1>1, PatchedWithNothing DEF CatchesUp
<1>4. ASSUME NEW t \in Targets
      PROVE  CatchesUp(view[t], leftover)'
  <2>1. DOMAIN Patched(view'[t], updates') = DOMAIN view'[t]
    BY <1>1, PatchedWithNothing
  <2> QED
    BY <1>1, <1>2, <2>1 DEF CatchesUp
<1> QED
  BY <1>1, <1>3, <1>4 DEF UpdatesBridgeTheGap

(* A target that registers starts from nothing, with a signal under way;   *)
(* one that goes does not count any more.                                  *)
LEMMA TargetsComeAndGo ==
  ASSUME TypeOK, UpdatesBridgeTheGap, NEW t \in Targets, RegisterTarget(t) \/ UnregisterTarget(t)
  PROVE  UpdatesBridgeTheGap'
<1>1. UNCHANGED <<updates, reported, known, leftover>> /\ (signal => signal')
  BY DEF RegisterTarget, UnregisterTarget, threadVars
<1>2. \A u \in Targets \ {t} : targets'[u] = targets[u] /\ view'[u] = view[u]
  BY DEF RegisterTarget, UnregisterTarget, TypeOK
<1>3. \/ targets'[t] = "new" /\ DOMAIN view'[t] = {} /\ signal'
      \/ targets'[t] = "none"
  BY NoneIsEmpty DEF RegisterTarget, UnregisterTarget, TypeOK
<1>4. \A old, rest : CatchesUp(old, rest) =>
        /\ \A x \in DOMAIN reported' :
             x \in DOMAIN Patched(old, updates') /\ Patched(old, updates')[x] = reported'[x]
        /\ DOMAIN Patched(old, updates') \subseteq DOMAIN reported' \cup rest
  BY <1>1 DEF CatchesUp
<1>5. CatchesUp(known, {})'
  BY <1>1, <1>4 DEF UpdatesBridgeTheGap, CatchesUp
<1>6. ASSUME NEW u \in Targets, targets'[u] = "told"
      PROVE  CatchesUp(view[u], leftover)'
  <2>1. u # t
    BY <1>3, <1>6
  <2> QED
    BY <1>1, <1>2, <1>4, <1>6, <2>1 DEF UpdatesBridgeTheGap, CatchesUp
<1>7. ASSUME NEW u \in Targets, targets'[u] = "new"
      PROVE  signal' /\ DOMAIN view'[u] = {}
  BY <1>1, <1>2, <1>3, <1>7 DEF UpdatesBridgeTheGap
<1> QED
  BY <1>1, <1>5, <1>6, <1>7 DEF UpdatesBridgeTheGap

(* Whatever the servers, the network and the two threads do, the updates   *)
(* left for the main thread are just what it and its targets are behind.   *)
THEOREM UpdatesAreNeverLost == Spec => []UpdatesBridgeTheGap
<1>1. Init => UpdatesBridgeTheGap
  <2> SUFFICES ASSUME Init PROVE UpdatesBridgeTheGap
    OBVIOUS
  <2>1. DOMAIN updates = {} /\ DOMAIN reported = {} /\ DOMAIN known = {}
    BY NoneIsEmpty DEF Init
  <2>2. CatchesUp(known, {})
    BY <2>1, PatchedWithNothing DEF CatchesUp
  <2>3. \A t \in Targets : targets[t] = "none"
    BY DEF Init
  <2> QED
    BY <2>1, <2>2, <2>3 DEF UpdatesBridgeTheGap
<1>2. TypeOK /\ UpdatesBridgeTheGap /\ [Next]_vars => UpdatesBridgeTheGap'
  <2> SUFFICES ASSUME TypeOK, UpdatesBridgeTheGap, [Next]_vars
               PROVE  UpdatesBridgeTheGap'
    OBVIOUS
  <2>1. CASE Deliver
    BY <2>1, GapUnchanged DEF Deliver, AnswerPing, RawDiscoveryResultReceived, threadVars
  <2>2. CASE \E s \in Servers : ServerChanges(s)
    BY <2>2, GapUnchanged DEF ServerChanges, threadVars
  <2>3. CASE Pulse
    BY <2>3, PulseBridges
  <2>4. CASE Tick
    BY <2>4, GapUnchanged DEF Tick
  <2>5. CASE NetworkInterfacesChanged
    BY <2>5, GapUnchanged DEF NetworkInterfacesChanged, threadVars
  <2>6. CASE DispatchCallbacks
    BY <2>6, DispatchBridges
  <2>7. CASE Stop
    BY <2>7, StopBridges
  <2>8. CASE Start
    BY <2>8, GapUnchanged DEF Start
  <2>9. CASE \E t \in Targets : RegisterTarget(t) \/ UnregisterTarget(t)
    BY <2>9, TargetsComeAndGo
  <2>10. CASE UNCHANGED vars
    BY <2>10, GapUnchanged DEF vars, mainVars
  <2> QED
    BY <2>1, <2>2, <2>3, <2>4, <2>5, <2>6, <2>7, <2>8, <2>9, <2>10 DEF Next
<1> QED
  BY <1>1, <1>2, DiscoveryTypeCorrect, PTL DEF Spec

(* Once the main thread has nothing left to fetch, every target it has     *)
(* told anything knows what was last reported (DispatchCallbacks,          *)
(* ReportSystemUpdate).                                                    *)
THEOREM TargetsCatchUp == Spec => []TargetsAreUpToDate
<1>1. UpdatesBridgeTheGap => TargetsAreUpToDate
  BY CaughtUp DEF UpdatesBridgeTheGap, TargetsAreUpToDate
<1> QED
  BY <1>1, UpdatesAreNeverLost, PTL
============================================================================

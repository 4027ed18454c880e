---------------------- MODULE DatabaseReplicationProofs ----------------------
(***************************************************************************)
(* Theorems about DatabaseReplication, for every number of peers, every    *)
(* bound and every set of faults: where everything in it comes from; the   *)
(* back-orders; and the reign of one senior peer (ReignSpec), in which     *)
(* there is one update per state ID, the peers implement                   *)
(* ReplicatedDatabase, and no log is left over its budget.                 *)
(***************************************************************************)
EXTENDS DatabaseReplication, FiniteSetTheorems, WellFoundedInduction, TLAPS

(***************************************************************************)
(* Lemmas on the operators of PZGDatabaseState: every one of them turns a  *)
(* sound database state into a sound one.                                  *)
(***************************************************************************)

---------------------------------------------------------------------------
(* Greatest and least elements.                                            *)

(* A nonempty set of natural numbers has a least element, so FirstKey() of *)
(* a log is one of its keys.                                               *)
LEMMA LeastElement ==
  ASSUME NEW S \in SUBSET Nat, S # {}
  PROVE  Min(S) \in S /\ \A y \in S : Min(S) <= y
<1>1. PICK x \in S : \A y \in S : ~ (<<y, x>> \in OpToRel(<, Nat))
  BY NatLessThanWellFounded, WFMin
<1>2. \A y \in S : ~ (y < x)
  BY <1>1 DEF OpToRel
<1>3. \A y \in S : x <= y
  BY <1>2
<1> QED
  BY <1>3 DEF Min

(* A nonempty set of natural numbers with an upper bound has a greatest    *)
(* element, so LastKey() of a log is one of its keys.                      *)
LEMMA GreatestElement ==
  ASSUME NEW N \in Nat, NEW S \in SUBSET (0 .. N), S # {}
  PROVE  Max(S) \in S /\ \A y \in S : y <= Max(S)
<1> DEFINE T == {n \in Nat : \E s \in S : n = N - s}
<1>1. \A y \in S : N - y \in T
  OBVIOUS
<1>2. T \in SUBSET Nat /\ T # {}
  BY <1>1
<1>3. Min(T) \in T /\ \A y \in T : Min(T) <= y
  BY <1>2, LeastElement
<1>4. PICK s \in S : Min(T) = N - s
  BY <1>3
<1>5. \A y \in S : y <= s
  BY <1>1, <1>3, <1>4
<1> QED
  BY <1>5 DEF Max

---------------------------------------------------------------------------
(* Logs.                                                                   *)

(* A log is a function from some of the IDs 1..MaxStateID to updates.      *)
LEMMA LogMembership ==
  ASSUME NEW f
  PROVE  f \in Logs <=> /\ DOMAIN f \subseteq 1 .. MaxStateID
                        /\ f \in [DOMAIN f -> Updates]
  BY DEF Logs

(* Any set of a log's entries is finite, so its bytes can be counted.      *)
LEMMA BytesInType ==
  ASSUME NEW log \in Logs, NEW S
  PROVE  /\ IsFiniteSet({k \in DOMAIN log \cap S : log[k].payload})
         /\ BytesIn(log, S) \in Nat
<1>1. IsFiniteSet(1 .. MaxStateID)
  BY BoundsAssumption, FS_Interval
<1>2. {k \in DOMAIN log \cap S : log[k].payload} \in SUBSET (1 .. MaxStateID)
  BY LogMembership
<1>3. IsFiniteSet({k \in DOMAIN log \cap S : log[k].payload})
  BY <1>1, <1>2, FS_Subset
<1> QED
  BY <1>3, FS_CardinalityType DEF BytesIn

(* LastKey() and FirstKey() are keys of the log, or the marks of an empty  *)
(* one.                                                                    *)
LEMMA KeysType ==
  ASSUME NEW log \in Logs
  PROVE  /\ LastKey(log) \in StateIDs
         /\ \A k \in DOMAIN log : k <= LastKey(log)
         /\ FirstKey(log) \in StateIDs \cup {NoOldestID}
<1>1. DOMAIN log \in SUBSET (0 .. MaxStateID) /\ DOMAIN log \in SUBSET Nat
  BY LogMembership, BoundsAssumption
<1>2. CASE DOMAIN log = {}
  BY <1>2, BoundsAssumption DEF LastKey, FirstKey, StateIDs, NoOldestID
<1>3. CASE DOMAIN log # {}
  <2>1. Max(DOMAIN log) \in DOMAIN log /\ \A y \in DOMAIN log : y <= Max(DOMAIN log)
    BY <1>1, <1>3, GreatestElement, BoundsAssumption
  <2>2. Min(DOMAIN log) \in DOMAIN log
    BY <1>1, <1>3, LeastElement
  <2> QED
    BY <1>1, <1>3, <2>1, <2>2 DEF LastKey, FirstKey, StateIDs
<1> QED
  BY <1>2, <1>3

(* Taking entries out of a log takes exactly their bytes out of it.        *)
LEMMA BytesRemoved ==
  ASSUME NEW log \in Logs, NEW ids
  PROVE  LET rest == [k \in DOMAIN log \ ids |-> log[k]]
         IN  /\ rest \in Logs
             /\ BytesIn(rest, 1 .. MaxStateID)
                  = BytesIn(log, 1 .. MaxStateID) - BytesIn(log, ids)
<1> DEFINE rest == [k \in DOMAIN log \ ids |-> log[k]]
           A == {k \in DOMAIN log \cap (1 .. MaxStateID) : log[k].payload}
           B == {k \in DOMAIN log \cap ids : log[k].payload}
           C == {k \in DOMAIN rest \cap (1 .. MaxStateID) : rest[k].payload}
<1>1. DOMAIN log \subseteq 1 .. MaxStateID /\ log \in [DOMAIN log -> Updates]
  BY LogMembership
<1>2. rest \in Logs
  <2>1. DOMAIN rest \subseteq 1 .. MaxStateID /\ rest \in [DOMAIN rest -> Updates]
    BY <1>1
  <2> QED
    BY <2>1, LogMembership
<1>3. C = A \ B /\ A \cap B = B
  BY <1>1
<1>4. IsFiniteSet(A)
  BY BytesInType
<1>5. Cardinality(A \ B) = Cardinality(A) - Cardinality(A \cap B)
  BY <1>4, FS_Difference
<1> QED
  BY <1>2, <1>3, <1>5 DEF BytesIn

(* Adding an update to a log adds at most its bytes to it: fewer when it   *)
(* replaces an entry.                                                      *)
LEMMA BytesAdded ==
  ASSUME NEW log \in Logs, NEW up \in Updates, up.id > 0
  PROVE  LET more == [k \in DOMAIN log \cup {up.id} |-> IF k = up.id THEN up ELSE log[k]]
         IN  /\ more \in Logs
             /\ BytesIn(more, 1 .. MaxStateID) <= BytesIn(log, 1 .. MaxStateID) + Bytes(up)
<1> DEFINE more == [k \in DOMAIN log \cup {up.id} |-> IF k = up.id THEN up ELSE log[k]]
           A == {k \in DOMAIN log \cap (1 .. MaxStateID) : log[k].payload}
           C == {k \in DOMAIN more \cap (1 .. MaxStateID) : more[k].payload}
<1>1. DOMAIN log \subseteq 1 .. MaxStateID /\ log \in [DOMAIN log -> Updates]
  BY LogMembership
<1>2. up.id \in 1 .. MaxStateID /\ up.payload \in BOOLEAN
  BY BoundsAssumption DEF Updates, StateIDs
<1>3. more \in Logs
  <2>1. DOMAIN more \subseteq 1 .. MaxStateID /\ more \in [DOMAIN more -> Updates]
    BY <1>1, <1>2
  <2> QED
    BY <2>1, LogMembership
<1>4. IsFiniteSet(A) /\ Cardinality(A) \in Nat
  BY BytesInType, FS_CardinalityType
<1>5. IsFiniteSet(C) /\ Cardinality(C) \in Nat
  BY <1>3, BytesInType, FS_CardinalityType
<1>6. CASE up.payload
  <2>1. C \in SUBSET (A \cup {up.id})
    BY <1>1
  <2>2. /\ IsFiniteSet(A \cup {up.id})
        /\ Cardinality(A \cup {up.id})
             = IF up.id \in A THEN Cardinality(A) ELSE Cardinality(A) + 1
    <3> HIDE DEF A
    <3> QED BY <1>4, FS_AddElement
  <2>3. Cardinality(C) <= Cardinality(A \cup {up.id})
    BY <2>1, <2>2, FS_Subset
  <2>4. Cardinality(A \cup {up.id}) \in Nat
    BY <2>2, FS_CardinalityType
  <2> QED
    BY <1>3, <1>4, <1>5, <1>6, <2>2, <2>3, <2>4 DEF BytesIn, Bytes
<1>7. CASE ~up.payload
  <2>1. C \in SUBSET A
    BY <1>1, <1>7
  <2>2. Cardinality(C) <= Cardinality(A)
    BY <2>1, <1>4, FS_Subset
  <2> QED
    BY <1>3, <1>4, <1>5, <1>7, <2>2 DEF BytesIn, Bytes
<1> QED
  BY <1>2, <1>6, <1>7

---------------------------------------------------------------------------
(* Sound database states.                                                  *)

(* The facts about a sound state's fields that the proofs below rest on.   *)
LEMMA SoundFields ==
  ASSUME NEW held, NEW d, SoundDatabaseState(d, held)
  PROVE  /\ d \in DatabaseStates
         /\ d.updateLog \in Logs
         /\ DOMAIN d.updateLog \subseteq 1 .. MaxStateID
         /\ \A k \in DOMAIN d.updateLog :
              /\ d.updateLog[k] \in Updates
              /\ d.updateLog[k].id = k
              /\ <<k, d.updateLog[k].post>> \in held
<1>1. d \in DatabaseStates /\ d.updateLog \in Logs
  BY DEF SoundDatabaseState, DatabaseStates
<1> QED
  BY <1>1, LogMembership DEF SoundDatabaseState

(* More states that seniors have held do not harm a sound state.           *)
LEMMA SoundMonotone ==
  ASSUME NEW held, NEW more, held \subseteq more, NEW d, SoundDatabaseState(d, held)
  PROVE  SoundDatabaseState(d, more)
  BY DEF SoundDatabaseState

(* A step that leaves the log and its byte count alone keeps a state       *)
(* sound.                                                                  *)
LEMMA SoundSameLog ==
  ASSUME NEW held, NEW d, SoundDatabaseState(d, held), NEW e \in DatabaseStates,
         e.updateLog = d.updateLog, e.totalBytes = d.totalBytes
  PROVE  SoundDatabaseState(e, held)
  BY DEF SoundDatabaseState

(* A new database state is sound.                                          *)
LEMMA NewIsSound ==
  ASSUME NEW held
  PROVE  SoundDatabaseState(NewDatabaseState, held)
<1>1. NewDatabaseState.updateLog \in Logs /\ DOMAIN NewDatabaseState.updateLog = {}
  <2>1. DOMAIN NewDatabaseState.updateLog = {}
    BY DEF NewDatabaseState
  <2> QED
    BY <2>1, LogMembership DEF NewDatabaseState
<1>2. NewDatabaseState \in DatabaseStates
  BY <1>1, ContentsAssumption, BoundsAssumption
  DEF NewDatabaseState, DatabaseStates, StateIDs, NoOldestID
<1>3. BytesIn(NewDatabaseState.updateLog, 1 .. MaxStateID) = 0
  <2>1. {k \in DOMAIN NewDatabaseState.updateLog \cap (1 .. MaxStateID) :
           NewDatabaseState.updateLog[k].payload} = {}
    BY <1>1
  <2> QED
    BY <2>1, FS_EmptySet DEF BytesIn
<1> QED
  BY <1>1, <1>2, <1>3 DEF SoundDatabaseState, NewDatabaseState

(* Logging an update that leads to a state in `held' keeps a state sound   *)
(* and leaves the database itself alone.                                   *)
LEMMA AddIsSound ==
  ASSUME NEW held, NEW d, SoundDatabaseState(d, held),
         NEW up \in Updates, up.id > 0, <<up.id, up.post>> \in held,
         NEW iAmSenior \in BOOLEAN
  PROVE  LET e == AddDatabaseUpdateToUpdateLog(d, up, iAmSenior)
         IN  /\ SoundDatabaseState(e, held)
             /\ e.stateID = d.stateID /\ e.contents = d.contents
             /\ e.backorders = d.backorders
<1> DEFINE more == [k \in DOMAIN d.updateLog \cup {up.id} |->
                      IF k = up.id THEN up ELSE d.updateLog[k]]
           e == AddDatabaseUpdateToUpdateLog(d, up, iAmSenior)
<1>1. d \in DatabaseStates /\ d.updateLog \in Logs
  BY SoundFields
<1>2. more \in Logs /\ BytesIn(more, 1 .. MaxStateID)
                        <= BytesIn(d.updateLog, 1 .. MaxStateID) + Bytes(up)
  BY <1>1, BytesAdded
<1>3. Bytes(up) \in 0 .. 1
  BY DEF Bytes
<1>4. up.id \in StateIDs
  BY DEF Updates
<1> HIDE DEF more
<1>5. e = [d EXCEPT !.updateLog = more, !.totalBytes = d.totalBytes + Bytes(up),
             !.seniorOldest = IF iAmSenior /\ DOMAIN d.updateLog = {}
                                THEN up.id ELSE d.seniorOldest,
             !.rescanPending = d.rescanPending \/ d.attached]
  BY <1>1 DEF AddDatabaseUpdateToUpdateLog, ScheduleLogContentsRescan, more, DatabaseStates
<1>6. e \in DatabaseStates
  <2> DEFINE oldest == IF iAmSenior /\ DOMAIN d.updateLog = {} THEN up.id ELSE d.seniorOldest
             pending == d.rescanPending \/ d.attached
             total == d.totalBytes + Bytes(up)
  <2>1. oldest \in StateIDs \cup {NoOldestID}
    BY <1>1, <1>4 DEF DatabaseStates
  <2>2. pending \in BOOLEAN /\ total \in Int
    BY <1>1, <1>3 DEF DatabaseStates
  <2> HIDE DEF oldest, pending, total, e
  <2>3. e = [d EXCEPT !.updateLog = more, !.totalBytes = total,
               !.seniorOldest = oldest, !.rescanPending = pending]
    BY <1>5 DEF oldest, pending, total, e
  <2> QED
    BY <1>1, <1>2, <2>1, <2>2, <2>3 DEF DatabaseStates
<1>7. /\ e.updateLog = more /\ e.totalBytes = d.totalBytes + Bytes(up)
      /\ e.stateID = d.stateID /\ e.contents = d.contents
      /\ e.backorders = d.backorders
  BY <1>1, <1>5 DEF DatabaseStates
<1>8. BytesIn(more, 1 .. MaxStateID) <= e.totalBytes
  <2>1. BytesIn(d.updateLog, 1 .. MaxStateID) \in Nat /\ BytesIn(more, 1 .. MaxStateID) \in Nat
    BY <1>1, <1>2, BytesInType
  <2>2. d.totalBytes \in Int
    BY <1>1 DEF DatabaseStates
  <2> QED
    BY <1>2, <1>3, <1>7, <2>1, <2>2 DEF SoundDatabaseState
<1>9. \A k \in DOMAIN more : more[k].id = k /\ <<k, more[k].post>> \in held
  BY DEF SoundDatabaseState, more
<1> HIDE DEF e
<1>10. SoundDatabaseState(e, held)
  BY <1>6, <1>7, <1>8, <1>9 DEF SoundDatabaseState
<1> QED
  BY <1>7, <1>10 DEF e

(* Taking entries out of the log keeps a state sound and leaves the rest   *)
(* of the log, and the database itself, alone.                             *)
LEMMA RemoveIsSound ==
  ASSUME NEW held, NEW d, SoundDatabaseState(d, held), NEW ids,
         NEW iAmSenior \in BOOLEAN
  PROVE  LET e == RemoveDatabaseUpdatesFromUpdateLog(d, ids, iAmSenior)
         IN  /\ SoundDatabaseState(e, held)
             /\ e.stateID = d.stateID /\ e.contents = d.contents
             /\ e.backorders = d.backorders
             /\ \A k \in DOMAIN e.updateLog : k \notin ids
<1> DEFINE rest == [k \in DOMAIN d.updateLog \ ids |-> d.updateLog[k]]
           e == RemoveDatabaseUpdatesFromUpdateLog(d, ids, iAmSenior)
<1>1. d \in DatabaseStates /\ d.updateLog \in Logs
  BY SoundFields
<1>2. rest \in Logs /\ BytesIn(rest, 1 .. MaxStateID)
                        = BytesIn(d.updateLog, 1 .. MaxStateID) - BytesIn(d.updateLog, ids)
  BY <1>1, BytesRemoved
<1>3. /\ BytesIn(d.updateLog, ids) \in Nat
      /\ BytesIn(d.updateLog, 1 .. MaxStateID) \in Nat
  BY <1>1, BytesInType
<1> HIDE DEF rest
<1>4. e = [d EXCEPT !.updateLog = rest,
             !.totalBytes = d.totalBytes - BytesIn(d.updateLog, ids),
             !.seniorOldest = IF iAmSenior /\ ids # {} /\ DOMAIN d.updateLog \ ids = {}
                                THEN NoOldestID ELSE d.seniorOldest]
  BY <1>1 DEF RemoveDatabaseUpdatesFromUpdateLog, rest, DatabaseStates
<1>5. e \in DatabaseStates
  <2> DEFINE oldest == IF iAmSenior /\ ids # {} /\ DOMAIN d.updateLog \ ids = {}
                         THEN NoOldestID ELSE d.seniorOldest
             total == d.totalBytes - BytesIn(d.updateLog, ids)
  <2>1. oldest \in StateIDs \cup {NoOldestID} /\ total \in Int
    BY <1>1, <1>3 DEF DatabaseStates
  <2> HIDE DEF oldest, total, e
  <2>2. e = [d EXCEPT !.updateLog = rest, !.totalBytes = total, !.seniorOldest = oldest]
    BY <1>4 DEF oldest, total, e
  <2> QED
    BY <1>1, <1>2, <2>1, <2>2 DEF DatabaseStates
<1>6. /\ e.updateLog = rest /\ e.totalBytes = d.totalBytes - BytesIn(d.updateLog, ids)
      /\ e.stateID = d.stateID /\ e.contents = d.contents
      /\ e.backorders = d.backorders
  BY <1>1, <1>4 DEF DatabaseStates
<1>7. BytesIn(rest, 1 .. MaxStateID) <= e.totalBytes
  <2>1. d.totalBytes \in Int
    BY <1>1 DEF DatabaseStates
  <2> QED
    BY <1>2, <1>3, <1>6, <2>1 DEF SoundDatabaseState
<1>8. \A k \in DOMAIN rest : rest[k].id = k /\ <<k, rest[k].post>> \in held
  BY DEF SoundDatabaseState, rest
<1>9. \A k \in DOMAIN rest : k \notin ids
  BY DEF rest
<1> HIDE DEF e
<1>10. SoundDatabaseState(e, held)
  BY <1>5, <1>6, <1>7, <1>8 DEF SoundDatabaseState
<1> QED
  BY <1>6, <1>9, <1>10 DEF e

(* Scheduling a rescan touches nothing else.                               *)
LEMMA ScheduleIsSound ==
  ASSUME NEW held, NEW d, SoundDatabaseState(d, held)
  PROVE  LET e == ScheduleLogContentsRescan(d)
         IN  /\ SoundDatabaseState(e, held)
             /\ e.stateID = d.stateID /\ e.contents = d.contents
             /\ e.backorders = d.backorders
<1> DEFINE pending == d.rescanPending \/ d.attached
           e == ScheduleLogContentsRescan(d)
<1>1. d \in DatabaseStates
  BY SoundFields
<1>2. pending \in BOOLEAN
  OBVIOUS
<1>3. e = [d EXCEPT !.rescanPending = pending]
  BY <1>1 DEF ScheduleLogContentsRescan, DatabaseStates
<1> HIDE DEF pending, e
<1>4. /\ e \in DatabaseStates
      /\ e.updateLog = d.updateLog /\ e.totalBytes = d.totalBytes
      /\ e.stateID = d.stateID /\ e.contents = d.contents
      /\ e.backorders = d.backorders
  BY <1>1, <1>2, <1>3 DEF DatabaseStates
<1>5. SoundDatabaseState(e, held)
  BY <1>4, SoundSameLog
<1> QED
  BY <1>4, <1>5 DEF e

(* The trimming loop never touches the database itself.                    *)
LEMMA TrimIsSound ==
  ASSUME NEW held, NEW d, SoundDatabaseState(d, held), NEW needed,
         NEW iAmSenior \in BOOLEAN
  PROVE  LET e == TrimUpdateLog(d, needed, iAmSenior)
         IN  /\ SoundDatabaseState(e, held)
             /\ e.stateID = d.stateID /\ e.contents = d.contents
             /\ e.backorders = d.backorders
  BY RemoveIsSound DEF TrimUpdateLog

(* A successful request leaves the senior peer one state further, in a     *)
(* sound state, provided that the new state counts as held.                *)
LEMMA CompletedIsSound ==
  ASSUME NEW held, NEW d, SoundDatabaseState(d, held), d.stateID < MaxStateID,
         NEW c \in Contents, NEW hasPayload \in BOOLEAN,
         <<d.stateID + 1, c>> \in held
  PROVE  LET e == SeniorUpdateCompleted(d, c, hasPayload)
         IN  /\ SoundDatabaseState(e, held)
             /\ e.stateID = d.stateID + 1 /\ e.contents = c
<1> DEFINE up == [id |-> d.stateID + 1, pre |-> d.contents, post |-> c,
                  payload |-> hasPayload]
           logged == AddDatabaseUpdateToUpdateLog(d, up, TRUE)
           e == SeniorUpdateCompleted(d, c, hasPayload)
<1>1. d \in DatabaseStates
  BY SoundFields
<1>2. d.stateID + 1 \in StateIDs /\ d.stateID + 1 > 0 /\ d.contents \in Contents
  BY <1>1, BoundsAssumption DEF DatabaseStates, StateIDs
<1>3. up \in Updates /\ up.id = d.stateID + 1 /\ up.post = c
  BY <1>2 DEF Updates
<1> HIDE DEF up
<1>4. SoundDatabaseState(logged, held)
  BY <1>2, <1>3, AddIsSound
<1>5. e = [logged EXCEPT !.contents = c, !.stateID = d.stateID + 1,
                         !.seniorStateID = d.stateID + 1]
  BY DEF SeniorUpdateCompleted, up
<1> HIDE DEF logged, e
<1>6. logged \in DatabaseStates
  BY <1>4, SoundFields
<1>7. /\ e \in DatabaseStates
      /\ e.updateLog = logged.updateLog /\ e.totalBytes = logged.totalBytes
      /\ e.stateID = d.stateID + 1 /\ e.contents = c
  BY <1>2, <1>5, <1>6 DEF DatabaseStates
<1>8. SoundDatabaseState(e, held)
  BY <1>4, <1>7, SoundSameLog
<1> QED
  BY <1>7, <1>8 DEF e

(* A failed request is rolled back as far as the log goes: the entry that  *)
(* names a state nobody held is gone again.                                *)
LEMMA RolledBackIsSound ==
  ASSUME NEW held, NEW d, SoundDatabaseState(d, held), d.stateID < MaxStateID,
         NEW c \in Contents
  PROVE  LET e == SeniorUpdateRolledBack(d, c)
         IN  /\ SoundDatabaseState(e, held)
             /\ e.stateID = d.stateID /\ e.contents = c
<1> DEFINE up == [id |-> d.stateID + 1, pre |-> d.contents, post |-> d.contents,
                  payload |-> FALSE]
           more == held \cup {<<d.stateID + 1, d.contents>>}
           logged == AddDatabaseUpdateToUpdateLog(d, up, TRUE)
           back == RemoveDatabaseUpdatesFromUpdateLog(logged, {up.id}, TRUE)
           e == SeniorUpdateRolledBack(d, c)
<1>1. d \in DatabaseStates
  BY SoundFields
<1>2. d.stateID + 1 \in StateIDs /\ d.stateID + 1 > 0 /\ d.contents \in Contents
  BY <1>1, BoundsAssumption DEF DatabaseStates, StateIDs
<1>3. up \in Updates /\ up.id = d.stateID + 1 /\ up.post = d.contents
  BY <1>2 DEF Updates
<1>4. SoundDatabaseState(d, more)
  BY SoundMonotone
<1>5. e = [back EXCEPT !.contents = c]
  BY DEF SeniorUpdateRolledBack
<1> HIDE DEF up
<1>6. <<up.id, up.post>> \in more
  BY <1>3
<1>7. SoundDatabaseState(logged, more) /\ logged.stateID = d.stateID
  <2> HIDE DEF more
  <2> QED BY <1>2, <1>3, <1>4, <1>6, AddIsSound
<1> HIDE DEF logged
<1>8. /\ SoundDatabaseState(back, more) /\ back.stateID = d.stateID
      /\ \A k \in DOMAIN back.updateLog : k \notin {up.id}
  <2> DEFINE ids == {up.id}
  <2> HIDE DEF more, ids
  <2>1. \A iAmSenior \in BOOLEAN :
          LET rest == RemoveDatabaseUpdatesFromUpdateLog(logged, ids, iAmSenior)
          IN  /\ SoundDatabaseState(rest, more)
              /\ rest.stateID = logged.stateID /\ rest.contents = logged.contents
              /\ rest.backorders = logged.backorders
              /\ \A k \in DOMAIN rest.updateLog : k \notin ids
    BY <1>7, RemoveIsSound
  <2>2. LET rest == RemoveDatabaseUpdatesFromUpdateLog(logged, ids, TRUE)
        IN  /\ SoundDatabaseState(rest, more) /\ rest.stateID = logged.stateID
            /\ \A k \in DOMAIN rest.updateLog : k \notin ids
    BY <2>1
  <2> QED BY <1>7, <2>2 DEF ids
<1> HIDE DEF back
<1>9. SoundDatabaseState(back, held)
  <2>1. \A k \in DOMAIN back.updateLog :
          /\ k # d.stateID + 1
          /\ back.updateLog[k].id = k /\ <<k, back.updateLog[k].post>> \in more
    BY <1>3, <1>8 DEF SoundDatabaseState
  <2>2. \A k \in DOMAIN back.updateLog : <<k, back.updateLog[k].post>> \in held
    BY <2>1
  <2> QED
    BY <1>8, <2>1, <2>2 DEF SoundDatabaseState
<1> HIDE DEF e
<1>10. back \in DatabaseStates
  BY <1>9, SoundFields
<1>11. /\ e \in DatabaseStates
       /\ e.updateLog = back.updateLog /\ e.totalBytes = back.totalBytes
       /\ e.stateID = d.stateID /\ e.contents = c
  BY <1>5, <1>8, <1>10 DEF DatabaseStates
<1>12. SoundDatabaseState(e, held)
  BY <1>9, <1>11, SoundSameLog
<1> QED
  BY <1>11, <1>12 DEF e

(* The senior peer's rescan never touches the database itself.             *)
LEMMA SeniorRescannedIsSound ==
  ASSUME NEW held, NEW d, SoundDatabaseState(d, held)
  PROVE  LET e == SeniorRescanned(d)
         IN  /\ SoundDatabaseState(e, held)
             /\ e.stateID = d.stateID /\ e.contents = d.contents
<1> DEFINE next == IF UnsentUpdates(d) = {} THEN d.firstUnsent
                     ELSE Max(UnsentUpdates(d)) + 1
           sent == [d EXCEPT !.rescanPending = FALSE, !.firstUnsent = next]
<1>1. d \in DatabaseStates /\ DOMAIN d.updateLog \subseteq 1 .. MaxStateID
  BY SoundFields
<1>2. next \in Nat
  <2>1. UnsentUpdates(d) \in SUBSET (0 .. MaxStateID)
    BY <1>1, BoundsAssumption DEF UnsentUpdates
  <2>2. UnsentUpdates(d) # {} => Max(UnsentUpdates(d)) \in 0 .. MaxStateID
    BY <2>1, GreatestElement, BoundsAssumption
  <2> QED
    BY <1>1, <2>2, BoundsAssumption DEF DatabaseStates
<1>3. SeniorRescanned(d) = TrimUpdateLog(sent, {}, TRUE)
  BY <1>1 DEF SeniorRescanned, DatabaseStates
<1> HIDE DEF next
<1>4. /\ sent \in DatabaseStates
      /\ sent.updateLog = d.updateLog /\ sent.totalBytes = d.totalBytes
      /\ sent.stateID = d.stateID /\ sent.contents = d.contents
  BY <1>1, <1>2 DEF DatabaseStates
<1> HIDE DEF sent
<1>5. SoundDatabaseState(sent, held)
  BY <1>4, SoundSameLog
<1>6. LET e == TrimUpdateLog(sent, {}, TRUE)
      IN  /\ SoundDatabaseState(e, held)
          /\ e.stateID = sent.stateID /\ e.contents = sent.contents
  BY <1>5, TrimIsSound, ZenonT(60)
<1> QED
  BY <1>3, <1>4, <1>6, ZenonT(60)

(* The target of a junior's rescan is within bounds.                       *)
LEMMA TargetType ==
  ASSUME NEW d \in DatabaseStates
  PROVE  GetTargetDatabaseStateID(d) \in StateIDs
  BY KeysType DEF GetTargetDatabaseStateID, DatabaseStates

(* Replaying the log leads to a held state, or does nothing.               *)
LEMMA ReplayedIsSound ==
  ASSUME NEW held, NEW d, SoundDatabaseState(d, held), NEW n \in StateIDs,
         d.stateID <= n, CanReplayTo(d, n)
  PROVE  LET e == ReplayedTo(d, n)
         IN  /\ SoundDatabaseState(e, held)
             /\ e.stateID = n
             /\ n = d.stateID => e.contents = d.contents
             /\ n # d.stateID => <<n, e.contents>> \in held
             /\ e.backorders = d.backorders
<1> DEFINE c == ContentsAt(d, n)
           e == ReplayedTo(d, n)
<1>1. d \in DatabaseStates /\ d.stateID \in Int /\ n \in Int /\ d.contents \in Contents
  BY SoundFields DEF DatabaseStates, StateIDs
<1>2. n # d.stateID => n \in DOMAIN d.updateLog
  BY <1>1 DEF CanReplayTo
<1>3. n # d.stateID => /\ d.updateLog[n] \in Updates
                       /\ <<n, d.updateLog[n].post>> \in held
  BY <1>2, SoundFields
<1>4. /\ c \in Contents
      /\ n = d.stateID => c = d.contents
      /\ n # d.stateID => <<n, c>> \in held
  BY <1>1, <1>3 DEF ContentsAt, Updates
<1>5. e = [d EXCEPT !.stateID = n, !.contents = c]
  BY DEF ReplayedTo
<1> HIDE DEF c, e
<1>6. /\ e \in DatabaseStates
      /\ e.updateLog = d.updateLog /\ e.totalBytes = d.totalBytes
      /\ e.stateID = n /\ e.contents = c /\ e.backorders = d.backorders
  BY <1>1, <1>4, <1>5 DEF DatabaseStates
<1>7. SoundDatabaseState(e, held)
  BY <1>6, SoundSameLog
<1> QED
  BY <1>4, <1>6, <1>7 DEF e

(* Placing back-orders touches nothing else.                               *)
LEMMA OnOrderIsSound ==
  ASSUME NEW held, NEW d, SoundDatabaseState(d, held), NEW s \in Peers,
         NEW ids \in SUBSET (StateIDs \cup {FULL})
  PROVE  LET e == OnOrder(d, s, ids)
         IN  /\ SoundDatabaseState(e, held)
             /\ e.stateID = d.stateID /\ e.contents = d.contents
             /\ \A i \in ids : <<s, i>> \in e.backorders
<1> DEFINE orders == d.backorders \cup ({s} \X ids)
           e == OnOrder(d, s, ids)
<1>1. d \in DatabaseStates
  BY SoundFields
<1>2. orders \in SUBSET (Peers \X (StateIDs \cup {FULL}))
  BY <1>1 DEF DatabaseStates
<1>3. \A i \in ids : <<s, i>> \in orders
  OBVIOUS
<1>4. e = [d EXCEPT !.backorders = orders]
  BY <1>1 DEF OnOrder, DatabaseStates
<1> HIDE DEF orders, e
<1>5. /\ e \in DatabaseStates
      /\ e.updateLog = d.updateLog /\ e.totalBytes = d.totalBytes
      /\ e.stateID = d.stateID /\ e.contents = d.contents /\ e.backorders = orders
  BY <1>1, <1>2, <1>4 DEF DatabaseStates
<1>6. SoundDatabaseState(e, held)
  BY <1>5, SoundSameLog
<1> QED
  BY <1>3, <1>5, <1>6 DEF e

(* Only IDs that exist are put on back-order.                              *)
LEMMA MissingType ==
  ASSUME NEW d \in DatabaseStates, NEW n \in StateIDs
  PROVE  MissingUpdates(d, n) \in SUBSET (StateIDs \cup {FULL})
<1>1. GetTargetDatabaseStateID(d) \in StateIDs
  BY TargetType
<1>2. ((n + 1) .. GetTargetDatabaseStateID(d)) \subseteq StateIDs
  BY <1>1, BoundsAssumption DEF StateIDs
<1> QED
  BY <1>2 DEF MissingUpdates

(* A full database that arrives and checks out is adopted as it is.        *)
LEMMA ReplacedIsSound ==
  ASSUME NEW held, NEW d, SoundDatabaseState(d, held), NEW up \in Updates
  PROVE  LET e == JuniorReplaced(d, up)
         IN  /\ SoundDatabaseState(e, held)
             /\ e.stateID = up.id /\ e.contents = up.post
<1> DEFINE e == JuniorReplaced(d, up)
<1>1. d \in DatabaseStates /\ up.id \in StateIDs /\ up.post \in Contents
  BY SoundFields DEF Updates
<1>2. e = [d EXCEPT !.stateID = up.id, !.contents = up.post]
  BY DEF JuniorReplaced
<1> HIDE DEF e
<1>3. /\ e \in DatabaseStates
      /\ e.updateLog = d.updateLog /\ e.totalBytes = d.totalBytes
      /\ e.stateID = up.id /\ e.contents = up.post
  BY <1>1, <1>2 DEF DatabaseStates
<1>4. SoundDatabaseState(e, held)
  BY <1>3, SoundSameLog
<1> QED
  BY <1>3, <1>4 DEF e

(* Failing back-orders touches nothing else.                               *)
LEMMA FailedIsSound ==
  ASSUME NEW held, NEW d, SoundDatabaseState(d, held), NEW q
  PROVE  LET e == BackOrdersFailed(d, q)
         IN  /\ SoundDatabaseState(e, held)
             /\ e.stateID = d.stateID /\ e.contents = d.contents
<1> DEFINE orders == {b \in d.backorders : b[1] # q}
           e == BackOrdersFailed(d, q)
<1>1. d \in DatabaseStates
  BY SoundFields
<1>2. orders \in SUBSET (Peers \X (StateIDs \cup {FULL}))
  BY <1>1 DEF DatabaseStates
<1>3. e = [d EXCEPT !.backorders = orders]
  BY <1>1 DEF BackOrdersFailed, DatabaseStates
<1> HIDE DEF orders, e
<1>4. /\ e \in DatabaseStates
      /\ e.updateLog = d.updateLog /\ e.totalBytes = d.totalBytes
      /\ e.stateID = d.stateID /\ e.contents = d.contents
  BY <1>1, <1>2, <1>3 DEF DatabaseStates
<1>5. SoundDatabaseState(e, held)
  BY <1>4, SoundSameLog
<1> QED
  BY <1>4, <1>5 DEF e

(* News from the senior peer's beacon does not touch the database itself.  *)
LEMMA InfoChangedIsSound ==
  ASSUME NEW held, NEW d, SoundDatabaseState(d, held), NEW info \in StateInfos
  PROVE  LET e == SeniorDatabaseStateInfoChanged(d, info)
         IN  /\ SoundDatabaseState(e, held)
             /\ e.stateID = d.stateID /\ e.contents = d.contents
<1> DEFINE told == [d EXCEPT !.seniorReceived = TRUE,
                             !.seniorStateID = info.stateID,
                             !.seniorOldest = info.oldest]
<1>1. d \in DatabaseStates /\ info.stateID \in StateIDs
      /\ info.oldest \in StateIDs \cup {NoOldestID}
  BY SoundFields DEF StateInfos
<1>2. /\ told \in DatabaseStates
      /\ told.updateLog = d.updateLog /\ told.totalBytes = d.totalBytes
      /\ told.stateID = d.stateID /\ told.contents = d.contents
  BY <1>1 DEF DatabaseStates
<1>3. SeniorDatabaseStateInfoChanged(d, info) \in {d, ScheduleLogContentsRescan(told)}
  BY DEF SeniorDatabaseStateInfoChanged
<1> HIDE DEF told
<1>4. SoundDatabaseState(told, held)
  BY <1>2, SoundSameLog
<1>5. LET e == ScheduleLogContentsRescan(told)
      IN  /\ SoundDatabaseState(e, held)
          /\ e.stateID = told.stateID /\ e.contents = told.contents
  BY <1>4, ScheduleIsSound, Zenon
<1> QED
  BY <1>2, <1>3, <1>5, Zenon

---------------------------------------------------------------------------
(* The same operators field by field: what each does to the log and to the *)
(* back-orders, exactly.                                                   *)

(* The fields that say which database a peer has, what it can replay and   *)
(* what it waits for.                                                      *)
SameFields(d, e) ==
  /\ e.stateID = d.stateID /\ e.contents = d.contents
  /\ e.updateLog = d.updateLog /\ e.backorders = d.backorders
  /\ e.seniorStateID = d.seniorStateID

(* Scheduling a rescan sets a flag.                                        *)
LEMMA ScheduleFields ==
  ASSUME NEW d \in DatabaseStates
  PROVE  SameFields(d, ScheduleLogContentsRescan(d))
  BY DEF ScheduleLogContentsRescan, SameFields, DatabaseStates

(* Log g is log f with update up put into it.                              *)
WithUpdate(f, up, g) ==
  /\ DOMAIN g = DOMAIN f \cup {up.id}
  /\ \A k \in DOMAIN g : g[k] = IF k = up.id THEN up ELSE f[k]

(* Logging an update changes the log at its ID.                            *)
LEMMA AddFields ==
  ASSUME NEW d \in DatabaseStates, NEW up, NEW iAmSenior \in BOOLEAN
  PROVE  LET e == AddDatabaseUpdateToUpdateLog(d, up, iAmSenior)
         IN  /\ e.stateID = d.stateID /\ e.contents = d.contents
             /\ e.backorders = d.backorders
             /\ WithUpdate(d.updateLog, up, e.updateLog)
  BY DEF AddDatabaseUpdateToUpdateLog, ScheduleLogContentsRescan, WithUpdate, DatabaseStates

(* Removing entries from the log changes only the log and its byte count.  *)
LEMMA RemoveFields ==
  ASSUME NEW d \in DatabaseStates, NEW ids, NEW iAmSenior
  PROVE  LET e == RemoveDatabaseUpdatesFromUpdateLog(d, ids, iAmSenior)
         IN  /\ e.stateID = d.stateID /\ e.contents = d.contents
             /\ e.backorders = d.backorders /\ e.seniorStateID = d.seniorStateID
             /\ e.updateLog = [k \in DOMAIN d.updateLog \ ids |-> d.updateLog[k]]
  BY DEF RemoveDatabaseUpdatesFromUpdateLog, DatabaseStates

(* Every entry of log f is also in log g.                                  *)
PartOfLog(f, g) == DOMAIN f \subseteq DOMAIN g /\ \A k \in DOMAIN f : f[k] = g[k]

(* The trimming loop only takes entries out of the log.                    *)
LEMMA TrimFields ==
  ASSUME NEW d \in DatabaseStates, NEW needed, NEW iAmSenior
  PROVE  LET e == TrimUpdateLog(d, needed, iAmSenior)
         IN  /\ e.stateID = d.stateID /\ e.contents = d.contents
             /\ e.backorders = d.backorders /\ e.seniorStateID = d.seniorStateID
             /\ PartOfLog(e.updateLog, d.updateLog)
<1> DEFINE gone == Trimmed(d, needed)
<1> HIDE DEF gone
<1>1. LET e == RemoveDatabaseUpdatesFromUpdateLog(d, gone, iAmSenior)
      IN  /\ e.stateID = d.stateID /\ e.contents = d.contents
          /\ e.backorders = d.backorders /\ e.seniorStateID = d.seniorStateID
          /\ e.updateLog = [k \in DOMAIN d.updateLog \ gone |-> d.updateLog[k]]
  BY RemoveFields
<1> QED
  BY <1>1 DEF TrimUpdateLog, PartOfLog, gone

(* A successful request leads to the new state.                            *)
LEMMA CompletedFields ==
  ASSUME NEW d \in DatabaseStates, NEW c, NEW hasPayload \in BOOLEAN
  PROVE  LET e == SeniorUpdateCompleted(d, c, hasPayload)
         IN  /\ e.stateID = d.stateID + 1 /\ e.contents = c
             /\ e.backorders = d.backorders
             /\ DOMAIN e.updateLog = DOMAIN d.updateLog \cup {d.stateID + 1}
             /\ \A k \in DOMAIN d.updateLog \ {d.stateID + 1} :
                  e.updateLog[k] = d.updateLog[k]
  BY DEF SeniorUpdateCompleted, AddDatabaseUpdateToUpdateLog, ScheduleLogContentsRescan,
         DatabaseStates

(* A failed request leaves no entry behind.                                *)
LEMMA RolledBackFields ==
  ASSUME NEW d \in DatabaseStates, NEW c
  PROVE  LET e == SeniorUpdateRolledBack(d, c)
         IN  /\ e.stateID = d.stateID /\ e.contents = c
             /\ e.backorders = d.backorders
             /\ PartOfLog(e.updateLog, d.updateLog)
             /\ DOMAIN e.updateLog = DOMAIN d.updateLog \ {d.stateID + 1}
  BY DEF SeniorUpdateRolledBack, RemoveDatabaseUpdatesFromUpdateLog, PartOfLog,
         AddDatabaseUpdateToUpdateLog, ScheduleLogContentsRescan, DatabaseStates

(* The senior peer's rescan only takes entries out of the log.             *)
LEMMA SeniorRescannedFields ==
  ASSUME NEW d \in DatabaseStates
  PROVE  LET e == SeniorRescanned(d)
         IN  /\ e.stateID = d.stateID /\ e.contents = d.contents
             /\ e.backorders = d.backorders
             /\ PartOfLog(e.updateLog, d.updateLog)
<1> DEFINE next == IF UnsentUpdates(d) = {} THEN d.firstUnsent
                     ELSE Max(UnsentUpdates(d)) + 1
           sent == [d EXCEPT !.rescanPending = FALSE, !.firstUnsent = next]
           gone == Trimmed(sent, {})
<1>1. SeniorRescanned(d) = RemoveDatabaseUpdatesFromUpdateLog(sent, gone, TRUE)
  BY DEF SeniorRescanned, TrimUpdateLog, DatabaseStates
<1> HIDE DEF next, gone
<1> QED
  BY <1>1 DEF RemoveDatabaseUpdatesFromUpdateLog, PartOfLog, DatabaseStates

(* Replaying the log moves the database, nothing else.                     *)
LEMMA ReplayedFields ==
  ASSUME NEW d \in DatabaseStates, NEW n
  PROVE  LET e == ReplayedTo(d, n)
         IN  /\ e.stateID = n /\ e.contents = ContentsAt(d, n)
             /\ e.updateLog = d.updateLog /\ e.backorders = d.backorders
             /\ e.seniorStateID = d.seniorStateID
<1> DEFINE c == ContentsAt(d, n)
<1>1. ReplayedTo(d, n) = [d EXCEPT !.stateID = n, !.contents = c]
  BY DEF ReplayedTo
<1> HIDE DEF c
<1>2. LET e == [d EXCEPT !.stateID = n, !.contents = c]
      IN  /\ e.stateID = n /\ e.contents = c
          /\ e.updateLog = d.updateLog /\ e.backorders = d.backorders
          /\ e.seniorStateID = d.seniorStateID
  BY DEF DatabaseStates
<1> QED
  BY <1>1, <1>2 DEF c

(* Placing back-orders adds them to those that are out.                    *)
LEMMA OnOrderFields ==
  ASSUME NEW d \in DatabaseStates, NEW s, NEW ids
  PROVE  LET e == OnOrder(d, s, ids)
         IN  /\ e.stateID = d.stateID /\ e.contents = d.contents
             /\ e.updateLog = d.updateLog /\ e.seniorStateID = d.seniorStateID
             /\ e.backorders = d.backorders \cup ({s} \X ids)
  BY DEF OnOrder, DatabaseStates

(* Adopting a full database leaves the log and the back-orders alone.      *)
LEMMA ReplacedFields ==
  ASSUME NEW d \in DatabaseStates, NEW up
  PROVE  LET e == JuniorReplaced(d, up)
         IN  /\ e.stateID = up.id /\ e.contents = up.post
             /\ e.updateLog = d.updateLog /\ e.backorders = d.backorders
  BY DEF JuniorReplaced, DatabaseStates

(* The end of a session takes exactly its back-orders away.                *)
LEMMA FailedFields ==
  ASSUME NEW d \in DatabaseStates, NEW q
  PROVE  LET e == BackOrdersFailed(d, q)
         IN  /\ e.stateID = d.stateID /\ e.contents = d.contents
             /\ e.updateLog = d.updateLog
             /\ e.backorders = {b \in d.backorders : b[1] # q}
  BY DEF BackOrdersFailed, DatabaseStates

(* News from the senior peer touch neither the log nor the back-orders.    *)
LEMMA InfoChangedFields ==
  ASSUME NEW d \in DatabaseStates, NEW info
  PROVE  LET e == SeniorDatabaseStateInfoChanged(d, info)
         IN  /\ e.stateID = d.stateID /\ e.contents = d.contents
             /\ e.updateLog = d.updateLog /\ e.backorders = d.backorders
  BY DEF SeniorDatabaseStateInfoChanged, ScheduleLogContentsRescan, DatabaseStates

-----------------------------------------------------------------------------
(* The actions of DatabaseReplication.                                     *)

USE DEF EverythingComesFromASenior

(* The facts that every proof below takes from the invariant.              *)
LEMMA Facts ==
  ASSUME EverythingComesFromASenior, NEW p \in Peers
  PROVE  /\ SoundDatabaseState(db[p], history)
         /\ db[p] \in DatabaseStates
         /\ db \in [Peers -> DatabaseStates]
         /\ senior \in [Peers -> Peers \cup {NoPeer}]
         /\ Held(db[p]) \in StateIDs \X Contents
<1>1. SoundDatabaseState(db[p], history)
  BY DEF DatabasesAreSound
<1> QED
  BY <1>1, SoundFields DEF TypeOK, Held, DatabaseStates

(* A step that changes the database of p alone, to a sound state that is   *)
(* where it was, or held by a senior, or about to be replaced.             *)
LEMMA OneDatabaseChanges ==
  ASSUME EverythingComesFromASenior, NEW p \in Peers, NEW e,
         db' = [db EXCEPT ![p] = e],
         SoundDatabaseState(e, history'), history \subseteq history',
         \A q \in Peers \ {p} : senior'[q] = senior[q],
         senior'[p] = p => Held(e) \in history',
         senior'[p] = NoPeer => e = NewDatabaseState,
         \/ e.stateID = db[p].stateID
         \/ Held(e) \in history'
         \/ IsAwaitingFullDatabaseResendReply(e, senior[p])
         \/ faults' = faults + 2
  PROVE  /\ db' \in [Peers -> DatabaseStates]
         /\ DatabasesAreSound'
         /\ SeniorStatesAreHeld' /\ UnattachedPeersAreBlank'
         /\ VerifiedStep
<1>1. db \in [Peers -> DatabaseStates]
  BY DEF TypeOK
<1>2. db'[p] = e /\ \A q \in Peers \ {p} : db'[q] = db[q]
  BY <1>1
<1>3. e \in DatabaseStates
  BY SoundFields
<1>4. db' \in [Peers -> DatabaseStates]
  BY <1>1, <1>3
<1>5. \A q \in Peers : SoundDatabaseState(db'[q], history')
  BY <1>2, SoundMonotone DEF DatabasesAreSound
<1>6. \A q \in Peers : senior'[q] = q => Held(db'[q]) \in history'
  BY <1>2 DEF SeniorStatesAreHeld, IAmTheSeniorPeer
<1>7. VerifiedStep
  BY <1>2 DEF VerifiedStep
<1>8. UnattachedPeersAreBlank'
  BY <1>2 DEF UnattachedPeersAreBlank
<1> QED
  BY <1>4, <1>5, <1>6, <1>7, <1>8 DEF DatabasesAreSound, SeniorStatesAreHeld, IAmTheSeniorPeer

(* A step that changes no database and nobody's idea of who is senior.     *)
LEMMA NoDatabaseChanges ==
  ASSUME EverythingComesFromASenior, db' = db, senior' = senior,
         history \subseteq history'
  PROVE  /\ db' \in [Peers -> DatabaseStates]
         /\ DatabasesAreSound'
         /\ SeniorStatesAreHeld' /\ UnattachedPeersAreBlank'
         /\ VerifiedStep
<1>1. \A q \in Peers : SoundDatabaseState(db[q], history')
  BY SoundMonotone DEF DatabasesAreSound
<1>2. \A q \in Peers : senior[q] = q => Held(db[q]) \in history'
  BY DEF SeniorStatesAreHeld, IAmTheSeniorPeer
<1>3. VerifiedStep
  BY DEF VerifiedStep
<1>4. UnattachedPeersAreBlank'
  BY DEF UnattachedPeersAreBlank
<1> QED
  BY <1>1, <1>2, <1>3, <1>4 DEF DatabasesAreSound, SeniorStatesAreHeld, IAmTheSeniorPeer, TypeOK

(* Initially everything is as it should be.                                *)
LEMMA InitEstablishes ==
  Init => EverythingComesFromASenior
<1> SUFFICES ASSUME Init PROVE EverythingComesFromASenior
  OBVIOUS
<1>1. \A p \in Peers : db[p] = NewDatabaseState
  BY DEF Init
<1>2. \A p \in Peers : SoundDatabaseState(db[p], history)
  BY <1>1, NewIsSound
<1>3. NewDatabaseState \in DatabaseStates
  BY NewIsSound, SoundFields
<1>4. TypeOK
  BY <1>3, ContentsAssumption, BoundsAssumption DEF Init, TypeOK, StateIDs
<1>5. SeniorStatesAreHeld
  BY NoPeerAssumption DEF Init, SeniorStatesAreHeld, IAmTheSeniorPeer
<1>6. UpdatesUnderWayAreHeld /\ UnattachedPeersAreBlank
  BY <1>1 DEF Init, UpdatesUnderWayAreHeld, UnattachedPeersAreBlank
<1> QED
  BY <1>2, <1>4, <1>5, <1>6 DEF Init, DatabasesAreSound

---------------------------------------------------------------------------
(* One lemma per action.                                                   *)

GoodStep == EverythingComesFromASenior' /\ VerifiedStep

(* Packets and replies that arrive or get lost do no harm.                 *)
LEMMA LessUnderWay ==
  ASSUME EverythingComesFromASenior, history \subseteq history',
         multicasts' \subseteq multicasts, replies' \subseteq replies
  PROVE  UpdatesUnderWayAreHeld'
  BY DEF UpdatesUnderWayAreHeld

(* PeerHasComeOnline() keeps the invariant.                                *)
LEMMA PeerHasComeOnlineStep ==
  ASSUME EverythingComesFromASenior, NEW p \in Peers, PeerHasComeOnline(p)
  PROVE  GoodStep
<1> DEFINE up == [db[p] EXCEPT !.attached = TRUE]
           e == ScheduleLogContentsRescan(up)
<1>1. PICK s \in Peers : SeniorPeerChanged(p, s)
  BY DEF PeerHasComeOnline
<1>2. /\ SoundDatabaseState(db[p], history) /\ db[p] \in DatabaseStates
      /\ db \in [Peers -> DatabaseStates] /\ senior \in [Peers -> Peers \cup {NoPeer}]
      /\ Held(db[p]) \in StateIDs \X Contents
  BY Facts
<1>3. /\ up \in DatabaseStates
      /\ up.updateLog = db[p].updateLog /\ up.totalBytes = db[p].totalBytes
      /\ up.stateID = db[p].stateID /\ up.contents = db[p].contents
  BY <1>2 DEF DatabaseStates
<1>4. db' = [db EXCEPT ![p] = e]
  BY <1>2 DEF PeerHasComeOnline
<1>5. /\ history \subseteq history' /\ history' \subseteq StateIDs \X Contents
      /\ senior' = [senior EXCEPT ![p] = s]
      /\ s = p => Held(db[p]) \in history'
  BY <1>1, <1>2 DEF SeniorPeerChanged, TypeOK
<1> HIDE DEF up
<1>6. SoundDatabaseState(up, history')
  BY <1>2, <1>3, <1>5, SoundSameLog, SoundMonotone
<1>7. SoundDatabaseState(e, history') /\ e.stateID = up.stateID /\ e.contents = up.contents
  BY <1>6, ScheduleIsSound, Zenon
<1> HIDE DEF e
<1>8. senior'[p] = s /\ \A q \in Peers \ {p} : senior'[q] = senior[q]
  BY <1>2, <1>5
<1>9. Held(e) = Held(db[p])
  BY <1>3, <1>7 DEF Held
<1>10. /\ db' \in [Peers -> DatabaseStates] /\ DatabasesAreSound'
       /\ SeniorStatesAreHeld' /\ UnattachedPeersAreBlank' /\ VerifiedStep
  BY <1>3, <1>4, <1>5, <1>7, <1>8, <1>9, OneDatabaseChanges, NoPeerAssumption
<1>11. UpdatesUnderWayAreHeld'
  BY <1>5, LessUnderWay DEF PeerHasComeOnline
<1>12. TypeOK'
  BY <1>1, <1>5, <1>10 DEF PeerHasComeOnline, SeniorPeerChanged, TypeOK
<1> QED
  BY <1>5, <1>10, <1>11, <1>12 DEF GoodStep

(* SeniorPeerHasGoneOffline() keeps the invariant: a new senior peer's     *)
(* state counts as held from then on.                                      *)
LEMMA SeniorPeerHasGoneOfflineStep ==
  ASSUME EverythingComesFromASenior, NEW p \in Peers, SeniorPeerHasGoneOffline(p)
  PROVE  GoodStep
<1> DEFINE e == BackOrdersFailed(db[p], senior[p])
<1>1. PICK s \in Peers : SeniorPeerChanged(p, s)
  BY DEF SeniorPeerHasGoneOffline
<1>2. /\ SoundDatabaseState(db[p], history)
      /\ db \in [Peers -> DatabaseStates] /\ senior \in [Peers -> Peers \cup {NoPeer}]
      /\ Held(db[p]) \in StateIDs \X Contents
  BY Facts
<1>4. db' = [db EXCEPT ![p] = e]
  BY <1>2 DEF SeniorPeerHasGoneOffline
<1>5. /\ history \subseteq history' /\ history' \subseteq StateIDs \X Contents
      /\ senior' = [senior EXCEPT ![p] = s]
      /\ s = p => Held(db[p]) \in history'
  BY <1>1, <1>2 DEF SeniorPeerChanged, TypeOK
<1>6. SoundDatabaseState(db[p], history')
  BY <1>2, <1>5, SoundMonotone
<1>7. SoundDatabaseState(e, history') /\ e.stateID = db[p].stateID /\ e.contents = db[p].contents
  BY <1>6, FailedIsSound, Zenon
<1> HIDE DEF e
<1>8. senior'[p] = s /\ \A q \in Peers \ {p} : senior'[q] = senior[q]
  BY <1>2, <1>5
<1>9. Held(e) = Held(db[p])
  BY <1>7 DEF Held
<1>10. /\ db' \in [Peers -> DatabaseStates] /\ DatabasesAreSound'
       /\ SeniorStatesAreHeld' /\ UnattachedPeersAreBlank' /\ VerifiedStep
  BY <1>4, <1>5, <1>7, <1>8, <1>9, OneDatabaseChanges, NoPeerAssumption
<1>11. UpdatesUnderWayAreHeld'
  BY <1>5, LessUnderWay DEF SeniorPeerHasGoneOffline
<1>12. TypeOK'
  BY <1>1, <1>5, <1>10 DEF SeniorPeerHasGoneOffline, SeniorPeerChanged, TypeOK
<1> QED
  BY <1>5, <1>10, <1>11, <1>12 DEF GoodStep

(* Crash() keeps the invariant.                                            *)
LEMMA CrashStep ==
  ASSUME EverythingComesFromASenior, NEW p \in Peers, Crash(p)
  PROVE  GoodStep
<1>1. /\ db \in [Peers -> DatabaseStates] /\ senior \in [Peers -> Peers \cup {NoPeer}]
  BY Facts
<1>2. SoundDatabaseState(NewDatabaseState, history')
  BY NewIsSound
<1>3. Held(NewDatabaseState) \in history'
  BY DEF Crash, Held, NewDatabaseState
<1>4. senior' = [senior EXCEPT ![p] = NoPeer] /\ senior'[p] # p
      /\ \A q \in Peers \ {p} : senior'[q] = senior[q]
  BY <1>1, NoPeerAssumption DEF Crash
<1>5. /\ db' \in [Peers -> DatabaseStates] /\ DatabasesAreSound'
      /\ SeniorStatesAreHeld' /\ UnattachedPeersAreBlank' /\ VerifiedStep
  BY <1>2, <1>3, <1>4, OneDatabaseChanges DEF Crash
<1>6. UpdatesUnderWayAreHeld'
  BY LessUnderWay DEF Crash
<1>7. TypeOK'
  BY <1>4, <1>5 DEF Crash, Fault, TypeOK
<1> QED
  BY <1>5, <1>6, <1>7 DEF GoodStep, Crash

(* Requests that the application executes keep the invariant.              *)
LEMMA SuccessfulRequestStep ==
  ASSUME EverythingComesFromASenior, NEW p \in Peers,
         NEW c \in Contents, NEW hasPayload \in BOOLEAN,
         HandleSuccessfulRequest(p, c, hasPayload)
  PROVE  GoodStep
<1> DEFINE e == SeniorUpdateCompleted(db[p], c, hasPayload)
<1>1. /\ SoundDatabaseState(db[p], history) /\ db[p] \in DatabaseStates
      /\ db \in [Peers -> DatabaseStates] /\ db[p].stateID < MaxStateID
  BY Facts DEF HandleSuccessfulRequest
<1>2. db[p].stateID + 1 \in StateIDs
  BY <1>1, BoundsAssumption DEF DatabaseStates, StateIDs
<1>3. /\ history' = history \cup {<<db[p].stateID + 1, c>>}
      /\ history' \subseteq StateIDs \X Contents
  BY <1>2 DEF HandleSuccessfulRequest, TypeOK
<1>4. SoundDatabaseState(db[p], history')
  BY <1>1, <1>3, SoundMonotone
<1>5. SoundDatabaseState(e, history') /\ e.stateID = db[p].stateID + 1 /\ e.contents = c
  <2>1. <<db[p].stateID + 1, c>> \in history'
    BY <1>3
  <2> QED
    BY <1>1, <1>4, <2>1, CompletedIsSound
<1>6. db' = [db EXCEPT ![p] = e]
  BY <1>1 DEF HandleSuccessfulRequest
<1> HIDE DEF e
<1>7. Held(e) \in history'
  BY <1>3, <1>5 DEF Held
<1>8. /\ db' \in [Peers -> DatabaseStates] /\ DatabasesAreSound'
      /\ SeniorStatesAreHeld' /\ UnattachedPeersAreBlank' /\ VerifiedStep
  BY <1>3, <1>5, <1>6, <1>7, OneDatabaseChanges, NoPeerAssumption
  DEF HandleSuccessfulRequest, IAmTheSeniorPeer
<1>9. UpdatesUnderWayAreHeld'
  BY <1>3, LessUnderWay DEF HandleSuccessfulRequest
<1>10. TypeOK'
  BY <1>3, <1>8 DEF HandleSuccessfulRequest, TypeOK
<1> QED
  BY <1>3, <1>8, <1>9, <1>10 DEF GoodStep

(* Requests that the application fails keep the invariant.                 *)
LEMMA FailingRequestStep ==
  ASSUME EverythingComesFromASenior, NEW p \in Peers, HandleFailingRequest(p)
  PROVE  GoodStep
<1>1. PICK c \in Contents :
        /\ db' = [db EXCEPT ![p] = SeniorUpdateRolledBack(@, c)]
        /\ history' = history \cup {<<db[p].stateID, c>>}
  BY DEF HandleFailingRequest
<1> DEFINE e == SeniorUpdateRolledBack(db[p], c)
<1>2. /\ SoundDatabaseState(db[p], history) /\ db[p] \in DatabaseStates
      /\ db \in [Peers -> DatabaseStates] /\ db[p].stateID < MaxStateID
  BY Facts DEF HandleFailingRequest
<1>3. history \subseteq history' /\ history' \subseteq StateIDs \X Contents
  BY <1>1, <1>2 DEF DatabaseStates, TypeOK
<1>4. SoundDatabaseState(db[p], history')
  BY <1>2, <1>3, SoundMonotone
<1>5. SoundDatabaseState(e, history') /\ e.stateID = db[p].stateID /\ e.contents = c
  BY <1>2, <1>4, RolledBackIsSound
<1>6. db' = [db EXCEPT ![p] = e]
  BY <1>1, <1>2
<1> HIDE DEF e
<1>7. Held(e) \in history'
  BY <1>1, <1>5 DEF Held
<1>8. /\ db' \in [Peers -> DatabaseStates] /\ DatabasesAreSound'
      /\ SeniorStatesAreHeld' /\ UnattachedPeersAreBlank' /\ VerifiedStep
  BY <1>3, <1>5, <1>6, <1>7, OneDatabaseChanges, NoPeerAssumption
  DEF HandleFailingRequest, IAmTheSeniorPeer
<1>9. UpdatesUnderWayAreHeld'
  BY <1>3, LessUnderWay DEF HandleFailingRequest
<1>10. TypeOK'
  BY <1>3, <1>8 DEF HandleFailingRequest, Fault, TypeOK
<1> QED
  BY <1>3, <1>8, <1>9, <1>10 DEF GoodStep

---------------------------------------------------------------------------
(* Rescans.                                                                *)

(* What a rescan leaves behind, whichever pulse it is part of.             *)
RescanIsGood ==
  /\ db' \in [Peers -> DatabaseStates] /\ DatabasesAreSound'
  /\ SeniorStatesAreHeld' /\ UnattachedPeersAreBlank' /\ VerifiedStep
  /\ UpdatesUnderWayAreHeld'
  /\ multicasts' \subseteq Multicasts
  /\ requests' \subseteq Requests
  /\ faults' \in Nat

(* A rescan that does something happens on a peer that knows its senior.   *)
LEMMA AttachedPeersHaveASenior ==
  ASSUME EverythingComesFromASenior, NEW p \in Peers,
         db[p].rescanPending \/ db[p].seniorReceived
  PROVE  senior[p] \in Peers
<1>1. db[p] # NewDatabaseState
  BY DEF NewDatabaseState
<1> QED
  BY <1>1 DEF UnattachedPeersAreBlank, TypeOK

(* The senior peer multicasts updates of its log, which lead to held       *)
(* states.                                                                 *)
LEMMA SeniorRescanIsGood ==
  ASSUME EverythingComesFromASenior, NEW p \in Peers, SeniorRescan(p),
         senior' = senior, history' = history, replies' = replies
  PROVE  RescanIsGood
<1> DEFINE e == SeniorRescanned(db[p])
<1>1. /\ SoundDatabaseState(db[p], history) /\ db \in [Peers -> DatabaseStates]
      /\ senior[p] = p
  BY Facts DEF SeniorRescan, IAmTheSeniorPeer
<1>2. SoundDatabaseState(e, history') /\ e.stateID = db[p].stateID /\ e.contents = db[p].contents
  BY <1>1, SeniorRescannedIsSound, Zenon
<1>3. db' = [db EXCEPT ![p] = e]
  BY <1>1 DEF SeniorRescan
<1> HIDE DEF e
<1>4. Held(e) = Held(db[p]) /\ Held(db[p]) \in history
  BY <1>1, <1>2 DEF Held, SeniorStatesAreHeld, IAmTheSeniorPeer
<1>5. /\ db' \in [Peers -> DatabaseStates] /\ DatabasesAreSound'
      /\ SeniorStatesAreHeld' /\ UnattachedPeersAreBlank' /\ VerifiedStep
  BY <1>1, <1>2, <1>3, <1>4, OneDatabaseChanges, NoPeerAssumption
<1>6. \A k \in UnsentUpdates(db[p]) :
        /\ db[p].updateLog[k] \in Updates
        /\ db[p].updateLog[k].id > 0
        /\ <<db[p].updateLog[k].id, db[p].updateLog[k].post>> \in history
  <2>1. \A k \in DOMAIN db[p].updateLog : k \in 1 .. MaxStateID /\ db[p].updateLog[k] \in Updates
    BY <1>1, SoundFields
  <2>2. \A k \in DOMAIN db[p].updateLog :
          db[p].updateLog[k].id = k /\ <<k, db[p].updateLog[k].post>> \in history
    BY <1>1 DEF SoundDatabaseState
  <2>3. \A k \in 1 .. MaxStateID : k > 0
    BY BoundsAssumption
  <2> QED
    BY <2>1, <2>2, <2>3 DEF UnsentUpdates
<1>7. PICK got \in SUBSET (UnsentUpdates(db[p]) \X (alive \ {p})) :
        multicasts' = multicasts \cup
          {[from |-> p, to |-> g[2], up |-> db[p].updateLog[g[1]]] : g \in got}
  BY DEF SeniorRescan
<1>8. \A m \in multicasts' :
        m \in multicasts \/ \E k \in UnsentUpdates(db[p]), q \in alive :
                              m = [from |-> p, to |-> q, up |-> db[p].updateLog[k]]
  BY <1>7
<1>9. multicasts' \subseteq Multicasts
  <2>1. \A k \in UnsentUpdates(db[p]), q \in alive :
          [from |-> p, to |-> q, up |-> db[p].updateLog[k]] \in Multicasts
    BY <1>6 DEF Multicasts, TypeOK
  <2>2. multicasts \subseteq Multicasts
    BY DEF TypeOK
  <2> QED
    BY <1>8, <2>1, <2>2
<1>10. UpdatesUnderWayAreHeld'
  BY <1>6, <1>8 DEF UpdatesUnderWayAreHeld
<1> QED
  BY <1>5, <1>9, <1>10 DEF RescanIsGood, SeniorRescan, TypeOK

(* Nothing but existing IDs is ever ordered.                               *)
LEMMA PossibleOrdersType ==
  ASSUME NEW wanted \in SUBSET (StateIDs \cup {FULL}), NEW placed \in PossibleOrders(wanted)
  PROVE  placed \in SUBSET (StateIDs \cup {FULL})
  BY DEF PossibleOrders

(* Orders are requests to the senior peer.                                 *)
LEMMA RequestsType ==
  ASSUME EverythingComesFromASenior, NEW p \in Peers, senior[p] \in Peers, NEW d,
         NEW wanted, NEW placed \in SUBSET (StateIDs \cup {FULL}),
         RequestBackOrders(p, d, wanted, placed)
  PROVE  requests' \subseteq Requests /\ faults' \in Nat
  BY DEF RequestBackOrders, NotOnOrder, Requests, Fault, TypeOK

(* The end of a junior's rescan, from a state d that is sound and either   *)
(* where the database was or held by a senior.                             *)
LEMMA OrderAndTrimIsGood ==
  ASSUME EverythingComesFromASenior, NEW p \in Peers, senior[p] \in Peers, senior[p] # p,
         NEW d, SoundDatabaseState(d, history),
         d.stateID = db[p].stateID \/ Held(d) \in history,
         NEW wanted \in SUBSET (StateIDs \cup {FULL}), OrderAndTrim(p, d, wanted),
         senior' = senior, history' = history, replies' = replies, multicasts' = multicasts
  PROVE  RescanIsGood
<1>1. PICK placed \in PossibleOrders(wanted) :
        LET e == OnOrder(d, senior[p], placed) IN
        /\ RequestBackOrders(p, d, wanted, placed)
        /\ db' = [db EXCEPT ![p] =
                    TrimUpdateLog(e, StillNeededUpdates(e, senior[p]), FALSE)]
  BY DEF OrderAndTrim
<1> DEFINE e == OnOrder(d, senior[p], placed)
           needed == StillNeededUpdates(e, senior[p])
           t == TrimUpdateLog(e, needed, FALSE)
<1>2. placed \in SUBSET (StateIDs \cup {FULL})
  BY PossibleOrdersType
<1>3. requests' \subseteq Requests /\ faults' \in Nat
  BY <1>1, <1>2, RequestsType
<1>4. SoundDatabaseState(e, history) /\ e.stateID = d.stateID /\ e.contents = d.contents
  BY <1>2, OnOrderIsSound, Zenon
<1> HIDE DEF e, needed
<1>5. SoundDatabaseState(t, history) /\ t.stateID = e.stateID /\ t.contents = e.contents
  BY <1>4, TrimIsSound, ZenonT(60)
<1>6. db' = [db EXCEPT ![p] = t]
  BY <1>1 DEF e, needed
<1> HIDE DEF t
<1>7. Held(t) = Held(d)
  BY <1>4, <1>5 DEF Held
<1>8. /\ db' \in [Peers -> DatabaseStates] /\ DatabasesAreSound'
      /\ SeniorStatesAreHeld' /\ UnattachedPeersAreBlank' /\ VerifiedStep
  BY <1>4, <1>5, <1>6, <1>7, OneDatabaseChanges, NoPeerAssumption
<1>9. UpdatesUnderWayAreHeld'
  BY LessUnderWay
<1> QED
  BY <1>3, <1>8, <1>9 DEF RescanIsGood, TypeOK

(* The fields that a junior's rescan resets.                               *)
LEMMA JuniorRescanBegins ==
  ASSUME NEW d \in DatabaseStates
  PROVE  LET e == [d EXCEPT !.rescanPending = FALSE, !.firstUnsent = d.stateID + 1]
         IN  /\ e \in DatabaseStates
             /\ e.updateLog = d.updateLog /\ e.totalBytes = d.totalBytes
             /\ e.stateID = d.stateID /\ e.contents = d.contents
<1> DEFINE k == d.stateID + 1
<1>1. k \in Nat
  BY BoundsAssumption DEF DatabaseStates, StateIDs
<1> HIDE DEF k
<1>2. LET e == [d EXCEPT !.rescanPending = FALSE, !.firstUnsent = k]
      IN  /\ e \in DatabaseStates
          /\ e.updateLog = d.updateLog /\ e.totalBytes = d.totalBytes
          /\ e.stateID = d.stateID /\ e.contents = d.contents
  BY <1>1 DEF DatabaseStates
<1> QED
  BY <1>2 DEF k

(* A junior's rescan moves along updates of its log, which lead to held    *)
(* states.                                                                 *)
LEMMA JuniorRescanIsGood ==
  ASSUME EverythingComesFromASenior, NEW p \in Peers, JuniorRescan(p),
         senior' = senior, history' = history, replies' = replies
  PROVE  RescanIsGood
<1> DEFINE d == [db[p] EXCEPT !.rescanPending = FALSE, !.firstUnsent = db[p].stateID + 1]
           s == senior[p]
           target == GetTargetDatabaseStateID(d)
<1>1. /\ SoundDatabaseState(db[p], history) /\ db[p] \in DatabaseStates
      /\ db \in [Peers -> DatabaseStates]
      /\ senior[p] # p /\ senior[p] \in Peers
  BY Facts, AttachedPeersHaveASenior DEF JuniorRescan, IAmTheSeniorPeer
<1>2. /\ d \in DatabaseStates
      /\ d.updateLog = db[p].updateLog /\ d.totalBytes = db[p].totalBytes
      /\ d.stateID = db[p].stateID /\ d.contents = db[p].contents
  BY <1>1, JuniorRescanBegins
<1>3. multicasts' = multicasts
  BY DEF JuniorRescan
<1>4. \/ OrderAndTrim(p, d, {})
      \/ OrderAndTrim(p, d, {FULL})
      \/ \E n \in {d.stateID} \cup (d.stateID .. target) :
           LET e == ReplayedTo(d, n) IN
           /\ CanReplayTo(d, n)
           /\ \/ OrderAndTrim(p, e, {})
              \/ OrderAndTrim(p, e, {FULL})
              \/ OrderAndTrim(p, e, NotOnOrder(e, s, MissingUpdates(e, n)))
  BY DEF JuniorRescan
<1> HIDE DEF d
<1>5. SoundDatabaseState(d, history)
  BY <1>1, <1>2, SoundSameLog
<1>6. CASE OrderAndTrim(p, d, {}) \/ OrderAndTrim(p, d, {FULL})
  BY <1>1, <1>2, <1>3, <1>5, <1>6, OrderAndTrimIsGood
<1>7. ASSUME NEW n \in {d.stateID} \cup (d.stateID .. target), CanReplayTo(d, n),
             \/ OrderAndTrim(p, ReplayedTo(d, n), {})
             \/ OrderAndTrim(p, ReplayedTo(d, n), {FULL})
             \/ OrderAndTrim(p, ReplayedTo(d, n),
                             NotOnOrder(ReplayedTo(d, n), s, MissingUpdates(ReplayedTo(d, n), n)))
      PROVE  RescanIsGood
  <2> DEFINE e == ReplayedTo(d, n)
  <2>1. target \in StateIDs /\ d.stateID \in StateIDs
    BY <1>2, TargetType DEF DatabaseStates
  <2>2. n \in StateIDs /\ d.stateID <= n
    BY <2>1, BoundsAssumption DEF StateIDs
  <2>3. /\ SoundDatabaseState(e, history) /\ e.stateID = n
        /\ n # d.stateID => <<n, e.contents>> \in history
    BY <1>5, <1>7, <2>2, ReplayedIsSound
  <2> HIDE DEF e
  <2>4. e.stateID = db[p].stateID \/ Held(e) \in history
    BY <1>2, <2>3 DEF Held
  <2>5. e \in DatabaseStates
    BY <2>3, SoundFields
  <2>6. NotOnOrder(e, s, MissingUpdates(e, n)) \in SUBSET (StateIDs \cup {FULL})
    BY <2>2, <2>5, MissingType DEF NotOnOrder
  <2>7. \E wanted \in SUBSET (StateIDs \cup {FULL}) : OrderAndTrim(p, e, wanted)
    BY <1>7, <2>6 DEF e
  <2> QED
    BY <1>1, <1>3, <2>3, <2>4, <2>7, OrderAndTrimIsGood
<1> QED
  BY <1>4, <1>6, <1>7

(* A junior that mis-executes an update asks for the full database.        *)
LEMMA MisexecutionIsGood ==
  ASSUME EverythingComesFromASenior, NEW p \in Peers, JuniorRescanMisexecutes(p),
         senior' = senior, history' = history, replies' = replies
  PROVE  RescanIsGood
<1> DEFINE d == [db[p] EXCEPT !.rescanPending = FALSE, !.firstUnsent = db[p].stateID + 1]
           s == senior[p]
           target == GetTargetDatabaseStateID(d)
<1>1. /\ SoundDatabaseState(db[p], history) /\ db[p] \in DatabaseStates
      /\ db \in [Peers -> DatabaseStates]
      /\ senior[p] # p /\ senior[p] \in Peers
  BY Facts, AttachedPeersHaveASenior DEF JuniorRescanMisexecutes, IAmTheSeniorPeer
<1>2. /\ d \in DatabaseStates
      /\ d.updateLog = db[p].updateLog /\ d.totalBytes = db[p].totalBytes
  BY <1>1, JuniorRescanBegins
<1>3. PICK n \in d.stateID .. (target - 1), c \in Contents, placed \in {{FULL}, {}} :
        LET e == OnOrder([ReplayedTo(d, n) EXCEPT !.contents = c], s, placed)
        IN  /\ IF placed = {} THEN TwoFaults("junior", "request") ELSE Fault("junior")
            /\ db' = [db EXCEPT ![p] =
                        TrimUpdateLog(e, StillNeededUpdates(e, s), FALSE)]
            /\ requests' = requests \cup [from : {p}, to : {s}, id : placed]
  BY DEF JuniorRescanMisexecutes
<1>4. /\ multicasts' = multicasts /\ faults' \in Nat
      /\ placed # {FULL} => faults' = faults + 2
  BY <1>3 DEF JuniorRescanMisexecutes, Fault, TwoFaults, TypeOK
<1> DEFINE x == [ReplayedTo(d, n) EXCEPT !.contents = c]
           e == OnOrder(x, s, placed)
           needed == StillNeededUpdates(e, s)
           t == TrimUpdateLog(e, needed, FALSE)
<1> HIDE DEF d
<1>5. n \in StateIDs
  <2>1. target \in StateIDs /\ d.stateID \in StateIDs
    BY <1>2, TargetType DEF DatabaseStates
  <2> QED
    BY <2>1, BoundsAssumption DEF StateIDs
<1>6. /\ x \in DatabaseStates
      /\ x.updateLog = d.updateLog /\ x.totalBytes = d.totalBytes
  <2>1. x = [d EXCEPT !.stateID = n, !.contents = c]
    BY <1>2 DEF ReplayedTo, DatabaseStates
  <2> QED
    BY <1>2, <1>5, <2>1 DEF DatabaseStates
<1> HIDE DEF x
<1>7. SoundDatabaseState(x, history)
  BY <1>1, <1>2, <1>6, SoundSameLog
<1>8. SoundDatabaseState(e, history) /\ \A i \in placed : <<s, i>> \in e.backorders
  <2>1. placed \in SUBSET (StateIDs \cup {FULL})
    OBVIOUS
  <2> QED
    BY <1>1, <1>7, <2>1, OnOrderIsSound, Zenon
<1> HIDE DEF e, needed
<1>9. SoundDatabaseState(t, history) /\ t.backorders = e.backorders
  BY <1>8, TrimIsSound, Zenon
<1>10. db' = [db EXCEPT ![p] = t]
  BY <1>3 DEF x, e, needed
<1> HIDE DEF t
<1>11. IsAwaitingFullDatabaseResendReply(t, senior[p]) \/ faults' = faults + 2
  BY <1>4, <1>8, <1>9 DEF IsAwaitingFullDatabaseResendReply
<1>12. /\ db' \in [Peers -> DatabaseStates] /\ DatabasesAreSound'
       /\ SeniorStatesAreHeld' /\ UnattachedPeersAreBlank' /\ VerifiedStep
  BY <1>1, <1>9, <1>10, <1>11, OneDatabaseChanges, NoPeerAssumption
<1>13. UpdatesUnderWayAreHeld'
  BY <1>4, LessUnderWay
<1>14. requests' \subseteq Requests
  BY <1>1, <1>3 DEF TypeOK, Requests
<1> QED
  BY <1>4, <1>12, <1>13, <1>14 DEF RescanIsGood, TypeOK

(* A junior that has seen no beacon moves nowhere.                         *)
LEMMA UninformedRescanIsGood ==
  ASSUME EverythingComesFromASenior, NEW p \in Peers, UninformedRescan(p),
         db[p].rescanPending,
         senior' = senior, history' = history, replies' = replies
  PROVE  RescanIsGood
<1> DEFINE e == [db[p] EXCEPT !.rescanPending = FALSE]
<1>1. /\ SoundDatabaseState(db[p], history) /\ db[p] \in DatabaseStates
      /\ db \in [Peers -> DatabaseStates]
      /\ senior[p] # p /\ senior[p] \in Peers
  BY Facts, AttachedPeersHaveASenior DEF UninformedRescan, IAmTheSeniorPeer
<1>2. /\ e \in DatabaseStates
      /\ e.updateLog = db[p].updateLog /\ e.totalBytes = db[p].totalBytes
      /\ e.stateID = db[p].stateID
  BY <1>1 DEF DatabaseStates
<1>3. db' = [db EXCEPT ![p] = e]
  BY <1>1 DEF UninformedRescan
<1> HIDE DEF e
<1>4. SoundDatabaseState(e, history)
  BY <1>1, <1>2, SoundSameLog
<1>5. /\ db' \in [Peers -> DatabaseStates] /\ DatabasesAreSound'
      /\ SeniorStatesAreHeld' /\ UnattachedPeersAreBlank' /\ VerifiedStep
  BY <1>1, <1>2, <1>3, <1>4, OneDatabaseChanges, NoPeerAssumption
<1>6. UpdatesUnderWayAreHeld'
  BY LessUnderWay DEF UninformedRescan
<1> QED
  BY <1>5, <1>6 DEF RescanIsGood, UninformedRescan, TypeOK

(* Whatever a rescan finds to do.                                          *)
LEMMA RescanUpdateLogIsGood ==
  ASSUME EverythingComesFromASenior, NEW p \in Peers, RescanUpdateLog(p),
         db[p].rescanPending,
         senior' = senior, history' = history, replies' = replies
  PROVE  RescanIsGood
  BY SeniorRescanIsGood, UninformedRescanIsGood, JuniorRescanIsGood, MisexecutionIsGood
  DEF RescanUpdateLog

(* RescanUpdateLogIfNecessary() keeps the invariant.                       *)
LEMMA RescanUpdateLogIfNecessaryStep ==
  ASSUME EverythingComesFromASenior, NEW p \in Peers, RescanUpdateLogIfNecessary(p)
  PROVE  GoodStep
<1>1. RescanIsGood
  BY RescanUpdateLogIsGood DEF RescanUpdateLogIfNecessary
<1>2. TypeOK'
  BY <1>1 DEF RescanIsGood, RescanUpdateLogIfNecessary, TypeOK
<1> QED
  BY <1>1, <1>2 DEF GoodStep, RescanIsGood, RescanUpdateLogIfNecessary

(* SetBeaconData() keeps the invariant.                                    *)
LEMMA SetBeaconDataStep ==
  ASSUME EverythingComesFromASenior, NEW p \in Peers, SetBeaconData(p)
  PROVE  GoodStep
<1>1. senior' = senior /\ history' = history /\ replies' = replies
  BY DEF SetBeaconData
<1>2. RescanIsGood
  <2>1. CASE db[p].rescanPending
    BY <1>1, <2>1, RescanUpdateLogIsGood DEF SetBeaconData
  <2>2. CASE ~db[p].rescanPending
    <3>1. db' = db /\ multicasts' = multicasts /\ requests' = requests /\ faults' = faults
      BY <2>2 DEF SetBeaconData
    <3>2. UpdatesUnderWayAreHeld'
      BY <1>1, <3>1, LessUnderWay
    <3>3. /\ db' \in [Peers -> DatabaseStates] /\ DatabasesAreSound'
          /\ SeniorStatesAreHeld' /\ UnattachedPeersAreBlank' /\ VerifiedStep
      BY <1>1, <3>1, NoDatabaseChanges
    <3> QED
      BY <3>1, <3>2, <3>3 DEF RescanIsGood, TypeOK
  <2> QED
    BY <2>1, <2>2
<1>3. GetDatabaseStateInfo(db'[p]) \in StateInfos
  <2>1. db'[p] \in DatabaseStates
    BY <1>2 DEF RescanIsGood
  <2>2. db'[p].updateLog \in Logs /\ db'[p].stateID \in StateIDs
    BY <2>1 DEF DatabaseStates
  <2>3. FirstKey(db'[p].updateLog) \in StateIDs \cup {NoOldestID}
    BY <2>2, KeysType
  <2> QED
    BY <2>2, <2>3 DEF GetDatabaseStateInfo, StateInfos
<1>4. outgoing' \in [Peers -> SUBSET StateInfos]
  <2>1. outgoing \in [Peers -> SUBSET StateInfos]
    BY DEF TypeOK
  <2> QED
    BY <1>3, <2>1 DEF SetBeaconData
<1>5. TypeOK'
  BY <1>1, <1>2, <1>4 DEF SetBeaconData, RescanIsGood, TypeOK
<1> QED
  BY <1>1, <1>2, <1>5 DEF GoodStep, RescanIsGood

---------------------------------------------------------------------------
(* Deliveries.                                                             *)

(* SendBeacon() keeps the invariant.                                       *)
LEMMA SendBeaconStep ==
  ASSUME EverythingComesFromASenior, NEW p \in Peers, NEW q \in Peers, SendBeacon(p, q)
  PROVE  GoodStep
<1>1. PICK info \in outgoing[p] :
        beacons' = beacons \cup {[from |-> p, to |-> q, info |-> info]}
  BY DEF SendBeacon
<1>2. info \in StateInfos
  BY DEF TypeOK
<1>3. beacons' \subseteq Beacons
  BY <1>1, <1>2 DEF Beacons, TypeOK
<1>4. /\ db' \in [Peers -> DatabaseStates] /\ DatabasesAreSound'
      /\ SeniorStatesAreHeld' /\ UnattachedPeersAreBlank' /\ VerifiedStep
  BY NoDatabaseChanges DEF SendBeacon
<1>5. UpdatesUnderWayAreHeld'
  BY LessUnderWay DEF SendBeacon
<1>6. TypeOK'
  BY <1>3, <1>4 DEF SendBeacon, TypeOK
<1> QED
  BY <1>4, <1>5, <1>6 DEF GoodStep, SendBeacon

(* BeaconDataChanged() keeps the invariant.                                *)
LEMMA BeaconDataChangedStep ==
  ASSUME EverythingComesFromASenior, NEW b \in beacons, BeaconDataChanged(b)
  PROVE  GoodStep
<1> DEFINE p == b.to
           e == SeniorDatabaseStateInfoChanged(db[p], b.info)
<1>1. p \in Peers /\ b.from \in Peers /\ b.info \in StateInfos
  BY DEF TypeOK, Beacons
<1>2. SoundDatabaseState(db[p], history) /\ db \in [Peers -> DatabaseStates]
  BY <1>1, Facts
<1>3. /\ db' \in [Peers -> DatabaseStates] /\ DatabasesAreSound'
      /\ SeniorStatesAreHeld' /\ UnattachedPeersAreBlank' /\ VerifiedStep
  <2>1. CASE senior[p] # b.from
    BY <2>1, NoDatabaseChanges DEF BeaconDataChanged
  <2>2. CASE senior[p] = b.from
    <3>1. SoundDatabaseState(e, history) /\ e.stateID = db[p].stateID /\ e.contents = db[p].contents
      BY <1>1, <1>2, InfoChangedIsSound, Zenon
    <3>2. db' = [db EXCEPT ![p] = e]
      BY <1>2, <2>2 DEF BeaconDataChanged
    <3> HIDE DEF e
    <3>3. Held(e) = Held(db[p])
      BY <3>1 DEF Held
    <3>4. senior' = senior /\ history' = history
      BY DEF BeaconDataChanged
    <3>5. senior[p] = p => Held(e) \in history
      BY <1>1, <3>3 DEF SeniorStatesAreHeld, IAmTheSeniorPeer
    <3> HIDE DEF p
    <3> QED
      BY <1>1, <2>2, <3>1, <3>2, <3>4, <3>5, OneDatabaseChanges, NoPeerAssumption
  <2> QED
    BY <2>1, <2>2
<1>4. UpdatesUnderWayAreHeld'
  BY LessUnderWay DEF BeaconDataChanged
<1>5. TypeOK'
  BY <1>3 DEF BeaconDataChanged, TypeOK
<1> QED
  BY <1>3, <1>4, <1>5 DEF GoodStep, BeaconDataChanged

(* HandleJuniorUpdate() keeps the invariant.                               *)
LEMMA HandleJuniorUpdateStep ==
  ASSUME EverythingComesFromASenior, NEW m \in multicasts, HandleJuniorUpdate(m)
  PROVE  GoodStep
<1> DEFINE p == m.to
           e == AddDatabaseUpdateToUpdateLog(db[p], m.up, FALSE)
<1>1. /\ p \in Peers /\ m.from \in Peers /\ m.up \in Updates
      /\ m.up.id > 0 /\ <<m.up.id, m.up.post>> \in history
  BY DEF TypeOK, Multicasts, UpdatesUnderWayAreHeld
<1>2. SoundDatabaseState(db[p], history) /\ db \in [Peers -> DatabaseStates]
  BY <1>1, Facts
<1>3. /\ db' \in [Peers -> DatabaseStates] /\ DatabasesAreSound'
      /\ SeniorStatesAreHeld' /\ UnattachedPeersAreBlank' /\ VerifiedStep
  <2>1. CASE ~(senior[p] = m.from /\ ~IAmTheSeniorPeer(p))
    BY <2>1, NoDatabaseChanges DEF HandleJuniorUpdate
  <2>2. CASE senior[p] = m.from /\ ~IAmTheSeniorPeer(p)
    <3>1. SoundDatabaseState(e, history) /\ e.stateID = db[p].stateID
      BY <1>1, <1>2, AddIsSound
    <3>2. db' = [db EXCEPT ![p] = e]
      BY <1>2, <2>2 DEF HandleJuniorUpdate
    <3> HIDE DEF e
    <3>3. senior' = senior /\ history' = history
      BY DEF HandleJuniorUpdate
    <3> HIDE DEF p
    <3> QED
      BY <1>1, <2>2, <3>1, <3>2, <3>3, OneDatabaseChanges, NoPeerAssumption
      DEF IAmTheSeniorPeer
  <2> QED
    BY <2>1, <2>2
<1>4. UpdatesUnderWayAreHeld'
  BY LessUnderWay DEF HandleJuniorUpdate
<1>5. TypeOK'
  BY <1>3 DEF HandleJuniorUpdate, TypeOK
<1> QED
  BY <1>3, <1>4, <1>5 DEF GoodStep, HandleJuniorUpdate

(* HandleBackOrderRequest() keeps the invariant: a full database that a    *)
(* peer sends counts as held by a peer acting as senior.                   *)
LEMMA HandleBackOrderRequestStep ==
  ASSUME EverythingComesFromASenior, NEW r \in requests, HandleBackOrderRequest(r)
  PROVE  GoodStep
<1> DEFINE d == db[r.to]
           ups == GetDatabaseUpdateByID(d, r.id)
           reply(answer) == [from |-> r.to, to |-> r.from, id |-> r.id, ups |-> answer]
<1>1. r.to \in Peers /\ r.from \in Peers /\ r.id \in StateIDs \cup {FULL}
  BY DEF TypeOK, Requests
<1>2. SoundDatabaseState(d, history) /\ Held(d) \in StateIDs \X Contents
  BY <1>1, Facts
<1>3. d.stateID \in StateIDs /\ d.contents \in Contents
  BY <1>2, SoundFields DEF DatabaseStates
<1>4. history \subseteq history' /\ history' \subseteq StateIDs \X Contents
  BY <1>2 DEF HandleBackOrderRequest, TypeOK
<1>5. \A k \in DOMAIN d.updateLog :
        /\ d.updateLog[k] \in Updates /\ d.updateLog[k].id > 0
        /\ <<d.updateLog[k].id, d.updateLog[k].post>> \in history
  <2>1. \A k \in DOMAIN d.updateLog :
          k \in 1 .. MaxStateID /\ d.updateLog[k] \in Updates
    BY <1>2, SoundFields
  <2>2. \A k \in DOMAIN d.updateLog :
          d.updateLog[k].id = k /\ <<k, d.updateLog[k].post>> \in history
    BY <1>2, SoundFields
  <2>3. \A k \in 1 .. MaxStateID : k > 0
    BY BoundsAssumption
  <2> QED
    BY <2>1, <2>2, <2>3
<1>6. PICK answer \in {ups, {}} :
        /\ replies' = replies \cup {reply(answer)}
        /\ answer = ups /\ r.id = FULL => Held(d) \in history'
  <2>1. CASE replies' = replies \cup {reply(ups)}
             /\ history' = IF r.id = FULL THEN history \cup {Held(d)} ELSE history
    BY <2>1
  <2>2. CASE r.id = FULL /\ replies' = replies \cup {[from |-> r.to, to |-> r.from, id |-> FULL, ups |-> {}]}
    <3>1. replies' = replies \cup {reply({})}
      BY <2>2
    <3>2. {} # ups
      BY <2>2 DEF GetDatabaseUpdateByID
    <3> QED
      BY <3>1, <3>2
  <2> QED
    BY <2>1, <2>2 DEF HandleBackOrderRequest
<1>7. \A up \in answer :
        /\ up \in Updates /\ <<up.id, up.post>> \in history'
        /\ r.id # FULL => up.id > 0
  <2> SUFFICES ASSUME NEW up \in answer
               PROVE  /\ up \in Updates /\ <<up.id, up.post>> \in history'
                      /\ r.id # FULL => up.id > 0
    OBVIOUS
  <2>1. answer = ups
    OBVIOUS
  <2>2. CASE r.id = FULL
    <3>1. up = [id |-> d.stateID, pre |-> d.contents, post |-> d.contents, payload |-> TRUE]
      BY <2>1, <2>2 DEF GetDatabaseUpdateByID
    <3>2. <<up.id, up.post>> = Held(d)
      BY <3>1 DEF Held
    <3> QED
      BY <1>3, <1>6, <2>1, <2>2, <3>1, <3>2 DEF Updates
  <2>3. CASE r.id # FULL
    BY <1>4, <1>5, <2>1, <2>3 DEF GetDatabaseUpdateByID
  <2> QED
    BY <2>2, <2>3
<1> HIDE DEF ups
<1>8. reply(answer) \in Replies
  BY <1>1, <1>7 DEF Replies
<1>9. /\ db' \in [Peers -> DatabaseStates] /\ DatabasesAreSound'
      /\ SeniorStatesAreHeld' /\ UnattachedPeersAreBlank' /\ VerifiedStep
  BY <1>4, NoDatabaseChanges DEF HandleBackOrderRequest
<1>10. UpdatesUnderWayAreHeld'
  BY <1>4, <1>6, <1>7 DEF UpdatesUnderWayAreHeld, HandleBackOrderRequest
<1>11. replies' \subseteq Replies
  BY <1>6, <1>8 DEF TypeOK
<1>12. requests' \subseteq Requests /\ faults' \in Nat
  BY DEF HandleBackOrderRequest, Fault, TypeOK
<1>13. TypeOK'
  BY <1>4, <1>9, <1>11, <1>12 DEF HandleBackOrderRequest, TypeOK
<1> QED
  BY <1>4, <1>9, <1>10, <1>13 DEF GoodStep

(* BackOrderResultReceived() keeps the invariant.                          *)
LEMMA BackOrderResultReceivedStep ==
  ASSUME EverythingComesFromASenior, NEW r \in replies, BackOrderResultReceived(r)
  PROVE  GoodStep
<1> DEFINE p == r.to
           key == <<r.from, r.id>>
           d == [db[p] EXCEPT !.backorders = @ \ {key}]
           Applies == key \in db[p].backorders /\ senior[p] = r.from /\ ~IAmTheSeniorPeer(p)
           order == NotOnOrder(d, senior[p], {FULL})
<1>1. /\ p \in Peers /\ r.from \in Peers
      /\ \A up \in r.ups : /\ up \in Updates /\ <<up.id, up.post>> \in history
                           /\ r.id # FULL => up.id > 0
  BY DEF TypeOK, Replies, UpdatesUnderWayAreHeld
<1>2. /\ SoundDatabaseState(db[p], history) /\ db[p] \in DatabaseStates
      /\ db \in [Peers -> DatabaseStates]
  BY <1>1, Facts
<1>3. /\ d \in DatabaseStates
      /\ d.updateLog = db[p].updateLog /\ d.totalBytes = db[p].totalBytes
      /\ d.stateID = db[p].stateID /\ d.contents = db[p].contents
      /\ db[p].backorders = {} => d = db[p]
  BY <1>2 DEF DatabaseStates
<1>4. /\ senior' = senior /\ history' = history /\ multicasts' = multicasts
      /\ replies' \subseteq replies
  BY DEF BackOrderResultReceived
<1>5. \/ ~Applies /\ db' = [db EXCEPT ![p] = d] /\ UNCHANGED <<requests, faults>>
      \/ Applies /\ db' = [db EXCEPT ![p] = d] /\ UNCHANGED <<requests, faults>>
      \/ /\ Applies /\ UNCHANGED <<requests, faults>>
         /\ \E up \in r.ups :
              db' = [db EXCEPT ![p] = ScheduleLogContentsRescan(JuniorReplaced(d, up))]
      \/ /\ Applies /\ UNCHANGED requests /\ faults' = faults + 1
         /\ \E c \in Contents : db' = [db EXCEPT ![p] = [d EXCEPT !.contents = c]]
      \/ /\ Applies /\ r.id # FULL /\ UNCHANGED <<requests, faults>>
         /\ \E up \in r.ups :
              db' = [db EXCEPT ![p] = AddDatabaseUpdateToUpdateLog(d, up, FALSE)]
      \/ /\ Applies
         /\ \E placed \in PossibleOrders(order) :
              /\ RequestBackOrders(p, d, order, placed)
              /\ db' = [db EXCEPT ![p] = OnOrder(d, senior[p], placed)]
  BY DEF BackOrderResultReceived, Fault
<1> DEFINE Result ==
      /\ db' \in [Peers -> DatabaseStates] /\ DatabasesAreSound'
      /\ SeniorStatesAreHeld' /\ UnattachedPeersAreBlank' /\ VerifiedStep
      /\ requests' \subseteq Requests /\ faults' \in Nat
<1>6. requests \subseteq Requests /\ faults \in Nat /\ faults + 1 \in Nat
  BY DEF TypeOK
<1>7. SoundDatabaseState(d, history)
  <2> HIDE DEF d
  <2> QED BY <1>2, <1>3, SoundSameLog
<1>8. ASSUME ~Applies, db' = [db EXCEPT ![p] = d], UNCHANGED <<requests, faults>>
      PROVE  Result
  <2> HIDE DEF d, Applies
  <2>1. Held(d) = Held(db[p])
    BY <1>3 DEF Held
  <2>2. senior[p] = p => Held(d) \in history
    BY <1>1, <2>1 DEF SeniorStatesAreHeld, IAmTheSeniorPeer
  <2>3. senior[p] = NoPeer => d = NewDatabaseState
    BY <1>1, <1>3 DEF UnattachedPeersAreBlank, NewDatabaseState
  <2> HIDE DEF p
  <2>4. /\ db' \in [Peers -> DatabaseStates] /\ DatabasesAreSound'
        /\ SeniorStatesAreHeld' /\ UnattachedPeersAreBlank' /\ VerifiedStep
    BY <1>1, <1>3, <1>4, <1>7, <1>8, <2>2, <2>3, OneDatabaseChanges
  <2> QED
    BY <1>6, <1>8, <2>4
<1>9. ASSUME Applies, NEW e, db' = [db EXCEPT ![p] = e], SoundDatabaseState(e, history),
             e.stateID = db[p].stateID \/ Held(e) \in history
      PROVE  /\ db' \in [Peers -> DatabaseStates] /\ DatabasesAreSound'
             /\ SeniorStatesAreHeld' /\ UnattachedPeersAreBlank' /\ VerifiedStep
  <2>1. senior[p] # p /\ senior[p] # NoPeer
    BY <1>1, <1>9, NoPeerAssumption DEF IAmTheSeniorPeer
  <2> HIDE DEF p, Applies
  <2> QED
    BY <1>1, <1>4, <1>9, <2>1, OneDatabaseChanges
<1>10. ASSUME Applies, db' = [db EXCEPT ![p] = d], UNCHANGED <<requests, faults>>
      PROVE  Result
  <2> HIDE DEF d, Applies, p
  <2> QED BY <1>3, <1>6, <1>7, <1>9, <1>10
<1>11. ASSUME Applies, UNCHANGED <<requests, faults>>, NEW up \in r.ups,
              db' = [db EXCEPT ![p] = ScheduleLogContentsRescan(JuniorReplaced(d, up))]
       PROVE  Result
  <2> DEFINE x == JuniorReplaced(d, up)
             e == ScheduleLogContentsRescan(x)
  <2> HIDE DEF d, Applies, p
  <2>1. SoundDatabaseState(x, history) /\ x.stateID = up.id /\ x.contents = up.post
    BY <1>1, <1>7, ReplacedIsSound, Zenon
  <2> HIDE DEF x
  <2>2. SoundDatabaseState(e, history) /\ e.stateID = x.stateID /\ e.contents = x.contents
    BY <2>1, ScheduleIsSound, Zenon
  <2>3. db' = [db EXCEPT ![p] = e]
    BY <1>11 DEF x
  <2> HIDE DEF e
  <2>4. Held(e) \in history
    BY <1>1, <2>1, <2>2 DEF Held
  <2> QED
    BY <1>6, <1>9, <1>11, <2>2, <2>3, <2>4
<1>12. ASSUME Applies, UNCHANGED requests, faults' = faults + 1, NEW c \in Contents,
              db' = [db EXCEPT ![p] = [d EXCEPT !.contents = c]]
       PROVE  Result
  <2> DEFINE e == [d EXCEPT !.contents = c]
  <2> HIDE DEF d, Applies, p
  <2>1. /\ e \in DatabaseStates /\ e.stateID = d.stateID
        /\ e.updateLog = d.updateLog /\ e.totalBytes = d.totalBytes
    BY <1>3 DEF DatabaseStates
  <2>2. db' = [db EXCEPT ![p] = e]
    BY <1>12
  <2> HIDE DEF e
  <2>3. SoundDatabaseState(e, history)
    BY <1>7, <2>1, SoundSameLog
  <2> QED
    BY <1>3, <1>6, <1>9, <1>12, <2>1, <2>2, <2>3
<1>13. ASSUME Applies, r.id # FULL, UNCHANGED <<requests, faults>>, NEW up \in r.ups,
              db' = [db EXCEPT ![p] = AddDatabaseUpdateToUpdateLog(d, up, FALSE)]
       PROVE  Result
  <2> DEFINE e == AddDatabaseUpdateToUpdateLog(d, up, FALSE)
  <2> HIDE DEF d, Applies, p
  <2>1. SoundDatabaseState(e, history) /\ e.stateID = d.stateID
    BY <1>1, <1>7, <1>13, AddIsSound
  <2>2. db' = [db EXCEPT ![p] = e]
    BY <1>13
  <2> HIDE DEF e
  <2> QED
    BY <1>3, <1>6, <1>9, <1>13, <2>1, <2>2
<1>14. ASSUME Applies, NEW placed \in PossibleOrders(order),
              RequestBackOrders(p, d, order, placed),
              db' = [db EXCEPT ![p] = OnOrder(d, senior[p], placed)]
       PROVE  Result
  <2> DEFINE e == OnOrder(d, senior[p], placed)
  <2>1. senior[p] \in Peers
    BY <1>1, <1>14
  <2>2. order \in SUBSET (StateIDs \cup {FULL})
    BY DEF NotOnOrder
  <2> HIDE DEF d, Applies, p, order
  <2>3. placed \in SUBSET (StateIDs \cup {FULL})
    BY <2>2, PossibleOrdersType
  <2>4. SoundDatabaseState(e, history) /\ e.stateID = d.stateID
    BY <1>7, <2>1, <2>3, OnOrderIsSound, Zenon
  <2>5. db' = [db EXCEPT ![p] = e]
    BY <1>14
  <2> HIDE DEF e
  <2>6. requests' \subseteq Requests /\ faults' \in Nat
    BY <1>1, <1>14, <2>1, <2>3, RequestsType
  <2> QED
    BY <1>3, <1>9, <1>14, <2>4, <2>5, <2>6
<1>15. Result
  <2> HIDE DEF d, Applies, p, order, Result
  <2> QED
    BY <1>5, <1>8, <1>10, <1>11, <1>12, <1>13, <1>14
<1>16. UpdatesUnderWayAreHeld'
  BY <1>4, LessUnderWay
<1>17. TypeOK'
  BY <1>4, <1>15 DEF BackOrderResultReceived, TypeOK
<1> QED
  BY <1>4, <1>15, <1>16, <1>17 DEF GoodStep

(* UnicastSessionEnds() keeps the invariant.                               *)
LEMMA UnicastSessionEndsStep ==
  ASSUME EverythingComesFromASenior, NEW p \in Peers, NEW q \in Peers,
         UnicastSessionEnds(p, q)
  PROVE  GoodStep
<1> DEFINE e == BackOrdersFailed(db[p], q)
           f == BackOrdersFailed(db[q], p)
<1>1. /\ SoundDatabaseState(db[p], history) /\ SoundDatabaseState(db[q], history)
      /\ db \in [Peers -> DatabaseStates] /\ p # q
  BY Facts DEF UnicastSessionEnds
<1>2. SoundDatabaseState(e, history) /\ e.stateID = db[p].stateID /\ e.contents = db[p].contents
  BY <1>1, FailedIsSound, Zenon
<1>3. SoundDatabaseState(f, history) /\ f.stateID = db[q].stateID /\ f.contents = db[q].contents
  BY <1>1, FailedIsSound, Zenon
<1>4. \A x : BackOrdersFailed(NewDatabaseState, x) = NewDatabaseState
  <2>1. \A x : {b \in NewDatabaseState.backorders : b[1] # x} = NewDatabaseState.backorders
    BY DEF NewDatabaseState
  <2>2. NewDatabaseState \in DatabaseStates
    BY NewIsSound, SoundFields
  <2>3. \A d \in DatabaseStates : [d EXCEPT !.backorders = d.backorders] = d
    BY DEF DatabaseStates
  <2> QED
    BY <2>1, <2>2, <2>3, Zenon DEF BackOrdersFailed
<1>5. db' = [db EXCEPT ![p] = e, ![q] = f]
  BY <1>1 DEF UnicastSessionEnds
<1>6. (senior[p] = NoPeer => e = NewDatabaseState) /\ (senior[q] = NoPeer => f = NewDatabaseState)
  BY <1>4 DEF UnattachedPeersAreBlank
<1> HIDE DEF e, f
<1>7. db'[p] = e /\ db'[q] = f /\ \A x \in Peers \ {p, q} : db'[x] = db[x]
  BY <1>1, <1>5
<1>8. Held(e) = Held(db[p]) /\ Held(f) = Held(db[q])
  BY <1>2, <1>3 DEF Held
<1>9. senior' = senior /\ history' = history
  BY DEF UnicastSessionEnds
<1>10. DatabasesAreSound'
  BY <1>2, <1>3, <1>7, <1>9 DEF DatabasesAreSound
<1>11. SeniorStatesAreHeld'
  BY <1>7, <1>8, <1>9 DEF SeniorStatesAreHeld, IAmTheSeniorPeer
<1>12. UnattachedPeersAreBlank'
  BY <1>6, <1>7, <1>9 DEF UnattachedPeersAreBlank
<1>13. VerifiedStep
  BY <1>2, <1>3, <1>7 DEF VerifiedStep
<1>14. db' \in [Peers -> DatabaseStates]
  <2>1. e \in DatabaseStates /\ f \in DatabaseStates
    BY <1>2, <1>3, SoundFields
  <2> QED
    BY <1>1, <1>5, <2>1
<1>15. UpdatesUnderWayAreHeld'
  BY <1>9, LessUnderWay DEF UnicastSessionEnds
<1>16. TypeOK'
  BY <1>14 DEF UnicastSessionEnds, Fault, TypeOK
<1> QED
  BY <1>9, <1>10, <1>11, <1>12, <1>13, <1>15, <1>16 DEF GoodStep

---------------------------------------------------------------------------
(* Every step keeps the invariant, and moves databases only to verified    *)
(* states.                                                                 *)
LEMMA EveryStepIsGood ==
  EverythingComesFromASenior /\ [Next]_vars => GoodStep
<1> SUFFICES ASSUME EverythingComesFromASenior, [Next]_vars PROVE GoodStep
  OBVIOUS
<1>1. ASSUME NEW p \in Peers, HandleResetRequest(p) \/ HandleReplaceOrUpdateRequest(p)
      PROVE  GoodStep
  BY <1>1, SuccessfulRequestStep, ContentsAssumption
  DEF HandleResetRequest, HandleReplaceOrUpdateRequest
<1>2. ASSUME NEW p \in Peers,
             \/ PeerHasComeOnline(p) \/ HandleFailingRequest(p)
             \/ RescanUpdateLogIfNecessary(p) \/ SetBeaconData(p)
             \/ Crash(p) \/ SeniorPeerHasGoneOffline(p)
      PROVE  GoodStep
  BY <1>2, PeerHasComeOnlineStep, FailingRequestStep, RescanUpdateLogIfNecessaryStep,
     SetBeaconDataStep, CrashStep, SeniorPeerHasGoneOfflineStep
<1>3. ASSUME NEW p \in Peers, NEW q \in Peers, SendBeacon(p, q) \/ UnicastSessionEnds(p, q)
      PROVE  GoodStep
  BY <1>3, SendBeaconStep, UnicastSessionEndsStep
<1>4. ASSUME NEW b \in beacons, BeaconDataChanged(b) PROVE GoodStep
  BY <1>4, BeaconDataChangedStep
<1>5. ASSUME NEW m \in multicasts, HandleJuniorUpdate(m) PROVE GoodStep
  BY <1>5, HandleJuniorUpdateStep
<1>6. ASSUME NEW r \in requests, HandleBackOrderRequest(r) PROVE GoodStep
  BY <1>6, HandleBackOrderRequestStep
<1>7. ASSUME NEW r \in replies, BackOrderResultReceived(r) PROVE GoodStep
  BY <1>7, BackOrderResultReceivedStep
<1>8. CASE UNCHANGED vars
  <2>1. /\ db' \in [Peers -> DatabaseStates] /\ DatabasesAreSound'
        /\ SeniorStatesAreHeld' /\ UnattachedPeersAreBlank' /\ VerifiedStep
    BY <1>8, NoDatabaseChanges DEF vars
  <2>2. UpdatesUnderWayAreHeld'
    BY <1>8, LessUnderWay DEF vars
  <2>3. TypeOK'
    BY <1>8 DEF vars, TypeOK
  <2> QED
    BY <1>8, <2>1, <2>2, <2>3 DEF vars, GoodStep
<1> QED
  BY <1>1, <1>2, <1>3, <1>4, <1>5, <1>6, <1>7, <1>8 DEF Next, ReignNext

(* Whatever peers hold in their logs or have under way is a state that a   *)
(* peer acting as senior has held, through any losses, failures, crashes   *)
(* and changes of senior peer: the invariant of the replication protocol   *)
(* of ZGPeerSession and PZGDatabaseState.                                  *)
THEOREM Provenance ==
  Spec => []EverythingComesFromASenior
<1>1. EverythingComesFromASenior /\ [Next]_vars => EverythingComesFromASenior'
  BY EveryStepIsGood DEF GoodStep
<1> QED
  BY InitEstablishes, <1>1, PTL DEF Spec

(* Every variable keeps its type: in particular no state ID, log key or    *)
(* back-order leaves the range of IDs the senior peers have assigned.      *)
THEOREM TypeCorrect ==
  Spec => []TypeOK
<1>1. EverythingComesFromASenior => TypeOK
  OBVIOUS
<1> QED
  BY Provenance, <1>1, PTL

(* A database moves to a new state ID only with contents that a peer       *)
(* acting as senior has held at that ID, or while it waits for a full      *)
(* resend: juniors verify what they execute (JuniorExecuteDatabaseUpdate   *)
(* and JuniorExecuteDatabaseReplace).                                      *)
THEOREM VerifiedMoves ==
  Spec => OnlyVerifiedStates
<1>1. EverythingComesFromASenior /\ [Next]_vars => [VerifiedStep]_vars
  BY EveryStepIsGood DEF GoodStep
<1> QED
  BY Provenance, <1>1, PTL DEF Spec, OnlyVerifiedStates

(* The unsigned _totalPayloadBytesInLog never wraps around below zero.     *)
THEOREM ByteCountNeverWraps ==
  Spec => []NoByteCountUnderflow
<1>1. EverythingComesFromASenior => NoByteCountUnderflow
  BY DEF DatabasesAreSound, SoundDatabaseState, NoByteCountUnderflow
<1> QED
  BY Provenance, <1>1, PTL

---------------------------------------------------------------------------
(* Back-orders.                                                            *)

HIDE DEF EverythingComesFromASenior

(* The databases before and after a step that changes p's alone.           *)
LEMMA OneDatabase ==
  ASSUME EverythingComesFromASenior, NEW p \in Peers, NEW e,
         db' = [db EXCEPT ![p] = e]
  PROVE  db'[p] = e /\ \A q \in Peers \ {p} : db'[q] = db[q]
  BY Facts

---------------------------------------------------------------------------
(* What a junior's rescan does.                                            *)

(* p's rescan leaves its database in state e and has placed orders.  It    *)
(* moves forwards, along entries of the log, unless p waits for the full   *)
(* database, and it sends requests for what was not on order yet.          *)
RescanLeaves(p, e, placed) ==
  /\ e \in DatabaseStates
  /\ db' = [db EXCEPT ![p] = e]
  /\ e.backorders = db[p].backorders \cup ({senior[p]} \X placed)
  /\ requests' = requests \cup
       [from : {p}, to : {senior[p]}, id : NotOnOrder(db[p], senior[p], placed)]
  /\ PartOfLog(e.updateLog, db[p].updateLog)
  /\ db[p].stateID <= e.stateID
  /\ e.stateID # db[p].stateID =>
       /\ e.stateID \in DOMAIN db[p].updateLog
       /\ ~IsAwaitingFullDatabaseResendReply(db[p], senior[p])

(* The fields that a junior's rescan resets are none of those that matter. *)
LEMMA RescanBeginsFields ==
  ASSUME NEW d \in DatabaseStates
  PROVE  LET e == [d EXCEPT !.rescanPending = FALSE, !.firstUnsent = d.stateID + 1]
         IN  e \in DatabaseStates /\ SameFields(d, e)
<1>1. LET e == [d EXCEPT !.rescanPending = FALSE, !.firstUnsent = d.stateID + 1]
      IN  SameFields(d, e)
  BY DEF SameFields, DatabaseStates
<1> QED
  BY <1>1, JuniorRescanBegins

(* The end of a rescan, from the state d that replaying has led to.        *)
LEMMA OrderAndTrimEffect ==
  ASSUME EverythingComesFromASenior, NEW p \in Peers, senior[p] \in Peers,
         NEW d, SoundDatabaseState(d, history), d.updateLog = db[p].updateLog,
         d.backorders = db[p].backorders, db[p].stateID <= d.stateID,
         d.stateID # db[p].stateID =>
           /\ d.stateID \in DOMAIN db[p].updateLog
           /\ ~IsAwaitingFullDatabaseResendReply(db[p], senior[p]),
         NEW placed \in SUBSET (StateIDs \cup {FULL}),
         LET e == OnOrder(d, senior[p], placed)
         IN  db' = [db EXCEPT ![p] =
                      TrimUpdateLog(e, StillNeededUpdates(e, senior[p]), FALSE)],
         requests' = requests \cup
           [from : {p}, to : {senior[p]}, id : NotOnOrder(d, senior[p], placed)]
  PROVE  \E e : RescanLeaves(p, e, placed) /\ Held(e) = Held(d)
<1> DEFINE e == OnOrder(d, senior[p], placed)
           needed == StillNeededUpdates(e, senior[p])
           t == TrimUpdateLog(e, needed, FALSE)
<1>1. d \in DatabaseStates
  BY SoundFields
<1>2. /\ e.stateID = d.stateID /\ e.contents = d.contents
      /\ e.updateLog = d.updateLog /\ e.seniorStateID = d.seniorStateID
      /\ e.backorders = d.backorders \cup ({senior[p]} \X placed)
  BY <1>1, OnOrderFields
<1>3. SoundDatabaseState(e, history) /\ e \in DatabaseStates
  <2>1. SoundDatabaseState(e, history)
    BY OnOrderIsSound
  <2> HIDE DEF e
  <2> QED BY <2>1, SoundFields
<1>4. db' = [db EXCEPT ![p] = t]
  OBVIOUS
<1> HIDE DEF e
<1>5. /\ t.stateID = e.stateID /\ t.contents = e.contents
      /\ t.backorders = e.backorders /\ t.seniorStateID = e.seniorStateID
      /\ PartOfLog(t.updateLog, e.updateLog)
  <2> HIDE DEF needed
  <2> QED BY <1>3, TrimFields
<1>6. SoundDatabaseState(t, history)
  <2> HIDE DEF needed
  <2> QED BY <1>3, TrimIsSound
<1> HIDE DEF t
<1>7. t \in DatabaseStates
  BY <1>6, SoundFields
<1> HIDE DEF needed
<1>8. NotOnOrder(d, senior[p], placed) = NotOnOrder(db[p], senior[p], placed)
  BY DEF NotOnOrder
<1>9. RescanLeaves(p, t, placed)
  BY <1>2, <1>4, <1>5, <1>7, <1>8 DEF RescanLeaves
<1> QED
  BY <1>2, <1>5, <1>9 DEF Held

(* A junior's rescan that executes what it replays.                        *)
LEMMA JuniorRescanEffect ==
  ASSUME EverythingComesFromASenior, NEW p \in Peers, JuniorRescan(p)
  PROVE  /\ senior[p] \in Peers /\ senior[p] # p /\ multicasts' = multicasts
         /\ faults' \in {faults, faults + 1}
         /\ \E e, placed :
              /\ RescanLeaves(p, e, placed)
              /\ Held(e) = Held(db[p]) \/ Held(e) \in history
<1> DEFINE d == [db[p] EXCEPT !.rescanPending = FALSE, !.firstUnsent = db[p].stateID + 1]
           s == senior[p]
           target == GetTargetDatabaseStateID(d)
           Ends(e) == \E wanted \in SUBSET (StateIDs \cup {FULL}) : OrderAndTrim(p, e, wanted)
<1>1. /\ SoundDatabaseState(db[p], history) /\ db[p] \in DatabaseStates
      /\ senior[p] # p /\ senior[p] \in Peers
  BY Facts, AttachedPeersHaveASenior DEF JuniorRescan, IAmTheSeniorPeer
<1>2. /\ d \in DatabaseStates /\ SameFields(db[p], d) /\ d.totalBytes = db[p].totalBytes
  BY <1>1, RescanBeginsFields, JuniorRescanBegins
<1>3. \/ OrderAndTrim(p, d, {})
      \/ OrderAndTrim(p, d, {FULL})
      \/ /\ ~IsAwaitingFullDatabaseResendReply(d, s)
         /\ \E n \in {d.stateID} \cup (d.stateID .. target) :
              LET e == ReplayedTo(d, n) IN
              /\ CanReplayTo(d, n)
              /\ \/ OrderAndTrim(p, e, {})
                 \/ OrderAndTrim(p, e, {FULL})
                 \/ OrderAndTrim(p, e, NotOnOrder(e, s, MissingUpdates(e, n)))
  BY DEF JuniorRescan
<1>4. multicasts' = multicasts
  BY DEF JuniorRescan
<1> HIDE DEF d
<1>5. SoundDatabaseState(d, history)
  BY <1>1, <1>2, SoundSameLog DEF SameFields
<1>6. PICK e : /\ SoundDatabaseState(e, history) /\ Ends(e)
               /\ e.updateLog = db[p].updateLog /\ e.backorders = db[p].backorders
               /\ db[p].stateID <= e.stateID
               /\ e.stateID # db[p].stateID =>
                    /\ e.stateID \in DOMAIN db[p].updateLog
                    /\ ~IsAwaitingFullDatabaseResendReply(db[p], senior[p])
               /\ Held(e) = Held(db[p]) \/ Held(e) \in history
  <2>1. CASE OrderAndTrim(p, d, {}) \/ OrderAndTrim(p, d, {FULL})
    <3>1. Ends(d)
      BY <2>1
    <3>2. db[p].stateID <= d.stateID
      BY <1>1, <1>2, BoundsAssumption DEF SameFields, DatabaseStates, StateIDs
    <3> QED
      BY <1>2, <1>5, <3>1, <3>2 DEF SameFields, Held
  <2>2. ASSUME ~IsAwaitingFullDatabaseResendReply(d, s),
               NEW n \in {d.stateID} \cup (d.stateID .. target), CanReplayTo(d, n),
               \/ OrderAndTrim(p, ReplayedTo(d, n), {})
               \/ OrderAndTrim(p, ReplayedTo(d, n), {FULL})
               \/ OrderAndTrim(p, ReplayedTo(d, n),
                    NotOnOrder(ReplayedTo(d, n), s, MissingUpdates(ReplayedTo(d, n), n)))
        PROVE  \E e : /\ SoundDatabaseState(e, history) /\ Ends(e)
                      /\ e.updateLog = db[p].updateLog /\ e.backorders = db[p].backorders
                      /\ db[p].stateID <= e.stateID
                      /\ e.stateID # db[p].stateID =>
                           /\ e.stateID \in DOMAIN db[p].updateLog
                           /\ ~IsAwaitingFullDatabaseResendReply(db[p], senior[p])
                      /\ Held(e) = Held(db[p]) \/ Held(e) \in history
    <3> DEFINE e == ReplayedTo(d, n)
    <3>1. target \in StateIDs /\ d.stateID \in StateIDs
      BY <1>2, TargetType DEF DatabaseStates
    <3>2. n \in StateIDs /\ d.stateID <= n /\ n \in Int /\ d.stateID \in Int
      BY <3>1, BoundsAssumption DEF StateIDs
    <3>3. /\ SoundDatabaseState(e, history) /\ e.stateID = n
          /\ n = d.stateID => e.contents = d.contents
          /\ n # d.stateID => <<n, e.contents>> \in history
      BY <1>5, <2>2, <3>2, ReplayedIsSound
    <3>4. e.updateLog = d.updateLog /\ e.backorders = d.backorders
      BY <1>2, ReplayedFields
    <3>5. n # d.stateID => n \in DOMAIN d.updateLog
      BY <2>2, <3>2 DEF CanReplayTo
    <3> HIDE DEF e
    <3>6. e \in DatabaseStates
      BY <3>3, SoundFields
    <3>7. NotOnOrder(e, s, MissingUpdates(e, n)) \in SUBSET (StateIDs \cup {FULL})
      BY <3>2, <3>6, MissingType DEF NotOnOrder
    <3>8. Ends(e)
      BY <2>2, <3>7 DEF e
    <3>9. Held(e) = Held(db[p]) \/ Held(e) \in history
      BY <1>2, <3>3 DEF Held, SameFields
    <3>10. ~IsAwaitingFullDatabaseResendReply(db[p], senior[p])
      BY <1>2, <2>2 DEF IsAwaitingFullDatabaseResendReply, SameFields
    <3>11. e.stateID # db[p].stateID => e.stateID \in DOMAIN db[p].updateLog
      BY <1>2, <3>3, <3>5 DEF SameFields
    <3>12. db[p].stateID <= e.stateID
      BY <1>2, <3>2, <3>3 DEF SameFields
    <3>13. e.updateLog = db[p].updateLog /\ e.backorders = db[p].backorders
      BY <1>2, <3>4 DEF SameFields
    <3> HIDE DEF Ends
    <3> QED
      BY <3>3, <3>8, <3>9, <3>10, <3>11, <3>12, <3>13
  <2> HIDE DEF Ends
  <2> QED
    BY <1>3, <2>1, <2>2
<1>7. PICK wanted \in SUBSET (StateIDs \cup {FULL}) : OrderAndTrim(p, e, wanted)
  BY <1>6
<1>8. PICK placed \in PossibleOrders(wanted) :
        LET o == OnOrder(e, senior[p], placed) IN
        /\ RequestBackOrders(p, e, wanted, placed)
        /\ db' = [db EXCEPT ![p] =
                    TrimUpdateLog(o, StillNeededUpdates(o, senior[p]), FALSE)]
  BY <1>7 DEF OrderAndTrim
<1>9. placed \in SUBSET (StateIDs \cup {FULL})
  BY PossibleOrdersType
<1>10. /\ requests' = requests \cup
            [from : {p}, to : {senior[p]}, id : NotOnOrder(e, senior[p], placed)]
       /\ faults' \in {faults, faults + 1}
  BY <1>8 DEF RequestBackOrders, Fault
<1>11. \E t : RescanLeaves(p, t, placed) /\ Held(t) = Held(e)
  BY <1>1, <1>6, <1>8, <1>9, <1>10, OrderAndTrimEffect
<1> QED
  BY <1>1, <1>4, <1>6, <1>10, <1>11

(* A junior's rescan that mis-executes an update.                          *)
LEMMA MisexecutionEffect ==
  ASSUME EverythingComesFromASenior, NEW p \in Peers, JuniorRescanMisexecutes(p)
  PROVE  /\ senior[p] \in Peers /\ senior[p] # p /\ multicasts' = multicasts
         /\ faults' \in {faults + 1, faults + 2}
         /\ \E e, placed :
              /\ RescanLeaves(p, e, placed)
              /\ \/ e.stateID = db[p].stateID
                 \/ \E c \in Contents : <<e.stateID, c>> \in history
<1> DEFINE d == [db[p] EXCEPT !.rescanPending = FALSE, !.firstUnsent = db[p].stateID + 1]
           s == senior[p]
           target == GetTargetDatabaseStateID(d)
<1>1. /\ SoundDatabaseState(db[p], history) /\ db[p] \in DatabaseStates
      /\ senior[p] # p /\ senior[p] \in Peers
  BY Facts, AttachedPeersHaveASenior DEF JuniorRescanMisexecutes, IAmTheSeniorPeer
<1>2. /\ d \in DatabaseStates /\ SameFields(db[p], d) /\ d.totalBytes = db[p].totalBytes
  BY <1>1, RescanBeginsFields, JuniorRescanBegins
<1>3. /\ ~IsAwaitingFullDatabaseResendReply(d, s)
      /\ multicasts' = multicasts
  BY DEF JuniorRescanMisexecutes
<1>4. PICK n \in d.stateID .. (target - 1), c \in Contents, placed \in {{FULL}, {}} :
        LET e == OnOrder([ReplayedTo(d, n) EXCEPT !.contents = c], s, placed)
        IN  /\ CanReplayTo(d, n + 1)
            /\ IF placed = {} THEN TwoFaults("junior", "request") ELSE Fault("junior")
            /\ db' = [db EXCEPT ![p] =
                        TrimUpdateLog(e, StillNeededUpdates(e, s), FALSE)]
            /\ requests' = requests \cup [from : {p}, to : {s}, id : placed]
  BY DEF JuniorRescanMisexecutes
<1> DEFINE x == [ReplayedTo(d, n) EXCEPT !.contents = c]
<1> HIDE DEF d
<1>5. n \in StateIDs /\ n \in Int /\ d.stateID \in Int /\ d.stateID <= n
  <2>1. target \in StateIDs /\ d.stateID \in StateIDs
    BY <1>2, TargetType DEF DatabaseStates
  <2> QED
    BY <2>1, BoundsAssumption DEF StateIDs
<1>6. /\ x \in DatabaseStates /\ x.stateID = n
      /\ x.updateLog = d.updateLog /\ x.totalBytes = d.totalBytes
      /\ x.backorders = d.backorders
  <2>1. x = [d EXCEPT !.stateID = n, !.contents = c]
    BY <1>2 DEF ReplayedTo, DatabaseStates
  <2> QED
    BY <1>2, <1>5, <2>1 DEF DatabaseStates
<1>7. SoundDatabaseState(x, history)
  <2> HIDE DEF x
  <2> QED BY <1>1, <1>2, <1>6, SoundSameLog DEF SameFields
<1>8. n # d.stateID => n \in DOMAIN d.updateLog
  BY <1>4, <1>5 DEF CanReplayTo
<1>9. NotOnOrder(x, s, placed) = placed
  BY <1>3, <1>6 DEF NotOnOrder, IsAwaitingFullDatabaseResendReply
<1>10. faults' \in {faults + 1, faults + 2}
  BY <1>4 DEF Fault, TwoFaults
<1>11. n = db[p].stateID \/ \E b \in Contents : <<n, b>> \in history
  <2>1. n # db[p].stateID => n \in DOMAIN db[p].updateLog
    BY <1>2, <1>8 DEF SameFields
  <2>2. n # db[p].stateID => /\ db[p].updateLog[n].post \in Contents
                             /\ <<n, db[p].updateLog[n].post>> \in history
    <3> HIDE DEF x
    <3> QED BY <1>1, <2>1, SoundFields DEF Updates
  <2> QED
    BY <2>2
<1>12. ~IsAwaitingFullDatabaseResendReply(db[p], s)
  BY <1>2, <1>3 DEF IsAwaitingFullDatabaseResendReply, SameFields
<1>13. placed \in SUBSET (StateIDs \cup {FULL})
  OBVIOUS
<1>14. LET e == OnOrder(x, s, placed)
       IN  db' = [db EXCEPT ![p] = TrimUpdateLog(e, StillNeededUpdates(e, s), FALSE)]
  BY <1>4
<1>15. requests' = requests \cup [from : {p}, to : {s}, id : NotOnOrder(x, s, placed)]
  BY <1>4, <1>9
<1> HIDE DEF x
<1>16. \E e : RescanLeaves(p, e, placed) /\ Held(e) = Held(x)
  <2>1. x.updateLog = db[p].updateLog /\ x.backorders = db[p].backorders
    BY <1>2, <1>6 DEF SameFields
  <2>2. db[p].stateID <= x.stateID
    BY <1>2, <1>5, <1>6 DEF SameFields
  <2>3. x.stateID # db[p].stateID => x.stateID \in DOMAIN db[p].updateLog
    BY <1>2, <1>6, <1>8 DEF SameFields
  <2> QED
    BY <1>1, <1>7, <1>12, <1>13, <1>14, <1>15, <2>1, <2>2, <2>3, OrderAndTrimEffect
<1>17. \A e : Held(e) = Held(x) => e.stateID = n
  BY <1>6 DEF Held
<1> QED
  BY <1>1, <1>3, <1>10, <1>11, <1>16, <1>17

---------------------------------------------------------------------------
(* Back-orders and what is under way for them.                             *)

(* The types that the proofs below need.                                   *)
LEMMA TrafficTypes ==
  ASSUME EverythingComesFromASenior
  PROVE  /\ \A r \in requests : r.from \in Peers /\ r.to \in Peers
                                /\ r = [from |-> r.from, to |-> r.to, id |-> r.id]
         /\ \A r \in replies : r.from \in Peers /\ r.to \in Peers
         /\ \A p \in Peers : \A b \in db[p].backorders : b = <<b[1], b[2]>>
         /\ alive \subseteq Peers
<1>1. \A p \in Peers : db[p].backorders \subseteq Peers \X (StateIDs \cup {FULL})
  BY Facts DEF DatabaseStates
<1> QED
  BY <1>1 DEF EverythingComesFromASenior, TypeOK, Requests, Replies

(* A step that changes nobody's back-orders, and nothing under way.        *)
LEMMA NoOrders ==
  ASSUME EverythingComesFromASenior, BackOrdersAreUnderWay,
         \A q \in Peers : db'[q].backorders = db[q].backorders,
         requests' = requests, replies' = replies, alive' = alive
  PROVE  BackOrdersAreUnderWay'
<1>1. NobodyWaitsInVain'
  <2> SUFFICES ASSUME NEW p \in alive, NEW b \in db'[p].backorders
               PROVE  \/ [from |-> p, to |-> b[1], id |-> b[2]] \in requests'
                      \/ \E r \in replies' : r.from = b[1] /\ r.to = p /\ r.id = b[2]
    BY DEF NobodyWaitsInVain
  <2>1. b \in db[p].backorders
    BY TrafficTypes
  <2> QED
    BY <2>1 DEF BackOrdersAreUnderWay, NobodyWaitsInVain
<1>2. OneAnswerPerBackOrder'
  BY TrafficTypes DEF BackOrdersAreUnderWay, OneAnswerPerBackOrder
<1> QED
  BY <1>1, <1>2 DEF BackOrdersAreUnderWay

(* The same for a step that changes one database.                          *)
LEMMA NoOrdersOf ==
  ASSUME EverythingComesFromASenior, BackOrdersAreUnderWay, NEW p \in Peers, NEW e,
         db' = [db EXCEPT ![p] = e], e.backorders = db[p].backorders,
         requests' = requests, replies' = replies, alive' = alive
  PROVE  BackOrdersAreUnderWay'
<1>1. db'[p] = e /\ \A q \in Peers \ {p} : db'[q] = db[q]
  BY OneDatabase
<1>2. \A q \in Peers : db'[q].backorders = db[q].backorders
  BY <1>1
<1> QED
  BY <1>2, NoOrders

(* p asks s for what it has not on order yet.                              *)
LEMMA OrdersPlaced ==
  ASSUME EverythingComesFromASenior, BackOrdersAreUnderWay, NEW p \in Peers,
         NEW s \in Peers, NEW placed, NEW e, db' = [db EXCEPT ![p] = e],
         e.backorders = db[p].backorders \cup ({s} \X placed),
         requests' = requests \cup
           [from : {p}, to : {s}, id : NotOnOrder(db[p], s, placed)],
         replies' = replies, alive' = alive
  PROVE  BackOrdersAreUnderWay'
<1>1. db'[p] = e /\ \A q \in Peers \ {p} : db'[q] = db[q]
  BY OneDatabase
<1>2. NobodyWaitsInVain'
  <2> SUFFICES ASSUME NEW q \in alive, NEW b \in db'[q].backorders
               PROVE  \/ [from |-> q, to |-> b[1], id |-> b[2]] \in requests'
                      \/ \E r \in replies' : r.from = b[1] /\ r.to = q /\ r.id = b[2]
    BY DEF NobodyWaitsInVain
  <2>1. CASE b \in db[q].backorders
    BY <2>1 DEF BackOrdersAreUnderWay, NobodyWaitsInVain
  <2>2. CASE b \notin db[q].backorders
    <3>1. q = p
      BY <1>1, <2>2, TrafficTypes
    <3>2. b \in {s} \X placed
      BY <1>1, <2>2, <3>1
    <3>3. b[1] = s /\ b[2] \in NotOnOrder(db[p], s, placed)
      BY <2>2, <3>1, <3>2 DEF NotOnOrder
    <3> QED
      BY <3>1, <3>3
  <2> QED
    BY <2>1, <2>2
<1>3. OneAnswerPerBackOrder'
  <2>1. \A r \in requests' :
          \/ r \in requests
          \/ r.from = p /\ r.to = s /\ r.id \in placed /\ <<s, r.id>> \notin db[p].backorders
    BY DEF NotOnOrder
  <2>2. \A r \in requests' : <<r.to, r.id>> \in db'[r.from].backorders
    BY <1>1, <2>1, TrafficTypes, ZenonT(60) DEF BackOrdersAreUnderWay, OneAnswerPerBackOrder
  <2>3. \A r \in replies' : <<r.from, r.id>> \in db'[r.to].backorders
    BY <1>1, TrafficTypes DEF BackOrdersAreUnderWay, OneAnswerPerBackOrder
  <2>4. \A q \in requests', r \in replies' : ~(q.from = r.to /\ q.to = r.from /\ q.id = r.id)
    <3> SUFFICES ASSUME NEW q \in requests', NEW r \in replies,
                        q.from = r.to, q.to = r.from, q.id = r.id
                 PROVE  FALSE
      OBVIOUS
    <3>1. <<r.from, r.id>> \in db[r.to].backorders /\ q \notin requests
      BY DEF BackOrdersAreUnderWay, OneAnswerPerBackOrder
    <3> QED
      BY <2>1, <3>1
  <2>5. \A q, r \in replies' : q.from = r.from /\ q.to = r.to /\ q.id = r.id => q = r
    BY DEF BackOrdersAreUnderWay, OneAnswerPerBackOrder
  <2> QED
    BY <2>2, <2>3, <2>4, <2>5 DEF OneAnswerPerBackOrder
<1> QED
  BY <1>2, <1>3 DEF BackOrdersAreUnderWay

(* p gets reply r, which takes its back-order away, and may ask for the    *)
(* full database instead.                                                  *)
LEMMA AnswerTaken ==
  ASSUME EverythingComesFromASenior, BackOrdersAreUnderWay, NEW r \in replies,
         NEW placed, placed = {} \/ (placed = {FULL} /\ r.id # FULL), NEW e,
         db' = [db EXCEPT ![r.to] = e],
         e.backorders = (db[r.to].backorders \ {<<r.from, r.id>>}) \cup ({r.from} \X placed),
         requests' = requests \cup
           [from : {r.to}, to : {r.from}, id : NotOnOrder(db[r.to], r.from, placed)],
         replies' = replies \ {r}, alive' = alive
  PROVE  BackOrdersAreUnderWay'
<1> DEFINE p == r.to
           s == r.from
<1>1. p \in Peers /\ s \in Peers
  BY TrafficTypes
<1>2. db'[p] = e /\ \A q \in Peers \ {p} : db'[q] = db[q]
  BY <1>1, OneDatabase
<1>3. \A q \in requests, x \in replies : ~(q.from = x.to /\ q.to = x.from /\ q.id = x.id)
  BY DEF BackOrdersAreUnderWay, OneAnswerPerBackOrder
<1>4. \A q, x \in replies : q.from = x.from /\ q.to = x.to /\ q.id = x.id => q = x
  BY DEF BackOrdersAreUnderWay, OneAnswerPerBackOrder
<1>5. NobodyWaitsInVain'
  <2> SUFFICES ASSUME NEW q \in alive, NEW b \in db'[q].backorders
               PROVE  \/ [from |-> q, to |-> b[1], id |-> b[2]] \in requests'
                      \/ \E x \in replies' : x.from = b[1] /\ x.to = q /\ x.id = b[2]
    BY DEF NobodyWaitsInVain
  <2>1. CASE b \in db[q].backorders /\ ~(q = p /\ b = <<s, r.id>>)
    <3>1. \/ [from |-> q, to |-> b[1], id |-> b[2]] \in requests
          \/ \E x \in replies : x.from = b[1] /\ x.to = q /\ x.id = b[2]
      BY <2>1 DEF BackOrdersAreUnderWay, NobodyWaitsInVain
    <3>2. b = <<b[1], b[2]>>
      BY <2>1, TrafficTypes
    <3> QED
      BY <2>1, <3>1, <3>2
  <2>2. CASE ~(b \in db[q].backorders /\ ~(q = p /\ b = <<s, r.id>>))
    <3>1. q = p
      BY <1>2, <2>2, TrafficTypes
    <3>2. b \in {s} \X placed
      BY <1>2, <2>2, <3>1
    <3>3. b[1] = s /\ b[2] \in placed /\ b[2] = FULL /\ r.id # FULL
      BY <3>2
    <3>4. b \notin db[p].backorders
      BY <2>2, <3>1, <3>2, <3>3
    <3>5. b[2] \in NotOnOrder(db[p], s, placed)
      BY <3>2, <3>3, <3>4 DEF NotOnOrder
    <3> QED
      BY <3>1, <3>3, <3>5
  <2> QED
    BY <2>1, <2>2
<1>6. OneAnswerPerBackOrder'
  <2>1. \A q \in requests' :
          \/ q \in requests
          \/ q.from = p /\ q.to = s /\ q.id \in placed /\ <<s, q.id>> \notin db[p].backorders
    BY DEF NotOnOrder
  <2>2. \A q \in requests' : <<q.to, q.id>> \in db'[q.from].backorders
    <3> SUFFICES ASSUME NEW q \in requests' PROVE <<q.to, q.id>> \in db'[q.from].backorders
      OBVIOUS
    <3>1. CASE q \in requests
      <4>1. <<q.to, q.id>> \in db[q.from].backorders /\ q.from \in Peers
        BY <3>1, TrafficTypes DEF BackOrdersAreUnderWay, OneAnswerPerBackOrder
      <4>2. ~(q.from = p /\ q.to = s /\ q.id = r.id)
        BY <1>3, <3>1
      <4> QED
        BY <1>2, <4>1, <4>2
    <3>2. CASE q \notin requests
      BY <1>2, <2>1, <3>2
    <3> QED
      BY <3>1, <3>2
  <2>3. \A x \in replies' : <<x.from, x.id>> \in db'[x.to].backorders
    <3> SUFFICES ASSUME NEW x \in replies, x # r
                 PROVE  <<x.from, x.id>> \in db'[x.to].backorders
      OBVIOUS
    <3>1. <<x.from, x.id>> \in db[x.to].backorders /\ x.to \in Peers
      BY TrafficTypes DEF BackOrdersAreUnderWay, OneAnswerPerBackOrder
    <3>2. ~(x.to = p /\ x.from = s /\ x.id = r.id)
      BY <1>4
    <3> QED
      BY <1>2, <3>1, <3>2
  <2>4. \A q \in requests', x \in replies' : ~(q.from = x.to /\ q.to = x.from /\ q.id = x.id)
    <3> SUFFICES ASSUME NEW q \in requests', NEW x \in replies,
                        q.from = x.to, q.to = x.from, q.id = x.id
                 PROVE  FALSE
      OBVIOUS
    <3>1. <<x.from, x.id>> \in db[x.to].backorders /\ q \notin requests
      BY DEF BackOrdersAreUnderWay, OneAnswerPerBackOrder
    <3> QED
      BY <2>1, <3>1
  <2> QED
    BY <1>4, <2>2, <2>3, <2>4 DEF OneAnswerPerBackOrder
<1> QED
  BY <1>5, <1>6 DEF BackOrdersAreUnderWay

(* A request becomes a reply.                                              *)
LEMMA RequestAnswered ==
  ASSUME EverythingComesFromASenior, BackOrdersAreUnderWay, NEW r \in requests,
         NEW x, x.from = r.to, x.to = r.from, x.id = r.id,
         requests' = requests \ {r}, replies' = replies \cup {x},
         db' = db, alive' = alive
  PROVE  BackOrdersAreUnderWay'
<1>1. r = [from |-> r.from, to |-> r.to, id |-> r.id]
      /\ <<r.to, r.id>> \in db[r.from].backorders
  BY TrafficTypes DEF BackOrdersAreUnderWay, OneAnswerPerBackOrder
<1>2. NobodyWaitsInVain'
  <2> SUFFICES ASSUME NEW q \in alive, NEW b \in db[q].backorders
               PROVE  \/ [from |-> q, to |-> b[1], id |-> b[2]] \in requests'
                      \/ \E y \in replies' : y.from = b[1] /\ y.to = q /\ y.id = b[2]
    BY DEF NobodyWaitsInVain
  <2>1. \/ [from |-> q, to |-> b[1], id |-> b[2]] \in requests
        \/ \E y \in replies : y.from = b[1] /\ y.to = q /\ y.id = b[2]
    BY DEF BackOrdersAreUnderWay, NobodyWaitsInVain
  <2>2. CASE [from |-> q, to |-> b[1], id |-> b[2]] = r
    <3>1. x.from = b[1] /\ x.to = q /\ x.id = b[2]
      BY <2>2
    <3> QED
      BY <3>1
  <2> QED
    BY <2>1, <2>2
<1>3. OneAnswerPerBackOrder'
  <2>1. \A q \in requests' : <<q.to, q.id>> \in db'[q.from].backorders
    BY DEF BackOrdersAreUnderWay, OneAnswerPerBackOrder
  <2>2. \A y \in replies' : <<y.from, y.id>> \in db'[y.to].backorders
    BY <1>1 DEF BackOrdersAreUnderWay, OneAnswerPerBackOrder
  <2>3. \A q \in requests', y \in replies' : ~(q.from = y.to /\ q.to = y.from /\ q.id = y.id)
    <3> SUFFICES ASSUME NEW q \in requests, q # r, NEW y \in replies',
                        q.from = y.to, q.to = y.from, q.id = y.id
                 PROVE  FALSE
      OBVIOUS
    <3>1. y \notin replies
      BY DEF BackOrdersAreUnderWay, OneAnswerPerBackOrder
    <3>2. y = x /\ q = [from |-> q.from, to |-> q.to, id |-> q.id]
      BY <3>1, TrafficTypes
    <3> QED
      BY <1>1, <3>2
  <2>4. \A q, y \in replies' : q.from = y.from /\ q.to = y.to /\ q.id = y.id => q = y
    <3>1. \A y \in replies : ~(y.from = x.from /\ y.to = x.to /\ y.id = x.id)
      BY DEF BackOrdersAreUnderWay, OneAnswerPerBackOrder
    <3> QED
      BY <3>1 DEF BackOrdersAreUnderWay, OneAnswerPerBackOrder
  <2> QED
    BY <2>1, <2>2, <2>3, <2>4 DEF OneAnswerPerBackOrder
<1> QED
  BY <1>2, <1>3 DEF BackOrdersAreUnderWay

(* Back-orders are forgotten together with what is under way for them.     *)
LEMMA OrdersForgotten ==
  ASSUME EverythingComesFromASenior, BackOrdersAreUnderWay,
         requests' \subseteq requests, replies' \subseteq replies, alive' \subseteq alive,
         \A q \in Peers : db'[q].backorders \subseteq db[q].backorders,
         \A q \in alive', x \in requests :
           x.from = q /\ <<x.to, x.id>> \in db'[q].backorders => x \in requests',
         \A q \in alive', x \in replies :
           x.to = q /\ <<x.from, x.id>> \in db'[q].backorders => x \in replies',
         \A x \in requests' :
           <<x.to, x.id>> \in db[x.from].backorders => <<x.to, x.id>> \in db'[x.from].backorders,
         \A x \in replies' :
           <<x.from, x.id>> \in db[x.to].backorders => <<x.from, x.id>> \in db'[x.to].backorders
  PROVE  BackOrdersAreUnderWay'
<1>1. NobodyWaitsInVain'
  <2> SUFFICES ASSUME NEW q \in alive', NEW b \in db'[q].backorders
               PROVE  \/ [from |-> q, to |-> b[1], id |-> b[2]] \in requests'
                      \/ \E y \in replies' : y.from = b[1] /\ y.to = q /\ y.id = b[2]
    BY DEF NobodyWaitsInVain
  <2> DEFINE x == [from |-> q, to |-> b[1], id |-> b[2]]
  <2>1. q \in alive /\ q \in Peers /\ b \in db[q].backorders /\ b = <<b[1], b[2]>>
    BY TrafficTypes
  <2>2. x \in requests \/ \E y \in replies : y.from = b[1] /\ y.to = q /\ y.id = b[2]
    BY <2>1 DEF BackOrdersAreUnderWay, NobodyWaitsInVain
  <2>3. x.from = q /\ x.to = b[1] /\ x.id = b[2]
    OBVIOUS
  <2> HIDE DEF x
  <2>4. CASE x \in requests
    <3>1. x \in requests'
      BY <2>1, <2>3, <2>4
    <3> QED
      BY <3>1 DEF x
  <2>5. ASSUME NEW y \in replies, y.from = b[1], y.to = q, y.id = b[2]
        PROVE  \E z \in replies' : z.from = b[1] /\ z.to = q /\ z.id = b[2]
    BY <2>1, <2>5
  <2> QED
    BY <2>2, <2>4, <2>5
<1>2. OneAnswerPerBackOrder'
  <2>1. \A x \in requests' : <<x.to, x.id>> \in db'[x.from].backorders
    BY DEF BackOrdersAreUnderWay, OneAnswerPerBackOrder
  <2>2. \A x \in replies' : <<x.from, x.id>> \in db'[x.to].backorders
    BY DEF BackOrdersAreUnderWay, OneAnswerPerBackOrder
  <2>3. \A q \in requests', y \in replies' : ~(q.from = y.to /\ q.to = y.from /\ q.id = y.id)
    BY DEF BackOrdersAreUnderWay, OneAnswerPerBackOrder
  <2>4. \A q, y \in replies' : q.from = y.from /\ q.to = y.to /\ q.id = y.id => q = y
    BY DEF BackOrdersAreUnderWay, OneAnswerPerBackOrder
  <2> QED
    BY <2>1, <2>2, <2>3, <2>4 DEF OneAnswerPerBackOrder
<1> QED
  BY <1>1, <1>2 DEF BackOrdersAreUnderWay

---------------------------------------------------------------------------
(* One lemma per action.                                                   *)

(* PeerHasComeOnline() only attaches the peer.                             *)
LEMMA PeerHasComeOnlineIsOrderly ==
  ASSUME EverythingComesFromASenior, BackOrdersAreUnderWay, NEW p \in Peers,
         PeerHasComeOnline(p)
  PROVE  BackOrdersAreUnderWay'
<1> DEFINE up == [db[p] EXCEPT !.attached = TRUE]
           e == ScheduleLogContentsRescan(up)
<1>1. db[p] \in DatabaseStates
  BY Facts
<1>2. up \in DatabaseStates /\ SameFields(db[p], up)
  BY <1>1 DEF SameFields, DatabaseStates
<1>3. db' = [db EXCEPT ![p] = e]
  BY DEF PeerHasComeOnline
<1> HIDE DEF up
<1>4. SameFields(up, e)
  BY <1>2, ScheduleFields
<1> HIDE DEF e
<1>5. e.backorders = db[p].backorders /\ e.updateLog = db[p].updateLog
  BY <1>2, <1>4 DEF SameFields
<1>6. requests' = requests /\ replies' = replies /\ alive' = alive
  BY DEF PeerHasComeOnline
<1> QED
  BY <1>3, <1>5, <1>6, NoOrdersOf

(* The senior peer places no back-orders when it changes the database.     *)
LEMMA RequestsAreOrderly ==
  ASSUME EverythingComesFromASenior, BackOrdersAreUnderWay, NEW p \in Peers,
         \/ \E c \in Contents, hasPayload \in BOOLEAN :
              HandleSuccessfulRequest(p, c, hasPayload)
         \/ HandleFailingRequest(p)
  PROVE  BackOrdersAreUnderWay'
<1>1. db[p] \in DatabaseStates
  BY Facts
<1>2. ASSUME NEW c \in Contents, NEW hasPayload \in BOOLEAN,
             HandleSuccessfulRequest(p, c, hasPayload)
      PROVE  BackOrdersAreUnderWay'
  <2> DEFINE e == SeniorUpdateCompleted(db[p], c, hasPayload)
  <2>1. /\ e.backorders = db[p].backorders
        /\ DOMAIN e.updateLog = DOMAIN db[p].updateLog \cup {db[p].stateID + 1}
    BY <1>1, CompletedFields
  <2>2. db' = [db EXCEPT ![p] = e]
    BY <1>2 DEF HandleSuccessfulRequest
  <2> HIDE DEF e
  <2> QED
    BY <1>2, <2>1, <2>2, NoOrdersOf DEF HandleSuccessfulRequest
<1>3. ASSUME HandleFailingRequest(p)
      PROVE  BackOrdersAreUnderWay'
  <2>1. PICK c \in Contents : db' = [db EXCEPT ![p] = SeniorUpdateRolledBack(@, c)]
    BY <1>3 DEF HandleFailingRequest
  <2> DEFINE e == SeniorUpdateRolledBack(db[p], c)
  <2>2. e.backorders = db[p].backorders
    BY <1>1, RolledBackFields
  <2>3. db' = [db EXCEPT ![p] = e]
    BY <2>1
  <2> HIDE DEF e
  <2> QED
    BY <1>3, <2>2, <2>3, NoOrdersOf DEF HandleFailingRequest
<1> QED
  BY <1>2, <1>3

(* A rescan sends a request for every back-order that it adds.             *)
LEMMA RescanIsOrderly ==
  ASSUME EverythingComesFromASenior, BackOrdersAreUnderWay, NEW p \in Peers,
         RescanUpdateLog(p), senior' = senior, replies' = replies, alive' = alive
  PROVE  BackOrdersAreUnderWay'
<1>1. db[p] \in DatabaseStates
  BY Facts
<1>2. CASE SeniorRescan(p)
  <2> DEFINE e == SeniorRescanned(db[p])
  <2>1. e.backorders = db[p].backorders
    BY <1>1, SeniorRescannedFields
  <2>2. db' = [db EXCEPT ![p] = e] /\ requests' = requests /\ IAmTheSeniorPeer(p)
    BY <1>2 DEF SeniorRescan
  <2> HIDE DEF e
  <2> QED
    BY <2>1, <2>2, NoOrdersOf
<1>3. CASE UninformedRescan(p)
  <2> DEFINE e == [db[p] EXCEPT !.rescanPending = FALSE]
  <2>1. SameFields(db[p], e)
    BY <1>1 DEF SameFields, DatabaseStates
  <2>2. db' = [db EXCEPT ![p] = e] /\ requests' = requests
    BY <1>3 DEF UninformedRescan
  <2> HIDE DEF e
  <2> QED
    BY <2>1, <2>2, NoOrdersOf DEF SameFields
<1>4. CASE JuniorRescan(p) \/ JuniorRescanMisexecutes(p)
  <2>1. senior[p] \in Peers /\ \E e, placed : RescanLeaves(p, e, placed)
    BY <1>4, JuniorRescanEffect, MisexecutionEffect
  <2>2. PICK e, placed : RescanLeaves(p, e, placed)
    BY <2>1
  <2> QED
    BY <2>1, <2>2, OrdersPlaced DEF RescanLeaves
<1> QED
  BY <1>2, <1>3, <1>4 DEF RescanUpdateLog

(* Both pulses that may rescan the log.                                    *)
LEMMA PulsesAreOrderly ==
  ASSUME EverythingComesFromASenior, BackOrdersAreUnderWay, NEW p \in Peers,
         RescanUpdateLogIfNecessary(p) \/ SetBeaconData(p)
  PROVE  BackOrdersAreUnderWay'
<1>1. senior' = senior /\ replies' = replies /\ alive' = alive
  BY DEF RescanUpdateLogIfNecessary, SetBeaconData
<1>2. RescanUpdateLog(p) \/ (db' = db /\ requests' = requests)
  BY DEF RescanUpdateLogIfNecessary, SetBeaconData
<1> QED
  BY <1>1, <1>2, RescanIsOrderly, NoOrders

(* Beacons and updates that arrive.                                        *)
LEMMA DeliveriesAreOrderly ==
  ASSUME EverythingComesFromASenior, BackOrdersAreUnderWay,
         \/ \E p, q \in Peers : SendBeacon(p, q)
         \/ \E b \in beacons : BeaconDataChanged(b)
         \/ \E m \in multicasts : HandleJuniorUpdate(m)
  PROVE  BackOrdersAreUnderWay'
<1>1. ASSUME NEW p \in Peers, NEW q \in Peers, SendBeacon(p, q) PROVE BackOrdersAreUnderWay'
  BY <1>1, NoOrders DEF SendBeacon
<1>2. ASSUME NEW b \in beacons, BeaconDataChanged(b) PROVE BackOrdersAreUnderWay'
  <2> DEFINE e == SeniorDatabaseStateInfoChanged(db[b.to], b.info)
  <2>1. b.to \in Peers
    BY DEF EverythingComesFromASenior, TypeOK, Beacons
  <2>2. e.backorders = db[b.to].backorders /\ e.updateLog = db[b.to].updateLog
    BY <2>1, Facts, InfoChangedFields
  <2>3. db' = db \/ db' = [db EXCEPT ![b.to] = e]
    BY <1>2 DEF BeaconDataChanged
  <2> HIDE DEF e
  <2> QED
    BY <1>2, <2>1, <2>2, <2>3, NoOrdersOf, NoOrders DEF BeaconDataChanged
<1>3. ASSUME NEW m \in multicasts, HandleJuniorUpdate(m) PROVE BackOrdersAreUnderWay'
  <2> DEFINE e == AddDatabaseUpdateToUpdateLog(db[m.to], m.up, FALSE)
  <2>1. m.to \in Peers
    BY DEF EverythingComesFromASenior, TypeOK, Multicasts
  <2>2. e.backorders = db[m.to].backorders
        /\ DOMAIN e.updateLog = DOMAIN db[m.to].updateLog \cup {m.up.id}
    <3>1. db[m.to] \in DatabaseStates
      BY <2>1, Facts
    <3>2. /\ e.backorders = db[m.to].backorders
          /\ WithUpdate(db[m.to].updateLog, m.up, e.updateLog)
      BY <3>1, AddFields
    <3> HIDE DEF e
    <3> QED
      BY <3>2 DEF WithUpdate
  <2>3. db' = db \/ db' = [db EXCEPT ![m.to] = e]
    BY <1>3 DEF HandleJuniorUpdate
  <2> HIDE DEF e
  <2> QED
    BY <1>3, <2>1, <2>2, <2>3, NoOrdersOf, NoOrders DEF HandleJuniorUpdate
<1> QED
  BY <1>1, <1>2, <1>3

(* A peer that answers a back-order, or fails to, replies once.            *)
LEMMA HandleBackOrderRequestIsOrderly ==
  ASSUME EverythingComesFromASenior, BackOrdersAreUnderWay, NEW r \in requests,
         HandleBackOrderRequest(r)
  PROVE  BackOrdersAreUnderWay'
<1>1. \E ups : replies' = replies \cup
                 {[from |-> r.to, to |-> r.from, id |-> r.id, ups |-> ups]}
  BY DEF HandleBackOrderRequest
<1>2. PICK x : /\ x.from = r.to /\ x.to = r.from /\ x.id = r.id
               /\ replies' = replies \cup {x}
  <2>1. PICK ups : replies' = replies \cup
                     {[from |-> r.to, to |-> r.from, id |-> r.id, ups |-> ups]}
    BY <1>1
  <2> QED
    BY <2>1
<1>3. requests' = requests \ {r} /\ db' = db /\ alive' = alive
  BY DEF HandleBackOrderRequest
<1> QED
  BY <1>2, <1>3, RequestAnswered

(* Instead of an update that is gone a peer orders the full database, or   *)
(* nothing.                                                                *)
LEMMA OrdersForMissing ==
  ASSUME NEW order, order \in {{}, {FULL}}, NEW placed \in PossibleOrders(order)
  PROVE  placed \in {{}, {FULL}}
  BY DEF PossibleOrders, FULL

(* What a reply does to the database of the peer that asked.               *)
ReplyLeaves(r, e, placed) ==
  /\ db' = [db EXCEPT ![r.to] = e]
  /\ (placed = {} \/ (placed = {FULL} /\ r.id # FULL))
  /\ e.backorders = (db[r.to].backorders \ {<<r.from, r.id>>}) \cup ({r.from} \X placed)
  /\ requests' = requests \cup
       [from : {r.to}, to : {r.from}, id : NotOnOrder(db[r.to], r.from, placed)]

(* p's database, or part of its log, may come out of the reply: then p     *)
(* takes the replying peer for its senior and did wait for the reply.      *)
Adopts(r, e) ==
  LET p == r.to IN
  /\ senior[p] = r.from /\ senior[p] # p
  /\ <<r.from, r.id>> \in db[p].backorders
  /\ \/ /\ r.id = FULL /\ faults' = faults
        /\ e.updateLog = db[p].updateLog
        /\ \E up \in r.ups : e.stateID = up.id /\ e.contents = up.post
     \/ /\ r.id = FULL /\ faults' = faults + 1
        /\ e.updateLog = db[p].updateLog
        /\ e.stateID = db[p].stateID /\ e.contents \in Contents
     \/ /\ r.id # FULL /\ faults' = faults
        /\ Held(e) = Held(db[p])
        /\ \E up \in r.ups : WithUpdate(db[p].updateLog, up, e.updateLog)

(* BackOrderResultReceived() in terms of the two.                          *)
LEMMA ReplyEffect ==
  ASSUME EverythingComesFromASenior, NEW r \in replies, BackOrderResultReceived(r)
  PROVE  /\ replies' = replies \ {r}
         /\ UNCHANGED <<senior, beaconPending, outgoing, multicasts, beacons, alive, history>>
         /\ \E e, placed :
              /\ ReplyLeaves(r, e, placed)
              /\ \/ Adopts(r, e)
                 \/ /\ Held(e) = Held(db[r.to]) /\ e.updateLog = db[r.to].updateLog
                    /\ faults' \in {faults, faults + 1}
<1> DEFINE p == r.to
           key == <<r.from, r.id>>
           d == [db[p] EXCEPT !.backorders = @ \ {key}]
           Applies == key \in db[p].backorders /\ senior[p] = r.from /\ ~IAmTheSeniorPeer(p)
           order == NotOnOrder(d, senior[p], {FULL})
           Goal(e, placed) ==
              /\ ReplyLeaves(r, e, placed)
              /\ \/ Adopts(r, e)
                 \/ /\ Held(e) = Held(db[p]) /\ e.updateLog = db[p].updateLog
                    /\ faults' \in {faults, faults + 1}
<1>1. p \in Peers /\ r.from \in Peers /\ db[p] \in DatabaseStates
  BY TrafficTypes, Facts
<1>2. /\ d \in DatabaseStates /\ d.backorders = db[p].backorders \ {key}
      /\ d.updateLog = db[p].updateLog
      /\ d.stateID = db[p].stateID /\ d.contents = db[p].contents
  BY <1>1 DEF DatabaseStates
<1>3. /\ replies' = replies \ {r}
      /\ UNCHANGED <<senior, beaconPending, outgoing, multicasts, beacons, alive, history>>
  BY ZenonT(60) DEF BackOrderResultReceived
<1>4. \/ db' = [db EXCEPT ![p] = d] /\ UNCHANGED <<requests, faults>>
      \/ /\ Applies /\ r.id = FULL /\ UNCHANGED <<requests, faults>>
         /\ \E up \in r.ups :
              db' = [db EXCEPT ![p] = ScheduleLogContentsRescan(JuniorReplaced(d, up))]
      \/ /\ Applies /\ r.id = FULL /\ UNCHANGED requests /\ faults' = faults + 1
         /\ \E c \in Contents : db' = [db EXCEPT ![p] = [d EXCEPT !.contents = c]]
      \/ /\ Applies /\ r.id # FULL /\ UNCHANGED <<requests, faults>>
         /\ \E up \in r.ups :
              db' = [db EXCEPT ![p] = AddDatabaseUpdateToUpdateLog(d, up, FALSE)]
      \/ /\ Applies /\ r.id # FULL
         /\ \E placed \in PossibleOrders(order) :
              /\ RequestBackOrders(p, d, order, placed)
              /\ db' = [db EXCEPT ![p] = OnOrder(d, senior[p], placed)]
  BY DEF BackOrderResultReceived, Fault
<1>5. ASSUME NEW e, requests' = requests, db' = [db EXCEPT ![p] = e],
             e.backorders = d.backorders
      PROVE  ReplyLeaves(r, e, {})
  <2>1. NotOnOrder(db[r.to], r.from, {}) = {}
    BY DEF NotOnOrder
  <2>2. [from : {r.to}, to : {r.from}, id : {}] = {}
    OBVIOUS
  <2>3. {r.from} \X {} = {}
    OBVIOUS
  <2> HIDE DEF d
  <2> QED
    BY <1>2, <1>5, <2>1, <2>2, <2>3 DEF ReplyLeaves
<1>6. CASE db' = [db EXCEPT ![p] = d] /\ UNCHANGED <<requests, faults>>
  <2> HIDE DEF d
  <2>1. Held(d) = Held(db[p]) /\ d.updateLog = db[p].updateLog
    BY <1>2 DEF Held
  <2>2. ReplyLeaves(r, d, {})
    BY <1>5, <1>6
  <2> QED
    BY <1>3, <1>6, <2>1, <2>2
<1>7. ASSUME Applies, r.id = FULL, UNCHANGED <<requests, faults>>, NEW up \in r.ups,
             db' = [db EXCEPT ![p] = ScheduleLogContentsRescan(JuniorReplaced(d, up))]
      PROVE  \E e, placed : Goal(e, placed)
  <2> DEFINE x == JuniorReplaced(d, up)
             e == ScheduleLogContentsRescan(x)
  <2>1. up \in Updates
    BY DEF EverythingComesFromASenior, TypeOK, Replies
  <2> HIDE DEF d
  <2>2. x \in DatabaseStates
    <3>1. SoundDatabaseState(db[p], history)
      BY <1>1, Facts
    <3>2. up.id \in StateIDs /\ up.post \in Contents
      BY <2>1 DEF Updates
    <3> QED
      BY <1>2, <3>2 DEF JuniorReplaced, DatabaseStates
  <2>3. /\ x.stateID = up.id /\ x.contents = up.post
        /\ x.updateLog = d.updateLog /\ x.backorders = d.backorders
    BY <1>2, ReplacedFields
  <2>4. db' = [db EXCEPT ![p] = e]
    BY <1>7
  <2> HIDE DEF x
  <2>5. SameFields(x, e)
    BY <2>2, ScheduleFields
  <2> HIDE DEF e
  <2>6. ReplyLeaves(r, e, {})
    BY <1>5, <1>7, <2>3, <2>4, <2>5 DEF SameFields
  <2>7. Adopts(r, e)
    BY <1>2, <1>7, <2>3, <2>5 DEF Adopts, SameFields, IAmTheSeniorPeer
  <2> QED
    BY <2>6, <2>7
<1>8. ASSUME Applies, r.id = FULL, UNCHANGED requests, faults' = faults + 1,
             NEW c \in Contents, db' = [db EXCEPT ![p] = [d EXCEPT !.contents = c]]
      PROVE  \E e, placed : Goal(e, placed)
  <2> DEFINE e == [d EXCEPT !.contents = c]
  <2> HIDE DEF d
  <2>1. /\ e.stateID = d.stateID /\ e.updateLog = d.updateLog
        /\ e.backorders = d.backorders /\ e.contents = c
    BY <1>2 DEF DatabaseStates
  <2>2. db' = [db EXCEPT ![p] = e]
    BY <1>8
  <2> HIDE DEF e
  <2>3. ReplyLeaves(r, e, {})
    BY <1>5, <1>8, <2>1, <2>2
  <2>4. Adopts(r, e)
    BY <1>2, <1>8, <2>1 DEF Adopts, IAmTheSeniorPeer
  <2> QED
    BY <2>3, <2>4
<1>9. ASSUME Applies, r.id # FULL, UNCHANGED <<requests, faults>>, NEW up \in r.ups,
             db' = [db EXCEPT ![p] = AddDatabaseUpdateToUpdateLog(d, up, FALSE)]
      PROVE  \E e, placed : Goal(e, placed)
  <2> DEFINE e == AddDatabaseUpdateToUpdateLog(d, up, FALSE)
  <2> HIDE DEF d
  <2>1. /\ e.stateID = d.stateID /\ e.contents = d.contents
        /\ e.backorders = d.backorders
        /\ WithUpdate(d.updateLog, up, e.updateLog)
    BY <1>2, AddFields
  <2>2. db' = [db EXCEPT ![p] = e]
    BY <1>9
  <2> HIDE DEF e
  <2>3. ReplyLeaves(r, e, {})
    BY <1>5, <1>9, <2>1, <2>2
  <2>4. Held(e) = Held(db[p])
    BY <1>2, <2>1 DEF Held
  <2>5. Adopts(r, e)
    BY <1>2, <1>9, <2>1, <2>4 DEF Adopts, IAmTheSeniorPeer
  <2> QED
    BY <2>3, <2>5
<1>10. ASSUME Applies, r.id # FULL, NEW placed \in PossibleOrders(order),
              RequestBackOrders(p, d, order, placed),
              db' = [db EXCEPT ![p] = OnOrder(d, senior[p], placed)]
       PROVE  \E e, put : Goal(e, put)
  <2> DEFINE e == OnOrder(d, r.from, placed)
  <2>1. senior[p] = r.from
    BY <1>10
  <2>2. placed \in {{}, {FULL}}
    <3>1. order \in {{}, {FULL}}
      BY DEF NotOnOrder
    <3> HIDE DEF order
    <3> QED BY <3>1, OrdersForMissing
  <2>3. db' = [db EXCEPT ![p] = e]
    BY <1>10, <2>1
  <2>4. /\ requests' = requests \cup
             [from : {p}, to : {r.from}, id : NotOnOrder(d, r.from, placed)]
        /\ faults' \in {faults, faults + 1}
    BY <1>10, <2>1 DEF RequestBackOrders, Fault
  <2> HIDE DEF d
  <2>5. /\ e.stateID = d.stateID /\ e.contents = d.contents
        /\ e.updateLog = d.updateLog
        /\ e.backorders = d.backorders \cup ({r.from} \X placed)
    BY <1>2, OnOrderFields
  <2> HIDE DEF e
  <2>6. NotOnOrder(d, r.from, placed) = NotOnOrder(db[p], r.from, placed)
    BY <1>2, <1>10, <2>2 DEF NotOnOrder
  <2>7. ReplyLeaves(r, e, placed)
    <3>1. placed = {} \/ (placed = {FULL} /\ r.id # FULL)
      BY <1>10, <2>2
    <3>2. requests' = requests \cup
            [from : {r.to}, to : {r.from}, id : NotOnOrder(db[r.to], r.from, placed)]
      BY <2>4, <2>6
    <3>3. e.backorders = (db[r.to].backorders \ {<<r.from, r.id>>}) \cup ({r.from} \X placed)
      BY <1>2, <2>5
    <3> QED
      BY <2>3, <3>1, <3>2, <3>3 DEF ReplyLeaves
  <2>8. Held(e) = Held(db[p]) /\ e.updateLog = db[p].updateLog
    BY <1>2, <2>5 DEF Held
  <2> QED
    BY <2>4, <2>7, <2>8
<1> HIDE DEF d, Applies, order
<1> QED
  BY <1>3, <1>4, <1>6, <1>7, <1>8, <1>9, <1>10

(* A reply takes its back-order away.                                      *)
LEMMA BackOrderResultReceivedIsOrderly ==
  ASSUME EverythingComesFromASenior, BackOrdersAreUnderWay, NEW r \in replies,
         BackOrderResultReceived(r)
  PROVE  BackOrdersAreUnderWay'
<1>1. /\ replies' = replies \ {r} /\ alive' = alive
      /\ \E e, placed : ReplyLeaves(r, e, placed) /\ (Adopts(r, e) \/ e.updateLog = db[r.to].updateLog)
  BY ReplyEffect
<1>2. PICK e, placed :
        ReplyLeaves(r, e, placed) /\ (Adopts(r, e) \/ e.updateLog = db[r.to].updateLog)
  BY <1>1
<1> QED
  BY <1>1, <1>2, AnswerTaken DEF ReplyLeaves

(* The end of a session fails the back-orders of both its ends, and        *)
(* whatever was under way through it is lost.                              *)
LEMMA UnicastSessionEndsIsOrderly ==
  ASSUME EverythingComesFromASenior, BackOrdersAreUnderWay,
         NEW p \in Peers, NEW q \in Peers, UnicastSessionEnds(p, q)
  PROVE  BackOrdersAreUnderWay'
<1> DEFINE e == BackOrdersFailed(db[p], q)
           f == BackOrdersFailed(db[q], p)
<1>1. /\ db \in [Peers -> DatabaseStates] /\ p # q
      /\ db[p] \in DatabaseStates /\ db[q] \in DatabaseStates
  BY Facts DEF UnicastSessionEnds
<1>2. /\ e.updateLog = db[p].updateLog /\ f.updateLog = db[q].updateLog
      /\ e.backorders = {b \in db[p].backorders : b[1] # q}
      /\ f.backorders = {b \in db[q].backorders : b[1] # p}
  BY <1>1, FailedFields
<1>3. /\ db' = [db EXCEPT ![p] = e, ![q] = f] /\ alive' = alive
      /\ requests' = {r \in requests : {r.from, r.to} # {p, q}}
      /\ replies' = {r \in replies : {r.from, r.to} # {p, q}}
  BY <1>1 DEF UnicastSessionEnds
<1> HIDE DEF e, f
<1>4. db'[p] = e /\ db'[q] = f /\ \A x \in Peers \ {p, q} : db'[x] = db[x]
  BY <1>1, <1>3
<1>5. \A x \in Peers : db'[x].backorders \subseteq db[x].backorders
  BY <1>2, <1>4
<1>6. \A x \in requests :
        <<x.to, x.id>> \in db[x.from].backorders =>
          (<<x.to, x.id>> \in db'[x.from].backorders <=> x \in requests')
  <2> SUFFICES ASSUME NEW x \in requests, <<x.to, x.id>> \in db[x.from].backorders
               PROVE  <<x.to, x.id>> \in db'[x.from].backorders <=> {x.from, x.to} # {p, q}
    BY <1>3
  <2>1. x.from \in Peers
    BY TrafficTypes
  <2>2. CASE x.from = p
    BY <1>1, <1>2, <1>4, <2>2
  <2>3. CASE x.from = q
    BY <1>1, <1>2, <1>4, <2>3
  <2>4. CASE x.from # p /\ x.from # q
    BY <1>4, <2>1, <2>4
  <2> QED
    BY <2>2, <2>3, <2>4
<1>7. \A x \in replies :
        <<x.from, x.id>> \in db[x.to].backorders =>
          (<<x.from, x.id>> \in db'[x.to].backorders <=> x \in replies')
  <2> SUFFICES ASSUME NEW x \in replies, <<x.from, x.id>> \in db[x.to].backorders
               PROVE  <<x.from, x.id>> \in db'[x.to].backorders <=> {x.from, x.to} # {p, q}
    BY <1>3
  <2>1. x.to \in Peers
    BY TrafficTypes
  <2>2. CASE x.to = p
    BY <1>1, <1>2, <1>4, <2>2
  <2>3. CASE x.to = q
    BY <1>1, <1>2, <1>4, <2>3
  <2>4. CASE x.to # p /\ x.to # q
    BY <1>4, <2>1, <2>4
  <2> QED
    BY <2>2, <2>3, <2>4
<1>8. \A x \in requests : x.from \in Peers /\ <<x.to, x.id>> \in db[x.from].backorders
  BY TrafficTypes DEF BackOrdersAreUnderWay, OneAnswerPerBackOrder
<1>9. \A x \in replies : x.to \in Peers /\ <<x.from, x.id>> \in db[x.to].backorders
  BY TrafficTypes DEF BackOrdersAreUnderWay, OneAnswerPerBackOrder
<1>10. requests' \subseteq requests /\ replies' \subseteq replies /\ alive' \subseteq alive
  BY <1>3
<1> QED
  BY <1>5, <1>6, <1>7, <1>8, <1>9, <1>10, OrdersForgotten

(* A peer whose senior went offline forgets what it had ordered from it.   *)
LEMMA SeniorPeerHasGoneOfflineIsOrderly ==
  ASSUME EverythingComesFromASenior, BackOrdersAreUnderWay, NEW p \in Peers,
         SeniorPeerHasGoneOffline(p)
  PROVE  BackOrdersAreUnderWay'
<1> DEFINE gone == senior[p]
           e == BackOrdersFailed(db[p], gone)
<1>1. db[p] \in DatabaseStates
  BY Facts
<1>2. /\ e.updateLog = db[p].updateLog
      /\ e.backorders = {b \in db[p].backorders : b[1] # gone}
  BY <1>1, FailedFields
<1>3. /\ db' = [db EXCEPT ![p] = e] /\ alive' = alive
      /\ requests' = {r \in requests : ~(r.from = p /\ r.to = gone)}
      /\ replies' = {r \in replies : ~(r.to = p /\ r.from = gone)}
  BY DEF SeniorPeerHasGoneOffline
<1> HIDE DEF e, gone
<1>4. db'[p] = e /\ \A x \in Peers \ {p} : db'[x] = db[x]
  BY <1>3, OneDatabase
<1>5. \A x \in Peers : db'[x].backorders \subseteq db[x].backorders
  BY <1>2, <1>4
<1>6. \A x \in requests :
        x.from \in Peers /\ <<x.to, x.id>> \in db[x.from].backorders =>
          (<<x.to, x.id>> \in db'[x.from].backorders <=> x \in requests')
  BY <1>2, <1>3, <1>4
<1>7. \A x \in replies :
        x.to \in Peers /\ <<x.from, x.id>> \in db[x.to].backorders =>
          (<<x.from, x.id>> \in db'[x.to].backorders <=> x \in replies')
  BY <1>2, <1>3, <1>4
<1>8. \A x \in requests : x.from \in Peers /\ <<x.to, x.id>> \in db[x.from].backorders
  BY TrafficTypes DEF BackOrdersAreUnderWay, OneAnswerPerBackOrder
<1>9. \A x \in replies : x.to \in Peers /\ <<x.from, x.id>> \in db[x.to].backorders
  BY TrafficTypes DEF BackOrdersAreUnderWay, OneAnswerPerBackOrder
<1>10. requests' \subseteq requests /\ replies' \subseteq replies /\ alive' \subseteq alive
  BY <1>3
<1> QED
  BY <1>5, <1>6, <1>7, <1>8, <1>9, <1>10, OrdersForgotten

(* A process that ends takes its back-orders and its log with it.          *)
LEMMA CrashIsOrderly ==
  ASSUME EverythingComesFromASenior, BackOrdersAreUnderWay, NEW p \in Peers, Crash(p)
  PROVE  BackOrdersAreUnderWay'
<1> DEFINE e == NewDatabaseState
<1>1. /\ db' = [db EXCEPT ![p] = e] /\ alive' = alive \ {p}
      /\ requests' = {r \in requests : r.from # p}
      /\ replies' = {r \in replies : r.to # p}
  BY DEF Crash
<1>2. e.backorders = {}
  BY DEF NewDatabaseState
<1> HIDE DEF e
<1>3. db'[p] = e /\ \A x \in Peers \ {p} : db'[x] = db[x]
  BY <1>1, OneDatabase
<1>4. \A x \in Peers : db'[x].backorders \subseteq db[x].backorders
  BY <1>2, <1>3
<1>5. requests' \subseteq requests /\ replies' \subseteq replies /\ alive' \subseteq alive
  BY <1>1
<1>6. \A q \in alive', x \in requests :
        x.from = q /\ <<x.to, x.id>> \in db'[q].backorders => x \in requests'
  BY <1>1
<1>7. \A q \in alive', x \in replies :
        x.to = q /\ <<x.from, x.id>> \in db'[q].backorders => x \in replies'
  BY <1>1
<1>8. \A x \in requests' : <<x.to, x.id>> \in db[x.from].backorders
                             => <<x.to, x.id>> \in db'[x.from].backorders
  BY <1>1, <1>3, TrafficTypes
<1>9. \A x \in replies' : <<x.from, x.id>> \in db[x.to].backorders
                            => <<x.from, x.id>> \in db'[x.to].backorders
  BY <1>1, <1>3, TrafficTypes
<1> QED
  BY <1>4, <1>5, <1>6, <1>7, <1>8, <1>9, OrdersForgotten

---------------------------------------------------------------------------
(* Every step keeps the back-orders and the traffic in step.               *)
LEMMA EveryStepIsOrderly ==
  EverythingComesFromASenior /\ BackOrdersAreUnderWay /\ [Next]_vars => BackOrdersAreUnderWay'
<1> SUFFICES ASSUME EverythingComesFromASenior, BackOrdersAreUnderWay, [Next]_vars
             PROVE  BackOrdersAreUnderWay'
  OBVIOUS
<1>1. ASSUME NEW p \in Peers,
             \/ PeerHasComeOnline(p) \/ HandleResetRequest(p)
             \/ HandleReplaceOrUpdateRequest(p) \/ HandleFailingRequest(p)
      PROVE  BackOrdersAreUnderWay'
  BY <1>1, PeerHasComeOnlineIsOrderly, RequestsAreOrderly, ContentsAssumption
  DEF HandleResetRequest, HandleReplaceOrUpdateRequest
<1>2. ASSUME NEW p \in Peers,
             \/ RescanUpdateLogIfNecessary(p) \/ SetBeaconData(p)
             \/ Crash(p) \/ SeniorPeerHasGoneOffline(p)
      PROVE  BackOrdersAreUnderWay'
  BY <1>2, PulsesAreOrderly, CrashIsOrderly, SeniorPeerHasGoneOfflineIsOrderly
<1>3. ASSUME NEW p \in Peers, NEW q \in Peers, SendBeacon(p, q) \/ UnicastSessionEnds(p, q)
      PROVE  BackOrdersAreUnderWay'
  BY <1>3, DeliveriesAreOrderly, UnicastSessionEndsIsOrderly
<1>4. ASSUME NEW b \in beacons, BeaconDataChanged(b) PROVE BackOrdersAreUnderWay'
  BY <1>4, DeliveriesAreOrderly
<1>5. ASSUME NEW m \in multicasts, HandleJuniorUpdate(m) PROVE BackOrdersAreUnderWay'
  BY <1>5, DeliveriesAreOrderly
<1>6. ASSUME NEW r \in requests, HandleBackOrderRequest(r) PROVE BackOrdersAreUnderWay'
  BY <1>6, HandleBackOrderRequestIsOrderly
<1>7. ASSUME NEW r \in replies, BackOrderResultReceived(r) PROVE BackOrdersAreUnderWay'
  BY <1>7, BackOrderResultReceivedIsOrderly
<1>8. CASE UNCHANGED vars
  BY <1>8, NoOrders DEF vars
<1> QED
  BY <1>1, <1>2, <1>3, <1>4, <1>5, <1>6, <1>7, <1>8 DEF Next, ReignNext

(* Through lost sessions, failed requests, crashes and changes of senior   *)
(* peer, every back-order that a running peer waits for has exactly one    *)
(* request or reply under way, and nothing else is under way: _backorders  *)
(* and PZGUnicastSession's traffic never get out of step.                  *)
THEOREM BackOrdersMatchTraffic ==
  Spec => []BackOrdersAreUnderWay
<1>1. Init => BackOrdersAreUnderWay
  BY DEF Init, BackOrdersAreUnderWay, NobodyWaitsInVain, OneAnswerPerBackOrder,
         NewDatabaseState
<1>2. EverythingComesFromASenior /\ BackOrdersAreUnderWay /\ [Next]_vars
        => BackOrdersAreUnderWay'
  BY EveryStepIsOrderly
<1> QED
  BY Provenance, <1>1, <1>2, PTL DEF Spec

---------------------------------------------------------------------------
(* The reign of one senior peer.                                           *)

(* The invariants of the reign taken together.                             *)
ReignInvariant ==
  /\ EverythingComesFromASenior
  /\ BackOrdersAreUnderWay
  /\ NothingIsAheadOfTheSenior
  /\ OneUpdatePerStateID

(* The databases as the abstract specification sees them.                  *)
Replicas == [p \in Peers |-> Held(db[p])]

(* A step of the abstract specification, or none.                          *)
AbstractStep == [Replicated!ReplicaNext]_<<Replicas, history, faults>>

---------------------------------------------------------------------------
(* All copies of updates.                                                  *)

(* Where a copy of an update may be.                                       *)
LEMMA WhereUpdatesAre ==
  \A u : u \in AllUpdates <=>
    \/ \E p \in Peers : \E k \in DOMAIN db[p].updateLog : u = db[p].updateLog[k]
    \/ \E m \in multicasts : u = m.up
    \/ \E r \in replies : r.id # FULL /\ u \in r.ups
<1> DEFINE Logged == UNION {{db[p].updateLog[k] : k \in DOMAIN db[p].updateLog} : p \in Peers}
           Sent == {m.up : m \in multicasts}
           Replied == UNION {r.ups : r \in {r \in replies : r.id # FULL}}
<1>1. \A u : u \in Logged <=>
        \E p \in Peers : \E k \in DOMAIN db[p].updateLog : u = db[p].updateLog[k]
  OBVIOUS
<1>2. \A u : u \in Sent <=> \E m \in multicasts : u = m.up
  OBVIOUS
<1>3. \A u : u \in Replied <=> \E r \in replies : r.id # FULL /\ u \in r.ups
  OBVIOUS
<1>4. AllUpdates = Logged \cup Sent \cup Replied
  BY DEF AllUpdates
<1> HIDE DEF Logged, Sent, Replied
<1> QED
  BY <1>1, <1>2, <1>3, <1>4

(* The same after a step.                                                  *)
LEMMA WhereUpdatesWillBe ==
  \A u : u \in AllUpdates' <=>
    \/ \E p \in Peers : \E k \in DOMAIN db'[p].updateLog : u = db'[p].updateLog[k]
    \/ \E m \in multicasts' : u = m.up
    \/ \E r \in replies' : r.id # FULL /\ u \in r.ups
<1> DEFINE Logged == UNION {{db'[p].updateLog[k] : k \in DOMAIN db'[p].updateLog} : p \in Peers}
           Sent == {m.up : m \in multicasts'}
           Replied == UNION {r.ups : r \in {r \in replies' : r.id # FULL}}
<1>1. \A u : u \in Logged <=>
        \E p \in Peers : \E k \in DOMAIN db'[p].updateLog : u = db'[p].updateLog[k]
  OBVIOUS
<1>2. \A u : u \in Sent <=> \E m \in multicasts' : u = m.up
  OBVIOUS
<1>3. \A u : u \in Replied <=> \E r \in replies' : r.id # FULL /\ u \in r.ups
  OBVIOUS
<1>4. AllUpdates' = Logged \cup Sent \cup Replied
  BY DEF AllUpdates
<1> HIDE DEF Logged, Sent, Replied
<1> QED
  BY <1>1, <1>2, <1>3, <1>4

(* A step that puts only copies of known updates into a log or under way   *)
(* makes no new ones.                                                      *)
LEMMA OnlyCopies ==
  ASSUME EverythingComesFromASenior, NEW p \in Peers, NEW e, db' = [db EXCEPT ![p] = e],
         \A k \in DOMAIN e.updateLog : e.updateLog[k] \in AllUpdates,
         \A m \in multicasts' : m.up \in AllUpdates,
         \A r \in replies' : r.id # FULL => r.ups \subseteq AllUpdates
  PROVE  AllUpdates' \subseteq AllUpdates
<1>1. db'[p] = e /\ \A q \in Peers \ {p} : db'[q] = db[q]
  BY OneDatabase
<1> SUFFICES ASSUME NEW u \in AllUpdates' PROVE u \in AllUpdates
  OBVIOUS
<1>2. CASE \E q \in Peers : \E k \in DOMAIN db'[q].updateLog : u = db'[q].updateLog[k]
  <2>1. PICK q \in Peers : \E k \in DOMAIN db'[q].updateLog : u = db'[q].updateLog[k]
    BY <1>2
  <2>2. CASE q = p
    BY <1>1, <2>1, <2>2
  <2>3. CASE q # p
    BY <1>1, <2>1, <2>3, WhereUpdatesAre
  <2> QED
    BY <2>2, <2>3
<1>3. CASE \E m \in multicasts' : u = m.up
  BY <1>3
<1>4. CASE \E r \in replies' : r.id # FULL /\ u \in r.ups
  BY <1>4
<1> QED
  BY <1>2, <1>3, <1>4, WhereUpdatesWillBe

(* What is under way already consists of such copies.                      *)
LEMMA CopiesUnderWay ==
  /\ \A p \in Peers : \A k \in DOMAIN db[p].updateLog : db[p].updateLog[k] \in AllUpdates
  /\ \A m \in multicasts : m.up \in AllUpdates
  /\ \A r \in replies : r.id # FULL => r.ups \subseteq AllUpdates
  BY WhereUpdatesAre

---------------------------------------------------------------------------
(* The abstract steps.                                                     *)

(* The replicas after a step that changes p's database alone.              *)
LEMMA OneReplica ==
  ASSUME EverythingComesFromASenior, NEW p \in Peers, NEW e, db' = [db EXCEPT ![p] = e]
  PROVE  Replicas' = [Replicas EXCEPT ![p] = Held(e)]
<1>1. db'[p] = e /\ \A q \in Peers \ {p} : db'[q] = db[q]
  BY OneDatabase
<1>2. Replicas' = [q \in Peers |-> Held(db'[q])]
  BY DEF Replicas
<1>3. \A q \in Peers : Held(db'[q]) = IF q = p THEN Held(e) ELSE Held(db[q])
  BY <1>1
<1> QED
  BY <1>2, <1>3 DEF Replicas

(* A step that shows in no database.                                       *)
LEMMA NothingShows ==
  ASSUME \A q \in Peers : Held(db'[q]) = Held(db[q]), history' = history,
         faults' \in {faults, faults + 1}
  PROVE  AbstractStep
<1>1. Replicas' = Replicas
  BY DEF Replicas
<1> QED
  BY <1>1 DEF AbstractStep, Replicated!ReplicaNext, Replicated!Mishap, Replicas

(* A junior that moves to a state of the senior's.                         *)
LEMMA JuniorCatchesUp ==
  ASSUME EverythingComesFromASenior, NEW p \in Peers, p # FirstSenior, NEW e,
         db' = [db EXCEPT ![p] = e], Held(e) \in history,
         db[p].stateID <= e.stateID, history' = history, faults' \in {faults, faults + 1}
  PROVE  AbstractStep
<1>1. Replicas' = [Replicas EXCEPT ![p] = Held(e)]
  BY OneReplica
<1>2. Replicas[p][1] = db[p].stateID /\ Held(e)[1] = e.stateID
  BY DEF Replicas, Held
<1>3. Replicated!CatchUp(p)
  BY <1>1, <1>2 DEF Replicated!CatchUp, Replicas
<1> QED
  BY <1>3 DEF AbstractStep, Replicated!ReplicaNext

(* A junior that is damaged at its state or at one of the senior's.        *)
LEMMA JuniorIsDamaged ==
  ASSUME EverythingComesFromASenior, NEW p \in Peers, p # FirstSenior, NEW e,
         db' = [db EXCEPT ![p] = e], e.contents \in Contents,
         \/ e.stateID = db[p].stateID
         \/ \E c \in Contents : <<e.stateID, c>> \in history,
         db[p].stateID <= e.stateID, history' = history,
         faults' \in {faults + 1, faults + 2}
  PROVE  AbstractStep
<1>1. Replicas' = [Replicas EXCEPT ![p] = <<e.stateID, e.contents>>]
  BY OneReplica DEF Held
<1>2. Replicas[p][1] = db[p].stateID
  BY DEF Replicas, Held
<1>3. PICK s \in history \cup {Replicas[p]} : s[1] = e.stateID
  <2>1. CASE e.stateID = db[p].stateID
    BY <1>2, <2>1
  <2>2. ASSUME NEW c \in Contents, <<e.stateID, c>> \in history
        PROVE  \E s \in history \cup {Replicas[p]} : s[1] = e.stateID
    <3> DEFINE s == <<e.stateID, c>>
    <3>1. s \in history \cup {Replicas[p]} /\ s[1] = e.stateID
      BY <2>2
    <3> HIDE DEF s
    <3> QED
      BY <3>1
  <2> QED
    BY <2>1, <2>2
<1>4. Replicated!Damage(p)
  <2>1. Replicas' = [Replicas EXCEPT ![p] = <<s[1], e.contents>>] /\ Replicas[p][1] <= s[1]
    BY <1>1, <1>2, <1>3
  <2>2. \E c \in Contents : Replicas[p][1] <= s[1] /\ Replicas' = [Replicas EXCEPT ![p] = <<s[1], c>>]
    BY <2>1
  <2> QED
    BY <2>2 DEF Replicated!Damage, Replicas
<1> QED
  BY <1>4 DEF AbstractStep, Replicated!ReplicaNext

---------------------------------------------------------------------------
(* What the invariants say of one senior peer.                             *)

(* The peer that takes itself for senior is FirstSenior, everybody else    *)
(* takes FirstSenior for senior, and what FirstSenior holds is on record.  *)
LEMMA ReignFacts ==
  ASSUME ReignInvariant
  PROVE  /\ alive = Peers /\ FirstSenior \in Peers
         /\ \A p \in Peers : IAmTheSeniorPeer(p) => p = FirstSenior
         /\ \A p \in Peers : senior[p] \in Peers => senior[p] = FirstSenior
         /\ \A s \in Peers : MostSenior(s) => s = FirstSenior
         /\ Held(db[FirstSenior]) \in history
         /\ \A p \in Peers : db[p].stateID \in Int /\ db[p].stateID <= db[FirstSenior].stateID
<1>1. /\ alive = Peers /\ FirstSenior \in Peers
      /\ \A p \in Peers : senior[p] \in {NoPeer, FirstSenior}
  BY SeniorAssumption DEF ReignInvariant, NothingIsAheadOfTheSenior
<1>2. \A p \in Peers : IAmTheSeniorPeer(p) => p = FirstSenior
  BY <1>1, NoPeerAssumption DEF IAmTheSeniorPeer
<1>3. \A p \in Peers : senior[p] \in Peers => senior[p] = FirstSenior
  BY <1>1, NoPeerAssumption
<1>4. \A s \in Peers : MostSenior(s) => s = FirstSenior
  BY <1>1, SeniorAssumption, PeersAssumption DEF MostSenior
<1>5. Held(db[FirstSenior]) \in history
  <2>1. CASE IAmTheSeniorPeer(FirstSenior)
    BY <1>1, <2>1 DEF ReignInvariant, EverythingComesFromASenior, SeniorStatesAreHeld
  <2>2. CASE senior[FirstSenior] = NoPeer
    <3>1. db[FirstSenior] = NewDatabaseState
      BY <1>1, <2>2 DEF ReignInvariant, EverythingComesFromASenior, UnattachedPeersAreBlank
    <3>2. Held(NewDatabaseState) = <<0, DefaultContents>>
      BY DEF Held, NewDatabaseState
    <3> QED
      BY <3>1, <3>2 DEF ReignInvariant, EverythingComesFromASenior
  <2> QED
    BY <1>1, <2>1, <2>2 DEF IAmTheSeniorPeer
<1>6. \A p \in Peers : db[p].stateID \in Int
  BY Facts DEF ReignInvariant, DatabaseStates, StateIDs
<1> QED
  BY <1>1, <1>2, <1>3, <1>4, <1>5, <1>6 DEF ReignInvariant, NothingIsAheadOfTheSenior

(* All updates are of states that the senior peer has passed.              *)
LEMMA UpdatesArePast ==
  ASSUME ReignInvariant
  PROVE  /\ \A u \in AllUpdates : u.id <= db[FirstSenior].stateID
         /\ \A p \in Peers : \A k \in DOMAIN db[p].updateLog :
              k \in Int /\ k <= db[FirstSenior].stateID /\ db[p].updateLog[k].id = k
<1>1. \A u \in AllUpdates : u.id <= db[FirstSenior].stateID
  BY DEF ReignInvariant, NothingIsAheadOfTheSenior
<1> SUFFICES ASSUME NEW p \in Peers, NEW k \in DOMAIN db[p].updateLog
             PROVE  k \in Int /\ k <= db[FirstSenior].stateID /\ db[p].updateLog[k].id = k
  BY <1>1
<1>2. SoundDatabaseState(db[p], history)
  BY Facts DEF ReignInvariant
<1>3. db[p].updateLog[k].id = k /\ k \in 1 .. MaxStateID
  BY <1>2, SoundFields
<1>4. db[p].updateLog[k] \in AllUpdates
  BY CopiesUnderWay
<1> QED
  BY <1>1, <1>3, <1>4

(* A peer that does not wait for the full database gets no full database.  *)
LEMMA FullRepliesAreAwaited ==
  ASSUME ReignInvariant, NEW p \in Peers, ~IsAwaitingFullDatabaseResendReply(db[p], FirstSenior)
  PROVE  \A r \in replies : ~(r.to = p /\ r.id = FULL)
<1>1. \A r \in replies : r.from = FirstSenior /\ <<r.from, r.id>> \in db[r.to].backorders
  BY DEF ReignInvariant, NothingIsAheadOfTheSenior, BackOrdersAreUnderWay, OneAnswerPerBackOrder
<1> QED
  BY <1>1 DEF IsAwaitingFullDatabaseResendReply

---------------------------------------------------------------------------
(* Steps that invent no updates.                                           *)

(* What a step has to establish besides the invariants of every behaviour. *)
ReignStep == NothingIsAheadOfTheSenior' /\ OneUpdatePerStateID' /\ AbstractStep

(* A step that invents no updates, moves juniors forwards at most, and not *)
(* while a full database is on its way to them.                            *)
LEMMA ReignGoesOn ==
  ASSUME ReignInvariant, alive' = alive,
         \A q \in Peers : senior'[q] \in {NoPeer, FirstSenior},
         AllUpdates' \subseteq AllUpdates,
         db'[FirstSenior].stateID = db[FirstSenior].stateID,
         \A q \in Peers : db'[q].stateID <= db[FirstSenior].stateID,
         \A r \in requests' : r.to = FirstSenior,
         replies' \subseteq replies,
         \A r \in replies' :
           r.id = FULL /\ r.to # FirstSenior => db'[r.to].stateID = db[r.to].stateID
  PROVE  NothingIsAheadOfTheSenior' /\ OneUpdatePerStateID'
<1>1. OneUpdatePerStateID'
  BY DEF ReignInvariant, OneUpdatePerStateID
<1>2. \A r \in replies' :
        /\ r.from = FirstSenior
        /\ \A up \in r.ups : up.id <= db'[FirstSenior].stateID
        /\ r.id = FULL /\ r.to # FirstSenior =>
             \A up \in r.ups : db'[r.to].stateID <= up.id
  BY DEF ReignInvariant, NothingIsAheadOfTheSenior
<1>3. \A u \in AllUpdates' : u.id <= db'[FirstSenior].stateID
  BY UpdatesArePast
<1>4. alive' = Peers /\ \A q \in Peers : db'[q].stateID <= db'[FirstSenior].stateID
  BY ReignFacts
<1> QED
  BY <1>1, <1>2, <1>3, <1>4 DEF NothingIsAheadOfTheSenior

(* The same for a step that changes the database of one peer.              *)
LEMMA OnePeerGoesOn ==
  ASSUME ReignInvariant, alive' = alive,
         \A q \in Peers : senior'[q] \in {NoPeer, FirstSenior},
         NEW p \in Peers, NEW e, db' = [db EXCEPT ![p] = e],
         \/ e.stateID = db[p].stateID
         \/ /\ p # FirstSenior /\ e.stateID <= db[FirstSenior].stateID
            /\ \A r \in replies' : ~(r.to = p /\ r.id = FULL),
         \A k \in DOMAIN e.updateLog : e.updateLog[k] \in AllUpdates,
         \A m \in multicasts' : m.up \in AllUpdates,
         \A r \in requests' : r.to = FirstSenior,
         replies' \subseteq replies
  PROVE  NothingIsAheadOfTheSenior' /\ OneUpdatePerStateID'
<1>1. db'[p] = e /\ \A q \in Peers \ {p} : db'[q] = db[q]
  BY OneDatabase DEF ReignInvariant
<1>2. \A r \in replies' : r.id # FULL => r.ups \subseteq AllUpdates
  BY CopiesUnderWay
<1>3. AllUpdates' \subseteq AllUpdates
  BY <1>2, OnlyCopies DEF ReignInvariant
<1>4. db'[FirstSenior].stateID = db[FirstSenior].stateID
  BY <1>1, ReignFacts
<1>5. \A q \in Peers : db'[q].stateID <= db[FirstSenior].stateID
  BY <1>1, ReignFacts
<1>6. \A r \in replies' : r.id = FULL /\ r.to # FirstSenior => db'[r.to].stateID = db[r.to].stateID
  <2>1. \A r \in replies' : r.to \in Peers
    BY TrafficTypes DEF ReignInvariant
  <2> QED
    BY <1>1, <2>1
<1> QED
  BY <1>3, <1>4, <1>5, <1>6, ReignGoesOn

(* A step that touches no database, no log and no reply.                   *)
LEMMA NothingGoesOn ==
  ASSUME ReignInvariant, alive' = alive, senior' = senior, db' = db,
         multicasts' \subseteq multicasts, requests' = requests, replies' = replies
  PROVE  NothingIsAheadOfTheSenior' /\ OneUpdatePerStateID'
<1>1. AllUpdates' \subseteq AllUpdates
  BY WhereUpdatesAre, WhereUpdatesWillBe
<1> QED
  BY <1>1, ReignFacts, ReignGoesOn DEF ReignInvariant, NothingIsAheadOfTheSenior

(* Entries of p's log are copies already.                                  *)
LEMMA PartsAreCopies ==
  ASSUME NEW p \in Peers, NEW e, PartOfLog(e.updateLog, db[p].updateLog)
  PROVE  \A k \in DOMAIN e.updateLog : e.updateLog[k] \in AllUpdates
  BY CopiesUnderWay DEF PartOfLog

(* A step that changes what p's database looks like in nothing that shows. *)
LEMMA OneHidden ==
  ASSUME ReignInvariant, alive' = alive,
         \A q \in Peers : senior'[q] \in {NoPeer, FirstSenior},
         NEW p \in Peers, NEW e, db' = [db EXCEPT ![p] = e], Held(e) = Held(db[p]),
         \A k \in DOMAIN e.updateLog : e.updateLog[k] \in AllUpdates,
         \A m \in multicasts' : m.up \in AllUpdates,
         \A r \in requests' : r.to = FirstSenior,
         replies' \subseteq replies, history' = history, faults' \in {faults, faults + 1}
  PROVE  ReignStep
<1>1. e.stateID = db[p].stateID
  BY DEF Held
<1>2. NothingIsAheadOfTheSenior' /\ OneUpdatePerStateID'
  BY <1>1, OnePeerGoesOn
<1>3. \A q \in Peers : Held(db'[q]) = Held(db[q])
  BY OneDatabase DEF ReignInvariant
<1> QED
  BY <1>2, <1>3, NothingShows DEF ReignStep

---------------------------------------------------------------------------
(* One lemma per action.                                                   *)

(* A peer that comes online takes FirstSenior for senior.                  *)
LEMMA ComingOnlineInTheReign ==
  ASSUME ReignInvariant, NEW p \in Peers, PeerHasComeOnline(p)
  PROVE  ReignStep
<1> DEFINE up == [db[p] EXCEPT !.attached = TRUE]
           e == ScheduleLogContentsRescan(up)
<1>1. db[p] \in DatabaseStates
  BY Facts DEF ReignInvariant
<1>2. up \in DatabaseStates /\ SameFields(db[p], up)
  BY <1>1 DEF SameFields, DatabaseStates
<1>3. db' = [db EXCEPT ![p] = e]
  BY DEF PeerHasComeOnline
<1> HIDE DEF up
<1>4. SameFields(up, e)
  BY <1>2, ScheduleFields
<1> HIDE DEF e
<1>5. Held(e) = Held(db[p]) /\ PartOfLog(e.updateLog, db[p].updateLog)
  BY <1>2, <1>4 DEF SameFields, Held, PartOfLog
<1>6. SeniorPeerChanged(p, FirstSenior)
  BY ReignFacts DEF PeerHasComeOnline
<1>7. history' = history
  BY <1>6, ReignFacts DEF SeniorPeerChanged
<1>8. \A q \in Peers : senior'[q] \in {NoPeer, FirstSenior}
  BY <1>6, Facts DEF SeniorPeerChanged, ReignInvariant, NothingIsAheadOfTheSenior
<1>9. \A r \in requests' : r.to = FirstSenior
  BY DEF PeerHasComeOnline, ReignInvariant, NothingIsAheadOfTheSenior
<1>10. \A m \in multicasts' : m.up \in AllUpdates
  BY CopiesUnderWay DEF PeerHasComeOnline
<1>11. alive' = alive /\ faults' = faults /\ replies' = replies
  BY DEF PeerHasComeOnline
<1>12. \A k \in DOMAIN e.updateLog : e.updateLog[k] \in AllUpdates
  BY <1>5, PartsAreCopies
<1> QED
  BY <1>3, <1>5, <1>7, <1>8, <1>9, <1>10, <1>11, <1>12, OneHidden

(* An update that the senior peer executes gets an ID that no update has.  *)
LEMMA SuccessInTheReign ==
  ASSUME ReignInvariant, EverythingComesFromASenior', NEW p \in Peers, NEW c \in Contents,
         NEW hasPayload \in BOOLEAN, HandleSuccessfulRequest(p, c, hasPayload)
  PROVE  ReignStep
<1> DEFINE e == SeniorUpdateCompleted(db[p], c, hasPayload)
           n == db[p].stateID + 1
<1>1. p = FirstSenior /\ db[p] \in DatabaseStates
  BY ReignFacts, Facts DEF HandleSuccessfulRequest, ReignInvariant
<1>2. /\ e.stateID = n /\ e.contents = c
      /\ DOMAIN e.updateLog = DOMAIN db[p].updateLog \cup {n}
      /\ \A k \in DOMAIN db[p].updateLog \ {n} : e.updateLog[k] = db[p].updateLog[k]
  BY <1>1, CompletedFields
<1>3. db' = [db EXCEPT ![p] = e] /\ history' = history \cup {<<n, c>>}
      /\ UNCHANGED <<senior, multicasts, requests, replies, alive, faults>>
  BY DEF HandleSuccessfulRequest
<1> HIDE DEF e
<1>4. db'[p] = e /\ \A q \in Peers \ {p} : db'[q] = db[q]
  BY <1>3, OneDatabase DEF ReignInvariant
<1>5. e.updateLog[n].id = n
  <2>1. SoundDatabaseState(e, history')
    BY <1>4 DEF EverythingComesFromASenior, DatabasesAreSound
  <2>2. \A k \in DOMAIN e.updateLog : e.updateLog[k].id = k
    BY <2>1 DEF SoundDatabaseState
  <2> HIDE DEF n
  <2> QED
    BY <1>2, <2>2
<1>6. n \in Int /\ db[p].stateID \in Int /\ db[p].stateID < n
  BY ReignFacts
<1>7. \A u \in AllUpdates' : u \in AllUpdates \/ u = e.updateLog[n]
  <2> SUFFICES ASSUME NEW u \in AllUpdates', u # e.updateLog[n] PROVE u \in AllUpdates
    OBVIOUS
  <2>1. ASSUME NEW q \in Peers, NEW k \in DOMAIN db'[q].updateLog, u = db'[q].updateLog[k]
        PROVE  u \in AllUpdates
    <3>1. CASE q = p
      <4>1. k \in DOMAIN db[p].updateLog /\ u = db[p].updateLog[k]
        BY <1>2, <1>4, <2>1, <3>1
      <4> QED
        BY <4>1, CopiesUnderWay
    <3>2. CASE q # p
      BY <1>4, <2>1, <3>2, CopiesUnderWay
    <3> QED
      BY <3>1, <3>2
  <2>2. ASSUME NEW m \in multicasts', u = m.up PROVE u \in AllUpdates
    BY <1>3, <2>2, CopiesUnderWay
  <2>3. ASSUME NEW r \in replies', r.id # FULL, u \in r.ups PROVE u \in AllUpdates
    BY <1>3, <2>3, CopiesUnderWay
  <2> QED
    BY <2>1, <2>2, <2>3, WhereUpdatesWillBe
<1>8. \A u \in AllUpdates : u.id # n
  BY <1>1, <1>6, UpdatesArePast
<1>9. OneUpdatePerStateID'
  BY <1>5, <1>7, <1>8 DEF ReignInvariant, OneUpdatePerStateID
<1>10. NothingIsAheadOfTheSenior'
  <2>1. \A q \in Peers : db'[q].stateID <= n
    BY <1>1, <1>2, <1>4, <1>6, ReignFacts
  <2>2. \A u \in AllUpdates' : u.id <= n
    <3> SUFFICES ASSUME NEW u \in AllUpdates' PROVE u.id <= n
      OBVIOUS
    <3>1. CASE u = e.updateLog[n]
      BY <1>5, <1>6, <3>1
    <3>2. CASE u \in AllUpdates
      <4>1. u.id \in Int
        <5>1. \A q \in Peers : \A k \in DOMAIN db[q].updateLog : db[q].updateLog[k].id \in Int
          BY UpdatesArePast
        <5>2. \A m \in multicasts : m.up.id \in Int
          BY DEF ReignInvariant, EverythingComesFromASenior, TypeOK, Multicasts, Updates, StateIDs
        <5>3. \A r \in replies : \A x \in r.ups : x.id \in Int
          BY DEF ReignInvariant, EverythingComesFromASenior, TypeOK, Replies, Updates, StateIDs
        <5> QED
          BY <3>2, <5>1, <5>2, <5>3, WhereUpdatesAre
      <4> QED
        BY <1>1, <1>6, <3>2, <4>1, UpdatesArePast
    <3> QED
      BY <1>7, <3>1, <3>2
  <2>3. \A r \in replies' :
          /\ r.from = FirstSenior
          /\ \A up \in r.ups : up.id <= n
          /\ r.id = FULL /\ r.to # FirstSenior =>
               \A up \in r.ups : db'[r.to].stateID <= up.id
    <3> SUFFICES ASSUME NEW r \in replies
                 PROVE  /\ r.from = FirstSenior
                        /\ \A up \in r.ups : up.id <= n
                        /\ r.id = FULL /\ r.to # FirstSenior =>
                             \A up \in r.ups : db'[r.to].stateID <= up.id
      BY <1>3
    <3>1. \A up \in r.ups : up.id \in Int /\ up.id <= db[p].stateID
      BY <1>1 DEF ReignInvariant, EverythingComesFromASenior, TypeOK, Replies, Updates, StateIDs,
                  NothingIsAheadOfTheSenior
    <3>2. r.to \in Peers
      BY TrafficTypes DEF ReignInvariant
    <3>3. /\ r.from = FirstSenior
          /\ r.id = FULL /\ r.to # FirstSenior => \A up \in r.ups : db[r.to].stateID <= up.id
      BY DEF ReignInvariant, NothingIsAheadOfTheSenior
    <3> QED
      BY <1>1, <1>4, <1>6, <3>1, <3>2, <3>3
  <2>4. /\ alive' = Peers
        /\ \A q \in Peers : senior'[q] \in {NoPeer, FirstSenior}
        /\ \A r \in requests' : r.to = FirstSenior
    BY <1>3 DEF ReignInvariant, NothingIsAheadOfTheSenior
  <2>5. db'[FirstSenior].stateID = n
    BY <1>1, <1>2, <1>4
  <2> QED
    BY <2>1, <2>2, <2>3, <2>4, <2>5 DEF NothingIsAheadOfTheSenior
<1>11. AbstractStep
  <2>1. Replicas' = [Replicas EXCEPT ![FirstSenior] = <<n, c>>]
    <3>1. Replicas' = [Replicas EXCEPT ![p] = Held(e)]
      BY <1>3, OneReplica DEF ReignInvariant
    <3> HIDE DEF n
    <3> QED
      BY <1>1, <1>2, <3>1 DEF Held
  <2>2. Replicas[FirstSenior][1] + 1 = n
    BY <1>1 DEF Replicas, Held
  <2>3. Replicated!Advance
    BY <1>3, <2>1, <2>2 DEF Replicated!Advance, Replicated!SeniorMoves, Replicas
  <2> QED
    BY <2>3 DEF AbstractStep, Replicated!ReplicaNext
<1> QED
  BY <1>9, <1>10, <1>11 DEF ReignStep

(* An update that the senior peer fails to execute leaves no copy behind.  *)
LEMMA FailureInTheReign ==
  ASSUME ReignInvariant, NEW p \in Peers, HandleFailingRequest(p)
  PROVE  ReignStep
<1>1. p = FirstSenior /\ db[p] \in DatabaseStates
  BY ReignFacts, Facts DEF HandleFailingRequest, ReignInvariant
<1>2. PICK c \in Contents : /\ db' = [db EXCEPT ![p] = SeniorUpdateRolledBack(@, c)]
                            /\ history' = history \cup {<<db[p].stateID, c>>}
  BY DEF HandleFailingRequest
<1> DEFINE e == SeniorUpdateRolledBack(db[p], c)
<1>3. /\ e.stateID = db[p].stateID /\ e.contents = c
      /\ PartOfLog(e.updateLog, db[p].updateLog)
  BY <1>1, RolledBackFields
<1>4. db' = [db EXCEPT ![p] = e]
  BY <1>2
<1>5. faults' = faults + 1 /\ UNCHANGED <<senior, multicasts, requests, replies, alive>>
  BY DEF HandleFailingRequest, Fault
<1> HIDE DEF e
<1>6. \A k \in DOMAIN e.updateLog : e.updateLog[k] \in AllUpdates
  BY <1>3, PartsAreCopies
<1>7. /\ \A q \in Peers : senior'[q] \in {NoPeer, FirstSenior}
      /\ \A r \in requests' : r.to = FirstSenior
      /\ \A m \in multicasts' : m.up \in AllUpdates
  BY <1>5, CopiesUnderWay DEF ReignInvariant, NothingIsAheadOfTheSenior
<1>8. NothingIsAheadOfTheSenior' /\ OneUpdatePerStateID'
  BY <1>3, <1>4, <1>5, <1>6, <1>7, OnePeerGoesOn
<1>9. AbstractStep
  <2>1. Replicas' = [Replicas EXCEPT ![FirstSenior] = <<db[p].stateID, c>>]
    BY <1>1, <1>3, <1>4, OneReplica DEF Held, ReignInvariant
  <2>2. Replicas[FirstSenior][1] = db[p].stateID
    BY <1>1 DEF Replicas, Held
  <2>3. Replicated!Spoil
    BY <1>2, <1>5, <2>1, <2>2 DEF Replicated!Spoil, Replicated!SeniorMoves, Replicas
  <2> QED
    BY <2>3 DEF AbstractStep, Replicated!ReplicaNext
<1> QED
  BY <1>8, <1>9 DEF ReignStep

(* The senior peer multicasts copies of what is in its log.                *)
LEMMA SeniorRescanInTheReign ==
  ASSUME ReignInvariant, NEW p \in Peers, SeniorRescan(p),
         UNCHANGED <<senior, replies, alive, history>>
  PROVE  ReignStep
<1> DEFINE e == SeniorRescanned(db[p])
<1>1. db[p] \in DatabaseStates
  BY Facts DEF ReignInvariant
<1>2. /\ e.stateID = db[p].stateID /\ e.contents = db[p].contents
      /\ PartOfLog(e.updateLog, db[p].updateLog)
  BY <1>1, SeniorRescannedFields
<1>3. db' = [db EXCEPT ![p] = e] /\ UNCHANGED <<requests, faults>>
  BY DEF SeniorRescan
<1> HIDE DEF e
<1>4. \A m \in multicasts' : m.up \in AllUpdates
  <2>1. PICK got \in SUBSET (UnsentUpdates(db[p]) \X (alive \ {p})) :
          multicasts' = multicasts \cup
            {[from |-> p, to |-> g[2], up |-> db[p].updateLog[g[1]]] : g \in got}
    BY DEF SeniorRescan
  <2>2. \A g \in got : g[1] \in DOMAIN db[p].updateLog
    BY DEF UnsentUpdates
  <2>3. \A m \in multicasts' : m \in multicasts \/ \E g \in got : m.up = db[p].updateLog[g[1]]
    BY <2>1
  <2> QED
    BY <2>2, <2>3, CopiesUnderWay
<1>5. \A k \in DOMAIN e.updateLog : e.updateLog[k] \in AllUpdates
  BY <1>2, PartsAreCopies
<1>6. /\ \A q \in Peers : senior'[q] \in {NoPeer, FirstSenior}
      /\ \A r \in requests' : r.to = FirstSenior
  BY <1>3 DEF ReignInvariant, NothingIsAheadOfTheSenior
<1>7. Held(e) = Held(db[p])
  BY <1>2 DEF Held
<1> QED
  BY <1>3, <1>4, <1>5, <1>6, <1>7, OneHidden

(* A junior that has had no beacon yet stays where it is.                  *)
LEMMA UninformedRescanInTheReign ==
  ASSUME ReignInvariant, NEW p \in Peers, UninformedRescan(p),
         UNCHANGED <<senior, replies, alive, history>>
  PROVE  ReignStep
<1> DEFINE e == [db[p] EXCEPT !.rescanPending = FALSE]
<1>1. db[p] \in DatabaseStates
  BY Facts DEF ReignInvariant
<1>2. Held(e) = Held(db[p]) /\ e.updateLog = db[p].updateLog
  BY <1>1 DEF Held, DatabaseStates
<1>3. db' = [db EXCEPT ![p] = e] /\ UNCHANGED <<multicasts, requests, faults>>
  BY DEF UninformedRescan
<1> HIDE DEF e
<1>4. /\ \A q \in Peers : senior'[q] \in {NoPeer, FirstSenior}
      /\ \A r \in requests' : r.to = FirstSenior
      /\ \A m \in multicasts' : m.up \in AllUpdates
      /\ \A k \in DOMAIN e.updateLog : e.updateLog[k] \in AllUpdates
  BY <1>2, <1>3, CopiesUnderWay DEF ReignInvariant, NothingIsAheadOfTheSenior
<1> QED
  BY <1>2, <1>3, <1>4, OneHidden

(* However a junior's rescan ends, it is not ahead of the senior peer.     *)
LEMMA JuniorRescanGoesOn ==
  ASSUME ReignInvariant, NEW p \in Peers, NEW e, NEW placed, RescanLeaves(p, e, placed),
         senior[p] \in Peers, senior[p] # p,
         UNCHANGED <<senior, multicasts, replies, alive, history>>
  PROVE  p # FirstSenior /\ NothingIsAheadOfTheSenior' /\ OneUpdatePerStateID'
<1>1. senior[p] = FirstSenior /\ p # FirstSenior
  BY ReignFacts
<1>2. /\ db' = [db EXCEPT ![p] = e]
      /\ requests' = requests \cup
           [from : {p}, to : {senior[p]}, id : NotOnOrder(db[p], senior[p], placed)]
      /\ PartOfLog(e.updateLog, db[p].updateLog)
      /\ e.stateID # db[p].stateID =>
           /\ e.stateID \in DOMAIN db[p].updateLog
           /\ ~IsAwaitingFullDatabaseResendReply(db[p], senior[p])
  BY DEF RescanLeaves
<1>3. \A r \in requests' : r.to = FirstSenior
  <2>1. \A r \in requests' : r \in requests \/ r.to = senior[p]
    BY <1>2
  <2> QED
    BY <1>1, <2>1 DEF ReignInvariant, NothingIsAheadOfTheSenior
<1>4. e.stateID # db[p].stateID => /\ e.stateID <= db[FirstSenior].stateID
                                   /\ \A r \in replies' : ~(r.to = p /\ r.id = FULL)
  BY <1>1, <1>2, UpdatesArePast, FullRepliesAreAwaited
<1>5. /\ \A q \in Peers : senior'[q] \in {NoPeer, FirstSenior}
      /\ \A m \in multicasts' : m.up \in AllUpdates
      /\ \A k \in DOMAIN e.updateLog : e.updateLog[k] \in AllUpdates
  BY <1>2, CopiesUnderWay, PartsAreCopies DEF ReignInvariant, NothingIsAheadOfTheSenior
<1> QED
  BY <1>1, <1>2, <1>3, <1>4, <1>5, OnePeerGoesOn

(* A junior's rescan catches up, or does harm to the junior alone.         *)
LEMMA JuniorRescanInTheReign ==
  ASSUME ReignInvariant, NEW p \in Peers, JuniorRescan(p) \/ JuniorRescanMisexecutes(p),
         UNCHANGED <<senior, replies, alive, history>>
  PROVE  ReignStep
<1>1. CASE JuniorRescan(p)
  <2>1. /\ senior[p] \in Peers /\ senior[p] # p /\ multicasts' = multicasts
        /\ faults' \in {faults, faults + 1}
        /\ \E e, placed : /\ RescanLeaves(p, e, placed)
                          /\ Held(e) = Held(db[p]) \/ Held(e) \in history
    BY <1>1, JuniorRescanEffect DEF ReignInvariant
  <2>2. PICK e, placed : /\ RescanLeaves(p, e, placed)
                         /\ Held(e) = Held(db[p]) \/ Held(e) \in history
    BY <2>1
  <2>3. p # FirstSenior /\ NothingIsAheadOfTheSenior' /\ OneUpdatePerStateID'
    BY <2>1, <2>2, JuniorRescanGoesOn
  <2>4. db' = [db EXCEPT ![p] = e] /\ db[p].stateID <= e.stateID
    BY <2>2 DEF RescanLeaves
  <2>5. CASE Held(e) = Held(db[p])
    <3>1. \A q \in Peers : Held(db'[q]) = Held(db[q])
      BY <2>4, <2>5, OneDatabase DEF ReignInvariant
    <3> QED
      BY <2>1, <2>3, <3>1, NothingShows DEF ReignStep
  <2>6. CASE Held(e) \in history
    BY <2>1, <2>3, <2>4, <2>6, JuniorCatchesUp DEF ReignInvariant, ReignStep
  <2> QED
    BY <2>2, <2>5, <2>6
<1>2. CASE JuniorRescanMisexecutes(p)
  <2>1. /\ senior[p] \in Peers /\ senior[p] # p /\ multicasts' = multicasts
        /\ faults' \in {faults + 1, faults + 2}
        /\ \E e, placed : /\ RescanLeaves(p, e, placed)
                          /\ \/ e.stateID = db[p].stateID
                             \/ \E c \in Contents : <<e.stateID, c>> \in history
    BY <1>2, MisexecutionEffect DEF ReignInvariant
  <2>2. PICK e, placed : /\ RescanLeaves(p, e, placed)
                         /\ \/ e.stateID = db[p].stateID
                            \/ \E c \in Contents : <<e.stateID, c>> \in history
    BY <2>1
  <2>3. p # FirstSenior /\ NothingIsAheadOfTheSenior' /\ OneUpdatePerStateID'
    BY <2>1, <2>2, JuniorRescanGoesOn
  <2>4. /\ db' = [db EXCEPT ![p] = e] /\ db[p].stateID <= e.stateID
        /\ e.contents \in Contents
    BY <2>2 DEF RescanLeaves, DatabaseStates
  <2>5. AbstractStep
    BY <2>1, <2>2, <2>3, <2>4, JuniorIsDamaged DEF ReignInvariant
  <2> QED
    BY <2>3, <2>5 DEF ReignStep
<1> QED
  BY <1>1, <1>2

(* A step that changes no database, no log and no reply.                   *)
LEMMA NothingInTheReign ==
  ASSUME ReignInvariant, UNCHANGED <<db, senior, requests, replies, alive, history>>,
         multicasts' \subseteq multicasts, faults' = faults
  PROVE  ReignStep
<1>1. NothingIsAheadOfTheSenior' /\ OneUpdatePerStateID'
  BY NothingGoesOn
<1> QED
  BY <1>1, NothingShows DEF ReignStep

(* Both pulses that may rescan the log.                                    *)
LEMMA PulsesInTheReign ==
  ASSUME ReignInvariant, NEW p \in Peers, RescanUpdateLogIfNecessary(p) \/ SetBeaconData(p)
  PROVE  ReignStep
<1>1. UNCHANGED <<senior, replies, alive, history>>
  BY DEF RescanUpdateLogIfNecessary, SetBeaconData
<1>2. RescanUpdateLog(p) \/ UNCHANGED <<db, multicasts, requests, faults>>
  BY DEF RescanUpdateLogIfNecessary, SetBeaconData
<1> QED
  BY <1>1, <1>2, SeniorRescanInTheReign, UninformedRescanInTheReign, JuniorRescanInTheReign,
     NothingInTheReign DEF RescanUpdateLog

(* Beacons and updates that arrive.                                        *)
LEMMA DeliveriesInTheReign ==
  ASSUME ReignInvariant,
         \/ \E p, q \in Peers : SendBeacon(p, q)
         \/ \E b \in beacons : BeaconDataChanged(b)
         \/ \E m \in multicasts : HandleJuniorUpdate(m)
  PROVE  ReignStep
<1>1. ASSUME NEW p \in Peers, NEW q \in Peers, SendBeacon(p, q) PROVE ReignStep
  BY <1>1, NothingInTheReign DEF SendBeacon
<1>2. /\ \A q \in Peers : senior[q] \in {NoPeer, FirstSenior}
      /\ \A r \in requests : r.to = FirstSenior
  BY DEF ReignInvariant, NothingIsAheadOfTheSenior
<1>3. ASSUME NEW b \in beacons, BeaconDataChanged(b) PROVE ReignStep
  <2> DEFINE e == SeniorDatabaseStateInfoChanged(db[b.to], b.info)
  <2>1. b.to \in Peers
    BY DEF ReignInvariant, EverythingComesFromASenior, TypeOK, Beacons
  <2>2. /\ e.stateID = db[b.to].stateID /\ e.contents = db[b.to].contents
        /\ e.updateLog = db[b.to].updateLog
    BY <2>1, Facts, InfoChangedFields DEF ReignInvariant
  <2>3. /\ db' = db \/ db' = [db EXCEPT ![b.to] = e]
        /\ UNCHANGED <<senior, multicasts, requests, replies, alive, faults, history>>
    BY <1>3 DEF BeaconDataChanged
  <2> HIDE DEF e
  <2>4. Held(e) = Held(db[b.to])
    BY <2>2 DEF Held
  <2>5. /\ \A k \in DOMAIN e.updateLog : e.updateLog[k] \in AllUpdates
        /\ \A m \in multicasts' : m.up \in AllUpdates
    BY <2>1, <2>2, <2>3, CopiesUnderWay
  <2>6. CASE db' = [db EXCEPT ![b.to] = e]
    BY <1>2, <2>1, <2>3, <2>4, <2>5, <2>6, OneHidden
  <2>7. CASE db' = db
    BY <2>3, <2>7, NothingInTheReign
  <2> QED
    BY <2>3, <2>6, <2>7
<1>4. ASSUME NEW m \in multicasts, HandleJuniorUpdate(m) PROVE ReignStep
  <2> DEFINE e == AddDatabaseUpdateToUpdateLog(db[m.to], m.up, FALSE)
  <2>1. m.to \in Peers
    BY DEF ReignInvariant, EverythingComesFromASenior, TypeOK, Multicasts
  <2>2. db[m.to] \in DatabaseStates
    BY <2>1, Facts DEF ReignInvariant
  <2>3. /\ e.stateID = db[m.to].stateID /\ e.contents = db[m.to].contents
        /\ WithUpdate(db[m.to].updateLog, m.up, e.updateLog)
    BY <2>2, AddFields
  <2>4. /\ db' = db \/ db' = [db EXCEPT ![m.to] = e]
        /\ multicasts' = multicasts \ {m}
        /\ UNCHANGED <<senior, requests, replies, alive, faults, history>>
    BY <1>4 DEF HandleJuniorUpdate
  <2> HIDE DEF e
  <2>5. Held(e) = Held(db[m.to])
    BY <2>3 DEF Held
  <2>6. /\ \A k \in DOMAIN e.updateLog : e.updateLog[k] \in AllUpdates
        /\ \A x \in multicasts' : x.up \in AllUpdates
    BY <2>1, <2>3, <2>4, CopiesUnderWay DEF WithUpdate
  <2>7. CASE db' = [db EXCEPT ![m.to] = e]
    BY <1>2, <2>1, <2>4, <2>5, <2>6, <2>7, OneHidden
  <2>8. CASE db' = db
    BY <2>4, <2>8, NothingInTheReign
  <2> QED
    BY <2>4, <2>7, <2>8
<1> QED
  BY <1>1, <1>3, <1>4

(* The senior peer answers with a copy from its log, with its database as  *)
(* it is, which no junior is ahead of, or with nothing.                    *)
LEMMA AnswersInTheReign ==
  ASSUME ReignInvariant, NEW r \in requests, HandleBackOrderRequest(r)
  PROVE  ReignStep
<1> DEFINE s == FirstSenior
<1>1. /\ s \in Peers /\ r.to = s /\ r.from \in Peers
      /\ db[s].stateID \in Int /\ db[r.from].stateID <= db[s].stateID
  BY ReignFacts, TrafficTypes DEF ReignInvariant, NothingIsAheadOfTheSenior
<1>2. PICK ups :
        /\ replies' = replies \cup {[from |-> s, to |-> r.from, id |-> r.id, ups |-> ups]}
        /\ ups \subseteq GetDatabaseUpdateByID(db[s], r.id)
  <2> DEFINE Reply(ups) == [from |-> s, to |-> r.from, id |-> r.id, ups |-> ups]
             all == GetDatabaseUpdateByID(db[s], r.id)
  <2>1. replies' = replies \cup {Reply(all)} \/ replies' = replies \cup {Reply({})}
    BY <1>1 DEF HandleBackOrderRequest
  <2> HIDE DEF all, Reply
  <2>2. \E ups : replies' = replies \cup {Reply(ups)} /\ ups \subseteq all
    BY <2>1
  <2> QED
    BY <2>2 DEF Reply, all
<1>3. /\ requests' = requests \ {r} /\ faults' \in {faults, faults + 1}
      /\ UNCHANGED <<db, senior, multicasts, alive>>
  BY DEF HandleBackOrderRequest, Fault
<1>4. history' = history
  BY <1>1, ReignFacts DEF HandleBackOrderRequest
<1>5. r.id # FULL => ups \subseteq AllUpdates
  <2>1. r.id # FULL => \A u \in ups : \E k \in DOMAIN db[s].updateLog : u = db[s].updateLog[k]
    BY <1>2 DEF GetDatabaseUpdateByID
  <2> QED
    BY <1>1, <2>1, CopiesUnderWay
<1>6. r.id = FULL => \A u \in ups : u.id = db[s].stateID
  BY <1>2 DEF GetDatabaseUpdateByID
<1>7. \A u \in ups : u.id <= db[s].stateID
  BY <1>1, <1>5, <1>6, UpdatesArePast
<1> DEFINE x == [from |-> s, to |-> r.from, id |-> r.id, ups |-> ups]
<1>8. x.from = s /\ x.to = r.from /\ x.id = r.id /\ x.ups = ups
  OBVIOUS
<1>9. \A y \in replies' : y \in replies \/ y = x
  BY <1>2
<1> HIDE DEF x
<1>10. AllUpdates' \subseteq AllUpdates
  <2>1. \A y \in replies' : y.id # FULL => y.ups \subseteq AllUpdates
    BY <1>5, <1>8, <1>9, CopiesUnderWay
  <2>2. \A p \in Peers : \A k \in DOMAIN db'[p].updateLog : db'[p].updateLog[k] \in AllUpdates
    BY <1>3, CopiesUnderWay
  <2>3. \A m \in multicasts' : m.up \in AllUpdates
    BY <1>3, CopiesUnderWay
  <2> QED
    BY <2>1, <2>2, <2>3, WhereUpdatesWillBe
<1>11. OneUpdatePerStateID'
  BY <1>10 DEF ReignInvariant, OneUpdatePerStateID
<1>12. NothingIsAheadOfTheSenior'
  <2>1. \A y \in replies' :
          /\ y.from = s
          /\ \A up \in y.ups : up.id <= db[s].stateID
          /\ y.id = FULL /\ y.to # s => \A up \in y.ups : db[y.to].stateID <= up.id
    <3>1. /\ x.from = s
          /\ \A up \in x.ups : up.id <= db[s].stateID
          /\ x.id = FULL /\ x.to # s => \A up \in x.ups : db[x.to].stateID <= up.id
      BY <1>1, <1>6, <1>7, <1>8
    <3> QED
      BY <1>9, <3>1 DEF ReignInvariant, NothingIsAheadOfTheSenior
  <2>2. \A u \in AllUpdates' : u.id <= db'[s].stateID
    BY <1>3, <1>10, UpdatesArePast
  <2> QED
    BY <1>3, <2>1, <2>2 DEF ReignInvariant, NothingIsAheadOfTheSenior
<1>13. AbstractStep
  BY <1>3, <1>4, NothingShows
<1> QED
  BY <1>11, <1>12, <1>13 DEF ReignStep

(* An answer is a copy for the log, or a database that the junior that     *)
(* waits for it has not passed, or it changes nothing that shows.          *)
LEMMA RepliesInTheReign ==
  ASSUME ReignInvariant, NEW r \in replies, BackOrderResultReceived(r)
  PROVE  ReignStep
<1> DEFINE p == r.to
<1>1. /\ replies' = replies \ {r}
      /\ UNCHANGED <<senior, multicasts, alive, history>>
      /\ \E e, placed :
           /\ ReplyLeaves(r, e, placed)
           /\ \/ Adopts(r, e)
              \/ /\ Held(e) = Held(db[p]) /\ e.updateLog = db[p].updateLog
                 /\ faults' \in {faults, faults + 1}
  BY ReplyEffect DEF ReignInvariant
<1>2. PICK e, placed :
        /\ ReplyLeaves(r, e, placed)
        /\ \/ Adopts(r, e)
           \/ /\ Held(e) = Held(db[p]) /\ e.updateLog = db[p].updateLog
              /\ faults' \in {faults, faults + 1}
  BY <1>1
<1>3. p \in Peers /\ r.from = FirstSenior
  BY TrafficTypes DEF ReignInvariant, NothingIsAheadOfTheSenior
<1>4. /\ db' = [db EXCEPT ![p] = e]
      /\ requests' = requests \cup
           [from : {p}, to : {r.from}, id : NotOnOrder(db[p], r.from, placed)]
  BY <1>2 DEF ReplyLeaves
<1>5. \A x \in requests' : x.to = FirstSenior
  <2>1. \A x \in requests' : x \in requests \/ x.to = r.from
    BY <1>4
  <2> QED
    BY <1>3, <2>1 DEF ReignInvariant, NothingIsAheadOfTheSenior
<1>6. /\ \A q \in Peers : senior'[q] \in {NoPeer, FirstSenior}
      /\ \A m \in multicasts' : m.up \in AllUpdates
  BY <1>1, CopiesUnderWay DEF ReignInvariant, NothingIsAheadOfTheSenior
<1>7. CASE Held(e) = Held(db[p]) /\ e.updateLog = db[p].updateLog
           /\ faults' \in {faults, faults + 1}
  <2>1. \A k \in DOMAIN e.updateLog : e.updateLog[k] \in AllUpdates
    BY <1>3, <1>7, CopiesUnderWay
  <2> QED
    BY <1>1, <1>3, <1>4, <1>5, <1>6, <1>7, <2>1, OneHidden
<1>8. ASSUME r.id # FULL, faults' = faults, Held(e) = Held(db[p]),
             NEW up \in r.ups, WithUpdate(db[p].updateLog, up, e.updateLog)
      PROVE  ReignStep
  <2>1. \A k \in DOMAIN e.updateLog : e.updateLog[k] \in AllUpdates
    BY <1>3, <1>8, CopiesUnderWay DEF WithUpdate
  <2> QED
    BY <1>1, <1>3, <1>4, <1>5, <1>6, <1>8, <2>1, OneHidden
<1>9. ASSUME p # FirstSenior, r.id = FULL, faults' = faults, e.updateLog = db[p].updateLog,
             NEW up \in r.ups, e.stateID = up.id, e.contents = up.post
      PROVE  ReignStep
  <2>1. db[p].stateID <= e.stateID /\ e.stateID <= db[FirstSenior].stateID
    BY <1>9 DEF ReignInvariant, NothingIsAheadOfTheSenior
  <2>2. \A x \in replies' : ~(x.to = p /\ x.id = FULL)
    <3>1. \A x \in replies : x.from = FirstSenior
      BY DEF ReignInvariant, NothingIsAheadOfTheSenior
    <3>2. \A x \in replies : x.from = r.from /\ x.to = r.to /\ x.id = r.id => x = r
      BY DEF ReignInvariant, BackOrdersAreUnderWay, OneAnswerPerBackOrder
    <3> QED
      BY <1>1, <1>9, <3>1, <3>2
  <2>3. \A k \in DOMAIN e.updateLog : e.updateLog[k] \in AllUpdates
    BY <1>3, <1>9, CopiesUnderWay
  <2>4. NothingIsAheadOfTheSenior' /\ OneUpdatePerStateID'
    BY <1>1, <1>3, <1>4, <1>5, <1>6, <1>9, <2>1, <2>2, <2>3, OnePeerGoesOn
  <2>5. Held(e) \in history
    BY <1>9 DEF ReignInvariant, EverythingComesFromASenior, UpdatesUnderWayAreHeld, Held
  <2>6. AbstractStep
    BY <1>1, <1>3, <1>4, <1>9, <2>1, <2>5, JuniorCatchesUp DEF ReignInvariant
  <2> QED
    BY <2>4, <2>6 DEF ReignStep
<1>10. ASSUME p # FirstSenior, faults' = faults + 1, e.updateLog = db[p].updateLog,
              e.stateID = db[p].stateID, e.contents \in Contents
       PROVE  ReignStep
  <2>1. \A k \in DOMAIN e.updateLog : e.updateLog[k] \in AllUpdates
    BY <1>3, <1>10, CopiesUnderWay
  <2>2. NothingIsAheadOfTheSenior' /\ OneUpdatePerStateID'
    BY <1>1, <1>3, <1>4, <1>5, <1>6, <1>10, <2>1, OnePeerGoesOn
  <2>3. db[p].stateID <= e.stateID
    BY <1>3, <1>10, ReignFacts
  <2>4. AbstractStep
    BY <1>1, <1>3, <1>4, <1>10, <2>3, JuniorIsDamaged DEF ReignInvariant
  <2> QED
    BY <2>2, <2>4 DEF ReignStep
<1>11. Adopts(r, e) => p # FirstSenior
  BY <1>3 DEF Adopts
<1> QED
  BY <1>2, <1>7, <1>8, <1>9, <1>10, <1>11 DEF Adopts

(* The end of a session shows in no database.                              *)
LEMMA SessionEndsInTheReign ==
  ASSUME ReignInvariant, NEW p \in Peers, NEW q \in Peers, UnicastSessionEnds(p, q)
  PROVE  ReignStep
<1> DEFINE e == BackOrdersFailed(db[p], q)
           f == BackOrdersFailed(db[q], p)
<1>1. /\ db \in [Peers -> DatabaseStates] /\ p # q
      /\ db[p] \in DatabaseStates /\ db[q] \in DatabaseStates
  BY Facts DEF UnicastSessionEnds, ReignInvariant
<1>2. /\ e.stateID = db[p].stateID /\ f.stateID = db[q].stateID
      /\ e.contents = db[p].contents /\ f.contents = db[q].contents
      /\ e.updateLog = db[p].updateLog /\ f.updateLog = db[q].updateLog
  BY <1>1, FailedFields
<1>3. /\ db' = [db EXCEPT ![p] = e, ![q] = f]
      /\ requests' \subseteq requests /\ replies' \subseteq replies
      /\ faults' = faults + 1
      /\ UNCHANGED <<senior, multicasts, alive, history>>
  BY <1>1 DEF UnicastSessionEnds, Fault
<1> HIDE DEF e, f
<1>4. db'[p] = e /\ db'[q] = f /\ \A x \in Peers \ {p, q} : db'[x] = db[x]
  BY <1>1, <1>3
<1>5. \A x \in Peers : /\ db'[x].stateID = db[x].stateID
                       /\ db'[x].contents = db[x].contents
                       /\ db'[x].updateLog = db[x].updateLog
  BY <1>2, <1>4
<1>6. AllUpdates' \subseteq AllUpdates
  BY <1>3, <1>5, WhereUpdatesAre, WhereUpdatesWillBe
<1>7. NothingIsAheadOfTheSenior' /\ OneUpdatePerStateID'
  <2>1. \A r \in replies' : r.to \in Peers
    BY <1>3, TrafficTypes DEF ReignInvariant
  <2>2. /\ \A r \in requests' : r.to = FirstSenior
        /\ \A x \in Peers : senior'[x] \in {NoPeer, FirstSenior}
    BY <1>3 DEF ReignInvariant, NothingIsAheadOfTheSenior
  <2> QED
    BY <1>3, <1>5, <1>6, <2>1, <2>2, ReignFacts, ReignGoesOn
<1>8. AbstractStep
  <2>1. \A x \in Peers : Held(db'[x]) = Held(db[x])
    BY <1>5 DEF Held
  <2> QED
    BY <1>3, <2>1, NothingShows
<1> QED
  BY <1>7, <1>8 DEF ReignStep

---------------------------------------------------------------------------
(* Every step of the reign.                                                *)
LEMMA EveryStepOfTheReign ==
  ReignInvariant /\ [ReignNext]_vars => ReignInvariant' /\ ReignStep
<1> SUFFICES ASSUME ReignInvariant, [ReignNext]_vars PROVE ReignInvariant' /\ ReignStep
  OBVIOUS
<1>1. EverythingComesFromASenior' /\ BackOrdersAreUnderWay'
  BY EveryStepIsGood, EveryStepIsOrderly DEF GoodStep, Next, ReignInvariant
<1>2. ASSUME NEW p \in Peers,
             \/ PeerHasComeOnline(p) \/ HandleResetRequest(p)
             \/ HandleReplaceOrUpdateRequest(p) \/ HandleFailingRequest(p)
             \/ RescanUpdateLogIfNecessary(p) \/ SetBeaconData(p)
      PROVE  ReignStep
  BY <1>1, <1>2, ComingOnlineInTheReign, SuccessInTheReign, FailureInTheReign,
     PulsesInTheReign, ContentsAssumption
  DEF HandleResetRequest, HandleReplaceOrUpdateRequest
<1>3. ASSUME NEW p \in Peers, NEW q \in Peers, SendBeacon(p, q) \/ UnicastSessionEnds(p, q)
      PROVE  ReignStep
  BY <1>3, DeliveriesInTheReign, SessionEndsInTheReign
<1>4. ASSUME NEW b \in beacons, BeaconDataChanged(b) PROVE ReignStep
  BY <1>4, DeliveriesInTheReign
<1>5. ASSUME NEW m \in multicasts, HandleJuniorUpdate(m) PROVE ReignStep
  BY <1>5, DeliveriesInTheReign
<1>6. ASSUME NEW r \in requests, HandleBackOrderRequest(r) PROVE ReignStep
  BY <1>6, AnswersInTheReign
<1>7. ASSUME NEW r \in replies, BackOrderResultReceived(r) PROVE ReignStep
  BY <1>7, RepliesInTheReign
<1>8. ASSUME UNCHANGED vars PROVE ReignStep
  BY <1>8, NothingInTheReign DEF vars
<1>9. ReignStep
  BY <1>2, <1>3, <1>4, <1>5, <1>6, <1>7, <1>8 DEF ReignNext
<1> QED
  BY <1>1, <1>9 DEF ReignInvariant, ReignStep

(* The reign begins with nothing under way and nobody ahead of anybody.    *)
LEMMA ReignBegins ==
  Init => ReignInvariant
<1> SUFFICES ASSUME Init PROVE ReignInvariant
  OBVIOUS
<1>1. EverythingComesFromASenior
  BY InitEstablishes
<1>2. BackOrdersAreUnderWay
  BY DEF Init, BackOrdersAreUnderWay, NobodyWaitsInVain, OneAnswerPerBackOrder,
         NewDatabaseState
<1>3. /\ \A p \in Peers : DOMAIN db[p].updateLog = {} /\ db[p].stateID = 0
      /\ multicasts = {} /\ requests = {} /\ replies = {} /\ alive = Peers
      /\ \A p \in Peers : senior[p] = NoPeer
  BY DEF Init, NewDatabaseState
<1>4. AllUpdates = {}
  BY <1>3, WhereUpdatesAre
<1> QED
  BY <1>1, <1>2, <1>3, <1>4, SeniorAssumption
  DEF ReignInvariant, NothingIsAheadOfTheSenior, OneUpdatePerStateID

(* The invariants of the reign.                                            *)
THEOREM NobodyOvertakesTheSenior ==
  ReignSpec => []ReignInvariant
  BY ReignBegins, EveryStepOfTheReign, PTL DEF ReignSpec

(* While one peer stays senior, every update has one meaning: the copies   *)
(* of it in logs, multicasts and replies are the same, whatever is lost or *)
(* answered twice, and an update that was rolled back is nowhere.          *)
THEOREM UpdatesAreUnique ==
  ReignSpec => []OneUpdatePerStateID
<1>1. ReignInvariant => OneUpdatePerStateID
  BY DEF ReignInvariant
<1> QED
  BY NobodyOvertakesTheSenior, <1>1, PTL

(* While one peer stays senior, the peers implement one replicated         *)
(* database: whatever RescanUpdateLog(), back-orders, losses and failures  *)
(* do is the senior peer moving on, juniors following it forwards through  *)
(* its states, or damage that the peer in question has to repair.          *)
THEOREM ReignImplementsReplicatedDatabase ==
  ReignSpec => ImplementsReplicatedDatabase
<1>1. Init => Replicated!ReplicaInit
  <2>1. Held(NewDatabaseState) = <<0, DefaultContents>>
    BY DEF Held, NewDatabaseState
  <2> QED
    BY <2>1 DEF Init, Replicated!ReplicaInit
<1>2. ReignInvariant /\ [ReignNext]_vars
        => [Replicated!ReplicaNext]_<<[p \in Peers |-> Held(db[p])], history, faults>>
  BY EveryStepOfTheReign DEF ReignStep, AbstractStep, Replicas
<1> QED
  BY NobodyOvertakesTheSenior, <1>1, <1>2, PTL
  DEF ReignSpec, ImplementsReplicatedDatabase, Replicated!ReplicaSpec

---------------------------------------------------------------------------
(* The budget of the logs, while one peer stays senior.                    *)

(* Trimming with nothing needed any more ends within the budget.           *)
LEMMA TrimFits ==
  ASSUME NEW held, NEW d, SoundDatabaseState(d, held), NEW iAmSenior
  PROVE  WithinBudget(TrimUpdateLog(d, {}, iAmSenior))
<1> DEFINE log == d.updateLog
           gone == Trimmed(d, {})
           rest == [k \in DOMAIN log \ gone |-> log[k]]
<1>1. /\ d \in DatabaseStates /\ log \in Logs
      /\ DOMAIN log \in SUBSET (1 .. MaxStateID) /\ DOMAIN log \in SUBSET Nat
      /\ BytesIn(log, 1 .. MaxStateID) <= d.totalBytes /\ d.totalBytes \in Int
  BY SoundFields, BoundsAssumption DEF SoundDatabaseState, DatabaseStates
<1>2. TrimUpdateLog(d, {}, iAmSenior).updateLog = rest
  <2>1. TrimUpdateLog(d, {}, iAmSenior) = RemoveDatabaseUpdatesFromUpdateLog(d, gone, iAmSenior)
    BY DEF TrimUpdateLog
  <2> HIDE DEF gone
  <2>2. RemoveDatabaseUpdatesFromUpdateLog(d, gone, iAmSenior).updateLog = rest
    BY <1>1 DEF RemoveDatabaseUpdatesFromUpdateLog, DatabaseStates
  <2> QED
    BY <2>1, <2>2
<1>3. BytesIn(rest, 1 .. MaxStateID) = BytesIn(log, 1 .. MaxStateID) - BytesIn(log, gone)
      /\ rest \in Logs
  <2> HIDE DEF gone, log
  <2> QED BY <1>1, BytesRemoved
<1>4. CASE DOMAIN rest = {}
  BY <1>2, <1>4, FS_EmptySet DEF WithinBudget
<1>5. CASE DOMAIN rest # {}
  <2> DEFINE k == Min(DOMAIN rest)
  <2>1. k \in DOMAIN rest /\ \A y \in DOMAIN rest : k <= y
    <3>1. DOMAIN rest \in SUBSET Nat
      BY <1>1
    <3> HIDE DEF rest
    <3> QED BY <1>5, <3>1, LeastElement
  <2>2. k \in DOMAIN log /\ k \notin gone /\ k \in Nat
    BY <1>1, <2>1
  <2> HIDE DEF k
  <2>3. CASE \E j \in DOMAIN log : j > k
    <3>1. d.totalBytes - BytesIn(log, 0 .. (k - 1)) <= MaxPayloadBytesInLog
      <4>1. ~(d.totalBytes - BytesIn(log, 0 .. (k - 1)) > MaxPayloadBytesInLog)
        BY <2>2, <2>3 DEF Trimmed
      <4>2. BytesIn(log, 0 .. (k - 1)) \in Nat
        BY <1>1, BytesInType
      <4> QED
        BY <1>1, <4>1, <4>2, BoundsAssumption
    <3>2. BytesIn(log, 0 .. (k - 1)) <= BytesIn(log, gone)
      <4> DEFINE A == {x \in DOMAIN log \cap (0 .. (k - 1)) : log[x].payload}
                 B == {x \in DOMAIN log \cap gone : log[x].payload}
      <4>1. \A x \in DOMAIN log \cap (0 .. (k - 1)) : x \in gone
        <5> SUFFICES ASSUME NEW x \in DOMAIN log \cap (0 .. (k - 1)), x \notin gone
                     PROVE  FALSE
          OBVIOUS
        <5>1. x \in DOMAIN rest /\ x \in Nat /\ x < k
          BY <2>2
        <5> QED
          BY <2>1, <2>2, <5>1
      <4>2. A \subseteq B
        BY <4>1
      <4>3. IsFiniteSet(B)
        BY <1>1, BytesInType
      <4>4. Cardinality(A) <= Cardinality(B)
        <5> HIDE DEF A, B
        <5> QED BY <4>2, <4>3, FS_Subset
      <4> QED
        BY <4>4 DEF BytesIn
    <3>3. BytesIn(log, 0 .. (k - 1)) \in Nat /\ BytesIn(log, gone) \in Nat
          /\ BytesIn(log, 1 .. MaxStateID) \in Nat
      <4> HIDE DEF gone, log
      <4> QED BY <1>1, BytesInType
    <3>4. BytesIn(rest, 1 .. MaxStateID) <= MaxPayloadBytesInLog
      <4> HIDE DEF gone, log, rest
      <4> QED BY <1>1, <1>3, <3>1, <3>2, <3>3, BoundsAssumption
    <3> QED
      BY <1>2, <3>4 DEF WithinBudget
  <2>4. CASE ~\E j \in DOMAIN log : j > k
    <3>1. DOMAIN rest = {k}
      BY <1>1, <2>1, <2>2, <2>4
    <3>2. Cardinality(DOMAIN rest) = 1
      <4> HIDE DEF rest
      <4> QED BY <3>1, FS_Singleton
    <3> HIDE DEF rest
    <3> QED
      BY <1>2, <3>2 DEF WithinBudget
  <2> QED
    BY <2>3, <2>4
<1> QED
  BY <1>4, <1>5

(* The invariants that the budget rests on, and what a step must keep.     *)
BudgetInvariant == ReignInvariant /\ LogsFitTheBudget /\ OrdersAreMet

BudgetStep == LogsFitTheBudget' /\ OrdersAreMet'

(* Peer p may leave its database in state d when there have been n faults. *)
Settled(p, d, n) ==
  \/ WithinBudget(d)
  \/ d.rescanPending
  \/ ~IAmTheSeniorPeer(p) /\ (~d.seniorReceived \/ d.backorders # {})
  \/ n > 0

(* A step that answers nobody with an empty database.                      *)
FullAnswers ==
  \A r \in replies' \ replies : r.id = FULL /\ r.ups = {} => faults' > 0

(* A step that changes one database, to one that is settled.               *)
LEMMA OneLogChanges ==
  ASSUME BudgetInvariant, NEW p \in Peers, NEW e, db' = [db EXCEPT ![p] = e],
         senior' = senior, alive' = alive, replies' \subseteq replies,
         faults' \in Nat, faults <= faults',
         e.attached = db[p].attached, p = FirstSenior => e.backorders = {},
         Settled(p, e, faults')
  PROVE  BudgetStep
<1>1. db'[p] = e /\ \A q \in Peers \ {p} : db'[q] = db[q]
  BY OneDatabase DEF BudgetInvariant, ReignInvariant
<1>2. faults \in Nat /\ alive \subseteq Peers /\ FirstSenior \in Peers
  BY ReignFacts DEF BudgetInvariant, ReignInvariant, EverythingComesFromASenior, TypeOK
<1>3. faults > 0 => faults' > 0
  BY <1>2
<1>4. LogsFitTheBudget'
  <2> SUFFICES ASSUME NEW q \in alive
               PROVE  Settled(q, db'[q], faults')
    BY DEF LogsFitTheBudget, Settled, IAmTheSeniorPeer
  <2>1. CASE q = p
    BY <1>1, <2>1
  <2>2. CASE q # p
    <3>1. Settled(q, db[q], faults)
      BY DEF BudgetInvariant, LogsFitTheBudget, Settled
    <3> QED
      BY <1>1, <1>2, <1>3, <2>2, <3>1 DEF Settled
  <2> QED
    BY <2>1, <2>2
<1>5. OrdersAreMet'
  BY <1>1, <1>2, <1>3 DEF BudgetInvariant, OrdersAreMet
<1> QED
  BY <1>4, <1>5 DEF BudgetStep

(* A step that changes no database.                                        *)
LEMMA NoLogChanges ==
  ASSUME BudgetInvariant, db' = db, senior' = senior, alive' = alive,
         faults' \in Nat, faults <= faults', FullAnswers
  PROVE  BudgetStep
<1>1. faults \in Nat
  BY DEF BudgetInvariant, ReignInvariant, EverythingComesFromASenior, TypeOK
<1>2. faults > 0 => faults' > 0
  BY <1>1
<1> QED
  BY <1>2 DEF BudgetInvariant, BudgetStep, LogsFitTheBudget, OrdersAreMet, FullAnswers,
     IAmTheSeniorPeer

(* What the steps do to the fields that decide about settling.             *)
LEMMA AddSettles ==
  ASSUME NEW d \in DatabaseStates, NEW up, NEW iAmSenior \in BOOLEAN
  PROVE  LET e == AddDatabaseUpdateToUpdateLog(d, up, iAmSenior)
         IN  e.attached = d.attached /\ (d.attached => e.rescanPending)
  BY DEF AddDatabaseUpdateToUpdateLog, ScheduleLogContentsRescan, DatabaseStates

LEMMA ScheduleSettles ==
  ASSUME NEW d \in DatabaseStates
  PROVE  LET e == ScheduleLogContentsRescan(d)
         IN  e.attached = d.attached /\ (d.attached => e.rescanPending)
  BY DEF ScheduleLogContentsRescan, DatabaseStates

LEMMA CompletedSettles ==
  ASSUME NEW d \in DatabaseStates, NEW c, NEW hasPayload \in BOOLEAN
  PROVE  LET e == SeniorUpdateCompleted(d, c, hasPayload)
         IN  e.attached = d.attached /\ (d.attached => e.rescanPending)
  BY DEF SeniorUpdateCompleted, AddDatabaseUpdateToUpdateLog, ScheduleLogContentsRescan,
         DatabaseStates

LEMMA RolledBackAttached ==
  ASSUME NEW d \in DatabaseStates, NEW c
  PROVE  SeniorUpdateRolledBack(d, c).attached = d.attached
  BY DEF SeniorUpdateRolledBack, RemoveDatabaseUpdatesFromUpdateLog,
         AddDatabaseUpdateToUpdateLog, ScheduleLogContentsRescan, DatabaseStates

LEMMA TrimAttached ==
  ASSUME NEW d \in DatabaseStates, NEW needed, NEW iAmSenior
  PROVE  TrimUpdateLog(d, needed, iAmSenior).attached = d.attached
<1> DEFINE gone == Trimmed(d, needed)
<1> HIDE DEF gone
<1>1. RemoveDatabaseUpdatesFromUpdateLog(d, gone, iAmSenior).attached = d.attached
  BY DEF RemoveDatabaseUpdatesFromUpdateLog, DatabaseStates
<1> QED
  BY <1>1 DEF TrimUpdateLog, gone

LEMMA InfoChangedSettles ==
  ASSUME NEW d \in DatabaseStates, NEW info
  PROVE  LET e == SeniorDatabaseStateInfoChanged(d, info)
         IN  e.attached = d.attached /\ (e = d \/ (d.attached => e.rescanPending))
  BY DEF SeniorDatabaseStateInfoChanged, ScheduleLogContentsRescan, DatabaseStates

(* What the invariants say of a peer that knows its senior.                *)
LEMMA BudgetFacts ==
  ASSUME BudgetInvariant, NEW p \in Peers
  PROVE  /\ SoundDatabaseState(db[p], history) /\ db[p] \in DatabaseStates
         /\ senior[p] \in Peers \cup {NoPeer}
         /\ senior[p] \in Peers => db[p].attached /\ senior[p] = FirstSenior
         /\ p = FirstSenior => db[p].backorders = {}
         /\ IAmTheSeniorPeer(p) => p = FirstSenior
         /\ Settled(p, db[p], faults)
         /\ faults \in Nat
<1>1. p \in alive
  BY ReignFacts DEF BudgetInvariant
<1>2. Settled(p, db[p], faults)
  BY <1>1 DEF BudgetInvariant, LogsFitTheBudget, Settled
<1>3. faults \in Nat
  BY DEF BudgetInvariant, ReignInvariant, EverythingComesFromASenior, TypeOK
<1> QED
  BY <1>2, <1>3, Facts, ReignFacts, NoPeerAssumption DEF BudgetInvariant, ReignInvariant, OrdersAreMet

(* A peer that comes online has an empty log, and a rescan pending.        *)
LEMMA ComingOnlineSettles ==
  ASSUME BudgetInvariant, NEW p \in Peers, PeerHasComeOnline(p)
  PROVE  BudgetStep
<1> DEFINE up == [db[p] EXCEPT !.attached = TRUE]
           e == ScheduleLogContentsRescan(up)
<1>1. db[p] \in DatabaseStates
  BY BudgetFacts
<1>2. up \in DatabaseStates /\ up.attached /\ up.backorders = db[p].backorders
  BY <1>1 DEF DatabaseStates
<1>3. db' = [db EXCEPT ![p] = e] /\ alive' = alive /\ replies' = replies /\ faults' = faults
  BY DEF PeerHasComeOnline
<1>4. \A q \in Peers \ {p} : senior'[q] = senior[q]
  BY BudgetFacts, Facts DEF PeerHasComeOnline, SeniorPeerChanged, BudgetInvariant, ReignInvariant
<1> HIDE DEF up
<1>5. e.attached /\ e.rescanPending /\ e.backorders = db[p].backorders
  BY <1>2, ScheduleSettles, ScheduleFields DEF SameFields
<1> HIDE DEF e
<1>6. db'[p] = e /\ \A q \in Peers \ {p} : db'[q] = db[q]
  BY <1>3, OneDatabase DEF BudgetInvariant, ReignInvariant
<1>7. alive \subseteq Peers /\ FirstSenior \in Peers
  BY ReignFacts DEF BudgetInvariant
<1>8. LogsFitTheBudget'
  <2> SUFFICES ASSUME NEW q \in alive
               PROVE  \/ WithinBudget(db'[q]) \/ db'[q].rescanPending
                      \/ senior'[q] # q /\ (~db'[q].seniorReceived \/ db'[q].backorders # {})
                      \/ faults > 0
    BY <1>3 DEF LogsFitTheBudget, IAmTheSeniorPeer
  <2>1. CASE q = p
    BY <1>5, <1>6, <2>1
  <2>2. CASE q # p
    BY <1>4, <1>6, <1>7, <2>2, BudgetFacts DEF Settled, IAmTheSeniorPeer
  <2> QED
    BY <2>1, <2>2
<1>9. OrdersAreMet'
  BY <1>3, <1>4, <1>5, <1>6, <1>7 DEF BudgetInvariant, OrdersAreMet
<1> QED
  BY <1>8, <1>9 DEF BudgetStep

(* A change schedules a rescan; a failed one is a fault.                   *)
LEMMA RequestsSettle ==
  ASSUME BudgetInvariant, NEW p \in Peers,
         \/ \E c \in Contents, hasPayload \in BOOLEAN :
              HandleSuccessfulRequest(p, c, hasPayload)
         \/ HandleFailingRequest(p)
  PROVE  BudgetStep
<1>1. /\ db[p] \in DatabaseStates /\ db[p].attached /\ db[p].backorders = {} /\ faults \in Nat
      /\ senior' = senior /\ alive' = alive /\ replies' = replies
  <2>1. IAmTheSeniorPeer(p) /\ senior' = senior /\ alive' = alive /\ replies' = replies
    BY DEF HandleSuccessfulRequest, HandleFailingRequest
  <2> QED
    BY <2>1, BudgetFacts DEF IAmTheSeniorPeer
<1>2. ASSUME NEW c \in Contents, NEW hasPayload \in BOOLEAN,
             HandleSuccessfulRequest(p, c, hasPayload)
      PROVE  BudgetStep
  <2> DEFINE e == SeniorUpdateCompleted(db[p], c, hasPayload)
  <2>1. e.attached = db[p].attached /\ e.rescanPending /\ e.backorders = {}
    <3>1. e.attached = db[p].attached /\ (db[p].attached => e.rescanPending)
      BY <1>1, CompletedSettles
    <3>2. e.backorders = db[p].backorders
      BY <1>1, CompletedFields
    <3> QED
      BY <1>1, <3>1, <3>2
  <2>2. db' = [db EXCEPT ![p] = e] /\ faults' = faults
    BY <1>2 DEF HandleSuccessfulRequest
  <2> HIDE DEF e
  <2>3. Settled(p, e, faults') /\ faults' \in Nat /\ faults <= faults'
    BY <1>1, <2>1, <2>2 DEF Settled
  <2> QED
    BY <1>1, <2>1, <2>2, <2>3, OneLogChanges
<1>3. ASSUME HandleFailingRequest(p)
      PROVE  BudgetStep
  <2>1. PICK c \in Contents : db' = [db EXCEPT ![p] = SeniorUpdateRolledBack(@, c)]
    BY <1>3 DEF HandleFailingRequest
  <2> DEFINE e == SeniorUpdateRolledBack(db[p], c)
  <2>2. e.attached = db[p].attached /\ e.backorders = {}
    <3>1. e.attached = db[p].attached
      BY <1>1, RolledBackAttached
    <3>2. e.backorders = db[p].backorders
      BY <1>1, RolledBackFields
    <3> QED
      BY <1>1, <3>1, <3>2
  <2>3. db' = [db EXCEPT ![p] = e] /\ faults' = faults + 1
    BY <1>3, <2>1 DEF HandleFailingRequest, Fault
  <2> HIDE DEF e
  <2>4. Settled(p, e, faults') /\ faults' \in Nat /\ faults <= faults'
    BY <1>1, <2>3 DEF Settled
  <2> QED
    BY <1>1, <2>2, <2>3, <2>4, OneLogChanges
<1> QED
  BY <1>2, <1>3

(* The senior peer's rescan trims its log without regard to anything.      *)
LEMMA SeniorRescanSettles ==
  ASSUME BudgetInvariant, NEW p \in Peers, SeniorRescan(p),
         senior' = senior, replies' = replies, alive' = alive
  PROVE  BudgetStep
<1> DEFINE d == db[p]
           e == SeniorRescanned(d)
           next == IF UnsentUpdates(d) = {} THEN d.firstUnsent
                     ELSE Max(UnsentUpdates(d)) + 1
           sent == [d EXCEPT !.rescanPending = FALSE, !.firstUnsent = next]
<1>1. /\ SoundDatabaseState(d, history) /\ d \in DatabaseStates
      /\ p = FirstSenior => d.backorders = {}
      /\ faults \in Nat
  BY BudgetFacts
<1>2. db' = [db EXCEPT ![p] = e] /\ faults' = faults
  BY DEF SeniorRescan
<1>3. next \in Nat
  <2>1. UnsentUpdates(d) \in SUBSET (0 .. MaxStateID)
    BY <1>1, SoundFields, BoundsAssumption DEF UnsentUpdates
  <2>2. UnsentUpdates(d) # {} => Max(UnsentUpdates(d)) \in 0 .. MaxStateID
    BY <2>1, GreatestElement, BoundsAssumption
  <2> QED
    BY <1>1, <2>2, BoundsAssumption DEF DatabaseStates
<1>4. e = TrimUpdateLog(sent, {}, TRUE)
  BY <1>1 DEF SeniorRescanned, DatabaseStates
<1> HIDE DEF next
<1>5. /\ sent \in DatabaseStates /\ sent.attached = d.attached
      /\ sent.updateLog = d.updateLog /\ sent.totalBytes = d.totalBytes
  BY <1>1, <1>3 DEF DatabaseStates
<1> HIDE DEF sent
<1>6. WithinBudget(e)
  <2>1. SoundDatabaseState(sent, history)
    BY <1>1, <1>5, SoundSameLog
  <2> HIDE DEF e
  <2> QED BY <1>4, <2>1, TrimFits
<1>7. e.attached = d.attached
  <2> HIDE DEF e
  <2> QED BY <1>4, <1>5, TrimAttached
<1>8. e.backorders = d.backorders
  BY <1>1, SeniorRescannedFields
<1> HIDE DEF e
<1>9. Settled(p, e, faults')
  BY <1>6 DEF Settled
<1>10. /\ e.attached = db[p].attached /\ (p = FirstSenior => e.backorders = {})
       /\ db' = [db EXCEPT ![p] = e] /\ faults' \in Nat /\ faults <= faults'
       /\ replies' \subseteq replies
  BY <1>1, <1>2, <1>7, <1>8
<1> HIDE DEF d
<1> QED
  BY <1>9, <1>10, OneLogChanges

(* A junior without a beacon waits for one.                                *)
LEMMA UninformedRescanSettles ==
  ASSUME BudgetInvariant, NEW p \in Peers, UninformedRescan(p),
         senior' = senior, replies' = replies, alive' = alive
  PROVE  BudgetStep
<1> DEFINE e == [db[p] EXCEPT !.rescanPending = FALSE]
<1>1. /\ db[p] \in DatabaseStates /\ faults \in Nat
      /\ p = FirstSenior => db[p].backorders = {}
  BY BudgetFacts
<1>2. db' = [db EXCEPT ![p] = e] /\ faults' = faults
  BY DEF UninformedRescan
<1>3. /\ e.attached = db[p].attached /\ e.backorders = db[p].backorders
      /\ e.seniorReceived = db[p].seniorReceived
  BY <1>1 DEF DatabaseStates
<1> HIDE DEF e
<1>4. Settled(p, e, faults')
  BY <1>3 DEF Settled, UninformedRescan
<1>5. /\ p = FirstSenior => e.backorders = {}
      /\ faults' \in Nat /\ faults <= faults' /\ replies' \subseteq replies
  BY <1>1, <1>2, <1>3
<1> QED
  BY <1>2, <1>3, <1>4, <1>5, OneLogChanges

(* How a junior's rescan ends, from the state d that replaying has led to: *)
(* with an order out, with nothing needed, or with a fault.                *)
LEMMA OrderAndTrimSettles ==
  ASSUME BudgetInvariant, NEW p \in Peers, ~IAmTheSeniorPeer(p), senior[p] \in Peers,
         senior' = senior, replies' = replies, alive' = alive,
         NEW d, SoundDatabaseState(d, history), d.attached = db[p].attached,
         NEW wanted \in SUBSET (StateIDs \cup {FULL}), OrderAndTrim(p, d, wanted),
         d.backorders # {} \/ wanted # {} \/ d.stateID >= GetTargetDatabaseStateID(d)
  PROVE  BudgetStep
<1>1. PICK placed \in PossibleOrders(wanted) :
        LET o == OnOrder(d, senior[p], placed) IN
        /\ RequestBackOrders(p, d, wanted, placed)
        /\ db' = [db EXCEPT ![p] =
                    TrimUpdateLog(o, StillNeededUpdates(o, senior[p]), FALSE)]
  BY DEF OrderAndTrim
<1> DEFINE o == OnOrder(d, senior[p], placed)
           needed == StillNeededUpdates(o, senior[p])
           t == TrimUpdateLog(o, needed, FALSE)
<1>2. d \in DatabaseStates /\ faults \in Nat
  BY SoundFields, BudgetFacts
<1>3. /\ faults' \in Nat /\ faults <= faults'
      /\ placed = wanted \/ faults' > 0
  BY <1>1, <1>2 DEF RequestBackOrders, Fault
<1>4. placed \in SUBSET (StateIDs \cup {FULL})
  BY PossibleOrdersType
<1>5. /\ o.stateID = d.stateID /\ o.updateLog = d.updateLog
      /\ o.seniorStateID = d.seniorStateID
      /\ o.backorders = d.backorders \cup ({senior[p]} \X placed)
      /\ o.attached = d.attached
  <2>1. o.attached = d.attached
    BY <1>2 DEF OnOrder, DatabaseStates
  <2> QED
    BY <1>2, <2>1, OnOrderFields
<1>6. SoundDatabaseState(o, history) /\ o \in DatabaseStates
  <2>1. SoundDatabaseState(o, history)
    BY <1>4, OnOrderIsSound
  <2> HIDE DEF o
  <2> QED BY <2>1, SoundFields
<1>7. db' = [db EXCEPT ![p] = t]
  BY <1>1
<1> HIDE DEF o
<1>8. t.backorders = o.backorders /\ t.attached = o.attached
  <2> HIDE DEF needed
  <2>1. t.backorders = o.backorders
    BY <1>6, TrimFields
  <2>2. t.attached = o.attached
    BY <1>6, TrimAttached
  <2> QED
    BY <2>1, <2>2
<1>9. d.backorders # {} \/ placed # {} => t.backorders # {}
  <2> HIDE DEF t
  <2>1. \A x \in placed : <<senior[p], x>> \in {senior[p]} \X placed
    OBVIOUS
  <2> QED
    BY <1>5, <1>8, <2>1
<1>10. ASSUME placed = {}, d.stateID >= GetTargetDatabaseStateID(d)
       PROVE  WithinBudget(t)
  <2>1. GetTargetDatabaseStateID(o) = GetTargetDatabaseStateID(d)
    BY <1>5 DEF GetTargetDatabaseStateID
  <2>2. d.stateID \in Int /\ GetTargetDatabaseStateID(d) \in Int
    BY <1>2, TargetType, BoundsAssumption DEF DatabaseStates, StateIDs
  <2>3. needed = {}
    BY <1>5, <1>10, <2>1, <2>2 DEF StillNeededUpdates
  <2> HIDE DEF needed
  <2> QED BY <1>6, <2>3, TrimFits
<1> HIDE DEF t, needed
<1>11. Settled(p, t, faults')
  BY <1>3, <1>9, <1>10 DEF Settled
<1>12. p # FirstSenior
  BY BudgetFacts DEF IAmTheSeniorPeer
<1> QED
  BY <1>3, <1>5, <1>7, <1>8, <1>11, <1>12, OneLogChanges

(* A junior that executes what it replays has caught up, or has ordered    *)
(* something.                                                              *)
LEMMA JuniorRescanSettles ==
  ASSUME BudgetInvariant, NEW p \in Peers, JuniorRescan(p),
         senior' = senior, replies' = replies, alive' = alive
  PROVE  BudgetStep
<1> DEFINE d == [db[p] EXCEPT !.rescanPending = FALSE, !.firstUnsent = db[p].stateID + 1]
           s == senior[p]
           target == GetTargetDatabaseStateID(d)
<1>1. /\ SoundDatabaseState(db[p], history) /\ db[p] \in DatabaseStates
      /\ ~IAmTheSeniorPeer(p) /\ senior[p] \in Peers
  BY BudgetFacts, AttachedPeersHaveASenior DEF JuniorRescan, BudgetInvariant, ReignInvariant
<1>2. /\ d \in DatabaseStates /\ SameFields(db[p], d) /\ d.totalBytes = db[p].totalBytes
      /\ d.attached = db[p].attached
  <2>1. d.attached = db[p].attached
    BY <1>1 DEF DatabaseStates
  <2>2. d \in DatabaseStates /\ SameFields(db[p], d)
    BY <1>1, RescanBeginsFields
  <2>3. d.totalBytes = db[p].totalBytes
    BY <1>1 DEF DatabaseStates
  <2> QED
    BY <2>1, <2>2, <2>3
<1>3. \/ IsAwaitingFullDatabaseResendReply(d, s) /\ OrderAndTrim(p, d, {})
      \/ OrderAndTrim(p, d, {FULL})
      \/ \E n \in {d.stateID} \cup (d.stateID .. target) :
           /\ CanReplayTo(d, n)
           /\ \/ n >= target /\ OrderAndTrim(p, ReplayedTo(d, n), {})
              \/ OrderAndTrim(p, ReplayedTo(d, n), {FULL})
              \/ /\ n < target /\ n + 1 \notin DOMAIN d.updateLog
                 /\ OrderAndTrim(p, ReplayedTo(d, n),
                      NotOnOrder(ReplayedTo(d, n), s, MissingUpdates(ReplayedTo(d, n), n)))
  BY DEF JuniorRescan
<1> HIDE DEF d
<1>4. SoundDatabaseState(d, history)
  BY <1>1, <1>2, SoundSameLog DEF SameFields
<1>5. CASE IsAwaitingFullDatabaseResendReply(d, s) /\ OrderAndTrim(p, d, {})
  <2>1. d.backorders # {}
    BY <1>5 DEF IsAwaitingFullDatabaseResendReply
  <2> QED
    BY <1>1, <1>2, <1>4, <1>5, <2>1, OrderAndTrimSettles
<1>6. CASE OrderAndTrim(p, d, {FULL})
  BY <1>1, <1>2, <1>4, <1>6, OrderAndTrimSettles
<1>7. ASSUME NEW n \in {d.stateID} \cup (d.stateID .. target), CanReplayTo(d, n),
             \/ n >= target /\ OrderAndTrim(p, ReplayedTo(d, n), {})
             \/ OrderAndTrim(p, ReplayedTo(d, n), {FULL})
             \/ /\ n < target /\ n + 1 \notin DOMAIN d.updateLog
                /\ OrderAndTrim(p, ReplayedTo(d, n),
                     NotOnOrder(ReplayedTo(d, n), s, MissingUpdates(ReplayedTo(d, n), n)))
      PROVE  BudgetStep
  <2> DEFINE e == ReplayedTo(d, n)
             wanted == NotOnOrder(e, s, MissingUpdates(e, n))
  <2>1. target \in StateIDs /\ d.stateID \in StateIDs /\ d.seniorStateID \in StateIDs
    BY <1>2, TargetType DEF DatabaseStates
  <2>2. n \in StateIDs /\ d.stateID <= n /\ n \in Int /\ target \in Int
    BY <2>1, BoundsAssumption DEF StateIDs
  <2>3. /\ SoundDatabaseState(e, history) /\ e.stateID = n
        /\ n # d.stateID => <<n, e.contents>> \in history
    <3>1. CanReplayTo(d, n)
      BY <1>7
    <3> HIDE DEF wanted
    <3> QED BY <1>4, <2>2, <3>1, ReplayedIsSound
  <2>4. /\ e.updateLog = d.updateLog /\ e.backorders = d.backorders
        /\ e.seniorStateID = d.seniorStateID
    BY <1>2, ReplayedFields
  <2>5. e.attached = db[p].attached
    <3> DEFINE c == ContentsAt(d, n)
    <3> HIDE DEF c
    <3>1. [d EXCEPT !.stateID = n, !.contents = c].attached = d.attached
      BY <1>2 DEF DatabaseStates
    <3> QED
      BY <1>2, <3>1 DEF ReplayedTo, c
  <2> HIDE DEF e
  <2>6. GetTargetDatabaseStateID(e) = target
    BY <2>4 DEF GetTargetDatabaseStateID
  <2>7. e \in DatabaseStates
    BY <2>3, SoundFields
  <2>8. CASE n >= target /\ OrderAndTrim(p, e, {})
    BY <1>1, <2>3, <2>5, <2>6, <2>8, OrderAndTrimSettles
  <2>9. CASE OrderAndTrim(p, e, {FULL})
    BY <1>1, <2>3, <2>5, <2>9, OrderAndTrimSettles
  <2>10. CASE n < target /\ n + 1 \notin DOMAIN d.updateLog /\ OrderAndTrim(p, e, wanted)
    <3>1. MissingUpdates(e, n) # {}
      BY <2>2, <2>4, <2>6, <2>10 DEF MissingUpdates
    <3>2. wanted # {} \/ e.backorders # {}
      <4>1. \A i \in MissingUpdates(e, n) : i \in wanted \/ <<s, i>> \in e.backorders
        BY DEF NotOnOrder
      <4> QED
        BY <3>1, <4>1
    <3>3. wanted \in SUBSET (StateIDs \cup {FULL})
      BY <2>2, <2>7, MissingType DEF NotOnOrder
    <3> HIDE DEF wanted
    <3> QED
      BY <1>1, <2>3, <2>5, <2>10, <3>2, <3>3, OrderAndTrimSettles
  <2> QED
    BY <1>7, <2>8, <2>9, <2>10 DEF e
<1> QED
  BY <1>3, <1>5, <1>6, <1>7

(* A junior that mis-executes is one more fault.                           *)
LEMMA MisexecutionSettles ==
  ASSUME BudgetInvariant, NEW p \in Peers, JuniorRescanMisexecutes(p),
         senior' = senior, replies' = replies, alive' = alive
  PROVE  BudgetStep
<1> DEFINE d == [db[p] EXCEPT !.rescanPending = FALSE, !.firstUnsent = db[p].stateID + 1]
           s == senior[p]
           target == GetTargetDatabaseStateID(d)
<1>1. EverythingComesFromASenior /\ db \in [Peers -> DatabaseStates]
  BY OneDatabase DEF BudgetInvariant, ReignInvariant, EverythingComesFromASenior, TypeOK
<1>2. /\ senior[p] # p /\ faults' \in {faults + 1, faults + 2}
      /\ \E x, placed : RescanLeaves(p, x, placed)
  BY <1>1, MisexecutionEffect
<1>3. PICK x : x \in DatabaseStates /\ db' = [db EXCEPT ![p] = x]
  BY <1>2 DEF RescanLeaves
<1>4. PICK n \in d.stateID .. (target - 1), c \in Contents, placed \in {{FULL}, {}} :
        LET e == OnOrder([ReplayedTo(d, n) EXCEPT !.contents = c], s, placed)
        IN  db' = [db EXCEPT ![p] = TrimUpdateLog(e, StillNeededUpdates(e, s), FALSE)]
  BY DEF JuniorRescanMisexecutes
<1> DEFINE f == [ReplayedTo(d, n) EXCEPT !.contents = c]
           o == OnOrder(f, s, placed)
           needed == StillNeededUpdates(o, s)
<1>5. d \in DatabaseStates /\ d.attached = db[p].attached
  <2>1. db[p] \in DatabaseStates
    BY <1>1
  <2>2. d \in DatabaseStates
    BY <1>1, <2>1, RescanBeginsFields
  <2>3. d.attached = db[p].attached
    BY <2>1 DEF DatabaseStates
  <2> QED
    BY <2>2, <2>3
<1> HIDE DEF d
<1>6. n \in StateIDs
  <2>1. target \in StateIDs /\ d.stateID \in StateIDs
    BY <1>5, TargetType DEF DatabaseStates
  <2> QED
    BY <2>1, BoundsAssumption DEF StateIDs
<1>7. f \in DatabaseStates /\ f.attached = d.attached
  <2>1. f = [d EXCEPT !.stateID = n, !.contents = c]
    BY <1>5 DEF ReplayedTo, DatabaseStates
  <2> QED
    BY <1>5, <1>6, <2>1 DEF DatabaseStates
<1> HIDE DEF f
<1>8. s \in Peers
  BY <1>1, AttachedPeersHaveASenior DEF JuniorRescanMisexecutes
<1>9. o \in DatabaseStates /\ o.attached = f.attached
  <2>1. placed \in SUBSET (StateIDs \cup {FULL})
    OBVIOUS
  <2>2. {s} \X placed \in SUBSET (Peers \X (StateIDs \cup {FULL}))
    BY <1>8, <2>1
  <2> QED
    BY <1>7, <2>2 DEF OnOrder, DatabaseStates
<1>10. db' = [db EXCEPT ![p] = TrimUpdateLog(o, needed, FALSE)]
  BY <1>4 DEF f
<1> HIDE DEF o, needed
<1>11. x.attached = db[p].attached
  <2>1. TrimUpdateLog(o, needed, FALSE).attached = o.attached
    BY <1>9, TrimAttached
  <2>2. db'[p] = x /\ db'[p] = TrimUpdateLog(o, needed, FALSE)
    BY <1>1, <1>3, <1>10
  <2> QED
    BY <1>5, <1>7, <1>9, <2>1, <2>2
<1>12. p # FirstSenior
  BY <1>1, <1>2, <1>8, BudgetFacts
<1>13. /\ faults' \in Nat /\ faults <= faults' /\ faults' > 0
       /\ replies' \subseteq replies
  BY <1>2, BudgetFacts
<1>14. Settled(p, x, faults')
  BY <1>13 DEF Settled
<1> QED
  BY <1>3, <1>11, <1>12, <1>13, <1>14, OneLogChanges

(* Both pulses that may rescan the log.                                    *)
LEMMA PulsesSettle ==
  ASSUME BudgetInvariant, NEW p \in Peers,
         RescanUpdateLogIfNecessary(p) \/ SetBeaconData(p)
  PROVE  BudgetStep
<1>1. senior' = senior /\ replies' = replies /\ alive' = alive
  BY DEF RescanUpdateLogIfNecessary, SetBeaconData
<1>2. RescanUpdateLog(p) \/ (db' = db /\ faults' = faults)
  BY DEF RescanUpdateLogIfNecessary, SetBeaconData
<1>3. CASE RescanUpdateLog(p)
  BY <1>1, <1>3, SeniorRescanSettles, UninformedRescanSettles, JuniorRescanSettles,
     MisexecutionSettles DEF RescanUpdateLog
<1>4. CASE db' = db /\ faults' = faults
  <2>1. faults' \in Nat /\ faults <= faults'
    BY <1>4, BudgetFacts
  <2>2. FullAnswers
    BY <1>1 DEF FullAnswers
  <2> QED
    BY <1>1, <1>4, <2>1, <2>2, NoLogChanges
<1> QED
  BY <1>2, <1>3, <1>4

(* News from the senior peer, and updates, schedule a rescan.              *)
LEMMA DeliveriesSettle ==
  ASSUME BudgetInvariant,
         \/ \E p, q \in Peers : SendBeacon(p, q)
         \/ \E b \in beacons : BeaconDataChanged(b)
         \/ \E m \in multicasts : HandleJuniorUpdate(m)
  PROVE  BudgetStep
<1>1. /\ senior' = senior /\ replies' = replies /\ alive' = alive /\ faults' = faults
  BY DEF SendBeacon, BeaconDataChanged, HandleJuniorUpdate
<1>2. faults' \in Nat /\ faults <= faults' /\ FullAnswers /\ replies' \subseteq replies
  <2>1. FirstSenior \in Peers
    BY SeniorAssumption
  <2> QED
    BY <1>1, <2>1, BudgetFacts DEF FullAnswers
<1>3. ASSUME NEW p \in Peers, NEW e, db' = [db EXCEPT ![p] = e], senior[p] \in Peers,
             e.attached = db[p].attached, e.backorders = db[p].backorders,
             e = db[p] \/ (db[p].attached => e.rescanPending)
      PROVE  BudgetStep
  <2>1. p = FirstSenior => e.backorders = {}
    BY <1>3, BudgetFacts
  <2>2. Settled(p, e, faults')
    <3>1. CASE e = db[p]
      BY <1>1, <3>1, BudgetFacts
    <3>2. CASE e.rescanPending
      BY <3>2 DEF Settled
    <3>3. db[p].attached
      BY <1>3, BudgetFacts
    <3> QED
      BY <1>3, <3>1, <3>2, <3>3
  <2> QED
    BY <1>1, <1>2, <1>3, <2>1, <2>2, OneLogChanges
<1>4. CASE db' = db
  BY <1>1, <1>2, <1>4, NoLogChanges
<1>5. ASSUME NEW b \in beacons, BeaconDataChanged(b), db' # db
      PROVE  BudgetStep
  <2> DEFINE e == SeniorDatabaseStateInfoChanged(db[b.to], b.info)
  <2>1. b.to \in Peers /\ b.from \in Peers
    BY DEF BudgetInvariant, ReignInvariant, EverythingComesFromASenior, TypeOK, Beacons
  <2>2. senior[b.to] \in Peers /\ db' = [db EXCEPT ![b.to] = e]
    BY <1>5, <2>1 DEF BeaconDataChanged
  <2>3. db[b.to] \in DatabaseStates
    BY <2>1, BudgetFacts
  <2>4. e.attached = db[b.to].attached /\ (e = db[b.to] \/ (db[b.to].attached => e.rescanPending))
    BY <2>3, InfoChangedSettles
  <2>5. e.backorders = db[b.to].backorders
    BY <2>3, InfoChangedFields
  <2> HIDE DEF e
  <2> QED
    BY <1>3, <2>1, <2>2, <2>4, <2>5
<1>6. ASSUME NEW m \in multicasts, HandleJuniorUpdate(m), db' # db
      PROVE  BudgetStep
  <2> DEFINE e == AddDatabaseUpdateToUpdateLog(db[m.to], m.up, FALSE)
  <2>1. m.to \in Peers /\ m.from \in Peers
    BY DEF BudgetInvariant, ReignInvariant, EverythingComesFromASenior, TypeOK, Multicasts
  <2>2. senior[m.to] \in Peers /\ db' = [db EXCEPT ![m.to] = e]
    BY <1>6, <2>1 DEF HandleJuniorUpdate
  <2>3. db[m.to] \in DatabaseStates
    BY <2>1, BudgetFacts
  <2>4. e.attached = db[m.to].attached /\ (db[m.to].attached => e.rescanPending)
    BY <2>3, AddSettles
  <2>5. e.backorders = db[m.to].backorders
    BY <2>3, AddFields
  <2> HIDE DEF e
  <2> QED
    BY <1>3, <2>1, <2>2, <2>4, <2>5
<1>7. db' = db \/ (\E b \in beacons : BeaconDataChanged(b))
        \/ (\E m \in multicasts : HandleJuniorUpdate(m))
  BY DEF SendBeacon
<1> QED
  BY <1>4, <1>5, <1>6, <1>7

(* The senior peer answers with its database, unless it fails to save it.  *)
LEMMA AnswersSettle ==
  ASSUME BudgetInvariant, NEW r \in requests, HandleBackOrderRequest(r)
  PROVE  BudgetStep
<1>1. db' = db /\ senior' = senior /\ alive' = alive
  BY DEF HandleBackOrderRequest
<1>2. faults \in Nat
  BY DEF BudgetInvariant, ReignInvariant, EverythingComesFromASenior, TypeOK
<1>3. /\ faults' \in {faults, faults + 1}
      /\ \A x \in replies' \ replies :
           \/ x.id = r.id /\ x.ups = GetDatabaseUpdateByID(db[r.to], r.id)
           \/ faults' = faults + 1
  BY DEF HandleBackOrderRequest, Fault
<1>4. GetDatabaseUpdateByID(db[r.to], FULL) # {}
  BY DEF GetDatabaseUpdateByID
<1>5. FullAnswers
  BY <1>2, <1>3, <1>4 DEF FullAnswers
<1>6. faults' \in Nat /\ faults <= faults'
  BY <1>2, <1>3
<1> QED
  BY <1>1, <1>5, <1>6, NoLogChanges

(* What a junior waits for schedules a rescan, is ordered in another form, *)
(* or is lost to a fault.                                                  *)
LEMMA RepliesSettle ==
  ASSUME BudgetInvariant, NEW r \in replies, BackOrderResultReceived(r)
  PROVE  BudgetStep
<1> DEFINE p == r.to
           s == senior[p]
           key == <<r.from, r.id>>
           d == [db[p] EXCEPT !.backorders = @ \ {key}]
           wanted == NotOnOrder(d, s, {FULL})
<1>1. p \in Peers /\ r.from = FirstSenior /\ key \in db[p].backorders
  BY TrafficTypes DEF BudgetInvariant, ReignInvariant, NothingIsAheadOfTheSenior,
     BackOrdersAreUnderWay, OneAnswerPerBackOrder
<1>2. /\ db[p] \in DatabaseStates /\ p # FirstSenior /\ faults \in Nat
      /\ s = r.from /\ ~IAmTheSeniorPeer(p) /\ db[p].attached
  <2>1. db[p].backorders # {}
    BY <1>1
  <2>2. s # NoPeer
    BY <1>1, <2>1 DEF BudgetInvariant, ReignInvariant, EverythingComesFromASenior,
       UnattachedPeersAreBlank, NewDatabaseState
  <2> QED
    BY <1>1, <2>1, <2>2, BudgetFacts
<1>3. d \in DatabaseStates /\ d.attached
  BY <1>2 DEF DatabaseStates
<1>4. senior' = senior /\ alive' = alive /\ replies' \subseteq replies
  <2>1. senior' = senior /\ alive' = alive /\ replies' = replies \ {r}
    BY ZenonT(60) DEF BackOrderResultReceived
  <2> QED
    BY <2>1
<1>5. \/ r.id = FULL /\ r.ups = {} /\ db' = [db EXCEPT ![p] = d] /\ faults' = faults
      \/ /\ \E up \in r.ups :
              db' = [db EXCEPT ![p] = ScheduleLogContentsRescan(JuniorReplaced(d, up))]
         /\ faults' = faults
      \/ /\ \E c \in Contents : db' = [db EXCEPT ![p] = [d EXCEPT !.contents = c]]
         /\ faults' = faults + 1
      \/ /\ \E up \in r.ups :
              db' = [db EXCEPT ![p] = AddDatabaseUpdateToUpdateLog(d, up, FALSE)]
         /\ faults' = faults
      \/ \E placed \in PossibleOrders(wanted) :
           /\ RequestBackOrders(p, d, wanted, placed)
           /\ db' = [db EXCEPT ![p] = OnOrder(d, s, placed)]
  BY <1>1, <1>2, ZenonT(60) DEF BackOrderResultReceived, Fault
<1>6. ASSUME NEW e, db' = [db EXCEPT ![p] = e], e.attached, faults' \in {faults, faults + 1},
             e.rescanPending \/ e.backorders # {} \/ faults' > 0
      PROVE  BudgetStep
  <2>1. Settled(p, e, faults')
    BY <1>2, <1>6 DEF Settled
  <2>2. e.attached = TRUE /\ db[p].attached = TRUE
    <3>1. db[p].attached \in BOOLEAN
      BY <1>2 DEF DatabaseStates
    <3> QED
      BY <1>2, <1>6, <3>1
  <2>3. faults' \in Nat /\ faults <= faults'
    BY <1>2, <1>6
  <2>4. p # FirstSenior
    BY <1>2
  <2> HIDE DEF p
  <2> QED
    BY <1>1, <1>4, <1>6, <2>1, <2>2, <2>3, <2>4, OneLogChanges
<1> HIDE DEF d
<1>7. CASE r.id = FULL /\ r.ups = {} /\ db' = [db EXCEPT ![p] = d] /\ faults' = faults
  BY <1>2, <1>3, <1>6, <1>7 DEF BudgetInvariant, OrdersAreMet
<1>8. ASSUME NEW up \in r.ups, faults' = faults,
             db' = [db EXCEPT ![p] = ScheduleLogContentsRescan(JuniorReplaced(d, up))]
      PROVE  BudgetStep
  <2> DEFINE e == ScheduleLogContentsRescan(JuniorReplaced(d, up))
  <2>1. e.attached /\ e.rescanPending
    BY <1>3 DEF ScheduleLogContentsRescan, JuniorReplaced, DatabaseStates
  <2> HIDE DEF e
  <2> QED
    BY <1>6, <1>8, <2>1 DEF e
<1>9. ASSUME NEW c \in Contents, faults' = faults + 1,
             db' = [db EXCEPT ![p] = [d EXCEPT !.contents = c]]
      PROVE  BudgetStep
  <2> DEFINE e == [d EXCEPT !.contents = c]
  <2>1. e.attached
    BY <1>3 DEF DatabaseStates
  <2>2. faults' > 0
    BY <1>2, <1>9
  <2> HIDE DEF e
  <2> QED
    BY <1>6, <1>9, <2>1, <2>2 DEF e
<1>10. ASSUME NEW up \in r.ups, faults' = faults,
              db' = [db EXCEPT ![p] = AddDatabaseUpdateToUpdateLog(d, up, FALSE)]
       PROVE  BudgetStep
  <2> DEFINE e == AddDatabaseUpdateToUpdateLog(d, up, FALSE)
  <2>1. e.attached = d.attached /\ (d.attached => e.rescanPending)
    BY <1>3, AddSettles
  <2> HIDE DEF e
  <2> QED
    BY <1>3, <1>6, <1>10, <2>1 DEF e
<1>11. ASSUME NEW placed \in PossibleOrders(wanted), RequestBackOrders(p, d, wanted, placed),
              db' = [db EXCEPT ![p] = OnOrder(d, s, placed)]
       PROVE  BudgetStep
  <2> DEFINE e == OnOrder(d, s, placed)
  <2>1. e.backorders = d.backorders \cup ({s} \X placed)
    BY <1>3, OnOrderFields
  <2>2. e.attached
    BY <1>3 DEF OnOrder, DatabaseStates
  <2>3. faults' \in {faults, faults + 1} /\ (placed = wanted \/ faults' > 0)
    BY <1>2, <1>11 DEF RequestBackOrders, Fault
  <2>4. <<s, FULL>> \in d.backorders \/ FULL \in wanted
    BY DEF NotOnOrder
  <2>5. placed = wanted => e.backorders # {}
    <3>1. \A x \in placed : <<s, x>> \in {s} \X placed
      OBVIOUS
    <3> HIDE DEF e, wanted
    <3> QED BY <2>1, <2>4, <3>1
  <2> HIDE DEF e, wanted
  <2> QED
    BY <1>6, <1>11, <2>2, <2>3, <2>5 DEF e
<1> QED
  BY <1>5, <1>7, <1>8, <1>9, <1>10, <1>11

(* A session breaks only by a fault.                                       *)
LEMMA SessionEndSettles ==
  ASSUME BudgetInvariant, NEW p \in Peers, NEW q \in Peers, UnicastSessionEnds(p, q)
  PROVE  BudgetStep
<1> DEFINE e == BackOrdersFailed(db[p], q)
           f == BackOrdersFailed(db[q], p)
<1>1. /\ p # q /\ db \in [Peers -> DatabaseStates] /\ faults \in Nat
      /\ db[p] \in DatabaseStates /\ db[q] \in DatabaseStates
  BY BudgetFacts, OneDatabase DEF UnicastSessionEnds, BudgetInvariant, ReignInvariant,
     EverythingComesFromASenior, TypeOK
<1>2. /\ senior' = senior /\ replies' \subseteq replies /\ faults' = faults + 1
      /\ db' = [db EXCEPT ![p] = e, ![q] = f]
  BY <1>1 DEF UnicastSessionEnds, Fault
<1>3. /\ e.attached = db[p].attached /\ f.attached = db[q].attached
      /\ e.backorders \subseteq db[p].backorders /\ f.backorders \subseteq db[q].backorders
  BY <1>1 DEF BackOrdersFailed, DatabaseStates
<1> HIDE DEF e, f
<1>4. db'[p] = e /\ db'[q] = f /\ \A x \in Peers \ {p, q} : db'[x] = db[x]
  BY <1>1, <1>2
<1>5. \A x \in Peers : /\ db'[x].attached = db[x].attached
                       /\ db'[x].backorders \subseteq db[x].backorders
  BY <1>3, <1>4
<1>6. OrdersAreMet'
  BY <1>1, <1>2, <1>5, SeniorAssumption DEF BudgetInvariant, OrdersAreMet
<1>7. LogsFitTheBudget'
  BY <1>1, <1>2 DEF LogsFitTheBudget
<1> QED
  BY <1>6, <1>7 DEF BudgetStep

(* Every step of the reign leaves every log within the budget, or with a   *)
(* reason to be rescanned.                                                 *)
LEMMA EveryStepSettles ==
  BudgetInvariant /\ [ReignNext]_vars => BudgetInvariant'
<1> SUFFICES ASSUME BudgetInvariant, [ReignNext]_vars PROVE BudgetInvariant'
  OBVIOUS
<1>1. ReignInvariant'
  BY EveryStepOfTheReign DEF BudgetInvariant
<1>2. ASSUME NEW p \in Peers,
             \/ PeerHasComeOnline(p) \/ HandleResetRequest(p)
             \/ HandleReplaceOrUpdateRequest(p) \/ HandleFailingRequest(p)
             \/ RescanUpdateLogIfNecessary(p) \/ SetBeaconData(p)
      PROVE  BudgetStep
  BY <1>2, ComingOnlineSettles, RequestsSettle, PulsesSettle, ContentsAssumption
  DEF HandleResetRequest, HandleReplaceOrUpdateRequest
<1>3. ASSUME NEW p \in Peers, NEW q \in Peers, SendBeacon(p, q) \/ UnicastSessionEnds(p, q)
      PROVE  BudgetStep
  BY <1>3, DeliveriesSettle, SessionEndSettles
<1>4. ASSUME NEW b \in beacons, BeaconDataChanged(b) PROVE BudgetStep
  BY <1>4, DeliveriesSettle
<1>5. ASSUME NEW m \in multicasts, HandleJuniorUpdate(m) PROVE BudgetStep
  BY <1>5, DeliveriesSettle
<1>6. ASSUME NEW r \in requests, HandleBackOrderRequest(r) PROVE BudgetStep
  BY <1>6, AnswersSettle
<1>7. ASSUME NEW r \in replies, BackOrderResultReceived(r) PROVE BudgetStep
  BY <1>7, RepliesSettle
<1>8. ASSUME UNCHANGED vars PROVE BudgetStep
  <2>1. /\ db' = db /\ senior' = senior /\ alive' = alive
        /\ replies' = replies /\ faults' = faults
    BY <1>8 DEF vars
  <2>2. faults' \in Nat /\ faults <= faults' /\ FullAnswers
    BY <2>1, SeniorAssumption, BudgetFacts DEF FullAnswers
  <2> QED
    BY <2>1, <2>2, NoLogChanges
<1>9. BudgetStep
  BY <1>2, <1>3, <1>4, <1>5, <1>6, <1>7, <1>8 DEF ReignNext
<1> QED
  BY <1>1, <1>9 DEF BudgetInvariant, BudgetStep

(* The logs begin empty.                                                   *)
LEMMA BudgetBegins ==
  Init => BudgetInvariant
<1> SUFFICES ASSUME Init PROVE BudgetInvariant
  OBVIOUS
<1>1. ReignInvariant
  BY ReignBegins
<1>2. \A p \in Peers : /\ db[p].backorders = {} /\ ~db[p].seniorReceived
                       /\ senior[p] = NoPeer
  BY DEF Init, NewDatabaseState
<1>3. replies = {} /\ alive = Peers
  BY DEF Init
<1>4. LogsFitTheBudget
  BY <1>2, <1>3, NoPeerAssumption DEF LogsFitTheBudget, IAmTheSeniorPeer
<1> QED
  BY <1>1, <1>2, <1>3, <1>4, SeniorAssumption DEF BudgetInvariant, OrdersAreMet

(* While one peer stays senior, no peer's log is left over its budget      *)
(* (_maxPayloadBytesInLog): when nothing more keeps a junior from trimming *)
(* it, a rescan is pending, unless something failed.                       *)
THEOREM LogsStayWithinBudget ==
  ReignSpec => []LogsFitTheBudget
<1>1. BudgetInvariant => LogsFitTheBudget
  BY DEF BudgetInvariant
<1> QED
  BY BudgetBegins, EveryStepSettles, <1>1, PTL DEF ReignSpec
===============================================================================

------------------------- MODULE PZGDatabaseState -------------------------
(***************************************************************************)
(* One peer's record of one replicated database (class PZGDatabaseState)   *)
(* and what its methods do to that record.  Nothing here has a step of its *)
(* own: DatabaseReplication turns these operators into actions.            *)
(*                                                                         *)
(* What is abstracted.  A database's contents and its running checksum are *)
(* one value, a member of Contents: checksums do not collide and do not    *)
(* drift.  An update carries the contents it was made from (pre) and the   *)
(* contents the senior peer got (post); executing it on `pre' gives `post' *)
(* because the application's update code has to be deterministic.  A       *)
(* payload counts one byte, and a RESET update has no payload.             *)
(***************************************************************************)
EXTENDS Integers, FiniteSets, FiniteSetsExt

CONSTANTS
  Peers,                \* peer IDs: natural numbers, the lower the more senior
  Contents,             \* what a database may contain
  DefaultContents,      \* what ResetLocalDatabaseToDefault() leaves
  MaxPayloadBytesInLog, \* the update log's budget, in payloads
  MaxStateID            \* bound: no update past this state ID is requested

ASSUME PeersAssumption == Peers \subseteq Nat
ASSUME ContentsAssumption == DefaultContents \in Contents
ASSUME BoundsAssumption == MaxPayloadBytesInLog \in Nat /\ MaxStateID \in Nat

(* The code's (uint64)-1, in both its uses: DATABASE_UPDATE_ID_FULL_UPDATE *)
(* as the ID of a back-order, "my log is empty" as an oldest ID.           *)
FULL == -1
NoOldestID == -1

StateIDs == 0 .. MaxStateID

Updates == [id : StateIDs, pre : Contents, post : Contents, payload : BOOLEAN]

(* What a beacon says of a database.  The checksum it also carries is read *)
(* by no receiver (SeniorDatabaseStateInfoChanged ignores it).             *)
StateInfos == [stateID : StateIDs, oldest : StateIDs \cup {NoOldestID}]

Logs == UNION {[ids -> Updates] : ids \in SUBSET (1 .. MaxStateID)}

DatabaseStates ==
  [ attached       : BOOLEAN,                    \* _master->IAmFullyAttached()
    stateID        : StateIDs,                   \* _localDatabaseStateID
    contents       : Contents,                   \* the database, and _dbChecksum
    updateLog      : Logs,                       \* _updateLog
    totalBytes     : Int,                        \* _totalPayloadBytesInLog
    seniorStateID  : StateIDs,                   \* _seniorDatabaseStateID
    seniorOldest   : StateIDs \cup {NoOldestID}, \* _seniorOldestIDInLog
    seniorReceived : BOOLEAN,                    \* _seniorDatabaseStateReceived
    firstUnsent    : Nat,                        \* _firstUnsentUpdateID
    rescanPending  : BOOLEAN,                    \* _rescanLogPending
    backorders     : SUBSET (Peers \X (StateIDs \cup {FULL})) ]  \* _backorders

NewDatabaseState ==
  [ attached |-> FALSE, stateID |-> 0, contents |-> DefaultContents,
    updateLog |-> [k \in {} |-> {}], totalBytes |-> 0,
    seniorStateID |-> 0, seniorOldest |-> NoOldestID, seniorReceived |-> FALSE,
    firstUnsent |-> 0, rescanPending |-> FALSE, backorders |-> {} ]

---------------------------------------------------------------------------
(* The update log.                                                         *)

Bytes(up) == IF up.payload THEN 1 ELSE 0

(* Payload bytes of the log's entries whose IDs are in S.                  *)
BytesIn(log, S) == Cardinality({k \in DOMAIN log \cap S : log[k].payload})

LastKey(log) == IF DOMAIN log = {} THEN 0 ELSE Max(DOMAIN log)

FirstKey(log) == IF DOMAIN log = {} THEN NoOldestID ELSE Min(DOMAIN log)

(* Mutant: a peer that has nothing left to execute sees no need to rescan. *)
RescanOnlyWhenBehind(d) ==
  [d EXCEPT !.rescanPending =
     @ \/ (d.attached /\ (LastKey(d.updateLog) > d.stateID \/ d.seniorStateID > d.stateID))]

ScheduleLogContentsRescan(d) ==
  [d EXCEPT !.rescanPending = @ \/ d.attached]

(* Put() replaces an entry with the same ID, and the replaced entry's      *)
(* bytes stay in the total.                                                *)
AddDatabaseUpdateToUpdateLog(d, up, iAmSenior) ==
  ScheduleLogContentsRescan(
    [d EXCEPT
      !.updateLog = [k \in DOMAIN @ \cup {up.id} |-> IF k = up.id THEN up ELSE @[k]],
      !.totalBytes = @ + Bytes(up),
      !.seniorOldest =
        IF iAmSenior /\ DOMAIN d.updateLog = {} THEN up.id ELSE @])

(* Mutant: a payload is charged for updates that have none.                *)
RemovalChargesEveryUpdate(d, ids, iAmSenior) ==
  [d EXCEPT
    !.updateLog = [k \in DOMAIN @ \ ids |-> @[k]],
    !.totalBytes = @ - Cardinality(DOMAIN d.updateLog \cap ids),
    !.seniorOldest =
      IF iAmSenior /\ ids # {} /\ DOMAIN d.updateLog \ ids = {} THEN NoOldestID ELSE @]

RemoveDatabaseUpdatesFromUpdateLog(d, ids, iAmSenior) ==
  [d EXCEPT
    !.updateLog = [k \in DOMAIN @ \ ids |-> @[k]],
    !.totalBytes = @ - BytesIn(d.updateLog, ids),
    !.seniorOldest =
      IF iAmSenior /\ ids # {} /\ DOMAIN d.updateLog \ ids = {} THEN NoOldestID ELSE @]

(* The trimming loop that ends a rescan drops the oldest entry while the   *)
(* budget is exceeded, another entry is left, and the entry is not in      *)
(* `needed'.  Entry k goes if that held for k and for all entries before.  *)
Trimmed(d, needed) ==
  {k \in DOMAIN d.updateLog :
     /\ \E j \in DOMAIN d.updateLog : j > k
     /\ d.totalBytes - BytesIn(d.updateLog, 0 .. (k - 1)) > MaxPayloadBytesInLog
     /\ \A j \in DOMAIN d.updateLog : j <= k => j \notin needed}

TrimUpdateLog(d, needed, iAmSenior) ==
  RemoveDatabaseUpdatesFromUpdateLog(d, Trimmed(d, needed), iAmSenior)

---------------------------------------------------------------------------
(* The senior peer's side.                                                 *)

GetDatabaseStateInfo(d) == [stateID |-> d.stateID, oldest |-> FirstKey(d.updateLog)]

(* A requested change succeeds: the update is logged, executed, completed. *)
SeniorUpdateCompleted(d, newContents, hasPayload) ==
  LET up == [id |-> d.stateID + 1, pre |-> d.contents, post |-> newContents,
             payload |-> hasPayload]
      logged == AddDatabaseUpdateToUpdateLog(d, up, TRUE)
  IN  [logged EXCEPT !.contents = newContents,
                     !.stateID = d.stateID + 1,
                     !.seniorStateID = d.stateID + 1]

(* The application refuses or fails a requested change.  The log entry is  *)
(* taken back; whatever the attempt did to the contents is not.            *)
SeniorUpdateRolledBack(d, leftContents) ==
  LET up == [id |-> d.stateID + 1, pre |-> d.contents, post |-> d.contents,
             payload |-> FALSE]
      logged == AddDatabaseUpdateToUpdateLog(d, up, TRUE)
  IN  [RemoveDatabaseUpdatesFromUpdateLog(logged, {up.id}, TRUE)
         EXCEPT !.contents = leftContents]

UnsentUpdates(d) == {k \in DOMAIN d.updateLog : k >= d.firstUnsent}

(* RescanUpdateLog() on the senior peer, after everything unsent went out. *)
SeniorRescanned(d) ==
  TrimUpdateLog(
    [d EXCEPT !.rescanPending = FALSE,
              !.firstUnsent = IF UnsentUpdates(d) = {} THEN @
                              ELSE Max(UnsentUpdates(d)) + 1],
    {}, TRUE)

(* Mutant: an answer carries the database's checksum of now, not that of   *)
(* the update.                                                             *)
AnswerWithCurrentChecksum(d, id) ==
  IF id = FULL
    THEN {[id |-> d.stateID, pre |-> d.contents, post |-> d.contents, payload |-> TRUE]}
    ELSE {[d.updateLog[k] EXCEPT !.post = d.contents] : k \in DOMAIN d.updateLog \cap {id}}

(* The answer to a back-order: the whole database as a REPLACE update, or  *)
(* the log's entry.  No update is an empty set.                            *)
GetDatabaseUpdateByID(d, id) ==
  IF id = FULL
    THEN {[id |-> d.stateID, pre |-> d.contents, post |-> d.contents, payload |-> TRUE]}
    ELSE {d.updateLog[k] : k \in DOMAIN d.updateLog \cap {id}}

---------------------------------------------------------------------------
(* A junior peer's side; s is the peer it takes for senior.                *)

GetTargetDatabaseStateID(d) ==
  IF LastKey(d.updateLog) > d.seniorStateID THEN LastKey(d.updateLog) ELSE d.seniorStateID

IsAwaitingFullDatabaseResendReply(d, s) == <<s, FULL>> \in d.backorders

StillNeededUpdates(d, s) ==
  IF IsAwaitingFullDatabaseResendReply(d, s) THEN {}
    ELSE (d.stateID + 1) .. GetTargetDatabaseStateID(d)

SeniorDatabaseStateInfoChanged(d, info) ==
  IF info.stateID = d.seniorStateID /\ info.oldest = d.seniorOldest THEN d
    ELSE ScheduleLogContentsRescan(
           [d EXCEPT !.seniorReceived = TRUE,
                     !.seniorStateID = info.stateID,
                     !.seniorOldest = info.oldest])

(* The contents once every logged update up to n has been executed.        *)
ContentsAt(d, n) == IF n = d.stateID THEN d.contents ELSE d.updateLog[n].post

(* Updates stateID+1 .. n are logged and each was made from the contents   *)
(* that the one before it leaves, so the replay loop can get to n.         *)
CanReplayTo(d, n) ==
  /\ (d.stateID + 1) .. n \subseteq DOMAIN d.updateLog
  /\ \A k \in (d.stateID + 1) .. n : d.updateLog[k].pre = ContentsAt(d, k - 1)

ReplayedTo(d, n) == [d EXCEPT !.stateID = n, !.contents = ContentsAt(d, n)]

(* IDs the junior puts on back-order when the log lacks update n+1.        *)
MissingUpdates(d, n) ==
  IF d.seniorOldest = NoOldestID \/ n + 1 < d.seniorOldest THEN {FULL}
    ELSE ((n + 1) .. GetTargetDatabaseStateID(d)) \ DOMAIN d.updateLog

NotOnOrder(d, s, ids) == {i \in ids : <<s, i>> \notin d.backorders}

OnOrder(d, s, ids) == [d EXCEPT !.backorders = @ \cup ({s} \X ids)]

(* Mutant: the state ID of a full database is taken from the last beacon.  *)
ReplacedAtBeaconState(d, up) ==
  [d EXCEPT !.stateID = d.seniorStateID, !.contents = up.post]

(* JuniorExecuteDatabaseReplace() with a full database that checks out.    *)
JuniorReplaced(d, up) == [d EXCEPT !.stateID = up.id, !.contents = up.post]

(* The end of a session to peer q: UnregisterMyself() fails every          *)
(* back-order placed through it.  A failed single update asks for the full *)
(* database through the session that is ending, which fails that request   *)
(* too before it is done, so that no back-order from q is left.            *)
BackOrdersFailed(d, q) == [d EXCEPT !.backorders = {b \in @ : b[1] # q}]

---------------------------------------------------------------------------
(* What all of the above preserves: entries are filed under their own IDs, *)
(* each leads to a state in `held', and the byte count covers the log.     *)
SoundDatabaseState(d, held) ==
  /\ d \in DatabaseStates
  /\ \A k \in DOMAIN d.updateLog :
       d.updateLog[k].id = k /\ <<k, d.updateLog[k].post>> \in held
  /\ BytesIn(d.updateLog, 1 .. MaxStateID) <= d.totalBytes
===========================================================================

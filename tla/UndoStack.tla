----------------------------- MODULE UndoStack -----------------------------
(***************************************************************************)
(* The message-tree database with undo: MessageTreeDatabaseObject and its  *)
(* subclass UndoStackMessageTreeDatabaseObject, on the senior peer, and a  *)
(* junior peer that executes what the senior peer recorded.                *)
(*                                                                         *)
(* A request changes the tree through MUSCLE's data nodes, whose change    *)
(* callbacks append to a do-message for the junior peers and prepend the   *)
(* opposite to an undo-message.  The pair goes into the update log.  The   *)
(* undo and redo stacks are lists of ranges of that log.                   *)
(*                                                                         *)
(* What is abstracted.  The tree is one level of plain nodes and indexed   *)
(* nodes with numbered children.  A client's stack nodes are one value and *)
(* no part of the checksum.  Labels, op-tags and the flags that turn an    *)
(* upload into a no-op are left out.  How updates reach a junior peer is   *)
(* DatabaseReplication's subject: here it executes each one at once, or    *)
(* takes the whole tree when the update's checksum says it has to.         *)
(***************************************************************************)
EXTENDS Integers, Sequences, FiniteSets, SequencesExt

CONSTANTS
  Clients,        \* undo keys of the clients
  Lists,          \* names of the indexed nodes
  Values,         \* payloads of the plain node; items hold their uploader
  Workloads,      \* bounds, of which a behaviour follows one: the kinds of
                  \* requests made, by whom, how many, and how deeply nested
  NameSum(_),     \* String::CalculateChecksum() of the name of a path's node
  PayloadSum(_),  \* Message::CalculateChecksum() of a payload
  MaxLog,         \* the update log's budget, in updates
  MaxItems        \* bound: items a list ever had

VARIABLES
  workload,  \* the one of the Workloads that is followed
  tree,      \* the senior peer's nodes, indices and stacks
  checksum,  \* _checksum
  stateID,   \* GetCurrentDatabaseStateID()
  log,       \* the update log: the message pairs by state ID
  leftOver,  \* _assembledJuniorMessage, _assembledJuniorUndoMessage
  replica,   \* a junior peer's tree and checksum
  past       \* history: the contents of the states that undo can get to

vars == <<workload, tree, checksum, stateID, log, leftOver, replica, past>>

None == "none"
NoKey == -1
Empty == "empty"
NoStack == [nest |-> 0, seqs |-> <<>>]

DocPath == <<"doc">>
IsItem(p) == Len(p) = 2
Children(t, l) == {p \in DOMAIN t.data : IsItem(p) /\ p[1] = l}

(* What undo and redo are about: all but the stacks.                       *)
Contents(t) == [data |-> t.data, index |-> t.index]

---------------------------------------------------------------------------
(* Checksums add up what the names, the payloads and the index entries     *)
(* contribute; where in an index an entry is does not count.               *)

SumOver(S, f(_)) == FoldLeft(LAMBDA n, e : n + f(e), 0, SetToSeq(S))

NodeSum(t, p) == NameSum(p) + PayloadSum(t.data[p])

IndexSum(l, s) == FoldLeft(LAMBDA n, key : n + NameSum(<<l, key>>), 0, s)

CalculateChecksum(t) ==
  SumOver(DOMAIN t.data, LAMBDA p : NodeSum(t, p))
    + SumOver(Lists, LAMBDA l : IndexSum(l, t.index[l]))

---------------------------------------------------------------------------
(* An update under way: the tree, the running checksum, the two messages   *)
(* being assembled, whether the update being handled is an interim one     *)
(* (_interimUpdateNestCount), and whether all went well so far.            *)

Transaction(t, sum) ==
  [tree |-> t, sum |-> sum, do |-> <<>>, undo |-> <<>>, interim |-> FALSE, ok |-> TRUE]

NodeUpdate(p, v, interim) == [op |-> "set", path |-> p, payload |-> v, interim |-> interim]
IndexInsert(l, i, key) == [op |-> "insert", path |-> <<l>>, index |-> i, key |-> key]
IndexRemove(l, i, key) == [op |-> "remove", path |-> <<l>>, index |-> i, key |-> key]
StackUpdate(which, c, s) == [op |-> "stack", which |-> which, client |-> c, stack |-> s]

(* Mutant: the do-message is assembled in the order of the undo-message.  *)
RecordedInUndoOrder(x, do, undo) ==
  [x EXCEPT !.do = <<do>> \o @, !.undo = <<undo>> \o @]

(* SeniorRecordNodeUpdateMessage(), SeniorRecordNodeIndexUpdateMessage().  *)
Recorded(x, do, undo) == [x EXCEPT !.do = Append(@, do), !.undo = <<undo>> \o @]

(* MessageTreeNodeUpdated(): a node is created, overwritten or removed.    *)
MessageTreeNodeUpdated(x, p, new) ==
  LET had == p \in DOMAIN x.tree.data
      old == IF had THEN x.tree.data[p] ELSE None
      nodes == IF new = None THEN DOMAIN x.tree.data \ {p} ELSE DOMAIN x.tree.data \cup {p}
      delta == (IF new = None THEN 0 ELSE PayloadSum(new))
                 - (IF had THEN PayloadSum(old) ELSE 0)
                 + (IF ~had THEN NameSum(p) ELSE IF new = None THEN -NameSum(p) ELSE 0)
  IN  Recorded([x EXCEPT !.tree.data = [q \in nodes |-> IF q = p THEN new ELSE @[q]],
                         !.sum = @ + delta],
               NodeUpdate(p, new, x.interim), NodeUpdate(p, old, x.interim))

(* Mutant: a removed index entry stays in the running checksum.            *)
RemovalKeepsChecksum(x, l, insert, i, key) ==
  IF insert
    THEN Recorded([x EXCEPT !.tree.index[l] = InsertAt(@, i + 1, key), !.sum = @ + NameSum(<<l, key>>)],
                  IndexInsert(l, i, key), IndexRemove(l, i, key))
    ELSE Recorded([x EXCEPT !.tree.index[l] = RemoveAt(@, i + 1)],
                  IndexRemove(l, i, key), IndexInsert(l, i, key))

(* MessageTreeNodeIndexChanged(): an entry goes in or out at position i.   *)
MessageTreeNodeIndexChanged(x, l, insert, i, key) ==
  IF insert
    THEN Recorded([x EXCEPT !.tree.index[l] = InsertAt(@, i + 1, key), !.sum = @ + NameSum(<<l, key>>)],
                  IndexInsert(l, i, key), IndexRemove(l, i, key))
    ELSE Recorded([x EXCEPT !.tree.index[l] = RemoveAt(@, i + 1), !.sum = @ - NameSum(<<l, key>>)],
                  IndexRemove(l, i, key), IndexInsert(l, i, key))

(* A client's nodes below "undo/" or "redo/" change.                       *)
SetStack(x, which, c, s) ==
  IF x.tree[which][c] = s THEN x
    ELSE Recorded([x EXCEPT !.tree[which][c] = s],
                  StackUpdate(which, c, s), StackUpdate(which, c, x.tree[which][c]))

---------------------------------------------------------------------------
(* MUSCLE's data nodes, as this code uses them.                            *)

(* 0-based position of a key in an index; the length when it is not there. *)
IndexOf(s, key) == LET at == {i \in 1 .. Len(s) : s[i] = key}
                   IN  IF at = {} THEN Len(s) ELSE (CHOOSE i \in at : TRUE) - 1

InsertIndexEntryAt(x, l, i, key) ==
  IF i <= Len(x.tree.index[l]) /\ <<l, key>> \in DOMAIN x.tree.data
    THEN MessageTreeNodeIndexChanged(x, l, TRUE, i, key) ELSE x

RemoveIndexEntryAt(x, l, i) ==
  IF i < Len(x.tree.index[l])
    THEN MessageTreeNodeIndexChanged(x, l, FALSE, i, x.tree.index[l][i + 1]) ELSE x

(* Missing parents are created with an empty payload.  A new node that is  *)
(* to be indexed goes before the entry `before', or to the end.            *)
SetDataNode(x, p, v, indexed, before) ==
  LET y == IF IsItem(p) /\ <<p[1]>> \notin DOMAIN x.tree.data
             THEN MessageTreeNodeUpdated(x, <<p[1]>>, Empty) ELSE x
      z == MessageTreeNodeUpdated(y, p, v)
  IN  IF indexed
        THEN InsertIndexEntryAt(z, p[1], IndexOf(z.tree.index[p[1]], before), p[2]) ELSE z

RemoveItem(x, p) ==
  MessageTreeNodeUpdated(
    RemoveIndexEntryAt(x, p[1], IndexOf(x.tree.index[p[1]], p[2])), p, None)

(* A node goes after its children, an entry of an index before its node.   *)
RemoveDataNodes(x, p) ==
  IF p \notin DOMAIN x.tree.data THEN x
  ELSE IF IsItem(p) THEN RemoveItem(x, p)
  ELSE MessageTreeNodeUpdated(
         FoldLeft(RemoveItem, x,
                  SetToSortSeq(Children(x.tree, p[1]), LAMBDA a, b : a[2] < b[2])),
         p, None)

MoveIndexEntry(x, l, key, before) ==
  LET out == RemoveIndexEntryAt(x, l, IndexOf(x.tree.index[l], key))
  IN  InsertIndexEntryAt(out, l, IndexOf(out.tree.index[l], before), key)

---------------------------------------------------------------------------
(* The update messages.                                                    *)

(* While an undo or redo is executed, interim updates and everything about *)
(* the stacks is passed over.                                              *)
IsOkayToHandleUpdateMessage(m, inUndoRedo) ==
  inUndoRedo => m.op # "stack" /\ (m.op = "set" => ~m.interim)

HandleNodeUpdateMessage(x, m) ==
  LET y == [x EXCEPT !.interim = m.interim]
      z == IF m.payload = None THEN RemoveDataNodes(y, m.path)
             ELSE SetDataNode(y, m.path, m.payload, FALSE, NoKey)
  IN  [z EXCEPT !.interim = x.interim]

HandleNodeIndexUpdateMessage(x, m) ==
  IF m.path \notin DOMAIN x.tree.data THEN [x EXCEPT !.ok = FALSE]
  ELSE IF m.op = "insert" THEN InsertIndexEntryAt(x, m.path[1], m.index, m.key)
  ELSE RemoveIndexEntryAt(x, m.path[1], m.index)

HandleMessage(x, m, inUndoRedo) ==
  IF ~x.ok \/ ~IsOkayToHandleUpdateMessage(m, inUndoRedo) THEN x
  ELSE CASE m.op = "set" -> HandleNodeUpdateMessage(x, m)
         [] m.op = "stack" -> SetStack(x, m.which, m.client, m.stack)
         [] OTHER -> HandleNodeIndexUpdateMessage(x, m)

HandleBatch(x, msgs, inUndoRedo) ==
  FoldLeft(LAMBDA y, m : HandleMessage(y, m, inUndoRedo), x, msgs)

---------------------------------------------------------------------------
(* The stacks.                                                             *)

(* Mutant: a new sequence leaves the redo stack alone.                     *)
BeginKeepsRedo(x, c) ==
  LET s == x.tree.undo[c]
  IN  IF s.nest > 0 THEN SetStack(x, "undo", c, [s EXCEPT !.nest = @ + 1])
        ELSE SetStack(x, "undo", c,
                      [nest |-> 1, seqs |-> Append(s.seqs, [start |-> stateID + 1, end |-> 0])])

BeginSequence(x, c) ==
  LET s == x.tree.undo[c]
  IN  IF s.nest > 0 THEN SetStack(x, "undo", c, [s EXCEPT !.nest = @ + 1])
        ELSE SetStack(SetStack(x, "redo", c, NoStack), "undo", c,
                      [nest |-> 1, seqs |-> Append(s.seqs, [start |-> stateID + 1, end |-> 0])])

EndSequence(x, c) ==
  LET s == x.tree.undo[c]
  IN  IF s.nest = 0 THEN [x EXCEPT !.ok = FALSE]
      ELSE IF s.nest > 1 THEN SetStack(x, "undo", c, [s EXCEPT !.nest = @ - 1])
      ELSE SetStack(x, "undo", c,
                    [nest |-> 0, seqs |-> [s.seqs EXCEPT ![Len(s.seqs)].end = stateID + 1]])

(* Mutant: a redo goes through the updates the way an undo does.           *)
OwnMessagesLastFirst(c, first, last, isRedo) ==
  FlattenSeq([i \in 1 .. (last - first + 1) |->
    LET up == log[last - i + 1]
    IN  IF up.client # c THEN <<>> ELSE IF isRedo THEN up.do ELSE up.undo])

(* The messages that undo (redo) the updates first..last of client c: the  *)
(* last update first (the first first).  Other clients' are passed over.   *)
OwnMessages(c, first, last, isRedo) ==
  FlattenSeq([i \in 1 .. (last - first + 1) |->
    LET up == log[IF isRedo THEN first + i - 1 ELSE last - i + 1]
    IN  IF up.client # c THEN <<>> ELSE IF isRedo THEN up.do ELSE up.undo])

Pop(s) == IF Len(s.seqs) = 1 THEN NoStack ELSE [nest |-> 0, seqs |-> Front(s.seqs)]

UndoOrRedo(x, c, isRedo) ==
  LET from == IF isRedo THEN "redo" ELSE "undo"
      dest == IF isRedo THEN "undo" ELSE "redo"
      s == x.tree[from][c]
      top == Last(s.seqs)
  IN  IF s.seqs = <<>> \/ top.end < top.start \/ ~(top.start .. top.end \subseteq DOMAIN log)
        THEN [x EXCEPT !.ok = FALSE]
        ELSE LET y == HandleBatch(x, OwnMessages(c, top.start, top.end, isRedo), TRUE)
             IN  IF ~y.ok THEN y
                   ELSE SetStack(SetStack(y, from, c, Pop(s)), dest, c,
                                 [nest |-> 0, seqs |-> Append(y.tree[dest][c].seqs, top)])

(* The sequences at the bottom that start before the update log does go.   *)
Prune(s) ==
  LET alive == {i \in 1 .. Len(s.seqs) : s.seqs[i].start \in DOMAIN log \cup {stateID + 1}}
  IN  IF alive = {} THEN NoStack
        ELSE [s EXCEPT !.seqs = SubSeq(@, CHOOSE i \in alive : \A j \in alive : i <= j, Len(@))]

RemoveObsoleteSequences(x) ==
  IF x.ok THEN FoldLeft(LAMBDA y, c : SetStack(y, "undo", c, Prune(y.tree.undo[c])),
                        x, SetToSeq(Clients))
          ELSE x

---------------------------------------------------------------------------
(* A junior peer executes an update made from a tree whose checksum was    *)
(* `pre'.  If its own differs, or the result does, it gets the whole tree. *)
JuniorUpdate(r, up, pre, result) ==
  LET y == HandleBatch(Transaction(r.tree, r.sum), up.do, FALSE)
  IN  IF r.sum = pre /\ y.ok /\ y.sum = result.sum
        THEN [tree |-> y.tree, sum |-> y.sum]
        ELSE [tree |-> result.tree, sum |-> result.sum]

NoMessages == [do |-> <<>>, undo |-> <<>>]

(* The messages are assembled behind whatever has been left over.          *)
NewTransaction ==
  [Transaction(tree, checksum) EXCEPT !.do = leftOver.do, !.undo = leftOver.undo]

(* A successful update of the senior peer.                                 *)
Completed(z, up, juniorResult) ==
  /\ tree' = z.tree
  /\ checksum' = z.sum
  /\ stateID' = stateID + 1
  /\ log' = [k \in DOMAIN log \cup {stateID + 1} |-> IF k = stateID + 1 THEN up ELSE log[k]]
  /\ replica' = juniorResult
  /\ past' = [k \in DOMAIN past \cup {stateID + 1} |->
                IF k = stateID + 1 THEN Contents(z.tree) ELSE past[k]]

MayRequest(c) == c \in workload.clients /\ stateID < workload.updates

(* SeniorUpdate() of client c's request, x being what its handling did.  A *)
(* request that fails leaves no update, and what it did before it failed   *)
(* stays done.                                                             *)
SeniorUpdate(c, x) ==
  LET z == RemoveObsoleteSequences(x)
      up == [do |-> z.do, undo |-> z.undo, client |-> c]
  IN  /\ MayRequest(c)
      /\ leftOver' = NoMessages
      /\ UNCHANGED workload
      /\ \/ z.ok /\ Completed(z, up, JuniorUpdate(replica, up, checksum, z))
         \/ /\ ~z.ok
            /\ tree' = z.tree
            /\ checksum' = z.sum
            /\ past' = IF Contents(z.tree) = Contents(tree) THEN past
                         ELSE [k \in {stateID} |-> Contents(z.tree)]
            /\ UNCHANGED <<stateID, log, replica>>

---------------------------------------------------------------------------
(* The clients' requests, as the senior peer gets them.                    *)

UploadNodeValue(c, v, interim) ==
  /\ (IF interim THEN "interim" ELSE "upload") \in workload.kinds
  /\ DocPath \in DOMAIN tree.data => tree.data[DocPath] # v
  /\ SeniorUpdate(c, HandleNodeUpdateMessage(NewTransaction, NodeUpdate(DocPath, v, interim)))

(* A path that ends with a slash: GetUnusedNodeID() names the node.  The   *)
(* names of a list's nodes are taken never to come back.                   *)
UploadIndexedNode(c, l, before) ==
  /\ "add" \in workload.kinds
  /\ tree.hint[l] < MaxItems
  /\ SeniorUpdate(c, [SetDataNode(NewTransaction, <<l, tree.hint[l]>>, c, TRUE, before)
                        EXCEPT !.tree.hint[l] = @ + 1])

(* A subtree is restored node by node: here the list and one new item.     *)
UploadNodeSubtree(c, l) ==
  /\ "subtree" \in workload.kinds
  /\ tree.hint[l] < MaxItems
  /\ SeniorUpdate(c, [SetDataNode(SetDataNode(NewTransaction, <<l>>, c, FALSE, NoKey),
                                  <<l, tree.hint[l]>>, c, TRUE, NoKey)
                        EXCEPT !.tree.hint[l] = @ + 1])

RequestDeleteNodes(c, p) ==
  /\ (IF IsItem(p) THEN "delete" ELSE "deleteList") \in workload.kinds
  /\ SeniorUpdate(c, RemoveDataNodes(NewTransaction, p))

RequestMoveIndexEntry(c, l, key, before) ==
  /\ "move" \in workload.kinds
  /\ key # before
  /\ SeniorUpdate(c, MoveIndexEntry(NewTransaction, l, key, before))

BeginUndoSequence(c) ==
  /\ "undo" \in workload.kinds
  /\ tree.undo[c].nest < workload.nest
  /\ SeniorUpdate(c, BeginSequence(NewTransaction, c))

EndUndoSequence(c) == "undo" \in workload.kinds /\ SeniorUpdate(c, EndSequence(NewTransaction, c))

RequestUndo(c) == "undo" \in workload.kinds /\ SeniorUpdate(c, UndoOrRedo(NewTransaction, c, FALSE))

RequestRedo(c) == "redo" \in workload.kinds /\ SeniorUpdate(c, UndoOrRedo(NewTransaction, c, TRUE))

(* SetToDefaultState() while the senior peer resets the database.  Every   *)
(* node goes; the callbacks assemble messages that the RESET update, which *)
(* has no payload, does not carry.  A junior peer resets its own tree.     *)
Cleared(x) ==
  FoldLeft(LAMBDA y, c : SetStack(SetStack(y, "undo", c, NoStack), "redo", c, NoStack),
           FoldLeft(RemoveDataNodes, x,
                    SetToSeq({p \in DOMAIN x.tree.data : ~IsItem(p)})),
           SetToSeq(Clients))

RequestResetDatabaseStateToDefault(c) ==
  LET z == Cleared(NewTransaction)
      r == Cleared(Transaction(replica.tree, replica.sum))
  IN  /\ "reset" \in workload.kinds
      /\ MayRequest(c)
      /\ Completed(z, [do |-> r.do, undo |-> <<>>, client |-> c],
                   [tree |-> r.tree, sum |-> r.sum])
      /\ leftOver' = [do |-> z.do, undo |-> z.undo]
      /\ UNCHANGED workload

(* The update log is cut back to its budget.                               *)
TrimUpdateLog ==
  LET kept == {k \in DOMAIN log : k > stateID - MaxLog}
  IN  /\ kept # DOMAIN log
      /\ log' = [k \in kept |-> log[k]]
      /\ past' = [k \in {k \in DOMAIN past : k >= stateID - MaxLog} |-> past[k]]
      /\ UNCHANGED <<workload, tree, checksum, stateID, leftOver, replica>>

---------------------------------------------------------------------------
InitialTree ==
  [ data |-> [p \in {DocPath} \cup {<<l>> : l \in Lists} |-> Empty],
    index |-> [l \in Lists |-> <<>>],
    hint |-> [l \in Lists |-> 0],
    undo |-> [c \in Clients |-> NoStack],
    redo |-> [c \in Clients |-> NoStack] ]

Init ==
  /\ workload \in Workloads
  /\ tree = InitialTree
  /\ checksum = CalculateChecksum(InitialTree)
  /\ stateID = 0
  /\ log = <<>>
  /\ leftOver = NoMessages
  /\ replica = [tree |-> InitialTree, sum |-> CalculateChecksum(InitialTree)]
  /\ past = [k \in {0} |-> Contents(InitialTree)]

Next ==
  \/ \E c \in Clients, v \in Values, interim \in BOOLEAN : UploadNodeValue(c, v, interim)
  \/ \E c \in Clients, l \in Lists :
       \E before \in {NoKey} \cup Range(tree.index[l]) : UploadIndexedNode(c, l, before)
  \/ \E c \in Clients, l \in Lists : UploadNodeSubtree(c, l)
  \/ \E c \in Clients : \E p \in DOMAIN tree.data \ {DocPath} : RequestDeleteNodes(c, p)
  \/ \E c \in Clients, l \in Lists :
       \E key, before \in Range(tree.index[l]) : RequestMoveIndexEntry(c, l, key, before)
  \/ \E c \in Clients : BeginUndoSequence(c)
  \/ \E c \in Clients : EndUndoSequence(c)
  \/ \E c \in Clients : RequestUndo(c)
  \/ \E c \in Clients : RequestRedo(c)
  \/ \E c \in Clients : RequestResetDatabaseStateToDefault(c)
  \/ TrimUpdateLog

Spec == Init /\ [][Next]_vars

---------------------------------------------------------------------------
(* Properties.                                                             *)

(* The running checksum that MessageTreeNodeUpdated() and                  *)
(* MessageTreeNodeIndexChanged() keep is that of the tree, on the senior   *)
(* peer and on a junior peer, also after a request that failed half-way.   *)
ChecksumIsCurrent ==
  /\ checksum = CalculateChecksum(tree)
  /\ replica.sum = CalculateChecksum(replica.tree)

(* The recorded do-message takes a junior peer that has the senior peer's  *)
(* nodes and indices to what the senior peer gets, stacks and checksum     *)
(* included, for every request, undo and redo too: an update that was made *)
(* from the junior peer's own state never costs a full resend.             *)
ReplayReproduces ==
  [][ Contents(replica.tree) = Contents(tree) /\ stateID' # stateID =>
        LET y == HandleBatch(Transaction(replica.tree, replica.sum), log'[stateID'].do, FALSE)
        IN  /\ y.ok
            /\ Contents(y.tree) = Contents(tree')
            /\ y.tree.undo = tree'.undo /\ y.tree.redo = tree'.redo
            /\ y.sum = checksum' ]_vars

Interim(k, p) == \E i \in 1 .. Len(log[k].do) :
                   LET m == log[k].do[i] IN m.op = "set" /\ m.path = p /\ m.interim
Final(k, p) == \E i \in 1 .. Len(log[k].do) :
                 LET m == log[k].do[i] IN m.op = "set" /\ m.path = p /\ ~m.interim

(* The updates of a sequence that changed the contents are client c's, and *)
(* the states before and after each are known.                             *)
Undisturbed(c, first, last) ==
  /\ first .. last \subseteq DOMAIN log
  /\ (first - 1) .. last \subseteq DOMAIN past
  /\ \A k \in first .. last : log[k].client = c \/ past[k] = past[k - 1]

Top(which, c) == Last(tree[which][c].seqs)
HasTop(which, c) == tree[which][c].seqs # <<>> /\ Top(which, c).end > 0

(* A client that undoes its latest sequence, with the contents as the      *)
(* sequence left them, is back where the sequence began.  Interim updates  *)
(* may be in it if they follow a final one of the same node, as when the   *)
(* fridge demo drags a magnet.                                             *)
UndoRestores ==
  [][ \A c \in Clients :
        (/\ HasTop("undo", c)
         /\ Undisturbed(c, Top("undo", c).start, Top("undo", c).end)
         /\ Contents(tree) = past[Top("undo", c).end]
         /\ \A k \in Top("undo", c).start .. Top("undo", c).end :
              Interim(k, DocPath) =>
                \E j \in Top("undo", c).start .. (k - 1) : log[j].client = c /\ Final(j, DocPath)
         /\ RequestUndo(c))
        => Contents(tree') = past[Top("undo", c).start - 1] ]_vars

(* Redoing a sequence, with the contents as they were before it, gives     *)
(* what it gave; its last update of a node must not be an interim one.     *)
RedoReapplies ==
  [][ \A c \in Clients :
        (/\ HasTop("redo", c)
         /\ Undisturbed(c, Top("redo", c).start, Top("redo", c).end)
         /\ Contents(tree) = past[Top("redo", c).start - 1]
         /\ \A k \in Top("redo", c).start .. Top("redo", c).end :
              Interim(k, DocPath) =>
                \E j \in (k + 1) .. Top("redo", c).end : log[j].client = c /\ Final(j, DocPath)
         /\ RequestRedo(c))
        => Contents(tree') = past[Top("redo", c).end] ]_vars

(* Undo and redo lead back and forth (SeniorMessageTreeUpdate, UploadUndo-  *)
(* RedoRequestToSeniorPeer).                                               *)
UndoAndRedoLeadBack == UndoRestores /\ RedoReapplies

(* After every update, what is on an undo stack can still be undone: the   *)
(* log has the updates it ranges over.  An open sequence is at the top, of *)
(* a client that is inside it, and leaves nothing to redo.                 *)
StacksAreUsable ==
  [][ stateID' # stateID =>
        \A c \in Clients :
          LET s == tree'.undo[c]
          IN  /\ (s.nest > 0) <=> (s.seqs # <<>> /\ Last(s.seqs).end = 0)
              /\ s.nest > 0 => tree'.redo[c] = NoStack
              /\ \A i \in 1 .. Len(s.seqs) :
                   /\ s.seqs[i].end = 0 => i = Len(s.seqs)
                   /\ s.seqs[i].start .. s.seqs[i].end \subseteq DOMAIN log' ]_vars

(* "only undo or redo actions that were uploaded by our own client": an    *)
(* undo leaves another client's item in the index if it leaves the item.   *)
UndoLeavesOthersEntries ==
  [][ \A c \in Clients, l \in Lists : RequestUndo(c) =>
        \A key \in Range(tree.index[l]) :
          <<l, key>> \in DOMAIN tree'.data /\ tree.data[<<l, key>>] # c
            => key \in Range(tree'.index[l]) ]_vars
===========================================================================

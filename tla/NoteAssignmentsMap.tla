------------------------ MODULE NoteAssignmentsMap -------------------------
(***************************************************************************)
(* The database of the choir demo that says who plays which notes          *)
(* (NoteAssignmentsMap), and the review that keeps every note of the song  *)
(* assigned.  order is the order of the peers in _noteAssignments, which   *)
(* is that of insertion; peers are numbers that stand for their checksums. *)
(***************************************************************************)
EXTENDS MusicData, Sequences, SequencesExt, Functions

Strategies == [automatic |-> 0, assisted |-> 1, manual |-> 2]

NoPeer == 0                                     \* an invalid ZGPeerID

DefaultState ==
  NoNotes @@ [order |-> <<>>, notes |-> [p \in {} |-> {}], strategy |-> Strategies.automatic]

GetNoteAssignmentsForPeerID(t, p) == IF p \in DOMAIN t.notes THEN t.notes[p] ELSE {}

CalculateChecksumForPeer(p, chord) == p + ChordChecksum(chord)

CalculateChecksum(t) ==
  (t.strategy + MapThenSumSet(LAMBDA p : CalculateChecksumForPeer(p, t.notes[p]), DOMAIN t.notes))
    % WordSize

SetAssignmentStrategy(t, x) == [Resum(t, x - t.strategy) EXCEPT !.strategy = x]

SetNoteAssignmentsForPeerID(t, p, chord) ==
  LET listed == p \in DOMAIN t.notes
      without == IF listed THEN Resum(RemovedNotes(t, t.notes[p]), -CalculateChecksumForPeer(p, t.notes[p]))
                 ELSE t
  IN  IF chord = {}
      THEN [without EXCEPT !.order = SelectSeq(@, LAMBDA q : q # p),
                           !.notes = Restrict(@, DOMAIN @ \ {p})]
      ELSE [Resum(AddedNotes(without, chord), CalculateChecksumForPeer(p, chord))
              EXCEPT !.order = IF listed THEN @ ELSE Append(@, p), !.notes = (p :> chord) @@ @]

(* The notes of every peer in turn.                                        *)
Rewritten(t, newNotes) ==
  FoldLeft(LAMBDA u, p : SetNoteAssignmentsForPeerID(u, p, newNotes[p]), t, t.order)

UnassignNote(t, n) == Rewritten(t, [p \in DOMAIN t.notes |-> t.notes[p] \ {n}])

(* A note of a peer is toggled; without a peer, nobody is to play it.      *)
HandleToggleAssignmentMessage(t, p, n) ==
  LET old == GetNoteAssignmentsForPeerID(t, p)
  IN  IF p # NoPeer THEN SetNoteAssignmentsForPeerID(t, p, (old \ {n}) \cup ({n} \ old))
      ELSE IF t.bits # {} THEN UnassignNote(t, n) ELSE t

---------------------------------------------------------------------------
(* The review.  online is the senior peer's table of the peers on line.    *)

Count(t, p) == Cardinality(GetNoteAssignmentsForPeerID(t, p))
Counts(t, online) == {Count(t, p) : p \in Range(online)}

(* GetLightestPeer and GetHeaviestPeer: the first of several.              *)
GetLightestPeer(t, online) ==
  online[Min({i \in DOMAIN online : Count(t, online[i]) = Min(Counts(t, online))})]
GetHeaviestPeer(t, online) ==
  online[Min({i \in DOMAIN online : Count(t, online[i]) = Max(Counts(t, online))})]

(* Peers off line are to be forgotten, but the loop runs backwards from    *)
(* the first entry, so that it looks at no other; whether it goes on after *)
(* a removal is up to MUSCLE's iterator (external), hence the choice.      *)
ForgetPeers(t, online) ==
  LET offline(i) == t.order[i] \notin Range(online)
      leading == {k \in 1..Len(t.order) : \A i \in 1..k : offline(i)}
      Forgotten(k) == FoldLeft(LAMBDA u, p : SetNoteAssignmentsForPeerID(u, p, {}), t,
                               SubSeq(t.order, 1, k))
  IN  IF leading = {} THEN {t} ELSE {Forgotten(k) : k \in leading}

AssignOrphans(t, used, online) ==
  FoldLeft(LAMBDA u, n : LET p == GetLightestPeer(u, online)
                         IN  SetNoteAssignmentsForPeerID(u, p, GetNoteAssignmentsForPeerID(u, p) \cup {n}),
           t, SetToSortSeq(used \ t.bits, LAMBDA a, b : a < b))

(* Of several peers with the same note, the first one keeps it.            *)
WithoutDuplicates(t) ==
  LET Before(p) == UNION {t.notes[t.order[i]] : i \in 1..(CHOOSE j \in DOMAIN t.order : t.order[j] = p) - 1}
  IN  Rewritten(t, [p \in DOMAIN t.notes |-> t.notes[p] \ Before(p)])

(* As long as they differ by more than one note, the heaviest peer gives   *)
(* its last note to the lightest.                                          *)
RECURSIVE Balanced(_, _)
Balanced(t, online) ==
  LET light == GetLightestPeer(t, online)
      heavy == GetHeaviestPeer(t, online)
      n == Max(t.notes[heavy])
      lighter == SetNoteAssignmentsForPeerID(t, heavy, t.notes[heavy] \ {n})
  IN  IF Count(t, heavy) - Count(t, light) <= 1 THEN t
      ELSE Balanced(SetNoteAssignmentsForPeerID(lighter, light,
                      GetNoteAssignmentsForPeerID(lighter, light) \cup {n}), online)

SeniorAutoUpdateAssignments(t, used, online) ==
  IF t.strategy = Strategies.manual THEN {t}
  ELSE {LET u == AssignOrphans(f, used, online)
        IN  IF t.strategy = Strategies.assisted THEN u
            ELSE Balanced(WithoutDuplicates(u), online) : f \in ForgetPeers(t, online)}

---------------------------------------------------------------------------
(* CHOIR_COMMAND_UNASSIGN_ORPHANS.                                         *)
UnassignOrphans(t, online) ==
  Rewritten(t, [p \in DOMAIN t.notes |-> IF p \in Range(online) THEN t.notes[p] ELSE {}])

(* Mutant of SaveToArchive: the strategy is left out, hence automatic.     *)
ArchiveNotes(t) == [what |-> "archive", order |-> t.order, notes |-> t.notes, strategy |-> 0]

SaveToArchive(t) ==
  [what |-> "archive", order |-> t.order, notes |-> t.notes, strategy |-> t.strategy]

SetFromArchive(a) ==
  FoldLeft(LAMBDA u, p : SetNoteAssignmentsForPeerID(u, p, a.notes[p]),
           SetAssignmentStrategy(DefaultState, a.strategy), a.order)

JuniorUpdate(t, m) ==
  CASE m.what = "noop"     -> t
    [] m.what = "assign"   -> HandleToggleAssignmentMessage(t, m.peer, m.note)
    [] m.what = "strategy" -> SetAssignmentStrategy(t, m.strategy)
    [] m.what = "archive"  -> SetFromArchive(m)

(* After a review or the removal of orphans, juniors are sent everything,  *)
(* unless nothing was changed.                                             *)
SentInFull(old, new, review) ==
  IF new = old THEN [state |-> new, junior |-> [what |-> "noop"], review |-> FALSE]
  ELSE [state |-> new, junior |-> SaveToArchive(new), review |-> review]

SeniorUpdate(t, r, used, online) ==
  CASE r.what = "orphans" -> {SentInFull(t, UnassignOrphans(t, online), TRUE)}
    [] r.what = "review"  -> {SentInFull(t, u, FALSE) : u \in SeniorAutoUpdateAssignments(t, used, online)}
    [] OTHER              -> {[state |-> JuniorUpdate(t, r), junior |-> r, review |-> TRUE]}
===========================================================================

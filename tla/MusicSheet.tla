---------------------------- MODULE MusicSheet -----------------------------
(***************************************************************************)
(* The database that holds the song of the choir demo (MusicSheet): a      *)
(* sparse table of chords, and a file path, which is a number that stands  *)
(* for its own checksum; 0 is the empty path.                              *)
(***************************************************************************)
EXTENDS MusicData, Sequences, SequencesExt, Functions

DefaultState == NoNotes @@ [path |-> 0, chords |-> [i \in {} |-> {}]]

SetSongFilePath(s, path) == [Resum(s, path - s.path) EXCEPT !.path = path]

(* GetSongLengthInChords without looping: an empty song has length one.    *)
SongLength(s) == 1 + (IF DOMAIN s.chords = {} THEN 0 ELSE Max(DOMAIN s.chords))

(* GetChordAtIndex.                                                        *)
GetChordAtIndex(s, i, looping) ==
  LET k == IF looping THEN i % SongLength(s) ELSE i
  IN  IF k \in DOMAIN s.chords THEN s.chords[k] ELSE {}

(* A chord weighs more the later it comes.                                 *)
CalculateChecksumForChord(i, chord) == (i + 1) * ChordChecksum(chord)

CalculateChecksum(s) ==
  (s.path + MapThenSumSet(LAMBDA i : CalculateChecksumForChord(i, s.chords[i]), DOMAIN s.chords))
    % WordSize

RemoveChord(s, i) ==
  LET old == GetChordAtIndex(s, i, FALSE)
      kept == Resum(RemovedNotes(s, old), -CalculateChecksumForChord(i, old))
  IN  [kept EXCEPT !.chords = Restrict(@, DOMAIN @ \ {i})]

(* Mutant of PutChord: a chord that is replaced keeps counting.            *)
PutChordOver(s, i, chord) ==
  IF chord = {} THEN RemoveChord(s, i)
  ELSE [Resum(AddedNotes(s, chord), CalculateChecksumForChord(i, chord))
          EXCEPT !.chords = (i :> chord) @@ @]

PutChord(s, i, chord) ==
  IF chord = {} THEN RemoveChord(s, i)
  ELSE [Resum(AddedNotes(RemoveChord(s, i), chord), CalculateChecksumForChord(i, chord))
          EXCEPT !.chords = (i :> chord) @@ @]

Moved(s, i, j) == PutChord(RemoveChord(s, i), j, s.chords[i])

(* From the last chord on, so that none runs over its neighbour.           *)
InsertChordAt(s, i) ==
  FoldLeft(LAMBDA t, k : Moved(t, k, k + 1), s,
           SetToSortSeq({k \in DOMAIN s.chords : k >= i}, LAMBDA a, b : a > b))

(* RemoveChord, then MoveChordsBackOneStartingAt the first one after it.   *)
DeleteChordAt(s, i) ==
  FoldLeft(LAMBDA t, k : Moved(t, k, k - 1), RemoveChord(s, i),
           SetToSortSeq({k \in DOMAIN s.chords : k > i}, LAMBDA a, b : a < b))

SaveToArchive(s) == [what |-> "archive", path |-> s.path, chords |-> s.chords]

(* SetFromArchive and UpdateFromArchive: chord by chord.                   *)
SetFromArchive(a) ==
  FoldLeft(LAMBDA t, k : PutChord(t, k, a.chords[k]), SetSongFilePath(DefaultState, a.path),
           SetToSortSeq(DOMAIN a.chords, LAMBDA x, y : x < y))

(* JuniorUpdate, which the window applies to its own copy, too.            *)
JuniorUpdate(s, m) ==
  CASE m.what = "noop"    -> s
    [] m.what = "set"     -> PutChord(s, m.chord, m.value)
    [] m.what = "insert"  -> InsertChordAt(s, m.chord)
    [] m.what = "delete"  -> DeleteChordAt(s, m.chord)
    [] m.what = "path"    -> SetSongFilePath(s, m.path)
    [] m.what = "archive" -> SetFromArchive(m)

(* SeniorUpdate: what to tell the juniors, who in turn do as they are      *)
(* told.  A toggle is turned into the chord that it results in.            *)
JuniorMessage(s, r) ==
  IF r.what # "toggle" THEN r
  ELSE LET old == GetChordAtIndex(s, r.chord, FALSE)
       IN  [what |-> "set", chord |-> r.chord,
            value |-> (old \ {r.note}) \cup ({r.note} \ old)]

SeniorUpdate(s, r) ==
  LET m == JuniorMessage(s, r)
  IN  [state |-> JuniorUpdate(s, m), junior |-> m, review |-> m.what \in {"set", "archive"}]
===========================================================================

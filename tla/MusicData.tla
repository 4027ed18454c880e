----------------------------- MODULE MusicData -----------------------------
(***************************************************************************)
(* What the databases of the choir demo have in common: chords, and the    *)
(* histogram, the set of notes and the checksum that a database keeps up   *)
(* to date as chords come and go, instead of computing them afresh.        *)
(*                                                                         *)
(* A chord is the set of its notes; in the code, a word with a bit per     *)
(* note.  A database is a record with at least the fields hist, bits and   *)
(* sum.  MUSCLE's checksum of a word (external) is here the word itself.   *)
(***************************************************************************)
EXTENDS Integers, FiniteSetsExt

CONSTANTS
  Notes,         \* the notes of a choir, numbered
  WordSize       \* checksums are kept modulo this number

NoNotes == [hist |-> [n \in Notes |-> 0], bits |-> {}, sum |-> 0]

ChordChecksum(chord) == MapThenSumSet(LAMBDA n : 2^n, chord)

(* A change of the running checksum, which wraps around.                   *)
Resum(d, change) == [d EXCEPT !.sum = (@ + change) % WordSize]

(* UpdateNoteHistogram, adding or removing a chord: a note's bit is set    *)
(* when its count becomes one, and cleared when it becomes zero.           *)
AddedNotes(d, chord) ==
  LET hist == [n \in Notes |-> d.hist[n] + (IF n \in chord THEN 1 ELSE 0)]
  IN  [d EXCEPT !.hist = hist, !.bits = @ \cup {n \in chord : hist[n] = 1}]

RemovedNotes(d, chord) ==
  LET counted == {n \in chord : d.hist[n] > 0}
      hist == [n \in Notes |-> d.hist[n] - (IF n \in counted THEN 1 ELSE 0)]
  IN  [d EXCEPT !.hist = hist, !.bits = @ \ {n \in counted : hist[n] = 0}]
===========================================================================

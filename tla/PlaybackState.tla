--------------------------- MODULE PlaybackState ---------------------------
(***************************************************************************)
(* The database of the choir demo that says what is playing                *)
(* (PlaybackState).  A song plays from the network time start on, one      *)
(* chord every tempo microseconds; when paused, it stands at a chord.      *)
(***************************************************************************)
EXTENDS Integers

NoLimit == 1000000                              \* MUSCLE_NO_LIMIT
TimeNever == 100000000                          \* MUSCLE_TIME_NEVER

DefaultState(tempo) == [start |-> TimeNever, tempo |-> tempo, paused |-> 0, loop |-> FALSE]

IsPaused(p) == p.paused # NoLimit

GetNetworkTimeToPlayChord(p, k) == p.start + p.tempo * k

(* GetPlaybackPositionForNetworkTimeMicroseconds, in chords.               *)
Place(p, now) == IF IsPaused(p) THEN p.paused ELSE (now - p.start) \div p.tempo

(* Where in the song a player is to go on: the time is divided by the      *)
(* start time, not counted from it, so that the answer is next to always   *)
(* the first chord, and the player has to catch up.                        *)
GetChordIndexForNetworkTimeStamp(p, now, length) ==
  IF IsPaused(p) THEN p.paused ELSE ((now % length) \div p.start) \div p.tempo

(* The new start is truncated to whole microseconds, i.e. rounded down.    *)
SetMicrosPerChord(p, tempo, now) ==
  [p EXCEPT !.tempo = tempo,
            !.start = IF IsPaused(p) THEN @ ELSE now + ((-((now - @) * tempo)) \div p.tempo)]

StartPlayback(p, now) ==
  IF IsPaused(p) THEN [p EXCEPT !.start = now - p.paused * p.tempo, !.paused = NoLimit] ELSE p

PausePlayback(p, now) ==
  IF IsPaused(p) THEN p
  ELSE [p EXCEPT !.paused = IF p.start < now THEN (now - p.start) \div p.tempo ELSE 0,
                 !.start = TimeNever]

SeekTo(p, now, k) ==
  IF IsPaused(p) THEN [p EXCEPT !.paused = k] ELSE [p EXCEPT !.start = now - k * p.tempo]

(* Without looping, playback goes on where it is in the current round.     *)
SetLoop(p, now, loop, length) ==
  LET duration == p.tempo * length
  IN  [p EXCEPT !.loop = loop,
                !.start = IF ~IsPaused(p) /\ p.loop /\ ~loop THEN now - ((now - @) % duration) ELSE @]

(* SeniorAdjustPlaybackState, for each of the requests a window makes.     *)
SeniorAdjustPlaybackState(p, r, now, length) ==
  CASE r.what = "play"  -> StartPlayback(p, now)
    [] r.what = "pause" -> PausePlayback(p, now)
    [] r.what = "stop"  -> SeekTo(PausePlayback(p, now), now, 0)
    [] r.what = "tempo" -> SetMicrosPerChord(p, r.tempo, now)
    [] r.what = "seek"  -> SeekTo(p, now, r.chord)
    [] r.what = "loop"  -> SetLoop(p, now, r.loop, length)

SaveToArchive(p) == [what |-> "archive", data |-> p]

JuniorUpdate(p, m) == IF m.what = "noop" THEN p ELSE m.data

SeniorUpdate(p, r, now, length) ==
  LET new == SeniorAdjustPlaybackState(p, r, now, length)
  IN  [state |-> new, junior |-> SaveToArchive(new), review |-> FALSE]
===========================================================================

------------------------------- MODULE Choir -------------------------------
(***************************************************************************)
(* The choir demo, an application of a replicated database.  Three         *)
(* databases (MusicSheet, NoteAssignmentsMap, PlaybackState) are kept by   *)
(* the ChoirSession of every peer.  A user's click in a ChoirWindow        *)
(* becomes a request to the senior peer, whose answer to its juniors       *)
(* brings their databases, their windows and, last, their                  *)
(* MusicSheetPlayers up to date.  The senior peer reviews who plays what   *)
(* whenever the song, the assignments or the peers change.                 *)
(*                                                                         *)
(* One junior peer, the next in line, is looked at closely: its databases, *)
(* its window and its player.  Replication is reliable and in order, as    *)
(* DatabaseReplication.tla shows, and the databases are ordered among      *)
(* each other, too, although each one has a sequence of updates of its own *)
(* (no property depends on it).                                            *)
(***************************************************************************)
EXTENDS Integers, Sequences, SequencesExt, FiniteSets, Functions

CONSTANTS
  Notes, WordSize,
  Founders,      \* the peers on line at first, in their order of age
  Latecomers,    \* peers that may come later
  Observer,      \* the peer that is looked at, second in line
  Chords,        \* indices of chords that users may click on
  Songs,         \* songs to begin with or to load
  Tempos,        \* microseconds per chord
  DefaultTempo,  \* DEFAULT_MICROSECONDS_PER_CHORD
  Epoch,         \* the network time at which all begins
  LastTime,      \* and the one at which it ends, as a bound
  LateLimit,     \* how late a chord may be rung (50 milliseconds)
  Workloads      \* [kinds, requests]: what happens, and how many requests and
                 \* departures there are at most

Score    == INSTANCE MusicSheet
Roster   == INSTANCE NoteAssignmentsMap
Playback == INSTANCE PlaybackState

VARIABLES
  online,        \* the peers on line, in the order of their age; the first is senior
  db,            \* the senior peer's databases
  requests,      \* requests on their way to the senior peer
  self,          \* what the senior peer has requested of itself
  pending,       \* _requestAssignmentStrategyReviewPending
  atReview,      \* _allNotesAtLastReview and _peersAtLastReview
  feed,          \* updates on their way to the observer
  copy,          \* the observer's databases
  gui,           \* messages on their way to the observer's window
  window,        \* the window's copies
  unsent,        \* which of them the window has yet to send to the player
  player,        \* the observer's MusicSheetPlayer
  now,           \* network time
  workload,      \* what happens in this behaviour
  budget,        \* requests and departures that may still happen
  strays         \* peers off line that may be left with notes, see NotesAreAssigned

sessionVars == <<pending, atReview>>
windowVars  == <<window, unsent>>
vars == <<online, db, requests, self, sessionVars, feed, copy, gui, windowVars, player,
          now, workload, budget, strays>>

IAmTheSeniorPeer(p) == p = Head(online)

---------------------------------------------------------------------------
(* The session of the senior peer.                                         *)

(* Mutant of IsStrategyReviewMaybeNecessary: only new notes matter.        *)
NewNotesNeedReview(d, peers, last) ==
  /\ d.roster.strategy # Roster!Strategies.manual
  /\ ~(d.score.bits \subseteq last.notes)

IsStrategyReviewMaybeNecessary(d, peers, last) ==
  /\ d.roster.strategy # Roster!Strategies.manual
  /\ \/ ~(d.score.bits \subseteq d.roster.bits)
     \/ /\ d.roster.strategy = Roster!Strategies.automatic
        /\ \/ ~(d.score.bits \subseteq last.notes)
           \/ Range(peers) # last.peers
           \/ \E n \in Notes : d.roster.hist[n] > 1

(* ChoirSession::SendMessageToGUI, as far as it concerns the senior peer.  *)
MayTriggerReview(d, peers, last) == pending \/ IsStrategyReviewMaybeNecessary(d, peers, last)

(* What a request makes of the database that it is for.                    *)
SeniorUpdate(d, r) ==
  CASE r.db = "score"  -> {Score!SeniorUpdate(d.score, r)}
    [] r.db = "roster" -> Roster!SeniorUpdate(d.roster, r, d.score.bits, online)
    [] r.db = "play"   -> {Playback!SeniorUpdate(d.play, r, now, Score!SongLength(d.score))}

JuniorUpdate(d, m) ==
  CASE m.db = "score"  -> [d EXCEPT !.score = Score!JuniorUpdate(@, m.msg)]
    [] m.db = "roster" -> [d EXCEPT !.roster = Roster!JuniorUpdate(@, m.msg)]
    [] m.db = "play"   -> [d EXCEPT !.play = Playback!JuniorUpdate(@, m.msg)]

(* Everything but NOOPs is passed on to the window.                        *)
ToGUI(m) == IF m.msg.what = "noop" THEN gui ELSE Append(gui, m)

(* A request is carried out, then sent to the juniors and to the window.   *)
HandleRequest(r) ==
  \E u \in SeniorUpdate(db, r) :
    LET new  == [db EXCEPT ![r.db] = u.state]
        m    == [db |-> r.db, msg |-> u.junior]
        last == IF r.what = "review" THEN [notes |-> db.score.bits, peers |-> Range(online)]
                ELSE atReview
    IN
    /\ db' = new
    /\ atReview' = last                         \* SetReviewResults
    /\ pending' = IF u.review THEN MayTriggerReview(new, online, last) ELSE pending
    /\ strays' = IF r.what = "assign" /\ r.peer \notin Range(online) THEN strays \cup {r.peer} ELSE strays
    /\ IF IAmTheSeniorPeer(Observer)
       THEN copy' = new /\ gui' = ToGUI(m) /\ UNCHANGED feed
       ELSE feed' = Append(feed, m) /\ UNCHANGED <<copy, gui>>

RequestReceived ==
  /\ requests # <<>>
  /\ HandleRequest(Head(requests))
  /\ requests' = Tail(requests)
  /\ UNCHANGED <<online, self, windowVars, player, now, workload, budget>>

SelfRequestReceived ==
  /\ self # <<>>
  /\ HandleRequest(Head(self))
  /\ self' = Tail(self)
  /\ UNCHANGED <<online, requests, windowVars, player, now, workload, budget>>

Pulse ==
  /\ pending
  /\ pending' = FALSE
  /\ self' = IF db.roster.strategy = Roster!Strategies.manual THEN self
             ELSE Append(self, [db |-> "roster", what |-> "review"])
  /\ UNCHANGED <<online, db, requests, atReview, feed, copy, gui, windowVars, player, now,
                 workload, budget, strays>>

PeerHasComeOnline(p) ==
  /\ "peers" \in workload
  /\ p \in Latecomers \ Range(online)
  /\ online' = Append(online, p)
  /\ pending' = MayTriggerReview(db, online', atReview)
  /\ strays' = strays \ {p}
  /\ UNCHANGED <<db, requests, self, atReview, feed, copy, gui, windowVars, player, now, workload,
                 budget>>

(* A junior peer leaves; it comes back if only its heartbeats were lost.   *)
PeerHasGoneOffline(p) ==
  /\ "peers" \in workload
  /\ budget > 0 /\ budget' = budget - 1
  /\ p \in Range(online) \ {Head(online), Observer}
  /\ online' = SelectSeq(online, LAMBDA q : q # p)
  /\ pending' = MayTriggerReview(db, online', atReview)
  /\ self' = Append(self, [db |-> "roster", what |-> "orphans"])
  /\ UNCHANGED <<db, requests, atReview, feed, copy, gui, windowVars, player, now, workload, strays>>

(* The senior peer leaves and the observer takes over.  It hears of the    *)
(* departure before it is senior, so that it does not ask for the removal  *)
(* of orphans; but it reviews the assignments, whatever they are.          *)
SeniorPeerChanged ==
  /\ "failover" \in workload
  /\ ~IAmTheSeniorPeer(Observer)
  /\ online' = Tail(online)
  /\ db' = copy
  /\ requests' = <<>> /\ self' = <<>> /\ feed' = <<>>
  /\ pending' = TRUE
  /\ atReview' = [notes |-> {}, peers |-> {}]
  /\ strays' = strays \cup {Head(online)}
  /\ UNCHANGED <<copy, gui, windowVars, player, now, workload, budget>>

---------------------------------------------------------------------------
(* The observer: its session, its window and its player.                   *)

JuniorUpdateReceived ==
  /\ feed # <<>>
  /\ feed' = Tail(feed)
  /\ copy' = JuniorUpdate(copy, Head(feed))
  /\ gui' = ToGUI(Head(feed))
  /\ UNCHANGED <<online, db, requests, self, sessionVars, windowVars, player, now, workload,
                 budget, strays>>

(* ChoirWindow::MessageReceivedFromServer.  The player is told later of    *)
(* the song and of the playback state.                                     *)
MessageReceivedFromServer ==
  /\ gui # <<>>
  /\ gui' = Tail(gui)
  /\ window' = JuniorUpdate(window, Head(gui))
  /\ unsent' = unsent \cup ({Head(gui).db} \ {"roster"})
  /\ UNCHANGED <<online, db, requests, self, sessionVars, feed, copy, player, now, workload,
                 budget, strays>>

(* The requests that a user's clicks may become, by kind.                  *)
Clicks ==
  [toggle   |-> {[db |-> "score", what |-> "toggle", chord |-> k, note |-> n] : k \in Chords, n \in Notes},
   edit     |-> {[db |-> "score", what |-> w, chord |-> k] : w \in {"insert", "delete"}, k \in Chords},
   song     |-> {[db |-> "score", what |-> "archive", path |-> 1, chords |-> s] : s \in Songs}
                \cup {[db |-> "score", what |-> "path", path |-> 2]},
   assign   |-> {[db |-> "roster", what |-> "assign", peer |-> p, note |-> n] :
                   p \in Range(online) \cup {Roster!NoPeer}, n \in Notes},
   strategy |-> {[db |-> "roster", what |-> "strategy", strategy |-> x] : x \in 0..2},
   playback |-> {[db |-> "play", what |-> w] : w \in {"play", "pause", "stop"}}
                \cup {[db |-> "play", what |-> "tempo", tempo |-> x] : x \in Tempos}
                \cup {[db |-> "play", what |-> "seek", chord |-> k] : k \in Chords}
                \cup {[db |-> "play", what |-> "loop", loop |-> x] : x \in BOOLEAN}]

(* ChoirSession::MessageReceivedFromSession sends a request to the senior  *)
(* peer.  The roster cannot be clicked on while it is kept automatically,  *)
(* as far as the window knows.                                             *)
UserClicks(kind) ==
  /\ kind \in workload
  /\ budget > 0 /\ budget' = budget - 1
  /\ kind = "assign" => window.roster.strategy # Roster!Strategies.automatic
  /\ \E r \in Clicks[kind] :
       IF IAmTheSeniorPeer(Observer)
       THEN self' = Append(self, r) /\ UNCHANGED requests
       ELSE requests' = Append(requests, r) /\ UNCHANGED self
  /\ UNCHANGED <<online, db, sessionVars, feed, copy, gui, windowVars, player, now, workload, strays>>

---------------------------------------------------------------------------
(* The player.                                                             *)

(* GetSongLengthInChords, for the player.                                  *)
Length(q) ==
  IF q.play.loop /\ DOMAIN q.sheet.chords # {} THEN Playback!NoLimit ELSE Score!SongLength(q.sheet)

Sounds(q, k) == Score!GetChordAtIndex(q.sheet, k, q.play.loop) # {}
TimeOf(q, k) == Playback!GetNetworkTimeToPlayChord(q.play, k)

(* Rests are skipped for good: the next chord to play is the next one that *)
(* sounds, at most a round ahead, or the end of the song.                  *)
RecalculateWakeupTime(q) ==
  LET ahead == {k \in q.next..(q.next + Score!SongLength(q.sheet)) : k < Length(q) /\ Sounds(q, k)}
      next  == IF ahead = {} THEN Length(q) ELSE CHOOSE k \in ahead : \A j \in ahead : k <= j
  IN  IF Playback!IsPaused(q.play) \/ q.next >= Length(q)
      THEN [q EXCEPT !.wake = Playback!TimeNever]
      ELSE [q EXCEPT !.next = next, !.wake = TimeOf(q, next)]

MusicSheetUpdated(q, sheet) == RecalculateWakeupTime([q EXCEPT !.sheet = sheet])

PlaybackStateUpdated(q, play) ==
  LET r == [q EXCEPT !.play = play, !.rang = -1, !.rings = 0]
  IN  RecalculateWakeupTime(
        [r EXCEPT !.next = Playback!GetChordIndexForNetworkTimeStamp(play, now, Length(r))])

(* SendUpdatedMusicSheetToPlayer and SendUpdatedPlaybackStateToPlayer.     *)
SendToPlayer(d) ==
  /\ d \in unsent
  /\ unsent' = unsent \ {d}
  /\ player' = IF d = "score" THEN MusicSheetUpdated(player, window.score)
               ELSE PlaybackStateUpdated(player, window.play)
  /\ UNCHANGED <<online, db, requests, self, sessionVars, feed, copy, gui, window, now, workload,
                 budget, strays>>

(* The most recent one of the chords that are due.                         *)
ChordToPlay(due) == CHOOSE k \in due : \A j \in due : j <= k

(* Mutant of ChordAfter: the last chord that is due is yet to be played.   *)
LastChordDue(q, last) == IF last >= q.next THEN last ELSE q.next

(* The first chord that is not due by now, whether or not those that were  *)
(* due have been rung.                                                     *)
ChordAfter(q, last) == IF last >= q.next THEN last + 1 ELSE q.next

(* The timer fires, perhaps late: of the chords due by now only the last   *)
(* is rung, and not even that one if it is too late.                       *)
Wakeup ==
  LET place == Playback!Place(player.play, now)
      last  == IF place < Length(player) THEN place ELSE Length(player) - 1
      due   == {k \in player.next..last : Sounds(player, k)}
      ring  == due # {} /\ now - TimeOf(player, ChordToPlay(due)) < LateLimit
  IN
  /\ player.wake <= now
  /\ player' = RecalculateWakeupTime(
       [player EXCEPT !.next = ChordAfter(player, last),
                      !.rang = IF ring THEN ChordToPlay(due) ELSE @,
                      !.rings = IF ring THEN @ + 1 ELSE @])
  /\ UNCHANGED <<online, db, requests, self, sessionVars, feed, copy, gui, windowVars, now, workload,
                 budget, strays>>

Tick ==
  /\ "playback" \in workload
  /\ now < LastTime
  /\ now' = now + 1
  /\ UNCHANGED <<online, db, requests, self, sessionVars, feed, copy, gui, windowVars, player,
                 workload, budget, strays>>

---------------------------------------------------------------------------
(* The peers have just come together: a review is due.                     *)
Init ==
  /\ online = Founders
  /\ \E s \in Songs :
       db = [score  |-> Score!SetFromArchive([path |-> 0, chords |-> s]),
             roster |-> Roster!DefaultState, play |-> Playback!DefaultState(DefaultTempo)]
  /\ copy = db /\ window = db
  /\ requests = <<>> /\ self = <<>> /\ feed = <<>> /\ gui = <<>>
  /\ pending = TRUE /\ atReview = [notes |-> {}, peers |-> {}]
  /\ unsent = {}
  /\ player = [sheet |-> db.score, play |-> db.play, next |-> 0, wake |-> Playback!TimeNever,
               rang |-> -1, rings |-> 0]
  /\ now = Epoch
  /\ \E w \in Workloads : workload = w.kinds /\ budget = w.requests
  /\ strays = {}

Next ==
  \/ RequestReceived \/ SelfRequestReceived \/ Pulse \/ SeniorPeerChanged
  \/ \E p \in Latecomers : PeerHasComeOnline(p)
  \/ \E p \in Range(online) : PeerHasGoneOffline(p)
  \/ JuniorUpdateReceived \/ MessageReceivedFromServer
  \/ \E kind \in DOMAIN Clicks : UserClicks(kind)
  \/ \E d \in {"score", "play"} : SendToPlayer(d)
  \/ Wakeup \/ Tick

Spec == Init /\ [][Next]_vars

---------------------------------------------------------------------------
(* The figures that the databases keep up to date are those that would be  *)
(* found by counting: the histogram and the set of notes in use, from      *)
(* which the review decides, and the checksum, by which peers tell whether *)
(* their databases are equal (VerifyRunningChecksum), on the senior peer,  *)
(* on the observer and in its window.                                      *)
RunningFiguresAreExact ==
  \A d \in {db, copy, window} :
    LET holds(t, f) == /\ t.hist = [n \in Notes |-> Cardinality({i \in DOMAIN f : n \in f[i]})]
                       /\ t.bits = UNION {f[i] : i \in DOMAIN f}
    IN  /\ holds(d.score, d.score.chords) /\ holds(d.roster, d.roster.notes)
        /\ d.score.sum = Score!CalculateChecksum(d.score)
        /\ d.roster.sum = Roster!CalculateChecksum(d.roster)

(* Once all updates have arrived, the observer has the databases of the    *)
(* senior peer, and its window shows them, although they have been told in *)
(* other words: JuniorUpdate after SeniorUpdate (ZGDatabasePeerSession's   *)
(* contract), the order of the roster included.                            *)
ObserverFollows ==
  /\ feed = <<>> => copy = db
  /\ gui = <<>> => window = copy

(* When no review is under way and notes are not assigned by hand, every   *)
(* note of the song is assigned, and only peers on line have notes: what a *)
(* peer played is given to others when it leaves, what is added to the     *)
(* song is given to somebody.  Exempt are peers that left as seniors, and  *)
(* peers that were given notes after they had left, which a review may     *)
(* overlook (ForgetPeers).                                                 *)
NotesAreAssigned ==
  ~pending /\ self = <<>> /\ db.roster.strategy # Roster!Strategies.manual =>
    /\ db.score.bits \subseteq db.roster.bits
    /\ Range(db.roster.order) \subseteq Range(online) \cup strays

(* Whenever the bells ring, also at once after they did, it is for the     *)
(* last chord that is due, less than LateLimit late and never early, and   *)
(* for one after all those rung since the player was last told a playback  *)
(* state, however late the timer fires and whatever is edited in between   *)
(* (MusicSheetPlayer::Wakeup).                                             *)
RingsOnTime ==
  [][player'.rings > player.rings =>
       LET k == player'.rang
       IN  /\ k > player.rang
           /\ Sounds(player, k)
           /\ now - TimeOf(player, k) \in 0..(LateLimit - 1)
           /\ \A j \in (k + 1)..Playback!Place(player.play, now) :
                j >= Length(player) \/ ~Sounds(player, j)]_vars
===========================================================================

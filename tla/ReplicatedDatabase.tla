------------------------ MODULE ReplicatedDatabase ------------------------
(***************************************************************************)
(* What the replication of a database promises while one peer stays        *)
(* senior, without logs, packets or back-orders: the senior peer moves the *)
(* database from one state to the next, and every other peer moves only    *)
(* forwards and only to states that the senior peer has been in.           *)
(***************************************************************************)
EXTENDS Integers

CONSTANTS
  Peers,
  Contents,
  DefaultContents,
  Senior         \* the senior peer

VARIABLES
  replica,       \* replica[p]: the state ID and the contents of p's database
  states,        \* every <<state ID, contents>> that the senior peer has held
  mishaps        \* number of operations that went wrong so far

ReplicaInit ==
  /\ replica = [p \in Peers |-> <<0, DefaultContents>>]
  /\ states = {<<0, DefaultContents>>}
  /\ mishaps = 0

SeniorMoves(s) ==
  /\ replica' = [replica EXCEPT ![Senior] = s]
  /\ states' = states \cup {s}

(* The senior peer executes an update.                                     *)
Advance ==
  /\ \E c \in Contents : SeniorMoves(<<replica[Senior][1] + 1, c>>)
  /\ UNCHANGED mishaps

(* The senior peer fails to execute an update, which may spoil contents.   *)
Spoil ==
  /\ \E c \in Contents : SeniorMoves(<<replica[Senior][1], c>>)
  /\ mishaps' = mishaps + 1

(* A junior peer moves forwards to a state of the senior peer.  What goes  *)
(* wrong meanwhile (a broken session, say) does not touch its database.    *)
CatchUp(p) ==
  /\ \E s \in states :
       /\ replica[p][1] <= s[1]
       /\ replica' = [replica EXCEPT ![p] = s]
  /\ mishaps' \in {mishaps, mishaps + 1}
  /\ UNCHANGED states

(* A junior peer mis-executes an update or a full replacement, maybe after *)
(* it went part of the way.                                                *)
Damage(p) ==
  /\ \E s \in states \cup {replica[p]}, c \in Contents :
       /\ replica[p][1] <= s[1]
       /\ replica' = [replica EXCEPT ![p] = <<s[1], c>>]
  /\ mishaps' \in {mishaps + 1, mishaps + 2}
  /\ UNCHANGED states

(* Something goes wrong that no database shows.                            *)
Mishap ==
  /\ mishaps' = mishaps + 1
  /\ UNCHANGED <<replica, states>>

ReplicaNext ==
  \/ Advance
  \/ Spoil
  \/ Mishap
  \/ \E p \in Peers \ {Senior} : CatchUp(p) \/ Damage(p)

ReplicaSpec == ReplicaInit /\ [][ReplicaNext]_<<replica, states, mishaps>>
===========================================================================

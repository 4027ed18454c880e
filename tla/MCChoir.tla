------------------------------ MODULE MCChoir ------------------------------
(* Instances of Choir for TLC.                                             *)
EXTENDS Choir

MCNotes == 0..1
MCFounders == <<1, 2>>
MCLatecomers == {3}
MCSongs == {<<>>, (0 :> {0}) @@ (1 :> {0, 1})}
MCWorkloads ==
  {[kinds |-> {"toggle", "edit", "song"}, requests |-> 2],
   [kinds |-> {"toggle", "assign", "strategy", "peers"}, requests |-> 2],
   [kinds |-> {"assign", "strategy", "failover"}, requests |-> 2],
   [kinds |-> {"playback"}, requests |-> 3],
   [kinds |-> {"toggle", "playback"}, requests |-> 2]}
===========================================================================

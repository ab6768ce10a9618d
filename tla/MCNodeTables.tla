----------------------------- MODULE MCNodeTables -----------------------------
(***************************************************************************)
(* Instances of NodeTables: two peers and one slot.  Peer 1 is the         *)
(* lighthouse, and a relay; it moves from "here" to "there".  Peer 2 is    *)
(* reached at home or through it.                                          *)
(***************************************************************************)
EXTENDS NodeTables

(* Each peer's certificate authorises one network. *)
OneNetEach == [p \in Peer |-> {p}]

RelayedByLighthouse == [p \in Peer |-> IF p = 1 THEN {"here", "there"} ELSE {"here", "home"}]
NamedFirst == [s \in Slot |-> {1}]
MovesAway == [s \in Slot |-> {"here", "there"}]
===============================================================================

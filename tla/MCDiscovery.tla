------------------------------ MODULE MCDiscovery -----------------------------
(* Instances of Discovery: who has traffic for whom. *)
EXTENDS Discovery

OneWay == {<<1, 2>>}
BothWays == Pair
===============================================================================

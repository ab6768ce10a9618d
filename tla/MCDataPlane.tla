------------------------------ MODULE MCDataPlane -----------------------------
(* The node itself and two gateways, on a mesh of four of eight addresses. *)
EXTENDS DataPlane

CONSTANTS self, gw1, gw2

Net(a, l) == [ip |-> a, len |-> l]

Ask(a, S, G, all) == [ip |-> Net(a, 1), subnets |-> S, grants |-> G, grantsAll |-> all]

(* One gateway is granted the outer network and advertises half of it too, *)
(* and more than it is granted; the other advertises both halves.          *)
Gateways ==
    [n \in Node |->
        CASE n = self -> Ask(1, {}, {}, FALSE)
          [] n = gw1 -> Ask(2, {Net(4, 1), Net(4, 2), Net(0, 0), Net(0, 2)}, {Net(4, 1)}, FALSE)
          [] n = gw2 -> Ask(3, {Net(4, 2), Net(6, 2)}, {}, TRUE)]
===============================================================================

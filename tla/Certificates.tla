----------------------------- MODULE Certificates -----------------------------
(***************************************************************************)
(* What a certificate says and grants (liteway-core/src/cert.rs and the    *)
(* route rules of litewayd/src/main.rs).  Addresses are numbers of a few   *)
(* bits, networks pairs of an address and a prefix length; a signature     *)
(* stands for the CA key that made it.                                     *)
(***************************************************************************)
EXTENDS Integers

CONSTANT Bits   \* the length of an address

ASSUME BitsAssumption == Bits \in Nat

Address == 0 .. 2^Bits - 1
Network == [ip : Address, len : 0 .. Bits]

(* IpNetwork::contains *)
Covers(n, a) == n.ip \div 2^(Bits - n.len) = a \div 2^(Bits - n.len)

host_route(n) == [ip |-> n.ip, len |-> Bits]

is_default_route(n) == n.len = 0

(* A group "route:*", or one "route:<network>" around the route. *)
route_granted_by_cert(c, n) ==
    \/ c.grantsAll
    \/ \E g \in c.grants : Covers(g, n.ip) /\ g.len <= n.len

(* The certified address and the advertised subnets that are granted. *)
authorized_peer_routes(c) ==
    {host_route(c.ip)}
        \cup {n \in c.subnets : ~is_default_route(n) /\ route_granted_by_cert(c, n)}

(* Cert::verify with a CA key at a time. *)
Verify(c, ca, time) ==
    ~c.is_ca /\ c.not_before <= time /\ time <= c.not_after /\ c.signer = ca
===============================================================================

------------------------------ MODULE RouteTable ------------------------------
(***************************************************************************)
(* The route table of a node (litewayd/src/state.rs, RouteTable): a list   *)
(* of networks, each with the peer behind it.                              *)
(***************************************************************************)
EXTENDS Certificates, Sequences, FiniteSetsExt

NoPeer == 0

(* Vec::retain: the entries in E stay, in their order. *)
Retain(t, E) ==
    MapThenFoldSet(LAMBDA e, u : IF e \in E THEN Append(u, e) ELSE u, <<>>,
                   LAMBDA i : t[i], Max, DOMAIN t)

(* insert: the network is first taken from whoever has it. *)
Insert(t, n, p) ==
    Append(Retain(t, {e \in Range(t) : e.net # n}), [net |-> n, peer |-> p])

(* The routes of a certificate are sorted by address, then by prefix. *)
Before(m, n) == m.ip < n.ip \/ (m.ip = n.ip /\ m.len < n.len)

LastOf(N) == CHOOSE n \in N : \A m \in N \ {n} : Before(m, n)

(* One insert for each route of a certificate, the last of them last. *)
InsertAll(t, N, p) ==
    MapThenFoldSet(LAMBDA n, u : Insert(u, n, p), t, LAMBDA n : n, LastOf, N)

Matches(t, a) == {i \in DOMAIN t : Covers(t[i].net, a)}

(* Mutant: the first network that matches. *)
LookUpFirst(t, a) ==
    IF Matches(t, a) = {} THEN NoPeer
    ELSE t[CHOOSE i \in Matches(t, a) : \A j \in Matches(t, a) : i <= j].peer

(* lookup: the longest prefix, and the last of several as long. *)
LookUp(t, a) ==
    IF Matches(t, a) = {} THEN NoPeer
    ELSE t[CHOOSE i \in Matches(t, a) :
             \A j \in Matches(t, a) : \/ t[j].net.len < t[i].net.len
                                      \/ t[j].net.len = t[i].net.len /\ j <= i].peer

(* remove_peer *)
RemovePeer(t, p) == Retain(t, {e \in Range(t) : e.peer # p})
===============================================================================

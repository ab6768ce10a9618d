------------------------------- MODULE DataPlane ------------------------------
(***************************************************************************)
(* Where one node sends what the tunnel brings it, and what its peers and  *)
(* the node itself accept (litewayd/src/main.rs: add_peer, remove_peer,    *)
(* send_to_overlay, handle_data).  The peers come and go with the          *)
(* identities of Enrolment: a node that renews its certificate is a new    *)
(* peer with the old one's addresses, and the old one's session lasts      *)
(* until it times out.                                                     *)
(*                                                                         *)
(* add_peer and remove_peer are single steps here; NodeTables interleaves  *)
(* their parts.                                                            *)
(***************************************************************************)
EXTENDS Enrolment, RouteTable

CONSTANT Self   \* the node whose tables these are

ASSUME SelfAssumption == Self \in Node

VARIABLES
    sessions,   \* certificates of the peers with a session
    table,      \* Node::routes
    kernel,     \* networks the OS routes to the interface, the mesh's own aside
    contested   \* history: networks that two sessions have held at once since
                \* a session last took them

tableVars == <<sessions, table, kernel, contested>>
vars == <<enrolmentVars, tableVars>>

Up(n) == daemon[n] # Stopped

(* add_route for every route of the peer: one that exists is left as it is, *)
(* and that is no error.                                                   *)
KernelWith(c) == kernel \cup authorized_peer_routes(c)

(* A handshake, and add_peer at this node. *)
Connect(n) ==
    /\ n # Self /\ Up(n) /\ Up(Self) /\ Agree(daemon[n], daemon[Self])
    /\ LET c == daemon[n].cert
           routes == authorized_peer_routes(c)
       IN  /\ sessions' = sessions \cup {c}
           /\ table' = InsertAll(table, routes, c.key)
           /\ kernel' = KernelWith(c)
           /\ contested' = (contested \ routes)
                  \cup UNION {routes \cap authorized_peer_routes(d) : d \in sessions \ {c}}
    /\ UNCHANGED enrolmentVars

(* Mutant: only the route of the peer's own address is deleted. *)
KernelWithoutHost(c) == kernel \ {host_route(c.ip)}

(* del_route for every route of the peer. *)
KernelWithout(c) == kernel \ authorized_peer_routes(c)

(* remove_peer: the peer disconnected, or its timers ran out. *)
Remove(c) ==
    /\ c \in sessions /\ Up(Self)
    /\ sessions' = sessions \ {c}
    /\ table' = RemovePeer(table, c.key)
    /\ kernel' = KernelWithout(c)
    /\ UNCHANGED <<enrolmentVars, contested>>

(* The interface goes with the process, and its routes with it. *)
CrashSelf ==
    /\ Crash(Self)
    /\ sessions' = {} /\ table' = <<>> /\ kernel' = {} /\ contested' = {}

Others ==
    /\ EnrolmentNext /\ (Up(Self) => daemon'[Self] # Stopped)
    /\ UNCHANGED tableVars

Init ==
    /\ EnrolmentInit
    /\ sessions = {} /\ table = <<>> /\ kernel = {} /\ contested = {}

Next ==
    \/ Others \/ CrashSelf
    \/ \E n \in Node : Connect(n)
    \/ \E c \in sessions : Remove(c)

Spec == Init /\ [][Next]_vars

-------------------------------------------------------------------------------
(* Mutant: a node takes packets for its own address only. *)
accepts_own_address(c, dst) == Covers(host_route(c.ip), dst)

(* The peer's local_networks are the routes of its own certificate. *)
accepts_destination(c, dst) == \E n \in authorized_peer_routes(c) : Covers(n, dst)

peer_allows_ip_packet_source(c, src) == \E n \in authorized_peer_routes(c) : Covers(n, src)

TableNets == {table[i].net : i \in DOMAIN table}

(* Every variable has its type, and a key belongs to one certificate: the  *)
(* peers' ids, which are hashes of their keys, tell the sessions apart.    *)
TypeOK ==
    /\ now \in 0 .. MaxTime /\ nextKey \in 1 .. MaxKey + 1
    /\ caCert \in 0 .. MaxKey /\ caKey \in 0 .. MaxKey
    /\ \A n \in Node : certFile[n].key \in 0 .. MaxKey /\ keyFile[n] \in 0 .. MaxKey
    /\ \A i \in DOMAIN table : table[i].net \in Network /\ table[i].peer \in 1 .. MaxKey
    /\ kernel \subseteq Network /\ contested \subseteq Network
    /\ \A c, d \in sessions : c.key = d.key => c = d

(* A route leads to a peer with a session, which takes the packet by its   *)
(* own certificate and whose answer this node takes: both ends derive the  *)
(* same networks, and no route outlives its session.                       *)
RoutedIsAccepted ==
    \A dst \in Address : LookUp(table, dst) # NoPeer =>
        \E c \in sessions : /\ c.key = LookUp(table, dst)
                            /\ accepts_destination(c, dst)
                            /\ peer_allows_ip_packet_source(c, dst)

(* The most specific network wins: an address goes to a peer whose network *)
(* is at least as specific as any that only one of the connected peers     *)
(* holds, and to none only if there is no such network.                    *)
MostSpecificWins ==
    \A c \in sessions, dst \in Address :
        \A n \in authorized_peer_routes(c) \ contested : Covers(n, dst) =>
            \E d \in sessions : /\ d.key = LookUp(table, dst)
                                /\ \E m \in authorized_peer_routes(d) :
                                       Covers(m, dst) /\ m.len >= n.len

(* Every network of a connected peer has a route: RouteTable::insert gives *)
(* one network to one peer, and remove_peer returns it to nobody.          *)
HeldIsRouted == \A c \in sessions : authorized_peer_routes(c) \subseteq TableNets

(* The OS hands over what the table can route, except for a network that   *)
(* two sessions held at once, as during the renewal of a gateway's         *)
(* certificate; and it hands over nothing no peer is behind.               *)
KernelFollowsSessions ==
    /\ TableNets \subseteq kernel \cup contested
    /\ kernel \subseteq UNION {authorized_peer_routes(c) : c \in sessions}

(* A network the table routes to a live session is routed to the interface *)
(* by the OS: tearing one session down does not blackhole another's        *)
(* traffic.                                                                *)
RoutedReachesTunnel == TableNets \subseteq kernel
===============================================================================

------------------------------ MODULE NodeTables ------------------------------
(***************************************************************************)
(* The tables of one node that describe its peers, and the two threads     *)
(* that change them (litewayd/src/main.rs, add_peer and remove_peer).      *)
(*                                                                         *)
(* Every table has a lock of its own and no two locks are held at once, so *)
(* adding or removing a peer is a sequence of critical sections, one       *)
(* action each.  The receive thread adds peers and removes those that      *)
(* disconnect; the maintenance thread removes those whose timers ran out.  *)
(* The punch thread unbinds a lighthouse that moved; the send thread only  *)
(* reads.                                                                  *)
(*                                                                         *)
(* A slot is a lighthouse as configured: a name, and an address to be      *)
(* resolved.  The address of a session is where the other end's handshake  *)
(* came from: an endpoint of the peer or, if it was relayed, the relay's,  *)
(* which may be that of a lighthouse.                                      *)
(***************************************************************************)
EXTENDS Integers

CONSTANTS
    Peer,         \* ids of the peers this node has sessions with
    NoPeer,       \* no peer: an empty entry of the route table
    Net,          \* IP networks
    NetsOf,       \* authorized_peer_routes of each peer's certificate
    Addr,         \* socket addresses
    NoAddr,       \* no address
    Reaches,      \* addresses each peer's handshakes come from
    Slot,         \* the configured lighthouses
    Named,        \* the peers whose certificate carries each slot's name
    Resolves,     \* addresses each slot's configured address resolves to
    MaxSid        \* bound: sessions installed in one behaviour

ASSUME NoPeerAssumption == NoPeer \notin Peer
ASSUME NetsAssumption ==
    /\ NetsOf \in [Peer -> SUBSET Net]
    /\ \A p, q \in Peer : p # q => NetsOf[p] \cap NetsOf[q] = {}
ASSUME AddressAssumption ==
    /\ Reaches \in [Peer -> SUBSET Addr] /\ Named \in [Slot -> SUBSET Peer]
    /\ Resolves \in [Slot -> SUBSET Addr]
ASSUME MaxSidAssumption == MaxSid \in Nat

Thread == {"recv", "maintenance"}

VARIABLES
    peers,         \* each peer's session, by its rx session id; 0 if none
    rx_sessions,   \* <<rx session id, peer>>: the receive index
    routes,        \* the owner of each network in the route table
    kernel,        \* networks routed to the interface by the OS
    lighthouses,   \* the peer each slot is bound to
    address,       \* the address each slot was last resolved to
    job,           \* what each thread is in the middle of
    drops,         \* <<peer, session>>: what maintenance decided to drop and
                   \* has not yet; it keeps the peer alone, the session is history
    checking,      \* punch has copied the slots, and has yet to look for sessions
    cloned,        \* the slots' peers as punch copied them
    dialing,       \* slots punch saw without a session and has yet to dial
    nextSid,       \* source of rx session ids
    undisturbed    \* history: peers whose current session was added without
                   \* overlap with a removal of the same peer

tables == <<peers, rx_sessions, routes, kernel, lighthouses, address>>
punch == <<checking, cloned, dialing>>
vars == <<tables, job, drops, punch, nextSid, undisturbed>>

Idle == [step |-> "idle", peer |-> NoPeer, addr |-> NoAddr, sid |-> 0, old |-> 0]

Steps == {"idle", "add_rx", "add_routes", "add_kernel", "bind",
          "del_rx", "del_routes", "unbind", "del_kernel"}

(* Thread t moves from step a to step b of the same job. *)
Proceed(t, a, b) ==
    /\ job[t].step = a
    /\ job' = [job EXCEPT ![t] = IF b = "idle" THEN Idle ELSE [@ EXCEPT !.step = b]]
    /\ UNCHANGED <<drops, punch, nextSid, undisturbed>>

Adding(p) ==
    /\ job["recv"].peer = p
    /\ job["recv"].step \in {"add_rx", "add_routes", "add_kernel", "bind"}

Removing(p) ==
    \E t \in Thread : /\ job[t].peer = p
                      /\ job[t].step \in {"del_rx", "del_routes", "unbind", "del_kernel"}

-------------------------------------------------------------------------------
(* add_peer, on the receive thread. *)

(* The peers lock: session nextSid, whose handshake came from address a,   *)
(* takes the place of what p had.                                          *)
Install(p, a) ==
    /\ job["recv"] = Idle /\ nextSid < MaxSid /\ a \in Reaches[p]
    /\ peers' = [peers EXCEPT ![p] = nextSid]
    /\ job' = [job EXCEPT !["recv"] = [step |-> "add_rx", peer |-> p, addr |-> a,
                                       sid |-> nextSid, old |-> peers[p]]]
    /\ nextSid' = nextSid + 1
    /\ undisturbed' = IF Removing(p) THEN undisturbed \ {p} ELSE undisturbed \cup {p}
    /\ UNCHANGED <<rx_sessions, routes, kernel, lighthouses, address, drops, punch>>

AddRxSession(j) ==
    /\ rx_sessions' = {r \in rx_sessions : r[1] # j.old} \cup {<<j.sid, j.peer>>}
    /\ UNCHANGED <<peers, routes, kernel, lighthouses, address>>

(* RouteTable::insert for every route of the certificate. *)
AddRoutes(j) ==
    /\ routes' = [n \in Net |-> IF n \in NetsOf[j.peer] THEN j.peer ELSE routes[n]]
    /\ UNCHANGED <<peers, rx_sessions, kernel, lighthouses, address>>

AddKernelRoutes(j) ==
    /\ kernel' = kernel \cup NetsOf[j.peer]
    /\ UNCHANGED <<peers, rx_sessions, routes, lighthouses, address>>

(* Every slot that has the session's address or the peer's name.  A peer   *)
(* relayed by a lighthouse has the lighthouse's address.                   *)
BindLighthouse(j) ==
    /\ lighthouses' = [s \in Slot |->
           IF address[s] = j.addr \/ j.peer \in Named[s] THEN j.peer ELSE lighthouses[s]]
    /\ UNCHANGED <<peers, rx_sessions, routes, kernel, address>>

-------------------------------------------------------------------------------
(* remove_peer, on either thread. *)

(* The peers lock: whatever session the peer has now goes. *)
RemovePeer(t, p) ==
    /\ job[t] = Idle
    /\ peers' = [peers EXCEPT ![p] = 0]
    /\ undisturbed' = undisturbed \ {p}
    /\ job' = IF peers[p] = 0 THEN job
              ELSE [job EXCEPT ![t] = [step |-> "del_rx", peer |-> p, addr |-> NoAddr,
                                       sid |-> peers[p], old |-> 0]]
    /\ UNCHANGED <<rx_sessions, routes, kernel, lighthouses, address, punch, nextSid>>

(* A disconnect that the peer's session accepted. *)
Disconnected(p) ==
    /\ peers[p] # 0
    /\ RemovePeer("recv", p)
    /\ UNCHANGED drops

(* maintain_peers: under the peers lock, timers pick the sessions to drop; *)
(* the lock is released before any is removed.  The timers of a session    *)
(* start when it is installed and are longer than add_peer takes.          *)
DecideDrops(D) ==
    /\ job["maintenance"] = Idle /\ drops = {}
    /\ D # {} /\ \A p \in D : peers[p] # 0 /\ ~Adding(p)
    /\ drops' = {<<p, peers[p]>> : p \in D}
    /\ UNCHANGED <<tables, job, punch, nextSid, undisturbed>>

(* Whatever session the peer has by now is removed. *)
DropDecided(d) ==
    /\ d \in drops
    /\ RemovePeer("maintenance", d[1])
    /\ drops' = drops \ {d}

(* Mutant: index entries are removed by peer, as routes are. *)
DelRxSessionOfPeer(j) ==
    /\ rx_sessions' = {r \in rx_sessions : r[2] # j.peer}
    /\ UNCHANGED <<peers, routes, kernel, lighthouses, address>>

DelRxSession(j) ==
    /\ rx_sessions' = {r \in rx_sessions : r[1] # j.sid}
    /\ UNCHANGED <<peers, routes, kernel, lighthouses, address>>

(* RouteTable::remove_peer: by peer, not by session. *)
DelRoutes(j) ==
    /\ routes' = [n \in Net |-> IF routes[n] = j.peer THEN NoPeer ELSE routes[n]]
    /\ UNCHANGED <<peers, rx_sessions, kernel, lighthouses, address>>

UnbindLighthouse(j) ==
    /\ lighthouses' = [s \in Slot |->
           IF lighthouses[s] = j.peer THEN NoPeer ELSE lighthouses[s]]
    /\ UNCHANGED <<peers, rx_sessions, routes, kernel, address>>

(* Mutant: the routes of the interface are flushed, not the peer's. *)
FlushKernelRoutes(j) ==
    /\ kernel' = {}
    /\ UNCHANGED <<peers, rx_sessions, routes, lighthouses, address>>

DelKernelRoutes(j) ==
    /\ kernel' = kernel \ NetsOf[j.peer]
    /\ UNCHANGED <<peers, rx_sessions, routes, lighthouses, address>>

-------------------------------------------------------------------------------
(* connect_lighthouses and refresh_lighthouse_address, on the punch thread. *)

(* The slots are copied under their own lock... *)
CloneSlots ==
    /\ ~checking /\ dialing = {}
    /\ checking' = TRUE /\ cloned' = lighthouses
    /\ UNCHANGED <<tables, job, drops, dialing, nextSid, undisturbed>>

(* ...and compared with the sessions there are under that of the peers. *)
SeeUnconnected ==
    /\ checking /\ checking' = FALSE
    /\ dialing' = {s \in Slot : cloned[s] = NoPeer \/ peers[cloned[s]] = 0}
    /\ cloned' = [s \in Slot |-> NoPeer]
    /\ UNCHANGED <<tables, job, drops, nextSid, undisturbed>>

(* Mutant: the slot moves and stays bound. *)
RefreshKeepsPeer(s, a) ==
    /\ s \in dialing /\ a \in Resolves[s] \cup {address[s]}
    /\ dialing' = dialing \ {s}
    /\ address' = [address EXCEPT ![s] = a]
    /\ UNCHANGED <<peers, rx_sessions, routes, kernel, lighthouses, job, drops, checking,
                   cloned, nextSid, undisturbed>>

(* The configured address is resolved with no lock held, if that is due    *)
(* and succeeds; a new address unbinds the slot, whoever has bound it      *)
(* meanwhile.                                                              *)
Refresh(s, a) ==
    /\ s \in dialing /\ a \in Resolves[s] \cup {address[s]}
    /\ dialing' = dialing \ {s}
    /\ address' = [address EXCEPT ![s] = a]
    /\ lighthouses' = IF a = address[s] THEN lighthouses
                      ELSE [lighthouses EXCEPT ![s] = NoPeer]
    /\ UNCHANGED <<peers, rx_sessions, routes, kernel, job, drops, checking, cloned,
                   nextSid, undisturbed>>

-------------------------------------------------------------------------------
Init ==
    /\ peers = [p \in Peer |-> 0] /\ rx_sessions = {}
    /\ routes = [n \in Net |-> NoPeer] /\ kernel = {}
    /\ lighthouses = [s \in Slot |-> NoPeer]
    /\ address \in [Slot -> Addr] /\ \A s \in Slot : address[s] \in Resolves[s]
    /\ job = [t \in Thread |-> Idle]
    /\ drops = {} /\ nextSid = 1 /\ undisturbed = {}
    /\ checking = FALSE /\ cloned = [s \in Slot |-> NoPeer] /\ dialing = {}

AddStep ==
    \/ Proceed("recv", "add_rx", "add_routes") /\ AddRxSession(job["recv"])
    \/ Proceed("recv", "add_routes", "add_kernel") /\ AddRoutes(job["recv"])
    \/ Proceed("recv", "add_kernel", "bind") /\ AddKernelRoutes(job["recv"])
    \/ Proceed("recv", "bind", "idle") /\ BindLighthouse(job["recv"])

RemoveStep(t) ==
    \/ Proceed(t, "del_rx", "del_routes") /\ DelRxSession(job[t])
    \/ Proceed(t, "del_routes", "unbind") /\ DelRoutes(job[t])
    \/ Proceed(t, "unbind", "del_kernel") /\ UnbindLighthouse(job[t])
    \/ Proceed(t, "del_kernel", "idle") /\ DelKernelRoutes(job[t])

Next ==
    \/ \E p \in Peer, a \in Addr : Install(p, a)
    \/ \E p \in Peer : Disconnected(p)
    \/ \E s \in Slot, a \in Addr : Refresh(s, a)
    \/ \E D \in SUBSET Peer : DecideDrops(D)
    \/ \E d \in drops : DropDecided(d)
    \/ AddStep \/ CloneSlots \/ SeeUnconnected
    \/ \E t \in Thread : RemoveStep(t)

Spec == Init /\ [][Next]_vars
-------------------------------------------------------------------------------
(* Every table has its type, and a thread at work has a peer. *)
TypeOK ==
    /\ peers \in [Peer -> Nat] /\ rx_sessions \subseteq (Nat \X Peer)
    /\ routes \in [Net -> Peer \cup {NoPeer}] /\ kernel \subseteq Net
    /\ lighthouses \in [Slot -> Peer \cup {NoPeer}] /\ address \in [Slot -> Addr]
    /\ job \in [Thread -> [step : Steps, peer : Peer \cup {NoPeer},
                           addr : Addr \cup {NoAddr}, sid : Nat, old : Nat]]
    /\ \A t \in Thread : job[t].step # "idle" => job[t].peer \in Peer
    /\ drops \subseteq (Peer \X Nat) /\ checking \in BOOLEAN
    /\ cloned \in [Slot -> Peer \cup {NoPeer}] /\ dialing \subseteq Slot
    /\ nextSid \in Nat /\ undisturbed \subseteq Peer

(* A session in the peers table can be received on: from the moment        *)
(* add_peer has written the index, handle_session_packet finds it, however *)
(* removals of earlier sessions of the same peer interleave.               *)
SessionsIndexed ==
    \A p \in Peer : peers[p] # 0 /\ ~(Adding(p) /\ job["recv"].step = "add_rx")
        => <<peers[p], p>> \in rx_sessions

(* A bound slot names a peer that has the slot's name or is reached at the *)
(* address the slot has now, although the address is resolved with no lock *)
(* held and the slot may be bound meanwhile (bind_lighthouse,              *)
(* refresh_lighthouse_address).                                            *)
SlotsMatch ==
    \A s \in Slot : lighthouses[s] # NoPeer =>
        \/ lighthouses[s] \in Named[s]
        \/ address[s] \in Reaches[lighthouses[s]]

(* Whatever earlier overlaps of add_peer and remove_peer left behind, an   *)
(* add_peer that no removal of the same peer overlaps puts right: the      *)
(* peers, the receive index, the route table and the kernel's routes agree *)
(* about the peer until it is removed, whatever is done to other peers.    *)
AddedWhole ==
    \A p \in undisturbed : ~Adding(p) =>
        /\ peers[p] # 0 /\ <<peers[p], p>> \in rx_sessions
        /\ \A n \in NetsOf[p] : routes[n] = p /\ n \in kernel

Quiet == drops = {} /\ \A t \in Thread : job[t] = Idle

(* With no thread at work on the tables, a peer with a session owns its    *)
(* routes, so that handle_lighthouse_response needs no new handshake for a *)
(* peer it knows.                                                          *)
EstablishedIsRouted ==
    Quiet => \A p \in Peer : peers[p] # 0 => \A n \in NetsOf[p] : routes[n] = p

(* With no thread at work on the tables, a route leads to a peer with a    *)
(* session; send_to_overlay drops what a route without one attracts and    *)
(* asks no lighthouse.                                                     *)
RoutesLeadToSessions ==
    Quiet => \A n \in Net : routes[n] # NoPeer => peers[routes[n]] # 0

(* A session that maintain_peers drops is the one whose timers ran out. *)
DropsAreCurrent == \A d \in drops : peers[d[1]] \in {0, d[2]}

(* A slot is bound to the lighthouse it is configured for, so that         *)
(* request_discovery asks a lighthouse.                                    *)
SlotsHoldLighthouses ==
    \A s \in Slot : lighthouses[s] # NoPeer => lighthouses[s] \in Named[s]
===============================================================================

------------------------------- MODULE Sessions -------------------------------
(***************************************************************************)
(* How nodes agree on session keys and use them: both ends may dial each   *)
(* other, handshakes cross, answers are repeated from a cache, sessions    *)
(* are replaced, dropped, closed and lost in restarts, and packets flow    *)
(* under whatever session each end currently holds (litewayd/src/main.rs,  *)
(* state.rs; liteway-core/src/handshake.rs).                               *)
(*                                                                         *)
(* The network is the set of everything ever sent: a message in it may     *)
(* reach its addressee at any time, any number of times, or never.  A      *)
(* retransmitted handshake_1 is byte-identical, hence the same element.    *)
(*                                                                         *)
(* A handler is one step: each runs on the receive thread, which takes     *)
(* every message.  Endpoints, relaying, clocks and routes are left out; a  *)
(* timer is an action that may happen whenever what it times exists.       *)
(***************************************************************************)
EXTENDS ReplayWindow, FiniteSets

CONSTANTS
    Node,       \* node ids: u32 numbers derived from the certificates' keys
    Addr,       \* socket addresses
    Contacts,   \* <<n, m, known, a>>: n may dial m at address a, as a peer of
                \* known id or, a configured lighthouse, by address only
    CacheMax,   \* HANDSHAKE_CACHE_MAX_ENTRIES
    MaxId,      \* bound: session ids drawn in one behaviour
    MaxSeq      \* bound: packets a session sends of its own accord

ASSUME NodeAssumption == Node \subseteq Nat
ASSUME ContactsAssumption == Contacts \subseteq Node \X Node \X BOOLEAN \X Addr
ASSUME BoundsAssumption == CacheMax \in Nat \ {0} /\ MaxId \in Nat /\ MaxSeq \in Nat

VARIABLES
    peers,      \* the nodes' peer tables, one session per peer
    pending,    \* the nodes' unanswered handshakes
    cache,      \* the nodes' caches of answers already given
    hs1, hs2,   \* the handshake_1 and handshake_2 messages sent
    packets,    \* the session packets sent
    punching,   \* <<n, m, a>>: lighthouse dials past their check, not yet sent
    nextId,     \* source of session ids: random u32s, here all distinct
    accepted    \* history: the packets some window accepted

vars == <<peers, pending, cache, hs1, hs2, packets, punching, nextId, accepted>>

(***************************************************************************)
(* The session key is derived from both handshake messages, each of which  *)
(* carries the fresh receive id of its sender, so a key is the pair of     *)
(* ids.  The traffic key of a direction adds its source and destination.   *)
(***************************************************************************)
Key == [i : Nat, r : Nat]

Session == [at : Node, peer : Node, initiator : Node, key : Key,
            tx : Nat, rx : Nat, tx_seq : Nat, win : Window]

Pending == [at : Node, to : Node, known : BOOLEAN, addr : Addr, sid : Nat]
Hs1 == [from : Node, to : Node, sid : Nat]
Hs2 == [from : Node, to : Node, sid : Nat, rsid : Nat]
Packet == [kind : {"data", "keepalive", "ack", "disconnect"},
           from : Node, to : Node, key : Key, sid : Nat, seq : Nat]

Between(n, m) == {s \in peers : s.at = n /\ s.peer = m}

-------------------------------------------------------------------------------
(* Installing a session. *)

(* Mutant: each end prefers the session it initiated itself. *)
PreferredOwn(our, peer) == our

(* The end whose handshake wins when both dialled at once. *)
Preferred(our, peer) == IF our < peer THEN our ELSE peer

(* accept_handshake_session: may session s, just negotiated, take the      *)
(* place of what its node holds for the same peer?                         *)
AcceptHandshakeSession(s, simultaneous) ==
    \/ ~simultaneous
    \/ Between(s.at, s.peer) = {}
    \/ /\ s.initiator = Preferred(s.at, s.peer)
       /\ \A old \in Between(s.at, s.peer) : old.initiator # s.initiator

(* add_peer: the peer table after session s was offered to it.  The        *)
(* receive index rx_sessions always names the rx ids of the table, so it   *)
(* is read off the sessions themselves.                                    *)
AddPeer(s, simultaneous) ==
    IF AcceptHandshakeSession(s, simultaneous)
    THEN (peers \ Between(s.at, s.peer)) \cup {s}
    ELSE peers

(* process_handshake_1: the responder's end of the session that answer a   *)
(* (its own handshake_2) creates.                                          *)
ResponderEnd(a) ==
    [at |-> a.from, peer |-> a.to, initiator |-> a.to,
     key |-> [i |-> a.sid, r |-> a.rsid],
     tx |-> a.sid, rx |-> a.rsid, tx_seq |-> 0, win |-> NewWindow]

(* Mutant: the initiator mixes up which id is for sending. *)
InitiatorEndSwapped(a) ==
    [at |-> a.to, peer |-> a.from, initiator |-> a.to,
     key |-> [i |-> a.sid, r |-> a.rsid],
     tx |-> a.sid, rx |-> a.rsid, tx_seq |-> 0, win |-> NewWindow]

(* process_handshake_2: the initiator's end of the same session. *)
InitiatorEnd(a) ==
    [at |-> a.to, peer |-> a.from, initiator |-> a.to,
     key |-> [i |-> a.sid, r |-> a.rsid],
     tx |-> a.rsid, rx |-> a.sid, tx_seq |-> 0, win |-> NewWindow]

-------------------------------------------------------------------------------
(* Handshakes. *)

(* Mutant: a dial by address only is never in flight. *)
InFlightById(n, m, known, a) ==
    \E p \in pending : p.at = n /\ p.known /\ known /\ p.to = m

(* start_handshake's check: two dials are the same if they are to one id,  *)
(* or, when either is by address only, to one address.                     *)
InFlight(n, m, known, a) ==
    \E p \in pending :
        /\ p.at = n
        /\ IF p.known /\ known THEN p.to = m ELSE p.addr = a

(* The rest of start_handshake: create the message, send it and enter it   *)
(* as pending.                                                             *)
StartHandshake(n, m, known, a) ==
    /\ nextId < MaxId
    /\ nextId' = nextId + 1
    /\ hs1' = hs1 \cup {[from |-> n, to |-> m, sid |-> nextId]}
    /\ pending' = pending \cup
          {[at |-> n, to |-> m, known |-> known, addr |-> a, sid |-> nextId]}
    /\ UNCHANGED <<peers, cache, hs2, packets, accepted>>

(* handle_lighthouse_response: the receive thread dials a peer it has no   *)
(* session with.                                                           *)
Discover(n, m, a) ==
    /\ <<n, m, TRUE, a>> \in Contacts /\ n # m
    /\ Between(n, m) = {} /\ ~InFlight(n, m, TRUE, a)
    /\ StartHandshake(n, m, TRUE, a)
    /\ UNCHANGED punching

(* connect_lighthouses: the punch thread, done with the lighthouse before, *)
(* has resolved the name of lighthouse m to an address, finds no handshake *)
(* in flight there and lets go of the lock...                              *)
(*                                                                         *)
(* A session with m does not rule this out: the thread noted who is        *)
(* connected before it resolved any name, and by the slots, which may not  *)
(* be bound to the peers they stand for (NodeTables).                      *)
PunchCheck(n, m, a) ==
    /\ <<n, m, FALSE, a>> \in Contacts /\ n # m
    /\ ~ \E c \in punching : c[1] = n
    /\ ~InFlight(n, m, FALSE, a)
    /\ punching' = punching \cup {<<n, m, a>>}
    /\ UNCHANGED <<peers, pending, cache, hs1, hs2, packets, nextId, accepted>>

(* ...before it dials. *)
PunchDial(n, m, a) ==
    /\ <<n, m, a>> \in punching
    /\ punching' = punching \ {<<n, m, a>>}
    /\ StartHandshake(n, m, FALSE, a)

(* retransmit_handshakes dropping an expired handshake. *)
GiveUp(p) ==
    /\ p \in pending
    /\ pending' = pending \ {p}
    /\ UNCHANGED <<peers, cache, hs1, hs2, packets, nextId, accepted, punching>>

CachedAt(n) == {a \in cache : a.from = n}

(* Mutant: a full cache gives up its newest entry. *)
EvictedNewest(n) ==
    IF Cardinality(CachedAt(n)) < CacheMax THEN {}
    ELSE {a \in CachedAt(n) : \A b \in CachedAt(n) : b.rsid <= a.rsid}

(* HandshakeCache::insert into a full cache: the oldest entry goes, which  *)
(* is the one whose session id was drawn first.                            *)
Evicted(n) ==
    IF Cardinality(CachedAt(n)) < CacheMax THEN {}
    ELSE {a \in CachedAt(n) : \A b \in CachedAt(n) : a.rsid <= b.rsid}

Remember(a) == (cache \ Evicted(a.from)) \cup {a}

(* handle_handshake_1 for a repeated message: the same answer again. *)
AnswerFromCache(n, h) ==
    /\ h \in hs1 /\ h.to = n
    /\ \E a \in CachedAt(n) : a.sid = h.sid /\ hs2' = hs2 \cup {a}
    /\ UNCHANGED <<peers, pending, cache, hs1, packets, nextId, accepted, punching>>

(* handle_handshake_1 for a new message: remember the answer, offer the    *)
(* session to the peer table, and answer whether or not it was taken.      *)
HandleHandshake1(n, h) ==
    /\ h \in hs1 /\ h.to = n /\ h.from # n
    /\ ~ \E a \in CachedAt(n) : a.sid = h.sid
    /\ nextId < MaxId
    /\ nextId' = nextId + 1
    /\ LET a == [from |-> n, to |-> h.from, sid |-> h.sid, rsid |-> nextId]
           simultaneous ==
               \E p \in pending : p.at = n /\ p.known /\ p.to = h.from
       IN  /\ cache' = Remember(a)
           /\ peers' = AddPeer(ResponderEnd(a), simultaneous)
           /\ hs2' = hs2 \cup {a}
    /\ UNCHANGED <<pending, hs1, packets, accepted, punching>>

(* Mutant: a verified answer leaves the handshake pending. *)
PendingKept(p) == pending

(* A handshake is consumed by the first answer that verifies. *)
Answered(p) == pending \ {p}

(* handle_handshake_2: only a pending handshake can be answered, and only  *)
(* by the peer it was meant for, if that is known.                         *)
HandleHandshake2(n, a) ==
    /\ a \in hs2 /\ a.to = n
    /\ \E p \in pending :
          /\ p.at = n /\ p.sid = a.sid
          /\ p.known => p.to = a.from
          /\ pending' = Answered(p)
    /\ LET simultaneous == \E s \in Between(n, a.from) : s.initiator # n
       IN  peers' = AddPeer(InitiatorEnd(a), simultaneous)
    /\ UNCHANGED <<cache, hs1, hs2, packets, nextId, accepted, punching>>

(* HandshakeCache::cleanup of an entry past its TTL of 60 s.  The ten      *)
(* copies of a handshake_1 leave within less than half of that, so with    *)
(* network delays below the rest no copy of it arrives any more.           *)
CacheExpire(a) ==
    /\ a \in cache
    /\ cache' = cache \ {a}
    /\ hs1' = {h \in hs1 : h.sid # a.sid}
    /\ UNCHANGED <<peers, pending, hs2, packets, nextId, accepted, punching>>

-------------------------------------------------------------------------------
(* Packets. *)

(* peer_tx and next_seq: a packet of the given kind under session s. *)
PacketOf(s, kind) ==
    [kind |-> kind, from |-> s.at, to |-> s.peer, key |-> s.key,
     sid |-> s.tx, seq |-> s.tx_seq + 1]

(* Mutant: the number drawn is not stored back. *)
SeqNotStored(s) == s

Advanced(s) == [s EXCEPT !.tx_seq = @ + 1]

(* send_to_overlay and request_discovery ("data"), maintain_peers          *)
(* ("keepalive"): session s sends a packet.                                *)
Send(s, kind) ==
    /\ s \in peers /\ s.tx_seq < MaxSeq
    /\ packets' = packets \cup {PacketOf(s, kind)}
    /\ peers' = (peers \ {s}) \cup {Advanced(s)}
    /\ UNCHANGED <<pending, cache, hs1, hs2, nextId, accepted, punching>>

(* The receive id names session s, and p decrypts under its key. *)
Opens(s, p) ==
    /\ s.at = p.to /\ s.rx = p.sid
    /\ s.peer = p.from /\ s.key = p.key

(* handle_session_packet: packet p passes the window of session s.  A      *)
(* keepalive is acked under the session it came in on, a disconnect        *)
(* removes the peer.                                                       *)
HandleSessionPacket(s, p) ==
    /\ s \in peers /\ p \in packets
    /\ Opens(s, p) /\ Accepts(s.win, p.seq)
    /\ accepted' = accepted \cup {p}
    /\ LET t == [s EXCEPT !.win = AfterAccept(@, p.seq)]
       IN  \/ /\ p.kind \in {"data", "ack"}
              /\ peers' = (peers \ {s}) \cup {t}
              /\ UNCHANGED packets
           \/ /\ p.kind = "keepalive"
              /\ peers' = (peers \ {s}) \cup {Advanced(t)}
              /\ packets' = packets \cup {PacketOf(t, "ack")}
           \/ /\ p.kind = "disconnect"
              /\ peers' = peers \ {s}
              /\ UNCHANGED packets
    /\ UNCHANGED <<pending, cache, hs1, hs2, nextId, punching>>

(* remove_peer for a session whose keepalive went unanswered, or that      *)
(* expired.                                                                *)
DropPeer(s) ==
    /\ s \in peers
    /\ peers' = peers \ {s}
    /\ UNCHANGED <<pending, cache, hs1, hs2, packets, nextId, accepted, punching>>

(* A node stops and starts again with empty tables. *)
Forget(n) ==
    /\ peers' = {s \in peers : s.at # n}
    /\ pending' = {p \in pending : p.at # n}
    /\ cache' = {a \in cache : a.from # n}
    /\ punching' = {c \in punching : c[1] # n}
    /\ UNCHANGED <<hs1, hs2, nextId, accepted>>

Crash(n) == Forget(n) /\ UNCHANGED packets

(* notify_shutdown: every peer is told, then the process ends. *)
Shutdown(n) ==
    /\ Forget(n)
    /\ packets' = packets \cup
           {PacketOf(s, "disconnect") : s \in {t \in peers : t.at = n}}

-------------------------------------------------------------------------------
Init ==
    /\ peers = {} /\ pending = {} /\ cache = {}
    /\ hs1 = {} /\ hs2 = {} /\ packets = {}
    /\ punching = {} /\ nextId = 1 /\ accepted = {}

(* Handshakes alone: no timer fires and no node stops. *)
DialNext ==
    \/ \E n, m \in Node, a \in Addr :
          Discover(n, m, a) \/ PunchCheck(n, m, a) \/ PunchDial(n, m, a)
    \/ \E n \in Node, h \in hs1 : AnswerFromCache(n, h) \/ HandleHandshake1(n, h)
    \/ \E n \in Node, a \in hs2 : HandleHandshake2(n, a)

(* Running nodes, timers included. *)
RunNext ==
    \/ DialNext
    \/ \E p \in pending : GiveUp(p)
    \/ \E a \in cache : CacheExpire(a)
    \/ \E s \in peers, kind \in {"data", "keepalive"} : Send(s, kind)
    \/ \E s \in peers, p \in packets : HandleSessionPacket(s, p)
    \/ \E s \in peers : DropPeer(s)

Next == RunNext \/ \E n \in Node : Crash(n) \/ Shutdown(n)

DialSpec == Init /\ [][DialNext]_vars
RunSpec == Init /\ [][RunNext]_vars
Spec == Init /\ [][Next]_vars

-------------------------------------------------------------------------------
(* Every table and message has its type, and ids are drawn from 1 up. *)
TypeOK ==
    /\ peers \subseteq Session /\ pending \subseteq Pending
    /\ cache \subseteq Hs2 /\ hs1 \subseteq Hs1 /\ hs2 \subseteq Hs2
    /\ packets \subseteq Packet /\ accepted \subseteq packets
    /\ punching \subseteq Node \X Node \X Addr /\ nextId \in Nat \ {0}

(* Two table entries under one key are the two ends of one session: they   *)
(* name each other, agree on who initiated it, and each sends with the id  *)
(* the other receives with (add_peer as called by the two handlers).       *)
KeysMeet ==
    \A s, t \in peers : s # t /\ s.key = t.key =>
        /\ s.at = t.peer /\ s.peer = t.at
        /\ s.initiator = t.initiator
        /\ s.tx = t.rx /\ s.rx = t.tx

(* No sequence number is spent twice under one traffic key: whatever       *)
(* sessions came and went, the numbers of the packets ever sent under the  *)
(* key a session holds are at most its tx_seq.  add_peer resets tx_seq to  *)
(* 0, so this fails if any path installs the same key again.               *)
SeqNeverReused ==
    \A s \in peers, p \in packets :
        p.from = s.at /\ p.key = s.key => p.seq <= s.tx_seq

(* A packet that was accepted once is never accepted again: the window of  *)
(* every session that could still open it refuses it.  add_peer installs   *)
(* an empty window, so this too fails if a key is ever installed twice.    *)
AtMostOnce ==
    \A s \in peers, p \in accepted : Opens(s, p) => ~Accepts(s.win, p.seq)

Channel == INSTANCE SecureChannel

(* All that sessions do to packets, across crossed and repeated            *)
(* handshakes, replaced and dropped sessions, shutdowns and restarts, is   *)
(* to seal them under fresh nonces (next_seq, session keys) and to hand    *)
(* each over at most once (ReplayWindow::accept in handle_session_packet). *)
ImplementsSecureChannel == Channel!Spec

(* A node gives one answer to one handshake_1, however often and over      *)
(* whatever path it arrives: "A retransmitted handshake_1 must be answered *)
(* with the *same* handshake_2" (state.rs, HandshakeCache).                *)
OneAnswer ==
    \A a, b \in hs2 : a.from = b.from /\ a.sid = b.sid => a = b

(* What HandshakeCache::insert leaves of that in a cache of limited size:  *)
(* a node answers a handshake_1 anew only after at least CacheMax answers  *)
(* to others since its previous answer to this one, however the repeats    *)
(* and the other handshakes interleave.                                    *)
AnewOnlyAfterMany ==
    \A a, b \in hs2 :
        a.from = b.from /\ a.sid = b.sid /\ a.rsid < b.rsid
           => Cardinality({c \in hs2 : /\ c.from = a.from
                                      /\ a.rsid < c.rsid /\ c.rsid < b.rsid})
                 >= CacheMax

(* Nothing in flight can change a session any more: no handshake awaits an *)
(* answer or is about to be sent, and every handshake_1 has been answered. *)
Settled ==
    /\ pending = {} /\ punching = {}
    /\ \A h \in hs1 : \E a \in cache : a.from = h.to /\ a.sid = h.sid

(* No node has two handshakes to one peer in flight: "Start a handshake    *)
(* unless one to the same peer is already in flight" (start_handshake).    *)
OneInFlight ==
    \A p, q \in pending : p.at = q.at /\ p.to = q.to => p = q

(* What the two critical sections of start_handshake do ensure, called     *)
(* from two threads: no node has two handshakes in flight by id to one     *)
(* peer, or two by endpoint to one address.                                *)
OneInFlightPerWay ==
    \A p, q \in pending :
        p.at = q.at =>
            /\ p.known /\ q.known /\ p.to = q.to => p = q
            /\ ~p.known /\ ~q.known /\ p.addr = q.addr => p = q

(* When both ends dial each other at once the two handshakes do not settle *)
(* on different keys (state.rs, accept_handshake_session).                 *)
SettleOnOneKey ==
    Settled => \A s, t \in peers : s.at = t.peer /\ s.peer = t.at => s.key = t.key

(* Node n started two handshakes with m. *)
DialledTwice(n, m) ==
    \E h, g \in hs1 : h # g /\ h.from = n /\ g.from = n /\ h.to = m /\ g.to = m

(* Node n gave two answers to one handshake_1 of m. *)
AnsweredTwice(n, m) ==
    \E a, b \in hs2 : /\ a # b /\ a.sid = b.sid
                      /\ a.from = n /\ b.from = n /\ a.to = m /\ b.to = m

(* The three races that can leave the ends on different keys.  Handshakes  *)
(* crossed, and the lower id holds the session the higher one initiated    *)
(* and the other way round; start_handshake let one end dial the other     *)
(* twice, by id and by endpoint or at two addresses; or a full cache let   *)
(* one end answer a handshake_1 twice.  In every other outcome of          *)
(* accept_handshake_session both ends agree, from the moment both have a   *)
(* session.                                                                *)
OnlyRacesSplit ==
    \A s, t \in peers :
        s.at = t.peer /\ s.peer = t.at /\ s.key # t.key /\ s.at < t.at
           => \/ s.initiator = t.at /\ t.initiator = s.at
              \/ DialledTwice(s.at, t.at) \/ DialledTwice(t.at, s.at)
              \/ AnsweredTwice(s.at, t.at) \/ AnsweredTwice(t.at, s.at)
===============================================================================

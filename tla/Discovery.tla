------------------------------- MODULE Discovery ------------------------------
(***************************************************************************)
(* How nodes behind NATs find each other through a lighthouse              *)
(* (litewayd/src/main.rs: send_to_overlay, request_discovery,              *)
(* handle_lighthouse_query, handle_lighthouse_response, start_handshake,   *)
(* connect_lighthouses), and find each other again after faults.           *)
(*                                                                         *)
(* A client has a new endpoint after every restart: endpoints are numbers, *)
(* 0 for none.  A NAT lets a packet in from an endpoint its client is      *)
(* sending to.  Messages are fast against the unit of time, and a client   *)
(* that has traffic for another has a packet for it in every unit.         *)
(*                                                                         *)
(* Of the session keys, which Sessions follows one by one, this module     *)
(* keeps whether the two ends of a connection hold the same one.           *)
(***************************************************************************)
EXTENDS Integers

CONSTANTS
    Client,             \* node ids of the clients
    Traffic,            \* <<c, d>>: c has packets for d
    Retry,              \* DISCOVERY_RETRY
    HandshakeTimeout,   \* handshake_timeout_secs
    MaxFaults           \* bound: faults in one behaviour

ASSUME ClientAssumption == Client \subseteq Nat \ {0}
ASSUME DiscoveryAssumption ==
    Retry \in Nat \ {0} /\ HandshakeTimeout \in Nat \ {0} /\ MaxFaults \in Nat

Pair == {p \in Client \X Client : p[1] # p[2]}

ASSUME TrafficAssumption == Traffic \subseteq Pair

Back(p) == <<p[2], p[1]>>

VARIABLES
    endpoint,     \* each client's current endpoint
    registered,   \* the lighthouse's peers: the endpoint of each client
    bound,        \* clients whose lighthouse slot has a peer
    link,         \* link[<<c, d>>]: c's session with d, d's endpoint and who
                  \* initiated it
    agreed,       \* pairs whose two ends hold sessions under the same key
    pending,      \* pending[<<c, d>>]: c's handshake to d, endpoint and time
                  \* left, and what became of d's answer
    asked,        \* discovery_pending: time left before c may ask for d again
    idle,         \* traffic with no packet yet in this unit of time
    unasked,      \* history: how long c has had a lighthouse but no route for d
                  \* and has not asked
    net,          \* messages under way
    faults        \* faults so far

vars == <<endpoint, registered, bound, link, agreed, pending, asked, idle,
          unasked, net, faults>>
tables == <<endpoint, registered, bound, link, agreed, faults>>

Link == [addr : Nat, init : Nat]
NoLink == [addr |-> 0, init |-> 0]

(* The answer to a handshake_1: "none" yet; given, and "held" by its giver *)
(* as its session; given, and "lost": not taken, or replaced or dropped    *)
(* since.  It stays in the giver's cache for longer than copies arrive.    *)
Dial == [to : Nat, left : 0 .. HandshakeTimeout, answer : {"none", "held", "lost"}]
NotPending == [to |-> 0, left |-> 0, answer |-> "none"]

Query(p) == [type |-> "query", pair |-> p]
Response(p, a) == [type |-> "response", pair |-> p, addr |-> a]
Handshake2(p) == [type |-> "handshake_2", pair |-> p]

-------------------------------------------------------------------------------
(* Asking. *)

(* Mutant: the time of the last attempt is kept even if it was refused. *)
ChargedAlways(p) == Retry

(* Only an attempt that is let through is entered, and it is entered       *)
(* before it is known whether there is a lighthouse to ask.                *)
Charged(p) == IF asked[p] > 0 THEN asked[p] ELSE Retry

(* Every connected lighthouse is asked, of which there is one here. *)
RequestDiscovery(p) ==
    /\ asked' = [asked EXCEPT ![p] = Charged(p)]
    /\ IF asked[p] = 0 /\ p[1] \in bound
       THEN net' = net \cup {Query(p)} /\ unasked' = [unasked EXCEPT ![p] = 0]
       ELSE UNCHANGED <<net, unasked>>

(* send_to_overlay: the packet goes to the peer or starts a lookup. *)
SendToOverlay(p) ==
    /\ p \in idle /\ idle' = idle \ {p}
    /\ \/ link[p] # NoLink /\ UNCHANGED <<asked, unasked, net>>
       \/ link[p] = NoLink /\ RequestDiscovery(p)
    /\ UNCHANGED <<tables, pending>>

(* Mutant: only the asker is answered. *)
AnswerAsker(p) == {Response(p, registered[p[2]])}

(* The asker learns of the target, and the target of the asker. *)
AnswerAndIntroduce(p) == {Response(p, registered[p[2]]), Response(Back(p), registered[p[1]])}

(* handle_lighthouse_query.  A query under a session the lighthouse lost   *)
(* is not understood; "not found" changes nothing at the asker.            *)
HandleQuery(p) ==
    /\ Query(p) \in net
    /\ net' = (net \ {Query(p)}) \cup
           IF registered[p[1]] # 0 /\ registered[p[2]] # 0
           THEN AnswerAndIntroduce(p) ELSE {}
    /\ UNCHANGED <<tables, pending, asked, idle, unasked>>

(* handle_lighthouse_response: dial, unless there is a session or the peer *)
(* is being dialled already, at whatever endpoint.                         *)
HandleResponse(m) ==
    /\ m \in net /\ m.type = "response"
    /\ net' = net \ {m}
    /\ LET p == m.pair IN
       pending' = IF /\ p[1] \in bound /\ registered[p[1]] = endpoint[p[1]]
                     /\ link[p] = NoLink /\ pending[p] = NotPending
                  THEN [pending EXCEPT ![p] = [to |-> m.addr, left |-> HandshakeTimeout,
                                               answer |-> "none"]]
                  ELSE pending
    /\ UNCHANGED <<tables, asked, idle, unasked>>

-------------------------------------------------------------------------------
(* Handshakes. *)

(* The NAT of d lets c in: d sends to c's endpoint, dialling or under a    *)
(* session.                                                                *)
LetsIn(p) == endpoint[p[1]] \in {link[Back(p)].addr, pending[Back(p)].to}

(* The session p[1] held with p[2] is gone: the ends no longer agree, and  *)
(* if it came of an answer of p[1] to p[2], that answer is lost.           *)
Apart(p) == agreed \ {p, Back(p)}
Released(p) ==
    [pending EXCEPT ![Back(p)].answer = IF @ = "held" THEN "lost" ELSE @]

(* accept_handshake_session: may the session that c initiated take the     *)
(* place of the one p[1] holds for p[2]?                                   *)
AcceptHandshakeSession(p, c, simultaneous) ==
    \/ ~simultaneous \/ link[p] = NoLink
    \/ c <= p[1] /\ c <= p[2] /\ link[p].init # c

(* handle_handshake_1, for another copy of what was answered before. *)
AnswerFromCache(p) ==
    /\ pending[p].to = endpoint[p[2]] /\ LetsIn(p)
    /\ pending[p].answer # "none"
    /\ net' = net \cup {Handshake2(p)}
    /\ UNCHANGED <<tables, pending, asked, idle, unasked>>

(* handle_handshake_1, for the first copy of c's that arrives: d answers   *)
(* whether or not it takes the session for its own.                        *)
HandleHandshake1(p) ==
    /\ pending[p].to = endpoint[p[2]] /\ LetsIn(p)
    /\ pending[p].answer = "none"
    /\ net' = net \cup {Handshake2(p)}
    /\ LET simultaneous == pending[Back(p)] # NotPending
       IN  \/ /\ AcceptHandshakeSession(Back(p), p[1], simultaneous)
              /\ link' = [link EXCEPT ![Back(p)] = [addr |-> endpoint[p[1]], init |-> p[1]]]
              /\ agreed' = Apart(p)
              /\ pending' = [pending EXCEPT ![p].answer = "held"]
           \/ /\ ~AcceptHandshakeSession(Back(p), p[1], simultaneous)
              /\ pending' = [pending EXCEPT ![p].answer = "lost"]
              /\ UNCHANGED <<link, agreed>>
    /\ unasked' = [unasked EXCEPT ![Back(p)] = 0]
    /\ UNCHANGED <<endpoint, registered, bound, faults, asked, idle>>

(* handle_handshake_2: the ends agree if d still holds what it answered.   *)
HandleHandshake2(p) ==
    /\ Handshake2(p) \in net /\ net' = net \ {Handshake2(p)}
    /\ LET simultaneous == link[p] # NoLink /\ link[p].init # p[1]
       IN  \/ /\ pending[p] # NotPending
              /\ AcceptHandshakeSession(p, p[1], simultaneous)
              /\ link' = [link EXCEPT ![p] = [addr |-> pending[p].to, init |-> p[1]]]
              /\ agreed' = IF pending[p].answer = "held"
                           THEN agreed \cup {p, Back(p)} ELSE Apart(p)
              /\ pending' = [Released(p) EXCEPT ![p] = NotPending]
           \/ /\ pending[p] # NotPending
              /\ ~AcceptHandshakeSession(p, p[1], simultaneous)
              /\ pending' = [pending EXCEPT ![p] = NotPending]
              /\ UNCHANGED <<link, agreed>>
           \/ pending[p] = NotPending /\ UNCHANGED <<link, agreed, pending>>
    /\ unasked' = IF pending[p] = NotPending THEN unasked ELSE [unasked EXCEPT ![p] = 0]
    /\ UNCHANGED <<endpoint, registered, bound, faults, asked, idle>>

(* remove_peer: c no longer has a session with d. *)
RemovePeer(p) ==
    /\ link' = [link EXCEPT ![p] = NoLink]
    /\ agreed' = Apart(p) /\ pending' = Released(p)

(* maintain_peers: keepalives go unanswered, for the other end is          *)
(* elsewhere, or has no session or one under another key, and the answer   *)
(* that would give it this one is not under way.                           *)
DropStale(p) ==
    /\ link[p] # NoLink /\ p \notin agreed
    /\ ~ (pending[Back(p)].answer = "held" /\ Handshake2(Back(p)) \in net)
    /\ RemovePeer(p)
    /\ UNCHANGED <<endpoint, registered, bound, faults, asked, idle, unasked, net>>

(* connect_lighthouses: the client dials the lighthouse and is registered. *)
Punch(c) ==
    /\ c \notin bound /\ bound' = bound \cup {c}
    /\ registered' = [registered EXCEPT ![c] = endpoint[c]]
    /\ UNCHANGED <<endpoint, link, agreed, faults, pending, asked, idle, unasked, net>>

(* Keepalives between client and lighthouse go unanswered. *)
DropLighthouse(c) ==
    /\ c \in bound /\ registered[c] # endpoint[c]
    /\ bound' = bound \ {c}
    /\ unasked' = [p \in Pair |-> IF p[1] = c THEN 0 ELSE unasked[p]]
    /\ UNCHANGED <<endpoint, registered, link, agreed, faults, pending, asked, idle, net>>

Deregister(c) ==
    /\ registered[c] # 0
    /\ c \notin bound \/ registered[c] # endpoint[c]
    /\ registered' = [registered EXCEPT ![c] = 0]
    /\ UNCHANGED <<endpoint, bound, link, agreed, faults, pending, asked, idle, unasked, net>>

-------------------------------------------------------------------------------
(* Mutant: a handshake is never given up. *)
OlderForEver(h) == [h EXCEPT !.left = @ - 1]

(* retransmit_handshakes drops a handshake that ran out of time. *)
Older(h) == IF h.left <= 1 THEN NotPending ELSE [h EXCEPT !.left = @ - 1]

(* A unit of time passes: all traffic had a packet.                       *)
Elapse ==
    /\ net = {} /\ idle = {} /\ idle' = Traffic
    /\ asked' = [p \in Pair |-> IF asked[p] > 0 THEN asked[p] - 1 ELSE 0]
    /\ unasked' = [p \in Pair |-> IF p \in Traffic /\ p[1] \in bound /\ link[p] = NoLink
                                  THEN unasked[p] + 1 ELSE 0]
    /\ pending' = [p \in Pair |-> Older(pending[p])]
    /\ UNCHANGED <<tables, net>>

(* Faults. *)
Fault == faults < MaxFaults /\ faults' = faults + 1

Lose(m) ==
    /\ Fault /\ m \in net /\ net' = net \ {m}
    /\ UNCHANGED <<endpoint, registered, bound, link, agreed, pending, asked, idle, unasked>>

(* A client restarts: its tables are empty, its endpoint is new, and what  *)
(* is under way to the old one is lost.                                    *)
Restart(c) ==
    /\ Fault
    /\ endpoint' = [endpoint EXCEPT ![c] = @ + 1]
    /\ bound' = bound \ {c}
    /\ link' = [p \in Pair |-> IF p[1] = c THEN NoLink ELSE link[p]]
    /\ agreed' = {p \in agreed : c \notin {p[1], p[2]}}
    /\ pending' = [p \in Pair |-> IF p[1] = c THEN NotPending
                                  ELSE IF p[2] = c THEN Released(Back(p))[p]
                                  ELSE pending[p]]
    /\ asked' = [p \in Pair |-> IF p[1] = c THEN 0 ELSE asked[p]]
    /\ unasked' = [p \in Pair |-> IF p[1] = c THEN 0 ELSE unasked[p]]
    /\ net' = {m \in net : m.type = "query" \/ m.pair[1] # c}
    /\ UNCHANGED <<registered, idle>>

RestartLighthouse ==
    /\ Fault
    /\ registered' = [c \in Client |-> 0]
    /\ net' = {m \in net : m.type = "handshake_2"}
    /\ UNCHANGED <<endpoint, bound, link, agreed, pending, asked, idle, unasked>>

(* A client drops a session that the other end still holds. *)
Break(p) ==
    /\ Fault /\ link[p] # NoLink
    /\ RemovePeer(p)
    /\ UNCHANGED <<endpoint, registered, bound, asked, idle, unasked, net>>

Init ==
    /\ endpoint = [c \in Client |-> 1] /\ registered = [c \in Client |-> 0]
    /\ bound = {} /\ link = [p \in Pair |-> NoLink] /\ agreed = {}
    /\ pending = [p \in Pair |-> NotPending] /\ asked = [p \in Pair |-> 0]
    /\ idle = Traffic /\ unasked = [p \in Pair |-> 0] /\ net = {} /\ faults = 0

Receive(p) == HandleQuery(p) \/ HandleHandshake2(p)
Handshake1(p) == AnswerFromCache(p) \/ HandleHandshake1(p)
Answer == \E m \in net : HandleResponse(m)

Next ==
    \/ \E p \in Pair : \/ SendToOverlay(p) \/ Receive(p) \/ Handshake1(p)
                       \/ DropStale(p) \/ Break(p)
    \/ Answer \/ Elapse \/ RestartLighthouse
    \/ \E c \in Client : Punch(c) \/ DropLighthouse(c) \/ Deregister(c) \/ Restart(c)
    \/ \E m \in net : Lose(m)

Spec == Init /\ [][Next]_vars

(* Packets are read and timers run.  A handshake_1 that is sent again and  *)
(* again towards an open NAT arrives.                                      *)
Fairness ==
    /\ WF_vars(Elapse) /\ WF_vars(Answer)
    /\ \A p \in Pair : /\ WF_vars(SendToOverlay(p)) /\ WF_vars(Receive(p))
                       /\ WF_vars(DropStale(p)) /\ SF_vars(Handshake1(p))
    /\ \A c \in Client : /\ WF_vars(Punch(c)) /\ WF_vars(DropLighthouse(c))
                         /\ WF_vars(Deregister(c))

FairSpec == Spec /\ Fairness

-------------------------------------------------------------------------------
(* Every variable has its type; in particular no handshake outlives its    *)
(* timeout (retransmit_handshakes).                                        *)
TypeOK ==
    /\ endpoint \in [Client -> Nat \ {0}] /\ registered \in [Client -> Nat]
    /\ bound \subseteq Client /\ link \in [Pair -> Link]
    /\ agreed \subseteq Pair /\ pending \in [Pair -> Dial]
    /\ asked \in [Pair -> 0 .. Retry] /\ idle \subseteq Pair
    /\ unasked \in [Pair -> Nat] /\ faults \in 0 .. MaxFaults
    /\ \A m \in net : m.pair \in Pair /\ (m.type = "response" => m.addr \in Nat \ {0})

(* A node with a lighthouse and without a route asks within DISCOVERY_RETRY *)
(* of having both, even if an attempt without a lighthouse was charged to  *)
(* its rate limit just before (request_discovery).                         *)
AskedInTime == \A p \in Pair : unasked[p] <= Retry

(* Both ends have a session with the other's current endpoint, under the   *)
(* same key; and both have one, under different keys.                      *)
Joined(p) ==
    /\ link[p].addr = endpoint[p[2]] /\ link[Back(p)].addr = endpoint[p[1]]
    /\ p \in agreed
Split(p) == link[p] # NoLink /\ link[Back(p)] # NoLink /\ p \notin agreed

(* The mesh stays healed after the last fault. *)
HealsForGood == \A p \in Traffic : <>[]Joined(p)

(* After the last fault the mesh heals: whatever restarted, got lost or    *)
(* was dropped, a client with traffic for another ends up with a session,  *)
(* at current endpoints and under a key that the other end holds too.  It  *)
(* loses that again only to handshakes that cross, both ends having been   *)
(* introduced, and leave them on different keys; then maintain_peers       *)
(* clears the way, and the two are joined once more.                       *)
MeshHeals ==
    \A p \in Traffic : []<>Joined(p) /\ (<>[]Joined(p) \/ []<>Split(p))
===============================================================================

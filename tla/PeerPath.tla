------------------------------- MODULE PeerPath -------------------------------
(***************************************************************************)
(* Which path the two ends of a session send on: straight to each other or *)
(* through a relay (litewayd/src/state.rs, PeerState and PendingHandshake; *)
(* main.rs, the handshake and keepalive handlers).                         *)
(*                                                                         *)
(* One session, from the first handshake_1 on.  Each end has one endpoint, *)
(* so an address is the path it stands for: the direct one, or a relay.    *)
(* The direct path may be open in both directions, in one, or in none, and *)
(* a relay may have a session with both ends, with one, or with none; no   *)
(* end knows what holds for the other.  The lighthouse reports an end at   *)
(* the address of its own session with it, which may itself be a relay's.  *)
(* A message once sent may arrive at any time, again and again, or never;  *)
(* timers fire at any time.                                                *)
(***************************************************************************)
CONSTANT Relay   \* the relays' addresses

ASSUME RelayAssumption == "direct" \notin Relay /\ "none" \notin Relay

End == {"i", "r"}   \* the initiator of the handshake and the responder
Path == Relay \cup {"direct"}
Other(e) == IF e = "i" THEN "r" ELSE "i"

VARIABLES
    open,          \* ends whose datagrams reach the other end's endpoint
    reach,         \* the ends each relay has a session with
    reported,      \* the address each end has at the lighthouse
    pending,       \* the initiator awaits a handshake_2
    fallback,      \* relay_addr: the relay the handshake also goes through
    up,            \* ends that hold the session
    addr,          \* where each end sends
    direct_addr,   \* what each end takes for the other's endpoint, if it knows one
    relayed,       \* ends that take their session for a relayed one
    net            \* what was sent: kind, sender and path

world == <<open, reach, reported>>
vars == <<world, pending, fallback, up, addr, direct_addr, relayed, net>>

(* Where the initiator dials: what the lighthouse told it. *)
Dialled == reported["r"]

(* Of the packets of a session mark_seen tells keepalives from others, that *)
(* is data and the acks of keepalives.                                     *)
Msg(kind, e, path) == [kind |-> kind, from |-> e, path |-> path]

(* The path leads from end e to the other one (relay_datagram: a relay     *)
(* without a session with the addressee drops the datagram).               *)
Carries(path, e) ==
    \/ path = "direct" /\ e \in open
    \/ path \in Relay /\ Other(e) \in reach[path]

Arrives(m) == m \in net /\ Carries(m.path, m.from)

Init ==
    /\ open \in SUBSET End /\ reach \in [Relay -> SUBSET End]
    /\ reported \in [End -> Path]
    /\ pending = TRUE /\ fallback = "none"
    /\ up = {} /\ relayed = {}
    /\ direct_addr = [e \in End |-> "none"]
    /\ addr = [e \in End |-> "direct"]
    /\ net = {Msg("hs1", "i", Dialled)}

-------------------------------------------------------------------------------
(* The handshake. *)

(* retransmit_handshakes: a connected relay joins once the direct path is  *)
(* late.  Whether it knows the other end too is not asked.                 *)
RelayFallback(relay) ==
    /\ pending /\ fallback = "none" /\ "i" \in reach[relay]
    /\ fallback' = relay
    /\ UNCHANGED <<world, pending, up, addr, direct_addr, relayed, net>>

(* retransmit_handshakes: to every target of the handshake. *)
Retransmit ==
    /\ pending
    /\ net' = net \cup {Msg("hs1", "i", p) : p \in {Dialled, fallback} \ {"none"}}
    /\ UNCHANGED <<world, pending, fallback, up, addr, direct_addr, relayed>>

GiveUp ==
    /\ pending
    /\ pending' = FALSE
    /\ UNCHANGED <<world, fallback, up, addr, direct_addr, relayed, net>>

(* add_peer: end e installs the session, on the path the message took.  It *)
(* is not taken for relayed at the very address it was to be reached at.   *)
AddPeer(e, path, endpoint, via_relay) ==
    /\ up' = up \cup {e}
    /\ addr' = [addr EXCEPT ![e] = path]
    /\ direct_addr' = IF endpoint = "none" THEN direct_addr
                      ELSE [direct_addr EXCEPT ![e] = endpoint]
    /\ relayed' = IF via_relay /\ direct_addr'[e] # path
                  THEN relayed \cup {e} ELSE relayed \ {e}

(* note_direct_endpoint, and the like in mark_seen. *)
Note(e, path) ==
    direct_addr' = IF path = "direct" THEN [direct_addr EXCEPT ![e] = "direct"]
                   ELSE direct_addr

(* handle_handshake_1: the first copy installs the session; a later one    *)
(* gets the cached answer, and if it came directly its source is noted.    *)
HandleHandshake1(path) ==
    /\ Arrives(Msg("hs1", "i", path))
    /\ net' = net \cup {Msg("hs2", "r", path)}
    /\ \/ "r" \notin up /\ AddPeer("r", path, IF path \in Relay THEN "none" ELSE path,
                                    path \in Relay)
       \/ "r" \in up /\ Note("r", path) /\ UNCHANGED <<up, addr, relayed>>
    /\ UNCHANGED <<world, pending, fallback>>

(* handle_handshake_2: what was dialled is the endpoint, and an answer from *)
(* anywhere else came through a relay.                                     *)
HandleHandshake2(path) ==
    /\ Arrives(Msg("hs2", "r", path)) /\ pending
    /\ pending' = FALSE
    /\ AddPeer("i", path, Dialled, path # Dialled \/ path \in Relay)
    /\ UNCHANGED <<world, fallback, net>>

-------------------------------------------------------------------------------
(* The session. *)

(* Data, or a keepalive from tick, goes to where the session is. *)
Send(e, kind) ==
    /\ e \in up
    /\ net' = net \cup {Msg(kind, e, addr[e])}
    /\ UNCHANGED <<world, pending, fallback, up, addr, direct_addr, relayed>>

(* take_path_probe: a keepalive to the endpoint of a relayed peer... *)
Punch(e) ==
    /\ e \in up /\ e \in relayed
    /\ direct_addr[e] \notin {"none", addr[e]}
    /\ net' = net \cup {Msg("keepalive", e, direct_addr[e])}
    /\ UNCHANGED <<world, pending, fallback, up, addr, direct_addr, relayed>>

(* ...or a question to the lighthouse, whose answer supplies the endpoint  *)
(* (handle_lighthouse_response for an established session).  The other end *)
(* is introduced, if that message arrives.                                 *)
LookUp(e, introduced) ==
    /\ e \in up /\ e \in relayed /\ direct_addr[e] = "none"
    /\ introduced => Other(e) \in up
    /\ direct_addr' = [d \in End |-> IF d = e \/ introduced THEN reported[Other(d)]
                                     ELSE direct_addr[d]]
    /\ UNCHANGED <<world, pending, fallback, up, addr, relayed, net>>

(* Mutant: a session that moved still counts as relayed. *)
AdoptStillRelayed(e, src) ==
    /\ addr' = [addr EXCEPT ![e] = src]
    /\ Note(e, src)
    /\ UNCHANGED relayed

Adopt(e, src) ==
    /\ addr' = [addr EXCEPT ![e] = src]
    /\ Note(e, src)
    /\ relayed' = IF src = "direct" THEN relayed \ {e} ELSE relayed

(* Mutant: a hole punch moves the session like any other packet. *)
MarkSeenEager(e, src, isKeepalive) ==
    IF addr[e] # src /\ (src \in Relay => e \in relayed) THEN Adopt(e, src)
    ELSE UNCHANGED <<addr, direct_addr, relayed>>

(* Mutant: only data moves the session, not the answer to a punch. *)
MarkSeenNever(e, src, isKeepalive) ==
    /\ Note(e, src)
    /\ UNCHANGED <<addr, relayed>>

(* Mutant: a late relayed packet pulls the session back. *)
MarkSeenBack(e, src, isKeepalive) ==
    IF addr[e] = src THEN UNCHANGED <<addr, direct_addr, relayed>>
    ELSE /\ addr' = [addr EXCEPT ![e] = src]
         /\ UNCHANGED direct_addr
         /\ relayed' = IF src \in Relay THEN relayed \cup {e} ELSE relayed \ {e}

(* mark_seen: end e received a packet over path src. *)
MarkSeen(e, src, isKeepalive) ==
    \/ /\ addr[e] = src \/ (src \in Relay /\ e \notin relayed)
       /\ UNCHANGED <<addr, direct_addr, relayed>>
    \/ /\ addr[e] # src /\ src = "direct" /\ e \in relayed /\ isKeepalive
       /\ Note(e, src)
       /\ UNCHANGED <<addr, relayed>>
    \/ /\ addr[e] # src /\ (src \in Relay => e \in relayed)
       /\ ~(src = "direct" /\ e \in relayed /\ isKeepalive)
       /\ Adopt(e, src)

(* handle_session_packet: a keepalive is answered on the path it took. *)
HandleSessionPacket(e, m) ==
    /\ e \in up /\ Arrives(m) /\ m.from = Other(e)
    /\ m.kind \in {"keepalive", "other"}
    /\ MarkSeen(e, m.path, m.kind = "keepalive")
    /\ net' = IF m.kind = "keepalive" THEN net \cup {Msg("other", e, m.path)} ELSE net
    /\ UNCHANGED <<world, pending, fallback, up>>

Next ==
    \/ (\E relay \in Relay : RelayFallback(relay)) \/ Retransmit \/ GiveUp
    \/ \E p \in Path : HandleHandshake1(p) \/ HandleHandshake2(p)
    \/ \E e \in End, kind \in {"keepalive", "other"} : Send(e, kind)
    \/ \E e \in End : Punch(e) \/ \E introduced \in BOOLEAN : LookUp(e, introduced)
    \/ \E e \in End, m \in net : HandleSessionPacket(e, m)

Spec == Init /\ [][Next]_vars

(* End e hears what the other one sent it directly. *)
Hear(e, kind) == HandleSessionPacket(e, Msg(kind, Other(e), "direct"))

(* Maintenance ticks go on, lighthouses answer, and a datagram sent again  *)
(* and again over an open path gets through in the end: a keepalive, and   *)
(* its ack.  Nothing is assumed of data.                                   *)
Fairness ==
    \A e \in End :
        /\ WF_vars(Punch(e)) /\ WF_vars(\E introduced \in BOOLEAN : LookUp(e, introduced))
        /\ WF_vars(Hear(e, "keepalive"))
        /\ WF_vars(Msg("keepalive", e, "direct") \in net /\ Hear(e, "other"))

FairSpec == Spec /\ Fairness

-------------------------------------------------------------------------------
(* Each variable has its type, and an end that takes its session for       *)
(* relayed sends to a relay.                                               *)
TypeOK ==
    /\ open \subseteq End /\ reach \in [Relay -> SUBSET End]
    /\ reported \in [End -> Path]
    /\ up \subseteq End /\ relayed \subseteq {e \in up : addr[e] \in Relay}
    /\ pending \in BOOLEAN /\ fallback \in Relay \cup {"none"}
    /\ addr \in [End -> Path] /\ direct_addr \in [End -> Path \cup {"none"}]
    /\ net \subseteq [kind : {"hs1", "hs2", "keepalive", "other"},
                      from : End, path : Path]

(* "Only a path known to work both ways is adopted" (state.rs, mark_seen): *)
(* an end that takes its session for relayed leaves the relay only if what *)
(* it sends directly does arrive.                                          *)
LeavesRelayOnlyForOpenPath ==
    [][\A e \in relayed : addr'[e] = "direct" => e \in open]_vars

(* "a session that already went direct is not pulled back by late relayed  *)
(* packets" (state.rs, mark_seen).                                         *)
NotPulledBack == [][\A e \in up : addr[e] = "direct" => addr'[e] = "direct"]_vars

ReportedDirect == \A e \in End : reported[e] = "direct"

(* When both ends hold the session, what each sends arrives, with one      *)
(* exception: the initiator reaches the responder and not the other way    *)
(* round.  An end that was told the relay's address for the other's does   *)
(* not know that it is relayed, and is excepted too.                       *)
DeliversUnlessOneWay ==
    up = End /\ open # {"i"} /\ ReportedDirect
        => \A e \in End : Carries(addr[e], e)

(* "Whichever path answers first is used" (README.md, item 4): when both   *)
(* ends hold the session, each sends on a path that delivers.              *)
UsedPathDelivers ==
    up = End => \A e \in End : Carries(addr[e], e)

(* "A session that ended up on a relay is not stuck there" (README.md,     *)
(* item 5): if the direct path works and the lighthouse knows the endpoint *)
(* of at least one of the ends, both end up on it for good.  The end that  *)
(* was told the relay's address for the other's probes nothing itself      *)
(* (take_path_probe): the other one gets both off the relay.               *)
MovesOffRelay ==
    (up = End /\ open = End /\ \E e \in End : reported[e] = "direct")
        ~> [](\A e \in End : addr[e] = "direct")
===============================================================================

---------------------------- MODULE PeerPathProofs ----------------------------
(***************************************************************************)
(* Proofs about PeerPath, for any set of relays, whichever ends each of    *)
(* them has a session with.                                                *)
(***************************************************************************)
EXTENDS PeerPath, TLAPS

(* What was sent directly tells which direction is open.  A packet that is *)
(* not a keepalive, and an answer to anything, goes directly only from an  *)
(* end that has heard the other one directly.  Keepalives tell nothing:    *)
(* hole punches go out on trust.                                           *)
Heard ==
    /\ \A e \in up : addr[e] = "direct" => Other(e) \in open
    /\ \A m \in net : m.kind \in {"hs2", "other"} /\ m.path = "direct"
          => Other(m.from) \in open

(* The initiator waits for an answer only before it has the session, and   *)
(* the handshake goes where targets says.                                  *)
Handshaking ==
    /\ pending => "i" \notin up
    /\ \A m \in net : m.kind \in {"hs1", "hs2"} => m.path \in {Dialled, fallback}

(* When the lighthouse knows the endpoints, the handshake brings in the    *)
(* only relay of the session, which the initiator is connected to; what    *)
(* came back through it shows that the responder is too, and both ends     *)
(* know when they use it.                                                  *)
OneRelay ==
    /\ fallback \in Relay => "i" \in reach[fallback]
    /\ \A m \in net : m.path \in Relay =>
          m.path = fallback /\ (m.kind # "hs1" => "r" \in reach[m.path])
    /\ \A e \in up : addr[e] \in Relay =>
          addr[e] = fallback /\ "r" \in reach[fallback] /\ e \in relayed
    /\ \A e \in End : direct_addr[e] \notin Relay
    /\ "i" \in up /\ addr["i"] = "direct" => "i" \in open

PathInv == TypeOK /\ Heard /\ Handshaking /\ (ReportedDirect => OneRelay)

-------------------------------------------------------------------------------
(* There are two ends. *)
LEMMA TwoEnds ==
    /\ Other("i") = "r" /\ Other("r") = "i"
    /\ \A e \in End : Other(e) \in End /\ Other(Other(e)) = e
BY DEF End, Other

(* Before the handshake nothing has been heard. *)
LEMMA InitInv == Init => PathInv
<1> SUFFICES ASSUME Init PROVE PathInv
  OBVIOUS
<1> USE RelayAssumption DEF Init, Msg, Dialled, End, Path
<1>1. TypeOK
  BY DEF TypeOK
<1>2. Heard /\ Handshaking
  BY DEF Heard, Handshaking
<1>3. ReportedDirect => OneRelay
  BY DEF ReportedDirect, OneRelay
<1> QED
  BY <1>1, <1>2, <1>3 DEF PathInv

(* retransmit_handshakes. *)
LEMMA RetransmitInv ==
    ASSUME PathInv, (\E relay \in Relay : RelayFallback(relay)) \/ Retransmit \/ GiveUp
    PROVE  PathInv'
<1> USE RelayAssumption DEF PathInv
<1>1. ASSUME NEW relay \in Relay, RelayFallback(relay) PROVE PathInv'
  <2> USE <1>1 DEF RelayFallback, world
  <2>1. TypeOK'
    BY DEF TypeOK
  <2>2. Heard' /\ Handshaking'
    BY DEF Heard, Handshaking, TypeOK, Path, Dialled
  <2>3. ReportedDirect' => OneRelay'
    BY DEF ReportedDirect, OneRelay, TypeOK, End
  <2> QED
    BY <2>1, <2>2, <2>3
<1>2. ASSUME Retransmit PROVE PathInv'
  <2> USE <1>2 DEF Retransmit, world, Msg, Dialled
  <2>1. TypeOK'
    BY DEF TypeOK, End, Path
  <2>2. Heard' /\ Handshaking'
    BY DEF Heard, Handshaking, Dialled
  <2>3. ReportedDirect' => OneRelay'
    BY DEF ReportedDirect, OneRelay, TypeOK, End
  <2> QED
    BY <2>1, <2>2, <2>3
<1>3. ASSUME GiveUp PROVE PathInv'
  BY <1>3, Zenon DEF GiveUp, world, TypeOK, Heard, Handshaking, Dialled, ReportedDirect, OneRelay
<1> QED
  BY <1>1, <1>2, <1>3

(* handle_handshake_1: what arrived directly opens the way for the answer. *)
LEMMA HandleHandshake1Inv ==
    ASSUME PathInv, NEW p \in Path, HandleHandshake1(p)
    PROVE  PathInv'
<1> USE RelayAssumption DEF PathInv, HandleHandshake1, world, Msg
<1>1. /\ p = "direct" => "i" \in open
      /\ p \in Relay => "r" \in reach[p]
  BY TwoEnds DEF Arrives, Carries
<1>2. TypeOK'
  BY DEF TypeOK, End, Path, AddPeer, Note
<1>3. Heard'
  <2>1. ASSUME NEW e \in up', addr'[e] = "direct" PROVE Other(e) \in open'
    <3>1. CASE e = "r" /\ "r" \notin up
      BY <1>1, <2>1, <3>1, TwoEnds DEF TypeOK, AddPeer, End
    <3>2. CASE e # "r" \/ "r" \in up
      <4>1. e \in up /\ addr'[e] = addr[e]
        BY <3>2, Zenon DEF TypeOK, AddPeer, End
      <4> QED
        BY <2>1, <4>1 DEF Heard
    <3> QED
      BY <3>1, <3>2
  <2>2. \A m \in net' : m.kind \in {"hs2", "other"} /\ m.path = "direct"
           => Other(m.from) \in open'
    BY <1>1, TwoEnds DEF Heard
  <2> QED
    BY <2>1, <2>2 DEF Heard
<1>4. Handshaking'
  BY DEF Handshaking, Dialled, Arrives, AddPeer
<1>5. ReportedDirect' => OneRelay'
  BY <1>1 DEF ReportedDirect, OneRelay, TypeOK, End, Path, AddPeer, Note, Arrives
<1> QED
  BY <1>2, <1>3, <1>4, <1>5

(* handle_handshake_2: the answer came on a path that works both ways, if  *)
(* it came directly or the lighthouse knew the endpoint.                   *)
LEMMA HandleHandshake2Inv ==
    ASSUME PathInv, NEW p \in Path, HandleHandshake2(p)
    PROVE  PathInv'
<1> USE RelayAssumption DEF PathInv, HandleHandshake2, world, Msg
<1>1. p = "direct" => open = End
  <2> SUFFICES ASSUME p = "direct" PROVE open = End
    OBVIOUS
  <2>1. "r" \in open
    BY DEF Arrives, Carries
  <2>2. "i" \in open
    BY TwoEnds DEF Arrives, Heard
  <2> QED
    BY <2>1, <2>2, Zenon DEF TypeOK, End
<1>2. TypeOK'
  <2>1. Dialled \in Path /\ (p = "direct" => Dialled = "direct")
    BY DEF Handshaking, Arrives, Dialled, TypeOK, Path, End
  <2> QED
    BY <2>1, Zenon DEF TypeOK, End, Path, AddPeer
<1>3. Heard' /\ Handshaking'
  BY <1>1, TwoEnds DEF Heard, Handshaking, Dialled, TypeOK, End, AddPeer
<1>4. ReportedDirect' => OneRelay'
  BY <1>1 DEF ReportedDirect, OneRelay, TypeOK, End, Path, AddPeer, Arrives, Dialled
<1> QED
  BY <1>2, <1>3, <1>4

(* An end that sends directly has heard the other directly; a hole punch   *)
(* is a keepalive.                                                         *)
LEMMA SendInv ==
    ASSUME PathInv, NEW e \in End,
           (\E kind \in {"keepalive", "other"} : Send(e, kind)) \/ Punch(e)
    PROVE  PathInv'
<1> USE RelayAssumption DEF PathInv, world, Msg
<1>1. ASSUME NEW kind \in {"keepalive", "other"}, Send(e, kind) PROVE PathInv'
  <2> USE <1>1 DEF Send
  <2>1. TypeOK'
    BY DEF TypeOK
  <2>2. Heard' /\ Handshaking'
    BY DEF Heard, Handshaking, Dialled
  <2>3. ReportedDirect' => OneRelay'
    BY DEF ReportedDirect, OneRelay, TypeOK
  <2> QED
    BY <2>1, <2>2, <2>3
<1>2. ASSUME Punch(e) PROVE PathInv'
  <2> USE <1>2 DEF Punch
  <2>1. TypeOK'
    BY DEF TypeOK
  <2>2. Heard' /\ Handshaking'
    BY DEF Heard, Handshaking, Dialled
  <2>3. ReportedDirect' => OneRelay'
    BY DEF ReportedDirect, OneRelay, TypeOK
  <2> QED
    BY <2>1, <2>2, <2>3
<1> QED
  BY <1>1, <1>2

(* The lighthouse names an endpoint to try; nobody moves. *)
LEMMA LookUpInv ==
    ASSUME PathInv, NEW e \in End, NEW introduced \in BOOLEAN, LookUp(e, introduced)
    PROVE  PathInv'
<1> USE RelayAssumption DEF PathInv, LookUp, world
<1>1. TypeOK'
  BY TwoEnds DEF TypeOK
<1>2. Heard' /\ Handshaking'
  BY DEF Heard, Handshaking, Dialled
<1>3. ReportedDirect' => OneRelay'
  BY TwoEnds DEF ReportedDirect, OneRelay, TypeOK
<1> QED
  BY <1>1, <1>2, <1>3

(* What mark_seen may do: the session stays, or moves to the path the      *)
(* packet took, and then either from one relay to another, or directly to  *)
(* where something else than a hole punch came from.                       *)
Moves(e, src, isKeepalive) ==
    /\ addr' \in [End -> Path] /\ direct_addr' \in [End -> Path \cup {"none"}]
    /\ relayed' \subseteq relayed
    /\ \A d \in End \ {e} :
          /\ addr'[d] = addr[d] /\ direct_addr'[d] = direct_addr[d]
          /\ d \in relayed' <=> d \in relayed
    /\ direct_addr'[e] \in {direct_addr[e], "direct"}
    /\ \/ addr'[e] = addr[e] /\ (e \in relayed' <=> e \in relayed)
       \/ /\ addr'[e] = src /\ src \in Relay /\ e \in relayed /\ e \in relayed'
          /\ addr[e] # src
       \/ /\ addr'[e] = src /\ src = "direct" /\ e \notin relayed'
          /\ ~(e \in relayed /\ isKeepalive)

(* It does no more than that. *)
LEMMA MarkSeenMoves ==
    ASSUME TypeOK, NEW e \in up, NEW src \in Path, NEW k \in BOOLEAN, MarkSeen(e, src, k)
    PROVE  Moves(e, src, k)
BY RelayAssumption DEF TypeOK, MarkSeen, Adopt, Note, Path, Moves

(* handle_session_packet. *)
LEMMA HandleSessionPacketInv ==
    ASSUME PathInv, NEW e \in End, NEW m \in net, HandleSessionPacket(e, m)
    PROVE  PathInv'
<1> USE RelayAssumption DEF PathInv
<1> DEFINE k == m.kind = "keepalive"
<1>1. /\ e \in up /\ m.path \in Path /\ m.from = Other(e) /\ k \in BOOLEAN
      /\ m.kind \in {"keepalive", "other"}
      /\ UNCHANGED <<world, pending, fallback, up>>
      /\ net' \subseteq net \cup {Msg("other", e, m.path)}
      /\ MarkSeen(e, m.path, k)
  BY DEF HandleSessionPacket, TypeOK
<1>2. /\ m.path = "direct" => Other(e) \in open
      /\ m.path \in Relay => e \in reach[m.path]
  BY <1>1, TwoEnds DEF HandleSessionPacket, Arrives, Carries
<1> HIDE DEF k
<1>3. Moves(e, m.path, k)
  BY <1>1, MarkSeenMoves
<1>4. TypeOK'
  BY <1>1, <1>3 DEF TypeOK, Msg, world, Moves
<1>5. Heard'
  <2>1. ASSUME NEW d \in up', addr'[d] = "direct" PROVE Other(d) \in open'
    <3>1. d \in up /\ d \in End /\ open' = open
      BY <1>1 DEF TypeOK, world
    <3>2. CASE addr'[d] = addr[d]
      BY <2>1, <3>1, <3>2 DEF Heard
    <3>3. CASE addr'[d] # addr[d]
      BY <1>2, <1>3, <2>1, <3>1, <3>3 DEF Moves
    <3> QED
      BY <3>2, <3>3
  <2>2. \A q \in net' : q.kind \in {"hs2", "other"} /\ q.path = "direct"
           => Other(q.from) \in open'
    BY <1>1, <1>2 DEF Heard, Msg, world
  <2> QED
    BY <2>1, <2>2 DEF Heard
<1>6. Handshaking'
  BY <1>1 DEF Handshaking, Dialled, Msg, world
<1>7. ReportedDirect' => OneRelay'
  <2> SUFFICES ASSUME ReportedDirect PROVE OneRelay'
    BY <1>1 DEF ReportedDirect, world
  <2>0. OneRelay
    OBVIOUS
  <2>1. \A q \in net' : q.path \in Relay =>
          q.path = fallback' /\ (q.kind # "hs1" => "r" \in reach'[q.path])
    BY <2>0, <1>1 DEF OneRelay, TypeOK, Msg, world
  <2>2. ASSUME NEW d \in up', addr'[d] \in Relay
        PROVE  addr'[d] = fallback' /\ "r" \in reach'[fallback'] /\ d \in relayed'
    <3>1. d \in up /\ d \in End /\ fallback' = fallback /\ reach' = reach
      BY <1>1 DEF TypeOK, world
    <3>2. m.path \in Relay => m.path = fallback
      BY <2>0 DEF OneRelay
    <3>3. e \in relayed => addr[e] = fallback
      BY <2>0, <1>1 DEF OneRelay, TypeOK
    <3>4. addr'[d] = addr[d] /\ (d \in relayed' <=> d \in relayed)
      BY <1>3, <2>2, <3>1, <3>2, <3>3 DEF Moves
    <3> QED
      BY <2>0, <2>2, <3>1, <3>4 DEF OneRelay
  <2>3. ASSUME NEW d \in End PROVE direct_addr'[d] \notin Relay
    <3>1. direct_addr'[d] \in {direct_addr[d], "direct"}
      BY <1>3 DEF Moves
    <3>2. direct_addr[d] \notin Relay
      BY <2>0 DEF OneRelay
    <3> QED
      BY <3>1, <3>2
  <2>4. ASSUME "i" \in up', addr'["i"] = "direct" PROVE "i" \in open'
    <3>1. CASE addr["i"] = "direct"
      BY <2>0, <1>1, <2>4, <3>1 DEF OneRelay, world
    <3>2. CASE addr["i"] # "direct"
      BY <2>0, <1>1, <1>3, <2>4, <3>2, TwoEnds DEF OneRelay, Heard, TypeOK, Path, world, k, End, Moves
    <3> QED
      BY <3>1, <3>2
  <2> QED
    BY <2>0, <1>1, <2>1, <2>2, <2>3, <2>4 DEF OneRelay, world
<1> QED
  BY <1>4, <1>5, <1>6, <1>7

(* Every step keeps the invariant. *)
LEMMA NextInv == PathInv /\ [Next]_vars => PathInv'
<1> SUFFICES ASSUME PathInv, [Next]_vars PROVE PathInv'
  OBVIOUS
<1>1. CASE (\E relay \in Relay : RelayFallback(relay)) \/ Retransmit \/ GiveUp
  BY <1>1, RetransmitInv
<1>2. CASE \E p \in Path : HandleHandshake1(p) \/ HandleHandshake2(p)
  BY <1>2, HandleHandshake1Inv, HandleHandshake2Inv
<1>3. CASE \E e \in End, kind \in {"keepalive", "other"} : Send(e, kind)
  BY <1>3, SendInv
<1>4. CASE \E e \in End : Punch(e) \/ \E introduced \in BOOLEAN : LookUp(e, introduced)
  BY <1>4, SendInv, LookUpInv
<1>5. CASE \E e \in End, m \in net : HandleSessionPacket(e, m)
  BY <1>5, HandleSessionPacketInv
<1>6. CASE UNCHANGED vars
  BY <1>6 DEF vars, world, PathInv, TypeOK, Heard, Handshaking, Dialled, ReportedDirect, OneRelay
<1> QED
  BY <1>1, <1>2, <1>3, <1>4, <1>5, <1>6 DEF Next

(* So it always holds. *)
LEMMA PathInvariant == Spec => []PathInv
BY InitInv, NextInv, PTL DEF Spec

-------------------------------------------------------------------------------
(* The theorems. *)

(* Each variable has its type, and an end that takes its session for       *)
(* relayed sends to a relay (add_peer, mark_seen), for any relays.         *)
THEOREM PathTypeCorrect == Spec => []TypeOK
BY PathInvariant, PTL DEF PathInv

(* When both ends hold the session and the lighthouse knew their           *)
(* endpoints, what each sends arrives, directly or through the relay,      *)
(* unless only the initiator's datagrams get through (handle_handshake_1   *)
(* and handle_handshake_2 keep the path that answered first).              *)
THEOREM DeliversBothWays == Spec => []DeliversUnlessOneWay
<1>1. PathInv => DeliversUnlessOneWay
  <2> SUFFICES ASSUME PathInv, up = End, open # {"i"}, ReportedDirect, NEW e \in End
               PROVE  Carries(addr[e], e)
    BY DEF DeliversUnlessOneWay
  <2>1. OneRelay /\ TypeOK /\ Heard
    BY DEF PathInv
  <2>2. CASE addr[e] = "direct"
    <3>1. Other(e) \in open
      BY <2>1, <2>2 DEF Heard
    <3>2. e \in open
      BY <2>1, <2>2, <3>1, TwoEnds, ZenonT(30) DEF OneRelay, TypeOK, End
    <3> QED
      BY <2>2, <3>2 DEF Carries
  <2>3. CASE addr[e] \in Relay
    BY <2>1, <2>3, TwoEnds DEF OneRelay, TypeOK, Carries, End
  <2> QED
    BY <2>1, <2>2, <2>3 DEF TypeOK, Path
<1> QED
  BY <1>1, PathInvariant, PTL

(* How a session moves in one step: only mark_seen moves it. *)
LEMMA OnlyMarkSeenMoves ==
    ASSUME PathInv, [Next]_vars, NEW e \in up, addr'[e] # addr[e]
    PROVE  \E m \in net : HandleSessionPacket(e, m)
<1>1. ASSUME NEW relay \in Relay, RelayFallback(relay) PROVE FALSE
  BY <1>1 DEF RelayFallback
<1>2. CASE Retransmit \/ GiveUp \/ UNCHANGED vars
  BY <1>2 DEF Retransmit, GiveUp, vars
<1>3. ASSUME NEW p \in Path, HandleHandshake1(p) PROVE FALSE
  BY <1>3 DEF HandleHandshake1, AddPeer, PathInv, TypeOK, End
<1>4. ASSUME NEW p \in Path, HandleHandshake2(p) PROVE FALSE
  BY <1>4 DEF HandleHandshake2, AddPeer, PathInv, Handshaking, TypeOK, End
<1>5. ASSUME NEW d \in End, NEW kind, Send(d, kind) PROVE FALSE
  BY <1>5 DEF Send
<1>6. ASSUME NEW d \in End, Punch(d) \/ \E introduced \in BOOLEAN : LookUp(d, introduced)
      PROVE  FALSE
  BY <1>6 DEF Punch, LookUp
<1>7. ASSUME NEW d \in End, NEW m \in net, HandleSessionPacket(d, m)
      PROVE  HandleSessionPacket(e, m)
  <2>1. m.path \in Path /\ d \in up /\ MarkSeen(d, m.path, m.kind = "keepalive")
    BY <1>7 DEF PathInv, TypeOK, HandleSessionPacket
  <2>2. \A c \in End \ {d} : addr'[c] = addr[c]
    BY <2>1 DEF MarkSeen, Adopt, Note, PathInv, TypeOK
  <2> QED
    BY <1>7, <2>2 DEF PathInv, TypeOK
<1> QED
  BY <1>1, <1>2, <1>3, <1>4, <1>5, <1>6, <1>7 DEF Next

(* "Only a path known to work both ways is adopted" (mark_seen): an end    *)
(* that takes its session for relayed leaves the relays only if what it    *)
(* sends directly does arrive, whatever crossed, was lost or came late.    *)
THEOREM OnlyOpenPathsAdopted == Spec => LeavesRelayOnlyForOpenPath
<1>1. PathInv /\ [Next]_vars
        => [\A e \in relayed : addr'[e] = "direct" => e \in open]_vars
  <2> SUFFICES ASSUME PathInv, [Next]_vars, NEW e \in relayed, addr'[e] = "direct"
               PROVE  e \in open
    OBVIOUS
  <2>1. TypeOK /\ Heard /\ e \in up /\ e \in End /\ addr[e] \in Relay
    BY DEF PathInv, TypeOK
  <2>2. addr'[e] # addr[e]
    BY <2>1, RelayAssumption
  <2>3. PICK m \in net : HandleSessionPacket(e, m)
    BY <2>1, <2>2, OnlyMarkSeenMoves
  <2>4. /\ m.path \in Path /\ m.from = Other(e) /\ m.kind \in {"keepalive", "other"}
        /\ MarkSeen(e, m.path, m.kind = "keepalive")
    BY <2>1, <2>3 DEF TypeOK, HandleSessionPacket
  <2>5. m.path = "direct" /\ m.kind # "keepalive"
    BY <2>1, <2>2, <2>4, RelayAssumption DEF MarkSeen, Adopt, TypeOK
  <2> QED
    BY <2>1, <2>4, <2>5, TwoEnds DEF Heard
<1> QED
  BY <1>1, PathInvariant, PTL DEF Spec, LeavesRelayOnlyForOpenPath

(* "a session that already went direct is not pulled back by late relayed  *)
(* packets" (mark_seen), nor by a repeated handshake.                      *)
THEOREM DirectStaysDirect == Spec => NotPulledBack
<1>1. PathInv /\ [Next]_vars
        => [\A e \in up : addr[e] = "direct" => addr'[e] = "direct"]_vars
  <2> SUFFICES ASSUME PathInv, [Next]_vars, NEW e \in up,
                      addr[e] = "direct", addr'[e] # "direct"
               PROVE  FALSE
    OBVIOUS
  <2>1. TypeOK /\ e \in End /\ e \notin relayed
    BY RelayAssumption DEF PathInv, TypeOK
  <2>2. PICK m \in net : HandleSessionPacket(e, m)
    BY OnlyMarkSeenMoves
  <2>3. m.path \in Path /\ MarkSeen(e, m.path, m.kind = "keepalive")
    BY <2>1, <2>2 DEF TypeOK, HandleSessionPacket
  <2> QED
    BY <2>1, <2>3, RelayAssumption DEF MarkSeen, Adopt, TypeOK, Path
<1> QED
  BY <1>1, PathInvariant, PTL DEF Spec, NotPulledBack

===============================================================================

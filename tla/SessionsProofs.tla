---------------------------- MODULE SessionsProofs ----------------------------
(***************************************************************************)
(* Proofs about the replay window, for every width W: about its operators, *)
(* and about ReplayReceiver, a receiver that has nothing but a window.     *)
(* Then proofs about Sessions, for any set of nodes, any pattern of        *)
(* dialling and any bounds; the lone receiver's variables and constants    *)
(* have no part in those.                                                  *)
(***************************************************************************)
EXTENDS Sessions, ReplayReceiver, FiniteSetTheorems, TLAPS

(* A new window remembers that nothing was accepted (ReplayWindow::new). *)
LEMMA NewWindowRemembers == NewWindow \in Window /\ Remembers(NewWindow, {})
  BY DEF NewWindow, Window, Remembers

(* accept returns TRUE exactly for the numbers that are new and within     *)
(* reach, as AntiReplay decides them from the whole history.               *)
LEMMA AcceptsExactlyFresh ==
  ASSUME NEW w \in Window, NEW S \in SUBSET Nat, NEW seq \in Nat,
         Remembers(w, S)
  PROVE  Accepts(w, seq) <=> seq \notin S /\ \A a \in S : a - seq < W
  <1> USE WAssumption
  <1>1. CASE ~w.initialized
    BY <1>1, Zenon DEF Remembers, Accepts
  <1>2. CASE w.initialized /\ seq > w.highest
    BY <1>2 DEF Remembers, Accepts, Window
  <1>3. CASE w.initialized /\ seq <= w.highest
    <2>1. w.highest \in S /\ w.highest \in Nat /\ \A a \in S : a <= w.highest
      BY <1>3 DEF Remembers, Window
    <2>2. (\A a \in S : a - seq < W) <=> w.highest - seq < W
      BY <2>1
    <2>3. CASE w.highest - seq >= W
      BY <1>3, <2>1, <2>2, <2>3 DEF Accepts
    <2>4. CASE w.highest - seq < W
      <3>1. w.highest - seq \in Bits
        BY <1>3, <2>1, <2>4 DEF Bits
      <3>2. w.highest - (w.highest - seq) = seq
        BY <2>1
      <3>3. w.highest - seq \in w.seen <=> seq \in S
        BY <1>3, <3>1, <3>2 DEF Remembers
      <3> QED BY <1>3, <2>1, <2>2, <2>4, <3>3 DEF Accepts
    <2> QED BY <2>1, <2>3, <2>4
  <1> QED BY <1>1, <1>2, <1>3 DEF Window

(* After accepting seq the window remembers seq as well and nothing else:  *)
(* the shift keeps every bit that stays in reach.                          *)
LEMMA AfterAcceptRemembers ==
  ASSUME NEW w \in Window, NEW S \in SUBSET Nat, NEW seq \in Nat,
         Remembers(w, S), Accepts(w, seq)
  PROVE  /\ AfterAccept(w, seq) \in Window
         /\ Remembers(AfterAccept(w, seq), S \cup {seq})
  <1> USE WAssumption
  <1> DEFINE v == AfterAccept(w, seq)
  <1>0. w.initialized \in BOOLEAN /\ w.highest \in Nat /\ w.seen \in SUBSET Bits
    BY DEF Window
  <1>1. CASE ~w.initialized
    <2>1. v = [initialized |-> TRUE, highest |-> seq, seen |-> {0}] /\ S = {}
      BY <1>1 DEF AfterAccept, Remembers
    <2>2. 0 \in Bits
      BY DEF Bits
    <2>3. \A b \in Bits : seq - b = seq <=> b = 0
      BY DEF Bits
    <2>4. {0} = {b \in Bits : seq - b \in S \cup {seq}}
      BY <2>1, <2>2, <2>3
    <2> QED BY <2>1, <2>2, <2>4 DEF Window, Remembers
  <1>2. CASE w.initialized /\ seq > w.highest
    <2> DEFINE k == seq - w.highest
               s == {0} \cup IF k >= W THEN {} ELSE ShiftLeft(w.seen, k)
    <2>1. v = [initialized |-> TRUE, highest |-> seq, seen |-> s]
      BY <1>2 DEF AfterAccept, Advance
    <2>2. k \in Nat /\ k > 0 /\ seq = w.highest + k
      BY <1>0, <1>2
    <2>3. w.highest \in S /\ (\A a \in S : a <= w.highest)
          /\ w.seen = {b \in Bits : w.highest - b \in S}
      BY <1>2 DEF Remembers
    <2>4. s \subseteq Bits
      BY DEF ShiftLeft, Bits
    <2>5. \A b \in Bits : b \in s <=> seq - b \in S \cup {seq}
      <3> SUFFICES ASSUME NEW b \in Bits
                   PROVE  b \in s <=> seq - b \in S \cup {seq}
        OBVIOUS
      <3>1. b \in Nat /\ b < W
        BY DEF Bits
      <3>2. CASE b = 0
        BY <1>0, <3>2
      <3>3. CASE b # 0 /\ b < k
        <4>1. seq - b \in Int /\ ~(seq - b <= w.highest) /\ seq - b # seq
          BY <1>0, <2>2, <3>1, <3>3
        <4>2. seq - b \notin S
          BY <2>3, <4>1
        <4>3. b - k \notin w.seen
          BY <1>0, <2>2, <3>1, <3>3 DEF Bits
        <4> QED BY <3>3, <4>1, <4>2, <4>3 DEF ShiftLeft
      <3>4. CASE b # 0 /\ b >= k
        <4>1. k < W /\ seq - b # seq /\ b - k \in Bits
              /\ w.highest - (b - k) = seq - b
          BY <1>0, <2>2, <3>1, <3>4 DEF Bits
        <4>2. b - k \in w.seen <=> seq - b \in S
          BY <2>3, <4>1
        <4>3. b \in s <=> b - k \in w.seen
          BY <2>2, <3>4, <4>1 DEF ShiftLeft
        <4> QED BY <4>1, <4>2, <4>3
      <3> QED BY <2>2, <3>1, <3>2, <3>3, <3>4
    <2>6. s = {b \in Bits : seq - b \in S \cup {seq}}
      BY <2>4, <2>5
    <2>7. \A a \in S \cup {seq} : a <= seq
      BY <1>0, <2>2, <2>3
    <2> QED BY <2>1, <2>4, <2>6, <2>7 DEF Window, Remembers
  <1>3. CASE w.initialized /\ seq <= w.highest
    <2> DEFINE k == w.highest - seq
    <2>1. v = [w EXCEPT !.seen = w.seen \cup {k}]
      BY <1>0, <1>3 DEF AfterAccept
    <2>2. v = [initialized |-> TRUE, highest |-> w.highest,
               seen |-> w.seen \cup {k}]
      BY <1>3, <2>1, Zenon DEF Window
    <2>3. k \in Bits
      BY <1>0, <1>3 DEF Accepts, Bits
    <2>4. w.highest \in S /\ (\A a \in S : a <= w.highest)
          /\ w.seen = {b \in Bits : w.highest - b \in S}
      BY <1>3 DEF Remembers
    <2>5. \A b \in Bits : w.highest - b = seq <=> b = k
      BY <1>0 DEF Bits
    <2>6. w.seen \cup {k} = {b \in Bits : w.highest - b \in S \cup {seq}}
      BY <2>3, <2>4, <2>5
    <2>7. \A a \in S \cup {seq} : a <= w.highest
      BY <1>3, <2>4
    <2> QED BY <1>0, <2>2, <2>3, <2>4, <2>6, <2>7 DEF Window, Remembers
  <1> QED BY <1>0, <1>1, <1>2, <1>3

-------------------------------------------------------------------------------
(* The inductive invariant: the types, and a window that remembers exactly *)
(* what was accepted.                                                      *)
ReceiverInv == ReceiverTypeOK /\ WindowExact

(* The new window is exact. *)
LEMMA ReceiverInitInv == ReceiverInit => ReceiverInv
  BY NewWindowRemembers DEF ReceiverInit, ReceiverInv, ReceiverTypeOK, WindowExact

(* Accepting and rejecting keep it exact. *)
LEMMA ReceiverNextInv == ReceiverInv /\ [ReceiverNext]_receiver => ReceiverInv'
  <1> SUFFICES ASSUME ReceiverInv, [ReceiverNext]_receiver
               PROVE  ReceiverInv'
    OBVIOUS
  <1> USE DEF ReceiverInv
  <1>0. taken \in SUBSET Nat
    BY SeqNoAssumption, Zenon DEF ReceiverTypeOK
  <1>1. ASSUME NEW seq \in SeqNo, Accept(seq)
        PROVE  ReceiverInv'
    <2>1. seq \in Nat /\ win \in Window
      BY SeqNoAssumption DEF ReceiverTypeOK
    <2>2. win' \in Window /\ Remembers(win', taken')
      BY <1>0, <1>1, <2>1, AfterAcceptRemembers DEF Accept, WindowExact
    <2>3. ReceiverTypeOK'
      BY <1>1, <2>2, Zenon DEF Accept, ReceiverTypeOK
    <2> QED BY <2>2, <2>3 DEF WindowExact
  <1>2. ASSUME NEW seq \in SeqNo, Reject(seq)
        PROVE  ReceiverInv'
    BY <1>2, Zenon DEF Reject, ReceiverTypeOK, WindowExact
  <1>3. CASE UNCHANGED receiver
    BY <1>3 DEF receiver, ReceiverTypeOK, WindowExact
  <1> QED BY <1>1, <1>2, <1>3 DEF ReceiverNext

(* The receiver's state always has its type. *)
THEOREM ReceiverTypeCorrect == ReceiverSpec => []ReceiverTypeOK
  BY ReceiverInitInv, ReceiverNextInv, PTL DEF ReceiverSpec, ReceiverInv

(* In every behaviour the bits of the window are exactly the accepted      *)
(* numbers in its reach (ReplayWindow::accept), whatever the width of the  *)
(* word and whatever was lost, repeated or reordered.                      *)
THEOREM WindowIsExact == ReceiverSpec => []WindowExact
  BY ReceiverInitInv, ReceiverNextInv, PTL DEF ReceiverSpec, ReceiverInv

(* ReplayWindow::accept implements AntiReplay: its verdict on every packet *)
(* is the one the full history of accepted numbers dictates.               *)
THEOREM ReplayRefinement == ReceiverSpec => ImplementsAntiReplay
  <1>1. ReceiverInit => AR!Init
    BY DEF ReceiverInit, AR!Init
  <1>2. ReceiverInv /\ [ReceiverNext]_receiver => [AR!Next]_<<taken, verdict>>
    <2> SUFFICES ASSUME ReceiverInv, [ReceiverNext]_receiver
                 PROVE  [AR!Next]_<<taken, verdict>>
      OBVIOUS
    <2>1. taken \in SUBSET Nat /\ win \in Window /\ Remembers(win, taken)
      BY SeqNoAssumption DEF ReceiverInv, ReceiverTypeOK, WindowExact
    <2>2. ASSUME NEW seq \in SeqNo
          PROVE  Accepts(win, seq) <=> AR!Fresh(seq)
      BY <2>1, SeqNoAssumption, AcceptsExactlyFresh DEF AR!Fresh
    <2>3. ASSUME NEW seq \in SeqNo, Accept(seq)
          PROVE  AR!Next
      <3>1. AR!Fresh(seq) = TRUE
        BY <2>2, <2>3 DEF Accept, AR!Fresh
      <3> QED BY <2>3, <3>1, Zenon DEF Accept, AR!Next, AR!Receive
    <2>4. ASSUME NEW seq \in SeqNo, Reject(seq)
          PROVE  AR!Next
      <3>1. AR!Fresh(seq) = FALSE
        BY <2>2, <2>4 DEF Reject, AR!Fresh
      <3> QED BY <2>4, <3>1, Zenon DEF Reject, AR!Next, AR!Receive
    <2>5. CASE UNCHANGED receiver
      BY <2>5 DEF receiver
    <2> QED BY <2>3, <2>4, <2>5 DEF ReceiverNext
  <1>3. ReceiverSpec => []ReceiverInv
    BY ReceiverInitInv, ReceiverNextInv, PTL DEF ReceiverSpec
  <1> QED BY <1>1, <1>2, <1>3, PTL DEF ReceiverSpec, ImplementsAntiReplay, AR!Spec

-------------------------------------------------------------------------------
(* Ids in use were drawn before, and a cached answer was sent. *)
IdsDrawn ==
    /\ \A p \in pending : p.sid < nextId
    /\ \A h \in hs1 : h.sid < nextId
    /\ \A a \in hs2 : a.sid < nextId /\ a.rsid < nextId
    /\ \A s \in peers : s.key.i < nextId /\ s.key.r < nextId
    /\ \A p \in packets : p.key.i < nextId /\ p.key.r < nextId
    /\ cache \subseteq hs2

(* An unanswered handshake has an id of its own, found only in its own     *)
(* handshake_1, and its node has used no key made from it.                 *)
PendingUnused ==
    /\ \A p, q \in pending : p.sid = q.sid => p = q
    /\ \A p \in pending, h \in hs1 : p.sid = h.sid => h.from = p.at
    /\ \A p \in pending, s \in peers : s.at = p.at => s.key.i # p.sid
    /\ \A p \in pending, q \in packets : q.from = p.at => q.key.i # p.sid
    /\ \A p \in pending, q \in accepted : q.to = p.at => q.key.i # p.sid

(* A node holds a key in at most one session. *)
KeyOnce == \A s, t \in peers : s.at = t.at /\ s.key = t.key => s = t

(* Session s is an end of the session that answer a created. *)
EndOf(s, a) ==
    /\ s.key.i = a.sid /\ s.key.r = a.rsid /\ s.initiator = a.to
    /\ \/ s.at = a.from /\ s.peer = a.to /\ s.tx = a.sid /\ s.rx = a.rsid
       \/ s.at = a.to /\ s.peer = a.from /\ s.tx = a.rsid /\ s.rx = a.sid

(* Every session is an end of one answer; answers have distinct rsids. *)
Provenance ==
    /\ \A a, b \in hs2 : a.rsid = b.rsid => a = b
    /\ \A a \in hs2 : a.from # a.to
    /\ \A s \in peers : \E a \in hs2 : EndOf(s, a)

(* The numbers accepted at n under key k. *)
Got(n, k) == {p.seq : p \in {q \in accepted : q.to = n /\ q.key = k}}

(* The window of a session remembers all that was accepted under its key. *)
WindowsRemember == \A s \in peers : Remembers(s.win, Got(s.at, s.key))

Inv == /\ TypeOK /\ IdsDrawn /\ PendingUnused /\ KeyOnce /\ Provenance
       /\ SeqNeverReused /\ WindowsRemember

-------------------------------------------------------------------------------
(* Records with one field changed. *)

(* What spending a sequence number changes in a session. *)
LEMMA AdvancedFields ==
  ASSUME NEW s \in Session
  PROVE  /\ Advanced(s) \in Session
         /\ Advanced(s).at = s.at /\ Advanced(s).peer = s.peer
         /\ Advanced(s).initiator = s.initiator /\ Advanced(s).key = s.key
         /\ Advanced(s).tx = s.tx /\ Advanced(s).rx = s.rx
         /\ Advanced(s).tx_seq = s.tx_seq + 1 /\ Advanced(s).win = s.win
  BY DEF Advanced, Session

(* What accepting a number changes in a session's window. *)
LEMMA WindowFields ==
  ASSUME NEW s \in Session, NEW w \in Window
  PROVE  LET t == [s EXCEPT !.win = w]
         IN  /\ t \in Session
             /\ t.at = s.at /\ t.peer = s.peer /\ t.initiator = s.initiator
             /\ t.key = s.key /\ t.tx = s.tx /\ t.rx = s.rx
             /\ t.tx_seq = s.tx_seq /\ t.win = w
  BY DEF Session

(* What a packet carries of the session that sent it. *)
LEMMA PacketOfFields ==
  ASSUME NEW s \in Session,
         NEW kind \in {"data", "keepalive", "ack", "disconnect"}
  PROVE  /\ PacketOf(s, kind) \in Packet
         /\ PacketOf(s, kind).from = s.at /\ PacketOf(s, kind).to = s.peer
         /\ PacketOf(s, kind).key = s.key /\ PacketOf(s, kind).seq = s.tx_seq + 1
  BY DEF PacketOf, Packet, Session

(* Both ends of an answered handshake are sessions. *)
LEMMA EndTypes ==
  ASSUME NEW a \in Hs2
  PROVE  ResponderEnd(a) \in Session /\ InitiatorEnd(a) \in Session
  BY NewWindowRemembers DEF ResponderEnd, InitiatorEnd, Session, Key, Hs2

(* What a packet carries is typed. *)
LEMMA GotNumbers ==
  ASSUME TypeOK, NEW n, NEW k
  PROVE  Got(n, k) \in SUBSET Nat
  <1>1. \A p \in accepted : p.seq \in Nat
    BY DEF TypeOK, Packet
  <1> QED BY <1>1 DEF Got

-------------------------------------------------------------------------------
(* Each action preserves the invariant. *)

(* Actions that only take entries out of tables. *)
LEMMA ShrinkInv ==
  ASSUME Inv, peers' \subseteq peers, pending' \subseteq pending,
         cache' \subseteq cache, hs1' \subseteq hs1,
         punching' \subseteq Node \X Node \X Addr,
         UNCHANGED <<hs2, packets, nextId, accepted>>
  PROVE  Inv'
  <1> USE DEF Inv
  <1>1. TypeOK'
    BY DEF TypeOK
  <1>2. IdsDrawn'
    BY DEF IdsDrawn
  <1>3. PendingUnused'
    BY DEF PendingUnused
  <1>4. KeyOnce'
    BY DEF KeyOnce
  <1>5. Provenance'
    BY DEF Provenance
  <1>6. SeqNeverReused'
    BY DEF SeqNeverReused
  <1>7. WindowsRemember'
    BY Zenon DEF WindowsRemember, Got
  <1> QED BY <1>1, <1>2, <1>3, <1>4, <1>5, <1>6, <1>7

(* A dial draws an id nobody has used. *)
LEMMA StartHandshakeInv ==
  ASSUME Inv, NEW n \in Node, NEW m \in Node, NEW known \in BOOLEAN, NEW d \in Addr,
         StartHandshake(n, m, known, d), punching' \subseteq punching
  PROVE  Inv'
  <1> USE DEF Inv
  <1> DEFINE P == [at |-> n, to |-> m, known |-> known, addr |-> d, sid |-> nextId]
             H == [from |-> n, to |-> m, sid |-> nextId]
  <1>1. /\ pending' = pending \cup {P} /\ hs1' = hs1 \cup {H}
        /\ nextId' = nextId + 1 /\ nextId \in Nat
        /\ UNCHANGED <<peers, cache, hs2, packets, accepted>>
    BY DEF StartHandshake, TypeOK
  <1>2. P \in Pending /\ H \in Hs1
    BY <1>1 DEF Pending, Hs1
  <1>3. P.sid = nextId /\ H.sid = nextId /\ P.at = n /\ H.from = n
    OBVIOUS
  <1> HIDE DEF P, H
  <1>4. TypeOK'
    BY <1>1, <1>2 DEF TypeOK
  <1>5. IdsDrawn'
    BY <1>1, <1>3 DEF IdsDrawn, TypeOK, Pending, Hs1, Hs2, Session, Packet, Key
  <1>6. PendingUnused'
    BY <1>1, <1>3 DEF PendingUnused, IdsDrawn, TypeOK
  <1>7. KeyOnce' /\ Provenance' /\ SeqNeverReused'
    BY <1>1 DEF KeyOnce, Provenance, SeqNeverReused
  <1>8. WindowsRemember'
    BY <1>1 DEF WindowsRemember, Got
  <1> QED BY <1>4, <1>5, <1>6, <1>7, <1>8

(* A session under a key its node never used is offered to the table. *)
LEMMA AddPeerInv ==
  ASSUME Inv, NEW s \in Session, NEW simultaneous,
         peers' = AddPeer(s, simultaneous), UNCHANGED <<packets, accepted>>,
         s.tx_seq = 0, s.win = NewWindow,
         \A t \in peers : t.at = s.at => t.key # s.key,
         \A p \in packets : p.from = s.at => p.key # s.key,
         \A p \in accepted : p.to = s.at => p.key # s.key
  PROVE  /\ peers' \subseteq peers \cup {s}
         /\ KeyOnce' /\ SeqNeverReused' /\ WindowsRemember'
  <1> USE DEF Inv
  <1>1. peers' \subseteq peers \cup {s}
    BY DEF AddPeer
  <1>2. KeyOnce'
    BY <1>1 DEF KeyOnce
  <1>3. SeqNeverReused'
    BY <1>1 DEF SeqNeverReused
  <1>4. Got(s.at, s.key) = {}
    BY DEF Got
  <1>5. Remembers(s.win, Got(s.at, s.key))
    BY <1>4, NewWindowRemembers
  <1>6. WindowsRemember'
    BY <1>1, <1>5, Zenon DEF WindowsRemember, Got
  <1> QED BY <1>1, <1>2, <1>3, <1>6

(* The responder installs a session under a key that is new. *)
LEMMA HandleHandshake1Inv ==
  ASSUME Inv, NEW n \in Node, NEW h \in hs1, HandleHandshake1(n, h)
  PROVE  Inv'
  <1> USE DEF Inv
  <1> DEFINE a == [from |-> n, to |-> h.from, sid |-> h.sid, rsid |-> nextId]
             simultaneous ==
                 \E p \in pending : p.at = n /\ p.known /\ p.to = h.from
             s == ResponderEnd(a)
  <1>1. /\ cache' = Remember(a) /\ peers' = AddPeer(s, simultaneous)
        /\ hs2' = hs2 \cup {a} /\ nextId' = nextId + 1 /\ nextId \in Nat
        /\ h.from # n
        /\ UNCHANGED <<pending, hs1, packets, punching, accepted>>
    BY DEF HandleHandshake1, TypeOK
  <1>2. h \in Hs1 /\ a \in Hs2 /\ h.sid \in Nat /\ h.sid < nextId
    BY SMTT(30) DEF TypeOK, Hs1, Hs2, IdsDrawn
  <1>3. /\ s \in Session /\ s.at = n /\ s.peer = h.from /\ s.tx_seq = 0
        /\ s.win = NewWindow /\ s.key.i = h.sid /\ s.key.r = nextId
        /\ EndOf(s, a)
    BY <1>2, EndTypes DEF ResponderEnd, EndOf
  <1>4. a.from = n /\ a.to = h.from /\ a.sid = h.sid /\ a.rsid = nextId
    BY SMTT(30)
  <1> HIDE DEF a, s, simultaneous
  <1>5. /\ \A t \in peers : t.key # s.key
        /\ \A p \in packets : p.key # s.key
        /\ \A p \in accepted : p.key # s.key
    <2>1. \A t \in peers \cup packets : t.key.r < nextId
      BY DEF IdsDrawn
    <2>2. accepted \subseteq packets
      BY DEF TypeOK
    <2> QED BY <1>1, <1>3, <2>1, <2>2
  <1>6. /\ peers' \subseteq peers \cup {s}
        /\ KeyOnce' /\ SeqNeverReused' /\ WindowsRemember'
    BY <1>1, <1>3, <1>5, AddPeerInv
  <1>7. cache' \subseteq cache \cup {a}
    BY <1>1 DEF Remember
  <1>8. TypeOK'
    BY <1>1, <1>2, <1>3, <1>6, <1>7 DEF TypeOK
  <1>9. IdsDrawn'
    BY <1>1, <1>2, <1>3, <1>4, <1>6, <1>7
       DEF IdsDrawn, TypeOK, Pending, Hs1, Hs2, Session, Packet, Key
  <1>10. PendingUnused'
    BY <1>1, <1>3, <1>6, SMTT(30) DEF PendingUnused
  <1>11. Provenance'
    <2>1. \A b \in hs2 : b.rsid # a.rsid
      BY <1>1, <1>4 DEF IdsDrawn
    <2>2. \A t \in peers' : \E b \in hs2' : EndOf(t, b)
      BY <1>1, <1>3, <1>6 DEF Provenance
    <2> QED BY <1>1, <1>4, <2>1, <2>2 DEF Provenance
  <1> QED BY <1>6, <1>8, <1>9, <1>10, <1>11

(* The initiator installs the session its pending handshake was for. *)
LEMMA HandleHandshake2Inv ==
  ASSUME Inv, NEW n \in Node, NEW a \in hs2, HandleHandshake2(n, a)
  PROVE  Inv'
  <1> USE DEF Inv
  <1> DEFINE simultaneous == \E s \in Between(n, a.from) : s.initiator # n
             s == InitiatorEnd(a)
  <1>1. PICK p \in pending : /\ p.at = n /\ p.sid = a.sid
                             /\ pending' = pending \ {p}
    BY DEF HandleHandshake2, Answered
  <1>2. /\ peers' = AddPeer(s, simultaneous) /\ a.to = n
        /\ UNCHANGED <<cache, hs1, hs2, packets, punching, nextId, accepted>>
    BY DEF HandleHandshake2
  <1>3. a \in Hs2
    BY SMTT(30) DEF TypeOK
  <1>4. /\ s \in Session /\ s.at = n /\ s.tx_seq = 0 /\ s.win = NewWindow
        /\ s.key.i = a.sid /\ s.key.r = a.rsid /\ EndOf(s, a)
    <2>1. s \in Session
      BY <1>3, EndTypes, Zenon
    <2>2. /\ s.at = n /\ s.peer = a.from /\ s.initiator = a.to
          /\ s.tx = a.rsid /\ s.rx = a.sid
          /\ s.tx_seq = 0 /\ s.win = NewWindow
      BY <1>2, Zenon DEF InitiatorEnd
    <2>3. s.key = [i |-> a.sid, r |-> a.rsid]
      BY Zenon DEF InitiatorEnd
    <2> HIDE DEF s
    <2> QED BY <1>2, <2>1, <2>2, <2>3 DEF EndOf
  <1> HIDE DEF s, simultaneous
  <1>5. /\ \A t \in peers : t.at = s.at => t.key # s.key
        /\ \A q \in packets : q.from = s.at => q.key # s.key
        /\ \A q \in accepted : q.to = s.at => q.key # s.key
    BY <1>1, <1>4 DEF PendingUnused
  <1>6. /\ peers' \subseteq peers \cup {s}
        /\ KeyOnce' /\ SeqNeverReused' /\ WindowsRemember'
    BY <1>2, <1>4, <1>5, AddPeerInv
  <1>7. TypeOK'
    BY <1>1, <1>2, <1>4, <1>6 DEF TypeOK
  <1>8. IdsDrawn'
    BY <1>1, <1>2, <1>4, <1>6 DEF IdsDrawn
  <1>9. PendingUnused'
    BY <1>1, <1>2, <1>4, <1>6 DEF PendingUnused
  <1>10. Provenance'
    BY <1>2, <1>4, <1>6 DEF Provenance
  <1> QED BY <1>6, <1>7, <1>8, <1>9, <1>10

(* A packet takes the next number of its session. *)
LEMMA SendInv ==
  ASSUME Inv, NEW s \in peers, NEW kind \in {"data", "keepalive"}, Send(s, kind)
  PROVE  Inv'
  <1> USE DEF Inv
  <1> DEFINE p == PacketOf(s, kind)
             t == Advanced(s)
  <1>1. /\ packets' = packets \cup {p} /\ peers' = (peers \ {s}) \cup {t}
        /\ UNCHANGED <<pending, cache, hs1, hs2, punching, nextId, accepted>>
    BY DEF Send
  <1>2. s \in Session /\ s.tx_seq \in Nat
    BY DEF TypeOK, Session
  <1>3. /\ t \in Session /\ t.at = s.at /\ t.peer = s.peer
        /\ t.initiator = s.initiator /\ t.key = s.key /\ t.tx = s.tx
        /\ t.rx = s.rx /\ t.tx_seq = s.tx_seq + 1 /\ t.win = s.win
    BY <1>2, AdvancedFields
  <1>4. /\ p \in Packet /\ p.from = s.at /\ p.to = s.peer
        /\ p.key = s.key /\ p.seq = s.tx_seq + 1
    BY <1>2, PacketOfFields
  <1> HIDE DEF p, t
  <1>5. TypeOK'
    BY <1>1, <1>3, <1>4 DEF TypeOK
  <1>6. IdsDrawn'
    BY <1>1, <1>3, <1>4 DEF IdsDrawn
  <1>7. PendingUnused'
    BY <1>1, <1>3, <1>4 DEF PendingUnused
  <1>8. KeyOnce'
    BY <1>1, <1>3 DEF KeyOnce
  <1>9. Provenance'
    BY <1>1, <1>3 DEF Provenance, EndOf
  <1>10. SeqNeverReused'
    BY <1>1, <1>2, <1>3, <1>4 DEF SeqNeverReused, KeyOnce, TypeOK, Packet
  <1>11. WindowsRemember'
    <2>1. Remembers(t.win, Got(t.at, t.key))
      BY <1>3 DEF WindowsRemember
    <2>2. \A u \in peers' : Remembers(u.win, Got(u.at, u.key))
      BY <1>1, <2>1 DEF WindowsRemember
    <2> QED BY <1>1, <2>2, Zenon DEF WindowsRemember, Got
  <1> QED BY <1>5, <1>6, <1>7, <1>8, <1>9, <1>10, <1>11

(* A packet is accepted, and perhaps answered or obeyed. *)
LEMMA HandleSessionPacketInv ==
  ASSUME Inv, NEW s \in peers, NEW p \in packets, HandleSessionPacket(s, p)
  PROVE  Inv'
  <1> USE DEF Inv
  <1> DEFINE w == AfterAccept(s.win, p.seq)
             t == [s EXCEPT !.win = w]
             q == PacketOf(t, "ack")
  <1>1. /\ s \in Session /\ p \in Packet /\ s.win \in Window /\ p.seq \in Nat
        /\ s.tx_seq \in Nat /\ accepted \subseteq packets /\ packets \subseteq Packet
    BY DEF TypeOK, Session, Packet
  <1>2. /\ p.to = s.at /\ p.from = s.peer /\ p.key = s.key
        /\ Accepts(s.win, p.seq) /\ accepted' = accepted \cup {p}
        /\ UNCHANGED <<pending, cache, hs1, hs2, punching, nextId>>
    BY DEF HandleSessionPacket, Opens
  <1>3. Got(s.at, s.key) \in SUBSET Nat /\ Remembers(s.win, Got(s.at, s.key))
    BY GotNumbers DEF WindowsRemember
  <1>4. w \in Window /\ Remembers(w, Got(s.at, s.key) \cup {p.seq})
    BY <1>1, <1>2, <1>3, AfterAcceptRemembers, ZenonT(30)
  <1> HIDE DEF w
  <1>5. /\ t \in Session /\ t.at = s.at /\ t.peer = s.peer
        /\ t.initiator = s.initiator /\ t.key = s.key /\ t.tx = s.tx
        /\ t.rx = s.rx /\ t.tx_seq = s.tx_seq /\ t.win = w
    BY <1>1, <1>4, WindowFields
  <1>6. \/ peers' = (peers \ {s}) \cup {t} /\ packets' = packets
        \/ peers' = (peers \ {s}) \cup {Advanced(t)} /\ packets' = packets \cup {q}
        \/ peers' = peers \ {s} /\ packets' = packets
    BY DEF HandleSessionPacket, w
  <1> HIDE DEF t
  <1>7. /\ q \in Packet /\ q.from = s.at /\ q.to = s.peer
        /\ q.key = s.key /\ q.seq = s.tx_seq + 1
    BY <1>5, PacketOfFields
  <1> HIDE DEF q
  <1>8. PICK v \in Session :
          /\ v.at = s.at /\ v.peer = s.peer /\ v.initiator = s.initiator
          /\ v.key = s.key /\ v.tx = s.tx /\ v.rx = s.rx /\ v.win = w
          /\ peers' \subseteq (peers \ {s}) \cup {v}
          /\ \/ packets' = packets /\ v.tx_seq = s.tx_seq
             \/ packets' = packets \cup {q} /\ v.tx_seq = s.tx_seq + 1
    <2>1. CASE peers' \subseteq (peers \ {s}) \cup {t} /\ packets' = packets
      BY <1>5, <2>1
    <2>2. CASE /\ peers' = (peers \ {s}) \cup {Advanced(t)}
               /\ packets' = packets \cup {q}
      BY <1>5, <2>2, AdvancedFields
    <2> QED BY <1>6, <2>1, <2>2
  <1>9. TypeOK'
    BY <1>2, <1>7, <1>8, SMTT(30) DEF TypeOK
  <1>10. IdsDrawn'
    BY <1>2, <1>7, <1>8, SMTT(30) DEF IdsDrawn
  <1>11. PendingUnused'
    BY <1>2, <1>7, <1>8 DEF PendingUnused
  <1>12. KeyOnce'
    BY <1>8, SMTT(30) DEF KeyOnce
  <1>13. Provenance'
    BY <1>2, <1>8 DEF Provenance, EndOf
  <1>14. SeqNeverReused'
    BY <1>1, <1>7, <1>8, SMTT(30) DEF SeqNeverReused, KeyOnce, Packet
  <1>15. WindowsRemember'
    <2>1. Got(s.at, s.key)' = Got(s.at, s.key) \cup {p.seq}
      BY <1>2 DEF Got
    <2>2. Remembers(v.win, Got(v.at, v.key)')
      BY <1>4, <1>8, <2>1
    <2>3. ASSUME NEW u \in peers, u # s
          PROVE  Remembers(u.win, Got(u.at, u.key)')
      <3>1. ~(p.to = u.at /\ p.key = u.key)
        BY <1>2, <2>3 DEF KeyOnce
      <3>2. Got(u.at, u.key)' = Got(u.at, u.key)
        BY <1>2, <3>1 DEF Got
      <3> QED BY <3>2 DEF WindowsRemember
    <2>4. \A u \in peers' : Remembers(u.win, Got(u.at, u.key)')
      BY <1>8, <2>2, <2>3
    <2> QED BY <2>4 DEF WindowsRemember
  <1> QED BY <1>9, <1>10, <1>11, <1>12, <1>13, <1>14, <1>15

(* A node says goodbye under every session and forgets them. *)
LEMMA ShutdownInv ==
  ASSUME Inv, NEW n \in Node, Shutdown(n)
  PROVE  Inv'
  <1> USE DEF Inv
  <1> DEFINE D == {PacketOf(s, "disconnect") : s \in {t \in peers : t.at = n}}
  <1>1. /\ peers' = {s \in peers : s.at # n}
        /\ pending' = {p \in pending : p.at # n}
        /\ cache' \subseteq cache /\ packets' = packets \cup D
        /\ punching' \subseteq punching
        /\ UNCHANGED <<hs1, hs2, nextId, accepted>>
    BY DEF Shutdown, Forget
  <1>2. ASSUME NEW d \in D
        PROVE  d \in Packet /\ d.from = n /\ \E s \in peers : d.key = s.key
    <2>1. PICK s \in peers : s.at = n /\ d = PacketOf(s, "disconnect")
      OBVIOUS
    <2>2. s \in Session
      BY DEF TypeOK
    <2> QED BY <2>1, <2>2, PacketOfFields
  <1> HIDE DEF D
  <1>3. TypeOK'
    BY <1>1, <1>2 DEF TypeOK
  <1>4. IdsDrawn'
    BY <1>1, <1>2 DEF IdsDrawn
  <1>5. PendingUnused'
    BY <1>1, <1>2 DEF PendingUnused
  <1>6. KeyOnce' /\ Provenance'
    BY <1>1 DEF KeyOnce, Provenance
  <1>7. SeqNeverReused'
    BY <1>1, <1>2 DEF SeqNeverReused
  <1>8. WindowsRemember'
    BY <1>1, Zenon DEF WindowsRemember, Got
  <1> QED BY <1>3, <1>4, <1>5, <1>6, <1>7, <1>8

-------------------------------------------------------------------------------
(* Nothing has been sent and nothing is held. *)
LEMMA InitInv == Init => Inv
  BY DEF Init, Inv, TypeOK, IdsDrawn, PendingUnused, KeyOnce, Provenance,
         SeqNeverReused, WindowsRemember

(* Every step of every node keeps the invariant. *)
LEMMA NextInv == Inv /\ [Next]_vars => Inv'
  <1> SUFFICES ASSUME Inv, [Next]_vars
               PROVE  Inv'
    OBVIOUS
  <1>0. punching \subseteq Node \X Node \X Addr
    BY DEF Inv, TypeOK
  <1>1. ASSUME NEW n \in Node, NEW m \in Node, NEW d \in Addr,
               Discover(n, m, d) \/ PunchCheck(n, m, d) \/ PunchDial(n, m, d)
        PROVE  Inv'
    <2>1. CASE Discover(n, m, d)
      BY <2>1, StartHandshakeInv, Zenon DEF Discover
    <2>2. CASE PunchCheck(n, m, d)
      BY <1>0, <2>2, ShrinkInv DEF PunchCheck
    <2>3. CASE PunchDial(n, m, d)
      BY <2>3, StartHandshakeInv, Zenon DEF PunchDial
    <2> QED BY <1>1, <2>1, <2>2, <2>3
  <1>2. ASSUME NEW n \in Node, NEW h \in hs1, AnswerFromCache(n, h)
        PROVE  Inv'
    <2>1. hs2' = hs2
      BY <1>2 DEF AnswerFromCache, CachedAt, Inv, IdsDrawn
    <2> QED BY <1>0, <1>2, <2>1, ShrinkInv DEF AnswerFromCache
  <1>3. ASSUME NEW n \in Node, NEW h \in hs1, HandleHandshake1(n, h)
        PROVE  Inv'
    BY <1>3, HandleHandshake1Inv
  <1>4. ASSUME NEW n \in Node, NEW a \in hs2, HandleHandshake2(n, a)
        PROVE  Inv'
    BY <1>4, HandleHandshake2Inv
  <1>5. ASSUME NEW p \in pending, GiveUp(p)
        PROVE  Inv'
    BY <1>0, <1>5, ShrinkInv DEF GiveUp
  <1>6. ASSUME NEW a \in cache, CacheExpire(a)
        PROVE  Inv'
    BY <1>0, <1>6, ShrinkInv DEF CacheExpire
  <1>7. ASSUME NEW s \in peers, NEW kind \in {"data", "keepalive"}, Send(s, kind)
        PROVE  Inv'
    BY <1>7, SendInv
  <1>8. ASSUME NEW s \in peers, NEW p \in packets, HandleSessionPacket(s, p)
        PROVE  Inv'
    BY <1>8, HandleSessionPacketInv
  <1>9. ASSUME NEW s \in peers, DropPeer(s)
        PROVE  Inv'
    BY <1>0, <1>9, ShrinkInv DEF DropPeer
  <1>10. ASSUME NEW n \in Node, Crash(n)
         PROVE  Inv'
    BY <1>0, <1>10, ShrinkInv DEF Crash, Forget
  <1>11. ASSUME NEW n \in Node, Shutdown(n)
         PROVE  Inv'
    BY <1>11, ShutdownInv
  <1>12. CASE UNCHANGED vars
    BY <1>0, <1>12, ShrinkInv DEF vars
  <1> QED BY <1>1, <1>2, <1>3, <1>4, <1>5, <1>6, <1>7, <1>8, <1>9, <1>10,
             <1>11, <1>12 DEF Next, RunNext, DialNext

(* The state of the nodes and of the network always has its type. *)
THEOREM TypeCorrect == Spec => []TypeOK
  BY InitInv, NextInv, PTL DEF Spec, Inv

(* Two ends under one key always are the two ends of one session, with     *)
(* crossed ids (add_peer, called from handle_handshake_1 and _2).          *)
THEOREM KeysAlwaysMeet == Spec => []KeysMeet
  <1>1. Inv => KeysMeet
    <2> SUFFICES ASSUME Inv, NEW s \in peers, NEW t \in peers,
                        s # t, s.key = t.key
                 PROVE  /\ s.at = t.peer /\ s.peer = t.at
                        /\ s.initiator = t.initiator
                        /\ s.tx = t.rx /\ s.rx = t.tx
      BY DEF KeysMeet
    <2>1. PICK a \in hs2 : EndOf(s, a)
      BY DEF Inv, Provenance
    <2>2. PICK b \in hs2 : EndOf(t, b)
      BY DEF Inv, Provenance
    <2>3. a = b
      BY <2>1, <2>2 DEF Inv, Provenance, EndOf
    <2>4. s.at # t.at
      BY DEF Inv, KeyOnce
    <2> QED BY <2>1, <2>2, <2>3, <2>4 DEF EndOf
  <1> QED BY InitInv, NextInv, <1>1, PTL DEF Spec

(* No node ever sends two packets with one number under one traffic key,   *)
(* across retransmitted, crossed and repeated handshakes, session          *)
(* replacement, timeouts, disconnects and restarts (next_seq, add_peer).   *)
THEOREM SequenceNumbersAreFresh == Spec => []SeqNeverReused
  BY InitInv, NextInv, PTL DEF Spec, Inv

-------------------------------------------------------------------------------
(* The sessions implement the secure channel. *)

(* A session seals under a nonce that no packet ever sent has. *)
LEMMA FreshNonce ==
  ASSUME Inv, NEW s \in peers, NEW q \in packets,
         NEW kind \in {"data", "keepalive", "ack", "disconnect"}
  PROVE  Channel!Nonce(PacketOf(s, kind)) # Channel!Nonce(q)
  <1>1. s \in Session /\ s.tx_seq \in Nat /\ q.seq \in Nat
    BY DEF Inv, TypeOK, Session, Packet
  <1>2. q.from = s.at /\ q.key = s.key => q.seq <= s.tx_seq
    BY DEF Inv, SeqNeverReused
  <1> QED BY <1>1, <1>2, PacketOfFields DEF Channel!Nonce

(* So one more packet under the session is a step of the channel. *)
LEMMA SealOne ==
  ASSUME Inv, NEW s \in peers,
         NEW kind \in {"data", "keepalive", "ack", "disconnect"},
         packets' = packets \cup {PacketOf(s, kind)}
  PROVE  Channel!Seal
  <1>1. \A q \in packets : Channel!Nonce(PacketOf(s, kind)) # Channel!Nonce(q)
    BY FreshNonce
  <1>2. \A p \in packets' \ packets : p = PacketOf(s, kind)
    OBVIOUS
  <1>3. \A q \in packets' : q \in packets \/ q = PacketOf(s, kind)
    OBVIOUS
  <1> QED BY <1>1, <1>2, <1>3 DEF Channel!Seal

(* A packet that passes a window was not handed over before. *)
LEMMA NotHandedOver ==
  ASSUME Inv, NEW s \in peers, NEW p \in accepted, Opens(s, p)
  PROVE  ~Accepts(s.win, p.seq)
  <1>1. s.win \in Window /\ p.seq \in Nat
    BY DEF Inv, TypeOK, Session, Packet
  <1>2. p.seq \in Got(s.at, s.key)
    BY DEF Opens, Got
  <1>3. Got(s.at, s.key) \in SUBSET Nat /\ Remembers(s.win, Got(s.at, s.key))
    BY GotNumbers DEF Inv, WindowsRemember
  <1> QED BY <1>1, <1>2, <1>3, AcceptsExactlyFresh

(* No packet is accepted twice, whatever the network repeats or delays and *)
(* however sessions are replaced (ReplayWindow::accept in                  *)
(* handle_session_packet, windows reset by add_peer).                      *)
THEOREM DeliveredAtMostOnce == Spec => []AtMostOnce
  <1>1. Inv => AtMostOnce
    BY NotHandedOver DEF AtMostOnce
  <1> QED BY InitInv, NextInv, <1>1, PTL DEF Spec

(* handle_session_packet hands a packet over and may seal an ack. *)
LEMMA HandleSessionPacketSteps ==
  ASSUME Inv, NEW s \in peers, NEW p \in packets, HandleSessionPacket(s, p)
  PROVE  Channel!Next
  <1>1. Opens(s, p) /\ Accepts(s.win, p.seq) /\ accepted' = accepted \cup {p}
    BY DEF HandleSessionPacket
  <1>2. Channel!Deliver
    BY <1>1, NotHandedOver, Zenon DEF Channel!Deliver
  <1>3. Channel!Seal
    <2>1. CASE UNCHANGED packets
      BY <2>1 DEF Channel!Seal
    <2>2. CASE packets' = packets \cup
                             {PacketOf([s EXCEPT !.win = AfterAccept(@, p.seq)], "ack")}
      <3>1. s \in Session
        BY DEF Inv, TypeOK
      <3>2. PacketOf([s EXCEPT !.win = AfterAccept(@, p.seq)], "ack") = PacketOf(s, "ack")
        BY <3>1 DEF PacketOf, Session
      <3> QED BY <2>2, <3>2, SealOne, Zenon
    <2> QED BY <2>1, <2>2 DEF HandleSessionPacket
  <1> QED BY <1>2, <1>3 DEF Channel!Next

(* notify_shutdown seals one packet under each session of the node, and a  *)
(* node has a key in one session only.                                     *)
LEMMA ShutdownSteps ==
  ASSUME Inv, NEW n \in Node, Shutdown(n)
  PROVE  Channel!Next
  <1> DEFINE D == {PacketOf(s, "disconnect") : s \in {t \in peers : t.at = n}}
  <1>1. packets' = packets \cup D /\ UNCHANGED accepted
    BY DEF Shutdown, Forget
  <1>2. ASSUME NEW d \in D, NEW q \in packets PROVE Channel!Nonce(d) # Channel!Nonce(q)
    <2>1. PICK s \in peers : d = PacketOf(s, "disconnect")
      OBVIOUS
    <2> QED BY <2>1, FreshNonce, Zenon
  <1>3. ASSUME NEW d \in D, NEW e \in D, Channel!Nonce(d) = Channel!Nonce(e) PROVE d = e
    <2>1. PICK s \in peers : d = PacketOf(s, "disconnect")
      OBVIOUS
    <2>2. PICK t \in peers : e = PacketOf(t, "disconnect")
      OBVIOUS
    <2>3. s \in Session /\ t \in Session
      BY DEF Inv, TypeOK
    <2>4. s.at = t.at /\ s.key = t.key
      BY <1>3, <2>1, <2>2, <2>3, PacketOfFields DEF Channel!Nonce
    <2>5. s = t
      BY <2>4 DEF Inv, KeyOnce
    <2> QED BY <2>1, <2>2, <2>5
  <1> HIDE DEF D
  <1>4. Channel!Seal
    BY <1>1, <1>2, <1>3, Zenon DEF Channel!Seal
  <1> QED BY <1>1, <1>4 DEF Channel!Next

(* Every step of every node is a step of the channel or none. *)
LEMMA StepsOfChannel ==
  ASSUME Inv, [Next]_vars
  PROVE  [Channel!Next]_<<packets, accepted>>
  <1>1. ASSUME NEW n \in Node, NEW m \in Node, NEW d \in Addr,
               Discover(n, m, d) \/ PunchCheck(n, m, d) \/ PunchDial(n, m, d)
        PROVE  UNCHANGED <<packets, accepted>>
    BY <1>1, Zenon DEF Discover, PunchCheck, PunchDial, StartHandshake
  <1>2. ASSUME NEW n \in Node, NEW h \in hs1, AnswerFromCache(n, h) \/ HandleHandshake1(n, h)
        PROVE  UNCHANGED <<packets, accepted>>
    BY <1>2, Zenon DEF AnswerFromCache, HandleHandshake1
  <1>3. ASSUME NEW n \in Node, NEW a \in hs2, HandleHandshake2(n, a)
        PROVE  UNCHANGED <<packets, accepted>>
    BY <1>3, Zenon DEF HandleHandshake2
  <1>4. ASSUME NEW p, GiveUp(p) \/ CacheExpire(p) \/ DropPeer(p)
        PROVE  UNCHANGED <<packets, accepted>>
    BY <1>4, Zenon DEF GiveUp, CacheExpire, DropPeer
  <1>5. ASSUME NEW s \in peers, NEW kind \in {"data", "keepalive"}, Send(s, kind)
        PROVE  Channel!Next
    <2>1. packets' = packets \cup {PacketOf(s, kind)} /\ UNCHANGED accepted
      BY <1>5 DEF Send
    <2>2. kind \in {"data", "keepalive", "ack", "disconnect"}
      OBVIOUS
    <2> QED BY <2>1, <2>2, SealOne, Zenon DEF Channel!Next
  <1>6. ASSUME NEW s \in peers, NEW p \in packets, HandleSessionPacket(s, p)
        PROVE  Channel!Next
    BY <1>6, HandleSessionPacketSteps
  <1>7. ASSUME NEW n \in Node, Crash(n)
        PROVE  UNCHANGED <<packets, accepted>>
    BY <1>7, Zenon DEF Crash, Forget
  <1>8. ASSUME NEW n \in Node, Shutdown(n)
        PROVE  Channel!Next
    BY <1>8, ShutdownSteps
  <1>9. CASE UNCHANGED vars
    BY <1>9 DEF vars
  <1> QED BY <1>1, <1>2, <1>3, <1>4, <1>5, <1>6, <1>7, <1>8, <1>9, Zenon
          DEF Next, RunNext, DialNext

(* For any nodes, contacts, cache size and window, whatever the network    *)
(* and the timers do and however often nodes restart, sessions are a       *)
(* secure channel: nonces never repeat (next_seq under the keys add_peer   *)
(* installs) and each packet is handed over at most once                   *)
(* (ReplayWindow::accept in handle_session_packet).                        *)
THEOREM ChannelRefinement == Spec => ImplementsSecureChannel
  <1>1. Init => Channel!Init
    BY DEF Init, Channel!Init
  <1>2. Inv /\ [Next]_vars => [Channel!Next]_<<packets, accepted>>
    BY StepsOfChannel
  <1>3. Spec => []Inv
    BY InitInv, NextInv, PTL DEF Spec
  <1> QED BY <1>1, <1>2, <1>3, PTL DEF Spec, ImplementsSecureChannel, Channel!Spec

-------------------------------------------------------------------------------
(* At most one handshake in flight per peer and per address. *)

(* A lighthouse being dialled has no handshake by endpoint in flight to    *)
(* the address, and the punch thread dials one lighthouse at a time.       *)
PunchingAlone ==
    /\ \A c, d \in punching : c[1] = d[1] => c = d
    /\ \A c \in punching, p \in pending :
          p.at = c[1] /\ p.addr = c[3] => p.known = TRUE

(* Node n has no handshake in flight to peer m or address d of this way. *)
NoneLike(n, m, known, d) ==
    \A p \in pending : p.at = n =>
        /\ known = TRUE /\ p.known = TRUE => p.to # m
        /\ known = FALSE /\ p.known = FALSE => p.addr # d

(* A handshake that finds none like it in flight is added. *)
LEMMA StartedAlone ==
  ASSUME TypeOK, OneInFlightPerWay, NEW n \in Node, NEW m \in Node,
         NEW known \in BOOLEAN, NEW d \in Addr, StartHandshake(n, m, known, d),
         NoneLike(n, m, known, d)
  PROVE  OneInFlightPerWay'
  <1> DEFINE P == [at |-> n, to |-> m, known |-> known, addr |-> d, sid |-> nextId]
  <1>1. pending' = pending \cup {P}
    BY DEF StartHandshake
  <1>2. P.at = n /\ P.to = m /\ P.known = known /\ P.addr = d
    OBVIOUS
  <1>3. \A p \in pending : p.known \in BOOLEAN
    BY DEF TypeOK, Pending
  <1> HIDE DEF P
  <1> SUFFICES ASSUME NEW p \in pending', NEW q \in pending', p.at = q.at
               PROVE  /\ p.known /\ q.known /\ p.to = q.to => p = q
                      /\ ~p.known /\ ~q.known /\ p.addr = q.addr => p = q
    BY Zenon DEF OneInFlightPerWay
  <1>4. CASE p \in pending /\ q \in pending
    BY <1>4, Zenon DEF OneInFlightPerWay
  <1>5. CASE p = P /\ q = P
    BY <1>5
  <1>6. CASE p = P /\ q \in pending
    BY <1>2, <1>3, <1>6 DEF NoneLike
  <1>7. CASE p \in pending /\ q = P
    BY <1>2, <1>3, <1>7 DEF NoneLike
  <1> QED BY <1>1, <1>4, <1>5, <1>6, <1>7, Zenon

(* However the receive thread and the punch thread of a node interleave in *)
(* start_handshake, no peer is dialled twice at once by id, and no address *)
(* twice at once as a lighthouse's.                                        *)
THEOREM NoDoubleDial == Spec => []OneInFlightPerWay
  <1>1. Init => OneInFlightPerWay /\ PunchingAlone
    BY SMTT(30) DEF Init, OneInFlightPerWay, PunchingAlone
  <1>2. ASSUME TypeOK, OneInFlightPerWay, PunchingAlone, [Next]_vars
        PROVE  OneInFlightPerWay' /\ PunchingAlone'
    <2>0. \A p \in pending : p.known \in BOOLEAN
      BY <1>2 DEF TypeOK, Pending
    <2>1. ASSUME NEW n \in Node, NEW m \in Node, NEW d \in Addr, Discover(n, m, d)
          PROVE  OneInFlightPerWay' /\ PunchingAlone'
      <3>1. OneInFlightPerWay'
        <4>1. StartHandshake(n, m, TRUE, d) /\ NoneLike(n, m, TRUE, d)
          BY <2>1 DEF Discover, InFlight, NoneLike
        <4>2. TRUE \in BOOLEAN
          OBVIOUS
        <4> QED BY <1>2, <4>1, <4>2, StartedAlone, ZenonT(30)
      <3>2. PunchingAlone'
        BY <1>2, <2>1 DEF Discover, StartHandshake, PunchingAlone
      <3> QED BY <3>1, <3>2
    <2>2. ASSUME NEW n \in Node, NEW m \in Node, NEW d \in Addr, PunchCheck(n, m, d)
          PROVE  OneInFlightPerWay' /\ PunchingAlone'
      <3>1. /\ punching' = punching \cup {<<n, m, d>>} /\ pending' = pending
            /\ \A c \in punching : c[1] # n
            /\ ~ \E p \in pending : p.at = n /\ p.addr = d
        BY <2>2 DEF PunchCheck, InFlight
      <3> QED BY <1>2, <3>1, SMTT(30) DEF OneInFlightPerWay, PunchingAlone
    <2>3. ASSUME NEW n \in Node, NEW m \in Node, NEW d \in Addr, PunchDial(n, m, d)
          PROVE  OneInFlightPerWay' /\ PunchingAlone'
      <3>1. NoneLike(n, m, FALSE, d)
        BY <1>2, <2>3 DEF PunchDial, PunchingAlone, NoneLike
      <3>2. OneInFlightPerWay'
        <4>1. FALSE \in BOOLEAN /\ StartHandshake(n, m, FALSE, d)
          BY <2>3, Zenon DEF PunchDial
        <4> QED BY <1>2, <3>1, <4>1, StartedAlone, ZenonT(30)
      <3>3. \A c \in punching' : c \in punching /\ c[1] # n
        BY <1>2, <2>3 DEF PunchDial, PunchingAlone
      <3>4. \A p \in pending' : p \in pending \/ p.at = n
        BY <2>3 DEF PunchDial, StartHandshake
      <3> QED BY <1>2, <3>2, <3>3, <3>4 DEF PunchingAlone
    <2>4. CASE pending' \subseteq pending /\ punching' \subseteq punching
      BY <1>2, <2>4, Zenon DEF OneInFlightPerWay, PunchingAlone
    <2>5. ASSUME NEW n \in Node, NEW h \in hs1,
                 AnswerFromCache(n, h) \/ HandleHandshake1(n, h)
          PROVE  pending' \subseteq pending /\ punching' \subseteq punching
      BY <2>5, Zenon DEF AnswerFromCache, HandleHandshake1
    <2>6. ASSUME NEW n \in Node, NEW a \in hs2, HandleHandshake2(n, a)
          PROVE  pending' \subseteq pending /\ punching' \subseteq punching
      BY <2>6 DEF HandleHandshake2, Answered
    <2>7. ASSUME (\E p \in pending : GiveUp(p)) \/ (\E a \in cache : CacheExpire(a))
          PROVE  pending' \subseteq pending /\ punching' \subseteq punching
      BY <2>7 DEF GiveUp, CacheExpire
    <2>8. ASSUME NEW s \in peers,
                 \/ \E kind \in {"data", "keepalive"} : Send(s, kind)
                 \/ \E p \in packets : HandleSessionPacket(s, p)
                 \/ DropPeer(s)
          PROVE  pending' \subseteq pending /\ punching' \subseteq punching
      BY <2>8, ZenonT(30) DEF Send, HandleSessionPacket, DropPeer
    <2>9. ASSUME NEW n \in Node, Crash(n) \/ Shutdown(n)
          PROVE  pending' \subseteq pending /\ punching' \subseteq punching
      BY <2>9 DEF Crash, Shutdown, Forget
    <2>10. CASE UNCHANGED vars
      BY <2>4, <2>10 DEF vars
    <2> QED BY <1>2, <2>1, <2>2, <2>3, <2>4, <2>5, <2>6, <2>7, <2>8, <2>9, <2>10
            DEF Next, RunNext, DialNext
  <1> QED BY InitInv, NextInv, <1>1, <1>2, PTL DEF Spec, Inv

-------------------------------------------------------------------------------
(* One answer per handshake, as far as the caches reach. *)

(* The answers of its node since answer a. *)
Since(a) == {c \in hs2 : c.from = a.from /\ a.rsid < c.rsid}

(* A node that has forgotten an answer has given CacheMax others since, or *)
(* no copy of the handshake_1 is left on the way.                          *)
StillCached ==
    \A a \in hs2 : \/ a \in cache
                   \/ Cardinality(Since(a)) >= CacheMax
                   \/ \A h \in hs1 : ~ (h.to = a.from /\ h.sid = a.sid)

AnswerInv == IsFiniteSet(hs2) /\ AnewOnlyAfterMany /\ StillCached

(* A dial sends a handshake_1 that nobody has answered yet. *)
LEMMA StartHandshakeAnswers ==
  ASSUME Inv, AnswerInv, NEW n \in Node, NEW m \in Node, NEW known \in BOOLEAN,
         NEW d \in Addr, StartHandshake(n, m, known, d)
  PROVE  AnswerInv'
  <1> DEFINE H == [from |-> n, to |-> m, sid |-> nextId]
  <1>1. hs1' = hs1 \cup {H} /\ hs2' = hs2 /\ cache' = cache /\ nextId \in Nat
    BY DEF StartHandshake, Inv, TypeOK
  <1>2. H.sid = nextId
    OBVIOUS
  <1> HIDE DEF H
  <1>3. \A a \in hs2 : a.sid # H.sid
    <2>1. \A a \in hs2 : a.sid < nextId
      BY Zenon DEF Inv, IdsDrawn
    <2>2. nextId \in Nat
      BY <1>1
    <2> QED
      BY <2>1, <2>2, <1>2
  <1>4. AnewOnlyAfterMany' /\ IsFiniteSet(hs2)'
    BY <1>1, Zenon DEF AnswerInv, AnewOnlyAfterMany
  <1>5. \A a : Since(a)' = Since(a)
    BY <1>1, Zenon DEF Since
  <1>6. StillCached'
    BY <1>1, <1>3, <1>5 DEF AnswerInv, StillCached
  <1> QED BY <1>4, <1>6, Zenon DEF AnswerInv

(* A full cache that forgets its oldest answer for a new one leaves        *)
(* CacheMax answers newer than the forgotten one.                          *)
LEMMA EvictedAfterMany ==
  ASSUME Inv, IsFiniteSet(hs2), NEW n \in Node, NEW b, b.from = n,
         b.rsid = nextId, hs2' = hs2 \cup {b}, NEW a \in Evicted(n)
  PROVE  Cardinality(Since(a)') >= CacheMax
  <1> DEFINE C == CachedAt(n)  D == C \ {a}  E == D \cup {b}
  <1>1. /\ a \in C /\ Cardinality(C) >= CacheMax
        /\ \A c \in C : a.rsid <= c.rsid
    <2>1. ~ (Cardinality(C) < CacheMax)
      BY Zenon DEF Evicted
    <2>2. C \subseteq hs2
      BY DEF CachedAt, Inv, IdsDrawn
    <2>3. Cardinality(C) \in Nat
      BY <2>2, FS_Subset, FS_CardinalityType
    <2>4. a \in C /\ \A c \in C : a.rsid <= c.rsid
      BY <2>1 DEF Evicted
    <2> QED BY <2>1, <2>3, <2>4, BoundsAssumption
  <1>2. C \subseteq hs2 /\ \A c \in C : c.from = n
    BY DEF CachedAt, Inv, IdsDrawn
  <1>3. \A c \in hs2 : c.rsid \in Nat /\ c.rsid < nextId
    BY DEF Inv, IdsDrawn, TypeOK, Hs2
  <1>4. \A c \in D : a.rsid < c.rsid
    BY <1>1, <1>2, <1>3 DEF Inv, Provenance
  <1>5. b \notin C
    BY <1>2, <1>3
  <1>6. IsFiniteSet(C) /\ IsFiniteSet(D) /\ Cardinality(C) \in Nat
    BY <1>2, FS_Subset, FS_RemoveElement, FS_CardinalityType
  <1>7. Cardinality(E) = Cardinality(C)
    <2>1. Cardinality(D) = Cardinality(C) - 1
      BY <1>1, <1>6, FS_RemoveElement
    <2>2. Cardinality(E) = Cardinality(D) + 1
      BY <1>5, <1>6, FS_AddElement
    <2> QED BY <1>6, <2>1, <2>2
  <1>8. E \subseteq Since(a)'
    <2>1. a.from = n /\ a.rsid < b.rsid
      BY <1>1, <1>2, <1>3
    <2> QED BY <1>2, <1>4, <2>1 DEF Since
  <1>9. IsFiniteSet(Since(a)')
    <2>1. IsFiniteSet(hs2 \cup {b})
      BY FS_AddElement
    <2>2. Since(a)' \subseteq hs2 \cup {b}
      BY DEF Since
    <2> QED BY <2>1, <2>2, FS_Subset
  <1>10. /\ Cardinality(E) <= Cardinality(Since(a)')
         /\ Cardinality(Since(a)') \in Nat
    BY <1>8, <1>9, FS_Subset, FS_CardinalityType
  <1> QED BY <1>1, <1>6, <1>7, <1>10, BoundsAssumption

(* An answer to a handshake_1 that was answered before: the earlier answer *)
(* is not in the cache, so it was forgotten long enough ago.               *)
LEMMA HandleHandshake1Answers ==
  ASSUME Inv, AnswerInv, NEW n \in Node, NEW h \in hs1, HandleHandshake1(n, h)
  PROVE  AnswerInv'
  <1> DEFINE b == [from |-> n, to |-> h.from, sid |-> h.sid, rsid |-> nextId]
  <1>1. /\ cache' = Remember(b) /\ hs2' = hs2 \cup {b} /\ hs1' = hs1
        /\ h.to = n /\ ~ \E a \in CachedAt(n) : a.sid = h.sid
    BY Zenon DEF HandleHandshake1
  <1>2. b.from = n /\ b.sid = h.sid /\ b.rsid = nextId
    BY SMTT(30)
  <1> HIDE DEF b
  <1>3. \A c \in hs2 : c.rsid \in Nat /\ c.rsid < nextId
    BY DEF Inv, IdsDrawn, TypeOK, Hs2
  <1>4. nextId \in Nat
    BY DEF Inv, TypeOK
  <1>5. IsFiniteSet(hs2)'
    BY <1>1, FS_AddElement DEF AnswerInv
  <1>6. ASSUME NEW a \in hs2
        PROVE  /\ IsFiniteSet(Since(a)) /\ IsFiniteSet(Since(a)')
               /\ Cardinality(Since(a)) <= Cardinality(Since(a)')
               /\ Cardinality(Since(a)) \in Nat
               /\ Cardinality(Since(a)') \in Nat
    <2>1. Since(a) \subseteq Since(a)' /\ Since(a)' \subseteq hs2'
      BY <1>1 DEF Since
    <2> QED BY <1>5, <2>1, FS_Subset, FS_CardinalityType
  <1>7. StillCached'
    <2> SUFFICES ASSUME NEW a \in hs2'
                 PROVE  \/ a \in cache' \/ Cardinality(Since(a)') >= CacheMax
                        \/ \A g \in hs1' : ~ (g.to = a.from /\ g.sid = a.sid)
      BY Zenon DEF StillCached
    <2>1. CASE a = b
      BY <1>1, <2>1 DEF Remember
    <2>2. CASE a \in hs2 /\ Cardinality(Since(a)) >= CacheMax
      BY <1>6, <2>2, BoundsAssumption
    <2>3. CASE a \in hs2 /\ \A g \in hs1 : ~ (g.to = a.from /\ g.sid = a.sid)
      BY <1>1, <2>3
    <2>4. CASE a \in cache
      <3>1. CASE a \in Evicted(n)
        BY <1>1, <1>2, <3>1, EvictedAfterMany DEF AnswerInv
      <3>2. CASE a \notin Evicted(n)
        BY <1>1, <1>2, <2>4, <3>2 DEF Remember
      <3> QED BY <3>1, <3>2
    <2> QED BY <1>1, <2>1, <2>2, <2>3, <2>4 DEF AnswerInv, StillCached
  <1>8. AnewOnlyAfterMany'
    <2> DEFINE M(x, y) == {c \in hs2 : /\ c.from = x.from
                                      /\ x.rsid < c.rsid /\ c.rsid < y.rsid}
               N(x, y) == {c \in hs2' : /\ c.from = x.from
                                       /\ x.rsid < c.rsid /\ c.rsid < y.rsid}
    <2> SUFFICES ASSUME NEW a \in hs2', NEW e \in hs2', a.from = e.from,
                        a.sid = e.sid, a.rsid < e.rsid
                 PROVE  Cardinality(N(a, e)) >= CacheMax
      BY Zenon DEF AnewOnlyAfterMany
    <2>1. a \in hs2
      BY <1>1, <1>2, <1>3, <1>4
    <2>2. CASE e \in hs2
      <3>1. N(a, e) = M(a, e)
        BY <1>1, <1>2, <1>3, <1>4, <2>2
      <3>2. Cardinality(M(a, e)) >= CacheMax
        BY <2>1, <2>2, Zenon DEF AnswerInv, AnewOnlyAfterMany
      <3> QED BY <3>1, <3>2
    <2>3. CASE e = b
      <3>1. N(a, e) = Since(a)
        BY <1>1, <1>2, <1>3, <1>4, <2>3 DEF Since
      <3>2. a \notin cache
        BY <1>1, <1>2, <2>3 DEF CachedAt
      <3>3. Cardinality(Since(a)) >= CacheMax
        BY <1>1, <1>2, <2>1, <2>3, <3>2 DEF AnswerInv, StillCached
      <3> QED BY <3>1, <3>3
    <2> QED BY <1>1, <2>2, <2>3
  <1> QED BY <1>5, <1>7, <1>8, Zenon DEF AnswerInv

(* Steps that send no handshake and forget no answer. *)
LEMMA SameAnswers ==
  ASSUME AnswerInv, UNCHANGED <<cache, hs1, hs2>>
  PROVE  AnswerInv'
  BY Zenon DEF AnswerInv, AnewOnlyAfterMany, StillCached, Since

(* Dialling and answering give second answers only as promised. *)
LEMMA DialAnswers ==
  ASSUME Inv, AnswerInv, DialNext
  PROVE  AnswerInv'
  <1>1. ASSUME NEW n \in Node, NEW m \in Node, NEW d \in Addr, Discover(n, m, d)
        PROVE  AnswerInv'
    <2>1. TRUE \in BOOLEAN /\ StartHandshake(n, m, TRUE, d)
      BY <1>1, Zenon DEF Discover
    <2> QED BY <2>1, StartHandshakeAnswers, Zenon
  <1>2. ASSUME NEW n \in Node, NEW m \in Node, NEW d \in Addr, PunchDial(n, m, d)
        PROVE  AnswerInv'
    <2>1. FALSE \in BOOLEAN /\ StartHandshake(n, m, FALSE, d)
      BY <1>2, Zenon DEF PunchDial
    <2> QED BY <2>1, StartHandshakeAnswers, Zenon
  <1>3. ASSUME NEW n \in Node, NEW m \in Node, NEW d \in Addr, PunchCheck(n, m, d)
        PROVE  UNCHANGED <<cache, hs1, hs2>>
    BY <1>3, Zenon DEF PunchCheck
  <1>4. ASSUME NEW n \in Node, NEW h \in hs1, AnswerFromCache(n, h)
        PROVE  UNCHANGED <<cache, hs1, hs2>>
    BY <1>4 DEF AnswerFromCache, CachedAt, Inv, IdsDrawn
  <1>5. ASSUME NEW n \in Node, NEW a \in hs2, HandleHandshake2(n, a)
        PROVE  UNCHANGED <<cache, hs1, hs2>>
    BY <1>5 DEF HandleHandshake2
  <1> QED BY <1>1, <1>2, <1>3, <1>4, <1>5, SameAnswers, HandleHandshake1Answers, Zenon
          DEF DialNext

(* However often and whenever handshakes are repeated, and whatever        *)
(* expires meanwhile, a running node answers one of them anew only after   *)
(* as many others as HandshakeCache::insert has room for.                  *)
THEOREM AnswersLast == RunSpec => []AnewOnlyAfterMany
  <1>1. Init => AnswerInv
    BY FS_EmptySet DEF Init, AnswerInv, AnewOnlyAfterMany, StillCached
  <1>2. ASSUME Inv, AnswerInv, [RunNext]_vars
        PROVE  AnswerInv'
    <2>1. CASE DialNext
      BY <1>2, <2>1, DialAnswers
    <2>2. ASSUME NEW a \in cache, CacheExpire(a)
          PROVE  AnswerInv'
      <3>1. /\ hs2' = hs2 /\ cache' = cache \ {a}
            /\ hs1' = {h \in hs1 : h.sid # a.sid}
        BY <2>2 DEF CacheExpire
      <3>2. \A b : Since(b)' = Since(b)
        BY <3>1, Zenon DEF Since
      <3>3. StillCached'
        BY <1>2, <3>1, <3>2 DEF AnswerInv, StillCached
      <3>4. AnewOnlyAfterMany' /\ IsFiniteSet(hs2)'
        BY <1>2, <3>1, Zenon DEF AnswerInv, AnewOnlyAfterMany
      <3> QED BY <3>3, <3>4, Zenon DEF AnswerInv
    <2>3. ASSUME NEW p \in pending, GiveUp(p)
          PROVE  UNCHANGED <<cache, hs1, hs2>>
      BY <2>3 DEF GiveUp
    <2>4. ASSUME NEW s \in peers,
                 \/ \E kind \in {"data", "keepalive"} : Send(s, kind)
                 \/ \E p \in packets : HandleSessionPacket(s, p)
                 \/ DropPeer(s)
          PROVE  UNCHANGED <<cache, hs1, hs2>>
      BY <2>4, Zenon DEF Send, HandleSessionPacket, DropPeer
    <2>5. CASE UNCHANGED vars
      BY <1>2, <2>5, SameAnswers DEF vars
    <2> QED BY <1>2, <2>1, <2>2, <2>3, <2>4, <2>5, SameAnswers DEF RunNext
  <1>3. [RunNext]_vars => [Next]_vars
    BY DEF Next
  <1>4. AnswerInv => AnewOnlyAfterMany
    BY DEF AnswerInv
  <1> QED BY InitInv, NextInv, <1>1, <1>2, <1>3, <1>4, PTL DEF RunSpec

-------------------------------------------------------------------------------
(* Which sessions crossing handshakes leave behind. *)

(* A node holds one session per peer. *)
OnePerPeer == \A s, t \in peers : s.at = t.at /\ s.peer = t.peer => s = t

(* Every answer is to a handshake_1 that its addressee sent. *)
AnswersDialled ==
    \A a \in hs2 : \E h \in hs1 : h.from = a.to /\ h.to = a.from /\ h.sid = a.sid

(* The higher id, once it has answered the lower one, keeps to sessions    *)
(* that the lower one initiated.                                           *)
LowerWins ==
    \A a \in hs2 : a.to < a.from =>
        /\ Between(a.from, a.to) # {}
        /\ \A s \in Between(a.from, a.to) : s.initiator = a.to

DialInv == OnePerPeer /\ AnswersDialled /\ LowerWins

(* What offering a session to the peer table does to the table's entries.  *)
LEMMA AddPeerFacts ==
  ASSUME OnePerPeer, NEW s, NEW simultaneous, peers' = AddPeer(s, simultaneous)
  PROVE  /\ OnePerPeer'
         /\ \A n, m : ~ (n = s.at /\ m = s.peer) => Between(n, m)' = Between(n, m)
         /\ AcceptHandshakeSession(s, simultaneous) => Between(s.at, s.peer)' = {s}
         /\ ~AcceptHandshakeSession(s, simultaneous) => peers' = peers
  <1>1. CASE AcceptHandshakeSession(s, simultaneous)
    <2>1. peers' = (peers \ Between(s.at, s.peer)) \cup {s}
      BY <1>1 DEF AddPeer
    <2>2. \A t \in peers' : t = s \/ (t \in peers /\ ~ (t.at = s.at /\ t.peer = s.peer))
      BY <2>1 DEF Between
    <2>3. OnePerPeer'
      BY <2>2 DEF OnePerPeer
    <2>4. Between(s.at, s.peer)' = {s}
      BY <2>1, <2>2 DEF Between
    <2>5. ASSUME NEW n, NEW m, ~ (n = s.at /\ m = s.peer)
          PROVE  Between(n, m)' = Between(n, m)
      BY <2>1, <2>5 DEF Between
    <2> QED BY <1>1, <2>3, <2>4, <2>5
  <1>2. CASE ~AcceptHandshakeSession(s, simultaneous)
    <2>1. peers' = peers
      BY <1>2 DEF AddPeer
    <2> QED BY <1>2, <2>1 DEF OnePerPeer, Between
  <1> QED BY <1>1, <1>2

(* Answering the lower id leaves the higher one with a session that the    *)
(* lower one initiated, whatever it held before.                           *)
LEMMA HandleHandshake1Dial ==
  ASSUME Inv, DialInv, NEW n \in Node, NEW h \in hs1, HandleHandshake1(n, h)
  PROVE  DialInv'
  <1> DEFINE a == [from |-> n, to |-> h.from, sid |-> h.sid, rsid |-> nextId]
             simultaneous ==
                 \E p \in pending : p.at = n /\ p.known /\ p.to = h.from
             s == ResponderEnd(a)
  <1>1. /\ peers' = AddPeer(s, simultaneous) /\ hs2' = hs2 \cup {a}
        /\ hs1' = hs1 /\ h.to = n
    BY DEF HandleHandshake1
  <1>2. a.from = n /\ a.to = h.from /\ a.sid = h.sid
    BY SMTT(30)
  <1>3. s.at = n /\ s.peer = h.from /\ s.initiator = h.from
    BY DEF ResponderEnd
  <1> HIDE DEF a, s, simultaneous
  <1>4. n \in Nat /\ h.from \in Nat
    <2>1. h \in Hs1
      BY DEF Inv, TypeOK
    <2>2. n \in Node /\ h.from \in Node
      BY <2>1 DEF Hs1
    <2> QED BY <2>2, NodeAssumption, Zenon
  <1>5. /\ OnePerPeer'
        /\ \A k, m : ~ (k = n /\ m = h.from) => Between(k, m)' = Between(k, m)
        /\ AcceptHandshakeSession(s, simultaneous) => Between(n, h.from)' = {s}
        /\ ~AcceptHandshakeSession(s, simultaneous) => peers' = peers
    BY <1>1, <1>3, AddPeerFacts, SMTT(30) DEF DialInv
  <1>6. AnswersDialled'
    BY <1>1, <1>2 DEF DialInv, AnswersDialled
  <1>7. ASSUME h.from < n
        PROVE  /\ Between(n, h.from)' # {}
               /\ \A u \in Between(n, h.from)' : u.initiator = h.from
    <2>1. CASE AcceptHandshakeSession(s, simultaneous)
      BY <1>3, <1>5, <2>1, ZenonT(30)
    <2>2. CASE ~AcceptHandshakeSession(s, simultaneous)
      <3>1. Preferred(n, h.from) = h.from
        BY <1>4, <1>7 DEF Preferred
      <3>2. PICK old \in Between(n, h.from) : old.initiator = h.from
        BY <1>3, <2>2, <3>1 DEF AcceptHandshakeSession
      <3>3. \A u \in Between(n, h.from) : u = old
        BY <3>2 DEF Between, DialInv, OnePerPeer
      <3>4. Between(n, h.from)' = Between(n, h.from)
        BY <1>5, <2>2 DEF Between
      <3> QED BY <3>2, <3>3, <3>4
    <2> QED BY <2>1, <2>2, ZenonT(30)
  <1>8. LowerWins'
    <2> SUFFICES ASSUME NEW b \in hs2', b.to < b.from
                 PROVE  /\ Between(b.from, b.to)' # {}
                        /\ \A u \in Between(b.from, b.to)' : u.initiator = b.to
      BY DEF LowerWins
    <2>1. CASE b.from = n /\ b.to = h.from
      BY <1>7, <2>1
    <2>2. CASE ~ (b.from = n /\ b.to = h.from)
      <3>1. b \in hs2
        BY <1>1, <1>2, <2>2
      <3>2. Between(b.from, b.to)' = Between(b.from, b.to)
        BY <1>5, <2>2
      <3> QED BY <3>1, <3>2 DEF DialInv, LowerWins
    <2> QED BY <2>1, <2>2
  <1> QED BY <1>5, <1>6, <1>8, Zenon DEF DialInv

(* An answer does not displace what the lower id's handshake installed. *)
LEMMA HandleHandshake2Dial ==
  ASSUME Inv, DialInv, NEW n \in Node, NEW a \in hs2, HandleHandshake2(n, a)
  PROVE  DialInv'
  <1> DEFINE simultaneous == \E s \in Between(n, a.from) : s.initiator # n
             t == InitiatorEnd(a)
  <1>1. /\ peers' = AddPeer(t, simultaneous) /\ hs2' = hs2 /\ hs1' = hs1
        /\ a.to = n
    BY ZenonT(30) DEF HandleHandshake2
  <1>2. t.at = n /\ t.peer = a.from /\ t.initiator = n
    BY <1>1, Zenon DEF InitiatorEnd
  <1>3. simultaneous = \E s \in Between(n, a.from) : s.initiator # n
    OBVIOUS
  <1> HIDE DEF t, simultaneous
  <1>4. n \in Nat /\ a.from \in Nat
    <2>1. a \in Hs2
      BY DEF Inv, TypeOK
    <2>2. n \in Node /\ a.from \in Node
      BY <2>1 DEF Hs2
    <2> QED BY <2>2, NodeAssumption, Zenon
  <1>5. /\ OnePerPeer'
        /\ \A k, m : ~ (k = n /\ m = a.from) => Between(k, m)' = Between(k, m)
        /\ ~AcceptHandshakeSession(t, simultaneous) => peers' = peers
    <2>1. OnePerPeer
      BY DEF DialInv
    <2>2. /\ OnePerPeer'
          /\ \A k, m : ~ (k = t.at /\ m = t.peer) => Between(k, m)' = Between(k, m)
          /\ ~AcceptHandshakeSession(t, simultaneous) => peers' = peers
      BY <1>1, <2>1, AddPeerFacts, ZenonT(30)
    <2> QED BY <1>2, <2>2, Zenon
  <1>6. AnswersDialled'
    BY <1>1, Zenon DEF DialInv, AnswersDialled
  <1>7. ASSUME NEW b \in hs2, b.to < b.from
        PROVE  Between(b.from, b.to)' = Between(b.from, b.to)
    <2>1. CASE b.from = n /\ b.to = a.from
      <3>1. /\ Between(n, a.from) # {} /\ a.from < n
            /\ \A s \in Between(n, a.from) : s.initiator = a.from
        BY <1>7, <2>1 DEF DialInv, LowerWins
      <3>2. simultaneous /\ Preferred(n, a.from) = a.from /\ a.from # n
        BY <1>3, <1>4, <3>1 DEF Preferred
      <3>3. ~AcceptHandshakeSession(t, simultaneous)
        BY <1>2, <3>1, <3>2, SMTT(30) DEF AcceptHandshakeSession
      <3> QED BY <1>5, <3>3, Zenon DEF Between
    <2>2. CASE ~ (b.from = n /\ b.to = a.from)
      BY <1>5, <2>2
    <2> QED BY <2>1, <2>2
  <1>8. LowerWins'
    BY <1>1, <1>7 DEF DialInv, LowerWins
  <1> QED BY <1>5, <1>6, <1>8, Zenon DEF DialInv

(* Handshakes preserve who wins. *)
LEMMA DialNextDial ==
  ASSUME Inv, DialInv, [DialNext]_vars
  PROVE  DialInv'
  <1>1. CASE hs1 \subseteq hs1' /\ UNCHANGED <<hs2, peers>>
    BY <1>1, SMTT(30) DEF DialInv, OnePerPeer, AnswersDialled, LowerWins, Between
  <1>2. ASSUME NEW n \in Node, NEW m \in Node, NEW d \in Addr,
               Discover(n, m, d) \/ PunchCheck(n, m, d) \/ PunchDial(n, m, d)
        PROVE  hs1 \subseteq hs1' /\ UNCHANGED <<hs2, peers>>
    <2>1. CASE Discover(n, m, d)
      BY <2>1, Zenon DEF Discover, StartHandshake
    <2>2. CASE PunchCheck(n, m, d)
      BY <2>2, Zenon DEF PunchCheck
    <2>3. CASE PunchDial(n, m, d)
      BY <2>3, Zenon DEF PunchDial, StartHandshake
    <2> QED BY <1>2, <2>1, <2>2, <2>3, Zenon
  <1>3. ASSUME NEW n \in Node, NEW h \in hs1, AnswerFromCache(n, h)
        PROVE  hs1 \subseteq hs1' /\ UNCHANGED <<hs2, peers>>
    BY <1>3, Zenon DEF AnswerFromCache, CachedAt, Inv, IdsDrawn
  <1>4. CASE UNCHANGED vars
    BY <1>1, <1>4 DEF vars
  <1> QED BY <1>1, <1>2, <1>3, <1>4, HandleHandshake1Dial, HandleHandshake2Dial
          DEF DialNext

(* The ends of a connection hold different keys only after one of the     *)
(* three races of OnlyRacesSplit: whatever else crosses, is repeated or    *)
(* arrives late, accept_handshake_session makes both ends choose the same  *)
(* session.                                                                *)
THEOREM SplitsOnlyByRaces == DialSpec => []OnlyRacesSplit
  <1>1. Init => DialInv
    BY DEF Init, DialInv, OnePerPeer, AnswersDialled, LowerWins, Between
  <1>2. Inv /\ DialInv /\ [DialNext]_vars => DialInv'
    BY DialNextDial
  <1>3. [DialNext]_vars => [Next]_vars
    BY DEF Next, RunNext
  <1>4. ASSUME Inv, DialInv
        PROVE  OnlyRacesSplit
    <2> SUFFICES ASSUME NEW s \in peers, NEW t \in peers, s.at = t.peer,
                        s.peer = t.at, s.key # t.key, s.at < t.at,
                        ~DialledTwice(s.at, t.at), ~DialledTwice(t.at, s.at),
                        ~AnsweredTwice(s.at, t.at), ~AnsweredTwice(t.at, s.at)
                 PROVE  s.initiator = t.at /\ t.initiator = s.at
      BY DEF OnlyRacesSplit
    <2>1. PICK a \in hs2 : EndOf(s, a)
      BY <1>4 DEF Inv, Provenance
    <2>2. PICK b \in hs2 : EndOf(t, b)
      BY <1>4, SMTT(30) DEF Inv, Provenance
    <2> \A x \in hs2 : x.from # x.to
      BY <1>4, Zenon DEF Inv, Provenance
    <2>3. /\ s.initiator \in {s.at, t.at} /\ a.to = s.initiator
          /\ a.from \in {s.at, t.at} \ {a.to}
      <3>1. a.from # a.to
        OBVIOUS
      <3>2. \/ a.from = s.at /\ a.to = t.at
            \/ a.to = s.at /\ a.from = t.at
        BY <2>1, Zenon DEF EndOf
      <3>3. s.initiator = a.to
        BY <2>1, Zenon DEF EndOf
      <3> QED
        BY <3>1, <3>2, <3>3, Zenon
    <2>4. /\ t.initiator \in {s.at, t.at} /\ b.to = t.initiator
          /\ b.from \in {s.at, t.at} \ {b.to}
      <3>1. b.from # b.to
        OBVIOUS
      <3>2. \/ b.from = s.at /\ b.to = t.at
            \/ b.to = s.at /\ b.from = t.at
        BY <2>2, Zenon DEF EndOf
      <3>3. t.initiator = b.to
        BY <2>2, Zenon DEF EndOf
      <3> QED
        BY <3>1, <3>2, <3>3, Zenon
    <2>5. s.initiator # t.initiator
      <3> SUFFICES ASSUME s.initiator = t.initiator
                   PROVE  FALSE
        OBVIOUS
      <3>1. a.to = b.to /\ a.from = b.from
        BY <2>3, <2>4
      <3>2. PICK h \in hs1 : h.from = a.to /\ h.to = a.from /\ h.sid = a.sid
        BY <1>4 DEF DialInv, AnswersDialled
      <3>3. PICK g \in hs1 : g.from = b.to /\ g.to = b.from /\ g.sid = b.sid
        BY <1>4 DEF DialInv, AnswersDialled
      <3>4. h = g
        BY <2>3, <3>1, <3>2, <3>3 DEF DialledTwice
      <3>5. a = b
        BY <2>3, <3>1, <3>2, <3>3, <3>4 DEF AnsweredTwice
      <3>6. s.key \in Key /\ t.key \in Key
        BY <1>4, SMTT(30) DEF Inv, TypeOK, Session
      <3>7. s.key.i = t.key.i /\ s.key.r = t.key.r
        BY <2>1, <2>2, <3>5 DEF EndOf
      <3> QED BY <3>6, <3>7 DEF Key
    <2>6. ~ (s.initiator = s.at /\ t.initiator = t.at)
      <3> SUFFICES ASSUME s.initiator = s.at, t.initiator = t.at
                   PROVE  FALSE
        OBVIOUS
      <3>1. a.to = s.at /\ a.from = t.at
        BY <2>3
      <3>2. t \in Between(a.from, a.to)
        BY <3>1 DEF Between
      <3>3. t.initiator = s.at
        BY <1>4, <3>1, <3>2 DEF DialInv, LowerWins
      <3>4. s.at \in Nat
        <4>1. s \in Session
          BY <1>4 DEF Inv, TypeOK
        <4>2. s.at \in Node
          BY <4>1 DEF Session
        <4> QED BY <4>2, NodeAssumption, Zenon
      <3> QED BY <3>3, <3>4
    <2> QED BY <2>3, <2>4, <2>5, <2>6
  <1> QED BY InitInv, NextInv, <1>1, <1>2, <1>3, <1>4, PTL DEF DialSpec
===============================================================================

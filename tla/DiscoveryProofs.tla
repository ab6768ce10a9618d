--------------------------- MODULE DiscoveryProofs ----------------------------
(***************************************************************************)
(* The rate limit of request_discovery never holds a node back for longer  *)
(* than DISCOVERY_RETRY, for any clients, traffic, timeouts and faults.    *)
(***************************************************************************)
EXTENDS Discovery, TLAPS

(* What a node waits for and what it has waited already add up to one      *)
(* DISCOVERY_RETRY at most; it does not wait without a lighthouse or with  *)
(* a route; and what had its packet in this unit of time without being     *)
(* charged has not waited.                                                 *)
RateInv ==
    \A p \in Pair :
        /\ asked[p] + unasked[p] <= Retry
        /\ p[1] \notin bound \/ link[p] # NoLink => unasked[p] = 0
        /\ p \notin idle /\ asked[p] = 0 => unasked[p] = 0

Inv == TypeOK /\ RateInv

-------------------------------------------------------------------------------
(* The other direction of a pair of clients is one too. *)
LEMMA BackIsPair == \A p \in Pair : Back(p) \in Pair /\ Back(Back(p)) = p
BY DEF Pair, Back

(* A session that is gone leaves every handshake typed. *)
LEMMA ReleasedType ==
    ASSUME NEW p \in Pair, pending \in [Pair -> Dial]
    PROVE  Released(p) \in [Pair -> Dial]
<1> DEFINE x == pending[Back(p)].answer
           d == [pending[Back(p)] EXCEPT !.answer = IF x = "held" THEN "lost" ELSE x]
<1>1. Back(p) \in Pair /\ pending[Back(p)] \in Dial
  BY BackIsPair
<1>2. d \in Dial
  BY <1>1 DEF Dial
<1>3. Released(p) = [pending EXCEPT ![Back(p)] = d]
  BY <1>1 DEF Released
<1> HIDE DEF d
<1> QED
  BY <1>1, <1>2, <1>3

(* Nobody waits to begin with. *)
LEMMA InitInv == Init => Inv
<1> SUFFICES ASSUME Init PROVE Inv
  OBVIOUS
<1>1. TypeOK
  BY DiscoveryAssumption, TrafficAssumption DEF Init, TypeOK, NotPending, NoLink, Dial, Link
<1>2. RateInv
  BY DiscoveryAssumption DEF Init, RateInv
<1> QED
  BY <1>1, <1>2 DEF Inv

(* A packet without a route: the limit is charged before it is known       *)
(* whether there is a lighthouse, which costs nothing that was waited for. *)
LEMMA SendInv ==
    ASSUME Inv, NEW p \in Pair, SendToOverlay(p)
    PROVE  Inv'
<1>1. TypeOK'
  BY DiscoveryAssumption DEF Inv, TypeOK, SendToOverlay, RequestDiscovery,
         tables, Charged, Query
<1>2. ASSUME NEW q \in Pair
      PROVE  /\ asked'[q] + unasked'[q] <= Retry
             /\ q[1] \notin bound' \/ link'[q] # NoLink => unasked'[q] = 0
             /\ q \notin idle' /\ asked'[q] = 0 => unasked'[q] = 0
  BY DiscoveryAssumption DEF Inv, TypeOK, RateInv, SendToOverlay, RequestDiscovery,
         tables, Charged
<1> QED
  BY <1>1, <1>2 DEF Inv, RateInv

(* The lighthouse answers a query; nobody's wait changes. *)
LEMMA QueryInv ==
    ASSUME Inv, NEW p \in Pair, HandleQuery(p)
    PROVE  Inv'
<1>1. TypeOK'
  BY BackIsPair DEF Inv, TypeOK, HandleQuery, tables, AnswerAndIntroduce, Response, Back, Pair
<1> QED
  BY <1>1 DEF Inv, RateInv, HandleQuery, tables

(* A reported client is dialled, and is not asked for any less. *)
LEMMA ResponseInv ==
    ASSUME Inv, NEW m \in net, HandleResponse(m)
    PROVE  Inv'
<1>1. m.pair \in Pair /\ [to |-> m.addr, left |-> HandshakeTimeout, answer |-> "none"] \in Dial
  BY DiscoveryAssumption DEF Inv, TypeOK, HandleResponse, Dial
<1>2. pending' = pending \/
      pending' = [pending EXCEPT ![m.pair] =
                     [to |-> m.addr, left |-> HandshakeTimeout, answer |-> "none"]]
  BY DEF HandleResponse
<1>3. TypeOK'
  BY <1>1, <1>2, DiscoveryAssumption DEF Inv, TypeOK, HandleResponse, tables
<1> QED
  BY <1>3 DEF Inv, RateInv, HandleResponse, tables

(* A repeated answer changes nothing at the responder. *)
LEMMA CachedInv ==
    ASSUME Inv, NEW p \in Pair, AnswerFromCache(p)
    PROVE  Inv'
<1>1. TypeOK'
  BY DEF Inv, TypeOK, AnswerFromCache, tables, Handshake2
<1> QED
  BY <1>1 DEF Inv, RateInv, AnswerFromCache, tables

(* The responder has a session, this or another, and no longer waits. *)
LEMMA Handshake1Inv ==
    ASSUME Inv, NEW p \in Pair, HandleHandshake1(p)
    PROVE  Inv'
<1>1. /\ Back(p) \in Pair /\ endpoint[p[1]] \in Nat /\ p[1] \in Nat
      /\ pending \in [Pair -> Dial] /\ link \in [Pair -> Link]
  BY BackIsPair, ClientAssumption DEF Inv, TypeOK, Pair
<1>2. /\ link' = link \/
         link' = [link EXCEPT ![Back(p)] = [addr |-> endpoint[p[1]], init |-> p[1]]]
      /\ agreed' \subseteq agreed
      /\ \E x \in {"held", "lost"} : pending' = [pending EXCEPT ![p].answer = x]
  BY DEF HandleHandshake1, Apart
<1>3. link' \in [Pair -> Link]
  BY <1>1, <1>2 DEF Link
<1>4. pending' \in [Pair -> Dial]
  BY <1>1, <1>2 DEF Dial
<1>5. TypeOK'
  BY <1>1, <1>2, <1>3, <1>4 DEF Inv, TypeOK, HandleHandshake1, Handshake2
<1>6. RateInv'
  BY <1>1, <1>2, DiscoveryAssumption DEF Inv, TypeOK, RateInv, HandleHandshake1
<1> QED
  BY <1>5, <1>6 DEF Inv

(* The initiator has a session, this or another, unless it has given up. *)
LEMMA Handshake2Inv ==
    ASSUME Inv, NEW p \in Pair, HandleHandshake2(p)
    PROVE  Inv'
<1>1. /\ pending[p].to \in Nat /\ NotPending \in Dial /\ p[1] \in Nat
      /\ Back(p) \in Pair /\ Released(p) \in [Pair -> Dial]
      /\ pending \in [Pair -> Dial] /\ link \in [Pair -> Link]
  <2>1. pending \in [Pair -> Dial] /\ link \in [Pair -> Link]
    BY DEF Inv, TypeOK
  <2>2. NotPending \in Dial /\ pending[p].to \in Nat
    BY <2>1, DiscoveryAssumption DEF NotPending, Dial
  <2>3. p[1] \in Nat
    BY ClientAssumption DEF Pair
  <2> QED
    BY <2>1, <2>2, <2>3, BackIsPair, ReleasedType
<1>2. CASE pending[p] # NotPending
  <2>1. /\ link' = link \/
           link' = [link EXCEPT ![p] = [addr |-> pending[p].to, init |-> p[1]]]
        /\ agreed' \subseteq agreed \cup {p, Back(p)}
        /\ \/ pending' = [Released(p) EXCEPT ![p] = NotPending]
           \/ pending' = [pending EXCEPT ![p] = NotPending]
        /\ unasked' = [unasked EXCEPT ![p] = 0]
    BY <1>2 DEF HandleHandshake2, Apart
  <2>2. link' \in [Pair -> Link]
    BY <1>1, <2>1 DEF Link
  <2>3. pending' \in [Pair -> Dial]
    BY <1>1, <2>1
  <2>4. TypeOK'
    BY <1>1, <2>1, <2>2, <2>3 DEF Inv, TypeOK, HandleHandshake2
  <2>5. RateInv'
    BY <2>1, DiscoveryAssumption DEF Inv, TypeOK, RateInv, HandleHandshake2
  <2> QED
    BY <2>4, <2>5 DEF Inv
<1>3. CASE pending[p] = NotPending
  <2>1. TypeOK'
    BY <1>3 DEF Inv, TypeOK, HandleHandshake2
  <2> QED
    BY <1>3, <2>1 DEF Inv, RateInv, HandleHandshake2
<1> QED
  BY <1>2, <1>3

(* A session that is dropped or breaks starts a wait at 0. *)
LEMMA DropInv ==
    ASSUME Inv, NEW p \in Pair, DropStale(p) \/ Break(p)
    PROVE  Inv'
<1>1. /\ link' = [link EXCEPT ![p] = NoLink] /\ pending' = Released(p)
      /\ agreed' \subseteq agreed
  BY DEF DropStale, Break, RemovePeer, Apart
<1>2. pending' \in [Pair -> Dial]
  BY <1>1, ReleasedType DEF Inv, TypeOK
<1>3. link' \in [Pair -> Link]
  BY <1>1 DEF Inv, TypeOK, Link, NoLink
<1>4. TypeOK'
  BY <1>1, <1>2, <1>3, DiscoveryAssumption
     DEF Inv, TypeOK, DropStale, Break, Fault
<1>5. RateInv'
  BY <1>1 DEF Inv, TypeOK, RateInv, DropStale, Break
<1> QED
  BY <1>4, <1>5 DEF Inv

(* So does a lighthouse that is found, and none is left waiting by one     *)
(* that is lost.                                                           *)
LEMMA LighthouseInv ==
    ASSUME Inv, NEW c \in Client, Punch(c) \/ DropLighthouse(c) \/ Deregister(c)
    PROVE  Inv'
<1>1. TypeOK'
  BY DEF Inv, TypeOK, Punch, DropLighthouse, Deregister
<1>2. RateInv'
  BY DiscoveryAssumption DEF Inv, TypeOK, RateInv, Punch, DropLighthouse, Deregister
<1> QED
  BY <1>1, <1>2 DEF Inv

(* Time: a unit less to wait and a unit more waited; who was not charged   *)
(* in this unit has not waited before.                                     *)
LEMMA ElapseInv ==
    ASSUME Inv, Elapse
    PROVE  Inv'
<1>1. \A p \in Pair : Older(pending[p]) \in Dial
  BY DiscoveryAssumption DEF Inv, TypeOK, Older, NotPending, Dial
<1>2. TypeOK'
  BY <1>1, DiscoveryAssumption, TrafficAssumption DEF Inv, TypeOK, Elapse, tables
<1>3. ASSUME NEW p \in Pair
      PROVE  /\ asked'[p] + unasked'[p] <= Retry
             /\ p[1] \notin bound' \/ link'[p] # NoLink => unasked'[p] = 0
  BY DiscoveryAssumption DEF Inv, TypeOK, RateInv, Elapse, tables
<1>4. ASSUME NEW p \in Pair, p \notin idle', asked'[p] = 0
      PROVE  unasked'[p] = 0
  BY <1>4 DEF Elapse
<1> QED
  BY <1>2, <1>3, <1>4 DEF Inv, RateInv

(* A restart forgets the charge and the wait together. *)
LEMMA RestartInv ==
    ASSUME Inv, NEW c \in Client, Restart(c)
    PROVE  Inv'
<1>1. TypeOK'
  <2>1. NotPending \in Dial /\ NoLink \in Link /\ pending \in [Pair -> Dial]
    BY DiscoveryAssumption DEF NotPending, NoLink, Dial, Link, Inv, TypeOK
  <2>2. endpoint' \in [Client -> Nat \ {0}]
    BY DEF Inv, TypeOK, Restart
  <2>3. faults' \in 0 .. MaxFaults
    BY DiscoveryAssumption DEF Inv, TypeOK, Restart, Fault
  <2>4. \A p \in Pair : Released(Back(p))[p] \in Dial
    BY <2>1, ReleasedType, BackIsPair
  <2>5. pending' \in [Pair -> Dial]
    BY <2>1, <2>4 DEF Restart
  <2>6. link' \in [Pair -> Link] /\ agreed' \subseteq agreed
    BY <2>1 DEF Inv, TypeOK, Restart
  <2> QED
    BY <2>2, <2>3, <2>5, <2>6, DiscoveryAssumption DEF Inv, TypeOK, Restart
<1>2. RateInv'
  BY DiscoveryAssumption DEF Inv, TypeOK, RateInv, Restart
<1> QED
  BY <1>1, <1>2 DEF Inv

(* The lighthouse restarts or a message is lost: no client notices. *)
LEMMA LossInv ==
    ASSUME Inv, RestartLighthouse \/ \E m \in net : Lose(m)
    PROVE  Inv'
<1>1. TypeOK'
  BY DiscoveryAssumption DEF Inv, TypeOK, RestartLighthouse, Lose, Fault
<1>2. RateInv'
  BY DEF Inv, RateInv, RestartLighthouse, Lose
<1> QED
  BY <1>1, <1>2 DEF Inv

(* Every step keeps the invariant. *)
LEMMA Inductive == Inv /\ [Next]_vars => Inv'
<1> SUFFICES ASSUME Inv, [Next]_vars PROVE Inv'
  OBVIOUS
<1>1. ASSUME NEW p \in Pair, SendToOverlay(p) \/ Receive(p) \/ Handshake1(p)
      PROVE  Inv'
  BY <1>1, SendInv, QueryInv, CachedInv, Handshake1Inv, Handshake2Inv DEF Receive, Handshake1
<1>2. ASSUME NEW p \in Pair, DropStale(p) \/ Break(p)
      PROVE  Inv'
  BY <1>2, DropInv
<1>3. CASE Answer
  BY <1>3, ResponseInv DEF Answer
<1>4. CASE Elapse
  BY <1>4, ElapseInv
<1>5. CASE RestartLighthouse \/ \E m \in net : Lose(m)
  BY <1>5, LossInv
<1>6. ASSUME NEW c \in Client, Punch(c) \/ DropLighthouse(c) \/ Deregister(c)
      PROVE  Inv'
  BY <1>6, LighthouseInv
<1>7. ASSUME NEW c \in Client, Restart(c)
      PROVE  Inv'
  BY <1>7, RestartInv
<1>8. CASE UNCHANGED vars
  BY <1>8 DEF vars, Inv, TypeOK, RateInv
<1> QED
  BY <1>1, <1>2, <1>3, <1>4, <1>5, <1>6, <1>7, <1>8 DEF Next

(* Every variable keeps its type; in particular no handshake outlives its  *)
(* timeout (retransmit_handshakes).                                        *)
THEOREM TypeCorrect == Spec => []TypeOK
<1>1. Inv => TypeOK
  BY DEF Inv
<1> QED
  BY <1>1, InitInv, Inductive, PTL DEF Spec

(* A node with a lighthouse and without a route asks within                *)
(* DISCOVERY_RETRY of having both (request_discovery), whatever was        *)
(* charged to its rate limit before.                                       *)
THEOREM NobodyIsHeldBack == Spec => []AskedInTime
<1>1. Inv => AskedInTime
  BY DiscoveryAssumption DEF Inv, TypeOK, RateInv, AskedInTime
<1> QED
  BY <1>1, InitInv, Inductive, PTL DEF Spec
===============================================================================

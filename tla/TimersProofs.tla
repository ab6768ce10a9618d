----------------------------- MODULE TimersProofs -----------------------------
(***************************************************************************)
(* Proofs about PeerTimers for every configuration validate accepts.  Each *)
(* bound rests on what the last maintenance tick found: since then no more *)
(* than sinceTick has passed.                                              *)
(***************************************************************************)
EXTENDS PeerTimers, TLAPS

(* The four values of retry_delay. *)
LEMMA Delays ==
  ASSUME NEW n \in 1 .. HANDSHAKE_MAX_ATTEMPTS
  PROVE  /\ RetryDelay(n) \in 2 .. HANDSHAKE_RETRY_MAX
         /\ RetryDelay(n) = IF n = 1 THEN 2 ELSE IF n = 2 THEN 4
                            ELSE IF n = 3 THEN 8 ELSE 12
  <1>1. CASE n = 1
    BY <1>1 DEF RetryDelay, MinOf, HANDSHAKE_RETRY_BASE, HANDSHAKE_RETRY_MAX
  <1>2. CASE n = 2
    BY <1>2 DEF RetryDelay, MinOf, HANDSHAKE_RETRY_BASE, HANDSHAKE_RETRY_MAX
  <1>3. CASE n = 3
    BY <1>3 DEF RetryDelay, MinOf, HANDSHAKE_RETRY_BASE, HANDSHAKE_RETRY_MAX
  <1>4. CASE n > 3
    BY <1>4 DEF RetryDelay, MinOf, HANDSHAKE_RETRY_BASE, HANDSHAKE_RETRY_MAX,
       HANDSHAKE_MAX_ATTEMPTS
  <1> QED BY <1>1, <1>2, <1>3, <1>4 DEF HANDSHAKE_MAX_ATTEMPTS

(* A pending handshake has not run past its timeout by more than the tick  *)
(* is late, and its next attempt is near.                                  *)
HandshakeInv ==
    state = "pending" =>
        /\ attempts >= 1 /\ age <= HandshakeTimeout + sinceTick
        /\ nextAttempt <= age + HANDSHAKE_RETRY_MAX
        /\ attempts < HANDSHAKE_MAX_ATTEMPTS => age <= nextAttempt + sinceTick

(* What the last tick found of the keepalives, and the time since. *)
KeepaliveInv ==
    /\ proved <= acked /\ seen <= acked
    /\ enabled /\ up /\ ~waiting => acked < Interval + sinceTick
    /\ enabled /\ up /\ waiting => /\ first < Timeout + sinceTick
                                   /\ acked < first + Interval + TickGap
    /\ enabled /\ up /\ waiting /\ sent < 2 => last = first /\ first < Retry + sinceTick
    /\ waiting => sent >= 1
    /\ up /\ (enabled => ~waiting) => seen < Expiry + sinceTick
    /\ up => reason = "none"
    /\ OneLossIsSurvived

(* A relayed session is probed within the longest pause: the time gone by  *)
(* and the time to the next probe stay within it, but for a late tick.     *)
ProbeInv ==
    up /\ relayed =>
        \/ scheduled /\ unprobed + wait <= MaxOf(ProbeBase, ProbeMax)
        \/ /\ scheduled => wait = 0
           /\ unprobed <= MaxOf(ProbeBase, ProbeMax) + sinceTick

(* TypeOK, its flags and its numbers apart. *)
Flags ==
    /\ relay \in BOOLEAN /\ viaRelay \in BOOLEAN /\ noRelay \in BOOLEAN
    /\ state \in {"none", "pending", "abandoned"}
    /\ enabled \in BOOLEAN /\ up \in BOOLEAN /\ relayed \in BOOLEAN
    /\ waiting \in BOOLEAN /\ scheduled \in BOOLEAN /\ token \in BOOLEAN
    /\ reason \in {"none", "KeepaliveTimeout", "Expired"}

HandshakeNumbers ==
    /\ age \in 0 .. (HandshakeTimeout + TickGap)
    /\ nextAttempt \in 0 .. (HandshakeTimeout + HANDSHAKE_RETRY_MAX)
    /\ attempts \in 0 .. HANDSHAKE_MAX_ATTEMPTS

SessionNumbers ==
    /\ seen \in 0 .. AgeCap /\ acked \in 0 .. AgeCap /\ proved \in 0 .. AgeCap
    /\ first \in 0 .. AgeCap /\ last \in 0 .. AgeCap /\ unprobed \in 0 .. AgeCap
    /\ sent \in 0 .. 2 /\ sinceTick \in 0 .. TickGap
    /\ wait \in 0 .. MaxOf(ProbeBase, ProbeMax) /\ gap \in 0 .. MaxOf(ProbeBase, ProbeMax)

Inv == Flags /\ HandshakeNumbers /\ SessionNumbers /\ HandshakeInv /\ KeepaliveInv /\ ProbeInv

(* The arithmetic facts about the configuration that the steps use. *)
LEMMA Constants ==
  /\ HandshakeTimeout \in Nat \ {0} /\ Fallback \in Nat /\ TickGap \in Nat \ {0}
  /\ Interval \in Nat \ {0} /\ Timeout \in Nat \ {0} /\ Expiry \in Nat \ {0}
  /\ Interval < Timeout /\ Interval + TickGap <= Timeout
  /\ AgeCap \in Nat /\ Retry \in 1 .. Interval
  /\ ProbeBase \in 1 .. MaxOf(ProbeBase, ProbeMax)
  /\ ProbeMax \in 1 .. MaxOf(ProbeBase, ProbeMax)
  /\ MaxOf(ProbeBase, ProbeMax) \in Nat
  BY HandshakeAssumption, ConfigAssumption, AgeCapAssumption, TickAssumption
  DEF Retry, MinOf, MaxOf, ValidTimings, ValidHandshakeTimings

(* The parts of TypeOK put together. *)
LEMMA TypesTogether == TypeOK <=> Flags /\ HandshakeNumbers /\ SessionNumbers
  BY DEF TypeOK, HandshakeTypeOK, Flags, HandshakeNumbers, SessionNumbers

(* Nothing pending and no session. *)
LEMMA InitInv == Init => Inv
  <1> SUFFICES ASSUME Init PROVE Inv
    OBVIOUS
  <1>1. HandshakeNumbers
    BY Constants DEF Init, HandshakeInit, HandshakeNumbers,
       HANDSHAKE_RETRY_MAX, HANDSHAKE_MAX_ATTEMPTS
  <1>2. Flags
    BY Zenon DEF Init, HandshakeInit, Flags
  <1>3. SessionNumbers
    BY Constants DEF Init, SessionNumbers
  <1>4. HandshakeInv /\ KeepaliveInv /\ ProbeInv
    BY Constants DEF Init, HandshakeInit, HandshakeInv, KeepaliveInv, ProbeInv, OneLossIsSurvived
  <1> QED BY <1>1, <1>2, <1>3, <1>4 DEF Inv

(* A new session's fields are typed. *)
LEMMA NewTyped ==
  ASSUME NewSession, SessionNumbers, UNCHANGED sinceTick
  PROVE  SessionNumbers'
  BY Constants DEF NewSession, SessionNumbers, MaxOf

(* A new handshake starts all its timers. *)
LEMMA DialInv == Inv /\ Dial => Inv'
  <1> SUFFICES ASSUME Inv, Dial PROVE Inv'
    OBVIOUS
  <1>1. Flags' /\ SessionNumbers'
    <2>1. Flags'
      BY Zenon DEF Inv, Dial, StartHandshake, NewSession, Flags
    <2> QED BY <2>1, NewTyped DEF Inv, Dial
  <1>2. HandshakeNumbers'
    <2>1. RetryDelay(1) = 2
      BY Delays DEF HANDSHAKE_MAX_ATTEMPTS
    <2> QED BY <2>1, Constants DEF Dial, StartHandshake, HandshakeNumbers,
               HANDSHAKE_RETRY_MAX, HANDSHAKE_MAX_ATTEMPTS
  <1>3. HandshakeInv'
    <2>1. RetryDelay(1) = 2
      BY Delays DEF HANDSHAKE_MAX_ATTEMPTS
    <2> QED BY <2>1, Constants DEF Dial, StartHandshake, HandshakeInv, Inv, SessionNumbers, Expired,
               HANDSHAKE_RETRY_MAX, HANDSHAKE_MAX_ATTEMPTS
  <1>4. KeepaliveInv' /\ ProbeInv'
    BY DEF Dial, NewSession, KeepaliveInv, ProbeInv, OneLossIsSurvived
  <1> QED BY <1>1, <1>2, <1>3, <1>4 DEF Inv

(* A new session starts all its timers. *)
LEMMA AddPeerInv == Inv /\ AddPeer => Inv'
  <1> SUFFICES ASSUME Inv, AddPeer PROVE Inv'
    OBVIOUS
  <1>1. Flags' /\ SessionNumbers'
    <2>1. Flags'
      BY Zenon DEF Inv, AddPeer, ForgetHandshake, NewSession, Flags
    <2> QED BY <2>1, NewTyped DEF Inv, AddPeer
  <1>2. HandshakeNumbers'
    BY Constants DEF AddPeer, ForgetHandshake, HandshakeNumbers,
       HANDSHAKE_RETRY_MAX, HANDSHAKE_MAX_ATTEMPTS
  <1>3. HandshakeInv'
    BY DEF AddPeer, ForgetHandshake, HandshakeInv
  <1>4. KeepaliveInv'
    <2>1. sinceTick \in Nat /\ sinceTick' = sinceTick
      BY Constants DEF AddPeer, Inv, SessionNumbers
    <2>2. waiting' = FALSE /\ reason' = "none" /\ seen' = 0 /\ acked' = 0 /\ proved' = 0
      BY DEF AddPeer, NewSession
    <2>3. 0 < Interval + sinceTick' /\ 0 < Expiry + sinceTick'
      BY <2>1, ConfigAssumption DEF ValidTimings
    <2> QED BY <2>2, <2>3 DEF KeepaliveInv, OneLossIsSurvived
  <1>5. ProbeInv'
    BY Constants DEF AddPeer, NewSession, ProbeInv, Inv, SessionNumbers, MaxOf
  <1> QED BY <1>1, <1>2, <1>3, <1>4, <1>5 DEF Inv

(* An age grows by one, up to its cap. *)
LEMMA OlderBounds ==
  ASSUME NEW a \in 0 .. AgeCap
  PROVE  /\ Older(a) \in 0 .. AgeCap /\ Older(a) <= a + 1
         /\ Older(a) = AgeCap \/ Older(a) = a + 1
  BY Constants DEF Older, MinOf

(* A unit of time passes since the last tick. *)
LEMMA ElapseInv == Inv /\ Elapse => Inv'
  <1> SUFFICES ASSUME Inv, Elapse PROVE Inv'
    OBVIOUS
  <1>1. sinceTick \in Nat /\ sinceTick < TickGap /\ sinceTick' = sinceTick + 1
    BY Constants DEF Elapse, Inv, SessionNumbers
  <1>2. HandshakeNumbers' /\ HandshakeInv'
    <2>1. CASE state = "pending"
      BY <1>1, <2>1, Constants DEF Elapse, HandshakeElapse, HandshakeInv, HandshakeNumbers, Inv,
         Expired, HANDSHAKE_RETRY_MAX, HANDSHAKE_MAX_ATTEMPTS
    <2>2. CASE state # "pending"
      BY <1>1, <2>2, Constants DEF Elapse, HandshakeElapse, HandshakeInv, HandshakeNumbers, Inv,
         HANDSHAKE_RETRY_MAX, HANDSHAKE_MAX_ATTEMPTS
    <2> QED BY <2>1, <2>2
  <1>3. Flags'
    BY DEF Elapse, HandshakeElapse, Inv, Flags
  <1>4. CASE ~up
    <2>1. UNCHANGED <<enabled, up, reason, seen, acked, proved, waiting, first, last, sent,
                      relayed, scheduled, wait, gap, token, unprobed>>
      BY <1>4 DEF Elapse
    <2>2. SessionNumbers'
      BY <1>1, <2>1, Constants DEF Inv, SessionNumbers, MaxOf
    <2>3. KeepaliveInv' /\ ProbeInv'
      BY <1>4, <2>1 DEF Inv, KeepaliveInv, ProbeInv, OneLossIsSurvived
    <2> QED BY <1>2, <1>3, <2>2, <2>3 DEF Inv
  <1>5. CASE up
    <2>1. /\ seen' = Older(seen) /\ acked' = Older(acked) /\ proved' = Older(proved)
          /\ first' = Older(first) /\ last' = Older(last)
          /\ wait' = MaxOf(wait - 1, 0)
          /\ unprobed' = IF relayed THEN Older(unprobed) ELSE 0
      BY <1>5 DEF Elapse
    <2>0. UNCHANGED <<enabled, up, reason, waiting, sent, relayed, scheduled, gap, token>>
      BY DEF Elapse
    <2>2. /\ seen \in 0 .. AgeCap /\ acked \in 0 .. AgeCap /\ proved \in 0 .. AgeCap
          /\ first \in 0 .. AgeCap /\ last \in 0 .. AgeCap /\ unprobed \in 0 .. AgeCap
          /\ wait \in 0 .. MaxOf(ProbeBase, ProbeMax)
      BY DEF Inv, SessionNumbers
    <2>3. wait' \in 0 .. MaxOf(ProbeBase, ProbeMax)
      BY <2>1, <2>2, Constants DEF MaxOf
    <2>11. unprobed' \in 0 .. AgeCap
      BY <2>1, <2>2, OlderBounds, Constants
    <2>12. /\ seen' \in 0 .. AgeCap /\ acked' \in 0 .. AgeCap /\ proved' \in 0 .. AgeCap
           /\ first' \in 0 .. AgeCap /\ last' \in 0 .. AgeCap
      BY <2>1, <2>2, OlderBounds
    <2>4. SessionNumbers'
      BY <1>1, <2>0, <2>3, <2>11, <2>12, Constants DEF Inv, SessionNumbers, MaxOf
    <2>5. proved' <= acked' /\ seen' <= acked'
      BY <2>1, <2>2, Constants DEF Inv, KeepaliveInv, Older, MinOf
    <2>6. enabled /\ ~waiting => acked' < Interval + sinceTick'
      BY <1>1, <1>5, <2>1, <2>2, OlderBounds, Constants DEF Inv, KeepaliveInv
    <2>7. enabled /\ waiting => /\ first' < Timeout + sinceTick'
                               /\ acked' < first' + Interval + TickGap
      BY <1>1, <1>5, <2>1, <2>2, OlderBounds, Constants DEF Inv, KeepaliveInv
    <2>8. enabled /\ waiting /\ sent < 2 => last' = first' /\ first' < Retry + sinceTick'
      BY <1>1, <1>5, <2>1, <2>2, OlderBounds, Constants DEF Inv, KeepaliveInv
    <2>13. (enabled => ~waiting) => seen' < Expiry + sinceTick'
      BY <1>1, <1>5, <2>1, <2>2, OlderBounds, Constants DEF Inv, KeepaliveInv
    <2>9. KeepaliveInv'
      BY <2>0, <2>5, <2>6, <2>7, <2>8, <2>13, <1>5
         DEF Inv, KeepaliveInv, OneLossIsSurvived, Retry, MinOf
    <2>10. ProbeInv'
      BY <1>1, <1>5, <2>0, <2>1, <2>2, OlderBounds, Constants DEF Inv, ProbeInv, MaxOf
    <2> QED BY <1>2, <1>3, <2>4, <2>9, <2>10 DEF Inv
  <1> QED BY <1>3, <1>4, <1>5

(* A tick gives a handshake up, sends it again or finds it in time. *)
LEMMA HandshakeTickInv ==
  ASSUME Inv, HandshakeTick, sinceTick' = 0
  PROVE  HandshakeNumbers' /\ HandshakeInv'
  <1>1. CASE state # "pending" /\ UNCHANGED handshakeVars
    BY <1>1 DEF handshakeVars, Inv, HandshakeNumbers, HandshakeInv
  <1>2. CASE GiveUp
    BY <1>2, Constants DEF GiveUp, HandshakeNumbers, HandshakeInv, HANDSHAKE_RETRY_MAX,
       HANDSHAKE_MAX_ATTEMPTS
  <1>3. ASSUME NEW connected \in BOOLEAN, Retransmit(connected)
        PROVE  HandshakeNumbers' /\ HandshakeInv'
    <2> USE Constants DEF HandshakeNumbers, HandshakeInv, HANDSHAKE_RETRY_MAX,
            HANDSHAKE_MAX_ATTEMPTS
    <2>1. /\ state = "pending" /\ age < HandshakeTimeout /\ age' = age
          /\ age \in Nat /\ attempts \in 1 .. 10 /\ nextAttempt \in 0 .. (HandshakeTimeout + 12)
          /\ nextAttempt <= age + 12
      BY <1>3 DEF Retransmit, Expired, Inv
    <2>2. CASE RetransmitDue
      <3>1. attempts' \in 1 .. 10 /\ nextAttempt' = age + RetryDelay(attempts')
        BY <1>3, <2>1, <2>2 DEF Retransmit, RetransmitDue
      <3>2. RetryDelay(attempts') \in 2 .. 12
        BY <3>1, Delays
      <3> QED BY <2>1, <3>1, <3>2
    <2>3. CASE ~RetransmitDue
      <3>1. UNCHANGED <<attempts, nextAttempt>> /\ (attempts < 10 => age < nextAttempt)
        BY <1>3, <2>1, <2>3 DEF Retransmit, RetransmitDue, Expired
      <3> QED BY <2>1, <3>1
    <2> QED BY <2>2, <2>3
  <1> QED BY <1>1, <1>2, <1>3 DEF HandshakeTick

(* A tick probes the direct path or finds the next probe still to come. *)
LEMMA ProbeStep ==
  ASSUME Inv, up, Probe, sinceTick' = 0, UNCHANGED <<up, relayed>>
  PROVE  /\ scheduled' \in BOOLEAN /\ token' \in BOOLEAN /\ unprobed' \in 0 .. AgeCap
         /\ wait' \in 0 .. MaxOf(ProbeBase, ProbeMax) /\ gap' \in 0 .. MaxOf(ProbeBase, ProbeMax)
         /\ ProbeInv'
  <1> DEFINE M == MaxOf(ProbeBase, ProbeMax)
  <1>1. wait \in 0 .. M /\ gap \in 0 .. M /\ unprobed \in 0 .. AgeCap
    BY DEF Inv, SessionNumbers
  <1>2. scheduled \in BOOLEAN /\ token \in BOOLEAN
    BY DEF Inv, Flags
  <1>3. CASE relayed /\ (scheduled => wait = 0) /\ ~(~relayed \/ (scheduled /\ wait > 0))
    <2>1. /\ gap' = (IF scheduled THEN Backoff ELSE ProbeBase)
          /\ scheduled' = TRUE /\ wait' = gap' /\ unprobed' = 0
          /\ token' \in {token, TRUE}
      BY <1>3, Zenon DEF Probe
    <2>2. Backoff \in 0 .. M
      BY <1>1, Constants DEF Backoff, MinOf, MaxOf
    <2>3. gap' \in 0 .. M
      BY <2>1, <2>2, Constants
    <2>4. scheduled' \in BOOLEAN /\ token' \in BOOLEAN
      BY <1>2, <2>1, Zenon
    <2>5. unprobed' + wait' <= M
      BY <2>1, <2>3, Constants
    <2>6. ProbeInv'
      BY <2>1, <2>5 DEF ProbeInv, MaxOf
    <2> QED BY <2>1, <2>3, <2>4, <2>6, Constants
  <1>4. CASE ~relayed \/ (scheduled /\ wait > 0)
    <2>0. ~(relayed /\ (scheduled => wait = 0))
      BY <1>1, <1>4
    <2>1. UNCHANGED <<scheduled, wait, gap, token, unprobed>>
      BY <2>0, Zenon DEF Probe, probeVars
    <2>2. ProbeInv'
      BY <1>1, <1>4, <2>1, Constants DEF Inv, ProbeInv, MaxOf
    <2> QED BY <1>1, <1>2, <2>1, <2>2
  <1> QED BY <1>1, <1>3, <1>4, Constants DEF Probe

(* A tick that keeps the session: what it does to the keepalive. *)
LEMMA KeepaliveStep ==
  ASSUME Inv, up, sinceTick' = 0, UNCHANGED <<enabled, up, reason, seen, acked, proved>>,
         \/ enabled /\ (Repeat \/ Begin \/ Quiet)
         \/ ~enabled /\ ~Silent /\ UNCHANGED keepaliveVars
  PROVE  /\ waiting' \in BOOLEAN /\ first' \in 0 .. AgeCap /\ last' \in 0 .. AgeCap
         /\ sent' \in 0 .. 2 /\ KeepaliveInv'
  <1>1. /\ first \in 0 .. AgeCap /\ last \in 0 .. AgeCap /\ sent \in 0 .. 2
        /\ seen \in Nat /\ acked \in Nat /\ proved \in Nat /\ sinceTick \in 0 .. TickGap
    BY Constants DEF Inv, SessionNumbers
  <1>2. waiting \in BOOLEAN /\ enabled \in BOOLEAN
    BY DEF Inv, Flags
  <1>3. KeepaliveInv
    BY DEF Inv
  <1>4. reason = "none" /\ reason' = "none" /\ proved' <= acked' /\ seen' <= acked'
    BY <1>3 DEF KeepaliveInv
  <1>5. CASE enabled /\ Repeat
    <2>1. waiting = TRUE /\ waiting' = TRUE /\ first' = first /\ first < Timeout
      BY <1>2, <1>5 DEF Repeat
    <2>2. last' = 0 /\ sent' = 2
      BY <1>1, <1>3, <1>5, <2>1 DEF Repeat, KeepaliveInv, MinOf
    <2>3. first' < Timeout + sinceTick' /\ acked' < first' + Interval + TickGap
      BY <1>1, <1>3, <1>5, <2>1, Constants DEF KeepaliveInv
    <2>4. KeepaliveInv'
      BY <1>4, <1>5, <2>1, <2>2, <2>3 DEF KeepaliveInv, OneLossIsSurvived
    <2> QED BY <1>1, <2>1, <2>2, <2>4, Constants
  <1>6. CASE enabled /\ Begin
    <2>1. waiting = FALSE /\ waiting' = TRUE /\ first' = 0 /\ last' = 0 /\ sent' = 1
      BY <1>2, <1>6 DEF Begin
    <2>2. /\ first' < Timeout + sinceTick' /\ acked' < first' + Interval + TickGap
          /\ first' < Retry + sinceTick'
      BY <1>1, <1>3, <1>6, <2>1, Constants DEF KeepaliveInv
    <2>3. KeepaliveInv'
      BY <1>4, <1>6, <2>1, <2>2 DEF KeepaliveInv, OneLossIsSurvived, Retry, MinOf
    <2> QED BY <2>1, <2>3, Constants
  <1>7. CASE enabled /\ Quiet
    <2>1. UNCHANGED <<waiting, first, last, sent>>
      BY <1>7 DEF Quiet, keepaliveVars
    <2>2. CASE waiting
      <3>1. /\ first' < Timeout + sinceTick' /\ acked' < first' + Interval + TickGap
            /\ sent' < 2 => last' = first' /\ first' < Retry + sinceTick'
            /\ sent' >= 1
        BY <1>1, <1>3, <1>7, <2>1, <2>2, Constants DEF KeepaliveInv, Quiet
      <3>2. KeepaliveInv'
        BY <1>4, <1>7, <2>1, <2>2, <3>1 DEF KeepaliveInv, OneLossIsSurvived, Retry, MinOf
      <3> QED BY <1>1, <1>2, <2>1, <3>2
    <2>3. CASE ~waiting
      <3>1. acked' < Interval + sinceTick' /\ seen' < Expiry + sinceTick'
        BY <1>1, <1>7, <2>3, Constants DEF Quiet, KeepaliveDue, Silent
      <3>2. KeepaliveInv'
        BY <1>4, <1>7, <2>1, <2>3, <3>1 DEF KeepaliveInv, OneLossIsSurvived
      <3> QED BY <1>1, <1>2, <2>1, <3>2
    <2> QED BY <2>2, <2>3
  <1>8. CASE ~enabled /\ ~Silent /\ UNCHANGED keepaliveVars
    <2>1. UNCHANGED <<waiting, first, last, sent>>
      BY <1>8 DEF keepaliveVars
    <2>2. seen' < Expiry + sinceTick'
      BY <1>1, <1>8, Constants DEF Silent
    <2>3. KeepaliveInv'
      BY <1>3, <1>4, <1>8, <2>1, <2>2 DEF KeepaliveInv, OneLossIsSurvived
    <2> QED BY <1>1, <1>2, <2>1, <2>3
  <1> QED BY <1>5, <1>6, <1>7, <1>8

(* A tick that drops the session: one that waited in vain was asked twice, *)
(* since a retry was due a tick gap before the timeout.                    *)
LEMMA DropStep ==
  ASSUME Inv, up, NEW why \in {"KeepaliveTimeout", "Expired"}, Drop(why),
         why = "KeepaliveTimeout" => enabled /\ waiting /\ first >= Timeout,
         UNCHANGED <<enabled, seen, acked, proved>>
  PROVE  KeepaliveInv' /\ ProbeInv'
  <1>1. up' = FALSE /\ reason' = why /\ UNCHANGED <<waiting, first, last, sent>>
    BY DEF Drop, keepaliveVars
  <1>2. why = "KeepaliveTimeout" => sent >= 2
    <2>1. first \in Nat /\ sent \in Nat /\ sinceTick \in 0 .. TickGap
      BY Constants DEF Inv, SessionNumbers
    <2>2. Retry + sinceTick <= Timeout
      BY <2>1, Constants
    <2> QED BY <2>1, <2>2, Constants DEF Inv, KeepaliveInv
  <1>3. KeepaliveInv'
    BY <1>1, <1>2 DEF Inv, KeepaliveInv, OneLossIsSurvived
  <1>4. ProbeInv'
    BY <1>1 DEF ProbeInv
  <1> QED BY <1>3, <1>4

(* A maintenance tick. *)
LEMMA TickInv == Inv /\ Tick => Inv'
  <1> SUFFICES ASSUME Inv, Tick PROVE Inv'
    OBVIOUS
  <1>1. HandshakeNumbers' /\ HandshakeInv'
    BY HandshakeTickInv DEF Tick
  <1>2. /\ relay' \in BOOLEAN /\ viaRelay' \in BOOLEAN /\ noRelay' \in BOOLEAN
        /\ state' \in {"none", "pending", "abandoned"}
    <2>1. CASE UNCHANGED handshakeVars
      BY <2>1 DEF Inv, Flags, handshakeVars
    <2>2. CASE GiveUp
      BY <2>2 DEF Inv, Flags, GiveUp
    <2>3. ASSUME NEW connected \in BOOLEAN, Retransmit(connected)
          PROVE  /\ relay' \in BOOLEAN /\ viaRelay' \in BOOLEAN /\ noRelay' \in BOOLEAN
                 /\ state' \in {"none", "pending", "abandoned"}
      BY <2>3 DEF Inv, Flags, Retransmit
    <2> QED BY <2>1, <2>2, <2>3 DEF Tick, HandshakeTick
  <1>3. CASE ~up /\ UNCHANGED sessionVars
    <2>1. UNCHANGED <<enabled, up, reason, seen, acked, proved, waiting, first, last, sent,
                      relayed, scheduled, wait, gap, token, unprobed>> /\ sinceTick' = 0
      BY <1>3 DEF Tick, sessionVars, keepaliveVars, probeVars
    <2>2. Flags'
      BY <1>2, <2>1 DEF Inv, Flags
    <2>3. SessionNumbers'
      BY <2>1, Constants DEF Inv, SessionNumbers, MaxOf
    <2>4. KeepaliveInv' /\ ProbeInv'
      BY <1>3, <2>1 DEF Inv, KeepaliveInv, ProbeInv, OneLossIsSurvived
    <2> QED BY <1>1, <2>2, <2>3, <2>4 DEF Inv
  <1>4. ASSUME up, MaintainPeer, NEW why \in {"KeepaliveTimeout", "Expired"}, Drop(why),
               why = "KeepaliveTimeout" => enabled /\ waiting /\ first >= Timeout
        PROVE  Inv'
    <2>1. /\ up' = FALSE /\ reason' = why /\ sinceTick' = 0
          /\ UNCHANGED <<enabled, seen, acked, proved, waiting, first, last, sent,
                         relayed, scheduled, wait, gap, token, unprobed>>
      BY <1>4 DEF Tick, MaintainPeer, Drop, keepaliveVars, probeVars
    <2>2. Flags'
      BY <1>2, <2>1, Zenon DEF Inv, Flags
    <2>3. SessionNumbers'
      BY <2>1, Constants DEF Inv, SessionNumbers, MaxOf
    <2>4. KeepaliveInv' /\ ProbeInv'
      BY <1>4, <2>1, DropStep
    <2> QED BY <1>1, <2>2, <2>3, <2>4 DEF Inv
  <1>5. ASSUME up, MaintainPeer, UNCHANGED <<up, reason>>, Probe,
               \/ enabled /\ (Repeat \/ Begin \/ Quiet)
               \/ ~enabled /\ ~Silent /\ UNCHANGED keepaliveVars
        PROVE  Inv'
    <2>1. sinceTick' = 0 /\ UNCHANGED <<enabled, up, reason, seen, acked, proved, relayed>>
      BY <1>5 DEF Tick, MaintainPeer
    <2>2. /\ waiting' \in BOOLEAN /\ first' \in 0 .. AgeCap /\ last' \in 0 .. AgeCap
          /\ sent' \in 0 .. 2 /\ KeepaliveInv'
      BY <1>5, <2>1, KeepaliveStep
    <2>3. /\ scheduled' \in BOOLEAN /\ token' \in BOOLEAN /\ unprobed' \in 0 .. AgeCap
          /\ wait' \in 0 .. MaxOf(ProbeBase, ProbeMax) /\ gap' \in 0 .. MaxOf(ProbeBase, ProbeMax)
          /\ ProbeInv'
      BY <1>5, <2>1, ProbeStep
    <2>4. Flags'
      BY <1>2, <2>1, <2>2, <2>3 DEF Inv, Flags
    <2>5. SessionNumbers'
      BY <2>1, <2>2, <2>3, Constants DEF Inv, SessionNumbers, MaxOf
    <2> QED BY <1>1, <2>2, <2>3, <2>4, <2>5 DEF Inv
  <1>6. CASE up /\ MaintainPeer
    <2>1. CASE enabled /\ waiting /\ first >= Timeout /\ Drop("KeepaliveTimeout")
      BY <1>4, <1>6, <2>1
    <2>2. CASE Drop("Expired")
      BY <1>4, <1>6, <2>2
    <2>3. CASE /\ enabled /\ (Repeat \/ Begin \/ Quiet)
               /\ Probe /\ UNCHANGED <<up, reason>>
      BY <1>5, <1>6, <2>3
    <2>4. CASE /\ ~enabled /\ ~Silent /\ UNCHANGED keepaliveVars
               /\ Probe /\ UNCHANGED <<up, reason>>
      BY <1>5, <1>6, <2>4
    <2> QED BY <1>6, <2>1, <2>2, <2>3, <2>4, Zenon DEF MaintainPeer
  <1> QED BY <1>3, <1>6 DEF Tick

(* A packet only ever makes a session younger. *)
LEMMA PacketInv == Inv /\ Packet => Inv'
  <1> SUFFICES ASSUME Inv, Packet PROVE Inv'
    OBVIOUS
  <1>1. UNCHANGED <<state, age, nextAttempt, attempts, relay, viaRelay, noRelay, enabled, up,
                    reason, sinceTick>>
    BY DEF Packet, handshakeVars
  <1>2. HandshakeNumbers' /\ HandshakeInv'
    BY <1>1 DEF Inv, HandshakeNumbers, HandshakeInv
  <1>3. /\ sinceTick \in 0 .. TickGap /\ seen \in 0 .. AgeCap /\ acked \in 0 .. AgeCap
        /\ proved \in 0 .. AgeCap /\ first \in 0 .. AgeCap /\ unprobed \in 0 .. AgeCap
        /\ wait \in 0 .. MaxOf(ProbeBase, ProbeMax)
    BY DEF Inv, SessionNumbers
  <1> USE <1>1, <1>3, Constants
  <1>4. CASE Receive
    <2>1. seen' = 0 /\ UNCHANGED <<acked, proved, waiting, first, last, sent, relayed,
                                   scheduled, wait, gap, token, unprobed>>
      BY <1>4 DEF Receive, keepaliveVars, probeVars
    <2>2. Flags'
      BY <2>1 DEF Inv, Flags
    <2>3. SessionNumbers'
      BY <2>1 DEF Inv, SessionNumbers, MaxOf
    <2>4. KeepaliveInv'
      BY <2>1 DEF Inv, KeepaliveInv, OneLossIsSurvived, Retry, MinOf
    <2>5. ProbeInv'
      BY <2>1 DEF Inv, ProbeInv, MaxOf
    <2> QED BY <1>2, <2>2, <2>3, <2>4, <2>5 DEF Inv
  <1>5. CASE MoveDirect
    <2>1. /\ seen' = 0 /\ relayed' = FALSE /\ proved' \in {proved, 0}
          /\ scheduled' = FALSE /\ token' = FALSE /\ unprobed' = 0
          /\ UNCHANGED <<acked, waiting, first, last, sent, wait, gap>>
      BY <1>5 DEF MoveDirect, keepaliveVars
    <2>2. Flags'
      BY <2>1, ZenonT(30) DEF Inv, Flags
    <2>3. SessionNumbers'
      BY <2>1 DEF Inv, SessionNumbers, MaxOf
    <2>4. KeepaliveInv'
      BY <2>1 DEF Inv, KeepaliveInv, OneLossIsSurvived, Retry, MinOf
    <2>5. ProbeInv'
      BY <2>1 DEF ProbeInv
    <2> QED BY <1>2, <2>2, <2>3, <2>4, <2>5 DEF Inv
  <1>6. CASE LearnEndpoint
    <2>1. /\ seen' \in {0, seen} /\ scheduled' = FALSE
          /\ UNCHANGED <<acked, proved, waiting, first, last, sent, relayed, wait, gap, token,
                         unprobed>>
      BY <1>6 DEF LearnEndpoint, keepaliveVars
    <2>2. Flags'
      BY <2>1, ZenonT(30) DEF Inv, Flags
    <2>3. SessionNumbers'
      BY <2>1 DEF Inv, SessionNumbers, MaxOf
    <2>4. KeepaliveInv'
      BY <2>1 DEF Inv, KeepaliveInv, OneLossIsSurvived, Retry, MinOf
    <2>5. ProbeInv'
      BY <2>1 DEF Inv, ProbeInv, MaxOf
    <2> QED BY <1>2, <2>2, <2>3, <2>4, <2>5 DEF Inv
  <1>7. CASE AckKeepalive
    <2>1. /\ seen' = 0 /\ acked' = 0 /\ proved' = 0 /\ waiting' = FALSE
          /\ UNCHANGED <<first, last, sent, relayed, scheduled, wait, gap, token, unprobed>>
      BY <1>7 DEF AckKeepalive, probeVars
    <2>2. Flags'
      BY <2>1, ZenonT(30) DEF Inv, Flags
    <2>3. SessionNumbers'
      BY <2>1 DEF Inv, SessionNumbers, MaxOf
    <2>4. KeepaliveInv'
      BY <2>1 DEF Inv, KeepaliveInv, OneLossIsSurvived
    <2>5. ProbeInv'
      BY <2>1 DEF Inv, ProbeInv, MaxOf
    <2> QED BY <1>2, <2>2, <2>3, <2>4, <2>5 DEF Inv
  <1>8. CASE AckProbe
    <2>1. /\ seen' = 0 /\ acked' = 0 /\ proved' = 0 /\ token' = FALSE
          /\ UNCHANGED <<waiting, first, last, sent, relayed, scheduled, wait, gap, unprobed>>
      BY <1>8 DEF AckProbe, keepaliveVars
    <2>2. Flags'
      BY <2>1, ZenonT(30) DEF Inv, Flags
    <2>3. SessionNumbers'
      BY <2>1 DEF Inv, SessionNumbers, MaxOf
    <2>4. KeepaliveInv'
      BY <2>1 DEF Inv, KeepaliveInv, OneLossIsSurvived, Retry, MinOf
    <2>5. ProbeInv'
      BY <2>1 DEF Inv, ProbeInv, MaxOf
    <2> QED BY <1>2, <2>2, <2>3, <2>4, <2>5 DEF Inv
  <1> QED BY <1>4, <1>5, <1>6, <1>7, <1>8 DEF Packet

(* The invariant holds throughout. *)
LEMMA Inductive == Spec => []Inv
  <1>1. Inv /\ [Next]_vars => Inv'
    <2> SUFFICES ASSUME Inv, [Next]_vars PROVE Inv'
      OBVIOUS
    <2>1. CASE UNCHANGED vars
      <3>1. UNCHANGED <<state, age, nextAttempt, attempts, relay, viaRelay, noRelay, enabled,
                        up, reason, seen, acked, proved, waiting, first, last, sent, relayed,
                        scheduled, wait, gap, token, unprobed, sinceTick>>
        BY <2>1 DEF vars, handshakeVars, sessionVars, keepaliveVars, probeVars
      <3>2. Flags' /\ HandshakeNumbers' /\ HandshakeInv'
        BY <3>1 DEF Inv, Flags, HandshakeNumbers, HandshakeInv
      <3>3. SessionNumbers' /\ ProbeInv'
        BY <3>1 DEF Inv, SessionNumbers, ProbeInv, MaxOf
      <3>4. KeepaliveInv'
        BY <3>1 DEF Inv, KeepaliveInv, OneLossIsSurvived, Retry, MinOf
      <3> QED BY <3>2, <3>3, <3>4 DEF Inv
    <2> QED BY <2>1, DialInv, AddPeerInv, ElapseInv, TickInv, PacketInv DEF Next
  <1> QED BY <1>1, InitInv, PTL DEF Spec

-------------------------------------------------------------------------------
(* Every timer stays in its range: ages within their caps, a handshake     *)
(* within its timeout and a late tick and its attempts within              *)
(* HANDSHAKE_MAX_ATTEMPTS (PendingHandshake, PeerState).                   *)
THEOREM TypeCorrect == Spec => []TypeOK
  <1>1. Inv => TypeOK
    BY TypesTogether DEF Inv
  <1> QED BY <1>1, Inductive, PTL

(* No configuration starves a handshake of its retries                     *)
(* (retransmit_handshakes, retry_delay).                                   *)
THEOREM HandshakesKeepTrying == Spec => []KeepsTrying
  <1>1. Inv => KeepsTrying
    BY Constants DEF Inv, HandshakeInv, HandshakeNumbers, SessionNumbers, KeepsTrying,
       HANDSHAKE_RETRY_MAX, HANDSHAKE_MAX_ATTEMPTS
  <1> QED BY <1>1, Inductive, PTL

(* Whatever the peer goes on sending, a session whose own packets are not  *)
(* answered is dropped within an interval, a timeout and two tick gaps     *)
(* (PeerState::tick).                                                      *)
THEOREM DeadPathsAreDropped == Spec => []DeadPathIsDropped
  <1>1. Inv => DeadPathIsDropped
    <2> SUFFICES ASSUME Inv, enabled, up PROVE proved < Interval + Timeout + 2 * TickGap
      BY DEF DeadPathIsDropped
    <2>1. /\ proved \in Nat /\ acked \in Nat /\ first \in Nat /\ sinceTick \in 0 .. TickGap
          /\ proved <= acked
      BY Constants DEF Inv, SessionNumbers, KeepaliveInv
    <2>2. acked < Interval + Timeout + 2 * TickGap
      BY <2>1, Constants DEF Inv, KeepaliveInv
    <2> QED BY <2>1, <2>2, Constants
  <1> QED BY <1>1, Inductive, PTL

(* No single lost datagram costs a session, however the timings are set    *)
(* (PeerState::tick, KEEPALIVE_RETRY_MAX).                                 *)
THEOREM LossesAreSurvived == Spec => []OneLossIsSurvived
  <1>1. Inv => OneLossIsSurvived
    BY DEF Inv, KeepaliveInv
  <1> QED BY <1>1, Inductive, PTL

(* A relayed session is probed at least every DIRECT_PROBE_MAX_INTERVAL or *)
(* direct_probe_interval and a tick gap (take_path_probe).                 *)
THEOREM ProbingGoesOn == Spec => []ProbesGoOn
  <1>1. Inv => ProbesGoOn
    BY Constants DEF Inv, SessionNumbers, ProbeInv, ProbesGoOn
  <1> QED BY <1>1, Inductive, PTL

(* Whatever the timings, a silent peer is kept no longer than peer_expiry  *)
(* or a keepalive's life, and the lateness of a tick (PeerState::tick).    *)
THEOREM SilentPeersExpire == Spec => []SilentPeerExpires
  <1>1. Inv => SilentPeerExpires
    <2> SUFFICES ASSUME Inv, up
                 PROVE  seen <= MaxOf(Expiry, Interval + Timeout + TickGap) + TickGap
      BY DEF SilentPeerExpires
    <2> USE DEF MaxOf
    <2>1. /\ seen \in Nat /\ acked \in Nat /\ first \in Nat /\ sinceTick \in 0 .. TickGap
          /\ seen <= acked
      BY Constants DEF Inv, SessionNumbers, KeepaliveInv
    <2>2. CASE enabled /\ waiting
      BY <2>1, <2>2, Constants DEF Inv, KeepaliveInv
    <2>3. CASE enabled => ~waiting
      BY <2>1, <2>3, Constants DEF Inv, KeepaliveInv
    <2>4. (enabled /\ waiting) \/ (enabled => ~waiting)
      BY DEF Inv, Flags
    <2> QED BY <2>2, <2>3, <2>4
  <1> QED BY <1>1, Inductive, PTL

-------------------------------------------------------------------------------
(* The relay is tried: the earliest age of the attempt after the k-th, and *)
(* the time in which the fallback and the copy it is added to come due.    *)
Earliest(k) == IF k = 1 THEN 2 ELSE IF k = 2 THEN 6 ELSE 12 * k - 22

RelayInv ==
    /\ RelayIsTried
    /\ state = "pending" =>
        /\ nextAttempt >= Earliest(attempts)
        /\ attempts = HANDSHAKE_MAX_ATTEMPTS => viaRelay \/ noRelay
        /\ ~relay /\ ~noRelay => age < Fallback + sinceTick
        /\ relay /\ ~viaRelay /\ ~noRelay
              => nextAttempt < Fallback + TickGap + HANDSHAKE_RETRY_MAX

(* Nothing but a tick, time and a new handshake bears on the relay. *)
LEMMA RelayUntouched ==
  ASSUME RelayInv, UNCHANGED <<handshakeVars, sinceTick>>
  PROVE  RelayInv'
  BY DEF RelayInv, RelayIsTried, handshakeVars, Earliest

(* A tick that sends the handshake again uses the relay once it is due. *)
LEMMA RelayRetransmit ==
  ASSUME Inv, RelayInv, Fallback <= 86, sinceTick' = 0,
         NEW connected \in BOOLEAN, Retransmit(connected)
  PROVE  RelayInv'
  <1> USE DEF HANDSHAKE_RETRY_MAX, HANDSHAKE_MAX_ATTEMPTS
  <1>1. /\ state = "pending" /\ state' = "pending" /\ age' = age
        /\ age \in Nat /\ attempts \in 1 .. 10 /\ nextAttempt \in Nat
        /\ nextAttempt <= age + 12 /\ sinceTick \in 0 .. TickGap
        /\ nextAttempt >= Earliest(attempts)
    BY Constants DEF Retransmit, Inv, HandshakeNumbers, SessionNumbers, HandshakeInv, RelayInv
  <1>2. /\ relay \in BOOLEAN /\ viaRelay \in BOOLEAN /\ noRelay \in BOOLEAN
    BY DEF Inv, Flags
  <1>3. /\ relay' = (relay \/ (RelayFallbackDue /\ connected))
        /\ noRelay' = (noRelay \/ (RelayFallbackDue /\ ~connected))
    BY DEF Retransmit
  <1>4. age >= Fallback => relay' \/ noRelay'
    BY <1>2, <1>3, Zenon DEF RelayFallbackDue
  <1>5. ~relay' /\ ~noRelay' => age' < Fallback + sinceTick'
    BY <1>1, <1>4, Constants
  <1>6. RelayIsTried'
    BY <1>1 DEF RelayIsTried
  <1>7. CASE RetransmitDue
    <2>1. /\ attempts < 10 /\ age >= nextAttempt /\ attempts' = attempts + 1
          /\ nextAttempt' = age + RetryDelay(attempts')
          /\ viaRelay' = (viaRelay \/ relay')
      BY <1>7 DEF Retransmit, RetransmitDue
    <2>2. attempts' \in 2 .. 10
      BY <1>1, <2>1
    <2>3. RetryDelay(attempts') = IF attempts' = 2 THEN 4 ELSE IF attempts' = 3 THEN 8 ELSE 12
      BY <2>2, Delays
    <2>4. nextAttempt' >= Earliest(attempts')
      <3>1. CASE attempts = 1
        BY <1>1, <2>1, <2>3, <3>1 DEF Earliest
      <3>2. CASE attempts = 2
        BY <1>1, <2>1, <2>3, <3>2 DEF Earliest
      <3>3. CASE attempts \in 3 .. 9
        BY <1>1, <2>1, <2>3, <3>3 DEF Earliest
      <3> QED BY <1>1, <2>1, <3>1, <3>2, <3>3
    <2>5. attempts' = 10 => age >= Fallback
      BY <1>1, <2>1, Constants DEF Earliest
    <2>6. attempts' = 10 => viaRelay' \/ noRelay'
      BY <1>4, <2>1, <2>5, Zenon
    <2>7. relay' => viaRelay'
      BY <2>1, Zenon
    <2> QED BY <1>5, <1>6, <2>4, <2>6, <2>7 DEF RelayInv, Earliest
  <1>8. CASE ~RetransmitDue
    <2>1. UNCHANGED <<attempts, nextAttempt, viaRelay>>
      BY <1>8 DEF Retransmit
    <2>2. attempts' = 10 => viaRelay' \/ noRelay'
      BY <1>1, <1>3, <2>1, Zenon DEF RelayInv
    <2>3. relay' /\ ~viaRelay' /\ ~noRelay' => nextAttempt < Fallback + TickGap + 12
      <3>1. CASE relay
        BY <1>1, <1>3, <2>1, <3>1 DEF RelayInv
      <3>2. CASE ~relay /\ ~noRelay
        BY <1>1, <3>2, Constants DEF RelayInv
      <3>3. CASE noRelay
        BY <1>3, <3>3
      <3> QED BY <3>1, <3>2, <3>3
    <2> QED BY <1>1, <1>5, <1>6, <2>1, <2>2, <2>3 DEF RelayInv, Earliest
  <1> QED BY <1>7, <1>8

(* Every step keeps what is known of the relay. *)
LEMMA RelayStep ==
  ASSUME Fallback <= 86, Fallback + 2 * TickGap + HANDSHAKE_RETRY_MAX <= HandshakeTimeout,
         Inv, RelayInv, [Next]_vars
  PROVE  RelayInv'
  <1>1. CASE Dial
    <2>1. RetryDelay(1) = 2
      BY Delays DEF HANDSHAKE_MAX_ATTEMPTS
    <2>2. 0 < Fallback + sinceTick /\ sinceTick' = sinceTick
      BY <1>1, HandshakeAssumption, Constants
      DEF Dial, Inv, SessionNumbers, ValidHandshakeTimings
    <2>3. /\ state' = "pending" /\ age' = 0 /\ attempts' = 1 /\ nextAttempt' = 2
          /\ relay' = FALSE
      BY <1>1, <2>1 DEF Dial, StartHandshake
    <2> QED BY <2>2, <2>3 DEF RelayInv, RelayIsTried, Earliest, HANDSHAKE_MAX_ATTEMPTS
  <1>2. CASE AddPeer
    BY <1>2 DEF AddPeer, ForgetHandshake, RelayInv, RelayIsTried
  <1>3. CASE Elapse
    <2>1. CASE state = "pending"
      <3>1. /\ sinceTick \in Nat /\ sinceTick' = sinceTick + 1 /\ age \in Nat /\ age' = age + 1
            /\ UNCHANGED <<state, nextAttempt, attempts, relay, viaRelay, noRelay>>
        BY <1>3, <2>1, Constants DEF Elapse, HandshakeElapse, Inv, HandshakeNumbers,
           SessionNumbers
      <3> QED BY <2>1, <3>1, Constants DEF RelayInv, RelayIsTried, Earliest
    <2>2. CASE state # "pending"
      BY <1>3, <2>2 DEF Elapse, HandshakeElapse, RelayInv, RelayIsTried
    <2> QED BY <2>1, <2>2
  <1>4. CASE Tick
    <2>1. CASE state # "pending" /\ UNCHANGED handshakeVars
      BY <2>1 DEF handshakeVars, RelayInv, RelayIsTried
    <2>2. CASE GiveUp
      <3>1. /\ state = "pending" /\ age >= HandshakeTimeout /\ state' = "abandoned"
            /\ UNCHANGED <<viaRelay, noRelay>>
        BY <2>2 DEF GiveUp, Expired
      <3>2. /\ age \in Nat /\ nextAttempt \in Nat /\ sinceTick \in 0 .. TickGap
            /\ attempts \in 0 .. 10
        BY Constants DEF Inv, HandshakeNumbers, SessionNumbers, HANDSHAKE_RETRY_MAX,
           HANDSHAKE_MAX_ATTEMPTS
      <3>3. ASSUME ~viaRelay, ~noRelay PROVE FALSE
        <4>1. age <= nextAttempt + sinceTick
          BY <3>1, <3>2, <3>3 DEF Inv, HandshakeInv, RelayInv, HANDSHAKE_MAX_ATTEMPTS
        <4>2. CASE relay
          BY <3>1, <3>2, <3>3, <4>1, <4>2, Constants DEF RelayInv, HANDSHAKE_RETRY_MAX
        <4>3. CASE ~relay
          BY <3>1, <3>2, <3>3, <4>3, Constants DEF RelayInv, HANDSHAKE_RETRY_MAX
        <4> QED BY <4>2, <4>3
      <3> QED BY <3>1, <3>3 DEF RelayInv, RelayIsTried
    <2>3. ASSUME NEW connected \in BOOLEAN, Retransmit(connected) PROVE RelayInv'
      BY <1>4, <2>3, RelayRetransmit DEF Tick
    <2> QED BY <1>4, <2>1, <2>2, <2>3 DEF Tick, HandshakeTick
  <1>5. CASE Packet
    BY <1>5, RelayUntouched DEF Packet
  <1>6. CASE UNCHANGED vars
    BY <1>6, RelayUntouched DEF vars
  <1> QED BY <1>1, <1>2, <1>3, <1>4, <1>5, <1>6 DEF Next

(* A handshake is not given up on before a relay was tried, for a fallback *)
(* that comes before the tenth attempt and leaves a retry before the       *)
(* timeout.  validate only asks for a fallback before the timeout, which   *)
(* is not enough (retransmit_handshakes, relay_fallback).                  *)
THEOREM RelaysAreTried ==
  ASSUME Fallback <= 86, Fallback + 2 * TickGap + HANDSHAKE_RETRY_MAX <= HandshakeTimeout
  PROVE  Spec => []RelayIsTried
  <1>1. Init => RelayInv
    BY DEF Init, HandshakeInit, RelayInv, RelayIsTried
  <1>2. Inv /\ RelayInv /\ [Next]_vars => RelayInv'
    BY RelayStep
  <1>3. RelayInv => RelayIsTried
    BY DEF RelayInv
  <1> QED BY <1>1, <1>2, <1>3, Inductive, PTL DEF Spec
===============================================================================

------------------------------ MODULE PeerTimers ------------------------------
(***************************************************************************)
(* The timers of one peer at one end: a handshake's (HandshakeTimers),     *)
(* then the session's, keepalives and their retries, expiry and the probes *)
(* of a relayed session's direct path, then the next handshake's           *)
(* (litewayd/src/state.rs, PeerState::tick, mark_seen, ack_keepalive and   *)
(* take_path_probe; main.rs, maintenance_tick and maintain_peers).         *)
(*                                                                         *)
(* Time is discrete and an Instant is kept as its age, the time since,     *)
(* which stops counting at AgeCap.  Packets and acks arrive at any time.   *)
(* The maintenance thread passes at least every TickGap.  A handshake and  *)
(* a session with the same peer share no timer; here one follows the other.*)
(***************************************************************************)
EXTENDS HandshakeTimers

CONSTANTS
    Interval,    \* keepalive_interval
    Timeout,     \* keepalive_timeout
    RetryMax,    \* KEEPALIVE_RETRY_MAX
    Expiry,      \* peer_expiry
    ProbeBase,   \* direct_probe_interval
    ProbeMax,    \* DIRECT_PROBE_MAX_INTERVAL
    AgeCap       \* bound: ages are not told apart beyond it

(* What AppConfig::validate asks of the timings. *)
ValidTimings ==
    /\ Interval \in Nat \ {0} /\ Timeout \in Nat \ {0} /\ Interval < Timeout
    /\ ProbeBase \in Nat \ {0}

ASSUME ConfigAssumption ==
    ValidTimings /\ {RetryMax, Expiry, ProbeMax} \subseteq Nat \ {0}
ASSUME AgeCapAssumption ==
    /\ AgeCap \in Nat /\ Expiry + TickGap < AgeCap
    /\ Interval + Timeout + 2 * TickGap < AgeCap
    /\ ProbeBase + ProbeMax + TickGap < AgeCap
(* A tick is never so late that a keepalive times out before its retry.    *)
ASSUME TickAssumption == Interval + TickGap <= Timeout

VARIABLES
    enabled,     \* keepalive_enabled, from the configuration
    up,          \* the session is in the peers table
    reason,      \* DropReason, once it is not
    seen,        \* age of last_seen
    acked,       \* age of last_ack
    proved,      \* history: age of the last answer to anything sent
    waiting,     \* keepalive: one is unanswered
    first,       \* age of its first_sent_at
    last,        \* age of its last_sent_at
    sent,        \* history: how often it was sent, to 2
    relayed,     \* relayed, with an endpoint to probe or to ask for
    scheduled,   \* next_probe is set
    wait,        \* time until next_probe
    gap,         \* probe_interval
    token,       \* probe_token is set
    unprobed,    \* history: time the session has gone relayed and unprobed
    sinceTick    \* time since the maintenance thread was here

keepaliveVars == <<waiting, first, last, sent>>
probeVars == <<scheduled, wait, gap, token, unprobed>>
sessionVars == <<up, reason, seen, acked, proved, keepaliveVars, relayed, probeVars>>
vars == <<handshakeVars, enabled, sessionVars, sinceTick>>

MaxOf(a, b) == IF a < b THEN b ELSE a

Older(age_) == MinOf(age_ + 1, AgeCap)

Init ==
    /\ HandshakeInit
    /\ enabled \in BOOLEAN
    /\ up = FALSE /\ relayed = FALSE /\ reason = "none"
    /\ seen = 0 /\ acked = 0 /\ proved = 0
    /\ waiting = FALSE /\ first = 0 /\ last = 0 /\ sent = 0
    /\ scheduled = FALSE /\ wait = 0 /\ gap = ProbeBase /\ token = FALSE
    /\ unprobed = 0 /\ sinceTick = 0

(* The fields of a new PeerState. *)
NewSession ==
    /\ reason' = "none"
    /\ seen' = 0 /\ acked' = 0 /\ proved' = 0
    /\ waiting' = FALSE /\ first' = 0 /\ last' = 0 /\ sent' = 0
    /\ scheduled' = FALSE /\ wait' = 0 /\ gap' = ProbeBase /\ token' = FALSE
    /\ unprobed' = 0

(* start_handshake, with no session to the peer. *)
Dial ==
    /\ ~up
    /\ StartHandshake
    /\ NewSession /\ relayed' = FALSE
    /\ UNCHANGED <<enabled, up, sinceTick>>

(* add_peer, from handle_handshake_2 for the handshake that is pending or  *)
(* from handle_handshake_1 when the peer dials.                            *)
AddPeer ==
    /\ ~up
    /\ up' = TRUE /\ relayed' \in BOOLEAN /\ NewSession
    /\ ForgetHandshake
    /\ UNCHANGED <<enabled, sinceTick>>

Elapse ==
    /\ sinceTick < TickGap
    /\ sinceTick' = sinceTick + 1
    /\ HandshakeElapse
    /\ IF up
       THEN /\ seen' = Older(seen) /\ acked' = Older(acked) /\ proved' = Older(proved)
            /\ first' = Older(first) /\ last' = Older(last)
            /\ wait' = MaxOf(wait - 1, 0)
            /\ unprobed' = IF relayed THEN Older(unprobed) ELSE 0
       ELSE UNCHANGED <<seen, acked, proved, first, last, wait, unprobed>>
    /\ UNCHANGED <<enabled, up, reason, waiting, sent, relayed, scheduled, gap, token>>

-------------------------------------------------------------------------------
(* The maintenance tick. *)

(* Mutant: the pace of retries is taken from the timeout. *)
RetryPerTimeout == Timeout

Retry == MinOf(Interval, RetryMax)

(* Mutant: with keepalives off nothing is looked at. *)
SilentIfEnabled == enabled /\ seen >= Expiry

(* peer_expiry has passed since the last packet. *)
Silent == seen >= Expiry

Drop(why) ==
    /\ up' = FALSE /\ reason' = why
    /\ UNCHANGED <<keepaliveVars, probeVars>>

(* tick with a keepalive outstanding: say it again. *)
Repeat ==
    /\ waiting /\ first < Timeout /\ last >= Retry
    /\ last' = 0 /\ sent' = MinOf(sent + 1, 2)
    /\ UNCHANGED <<waiting, first>>

(* Mutant: keepalives are scheduled from the last packet received. *)
KeepaliveDueFromSeen == seen >= Interval

KeepaliveDue == acked >= Interval

(* tick without one: the last ack is an interval ago. *)
Begin ==
    /\ ~waiting /\ ~Silent /\ KeepaliveDue
    /\ waiting' = TRUE /\ first' = 0 /\ last' = 0 /\ sent' = 1

Quiet ==
    /\ waiting => first < Timeout /\ last < Retry
    /\ ~waiting => ~Silent /\ ~KeepaliveDue
    /\ UNCHANGED keepaliveVars

(* Mutant: the backoff has no ceiling. *)
BackoffUnbounded == 2 * gap

Backoff == MinOf(2 * gap, ProbeMax)

(* take_path_probe.  Without a known endpoint the probe is a question to   *)
(* the lighthouse, which sets no token.                                    *)
Probe ==
    \/ /\ relayed /\ (scheduled => wait = 0)
       /\ gap' = IF scheduled THEN Backoff ELSE ProbeBase
       /\ scheduled' = TRUE /\ wait' = gap' /\ unprobed' = 0
       /\ token' \in {token, TRUE}
    \/ /\ ~relayed \/ (scheduled /\ wait > 0)
       /\ UNCHANGED probeVars

(* maintain_peers for this session: a dropped peer is not probed. *)
MaintainPeer ==
    /\ \/ enabled /\ waiting /\ first >= Timeout /\ Drop("KeepaliveTimeout")
       \/ (enabled => ~waiting) /\ Silent /\ Drop("Expired")
       \/ /\ enabled /\ (Repeat \/ Begin \/ Quiet)
          /\ Probe /\ UNCHANGED <<up, reason>>
       \/ /\ ~enabled /\ ~Silent /\ UNCHANGED keepaliveVars
          /\ Probe /\ UNCHANGED <<up, reason>>
    /\ UNCHANGED <<seen, acked, proved, relayed>>

(* maintenance_tick. *)
Tick ==
    /\ sinceTick' = 0
    /\ HandshakeTick
    /\ (up /\ MaintainPeer) \/ (~up /\ UNCHANGED sessionVars)
    /\ UNCHANGED enabled
-------------------------------------------------------------------------------
(* The receive thread. *)

(* mark_seen for a packet that moves nothing. *)
Receive ==
    /\ up
    /\ seen' = 0
    /\ UNCHANGED <<acked, proved, keepaliveVars, relayed, probeVars>>

(* mark_seen adopting the direct path.  The ack of a probe takes this way  *)
(* too: its token is forgotten before ack_keepalive compares it, so        *)
(* last_ack stays as it was, although the answer is a proof.               *)
MoveDirect ==
    /\ up /\ relayed
    /\ seen' = 0 /\ relayed' = FALSE
    /\ proved' \in {proved, IF token THEN 0 ELSE proved}
    /\ scheduled' = FALSE /\ token' = FALSE /\ unprobed' = 0
    /\ UNCHANGED <<acked, keepaliveVars, wait, gap>>

(* Mutant: a new endpoint postpones the probe instead of hastening it. *)
LearnPostpones ==
    /\ up
    /\ seen' \in {0, seen}
    /\ scheduled' = TRUE /\ wait' = gap
    /\ UNCHANGED <<acked, proved, keepaliveVars, relayed, gap, token, unprobed>>

(* A new endpoint to probe: from a hole punch by the peer (mark_seen), a   *)
(* repeated handshake_1 or a lighthouse's answer.                          *)
LearnEndpoint ==
    /\ up
    /\ seen' \in {0, seen}
    /\ scheduled' = FALSE
    /\ UNCHANGED <<acked, proved, keepaliveVars, relayed, wait, gap, token, unprobed>>

(* ack_keepalive with the token of the outstanding keepalive. *)
AckKeepalive ==
    /\ up /\ waiting
    /\ seen' = 0 /\ acked' = 0 /\ proved' = 0 /\ waiting' = FALSE
    /\ UNCHANGED <<first, last, sent, relayed, probeVars>>

(* ack_keepalive with the token of a probe whose answer moved nothing. *)
AckProbe ==
    /\ up /\ token
    /\ seen' = 0 /\ acked' = 0 /\ proved' = 0 /\ token' = FALSE
    /\ UNCHANGED <<keepaliveVars, relayed, scheduled, wait, gap, unprobed>>

(* handle_session_packet and note_direct_endpoint. *)
Packet ==
    /\ Receive \/ MoveDirect \/ LearnEndpoint \/ AckKeepalive \/ AckProbe
    /\ UNCHANGED <<handshakeVars, enabled, up, reason, sinceTick>>

Next == Dial \/ AddPeer \/ Elapse \/ Tick \/ Packet

Spec == Init /\ [][Next]_vars

-------------------------------------------------------------------------------
(* Every variable has its type, no age runs past its bound, no handshake   *)
(* outlives its timeout by more than the lateness of a tick and none is    *)
(* sent more than HANDSHAKE_MAX_ATTEMPTS times.                            *)
TypeOK ==
    /\ HandshakeTypeOK
    /\ enabled \in BOOLEAN /\ up \in BOOLEAN /\ relayed \in BOOLEAN
    /\ reason \in {"none", "KeepaliveTimeout", "Expired"}
    /\ seen \in 0 .. AgeCap /\ acked \in 0 .. AgeCap /\ proved \in 0 .. AgeCap
    /\ waiting \in BOOLEAN /\ first \in 0 .. AgeCap /\ last \in 0 .. AgeCap
    /\ sent \in 0 .. 2
    /\ scheduled \in BOOLEAN /\ token \in BOOLEAN /\ unprobed \in 0 .. AgeCap
    /\ wait \in 0 .. MaxOf(ProbeBase, ProbeMax) /\ gap \in 0 .. MaxOf(ProbeBase, ProbeMax)
    /\ sinceTick \in 0 .. TickGap

(* A session whose sending direction died does not stay "connected" for as *)
(* long as the other side keeps sending (state.rs, tick): with keepalives  *)
(* on, the peer last answered no longer ago than an interval, a timeout    *)
(* and two tick gaps, whatever arrives in between.                         *)
DeadPathIsDropped == enabled /\ up => proved < Interval + Timeout + 2 * TickGap

(* "a single lost datagram cannot cost the session" (state.rs, tick): a    *)
(* session given up for want of an ack was asked at least twice.           *)
OneLossIsSurvived == reason = "KeepaliveTimeout" => sent >= 2

(* A relayed session keeps being probed: the backoff never takes the pause *)
(* past its ceiling, nor does the peer changing its endpoint.              *)
ProbesGoOn == up /\ relayed => unprobed <= MaxOf(ProbeBase, ProbeMax) + TickGap

(* "the session went silent in both directions" (README.md,                *)
(* Troubleshooting): a session dropped by keepalive timeout received       *)
(* nothing for that long.                                                  *)
DroppedOnlyWhenSilent == reason = "KeepaliveTimeout" => seen >= Timeout

(* A peer that has just "proved it receives what we send" (state.rs,       *)
(* last_ack) is not given up on for want of an ack.                        *)
ProvenPeerIsKept == reason = "KeepaliveTimeout" => proved >= Timeout

(* "Upper bound on how long a peer that answers nothing is kept around"    *)
(* (state.rs, PEER_EXPIRY): nobody silent for longer is kept.              *)
ExpiryIsUpperBound == up => seen <= Expiry + TickGap

(* What that bound is for any valid timings: tick does not look at the     *)
(* expiry while a keepalive is outstanding, so a silent peer is kept until *)
(* the expiry or for a keepalive's interval and timeout, whichever takes   *)
(* longer, with keepalives or without, and whenever the silence began.     *)
SilentPeerExpires ==
    up => seen <= MaxOf(Expiry, Interval + Timeout + TickGap) + TickGap
===============================================================================

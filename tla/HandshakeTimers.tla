--------------------------- MODULE HandshakeTimers ----------------------------
(***************************************************************************)
(* When an unanswered handshake is sent again, joined by a relay and given *)
(* up on (litewayd/src/state.rs, PendingHandshake and retry_delay;         *)
(* main.rs, retransmit_handshakes).                                        *)
(*                                                                         *)
(* The unit of time is the maintenance tick of 250 ms; the thread may be   *)
(* late, but gets to the handshake at least every TickGap.  The peer is    *)
(* addressed by id, which is what the relay needs.                         *)
(***************************************************************************)
EXTENDS Integers

CONSTANTS
    HandshakeTimeout,   \* handshake_timeout
    Fallback,           \* relay_fallback
    TickGap             \* longest time between two maintenance ticks

(* What AppConfig::validate asks of the two. *)
ValidHandshakeTimings ==
    /\ HandshakeTimeout \in Nat \ {0} /\ Fallback \in Nat \ {0}
    /\ Fallback < HandshakeTimeout

ASSUME HandshakeAssumption == ValidHandshakeTimings /\ TickGap \in Nat \ {0}

HANDSHAKE_RETRY_BASE == 2
HANDSHAKE_RETRY_MAX == 12
HANDSHAKE_MAX_ATTEMPTS == 10

VARIABLES
    state,         \* "none", "pending" or "abandoned"
    age,           \* time since created_at
    nextAttempt,   \* next_attempt, as an age
    attempts,      \* attempts
    relay,         \* relay_addr is set
    viaRelay,      \* history: a copy went through the relay
    noRelay        \* history: the fallback was due and no relay connected

handshakeVars == <<state, age, nextAttempt, attempts, relay, viaRelay, noRelay>>

MinOf(a, b) == IF a < b THEN a ELSE b

(* Mutant: the delay doubles without a ceiling. *)
RetryDelayUnbounded(n) == HANDSHAKE_RETRY_BASE * 2^(n - 1)

(* retry_delay, the shift capped at 3: 0.5, 1, 2 and then 3 seconds. *)
RetryDelay(n) ==
    MinOf(HANDSHAKE_RETRY_BASE * <<1, 2, 4, 8>>[MinOf(n, 4)], HANDSHAKE_RETRY_MAX)

HandshakeInit ==
    /\ state = "none" /\ age = 0 /\ nextAttempt = 0 /\ attempts = 0
    /\ relay = FALSE /\ viaRelay = FALSE /\ noRelay = FALSE

(* start_handshake and PendingHandshake::new: the first copy is sent. *)
StartHandshake ==
    /\ state # "pending"
    /\ state' = "pending" /\ age' = 0
    /\ attempts' = 1 /\ nextAttempt' = RetryDelay(1)
    /\ relay' = FALSE /\ viaRelay' = FALSE /\ noRelay' = FALSE

HandshakeElapse ==
    /\ age' = IF state = "pending" THEN age + 1 ELSE age
    /\ UNCHANGED <<state, nextAttempt, attempts, relay, viaRelay, noRelay>>

Expired == age >= HandshakeTimeout

(* Mutant: the cap on attempts is forgotten. *)
RetransmitDueUncapped == ~Expired /\ age >= nextAttempt

RetransmitDue == ~Expired /\ attempts < HANDSHAKE_MAX_ATTEMPTS /\ age >= nextAttempt

(* Mutant: the fallback is due at one instant only. *)
RelayFallbackDueOnce == ~relay /\ age = Fallback

RelayFallbackDue == ~relay /\ age >= Fallback

(* retransmit_handshakes for a handshake past its timeout. *)
GiveUp ==
    /\ state = "pending" /\ Expired
    /\ state' = "abandoned" /\ age' = 0 /\ nextAttempt' = 0 /\ attempts' = 0
    /\ UNCHANGED <<relay, viaRelay, noRelay>>

(* retransmit_handshakes for a handshake that goes on; connected says      *)
(* whether the node has a session with a relay.                            *)
Retransmit(connected) ==
    /\ state = "pending" /\ ~Expired
    /\ relay' = (relay \/ (RelayFallbackDue /\ connected))
    /\ noRelay' = (noRelay \/ (RelayFallbackDue /\ ~connected))
    /\ IF RetransmitDue
       THEN /\ attempts' = attempts + 1
            /\ nextAttempt' = age + RetryDelay(attempts')
            /\ viaRelay' = (viaRelay \/ relay')
       ELSE UNCHANGED <<attempts, nextAttempt, viaRelay>>
    /\ UNCHANGED <<state, age>>

(* retransmit_handshakes. *)
HandshakeTick ==
    \/ state # "pending" /\ UNCHANGED handshakeVars
    \/ GiveUp
    \/ \E connected \in BOOLEAN : Retransmit(connected)

(* The handshake leaves the pending table when its session is added. *)
ForgetHandshake ==
    /\ state' = "none" /\ age' = 0 /\ nextAttempt' = 0 /\ attempts' = 0
    /\ relay' = FALSE /\ viaRelay' = FALSE /\ noRelay' = FALSE

-------------------------------------------------------------------------------
HandshakeTypeOK ==
    /\ state \in {"none", "pending", "abandoned"}
    /\ age \in 0 .. (HandshakeTimeout + TickGap)
    /\ nextAttempt \in 0 .. (HandshakeTimeout + HANDSHAKE_RETRY_MAX)
    /\ attempts \in 0 .. HANDSHAKE_MAX_ATTEMPTS
    /\ relay \in BOOLEAN /\ viaRelay \in BOOLEAN /\ noRelay \in BOOLEAN

(* While attempts are left, the next one is at most HANDSHAKE_RETRY_MAX    *)
(* away and not overdue by more than a tick: neither the backoff nor a     *)
(* busy table starves a handshake of retries (retry_delay,                 *)
(* retransmit_handshakes).                                                 *)
KeepsTrying ==
    state = "pending" /\ ~Expired /\ attempts < HANDSHAKE_MAX_ATTEMPTS
        => nextAttempt <= age + HANDSHAKE_RETRY_MAX /\ age <= nextAttempt + TickGap

(* The same handshake is also sent through a connected relay before it is  *)
(* given up on: validate refuses a fallback at or after the timeout        *)
(* because "otherwise the relay is never tried".                           *)
RelayIsTried == state = "abandoned" => viaRelay \/ noRelay
===============================================================================

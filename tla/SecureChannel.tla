---------------------------- MODULE SecureChannel -----------------------------
(***************************************************************************)
(* What the sessions of all nodes together promise to the layers above,    *)
(* without saying how keys are agreed on: a packet is sealed under a       *)
(* number that no packet of its sender had under the same key, and is      *)
(* handed over at most once.  It may be lost, late or overtaken.           *)
(***************************************************************************)
VARIABLES
    packets,   \* the packets sealed so far
    accepted   \* those handed over

(* What must never repeat: the inputs of the cipher that sealed a packet. *)
Nonce(p) == <<p.from, p.key, p.seq>>

Init == packets = {} /\ accepted = {}

(* Any number of packets are sealed, each under a fresh nonce. *)
Seal ==
    /\ packets \subseteq packets'
    /\ \A p \in packets' \ packets, q \in packets' : Nonce(p) = Nonce(q) => p = q

(* A packet that was sealed is handed over for the first time. *)
Deliver == \E p \in packets \ accepted : accepted' = accepted \cup {p}

Next == Seal /\ (Deliver \/ UNCHANGED accepted)

Spec == Init /\ [][Next]_<<packets, accepted>>
===============================================================================

------------------------------ MODULE AntiReplay ------------------------------
(***************************************************************************)
(* What a replay window promises, without saying how: a packet is accepted *)
(* exactly when its number was never accepted before and is less than W    *)
(* behind every number that was.                                           *)
(***************************************************************************)
EXTENDS Integers

CONSTANTS
    W,       \* how far behind the highest number a late packet may be
    SeqNo    \* the sequence numbers a packet can carry

VARIABLES
    accepted,   \* the numbers accepted so far
    verdict     \* the last packet and whether it was accepted

Fresh(seq) == seq \notin accepted /\ \A a \in accepted : a - seq < W

Init == accepted = {} /\ verdict = <<>>

Receive(seq) ==
    /\ verdict' = <<seq, Fresh(seq)>>
    /\ accepted' = IF Fresh(seq) THEN accepted \cup {seq} ELSE accepted

Next == \E seq \in SeqNo : Receive(seq)

Spec == Init /\ [][Next]_<<accepted, verdict>>
===============================================================================

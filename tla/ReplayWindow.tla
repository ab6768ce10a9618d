----------------------------- MODULE ReplayWindow -----------------------------
(***************************************************************************)
(* The receiver's replay window (litewayd/src/state.rs, ReplayWindow):     *)
(* the highest sequence number accepted so far and one bit for each of the *)
(* W numbers that end at it.  The u64 bitmask `seen' is the set of the     *)
(* positions of its one bits; bit b stands for the number highest - b.     *)
(***************************************************************************)
EXTENDS Integers

CONSTANT
    W     \* REPLAY_WINDOW_BITS, the width of the bitmask

ASSUME WAssumption == W \in Nat \ {0}

Bits == 0 .. (W - 1)

Window == [initialized : BOOLEAN, highest : Nat, seen : SUBSET Bits]

NewWindow == [initialized |-> FALSE, highest |-> 0, seen |-> {}]

(* seen << k on a W-bit word: bits pushed past the top are lost. *)
ShiftLeft(seen, k) == {b \in Bits : b - k \in seen}

(* Mutant: the age test is off by one and lets the number just below the   *)
(* window through, whose bit is not in the word.                           *)
AcceptsOneTooOld(w, seq) ==
    \/ ~w.initialized
    \/ seq > w.highest
    \/ w.highest - seq <= W /\ (w.highest - seq) \notin w.seen

(* What accept returns. *)
Accepts(w, seq) ==
    \/ ~w.initialized
    \/ seq > w.highest
    \/ w.highest - seq < W /\ (w.highest - seq) \notin w.seen

(* Mutant: a jump forward forgets the numbers still inside the window. *)
AdvanceForgets(w, seq) ==
    [initialized |-> TRUE, highest |-> seq, seen |-> {0}]

(* accept moving the window forward to a number above highest. *)
Advance(w, seq) ==
    [initialized |-> TRUE, highest |-> seq,
     seen |-> {0} \cup IF seq - w.highest >= W THEN {}
                       ELSE ShiftLeft(w.seen, seq - w.highest)]

(* The window after accept returned TRUE for seq. *)
AfterAccept(w, seq) ==
    IF ~w.initialized
    THEN [initialized |-> TRUE, highest |-> seq, seen |-> {0}]
    ELSE IF seq > w.highest
         THEN Advance(w, seq)
         ELSE [w EXCEPT !.seen = @ \cup {w.highest - seq}]

(***************************************************************************)
(* Window w remembers exactly the set S of numbers accepted through it:    *)
(* highest is their maximum, and the bits are those still in reach.        *)
(***************************************************************************)
Remembers(w, S) ==
    /\ ~w.initialized => S = {}
    /\ w.initialized =>
          /\ w.highest \in S
          /\ \A a \in S : a <= w.highest
          /\ w.seen = {b \in Bits : w.highest - b \in S}
===============================================================================

---------------------------- MODULE ReplayReceiver ----------------------------
(***************************************************************************)
(* One receiving session: packets of one traffic key arrive in any order,  *)
(* repeated and with gaps, and each goes through the replay window of the  *)
(* session (main.rs, handle_session_packet).                               *)
(***************************************************************************)
EXTENDS ReplayWindow

CONSTANT
    SeqNo    \* sequence numbers packets carry (u64; next_seq starts at 1)

ASSUME SeqNoAssumption == SeqNo \subseteq Nat

VARIABLES
    win,        \* peer.rx_replay
    taken,      \* history: the numbers accept returned TRUE for
    verdict     \* history: the last number offered and the answer

receiver == <<win, taken, verdict>>

ReceiverInit == win = NewWindow /\ taken = {} /\ verdict = <<>>

Accept(seq) ==
    /\ Accepts(win, seq)
    /\ win' = AfterAccept(win, seq)
    /\ taken' = taken \cup {seq}
    /\ verdict' = <<seq, TRUE>>

Reject(seq) ==
    /\ ~Accepts(win, seq)
    /\ verdict' = <<seq, FALSE>>
    /\ UNCHANGED <<win, taken>>

ReceiverNext == \E seq \in SeqNo : Accept(seq) \/ Reject(seq)

ReceiverSpec == ReceiverInit /\ [][ReceiverNext]_receiver

-------------------------------------------------------------------------------
(* The window is a flag, a number and a W-bit word. *)
ReceiverTypeOK ==
    /\ win \in Window
    /\ taken \subseteq SeqNo
    /\ verdict \in {<<>>} \cup (SeqNo \X BOOLEAN)

(* However packets were lost, repeated or reordered, the bits of the       *)
(* window are exactly the accepted numbers within W of the highest: accept *)
(* forgets none of them and invents none.                                  *)
WindowExact == Remembers(win, taken)

AR == INSTANCE AntiReplay
        WITH W <- W, SeqNo <- SeqNo, accepted <- taken, verdict <- verdict

(* The bitmask algorithm of ReplayWindow::accept gives, for every          *)
(* sequence of packets, the verdicts of the set-based AntiReplay: no       *)
(* number is accepted twice, and none in reach of the window is refused    *)
(* that was not accepted before.                                           *)
ImplementsAntiReplay == AR!Spec
===============================================================================

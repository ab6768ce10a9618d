----------------------------- MODULE GracefulStop -----------------------------
(***************************************************************************)
(* What a graceful stop promises, without saying how: no thread ends       *)
(* before the stop was asked for, one of them ends last, and in the end    *)
(* all have.                                                               *)
(***************************************************************************)
CONSTANTS
    Thread,   \* the threads of the process
    Last      \* the one that waits for the others

VARIABLES
    stopping,   \* the stop was asked for
    live        \* threads that still run

Init == stopping = FALSE /\ live = Thread

RequestStop == ~stopping /\ stopping' = TRUE /\ UNCHANGED live

End(t) ==
    /\ stopping /\ t \in live
    /\ t = Last => live = {Last}
    /\ live' = live \ {t}
    /\ UNCHANGED stopping

(* Asked twice, the process ends at once. *)
Abort == stopping /\ live' = {} /\ UNCHANGED stopping

Next == RequestStop \/ Abort \/ \E t \in Thread : End(t)

Spec == Init /\ [][Next]_<<stopping, live>>

Stops == stopping ~> (live = {})
===============================================================================

------------------------------- MODULE MCReplay -------------------------------
(* ReplayReceiver with a 3-bit window and numbers up to more than twice    *)
(* its width, so that packets fall inside, on and beyond both edges.       *)
EXTENDS ReplayReceiver

MCSeqNo == 0 .. 8
===============================================================================

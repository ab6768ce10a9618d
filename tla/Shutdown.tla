------------------------------- MODULE Shutdown -------------------------------
(***************************************************************************)
(* How the daemon stops (litewayd/src/main.rs: main, the signal handler,   *)
(* wait_for_shutdown_or_timeout, run_receiver and notify_shutdown).        *)
(*                                                                         *)
(* The signal handler clears running and then, under the lock, sets the    *)
(* shutdown flag and notifies the condition variable.  The punch and the   *)
(* maintenance thread sleep on it between rounds, and so does main when it *)
(* has no tunnel to read.  Main then tells the peers and joins the others. *)
(* Of what the threads do, only the sessions they add and remove matter.   *)
(***************************************************************************)
EXTENDS Integers, FiniteSets

CONSTANTS
    Peer,     \* peers that may have a session
    Slots,    \* configured lighthouses
    MaxSid    \* bound: sessions installed in one behaviour

ASSUME ShutdownAssumption == Slots \in Nat /\ MaxSid \in Nat

Thread == {"main", "punch", "maintenance", "recv"}
Step == {"top", "work", "wait", "waiting", "notify", "sending", "join", "ended"}

VARIABLES
    running,    \* Node::running
    shutdown,   \* the flag under the lock of Node::shutdown
    handler,    \* how far the signal handler is: "none", "stored", "done"
    tun,        \* there is a tunnel for main to read
    pc,         \* where each thread is
    slot,       \* lighthouses punch has dealt with in this round
    peers,      \* each peer's session; 0 if none
    targets,    \* notify_shutdown: sessions still to be sent a disconnect
    told,       \* history: sessions sent a disconnect
    nextSid,    \* source of session ids
    killed      \* a second signal ended the process

vars == <<running, shutdown, handler, tun, pc, slot, peers, targets, told, nextSid, killed>>
signalVars == <<running, shutdown, handler, killed>>
sessionVars == <<peers, targets, told, nextSid>>

Go(t, a, b) == pc[t] = a /\ pc' = [pc EXCEPT ![t] = b]

Init ==
    /\ running = TRUE /\ shutdown = FALSE /\ handler = "none" /\ killed = FALSE
    /\ tun \in BOOLEAN
    /\ pc = [t \in Thread |-> "top"] /\ slot = 0
    /\ peers = [p \in Peer |-> 0] /\ targets = {} /\ told = {} /\ nextSid = 1

-------------------------------------------------------------------------------
(* install_signal_handler. *)

Signal ==
    /\ handler = "none"
    /\ running' = FALSE /\ handler' = "stored"
    /\ UNCHANGED <<shutdown, killed, tun, pc, slot, sessionVars>>

(* The flag is set and the sleepers are notified under one lock. *)
SetFlag ==
    /\ handler = "stored"
    /\ shutdown' = TRUE /\ handler' = "done"
    /\ pc' = [t \in Thread |-> IF pc[t] = "waiting" THEN "top" ELSE pc[t]]
    /\ UNCHANGED <<running, killed, tun, slot, sessionVars>>

(* The second signal: exit(130). *)
Kill ==
    /\ handler = "done" /\ pc["main"] # "ended"
    /\ pc' = [t \in Thread |-> "ended"] /\ killed' = TRUE
    /\ UNCHANGED <<running, shutdown, handler, tun, slot, sessionVars>>

-------------------------------------------------------------------------------
(* The loops. *)

(* Mutant: the receiver empties the socket before it looks at running. *)
TopDrains(t) ==
    /\ \/ (running \/ t = "recv") /\ Go(t, "top", "work")
       \/ ~running /\ Go(t, "top", IF t = "main" THEN "notify" ELSE "ended")
    /\ slot' = IF t = "punch" THEN 0 ELSE slot
    /\ UNCHANGED <<signalVars, tun, sessionVars>>

(* while running *)
Top(t) ==
    /\ \/ running /\ Go(t, "top", "work")
       \/ ~running /\ Go(t, "top", IF t = "main" THEN "notify" ELSE "ended")
    /\ slot' = IF t = "punch" THEN 0 ELSE slot
    /\ UNCHANGED <<signalVars, tun, sessionVars>>

(* Mutant: the flag is not looked at under the lock. *)
WaitBlindly(t) ==
    /\ Go(t, "wait", "waiting")
    /\ UNCHANGED <<signalVars, tun, slot, sessionVars>>

(* wait_for_shutdown_or_timeout: the flag, and if it is clear to sleep. *)
Wait(t) ==
    /\ Go(t, "wait", IF shutdown THEN "top" ELSE "waiting")
    /\ UNCHANGED <<signalVars, tun, slot, sessionVars>>

(* The wait times out. *)
Wake(t) ==
    /\ Go(t, "waiting", "top")
    /\ UNCHANGED <<signalVars, tun, slot, sessionVars>>

MoreLighthouses == slot < Slots

(* connect_lighthouses: the next lighthouse, unless the node is stopping. *)
PunchWork ==
    /\ \/ running /\ MoreLighthouses /\ slot' = slot + 1 /\ Go("punch", "work", "work")
       \/ ~(running /\ MoreLighthouses) /\ UNCHANGED slot /\ Go("punch", "work", "wait")
    /\ UNCHANGED <<signalVars, tun, sessionVars>>

(* maintenance_tick: may drop sessions. *)
MaintenanceWork(D) ==
    /\ Go("maintenance", "work", "wait")
    /\ peers' = [p \in Peer |-> IF p \in D THEN 0 ELSE peers[p]]
    /\ UNCHANGED <<signalVars, tun, slot, targets, told, nextSid>>

(* One datagram: a handshake adds a session... *)
Install(p) ==
    /\ nextSid <= MaxSid
    /\ peers' = [peers EXCEPT ![p] = nextSid] /\ nextSid' = nextSid + 1

(* ...a disconnect removes one... *)
Disconnected(p) ==
    /\ peers' = [peers EXCEPT ![p] = 0] /\ UNCHANGED nextSid

(* ...and anything else, or the read timeout, changes neither. *)
ReceiveWork ==
    /\ Go("recv", "work", "top")
    /\ \/ \E p \in Peer : Install(p) \/ Disconnected(p)
       \/ UNCHANGED <<peers, nextSid>>
    /\ UNCHANGED <<signalVars, tun, slot, targets, told>>

(* Main reads the tunnel, or sleeps when there is none. *)
MainWork ==
    /\ Go("main", "work", IF tun THEN "top" ELSE "wait")
    /\ UNCHANGED <<signalVars, tun, slot, sessionVars>>

-------------------------------------------------------------------------------
(* The end of main. *)

(* Mutant: main does not wait for the other threads. *)
JoinNobody ==
    /\ Go("main", "join", "ended")
    /\ UNCHANGED <<signalVars, tun, slot, sessionVars>>

Join ==
    /\ \A t \in Thread \ {"main"} : pc[t] = "ended"
    /\ Go("main", "join", "ended")
    /\ UNCHANGED <<signalVars, tun, slot, sessionVars>>

(* notify_shutdown: the sessions there are now, under the peers lock... *)
Notify ==
    /\ Go("main", "notify", "sending")
    /\ targets' = {peers[p] : p \in Peer} \ {0}
    /\ UNCHANGED <<signalVars, tun, slot, peers, told, nextSid>>

(* ...are each sent a disconnect once it is released. *)
SendDisconnect(s) ==
    /\ pc["main"] = "sending" /\ s \in targets
    /\ targets' = targets \ {s} /\ told' = told \cup {s}
    /\ UNCHANGED <<signalVars, tun, pc, slot, peers, nextSid>>

AllSent ==
    /\ targets = {}
    /\ Go("main", "sending", "join")
    /\ UNCHANGED <<signalVars, tun, slot, sessionVars>>

(* The process is gone. *)
Over ==
    /\ \A t \in Thread : pc[t] = "ended"
    /\ UNCHANGED vars

Next ==
    \/ Signal \/ SetFlag \/ Kill
    \/ \E t \in Thread : Top(t) \/ Wait(t) \/ Wake(t)
    \/ PunchWork \/ ReceiveWork \/ MainWork
    \/ \E D \in SUBSET Peer : MaintenanceWork(D)
    \/ Notify \/ AllSent \/ Join
    \/ \E s \in targets : SendDisconnect(s)
    \/ Over

Spec == Init /\ [][Next]_vars

(* Threads are scheduled and the handler gets its lock.  No wait need ever *)
(* time out.                                                               *)
Fairness ==
    /\ WF_vars(SetFlag)
    /\ \A t \in Thread : WF_vars(Top(t)) /\ WF_vars(Wait(t))
    /\ WF_vars(PunchWork) /\ WF_vars(ReceiveWork) /\ WF_vars(MainWork)
    /\ WF_vars(\E D \in SUBSET Peer : MaintenanceWork(D))
    /\ WF_vars(Notify) /\ WF_vars(AllSent) /\ WF_vars(Join)
    /\ WF_vars(\E s \in targets : SendDisconnect(s))

FairSpec == Spec /\ Fairness

-------------------------------------------------------------------------------
(* Every variable has its type, and punch deals with no more lighthouses   *)
(* than are configured.                                                    *)
TypeOK ==
    /\ running \in BOOLEAN /\ shutdown \in BOOLEAN /\ killed \in BOOLEAN
    /\ tun \in BOOLEAN /\ handler \in {"none", "stored", "done"}
    /\ pc \in [Thread -> Step] /\ slot \in 0 .. Slots
    /\ peers \in [Peer -> Nat] /\ nextSid \in Nat \ {0}
    /\ targets \subseteq Nat \ {0} /\ told \subseteq Nat

(* No wake-up is lost: once the handler has notified, no thread sleeps     *)
(* through it, however its check of running and its wait interleave with   *)
(* the handler (wait_for_shutdown_or_timeout).                             *)
NobodySleepsOn == shutdown => \A t \in Thread : pc[t] # "waiting"

Untold(p) == peers[p] \notin told \cup targets \cup {0}

(* A peer that connects while the node stops may never hear of it: the     *)
(* receive thread goes on after notify_shutdown has listed the sessions.   *)
(* But it sees running before its next datagram, so that at most one       *)
(* session is left untold by a node that stopped of its own accord.        *)
AtMostOneUntold ==
    pc["main"] \in {"sending", "join", "ended"} /\ ~killed
        => \A p, q \in Peer : Untold(p) /\ Untold(q) => p = q

GS == INSTANCE GracefulStop
        WITH Last <- "main",
             stopping <- ~running,
             live <- {t \in Thread : pc[t] # "ended"}

(* No thread ends while the node is in service and none outlives main,     *)
(* which joins them.                                                       *)
ImplementsGracefulStop == GS!Spec

(* After a signal every thread ends, and without any wait having to time   *)
(* out: punch_interval may be long and does not delay the end.             *)
AllThreadsEnd == GS!Stops
===============================================================================

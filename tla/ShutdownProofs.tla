---------------------------- MODULE ShutdownProofs ----------------------------
(***************************************************************************)
(* Proofs about Shutdown for any peers, lighthouses and number of          *)
(* sessions: the safety properties, and that the daemon's stop implements  *)
(* GracefulStop.                                                           *)
(***************************************************************************)
EXTENDS Shutdown, TLAPS

(* How far the signal handler is tells the two flags. *)
FlagsFollowHandler ==
    /\ running <=> handler = "none"
    /\ shutdown <=> handler = "done"

(* Main has taken its list of sessions. *)
Listed == pc["main"] \in {"sending", "join", "ended"}

(* Once main is past its loop the node is stopping, and while the receive  *)
(* thread has a datagram in hand its one addition is still to come.        *)
LastDatagram ==
    /\ Listed \/ pc["main"] = "notify" => ~running
    /\ Listed /\ ~killed /\ pc["recv"] = "work" => \A p \in Peer : ~Untold(p)

Inv == /\ TypeOK /\ FlagsFollowHandler /\ NobodySleepsOn
       /\ LastDatagram /\ AtMostOneUntold

(* The four threads. *)
LEMMA ThreadNames ==
  /\ "main" \in Thread /\ "recv" \in Thread /\ "punch" \in Thread
  /\ "maintenance" \in Thread
  BY DEF Thread

(* The node in service satisfies the invariant. *)
LEMMA InitInv == Init => Inv
  <1> SUFFICES ASSUME Init PROVE Inv
    OBVIOUS
  <1>1. pc["main"] = "top"
    BY ThreadNames DEF Init
  <1>2. TypeOK
    <2>1. slot \in 0 .. Slots
      BY ShutdownAssumption DEF Init
    <2>2. pc \in [Thread -> Step]
      BY DEF Init, Step
    <2>3. /\ peers \in [Peer -> Nat] /\ nextSid \in Nat \ {0}
          /\ targets \subseteq Nat \ {0} /\ told \subseteq Nat
      BY DEF Init
    <2>4. /\ running \in BOOLEAN /\ shutdown \in BOOLEAN /\ killed \in BOOLEAN
          /\ tun \in BOOLEAN /\ handler \in {"none", "stored", "done"}
      BY Zenon DEF Init
    <2> QED BY <2>1, <2>2, <2>3, <2>4 DEF TypeOK
  <1> QED BY <1>1, <1>2 DEF Init, Inv, FlagsFollowHandler, NobodySleepsOn,
             LastDatagram, AtMostOneUntold, Listed

(* Steps that leave the sessions, the lists and the flags alone, and bring *)
(* no thread to sleep, into the receiver's work or past main's list.       *)
LEMMA QuietInv ==
  ASSUME Inv, UNCHANGED <<running, shutdown, handler, killed, tun, sessionVars>>,
         pc' \in [Thread -> Step], slot' \in 0 .. Slots,
         \A t \in Thread : pc'[t] = "waiting" => pc[t] = "waiting" \/ ~shutdown,
         pc'["recv"] = "work" => pc["recv"] = "work" \/ running,
         Listed' => Listed,
         pc'["main"] = "notify" => pc["main"] = "notify" \/ ~running
  PROVE  Inv'
  <1>1. TypeOK' /\ FlagsFollowHandler'
    BY DEF Inv, TypeOK, FlagsFollowHandler, sessionVars
  <1>2. NobodySleepsOn'
    BY DEF Inv, NobodySleepsOn
  <1>3. \A p \in Peer : Untold(p)' <=> Untold(p)
    BY DEF Untold, sessionVars
  <1>4. LastDatagram'
    BY <1>3 DEF Inv, LastDatagram
  <1>5. AtMostOneUntold'
    BY <1>3 DEF Inv, AtMostOneUntold, Listed
  <1> QED BY <1>1, <1>2, <1>4, <1>5 DEF Inv

(* A thread goes on to another of its steps. *)
LEMMA GoTypes ==
  ASSUME TypeOK, NEW t \in Thread, NEW a \in Step, NEW b \in Step, Go(t, a, b)
  PROVE  /\ pc' \in [Thread -> Step] /\ pc[t] = a /\ pc'[t] = b
         /\ \A u \in Thread : u # t => pc'[u] = pc[u]
  BY DEF Go, TypeOK

(* Every step of every thread and of the handler keeps the invariant. *)
LEMMA NextInv == Inv /\ [Next]_vars => Inv'
  <1> SUFFICES ASSUME Inv, [Next]_vars PROVE Inv'
    OBVIOUS
  <1> USE ThreadNames
  <1>t. TypeOK
    BY DEF Inv
  <1>p. pc \in [Thread -> Step] /\ slot \in 0 .. Slots
    BY <1>t DEF TypeOK
  <1>1. CASE Signal
    <2>1. UNCHANGED <<shutdown, killed, tun, pc, slot, sessionVars>>
      BY <1>1 DEF Signal
    <2>2. handler = "none" /\ running' = FALSE /\ handler' = "stored"
      BY <1>1 DEF Signal
    <2>3. TypeOK' /\ FlagsFollowHandler'
      BY <2>1, <2>2, Zenon DEF Inv, TypeOK, FlagsFollowHandler, sessionVars
    <2>4. \A p \in Peer : Untold(p)' <=> Untold(p)
      BY <2>1 DEF Untold, sessionVars
    <2>5. NobodySleepsOn' /\ LastDatagram' /\ AtMostOneUntold'
      BY <2>1, <2>2, <2>4 DEF Inv, NobodySleepsOn, LastDatagram, AtMostOneUntold, Listed
    <2> QED BY <2>3, <2>5 DEF Inv
  <1>2. CASE SetFlag
    <2>1. UNCHANGED <<running, killed, tun, slot, sessionVars>>
      BY <1>2 DEF SetFlag
    <2>2. handler = "stored" /\ shutdown' = TRUE /\ handler' = "done"
      BY <1>2 DEF SetFlag
    <2>3. pc' = [t \in Thread |-> IF pc[t] = "waiting" THEN "top" ELSE pc[t]]
      BY <1>2 DEF SetFlag
    <2>4. pc' \in [Thread -> Step] /\ \A t \in Thread : pc'[t] # "waiting"
      BY <1>p, <2>3 DEF Step
    <2>5. TypeOK' /\ FlagsFollowHandler'
      BY <2>1, <2>2, <2>4 DEF Inv, TypeOK, FlagsFollowHandler, sessionVars
    <2>6. NobodySleepsOn'
      BY <2>4 DEF NobodySleepsOn
    <2>7. /\ pc["main"] # "waiting" => pc'["main"] = pc["main"]
          /\ pc["main"] = "waiting" => pc'["main"] = "top"
          /\ pc'["recv"] = "work" => pc["recv"] = "work"
      BY <1>p, <2>3
    <2>8. \A p \in Peer : Untold(p)' <=> Untold(p)
      BY <2>1 DEF Untold, sessionVars
    <2>9. LastDatagram' /\ AtMostOneUntold'
      BY <2>1, <2>7, <2>8 DEF Inv, LastDatagram, AtMostOneUntold, Listed
    <2> QED BY <2>5, <2>6, <2>9 DEF Inv
  <1>3. CASE Kill
    <2>1. UNCHANGED <<running, shutdown, handler, tun, slot, sessionVars>>
      BY <1>3 DEF Kill
    <2>2. handler = "done" /\ killed' = TRUE /\ pc' = [t \in Thread |-> "ended"]
      BY <1>3 DEF Kill
    <2>3. TypeOK' /\ FlagsFollowHandler'
      BY <2>1, <2>2 DEF Inv, TypeOK, FlagsFollowHandler, sessionVars, Step
    <2>4. NobodySleepsOn' /\ LastDatagram' /\ AtMostOneUntold'
      BY <2>1, <2>2 DEF Inv, NobodySleepsOn, LastDatagram, AtMostOneUntold,
         Listed, FlagsFollowHandler
    <2> QED BY <2>3, <2>4 DEF Inv
  <1>4. ASSUME NEW t \in Thread, Top(t)
        PROVE  Inv'
    <2>1. UNCHANGED <<signalVars, tun, sessionVars>> /\ slot' \in 0 .. Slots
      BY <1>4, <1>p, ShutdownAssumption DEF Top
    <2>2. PICK b \in {"work", "notify", "ended"} :
              /\ Go(t, "top", b)
              /\ b = "work" => running
              /\ b # "work" => ~running
              /\ t = "main" => b # "ended"
      BY <1>4 DEF Top
    <2>3. /\ pc' \in [Thread -> Step] /\ pc[t] = "top" /\ pc'[t] = b
          /\ \A u \in Thread : u # t => pc'[u] = pc[u]
      BY <1>t, <2>2, GoTypes DEF Step
    <2>4. /\ \A u \in Thread : pc'[u] = "waiting" => pc[u] = "waiting" \/ ~shutdown
          /\ pc'["recv"] = "work" => pc["recv"] = "work" \/ running
          /\ pc'["main"] = "notify" => pc["main"] = "notify" \/ ~running
          /\ Listed' => Listed
      BY <2>2, <2>3 DEF Listed
    <2> QED BY <2>1, <2>3, <2>4, QuietInv DEF signalVars
  <1>5. ASSUME NEW t \in Thread, Wait(t) \/ Wake(t)
        PROVE  Inv'
    <2>1. UNCHANGED <<signalVars, tun, slot, sessionVars>>
      BY <1>5 DEF Wait, Wake
    <2>2. PICK a \in {"wait", "waiting"}, b \in {"top", "waiting"} :
              Go(t, a, b) /\ (b = "waiting" => ~shutdown)
      BY <1>5 DEF Wait, Wake
    <2>3. /\ pc' \in [Thread -> Step] /\ pc[t] = a /\ pc'[t] = b
          /\ \A u \in Thread : u # t => pc'[u] = pc[u]
      BY <1>t, <2>2, GoTypes DEF Step
    <2>4. /\ \A u \in Thread : pc'[u] = "waiting" => pc[u] = "waiting" \/ ~shutdown
          /\ pc'["recv"] = "work" => pc["recv"] = "work" \/ running
          /\ pc'["main"] = "notify" => pc["main"] = "notify" \/ ~running
          /\ Listed' => Listed
      BY <2>2, <2>3 DEF Listed
    <2> QED BY <1>p, <2>1, <2>3, <2>4, QuietInv DEF signalVars
  <1>6. CASE PunchWork \/ MainWork
    <2>1. UNCHANGED <<signalVars, tun, sessionVars>> /\ slot' \in 0 .. Slots
      BY <1>6, <1>p, ShutdownAssumption DEF PunchWork, MainWork, MoreLighthouses
    <2>2. PICK t \in Thread, b \in {"work", "wait", "top"} :
              Go(t, "work", b) /\ t # "recv"
      BY <1>6 DEF PunchWork, MainWork
    <2>3. /\ pc' \in [Thread -> Step] /\ pc[t] = "work" /\ pc'[t] = b
          /\ \A u \in Thread : u # t => pc'[u] = pc[u]
      BY <1>t, <2>2, GoTypes DEF Step
    <2>4. /\ \A u \in Thread : pc'[u] = "waiting" => pc[u] = "waiting" \/ ~shutdown
          /\ pc'["recv"] = "work" => pc["recv"] = "work" \/ running
          /\ pc'["main"] = "notify" => pc["main"] = "notify" \/ ~running
          /\ Listed' => Listed
      BY <2>2, <2>3 DEF Listed
    <2> QED BY <2>1, <2>3, <2>4, QuietInv DEF signalVars
  <1>7. ASSUME NEW D \in SUBSET Peer, MaintenanceWork(D)
        PROVE  Inv'
    <2>1. /\ UNCHANGED <<signalVars, tun, slot, targets, told, nextSid>>
          /\ peers' = [p \in Peer |-> IF p \in D THEN 0 ELSE peers[p]]
          /\ Go("maintenance", "work", "wait")
      BY <1>7 DEF MaintenanceWork
    <2>2. /\ pc' \in [Thread -> Step] /\ pc'["maintenance"] = "wait"
          /\ \A u \in Thread : u # "maintenance" => pc'[u] = pc[u]
      BY <1>t, <2>1, GoTypes DEF Step
    <2>3. peers' \in [Peer -> Nat]
      BY <1>t, <2>1 DEF TypeOK
    <2>4. TypeOK' /\ FlagsFollowHandler'
      BY <2>1, <2>2, <2>3 DEF Inv, TypeOK, FlagsFollowHandler, signalVars
    <2>5. NobodySleepsOn'
      BY <2>1, <2>2 DEF Inv, NobodySleepsOn, signalVars
    <2>6. \A p \in Peer : Untold(p)' => Untold(p)
      BY <1>t, <2>1 DEF Untold, TypeOK
    <2>7. LastDatagram' /\ AtMostOneUntold'
      BY <2>1, <2>2, <2>6 DEF Inv, LastDatagram, AtMostOneUntold, Listed, signalVars
    <2> QED BY <2>4, <2>5, <2>7 DEF Inv
  <1>8. CASE ReceiveWork
    <2>1. UNCHANGED <<signalVars, tun, slot, targets, told>> /\ Go("recv", "work", "top")
      BY <1>8 DEF ReceiveWork
    <2>2. /\ pc' \in [Thread -> Step] /\ pc["recv"] = "work" /\ pc'["recv"] = "top"
          /\ \A u \in Thread : u # "recv" => pc'[u] = pc[u]
      BY <1>t, <2>1, GoTypes DEF Step
    <2>3. \/ UNCHANGED <<peers, nextSid>>
          \/ \E q \in Peer, s \in Nat : peers' = [peers EXCEPT ![q] = s]
      BY <1>8, <1>t DEF ReceiveWork, Install, Disconnected, TypeOK
    <2>4. peers' \in [Peer -> Nat] /\ nextSid' \in Nat \ {0}
      <3>1. nextSid' \in Nat \ {0}
        BY <1>8, <1>t DEF ReceiveWork, Install, Disconnected, TypeOK
      <3> QED BY <1>t, <2>3, <3>1 DEF TypeOK
    <2>5. TypeOK' /\ FlagsFollowHandler'
      BY <2>1, <2>2, <2>4 DEF Inv, TypeOK, FlagsFollowHandler, signalVars
    <2>6. NobodySleepsOn' /\ LastDatagram'
      BY <2>1, <2>2 DEF Inv, NobodySleepsOn, LastDatagram, Listed, signalVars
    <2>7. AtMostOneUntold'
      <3> SUFFICES ASSUME Listed, ~killed, NEW p \in Peer, NEW q \in Peer,
                          Untold(p)', Untold(q)'
                   PROVE  p = q
        BY <2>1, <2>2 DEF AtMostOneUntold, Listed, signalVars
      <3>1. ~Untold(p) /\ ~Untold(q)
        BY <2>2 DEF Inv, LastDatagram
      <3>2. peers'[p] # peers[p] /\ peers'[q] # peers[q]
        BY <2>1, <3>1 DEF Untold
      <3> QED BY <1>t, <2>3, <3>2 DEF TypeOK
    <2> QED BY <2>5, <2>6, <2>7 DEF Inv
  <1>9. CASE Notify
    <2>1. /\ UNCHANGED <<signalVars, tun, slot, peers, told, nextSid>>
          /\ targets' = {peers[p] : p \in Peer} \ {0}
          /\ Go("main", "notify", "sending")
      BY <1>9 DEF Notify
    <2>2. /\ pc' \in [Thread -> Step] /\ pc["main"] = "notify" /\ pc'["main"] = "sending"
          /\ \A u \in Thread : u # "main" => pc'[u] = pc[u]
      BY <1>t, <2>1, GoTypes DEF Step
    <2>3. TypeOK' /\ FlagsFollowHandler'
      BY <2>1, <2>2 DEF Inv, TypeOK, FlagsFollowHandler, signalVars
    <2>4. NobodySleepsOn'
      BY <2>1, <2>2 DEF Inv, NobodySleepsOn, signalVars
    <2>5. \A p \in Peer : ~Untold(p)'
      BY <2>1 DEF Untold
    <2>6. LastDatagram' /\ AtMostOneUntold'
      BY <2>1, <2>2, <2>5 DEF Inv, LastDatagram, AtMostOneUntold, Listed, signalVars
    <2> QED BY <2>3, <2>4, <2>6 DEF Inv
  <1>10. ASSUME NEW s \in targets, SendDisconnect(s)
         PROVE  Inv'
    <2>1. /\ UNCHANGED <<signalVars, tun, pc, slot, peers, nextSid>>
          /\ targets' = targets \ {s} /\ told' = told \cup {s}
      BY <1>10 DEF SendDisconnect
    <2>2. TypeOK' /\ FlagsFollowHandler' /\ NobodySleepsOn'
      BY <2>1 DEF Inv, TypeOK, FlagsFollowHandler, NobodySleepsOn, signalVars
    <2>3. \A p \in Peer : Untold(p)' <=> Untold(p)
      BY <2>1 DEF Untold
    <2>4. LastDatagram' /\ AtMostOneUntold'
      BY <2>1, <2>3 DEF Inv, LastDatagram, AtMostOneUntold, Listed, signalVars
    <2> QED BY <2>2, <2>4 DEF Inv
  <1>11. CASE AllSent \/ Join
    <2>1. UNCHANGED <<signalVars, tun, slot, sessionVars>>
      BY <1>11 DEF AllSent, Join
    <2>2. PICK a \in {"sending", "join"}, b \in {"join", "ended"} : Go("main", a, b)
      BY <1>11 DEF AllSent, Join
    <2>3. /\ pc' \in [Thread -> Step] /\ pc["main"] = a /\ pc'["main"] = b
          /\ \A u \in Thread : u # "main" => pc'[u] = pc[u]
      BY <1>t, <2>2, GoTypes DEF Step
    <2>4. /\ \A u \in Thread : pc'[u] = "waiting" => pc[u] = "waiting" \/ ~shutdown
          /\ pc'["recv"] = "work" => pc["recv"] = "work" \/ running
          /\ pc'["main"] = "notify" => pc["main"] = "notify" \/ ~running
          /\ Listed' => Listed
      BY <2>2, <2>3 DEF Listed
    <2> QED BY <1>p, <2>1, <2>3, <2>4, QuietInv DEF signalVars
  <1>12. CASE UNCHANGED vars
    BY <1>p, <1>12, QuietInv DEF vars, sessionVars, Listed
  <1> QED BY <1>1, <1>2, <1>3, <1>4, <1>5, <1>6, <1>7, <1>8, <1>9, <1>10, <1>11,
             <1>12 DEF Next, Over

-------------------------------------------------------------------------------
(* Every variable keeps its type. *)
THEOREM TypeCorrect == Spec => []TypeOK
  BY InitInv, NextInv, PTL DEF Spec, Inv

(* No thread sleeps through the stop, however its checks of running and of *)
(* the flag interleave with the signal handler                             *)
(* (wait_for_shutdown_or_timeout).                                         *)
THEOREM NoLostWakeup == Spec => []NobodySleepsOn
  BY InitInv, NextInv, PTL DEF Spec, Inv

(* For any number of peers, a node that stops of its own accord leaves at  *)
(* most one session without a disconnect (notify_shutdown, run_receiver).  *)
THEOREM AlmostAllAreTold == Spec => []AtMostOneUntold
  BY InitInv, NextInv, PTL DEF Spec, Inv

-------------------------------------------------------------------------------
(* The refinement. *)

Live == {t \in Thread : pc[t] # "ended"}

(* A step that ends no thread and leaves running alone is a stutter. *)
LEMMA SameThreads ==
  ASSUME UNCHANGED running, \A t \in Thread : pc'[t] = "ended" <=> pc[t] = "ended"
  PROVE  UNCHANGED <<~running, Live>>
  BY DEF Live

(* A thread that moves on without ending leaves the set of live threads alone. *)
LEMMA GoOn ==
  ASSUME TypeOK, NEW t \in Thread, NEW a \in Step \ {"ended"},
         NEW b \in Step \ {"ended"}, Go(t, a, b), UNCHANGED running
  PROVE  UNCHANGED <<~running, Live>>
  BY SameThreads DEF Go, TypeOK

(* Every step is one of GracefulStop or changes nothing it sees. *)
LEMMA StepRefines ==
  ASSUME Inv, [Next]_vars
  PROVE  [GS!Next]_<<~running, Live>>
  <1> USE ThreadNames
  <1>t. TypeOK
    BY DEF Inv
  <1>1. CASE Signal
    <2>1. GS!RequestStop
      BY <1>1 DEF Signal, GS!RequestStop, Inv, FlagsFollowHandler
    <2> QED BY <2>1 DEF GS!Next
  <1>2. CASE SetFlag
    BY <1>2, <1>t, SameThreads DEF SetFlag, TypeOK
  <1>3. CASE Kill
    <2>1. GS!Abort
      BY <1>3 DEF Kill, GS!Abort, Inv, FlagsFollowHandler
    <2> QED BY <2>1 DEF GS!Next
  <1>4. ASSUME NEW t \in Thread, Top(t)
        PROVE  [GS!Next]_<<~running, Live>>
    <2>1. UNCHANGED running
      BY <1>4 DEF Top, signalVars
    <2>2. CASE ~running /\ t # "main"
      <3>1. Go(t, "top", "ended")
        BY <1>4, <2>2 DEF Top
      <3>2. t \in Live /\ Live' = Live \ {t}
        BY <1>t, <3>1 DEF Go, TypeOK, Live
      <3>3. GS!End(t)
        BY <2>1, <2>2, <3>2 DEF GS!End, Live
      <3> QED BY <3>3 DEF GS!Next
    <2>3. CASE running \/ t = "main"
      <3>1. Go(t, "top", "work") \/ Go(t, "top", "notify")
        BY <1>4, <2>3 DEF Top
      <3> QED BY <1>t, <2>1, <3>1, GoOn DEF Step
    <2> QED BY <2>2, <2>3
  <1>5. ASSUME NEW t \in Thread, Wait(t) \/ Wake(t)
        PROVE  [GS!Next]_<<~running, Live>>
    <2>1. UNCHANGED running
      BY <1>5 DEF Wait, Wake, signalVars
    <2>2. Go(t, "wait", "top") \/ Go(t, "wait", "waiting") \/ Go(t, "waiting", "top")
      BY <1>5 DEF Wait, Wake
    <2> QED BY <1>t, <2>1, <2>2, GoOn DEF Step
  <1>6. CASE PunchWork \/ MainWork \/ ReceiveWork
             \/ (\E D \in SUBSET Peer : MaintenanceWork(D))
    <2>1. UNCHANGED running
      BY <1>6 DEF PunchWork, MainWork, ReceiveWork, MaintenanceWork, signalVars
    <2>2. PICK t \in Thread, b \in {"work", "wait", "top"} : Go(t, "work", b)
      BY <1>6 DEF PunchWork, MainWork, ReceiveWork, MaintenanceWork
    <2> QED BY <1>t, <2>1, <2>2, GoOn DEF Step
  <1>7. CASE Notify \/ AllSent
    <2>1. UNCHANGED running
      BY <1>7 DEF Notify, AllSent, signalVars
    <2>2. Go("main", "notify", "sending") \/ Go("main", "sending", "join")
      BY <1>7 DEF Notify, AllSent
    <2> QED BY <1>t, <2>1, <2>2, GoOn DEF Step
  <1>8. CASE Join
    <2>1. UNCHANGED running /\ Go("main", "join", "ended")
      BY <1>8 DEF Join, signalVars
    <2>2. Live = {"main"} /\ Live' = {}
      BY <1>8, <1>t, <2>1 DEF Join, Go, TypeOK, Live
    <2>3. ~running
      BY <1>t, <2>1 DEF Inv, LastDatagram, Listed, Go
    <2>4. GS!End("main")
      BY <2>1, <2>2, <2>3 DEF GS!End, Live
    <2> QED BY <2>4 DEF GS!Next
  <1>9. ASSUME NEW s \in targets, SendDisconnect(s)
        PROVE  [GS!Next]_<<~running, Live>>
    BY <1>9, SameThreads DEF SendDisconnect, signalVars
  <1>10. CASE UNCHANGED vars
    BY <1>10, SameThreads DEF vars
  <1> QED BY <1>1, <1>2, <1>3, <1>4, <1>5, <1>6, <1>7, <1>8, <1>9, <1>10 DEF Next, Over

(* The daemon's threads, flags and condition variable implement the        *)
(* graceful stop: nothing ends before a signal, and main ends last unless  *)
(* a second signal ends all at once (main, install_signal_handler).        *)
THEOREM StopsGracefully == Spec => ImplementsGracefulStop
  <1>1. Init => GS!Init
    BY DEF Init, GS!Init
  <1>2. Inv /\ [Next]_vars => [GS!Next]_<<~running, Live>>
    BY StepRefines
  <1>3. Inv /\ [Next]_vars => [GS!Next]_<<~running, {t \in Thread : pc[t] # "ended"}>>
    BY <1>2 DEF Live
  <1> QED BY <1>1, <1>3, InitInv, NextInv, PTL DEF Spec, ImplementsGracefulStop, GS!Spec
===============================================================================

--------------------------- MODULE NodeTablesProofs ---------------------------
(***************************************************************************)
(* Proofs about NodeTables for any peers, networks and lighthouses and any *)
(* number of sessions: however the critical sections of add_peer and       *)
(* remove_peer interleave, the receive index and the tables of a peer that *)
(* is left alone stay right.                                               *)
(***************************************************************************)
EXTENDS NodeTables, TLAPS

Jobs == [step : Steps, peer : Peer \cup {NoPeer}, addr : Addr \cup {NoAddr},
         sid : Nat, old : Nat]

(* A session id belongs to one session: two peers never share one, and     *)
(* what is being taken off the index is no peer's current session.         *)
SidsApart ==
    /\ nextSid # 0 /\ \A p \in Peer : peers[p] < nextSid
    /\ \A p, q \in Peer : p # q /\ peers[p] # 0 => peers[p] # peers[q]
    /\ \A t \in Thread : job[t].step = "del_rx" =>
          /\ job[t].sid # 0 /\ job[t].sid < nextSid
          /\ \A p \in Peer : peers[p] # job[t].sid
    /\ job["recv"].step = "add_rx" =>
          /\ peers[job["recv"].peer] \in {0, job["recv"].sid}
          /\ job["recv"].old < nextSid
          /\ \A p \in Peer : peers[p] = 0 \/ peers[p] # job["recv"].old

(* The steps of add_peer that a thread has behind it show in the tables. *)
Progress ==
    \A p \in undisturbed :
        /\ peers[p] # 0 /\ ~Removing(p)
        /\ Adding(p) => /\ job["recv"].step \in {"add_kernel", "bind"} =>
                              \A n \in NetsOf[p] : routes[n] = p
                        /\ job["recv"].step = "bind" => NetsOf[p] \subseteq kernel
        /\ ~Adding(p) => \A n \in NetsOf[p] : routes[n] = p /\ n \in kernel

(* A peer that is being added is reached at the address in hand. *)
AddedAtItsAddress ==
    \A p \in Peer : Adding(p) => job["recv"].addr \in Reaches[p]

Inv == TypeOK /\ SidsApart /\ SessionsIndexed /\ Progress /\ AddedAtItsAddress /\ SlotsMatch

(* The two threads that change the tables. *)
LEMMA ThreadNames == "recv" \in Thread /\ "maintenance" \in Thread
  BY DEF Thread

(* A thread that is idle has no peer in hand. *)
LEMMA IdleFields ==
  /\ Idle \in Jobs /\ Idle.step = "idle" /\ Idle.peer = NoPeer
  BY DEF Idle, Jobs, Steps

(* The empty tables satisfy the invariant. *)
LEMMA InitInv == Init => Inv
  <1> SUFFICES ASSUME Init PROVE Inv
    OBVIOUS
  <1>1. \A t \in Thread : job[t] = Idle
    BY DEF Init
  <1>2. TypeOK
    <2>1. job \in [Thread -> Jobs]
      BY <1>1, IdleFields DEF Init
    <2> QED BY <1>1, <2>1, IdleFields DEF Init, TypeOK, Jobs
  <1>3. SidsApart /\ SessionsIndexed /\ Progress /\ AddedAtItsAddress /\ SlotsMatch
    BY <1>1, IdleFields, ThreadNames
       DEF Init, SidsApart, SessionsIndexed, Progress, AddedAtItsAddress, Adding, SlotsMatch
  <1> QED BY <1>2, <1>3 DEF Inv

(* One thread's job moves on by a step. *)
LEMMA ProceedFields ==
  ASSUME TypeOK, NEW t \in Thread, NEW a \in Steps, NEW b \in Steps \ {"idle"},
         Proceed(t, a, b), a # "idle"
  PROVE  /\ job' \in [Thread -> Jobs]
         /\ job[t].step = a /\ job'[t].step = b /\ job[t].peer \in Peer
         /\ job'[t].peer = job[t].peer /\ job'[t].sid = job[t].sid
         /\ job'[t].old = job[t].old /\ job'[t].addr = job[t].addr
         /\ \A u \in Thread : u # t => job'[u] = job[u]
         /\ UNCHANGED <<drops, punch, nextSid, undisturbed>>
  <1>1. job[t] \in Jobs
    BY DEF TypeOK, Jobs
  <1>2. [job[t] EXCEPT !.step = b] \in Jobs
    BY <1>1 DEF Jobs
  <1> QED BY <1>1, <1>2 DEF TypeOK, Proceed, Jobs

(* One thread's job ends. *)
LEMMA FinishFields ==
  ASSUME TypeOK, NEW t \in Thread, NEW a \in Steps, Proceed(t, a, "idle"), a # "idle"
  PROVE  /\ job' \in [Thread -> Jobs]
         /\ job[t].step = a /\ job'[t] = Idle /\ job[t].peer \in Peer
         /\ \A u \in Thread : u # t => job'[u] = job[u]
         /\ UNCHANGED <<drops, punch, nextSid, undisturbed>>
  BY IdleFields DEF TypeOK, Proceed, Jobs

-------------------------------------------------------------------------------
(* Each critical section preserves the invariant. *)

(* The first section of add_peer installs the session. *)
LEMMA InstallInv ==
  ASSUME Inv, NEW p \in Peer, NEW a \in Addr, Install(p, a)
  PROVE  Inv'
  <1> USE ThreadNames, IdleFields
  <1> DEFINE R == [step |-> "add_rx", peer |-> p, addr |-> a, sid |-> nextSid, old |-> peers[p]]
  <1>1. /\ job["recv"] = Idle /\ peers' = [peers EXCEPT ![p] = nextSid]
        /\ job' = [job EXCEPT !["recv"] = R] /\ nextSid' = nextSid + 1
        /\ UNCHANGED <<rx_sessions, routes, kernel, lighthouses, address, drops, punch>>
        /\ a \in Reaches[p]
        /\ undisturbed' = IF Removing(p) THEN undisturbed \ {p} ELSE undisturbed \cup {p}
    BY DEF Install
  <1>2. TypeOK /\ nextSid \in Nat /\ peers[p] \in Nat
    BY DEF Inv, TypeOK
  <1>3. /\ R \in Jobs /\ R.step = "add_rx" /\ R.peer = p
        /\ R.sid = nextSid /\ R.old = peers[p] /\ R.addr = a
    BY <1>2 DEF Jobs, Steps
  <1> HIDE DEF R
  <1>4. /\ job' \in [Thread -> Jobs] /\ job'["recv"] = R
        /\ \A t \in Thread : t # "recv" => job'[t] = job[t]
    BY <1>1, <1>2, <1>3 DEF TypeOK, Jobs
  <1>5. /\ peers' \in [Peer -> Nat] /\ peers'[p] = nextSid
        /\ \A q \in Peer : q # p => peers'[q] = peers[q]
    BY <1>1, <1>2 DEF TypeOK
  <1>6. TypeOK'
    BY <1>1, <1>2, <1>3, <1>4, <1>5 DEF TypeOK, Jobs, punch
  <1>7. SidsApart'
    <2>0. SidsApart
      BY DEF Inv
    <2>1. nextSid' # 0 /\ \A q \in Peer : peers'[q] < nextSid'
      BY <1>1, <1>2, <1>5, <2>0 DEF SidsApart, TypeOK
    <2>2. \A q, r \in Peer : q # r /\ peers'[q] # 0 => peers'[q] # peers'[r]
      BY <1>2, <1>5, <2>0 DEF SidsApart, TypeOK
    <2>3. \A t \in Thread : job'[t].step = "del_rx" =>
             /\ job'[t].sid # 0 /\ job'[t].sid < nextSid'
             /\ \A q \in Peer : peers'[q] # job'[t].sid
      <3> SUFFICES ASSUME NEW t \in Thread, job'[t].step = "del_rx"
                   PROVE  /\ job'[t].sid # 0 /\ job'[t].sid < nextSid'
                          /\ \A q \in Peer : peers'[q] # job'[t].sid
        OBVIOUS
      <3>1. job'[t] = job[t] /\ job[t].sid \in Nat
        BY <1>2, <1>3, <1>4 DEF TypeOK, Jobs
      <3> QED BY <1>1, <1>2, <1>5, <2>0, <3>1 DEF SidsApart, TypeOK
    <2>4. /\ peers'[R.peer] = R.sid /\ R.old < nextSid'
          /\ \A q \in Peer : peers'[q] = 0 \/ peers'[q] # R.old
      BY <1>1, <1>2, <1>3, <1>5, <2>0 DEF SidsApart, TypeOK
    <2> QED BY <1>4, <2>1, <2>2, <2>3, <2>4 DEF SidsApart
  <1>8. SessionsIndexed'
    BY <1>1, <1>3, <1>4, <1>5 DEF Inv, SessionsIndexed, Adding
  <1>9. \A q \in Peer : Removing(q)' <=> Removing(q)
    BY <1>1, <1>3, <1>4 DEF Removing
  <1>10. \A q \in Peer : ~Adding(q) /\ (Adding(q)' <=> q = p)
    BY <1>1, <1>3, <1>4 DEF Adding
  <1>11. Progress'
    <2> DEFINE Fine(q) ==
          /\ peers[q] # 0 /\ ~Removing(q)
          /\ Adding(q) => /\ job["recv"].step \in {"add_kernel", "bind"} =>
                               \A n \in NetsOf[q] : routes[n] = q
                          /\ job["recv"].step = "bind" => NetsOf[q] \subseteq kernel
          /\ ~Adding(q) => \A n \in NetsOf[q] : routes[n] = q /\ n \in kernel
    <2>1. p \in undisturbed' => Fine(p)'
      BY <1>1, <1>3, <1>4, <1>5, <1>9, <1>10 DEF Inv, SidsApart
    <2>2. ASSUME NEW q \in undisturbed', q # p
          PROVE  Fine(q)'
      <3>1. q \in undisturbed /\ q \in Peer
        BY <1>1, <1>2, <2>2 DEF TypeOK
      <3>2. peers[q] # 0 /\ ~Removing(q) /\ ~Adding(q)
        BY <1>10, <3>1 DEF Inv, Progress
      <3>3. \A n \in NetsOf[q] : routes[n] = q /\ n \in kernel
        BY <3>1, <3>2 DEF Inv, Progress
      <3> QED BY <1>1, <1>5, <1>9, <1>10, <2>2, <3>1, <3>2, <3>3
    <2> QED BY <2>1, <2>2 DEF Progress
  <1>12. AddedAtItsAddress' /\ SlotsMatch'
    BY <1>1, <1>3, <1>4, <1>10 DEF Inv, AddedAtItsAddress, SlotsMatch
  <1> QED BY <1>6, <1>7, <1>8, <1>11, <1>12 DEF Inv

(* The first section of remove_peer takes the session out. *)
LEMMA RemovePeerInv ==
  ASSUME Inv, NEW t \in Thread, NEW p \in Peer, RemovePeer(t, p),
         drops' \subseteq Peer \X Nat
  PROVE  Inv'
  <1> USE ThreadNames, IdleFields
  <1> DEFINE R == [step |-> "del_rx", peer |-> p, addr |-> NoAddr, sid |-> peers[p], old |-> 0]
  <1>1. /\ job[t] = Idle /\ peers' = [peers EXCEPT ![p] = 0]
        /\ undisturbed' = undisturbed \ {p}
        /\ job' = IF peers[p] = 0 THEN job ELSE [job EXCEPT ![t] = R]
        /\ UNCHANGED <<rx_sessions, routes, kernel, lighthouses, address, punch, nextSid>>
    BY DEF RemovePeer
  <1>2. TypeOK /\ SidsApart /\ peers[p] \in Nat
    BY DEF Inv, TypeOK
  <1>3. R \in Jobs /\ R.step = "del_rx" /\ R.peer = p /\ R.sid = peers[p]
    BY <1>2 DEF Jobs, Steps
  <1> HIDE DEF R
  <1>4. /\ job' \in [Thread -> Jobs]
        /\ job'[t] = job[t] \/ (job'[t] = R /\ peers[p] # 0)
        /\ \A u \in Thread : u # t => job'[u] = job[u]
    BY <1>1, <1>2, <1>3 DEF TypeOK, Jobs
  <1>5. /\ peers' \in [Peer -> Nat] /\ peers'[p] = 0
        /\ \A q \in Peer : q # p => peers'[q] = peers[q]
    BY <1>1, <1>2 DEF TypeOK
  <1>6. TypeOK'
    BY <1>1, <1>2, <1>3, <1>4, <1>5 DEF TypeOK, Jobs, punch
  <1>7. SidsApart'
    <2>1. nextSid' # 0 /\ \A q \in Peer : peers'[q] < nextSid'
      BY <1>1, <1>2, <1>5 DEF SidsApart, TypeOK
    <2>2. \A q, r \in Peer : q # r /\ peers'[q] # 0 => peers'[q] # peers'[r]
      BY <1>2, <1>5 DEF SidsApart, TypeOK
    <2>3. \A u \in Thread : job'[u].step = "del_rx" =>
             /\ job'[u].sid # 0 /\ job'[u].sid < nextSid'
             /\ \A q \in Peer : peers'[q] # job'[u].sid
      <3> SUFFICES ASSUME NEW u \in Thread, job'[u].step = "del_rx"
                   PROVE  /\ job'[u].sid # 0 /\ job'[u].sid < nextSid'
                          /\ \A q \in Peer : peers'[q] # job'[u].sid
        OBVIOUS
      <3>1. CASE job'[u] = job[u]
        BY <1>1, <1>2, <1>5, <3>1 DEF SidsApart
      <3>2. CASE job'[u] = R /\ peers[p] # 0
        BY <1>1, <1>2, <1>3, <1>5, <3>2 DEF SidsApart
      <3> QED BY <1>4, <3>1, <3>2
    <2>4. job'["recv"].step = "add_rx" =>
             /\ peers'[job'["recv"].peer] \in {0, job'["recv"].sid}
             /\ job'["recv"].old < nextSid'
             /\ \A q \in Peer : peers'[q] = 0 \/ peers'[q] # job'["recv"].old
      <3> SUFFICES ASSUME job'["recv"].step = "add_rx"
                   PROVE  /\ peers'[job'["recv"].peer] \in {0, job'["recv"].sid}
                          /\ job'["recv"].old < nextSid'
                          /\ \A q \in Peer : peers'[q] = 0 \/ peers'[q] # job'["recv"].old
        OBVIOUS
      <3>1. job'["recv"] = job["recv"] /\ job["recv"].peer \in Peer
        BY <1>2, <1>3, <1>4 DEF TypeOK
      <3> QED BY <1>1, <1>2, <1>5, <3>1 DEF SidsApart
    <2> QED BY <2>1, <2>2, <2>3, <2>4 DEF SidsApart
  <1>8. \A q \in Peer : Adding(q)' <=> Adding(q)
    BY <1>1, <1>3, <1>4 DEF Adding
  <1>9. job["recv"].step = "add_rx" => job'["recv"].step = "add_rx"
    BY <1>1, <1>4
  <1>10. SessionsIndexed'
    BY <1>1, <1>5, <1>8, <1>9 DEF Inv, SessionsIndexed
  <1>11. \A q \in Peer : q # p => (Removing(q)' <=> Removing(q))
    BY <1>1, <1>3, <1>4 DEF Removing
  <1>12. \A q \in Peer : Adding(q) => job'["recv"] = job["recv"]
    BY <1>1, <1>4 DEF Adding
  <1>13. Progress'
    BY <1>1, <1>2, <1>5, <1>6, <1>8, <1>11, <1>12 DEF Inv, Progress, TypeOK
  <1>14. AddedAtItsAddress' /\ SlotsMatch'
    BY <1>1, <1>8, <1>12 DEF Inv, AddedAtItsAddress, SlotsMatch
  <1> QED BY <1>6, <1>7, <1>10, <1>13, <1>14 DEF Inv

(* Past its first step a job no longer matters to the session ids. *)
LEMMA StepSids ==
  ASSUME SidsApart, NEW t \in Thread, job'[t].step \notin {"add_rx", "del_rx"},
         \A u \in Thread : u # t => job'[u] = job[u], UNCHANGED <<peers, nextSid>>
  PROVE  SidsApart'
  BY ThreadNames DEF SidsApart

(* The later sections of add_peer. *)
LEMMA AddStepInv == Inv /\ AddStep => Inv'
  <1> SUFFICES ASSUME Inv, AddStep PROVE Inv'
    OBVIOUS
  <1> USE ThreadNames, IdleFields
  <1> DEFINE j == job["recv"]
  <1>t. TypeOK /\ SidsApart
    BY DEF Inv
  <1>n. NetsOf \in [Peer -> SUBSET Net]
        /\ \A p, q \in Peer : p # q => NetsOf[p] \cap NetsOf[q] = {}
    BY NetsAssumption
  <1>1. CASE Proceed("recv", "add_rx", "add_routes") /\ AddRxSession(j)
    <2>1. /\ job' \in [Thread -> Jobs] /\ j.step = "add_rx" /\ j.peer \in Peer
          /\ job'["recv"].step = "add_routes" /\ job'["recv"].peer = j.peer
          /\ job'["recv"].addr = j.addr
          /\ \A u \in Thread : u # "recv" => job'[u] = job[u]
          /\ UNCHANGED <<drops, punch, nextSid, undisturbed>>
      BY <1>1, <1>t, ProceedFields DEF Steps
    <2>2. /\ rx_sessions' = {r \in rx_sessions : r[1] # j.old} \cup {<<j.sid, j.peer>>}
          /\ UNCHANGED <<peers, routes, kernel, lighthouses, address>>
      BY <1>1 DEF AddRxSession
    <2>3. j.sid \in Nat
      BY <1>t DEF TypeOK
    <2>4. TypeOK'
      BY <1>t, <2>1, <2>2, <2>3 DEF TypeOK, Jobs, punch
    <2>5. SidsApart'
      BY <1>t, <2>1, <2>2, StepSids
    <2>6. \A q \in Peer : /\ Adding(q)' <=> Adding(q)
                          /\ Removing(q)' <=> Removing(q)
      BY <2>1 DEF Adding, Removing
    <2>7. SessionsIndexed'
      <3> SUFFICES ASSUME NEW q \in Peer, peers[q] # 0
                   PROVE  <<peers[q], q>> \in rx_sessions'
        BY <2>2 DEF SessionsIndexed
      <3>1. CASE q = j.peer
        BY <1>t, <2>1, <2>2, <3>1 DEF SidsApart
      <3>2. CASE q # j.peer
        <4>1. <<peers[q], q>> \in rx_sessions
          BY <3>2 DEF Inv, SessionsIndexed, Adding
        <4>2. peers[q] # j.old
          BY <1>t, <2>1 DEF SidsApart
        <4> QED BY <2>2, <4>1, <4>2
      <3> QED BY <3>1, <3>2
    <2>8. Progress'
      BY <1>t, <2>1, <2>2, <2>6 DEF Inv, Progress, TypeOK
    <2>12. AddedAtItsAddress' /\ SlotsMatch'
      BY <2>1, <2>2, <2>6 DEF Inv, AddedAtItsAddress, SlotsMatch
    <2> QED BY <2>4, <2>5, <2>7, <2>8, <2>12 DEF Inv
  <1>2. CASE Proceed("recv", "add_routes", "add_kernel") /\ AddRoutes(j)
    <2>1. /\ job' \in [Thread -> Jobs] /\ j.step = "add_routes" /\ j.peer \in Peer
          /\ job'["recv"].step = "add_kernel" /\ job'["recv"].peer = j.peer
          /\ job'["recv"].addr = j.addr
          /\ \A u \in Thread : u # "recv" => job'[u] = job[u]
          /\ UNCHANGED <<drops, punch, nextSid, undisturbed>>
      BY <1>2, <1>t, ProceedFields DEF Steps
    <2>2. /\ routes' = [n \in Net |-> IF n \in NetsOf[j.peer] THEN j.peer ELSE routes[n]]
          /\ UNCHANGED <<peers, rx_sessions, kernel, lighthouses, address>>
      BY <1>2 DEF AddRoutes
    <2>3. routes' \in [Net -> Peer \cup {NoPeer}]
      BY <1>t, <2>1, <2>2 DEF TypeOK
    <2>4. TypeOK'
      BY <1>t, <2>1, <2>2, <2>3, SMTT(30) DEF TypeOK, Jobs, punch
    <2>5. SidsApart'
      BY <1>t, <2>1, <2>2, StepSids
    <2>6. \A q \in Peer : /\ Adding(q)' <=> Adding(q)
                          /\ Removing(q)' <=> Removing(q)
      BY <2>1 DEF Adding, Removing
    <2>7. SessionsIndexed'
      BY <2>1, <2>2, <2>6 DEF Inv, SessionsIndexed
    <2>8. \A n \in NetsOf[j.peer] : routes'[n] = j.peer
      BY <1>n, <2>1, <2>2
    <2>9. \A q \in Peer : q # j.peer => \A n \in NetsOf[q] : routes'[n] = routes[n]
      BY <1>n, <2>1, <2>2
    <2>10. \A q \in Peer : Adding(q) <=> q = j.peer
      BY <2>1 DEF Adding
    <2>11. Progress'
      BY <1>t, <2>1, <2>2, <2>6, <2>8, <2>9, <2>10, ZenonT(30) DEF Inv, Progress, TypeOK
    <2>12. AddedAtItsAddress' /\ SlotsMatch'
      BY <2>1, <2>2, <2>6 DEF Inv, AddedAtItsAddress, SlotsMatch
    <2> QED BY <2>4, <2>5, <2>7, <2>11, <2>12 DEF Inv
  <1>3. CASE Proceed("recv", "add_kernel", "bind") /\ AddKernelRoutes(j)
    <2>1. /\ job' \in [Thread -> Jobs] /\ j.step = "add_kernel" /\ j.peer \in Peer
          /\ job'["recv"].step = "bind" /\ job'["recv"].peer = j.peer
          /\ job'["recv"].addr = j.addr
          /\ \A u \in Thread : u # "recv" => job'[u] = job[u]
          /\ UNCHANGED <<drops, punch, nextSid, undisturbed>>
      BY <1>3, <1>t, ProceedFields DEF Steps
    <2>2. /\ kernel' = kernel \cup NetsOf[j.peer]
          /\ UNCHANGED <<peers, rx_sessions, routes, lighthouses, address>>
      BY <1>3 DEF AddKernelRoutes
    <2>4. TypeOK'
      BY <1>t, <1>n, <2>1, <2>2 DEF TypeOK, Jobs, punch
    <2>5. SidsApart'
      BY <1>t, <2>1, <2>2, StepSids
    <2>6. \A q \in Peer : /\ Adding(q)' <=> Adding(q)
                          /\ Removing(q)' <=> Removing(q)
      BY <2>1 DEF Adding, Removing
    <2>7. SessionsIndexed'
      BY <2>1, <2>2, <2>6 DEF Inv, SessionsIndexed
    <2>10. \A q \in Peer : Adding(q) <=> q = j.peer
      BY <2>1 DEF Adding
    <2>11. Progress'
      BY <1>t, <2>1, <2>2, <2>6, <2>10 DEF Inv, Progress, TypeOK
    <2>12. AddedAtItsAddress' /\ SlotsMatch'
      BY <2>1, <2>2, <2>6 DEF Inv, AddedAtItsAddress, SlotsMatch
    <2> QED BY <2>4, <2>5, <2>7, <2>11, <2>12 DEF Inv
  <1>4. CASE Proceed("recv", "bind", "idle") /\ BindLighthouse(j)
    <2>1. /\ job' \in [Thread -> Jobs] /\ j.step = "bind" /\ j.peer \in Peer
          /\ job'["recv"] = Idle
          /\ \A u \in Thread : u # "recv" => job'[u] = job[u]
          /\ UNCHANGED <<drops, punch, nextSid, undisturbed>>
      BY <1>4, <1>t, FinishFields DEF Steps
    <2>2. /\ lighthouses' = [s \in Slot |->
                IF address[s] = j.addr \/ j.peer \in Named[s] THEN j.peer ELSE lighthouses[s]]
          /\ UNCHANGED <<peers, rx_sessions, routes, kernel, address>>
      BY <1>4 DEF BindLighthouse
    <2>4. TypeOK'
      BY <1>t, <2>1, <2>2 DEF TypeOK, Jobs, punch
    <2>5. SidsApart'
      BY <1>t, <2>1, <2>2, StepSids
    <2>6. \A q \in Peer : /\ ~Adding(q)' /\ (Adding(q) <=> q = j.peer)
                          /\ Removing(q)' <=> Removing(q)
      BY <2>1 DEF Adding, Removing
    <2>7. SessionsIndexed'
      BY <2>1, <2>2 DEF Inv, SessionsIndexed
    <2>11. Progress'
      BY <1>t, <2>1, <2>2, <2>6 DEF Inv, Progress, TypeOK
    <2>12. AddedAtItsAddress' /\ SlotsMatch'
      <3>1. j.addr \in Reaches[j.peer]
        BY <2>1, <2>6 DEF Inv, AddedAtItsAddress
      <3> QED BY <2>2, <2>6, <3>1 DEF Inv, AddedAtItsAddress, SlotsMatch
    <2> QED BY <2>4, <2>5, <2>7, <2>11, <2>12 DEF Inv
  <1> QED BY <1>1, <1>2, <1>3, <1>4 DEF AddStep

(* What remove_peer touches belongs to a peer whose session was disturbed. *)
LEMMA RemoveStepInv ==
  ASSUME Inv, NEW t \in Thread, RemoveStep(t)
  PROVE  Inv'
  <1> USE ThreadNames, IdleFields
  <1> DEFINE j == job[t]
  <1>t. TypeOK /\ SidsApart /\ SessionsIndexed
    BY DEF Inv
  <1>n. NetsOf \in [Peer -> SUBSET Net]
        /\ \A p, q \in Peer : p # q => NetsOf[p] \cap NetsOf[q] = {}
    BY NetsAssumption
  <1>1. /\ job' \in [Thread -> Jobs] /\ j.peer \in Peer
        /\ j.step \in {"del_rx", "del_routes", "unbind", "del_kernel"}
        /\ job'[t].step \in {"del_routes", "unbind", "del_kernel", "idle"}
        /\ job'[t].step # "idle" => job'[t].peer = j.peer
        /\ \A u \in Thread : u # t => job'[u] = job[u]
        /\ UNCHANGED <<peers, address, drops, punch, nextSid, undisturbed>>
    <2>1. CASE Proceed(t, "del_rx", "del_routes") /\ DelRxSession(j)
      BY <2>1, <1>t, ProceedFields DEF Steps, DelRxSession
    <2>2. CASE Proceed(t, "del_routes", "unbind") /\ DelRoutes(j)
      BY <2>2, <1>t, ProceedFields DEF Steps, DelRoutes
    <2>3. CASE Proceed(t, "unbind", "del_kernel") /\ UnbindLighthouse(j)
      BY <2>3, <1>t, ProceedFields DEF Steps, UnbindLighthouse
    <2>4. CASE Proceed(t, "del_kernel", "idle") /\ DelKernelRoutes(j)
      BY <2>4, <1>t, FinishFields DEF Steps, DelKernelRoutes
    <2> QED BY <2>1, <2>2, <2>3, <2>4 DEF RemoveStep
  <1>2. \A q \in Peer : (Adding(q)' <=> Adding(q)) /\ (Removing(q)' => Removing(q))
    BY <1>1 DEF Adding, Removing
  <1>3. \A q \in Peer : Adding(q) => job'["recv"] = job["recv"]
    BY <1>1 DEF Adding
  <1>4. \A q \in undisturbed : q \in Peer /\ q # j.peer
    BY <1>1, <1>t DEF Inv, Progress, Removing, TypeOK
  <1>5. SidsApart'
    BY <1>t, <1>1, StepSids
  <1>6. \/ /\ rx_sessions' = {r \in rx_sessions : r[1] # j.sid} /\ j.step = "del_rx"
           /\ UNCHANGED <<routes, kernel, lighthouses>>
        \/ /\ routes' = [n \in Net |-> IF routes[n] = j.peer THEN NoPeer ELSE routes[n]]
           /\ UNCHANGED <<rx_sessions, kernel, lighthouses>>
        \/ /\ lighthouses' = [s \in Slot |->
                 IF lighthouses[s] = j.peer THEN NoPeer ELSE lighthouses[s]]
           /\ UNCHANGED <<rx_sessions, routes, kernel>>
        \/ /\ kernel' = kernel \ NetsOf[j.peer]
           /\ UNCHANGED <<rx_sessions, routes, lighthouses>>
    BY DEF RemoveStep, Proceed, DelRxSession, DelRoutes, UnbindLighthouse, DelKernelRoutes
  <1>7. /\ rx_sessions' \subseteq rx_sessions /\ routes' \in [Net -> Peer \cup {NoPeer}]
        /\ kernel' \subseteq kernel /\ lighthouses' \in [Slot -> Peer \cup {NoPeer}]
        /\ \A s \in Slot : lighthouses'[s] \in {NoPeer, lighthouses[s]}
    BY <1>t, <1>6 DEF TypeOK
  <1>8. TypeOK'
    BY <1>t, <1>1, <1>7 DEF TypeOK, Jobs, punch
  <1>9. SessionsIndexed'
    <2> SUFFICES ASSUME NEW q \in Peer, peers[q] # 0, <<peers[q], q>> \in rx_sessions
                 PROVE  <<peers[q], q>> \in rx_sessions'
      BY <1>t, <1>1, <1>2, <1>3 DEF SessionsIndexed
    <2> QED BY <1>t, <1>6 DEF SidsApart
  <1>10. \A q \in undisturbed :
            /\ \A n \in NetsOf[q] : routes[n] = q => routes'[n] = q
            /\ \A n \in NetsOf[q] : n \in kernel => n \in kernel'
    BY <1>n, <1>1, <1>4, <1>6
  <1>11. Progress'
    <2> SUFFICES ASSUME NEW q \in undisturbed
                 PROVE  (/\ peers[q] # 0 /\ ~Removing(q)
                         /\ Adding(q) => /\ job["recv"].step \in {"add_kernel", "bind"} =>
                                              \A n \in NetsOf[q] : routes[n] = q
                                         /\ job["recv"].step = "bind" => NetsOf[q] \subseteq kernel
                         /\ ~Adding(q) => \A n \in NetsOf[q] : routes[n] = q /\ n \in kernel)'
      BY <1>1 DEF Progress
    <2>1. q \in Peer
      BY <1>4
    <2>2. CASE Adding(q)
      BY <1>1, <1>2, <1>3, <1>10, <2>1, <2>2 DEF Inv, Progress
    <2>3. CASE ~Adding(q)
      BY <1>1, <1>2, <1>10, <2>1, <2>3 DEF Inv, Progress
    <2> QED BY <2>2, <2>3
  <1>12. AddedAtItsAddress' /\ SlotsMatch'
    BY <1>1, <1>2, <1>3, <1>7 DEF Inv, AddedAtItsAddress, SlotsMatch
  <1> QED BY <1>5, <1>8, <1>9, <1>11, <1>12 DEF Inv

(* Every critical section keeps the invariant. *)
LEMMA NextInv == Inv /\ [Next]_vars => Inv'
  <1> SUFFICES ASSUME Inv, [Next]_vars PROVE Inv'
    OBVIOUS
  <1>t. TypeOK
    BY DEF Inv
  <1>1. ASSUME NEW p \in Peer, NEW a \in Addr, Install(p, a) PROVE Inv'
    BY <1>1, InstallInv
  <1>2. ASSUME NEW p \in Peer, Disconnected(p) PROVE Inv'
    BY <1>2, <1>t, RemovePeerInv, ThreadNames DEF Disconnected, TypeOK
  <1>3. ASSUME NEW d \in drops, DropDecided(d) PROVE Inv'
    <2>1. d[1] \in Peer /\ drops' \subseteq Peer \X Nat
      BY <1>3, <1>t DEF DropDecided, TypeOK
    <2> QED BY <1>3, <2>1, RemovePeerInv, ThreadNames DEF DropDecided
  <1>4. CASE UNCHANGED <<peers, rx_sessions, routes, kernel, job, nextSid, undisturbed>>
             /\ lighthouses' \in [Slot -> Peer \cup {NoPeer}] /\ address' \in [Slot -> Addr]
             /\ drops' \subseteq Peer \X Nat /\ checking' \in BOOLEAN
             /\ cloned' \in [Slot -> Peer \cup {NoPeer}] /\ dialing' \subseteq Slot
             /\ \A s \in Slot : \/ lighthouses'[s] = NoPeer
                                \/ lighthouses'[s] = lighthouses[s] /\ address'[s] = address[s]
    <2>1. TypeOK' /\ SidsApart'
      BY <1>4 DEF Inv, TypeOK, SidsApart
    <2>2. \A p : (Adding(p)' <=> Adding(p)) /\ (Removing(p)' <=> Removing(p))
      BY <1>4 DEF Adding, Removing
    <2>3. SessionsIndexed' /\ Progress' /\ AddedAtItsAddress' /\ SlotsMatch'
      BY <1>4, <2>2 DEF Inv, SessionsIndexed, Progress, AddedAtItsAddress, SlotsMatch
    <2> QED BY <2>1, <2>3 DEF Inv
  <1>5. ASSUME NEW s \in Slot, NEW a \in Addr, Refresh(s, a) PROVE Inv'
    <2>1. /\ address' = [address EXCEPT ![s] = a] /\ address \in [Slot -> Addr]
          /\ lighthouses \in [Slot -> Peer \cup {NoPeer}] /\ dialing' \subseteq Slot
          /\ lighthouses' = IF a = address[s] THEN lighthouses
                            ELSE [lighthouses EXCEPT ![s] = NoPeer]
      BY <1>5, <1>t DEF Refresh, TypeOK
    <2>2. /\ lighthouses' \in [Slot -> Peer \cup {NoPeer}] /\ address' \in [Slot -> Addr]
          /\ \A r \in Slot : \/ lighthouses'[r] = NoPeer
                             \/ lighthouses'[r] = lighthouses[r] /\ address'[r] = address[r]
      <3>1. CASE a = address[s]
        BY <2>1, <3>1
      <3>2. CASE a # address[s]
        <4>1. lighthouses' = [lighthouses EXCEPT ![s] = NoPeer]
          BY <2>1, <3>2
        <4> QED BY <2>1, <4>1
      <3> QED BY <3>1, <3>2
    <2>3. UNCHANGED <<peers, rx_sessions, routes, kernel, job, drops, checking, cloned,
                      nextSid, undisturbed>>
      BY <1>5 DEF Refresh
    <2> QED BY <1>4, <1>t, <2>1, <2>2, <2>3 DEF TypeOK
  <1>6. ASSUME NEW D \in SUBSET Peer, DecideDrops(D) PROVE Inv'
    BY <1>4, <1>6, <1>t DEF DecideDrops, tables, punch, TypeOK
  <1>7. CASE CloneSlots \/ SeeUnconnected
    BY <1>4, <1>7, <1>t DEF CloneSlots, SeeUnconnected, tables, TypeOK
  <1>8. CASE UNCHANGED vars
    BY <1>4, <1>8, <1>t DEF vars, tables, punch, TypeOK
  <1> QED BY <1>1, <1>2, <1>3, <1>5, <1>6, <1>7, <1>8, AddStepInv, RemoveStepInv DEF Next

-------------------------------------------------------------------------------
(* Every table keeps its type. *)
THEOREM TypeCorrect == Spec => []TypeOK
  BY InitInv, NextInv, PTL DEF Spec, Inv

(* A session add_peer has indexed can be received on for as long as it is  *)
(* in the peers table, whatever removals of its predecessors are under way *)
(* on the two threads (add_peer, remove_peer).                             *)
THEOREM SessionsStayIndexed == Spec => []SessionsIndexed
  BY InitInv, NextInv, PTL DEF Spec, Inv

(* A slot's peer has its name or is reached at its address, however long   *)
(* the punch thread resolves (bind_lighthouse, refresh_lighthouse_address). *)
THEOREM SlotsAlwaysMatch == Spec => []SlotsMatch
  BY InitInv, NextInv, PTL DEF Spec, Inv

(* An add_peer that no removal of the same peer overlaps leaves the        *)
(* sessions, the index and the routes right, whatever state earlier        *)
(* overlaps had left them in, and they stay right until it is removed.     *)
THEOREM AddsAreWhole == Spec => []AddedWhole
  <1>1. Inv => AddedWhole
    BY DEF Inv, Progress, AddedWhole, SessionsIndexed, TypeOK
  <1> QED BY InitInv, NextInv, <1>1, PTL DEF Spec
===============================================================================

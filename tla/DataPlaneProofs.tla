---------------------------- MODULE DataPlaneProofs ---------------------------
(***************************************************************************)
(* Proofs about Enrolment, RouteTable and DataPlane, for any nodes,        *)
(* addresses, networks, lifetimes and bounds, and any order of commands,   *)
(* restarts, handshakes and disconnections.                                *)
(***************************************************************************)
EXTENDS DataPlane, Functions, FiniteSetTheorems, WellFoundedInduction, TLAPS

-------------------------------------------------------------------------------
(* Folds over finite sets.  Induction takes the form of a least            *)
(* counterexample: the library's induction theorems have an operator as a  *)
(* parameter, its minimum theorem has not.                                 *)

(* A set of numbers has a least one. *)
LEMMA LeastNumber ==
  ASSUME NEW T \in SUBSET Nat, T # {}
  PROVE  \E x \in T : \A y \in T : x <= y
  <1> DEFINE R == {ss \in Nat \X Nat : ss[1] < ss[2]}
  <1>1. IsWellFoundedOn(R, Nat)
    BY NatLessThanWellFounded DEF OpToRel
  <1>2. \A x, y \in Nat : <<y, x>> \in R <=> y < x
    OBVIOUS
  <1> HIDE DEF R
  <1>3. PICK x \in T : \A y \in T : ~(<<y, x>> \in R)
    BY <1>1, WFMin, Zenon
  <1>4. \A y \in T : ~(y < x)
    BY <1>2, <1>3, Zenon
  <1> QED BY <1>4

(* Among finite sets there is a smallest. *)
LEMMA SmallestSet ==
  ASSUME NEW C, C # {}, \A s \in C : IsFiniteSet(s)
  PROVE  \E s \in C : \A t \in C : Cardinality(s) <= Cardinality(t)
  <1> DEFINE N == {Cardinality(s) : s \in C}
  <1>1. \A s \in C : Cardinality(s) \in Nat
    BY FS_CardinalityType
  <1>2. N \in SUBSET Nat /\ N # {}
    BY <1>1
  <1> HIDE DEF N
  <1>3. PICK n \in N : \A m \in N : n <= m
    BY <1>2, LeastNumber
  <1> QED BY <1>3 DEF N

(* Induction over the subsets of a finite set, one element at a time. *)
LEMMA SubsetInduction ==
  ASSUME NEW S, IsFiniteSet(S), NEW Good, {} \in Good,
         \A s \in SUBSET S : s # {} => \E x \in s : s \ {x} \in Good => s \in Good
  PROVE  \A s \in SUBSET S : s \in Good
  <1> DEFINE Bad == {s \in SUBSET S : s \notin Good}
  <1>1. \A s \in SUBSET S : IsFiniteSet(s)
    BY FS_Subset
  <1>2. ASSUME Bad # {} PROVE FALSE
    <2>1. PICK s \in Bad : \A t \in Bad : Cardinality(s) <= Cardinality(t)
      BY <1>1, <1>2, SmallestSet, Zenon
    <2>2. s \in SUBSET S /\ s \notin Good /\ s # {} /\ IsFiniteSet(s)
      BY <1>1, <2>1, Zenon
    <2>3. PICK x \in s : s \ {x} \in Good => s \in Good
      BY <2>2
    <2>4. s \ {x} \in Bad
      BY <2>2, <2>3
    <2>5. Cardinality(s) <= Cardinality(s \ {x})
      BY <2>1, <2>4, Zenon
    <2>6. Cardinality(s \ {x}) = Cardinality(s) - 1 /\ Cardinality(s) \in Nat
      BY <2>2, <2>3, FS_RemoveElement, FS_CardinalityType
    <2> QED BY <2>5, <2>6
  <1> QED BY <1>2

(* A finite set of numbers has a greatest. *)
LEMMA GreatestNumber ==
  ASSUME NEW T \in SUBSET Nat, IsFiniteSet(T), T # {}
  PROVE  \E x \in T : \A y \in T : y <= x
  <1> DEFINE Good == {s \in SUBSET T : s = {} \/ \E x \in s : \A y \in s : y <= x}
  <1>1. ASSUME NEW s \in SUBSET T, s # {}
        PROVE  \E x \in s : s \ {x} \in Good => s \in Good
    <2>1. PICK x \in s : TRUE
      BY <1>1, Zenon
    <2>2. ASSUME s \ {x} \in Good PROVE s \in Good
      <3>1. CASE s \ {x} = {}
        BY <2>1, <3>1
      <3>2. CASE s \ {x} # {}
        <4>1. PICK z \in s \ {x} : \A y \in s \ {x} : y <= z
          BY <2>2, <3>2, Zenon
        <4>2. (\A y \in s : y <= z) \/ (\A y \in s : y <= x)
          BY <2>1, <4>1
        <4> QED BY <2>1, <4>1, <4>2
      <3> QED BY <3>1, <3>2
    <2> QED BY <2>1, <2>2
  <1>2. {} \in Good
    OBVIOUS
  <1> HIDE DEF Good
  <1>3. T \in Good
    BY <1>1, <1>2, SubsetInduction, Zenon
  <1> QED BY <1>3, Zenon DEF Good

(* A function takes finitely many values on a finite set. *)
LEMMA FiniteImage ==
  ASSUME NEW S, IsFiniteSet(S), NEW f
  PROVE  IsFiniteSet({f[x] : x \in S})
  <1> DEFINE T == {f[x] : x \in S}
             g == [x \in S |-> f[x]]
  <1>1. g \in [S -> T] /\ \A y \in T : \E x \in S : g[x] = y
    BY Zenon
  <1> HIDE DEF T, g
  <1>2. g \in Surjection(S, T)
    BY <1>1, Zenon DEF Surjection
  <1>3. IsFiniteSet(T)
    BY <1>2, FS_Surjection, Zenon
  <1> QED BY <1>3 DEF T

-------------------------------------------------------------------------------
(* h folds S: from base, by a step for each element, in the order in which *)
(* pick takes them, as MapThenFoldSet builds it.                           *)
Picks(pick, S) == IsFiniteSet(S) /\ \A s \in SUBSET S : s # {} => pick[s] \in s

IsFold(h, S, pick, base, step) ==
  h = [s \in SUBSET S |-> IF s = {} THEN base ELSE step[<<pick[s], h[s \ {pick[s]}]>>]]

(* A finite set has a fold. *)
LEMMA FoldExists ==
  ASSUME NEW S, NEW pick, NEW base, NEW step, Picks(pick, S)
  PROVE  \E h : IsFold(h, S, pick, base, step)
  <1> USE DEF Picks
  <1> DEFINE D(n) == {s \in SUBSET S : Cardinality(s) <= n}
             Q(n) == \E h : h = [s \in D(n) |-> IF s = {} THEN base
                                                ELSE step[<<pick[s], h[s \ {pick[s]}]>>]]
             Bad == {n \in Nat : ~Q(n)}
  <1>0. \A s \in SUBSET S : IsFiniteSet(s) /\ Cardinality(s) \in Nat
    BY FS_Subset, FS_CardinalityType
  <1>1. Bad = {}
    <2> SUFFICES ASSUME Bad # {} PROVE FALSE
      BY Zenon
    <2>1. PICK n \in Bad : \A m \in Bad : n <= m
      BY LeastNumber, Zenon
    <2>2. CASE n = 0
      <3>1. \A s \in D(0) : s = {}
        BY <1>0, FS_EmptySet
      <3> DEFINE h == [s \in D(0) |-> base]
      <3>2. h = [s \in D(0) |-> IF s = {} THEN base ELSE step[<<pick[s], h[s \ {pick[s]}]>>]]
        BY <3>1, Zenon
      <3> QED BY <2>1, <2>2, <3>2, Zenon
    <2>3. CASE n # 0
      <3>0. n \in Nat /\ n - 1 \in Nat /\ n - 1 \notin Bad
        <4> HIDE DEF Q
        <4> QED BY <2>1, <2>3
      <3>1. n - 1 \in Nat /\ Q(n - 1)
        <4> HIDE DEF Q
        <4> QED BY <3>0
      <3>2. PICK g : g = [s \in D(n - 1) |-> IF s = {} THEN base
                                             ELSE step[<<pick[s], g[s \ {pick[s]}]>>]]
        BY <3>1, Zenon
      <3> DEFINE h == [s \in D(n) |-> IF s = {} THEN base ELSE step[<<pick[s], g[s \ {pick[s]}]>>]]
      <3>3. \A s \in D(n) : s # {} => s \ {pick[s]} \in D(n - 1)
        BY <1>0, <3>0, FS_RemoveElement
      <3>4. \A s \in D(n - 1) : s \in D(n)
        BY <1>0, <3>0
      <3>5. \A s \in D(n - 1) : g[s] = h[s]
        <4>1. \A s \in D(n - 1) :
                 g[s] = IF s = {} THEN base ELSE step[<<pick[s], g[s \ {pick[s]}]>>]
          <5> HIDE DEF D
          <5> QED BY <3>2, Zenon
        <4>2. \A s \in D(n) : h[s] = IF s = {} THEN base ELSE step[<<pick[s], g[s \ {pick[s]}]>>]
          <5> HIDE DEF D
          <5> QED BY Zenon
        <4> HIDE DEF D, h
        <4> QED BY <3>4, <4>1, <4>2, Zenon
      <3>6. \A s \in D(n) : s # {} => h[s \ {pick[s]}] = g[s \ {pick[s]}]
        BY <3>3, <3>5, Zenon
      <3>7. h = [s \in D(n) |-> IF s = {} THEN base ELSE step[<<pick[s], h[s \ {pick[s]}]>>]]
        BY <3>6, Zenon
      <3> QED BY <2>1, <3>7, Zenon
    <2> QED BY <2>2, <2>3
  <1>2. Cardinality(S) \in Nat /\ D(Cardinality(S)) = SUBSET S
    BY FS_CardinalityType, FS_Subset
  <1>3. Q(Cardinality(S))
    BY <1>1, <1>2, Zenon
  <1> QED BY <1>2, <1>3, Zenon DEF IsFold

(* The pairs in Good are those of the elements done and of what they have  *)
(* come to: there is one at the start, and a step leads to another.        *)
Keeps(Good, S, pick, base, step) ==
  /\ <<{}, base>> \in Good
  /\ \A s \in SUBSET S : \A b : s # {} /\ <<s \ {pick[s]}, b>> \in Good
        => <<s, step[<<pick[s], b>>]>> \in Good

(* What holds at the start and after each step holds at the end. *)
LEMMA FoldInduction ==
  ASSUME NEW S, NEW pick, NEW base, NEW step, NEW h, NEW Good,
         Picks(pick, S), IsFold(h, S, pick, base, step), Keeps(Good, S, pick, base, step)
  PROVE  \A s \in SUBSET S : <<s, h[s]>> \in Good
  <1> USE DEF Picks, Keeps
  <1> DEFINE G == {s \in SUBSET S : <<s, h[s]>> \in Good}
  <1>1. \A s \in SUBSET S : h[s] = IF s = {} THEN base ELSE step[<<pick[s], h[s \ {pick[s]}]>>]
    BY Zenon DEF IsFold
  <1>2. {} \in SUBSET S
    OBVIOUS
  <1>3. {} \in G
    BY <1>1, <1>2, Zenon
  <1>4. ASSUME NEW s \in SUBSET S, s # {}
        PROVE  \E x \in s : s \ {x} \in G => s \in G
    <2>1. pick[s] \in s
      BY <1>4
    <2>2. ASSUME s \ {pick[s]} \in G PROVE s \in G
      <3>1. h[s] = step[<<pick[s], h[s \ {pick[s]}]>>]
        BY <1>1, <1>4
      <3> QED BY <1>4, <2>2, <3>1, Zenon
    <2> QED BY <2>1, <2>2, Zenon
  <1> HIDE DEF G
  <1>5. \A s \in SUBSET S : s \in G
    BY <1>3, <1>4, SubsetInduction, Zenon
  <1> QED BY <1>5, Zenon DEF G

(* g and h start alike and take the same steps. *)
SameSteps(g, h, S, pick) ==
  /\ g[{}] = h[{}]
  /\ \A s \in SUBSET S : s # {} /\ g[s \ {pick[s]}] = h[s \ {pick[s]}] => g[s] = h[s]

(* So they end alike. *)
LEMMA FoldUnique ==
  ASSUME NEW S, NEW pick, NEW g, NEW h, Picks(pick, S), SameSteps(g, h, S, pick)
  PROVE  g[S] = h[S]
  <1> USE DEF SameSteps
  <1> DEFINE Same == {s \in SUBSET S : g[s] = h[s]}
  <1>1. {} \in Same
    OBVIOUS
  <1>2. ASSUME NEW s \in SUBSET S, s # {}
        PROVE  \E x \in s : s \ {x} \in Same => s \in Same
    <2>1. pick[s] \in s
      BY <1>2 DEF Picks
    <2>2. s \ {pick[s]} \in Same => s \in Same
      BY <1>2, Zenon
    <2> QED BY <2>1, <2>2, Zenon
  <1>3. S \in SUBSET S /\ IsFiniteSet(S)
    BY DEF Picks
  <1> HIDE DEF Same
  <1>4. S \in Same
    BY <1>1, <1>2, <1>3, SubsetInduction, Zenon
  <1> QED BY <1>4, Zenon DEF Same

-------------------------------------------------------------------------------
(* Daemons that main let start agree.  The files may hold anything         *)
(* half-done commands left in them, so the invariant is about the daemons: *)
(* what main checked when it started stays true of what it keeps in        *)
(* memory, except that certificates expire.                                *)
(* Certificates start to be valid when they are made. *)
Dated == \A n \in Node : certFile[n] # NoCert =>
            certFile[n].not_before \in Nat /\ certFile[n].not_before <= now

(* What main checked, as far as time does not undo it. *)
Checked(d) ==
    /\ ~d.cert.is_ca /\ d.cert.signer = d.ca /\ d.key = d.cert.key
    /\ d.cert.not_before \in Nat /\ d.cert.not_before <= now

EnrolmentInv ==
    /\ now \in Nat
    /\ certFile = [n \in Node |-> certFile[n]]
    /\ daemon = [n \in Node |-> daemon[n]]
    /\ Dated
    /\ \A n \in Node : daemon[n] # Stopped => Checked(daemon[n])

-------------------------------------------------------------------------------
(* Nothing runs and nothing is on disk to begin with. *)
LEMMA EnrolmentInitInv == EnrolmentInit => EnrolmentInv
BY DEF EnrolmentInit, EnrolmentInv, Dated

(* liteway-cert writes a certificate that is valid from now on; the        *)
(* daemons do not notice.                                                  *)
LEMMA GenNodeInv ==
    ASSUME EnrolmentInv, NEW n \in Node, GenNode(n)
    PROVE  EnrolmentInv'
<1>1. now' = now /\ daemon' = daemon
  BY DEF GenNode
<1>2. certFile' = [certFile EXCEPT ![n] = NodeCert(n)]
  BY DEF GenNode
<1>3. NodeCert(n).not_before = now
  BY DEF NodeCert
<1>4. Dated'
  BY <1>1, <1>2, <1>3 DEF EnrolmentInv, Dated
<1>5. certFile' = [m \in Node |-> certFile'[m]]
  BY <1>2 DEF EnrolmentInv
<1> QED
  BY <1>1, <1>4, <1>5 DEF EnrolmentInv, Checked

(* A daemon that starts has been checked: main's two tests are what makes  *)
(* the invariant hold of files that may not belong together.               *)
LEMMA StartInv ==
    ASSUME EnrolmentInv, NEW n \in Node, Start(n)
    PROVE  EnrolmentInv'
<1> DEFINE new == [cert |-> certFile[n], key |-> keyFile[n], ca |-> caCert]
<1>1. now' = now /\ certFile' = certFile
  BY DEF Start, filesVars
<1>2. daemon' = [daemon EXCEPT ![n] = new]
  BY DEF Start
<1>3. Checked(new)
  BY DEF Start, MayStart, Verify, EnrolmentInv, Dated, Checked
<1>4. \A m \in Node : daemon'[m] # Stopped => Checked(daemon'[m])
  BY <1>2, <1>3 DEF EnrolmentInv
<1>5. daemon' = [m \in Node |-> daemon'[m]]
  BY <1>2 DEF EnrolmentInv
<1> QED
  BY <1>1, <1>4, <1>5 DEF EnrolmentInv, Checked, Dated

(* Time makes no certificate start later. *)
LEMMA ElapseInv ==
    ASSUME EnrolmentInv, Elapse
    PROVE  EnrolmentInv'
<1>1. now \in Nat /\ now' = now + 1 /\ certFile' = certFile /\ daemon' = daemon
  BY DEF Elapse, EnrolmentInv, filesVars
<1>2. \A t \in Nat : t <= now => t <= now'
  BY <1>1
<1> QED
  BY <1>1, <1>2 DEF EnrolmentInv, Checked, Dated

(* Every step keeps the invariant. *)
LEMMA EnrolmentNextInv == EnrolmentInv /\ [EnrolmentNext]_enrolmentVars => EnrolmentInv'
<1> SUFFICES ASSUME EnrolmentInv, [EnrolmentNext]_enrolmentVars
             PROVE  EnrolmentInv'
  OBVIOUS
<1>1. CASE GenCa
  BY <1>1 DEF GenCa, EnrolmentInv, Checked, Dated
<1>2. CASE Elapse
  BY <1>2, ElapseInv
<1>3. ASSUME NEW n \in Node, GenNode(n)
      PROVE  EnrolmentInv'
  BY <1>3, GenNodeInv
<1>4. ASSUME NEW n \in Node, DeleteKey(n)
      PROVE  EnrolmentInv'
  BY <1>4 DEF DeleteKey, EnrolmentInv, Checked, Dated
<1>5. ASSUME NEW n \in Node, Start(n)
      PROVE  EnrolmentInv'
  BY <1>5, StartInv
<1>6. ASSUME NEW n \in Node, Crash(n)
      PROVE  EnrolmentInv'
  <2>1. /\ now' = now /\ certFile' = certFile
        /\ daemon' = [daemon EXCEPT ![n] = Stopped]
    BY <1>6 DEF Crash, filesVars
  <2> QED
    BY <2>1 DEF EnrolmentInv, Checked, Dated
<1>7. CASE UNCHANGED enrolmentVars
  BY <1>7 DEF enrolmentVars, filesVars, EnrolmentInv, Checked, Dated
<1> QED
  BY <1>1, <1>2, <1>3, <1>4, <1>5, <1>6, <1>7 DEF EnrolmentNext

(* Two checked daemons with one CA trust each other until a certificate    *)
(* expires.                                                                *)
LEMMA CheckedAgree == EnrolmentInv => StartedAgree
<1> SUFFICES ASSUME EnrolmentInv, NEW m \in Node, NEW n \in Node,
                    daemon[m] # Stopped, daemon[n] # Stopped,
                    daemon[m].ca = daemon[n].ca,
                    now <= daemon[m].cert.not_after, now <= daemon[n].cert.not_after
             PROVE  Agree(daemon[m], daemon[n])
  BY DEF StartedAgree
<1> QED
  BY DEF EnrolmentInv, Checked, Agree, Trusts, Verify

(* Whatever order of liteway-cert commands, interrupted renewals, key      *)
(* deletions and restarts came before: daemons that read the same CA file  *)
(* complete a handshake as long as their certificates last.                *)
THEOREM StartedDaemonsAgree == EnrolmentSpec => []StartedAgree
<1>1. EnrolmentInit => EnrolmentInv
  BY EnrolmentInitInv
<1>2. EnrolmentInv /\ [EnrolmentNext]_enrolmentVars => EnrolmentInv'
  BY EnrolmentNextInv
<1>3. EnrolmentInv => StartedAgree
  BY CheckedAgree
<1> QED
  BY <1>1, <1>2, <1>3, PTL DEF EnrolmentSpec

-------------------------------------------------------------------------------
(* The route table: what its operations do to its entries. *)

(* The greatest number of a set is one of its members. *)
LEMMA MaxIn ==
  ASSUME NEW n \in Nat, NEW s \in SUBSET (1 .. n), s # {}
  PROVE  Max(s) \in s
  <1>0. IsFiniteSet(1 .. n)
    BY FS_Interval
  <1>1. IsFiniteSet(s)
    BY <1>0, FS_Subset, Zenon
  <1>4. s \in SUBSET Nat
    OBVIOUS
  <1>2. \E x \in s : \A y \in s : y <= x
    BY <1>1, <1>4, GreatestNumber
  <1>3. \E x \in s : \A y \in s : x >= y
    BY <1>2, <1>4
  <1> QED BY <1>3, Zenon DEF Max

(* Appending adds one element to what a sequence holds. *)
LEMMA RangeAppend ==
  ASSUME NEW X, NEW u \in Seq(X), NEW x \in X
  PROVE  Append(u, x) \in Seq(X) /\ Range(Append(u, x)) = Range(u) \cup {x}
  <1>1. PICK n \in Nat : n = Len(u) /\ DOMAIN u = 1 .. n
    OBVIOUS
  <1>2. DOMAIN Append(u, x) = 1 .. n + 1 /\ Append(u, x)[n + 1] = x
    BY <1>1
  <1>3. \A i \in 1 .. n : Append(u, x)[i] = u[i]
    BY <1>1
  <1>4. 1 .. n + 1 = (1 .. n) \cup {n + 1}
    BY <1>1
  <1>5. {Append(u, x)[i] : i \in 1 .. n + 1} = {u[i] : i \in 1 .. n} \cup {x}
    BY <1>2, <1>3, <1>4, Zenon
  <1> QED BY <1>1, <1>2, <1>5 DEF Range

(* retain keeps the entries it is to keep, and no others. *)
LEMMA RetainFacts ==
  ASSUME NEW X, NEW t \in Seq(X), NEW E
  PROVE  Retain(t, E) \in Seq(X) /\ Range(Retain(t, E)) = Range(t) \cap E
  <1>1. PICK n \in Nat : DOMAIN t = 1 .. n
    OBVIOUS
  <1> DEFINE S == DOMAIN t
             pick == [s \in SUBSET S |-> Max(s)]
             step == [z \in S \X Seq(X) |-> IF t[z[1]] \in E THEN Append(z[2], t[z[1]]) ELSE z[2]]
             Good == {z \in (SUBSET S) \X Seq(X) : Range(z[2]) = {t[i] : i \in z[1]} \cap E}
             It(g) == g = [s \in SUBSET S |->
                             IF s = {} THEN <<>>
                             ELSE IF t[Max(s)] \in E THEN Append(g[s \ {Max(s)}], t[Max(s)])
                                  ELSE g[s \ {Max(s)}]]
  <1>2. /\ IsFiniteSet(S)
        /\ \A s \in SUBSET S : s # {} => Max(s) \in s
        /\ \A s \in SUBSET S : s # {} => pick[s] \in s
        /\ \A s \in SUBSET S : pick[s] = Max(s)
    <2>1. IsFiniteSet(1 .. n)
      BY FS_Interval
    <2>2. \A s \in SUBSET (1 .. n) : s # {} => Max(s) \in s
      BY MaxIn, Zenon
    <2> QED BY <1>1, <2>1, <2>2, Zenon
  <1>3. \A i \in S : t[i] \in X
    OBVIOUS
  <1>4. PICK h : IsFold(h, S, pick, <<>>, step)
    <2> HIDE DEF pick, step, S
    <2> QED BY <1>2, FoldExists, Zenon DEF Picks
  <1>5. \A i \in S, u \in Seq(X) :
           step[<<i, u>>] = IF t[i] \in E THEN Append(u, t[i]) ELSE u
    OBVIOUS
  <1>6. <<{}, <<>>>> \in Good
    <2>1. Range(<<>>) = {}
      BY DEF Range
    <2>2. <<>> \in Seq(X) /\ {} = {t[i] : i \in {}} \cap E
      OBVIOUS
    <2> QED BY <2>1, <2>2, Zenon
  <1>7. ASSUME NEW s \in SUBSET S, NEW b, s # {}, <<s \ {pick[s]}, b>> \in Good
        PROVE  <<s, step[<<pick[s], b>>]>> \in Good
    <2>1. PICK i : i = Max(s)
      OBVIOUS
    <2>2. i \in s /\ i \in S /\ pick[s] = i
      BY <1>2, <1>7, <2>1
    <2>3. b \in Seq(X) /\ Range(b) = {t[j] : j \in s \ {i}} \cap E
      BY <1>7, <2>2
    <2>4. CASE t[i] \in E
      <3>1. step[<<i, b>>] = Append(b, t[i])
        BY <1>5, <2>2, <2>3, <2>4
      <3>2. Append(b, t[i]) \in Seq(X) /\ Range(Append(b, t[i])) = Range(b) \cup {t[i]}
        BY <1>3, <2>2, <2>3, RangeAppend
      <3>3. Range(Append(b, t[i])) = {t[j] : j \in s} \cap E
        BY <2>2, <2>3, <2>4, <3>2
      <3>4. <<s, Append(b, t[i])>> \in Good
        BY <3>2, <3>3, Zenon
      <3> QED BY <2>2, <3>1, <3>4, Zenon
    <2>5. CASE t[i] \notin E
      <3>1. step[<<i, b>>] = b
        BY <1>5, <2>2, <2>3, <2>5
      <3>2. Range(b) = {t[j] : j \in s} \cap E
        BY <2>2, <2>3, <2>5
      <3> QED BY <2>2, <2>3, <3>1, <3>2, Zenon
    <2> QED BY <2>4, <2>5, Zenon
  <1>8. \A s \in SUBSET S : <<s, h[s]>> \in Good
    <2>1. \A s \in SUBSET S : \A b : s # {} /\ <<s \ {pick[s]}, b>> \in Good
             => <<s, step[<<pick[s], b>>]>> \in Good
      <3> HIDE DEF pick, step, S, Good
      <3> QED BY <1>7, Zenon
    <2> HIDE DEF pick, step, S, Good
    <2>2. Picks(pick, S) /\ Keeps(Good, S, pick, <<>>, step)
      BY <1>2, <1>6, <2>1, Zenon DEF Picks, Keeps
    <2> QED BY <1>4, <2>2, FoldInduction, Zenon
  <1>9. \A s \in SUBSET S : h[s] \in Seq(X)
    BY <1>8, Zenon
  <1>10. It(h)
    <2>1. \A s \in SUBSET S : s # {} =>
             step[<<pick[s], h[s \ {pick[s]}]>>]
                = IF t[Max(s)] \in E THEN Append(h[s \ {Max(s)}], t[Max(s)])
                  ELSE h[s \ {Max(s)}]
      <3> HIDE DEF pick, step
      <3>1. \A s \in SUBSET S : s # {} => Max(s) \in S /\ s \ {Max(s)} \in SUBSET S
        BY <1>2
      <3>2. \A s \in SUBSET S : s # {} => h[s \ {Max(s)}] \in Seq(X)
        BY <1>9, <3>1, Zenon
      <3>3. \A s \in SUBSET S : s # {} =>
               step[<<Max(s), h[s \ {Max(s)}]>>]
                  = IF t[Max(s)] \in E THEN Append(h[s \ {Max(s)}], t[Max(s)])
                    ELSE h[s \ {Max(s)}]
        BY <1>5, <3>1, <3>2, Zenon
      <3> HIDE DEF S
      <3> QED BY <1>2, <3>3, Zenon
    <2> HIDE DEF pick, step, S
    <2> QED BY <1>4, <2>1, Zenon DEF IsFold
  <1> DEFINE g == CHOOSE f : It(f)
  <1>11. It(g)
    <2> HIDE DEF It
    <2> QED BY <1>10, Zenon
  <1>12. Retain(t, E) = g[S]
    BY Zenon DEF Retain, MapThenFoldSet
  <1> HIDE DEF g
  <1>13. g[S] = h[S]
    <2>1. {} \in SUBSET S
      OBVIOUS
    <2> HIDE DEF S
    <2>2. g[{}] = h[{}]
      BY <1>10, <1>11, <2>1, Zenon
    <2>3. \A s \in SUBSET S : s # {} /\ g[s \ {Max(s)}] = h[s \ {Max(s)}] => g[s] = h[s]
      BY <1>10, <1>11, ZenonT(30)
    <2> HIDE DEF It, pick
    <2>4. \A s \in SUBSET S : s # {} /\ g[s \ {pick[s]}] = h[s \ {pick[s]}] => g[s] = h[s]
      BY <1>2, <2>3, Zenon
    <2>5. Picks(pick, S)
      BY <1>2, Zenon DEF Picks
    <2>6. SameSteps(g, h, S, pick)
      BY <2>2, <2>4, Zenon DEF SameSteps
    <2> QED BY <2>5, <2>6, FoldUnique, Zenon
  <1>14. S \in SUBSET S
    OBVIOUS
  <1>15. <<S, Retain(t, E)>> \in Good
    BY <1>8, <1>12, <1>13, <1>14, Zenon
  <1> QED BY <1>15 DEF Range

(* An entry of the table. *)
Entry == [net : Network, peer : Nat]

(* insert replaces what the table had for the network. *)
LEMMA InsertFacts ==
  ASSUME NEW t \in Seq(Entry), NEW n \in Network, NEW p \in Nat
  PROVE  /\ Insert(t, n, p) \in Seq(Entry)
         /\ Range(Insert(t, n, p)) = {e \in Range(t) : e.net # n} \cup {[net |-> n, peer |-> p]}
  <1> DEFINE E == {e \in Range(t) : e.net # n}
  <1>1. Retain(t, E) \in Seq(Entry) /\ Range(Retain(t, E)) = Range(t) \cap E
    BY RetainFacts, Zenon
  <1>2. Range(t) \cap E = E
    OBVIOUS
  <1>3. [net |-> n, peer |-> p] \in Entry
    BY DEF Entry
  <1>4. Insert(t, n, p) = Append(Retain(t, E), [net |-> n, peer |-> p])
    BY DEF Insert
  <1> HIDE DEF E
  <1>5. /\ Range(Append(Retain(t, E), [net |-> n, peer |-> p]))
              = Range(Retain(t, E)) \cup {[net |-> n, peer |-> p]}
        /\ Append(Retain(t, E), [net |-> n, peer |-> p]) \in Seq(Entry)
    BY <1>1, <1>3, RangeAppend
  <1> QED BY <1>1, <1>2, <1>4, <1>5, Zenon DEF E

(* Of finitely many networks one is the last. *)
LEMMA LastOfIn ==
  ASSUME NEW N \in SUBSET Network, IsFiniteSet(N), N # {}
  PROVE  LastOf(N) \in N
  <1>1. \A n \in N : n.ip \in Nat /\ n.len \in Nat /\ n = [ip |-> n.ip, len |-> n.len]
    BY BitsAssumption DEF Network, Address
  <1> DEFINE A == {n.ip : n \in N}
  <1>2. A \in SUBSET Nat /\ A # {} /\ IsFiniteSet(A)
    <2>1. IsFiniteSet({[m \in N |-> m.ip][n] : n \in N})
      BY FiniteImage, Zenon
    <2>2. {[m \in N |-> m.ip][n] : n \in N} = A
      OBVIOUS
    <2> QED BY <1>1, <2>1, <2>2
  <1> HIDE DEF A
  <1>3. PICK a \in A : \A b \in A : b <= a
    BY <1>2, GreatestNumber
  <1> DEFINE M == {n \in N : n.ip = a}
             B == {n.len : n \in M}
  <1>4. B \in SUBSET Nat /\ B # {} /\ IsFiniteSet(B)
    <2>1. M \in SUBSET N /\ M # {}
      BY <1>3 DEF A
    <2>2. IsFiniteSet(M)
      BY <2>1, FS_Subset
    <2>3. IsFiniteSet({[m \in M |-> m.len][n] : n \in M})
      BY <2>2, FiniteImage, Zenon
    <2>4. {[m \in M |-> m.len][n] : n \in M} = B
      BY Zenon
    <2> QED BY <1>1, <2>1, <2>3, <2>4, Zenon
  <1> HIDE DEF B
  <1>5. PICK l \in B : \A k \in B : k <= l
    BY <1>4, GreatestNumber
  <1>6. PICK n \in N : n.ip = a /\ n.len = l
    BY <1>5 DEF B
  <1>7. \A m \in N \ {n} : m.ip \in A /\ (m.ip = a => m.len \in B)
    BY DEF A, B
  <1>8. \A m \in N \ {n} : m.ip = a => m.len # l
    BY <1>1, <1>6
  <1>9. \A m \in N \ {n} : Before(m, n)
    BY <1>1, <1>3, <1>5, <1>6, <1>7, <1>8 DEF Before
  <1> QED BY <1>9, Zenon DEF LastOf

(* The table's entries once the networks in N have been inserted for p. *)
Inserted(t, N, p) ==
  {e \in Range(t) : e.net \notin N} \cup {[net |-> n, peer |-> p] : n \in N}

(* One insert for each of N leaves those entries. *)
LEMMA InsertAllFacts ==
  ASSUME NEW t \in Seq(Entry), NEW N \in SUBSET Network, IsFiniteSet(N), NEW p \in Nat
  PROVE  InsertAll(t, N, p) \in Seq(Entry) /\ Range(InsertAll(t, N, p)) = Inserted(t, N, p)
  <1> DEFINE pick == [s \in SUBSET N |-> LastOf(s)]
             step == [z \in N \X Seq(Entry) |-> Insert(z[2], z[1], p)]
             Good == {z \in (SUBSET N) \X Seq(Entry) : Range(z[2]) = Inserted(t, z[1], p)}
             It(g) == g = [s \in SUBSET N |->
                             IF s = {} THEN t ELSE Insert(g[s \ {LastOf(s)}], LastOf(s), p)]
  <1>1. /\ \A s \in SUBSET N : s # {} => LastOf(s) \in s
        /\ \A s \in SUBSET N : pick[s] = LastOf(s)
    <2>1. \A s \in SUBSET N : s # {} => LastOf(s) \in s
      BY LastOfIn, FS_Subset
    <2> QED BY <2>1, Zenon
  <1>2. Picks(pick, N)
    <2> HIDE DEF pick
    <2> QED BY <1>1, Zenon DEF Picks
  <1>3. PICK h : IsFold(h, N, pick, t, step)
    <2> HIDE DEF pick, step
    <2> QED BY <1>2, FoldExists, Zenon
  <1>4. \A n \in N, u \in Seq(Entry) : step[<<n, u>>] = Insert(u, n, p)
    OBVIOUS
  <1>5. Keeps(Good, N, pick, t, step)
    <2>1. <<{}, t>> \in Good
      BY DEF Inserted
    <2>2. ASSUME NEW s \in SUBSET N, NEW b, s # {}, <<s \ {pick[s]}, b>> \in Good
          PROVE  <<s, step[<<pick[s], b>>]>> \in Good
      <3>1. PICK n : n = LastOf(s)
        OBVIOUS
      <3>2. n \in s /\ n \in N /\ n \in Network /\ pick[s] = n
        BY <1>1, <2>2, <3>1
      <3>3. b \in Seq(Entry) /\ Range(b) = Inserted(t, s \ {n}, p)
        BY <2>2, <3>2, Zenon
      <3>4. step[<<n, b>>] = Insert(b, n, p)
        BY <1>4, <3>2, <3>3
      <3>5. /\ Insert(b, n, p) \in Seq(Entry)
            /\ Range(Insert(b, n, p)) = {e \in Range(b) : e.net # n} \cup {[net |-> n, peer |-> p]}
        <4>1. b \in Seq(Entry) /\ n \in Network
          BY <3>2, <3>3
        <4> HIDE DEF pick, step, Good
        <4> QED BY <4>1, InsertFacts, Zenon
      <3>6. {e \in Inserted(t, s \ {n}, p) : e.net # n} \cup {[net |-> n, peer |-> p]}
               = Inserted(t, s, p)
        <4> DEFINE R == {[net |-> m, peer |-> p] : m \in s \ {n}}
        <4>1. {e \in R : e.net # n} = R
          OBVIOUS
        <4>2. R \cup {[net |-> n, peer |-> p]} = {[net |-> m, peer |-> p] : m \in s}
          BY <3>2
        <4>3. {e \in {f \in Range(t) : f.net \notin s \ {n}} : e.net # n}
                 = {e \in Range(t) : e.net \notin s}
          BY <3>2
        <4> HIDE DEF R
        <4>4. Inserted(t, s \ {n}, p) = {e \in Range(t) : e.net \notin s \ {n}} \cup R
          BY DEF Inserted, R
        <4> QED BY <4>1, <4>2, <4>3, <4>4, Zenon DEF Inserted
      <3>7. <<s, Insert(b, n, p)>> \in Good
        BY <3>3, <3>5, <3>6, Zenon
      <3> QED BY <3>2, <3>4, <3>7, Zenon
    <2> HIDE DEF pick, step, Good
    <2> QED BY <2>1, <2>2, Zenon DEF Keeps
  <1>6. \A s \in SUBSET N : <<s, h[s]>> \in Good
    <2> HIDE DEF pick, step, Good
    <2> QED BY <1>2, <1>3, <1>5, FoldInduction, Zenon
  <1>7. \A s \in SUBSET N : h[s] \in Seq(Entry)
    BY <1>6, Zenon
  <1>8. It(h)
    <2>1. \A s \in SUBSET N : s # {} => LastOf(s) \in N /\ s \ {LastOf(s)} \in SUBSET N
      BY <1>1
    <2>2. \A s \in SUBSET N : s # {} => h[s \ {LastOf(s)}] \in Seq(Entry)
      BY <1>7, <2>1, Zenon
    <2> HIDE DEF pick, step
    <2>3. \A s \in SUBSET N : s # {} =>
             step[<<LastOf(s), h[s \ {LastOf(s)}]>>] = Insert(h[s \ {LastOf(s)}], LastOf(s), p)
      BY <1>4, <2>1, <2>2, Zenon
    <2>4. \A s \in SUBSET N : s # {} =>
             step[<<pick[s], h[s \ {pick[s]}]>>] = Insert(h[s \ {LastOf(s)}], LastOf(s), p)
      BY <1>1, <2>3, Zenon
    <2> QED BY <1>3, <2>4, Zenon DEF IsFold
  <1> DEFINE g == CHOOSE f : It(f)
  <1>9. It(g)
    <2> HIDE DEF It
    <2> QED BY <1>8, Zenon
  <1>10. InsertAll(t, N, p) = g[N]
    BY Zenon DEF InsertAll, MapThenFoldSet
  <1> HIDE DEF g
  <1>11. g[N] = h[N]
    <2>1. {} \in SUBSET N
      OBVIOUS
    <2>2. g[{}] = h[{}]
      BY <1>8, <1>9, <2>1, Zenon
    <2>3. \A s \in SUBSET N :
             s # {} /\ g[s \ {LastOf(s)}] = h[s \ {LastOf(s)}] => g[s] = h[s]
      BY <1>8, <1>9, Zenon
    <2> HIDE DEF It, pick
    <2>4. SameSteps(g, h, N, pick)
      BY <1>1, <2>2, <2>3, Zenon DEF SameSteps
    <2> QED BY <1>2, <2>4, FoldUnique, Zenon
  <1>12. N \in SUBSET N
    OBVIOUS
  <1>13. <<N, InsertAll(t, N, p)>> \in Good
    BY <1>6, <1>10, <1>11, <1>12, Zenon
  <1> QED BY <1>13, Zenon

(* remove_peer takes the peer's entries, and no others. *)
LEMMA RemovePeerFacts ==
  ASSUME NEW t \in Seq(Entry), NEW p
  PROVE  /\ RemovePeer(t, p) \in Seq(Entry)
         /\ Range(RemovePeer(t, p)) = {e \in Range(t) : e.peer # p}
  <1> DEFINE E == {e \in Range(t) : e.peer # p}
  <1>1. Retain(t, E) \in Seq(Entry) /\ Range(Retain(t, E)) = Range(t) \cap E
    BY RetainFacts, Zenon
  <1>2. Range(t) \cap E = E
    OBVIOUS
  <1> QED BY <1>1, <1>2, Zenon DEF RemovePeer

(* lookup finds an entry that covers the address, with a prefix as long as *)
(* that of any other, if there is one.                                     *)
LEMMA LookUpFacts ==
  ASSUME NEW t \in Seq(Entry), NEW a
  PROVE  /\ LookUp(t, a) # NoPeer => \E e \in Range(t) : Covers(e.net, a) /\ e.peer = LookUp(t, a)
         /\ \A f \in Range(t) : Covers(f.net, a) =>
               \E e \in Range(t) : /\ Covers(e.net, a) /\ e.peer = LookUp(t, a)
                                   /\ e.net.len >= f.net.len
  <1> DEFINE Better(i, j) == \/ t[j].net.len < t[i].net.len
                             \/ t[j].net.len = t[i].net.len /\ j <= i
  <1>1. \A i \in DOMAIN t : i \in Nat /\ t[i].net.len \in Nat
    <2>1. \A i \in DOMAIN t : i \in Nat /\ t[i] \in Entry
      OBVIOUS
    <2>2. \A e \in Entry : e.net.len \in Nat
      BY BitsAssumption DEF Entry, Network
    <2> QED BY <2>1, <2>2, Zenon
  <1>2. Matches(t, a) \in SUBSET DOMAIN t
    BY DEF Matches
  <1>3. ASSUME Matches(t, a) # {}
        PROVE  \E i \in Matches(t, a) : /\ \A j \in Matches(t, a) : Better(i, j)
                                        /\ LookUp(t, a) = t[i].peer
    <2>1. IsFiniteSet(DOMAIN t)
      <3>1. PICK n \in Nat : DOMAIN t = 1 .. n
        OBVIOUS
      <3>2. IsFiniteSet(1 .. n)
        BY FS_Interval
      <3> QED BY <3>1, <3>2
    <2> DEFINE A == {t[i].net.len : i \in Matches(t, a)}
    <2>2. PICK l \in A : \A k \in A : k <= l
      <3>1. A \in SUBSET Nat /\ A # {}
        BY <1>1, <1>2, <1>3
      <3>2. IsFiniteSet(Matches(t, a))
        BY <1>2, <2>1, FS_Subset
      <3>3. IsFiniteSet({[j \in Matches(t, a) |-> t[j].net.len][i] : i \in Matches(t, a)})
        BY <3>2, FiniteImage, Zenon
      <3>4. {[j \in Matches(t, a) |-> t[j].net.len][i] : i \in Matches(t, a)} = A
        OBVIOUS
      <3> HIDE DEF A
      <3> QED BY <3>1, <3>3, <3>4, GreatestNumber
    <2> DEFINE B == {i \in Matches(t, a) : t[i].net.len = l}
    <2>3. PICK i \in B : \A j \in B : j <= i
      <3>1. B \in SUBSET Nat /\ B # {} /\ B \in SUBSET DOMAIN t
        BY <1>1, <1>2, <2>2
      <3>2. IsFiniteSet(B)
        BY <2>1, <3>1, FS_Subset
      <3> HIDE DEF B
      <3> QED BY <3>1, <3>2, GreatestNumber
    <2>4. i \in Matches(t, a) /\ \A j \in Matches(t, a) : Better(i, j)
      <3>1. \A j \in Matches(t, a) : t[j].net.len \in Nat /\ t[j].net.len <= l /\ j \in Nat
        BY <1>1, <1>2, <2>2, Zenon
      <3>2. \A j \in Matches(t, a) : t[j].net.len = l => j <= i
        BY <2>3, Zenon
      <3>3. i \in Matches(t, a) /\ t[i].net.len = l
        BY <2>3, Zenon
      <3> HIDE DEF A, B
      <3> QED BY <3>1, <3>2, <3>3
    <2> DEFINE c == CHOOSE k \in Matches(t, a) : \A j \in Matches(t, a) : Better(k, j)
    <2>5. c \in Matches(t, a) /\ \A j \in Matches(t, a) : Better(c, j)
      <3> HIDE DEF Better
      <3> QED BY <2>4, Zenon
    <2>6. LookUp(t, a) = t[c].peer
      BY <1>3, Zenon DEF LookUp
    <2> HIDE DEF c, Better
    <2> QED BY <2>5, <2>6, Zenon
  <1>4. ASSUME LookUp(t, a) # NoPeer
        PROVE  \E e \in Range(t) : Covers(e.net, a) /\ e.peer = LookUp(t, a)
    <2>1. Matches(t, a) # {}
      BY <1>4 DEF LookUp
    <2>2. PICK i \in Matches(t, a) : LookUp(t, a) = t[i].peer
      BY <1>3, <2>1
    <2> QED BY <2>2, Zenon DEF Matches, Range
  <1>5. ASSUME NEW f \in Range(t), Covers(f.net, a)
        PROVE  \E e \in Range(t) : /\ Covers(e.net, a) /\ e.peer = LookUp(t, a)
                                   /\ e.net.len >= f.net.len
    <2>1. PICK j \in Matches(t, a) : f = t[j]
      BY <1>5, Zenon DEF Matches, Range
    <2>2. PICK i \in Matches(t, a) : Better(i, j) /\ LookUp(t, a) = t[i].peer
      BY <1>3, <2>1, Zenon
    <2>3. t[i].net.len >= t[j].net.len
      BY <1>1, <1>2, <2>2
    <2> HIDE DEF Better
    <2> QED BY <2>1, <2>2, <2>3, Zenon DEF Matches, Range
  <1> QED BY <1>4, <1>5, Zenon

-------------------------------------------------------------------------------
(* The data plane: the certificates there are, in files, in daemons and in *)
(* sessions.                                                               *)
Certs == {certFile[n] : n \in Node} \cup {daemon[n].cert : n \in Node} \cup sessions

(* A certificate that generate_node made. *)
Issued(c) ==
    /\ c.key \in 1 .. MaxKey /\ c.key < nextKey
    /\ c.ip \in Network /\ c.subnets \in SUBSET Network /\ IsFiniteSet(c.subnets)

(* A key pair is in one certificate, wherever that is kept: what an old    *)
(* session, a renewed file and a daemon that has not restarted hold are    *)
(* different peers.                                                        *)
Identities ==
    /\ now \in 0 .. MaxTime /\ nextKey \in 1 .. MaxKey + 1
    /\ caCert \in 0 .. MaxKey /\ caKey \in 0 .. MaxKey
    /\ keyFile \in [Node -> 0 .. MaxKey]
    /\ certFile = [n \in Node |-> certFile[n]] /\ daemon = [n \in Node |-> daemon[n]]
    /\ \A n \in Node : daemon[n] # Stopped => daemon[n].cert # NoCert
    /\ NoCert \notin sessions
    /\ \A c \in Certs : c = NoCert \/ Issued(c)
    /\ \A c, d \in Certs : c.key = d.key => c = d

(* What keeps the table, the OS and the sessions together.  The third      *)
(* conjunct is what makes contested the right exception: two sessions have *)
(* a network in common only if it is contested, and where it is not, the   *)
(* table has it for the one session that holds it.                         *)
Tables ==
    /\ table \in Seq(Entry)
    /\ \A e \in Range(table) :
          \E c \in sessions : e.peer = c.key /\ e.net \in authorized_peer_routes(c)
    /\ \A c, d \in sessions :
          c # d => authorized_peer_routes(c) \cap authorized_peer_routes(d) \subseteq contested
    /\ \A c \in sessions : \A n \in authorized_peer_routes(c) \ contested :
          [net |-> n, peer |-> c.key] \in Range(table)
    /\ contested \in SUBSET Network
    /\ KernelFollowsSessions

Inv == Identities /\ Tables

-------------------------------------------------------------------------------
(* The routes of a certificate are finitely many networks. *)
LEMMA RoutesFacts ==
  ASSUME NEW c, Issued(c)
  PROVE  /\ authorized_peer_routes(c) \in SUBSET Network
         /\ IsFiniteSet(authorized_peer_routes(c))
  <1> DEFINE M == {n \in c.subnets : ~is_default_route(n) /\ route_granted_by_cert(c, n)}
  <1>1. M \in SUBSET c.subnets /\ c.subnets \in SUBSET Network /\ IsFiniteSet(c.subnets)
    BY DEF Issued
  <1>2. IsFiniteSet(M)
    BY <1>1, FS_Subset, Zenon
  <1>3. host_route(c.ip) \in Network
    BY BitsAssumption DEF Issued, host_route, Network
  <1>4. authorized_peer_routes(c) = M \cup {host_route(c.ip)}
    BY DEF authorized_peer_routes
  <1> HIDE DEF M
  <1>5. IsFiniteSet(M \cup {host_route(c.ip)})
    BY <1>2, FS_AddElement, Zenon
  <1> QED BY <1>1, <1>3, <1>4, <1>5

(* A step that makes no certificate keeps what is known of those there are. *)
LEMMA NoNewCert ==
  ASSUME Identities, Certs' \subseteq Certs \cup {NoCert},
         nextKey' \in Nat, nextKey <= nextKey'
  PROVE  /\ \A c \in Certs' : c = NoCert \/ Issued(c)'
         /\ \A c, d \in Certs' : c.key = d.key => c = d
  <1>1. \A c \in Certs : c = NoCert \/ Issued(c)
    BY DEF Identities
  <1>2. \A c, d \in Certs : c.key = d.key => c = d
    BY DEF Identities
  <1>3. nextKey \in Nat /\ MaxKey \in Nat
    BY EnrolmentAssumption DEF Identities
  <1>4. \A c : Issued(c) => Issued(c)' /\ c.key # 0
    BY <1>3 DEF Issued
  <1>5. NoCert.key = 0
    BY DEF NoCert, None
  <1>6. \A c \in Certs' : c = NoCert \/ (c \in Certs /\ Issued(c))
    BY <1>1
  <1>7. \A c, d \in Certs' : c.key = d.key => c = d
    BY <1>2, <1>4, <1>5, <1>6, Zenon
  <1> QED BY <1>4, <1>6, <1>7, Zenon

(* The certificate generate_node makes is a new one. *)
LEMMA GenNodeIdentities ==
  ASSUME Identities, NEW n \in Node, GenNode(n), UNCHANGED sessions
  PROVE  Identities'
  <1>1. /\ now' = now /\ caCert' = caCert /\ caKey' = caKey /\ daemon' = daemon
        /\ sessions' = sessions /\ nextKey <= MaxKey /\ nextKey' = nextKey + 1
    BY DEF GenNode, FreshKeyPair
  <1>2. certFile' = [certFile EXCEPT ![n] = NodeCert(n)]
    BY DEF GenNode
  <1>3. keyFile' = [keyFile EXCEPT ![n] = WritePrivate(keyFile[n], nextKey)]
    BY DEF GenNode
  <1>4. nextKey \in Nat /\ nextKey \in 1 .. MaxKey /\ MaxKey \in Nat
    BY <1>1, EnrolmentAssumption DEF Identities
  <1>5. PICK c : c = NodeCert(n)
    OBVIOUS
  <1>6. c.key = nextKey /\ Issued(c)'
    <2>1. c.key = nextKey /\ c.ip = Addresses[n].ip /\ c.subnets = Addresses[n].subnets
      BY <1>5 DEF NodeCert
    <2> QED BY <1>1, <1>4, <2>1, EnrolmentAssumption DEF Issued
  <1>7. Certs' \subseteq Certs \cup {c}
    <2>1. \A m \in Node : certFile'[m] = certFile[m] \/ certFile'[m] = c
      BY <1>2, <1>5 DEF Identities
    <2> QED BY <1>1, <2>1, Zenon DEF Certs
  <1>8. \A d \in Certs : (d = NoCert \/ Issued(d)') /\ d.key # nextKey
    <2>1. \A d \in Certs : d = NoCert \/ Issued(d)
      BY DEF Identities
    <2>2. \A d : Issued(d) => Issued(d)' /\ d.key # nextKey
      BY <1>1, <1>4 DEF Issued
    <2>3. NoCert.key # nextKey
      BY <1>4 DEF NoCert, None
    <2> QED BY <2>1, <2>2, <2>3, Zenon
  <1>9. \A d \in Certs' : d = NoCert \/ Issued(d)'
    BY <1>6, <1>7, <1>8
  <1>10. \A d, e \in Certs' : d.key = e.key => d = e
    <2>1. \A d, e \in Certs : d.key = e.key => d = e
      BY DEF Identities
    <2> QED BY <1>6, <1>7, <1>8, <2>1
  <1>11. keyFile' \in [Node -> 0 .. MaxKey]
    BY <1>3, <1>4 DEF Identities, WritePrivate
  <1>12. certFile' = [m \in Node |-> certFile'[m]]
    BY <1>2, Zenon DEF Identities
  <1>13. nextKey' \in 1 .. MaxKey + 1
    BY <1>1, <1>4
  <1> QED BY <1>1, <1>9, <1>10, <1>11, <1>12, <1>13 DEF Identities

(* A daemon that starts runs with the certificate in its file. *)
LEMMA StartIdentities ==
  ASSUME Identities, NEW n \in Node, Start(n), UNCHANGED sessions
  PROVE  Identities'
  <1>1. /\ now' = now /\ nextKey' = nextKey /\ caCert' = caCert /\ caKey' = caKey
        /\ certFile' = certFile /\ keyFile' = keyFile /\ sessions' = sessions
    BY DEF Start, filesVars
  <1>2. PICK d : d = [cert |-> certFile[n], key |-> keyFile[n], ca |-> caCert]
    BY Zenon
  <1>3. daemon' = [daemon EXCEPT ![n] = d] /\ d.cert = certFile[n] /\ certFile[n] # NoCert
    BY <1>2 DEF Start, MayStart
  <1>4. \A m \in Node : daemon'[m] = IF m = n THEN d ELSE daemon[m]
    BY <1>3 DEF Identities
  <1>5. Certs' \subseteq Certs \cup {NoCert}
    BY <1>1, <1>3, <1>4, Zenon DEF Certs
  <1>6. nextKey' \in Nat /\ nextKey <= nextKey'
    BY <1>1 DEF Identities
  <1>7. \A m \in Node : daemon'[m] # Stopped => daemon'[m].cert # NoCert
    BY <1>3, <1>4 DEF Identities
  <1>8. daemon' = [m \in Node |-> daemon'[m]]
    BY <1>3 DEF Identities
  <1> QED BY <1>1, <1>5, <1>6, <1>7, <1>8, NoNewCert DEF Identities

(* A daemon that is killed has no certificate, and its sessions may stay   *)
(* with this node or go.                                                   *)
LEMMA CrashIdentities ==
  ASSUME Identities, NEW n \in Node, Crash(n), sessions' \subseteq sessions
  PROVE  Identities'
  <1>1. /\ now' = now /\ nextKey' = nextKey /\ caCert' = caCert /\ caKey' = caKey
        /\ certFile' = certFile /\ keyFile' = keyFile
    BY DEF Crash, filesVars
  <1>2. daemon' = [daemon EXCEPT ![n] = Stopped] /\ Stopped.cert = NoCert
    BY DEF Crash, Stopped
  <1>3. \A m \in Node : daemon'[m] = IF m = n THEN Stopped ELSE daemon[m]
    BY <1>2 DEF Identities
  <1>4. Certs' \subseteq Certs \cup {NoCert}
    <2>1. \A c \in sessions' : c \in sessions
      OBVIOUS
    <2> QED BY <1>1, <1>2, <1>3, <2>1, Zenon DEF Certs
  <1>5. nextKey' \in Nat /\ nextKey <= nextKey'
    BY <1>1 DEF Identities
  <1>6. \A m \in Node : daemon'[m] # Stopped => daemon'[m].cert # NoCert
    BY <1>3 DEF Identities
  <1>7. daemon' = [m \in Node |-> daemon'[m]]
    BY <1>2 DEF Identities
  <1> QED BY <1>1, <1>4, <1>5, <1>6, <1>7, NoNewCert DEF Identities

(* No other step touches a certificate. *)
LEMMA OtherIdentities ==
  ASSUME Identities, sessions' \subseteq sessions \cup {daemon[n].cert : n \in Node},
         NoCert \notin sessions', certFile' = certFile, daemon' = daemon,
         now' \in 0 .. MaxTime, nextKey' \in 1 .. MaxKey + 1, nextKey <= nextKey',
         caCert' \in 0 .. MaxKey, caKey' \in 0 .. MaxKey, keyFile' \in [Node -> 0 .. MaxKey]
  PROVE  Identities'
  <1>1. Certs' \subseteq Certs \cup {NoCert}
    BY DEF Certs
  <1>2. nextKey' \in Nat
    BY EnrolmentAssumption
  <1>3. /\ \A c \in Certs' : c = NoCert \/ Issued(c)'
        /\ \A c, d \in Certs' : c.key = d.key => c = d
    BY <1>1, <1>2, NoNewCert
  <1> QED BY <1>3 DEF Identities

-------------------------------------------------------------------------------
(* A handshake, the node's tables after it. *)
LEMMA ConnectInv ==
  ASSUME Inv, NEW n \in Node, Connect(n)
  PROVE  Inv'
  <1>1. PICK c : c = daemon[n].cert
    OBVIOUS
  <1>2. PICK R : R = authorized_peer_routes(c)
    OBVIOUS
  <1>3. /\ sessions' = sessions \cup {c}
        /\ table' = InsertAll(table, R, c.key)
        /\ kernel' = kernel \cup R
        /\ contested' = (contested \ R)
               \cup UNION {R \cap authorized_peer_routes(d) : d \in sessions \ {c}}
    BY <1>1, <1>2, Zenon DEF Connect, KernelWith
  <1>4. /\ now' = now /\ nextKey' = nextKey /\ caCert' = caCert /\ caKey' = caKey
        /\ certFile' = certFile /\ keyFile' = keyFile /\ daemon' = daemon
    BY DEF Connect, enrolmentVars, filesVars
  <1>5. c \in Certs /\ c # NoCert /\ Issued(c)
    BY <1>1 DEF Connect, Up, Inv, Identities, Certs
  <1>6. Identities'
    <2>1. sessions' \subseteq sessions \cup {daemon[m].cert : m \in Node}
      BY <1>1, <1>3
    <2>2. NoCert \notin sessions'
      BY <1>3, <1>5 DEF Inv, Identities
    <2>3. nextKey <= nextKey'
      BY <1>4, EnrolmentAssumption DEF Inv, Identities
    <2>4. /\ now' \in 0 .. MaxTime /\ nextKey' \in 1 .. MaxKey + 1
          /\ caCert' \in 0 .. MaxKey /\ caKey' \in 0 .. MaxKey /\ keyFile' \in [Node -> 0 .. MaxKey]
      BY <1>4, Zenon DEF Inv, Identities
    <2> QED BY <1>4, <2>1, <2>2, <2>3, <2>4, OtherIdentities DEF Inv
  <1>7. R \in SUBSET Network /\ IsFiniteSet(R) /\ c.key \in Nat
    BY <1>2, <1>5, RoutesFacts DEF Issued
  <1>8. \A d \in sessions : d.key = c.key => d = c
    BY <1>5 DEF Inv, Identities, Certs
  <1>9. table' \in Seq(Entry) /\ Range(table') = Inserted(table, R, c.key)
    BY <1>3, <1>7, InsertAllFacts DEF Inv, Tables
  <1>10. \A e \in Range(table') :
            \/ e \in Range(table) /\ e.net \notin R
            \/ e.net \in R /\ e.peer = c.key
    <2>1. \A m : [net |-> m, peer |-> c.key].net = m /\ [net |-> m, peer |-> c.key].peer = c.key
      OBVIOUS
    <2>2. \A e \in Inserted(table, R, c.key) :
             \/ e \in Range(table) /\ e.net \notin R
             \/ \E m \in R : e = [net |-> m, peer |-> c.key]
      BY Zenon DEF Inserted
    <2>3. \A e \in Inserted(table, R, c.key) :
             \/ e \in Range(table) /\ e.net \notin R
             \/ e.net \in R /\ e.peer = c.key
      BY <2>1, <2>2, Zenon
    <2> QED BY <1>9, <2>3, Zenon
  <1>11. \A e \in Range(table') :
            \E d \in sessions' : e.peer = d.key /\ e.net \in authorized_peer_routes(d)
    <2>1. \A e \in Range(table) :
             \E d \in sessions : e.peer = d.key /\ e.net \in authorized_peer_routes(d)
      BY DEF Inv, Tables
    <2> QED BY <1>2, <1>3, <1>10, <2>1
  <1>12. \A m \in R, d \in sessions \ {c} : m \in authorized_peer_routes(d) => m \in contested'
    BY <1>3
  <1>13. \A m \in contested : m \notin R => m \in contested'
    BY <1>3
  <1>14. \A m : m \in contested' /\ m \notin R => m \in contested
    BY <1>3
  <1>15. ASSUME NEW d \in sessions', NEW e \in sessions', d # e,
                NEW m \in authorized_peer_routes(d) \cap authorized_peer_routes(e)
         PROVE  m \in contested'
    <2>1. CASE m \in R
      BY <1>3, <1>12, <1>15, <2>1
    <2>2. CASE m \notin R
      <3>1. d \in sessions /\ e \in sessions
        BY <1>2, <1>3, <1>15, <2>2
      <3> QED BY <1>13, <1>15, <2>2, <3>1 DEF Inv, Tables
    <2> QED BY <2>1, <2>2
  <1>16. ASSUME NEW d \in sessions', NEW m \in authorized_peer_routes(d) \ contested'
         PROVE  [net |-> m, peer |-> d.key] \in Range(table')
    <2>1. CASE d = c
      BY <1>2, <1>9, <1>16, <2>1 DEF Inserted
    <2>2. CASE d # c
      <3>1. d \in sessions /\ m \notin R /\ m \notin contested
        BY <1>3, <1>12, <1>13, <1>16, <2>2
      <3>2. [net |-> m, peer |-> d.key] \in Range(table)
        BY <1>16, <3>1 DEF Inv, Tables
      <3> QED BY <1>9, <3>1, <3>2 DEF Inserted
    <2> QED BY <2>1, <2>2
  <1>17. contested' \in SUBSET Network
    BY <1>3, <1>7 DEF Inv, Tables
  <1>18. TableNets' \subseteq kernel' \cup contested'
    <2>1. \A e \in Range(table) : e.net \in kernel \cup contested
      BY DEF Inv, Tables, KernelFollowsSessions, TableNets, Range
    <2>2. \A e \in Range(table') : e.net \in kernel' \cup contested'
      BY <1>3, <1>10, <1>13, <2>1
    <2> QED BY <2>2 DEF TableNets, Range
  <1>19. kernel' \subseteq UNION {authorized_peer_routes(d) : d \in sessions'}
    BY <1>2, <1>3 DEF Inv, Tables, KernelFollowsSessions
  <1>20. Tables'
    BY <1>9, <1>11, <1>15, <1>16, <1>17, <1>18, <1>19 DEF Tables, KernelFollowsSessions
  <1> QED BY <1>6, <1>20 DEF Inv

(* remove_peer: of a network the peer shared with another, the OS loses    *)
(* the route and the table keeps it; such networks are contested.          *)
LEMMA RemoveInv ==
  ASSUME Inv, NEW c \in sessions, Remove(c)
  PROVE  Inv'
  <1>1. PICK R : R = authorized_peer_routes(c)
    OBVIOUS
  <1>2. /\ sessions' = sessions \ {c} /\ table' = RemovePeer(table, c.key)
        /\ kernel' = kernel \ R /\ contested' = contested
    BY <1>1 DEF Remove, KernelWithout
  <1>3. /\ now' = now /\ nextKey' = nextKey /\ caCert' = caCert /\ caKey' = caKey
        /\ certFile' = certFile /\ keyFile' = keyFile /\ daemon' = daemon
    BY DEF Remove, enrolmentVars, filesVars
  <1>4. Identities'
    <2>1. sessions' \subseteq sessions \cup {daemon[m].cert : m \in Node} /\ NoCert \notin sessions'
      BY <1>2 DEF Inv, Identities
    <2>2. nextKey <= nextKey'
      BY <1>3, EnrolmentAssumption DEF Inv, Identities
    <2>3. /\ now' \in 0 .. MaxTime /\ nextKey' \in 1 .. MaxKey + 1
          /\ caCert' \in 0 .. MaxKey /\ caKey' \in 0 .. MaxKey /\ keyFile' \in [Node -> 0 .. MaxKey]
      BY <1>3, Zenon DEF Inv, Identities
    <2> QED BY <1>3, <2>1, <2>2, <2>3, OtherIdentities DEF Inv
  <1>5. \A d \in sessions : d.key = c.key => d = c
    BY DEF Inv, Identities, Certs
  <1>6. table' \in Seq(Entry) /\ Range(table') = {e \in Range(table) : e.peer # c.key}
    BY <1>2, RemovePeerFacts DEF Inv, Tables
  <1>7. \A e \in Range(table') :
            \E d \in sessions' : e.peer = d.key /\ e.net \in authorized_peer_routes(d)
    <2>1. \A e \in Range(table) :
             \E d \in sessions : e.peer = d.key /\ e.net \in authorized_peer_routes(d)
      BY DEF Inv, Tables
    <2> QED BY <1>2, <1>6, <2>1
  <1>8. \A d, e \in sessions' :
           d # e => authorized_peer_routes(d) \cap authorized_peer_routes(e) \subseteq contested'
    BY <1>2 DEF Inv, Tables
  <1>9. ASSUME NEW d \in sessions', NEW m \in authorized_peer_routes(d) \ contested'
        PROVE  [net |-> m, peer |-> d.key] \in Range(table')
    <2>1. d \in sessions /\ d.key # c.key
      BY <1>2, <1>5
    <2>2. [net |-> m, peer |-> d.key] \in Range(table)
      BY <1>2, <1>9, <2>1 DEF Inv, Tables
    <2> QED BY <1>6, <2>1, <2>2
  <1>10. TableNets' \subseteq kernel' \cup contested'
    <2>1. ASSUME NEW e \in Range(table') PROVE e.net \in kernel' \cup contested'
      <3>1. PICK d \in sessions' : e.net \in authorized_peer_routes(d)
        BY <1>7
      <3>2. e.net \in R => e.net \in contested
        BY <1>1, <1>2, <3>1 DEF Inv, Tables
      <3>3. e.net \in kernel \cup contested
        BY <1>6 DEF Inv, Tables, KernelFollowsSessions, TableNets, Range
      <3> QED BY <1>2, <3>2, <3>3
    <2> QED BY <2>1 DEF TableNets, Range
  <1>11. kernel' \subseteq UNION {authorized_peer_routes(d) : d \in sessions'}
    BY <1>1, <1>2 DEF Inv, Tables, KernelFollowsSessions
  <1>12. contested' \in SUBSET Network
    BY <1>2 DEF Inv, Tables
  <1>13. Tables'
    BY <1>6, <1>7, <1>8, <1>9, <1>10, <1>11, <1>12 DEF Tables, KernelFollowsSessions
  <1> QED BY <1>4, <1>13 DEF Inv

(* Nothing is left of a node that is killed. *)
LEMMA EmptyTables ==
  sessions = {} /\ table = <<>> /\ kernel = {} /\ contested = {} => Tables
  <1> SUFFICES ASSUME sessions = {}, table = <<>>, kernel = {}, contested = {}
               PROVE  Tables
    OBVIOUS
  <1>1. Range(table) = {} /\ TableNets = {} /\ table \in Seq(Entry)
    BY DEF Range, TableNets
  <1> QED BY <1>1 DEF Tables, KernelFollowsSessions

(* liteway-cert, the daemons and the clock leave the tables alone. *)
LEMMA OthersInv ==
  ASSUME Inv, Others
  PROVE  Inv'
  <1>1. EnrolmentNext /\ sessions' = sessions /\ table' = table /\ kernel' = kernel
           /\ contested' = contested
    BY DEF Others, tableVars
  <1>2. Tables'
    BY <1>1 DEF Inv, Tables, KernelFollowsSessions, TableNets
  <1>3. /\ now \in 0 .. MaxTime /\ nextKey \in 1 .. MaxKey + 1
        /\ caCert \in 0 .. MaxKey /\ caKey \in 0 .. MaxKey /\ keyFile \in [Node -> 0 .. MaxKey]
        /\ NoCert \notin sessions'
    BY <1>1 DEF Inv, Identities
  <1>4. MaxKey \in Nat /\ MaxTime \in Nat
    BY EnrolmentAssumption
  <1>5. Identities'
    <2>1. CASE GenCa
      <3>1. /\ nextKey <= MaxKey /\ nextKey' = nextKey + 1 /\ caCert' = nextKey
            /\ caKey' = IF caKey = 0 THEN nextKey ELSE caKey
            /\ now' = now /\ certFile' = certFile /\ keyFile' = keyFile /\ daemon' = daemon
        BY <2>1 DEF GenCa, FreshKeyPair, WritePrivate, None
      <3>2. /\ nextKey' \in 1 .. MaxKey + 1 /\ nextKey <= nextKey'
            /\ caCert' \in 0 .. MaxKey /\ caKey' \in 0 .. MaxKey
        BY <1>3, <1>4, <3>1
      <3> QED BY <1>1, <1>3, <3>1, <3>2, OtherIdentities DEF Inv
    <2>2. CASE Elapse
      <3>1. /\ now < MaxTime /\ now' = now + 1 /\ nextKey' = nextKey
            /\ caCert' = caCert /\ caKey' = caKey
            /\ certFile' = certFile /\ keyFile' = keyFile /\ daemon' = daemon
        BY <2>2 DEF Elapse, filesVars
      <3>2. now' \in 0 .. MaxTime /\ nextKey <= nextKey'
        BY <1>3, <1>4, <3>1
      <3> QED BY <1>1, <1>3, <3>1, <3>2, OtherIdentities DEF Inv
    <2>3. ASSUME NEW n \in Node, GenNode(n) PROVE Identities'
      BY <1>1, <2>3, GenNodeIdentities DEF Inv
    <2>4. ASSUME NEW n \in Node, DeleteKey(n) PROVE Identities'
      <3>1. /\ now' = now /\ nextKey' = nextKey /\ caCert' = caCert /\ caKey' = caKey
            /\ certFile' = certFile /\ daemon' = daemon /\ keyFile' = [keyFile EXCEPT ![n] = 0]
        BY <2>4 DEF DeleteKey, None
      <3>2. keyFile' \in [Node -> 0 .. MaxKey] /\ nextKey <= nextKey'
        BY <1>3, <1>4, <3>1
      <3> QED BY <1>1, <1>3, <3>1, <3>2, OtherIdentities DEF Inv
    <2>5. ASSUME NEW n \in Node, Start(n) PROVE Identities'
      BY <1>1, <2>5, StartIdentities DEF Inv
    <2>6. ASSUME NEW n \in Node, Crash(n) PROVE Identities'
      BY <1>1, <2>6, CrashIdentities DEF Inv
    <2> QED BY <1>1, <2>1, <2>2, <2>3, <2>4, <2>5, <2>6, Zenon DEF EnrolmentNext
  <1> QED BY <1>2, <1>5 DEF Inv

(* The mesh starts with no files, daemons or sessions. *)
LEMMA InitInv == Init => Inv
  <1> SUFFICES ASSUME Init PROVE Inv
    OBVIOUS
  <1>1. Tables
    BY EmptyTables DEF Init
  <1>2. /\ now = 0 /\ nextKey = 1 /\ caCert = 0 /\ caKey = 0 /\ sessions = {}
        /\ certFile = [n \in Node |-> NoCert] /\ keyFile = [n \in Node |-> 0]
        /\ daemon = [n \in Node |-> Stopped] /\ Stopped.cert = NoCert
    BY DEF Init, EnrolmentInit, None, Stopped
  <1>3. \A c \in Certs : c = NoCert
    BY <1>2, Zenon DEF Certs
  <1>4. Identities
    BY <1>2, <1>3, EnrolmentAssumption DEF Identities
  <1> QED BY <1>1, <1>4 DEF Inv

(* Every step keeps the invariant. *)
LEMMA NextInv == Inv /\ [Next]_vars => Inv'
  <1> SUFFICES ASSUME Inv, [Next]_vars PROVE Inv'
    OBVIOUS
  <1>1. CASE Others
    BY <1>1, OthersInv
  <1>2. CASE CrashSelf
    <2>1. sessions' = {} /\ table' = <<>> /\ kernel' = {} /\ contested' = {} /\ Crash(Self)
      BY <1>2 DEF CrashSelf
    <2>2. Identities'
      BY <2>1, CrashIdentities, SelfAssumption DEF Inv
    <2>3. (sessions = {} /\ table = <<>> /\ kernel = {} /\ contested = {} => Tables)'
      BY EmptyTables, PTL
    <2> QED BY <2>1, <2>2, <2>3 DEF Inv
  <1>3. ASSUME NEW n \in Node, Connect(n) PROVE Inv'
    BY <1>3, ConnectInv
  <1>4. ASSUME NEW c \in sessions, Remove(c) PROVE Inv'
    BY <1>4, RemoveInv
  <1>5. CASE UNCHANGED vars
    BY <1>5 DEF vars, enrolmentVars, filesVars, tableVars, Inv, Identities, Certs, Issued, Tables,
                KernelFollowsSessions, TableNets
  <1> QED BY <1>1, <1>2, <1>3, <1>4, <1>5, Zenon DEF Next

(* The invariant holds of every state. *)
LEMMA Invariant == Spec => []Inv
  BY InitInv, NextInv, PTL DEF Spec

-------------------------------------------------------------------------------
(* Every variable keeps its type, and no two peers with a session have the *)
(* same key: a renewed certificate never passes for the one it replaces.   *)
THEOREM TypeCorrect == Spec => []TypeOK
  <1>1. Inv => TypeOK
    <2> SUFFICES ASSUME Inv PROVE TypeOK
      OBVIOUS
    <2>1. MaxKey \in Nat
      BY EnrolmentAssumption
    <2>2. \A n \in Node : certFile[n].key \in 0 .. MaxKey /\ keyFile[n] \in 0 .. MaxKey
      <3>1. \A n \in Node : certFile[n] \in Certs
        BY DEF Certs
      <3>2. \A c \in Certs : c.key \in 0 .. MaxKey
        <4>1. NoCert.key = 0
          BY DEF NoCert, None
        <4> QED BY <2>1, <4>1 DEF Inv, Identities, Issued
      <3> QED BY <3>1, <3>2 DEF Inv, Identities
    <2>3. \A c \in sessions : Issued(c) /\ authorized_peer_routes(c) \in SUBSET Network
      <3>1. \A c \in sessions : Issued(c)
        BY DEF Inv, Identities, Certs
      <3> QED BY <3>1, RoutesFacts
    <2>4. \A e \in Range(table) : e.net \in Network /\ e.peer \in 1 .. MaxKey
      BY <2>3 DEF Inv, Tables, Issued
    <2>5. \A i \in DOMAIN table : table[i] \in Range(table)
      BY DEF Range
    <2>6. kernel \subseteq Network
      BY <2>3 DEF Inv, Tables, KernelFollowsSessions
    <2>7. \A c, d \in sessions : c.key = d.key => c = d
      BY DEF Inv, Identities, Certs
    <2> QED BY <2>2, <2>4, <2>5, <2>6, <2>7 DEF TypeOK, Inv, Identities, Tables
  <1> QED BY <1>1, Invariant, PTL

(* lookup leads to a peer with a session, whose certificate covers the     *)
(* address: what send_to_overlay sends, the peer's accepts_destination     *)
(* takes, and what it answers passes peer_allows_ip_packet_source.         *)
THEOREM RoutedPacketsAreAccepted == Spec => []RoutedIsAccepted
  <1>1. Inv => RoutedIsAccepted
    <2> SUFFICES ASSUME Inv, NEW dst \in Address, LookUp(table, dst) # NoPeer
                 PROVE  \E c \in sessions : /\ c.key = LookUp(table, dst)
                                            /\ accepts_destination(c, dst)
                                            /\ peer_allows_ip_packet_source(c, dst)
      BY DEF RoutedIsAccepted
    <2>1. PICK e \in Range(table) : Covers(e.net, dst) /\ e.peer = LookUp(table, dst)
      BY LookUpFacts DEF Inv, Tables
    <2>2. PICK c \in sessions : e.peer = c.key /\ e.net \in authorized_peer_routes(c)
      BY DEF Inv, Tables
    <2> QED BY <2>1, <2>2 DEF accepts_destination, peer_allows_ip_packet_source
  <1> QED BY <1>1, Invariant, PTL

(* lookup prefers the longest prefix of those the connected peers hold,    *)
(* whatever order add_peer and remove_peer came in; only a network that    *)
(* two sessions held at once may be missing.                               *)
THEOREM LongestPrefixWins == Spec => []MostSpecificWins
  <1>1. Inv => MostSpecificWins
    <2> SUFFICES ASSUME Inv, NEW c \in sessions, NEW dst \in Address,
                        NEW n \in authorized_peer_routes(c) \ contested, Covers(n, dst)
                 PROVE  \E d \in sessions : /\ d.key = LookUp(table, dst)
                                            /\ \E m \in authorized_peer_routes(d) :
                                                   Covers(m, dst) /\ m.len >= n.len
      BY DEF MostSpecificWins
    <2>1. PICK f \in Range(table) : f.net = n
      <3>1. [net |-> n, peer |-> c.key] \in Range(table)
        BY DEF Inv, Tables
      <3>2. [net |-> n, peer |-> c.key].net = n
        OBVIOUS
      <3> QED BY <3>1, <3>2, Zenon
    <2>2. PICK e \in Range(table) : /\ Covers(e.net, dst) /\ e.peer = LookUp(table, dst)
                                    /\ e.net.len >= n.len
      BY <2>1, LookUpFacts DEF Inv, Tables
    <2>3. PICK d \in sessions : e.peer = d.key /\ e.net \in authorized_peer_routes(d)
      BY DEF Inv, Tables
    <2> QED BY <2>2, <2>3
  <1> QED BY <1>1, Invariant, PTL

(* The OS has a route for what the table can send, and none for what no    *)
(* session is behind; where remove_peer deleted a route that another       *)
(* session still needs, two sessions had held the network at once.         *)
THEOREM KernelAndTableAgree == Spec => []KernelFollowsSessions
  <1>1. Inv => KernelFollowsSessions
    BY DEF Inv, Tables
  <1> QED BY <1>1, Invariant, PTL

(* What the tables do is nothing to the files and the daemons, so the data *)
(* plane implements the enrolment and has its guarantee.                   *)
THEOREM DataPlaneEnrols == Spec => EnrolmentSpec
  <1>1. Init => EnrolmentInit
    BY DEF Init
  <1>2. [Next]_vars => [EnrolmentNext]_enrolmentVars
    <2>1. Others => EnrolmentNext
      BY DEF Others
    <2>2. CrashSelf => EnrolmentNext
      BY SelfAssumption DEF CrashSelf, EnrolmentNext
    <2>3. ASSUME NEW n \in Node, Connect(n) PROVE UNCHANGED enrolmentVars
      BY <2>3 DEF Connect
    <2>4. ASSUME NEW c \in sessions, Remove(c) PROVE UNCHANGED enrolmentVars
      BY <2>4 DEF Remove, enrolmentVars
    <2>5. UNCHANGED vars => UNCHANGED enrolmentVars
      BY DEF vars
    <2> QED BY <2>1, <2>2, <2>3, <2>4, <2>5, Zenon DEF Next
  <1> QED BY <1>1, <1>2, PTL DEF Spec, EnrolmentSpec

(* Daemons that read the same CA file agree in the data plane as well,     *)
(* which the handshake behind Connect relies on (process_handshake_1).     *)
THEOREM PeersAgree == Spec => []StartedAgree
  BY DataPlaneEnrols, StartedDaemonsAgree, PTL
===============================================================================

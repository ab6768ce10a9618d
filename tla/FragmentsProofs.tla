---------------------------- MODULE FragmentsProofs ---------------------------
(***************************************************************************)
(* Proofs about Fragments, for any sources, messages, limits and ages.     *)
(***************************************************************************)
EXTENDS Fragments, Functions, FiniteSetTheorems, WellFoundedInduction, TLAPS

-------------------------------------------------------------------------------
(* Sums over finite sets.  Induction takes the form of a least             *)
(* counterexample: the library's induction theorems have an operator as a  *)
(* parameter, its minimum theorem has not.                                 *)

(* A set of numbers has a least one. *)
LEMMA LeastNumber ==
  ASSUME NEW T \in SUBSET Nat, T # {}
  PROVE  \E x \in T : \A y \in T : x <= y
  <1> DEFINE R == {ss \in Nat \X Nat : ss[1] < ss[2]}
  <1>1. IsWellFoundedOn(R, Nat)
    BY NatLessThanWellFounded DEF OpToRel
  <1>2. \A x, y \in Nat : <<y, x>> \in R <=> y < x
    OBVIOUS
  <1> HIDE DEF R
  <1>3. PICK x \in T : \A y \in T : ~(<<y, x>> \in R)
    BY <1>1, WFMin, Zenon
  <1>4. \A y \in T : ~(y < x)
    BY <1>2, <1>3, Zenon
  <1> QED BY <1>4

(* Among finite sets there is a smallest. *)
LEMMA SmallestSet ==
  ASSUME NEW C, C # {}, \A s \in C : IsFiniteSet(s)
  PROVE  \E s \in C : \A t \in C : Cardinality(s) <= Cardinality(t)
  <1> DEFINE N == {Cardinality(s) : s \in C}
  <1>1. \A s \in C : Cardinality(s) \in Nat
    BY FS_CardinalityType
  <1>2. N \in SUBSET Nat /\ N # {}
    BY <1>1
  <1> HIDE DEF N
  <1>3. PICK n \in N : \A m \in N : n <= m
    BY <1>2, LeastNumber
  <1> QED BY <1>3 DEF N

(* The element a sum takes next. *)
Pick(s) == CHOOSE x \in s : TRUE

(* h is the running sum of f over the subsets of S, as SumFunctionOnSet    *)
(* builds it, one chosen element at a time.                                *)
IsSum(h, f, S) ==
  h = [s \in SUBSET S |-> IF s = {} THEN 0 ELSE f[Pick(s)] + h[s \ {Pick(s)}]]

(* It is an element. *)
LEMMA PickIn == \A s : s # {} => Pick(s) \in s
  BY DEF Pick

(* A finite set has a running sum. *)
LEMMA SumExists ==
  ASSUME NEW f, NEW S, IsFiniteSet(S)
  PROVE  \E h : IsSum(h, f, S)
  <1> DEFINE D(n) == {s \in SUBSET S : Cardinality(s) <= n}
             Q(n) == \E h : h = [s \in D(n) |-> IF s = {} THEN 0
                                                ELSE f[Pick(s)] + h[s \ {Pick(s)}]]
             Bad == {n \in Nat : ~Q(n)}
  <1>0. \A s \in SUBSET S : IsFiniteSet(s) /\ Cardinality(s) \in Nat
    BY FS_Subset, FS_CardinalityType
  <1>1. Bad = {}
    <2> SUFFICES ASSUME Bad # {} PROVE FALSE
      BY Zenon
    <2>1. PICK n \in Bad : \A m \in Bad : n <= m
      BY LeastNumber, Zenon
    <2>2. CASE n = 0
      <3>1. \A s \in D(0) : s = {}
        BY <1>0, FS_EmptySet
      <3> DEFINE h == [s \in D(0) |-> 0]
      <3>2. h = [s \in D(0) |-> IF s = {} THEN 0 ELSE f[Pick(s)] + h[s \ {Pick(s)}]]
        BY <3>1
      <3> QED BY <2>1, <2>2, <3>2, Zenon
    <2>3. CASE n # 0
      <3>0. n - 1 \in Nat /\ n - 1 \notin Bad
        <4> HIDE DEF Q
        <4> QED BY <2>1, <2>3
      <3>1. n - 1 \in Nat /\ Q(n - 1)
        <4> HIDE DEF Q
        <4> QED BY <3>0
      <3>2. PICK g : g = [s \in D(n - 1) |-> IF s = {} THEN 0
                                             ELSE f[Pick(s)] + g[s \ {Pick(s)}]]
        BY <3>1, Zenon
      <3> DEFINE h == [s \in D(n) |-> IF s = {} THEN 0 ELSE f[Pick(s)] + g[s \ {Pick(s)}]]
      <3>3. \A s \in D(n) : s # {} => s \ {Pick(s)} \in D(n - 1) /\ s \ {Pick(s)} \in D(n)
        BY <1>0, <2>1, <3>1, PickIn, FS_RemoveElement
      <3>4. \A s \in D(n - 1) : s \in D(n) /\ g[s] = h[s]
        <4>1. n \in Nat
          <5> HIDE DEF Q
          <5> QED BY <2>1
        <4>2. \A s \in D(n - 1) : s \in D(n)
          BY <1>0, <3>0, <4>1
        <4>3. \A s \in D(n - 1) : g[s] = IF s = {} THEN 0 ELSE f[Pick(s)] + g[s \ {Pick(s)}]
          <5> HIDE DEF D
          <5> QED BY <3>2, Zenon
        <4>4. \A s \in D(n) : h[s] = IF s = {} THEN 0 ELSE f[Pick(s)] + g[s \ {Pick(s)}]
          <5> HIDE DEF D
          <5> QED OBVIOUS
        <4> HIDE DEF D, h
        <4> QED BY <4>2, <4>3, <4>4, Zenon
      <3>5. \A s \in D(n) : s # {} => h[s \ {Pick(s)}] = g[s \ {Pick(s)}]
        BY <3>3, <3>4, Zenon
      <3>6. h = [s \in D(n) |-> IF s = {} THEN 0 ELSE f[Pick(s)] + h[s \ {Pick(s)}]]
        BY <3>5, Zenon
      <3> QED BY <2>1, <3>6, Zenon
    <2> QED BY <2>2, <2>3
  <1>2. Cardinality(S) \in Nat /\ D(Cardinality(S)) = SUBSET S
    BY FS_CardinalityType, FS_Subset
  <1>3. Q(Cardinality(S))
    BY <1>1, <1>2, Zenon
  <1> QED BY <1>2, <1>3, Zenon DEF IsSum

(* The library's sum is a running sum's value at the whole set. *)
LEMMA SumIsSum ==
  ASSUME NEW f, NEW S, IsFiniteSet(S)
  PROVE  \E h : IsSum(h, f, S) /\ SumFunctionOnSet(f, S) = h[S]
  <1> DEFINE h == CHOOSE h : IsSum(h, f, S)
  <1>1. IsSum(h, f, S)
    BY SumExists, Zenon
  <1>2. SumFunctionOnSet(f, S) = h[S]
    BY Zenon DEF SumFunctionOnSet, FoldFunctionOnSet, MapThenFoldSet, IsSum, Pick
  <1> QED BY <1>1, <1>2, Zenon

(* Running sums over different sets agree where both are defined. *)
LEMMA SumUnique ==
  ASSUME NEW f, NEW S, NEW T, IsFiniteSet(S), NEW h, NEW k,
         IsSum(h, f, S), IsSum(k, f, T), NEW U \in SUBSET (S \cap T)
  PROVE  h[U] = k[U]
  <1> DEFINE Bad == {s \in SUBSET (S \cap T) : h[s] # k[s]}
  <1>1. \A s \in SUBSET S : h[s] = IF s = {} THEN 0 ELSE f[Pick(s)] + h[s \ {Pick(s)}]
    BY Zenon DEF IsSum
  <1>2. \A s \in SUBSET T : k[s] = IF s = {} THEN 0 ELSE f[Pick(s)] + k[s \ {Pick(s)}]
    BY Zenon DEF IsSum
  <1>3. \A s \in SUBSET (S \cap T) : s \in SUBSET S /\ s \in SUBSET T /\ IsFiniteSet(s)
    BY FS_Subset
  <1>4. ASSUME Bad # {} PROVE FALSE
    <2>1. PICK s \in Bad : \A t \in Bad : Cardinality(s) <= Cardinality(t)
      BY <1>3, <1>4, SmallestSet, Zenon
    <2>2. s # {}
      BY <1>1, <1>2, <1>3, <2>1
    <2>3. s \ {Pick(s)} \in SUBSET (S \cap T)
      BY <2>1
    <2>4. Cardinality(s \ {Pick(s)}) = Cardinality(s) - 1 /\ Cardinality(s) \in Nat
      BY <1>3, <2>1, <2>2, PickIn, FS_RemoveElement, FS_CardinalityType, Zenon
    <2>4a. s \ {Pick(s)} \in Bad => Cardinality(s) <= Cardinality(s \ {Pick(s)})
      BY <2>1
    <2>5. h[s \ {Pick(s)}] = k[s \ {Pick(s)}]
      BY <2>3, <2>4, <2>4a
    <2> QED BY <1>1, <1>2, <1>3, <2>1, <2>2, <2>5
  <1> QED BY <1>4

(* The sum over nothing. *)
LEMMA SumEmpty == \A f : SumFunctionOnSet(f, {}) = 0
  <1> TAKE f
  <1>1. PICK h : IsSum(h, f, {}) /\ SumFunctionOnSet(f, {}) = h[{}]
    BY SumIsSum, FS_EmptySet
  <1> QED BY <1>1 DEF IsSum

(* The sum over a set, from the sum without the element chosen. *)
LEMMA SumPick ==
  ASSUME NEW f, NEW S, IsFiniteSet(S), S # {}
  PROVE  SumFunctionOnSet(f, S) = f[Pick(S)] + SumFunctionOnSet(f, S \ {Pick(S)})
  <1> DEFINE R == S \ {Pick(S)}
  <1>1. PICK h : IsSum(h, f, S) /\ SumFunctionOnSet(f, S) = h[S]
    BY SumIsSum
  <1>2. IsFiniteSet(R)
    BY FS_Subset
  <1>3. PICK k : IsSum(k, f, R) /\ SumFunctionOnSet(f, R) = k[R]
    BY <1>2, SumIsSum
  <1>4. h[R] = k[R]
    BY <1>1, <1>3, SumUnique
  <1>5. h[S] = f[Pick(S)] + h[R]
    BY <1>1, Zenon DEF IsSum
  <1> QED BY <1>1, <1>3, <1>4, <1>5

(* A sum of natural numbers is one. *)
LEMMA SumType ==
  ASSUME NEW f, NEW S, IsFiniteSet(S), \A x \in S : f[x] \in Nat
  PROVE  SumFunctionOnSet(f, S) \in Nat
  <1> DEFINE Bad == {s \in SUBSET S : SumFunctionOnSet(f, s) \notin Nat}
  <1>1. \A s \in SUBSET S : IsFiniteSet(s) /\ Cardinality(s) \in Nat
    BY FS_Subset, FS_CardinalityType
  <1>2. ASSUME Bad # {} PROVE FALSE
    <2>1. PICK s \in Bad : \A t \in Bad : Cardinality(s) <= Cardinality(t)
      BY <1>1, <1>2, SmallestSet, Zenon
    <2>2. s # {}
      BY <2>1, SumEmpty
    <2> DEFINE r == s \ {Pick(s)}
    <2>3. r \in SUBSET S /\ Cardinality(r) = Cardinality(s) - 1 /\ Pick(s) \in S
      BY <1>1, <2>1, <2>2, PickIn, FS_RemoveElement
    <2>4. r \in Bad => Cardinality(s) <= Cardinality(r)
      BY <2>1
    <2>5. SumFunctionOnSet(f, r) \in Nat
      BY <1>1, <2>1, <2>3, <2>4
    <2>6. SumFunctionOnSet(f, s) = f[Pick(s)] + SumFunctionOnSet(f, r)
      BY <1>1, <2>1, <2>2, SumPick
    <2> QED BY <2>1, <2>3, <2>5, <2>6
  <1> QED BY <1>2

(* The order does not matter: any element may be the one taken. *)
LEMMA SumTake ==
  ASSUME NEW f, NEW S, IsFiniteSet(S), \A x \in S : f[x] \in Nat, NEW e \in S
  PROVE  SumFunctionOnSet(f, S) = f[e] + SumFunctionOnSet(f, S \ {e})
  <1> DEFINE Sum(s) == SumFunctionOnSet(f, s)
             Bad == {s \in SUBSET S : \E x \in s : Sum(s) # f[x] + Sum(s \ {x})}
  <1>1. \A s \in SUBSET S : IsFiniteSet(s) /\ Cardinality(s) \in Nat
    BY FS_Subset, FS_CardinalityType
  <1>2. \A s \in SUBSET S : Sum(s) \in Nat
    BY <1>1, SumType
  <1>3. \A s \in SUBSET S : s # {} => Sum(s) = f[Pick(s)] + Sum(s \ {Pick(s)})
    BY <1>1, SumPick
  <1> HIDE DEF Sum
  <1>4. ASSUME Bad # {} PROVE FALSE
    <2>1. PICK s \in Bad : \A t \in Bad : Cardinality(s) <= Cardinality(t)
      BY <1>1, <1>4, SmallestSet, Zenon
    <2>2. PICK x \in s : Sum(s) # f[x] + Sum(s \ {x})
      BY <2>1
    <2> DEFINE p == Pick(s)
               r == s \ {p}
               q == s \ {x}
    <2>3. p \in s /\ p # x /\ s \in SUBSET S
      BY <1>3, <2>1, <2>2, PickIn
    <2>4. r \in SUBSET S /\ q \in SUBSET S /\ x \in r /\ p \in q
          /\ r \ {x} \in SUBSET S /\ q \ {p} = r \ {x}
      BY <2>2, <2>3
    <2>5. Cardinality(r) = Cardinality(s) - 1 /\ Cardinality(q) = Cardinality(s) - 1
      BY <1>1, <2>2, <2>3, FS_RemoveElement
    <2>6. r \notin Bad /\ q \notin Bad
      <3> HIDE DEF Bad, r, q
      <3> QED BY <1>1, <2>1, <2>3, <2>5
    <2>7. Sum(r) = f[x] + Sum(r \ {x})
      BY <2>4, <2>6, Zenon
    <2>8. Sum(q) = f[p] + Sum(q \ {p})
      BY <2>4, <2>6, Zenon
    <2>9. Sum(s) = f[p] + Sum(r)
      BY <1>3, <2>3
    <2>10. f[p] \in Nat /\ f[x] \in Nat /\ Sum(r \ {x}) \in Nat
      BY <1>2, <2>2, <2>3, <2>4
    <2>11. Sum(q) = f[p] + Sum(r \ {x})
      BY <2>4, <2>8
    <2>12. Sum(s) = f[x] + Sum(q)
      BY <2>7, <2>9, <2>10, <2>11
    <2> QED BY <2>2, <2>12
  <1>5. S \notin Bad
    BY <1>4
  <1> QED BY <1>5 DEF Sum

(* Only the values of the function on the set matter. *)
LEMMA SumSame ==
  ASSUME NEW f, NEW g, NEW S, IsFiniteSet(S), \A x \in S : f[x] \in Nat /\ f[x] = g[x]
  PROVE  SumFunctionOnSet(f, S) = SumFunctionOnSet(g, S)
  <1> DEFINE Bad == {s \in SUBSET S : SumFunctionOnSet(f, s) # SumFunctionOnSet(g, s)}
  <1>1. \A s \in SUBSET S : IsFiniteSet(s) /\ Cardinality(s) \in Nat
    BY FS_Subset, FS_CardinalityType
  <1>2. ASSUME Bad # {} PROVE FALSE
    <2>1. PICK s \in Bad : \A t \in Bad : Cardinality(s) <= Cardinality(t)
      BY <1>1, <1>2, SmallestSet, Zenon
    <2>2. s # {}
      BY <2>1, SumEmpty
    <2> DEFINE r == s \ {Pick(s)}
    <2>3. r \in SUBSET S /\ Cardinality(r) = Cardinality(s) - 1 /\ Pick(s) \in S
      BY <1>1, <2>1, <2>2, PickIn, FS_RemoveElement
    <2>4. r \in Bad => Cardinality(s) <= Cardinality(r)
      BY <2>1
    <2>5. SumFunctionOnSet(f, r) = SumFunctionOnSet(g, r)
      BY <1>1, <2>1, <2>3, <2>4
    <2>6. SumFunctionOnSet(f, s) = f[Pick(s)] + SumFunctionOnSet(f, r)
      BY <1>1, <2>1, <2>2, SumPick
    <2>7. SumFunctionOnSet(g, s) = g[Pick(s)] + SumFunctionOnSet(g, r)
      BY <1>1, <2>1, <2>2, SumPick
    <2> QED BY <2>1, <2>3, <2>5, <2>6, <2>7
  <1> QED BY <1>2

(* The sum over one element. *)
LEMMA SumSingle ==
  ASSUME NEW f, NEW x, f[x] \in Nat
  PROVE  SumFunctionOnSet(f, {x}) = f[x]
  <1>1. IsFiniteSet({x}) /\ {x} \ {x} = {} /\ x \in {x} /\ \A y \in {x} : f[y] \in Nat
    BY FS_Singleton, Zenon
  <1>2. SumFunctionOnSet(f, {x}) = f[x] + SumFunctionOnSet(f, {x} \ {x})
    BY <1>1, SumTake
  <1>3. SumFunctionOnSet(f, {x} \ {x}) = 0
    BY <1>1, SumEmpty
  <1> QED BY <1>2, <1>3

(* A sum splits into the sums over a part and over the rest. *)
LEMMA SumSplit ==
  ASSUME NEW f, NEW S, IsFiniteSet(S), \A x \in S : f[x] \in Nat, NEW T \in SUBSET S
  PROVE  SumFunctionOnSet(f, S) = SumFunctionOnSet(f, T) + SumFunctionOnSet(f, S \ T)
  <1> DEFINE Sum(s) == SumFunctionOnSet(f, s)
             Bad == {s \in SUBSET S : Sum(S) # Sum(s) + Sum(S \ s)}
  <1>1. \A s \in SUBSET S : IsFiniteSet(s) /\ Cardinality(s) \in Nat
    BY FS_Subset, FS_CardinalityType
  <1>2. \A s \in SUBSET S : Sum(s) \in Nat
    BY <1>1, SumType
  <1>3. \A s \in SUBSET S : \A x \in s : Sum(s) = f[x] + Sum(s \ {x})
    BY <1>1, SumTake, ZenonT(30)
  <1>4. Sum({}) = 0
    BY SumEmpty
  <1> HIDE DEF Sum
  <1>5. ASSUME Bad # {} PROVE FALSE
    <2>1. PICK s \in Bad : \A t \in Bad : Cardinality(s) <= Cardinality(t)
      BY <1>1, <1>5, SmallestSet, Zenon
    <2>2. s \in SUBSET S /\ Sum(S) # Sum(s) + Sum(S \ s)
      BY <2>1
    <2>3. s # {}
      <3>1. ASSUME s = {} PROVE FALSE
        <4>1. S \ s = S /\ Sum(S) \in Nat
          BY <1>2, <3>1
        <4> QED BY <1>4, <2>2, <3>1, <4>1
      <3> QED BY <3>1
    <2>4. PICK x \in s : TRUE
      BY <2>3
    <2> DEFINE r == s \ {x}
    <2>5. r \in SUBSET S /\ S \ s \in SUBSET S /\ S \ r \in SUBSET S
          /\ x \in S \ r /\ (S \ r) \ {x} = S \ s
      BY <2>2, <2>4
    <2>6. Cardinality(r) = Cardinality(s) - 1
      BY <1>1, <2>2, <2>4, FS_RemoveElement
    <2>7. r \notin Bad
      <3> HIDE DEF Bad, r
      <3> QED BY <1>1, <2>1, <2>2, <2>6
    <2>8. Sum(S) = Sum(r) + Sum(S \ r)
      BY <2>5, <2>7
    <2>9. Sum(s) = f[x] + Sum(r) /\ Sum(S \ r) = f[x] + Sum(S \ s)
      BY <1>3, <2>2, <2>4, <2>5
    <2>10. f[x] \in Nat /\ Sum(r) \in Nat /\ Sum(S \ s) \in Nat
      BY <1>2, <2>2, <2>4, <2>5
    <2>11. Sum(S) = Sum(s) + Sum(S \ s)
      <3> HIDE DEF r
      <3> QED BY <2>8, <2>9, <2>10
    <2> QED BY <2>2, <2>11
  <1>6. T \notin Bad
    BY <1>5, Zenon
  <1> QED BY <1>6 DEF Sum

(* Giving one element a new value, or adding it. *)
LEMMA SumPut ==
  ASSUME NEW f, NEW g, NEW S, IsFiniteSet(S), \A x \in S : f[x] \in Nat,
         NEW e, g[e] \in Nat, \A x \in S \ {e} : g[x] = f[x]
  PROVE  /\ e \in S => SumFunctionOnSet(g, S \cup {e}) = SumFunctionOnSet(f, S) + g[e] - f[e]
         /\ e \notin S => SumFunctionOnSet(g, S \cup {e}) = SumFunctionOnSet(f, S) + g[e]
  <1>1. IsFiniteSet(S \cup {e}) /\ IsFiniteSet(S \ {e})
    BY FS_AddElement, FS_RemoveElement
  <1>2. \A x \in S \cup {e} : g[x] \in Nat
    OBVIOUS
  <1>3. (S \cup {e}) \ {e} = S \ {e}
    OBVIOUS
  <1>4. SumFunctionOnSet(g, S \cup {e}) = g[e] + SumFunctionOnSet(g, S \ {e})
    BY <1>1, <1>2, <1>3, SumTake
  <1>5. SumFunctionOnSet(g, S \ {e}) = SumFunctionOnSet(f, S \ {e})
    BY <1>1, SumSame
  <1>6. SumFunctionOnSet(f, S \ {e}) \in Nat
    BY <1>1, SumType
  <1>7. CASE e \in S
    <2>1. SumFunctionOnSet(f, S) = f[e] + SumFunctionOnSet(f, S \ {e})
      BY <1>7, SumTake
    <2> QED BY <1>4, <1>5, <1>6, <1>7, <2>1
  <1>8. CASE e \notin S
    <2>1. S \ {e} = S
      BY <1>8
    <2>2. SumFunctionOnSet(g, S \cup {e}) = g[e] + SumFunctionOnSet(f, S)
      BY <1>4, <1>5, <2>1, Zenon
    <2>3. SumFunctionOnSet(f, S) \in Nat
      BY <1>6, <2>1, Zenon
    <2> QED BY <1>8, <2>2, <2>3
  <1> QED BY <1>7, <1>8

(* A sum of numbers of at most c. *)
LEMMA SumBound ==
  ASSUME NEW f, NEW S, IsFiniteSet(S), NEW c \in Nat, \A x \in S : f[x] \in 0 .. c
  PROVE  SumFunctionOnSet(f, S) <= Cardinality(S) * c
  <1> DEFINE Sum(s) == SumFunctionOnSet(f, s)
             Bad == {s \in SUBSET S : ~(Sum(s) <= Cardinality(s) * c)}
  <1>0. \A x \in S : f[x] \in Nat
    OBVIOUS
  <1>1. \A s \in SUBSET S : IsFiniteSet(s) /\ Cardinality(s) \in Nat
    BY FS_Subset, FS_CardinalityType
  <1>2. \A s \in SUBSET S : Sum(s) \in Nat
    BY <1>0, <1>1, SumType
  <1>3. \A s \in SUBSET S : \A x \in s : Sum(s) = f[x] + Sum(s \ {x})
    BY <1>0, <1>1, SumTake, ZenonT(30)
  <1>4. Sum({}) = 0 /\ Cardinality({}) = 0
    BY SumEmpty, FS_EmptySet
  <1> HIDE DEF Sum
  <1>5. ASSUME Bad # {} PROVE FALSE
    <2>1. PICK s \in Bad : \A t \in Bad : Cardinality(s) <= Cardinality(t)
      BY <1>1, <1>5, SmallestSet, Zenon
    <2>2. s \in SUBSET S /\ ~(Sum(s) <= Cardinality(s) * c)
      BY <2>1
    <2>3. s # {}
      BY <1>4, <2>2
    <2>4. PICK x \in s : TRUE
      BY <2>3
    <2> DEFINE r == s \ {x}
    <2>5. r \in SUBSET S /\ f[x] \in 0 .. c
      BY <2>2, <2>4
    <2>6. Cardinality(s) = Cardinality(r) + 1 /\ Cardinality(r) \in Nat
      BY <1>1, <2>2, <2>4, <2>5, FS_RemoveElement
    <2>7. r \notin Bad
      <3> HIDE DEF Bad, r
      <3> QED BY <1>1, <2>1, <2>2, <2>6
    <2>8. Sum(r) <= Cardinality(r) * c
      BY <2>5, <2>7
    <2>9. Sum(s) = f[x] + Sum(r) /\ Sum(r) \in Nat
      BY <1>2, <1>3, <2>2, <2>4, <2>5
    <2>10. (Cardinality(r) + 1) * c = Cardinality(r) * c + c
      <3> HIDE DEF r
      <3> QED BY <2>6
    <2>11. Sum(s) <= Cardinality(s) * c
      <3> HIDE DEF r
      <3> QED BY <2>5, <2>6, <2>8, <2>9, <2>10
    <2> QED BY <2>2, <2>11
  <1>6. S \notin Bad
    BY <1>5
  <1> QED BY <1>6 DEF Sum

-------------------------------------------------------------------------------
(* Counting the numbers up to n. *)
LEMMA CountTo ==
  ASSUME NEW n \in Nat
  PROVE  IsFiniteSet(1 .. n) /\ Cardinality(1 .. n) = n
  <1>1. IsFiniteSet(1 .. n) /\ Cardinality(1 .. n) = IF 1 > n THEN 0 ELSE n - 1 + 1
    BY FS_Interval
  <1> QED BY <1>1

(* The greater of two numbers. *)
LEMMA MaxOfTwo ==
  ASSUME NEW a \in Int, NEW b \in Int
  PROVE  Max({a, b}) = IF a >= b THEN a ELSE b
  BY DEF Max

(* The lesser of two numbers. *)
LEMMA MinOfTwo ==
  ASSUME NEW a \in Int, NEW b \in Int
  PROVE  Min({a, b}) = IF a <= b THEN a ELSE b
  BY DEF Min

(* Rounding a quotient up. *)
LEMMA ChunkCount ==
  ASSUME NEW len \in Nat, NEW c \in Nat \ {0}
  PROVE  \E t \in Nat : /\ t = (len + c - 1) \div c
                        /\ t * c >= len
                        /\ len > 0 => t >= 1 /\ (t - 1) * c < len
                        /\ len = 0 => t = 0
  <1> DEFINE t == (len + c - 1) \div c
  <1>1. t \in Int
    OBVIOUS
  <1>2. t * c <= len + c - 1 /\ len + c - 1 < (t + 1) * c
    OBVIOUS
  <1>3. t \in Nat /\ t * c >= len /\ (len > 0 => t >= 1 /\ (t - 1) * c < len)
        /\ (len = 0 => t = 0)
    BY <1>1, <1>2
  <1> QED BY <1>3

(* How many chunks: enough for the message, and no more. *)
LEMMA TotalFacts ==
  ASSUME NEW m \in Message
  PROVE  /\ Total(m) \in Nat \ {0} /\ m.len \in Nat
         /\ m.len <= Total(m) * ChunkSize
         /\ (Total(m) - 1) * ChunkSize <= m.len
  <1>1. m.len \in Nat /\ ChunkSize \in Nat \ {0}
    BY FragmentsAssumption
  <1>2. PICK t \in Nat : /\ t = (m.len + ChunkSize - 1) \div ChunkSize
                         /\ t * ChunkSize >= m.len
                         /\ m.len > 0 => t >= 1 /\ (t - 1) * ChunkSize < m.len
                         /\ m.len = 0 => t = 0
    BY <1>1, ChunkCount
  <1>3. Max({1, t}) = IF 1 >= t THEN 1 ELSE t
    BY <1>2, MaxOfTwo
  <1>4. Total(m) = IF 1 >= t THEN 1 ELSE t
    BY <1>2, <1>3 DEF Total
  <1>5. CASE m.len = 0
    BY <1>1, <1>2, <1>4, <1>5
  <1>6. CASE m.len > 0
    <2>1. Total(m) = t
      BY <1>2, <1>4, <1>6
    <2> QED BY <1>1, <1>2, <1>6, <2>1
  <1> QED BY <1>1, <1>5, <1>6

(* How long a chunk is: only the last one may be short. *)
LEMMA LenFacts ==
  ASSUME NEW m \in Message, NEW k \in Index(m)
  PROVE  /\ LenAt(m, k) \in 0 .. ChunkSize
         /\ k = Total(m) => LenAt(m, k) = m.len - (k - 1) * ChunkSize
  <1>1. ChunkSize \in Nat \ {0}
    BY FragmentsAssumption
  <1>2. /\ Total(m) \in Nat \ {0} /\ m.len \in Nat
        /\ m.len <= Total(m) * ChunkSize /\ (Total(m) - 1) * ChunkSize <= m.len
    BY TotalFacts
  <1>3. k \in Nat /\ 1 <= k /\ k <= Total(m)
    BY <1>2 DEF Index
  <1> DEFINE rest == m.len - (k - 1) * ChunkSize
  <1>4. rest \in Nat
    <2>1. (k - 1) * ChunkSize <= (Total(m) - 1) * ChunkSize
      BY <1>1, <1>2, <1>3
    <2> QED BY <1>1, <1>2, <1>3, <2>1
  <1>5. k = Total(m) => rest <= ChunkSize
    BY <1>1, <1>2, <1>3
  <1> HIDE DEF rest
  <1>6. Min({ChunkSize, rest}) = IF ChunkSize <= rest THEN ChunkSize ELSE rest
    BY <1>1, <1>4, MinOfTwo
  <1>7. LenAt(m, k) = IF ChunkSize <= rest THEN ChunkSize ELSE rest
    BY <1>6 DEF LenAt, rest
  <1>8. k = Total(m) => LenAt(m, k) = rest
    BY <1>1, <1>4, <1>5, <1>7
  <1> QED BY <1>1, <1>4, <1>7, <1>8 DEF rest

-------------------------------------------------------------------------------
(* What an entry under key is: a record whose chunks are of messages of    *)
(* the key's id and of the entry's total, with its bytes counted exactly;  *)
(* nothing renewed its age.                                                *)
EntryOK(key, e) ==
  /\ e = [total |-> e.total, chunks |-> e.chunks, bytes |-> e.bytes,
          age |-> e.age, held |-> e.held]
  /\ e.total \in Nat \ {0} /\ e.bytes \in Nat /\ e.age \in Nat /\ e.held = e.age
  /\ e.chunks \in [DOMAIN e.chunks -> Sent] /\ DOMAIN e.chunks \subseteq 1 .. e.total
  /\ \A k \in DOMAIN e.chunks : e.chunks[k].id = key[2] /\ Total(e.chunks[k]) = e.total
  /\ e.bytes = SumFunction(SlotLens(e))

(* Some slot is empty. *)
Incomplete(e) == DOMAIN e.chunks # 1 .. e.total

(* The inductive invariant.  An entry is no older than the cleanup age     *)
(* when a cleanup is done, and grows with the time since the last one.     *)
Inv ==
  /\ pending = [key \in Keys |-> pending[key]]
  /\ Keys \subseteq Src \X {m.id : m \in Message} /\ IsFiniteSet(Keys)
  /\ sinceCleanup \in 0 .. CleanupGap
  /\ completed \subseteq Message
  /\ \A key \in Keys : /\ EntryOK(key, pending[key]) /\ Incomplete(pending[key])
                       /\ pending[key].age < CleanupAge + sinceCleanup
  /\ buffered = SumFunction(EntryBytes)
  /\ WithinLimits

(* The entries' bytes, as the sums take them. *)
LEMMA BytesFacts ==
  ASSUME Inv
  PROVE  /\ DOMAIN EntryBytes = Keys
         /\ \A key \in Keys : EntryBytes[key] = pending[key].bytes /\ EntryBytes[key] \in Nat
         /\ buffered = SumFunctionOnSet(EntryBytes, Keys) /\ buffered \in Nat
         /\ \A src : /\ IsFiniteSet(SourceKeys(src)) /\ SourceKeys(src) \subseteq Keys
                    /\ Cardinality(SourceKeys(src)) \in Nat /\ SourceBytes(src) \in Nat
  <1>1. DOMAIN EntryBytes = Keys
    BY DEF EntryBytes
  <1>2. \A key \in Keys : EntryBytes[key] = pending[key].bytes /\ EntryBytes[key] \in Nat
    BY DEF EntryBytes, Inv, EntryOK
  <1>3. buffered = SumFunctionOnSet(EntryBytes, Keys)
    BY <1>1 DEF Inv, SumFunction
  <1>4. buffered \in Nat
    BY <1>2, <1>3, SumType DEF Inv
  <1>5. ASSUME NEW src
        PROVE  /\ IsFiniteSet(SourceKeys(src)) /\ SourceKeys(src) \subseteq Keys
               /\ Cardinality(SourceKeys(src)) \in Nat /\ SourceBytes(src) \in Nat
    <2>1. SourceKeys(src) \subseteq Keys
      BY DEF SourceKeys
    <2>2. IsFiniteSet(SourceKeys(src))
      BY <2>1, FS_Subset DEF Inv
    <2>3. SourceBytes(src) \in Nat
      BY <1>2, <2>1, <2>2, SumType DEF SourceBytes
    <2> QED BY <2>1, <2>2, <2>3, FS_CardinalityType
  <1> QED BY <1>1, <1>2, <1>3, <1>4, <1>5

(* Taking entries out, with their bytes: remove_pending and cleanup. *)
LEMMA TakeInv ==
  ASSUME Inv, NEW S, pending' = Without(S),
         buffered' = buffered - SumFunctionOnSet(EntryBytes, S \cap Keys),
         sinceCleanup' \in 0 .. CleanupGap, completed' \subseteq Message,
         \A key \in Keys \ S : pending[key].age < CleanupAge + sinceCleanup'
  PROVE  Inv'
  <1> DEFINE K == Keys \ S
  <1>1. Keys' = K /\ \A key \in K : pending'[key] = pending[key]
    BY DEF Keys, Without
  <1>2. pending' = [key \in Keys' |-> pending'[key]]
    BY <1>1 DEF Keys, Without
  <1>3. K \subseteq Keys /\ IsFiniteSet(K) /\ IsFiniteSet(Keys)
    BY FS_Subset DEF Inv
  <1>4. EntryBytes' = [key \in K |-> EntryBytes[key]]
    BY <1>1 DEF EntryBytes
  <1>5. buffered' = SumFunction(EntryBytes')
    <2>1. S \cap Keys \in SUBSET Keys /\ Keys \ (S \cap Keys) = K
      OBVIOUS
    <2>2. SumFunctionOnSet(EntryBytes, Keys)
            = SumFunctionOnSet(EntryBytes, S \cap Keys) + SumFunctionOnSet(EntryBytes, K)
      BY <1>3, <2>1, BytesFacts, SumSplit
    <2>3. /\ SumFunctionOnSet(EntryBytes, S \cap Keys) \in Nat
          /\ SumFunctionOnSet(EntryBytes, K) \in Nat
      BY <1>3, <2>1, BytesFacts, SumType, FS_Subset
    <2>4. SumFunctionOnSet(EntryBytes', K) = SumFunctionOnSet(EntryBytes, K)
      BY <1>3, <1>4, BytesFacts, SumSame
    <2>5. DOMAIN EntryBytes' = K
      BY <1>4
    <2>6. buffered' = SumFunctionOnSet(EntryBytes', K)
      BY <2>2, <2>3, <2>4, BytesFacts
    <2> QED BY <2>5, <2>6 DEF SumFunction
  <1>6. buffered' <= buffered
    <2>1. SumFunctionOnSet(EntryBytes, S \cap Keys) \in Nat
      BY <1>3, BytesFacts, SumType, FS_Subset
    <2> QED BY <2>1, BytesFacts
  <1>7. WithinLimits'
    <2>1. Cardinality(K) <= Cardinality(Keys) /\ Cardinality(K) \in Nat /\ Cardinality(Keys) \in Nat
      BY <1>3, FS_Subset, FS_CardinalityType
    <2>2. ASSUME NEW src \in Src
          PROVE  /\ Cardinality(SourceKeys(src)') <= MaxPendingPerSource
                 /\ SourceBytes(src)' <= MaxBufferedPerSource
      <3> DEFINE A == SourceKeys(src)
                 B == SourceKeys(src) \ S
      <3>1. SourceKeys(src)' = B
        BY <1>1 DEF SourceKeys
      <3>2. IsFiniteSet(A) /\ A \subseteq Keys /\ Cardinality(A) \in Nat /\ SourceBytes(src) \in Nat
        BY BytesFacts
      <3>3. /\ B \in SUBSET A /\ IsFiniteSet(B)
            /\ Cardinality(B) <= Cardinality(A) /\ Cardinality(B) \in Nat
        BY <3>2, FS_Subset, FS_CardinalityType
      <3>4. SumFunctionOnSet(EntryBytes, A)
              = SumFunctionOnSet(EntryBytes, B) + SumFunctionOnSet(EntryBytes, A \ B)
        BY <3>2, <3>3, BytesFacts, SumSplit
      <3>5. SumFunctionOnSet(EntryBytes, B) \in Nat /\ SumFunctionOnSet(EntryBytes, A \ B) \in Nat
        <4>1. IsFiniteSet(A \ B)
          BY <3>2, FS_Subset
        <4> QED BY <3>2, <3>3, <4>1, BytesFacts, SumType
      <3>6. SumFunctionOnSet(EntryBytes', B) = SumFunctionOnSet(EntryBytes, B)
        BY <1>4, <3>2, <3>3, BytesFacts, SumSame
      <3>7. SourceBytes(src)' = SumFunctionOnSet(EntryBytes', B)
        BY <3>1 DEF SourceBytes
      <3>8. SumFunctionOnSet(EntryBytes, A) = SourceBytes(src)
        BY DEF SourceBytes
      <3>9. SourceBytes(src)' <= SourceBytes(src) /\ SourceBytes(src)' \in Nat
        <4> HIDE DEF A, B
        <4> QED BY <3>2, <3>4, <3>5, <3>6, <3>7, <3>8
      <3>10. SourceBytes(src) <= MaxBufferedPerSource /\ Cardinality(A) <= MaxPendingPerSource
        BY DEF Inv, WithinLimits
      <3>11. MaxBufferedPerSource \in Nat /\ MaxPendingPerSource \in Nat
        BY FragmentsAssumption
      <3>12. SourceBytes(src)' <= MaxBufferedPerSource
        BY <3>2, <3>9, <3>10, <3>11
      <3>13. Cardinality(B) <= MaxPendingPerSource
        <4> HIDE DEF A, B
        <4> QED BY <3>2, <3>3, <3>10, <3>11
      <3> QED BY <3>1, <3>12, <3>13
    <2>3. /\ Cardinality(Keys) <= MaxPending /\ buffered <= MaxBuffered
          /\ MaxPending \in Nat /\ MaxBuffered \in Nat
      BY FragmentsAssumption DEF Inv, WithinLimits
    <2>4. Cardinality(Keys') <= MaxPending
      <3> HIDE DEF K
      <3> QED BY <1>1, <2>1, <2>3
    <2>5. buffered' <= MaxBuffered
      <3>1. buffered' \in Int
        <4>1. SumFunctionOnSet(EntryBytes, S \cap Keys) \in Nat
          BY <1>3, BytesFacts, SumType, FS_Subset
        <4> QED BY <4>1, BytesFacts
      <3> QED BY <1>6, <2>3, <3>1, BytesFacts
    <2>6. \A key \in Keys' : pending'[key].bytes <= MaxMessage
      BY <1>1 DEF Inv, WithinLimits
    <2> QED BY <2>2, <2>4, <2>5, <2>6 DEF WithinLimits
  <1>8. \A key \in Keys' : /\ EntryOK(key, pending'[key]) /\ Incomplete(pending'[key])
                           /\ pending'[key].age < CleanupAge + sinceCleanup'
    BY <1>1 DEF Inv
  <1>9. Keys' \subseteq Src \X {m.id : m \in Message} /\ IsFiniteSet(Keys')
    BY <1>1, <1>3 DEF Inv
  <1> QED BY <1>2, <1>5, <1>7, <1>8, <1>9 DEF Inv

(* Putting an entry in, or in the place of an older one, with its bytes. *)
LEMMA PutInv ==
  ASSUME Inv, NEW key \in Src \X {m.id : m \in Message}, NEW e,
         EntryOK(key, e), Incomplete(e), e.age < CleanupAge + sinceCleanup,
         e.bytes <= MaxMessage,
         NEW old \in Nat, old = IF key \in Keys THEN pending[key].bytes ELSE 0,
         key \in Keys \/ HasRoom(key[1]),
         \/ e.bytes <= old
         \/ /\ buffered + e.bytes - old <= MaxBuffered
            /\ SourceBytes(key[1]) + e.bytes - old <= MaxBufferedPerSource,
         pending' = With(key, e), buffered' = buffered + e.bytes - old,
         sinceCleanup' = sinceCleanup, completed' \subseteq Message
  PROVE  Inv'
  <1>1. /\ Keys' = Keys \cup {key} /\ pending'[key] = e
        /\ \A x \in Keys \ {key} : pending'[x] = pending[x]
    BY DEF Keys, With
  <1>2. pending' = [x \in Keys' |-> pending'[x]]
    BY <1>1 DEF Keys, With
  <1>3. IsFiniteSet(Keys) /\ IsFiniteSet(Keys') /\ Cardinality(Keys) \in Nat
        /\ Cardinality(Keys') = IF key \in Keys THEN Cardinality(Keys) ELSE Cardinality(Keys) + 1
    BY <1>1, FS_AddElement, FS_CardinalityType DEF Inv
  <1>4. DOMAIN EntryBytes' = Keys \cup {key} /\ EntryBytes'[key] = e.bytes /\ e.bytes \in Nat
        /\ \A x \in Keys \ {key} : EntryBytes'[x] = EntryBytes[x]
    BY <1>1 DEF EntryBytes, EntryOK
  <1>5. key \in Keys => EntryBytes[key] = old
    BY DEF EntryBytes
  <1>6. buffered' = SumFunction(EntryBytes')
    <2>1. /\ key \in Keys => SumFunctionOnSet(EntryBytes', Keys \cup {key})
                               = SumFunctionOnSet(EntryBytes, Keys)
                                 + EntryBytes'[key] - EntryBytes[key]
          /\ key \notin Keys => SumFunctionOnSet(EntryBytes', Keys \cup {key})
                               = SumFunctionOnSet(EntryBytes, Keys) + EntryBytes'[key]
      BY <1>3, <1>4, BytesFacts, SumPut
    <2>2. SumFunctionOnSet(EntryBytes', Keys \cup {key}) = buffered + e.bytes - old
      BY <1>4, <1>5, <2>1, BytesFacts
    <2> QED BY <1>4, <2>2 DEF SumFunction
  <1>7. ASSUME NEW src \in Src
        PROVE  /\ Cardinality(SourceKeys(src)') <= MaxPendingPerSource
               /\ SourceBytes(src)' <= MaxBufferedPerSource
    <2> DEFINE A == SourceKeys(src)
    <2>1. IsFiniteSet(A) /\ A \subseteq Keys /\ Cardinality(A) \in Nat /\ SourceBytes(src) \in Nat
      BY BytesFacts
    <2>2. Cardinality(A) <= MaxPendingPerSource /\ SourceBytes(src) <= MaxBufferedPerSource
      BY DEF Inv, WithinLimits
    <2>3. MaxPendingPerSource \in Nat /\ MaxBufferedPerSource \in Nat
      BY FragmentsAssumption
    <2>4. CASE src # key[1]
      <3>1. SourceKeys(src)' = A /\ key \notin A
        BY <1>1, <2>4 DEF SourceKeys
      <3>2. SumFunctionOnSet(EntryBytes', A) = SumFunctionOnSet(EntryBytes, A)
        BY <1>4, <2>1, <3>1, BytesFacts, SumSame
      <3> QED BY <2>2, <3>1, <3>2 DEF SourceBytes
    <2>5. CASE src = key[1]
      <3>1. SourceKeys(src)' = A \cup {key} /\ (key \in A <=> key \in Keys)
        BY <1>1, <2>5 DEF SourceKeys
      <3>2. Cardinality(A \cup {key}) = IF key \in A THEN Cardinality(A) ELSE Cardinality(A) + 1
        BY <2>1, FS_AddElement, Zenon
      <3>3. Cardinality(A \cup {key}) <= MaxPendingPerSource
        BY <2>1, <2>2, <2>3, <2>5, <3>1, <3>2, SMTT(30) DEF HasRoom
      <3>4. /\ key \in A => SumFunctionOnSet(EntryBytes', A \cup {key})
                              = SumFunctionOnSet(EntryBytes, A) + EntryBytes'[key] - EntryBytes[key]
            /\ key \notin A => SumFunctionOnSet(EntryBytes', A \cup {key})
                              = SumFunctionOnSet(EntryBytes, A) + EntryBytes'[key]
        BY <1>4, <2>1, <3>1, BytesFacts, SumPut
      <3>5. SumFunctionOnSet(EntryBytes, A) = SourceBytes(src)
        BY DEF SourceBytes
      <3>6. SumFunctionOnSet(EntryBytes', A \cup {key}) = SourceBytes(src) + e.bytes - old
        <4> HIDE DEF A
        <4> QED BY <1>4, <1>5, <2>1, <3>1, <3>4, <3>5
      <3>7. SourceBytes(src)' = SourceBytes(src) + e.bytes - old
        BY <3>1, <3>6 DEF SourceBytes
      <3>8. SourceBytes(src)' <= MaxBufferedPerSource
        BY <1>4, <2>1, <2>2, <2>3, <2>5, <3>7
      <3> QED BY <3>1, <3>3, <3>8
    <2> QED BY <2>4, <2>5
  <1>8. buffered' <= MaxBuffered
    <2>1. buffered <= MaxBuffered /\ MaxBuffered \in Nat
      BY FragmentsAssumption DEF Inv, WithinLimits
    <2> QED BY <1>4, <2>1, BytesFacts
  <1>9. Cardinality(Keys') <= MaxPending
    <2>1. Cardinality(Keys) <= MaxPending /\ MaxPending \in Nat
      BY FragmentsAssumption DEF Inv, WithinLimits
    <2> QED BY <1>3, <2>1 DEF HasRoom
  <1>10. \A x \in Keys' : pending'[x].bytes <= MaxMessage
    BY <1>1 DEF Inv, WithinLimits
  <1>11. WithinLimits'
    BY <1>7, <1>8, <1>9, <1>10 DEF WithinLimits
  <1>12. \A x \in Keys' : /\ EntryOK(x, pending'[x]) /\ Incomplete(pending'[x])
                          /\ pending'[x].age < CleanupAge + sinceCleanup'
    BY <1>1 DEF Inv
  <1>13. Keys' \subseteq Src \X {m.id : m \in Message}
    BY <1>1 DEF Inv
  <1> QED BY <1>2, <1>3, <1>6, <1>11, <1>12, <1>13 DEF Inv

(* The conditions of it, for a step that meets them. *)
Puts(key, e, old) ==
  /\ key \in Src \X {m.id : m \in Message} /\ EntryOK(key, e) /\ Incomplete(e)
  /\ e.age < CleanupAge + sinceCleanup /\ e.bytes <= MaxMessage
  /\ old \in Nat /\ old = IF key \in Keys THEN pending[key].bytes ELSE 0
  /\ key \in Keys \/ HasRoom(key[1])
  /\ \/ e.bytes <= old
     \/ /\ buffered + e.bytes - old <= MaxBuffered
        /\ SourceBytes(key[1]) + e.bytes - old <= MaxBufferedPerSource
  /\ pending' = With(key, e) /\ buffered' = buffered + e.bytes - old
  /\ sinceCleanup' = sinceCleanup /\ completed' \subseteq Message

LEMMA PutStep ==
  ASSUME Inv, NEW key, NEW e, NEW old, Puts(key, e, old)
  PROVE  Inv'
  BY PutInv, SMTT(30) DEF Puts

(* A new entry has empty slots. *)
LEMMA NewEntryOK ==
  ASSUME NEW m \in Sent, NEW src
  PROVE  /\ EntryOK(<<src, m.id>>, NewEntry(m)) /\ Incomplete(NewEntry(m))
         /\ NewEntry(m).total = Total(m) /\ NewEntry(m).age = 0 /\ NewEntry(m).bytes = 0
  <1> DEFINE e == NewEntry(m)
  <1>1. Total(m) \in Nat \ {0}
    BY TotalFacts DEF Sent
  <1>2. /\ e.total = Total(m) /\ e.chunks = <<>> /\ e.bytes = 0 /\ e.age = 0 /\ e.held = 0
        /\ e = [total |-> e.total, chunks |-> e.chunks, bytes |-> e.bytes,
                age |-> e.age, held |-> e.held]
    BY DEF NewEntry
  <1>3. DOMAIN e.chunks = {} /\ e.chunks \in [{} -> Sent]
    BY <1>2
  <1>4. SumFunction(SlotLens(e)) = 0
    BY <1>3, SumEmpty DEF SumFunction, SlotLens
  <1>5. 1 \in 1 .. e.total
    BY <1>1, <1>2
  <1> HIDE DEF e
  <1>6. EntryOK(<<src, m.id>>, e)
    BY <1>1, <1>2, <1>3, <1>4 DEF EntryOK
  <1>7. Incomplete(e)
    BY <1>3, <1>5 DEF Incomplete
  <1> QED BY <1>2, <1>6, <1>7 DEF e

(* The lengths of an entry's chunks, as the sums take them. *)
LEMMA SlotFacts ==
  ASSUME NEW key, NEW e, EntryOK(key, e)
  PROVE  /\ IsFiniteSet(DOMAIN e.chunks) /\ DOMAIN SlotLens(e) = DOMAIN e.chunks
         /\ \A k \in DOMAIN e.chunks : /\ SlotLens(e)[k] = LenAt(e.chunks[k], k)
                                       /\ SlotLens(e)[k] \in 0 .. ChunkSize
         /\ e.bytes = SumFunctionOnSet(SlotLens(e), DOMAIN e.chunks)
  <1>1. IsFiniteSet(1 .. e.total) /\ DOMAIN e.chunks \subseteq 1 .. e.total
    BY FS_Interval DEF EntryOK
  <1>2. IsFiniteSet(DOMAIN e.chunks)
    BY <1>1, FS_Subset, Zenon
  <1>3. DOMAIN SlotLens(e) = DOMAIN e.chunks
    BY DEF SlotLens
  <1>4. ASSUME NEW k \in DOMAIN e.chunks
        PROVE  SlotLens(e)[k] = LenAt(e.chunks[k], k) /\ SlotLens(e)[k] \in 0 .. ChunkSize
    <2>1. SlotLens(e)[k] = LenAt(e.chunks[k], k)
      BY DEF SlotLens
    <2>2. e.chunks[k] \in Message /\ k \in Index(e.chunks[k])
      BY <1>1 DEF EntryOK, Sent, Index
    <2> QED BY <2>1, <2>2, LenFacts
  <1>5. e.bytes = SumFunctionOnSet(SlotLens(e), DOMAIN e.chunks)
    BY <1>3 DEF EntryOK, SumFunction
  <1> QED BY <1>2, <1>3, <1>4, <1>5

(* Storing a chunk counts its length for that of the chunk it replaces. *)
LEMMA FilledFacts ==
  ASSUME NEW key, NEW e, EntryOK(key, e), NEW m \in Sent, NEW k \in Index(m),
         m.id = key[2], e.total = Total(m)
  PROVE  /\ DOMAIN Filled(e, m, k).chunks = DOMAIN e.chunks \cup {k}
         /\ Filled(e, m, k).total = e.total /\ Filled(e, m, k).age = e.age
         /\ SlotLen(e, k) \in Nat /\ LenAt(m, k) \in Nat
         /\ Filled(e, m, k).bytes = e.bytes + LenAt(m, k) - SlotLen(e, k)
         /\ Filled(e, m, k).bytes \in Nat
         /\ EntryOK(key, Filled(e, m, k))
  <1> DEFINE f == Filled(e, m, k)
             D == DOMAIN e.chunks
             d == [j \in D \cup {k} |-> IF j = k THEN m ELSE e.chunks[j]]
             b == e.bytes + LenAt(m, k) - SlotLen(e, k)
  <1>1. /\ e = [total |-> e.total, chunks |-> e.chunks, bytes |-> e.bytes,
                age |-> e.age, held |-> e.held]
        /\ e.total \in Nat \ {0} /\ e.bytes \in Nat /\ e.age \in Nat /\ e.held = e.age
    BY DEF EntryOK
  <1>2. f = [total |-> e.total, chunks |-> d, bytes |-> b, age |-> e.age, held |-> e.held]
    <2> DEFINE R == [total : {e.total}, chunks : {e.chunks, d}, bytes : {e.bytes, b},
                     age : {e.age}, held : {e.held}]
               g == [total |-> e.total, chunks |-> d, bytes |-> e.bytes,
                     age |-> e.age, held |-> e.held]
    <2>1. f = [e EXCEPT !.chunks = d, !.bytes = b]
      BY DEF Filled
    <2> HIDE DEF f, d, b
    <2>2. e \in R /\ g \in R
      BY <1>1
    <2>3. [e EXCEPT !.chunks = d] = g
      BY <2>2
    <2>4. [g EXCEPT !.bytes = b]
            = [total |-> e.total, chunks |-> d, bytes |-> b, age |-> e.age, held |-> e.held]
      BY <2>2
    <2>5. f = [[e EXCEPT !.chunks = d] EXCEPT !.bytes = b]
      BY <2>1, <2>2
    <2> QED BY <2>3, <2>4, <2>5, Zenon
  <1>3. f.total = e.total /\ f.chunks = d /\ f.bytes = b /\ f.age = e.age /\ f.held = e.held
    <2> HIDE DEF f, d, b
    <2> QED BY <1>2
  <1>4. DOMAIN d = D \cup {k} /\ d[k] = m /\ \A j \in D \ {k} : d[j] = e.chunks[j]
    OBVIOUS
  <1>5. k \in 1 .. e.total /\ m \in Message /\ LenAt(m, k) \in 0 .. ChunkSize /\ ChunkSize \in Nat
    <2>1. k \in 1 .. e.total /\ m \in Message /\ ChunkSize \in Nat
      BY FragmentsAssumption DEF Index, Sent
    <2> QED BY <2>1, LenFacts
  <1> HIDE DEF f, d
  <1>6. DOMAIN SlotLens(f) = D \cup {k} /\ SlotLens(f)[k] = LenAt(m, k)
        /\ \A j \in D \ {k} : SlotLens(f)[j] = SlotLens(e)[j]
    BY <1>3, <1>4 DEF SlotLens
  <1>7. \A j \in D : SlotLens(e)[j] \in Nat
    BY <1>5, SlotFacts
  <1>8. /\ k \in D => SumFunctionOnSet(SlotLens(f), D \cup {k})
                        = SumFunctionOnSet(SlotLens(e), D) + SlotLens(f)[k] - SlotLens(e)[k]
        /\ k \notin D => SumFunctionOnSet(SlotLens(f), D \cup {k})
                        = SumFunctionOnSet(SlotLens(e), D) + SlotLens(f)[k]
    BY <1>5, <1>6, <1>7, SlotFacts, SumPut
  <1>9. SlotLen(e, k) = IF k \in D THEN SlotLens(e)[k] ELSE 0
    BY DEF SlotLen
  <1>10. SumFunctionOnSet(SlotLens(f), D \cup {k}) = b
    BY <1>1, <1>5, <1>6, <1>7, <1>8, <1>9, SlotFacts
  <1>11. SlotLen(e, k) \in Nat /\ LenAt(m, k) \in Nat
    BY <1>5, <1>7, <1>9
  <1>12. b \in Nat
    <2>1. \A j \in D \cup {k} : SlotLens(f)[j] \in Nat
      BY <1>6, <1>7, <1>11
    <2>2. IsFiniteSet(D \cup {k})
      BY SlotFacts, FS_AddElement
    <2> QED BY <1>10, <2>1, <2>2, SumType
  <1> HIDE DEF b
  <1>13. f.bytes = SumFunction(SlotLens(f))
    BY <1>3, <1>6, <1>10 DEF SumFunction
  <1>14. EntryOK(key, f)
    <2>1. f.chunks \in [DOMAIN f.chunks -> Sent] /\ DOMAIN f.chunks \subseteq 1 .. f.total
      <3>1. d \in [D \cup {k} -> Sent]
        BY <1>4 DEF EntryOK, d
      <3> QED BY <1>3, <1>4, <1>5, <3>1 DEF EntryOK
    <2>2. ASSUME NEW j \in DOMAIN f.chunks
          PROVE  f.chunks[j].id = key[2] /\ Total(f.chunks[j]) = f.total
      BY <1>3, <1>4 DEF EntryOK
    <2>3. f = [total |-> f.total, chunks |-> f.chunks, bytes |-> f.bytes,
               age |-> f.age, held |-> f.held]
      BY <1>2, <1>3
    <2>4. f.total \in Nat \ {0} /\ f.bytes \in Nat /\ f.age \in Nat /\ f.held = f.age
      BY <1>1, <1>3, <1>12
    <2> QED BY <1>13, <2>1, <2>2, <2>3, <2>4 DEF EntryOK
  <1> QED BY <1>3, <1>4, <1>11, <1>12, <1>14 DEF f, b

(* The same of an entry f that has a name of its own. *)
FilledAs(f, key, e, m, k) ==
  /\ DOMAIN f.chunks = DOMAIN e.chunks \cup {k}
  /\ f.total = e.total /\ f.age = e.age
  /\ SlotLen(e, k) \in Nat /\ LenAt(m, k) \in Nat
  /\ f.bytes = e.bytes + LenAt(m, k) - SlotLen(e, k)
  /\ f.bytes \in Nat
  /\ EntryOK(key, f)

LEMMA FilledEntry ==
  ASSUME NEW key, NEW e, EntryOK(key, e), NEW m \in Sent, NEW k \in Index(m),
         m.id = key[2], e.total = Total(m), NEW f, f = Filled(e, m, k)
  PROVE  FilledAs(f, key, e, m, k)
  <1>1. FilledAs(Filled(e, m, k), key, e, m, k)
    BY FilledFacts, SMTT(30) DEF FilledAs
  <1> QED BY <1>1, Zenon

(* The arrival of a chunk taken apart: the entry it is for and the bytes   *)
(* it would add.                                                           *)
Fed(src, m, k, key, entry, delta) ==
  /\ key \in Src \X {x.id : x \in Message} /\ key[1] = src /\ key[2] = m.id
  /\ EntryOK(key, entry) /\ Incomplete(entry)
  /\ entry.bytes <= MaxMessage /\ entry.age < CleanupAge + sinceCleanup
  /\ entry.bytes = IF key \in Keys THEN pending[key].bytes ELSE 0
  /\ key \in Keys => pending[key] = entry
  /\ key \notin Keys => entry = NewEntry(m)
  /\ delta \in Nat /\ delta = Max({LenAt(m, k) - SlotLen(entry, k), 0})

(* What becomes of it: no entry is made for it. *)
Refused(src, key) ==
  /\ key \notin Keys /\ ~HasRoom(src)
  /\ UNCHANGED <<pending, buffered, completed>>

(* It contradicts what came before, and everything is discarded. *)
Misfit(m, key, entry, delta) ==
  /\ entry.total # Total(m) \/ ~(entry.bytes + delta <= MaxMessage)
  /\ Discard(key, entry) /\ UNCHANGED completed

(* It does not fit in the buffers, and only the entry stays. *)
NoRoom(src, key, entry, delta) ==
  /\ key \in Keys \/ HasRoom(src)
  /\ ~Fits(src, delta)
  /\ pending' = With(key, entry) /\ UNCHANGED <<buffered, completed>>

(* It is stored, and completes the message or not. *)
Stored(src, m, k, key, entry, delta) ==
  /\ key \in Keys \/ HasRoom(src)
  /\ entry.total = Total(m) /\ entry.bytes + delta <= MaxMessage
  /\ Fits(src, delta) /\ Store(key, entry, m, k)

(* feed ends in one of four ways. *)
LEMMA FeedParts ==
  ASSUME Inv, NEW src \in Src, NEW m \in Sent, NEW k \in Index(m), Feed(src, m, k)
  PROVE  /\ sinceCleanup' = sinceCleanup
         /\ \E key, entry, delta :
              /\ Fed(src, m, k, key, entry, delta)
              /\ \/ Refused(src, key)
                 \/ Misfit(m, key, entry, delta)
                 \/ NoRoom(src, key, entry, delta)
                 \/ Stored(src, m, k, key, entry, delta)
  <1>1. PICK key : key = <<src, m.id>>
    BY Zenon
  <1>2. PICK entry : entry = IF key \in Keys THEN pending[key] ELSE NewEntry(m)
    OBVIOUS
  <1>3. PICK delta : delta = Max({LenAt(m, k) - SlotLen(entry, k), 0})
    OBVIOUS
  <1>4. key \in Src \X {x.id : x \in Message} /\ key[1] = src /\ key[2] = m.id
    BY <1>1 DEF Sent
  <1>5. EntryOK(key, entry) /\ Incomplete(entry)
    BY <1>1, <1>2, NewEntryOK DEF Inv
  <1>6. entry.bytes \in Nat /\ entry.bytes = IF key \in Keys THEN pending[key].bytes ELSE 0
    BY <1>2, <1>5, NewEntryOK DEF EntryOK
  <1>7. entry.bytes <= MaxMessage /\ MaxMessage \in Nat
    <2>1. MaxMessage \in Nat
      BY FragmentsAssumption
    <2> QED BY <1>6, <2>1 DEF Inv, WithinLimits
  <1>8. entry.age < CleanupAge + sinceCleanup
    <2>1. sinceCleanup \in Nat /\ CleanupAge \in Nat \ {0}
      BY FragmentsAssumption DEF Inv
    <2>2. CASE key \in Keys
      BY <1>2, <2>2 DEF Inv
    <2>3. CASE key \notin Keys
      <3>1. entry.age = 0
        BY <1>2, <2>3, NewEntryOK, Zenon
      <3> QED BY <2>1, <3>1
    <2> QED BY <2>2, <2>3
  <1>9. delta \in Nat
    <2>1. LenAt(m, k) \in Nat
      BY LenFacts, FragmentsAssumption DEF Sent
    <2>2. SlotLen(entry, k) \in Nat
      BY <1>5, SlotFacts, FragmentsAssumption DEF SlotLen
    <2> QED BY <1>3, <2>1, <2>2, MaxOfTwo
  <1>10. entry.bytes + delta > MaxMessage <=> ~(entry.bytes + delta <= MaxMessage)
    BY <1>6, <1>7, <1>9
  <1>11. \/ Refused(src, key)
         \/ Misfit(m, key, entry, delta)
         \/ NoRoom(src, key, entry, delta)
         \/ Stored(src, m, k, key, entry, delta)
    BY <1>1, <1>2, <1>3, <1>10, Zenon DEF Feed, Refused, Misfit, NoRoom, Stored
  <1>12. /\ key \in Keys => pending[key] = entry
         /\ key \notin Keys => entry = NewEntry(m)
    BY <1>2
  <1>13. Fed(src, m, k, key, entry, delta)
    BY <1>3, <1>4, <1>5, <1>6, <1>7, <1>8, <1>9, <1>12, SMTT(30) DEF Fed
  <1>14. sinceCleanup' = sinceCleanup
    BY Zenon DEF Feed
  <1> QED BY <1>11, <1>13, <1>14

(* One arrival of a chunk keeps the invariant, whichever way it ends. *)
LEMMA FeedInv ==
  ASSUME Inv, NEW src \in Src, NEW m \in Sent, NEW k \in Index(m), Feed(src, m, k)
  PROVE  Inv'
  <1>1. PICK key, entry, delta :
           /\ Fed(src, m, k, key, entry, delta)
           /\ \/ Refused(src, key)
              \/ Misfit(m, key, entry, delta)
              \/ NoRoom(src, key, entry, delta)
              \/ Stored(src, m, k, key, entry, delta)
    BY FeedParts, Zenon
  <1>2. /\ key \in Src \X {x.id : x \in Message} /\ key[1] = src /\ key[2] = m.id
        /\ EntryOK(key, entry) /\ Incomplete(entry)
        /\ entry.bytes <= MaxMessage /\ entry.age < CleanupAge + sinceCleanup
        /\ entry.bytes = IF key \in Keys THEN pending[key].bytes ELSE 0
        /\ delta \in Nat /\ delta = Max({LenAt(m, k) - SlotLen(entry, k), 0})
    BY <1>1 DEF Fed
  <1>3. /\ sinceCleanup' = sinceCleanup /\ sinceCleanup' \in 0 .. CleanupGap
        /\ completed \subseteq Message /\ m \in Message
    BY FeedParts DEF Inv, Sent
  <1>4. \A x \in Keys \ {key} : pending[x].age < CleanupAge + sinceCleanup'
    BY <1>3 DEF Inv
  <1>5. entry.bytes \in Nat
    BY <1>2 DEF EntryOK
  <1>6. SumFunctionOnSet(EntryBytes, {key} \cap Keys) = entry.bytes
    <2>1. CASE key \in Keys
      <3>1. {key} \cap Keys = {key}
        BY <2>1
      <3>2. EntryBytes[key] = entry.bytes /\ EntryBytes[key] \in Nat
        BY <1>2, <2>1, BytesFacts
      <3> QED BY <3>1, <3>2, SumSingle, Zenon
    <2>2. CASE key \notin Keys
      <3>1. {key} \cap Keys = {}
        BY <2>2
      <3> QED BY <1>2, <2>2, <3>1, SumEmpty, Zenon
    <2> QED BY <2>1, <2>2
  <1>7. CASE Refused(src, key)
    <2>1. UNCHANGED <<pending, buffered, sinceCleanup, completed>>
      BY <1>3, <1>7 DEF Refused
    <2> QED BY <2>1, SMTT(30) DEF Inv, WithinLimits, Keys, SourceKeys, SourceBytes, EntryBytes
  <1>8. CASE Misfit(m, key, entry, delta)
    <2>1. /\ pending' = Without({key}) /\ completed' \subseteq Message
          /\ buffered' = buffered - SumFunctionOnSet(EntryBytes, {key} \cap Keys)
      BY <1>3, <1>6, <1>8 DEF Misfit, Discard
    <2> QED BY <1>3, <1>4, <2>1, TakeInv
  <1>9. CASE NoRoom(src, key, entry, delta)
    <2>1. /\ key \in Keys \/ HasRoom(key[1])
          /\ pending' = With(key, entry) /\ completed' \subseteq Message /\ buffered' = buffered
      BY <1>2, <1>3, <1>9 DEF NoRoom
    <2>2. buffered' = buffered + entry.bytes - entry.bytes /\ entry.bytes <= entry.bytes
      <3>1. buffered \in Nat
        BY BytesFacts
      <3> QED BY <1>5, <2>1, <3>1
    <2>3. Puts(key, entry, entry.bytes)
      BY <1>2, <1>3, <1>5, <2>1, <2>2, Zenon DEF Puts
    <2> QED BY <2>3, PutStep, Zenon
  <1>10. CASE Stored(src, m, k, key, entry, delta)
    <2>1. /\ key \in Keys \/ HasRoom(key[1])
          /\ entry.total = Total(m) /\ entry.bytes + delta <= MaxMessage
          /\ Fits(key[1], delta) /\ Store(key, entry, m, k)
      BY <1>2, <1>10 DEF Stored
    <2>2. PICK e : e = Filled(entry, m, k)
      BY Zenon
    <2>3. /\ DOMAIN e.chunks = DOMAIN entry.chunks \cup {k}
          /\ e.total = entry.total /\ e.age = entry.age
          /\ SlotLen(entry, k) \in Nat /\ LenAt(m, k) \in Nat
          /\ e.bytes = entry.bytes + LenAt(m, k) - SlotLen(entry, k)
          /\ e.bytes \in Nat
          /\ EntryOK(key, e)
      <3>1. FilledAs(e, key, entry, m, k)
        BY <1>2, <2>1, <2>2, FilledEntry, Zenon
      <3> QED BY <3>1, Zenon DEF FilledAs
    <2>4. delta = IF LenAt(m, k) - SlotLen(entry, k) >= 0 THEN LenAt(m, k) - SlotLen(entry, k)
                  ELSE 0
      BY <1>2, <2>3, MaxOfTwo
    <2>5. e.bytes <= MaxMessage
      <3>1. MaxMessage \in Nat
        BY FragmentsAssumption
      <3> QED BY <1>5, <2>1, <2>3, <2>4, <3>1
    <2>6. CASE DOMAIN e.chunks = 1 .. e.total
      <3>1. /\ pending' = Without({key})
            /\ buffered' = buffered - entry.bytes /\ completed' = completed \cup {m}
        BY <2>1, <2>2, <2>6 DEF Store
      <3>2. /\ buffered' = buffered - SumFunctionOnSet(EntryBytes, {key} \cap Keys)
            /\ completed' \subseteq Message
        BY <1>3, <1>6, <3>1, SMTT(30)
      <3> QED BY <1>3, <1>4, <3>1, <3>2, TakeInv, SMTT(30)
    <2>7. CASE DOMAIN e.chunks # 1 .. e.total
      <3>1. /\ pending' = With(key, e)
            /\ buffered' = buffered + e.bytes - entry.bytes /\ completed' = completed
        BY <2>1, <2>2, <2>7, Zenon DEF Store
      <3>2. Incomplete(e) /\ e.age < CleanupAge + sinceCleanup /\ completed' \subseteq Message
        BY <1>2, <1>3, <2>3, <2>7, <3>1, SMTT(30) DEF Incomplete
      <3>3. \/ e.bytes <= entry.bytes
            \/ /\ buffered + e.bytes - entry.bytes <= MaxBuffered
               /\ SourceBytes(key[1]) + e.bytes - entry.bytes <= MaxBufferedPerSource
        <4>1. buffered + delta <= MaxBuffered /\ SourceBytes(key[1]) + delta <= MaxBufferedPerSource
          BY <2>1 DEF Fits
        <4>2. buffered \in Nat /\ SourceBytes(key[1]) \in Nat
          BY BytesFacts
        <4>3. delta = LenAt(m, k) - SlotLen(entry, k) \/ e.bytes <= entry.bytes
          BY <1>5, <2>3, <2>4
        <4> QED BY <1>5, <2>3, <4>1, <4>2, <4>3
      <3>4. Puts(key, e, entry.bytes)
        BY <1>2, <1>3, <1>5, <2>1, <2>3, <2>5, <3>1, <3>2, <3>3, Zenon DEF Puts
      <3> QED BY <3>4, PutStep, Zenon
    <2> QED BY <2>6, <2>7
  <1> QED BY <1>1, <1>7, <1>8, <1>9, <1>10

(* A cleanup takes out what is stale and leaves only what is younger. *)
LEMMA CleanupInv ==
  ASSUME Inv, Cleanup
  PROVE  Inv'
  <1>1. Stale \cap Keys = Stale
    BY DEF Stale
  <1>2. /\ pending' = Without(Stale)
        /\ buffered' = buffered - SumFunctionOnSet(EntryBytes, Stale \cap Keys)
    BY <1>1 DEF Cleanup
  <1>3. /\ sinceCleanup' = 0 /\ CleanupGap \in Nat
        /\ CleanupAge \in Nat /\ completed' \subseteq Message
    BY FragmentsAssumption DEF Cleanup, Inv
  <1>4. \A key \in Keys \ Stale : pending[key].age < CleanupAge + sinceCleanup'
    BY <1>3 DEF Stale, Inv, EntryOK
  <1> QED BY <1>2, <1>3, <1>4, TakeInv

(* A second makes every entry older and changes nothing else. *)
Aged(key) ==
  /\ pending'[key].total = pending[key].total
  /\ pending'[key].chunks = pending[key].chunks
  /\ pending'[key].bytes = pending[key].bytes
  /\ pending'[key].age = pending[key].age + 1
  /\ EntryOK(key, pending'[key])

LEMMA ElapsedEntries ==
  ASSUME Inv, Elapse
  PROVE  Keys' = Keys /\ \A key \in Keys : Aged(key)
  <1> DEFINE Older(e) == [e EXCEPT !.age = @ + 1, !.held = @ + 1]
  <1>1. Keys' = Keys /\ \A key \in Keys : pending'[key] = Older(pending[key])
    BY Zenon DEF Elapse, Keys
  <1>2. ASSUME NEW key \in Keys
        PROVE  Aged(key)
    <2> DEFINE e == pending[key]
               R == [total : {e.total}, chunks : {e.chunks}, bytes : {e.bytes},
                     age : Nat, held : Nat]
               g == [total |-> e.total, chunks |-> e.chunks, bytes |-> e.bytes,
                     age |-> e.age + 1, held |-> e.held]
               f == [total |-> e.total, chunks |-> e.chunks, bytes |-> e.bytes,
                     age |-> e.age + 1, held |-> e.held + 1]
    <2>1. EntryOK(key, e)
      BY DEF Inv
    <2>2. e = [total |-> e.total, chunks |-> e.chunks, bytes |-> e.bytes,
               age |-> e.age, held |-> e.held]
          /\ e.age \in Nat /\ e.held = e.age
      BY <2>1 DEF EntryOK
    <2>3. pending'[key] = [e EXCEPT !.age = e.age + 1, !.held = e.held + 1]
      BY <1>1, Zenon
    <2> HIDE DEF e
    <2>4. e \in R /\ g \in R
      BY <2>2
    <2>5. [e EXCEPT !.age = e.age + 1] = g
      BY <2>4
    <2>6. [g EXCEPT !.held = e.held + 1] = f
      BY <2>4
    <2>7. [e EXCEPT !.age = e.age + 1, !.held = e.held + 1]
            = [[e EXCEPT !.age = e.age + 1] EXCEPT !.held = e.held + 1]
      BY <2>4
    <2>8. pending'[key] = f
      BY <2>3, <2>5, <2>6, <2>7, Zenon
    <2>9. f.total = e.total /\ f.chunks = e.chunks /\ f.bytes = e.bytes /\ f.age = e.age + 1
          /\ f.held = e.held + 1 /\ SlotLens(f) = SlotLens(e)
      BY DEF SlotLens
    <2>10. f = [total |-> f.total, chunks |-> f.chunks, bytes |-> f.bytes,
                age |-> f.age, held |-> f.held]
      OBVIOUS
    <2> HIDE DEF f
    <2>11. EntryOK(key, f)
      BY <2>1, <2>2, <2>9, <2>10 DEF EntryOK
    <2> QED BY <2>8, <2>9, <2>11 DEF e, Aged
  <1> QED BY <1>1, <1>2, Zenon

LEMMA ElapseInv ==
  ASSUME Inv, Elapse
  PROVE  Inv'
  <1>1. Keys' = Keys
    BY ElapsedEntries, Zenon
  <1>2. pending' = [key \in Keys' |-> pending'[key]]
    BY <1>1, Zenon DEF Elapse, Keys
  <1>3. ASSUME NEW key \in Keys
        PROVE  /\ pending'[key].total = pending[key].total
               /\ pending'[key].chunks = pending[key].chunks
               /\ pending'[key].bytes = pending[key].bytes
               /\ pending'[key].age = pending[key].age + 1
               /\ EntryOK(key, pending'[key])
    BY ElapsedEntries, Zenon DEF Aged
  <1>4. EntryBytes' = EntryBytes
    BY <1>1, <1>3, Zenon DEF EntryBytes
  <1>5. /\ sinceCleanup' = sinceCleanup + 1
        /\ sinceCleanup' \in 0 .. CleanupGap /\ sinceCleanup \in Nat
        /\ UNCHANGED <<buffered, completed>> /\ CleanupAge \in Nat
    <2>1. CleanupGap \in Nat /\ CleanupAge \in Nat /\ sinceCleanup \in 0 .. CleanupGap
      BY FragmentsAssumption DEF Inv
    <2>2. sinceCleanup < CleanupGap /\ sinceCleanup' = sinceCleanup + 1
      BY Zenon DEF Elapse
    <2>3. UNCHANGED <<buffered, completed>>
      BY Zenon DEF Elapse
    <2> QED BY <2>1, <2>2, <2>3
  <1>6. ASSUME NEW key \in Keys
        PROVE  Incomplete(pending'[key]) /\ pending'[key].age < CleanupAge + sinceCleanup'
    <2>1. Incomplete(pending'[key])
      BY <1>3 DEF Inv, Incomplete
    <2>2. pending[key].age \in Nat /\ pending[key].age < CleanupAge + sinceCleanup
      BY DEF Inv, EntryOK
    <2> QED BY <1>3, <1>5, <2>1, <2>2
  <1>7. WithinLimits'
    <2>1. \A src : SourceKeys(src)' = SourceKeys(src) /\ SourceBytes(src)' = SourceBytes(src)
      BY <1>1, <1>4, ZenonT(30) DEF SourceKeys, SourceBytes
    <2> QED BY <1>1, <1>3, <1>5, <2>1, Zenon DEF Inv, WithinLimits
  <1> QED BY <1>1, <1>2, <1>3, <1>4, <1>5, <1>6, <1>7, Zenon DEF Inv

(* The assembler starts empty. *)
LEMMA InitInv == Init => Inv
  <1> SUFFICES ASSUME Init PROVE Inv
    OBVIOUS
  <1>1. Keys = {} /\ pending = [key \in Keys |-> pending[key]]
    BY DEF Init, Keys
  <1>2. \A src : SourceKeys(src) = {} /\ SourceBytes(src) = 0
    BY <1>1, SumEmpty DEF SourceKeys, SourceBytes
  <1>3. SumFunction(EntryBytes) = 0
    BY <1>1, SumEmpty DEF SumFunction, EntryBytes
  <1>4. IsFiniteSet({}) /\ Cardinality({}) = 0
    BY FS_EmptySet
  <1>5. WithinLimits
    <2>1. /\ MaxPending \in Nat /\ MaxBuffered \in Nat
          /\ MaxPendingPerSource \in Nat /\ MaxBufferedPerSource \in Nat
      BY FragmentsAssumption
    <2>2. Cardinality(Keys) <= MaxPending /\ buffered <= MaxBuffered
      BY <1>1, <1>4, <2>1 DEF Init
    <2>3. ASSUME NEW src \in Src
          PROVE  /\ Cardinality(SourceKeys(src)) <= MaxPendingPerSource
                 /\ SourceBytes(src) <= MaxBufferedPerSource
      BY <1>2, <1>4, <2>1
    <2> QED BY <1>1, <2>2, <2>3 DEF WithinLimits
  <1>6. sinceCleanup \in 0 .. CleanupGap
    BY FragmentsAssumption DEF Init
  <1> QED BY <1>1, <1>3, <1>4, <1>5, <1>6 DEF Init, Inv

(* Every step keeps it. *)
LEMMA NextInv == Inv /\ [Next]_vars => Inv'
  <1> SUFFICES ASSUME Inv, [Next]_vars PROVE Inv'
    OBVIOUS
  <1>1. CASE FeedNext
    BY <1>1, FeedInv DEF FeedNext
  <1>2. CASE Cleanup
    BY <1>2, CleanupInv
  <1>3. CASE Elapse
    BY <1>3, ElapseInv
  <1>4. CASE UNCHANGED vars
    BY <1>4, SMTT(30) DEF vars, Inv, WithinLimits, Keys, SourceKeys, SourceBytes, EntryBytes
  <1> QED BY <1>1, <1>2, <1>3, <1>4 DEF Next

-------------------------------------------------------------------------------
(* The assembler's entries are always entries of some source and message,  *)
(* with slots for their chunks, and incomplete (FragmentAssembler).        *)
THEOREM TypeCorrect == Spec => []TypeOK
  <1>1. Inv => TypeOK
    <2> SUFFICES ASSUME Inv PROVE TypeOK
      OBVIOUS
    <2>1. buffered \in Nat
      BY BytesFacts
    <2> QED BY <2>1 DEF Inv, EntryOK, Incomplete, TypeOK
  <1> QED BY <1>1, InitInv, NextInv, PTL DEF Spec

(* buffered_bytes and every entry's bytes are exact after any sequence of  *)
(* chunks, replacements, refusals, completions and cleanups (feed,         *)
(* cleanup), so the saturating arithmetic never saturates.                 *)
THEOREM TotalsAreExact == Spec => []TotalsExact
  <1>1. Inv => TotalsExact
    BY DEF Inv, EntryOK, TotalsExact
  <1> QED BY <1>1, InitInv, NextInv, PTL DEF Spec

(* No limit of the assembler is ever exceeded, whatever the limits are and *)
(* whatever arrives (feed).                                                *)
THEOREM LimitsHold == Spec => []WithinLimits
  <1>1. Inv => WithinLimits
    BY DEF Inv
  <1> QED BY <1>1, InitInv, NextInv, PTL DEF Spec

(* No entry outlives the cleanup age and the longest gap between cleanups, *)
(* whatever comes for it (feed, cleanup).                                  *)
THEOREM NothingIsHeldLong == Spec => []HeldBriefly
  <1>1. Inv => HeldBriefly
    <2> SUFFICES ASSUME Inv, NEW key \in Keys
                 PROVE  pending[key].held < CleanupAge + CleanupGap
      BY DEF HeldBriefly
    <2>1. pending[key].held = pending[key].age /\ pending[key].age \in Nat
          /\ pending[key].age < CleanupAge + sinceCleanup
      BY DEF Inv, EntryOK
    <2>2. sinceCleanup \in 0 .. CleanupGap /\ CleanupAge \in Nat /\ CleanupGap \in Nat
      BY FragmentsAssumption DEF Inv
    <2> QED BY <2>1, <2>2
  <1> QED BY <1>1, InitInv, NextInv, PTL DEF Spec

-------------------------------------------------------------------------------
(* The chunks an entry holds are no longer than one of their messages:     *)
(* messages of one total differ in their last chunk only.                  *)
LEMMA BytesWithinMessage ==
  ASSUME NEW key, NEW e, EntryOK(key, e), NEW k \in DOMAIN e.chunks
  PROVE  \E j \in DOMAIN e.chunks : e.bytes <= e.chunks[j].len
  <1> DEFINE D == DOMAIN e.chunks
             t == e.total
             Sum(S) == SumFunctionOnSet(SlotLens(e), S)
  <1>1. /\ t \in Nat \ {0} /\ ChunkSize \in Nat /\ D \subseteq 1 .. t /\ IsFiniteSet(D)
        /\ e.bytes = Sum(D) /\ e.bytes \in Nat
        /\ \A j \in D : SlotLens(e)[j] = LenAt(e.chunks[j], j) /\ SlotLens(e)[j] \in 0 .. ChunkSize
    BY SlotFacts, FragmentsAssumption DEF EntryOK
  <1>2. ASSUME NEW j \in D
        PROVE  e.chunks[j] \in Message /\ Total(e.chunks[j]) = t /\ j \in Index(e.chunks[j])
    BY <1>1 DEF EntryOK, Sent, Index
  <1>3. D \ {t} \subseteq 1 .. (t - 1)
    BY <1>1
  <1>4. Cardinality(D \ {t}) \in Nat /\ Cardinality(D \ {t}) <= t - 1 /\ IsFiniteSet(D \ {t})
    <2>1. IsFiniteSet(1 .. (t - 1)) /\ Cardinality(1 .. (t - 1)) = t - 1
      BY <1>1, CountTo
    <2> QED BY <1>3, <2>1, FS_Subset, FS_CardinalityType
  <1>5. Sum(D \ {t}) <= (t - 1) * ChunkSize /\ Sum(D \ {t}) \in Nat
    <2>1. Sum(D \ {t}) <= Cardinality(D \ {t}) * ChunkSize
      BY <1>1, <1>4, SumBound
    <2>2. Sum(D \ {t}) \in Nat
      <3>1. \A j \in D \ {t} : SlotLens(e)[j] \in Nat
        BY <1>1
      <3> QED BY <1>4, <3>1, SumType
    <2> HIDE DEF D, t, Sum
    <2>3. PICK n \in Nat : n = Cardinality(D \ {t})
      BY <1>4
    <2>4. PICK u \in Nat : u = t - 1
      BY <1>1
    <2>5. n <= u
      BY <1>4, <2>3, <2>4
    <2>6. n * ChunkSize <= u * ChunkSize
      BY <1>1, <2>5
    <2>7. Sum(D \ {t}) <= n * ChunkSize
      BY <2>1, <2>3
    <2>8. Sum(D \ {t}) <= u * ChunkSize
      BY <1>1, <2>2, <2>6, <2>7
    <2> QED BY <2>2, <2>4, <2>8
  <1>6. CASE t \in D
    <2> DEFINE x == e.chunks[t]
    <2>1. Sum(D) = SlotLens(e)[t] + Sum(D \ {t})
      <3>1. \A j \in D : SlotLens(e)[j] \in Nat
        BY <1>1
      <3> QED BY <1>1, <1>6, <3>1, SumTake
    <2>2. SlotLens(e)[t] = x.len - (t - 1) * ChunkSize /\ x.len \in Nat
      BY <1>1, <1>2, <1>6, LenFacts, TotalFacts
    <2>3. (t - 1) * ChunkSize \in Int
      <3> HIDE DEF t
      <3> QED BY <1>1
    <2> HIDE DEF Sum, t, x, D
    <2>4. e.bytes <= x.len
      BY <1>1, <1>5, <2>1, <2>2, <2>3
    <2> QED BY <1>6, <2>4 DEF x, D
  <1>7. CASE t \notin D
    <2> DEFINE x == e.chunks[k]
    <2>1. D \ {t} = D
      BY <1>7
    <2>2. e.bytes <= (t - 1) * ChunkSize
      <3> HIDE DEF Sum, t, D
      <3> QED BY <1>1, <1>5, <2>1, Zenon
    <2>3. (t - 1) * ChunkSize <= x.len /\ x.len \in Nat
      BY <1>2, TotalFacts
    <2>4. (t - 1) * ChunkSize \in Int
      <3> HIDE DEF t
      <3> QED BY <1>1
    <2> HIDE DEF t, x
    <2>5. e.bytes <= x.len
      BY <1>1, <2>2, <2>3, <2>4
    <2> QED BY <2>5 DEF x
  <1> QED BY <1>6, <1>7

(* A chunk that an entry of its own total cannot take in for want of room  *)
(* in the message is of a message too long, or joins chunks of one.        *)
LEMMA OverflowCollides ==
  ASSUME NEW key, NEW e, EntryOK(key, e), e.bytes <= MaxMessage,
         NEW m \in Sent, NEW k \in Index(m), m.id = key[2], e.total = Total(m),
         ~(e.bytes + Max({LenAt(m, k) - SlotLen(e, k), 0}) <= MaxMessage)
  PROVE  \E x \in Sent : x.id = key[2] /\ x.len > MaxMessage
  <1> DEFINE f == Filled(e, m, k)
  <1>1. /\ DOMAIN f.chunks = DOMAIN e.chunks \cup {k} /\ EntryOK(key, f)
        /\ SlotLen(e, k) \in Nat /\ LenAt(m, k) \in Nat
        /\ f.bytes = e.bytes + LenAt(m, k) - SlotLen(e, k)
    BY FilledFacts
  <1>2. Max({LenAt(m, k) - SlotLen(e, k), 0})
          = IF LenAt(m, k) - SlotLen(e, k) >= 0 THEN LenAt(m, k) - SlotLen(e, k) ELSE 0
    BY <1>1, MaxOfTwo
  <1>3. e.bytes \in Nat /\ MaxMessage \in Nat
    BY FragmentsAssumption DEF EntryOK
  <1>4. f.bytes > MaxMessage
    <2> HIDE DEF f
    <2> QED BY <1>1, <1>2, <1>3
  <1>5. PICK j \in DOMAIN f.chunks : f.bytes <= f.chunks[j].len
    BY <1>1, BytesWithinMessage, SMTT(30)
  <1>6. f.chunks[j] \in Sent /\ f.chunks[j].id = key[2]
    BY <1>1, <1>5, SMTT(30) DEF EntryOK
  <1>7. f.chunks[j].len \in Nat /\ f.bytes \in Nat
    BY <1>1, <1>6, FragmentsAssumption DEF Sent, EntryOK
  <1>8. f.chunks[j].len > MaxMessage
    <2> HIDE DEF f
    <2> QED BY <1>3, <1>4, <1>5, <1>7
  <1> QED BY <1>6, <1>8

(* The arrival of a chunk takes no chunk from an entry, except where one   *)
(* message completes or two collide.                                       *)
LEMMA FeedKeeps ==
  ASSUME Inv, NEW src \in Src, NEW m \in Sent, NEW k \in Index(m), Feed(src, m, k),
         NEW x \in Keys
  PROVE  Kept(x)
  <1>1. PICK key, entry, delta :
           /\ Fed(src, m, k, key, entry, delta)
           /\ \/ Refused(src, key)
              \/ Misfit(m, key, entry, delta)
              \/ NoRoom(src, key, entry, delta)
              \/ Stored(src, m, k, key, entry, delta)
    BY FeedParts, ZenonT(30)
  <1>2. /\ key[2] = m.id
        /\ key \in Keys => pending[key] = entry
        /\ EntryOK(key, entry) /\ Incomplete(entry) /\ entry.bytes <= MaxMessage
        /\ delta = Max({LenAt(m, k) - SlotLen(entry, k), 0})
    BY <1>1, ZenonT(30) DEF Fed
  <1>3. \A e : x # key /\ pending' = With(key, e) => Kept(x)
    BY DEF With, Keys, Kept
  <1>4. x # key /\ pending' = Without({key}) => Kept(x)
    BY DEF Without, Keys, Kept
  <1>5. CASE Refused(src, key)
    BY <1>5 DEF Refused, Keys, Kept
  <1>6. CASE Misfit(m, key, entry, delta)
    <2>1. CASE x # key
      BY <1>4, <1>6, <2>1 DEF Misfit, Discard
    <2>2. CASE x = key /\ entry.total # Total(m)
      BY <1>2, <2>2, SMTT(30) DEF Kept, Collides
    <2>3. CASE x = key /\ entry.total = Total(m)
      <3>1. ~(entry.bytes + delta <= MaxMessage)
        BY <1>6, <2>3 DEF Misfit
      <3>2. \E y \in Sent : y.id = key[2] /\ y.len > MaxMessage
        BY <1>2, <2>3, <3>1, OverflowCollides
      <3> QED BY <2>3, <3>2 DEF Kept, Collides
    <2> QED BY <2>1, <2>2, <2>3
  <1>7. CASE NoRoom(src, key, entry, delta)
    <2>1. pending' = With(key, entry)
      BY <1>7, Zenon DEF NoRoom
    <2>2. x = key => Kept(x)
      BY <1>2, <2>1 DEF With, Keys, Kept
    <2> QED BY <1>3, <2>1, <2>2
  <1>8. CASE Stored(src, m, k, key, entry, delta)
    <2>1. PICK e : e = Filled(entry, m, k)
      OBVIOUS
    <2>2. entry.total = Total(m) /\ Store(key, entry, m, k)
      BY <1>8, Zenon DEF Stored
    <2>3. DOMAIN e.chunks = DOMAIN entry.chunks \cup {k} /\ e.total = entry.total
      <3>1. FilledAs(e, key, entry, m, k)
        BY <1>2, <2>1, <2>2, FilledEntry, Zenon
      <3> QED BY <3>1, Zenon DEF FilledAs
    <2>4. CASE DOMAIN e.chunks = 1 .. e.total
      <3>1. pending' = Without({key})
        BY <2>1, <2>2, <2>4 DEF Store
      <3>2. key \notin Keys'
        BY <3>1 DEF Without, Keys
      <3>3. /\ DOMAIN entry.chunks = (1 .. entry.total) \ {k} /\ k \in 1 .. entry.total
            /\ entry.total \in Nat
        BY <1>2, <2>3, <2>4, Zenon DEF Incomplete, EntryOK
      <3>4. IsFiniteSet(1 .. entry.total) /\ Cardinality(1 .. entry.total) = entry.total
        BY <3>3, CountTo
      <3>5. Cardinality((1 .. entry.total) \ {k}) = Cardinality(1 .. entry.total) - 1
        BY <3>3, <3>4, FS_RemoveElement, Zenon
      <3>6. x = key => Kept(x)
        BY <1>2, <3>2, <3>3, <3>4, <3>5, Zenon DEF Kept
      <3> QED BY <1>4, <3>1, <3>6, SMTT(30)
    <2>5. CASE DOMAIN e.chunks # 1 .. e.total
      <3>1. pending' = With(key, e)
        BY <2>1, <2>2, <2>5, Zenon DEF Store
      <3>2. key \in Keys' /\ pending'[key] = e
        BY <3>1 DEF With, Keys
      <3>3. x = key => Kept(x)
        BY <1>2, <2>3, <3>2 DEF Kept
      <3> QED BY <1>3, <3>1, <3>3
    <2> QED BY <2>4, <2>5
  <1> QED BY <1>1, <1>5, <1>6, <1>7, <1>8

(* The chunks of a pending message are kept until it is complete, too old  *)
(* or in collision with another of its id (feed, cleanup): what "a         *)
(* fragment only has to survive *one* of the attempts" rests on.           *)
THEOREM NoChunkIsLost == Spec => ChunksAreKept
  <1>1. Inv /\ [Next]_vars => [\A key \in Keys : Kept(key)]_vars
    <2> SUFFICES ASSUME Inv, Next, NEW x \in Keys PROVE Kept(x)
      OBVIOUS
    <2>1. CASE FeedNext
      BY <2>1, FeedKeeps DEF FeedNext
    <2>2. CASE Cleanup
      <3>1. CASE x \in Stale
        BY <3>1 DEF Stale, Kept
      <3>2. CASE x \notin Stale
        BY <2>2, <3>2 DEF Cleanup, Without, Keys, Kept
      <3> QED BY <3>1, <3>2
    <2>3. CASE Elapse
      <3>1. x \in Keys'
        BY <2>3, ElapsedEntries, Zenon
      <3>2. pending'[x].chunks = pending[x].chunks
        BY <2>3, ElapsedEntries, Zenon DEF Aged
      <3> QED BY <3>1, <3>2 DEF Kept
    <2> QED BY <2>1, <2>2, <2>3 DEF Next
  <1>2. Spec => []Inv
    BY InitInv, NextInv, PTL DEF Spec
  <1> QED BY <1>1, <1>2, PTL DEF Spec, ChunksAreKept

-------------------------------------------------------------------------------
(* What copies of a message need so as to merge: an id no other message    *)
(* has, and no more than the bytes a message may have.                     *)
OwnIds == \A m, n \in Sent : (m.id = n.id => m = n) /\ m.len <= MaxMessage

(* Every limit leaves room for one more chunk, and nothing is stale. *)
Undisturbed ==
  /\ Stale = {}
  /\ \A src \in Src, m \in Sent :
        /\ <<src, m.id>> \in Keys \/ HasRoom(src)
        /\ \A k \in Index(m) : Fits(src, LenAt(m, k))

(* An entry is for the message of its id, and has every chunk that came    *)
(* from its source.                                                        *)
MergeInv ==
  /\ \A key \in Keys, m \in Sent : m.id = key[2] => pending[key].total = Total(m)
  /\ \A src \in Src, m \in Sent \ completed : \A k \in Index(m) :
        <<src, m, k>> \in arrived =>
           <<src, m.id>> \in Keys /\ k \in DOMAIN pending[<<src, m.id>>].chunks

(* Where there is room every chunk is stored. *)
LEMMA FeedStores ==
  ASSUME Inv, OwnIds, Undisturbed, MergeInv,
         NEW src \in Src, NEW m \in Sent, NEW k \in Index(m), Feed(src, m, k)
  PROVE  \E key, entry, delta : /\ Fed(src, m, k, key, entry, delta) /\ key = <<src, m.id>>
                                /\ Stored(src, m, k, key, entry, delta)
  <1>1. PICK key, entry, delta :
           /\ Fed(src, m, k, key, entry, delta)
           /\ \/ Refused(src, key)
              \/ Misfit(m, key, entry, delta)
              \/ NoRoom(src, key, entry, delta)
              \/ Stored(src, m, k, key, entry, delta)
    BY FeedParts, ZenonT(30)
  <1>2. /\ key \in Src \X {x.id : x \in Message} /\ key[1] = src /\ key[2] = m.id
        /\ key \in Keys => pending[key] = entry
        /\ EntryOK(key, entry) /\ entry.bytes <= MaxMessage
        /\ delta \in Nat /\ delta = Max({LenAt(m, k) - SlotLen(entry, k), 0})
    BY <1>1 DEF Fed
  <1>3. key = <<src, m.id>>
    BY <1>2
  <1>4. ~Refused(src, key)
    BY <1>3 DEF Refused, Undisturbed
  <1>5. ~NoRoom(src, key, entry, delta)
    <2>1. LenAt(m, k) \in Nat
      BY LenFacts, FragmentsAssumption, SMTT(30) DEF Sent
    <2>2. SlotLen(entry, k) \in Nat
      BY <1>2, SlotFacts, FragmentsAssumption, SMTT(30) DEF SlotLen
    <2>3. delta <= LenAt(m, k)
      BY <1>2, <2>1, <2>2, MaxOfTwo
    <2>4. Fits(src, LenAt(m, k))
      BY Zenon DEF Undisturbed
    <2>5. /\ buffered \in Nat /\ SourceBytes(src) \in Nat
          /\ MaxBuffered \in Nat /\ MaxBufferedPerSource \in Nat
      BY BytesFacts, FragmentsAssumption
    <2>6. Fits(src, delta)
      BY <1>2, <2>1, <2>3, <2>4, <2>5 DEF Fits
    <2> QED BY <2>6, Zenon DEF NoRoom
  <1>6. ~Misfit(m, key, entry, delta)
    <2>1. entry.total = Total(m)
      <3>1. CASE key \in Keys
        BY <1>2, <3>1, Zenon DEF MergeInv
      <3>2. CASE key \notin Keys
        BY <1>1, <3>2, NewEntryOK, Zenon DEF Fed
      <3> QED BY <3>1, <3>2
    <2>2. ~\E x \in Sent : x.id = key[2] /\ x.len > MaxMessage
      BY FragmentsAssumption, SMTT(30) DEF OwnIds, Sent
    <2>3. entry.bytes + delta <= MaxMessage
      BY <1>2, <2>1, <2>2, OverflowCollides, SMTT(30)
    <2> QED BY <2>1, <2>3 DEF Misfit
  <1> QED BY <1>1, <1>3, <1>4, <1>5, <1>6

(* What storing a chunk makes of the entries: its own completes the        *)
(* message, or has the chunk; the others stay.                             *)
Merged(m, k, key, entry) ==
  /\ \A x \in Keys \ {key} : x \in Keys' /\ pending'[x] = pending[x]
  /\ Keys' \subseteq Keys \cup {key} /\ completed \subseteq completed'
  /\ \/ key \notin Keys' /\ m \in completed'
     \/ /\ key \in Keys' /\ pending'[key].total = Total(m)
        /\ DOMAIN pending'[key].chunks = DOMAIN entry.chunks \cup {k}

LEMMA StoredMerges ==
  ASSUME NEW src \in Src, NEW m \in Sent, NEW k \in Index(m), NEW key, NEW entry, NEW delta,
         Fed(src, m, k, key, entry, delta), Stored(src, m, k, key, entry, delta)
  PROVE  Merged(m, k, key, entry)
  <1>1. PICK e : e = Filled(entry, m, k)
    BY Zenon
  <1>2. /\ EntryOK(key, entry) /\ key[2] = m.id /\ entry.total = Total(m)
        /\ Store(key, entry, m, k)
    BY ZenonT(30) DEF Fed, Stored
  <1>3. DOMAIN e.chunks = DOMAIN entry.chunks \cup {k} /\ e.total = Total(m)
    <2>1. FilledAs(e, key, entry, m, k)
      BY <1>1, <1>2, FilledEntry, ZenonT(30)
    <2> QED BY <1>2, <2>1, Zenon DEF FilledAs
  <1>4. CASE DOMAIN e.chunks = 1 .. e.total
    <2>1. pending' = Without({key}) /\ completed' = completed \cup {m}
      BY <1>1, <1>2, <1>4, ZenonT(30) DEF Store
    <2> QED BY <2>1 DEF Without, Keys, Merged
  <1>5. CASE DOMAIN e.chunks # 1 .. e.total
    <2>1. pending' = With(key, e) /\ completed' = completed
      BY <1>1, <1>2, <1>5, Zenon DEF Store
    <2>2. key \in Keys' /\ pending'[key] = e
      BY <2>1 DEF With, Keys
    <2>3. /\ \A x \in Keys \ {key} : x \in Keys' /\ pending'[x] = pending[x]
          /\ Keys' \subseteq Keys \cup {key}
      BY <2>1 DEF With, Keys
    <2> QED BY <1>3, <2>1, <2>2, <2>3, ZenonT(30) DEF Merged
  <1> QED BY <1>4, <1>5

(* One arrival keeps what has come together. *)
LEMMA FeedMerges ==
  ASSUME Inv, OwnIds, Undisturbed, MergeInv,
         NEW src \in Src, NEW m \in Sent, NEW k \in Index(m), Feed(src, m, k)
  PROVE  MergeInv'
  <1>1. PICK key, entry, delta :
           /\ Fed(src, m, k, key, entry, delta) /\ key = <<src, m.id>>
           /\ Stored(src, m, k, key, entry, delta)
    BY FeedStores, ZenonT(30)
  <1>2. /\ \A x \in Keys \ {key} : x \in Keys' /\ pending'[x] = pending[x]
        /\ Keys' \subseteq Keys \cup {key} /\ completed \subseteq completed'
        /\ \/ key \notin Keys' /\ m \in completed'
           \/ /\ key \in Keys' /\ pending'[key].total = Total(m)
              /\ DOMAIN pending'[key].chunks = DOMAIN entry.chunks \cup {k}
    <2>1. Merged(m, k, key, entry)
      BY <1>1, StoredMerges, Zenon
    <2> QED BY <2>1, Zenon DEF Merged
  <1>3. arrived' = arrived \cup {<<src, m, k>>}
    BY Zenon DEF Feed
  <1>4. key \in Keys => pending[key] = entry
    BY <1>1, Zenon DEF Fed
  <1>5. ASSUME NEW x \in Keys', NEW n \in Sent, n.id = x[2]
        PROVE  pending'[x].total = Total(n)
    <2>1. CASE x = key
      <3>1. n.id = m.id
        BY <1>1, <1>5, <2>1
      <3>2. n = m
        BY <3>1 DEF OwnIds
      <3> QED BY <1>2, <2>1, <3>2
    <2>2. CASE x # key
      BY <1>2, <1>5, <2>2 DEF MergeInv
    <2> QED BY <2>1, <2>2
  <1>6. ASSUME NEW s \in Src, NEW n \in Sent \ completed', NEW j \in Index(n),
               <<s, n, j>> \in arrived'
        PROVE  <<s, n.id>> \in Keys' /\ j \in DOMAIN pending'[<<s, n.id>>].chunks
    <2>1. n \in Sent \ completed
      BY <1>2
    <2>2. <<s, n, j>> \in arrived =>
             <<s, n.id>> \in Keys /\ j \in DOMAIN pending[<<s, n.id>>].chunks
      BY <2>1, ZenonT(30) DEF MergeInv
    <2>3. CASE s = src /\ n = m
      <3>1. /\ key \in Keys' /\ DOMAIN pending'[key].chunks = DOMAIN entry.chunks \cup {k}
        BY <1>2, <1>6, <2>3
      <3>2. j = k \/ <<s, n, j>> \in arrived
        BY <1>3, <1>6, SMTT(30)
      <3>3. j = k \/ j \in DOMAIN entry.chunks
        BY <1>1, <1>4, <2>2, <2>3, <3>2, SMTT(30)
      <3> QED BY <1>1, <2>3, <3>1, <3>3, SMTT(30)
    <2>4. CASE ~(s = src /\ n = m)
      <3>1. <<s, n, j>> \in arrived
        BY <1>3, <1>6, <2>4
      <3>2. <<s, n.id>> # key
        <4>1. n.id = m.id => n = m
          BY DEF OwnIds
        <4> QED BY <1>1, <2>4, <4>1
      <3> QED BY <1>2, <2>2, <3>1, <3>2
    <2> QED BY <2>3, <2>4
  <1> QED BY <1>5, <1>6, Zenon DEF MergeInv

(* Neither do cleanups and the passing of time take anything away. *)
LEMMA NextMerges ==
  ASSUME Inv, OwnIds, Undisturbed, MergeInv, [Next]_vars
  PROVE  MergeInv'
  <1>1. CASE FeedNext
    BY <1>1, FeedMerges DEF FeedNext
  <1>2. CASE Cleanup
    <2>1. pending' = [x \in Keys |-> pending[x]] /\ completed' = completed /\ arrived' = arrived
      BY <1>2 DEF Cleanup, Without, Undisturbed
    <2>2. Keys' = Keys /\ \A x \in Keys : pending'[x] = pending[x]
      BY <2>1, SMTT(30) DEF Keys
    <2> QED BY <2>1, <2>2 DEF MergeInv
  <1>3. CASE Elapse
    <2>1. Keys' = Keys /\ completed' = completed /\ arrived' = arrived
      BY <1>3, ElapsedEntries, Zenon DEF Elapse
    <2>2. ASSUME NEW x \in Keys
          PROVE  pending'[x].chunks = pending[x].chunks /\ pending'[x].total = pending[x].total
      BY <1>3, ElapsedEntries, Zenon DEF Aged
    <2> QED BY <2>1, <2>2, ZenonT(30) DEF MergeInv
  <1>4. CASE UNCHANGED vars
    BY <1>4 DEF vars, MergeInv, Keys
  <1> QED BY <1>1, <1>2, <1>3, <1>4 DEF Next

(* Copies of a message that come from one source merge, in whatever order  *)
(* and however often its chunks come: once each came in some attempt the   *)
(* message has been handed on (send_fragmented_with_id, feed).  It takes   *)
(* an id of its own, room within the limits, and no cleanup that finds an  *)
(* entry too old.                                                          *)
THEOREM CopiesMerge ==
  ASSUME OwnIds
  PROVE  Spec /\ []Undisturbed => []MergedPerSource
  <1>1. Inv /\ MergeInv => MergedPerSource
    <2> SUFFICES ASSUME Inv, MergeInv, NEW m \in Sent, NEW src \in Src,
                        \A k \in Index(m) : <<src, m, k>> \in arrived, m \notin completed
                 PROVE  FALSE
      BY DEF MergedPerSource
    <2> DEFINE key == <<src, m.id>>
               e == pending[key]
    <2>1. 1 \in Index(m)
      BY TotalFacts DEF Sent, Index
    <2>2. \A k \in Index(m) : key \in Keys /\ k \in DOMAIN e.chunks
      BY Zenon DEF MergeInv
    <2>3. key \in Keys
      BY <2>1, <2>2
    <2>4. key[2] = m.id
      OBVIOUS
    <2> HIDE DEF key
    <2>5. e.total = Total(m)
      BY <2>3, <2>4, SMTT(30) DEF MergeInv
    <2>6. DOMAIN e.chunks \subseteq 1 .. e.total /\ DOMAIN e.chunks # 1 .. e.total
      BY <2>3 DEF Inv, EntryOK, Incomplete
    <2> QED BY <2>2, <2>5, <2>6, Zenon DEF Index
  <1>2. Init => MergeInv
    BY DEF Init, MergeInv, Keys
  <1>3. Undisturbed /\ Inv /\ MergeInv /\ [Next]_vars => MergeInv'
    BY NextMerges
  <1> QED BY <1>1, <1>2, <1>3, InitInv, NextInv, PTL DEF Spec
===============================================================================

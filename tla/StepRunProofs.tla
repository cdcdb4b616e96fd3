---------------------------- MODULE StepRunProofs ----------------------------
(***************************************************************************)
(* Proofs about StepRun: what is executed was audited, finds what it may   *)
(* read, and carries the verifier's last word; for any pool, any drafts    *)
(* and any limits.  The budget is never exceeded, and nobody is passed     *)
(* over: the sums and the order of the candidates are reasoned about by    *)
(* induction over sets of numbers, without operators as parameters.        *)
(***************************************************************************)
EXTENDS StepRun, FiniteSetTheorems, SequenceTheorems, TLAPS

-----------------------------------------------------------------------------
(* Induction, positions and sums *)

(* Every set of natural numbers with an element has a least one.           *)
LEMMA Least ==
  ASSUME NEW S \in SUBSET Nat, S # {}
  PROVE  \E m \in S : \A k \in S : m <= k
<1> DEFINE R == OpToRel(<, Nat)
<1>1. IsWellFoundedOn(R, Nat)
  BY NatLessThanWellFounded
<1>2. \A a, b \in Nat : <<a, b>> \in R <=> a < b
  BY DEF OpToRel
<1> HIDE DEF R
<1>3. PICK m \in S : \A k \in S : ~(<<k, m>> \in R)
  BY <1>1, WFMin
<1>4. \A k \in S : ~(k < m)
  BY <1>2, <1>3
<1>5. \A k \in S : m <= k
  BY <1>4
<1> QED  BY <1>5

(* Induction over the naturals, for sets.                                  *)
LEMMA SetInduction ==
  ASSUME NEW S \in SUBSET Nat, 0 \in S, \A n \in S : n + 1 \in S
  PROVE  S = Nat
<1> SUFFICES ASSUME Nat \ S # {}  PROVE FALSE
  OBVIOUS
<1>1. PICK m \in Nat \ S : \A k \in Nat \ S : m <= k
  BY Least
<1>2. m # 0 /\ m - 1 \in Nat /\ m - 1 \in S
  BY <1>1
<1>3. (m - 1) + 1 \in S
  BY <1>2
<1> QED  BY <1>1, <1>3

(* The positions in order: all of them, each once, ascending.              *)
LEMMA InOrderIs ==
  ASSUME NEW n \in Nat, NEW P \in SUBSET (1..n)
  PROVE  /\ Cardinality(P) \in 0..n
         /\ InOrder(P) \in Seq(P) /\ Len(InOrder(P)) = Cardinality(P)
         /\ \A i \in P : \E k \in 1..Cardinality(P) : InOrder(P)[k] = i
         /\ \A k, l \in 1..Cardinality(P) : k < l => InOrder(P)[k] < InOrder(P)[l]
<1> DEFINE c == Cardinality(P)
           below(i) == {j \in P : j <= i}
           r == [i \in P |-> Cardinality(below(i))]
<1>0. \A i \in P : i \in Nat
  OBVIOUS
<1>1. IsFiniteSet(P) /\ c \in Nat /\ c <= n
  <2>1. IsFiniteSet(1..n) /\ Cardinality(1..n) = n
    BY FS_Interval
  <2>2. IsFiniteSet(P) /\ Cardinality(P) <= Cardinality(1..n)
    BY <2>1, FS_Subset
  <2> QED  BY <2>1, <2>2, FS_CardinalityType
<1>2. ASSUME NEW i \in P
      PROVE  IsFiniteSet(below(i)) /\ r[i] = Cardinality(below(i)) /\ r[i] \in 1..c
  <2>1. IsFiniteSet(below(i)) /\ Cardinality(below(i)) <= c
    BY <1>1, FS_Subset
  <2>2. i \in below(i)
    OBVIOUS
  <2>3. Cardinality(below(i)) \in Nat /\ Cardinality(below(i)) # 0
    BY <2>1, <2>2, FS_CardinalityType, FS_EmptySet
  <2> QED  BY <2>1, <2>3
<1>3. ASSUME NEW i \in P, NEW j \in P, i < j
      PROVE  r[i] < r[j]
  <2>1. below(i) \in SUBSET below(j) /\ j \notin below(i) /\ j \in below(j)
    <3>1. i \in Nat /\ j \in Nat /\ \A k \in P : k \in Nat
      BY <1>0
    <3>2. \A k \in P : k <= i => k <= j
      BY <1>3, <3>1
    <3>3. below(i) \subseteq below(j)
      BY <3>2
    <3>4. ~(j <= i) /\ j <= j
      BY <1>3, <3>1
    <3> QED  BY <3>3, <3>4
  <2>2. Cardinality(below(i)) <= Cardinality(below(j)) /\ Cardinality(below(i)) # Cardinality(below(j))
    <3>1. IsFiniteSet(below(j))
      BY <1>2
    <3> HIDE DEF below
    <3> QED  BY <2>1, <3>1, FS_Subset
  <2> QED  BY <1>2, <2>2
<1>4. r \in Injection(P, 1..c)
  <2>1. r \in [P -> 1..c]
    BY <1>2
  <2>2. ASSUME NEW i \in P, NEW j \in P, r[i] = r[j]  PROVE i = j
    <3>1. r[i] \in Nat /\ r[j] \in Nat /\ i \in Nat /\ j \in Nat
      BY <1>0, <1>2
    <3> HIDE DEF r
    <3>2. ~(i < j) /\ ~(j < i)
      BY <1>3, <2>2, <3>1
    <3> QED  BY <3>1, <3>2
  <2> HIDE DEF r
  <2> QED  BY <2>1, <2>2 DEF Injection, IsInjective
<1>5. r \in Surjection(P, 1..c)
  <2>1. IsFiniteSet(1..c) /\ Cardinality(1..c) = c
    BY <1>1, FS_Interval
  <2> HIDE DEF r
  <2> QED  BY <1>4, <2>1, FS_Injection
<1>6. \A k \in 1..c : \E i \in P : r[i] = k
  <2> HIDE DEF r
  <2> QED  BY <1>5 DEF Surjection
<1>7. \A k \in 1..c : InOrder(P)[k] \in P /\ r[InOrder(P)[k]] = k
  <2> TAKE k \in 1..c
  <2>1. InOrder(P)[k] = CHOOSE i \in P : Cardinality(below(i)) = k
    BY DEF InOrder
  <2>2. \E i \in P : Cardinality(below(i)) = k
    BY <1>6
  <2> QED  BY <2>1, <2>2
<1>8. InOrder(P) \in [1..c -> P]
  BY <1>7 DEF InOrder
<1>9. InOrder(P) \in Seq(P) /\ Len(InOrder(P)) = c
  BY <1>1, <1>8
<1>10. \A i \in P : \E k \in 1..c : InOrder(P)[k] = i
  <2> TAKE i \in P
  <2>1. r[i] \in 1..c /\ InOrder(P)[r[i]] \in P /\ r[InOrder(P)[r[i]]] = r[i]
    BY <1>2, <1>7
  <2> HIDE DEF r
  <2>2. InOrder(P)[r[i]] = i
    BY <1>4, <2>1 DEF Injection, IsInjective
  <2> QED  BY <2>1, <2>2
<1>11. \A k, l \in 1..c : k < l => InOrder(P)[k] < InOrder(P)[l]
  <2> SUFFICES ASSUME NEW k \in 1..c, NEW l \in 1..c, k < l, ~(InOrder(P)[k] < InOrder(P)[l])
               PROVE  FALSE
    OBVIOUS
  <2> DEFINE a == InOrder(P)[k]  b == InOrder(P)[l]
  <2>1. a \in P /\ b \in P /\ r[a] = k /\ r[b] = l
    BY <1>7
  <2>2. a = b \/ b < a
    <3>1. a \in Nat /\ b \in Nat
      BY <1>0, <2>1
    <3> QED  BY <3>1
  <2> HIDE DEF r, a, b
  <2>3. CASE b < a
    BY <1>3, <2>1, <2>3
  <2> QED  BY <2>1, <2>2, <2>3
<1> QED  BY <1>1, <1>9, <1>10, <1>11

(* A selection: the elements at the positions, and no others.              *)
LEMMA SelectIs ==
  ASSUME NEW S, NEW s \in Seq(S), NEW P \in SUBSET (1..Len(s))
  PROVE  /\ Select(s, P) \in Seq(S) /\ Len(Select(s, P)) = Cardinality(P)
         /\ Cardinality(P) \in 0..Len(s)
         /\ \A k \in 1..Cardinality(P) : InOrder(P)[k] \in P /\ Select(s, P)[k] = s[InOrder(P)[k]]
         /\ \A i \in P : \E k \in 1..Cardinality(P) : Select(s, P)[k] = s[i]
<1>1. Len(s) \in Nat
  OBVIOUS
<1>2. /\ Cardinality(P) \in 0..Len(s)
      /\ InOrder(P) \in Seq(P) /\ Len(InOrder(P)) = Cardinality(P)
      /\ \A i \in P : \E k \in 1..Cardinality(P) : InOrder(P)[k] = i
  BY <1>1, InOrderIs
<1>3. \A k \in 1..Cardinality(P) : InOrder(P)[k] \in P /\ Select(s, P)[k] = s[InOrder(P)[k]]
  BY <1>2 DEF Select
<1>4. Select(s, P) \in [1..Cardinality(P) -> S]
  <2>1. \A k \in 1..Cardinality(P) : Select(s, P)[k] \in S
    <3>1. \A i \in P : s[i] \in S
      BY <1>1
    <3> QED  BY <1>3, <3>1
  <2> QED  BY <2>1 DEF Select
<1>5. Select(s, P) \in Seq(S) /\ Len(Select(s, P)) = Cardinality(P)
  BY <1>2, <1>4
<1> QED  BY <1>2, <1>3, <1>5

(* A sum over a finite set by taking away one chosen element after the     *)
(* other: there is a function that does so.                                *)
Rest(h, g, s) == IF s = {} THEN 0
                 ELSE LET x == CHOOSE x \in s : TRUE IN g[x] + h[s \ {x}]
SumsUp(h, g, S) == h = [s \in SUBSET S |-> Rest(h, g, s)]

LEMMA SumsExist ==
  ASSUME NEW S, IsFiniteSet(S), NEW g, \A x \in S : g[x] \in Nat
  PROVE  \E h : SumsUp(h, g, S)
<1> DEFINE D == SUBSET S
           Upto(n) == {s \in D : Cardinality(s) <= n}
           Good(n, h) == h \in [D -> Nat] /\ \A s \in Upto(n) : h[s] = Rest(h, g, s)
           Ns == {n \in Nat : \E h : Good(n, h)}
<1>1. \A s \in D : IsFiniteSet(s) /\ Cardinality(s) \in Nat /\ Cardinality(s) <= Cardinality(S)
  BY FS_Subset, FS_CardinalityType
<1>2. 0 \in Ns
  <2> DEFINE h == [s \in D |-> 0]
  <2>1. \A s \in Upto(0) : s = {}
    BY <1>1, FS_EmptySet
  <2>2. Good(0, h)
    BY <2>1 DEF Rest
  <2> QED  BY <2>2
<1>3. ASSUME NEW n \in Ns
      PROVE  n + 1 \in Ns
  <2>1. PICK h : Good(n, h)
    OBVIOUS
  <2> DEFINE k == [s \in D |-> IF s \in Upto(n) THEN h[s] ELSE Rest(h, g, s)]
  <2>2. ASSUME NEW s \in D
        PROVE  /\ Rest(h, g, s) \in Nat
               /\ s \in Upto(n + 1) => Rest(k, g, s) = Rest(h, g, s)
    <3>1. CASE s = {}
      BY <3>1 DEF Rest
    <3>2. CASE s # {}
      <4> DEFINE x == CHOOSE x \in s : TRUE
      <4>1. x \in s /\ x \in S /\ s \ {x} \in D
        BY <3>2
      <4>2. Cardinality(s \ {x}) = Cardinality(s) - 1
        BY <1>1, <4>1, FS_RemoveElement
      <4>3. s \in Upto(n + 1) => s \ {x} \in Upto(n)
        BY <1>1, <4>1, <4>2
      <4>4. h[s \ {x}] \in Nat /\ g[x] \in Nat
        BY <2>1, <4>1
      <4>5. s \in Upto(n + 1) => k[s \ {x}] = h[s \ {x}]
        BY <4>1, <4>3
      <4>6. Rest(h, g, s) = g[x] + h[s \ {x}] /\ Rest(k, g, s) = g[x] + k[s \ {x}]
        BY <3>2 DEF Rest
      <4> HIDE DEF x, k
      <4> QED  BY <4>4, <4>5, <4>6
    <3> QED  BY <3>1, <3>2
  <2>3. k \in [D -> Nat]
    BY <2>1, <2>2
  <2>4. ASSUME NEW s \in Upto(n + 1)  PROVE k[s] = Rest(k, g, s)
    <3>1. Rest(k, g, s) = Rest(h, g, s)
      BY <2>2, <2>4
    <3>2. k[s] = Rest(h, g, s)
      BY <2>1
    <3> HIDE DEF k
    <3> QED  BY <3>1, <3>2
  <2>5. Good(n + 1, k)
    BY <2>3, <2>4
  <2> HIDE DEF k, Good
  <2> QED  BY <2>5
<1>4. Ns = Nat
  <2> HIDE DEF Ns
  <2>1. Ns \in SUBSET Nat
    BY DEF Ns
  <2> QED  BY <1>2, <1>3, <2>1, SetInduction
<1>5. Cardinality(S) \in Ns
  BY <1>1, <1>4
<1>6. PICK h : Good(Cardinality(S), h)
  BY <1>5
<1>7. \A s \in D : h[s] = Rest(h, g, s)
  BY <1>1, <1>6
<1>8. SumsUp(h, g, S)
  BY <1>6, <1>7 DEF SumsUp
<1> QED  BY <1>8

(* Whatever it is that sums so, a sum of natural numbers is one.           *)
LEMMA SumsNatural ==
  ASSUME NEW S, IsFiniteSet(S), NEW g, \A x \in S : g[x] \in Nat,
         NEW h, SumsUp(h, g, S)
  PROVE  h[S] \in Nat
<1> DEFINE Ns == {n \in Nat : \A s \in SUBSET S : Cardinality(s) = n => h[s] \in Nat}
<1>1. \A s \in SUBSET S : IsFiniteSet(s) /\ Cardinality(s) \in Nat
  BY FS_Subset, FS_CardinalityType
<1>2. \A s \in SUBSET S : h[s] = Rest(h, g, s)
  BY DEF SumsUp
<1>3. 0 \in Ns
  <2>1. \A s \in SUBSET S : Cardinality(s) = 0 => s = {}
    BY <1>1, FS_EmptySet
  <2>2. h[{}] = Rest(h, g, {}) /\ Rest(h, g, {}) = 0
    BY <1>2 DEF Rest
  <2> QED  BY <2>1, <2>2
<1>4. ASSUME NEW n \in Ns  PROVE n + 1 \in Ns
  <2>n. n \in Nat /\ n + 1 \in Nat
    BY <1>4
  <2> SUFFICES ASSUME NEW s \in SUBSET S, Cardinality(s) = n + 1
               PROVE  h[s] \in Nat
    BY <2>n
  <2> DEFINE x == CHOOSE x \in s : TRUE
  <2>1. s # {}
    <3>1. n + 1 # 0
      BY <2>n
    <3> QED  BY <3>1, FS_EmptySet
  <2>2. x \in s /\ x \in S /\ s \ {x} \in SUBSET S
    BY <2>1
  <2>3. Cardinality(s \ {x}) = n
    <3>1. Cardinality(s \ {x}) = Cardinality(s) - 1
      BY <1>1, <2>2, FS_RemoveElement
    <3> QED  BY <2>n, <3>1
  <2>4. h[s] = g[x] + h[s \ {x}]
    BY <1>2, <2>1 DEF Rest
  <2>5. h[s \ {x}] \in Nat /\ g[x] \in Nat
    BY <2>2, <2>3
  <2> HIDE DEF x
  <2> QED  BY <2>4, <2>5
<1>5. Ns = Nat
  <2> HIDE DEF Ns
  <2>1. Ns \in SUBSET Nat
    BY DEF Ns
  <2> QED  BY <1>3, <1>4, <2>1, SetInduction
<1>6. Cardinality(S) \in Ns
  <2>1. Cardinality(S) \in Nat
    BY <1>1
  <2> HIDE DEF Ns
  <2> QED  BY <1>5, <2>1
<1> QED  BY <1>6

(* So what a step sends has a size.                                        *)
LEMMA InputIsNatural ==
  ASSUME NEW S, IsFiniteSet(S), \A j \in S : SizeOf(j) \in Nat
  PROVE  MapThenSumSet(SizeOf, S) \in Nat
<1> DEFINE g == [j \in S |-> SizeOf(j)]
           Sums(h) == h = [s \in SUBSET S |-> IF s = {} THEN 0
                             ELSE LET x == CHOOSE x \in s : TRUE IN SizeOf(x) + h[s \ {x}]]
<1>1. \A s \in SUBSET S : s # {} => (CHOOSE x \in s : TRUE) \in S
  OBVIOUS
<1>2. \A h : [s \in SUBSET S |-> Rest(h, g, s)] =
             [s \in SUBSET S |-> IF s = {} THEN 0
                             ELSE LET x == CHOOSE x \in s : TRUE IN SizeOf(x) + h[s \ {x}]]
  BY <1>1 DEF Rest
<1>3. \A j \in S : g[j] \in Nat
  OBVIOUS
<1> HIDE DEF g
<1>4. \E h : Sums(h)
  <2>1. PICK h : SumsUp(h, g, S)
    BY <1>3, SumsExist
  <2>2. Sums(h)
    BY <1>2, <2>1 DEF SumsUp
  <2> HIDE DEF Sums
  <2> QED  BY <2>2
<1>5. MapThenSumSet(SizeOf, S) = (CHOOSE h : Sums(h))[S]
  BY DEF MapThenSumSet, MapThenFoldSet
<1> DEFINE it == CHOOSE h : Sums(h)
<1>6. Sums(it)
  BY <1>4
<1>7. SumsUp(it, g, S)
  BY <1>2, <1>6 DEF SumsUp
<1> HIDE DEF it, Sums
<1>8. it[S] \in Nat
  BY <1>3, <1>7, SumsNatural
<1> QED  BY <1>5, <1>8 DEF it

-----------------------------------------------------------------------------
(* The invariant *)

Executing == {"begin", "call", "verify", "store"}
Asking == {"classify", "ask", "repair"}

Sound ==
  \/ ValidForPool(flow) /\ Audited(flow)
  \/ \E w \in {Orchestrator, ByPool[1]} \ {NoWorker} : flow = Single(w)

(* Attempts are used up exactly when planning has fallen back.             *)
PlanInv ==
  /\ tries \in Nat
  /\ flow \in Seq(StepType)
  /\ stage \in Asking => tries > 0
  /\ stage \in Executing => Sound
  /\ (degraded => tries = 0) /\ (tries = 0 => degraded)

(* The outputs kept are those of the steps before the present one.         *)
MemoryInv ==
  /\ at \in Nat \ {0} /\ DOMAIN memory = 1..(at - 1)
  /\ stage \in Asking => at = 1
  /\ stage \in Executing => at <= Len(flow)
  /\ outcome = "answer" => flow # <<>> /\ at = Len(flow) + 1
  /\ stage \in Asking \union Executing \union {"done", "hung"}
  /\ stage # "done" => outcome = "none"

Outputs == [size : Nat, echo : BOOLEAN, verdict : {"none", "accept", "reject"}]

(* The output in hand carries the verdict accepted remembers.              *)
VerdictInv ==
  Verifying =>
    /\ out \in Outputs
    /\ stage = "store" => /\ out.verdict = (IF accepted THEN "accept" ELSE "reject")
                          /\ ~accepted => repaired
    /\ accepted \in BOOLEAN /\ repaired \in BOOLEAN
    /\ \A j \in DOMAIN memory : memory[j].marked \in BOOLEAN
         /\ memory[j].verdict = (IF memory[j].marked THEN "reject" ELSE "accept")

Inv == PlanInv /\ MemoryInv /\ VerdictInv

LEMMA SingleType ==
  ASSUME NEW w \in Pool
  PROVE  /\ Single(w) \in Seq(StepType) /\ Len(Single(w)) = 1
         /\ Single(w)[1].reads = {} /\ Single(w) # <<>>
BY DEF Single, StepType, Words

LEMMA NothingIsOut == Nothing \in Outputs
BY DEF Nothing, Outputs

LEMMA FirstOfPool == ByPool[1] \in Pool
BY PoolAssumption

(* Routing changes only who does a step.                                   *)
LEMMA RoutedType ==
  ASSUME NEW d \in Drafts, ValidForPool(SelectWorkers(d))
  PROVE  SelectWorkers(d) \in Seq(StepType) /\ Len(SelectWorkers(d)) = Len(d)
<1> DEFINE s == SelectWorkers(d)
<1>1. d \in Seq(StepType) /\ Len(d) \in Nat
  BY StepAssumption
<1>2. \A i \in 1..Len(d) : d[i] \in StepType
  BY <1>1
<1>3. s = [i \in 1..Len(d) |->
             IF d[i].worker \in Pool THEN d[i]
             ELSE [d[i] EXCEPT !.worker = PickByRole(RoleOf(d, i))]]
  BY DEF SelectWorkers
<1>4. Len(s) = Len(d) /\ DOMAIN s = 1..Len(d)
  BY <1>1, <1>3
<1>5. \A i \in 1..Len(d) : s[i].worker \in Pool
  BY <1>4 DEF ValidForPool
<1>6. ASSUME NEW i \in 1..Len(d)
      PROVE  s[i] \in StepType
  <2>1. CASE d[i].worker \in Pool
    BY <1>2, <1>3, <2>1
  <2>2. CASE d[i].worker \notin Pool
    <3>1. s[i] = [d[i] EXCEPT !.worker = PickByRole(RoleOf(d, i))]
      BY <1>3, <2>2
    <3>2. PickByRole(RoleOf(d, i)) \in Pool
      BY <1>2, <1>5, <3>1 DEF StepType
    <3> QED  BY <1>2, <3>1, <3>2 DEF StepType
  <2> QED  BY <2>1, <2>2
<1> QED  BY <1>1, <1>3, <1>4, <1>6

(* What is executed has a step, and its steps read earlier ones only.      *)
LEMMA SoundReads ==
  ASSUME flow \in Seq(StepType), Sound
  PROVE  Len(flow) >= 1 /\ \A i \in 1..Len(flow) : flow[i].reads \subseteq 1..(i - 1)
<1>1. CASE ValidForPool(flow) /\ Audited(flow)
  <2>1. \A i \in 1..Len(flow) : flow[i].reads \subseteq Nat \ {0}
    <3>1. \A i \in 1..Len(flow) : flow[i] \in StepType
      OBVIOUS
    <3> QED  BY <3>1 DEF StepType
  <2>2. \A i \in 1..Len(flow) : \A j \in flow[i].reads : j < i
    BY <1>1 DEF ValidForPool
  <2>3. Len(flow) >= 1
    BY <1>1 DEF Audited
  <2> QED  BY <2>1, <2>2, <2>3
<1>2. CASE \E w \in {Orchestrator, ByPool[1]} \ {NoWorker} : flow = Single(w)
  <2>1. PICK w \in Pool : flow = Single(w)
    BY <1>2, StepAssumption, FirstOfPool
  <2> QED  BY <2>1, SingleType
<1> QED  BY <1>1, <1>2 DEF Sound

LEMMA Initially == Init => Inv
<1> SUFFICES ASSUME Init  PROVE Inv
  OBVIOUS
<1>1. PlanInv
  <2>1. /\ tries = Retries /\ flow = <<>> /\ degraded = FALSE /\ stage = "classify"
    BY DEF Init
  <2>2. tries \in Nat /\ tries > 0 /\ flow \in Seq(StepType)
    BY <2>1, StepAssumption
  <2> QED  BY <2>1, <2>2 DEF PlanInv, Executing
<1>2. MemoryInv
  BY DEF Init, MemoryInv, Asking, Executing
<1>3. VerdictInv
  <2>1. /\ stage = "classify" /\ accepted = TRUE /\ repaired = FALSE /\ DOMAIN memory = {}
        /\ out \in Outputs
    BY NothingIsOut DEF Init
  <2> QED  BY <2>1 DEF VerdictInv
<1> QED  BY <1>1, <1>2, <1>3 DEF Inv

(* The last failed attempt leaves a direct step for the first worker.      *)
LEMMA RetryKeeps ==
  ASSUME PlanInv, MemoryInv, stage \in {"ask", "repair"}, Retry, UNCHANGED progress
  PROVE  PlanInv' /\ MemoryInv'
<1>1. CASE tries > 1
  <2>1. tries' = tries - 1 /\ stage' = "ask" /\ flow' = flow /\ degraded' = degraded /\ outcome' = outcome
    BY <1>1 DEF Retry
  <2>2. PlanInv'
    BY <1>1, <2>1 DEF PlanInv, Asking, Executing
  <2>3. MemoryInv'
    BY <2>1 DEF MemoryInv, Asking, Executing, progress
  <2> QED  BY <2>2, <2>3
<1>2. CASE ~(tries > 1)
  <2>1. /\ tries' = tries - 1 /\ stage' = "begin" /\ flow' = Single(ByPool[1]) /\ degraded' = TRUE
        /\ outcome' = outcome
    BY <1>2 DEF Retry
  <2>2. tries = 1 /\ tries' = 0
    BY <1>2, <2>1 DEF PlanInv, Asking
  <2>3. flow' \in Seq(StepType) /\ Len(flow') = 1 /\ ByPool[1] # NoWorker
    BY <2>1, SingleType, FirstOfPool, StepAssumption
  <2>4. Sound'
    BY <2>1, <2>3 DEF Sound
  <2>5. PlanInv'
    BY <2>1, <2>2, <2>3, <2>4 DEF PlanInv, Asking, Executing
  <2>6. MemoryInv'
    BY <2>1, <2>3 DEF MemoryInv, Asking, Executing, progress
  <2> QED  BY <2>5, <2>6
<1> QED  BY <1>1, <1>2

LEMMA PlanningKeeps ==
  ASSUME Inv, Planning
  PROVE  Inv'
<1>1. /\ VerdictInv => VerdictInv'
  <2> USE DEF VerdictInv
  <2>1. stage \in Asking /\ progress' = progress /\ stepping' = stepping
    BY DEF Planning, Classify, Unreadable, Unplanned, Decompose, Repair, Asking
  <2>2. stage' # "store"
    BY DEF Planning, Classify, Unreadable, Unplanned, Decompose, Repair, Retry, Finish
  <2> QED  BY <2>1, <2>2 DEF progress, stepping
<1>2. PlanInv /\ MemoryInv /\ VerdictInv
  BY DEF Inv
<1>3. CASE Classify
  <2>n. stage = "classify" /\ tries' = tries /\ degraded' = degraded /\ progress' = progress
    BY <1>3 DEF Classify
  <2>1. CASE Finish("unplanned") /\ UNCHANGED flow
    <3>1. stage' = "done" /\ outcome' = "unplanned" /\ flow' = flow
      BY <2>1 DEF Finish
    <3>3. PlanInv'
      BY <1>2, <2>n, <3>1 DEF PlanInv, Asking, Executing
    <3>4. MemoryInv'
      BY <1>2, <2>n, <3>1 DEF MemoryInv, Asking, Executing, progress
    <3> QED  BY <1>1, <1>2, <3>3, <3>4 DEF Inv
  <2>2. CASE Orchestrator # NoWorker /\ stage' = "begin" /\ flow' = Single(Orchestrator) /\ UNCHANGED outcome
    <3>1. flow' \in Seq(StepType) /\ Len(flow') = 1
      BY <2>2, SingleType, StepAssumption
    <3>2. Sound'
      BY <2>2 DEF Sound
    <3>3. PlanInv'
      BY <1>2, <2>n, <2>2, <3>1, <3>2
             DEF PlanInv, Asking, Executing
    <3>4. MemoryInv'
      BY <1>2, <2>n, <2>2, <3>1, <3>2
             DEF MemoryInv, Asking, Executing, progress
    <3> QED  BY <1>1, <1>2, <3>3, <3>4 DEF Inv
  <2>3. CASE stage' = "ask" /\ UNCHANGED <<flow, outcome>>
    <3>1. stage' = "ask" /\ outcome' = outcome /\ flow' = flow
      BY <2>3
    <3>3. PlanInv'
      BY <1>2, <2>n, <3>1 DEF PlanInv, Asking, Executing
    <3>4. MemoryInv'
      BY <1>2, <2>n, <3>1 DEF MemoryInv, Asking, Executing, progress
    <3> QED  BY <1>1, <1>2, <3>3, <3>4 DEF Inv
  <2> QED  BY <1>3, <2>1, <2>2, <2>3 DEF Classify
<1>4. CASE Unreadable
  BY <1>1, <1>2, <1>4, RetryKeeps DEF Unreadable, Inv
<1>5. CASE Unplanned
  <2>1. PlanInv' /\ MemoryInv'
    BY <1>2, <1>5 DEF Unplanned, Finish, planning, progress, PlanInv, MemoryInv, Asking, Executing
  <2> QED  BY <1>1, <1>2, <2>1 DEF Inv
<1>6. ASSUME NEW d \in Drafts, Decompose(d) \/ Repair(d)
      PROVE  Inv'
  <2> DEFINE routed == SelectWorkers(d)
  <2>1. stage \in {"ask", "repair"} /\ progress' = progress
    BY <1>6 DEF Decompose, Repair
  <2>2. CASE Retry
    BY <1>1, <1>2, <2>1, <2>2, RetryKeeps DEF Inv
  <2>3. CASE ~Retry
    <3>1. /\ ValidForPool(routed) /\ flow' = routed
          /\ tries' = tries /\ degraded' = degraded /\ outcome' = outcome
          /\ stage' = "repair" \/ (stage' = "begin" /\ Audited(routed))
      BY <1>6, <2>3 DEF Decompose, Repair
    <3>2. routed \in Seq(StepType)
      BY <3>1, RoutedType
    <3>3. stage' = "begin" => Sound'
      BY <3>1 DEF Sound
    <3>4. stage' = "begin" => Len(flow') >= 1
      BY <3>1, <3>2 DEF Audited
    <3>5. PlanInv' /\ MemoryInv'
      BY <1>2, <2>1, <3>1, <3>2, <3>3, <3>4 DEF PlanInv, MemoryInv, Asking, Executing, progress
    <3> QED  BY <1>1, <1>2, <3>5 DEF Inv
  <2> QED  BY <2>2, <2>3
<1> QED  BY <1>3, <1>4, <1>5, <1>6 DEF Planning
(* Execution leaves the plan alone.                                        *)
LEMMA ExecutionPlan ==
  ASSUME PlanInv, MemoryInv, stage \in Executing, stage' \in Executing \union {"done"}, UNCHANGED planning
  PROVE  PlanInv'
BY DEF PlanInv, MemoryInv, planning, Sound, Asking, Executing

(* A worker is given up: the next one is called, or it ends.               *)
LEMMA GivingUp ==
  ASSUME Inv, stage \in Executing, stage # "store", GiveUp, out' = Nothing,
         UNCHANGED <<planning, progress, accepted, repaired>>
  PROVE  Inv'
<1>1. \/ stage' = "call" /\ outcome' = outcome
      \/ stage' = "done" /\ outcome' = "error"
  BY DEF GiveUp, Finish
<1>2. PlanInv'
  BY <1>1, ExecutionPlan DEF Inv, Executing
<1>3. MemoryInv'
  BY <1>1 DEF Inv, MemoryInv, planning, progress, Asking, Executing
<1>4. VerdictInv'
  BY <1>1, NothingIsOut DEF Inv, VerdictInv, progress
<1> QED  BY <1>2, <1>3, <1>4 DEF Inv

LEMMA StoreKeeps ==
  ASSUME Inv, Store
  PROVE  Inv'
<1>1. /\ stage = "store" /\ memory' = Remembered /\ at' = at + 1
      /\ planning' = planning /\ stepping' = stepping
      /\ IF at = Len(flow) THEN stage' = "done" /\ outcome' = "answer"
                           ELSE stage' = "begin" /\ outcome' = outcome
  BY DEF Store, Proceed, Finish
<1>2. /\ at \in Nat \ {0} /\ DOMAIN memory = 1..(at - 1) /\ Len(flow) \in Nat /\ at <= Len(flow)
      /\ flow \in Seq(StepType)
  BY <1>1 DEF Inv, PlanInv, MemoryInv, Executing
<1>3. /\ DOMAIN memory' = 1..at
      /\ \A j \in 1..(at - 1) : memory'[j] = memory[j]
      /\ memory'[at] = Kept
  <2>1. memory' = [j \in DOMAIN memory \union {at} |-> IF j = at THEN Kept ELSE memory[j]]
    BY <1>1 DEF Remembered
  <2> QED  BY <1>2, <2>1
<1>4. PlanInv'
  BY <1>1, ExecutionPlan DEF Inv, Executing
<1>5. MemoryInv'
  <2>1. at' \in Nat \ {0} /\ DOMAIN memory' = 1..(at' - 1)
    BY <1>1, <1>2, <1>3
  <2>2. flow' = flow /\ flow # <<>>
    BY <1>1, <1>2 DEF planning
  <2>3. stage' = "begin" => at' <= Len(flow')
    BY <1>1, <1>2, <2>2
  <2>4. outcome' = "answer" => at' = Len(flow') + 1
    BY <1>1, <1>2, <2>2 DEF Inv, MemoryInv
  <2>5. stage' = "begin" => outcome' = "none"
    BY <1>1 DEF Inv, MemoryInv
  <2> QED  BY <1>1, <2>1, <2>2, <2>3, <2>4, <2>5 DEF MemoryInv, Asking, Executing
<1>6. VerdictInv'
  <2> SUFFICES ASSUME Verifying  PROVE VerdictInv'
    BY DEF VerdictInv
  <2>1. /\ out.verdict = (IF accepted THEN "accept" ELSE "reject") /\ (~accepted => repaired)
        /\ accepted \in BOOLEAN /\ repaired \in BOOLEAN
    BY <1>1 DEF Inv, VerdictInv
  <2>2. /\ Kept.marked = (repaired /\ ~accepted) /\ Kept.verdict = out.verdict
    BY DEF Kept
  <2>3. /\ Kept.marked \in BOOLEAN
        /\ Kept.verdict = (IF Kept.marked THEN "reject" ELSE "accept")
    BY <2>1, <2>2
  <2>4. \A j \in DOMAIN memory' : memory'[j].marked \in BOOLEAN
          /\ memory'[j].verdict = (IF memory'[j].marked THEN "reject" ELSE "accept")
    <3> TAKE j \in DOMAIN memory'
    <3>1. CASE j = at
      BY <1>3, <2>3, <3>1
    <3>2. CASE j # at
      <4>1. j \in 1..(at - 1) /\ memory'[j] = memory[j]
        BY <1>2, <1>3, <3>2
      <4> QED  BY <1>2, <4>1 DEF Inv, VerdictInv
    <3> QED  BY <3>1, <3>2
  <2>5. accepted' = accepted /\ repaired' = repaired /\ stage' # "store" /\ out' \in Outputs
    BY <1>1 DEF stepping, Inv, VerdictInv
  <2> QED  BY <2>1, <2>4, <2>5 DEF VerdictInv
<1> QED  BY <1>4, <1>5, <1>6 DEF Inv

LEMMA ExecutionKeeps ==
  ASSUME Inv, Execution
  PROVE  Inv'
<1>1. CASE Begin
  <2>1. /\ stage = "begin" /\ planning' = planning /\ progress' = progress
        /\ \/ stage' = "done" /\ outcome' = "budget" /\ stepping' = stepping
           \/ stage' = "call" /\ outcome' = outcome /\ accepted' = TRUE /\ repaired' = FALSE
              /\ out' = Nothing
    BY <1>1 DEF Begin, Finish
  <2>2. PlanInv'
    BY <2>1, ExecutionPlan DEF Inv, Executing
  <2>3. MemoryInv'
    BY <2>1 DEF Inv, MemoryInv, planning, progress, Asking, Executing
  <2>4. VerdictInv'
    BY <2>1, NothingIsOut DEF Inv, VerdictInv, progress, stepping
  <2> QED  BY <2>2, <2>3, <2>4 DEF Inv
<1>2. CASE CallRefused \/ CallFails \/ VerifierFails
  BY <1>2, GivingUp DEF CallRefused, CallFails, VerifierFails, Executing
<1>3. ASSUME NEW s \in Sizes, NEW e \in BOOLEAN, CallAnswers(s, e)
      PROVE  Inv'
  <2>1. /\ stage = "call" /\ planning' = planning /\ progress' = progress /\ outcome' = outcome
        /\ repaired' = repaired
        /\ IF Verifying THEN stage' = "verify" /\ accepted' = accepted ELSE stage' = "store"
        /\ out' \in Outputs
    BY <1>3, StepAssumption DEF CallAnswers, Outputs
  <2>2. PlanInv'
    BY <2>1, ExecutionPlan DEF Inv, Executing
  <2>3. MemoryInv'
    BY <2>1 DEF Inv, MemoryInv, planning, progress, Asking, Executing
  <2>4. VerdictInv'
    BY <2>1 DEF Inv, VerdictInv, progress
  <2> QED  BY <2>2, <2>3, <2>4 DEF Inv
<1>4. CASE Accept \/ Reject
  <2>1. /\ stage = "verify" /\ planning' = planning /\ progress' = progress /\ outcome' = outcome
        /\ stage' \in {"call", "store"}
    BY <1>4 DEF Accept, Reject
  <2>2. PlanInv'
    BY <2>1, ExecutionPlan DEF Inv, Executing
  <2>3. MemoryInv'
    BY <2>1 DEF Inv, MemoryInv, planning, progress, Asking, Executing
  <2> SUFFICES ASSUME Verifying  PROVE VerdictInv'
    BY <2>2, <2>3 DEF Inv, VerdictInv
  <2>4. CASE Accept
    <3>1. accepted' = TRUE /\ repaired' = repaired /\ out' = [out EXCEPT !.verdict = "accept"]
      BY <2>4 DEF Accept
    <3> QED  BY <2>1, <3>1 DEF Inv, VerdictInv, Outputs, progress
  <2>5. CASE Reject
    <3>1. accepted' = FALSE /\ repaired' = TRUE /\ out' = [out EXCEPT !.verdict = "reject"]
      BY <2>5 DEF Reject
    <3> QED  BY <2>1, <3>1 DEF Inv, VerdictInv, Outputs, progress
  <2> QED  BY <1>4, <2>4, <2>5
<1>5. CASE CallBreaks \/ StoreFails
  <2>1. /\ stage \in {"call", "verify", "store"} /\ stage' = "done" /\ outcome' = "crash"
        /\ planning' = planning /\ progress' = progress /\ stepping' = stepping
    BY <1>5 DEF CallBreaks, StoreFails, Finish
  <2>2. PlanInv'
    BY <2>1, ExecutionPlan DEF Inv, Executing
  <2>3. MemoryInv' /\ VerdictInv'
    BY <2>1 DEF Inv, MemoryInv, VerdictInv, planning, progress, stepping, Asking, Executing
  <2> QED  BY <2>2, <2>3 DEF Inv
<1> QED  BY <1>1, <1>2, <1>3, <1>4, <1>5, StoreKeeps DEF Execution

(* A query that hangs has what it had.                                     *)
LEMMA WaitingKeeps ==
  ASSUME Inv, Waits
  PROVE  Inv'
<1>1. /\ stage' = "hung" /\ outcome' = outcome /\ stage # "done" /\ planning' = planning
      /\ progress' = progress /\ stepping' = stepping
  BY DEF Waits
<1>2. PlanInv'
  BY <1>1 DEF Inv, PlanInv, planning, Asking, Executing
<1>3. MemoryInv'
  BY <1>1 DEF Inv, MemoryInv, planning, progress, Asking, Executing
<1>4. VerdictInv'
  BY <1>1 DEF Inv, VerdictInv, progress, stepping
<1> QED  BY <1>2, <1>3, <1>4 DEF Inv

-----------------------------------------------------------------------------
(* Theorems *)

THEOREM Invariance == Spec => []Inv
<1>1. Inv /\ UNCHANGED vars => Inv'
  BY DEF vars, planning, progress, stepping, Inv, PlanInv, MemoryInv, VerdictInv, Sound
<1>2. Inv /\ [Next]_vars => Inv'
  BY <1>1, PlanningKeeps, ExecutionKeeps, WaitingKeeps DEF Next
<1> QED  BY <1>2, Initially, PTL DEF Spec

(* What is executed has passed the audit, or is a single direct step.      *)
THEOREM PlansAreSound == Spec => []PlansSound
<1>1. Inv => PlansSound
  BY DEF Inv, PlanInv, PlansSound, Sound, Executing
<1> QED  BY <1>1, Invariance, PTL

(* A step finds every output it may read.                                  *)
THEOREM RefsAreResolved == Spec => []RefsResolved
<1>1. Inv => RefsResolved
  <2> SUFFICES ASSUME Inv, stage \in {"call", "verify", "store"}
               PROVE  Step.reads \subseteq DOMAIN memory
    BY DEF RefsResolved
  <2>1. /\ flow \in Seq(StepType) /\ Sound /\ at \in 1..Len(flow) /\ DOMAIN memory = 1..(at - 1)
    BY DEF Inv, PlanInv, MemoryInv, Executing
  <2> QED  BY <2>1, SoundReads DEF Step
<1> QED  BY <1>1, Invariance, PTL

(* An output is marked exactly if the verifier's last word was no.         *)
THEOREM RejectionsAreMarked == Spec => []MarkedRejected
<1>1. Inv => MarkedRejected
  BY DEF Inv, VerdictInv, MarkedRejected
<1> QED  BY <1>1, Invariance, PTL

-----------------------------------------------------------------------------
(* Accounts and candidates *)

CountsInv ==
  /\ tries <= Retries /\ at <= Len(flow) + 1
  /\ cand \in 1..Len(ByPool) /\ repair \in 0..MaxRepairs
  /\ degraded \in BOOLEAN /\ accepted \in BOOLEAN /\ repaired \in BOOLEAN
  /\ outcome \in {"none", "answer", "budget", "unplanned", "error", "crash"}

(* What is begun can be paid for.                                          *)
BudgetInv ==
  /\ out.size \in Nat /\ \A j \in DOMAIN memory : memory[j].size \in Nat
  /\ spent \in Nat /\ (Budget > 0 => spent <= Budget)
  /\ stage \in {"call", "verify", "store"} /\ Budget > 0 => spent + StepIn <= Budget

(* A call that is refused is sent to nobody; of any other step those       *)
(* before the candidate have been asked, and the one whose answer is       *)
(* verified as well.                                                       *)
TriedInv ==
  /\ asked \subseteq Pool
  /\ stage \in {"call", "verify"} => cand <= Len(Ranked)
  /\ stage = "call" /\ Blocked => asked = {}
  /\ stage = "call" /\ ~Blocked => \A i \in 1..(cand - 1) : Ranked[i] \in asked
  /\ stage = "verify" => ~Blocked /\ \A i \in 1..cand : Ranked[i] \in asked
  /\ TriedAll

LEMMA InputStable ==
  ASSUME UNCHANGED <<flow, at, memory>>
  PROVE  StepIn' = StepIn
BY DEF StepIn, SizeOf, Step, MapThenSumSet, MapThenFoldSet

LEMMA RankedStable ==
  ASSUME UNCHANGED <<flow, at>>
  PROVE  Ranked' = Ranked
BY DEF Ranked, Others, Step

LEMMA BlockedStable ==
  ASSUME UNCHANGED <<flow, at, memory>>
  PROVE  Blocked' = Blocked
BY DEF Blocked, Step

(* The step that is executed is for a worker of the pool.                  *)
LEMMA StepInPool ==
  ASSUME Inv, stage \in Executing
  PROVE  Step.worker \in Pool
<1>1. flow \in Seq(StepType) /\ Sound /\ at \in 1..Len(flow)
  BY DEF Inv, PlanInv, MemoryInv
<1>2. CASE ValidForPool(flow)
  BY <1>1, <1>2 DEF ValidForPool, Step
<1>3. CASE \E w \in {Orchestrator, ByPool[1]} \ {NoWorker} : flow = Single(w)
  <2>1. PICK w \in Pool : flow = Single(w)
    BY <1>3, StepAssumption, FirstOfPool
  <2>2. at = 1 /\ Single(w)[1].worker = w
    BY <1>1, <2>1, SingleType DEF Single
  <2> QED  BY <2>1, <2>2 DEF Step
<1> QED  BY <1>1, <1>2, <1>3 DEF Sound

(* The candidates are the whole pool, and no more of them than it has.     *)
LEMMA RankedAll ==
  ASSUME Step.worker \in Pool
  PROVE  /\ Ranked \in Seq(Pool) /\ Len(Ranked) \in 1..Len(ByPool)
         /\ \A w \in Pool : \E i \in 1..Len(Ranked) : Ranked[i] = w
<1> DEFINE n == Len(ByPool)  s == Select(ByPool, Others)  one == <<Step.worker>>
<1>1. ByPool \in Seq(Pool) /\ n \in Nat /\ Others \in SUBSET (1..n)
  <2>1. ByPool \in Seq(Pool)
    BY PoolAssumption
  <2>2. n \in Nat
    BY <2>1
  <2> QED  BY <2>1, <2>2 DEF Others
<1>2. /\ s \in Seq(Pool) /\ Len(s) = Cardinality(Others)
      /\ Cardinality(Others) \in 0..n
      /\ \A i \in Others : \E k \in 1..Cardinality(Others) : s[k] = ByPool[i]
  BY <1>1, SelectIs
<1>3. Cardinality(Others) < n
  <2>1. PICK i \in 1..n : ByPool[i] = Step.worker
    BY PoolAssumption
  <2>2. Others # 1..n
    BY <2>1 DEF Others
  <2>3. IsFiniteSet(1..n) /\ Cardinality(1..n) = n
    <3>1. 1 \in Int /\ n \in Int
      BY <1>1
    <3>2. IsFiniteSet(1..n) /\ Cardinality(1..n) = IF 1 > n THEN 0 ELSE n - 1 + 1
      BY <3>1, FS_Interval, Zenon
    <3> QED  BY <1>1, <3>2
  <2>4. Cardinality(Others) # n
    BY <1>1, <2>2, <2>3, FS_Subset
  <2> QED  BY <1>1, <1>2, <2>4
<1> HIDE DEF s
<1>4. one \in Seq(Pool) /\ Len(one) = 1 /\ one[1] = Step.worker
  OBVIOUS
<1> HIDE DEF one
<1>5. Ranked = one \o s
  BY DEF Ranked, one, s
<1>6. /\ Ranked \in Seq(Pool) /\ Len(Ranked) = 1 + Len(s)
      /\ \A i \in 1..(1 + Len(s)) : Ranked[i] = IF i <= 1 THEN one[i] ELSE s[i - 1]
  <2>1. /\ one \o s \in Seq(Pool) /\ Len(one \o s) = Len(one) + Len(s)
        /\ \A i \in 1..(Len(one) + Len(s)) :
             (one \o s)[i] = IF i <= Len(one) THEN one[i] ELSE s[i - Len(one)]
    BY <1>2, <1>4, ConcatProperties
  <2> QED  BY <1>4, <1>5, <2>1
<1>7. Len(Ranked) \in 1..n
  BY <1>1, <1>2, <1>3, <1>6
<1>8. ASSUME NEW w \in Pool
      PROVE  \E i \in 1..Len(Ranked) : Ranked[i] = w
  <2>1. CASE w = Step.worker
    <3>1. Ranked[1] = w
      BY <1>2, <1>4, <1>6, <2>1
    <3> QED  BY <1>7, <3>1
  <2>2. CASE w # Step.worker
    <3>1. PICK i \in Others : ByPool[i] = w
      BY <2>2, PoolAssumption DEF Others
    <3>2. PICK k \in 1..Len(s) : s[k] = w
      BY <1>2, <3>1
    <3>3. k + 1 \in 1..Len(Ranked) /\ Ranked[k + 1] = w
      <4>1. k + 1 \in 1..(1 + Len(s)) /\ ~(k + 1 <= 1) /\ (k + 1) - 1 = k
        BY <1>2, <3>2
      <4> QED  BY <1>6, <3>2, <4>1
    <3> QED  BY <3>3
  <2> QED  BY <2>1, <2>2
<1> QED  BY <1>6, <1>7, <1>8

LEMMA AccountsInitially == Init => CountsInv /\ BudgetInv /\ TriedInv
<1> SUFFICES ASSUME Init  PROVE CountsInv /\ BudgetInv /\ TriedInv
  OBVIOUS
<1>1. /\ stage = "classify" /\ tries = Retries /\ flow = <<>> /\ degraded = FALSE
      /\ at = 1 /\ memory = <<>> /\ spent = 0 /\ cand = 1 /\ repair = 0 /\ out = Nothing
      /\ accepted = TRUE /\ repaired = FALSE /\ asked = {} /\ outcome = "none"
  BY DEF Init
<1>2. Retries \in Nat /\ MaxRepairs \in Nat /\ Budget \in Nat /\ 1 \in 1..Len(ByPool)
  BY StepAssumption, PoolAssumption
<1>3. CountsInv
  <2>1. Len(flow) = 0 /\ at <= Len(flow) + 1 /\ tries <= Retries
    BY <1>1, <1>2
  <2>2. cand \in 1..Len(ByPool) /\ repair \in 0..MaxRepairs
    BY <1>1, <1>2
  <2> QED  BY <1>1, <2>1, <2>2 DEF CountsInv
<1>4. BudgetInv
  BY <1>1, <1>2 DEF BudgetInv, Nothing
<1>5. TriedInv
  BY <1>1 DEF TriedInv, TriedAll
<1> QED  BY <1>3, <1>4, <1>5

(* Planning: nothing is called and nothing is spent.                       *)
LEMMA PlanningAccounts ==
  ASSUME Inv, CountsInv, BudgetInv, TriedInv, Planning
  PROVE  CountsInv' /\ BudgetInv' /\ TriedInv'
<1>1. stage \in Asking /\ progress' = progress /\ stepping' = stepping
  BY DEF Planning, Classify, Unreadable, Unplanned, Decompose, Repair, Asking
<1>2. /\ stage' \in {"ask", "repair", "begin", "done"}
      /\ \/ tries' = tries /\ degraded' = degraded
         \/ tries' = tries - 1 /\ degraded' \in {degraded, TRUE}
      /\ outcome' \in {outcome, "unplanned", "crash"}
  BY DEF Planning, Classify, Unreadable, Unplanned, Decompose, Repair, Retry, Finish, planning
<1>3. tries \in Nat /\ at = 1 /\ Retries \in Nat
  BY <1>1, StepAssumption DEF Inv, PlanInv, MemoryInv
<1>4. Len(flow') \in Nat
  <2>1. Inv'
    BY PlanningKeeps
  <2> QED  BY <2>1 DEF Inv, PlanInv
<1>5. CountsInv'
  <2>1. tries' <= Retries
    <3>1. tries' \in {tries, tries - 1} /\ tries <= Retries
      BY <1>2 DEF CountsInv
    <3> QED  BY <1>3, <3>1
  <2>2. at' <= Len(flow') + 1
    BY <1>1, <1>3, <1>4 DEF progress
  <2> QED  BY <1>1, <1>2, <2>1, <2>2 DEF CountsInv, stepping
<1>6. BudgetInv'
  <2>1. out' = out /\ memory' = memory /\ spent' = spent /\ stage' \notin {"call", "verify", "store"}
    BY <1>1, <1>2 DEF progress, stepping
  <2> QED  BY <2>1 DEF BudgetInv
<1>7. TriedInv'
  <2>1. asked' = asked /\ stage' \notin {"call", "verify"} /\ outcome' # "error"
    BY <1>1, <1>2 DEF stepping, Inv, MemoryInv, Asking
  <2> QED  BY <2>1 DEF TriedInv, TriedAll
<1> QED  BY <1>5, <1>6, <1>7

(* What execution does to the counts.                                      *)
LEMMA ExecutionCounts ==
  ASSUME Inv, CountsInv, Execution
  PROVE  CountsInv'
<1> USE DEF CountsInv
<1>1. MaxRepairs \in Nat /\ Len(ByPool) \in Nat \ {0} /\ stage \in Executing
  <2>1. MaxRepairs \in Nat
    BY StepAssumption
  <2>2. Len(ByPool) \in Nat \ {0}
    BY PoolAssumption
  <2>3. stage \in Executing
    BY DEF Execution, Begin, CallRefused, CallFails, CallAnswers, CallBreaks, Accept, Reject, VerifierFails, Store, StoreFails,
           Executing
  <2> QED  BY <2>1, <2>2, <2>3
<1>2. /\ Step.worker \in Pool /\ Len(Ranked) \in 1..Len(ByPool)
      /\ at \in Nat \ {0} /\ at <= Len(flow) /\ Len(flow) \in Nat
  <2>1. Step.worker \in Pool
    BY <1>1, StepInPool
  <2> QED  BY <1>1, <2>1, RankedAll DEF Inv, PlanInv, MemoryInv
<1>3. planning' = planning
  BY DEF Execution, Begin, CallRefused, CallFails, CallAnswers, CallBreaks, Accept, Reject, VerifierFails, Store, StoreFails
<1>4. at' <= Len(flow') + 1
  <2>1. at' \in {at, at + 1}
    BY DEF Execution, Begin, CallRefused, CallFails, CallAnswers, CallBreaks, Accept, Reject, VerifierFails, Store, StoreFails,
           Proceed, progress
  <2> QED  BY <1>2, <1>3, <2>1 DEF planning
<1>5. cand' \in 1..Len(ByPool) /\ repair' \in 0..MaxRepairs
  <2>0. ASSUME GiveUp  PROVE cand' \in 1..Len(ByPool) /\ repair' \in 0..MaxRepairs
    <3>1. CASE cand < Len(Ranked)
      BY <1>1, <1>2, <2>0, <3>1 DEF GiveUp
    <3>2. CASE ~(cand < Len(Ranked))
      BY <2>0, <3>2 DEF GiveUp
    <3> QED  BY <3>1, <3>2
  <2>1. CASE Begin
    BY <1>1, <2>1 DEF Begin, stepping
  <2>2. CASE CallRefused \/ CallFails \/ VerifierFails
    BY <2>0, <2>2 DEF CallRefused, CallFails, VerifierFails
  <2>3. CASE \/ \E s \in Sizes, e \in BOOLEAN : CallAnswers(s, e)
             \/ CallBreaks \/ Accept \/ Store \/ StoreFails
    BY <2>3 DEF CallAnswers, CallBreaks, Accept, Store, StoreFails, stepping
  <2>4. CASE Reject
    <3>1. CASE repair < MaxRepairs /\ repair' = repair + 1 /\ cand' = cand
      BY <1>1, <3>1
    <3>2. CASE cand < Len(Ranked) /\ repair' = 0 /\ cand' = cand + 1
      BY <1>1, <1>2, <3>2
    <3>3. CASE UNCHANGED <<cand, repair>>
      BY <3>3
    <3> QED  BY <2>4, <3>1, <3>2, <3>3 DEF Reject
  <2> QED  BY <2>1, <2>2, <2>3, <2>4 DEF Execution
<1>6. accepted' \in BOOLEAN /\ repaired' \in BOOLEAN
  BY DEF Execution, Begin, CallRefused, CallFails, CallAnswers, CallBreaks, Accept, Reject, VerifierFails, Store, StoreFails,
         stepping
<1>7. outcome' \in {outcome, "answer", "budget", "error", "crash"}
  BY DEF Execution, Begin, CallRefused, CallFails, CallAnswers, CallBreaks, Accept, Reject, VerifierFails, Store, StoreFails,
         GiveUp, Finish, Proceed
<1> QED  BY <1>3, <1>4, <1>5, <1>6, <1>7 DEF planning

(* What a step sends is a number: outputs have sizes, and what is missing  *)
(* counts for one.                                                         *)
LEMMA InputNatural ==
  ASSUME Inv, BudgetInv, stage \in Executing
  PROVE  StepIn \in Nat
<1>1. flow \in Seq(StepType) /\ Sound /\ at \in 1..Len(flow)
  BY DEF Inv, PlanInv, MemoryInv
<1>2. Step.reads \subseteq 1..(at - 1)
  BY <1>1, SoundReads DEF Step
<1>3. IsFiniteSet(Step.reads)
  <2>1. IsFiniteSet(1..(at - 1))
    BY <1>1, FS_Interval
  <2> QED  BY <1>2, <2>1, FS_Subset
<1>4. \A j \in Step.reads : SizeOf(j) \in Nat
  BY DEF BudgetInv, SizeOf
<1>5. MapThenSumSet(SizeOf, Step.reads) \in Nat
  BY <1>3, <1>4, InputIsNatural
<1> QED  BY <1>5 DEF StepIn

LEMMA ExecutionBudget ==
  ASSUME Inv, BudgetInv, Execution
  PROVE  BudgetInv'
<1> DEFINE paying == {"call", "verify", "store"}
<1>1. Budget \in Nat /\ stage \in Executing /\ spent \in Nat
  BY StepAssumption
     DEF Execution, Begin, CallRefused, CallFails, CallAnswers, CallBreaks, Accept, Reject, VerifierFails, Store, StoreFails, Executing,
         BudgetInv
<1>2. StepIn \in Nat
  BY <1>1, InputNatural
<1>3. CASE Begin
  <2>1. planning' = planning /\ progress' = progress
    BY <1>3 DEF Begin
  <2>2. StepIn' = StepIn
    BY <2>1, InputStable DEF planning, progress
  <2>3. out' \in {out, Nothing}
    BY <1>3 DEF Begin, stepping
  <2>4. out'.size \in Nat
    BY <2>3 DEF BudgetInv, Nothing
  <2>5. stage' \in paying /\ Budget > 0 => ~(spent + StepIn > Budget)
    BY <1>3 DEF Begin, Finish
  <2>6. stage' \in paying /\ Budget > 0 => spent + StepIn <= Budget
    BY <1>1, <1>2, <2>5
  <2> QED  BY <2>1, <2>2, <2>4, <2>6 DEF BudgetInv, progress
<1>4. CASE Store
  <2>1. /\ stage = "store" /\ memory' = Remembered /\ spent' = spent + StepIn
        /\ stage' \in {"begin", "done"} /\ out' = out
    BY <1>4 DEF Store, Proceed, Finish, stepping
  <2>2. Kept.size \in Nat
    BY DEF Kept, BudgetInv
  <2>3. \A j \in DOMAIN memory' : memory'[j].size \in Nat
    BY <2>1, <2>2 DEF Remembered, BudgetInv
  <2>4. spent' \in Nat /\ (Budget > 0 => spent' <= Budget)
    BY <1>1, <1>2, <2>1 DEF BudgetInv
  <2> QED  BY <2>1, <2>3, <2>4 DEF BudgetInv
<1>5. CASE ~Begin /\ ~Store
  <2>1. planning' = planning /\ progress' = progress
    BY <1>5 DEF Execution, CallRefused, CallFails, CallAnswers, CallBreaks, Accept, Reject, VerifierFails, StoreFails
  <2>2. StepIn' = StepIn
    BY <2>1, InputStable DEF planning, progress
  <2>3. stage \in paying
    BY <1>5 DEF Execution, CallRefused, CallFails, CallAnswers, CallBreaks, Accept, Reject, VerifierFails, StoreFails
  <2>4. out'.size \in Nat
    <3>1. CASE CallRefused \/ CallFails \/ VerifierFails \/ CallBreaks \/ StoreFails
      BY <3>1 DEF CallRefused, CallFails, VerifierFails, CallBreaks, StoreFails, stepping, BudgetInv, Nothing
    <3>2. ASSUME NEW s \in Sizes, NEW e \in BOOLEAN, CallAnswers(s, e)
          PROVE  out'.size \in Nat
      BY <3>2, StepAssumption DEF CallAnswers
    <3>3. CASE Accept \/ Reject
      <4>1. \E v : out' = [out EXCEPT !.verdict = v]
        BY <3>3 DEF Accept, Reject
      <4> QED  BY <4>1 DEF BudgetInv
    <3> QED  BY <1>5, <3>1, <3>2, <3>3 DEF Execution
  <2> QED  BY <2>1, <2>2, <2>3, <2>4 DEF BudgetInv, progress
<1> QED  BY <1>3, <1>4, <1>5

(* A worker is given up: the next one is on, or there is none left.        *)
LEMMA TriedGivingUp ==
  ASSUME Inv, CountsInv, TriedInv, stage \in {"call", "verify"}, GiveUp,
         asked' \subseteq Pool, UNCHANGED <<planning, progress>>,
         Blocked => asked' = {}, ~Blocked => \A i \in 1..cand : Ranked[i] \in asked'
  PROVE  TriedInv'
<1>1. Step.worker \in Pool
  BY StepInPool DEF Executing
<1>2. /\ Len(Ranked) \in Nat /\ cand \in Nat \ {0} /\ cand <= Len(Ranked)
      /\ \A w \in Pool : \E i \in 1..Len(Ranked) : Ranked[i] = w
  <2>1. Len(ByPool) \in Nat
    BY PoolAssumption
  <2>2. /\ Len(Ranked) \in 1..Len(ByPool)
        /\ \A w \in Pool : \E i \in 1..Len(Ranked) : Ranked[i] = w
    BY <1>1, RankedAll
  <2>3. cand \in 1..Len(ByPool) /\ cand <= Len(Ranked)
    BY DEF CountsInv, TriedInv
  <2> QED  BY <2>1, <2>2, <2>3
<1>3. Ranked' = Ranked /\ Blocked' = Blocked
  BY RankedStable, BlockedStable DEF planning, progress
<1>4. outcome = "none"
  BY DEF Inv, MemoryInv
<1>5. CASE cand < Len(Ranked)
  <2>1. cand' = cand + 1 /\ stage' = "call" /\ outcome' = outcome
    BY <1>5 DEF GiveUp
  <2>2. cand' <= Len(Ranked) /\ 1..(cand' - 1) = 1..cand
    BY <1>2, <1>5, <2>1
  <2>3. cand' <= Len(Ranked') /\ (~Blocked' => \A i \in 1..(cand' - 1) : Ranked'[i] \in asked')
    BY <1>3, <2>2
  <2> QED  BY <1>3, <1>4, <2>1, <2>3 DEF TriedInv, TriedAll
<1>6. CASE ~(cand < Len(Ranked))
  <2>1. stage' = "done"
    BY <1>6 DEF GiveUp, Finish
  <2>2. 1..Len(Ranked) = 1..cand
    BY <1>2, <1>6
  <2>3. ~Blocked => Pool \subseteq asked'
    BY <1>2, <2>2
  <2>4. asked' = IF Blocked' THEN {} ELSE Pool
    BY <1>3, <2>3
  <2> QED  BY <2>1, <2>4 DEF TriedInv, TriedAll
<1> QED  BY <1>5, <1>6

LEMMA ExecutionTried ==
  ASSUME Inv, CountsInv, TriedInv, Execution
  PROVE  TriedInv'
<1>1. /\ stage \in Executing /\ outcome = "none" /\ planning' = planning
  BY DEF Execution, Begin, CallRefused, CallFails, CallAnswers, CallBreaks, Accept, Reject, VerifierFails,
         Store, StoreFails, Executing, Inv, MemoryInv
<1>2. /\ Step.worker \in Pool /\ Len(ByPool) \in Nat
      /\ Ranked \in Seq(Pool) /\ Len(Ranked) \in 1..Len(ByPool) /\ cand \in Nat \ {0}
  <2>1. Step.worker \in Pool /\ Len(ByPool) \in Nat
    BY <1>1, StepInPool, PoolAssumption
  <2> QED  BY <2>1, RankedAll DEF CountsInv
<1>3. CASE Begin
  <2>1. progress' = progress /\ stage' \in {"done", "call"}
    BY <1>3 DEF Begin, Finish
  <2>2. CASE stage' = "done"
    <3>1. outcome' = "budget" /\ asked' = asked
      BY <1>3, <2>2 DEF Begin, Finish, stepping
    <3> QED  BY <2>2, <3>1 DEF TriedInv, TriedAll
  <2>3. CASE stage' = "call"
    <3>1. outcome' = outcome /\ asked' = {} /\ cand' = 1
      BY <1>3, <2>3 DEF Begin, Finish
    <3>2. Ranked' = Ranked
      BY <1>1, <2>1, RankedStable DEF planning, progress
    <3>3. cand' <= Len(Ranked') /\ \A i \in 1..(cand' - 1) : Ranked'[i] \in asked'
      BY <1>2, <3>1, <3>2
    <3> QED  BY <1>1, <2>3, <3>1, <3>3 DEF TriedInv, TriedAll
  <2> QED  BY <2>1, <2>2, <2>3
<1>4. ASSUME stage = "call", ~Blocked, asked' = asked \union {Ranked[cand]}
      PROVE  asked' \subseteq Pool /\ \A i \in 1..cand : Ranked[i] \in asked'
  <2>1. cand \in 1..Len(Ranked) /\ asked \subseteq Pool /\ \A i \in 1..(cand - 1) : Ranked[i] \in asked
    BY <1>2, <1>4 DEF TriedInv
  <2>2. Ranked[cand] \in Pool
    BY <1>2, <2>1
  <2>3. \A i \in 1..cand : i = cand \/ i \in 1..(cand - 1)
    BY <1>2
  <2> QED  BY <1>4, <2>1, <2>2, <2>3
<1>5. CASE CallRefused
  <2>1. stage = "call" /\ Blocked /\ asked' = asked /\ GiveUp /\ UNCHANGED <<planning, progress>>
    BY <1>5 DEF CallRefused
  <2>2. asked' = {} /\ asked' \subseteq Pool
    BY <2>1 DEF TriedInv
  <2> QED  BY <2>1, <2>2, TriedGivingUp
<1>6. CASE CallFails
  <2>1. /\ stage = "call" /\ ~Blocked /\ asked' = asked \union {Ranked[cand]}
        /\ GiveUp /\ UNCHANGED <<planning, progress>>
    BY <1>6 DEF CallFails
  <2> QED  BY <1>4, <2>1, TriedGivingUp
<1>7. CASE VerifierFails
  <2>1. stage = "verify" /\ asked' = asked /\ GiveUp /\ UNCHANGED <<planning, progress>>
    BY <1>7 DEF VerifierFails
  <2>2. asked' \subseteq Pool /\ ~Blocked /\ \A i \in 1..cand : Ranked[i] \in asked'
    BY <2>1 DEF TriedInv
  <2> QED  BY <2>1, <2>2, TriedGivingUp
<1>8. ASSUME NEW s \in Sizes, NEW e \in BOOLEAN, CallAnswers(s, e)
      PROVE  TriedInv'
  <2>1. /\ stage = "call" /\ ~Blocked /\ stage' \in {"verify", "store"} /\ progress' = progress
        /\ outcome' = outcome /\ cand' = cand /\ asked' = asked \union {Ranked[cand]}
    BY <1>8 DEF CallAnswers
  <2>2. Ranked' = Ranked /\ Blocked' = Blocked
    BY <1>1, <2>1, RankedStable, BlockedStable DEF planning, progress
  <2>3. asked' \subseteq Pool /\ (\A i \in 1..cand : Ranked[i] \in asked') /\ cand <= Len(Ranked)
    BY <1>4, <2>1 DEF TriedInv
  <2> QED  BY <1>1, <2>1, <2>2, <2>3 DEF TriedInv, TriedAll
<1>9. CASE Accept \/ CallBreaks \/ Store \/ StoreFails
  <2>1. stage' \in {"store", "begin", "done"} /\ outcome' \in {"none", "answer", "crash"} /\ asked' = asked
    BY <1>1, <1>9 DEF Accept, CallBreaks, Store, StoreFails, Proceed, Finish, stepping
  <2> QED  BY <2>1 DEF TriedInv, TriedAll
<1>10. CASE Reject
  <2>1. /\ stage = "verify" /\ stage' \in {"call", "store"} /\ progress' = progress
        /\ outcome' = outcome /\ asked' = asked
    BY <1>10 DEF Reject
  <2>2. Ranked' = Ranked /\ Blocked' = Blocked
    BY <1>1, <2>1, RankedStable, BlockedStable DEF planning, progress
  <2>3. ~Blocked /\ (\A i \in 1..cand : Ranked[i] \in asked) /\ cand <= Len(Ranked)
    BY <2>1 DEF TriedInv
  <2>4. stage' = "call" => cand' = cand \/ (cand < Len(Ranked) /\ cand' = cand + 1)
    BY <1>10 DEF Reject
  <2>5. stage' = "call" => cand' <= Len(Ranked) /\ 1..(cand' - 1) \subseteq 1..cand
    BY <1>2, <2>3, <2>4
  <2> QED  BY <1>1, <2>1, <2>2, <2>3, <2>5 DEF TriedInv, TriedAll
<1> QED  BY <1>3, <1>5, <1>6, <1>7, <1>8, <1>9, <1>10 DEF Execution

(* A query that hangs is not done with anybody.                            *)
LEMMA WaitingAccounts ==
  ASSUME Inv, CountsInv, BudgetInv, TriedInv, Waits
  PROVE  CountsInv' /\ BudgetInv' /\ TriedInv'
<1>1. /\ stage' = "hung" /\ outcome' = outcome /\ outcome = "none"
      /\ planning' = planning /\ progress' = progress /\ stepping' = stepping
  BY DEF Waits, Inv, MemoryInv
<1> QED  BY <1>1 DEF CountsInv, BudgetInv, TriedInv, TriedAll, planning, progress, stepping

(* What the accounts and the candidates rest on: every count is within its *)
(* limit, what is begun can be paid for, and who was called is known.      *)
THEOREM Accounts == Spec => [](CountsInv /\ BudgetInv /\ TriedInv)
<1> DEFINE A == CountsInv /\ BudgetInv /\ TriedInv
<1>1. A /\ UNCHANGED vars => A'
  <2> SUFFICES ASSUME A, UNCHANGED vars  PROVE A'
    OBVIOUS
  <2>1. /\ stage' = stage /\ planning' = planning /\ progress' = progress /\ stepping' = stepping
        /\ outcome' = outcome
    BY DEF vars
  <2>2. StepIn' = StepIn /\ Ranked' = Ranked /\ Blocked' = Blocked
    BY <2>1, InputStable, RankedStable, BlockedStable DEF planning, progress
  <2> QED  BY <2>1, <2>2 DEF CountsInv, BudgetInv, TriedInv, TriedAll, planning, progress, stepping
<1>2. Inv /\ A /\ [Next]_vars => A'
  BY <1>1, PlanningAccounts, ExecutionCounts, ExecutionBudget, ExecutionTried, WaitingAccounts DEF Next
<1>3. Init => A
  BY AccountsInitially
<1> QED  BY <1>2, <1>3, Invariance, PTL DEF Spec

(* The types hold, the input of the steps done never exceeds the budget,   *)
(* and an answer is the output of a complete workflow.                     *)
THEOREM AccountsAreSound == Spec => []AccountsSound
<1>1. Inv /\ CountsInv /\ BudgetInv /\ TriedInv => AccountsSound
  <2> SUFFICES ASSUME Inv, CountsInv, BudgetInv, TriedInv
               PROVE  TypeOK /\ WithinBudget
    BY DEF AccountsSound
  <2>1. stage \in Asking \union Executing \union {"done", "hung"}
    BY DEF Inv, MemoryInv
  <2>2. tries \in 0..Retries
    BY StepAssumption DEF Inv, PlanInv, CountsInv
  <2>3. flow \in Seq(StepType) /\ Len(flow) \in Nat /\ at \in Nat \ {0}
    BY DEF Inv, PlanInv, MemoryInv
  <2>4. at \in 1..(Len(flow) + 1)
    BY <2>3 DEF CountsInv
  <2>5. TypeOK
    BY <2>1, <2>2, <2>4 DEF TypeOK, CountsInv, BudgetInv, TriedInv, Asking, Executing
  <2>6. outcome = "answer" => flow # <<>> /\ DOMAIN memory = 1..Len(flow)
    BY <2>3 DEF Inv, MemoryInv
  <2>7. WithinBudget
    BY <2>6 DEF WithinBudget, BudgetInv
  <2> QED  BY <2>5, <2>7
<1> QED  BY <1>1, Invariance, Accounts, PTL

(* A query whose execution fails has been sent to every worker of the      *)
(* pool; to nobody if what it asks for is refused.                         *)
THEOREM AllAreTried == Spec => []TriedAll
<1>1. TriedInv => TriedAll
  BY DEF TriedInv
<1> QED  BY <1>1, Accounts, PTL


-----------------------------------------------------------------------------
(* What is left to do *)

(* Planning has two calls for each attempt, execution has its steps, and a *)
(* step its candidates, each of them his repairs, and each of these a call *)
(* and a verdict.                                                          *)
PlanLeft == IF stage = "classify" THEN 2 * tries + 2
            ELSE IF stage = "ask" THEN 2 * tries + 1
            ELSE IF stage = "repair" THEN 2 * tries ELSE 0
StageLeft == IF stage = "call" THEN 3 ELSE IF stage = "verify" THEN 2
             ELSE IF stage = "store" THEN 1 ELSE 0
Left == <<PlanLeft, Len(flow) + 1 - at, IF stage = "begin" THEN 1 ELSE 0,
          Len(ByPool) - cand, MaxRepairs - repair, StageLeft>>

(* The lexicographic order of what is left.                                *)
Amounts == [1..6 -> Nat]
Fewer == LexProductOrdering(OpToRel(<, Nat), Nat, 6)
(* A step leaves less.                                                     *)
Falls == <<Left', Left>> \in Fewer

LEMMA FewerIs ==
  ASSUME NEW f \in Amounts, NEW g \in Amounts, NEW j \in 1..6,
         \A i \in 1..(j - 1) : f[i] = g[i], f[j] < g[j]
  PROVE  <<f, g>> \in Fewer
<1>1. <<f[j], g[j]>> \in OpToRel(<, Nat)
  BY DEF OpToRel, Amounts
<1> QED  BY <1>1 DEF Fewer, LexProductOrdering, Amounts

LEMMA LeftType ==
  ASSUME Inv, CountsInv
  PROVE  /\ Left \in Amounts
         /\ tries \in Nat /\ at \in Nat /\ Len(flow) \in Nat /\ cand \in Nat /\ repair \in Nat
         /\ Len(ByPool) \in Nat /\ MaxRepairs \in Nat
<1>1. Len(ByPool) \in Nat /\ MaxRepairs \in Nat
  BY PoolAssumption, StepAssumption
<1>2. tries \in Nat /\ at \in Nat /\ Len(flow) \in Nat /\ at <= Len(flow) + 1
  BY DEF Inv, PlanInv, MemoryInv, CountsInv
<1>3. cand \in 1..Len(ByPool) /\ repair \in 0..MaxRepairs
  BY DEF CountsInv
<1>4. PlanLeft \in Nat /\ StageLeft \in Nat
  BY <1>2 DEF PlanLeft, StageLeft
<1>5. Len(flow) + 1 - at \in Nat /\ Len(ByPool) - cand \in Nat /\ MaxRepairs - repair \in Nat
  BY <1>1, <1>2, <1>3
<1>6. Left \in Amounts
  <2> HIDE DEF PlanLeft, StageLeft
  <2> QED  BY <1>4, <1>5 DEF Left, Amounts
<1> QED  BY <1>1, <1>2, <1>3, <1>6

(* A step that goes on from one number to a smaller one.                   *)
LEMMA LeftFalls ==
  ASSUME Left \in Amounts, Left' \in Amounts,
         \/ PlanLeft' < PlanLeft
         \/ /\ PlanLeft' = PlanLeft
            /\ \/ Len(flow') + 1 - at' < Len(flow) + 1 - at
               \/ /\ UNCHANGED <<flow, at>>
                  /\ \/ stage = "begin" /\ stage' # "begin"
                     \/ /\ stage # "begin" /\ stage' # "begin"
                        /\ \/ Len(ByPool) - cand' < Len(ByPool) - cand
                           \/ /\ cand' = cand
                              /\ \/ MaxRepairs - repair' < MaxRepairs - repair
                                 \/ repair' = repair /\ StageLeft' < StageLeft
  PROVE  <<Left', Left>> \in Fewer
<1> DEFINE lower(j) == (\A i \in 1..(j - 1) : Left'[i] = Left[i]) /\ Left'[j] < Left[j]
<1>1. ASSUME NEW j \in 1..6, lower(j)  PROVE <<Left', Left>> \in Fewer
  BY <1>1, FewerIs
<1>2. /\ Left[1] = PlanLeft /\ Left[2] = Len(flow) + 1 - at
      /\ Left[3] = (IF stage = "begin" THEN 1 ELSE 0)
      /\ Left[4] = Len(ByPool) - cand /\ Left[5] = MaxRepairs - repair /\ Left[6] = StageLeft
  BY DEF Left
<1>3. /\ Left'[1] = PlanLeft' /\ Left'[2] = Len(flow') + 1 - at'
      /\ Left'[3] = (IF stage' = "begin" THEN 1 ELSE 0)
      /\ Left'[4] = Len(ByPool) - cand' /\ Left'[5] = MaxRepairs - repair' /\ Left'[6] = StageLeft'
  BY DEF Left
<1>4. /\ 1..(1 - 1) = {} /\ 1..(2 - 1) = {1} /\ 1..(3 - 1) = {1, 2} /\ 1..(4 - 1) = {1, 2, 3}
      /\ 1..(5 - 1) = {1, 2, 3, 4} /\ 1..(6 - 1) = {1, 2, 3, 4, 5}
  OBVIOUS
<1> HIDE DEF Left, PlanLeft, StageLeft
<1>5. CASE PlanLeft' < PlanLeft
  <2>1. lower(1)
    BY <1>2, <1>3, <1>4, <1>5
  <2> QED  BY <1>1, <2>1
<1>6. CASE PlanLeft' = PlanLeft /\ Len(flow') + 1 - at' < Len(flow) + 1 - at
  <2>1. lower(2)
    BY <1>2, <1>3, <1>4, <1>6
  <2> QED  BY <1>1, <2>1
<1>7. CASE PlanLeft' = PlanLeft /\ UNCHANGED <<flow, at>>
  <2>1. CASE stage = "begin" /\ stage' # "begin"
    <3>1. lower(3)
      BY <1>2, <1>3, <1>4, <1>7, <2>1
    <3> QED  BY <1>1, <3>1
  <2>2. CASE stage # "begin" /\ stage' # "begin" /\ Len(ByPool) - cand' < Len(ByPool) - cand
    <3>1. lower(4)
      BY <1>2, <1>3, <1>4, <1>7, <2>2
    <3> QED  BY <1>1, <3>1
  <2>3. CASE /\ stage # "begin" /\ stage' # "begin" /\ cand' = cand
             /\ MaxRepairs - repair' < MaxRepairs - repair
    <3>1. lower(5)
      BY <1>2, <1>3, <1>4, <1>7, <2>3
    <3> QED  BY <1>1, <3>1
  <2>4. CASE /\ stage # "begin" /\ stage' # "begin" /\ cand' = cand
             /\ repair' = repair /\ StageLeft' < StageLeft
    <3>1. lower(6)
      BY <1>2, <1>3, <1>4, <1>7, <2>4
    <3> QED  BY <1>1, <3>1
  <2> QED  BY <1>5, <1>6, <1>7, <2>1, <2>2, <2>3, <2>4
<1> QED  BY <1>5, <1>6, <1>7

(* Every answer to a prompt uses up an attempt or ends the planning.       *)
LEMMA PlanningFalls ==
  ASSUME Inv, Planning
  PROVE  PlanLeft' < PlanLeft
<1>1. tries \in Nat /\ tries > 0 /\ stage \in Asking
  BY DEF Planning, Classify, Unreadable, Unplanned, Decompose, Repair, Asking, Inv, PlanInv
<1>2. ASSUME Retry, stage \in {"ask", "repair"}  PROVE PlanLeft' < PlanLeft
  <2>1. CASE tries > 1
    <3>1. tries' = tries - 1 /\ stage' = "ask"
      BY <1>2, <2>1 DEF Retry
    <3> QED  BY <1>1, <1>2, <3>1 DEF PlanLeft
  <2>2. CASE ~(tries > 1)
    <3>1. stage' = "begin"
      BY <1>2, <2>2 DEF Retry
    <3> QED  BY <1>1, <1>2, <3>1 DEF PlanLeft
  <2> QED  BY <2>1, <2>2
<1>3. ASSUME stage' \notin Asking  PROVE PlanLeft' < PlanLeft
  BY <1>1, <1>3 DEF PlanLeft, Asking
<1>4. CASE Classify
  <2>1. stage = "classify" /\ tries' = tries /\ (stage' \notin Asking \/ stage' = "ask")
    BY <1>4 DEF Classify, Finish, Asking
  <2> QED  BY <1>1, <1>3, <2>1 DEF PlanLeft
<1>5. CASE Unreadable
  BY <1>2, <1>5 DEF Unreadable
<1>6. CASE Unplanned
  BY <1>3, <1>6 DEF Unplanned, Finish, Asking
<1>7. ASSUME NEW d \in Drafts, Decompose(d)  PROVE PlanLeft' < PlanLeft
  <2>1. \/ stage = "ask" /\ Retry
        \/ stage = "ask" /\ stage' \in {"begin", "repair"} /\ tries' = tries
    BY <1>7 DEF Decompose
  <2>2. CASE stage = "ask" /\ stage' \in {"begin", "repair"} /\ tries' = tries
    BY <1>1, <2>2 DEF PlanLeft
  <2> QED  BY <1>2, <2>1, <2>2
<1>8. ASSUME NEW d \in Drafts, Repair(d)  PROVE PlanLeft' < PlanLeft
  <2>1. \/ stage = "repair" /\ Retry
        \/ stage' = "begin"
    BY <1>8 DEF Repair
  <2> QED  BY <1>2, <1>3, <2>1 DEF Asking
<1> QED  BY <1>4, <1>5, <1>6, <1>7, <1>8 DEF Planning

(* Execution begins, calls, judges, gives up and stores, and never turns   *)
(* back but to a worker, a repair or a step that is next.                  *)
LEMMA ExecutionFalls ==
  ASSUME Inv, CountsInv, Left' \in Amounts, Execution
  PROVE  <<Left', Left>> \in Fewer
<1>1. /\ Left \in Amounts /\ Left' \in Amounts
      /\ at \in Nat /\ Len(flow) \in Nat /\ cand \in Nat /\ repair \in Nat
      /\ Len(ByPool) \in Nat /\ MaxRepairs \in Nat
  BY LeftType
<1>2. stage \in Executing /\ stage' \notin Asking /\ UNCHANGED planning
  BY DEF Execution, Begin, CallRefused, CallFails, CallAnswers, CallBreaks, Accept, Reject, VerifierFails, Store, StoreFails,
         GiveUp, Proceed, Finish, Executing, Asking
<1>3. PlanLeft = 0 /\ PlanLeft' = 0 /\ flow' = flow
  BY <1>2 DEF PlanLeft, Executing, Asking, planning
<1>4. ASSUME at' = at, stage = "begin", stage' # "begin"  PROVE <<Left', Left>> \in Fewer
  BY <1>1, <1>3, <1>4, LeftFalls
<1>5. ASSUME at' = at, stage # "begin", stage' # "begin",
             \/ cand' = cand + 1
             \/ cand' = cand /\ repair' = repair + 1
             \/ cand' = cand /\ repair' = repair /\ StageLeft' < StageLeft
      PROVE  <<Left', Left>> \in Fewer
  <2>1. CASE cand' = cand + 1
    <3>1. Len(ByPool) - cand' < Len(ByPool) - cand
      BY <1>1, <2>1
    <3> QED  BY <1>1, <1>3, <1>5, <3>1, LeftFalls
  <2>2. CASE cand' = cand /\ repair' = repair + 1
    <3>1. MaxRepairs - repair' < MaxRepairs - repair
      BY <1>1, <2>2
    <3> QED  BY <1>1, <1>3, <1>5, <2>2, <3>1, LeftFalls
  <2>3. CASE cand' = cand /\ repair' = repair /\ StageLeft' < StageLeft
    BY <1>1, <1>3, <1>5, <2>3, LeftFalls
  <2> QED  BY <1>5, <2>1, <2>2, <2>3
<1>6. CASE Begin
  BY <1>4, <1>6 DEF Begin, Finish, progress
<1>7. ASSUME GiveUp, stage \in {"call", "verify"}, at' = at  PROVE <<Left', Left>> \in Fewer
  <2>1. CASE cand < Len(Ranked)
    <3>1. cand' = cand + 1 /\ stage' = "call"
      BY <1>7, <2>1 DEF GiveUp
    <3> QED  BY <1>5, <1>7, <3>1
  <2>2. CASE ~(cand < Len(Ranked))
    <3>1. cand' = cand /\ repair' = repair /\ stage' = "done"
      BY <1>7, <2>2 DEF GiveUp, Finish
    <3>2. StageLeft' < StageLeft
      BY <1>7, <3>1 DEF StageLeft
    <3> QED  BY <1>5, <1>7, <3>1, <3>2
  <2> QED  BY <2>1, <2>2
<1>8. CASE CallRefused \/ CallFails
  BY <1>7, <1>8 DEF CallRefused, CallFails, progress
<1>9. CASE VerifierFails
  BY <1>7, <1>9 DEF VerifierFails, progress
<1>10. ASSUME NEW s \in Sizes, NEW e \in BOOLEAN, CallAnswers(s, e)
       PROVE  <<Left', Left>> \in Fewer
  <2>1. /\ stage = "call" /\ stage' \in {"verify", "store"} /\ at' = at
        /\ cand' = cand /\ repair' = repair
    BY <1>10 DEF CallAnswers, progress
  <2>2. StageLeft' < StageLeft
    BY <2>1 DEF StageLeft
  <2> QED  BY <1>5, <2>1, <2>2
<1>11. CASE Accept
  <2>1. stage = "verify" /\ stage' = "store" /\ at' = at /\ cand' = cand /\ repair' = repair
    BY <1>11 DEF Accept, progress
  <2>2. StageLeft' < StageLeft
    BY <2>1 DEF StageLeft
  <2> QED  BY <1>5, <2>1, <2>2
<1>12. CASE Reject
  <2>1. /\ stage = "verify" /\ stage' \in {"call", "store"} /\ at' = at
        /\ \/ cand' = cand + 1
           \/ cand' = cand /\ repair' = repair + 1
           \/ cand' = cand /\ repair' = repair /\ stage' = "store"
    BY <1>12 DEF Reject, progress
  <2>2. stage' = "store" => StageLeft' < StageLeft
    BY <2>1 DEF StageLeft
  <2> QED  BY <1>5, <2>1, <2>2
<1>13. CASE Store
  <2>1. at' = at + 1
    BY <1>13 DEF Store, Proceed
  <2>2. Len(flow') + 1 - at' < Len(flow) + 1 - at
    BY <1>1, <1>3, <2>1
  <2> QED  BY <1>1, <1>3, <2>2, LeftFalls
<1>14. CASE CallBreaks \/ StoreFails
  <2>1. /\ stage \in {"call", "verify", "store"} /\ stage' = "done"
        /\ at' = at /\ cand' = cand /\ repair' = repair
    BY <1>14 DEF CallBreaks, StoreFails, Finish, progress, stepping
  <2>2. StageLeft' < StageLeft
    BY <2>1 DEF StageLeft
  <2> QED  BY <1>5, <2>1, <2>2
<1> QED  BY <1>6, <1>8, <1>9, <1>10, <1>11, <1>12, <1>13, <1>14 DEF Execution

(* A query that hangs has nothing left to do.                              *)
LEMMA WaitingFalls ==
  ASSUME Inv, CountsInv, Left' \in Amounts, Waits
  PROVE  <<Left', Left>> \in Fewer
<1>1. /\ stage' = "hung" /\ stage \in {"ask", "repair", "call", "verify"}
      /\ flow' = flow /\ at' = at /\ cand' = cand /\ repair' = repair
  BY DEF Waits, planning, progress, stepping
<1>2. Left \in Amounts /\ tries \in Nat
  BY LeftType
<1>3. CASE stage \in {"ask", "repair"}
  <2>1. tries > 0
    BY <1>3 DEF Inv, PlanInv, Asking
  <2>2. PlanLeft' < PlanLeft
    BY <1>1, <1>2, <1>3, <2>1 DEF PlanLeft
  <2> QED  BY <1>2, <2>2, LeftFalls
<1>4. CASE stage \in {"call", "verify"}
  <2>1. PlanLeft' = PlanLeft /\ StageLeft' < StageLeft
    BY <1>1, <1>4 DEF PlanLeft, StageLeft
  <2> QED  BY <1>1, <1>2, <1>4, <2>1, LeftFalls
<1> QED  BY <1>1, <1>3, <1>4

(* What is left gets fewer with every step of a query, in an order that    *)
(* does not go down for ever: planning, re-routing and repair are bounded  *)
(* for every pool, every workflow and every limit (plan, run_detailed).    *)
THEOREM EveryStepCounts ==
  /\ IsWellFoundedOn(Fewer, Amounts)
  /\ Spec => [](Left \in Amounts) /\ [][Falls]_vars
<1>1. IsWellFoundedOn(Fewer, Amounts)
  <2>1. 6 \in Nat
    OBVIOUS
  <2> QED  BY <2>1, NatLessThanWellFounded, WFLexProductOrdering DEF Fewer, Amounts
<1>2. Inv /\ CountsInv => Left \in Amounts
  BY LeftType
<1>3. Inv /\ CountsInv /\ (Left \in Amounts)' /\ [Next]_vars => [Falls]_vars
  <2> SUFFICES ASSUME Inv, CountsInv, Left' \in Amounts, Next  PROVE <<Left', Left>> \in Fewer
    BY DEF Falls
  <2>1. CASE Planning
    <3>1. Left \in Amounts
      BY LeftType
    <3> QED  BY <2>1, <3>1, PlanningFalls, LeftFalls
  <2>2. CASE Execution
    BY <2>2, ExecutionFalls
  <2>3. CASE Waits
    BY <2>3, WaitingFalls
  <2> QED  BY <2>1, <2>2, <2>3 DEF Next
<1>4. Spec => [](Left \in Amounts) /\ [][Falls]_vars
  BY <1>2, <1>3, Invariance, Accounts, PTL DEF Spec
<1> QED  BY <1>1, <1>4
==============================================================================

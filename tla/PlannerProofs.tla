--------------------------- MODULE PlannerProofs ---------------------------
(***************************************************************************)
(* Proofs about Planner and the passes it is made of.                      *)
(*                                                                         *)
(* The passes are folds over sequences.  What a fold computes is reasoned  *)
(* about by induction over sets of numbers: for each fold a lemma says     *)
(* that there is a run, h[0], ..., h[n], of its steps, and the invariants  *)
(* of the run are proved for every k from k - 1.                           *)
(***************************************************************************)
EXTENDS Planner, FiniteSetTheorems, SequenceTheorems, TLAPS

-----------------------------------------------------------------------------
(* Induction, positions and folds *)

(* Every set of natural numbers with an element has a least one.           *)
LEMMA Least ==
  ASSUME NEW S \in SUBSET Nat, S # {}
  PROVE  \E m \in S : \A k \in S : m <= k
<1> DEFINE R == OpToRel(<, Nat)
<1>1. IsWellFoundedOn(R, Nat)
  BY NatLessThanWellFounded
<1>2. \A a, b \in Nat : <<a, b>> \in R <=> a < b
  BY DEF OpToRel
<1> HIDE DEF R
<1>3. PICK m \in S : \A k \in S : ~(<<k, m>> \in R)
  BY <1>1, WFMin
<1>4. \A k \in S : ~(k < m)
  BY <1>2, <1>3
<1>5. \A k \in S : m <= k
  BY <1>4
<1> QED  BY <1>5

(* Induction over the naturals, for sets.                                  *)
LEMMA SetInduction ==
  ASSUME NEW S \in SUBSET Nat, 0 \in S, \A n \in S : n + 1 \in S
  PROVE  S = Nat
<1> SUFFICES ASSUME Nat \ S # {}  PROVE FALSE
  OBVIOUS
<1>1. PICK m \in Nat \ S : \A k \in Nat \ S : m <= k
  BY Least
<1>2. m # 0 /\ m - 1 \in Nat /\ m - 1 \in S
  BY <1>1
<1>3. (m - 1) + 1 \in S
  BY <1>2
<1> QED  BY <1>1, <1>3

(* The positions in order: all of them, each once, ascending.              *)
LEMMA InOrderIs ==
  ASSUME NEW n \in Nat, NEW P \in SUBSET (1..n)
  PROVE  /\ Cardinality(P) \in 0..n
         /\ InOrder(P) \in Seq(P) /\ Len(InOrder(P)) = Cardinality(P)
         /\ \A i \in P : \E k \in 1..Cardinality(P) : InOrder(P)[k] = i
         /\ \A k, l \in 1..Cardinality(P) : k < l => InOrder(P)[k] < InOrder(P)[l]
<1> DEFINE c == Cardinality(P)
           below(i) == {j \in P : j <= i}
           r == [i \in P |-> Cardinality(below(i))]
<1>0. \A i \in P : i \in Nat
  OBVIOUS
<1>1. IsFiniteSet(P) /\ c \in Nat /\ c <= n
  <2>1. IsFiniteSet(1..n) /\ Cardinality(1..n) = n
    BY FS_Interval
  <2>2. IsFiniteSet(P) /\ Cardinality(P) <= Cardinality(1..n)
    BY <2>1, FS_Subset
  <2> QED  BY <2>1, <2>2, FS_CardinalityType
<1>2. ASSUME NEW i \in P
      PROVE  IsFiniteSet(below(i)) /\ r[i] = Cardinality(below(i)) /\ r[i] \in 1..c
  <2>1. IsFiniteSet(below(i)) /\ Cardinality(below(i)) <= c
    BY <1>1, FS_Subset
  <2>2. i \in below(i)
    OBVIOUS
  <2>3. Cardinality(below(i)) \in Nat /\ Cardinality(below(i)) # 0
    BY <2>1, <2>2, FS_CardinalityType, FS_EmptySet
  <2> QED  BY <2>1, <2>3
<1>3. ASSUME NEW i \in P, NEW j \in P, i < j
      PROVE  r[i] < r[j]
  <2>1. below(i) \in SUBSET below(j) /\ j \notin below(i) /\ j \in below(j)
    <3>1. i \in Nat /\ j \in Nat /\ \A k \in P : k \in Nat
      BY <1>0
    <3>2. \A k \in P : k <= i => k <= j
      BY <1>3, <3>1
    <3>3. below(i) \subseteq below(j)
      BY <3>2
    <3>4. ~(j <= i) /\ j <= j
      BY <1>3, <3>1
    <3> QED  BY <3>3, <3>4
  <2>2. Cardinality(below(i)) <= Cardinality(below(j)) /\ Cardinality(below(i)) # Cardinality(below(j))
    <3>1. IsFiniteSet(below(j))
      BY <1>2
    <3> HIDE DEF below
    <3> QED  BY <2>1, <3>1, FS_Subset
  <2> QED  BY <1>2, <2>2
<1>4. r \in Injection(P, 1..c)
  <2>1. r \in [P -> 1..c]
    BY <1>2
  <2>2. ASSUME NEW i \in P, NEW j \in P, r[i] = r[j]  PROVE i = j
    <3>1. r[i] \in Nat /\ r[j] \in Nat /\ i \in Nat /\ j \in Nat
      BY <1>0, <1>2
    <3> HIDE DEF r
    <3>2. ~(i < j) /\ ~(j < i)
      BY <1>3, <2>2, <3>1
    <3> QED  BY <3>1, <3>2
  <2> HIDE DEF r
  <2> QED  BY <2>1, <2>2 DEF Injection, IsInjective
<1>5. r \in Surjection(P, 1..c)
  <2>1. IsFiniteSet(1..c) /\ Cardinality(1..c) = c
    BY <1>1, FS_Interval
  <2> HIDE DEF r
  <2> QED  BY <1>4, <2>1, FS_Injection
<1>6. \A k \in 1..c : \E i \in P : r[i] = k
  <2> HIDE DEF r
  <2> QED  BY <1>5 DEF Surjection
<1>7. \A k \in 1..c : InOrder(P)[k] \in P /\ r[InOrder(P)[k]] = k
  <2> TAKE k \in 1..c
  <2>1. InOrder(P)[k] = CHOOSE i \in P : Cardinality(below(i)) = k
    BY DEF InOrder
  <2>2. \E i \in P : Cardinality(below(i)) = k
    BY <1>6
  <2> QED  BY <2>1, <2>2
<1>8. InOrder(P) \in [1..c -> P]
  BY <1>7 DEF InOrder
<1>9. InOrder(P) \in Seq(P) /\ Len(InOrder(P)) = c
  BY <1>1, <1>8
<1>10. \A i \in P : \E k \in 1..c : InOrder(P)[k] = i
  <2> TAKE i \in P
  <2>1. r[i] \in 1..c /\ InOrder(P)[r[i]] \in P /\ r[InOrder(P)[r[i]]] = r[i]
    BY <1>2, <1>7
  <2> HIDE DEF r
  <2>2. InOrder(P)[r[i]] = i
    BY <1>4, <2>1 DEF Injection, IsInjective
  <2> QED  BY <2>1, <2>2
<1>11. \A k, l \in 1..c : k < l => InOrder(P)[k] < InOrder(P)[l]
  <2> SUFFICES ASSUME NEW k \in 1..c, NEW l \in 1..c, k < l, ~(InOrder(P)[k] < InOrder(P)[l])
               PROVE  FALSE
    OBVIOUS
  <2> DEFINE a == InOrder(P)[k]  b == InOrder(P)[l]
  <2>1. a \in P /\ b \in P /\ r[a] = k /\ r[b] = l
    BY <1>7
  <2>2. a = b \/ b < a
    <3>1. a \in Nat /\ b \in Nat
      BY <1>0, <2>1
    <3> QED  BY <3>1
  <2> HIDE DEF r, a, b
  <2>3. CASE b < a
    BY <1>3, <2>1, <2>3
  <2> QED  BY <2>1, <2>2, <2>3
<1> QED  BY <1>1, <1>9, <1>10, <1>11

(* A selection: the elements at the positions, and no others.              *)
LEMMA SelectIs ==
  ASSUME NEW S, NEW s \in Seq(S), NEW P \in SUBSET (1..Len(s))
  PROVE  /\ Select(s, P) \in Seq(S) /\ Len(Select(s, P)) = Cardinality(P)
         /\ Cardinality(P) \in 0..Len(s)
         /\ \A k \in 1..Cardinality(P) : InOrder(P)[k] \in P /\ Select(s, P)[k] = s[InOrder(P)[k]]
         /\ \A i \in P : \E k \in 1..Cardinality(P) : Select(s, P)[k] = s[i]
<1>1. Len(s) \in Nat
  OBVIOUS
<1>2. /\ Cardinality(P) \in 0..Len(s)
      /\ InOrder(P) \in Seq(P) /\ Len(InOrder(P)) = Cardinality(P)
      /\ \A i \in P : \E k \in 1..Cardinality(P) : InOrder(P)[k] = i
  BY <1>1, InOrderIs
<1>3. \A k \in 1..Cardinality(P) : InOrder(P)[k] \in P /\ Select(s, P)[k] = s[InOrder(P)[k]]
  BY <1>2 DEF Select
<1>4. Select(s, P) \in [1..Cardinality(P) -> S]
  <2>1. \A k \in 1..Cardinality(P) : Select(s, P)[k] \in S
    <3>1. \A i \in P : s[i] \in S
      BY <1>1
    <3> QED  BY <1>3, <3>1
  <2> QED  BY <2>1 DEF Select
<1>5. Select(s, P) \in Seq(S) /\ Len(Select(s, P)) = Cardinality(P)
  BY <1>2, <1>4
<1> QED  BY <1>2, <1>3, <1>5

(* A finite set of integers with an element has a greatest one.            *)
LEMMA MaxIs ==
  ASSUME NEW S \in SUBSET Int, IsFiniteSet(S), S # {}
  PROVE  Max(S) \in S /\ \A x \in S : x <= Max(S)
<1> DEFINE HasMax(T) == \E m \in T : \A x \in T : x <= m
           Ns == {n \in Nat : \A T \in SUBSET S : Cardinality(T) = n => T = {} \/ HasMax(T)}
<1>1. \A T \in SUBSET S : IsFiniteSet(T) /\ Cardinality(T) \in Nat
  BY FS_Subset, FS_CardinalityType
<1>2. 0 \in Ns
  BY <1>1, FS_EmptySet
<1>3. ASSUME NEW n \in Ns  PROVE n + 1 \in Ns
  <2>n. n \in Nat /\ n + 1 \in Nat
    BY <1>3
  <2> SUFFICES ASSUME NEW T \in SUBSET S, Cardinality(T) = n + 1, T # {}
               PROVE  HasMax(T)
    BY <2>n
  <2>1. PICK a \in T : TRUE
    OBVIOUS
  <2>2. T \ {a} \in SUBSET S /\ Cardinality(T \ {a}) = n
    <3>1. Cardinality(T \ {a}) = Cardinality(T) - 1
      BY <1>1, FS_RemoveElement
    <3> QED  BY <2>n, <3>1
  <2>3. a \in Int /\ \A x \in T : x \in Int
    OBVIOUS
  <2>4. CASE T \ {a} = {}
    <3>1. \A x \in T : x <= a
      BY <2>3, <2>4
    <3> QED  BY <2>1, <3>1
  <2>5. CASE HasMax(T \ {a})
    <3>1. PICK m \in T \ {a} : \A x \in T \ {a} : x <= m
      BY <2>5
    <3>2. CASE a <= m
      <4>1. \A x \in T : x <= m
        BY <3>1, <3>2
      <4> QED  BY <4>1
    <3>3. CASE ~(a <= m)
      <4>1. \A x \in T : x <= a
        BY <2>3, <3>1, <3>3
      <4> QED  BY <4>1
    <3> QED  BY <3>2, <3>3
  <2> QED  BY <1>3, <2>2, <2>4, <2>5
<1>4. Ns = Nat
  <2> HIDE DEF Ns
  <2>1. Ns \in SUBSET Nat
    BY DEF Ns
  <2> QED  BY <1>2, <1>3, <2>1, SetInduction
<1>5. Cardinality(S) \in Ns
  <2> HIDE DEF Ns
  <2> QED  BY <1>1, <1>4
<1>6. \E m \in S : \A x \in S : x <= m
  BY <1>5
<1>7. \E m \in S : \A x \in S : m >= x
  <2>1. \A m, x \in S : x <= m <=> m >= x
    OBVIOUS
  <2> QED  BY <1>6, <2>1
<1>8. Max(S) \in S /\ \A x \in S : Max(S) >= x
  BY <1>7 DEF Max
<1> QED  BY <1>8

LEMMA MinIs ==
  ASSUME NEW S \in SUBSET Nat, S # {}
  PROVE  Min(S) \in S /\ \A x \in S : Min(S) <= x
<1>1. \E m \in S : \A k \in S : m <= k
  BY Least
<1> QED  BY <1>1 DEF Min

LEMMA MaxOfPositions ==
  ASSUME NEW n \in Nat, NEW P \in SUBSET (1..n), P # {}
  PROVE  Max(P) \in P /\ \A x \in P : x <= Max(P)
<1>1. IsFiniteSet(1..n)
  BY FS_Interval
<1>2. IsFiniteSet(P)
  BY <1>1, FS_Subset
<1>3. P \in SUBSET Int
  OBVIOUS
<1> QED  BY <1>2, <1>3, MaxIs

(* The sets a fold from the left goes through.                             *)
LEMMA FirstPositions ==
  ASSUME NEW n \in Nat, NEW k \in 1..n
  PROVE  /\ 1..k \in SUBSET (1..n) /\ 1..k # {} /\ Max(1..k) = k
         /\ (1..k) \ {k} = 1..(k - 1)
<1>1. 1..k \in SUBSET (1..n)
  OBVIOUS
<1>2. (1..k) \ {k} = 1..(k - 1)
  OBVIOUS
<1>3. k \in 1..k
  OBVIOUS
<1>4. 1..k # {}
  BY <1>3
<1>5. Max(1..k) = k
  <2>1. Max(1..k) \in 1..k /\ \A x \in 1..k : x <= Max(1..k)
    BY <1>1, <1>4, MaxOfPositions
  <2>2. k <= Max(1..k) /\ Max(1..k) <= k /\ Max(1..k) \in Nat
    BY <1>3, <2>1
  <2>3. k \in Nat
    OBVIOUS
  <2> QED  BY <2>2, <2>3
<1> QED  BY <1>1, <1>2, <1>4, <1>5

(* The equation of a fold has a solution; G[k] is what its k-th step does. *)
FoldBy(G, base, it, P) == IF P = {} THEN base ELSE G[Max(P)][it[P \ {Max(P)}]]

Computes(n, V, G, base, it) ==
  /\ it \in [SUBSET (1..n) -> V]
  /\ \A P \in SUBSET (1..n) : it[P] = FoldBy(G, base, it, P)

LEMMA FoldsExist ==
  ASSUME NEW n \in Nat, NEW V, NEW base \in V, NEW G \in [1..n -> [V -> V]]
  PROVE  \E it : Computes(n, V, G, base, it)
<1> DEFINE Good(m, it) == /\ it \in [SUBSET (1..m) -> V]
                          /\ \A P \in SUBSET (1..m) : it[P] = FoldBy(G, base, it, P)
           Ms == {m \in Nat : m <= n => \E it : Good(m, it)}
<1>1. 0 \in Ms
  <2> DEFINE it == [P \in SUBSET (1..0) |-> base]
  <2>1. \A P \in SUBSET (1..0) : P = {}
    OBVIOUS
  <2>2. Good(0, it)
    BY <2>1 DEF FoldBy
  <2> QED  BY <2>2
<1>2. ASSUME NEW m \in Ms  PROVE m + 1 \in Ms
  <2>n. m \in Nat /\ m + 1 \in Nat
    BY <1>2
  <2> SUFFICES ASSUME m + 1 <= n
               PROVE  \E it : Good(m + 1, it)
    BY <2>n
  <2>1. PICK it : Good(m, it)
    <3>1. m <= n
      BY <2>n
    <3> QED  BY <1>2, <3>1
  <2> DEFINE up == [P \in SUBSET (1..(m + 1)) |->
                      IF m + 1 \in P THEN G[m + 1][it[P \ {m + 1}]] ELSE it[P]]
  <2>2. m + 1 \in 1..n /\ G[m + 1] \in [V -> V]
    BY <2>n
  <2>3. ASSUME NEW P \in SUBSET (1..(m + 1))
        PROVE  /\ m + 1 \notin P => P \in SUBSET (1..m)
               /\ P \ {m + 1} \in SUBSET (1..m)
    <3>1. \A i \in 1..(m + 1) : i = m + 1 \/ i \in 1..m
      BY <2>n
    <3> QED  BY <3>1
  <2>4. up \in [SUBSET (1..(m + 1)) -> V]
    <3>1. ASSUME NEW P \in SUBSET (1..(m + 1))
          PROVE  (IF m + 1 \in P THEN G[m + 1][it[P \ {m + 1}]] ELSE it[P]) \in V
      <4>1. CASE m + 1 \in P
        <5>1. it[P \ {m + 1}] \in V
          BY <2>1, <2>3
        <5> QED  BY <2>2, <4>1, <5>1
      <4>2. CASE m + 1 \notin P
        BY <2>1, <2>3, <4>2
      <4> QED  BY <4>1, <4>2
    <3> QED  BY <3>1
  <2>5. ASSUME NEW P \in SUBSET (1..(m + 1))
        PROVE  up[P] = FoldBy(G, base, up, P)
    <3>1. CASE m + 1 \in P
      <4>1. Max(P) \in P /\ \A x \in P : x <= Max(P)
        BY <2>n, <3>1, MaxOfPositions
      <4>2. Max(P) = m + 1
        <5>1. Max(P) \in 1..(m + 1) /\ m + 1 <= Max(P)
          BY <3>1, <4>1
        <5> QED  BY <2>n, <5>1
      <4>3. up[P \ {m + 1}] = it[P \ {m + 1}]
        <5>1. P \ {m + 1} \in SUBSET (1..(m + 1)) /\ m + 1 \notin P \ {m + 1}
          OBVIOUS
        <5> QED  BY <5>1
      <4>4. up[P] = G[m + 1][it[P \ {m + 1}]]
        BY <3>1
      <4> HIDE DEF up
      <4> QED  BY <3>1, <4>2, <4>3, <4>4 DEF FoldBy
    <3>2. CASE m + 1 \notin P
      <4>1. P \in SUBSET (1..m) /\ up[P] = it[P] /\ it[P] = FoldBy(G, base, it, P)
        BY <2>1, <2>3, <3>2
      <4>2. CASE P = {}
        <5> HIDE DEF up
        <5> QED  BY <4>1, <4>2 DEF FoldBy
      <4>3. CASE P # {}
        <5>1. P \ {Max(P)} \in SUBSET (1..(m + 1)) /\ m + 1 \notin P \ {Max(P)}
          BY <3>2
        <5>2. up[P \ {Max(P)}] = it[P \ {Max(P)}]
          BY <5>1
        <5> HIDE DEF up
        <5> QED  BY <4>1, <4>3, <5>2 DEF FoldBy
      <4> QED  BY <4>2, <4>3
    <3> QED  BY <3>1, <3>2
  <2>6. Good(m + 1, up)
    BY <2>4, <2>5
  <2> HIDE DEF up, Good
  <2> QED  BY <2>6
<1>3. Ms = Nat
  <2> HIDE DEF Ms
  <2>1. Ms \in SUBSET Nat
    BY DEF Ms
  <2> QED  BY <1>1, <1>2, <2>1, SetInduction
<1>4. n \in Ms
  BY <1>3
<1>5. PICK it : Good(n, it)
  <2> HIDE DEF Good
  <2> QED  BY <1>4
<1> QED  BY <1>5 DEF Computes

-----------------------------------------------------------------------------
(* Reading a draft *)

(* The items of a draft are taken one after the other.                     *)
LEMMA TakenRuns ==
  ASSUME NEW d \in Seq(Item)
  PROVE  \E h : /\ h[0] = <<>> /\ Taken(d) = h[Len(d)]
                /\ \A k \in 1..Len(d) : h[k] = Take(h[k - 1], d[k])
<1> DEFINE n == Len(d)
           V == Seq(Item)
           G == [k \in 1..n |-> [v \in V |-> Take(v, d[k])]]
           Eq(it) == [P \in SUBSET (1..n) |->
                        IF P = {} THEN <<>> ELSE Take(it[P \ {Max(P)}], d[Max(P)])]
           F == CHOOSE it : it = Eq(it)
           h == [k \in 0..n |-> F[1..k]]
<1>n. n \in Nat /\ DOMAIN d = 1..n /\ \A k \in 1..n : d[k] \in Item
  OBVIOUS
<1>1. Taken(d) = F[1..n]
  BY <1>n DEF Taken, FoldLeft, MapThenFoldSet
<1>2. G \in [1..n -> [V -> V]] /\ <<>> \in V
  <2>1. \A k \in 1..n : \A v \in V : Take(v, d[k]) \in V
    BY <1>n DEF Take
  <2> QED  BY <2>1
<1>3. PICK it \in [SUBSET (1..n) -> V] :
        \A P \in SUBSET (1..n) : it[P] = FoldBy(G, <<>>, it, P)
  <2> DEFINE base == <<>>
  <2>1. n \in Nat /\ base \in V /\ G \in [1..n -> [V -> V]]
    BY <1>n, <1>2
  <2> HIDE DEF G, V, n, base
  <2>2. PICK it : Computes(n, V, G, base, it)
    BY <2>1, FoldsExist
  <2> QED  BY <2>2 DEF Computes, base
<1>4. it = Eq(it)
  <2>1. ASSUME NEW P \in SUBSET (1..n), P # {}
        PROVE  it[P] = Take(it[P \ {Max(P)}], d[Max(P)])
    <3>1. Max(P) \in 1..n
      BY <1>n, <2>1, MaxOfPositions
    <3>2. it[P \ {Max(P)}] \in V
      OBVIOUS
    <3> QED  BY <1>3, <2>1, <3>1, <3>2 DEF FoldBy
  <2>2. it[{}] = <<>>
    BY <1>3 DEF FoldBy
  <2> QED  BY <2>1, <2>2
<1>5. F = Eq(F)
  BY <1>4
<1>6. h[0] = <<>>
  <2>1. F[{}] = <<>>
    <3> HIDE DEF F
    <3> QED  BY <1>5
  <2>2. 1..0 = {} /\ 0 \in 0..n
    BY <1>n
  <2> HIDE DEF F
  <2> QED  BY <2>1, <2>2
<1>7. ASSUME NEW k \in 1..n
      PROVE  h[k] = Take(h[k - 1], d[k])
  <2>1. /\ 1..k \in SUBSET (1..n) /\ 1..k # {} /\ Max(1..k) = k
        /\ (1..k) \ {k} = 1..(k - 1)
    BY <1>n, FirstPositions
  <2>2. F[1..k] = Take(F[1..(k - 1)], d[k])
    <3> HIDE DEF F
    <3> QED  BY <1>5, <2>1
  <2>3. k \in 0..n /\ k - 1 \in 0..n
    BY <1>n
  <2> HIDE DEF F
  <2> QED  BY <2>2, <2>3
<1>8. Taken(d) = h[n]
  <2>1. n \in 0..n
    BY <1>n
  <2> HIDE DEF F
  <2> QED  BY <1>1, <2>1
<1> HIDE DEF h
<1> QED  BY <1>6, <1>7, <1>8

(* Among the first k items of a draft, those that can be used.             *)
UsableTo(d, k) == {i \in 1..k : d[i].ok /\ \A j \in 1..(i - 1) : d[j].ok => d[j].id # d[i].id}

(* Whatever is among the usable items came first with its id.              *)
LEMMA FirstUsable ==
  ASSUME NEW d \in Seq(Item), NEW k \in 0..Len(d), NEW i \in 1..k, d[i].ok
  PROVE  \E j \in UsableTo(d, k) : d[j].id = d[i].id
<1> DEFINE S == {j \in 1..k : d[j].ok /\ d[j].id = d[i].id}
<1>1. i \in S /\ S \in SUBSET Nat
  OBVIOUS
<1>2. PICK m \in S : \A j \in S : m <= j
  BY <1>1, Least
<1>3. ASSUME NEW j \in 1..(m - 1), d[j].ok  PROVE d[j].id # d[m].id
  <2>1. j \in 1..k /\ ~(m <= j) /\ d[m].id = d[i].id
    BY <1>2
  <2> QED  BY <1>2, <1>3, <2>1
<1>4. m \in UsableTo(d, k) /\ d[m].id = d[i].id
  BY <1>2, <1>3 DEF UsableTo
<1> QED  BY <1>4

(* No two steps of the plan have the same id.                              *)
Unique(ns) == \A i, j \in 1..Len(ns) : ns[i].id = ns[j].id => i = j

(* What is taken of a draft: its usable items, each once.                  *)
TakenOf(d, k, ns) ==
  /\ ns \in Seq(Item) /\ Unique(ns)
  /\ IdsOf(ns) = {d[i].id : i \in UsableTo(d, k)}
  /\ \A p \in 1..Len(ns) : \E i \in UsableTo(d, k) : ns[p] = d[i]

LEMMA TakenIs ==
  ASSUME NEW d \in Seq(Item)
  PROVE  TakenOf(d, Len(d), Taken(d))
<1> DEFINE n == Len(d)
<1>1. PICK h : /\ h[0] = <<>> /\ Taken(d) = h[n]
               /\ \A k \in 1..n : h[k] = Take(h[k - 1], d[k])
  BY TakenRuns
<1> DEFINE Ks == {k \in Nat : k <= n => TakenOf(d, k, h[k])}
<1>2. 0 \in Ks
  <2>1. UsableTo(d, 0) = {}
    BY DEF UsableTo
  <2>2. h[0] \in Seq(Item) /\ Len(h[0]) = 0
    BY <1>1
  <2>3. \A p \in 1..Len(h[0]) : FALSE
    BY <2>2
  <2>4. IdsOf(h[0]) = {} /\ Unique(h[0])
    BY <2>3 DEF IdsOf, Unique
  <2>5. TakenOf(d, 0, h[0])
    BY <2>1, <2>2, <2>3, <2>4 DEF TakenOf
  <2> QED  BY <2>5
<1>3. ASSUME NEW k \in Ks  PROVE k + 1 \in Ks
  <2>n. k \in Nat /\ k + 1 \in Nat /\ n \in Nat
    BY <1>3
  <2> SUFFICES ASSUME k + 1 <= n  PROVE TakenOf(d, k + 1, h[k + 1])
    BY <2>n
  <2> DEFINE ns == h[k]  item == d[k + 1]
  <2>1. TakenOf(d, k, ns) /\ k + 1 \in 1..n /\ k \in 0..n
    <3>1. k <= n
      BY <2>n
    <3> QED  BY <1>3, <2>n, <3>1
  <2>2. h[k + 1] = Take(ns, item)
    <3>1. (k + 1) - 1 = k
      BY <2>n
    <3> QED  BY <1>1, <2>1, <3>1
  <2>3. item \in Item
    BY <2>1
  <2>4. UsableTo(d, k) = UsableTo(d, k + 1) \ {k + 1}
    <3>1. \A i \in 1..(k + 1) : i = k + 1 \/ i \in 1..k
      BY <2>n
    <3>2. k + 1 \notin 1..k /\ 1..k \subseteq 1..(k + 1)
      BY <2>n
    <3> QED  BY <3>1, <3>2 DEF UsableTo
  <2>5. k + 1 \in UsableTo(d, k + 1) <=> item.ok /\ item.id \notin IdsOf(ns)
    <3>1. \A j \in 1..k : d[j].ok => d[j].id \in IdsOf(ns)
      BY <2>1, FirstUsable DEF TakenOf
    <3>2. \A x \in IdsOf(ns) : \E j \in 1..k : d[j].ok /\ d[j].id = x
      BY <2>1 DEF TakenOf, UsableTo
    <3>3. (k + 1) - 1 = k /\ k + 1 \in 1..(k + 1)
      BY <2>n
    <3> QED  BY <3>1, <3>2, <3>3 DEF UsableTo
  <2> HIDE DEF ns, item
  <2>6. CASE item.ok /\ item.id \notin IdsOf(ns)
    <3> DEFINE up == Append(ns, item)
    <3>1. ns \in Seq(Item) /\ up \in Seq(Item) /\ Len(ns) \in Nat /\ Len(up) = Len(ns) + 1
          /\ up[Len(ns) + 1] = item /\ \A p \in 1..Len(ns) : up[p] = ns[p]
      BY <2>1, <2>3 DEF TakenOf
    <3> HIDE DEF up
    <3>2. \A p \in 1..Len(up) : p = Len(ns) + 1 \/ p \in 1..Len(ns)
      BY <3>1
    <3>3. Unique(up)
      BY SMTT(30), <2>1, <2>6, <3>1, <3>2 DEF TakenOf, Unique, IdsOf
    <3>4. IdsOf(up) = IdsOf(ns) \union {item.id}
      <4>1. Len(ns) + 1 \in 1..Len(up) /\ 1..Len(ns) \subseteq 1..Len(up)
        BY <3>1
      <4> QED  BY <3>1, <3>2, <4>1 DEF IdsOf
    <3>5. UsableTo(d, k + 1) = UsableTo(d, k) \union {k + 1}
      BY <2>4, <2>5, <2>6
    <3>6. IdsOf(up) = {d[i].id : i \in UsableTo(d, k + 1)}
      BY <2>1, <3>4, <3>5 DEF TakenOf, item
    <3>7. \A p \in 1..Len(up) : \E i \in UsableTo(d, k + 1) : up[p] = d[i]
      <4>1. up[Len(ns) + 1] = d[k + 1] /\ k + 1 \in UsableTo(d, k + 1)
        BY <3>1, <3>5 DEF item
      <4>2. \A p \in 1..Len(ns) : \E i \in UsableTo(d, k + 1) : ns[p] = d[i]
        BY <2>1, <3>5 DEF TakenOf
      <4>3. ASSUME NEW p \in 1..Len(up)  PROVE \E i \in UsableTo(d, k + 1) : up[p] = d[i]
        BY <3>1, <3>2, <4>1, <4>2
      <4> QED  BY <4>3
    <3>8. h[k + 1] = up
      BY <2>2, <2>6 DEF Take, up
    <3> QED  BY <3>1, <3>3, <3>6, <3>7, <3>8 DEF TakenOf
  <2>7. CASE ~(item.ok /\ item.id \notin IdsOf(ns))
    <3>1. UsableTo(d, k + 1) = UsableTo(d, k)
      BY <2>4, <2>5, <2>7
    <3>2. h[k + 1] = ns
      BY <2>2, <2>7 DEF Take
    <3> QED  BY <2>1, <3>1, <3>2 DEF TakenOf, ns
  <2> QED  BY <2>6, <2>7
<1>4. Ks = Nat
  <2> HIDE DEF Ks
  <2>1. Ks \in SUBSET Nat
    BY DEF Ks
  <2> QED  BY <1>2, <1>3, <2>1, SetInduction
<1>5. TakenOf(d, n, h[n])
  <2>1. n \in Ks /\ n <= n
    BY <1>4
  <2> QED  BY <2>1
<1> QED  BY <1>1, <1>5

(* A step that is given other dependencies is a step.                      *)
LEMMA OtherDeps ==
  ASSUME NEW s \in Item, NEW E \in SUBSET (Nat \ {0})
  PROVE  /\ [s EXCEPT !.deps = E] \in Item
         /\ [s EXCEPT !.deps = E].id = s.id /\ [s EXCEPT !.deps = E].deps = E
BY DEF Item

(* The dependencies that are kept are on other steps that are there.       *)
LEMMA LinkedIs ==
  ASSUME NEW ns \in Seq(Item)
  PROVE  /\ Linked(ns) \in Seq(Item) /\ Len(Linked(ns)) = Len(ns) /\ IdsOf(Linked(ns)) = IdsOf(ns)
         /\ \A i \in 1..Len(ns) :
              /\ Linked(ns)[i] = [ns[i] EXCEPT !.deps = (ns[i].deps \intersect IdsOf(ns)) \ {ns[i].id}]
              /\ Linked(ns)[i].id = ns[i].id
              /\ Linked(ns)[i].deps = (ns[i].deps \intersect IdsOf(ns)) \ {ns[i].id}
<1> DEFINE D(i) == (ns[i].deps \intersect IdsOf(ns)) \ {ns[i].id}
           ls == [i \in 1..Len(ns) |-> [ns[i] EXCEPT !.deps = D(i)]]
<1>1. Linked(ns) = ls
  BY DEF Linked, WithDeps
<1>2. Len(ns) \in Nat /\ \A i \in 1..Len(ns) : ns[i] \in Item /\ ns[i].deps \subseteq Nat \ {0}
  <2>1. \A i \in 1..Len(ns) : ns[i] \in Item
    OBVIOUS
  <2> QED  BY <2>1 DEF Item
<1>3. \A i \in 1..Len(ns) : ls[i] \in Item /\ ls[i].id = ns[i].id /\ ls[i].deps = D(i)
  <2> SUFFICES ASSUME NEW i \in 1..Len(ns)
               PROVE  ls[i] \in Item /\ ls[i].id = ns[i].id /\ ls[i].deps = D(i)
    OBVIOUS
  <2> DEFINE s == ns[i]  E == D(i)
  <2>1. s \in Item /\ E \in SUBSET (Nat \ {0}) /\ s.id = ns[i].id
    BY <1>2
  <2>2. ls[i] = [s EXCEPT !.deps = E]
    OBVIOUS
  <2>3. E = D(i)
    OBVIOUS
  <2> HIDE DEF s, E, D, ls
  <2>4. /\ [s EXCEPT !.deps = E] \in Item
        /\ [s EXCEPT !.deps = E].id = s.id /\ [s EXCEPT !.deps = E].deps = E
    BY <2>1, OtherDeps
  <2> QED  BY <2>1, <2>2, <2>3, <2>4
<1>4. ls \in Seq(Item) /\ Len(ls) = Len(ns)
  <2>1. ls \in [1..Len(ns) -> Item]
    BY <1>3
  <2> HIDE DEF ls
  <2> QED  BY <1>2, <2>1
<1>5. IdsOf(ls) = IdsOf(ns)
  <2>1. Len(ls) = Len(ns) /\ \A i \in 1..Len(ns) : ls[i].id = ns[i].id
    BY <1>3, <1>4
  <2> HIDE DEF ls
  <2> QED  BY <2>1 DEF IdsOf
<1> QED  BY <1>1, <1>3, <1>4, <1>5

LEMMA NoDepsIs ==
  ASSUME NEW ns \in Seq(Item)
  PROVE  /\ NoDeps(ns) \in Seq(Item) /\ Len(NoDeps(ns)) = Len(ns) /\ IdsOf(NoDeps(ns)) = IdsOf(ns)
         /\ \A i \in 1..Len(ns) : /\ NoDeps(ns)[i] = [ns[i] EXCEPT !.deps = {}]
                                  /\ NoDeps(ns)[i].id = ns[i].id /\ NoDeps(ns)[i].deps = {}
<1> DEFINE ls == [i \in 1..Len(ns) |-> [ns[i] EXCEPT !.deps = {}]]
<1>1. NoDeps(ns) = ls
  BY DEF NoDeps, WithDeps
<1>2. Len(ns) \in Nat /\ \A i \in 1..Len(ns) : ns[i] \in Item
  OBVIOUS
<1>3. \A i \in 1..Len(ns) : ls[i] \in Item /\ ls[i].id = ns[i].id /\ ls[i].deps = {}
  BY <1>2, OtherDeps
<1>4. ls \in Seq(Item) /\ Len(ls) = Len(ns)
  <2>1. ls \in [1..Len(ns) -> Item]
    BY <1>3
  <2> HIDE DEF ls
  <2> QED  BY <1>2, <2>1
<1>5. IdsOf(ls) = IdsOf(ns)
  <2>1. Len(ls) = Len(ns) /\ \A i \in 1..Len(ns) : ls[i].id = ns[i].id
    BY <1>3, <1>4
  <2> HIDE DEF ls
  <2> QED  BY <2>1 DEF IdsOf
<1> QED  BY <1>1, <1>3, <1>4, <1>5

(* A sequence without repetitions whose length is n and whose elements are *)
(* among 1, ..., n has them all.                                           *)
LEMMA AllOfThem ==
  ASSUME NEW n \in Nat, NEW s \in Seq(1..n), Len(s) = n,
         \A p, q \in 1..Len(s) : s[p] = s[q] => p = q
  PROVE  \A v \in 1..n : \E p \in 1..n : s[p] = v
<1>1. s \in [1..n -> 1..n]
  OBVIOUS
<1>2. s \in Injection(1..n, 1..n)
  BY <1>1 DEF Injection, IsInjective
<1>3. IsFiniteSet(1..n)
  BY FS_Interval
<1>4. s \in Surjection(1..n, 1..n)
  BY <1>2, <1>3, FS_Injection
<1> QED  BY <1>4 DEF Surjection

-----------------------------------------------------------------------------
(* Kahn's algorithm *)

Pending(n) == [queue : Seq(1..n), out : Seq(1..n)]
Sources(ns) == [queue |-> InOrder({i \in 1..Len(ns) : ns[i].deps = {}}), out |-> <<>>]

(* Whatever is freed is queued once and in order.                          *)
LEMMA PopIs ==
  ASSUME NEW ns \in Seq(Item), NEW s \in Pending(Len(ns)), s.queue # <<>>
  PROVE  LET u == Head(s.queue)
             out == Append(s.out, u)
             freed == Freed(ns, s.queue, out, u)
         IN /\ u \in 1..Len(ns) /\ freed \subseteq 1..Len(ns)
            /\ Pop(ns, s) \in Pending(Len(ns))
            /\ Pop(ns, s).out = out /\ Pop(ns, s).queue = Tail(s.queue) \o InOrder(freed)
            /\ InOrder(freed) \in Seq(1..Len(ns))
            /\ \A i \in freed : \E k \in 1..Len(InOrder(freed)) : InOrder(freed)[k] = i
            /\ \A k \in 1..Len(InOrder(freed)) : InOrder(freed)[k] \in freed
            /\ \A k, l \in 1..Len(InOrder(freed)) : InOrder(freed)[k] = InOrder(freed)[l] => k = l
<1> DEFINE n == Len(ns)
           u == Head(s.queue)
           out == Append(s.out, u)
           freed == Freed(ns, s.queue, out, u)
           f == InOrder(freed)
<1>1. n \in Nat /\ s.queue \in Seq(1..n) /\ s.out \in Seq(1..n)
  BY DEF Pending
<1>2. u \in 1..n /\ Tail(s.queue) \in Seq(1..n) /\ out \in Seq(1..n)
  <2>1. u \in 1..n /\ Tail(s.queue) \in Seq(1..n)
    BY <1>1, HeadTailProperties
  <2> HIDE DEF u
  <2> QED  BY <1>1, <2>1
<1>3. freed \in SUBSET (1..n)
  BY DEF Freed
<1> HIDE DEF freed
<1>4. /\ f \in Seq(freed) /\ Len(f) = Cardinality(freed) /\ Cardinality(freed) \in 0..n
      /\ \A i \in freed : \E k \in 1..Cardinality(freed) : f[k] = i
      /\ \A k, l \in 1..Cardinality(freed) : k < l => f[k] < f[l]
  BY <1>1, <1>3, InOrderIs
<1>5. \A k \in 1..Len(f) : f[k] \in freed
  <2> HIDE DEF f
  <2> QED  BY <1>4
<1>6. f \in Seq(1..n)
  <2> HIDE DEF f
  <2> QED  BY <1>3, <1>4, SeqMonotonic
<1>7. ASSUME NEW k \in 1..Len(f), NEW l \in 1..Len(f), f[k] = f[l]  PROVE k = l
  <2> HIDE DEF f
  <2>1. k \in Nat /\ l \in Nat /\ f[k] \in 1..n /\ f[l] \in 1..n
    BY <1>4, <1>6
  <2>2. ~(k < l) /\ ~(l < k)
    BY <1>4, <1>7, <2>1
  <2> QED  BY <2>1, <2>2
<1>8. Pop(ns, s) = [queue |-> Tail(s.queue) \o f, out |-> out]
  BY DEF Pop, freed
<1>9. Tail(s.queue) \o f \in Seq(1..n)
  <2> HIDE DEF f
  <2> QED  BY <1>2, <1>6, ConcatProperties
<1>10. Pop(ns, s) \in Pending(n)
  <2> HIDE DEF f, out
  <2> QED  BY <1>2, <1>8, <1>9 DEF Pending
<1>11. Pop(ns, s).out = out /\ Pop(ns, s).queue = Tail(s.queue) \o f
  BY <1>8
<1>12. \A i \in freed : \E k \in 1..Len(f) : f[k] = i
  BY <1>4
<1> HIDE DEF f, out, u
<1>13. freed \subseteq 1..n
  BY <1>3
<1> QED  BY <1>2, <1>5, <1>6, <1>7, <1>10, <1>11, <1>12, <1>13 DEF f, out, u, freed

LEMMA PopType ==
  ASSUME NEW ns \in Seq(Item), NEW s \in Pending(Len(ns))
  PROVE  Pop(ns, s) \in Pending(Len(ns))
<1>1. CASE s.queue = <<>>
  BY <1>1 DEF Pop
<1>2. CASE s.queue # <<>>
  BY <1>2, PopIs
<1> QED  BY <1>1, <1>2

LEMMA SourcesType ==
  ASSUME NEW ns \in Seq(Item)
  PROVE  /\ Sources(ns) \in Pending(Len(ns)) /\ Sources(ns).out = <<>>
         /\ \A v \in 1..Len(ns) : ns[v].deps = {} <=> v \in ToSet(Sources(ns).queue)
         /\ \A k, l \in 1..Len(Sources(ns).queue) : Sources(ns).queue[k] = Sources(ns).queue[l] => k = l
<1> DEFINE n == Len(ns)
           P == {i \in 1..n : ns[i].deps = {}}
           f == InOrder(P)
<1>1. n \in Nat /\ P \in SUBSET (1..n)
  OBVIOUS
<1>2. /\ f \in Seq(P) /\ Len(f) = Cardinality(P) /\ Cardinality(P) \in 0..n
      /\ \A i \in P : \E k \in 1..Cardinality(P) : f[k] = i
      /\ \A k, l \in 1..Cardinality(P) : k < l => f[k] < f[l]
  <2> HIDE DEF P
  <2> QED  BY <1>1, InOrderIs
<1>3. Sources(ns) = [queue |-> f, out |-> <<>>]
  BY DEF Sources
<1> HIDE DEF f
<1>4. f \in Seq(1..n)
  <2> HIDE DEF P
  <2> QED  BY <1>1, <1>2, SeqMonotonic
<1>5. Sources(ns) \in Pending(n) /\ Sources(ns).out = <<>> /\ Sources(ns).queue = f
  BY <1>3, <1>4 DEF Pending
<1>6. ASSUME NEW k \in 1..Len(f), NEW l \in 1..Len(f), f[k] = f[l]  PROVE k = l
  <2> HIDE DEF P
  <2>1. k \in Nat /\ l \in Nat /\ f[k] \in 1..n /\ f[l] \in 1..n
    BY <1>2, <1>4
  <2>2. ~(k < l) /\ ~(l < k)
    BY <1>2, <1>6, <2>1
  <2> QED  BY <2>1, <2>2
<1>7. ToSet(f) = P
  <2> HIDE DEF P
  <2>1. DOMAIN f = 1..Len(f)
    BY <1>2
  <2>2. \A k \in 1..Len(f) : f[k] \in P
    BY <1>2
  <2>3. \A i \in P : \E k \in 1..Len(f) : f[k] = i
    BY <1>2
  <2> QED  BY <2>1, <2>2, <2>3 DEF ToSet
<1> QED  BY <1>5, <1>6, <1>7

(* The queue is popped once for each step.                                 *)
LEMMA KahnRuns ==
  ASSUME NEW ns \in Seq(Item)
  PROVE  \E h : /\ h[0] = Sources(ns) /\ Kahn(ns) = h[Len(ns)].out
                /\ \A k \in 1..Len(ns) : h[k] = Pop(ns, h[k - 1])
<1> DEFINE n == Len(ns)
           V == Pending(n)
           base == Sources(ns)
           G == [k \in 1..n |-> [v \in V |-> Pop(ns, v)]]
           Eq(it) == [P \in SUBSET (1..n) |-> IF P = {} THEN base ELSE Pop(ns, it[P \ {Max(P)}])]
           F == CHOOSE it : it = Eq(it)
           h == [k \in 0..n |-> F[1..k]]
<1>n. n \in Nat /\ DOMAIN PositionsOf(ns) = 1..n
  BY DEF PositionsOf
<1>1. Kahn(ns) = F[1..n].out
  BY <1>n DEF Kahn, FoldLeft, MapThenFoldSet, Sources
<1>2. G \in [1..n -> [V -> V]] /\ base \in V
  BY PopType, SourcesType
<1>3. PICK it \in [SUBSET (1..n) -> V] :
        \A P \in SUBSET (1..n) : it[P] = FoldBy(G, base, it, P)
  <2> HIDE DEF G, V, n, base
  <2>2. PICK it : Computes(n, V, G, base, it)
    BY <1>n, <1>2, FoldsExist
  <2> QED  BY <2>2 DEF Computes
<1>4. it = Eq(it)
  <2>1. ASSUME NEW P \in SUBSET (1..n), P # {}
        PROVE  it[P] = Pop(ns, it[P \ {Max(P)}])
    <3>1. Max(P) \in 1..n
      BY <1>n, <2>1, MaxOfPositions
    <3>2. it[P \ {Max(P)}] \in V
      OBVIOUS
    <3> QED  BY <1>3, <2>1, <3>1, <3>2 DEF FoldBy
  <2>2. it[{}] = base
    BY <1>3 DEF FoldBy
  <2> QED  BY <2>1, <2>2
<1>5. F = Eq(F)
  BY <1>4
<1>6. h[0] = base
  <2>1. F[{}] = base
    <3> HIDE DEF F, base
    <3> QED  BY <1>5
  <2>2. 1..0 = {} /\ 0 \in 0..n
    BY <1>n
  <2> HIDE DEF F, base
  <2> QED  BY <2>1, <2>2
<1>7. ASSUME NEW k \in 1..n
      PROVE  h[k] = Pop(ns, h[k - 1])
  <2>1. /\ 1..k \in SUBSET (1..n) /\ 1..k # {} /\ Max(1..k) = k
        /\ (1..k) \ {k} = 1..(k - 1)
    BY <1>n, FirstPositions
  <2>2. F[1..k] = Pop(ns, F[1..(k - 1)])
    <3> HIDE DEF F
    <3> QED  BY <1>5, <2>1
  <2>3. k \in 0..n /\ k - 1 \in 0..n
    BY <1>n
  <2> HIDE DEF F
  <2> QED  BY <2>2, <2>3
<1>8. Kahn(ns) = h[n].out
  <2>1. n \in 0..n
    BY <1>n
  <2> HIDE DEF F
  <2> QED  BY <1>1, <2>1
<1> HIDE DEF h
<1> QED  BY <1>6, <1>7, <1>8

LEMMA ToSetIs ==
  ASSUME NEW S, NEW s \in Seq(S)
  PROVE  ToSet(s) = {s[p] : p \in 1..Len(s)} /\ ToSet(s) \subseteq S
<1>1. DOMAIN s = 1..Len(s) /\ \A p \in 1..Len(s) : s[p] \in S
  OBVIOUS
<1> QED  BY <1>1 DEF ToSet

NoRepeats(s) == \A p, q \in 1..Len(s) : s[p] = s[q] => p = q

(* The ids of the steps that are out, and those of the first of them.      *)
OutIds(ns, out) == {ns[out[q]].id : q \in 1..Len(out)}
IdsBefore(ns, out, p) == {ns[out[q]].id : q \in 1..(p - 1)}

(* The run after k turns: nothing is in it twice; what is out waited for   *)
(* what was out before it; what is queued waits for nothing that is not    *)
(* out, and is all that does; every turn so far put one out unless the     *)
(* queue ran dry.                                                          *)
KahnInv(ns, k, s) ==
  /\ s \in Pending(Len(ns))
  /\ NoRepeats(s.queue) /\ NoRepeats(s.out)
  /\ \A p \in 1..Len(s.queue) : \A q \in 1..Len(s.out) : s.queue[p] # s.out[q]
  /\ \A p \in 1..Len(s.out) : ns[s.out[p]].deps \subseteq IdsBefore(ns, s.out, p)
  /\ \A p \in 1..Len(s.queue) : ns[s.queue[p]].deps \subseteq OutIds(ns, s.out)
  /\ \A v \in 1..Len(ns) : ns[v].deps \subseteq OutIds(ns, s.out)
                              => v \in ToSet(s.queue) \union ToSet(s.out)
  /\ Len(s.out) = k \/ s.queue = <<>>

LEMMA KahnStart ==
  ASSUME NEW ns \in Seq(Item)
  PROVE  KahnInv(ns, 0, Sources(ns))
<1> DEFINE s == Sources(ns)
<1>1. /\ s \in Pending(Len(ns)) /\ s.out = <<>> /\ NoRepeats(s.queue)
      /\ \A v \in 1..Len(ns) : ns[v].deps = {} <=> v \in ToSet(s.queue)
  BY SourcesType DEF NoRepeats
<1> HIDE DEF s
<1>2. Len(s.out) = 0 /\ \A p \in 1..Len(s.out) : FALSE
  <2>1. Len(s.out) = 0
    BY <1>1
  <2> QED  BY <2>1
<1>3. OutIds(ns, s.out) = {} /\ NoRepeats(s.out)
  BY <1>2 DEF OutIds, NoRepeats
<1>4. s.queue \in Seq(1..Len(ns))
  BY <1>1 DEF Pending
<1>5. \A p \in 1..Len(s.queue) : s.queue[p] \in ToSet(s.queue) /\ s.queue[p] \in 1..Len(ns)
  BY <1>4, ToSetIs
<1>6. \A p \in 1..Len(s.queue) : ns[s.queue[p]].deps \subseteq OutIds(ns, s.out)
  BY <1>1, <1>5
<1>7. \A v \in 1..Len(ns) : ns[v].deps \subseteq OutIds(ns, s.out) => v \in ToSet(s.queue)
  BY <1>1, <1>3
<1> QED  BY <1>1, <1>2, <1>3, <1>6, <1>7 DEF KahnInv, s

LEMMA KahnStep ==
  ASSUME NEW ns \in Seq(Item), NEW k \in Nat, NEW s, KahnInv(ns, k, s), s.queue # <<>>
  PROVE  KahnInv(ns, k + 1, Pop(ns, s))
<1> DEFINE n == Len(ns)
           u == Head(s.queue)
           O == Append(s.out, u)
           T == Tail(s.queue)
           freed == Freed(ns, s.queue, O, u)
           f == InOrder(freed)
           Q == T \o f
<1>1. /\ n \in Nat /\ s \in Pending(n) /\ s.queue \in Seq(1..n) /\ s.out \in Seq(1..n)
  BY DEF KahnInv, Pending
<1>2. /\ u \in 1..n /\ freed \subseteq 1..n /\ Pop(ns, s) \in Pending(n)
      /\ Pop(ns, s).out = O /\ Pop(ns, s).queue = Q
      /\ f \in Seq(1..n) /\ NoRepeats(f)
      /\ \A i \in freed : \E j \in 1..Len(f) : f[j] = i
      /\ \A j \in 1..Len(f) : f[j] \in freed
  BY <1>1, PopIs DEF NoRepeats
<1>3. /\ T \in Seq(1..n) /\ Len(T) = Len(s.queue) - 1 /\ Len(s.queue) \in Nat /\ Len(T) \in Nat
      /\ u = s.queue[1] /\ 1 \in 1..Len(s.queue)
      /\ \A p \in 1..Len(T) : T[p] = s.queue[p + 1] /\ p + 1 \in 1..Len(s.queue)
  <2>1. /\ T \in Seq(1..n) /\ Len(T) = Len(s.queue) - 1
        /\ \A p \in 1..Len(T) : T[p] = s.queue[p + 1]
    BY <1>1, HeadTailProperties
  <2>2. u = s.queue[1]
    BY <1>1
  <2>3. Len(s.queue) \in Nat /\ Len(s.queue) # 0
    BY <1>1, EmptySeq
  <2> HIDE DEF T, u
  <2>4. Len(T) \in Nat /\ 1 \in 1..Len(s.queue) /\ \A p \in 1..Len(T) : p + 1 \in 1..Len(s.queue)
    BY <2>1, <2>3
  <2> QED  BY <2>1, <2>2, <2>3, <2>4
<1>4. /\ O \in Seq(1..n) /\ Len(O) = Len(s.out) + 1 /\ O[Len(s.out) + 1] = u /\ Len(s.out) \in Nat
      /\ \A p \in 1..Len(s.out) : O[p] = s.out[p]
  <2> HIDE DEF u
  <2> QED  BY <1>1, <1>2
<1> HIDE DEF f, T, O, u
<1>5. /\ Q \in Seq(1..n) /\ Len(Q) = Len(T) + Len(f) /\ Len(f) \in Nat
      /\ \A p \in 1..Len(T) : Q[p] = T[p]
      /\ \A p \in 1..Len(f) : Q[Len(T) + p] = f[p]
  <2>0. Len(f) \in Nat
    BY <1>2
  <2>1. /\ Q \in Seq(1..n) /\ Len(Q) = Len(T) + Len(f)
        /\ \A i \in 1..(Len(T) + Len(f)) : Q[i] = IF i <= Len(T) THEN T[i] ELSE f[i - Len(T)]
    <3>1. \A S : \A a, b \in Seq(S) :
            /\ a \o b \in Seq(S) /\ Len(a \o b) = Len(a) + Len(b)
            /\ \A i \in 1..(Len(a) + Len(b)) : (a \o b)[i] = IF i <= Len(a) THEN a[i] ELSE b[i - Len(a)]
      BY ConcatProperties
    <3>2. T \in Seq(1..n) /\ f \in Seq(1..n)
      BY <1>2, <1>3
    <3> QED  BY <3>1, <3>2, Zenon
  <2> HIDE DEF Q
  <2>2. ASSUME NEW p \in 1..Len(T)  PROVE Q[p] = T[p]
    <3>1. p \in 1..(Len(T) + Len(f)) /\ p <= Len(T)
      BY <1>3, <2>0
    <3> QED  BY <2>1, <3>1
  <2>3. ASSUME NEW p \in 1..Len(f)  PROVE Q[Len(T) + p] = f[p]
    <3>1. Len(T) + p \in 1..(Len(T) + Len(f)) /\ ~(Len(T) + p <= Len(T)) /\ (Len(T) + p) - Len(T) = p
      BY <1>3, <2>0
    <3> QED  BY <2>1, <3>1
  <2> QED  BY <2>0, <2>1, <2>2, <2>3
<1> HIDE DEF Q
<1>6. \A p \in 1..Len(Q) : p \in 1..Len(T) \/ \E j \in 1..Len(f) : p = Len(T) + j
  <2>1. ASSUME NEW p \in 1..Len(Q), p \notin 1..Len(T)  PROVE \E j \in 1..Len(f) : p = Len(T) + j
    <3>1. p \in Nat /\ Len(T) \in Nat /\ Len(f) \in Nat /\ p <= Len(T) + Len(f) /\ ~(p <= Len(T))
      <4>1. Len(T) \in Nat /\ Len(f) \in Nat /\ Len(Q) = Len(T) + Len(f)
        BY <1>3, <1>5
      <4> QED  BY <2>1, <4>1
    <3>2. p - Len(T) \in 1..Len(f) /\ p = Len(T) + (p - Len(T))
      BY <3>1
    <3> QED  BY <3>2
  <2> QED  BY <2>1
<1>7. \A p \in 1..Len(O) : p = Len(s.out) + 1 \/ p \in 1..Len(s.out)
  BY <1>4
<1>8. /\ ToSet(s.queue) = {s.queue[p] : p \in 1..Len(s.queue)}
      /\ ToSet(s.out) = {s.out[p] : p \in 1..Len(s.out)}
      /\ ToSet(O) = {O[p] : p \in 1..Len(O)} /\ ToSet(Q) = {Q[p] : p \in 1..Len(Q)}
  <2>1. s.queue \in Seq(1..n) /\ s.out \in Seq(1..n) /\ O \in Seq(1..n) /\ Q \in Seq(1..n)
    BY <1>1, <1>4, <1>5
  <2> HIDE DEF n
  <2>2. \A x \in Seq(1..n) : ToSet(x) = {x[p] : p \in 1..Len(x)}
    BY ToSetIs
  <2> QED  BY <2>1, <2>2
<1>9. \A v \in freed : /\ v \notin ToSet(s.queue) /\ v \notin ToSet(O)
                       /\ ns[v].deps \subseteq {ns[j].id : j \in ToSet(O)}
  BY DEF Freed
<1>10. OutIds(ns, O) = {ns[j].id : j \in ToSet(O)}
  BY <1>8 DEF OutIds
<1>11. OutIds(ns, O) = OutIds(ns, s.out) \union {ns[u].id}
  <2>1. 1..Len(s.out) \subseteq 1..Len(O) /\ Len(s.out) + 1 \in 1..Len(O)
    BY <1>4
  <2> QED  BY <1>4, <1>7, <2>1 DEF OutIds
<1>12. NoRepeats(Q)
  <2> SUFFICES ASSUME NEW p \in 1..Len(Q), NEW q \in 1..Len(Q), Q[p] = Q[q]
               PROVE  p = q
    BY DEF NoRepeats
  <2>1. \A i \in 1..Len(T) : \A j \in 1..Len(f) : Q[i] # Q[Len(T) + j]
    <3>1. \A i \in 1..Len(T) : Q[i] \in ToSet(s.queue)
      <4> TAKE i \in 1..Len(T)
      <4>1. Q[i] = T[i]
        BY <1>5
      <4>2. T[i] = s.queue[i + 1] /\ i + 1 \in 1..Len(s.queue)
        BY <1>3
      <4> QED  BY <1>8, <4>1, <4>2
    <3>2. \A j \in 1..Len(f) : Q[Len(T) + j] \notin ToSet(s.queue)
      BY <1>2, <1>5, <1>9
    <3> QED  BY <3>1, <3>2
  <2>2. CASE p \in 1..Len(T) /\ q \in 1..Len(T)
    <3>1. s.queue[p + 1] = s.queue[q + 1] /\ p + 1 \in 1..Len(s.queue) /\ q + 1 \in 1..Len(s.queue)
      BY <1>3, <1>5, <2>2
    <3>2. p + 1 = q + 1
      BY <3>1 DEF KahnInv, NoRepeats
    <3> QED  BY <3>2
  <2>3. CASE \E i, j \in 1..Len(f) : p = Len(T) + i /\ q = Len(T) + j
    <3>1. PICK i \in 1..Len(f), j \in 1..Len(f) : p = Len(T) + i /\ q = Len(T) + j
      BY <2>3
    <3>2. f[i] = f[j]
      BY <1>5, <3>1
    <3> QED  BY <1>2, <3>1, <3>2 DEF NoRepeats
  <2> QED  BY <1>6, <2>1, <2>2, <2>3
<1>13. NoRepeats(O) /\ \A p \in 1..Len(Q) : \A q \in 1..Len(O) : Q[p] # O[q]
  <2>1. \A q \in 1..Len(s.out) : s.out[q] # u
    BY <1>3 DEF KahnInv
  <2>2. NoRepeats(O)
    <3> SUFFICES ASSUME NEW p \in 1..Len(O), NEW q \in 1..Len(O), O[p] = O[q]
                 PROVE  p = q
      BY DEF NoRepeats
    <3>1. CASE p \in 1..Len(s.out) /\ q \in 1..Len(s.out)
      BY <1>4, <3>1 DEF KahnInv, NoRepeats
    <3> QED  BY <1>4, <1>7, <2>1, <3>1
  <2>3. ASSUME NEW p \in 1..Len(T), NEW q \in 1..Len(O)  PROVE Q[p] # O[q]
    <3>1. Q[p] = s.queue[p + 1] /\ p + 1 \in 1..Len(s.queue) /\ p + 1 # 1
      <4>1. Q[p] = T[p]
        BY <1>5
      <4>2. T[p] = s.queue[p + 1] /\ p + 1 \in 1..Len(s.queue)
        BY <1>3
      <4> QED  BY <4>1, <4>2
    <3>2. Q[p] # u
      BY <1>3, <3>1 DEF KahnInv, NoRepeats
    <3>3. \A j \in 1..Len(s.out) : Q[p] # s.out[j]
      BY <3>1 DEF KahnInv
    <3> QED  BY <1>4, <1>7, <3>2, <3>3
  <2>4. ASSUME NEW p \in 1..Len(f), NEW q \in 1..Len(O)  PROVE Q[Len(T) + p] # O[q]
    <3>1. Q[Len(T) + p] = f[p]
      BY <1>5
    <3>2. f[p] \notin ToSet(O)
      BY <1>2, <1>9
    <3>3. O[q] \in ToSet(O)
      BY <1>8
    <3> QED  BY <3>1, <3>2, <3>3
  <2> QED  BY <1>6, <2>2, <2>3, <2>4
<1>14. \A p \in 1..Len(O) : ns[O[p]].deps \subseteq IdsBefore(ns, O, p)
  <2>1. ASSUME NEW p \in 1..Len(O)
        PROVE  IdsBefore(ns, O, p) = IdsBefore(ns, s.out, p)
    <3>1. \A q \in 1..(p - 1) : q \in 1..Len(s.out)
      BY <1>4
    <3> QED  BY <1>4, <3>1 DEF IdsBefore
  <2>2. ASSUME NEW p \in 1..Len(s.out)  PROVE ns[O[p]].deps \subseteq IdsBefore(ns, O, p)
    <3>1. p \in 1..Len(O)
      BY <1>4
    <3> QED  BY <1>4, <2>1, <3>1 DEF KahnInv
  <2>3. ns[u].deps \subseteq OutIds(ns, s.out)
    BY <1>3 DEF KahnInv
  <2>4. Len(s.out) + 1 \in 1..Len(O) /\ (Len(s.out) + 1) - 1 = Len(s.out)
    BY <1>4
  <2>5. ns[O[Len(s.out) + 1]].deps \subseteq IdsBefore(ns, O, Len(s.out) + 1)
    BY <1>4, <2>1, <2>3, <2>4 DEF IdsBefore, OutIds
  <2> QED  BY <1>7, <2>2, <2>5
<1>15. \A p \in 1..Len(Q) : ns[Q[p]].deps \subseteq OutIds(ns, O)
  <2>1. ASSUME NEW p \in 1..Len(T)  PROVE ns[Q[p]].deps \subseteq OutIds(ns, O)
    <3>1. Q[p] = s.queue[p + 1] /\ p + 1 \in 1..Len(s.queue)
      BY <1>3, <1>5
    <3>2. ns[Q[p]].deps \subseteq OutIds(ns, s.out)
      BY <3>1 DEF KahnInv
    <3> QED  BY <1>11, <3>2
  <2>2. ASSUME NEW p \in 1..Len(f)  PROVE ns[Q[Len(T) + p]].deps \subseteq OutIds(ns, O)
    BY <1>2, <1>5, <1>9, <1>10
  <2> QED  BY <1>6, <2>1, <2>2
<1>16. ASSUME NEW v \in 1..n, ns[v].deps \subseteq OutIds(ns, O)
       PROVE  v \in ToSet(Q) \union ToSet(O)
  <2>1. ToSet(s.out) \subseteq ToSet(O) /\ u \in ToSet(O)
    <3>1. 1..Len(s.out) \subseteq 1..Len(O) /\ Len(s.out) + 1 \in 1..Len(O)
      BY <1>4
    <3> QED  BY <1>4, <1>8, <3>1
  <2>2. ToSet(s.queue) \subseteq ToSet(Q) \union {u}
    <3>1. ASSUME NEW p \in 1..Len(s.queue), p # 1  PROVE s.queue[p] \in ToSet(Q)
      <4>1. p - 1 \in 1..Len(T) /\ (p - 1) + 1 = p /\ 1..Len(T) \subseteq 1..Len(Q)
        BY SMTT(30), <1>3, <1>5, <3>1
      <4>2. Q[p - 1] = s.queue[p] /\ p - 1 \in 1..Len(Q)
        BY <1>3, <1>5, <4>1
      <4> QED  BY <1>8, <4>2
    <3>2. s.queue[1] = u
      BY <1>3
    <3>3. SUFFICES ASSUME NEW x \in ToSet(s.queue)  PROVE x \in ToSet(Q) \union {u}
      OBVIOUS
    <3>4. PICK p \in 1..Len(s.queue) : s.queue[p] = x
      BY <1>8, Zenon
    <3>5. CASE p = 1
      BY <3>2, <3>4, <3>5
    <3>6. CASE p # 1
      BY <3>1, <3>4, <3>6
    <3> QED  BY <3>5, <3>6
  <2>3. CASE v \in ToSet(s.queue) \union ToSet(O)
    BY <2>1, <2>2, <2>3
  <2>4. CASE v \notin ToSet(s.queue) \union ToSet(O)
    <3>1. ~(ns[v].deps \subseteq OutIds(ns, s.out))
      BY <1>1, <2>1, <2>4 DEF KahnInv
    <3>2. ns[u].id \in ns[v].deps
      BY <1>11, <1>16, <3>1
    <3>3. v \in freed
      BY <1>10, <1>16, <2>4, <3>2 DEF Freed
    <3>4. PICK j \in 1..Len(f) : f[j] = v
      BY <1>2, <3>3
    <3>5. Len(T) + j \in 1..Len(Q) /\ Q[Len(T) + j] = v
      <4>1. Len(T) \in Nat /\ Len(f) \in Nat /\ Len(Q) = Len(T) + Len(f)
        BY <1>3, <1>5
      <4>2. Q[Len(T) + j] = f[j]
        BY <1>5
      <4> QED  BY <3>4, <4>1, <4>2
    <3> QED  BY <1>8, <3>5
  <2> QED  BY <2>3, <2>4
<1>17. Len(O) = k + 1
  BY <1>4 DEF KahnInv
<1> HIDE DEF freed
<1> QED  BY <1>2, <1>12, <1>13, <1>14, <1>15, <1>16, <1>17 DEF KahnInv

LEMMA IntervalSize ==
  ASSUME NEW k \in Nat
  PROVE  IsFiniteSet(1..k) /\ Cardinality(1..k) = k
BY FS_Interval

(* What Kahn's algorithm puts out: steps, each once, each after all those  *)
(* it depends on; and every step whose dependencies are out.               *)
LEMMA KahnIs ==
  ASSUME NEW ns \in Seq(Item)
  PROVE  /\ Kahn(ns) \in Seq(1..Len(ns)) /\ NoRepeats(Kahn(ns)) /\ Len(Kahn(ns)) \in 0..Len(ns)
         /\ \A p \in 1..Len(Kahn(ns)) : ns[Kahn(ns)[p]].deps \subseteq IdsBefore(ns, Kahn(ns), p)
         /\ \A v \in 1..Len(ns) : ns[v].deps \subseteq OutIds(ns, Kahn(ns)) => v \in ToSet(Kahn(ns))
<1> DEFINE n == Len(ns)
<1>n. n \in Nat
  OBVIOUS
<1>1. PICK h : /\ h[0] = Sources(ns) /\ Kahn(ns) = h[n].out
               /\ \A k \in 1..n : h[k] = Pop(ns, h[k - 1])
  BY KahnRuns
<1> DEFINE Ks == {k \in Nat : k <= n => KahnInv(ns, k, h[k])}
<1>2. 0 \in Ks
  BY <1>1, KahnStart
<1>3. ASSUME NEW k \in Ks  PROVE k + 1 \in Ks
  <2>n. k \in Nat /\ k + 1 \in Nat
    BY <1>3
  <2> SUFFICES ASSUME k + 1 <= n  PROVE KahnInv(ns, k + 1, h[k + 1])
    BY <2>n
  <2>1. KahnInv(ns, k, h[k]) /\ k + 1 \in 1..n /\ (k + 1) - 1 = k
    <3>1. k <= n
      BY <1>n, <2>n
    <3> QED  BY <1>3, <1>n, <2>n, <3>1
  <2>2. h[k + 1] = Pop(ns, h[k])
    BY <1>1, <2>1
  <2>3. CASE h[k].queue = <<>>
    <3>1. h[k + 1] = h[k]
      BY <2>2, <2>3 DEF Pop
    <3> QED  BY <2>1, <2>3, <3>1 DEF KahnInv
  <2>4. CASE h[k].queue # <<>>
    BY <2>1, <2>2, <2>4, <2>n, KahnStep
  <2> QED  BY <2>3, <2>4
<1>4. Ks = Nat
  <2> HIDE DEF Ks
  <2>1. Ks \in SUBSET Nat
    BY DEF Ks
  <2> QED  BY <1>2, <1>3, <2>1, SetInduction
<1>5. KahnInv(ns, n, h[n])
  <2>1. n \in Ks /\ n <= n
    BY <1>4, <1>n
  <2> QED  BY <2>1
<1> DEFINE out == h[n].out  queue == h[n].queue
<1>6. out \in Seq(1..n) /\ queue \in Seq(1..n) /\ Len(out) \in Nat
  BY <1>5 DEF KahnInv, Pending
<1>7. NoRepeats(out) /\ \A p \in 1..Len(out) : ns[out[p]].deps \subseteq IdsBefore(ns, out, p)
  BY <1>5 DEF KahnInv
<1>8. Len(out) \in 0..n
  <2>1. out \in [1..Len(out) -> 1..n]
    <3>1. \A S : \A s \in Seq(S) : s \in [1..Len(s) -> S]
      OBVIOUS
    <3> QED  BY <1>6, <3>1
  <2>2. out \in Injection(1..Len(out), 1..n)
    BY <1>7, <2>1 DEF NoRepeats, Injection, IsInjective
  <2>3. IsFiniteSet(1..n) /\ Cardinality(1..n) = n /\ Cardinality(1..Len(out)) = Len(out)
    BY <1>6, <1>n, IntervalSize
  <2> HIDE DEF n, out
  <2>4. Cardinality(1..Len(out)) <= Cardinality(1..n)
    BY <2>2, <2>3, FS_Injection
  <2> QED  BY <1>6, <1>n, <2>3, <2>4
<1>9. ASSUME NEW v \in 1..n, ns[v].deps \subseteq OutIds(ns, out)
      PROVE  v \in ToSet(out)
  <2>1. v \in ToSet(queue) \union ToSet(out)
    BY <1>5, <1>9 DEF KahnInv
  <2>2. CASE queue = <<>>
    <3>1. ToSet(queue) = {}
      BY <2>2 DEF ToSet
    <3> QED  BY <2>1, <3>1
  <2>3. CASE queue # <<>>
    <3>1. Len(out) = n
      BY <1>5, <2>3 DEF KahnInv
    <3> HIDE DEF out, n
    <3>2. PICK p \in 1..n : out[p] = v
      BY <1>6, <1>7, <1>9, <1>n, <3>1, AllOfThem DEF NoRepeats
    <3>3. ToSet(out) = {out[q] : q \in 1..Len(out)}
      BY <1>6, ToSetIs
    <3> QED  BY <3>1, <3>2, <3>3
  <2> QED  BY <2>2, <2>3
<1>10. Kahn(ns) = out
  BY <1>1
<1> HIDE DEF out
<1> QED  BY <1>6, <1>7, <1>8, <1>9, <1>10

(* It reaches all the steps if it reaches each of them.                    *)
LEMMA KahnReachesAll ==
  ASSUME NEW ns \in Seq(Item), \A v \in 1..Len(ns) : v \in ToSet(Kahn(ns))
  PROVE  Len(Kahn(ns)) = Len(ns)
<1> DEFINE n == Len(ns)  out == Kahn(ns)
<1>1. n \in Nat /\ out \in Seq(1..n) /\ NoRepeats(out) /\ Len(out) \in Nat
  BY KahnIs
<1>2. ToSet(out) = {out[p] : p \in 1..Len(out)}
  BY <1>1, ToSetIs
<1>3. out \in [1..Len(out) -> 1..n]
  BY <1>1
<1>4. out \in Injection(1..Len(out), 1..n)
  BY <1>1, <1>3 DEF NoRepeats, Injection, IsInjective
<1>5. out \in Surjection(1..Len(out), 1..n)
  BY <1>2, <1>3 DEF Surjection
<1>6. IsFiniteSet(1..n) /\ Cardinality(1..n) = n /\ Cardinality(1..Len(out)) = Len(out)
  BY <1>1, IntervalSize
<1> HIDE DEF n, out
<1>7. Cardinality(1..Len(out)) = Cardinality(1..n)
  BY <1>4, <1>5, <1>6, FS_Injection
<1> QED  BY <1>6, <1>7 DEF n, out

(* Without dependencies it does.                                           *)
LEMMA FreeReached ==
  ASSUME NEW ns \in Seq(Item), \A v \in 1..Len(ns) : ns[v].deps = {}
  PROVE  Len(Kahn(ns)) = Len(ns)
<1>1. \A v \in 1..Len(ns) : v \in ToSet(Kahn(ns))
  BY KahnIs
<1> QED  BY <1>1, KahnReachesAll

-----------------------------------------------------------------------------
(* Cycles *)

(* What is behind a step is closed under dependencies, and is the smallest *)
(* such set.                                                               *)
LEMMA BehindIs ==
  ASSUME NEW ns, NEW a, DepsOf(ns, a) \subseteq IdsOf(ns),
         \A c \in IdsOf(ns) : DepsOf(ns, c) \subseteq IdsOf(ns)
  PROVE  /\ DepsOf(ns, a) \subseteq Behind(ns, a)
         /\ \A c \in Behind(ns, a) : DepsOf(ns, c) \subseteq Behind(ns, a)
         /\ \A c \in Behind(ns, a) : Behind(ns, c) \subseteq Behind(ns, a)
<1>0. Behind(ns, a) \subseteq IdsOf(ns)
  BY DEF Behind
<1>1. DepsOf(ns, a) \subseteq Behind(ns, a)
  BY DEF Behind
<1>2. ASSUME NEW c \in Behind(ns, a)  PROVE DepsOf(ns, c) \subseteq Behind(ns, a)
  <2> SUFFICES ASSUME NEW b \in DepsOf(ns, c)  PROVE b \in Behind(ns, a)
    OBVIOUS
  <2>1. b \in IdsOf(ns)
    BY <1>0, <1>2
  <2>2. ASSUME NEW S \in SUBSET IdsOf(ns), DepsOf(ns, a) \subseteq S,
               \A x \in S : DepsOf(ns, x) \subseteq S
        PROVE  b \in S
    <3>1. c \in S
      BY <1>2, <2>2 DEF Behind
    <3> QED  BY <2>2, <3>1
  <2> QED  BY <2>1, <2>2 DEF Behind
<1>3. ASSUME NEW c \in Behind(ns, a)  PROVE Behind(ns, c) \subseteq Behind(ns, a)
  <2>1. DepsOf(ns, c) \subseteq Behind(ns, a) /\ \A x \in Behind(ns, a) : DepsOf(ns, x) \subseteq Behind(ns, a)
    BY <1>2
  <2>2. Behind(ns, a) \in SUBSET IdsOf(ns)
    BY <1>0
  <2> SUFFICES ASSUME NEW b \in Behind(ns, c)  PROVE b \in Behind(ns, a)
    OBVIOUS
  <2>3. \A S \in SUBSET IdsOf(ns) : DepsOf(ns, c) \subseteq S /\ (\A x \in S : DepsOf(ns, x) \subseteq S) => b \in S
    BY DEF Behind
  <2> HIDE DEF Behind
  <2> QED  BY <2>1, <2>2, <2>3
<1> QED  BY <1>1, <1>2, <1>3

(* Steps of which each depends on another of them lie behind a cycle: of   *)
(* those, take one with the least of them behind it.                       *)
LEMMA CycleFound ==
  ASSUME NEW ns, IsFiniteSet(IdsOf(ns)), \A c \in IdsOf(ns) : DepsOf(ns, c) \subseteq IdsOf(ns),
         NEW U \in SUBSET IdsOf(ns), U # {}, \A a \in U : \E b \in U : b \in DepsOf(ns, a)
  PROVE  Cyclic(ns)
<1> DEFINE near(a) == Behind(ns, a) \intersect U
           sizes == {Cardinality(near(a)) : a \in U}
<1>1. \A a \in U : IsFiniteSet(near(a)) /\ Cardinality(near(a)) \in Nat
  <2>1. IsFiniteSet(U)
    BY FS_Subset
  <2> TAKE a \in U
  <2>2. near(a) \in SUBSET U
    OBVIOUS
  <2> HIDE DEF near
  <2> QED  BY <2>1, <2>2, FS_Subset, FS_CardinalityType
<1>2. sizes \in SUBSET Nat /\ sizes # {}
  BY <1>1
<1>3. PICK m \in sizes : \A x \in sizes : m <= x
  <2> HIDE DEF sizes
  <2> QED  BY <1>2, Least
<1>4. PICK a \in U : m = Cardinality(near(a))
  BY <1>3
<1>5. PICK b \in U : b \in DepsOf(ns, a)
  OBVIOUS
<1>6. b \in Behind(ns, a) /\ Behind(ns, b) \subseteq Behind(ns, a)
  <2>1. a \in IdsOf(ns) /\ DepsOf(ns, a) \subseteq IdsOf(ns)
    OBVIOUS
  <2> QED  BY <1>5, <2>1, BehindIs
<1>7. near(b) \in SUBSET near(a)
  BY <1>6
<1>8. Cardinality(near(b)) = Cardinality(near(a))
  <2>1. Cardinality(near(b)) \in sizes
    OBVIOUS
  <2>2. Cardinality(near(a)) <= Cardinality(near(b))
    <3> HIDE DEF near, sizes
    <3> QED  BY <1>3, <1>4, <2>1
  <2> HIDE DEF near, sizes
  <2>3. Cardinality(near(b)) <= Cardinality(near(a))
    BY <1>1, <1>7, FS_Subset
  <2> QED  BY <1>1, <2>2, <2>3
<1>9. near(a) = near(b)
  <2> HIDE DEF near
  <2> QED  BY <1>1, <1>7, <1>8, FS_Subset
<1>10. b \in Behind(ns, b)
  BY <1>6, <1>9
<1> QED  BY <1>10 DEF Cyclic

-----------------------------------------------------------------------------
(* Reading a draft, the whole of it *)

(* The steps of a plan, all passes' common ground: they have ids of their  *)
(* own and depend on other steps of the plan.                              *)
Sound(ns) ==
  /\ ns \in Seq(Item) /\ Unique(ns)
  /\ \A i \in 1..Len(ns) : ns[i].deps \subseteq IdsOf(ns) \ {ns[i].id}

(* The ids of a plan are as many as its steps.                             *)
LEMMA IdsCount ==
  ASSUME NEW ns \in Seq(Item), Unique(ns)
  PROVE  IsFiniteSet(IdsOf(ns)) /\ Cardinality(IdsOf(ns)) = Len(ns)
<1> DEFINE n == Len(ns)  f == [i \in 1..n |-> ns[i].id]
<1>1. n \in Nat
  OBVIOUS
<1>2. f \in Surjection(1..n, IdsOf(ns))
  BY DEF Surjection, IdsOf
<1>3. f \in Injection(1..n, IdsOf(ns))
  BY DEF Injection, IsInjective, Unique, IdsOf
<1> HIDE DEF f, n
<1>4. IsFiniteSet(1..n) /\ Cardinality(1..n) = n
  BY <1>1, IntervalSize
<1>5. IsFiniteSet(IdsOf(ns)) /\ Cardinality(IdsOf(ns)) = n
  BY <1>2, <1>3, <1>4, FS_Surjection
<1> QED  BY <1>5 DEF n

(* A part of a plan in an order without repetitions.                       *)
Ordered(ns, order) == [i \in 1..Len(order) |-> ns[order[i]]]

(* A step that has not been reached waits for another such step.           *)
LEMMA LeftWaits ==
  ASSUME NEW ns, Sound(ns), NEW v \in 1..Len(ns), v \notin ToSet(Kahn(ns))
  PROVE  \E w \in 1..Len(ns) : w \notin ToSet(Kahn(ns)) /\ ns[w].id \in ns[v].deps
<1> DEFINE out == Kahn(ns)
<1>1. ns \in Seq(Item) /\ ns[v].deps \subseteq IdsOf(ns)
  BY DEF Sound
<1>2. out \in Seq(1..Len(ns))
  BY <1>1, KahnIs
<1>3. PICK x \in ns[v].deps : x \notin OutIds(ns, out)
  BY <1>1, KahnIs
<1>4. PICK w \in 1..Len(ns) : ns[w].id = x
  BY <1>1, <1>3 DEF IdsOf
<1> HIDE DEF out
<1>5. w \notin ToSet(out)
  <2>1. ToSet(out) = {out[p] : p \in 1..Len(out)}
    BY <1>2, ToSetIs
  <2> QED  BY <1>3, <1>4, <2>1 DEF OutIds
<1> QED  BY <1>3, <1>4, <1>5 DEF out

(* The order has every step once when it is as long as the plan.           *)
LEMMA OrderedIs ==
  ASSUME NEW ns, Sound(ns), Len(Kahn(ns)) = Len(ns)
  PROVE  /\ Sound(Ordered(ns, Kahn(ns))) /\ Len(Ordered(ns, Kahn(ns))) = Len(ns)
         /\ IdsOf(Ordered(ns, Kahn(ns))) = IdsOf(ns)
         /\ \A v \in 1..Len(ns) : \E p \in 1..Len(ns) : Ordered(ns, Kahn(ns))[p] = ns[v]
         /\ \A p \in 1..Len(ns) : \E v \in 1..Len(ns) : Ordered(ns, Kahn(ns))[p] = ns[v]
         /\ \A i, j \in 1..Len(ns) :
              Ordered(ns, Kahn(ns))[j].id \in Ordered(ns, Kahn(ns))[i].deps => j < i
<1> DEFINE n == Len(ns)
           out == Kahn(ns)
           os == Ordered(ns, out)
<1>1. ns \in Seq(Item) /\ Unique(ns) /\ n \in Nat
  BY DEF Sound
<1>2. /\ out \in Seq(1..n) /\ Len(out) = n /\ NoRepeats(out)
      /\ \A p \in 1..n : out[p] \in 1..n /\ ns[out[p]].deps \subseteq IdsBefore(ns, out, p)
  <2>1. /\ out \in Seq(1..n) /\ NoRepeats(out)
        /\ \A p \in 1..Len(out) : ns[out[p]].deps \subseteq IdsBefore(ns, out, p)
    BY <1>1, KahnIs
  <2> QED  BY <2>1
<1> HIDE DEF out, n
<1>3. \A v \in 1..n : \E p \in 1..n : out[p] = v
  <2>1. \A p, q \in 1..Len(out) : out[p] = out[q] => p = q
    BY <1>2 DEF NoRepeats
  <2>2. n \in Nat /\ out \in Seq(1..n) /\ Len(out) = n
    BY <1>1, <1>2
  <2> QED  BY <2>1, <2>2, AllOfThem, ZenonT(30)
<1>4. os \in Seq(Item) /\ Len(os) = n /\ \A p \in 1..n : os[p] = ns[out[p]]
  <2>1. \A p \in 1..n : ns[out[p]] \in Item
    BY <1>1, <1>2 DEF n
  <2>2. os \in [1..n -> Item] /\ \A p \in 1..n : os[p] = ns[out[p]]
    BY <1>2, <2>1 DEF Ordered
  <2> HIDE DEF os
  <2> QED  BY <1>1, <2>2
<1> HIDE DEF os
<1>5. IdsOf(os) = IdsOf(ns)
  <2>1. IdsOf(os) \subseteq IdsOf(ns)
    BY <1>2, <1>4 DEF IdsOf, n
  <2>2. ASSUME NEW v \in 1..n  PROVE ns[v].id \in IdsOf(os)
    <3>1. PICK q \in 1..n : out[q] = v
      BY <1>3
    <3>2. os[q].id = ns[v].id
      BY <1>4, <3>1
    <3> QED  BY <1>4, <3>2 DEF IdsOf
  <2> QED  BY <2>1, <2>2 DEF IdsOf, n
<1>6. Unique(os)
  <2> SUFFICES ASSUME NEW p \in 1..n, NEW q \in 1..n, os[p].id = os[q].id  PROVE p = q
    BY <1>4 DEF Unique
  <2>1. out[p] = out[q]
    <3>1. \A a, b \in 1..n : ns[a].id = ns[b].id => a = b
      BY <1>1 DEF Unique, n
    <3>2. os[p] = ns[out[p]] /\ os[q] = ns[out[q]] /\ out[p] \in 1..n /\ out[q] \in 1..n
      BY <1>2, <1>4
    <3>3. ns[out[p]].id = ns[out[q]].id
      BY <3>2
    <3> QED  BY <3>1, <3>2, <3>3
  <2> QED  BY <1>2, <2>1 DEF NoRepeats
<1>7. \A p \in 1..n : os[p].deps \subseteq IdsOf(os) \ {os[p].id}
  BY <1>2, <1>4, <1>5 DEF Sound, n
<1>8. ASSUME NEW i \in 1..n, NEW j \in 1..n, os[j].id \in os[i].deps  PROVE j < i
  <2>1. ns[out[j]].id \in IdsBefore(ns, out, i)
    BY <1>2, <1>4, <1>8
  <2>2. PICK q \in 1..(i - 1) : ns[out[q]].id = ns[out[j]].id
    BY <2>1 DEF IdsBefore
  <2>3. q \in 1..n /\ q < i
    BY <1>1
  <2>4. out[q] = out[j]
    BY <1>1, <1>2, <2>2, <2>3 DEF Unique, n
  <2>5. q = j
    BY <1>2, <2>3, <2>4 DEF NoRepeats
  <2> QED  BY <2>3, <2>5
<1>9. \A v \in 1..n : \E p \in 1..n : os[p] = ns[v]
  BY SMTT(30), <1>3, <1>4
<1>10. \A p \in 1..n : \E v \in 1..n : os[p] = ns[v]
  BY <1>2, <1>4
<1>11. Sound(os)
  BY <1>4, <1>6, <1>7 DEF Sound
<1> QED  BY <1>4, <1>5, <1>8, <1>9, <1>10, <1>11 DEF os, out, n

LEMMA NoDepsSound ==
  ASSUME NEW ns \in Seq(Item), Unique(ns)
  PROVE  Sound(NoDeps(ns))
BY NoDepsIs DEF Sound, Unique

(* The steps in order, or without their dependencies.                      *)
LEMMA SortedIs ==
  ASSUME NEW ns, Sound(ns)
  PROVE  /\ Sound(Sorted(ns)) /\ Len(Sorted(ns)) = Len(ns) /\ IdsOf(Sorted(ns)) = IdsOf(ns)
         /\ \A i, j \in 1..Len(ns) : Sorted(ns)[j].id \in Sorted(ns)[i].deps => j < i
<1>1. ns \in Seq(Item) /\ Unique(ns) /\ Len(ns) \in Nat
  BY DEF Sound
<1>2. CASE Len(Kahn(ns)) = Len(ns)
  <2>1. Sorted(ns) = Ordered(ns, Kahn(ns))
    BY <1>2 DEF Sorted, Ordered
  <2> QED  BY <1>2, <2>1, OrderedIs
<1>3. CASE Len(Kahn(ns)) # Len(ns)
  <2>1. Sorted(ns) = NoDeps(ns)
    BY <1>3 DEF Sorted
  <2> QED  BY <1>1, <2>1, NoDepsIs, NoDepsSound
<1> QED  BY <1>2, <1>3

LEMMA LinkedSound ==
  ASSUME NEW ns \in Seq(Item), Unique(ns)
  PROVE  Sound(Linked(ns)) /\ Len(Linked(ns)) = Len(ns) /\ IdsOf(Linked(ns)) = IdsOf(ns)
<1>1. \A i \in 1..Len(ns) : Linked(ns)[i].deps \subseteq IdsOf(Linked(ns)) \ {Linked(ns)[i].id}
  BY LinkedIs
<1>2. Unique(Linked(ns))
  BY LinkedIs DEF Unique
<1> QED  BY <1>1, <1>2, LinkedIs DEF Sound

(* A usable item is the only usable one with its id.                       *)
LEMMA UsableIs ==
  ASSUME NEW d \in Seq(Item)
  PROVE  /\ Usable(d) = UsableTo(d, Len(d)) /\ Usable(d) \subseteq 1..Len(d)
         /\ \A i, j \in Usable(d) : d[i].id = d[j].id => i = j
<1>1. Usable(d) = UsableTo(d, Len(d)) /\ Usable(d) \subseteq 1..Len(d)
  BY DEF Usable, UsableTo
<1>2. ASSUME NEW i \in Usable(d), NEW j \in Usable(d), d[i].id = d[j].id  PROVE i = j
  <2>1. i \in Nat /\ j \in Nat
    BY <1>1
  <2>2. ~(i < j)
    <3>1. i < j => i \in 1..(j - 1)
      BY <2>1, <1>1
    <3> QED  BY <1>2, <3>1 DEF Usable
  <2>3. ~(j < i)
    <3>1. j < i => j \in 1..(i - 1)
      BY <2>1, <1>1
    <3> QED  BY <1>2, <3>1 DEF Usable
  <2> QED  BY <2>1, <2>2, <2>3
<1> QED  BY <1>1, <1>2

(* What is taken, position by position.                                    *)
LEMMA TakenUsable ==
  ASSUME NEW d \in Seq(Item)
  PROVE  /\ Taken(d) \in Seq(Item) /\ Unique(Taken(d))
         /\ IdsOf(Taken(d)) = {d[i].id : i \in Usable(d)}
         /\ \A p \in 1..Len(Taken(d)) : \E i \in Usable(d) : Taken(d)[p] = d[i]
         /\ \A i \in Usable(d) : \E p \in 1..Len(Taken(d)) : Taken(d)[p] = d[i]
<1> DEFINE ts == Taken(d)
<1>1. /\ ts \in Seq(Item) /\ Unique(ts)
      /\ IdsOf(ts) = {d[i].id : i \in Usable(d)}
      /\ \A p \in 1..Len(ts) : \E i \in Usable(d) : ts[p] = d[i]
  BY TakenIs, UsableIs DEF TakenOf
<1> HIDE DEF ts
<1>2. ASSUME NEW i \in Usable(d)  PROVE \E p \in 1..Len(ts) : ts[p] = d[i]
  <2>1. PICK p \in 1..Len(ts) : ts[p].id = d[i].id
    BY <1>1 DEF IdsOf
  <2>2. PICK j \in Usable(d) : ts[p] = d[j]
    BY <1>1
  <2>3. j = i
    BY <2>1, <2>2, UsableIs
  <2> QED  BY <2>2, <2>3
<1> QED  BY <1>1, <1>2 DEF ts

(* The dependencies that are declared are those that are linked.           *)
LEMMA LinkedDeclared ==
  ASSUME NEW d \in Seq(Item)
  PROVE  Edges(Linked(Taken(d))) = Declared(d)
<1> DEFINE ts == Taken(d)  ls == Linked(ts)  ids == {d[i].id : i \in Usable(d)}
<1>1. /\ ts \in Seq(Item) /\ IdsOf(ts) = ids
      /\ \A p \in 1..Len(ts) : \E i \in Usable(d) : ts[p] = d[i]
      /\ \A i \in Usable(d) : \E p \in 1..Len(ts) : ts[p] = d[i]
  BY TakenUsable
<1>2. /\ Len(ls) = Len(ts)
      /\ \A p \in 1..Len(ts) : ls[p].id = ts[p].id /\ ls[p].deps = (ts[p].deps \intersect ids) \ {ts[p].id}
  <2> HIDE DEF ts, ids
  <2>1. /\ Len(ls) = Len(ts)
        /\ \A p \in 1..Len(ts) : /\ ls[p].id = ts[p].id
                                  /\ ls[p].deps = (ts[p].deps \intersect IdsOf(ts)) \ {ts[p].id}
    BY <1>1, LinkedIs
  <2> QED  BY <1>1, <2>1
<1> HIDE DEF ls, ts
<1>3. ASSUME NEW e \in Edges(ls)  PROVE e \in Declared(d)
  <2>1. PICK p \in 1..Len(ts) : e \in {ls[p].id} \X ls[p].deps
    BY <1>2 DEF Edges
  <2>2. PICK i \in Usable(d) : ts[p] = d[i]
    BY <1>1
  <2>3. e \in {d[i].id} \X ((d[i].deps \intersect ids) \ {d[i].id})
    BY <1>2, <2>1, <2>2
  <2>4. e \in ids \X ids /\ e[1] = d[i].id /\ e[2] \in d[i].deps /\ e[1] # e[2]
    BY <2>3
  <2> QED  BY <2>4 DEF Declared
<1>4. ASSUME NEW e \in Declared(d)  PROVE e \in Edges(ls)
  <2>1. e \in ids \X ids /\ e[1] # e[2] /\ \E i \in Usable(d) : d[i].id = e[1] /\ e[2] \in d[i].deps
    BY <1>4 DEF Declared
  <2>2. PICK i \in Usable(d) : d[i].id = e[1] /\ e[2] \in d[i].deps
    BY <2>1
  <2>3. PICK p \in 1..Len(ts) : ts[p] = d[i]
    BY <1>1
  <2>4. e[1] = ls[p].id /\ e[2] \in ls[p].deps
    BY <1>2, <2>1, <2>2, <2>3
  <2>5. e \in {ls[p].id} \X ls[p].deps
    BY <2>1, <2>4
  <2> QED  BY <1>2, <2>5 DEF Edges
<1>5. Edges(ls) = Declared(d)
  BY <1>3, <1>4
<1> QED  BY <1>5 DEF ls, ts

(* The draft as it is read: what cannot be used has no id and depends on   *)
(* nothing.                                                                *)
Masked(d) == [k \in 1..Len(d) |->
                [d[k] EXCEPT !.id = IF k \in Usable(d) THEN @ ELSE 0,
                             !.deps = IF k \in Usable(d) THEN @ ELSE {}]]

LEMMA MaskedIs ==
  ASSUME NEW d \in Seq(Item)
  PROVE  LET ms == Linked(Masked(d))
             ids == {d[i].id : i \in Usable(d)}
         IN /\ ids \subseteq IdsOf(ms) /\ IdsOf(ms) \subseteq ids \union {0} /\ IsFiniteSet(IdsOf(ms))
            /\ \A i \in Usable(d) : DepsOf(ms, d[i].id) = (d[i].deps \intersect ids) \ {d[i].id}
            /\ DepsOf(ms, 0) = {}
<1> DEFINE n == Len(d)
           ids == {d[i].id : i \in Usable(d)}
           mk == Masked(d)
           ms == Linked(mk)
<1>1. n \in Nat /\ \A k \in 1..n : /\ d[k] \in Item /\ d[k].id \in Nat \ {0}
                                   /\ d[k].deps \subseteq Nat \ {0}
  <2>1. n \in Nat /\ \A k \in 1..n : d[k] \in Item
    OBVIOUS
  <2> QED  BY <2>1 DEF Item
<1>2. /\ Len(mk) = n
      /\ \A k \in 1..n : /\ k \in Usable(d) => mk[k].id = d[k].id /\ mk[k].deps = d[k].deps
                         /\ k \notin Usable(d) => mk[k].id = 0 /\ mk[k].deps = {}
  <2>1. Len(mk) = n
    BY <1>1 DEF Masked
  <2>2. ASSUME NEW k \in 1..n
        PROVE  /\ k \in Usable(d) => mk[k].id = d[k].id /\ mk[k].deps = d[k].deps
               /\ k \notin Usable(d) => mk[k].id = 0 /\ mk[k].deps = {}
    <3>1. mk[k] = [d[k] EXCEPT !.id = IF k \in Usable(d) THEN @ ELSE 0,
                               !.deps = IF k \in Usable(d) THEN @ ELSE {}]
      BY DEF Masked
    <3>2. d[k] \in Item
      BY <1>1
    <3> HIDE DEF mk
    <3> QED  BY <3>1, <3>2 DEF Item
  <2> QED  BY <2>1, <2>2
<1>2a. \A k \in 1..n : \E D, x : mk[k] = [d[k] EXCEPT !.id = x, !.deps = D]
  BY DEF Masked
<1> HIDE DEF mk
<1>3. IdsOf(mk) \subseteq ids \union {0} /\ ids \subseteq IdsOf(mk)
  BY <1>2, UsableIs DEF IdsOf
<1>4. /\ Len(ms) = n
      /\ \A k \in 1..n : ms[k].id = mk[k].id /\ ms[k].deps = (mk[k].deps \intersect IdsOf(mk)) \ {mk[k].id}
  <2>1. ms = [k \in 1..n |-> [mk[k] EXCEPT !.deps = (mk[k].deps \intersect IdsOf(mk)) \ {mk[k].id}]]
    BY <1>2 DEF Linked, WithDeps
  <2>2. ASSUME NEW k \in 1..n
        PROVE  /\ ms[k].id = mk[k].id
               /\ ms[k].deps = (mk[k].deps \intersect IdsOf(mk)) \ {mk[k].id}
    <3>1. PICK D, x : mk[k] = [d[k] EXCEPT !.id = x, !.deps = D]
      BY <1>2a
    <3>2. ms[k] = [mk[k] EXCEPT !.deps = (mk[k].deps \intersect IdsOf(mk)) \ {mk[k].id}]
      BY <2>1
    <3>3. d[k] \in Item
      BY <1>1
    <3> HIDE DEF ms
    <3> DEFINE E == (mk[k].deps \intersect IdsOf(mk)) \ {mk[k].id}
    <3> HIDE DEF E
    <3>4. [mk[k] EXCEPT !.deps = E].id = mk[k].id /\ [mk[k] EXCEPT !.deps = E].deps = E
      BY <3>1, <3>3 DEF Item
    <3> QED  BY <3>2, <3>4 DEF E
  <2>3. Len(ms) = n
    BY <1>1, <2>1
  <2> QED  BY <2>2, <2>3
<1> HIDE DEF ms
<1>5. IdsOf(ms) = IdsOf(mk)
  BY <1>2, <1>4 DEF IdsOf
<1>6. IsFiniteSet(IdsOf(ms))
  <2> DEFINE f == [k \in 1..n |-> ms[k].id]
  <2>1. f \in Surjection(1..n, IdsOf(ms))
    BY <1>4 DEF Surjection, IdsOf
  <2>2. IsFiniteSet(1..n)
    BY <1>1, IntervalSize
  <2> HIDE DEF f, n
  <2> QED  BY <2>1, <2>2, FS_Surjection
<1>7. ASSUME NEW i \in Usable(d)
      PROVE  DepsOf(ms, d[i].id) = (d[i].deps \intersect ids) \ {d[i].id}
  <2>1. i \in 1..n
    BY UsableIs
  <2>2. \A k \in 1..n : ms[k].id = d[i].id <=> k = i
    <3> TAKE k \in 1..n
    <3>1. CASE k \in Usable(d)
      BY <1>2, <1>4, <3>1, UsableIs
    <3>2. CASE k \notin Usable(d)
      BY <1>1, <1>2, <1>4, <2>1, <3>2
    <3> QED  BY <3>1, <3>2
  <2>3. {k \in 1..Len(ms) : ms[k].id = d[i].id} = {i}
    BY <1>4, <2>1, <2>2
  <2>4. DepsOf(ms, d[i].id) = ms[i].deps
    BY <2>3 DEF DepsOf
  <2>5. ms[i].deps = (d[i].deps \intersect IdsOf(mk)) \ {d[i].id}
    BY <1>2, <1>4, <2>1
  <2>6. d[i].deps \intersect IdsOf(mk) = d[i].deps \intersect ids
    BY <1>1, <1>3, <2>1
  <2> QED  BY <2>4, <2>5, <2>6
<1>8. DepsOf(ms, 0) = {}
  <2>1. \A k \in 1..Len(ms) : ms[k].id = 0 => ms[k].deps = {}
    BY <1>1, <1>2, <1>4
  <2> QED  BY <2>1 DEF DepsOf
<1> QED  BY <1>3, <1>5, <1>6, <1>7, <1>8 DEF ms, mk

(* Steps that are not reached make the draft cyclic.                       *)
LEMMA CycleRead ==
  ASSUME NEW d \in Seq(Item), Len(Kahn(Linked(Taken(d)))) # Len(Linked(Taken(d)))
  PROVE  Cyclic(Linked(Masked(d)))
<1> DEFINE ts == Taken(d)
           ls == Linked(ts)
           ms == Linked(Masked(d))
           ids == {d[i].id : i \in Usable(d)}
           U == {ls[v].id : v \in {v \in 1..Len(ls) : v \notin ToSet(Kahn(ls))}}
<1>1. /\ ts \in Seq(Item) /\ Unique(ts) /\ IdsOf(ts) = ids
      /\ \A p \in 1..Len(ts) : \E i \in Usable(d) : ts[p] = d[i]
  BY TakenUsable
<1>2. Sound(ls) /\ Len(ls) = Len(ts) /\ IdsOf(ls) = ids
  BY <1>1, LinkedSound
<1>3. \A p \in 1..Len(ts) : /\ ls[p].id = ts[p].id
                            /\ ls[p].deps = (ts[p].deps \intersect IdsOf(ts)) \ {ts[p].id}
  BY <1>1, LinkedIs
<1>4. /\ ids \subseteq IdsOf(ms) /\ IdsOf(ms) \subseteq ids \union {0} /\ IsFiniteSet(IdsOf(ms))
      /\ \A i \in Usable(d) : DepsOf(ms, d[i].id) = (d[i].deps \intersect ids) \ {d[i].id}
      /\ DepsOf(ms, 0) = {}
  BY MaskedIs
<1>5. \E v \in 1..Len(ls) : v \notin ToSet(Kahn(ls))
  <2>1. ls \in Seq(Item)
    BY <1>2 DEF Sound
  <2> HIDE DEF ls
  <2>2. Len(Kahn(ls)) # Len(ls)
    BY DEF ls
  <2> QED  BY <2>1, <2>2, KahnReachesAll
<1> HIDE DEF ls, ts, ms
<1>6. ASSUME NEW p \in 1..Len(ls)
      PROVE  ls[p].id \in ids /\ DepsOf(ms, ls[p].id) = ls[p].deps
  <2>1. PICK i \in Usable(d) : ts[p] = d[i]
    BY <1>1, <1>2
  <2>2. ls[p].id = d[i].id /\ ls[p].deps = (d[i].deps \intersect ids) \ {d[i].id}
    BY <1>1, <1>2, <1>3, <2>1
  <2>3. DepsOf(ms, d[i].id) = (d[i].deps \intersect ids) \ {d[i].id}
    BY <1>4
  <2> QED  BY <2>2, <2>3
<1>7. U \in SUBSET IdsOf(ms) /\ U # {}
  BY <1>4, <1>5, <1>6
<1>8. ASSUME NEW a \in U  PROVE \E b \in U : b \in DepsOf(ms, a)
  <2>1. PICK v \in 1..Len(ls) : v \notin ToSet(Kahn(ls)) /\ a = ls[v].id
    BY <1>8
  <2>2. PICK w \in 1..Len(ls) : w \notin ToSet(Kahn(ls)) /\ ls[w].id \in ls[v].deps
    BY <1>2, <2>1, LeftWaits
  <2>3. ls[w].id \in U
    BY <2>2
  <2> QED  BY <1>6, <2>1, <2>2, <2>3
<1>9. ASSUME NEW c \in IdsOf(ms)  PROVE DepsOf(ms, c) \subseteq IdsOf(ms)
  <2>1. CASE c = 0
    BY <1>4, <2>1
  <2>2. CASE c \in ids
    BY <1>4, <2>2
  <2> QED  BY <1>4, <2>1, <2>2
<1> HIDE DEF U
<1>10. Cyclic(ms)
  BY <1>4, <1>7, <1>8, <1>9, CycleFound
<1> QED  BY <1>10 DEF ms

(* A draft that is read, whatever it is, loses nothing usable.             *)
ReadOf(d, ns) ==
  /\ IdsOf(ns) = {d[i].id : i \in Usable(d)}
  /\ \A i, j \in 1..Len(ns) : ns[j].id \in ns[i].deps => j < i
  /\ \/ Edges(ns) = Declared(d)
     \/ Edges(ns) = {} /\ Cyclic(Linked(Masked(d)))

LEMMA ValidateReads ==
  ASSUME NEW d \in Seq(Item)
  PROVE  Sound(Validate(d)) /\ ReadOf(d, Validate(d))
<1> DEFINE ls == Linked(Taken(d))  vs == Validate(d)
<1>1. vs = Sorted(ls)
  BY DEF Validate
<1>2. Taken(d) \in Seq(Item) /\ Unique(Taken(d)) /\ IdsOf(Taken(d)) = {d[i].id : i \in Usable(d)}
  BY TakenUsable
<1>3. Sound(ls) /\ IdsOf(ls) = IdsOf(Taken(d))
  BY <1>2, LinkedSound
<1> HIDE DEF ls, vs
<1>4. /\ Sound(vs) /\ Len(vs) = Len(ls) /\ IdsOf(vs) = IdsOf(ls)
      /\ \A i, j \in 1..Len(ls) : vs[j].id \in vs[i].deps => j < i
  BY <1>1, <1>3, SortedIs
<1>5. CASE Len(Kahn(ls)) = Len(ls)
  <2> DEFINE os == Ordered(ls, Kahn(ls))
  <2>1. vs = os
    BY <1>1, <1>5 DEF Sorted, Ordered
  <2>2. /\ Len(os) = Len(ls) /\ \A v \in 1..Len(ls) : \E p \in 1..Len(ls) : os[p] = ls[v]
        /\ \A p \in 1..Len(ls) : \E v \in 1..Len(ls) : os[p] = ls[v]
    BY <1>3, <1>5, OrderedIs
  <2> HIDE DEF os
  <2>3. ASSUME NEW e \in Edges(os)  PROVE e \in Edges(ls)
    <3>1. PICK p \in 1..Len(ls) : e \in {os[p].id} \X os[p].deps
      BY <2>2 DEF Edges
    <3>2. PICK v \in 1..Len(ls) : os[p] = ls[v]
      BY <2>2
    <3> QED  BY <3>1, <3>2 DEF Edges
  <2>4. ASSUME NEW e \in Edges(ls)  PROVE e \in Edges(os)
    <3>1. PICK v \in 1..Len(ls) : e \in {ls[v].id} \X ls[v].deps
      BY DEF Edges
    <3>2. PICK p \in 1..Len(ls) : os[p] = ls[v]
      BY <2>2
    <3> QED  BY <2>2, <3>1, <3>2 DEF Edges
  <2>5. Edges(os) = Edges(ls)
    BY <2>3, <2>4
  <2>6. Edges(ls) = Declared(d)
    BY LinkedDeclared DEF ls
  <2>7. Edges(vs) = Declared(d)
    BY <2>1, <2>5, <2>6
  <2>8. IdsOf(vs) = {d[i].id : i \in Usable(d)} /\ \A i, j \in 1..Len(vs) : vs[j].id \in vs[i].deps => j < i
    BY <1>2, <1>3, <1>4
  <2>9. ReadOf(d, vs)
    BY <2>7, <2>8 DEF ReadOf
  <2> QED  BY <1>4, <2>9 DEF vs
<1>6. CASE Len(Kahn(ls)) # Len(ls)
  <2>1. vs = NoDeps(ls) /\ ls \in Seq(Item)
    BY <1>1, <1>3, <1>6 DEF Sorted, Sound
  <2>2. \A i \in 1..Len(vs) : vs[i].deps = {}
    BY <2>1, <1>4, NoDepsIs
  <2>3. Edges(vs) = {}
    BY <2>2 DEF Edges
  <2>4. Cyclic(Linked(Masked(d)))
    BY <1>6, CycleRead DEF ls
  <2>5. IdsOf(vs) = {d[i].id : i \in Usable(d)} /\ \A i, j \in 1..Len(vs) : vs[j].id \in vs[i].deps => j < i
    BY <1>2, <1>3, <1>4
  <2>6. ReadOf(d, vs)
    BY <2>3, <2>4, <2>5 DEF ReadOf
  <2> QED  BY <1>4, <2>6 DEF vs
<1> QED  BY <1>5, <1>6

-----------------------------------------------------------------------------
(* Structural repair *)

(* ms is what became of ns: no new steps, and nothing that a step waits    *)
(* for is forgotten while it is there.                                     *)
Keeps(ns, ms) ==
  /\ IdsOf(ms) \subseteq IdsOf(ns)
  /\ \A i \in 1..Len(ns) : \A j \in 1..Len(ms) :
       ns[i].id = ms[j].id => ns[i].deps \intersect IdsOf(ms) \subseteq ms[j].deps

LEMMA KeepsSelf ==
  ASSUME NEW ns, Sound(ns)
  PROVE  Keeps(ns, ns)
BY DEF Keeps, Sound, Unique

LEMMA KeepsOn ==
  ASSUME NEW as, NEW bs, NEW cs, Keeps(as, bs), Keeps(bs, cs)
  PROVE  Keeps(as, cs)
<1>1. IdsOf(cs) \subseteq IdsOf(bs) /\ IdsOf(cs) \subseteq IdsOf(as)
  BY DEF Keeps
<1>2. ASSUME NEW i \in 1..Len(as), NEW j \in 1..Len(cs), as[i].id = cs[j].id
      PROVE  as[i].deps \intersect IdsOf(cs) \subseteq cs[j].deps
  <2>1. cs[j].id \in IdsOf(bs)
    BY <1>1 DEF IdsOf
  <2>2. PICK k \in 1..Len(bs) : bs[k].id = cs[j].id
    BY <2>1 DEF IdsOf
  <2>3. as[i].deps \intersect IdsOf(bs) \subseteq bs[k].deps
    BY <1>2, <2>2 DEF Keeps
  <2>4. bs[k].deps \intersect IdsOf(cs) \subseteq cs[j].deps
    BY <2>2 DEF Keeps
  <2> QED  BY <1>1, <2>3, <2>4
<1> QED  BY <1>1, <1>2 DEF Keeps

(* Steps of a plan, each once and with what it depends on: linked, they    *)
(* are a plan.                                                             *)
PartOf(ns, ps) ==
  /\ ps \in Seq(Item) /\ Unique(ps)
  /\ \A p \in 1..Len(ps) : \E i \in 1..Len(ns) : ps[p].id = ns[i].id /\ ps[p].deps = ns[i].deps

LEMMA PartLinked ==
  ASSUME NEW ns, Sound(ns), NEW ps, PartOf(ns, ps)
  PROVE  Sound(Linked(ps)) /\ Len(Linked(ps)) = Len(ps) /\ Keeps(ns, Linked(ps))
<1> DEFINE ls == Linked(ps)
<1>1. ps \in Seq(Item) /\ Unique(ps) /\ Unique(ns)
  BY DEF PartOf, Sound
<1>2. Sound(ls) /\ Len(ls) = Len(ps) /\ IdsOf(ls) = IdsOf(ps)
  BY <1>1, LinkedSound
<1>3. \A p \in 1..Len(ps) : ls[p].id = ps[p].id /\ ls[p].deps = (ps[p].deps \intersect IdsOf(ps)) \ {ps[p].id}
  BY <1>1, LinkedIs
<1> HIDE DEF ls
<1>4. IdsOf(ls) \subseteq IdsOf(ns)
  <2>1. IdsOf(ps) \subseteq IdsOf(ns)
    BY DEF PartOf, IdsOf
  <2> QED  BY <1>2, <2>1
<1>5. ASSUME NEW i \in 1..Len(ns), NEW j \in 1..Len(ls), ns[i].id = ls[j].id
      PROVE  ns[i].deps \intersect IdsOf(ls) \subseteq ls[j].deps
  <2>1. PICK k \in 1..Len(ns) : ps[j].id = ns[k].id /\ ps[j].deps = ns[k].deps
    BY <1>2 DEF PartOf
  <2>2. k = i
    BY <1>1, <1>2, <1>3, <1>5, <2>1 DEF Unique
  <2>3. ns[i].id \notin ns[i].deps
    BY DEF Sound
  <2> QED  BY <1>2, <1>3, <1>5, <2>1, <2>2, <2>3
<1> QED  BY <1>2, <1>4, <1>5 DEF Keeps, ls

LEMMA MergeKeeps ==
  ASSUME NEW ns, Sound(ns)
  PROVE  Sound(Merge(ns)) /\ Keeps(ns, Merge(ns)) /\ (ns # <<>> => Merge(ns) # <<>>)
<1> DEFINE n == Len(ns)  hs == Heads(ns)  ps == Merged(ns)
<1>1. ns \in Seq(Item) /\ Unique(ns) /\ n \in Nat /\ hs \in SUBSET (1..n)
  BY DEF Sound, Heads
<1> HIDE DEF hs
<1>2. /\ Cardinality(hs) \in 0..n /\ InOrder(hs) \in Seq(hs) /\ Len(InOrder(hs)) = Cardinality(hs)
      /\ \A k, l \in 1..Cardinality(hs) : k < l => InOrder(hs)[k] < InOrder(hs)[l]
  BY <1>1, InOrderIs
<1>3. \A k \in 1..Cardinality(hs) : InOrder(hs)[k] \in hs /\ InOrder(hs)[k] \in 1..n
  <2>1. \A k \in 1..Cardinality(hs) : InOrder(hs)[k] \in hs
    BY <1>2
  <2> QED  BY <1>1, <2>1
<1>4. ASSUME NEW i \in 1..n
      PROVE  Joined(ns, i) \in Item /\ Joined(ns, i).id = ns[i].id /\ Joined(ns, i).deps = ns[i].deps
  <2> DEFINE run == {j \in i..Len(ns) : \A k \in i..j : Fragment(ns[k])}
             c == \E j \in run : ns[j].critical
             r == \E j \in run : ns[j].refers
             says == UNION {ns[j].says : j \in run}
             all == UNION {ns[j].tags : j \in run}
             tags == IF all = {} THEN {"code"} ELSE all
  <2>1. ns[i] \in Item /\ c \in BOOLEAN /\ r \in BOOLEAN
    BY <1>1
  <2>a. says \in SUBSET Sayings /\ tags \in SUBSET Tags
    <3>1. \A j \in run : ns[j] \in Item
      BY <1>1
    <3>2. \A j \in run : ns[j].says \in SUBSET Sayings /\ ns[j].tags \in SUBSET Tags
      BY <3>1 DEF Item
    <3>3. "code" \in Tags
      BY TagAssumption
    <3> HIDE DEF run
    <3> QED  BY <3>2, <3>3
  <2>2. Joined(ns, i) = IF Cardinality(run) < 2 THEN ns[i]
                        ELSE [ns[i] EXCEPT !.kind = ns[i].joint, !.item = FALSE, !.short = FALSE, !.role = "produce",
                                           !.critical = c, !.refers = r, !.says = says, !.tags = tags]
    BY DEF Joined
  <2> HIDE DEF run, c, r, says, tags
  <2>3. CASE Cardinality(run) < 2
    BY <2>1, <2>2, <2>3
  <2>4. CASE ~(Cardinality(run) < 2)
    <3> DEFINE s == ns[i]
               j == [s EXCEPT !.kind = s.joint, !.item = FALSE, !.short = FALSE, !.role = "produce",
                              !.critical = c, !.refers = r, !.says = says, !.tags = tags]
    <3>1. "produce" \in Roles
      BY DEF Roles
    <3>2. s \in Item
      BY <2>1
    <3> HIDE DEF s
    <3>5. j \in Item
      BY <2>1, <2>a, <3>1, <3>2 DEF Item
    <3>6. j.id = s.id /\ j.deps = s.deps
      BY <3>2 DEF Item
    <3> HIDE DEF j
    <3> QED  BY <2>2, <2>4, <3>5, <3>6 DEF j, s
  <2> QED  BY <2>3, <2>4
<1>5. /\ ps \in Seq(Item) /\ Len(ps) = Cardinality(hs)
      /\ \A k \in 1..Len(ps) : ps[k].id = ns[InOrder(hs)[k]].id /\ ps[k].deps = ns[InOrder(hs)[k]].deps
  <2>1. ps = [h \in 1..Cardinality(hs) |-> Joined(ns, InOrder(hs)[h])]
    BY DEF Merged, hs
  <2>2. \A k \in 1..Cardinality(hs) : /\ ps[k] \in Item /\ ps[k].id = ns[InOrder(hs)[k]].id
                                      /\ ps[k].deps = ns[InOrder(hs)[k]].deps
    BY <1>3, <1>4, <2>1
  <2>3. ps \in [1..Cardinality(hs) -> Item]
    BY <2>1, <2>2
  <2> HIDE DEF ps
  <2>4. ps \in Seq(Item) /\ Len(ps) = Cardinality(hs)
    BY <1>2, <2>3
  <2> QED  BY <2>2, <2>4
<1> HIDE DEF ps
<1>6. Unique(ps)
  <2> SUFFICES ASSUME NEW k \in 1..Len(ps), NEW l \in 1..Len(ps), ps[k].id = ps[l].id  PROVE k = l
    BY DEF Unique
  <2>1. InOrder(hs)[k] = InOrder(hs)[l]
    BY SMTT(30), <1>1, <1>3, <1>5 DEF Unique
  <2>2. InOrder(hs)[k] \in Nat /\ k \in Nat /\ l \in Nat
    BY <1>3, <1>5
  <2>3. ~(k < l) /\ ~(l < k)
    BY <1>2, <1>5, <2>1, <2>2
  <2> QED  BY <2>2, <2>3
<1>7. PartOf(ns, ps)
  BY <1>3, <1>5, <1>6 DEF PartOf
<1>8. Sound(Linked(ps)) /\ Len(Linked(ps)) = Len(ps) /\ Keeps(ns, Linked(ps))
  BY <1>7, PartLinked
<1>9. CASE n < 2
  <2>1. Merge(ns) = ns
    BY <1>9 DEF Merge
  <2> QED  BY <2>1, KeepsSelf
<1>10. CASE ~(n < 2)
  <2>1. Merge(ns) = Linked(ps)
    BY <1>10 DEF Merge, ps
  <2>2. 1 \in hs
    BY <1>1, <1>10 DEF Heads, hs
  <2>3. Cardinality(hs) # 0
    <3>1. IsFiniteSet(1..n)
      BY <1>1, IntervalSize
    <3>2. IsFiniteSet(hs)
      BY <1>1, <3>1, FS_Subset
    <3> QED  BY <2>2, <3>2, FS_EmptySet
  <2>4. Len(Merge(ns)) # 0
    BY <1>5, <1>8, <2>1, <2>3
  <2>5. Merge(ns) # <<>>
    BY <2>4
  <2> QED  BY <1>8, <2>1, <2>5
<1> QED  BY <1>9, <1>10

LEMMA CapKeeps ==
  ASSUME NEW ns, Sound(ns)
  PROVE  /\ Sound(Cap(ns)) /\ Keeps(ns, Cap(ns)) /\ (ns # <<>> => Cap(ns) # <<>>)
         /\ Len(Cap(ns)) <= MaxSteps
<1> DEFINE n == Len(ns)  ps == SubSeq(ns, 1, MaxSteps)
<1>1. ns \in Seq(Item) /\ Unique(ns) /\ n \in Nat /\ MaxSteps \in Nat /\ MaxSteps # 0
  BY MaxStepsAssumption DEF Sound
<1>2. CASE n <= MaxSteps
  <2>1. Cap(ns) = ns
    BY <1>2 DEF Cap
  <2> QED  BY <1>2, <2>1, KeepsSelf
<1>3. CASE ~(n <= MaxSteps)
  <2>1. Cap(ns) = Linked(ps)
    BY <1>3 DEF Cap
  <2>2. \A i \in 1..MaxSteps : i \in 1..n /\ ns[i] \in Item
    BY <1>1, <1>3
  <2>3. ps \in Seq(Item) /\ Len(ps) = MaxSteps /\ \A i \in 1..MaxSteps : ps[i] = ns[i]
    <3>1. /\ ps \in Seq(Item) /\ Len(ps) = IF 1 <= MaxSteps THEN MaxSteps - 1 + 1 ELSE 0
          /\ \A i \in 1..(MaxSteps - 1 + 1) : ps[i] = ns[1 + i - 1]
      BY <1>1, <2>2, SubSeqProperties
    <3> HIDE DEF ps
    <3>2. MaxSteps - 1 + 1 = MaxSteps /\ 1 <= MaxSteps /\ \A i \in 1..MaxSteps : 1 + i - 1 = i
      BY <1>1
    <3> QED  BY <3>1, <3>2
  <2> HIDE DEF ps
  <2>4. PartOf(ns, ps)
    BY <1>1, <2>2, <2>3 DEF PartOf, Unique
  <2>5. Sound(Linked(ps)) /\ Len(Linked(ps)) = Len(ps) /\ Keeps(ns, Linked(ps))
    BY <2>4, PartLinked
  <2>6. Len(Cap(ns)) = MaxSteps
    BY <2>1, <2>3, <2>5
  <2>7. Cap(ns) # <<>>
    BY <1>1, <2>6
  <2> QED  BY <1>1, <2>1, <2>5, <2>6, <2>7
<1> QED  BY <1>2, <1>3

(* The same steps with other dependencies; with more, nothing is lost.     *)
Relinked(ns, ms) ==
  /\ ms \in Seq(Item) /\ Len(ms) = Len(ns)
  /\ \A i \in 1..Len(ns) : ms[i].id = ns[i].id /\ ms[i].deps \subseteq IdsOf(ns) \ {ns[i].id}

LEMMA RelinkedIs ==
  ASSUME NEW ns \in Seq(Item), Unique(ns), NEW ms, Relinked(ns, ms)
  PROVE  /\ Sound(ms) /\ IdsOf(ms) = IdsOf(ns)
         /\ (\A i \in 1..Len(ns) : ns[i].deps \subseteq ms[i].deps) => Keeps(ns, ms)
<1>1. /\ ms \in Seq(Item) /\ Len(ms) = Len(ns)
      /\ \A i \in 1..Len(ns) : ms[i].id = ns[i].id /\ ms[i].deps \subseteq IdsOf(ns) \ {ns[i].id}
  BY DEF Relinked
<1>2. IdsOf(ms) = IdsOf(ns)
  BY <1>1 DEF IdsOf
<1>3. Unique(ms)
  BY <1>1 DEF Unique
<1>4. Sound(ms)
  BY <1>1, <1>2, <1>3 DEF Sound
<1>5. ASSUME \A i \in 1..Len(ns) : ns[i].deps \subseteq ms[i].deps
      PROVE  Keeps(ns, ms)
  <2>1. \A i \in 1..Len(ns) : \A j \in 1..Len(ms) : ns[i].id = ms[j].id => i = j
    BY <1>1 DEF Unique
  <2> QED  BY <1>1, <1>2, <1>5, <2>1 DEF Keeps
<1> QED  BY <1>2, <1>4, <1>5

(* The nearest of some positions is one of them.                           *)
LEMMA NearestIs ==
  ASSUME NEW n \in Nat, NEW P \in SUBSET (1..n), P # {}, NEW i \in 1..n
  PROVE  Nearest(P, i) \in P
<1> DEFINE before == {p \in P : p < i}
<1>1. CASE before = {}
  <2>1. P \in SUBSET Nat
    OBVIOUS
  <2> QED  BY <1>1, <2>1, MinIs DEF Nearest
<1>2. CASE before # {}
  <2>1. before \in SUBSET (1..n)
    OBVIOUS
  <2> HIDE DEF before
  <2>2. Max(before) \in before
    BY <1>2, <2>1, MaxOfPositions
  <2> QED  BY <1>2, <2>2 DEF Nearest, before
<1> QED  BY <1>1, <1>2

LEMMA NeedingIs ==
  ASSUME NEW ns, Sound(ns), NEW i \in 1..Len(ns), NEW P \in SUBSET ((1..Len(ns)) \ {i}),
         NEW D \in SUBSET (IdsOf(ns) \ {ns[i].id})
  PROVE  D \subseteq Needing(ns, i, D, P) /\ Needing(ns, i, D, P) \subseteq IdsOf(ns) \ {ns[i].id}
<1>1. CASE P = {}
  BY <1>1 DEF Needing
<1>2. CASE P # {}
  <2>1. Len(ns) \in Nat /\ P \in SUBSET (1..Len(ns))
    BY DEF Sound
  <2>2. Nearest(P, i) \in P
    BY <1>2, <2>1, NearestIs
  <2>3. ns[Nearest(P, i)].id \in IdsOf(ns) \ {ns[i].id}
    BY <2>1, <2>2 DEF Sound, Unique, IdsOf
  <2> QED  BY <2>3 DEF Needing
<1> QED  BY <1>1, <1>2

(* What is inferred adds to what was declared, and is about other steps.   *)
LEMMA InferredIs ==
  ASSUME NEW ns, Sound(ns), NEW i \in 1..Len(ns)
  PROVE  ns[i].deps \subseteq Inferred(ns, i) /\ Inferred(ns, i) \subseteq IdsOf(ns) \ {ns[i].id}
<1> DEFINE s == ns[i]
           others(kinds) == {j \in (1..Len(ns)) \ {i} : ns[j].kind \in kinds}
           meant == {ns[j].id : j \in {j \in 1..(i - 1) : \/ ns[j].kind \in Producing
                                                          \/ Rank(ns[j].kind) < Rank(s.kind)}}
           told == IF s.refers THEN s.deps \union meant ELSE s.deps
<1>1. meant \subseteq IdsOf(ns) \ {s.id}
  <2>1. ASSUME NEW j \in 1..(i - 1)  PROVE ns[j].id \in IdsOf(ns) \ {s.id}
    <3>1. j \in 1..Len(ns) /\ j # i
      BY DEF Sound
    <3> QED  BY <3>1 DEF Sound, Unique, IdsOf
  <2> QED  BY <2>1
<1>2. s.deps \subseteq IdsOf(ns) \ {s.id}
  BY DEF Sound
<1> HIDE DEF meant
<1>3. s.deps \subseteq told /\ told \in SUBSET (IdsOf(ns) \ {s.id})
  BY <1>1, <1>2
<1> HIDE DEF told
<1>4. others(Producing) \in SUBSET ((1..Len(ns)) \ {i}) /\ others({"design"}) \in SUBSET ((1..Len(ns)) \ {i})
  OBVIOUS
<1>5. Inferred(ns, i) \in {Needing(ns, i, told, others(Producing)), Needing(ns, i, told, others({"design"})), told}
  <2>1. \/ Inferred(ns, i) = Needing(ns, i, told, others(Producing))
        \/ Inferred(ns, i) = Needing(ns, i, told, others({"design"}))
        \/ Inferred(ns, i) = told
    BY DEF Inferred, told, meant
  <2> QED  BY <2>1
<1> HIDE DEF others
<1>6. /\ told \subseteq Needing(ns, i, told, others(Producing))
      /\ Needing(ns, i, told, others(Producing)) \subseteq IdsOf(ns) \ {s.id}
  BY <1>3, <1>4, NeedingIs
<1>7. /\ told \subseteq Needing(ns, i, told, others({"design"}))
      /\ Needing(ns, i, told, others({"design"})) \subseteq IdsOf(ns) \ {s.id}
  BY <1>3, <1>4, NeedingIs
<1> QED  BY <1>3, <1>5, <1>6, <1>7

LEMMA ReplaceDeps ==
  ASSUME NEW s \in Item, NEW D \in SUBSET (Nat \ {0})
  PROVE  [s EXCEPT !.deps = D] \in Item /\ [s EXCEPT !.deps = D].id = s.id /\ [s EXCEPT !.deps = D].deps = D
BY DEF Item

LEMMA IdsAreIds ==
  ASSUME NEW ns \in Seq(Item)
  PROVE  IdsOf(ns) \in SUBSET (Nat \ {0})
<1>1. \A i \in 1..Len(ns) : ns[i] \in Item
  OBVIOUS
<1>2. \A i \in 1..Len(ns) : ns[i].id \in Nat \ {0}
  BY <1>1 DEF Item
<1> QED  BY <1>2 DEF IdsOf

(* With one dependency each, on a step of the rank before, the ranks are   *)
(* a plan.                                                                 *)
LEMMA ChainedIs ==
  ASSUME NEW ns, Sound(ns)
  PROVE  Relinked(ns, Chained(ns))
<1> DEFINE n == Len(ns)
           rank(i) == Rank(ns[i].kind)
           lower(i) == {j \in 1..n : rank(j) < rank(i)}
           top(i) == {j \in lower(i) : \A k \in lower(i) : rank(k) <= rank(j)}
           D(i) == IF lower(i) = {} THEN {} ELSE {ns[Max(top(i))].id}
           cs == [i \in 1..n |-> [ns[i] EXCEPT !.deps = D(i)]]
<1>0. ns \in Seq(Item) /\ n \in Nat /\ Unique(ns) /\ \A i \in 1..n : ns[i] \in Item
  BY DEF Sound
<1>1. \A i \in 1..n : rank(i) \in 0..3
  BY <1>0 DEF Rank, Item, Kinds
<1>2. Chained(ns) = cs
  BY DEF Chained, WithDeps
<1>3. ASSUME NEW i \in 1..n  PROVE D(i) \subseteq IdsOf(ns) \ {ns[i].id}
  <2>1. CASE lower(i) = {}
    BY <2>1
  <2>2. CASE lower(i) # {}
    <3> DEFINE ranks == {rank(k) : k \in lower(i)}
    <3>1. ranks \in SUBSET Int /\ ranks # {} /\ ranks \in SUBSET (0..3)
      BY <1>1, <2>2
    <3>2. IsFiniteSet(ranks)
      <4>1. IsFiniteSet(0..3)
        <5>1. 0 \in Int /\ 3 \in Int
          OBVIOUS
        <5> QED  BY <5>1, FS_Interval
      <4> HIDE DEF ranks
      <4> QED  BY <3>1, <4>1, FS_Subset
    <3>3. Max(ranks) \in ranks /\ \A x \in ranks : x <= Max(ranks)
      <4> HIDE DEF ranks
      <4> QED  BY <3>1, <3>2, MaxIs
    <3>4. PICK j \in lower(i) : rank(j) = Max(ranks)
      BY <3>3
    <3>5. top(i) # {} /\ top(i) \in SUBSET (1..n)
      BY <3>3, <3>4
    <3>6. Max(top(i)) \in top(i)
      <4> HIDE DEF top
      <4> QED  BY <1>0, <3>5, MaxOfPositions
    <3>7. Max(top(i)) \in 1..n /\ Max(top(i)) # i
      <4> DEFINE t == Max(top(i))
      <4>1. t \in lower(i)
        BY <3>6
      <4> HIDE DEF t
      <4>2. t \in 1..n /\ rank(t) < rank(i)
        BY <4>1
      <4>3. rank(i) \in Int
        BY <1>1
      <4> HIDE DEF rank
      <4>4. t # i
        BY <4>2, <4>3
      <4> QED  BY <4>2, <4>4 DEF t
    <3> QED  BY <1>0, <2>2, <3>7 DEF Unique, IdsOf
  <2> QED  BY <2>1, <2>2
<1> HIDE DEF D
<1>4. \A i \in 1..n : cs[i] \in Item /\ cs[i].id = ns[i].id /\ cs[i].deps = D(i)
  <2> TAKE i \in 1..n
  <2>1. D(i) \in SUBSET (Nat \ {0})
    BY <1>0, <1>3, IdsAreIds
  <2> QED  BY <1>0, <2>1, ReplaceDeps
<1>5. cs \in Seq(Item) /\ Len(cs) = n
  <2>1. cs \in [1..n -> Item]
    BY <1>4
  <2> HIDE DEF cs
  <2> QED  BY <1>0, <2>1
<1> HIDE DEF cs
<1> QED  BY <1>2, <1>3, <1>4, <1>5 DEF Relinked

LEMMA InferKeeps ==
  ASSUME NEW ns, Sound(ns)
  PROVE  Sound(Infer(ns)) /\ Len(Infer(ns)) = Len(ns) /\ Keeps(ns, Infer(ns))
<1> DEFINE n == Len(ns)
           ls == [i \in 1..n |-> [ns[i] EXCEPT !.deps = Inferred(ns, i)]]
<1>0. ns \in Seq(Item) /\ n \in Nat /\ Unique(ns) /\ \A i \in 1..n : ns[i] \in Item
  BY DEF Sound
<1>1. \A i \in 1..n : ns[i].deps \subseteq Inferred(ns, i) /\ Inferred(ns, i) \subseteq IdsOf(ns) \ {ns[i].id}
  BY InferredIs
<1>2. \A i \in 1..n : ls[i] \in Item /\ ls[i].id = ns[i].id /\ ls[i].deps = Inferred(ns, i)
  <2> TAKE i \in 1..n
  <2>1. Inferred(ns, i) \in SUBSET (Nat \ {0})
    BY <1>0, <1>1, IdsAreIds
  <2> QED  BY <1>0, <2>1, ReplaceDeps
<1>3. ls \in Seq(Item) /\ Len(ls) = n
  <2>1. ls \in [1..n -> Item]
    BY <1>2
  <2> HIDE DEF ls
  <2> QED  BY <1>0, <2>1
<1>4. Infer(ns) = IF n < 2 THEN ns
                  ELSE IF \A i \in 1..n : ls[i].deps = {} THEN Chained(ns) ELSE ls
  BY DEF Infer, WithDeps
<1> HIDE DEF ls
<1>5. Relinked(ns, ls)
  BY <1>1, <1>2, <1>3 DEF Relinked
<1>6. CASE n < 2
  BY <1>4, <1>6, KeepsSelf
<1>7. CASE ~(n < 2) /\ \A i \in 1..n : ls[i].deps = {}
  <2>1. Infer(ns) = Chained(ns)
    BY <1>4, <1>7
  <2>2. Relinked(ns, Chained(ns))
    BY ChainedIs
  <2>3. \A i \in 1..n : ns[i].deps = {}
    BY <1>1, <1>2, <1>7
  <2>4. Sound(Chained(ns)) /\ Keeps(ns, Chained(ns))
    BY <1>0, <2>2, <2>3, RelinkedIs
  <2>5. Len(Chained(ns)) = n
    BY <2>2 DEF Relinked
  <2> QED  BY <2>1, <2>4, <2>5
<1>8. CASE ~(n < 2) /\ ~(\A i \in 1..n : ls[i].deps = {})
  <2>1. Infer(ns) = ls
    BY <1>4, <1>8
  <2>2. \A i \in 1..n : ns[i].deps \subseteq ls[i].deps
    BY <1>1, <1>2
  <2>3. Sound(ls) /\ Keeps(ns, ls)
    BY <1>0, <1>5, <2>2, RelinkedIs
  <2> QED  BY <1>3, <2>1, <2>3
<1> QED  BY <1>6, <1>7, <1>8

(* The repair as a whole.                                                  *)
LEMMA RepairKeeps ==
  ASSUME NEW ns, Sound(ns)
  PROVE  /\ Sound(StructuralRepair(ns)) /\ Keeps(ns, StructuralRepair(ns))
         /\ Len(StructuralRepair(ns)) <= MaxSteps
         /\ ns # <<>> => StructuralRepair(ns) # <<>>
<1> DEFINE a == Merge(ns)  b == Cap(a)  c == Infer(b)
<1>1. Sound(a) /\ Keeps(ns, a) /\ (ns # <<>> => a # <<>>)
  BY MergeKeeps
<1> HIDE DEF a
<1>2. Sound(b) /\ Keeps(a, b) /\ (a # <<>> => b # <<>>) /\ Len(b) <= MaxSteps
  BY <1>1, CapKeeps
<1> HIDE DEF b
<1>3. Sound(c) /\ Len(c) = Len(b) /\ Keeps(b, c)
  BY <1>2, InferKeeps
<1> HIDE DEF c
<1>4. Keeps(a, c)
  BY <1>2, <1>3, KeepsOn
<1>5. Keeps(ns, c)
  BY <1>1, <1>4, KeepsOn
<1>6. b # <<>> => c # <<>>
  <2>1. b \in Seq(Item) /\ c \in Seq(Item)
    BY <1>2, <1>3 DEF Sound
  <2> QED  BY <1>3, <2>1, EmptySeq
<1>7. StructuralRepair(ns) = c
  BY DEF StructuralRepair, a, b, c
<1> QED  BY <1>1, <1>2, <1>3, <1>5, <1>6, <1>7

-----------------------------------------------------------------------------
(* The other passes that make steps *)

(* The steps with their layers, or without dependencies.                   *)
LEMMA LayerStepsIs ==
  ASSUME NEW ns, Sound(ns)
  PROVE  /\ Sound(LayerSteps(ns)) /\ Len(LayerSteps(ns)) = Len(ns) /\ IdsOf(LayerSteps(ns)) = IdsOf(ns)
         /\ Len(Kahn(LayerSteps(ns))) = Len(LayerSteps(ns))
<1> DEFINE ls == Linked(ns)
<1>1. ns \in Seq(Item) /\ Unique(ns)
  BY DEF Sound
<1>2. Sound(ls) /\ Len(ls) = Len(ns) /\ IdsOf(ls) = IdsOf(ns)
  BY <1>1, LinkedSound
<1>3. LayerSteps(ns) = IF Len(Kahn(ls)) = Len(ls) THEN ls ELSE NoDeps(ls)
  BY DEF LayerSteps
<1> HIDE DEF ls
<1>4. CASE Len(Kahn(ls)) = Len(ls)
  BY <1>2, <1>3, <1>4
<1>5. CASE Len(Kahn(ls)) # Len(ls)
  <2>1. ls \in Seq(Item) /\ Unique(ls)
    BY <1>2 DEF Sound
  <2>2. /\ NoDeps(ls) \in Seq(Item) /\ Len(NoDeps(ls)) = Len(ls) /\ IdsOf(NoDeps(ls)) = IdsOf(ls)
        /\ \A i \in 1..Len(ls) : NoDeps(ls)[i].deps = {}
    BY <2>1, NoDepsIs
  <2>3. Sound(NoDeps(ls))
    BY <2>1, NoDepsSound
  <2>4. Len(Kahn(NoDeps(ls))) = Len(NoDeps(ls))
    BY <2>2, FreeReached
  <2>5. LayerSteps(ns) = NoDeps(ls)
    BY <1>3, <1>5
  <2> QED  BY <1>2, <2>2, <2>3, <2>4, <2>5
<1> QED  BY <1>4, <1>5

(* The steps of the planner's own plan.                                    *)
HeuristicPart(q, i) == [Blank EXCEPT !.id = i, !.kind = q.parts[i], !.joint = q.joint, !.short = TRUE,
                                     !.deps = IF q.serial /\ i > 1 THEN {i - 1} ELSE {}]
HeuristicParts(q) == [i \in 1..Len(q.parts) |-> HeuristicPart(q, i)]

LEMMA BlankIs ==
  Blank \in Item /\ Blank.id = 1 /\ Blank.deps = {}
<1>1. "other" \in Kinds /\ "produce" \in Roles /\ {"reasoning"} \in SUBSET Tags /\ {} \in SUBSET Sayings
  BY TagAssumption DEF Kinds, Roles
<1> QED  BY <1>1 DEF Blank, Item

(* The plan whose only step is the query.                                  *)
WholeOf(q) == [Blank EXCEPT !.kind = q.kind, !.headed = q.brief]

LEMMA WholeIs ==
  ASSUME NEW q \in Queries
  PROVE  WholeOf(q) \in Item /\ WholeOf(q).id = 1 /\ WholeOf(q).deps = {}
<1>1. q.kind \in Kinds /\ q.brief \in BOOLEAN
  BY PlannerAssumption
<1> DEFINE k == q.kind  b == q.brief
<1>2. WholeOf(q) = [Blank EXCEPT !.kind = k, !.headed = b]
  BY DEF WholeOf
<1> HIDE DEF k, b
<1>3. k \in Kinds /\ b \in BOOLEAN
  BY <1>1 DEF k, b
<1> QED  BY <1>2, <1>3, BlankIs DEF Item

LEMMA WholePlan ==
  ASSUME NEW q \in Queries
  PROVE  Sound(<<WholeOf(q)>>) /\ <<WholeOf(q)>> # <<>>
<1> DEFINE ns == <<WholeOf(q)>>
<1>1. ns \in Seq(Item) /\ Len(ns) = 1 /\ ns[1] = WholeOf(q)
  BY WholeIs
<1> HIDE DEF ns
<1>2. \A i \in 1..Len(ns) : i = 1
  BY <1>1
<1>3. Sound(ns)
  BY <1>1, <1>2, WholeIs DEF Sound, Unique
<1>4. ns # <<>>
  BY <1>1, EmptySeq
<1> QED  BY <1>3, <1>4 DEF ns

LEMMA HeuristicPartsSound ==
  ASSUME NEW q \in Queries
  PROVE  Sound(HeuristicParts(q)) /\ (Len(q.parts) >= 2 => HeuristicParts(q) # <<>>)
<1> DEFINE m == Len(q.parts)  ns == HeuristicParts(q)
<1>1. q.parts \in Seq(Kinds) /\ q.serial \in BOOLEAN /\ q.joint \in Kinds /\ m \in Nat
  BY PlannerAssumption
<1>2. ASSUME NEW i \in 1..m
      PROVE  /\ HeuristicPart(q, i) \in Item /\ HeuristicPart(q, i).id = i
             /\ HeuristicPart(q, i).deps \subseteq (1..m) \ {i}
  <2> DEFINE D == IF q.serial /\ i > 1 THEN {i - 1} ELSE {}
             k == q.parts[i]  j == q.joint
  <2>1. k \in Kinds /\ j \in Kinds /\ i \in Nat \ {0}
    BY <1>1
  <2>2. D \subseteq (1..m) \ {i}
    BY <1>1
  <2>3. D \in SUBSET (Nat \ {0})
    BY <2>2
  <2>4. HeuristicPart(q, i) = [Blank EXCEPT !.id = i, !.kind = k, !.joint = j, !.short = TRUE, !.deps = D]
    BY DEF HeuristicPart
  <2> HIDE DEF D, k, j
  <2>5. Blank \in Item
    BY BlankIs
  <2>6. [Blank EXCEPT !.id = i, !.kind = k, !.joint = j, !.short = TRUE, !.deps = D] \in Item
    BY <2>1, <2>3, <2>5 DEF Item
  <2>7. /\ [Blank EXCEPT !.id = i, !.kind = k, !.joint = j, !.short = TRUE, !.deps = D].id = i
        /\ [Blank EXCEPT !.id = i, !.kind = k, !.joint = j, !.short = TRUE, !.deps = D].deps = D
    BY <2>5 DEF Item
  <2> QED  BY <2>2, <2>4, <2>6, <2>7
<1>3. ns \in Seq(Item) /\ Len(ns) = m /\ \A i \in 1..m : ns[i].id = i /\ ns[i].deps \subseteq (1..m) \ {i}
  <2>1. ns \in [1..m -> Item] /\ \A i \in 1..m : ns[i] = HeuristicPart(q, i)
    BY <1>2 DEF HeuristicParts
  <2> HIDE DEF ns, m
  <2>2. ns \in Seq(Item) /\ Len(ns) = m
    BY <1>1, <2>1
  <2> QED  BY <1>2, <2>1, <2>2
<1> HIDE DEF ns, m
<1>4. IdsOf(ns) = 1..m
  BY <1>3 DEF IdsOf
<1>5. Sound(ns)
  BY <1>3, <1>4 DEF Sound, Unique
<1>6. m >= 2 => ns # <<>>
  BY <1>1, <1>3
<1> QED  BY <1>5, <1>6 DEF ns, m

(* Every step waits for the one before it.                                 *)
InRow(ns) == WithDeps(ns, LAMBDA i : IF i = 1 THEN {} ELSE {ns[i - 1].id})

LEMMA InRowSound ==
  ASSUME NEW ns, Sound(ns), ns # <<>>
  PROVE  Sound(InRow(ns)) /\ InRow(ns) # <<>>
<1> DEFINE n == Len(ns)
           D(i) == IF i = 1 THEN {} ELSE {ns[i - 1].id}
           rs == [i \in 1..n |-> [ns[i] EXCEPT !.deps = D(i)]]
<1>0. ns \in Seq(Item) /\ n \in Nat /\ Unique(ns) /\ \A i \in 1..n : ns[i] \in Item
  BY DEF Sound
<1>1. ASSUME NEW i \in 1..n  PROVE D(i) \subseteq IdsOf(ns) \ {ns[i].id}
  <2>1. CASE i # 1
    <3>1. i - 1 \in 1..n /\ i - 1 # i
      BY <1>0, <2>1
    <3> QED  BY <1>0, <2>1, <3>1 DEF Unique, IdsOf
  <2> QED  BY <2>1
<1>2. InRow(ns) = rs
  BY DEF InRow, WithDeps
<1> HIDE DEF D
<1>3. \A i \in 1..n : rs[i] \in Item /\ rs[i].id = ns[i].id /\ rs[i].deps = D(i)
  <2> TAKE i \in 1..n
  <2>1. D(i) \in SUBSET (Nat \ {0})
    BY <1>0, <1>1, IdsAreIds
  <2> QED  BY <1>0, <2>1, ReplaceDeps
<1>4. rs \in Seq(Item) /\ Len(rs) = n
  <2>1. rs \in [1..n -> Item]
    BY <1>3
  <2> HIDE DEF rs
  <2> QED  BY <1>0, <2>1
<1> HIDE DEF rs
<1>5. Sound(rs)
  <2>1. Relinked(ns, rs)
    BY <1>1, <1>3, <1>4 DEF Relinked
  <2> QED  BY <1>0, <2>1, RelinkedIs
<1>6. rs # <<>>
  <2>1. n # 0
    BY <1>0, EmptySeq
  <2> QED  BY <1>4, <2>1
<1> QED  BY <1>2, <1>5, <1>6

(* Marking steps as critical changes nothing else.                         *)
Remarked(ns, ms) ==
  /\ ms \in Seq(Item) /\ Len(ms) = Len(ns)
  /\ \A i \in 1..Len(ns) : /\ ms[i].id = ns[i].id /\ ms[i].deps = ns[i].deps
                           /\ ms[i].kind = ns[i].kind /\ ms[i].role = ns[i].role

LEMMA Recolour ==
  ASSUME NEW s \in Item, NEW c \in BOOLEAN
  PROVE  LET t == [s EXCEPT !.critical = c]
         IN /\ t \in Item /\ t.id = s.id /\ t.deps = s.deps /\ t.kind = s.kind /\ t.role = s.role
            /\ t.critical = c
BY DEF Item

LEMMA CriticalIs ==
  ASSUME NEW ns \in Seq(Item), NEW order, NEW layered
  PROVE  Remarked(ns, CriticalValidated(ns, order, layered))
<1> DEFINE marked == Select(order, {p \in 1..Len(order) :
                                      \E i \in 1..Len(ns) : ns[i].id = order[p] /\ ns[i].critical})
           kept == IF layered /\ marked = <<>> THEN {order[Len(order)]}
                   ELSE ToSet(SubSeq(marked, 1, Min({2, Len(marked)})))
           ms == [i \in 1..Len(ns) |-> [ns[i] EXCEPT !.critical = ns[i].id \in kept]]
<1>1. CriticalValidated(ns, order, layered) = ms
  BY DEF CriticalValidated
<1> HIDE DEF kept
<1>2. ASSUME NEW i \in 1..Len(ns)
      PROVE  /\ ms[i] \in Item /\ ms[i].id = ns[i].id /\ ms[i].deps = ns[i].deps
             /\ ms[i].kind = ns[i].kind /\ ms[i].role = ns[i].role
  <2> DEFINE c == ns[i].id \in kept
  <2>1. c \in BOOLEAN /\ ns[i] \in Item /\ ms[i] = [ns[i] EXCEPT !.critical = c]
    OBVIOUS
  <2> HIDE DEF c, ms
  <2> QED  BY <2>1, Recolour
<1>3. ms \in Seq(Item) /\ Len(ms) = Len(ns)
  <2>1. ms \in [1..Len(ns) -> Item] /\ Len(ns) \in Nat
    BY <1>2
  <2> HIDE DEF ms
  <2> QED  BY <2>1
<1> HIDE DEF ms
<1> QED  BY <1>1, <1>2, <1>3 DEF Remarked

LEMMA CodedIs ==
  ASSUME Sound(nodes)
  PROVE  Remarked(nodes, [i \in 1..Len(nodes) |-> [nodes[i] EXCEPT !.critical = @ \/ Coding(nodes[i])]])
<1> DEFINE cs == [i \in 1..Len(nodes) |-> [nodes[i] EXCEPT !.critical = @ \/ Coding(nodes[i])]]
<1>0. nodes \in Seq(Item) /\ Len(nodes) \in Nat
  BY DEF Sound
<1>1. ASSUME NEW i \in 1..Len(nodes)
      PROVE  /\ cs[i] \in Item /\ cs[i].id = nodes[i].id /\ cs[i].deps = nodes[i].deps
             /\ cs[i].kind = nodes[i].kind /\ cs[i].role = nodes[i].role
  <2> DEFINE c == nodes[i].critical \/ Coding(nodes[i])
  <2>1. c \in BOOLEAN /\ nodes[i] \in Item /\ cs[i] = [nodes[i] EXCEPT !.critical = c]
    BY <1>0
  <2> HIDE DEF c, cs
  <2> QED  BY <2>1, Recolour
<1>2. cs \in Seq(Item) /\ Len(cs) = Len(nodes)
  <2>1. cs \in [1..Len(nodes) -> Item]
    BY <1>1
  <2> HIDE DEF cs
  <2> QED  BY <1>0, <2>1
<1> HIDE DEF cs
<1>3. Remarked(nodes, cs)
  BY <1>1, <1>2 DEF Remarked
<1> QED  BY <1>3 DEF cs

LEMMA MarkedIs ==
  ASSUME Sound(nodes)
  PROVE  Remarked(nodes, Marked)
<1> DEFINE cs == [i \in 1..Len(nodes) |-> [nodes[i] EXCEPT !.critical = @ \/ Coding(nodes[i])]]
<1>1. Remarked(nodes, cs)
  BY CodedIs
<1>2. Marked = CriticalValidated(cs, FlattenSeq(layers), Len(layers) >= 2)
  BY DEF Marked
<1> HIDE DEF cs
<1>3. cs \in Seq(Item)
  BY <1>1 DEF Remarked
<1>4. Remarked(cs, Marked)
  BY <1>2, <1>3, CriticalIs
<1> QED  BY <1>1, <1>4 DEF Remarked

LEMMA RemarkedSound ==
  ASSUME NEW ns, Sound(ns), NEW ms, Remarked(ns, ms)
  PROVE  Sound(ms) /\ IdsOf(ms) = IdsOf(ns)
<1>1. Relinked(ns, ms)
  BY DEF Remarked, Relinked, Sound
<1>2. ns \in Seq(Item) /\ Unique(ns)
  BY DEF Sound
<1> QED  BY <1>1, <1>2, RelinkedIs

-----------------------------------------------------------------------------
(* The plan's steps *)

Early == {"ask", "drafted", "empty"}
Stages == {"ask", "drafted", "empty", "valid", "faulty", "sound", "layered", "ready", "running"}

(* What holds of the steps at every stage.                                 *)
StepsOK ==
  /\ stage \in Stages /\ query \in Queries /\ pool \in Pools /\ draft \in Seq(Item)
  /\ Sound(nodes)
  /\ stage \notin Early => nodes # <<>>

LEMMA DraftType ==
  \A d \in Drafts \union Rewrites \union {<<>>} : d \in Seq(Item)
<1>1. <<>> \in Seq(Item)
  BY EmptySeq
<1> QED  BY <1>1, PlannerAssumption

LEMMA EmptySound ==
  Sound(<<>>)
<1>1. <<>> \in Seq(Item) /\ Len(<<>>) = 0
  BY EmptySeq
<1>2. \A i \in 1..Len(<<>>) : FALSE
  BY <1>1
<1> QED  BY <1>1, <1>2 DEF Sound, Unique

(* Step by step.  The engine's answers and the planner's own plan are made *)
(* into plans by the passes; afterwards only marks change.                 *)
LEMMA ThinkSteps ==
  ASSUME StepsOK, Think
  PROVE  StepsOK'
<1>1. draft' \in Seq(Item)
  BY DraftType DEF Think
<1> QED  BY <1>1 DEF StepsOK, Think, Stages, Early

LEMMA ReadSteps ==
  ASSUME StepsOK, Read
  PROVE  StepsOK' /\ nodes' = Validate(draft) /\ draft' = draft
<1>1. Sound(Validate(draft))
  BY ValidateReads DEF StepsOK
<1>2. nodes' = Validate(draft) /\ UNCHANGED <<query, pool, draft>>
      /\ stage' = IF nodes' = <<>> THEN "empty" ELSE "valid"
  BY DEF Read
<1>3. Sound(nodes')
  BY <1>1, <1>2
<1>4. Sound(nodes)'
  BY <1>3 DEF Sound, Unique, IdsOf
<1> QED  BY <1>2, <1>4 DEF StepsOK, Stages, Early

LEMMA RepairSteps ==
  ASSUME StepsOK, Repair
  PROVE  /\ StepsOK' /\ nodes' = StructuralRepair(nodes)
         /\ Keeps(nodes, nodes') /\ Len(nodes') <= MaxSteps
<1>1. Sound(nodes) /\ nodes # <<>>
  BY DEF StepsOK, Repair, Early
<1>2. nodes' = StructuralRepair(nodes) /\ UNCHANGED <<query, pool, draft>> /\ stage' \in {"faulty", "sound"}
  BY DEF Repair
<1>3. Sound(nodes') /\ nodes' # <<>> /\ Keeps(nodes, nodes') /\ Len(nodes') <= MaxSteps
  BY <1>1, <1>2, RepairKeeps
<1>4. Sound(nodes)'
  BY <1>3 DEF Sound, Unique, IdsOf
<1> QED  BY <1>2, <1>3, <1>4 DEF StepsOK, Stages, Early

LEMMA RewriteSteps ==
  ASSUME StepsOK, Rewrite
  PROVE  StepsOK'
<1>1. Sound(nodes) /\ nodes # <<>>
  BY DEF StepsOK, Rewrite, Early
<1>2. PICK d \in Rewrites \union {<<>>} :
        IF Validate(d) = <<>> THEN UNCHANGED <<nodes, draft>>
        ELSE nodes' = StructuralRepair(Validate(d)) /\ draft' = d
  BY DEF Rewrite
<1>3. d \in Seq(Item)
  BY DraftType
<1>4. Sound(nodes') /\ nodes' # <<>> /\ draft' \in Seq(Item)
  <2>1. CASE Validate(d) = <<>>
    BY <1>1, <1>2, <2>1 DEF StepsOK
  <2>2. CASE Validate(d) # <<>>
    <3>1. Sound(Validate(d))
      BY <1>3, ValidateReads
    <3>2. Sound(StructuralRepair(Validate(d))) /\ StructuralRepair(Validate(d)) # <<>>
      BY <2>2, <3>1, RepairKeeps
    <3> QED  BY <1>2, <1>3, <2>2, <3>2
  <2> QED  BY <2>1, <2>2
<1>5. Sound(nodes)'
  BY <1>4 DEF Sound, Unique, IdsOf
<1>6. stage' = "sound" /\ UNCHANGED <<query, pool>>
  BY DEF Rewrite
<1> QED  BY <1>4, <1>5, <1>6 DEF StepsOK, Stages, Early

LEMMA HeuristicSteps ==
  ASSUME StepsOK, Heuristic
  PROVE  StepsOK'
<1> DEFINE hs == HeuristicParts(query)  ns == Cap(Merge(hs))
<1>1. query \in Queries /\ draft \in Seq(Item)
  BY DEF StepsOK
<1>2. nodes' = IF Len(query.parts) < 2 THEN <<WholeOf(query)>>
              ELSE IF ~query.serial THEN ns ELSE InRow(ns)
  BY DEF Heuristic, HeuristicParts, HeuristicPart, WholeOf, InRow
<1>3. Len(query.parts) \in Nat
  BY <1>1, PlannerAssumption
<1>4. Sound(nodes') /\ nodes' # <<>>
  <2>1. CASE Len(query.parts) < 2
    BY <1>1, <1>2, <2>1, WholePlan
  <2>2. CASE ~(Len(query.parts) < 2)
    <3>1. Sound(hs) /\ hs # <<>>
      BY <1>1, <1>3, <2>2, HeuristicPartsSound
    <3> HIDE DEF hs
    <3>2. Sound(Merge(hs)) /\ Merge(hs) # <<>>
      BY <3>1, MergeKeeps
    <3>3. Sound(ns) /\ ns # <<>>
      BY <3>2, CapKeeps
    <3> HIDE DEF ns
    <3>4. Sound(InRow(ns)) /\ InRow(ns) # <<>>
      BY <3>3, InRowSound
    <3> QED  BY <1>2, <2>2, <3>3, <3>4
  <2> QED  BY <2>1, <2>2
<1>5. Sound(nodes)'
  BY <1>4 DEF Sound, Unique, IdsOf
<1>6. stage' = "sound" /\ UNCHANGED <<query, pool, draft>>
  BY DEF Heuristic
<1> QED  BY <1>1, <1>4, <1>5, <1>6 DEF StepsOK, Stages, Early

LEMMA LayerSound ==
  ASSUME StepsOK, Layer
  PROVE  StepsOK' /\ nodes' = LayerSteps(nodes) /\ layers' = Layers(nodes)
<1>1. Sound(nodes) /\ nodes # <<>>
  BY DEF StepsOK, Layer, Early
<1>2. /\ nodes' = LayerSteps(nodes) /\ layers' = Layers(nodes) /\ stage' = "layered"
      /\ UNCHANGED <<query, pool, draft>>
  BY DEF Layer
<1>3. Sound(nodes') /\ Len(nodes') = Len(nodes)
  BY <1>1, <1>2, LayerStepsIs
<1>4. nodes' # <<>>
  <2>1. Len(nodes) # 0
    BY <1>1, EmptySeq DEF Sound
  <2> QED  BY <1>3, <2>1, EmptySeq
<1>5. Sound(nodes)'
  BY <1>3 DEF Sound, Unique, IdsOf
<1> QED  BY <1>2, <1>4, <1>5 DEF StepsOK, Stages, Early

LEMMA AssignSteps ==
  ASSUME StepsOK, AssignAll
  PROVE  StepsOK' /\ nodes' = Marked /\ Remarked(nodes, nodes')
<1>1. Sound(nodes) /\ nodes # <<>>
  BY DEF StepsOK, AssignAll, Early
<1>2. nodes' = Marked /\ stage' = "ready" /\ UNCHANGED <<query, pool, draft>>
  BY DEF AssignAll
<1>3. Remarked(nodes, nodes')
  BY <1>1, <1>2, MarkedIs
<1>4. Sound(nodes') /\ Len(nodes') = Len(nodes)
  BY <1>1, <1>3, RemarkedSound DEF Remarked
<1>5. nodes' # <<>>
  <2>1. Len(nodes) # 0
    BY <1>1, EmptySeq DEF Sound
  <2> QED  BY <1>4, <2>1, EmptySeq
<1>6. Sound(nodes)'
  BY <1>4 DEF Sound, Unique, IdsOf
<1> QED  BY <1>2, <1>3, <1>5, <1>6 DEF StepsOK, Stages, Early

LEMMA ReassignSteps ==
  ASSUME StepsOK, NEW i, NEW ban, Reassign(i, ban)
  PROVE  StepsOK'
<1>1. stage' = "running" /\ stage = "ready" /\ UNCHANGED <<query, pool, draft, nodes>>
  BY DEF Reassign
<1> QED  BY <1>1 DEF StepsOK, Sound, Unique, IdsOf, Stages, Early

LEMMA StepsStart ==
  ASSUME Init
  PROVE  StepsOK
<1>1. nodes = <<>> /\ draft = <<>> /\ stage = "ask" /\ query \in Queries /\ pool \in Pools
  BY DEF Init
<1> QED  BY <1>1, EmptySound, EmptySeq DEF StepsOK, Stages, Early

LEMMA StepsNext ==
  ASSUME StepsOK, [Next]_vars
  PROVE  StepsOK'
<1>1. CASE Think
  BY <1>1, ThinkSteps
<1>2. CASE Read
  BY <1>2, ReadSteps
<1>3. CASE Repair
  BY <1>3, RepairSteps
<1>4. CASE Rewrite
  BY <1>4, RewriteSteps
<1>5. CASE Heuristic
  BY <1>5, HeuristicSteps
<1>6. CASE Layer
  BY <1>6, LayerSound
<1>7. CASE AssignAll
  BY <1>7, AssignSteps
<1>8. CASE \E i \in 1..Len(nodes) : \E ban \in SUBSET Workers : Reassign(i, ban)
  BY <1>8, ReassignSteps
<1>9. CASE UNCHANGED vars
  BY <1>9 DEF StepsOK, vars, Sound, Unique, IdsOf
<1> QED  BY <1>1, <1>2, <1>3, <1>4, <1>5, <1>6, <1>7, <1>8, <1>9 DEF Next, Plan

(* At every stage the plan's steps have ids of their own and depend on     *)
(* each other only, and once the planner has a plan, there are steps.      *)
THEOREM StepsAreSound == Spec => []StepsOK
<1>1. Init => StepsOK
  BY StepsStart
<1>2. StepsOK /\ [Next]_vars => StepsOK'
  BY StepsNext
<1> QED  BY <1>1, <1>2, PTL DEF Spec

(* Reading a draft loses nothing usable (_validate_dag), for every draft.  *)
THEOREM ReadsAreFaithful == Spec => []ReadsFaithfully
<1> DEFINE Inv == StepsOK /\ ReadsFaithfully
<1>1. Init => Inv
  BY StepsStart DEF Init, ReadsFaithfully
<1>2. Inv /\ [Next]_vars => Inv'
  <2> SUFFICES ASSUME StepsOK, ReadsFaithfully, [Next]_vars  PROVE StepsOK' /\ ReadsFaithfully'
    OBVIOUS
  <2>0. StepsOK'
    BY StepsNext
  <2>1. CASE Read
    <3>1. nodes' = Validate(draft) /\ draft' = draft /\ draft \in Seq(Item)
      BY <2>1, ReadSteps DEF StepsOK
    <3>2. ReadOf(draft, nodes')
      BY <3>1, ValidateReads
    <3>3. Usable(draft') = Usable(draft) /\ Declared(draft') = Declared(draft)
          /\ Linked(Masked(draft')) = Linked(Masked(draft))
      BY <3>1
    <3>4. ReadsFaithfully'
      BY <3>1, <3>2, <3>3 DEF ReadsFaithfully, ReadOf, Masked
    <3> QED  BY <2>0, <3>4
  <2>2. CASE ~Read /\ ~UNCHANGED vars
    <3>1. stage' # "valid"
      BY <2>2 DEF Next, Plan, Think, Repair, Rewrite, Heuristic, Layer, AssignAll, Reassign
    <3> QED  BY <2>0, <3>1 DEF ReadsFaithfully
  <2>3. CASE UNCHANGED vars
    <3>1. UNCHANGED <<stage, nodes, draft>>
      BY <2>3 DEF vars
    <3> QED  BY <2>0, <3>1 DEF ReadsFaithfully
  <2> QED  BY <2>1, <2>2, <2>3
<1>3. Inv => ReadsFaithfully
  OBVIOUS
<1> QED  BY <1>1, <1>2, <1>3, PTL DEF Spec

(* Repair only adds to the order of the steps it keeps (merge_fragment_    *)
(* subtasks, cap_subtasks, infer_dependencies), and there are never more   *)
(* than the cap afterwards.                                                *)
THEOREM RepairOnlyAdds == Spec => RepairAdds
<1>1. StepsOK /\ [Next]_vars =>
        [stage = "valid" /\ stage' # "valid" =>
           /\ IdsOf(nodes)' \subseteq IdsOf(nodes) /\ Len(nodes') <= MaxSteps
           /\ \A i \in 1..Len(nodes) : \A j \in 1..Len(nodes') :
                nodes[i].id = nodes'[j].id =>
                  nodes[i].deps \intersect IdsOf(nodes') \subseteq nodes'[j].deps]_vars
  <2> SUFFICES ASSUME StepsOK, [Next]_vars, stage = "valid", stage' # "valid"
               PROVE  /\ IdsOf(nodes)' \subseteq IdsOf(nodes) /\ Len(nodes') <= MaxSteps
                      /\ \A i \in 1..Len(nodes) : \A j \in 1..Len(nodes') :
                           nodes[i].id = nodes'[j].id =>
                             nodes[i].deps \intersect IdsOf(nodes') \subseteq nodes'[j].deps
    OBVIOUS
  <2>1. Repair
    BY DEF Next, Plan, Think, Read, Rewrite, Heuristic, Layer, AssignAll, Reassign, vars
  <2>2. Keeps(nodes, nodes') /\ Len(nodes') <= MaxSteps
    BY <2>1, RepairSteps
  <2>3. IdsOf(nodes)' = IdsOf(nodes')
    BY DEF IdsOf
  <2> QED  BY <2>2, <2>3 DEF Keeps
<1> QED  BY <1>1, StepsAreSound, PTL DEF Spec, RepairAdds

-----------------------------------------------------------------------------
(* Picking workers *)

LEMMA PoolType ==
  ASSUME NEW p \in Pools
  PROVE  p.health \subseteq Workers /\ p.merit \in [SUBSET Tags -> [Workers -> Int]]
BY PlannerAssumption

LEMMA TagsType ==
  ASSUME NEW s \in Item
  PROVE  TagsOf(s) \in SUBSET Tags
<1>1. s.tags \in SUBSET Tags
  BY DEF Item
<1> QED  BY <1>1, TagAssumption DEF TagsOf

(* The workers have places of their own in the order of their ids.         *)
LEMMA IndexIs ==
  ASSUME NEW w \in Workers
  PROVE  Index(w) \in 1..Len(ById) /\ ById[Index(w)] = w
<1>1. ToSet(ById) = {ById[i] : i \in 1..Len(ById)}
  BY WorkerAssumption, ToSetIs
<1>2. \E i \in 1..Len(ById) : ById[i] = w
  BY <1>1, WorkerAssumption
<1> QED  BY <1>2 DEF Index

LEMMA IndexApart ==
  ASSUME NEW w \in Workers, NEW v \in Workers, w # v
  PROVE  Index(w) \in Nat /\ Index(v) \in Nat /\ Index(w) # Index(v)
<1>1. Len(ById) \in Nat
  BY WorkerAssumption
<1> QED  BY <1>1, IndexIs

(* The values of a function on finitely many workers.                      *)
LEMMA FiniteImage ==
  ASSUME NEW S, IsFiniteSet(S), NEW f
  PROVE  IsFiniteSet({f[x] : x \in S})
<1> DEFINE T == {f[x] : x \in S}  g == [x \in S |-> f[x]]
<1>1. g \in Surjection(S, T)
  BY DEF Surjection
<1> HIDE DEF g, T
<1>2. IsFiniteSet(T)
  BY <1>1, FS_Surjection
<1> QED  BY <1>2 DEF T

(* Of some workers one comes before all others.                            *)
LEMMA ForemostIs ==
  ASSUME NEW S \in SUBSET Workers, S # {},
         NEW usage \in [Workers -> Nat], NEW score \in [Workers -> Int]
  PROVE  /\ Foremost(S, usage, score) \in S
         /\ \A v \in S \ {Foremost(S, usage, score)} : Better(usage, score, Foremost(S, usage, score), v)
<1> DEFINE us == {usage[w] : w \in S}
           A == {w \in S : \A v \in S : usage[w] <= usage[v]}
           ss == {score[w] : w \in A}
           B == {w \in A : \A v \in A : score[v] <= score[w]}
           is == {Index(w) : w \in B}
<1>1. A # {}
  <2>1. us \in SUBSET Nat /\ us # {}
    OBVIOUS
  <2>2. PICK m \in us : \A x \in us : m <= x
    <3> HIDE DEF us
    <3> QED  BY <2>1, Least
  <2>3. PICK w \in S : usage[w] = m
    BY <2>2
  <2>4. w \in A
    BY <2>2, <2>3
  <2> QED  BY <2>4
<1>2. B # {}
  <2>1. ss \in SUBSET Int /\ ss # {}
    BY <1>1
  <2>2. IsFiniteSet(A)
    <3>1. A \in SUBSET Workers
      OBVIOUS
    <3> QED  BY <3>1, WorkerAssumption, FS_Subset
  <2>3. IsFiniteSet(ss)
    <3> HIDE DEF A
    <3> QED  BY <2>2, FiniteImage
  <2>4. Max(ss) \in ss /\ \A x \in ss : x <= Max(ss)
    <3> HIDE DEF ss
    <3> QED  BY <2>1, <2>3, MaxIs
  <2>5. PICK w \in A : score[w] = Max(ss)
    BY <2>4
  <2>6. w \in B
    BY <2>4, <2>5
  <2> QED  BY <2>6
<1>3. PICK w \in B : \A v \in B : Index(w) <= Index(v)
  <2>0. \A v \in B : Index(v) \in Nat
    <3>1. Len(ById) \in Nat /\ B \subseteq Workers
      BY WorkerAssumption
    <3> QED  BY <3>1, IndexIs
  <2>1. is \in SUBSET Nat /\ is # {}
    BY <1>2, <2>0
  <2>2. PICK m \in is : \A x \in is : m <= x
    <3> HIDE DEF is
    <3> QED  BY <2>1, Least
  <2>3. PICK v \in B : Index(v) = m
    BY <2>2
  <2> QED  BY <2>2, <2>3
<1>4. ASSUME NEW v \in S \ {w}  PROVE Better(usage, score, w, v)
  <2>1. w \in S /\ usage[w] <= usage[v] /\ usage[w] \in Nat /\ usage[v] \in Nat
    BY <1>3
  <2>2. CASE usage[w] < usage[v]
    BY <2>2 DEF Better
  <2>3. CASE usage[w] = usage[v]
    <3>1. v \in A
      BY <1>3, <2>3
    <3>2. score[v] <= score[w] /\ score[v] \in Int /\ score[w] \in Int
      BY <1>3, <3>1
    <3>3. CASE score[v] < score[w]
      BY <2>3, <3>3, <3>2 DEF Better
    <3>4. CASE score[v] = score[w]
      <4>1. v \in B
        BY <1>3, <3>1, <3>4
      <4>2. Index(w) <= Index(v) /\ Index(w) \in Nat /\ Index(v) \in Nat /\ Index(w) # Index(v)
        BY <1>3, <4>1, IndexApart
      <4>3. Index(w) < Index(v)
        BY <4>2
      <4> QED  BY <2>3, <3>4, <4>3 DEF Better
    <3> QED  BY <3>2, <3>3, <3>4
  <2> QED  BY <2>1, <2>2, <2>3
<1>5. w \in S
  BY <1>3
<1> HIDE DEF A, B
<1>6. \E x \in S : \A v \in S \ {x} : Better(usage, score, x, v)
  BY <1>4, <1>5
<1> QED  BY <1>6 DEF Foremost

LEMMA MostIs ==
  ASSUME NEW usage \in [Workers -> Nat]
  PROVE  Most(usage) \in Nat \ {0} /\ \A v \in Workers : usage[v] <= Most(usage)
<1> DEFINE us == {usage[v] : v \in Workers}  S == {1} \union us
<1>1. IsFiniteSet(us)
  BY WorkerAssumption, FiniteImage
<1>2. S \in SUBSET Int /\ S # {}
  OBVIOUS
<1>3. IsFiniteSet(S)
  <2> HIDE DEF us
  <2>1. IsFiniteSet(us \union {1})
    BY <1>1, FS_AddElement
  <2>2. us \union {1} = S
    OBVIOUS
  <2> QED  BY <2>1, <2>2
<1>4. Max(S) \in S /\ \A x \in S : x <= Max(S)
  <2> HIDE DEF S
  <2> QED  BY <1>2, <1>3, MaxIs
<1>5. 1 \in S /\ \A v \in Workers : usage[v] \in S
  OBVIOUS
<1>6. Max(S) \in Nat
  BY <1>4
<1> HIDE DEF S
<1>7. Max(S) # 0
  BY <1>4, <1>5
<1>8. Most(usage) = Max(S)
  BY DEF Most, S
<1> QED  BY <1>4, <1>5, <1>6, <1>7, <1>8

LEMMA EligibleIs ==
  ASSUME NEW cands \in SUBSET Workers, cands # {}, NEW health
  PROVE  /\ Eligible(cands, health) \subseteq cands /\ Eligible(cands, health) # {}
         /\ cands \intersect health # {} => Eligible(cands, health) \subseteq health
BY DEF Eligible

(* The best of some workers is in their band.                              *)
LEMMA InBandIs ==
  ASSUME NEW S \in SUBSET Workers, S # {},
         NEW usage \in [Workers -> Nat], NEW score \in [Workers -> Int]
  PROVE  InBand(S, score, usage) \subseteq S /\ InBand(S, score, usage) # {}
<1> DEFINE ss == {score[v] : v \in S}
<1>1. IsFiniteSet(S)
  BY WorkerAssumption, FS_Subset
<1>2. ss \in SUBSET Int /\ ss # {} /\ IsFiniteSet(ss)
  <2>1. IsFiniteSet(ss)
    BY <1>1, FiniteImage
  <2> QED  BY <2>1
<1>3. Max(ss) \in ss
  <2> HIDE DEF ss
  <2> QED  BY <1>2, MaxIs
<1>4. PICK w \in S : score[w] = Max(ss)
  BY <1>3
<1>5. Most(usage) \in Nat
  BY MostIs
<1>6. score[w] >= Max(ss) - Band * Most(usage)
  <2>1. score[w] \in Int /\ Band * Most(usage) \in Nat
    BY <1>5 DEF Band
  <2> HIDE DEF ss
  <2> QED  BY <1>4, <2>1
<1>7. w \in InBand(S, score, usage)
  BY <1>6 DEF InBand
<1> QED  BY <1>7 DEF InBand

LEMMA ScoreType ==
  ASSUME NEW merit \in [Workers -> Int], NEW usage \in [Workers -> Nat]
  PROVE  [w \in Workers |-> Score(w, merit, usage)] \in [Workers -> Int]
<1>1. Most(usage) \in Int
  BY MostIs
<1>2. ASSUME NEW w \in Workers  PROVE Score(w, merit, usage) \in Int
  <2>1. merit[w] \in Int /\ usage[w] \in Int
    OBVIOUS
  <2>2. merit[w] * Most(usage) \in Int /\ LoadWeight * usage[w] \in Int
    BY <1>1, <2>1 DEF LoadWeight
  <2> QED  BY <2>2 DEF Score
<1> QED  BY <1>2

Portions == [picks : Seq(Workers), usage : [Workers -> Nat]]

Took(acc, w, up) ==
  up = [picks |-> Append(acc.picks, w), usage |-> [acc.usage EXCEPT ![w] = @ + 1]]

(* The worker who is picked is left, and nobody who is left is used less.  *)
LEMMA PickIs ==
  ASSUME NEW acc \in Portions, NEW band \in SUBSET Workers, NEW score \in [Workers -> Int],
         NEW share \in Int, band \ ToSet(acc.picks) # {}
  PROVE  \E w \in band \ ToSet(acc.picks) :
           /\ Took(acc, w, Pick(acc, band, score, share))
           /\ \A v \in band \ ToSet(acc.picks) : acc.usage[w] <= acc.usage[v]
<1> DEFINE left == band \ ToSet(acc.picks)
           under == {w \in left : acc.usage[w] < share}
           S == IF under = {} THEN left ELSE under
           w == Foremost(S, acc.usage, score)
<1>1. acc.usage \in [Workers -> Nat] /\ left \in SUBSET Workers
  BY DEF Portions
<1>2. S \in SUBSET Workers /\ S # {} /\ S \subseteq left
  BY <1>1
<1>3. w \in S /\ \A v \in S \ {w} : Better(acc.usage, score, w, v)
  <2> HIDE DEF S
  <2> QED  BY <1>1, <1>2, ForemostIs
<1>4. Took(acc, w, Pick(acc, band, score, share))
  BY DEF Pick, Took
<1> HIDE DEF w
<1>5. ASSUME NEW v \in left  PROVE acc.usage[w] <= acc.usage[v]
  <2>1. w \in left /\ acc.usage[w] \in Nat /\ acc.usage[v] \in Nat
    BY <1>1, <1>2, <1>3
  <2>2. CASE v \in S
    <3>1. v = w \/ Better(acc.usage, score, w, v)
      BY <1>3, <2>2
    <3> QED  BY <2>1, <3>1 DEF Better
  <2>3. CASE v \notin S
    <3>1. w \in under /\ v \notin under
      BY <1>3, <2>3
    <3>2. acc.usage[w] < share /\ ~(acc.usage[v] < share)
      BY <3>1
    <3> QED  BY <2>1, <3>2
  <2> QED  BY <2>2, <2>3
<1>6. w \in left
  BY <1>2, <1>3
<1> HIDE DEF left
<1> QED  BY <1>4, <1>5, <1>6 DEF left

LEMMA PickType ==
  ASSUME NEW acc \in Portions, NEW band \in SUBSET Workers, NEW score \in [Workers -> Int],
         NEW share \in Int
  PROVE  Pick(acc, band, score, share) \in Portions
<1>1. CASE band \ ToSet(acc.picks) = {}
  BY <1>1 DEF Pick
<1>2. CASE band \ ToSet(acc.picks) # {}
  <2>1. PICK w \in band \ ToSet(acc.picks) : Took(acc, w, Pick(acc, band, score, share))
    BY <1>2, PickIs
  <2>2. Append(acc.picks, w) \in Seq(Workers) /\ [acc.usage EXCEPT ![w] = @ + 1] \in [Workers -> Nat]
    <3>1. acc.picks \in Seq(Workers) /\ acc.usage \in [Workers -> Nat] /\ w \in Workers
      BY DEF Portions
    <3> QED  BY <3>1
  <2> QED  BY <2>1, <2>2 DEF Portions, Took
<1> QED  BY <1>1, <1>2

ScoresOf(merit, usage) == [w \in Workers |-> Score(w, merit, usage)]
BandOf(cands, merit, health, usage) ==
  InBand(Eligible(cands, health), ScoresOf(merit, usage), usage)
ShareOf(size) == Max({1, size \div 2})

LEMMA ShareType ==
  ASSUME NEW size \in Nat
  PROVE  ShareOf(size) \in Int
<1> DEFINE S == {1, size \div 2}
<1>1. S \in SUBSET Int /\ S # {}
  OBVIOUS
<1>2. IsFiniteSet(S)
  <2>1. IsFiniteSet({1}) /\ IsFiniteSet({size \div 2})
    BY FS_Singleton
  <2>2. S = {1} \union {size \div 2}
    OBVIOUS
  <2> HIDE DEF S
  <2> QED  BY <2>1, <2>2, FS_Union
<1>3. Max(S) \in S
  <2> HIDE DEF S
  <2> QED  BY <1>1, <1>2, MaxIs
<1> QED  BY <1>1, <1>3 DEF ShareOf

(* Picking is repeated k times.                                            *)
Picking(h, band, score, share, usage, k) ==
  /\ h[0] = [picks |-> <<>>, usage |-> usage]
  /\ \A j \in 1..k : h[j] = Pick(h[j - 1], band, score, share)

LEMMA AssignRuns ==
  ASSUME NEW cands \in SUBSET Workers, cands # {}, NEW k \in Nat, NEW merit \in [Workers -> Int],
         NEW health, NEW usage \in [Workers -> Nat], NEW size \in Nat
  PROVE  \E h : /\ Picking(h, BandOf(cands, merit, health, usage), ScoresOf(merit, usage),
                          ShareOf(size), usage, k)
                /\ AssignK(cands, k, merit, health, usage, size) = h[k]
<1> DEFINE n == k
           V == Portions
           base == [picks |-> <<>>, usage |-> usage]
           band == BandOf(cands, merit, health, usage)
           score == ScoresOf(merit, usage)
           share == ShareOf(size)
           G == [j \in 1..n |-> [v \in V |-> Pick(v, band, score, share)]]
           s == [j \in 1..n |-> j]
           Eq(it) == [P \in SUBSET (1..n) |->
                        IF P = {} THEN base ELSE Pick(it[P \ {Max(P)}], band, score, share)]
           F == CHOOSE it : it = Eq(it)
           h == [j \in 0..n |-> F[1..j]]
<1>n. n \in Nat /\ DOMAIN s = 1..n
  OBVIOUS
<1>e. Eligible(cands, health) \in SUBSET Workers /\ Eligible(cands, health) # {}
  BY EligibleIs
<1>1. AssignK(cands, k, merit, health, usage, size) = F[1..n]
  <2>1. AssignK(cands, k, merit, health, usage, size)
          = FoldLeft(LAMBDA acc, i : Pick(acc, band, score, share), base, s)
    BY <1>e DEF AssignK, BandOf, ScoresOf, ShareOf
  <2> HIDE DEF band, score, share
  <2>2. FoldLeft(LAMBDA acc, i : Pick(acc, band, score, share), base, s) = F[1..n]
    BY <1>n DEF FoldLeft, MapThenFoldSet
  <2> QED  BY <2>1, <2>2
<1>t. score \in [Workers -> Int] /\ share \in Int /\ band \in SUBSET Workers
  <2>1. score \in [Workers -> Int]
    BY ScoreType DEF ScoresOf
  <2>2. share \in Int
    BY ShareType
  <2>3. InBand(Eligible(cands, health), score, usage) \subseteq Eligible(cands, health)
    <3> HIDE DEF score
    <3> QED  BY <1>e, <2>1, InBandIs
  <2> QED  BY <1>e, <2>1, <2>2, <2>3 DEF BandOf
<1> HIDE DEF band, score, share
<1>2. G \in [1..n -> [V -> V]] /\ base \in V
  <2>1. \A v \in V : Pick(v, band, score, share) \in V
    BY <1>t, PickType
  <2>2. base \in V
    BY EmptySeq DEF Portions
  <2> QED  BY <2>1, <2>2
<1>3. PICK it \in [SUBSET (1..n) -> V] :
        \A P \in SUBSET (1..n) : it[P] = FoldBy(G, base, it, P)
  <2> HIDE DEF G, V, n, base
  <2>2. PICK it : Computes(n, V, G, base, it)
    BY <1>n, <1>2, FoldsExist
  <2> QED  BY <2>2 DEF Computes
<1>4. it = Eq(it)
  <2>1. ASSUME NEW P \in SUBSET (1..n), P # {}
        PROVE  it[P] = Pick(it[P \ {Max(P)}], band, score, share)
    <3>1. Max(P) \in 1..n
      BY <1>n, <2>1, MaxOfPositions
    <3>2. it[P \ {Max(P)}] \in V
      OBVIOUS
    <3> QED  BY <1>3, <2>1, <3>1, <3>2 DEF FoldBy
  <2>2. it[{}] = base
    BY <1>3 DEF FoldBy
  <2> QED  BY <2>1, <2>2
<1>5. F = Eq(F)
  BY <1>4
<1>6. h[0] = base
  <2>1. F[{}] = base
    <3> HIDE DEF F, base
    <3> QED  BY <1>5
  <2>2. 1..0 = {} /\ 0 \in 0..n
    BY <1>n
  <2> HIDE DEF F, base
  <2> QED  BY <2>1, <2>2
<1>7. ASSUME NEW j \in 1..n
      PROVE  h[j] = Pick(h[j - 1], band, score, share)
  <2>1. /\ 1..j \in SUBSET (1..n) /\ 1..j # {} /\ Max(1..j) = j
        /\ (1..j) \ {j} = 1..(j - 1)
    BY <1>n, FirstPositions
  <2>2. F[1..j] = Pick(F[1..(j - 1)], band, score, share)
    <3> HIDE DEF F
    <3> QED  BY <1>5, <2>1
  <2>3. j \in 0..n /\ j - 1 \in 0..n
    BY <1>n
  <2> HIDE DEF F
  <2> QED  BY <2>2, <2>3
<1>8. AssignK(cands, k, merit, health, usage, size) = h[n]
  <2>1. n \in 0..n
    BY <1>n
  <2> HIDE DEF F
  <2> QED  BY <1>1, <2>1
<1> HIDE DEF h
<1>9. Picking(h, band, score, share, usage, k)
  BY <1>6, <1>7 DEF Picking
<1> QED  BY <1>8, <1>9 DEF band, score, share

(* What comes of it: people of the band, nobody twice, at least one of     *)
(* them if one is asked for; and everybody's load counts.                  *)
PickedOf(band, usage, j, acc) ==
  /\ acc \in Portions /\ acc.picks \in Seq(band) /\ NoRepeats(acc.picks)
  /\ j # 0 => acc.picks # <<>>
  /\ \A w \in Workers : acc.usage[w] = usage[w] + (IF w \in ToSet(acc.picks) THEN 1 ELSE 0)

LEMMA PickedNext ==
  ASSUME NEW band \in SUBSET Workers, band # {}, NEW score \in [Workers -> Int], NEW share \in Int,
         NEW usage \in [Workers -> Nat], NEW j \in Nat, NEW acc, PickedOf(band, usage, j, acc)
  PROVE  PickedOf(band, usage, j + 1, Pick(acc, band, score, share))
<1> DEFINE up == Pick(acc, band, score, share)  left == band \ ToSet(acc.picks)
<1>1. acc \in Portions /\ acc.picks \in Seq(band) /\ acc.usage \in [Workers -> Nat]
  BY DEF PickedOf, Portions
<1>2. up \in Portions
  BY <1>1, PickType
<1>3. CASE left = {}
  <2>1. up = acc
    BY <1>3 DEF Pick
  <2>2. acc.picks # <<>>
    <3>1. acc.picks = <<>> => ToSet(acc.picks) = {}
      BY DEF ToSet
    <3> QED  BY <1>3, <3>1
  <2> QED  BY <2>1, <2>2 DEF PickedOf
<1>4. CASE left # {}
  <2>1. PICK w \in left : Took(acc, w, up)
    BY <1>1, <1>4, PickIs
  <2> DEFINE ps == Append(acc.picks, w)
  <2>2. up.picks = ps /\ up.usage = [acc.usage EXCEPT ![w] = @ + 1]
    BY <2>1 DEF Took
  <2>3. /\ ps \in Seq(band) /\ Len(acc.picks) \in Nat /\ Len(ps) = Len(acc.picks) + 1
        /\ ps[Len(acc.picks) + 1] = w /\ \A p \in 1..Len(acc.picks) : ps[p] = acc.picks[p]
    BY <1>1, <2>1
  <2> HIDE DEF ps
  <2>4. ToSet(acc.picks) = {acc.picks[p] : p \in 1..Len(acc.picks)} /\ ToSet(ps) = {ps[p] : p \in 1..Len(ps)}
    <3> HIDE DEF left
    <3>1. \A s \in Seq(band) : ToSet(s) = {s[p] : p \in 1..Len(s)}
      BY ToSetIs
    <3>2. acc.picks \in Seq(band) /\ ps \in Seq(band)
      BY <1>1, <2>3
    <3> QED  BY <3>1, <3>2
  <2>5. \A p \in 1..Len(ps) : p = Len(acc.picks) + 1 \/ p \in 1..Len(acc.picks)
    <3>1. Len(acc.picks) \in Nat /\ Len(ps) = Len(acc.picks) + 1
      BY <2>3
    <3> QED  BY <3>1
  <2>6. Len(acc.picks) + 1 \in 1..Len(ps) /\ 1..Len(acc.picks) \subseteq 1..Len(ps)
    <3>1. PICK m \in Nat : m = Len(acc.picks) /\ Len(ps) = m + 1
      BY <2>3
    <3>2. m + 1 \in 1..(m + 1) /\ 1..m \subseteq 1..(m + 1)
      OBVIOUS
    <3> QED  BY <3>1, <3>2
  <2>7. ToSet(ps) = ToSet(acc.picks) \union {w}
    BY <2>3, <2>4, <2>5, <2>6
  <2>8. NoRepeats(ps)
    <3> SUFFICES ASSUME NEW p \in 1..Len(ps), NEW q \in 1..Len(ps), ps[p] = ps[q]  PROVE p = q
      BY DEF NoRepeats
    <3>1. \A x \in 1..Len(acc.picks) : acc.picks[x] # w
      BY <2>1, <2>4
    <3>2. CASE p \in 1..Len(acc.picks) /\ q \in 1..Len(acc.picks)
      BY <2>3, <3>2 DEF PickedOf, NoRepeats
    <3> QED  BY <2>3, <2>5, <3>1, <3>2
  <2>9. ps # <<>>
    BY <2>3, EmptySeq
  <2>10. ASSUME NEW v \in Workers
         PROVE  up.usage[v] = usage[v] + (IF v \in ToSet(ps) THEN 1 ELSE 0)
    <3>1. acc.usage[v] = usage[v] + (IF v \in ToSet(acc.picks) THEN 1 ELSE 0) /\ usage[v] \in Nat
      BY DEF PickedOf
    <3>2. up.usage[v] = IF v = w THEN acc.usage[v] + 1 ELSE acc.usage[v]
      BY <1>1, <2>2
    <3>3. w \notin ToSet(acc.picks)
      BY <2>1
    <3> QED  BY <2>7, <3>1, <3>2, <3>3
  <2> QED  BY <1>2, <2>2, <2>3, <2>8, <2>9, <2>10 DEF PickedOf
<1> QED  BY <1>3, <1>4

LEMMA AssignIs ==
  ASSUME NEW cands \in SUBSET Workers, cands # {}, NEW k \in Nat, NEW merit \in [Workers -> Int],
         NEW health, NEW usage \in [Workers -> Nat], NEW size \in Nat
  PROVE  /\ PickedOf(BandOf(cands, merit, health, usage), usage, k,
                     AssignK(cands, k, merit, health, usage, size))
         /\ BandOf(cands, merit, health, usage) \subseteq Eligible(cands, health)
         /\ BandOf(cands, merit, health, usage) \subseteq Workers
<1> DEFINE band == BandOf(cands, merit, health, usage)
           score == ScoresOf(merit, usage)
           share == ShareOf(size)
<1>0. PICK h : /\ Picking(h, band, score, share, usage, k)
               /\ AssignK(cands, k, merit, health, usage, size) = h[k]
  BY AssignRuns
<1>1. /\ h[0] = [picks |-> <<>>, usage |-> usage]
      /\ AssignK(cands, k, merit, health, usage, size) = h[k]
      /\ \A j \in 1..k : h[j] = Pick(h[j - 1], band, score, share)
  BY <1>0 DEF Picking
<1>2. score \in [Workers -> Int] /\ share \in Int
  BY ScoreType, ShareType DEF ScoresOf
<1>3. band \in SUBSET Workers /\ band # {} /\ band \subseteq Eligible(cands, health)
  <2>1. Eligible(cands, health) \in SUBSET Workers /\ Eligible(cands, health) # {}
    BY EligibleIs
  <2> HIDE DEF score
  <2>2. InBand(Eligible(cands, health), score, usage) \subseteq Eligible(cands, health)
        /\ InBand(Eligible(cands, health), score, usage) # {}
    BY <1>2, <2>1, InBandIs
  <2> QED  BY <2>1, <2>2 DEF BandOf, score
<1> HIDE DEF band, score, share
<1> DEFINE Js == {j \in Nat : j <= k => PickedOf(band, usage, j, h[j])}
<1>4. 0 \in Js
  <2>1. h[0].picks = <<>> /\ h[0].usage = usage
    BY <1>1
  <2>2. h[0] \in Portions /\ <<>> \in Seq(band)
    BY <1>1, EmptySeq DEF Portions
  <2>3. ToSet(h[0].picks) = {}
    BY <2>1 DEF ToSet
  <2>4. NoRepeats(h[0].picks)
    <3>1. \A p \in 1..Len(h[0].picks) : FALSE
      BY <2>1
    <3> QED  BY <3>1 DEF NoRepeats
  <2>5. PickedOf(band, usage, 0, h[0])
    BY <2>1, <2>2, <2>3, <2>4 DEF PickedOf
  <2> QED  BY <2>5
<1>5. ASSUME NEW j \in Js  PROVE j + 1 \in Js
  <2>n. j \in Nat /\ j + 1 \in Nat
    BY <1>5
  <2> SUFFICES ASSUME j + 1 <= k  PROVE PickedOf(band, usage, j + 1, h[j + 1])
    BY <2>n
  <2>1. j <= k /\ j + 1 \in 1..k /\ (j + 1) - 1 = j
    BY <2>n
  <2>2. PickedOf(band, usage, j, h[j]) /\ h[j + 1] = Pick(h[j], band, score, share)
    BY <1>1, <1>5, <2>1
  <2> QED  BY <1>2, <1>3, <2>n, <2>2, PickedNext
<1>6. Js = Nat
  <2> HIDE DEF Js
  <2>1. Js \in SUBSET Nat
    BY DEF Js
  <2> QED  BY <1>4, <1>5, <2>1, SetInduction
<1>7. PickedOf(band, usage, k, h[k])
  <2>1. k \in Js /\ k <= k
    BY <1>6
  <2> QED  BY <2>1
<1>8. PickedOf(band, usage, k, AssignK(cands, k, merit, health, usage, size))
  BY <1>1, <1>7
<1>9. band \subseteq Eligible(cands, health) /\ band \subseteq Workers
  BY <1>3
<1> QED  BY <1>8, <1>9 DEF band

-----------------------------------------------------------------------------
(* Dealing the steps *)

LEMMA CandidatesAre ==
  ASSUME NEW testing, NEW coders \in SUBSET Workers
  PROVE  Candidates(testing, coders) \in SUBSET Workers /\ Candidates(testing, coders) # {}
<1>1. CASE Candidates(testing, coders) = Workers
  BY <1>1, WorkerAssumption
<1>2. CASE Candidates(testing, coders) # Workers
  <2>1. Candidates(testing, coders) = coders /\ Cardinality(coders) >= 2
    BY <1>2 DEF Candidates
  <2>2. coders # {}
    BY <2>1, FS_EmptySet
  <2> QED  BY <2>1, <2>2
<1> QED  BY <1>1, <1>2

Shares(s) == IF s.critical THEN 2 ELSE 1
StepBand(s, usage) ==
  BandOf(Candidates(Testing(s), Coders), MeritFor(s), pool.health, usage)

LEMMA MeritType ==
  ASSUME pool \in Pools, NEW s \in Item
  PROVE  MeritFor(s) \in [Workers -> Int]
BY PoolType, TagsType DEF MeritFor

(* The team of a step.                                                     *)
LEMMA TeamIs ==
  ASSUME pool \in Pools, NEW s \in Item, NEW usage \in [Workers -> Nat], NEW size \in Nat
  PROVE  /\ PickedOf(StepBand(s, usage), usage, Shares(s), Team(s, usage, size))
         /\ StepBand(s, usage) \subseteq Eligible(Candidates(Testing(s), Coders), pool.health)
         /\ StepBand(s, usage) \subseteq Workers
<1> DEFINE cands == Candidates(Testing(s), Coders)  merit == MeritFor(s)
<1>1. Coders \in SUBSET Workers /\ merit \in [Workers -> Int]
  BY MeritType DEF Coders
<1>2. cands \in SUBSET Workers /\ cands # {}
  BY <1>1, CandidatesAre
<1>3. Shares(s) \in Nat
  BY DEF Shares
<1>4. Team(s, usage, size) = AssignK(cands, Shares(s), merit, pool.health, usage, size)
  BY DEF Team, Shares
<1> HIDE DEF cands, merit
<1>5. /\ PickedOf(BandOf(cands, merit, pool.health, usage), usage, Shares(s),
                  AssignK(cands, Shares(s), merit, pool.health, usage, size))
      /\ BandOf(cands, merit, pool.health, usage) \subseteq Eligible(cands, pool.health)
      /\ BandOf(cands, merit, pool.health, usage) \subseteq Workers
  BY <1>1, <1>2, <1>3, AssignIs
<1>6. StepBand(s, usage) = BandOf(cands, merit, pool.health, usage)
  BY DEF StepBand, cands, merit
<1> QED  BY <1>4, <1>5, <1>6 DEF cands

(* Loads that differ by one at most stay so, among equals: everybody is in *)
(* the band, the first who is picked is one of the least used, and is then *)
(* one of the most used, so that the second is one of the least used too.  *)
Even(usage) == \A w, v \in Workers : usage[w] <= usage[v] + 1

LEMMA BandAll ==
  ASSUME NEW merit \in [Workers -> Int], \A w, v \in Workers : merit[w] = merit[v],
         NEW usage \in [Workers -> Nat], Even(usage)
  PROVE  BandOf(Workers, merit, Workers, usage) = Workers
<1>0. PICK score \in [Workers -> Int] : score = ScoresOf(merit, usage)
  BY ScoreType DEF ScoresOf
<1> DEFINE ss == {score[v] : v \in Workers}  M == Most(usage)
<1>1. Eligible(Workers, Workers) = Workers
  BY DEF Eligible
<1>2. BandOf(Workers, merit, Workers, usage) = {w \in Workers : score[w] >= Max(ss) - Band * M}
  BY <1>0, <1>1 DEF BandOf, InBand
<1>4. M \in Nat \ {0}
  BY MostIs
<1>5. \A w \in Workers : score[w] = merit[w] * M - LoadWeight * usage[w]
  BY <1>0 DEF ScoresOf, Score
<1> HIDE DEF M
<1>6. Max(ss) \in ss
  <2>1. ss \in SUBSET Int /\ ss # {}
    BY WorkerAssumption
  <2>2. IsFiniteSet(ss)
    BY WorkerAssumption, FiniteImage
  <2> HIDE DEF ss
  <2> QED  BY <2>1, <2>2, MaxIs
<1>7. PICK v \in Workers : score[v] = Max(ss)
  BY <1>6
<1> HIDE DEF ss
<1>8. ASSUME NEW w \in Workers  PROVE score[w] >= Max(ss) - Band * M
  <2>1. PICK x \in Int : x = merit[w] * M /\ x = merit[v] * M
    <3>1. merit[w] \in Int /\ M \in Int /\ merit[w] = merit[v]
      BY <1>4
    <3>2. merit[w] * M \in Int
      BY <3>1
    <3> QED  BY <3>1, <3>2
  <2>2. score[w] = x - 3 * usage[w] /\ score[v] = x - 3 * usage[v]
    BY <1>5, <2>1 DEF LoadWeight
  <2>3. usage[w] <= usage[v] + 1 /\ usage[w] \in Nat /\ usage[v] \in Nat
    BY DEF Even
  <2>4. score[w] >= score[v] - 4 * M
    BY <1>4, <2>2, <2>3
  <2> QED  BY <1>7, <2>4 DEF Band
<1> QED  BY <1>2, <1>8

LEMMA PickEven ==
  ASSUME NEW acc \in Portions, Even(acc.usage), NEW score \in [Workers -> Int], NEW share \in Int,
         \A x \in ToSet(acc.picks) : \A v \in Workers : acc.usage[v] <= acc.usage[x]
  PROVE  Even(Pick(acc, Workers, score, share).usage)
<1> DEFINE left == Workers \ ToSet(acc.picks)  up == Pick(acc, Workers, score, share)
<1>0. acc.usage \in [Workers -> Nat]
  BY DEF Portions
<1>1. CASE left = {}
  BY <1>1 DEF Pick
<1>2. CASE left # {}
  <2>1. PICK w \in left : /\ Took(acc, w, up)
                          /\ \A v \in left : acc.usage[w] <= acc.usage[v]
    BY <1>2, PickIs
  <2>2. \A v \in Workers : acc.usage[w] <= acc.usage[v]
    <3>1. \A v \in Workers : v \in left \/ v \in ToSet(acc.picks)
      OBVIOUS
    <3> QED  BY <2>1, <3>1
  <2> HIDE DEF up
  <2>3. up.usage = [acc.usage EXCEPT ![w] = @ + 1]
    BY <2>1 DEF Took
  <2> SUFFICES ASSUME NEW x \in Workers, NEW y \in Workers  PROVE up.usage[x] <= up.usage[y] + 1
    BY DEF Even, up
  <2>4. /\ acc.usage[x] \in Nat /\ acc.usage[y] \in Nat /\ acc.usage[x] <= acc.usage[y] + 1
        /\ acc.usage[w] <= acc.usage[y]
    BY <1>0, <2>2 DEF Even
  <2>5. /\ up.usage[x] = IF x = w THEN acc.usage[x] + 1 ELSE acc.usage[x]
        /\ up.usage[y] = IF y = w THEN acc.usage[y] + 1 ELSE acc.usage[y]
    BY <1>0, <2>3
  <2> QED  BY <2>4, <2>5
<1> QED  BY <1>1, <1>2

(* After the first pick whoever was picked is one of the most used.        *)
LEMMA FirstPick ==
  ASSUME NEW acc \in Portions, Even(acc.usage), acc.picks = <<>>, NEW score \in [Workers -> Int],
         NEW share \in Int
  PROVE  /\ Pick(acc, Workers, score, share) \in Portions
         /\ Even(Pick(acc, Workers, score, share).usage)
         /\ \A x \in ToSet(Pick(acc, Workers, score, share).picks) : \A v \in Workers :
              Pick(acc, Workers, score, share).usage[v] <= Pick(acc, Workers, score, share).usage[x]
<1> DEFINE up == Pick(acc, Workers, score, share)
<1>0. acc.usage \in [Workers -> Nat]
  BY DEF Portions
<1>1. ToSet(acc.picks) = {}
  BY DEF ToSet
<1>2. up \in Portions
  BY PickType
<1>3. Even(up.usage)
  BY <1>1, PickEven
<1>4. Workers \ ToSet(acc.picks) # {}
  BY <1>1, WorkerAssumption
<1>5. PICK w \in Workers : Took(acc, w, up)
  BY <1>4, PickIs
<1> HIDE DEF up
<1>6. up.picks = Append(<<>>, w) /\ up.usage = [acc.usage EXCEPT ![w] = @ + 1]
  BY <1>5 DEF Took
<1>7. ToSet(up.picks) \subseteq {w}
  <2>1. Append(<<>>, w) = <<w>>
    OBVIOUS
  <2>2. <<w>> \in Seq({w})
    OBVIOUS
  <2> QED  BY <1>6, <2>1, <2>2, ToSetIs
<1>8. \A v \in Workers : up.usage[v] <= up.usage[w]
  <2> TAKE v \in Workers
  <2>1. acc.usage[v] \in Nat /\ acc.usage[w] \in Nat /\ acc.usage[v] <= acc.usage[w] + 1
    BY <1>0 DEF Even
  <2>2. up.usage[w] = acc.usage[w] + 1 /\ (v # w => up.usage[v] = acc.usage[v])
    BY <1>0, <1>6
  <2> QED  BY <2>1, <2>2
<1> QED  BY <1>2, <1>3, <1>7, <1>8 DEF up

(* Workers who are well and equally good, and steps that are for anybody.  *)
Alike == pool.health = Workers /\ \A w, v \in Workers, T \in SUBSET Tags : pool.merit[T][w] = pool.merit[T][v]
ForAll(ns) == \A i \in 1..Len(ns) : Candidates(Testing(ns[i]), Coders) = Workers

LEMMA TeamEven ==
  ASSUME pool \in Pools, Alike, NEW s \in Item, Candidates(Testing(s), Coders) = Workers,
         NEW usage \in [Workers -> Nat], Even(usage), NEW size \in Nat
  PROVE  Even(Team(s, usage, size).usage)
<1> DEFINE merit == MeritFor(s)  k == Shares(s)
           score == ScoresOf(merit, usage)  share == ShareOf(size)
<1>1. merit \in [Workers -> Int]
  BY MeritType
<1>2. \A w, v \in Workers : merit[w] = merit[v]
  BY TagsType DEF Alike, MeritFor
<1>3. Team(s, usage, size) = AssignK(Workers, k, merit, Workers, usage, size)
  BY DEF Team, Shares, Alike
<1>4. k \in {1, 2}
  BY DEF Shares
<1>5. score \in [Workers -> Int] /\ share \in Int
  BY <1>1, ScoreType, ShareType DEF ScoresOf
<1> HIDE DEF merit, k
<1>6. PICK h : /\ Picking(h, BandOf(Workers, merit, Workers, usage), score, share, usage, k)
               /\ AssignK(Workers, k, merit, Workers, usage, size) = h[k]
  <2>1. Workers \in SUBSET Workers /\ Workers # {} /\ k \in Nat
    BY <1>4, WorkerAssumption
  <2> QED  BY <1>1, <2>1, AssignRuns
<1>7. BandOf(Workers, merit, Workers, usage) = Workers
  BY <1>1, <1>2, BandAll
<1> HIDE DEF score, share
<1>8. /\ h[0] = [picks |-> <<>>, usage |-> usage]
      /\ \A j \in 1..k : h[j] = Pick(h[j - 1], Workers, score, share)
  BY <1>6, <1>7 DEF Picking
<1>9. h[0] \in Portions /\ h[0].picks = <<>> /\ Even(h[0].usage)
  <2>1. <<>> \in Seq(Workers)
    BY EmptySeq
  <2> QED  BY <1>8, <2>1 DEF Portions
<1>10. h[1] = Pick(h[0], Workers, score, share)
  <2>1. 1 \in 1..k /\ 1 - 1 = 0
    BY <1>4
  <2> QED  BY <1>8, <2>1
<1>11. /\ h[1] \in Portions /\ Even(h[1].usage)
       /\ \A x \in ToSet(h[1].picks) : \A v \in Workers : h[1].usage[v] <= h[1].usage[x]
  BY <1>5, <1>9, <1>10, FirstPick
<1>12. CASE k = 1
  BY <1>3, <1>6, <1>11, <1>12
<1>13. CASE k = 2
  <2>1. 2 \in 1..k /\ 2 - 1 = 1
    BY <1>13
  <2>2. h[2] = Pick(h[1], Workers, score, share)
    BY <1>8, <2>1
  <2>3. Even(h[2].usage)
    BY <1>5, <1>11, <2>2, PickEven
  <2> QED  BY <1>3, <1>6, <1>13, <2>3
<1> QED  BY <1>4, <1>12, <1>13

(* One more position to count.                                             *)
LEMMA CountNext ==
  ASSUME NEW k \in Nat, NEW X \in SUBSET (1..(k + 1))
  PROVE  Cardinality(X) = Cardinality(X \intersect 1..k) + (IF k + 1 \in X THEN 1 ELSE 0)
<1> DEFINE Y == X \intersect 1..k
<1>1. IsFiniteSet(1..k)
  BY IntervalSize
<1>2. IsFiniteSet(Y) /\ Cardinality(Y) \in Nat
  <2>1. Y \in SUBSET (1..k)
    OBVIOUS
  <2> HIDE DEF Y
  <2> QED  BY <1>1, <2>1, FS_Subset, FS_CardinalityType
<1>3. \A i \in 1..(k + 1) : i = k + 1 \/ i \in 1..k
  OBVIOUS
<1>4. CASE k + 1 \in X
  <2>1. k + 1 \notin Y
    OBVIOUS
  <2>2. X = Y \union {k + 1}
    <3>1. \A i : i \in X <=> i \in Y \/ i = k + 1
      BY <1>3, <1>4
    <3> QED  BY <3>1
  <2> HIDE DEF Y
  <2>3. Cardinality(Y \union {k + 1}) = Cardinality(Y) + 1
    BY <1>2, <2>1, FS_AddElement
  <2>4. Cardinality(X) = Cardinality(Y) + (IF k + 1 \in X THEN 1 ELSE 0)
    BY <1>4, <2>2, <2>3
  <2> QED  BY <2>4 DEF Y
<1>5. CASE k + 1 \notin X
  <2>1. X = Y
    BY <1>3, <1>5
  <2> HIDE DEF Y
  <2>2. Cardinality(X) = Cardinality(Y) + (IF k + 1 \in X THEN 1 ELSE 0)
    BY <1>2, <1>5, <2>1
  <2> QED  BY <2>2 DEF Y
<1> QED  BY <1>4, <1>5

Teams(ids) == UNION {[D -> Seq(Workers)] : D \in SUBSET ids}
Hands(ids) == [team : Teams(ids), usage : [Workers -> Nat]]

GivenOf(t, id, picks, g) ==
  /\ DOMAIN g = DOMAIN t \union {id} /\ g[id] = picks
  /\ \A x \in DOMAIN t : x # id => g[x] = t[x]

LEMMA GivenIs ==
  ASSUME NEW ids, NEW t \in Teams(ids), NEW id \in ids, NEW picks \in Seq(Workers)
  PROVE  Given(t, id, picks) \in Teams(ids) /\ GivenOf(t, id, picks, Given(t, id, picks))
<1>1. PICK D \in SUBSET ids : t \in [D -> Seq(Workers)]
  BY DEF Teams
<1>2. DOMAIN t = D
  BY <1>1
<1> DEFINE g == [x \in D \union {id} |-> IF x = id THEN picks ELSE t[x]]
<1>3. Given(t, id, picks) = g
  BY <1>2 DEF Given
<1>4. g \in [(D \union {id}) -> Seq(Workers)]
  BY <1>1
<1>5. g \in Teams(ids)
  <2>1. D \union {id} \in SUBSET ids
    OBVIOUS
  <2> HIDE DEF g
  <2> QED  BY <1>4, <2>1 DEF Teams
<1>6. DOMAIN g = D \union {id} /\ g[id] = picks /\ \A x \in D : x # id => g[x] = t[x]
  OBVIOUS
<1> HIDE DEF g
<1> QED  BY <1>2, <1>3, <1>5, <1>6 DEF GivenOf

LEMMA DealIs ==
  ASSUME pool \in Pools, NEW ids, NEW acc \in Hands(ids), NEW s \in Item, s.id \in ids, NEW size \in Nat
  PROVE  /\ Deal(acc, s, size) \in Hands(ids)
         /\ Deal(acc, s, size).team = Given(acc.team, s.id, Team(s, acc.usage, size).picks)
         /\ Deal(acc, s, size).usage = Team(s, acc.usage, size).usage
         /\ PickedOf(StepBand(s, acc.usage), acc.usage, Shares(s), Team(s, acc.usage, size))
<1> DEFINE dealt == Team(s, acc.usage, size)
<1>1. acc.team \in Teams(ids) /\ acc.usage \in [Workers -> Nat]
  BY DEF Hands
<1>2. PickedOf(StepBand(s, acc.usage), acc.usage, Shares(s), dealt)
  BY <1>1, TeamIs
<1>3. dealt.picks \in Seq(Workers) /\ dealt.usage \in [Workers -> Nat]
  BY <1>2 DEF PickedOf, Portions
<1>4. Given(acc.team, s.id, dealt.picks) \in Teams(ids)
  BY <1>1, <1>3, GivenIs
<1>5. Deal(acc, s, size) = [team |-> Given(acc.team, s.id, dealt.picks), usage |-> dealt.usage]
  BY DEF Deal
<1> HIDE DEF dealt
<1> QED  BY <1>2, <1>3, <1>4, <1>5 DEF Hands, dealt

LEMMA UndealtIs ==
  ASSUME NEW ids
  PROVE  Undealt \in Hands(ids) /\ DOMAIN Undealt.team = {} /\ Undealt.usage = Nobody
<1>1. Undealt.team = <<>> /\ Undealt.usage = Nobody /\ Undealt = [team |-> Undealt.team, usage |-> Undealt.usage]
  BY DEF Undealt
<1>2. Nobody \in [Workers -> Nat]
  BY DEF Nobody
<1>3. DOMAIN <<>> = {}
  OBVIOUS
<1>4. <<>> \in [{} -> Seq(Workers)]
  OBVIOUS
<1>5. <<>> \in Teams(ids)
  BY <1>4 DEF Teams
<1> QED  BY <1>1, <1>2, <1>3, <1>5 DEF Hands

LEMMA DealtRuns ==
  ASSUME pool \in Pools, NEW ns \in Seq(Item)
  PROVE  \E h : /\ h[0] = Undealt /\ Dealt(ns) = h[Len(ns)]
                /\ \A k \in 1..Len(ns) : h[k] = Deal(h[k - 1], ns[k], Len(ns))
<1> DEFINE n == Len(ns)
           V == Hands(IdsOf(ns))
           base == Undealt
           G == [k \in 1..n |-> [v \in V |-> Deal(v, ns[k], n)]]
           Eq(it) == [P \in SUBSET (1..n) |->
                        IF P = {} THEN base ELSE Deal(it[P \ {Max(P)}], ns[Max(P)], n)]
           F == CHOOSE it : it = Eq(it)
           h == [k \in 0..n |-> F[1..k]]
<1>n. n \in Nat /\ DOMAIN ns = 1..n
  OBVIOUS
<1>1. Dealt(ns) = F[1..n]
  BY <1>n DEF Dealt, FoldLeft, MapThenFoldSet
<1>2. G \in [1..n -> [V -> V]] /\ base \in V
  <2>1. \A k \in 1..n : \A v \in V : Deal(v, ns[k], n) \in V
    <3> TAKE k \in 1..n
    <3>1. ns[k].id \in IdsOf(ns) /\ ns[k] \in Item
      BY DEF IdsOf
    <3> QED  BY <1>n, <3>1, DealIs
  <2>2. base \in V
    BY UndealtIs
  <2> QED  BY <2>1, <2>2
<1>3. PICK it \in [SUBSET (1..n) -> V] :
        \A P \in SUBSET (1..n) : it[P] = FoldBy(G, base, it, P)
  <2> HIDE DEF G, V, n, base
  <2>2. PICK it : Computes(n, V, G, base, it)
    BY <1>n, <1>2, FoldsExist
  <2> QED  BY <2>2 DEF Computes
<1>4. it = Eq(it)
  <2>1. ASSUME NEW P \in SUBSET (1..n), P # {}
        PROVE  it[P] = Deal(it[P \ {Max(P)}], ns[Max(P)], n)
    <3>1. Max(P) \in 1..n
      BY <1>n, <2>1, MaxOfPositions
    <3>2. it[P \ {Max(P)}] \in V
      OBVIOUS
    <3> QED  BY <1>3, <2>1, <3>1, <3>2 DEF FoldBy
  <2>2. it[{}] = base
    BY <1>3 DEF FoldBy
  <2> QED  BY <2>1, <2>2
<1>5. F = Eq(F)
  BY <1>4
<1>6. h[0] = base
  <2>1. F[{}] = base
    <3> HIDE DEF F, base
    <3> QED  BY <1>5
  <2>2. 1..0 = {} /\ 0 \in 0..n
    BY <1>n
  <2> HIDE DEF F, base
  <2> QED  BY <2>1, <2>2
<1>7. ASSUME NEW k \in 1..n
      PROVE  h[k] = Deal(h[k - 1], ns[k], n)
  <2>1. /\ 1..k \in SUBSET (1..n) /\ 1..k # {} /\ Max(1..k) = k
        /\ (1..k) \ {k} = 1..(k - 1)
    BY <1>n, FirstPositions
  <2>2. F[1..k] = Deal(F[1..(k - 1)], ns[k], n)
    <3> HIDE DEF F
    <3> QED  BY <1>5, <2>1
  <2>3. k \in 0..n /\ k - 1 \in 0..n
    BY <1>n
  <2> HIDE DEF F
  <2> QED  BY <2>2, <2>3
<1>8. Dealt(ns) = h[n]
  <2>1. n \in 0..n
    BY <1>n
  <2> HIDE DEF F
  <2> QED  BY <1>1, <2>1
<1> HIDE DEF h
<1> QED  BY <1>6, <1>7, <1>8

(* After k steps: these have teams, of people who are eligible, and nobody *)
(* is on a team twice; the loads count the teams, and are even if all are  *)
(* alike.                                                                  *)
TeamOf(s, picks) ==
  /\ picks \in Seq(Workers) /\ picks # <<>> /\ NoRepeats(picks)
  /\ ToSet(picks) \subseteq Eligible(Candidates(Testing(s), Coders), pool.health)

DealtTo(ns, k, acc) ==
  /\ acc \in Hands(IdsOf(ns))
  /\ DOMAIN acc.team = {ns[i].id : i \in 1..k}
  /\ \A i \in 1..k : TeamOf(ns[i], acc.team[ns[i].id])
  /\ \A w \in Workers :
       acc.usage[w] = Cardinality({i \in 1..k : w \in ToSet(acc.team[ns[i].id])})
  /\ Alike /\ ForAll(ns) => Even(acc.usage)

LEMMA PickedTeam ==
  ASSUME pool \in Pools, NEW s \in Item, NEW usage \in [Workers -> Nat], NEW size \in Nat
  PROVE  TeamOf(s, Team(s, usage, size).picks)
<1> DEFINE acc == Team(s, usage, size)  band == StepBand(s, usage)
<1>1. /\ PickedOf(band, usage, Shares(s), acc)
      /\ band \subseteq Eligible(Candidates(Testing(s), Coders), pool.health)
  BY TeamIs
<1> HIDE DEF acc, band
<1>2. Shares(s) # 0
  BY DEF Shares
<1>3. acc.picks \in Seq(Workers) /\ acc.picks \in Seq(band) /\ acc.picks # <<>> /\ NoRepeats(acc.picks)
  BY <1>1, <1>2 DEF PickedOf, Portions
<1>4. ToSet(acc.picks) \subseteq band
  BY <1>3, ToSetIs
<1> QED  BY <1>1, <1>3, <1>4 DEF TeamOf, acc

LEMMA DealtStart ==
  ASSUME NEW ns \in Seq(Item)
  PROVE  DealtTo(ns, 0, Undealt)
<1>1. \A i \in 1..0 : FALSE
  OBVIOUS
<1>2. Undealt \in Hands(IdsOf(ns)) /\ DOMAIN Undealt.team = {} /\ Undealt.usage = Nobody
  BY UndealtIs
<1>3. \A w \in Workers : Nobody[w] = 0
  BY DEF Nobody
<1>4. Even(Nobody)
  BY <1>3 DEF Even
<1>5. Cardinality({}) = 0
  BY FS_EmptySet
<1>6. \A w : {i \in 1..0 : w \in ToSet(Undealt.team[ns[i].id])} = {}
  BY <1>1
<1>7. {ns[i].id : i \in 1..0} = {}
  BY <1>1
<1> QED  BY <1>1, <1>2, <1>3, <1>4, <1>5, <1>6, <1>7 DEF DealtTo

LEMMA DealtNext ==
  ASSUME pool \in Pools, NEW ns \in Seq(Item), Unique(ns), NEW k \in Nat, k + 1 <= Len(ns),
         NEW acc, DealtTo(ns, k, acc)
  PROVE  DealtTo(ns, k + 1, Deal(acc, ns[k + 1], Len(ns)))
<1> DEFINE n == Len(ns)  s == ns[k + 1]
           dealt == Team(s, acc.usage, n)  picks == dealt.picks
           up == Deal(acc, s, n)
<1>1. /\ n \in Nat /\ k + 1 \in 1..n /\ 1..k \subseteq 1..(k + 1) /\ 1..k \subseteq 1..n
      /\ k + 1 \in 1..(k + 1) /\ k + 1 \notin 1..k
      /\ \A i \in 1..(k + 1) : i = k + 1 \/ i \in 1..k
  <2>1. n \in Nat
    OBVIOUS
  <2> QED  BY <2>1
<1>2. s.id \in IdsOf(ns) /\ s \in Item
  BY <1>1 DEF IdsOf
<1> HIDE DEF s
<1>3. /\ acc \in Hands(IdsOf(ns)) /\ acc.team \in Teams(IdsOf(ns)) /\ acc.usage \in [Workers -> Nat]
      /\ DOMAIN acc.team = {ns[i].id : i \in 1..k}
  BY DEF DealtTo, Hands
<1>4. /\ up \in Hands(IdsOf(ns)) /\ up.team = Given(acc.team, s.id, picks) /\ up.usage = dealt.usage
      /\ PickedOf(StepBand(s, acc.usage), acc.usage, Shares(s), dealt)
  BY <1>1, <1>2, <1>3, DealIs
<1>5. TeamOf(s, picks)
  BY <1>1, <1>2, <1>3, PickedTeam
<1>6. Alike /\ ForAll(ns) => Even(up.usage)
  <2> SUFFICES ASSUME Alike, ForAll(ns)  PROVE Even(dealt.usage)
    BY <1>4
  <2>1. Candidates(Testing(s), Coders) = Workers
    BY <1>1 DEF ForAll, s
  <2>2. Even(acc.usage)
    BY DEF DealtTo
  <2> QED  BY <1>1, <1>2, <1>3, <2>1, <2>2, TeamEven
<1>7. \A w \in Workers : up.usage[w] = acc.usage[w] + (IF w \in ToSet(picks) THEN 1 ELSE 0)
  BY <1>4 DEF PickedOf
<1> HIDE DEF dealt, picks, up
<1>8. picks \in Seq(Workers)
  BY <1>5 DEF TeamOf
<1>9. /\ DOMAIN up.team = DOMAIN acc.team \union {s.id} /\ up.team[s.id] = picks
      /\ \A x \in DOMAIN acc.team : x # s.id => up.team[x] = acc.team[x]
  <2>1. GivenOf(acc.team, s.id, picks, Given(acc.team, s.id, picks))
    BY <1>2, <1>3, <1>8, GivenIs
  <2> QED  BY <1>4, <2>1 DEF GivenOf
<1>10. DOMAIN up.team = {ns[i].id : i \in 1..(k + 1)}
  BY <1>1, <1>3, <1>9 DEF s
<1>11. ASSUME NEW i \in 1..k  PROVE up.team[ns[i].id] = acc.team[ns[i].id]
  <2>1. ns[i].id # s.id
    BY <1>1 DEF Unique, s
  <2>2. ns[i].id \in DOMAIN acc.team
    BY <1>3
  <2> QED  BY <1>9, <2>1, <2>2
<1>12. up.team[ns[k + 1].id] = picks
  BY <1>9 DEF s
<1>13. ASSUME NEW i \in 1..(k + 1)  PROVE TeamOf(ns[i], up.team[ns[i].id])
  <2>1. CASE i = k + 1
    BY <1>5, <1>12, <2>1 DEF s
  <2>2. CASE i \in 1..k
    BY <1>11, <2>2 DEF DealtTo
  <2> QED  BY <1>1, <2>1, <2>2
<1>14. ASSUME NEW w \in Workers
       PROVE  up.usage[w] = Cardinality({i \in 1..(k + 1) : w \in ToSet(up.team[ns[i].id])})
  <2> DEFINE X == {i \in 1..(k + 1) : w \in ToSet(up.team[ns[i].id])}
             Y == {i \in 1..k : w \in ToSet(acc.team[ns[i].id])}
  <2>1. X \in SUBSET (1..(k + 1)) /\ X \intersect 1..k = Y
    BY <1>1, <1>11
  <2>2. k + 1 \in X <=> w \in ToSet(picks)
    BY <1>1, <1>12
  <2>3. acc.usage[w] = Cardinality(Y)
    BY DEF DealtTo
  <2> HIDE DEF X, Y
  <2>4. Cardinality(X) = Cardinality(Y) + (IF k + 1 \in X THEN 1 ELSE 0)
    BY <2>1, CountNext
  <2>5. up.usage[w] = Cardinality(X)
    BY <1>7, <2>2, <2>3, <2>4
  <2> QED  BY <2>5 DEF X
<1>15. DealtTo(ns, k + 1, up)
  BY <1>4, <1>6, <1>10, <1>13, <1>14 DEF DealtTo
<1> QED  BY <1>15 DEF up, s

LEMMA DealtIs ==
  ASSUME pool \in Pools, NEW ns \in Seq(Item), Unique(ns)
  PROVE  DealtTo(ns, Len(ns), Dealt(ns))
<1> DEFINE n == Len(ns)
<1>n. n \in Nat
  OBVIOUS
<1>1. PICK h : /\ h[0] = Undealt /\ Dealt(ns) = h[n]
               /\ \A k \in 1..n : h[k] = Deal(h[k - 1], ns[k], n)
  BY DealtRuns
<1> DEFINE Ks == {k \in Nat : k <= n => DealtTo(ns, k, h[k])}
<1>2. 0 \in Ks
  BY <1>1, DealtStart
<1>3. ASSUME NEW k \in Ks  PROVE k + 1 \in Ks
  <2>n. k \in Nat /\ k + 1 \in Nat
    BY <1>3
  <2> SUFFICES ASSUME k + 1 <= n  PROVE DealtTo(ns, k + 1, h[k + 1])
    BY <2>n
  <2>1. k + 1 \in 1..n /\ (k + 1) - 1 = k /\ k <= n
    BY <1>n, <2>n
  <2>2. DealtTo(ns, k, h[k]) /\ h[k + 1] = Deal(h[k], ns[k + 1], n)
    BY <1>1, <1>3, <2>1
  <2> QED  BY <2>n, <2>2, DealtNext
<1>4. Ks = Nat
  <2> HIDE DEF Ks
  <2>1. Ks \in SUBSET Nat
    BY DEF Ks
  <2> QED  BY <1>2, <1>3, <2>1, SetInduction
<1>5. DealtTo(ns, n, h[n])
  <2>1. n \in Ks /\ n <= n
    BY <1>n, <1>4
  <2> QED  BY <2>1
<1> QED  BY <1>1, <1>5

-----------------------------------------------------------------------------
(* Moving the verifying steps *)

(* Of those who may lead one comes first: of those with most tags, the one *)
(* whose id is the least.                                                  *)
LEMMA FirstOfIs ==
  ASSUME NEW S \in SUBSET Workers, S # {}, NEW overlap \in [Workers -> Nat]
  PROVE  FirstOf(S, overlap) \in S
<1> DEFINE os == {overlap[w] : w \in S}
           T == {w \in S : overlap[w] = Max(os)}
           is == {Index(w) : w \in T}
           Before(w, v) == \/ overlap[w] > overlap[v]
                           \/ overlap[w] = overlap[v] /\ Index(w) < Index(v)
<1>1. Max(os) \in os /\ \A x \in os : x <= Max(os)
  <2>1. IsFiniteSet(S)
    BY WorkerAssumption, FS_Subset
  <2>2. IsFiniteSet(os)
    BY <2>1, FiniteImage
  <2>3. os \in SUBSET Int /\ os # {}
    OBVIOUS
  <2> HIDE DEF os
  <2> QED  BY <2>2, <2>3, MaxIs
<1>2. T \in SUBSET Workers /\ T # {} /\ \A v \in S : overlap[v] <= Max(os)
  BY <1>1
<1> HIDE DEF os
<1>3. is \in SUBSET Nat /\ is # {}
  <2>1. \A w \in T : Index(w) \in Nat
    <3>1. Len(ById) \in Nat
      BY WorkerAssumption
    <3> QED  BY <1>2, <3>1, IndexIs
  <2> QED  BY <1>2, <2>1
<1>4. PICK w \in T : \A v \in T : Index(w) <= Index(v)
  <2>1. PICK m \in is : \A x \in is : m <= x
    <3> HIDE DEF is
    <3> QED  BY <1>3, Least
  <2> QED  BY <2>1
<1>5. ASSUME NEW v \in S \ {w}  PROVE Before(w, v)
  <2>1. overlap[w] = Max(os) /\ overlap[w] \in Nat /\ overlap[v] \in Nat /\ overlap[v] <= overlap[w]
    BY <1>2, <1>4
  <2>2. CASE overlap[v] = overlap[w]
    <3>1. v \in T
      BY <2>1, <2>2
    <3>2. Index(w) \in Nat /\ Index(v) \in Nat /\ Index(w) # Index(v) /\ Index(w) <= Index(v)
      BY <1>2, <1>4, <3>1, IndexApart
    <3>3. Index(w) < Index(v)
      BY <3>2
    <3> QED  BY <2>2, <3>3
  <2>3. CASE overlap[v] # overlap[w]
    <3>1. overlap[w] > overlap[v]
      BY <2>1, <2>3
    <3> QED  BY <3>1
  <2> QED  BY <2>2, <2>3
<1>6. w \in S
  BY <1>4
<1> HIDE DEF T, is
<1>7. \E x \in S : \A v \in S \ {x} : Before(x, v)
  BY <1>5, <1>6
<1> QED  BY <1>7 DEF FirstOf

(* Teams, of one or more; staffing gives one to each step.                 *)
Crews == Seq(Workers) \ {<<>>}
Staffing(ids) == [ids -> Crews]

LEMMA JudgedType ==
  ASSUME NEW ns \in Seq(Item), NEW i, NEW t \in Staffing(IdsOf(ns))
  PROVE  Judged(ns, i, t) \subseteq Workers
<1>1. ASSUME NEW j \in 1..Len(ns)
      PROVE  ToSet(t[ns[j].id]) \subseteq Workers /\ Lead(t, ns[j].id) \subseteq Workers
  <2>1. ns[j].id \in IdsOf(ns)
    BY DEF IdsOf
  <2>2. t[ns[j].id] \in Seq(Workers)
    BY <2>1 DEF Staffing, Crews
  <2>3. ToSet(t[ns[j].id]) \subseteq Workers
    BY <2>2, ToSetIs
  <2>4. t[ns[j].id] # <<>> => Head(t[ns[j].id]) \in Workers
    BY <2>2
  <2> QED  BY <2>3, <2>4 DEF Lead
<1> QED  BY <1>1 DEF Judged

(* Who is judged does not depend on the teams of verifying steps.          *)
LEMMA JudgedSame ==
  ASSUME NEW ns \in Seq(Item), NEW i, NEW t, NEW u,
         \A j \in 1..Len(ns) : ns[j].role # "verify" => t[ns[j].id] = u[ns[j].id]
  PROVE  Judged(ns, i, t) = Judged(ns, i, u)
<1> DEFINE on == {j \in 1..Len(ns) : ns[j].id \in ns[i].deps /\ ns[j].role \in {"produce", "critique"}}
           by == {j \in (1..Len(ns)) \ {i} : ns[j].role = "produce"}
<1>1. \A j \in on : t[ns[j].id] = u[ns[j].id]
  OBVIOUS
<1>2. \A j \in by : Lead(t, ns[j].id) = Lead(u, ns[j].id)
  BY DEF Lead
<1>3. UNION {ToSet(t[ns[j].id]) : j \in on} = UNION {ToSet(u[ns[j].id]) : j \in on}
  BY <1>1
<1>4. UNION {Lead(t, ns[j].id) : j \in by} = UNION {Lead(u, ns[j].id) : j \in by}
  BY <1>2
<1> QED  BY <1>3, <1>4 DEF Judged

(* The lead of step i has no part in what it judges, if anybody else can.  *)
Apart(ns, i, t) == Head(t[ns[i].id]) \notin Judged(ns, i, t) \/ Judged(ns, i, t) = Workers

MovedBy(ns, i, t, u) ==
  /\ u \in Staffing(IdsOf(ns))
  /\ \A x \in IdsOf(ns) : x # ns[i].id => u[x] = t[x]
  /\ ns[i].role # "verify" => u = t
  /\ ns[i].role = "verify" => Head(u[ns[i].id]) \notin Judged(ns, i, t) \/ Judged(ns, i, t) = Workers

LEMMA VerifyApartIs ==
  ASSUME NEW ns \in Seq(Item), NEW i \in 1..Len(ns), NEW t \in Staffing(IdsOf(ns)),
         NEW overlap \in [Workers -> Nat]
  PROVE  MovedBy(ns, i, t, VerifyApart(ns, i, t, overlap))
<1> DEFINE id == ns[i].id
           lead == Lead(t, id)
           judged == Judged(ns, i, t)
           others == Others(judged, lead)
           first == FirstOf(others, overlap)
           keep == {k \in 1..Len(t[id]) : t[id][k] # first}
           rest == Select(t[id], keep)
           u == VerifyApart(ns, i, t, overlap)
           crew == <<first>> \o rest
<1>1. id \in IdsOf(ns)
  BY DEF IdsOf
<1>2. t[id] \in Seq(Workers) /\ t[id] # <<>> /\ t \in [IdsOf(ns) -> Crews]
  BY <1>1 DEF Staffing, Crews
<1>3. lead = {Head(t[id])}
  BY <1>2 DEF Lead
<1>4. judged \subseteq Workers
  BY JudgedType
<1>5. u = IF ns[i].role # "verify" \/ (lead # {} /\ lead \intersect judged = {}) \/ others = {} THEN t
          ELSE [t EXCEPT ![id] = crew]
  BY DEF VerifyApart
<1>6. others \subseteq Workers /\ (Workers \ judged # {} => others = Workers \ judged)
  BY DEF Others
<1> HIDE DEF id, lead, judged, others, u
<1>7. CASE ns[i].role # "verify"
  BY <1>5, <1>7 DEF MovedBy, u
<1>8. CASE ns[i].role = "verify" /\ lead \intersect judged = {}
  <2>1. u = t
    BY <1>3, <1>5, <1>8
  <2>2. Head(t[id]) \notin judged
    BY <1>3, <1>8
  <2> QED  BY <1>8, <2>1, <2>2 DEF MovedBy, u, id, judged
<1>9. CASE ns[i].role = "verify" /\ others = {}
  <2>1. u = t
    BY <1>5, <1>9
  <2>2. judged = Workers
    BY <1>4, <1>6, <1>9
  <2> QED  BY <1>9, <2>1, <2>2 DEF MovedBy, u, judged
<1>10. CASE ns[i].role = "verify" /\ lead \intersect judged # {} /\ others # {}
  <2>1. first \in others
    BY <1>6, <1>10, FirstOfIs
  <2>2. rest \in Seq(Workers)
    <3>1. keep \in SUBSET (1..Len(t[id]))
      OBVIOUS
    <3> HIDE DEF keep
    <3> QED  BY <1>2, <3>1, SelectIs
  <2> HIDE DEF first, rest
  <2>3. crew \in Seq(Workers) /\ crew # <<>> /\ Head(crew) = first
    <3>1. first \in Workers
      BY <1>6, <2>1
    <3>2. <<first>> \in Seq(Workers) /\ Len(<<first>>) = 1 /\ <<first>>[1] = first
      BY <3>1
    <3>3. crew \in Seq(Workers) /\ Len(crew) = 1 + Len(rest) /\ crew[1] = first
      BY <2>2, <3>2
    <3>4. Len(rest) \in Nat
      BY <2>2
    <3>5. Len(crew) # 0
      BY <3>3, <3>4
    <3>6. crew # <<>>
      BY <3>5, EmptySeq
    <3> QED  BY <3>3, <3>6
  <2>4. u = [t EXCEPT ![id] = crew]
    BY <1>5, <1>10, <1>3
  <2> HIDE DEF crew
  <2>5. crew \in Crews
    BY <2>3 DEF Crews
  <2>6. u \in [IdsOf(ns) -> Crews]
    BY <1>1, <1>2, <2>4, <2>5
  <2>7. u[id] = crew /\ \A x \in IdsOf(ns) : x # id => u[x] = t[x]
    BY <1>1, <1>2, <2>4
  <2>8. Head(u[id]) \notin judged \/ judged = Workers
    BY <1>4, <1>6, <2>1, <2>3, <2>7
  <2> QED  BY <1>10, <2>6, <2>7, <2>8 DEF MovedBy, Staffing, u, id, judged
<1> QED  BY <1>7, <1>8, <1>9, <1>10

LEMMA MoveIs ==
  ASSUME NEW ns \in Seq(Item), NEW i \in 1..Len(ns), NEW t \in Staffing(IdsOf(ns))
  PROVE  MovedBy(ns, i, t, Move(ns, t, i))
<1>1. TagsOf(ns[i]) \in SUBSET Tags
  BY TagsType
<1>2. ASSUME NEW w \in Workers
      PROVE  Cardinality(TagsOf(ns[i]) \intersect pool.tags[w]) \in Nat
  <2>1. IsFiniteSet(TagsOf(ns[i]) \intersect pool.tags[w])
    BY <1>1, TagAssumption, FS_Subset
  <2> QED  BY <2>1, FS_CardinalityType
<1>3. Overlap(ns[i]) \in [Workers -> Nat]
  BY <1>2 DEF Overlap
<1> QED  BY <1>3, VerifyApartIs DEF Move

(* What dealing leaves behind has a team for each step.                    *)
LEMMA DealtStaffs ==
  ASSUME pool \in Pools, NEW ns \in Seq(Item), Unique(ns)
  PROVE  /\ Dealt(ns).team \in Staffing(IdsOf(ns))
         /\ \A i \in 1..Len(ns) : TeamOf(ns[i], Dealt(ns).team[ns[i].id])
<1> DEFINE t == Dealt(ns).team
<1>1. /\ Dealt(ns) \in Hands(IdsOf(ns)) /\ DOMAIN t = {ns[i].id : i \in 1..Len(ns)}
      /\ \A i \in 1..Len(ns) : TeamOf(ns[i], t[ns[i].id])
  BY DealtIs DEF DealtTo
<1>2. DOMAIN t = IdsOf(ns)
  BY <1>1 DEF IdsOf
<1>3. PICK D \in SUBSET IdsOf(ns) : t \in [D -> Seq(Workers)]
  BY <1>1 DEF Hands, Teams
<1>4. t \in [IdsOf(ns) -> Seq(Workers)]
  BY <1>2, <1>3
<1>5. ASSUME NEW x \in IdsOf(ns)  PROVE t[x] \in Crews
  <2>1. PICK i \in 1..Len(ns) : x = ns[i].id
    BY DEF IdsOf
  <2> QED  BY <1>1, <2>1 DEF TeamOf, Crews
<1>6. t \in Staffing(IdsOf(ns))
  <2> HIDE DEF t
  <2> QED  BY <1>4, <1>5 DEF Staffing
<1> QED  BY <1>1, <1>6

LEMMA MovedRuns ==
  ASSUME pool \in Pools, NEW ns \in Seq(Item), Unique(ns)
  PROVE  \E h : /\ h[0] = Dealt(ns).team /\ Moved(ns) = h[Len(ns)]
                /\ \A k \in 1..Len(ns) : h[k] = Move(ns, h[k - 1], k)
<1> DEFINE n == Len(ns)
           V == Staffing(IdsOf(ns))
           base == Dealt(ns).team
           G == [k \in 1..n |-> [v \in V |-> Move(ns, v, k)]]
           Eq(it) == [P \in SUBSET (1..n) |->
                        IF P = {} THEN base
                        ELSE Move(ns, it[P \ {Max(P)}], PositionsOf(ns)[Max(P)])]
           F == CHOOSE it : it = Eq(it)
           h == [k \in 0..n |-> F[1..k]]
<1>n. n \in Nat /\ DOMAIN PositionsOf(ns) = 1..n /\ \A k \in 1..n : PositionsOf(ns)[k] = k
  BY DEF PositionsOf
<1>0. \A P \in SUBSET (1..n) : P # {} => PositionsOf(ns)[Max(P)] = Max(P)
  BY <1>n, MaxOfPositions
<1>1. Moved(ns) = F[1..n]
  BY <1>n DEF Moved, FoldLeft, MapThenFoldSet
<1>2. G \in [1..n -> [V -> V]] /\ base \in V
  <2>1. \A k \in 1..n : \A v \in V : Move(ns, v, k) \in V
    BY MoveIs DEF MovedBy
  <2>2. base \in V
    BY DealtStaffs
  <2> QED  BY <2>1, <2>2
<1>3. PICK it \in [SUBSET (1..n) -> V] :
        \A P \in SUBSET (1..n) : it[P] = FoldBy(G, base, it, P)
  <2> HIDE DEF G, V, n, base
  <2>2. PICK it : Computes(n, V, G, base, it)
    BY <1>n, <1>2, FoldsExist
  <2> QED  BY <2>2 DEF Computes
<1>4. it = Eq(it)
  <2>1. ASSUME NEW P \in SUBSET (1..n), P # {}
        PROVE  it[P] = Move(ns, it[P \ {Max(P)}], Max(P))
    <3>1. Max(P) \in 1..n
      BY <1>n, <2>1, MaxOfPositions
    <3>2. it[P \ {Max(P)}] \in V
      OBVIOUS
    <3> QED  BY <1>3, <2>1, <3>1, <3>2 DEF FoldBy
  <2>2. it[{}] = base
    BY <1>3 DEF FoldBy
  <2>3. \A P \in SUBSET (1..n) :
          it[P] = IF P = {} THEN base ELSE Move(ns, it[P \ {Max(P)}], PositionsOf(ns)[Max(P)])
    BY <1>0, <2>1, <2>2
  <2> QED  BY <2>3
<1>5. F = Eq(F)
  BY <1>4
<1>6. h[0] = base
  <2>1. F[{}] = base
    <3> HIDE DEF F, base
    <3> QED  BY <1>5
  <2>2. 1..0 = {} /\ 0 \in 0..n
    BY <1>n
  <2> HIDE DEF F, base
  <2> QED  BY <2>1, <2>2
<1>7. ASSUME NEW k \in 1..n
      PROVE  h[k] = Move(ns, h[k - 1], k)
  <2>1. /\ 1..k \in SUBSET (1..n) /\ 1..k # {} /\ Max(1..k) = k
        /\ (1..k) \ {k} = 1..(k - 1)
    BY <1>n, FirstPositions
  <2>2. F[1..k] = Move(ns, F[1..(k - 1)], k)
    <3> HIDE DEF F
    <3>1. F[1..k] = Move(ns, F[(1..k) \ {Max(1..k)}], PositionsOf(ns)[Max(1..k)])
      BY <1>5, <2>1
    <3>2. PositionsOf(ns)[Max(1..k)] = k
      BY <1>0, <2>1
    <3> QED  BY <2>1, <3>1, <3>2
  <2>3. k \in 0..n /\ k - 1 \in 0..n
    BY <1>n
  <2> HIDE DEF F
  <2> QED  BY <2>2, <2>3
<1>8. Moved(ns) = h[n]
  <2>1. n \in 0..n
    BY <1>n
  <2> HIDE DEF F
  <2> QED  BY <1>1, <2>1
<1> HIDE DEF h
<1> QED  BY <1>6, <1>7, <1>8


(* After the first k positions: the verifying steps among these are led    *)
(* apart, and the other steps have the teams they were dealt.              *)
MovedTo(ns, t0, k, t) ==
  /\ t \in Staffing(IdsOf(ns))
  /\ \A j \in 1..Len(ns) : ns[j].role # "verify" => t[ns[j].id] = t0[ns[j].id]
  /\ \A i \in 1..k : ns[i].role = "verify" => Apart(ns, i, t)

LEMMA MovedNext ==
  ASSUME NEW ns \in Seq(Item), Unique(ns), NEW t0, NEW k \in Nat, k + 1 <= Len(ns),
         NEW t, MovedTo(ns, t0, k, t)
  PROVE  MovedTo(ns, t0, k + 1, Move(ns, t, k + 1))
<1> DEFINE u == Move(ns, t, k + 1)
<1>n. Len(ns) \in Nat /\ k + 1 \in 1..Len(ns) /\ 1..k \subseteq 1..Len(ns)
      /\ \A i \in 1..(k + 1) : i = k + 1 \/ (i \in 1..k /\ i # k + 1)
  <2>1. Len(ns) \in Nat
    OBVIOUS
  <2> QED  BY <2>1
<1>1. t \in Staffing(IdsOf(ns))
  BY DEF MovedTo
<1>2. MovedBy(ns, k + 1, t, u)
  BY <1>1, <1>n, MoveIs
<1> HIDE DEF u
<1>3. /\ u \in Staffing(IdsOf(ns))
      /\ \A x \in IdsOf(ns) : x # ns[k + 1].id => u[x] = t[x]
      /\ ns[k + 1].role # "verify" => u = t
      /\ ns[k + 1].role = "verify" =>
           Head(u[ns[k + 1].id]) \notin Judged(ns, k + 1, t) \/ Judged(ns, k + 1, t) = Workers
  BY <1>2 DEF MovedBy
<1>4. ASSUME NEW j \in 1..Len(ns), j # k + 1  PROVE u[ns[j].id] = t[ns[j].id]
  <2>1. ns[j].id \in IdsOf(ns) /\ ns[j].id # ns[k + 1].id
    BY <1>4, <1>n DEF IdsOf, Unique
  <2> QED  BY <1>3, <2>1
<1>5. ASSUME NEW j \in 1..Len(ns), ns[j].role # "verify"  PROVE u[ns[j].id] = t[ns[j].id]
  <2>1. CASE j = k + 1
    BY <1>3, <1>5, <2>1
  <2>2. CASE j # k + 1
    BY <1>4, <2>2
  <2> QED  BY <2>1, <2>2
<1>6. \A i : Judged(ns, i, u) = Judged(ns, i, t)
  BY <1>5, JudgedSame
<1>7. \A j \in 1..Len(ns) : ns[j].role # "verify" => u[ns[j].id] = t0[ns[j].id]
  BY <1>5 DEF MovedTo
<1>8. ASSUME NEW i \in 1..(k + 1), ns[i].role = "verify"  PROVE Apart(ns, i, u)
  <2>1. CASE i = k + 1
    BY <1>3, <1>6, <1>8, <2>1 DEF Apart
  <2>2. CASE i \in 1..k /\ i # k + 1
    <3>1. Apart(ns, i, t)
      BY <1>8, <2>2 DEF MovedTo
    <3>2. i \in 1..Len(ns)
      BY <1>n, <2>2
    <3>3. u[ns[i].id] = t[ns[i].id]
      BY <1>4, <2>2, <3>2
    <3> QED  BY <1>6, <3>1, <3>3 DEF Apart
  <2> QED  BY <1>n, <2>1, <2>2
<1> QED  BY <1>3, <1>7, <1>8 DEF MovedTo, u

LEMMA MovedIs ==
  ASSUME pool \in Pools, NEW ns \in Seq(Item), Unique(ns)
  PROVE  MovedTo(ns, Dealt(ns).team, Len(ns), Moved(ns))
<1> DEFINE n == Len(ns)  t0 == Dealt(ns).team
<1>n. n \in Nat
  OBVIOUS
<1>1. PICK h : /\ h[0] = t0 /\ Moved(ns) = h[n]
               /\ \A k \in 1..n : h[k] = Move(ns, h[k - 1], k)
  BY MovedRuns
<1>2. t0 \in Staffing(IdsOf(ns))
  BY DealtStaffs
<1> HIDE DEF t0
<1> DEFINE Ks == {k \in Nat : k <= n => MovedTo(ns, t0, k, h[k])}
<1>3. 0 \in Ks
  <2>1. \A i \in 1..0 : FALSE
    OBVIOUS
  <2>2. MovedTo(ns, t0, 0, h[0])
    BY <1>1, <1>2, <2>1 DEF MovedTo
  <2> QED  BY <2>2
<1>4. ASSUME NEW k \in Ks  PROVE k + 1 \in Ks
  <2>n. k \in Nat /\ k + 1 \in Nat
    BY <1>4
  <2> SUFFICES ASSUME k + 1 <= n  PROVE MovedTo(ns, t0, k + 1, h[k + 1])
    BY <2>n
  <2>1. k + 1 \in 1..n /\ (k + 1) - 1 = k /\ k <= n
    BY <1>n, <2>n
  <2>2. MovedTo(ns, t0, k, h[k]) /\ h[k + 1] = Move(ns, h[k], k + 1)
    BY <1>1, <1>4, <2>1
  <2> QED  BY <2>n, <2>2, MovedNext
<1>5. Ks = Nat
  <2> HIDE DEF Ks
  <2>1. Ks \in SUBSET Nat
    BY DEF Ks
  <2> QED  BY <1>3, <1>4, <2>1, SetInduction
<1>6. MovedTo(ns, t0, n, h[n])
  <2>1. n \in Ks /\ n <= n
    BY <1>n, <1>5
  <2> QED  BY <2>1
<1> QED  BY <1>1, <1>6 DEF t0


-----------------------------------------------------------------------------
(* The teams *)

(* What holds of the teams: there are none before the plan is ready, each  *)
(* step has one afterwards, and until a step is re-assigned they are those *)
(* that were dealt, but for the verifying steps, which are led apart.      *)
TeamsOK ==
  /\ banned \subseteq Workers
  /\ ~Planned => team = <<>>
  /\ Planned => team \in Staffing(IdsOf(nodes))
  /\ stage = "ready" =>
       \A i \in 1..Len(nodes) : /\ nodes[i].role # "verify" => TeamOf(nodes[i], team[nodes[i].id])
                                /\ nodes[i].role = "verify" => Apart(nodes, i, team)

LEMMA AssignTeams ==
  ASSUME StepsOK, TeamsOK, AssignAll
  PROVE  TeamsOK'
<1>1. nodes' = Marked /\ stage' = "ready" /\ team' = Moved(nodes') /\ UNCHANGED <<query, pool, banned>>
  BY DEF AssignAll
<1>2. nodes' \in Seq(Item) /\ Unique(nodes')
  BY AssignSteps DEF StepsOK, Sound, Unique
<1>3. pool \in Pools
  BY DEF StepsOK
<1>4. MovedTo(nodes', Dealt(nodes').team, Len(nodes'), team')
  BY <1>1, <1>2, <1>3, MovedIs
<1>5. \A i \in 1..Len(nodes') : TeamOf(nodes'[i], Dealt(nodes').team[nodes'[i].id])
  BY <1>2, <1>3, DealtStaffs
<1>6. team' \in Staffing(IdsOf(nodes'))
  BY <1>4 DEF MovedTo
<1>7. ASSUME NEW i \in 1..Len(nodes'), nodes'[i].role # "verify"
      PROVE  TeamOf(nodes'[i], team'[nodes'[i].id])
  BY <1>4, <1>5, <1>7 DEF MovedTo
<1>8. ASSUME NEW i \in 1..Len(nodes'), nodes'[i].role = "verify"
      PROVE  Apart(nodes', i, team')
  BY <1>4, <1>8 DEF MovedTo
<1>9. banned' \subseteq Workers
  BY <1>1 DEF TeamsOK
<1>10. IdsOf(nodes)' = IdsOf(nodes') /\ Staffing(IdsOf(nodes))' = Staffing(IdsOf(nodes'))
  BY DEF IdsOf, Staffing
<1>11. ASSUME NEW s, NEW picks
       PROVE  TeamOf(s, picks)' = TeamOf(s, picks)
  BY <1>1 DEF TeamOf, Testing, Says, Heading, Coders
<1>12. (\A i \in 1..Len(nodes) : /\ nodes[i].role # "verify" => TeamOf(nodes[i], team[nodes[i].id])
                                 /\ nodes[i].role = "verify" => Apart(nodes, i, team))'
  BY <1>1, <1>7, <1>8 DEF TeamOf, Testing, Says, Heading, Coders, Apart, Judged, Lead
<1>13. Planned'
  BY <1>1 DEF Planned
<1> QED  BY <1>6, <1>9, <1>10, <1>12, <1>13 DEF TeamsOK

LEMMA ReassignTeams ==
  ASSUME StepsOK, TeamsOK, NEW i \in 1..Len(nodes), NEW ban \in SUBSET Workers, Reassign(i, ban)
  PROVE  TeamsOK'
<1> DEFINE id == nodes[i].id
           cands == IF Workers \ ban = {} THEN Workers ELSE Workers \ ban
           load(w) == IF w \in cands
                      THEN Cardinality({j \in (1..Len(nodes)) \ {i} : w \in ToSet(team[nodes[j].id])})
                      ELSE 0
           usage == [w \in Workers |-> load(w)]
           merit == MeritFor(nodes[i])
           new == AssignK(cands, 1, merit, pool.health, usage, Len(nodes))
<1>1. /\ stage = "ready" /\ team' = [team EXCEPT ![id] = new.picks]
      /\ banned' = ban /\ stage' = "running" /\ UNCHANGED <<query, pool, nodes>>
  BY DEF Reassign
<1>2. nodes \in Seq(Item) /\ Len(nodes) \in Nat /\ id \in IdsOf(nodes) /\ pool \in Pools
  BY DEF StepsOK, Sound, IdsOf
<1>3. team \in [IdsOf(nodes) -> Crews]
  BY <1>1 DEF TeamsOK, Planned, Staffing
<1>4. cands \in SUBSET Workers /\ cands # {}
  BY WorkerAssumption
<1>5. usage \in [Workers -> Nat]
  <2>1. ASSUME NEW w \in Workers  PROVE load(w) \in Nat
    <3> DEFINE js == {j \in (1..Len(nodes)) \ {i} : w \in ToSet(team[nodes[j].id])}
    <3>1. js \in SUBSET (1..Len(nodes))
      OBVIOUS
    <3>2. IsFiniteSet(1..Len(nodes))
      BY <1>2, IntervalSize
    <3>3. Cardinality(js) \in Nat
      <4> HIDE DEF js
      <4> QED  BY <3>1, <3>2, FS_Subset, FS_CardinalityType
    <3> QED  BY <3>3
  <2> QED  BY <2>1
<1>6. merit \in [Workers -> Int]
  <2>1. nodes[i] \in Item
    BY <1>2
  <2> QED  BY <1>2, <2>1, MeritType
<1> HIDE DEF cands, usage, merit
<1>7. PickedOf(BandOf(cands, merit, pool.health, usage), usage, 1, new)
  BY <1>2, <1>4, <1>5, <1>6, AssignIs
<1> HIDE DEF new
<1>8. new.picks \in Crews
  BY <1>7 DEF PickedOf, Portions, Crews
<1>9. team' \in [IdsOf(nodes) -> Crews]
  BY <1>1, <1>2, <1>3, <1>8
<1>10. Staffing(IdsOf(nodes))' = [IdsOf(nodes) -> Crews]
  BY <1>1 DEF Staffing, IdsOf
<1> QED  BY <1>1, <1>9, <1>10 DEF TeamsOK, Planned

LEMMA TeamsNext ==
  ASSUME StepsOK, TeamsOK, [Next]_vars
  PROVE  TeamsOK'
<1>1. CASE AssignAll
  BY <1>1, AssignTeams
<1>2. CASE \E i \in 1..Len(nodes) : \E ban \in SUBSET Workers : Reassign(i, ban)
  BY <1>2, ReassignTeams
<1>3. CASE Think \/ Read \/ Repair \/ Rewrite \/ Heuristic \/ Layer
  <2>1. ~Planned /\ ~Planned' /\ UNCHANGED <<team, banned>>
    BY <1>3 DEF Planned, Think, Read, Repair, Rewrite, Heuristic, Layer
  <2>2. stage' # "ready"
    BY <2>1 DEF Planned
  <2> QED  BY <2>1, <2>2 DEF TeamsOK
<1>4. CASE UNCHANGED vars
  <2>1. UNCHANGED <<stage, query, pool, nodes, team, banned>>
    BY <1>4 DEF vars
  <2> QED  BY <2>1 DEF TeamsOK, Planned, TeamOf, Testing, Says, Heading, Coders
<1> QED  BY <1>1, <1>2, <1>3, <1>4 DEF Next, Plan

LEMMA TeamsStart ==
  ASSUME Init
  PROVE  TeamsOK
BY DEF Init, TeamsOK, Planned

(* Once there is a plan, each step has a team, whatever is re-assigned.    *)
THEOREM TeamsAreSound == Spec => [](StepsOK /\ TeamsOK)
<1>1. Init => StepsOK /\ TeamsOK
  BY StepsStart, TeamsStart
<1>2. StepsOK /\ TeamsOK /\ [Next]_vars => StepsOK' /\ TeamsOK'
  BY StepsNext, TeamsNext
<1> QED  BY <1>1, <1>2, PTL DEF Spec

(* The types of the planner's state, the plan's among them.                *)
THEOREM TypesHold == Spec => []TypeOK
<1>1. StepsOK /\ TeamsOK => TypeOK
  <2> SUFFICES ASSUME StepsOK, TeamsOK  PROVE TypeOK
    OBVIOUS
  <2>1. nodes \in Seq(Item) /\ Unique(nodes)
    BY DEF StepsOK, Sound
  <2>2. Cardinality(IdsOf(nodes)) = Len(nodes)
    BY <2>1, IdsCount
  <2>3. \A i \in 1..Len(nodes) : /\ nodes[i].kind \in Kinds /\ nodes[i].role \in Roles
                                 /\ nodes[i].deps \subseteq IdsOf(nodes) \ {nodes[i].id}
    <3>1. \A i \in 1..Len(nodes) : nodes[i] \in Item
      BY <2>1
    <3>2. \A i \in 1..Len(nodes) : nodes[i].kind \in Kinds /\ nodes[i].role \in Roles
      BY <3>1 DEF Item
    <3> QED  BY <3>2 DEF StepsOK, Sound
  <2>4. ASSUME NEW id \in DOMAIN team  PROVE ToSet(team[id]) \subseteq Workers
    <3>1. CASE Planned
      <4>1. team[id] \in Seq(Workers)
        BY <3>1 DEF TeamsOK, Staffing, Crews
      <4> QED  BY <4>1, ToSetIs
    <3>2. CASE ~Planned
      BY <3>2 DEF TeamsOK
    <3> QED  BY <3>1, <3>2
  <2> QED  BY <2>2, <2>3, <2>4 DEF TypeOK, StepsOK, TeamsOK, Stages
<1> QED  BY <1>1, TeamsAreSound, PTL

(* Every step of every plan has a team; nobody who is ill is dealt a step  *)
(* while somebody who would do is well (rank_workers).                     *)
THEOREM PlansAreStaffed == Spec => []StaffedWell
<1>1. StepsOK /\ TeamsOK => StaffedWell
  <2> SUFFICES ASSUME StepsOK, TeamsOK  PROVE StaffedWell
    OBVIOUS
  <2>1. ASSUME Planned, NEW i \in 1..Len(nodes)  PROVE team[nodes[i].id] # <<>>
    BY <2>1 DEF TeamsOK, Staffing, Crews, IdsOf
  <2>2. Planned => nodes # <<>>
    BY DEF StepsOK, Planned, Early
  <2>3. ASSUME stage = "ready", NEW i \in 1..Len(nodes), nodes[i].role # "verify",
               ~(ToSet(team[nodes[i].id]) \subseteq pool.health)
        PROVE  Candidates(Testing(nodes[i]), Coders) \intersect pool.health = {}
    <3> DEFINE cands == Candidates(Testing(nodes[i]), Coders)
    <3>1. cands \in SUBSET Workers /\ cands # {}
      <4>1. Coders \in SUBSET Workers
        BY DEF Coders
      <4> QED  BY <4>1, CandidatesAre
    <3>2. ToSet(team[nodes[i].id]) \subseteq Eligible(cands, pool.health)
      BY <2>3 DEF TeamsOK, TeamOf
    <3> HIDE DEF cands
    <3>3. cands \intersect pool.health # {} => Eligible(cands, pool.health) \subseteq pool.health
      BY <3>1, EligibleIs
    <3> QED  BY <2>3, <3>2, <3>3 DEF cands
  <2> QED  BY <2>1, <2>2, <2>3 DEF StaffedWell
<1> QED  BY <1>1, TeamsAreSound, PTL

(* Nobody judges their own work who could be spared it                     *)
(* (_prefer_distinct_verify_workers), for every plan and every pool.       *)
THEOREM JudgesAreApart == Spec => []JudgesApart
<1>1. StepsOK /\ TeamsOK => JudgesApart
  BY DEF TeamsOK, JudgesApart, Apart
<1> QED  BY <1>1, TeamsAreSound, PTL


-----------------------------------------------------------------------------
(* The layers *)

(* Placing step u leaves the others where they are.                        *)
PlacedAt(ns, level, u, up) ==
  /\ up \in [1..Len(ns) -> Nat] /\ up[u] # 0
  /\ \A v \in 1..Len(ns) : v # u => up[v] = level[v]
  /\ \A j \in 1..Len(ns) : ns[j].id \in ns[u].deps => level[j] < up[u]
  /\ up[u] = 1 \/ \E j \in 1..Len(ns) : ns[j].id \in ns[u].deps /\ level[j] + 1 = up[u]

LEMMA PlaceIs ==
  ASSUME NEW ns \in Seq(Item), NEW level \in [1..Len(ns) -> Nat], NEW u \in 1..Len(ns)
  PROVE  PlacedAt(ns, level, u, Place(ns, level, u))
<1> DEFINE n == Len(ns)
           on == {j \in 1..n : ns[j].id \in ns[u].deps}
           below == {level[j] : j \in on}
           up == Place(ns, level, u)
<1>1. below \in SUBSET Int /\ IsFiniteSet(below) /\ below \in SUBSET Nat
  <2>1. n \in Nat /\ on \in SUBSET (1..n)
    OBVIOUS
  <2>2. IsFiniteSet(on)
    <3> HIDE DEF on
    <3>1. IsFiniteSet(1..n)
      BY <2>1, IntervalSize
    <3> QED  BY <2>1, <3>1, FS_Subset
  <2>3. IsFiniteSet(below)
    <3> HIDE DEF on
    <3> QED  BY <2>2, FiniteImage
  <2> QED  BY <2>3
<1>2. up = [level EXCEPT ![u] = After(below)]
  BY DEF Place
<1>3. \A j \in 1..n : ns[j].id \in ns[u].deps => level[j] \in below
  OBVIOUS
<1>4. \A x \in below : \E j \in 1..n : ns[j].id \in ns[u].deps /\ level[j] = x
  OBVIOUS
<1> HIDE DEF below, up
<1>5. /\ After(below) \in Nat \ {0} /\ \A x \in below : x < After(below)
      /\ After(below) = 1 \/ \E x \in below : x + 1 = After(below)
  <2>1. CASE below = {}
    BY <2>1 DEF After
  <2>2. CASE below # {}
    <3>1. Max(below) \in below /\ \A x \in below : x <= Max(below)
      BY <1>1, <2>2, MaxIs
    <3>2. After(below) = Max(below) + 1 /\ Max(below) \in Nat
      BY <1>1, <2>2, <3>1 DEF After
    <3>3. \A x \in below : x \in Nat
      BY <1>1
    <3> QED  BY <3>1, <3>2, <3>3
  <2> QED  BY <2>1, <2>2
<1>6. up \in [1..n -> Nat] /\ up[u] = After(below) /\ \A v \in 1..n : v # u => up[v] = level[v]
  BY <1>2, <1>5
<1> QED  BY <1>3, <1>4, <1>5, <1>6 DEF PlacedAt, up

LEMMA LevelsRuns ==
  ASSUME NEW ns \in Seq(Item)
  PROVE  \E h : /\ h[0] = [i \in 1..Len(ns) |-> 0] /\ Levels(ns) = h[Len(Kahn(ns))]
                /\ \A k \in 1..Len(Kahn(ns)) : h[k] = Place(ns, h[k - 1], Kahn(ns)[k])
<1> DEFINE order == Kahn(ns)
           n == Len(order)
           V == [1..Len(ns) -> Nat]
           base == [i \in 1..Len(ns) |-> 0]
           G == [k \in 1..n |-> [v \in V |-> Place(ns, v, order[k])]]
           Eq(it) == [P \in SUBSET (1..n) |->
                        IF P = {} THEN base ELSE Place(ns, it[P \ {Max(P)}], order[Max(P)])]
           F == CHOOSE it : it = Eq(it)
           h == [k \in 0..n |-> F[1..k]]
<1>0. order \in Seq(1..Len(ns))
  BY KahnIs
<1>n. n \in Nat /\ DOMAIN order = 1..n /\ \A k \in 1..n : order[k] \in 1..Len(ns)
  <2> HIDE DEF order
  <2> QED  BY <1>0
<1>1. Levels(ns) = F[1..n]
  BY <1>n DEF Levels, FoldLeft, MapThenFoldSet
<1>2. G \in [1..n -> [V -> V]] /\ base \in V
  <2>1. \A k \in 1..n : \A v \in V : Place(ns, v, order[k]) \in V
    BY <1>n, PlaceIs DEF PlacedAt
  <2> QED  BY <2>1
<1>3. PICK it \in [SUBSET (1..n) -> V] :
        \A P \in SUBSET (1..n) : it[P] = FoldBy(G, base, it, P)
  <2> HIDE DEF G, V, n, base
  <2>2. PICK it : Computes(n, V, G, base, it)
    BY <1>n, <1>2, FoldsExist
  <2> QED  BY <2>2 DEF Computes
<1> HIDE DEF order
<1>4. it = Eq(it)
  <2>1. ASSUME NEW P \in SUBSET (1..n), P # {}
        PROVE  it[P] = Place(ns, it[P \ {Max(P)}], order[Max(P)])
    <3>1. Max(P) \in 1..n
      BY <1>n, <2>1, MaxOfPositions
    <3>2. it[P \ {Max(P)}] \in V
      OBVIOUS
    <3> QED  BY <1>3, <2>1, <3>1, <3>2 DEF FoldBy
  <2>2. it[{}] = base
    BY <1>3 DEF FoldBy
  <2> QED  BY <2>1, <2>2
<1>5. F = Eq(F)
  BY <1>4
<1>6. h[0] = base
  <2>1. F[{}] = base
    <3> HIDE DEF F, base
    <3> QED  BY <1>5
  <2>2. 1..0 = {} /\ 0 \in 0..n
    BY <1>n
  <2> HIDE DEF F, base
  <2> QED  BY <2>1, <2>2
<1>7. ASSUME NEW k \in 1..n
      PROVE  h[k] = Place(ns, h[k - 1], order[k])
  <2>1. /\ 1..k \in SUBSET (1..n) /\ 1..k # {} /\ Max(1..k) = k
        /\ (1..k) \ {k} = 1..(k - 1)
    BY <1>n, FirstPositions
  <2>2. F[1..k] = Place(ns, F[1..(k - 1)], order[k])
    <3> HIDE DEF F
    <3> QED  BY <1>5, <2>1
  <2>3. k \in 0..n /\ k - 1 \in 0..n
    BY <1>n
  <2> HIDE DEF F
  <2> QED  BY <2>2, <2>3
<1>8. Levels(ns) = h[n]
  <2>1. n \in 0..n
    BY <1>n
  <2> HIDE DEF F
  <2> QED  BY <1>1, <2>1
<1> HIDE DEF h
<1> QED  BY <1>6, <1>7, <1>8 DEF order

(* A step is higher than those it depends on, and just above one of them   *)
(* unless it is at the bottom.                                             *)
HighAs(ns, level, u) ==
  /\ level[u] # 0
  /\ \A j \in 1..Len(ns) : ns[j].id \in ns[u].deps => level[j] < level[u]
  /\ level[u] = 1 \/ \E j \in 1..Len(ns) : ns[j].id \in ns[u].deps /\ level[j] + 1 = level[u]

Levelled(ns, order, k, level) ==
  /\ level \in [1..Len(ns) -> Nat]
  /\ \A q \in 1..k : HighAs(ns, level, order[q])

LEMMA PlaceLevels ==
  ASSUME NEW ns \in Seq(Item), Unique(ns), NEW order \in Seq(1..Len(ns)), NoRepeats(order),
         \A p \in 1..Len(order) : ns[order[p]].deps \subseteq IdsBefore(ns, order, p),
         NEW k \in Nat, k + 1 <= Len(order), NEW level, Levelled(ns, order, k, level)
  PROVE  Levelled(ns, order, k + 1, Place(ns, level, order[k + 1]))
<1> DEFINE u == order[k + 1]  up == Place(ns, level, u)
<1>n. /\ Len(order) \in Nat /\ k + 1 \in 1..Len(order) /\ 1..k \subseteq 1..Len(order)
      /\ \A q \in 1..(k + 1) : q = k + 1 \/ q \in 1..k
      /\ \A q \in 1..Len(order) : order[q] \in 1..Len(ns)
  <2>1. Len(order) \in Nat
    OBVIOUS
  <2> QED  BY <2>1
<1>1. level \in [1..Len(ns) -> Nat] /\ u \in 1..Len(ns)
  BY <1>n DEF Levelled
<1>2. PlacedAt(ns, level, u, up)
  BY <1>1, PlaceIs
<1>3. \A q \in 1..k : order[q] # u
  <2> SUFFICES ASSUME NEW q \in 1..k, order[q] = u  PROVE FALSE
    OBVIOUS
  <2>1. q \in 1..Len(order) /\ q # k + 1
    BY <1>n
  <2> QED  BY <1>n, <2>1 DEF NoRepeats
<1>4. ASSUME NEW q \in 1..(k + 1), NEW j \in 1..Len(ns), ns[j].id \in ns[order[q]].deps
      PROVE  j # u
  <2>1. q \in 1..Len(order)
    BY <1>n
  <2>2. ns[j].id \in IdsBefore(ns, order, q)
    BY <1>4, <2>1
  <2>3. PICK p \in 1..(q - 1) : ns[j].id = ns[order[p]].id
    BY <2>2 DEF IdsBefore
  <2>4. p \in 1..k
    BY <1>4, <2>3, <1>n
  <2>5. j = order[p]
    BY <1>n, <2>3, <2>4 DEF Unique
  <2> QED  BY <1>3, <2>4, <2>5
<1> HIDE DEF up, u
<1>5. ASSUME NEW q \in 1..(k + 1)  PROVE HighAs(ns, up, order[q])
  <2>1. \A j \in 1..Len(ns) : ns[j].id \in ns[order[q]].deps => up[j] = level[j]
    BY <1>2, <1>4 DEF PlacedAt
  <2>2. CASE q = k + 1
    <3>1. order[q] = u
      BY <2>2 DEF u
    <3> QED  BY <1>2, <2>1, <3>1 DEF PlacedAt, HighAs
  <2>3. CASE q \in 1..k
    <3>1. up[order[q]] = level[order[q]] /\ HighAs(ns, level, order[q])
      BY <1>2, <1>3, <1>n, <2>3 DEF PlacedAt, Levelled
    <3> QED  BY <2>1, <3>1 DEF HighAs
  <2> QED  BY <1>n, <2>2, <2>3
<1>6. up \in [1..Len(ns) -> Nat]
  BY <1>2 DEF PlacedAt
<1> QED  BY <1>5, <1>6 DEF Levelled, up, u

LEMMA LevelsAre ==
  ASSUME NEW ns, Sound(ns), Len(Kahn(ns)) = Len(ns)
  PROVE  /\ Levels(ns) \in [1..Len(ns) -> Nat]
         /\ \A u \in 1..Len(ns) : HighAs(ns, Levels(ns), u)
<1> DEFINE order == Kahn(ns)  n == Len(order)
<1>0. ns \in Seq(Item) /\ Unique(ns) /\ Len(ns) \in Nat
  BY DEF Sound
<1>1. /\ order \in Seq(1..Len(ns)) /\ NoRepeats(order) /\ n \in Nat
      /\ \A p \in 1..n : ns[order[p]].deps \subseteq IdsBefore(ns, order, p)
  BY <1>0, KahnIs
<1>2. PICK h : /\ h[0] = [i \in 1..Len(ns) |-> 0] /\ Levels(ns) = h[n]
               /\ \A k \in 1..n : h[k] = Place(ns, h[k - 1], order[k])
  BY <1>0, LevelsRuns
<1> HIDE DEF order
<1> DEFINE Ks == {k \in Nat : k <= n => Levelled(ns, order, k, h[k])}
<1>3. 0 \in Ks
  <2>1. \A i \in 1..0 : FALSE
    OBVIOUS
  <2>2. Levelled(ns, order, 0, h[0])
    BY <1>2, <2>1 DEF Levelled
  <2> QED  BY <2>2
<1>4. ASSUME NEW k \in Ks  PROVE k + 1 \in Ks
  <2>n. k \in Nat /\ k + 1 \in Nat
    BY <1>4
  <2> SUFFICES ASSUME k + 1 <= n  PROVE Levelled(ns, order, k + 1, h[k + 1])
    BY <2>n
  <2>1. k + 1 \in 1..n /\ (k + 1) - 1 = k /\ k <= n
    BY <1>1, <2>n
  <2>2. Levelled(ns, order, k, h[k]) /\ h[k + 1] = Place(ns, h[k], order[k + 1])
    BY <1>2, <1>4, <2>1
  <2> QED  BY <1>0, <1>1, <2>n, <2>2, PlaceLevels
<1>5. Ks = Nat
  <2> HIDE DEF Ks
  <2>1. Ks \in SUBSET Nat
    BY DEF Ks
  <2> QED  BY <1>3, <1>4, <2>1, SetInduction
<1>6. Levelled(ns, order, n, h[n])
  <2>1. n \in Ks /\ n <= n
    BY <1>1, <1>5
  <2> QED  BY <2>1
<1>7. \A v \in 1..Len(ns) : \E p \in 1..n : order[p] = v
  <2>1. n = Len(ns)
    BY DEF order
  <2> QED  BY <1>0, <1>1, <2>1, AllOfThem DEF NoRepeats
<1>8. Levels(ns) \in [1..Len(ns) -> Nat] /\ \A q \in 1..n : HighAs(ns, Levels(ns), order[q])
  BY <1>2, <1>6 DEF Levelled
<1> QED  BY <1>7, <1>8


(* The ids of the steps on level l, in topological order.                  *)
RowOf(ns, order, level, l) ==
  LET in == Select(order, {p \in 1..Len(order) : level[order[p]] = l})
  IN [p \in 1..Len(in) |-> ns[in[p]].id]
On(ns, level, l) == {ns[i].id : i \in {i \in 1..Len(ns) : level[i] = l}}

LEMMA RowIs ==
  ASSUME NEW ns \in Seq(Item), Unique(ns), NEW order \in Seq(1..Len(ns)), NoRepeats(order),
         \A v \in 1..Len(ns) : \E p \in 1..Len(order) : order[p] = v,
         NEW level, NEW l
  PROVE  /\ RowOf(ns, order, level, l) \in Seq(Nat) /\ NoRepeats(RowOf(ns, order, level, l))
         /\ ToSet(RowOf(ns, order, level, l)) = On(ns, level, l)
<1> DEFINE P == {p \in 1..Len(order) : level[order[p]] = l}
           in == Select(order, P)
           row == [p \in 1..Len(in) |-> ns[in[p]].id]
           io == InOrder(P)
<1>0. Len(order) \in Nat /\ \A p \in 1..Len(order) : order[p] \in 1..Len(ns)
  OBVIOUS
<1>1. P \in SUBSET (1..Len(order)) /\ \A p \in P : level[order[p]] = l
  OBVIOUS
<1>2. \A v \in 1..Len(ns) : level[v] = l => \E p \in P : order[p] = v
  OBVIOUS
<1>3. RowOf(ns, order, level, l) = row
  BY DEF RowOf
<1> HIDE DEF P
<1>4. /\ in \in Seq(1..Len(ns)) /\ Len(in) = Cardinality(P) /\ Cardinality(P) \in Nat
      /\ \A k \in 1..Len(in) : io[k] \in P /\ in[k] = order[io[k]]
      /\ \A i \in P : \E k \in 1..Len(in) : in[k] = order[i]
  BY <1>0, <1>1, SelectIs
<1>5. \A k, m \in 1..Len(in) : k < m => io[k] < io[m]
  BY <1>0, <1>1, <1>4, InOrderIs
<1> HIDE DEF in, io
<1>6. \A p \in 1..Len(in) : in[p] \in 1..Len(ns) /\ ns[in[p]].id \in Nat
  <2>1. \A p \in 1..Len(in) : in[p] \in 1..Len(ns) /\ ns[in[p]] \in Item
    BY <1>4
  <2> QED  BY <2>1 DEF Item
<1>m. PICK m \in Nat : m = Len(in)
  BY <1>4
<1>7. row \in Seq(Nat) /\ Len(row) = m /\ \A p \in 1..m : row[p] = ns[in[p]].id
  <2>1. row \in [1..m -> Nat] /\ \A p \in 1..m : row[p] = ns[in[p]].id
    BY <1>6, <1>m
  <2> HIDE DEF row
  <2> QED  BY <2>1
<1> HIDE DEF row
<1>8. NoRepeats(row)
  <2> SUFFICES ASSUME NEW p \in 1..Len(row), NEW q \in 1..Len(row), row[p] = row[q]  PROVE p = q
    BY DEF NoRepeats
  <2>1. p \in 1..m /\ q \in 1..m /\ p \in Nat /\ q \in Nat
    BY <1>7
  <2>2. in[p] = in[q]
    <3>1. in[p] \in 1..Len(ns) /\ in[q] \in 1..Len(ns) /\ ns[in[p]].id = ns[in[q]].id
      BY <1>6, <1>7, <1>m, <2>1
    <3> QED  BY <3>1 DEF Unique
  <2>3. order[io[p]] = order[io[q]] /\ io[p] \in 1..Len(order) /\ io[q] \in 1..Len(order)
    BY <1>1, <1>4, <1>m, <2>1, <2>2
  <2>4. io[p] = io[q] /\ io[p] \in Nat
    <3>1. \A a, b \in 1..Len(order) : order[a] = order[b] => a = b
      BY DEF NoRepeats
    <3> DEFINE a == io[p]  b == io[q]
    <3>2. a \in 1..Len(order) /\ b \in 1..Len(order) /\ order[a] = order[b]
      BY <2>3
    <3> HIDE DEF a, b
    <3>3. a = b
      BY <3>1, <3>2
    <3>4. a \in Nat
      BY <3>2
    <3> QED  BY <3>3, <3>4 DEF a, b
  <2>5. ~(p < q) /\ ~(q < p)
    BY <1>5, <1>m, <2>1, <2>4
  <2> QED  BY <2>1, <2>5
<1>9. ToSet(row) = {row[p] : p \in 1..Len(row)}
  BY <1>7, ToSetIs
<1>10. ToSet(row) \subseteq On(ns, level, l)
  <2>1. \A p \in 1..m : level[in[p]] = l
    <3>1. \A p \in 1..m : io[p] \in P /\ in[p] = order[io[p]]
      BY <1>4, <1>m
    <3> QED  BY <1>1, <3>1, Zenon
  <2> SUFFICES ASSUME NEW x \in ToSet(row)  PROVE x \in On(ns, level, l)
    OBVIOUS
  <2>2. PICK p \in 1..m : x = ns[in[p]].id
    <3>1. ToSet(row) = {row[p] : p \in 1..m}
      BY <1>7, <1>9, Zenon
    <3>2. PICK p \in 1..m : x = row[p]
      BY <3>1, Zenon
    <3> QED  BY <1>7, <3>2, Zenon
  <2>3. in[p] \in {i \in 1..Len(ns) : level[i] = l}
    BY <1>6, <1>m, <2>1
  <2> QED  BY <2>2, <2>3 DEF On
<1>11. On(ns, level, l) \subseteq ToSet(row)
  <2> SUFFICES ASSUME NEW i \in 1..Len(ns), level[i] = l  PROVE ns[i].id \in ToSet(row)
    BY DEF On
  <2>1. PICK p \in P : order[p] = i
    BY <1>2
  <2>2. PICK k \in 1..m : in[k] = order[p]
    BY <1>4, <1>m
  <2> QED  BY <1>7, <1>9, <2>1, <2>2
<1> QED  BY <1>3, <1>7, <1>8, <1>10, <1>11

(* A plan that is laid out: each step has a level, each layer has the      *)
(* steps of its level, and what a step depends on is on a lower one.       *)
ScheduledBy(ns, lay, level) ==
  /\ level \in [1..Len(ns) -> 1..Len(lay)]
  /\ lay \in Seq(Seq(Nat))
  /\ \A l \in 1..Len(lay) : lay[l] # <<>> /\ NoRepeats(lay[l]) /\ ToSet(lay[l]) = On(ns, level, l)
  /\ \A i, j \in 1..Len(ns) : ns[j].id \in ns[i].deps => level[j] < level[i]

(* No level is empty: below each step there is one on the level below.     *)
LEMMA NoLevelEmpty ==
  ASSUME NEW ns, NEW level \in [1..Len(ns) -> Nat],
         \A u \in 1..Len(ns) : HighAs(ns, level, u), NEW top \in 1..Len(ns)
  PROVE  \A l \in 1..level[top] : \E i \in 1..Len(ns) : level[i] = l
<1> DEFINE L == level[top]
           Ms == {m \in Nat : m < L => \E i \in 1..Len(ns) : level[i] + m = L}
<1>0. L \in Nat
  OBVIOUS
<1>1. 0 \in Ms
  BY <1>0
<1>2. ASSUME NEW m \in Ms  PROVE m + 1 \in Ms
  <2>n. m \in Nat /\ m + 1 \in Nat
    BY <1>2
  <2> SUFFICES ASSUME m + 1 < L  PROVE \E i \in 1..Len(ns) : level[i] + (m + 1) = L
    BY <2>n
  <2>1. PICK u \in 1..Len(ns) : level[u] + m = L
    BY <1>0, <1>2, <2>n
  <2>2. level[u] \in Nat /\ level[u] # 1
    BY <1>0, <2>n, <2>1
  <2>3. PICK j \in 1..Len(ns) : level[j] + 1 = level[u]
    BY <2>2 DEF HighAs
  <2>4. level[j] \in Nat
    OBVIOUS
  <2>5. level[j] + (m + 1) = L
    BY <2>1, <2>3, <2>4, <2>n
  <2> QED  BY <2>5
<1>3. Ms = Nat
  <2> HIDE DEF Ms
  <2>1. Ms \in SUBSET Nat
    BY DEF Ms
  <2> QED  BY <1>1, <1>2, <2>1, SetInduction
<1>4. ASSUME NEW l \in 1..L  PROVE \E i \in 1..Len(ns) : level[i] = l
  <2>1. L - l \in Nat /\ L - l < L /\ l \in Nat
    BY <1>0
  <2>2. L - l \in Ms
    BY <1>3, <2>1
  <2>3. PICK i \in 1..Len(ns) : level[i] + (L - l) = L
    BY <2>1, <2>2
  <2>4. level[i] \in Nat
    OBVIOUS
  <2> QED  BY <1>0, <2>1, <2>3, <2>4
<1> QED  BY <1>4

LEMMA LayersAre ==
  ASSUME NEW ns, Sound(ns), ns # <<>>
  PROVE  ScheduledBy(LayerSteps(ns), Layers(ns), Levels(LayerSteps(ns)))
<1> DEFINE ls == LayerSteps(ns)
           order == Kahn(ls)
           level == Levels(ls)
           n == Len(ls)
           highs == {level[i] : i \in 1..n}
           L == Max(highs)
           lay == [l \in 1..L |-> RowOf(ls, order, level, l)]
<1>1. Sound(ls) /\ n = Len(ns) /\ Len(order) = n
  BY LayerStepsIs
<1>2. Layers(ns) = lay
  BY DEF Layers, RowOf
<1> HIDE DEF ls
<1>3. ls \in Seq(Item) /\ Unique(ls) /\ n \in Nat
  BY <1>1 DEF Sound
<1>4. n # 0
  <2>1. ns \in Seq(Item)
    BY DEF Sound
  <2> QED  BY <1>1, <2>1, EmptySeq
<1>5. level \in [1..n -> Nat] /\ \A u \in 1..n : HighAs(ls, level, u)
  BY <1>1, LevelsAre
<1>6. order \in Seq(1..n) /\ NoRepeats(order) /\ \A v \in 1..n : \E p \in 1..Len(order) : order[p] = v
  <2>1. order \in Seq(1..n) /\ NoRepeats(order)
    BY <1>3, KahnIs
  <2> QED  BY <1>1, <1>3, <2>1, AllOfThem DEF NoRepeats
<1> HIDE DEF level, order
<1>7. L \in highs /\ \A x \in highs : x <= L
  <2>1. highs \in SUBSET Int /\ highs # {}
    <3>1. 1 \in 1..n
      BY <1>3, <1>4
    <3> QED  BY <1>5, <3>1
  <2>2. IsFiniteSet(highs)
    <3>1. IsFiniteSet(1..n)
      BY <1>3, IntervalSize
    <3> QED  BY <3>1, FiniteImage
  <2> HIDE DEF highs
  <2> QED  BY <2>1, <2>2, MaxIs
<1>8. PICK top \in 1..n : level[top] = L
  BY <1>7
<1>9. \A i \in 1..n : level[i] <= L
  BY <1>7
<1> HIDE DEF highs, L
<1>10. L \in Nat /\ level \in [1..n -> 1..L]
  <2>1. L \in Nat
    BY <1>5, <1>8
  <2>2. \A i \in 1..n : level[i] \in Nat /\ level[i] # 0
    BY <1>5 DEF HighAs
  <2>3. \A i \in 1..n : level[i] \in 1..L
    BY <1>9, <2>1, <2>2
  <2> QED  BY <1>5, <2>1, <2>3
<1>11. \A l : /\ RowOf(ls, order, level, l) \in Seq(Nat) /\ NoRepeats(RowOf(ls, order, level, l))
              /\ ToSet(RowOf(ls, order, level, l)) = On(ls, level, l)
  BY <1>3, <1>6, RowIs
<1>12. lay \in Seq(Seq(Nat)) /\ Len(lay) = L
  <2>1. lay \in [1..L -> Seq(Nat)]
    BY <1>11
  <2> HIDE DEF lay
  <2> QED  BY <1>10, <2>1
<1>13. \A l \in 1..L : lay[l] = RowOf(ls, order, level, l)
  OBVIOUS
<1> HIDE DEF lay
<1>14. ASSUME NEW l \in 1..L  PROVE lay[l] # <<>>
  <2>0. \A m \in 1..level[top] : \E i \in 1..n : level[i] = m
    BY <1>5, NoLevelEmpty
  <2>1. PICK i \in 1..n : level[i] = l
    BY <1>8, <2>0
  <2>2. ls[i].id \in ToSet(lay[l])
    BY <1>11, <1>13, <2>1 DEF On
  <2> QED  BY <2>2 DEF ToSet
<1>15. \A i, j \in 1..n : ls[j].id \in ls[i].deps => level[j] < level[i]
  BY <1>5 DEF HighAs
<1>16. ScheduledBy(ls, lay, level)
  BY <1>10, <1>11, <1>12, <1>13, <1>14, <1>15 DEF ScheduledBy
<1> QED  BY <1>2, <1>16 DEF ls, level


(* One sequence after another.                                             *)
LEMMA JoinIs ==
  ASSUME NEW S, NEW a \in Seq(S), NEW b \in Seq(S)
  PROVE  /\ a \o b \in Seq(S) /\ ToSet(a \o b) = ToSet(a) \union ToSet(b)
         /\ NoRepeats(a) /\ NoRepeats(b) /\ ToSet(a) \intersect ToSet(b) = {} => NoRepeats(a \o b)
<1> DEFINE c == a \o b
<1>1. PICK m \in Nat, n \in Nat : m = Len(a) /\ n = Len(b)
  OBVIOUS
<1>2. c \in Seq(S) /\ Len(c) = m + n
  BY <1>1
<1>3. \A p \in 1..(m + n) : c[p] = IF p <= m THEN a[p] ELSE b[p - m]
  BY <1>1
<1> HIDE DEF c
<1>4. /\ ToSet(a) = {a[p] : p \in 1..m} /\ ToSet(b) = {b[p] : p \in 1..n}
      /\ ToSet(c) = {c[p] : p \in 1..(m + n)}
  <2>1. \A s \in Seq(S) : ToSet(s) = {s[p] : p \in 1..Len(s)}
    BY ToSetIs
  <2> QED  BY <1>1, <1>2, <2>1
<1>5. \A p \in 1..m : p \in 1..(m + n) /\ c[p] = a[p]
  BY <1>3
<1>6. \A p \in 1..n : p + m \in 1..(m + n) /\ c[p + m] = b[p]
  BY <1>3
<1>7. ASSUME NEW p \in 1..(m + n)
      PROVE  \/ p \in 1..m /\ c[p] = a[p] /\ c[p] \in ToSet(a)
             \/ p \notin 1..m /\ p - m \in 1..n /\ c[p] = b[p - m] /\ c[p] \in ToSet(b)
  <2>1. CASE p <= m
    BY <1>3, <1>4, <2>1
  <2>2. CASE ~(p <= m)
    <3>1. p - m \in 1..n /\ p \notin 1..m
      BY <2>2
    <3> QED  BY <1>3, <1>4, <2>2, <3>1
  <2> QED  BY <2>1, <2>2
<1>8. ToSet(c) = ToSet(a) \union ToSet(b)
  <2>1. ToSet(c) \subseteq ToSet(a) \union ToSet(b)
    BY <1>4, <1>7
  <2>2. ToSet(a) \subseteq ToSet(c)
    BY <1>4, <1>5
  <2>3. ToSet(b) \subseteq ToSet(c)
    BY <1>4, <1>6
  <2> QED  BY <2>1, <2>2, <2>3
<1>9. ASSUME NoRepeats(a), NoRepeats(b), ToSet(a) \intersect ToSet(b) = {}  PROVE NoRepeats(c)
  <2> SUFFICES ASSUME NEW p \in 1..(m + n), NEW q \in 1..(m + n), c[p] = c[q]  PROVE p = q
    BY <1>2 DEF NoRepeats
  <2>1. CASE p \in 1..m /\ q \in 1..m
    <3>1. a[p] = a[q]
      BY <1>5, <2>1
    <3> QED  BY <1>1, <1>9, <2>1, <3>1 DEF NoRepeats
  <2>2. CASE p \notin 1..m /\ q \notin 1..m
    <3>1. p - m \in 1..n /\ q - m \in 1..n /\ b[p - m] = b[q - m]
      BY <1>7, <2>2
    <3>2. p - m = q - m
      BY <1>1, <1>9, <3>1 DEF NoRepeats
    <3> QED  BY <3>2
  <2>3. CASE ~(p \in 1..m <=> q \in 1..m)
    <3>1. c[p] \in ToSet(a) \intersect ToSet(b)
      BY <1>7, <2>3
    <3> QED  BY <1>9, <3>1
  <2> QED  BY <2>1, <2>2, <2>3
<1> QED  BY <1>2, <1>8, <1>9 DEF c

LEMMA FlattenRuns ==
  ASSUME NEW S, NEW lay \in Seq(Seq(S))
  PROVE  \E h : /\ h[0] = <<>> /\ FlattenSeq(lay) = h[Len(lay)]
                /\ \A k \in 1..Len(lay) : h[k] = h[k - 1] \o lay[k]
<1> DEFINE n == Len(lay)
           V == Seq(S)
           base == <<>>
           G == [k \in 1..n |-> [v \in V |-> v \o lay[k]]]
           Eq(f) == [i \in 1..n |-> IF i = 1 THEN lay[i] ELSE f[i - 1] \o lay[i]]
           F == CHOOSE f : f = Eq(f)
           h == [k \in 0..n |-> IF k = 0 THEN <<>> ELSE F[k]]
<1>n. n \in Nat /\ \A k \in 1..n : lay[k] \in Seq(S)
  OBVIOUS
<1>1. FlattenSeq(lay) = IF n = 0 THEN lay ELSE F[n]
  BY DEF FlattenSeq
<1>2. G \in [1..n -> [V -> V]] /\ base \in V
  <2>1. \A k \in 1..n : \A v \in V : v \o lay[k] \in V
    BY <1>n
  <2>2. <<>> \in V
    BY EmptySeq
  <2> QED  BY <2>1, <2>2
<1>3. PICK it \in [SUBSET (1..n) -> V] :
        \A P \in SUBSET (1..n) : it[P] = FoldBy(G, base, it, P)
  <2> HIDE DEF G, V, n, base
  <2>2. PICK it : Computes(n, V, G, base, it)
    BY <1>n, <1>2, FoldsExist
  <2> QED  BY <2>2 DEF Computes
<1> DEFINE f == [i \in 1..n |-> it[1..i]]
<1>4. ASSUME NEW k \in 1..n  PROVE it[1..k] = it[1..(k - 1)] \o lay[k] /\ it[1..k] \in Seq(S)
  <2>1. /\ 1..k \in SUBSET (1..n) /\ 1..k # {} /\ Max(1..k) = k
        /\ (1..k) \ {k} = 1..(k - 1)
    BY <1>n, FirstPositions
  <2>2. 1..(k - 1) \in SUBSET (1..n)
    BY <1>n
  <2>3. it[1..k] = G[k][it[1..(k - 1)]]
    <3> HIDE DEF G, V, base
    <3> QED  BY <1>3, <2>1 DEF FoldBy
  <2>4. it[1..(k - 1)] \in V /\ it[1..k] \in V
    BY <2>1, <2>2
  <2> QED  BY <2>3, <2>4
<1>5. 1..0 = {} /\ it[{}] = <<>>
  <2>1. it[{}] = <<>>
    BY <1>3 DEF FoldBy
  <2> QED  BY <2>1
<1>6. f = Eq(f)
  <2>1. ASSUME NEW k \in 1..n  PROVE f[k] = IF k = 1 THEN lay[k] ELSE f[k - 1] \o lay[k]
    <3>1. CASE k = 1
      <4>1. k - 1 = 0
        BY <3>1
      <4>2. it[1..k] = <<>> \o lay[k]
        BY <1>4, <1>5, <4>1
      <4>3. <<>> \o lay[k] = lay[k]
        BY <1>n
      <4> QED  BY <3>1, <4>2, <4>3
    <3>2. CASE k # 1
      <4>1. k - 1 \in 1..n
        BY <1>n, <3>2
      <4> QED  BY <1>4, <3>2, <4>1
    <3> QED  BY <3>1, <3>2
  <2> HIDE DEF n
  <2> QED  BY <2>1
<1>7. F = Eq(F)
  <2> HIDE DEF f
  <2> QED  BY <1>6
<1> HIDE DEF F
<1>8. h[0] = <<>>
  BY <1>n
<1>9. ASSUME NEW k \in 1..n  PROVE h[k] = h[k - 1] \o lay[k]
  <2>0. k \in 0..n /\ k - 1 \in 0..n /\ k # 0
    BY <1>n
  <2>1. CASE k = 1
    <3>1. F[k] = lay[k] /\ <<>> \o lay[k] = lay[k]
      BY <1>7, <1>n, <2>1
    <3> QED  BY <2>0, <2>1, <3>1
  <2>2. CASE k # 1
    <3>1. F[k] = F[k - 1] \o lay[k]
      BY <1>7, <2>2
    <3>2. k - 1 # 0
      BY <1>n, <2>2
    <3> QED  BY <2>0, <3>1, <3>2
  <2> QED  BY <2>1, <2>2
<1>10. FlattenSeq(lay) = h[n]
  <2>1. CASE n = 0
    <3>1. lay = <<>>
      BY <2>1, EmptySeq
    <3> QED  BY <1>1, <1>8, <2>1, <3>1
  <2>2. CASE n # 0
    BY <1>1, <1>n, <2>2
  <2> QED  BY <2>1, <2>2
<1> HIDE DEF h
<1> QED  BY <1>8, <1>9, <1>10

(* The first k rows, flattened.                                            *)
FlatTo(S, lay, k, s) ==
  s \in Seq(S) /\ NoRepeats(s) /\ ToSet(s) = UNION {ToSet(lay[l]) : l \in 1..k}

LEMMA FlattenNext ==
  ASSUME NEW S, NEW lay, NEW k \in Nat, lay[k + 1] \in Seq(S), NoRepeats(lay[k + 1]),
         \A l \in 1..k : ToSet(lay[l]) \intersect ToSet(lay[k + 1]) = {},
         NEW s, FlatTo(S, lay, k, s)
  PROVE  FlatTo(S, lay, k + 1, s \o lay[k + 1])
<1> DEFINE b == lay[k + 1]  rows == UNION {ToSet(lay[l]) : l \in 1..k}
           more == UNION {ToSet(lay[l]) : l \in 1..(k + 1)}
<1>1. s \in Seq(S) /\ NoRepeats(s) /\ ToSet(s) = rows
  BY DEF FlatTo
<1>2. rows \intersect ToSet(b) = {}
  OBVIOUS
<1>3. more = rows \union ToSet(b)
  <2>0. \A l : l \in 1..(k + 1) <=> l = k + 1 \/ l \in 1..k
    OBVIOUS
  <2>1. \A x : x \in more <=> \E l \in 1..(k + 1) : x \in ToSet(lay[l])
    OBVIOUS
  <2>2. \A x : x \in rows <=> \E l \in 1..k : x \in ToSet(lay[l])
    OBVIOUS
  <2> HIDE DEF more, rows
  <2>3. \A x : x \in more <=> x \in rows \/ x \in ToSet(b)
    BY <2>0, <2>1, <2>2
  <2> QED  BY <2>3
<1> HIDE DEF rows, more
<1>4. b \in Seq(S) /\ NoRepeats(b)
  OBVIOUS
<1> HIDE DEF b
<1>5. s \o b \in Seq(S) /\ NoRepeats(s \o b) /\ ToSet(s \o b) = ToSet(s) \union ToSet(b)
  BY <1>1, <1>2, <1>4, JoinIs
<1>6. ToSet(s \o b) = more
  BY <1>1, <1>3, <1>5
<1> QED  BY <1>5, <1>6 DEF FlatTo, more, b

(* Rows that have nothing in common, flattened.                            *)
LEMMA FlattenIs ==
  ASSUME NEW S, NEW lay \in Seq(Seq(S)), \A l \in 1..Len(lay) : NoRepeats(lay[l]),
         \A l, m \in 1..Len(lay) : l # m => ToSet(lay[l]) \intersect ToSet(lay[m]) = {}
  PROVE  FlatTo(S, lay, Len(lay), FlattenSeq(lay))
<1> DEFINE n == Len(lay)
<1>n. n \in Nat /\ \A k \in 1..n : lay[k] \in Seq(S)
  OBVIOUS
<1>1. PICK h : /\ h[0] = <<>> /\ FlattenSeq(lay) = h[n]
               /\ \A k \in 1..n : h[k] = h[k - 1] \o lay[k]
  BY FlattenRuns
<1> DEFINE Ks == {k \in Nat : k <= n => FlatTo(S, lay, k, h[k])}
<1>2. 0 \in Ks
  <2>1. <<>> \in Seq(S) /\ Len(<<>>) = 0 /\ \A p \in 1..0 : FALSE
    BY EmptySeq
  <2>2. NoRepeats(<<>>) /\ ToSet(<<>>) = {}
    BY <2>1 DEF NoRepeats, ToSet
  <2>3. UNION {ToSet(lay[l]) : l \in 1..0} = {}
    OBVIOUS
  <2>4. FlatTo(S, lay, 0, h[0])
    BY <1>1, <2>1, <2>2, <2>3 DEF FlatTo
  <2> QED  BY <2>4
<1>3. ASSUME NEW k \in Ks  PROVE k + 1 \in Ks
  <2>n. k \in Nat /\ k + 1 \in Nat
    BY <1>3
  <2> SUFFICES ASSUME k + 1 <= n  PROVE FlatTo(S, lay, k + 1, h[k + 1])
    BY <2>n
  <2>1. k + 1 \in 1..n /\ (k + 1) - 1 = k /\ k <= n /\ \A l \in 1..k : l \in 1..n /\ l # k + 1
    BY <1>n, <2>n
  <2>2. FlatTo(S, lay, k, h[k]) /\ h[k + 1] = h[k] \o lay[k + 1]
    BY <1>1, <1>3, <2>1
  <2>3. \A l \in 1..k : ToSet(lay[l]) \intersect ToSet(lay[k + 1]) = {}
    BY <2>1
  <2>4. lay[k + 1] \in Seq(S) /\ NoRepeats(lay[k + 1])
    BY <1>n, <2>1
  <2> QED  BY <2>n, <2>2, <2>3, <2>4, FlattenNext
<1>4. Ks = Nat
  <2> HIDE DEF Ks
  <2>1. Ks \in SUBSET Nat
    BY DEF Ks
  <2> QED  BY <1>2, <1>3, <2>1, SetInduction
<1>5. FlatTo(S, lay, n, h[n])
  <2>1. n \in Ks /\ n <= n
    BY <1>n, <1>4
  <2> QED  BY <2>1
<1> QED  BY <1>1, <1>5

(* A sequence has at most as many elements as places, and exactly as many  *)
(* when nothing is in it twice.                                            *)
LEMMA ElementsCount ==
  ASSUME NEW S, NEW s \in Seq(S)
  PROVE  /\ IsFiniteSet(ToSet(s)) /\ Cardinality(ToSet(s)) <= Len(s)
         /\ NoRepeats(s) => Cardinality(ToSet(s)) = Len(s)
<1> DEFINE n == Len(s)  T == ToSet(s)
<1>1. n \in Nat /\ s \in [1..n -> T]
  <2>1. T = {s[p] : p \in 1..n}
    BY ToSetIs
  <2>2. s \in [1..n -> S]
    OBVIOUS
  <2> HIDE DEF T
  <2> QED  BY <2>1, <2>2
<1>2. s \in Surjection(1..n, T)
  <2>1. T = {s[p] : p \in 1..n}
    BY ToSetIs
  <2> HIDE DEF T
  <2> QED  BY <1>1, <2>1 DEF Surjection
<1>3. IsFiniteSet(1..n) /\ Cardinality(1..n) = n
  BY <1>1, IntervalSize
<1>4. NoRepeats(s) => s \in Injection(1..n, T)
  <2> HIDE DEF T
  <2> QED  BY <1>1 DEF Injection, IsInjective, NoRepeats
<1> HIDE DEF T
<1>5. /\ IsFiniteSet(T) /\ Cardinality(T) <= Cardinality(1..n)
      /\ Cardinality(T) = Cardinality(1..n) <=> s \in Injection(1..n, T)
  BY <1>2, <1>3, FS_Surjection
<1> QED  BY <1>3, <1>4, <1>5 DEF T


(* The layers flattened are the steps, each once; and the layer a step is  *)
(* in is that of its level.                                                *)
LEMMA ScheduleIs ==
  ASSUME NEW ns, Sound(ns), NEW lay, NEW level, ScheduledBy(ns, lay, level)
  PROVE  /\ FlattenSeq(lay) \in Seq(Nat) /\ NoRepeats(FlattenSeq(lay))
         /\ ToSet(FlattenSeq(lay)) = IdsOf(ns) /\ Len(FlattenSeq(lay)) = Len(ns)
         /\ \A i \in 1..Len(ns) : \A l \in 1..Len(lay) : ns[i].id \in ToSet(lay[l]) <=> l = level[i]
<1> DEFINE n == Len(ns)  L == Len(lay)  flat == FlattenSeq(lay)
<1>1. ns \in Seq(Item) /\ Unique(ns) /\ n \in Nat
  BY DEF Sound
<1>2. /\ level \in [1..n -> 1..L] /\ lay \in Seq(Seq(Nat)) /\ L \in Nat
      /\ \A l \in 1..L : NoRepeats(lay[l]) /\ ToSet(lay[l]) = On(ns, level, l)
  BY DEF ScheduledBy
<1>3. ASSUME NEW i \in 1..n, NEW l  PROVE ns[i].id \in On(ns, level, l) <=> l = level[i]
  BY <1>1 DEF On, Unique
<1>4. \A l, m \in 1..L : l # m => ToSet(lay[l]) \intersect ToSet(lay[m]) = {}
  <2> SUFFICES ASSUME NEW l \in 1..L, NEW m \in 1..L, NEW x \in On(ns, level, l), x \in On(ns, level, m)
               PROVE  l = m
    BY <1>2
  <2>1. PICK i \in 1..n : x = ns[i].id
    BY DEF On
  <2> QED  BY <1>3, <2>1
<1>5. FlatTo(Nat, lay, L, flat)
  BY <1>2, <1>4, FlattenIs
<1>6. flat \in Seq(Nat) /\ NoRepeats(flat) /\ ToSet(flat) = UNION {ToSet(lay[l]) : l \in 1..L}
  BY <1>5 DEF FlatTo
<1>7. ToSet(flat) = IdsOf(ns)
  <2>1. ToSet(flat) \subseteq IdsOf(ns)
    <3> SUFFICES ASSUME NEW x \in ToSet(flat)  PROVE x \in IdsOf(ns)
      OBVIOUS
    <3>1. PICK l \in 1..L : x \in ToSet(lay[l])
      BY <1>6
    <3>2. x \in On(ns, level, l)
      BY <1>2, <3>1
    <3> QED  BY <3>2 DEF On, IdsOf
  <2>2. ASSUME NEW i \in 1..n  PROVE ns[i].id \in ToSet(flat)
    <3>1. level[i] \in 1..L
      BY <1>2
    <3>2. ns[i].id \in ToSet(lay[level[i]])
      BY <1>2, <1>3, <3>1
    <3> QED  BY <1>6, <3>1, <3>2
  <2> QED  BY <2>1, <2>2 DEF IdsOf
<1>8. Len(flat) = n
  <2>1. Cardinality(ToSet(flat)) = Len(flat)
    BY <1>6, ElementsCount
  <2>2. Cardinality(IdsOf(ns)) = n
    BY <1>1, IdsCount
  <2> QED  BY <1>7, <2>1, <2>2
<1> QED  BY <1>2, <1>3, <1>6, <1>7, <1>8

LEMMA RemarkedSchedule ==
  ASSUME NEW ns, NEW ms, Remarked(ns, ms), NEW lay, NEW level, ScheduledBy(ns, lay, level)
  PROVE  ScheduledBy(ms, lay, level)
<1>1. \A l : On(ms, level, l) = On(ns, level, l)
  BY DEF On, Remarked
<1> QED  BY <1>1 DEF ScheduledBy, Remarked

LayersOK ==
  stage \in {"layered", "ready", "running"} => \E level : ScheduledBy(nodes, layers, level)

LEMMA LayersNext ==
  ASSUME StepsOK, LayersOK, [Next]_vars
  PROVE  LayersOK'
<1>1. CASE Layer
  <2>1. Sound(nodes) /\ nodes # <<>> /\ nodes' = LayerSteps(nodes) /\ layers' = Layers(nodes)
    BY <1>1 DEF StepsOK, Layer, Early
  <2>2. ScheduledBy(nodes', layers', Levels(nodes'))
    BY <2>1, LayersAre
  <2> QED  BY <2>2 DEF LayersOK
<1>2. CASE AssignAll
  <2>1. stage = "layered" /\ layers' = layers
    BY <1>2 DEF AssignAll
  <2>2. Remarked(nodes, nodes')
    BY <1>2, AssignSteps
  <2>3. PICK level : ScheduledBy(nodes, layers, level)
    BY <2>1 DEF LayersOK
  <2>4. ScheduledBy(nodes', layers', level)
    BY <2>1, <2>2, <2>3, RemarkedSchedule
  <2> QED  BY <2>4 DEF LayersOK
<1>3. CASE \E i \in 1..Len(nodes) : \E ban \in SUBSET Workers : Reassign(i, ban)
  <2>1. stage = "ready" /\ UNCHANGED <<nodes, layers>>
    BY <1>3 DEF Reassign
  <2> QED  BY <2>1 DEF LayersOK
<1>4. CASE Think \/ Read \/ Repair \/ Rewrite \/ Heuristic
  <2>1. stage' \notin {"layered", "ready", "running"}
    BY <1>4 DEF Think, Read, Repair, Rewrite, Heuristic
  <2> QED  BY <2>1 DEF LayersOK
<1>5. CASE UNCHANGED vars
  BY <1>5 DEF vars, LayersOK
<1> QED  BY <1>1, <1>2, <1>3, <1>4, <1>5 DEF Next, Plan

(* Whatever the engine says, the layers are a schedule of the plan's steps *)
(* (_build_layers, finalize_plan).                                         *)
THEOREM LayersAreASchedule == Spec => []LayersSchedule
<1> DEFINE Inv == StepsOK /\ LayersOK
<1>1. Init => Inv
  BY StepsStart DEF Init, LayersOK
<1>2. Inv /\ [Next]_vars => Inv'
  BY StepsNext, LayersNext
<1>3. Inv => LayersSchedule
  <2> SUFFICES ASSUME StepsOK, LayersOK, stage \in {"layered", "ready", "running"}
               PROVE  /\ Len(FlattenSeq(layers)) = Len(nodes) /\ ToSet(FlattenSeq(layers)) = IdsOf(nodes)
                      /\ \A l \in 1..Len(layers) : layers[l] # <<>>
                      /\ \A e \in Edges(nodes) : LayerOf(e[2]) < LayerOf(e[1])
    BY DEF LayersSchedule
  <2>1. Sound(nodes)
    BY DEF StepsOK
  <2>2. PICK level : ScheduledBy(nodes, layers, level)
    BY DEF LayersOK
  <2>3. /\ ToSet(FlattenSeq(layers)) = IdsOf(nodes) /\ Len(FlattenSeq(layers)) = Len(nodes)
        /\ \A i \in 1..Len(nodes) : \A l \in 1..Len(layers) :
             nodes[i].id \in ToSet(layers[l]) <=> l = level[i]
    BY <2>1, <2>2, ScheduleIs
  <2>4. /\ level \in [1..Len(nodes) -> 1..Len(layers)]
        /\ \A l \in 1..Len(layers) : layers[l] # <<>>
        /\ \A i, j \in 1..Len(nodes) : nodes[j].id \in nodes[i].deps => level[j] < level[i]
    BY <2>2 DEF ScheduledBy
  <2>5. ASSUME NEW i \in 1..Len(nodes)  PROVE LayerOf(nodes[i].id) = level[i]
    <3>1. level[i] \in 1..Len(layers)
      BY <2>4
    <3> QED  BY <2>3, <3>1 DEF LayerOf
  <2>6. ASSUME NEW e \in Edges(nodes)  PROVE LayerOf(e[2]) < LayerOf(e[1])
    <3>1. PICK i \in 1..Len(nodes) : e \in {nodes[i].id} \X nodes[i].deps
      BY DEF Edges
    <3>2. e[1] = nodes[i].id /\ e[2] \in nodes[i].deps
      BY <3>1
    <3>3. nodes[i].deps \subseteq IdsOf(nodes)
      BY <2>1 DEF Sound
    <3>4. PICK j \in 1..Len(nodes) : e[2] = nodes[j].id
      BY <3>2, <3>3 DEF IdsOf
    <3> QED  BY <2>4, <2>5, <3>2, <3>4
  <2> QED  BY <2>3, <2>4, <2>6
<1> HIDE DEF Inv
<1> QED  BY <1>1, <1>2, <1>3, PTL DEF Spec

-----------------------------------------------------------------------------
(* The doubled steps *)

Crit(ns) == {i \in 1..Len(ns) : ns[i].critical}
FewCritical(ns, layered) == Cardinality(Crit(ns)) <= 2 /\ (layered => Crit(ns) # {})

(* The first two of a sequence.                                            *)
LEMMA FirstTwo ==
  ASSUME NEW S, NEW s \in Seq(S)
  PROVE  /\ IsFiniteSet(ToSet(SubSeq(s, 1, Min({2, Len(s)}))))
         /\ Cardinality(ToSet(SubSeq(s, 1, Min({2, Len(s)})))) <= 2
         /\ s # <<>> => s[1] \in ToSet(SubSeq(s, 1, Min({2, Len(s)})))
<1> DEFINE T == {2, Len(s)}  m == Min(T)  f == SubSeq(s, 1, m)
<1>0. Len(s) \in Nat
  OBVIOUS
<1>1. m \in T /\ \A x \in T : m <= x
  <2>1. T \in SUBSET Nat /\ T # {}
    BY <1>0
  <2> HIDE DEF T
  <2> QED  BY <2>1, MinIs
<1>2. m \in Nat /\ m <= 2 /\ m <= Len(s) /\ (Len(s) # 0 => m # 0)
  BY <1>0, <1>1
<1> HIDE DEF m
<1>3. f \in Seq(S) /\ Len(f) = m /\ \A p \in 1..m : f[p] = s[p]
  BY <1>0, <1>2
<1> HIDE DEF f
<1>4. IsFiniteSet(ToSet(f)) /\ Cardinality(ToSet(f)) <= m
  BY <1>3, ElementsCount
<1>5. Cardinality(ToSet(f)) <= 2
  BY <1>2, <1>4, FS_CardinalityType
<1>6. ASSUME s # <<>>  PROVE s[1] \in ToSet(f)
  <2>1. Len(s) # 0
    BY <1>6, EmptySeq
  <2>2. 1 \in 1..m
    BY <1>2, <2>1
  <2>3. ToSet(f) = {f[p] : p \in 1..m}
    BY <1>3, ToSetIs
  <2>4. f[1] = s[1]
    BY <1>3, <2>2
  <2> QED  BY <2>2, <2>3, <2>4
<1> QED  BY <1>4, <1>5, <1>6 DEF f, m

LEMMA CriticalCount ==
  ASSUME NEW ns, Sound(ns), ns # <<>>, NEW order \in Seq(Nat), ToSet(order) = IdsOf(ns),
         NEW layered \in BOOLEAN
  PROVE  FewCritical(CriticalValidated(ns, order, layered), layered)
<1> DEFINE P == {p \in 1..Len(order) : \E i \in 1..Len(ns) : ns[i].id = order[p] /\ ns[i].critical}
           marked == Select(order, P)
           two == ToSet(SubSeq(marked, 1, Min({2, Len(marked)})))
           kept == IF layered /\ marked = <<>> THEN {order[Len(order)]} ELSE two
           ms == CriticalValidated(ns, order, layered)
           f == [i \in Crit(ms) |-> ms[i].id]
<1>0. ns \in Seq(Item) /\ Unique(ns) /\ Len(ns) \in Nat /\ Len(order) \in Nat
  BY DEF Sound
<1>1. ms = [i \in 1..Len(ns) |-> [ns[i] EXCEPT !.critical = ns[i].id \in kept]]
  BY DEF CriticalValidated
<1>2. marked \in Seq(Nat) /\ \A k \in 1..Len(marked) : marked[k] \in IdsOf(ns)
  <2>1. P \in SUBSET (1..Len(order))
    OBVIOUS
  <2> HIDE DEF P
  <2>2. /\ marked \in Seq(Nat) /\ Len(marked) = Cardinality(P)
        /\ \A k \in 1..Cardinality(P) : InOrder(P)[k] \in P /\ marked[k] = order[InOrder(P)[k]]
    BY <2>1, SelectIs
  <2>3. \A p \in 1..Len(order) : order[p] \in IdsOf(ns)
    BY ToSetIs
  <2> QED  BY <2>1, <2>2, <2>3
<1> HIDE DEF marked
<1>3. /\ IsFiniteSet(two) /\ Cardinality(two) <= 2 /\ Cardinality(two) \in Nat
      /\ marked # <<>> => marked[1] \in two
  BY <1>2, FirstTwo, FS_CardinalityType
<1> HIDE DEF two
<1>4. IsFiniteSet(kept) /\ Cardinality(kept) <= 2 /\ Cardinality(kept) \in Nat
  <2>1. IsFiniteSet({order[Len(order)]}) /\ Cardinality({order[Len(order)]}) = 1
    BY FS_Singleton
  <2> QED  BY <1>3, <2>1
<1>5. layered => \E x \in IdsOf(ns) : x \in kept
  <2>1. CASE layered /\ marked = <<>>
    <3>1. IdsOf(ns) # {}
      <4>1. Len(ns) # 0
        BY <1>0, EmptySeq
      <4>2. 1 \in 1..Len(ns)
        BY <1>0, <4>1
      <4> QED  BY <4>2 DEF IdsOf
    <3>2. ToSet(order) = {order[p] : p \in 1..Len(order)}
      BY ToSetIs
    <3>3. Len(order) \in 1..Len(order)
      BY <1>0, <3>1, <3>2
    <3>4. order[Len(order)] \in IdsOf(ns)
      BY <3>2, <3>3
    <3> QED  BY <2>1, <3>4
  <2>2. CASE layered /\ marked # <<>>
    <3>1. Len(marked) # 0
      BY <1>2, <2>2, EmptySeq
    <3>2. 1 \in 1..Len(marked)
      BY <1>2, <3>1
    <3> QED  BY <1>2, <1>3, <2>2, <3>2
  <2> QED  BY <2>1, <2>2
<1> HIDE DEF kept
<1>6. Len(ms) = Len(ns) /\ \A i \in 1..Len(ns) : ms[i].id = ns[i].id /\ (ms[i].critical <=> ns[i].id \in kept)
  <2>1. Len(ms) = Len(ns)
    BY <1>0, CriticalIs DEF Remarked
  <2>2. ASSUME NEW i \in 1..Len(ns)
        PROVE  ms[i].id = ns[i].id /\ (ms[i].critical <=> ns[i].id \in kept)
    <3> DEFINE c == ns[i].id \in kept
    <3>1. c \in BOOLEAN /\ ns[i] \in Item /\ ms[i] = [ns[i] EXCEPT !.critical = c]
      BY <1>0, <1>1
    <3> HIDE DEF c, ms
    <3>2. ms[i].id = ns[i].id /\ ms[i].critical = c
      BY <3>1, Recolour
    <3> QED  BY <3>2 DEF c
  <2> QED  BY <2>1, <2>2
<1> HIDE DEF ms
<1>7. f \in Injection(Crit(ms), kept)
  <2>1. f \in [Crit(ms) -> kept]
    BY <1>6 DEF Crit
  <2>2. \A i, j \in Crit(ms) : f[i] = f[j] => i = j
    BY <1>0, <1>6 DEF Crit, Unique
  <2> HIDE DEF f
  <2> QED  BY <2>1, <2>2 DEF Injection, IsInjective
<1> HIDE DEF f
<1>8. IsFiniteSet(Crit(ms)) /\ Cardinality(Crit(ms)) <= Cardinality(kept)
  BY <1>4, <1>7, FS_Injection
<1>9. Cardinality(Crit(ms)) <= 2
  BY <1>4, <1>8, FS_CardinalityType
<1>10. layered => Crit(ms) # {}
  BY <1>5, <1>6 DEF IdsOf, Crit
<1> QED  BY <1>9, <1>10 DEF FewCritical, ms


LEMMA MarkedCount ==
  ASSUME Sound(nodes), nodes # <<>>, NEW level, ScheduledBy(nodes, layers, level)
  PROVE  FewCritical(Marked, Len(layers) >= 2)
<1> DEFINE cs == [i \in 1..Len(nodes) |-> [nodes[i] EXCEPT !.critical = @ \/ Coding(nodes[i])]]
           layered == Len(layers) >= 2
<1>1. Remarked(nodes, cs)
  BY CodedIs
<1>2. Marked = CriticalValidated(cs, FlattenSeq(layers), layered)
  BY DEF Marked
<1> HIDE DEF cs
<1>3. Sound(cs) /\ IdsOf(cs) = IdsOf(nodes)
  BY <1>1, RemarkedSound
<1>4. cs # <<>>
  <2>1. nodes \in Seq(Item) /\ cs \in Seq(Item) /\ Len(cs) = Len(nodes)
    BY <1>1 DEF Sound, Remarked
  <2> QED  BY <2>1, EmptySeq
<1>5. FlattenSeq(layers) \in Seq(Nat) /\ ToSet(FlattenSeq(layers)) = IdsOf(cs)
  BY <1>3, ScheduleIs
<1>6. layered \in BOOLEAN
  OBVIOUS
<1> HIDE DEF layered
<1>7. FewCritical(Marked, layered)
  BY <1>2, <1>3, <1>4, <1>5, <1>6, CriticalCount
<1> QED  BY <1>7 DEF layered

CriticalOK == Planned => FewCritical(nodes, Len(layers) >= 2)

(* At most two steps are done twice, and one is if there are layers        *)
(* (apply_critical_validation), whatever was marked and counts as code.    *)
THEOREM CriticalAreFew == Spec => []CriticalFew
<1> DEFINE Inv == StepsOK /\ LayersOK /\ CriticalOK
<1>1. Init => Inv
  BY StepsStart DEF Init, LayersOK, CriticalOK, Planned
<1>2. Inv /\ [Next]_vars => Inv'
  <2> SUFFICES ASSUME StepsOK, LayersOK, CriticalOK, [Next]_vars
               PROVE  StepsOK' /\ LayersOK' /\ CriticalOK'
    OBVIOUS
  <2>0. StepsOK' /\ LayersOK'
    BY StepsNext, LayersNext
  <2>1. CASE AssignAll
    <3>1. stage = "layered" /\ nodes' = Marked /\ layers' = layers
      BY <2>1 DEF AssignAll
    <3>2. Sound(nodes) /\ nodes # <<>>
      BY <3>1 DEF StepsOK, Early
    <3>3. PICK level : ScheduledBy(nodes, layers, level)
      BY <3>1 DEF LayersOK
    <3>4. FewCritical(Marked, Len(layers) >= 2)
      BY <3>2, <3>3, MarkedCount
    <3> QED  BY <2>0, <3>1, <3>4 DEF CriticalOK
  <2>2. CASE (\E i \in 1..Len(nodes) : \E ban \in SUBSET Workers : Reassign(i, ban)) \/ UNCHANGED vars
    <3>1. (Planned' => Planned) /\ UNCHANGED <<nodes, layers>>
      BY <2>2 DEF Planned, Reassign, vars
    <3> QED  BY <2>0, <3>1 DEF CriticalOK
  <2>3. CASE Think \/ Read \/ Repair \/ Rewrite \/ Heuristic \/ Layer
    <3>1. ~Planned'
      BY <2>3 DEF Planned, Think, Read, Repair, Rewrite, Heuristic, Layer
    <3> QED  BY <2>0, <3>1 DEF CriticalOK
  <2> QED  BY <2>1, <2>2, <2>3 DEF Next, Plan
<1>3. Inv => CriticalFew
  BY DEF CriticalOK, CriticalFew, FewCritical, Crit
<1> HIDE DEF Inv
<1> QED  BY <1>1, <1>2, <1>3, PTL DEF Spec

(* Every plan is well-typed, laid out as a schedule, with few steps        *)
(* doubled.                                                                *)
THEOREM PlansAreSound == Spec => []PlanSound
BY TypesHold, LayersAreASchedule, CriticalAreFew, PTL DEF PlanSound


-----------------------------------------------------------------------------
(* The loads *)

(* What is dealt to a plan among equals is even, and nobody is moved when  *)
(* there is nothing to verify.                                             *)
LoadOf(ns, t, w) == Cardinality({i \in 1..Len(ns) : w \in ToSet(t[ns[i].id])})

LEMMA MovedEven ==
  ASSUME pool \in Pools, Alike, NEW ns \in Seq(Item), Unique(ns), ForAll(ns),
         \A i \in 1..Len(ns) : ns[i].role # "verify"
  PROVE  \A w, v \in Workers : LoadOf(ns, Moved(ns), w) - LoadOf(ns, Moved(ns), v) <= 1
<1> DEFINE acc == Dealt(ns)  t == Moved(ns)
<1>1. DealtTo(ns, Len(ns), acc)
  BY DealtIs
<1>2. MovedTo(ns, acc.team, Len(ns), t)
  BY MovedIs
<1> HIDE DEF acc, t
<1>3. \A i \in 1..Len(ns) : t[ns[i].id] = acc.team[ns[i].id]
  BY <1>2 DEF MovedTo
<1>4. ASSUME NEW w \in Workers  PROVE LoadOf(ns, t, w) = acc.usage[w]
  <2>1. {i \in 1..Len(ns) : w \in ToSet(t[ns[i].id])} = {i \in 1..Len(ns) : w \in ToSet(acc.team[ns[i].id])}
    BY <1>3
  <2>2. acc.usage[w] = Cardinality({i \in 1..Len(ns) : w \in ToSet(acc.team[ns[i].id])})
    BY <1>1 DEF DealtTo
  <2> QED  BY <2>1, <2>2 DEF LoadOf
<1>5. acc.usage \in [Workers -> Nat] /\ Even(acc.usage)
  BY <1>1 DEF DealtTo, Hands
<1>6. ASSUME NEW w \in Workers, NEW v \in Workers
      PROVE  LoadOf(ns, t, w) - LoadOf(ns, t, v) <= 1
  <2>1. acc.usage[w] \in Nat /\ acc.usage[v] \in Nat /\ acc.usage[w] <= acc.usage[v] + 1
    BY <1>5 DEF Even
  <2>2. LoadOf(ns, t, w) = acc.usage[w] /\ LoadOf(ns, t, v) = acc.usage[v]
    BY <1>4
  <2> QED  BY <2>1, <2>2
<1> QED  BY <1>6 DEF t

LoadsOK ==
  (/\ stage = "ready" /\ Alike /\ ForAll(nodes)
   /\ \A i \in 1..Len(nodes) : nodes[i].role # "verify")
  => \A w, v \in Workers : LoadOf(nodes, team, w) - LoadOf(nodes, team, v) <= 1

LEMMA LoadsNext ==
  ASSUME StepsOK, LoadsOK, [Next]_vars
  PROVE  LoadsOK'
<1>1. CASE AssignAll
  <2>1. team' = Moved(nodes') /\ UNCHANGED <<query, pool>>
    BY <1>1 DEF AssignAll
  <2>2. nodes' \in Seq(Item) /\ Unique(nodes')
    BY <1>1, AssignSteps DEF StepsOK, Sound, Unique
  <2>3. pool \in Pools
    BY DEF StepsOK
  <2>4. (Alike' <=> Alike) /\ (ForAll(nodes)' <=> ForAll(nodes'))
    BY <2>1 DEF Alike, ForAll, Testing, Says, Heading, Coders
  <2>5. ASSUME Alike, ForAll(nodes'), \A i \in 1..Len(nodes') : nodes'[i].role # "verify"
        PROVE  \A w, v \in Workers : LoadOf(nodes', team', w) - LoadOf(nodes', team', v) <= 1
    BY <2>1, <2>2, <2>3, <2>5, MovedEven
  <2> QED  BY <2>4, <2>5 DEF LoadsOK
<1>2. CASE Think \/ Read \/ Repair \/ Rewrite \/ Heuristic \/ Layer
  <2>1. stage' # "ready"
    BY <1>2 DEF Think, Read, Repair, Rewrite, Heuristic, Layer
  <2> QED  BY <2>1 DEF LoadsOK
<1>3. CASE \E i \in 1..Len(nodes) : \E ban \in SUBSET Workers : Reassign(i, ban)
  <2>1. stage' # "ready"
    BY <1>3 DEF Reassign
  <2> QED  BY <2>1 DEF LoadsOK
<1>4. CASE UNCHANGED vars
  <2>1. UNCHANGED <<stage, query, pool, nodes, team>>
    BY <1>4 DEF vars
  <2>2. (Alike' <=> Alike) /\ (ForAll(nodes)' <=> ForAll(nodes))
    BY <2>1 DEF Alike, ForAll, Testing, Says, Heading, Coders
  <2> QED  BY <2>1, <2>2 DEF LoadsOK
<1> QED  BY <1>1, <1>2, <1>3, <1>4 DEF Next, Plan

(* Among equals the work is spread: however many steps and workers there   *)
(* are, no one has two assignments more than another (assign_k's cap on    *)
(* shares, its band, and the load's share of the score never upset that).  *)
THEOREM LoadsAreEven == Spec => []SpreadEvenly
<1> DEFINE Inv == StepsOK /\ LoadsOK
<1>1. Init => Inv
  BY StepsStart DEF Init, LoadsOK
<1>2. Inv /\ [Next]_vars => Inv'
  BY StepsNext, LoadsNext
<1>3. Inv => SpreadEvenly
  BY DEF LoadsOK, SpreadEvenly, Alike, ForAll, LoadOf
<1> HIDE DEF Inv
<1> QED  BY <1>1, <1>2, <1>3, PTL DEF Spec


=============================================================================

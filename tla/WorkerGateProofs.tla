-------------------------- MODULE WorkerGateProofs --------------------------
(***************************************************************************)
(* Proofs about the in-flight gate, for any number of callers and slots:   *)
(* its types and what its slots come to on any number of loops, and the    *)
(* exact count, the cap and the absence of lost wake-ups when all callers  *)
(* share one loop.                                                         *)
(***************************************************************************)
EXTENDS WorkerGate, FiniteSetTheorems, SequenceTheorems, TLAPS

(* The queue holds exactly the waiting callers, each of them once.         *)
Queued ==
  /\ \A c \in Callers : c \in ToSet(waiters) <=> pc[c] = "wait"
  /\ \A i, j \in 1..Len(waiters) : waiters[i] = waiters[j] => i = j

(* A caller that is not through with its HTTP call has an attempt left.    *)
Budget ==
  \A c \in Callers :
    (pc[c] \in {"idle", "take", "queue", "wait", "hold"}
       \/ (pc[c] \in Waking /\ goal[c] = "hold"))
      => attempt[c] < Retries

(* Who is waking others knows whom it looks at, and release wakes once.    *)
Scans ==
  \A c \in Callers :
    /\ pc[c] \in {"scan", "give"} => rest[c] # <<>>
    /\ pc[c] = "loop" => goal[c] # "done"

IInv ==
  /\ TypeOK /\ Queued /\ Budget /\ Scans /\ SlotsConserved
  /\ \A c \in woken : pc[c] = "wait"

-----------------------------------------------------------------------------
(* Lemmas *)

(* What leaves the queue is the one caller that is to leave it.            *)
LEMMA QueueDrop ==
  ASSUME TypeOK, Queued, NEW c \in Callers, pc[c] = "wait"
  PROVE  /\ Without(c) \in Seq(Callers)
         /\ ToSet(Without(c)) = ToSet(waiters) \ {c}
         /\ \A i, j \in 1..Len(Without(c)) : Without(c)[i] = Without(c)[j] => i = j
<1> DEFINE n == CHOOSE i \in 1..Len(waiters) : waiters[i] = c
           q == Without(c)
<1>1. n \in 1..Len(waiters) /\ waiters[n] = c
  <2>1. waiters \in Seq(Callers) /\ DOMAIN waiters = 1..Len(waiters)
    BY DEF TypeOK
  <2>2. \E i \in 1..Len(waiters) : waiters[i] = c
    BY <2>1 DEF Queued, ToSet
  <2> QED BY <2>2
<1>2. /\ q \in Seq(Callers)
      /\ Len(q) = Len(waiters) - 1
      /\ \A i \in 1..Len(q) : q[i] = IF i < n THEN waiters[i] ELSE waiters[i+1]
  <2> DEFINE a == SubSeq(waiters, 1, n - 1)
             b == SubSeq(waiters, n + 1, Len(waiters))
  <2>1. waiters \in Seq(Callers) /\ Len(waiters) \in Nat /\ n \in 1..Len(waiters)
    BY <1>1 DEF TypeOK
  <2>2. /\ a \in Seq(Callers) /\ Len(a) = n - 1
        /\ \A i \in 1..(n - 1) : a[i] = waiters[i]
    <3> HIDE DEF n
    <3> QED BY <2>1
  <2>3. /\ b \in Seq(Callers) /\ Len(b) = Len(waiters) - n
        /\ \A i \in 1..(Len(waiters) - n) : b[i] = waiters[i + n]
    <3> HIDE DEF n
    <3> QED BY <2>1
  <2>4. q = a \o b
    BY DEF Without, RemoveAt
  <2> HIDE DEF a, b, n, q
  <2>5. q \in Seq(Callers) /\ Len(q) = Len(waiters) - 1
    BY <2>1, <2>2, <2>3, <2>4
  <2>6. \A i \in 1..Len(q) : q[i] = IF i <= Len(a) THEN a[i] ELSE b[i - Len(a)]
    BY <2>2, <2>3, <2>4, <2>5, ConcatProperties
  <2>7. ASSUME NEW i \in 1..Len(q)
        PROVE  q[i] = IF i < n THEN waiters[i] ELSE waiters[i+1]
    <3>1. CASE i < n
      BY <2>1, <2>2, <2>5, <2>6, <3>1
    <3>2. CASE ~(i < n)
      <4>1. /\ i - (n - 1) \in 1..(Len(waiters) - n)
            /\ (i - (n - 1)) + n = i + 1
        BY <2>1, <2>5, <3>2
      <4>2. b[i - (n - 1)] = waiters[i + 1]
        BY <2>3, <4>1
      <4> QED BY <2>1, <2>2, <2>5, <2>6, <3>2, <4>2
    <3> QED BY <3>1, <3>2
  <2> QED BY <2>5, <2>7
<1> HIDE DEF n, q
<1>w. Len(waiters) \in Nat /\ \A i, j \in 1..Len(waiters) : waiters[i] = waiters[j] => i = j
  BY DEF TypeOK, Queued
<1>3. ASSUME NEW i \in 1..Len(q), NEW j \in 1..Len(q), q[i] = q[j] PROVE i = j
  <2> DEFINE at(k) == IF k < n THEN k ELSE k + 1
  <2>1. /\ at(i) \in 1..Len(waiters) /\ at(j) \in 1..Len(waiters)
        /\ at(i) = at(j) => i = j
    BY <1>1, <1>2, <1>w
  <2>2. waiters[at(i)] = waiters[at(j)]
    BY <1>2, <1>3
  <2> HIDE DEF at
  <2> QED BY <1>w, <2>1, <2>2
<1>4. ToSet(q) = ToSet(waiters) \ {c}
  <2>1. DOMAIN q = 1..Len(q) /\ DOMAIN waiters = 1..Len(waiters) /\ Len(waiters) \in Nat
    BY <1>2 DEF TypeOK
  <2>2. ASSUME NEW d \in ToSet(q) PROVE d \in ToSet(waiters) \ {c}
    <3>1. PICK i \in 1..Len(q) : q[i] = d
      BY <2>1, <2>2 DEF ToSet
    <3>2. CASE i < n
      <4>1. d = waiters[i] /\ i \in 1..Len(waiters) /\ i # n
        BY <1>1, <1>2, <2>1, <3>1, <3>2
      <4> QED BY <1>1, <1>w, <2>1, <4>1 DEF ToSet
    <3>3. CASE ~(i < n)
      <4>1. d = waiters[i+1] /\ i + 1 \in 1..Len(waiters) /\ i + 1 # n
        BY <1>1, <1>2, <2>1, <3>1, <3>3
      <4>2. waiters[i+1] # c
        BY <1>1, <1>w, <4>1
      <4> QED BY <2>1, <4>1, <4>2 DEF ToSet
    <3> QED BY <3>2, <3>3
  <2>3. ASSUME NEW d \in ToSet(waiters) \ {c} PROVE d \in ToSet(q)
    <3>1. PICK i \in 1..Len(waiters) : waiters[i] = d /\ i # n
      BY <1>1, <2>1, <2>3 DEF ToSet
    <3>2. CASE i < n
      <4>1. i \in 1..Len(q) /\ q[i] = d
        BY <1>1, <1>2, <2>1, <3>1, <3>2
      <4> QED BY <2>1, <4>1 DEF ToSet
    <3>3. CASE ~(i < n)
      <4>1. i - 1 \in 1..Len(q) /\ q[i - 1] = d
        BY <1>1, <1>2, <2>1, <3>1, <3>3
      <4> QED BY <2>1, <4>1 DEF ToSet
    <3> QED BY <3>2, <3>3
  <2> QED BY <2>2, <2>3
<1> QED BY <1>2, <1>3, <1>4 DEF q

(* A set of callers that changes at one caller only.                       *)
LEMMA CountOne ==
  ASSUME NEW S \in SUBSET Callers, NEW T \in SUBSET Callers, NEW c \in Callers,
         S \ {c} = T \ {c}
  PROVE  /\ Cardinality(S) \in Nat /\ Cardinality(T) \in Nat
         /\ Cardinality(T) = Cardinality(S) + (IF c \in T THEN 1 ELSE 0)
                                            - (IF c \in S THEN 1 ELSE 0)
<1>1. IsFiniteSet(S) /\ IsFiniteSet(T)
  BY FS_Subset, CallerAssumption
<1>2. Cardinality(S) \in Nat /\ Cardinality(T) \in Nat
  BY <1>1, FS_CardinalityType
<1>3. CASE c \in S /\ c \in T
  BY <1>2, <1>3, S = T
<1>4. CASE c \notin S /\ c \notin T
  BY <1>2, <1>4, S = T
<1>5. CASE c \in S /\ c \notin T
  <2>1. T = S \ {c}
    BY <1>5
  <2> QED BY <1>1, <1>2, <1>5, <2>1, FS_RemoveElement
<1>6. CASE c \notin S /\ c \in T
  <2>1. T = S \union {c}
    BY <1>6
  <2> QED BY <1>1, <1>2, <1>6, <2>1, FS_AddElement
<1> QED BY <1>3, <1>4, <1>5, <1>6

(* Whether c has a slot, and whether it failed in its wake-up, as numbers. *)
Has(c) == IF c \in Owning THEN 1 ELSE 0
Failed(c) == IF c \in Broken THEN 1 ELSE 0

(* What a step of one caller does to the sets that are counted.            *)
LEMMA Counts ==
  ASSUME NEW c \in Callers,
         \A d \in Callers \ {c} : pc'[d] = pc[d] /\ goal'[d] = goal[d]
  PROVE  /\ Cardinality(Owning) \in Nat /\ Cardinality(Owning') \in Nat
         /\ Cardinality(Broken) \in Nat /\ Cardinality(Broken') \in Nat
         /\ Has(c) \in 0..1 /\ Has(c)' \in 0..1 /\ Failed(c) \in 0..1 /\ Failed(c)' \in 0..1
         /\ Cardinality(Owning') = Cardinality(Owning) + Has(c)' - Has(c)
         /\ Cardinality(Broken') = Cardinality(Broken) + Failed(c)' - Failed(c)
<1>1. /\ Owning \in SUBSET Callers /\ Owning' \in SUBSET Callers
      /\ Owning \ {c} = Owning' \ {c}
  BY DEF Owning
<1>2. /\ Broken \in SUBSET Callers /\ Broken' \in SUBSET Callers
      /\ Broken \ {c} = Broken' \ {c}
  BY DEF Broken
<1>3. /\ Cardinality(Owning) \in Nat /\ Cardinality(Owning') \in Nat
      /\ Cardinality(Owning') = Cardinality(Owning) + Has(c)' - Has(c)
  BY <1>1, CountOne DEF Has
<1>4. /\ Cardinality(Broken) \in Nat /\ Cardinality(Broken') \in Nat
      /\ Cardinality(Broken') = Cardinality(Broken) + Failed(c)' - Failed(c)
  BY <1>2, CountOne DEF Failed
<1>5. Has(c) \in 0..1 /\ Has(c)' \in 0..1 /\ Failed(c) \in 0..1 /\ Failed(c)' \in 0..1
  BY DEF Has, Failed
<1> QED BY <1>3, <1>4, <1>5

(* A turn of the loop without a grant changes no slot.                     *)
LEMMA TurnStep ==
  ASSUME TypeOK, NEW l, Turn(l)
  PROVE  woken' = woken /\ due' \subseteq woken'
BY DEF TypeOK, Turn, Grant

LEMMA WokenCount == ASSUME TypeOK PROVE Cardinality(woken) \in Nat
BY FS_Subset, FS_CardinalityType, CallerAssumption DEF TypeOK

-----------------------------------------------------------------------------
(* The inductive invariant *)

LEMMA Initially == Init => IInv
<1> SUFFICES ASSUME Init PROVE IInv
  OBVIOUS
<1>1. Owning = {} /\ Broken = {} /\ woken = {} /\ ToSet(waiters) = {}
  BY DEF Init, Owning, Broken, Waking, ToSet
<1>2. SlotsConserved
  BY <1>1, FS_EmptySet, LimitAssumption DEF Init, SlotsConserved, Slots
<1>3. TypeOK /\ Budget /\ Scans
  BY LimitAssumption DEF Init, TypeOK, Budget, Scans, Over, Waking
<1> QED BY <1>1, <1>2, <1>3 DEF Init, IInv, Queued

(* A step of c keeps the count if what it moves is still there, but for    *)
(* two slots when it fails in its wake-up.                                 *)
LEMMA SlotStep ==
  ASSUME IInv, NEW c \in Callers,
         \A d \in Callers \ {c} : pc'[d] = pc[d] /\ goal'[d] = goal[d],
         value' \in Int, woken' \in SUBSET Callers, Failed(c) = 0,
         value' + Cardinality(woken') + Has(c)' <= value + Cardinality(woken) + Has(c),
         value + Cardinality(woken) + Has(c) - 2 * Failed(c)'
           <= value' + Cardinality(woken') + Has(c)'
  PROVE  SlotsConserved'
<1>1. IsFiniteSet(woken')
  BY FS_Subset, CallerAssumption
<1>2. Cardinality(woken) \in Nat /\ Cardinality(woken') \in Nat /\ value \in Int
  BY <1>1, WokenCount, FS_CardinalityType DEF IInv, TypeOK
<1>3. /\ value + Cardinality(Owning) + Cardinality(woken) <= MaxInflight
      /\ MaxInflight - 2 * Cardinality(Broken) <= value + Cardinality(Owning) + Cardinality(woken)
  BY DEF IInv, SlotsConserved, Slots
<1>4. /\ value' + Cardinality(Owning') + Cardinality(woken') <= MaxInflight
      /\ MaxInflight - 2 * Cardinality(Broken')
           <= value' + Cardinality(Owning') + Cardinality(woken')
  BY <1>2, <1>3, Counts, LimitAssumption
<1> QED BY <1>4 DEF SlotsConserved, Slots

(* A step of c that leaves the queue alone and wakes nobody.               *)
LEMMA QuietStep ==
  ASSUME IInv, NEW c \in Callers, NEW to, Goto(c, to), woken' = woken, waiters' = waiters,
         pc[c] # "wait", to # "wait"
  PROVE  Queued' /\ \A d \in woken' : pc'[d] = "wait"
<1>1. pc' = [pc EXCEPT ![c] = to] /\ pc \in [Callers -> {"idle", "take", "queue", "wait", "hold"}
                                                        \union Waking \union Over]
  BY DEF IInv, TypeOK, Goto
<1>2. \A d \in Callers : pc'[d] = "wait" <=> pc[d] = "wait"
  BY <1>1
<1>3. woken \subseteq Callers
  BY DEF IInv, TypeOK
<1> QED BY <1>2, <1>3 DEF IInv, Queued, ToSet

LEMMA Inductive == IInv /\ [Next]_vars => IInv'
<1> SUFFICES ASSUME IInv, [Next]_vars PROVE IInv'
  OBVIOUS
<1> USE DEF Over, Waking
<1>c. Cardinality(woken) \in Nat /\ value \in Int /\ TypeOK
  BY WokenCount DEF IInv, TypeOK
<1>1. ASSUME NEW c \in Callers, Look(c) PROVE IInv'
  <2>1. woken' = woken /\ due' \subseteq woken'
    BY <1>1, <1>c, TurnStep DEF Look
  <2>2. PICK to \in {"queue", "take"} : pc' = [pc EXCEPT ![c] = to] /\ pc[c] = "idle"
    BY <1>1 DEF Look, Runs, Goto
  <2>3. TypeOK'
    BY <1>1, <1>c, <2>1, <2>2 DEF Look, TypeOK
  <2>4. Queued' /\ \A d \in woken' : pc'[d] = "wait"
    BY <1>1, <2>1, <2>2, QuietStep DEF Look, Goto
  <2>5. Budget' /\ Scans'
    BY <1>1, <1>c, <2>2 DEF Look, IInv, TypeOK, Budget, Scans
  <2>6. SlotsConserved'
    <3>1. Has(c) = 0 /\ Has(c)' = 0 /\ Failed(c) = 0 /\ Failed(c)' = 0
      BY <1>c, <2>2 DEF Has, Failed, Owning, Broken, TypeOK
    <3>2. \A d \in Callers \ {c} : pc'[d] = pc[d] /\ goal'[d] = goal[d]
      BY <1>1, <1>c, <2>2 DEF Look, TypeOK
    <3>3. /\ value' \in Int /\ woken' \in SUBSET Callers
          /\ value' + Cardinality(woken') + Has(c)' <= value + Cardinality(woken) + Has(c)
          /\ value + Cardinality(woken) + Has(c) - 2 * Failed(c)'
               <= value' + Cardinality(woken') + Has(c)'
      BY <1>1, <1>c, <2>1, <3>1 DEF Look, TypeOK
    <3> QED BY <3>1, <3>2, <3>3, SlotStep
  <2> QED BY <2>3, <2>4, <2>5, <2>6 DEF IInv
<1>2. ASSUME NEW c \in Callers, Take(c) PROVE IInv'
  <2>1. woken' = woken /\ due' \subseteq woken'
    BY <1>2, <1>c, TurnStep DEF Take
  <2>2. pc' = [pc EXCEPT ![c] = "hold"] /\ pc[c] = "take" /\ value' = value - 1
    BY <1>2 DEF Take, Goto
  <2>3. TypeOK'
    BY <1>2, <1>c, <2>1, <2>2 DEF Take, TypeOK
  <2>4. Queued' /\ \A d \in woken' : pc'[d] = "wait"
    BY <1>2, <2>1, <2>2, QuietStep DEF Take, Goto
  <2>5. Budget' /\ Scans'
    BY <1>2, <1>c, <2>2 DEF Take, IInv, TypeOK, Budget, Scans
  <2>6. SlotsConserved'
    <3>1. Has(c) = 0 /\ Has(c)' = 1 /\ Failed(c) = 0 /\ Failed(c)' = 0
      <4>1. pc[c] = "take" /\ pc'[c] = "hold"
        BY <1>c, <2>2 DEF TypeOK
      <4>2. c \notin Owning /\ c \in Owning' /\ c \notin Broken /\ c \notin Broken'
        BY <4>1 DEF Owning, Broken
      <4> QED BY <4>2 DEF Has, Failed
    <3>2. \A d \in Callers \ {c} : pc'[d] = pc[d] /\ goal'[d] = goal[d]
      BY <1>2, <1>c, <2>2 DEF Take, TypeOK
    <3>3. /\ value' \in Int /\ woken' \in SUBSET Callers
          /\ value' + Cardinality(woken') + Has(c)' <= value + Cardinality(woken) + Has(c)
          /\ value + Cardinality(woken) + Has(c) - 2 * Failed(c)'
               <= value' + Cardinality(woken') + Has(c)'
      BY <1>c, <2>1, <2>2, <3>1 DEF TypeOK
    <3> QED BY <3>1, <3>2, <3>3, SlotStep
  <2> QED BY <2>3, <2>4, <2>5, <2>6 DEF IInv
<1>3. ASSUME NEW c \in Callers, Queue(c) PROVE IInv'
  <2>1. woken' = woken /\ due' \subseteq woken'
    BY <1>3, <1>c, TurnStep DEF Queue
  <2>2. PICK to \in {"wait", "failed"} :
          /\ pc' = [pc EXCEPT ![c] = to] /\ pc[c] = "queue"
          /\ to = "wait" => waiters' = Append(waiters, c) /\ Disturb
          /\ to = "failed" => waiters' = waiters /\ stale' = stale
    BY <1>3 DEF Queue, Goto
  <2>3. TypeOK'
    <3>1. bound' \in Loops \union {NoLoop}
      BY <1>3, <1>c, CallerAssumption DEF Queue, TypeOK
    <3>2. waiters' \in Seq(Callers) /\ stale' \subseteq Callers
      <4>1. waiters \in Seq(Callers) /\ Append(waiters, c) \in Seq(Callers)
        BY <1>c DEF TypeOK
      <4> QED BY <1>c, <2>2, <4>1 DEF Disturb, TypeOK
    <3>3. pc' \in [Callers -> {"idle", "take", "queue", "wait", "hold"} \union Waking \union Over]
      BY <1>c, <2>2 DEF TypeOK
    <3> QED BY <1>3, <1>c, <2>1, <3>1, <3>2, <3>3 DEF Queue, TypeOK
  <2>5. Budget' /\ Scans' /\ \A d \in woken' : pc'[d] = "wait"
    BY <1>3, <1>c, <2>1, <2>2 DEF Queue, IInv, TypeOK, Budget, Scans
  <2>6. Queued'
    <3>1. CASE to = "failed"
      BY <1>3, <1>c, <2>2, <3>1 DEF IInv, TypeOK, Queued, ToSet
    <3>2. CASE to = "wait"
      <4>1. /\ waiters \in Seq(Callers) /\ waiters' = Append(waiters, c)
            /\ c \notin ToSet(waiters)
        BY <1>c, <2>2, <3>2 DEF IInv, TypeOK, Queued
      <4>2. /\ Len(waiters') = Len(waiters) + 1
            /\ waiters'[Len(waiters) + 1] = c
            /\ \A i \in 1..Len(waiters) : waiters'[i] = waiters[i]
            /\ DOMAIN waiters = 1..Len(waiters)
            /\ DOMAIN waiters' = 1..(Len(waiters) + 1)
            /\ Len(waiters) \in Nat
        BY <4>1
      <4>3. ToSet(waiters') = ToSet(waiters) \union {c}
        BY <4>2 DEF ToSet
      <4>4. \A i \in 1..Len(waiters) : waiters[i] # c
        BY <4>1, <4>2 DEF ToSet
      <4>5. \A i, j \in 1..Len(waiters') : waiters'[i] = waiters'[j] => i = j
        BY <4>2, <4>4 DEF IInv, Queued
      <4>6. \A d \in Callers : d \in ToSet(waiters') <=> pc'[d] = "wait"
        BY <1>c, <2>2, <3>2, <4>3 DEF IInv, TypeOK, Queued
      <4> QED BY <4>5, <4>6 DEF Queued
    <3> QED BY <3>1, <3>2
  <2>7. SlotsConserved'
    <3>1. Has(c) = 0 /\ Has(c)' = 0 /\ Failed(c) = 0 /\ Failed(c)' = 0
      BY <1>c, <2>2 DEF Has, Failed, Owning, Broken, TypeOK
    <3>2. \A d \in Callers \ {c} : pc'[d] = pc[d] /\ goal'[d] = goal[d]
      BY <1>3, <1>c, <2>2 DEF Queue, TypeOK
    <3>3. /\ value' \in Int /\ woken' \in SUBSET Callers
          /\ value' + Cardinality(woken') + Has(c)' <= value + Cardinality(woken) + Has(c)
          /\ value + Cardinality(woken) + Has(c) - 2 * Failed(c)'
               <= value' + Cardinality(woken') + Has(c)'
      BY <1>3, <1>c, <2>1, <3>1 DEF Queue, TypeOK
    <3> QED BY <3>1, <3>2, <3>3, SlotStep
  <2> QED BY <2>3, <2>5, <2>6, <2>7 DEF IInv
<1>4. ASSUME NEW c \in Callers, NEW g \in {"hold", "cancelled"}, pc[c] = "wait",
             waiters' = Without(c), Disturb, WakeThen(c, "loop", g),
             Grant({}, LoopOf[c], {c}), UNCHANGED <<bound, rest, attempt>>,
             g = "hold" => value' = value /\ c \in woken,
             g = "cancelled" => value' = IF c \in woken THEN value + 1 ELSE value
      PROVE  IInv'
  <2>1. /\ pc' = [pc EXCEPT ![c] = "loop"] /\ goal' = [goal EXCEPT ![c] = g]
        /\ stale' \subseteq Callers
    BY <1>4, <1>c DEF WakeThen, Goto, Disturb, TypeOK
  <2>2. /\ Without(c) \in Seq(Callers)
        /\ ToSet(Without(c)) = ToSet(waiters) \ {c}
        /\ \A i, j \in 1..Len(Without(c)) : Without(c)[i] = Without(c)[j] => i = j
    BY <1>4, QueueDrop DEF IInv
  <2>3. woken' = woken \ {c} /\ woken' \subseteq Callers /\ due' \subseteq woken'
    BY <1>4, <1>c DEF Grant, TypeOK
  <2>4. Cardinality(woken') = Cardinality(woken) - (IF c \in woken THEN 1 ELSE 0)
        /\ Cardinality(woken') \in Nat
    <3>1. woken \in SUBSET Callers /\ woken' \in SUBSET Callers /\ woken \ {c} = woken' \ {c}
          /\ c \notin woken'
      BY <1>c, <2>3 DEF TypeOK
    <3> QED BY <1>c, <3>1, CountOne
  <2>5. value' \in Int
    BY <1>4, <1>c
  <2>6. TypeOK'
    BY <1>4, <1>c, <2>1, <2>2, <2>3, <2>5 DEF TypeOK
  <2>7. Queued'
    BY <1>4, <1>c, <2>1, <2>2 DEF IInv, TypeOK, Queued
  <2>8. Budget' /\ Scans' /\ \A d \in woken' : pc'[d] = "wait"
    <3>1. /\ pc'[c] = "loop" /\ goal'[c] = g /\ rest' = rest /\ attempt' = attempt
          /\ \A d \in Callers \ {c} : pc'[d] = pc[d] /\ goal'[d] = goal[d]
      BY <1>4, <1>c, <2>1 DEF TypeOK
    <3>2. Budget'
      BY <1>4, <3>1 DEF IInv, Budget
    <3>3. Scans'
      BY <1>4, <3>1 DEF IInv, Scans
    <3> QED BY <1>c, <2>3, <3>1, <3>2, <3>3 DEF IInv, TypeOK
  <2>9. SlotsConserved'
    <3>1. /\ Has(c) = 0 /\ Has(c)' = IF g = "hold" THEN 1 ELSE 0
          /\ Failed(c) = 0 /\ Failed(c)' = 0
      BY <1>4, <1>c, <2>1 DEF Has, Failed, Owning, Broken, TypeOK
    <3>2. \A d \in Callers \ {c} : pc'[d] = pc[d] /\ goal'[d] = goal[d]
      BY <1>c, <2>1 DEF TypeOK
    <3>3. /\ value' \in Int /\ woken' \in SUBSET Callers
          /\ value' + Cardinality(woken') + Has(c)' <= value + Cardinality(woken) + Has(c)
          /\ value + Cardinality(woken) + Has(c) - 2 * Failed(c)'
               <= value' + Cardinality(woken') + Has(c)'
      BY <1>4, <1>c, <2>3, <2>4, <2>5, <3>1
    <3> QED BY <3>1, <3>2, <3>3, SlotStep
  <2> QED BY <2>6, <2>7, <2>8, <2>9 DEF IInv
<1>5. ASSUME NEW c \in Callers, Resume(c) PROVE IInv'
  <2>1. pc[c] = "wait" /\ c \in woken
    BY <1>5, <1>c DEF Resume, Runs, TypeOK
  <2> QED BY <1>4, <1>5, <2>1 DEF Resume
<1>6. ASSUME NEW c \in Callers, CancelWait(c) PROVE IInv'
  BY <1>4, <1>6 DEF CancelWait, Runs
<1>7. ASSUME NEW c \in Callers, Runs(c, "hold"), WakeThen(c, "wake", "done"),
             value' = value + 1, Turn(LoopOf[c]), attempt' \in [Callers -> 0..Retries],
             \A d \in Callers \ {c} : attempt'[d] = attempt[d],
             UNCHANGED <<waiters, bound, rest, stale>>
      PROVE  IInv'
  <2>1. woken' = woken /\ due' \subseteq woken'
    BY <1>7, <1>c, TurnStep
  <2>2. /\ pc' = [pc EXCEPT ![c] = "wake"] /\ goal' = [goal EXCEPT ![c] = "done"]
        /\ pc[c] = "hold"
    BY <1>7 DEF Runs, WakeThen, Goto
  <2>3. TypeOK'
    BY <1>7, <1>c, <2>1, <2>2 DEF TypeOK
  <2>4. Queued' /\ \A d \in woken' : pc'[d] = "wait"
    BY <1>7, <2>1, <2>2, QuietStep DEF Goto
  <2>5. Budget' /\ Scans'
    BY <1>7, <1>c, <2>2 DEF IInv, TypeOK, Budget, Scans
  <2>6. SlotsConserved'
    <3>1. Has(c) = 1 /\ Has(c)' = 0 /\ Failed(c) = 0 /\ Failed(c)' = 0
      <4>1. pc[c] = "hold" /\ pc'[c] = "wake" /\ goal'[c] = "done"
        BY <1>c, <2>2 DEF TypeOK
      <4>2. c \in Owning /\ c \notin Owning' /\ c \notin Broken /\ c \notin Broken'
        BY <4>1 DEF Owning, Broken
      <4> QED BY <4>2 DEF Has, Failed
    <3>2. \A d \in Callers \ {c} : pc'[d] = pc[d] /\ goal'[d] = goal[d]
      BY <1>c, <2>2 DEF TypeOK
    <3>3. /\ value' \in Int /\ woken' \in SUBSET Callers
          /\ value' + Cardinality(woken') + Has(c)' <= value + Cardinality(woken) + Has(c)
          /\ value + Cardinality(woken) + Has(c) - 2 * Failed(c)'
               <= value' + Cardinality(woken') + Has(c)'
      BY <1>7, <1>c, <2>1, <3>1 DEF TypeOK
    <3> QED BY <3>1, <3>2, <3>3, SlotStep
  <2> QED BY <2>3, <2>4, <2>5, <2>6 DEF IInv
<1>8. ASSUME NEW c \in Callers, NEW ends \in BOOLEAN, Attempt(c, ends) PROVE IInv'
  <2>1. /\ attempt[c] < Retries /\ attempt' = [attempt EXCEPT ![c] = attempt[c] + 1]
        /\ pc[c] = "hold"
    <3>1. pc[c] = "hold" /\ attempt' = [attempt EXCEPT ![c] = attempt[c] + 1]
      BY <1>8 DEF Attempt, Runs
    <3>2. attempt[c] < Retries
      BY <3>1 DEF IInv, Budget
    <3> QED BY <3>1, <3>2
  <2>2. attempt' \in [Callers -> 0..Retries] /\ \A d \in Callers \ {c} : attempt'[d] = attempt[d]
    BY <1>c, <2>1, LimitAssumption DEF TypeOK
  <2>3. CASE WakeThen(c, "wake", "done") /\ value' = value + 1
    BY <1>7, <1>8, <2>2, <2>3 DEF Attempt
  <2>4. CASE UNCHANGED <<pc, goal, value>> /\ attempt'[c] # Retries
    <3>1. woken' = woken /\ due' \subseteq woken' /\ UNCHANGED <<waiters, bound, rest, stale>>
      BY <1>8, <1>c, TurnStep DEF Attempt
    <3>2. Owning' = Owning /\ Broken' = Broken
      BY <2>4 DEF Owning, Broken
    <3>3. TypeOK'
      BY <1>c, <2>2, <2>4, <3>1 DEF TypeOK
    <3>4. Queued' /\ Scans' /\ \A d \in woken' : pc'[d] = "wait"
      BY <2>4, <3>1 DEF IInv, Queued, Scans
    <3>5. Budget'
      <4>1. attempt'[c] \in Nat /\ attempt'[c] < Retries
        BY <2>2, <2>4, LimitAssumption
      <4> QED BY <2>2, <2>4, <4>1 DEF IInv, Budget
    <3> QED BY <2>4, <3>1, <3>2, <3>3, <3>4, <3>5 DEF IInv, SlotsConserved, Slots
  <2> QED BY <1>8, <2>3, <2>4 DEF Attempt
<1>9. ASSUME NEW c \in Callers, CancelCall(c) PROVE IInv'
  BY <1>7, <1>9, <1>c DEF CancelCall, TypeOK
<1>10. ASSUME NEW c \in Callers, pc[c] \in Waking, NEW to, Goto(c, to), Turn(LoopOf[c]),
              UNCHANGED <<waiters, bound, goal, attempt>>,
              to \in Waking \/ to = goal[c] \/ to = "broken",
              value' = value \/ (to = "broken" /\ value' = value - 1),
              rest' \in [Callers -> Seq(Callers)],
              \A d \in Callers \ {c} : rest'[d] = rest[d],
              to \in {"scan", "give"} => rest'[c] # <<>>,
              to # "loop", stale' \subseteq Callers
       PROVE  IInv'
  <2>1. woken' = woken /\ due' \subseteq woken'
    BY <1>10, <1>c, TurnStep
  <2>2. /\ pc' = [pc EXCEPT ![c] = to] /\ goal[c] \in {"hold", "done", "cancelled"}
        /\ to # "wait"
    BY <1>10, <1>c DEF Goto, TypeOK
  <2>3. TypeOK'
    <3>1. pc' \in [Callers -> {"idle", "take", "queue", "wait", "hold"} \union Waking \union Over]
      BY <1>10, <1>c, <2>2 DEF TypeOK
    <3> QED BY <1>10, <1>c, <2>1, <3>1 DEF TypeOK
  <2>4. Queued' /\ \A d \in woken' : pc'[d] = "wait"
    BY <1>10, <2>1, <2>2, QuietStep
  <2>5. Budget'
    BY <1>10, <1>c, <2>2 DEF IInv, TypeOK, Budget
  <2>6. Scans'
    BY <1>10, <1>c, <2>2 DEF IInv, TypeOK, Scans
  <2>7. SlotsConserved'
    <3>1. /\ Failed(c) = 0 /\ Failed(c)' = (IF to = "broken" THEN 1 ELSE 0)
          /\ Has(c) \in 0..1 /\ Has(c)' = (IF to = "broken" THEN 0 ELSE Has(c))
      BY <1>10, <1>c, <2>2 DEF Has, Failed, Owning, Broken, TypeOK
    <3>2. \A d \in Callers \ {c} : pc'[d] = pc[d] /\ goal'[d] = goal[d]
      BY <1>10, <1>c, <2>2 DEF TypeOK
    <3>3. /\ value' + Cardinality(woken') + Has(c)' <= value + Cardinality(woken) + Has(c)
          /\ value + Cardinality(woken) + Has(c) - 2 * Failed(c)'
               <= value' + Cardinality(woken') + Has(c)'
      <4>1. CASE to = "broken"
        BY <1>10, <1>c, <2>1, <3>1, <4>1
      <4>2. CASE to # "broken"
        BY <1>10, <1>c, <2>1, <3>1, <4>2
      <4> QED BY <4>1, <4>2
    <3>4. value' \in Int /\ woken' \in SUBSET Callers
      BY <2>3 DEF TypeOK
    <3> QED BY <3>1, <3>2, <3>3, <3>4, SlotStep
  <2> QED BY <2>3, <2>4, <2>5, <2>6, <2>7 DEF IInv
<1>11. ASSUME NEW c \in Callers, Loop(c) PROVE IInv'
  <2>1. PICK to : Goto(c, to) /\ (to = "wake" \/ to = goal[c])
    BY <1>11 DEF Loop
  <2>2. to # "loop"
    BY <1>c, <2>1 DEF TypeOK
  <2>3. /\ rest' \in [Callers -> Seq(Callers)] /\ stale' \subseteq Callers
        /\ to \notin {"scan", "give"} /\ rest' = rest
    BY <1>11, <1>c, <2>1 DEF Loop, TypeOK
  <2> QED BY <1>10, <1>11, <2>1, <2>2, <2>3 DEF Loop
<1>12. ASSUME NEW c \in Callers, NEW q \in Seq(Callers), pc[c] \in Waking, Examine(c, q),
              Turn(LoopOf[c]), UNCHANGED <<value, waiters, bound, goal, attempt>>,
              stale' \subseteq Callers
       PROVE  IInv'
  <2>1. PICK to : Goto(c, to) /\ to = IF q = <<>> THEN goal[c]
                                     ELSE IF Head(q) \in woken THEN "scan" ELSE "give"
    BY <1>12 DEF Examine
  <2>2. rest' \in [Callers -> Seq(Callers)] /\ rest'[c] = q /\ \A d \in Callers \ {c} : rest'[d] = rest[d]
    BY <1>12, <1>c DEF Examine, TypeOK
  <2>3. to # "loop" /\ (to \in {"scan", "give"} => rest'[c] # <<>>)
        /\ (to \in Waking \/ to = goal[c])
    BY <1>c, <2>1, <2>2 DEF TypeOK
  <2> QED BY <1>10, <1>12, <2>1, <2>2, <2>3
<1>13. ASSUME NEW c \in Callers, Wake(c) PROVE IInv'
  BY <1>12, <1>13, <1>c DEF Wake, TypeOK
<1>14. ASSUME NEW c \in Callers, Scan(c) PROVE IInv'
  <2>1. rest[c] \in Seq(Callers) /\ rest[c] # <<>> /\ pc[c] = "scan"
    BY <1>14, <1>c DEF Scan, IInv, TypeOK, Scans
  <2>2. Tail(rest[c]) \in Seq(Callers) /\ stale' \subseteq Callers
    BY <1>14, <1>c, <2>1 DEF Scan, TypeOK
  <2>3. CASE c \in stale
    <3>1. /\ rest' = [rest EXCEPT ![c] = <<>>] /\ <<>> \in Seq(Callers)
          /\ Goto(c, "broken")
      BY <1>14, <2>3 DEF Scan
    <3>2. rest' \in [Callers -> Seq(Callers)] /\ \A d \in Callers \ {c} : rest'[d] = rest[d]
      BY <1>c, <3>1 DEF TypeOK
    <3> QED BY <1>10, <1>14, <2>1, <2>2, <3>1, <3>2 DEF Scan
  <2>4. CASE c \notin stale
    BY <1>12, <1>14, <2>1, <2>2, <2>4 DEF Scan
  <2> QED BY <2>3, <2>4
<1>15. ASSUME NEW c \in Callers, Give(c) PROVE IInv'
  <2> DEFINE w == Head(rest[c])
  <2>1. /\ pc[c] = "give" /\ value' = value - 1 /\ w \in Callers
        /\ rest' = [rest EXCEPT ![c] = <<>>] /\ <<>> \in Seq(Callers)
        /\ UNCHANGED <<waiters, bound, goal, stale, attempt>>
    BY <1>15, <1>c DEF Give, IInv, TypeOK, Scans
  <2>2. /\ rest' \in [Callers -> Seq(Callers)] /\ stale' \subseteq Callers
        /\ \A d \in Callers \ {c} : rest'[d] = rest[d]
    BY <1>c, <2>1 DEF TypeOK
  <2>3. CASE ~(pc[w] = "wait" /\ w \notin woken)
    <3>1. Turn(LoopOf[c]) /\ Goto(c, "broken")
      BY <1>15, <2>3 DEF Give
    <3> QED BY <1>10, <2>1, <2>2, <3>1
  <2>4. CASE pc[w] = "wait" /\ w \notin woken
    <3>1. Grant({w}, LoopOf[c], {})
      BY <1>15, <2>4 DEF Give
    <3>2. PICK to \in {"done", "loop"} :
            /\ pc' = [pc EXCEPT ![c] = to]
            /\ to = "done" <=> goal[c] = "done"
      BY <1>15, <2>4 DEF Give, Goto
    <3>3. woken' = woken \union {w} /\ woken' \subseteq Callers /\ due' \subseteq woken'
      BY <1>c, <2>1, <3>1 DEF Grant, TypeOK
    <3>4. Cardinality(woken') = Cardinality(woken) + 1
      <4>1. woken \in SUBSET Callers /\ woken' \in SUBSET Callers /\ woken \ {w} = woken' \ {w}
            /\ w \in woken' /\ w \notin woken
        BY <1>c, <2>4, <3>3 DEF TypeOK
      <4> QED BY <1>c, <2>1, <4>1, CountOne
    <3>5. TypeOK'
      BY <1>c, <2>1, <2>2, <3>2, <3>3 DEF TypeOK
    <3>6. Queued' /\ \A d \in woken' : pc'[d] = "wait"
      <4>1. \A d \in Callers : pc'[d] = "wait" <=> pc[d] = "wait"
        BY <1>c, <2>1, <3>2 DEF TypeOK
      <4>2. Queued'
        BY <2>1, <4>1 DEF IInv, Queued, ToSet
      <4>3. \A d \in woken' : pc'[d] = "wait"
        BY <1>c, <2>1, <2>4, <3>3, <4>1 DEF IInv, TypeOK
      <4> QED BY <4>2, <4>3
    <3>7. Budget' /\ Scans'
      BY <1>c, <2>1, <2>2, <3>2 DEF IInv, TypeOK, Budget, Scans
    <3>8. SlotsConserved'
      <4>1. /\ Has(c) \in 0..1 /\ Has(c)' = Has(c) /\ Failed(c) = 0 /\ Failed(c)' = 0
        BY <1>c, <2>1, <3>2 DEF Has, Failed, Owning, Broken, TypeOK
      <4>2. \A d \in Callers \ {c} : pc'[d] = pc[d] /\ goal'[d] = goal[d]
        BY <1>c, <2>1, <3>2 DEF TypeOK
      <4>3. /\ value' \in Int /\ woken' \in SUBSET Callers
            /\ value' + Cardinality(woken') + Has(c)' <= value + Cardinality(woken) + Has(c)
            /\ value + Cardinality(woken) + Has(c) - 2 * Failed(c)'
                 <= value' + Cardinality(woken') + Has(c)'
        BY <1>c, <2>1, <3>3, <3>4, <4>1
      <4> QED BY <4>1, <4>2, <4>3, SlotStep
    <3> QED BY <3>5, <3>6, <3>7, <3>8 DEF IInv
  <2> QED BY <2>3, <2>4
<1>16. ASSUME Tick PROVE IInv'
  <2>1. woken' = woken /\ due' \subseteq woken'
    BY <1>16, <1>c, TurnStep DEF Tick
  <2>2. Owning' = Owning /\ Broken' = Broken
    BY <1>16 DEF Tick, Owning, Broken
  <2>3. TypeOK'
    BY <1>16, <1>c, <2>1 DEF Tick, TypeOK
  <2>4. Queued' /\ Budget' /\ Scans' /\ \A d \in woken' : pc'[d] = "wait"
    BY <1>16, <2>1 DEF Tick, IInv, Queued, Budget, Scans, ToSet
  <2> QED BY <1>16, <2>1, <2>2, <2>3, <2>4 DEF Tick, IInv, SlotsConserved, Slots
<1>17. CASE UNCHANGED vars
  <2>1. Owning' = Owning /\ Broken' = Broken
    BY <1>17 DEF vars, Owning, Broken
  <2> QED BY <1>17, <2>1
      DEF vars, IInv, TypeOK, Queued, Budget, Scans, SlotsConserved, Slots, ToSet
<1> QED BY <1>1, <1>2, <1>3, <1>5, <1>6, <1>8, <1>9, <1>11, <1>13, <1>14, <1>15, <1>16, <1>17
    DEF Next, Work, Finished

LEMMA Always == Spec => []IInv
BY Initially, Inductive, PTL DEF Spec

(* The gate stays within its types.                                        *)
THEOREM TypesCorrect == Spec => []TypeOK
<1>1. IInv => TypeOK
  BY DEF IInv
<1> QED BY <1>1, Always, PTL

(* Whatever threads race and whatever is cancelled, no slot of a worker is *)
(* made up, and each that is lost was lost by a call that failed in its    *)
(* wake-up of others, two of them at most (acquire and release of          *)
(* _acquire_worker_inflight).                                              *)
THEOREM SlotsAccounted == Spec => []SlotsConserved
<1>1. IInv => SlotsConserved
  BY DEF IInv
<1> QED BY <1>1, Always, PTL

-----------------------------------------------------------------------------
(* Callers that share one loop                                             *)

SharedLoop == \A c, d \in Callers : LoopOf[c] = LoopOf[d]

Between == {"take", "queue"} \union Waking

(* The waiters whose future is not done.                                   *)
Undone == {c \in Callers : pc[c] = "wait"} \ woken

(* What one loop adds: at most one caller is between two steps, and what   *)
(* it looked at still holds when it acts on it.                            *)
Looked ==
  \A c \in Callers :
    /\ pc[c] \in {"take", "wake", "scan", "give"} => value > 0
    /\ pc[c] = "queue" => Locked
    /\ pc[c] = "scan" =>
         /\ \A d \in Undone : \E i \in 2..Len(rest[c]) : rest[c][i] = d
         /\ \A i \in 1..Len(rest[c]) : pc[rest[c][i]] = "wait"
    /\ pc[c] = "give" => Head(rest[c]) \in Undone

LInv ==
  /\ value >= 0
  /\ \A c, d \in Callers : pc[c] \in Between /\ pc[d] \in Between => c = d
  /\ Looked
  /\ stale = {} /\ Broken = {}
  /\ NoLostWakeup

(* Who may run on a shared loop finds nobody between two steps.            *)
LEMMA Alone ==
  ASSUME SharedLoop, NEW c \in Callers, NEW at, Runs(c, at)
  PROVE  \A d \in Callers : pc[d] \notin Between
BY DEF SharedLoop, Runs, Busy, Between

(* A waiter that is not woken is one of the undone ones of the queue.      *)
LEMMA UndoneWaiters ==
  ASSUME IInv
  PROVE  /\ (\E i \in 1..Len(waiters) : waiters[i] \notin woken) <=> Undone # {}
         /\ \A d \in Undone : \E i \in 1..Len(waiters) : waiters[i] = d
<1>1. waiters \in Seq(Callers) /\ DOMAIN waiters = 1..Len(waiters)
  BY DEF IInv, TypeOK
<1>2. \A i \in 1..Len(waiters) : waiters[i] \in Callers /\ waiters[i] \in ToSet(waiters)
  BY <1>1 DEF ToSet
<1>3. \A d \in Callers : d \in ToSet(waiters) <=> pc[d] = "wait"
  BY DEF IInv, Queued
<1>4. \A d \in ToSet(waiters) : \E i \in 1..Len(waiters) : waiters[i] = d
  BY <1>1 DEF ToSet
<1> QED BY <1>2, <1>3, <1>4 DEF Undone

(* After a step of the only caller that was between two steps, at most it  *)
(* is still between two.                                                   *)
LEMMA OnlyOne ==
  ASSUME TypeOK, NEW c \in Callers, NEW to, pc' = [pc EXCEPT ![c] = to],
         \A d \in Callers \ {c} : pc[d] \notin Between
  PROVE  /\ pc'[c] = to
         /\ \A d \in Callers \ {c} : pc'[d] = pc[d] /\ pc'[d] \notin Between
         /\ (\A d, e \in Callers : pc[d] \in Between /\ pc[e] \in Between => d = e)'
BY DEF TypeOK, Between

LEMMA SharedStep == SharedLoop /\ IInv /\ LInv /\ [Next]_vars => LInv'
<1> SUFFICES ASSUME SharedLoop, IInv, LInv, [Next]_vars PROVE LInv'
  OBVIOUS
<1> USE DEF Over
<1>t. TypeOK /\ TypeOK' /\ IInv'
  BY Inductive DEF IInv
<1>v. value \in Nat /\ value >= 0
  BY <1>t DEF LInv, TypeOK
<1>o. ASSUME NEW c \in Callers, pc[c] \in Between
      PROVE  \A d \in Callers \ {c} : pc[d] \notin Between
  BY <1>o DEF LInv
(* The parts of LInv' that remain to be shown for a step of caller c.      *)
<1>s. ASSUME NEW c \in Callers, NEW to, pc' = [pc EXCEPT ![c] = to], to # "broken",
             \A d \in Callers \ {c} : pc[d] \notin Between,
             value' >= 0, stale' = {},
             to \in {"take", "wake", "scan", "give"} => value' > 0,
             to = "queue" => Locked',
             to = "scan" =>
               /\ \A d \in Undone' : \E i \in 2..Len(rest'[c]) : rest'[c][i] = d
               /\ \A i \in 1..Len(rest'[c]) : pc'[rest'[c][i]] = "wait",
             to = "give" => Head(rest'[c]) \in Undone',
             NoLostWakeup'
      PROVE  LInv'
  <2>1. /\ pc'[c] = to
        /\ \A d \in Callers \ {c} : pc'[d] = pc[d] /\ pc'[d] \notin Between
        /\ (\A d, e \in Callers : pc[d] \in Between /\ pc[e] \in Between => d = e)'
    BY <1>s, <1>t, OnlyOne
  <2>2. Looked'
    <3> SUFFICES ASSUME NEW d \in Callers
                 PROVE  (/\ pc[d] \in {"take", "wake", "scan", "give"} => value > 0
                         /\ pc[d] = "queue" => Locked
                         /\ pc[d] = "scan" =>
                              /\ \A e \in Undone : \E i \in 2..Len(rest[d]) : rest[d][i] = e
                              /\ \A i \in 1..Len(rest[d]) : pc[rest[d][i]] = "wait"
                         /\ pc[d] = "give" => Head(rest[d]) \in Undone)'
      BY DEF Looked
    <3>1. CASE d = c
      BY <1>s, <2>1, <3>1
    <3>2. CASE d # c
      BY <2>1, <3>2 DEF Between, Waking
    <3> QED BY <3>1, <3>2
  <2>3. Broken' = {}
    <3>1. \A d \in Callers : pc[d] # "broken"
      BY DEF LInv, Broken
    <3> QED BY <1>s, <2>1, <3>1 DEF Broken
  <2> QED BY <1>s, <2>1, <2>2, <2>3 DEF LInv
<1>1. ASSUME NEW c \in Callers, Look(c) PROVE LInv'
  <2>1. woken' = woken /\ UNCHANGED <<value, waiters, stale>> /\ \A d \in Callers : pc[d] \notin Between
    BY <1>1, <1>t, TurnStep, Alone DEF Look
  <2>2. pc' = [pc EXCEPT ![c] = IF Locked THEN "queue" ELSE "take"]
    BY <1>1 DEF Look, Goto
  <2>3. (~Locked => value > 0) /\ Locked' = Locked
    BY <1>v, <2>1 DEF Locked
  <2>4. NoLostWakeup'
    BY <2>1 DEF LInv, NoLostWakeup, Between
  <2>5. stale' = {}
    BY <2>1 DEF LInv
  <2>6. CASE Locked
    BY <1>s, <1>v, <2>1, <2>2, <2>3, <2>4, <2>5, <2>6
  <2>7. CASE ~Locked
    <3>1. /\ pc' = [pc EXCEPT ![c] = "take"] /\ value' > 0 /\ value' >= 0
          /\ \A d \in Callers \ {c} : pc[d] \notin Between
      BY <1>v, <2>1, <2>2, <2>3, <2>7
    <3> QED BY <1>s, <2>4, <2>5, <3>1
  <2> QED BY <2>6, <2>7
<1>2. ASSUME NEW c \in Callers, Take(c) PROVE LInv'
  <2>1. woken' = woken /\ waiters' = waiters /\ value' = value - 1 /\ pc[c] = "take"
        /\ pc' = [pc EXCEPT ![c] = "hold"] /\ stale' = {}
    BY <1>2, <1>t, TurnStep DEF Take, Goto, LInv
  <2>2. value > 0 /\ \A d \in Callers \ {c} : pc[d] \notin Between
    BY <1>o, <2>1 DEF LInv, Looked, Between
  <2>3. NoLostWakeup'
    <3>1. \A d \in Callers : pc[d] \notin Waking
      BY <2>1, <2>2 DEF Between, Waking
    <3> QED BY <2>1, <2>2, <3>1 DEF LInv, NoLostWakeup
  <2>4. value' >= 0
    BY <1>v, <2>1, <2>2
  <2> QED BY <1>s, <2>1, <2>2, <2>3, <2>4
<1>3. ASSUME NEW c \in Callers, Queue(c) PROVE LInv'
  <2>1. woken' = woken /\ value' = value /\ pc[c] = "queue"
    BY <1>3, <1>t, TurnStep DEF Queue
  <2>2. PICK to \in {"wait", "failed"} : pc' = [pc EXCEPT ![c] = to]
    BY <1>3 DEF Queue, Goto
  <2>3. \A d \in Callers \ {c} : pc[d] \notin Between
    BY <1>o, <2>1 DEF Between
  <2>4. stale' = {}
    <3>1. {d \in Callers : pc[d] = "scan"} = {}
      BY <2>1, <2>3 DEF Between, Waking
    <3>2. stale' = stale \/ stale' = stale \union {d \in Callers : pc[d] = "scan"}
      BY <1>3 DEF Queue, Disturb
    <3> QED BY <3>1, <3>2 DEF LInv
  <2>5. value > 0 => woken # {}
    <3>1. SUFFICES ASSUME value > 0, woken = {} PROVE FALSE
      OBVIOUS
    <3>2. waiters # <<>>
      BY <1>v, <2>1, <3>1 DEF LInv, Looked, Locked
    <3>3. 1 \in 1..Len(waiters)
      BY <1>t, <3>2 DEF TypeOK
    <3>4. \E d \in Callers : pc[d] \in Waking
      BY <3>1, <3>3 DEF LInv, NoLostWakeup
    <3> QED BY <2>1, <2>3, <3>4 DEF Between, Waking
  <2>6. NoLostWakeup'
    BY <2>1, <2>5 DEF NoLostWakeup
  <2> QED BY <1>s, <1>v, <2>1, <2>2, <2>3, <2>4, <2>6
<1>4. ASSUME NEW c \in Callers, NEW at, Runs(c, at), NEW to \in {"loop", "wake"},
             pc' = [pc EXCEPT ![c] = to], value' >= 0, to = "wake" => value' > 0,
             stale' = stale \/ Disturb
      PROVE  LInv'
  <2>1. \A d \in Callers : pc[d] \notin Between
    BY <1>4, Alone
  <2>2. stale' = {}
    <3>1. {d \in Callers : pc[d] = "scan"} = {}
      BY <2>1 DEF Between, Waking
    <3> QED BY <1>4, <3>1 DEF Disturb, LInv
  <2>3. NoLostWakeup'
    <3>1. pc'[c] \in Waking
      BY <1>4, <1>t DEF TypeOK, Waking
    <3> QED BY <3>1 DEF NoLostWakeup
  <2> QED BY <1>4, <1>s, <2>1, <2>2, <2>3
<1>5. ASSUME NEW c \in Callers, Resume(c) PROVE LInv'
  BY <1>4, <1>5, <1>v DEF Resume, WakeThen, Goto
<1>6. ASSUME NEW c \in Callers, CancelWait(c) PROVE LInv'
  <2>1. value' >= 0
    BY <1>6, <1>v DEF CancelWait
  <2> QED BY <1>4, <1>6, <2>1 DEF CancelWait, WakeThen, Goto
<1>7. ASSUME NEW c \in Callers, NEW ends \in BOOLEAN, Attempt(c, ends) PROVE LInv'
  <2>1. CASE WakeThen(c, "wake", "done") /\ value' = value + 1
    <3>1. value' > 0 /\ value' >= 0
      BY <1>v, <2>1
    <3> QED BY <1>4, <1>7, <2>1, <3>1 DEF Attempt, WakeThen, Goto
  <2>2. CASE UNCHANGED <<pc, goal, value>>
    <3>1. woken' = woken /\ UNCHANGED <<waiters, stale, rest>>
      BY <1>7, <1>t, TurnStep DEF Attempt
    <3> QED BY <2>2, <3>1 DEF LInv, Looked, Undone, Broken, NoLostWakeup, Locked
  <2> QED BY <1>7, <2>1, <2>2 DEF Attempt
<1>8. ASSUME NEW c \in Callers, CancelCall(c) PROVE LInv'
  <2>1. value' > 0 /\ value' >= 0
    BY <1>8, <1>v DEF CancelCall
  <2> QED BY <1>4, <1>8, <2>1 DEF CancelCall, WakeThen, Goto
<1>9. ASSUME NEW c \in Callers, Loop(c) PROVE LInv'
  <2>1. /\ woken' = woken /\ UNCHANGED <<value, waiters, stale>> /\ pc[c] = "loop"
        /\ pc' = [pc EXCEPT ![c] = IF value > 0 THEN "wake" ELSE goal[c]]
    BY <1>9, <1>t, TurnStep DEF Loop, Goto
  <2>2. \A d \in Callers \ {c} : pc[d] \notin Between
    BY <1>o, <2>1 DEF Between, Waking
  <2>3. stale' = {} /\ value' >= 0
    BY <1>v, <2>1 DEF LInv
  <2>4. CASE value > 0
    <3>1. pc' = [pc EXCEPT ![c] = "wake"] /\ pc'[c] \in Waking
      BY <1>t, <2>1, <2>4 DEF TypeOK, Waking
    <3>2. NoLostWakeup'
      BY <3>1 DEF NoLostWakeup
    <3>3. value' > 0
      BY <2>1, <2>4
    <3> QED BY <1>s, <2>2, <2>3, <3>1, <3>2, <3>3
  <2>5. CASE ~(value > 0)
    <3>1. PICK g \in {"hold", "done", "cancelled"} : g = goal[c]
      BY <1>t DEF TypeOK
    <3>2. NoLostWakeup'
      BY <2>1, <2>5 DEF NoLostWakeup
    <3> QED BY <1>s, <2>1, <2>2, <2>3, <2>5, <3>1, <3>2
  <2> QED BY <2>4, <2>5
<1>10. ASSUME NEW c \in Callers, NEW q \in Seq(Callers), Examine(c, q),
              pc[c] \in {"wake", "scan"}, Turn(LoopOf[c]),
              UNCHANGED <<value, waiters, goal>>, stale' = {},
              \A d \in Undone : \E i \in 1..Len(q) : q[i] = d,
              \A i \in 1..Len(q) : pc[q[i]] = "wait"
       PROVE  LInv'
  <2>1. woken' = woken
    BY <1>10, <1>t, TurnStep
  <2>2. /\ value > 0 /\ value' > 0 /\ value' >= 0
        /\ \A d \in Callers \ {c} : pc[d] \notin Between
    BY <1>10, <1>o, <1>v DEF LInv, Looked, Between, Waking
  <2>3. PICK to : Goto(c, to) /\ to = IF q = <<>> THEN goal[c]
                                     ELSE IF Head(q) \in woken THEN "scan" ELSE "give"
    BY <1>10 DEF Examine
  <2>4. pc' = [pc EXCEPT ![c] = to] /\ pc'[c] = to /\ rest'[c] = q
    BY <1>10, <1>t, <2>3 DEF Examine, Goto, TypeOK
  <2>5. goal[c] \in {"hold", "done", "cancelled"}
    BY <1>t DEF TypeOK
  <2>6. Undone' = Undone
    <3>1. \A d \in Callers : pc'[d] = "wait" <=> pc[d] = "wait"
      BY <1>10, <1>t, <2>3, <2>4, <2>5 DEF TypeOK
    <3> QED BY <2>1, <3>1 DEF Undone
  <2>7. CASE q = <<>>
    <3>1. Undone = {}
      BY <1>10, <2>7
    <3>2. NoLostWakeup'
      BY <1>10, <2>1, <3>1, UndoneWaiters DEF NoLostWakeup
    <3> QED BY <1>10, <1>s, <2>2, <2>3, <2>4, <2>5, <2>7, <3>2
  <2>8. CASE q # <<>>
    <3>1. to \in {"scan", "give"} /\ Len(q) \in Nat /\ Len(q) > 0 /\ Head(q) = q[1]
          /\ Head(q) \in Callers
      BY <2>3, <2>8
    <3>2. NoLostWakeup'
      BY <2>4, <3>1 DEF NoLostWakeup, Waking
    <3>3. CASE to = "scan"
      <4>1. Head(q) \notin Undone
        BY <2>3, <2>8, <3>3 DEF Undone
      <4>2. \A d \in Undone' : \E i \in 2..Len(rest'[c]) : rest'[c][i] = d
        <5> SUFFICES ASSUME NEW d \in Undone PROVE \E i \in 2..Len(q) : q[i] = d
          BY <2>4, <2>6
        <5>1. PICK i \in 1..Len(q) : q[i] = d
          BY <1>10
        <5>2. i # 1
          BY <3>1, <4>1, <5>1
        <5> QED BY <3>1, <5>1, <5>2
      <4>3. \A i \in 1..Len(rest'[c]) : pc'[rest'[c][i]] = "wait"
        <5>1. pc[c] # "wait"
          BY <1>10
        <5> QED BY <1>10, <2>4, <5>1
      <4> QED BY <1>10, <1>s, <2>2, <2>4, <3>2, <3>3, <4>2, <4>3
    <3>4. CASE to = "give"
      <4>1. Head(q) \in Undone
        <5>1. pc[Head(q)] = "wait"
          BY <1>10, <3>1
        <5> QED BY <2>3, <2>8, <3>1, <3>4, <5>1 DEF Undone
      <4>2. Head(rest'[c]) \in Undone'
        BY <2>4, <2>6, <4>1
      <4> QED BY <1>10, <1>s, <2>2, <2>4, <3>2, <3>4, <4>2
    <3> QED BY <3>1, <3>3, <3>4
  <2> QED BY <2>7, <2>8
<1>11. ASSUME NEW c \in Callers, Wake(c) PROVE LInv'
  <2>1. waiters \in Seq(Callers) /\ stale' = {}
    BY <1>11, <1>t DEF Wake, TypeOK, LInv
  <2>2. \A d \in Undone : \E i \in 1..Len(waiters) : waiters[i] = d
    BY UndoneWaiters
  <2>3. \A i \in 1..Len(waiters) : pc[waiters[i]] = "wait"
    <3>1. \A i \in 1..Len(waiters) : waiters[i] \in Callers /\ waiters[i] \in ToSet(waiters)
      <4>1. DOMAIN waiters = 1..Len(waiters)
        BY <2>1
      <4> QED BY <2>1, <4>1 DEF ToSet
    <3> QED BY <3>1 DEF IInv, Queued
  <2> QED BY <1>10, <1>11, <2>1, <2>2, <2>3 DEF Wake
<1>12. ASSUME NEW c \in Callers, Scan(c) PROVE LInv'
  <2>1. pc[c] = "scan" /\ c \notin stale /\ stale' = {}
    BY <1>12 DEF Scan, LInv
  <2>2. rest[c] \in Seq(Callers) /\ rest[c] # <<>>
    BY <1>t, <2>1 DEF IInv, TypeOK, Scans
  <2>3. /\ Tail(rest[c]) \in Seq(Callers) /\ Len(rest[c]) \in Nat
        /\ Len(Tail(rest[c])) = Len(rest[c]) - 1
        /\ \A i \in 1..Len(Tail(rest[c])) : Tail(rest[c])[i] = rest[c][i + 1]
    BY <2>2
  <2>4. \A d \in Undone : \E i \in 1..Len(Tail(rest[c])) : Tail(rest[c])[i] = d
    <3> SUFFICES ASSUME NEW d \in Undone
                 PROVE  \E i \in 1..Len(Tail(rest[c])) : Tail(rest[c])[i] = d
      OBVIOUS
    <3>1. PICK i \in 2..Len(rest[c]) : rest[c][i] = d
      BY <2>1 DEF LInv, Looked
    <3>2. i - 1 \in 1..Len(Tail(rest[c])) /\ (i - 1) + 1 = i
      BY <2>3, <3>1
    <3> QED BY <2>3, <3>1, <3>2
  <2>5. \A i \in 1..Len(Tail(rest[c])) : pc[Tail(rest[c])[i]] = "wait"
    <3>1. \A i \in 1..Len(Tail(rest[c])) : i + 1 \in 1..Len(rest[c])
      BY <2>3
    <3> QED BY <2>1, <2>3, <3>1 DEF LInv, Looked
  <2> QED BY <1>10, <1>12, <2>1, <2>3, <2>4, <2>5 DEF Scan
<1>13. ASSUME NEW c \in Callers, Give(c) PROVE LInv'
  <2> DEFINE w == Head(rest[c])
  <2>1. /\ pc[c] = "give" /\ value' = value - 1 /\ stale' = {}
        /\ w \in Undone
    BY <1>13 DEF Give, LInv, Looked
  <2>2. value > 0 /\ \A d \in Callers \ {c} : pc[d] \notin Between
    BY <1>o, <2>1 DEF LInv, Looked, Between, Waking
  <2>3. PICK to \in {"done", "loop"} : pc' = [pc EXCEPT ![c] = to]
    BY <1>13, <2>1 DEF Give, Goto, Undone
  <2>4. w \in woken'
    BY <1>13, <2>1 DEF Give, Grant, Undone
  <2>5. NoLostWakeup'
    BY <2>4 DEF NoLostWakeup
  <2>6. value' >= 0
    BY <1>v, <2>1, <2>2
  <2> QED BY <1>s, <2>1, <2>2, <2>3, <2>5, <2>6
<1>14. ASSUME Tick PROVE LInv'
  <2>1. woken' = woken /\ UNCHANGED <<value, waiters, pc, rest, stale>>
    BY <1>14, <1>t, TurnStep DEF Tick
  <2> QED BY <2>1 DEF LInv, Looked, Undone, Broken, NoLostWakeup, Locked
<1>15. CASE UNCHANGED vars
  BY <1>15 DEF vars, LInv, Looked, Undone, Broken, NoLostWakeup, Locked
<1> QED BY <1>1, <1>2, <1>3, <1>5, <1>6, <1>7, <1>8, <1>9, <1>11, <1>12, <1>13, <1>14, <1>15
    DEF Next, Work, Finished

(* Nobody failed in its wake-up, so the count is exact; free slots are not *)
(* negative and woken waiters are counted, so no more than MaxInflight are *)
(* held.                                                                   *)
LEMMA CountFollows == IInv /\ LInv => NothingMissing /\ CapHolds
<1> SUFFICES ASSUME IInv, LInv PROVE NothingMissing /\ CapHolds
  OBVIOUS
<1>1. /\ Cardinality(Holding) \in Nat /\ Cardinality(Owning) \in Nat
      /\ Cardinality(Holding) <= Cardinality(Owning)
  <2>1. Holding \subseteq Owning /\ Owning \subseteq Callers
    BY DEF Holding, Owning
  <2>2. IsFiniteSet(Owning)
    BY <2>1, FS_Subset, CallerAssumption
  <2> QED BY <2>1, <2>2, FS_Subset, FS_CardinalityType
<1>2. Cardinality(woken) \in Nat /\ value \in Int /\ value >= 0
  BY WokenCount DEF IInv, TypeOK, LInv
<1>3. Cardinality(Broken) = 0
  BY FS_EmptySet DEF LInv
<1> QED BY <1>1, <1>2, <1>3, LimitAssumption
    DEF IInv, SlotsConserved, Slots, NothingMissing, CapHolds

LEMMA SharedAlways == ASSUME SharedLoop PROVE Spec => [](IInv /\ LInv)
<1>1. Init => IInv /\ LInv
  <2> SUFFICES ASSUME Init PROVE IInv /\ LInv
    OBVIOUS
  <2>1. IInv
    BY Initially
  <2>2. Broken = {} /\ \A c \in Callers : pc[c] = "idle"
    BY DEF Init, Broken
  <2>3. waiters = <<>> /\ stale = {} /\ value >= 0
    BY LimitAssumption DEF Init
  <2>4. Looked
    BY <2>2 DEF Looked
  <2>5. NoLostWakeup
    BY <2>3 DEF NoLostWakeup
  <2> QED BY <2>1, <2>2, <2>3, <2>4, <2>5 DEF LInv, Between, Waking
<1>2. IInv /\ LInv /\ [Next]_vars => (IInv /\ LInv)'
  BY Inductive, SharedStep
<1> QED BY <1>1, <1>2, PTL DEF Spec

(* If all callers share one loop, every slot is free, taken or on its way  *)
(* to a waiter, through retries and cancellation.                          *)
THEOREM NoSlotLost == ASSUME SharedLoop PROVE Spec => []NothingMissing
<1>1. IInv /\ LInv => NothingMissing
  BY CountFollows
<1> QED BY <1>1, SharedAlways, PTL

(* "caps how many concurrent jobs may hit the same worker_id at once": the *)
(* cap holds for every number of callers and slots, if they share a loop.  *)
THEOREM CapOnOneLoop == ASSUME SharedLoop PROVE Spec => []CapHolds
<1>1. IInv /\ LInv => CapHolds
  BY CountFollows
<1> QED BY <1>1, SharedAlways, PTL

(* On a shared loop no waiter is forgotten while a slot is free.           *)
THEOREM NobodyForgotten == ASSUME SharedLoop PROVE Spec => []NoLostWakeup
<1>1. IInv /\ LInv => NoLostWakeup
  BY DEF LInv
<1> QED BY <1>1, SharedAlways, PTL

-----------------------------------------------------------------------------
(* How far each call is from its end.                                      *)

(* The most that a call has still to do: its attempts and the stages       *)
(* around them.                                                            *)
Stage(c) ==
  CASE pc[c] = "idle"              -> Retries + 5
    [] pc[c] \in {"take", "queue"} -> Retries + 4
    [] pc[c] = "wait"              -> Retries + 3
    [] pc[c] = "hold"              -> Retries + 1 - attempt[c]
    [] pc[c] \in Waking            -> IF goal[c] = "hold" THEN Retries + 2 ELSE 1
    [] OTHER -> 0

(* The calls that have no slot and have not been given one yet.            *)
Ungranted ==
  {c \in Callers : pc[c] \in {"idle", "take", "queue"} \/ (pc[c] = "wait" /\ c \notin woken)}

(* Where c is in one round of waking others.                               *)
Phase(c) ==
  CASE pc[c] = "loop" -> 3 [] pc[c] = "wake" -> 2 [] pc[c] = "scan" -> 1 [] OTHER -> 0

Counted ==
  /\ Cardinality(Ungranted) \in Nat
  /\ \A c \in Callers : Stage(c) \in Nat /\ Phase(c) \in Nat /\ Len(rest[c]) \in Nat

(* A step of a call: its own, or the departure of its client.              *)
Moves(c) == Work(c) \/ CancelWait(c) \/ CancelCall(c)

(* What c's own steps use up: stages; while it wakes others, the calls     *)
(* there are to wake; and in one round, what is left of the queue.         *)
Closer(c) ==
  \/ Stage(c)' < Stage(c)
  \/ /\ Stage(c)' = Stage(c)
     /\ \/ Cardinality(Ungranted)' < Cardinality(Ungranted)
        \/ Phase(c)' < Phase(c)
        \/ Phase(c)' = Phase(c) /\ Len(rest[c])' < Len(rest[c])

(* No step sets a call back, and its own steps take it further.            *)
Forward(c) ==
  /\ Stage(c)' <= Stage(c)
  /\ Ungranted' \subseteq Ungranted
  /\ Moves(c) => Closer(c)
  /\ ~Moves(c) => Phase(c)' = Phase(c) /\ Len(rest[c])' = Len(rest[c])

LEMMA CountType == IInv => Counted
<1> SUFFICES ASSUME IInv PROVE Counted
  OBVIOUS
<1>1. Cardinality(Ungranted) \in Nat
  <2>1. Ungranted \subseteq Callers
    BY DEF Ungranted
  <2> QED BY <2>1, FS_Subset, FS_CardinalityType, CallerAssumption
<1>2. ASSUME NEW c \in Callers PROVE Stage(c) \in Nat
  <2>1. Retries \in Nat /\ attempt[c] \in Nat /\ (pc[c] = "hold" => attempt[c] < Retries)
    BY LimitAssumption DEF IInv, TypeOK, Budget
  <2>2. CASE pc[c] = "hold"
    BY <2>1, <2>2 DEF Stage
  <2>3. CASE pc[c] # "hold"
    BY <2>1, <2>3 DEF Stage
  <2> QED BY <2>2, <2>3
<1>3. ASSUME NEW c \in Callers PROVE Phase(c) \in Nat /\ Len(rest[c]) \in Nat
  BY DEF Phase, IInv, TypeOK
<1> QED BY <1>1, <1>2, <1>3 DEF Counted

(* Where a step of a call takes it, by the name of the stage.              *)
LEMMA WhereTo ==
  ASSUME IInv, NEW c \in Callers, Moves(c)
  PROVE  /\ \A d \in Callers \ {c} : /\ pc'[d] = pc[d] /\ attempt'[d] = attempt[d]
                                    /\ goal'[d] = goal[d] /\ rest'[d] = rest[d]
         /\ woken \ {c} \subseteq woken'
         /\ \/ pc[c] = "idle" /\ pc'[c] \in {"take", "queue"}
            \/ pc[c] = "take" /\ pc'[c] = "hold" /\ attempt' = attempt
            \/ pc[c] = "queue" /\ pc'[c] \in {"wait", "failed"} /\ woken' = woken
            \/ pc[c] = "wait" /\ pc'[c] = "loop" /\ goal'[c] \in {"hold", "cancelled"}
            \/ pc[c] = "hold" /\ pc'[c] = "wake" /\ goal'[c] = "done"
            \/ pc[c] = "hold" /\ pc'[c] = "hold" /\ attempt'[c] = attempt[c] + 1
            \/ /\ pc[c] \in Waking /\ attempt' = attempt /\ goal' = goal
               /\ \/ pc'[c] = goal[c]
                  \/ pc'[c] = "broken"
                  \/ pc[c] = "loop" /\ pc'[c] = "wake"
                  \/ pc[c] = "wake" /\ pc'[c] \in {"scan", "give"}
                  \/ pc[c] = "scan" /\ pc'[c] = "give"
                  \/ pc[c] = "scan" /\ pc'[c] = "scan" /\ rest'[c] = Tail(rest[c])
                  \/ /\ pc[c] = "give" /\ pc'[c] = "loop"
                     /\ Head(rest[c]) \in Ungranted \ Ungranted'
<1> USE DEF Over, Waking
<1>1. TypeOK /\ \A l : Turn(l) => woken' = woken
  BY TurnStep DEF IInv
<1>2. CASE Look(c)
  BY <1>1, <1>2 DEF Look, Runs, Goto, TypeOK
<1>3. CASE Take(c)
  BY <1>1, <1>3 DEF Take, Goto, TypeOK
<1>4. CASE Queue(c)
  BY <1>1, <1>4 DEF Queue, Goto, TypeOK
<1>5. CASE Resume(c)
  BY <1>1, <1>5 DEF Resume, Runs, WakeThen, Goto, Grant, TypeOK
<1>6. ASSUME NEW ends \in BOOLEAN, Attempt(c, ends)
      PROVE  /\ pc[c] = "hold"
             /\ \/ pc'[c] = "wake" /\ goal'[c] = "done"
                \/ pc'[c] = "hold" /\ attempt'[c] = attempt[c] + 1
             /\ woken' = woken
             /\ \A d \in Callers \ {c} : /\ pc'[d] = pc[d] /\ attempt'[d] = attempt[d]
                                       /\ goal'[d] = goal[d] /\ rest'[d] = rest[d]
  BY <1>1, <1>6 DEF Attempt, Runs, WakeThen, Goto, TypeOK
<1>7. CASE CancelWait(c)
  BY <1>1, <1>7 DEF CancelWait, Runs, WakeThen, Goto, Grant, TypeOK
<1>8. CASE CancelCall(c)
  BY <1>1, <1>8 DEF CancelCall, Runs, WakeThen, Goto, TypeOK
<1>9. CASE Loop(c)
  BY <1>1, <1>9 DEF Loop, Goto, TypeOK
<1>10. CASE Wake(c)
  BY <1>1, <1>10 DEF Wake, Examine, Goto, TypeOK
<1>11. CASE Scan(c)
  BY <1>1, <1>11 DEF Scan, Examine, Goto, TypeOK
<1>12. CASE Give(c)
  <2>1. CASE pc[Head(rest[c])] = "wait" /\ Head(rest[c]) \notin woken
    <3>1. PICK to \in {"done", "loop"} : pc' = [pc EXCEPT ![c] = to] /\ (goal[c] = "done" <=> to = "done")
      BY <1>12, <2>1 DEF Give, Goto
    <3>2. Head(rest[c]) \in Callers /\ woken' = woken \union {Head(rest[c])}
      <4>1. rest[c] \in Seq(Callers) /\ rest[c] # <<>>
        BY <1>1, <1>12 DEF Give, IInv, TypeOK, Scans
      <4> QED BY <1>12, <2>1, <4>1 DEF Give, Grant
    <3>3. pc[c] = "give" /\ UNCHANGED <<attempt, goal>>
          /\ \A d \in Callers \ {c} : rest'[d] = rest[d]
      BY <1>1, <1>12 DEF Give, TypeOK
    <3>4. pc'[c] = to /\ pc'[Head(rest[c])] = "wait"
      BY <1>1, <2>1, <3>1, <3>2, <3>3 DEF TypeOK
    <3>5. Head(rest[c]) \in Ungranted \ Ungranted'
      BY <2>1, <3>2, <3>4 DEF Ungranted
    <3>6. \A d \in Callers \ {c} : pc'[d] = pc[d]
      BY <1>1, <3>1 DEF TypeOK
    <3>7. to = "loop" \/ pc'[c] = goal[c]
      BY <3>1, <3>4
    <3> QED BY <3>2, <3>3, <3>4, <3>5, <3>6, <3>7
  <2>2. CASE ~(pc[Head(rest[c])] = "wait" /\ Head(rest[c]) \notin woken)
    BY <1>1, <1>12, <2>2 DEF Give, Goto, TypeOK
  <2> QED BY <2>1, <2>2
<1> QED BY <1>2, <1>3, <1>4, <1>5, <1>6, <1>7, <1>8, <1>9, <1>10, <1>11, <1>12
    DEF Moves, Work

(* Nobody falls back among the calls without a slot.                       *)
LEMMA GrantedForGood ==
  ASSUME IInv, NEW c \in Callers, Moves(c)
  PROVE  Ungranted' \subseteq Ungranted
<1>1. \A d \in Callers \ {c} : pc'[d] = pc[d] /\ (d \in woken => d \in woken')
  BY WhereTo
<1>2. c \in Ungranted' => c \in Ungranted
  <2>1. \/ pc[c] \in {"idle", "take", "queue"}
        \/ pc'[c] \in {"loop", "wake", "scan", "give", "hold", "broken", "done", "cancelled"}
    BY WhereTo DEF Waking, IInv, TypeOK
  <2> QED BY <2>1 DEF Ungranted
<1> QED BY <1>1, <1>2 DEF Ungranted

LEMMA MoveCounts ==
  ASSUME IInv, Counted', NEW c \in Callers, Moves(c)
  PROVE  Closer(c)
<1> USE DEF Waking
<1>1. /\ Retries \in Nat /\ attempt[c] \in Nat
      /\ (pc[c] = "hold" \/ (pc[c] \in Waking /\ goal[c] = "hold") => attempt[c] < Retries)
      /\ goal[c] \in {"hold", "done", "cancelled"}
  BY LimitAssumption DEF IInv, TypeOK, Budget
<1>2. attempt'[c] \in Nat
  BY Inductive DEF IInv, TypeOK, Next, Moves
<1>3. CASE pc[c] = "hold"
  <2>1. \/ pc'[c] = "wake" /\ goal'[c] = "done"
        \/ pc'[c] = "hold" /\ attempt'[c] = attempt[c] + 1
    BY <1>3, WhereTo
  <2>2. Stage(c)' < Stage(c)
    BY <1>1, <1>2, <1>3, <2>1 DEF Stage
  <2> QED BY <2>2 DEF Closer
<1>4. CASE pc[c] \in {"idle", "take", "queue", "wait"}
  <2>1. \/ pc[c] = "idle" /\ pc'[c] \in {"take", "queue"}
        \/ pc[c] \in {"take", "queue"} /\ pc'[c] \in {"hold", "wait", "failed"}
        \/ pc[c] = "wait" /\ pc'[c] = "loop"
    BY <1>4, WhereTo
  <2>2. Stage(c)' < Stage(c)
    BY <1>1, <1>2, <2>1 DEF Stage
  <2> QED BY <2>2 DEF Closer
<1>5. CASE pc[c] \in Waking
  <2>1. attempt' = attempt /\ goal' = goal
    BY <1>5, WhereTo
  <2>2. CASE pc'[c] = goal[c] \/ pc'[c] = "broken"
    <3>1. Stage(c)' < Stage(c)
      BY <1>1, <1>5, <2>1, <2>2 DEF Stage
    <3> QED BY <3>1 DEF Closer
  <2>3. CASE pc'[c] \in Waking
    <3>1. Stage(c)' = Stage(c)
      BY <1>5, <2>1, <2>3 DEF Stage
    <3>2. CASE pc[c] = "loop" /\ pc'[c] = "wake"
      BY <3>1, <3>2 DEF Closer, Phase
    <3>3. CASE pc[c] = "wake" /\ pc'[c] \in {"scan", "give"}
      BY <3>1, <3>3 DEF Closer, Phase
    <3>4. CASE pc[c] = "scan" /\ pc'[c] = "give"
      BY <3>1, <3>4 DEF Closer, Phase
    <3>5. CASE pc[c] = "scan" /\ pc'[c] = "scan" /\ rest'[c] = Tail(rest[c])
      <4>1. rest[c] \in Seq(Callers) /\ rest[c] # <<>>
        BY <3>5 DEF IInv, TypeOK, Scans
      <4>2. Len(rest'[c]) < Len(rest[c]) /\ Len(rest'[c]) = Len(rest[c]) - 1
        BY <3>5, <4>1
      <4> QED BY <3>1, <3>5, <4>2 DEF Closer, Phase
    <3>6. CASE Head(rest[c]) \in Ungranted \ Ungranted'
      <4>1. Ungranted' \subseteq Ungranted /\ Ungranted' # Ungranted
        BY <3>6, GrantedForGood
      <4>2. IsFiniteSet(Ungranted)
        <5>1. Ungranted \subseteq Callers
          BY DEF Ungranted
        <5> QED BY <5>1, FS_Subset, CallerAssumption
      <4>3. Cardinality(Ungranted') < Cardinality(Ungranted)
        <5>1. IsFiniteSet(Ungranted')
          BY <4>1, <4>2, FS_Subset
        <5>2. /\ Cardinality(Ungranted') \in Nat /\ Cardinality(Ungranted) \in Nat
              /\ Cardinality(Ungranted') <= Cardinality(Ungranted)
              /\ Cardinality(Ungranted') # Cardinality(Ungranted)
          BY <4>1, <4>2, <5>1, FS_Subset, FS_CardinalityType
        <5> QED BY <5>2
      <4> QED BY <3>1, <4>3 DEF Closer
    <3> QED BY <1>1, <1>5, <2>3, <3>2, <3>3, <3>4, <3>5, <3>6, WhereTo
  <2> QED BY <1>5, <2>2, <2>3, WhereTo
<1> QED BY <1>3, <1>4, <1>5, WhereTo

(* Every call of a worker only goes forward, on any number of loops: no    *)
(* wake-up, cancellation or tick of another sends it back to the queue or  *)
(* gives it more to do, and each of its own steps uses up one of finitely  *)
(* many, the rounds it spends waking others included.                      *)
THEOREM EveryCallCounts ==
  Spec => []Counted /\ [][\A c \in Callers : Forward(c)]_vars
<1>1. ASSUME IInv, Counted', [Next]_vars
      PROVE  \A c \in Callers : Forward(c)
  <2> SUFFICES ASSUME NEW c \in Callers  PROVE Forward(c)
    OBVIOUS
  <2>1. Stage(c) \in Nat /\ Stage(c)' \in Nat
    BY <1>1, CountType DEF Counted
  <2>2. Ungranted' \subseteq Ungranted
    <3>1. CASE \E d \in Callers : Moves(d)
      BY <1>1, <3>1, GrantedForGood
    <3>2. CASE Tick \/ Finished \/ UNCHANGED vars
      <4>1. woken' = woken /\ pc' = pc
        BY <1>1, <3>2, TurnStep DEF IInv, Tick, Finished, vars
      <4> QED BY <4>1 DEF Ungranted
    <3> QED BY <1>1, <3>1, <3>2 DEF Next, Moves
  <2>3. CASE Moves(c)
    <3>1. Closer(c)
      BY <1>1, <2>3, MoveCounts
    <3> QED BY <2>1, <2>2, <2>3, <3>1 DEF Forward, Closer
  <2>4. CASE ~Moves(c)
    <3>1. pc'[c] = pc[c] /\ attempt'[c] = attempt[c] /\ goal'[c] = goal[c] /\ rest'[c] = rest[c]
      <4>1. CASE \E d \in Callers : Moves(d)
        BY <1>1, <2>4, <4>1, WhereTo
      <4>2. CASE Tick \/ Finished \/ UNCHANGED vars
        BY <4>2 DEF Tick, Finished, vars
      <4> QED BY <1>1, <4>1, <4>2 DEF Next, Moves
    <3>2. Stage(c)' = Stage(c)
      BY <3>1 DEF Stage
    <3>3. Phase(c)' = Phase(c) /\ Len(rest[c])' = Len(rest[c])
      BY <3>1 DEF Phase
    <3> QED BY <2>1, <2>2, <2>4, <3>2, <3>3 DEF Forward
  <2> QED BY <2>3, <2>4
<1>2. IInv /\ Counted' /\ [Next]_vars => [\A c \in Callers : Forward(c)]_vars
  BY <1>1
<1> QED BY <1>2, CountType, Always, PTL DEF Spec
=============================================================================

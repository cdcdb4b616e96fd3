------------------------ MODULE ConductorExecProofs ------------------------
(***************************************************************************)
(* Proofs about the Conductor DAG executor, for every pool, every plan and *)
(* every setting of its knobs: its types, the agreement of the candidate   *)
(* board with the nodes' results, the truth of the done event, that no     *)
(* reset ever throws a result away, and that no score is lowered twice.    *)
(***************************************************************************)
EXTENDS ConductorExec, FiniteSetTheorems, WellFoundedInduction, TLAPS

(* The stages in which worker calls are out.                               *)
Waiting == {"fan_out", "reassign_out", "criteria_out", "replan_out"}

(* A result and a board entry carry the id of the worker they came from, a *)
(* node with a result carries no error, and the recovery pass moves        *)
(* the assignment along with the selection.                                *)
Owned ==
  /\ \A n \in Nodes : result[n] # NoAnswer =>
       /\ result[n].by = selected[n]
       /\ n \notin error
       /\ result[n].via = "recovery" => pc \in Recovering /\ worker[n] = selected[n]
  /\ \A c \in CandIds : answers[c] # NoAnswer => answers[c].by = c[1]

(* Nodes whose layer has not been scored yet hold nothing.                 *)
Fresh ==
  \A n \in Nodes :
    \/ pc = "guard"
    \/ pc \notin Recovering \union {"gather"} /\ plan.rank[n] > layer
    \/ pc \in {"layer", "fan_out"} /\ plan.rank[n] = layer
    => result[n] = NoAnswer

(* What the calls in flight are about, stage by stage.                     *)
CallsFit ==
  /\ pc \notin Waiting => calls = {}
  /\ \A c \in calls : c[1] \in Layer
  /\ pc \in {"reassign_out", "replan_out"} =>
       \A c \in calls : result[c[1]] = NoAnswer
  /\ pc = "reassign_out" => \A c \in calls : c[2] = worker[c[1]]
  /\ pc = "criteria_out" =>
       \A c \in calls : c[2] = selected[c[1]] /\ result[c[1]] # NoAnswer

(* What the fields of the done event say before it is sent.                *)
HonestSoFar ==
  /\ pc \notin Recovering => ~final.degraded
  /\ pc \in {"recover", "synth", "verify"} =>
       ~final.degraded /\ \E n \in Nodes : Produced(n)
  /\ pc \in {"synth", "verify"} =>
       (final.partial <=> \E n \in Nodes : ~Produced(n))

(* Before the recovery pass the board and the results agree exactly.       *)
BoardAgrees ==
  /\ \A n \in Nodes : result[n] # NoAnswer => answers[<<selected[n], n>>] = result[n]
  /\ \A c \in CandIds : answers[c] # NoAnswer => result[c[2]] = answers[c]

IInv == /\ TypeOK /\ Owned /\ Fresh /\ CallsFit
        /\ ResultOnBoard /\ NoStrayAnswer /\ HonestSoFar /\ HonestDone

-----------------------------------------------------------------------------
(* Types *)

LEMMA NoAnswerFact == NoAnswer \notin Answers /\ NoAnswer.by = NoWorker
  BY PoolAssumption DEF NoAnswer, Answers

LEMMA PendingType ==
  Pending \in [kind : Kinds, ans : MaybeAnswer, degraded : BOOLEAN, partial : BOOLEAN]
  BY DEF Pending, Kinds, MaybeAnswer

(* Settle keeps the nodes' fields typed when every winner is a worker.     *)
LEMMA SettleType ==
  ASSUME TypeOK, NEW N \in SUBSET Nodes, NEW F \in SUBSET Nodes,
         NEW win, NEW via \in Stages, \A n \in N : win[n] \in Workers,
         Settle(N, win, via, F)
  PROVE  /\ result' \in [Nodes -> MaybeAnswer]
         /\ error' \subseteq Nodes
         /\ selected' \in [Nodes -> MaybeWorker]
         /\ worker' \in [Nodes -> MaybeWorker]
<1>1. \A n \in N : [by |-> win[n], via |-> via] \in MaybeAnswer
  BY DEF MaybeAnswer, Answers
<1>2. NoAnswer \in MaybeAnswer
  BY DEF MaybeAnswer
<1>3. NoWorker \in MaybeWorker /\ Workers \subseteq MaybeWorker
  BY DEF MaybeWorker
<1>4. result' \in [Nodes -> MaybeAnswer]
  BY <1>1, <1>2 DEF Settle, TypeOK
<1>5. error' \subseteq Nodes
  BY DEF Settle, TypeOK
<1>6. selected' \in [Nodes -> MaybeWorker] /\ worker' \in [Nodes -> MaybeWorker]
  BY <1>3 DEF Settle, TypeOK
<1>. QED  BY <1>4, <1>5, <1>6

LEMMA PublishType ==
  ASSUME TypeOK, NEW N, NEW win, NEW via \in Stages, Publish(N, win, via)
  PROVE  answers' \in [CandIds -> MaybeAnswer]
<1>1. \A c \in CandIds : [by |-> c[1], via |-> via] \in MaybeAnswer
  BY DEF CandIds, MaybeAnswer, Answers
<1>. QED  BY <1>1 DEF Publish, TypeOK

LEMMA EnterType ==
  ASSUME TypeOK, NEW N, NEW win, NEW val, NEW F \in SUBSET Nodes, Enter(N, win, val, F),
         \A n \in F : win[n] \in Workers,
         \A c \in CandIds : c[2] \in N /\ c[1] = win[c[2]] =>
                              val[c[2]] \in Nat \union {Unscored}
  PROVE  score' \in [CandIds -> Nat \union {Unscored}] /\ lowered' \subseteq CandIds
<1>1. score' \in [CandIds -> Nat \union {Unscored}]
  BY DEF Enter, TypeOK
<1>2. \A n \in F : <<win[n], n>> \in CandIds
  BY DEF CandIds
<1>3. lowered \subseteq CandIds
  BY DEF TypeOK
<1>. QED  BY <1>1, <1>2, <1>3 DEF Enter

(* The fields of the done event keep their types.                          *)
LEMMA NotePartialType ==
  ASSUME TypeOK, NEW F, NotePartial(F)
  PROVE  /\ final' \in [kind : Kinds, ans : MaybeAnswer, degraded : BOOLEAN, partial : BOOLEAN]
         /\ final'.degraded = final.degraded
<1>. DEFINE flag == final.partial \/ F # {}
<1>1. final' = [final EXCEPT !.partial = flag] /\ flag \in BOOLEAN
  BY DEF NotePartial, TypeOK
<1>2. final \in [kind : Kinds, ans : MaybeAnswer, degraded : BOOLEAN, partial : BOOLEAN]
  BY DEF TypeOK
<1>. HIDE DEF flag
<1>. QED  BY <1>1, <1>2

LEMMA SampleType ==
  ASSUME NEW c \in Nodes \X Workers, NEW via \in Stages, NEW sc \in [replied -> Scores]
  PROVE  SampleOf(c, via, sc) \in Samples
<1>1. c[2] \in Workers
  OBVIOUS
<1>2. (IF c \in replied THEN sc[c] ELSE 0) \in Nat
  BY ScoreAssumption
<1>3. (c \in replied) \in BOOLEAN
  OBVIOUS
<1>. QED  BY <1>1, <1>2, <1>3, Zenon DEF SampleOf, Samples

LEMMA ScoreAndPickType ==
  ASSUME TypeOK, NEW N \in SUBSET Nodes, NEW via \in Stages, ScoreAndPick(N, via)
  PROVE  /\ result' \in [Nodes -> MaybeAnswer]
         /\ error' \subseteq Nodes
         /\ selected' \in [Nodes -> MaybeWorker]
         /\ worker' \in [Nodes -> MaybeWorker]
         /\ answers' \in [CandIds -> MaybeAnswer]
         /\ score' \in [CandIds -> Nat \union {Unscored}] /\ lowered' \subseteq CandIds
         /\ samples' \in [Nodes -> SUBSET Samples]
         /\ final' \in [kind : Kinds, ans : MaybeAnswer, degraded : BOOLEAN, partial : BOOLEAN]
<1>1. PICK sc \in [replied -> Scores], win \in [N -> MaybeWorker] :
        LET W == {n \in N : win[n] # NoWorker}
        IN /\ \A n \in N : win[n] \in Winners(n, sc)
           /\ Settle(W, win, via, N \ W)
           /\ Publish(W, win, via)
           /\ Enter(W, win, [n \in W |-> sc[<<n, win[n]>>]], {})
           /\ NotePartial(N \ W)
           /\ samples' = [n \in Nodes |->
                            IF n \in N
                            THEN {SampleOf(c, via, sc) : c \in {d \in calls : d[1] = n}}
                            ELSE samples[n]]
  BY DEF ScoreAndPick
<1>. DEFINE W == {n \in N : win[n] # NoWorker}
<1>2. \A n \in W : win[n] \in Workers /\ <<n, win[n]>> \in replied
  BY <1>1 DEF Winners
<1>3. \A n \in W : sc[<<n, win[n]>>] \in Nat
  BY <1>2, ScoreAssumption
<1>4. samples' \in [Nodes -> SUBSET Samples]
  BY <1>1, SampleType DEF TypeOK
<1>5. score' \in [CandIds -> Nat \union {Unscored}] /\ lowered' \subseteq CandIds
  <2>. DEFINE val == [n \in W |-> sc[<<n, win[n]>>]]
  <2>1. \A n \in W : val[n] \in Nat \union {Unscored}
    BY <1>3
  <2>2. Enter(W, win, val, {})
    BY <1>1
  <2>. HIDE DEF val, W
  <2>. QED  BY <2>1, <2>2, EnterType
<1>6. answers' \in [CandIds -> MaybeAnswer]
  BY <1>1, PublishType
<1>7. final' \in [kind : Kinds, ans : MaybeAnswer, degraded : BOOLEAN, partial : BOOLEAN]
  BY <1>1, NotePartialType
<1>. QED  BY <1>1, <1>2, <1>4, <1>5, <1>6, <1>7, SettleType

LEMMA GuardedPlanType ==
  ASSUME NEW p \in PlanType
  PROVE  GuardedPlan(p) \in PlanType
<1>1. p.depth + 1 \in Nat
  BY DEF PlanType
<1>2. [n \in Nodes |-> IF p.rank[n] = 0 THEN p.depth + 1 ELSE p.rank[n]] \in [Nodes -> Nat]
  BY <1>1 DEF PlanType
<1>. QED  BY <1>1, <1>2 DEF GuardedPlan, PlanType

LEMMA InitType == Init => TypeOK
<1>. SUFFICES ASSUME Init PROVE TypeOK
  OBVIOUS
<1>1. plan \in PlanType
  BY PlanAssumption DEF Init
<1>2. assigned \in [Nodes -> SUBSET MaybeWorker] /\ worker \in [Nodes -> MaybeWorker]
  BY <1>1 DEF Init, PlanType
<1>3. final \in [kind : Kinds, ans : MaybeAnswer, degraded : BOOLEAN, partial : BOOLEAN]
  BY PendingType DEF Init
<1>4. NoAnswer \in MaybeAnswer /\ NoWorker \in MaybeWorker
  BY DEF MaybeAnswer, MaybeWorker
<1>. QED  BY <1>1, <1>2, <1>3, <1>4 DEF Init, TypeOK, PCs

LEMMA TypeStep == IInv /\ [Next]_vars => TypeOK'
<1>. SUFFICES ASSUME IInv, [Next]_vars PROVE TypeOK'
  OBVIOUS
<1>. USE DEF control, nodes, board, fanout, recovery, PCs
<1>0. TypeOK
  BY DEF IInv
<1>1. CASE Guard
  BY <1>0, <1>1, GuardedPlanType DEF Guard, TypeOK
<1>2. CASE BeginLayer
  <2>1. Workers \subseteq MaybeWorker
    BY DEF MaybeWorker
  <2>2. PICK fallback \in [Layer -> Workers], lead \in [Layer -> Workers] :
          /\ assigned' = [n \in Nodes |-> IF n \in Layer THEN Resolve(assigned[n], fallback[n])
                                          ELSE assigned[n]]
          /\ worker' = [n \in Nodes |-> IF n \in Layer THEN lead[n] ELSE worker[n]]
    BY <1>2 DEF BeginLayer
  <2>3. assigned' \in [Nodes -> SUBSET MaybeWorker]
    BY <1>0, <2>1, <2>2 DEF Resolve, TypeOK
  <2>4. worker' \in [Nodes -> MaybeWorker]
    BY <1>0, <2>1, <2>2 DEF TypeOK
  <2>5. calls' \subseteq Nodes \X Workers /\ out' = calls' /\ replied' = {}
    BY <1>2 DEF BeginLayer, FanOut, CallsOf, Layer
  <2>. QED  BY <1>0, <1>2, <2>3, <2>4, <2>5 DEF BeginLayer, TypeOK
<1>3. CASE \E c \in out, ok \in BOOLEAN : Reply(c, ok)
  BY <1>0, <1>3 DEF Reply, TypeOK
<1>4. CASE ScoreLayer
  <2>1. Layer \in SUBSET Nodes /\ "layer" \in Stages
    BY DEF Layer, Stages
  <2>2. ScoreAndPick(Layer, "layer")
    BY <1>4 DEF ScoreLayer
  <2>3. TypeOK
    BY <1>0
  <2>4. /\ result' \in [Nodes -> MaybeAnswer]
        /\ error' \subseteq Nodes
        /\ selected' \in [Nodes -> MaybeWorker]
        /\ worker' \in [Nodes -> MaybeWorker]
        /\ answers' \in [CandIds -> MaybeAnswer]
        /\ score' \in [CandIds -> Nat \union {Unscored}] /\ lowered' \subseteq CandIds
        /\ samples' \in [Nodes -> SUBSET Samples]
        /\ final' \in [kind : Kinds, ans : MaybeAnswer, degraded : BOOLEAN, partial : BOOLEAN]
    BY <2>1, <2>2, <2>3, ScoreAndPickType
  <2>. QED  BY <1>4, <2>3, <2>4 DEF ScoreLayer, FanOut, TypeOK
<1>5. CASE Reassign
  <2>. DEFINE need == {n \in Layer : n \in plan.critical /\ result[n] = NoAnswer}
  <2>1. need \subseteq Nodes
    BY DEF Layer
  <2>2. PICK pick \in [need -> Workers] :
          /\ assigned' = [n \in Nodes |-> IF n \in need THEN {pick[n]} ELSE assigned[n]]
          /\ worker' = [n \in Nodes |-> IF n \in need THEN pick[n] ELSE worker[n]]
          /\ samples' = [n \in Nodes |-> IF n \in need THEN {} ELSE samples[n]]
          /\ error' = error \ need
          /\ FanOut({<<n, pick[n]>> : n \in {m \in need : pick[m] \notin FailedOn(m)}})
    BY <1>5 DEF Reassign
  <2>3. Workers \subseteq MaybeWorker
    BY DEF MaybeWorker
  <2>4. calls' \subseteq Nodes \X Workers /\ out' = calls' /\ replied' = {}
    BY <2>1, <2>2 DEF FanOut
  <2>5. assigned' \in [Nodes -> SUBSET MaybeWorker] /\ worker' \in [Nodes -> MaybeWorker]
    BY <1>0, <2>2, <2>3 DEF TypeOK
  <2>6. samples' \in [Nodes -> SUBSET Samples] /\ error' \subseteq Nodes
    BY <1>0, <2>2 DEF TypeOK
  <2>7. pc' \in PCs
    BY <1>5 DEF Reassign
  <2>. HIDE DEF need
  <2>. QED  BY <1>0, <1>5, <2>4, <2>5, <2>6, <2>7 DEF Reassign, TypeOK
<1>6. CASE ScoreReassign
  <2>. DEFINE N == {c[1] : c \in calls}
              W == {c[1] : c \in replied}
  <2>1. PICK sc \in [replied -> Scores] :
          /\ Settle(W, worker, "reassign", N \ W)
          /\ Publish(W, worker, "reassign")
          /\ Enter(W, worker, [n \in W |-> sc[<<n, worker[n]>>]], {})
          /\ samples' = [n \in Nodes |->
                           IF n \in N THEN {SampleOf(<<n, worker[n]>>, "reassign", sc)}
                           ELSE samples[n]]
    BY <1>6 DEF ScoreReassign
  <2>2. \A c \in calls : c \in Nodes \X Workers /\ c = <<c[1], worker[c[1]]>>
    BY <1>0, <1>6 DEF TypeOK, IInv, CallsFit, ScoreReassign
  <2>3. N \subseteq Nodes /\ W \subseteq N /\ \A n \in N : worker[n] \in Workers
    BY <1>0, <2>2 DEF TypeOK
  <2>4. \A n \in W : <<n, worker[n]>> \in replied
    BY <1>0, <2>2 DEF TypeOK
  <2>5. "reassign" \in Stages
    BY DEF Stages
  <2>6. score' \in [CandIds -> Nat \union {Unscored}] /\ lowered' \subseteq CandIds
    <3>. DEFINE val == [n \in W |-> sc[<<n, worker[n]>>]]
    <3>1. \A n \in W : val[n] \in Nat \union {Unscored}
      BY <2>4, ScoreAssumption
    <3>2. Enter(W, worker, val, {})
      BY <2>1
    <3>. HIDE DEF val, W
    <3>. QED  BY <1>0, <3>1, <3>2, EnterType
  <2>7. samples' \in [Nodes -> SUBSET Samples]
    <3>1. \A n \in N : SampleOf(<<n, worker[n]>>, "reassign", sc) \in Samples
      BY <2>3, <2>5, SampleType
    <3>. HIDE DEF N
    <3>. QED  BY <1>0, <2>1, <3>1 DEF TypeOK
  <2>8. answers' \in [CandIds -> MaybeAnswer]
    BY <1>0, <2>1, <2>5, PublishType
  <2>9. /\ result' \in [Nodes -> MaybeAnswer]
        /\ error' \subseteq Nodes
        /\ selected' \in [Nodes -> MaybeWorker]
        /\ worker' \in [Nodes -> MaybeWorker]
    <3>1. W \in SUBSET Nodes /\ N \ W \in SUBSET Nodes /\ \A n \in W : worker[n] \in Workers
      BY <2>3
    <3>. HIDE DEF N, W
    <3>. QED  BY <1>0, <2>1, <2>5, <3>1, SettleType
  <2>. HIDE DEF N, W
  <2>. QED  BY <1>0, <1>6, <2>6, <2>7, <2>8, <2>9 DEF ScoreReassign, FanOut, TypeOK
<1>7. CASE CheckCriteria
  <2>1. PICK bad \in SUBSET Checked :
          /\ unmet' = unmet \union bad
          /\ FanOut({<<n, selected[n]>> : n \in bad})
    BY <1>7 DEF CheckCriteria
  <2>2. bad \subseteq Nodes /\ \A n \in bad : result[n] # NoAnswer
    BY DEF Checked, Layer
  <2>3. \A n \in bad : selected[n] \in Workers
    BY <1>0, <2>2, NoAnswerFact DEF IInv, Owned, TypeOK, MaybeAnswer, Answers
  <2>4. calls' \subseteq Nodes \X Workers /\ out' = calls' /\ replied' = {}
    BY <2>1, <2>2, <2>3 DEF FanOut
  <2>5. unmet' \subseteq Nodes
    BY <1>0, <2>1, <2>2 DEF TypeOK
  <2>6. pc' \in PCs
    BY <1>7 DEF CheckCriteria
  <2>. QED  BY <1>0, <1>7, <2>4, <2>5, <2>6 DEF CheckCriteria, TypeOK
<1>8. CASE ScoreCriteria
  <2>. DEFINE N == {c[1] : c \in calls}
              W == {c[1] : c \in replied}
  <2>1. PICK sc \in [replied -> Scores], again \in SUBSET W :
          /\ Settle(W, selected, "criteria", {})
          /\ Publish(W, selected, "criteria")
          /\ Enter(N, selected, [n \in N |-> RetryScore(n, sc, again)], Marked(N, W, again))
          /\ unmet' = unmet \ (W \ again)
          /\ samples' = [n \in Nodes |->
                           IF n \in N
                           THEN samples[n] \union
                                  {SampleOf(<<n, selected[n]>>, "criteria", sc)}
                           ELSE samples[n]]
    BY <1>8 DEF ScoreCriteria
  <2>2. \A c \in calls : c \in Nodes \X Workers /\ c = <<c[1], selected[c[1]]>>
    BY <1>0, <1>8 DEF TypeOK, IInv, CallsFit, ScoreCriteria
  <2>3. N \subseteq Nodes /\ W \subseteq N /\ \A n \in N : selected[n] \in Workers
    BY <1>0, <2>2 DEF TypeOK
  <2>4. \A n \in W : <<n, selected[n]>> \in replied
    BY <1>0, <2>2 DEF TypeOK
  <2>5. "criteria" \in Stages
    BY DEF Stages
  <2>6. score' \in [CandIds -> Nat \union {Unscored}] /\ lowered' \subseteq CandIds
    <3>. DEFINE vals == [n \in N |-> RetryScore(n, sc, again)]
    <3>1. \A n \in N : <<n, selected[n]>> \in replied \/ n \in again =>
            sc[<<n, selected[n]>>] \in Nat
      BY <2>4, ScoreAssumption
    <3>2. \A n \in N : score[<<selected[n], n>>] \in Nat \union {Unscored}
      BY <1>0, <2>3 DEF TypeOK, CandIds
    <3>3. \A x \in Nat \union {Unscored} : x \div 2 \in Nat \union {Unscored}
      BY DEF Unscored
    <3>4. \A n \in N : RetryScore(n, sc, again) \in Nat \union {Unscored}
      <4>. HIDE DEF N, W
      <4>. QED  BY <3>1, <3>2, <3>3 DEF RetryScore
    <3>5. Enter(N, selected, vals, Marked(N, W, again))
      BY <2>1
    <3>7. Marked(N, W, again) \in SUBSET Nodes /\ \A n \in Marked(N, W, again) : selected[n] \in Workers
      <4>. HIDE DEF N, W
      <4>. QED  BY <2>1, <2>3 DEF Marked
    <3>6. \A n \in N : vals[n] \in Nat \union {Unscored}
      BY <3>4
    <3>. HIDE DEF vals, N, W
    <3>. QED  BY <1>0, <3>5, <3>6, <3>7, EnterType
  <2>7. samples' \in [Nodes -> SUBSET Samples]
    <3>1. \A n \in N : SampleOf(<<n, selected[n]>>, "criteria", sc) \in Samples
      BY <2>3, <2>5, SampleType
    <3>. HIDE DEF N
    <3>. QED  BY <1>0, <2>1, <3>1 DEF TypeOK
  <2>8. answers' \in [CandIds -> MaybeAnswer]
    BY <1>0, <2>1, <2>5, PublishType
  <2>9. /\ result' \in [Nodes -> MaybeAnswer]
        /\ error' \subseteq Nodes
        /\ selected' \in [Nodes -> MaybeWorker]
        /\ worker' \in [Nodes -> MaybeWorker]
    <3>1. W \in SUBSET Nodes /\ {} \in SUBSET Nodes /\ \A n \in W : selected[n] \in Workers
      BY <2>3
    <3>. HIDE DEF N, W
    <3>. QED  BY <1>0, <2>1, <2>5, <3>1, SettleType
  <2>10. unmet' \subseteq Nodes
    BY <1>0, <2>1 DEF TypeOK
  <2>. HIDE DEF N, W
  <2>. QED  BY <1>0, <1>8, <2>6, <2>7, <2>8, <2>9, <2>10 DEF ScoreCriteria, FanOut, TypeOK
<1>19. CASE Penalise
  <2>1. PICK due \in SUBSET (Checked \intersect unmet) :
          Enter(due, selected, [n \in due |-> score[<<selected[n], n>>] \div 2], due)
    BY <1>19 DEF Penalise
  <2>2. due \in SUBSET Nodes /\ \A n \in due : selected[n] \in Workers
    BY <1>0, NoAnswerFact DEF Checked, Layer, IInv, Owned, TypeOK, MaybeAnswer, Answers
  <2>3. \A n \in due : score[<<selected[n], n>>] \in Nat \union {Unscored}
    BY <1>0, <2>2 DEF TypeOK, CandIds
  <2>. DEFINE vals == [n \in due |-> score[<<selected[n], n>>] \div 2]
  <2>4. \A n \in due : vals[n] \in Nat \union {Unscored}
    <3>1. \A x \in Nat \union {Unscored} : x \div 2 \in Nat \union {Unscored}
      BY DEF Unscored
    <3>. QED  BY <2>3, <3>1
  <2>5. Enter(due, selected, vals, due)
    BY <2>1
  <2>. HIDE DEF vals
  <2>6. score' \in [CandIds -> Nat \union {Unscored}] /\ lowered' \subseteq CandIds
    BY <1>0, <2>2, <2>4, <2>5, EnterType
  <2>. QED  BY <1>0, <1>19, <2>6 DEF Penalise, TypeOK
<1>9. CASE MeanAndReplan
  <2>1. CASE ~ShouldReplan
    BY <1>0, <1>9, <2>1 DEF MeanAndReplan, ReplanRemaining, TypeOK
  <2>2. CASE ShouldReplan
    <3>. DEFINE R == FailedHere \union LaterNodes
                k(n) == IF n \in plan.critical THEN KCritical ELSE 1
    <3>1. R \subseteq Nodes /\ FailedHere \subseteq R
      BY DEF FailedHere, LaterNodes, Layer
    <3>a. PICK new \in [R -> AssignK(KCritical, Workers)], lead \in [R -> Workers] :
            /\ \A n \in R : new[n] \in AssignK(k(n), Workers) /\ lead[n] \in new[n]
            /\ ReplanRemaining(R, new, lead)
            /\ FanOut(CallsOf(FailedHere, new))
      BY <1>9, <2>2, Zenon DEF MeanAndReplan
    <3>2. /\ \A n \in R : new[n] \in AssignK(k(n), Workers) /\ lead[n] \in new[n]
          /\ assigned' = [n \in Nodes |-> IF n \in R THEN new[n] ELSE assigned[n]]
          /\ worker' = [n \in Nodes |-> IF n \in R THEN lead[n] ELSE worker[n]]
          /\ FanOut(CallsOf(FailedHere, new))
      BY <3>a, Zenon DEF ReplanRemaining
    <3>3. \A n \in R : new[n] \subseteq Workers
      BY <3>2 DEF AssignK
    <3>4. Workers \subseteq MaybeWorker /\ NoWorker \in MaybeWorker /\ NoAnswer \in MaybeAnswer
      BY DEF MaybeWorker, MaybeAnswer
    <3>5. /\ selected' = [n \in Nodes |-> IF n \in R THEN NoWorker ELSE selected[n]]
          /\ result' = [n \in Nodes |-> IF n \in R THEN NoAnswer ELSE result[n]]
          /\ error' = error \ R
          /\ samples' = [n \in Nodes |-> IF n \in R THEN {} ELSE samples[n]]
          /\ answers' = [c \in CandIds |-> IF c[2] \in R THEN NoAnswer ELSE answers[c]]
          /\ pc' \in PCs
          /\ replans' = 1
          /\ UNCHANGED <<unmet, score, lowered, plan, layer, recovery, top, final>>
      BY <1>9, <2>2 DEF MeanAndReplan, ReplanRemaining
    <3>6. calls' \subseteq Nodes \X Workers /\ out' = calls' /\ replied' = {}
      BY <3>1, <3>2 DEF FanOut, CallsOf
    <3>. HIDE DEF R, k
    <3>7. assigned' \in [Nodes -> SUBSET MaybeWorker] /\ worker' \in [Nodes -> MaybeWorker]
      BY <1>0, <3>2, <3>3, <3>4 DEF TypeOK
    <3>8. /\ result' \in [Nodes -> MaybeAnswer]
          /\ selected' \in [Nodes -> MaybeWorker]
          /\ answers' \in [CandIds -> MaybeAnswer]
          /\ samples' \in [Nodes -> SUBSET Samples]
          /\ error' \subseteq Nodes
      BY <1>0, <3>4, <3>5 DEF TypeOK
    <3>. QED  BY <1>0, <3>5, <3>6, <3>7, <3>8 DEF TypeOK
  <2>. QED  BY <2>1, <2>2
<1>10. CASE ScoreReplan
  <2>. DEFINE N == {c[1] : c \in calls}
  <2>1. N \in SUBSET Nodes /\ "replan" \in Stages
    BY <1>0 DEF Stages, TypeOK
  <2>2. ScoreAndPick(N, "replan")
    BY <1>10 DEF ScoreReplan
  <2>. HIDE DEF N
  <2>3. /\ result' \in [Nodes -> MaybeAnswer]
        /\ error' \subseteq Nodes
        /\ selected' \in [Nodes -> MaybeWorker]
        /\ worker' \in [Nodes -> MaybeWorker]
        /\ answers' \in [CandIds -> MaybeAnswer]
        /\ score' \in [CandIds -> Nat \union {Unscored}] /\ lowered' \subseteq CandIds
        /\ samples' \in [Nodes -> SUBSET Samples]
        /\ final' \in [kind : Kinds, ans : MaybeAnswer, degraded : BOOLEAN, partial : BOOLEAN]
    BY <1>0, <2>1, <2>2, ScoreAndPickType
  <2>. QED  BY <1>0, <1>10, <2>3 DEF ScoreReplan, FanOut, TypeOK
<1>11. CASE CompleteLayer
  BY <1>0, <1>11 DEF CompleteLayer, TypeOK
<1>12. CASE Gather
  <2>1. final' \in [kind : Kinds, ans : MaybeAnswer, degraded : BOOLEAN, partial : BOOLEAN]
    <3>1. \/ NotePartial({n \in Nodes : result[n] = NoAnswer})
          \/ final' = [kind |-> "no_outputs", ans |-> NoAnswer, degraded |-> TRUE, partial |-> TRUE]
      BY <1>12 DEF Gather
    <3>2. [kind |-> "no_outputs", ans |-> NoAnswer, degraded |-> TRUE, partial |-> TRUE]
            \in [kind : Kinds, ans : MaybeAnswer, degraded : BOOLEAN, partial : BOOLEAN]
      BY DEF Kinds, MaybeAnswer
    <3>. QED  BY <1>0, <3>1, <3>2, NotePartialType
  <2>2. todo' \subseteq Nodes
    BY <1>0, <1>12 DEF Gather, TypeOK
  <2>3. pc' \in PCs
    BY <1>12 DEF Gather
  <2>. QED  BY <1>0, <1>12, <2>1, <2>2, <2>3 DEF Gather, TypeOK
<1>13. CASE \E n \in todo : BeginRecovery(n)
  BY <1>0, <1>13 DEF BeginRecovery, TypeOK
<1>14. CASE \E w \in Workers, good \in BOOLEAN : RecoveryCall(w, good)
  <2>1. PICK w \in Workers, good \in BOOLEAN : RecoveryCall(w, good)
    BY <1>14
  <2>2. healing \in Nodes
    BY <1>0, <2>1 DEF RecoveryCall, TypeOK
  <2>3. CASE good
    <3>1. Settle({healing}, [n \in {healing} |-> w], "recovery", {})
      BY <2>1, <2>3 DEF RecoveryCall
    <3>2. /\ {healing} \in SUBSET Nodes /\ {} \in SUBSET Nodes /\ "recovery" \in Stages
          /\ \A n \in {healing} : [m \in {healing} |-> w][n] \in Workers
      BY <2>2 DEF Stages
    <3>3. /\ result' \in [Nodes -> MaybeAnswer]
          /\ error' \subseteq Nodes
          /\ selected' \in [Nodes -> MaybeWorker]
          /\ worker' \in [Nodes -> MaybeWorker]
      BY <1>0, <3>1, <3>2, SettleType
    <3>. QED  BY <1>0, <2>1, <2>3, <3>3 DEF RecoveryCall, TypeOK
  <2>4. CASE ~good
    BY <1>0, <2>1, <2>4 DEF RecoveryCall, TypeOK
  <2>. QED  BY <2>3, <2>4
<1>15. CASE FinishRecovery
  <2>1. answers' \in [CandIds -> MaybeAnswer]
    BY <1>0, <1>15, PublishType DEF FinishRecovery, PublishRecovered, Stages
  <2>2. final' = [final EXCEPT !.partial = \E n \in Nodes : ~Produced(n)]
    BY <1>15 DEF FinishRecovery
  <2>3. (\E n \in Nodes : ~Produced(n)) \in BOOLEAN
    OBVIOUS
  <2>4. final' \in [kind : Kinds, ans : MaybeAnswer, degraded : BOOLEAN, partial : BOOLEAN]
    <3>. DEFINE some == \E n \in Nodes : ~Produced(n)
    <3>1. final' = [final EXCEPT !.partial = some] /\ some \in BOOLEAN
      BY <2>2
    <3>. HIDE DEF some
    <3>. QED  BY <1>0, <3>1 DEF TypeOK
  <2>5. score' \in [CandIds -> Nat \union {Unscored}]
    <3>1. RecoveryScore \in Nat
      BY DEF RecoveryScore
    <3>. QED  BY <1>0, <1>15, <3>1 DEF FinishRecovery, PublishRecovered, TypeOK
  <2>. QED  BY <1>0, <1>15, <2>1, <2>4, <2>5 DEF FinishRecovery, TypeOK
<1>16. CASE Synthesize
  <2>1. \A c \in BestSamples : answers[c] \in MaybeAnswer
    BY <1>0 DEF BestSamples, TypeOK
  <2>2. final' \in [kind : Kinds, ans : MaybeAnswer, degraded : BOOLEAN, partial : BOOLEAN]
    BY <1>0, <1>16, <2>1 DEF Synthesize, TypeOK, Kinds
  <2>. QED  BY <1>0, <1>16, <2>2 DEF Synthesize, TypeOK
<1>17. CASE Verify
  <2>1. \A c \in BestSamples : answers[c] \in MaybeAnswer
    BY <1>0 DEF BestSamples, TypeOK
  <2>2. final' \in [kind : Kinds, ans : MaybeAnswer, degraded : BOOLEAN, partial : BOOLEAN]
    BY <1>0, <1>17, <2>1 DEF Verify, TypeOK, Kinds, MaybeAnswer
  <2>. QED  BY <1>0, <1>17, <2>2 DEF Verify, TypeOK
<1>18. CASE Finished \/ UNCHANGED vars
  BY <1>0, <1>18 DEF Finished, vars, TypeOK
<1>. QED  BY <1>1, <1>2, <1>3, <1>4, <1>5, <1>6, <1>7, <1>8, <1>9, <1>10, <1>11,
             <1>12, <1>13, <1>14, <1>15, <1>16, <1>17, <1>18, <1>19 DEF Next

-----------------------------------------------------------------------------
(* The board and the results *)

(* A result stands for a worker of the pool.                               *)
LEMMA OwnerFact ==
  ASSUME TypeOK, Owned, NEW n \in Nodes, result[n] # NoAnswer
  PROVE  selected[n] \in Workers /\ <<selected[n], n>> \in CandIds
<1>1. result[n] \in Answers
  BY DEF TypeOK, MaybeAnswer
<1>2. selected[n] \in Workers
  BY <1>1 DEF Owned, Answers
<1>. QED  BY <1>2 DEF CandIds

LEMMA BoardAgreesFact ==
  ASSUME ResultOnBoard, NoStrayAnswer, pc \notin Recovering
  PROVE  BoardAgrees
  BY DEF ResultOnBoard, NoStrayAnswer, BoardAgrees, Recovering

LEMMA AgreedBoard == BoardAgrees => ResultOnBoard /\ NoStrayAnswer
  BY DEF ResultOnBoard, NoStrayAnswer, BoardAgrees

(* Settling and publishing together keep them in agreement when a node     *)
(* that changes had no result, or keeps the worker it had.                 *)
LEMMA SettlePublish ==
  ASSUME TypeOK, Owned, BoardAgrees, pc \notin Recovering,
         NEW W \in SUBSET Nodes, NEW F \in SUBSET Nodes, W \intersect F = {},
         NEW win, NEW via \in Stages \ {"recovery"},
         \A n \in W : win[n] \in Workers,
         \A n \in W : result[n] = NoAnswer \/ win[n] = selected[n],
         \A n \in F : result[n] = NoAnswer,
         Settle(W, win, via, F), Publish(W, win, via)
  PROVE  Owned' /\ BoardAgrees'
<1>1. \A n \in W : /\ result'[n] = [by |-> win[n], via |-> via]
                   /\ selected'[n] = win[n]
                   /\ n \notin error'
                   /\ result'[n] # NoAnswer
  BY NoAnswerFact, PoolAssumption DEF Settle, NoAnswer
<1>2. \A n \in F : result'[n] = NoAnswer
  BY DEF Settle
<1>3. \A n \in Nodes \ (W \union F) :
        /\ result'[n] = result[n]
        /\ selected'[n] = selected[n]
        /\ worker'[n] = worker[n]
        /\ n \in error' => n \in error
  BY DEF Settle
<1>4. \A c \in CandIds : answers'[c] = IF c[2] \in W /\ c[1] = win[c[2]]
                                       THEN [by |-> c[1], via |-> via] ELSE answers[c]
  BY DEF Publish
<1>5. \A n \in Nodes : result'[n] # NoAnswer =>
        /\ result'[n].by = selected'[n]
        /\ n \notin error'
        /\ result'[n].via # "recovery"
  <2>. SUFFICES ASSUME NEW n \in Nodes, result'[n] # NoAnswer
                PROVE  /\ result'[n].by = selected'[n]
                       /\ n \notin error'
                       /\ result'[n].via # "recovery"
    OBVIOUS
  <2>1. CASE n \in W
    <3>1. result'[n] = [by |-> win[n], via |-> via] /\ selected'[n] = win[n] /\ n \notin error'
      BY <1>1, <2>1
    <3>2. [by |-> win[n], via |-> via].by = win[n] /\ [by |-> win[n], via |-> via].via = via
      OBVIOUS
    <3>3. via # "recovery"
      OBVIOUS
    <3>. QED  BY <3>1, <3>2, <3>3, Zenon
  <2>2. CASE n \notin W
    <3>1. n \notin F
      BY <1>2
    <3>. QED  BY <1>3, <2>2, <3>1 DEF Owned
  <2>. QED  BY <2>1, <2>2
<1>6. \A c \in CandIds : answers'[c] # NoAnswer => answers'[c].by = c[1]
  <2>. SUFFICES ASSUME NEW c \in CandIds, answers'[c] # NoAnswer
                PROVE  answers'[c].by = c[1]
    OBVIOUS
  <2>1. CASE c[2] \in W /\ c[1] = win[c[2]]
    <3>1. answers'[c] = [by |-> c[1], via |-> via]
      BY <1>4, <2>1
    <3>2. [by |-> c[1], via |-> via].by = c[1]
      OBVIOUS
    <3>. QED  BY <3>1, <3>2, Zenon
  <2>2. CASE ~(c[2] \in W /\ c[1] = win[c[2]])
    BY <1>4, <2>2 DEF Owned
  <2>. QED  BY <2>1, <2>2
<1>7. \A n \in Nodes : result'[n] # NoAnswer => answers'[<<selected'[n], n>>] = result'[n]
  <2>. SUFFICES ASSUME NEW n \in Nodes, result'[n] # NoAnswer
                PROVE  answers'[<<selected'[n], n>>] = result'[n]
    OBVIOUS
  <2>1. CASE n \in W
    <3>1. <<win[n], n>> \in CandIds
      BY <2>1 DEF CandIds
    <3>2. result'[n] = [by |-> win[n], via |-> via] /\ selected'[n] = win[n]
      BY <1>1, <2>1
    <3>3. answers'[<<win[n], n>>] = [by |-> win[n], via |-> via]
      BY <1>4, <2>1, <3>1
    <3>. QED  BY <3>2, <3>3, Zenon
  <2>2. CASE n \notin W
    <3>1. n \notin F /\ result'[n] = result[n] /\ selected'[n] = selected[n]
      BY <1>2, <1>3, <2>2
    <3>2. <<selected[n], n>> \in CandIds
      BY <3>1, OwnerFact
    <3>. QED  BY <1>4, <2>2, <3>1, <3>2 DEF BoardAgrees
  <2>. QED  BY <2>1, <2>2
<1>8. \A c \in CandIds : answers'[c] # NoAnswer => result'[c[2]] = answers'[c]
  <2>. SUFFICES ASSUME NEW w \in Workers, NEW n \in Nodes, answers'[<<w, n>>] # NoAnswer
                PROVE  result'[n] = answers'[<<w, n>>]
    BY DEF CandIds
  <2>1. <<w, n>> \in CandIds
    BY DEF CandIds
  <2>2. CASE n \in W /\ w = win[n]
    BY <1>1, <1>4, <2>1, <2>2
  <2>3. CASE ~(n \in W /\ w = win[n])
    <3>1. answers'[<<w, n>>] = answers[<<w, n>>] /\ result[n] = answers[<<w, n>>]
      BY <1>4, <2>1, <2>3 DEF BoardAgrees
    <3>2. result[n].by = w /\ selected[n] = w
      BY <2>1, <3>1 DEF Owned
    <3>3. n \notin W /\ n \notin F
      BY <2>3, <3>1, <3>2
    <3>. QED  BY <1>3, <3>1, <3>3
  <2>. QED  BY <2>2, <2>3
<1>. QED  BY <1>5, <1>6, <1>7, <1>8 DEF Owned, BoardAgrees

LEMMA PickPublish ==
  ASSUME TypeOK, Owned, BoardAgrees, pc \notin Recovering,
         NEW N \in SUBSET Nodes, \A n \in N : result[n] = NoAnswer,
         NEW via \in Stages \ {"recovery"}, ScoreAndPick(N, via)
  PROVE  Owned' /\ BoardAgrees'
<1>1. PICK sc \in [replied -> Scores], win \in [N -> MaybeWorker] :
        LET W == {n \in N : win[n] # NoWorker}
        IN Settle(W, win, via, N \ W) /\ Publish(W, win, via)
  BY DEF ScoreAndPick
<1>. DEFINE W == {n \in N : win[n] # NoWorker}
            F == N \ W
<1>2. Settle(W, win, via, F) /\ Publish(W, win, via)
  BY <1>1
<1>3. /\ W \in SUBSET Nodes /\ F \in SUBSET Nodes /\ W \intersect F = {}
      /\ \A n \in W : win[n] \in Workers
      /\ \A n \in W : result[n] = NoAnswer \/ win[n] = selected[n]
      /\ \A n \in F : result[n] = NoAnswer
  BY DEF MaybeWorker
<1>. HIDE DEF W, F
<1>. QED  BY <1>2, <1>3, SettlePublish

(* Steps that leave results and board alone.                               *)
LEMMA QuietStep ==
  ASSUME IInv, UNCHANGED <<result, selected, answers>>, error' \subseteq error,
         pc \notin Recovering \/ (UNCHANGED worker /\ pc' \in Recovering)
  PROVE  Owned'
  BY DEF IInv, Owned

LEMMA BoardStep == IInv /\ [Next]_vars => Owned' /\ ResultOnBoard' /\ NoStrayAnswer'
<1>. SUFFICES ASSUME IInv, [Next]_vars PROVE Owned' /\ ResultOnBoard' /\ NoStrayAnswer'
  OBVIOUS
<1>. USE DEF control, nodes, board, fanout, recovery
<1>0. TypeOK /\ Owned /\ ResultOnBoard /\ NoStrayAnswer
  BY DEF IInv
<1>a. pc \notin Recovering => BoardAgrees
  BY <1>0, BoardAgreesFact
<1>b. BoardAgrees' => ResultOnBoard' /\ NoStrayAnswer'
  BY DEF ResultOnBoard, NoStrayAnswer, BoardAgrees
<1>1. CASE \/ Guard \/ BeginLayer \/ Reassign \/ CheckCriteria \/ Penalise \/ CompleteLayer
           \/ Gather
  <2>1. /\ pc \notin Recovering
        /\ UNCHANGED <<result, selected, answers>>
        /\ error' \subseteq error
    BY <1>1 DEF Guard, BeginLayer, Reassign, CheckCriteria, Penalise, CompleteLayer, Gather, Recovering
  <2>2. Owned'
    BY <2>1, QuietStep
  <2>3. BoardAgrees'
    BY <1>a, <2>1 DEF BoardAgrees
  <2>. QED  BY <1>b, <2>2, <2>3
<1>2. CASE \E c \in out, ok \in BOOLEAN : Reply(c, ok)
  <2>1. UNCHANGED <<pc, result, selected, answers, error, worker>>
    BY <1>2 DEF Reply
  <2>2. Owned'
    BY <1>0, <2>1 DEF Owned
  <2>. QED  BY <1>0, <2>1, <2>2 DEF ResultOnBoard, NoStrayAnswer
<1>3. CASE ScoreLayer
  <2>1. pc \notin Recovering /\ ScoreAndPick(Layer, "layer")
    BY <1>3 DEF ScoreLayer, Recovering
  <2>2. Layer \in SUBSET Nodes /\ \A n \in Layer : result[n] = NoAnswer
    BY <1>3 DEF ScoreLayer, IInv, Fresh, Layer
  <2>3. "layer" \in Stages \ {"recovery"}
    BY DEF Stages
  <2>4. Owned' /\ BoardAgrees'
    BY <1>0, <1>a, <2>1, <2>2, <2>3, PickPublish
  <2>. QED  BY <1>b, <2>4
<1>4. CASE ScoreReassign
  <2>. DEFINE N == {c[1] : c \in calls}
              W == {c[1] : c \in replied}
              F == N \ W
  <2>1. pc \notin Recovering /\ Settle(W, worker, "reassign", F) /\ Publish(W, worker, "reassign")
    BY <1>4 DEF ScoreReassign, Recovering
  <2>2. \A c \in calls : /\ c[1] \in Nodes /\ c[2] \in Workers
                         /\ c[2] = worker[c[1]] /\ result[c[1]] = NoAnswer
    BY <1>0, <1>4 DEF TypeOK, IInv, CallsFit, ScoreReassign
  <2>3. /\ W \in SUBSET Nodes /\ F \in SUBSET Nodes /\ W \intersect F = {}
        /\ \A n \in W : worker[n] \in Workers
        /\ \A n \in W : result[n] = NoAnswer \/ worker[n] = selected[n]
        /\ \A n \in F : result[n] = NoAnswer
    BY <1>0, <2>2 DEF TypeOK
  <2>4. "reassign" \in Stages \ {"recovery"}
    BY DEF Stages
  <2>. HIDE DEF N, W, F
  <2>5. Owned' /\ BoardAgrees'
    BY <1>0, <1>a, <2>1, <2>3, <2>4, SettlePublish
  <2>. QED  BY <1>b, <2>5
<1>5. CASE ScoreCriteria
  <2>. DEFINE W == {c[1] : c \in replied}
              F == {}
  <2>1. pc \notin Recovering /\ Settle(W, selected, "criteria", F) /\ Publish(W, selected, "criteria")
    BY <1>5 DEF ScoreCriteria, Recovering
  <2>2. \A c \in calls : c[1] \in Nodes /\ c[2] \in Workers /\ c[2] = selected[c[1]]
    BY <1>0, <1>5 DEF TypeOK, IInv, CallsFit, ScoreCriteria
  <2>3. /\ W \in SUBSET Nodes /\ F \in SUBSET Nodes /\ W \intersect F = {}
        /\ \A n \in W : selected[n] \in Workers
        /\ \A n \in W : result[n] = NoAnswer \/ selected[n] = selected[n]
        /\ \A n \in F : result[n] = NoAnswer
    BY <1>0, <2>2 DEF TypeOK
  <2>4. "criteria" \in Stages \ {"recovery"}
    BY DEF Stages
  <2>. HIDE DEF W, F
  <2>5. Owned' /\ BoardAgrees'
    BY <1>0, <1>a, <2>1, <2>3, <2>4, SettlePublish
  <2>. QED  BY <1>b, <2>5
<1>6. CASE MeanAndReplan
  <2>0. pc \notin Recovering
    BY <1>6 DEF MeanAndReplan, ReplanRemaining, Recovering
  <2>1. CASE ~ShouldReplan
    <3>1. UNCHANGED <<result, selected, answers, error, worker>>
      BY <1>6, <2>1 DEF MeanAndReplan, ReplanRemaining
    <3>. QED  BY <1>a, <1>b, <2>0, <3>1, QuietStep DEF BoardAgrees
  <2>2. CASE ShouldReplan
    <3>. DEFINE R == FailedHere \union LaterNodes
    <3>1. /\ selected' = [n \in Nodes |-> IF n \in R THEN NoWorker ELSE selected[n]]
          /\ result' = [n \in Nodes |-> IF n \in R THEN NoAnswer ELSE result[n]]
          /\ error' = error \ R
          /\ answers' = [c \in CandIds |-> IF c[2] \in R THEN NoAnswer ELSE answers[c]]
      BY <1>6, <2>2 DEF MeanAndReplan, ReplanRemaining
    <3>. HIDE DEF R
    <3>2. Owned'
      BY <1>0, <2>0, <3>1 DEF Owned
    <3>3. BoardAgrees'
      <4>1. \A n \in Nodes : result'[n] # NoAnswer => answers'[<<selected'[n], n>>] = result'[n]
        BY <1>0, <1>a, <2>0, <3>1, OwnerFact DEF BoardAgrees
      <4>2. \A c \in CandIds : answers'[c] # NoAnswer => result'[c[2]] = answers'[c]
        BY <1>a, <2>0, <3>1 DEF BoardAgrees, CandIds
      <4>. QED  BY <4>1, <4>2 DEF BoardAgrees
    <3>. QED  BY <1>b, <3>2, <3>3
  <2>. QED  BY <2>1, <2>2
<1>7. CASE ScoreReplan
  <2>. DEFINE N == {c[1] : c \in calls}
  <2>1. pc \notin Recovering /\ ScoreAndPick(N, "replan")
    BY <1>7 DEF ScoreReplan, Recovering
  <2>2. N \in SUBSET Nodes /\ \A n \in N : result[n] = NoAnswer
    BY <1>0, <1>7 DEF ScoreReplan, IInv, CallsFit, TypeOK
  <2>3. "replan" \in Stages \ {"recovery"}
    BY DEF Stages
  <2>. HIDE DEF N
  <2>4. Owned' /\ BoardAgrees'
    BY <1>0, <1>a, <2>1, <2>2, <2>3, PickPublish
  <2>. QED  BY <1>b, <2>4
<1>8. CASE \E n \in todo : BeginRecovery(n)
  <2>1. UNCHANGED <<pc, result, selected, answers, error, worker>>
    BY <1>8 DEF BeginRecovery
  <2>2. Owned'
    BY <1>0, <2>1 DEF Owned
  <2>. QED  BY <1>0, <2>1, <2>2 DEF ResultOnBoard, NoStrayAnswer
<1>9. CASE \E w \in Workers, good \in BOOLEAN : RecoveryCall(w, good)
  <2>1. PICK w \in Workers, good \in BOOLEAN : RecoveryCall(w, good)
    BY <1>9
  <2>2. pc = "recover" /\ UNCHANGED <<pc, answers>>
    BY <2>1 DEF RecoveryCall
  <2>3. NoStrayAnswer'
    BY <2>2 DEF NoStrayAnswer, Recovering
  <2>4. CASE good
    <3>1. healing \in Nodes
      BY <1>0, <2>1 DEF RecoveryCall, TypeOK
    <3>2. Settle({healing}, [n \in {healing} |-> w], "recovery", {})
      BY <2>1, <2>4 DEF RecoveryCall
    <3>3. /\ result'[healing] = [by |-> w, via |-> "recovery"]
          /\ selected'[healing] = w /\ worker'[healing] = w
          /\ healing \notin error'
      BY <3>1, <3>2 DEF Settle
    <3>4. \A n \in Nodes \ {healing} :
            /\ result'[n] = result[n] /\ selected'[n] = selected[n]
            /\ worker'[n] = worker[n] /\ (n \in error' => n \in error)
      BY <3>2 DEF Settle
    <3>5. [by |-> w, via |-> "recovery"].by = w /\ [by |-> w, via |-> "recovery"].via = "recovery"
      OBVIOUS
    <3>6. \A n \in Nodes : result'[n] # NoAnswer =>
            /\ result'[n].by = selected'[n]
            /\ n \notin error'
            /\ result'[n].via = "recovery" => pc' \in Recovering /\ worker'[n] = selected'[n]
      <4>. SUFFICES ASSUME NEW n \in Nodes, result'[n] # NoAnswer
                    PROVE  /\ result'[n].by = selected'[n]
                           /\ n \notin error'
                           /\ result'[n].via = "recovery" =>
                                pc' \in Recovering /\ worker'[n] = selected'[n]
        OBVIOUS
      <4>1. CASE n = healing
        BY <2>2, <3>3, <3>5, <4>1 DEF Recovering
      <4>2. CASE n # healing
        BY <1>0, <2>2, <3>4, <4>2 DEF Owned, Recovering
      <4>. QED  BY <4>1, <4>2
    <3>7. Owned'
      BY <1>0, <2>2, <3>6 DEF Owned
    <3>8. \A n \in Nodes : result'[n] # NoAnswer =>
            answers'[<<selected'[n], n>>] = result'[n] \/ result'[n].via = "recovery"
      <4>. SUFFICES ASSUME NEW n \in Nodes, result'[n] # NoAnswer
                    PROVE  answers'[<<selected'[n], n>>] = result'[n] \/ result'[n].via = "recovery"
        OBVIOUS
      <4>1. CASE n = healing
        BY <3>3, <3>5, <4>1
      <4>2. CASE n # healing
        BY <1>0, <2>2, <3>4, <4>2 DEF ResultOnBoard
      <4>. QED  BY <4>1, <4>2
    <3>9. ResultOnBoard'
      BY <2>2, <3>8 DEF ResultOnBoard
    <3>. QED  BY <2>3, <3>7, <3>9
  <2>5. CASE ~good
    <3>1. UNCHANGED <<result, selected, error, worker>>
      BY <2>1, <2>5 DEF RecoveryCall
    <3>. QED  BY <1>0, <2>2, <2>3, <3>1 DEF Owned, ResultOnBoard
  <2>. QED  BY <2>4, <2>5
<1>10. CASE FinishRecovery
  <2>. DEFINE N == {n \in Nodes : result[n].via = "recovery"}
  <2>1. /\ Publish(N, worker, "recovery")
        /\ pc = "recover" /\ pc' = "synth"
        /\ UNCHANGED <<result, selected, error, worker>>
    BY <1>10 DEF FinishRecovery, PublishRecovered, Recovered
  <2>2. \A c \in CandIds : answers'[c] = IF c[2] \in N /\ c[1] = worker[c[2]]
                                         THEN [by |-> c[1], via |-> "recovery"] ELSE answers[c]
    BY <2>1 DEF Publish
  <2>3. \A c \in CandIds : answers'[c] # NoAnswer => answers'[c].by = c[1]
    <3>. SUFFICES ASSUME NEW c \in CandIds, answers'[c] # NoAnswer
                  PROVE  answers'[c].by = c[1]
      OBVIOUS
    <3>1. CASE c[2] \in N /\ c[1] = worker[c[2]]
      <4>1. answers'[c] = [by |-> c[1], via |-> "recovery"]
        BY <2>2, <3>1
      <4>2. [by |-> c[1], via |-> "recovery"].by = c[1]
        OBVIOUS
      <4>. QED  BY <4>1, <4>2, Zenon
    <3>2. CASE ~(c[2] \in N /\ c[1] = worker[c[2]])
      BY <1>0, <2>2, <3>2 DEF Owned
    <3>. QED  BY <3>1, <3>2
  <2>4. Owned'
    BY <1>0, <2>1, <2>3 DEF Owned, Recovering
  <2>5. \A n \in Nodes : result[n] # NoAnswer => answers'[<<selected[n], n>>] = result[n]
    <3>. SUFFICES ASSUME NEW n \in Nodes, result[n] # NoAnswer
                  PROVE  answers'[<<selected[n], n>>] = result[n]
      OBVIOUS
    <3>1. <<selected[n], n>> \in CandIds /\ result[n].by = selected[n]
      BY <1>0, OwnerFact DEF Owned
    <3>2. CASE result[n].via = "recovery"
      <4>1. worker[n] = selected[n]
        BY <1>0, <3>2 DEF Owned
      <4>2. answers'[<<selected[n], n>>] = [by |-> selected[n], via |-> "recovery"]
        BY <2>2, <3>1, <3>2, <4>1
      <4>3. result[n] \in Answers
        BY <1>0 DEF TypeOK, MaybeAnswer
      <4>4. result[n] = [by |-> result[n].by, via |-> result[n].via]
        BY <4>3 DEF Answers
      <4>. QED  BY <3>1, <3>2, <4>2, <4>4
    <3>3. CASE result[n].via # "recovery"
      <4>1. answers'[<<selected[n], n>>] = answers[<<selected[n], n>>]
        BY <2>2, <3>1, <3>3
      <4>. QED  BY <1>0, <3>3, <4>1 DEF ResultOnBoard
    <3>. QED  BY <3>2, <3>3
  <2>. QED  BY <2>1, <2>4, <2>5 DEF ResultOnBoard, NoStrayAnswer, Recovering
<1>11. CASE Synthesize \/ Verify
  <2>1. /\ UNCHANGED <<result, selected, answers, error, worker>>
        /\ pc \in {"synth", "verify"} /\ pc' \in {"verify", "done"}
    BY <1>11 DEF Synthesize, Verify
  <2>. QED  BY <1>0, <2>1 DEF Owned, ResultOnBoard, NoStrayAnswer, Recovering
<1>12. CASE Finished \/ UNCHANGED vars
  <2>1. UNCHANGED <<pc, result, selected, answers, error, worker>>
    BY <1>12 DEF Finished, vars
  <2>. QED  BY <1>0, <2>1 DEF Owned, ResultOnBoard, NoStrayAnswer
<1>. QED  BY <1>1, <1>2, <1>3, <1>4, <1>5, <1>6, <1>7, <1>8, <1>9, <1>10, <1>11, <1>12 DEF Next

-----------------------------------------------------------------------------
(* The nodes not run yet, and the calls in flight *)

(* Scoring the nodes N settles no other node.                              *)
LEMMA PickLocal ==
  ASSUME NEW N, NEW via, ScoreAndPick(N, via)
  PROVE  \A n \in Nodes \ N : result'[n] = result[n] /\ selected'[n] = selected[n]
<1>1. PICK sc \in [replied -> Scores], win \in [N -> MaybeWorker] :
        LET W == {n \in N : win[n] # NoWorker} IN Settle(W, win, via, N \ W)
  BY DEF ScoreAndPick
<1>. QED  BY <1>1 DEF Settle

LEMMA FreshStep == IInv /\ [Next]_vars => Fresh'
<1>. SUFFICES ASSUME IInv, [Next]_vars, NEW n \in Nodes,
                     \/ pc' = "guard"
                     \/ pc' \notin Recovering \union {"gather"} /\ plan'.rank[n] > layer'
                     \/ pc' \in {"layer", "fan_out"} /\ plan'.rank[n] = layer'
              PROVE  result'[n] = NoAnswer
  BY DEF Fresh
<1>. USE DEF control, nodes, board, fanout, recovery
<1>0. TypeOK /\ Fresh /\ CallsFit
  BY DEF IInv
<1>1. plan.rank[n] \in Nat /\ layer \in Nat
  BY <1>0 DEF TypeOK, PlanType
<1>2. CASE Guard
  BY <1>0, <1>2 DEF Guard, Fresh
<1>3. CASE \/ BeginLayer \/ Reassign \/ CheckCriteria \/ Penalise
           \/ \E c \in out, ok \in BOOLEAN : Reply(c, ok)
  BY <1>0, <1>3 DEF BeginLayer, Reassign, CheckCriteria, Penalise, Reply, Fresh, Recovering
<1>4. CASE ScoreLayer
  <2>1. n \notin Layer /\ result[n] = NoAnswer
    BY <1>0, <1>1, <1>4 DEF ScoreLayer, Fresh, Layer, Recovering
  <2>2. ScoreAndPick(Layer, "layer")
    BY <1>4 DEF ScoreLayer
  <2>. QED  BY <2>1, <2>2, PickLocal
<1>5. CASE ScoreReplan
  <2>. DEFINE N == {c[1] : c \in calls}
  <2>1. n \notin N /\ result[n] = NoAnswer
    BY <1>0, <1>1, <1>5 DEF ScoreReplan, Fresh, Layer, Recovering, CallsFit
  <2>2. ScoreAndPick(N, "replan")
    BY <1>5 DEF ScoreReplan
  <2>. HIDE DEF N
  <2>. QED  BY <2>1, <2>2, PickLocal
<1>6. CASE ScoreReassign \/ ScoreCriteria
  <2>. DEFINE N == {c[1] : c \in calls}
              W == {c[1] : c \in replied}
  <2>1. n \notin N /\ n \notin W /\ result[n] = NoAnswer
    BY <1>0, <1>1, <1>6 DEF ScoreReassign, ScoreCriteria, Fresh, Layer, Recovering, CallsFit, TypeOK
  <2>2. \/ Settle(W, worker, "reassign", N \ W)
        \/ Settle(W, selected, "criteria", {})
    BY <1>6 DEF ScoreReassign, ScoreCriteria
  <2>. HIDE DEF N, W
  <2>. QED  BY <2>1, <2>2 DEF Settle
<1>7. CASE MeanAndReplan
  <2>1. result[n] = NoAnswer
    BY <1>0, <1>7 DEF MeanAndReplan, ReplanRemaining, Fresh, Recovering
  <2>. QED  BY <1>7, <2>1 DEF MeanAndReplan, ReplanRemaining
<1>8. CASE CompleteLayer
  BY <1>0, <1>1, <1>8 DEF CompleteLayer, Fresh, Recovering
<1>9. CASE \/ Gather \/ \E m \in todo : BeginRecovery(m)
           \/ \E w \in Workers, good \in BOOLEAN : RecoveryCall(w, good)
           \/ FinishRecovery \/ Synthesize \/ Verify
  BY <1>9 DEF Gather, BeginRecovery, RecoveryCall, FinishRecovery, Synthesize, Verify, Recovering
<1>10. CASE Finished \/ UNCHANGED vars
  BY <1>0, <1>10 DEF Finished, vars, Fresh
<1>. QED  BY <1>2, <1>3, <1>4, <1>5, <1>6, <1>7, <1>8, <1>9, <1>10 DEF Next

LEMMA CallsStep == IInv /\ [Next]_vars => CallsFit'
<1>. SUFFICES ASSUME IInv, [Next]_vars PROVE CallsFit'
  OBVIOUS
<1>. USE DEF control, nodes, board, fanout, recovery
<1>0. CallsFit
  BY DEF IInv
<1>1. CASE \/ Guard \/ Penalise \/ CompleteLayer \/ Gather \/ \E m \in todo : BeginRecovery(m)
           \/ \E w \in Workers, good \in BOOLEAN : RecoveryCall(w, good)
           \/ FinishRecovery \/ Synthesize \/ Verify
  BY <1>0, <1>1 DEF Guard, Penalise, CompleteLayer, Gather, BeginRecovery, RecoveryCall,
                    FinishRecovery, Synthesize, Verify, CallsFit, Waiting
<1>2. CASE BeginLayer
  BY <1>2 DEF BeginLayer, FanOut, CallsOf, CallsFit, Layer, Waiting
<1>3. CASE \E c \in out, ok \in BOOLEAN : Reply(c, ok)
  BY <1>0, <1>3 DEF Reply, CallsFit, Layer
<1>4. CASE ScoreLayer \/ ScoreReassign \/ ScoreCriteria \/ ScoreReplan
  BY <1>4 DEF ScoreLayer, ScoreReassign, ScoreCriteria, ScoreReplan, FanOut, CallsFit, Waiting
<1>5. CASE Reassign
  <2>. DEFINE need == {n \in Layer : n \in plan.critical /\ result[n] = NoAnswer}
  <2>1. PICK pick \in [need -> Workers] :
          /\ worker' = [n \in Nodes |-> IF n \in need THEN pick[n] ELSE worker[n]]
          /\ FanOut({<<n, pick[n]>> : n \in {m \in need : pick[m] \notin FailedOn(m)}})
    BY <1>5 DEF Reassign
  <2>2. \A c \in calls' : c[1] \in need /\ c[2] = pick[c[1]]
    BY <2>1 DEF FanOut
  <2>3. \A n \in need : n \in Nodes /\ n \in Layer /\ result[n] = NoAnswer
    BY DEF Layer
  <2>4. UNCHANGED <<result, plan, layer>>
    BY <1>5 DEF Reassign
  <2>5. pc' = IF calls' = {} THEN "criteria" ELSE "reassign_out"
    BY <1>5 DEF Reassign
  <2>. HIDE DEF need
  <2>. QED  BY <2>1, <2>2, <2>3, <2>4, <2>5 DEF CallsFit, Layer, Waiting
<1>6. CASE CheckCriteria
  <2>1. PICK bad \in SUBSET Checked :
          FanOut({<<n, selected[n]>> : n \in bad})
    BY <1>6 DEF CheckCriteria
  <2>2. \A c \in calls' : c[1] \in Layer /\ result[c[1]] # NoAnswer /\ c[2] = selected[c[1]]
    BY <2>1 DEF FanOut, Checked
  <2>3. UNCHANGED <<result, selected, plan, layer>>
    BY <1>6 DEF CheckCriteria
  <2>4. pc' = IF calls' = {} THEN "penalty" ELSE "criteria_out"
    BY <1>6 DEF CheckCriteria
  <2>. QED  BY <2>2, <2>3, <2>4 DEF CallsFit, Layer, Waiting
<1>7. CASE MeanAndReplan
  <2>1. CASE ~ShouldReplan
    BY <1>0, <1>7, <2>1 DEF MeanAndReplan, ReplanRemaining, CallsFit, Waiting
  <2>2. CASE ShouldReplan
    <3>1. PICK new : FanOut(CallsOf(FailedHere, new))
      BY <1>7, <2>2 DEF MeanAndReplan, ReplanRemaining
    <3>2. \A c \in calls' : c[1] \in FailedHere
      BY <3>1 DEF FanOut, CallsOf
    <3>3. \A n \in FailedHere : n \in Layer /\ result'[n] = NoAnswer
      BY <1>7, <2>2 DEF MeanAndReplan, ReplanRemaining, FailedHere, Layer
    <3>4. /\ pc' = IF FailedHere = {} THEN "complete" ELSE "replan_out"
          /\ UNCHANGED <<plan, layer>>
      BY <1>7, <2>2 DEF MeanAndReplan, ReplanRemaining
    <3>. QED  BY <3>2, <3>3, <3>4 DEF CallsFit, Layer, Waiting
  <2>. QED  BY <2>1, <2>2
<1>8. CASE Finished \/ UNCHANGED vars
  BY <1>0, <1>8 DEF Finished, vars, CallsFit, Layer
<1>. QED  BY <1>1, <1>2, <1>3, <1>4, <1>5, <1>6, <1>7, <1>8 DEF Next

-----------------------------------------------------------------------------
(* The done event *)

LEMMA HonestStep == IInv /\ [Next]_vars => HonestSoFar' /\ HonestDone'
<1>. SUFFICES ASSUME IInv, [Next]_vars PROVE HonestSoFar' /\ HonestDone'
  OBVIOUS
<1>. USE DEF control, nodes, board, fanout, recovery
<1>0. TypeOK /\ Owned /\ ResultOnBoard /\ NoStrayAnswer /\ HonestSoFar /\ HonestDone
  BY DEF IInv
<1>1. CASE \/ Guard \/ BeginLayer \/ ScoreLayer \/ Reassign \/ ScoreReassign \/ CheckCriteria
           \/ ScoreCriteria \/ Penalise \/ MeanAndReplan \/ ScoreReplan \/ CompleteLayer
  <2>1. pc \notin Recovering /\ pc' \notin Recovering
    BY <1>1 DEF Guard, BeginLayer, ScoreLayer, Reassign, ScoreReassign, CheckCriteria, Penalise,
                ScoreCriteria, MeanAndReplan, ReplanRemaining, ScoreReplan, CompleteLayer, Recovering
  <2>2. CASE ScoreLayer \/ ScoreReplan
    <3>1. PICK F : NotePartial(F)
      BY <2>2, Zenon DEF ScoreLayer, ScoreReplan, ScoreAndPick
    <3>2. final'.degraded = final.degraded
      BY <1>0, <3>1, NotePartialType
    <3>. QED  BY <1>0, <2>1, <3>2 DEF HonestSoFar, HonestDone, Recovering
  <2>3. CASE UNCHANGED final
    BY <1>0, <2>1, <2>3 DEF HonestSoFar, HonestDone, Recovering
  <2>. QED  BY <1>1, <2>2, <2>3 DEF Guard, BeginLayer, Reassign, ScoreReassign, CheckCriteria,
              ScoreCriteria, Penalise, MeanAndReplan, CompleteLayer
<1>2. CASE \/ \E c \in out, ok \in BOOLEAN : Reply(c, ok)
           \/ \E n \in todo : BeginRecovery(n)
           \/ Finished \/ UNCHANGED vars
  <2>1. UNCHANGED <<pc, final, result, error>>
    BY <1>2 DEF Reply, BeginRecovery, Finished, vars
  <2>. QED  BY <1>0, <2>1 DEF HonestSoFar, HonestDone, Produced
<1>3. CASE Gather
  <2>0. pc = "gather" /\ UNCHANGED <<result, error>>
    BY <1>3 DEF Gather
  <2>1. CASE \A c \in CandIds : answers[c] = NoAnswer
    <3>1. \A n \in Nodes : ~Produced(n)
      BY <1>0, <2>0, <2>1, OwnerFact DEF Produced, ResultOnBoard
    <3>2. \A n \in Nodes : ~Produced(n)'
      BY <2>0, <3>1 DEF Produced
    <3>3. /\ final' = [kind |-> "no_outputs", ans |-> NoAnswer,
                       degraded |-> TRUE, partial |-> TRUE]
          /\ pc' = "done"
      BY <1>3, <2>1 DEF Gather
    <3>. QED  BY <3>2, <3>3, PoolAssumption DEF HonestSoFar, HonestDone, Recovering
  <2>2. CASE ~\A c \in CandIds : answers[c] = NoAnswer
    <3>1. PICK c \in CandIds : answers[c] # NoAnswer
      BY <2>2
    <3>2. c[2] \in Nodes /\ result[c[2]] # NoAnswer
      BY <1>0, <2>0, <3>1 DEF NoStrayAnswer, Recovering, CandIds
    <3>3. Produced(c[2])'
      BY <1>0, <2>0, <3>2 DEF Produced, Owned
    <3>4. ~final.degraded /\ NotePartial({n \in Nodes : result[n] = NoAnswer}) /\ pc' = "recover"
      BY <1>0, <1>3, <2>0, <2>2 DEF Gather, HonestSoFar, Recovering
    <3>5. ~final'.degraded
      BY <1>0, <3>4, NotePartialType
    <3>. QED  BY <3>2, <3>3, <3>4, <3>5 DEF HonestSoFar, HonestDone, Recovering
  <2>. QED  BY <2>1, <2>2
<1>4. CASE \E w \in Workers, good \in BOOLEAN : RecoveryCall(w, good)
  <2>1. PICK w \in Workers, good \in BOOLEAN : RecoveryCall(w, good)
    BY <1>4
  <2>2. pc = "recover" /\ UNCHANGED <<pc, final>>
    BY <2>1 DEF RecoveryCall
  <2>3. PICK n \in Nodes : Produced(n)
    BY <1>0, <2>2 DEF HonestSoFar
  <2>4. Produced(n)'
    <3>1. CASE good
      <4>1. Settle({healing}, [m \in {healing} |-> w], "recovery", {})
        BY <2>1, <3>1 DEF RecoveryCall
      <4>2. [by |-> w, via |-> "recovery"] # NoAnswer
        BY NoAnswerFact, PoolAssumption DEF NoAnswer
      <4>. QED  BY <2>3, <4>1, <4>2 DEF Settle, Produced
    <3>2. CASE ~good
      BY <2>1, <2>3, <3>2 DEF RecoveryCall, Produced
    <3>. QED  BY <3>1, <3>2
  <2>. QED  BY <1>0, <2>2, <2>4 DEF HonestSoFar, HonestDone, Recovering
<1>5. CASE FinishRecovery
  <2>. DEFINE some == \E n \in Nodes : ~Produced(n)
  <2>1. /\ pc = "recover" /\ pc' = "synth" /\ UNCHANGED <<result, error>>
        /\ final' = [final EXCEPT !.partial = some]
    BY <1>5 DEF FinishRecovery, PublishRecovered
  <2>2. some <=> \E n \in Nodes : ~Produced(n)'
    BY <2>1 DEF Produced
  <2>3. ~final.degraded /\ \E n \in Nodes : Produced(n)'
    BY <1>0, <2>1 DEF HonestSoFar, Produced
  <2>4. final'.partial = some /\ final'.degraded = final.degraded
    <3>. HIDE DEF some
    <3>. QED  BY <1>0, <2>1 DEF TypeOK
  <2>. HIDE DEF some
  <2>. QED  BY <2>1, <2>2, <2>3, <2>4 DEF HonestSoFar, HonestDone, Recovering
<1>6. CASE Synthesize \/ Verify
  <2>1. /\ pc \in {"synth", "verify"} /\ pc' \in {"verify", "done"}
        /\ UNCHANGED <<result, error>>
    BY <1>6 DEF Synthesize, Verify
  <2>2. final'.degraded = final.degraded /\ final'.partial = final.partial
    BY <1>0, <1>6 DEF Synthesize, Verify, TypeOK
  <2>3. /\ ~final.degraded
        /\ \E n \in Nodes : Produced(n)'
        /\ final.partial <=> \E n \in Nodes : ~Produced(n)'
    BY <1>0, <2>1 DEF HonestSoFar, Produced
  <2>. QED  BY <2>1, <2>2, <2>3 DEF HonestSoFar, HonestDone, Recovering
<1>. QED  BY <1>1, <1>2, <1>3, <1>4, <1>5, <1>6 DEF Next

-----------------------------------------------------------------------------
(* The theorems *)

LEMMA InitIInv == Init => IInv
<1>. SUFFICES ASSUME Init PROVE IInv
  OBVIOUS
<1>1. TypeOK
  BY InitType
<1>2. /\ pc = "guard" /\ calls = {} /\ final = Pending
      /\ result = [n \in Nodes |-> NoAnswer] /\ answers = [c \in CandIds |-> NoAnswer]
  BY DEF Init
<1>. QED  BY <1>1, <1>2 DEF IInv, Owned, Fresh, CallsFit, Waiting, ResultOnBoard, NoStrayAnswer,
                            HonestSoFar, HonestDone, Recovering, Pending

LEMMA IInvStep == IInv /\ [Next]_vars => IInv'
  BY TypeStep, BoardStep, FreshStep, CallsStep, HonestStep DEF IInv

(* The inductive invariant behind the theorems below holds of every        *)
(* reachable state of execute_conductor_stream.                            *)
THEOREM Inductive == Spec => []IInv
  BY InitIInv, IInvStep, PTL DEF Spec

(* Every variable keeps its type, whatever plan, pool and knobs.           *)
THEOREM TypesCorrect == Spec => []TypeOK
<1>1. IInv => TypeOK
  BY DEF IInv
<1>. QED  BY <1>1, Inductive, PTL

(* Whichever stage a node's result came from, the synthesizer reads that   *)
(* result under the node's candidate id.                                   *)
THEOREM BoardComplete == Spec => []ResultOnBoard
<1>1. IInv => ResultOnBoard
  BY DEF IInv
<1>. QED  BY <1>1, Inductive, PTL

(* Up to the recovery pass nothing but the nodes' results is on the board. *)
THEOREM BoardClean == Spec => []NoStrayAnswer
<1>1. IInv => NoStrayAnswer
  BY DEF IInv
<1>. QED  BY <1>1, Inductive, PTL

(* The done event's degraded and partial_success tell the truth.           *)
THEOREM DoneHonest == Spec => []HonestDone
<1>1. IInv => HonestDone
  BY DEF IInv
<1>. QED  BY <1>1, Inductive, PTL

(* A step never takes a result away: only a criteria retry or the recovery *)
(* pass replaces one, and by a later answer.                               *)
LEMMA SurviveStep ==
  IInv /\ [Next]_vars =>
    \A n \in Nodes : result[n] # NoAnswer =>
      result'[n] = result[n] \/ result'[n].via \in {"criteria", "recovery"}
<1>. SUFFICES ASSUME IInv, [Next]_vars, NEW n \in Nodes, result[n] # NoAnswer
              PROVE  result'[n] = result[n] \/ result'[n].via \in {"criteria", "recovery"}
  OBVIOUS
<1>. USE DEF control, nodes, board, fanout, recovery
<1>0. TypeOK /\ Fresh /\ CallsFit /\ Owned
  BY DEF IInv
<1>1. CASE \/ Guard \/ BeginLayer \/ \E c \in out, ok \in BOOLEAN : Reply(c, ok)
           \/ Reassign \/ CheckCriteria \/ Penalise \/ CompleteLayer \/ Gather
           \/ \E m \in todo : BeginRecovery(m)
           \/ FinishRecovery \/ Synthesize \/ Verify \/ Finished \/ UNCHANGED vars
  BY <1>1 DEF Guard, BeginLayer, Reply, Reassign, CheckCriteria, Penalise, CompleteLayer, Gather,
              BeginRecovery, FinishRecovery, Synthesize, Verify, Finished, vars
<1>2. CASE ScoreLayer
  <2>1. n \notin Layer /\ ScoreAndPick(Layer, "layer")
    BY <1>0, <1>2 DEF ScoreLayer, Fresh, Layer
  <2>. QED  BY <2>1, PickLocal
<1>3. CASE ScoreReplan
  <2>. DEFINE N == {c[1] : c \in calls}
  <2>1. n \notin N /\ ScoreAndPick(N, "replan")
    BY <1>0, <1>3 DEF ScoreReplan, CallsFit
  <2>. HIDE DEF N
  <2>. QED  BY <2>1, PickLocal
<1>4. CASE ScoreReassign
  <2>. DEFINE N == {c[1] : c \in calls}
              W == {c[1] : c \in replied}
  <2>1. n \notin N /\ n \notin W /\ Settle(W, worker, "reassign", N \ W)
    BY <1>0, <1>4 DEF ScoreReassign, CallsFit, TypeOK
  <2>. HIDE DEF N, W
  <2>. QED  BY <2>1 DEF Settle
<1>5. CASE ScoreCriteria
  <2>. DEFINE W == {c[1] : c \in replied}
  <2>1. Settle(W, selected, "criteria", {})
    BY <1>5 DEF ScoreCriteria
  <2>. HIDE DEF W
  <2>2. n \in W => result'[n] = [by |-> selected[n], via |-> "criteria"]
    BY <2>1 DEF Settle
  <2>3. [by |-> selected[n], via |-> "criteria"].via = "criteria"
    OBVIOUS
  <2>4. n \notin W => result'[n] = result[n]
    BY <2>1 DEF Settle
  <2>. QED  BY <2>2, <2>3, <2>4, Zenon
<1>6. CASE MeanAndReplan
  <2>1. pc = "mean"
    BY <1>6 DEF MeanAndReplan, ReplanRemaining
  <2>2. n \notin LaterNodes
    BY <1>0, <2>1 DEF Fresh, LaterNodes, Recovering
  <2>3. n \notin FailedHere
    BY <1>0 DEF FailedHere, Produced, Owned
  <2>. QED  BY <1>6, <2>2, <2>3 DEF MeanAndReplan, ReplanRemaining
<1>7. CASE \E w \in Workers, good \in BOOLEAN : RecoveryCall(w, good)
  <2>1. PICK w \in Workers, good \in BOOLEAN : RecoveryCall(w, good)
    BY <1>7
  <2>2. CASE good
    <3>1. Settle({healing}, [m \in {healing} |-> w], "recovery", {})
      BY <2>1, <2>2 DEF RecoveryCall
    <3>2. n = healing => result'[n] = [by |-> w, via |-> "recovery"]
      BY <3>1 DEF Settle
    <3>3. [by |-> w, via |-> "recovery"].via = "recovery"
      OBVIOUS
    <3>4. n # healing => result'[n] = result[n]
      BY <3>1 DEF Settle
    <3>. QED  BY <3>2, <3>3, <3>4, Zenon
  <2>3. CASE ~good
    BY <2>1, <2>3 DEF RecoveryCall
  <2>. QED  BY <2>2, <2>3
<1>. QED  BY <1>1, <1>2, <1>3, <1>4, <1>5, <1>6, <1>7 DEF Next

(* No reset of the replan or of the re-assignment loses a node's result.   *)
THEOREM NothingLost == Spec => ResultsSurvive
<1>1. IInv /\ [Next]_vars =>
        [\A n \in Nodes : result[n] # NoAnswer =>
           \/ result'[n] = result[n]
           \/ result'[n].via \in {"criteria", "recovery"}]_vars
  BY SurviveStep
<1>. QED  BY <1>1, Inductive, PTL DEF Spec, ResultsSurvive

-----------------------------------------------------------------------------
(* The scores of the ranking *)

(* The board entry of node n has the score of the sample it stands for.    *)
ScoreOf(n) ==
  \E s \in samples[n] : /\ s.by = result[n].by /\ s.via = result[n].via
                        /\ score[<<selected[n], n>>] = s.score

(* Until the criteria gate has spoken no score of the layer is lowered.    *)
Unlowered ==
  pc \in {"reassign", "reassign_out", "criteria", "criteria_out"} =>
    \A n \in Layer : result[n] # NoAnswer => ScoreOf(n)

(* Which nodes missed their criteria: before the gate none of this layer,  *)
(* and while the retries are out those that are retried.                   *)
UnmetFit ==
  /\ pc = "guard" => unmet = {}
  /\ pc \in {"layer", "fan_out", "reassign", "reassign_out", "criteria"} =>
       \A n \in unmet : plan.rank[n] < layer
  /\ pc \in {"criteria_out", "penalty", "mean", "replan_out", "complete"} =>
       \A n \in unmet : plan.rank[n] <= layer
  /\ pc = "criteria_out" =>
       \A n \in Layer : n \in unmet <=> \E c \in calls : c[1] = n

(* The entry of node n has the score of the answer it stands for, halved   *)
(* once if that answer missed its criteria.                                *)
ExactScore(n) ==
  IF n \notin unmet THEN ScoreOf(n)
  ELSE \E s \in samples[n] : /\ s.by = result[n].by /\ s.via = result[n].via
                             /\ score[<<selected[n], n>>] = s.score \div 2

(* The penalty loop finds every score as it should be and, where one is    *)
(* lowered, the words in its reason that say so.                           *)
Lowered ==
  /\ pc \in {"penalty", "mean"} => \A n \in Layer : result[n] # NoAnswer => ExactScore(n)
  /\ pc = "penalty" =>
       \A n \in Layer : result[n] # NoAnswer /\ n \in unmet => <<selected[n], n>> \in lowered

PInv == IInv /\ Unlowered /\ UnmetFit /\ Lowered

LEMMA SampleFields ==
  ASSUME NEW c, NEW via, NEW sc
  PROVE  /\ SampleOf(c, via, sc).by = c[2]
         /\ SampleOf(c, via, sc).via = via
         /\ c \in replied => SampleOf(c, via, sc).score = sc[c]
  BY DEF SampleOf

(* A winner of a fan-out enters with the score of its own sample.          *)
LEMMA PickEnters ==
  ASSUME TypeOK, NEW N \in SUBSET Nodes, NEW via \in Stages, ScoreAndPick(N, via),
         NEW n \in N, result'[n] # NoAnswer
  PROVE  ScoreOf(n)'
<1>1. PICK sc \in [replied -> Scores], win \in [N -> MaybeWorker] :
        LET W == {m \in N : win[m] # NoWorker}
        IN /\ \A m \in N : win[m] \in Winners(m, sc)
           /\ Settle(W, win, via, N \ W)
           /\ Enter(W, win, [m \in W |-> sc[<<m, win[m]>>]], {})
           /\ samples' = [m \in Nodes |->
                            IF m \in N
                            THEN {SampleOf(c, via, sc) : c \in {d \in calls : d[1] = m}}
                            ELSE samples[m]]
  BY DEF ScoreAndPick
<1>. DEFINE W == {m \in N : win[m] # NoWorker}
            c == <<n, win[n]>>
<1>2. Settle(W, win, via, N \ W) /\ Enter(W, win, [m \in W |-> sc[<<m, win[m]>>]], {})
  BY <1>1
<1>3. n \in W
  BY <1>2 DEF Settle
<1>4. win[n] \in Workers /\ win[n] \in Winners(n, sc) /\ win[n] # NoWorker
  BY <1>1, <1>3 DEF MaybeWorker
<1>5. c \in replied
  BY <1>4 DEF Winners
<1>6. c \in calls /\ c[1] = n /\ c[2] = win[n]
  BY <1>5 DEF TypeOK
<1>7. result'[n] = [by |-> win[n], via |-> via] /\ selected'[n] = win[n]
  BY <1>2, <1>3 DEF Settle
<1>8. score'[<<win[n], n>>] = sc[c]
  BY <1>2, <1>3, <1>4 DEF Enter, CandIds
<1>9. SampleOf(c, via, sc) \in samples'[n]
  BY <1>1, <1>6
<1>. HIDE DEF c
<1>. QED  BY <1>5, <1>6, <1>7, <1>8, <1>9, SampleFields DEF ScoreOf

LEMMA UnloweredStep == PInv /\ [Next]_vars => Unlowered'
<1>. SUFFICES ASSUME PInv, [Next]_vars,
                     pc' \in {"reassign", "reassign_out", "criteria", "criteria_out"},
                     NEW n \in Layer', result'[n] # NoAnswer
              PROVE  ScoreOf(n)'
  BY DEF Unlowered
<1>. USE DEF control, nodes, board, fanout, recovery
<1>0. TypeOK /\ CallsFit /\ Unlowered
  BY DEF PInv, IInv
<1>n. n \in Nodes
  BY DEF Layer
<1>1. CASE ScoreLayer
  <2>1. ScoreAndPick(Layer, "layer") /\ n \in Layer /\ Layer \in SUBSET Nodes
    BY <1>1 DEF ScoreLayer, Layer
  <2>. QED  BY <1>0, <2>1, PickEnters DEF Stages
<1>2. CASE Reassign
  <2>. DEFINE need == {m \in Layer : m \in plan.critical /\ result[m] = NoAnswer}
  <2>1. /\ pc = "reassign" /\ UNCHANGED <<plan, layer, result, selected, score>>
        /\ samples' = [m \in Nodes |-> IF m \in need THEN {} ELSE samples[m]]
    BY <1>2 DEF Reassign
  <2>2. n \in Layer /\ n \notin need /\ samples'[n] = samples[n]
    BY <2>1, <1>n DEF Layer
  <2>3. ScoreOf(n)
    BY <2>1, <2>2, <1>0 DEF Unlowered
  <2>. QED  BY <2>1, <2>2, <2>3 DEF ScoreOf
<1>3. CASE ScoreReassign
  <2>. DEFINE N == {c[1] : c \in calls}
              W == {c[1] : c \in replied}
  <2>1. PICK sc \in [replied -> Scores] :
          LET lead == [m \in W |-> sc[<<m, worker[m]>>]]
          IN /\ Settle(W, worker, "reassign", N \ W)
             /\ Enter(W, worker, lead, {})
             /\ samples' = [m \in Nodes |->
                              IF m \in N THEN {SampleOf(<<m, worker[m]>>, "reassign", sc)}
                              ELSE samples[m]]
    BY <1>3 DEF ScoreReassign
  <2>2. pc = "reassign_out" /\ UNCHANGED <<plan, layer>>
    BY <1>3 DEF ScoreReassign
  <2>3. Settle(W, worker, "reassign", N \ W)
        /\ Enter(W, worker, [m \in W |-> sc[<<m, worker[m]>>]], {})
    BY <2>1
  <2>4. CASE n \in W
    <3>1. PICK c \in replied : c[1] = n
      BY <2>4
    <3>2. c \in calls /\ c \in Nodes \X Workers /\ c[2] = worker[n]
      BY <3>1, <2>2, <1>0 DEF CallsFit, TypeOK
    <3>3. c = <<n, worker[n]>> /\ worker[n] \in Workers /\ n \in N
      BY <3>1, <3>2
    <3>4. result'[n] = [by |-> worker[n], via |-> "reassign"] /\ selected'[n] = worker[n]
      BY <2>3, <2>4, <1>n DEF Settle
    <3>5. score'[<<worker[n], n>>] = sc[c]
      BY <2>3, <2>4, <3>3, <1>n DEF Enter, CandIds
    <3>6. SampleOf(c, "reassign", sc) \in samples'[n]
      BY <2>1, <3>3, <1>n
    <3>. QED  BY <3>1, <3>2, <3>4, <3>5, <3>6, SampleFields DEF ScoreOf
  <2>5. CASE n \notin W
    <3>1. n \notin N
      BY <2>3, <2>5, <1>n DEF Settle
    <3>2. result'[n] = result[n] /\ selected'[n] = selected[n] /\ samples'[n] = samples[n]
      BY <2>1, <2>3, <2>5, <3>1, <1>n DEF Settle
    <3>3. \A w \in Workers : score'[<<w, n>>] = score[<<w, n>>]
      BY <2>3, <2>5, <1>n DEF Enter, CandIds
    <3>4. ScoreOf(n)
      BY <2>2, <3>2, <1>0 DEF Unlowered, Layer
    <3>5. selected[n] \in Workers
      BY <1>0, <1>n, <3>2, OwnerFact DEF PInv, IInv
    <3>. QED  BY <3>2, <3>3, <3>4, <3>5 DEF ScoreOf
  <2>. QED  BY <2>4, <2>5
<1>4. CASE CheckCriteria \/ \E c \in out, ok \in BOOLEAN : Reply(c, ok)
  <2>1. /\ UNCHANGED <<plan, layer, result, selected, score, samples>>
        /\ pc \in {"reassign", "reassign_out", "criteria", "criteria_out"}
    BY <1>4 DEF CheckCriteria, Reply
  <2>2. ScoreOf(n)
    BY <2>1, <1>0 DEF Unlowered, Layer
  <2>. QED  BY <2>1, <2>2 DEF ScoreOf
<1>5. CASE \/ Guard \/ BeginLayer \/ ScoreCriteria \/ Penalise \/ MeanAndReplan \/ ScoreReplan
           \/ CompleteLayer \/ Gather
  BY <1>5 DEF Guard, BeginLayer, ScoreCriteria, Penalise, MeanAndReplan, ReplanRemaining, ScoreReplan,
              CompleteLayer, Gather
<1>6. CASE \/ \E m \in todo : BeginRecovery(m)
           \/ \E w \in Workers, good \in BOOLEAN : RecoveryCall(w, good)
           \/ FinishRecovery \/ Synthesize \/ Verify
  BY <1>6 DEF BeginRecovery, RecoveryCall, FinishRecovery, Synthesize, Verify
<1>7. CASE Finished \/ UNCHANGED vars
  BY <1>0, <1>7 DEF Finished, vars, Unlowered, Layer, ScoreOf
<1>. QED  BY <1>1, <1>2, <1>3, <1>4, <1>5, <1>6, <1>7 DEF Next

LEMMA UnmetStep == PInv /\ [Next]_vars => UnmetFit'
<1>. SUFFICES ASSUME PInv, [Next]_vars PROVE UnmetFit'
  OBVIOUS
<1>. USE DEF control, nodes, board, fanout, recovery
<1>0. TypeOK /\ CallsFit /\ UnmetFit
  BY DEF PInv, IInv
<1>t. unmet \subseteq Nodes /\ layer \in Nat /\ \A n \in Nodes : plan.rank[n] \in Nat
  BY <1>0 DEF TypeOK, PlanType
<1>1. CASE Guard
  BY <1>0, <1>1 DEF Guard, UnmetFit
<1>2. CASE BeginLayer \/ ScoreLayer \/ Reassign \/ ScoreReassign
  <2>1. /\ UNCHANGED <<plan, layer, unmet>>
        /\ pc \in {"layer", "fan_out", "reassign", "reassign_out"}
        /\ pc' \in {"fan_out", "reassign", "reassign_out", "criteria"}
    BY <1>2 DEF BeginLayer, ScoreLayer, Reassign, ScoreReassign
  <2>. QED  BY <1>0, <2>1 DEF UnmetFit
<1>3. CASE \E c \in out, ok \in BOOLEAN : Reply(c, ok)
  BY <1>0, <1>3 DEF Reply, UnmetFit, Layer
<1>4. CASE CheckCriteria
  <2>1. PICK bad \in SUBSET Checked :
          unmet' = unmet \union bad /\ calls' = {<<n, selected[n]>> : n \in bad}
    BY <1>4 DEF CheckCriteria, FanOut
  <2>2. /\ UNCHANGED <<plan, layer>> /\ pc = "criteria"
        /\ pc' \in {"penalty", "criteria_out"}
    BY <1>4 DEF CheckCriteria
  <2>3. \A n \in bad : n \in Nodes /\ plan.rank[n] = layer
    BY DEF Checked, Layer
  <2>4. \A n \in unmet : plan.rank[n] < layer
    BY <1>0, <2>2 DEF UnmetFit
  <2>5. \A n \in unmet' : plan'.rank[n] <= layer'
    BY <1>t, <2>1, <2>2, <2>3, <2>4
  <2>6. \A n \in Layer' : n \in unmet' <=> n \in bad
    BY <1>t, <2>1, <2>2, <2>4 DEF Layer
  <2>7. \A n \in bad : <<n, selected[n]>> \in calls' /\ <<n, selected[n]>>[1] = n
    BY <2>1
  <2>8. \A c \in calls' : c[1] \in bad
    BY <2>1
  <2>. QED  BY <2>2, <2>5, <2>6, <2>7, <2>8 DEF UnmetFit
<1>5. CASE ScoreCriteria
  <2>1. unmet' \subseteq unmet /\ UNCHANGED <<plan, layer>>
        /\ pc = "criteria_out" /\ pc' = "penalty"
    BY <1>5 DEF ScoreCriteria
  <2>. QED  BY <1>0, <2>1 DEF UnmetFit
<1>6. CASE Penalise \/ MeanAndReplan \/ ScoreReplan
  <2>1. /\ UNCHANGED <<plan, layer, unmet>>
        /\ pc \in {"penalty", "mean", "replan_out"} /\ pc' \in {"mean", "replan_out", "complete"}
    BY <1>6 DEF Penalise, MeanAndReplan, ReplanRemaining, ScoreReplan
  <2>. QED  BY <1>0, <2>1 DEF UnmetFit
<1>7. CASE CompleteLayer
  <2>1. /\ UNCHANGED <<plan, unmet>> /\ pc = "complete"
        /\ \/ pc' = "layer" /\ layer' = layer + 1
           \/ pc' = "gather"
    BY <1>7 DEF CompleteLayer
  <2>2. \A n \in unmet : plan.rank[n] < layer + 1
    BY <1>0, <1>t, <2>1 DEF UnmetFit
  <2>. QED  BY <2>1, <2>2 DEF UnmetFit
<1>8. CASE \/ Gather \/ \E m \in todo : BeginRecovery(m)
           \/ \E w \in Workers, good \in BOOLEAN : RecoveryCall(w, good)
           \/ FinishRecovery \/ Synthesize \/ Verify
  BY <1>8 DEF Gather, BeginRecovery, RecoveryCall, FinishRecovery, Synthesize, Verify, UnmetFit
<1>9. CASE Finished \/ UNCHANGED vars
  BY <1>0, <1>9 DEF Finished, vars, UnmetFit, Layer
<1>. QED  BY <1>1, <1>2, <1>3, <1>4, <1>5, <1>6, <1>7, <1>8, <1>9 DEF Next

(* The criteria retries: a retried node's entry has the retry's own score, *)
(* halved if it missed again, or the old one halved if the retry failed.   *)
LEMMA RetriesExact ==
  ASSUME PInv, ScoreCriteria, NEW n \in Layer, result'[n] # NoAnswer
  PROVE  ExactScore(n)' /\ (n \in unmet' => <<selected[n], n>>' \in lowered')
<1>. DEFINE N == {c[1] : c \in calls}
            W == {c[1] : c \in replied}
            d == <<n, selected[n]>>
<1>1. PICK sc \in [replied -> Scores], again \in SUBSET W :
        /\ Settle(W, selected, "criteria", {})
        /\ Enter(N, selected, [m \in N |-> RetryScore(m, sc, again)], Marked(N, W, again))
        /\ unmet' = unmet \ (W \ again)
        /\ samples' = [m \in Nodes |->
                         IF m \in N
                         THEN samples[m] \union
                                {SampleOf(<<m, selected[m]>>, "criteria", sc)}
                         ELSE samples[m]]
  BY DEF ScoreCriteria
<1>2. pc = "criteria_out" /\ n \in Nodes
  BY DEF ScoreCriteria, Layer
<1>0. TypeOK /\ Owned /\ CallsFit /\ Unlowered /\ UnmetFit
  BY DEF PInv, IInv
<1>3. selected'[n] = selected[n]
  BY <1>0, <1>1, <1>2 DEF Settle, TypeOK
<1>4. W \subseteq N /\ (n \in unmet <=> n \in N)
  BY <1>0, <1>2 DEF TypeOK, UnmetFit
<1>5. n \in N => result[n] # NoAnswer
  BY <1>0, <1>2 DEF CallsFit
<1>6. result[n] # NoAnswer
  BY <1>1, <1>2, <1>4, <1>5 DEF Settle
<1>7. selected[n] \in Workers /\ <<selected[n], n>> \in CandIds
  BY <1>0, <1>2, <1>6, OwnerFact
<1>8. ScoreOf(n)
  BY <1>0, <1>2, <1>6 DEF Unlowered
<1>9. d \in replied <=> n \in W
  BY <1>0, <1>2 DEF CallsFit, TypeOK
<1>10. score'[<<selected[n], n>>] =
         IF n \in N THEN RetryScore(n, sc, again) ELSE score[<<selected[n], n>>]
  BY <1>1, <1>7 DEF Enter
<1>11. CASE n \in W
  <2>1. result'[n] = [by |-> selected[n], via |-> "criteria"]
    BY <1>1, <1>2, <1>11 DEF Settle
  <2>2. SampleOf(d, "criteria", sc) \in samples'[n]
    BY <1>1, <1>2, <1>4, <1>11
  <2>3. /\ SampleOf(d, "criteria", sc).by = result'[n].by
        /\ SampleOf(d, "criteria", sc).via = result'[n].via
        /\ SampleOf(d, "criteria", sc).score = sc[d]
    BY <1>9, <1>11, <2>1, SampleFields
  <2>4. n \in unmet' <=> n \in again
    BY <1>1, <1>4, <1>11
  <2>5. score'[<<selected[n], n>>] = IF n \in again THEN sc[d] \div 2 ELSE sc[d]
    BY <1>4, <1>9, <1>10, <1>11 DEF RetryScore
  <2>6. n \in again => <<selected[n], n>> \in lowered'
    BY <1>1 DEF Enter, Marked
  <2>. HIDE DEF d
  <2>. QED  BY <1>3, <2>2, <2>3, <2>4, <2>5, <2>6 DEF ScoreOf, ExactScore
<1>12. CASE n \in N \ W
  <2>1. result'[n] = result[n] /\ n \in unmet' /\ samples[n] \subseteq samples'[n]
    BY <1>1, <1>2, <1>4, <1>12 DEF Settle
  <2>2. score'[<<selected[n], n>>] = score[<<selected[n], n>>] \div 2
    BY <1>1, <1>9, <1>10, <1>12 DEF RetryScore
  <2>3. <<selected[n], n>> \in lowered'
    BY <1>1, <1>12 DEF Enter, Marked
  <2>. QED  BY <1>3, <1>8, <2>1, <2>2, <2>3 DEF ScoreOf, ExactScore
<1>13. CASE n \notin N
  <2>1. result'[n] = result[n] /\ n \notin unmet' /\ samples'[n] = samples[n]
    BY <1>1, <1>2, <1>4, <1>13 DEF Settle
  <2>. QED  BY <1>3, <1>8, <1>10, <1>13, <2>1 DEF ScoreOf, ExactScore
<1>. QED  BY <1>4, <1>11, <1>12, <1>13

LEMMA LoweredStep == PInv /\ [Next]_vars => Lowered'
<1>. SUFFICES ASSUME PInv, [Next]_vars, pc' \in {"penalty", "mean"} PROVE Lowered'
  BY DEF Lowered
<1>. USE DEF control, nodes, board, fanout, recovery
<1>0. TypeOK /\ Unlowered /\ UnmetFit /\ Lowered
  BY DEF PInv, IInv
<1>1. CASE CheckCriteria
  <2>1. PICK bad \in SUBSET Checked :
          unmet' = unmet \union bad /\ calls' = {<<n, selected[n]>> : n \in bad}
    BY <1>1 DEF CheckCriteria, FanOut
  <2>2. /\ UNCHANGED <<plan, layer, result, selected, samples, score>>
        /\ pc = "criteria" /\ calls' = {}
    BY <1>1 DEF CheckCriteria
  <2>3. bad = {}
    BY <2>1, <2>2
  <2>4. \A n \in Layer : n \notin unmet'
    BY <1>0, <2>1, <2>2, <2>3 DEF UnmetFit, Layer, TypeOK
  <2>5. \A n \in Layer : result[n] # NoAnswer => ScoreOf(n)
    BY <1>0, <2>2 DEF Unlowered
  <2>. QED  BY <2>2, <2>4, <2>5 DEF Lowered, ExactScore, ScoreOf, Layer
<1>2. CASE ScoreCriteria
  <2>1. Layer' = Layer
    BY <1>2 DEF ScoreCriteria, Layer
  <2>. QED  BY <1>2, <2>1, RetriesExact DEF Lowered
<1>3. CASE Penalise
  <2>1. pc = "penalty" /\ pc' = "mean"
        /\ UNCHANGED <<plan, layer, result, selected, samples, unmet>>
    BY <1>3 DEF Penalise
  <2>2. \A n \in Checked \intersect unmet : <<selected[n], n>> \in lowered
    BY <1>0, <2>1 DEF Lowered, Checked
  <2>3. PICK due : due = {} /\ \E val : Enter(due, selected, val, due)
    BY <1>3, <2>2 DEF Penalise
  <2>4. score' = score
    BY <1>0, <2>3 DEF Enter, TypeOK
  <2>. QED  BY <1>0, <2>1, <2>4 DEF Lowered, ExactScore, ScoreOf, Layer
<1>4. CASE \E c \in out, ok \in BOOLEAN : Reply(c, ok)
  BY <1>0, <1>4 DEF Reply, Lowered, ExactScore, ScoreOf, Layer
<1>5. CASE \/ Guard \/ BeginLayer \/ ScoreLayer \/ Reassign \/ ScoreReassign
           \/ MeanAndReplan \/ ScoreReplan \/ CompleteLayer \/ Gather
  BY <1>5 DEF Guard, BeginLayer, ScoreLayer, Reassign, ScoreReassign, MeanAndReplan,
              ReplanRemaining, ScoreReplan, CompleteLayer, Gather
<1>6. CASE \/ \E m \in todo : BeginRecovery(m)
           \/ \E w \in Workers, good \in BOOLEAN : RecoveryCall(w, good)
           \/ FinishRecovery \/ Synthesize \/ Verify
  BY <1>6 DEF BeginRecovery, RecoveryCall, FinishRecovery, Synthesize, Verify
<1>7. CASE Finished \/ UNCHANGED vars
  BY <1>0, <1>7 DEF Finished, vars, Lowered, ExactScore, ScoreOf, Layer
<1>. QED  BY <1>1, <1>2, <1>3, <1>4, <1>5, <1>6, <1>7 DEF Next

(* When the layer's mean is taken, every winner's entry has the score of   *)
(* the answer it stands for, halved once exactly if it missed its criteria.*)
THEOREM PenaltyOnce == Spec => []PenaltyExact
<1>1. Init => PInv
  BY InitIInv DEF Init, PInv, Unlowered, UnmetFit, Lowered
<1>2. PInv /\ [Next]_vars => PInv'
  BY IInvStep, UnloweredStep, UnmetStep, LoweredStep DEF PInv
<1>3. PInv => PenaltyExact
  BY DEF PInv, Lowered, ExactScore, ScoreOf, PenaltyExact
<1>. QED  BY <1>1, <1>2, <1>3, PTL DEF Spec

-----------------------------------------------------------------------------
(* What is left to do *)

(* How far a run is from its done event: the places it passes, the layers, *)
(* the places within a layer, the calls that are out, the nodes to recover *)
(* and the one that is recovered now, and the workers left for that one.   *)
Place ==
  IF pc = "guard" THEN 6
  ELSE IF pc = "gather" THEN 4 ELSE IF pc = "recover" THEN 3
  ELSE IF pc = "synth" THEN 2 ELSE IF pc = "verify" THEN 1
  ELSE IF pc = "done" THEN 0 ELSE 5
InLayer ==
  IF pc = "layer" THEN 9 ELSE IF pc = "fan_out" THEN 8
  ELSE IF pc = "reassign" THEN 7 ELSE IF pc = "reassign_out" THEN 6
  ELSE IF pc = "criteria" THEN 5 ELSE IF pc = "criteria_out" THEN 4
  ELSE IF pc = "penalty" THEN 3 ELSE IF pc = "mean" THEN 2
  ELSE IF pc = "replan_out" THEN 1 ELSE 0
Hurt == 2 * Cardinality(todo) + (IF healing = NoNode THEN 0 ELSE 1)
Left == <<Place, plan.depth + 1 - layer, InLayer, Cardinality(out), Hurt,
          Cardinality(Workers \ tried)>>

(* The lexicographic order of what is left.                                *)
Amounts == [1..6 -> Nat]
Fewer == LexProductOrdering(OpToRel(<, Nat), Nat, 6)
(* A step leaves less.                                                     *)
Falls == <<Left', Left>> \in Fewer

LEMMA FewerIs ==
  ASSUME NEW f \in Amounts, NEW g \in Amounts, NEW j \in 1..6,
         \A i \in 1..(j - 1) : f[i] = g[i], f[j] < g[j]
  PROVE  <<f, g>> \in Fewer
<1>1. <<f[j], g[j]>> \in OpToRel(<, Nat)
  BY DEF OpToRel, Amounts
<1>. QED  BY <1>1 DEF Fewer, LexProductOrdering, Amounts

(* No layer is begun that the plan does not have.                          *)
InDepth == layer <= plan.depth + 1

LEMMA InDepthStep == IInv /\ InDepth /\ [Next]_vars => InDepth'
<1>. SUFFICES ASSUME IInv, InDepth, [Next]_vars  PROVE InDepth'
  OBVIOUS
<1>1. plan \in PlanType /\ plan.depth \in Nat /\ layer \in Nat
  BY DEF IInv, TypeOK, PlanType
<1>2. CASE Guard
  <2>1. layer' = layer /\ plan' = GuardedPlan(plan)
    BY <1>2 DEF Guard
  <2>2. plan'.depth = plan.depth \/ plan'.depth = plan.depth + 1
    BY <1>1, <2>1 DEF GuardedPlan, PlanType
  <2>. QED  BY <1>1, <2>1, <2>2 DEF InDepth
<1>3. CASE CompleteLayer
  <2>1. plan' = plan /\ (layer' = layer \/ (layer < plan.depth /\ layer' = layer + 1))
    BY <1>3 DEF CompleteLayer
  <2>. QED  BY <1>1, <2>1 DEF InDepth
<1>4. CASE plan' = plan /\ layer' = layer
  BY <1>4 DEF InDepth
<1>5. CASE \/ BeginLayer \/ ScoreLayer \/ Reassign \/ ScoreReassign \/ CheckCriteria
           \/ ScoreCriteria \/ Penalise
  BY <1>4, <1>5 DEF BeginLayer, ScoreLayer, Reassign, ScoreReassign, CheckCriteria, ScoreCriteria,
                    Penalise
<1>6. CASE MeanAndReplan \/ ScoreReplan \/ Gather \/ FinishRecovery \/ Synthesize \/ Verify
  BY <1>4, <1>6 DEF MeanAndReplan, ScoreReplan, Gather, FinishRecovery, Synthesize, Verify
<1>7. ASSUME NEW c \in out, NEW ok \in BOOLEAN, Reply(c, ok)  PROVE InDepth'
  BY <1>4, <1>7 DEF Reply, control
<1>8. ASSUME NEW n \in todo, BeginRecovery(n)  PROVE InDepth'
  BY <1>4, <1>8 DEF BeginRecovery, control
<1>9. ASSUME NEW w \in Workers, NEW good \in BOOLEAN, RecoveryCall(w, good)  PROVE InDepth'
  BY <1>4, <1>9 DEF RecoveryCall, control
<1>10. CASE UNCHANGED vars
  BY <1>4, <1>10 DEF vars, control
<1>. QED  BY <1>2, <1>3, <1>5, <1>6, <1>7, <1>8, <1>9, <1>10 DEF Next, Finished

LEMMA LeftType ==
  ASSUME IInv, InDepth, IsFiniteSet(Nodes), IsFiniteSet(Workers)
  PROVE  /\ Left \in Amounts
         /\ IsFiniteSet(out) /\ IsFiniteSet(todo) /\ IsFiniteSet(Workers \ tried)
<1>1. Place \in Nat /\ InLayer \in Nat
  BY DEF Place, InLayer
<1>2. plan.depth + 1 - layer \in Nat
  <2>1. plan.depth \in Nat /\ layer \in Nat /\ layer <= plan.depth + 1
    BY DEF IInv, TypeOK, PlanType, InDepth
  <2>. QED  BY <2>1
<1>3. IsFiniteSet(out)
  <2>1. IsFiniteSet(Nodes \X Workers)
    BY FS_Product
  <2>2. out \subseteq Nodes \X Workers
    BY DEF IInv, TypeOK
  <2>. QED  BY <2>1, <2>2, FS_Subset
<1>4. IsFiniteSet(todo)
  BY FS_Subset DEF IInv, TypeOK
<1>5. IsFiniteSet(Workers \ tried)
  BY FS_Subset
<1>6. Cardinality(out) \in Nat /\ Cardinality(todo) \in Nat /\ Cardinality(Workers \ tried) \in Nat
  BY <1>3, <1>4, <1>5, FS_CardinalityType
<1>7. Hurt \in Nat
  BY <1>6 DEF Hurt
<1>. HIDE DEF Place, InLayer, Hurt
<1>8. Left \in Amounts
  BY <1>1, <1>2, <1>6, <1>7 DEF Left, Amounts
<1>. QED  BY <1>3, <1>4, <1>5, <1>8

(* Something has become less, and what counts for more is as it was.       *)
LEMMA LeftFalls ==
  ASSUME Left \in Amounts, Left' \in Amounts,
         \/ Place' < Place
         \/ /\ Place' = Place
            /\ \/ plan'.depth + 1 - layer' < plan.depth + 1 - layer
               \/ /\ plan' = plan /\ layer' = layer
                  /\ \/ InLayer' < InLayer
                     \/ /\ InLayer' = InLayer
                        /\ \/ Cardinality(out') < Cardinality(out)
                           \/ /\ out' = out
                              /\ \/ Hurt' < Hurt
                                 \/ /\ Hurt' = Hurt
                                    /\ Cardinality(Workers \ tried') < Cardinality(Workers \ tried)
  PROVE  <<Left', Left>> \in Fewer
<1>. DEFINE lower(j) == (\A i \in 1..(j - 1) : Left'[i] = Left[i]) /\ Left'[j] < Left[j]
<1>1. ASSUME NEW j \in 1..6, lower(j)  PROVE <<Left', Left>> \in Fewer
  BY <1>1, FewerIs
<1>2. /\ Left[1] = Place /\ Left[2] = plan.depth + 1 - layer /\ Left[3] = InLayer
      /\ Left[4] = Cardinality(out) /\ Left[5] = Hurt /\ Left[6] = Cardinality(Workers \ tried)
  BY DEF Left
<1>3. /\ Left'[1] = Place' /\ Left'[2] = plan'.depth + 1 - layer' /\ Left'[3] = InLayer'
      /\ Left'[4] = Cardinality(out') /\ Left'[5] = Hurt' /\ Left'[6] = Cardinality(Workers \ tried')
  BY DEF Left
<1>4. /\ 1..(1 - 1) = {} /\ 1..(2 - 1) = {1} /\ 1..(3 - 1) = {1, 2} /\ 1..(4 - 1) = {1, 2, 3}
      /\ 1..(5 - 1) = {1, 2, 3, 4} /\ 1..(6 - 1) = {1, 2, 3, 4, 5}
  OBVIOUS
<1>. HIDE DEF Left, Place, InLayer, Hurt
<1>5. CASE Place' < Place
  <2>1. lower(1)
    BY <1>2, <1>3, <1>4, <1>5
  <2>. QED  BY <1>1, <2>1
<1>6. CASE Place' = Place /\ plan'.depth + 1 - layer' < plan.depth + 1 - layer
  <2>1. lower(2)
    BY <1>2, <1>3, <1>4, <1>6
  <2>. QED  BY <1>1, <2>1
<1>7. CASE Place' = Place /\ plan' = plan /\ layer' = layer
  <2>1. CASE InLayer' < InLayer
    <3>1. lower(3)
      BY <1>2, <1>3, <1>4, <1>7, <2>1
    <3>. QED  BY <1>1, <3>1
  <2>2. CASE InLayer' = InLayer /\ Cardinality(out') < Cardinality(out)
    <3>1. lower(4)
      BY <1>2, <1>3, <1>4, <1>7, <2>2
    <3>. QED  BY <1>1, <3>1
  <2>3. CASE InLayer' = InLayer /\ out' = out /\ Hurt' < Hurt
    <3>1. lower(5)
      BY <1>2, <1>3, <1>4, <1>7, <2>3
    <3>. QED  BY <1>1, <3>1
  <2>4. CASE /\ InLayer' = InLayer /\ out' = out /\ Hurt' = Hurt
             /\ Cardinality(Workers \ tried') < Cardinality(Workers \ tried)
    <3>1. lower(6)
      BY <1>2, <1>3, <1>4, <1>7, <2>4
    <3>. QED  BY <1>1, <3>1
  <2>. QED  BY <1>5, <1>6, <1>7, <2>1, <2>2, <2>3, <2>4
<1>. QED  BY <1>5, <1>6, <1>7

(* Within a layer the coroutine goes from place to place, forward only.    *)
LEMMA LayerFalls ==
  ASSUME \/ BeginLayer \/ ScoreLayer \/ Reassign \/ ScoreReassign
         \/ CheckCriteria \/ ScoreCriteria \/ Penalise \/ MeanAndReplan \/ ScoreReplan
  PROVE  Place' = Place /\ plan' = plan /\ layer' = layer /\ InLayer' < InLayer
<1>1. /\ plan' = plan /\ layer' = layer
      /\ \/ pc = "layer" /\ pc' = "fan_out"
         \/ pc = "fan_out" /\ pc' = "reassign"
         \/ pc = "reassign" /\ pc' \in {"criteria", "reassign_out"}
         \/ pc = "reassign_out" /\ pc' = "criteria"
         \/ pc = "criteria" /\ pc' \in {"penalty", "criteria_out"}
         \/ pc = "criteria_out" /\ pc' = "penalty"
         \/ pc = "penalty" /\ pc' = "mean"
         \/ pc = "mean" /\ pc' \in {"complete", "replan_out"}
         \/ pc = "replan_out" /\ pc' = "complete"
  <2>1. CASE BeginLayer
    BY <2>1 DEF BeginLayer
  <2>2. CASE ScoreLayer
    BY <2>2 DEF ScoreLayer
  <2>3. CASE Reassign
    BY <2>3 DEF Reassign
  <2>4. CASE ScoreReassign
    BY <2>4 DEF ScoreReassign
  <2>5. CASE CheckCriteria
    BY <2>5 DEF CheckCriteria
  <2>6. CASE ScoreCriteria
    BY <2>6 DEF ScoreCriteria
  <2>7. CASE MeanAndReplan
    BY <2>7 DEF MeanAndReplan
  <2>8. CASE ScoreReplan
    BY <2>8 DEF ScoreReplan
  <2>9. CASE Penalise
    BY <2>9 DEF Penalise
  <2>. QED  BY <2>1, <2>2, <2>3, <2>4, <2>5, <2>6, <2>7, <2>8, <2>9
<1>. QED  BY <1>1 DEF Place, InLayer

LEMMA StepFalls ==
  ASSUME IInv, InDepth, IsFiniteSet(Nodes), IsFiniteSet(Workers), Left' \in Amounts,
         Next, ~UNCHANGED vars
  PROVE  <<Left', Left>> \in Fewer
<1>1. /\ Left \in Amounts
      /\ IsFiniteSet(out) /\ IsFiniteSet(todo) /\ IsFiniteSet(Workers \ tried)
  BY LeftType
<1>2. CASE Guard \/ Gather \/ FinishRecovery \/ Synthesize \/ Verify
  <2>1. \/ pc = "guard" /\ pc' = "layer"
        \/ pc = "gather" /\ pc' \in {"done", "recover"}
        \/ pc = "recover" /\ pc' = "synth"
        \/ pc = "synth" /\ pc' = "verify"
        \/ pc = "verify" /\ pc' = "done"
    BY <1>2 DEF Guard, Gather, FinishRecovery, Synthesize, Verify
  <2>2. Place' < Place
    BY <2>1 DEF Place
  <2>. QED  BY <1>1, <2>2, LeftFalls
<1>3. CASE \/ BeginLayer \/ ScoreLayer \/ Reassign \/ ScoreReassign
           \/ CheckCriteria \/ ScoreCriteria \/ Penalise \/ MeanAndReplan \/ ScoreReplan
  BY <1>1, <1>3, LayerFalls, LeftFalls
<1>4. CASE CompleteLayer
  <2>1. CASE layer < plan.depth
    <3>1. Place' = Place /\ plan' = plan /\ layer' = layer + 1
      BY <1>4, <2>1 DEF CompleteLayer, Place
    <3>2. plan.depth \in Nat /\ layer \in Nat
      BY DEF IInv, TypeOK, PlanType
    <3>3. plan'.depth + 1 - layer' < plan.depth + 1 - layer
      BY <3>1, <3>2
    <3>. QED  BY <1>1, <3>1, <3>3, LeftFalls
  <2>2. CASE ~(layer < plan.depth)
    <3>1. Place' < Place
      BY <1>4, <2>2 DEF CompleteLayer, Place
    <3>. QED  BY <1>1, <3>1, LeftFalls
  <2>. QED  BY <2>1, <2>2
<1>5. ASSUME UNCHANGED <<plan, pc, layer>>
      PROVE  Place' = Place /\ plan' = plan /\ layer' = layer /\ InLayer' = InLayer
  BY <1>5 DEF Place, InLayer
<1>6. ASSUME NEW c \in out, NEW ok \in BOOLEAN, Reply(c, ok)  PROVE <<Left', Left>> \in Fewer
  <2>1. UNCHANGED <<plan, pc, layer>> /\ out' = out \ {c}
    BY <1>6 DEF Reply, control
  <2>2. Cardinality(out \ {c}) = Cardinality(out) - 1 /\ Cardinality(out) \in Nat
    BY <1>1, FS_RemoveElement, FS_CardinalityType
  <2>3. Cardinality(out') < Cardinality(out)
    BY <2>1, <2>2
  <2>. QED  BY <1>1, <1>5, <2>1, <2>3, LeftFalls
<1>7. ASSUME NEW n \in todo, BeginRecovery(n)  PROVE <<Left', Left>> \in Fewer
  <2>1. UNCHANGED <<plan, pc, layer>> /\ out' = out /\ healing = NoNode /\ todo' = todo \ {n}
    BY <1>7 DEF BeginRecovery, control, fanout
  <2>2. Cardinality(todo') = Cardinality(todo) - 1 /\ Cardinality(todo) \in Nat
    BY <1>1, <2>1, FS_RemoveElement, FS_CardinalityType
  <2>3. Hurt' < Hurt
    BY <2>1, <2>2 DEF Hurt
  <2>. QED  BY <1>1, <1>5, <2>1, <2>3, LeftFalls
<1>8. ASSUME NEW w \in Workers, NEW good \in BOOLEAN, RecoveryCall(w, good)
      PROVE  <<Left', Left>> \in Fewer
  <2>1. /\ UNCHANGED <<plan, pc, layer>> /\ out' = out /\ todo' = todo /\ healing # NoNode
        /\ w \notin tried
        /\ \/ healing' = NoNode
           \/ healing' = healing /\ tried' = tried \union {w}
    BY <1>8 DEF RecoveryCall, control, fanout
  <2>2. Cardinality(todo) \in Nat
    BY <1>1, FS_CardinalityType
  <2>3. CASE healing' = NoNode
    <3>1. Hurt' < Hurt
      BY <2>1, <2>2, <2>3 DEF Hurt
    <3>. QED  BY <1>1, <1>5, <2>1, <3>1, LeftFalls
  <2>4. CASE healing' = healing /\ tried' = tried \union {w}
    <3>1. Hurt' = Hurt
      BY <2>1, <2>4 DEF Hurt
    <3>2. Workers \ tried' = (Workers \ tried) \ {w} /\ w \in Workers \ tried
      BY <2>1, <2>4
    <3>3. Cardinality(Workers \ tried') = Cardinality(Workers \ tried) - 1
      BY <1>1, <3>2, FS_RemoveElement
    <3>4. Cardinality(Workers \ tried') < Cardinality(Workers \ tried)
      BY <1>1, <3>3, FS_CardinalityType
    <3>. QED  BY <1>1, <1>5, <2>1, <3>1, <3>4, LeftFalls
  <2>. QED  BY <2>1, <2>3, <2>4
<1>9. ~Finished
  BY DEF Finished
<1>. QED  BY <1>2, <1>3, <1>4, <1>6, <1>7, <1>8, <1>9 DEF Next

(* A run has boundedly many steps, whatever its workers, the verifier and  *)
(* the gates say: what is left to do gets less with each of them, in an    *)
(* order that does not go down for ever (execute_conductor_stream).        *)
THEOREM EveryStepCounts ==
  ASSUME IsFiniteSet(Nodes), IsFiniteSet(Workers)
  PROVE  /\ IsWellFoundedOn(Fewer, Amounts)
         /\ Spec => [](Left \in Amounts) /\ [][Falls]_vars
<1>1. IsWellFoundedOn(Fewer, Amounts)
  <2>1. 6 \in Nat
    OBVIOUS
  <2>. QED  BY <2>1, NatLessThanWellFounded, WFLexProductOrdering DEF Fewer, Amounts
<1>2. Init => InDepth
  <2>. SUFFICES ASSUME Init  PROVE InDepth
    OBVIOUS
  <2>1. plan \in PlanType /\ layer = 1
    BY PlanAssumption DEF Init
  <2>2. plan.depth \in Nat
    BY <2>1 DEF PlanType
  <2>. QED  BY <2>1, <2>2 DEF InDepth
<1>3. IInv /\ InDepth => Left \in Amounts
  BY LeftType
<1>4. IInv /\ InDepth /\ (Left \in Amounts)' /\ [Next]_vars => [Falls]_vars
  BY StepFalls DEF Falls
<1>5. Spec => [](Left \in Amounts) /\ [][Falls]_vars
  BY <1>2, <1>3, <1>4, InDepthStep, Inductive, PTL DEF Spec
<1>. QED  BY <1>1, <1>5
=============================================================================

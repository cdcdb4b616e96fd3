--------------------------- MODULE ConductorExec ---------------------------
(***************************************************************************)
(* The Conductor DAG executor: execute_conductor_stream from the point     *)
(* where a healthy run has announced itself (meta, conductor_plan,         *)
(* fan_out) to the done event, with recovery_fill_failed_nodes and the     *)
(* synthesis and verify gates it calls.                                    *)
(*                                                                         *)
(* Layers run one after another.  Inside a layer the workers' calls run    *)
(* concurrently (fan_out_varied) and come back in any order; everything    *)
(* between two fan-outs is one sequential piece of the coroutine and is    *)
(* one action here.  An answer's text is abstracted to who gave it and in  *)
(* which stage; what the verifier, the criteria gate and the artifact gate *)
(* think of a text is chosen when the code first looks at it.              *)
(***************************************************************************)
EXTENDS Integers, FiniteSets, FiniteSetsExt

CONSTANTS
  Nodes,          \* subtask ids of the plan
  Workers,        \* the connected pool
  NoWorker,       \* None; in a pick list, an id that is not in the pool
  NoNode,         \* None
  Scores,         \* verdicts of the engine verifier, on the 0-10 scale
  Plans,          \* the plans that may arrive
  ReplanEnabled,  \* CONDUCTOR_REPLAN
  ReplanFloor,    \* CONDUCTOR_REPLAN_FLOOR
  Polish,         \* CONDUCTOR_LLM_MERGE
  KCritical,      \* samples of a critical node that is re-assigned
  MaxRecoveries,  \* max_recoveries
  MaxAlternates   \* ordered[:3]

Stages  == {"layer", "reassign", "criteria", "replan", "recovery"}
Answers == [by : Workers, via : Stages]
NoAnswer == [by |-> NoWorker, via |-> "none"]
MaybeAnswer == Answers \union {NoAnswer}
MaybeWorker == Workers \union {NoWorker}
Samples == [by : Workers, via : Stages, ok : BOOLEAN, score : Nat]
CandIds == Workers \X Nodes
Pending == [kind |-> "pending", ans |-> NoAnswer, degraded |-> FALSE, partial |-> FALSE]
Unscored == -1
RecoveryScore == 7

(* A plan: the number of its layers, the layer of each node (0: in none),  *)
(* the dependencies, the critical nodes, and for each node the workers the *)
(* planner assigned and the first of them (assigned_worker).               *)
PlanType == [depth    : Nat,
             rank     : [Nodes -> Nat],
             deps     : [Nodes -> SUBSET Nodes],
             critical : SUBSET Nodes,
             picks    : [Nodes -> SUBSET MaybeWorker],
             lead     : [Nodes -> MaybeWorker]]

ASSUME PoolAssumption == Nodes # {} /\ Workers # {} /\ NoWorker \notin Workers
ASSUME ScoreAssumption == Scores \subseteq Nat
ASSUME PlanAssumption ==
  /\ Plans \subseteq PlanType
  /\ \A p \in Plans :
       /\ \A n \in Nodes : p.rank[n] <= p.depth
       /\ \A i \in 1..p.depth : \E n \in Nodes : p.rank[n] = i
       /\ \A n \in Nodes : p.lead[n] = NoWorker \/ p.lead[n] \in p.picks[n]
ASSUME KnobAssumption ==
  /\ {ReplanEnabled, Polish} \subseteq BOOLEAN
  /\ ReplanFloor \in Nat
  /\ {KCritical, MaxRecoveries, MaxAlternates} \subseteq Nat
  /\ KCritical >= 1

VARIABLES
  plan,      \* the plan being executed
  pc,        \* where the coroutine stands
  layer,     \* index of the current layer
  assigned,  \* assigned_workers of every node
  worker,    \* assigned_worker of every node
  selected,  \* selected_worker_id of every node
  result,    \* result of every node
  error,     \* nodes that carry an error
  samples,   \* samples of the nodes of the current layer
  unmet,     \* nodes whose result failed its success criteria
  answers,   \* candidate id -> answer, what the synthesizer may read
  score,     \* candidate id -> score of its winner entry in all_scores
  lowered,   \* candidate ids whose entry's reason says "criteria_fail"
  top,       \* candidate ids ranked for the synthesizer, before recovery
  replans,   \* replan_count
  calls,     \* <<node, worker>> calls of the current fan-out
  out,       \* those still out
  replied,   \* those that brought a usable answer
  todo,      \* nodes the recovery pass still has to re-attempt
  healing,   \* the node under recovery, if any
  tried,     \* workers tried for it
  final      \* the answer of the done event

control  == <<plan, pc, layer, replans>>
nodes    == <<assigned, worker, selected, result, error, samples, unmet>>
board    == <<answers, score, lowered>>
fanout   == <<calls, out, replied>>
recovery == <<todo, healing, tried>>
vars     == <<control, nodes, board, fanout, recovery, top, final>>

-----------------------------------------------------------------------------
(* Helpers *)

Layer == {n \in Nodes : plan.rank[n] = layer}

(* A node is produced when it has a result and carries no error.           *)
Produced(n) == result[n] # NoAnswer /\ n \notin error

(* Mutant: the plan's layers are taken as they are.                        *)
UnguardedPlan(p) == p

(* The guard before the first layer: nodes that no layer names become one  *)
(* more layer at the end; with no layers at all that is one flat layer.    *)
GuardedPlan(p) ==
  IF \A n \in Nodes : p.rank[n] # 0 THEN p
  ELSE [p EXCEPT !.depth = p.depth + 1,
                 !.rank = [n \in Nodes |-> IF p.rank[n] = 0 THEN p.depth + 1
                                           ELSE p.rank[n]]]

(* Unknown ids are dropped; a node left without a worker gets a pool one.  *)
Resolve(W, fallback) ==
  IF W \intersect Workers = {} THEN {fallback} ELSE W \intersect Workers

(* What assign_k may answer when asked for k workers out of W: the ranking *)
(* decides which, and the quality band may leave fewer than k.             *)
AssignK(k, W) == {S \in SUBSET W : S # {} /\ Cardinality(S) <= k}

(* fan_out_varied: one call per node and worker, all in flight together.   *)
FanOut(c) ==
  /\ calls' = c
  /\ out' = c
  /\ replied' = {}

CallsOf(N, picks) == {c \in N \X Workers : c[2] \in picks[c[1]]}

(* _select_k_sample_winner: the best score, or either of the best two when *)
(* they are within one point and the pairwise judge is asked.              *)
Winners(n, sc) ==
  LET C == {w \in Workers : <<n, w>> \in replied}
      Best(w) == \A v \in C : sc[<<n, v>>] <= sc[<<n, w>>]
      Second(w) == \E a \in C \ {w} :
                     /\ sc[<<n, w>>] <= sc[<<n, a>>]
                     /\ sc[<<n, a>>] <= sc[<<n, w>>] + 1
                     /\ \A v \in C \ {a} : sc[<<n, v>>] <= sc[<<n, w>>]
  IN IF C = {} THEN {NoWorker} ELSE {w \in C : Best(w) \/ Second(w)}

(* The nodes N take the answer of win[n]; the nodes F end without one.     *)
Settle(N, win, via, F) ==
  /\ result' = [n \in Nodes |->
                  IF n \in N THEN [by |-> win[n], via |-> via]
                  ELSE IF n \in F THEN NoAnswer ELSE result[n]]
  /\ error' = (error \ N) \union F
  /\ selected' = [n \in Nodes |-> IF n \in N THEN win[n]
                                  ELSE IF n \in F THEN NoWorker ELSE selected[n]]
  /\ worker' = [n \in Nodes |-> IF n \in N THEN win[n] ELSE worker[n]]

(* Mutant: an answer, once on the board, is never overwritten.             *)
PublishOnce(N, win, via) ==
  answers' = [c \in CandIds |-> IF c[2] \in N /\ c[1] = win[c[2]] /\ answers[c] = NoAnswer
                                THEN [by |-> c[1], via |-> via] ELSE answers[c]]

(* Mutant: every sample that came back is published, not the winner alone. *)
PublishSamples(N, win, via) ==
  answers' = [c \in CandIds |-> IF c[2] \in N /\ <<c[2], c[1]>> \in replied
                                THEN [by |-> c[1], via |-> via] ELSE answers[c]]

(* answers[_cand_id(st)] = st.result for the nodes N.                      *)
Publish(N, win, via) ==
  answers' = [c \in CandIds |-> IF c[2] \in N /\ c[1] = win[c[2]]
                                THEN [by |-> c[1], via |-> via] ELSE answers[c]]

(* The winner entries of the nodes N get the scores val[n]; the reasons of *)
(* those of F carry the words "criteria_fail", those of the others do not. *)
Enter(N, win, val, F) ==
  /\ score' = [c \in CandIds |-> IF c[2] \in N /\ c[1] = win[c[2]]
                                 THEN val[c[2]] ELSE score[c]]
  /\ lowered' = (lowered \ {<<win[n], n>> : n \in N}) \union {<<win[n], n>> : n \in F}

(* partial_success turns true when there are failed nodes F, and is not    *)
(* taken back before the recovery pass.                                    *)
NotePartial(F) == final' = [final EXCEPT !.partial = @ \/ F # {}]

SampleOf(c, via, sc) ==
  [by |-> c[2], via |-> via, ok |-> c \in replied,
   score |-> IF c \in replied THEN sc[c] ELSE 0]

(* Scoring the samples of the nodes N and picking each node's winner.      *)
ScoreAndPick(N, via) ==
  \E sc \in [replied -> Scores], win \in [N -> MaybeWorker] :
    LET W == {n \in N : win[n] # NoWorker}
    IN /\ \A n \in N : win[n] \in Winners(n, sc)
       /\ Settle(W, win, via, N \ W)
       /\ Publish(W, win, via)
       /\ Enter(W, win, [n \in W |-> sc[<<n, win[n]>>]], {})
       /\ NotePartial(N \ W)
       /\ samples' = [n \in Nodes |->
                        IF n \in N
                        THEN {SampleOf(c, via, sc) : c \in {d \in calls : d[1] = n}}
                        ELSE samples[n]]

(* Mutant: the replan takes the whole layer.                               *)
WholeLayer == Layer

(* bounded_replan_remaining's "failed nodes of the layer" and its targets. *)
FailedHere == {n \in Layer : ~Produced(n)}
LaterNodes == {n \in Nodes : plan.rank[n] > layer}

(* successful_layer_scores: the score of the first sample of a produced    *)
(* node that its selected worker gave.                                     *)
CountedSample(n) ==
  CHOOSE s \in samples[n] : s.by = selected[n] /\ s.ok /\ s.via # "criteria"

(* should_replan: the layer's mean is below the floor (no success is 0).   *)
ShouldReplan ==
  LET P == {n \in Layer : Produced(n)}
      total == MapThenSumSet(LAMBDA n : CountedSample(n).score, P)
  IN /\ ReplanEnabled
     /\ replans = 0
     /\ IF P = {} THEN 0 < ReplanFloor ELSE total < ReplanFloor * Cardinality(P)

-----------------------------------------------------------------------------
Init ==
  /\ plan \in Plans
  /\ pc = "guard"
  /\ layer = 1
  /\ assigned = plan.picks
  /\ worker = plan.lead
  /\ selected = [n \in Nodes |-> NoWorker]
  /\ result = [n \in Nodes |-> NoAnswer]
  /\ error = {}
  /\ samples = [n \in Nodes |-> {}]
  /\ unmet = {}
  /\ answers = [c \in CandIds |-> NoAnswer]
  /\ score = [c \in CandIds |-> Unscored]
  /\ lowered = {} /\ top = {}
  /\ replans = 0
  /\ calls = {} /\ out = {} /\ replied = {}
  /\ todo = {} /\ healing = NoNode /\ tried = {}
  /\ final = Pending

(* The layer guard, once, before the loop.                                 *)
Guard ==
  /\ pc = "guard"
  /\ plan' = GuardedPlan(plan)
  /\ pc' = "layer"
  /\ UNCHANGED <<layer, replans, nodes, board, fanout, recovery, top, final>>

(* dag_layer_start: workers are resolved, one call per sample goes out.    *)
BeginLayer ==
  /\ pc = "layer"
  /\ \E fallback \in [Layer -> Workers] :
       /\ assigned' = [n \in Nodes |-> IF n \in Layer THEN Resolve(assigned[n], fallback[n])
                                       ELSE assigned[n]]
       /\ \E lead \in [Layer -> Workers] :
            /\ \A n \in Layer : IF worker[n] \in assigned'[n] THEN lead[n] = worker[n]
                                ELSE lead[n] \in assigned'[n]
            /\ worker' = [n \in Nodes |-> IF n \in Layer THEN lead[n] ELSE worker[n]]
  /\ FanOut(CallsOf(Layer, assigned'))
  /\ pc' = "fan_out"
  /\ UNCHANGED <<plan, layer, replans, selected, result, error, samples, unmet,
                 board, recovery, top, final>>

(* One worker's call comes back: an answer, or an error, or a timeout.     *)
Reply(c, ok) ==
  /\ c \in out
  /\ out' = out \ {c}
  /\ replied' = IF ok THEN replied \union {c} ELSE replied
  /\ UNCHANGED <<control, nodes, board, calls, recovery, top, final>>

(* _score_layer, once the whole fan-out is back.                           *)
ScoreLayer ==
  /\ pc = "fan_out" /\ out = {}
  /\ ScoreAndPick(Layer, "layer")
  /\ FanOut({})
  /\ pc' = "reassign"
  /\ UNCHANGED <<plan, layer, replans, assigned, unmet, recovery, top>>

(* failed_ids: the workers whose samples of the node all failed.           *)
FailedOn(n) == {s.by : s \in samples[n]} \union {worker[n]}

(* reassign_subtask_workers: the failed workers are banned, unless that    *)
(* leaves nobody.                                                          *)
OpenTo(n) == IF Workers \subseteq FailedOn(n) THEN Workers ELSE Workers \ FailedOn(n)

(* A critical node without a result is re-assigned once, away from the     *)
(* workers that failed it; with no other worker in the pool the node is    *)
(* reset (reassign_subtask_workers) but no call goes out.                  *)
Reassign ==
  /\ pc = "reassign"
  /\ LET need == {n \in Layer : n \in plan.critical /\ result[n] = NoAnswer}
     IN \E pick \in [need -> Workers] :
          /\ \A n \in need : pick[n] \in OpenTo(n)
          /\ assigned' = [n \in Nodes |-> IF n \in need THEN {pick[n]} ELSE assigned[n]]
          /\ worker' = [n \in Nodes |-> IF n \in need THEN pick[n] ELSE worker[n]]
          /\ samples' = [n \in Nodes |-> IF n \in need THEN {} ELSE samples[n]]
          /\ error' = error \ need
          /\ FanOut({<<n, pick[n]>> : n \in {m \in need : pick[m] \notin FailedOn(m)}})
  /\ pc' = IF calls' = {} THEN "criteria" ELSE "reassign_out"
  /\ UNCHANGED <<plan, layer, replans, selected, result, unmet, board, recovery,
                 top, final>>

(* _score_reassign.                                                        *)
ScoreReassign ==
  /\ pc = "reassign_out" /\ out = {}
  /\ \E sc \in [replied -> Scores] :
       LET N == {c[1] : c \in calls}
           W == {c[1] : c \in replied}
           lead == [n \in W |-> sc[<<n, worker[n]>>]]
       IN /\ Settle(W, worker, "reassign", N \ W)
          /\ Publish(W, worker, "reassign")
          /\ Enter(W, worker, lead, {})
          /\ samples' = [n \in Nodes |->
                           IF n \in N THEN {SampleOf(<<n, worker[n]>>, "reassign", sc)}
                           ELSE samples[n]]
  /\ FanOut({})
  /\ pc' = "criteria"
  /\ UNCHANGED <<plan, layer, replans, assigned, unmet, recovery, top, final>>

(* The nodes the criteria gate looks at.                                   *)
Checked == {n \in Layer : result[n] # NoAnswer}

(* check_success_criteria on every result; a node that misses its criteria *)
(* is run once more on the worker that gave the result.                    *)
CheckCriteria ==
  /\ pc = "criteria"
  /\ \E bad \in SUBSET Checked :
       /\ unmet' = unmet \union bad
       /\ FanOut({<<n, selected[n]>> : n \in bad})
  /\ pc' = IF calls' = {} THEN "penalty" ELSE "criteria_out"
  /\ UNCHANGED <<plan, layer, replans, assigned, worker, selected, result, error,
                 samples, board, recovery, top, final>>

(* The score of a retried node's winner entry: the retry's own, halved if  *)
(* it misses the criteria again; a failed retry halves the old score.      *)
RetryScore(n, sc, again) ==
  IF n \in again THEN sc[<<n, selected[n]>>] \div 2
  ELSE IF <<n, selected[n]>> \in replied THEN sc[<<n, selected[n]>>]
  ELSE score[<<selected[n], n>>] \div 2

(* Mutant: the reason written after a failed retry lost the words.         *)
MarkedWhenAnswered(N, W, again) == again

(* The retried nodes N whose new entry says "criteria_fail": those that    *)
(* missed again, and those whose retry brought no answer.                  *)
Marked(N, W, again) == again \union (N \ W)

(* _score_retries: an answer replaces the node's result.                   *)
ScoreCriteria ==
  /\ pc = "criteria_out" /\ out = {}
  /\ \E sc \in [replied -> Scores] :
       LET N == {c[1] : c \in calls}
           W == {c[1] : c \in replied}
       IN \E again \in SUBSET W :
            /\ Settle(W, selected, "criteria", {})
            /\ Publish(W, selected, "criteria")
            /\ Enter(N, selected, [n \in N |-> RetryScore(n, sc, again)],
                     Marked(N, W, again))
            /\ unmet' = unmet \ (W \ again)
            /\ samples' = [n \in Nodes |->
                             IF n \in N
                             THEN samples[n] \union
                                    {SampleOf(<<n, selected[n]>>, "criteria", sc)}
                             ELSE samples[n]]
  /\ FanOut({})
  /\ pc' = "penalty"
  /\ UNCHANGED <<plan, layer, replans, assigned, recovery, top, final>>

(* The penalty loop: the entry of every node whose result misses its       *)
(* criteria is halved, unless its reason says that this has been done.     *)
Penalise ==
  /\ pc = "penalty"
  /\ LET due == {n \in Checked \intersect unmet :
                   /\ score[<<selected[n], n>>] # Unscored
                   /\ <<selected[n], n>> \notin lowered}
     IN Enter(due, selected, [n \in due |-> score[<<selected[n], n>>] \div 2], due)
  /\ pc' = "mean"
  /\ UNCHANGED <<plan, layer, replans, nodes, answers, fanout, recovery, top, final>>

(* bounded_replan_remaining: the nodes R are assigned anew and drop what   *)
(* they and the board hold of them.                                        *)
ReplanRemaining(R, new, lead) ==
  /\ assigned' = [n \in Nodes |-> IF n \in R THEN new[n] ELSE assigned[n]]
  /\ worker' = [n \in Nodes |-> IF n \in R THEN lead[n] ELSE worker[n]]
  /\ selected' = [n \in Nodes |-> IF n \in R THEN NoWorker ELSE selected[n]]
  /\ result' = [n \in Nodes |-> IF n \in R THEN NoAnswer ELSE result[n]]
  /\ error' = error \ R
  /\ samples' = [n \in Nodes |-> IF n \in R THEN {} ELSE samples[n]]
  /\ answers' = [c \in CandIds |-> IF c[2] \in R THEN NoAnswer ELSE answers[c]]

(* The layer's mean decides on a replan: at most one per run.  It takes    *)
(* the failed nodes of this layer and every node of the later ones, and    *)
(* runs the failed ones again now.                                         *)
MeanAndReplan ==
  /\ pc = "mean"
  /\ IF ~ShouldReplan
     THEN /\ pc' = "complete"
          /\ UNCHANGED <<replans, nodes, board, fanout>>
     ELSE LET R == FailedHere \union LaterNodes
              k(n) == IF n \in plan.critical THEN KCritical ELSE 1
          IN /\ replans' = 1
             /\ \E new \in [R -> AssignK(KCritical, Workers)], lead \in [R -> Workers] :
                  /\ \A n \in R : new[n] \in AssignK(k(n), Workers) /\ lead[n] \in new[n]
                  /\ ReplanRemaining(R, new, lead)
                  /\ FanOut(CallsOf(FailedHere, new))
             /\ pc' = IF FailedHere = {} THEN "complete" ELSE "replan_out"
             /\ UNCHANGED <<unmet, score, lowered>>
  /\ UNCHANGED <<plan, layer, recovery, top, final>>

(* _score_replan_retry: no criteria check and no re-assignment this time.  *)
ScoreReplan ==
  /\ pc = "replan_out" /\ out = {}
  /\ ScoreAndPick({c[1] : c \in calls}, "replan")
  /\ FanOut({})
  /\ pc' = "complete"
  /\ UNCHANGED <<plan, layer, replans, assigned, unmet, recovery, top>>

(* dag_layer_complete.  Samples are not read after their layer: the model  *)
(* drops them here.                                                        *)
CompleteLayer ==
  /\ pc = "complete"
  /\ samples' = [n \in Nodes |-> {}]
  /\ IF layer < plan.depth
     THEN pc' = "layer" /\ layer' = layer + 1
     ELSE pc' = "gather" /\ UNCHANGED layer
  /\ UNCHANGED <<plan, replans, assigned, worker, selected, result, error, unmet,
                 board, fanout, recovery, top, final>>

(* After the last layer the scored answers are ranked.  With no answer at  *)
(* all the run ends degraded; otherwise the failed nodes and those whose   *)
(* answer lacks its artifact go to the recovery pass, the first            *)
(* MaxRecoveries of them.                                                  *)
Gather ==
  /\ pc = "gather"
  /\ top' = {c \in CandIds : answers[c] # NoAnswer /\ score[c] # Unscored}
  /\ IF \A c \in CandIds : answers[c] = NoAnswer
     THEN /\ final' = [kind |-> "no_outputs", ans |-> NoAnswer,
                       degraded |-> TRUE, partial |-> TRUE]
          /\ pc' = "done"
          /\ UNCHANGED todo
     ELSE /\ \E thin \in SUBSET {n \in Nodes : Produced(n)} :
               LET hurt == thin \union {n \in Nodes : ~Produced(n)}
               IN \E T \in SUBSET hurt :
                    /\ Cardinality(T) = IF Cardinality(hurt) < MaxRecoveries
                                        THEN Cardinality(hurt) ELSE MaxRecoveries
                    /\ todo' = T
          /\ pc' = "recover"
          /\ NotePartial({n \in Nodes : result[n] = NoAnswer})
  /\ UNCHANGED <<plan, layer, replans, nodes, board, fanout, healing, tried>>

(* order_recovery_workers: anyone but the workers the node is banned from, *)
(* and anyone at all when that leaves nobody.                              *)
Alternates(n) ==
  IF Workers \subseteq {worker[n], selected[n]} THEN Workers
  ELSE Workers \ {worker[n], selected[n]}

(* Mutant: the node stays on the recovery list.                            *)
BeginRecoveryKept(n) ==
  /\ pc = "recover" /\ healing = NoNode
  /\ n \in todo
  /\ healing' = n
  /\ tried' = {}
  /\ UNCHANGED <<control, nodes, board, fanout, todo, top, final>>

(* The recovery pass takes up the next node on its list.                   *)
BeginRecovery(n) ==
  /\ pc = "recover" /\ healing = NoNode
  /\ n \in todo
  /\ healing' = n
  /\ todo' = todo \ {n}
  /\ tried' = {}
  /\ UNCHANGED <<control, nodes, board, fanout, top, final>>

(* One recovery call: an answer with its artifact settles the node, any    *)
(* other outcome moves on to the next alternate, MaxAlternates at most.    *)
RecoveryCall(w, good) ==
  /\ pc = "recover" /\ healing # NoNode
  /\ w \in Alternates(healing) \ tried
  /\ IF good
     THEN /\ Settle({healing}, [n \in {healing} |-> w], "recovery", {})
          /\ healing' = NoNode
          /\ tried' = {}
     ELSE /\ UNCHANGED <<result, error, selected, worker>>
          /\ IF Cardinality(tried) + 1 < MaxAlternates
                /\ Alternates(healing) \ (tried \union {w}) # {}
             THEN tried' = tried \union {w} /\ UNCHANGED healing
             ELSE tried' = {} /\ healing' = NoNode
  /\ UNCHANGED <<control, assigned, samples, unmet, board, fanout, todo, top, final>>

(* The nodes the recovery pass gave an answer.                             *)
Recovered == {n \in Nodes : result[n].via = "recovery"}

(* The recovered answers join the board, next to the ones they replace,    *)
(* with a score of their own where their candidate id has none.            *)
PublishRecovered ==
  /\ Publish(Recovered, worker, "recovery")
  /\ score' = [c \in CandIds |->
                  IF c[2] \in Recovered /\ c[1] = worker[c[2]] /\ score[c] = Unscored
                  THEN RecoveryScore ELSE score[c]]

(* Mutant: partial_success keeps its value from before the recovery pass.  *)
FinishRecoveryUnrevised ==
  /\ pc = "recover" /\ healing = NoNode /\ todo = {}
  /\ PublishRecovered
  /\ pc' = "synth"
  /\ UNCHANGED <<plan, layer, replans, nodes, lowered, fanout, recovery, top, final>>

(* Back in the stream: the answers are published and partial_success is    *)
(* computed anew.                                                          *)
FinishRecovery ==
  /\ pc = "recover" /\ healing = NoNode /\ todo = {}
  /\ PublishRecovered
  /\ final' = [final EXCEPT !.partial = \E n \in Nodes : ~Produced(n)]
  /\ pc' = "synth"
  /\ UNCHANGED <<plan, layer, replans, nodes, lowered, fanout, recovery, top>>

(* _best_sample: the best of the ranked answers, by the scores they were   *)
(* ranked with (an entry added since is not among them).                   *)
BestSamples == {c \in top : \A d \in top : score[d] <= score[c]}

(* An answer the stitched draft contains, since it is some node's result.  *)
Current(a) == \E n \in Nodes : Produced(n) /\ result[n] = a

(* synthesize_with_pool: the sectioned stitch of the step rows, polished   *)
(* by the engine model where that is asked for; an empty polish falls back *)
(* to the stitch, so no draft is ever empty.  A draft much shorter than a  *)
(* best sample of 7 gives way to it, which a stitch that quotes the sample *)
(* never is; one that reads as a synthesis error does so at any score.     *)
Synthesize ==
  /\ pc = "synth"
  /\ \/ final' = [final EXCEPT !.kind = "stitch"]
     \/ /\ Polish
        /\ final' = [final EXCEPT !.kind = "polish"]
     \/ \E c \in BestSamples :
          /\ \/ score[c] >= 7 /\ ~Current(answers[c])
             \/ Polish
          /\ final' = [final EXCEPT !.kind = "sample", !.ans = answers[c]]
  /\ pc' = "verify"
  /\ UNCHANGED <<plan, layer, replans, nodes, board, fanout, recovery, top>>

(* verify_and_refine: accepted (or the gate is down), accepted after one   *)
(* refinement, or rejected twice; then the best sample, if it scored 6.    *)
Verify ==
  /\ pc = "verify"
  /\ \/ UNCHANGED final
     \/ final' = [final EXCEPT !.kind = "refined", !.ans = NoAnswer]
     \/ \E c \in BestSamples :
          /\ score[c] >= 6
          /\ final' = [final EXCEPT !.kind = "sample", !.ans = answers[c]]
  /\ pc' = "done"
  /\ UNCHANGED <<plan, layer, replans, nodes, board, fanout, recovery, top>>

Finished == pc = "done" /\ UNCHANGED vars

Next ==
  \/ Guard
  \/ BeginLayer
  \/ \E c \in out, ok \in BOOLEAN : Reply(c, ok)
  \/ ScoreLayer
  \/ Reassign
  \/ ScoreReassign
  \/ CheckCriteria
  \/ ScoreCriteria
  \/ Penalise
  \/ MeanAndReplan
  \/ ScoreReplan
  \/ CompleteLayer
  \/ Gather
  \/ \E n \in todo : BeginRecovery(n)
  \/ \E w \in Workers, good \in BOOLEAN : RecoveryCall(w, good)
  \/ FinishRecovery
  \/ Synthesize
  \/ Verify
  \/ Finished

Spec == Init /\ [][Next]_vars

(* Every worker call ends (120 s timeout, bounded retries) and nothing     *)
(* else blocks, so a run that can take a step takes one.                   *)
FairSpec == Spec /\ WF_vars(Next)

-----------------------------------------------------------------------------
(***************************************************************************)
(* Properties                                                              *)
(***************************************************************************)
PCs == {"guard", "layer", "fan_out", "reassign", "reassign_out", "criteria",
        "criteria_out", "penalty", "mean", "replan_out", "complete", "gather", "recover",
        "synth", "verify", "done"}
Kinds == {"pending", "no_outputs", "stitch", "polish", "refined", "sample"}

(* Every variable has its type.                                            *)
TypeOK ==
  /\ plan \in PlanType
  /\ pc \in PCs
  /\ layer \in Nat \ {0}
  /\ assigned \in [Nodes -> SUBSET MaybeWorker]
  /\ worker \in [Nodes -> MaybeWorker]
  /\ selected \in [Nodes -> MaybeWorker]
  /\ result \in [Nodes -> MaybeAnswer]
  /\ error \subseteq Nodes
  /\ samples \in [Nodes -> SUBSET Samples]
  /\ unmet \subseteq Nodes
  /\ answers \in [CandIds -> MaybeAnswer]
  /\ score \in [CandIds -> Nat \union {Unscored}]
  /\ lowered \subseteq CandIds
  /\ top \subseteq CandIds
  /\ replans \in {0, 1}
  /\ calls \subseteq Nodes \X Workers
  /\ out \subseteq calls
  /\ replied \subseteq calls
  /\ todo \subseteq Nodes
  /\ healing \in Nodes \union {NoNode}
  /\ tried \subseteq Workers
  /\ final \in [kind : Kinds, ans : MaybeAnswer, degraded : BOOLEAN, partial : BOOLEAN]

(* The stages in which the board may hold more than the nodes' results.    *)
Recovering == {"recover", "synth", "verify", "done"}

(* What a node holds is what the synthesizer reads under the node's        *)
(* candidate id, whichever stage (first fan-out, re-assignment, criteria   *)
(* retry, replan) it came from: "answers[_cand_id(st)] = st.result" is     *)
(* written by hand at five places.  Only inside the recovery pass may the  *)
(* board lag behind.                                                       *)
ResultOnBoard ==
  \A n \in Nodes :
    result[n] # NoAnswer =>
      \/ answers[<<selected[n], n>>] = result[n]
      \/ pc = "recover" /\ result[n].via = "recovery"

(* Up to the recovery pass the board holds nothing else: no answer of an   *)
(* earlier attempt, of a loser or of a node since reset can reach the      *)
(* synthesizer or the best-sample fallback.                                *)
NoStrayAnswer ==
  pc \notin Recovering =>
    \A c \in CandIds : answers[c] # NoAnswer => result[c[2]] = answers[c]

(* The score a winner enters the ranking with is the verifier's score of   *)
(* the very answer it stands for, halved exactly once if that answer's     *)
(* node failed its criteria: never twice, and never after a good retry.    *)
PenaltyExact ==
  pc = "mean" =>
    \A n \in Layer : result[n] # NoAnswer =>
      IF n \notin unmet
      THEN \E s \in samples[n] : /\ s.by = result[n].by /\ s.via = result[n].via
                                 /\ score[<<selected[n], n>>] = s.score
      ELSE \E s \in samples[n] : /\ s.by = result[n].by /\ s.via = result[n].via
                                 /\ score[<<selected[n], n>>] = s.score \div 2

(* The done event tells the truth: degraded exactly when no node was       *)
(* produced, partial exactly when some node was not (after recovery may    *)
(* have repaired it, and whatever failed on the way).                      *)
HonestDone ==
  pc = "done" =>
    /\ final.degraded <=> \A n \in Nodes : ~Produced(n)
    /\ final.partial <=> \E n \in Nodes : ~Produced(n)

(* A result is only ever replaced by a later answer: no reset of the       *)
(* replan or of the re-assignment throws away what a node produced.        *)
ResultsSurvive ==
  [][\A n \in Nodes : result[n] # NoAnswer =>
       \/ result'[n] = result[n]
       \/ result'[n].via \in {"criteria", "recovery"}]_vars

(* The run ends, whatever the workers answer.                              *)
Termination == <>(pc = "done")

(* No node is dropped: a call goes out for every node, the ones the        *)
(* planner left unassigned and those of replanned layers included.         *)
EveryNodeRuns == \A n \in Nodes : <>(\E w \in Workers : <<n, w>> \in calls)
=============================================================================

----------------------------- MODULE RunStream -----------------------------
(***************************************************************************)
(* One POST /v1/run: the server's plan ladder, the Conductor's front door, *)
(* the Parallel pipeline it hands over to when engine models are missing,  *)
(* and the events each of them puts on the wire, one action per event.     *)
(*                                                                         *)
(* The engine models come and go while the run is under way: the probe at  *)
(* the Conductor's door and the one at Parallel's may answer differently.  *)
(* Inside a Conductor layer only the events count here: ConductorExec      *)
(* models the work behind them.                                            *)
(***************************************************************************)
EXTENDS Integers, Sequences, FiniteSets

CONSTANTS
  Workers,    \* the workers that may be connected
  NoWorker,   \* an event that is about no worker
  MaxLayers,  \* bound on the layers of a plan
  MaxJobs     \* bound on the samples of a layer, and on the recovered nodes

ASSUME BoundAssumption == MaxLayers \in Nat \ {0} /\ MaxJobs \in Nat \ {0}
ASSUME WorkerAssumption == NoWorker \notin Workers

Outcomes == {"pending", "answer", "empty", "error"}

VARIABLES
  pool,       \* settings.workers of this run
  pc,         \* where the generators stand
  skip,       \* skip_meta: Parallel was entered from the Conductor
  reason,     \* Parallel's local variable reason
  outcome,    \* what fan_out_stream brought from every pool worker
  layers,     \* layers of the plan still to run
  jobs,       \* steps of the current fan-out still to be reported
  got,        \* the Conductor's answers map is not empty
  replanned,  \* replan_count
  wire        \* the events sent so far

conductor == <<layers, jobs, got, replanned>>
parallel  == <<skip, reason, outcome>>
vars      == <<pool, pc, conductor, parallel, wire>>

Contract == INSTANCE RunProtocol

-----------------------------------------------------------------------------
(* Helpers *)

Event(k) == [kind |-> k, worker |-> NoWorker, degraded |-> FALSE, reason |-> "none"]
StepOf(w) == [Event("step") EXCEPT !.worker = w]
Done(degraded, why) == [Event("done") EXCEPT !.degraded = degraded, !.reason = why]

Emit(k) == wire' = Append(wire, Event(k))

Reported == {w \in pool : outcome[w] # "pending"}
Answered == {w \in pool : outcome[w] = "answer"}

-----------------------------------------------------------------------------
Init ==
  /\ pool \in SUBSET Workers
  /\ pc = "plan"
  /\ skip = FALSE
  /\ reason = "none"
  /\ outcome = [w \in Workers |-> "pending"]
  /\ layers = 0 /\ jobs = 0 /\ got = FALSE /\ replanned = FALSE
  /\ wire = <<>>

(* The ladder of planners ends in a plan, or in none at all.               *)
Plan ==
  /\ pc = "plan"
  /\ \/ pc' = "conductor" /\ layers' \in 1..MaxLayers
     \/ pc' = "parallel" /\ UNCHANGED layers
  /\ UNCHANGED <<pool, jobs, got, replanned, parallel, wire>>

(* The Conductor probes coordinator and verifier (ok: Ollama has them),    *)
(* then sends its one meta.                                                *)
ConductorMeta(ok) ==
  /\ pc = "conductor"
  /\ LET why == IF pool = {} THEN "no_workers"
                ELSE IF ok THEN "none" ELSE "engine_unavailable"
     IN /\ wire' = Append(wire, [Event("meta") EXCEPT !.degraded = why # "none",
                                                      !.reason = why])
        /\ pc' = CASE why = "no_workers" -> "c_empty"
                   [] why = "none" -> "c_plan"
                   [] OTHER -> "parallel"
        /\ skip' = (why = "engine_unavailable")
        /\ reason' = IF skip' THEN why ELSE "none"
  /\ UNCHANGED <<pool, conductor, outcome>>

NoWorkersDone ==
  /\ pc = "c_empty"
  /\ wire' = Append(wire, Done(TRUE, "no_workers"))
  /\ pc' = "closed"
  /\ UNCHANGED <<pool, conductor, parallel>>

ConductorPlan ==
  /\ pc = "c_plan"
  /\ Emit("conductor_plan")
  /\ pc' = "c_fan"
  /\ UNCHANGED <<pool, conductor, parallel>>

ConductorFanOut ==
  /\ pc = "c_fan"
  /\ Emit("fan_out")
  /\ pc' = "c_layer"
  /\ UNCHANGED <<pool, conductor, parallel>>

(* dag_layer_start; every layer has a sample to report.                    *)
StartLayer ==
  /\ pc = "c_layer"
  /\ Emit("dag_layer_start")
  /\ jobs' \in 1..MaxJobs
  /\ pc' = "c_steps"
  /\ UNCHANGED <<pool, layers, got, replanned, parallel>>

(* One step per sample, once the whole fan-out is back.  Whose sample it   *)
(* is does not matter here.                                                *)
LayerStep ==
  /\ pc = "c_steps"
  /\ Emit("step")
  /\ jobs' = jobs - 1
  /\ pc' = IF jobs' = 0 THEN "c_scores" ELSE pc
  /\ UNCHANGED <<pool, layers, got, replanned, parallel>>

(* Scoring, re-assignment and criteria retries, then one scores event.     *)
LayerScores ==
  /\ pc = "c_scores"
  /\ Emit("scores")
  /\ got' \in {got, TRUE}
  /\ pc' = "c_picks"
  /\ UNCHANGED <<pool, layers, jobs, replanned, parallel>>

(* One k_sample_pick stands for those of all k-sampled nodes.              *)
KSamplePick ==
  /\ pc = "c_picks"
  /\ Emit("k_sample_pick")
  /\ pc' = "c_mean"
  /\ UNCHANGED <<pool, conductor, parallel>>

(* The replan may have no failed node of this layer to run again.          *)
Replan ==
  /\ pc \in {"c_picks", "c_mean"}
  /\ ~replanned
  /\ Emit("replan")
  /\ replanned' = TRUE
  /\ jobs' \in 0..MaxJobs
  /\ pc' = IF jobs' = 0 THEN "c_mean" ELSE "c_steps"
  /\ UNCHANGED <<pool, layers, got, parallel>>

CompleteLayer ==
  /\ pc \in {"c_picks", "c_mean"}
  /\ Emit("dag_layer_complete")
  /\ layers' = layers - 1
  /\ IF layers' > 0 THEN pc' = "c_layer" /\ UNCHANGED jobs
                    ELSE pc' = "c_gather" /\ jobs' \in 0..MaxJobs
  /\ UNCHANGED <<pool, got, replanned, parallel>>

(* "If nothing scored (all workers failed), surface a clear error."        *)
NoOutputsDone ==
  /\ pc = "c_gather" /\ ~got
  /\ wire' = Append(wire, Done(TRUE, "none"))
  /\ pc' = "closed"
  /\ UNCHANGED <<pool, conductor, parallel>>

(* A node the recovery pass repaired is reported like a sample.            *)
RecoveryStep ==
  /\ pc = "c_gather" /\ got
  /\ jobs > 0
  /\ Emit("step")
  /\ jobs' = jobs - 1
  /\ UNCHANGED <<pool, pc, layers, got, replanned, parallel>>

ConductorSynthesis ==
  /\ pc = "c_gather" /\ got
  /\ jobs = 0
  /\ Emit("synthesis")
  /\ pc' = "merged"
  /\ UNCHANGED <<pool, conductor, parallel>>

-----------------------------------------------------------------------------
(* Parallel *)

(* Mutant: skip_meta is not looked at.                                     *)
ParallelMetaAgain(ok) ==
  /\ pc = "parallel"
  /\ LET why == IF reason = "none" /\ ~ok THEN "engine_unavailable" ELSE reason
     IN /\ reason' = why
        /\ wire' = Append(wire, [Event("meta") EXCEPT !.degraded = why # "none",
                                                      !.reason = why])
        /\ pc' = IF pool = {} THEN "p_empty" ELSE IF ok THEN "p_fan" ELSE "p_fan_offline"
  /\ UNCHANGED <<pool, conductor, skip, outcome>>

(* Parallel probes every role and sends a meta of its own unless told not  *)
(* to.  A reason it was handed stays, even when the probe now succeeds.    *)
ParallelMeta(ok) ==
  /\ pc = "parallel"
  /\ LET why == IF reason = "none" /\ ~ok THEN "engine_unavailable" ELSE reason
     IN /\ reason' = why
        /\ wire' = IF skip THEN wire
                   ELSE Append(wire, [Event("meta") EXCEPT !.degraded = why # "none",
                                                           !.reason = why])
        /\ pc' = IF pool = {} THEN "p_empty" ELSE IF ok THEN "p_fan" ELSE "p_fan_offline"
  /\ UNCHANGED <<pool, conductor, skip, outcome>>

ParallelEmptyDone ==
  /\ pc = "p_empty"
  /\ wire' = Append(wire, Done(TRUE, "none"))
  /\ pc' = "closed"
  /\ UNCHANGED <<pool, conductor, parallel>>

ParallelFanOut ==
  /\ pc \in {"p_fan", "p_fan_offline"}
  /\ Emit("fan_out")
  /\ pc' = IF pc = "p_fan" THEN "p_calls" ELSE "p_calls_offline"
  /\ UNCHANGED <<pool, conductor, parallel>>

(* fan_out_stream: whoever finishes next is reported next; a failure is    *)
(* that worker's own.                                                      *)
WorkerStep(w) ==
  /\ pc \in {"p_calls", "p_calls_offline"}
  /\ w \in pool \ Reported
  /\ outcome' \in {[outcome EXCEPT ![w] = o] : o \in Outcomes \ {"pending"}}
  /\ wire' = Append(wire, StepOf(w))
  /\ UNCHANGED <<pool, pc, conductor, skip, reason>>

(* Offline: the longest answer is picked without scoring.  The loop over   *)
(* the candidates assigns the local variable reason for each of them, so   *)
(* the last one to finish leaves its own there.                            *)
OfflineScores ==
  /\ pc = "p_calls_offline" /\ Reported = pool
  /\ Emit("scores")
  /\ \E last \in pool, best \in pool :
       /\ wire[Len(wire)].worker = last
       /\ Answered # {} => best \in Answered
       /\ reason' = IF best = last /\ last \in Answered THEN "fallback_pick"
                    ELSE IF outcome[last] = "error" THEN "worker_failed"
                    ELSE "engine_offline"
  /\ pc' = "p_offline_done"
  /\ UNCHANGED <<pool, conductor, skip, outcome>>

OfflineDone ==
  /\ pc = "p_offline_done"
  /\ wire' = Append(wire, Done(TRUE, reason))
  /\ pc' = "closed"
  /\ UNCHANGED <<pool, conductor, parallel>>

(* Mutant: the branch returns without its done event.                      *)
AllFailedReturn ==
  /\ pc = "p_calls" /\ Reported = pool
  /\ Answered = {}
  /\ pc' = "closed"
  /\ UNCHANGED <<pool, conductor, parallel, wire>>

(* Every worker failed: done without judging.                              *)
AllFailedDone ==
  /\ pc = "p_calls" /\ Reported = pool
  /\ Answered = {}
  /\ wire' = Append(wire, Done(TRUE, "none"))
  /\ pc' = "closed"
  /\ UNCHANGED <<pool, conductor, parallel>>

(* Mutant: judging starts with the first answer.                           *)
JudgeEarly ==
  /\ pc = "p_calls"
  /\ Answered # {}
  /\ Emit("scores")
  /\ pc' = "p_judged"
  /\ UNCHANGED <<pool, conductor, parallel>>

(* Mutant: failed workers are judged like the others.                      *)
JudgeFailed ==
  /\ pc = "p_calls" /\ Reported = pool
  /\ Emit("scores")
  /\ pc' = "p_judged"
  /\ UNCHANGED <<pool, conductor, parallel>>

Judge ==
  /\ pc = "p_calls" /\ Reported = pool
  /\ Answered # {}
  /\ Emit("scores")
  /\ pc' = "p_judged"
  /\ UNCHANGED <<pool, conductor, parallel>>

(* Only when there was a pairwise verdict.                                 *)
SynthesisPrep ==
  /\ pc = "p_judged"
  /\ Emit("synthesis_prep")
  /\ pc' = "p_merge"
  /\ UNCHANGED <<pool, conductor, parallel>>

ParallelSynthesis ==
  /\ pc \in {"p_judged", "p_merge"}
  /\ Emit("synthesis")
  /\ pc' = "merged"
  /\ UNCHANGED <<pool, conductor, parallel>>

(* The done event of both healthy paths.                                   *)
MergedDone ==
  /\ pc = "merged"
  /\ wire' = Append(wire, Done(FALSE, "none"))
  /\ pc' = "closed"
  /\ UNCHANGED <<pool, conductor, parallel>>

-----------------------------------------------------------------------------
(* Anything raised before the end becomes the error event.                 *)
Crash ==
  /\ pc \notin {"closed", "gone"}
  /\ Emit("error")
  /\ pc' = "closed"
  /\ UNCHANGED <<pool, conductor, parallel>>

(* The client goes away: the generators are cancelled where they stand.    *)
Disconnect ==
  /\ pc \notin {"closed", "gone"}
  /\ pc' = "gone"
  /\ UNCHANGED <<pool, conductor, parallel, wire>>

Ended == pc \in {"closed", "gone"} /\ UNCHANGED vars

Run ==
  \/ Plan
  \/ \E ok \in BOOLEAN : ConductorMeta(ok) \/ ParallelMeta(ok)
  \/ NoWorkersDone \/ ConductorPlan \/ ConductorFanOut
  \/ StartLayer \/ LayerStep \/ LayerScores \/ KSamplePick \/ Replan
  \/ CompleteLayer \/ NoOutputsDone \/ RecoveryStep \/ ConductorSynthesis
  \/ ParallelEmptyDone \/ ParallelFanOut
  \/ \E w \in Workers : WorkerStep(w)
  \/ OfflineScores \/ OfflineDone \/ AllFailedDone \/ Judge \/ SynthesisPrep
  \/ ParallelSynthesis \/ MergedDone

Next == Run \/ Crash \/ Disconnect \/ Ended

Spec == Init /\ [][Next]_vars

(* Probes, planner calls and worker calls all carry a timeout, so a run    *)
(* never stays where it is.                                                *)
FairSpec == Spec /\ WF_vars(Run)

-----------------------------------------------------------------------------
(***************************************************************************)
(* Properties                                                              *)
(***************************************************************************)
PCs == {"plan", "conductor", "c_empty", "c_plan", "c_fan", "c_layer", "c_steps",
        "c_scores", "c_picks", "c_mean", "c_gather", "merged", "parallel",
        "p_empty", "p_fan", "p_fan_offline", "p_calls", "p_calls_offline",
        "p_offline_done", "p_judged", "p_merge", "closed", "gone"}

(* Every variable has its type.                                            *)
TypeOK ==
  /\ pool \subseteq Workers
  /\ pc \in PCs
  /\ skip \in BOOLEAN
  /\ reason \in Contract!Reasons
  /\ outcome \in [Workers -> Outcomes]
  /\ layers \in 0..MaxLayers
  /\ jobs \in 0..MaxJobs
  /\ got \in BOOLEAN
  /\ replanned \in BOOLEAN
  /\ wire \in Seq(Contract!Event)

(* The stream is what its client was promised, whichever of the two        *)
(* pipelines produced it, across the handoff from one to the other, the    *)
(* engine changes between their probes, and errors.                        *)
KeepsContract == Contract!Spec

(* Parallel scores and merges only once every connected worker has been    *)
(* reported, each exactly once, in whatever order they finished.           *)
StepsOf(w) == {i \in 1..Len(wire) : wire[i] = StepOf(w)}
EveryoneReported ==
  ~Contract!Sent("conductor_plan") =>
    \A w \in pool :
      /\ Cardinality(StepsOf(w)) <= 1
      /\ Contract!Sent("scores") => Cardinality(StepsOf(w)) = 1

(* A run that ends with an undegraded answer had an answer to give.        *)
AnswerHasSource ==
  \A i \in 1..Len(wire) :
    wire[i].kind = "done" /\ ~wire[i].degraded => got \/ Answered # {}

(* The stream reaches its done or error event, unless its client left.     *)
Closes == <>(Contract!Closed \/ pc = "gone")
=============================================================================

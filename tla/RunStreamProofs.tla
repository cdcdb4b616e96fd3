-------------------------- MODULE RunStreamProofs --------------------------
(***************************************************************************)
(* Proofs about RunStream, for any set of workers and any bounds: type     *)
(* correctness, that every stream keeps the contract of RunProtocol, that  *)
(* everyone is reported once, and that an answer comes from somewhere.     *)
(*                                                                         *)
(* The invariant says what is on the wire when the generators stand at a   *)
(* given place.                                                            *)
(***************************************************************************)
EXTENDS RunStream, SequenceTheorems, FiniteSetTheorems, TLAPS

Sent(k) == Contract!Sent(k)

Before  == {"plan", "conductor"}
Door    == {"c_empty", "c_plan", "c_fan"}
Layers  == {"c_layer", "c_steps", "c_scores", "c_picks", "c_mean"}
Calls   == {"p_calls", "p_calls_offline"}
Stopped == {"closed", "gone"}
Offline == {"c_empty", "p_fan_offline", "p_calls_offline", "p_offline_done"}

(* Up to the first probe nothing was sent; Parallel starts either with an  *)
(* empty wire or after the one degraded meta of the Conductor.             *)
Opening ==
  /\ pc \in Before => wire = <<>> /\ ~skip /\ reason = "none"
  /\ pc = "parallel" /\ ~skip => wire = <<>> /\ reason = "none"
  /\ pc = "parallel" /\ skip => reason = "engine_unavailable"
  /\ pc \in {"c_plan"} \/ (pc = "parallel" /\ skip) => Len(wire) = 1

(* While a run is under way its wire is open.                              *)
Open ==
  /\ pc \notin Stopped => ~Sent("done") /\ ~Sent("error")
  /\ pc \notin Stopped \union Before \union {"parallel"} => wire # <<>>
  /\ pc = "parallel" /\ skip => wire # <<>>
  /\ pc \notin Stopped \union {"merged"} => ~Sent("synthesis")

(* What must already have been sent.                                       *)
Progress ==
  /\ pc \in {"c_plan", "c_fan", "parallel", "p_fan", "p_fan_offline"} => ~Sent("fan_out")
  /\ pc \in Layers \union {"c_gather"} => Sent("fan_out") /\ Sent("conductor_plan")
  /\ pc \in Calls => Sent("fan_out")
  /\ pc = "c_fan" => Sent("conductor_plan")
  /\ pc \in {"c_scores", "c_picks", "c_mean"} => Sent("step")
  /\ pc \in {"c_picks", "c_mean", "c_gather", "p_judged", "p_merge"} => Sent("scores")
  /\ pc = "merged" => Sent("synthesis")
  /\ pc \in Calls /\ Reported # {} => Sent("step")
  /\ pc \in {"p_fan", "p_fan_offline"} \union Calls => pool # {}
  /\ pc \in Before \union {"parallel", "p_fan", "p_fan_offline"} => Reported = {}

(* Layers are open exactly while one is being run, and no run that was     *)
(* announced as healthy is on an offline branch.                           *)
Places ==
  /\ pc \in Layers \ {"c_layer"} => Contract!InLayer
  /\ pc \notin Layers \union Stopped => ~Contract!InLayer
  /\ pc = "c_layer" => ~Contract!InLayer
  /\ pc \in Offline \/ (pc = "parallel" /\ skip) =>
       wire # <<>> /\ wire[1].kind = "meta" /\ wire[1].degraded

(* The counters.                                                           *)
Counters ==
  /\ pc = "c_steps" => jobs > 0
  /\ pc \in {"conductor"} \union Door \union Layers => layers > 0

IInv == TypeOK /\ Opening /\ Open /\ Progress /\ Places /\ Counters

-----------------------------------------------------------------------------
(* What sending one event changes.                                         *)
LEMMA Appended ==
  ASSUME wire \in Seq(Contract!Event), NEW e \in Contract!Event, wire' = Append(wire, e)
  PROVE  /\ wire' \in Seq(Contract!Event)
         /\ wire' # <<>> /\ Len(wire') = Len(wire) + 1
         /\ wire # <<>> => wire'[1] = wire[1]
         /\ wire = <<>> => wire'[1] = e
         /\ \A k \in Contract!Kinds : Sent(k)' <=> Sent(k) \/ e.kind = k
         /\ e.kind = "dag_layer_start" => Contract!InLayer'
         /\ e.kind = "dag_layer_complete" => ~Contract!InLayer'
         /\ e.kind \notin {"dag_layer_start", "dag_layer_complete"} =>
              (Contract!InLayer' <=> Contract!InLayer)
<1>1. /\ wire' \in Seq(Contract!Event)
      /\ Len(wire') = Len(wire) + 1
      /\ Len(wire) \in Nat
      /\ wire'[Len(wire) + 1] = e
      /\ \A i \in 1..Len(wire) : wire'[i] = wire[i]
  OBVIOUS
<1>2. /\ wire' # <<>>
      /\ wire # <<>> => wire'[1] = wire[1]
      /\ wire = <<>> => wire'[1] = e
  <2>1. wire # <<>> => 1 \in 1..Len(wire)
    BY EmptySeq, <1>1
  <2> QED
    BY <1>1, <2>1
<1>3. \A k \in Contract!Kinds : Sent(k)' <=> Sent(k) \/ e.kind = k
  BY <1>1 DEF Sent, Contract!Sent
<1>4. e.kind = "dag_layer_start" => Contract!InLayer'
  BY <1>1 DEF Contract!InLayer
<1>5. e.kind = "dag_layer_complete" => ~Contract!InLayer'
  BY <1>1 DEF Contract!InLayer
<1>6. e.kind \notin {"dag_layer_start", "dag_layer_complete"} =>
        (Contract!InLayer' <=> Contract!InLayer)
  BY <1>1 DEF Contract!InLayer
<1> QED
  BY <1>1, <1>2, <1>3, <1>4, <1>5, <1>6

LEMMA EventTypes ==
  /\ \A k \in Contract!Kinds : Event(k) \in Contract!Event /\ Event(k).kind = k
                                /\ Event(k).reason = "none" /\ ~Event(k).degraded
  /\ \A w \in Workers : StepOf(w) \in Contract!Event /\ StepOf(w).kind = "step"
  /\ \A d \in BOOLEAN, r \in Contract!Reasons :
       /\ Done(d, r) \in Contract!Event /\ Done(d, r).kind = "done"
       /\ Done(d, r).degraded = d /\ Done(d, r).reason = r
BY DEF Event, StepOf, Done, Contract!Event, Contract!Kinds, Contract!Reasons

(* Sending an event that carries nothing but its kind.                     *)
LEMMA Emitted ==
  ASSUME wire \in Seq(Contract!Event), NEW k \in Contract!Kinds, Emit(k)
  PROVE  /\ wire' \in Seq(Contract!Event)
         /\ wire' # <<>> /\ Len(wire') = Len(wire) + 1
         /\ wire # <<>> => wire'[1] = wire[1]
         /\ \A j \in Contract!Kinds : Sent(j)' <=> Sent(j) \/ k = j
         /\ k = "dag_layer_start" => Contract!InLayer'
         /\ k = "dag_layer_complete" => ~Contract!InLayer'
         /\ k \notin {"dag_layer_start", "dag_layer_complete"} =>
              (Contract!InLayer' <=> Contract!InLayer)
<1> DEFINE e == Event(k)
<1>1. e \in Contract!Event /\ e.kind = k
  BY EventTypes
<1>2. wire' = Append(wire, e)
  BY DEF Emit
<1> HIDE DEF e
<1> QED
  BY <1>1, <1>2, Appended

(* Sending a done event.                                                   *)
LEMMA Closing ==
  ASSUME wire \in Seq(Contract!Event), NEW d \in BOOLEAN, NEW r \in Contract!Reasons,
         wire' = Append(wire, Done(d, r))
  PROVE  /\ wire' \in Seq(Contract!Event)
         /\ wire' # <<>> /\ Len(wire') = Len(wire) + 1
         /\ wire # <<>> => wire'[1] = wire[1]
         /\ Contract!InLayer' <=> Contract!InLayer
<1> DEFINE e == Done(d, r)
<1>1. e \in Contract!Event /\ e.kind = "done"
  BY EventTypes
<1>2. wire' = Append(wire, e)
  OBVIOUS
<1> HIDE DEF e
<1> QED
  BY <1>1, <1>2, Appended

(* Reporting a worker.                                                     *)
LEMMA Reporting ==
  ASSUME wire \in Seq(Contract!Event), NEW w \in Workers, wire' = Append(wire, StepOf(w))
  PROVE  /\ wire' \in Seq(Contract!Event)
         /\ wire' # <<>> /\ Len(wire') = Len(wire) + 1
         /\ wire # <<>> => wire'[1] = wire[1]
         /\ \A k \in Contract!Kinds : Sent(k)' <=> Sent(k) \/ k = "step"
         /\ Contract!InLayer' <=> Contract!InLayer
<1> DEFINE e == StepOf(w)
<1>1. e \in Contract!Event /\ e.kind = "step"
  BY EventTypes
<1>2. wire' = Append(wire, e)
  OBVIOUS
<1> HIDE DEF e
<1> QED
  BY <1>1, <1>2, Appended

(* A meta event on a silent wire.                                          *)
Meta(why) == [Event("meta") EXCEPT !.degraded = why # "none", !.reason = why]

LEMMA Announcing ==
  ASSUME wire = <<>>, NEW why \in Contract!Reasons, wire' = Append(wire, Meta(why))
  PROVE  /\ wire' \in Seq(Contract!Event)
         /\ wire' # <<>> /\ Len(wire') = 1
         /\ wire'[1] \in Contract!Event
         /\ wire'[1].kind = "meta" /\ wire'[1].reason = why
         /\ wire'[1].degraded <=> why # "none"
         /\ \A k \in Contract!Kinds : Sent(k)' <=> k = "meta"
         /\ ~Contract!InLayer'
<1> DEFINE e == Meta(why)
<1>1. e \in Contract!Event /\ e.kind = "meta" /\ e.reason = why /\ (e.degraded <=> why # "none")
  BY DEF Meta, Event, Contract!Event, Contract!Kinds
<1>2. wire' = Append(wire, e)
  OBVIOUS
<1>3. wire \in Seq(Contract!Event) /\ Len(wire) = 0
  OBVIOUS
<1>4. ~Contract!InLayer /\ \A k : ~Sent(k)
  BY <1>3 DEF Contract!InLayer, Sent, Contract!Sent
<1> HIDE DEF e
<1> QED
  BY <1>1, <1>2, <1>3, <1>4, Appended

-----------------------------------------------------------------------------
THEOREM Initially == Init => IInv
<1> SUFFICES ASSUME Init PROVE IInv
  OBVIOUS
<1>1. wire = <<>> /\ Len(wire) = 0 /\ wire \in Seq(Contract!Event)
  BY DEF Init
<1>2. ~Contract!InLayer /\ \A k : ~Sent(k)
  BY <1>1 DEF Contract!InLayer, Sent, Contract!Sent
<1>3. TypeOK
  <2>1. outcome \in [Workers -> Outcomes] /\ pool \subseteq Workers
    BY DEF Init, Outcomes
  <2>2. layers \in 0..MaxLayers /\ jobs \in 0..MaxJobs
    BY BoundAssumption DEF Init
  <2>3. pc \in PCs /\ reason \in Contract!Reasons
    BY DEF Init, PCs, Contract!Reasons
  <2>4. skip \in BOOLEAN /\ got \in BOOLEAN /\ replanned \in BOOLEAN
    BY DEF Init
  <2> QED
    BY <1>1, <2>1, <2>2, <2>3, <2>4 DEF TypeOK
<1> QED
  BY <1>1, <1>2, <1>3 DEF Init, IInv, Opening, Open, Progress, Places, Counters, Before,
     Door, Layers, Calls, Stopped, Offline, Reported
(* Every step keeps the invariant.                                         *)
THEOREM Inductive == IInv /\ [Next]_vars => IInv'
<1> SUFFICES ASSUME IInv, [Next]_vars PROVE IInv'
  OBVIOUS
<1> wire \in Seq(Contract!Event)
  BY DEF IInv, TypeOK
<1> USE BoundAssumption
<1> USE DEF IInv, TypeOK, Opening, Open, Progress, Places, Counters, PCs, Before, Door,
            Layers, Calls, Stopped, Offline, conductor, parallel, Outcomes, Reported,
            Answered, Contract!Reasons, Contract!Kinds
<1>1. CASE ConductorPlan
  BY <1>1, Emitted DEF ConductorPlan
<1>2. CASE ConductorFanOut
  BY <1>2, Emitted DEF ConductorFanOut
<1>3. CASE StartLayer
  BY <1>3, Emitted DEF StartLayer
<1>4. CASE LayerStep
  BY <1>4, Emitted DEF LayerStep
<1>5. CASE LayerScores
  BY <1>5, Emitted DEF LayerScores
<1>6. CASE KSamplePick
  BY <1>6, Emitted DEF KSamplePick
<1>7. CASE Replan
  BY <1>7, Emitted DEF Replan
<1>8. CASE CompleteLayer
  <2>1. /\ wire' \in Seq(Contract!Event) /\ wire' # <<>> /\ ~Contract!InLayer'
        /\ wire[1] = wire'[1]
        /\ \A k \in Contract!Kinds : Sent(k)' <=> Sent(k) \/ k = "dag_layer_complete"
    BY <1>8, Emitted DEF CompleteLayer
  <2>2. /\ pc \in {"c_picks", "c_mean"} /\ layers' = layers - 1
        /\ UNCHANGED <<pool, got, replanned, skip, reason, outcome>>
    BY <1>8 DEF CompleteLayer
  <2>3. CASE layers' > 0
    BY <1>8, <2>1, <2>2, <2>3 DEF CompleteLayer
  <2>4. CASE ~(layers' > 0)
    BY <1>8, <2>1, <2>2, <2>4 DEF CompleteLayer
  <2> QED
    BY <2>3, <2>4
<1>9. CASE RecoveryStep
  BY <1>9, Emitted DEF RecoveryStep
<1>10. CASE ConductorSynthesis
  BY <1>10, Emitted DEF ConductorSynthesis
<1>11. CASE ParallelFanOut
  BY <1>11, Emitted DEF ParallelFanOut
<1>12. CASE OfflineScores
  BY <1>12, Emitted DEF OfflineScores
<1>13. CASE Judge
  BY <1>13, Emitted DEF Judge
<1>14. CASE SynthesisPrep
  BY <1>14, Emitted DEF SynthesisPrep
<1>15. CASE ParallelSynthesis
  BY <1>15, Emitted DEF ParallelSynthesis
<1>16. CASE Crash
  BY <1>16, Emitted DEF Crash
<1>17. CASE NoWorkersDone
  BY <1>17, Closing DEF NoWorkersDone
<1>18. CASE NoOutputsDone
  BY <1>18, Closing DEF NoOutputsDone
<1>19. CASE ParallelEmptyDone
  BY <1>19, Closing DEF ParallelEmptyDone
<1>20. CASE OfflineDone
  BY <1>20, Closing DEF OfflineDone
<1>21. CASE AllFailedDone
  BY <1>21, Closing DEF AllFailedDone
<1>22. CASE MergedDone
  BY <1>22, Closing DEF MergedDone
<1>23. CASE Plan
  BY <1>23 DEF Plan, Sent, Contract!Sent, Contract!InLayer
<1>24. CASE Disconnect
  BY <1>24 DEF Disconnect
<1>25. CASE UNCHANGED vars
  BY <1>25 DEF vars, Sent, Contract!Sent, Contract!InLayer
<1>26. ASSUME NEW ok \in BOOLEAN, ConductorMeta(ok) PROVE IInv'
  <2>1. PICK why \in Contract!Reasons :
          /\ why = IF pool = {} THEN "no_workers"
                   ELSE IF ok THEN "none" ELSE "engine_unavailable"
          /\ wire' = Append(wire, Meta(why))
          /\ pc' = CASE why = "no_workers" -> "c_empty"
                     [] why = "none" -> "c_plan"
                     [] OTHER -> "parallel"
          /\ skip' = (why = "engine_unavailable")
          /\ reason' = IF skip' THEN why ELSE "none"
    <3> DEFINE y == IF pool = {} THEN "no_workers"
                    ELSE IF ok THEN "none" ELSE "engine_unavailable"
    <3>1. y \in Contract!Reasons
      BY DEF Contract!Reasons
    <3>2. /\ wire' = Append(wire, Meta(y))
          /\ pc' = CASE y = "no_workers" -> "c_empty"
                     [] y = "none" -> "c_plan"
                     [] OTHER -> "parallel"
          /\ skip' = (y = "engine_unavailable")
          /\ reason' = IF skip' THEN y ELSE "none"
      BY <1>26 DEF ConductorMeta, Meta
    <3>3. y = IF pool = {} THEN "no_workers"
              ELSE IF ok THEN "none" ELSE "engine_unavailable"
      OBVIOUS
    <3> HIDE DEF y
    <3> QED  BY <3>1, <3>2, <3>3
  <2>2. wire = <<>> /\ pc = "conductor" /\ layers > 0
        /\ UNCHANGED <<pool, outcome, layers, jobs, got, replanned>>
    BY <1>26 DEF ConductorMeta
  <2>3. /\ wire' \in Seq(Contract!Event) /\ wire' # <<>> /\ Len(wire') = 1
        /\ wire'[1].kind = "meta" /\ (wire'[1].degraded <=> why # "none")
        /\ \A k \in Contract!Kinds : Sent(k)' <=> k = "meta"
        /\ ~Contract!InLayer'
    BY <2>1, <2>2, Announcing
  <2>4. CASE why = "no_workers"
    BY <2>1, <2>2, <2>3, <2>4
  <2>5. CASE why = "none"
    BY <2>1, <2>2, <2>3, <2>5
  <2>6. CASE why = "engine_unavailable"
    BY <2>1, <2>2, <2>3, <2>6
  <2> QED
    BY <2>1, <2>4, <2>5, <2>6
<1>27. ASSUME NEW ok \in BOOLEAN, ParallelMeta(ok) PROVE IInv'
  <2>1. PICK why \in Contract!Reasons :
          /\ why = IF reason = "none" /\ ~ok THEN "engine_unavailable" ELSE reason
          /\ reason' = why
          /\ wire' = IF skip THEN wire ELSE Append(wire, Meta(why))
          /\ pc' = IF pool = {} THEN "p_empty" ELSE IF ok THEN "p_fan" ELSE "p_fan_offline"
    BY <1>27 DEF ParallelMeta, Meta
  <2>2. pc = "parallel" /\ UNCHANGED <<pool, skip, outcome, layers, jobs, got, replanned>>
    BY <1>27 DEF ParallelMeta
  <2>3. CASE skip
    <3>1. wire' = wire /\ Contract!InLayer' = Contract!InLayer
          /\ \A k \in Contract!Kinds : Sent(k)' = Sent(k)
      BY <2>1, <2>3 DEF Sent, Contract!Sent, Contract!InLayer
    <3> QED
      BY <2>1, <2>2, <2>3, <3>1
  <2>4. CASE ~skip
    <3>1. /\ wire' \in Seq(Contract!Event) /\ wire' # <<>>
          /\ wire'[1].kind = "meta" /\ (wire'[1].degraded <=> why # "none")
          /\ \A k \in Contract!Kinds : Sent(k)' <=> k = "meta"
          /\ ~Contract!InLayer'
      BY <2>1, <2>2, <2>4, Announcing
    <3> QED
      BY <2>1, <2>2, <2>4, <3>1
  <2> QED
    BY <2>3, <2>4
<1>28. ASSUME NEW w \in Workers, WorkerStep(w) PROVE IInv'
  BY <1>28, Reporting DEF WorkerStep
<1> QED
  BY <1>1, <1>2, <1>3, <1>4, <1>5, <1>6, <1>7, <1>8, <1>9, <1>10, <1>11, <1>12, <1>13, <1>14, <1>15, <1>16, <1>17, <1>18, <1>19, <1>20, <1>21, <1>22, <1>23, <1>24, <1>25, <1>26, <1>27, <1>28 DEF Next, Run, Ended
-----------------------------------------------------------------------------
(* Progress events are steps of the contract, if sent where it allows them. *)
LEMMA Advances ==
  ASSUME NEW k \in Contract!Kinds \ {"meta", "done", "error"}, Emit(k),
         wire # <<>>, ~Contract!Closed, ~Sent("synthesis"),
         k = "conductor_plan" => Len(wire) = 1,
         k = "fan_out" => ~Sent("fan_out"),
         k = "step" => Sent("fan_out"),
         k \in {"scores", "k_sample_pick"} => Sent("step"),
         k = "dag_layer_start" =>
           Sent("conductor_plan") /\ Sent("fan_out") /\ ~Contract!InLayer,
         k \in {"dag_layer_complete", "replan"} => Contract!InLayer,
         k = "synthesis" => Sent("scores") /\ ~Contract!InLayer
  PROVE  Contract!Next
<1>1. Event(k) \in Contract!Event /\ Event(k).kind = k
  BY EventTypes
<1>2. Contract!Advance(Event(k))
  BY <1>1 DEF Contract!Advance, Contract!Send, Emit, Sent
<1> QED
  BY <1>1, <1>2 DEF Contract!Next

(* So are done events.                                                     *)
LEMMA Finishes ==
  ASSUME NEW d \in BOOLEAN, NEW r \in Contract!Reasons, wire' = Append(wire, Done(d, r)),
         wire # <<>>, ~Contract!Closed, ~Contract!InLayer,
         ~d <=> Sent("synthesis"),
         Contract!Healthy => r = "none"
  PROVE  Contract!Next
<1>1. /\ Done(d, r) \in Contract!Event /\ Done(d, r).kind = "done"
      /\ Done(d, r).degraded = d /\ Done(d, r).reason = r
  BY EventTypes
<1>2. Contract!Finish(Done(d, r))
  BY <1>1 DEF Contract!Finish, Contract!Send, Sent
<1> QED
  BY <1>1, <1>2 DEF Contract!Next

LEMMA Announces ==
  ASSUME wire = <<>>, NEW why \in Contract!Reasons, wire' = Append(wire, Meta(why))
  PROVE  Contract!Next
<1>1. /\ Meta(why) \in Contract!Event /\ Meta(why).kind = "meta"
      /\ Meta(why).reason = why /\ (Meta(why).degraded <=> why # "none")
  BY DEF Meta, Event, Contract!Event, Contract!Kinds
<1>2. Contract!Announce(Meta(why))
  BY <1>1 DEF Contract!Announce, Contract!Send
<1> QED
  BY <1>1, <1>2 DEF Contract!Next

(* Every step of the run is a step of the contract, or sends nothing.      *)
LEMMA StepsKeepContract == IInv /\ [Next]_vars => [Contract!Next]_wire
<1> SUFFICES ASSUME IInv, [Next]_vars PROVE [Contract!Next]_wire
  OBVIOUS
<1> USE DEF IInv, TypeOK, Opening, Open, Progress, Places, Before, Layers, Calls, Stopped,
            Offline, Reported, Answered, Outcomes, Contract!Reasons, Contract!Kinds
<1>a. /\ pc \notin Stopped => ~Contract!Closed
      /\ pc \in Offline => ~Contract!Healthy
  BY DEF Contract!Closed, Contract!Healthy, Sent
<1>1. CASE ConductorPlan
  BY <1>1, <1>a, Advances DEF ConductorPlan
<1>2. CASE ConductorFanOut
  BY <1>2, <1>a, Advances DEF ConductorFanOut
<1>3. CASE StartLayer
  BY <1>3, <1>a, Advances DEF StartLayer
<1>4. CASE LayerStep
  BY <1>4, <1>a, Advances DEF LayerStep
<1>5. CASE LayerScores
  BY <1>5, <1>a, Advances DEF LayerScores
<1>6. CASE KSamplePick
  BY <1>6, <1>a, Advances DEF KSamplePick
<1>7. CASE Replan
  BY <1>7, <1>a, Advances DEF Replan
<1>8. CASE CompleteLayer
  BY <1>8, <1>a, Advances DEF CompleteLayer
<1>9. CASE RecoveryStep
  BY <1>9, <1>a, Advances DEF RecoveryStep
<1>10. CASE ConductorSynthesis
  BY <1>10, <1>a, Advances DEF ConductorSynthesis
<1>11. CASE ParallelFanOut
  BY <1>11, <1>a, Advances DEF ParallelFanOut
<1>12. CASE OfflineScores
  BY <1>12, <1>a, Advances DEF OfflineScores
<1>13. CASE Judge
  BY <1>13, <1>a, Advances DEF Judge
<1>14. CASE SynthesisPrep
  BY <1>14, <1>a, Advances DEF SynthesisPrep
<1>15. CASE ParallelSynthesis
  BY <1>15, <1>a, Advances DEF ParallelSynthesis
<1>16. CASE NoWorkersDone
  BY <1>16, <1>a, Finishes DEF NoWorkersDone
<1>17. CASE NoOutputsDone
  BY <1>17, <1>a, Finishes DEF NoOutputsDone
<1>18. CASE ParallelEmptyDone
  BY <1>18, <1>a, Finishes DEF ParallelEmptyDone
<1>19. CASE OfflineDone
  BY <1>19, <1>a, Finishes DEF OfflineDone
<1>20. CASE AllFailedDone
  BY <1>20, <1>a, Finishes DEF AllFailedDone
<1>21. CASE MergedDone
  BY <1>21, <1>a, Finishes DEF MergedDone
<1>22. CASE Crash
  <2>1. Event("error") \in Contract!Event /\ Event("error").kind = "error"
    BY EventTypes
  <2>2. Contract!Abort(Event("error"))
    BY <1>22, <1>a, <2>1 DEF Crash, Emit, Contract!Abort, Contract!Send
  <2> QED
    BY <2>1, <2>2 DEF Contract!Next
<1>23. ASSUME NEW ok \in BOOLEAN, ConductorMeta(ok) PROVE [Contract!Next]_wire
  <2>1. wire = <<>> /\ \E why \in Contract!Reasons : wire' = Append(wire, Meta(why))
    BY <1>23 DEF ConductorMeta, Meta
  <2> QED
    BY <2>1, Announces
<1>24. ASSUME NEW ok \in BOOLEAN, ParallelMeta(ok) PROVE [Contract!Next]_wire
  <2>1. CASE skip
    BY <1>24, <2>1 DEF ParallelMeta
  <2>2. CASE ~skip
    <3>1. wire = <<>> /\ \E why \in Contract!Reasons : wire' = Append(wire, Meta(why))
      BY <1>24, <2>2 DEF ParallelMeta, Meta
    <3> QED
      BY <3>1, Announces
  <2> QED
    BY <2>1, <2>2
<1>25. ASSUME NEW w \in Workers, WorkerStep(w) PROVE [Contract!Next]_wire
  <2>1. StepOf(w) \in Contract!Event /\ StepOf(w).kind = "step"
    BY EventTypes
  <2>2. wire # <<>> /\ ~Contract!Closed /\ ~Sent("synthesis") /\ Sent("fan_out")
    BY <1>25, <1>a DEF WorkerStep
  <2>3. Contract!Advance(StepOf(w))
    BY <1>25, <2>1, <2>2 DEF WorkerStep, Contract!Advance, Contract!Send, Sent
  <2> QED
    BY <2>1, <2>3 DEF Contract!Next
<1>26. CASE Plan \/ Disconnect \/ UNCHANGED vars
  BY <1>26 DEF Plan, Disconnect, vars
<1> QED
  BY <1>1, <1>2, <1>3, <1>4, <1>5, <1>6, <1>7, <1>8, <1>9, <1>10, <1>11, <1>12, <1>13, <1>14, <1>15, <1>16, <1>17, <1>18, <1>19, <1>20, <1>21, <1>22, <1>23, <1>24, <1>25, <1>26 DEF Next, Run, Ended

-----------------------------------------------------------------------------
(* The generators and the wire stay within their types in every run: the   *)
(* code that reads pc, reason or the counters never meets another value.   *)
THEOREM TypesCorrect == Spec => []TypeOK
<1>1. Spec => []IInv
  BY Initially, Inductive, PTL DEF Spec
<1>2. IInv => TypeOK
  BY DEF IInv
<1> QED
  BY <1>1, <1>2, PTL

(* Every run keeps the contract with its client: one meta first, ordered   *)
(* progress, at most one done or error and nothing after it, through the   *)
(* handoff of execute_conductor_stream to parallel_orchestrate_stream.     *)
THEOREM StreamContract == Spec => KeepsContract
<1>1. Init => Contract!Init
  BY DEF Init, Contract!Init
<1>2. Spec => []IInv
  BY Initially, Inductive, PTL DEF Spec
<1> QED
  BY <1>1, <1>2, StepsKeepContract, PTL DEF Spec, KeepsContract, Contract!Spec

-----------------------------------------------------------------------------
(* Who was reported, on a wire that no Conductor has written steps on: the *)
(* workers whose outcome is in, each at one place.                         *)
Reports ==
  ~Sent("conductor_plan") =>
    /\ \A w \in Workers : outcome[w] = "pending" => StepsOf(w) = {}
    /\ \A w \in Workers : outcome[w] # "pending" => \E i \in Nat : StepsOf(w) = {i}
    /\ Sent("scores") => Reported = pool

LEMMA StepsAppended ==
  ASSUME wire \in Seq(Contract!Event), NEW e \in Contract!Event, wire' = Append(wire, e),
         NEW w \in Workers
  PROVE  StepsOf(w)' = IF e = StepOf(w) THEN StepsOf(w) \union {Len(wire) + 1} ELSE StepsOf(w)
<1> DEFINE s == StepOf(w)
<1>1. /\ Len(wire') = Len(wire) + 1 /\ Len(wire) \in Nat
      /\ wire'[Len(wire) + 1] = e
      /\ \A i \in 1..Len(wire) : wire'[i] = wire[i]
  OBVIOUS
<1>2. /\ StepsOf(w) = {i \in 1..Len(wire) : wire[i] = s}
      /\ StepsOf(w)' = {i \in 1..Len(wire') : wire'[i] = s}
  BY DEF StepsOf, StepOf, Event
<1> HIDE DEF s
<1>3. StepsOf(w)' = IF e = s THEN StepsOf(w) \union {Len(wire) + 1} ELSE StepsOf(w)
  BY <1>1, <1>2
<1> QED
  BY <1>3 DEF s

(* Events that are about no worker report nobody.                          *)
LEMMA OthersKeepReports ==
  ASSUME wire \in Seq(Contract!Event), NEW e \in Contract!Event, wire' = Append(wire, e),
         e.worker = NoWorker, UNCHANGED <<pool, outcome>>, Reports,
         e.kind = "scores" => Sent("conductor_plan") \/ Reported = pool
  PROVE  Reports'
<1>1. \A w \in Workers : StepsOf(w)' = StepsOf(w)
  <2> SUFFICES ASSUME NEW w \in Workers PROVE StepsOf(w)' = StepsOf(w)
    OBVIOUS
  <2>1. StepOf(w).worker = w
    BY DEF StepOf, Event
  <2> QED
    BY <2>1, StepsAppended, WorkerAssumption
<1>2. /\ Sent("conductor_plan")' <=> Sent("conductor_plan") \/ e.kind = "conductor_plan"
      /\ Sent("scores")' <=> Sent("scores") \/ e.kind = "scores"
  BY Appended DEF Contract!Kinds
<1>3. Reported' = Reported
  BY DEF Reported
<1> QED
  BY <1>1, <1>2, <1>3 DEF Reports

LEMMA NobodysEvents ==
  /\ \A k \in Contract!Kinds : Event(k) \in Contract!Event /\ Event(k).kind = k
                                /\ Event(k).worker = NoWorker
  /\ \A d \in BOOLEAN, r \in Contract!Reasons :
       Done(d, r) \in Contract!Event /\ Done(d, r).kind = "done" /\ Done(d, r).worker = NoWorker
  /\ \A r \in Contract!Reasons :
       Meta(r) \in Contract!Event /\ Meta(r).kind = "meta" /\ Meta(r).worker = NoWorker
BY DEF Event, Done, Meta, Contract!Event, Contract!Kinds, Contract!Reasons

(* Every step keeps the reports right.                                     *)
LEMMA ReportsKept == IInv /\ Reports /\ [Next]_vars => Reports'
<1> SUFFICES ASSUME IInv, Reports, [Next]_vars PROVE Reports'
  OBVIOUS
<1>0. wire \in Seq(Contract!Event) /\ outcome \in [Workers -> Outcomes] /\ pool \subseteq Workers
  BY DEF IInv, TypeOK
<1>e. ASSUME NEW k \in Contract!Kinds, Emit(k), UNCHANGED <<pool, outcome>>,
             k = "scores" => Sent("conductor_plan") \/ Reported = pool
      PROVE  Reports'
  <2>1. wire' = Append(wire, Event(k))
    BY <1>e DEF Emit
  <2> QED
    BY <1>0, <1>e, <2>1, NobodysEvents, OthersKeepReports
<1>d. ASSUME NEW d \in BOOLEAN, NEW r \in Contract!Reasons, wire' = Append(wire, Done(d, r)),
             UNCHANGED <<pool, outcome>>
      PROVE  Reports'
  BY <1>0, <1>d, NobodysEvents, OthersKeepReports
<1>m. ASSUME NEW r \in Contract!Reasons, wire' = Append(wire, Meta(r)), UNCHANGED <<pool, outcome>>
      PROVE  Reports'
  BY <1>0, <1>m, NobodysEvents, OthersKeepReports
<1>u. ASSUME UNCHANGED <<wire, pool, outcome>> PROVE Reports'
  BY <1>u DEF Reports, Reported, StepsOf, Sent, Contract!Sent
<1>1. CASE \/ ConductorPlan \/ ConductorFanOut \/ StartLayer \/ LayerStep \/ KSamplePick
           \/ Replan \/ CompleteLayer \/ RecoveryStep \/ ConductorSynthesis \/ ParallelFanOut
           \/ SynthesisPrep \/ ParallelSynthesis \/ Crash
  <2>1. UNCHANGED <<pool, outcome>>
    BY <1>1 DEF ConductorPlan, ConductorFanOut, StartLayer, LayerStep, KSamplePick, Replan,
       CompleteLayer, RecoveryStep, ConductorSynthesis, ParallelFanOut, SynthesisPrep,
       ParallelSynthesis, Crash, parallel
  <2>2. \E k \in Contract!Kinds \ {"scores"} : Emit(k)
    BY <1>1 DEF ConductorPlan, ConductorFanOut, StartLayer, LayerStep, KSamplePick, Replan,
       CompleteLayer, RecoveryStep, ConductorSynthesis, ParallelFanOut, SynthesisPrep,
       ParallelSynthesis, Crash, Contract!Kinds
  <2> QED
    BY <1>e, <2>1, <2>2
<1>2. CASE LayerScores \/ OfflineScores \/ Judge
  <2>1. Emit("scores") /\ UNCHANGED <<pool, outcome>> /\ "scores" \in Contract!Kinds
    BY <1>2 DEF LayerScores, OfflineScores, Judge, parallel, Contract!Kinds
  <2>2. Sent("conductor_plan") \/ Reported = pool
    BY <1>2 DEF LayerScores, OfflineScores, Judge, IInv, Progress, Layers
  <2> QED
    BY <1>e, <2>1, <2>2
<1>3. CASE NoWorkersDone \/ NoOutputsDone \/ ParallelEmptyDone \/ OfflineDone \/ AllFailedDone
           \/ MergedDone
  <2>1. /\ UNCHANGED <<pool, outcome>>
        /\ \E d \in BOOLEAN, r \in Contract!Reasons : wire' = Append(wire, Done(d, r))
    BY <1>3 DEF NoWorkersDone, NoOutputsDone, ParallelEmptyDone, OfflineDone, AllFailedDone,
       MergedDone, parallel, IInv, TypeOK, Contract!Reasons
  <2> QED
    BY <1>d, <2>1
<1>4. ASSUME NEW ok \in BOOLEAN, ConductorMeta(ok) \/ ParallelMeta(ok) PROVE Reports'
  <2>1. UNCHANGED <<pool, outcome>>
    BY <1>4 DEF ConductorMeta, ParallelMeta
  <2>2. wire' = wire \/ \E r \in Contract!Reasons : wire' = Append(wire, Meta(r))
    BY <1>4 DEF ConductorMeta, ParallelMeta, Meta, IInv, TypeOK, Contract!Reasons
  <2> QED
    BY <1>m, <1>u, <2>1, <2>2
<1>5. CASE Plan \/ Disconnect \/ UNCHANGED vars
  BY <1>5, <1>u DEF Plan, Disconnect, vars, parallel
<1>6. ASSUME NEW w \in Workers, WorkerStep(w) PROVE Reports'
  <2>1. PICK o \in Outcomes \ {"pending"} : outcome' = [outcome EXCEPT ![w] = o]
    BY <1>6 DEF WorkerStep
  <2>2. w \in pool \ Reported /\ pool' = pool /\ wire' = Append(wire, StepOf(w))
    BY <1>6 DEF WorkerStep
  <2>3. outcome[w] = "pending"
    BY <2>2 DEF Reported
  <2>4. /\ Sent("conductor_plan")' <=> Sent("conductor_plan")
        /\ Sent("scores")' <=> Sent("scores")
    BY <1>0, <2>2, Reporting DEF Contract!Kinds
  <2>5. \A v \in Workers : StepOf(v) \in Contract!Event /\ (StepOf(w) = StepOf(v) => w = v)
    <3>1. \A v \in Workers : StepOf(v).worker = v
      BY DEF StepOf, Event
    <3> QED
      BY <3>1, EventTypes
  <2>6. /\ \A v \in Workers \ {w} : StepsOf(v)' = StepsOf(v)
        /\ StepsOf(w)' = StepsOf(w) \union {Len(wire) + 1}
    BY <1>0, <2>2, <2>5, StepsAppended
  <2>7. Len(wire) + 1 \in Nat
    BY <1>0
  <2>8. /\ outcome'[w] # "pending"
        /\ \A v \in Workers \ {w} : outcome'[v] = outcome[v]
    BY <1>0, <2>1
  <2>9. ~Sent("conductor_plan") => ~Sent("scores")
    BY <2>2 DEF Reports
  <2> QED
    BY <2>3, <2>4, <2>6, <2>7, <2>8, <2>9 DEF Reports
<1> QED
  BY <1>1, <1>2, <1>3, <1>4, <1>5, <1>6 DEF Next, Run, Ended

(* Parallel scores and merges once every connected worker was reported,    *)
(* each once (fan_out_stream), however many there are.                     *)
THEOREM EachReportedOnce == Spec => []EveryoneReported
<1>1. Init => Reports
  <2> SUFFICES ASSUME Init PROVE Reports
    OBVIOUS
  <2>1. Len(wire) = 0 /\ \A w \in Workers : outcome[w] = "pending"
    BY DEF Init
  <2> QED
    BY <2>1 DEF Reports, StepsOf, Sent, Contract!Sent
<1>2. Spec => [](IInv /\ Reports)
  BY <1>1, Initially, Inductive, ReportsKept, PTL DEF Spec
<1>3. IInv /\ Reports => EveryoneReported
  <2> SUFFICES ASSUME IInv, Reports, ~Sent("conductor_plan"), NEW w \in pool
               PROVE  /\ Cardinality(StepsOf(w)) <= 1
                      /\ Sent("scores") => Cardinality(StepsOf(w)) = 1
    BY DEF EveryoneReported, Sent
  <2>1. w \in Workers
    BY DEF IInv, TypeOK
  <2>2. CASE outcome[w] = "pending"
    <3>1. Cardinality(StepsOf(w)) = 0
      BY <2>1, <2>2, FS_EmptySet DEF Reports
    <3>2. ~Sent("scores")
      BY <2>2 DEF Reports, Reported
    <3> QED
      BY <3>1, <3>2
  <2>3. CASE outcome[w] # "pending"
    <3>1. PICK i \in Nat : StepsOf(w) = {i}
      BY <2>1, <2>3 DEF Reports
    <3>2. Cardinality(StepsOf(w)) = 1
      BY <3>1, FS_Singleton
    <3> QED
      BY <3>2
  <2> QED
    BY <2>2, <2>3
<1> QED
  BY <1>2, <1>3, PTL

-----------------------------------------------------------------------------
(* Where a merge is under way there is something to merge.                 *)
Sources ==
  /\ pc \in {"p_judged", "p_merge"} => Answered # {}
  /\ pc = "merged" => got \/ Answered # {}
  /\ AnswerHasSource

(* No event but done can break AnswerHasSource while the run goes on.      *)
LEMMA OnlyDone ==
  ASSUME wire \in Seq(Contract!Event), ~Sent("done"), NEW e \in Contract!Event,
         wire' = Append(wire, e),
         e.kind = "done" /\ ~e.degraded => got' \/ Answered' # {}
  PROVE  AnswerHasSource'
<1>1. /\ Len(wire') = Len(wire) + 1 /\ Len(wire) \in Nat
      /\ wire'[Len(wire) + 1] = e
      /\ \A i \in 1..Len(wire) : wire'[i] = wire[i]
  OBVIOUS
<1>2. \A i \in 1..Len(wire) : wire[i].kind # "done"
  BY DEF Sent, Contract!Sent
<1>3. \A i \in 1..Len(wire') : i \in 1..Len(wire) \/ i = Len(wire) + 1
  BY <1>1
<1> QED
  BY <1>1, <1>2, <1>3 DEF AnswerHasSource

LEMMA SourcesKept == IInv /\ Sources /\ [Next]_vars => Sources'
<1> SUFFICES ASSUME IInv, Sources, [Next]_vars PROVE Sources'
  OBVIOUS
<1>0. /\ wire \in Seq(Contract!Event) /\ outcome \in [Workers -> Outcomes] /\ got \in BOOLEAN
      /\ pc \in PCs /\ pool \subseteq Workers /\ reason \in Contract!Reasons
  BY DEF IInv, TypeOK
<1>1. pc \notin Stopped => ~Sent("done")
  BY DEF IInv, Open
<1>e. ASSUME NEW k \in Contract!Kinds \ {"done"}, Emit(k), pc \notin Stopped PROVE AnswerHasSource'
  <2>1. wire' = Append(wire, Event(k))
    BY <1>e DEF Emit
  <2> QED
    BY <1>0, <1>1, <1>e, <2>1, NobodysEvents, OnlyDone
<1>u. ASSUME UNCHANGED wire, pc \notin Stopped PROVE AnswerHasSource'
  <2>1. \A i \in 1..Len(wire) : wire[i].kind # "done"
    BY <1>1, <1>u DEF Sent, Contract!Sent
  <2> QED
    BY <1>u, <2>1 DEF AnswerHasSource
<1>2. CASE \/ ConductorPlan \/ ConductorFanOut \/ StartLayer \/ LayerStep \/ KSamplePick
           \/ Replan \/ CompleteLayer \/ RecoveryStep \/ ParallelFanOut \/ LayerScores
           \/ OfflineScores \/ Crash
  <2>1. /\ pc \notin Stopped /\ pc' \notin {"p_judged", "p_merge", "merged"}
    BY <1>2 DEF ConductorPlan, ConductorFanOut, StartLayer, LayerStep, KSamplePick, Replan,
       CompleteLayer, RecoveryStep, ParallelFanOut, LayerScores, OfflineScores, Crash, Stopped
  <2>2. \E k \in Contract!Kinds \ {"done"} : Emit(k)
    BY <1>2 DEF ConductorPlan, ConductorFanOut, StartLayer, LayerStep, KSamplePick, Replan,
       CompleteLayer, RecoveryStep, ParallelFanOut, LayerScores, OfflineScores, Crash,
       Contract!Kinds
  <2> QED
    BY <1>e, <2>1, <2>2 DEF Sources
<1>3. CASE ConductorSynthesis \/ Judge \/ SynthesisPrep \/ ParallelSynthesis
  <2>1. UNCHANGED <<got, Answered>>
    BY <1>3 DEF ConductorSynthesis, Judge, SynthesisPrep, ParallelSynthesis, conductor,
       parallel, Answered
  <2>2. /\ pc' \in {"p_judged", "p_merge"} => Answered # {}
        /\ pc' = "merged" => got \/ Answered # {}
    BY <1>3 DEF ConductorSynthesis, Judge, SynthesisPrep, ParallelSynthesis, Sources
  <2>3. pc \notin Stopped /\ \E k \in Contract!Kinds \ {"done"} : Emit(k)
    BY <1>3 DEF ConductorSynthesis, Judge, SynthesisPrep, ParallelSynthesis, Contract!Kinds,
       Stopped
  <2> QED
    BY <1>e, <2>1, <2>2, <2>3 DEF Sources
<1>4. CASE NoWorkersDone \/ NoOutputsDone \/ ParallelEmptyDone \/ OfflineDone \/ AllFailedDone
           \/ MergedDone
  <2>1. pc \notin Stopped /\ pc' = "closed" /\ UNCHANGED <<got, Answered>>
    BY <1>4 DEF NoWorkersDone, NoOutputsDone, ParallelEmptyDone, OfflineDone, AllFailedDone,
       MergedDone, conductor, parallel, Stopped, Answered
  <2>2. \E d \in BOOLEAN, r \in Contract!Reasons :
          wire' = Append(wire, Done(d, r)) /\ (d \/ pc = "merged")
    BY <1>0, <1>4 DEF NoWorkersDone, NoOutputsDone, ParallelEmptyDone, OfflineDone,
       AllFailedDone, MergedDone, Contract!Reasons
  <2>3. PICK d \in BOOLEAN, r \in Contract!Reasons :
          wire' = Append(wire, Done(d, r)) /\ (d \/ pc = "merged")
    BY <2>2
  <2>4. /\ Done(d, r) \in Contract!Event
        /\ Done(d, r).degraded = d
    BY EventTypes
  <2>5. ~d => got' \/ Answered' # {}
    BY <2>1, <2>3 DEF Sources
  <2>6. AnswerHasSource'
    BY <1>0, <1>1, <2>1, <2>3, <2>4, <2>5, OnlyDone
  <2> QED
    BY <2>1, <2>6 DEF Sources
<1>5. ASSUME NEW ok \in BOOLEAN, ConductorMeta(ok) \/ ParallelMeta(ok) PROVE Sources'
  <2>1. pc \notin Stopped /\ pc' \notin {"p_judged", "p_merge", "merged"}
    BY <1>5 DEF ConductorMeta, ParallelMeta, Stopped
  <2>2. wire' = wire \/ \E r \in Contract!Reasons : wire' = Append(wire, Meta(r))
    BY <1>0, <1>5 DEF ConductorMeta, ParallelMeta, Meta, Contract!Reasons
  <2>3. AnswerHasSource'
    BY <1>0, <1>1, <1>u, <2>1, <2>2, NobodysEvents, OnlyDone
  <2> QED
    BY <2>1, <2>3 DEF Sources
<1>6. CASE Plan \/ Disconnect
  <2>1. pc \notin Stopped /\ UNCHANGED wire /\ pc' \notin {"p_judged", "p_merge", "merged"}
    BY <1>6 DEF Plan, Disconnect, Stopped
  <2> QED
    BY <1>u, <2>1 DEF Sources
<1>7. CASE UNCHANGED vars
  BY <1>7 DEF vars, conductor, parallel, Sources, AnswerHasSource, Answered
<1>8. ASSUME NEW w \in Workers, WorkerStep(w) PROVE Sources'
  <2>1. /\ pc \in Calls /\ pc' = pc /\ wire' = Append(wire, StepOf(w))
    BY <1>8 DEF WorkerStep, Calls
  <2>2. AnswerHasSource'
    BY <1>0, <1>1, <2>1, EventTypes, OnlyDone DEF Calls, Stopped
  <2> QED
    BY <2>1, <2>2 DEF Sources, Calls
<1> QED
  BY <1>2, <1>3, <1>4, <1>5, <1>6, <1>7, <1>8 DEF Next, Run, Ended

(* A run that ends with an undegraded answer had one to give: what the     *)
(* Conductor's nodes produced, or what a worker answered to Parallel.      *)
THEOREM AnswersHaveSources == Spec => []AnswerHasSource
<1>1. Init => Sources
  BY DEF Init, Sources, AnswerHasSource
<1>2. Spec => [](IInv /\ Sources)
  BY <1>1, Initially, Inductive, SourcesKept, PTL DEF Spec
<1>3. Sources => AnswerHasSource
  BY DEF Sources
<1> QED
  BY <1>2, <1>3, PTL

-----------------------------------------------------------------------------
(* What is left to send *)

(* How far the generators are from the end: the places they pass, the      *)
(* layers, the one replan, the places within a layer, the samples and the  *)
(* workers still to be reported.                                           *)
Place ==
  IF pc = "plan" THEN 8 ELSE IF pc = "conductor" THEN 7
  ELSE IF pc \in {"c_plan", "parallel"} THEN 6
  ELSE IF pc \in {"c_fan", "p_fan", "p_fan_offline"} THEN 5
  ELSE IF pc \in Layers \union Calls THEN 4
  ELSE IF pc \in {"c_gather", "p_judged"} THEN 3
  ELSE IF pc = "p_merge" THEN 2
  ELSE IF pc \in Stopped THEN 0 ELSE 1
InLayer ==
  IF pc = "c_layer" THEN 4 ELSE IF pc = "c_steps" THEN 3
  ELSE IF pc = "c_scores" THEN 2 ELSE IF pc = "c_picks" THEN 1 ELSE 0
Silent == Cardinality(pool \ Reported)
Left == <<Place, layers, IF replanned THEN 0 ELSE 1, InLayer, jobs, Silent>>

(* The lexicographic order of what is left.                                *)
Amounts == [1..6 -> Nat]
Fewer == LexProductOrdering(OpToRel(<, Nat), Nat, 6)
(* A step leaves less.                                                     *)
Falls == <<Left', Left>> \in Fewer

LEMMA FewerIs ==
  ASSUME NEW f \in Amounts, NEW g \in Amounts, NEW j \in 1..6,
         \A i \in 1..(j - 1) : f[i] = g[i], f[j] < g[j]
  PROVE  <<f, g>> \in Fewer
<1>1. <<f[j], g[j]>> \in OpToRel(<, Nat)
  BY DEF OpToRel, Amounts
<1> QED  BY <1>1 DEF Fewer, LexProductOrdering, Amounts

LEMMA LeftType ==
  ASSUME IInv, IsFiniteSet(Workers)
  PROVE  Left \in Amounts
<1>1. Place \in Nat /\ InLayer \in Nat
  BY DEF Place, InLayer
<1>2. layers \in Nat /\ jobs \in Nat /\ replanned \in BOOLEAN
  BY BoundAssumption DEF IInv, TypeOK
<1>3. Silent \in Nat
  <2>1. IsFiniteSet(pool \ Reported)
    BY FS_Subset DEF IInv, TypeOK
  <2> QED  BY <2>1, FS_CardinalityType DEF Silent
<1> HIDE DEF Place, InLayer, Silent
<1> QED  BY <1>1, <1>2, <1>3 DEF Left, Amounts

(* Something has become less, and what counts for more is as it was.       *)
LEMMA LeftFalls ==
  ASSUME Left \in Amounts, Left' \in Amounts, replanned \in BOOLEAN,
         \/ Place' < Place
         \/ /\ Place' = Place
            /\ \/ layers' < layers
               \/ /\ layers' = layers
                  /\ \/ ~replanned /\ replanned'
                     \/ /\ replanned' = replanned
                        /\ \/ InLayer' < InLayer
                           \/ /\ InLayer' = InLayer
                              /\ \/ jobs' < jobs
                                 \/ jobs' = jobs /\ Silent' < Silent
  PROVE  <<Left', Left>> \in Fewer
<1> DEFINE lower(j) == (\A i \in 1..(j - 1) : Left'[i] = Left[i]) /\ Left'[j] < Left[j]
<1>1. ASSUME NEW j \in 1..6, lower(j)  PROVE <<Left', Left>> \in Fewer
  BY <1>1, FewerIs
<1>2. /\ Left[1] = Place /\ Left[2] = layers /\ Left[3] = (IF replanned THEN 0 ELSE 1)
      /\ Left[4] = InLayer /\ Left[5] = jobs /\ Left[6] = Silent
  BY DEF Left
<1>3. /\ Left'[1] = Place' /\ Left'[2] = layers' /\ Left'[3] = (IF replanned' THEN 0 ELSE 1)
      /\ Left'[4] = InLayer' /\ Left'[5] = jobs' /\ Left'[6] = Silent'
  BY DEF Left
<1>4. /\ 1..(1 - 1) = {} /\ 1..(2 - 1) = {1} /\ 1..(3 - 1) = {1, 2} /\ 1..(4 - 1) = {1, 2, 3}
      /\ 1..(5 - 1) = {1, 2, 3, 4} /\ 1..(6 - 1) = {1, 2, 3, 4, 5}
  OBVIOUS
<1> HIDE DEF Left, Place, InLayer, Silent
<1>5. CASE Place' < Place
  <2>1. lower(1)
    BY <1>2, <1>3, <1>4, <1>5
  <2> QED  BY <1>1, <2>1
<1>6. CASE Place' = Place /\ layers' < layers
  <2>1. lower(2)
    BY <1>2, <1>3, <1>4, <1>6
  <2> QED  BY <1>1, <2>1
<1>7. CASE Place' = Place /\ layers' = layers /\ ~replanned /\ replanned'
  <2>1. lower(3)
    BY <1>2, <1>3, <1>4, <1>7
  <2> QED  BY <1>1, <2>1
<1>8. CASE /\ Place' = Place /\ layers' = layers /\ replanned' = replanned
           /\ InLayer' < InLayer
  <2>1. lower(4)
    BY <1>2, <1>3, <1>4, <1>8
  <2> QED  BY <1>1, <2>1
<1>9. CASE /\ Place' = Place /\ layers' = layers /\ replanned' = replanned
           /\ InLayer' = InLayer /\ jobs' < jobs
  <2>1. lower(5)
    BY <1>2, <1>3, <1>4, <1>9
  <2> QED  BY <1>1, <2>1
<1>10. CASE /\ Place' = Place /\ layers' = layers /\ replanned' = replanned
            /\ InLayer' = InLayer /\ jobs' = jobs /\ Silent' < Silent
  <2>1. lower(6)
    BY <1>2, <1>3, <1>4, <1>10
  <2> QED  BY <1>1, <2>1
<1> QED  BY <1>5, <1>6, <1>7, <1>8, <1>9, <1>10

(* The steps that stay at their place: those of a layer, a recovered node, *)
(* and a worker that is reported.                                          *)
Staying == \/ StartLayer \/ LayerStep \/ LayerScores \/ KSamplePick \/ Replan \/ CompleteLayer
           \/ RecoveryStep \/ \E w \in Workers : WorkerStep(w)

LEMMA OthersMoveOn ==
  ASSUME IInv, Next, ~Staying, ~UNCHANGED vars
  PROVE  Place' < Place
<1> USE DEF Place, Layers, Calls, Stopped
<1>1. CASE Plan
  BY <1>1 DEF Plan
<1>2. ASSUME NEW ok \in BOOLEAN, ConductorMeta(ok)  PROVE Place' < Place
  <2>1. pc = "conductor" /\ pc' \in {"c_empty", "c_plan", "parallel"}
    BY <1>2 DEF ConductorMeta
  <2> QED  BY <2>1
<1>3. ASSUME NEW ok \in BOOLEAN, ParallelMeta(ok)  PROVE Place' < Place
  <2>1. pc = "parallel" /\ pc' \in {"p_empty", "p_fan", "p_fan_offline"}
    BY <1>3 DEF ParallelMeta
  <2> QED  BY <2>1
<1>4. CASE NoWorkersDone \/ ConductorPlan \/ ConductorFanOut \/ NoOutputsDone \/ ConductorSynthesis
  <2>1. \/ pc = "c_empty" /\ pc' = "closed"
        \/ pc = "c_plan" /\ pc' = "c_fan"
        \/ pc = "c_fan" /\ pc' = "c_layer"
        \/ pc = "c_gather" /\ pc' \in {"closed", "merged"}
    BY <1>4, Zenon DEF NoWorkersDone, ConductorPlan, ConductorFanOut, NoOutputsDone, ConductorSynthesis
  <2> QED  BY <2>1
<1>5. CASE ParallelEmptyDone \/ ParallelFanOut \/ OfflineScores \/ OfflineDone \/ AllFailedDone
  <2>1. \/ pc = "p_empty" /\ pc' = "closed"
        \/ pc \in {"p_fan", "p_fan_offline"} /\ pc' \in {"p_calls", "p_calls_offline"}
        \/ pc = "p_calls_offline" /\ pc' = "p_offline_done"
        \/ pc = "p_offline_done" /\ pc' = "closed"
        \/ pc = "p_calls" /\ pc' = "closed"
    BY <1>5, Zenon DEF ParallelEmptyDone, ParallelFanOut, OfflineScores, OfflineDone, AllFailedDone
  <2> QED  BY <2>1
<1>6. CASE Judge \/ SynthesisPrep \/ ParallelSynthesis \/ MergedDone
  <2>1. \/ pc = "p_calls" /\ pc' = "p_judged"
        \/ pc = "p_judged" /\ pc' = "p_merge"
        \/ pc \in {"p_judged", "p_merge"} /\ pc' = "merged"
        \/ pc = "merged" /\ pc' = "closed"
    BY <1>6, Zenon DEF Judge, SynthesisPrep, ParallelSynthesis, MergedDone
  <2> QED  BY <2>1
<1>7. CASE Crash \/ Disconnect
  BY <1>7 DEF Crash, Disconnect
<1>8. ~Ended
  BY DEF Ended
<1> QED  BY <1>1, <1>2, <1>3, <1>4, <1>5, <1>6, <1>7, <1>8 DEF Next, Run, Staying

LEMMA StepFalls ==
  ASSUME IInv, IsFiniteSet(Workers), Left' \in Amounts, Next, ~UNCHANGED vars
  PROVE  <<Left', Left>> \in Fewer
<1>1. Left \in Amounts
  BY LeftType
<1>2. /\ layers \in Nat /\ jobs \in Nat /\ replanned \in BOOLEAN
      /\ outcome \in [Workers -> Outcomes] /\ pool \subseteq Workers
  BY BoundAssumption DEF IInv, TypeOK
<1>3. CASE ~Staying
  BY <1>1, <1>2, <1>3, OthersMoveOn, LeftFalls
<1>4. CASE StartLayer
  <2>1. Place' = Place /\ layers' = layers /\ replanned' = replanned /\ InLayer' < InLayer
    BY <1>4 DEF StartLayer, Place, InLayer, Layers, Calls, Stopped
  <2> QED  BY <1>1, <1>2, <2>1, LeftFalls
<1>5. CASE LayerStep
  <2>1. /\ Place' = Place /\ layers' = layers /\ replanned' = replanned /\ jobs' = jobs - 1
        /\ InLayer' < InLayer \/ InLayer' = InLayer
    BY <1>5 DEF LayerStep, Place, InLayer, Layers, Calls, Stopped
  <2> QED  BY <1>1, <1>2, <2>1, LeftFalls
<1>6. CASE LayerScores \/ KSamplePick
  <2>1. /\ layers' = layers /\ replanned' = replanned
        /\ \/ pc = "c_scores" /\ pc' = "c_picks"
           \/ pc = "c_picks" /\ pc' = "c_mean"
    BY <1>6, Zenon DEF LayerScores, KSamplePick, conductor
  <2>2. Place' = Place /\ InLayer' < InLayer
    BY <2>1 DEF Place, InLayer, Layers, Calls, Stopped
  <2> QED  BY <1>1, <1>2, <2>1, <2>2, LeftFalls
<1>7. CASE Replan
  <2>1. Place' = Place /\ layers' = layers /\ ~replanned /\ replanned'
    BY <1>7 DEF Replan, Place, Layers, Calls, Stopped
  <2> QED  BY <1>1, <1>2, <2>1, LeftFalls
<1>8. CASE CompleteLayer
  <2>1. layers' = layers - 1 /\ pc \in {"c_picks", "c_mean"} /\ pc' \in {"c_layer", "c_gather"}
    BY <1>8 DEF CompleteLayer
  <2>2. Place' < Place \/ Place' = Place
    BY <2>1 DEF Place, Layers, Calls, Stopped
  <2> QED  BY <1>1, <1>2, <2>1, <2>2, LeftFalls
<1>9. CASE RecoveryStep
  <2>1. UNCHANGED <<pc, layers, replanned>> /\ jobs' = jobs - 1
    BY <1>9 DEF RecoveryStep
  <2>2. Place' = Place /\ InLayer' = InLayer
    BY <2>1 DEF Place, InLayer
  <2> QED  BY <1>1, <1>2, <2>1, <2>2, LeftFalls
<1>10. ASSUME NEW w \in Workers, WorkerStep(w)  PROVE <<Left', Left>> \in Fewer
  <2>1. UNCHANGED <<pool, pc, layers, replanned, jobs>> /\ w \in pool \ Reported
    BY <1>10 DEF WorkerStep, conductor
  <2>2. PICK o \in Outcomes \ {"pending"} : outcome' = [outcome EXCEPT ![w] = o]
    BY <1>10 DEF WorkerStep
  <2>3. pool' \ Reported' = (pool \ Reported) \ {w}
    BY <1>2, <2>1, <2>2 DEF Reported
  <2>4. IsFiniteSet(pool \ Reported)
    BY <1>2, FS_Subset
  <2>5. Silent' = Silent - 1 /\ Silent \in Nat
    <3>1. Cardinality((pool \ Reported) \ {w}) = Cardinality(pool \ Reported) - 1
      BY <2>1, <2>4, FS_RemoveElement
    <3>2. Cardinality(pool \ Reported) \in Nat
      BY <2>4, FS_CardinalityType
    <3> QED  BY <2>3, <3>1, <3>2 DEF Silent
  <2>6. Place' = Place /\ InLayer' = InLayer
    BY <2>1 DEF Place, InLayer
  <2> QED  BY <1>1, <1>2, <2>1, <2>5, <2>6, LeftFalls
<1> QED  BY <1>3, <1>4, <1>5, <1>6, <1>7, <1>8, <1>9, <1>10 DEF Staying

(* Every event of a stream is one of boundedly many, whatever the planners *)
(* probes and workers say and whoever leaves: what is left to send gets    *)
(* less with each step, in an order that does not go down for ever.        *)
THEOREM EveryEventCounts ==
  ASSUME IsFiniteSet(Workers)
  PROVE  /\ IsWellFoundedOn(Fewer, Amounts)
         /\ Spec => [](Left \in Amounts) /\ [][Falls]_vars
<1>1. IsWellFoundedOn(Fewer, Amounts)
  <2>1. 6 \in Nat
    OBVIOUS
  <2> QED  BY <2>1, NatLessThanWellFounded, WFLexProductOrdering DEF Fewer, Amounts
<1>2. IInv => Left \in Amounts
  BY LeftType
<1>3. IInv /\ (Left \in Amounts)' /\ [Next]_vars => [Falls]_vars
  BY StepFalls DEF Falls
<1>4. Spec => [](Left \in Amounts) /\ [][Falls]_vars
  BY <1>2, <1>3, Initially, Inductive, PTL DEF Spec
<1> QED  BY <1>1, <1>4
=============================================================================

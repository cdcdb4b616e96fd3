------------------------------- MODULE StepRun -------------------------------
(***************************************************************************)
(* One query answered step by step (POST /api/plan): the workflow is       *)
(* planned, or degraded to a single step, and then executed one step after *)
(* the other with verification, repair, re-routing and a token budget      *)
(* (src/routism/server.py, engine.py and executor.py).  Workers, verifier  *)
(* and the engine's model may answer anything, fail or keep it waiting.    *)
(***************************************************************************)
EXTENDS StepPlan, Positions, FiniteSetsExt

CONSTANTS
  Orchestrator,   \* the worker that plans, or NoWorker
  NoWorker,
  Verifying,      \* is there a verifier?
  Retries,        \* attempts of plan()
  MaxRepairs,     \* max_repairs
  Budget,         \* max_total_tokens, 0 for none
  Sizes,          \* sizes of outputs, in tokens
  Lasting,        \* is the memory kept in a file or a data base?
  Ghosts,         \* ids of workers that are not in the pool
  Drafts          \* workflows the engine's model may draft

(* What the schema lets through; references are counted from 1 here.   *)
StepType == [worker : Pool \union Ghosts, reads : SUBSET (Nat \ {0}), scoped : BOOLEAN, words : Words]

ASSUME StepAssumption ==
  /\ Orchestrator \in Pool \union {NoWorker} /\ NoWorker \notin Pool
  /\ Verifying \in BOOLEAN /\ Lasting \in BOOLEAN
  /\ Retries \in Nat \ {0} /\ MaxRepairs \in Nat /\ Budget \in Nat
  /\ Sizes \subseteq Nat \ {0} /\ Drafts \subseteq Seq(StepType)

VARIABLES
  stage,      \* "classify", "ask", "repair", "begin", "call", "verify", "store", "done",
              \* or "hung": waiting for a slot that nobody will hand to this loop
  tries,      \* attempts at planning left
  flow,       \* the workflow
  degraded,   \* used_fallback
  at,         \* the step that is executed
  memory,     \* the outputs of the steps so far, by step
  spent,      \* in_tokens
  cand,       \* which of the ranked workers has the step
  repair,     \* how often this worker has been asked again
  out,        \* the last output of this step, with the verifier's verdict
  accepted,   \* what the executor remembers of the verdict
  repaired,   \* has there been a rejection in this step?
  asked,      \* the workers a call of this step was sent to
  outcome     \* "none", "answer", "budget", "unplanned" and "error" (both told: it
              \* failed before or during the execution) or "crash" (HTTP 500)

planning == <<tries, flow, degraded>>
progress == <<at, memory, spent>>
stepping == <<cand, repair, out, accepted, repaired, asked>>
vars == <<stage, planning, progress, stepping, outcome>>

Nothing == [size |-> 0, echo |-> FALSE, verdict |-> "none"]
Step == flow[at]

(* Mutant: nobody but the planned worker is asked.                         *)
RankedAlone == <<Step.worker>>

(* _rank_workers: the step's worker, then the others in pool order.        *)
Others == {i \in 1..Len(ByPool) : ByPool[i] # Step.worker}
Ranked == <<Step.worker>> \o Select(ByPool, Others)

(* What a step sends is its subtask, one token, and the outputs it reads;  *)
(* one that is missing still counts for one.                               *)
SizeOf(j) == IF j \in DOMAIN memory THEN memory[j].size ELSE 1
StepIn == 1 + MapThenSumSet(SizeOf, Step.reads)

(* assert_isolation: the subtask has the words of an output that it is not *)
(* allowed to read.                                                        *)
Blocked == Step.words = "echo" /\ \E j \in DOMAIN memory \ Step.reads : memory[j].echo

-----------------------------------------------------------------------------
(* Planning *)

Init ==
  /\ stage = "classify" /\ tries = Retries /\ flow = <<>> /\ degraded = FALSE
  /\ at = 1 /\ memory = <<>> /\ spent = 0
  /\ cand = 1 /\ repair = 0 /\ out = Nothing /\ accepted = TRUE /\ repaired = FALSE
  /\ asked = {} /\ outcome = "none"

Finish(how) == stage' = "done" /\ outcome' = how

(* _build_workflow: a trivial query is one step for the orchestrator; any  *)
(* other goes to the engine, whose head is not trained, and so to          *)
(* safe_plan.  Without an orchestrator there is neither.                   *)
Classify ==
  /\ stage = "classify"
  /\ \/ Orchestrator = NoWorker /\ Finish("unplanned") /\ UNCHANGED flow
     \/ /\ Orchestrator # NoWorker
        /\ \/ stage' = "begin" /\ flow' = Single(Orchestrator)
           \/ stage' = "ask" /\ UNCHANGED flow
        /\ UNCHANGED outcome
  /\ UNCHANGED <<tries, degraded, progress, stepping>>

(* This attempt has failed; after the last one a single direct step it is. *)
Retry ==
  /\ tries' = tries - 1
  /\ IF tries > 1
     THEN stage' = "ask" /\ UNCHANGED <<flow, degraded>>
     ELSE stage' = "begin" /\ flow' = Single(ByPool[1]) /\ degraded' = TRUE
  /\ UNCHANGED outcome

(* The model's answer to decompose or repair is not a workflow: no JSON, a *)
(* step without a worker, a negative reference.  A JSON array is nothing   *)
(* the code expects and is not caught, nor is a model that does not answer *)
(* at all: the query fails although the pool may be well.                  *)
Unreadable ==
  /\ stage \in {"ask", "repair"}
  /\ Retry
  /\ UNCHANGED <<progress, stepping>>

Unplanned ==
  /\ stage \in {"ask", "repair"}
  /\ Finish("unplanned") \/ Finish("crash")
  /\ UNCHANGED <<planning, progress, stepping>>

(* plan: a draft that can be routed is audited and, if that finds          *)
(* something, shown to the model for repair.                               *)
Decompose(draft) ==
  /\ stage = "ask"
  /\ LET routed == SelectWorkers(draft)
     IN \/ ~ValidForPool(routed) /\ Retry
        \/ /\ ValidForPool(routed)
           /\ flow' = routed
           /\ stage' = IF Audited(routed) THEN "begin" ELSE "repair"
           /\ UNCHANGED <<tries, degraded, outcome>>
  /\ UNCHANGED <<progress, stepping>>

(* Mutant: what the model has repaired is not audited again.               *)
RepairTrusting(draft) ==
  /\ stage = "repair"
  /\ LET routed == SelectWorkers(draft)
     IN \/ ~ValidForPool(routed) /\ Retry
        \/ /\ ValidForPool(routed)
           /\ flow' = routed /\ stage' = "begin"
           /\ UNCHANGED <<tries, degraded, outcome>>
  /\ UNCHANGED <<progress, stepping>>

Repair(draft) ==
  /\ stage = "repair"
  /\ LET routed == SelectWorkers(draft)
     IN \/ ~(ValidForPool(routed) /\ Audited(routed)) /\ Retry
        \/ /\ ValidForPool(routed) /\ Audited(routed)
           /\ flow' = routed /\ stage' = "begin"
           /\ UNCHANGED <<tries, degraded, outcome>>
  /\ UNCHANGED <<progress, stepping>>

-----------------------------------------------------------------------------
(* Execution: run_detailed, and run_stream, which says every step when it  *)
(* is done.                                                                *)

(* Mutant: the budget is only looked at once it is exceeded.               *)
BeginLate ==
  /\ stage = "begin"
  /\ IF Budget > 0 /\ spent > Budget
     THEN Finish("budget") /\ UNCHANGED stepping
     ELSE /\ stage' = "call"
          /\ cand' = 1 /\ repair' = 0 /\ out' = Nothing
          /\ accepted' = TRUE /\ repaired' = FALSE /\ asked' = {}
          /\ UNCHANGED outcome
  /\ UNCHANGED <<planning, progress>>

(* A step that would exceed the budget is not begun.                       *)
Begin ==
  /\ stage = "begin"
  /\ IF Budget > 0 /\ spent + StepIn > Budget
     THEN Finish("budget") /\ UNCHANGED stepping
     ELSE /\ stage' = "call"
          /\ cand' = 1 /\ repair' = 0 /\ out' = Nothing
          /\ accepted' = TRUE /\ repaired' = FALSE /\ asked' = {}
          /\ UNCHANGED outcome
  /\ UNCHANGED <<planning, progress>>

(* The worker is given up; after the last one the query fails, also when   *)
(* an earlier one had an answer that was merely rejected.                  *)
GiveUp ==
  IF cand < Len(Ranked)
  THEN cand' = cand + 1 /\ repair' = 0 /\ stage' = "call" /\ UNCHANGED outcome
  ELSE Finish("error") /\ UNCHANGED <<cand, repair>>

(* A subtask with words it must not have is refused before the call.       *)
CallRefused ==
  /\ stage = "call" /\ Blocked
  /\ out' = Nothing
  /\ GiveUp
  /\ UNCHANGED <<planning, progress, accepted, repaired, asked>>

CallFails ==
  /\ stage = "call" /\ ~Blocked
  /\ asked' = asked \union {Ranked[cand]}
  /\ out' = Nothing
  /\ GiveUp
  /\ UNCHANGED <<planning, progress, accepted, repaired>>

CallAnswers(size, echo) ==
  /\ stage = "call" /\ ~Blocked
  /\ asked' = asked \union {Ranked[cand]}
  /\ out' = [size |-> size, echo |-> echo, verdict |-> "none"]
  /\ IF Verifying THEN stage' = "verify" /\ UNCHANGED accepted
     ELSE stage' = "store" /\ accepted' = TRUE
  /\ UNCHANGED <<planning, progress, cand, repair, repaired, outcome>>

Accept ==
  /\ stage = "verify"
  /\ out' = [out EXCEPT !.verdict = "accept"]
  /\ accepted' = TRUE /\ stage' = "store"
  /\ UNCHANGED <<planning, progress, cand, repair, repaired, asked, outcome>>

(* A call runs on an event loop of its own, and its worker's slots may be  *)
(* held by calls of other loops: to wait for one is then an error that     *)
(* nobody here expects, or                                                 *)
CallBreaks ==
  /\ (stage = "call" /\ ~Blocked) \/ stage = "verify"
  /\ Finish("crash")
  /\ UNCHANGED <<planning, progress, stepping>>

(* it has no timeout, and a release on another loop does not end it.       *)
Waits ==
  /\ stage \in {"ask", "repair", "verify"} \/ (stage = "call" /\ ~Blocked)
  /\ stage' = "hung"
  /\ UNCHANGED <<planning, progress, stepping, outcome>>

(* Mutant: the rejection is forgotten.                                     *)
RejectQuietly ==
  /\ stage = "verify"
  /\ out' = [out EXCEPT !.verdict = "reject"]
  /\ accepted' = FALSE
  /\ stage' = "store"
  /\ UNCHANGED <<planning, progress, cand, repair, repaired, asked, outcome>>

(* Mutant: the same worker is asked for ever.                              *)
RejectForever ==
  /\ stage = "verify"
  /\ out' = [out EXCEPT !.verdict = "reject"]
  /\ accepted' = FALSE /\ repaired' = TRUE
  /\ stage' = "call"
  /\ UNCHANGED <<planning, progress, cand, repair, asked, outcome>>

(* Rejected, or undecided: the worker is asked again, then another one;    *)
(* after the last the rejected output is what there is.                    *)
Reject ==
  /\ stage = "verify"
  /\ out' = [out EXCEPT !.verdict = "reject"]
  /\ accepted' = FALSE /\ repaired' = TRUE
  /\ \/ /\ repair < MaxRepairs
        /\ stage' = "call" /\ repair' = repair + 1 /\ UNCHANGED cand
     \/ /\ repair = MaxRepairs /\ cand < Len(Ranked)
        /\ stage' = "call" /\ repair' = 0 /\ cand' = cand + 1
     \/ /\ repair = MaxRepairs /\ cand = Len(Ranked)
        /\ stage' = "store" /\ UNCHANGED <<cand, repair>>
  /\ UNCHANGED <<planning, progress, asked, outcome>>

VerifierFails ==
  /\ stage = "verify"
  /\ out' = Nothing
  /\ GiveUp
  /\ UNCHANGED <<planning, progress, accepted, repaired, asked>>

(* An output that was never accepted is marked, which also changes its     *)
(* words.                                                                  *)
Kept == LET marked == repaired /\ ~accepted
        IN [size |-> out.size, echo |-> out.echo /\ ~marked, verdict |-> out.verdict,
            marked |-> marked]

Remembered == [j \in DOMAIN memory \union {at} |-> IF j = at THEN Kept ELSE memory[j]]

Proceed ==
  /\ at' = at + 1
  /\ IF at = Len(flow) THEN Finish("answer") ELSE stage' = "begin" /\ UNCHANGED outcome

(* Mutant: what was not accepted is not remembered.                        *)
StoreAccepted ==
  /\ stage = "store"
  /\ memory' = IF accepted THEN Remembered ELSE memory
  /\ spent' = spent + StepIn
  /\ Proceed
  /\ UNCHANGED <<planning, stepping>>

Store ==
  /\ stage = "store"
  /\ memory' = Remembered
  /\ spent' = spent + StepIn
  /\ Proceed
  /\ UNCHANGED <<planning, stepping>>

(* The file or data base of outputs fails, and with it the query.          *)
StoreFails ==
  /\ stage = "store" /\ Lasting
  /\ Finish("crash")
  /\ UNCHANGED <<planning, progress, stepping>>

Planning == Classify \/ Unreadable \/ Unplanned \/ \E d \in Drafts : Decompose(d) \/ Repair(d)
Execution ==
  \/ Begin \/ CallRefused \/ CallFails \/ \E s \in Sizes, e \in BOOLEAN : CallAnswers(s, e)
  \/ CallBreaks \/ Accept \/ Reject \/ VerifierFails \/ Store \/ StoreFails
Next == Planning \/ Execution \/ Waits

Spec == Init /\ [][Next]_vars
(* The thread of the query goes on unless it hangs: a call that has its    *)
(* slot has a timeout, and a wait for the slot that does not end is Waits. *)
FairSpec == Spec /\ WF_vars(Next)

-----------------------------------------------------------------------------
(* Properties *)

(* Types.                                                                  *)
TypeOK ==
  /\ stage \in {"classify", "ask", "repair", "begin", "call", "verify", "store", "done",
               "hung"}
  /\ tries \in 0..Retries /\ degraded \in BOOLEAN
  /\ at \in 1..(Len(flow) + 1) /\ spent \in Nat
  /\ cand \in 1..Len(ByPool) /\ repair \in 0..MaxRepairs
  /\ accepted \in BOOLEAN /\ repaired \in BOOLEAN /\ asked \subseteq Pool
  /\ outcome \in {"none", "answer", "budget", "unplanned", "error", "crash"}

(* Whatever the model drafts, what is executed is either a workflow that   *)
(* has passed the audit after it was last changed, or one direct step;     *)
(* that is a fallback only once every attempt has failed.                  *)
PlansSound ==
  /\ stage \in {"begin", "call", "verify", "store"} =>
       \/ ValidForPool(flow) /\ Audited(flow)
       \/ \E w \in {Orchestrator, ByPool[1]} \ {NoWorker} : flow = Single(w)
  /\ degraded <=> tries = 0

(* A step finds everything it may read, although steps are rejected, done  *)
(* by others, or done badly.                                               *)
RefsResolved == stage \in {"call", "verify", "store"} => Step.reads \subseteq DOMAIN memory

(* An output is marked as repaired exactly if the verifier's last word on  *)
(* it was no.                                                              *)
MarkedRejected ==
  Verifying => \A j \in DOMAIN memory :
                 IF memory[j].marked THEN memory[j].verdict = "reject"
                                     ELSE memory[j].verdict = "accept"

(* The input of the steps done never exceeds the budget, and an answer is  *)
(* the output of a complete workflow.                                      *)
WithinBudget ==
  /\ Budget > 0 => spent <= Budget
  /\ outcome = "answer" => flow # <<>> /\ DOMAIN memory = 1..Len(flow)

(* What is checked of the accounts: their types and the budget.            *)
AccountsSound == TypeOK /\ WithinBudget

(* A query whose execution fails has been sent to every worker of the pool *)
(* although calls and verdicts fail in between; unless what it asks for is *)
(* refused, and then it has been sent to nobody.                           *)
TriedAll == outcome = "error" => asked = IF Blocked THEN {} ELSE Pool

(* Every query ends, whatever is rejected and repaired, unless it waits    *)
(* for a slot for ever.                                                    *)
Terminates == <>(outcome # "none" \/ stage = "hung")
=============================================================================

------------------------------- MODULE StepPlan -------------------------------
(***************************************************************************)
(* The older way to answer a query (POST /api/plan), its planning half: a  *)
(* workflow is a sequence of steps, each for one worker and with a list of *)
(* the earlier outputs it may read.  These are the checks and repairs the  *)
(* engine applies to what its model drafted (src/routism/engine.py,        *)
(* src/routism/schema.py).                                                 *)
(*                                                                         *)
(* Steps are numbered from 1.  Of a subtask only what its words make the   *)
(* engine do is kept: "prior" if it speaks of previous steps, "check" and  *)
(* "combine" if it looks like one, "echo" if an output may repeat it.      *)
(***************************************************************************)
EXTENDS Integers, Sequences, FiniteSets

CONSTANTS
  Pool,      \* the ids of the workers
  ByPool,    \* the workers in the order of the pool
  Tagged     \* Tagged[role]: the workers that carry the role as a tag

ASSUME PoolAssumption ==
  /\ Pool # {} /\ ByPool \in Seq(Pool) /\ Len(ByPool) > 0
  /\ \A w \in Pool : \E i \in 1..Len(ByPool) : ByPool[i] = w
  /\ \A role \in {"worker", "verifier", "synthesizer"} : Tagged[role] \subseteq Pool

Roles == {"worker", "verifier", "synthesizer"}
Words == {"plain", "prior", "check", "combine", "echo"}

(* A workflow of one direct step, for a trivial query or when planning has *)
(* failed.                                                                 *)
Single(w) == <<[worker |-> w, reads |-> {}, scoped |-> FALSE, words |-> "plain"]>>

(* Toolbox.assign_roles: whatever role the model proposed.                 *)
RoleOf(flow, i) == CASE i = Len(flow) /\ flow[i].words = "combine" -> "synthesizer"
                     [] flow[i].words = "check" -> "verifier"
                     [] OTHER -> "worker"

(* _pick_by_role: the first worker with the tag, else the first worker.    *)
PickByRole(role) ==
  LET tagged == {i \in 1..Len(ByPool) : ByPool[i] \in Tagged[role]}
  IN IF tagged = {} THEN ByPool[1] ELSE ByPool[CHOOSE i \in tagged : \A j \in tagged : i <= j]

(* Toolbox.select_workers: steps for workers that do not exist are routed. *)
SelectWorkers(flow) ==
  [i \in 1..Len(flow) |->
    IF flow[i].worker \in Pool THEN flow[i]
    ELSE [flow[i] EXCEPT !.worker = PickByRole(RoleOf(flow, i))]]

(* Workflow.validate_against_pool                                          *)
ValidForPool(flow) ==
  \A i \in 1..Len(flow) : flow[i].worker \in Pool /\ \A j \in flow[i].reads : j < i

(* _audit_workflow finds nothing: the first step reads nothing and does    *)
(* not speak of others, all references are to earlier steps of this query, *)
(* the last of several steps reads something, and a plan of more than two  *)
(* steps is not all for one worker.                                        *)
Audited(flow) ==
  LET n == Len(flow)
  IN /\ n > 0
     /\ flow[1].reads = {} /\ flow[1].words # "prior"
     /\ \A i \in 1..n : ~flow[i].scoped /\ \A j \in flow[i].reads : j < i
     /\ n > 1 => flow[n].reads # {}
     /\ n > 2 => \E i \in 1..n : flow[i].worker # flow[1].worker
=============================================================================

---------------------------- MODULE RunProtocol ----------------------------
(***************************************************************************)
(* What a client of POST /v1/run may rely on: the events of one server-    *)
(* sent stream, in the order they go over the wire.  The first is the one  *)
(* meta event (or an error); progress follows in an order the page can     *)
(* draw; at most one done or error ends the stream and nothing comes       *)
(* after it.  A stream may also just stop: the client went away.           *)
(***************************************************************************)
EXTENDS Naturals, Sequences

CONSTANTS
  Workers,   \* every worker id
  NoWorker   \* an event that is about no worker

(* The event kinds the page routes, and the internal synthesis_prep.       *)
Kinds == {"meta", "conductor_plan", "fan_out", "dag_layer_start", "step",
          "scores", "k_sample_pick", "replan", "dag_layer_complete",
          "synthesis_prep", "synthesis", "done", "error"}

(* What degraded_reason of a meta or done event says.                      *)
Reasons == {"none", "no_workers", "engine_unavailable", "fallback_pick",
            "worker_failed", "engine_offline"}

Event ==
  [kind : Kinds, worker : {NoWorker}, degraded : {FALSE}, reason : {"none"}]
    \union [kind : {"step"}, worker : Workers, degraded : {FALSE}, reason : {"none"}]
    \union [kind : {"meta", "done"}, worker : {NoWorker}, degraded : BOOLEAN, reason : Reasons]

VARIABLE wire  \* the events sent so far

Sent(k) == \E i \in 1..Len(wire) : wire[i].kind = k

Closed == Sent("done") \/ Sent("error")

(* A layer has started and has not been reported complete.                 *)
InLayer ==
  \E i \in 1..Len(wire) :
    /\ wire[i].kind = "dag_layer_start"
    /\ \A j \in i..Len(wire) : wire[j].kind # "dag_layer_complete"

(* The run was announced as healthy.                                       *)
Healthy == Sent("meta") /\ wire[1].kind = "meta" /\ ~wire[1].degraded

Send(e) == wire' = Append(wire, e)

-----------------------------------------------------------------------------
Init == wire = <<>>

(* meta: first, and only once.                                             *)
Announce(e) ==
  /\ wire = <<>>
  /\ e.kind = "meta"
  /\ e.degraded <=> e.reason # "none"
  /\ Send(e)

(* Progress: the plan right after meta; workers report after the fan-out   *)
(* was announced; scores are for steps that were reported; layers do not   *)
(* overlap; a replan belongs to a layer; the merge comes last.             *)
Advance(e) ==
  /\ wire # <<>> /\ ~Closed /\ ~Sent("synthesis")
  /\ e.kind \notin {"meta", "done", "error"}
  /\ e.kind = "conductor_plan" => Len(wire) = 1
  /\ e.kind = "fan_out" => ~Sent("fan_out")
  /\ e.kind = "step" => Sent("fan_out")
  /\ e.kind \in {"scores", "k_sample_pick"} => Sent("step")
  /\ e.kind = "dag_layer_start" => Sent("conductor_plan") /\ Sent("fan_out") /\ ~InLayer
  /\ e.kind \in {"dag_layer_complete", "replan"} => InLayer
  /\ e.kind = "synthesis" => Sent("scores") /\ ~InLayer
  /\ Send(e)

(* done: an answer that was merged, or one marked as degraded.  A run that *)
(* was announced as healthy never turns up with a degraded_reason.         *)
Finish(e) ==
  /\ wire # <<>> /\ ~Closed /\ ~InLayer
  /\ e.kind = "done"
  /\ ~e.degraded <=> Sent("synthesis")
  /\ Healthy => e.reason = "none"
  /\ Send(e)

Abort(e) ==
  /\ ~Closed
  /\ e.kind = "error"
  /\ Send(e)

Next == \E e \in Event : Announce(e) \/ Advance(e) \/ Finish(e) \/ Abort(e)

Spec == Init /\ [][Next]_wire
=============================================================================

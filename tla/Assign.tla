------------------------------- MODULE Assign -------------------------------
(***************************************************************************)
(* Who does which step (src/routism_orch/assign.py, and the assignment     *)
(* half of conductor.py).                                                  *)
(*                                                                         *)
(* A worker's score for a step is its merit, which stands for tag overlap, *)
(* learned wins and latency, less a share for its load.  Merits are in     *)
(* tenths, as the code's weights are; a score is kept multiplied by the    *)
(* largest load so that it stays a whole number.  Health weighs the same   *)
(* for all workers that are compared, so it only decides who is compared.  *)
(***************************************************************************)
EXTENDS Integers, Sequences, FiniteSets, SequencesExt, Positions

CONSTANTS
  Workers,   \* the pool
  ById       \* its workers in the order of their ids

ASSUME WorkerAssumption ==
  IsFiniteSet(Workers) /\ Workers # {} /\ ById \in Seq(Workers) /\ ToSet(ById) = Workers

LoadWeight == 3   \* epsilon
Band == 4         \* CONDUCTOR_QUALITY_BAND

Index(w) == CHOOSE i \in 1..Len(ById) : ById[i] = w
Nobody == [w \in Workers |-> 0]

(* Mutant: ill workers are ranked with the others.                         *)
EligibleAll(cands, health) == cands

(* rank_workers: unhealthy workers only when there is no healthy one.      *)
Eligible(cands, health) == IF cands \intersect health = {} THEN cands ELSE cands \intersect health

(* score_worker and _load_factor *)
Most(usage) == Max({1} \union {usage[v] : v \in Workers})
Score(w, merit, usage) == merit[w] * Most(usage) - LoadWeight * usage[w]

(* The least used of the workers in S, then the best, then the first.      *)
Better(usage, score, w, v) ==
  \/ usage[w] < usage[v]
  \/ usage[w] = usage[v] /\ score[w] > score[v]
  \/ usage[w] = usage[v] /\ score[w] = score[v] /\ Index(w) < Index(v)
Foremost(S, usage, score) == CHOOSE w \in S : \A v \in S \ {w} : Better(usage, score, w, v)

(* One of the band is picked, preferably one who has not had a share.      *)
Pick(acc, band, score, share) ==
  LET left == band \ ToSet(acc.picks)
      under == {w \in left : acc.usage[w] < share}
      w == Foremost(IF under = {} THEN left ELSE under, acc.usage, score)
  IN IF left = {} THEN acc
     ELSE [picks |-> Append(acc.picks, w), usage |-> [acc.usage EXCEPT ![w] = @ + 1]]

(* The workers in S whose scores come near the best one.                   *)
InBand(S, score, usage) == {w \in S : score[w] >= Max({score[v] : v \in S}) - Band * Most(usage)}

(* assign_k: of the workers within the band of the best one, k times the   *)
(* least used, preferring those that have not had their share of the plan. *)
AssignK(cands, k, merit, health, usage, size) ==
  LET eligible == Eligible(cands, health)
      score == [w \in Workers |-> Score(w, merit, usage)]
      band == InBand(eligible, score, usage)
      share == Max({1, size \div 2})
  IN FoldLeft(LAMBDA acc, i : Pick(acc, band, score, share), [picks |-> <<>>, usage |-> usage],
              IF eligible = {} THEN <<>> ELSE [i \in 1..k |-> i])

(* apply_critical_validation: the first two steps in topological order of  *)
(* those marked critical stay so; a plan of several layers has at least    *)
(* its last step.                                                          *)
CriticalValidated(ns, order, layered) ==
  LET marked == Select(order, {p \in 1..Len(order) :
                                 \E i \in 1..Len(ns) : ns[i].id = order[p] /\ ns[i].critical})
      kept == IF layered /\ marked = <<>> THEN {order[Len(order)]}
              ELSE ToSet(SubSeq(marked, 1, Min({2, Len(marked)})))
  IN [i \in 1..Len(ns) |-> [ns[i] EXCEPT !.critical = ns[i].id \in kept]]

(* A test step avoids workers without the code tag if two have it.         *)
Candidates(testing, coders) == IF testing /\ Cardinality(coders) >= 2 THEN coders ELSE Workers

Lead(team, id) == IF team[id] = <<>> THEN {} ELSE {Head(team[id])}

(* Those a verifying step should not be judged by: everybody who was given *)
(* a step it depends on; without such a step, the lead of any producer.    *)
Judged(ns, i, team) ==
  LET on == {j \in 1..Len(ns) : ns[j].id \in ns[i].deps /\ ns[j].role \in {"produce", "critique"}}
      made == UNION {ToSet(team[ns[j].id]) : j \in on}
      leads == UNION {Lead(team, ns[j].id) : j \in {j \in (1..Len(ns)) \ {i} : ns[j].role = "produce"}}
  IN IF made = {} THEN leads ELSE made

(* Those who may lead instead, and the one of them who does: the one with  *)
(* most of the step's tags, then the first.                                *)
Others(judged, lead) == IF Workers \ judged # {} THEN Workers \ judged ELSE Workers \ lead
FirstOf(S, overlap) ==
  CHOOSE w \in S : \A v \in S \ {w} : \/ overlap[w] > overlap[v]
                                      \/ overlap[w] = overlap[v] /\ Index(w) < Index(v)

(* _prefer_distinct_verify_workers for step i: another worker leads, the   *)
(* old ones stay on the team.                                              *)
VerifyApart(ns, i, team, overlap) ==
  LET id == ns[i].id
      lead == Lead(team, id)
      judged == Judged(ns, i, team)
      others == Others(judged, lead)
      first == FirstOf(others, overlap)
      rest == Select(team[id], {k \in 1..Len(team[id]) : team[id][k] # first})
  IN IF ns[i].role # "verify" \/ (lead # {} /\ lead \intersect judged = {}) \/ others = {} THEN team
     ELSE [team EXCEPT ![id] = <<first>> \o rest]
=============================================================================

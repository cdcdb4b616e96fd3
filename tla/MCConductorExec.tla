-------------------------- MODULE MCConductorExec --------------------------
(* A small instance of ConductorExec: three nodes, two workers.            *)
EXTENDS ConductorExec, TLC
CONSTANTS n1, n2, n3, w1, w2

Plan(rank, deps, critical, picks, lead) ==
  [depth |-> Max({rank[n] : n \in DOMAIN rank}), rank |-> rank, deps |-> deps,
   critical |-> critical, picks |-> picks, lead |-> lead]

(* n1 feeds two steps of the next layer; n3 is critical and k-sampled, n2  *)
(* was left unassigned by the planner.                                     *)
Fork == Plan(n1 :> 1 @@ n2 :> 2 @@ n3 :> 2,
             n1 :> {} @@ n2 :> {n1} @@ n3 :> {n1}, {n3},
             n1 :> {w1} @@ n2 :> {} @@ n3 :> {w1, w2},
             n1 :> w1 @@ n2 :> NoWorker @@ n3 :> w2)

(* Two roots, one of them critical, joined by a last step.                 *)
Join == Plan(n1 :> 1 @@ n2 :> 1 @@ n3 :> 2,
             n1 :> {} @@ n2 :> {} @@ n3 :> {n1, n2}, {n1},
             n1 :> {w1} @@ n2 :> {w2} @@ n3 :> {w1},
             n1 :> w1 @@ n2 :> w2 @@ n3 :> w1)
MCPlans == {Fork, Join}

(* Two nodes: a chain whose last step is critical and k-sampled, and the   *)
(* same steps in a plan whose layers do not name the second one.           *)
Chain == Plan(n1 :> 1 @@ n2 :> 2, n1 :> {} @@ n2 :> {n1}, {n2},
              n1 :> {} @@ n2 :> {w1, w2}, n1 :> NoWorker @@ n2 :> w1)
Unlayered == [Chain EXCEPT !.rank = n1 :> 1 @@ n2 :> 0, !.depth = 1]
ChainPlans == {Chain, Unlayered}
=============================================================================

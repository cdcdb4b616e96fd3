------------------------------- MODULE PlanDag -------------------------------
(***************************************************************************)
(* What the planner does to the graph of steps an engine model has drafted *)
(* (src/routism_orch/conductor.py): read it, merge and cap it, add the     *)
(* dependencies it lacks, and lay it out in layers.                        *)
(*                                                                         *)
(* A step is a record; a plan is a sequence of steps, whose order matters  *)
(* to every pass.  Of a step's prompt only what the passes read off it is  *)
(* kept: its kind, the kind that the prompt of a run of fragments has when *)
(* they are joined under this step, whether it is short or a list item,    *)
(* whether it refers to something before it, and which of the words that   *)
(* later passes look for it says.                                          *)
(***************************************************************************)
EXTENDS Integers, Sequences, FiniteSets, SequencesExt, Positions

CONSTANTS
  MaxSteps,  \* _MAX_PLAN_SUBTASKS
  Tags       \* capability tags

ASSUME MaxStepsAssumption == MaxSteps \in Nat \ {0}
ASSUME TagAssumption == IsFiniteSet(Tags) /\ {"code", "reasoning"} \subseteq Tags

Kinds == {"design", "implement", "test", "critique", "explain", "other"}
Roles == {"produce", "critique", "verify"}
Producing == {"design", "implement"}
Sayings == {"implement", "handler", "test", "unit", "unit test"}

(* What the engine's answer is read as; ok is the lack of a defect that    *)
(* has it skipped, headed that its work order will name its kind.          *)
Item == [id : Nat \ {0}, ok : BOOLEAN, kind : Kinds, joint : Kinds, role : Roles,
         item : BOOLEAN, short : BOOLEAN, refers : BOOLEAN, headed : BOOLEAN,
         says : SUBSET Sayings, tags : SUBSET Tags,
         critical : BOOLEAN, deps : SUBSET (Nat \ {0})]

(* _ROLE_RANK *)
Rank(kind) == CASE kind = "design" -> 0
                [] kind \in {"implement", "other"} -> 1
                [] kind \in {"test", "critique"} -> 2
                [] kind = "explain" -> 3

IdsOf(ns) == {ns[i].id : i \in 1..Len(ns)}
WithDeps(ns, D(_)) == [i \in 1..Len(ns) |-> [ns[i] EXCEPT !.deps = D(i)]]
NoDeps(ns) == WithDeps(ns, LAMBDA i : {})

(* Dependencies on steps that are not there, and on oneself, are dropped.  *)
Linked(ns) == WithDeps(ns, LAMBDA i : (ns[i].deps \intersect IdsOf(ns)) \ {ns[i].id})

-----------------------------------------------------------------------------
(* Kahn's algorithm with a first-in first-out queue: the positions of the  *)
(* steps in the order in which it reaches them; those on or behind a cycle *)
(* are missing.                                                            *)
PositionsOf(ns) == [i \in 1..Len(ns) |-> i]

(* The steps that are freed when u is out, the last of out.                *)
Freed(ns, queue, out, u) ==
  {v \in (1..Len(ns)) \ (ToSet(queue) \union ToSet(out)) :
     ns[u].id \in ns[v].deps /\ ns[v].deps \subseteq {ns[j].id : j \in ToSet(out)}}

Pop(ns, s) ==
  LET u == Head(s.queue)
      out == Append(s.out, u)
  IN IF s.queue = <<>> THEN s
     ELSE [queue |-> Tail(s.queue) \o InOrder(Freed(ns, s.queue, out, u)), out |-> out]

Kahn(ns) ==
  FoldLeft(LAMBDA s, k : Pop(ns, s),
           [queue |-> InOrder({i \in 1..Len(ns) : ns[i].deps = {}}), out |-> <<>>],
           PositionsOf(ns)).out

(* Mutant: a cycle goes unnoticed; what Kahn reached is the plan.          *)
SortedPart(ns) == LET order == Kahn(ns) IN [i \in 1..Len(order) |-> ns[order[i]]]

(* The steps in topological order; on a cycle all dependencies go.         *)
Sorted(ns) ==
  LET order == Kahn(ns)
  IN IF Len(order) = Len(ns) THEN [i \in 1..Len(ns) |-> ns[order[i]]] ELSE NoDeps(ns)

(* _validate_dag: malformed items and repeated ids are skipped.  A         *)
(* dependency may name a step that comes later.                            *)
Take(ns, item) == IF item.ok /\ item.id \notin IdsOf(ns) THEN Append(ns, item) ELSE ns
Taken(draft) == FoldLeft(Take, <<>>, draft)
Validate(draft) == Sorted(Linked(Taken(draft)))

(* _build_layers: each layer is a sequence of ids.  LayerSteps is the      *)
(* plan's steps afterwards: on a cycle they lose their dependencies.       *)
LayerSteps(ns) == LET ls == Linked(ns) IN IF Len(Kahn(ls)) = Len(ls) THEN ls ELSE NoDeps(ls)

(* Mutant: a step comes after the first of those it depends on.            *)
AfterFirst(below) == IF below = {} THEN 1 ELSE Min(below) + 1

(* The layer of a step whose dependencies are in the layers of below.      *)
After(below) == IF below = {} THEN 1 ELSE Max(below) + 1

Place(ls, level, u) ==
  [level EXCEPT ![u] = After({level[j] : j \in {j \in 1..Len(ls) : ls[j].id \in ls[u].deps}})]

(* The layers of the steps, in topological order; 0 for no layer yet.      *)
Levels(ls) == FoldLeft(LAMBDA level, u : Place(ls, level, u), [i \in 1..Len(ls) |-> 0], Kahn(ls))

Layers(ns) ==
  LET ls == LayerSteps(ns)
      order == Kahn(ls)
      level == Levels(ls)
      in(l) == Select(order, {p \in 1..Len(order) : level[order[p]] = l})
  IN [l \in 1..Max({level[i] : i \in 1..Len(ls)}) |-> [p \in 1..Len(in(l)) |-> ls[in(l)[p]].id]]

-----------------------------------------------------------------------------
(* Structural repair *)

(* merge_fragment_subtasks: a list item, or a short test step on its own.  *)
Fragment(s) == s.item \/ (s.kind = "test" /\ s.short /\ s.deps = {})

(* A run of fragments becomes one step with the id and the dependencies of *)
(* the first; its kind is that of the joint prompt, "code" is its tag if   *)
(* they had none, and it is critical if one of them was.                   *)
Heads(ns) == {i \in 1..Len(ns) : ~Fragment(ns[i]) \/ i = 1 \/ ~Fragment(ns[i - 1])}
Joined(ns, i) ==
  LET run == {j \in i..Len(ns) : \A k \in i..j : Fragment(ns[k])}
      tags == UNION {ns[j].tags : j \in run}
  IN IF Cardinality(run) < 2 THEN ns[i]
     ELSE [ns[i] EXCEPT !.kind = ns[i].joint, !.item = FALSE, !.short = FALSE, !.role = "produce",
                        !.critical = \E j \in run : ns[j].critical,
                        !.refers = \E j \in run : ns[j].refers,
                        !.says = UNION {ns[j].says : j \in run},
                        !.tags = IF tags = {} THEN {"code"} ELSE tags]
Merged(ns) == [h \in 1..Cardinality(Heads(ns)) |-> Joined(ns, InOrder(Heads(ns))[h])]

(* Dependencies on the fragments that are gone are dropped.                *)
Merge(ns) == IF Len(ns) < 2 THEN ns ELSE Linked(Merged(ns))

(* cap_subtasks *)
Cap(ns) == IF Len(ns) <= MaxSteps THEN ns ELSE Linked(SubSeq(ns, 1, MaxSteps))

(* The nearest of the steps at positions P that comes before i; if none    *)
(* does, the first of them, although it comes later.                       *)
Nearest(P, i) == LET before == {p \in P : p < i} IN IF before = {} THEN Min(P) ELSE Max(before)

(* A step that needs one of the steps at positions P and has none of them  *)
(* gets the nearest.                                                       *)
Needing(ns, i, deps, P) ==
  IF P = {} \/ deps \intersect {ns[p].id : p \in P} # {} THEN deps
  ELSE deps \union {ns[Nearest(P, i)].id}

(* infer_dependencies, the edges of one step.                              *)
Inferred(ns, i) ==
  LET s == ns[i]
      others(kinds) == {j \in (1..Len(ns)) \ {i} : ns[j].kind \in kinds}
      meant == {ns[j].id : j \in {j \in 1..(i - 1) : \/ ns[j].kind \in Producing
                                                     \/ Rank(ns[j].kind) < Rank(s.kind)}}
      told == IF s.refers THEN s.deps \union meant ELSE s.deps
  IN CASE s.kind \in {"test", "critique", "explain"} -> Needing(ns, i, told, others(Producing))
       [] s.kind = "implement" -> Needing(ns, i, told, others({"design"}))
       [] OTHER -> told

(* Without any edge so far, every rank waits for the last step of the rank *)
(* before it.                                                              *)
Chained(ns) ==
  LET rank(i) == Rank(ns[i].kind)
      lower(i) == {j \in 1..Len(ns) : rank(j) < rank(i)}
      last(i) == Max({j \in lower(i) : \A k \in lower(i) : rank(k) <= rank(j)})
  IN WithDeps(ns, LAMBDA i : IF lower(i) = {} THEN {} ELSE {ns[last(i)].id})

(* Mutant: what is inferred replaces what was declared.                    *)
InferAnew(ns) ==
  LET linked == WithDeps(ns, LAMBDA i : Inferred(NoDeps(ns), i))
  IN IF Len(ns) < 2 THEN ns
     ELSE IF \A i \in 1..Len(ns) : linked[i].deps = {} THEN Chained(ns) ELSE linked

Infer(ns) ==
  LET linked == WithDeps(ns, LAMBDA i : Inferred(ns, i))
  IN IF Len(ns) < 2 THEN ns
     ELSE IF \A i \in 1..Len(ns) : linked[i].deps = {} THEN Chained(ns) ELSE linked

StructuralRepair(ns) == Infer(Cap(Merge(ns)))

(* plan_structure_issues: is there any?                                    *)
HasIssues(ns) ==
  LET kinds == {ns[i].kind : i \in 1..Len(ns)}
      flat == \A i \in 1..Len(ns) : ns[i].deps = {}
      made == {ns[i].id : i \in {i \in 1..Len(ns) : ns[i].kind = "implement"}}
  IN \/ Len(ns) > MaxSteps
     \/ Cardinality({i \in 1..Len(ns) : ns[i].item}) >= 2
     \/ flat /\ Len(ns) >= 3 /\ Cardinality(kinds) >= 2
     \/ flat /\ Len(ns) >= 4
     \/ /\ made # {}
        /\ \E i \in 1..Len(ns) : ns[i].kind \in {"test", "explain"} /\ ns[i].deps \intersect made = {}
=============================================================================

------------------------------- MODULE Planner -------------------------------
(***************************************************************************)
(* How a query becomes a plan: the engine model drafts a graph of steps,   *)
(* the planner repairs it, lays it out and assigns workers, and falls back *)
(* to a plan of its own whenever the engine gives it nothing to work with. *)
(* Later, while the plan runs, the executor may have one step re-assigned. *)
(* The engine may answer anything, or nothing.                             *)
(***************************************************************************)
EXTENDS PlanDag, Assign

CONSTANTS
  Queries,    \* what is asked: [says, front, brief, kind, parts, joint, serial],
              \*   see Says and Heuristic
  Pools,      \* the state of the pool: [health, tags, merit]
  Drafts,     \* what the engine may answer to a query
  Rewrites    \* what it may answer to a plan it is shown as faulty

ASSUME PlannerAssumption ==
  /\ Drafts \union Rewrites \subseteq Seq(Item)
  /\ \A q \in Queries : /\ q.says \subseteq Sayings /\ q.front \subseteq q.says
                        /\ q.brief \in BOOLEAN /\ q.serial \in BOOLEAN
                        /\ q.parts \in Seq(Kinds) /\ {q.kind, q.joint} \subseteq Kinds
  /\ \A p \in Pools : /\ p.health \subseteq Workers /\ p.tags \in [Workers -> SUBSET Tags]
                      /\ p.merit \in [SUBSET Tags -> [Workers -> Int]]

VARIABLES
  stage,    \* how far the plan is
  query,
  pool,
  draft,    \* the engine's answer
  nodes,    \* the plan's steps
  layers,
  team,     \* the workers of each step, the lead first
  banned    \* workers the executor will not have again

vars == <<stage, query, pool, draft, nodes, layers, team, banned>>

(* craft_work_order puts the kind of the step, then the whole query, then  *)
(* the step's own prompt into each work order; one that is only wrapped    *)
(* does without the kind.  What is found in all of it, and in its first    *)
(* 240 characters: these hold the beginning of the query (front), and all  *)
(* of a brief one.                                                         *)
Heading(s) == IF s.headed THEN {s.kind} ELSE {}
Says(s) == Heading(s) \union query.says \union s.says
SaysFirst(s) == Heading(s) \union query.front \union IF query.brief THEN s.says ELSE {}

(* Whether a step is about code or about tests, and who can write code.    *)
Coding(s) == "unit test" \in Says(s) \/ SaysFirst(s) \intersect {"implement", "handler"} # {}
Testing(s) == Says(s) \intersect {"test", "unit", "unit test"} # {}
Coders == {w \in Workers : "code" \in pool.tags[w]}

(* A step about code gets the tags for it.                                 *)
TagsOf(s) == IF Coding(s) THEN s.tags \union {"code", "reasoning"} ELSE s.tags
MeritFor(s) == pool.merit[TagsOf(s)]
Overlap(s) == [w \in Workers |-> Cardinality(TagsOf(s) \intersect pool.tags[w])]

Blank == [id |-> 1, ok |-> TRUE, kind |-> "other", joint |-> "other", role |-> "produce",
          item |-> FALSE, short |-> FALSE, refers |-> FALSE, headed |-> TRUE,
          says |-> {}, tags |-> {"reasoning"}, critical |-> FALSE, deps |-> {}]

-----------------------------------------------------------------------------
Init ==
  /\ stage = "ask"
  /\ query \in Queries
  /\ pool \in Pools
  /\ draft = <<>> /\ nodes = <<>> /\ layers = <<>> /\ team = <<>>
  /\ banned = {}

(* plan_dag asks the engine; garbage is an empty draft, and so is an error *)
(* once _ensure_conductor_plan has caught it.                              *)
Think ==
  /\ stage = "ask"
  /\ draft' \in Drafts \union {<<>>}
  /\ stage' = "drafted"
  /\ UNCHANGED <<query, pool, nodes, layers, team, banned>>

Read ==
  /\ stage = "drafted"
  /\ nodes' = Validate(draft)
  /\ stage' = IF nodes' = <<>> THEN "empty" ELSE "valid"
  /\ UNCHANGED <<query, pool, draft, layers, team, banned>>

(* structural_repair                                                       *)
Repair ==
  /\ stage = "valid"
  /\ nodes' = StructuralRepair(nodes)
  /\ stage' = IF HasIssues(nodes') THEN "faulty" ELSE "sound"
  /\ UNCHANGED <<query, pool, draft, layers, team, banned>>

(* llm_repair_plan: the engine is asked once more.  Its answer is repaired *)
(* in turn, but not judged again; without one the faulty plan is used.     *)
Rewrite ==
  /\ stage = "faulty"
  /\ \E d \in Rewrites \union {<<>>} :
       LET fixed == Validate(d)
       IN IF fixed = <<>> THEN UNCHANGED <<nodes, draft>>
          ELSE nodes' = StructuralRepair(fixed) /\ draft' = d
  /\ stage' = "sound"
  /\ UNCHANGED <<query, pool, layers, team, banned>>

(* heuristic_plan: one step for each part the query itself spells out, in  *)
(* a row if its words say so.  single_task_plan: the query is the step.    *)
(* The work order of a long one is only wrapped.                           *)
Heuristic ==
  /\ stage = "empty"
  /\ LET part(i) == [Blank EXCEPT !.id = i, !.kind = query.parts[i], !.joint = query.joint,
                                  !.short = TRUE,
                                  !.deps = IF query.serial /\ i > 1 THEN {i - 1} ELSE {}]
         ns == Cap(Merge([i \in 1..Len(query.parts) |-> part(i)]))
         whole == [Blank EXCEPT !.kind = query.kind, !.headed = query.brief]
     IN nodes' = IF Len(query.parts) < 2 THEN <<whole>>
                 ELSE IF ~query.serial THEN ns
                 ELSE WithDeps(ns, LAMBDA i : IF i = 1 THEN {} ELSE {ns[i - 1].id})
  /\ stage' = "sound"
  /\ UNCHANGED <<query, pool, draft, layers, team, banned>>

(* Every step becomes a work order, see Says; finalize_plan lays the plan *)
(* out in layers.                                                          *)
Layer ==
  /\ stage = "sound"
  /\ nodes' = LayerSteps(nodes)
  /\ layers' = Layers(nodes)
  /\ stage' = "layered"
  /\ UNCHANGED <<query, pool, draft, team, banned>>

(* assign_workers_to_plan, its first half: steps that are about code are   *)
(* critical, whatever the engine said; then at most two of all.            *)
Marked ==
  LET coded == [i \in 1..Len(nodes) |->
                  [nodes[i] EXCEPT !.critical = @ \/ Coding(nodes[i])]]
  IN CriticalValidated(coded, FlattenSeq(layers), Len(layers) >= 2)

(* One step is given its team; usage is the load so far.                   *)
Team(s, usage, size) ==
  AssignK(Candidates(Testing(s), Coders), IF s.critical THEN 2 ELSE 1,
          MeritFor(s), pool.health, usage, size)
Given(team0, id, picks) == [x \in DOMAIN team0 \union {id} |-> IF x = id THEN picks ELSE team0[x]]
Undealt == [team |-> <<>>, usage |-> Nobody]

(* Mutant: every step is assigned as if it were the only one.              *)
DealAlone(acc, s, size) == [acc EXCEPT !.team = Given(@, s.id, Team(s, Nobody, size).picks)]

(* Its second half: each step in turn, sharing what they know of the load. *)
Deal(acc, s, size) ==
  LET dealt == Team(s, acc.usage, size)
  IN [team |-> Given(acc.team, s.id, dealt.picks), usage |-> dealt.usage]
Dealt(ns) == FoldLeft(LAMBDA acc, s : Deal(acc, s, Len(ns)), Undealt, ns)

(* Then the verifying steps, one after the other, get other leads.         *)
Move(ns, t, i) == VerifyApart(ns, i, t, Overlap(ns[i]))
Moved(ns) == FoldLeft(LAMBDA t, i : Move(ns, t, i), Dealt(ns).team, PositionsOf(ns))

(* Mutant: nobody is moved off a step in which they would judge their own. *)
AssignPlain ==
  /\ stage = "layered"
  /\ nodes' = Marked
  /\ team' = Dealt(Marked).team
  /\ stage' = "ready"
  /\ UNCHANGED <<query, pool, draft, layers, banned>>

AssignAll ==
  /\ stage = "layered"
  /\ nodes' = Marked
  /\ team' = Moved(Marked)
  /\ stage' = "ready"
  /\ UNCHANGED <<query, pool, draft, layers, banned>>

(* reassign_subtask_workers: another team for a step whose lead failed and *)
(* perhaps others, with the load of the rest of the plan as it stands.     *)
Reassign(i, ban) ==
  LET id == nodes[i].id
      cands == IF Workers \ ban = {} THEN Workers ELSE Workers \ ban
      load(w) == IF w \in cands
                 THEN Cardinality({j \in (1..Len(nodes)) \ {i} : w \in ToSet(team[nodes[j].id])})
                 ELSE 0
  IN /\ stage = "ready" /\ Lead(team, id) \subseteq ban
     /\ team' = [team EXCEPT ![id] = AssignK(cands, 1, MeritFor(nodes[i]), pool.health,
                                             [w \in Workers |-> load(w)], Len(nodes)).picks]
     /\ banned' = ban
     /\ stage' = "running"
     /\ UNCHANGED <<query, pool, draft, nodes, layers>>

Plan == Think \/ Read \/ Repair \/ Rewrite \/ Heuristic \/ Layer \/ AssignAll
Next == Plan \/ \E i \in 1..Len(nodes) : \E ban \in SUBSET Workers : Reassign(i, ban)

Spec == Init /\ [][Next]_vars

-----------------------------------------------------------------------------
(* Reference definitions *)

(* The steps that step a waits for, directly or not: the smallest set that *)
(* has what a depends on and, with a step, what that depends on.           *)
DepsOf(ns, a) == UNION {ns[i].deps : i \in {i \in 1..Len(ns) : ns[i].id = a}}
Behind(ns, a) ==
  {b \in IdsOf(ns) : \A S \in SUBSET IdsOf(ns) :
                       DepsOf(ns, a) \subseteq S /\ (\A c \in S : DepsOf(ns, c) \subseteq S) => b \in S}
Cyclic(ns) == \E a \in IdsOf(ns) : a \in Behind(ns, a)

(* The steps of a draft that can be used, and what they declare.           *)
Usable(d) == {i \in 1..Len(d) : d[i].ok /\ \A j \in 1..(i - 1) : d[j].ok => d[j].id # d[i].id}
Declared(d) == {e \in {d[i].id : i \in Usable(d)} \X {d[i].id : i \in Usable(d)} :
                  e[1] # e[2] /\ \E i \in Usable(d) : d[i].id = e[1] /\ e[2] \in d[i].deps}
Edges(ns) == UNION {{ns[i].id} \X ns[i].deps : i \in 1..Len(ns)}
LayerOf(id) == CHOOSE l \in 1..Len(layers) : id \in ToSet(layers[l])
StepOf(id) == CHOOSE i \in 1..Len(nodes) : nodes[i].id = id

-----------------------------------------------------------------------------
(* Properties *)

Planned == stage \in {"ready", "running"}

(* Types.                                                                  *)
TypeOK ==
  /\ stage \in {"ask", "drafted", "empty", "valid", "faulty", "sound", "layered", "ready", "running"}
  /\ query \in Queries /\ pool \in Pools
  /\ \A i \in 1..Len(nodes) : /\ nodes[i].kind \in Kinds /\ nodes[i].role \in Roles
                              /\ nodes[i].deps \subseteq IdsOf(nodes) \ {nodes[i].id}
  /\ Cardinality(IdsOf(nodes)) = Len(nodes)
  /\ \A id \in DOMAIN team : ToSet(team[id]) \subseteq Workers
  /\ banned \subseteq Workers

(* Reading a draft loses nothing usable: its usable steps are all there,   *)
(* in an order in which every step comes after those it depends on, with   *)
(* the dependencies it declared - unless they form a cycle.                *)
ReadsFaithfully ==
  stage = "valid" =>
    /\ IdsOf(nodes) = {draft[i].id : i \in Usable(draft)}
    /\ \A i, j \in 1..Len(nodes) : nodes[j].id \in nodes[i].deps => j < i
    /\ \/ Edges(nodes) = Declared(draft)
       \/ Edges(nodes) = {} /\ Cyclic(Linked([k \in 1..Len(draft) |->
            [draft[k] EXCEPT !.id = IF k \in Usable(draft) THEN @ ELSE 0,
                             !.deps = IF k \in Usable(draft) THEN @ ELSE {}]]))

(* The layers are a schedule: each step is in one of them, none is empty,  *)
(* and what a step depends on is in an earlier one.                        *)
LayersSchedule ==
  stage \in {"layered", "ready", "running"} =>
    /\ Len(FlattenSeq(layers)) = Len(nodes) /\ ToSet(FlattenSeq(layers)) = IdsOf(nodes)
    /\ \A l \in 1..Len(layers) : layers[l] # <<>>
    /\ \A e \in Edges(nodes) : LayerOf(e[2]) < LayerOf(e[1])

(* Repair may add to the order of the steps it keeps, and never takes any  *)
(* away: an edge between two steps that survive is still there.            *)
RepairAdds ==
  [][stage = "valid" /\ stage' # "valid" =>
       /\ IdsOf(nodes)' \subseteq IdsOf(nodes) /\ Len(nodes') <= MaxSteps
       /\ \A i \in 1..Len(nodes) : \A j \in 1..Len(nodes') :
            nodes[i].id = nodes'[j].id =>
              nodes[i].deps \intersect IdsOf(nodes') \subseteq nodes'[j].deps]_vars

(* At most two steps are done twice, and a plan of several layers has one  *)
(* that is, whatever the engine marked and whatever counts as code.        *)
CriticalFew ==
  Planned => LET crit == {i \in 1..Len(nodes) : nodes[i].critical}
             IN Cardinality(crit) <= 2 /\ (Len(layers) >= 2 => crit # {})

(* What is checked of a plan: its types, its schedule, its doubled steps.  *)
PlanSound == TypeOK /\ LayersSchedule /\ CriticalFew

(* A step that verifies others is not led by one of those who did them, if *)
(* there is anybody else.                                                  *)
JudgesApart ==
  stage = "ready" =>
    \A i \in 1..Len(nodes) : nodes[i].role = "verify" =>
      LET judged == Judged(nodes, i, team)
      IN Head(team[nodes[i].id]) \notin judged \/ judged = Workers

(* Every plan has steps, each of them with a team, for whatever the engine *)
(* says and also when nobody is well; and nobody who is ill gets a step    *)
(* while somebody who would do is well.  Verifying steps are exempt from   *)
(* that: they are moved without looking at health.                         *)
StaffedWell ==
  /\ Planned => nodes # <<>> /\ \A i \in 1..Len(nodes) : team[nodes[i].id] # <<>>
  /\ stage = "ready" =>
       \A i \in 1..Len(nodes) :
         nodes[i].role # "verify" /\ ~(ToSet(team[nodes[i].id]) \subseteq pool.health) =>
           Candidates(Testing(nodes[i]), Coders) \intersect pool.health = {}

(* Among equals the work is spread: no one has two assignments more than   *)
(* another, although loads weigh in the scores that decide who is equal.   *)
SpreadEvenly ==
  (/\ stage = "ready"
   /\ pool.health = Workers
   /\ \A w, v \in Workers, T \in SUBSET Tags : pool.merit[T][w] = pool.merit[T][v]
   /\ \A i \in 1..Len(nodes) : nodes[i].role # "verify"
   /\ \A i \in 1..Len(nodes) : Candidates(Testing(nodes[i]), Coders) = Workers)
  => LET load(w) == Cardinality({i \in 1..Len(nodes) : w \in ToSet(team[nodes[i].id])})
     IN \A w, v \in Workers : load(w) - load(v) <= 1
=============================================================================

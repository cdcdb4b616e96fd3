----------------------------- MODULE MCPlanner ------------------------------
(* Drafts of three steps: three choices of kinds over every graph, and all *)
(* kinds over three graphs, in five variants; and a few longer drafts.     *)
EXTENDS Planner, TLC
CONSTANTS w1, w2, w3

Order == <<w1, w2, w3>>
Step(i, kind, D) == [Blank EXCEPT !.id = i, !.kind = kind, !.deps = D]

Graphs3 == {d \in [1..3 -> SUBSET (1..3)] : \A i \in 1..3 : i \notin d[i]}
Drafted(k, d) == [i \in 1..3 |-> Step(i, k[i], d[i])]
SomeKinds == {<<"design", "implement", "test">>, <<"implement", "test", "test">>,
              <<"test", "implement", "design">>}
SomeGraphs == {<<{}, {}, {}>>, <<{}, {1}, {2}>>, <<{}, {}, {1, 2}>>}
Plain == {Drafted(k, d) : k \in SomeKinds, d \in Graphs3}
         \union {Drafted(k, d) : k \in [1..3 -> {"design", "implement", "test"}], d \in SomeGraphs}
(* The last step refers back; all tests are short, and make one of another *)
(* kind together; the last step verifies, and mentions tests in a long     *)
(* prompt; all steps are critical.                                         *)
Refers(p) == [p EXCEPT ![3].refers = TRUE]
Short(p) == [i \in 1..3 |-> [p[i] EXCEPT !.short = TRUE, !.joint = "implement"]]
Verifies(p) == [p EXCEPT ![3].role = "verify", ![3].headed = FALSE, ![3].says = {"unit"}]
Critical(p) == [i \in 1..3 |-> [p[i] EXCEPT !.critical = TRUE]]

(* Too many steps, list items, a repeated id, a malformed item, an unknown *)
(* dependency and one on itself.                                           *)
Long == <<Step(1, "design", {}), Step(2, "other", {1}), [Step(3, "test", {2}) EXCEPT !.item = TRUE],
          [Step(4, "test", {9}) EXCEPT !.item = TRUE], Step(5, "implement", {5, 1}),
          Step(5, "explain", {}), [Step(8, "other", {}) EXCEPT !.ok = FALSE],
          Step(6, "critique", {7}), Step(7, "explain", {4}), Step(9, "explain", {1, 8})>>
Flat == [i \in 1..6 |-> Step(i, IF i < 4 THEN "other" ELSE "explain", {})]
TestsFirst == <<Step(1, "test", {}), Step(2, "implement", {1})>>

MCDrafts == Plain \union {Refers(p) : p \in Plain} \union {Short(p) : p \in Plain}
            \union {Verifies(p) : p \in Plain} \union {Critical(p) : p \in Plain}
            \union {Long, Flat, TestsFirst}
MCRewrites == {Long, Flat, TestsFirst}

(* A short query about nothing; three serial parts, two of which are short *)
(* tests that make an implementation together; and a long query that names *)
(* a handler at its start and unit tests somewhere below.                  *)
Query(says, front, brief, kind) ==
  [says |-> says, front |-> front, brief |-> brief, kind |-> kind, parts |-> <<>>,
   joint |-> kind, serial |-> FALSE]
MCQueries ==
  {Query({}, {}, TRUE, "other"),
   [Query({"implement"}, {"implement"}, TRUE, "other") EXCEPT
      !.parts = <<"test", "test", "other">>, !.joint = "implement", !.serial = TRUE],
   Query({"handler", "unit test"}, {"handler"}, FALSE, "test")}

Each(a, b, c) == w1 :> a @@ w2 :> b @@ w3 :> c
PoolOf(health, tags, m) == [health |-> health, tags |-> tags, merit |-> m]
Same == [T \in SUBSET Tags |-> Each(10, 10, 10)]
Skilled == [T \in SUBSET Tags |-> IF "code" \in T THEN Each(17, 20, 10) ELSE Each(11, 10, 12)]
C == {"code"}
R == {"reasoning"}
MCPools == {PoolOf({w1, w2, w3}, Each(R, {}, R), Same),
            PoolOf({w1, w3}, Each({}, C, C \union R), Skilled),
            PoolOf({w3}, Each(C, C, R), Skilled), PoolOf({}, Each(C, {}, R), Same)}
=============================================================================

----------------------------- MODULE MCStepRun ------------------------------
(* Two workers, the second one tagged as verifier, and drafts of one to    *)
(* three steps, good and bad.                                              *)
EXTENDS StepRun
CONSTANTS w1, w2, ghost

PoolOrder == <<w1, w2>>
Tags == [role \in Roles |-> IF role = "verifier" THEN {w2} ELSE {}]

Draft(w, R, words) == [worker |-> w, reads |-> R, scoped |-> FALSE, words |-> words]
Firsts == {Draft(w1, {}, "plain"), Draft(ghost, {}, "check"), Draft(w2, {1}, "plain"),
           Draft(w1, {}, "prior")}
Lasts == {Draft(w2, {1}, "combine"), Draft(ghost, {1}, "echo"), Draft(w1, {}, "plain"),
          Draft(w1, {2}, "plain"), [Draft(w1, {1}, "plain") EXCEPT !.scoped = TRUE]}
MCDrafts == {<<a>> : a \in Firsts} \union {<<a, b>> : a \in Firsts, b \in Lasts}
            \union {<<a, b, Draft(w1, R, words)>> : a \in Firsts, b \in Lasts,
                       R \in {{1}, {1, 2}}, words \in {"combine", "echo"}}
=============================================================================

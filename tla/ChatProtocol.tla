---------------------------- MODULE ChatProtocol ----------------------------
(***************************************************************************)
(* What an OpenAI client may rely on when it streams POST                  *)
(* /v1/chat/completions: the role first and once, empty deltas while it    *)
(* waits, then content, one stop, the usage if it was asked for, and       *)
(* [DONE] last.  What is said, and that it is said in full, is decided     *)
(* before the first piece of content.  A stream may break off at any time. *)
(***************************************************************************)
EXTENDS Sequences

CONSTANT Requests

VARIABLES
  last,     \* per request, the last frame sent; "none": no stream
  wants     \* per request, has the client asked for the usage?

Frames == {"role", "empty", "content", "stop", "usage", "done"}

Follows(f) == CASE f = "none" -> {}
                [] f \in {"role", "empty"} -> {"empty", "content", "stop"}
                [] f = "content" -> {"content", "stop"}
                [] f = "stop" -> {"usage", "done"}
                [] f = "usage" -> {"done"}
                [] f = "done" -> {}

Init ==
  /\ last = [r \in Requests |-> "none"]
  /\ wants = [r \in Requests |-> FALSE]

Send(r, f) ==
  /\ f \in Follows(last[r])
  /\ f = "usage" => wants[r]
  /\ last' = [last EXCEPT ![r] = f]
  /\ UNCHANGED wants

Open(r) ==
  /\ last[r] = "none" /\ last' = [last EXCEPT ![r] = "role"]
  /\ \E w \in BOOLEAN : wants' = [wants EXCEPT ![r] = w]

(* The connections of R are closed, by either side.                        *)
Close(R) ==
  /\ last' = [r \in Requests |-> IF r \in R THEN "none" ELSE last[r]]
  /\ wants' = [r \in Requests |-> IF r \in R THEN FALSE ELSE wants[r]]

Next == \/ \E r \in Requests : Open(r) \/ \E f \in Frames : Send(r, f)
        \/ \E R \in SUBSET Requests : Close(R)

Spec == Init /\ [][Next]_<<last, wants>>
=============================================================================

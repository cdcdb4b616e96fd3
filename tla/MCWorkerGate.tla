---------------------------- MODULE MCWorkerGate ----------------------------
(* Small instances of WorkerGate: four callers on the server's loop alone, *)
(* or two there and two on the loop of a chat completion.                  *)
EXTENDS WorkerGate
CONSTANTS c1, c2, c3, c4, app, chat
OneLoop == [c \in Callers |-> app]
TwoLoops == [c \in Callers |-> IF c \in {c1, c2} THEN app ELSE chat]
=============================================================================

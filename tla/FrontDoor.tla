------------------------------ MODULE FrontDoor ------------------------------
(***************************************************************************)
(* Requests to the server: the rate limit, the key, and then a chat        *)
(* completion, whole or streamed, or a change to the keys                  *)
(* (src/routism/server.py, openai_compat.py, api_keys.py).  The run behind *)
(* a completion is a thread of the event loop's one pool of Slots; the     *)
(* client may go away while it runs, which does not stop it.  What a run   *)
(* does is not looked into here.                                           *)
(***************************************************************************)
EXTENDS RateLimit, ApiKeys

CONSTANTS
  Queries,     \* bound: what is asked
  Requests,    \* bound: the connections there can be at once
  Slots,       \* threads of the default executor
  MaxPieces    \* bound: an answer is sent in that many pieces

Kinds == {"plain", "stream", "create", "revoke"}
Query == [kind : Kinds, key : Keys \union {NoKey}, wants : BOOLEAN]
Blank == [kind |-> "none", key |-> NoKey, wants |-> FALSE]

ASSUME FrontAssumption == Queries \subseteq Query /\ Slots \in Nat \ {0} /\ MaxPieces \in Nat \ {0}

VARIABLES
  at,      \* "idle", "handler", "allowed", "show", "plain", "stream" or "gone"
  req,     \* what is asked: kind, key, and is the usage wanted?
  reply,   \* the status this step answers with, 0 if it does not
  work,    \* "none", "queued", "running", "hung", or what the run came to
  queue,   \* the requests whose runs wait for a thread
  sent,    \* the frames sent, a row of empty ones as one
  todo     \* the frames the generator has still to send

asking == <<at, req, work, queue, sent, todo>>
vars == <<limiter, keyring, asking, reply>>

Frames == {"role", "empty", "content", "stop", "usage", "done"}
Finished == {"answer", "blank", "nothing", "failed"}

LastSent(r) == IF sent[r] = <<>> THEN "none" ELSE sent[r][Len(sent[r])]

Init ==
  /\ RateInit /\ KeysInit
  /\ at = [r \in Requests |-> "idle"] /\ req = [r \in Requests |-> Blank]
  /\ reply = 0 /\ work = [r \in Requests |-> "none"]
  /\ queue = <<>>
  /\ sent = [r \in Requests |-> <<>>] /\ todo = [r \in Requests |-> <<>>]

Streaming == <<work, queue, sent, todo>>

Silent == reply' = 0

(* An answer that is not a stream.                                         *)
Answer(r, status) ==
  /\ at' = [at EXCEPT ![r] = "idle"] /\ req' = [req EXCEPT ![r] = Blank]
  /\ reply' = status

-----------------------------------------------------------------------------
(* Up to the handler, and the routes for keys *)

(* RateLimitMiddleware.dispatch                                            *)
Arrive(r, c, q) ==
  /\ at[r] = "idle" /\ up = "serving"
  /\ \/ /\ Admit(c)
        /\ at' = [at EXCEPT ![r] = "handler"] /\ req' = [req EXCEPT ![r] = q]
        /\ Silent
     \/ Refuse(c) /\ Answer(r, 429)
  /\ UNCHANGED <<keyring, Streaming>>

Mutation(r) == req[r].kind \in {"create", "revoke"}

(* Several answers wanted, no last word of a user's, an unknown mode; all  *)
(* before the key is looked at.                                            *)
Reject(r) ==
  /\ at[r] = "handler" /\ ~Mutation(r)
  /\ Answer(r, 400)
  /\ UNCHANGED <<limiter, keyring, Streaming>>

Unauthorized(r) ==
  /\ at[r] = "handler" /\ ~Authorized(req[r].key, Mutation(r))
  /\ Answer(r, 401)
  /\ UNCHANGED <<limiter, keyring, Streaming>>

Allowed(r, kind) ==
  at[r] = "handler" /\ req[r].kind = kind /\ Authorized(req[r].key, Mutation(r))

(* A route that changes keys has looked at the caller's: what it does then *)
(* is another transaction, and the caller's key may be revoked meanwhile.  *)
Authorize(r) ==
  /\ \E kind \in {"create", "revoke"} : Allowed(r, kind)
  /\ at' = [at EXCEPT ![r] = "allowed"]
  /\ Silent
  /\ UNCHANGED <<limiter, keyring, req, Streaming>>

(* create_key: the key, and then the answer that shows it.                 *)
CreateKey(r, k) ==
  /\ at[r] = "allowed" /\ req[r].kind = "create" /\ Create(k)
  /\ at' = [at EXCEPT ![r] = "show"] /\ req' = [req EXCEPT ![r].key = k]
  /\ Silent
  /\ UNCHANGED <<limiter, Streaming>>

ShowKey(r) ==
  /\ at[r] = "show" /\ Show(req[r].key) /\ Answer(r, 200)
  /\ UNCHANGED <<limiter, Streaming>>

RevokeKey(r, k) ==
  /\ at[r] = "allowed" /\ req[r].kind = "revoke"
  /\ \/ Revoke(k) /\ Answer(r, 200)
     \/ k \notin Active /\ UNCHANGED keyring /\ Answer(r, 404)
  /\ UNCHANGED <<limiter, Streaming>>

-----------------------------------------------------------------------------
(* Chat completions *)

Submit(r) == work' = [work EXCEPT ![r] = "queued"] /\ queue' = Append(queue, r)

(* stream: false, asyncio.to_thread                                        *)
Plain(r) ==
  /\ Allowed(r, "plain") /\ Submit(r)
  /\ at' = [at EXCEPT ![r] = "plain"] /\ req' = [req EXCEPT ![r] = Blank]
  /\ Silent
  /\ UNCHANGED <<limiter, keyring, sent, todo>>

(* A run that came to no result at all is an error here.                   *)
Statuses(result) == CASE result \in {"answer", "blank"} -> {200}
                      [] result = "failed" -> {502, 500}
                      [] result = "nothing" -> {500}

Complete(r) ==
  /\ at[r] = "plain" /\ work[r] \in Finished
  /\ \E status \in Statuses(work[r]) : Answer(r, status)
  /\ work' = [work EXCEPT ![r] = "none"]
  /\ UNCHANGED <<limiter, keyring, queue, sent, todo>>

(* stream: true; the role goes out before the run is submitted.            *)
Stream(r) ==
  /\ Allowed(r, "stream")
  /\ at' = [at EXCEPT ![r] = "stream"] /\ req' = [req EXCEPT ![r].key = NoKey]
  /\ sent' = [sent EXCEPT ![r] = <<"role">>]
  /\ Silent
  /\ UNCHANGED <<limiter, keyring, work, queue, todo>>

SubmitStream(r) ==
  /\ at[r] = "stream" /\ work[r] = "none" /\ Submit(r)
  /\ Silent
  /\ UNCHANGED <<limiter, keyring, at, req, sent, todo>>

(* Every 15 seconds, once more perhaps when the run has just ended.        *)
Keepalive(r) ==
  /\ at[r] = "stream" /\ work[r] # "none" /\ LastSent(r) = "role"
  /\ todo[r] = <<>>
  /\ sent' = [sent EXCEPT ![r] = Append(@, "empty")]
  /\ Silent
  /\ UNCHANGED <<limiter, keyring, at, req, work, queue, todo>>

BeginRun ==
  /\ queue # <<>> /\ Cardinality({r \in Requests : work[r] \in {"running", "hung"}}) < Slots
  /\ work' = [work EXCEPT ![Head(queue)] = "running"] /\ queue' = Tail(queue)
  /\ Silent
  /\ UNCHANGED <<limiter, keyring, at, req, sent, todo>>

(* Mutant: the run of a client that has gone keeps its thread.             *)
EndRunHeld(r, result) ==
  /\ work[r] = "running" /\ at[r] # "gone"
  /\ work' = [work EXCEPT ![r] = result]
  /\ Silent
  /\ UNCHANGED <<limiter, keyring, at, req, queue, sent, todo>>

(* _run_conductor_for_chat: an answer, an empty one, none; or it raises.   *)
(* Nobody waits for it any more if the client has gone.                    *)
EndRun(r, result) ==
  /\ work[r] = "running"
  /\ IF at[r] = "gone"
     THEN work' = [work EXCEPT ![r] = "none"] /\ at' = [at EXCEPT ![r] = "idle"]
     ELSE work' = [work EXCEPT ![r] = result] /\ UNCHANGED at
  /\ Silent
  /\ UNCHANGED <<limiter, keyring, req, queue, sent, todo>>

(* A call of the run waits for a slot of its worker, without a timeout,    *)
(* and the calls that hold them are on other event loops: what they give   *)
(* back does not wake this one.  The thread stays taken.                   *)
Hang(r) ==
  /\ work[r] = "running"
  /\ work' = [work EXCEPT ![r] = "hung"]
  /\ Silent
  /\ UNCHANGED <<limiter, keyring, at, req, queue, sent, todo>>

Pieces(n) == [i \in 1..n |-> "content"]

(* iter_sse_after_answer: a whole stream for an answer in n pieces.        *)
AfterAnswer(n, usage) ==
  <<"role">> \o Pieces(n) \o <<"stop">> \o (IF usage THEN <<"usage">> ELSE <<>>) \o <<"done">>

(* Mutant: the error's stream goes out with its role.                      *)
ClosingDoubled(r, n) ==
  IF work[r] = "failed"
  THEN AfterAnswer(n, FALSE)
  ELSE Pieces(n) \o <<"stop">> \o (IF req[r].wants THEN <<"usage">> ELSE <<>>) \o <<"done">>

(* What is left to send: an error is sent as if it were the answer, its    *)
(* role taken out again, and without usage.                                *)
Closing(r, n) ==
  IF work[r] = "failed"
  THEN Tail(AfterAnswer(n, FALSE))
  ELSE Pieces(n) \o <<"stop">> \o (IF req[r].wants THEN <<"usage">> ELSE <<>>) \o <<"done">>

(* Mutant: the generator does not wait for the run.                        *)
NoticeEarly(r, n) ==
  /\ at[r] = "stream" /\ work[r] \in Finished \union {"running"}
  /\ sent[r] # <<>> /\ LastSent(r) \in {"role", "empty"} /\ todo[r] = <<>>
  /\ (n = 0) <=> work[r] \in {"blank", "nothing"}
  /\ todo' = [todo EXCEPT ![r] = Closing(r, n)]
  /\ Silent
  /\ UNCHANGED <<limiter, keyring, at, req, work, queue, sent>>

(* The generator sees that the run has ended.                              *)
Notice(r, n) ==
  /\ at[r] = "stream" /\ work[r] \in Finished
  /\ LastSent(r) \in {"role", "empty"} /\ todo[r] = <<>>
  /\ (n = 0) <=> work[r] \in {"blank", "nothing"}
  /\ todo' = [todo EXCEPT ![r] = Closing(r, n)]
  /\ Silent
  /\ UNCHANGED <<limiter, keyring, at, req, work, queue, sent>>

SendFrame(r) ==
  /\ at[r] = "stream" /\ todo[r] # <<>>
  /\ sent' = [sent EXCEPT ![r] = Append(@, Head(todo[r]))]
  /\ todo' = [todo EXCEPT ![r] = Tail(@)]
  /\ Silent
  /\ UNCHANGED <<limiter, keyring, at, req, work, queue>>

(* The stream of r is over; its run, if there is one, goes on.             *)
Hangup(r) ==
  /\ sent' = [sent EXCEPT ![r] = <<>>] /\ todo' = [todo EXCEPT ![r] = <<>>]
  /\ req' = [req EXCEPT ![r] = Blank]
  /\ IF work[r] \in {"queued", "running", "hung"}
     THEN at' = [at EXCEPT ![r] = "gone"] /\ UNCHANGED work
     ELSE at' = [at EXCEPT ![r] = "idle"] /\ work' = [work EXCEPT ![r] = "none"]
  /\ Silent
  /\ UNCHANGED <<limiter, keyring, queue>>

EndStream(r) == at[r] = "stream" /\ LastSent(r) = "done" /\ Hangup(r)

Leave(r) == at[r] = "stream" /\ LastSent(r) # "done" /\ Hangup(r)

-----------------------------------------------------------------------------
(* The process *)

Serve(e) == Start(e) /\ Silent /\ UNCHANGED <<limiter, asking>>
Boot == Booting /\ Silent /\ UNCHANGED <<limiter, asking>>
Pass == Tick /\ Silent /\ UNCHANGED <<keyring, asking>>

Crash ==
  /\ Die({req[r].key : r \in {s \in Requests : at[s] = "show"}}) /\ Forget
  /\ at' = [r \in Requests |-> "idle"] /\ req' = [r \in Requests |-> Blank]
  /\ reply' = 0 /\ work' = [r \in Requests |-> "none"]
  /\ queue' = <<>>
  /\ sent' = [r \in Requests |-> <<>>] /\ todo' = [r \in Requests |-> <<>>]

Handle(r) ==
  \/ \E c \in Clients, q \in Queries : Arrive(r, c, q)
  \/ Reject(r) \/ Unauthorized(r) \/ Authorize(r) \/ ShowKey(r)
  \/ \E k \in Keys : CreateKey(r, k) \/ RevokeKey(r, k)
Chat(r) ==
  \/ Plain(r) \/ Complete(r) \/ Stream(r) \/ SubmitStream(r) \/ Keepalive(r)
  \/ Hang(r) \/ \E result \in Finished : EndRun(r, result)
  \/ \E n \in 0..MaxPieces : Notice(r, n)
  \/ SendFrame(r) \/ EndStream(r) \/ Leave(r)
Next ==
  \/ \E e \in EnvKeys \union {NoKey, BadKey} : Serve(e)
  \/ Boot \/ Pass \/ Crash \/ BeginRun
  \/ \E r \in Requests : Handle(r) \/ Chat(r)

Spec == Init /\ [][Next]_vars

(* Threads are scheduled; a run that does not hang ends, each of its calls *)
(* has a timeout once it has its slot; the event loop gets round to every  *)
(* generator.  Hang is not kept from happening.                            *)
Fairness ==
  /\ WF_vars(BeginRun)
  /\ \A r \in Requests :
       /\ WF_vars(\E result \in Finished : EndRun(r, result))
       /\ WF_vars(SubmitStream(r) \/ SendFrame(r) \/ EndStream(r)
                    \/ \E n \in 0..MaxPieces : Notice(r, n))
FairSpec == Spec /\ Fairness

-----------------------------------------------------------------------------
(* Properties *)

(* Types.                                                                  *)
TypeOK ==
  /\ RateTypeOK /\ KeysTypeOK
  /\ at \in [Requests -> {"idle", "handler", "allowed", "show", "plain", "stream", "gone"}]
  /\ req \in [Requests -> Query \union {Blank}]
  /\ reply \in {0, 200, 400, 401, 404, 429, 500, 502}
  /\ work \in [Requests -> {"none", "queued", "running", "hung"} \union Finished]
  /\ queue \in Seq(Requests) /\ sent \in [Requests -> Seq(Frames)] /\ todo \in [Requests -> Seq(Frames)]
  /\ \A r \in Requests :
       /\ at[r] = "show" => req[r].key \in Keys
       /\ sent[r] # <<>> <=> at[r] = "stream"
       /\ work[r] # "none" => at[r] \in {"plain", "stream", "gone"}
       /\ at[r] = "gone" => work[r] \in {"queued", "running", "hung"}

(* Who is refused has indeed been admitted PerMinute times within the last *)
(* window: to be refused does not prolong it, nor does an old admission.   *)
RefusedFairly ==
  [][reply' = 429 =>
       \E c \in Clients : /\ Len(log[c]) >= PerMinute
                          /\ clock - log[c][Len(log[c]) - PerMinute + 1] <= Window]_vars

(* What streams put on the wire is what an OpenAI client can read.         *)
Protocol == INSTANCE ChatProtocol WITH
  last <- [r \in Requests |-> LastSent(r)],
  wants <- [r \in Requests |-> at[r] = "stream" /\ req[r].wants]
KeepsProtocol == Protocol!Spec

(* A stream that is complete says what its own run came to: pieces of an   *)
(* answer or of an error, and nothing if there was none; and the usage,    *)
(* if asked for, exactly when there was a result.                          *)
SaysWhatHappened ==
  \A r \in Requests : LastSent(r) = "done" =>
    LET has(f) == \E i \in 1..Len(sent[r]) : sent[r][i] = f
    IN /\ work[r] \in Finished
       /\ has("content") <=> work[r] \notin {"blank", "nothing"}
       /\ has("usage") <=> req[r].wants /\ work[r] # "failed"

(* Every stream ends, also while the threads are busy with the runs of     *)
(* clients that have gone: unless its own run hangs, or so many do that no *)
(* thread is left.                                                         *)
Stuck(r) == work[r] = "hung" \/ Cardinality({s \in Requests : work[s] = "hung"}) = Slots
EveryStreamEnds == \A r \in Requests : at[r] = "stream" ~> at[r] # "stream" \/ Stuck(r)
=============================================================================

# Routism in TLA+

Routism runs one user request as a small team: a *planner* (an engine model)
splits the request into a DAG of subtasks, the *workers* (the user's connected
models) answer them, a *verifier* scores the answers, a *coordinator* merges
them. This directory specifies the parts of it where order, failure and
bookkeeping matter, model-checks them with TLC and proves the central facts
with TLAPS.

## 1. Inventory

| Part | State it keeps | Operations | Interacts with | What is hard | What makes it correct |
|---|---|---|---|---|---|
| **Conductor DAG executor** `routism_orch/orchestrate_conductor.py`, `recovery_fill.py`, `synthesize.py` | the plan; per subtask `assigned_workers`, `assigned_worker`, `selected_worker_id`, `result`, `error`, `samples`; `answers` (candidate id → text), `all_scores`; `replan_count`; `partial_success`, `degraded` | layer loop, fan-out, scoring and winner selection, re-assignment, criteria retry, bounded replan, recovery, synthesis, verify-and-refine | worker client, judge, assignment, engine client | five stages write the same per-node fields and the shared board by hand; failures in the middle of each | board and nodes agree; nothing produced is lost; penalties applied once; the done event is honest; it ends |
| **Run stream** `server.api_run`, `execute_conductor_stream`, `orchestrate_parallel.py` | the SSE stream of one request; `skip_meta`, `reason`, the outcomes in completion order | plan ladder, announce, hand over to Parallel, fan out, judge, merge, error, client gone | all of the above, the page | two generators share one stream; the engine is probed twice | one meta, one end, the right order, the right reasons |
| **Pool configuration** `routism/config.py`, `management.py`, `server.py` | `routism.yaml`; two module locks | put settings, add, delete and test workers, pin | every request reads the file | two locks over one file; readers without a lock; a save that is not atomic | no update lost, keys kept, roles with connected workers |
| **Worker client** `routism/worker.py` | one semaphore per worker, event-loop bound | call with retries, stream, fan-out | remote models | a slot must be freed on every path; threads meet inside one semaphore | on one loop the cap holds and every slot comes back; between loops none is made up |
| **Engine client** `routism_orch/engine_client.py` | a process-wide lock; the pinned set | call with retries, pin at start, lazy pin, unload at shutdown, probe | Ollama | the pinned set is memory of what Ollama had loaded; the start and shutdown threads race the calls | one request at a time; no model is asked cold; every call ends and fails only for cause |
| **Planner** `routism_orch/conductor.py` | the DAG being repaired | read, validate, merge, infer, cap, rewrite, layer, assign | engine client, assignment | cycles, unknown ids, caps that orphan steps, several passes after each other | nothing usable is lost, order is only added, layers are a schedule |
| **Assignment** `routism_orch/assign.py` | EMA per worker and domain, health snapshot | rank, assign k, move verifying steps, re-assign, update | pool, executor | stale health, ties, quality band against load | everybody who must be asked is, ill workers last, no one judges himself, the work is spread |
| **Judge** `routism_orch/judge.py` | none | score one, pairwise with swapped positions | engine client | failure of one judge call | verdict stays within the candidates |
| **Step executor (legacy)** `routism/executor.py`, `engine.py`, `schema.py` | the workflow, the step results, the worker stats | plan with retries, audit, repair, degrade; run, verify, repair, re-route, store | worker client | a repair loop nested in a re-routing loop, the verdict kept apart from the output | what runs passed the audit; marks say the truth; budget kept; everyone asked before it fails; it ends |
| **Chat completions** `server.chat_completions`, `openai_compat.py` | queue of one SSE answer | role, keep-alive, run in a pool thread, answer or error, usage, end | executor, API keys, rate limiter | the run ends in its thread while the generator waits or its client leaves | the OpenAI order of frames; a stream says what its run came to; every stream ends |
| **API keys** `routism/api_keys.py`, `crypto_keys.py` | rows of a SQLite table, `bootstrap_key.txt` | bootstrap, import, create, revoke, authorise | server | crashes between the row and the text; the same key imported again at every start | a revoked key stays revoked; somebody has a key |
| **Rate limiter** `routism/rate_limit.py` | sliding windows | admit or refuse | server | lazy pruning, window edges | never more than the limit in any window; nobody refused without cause |
| **Benchmarks, evaluation** | jobs | run, report | executor | offline harness | – |
| **Learned coordinator** `routism_orch/engine.py`, `head.py`, … | frozen model, linear head | route | – | numerical | – |
| **Fast path, trajectory log, CLI, host checks, dashboard** | – | I/O | – | pure I/O around the rest | – |

## 2. Modules

| Module | Models | Built on |
|---|---|---|
| `ConductorExec` | the DAG executor, from the layer guard to `done` | – |
| `ConductorExecProofs` | its theorems | `ConductorExec`, TLAPS |
| `RunProtocol` | abstract: what a client of `POST /v1/run` may rely on | – |
| `RunStream` | one request: plan ladder, Conductor door, Parallel, error, disconnect | implements `RunProtocol` |
| `RunStreamProofs` | its theorems, the refinement among them | `RunStream`, TLAPS |
| `WorkerGate` | the in-flight semaphore of one worker, retries, cancellation, several event loops | – |
| `WorkerGateProofs` | its theorems | `WorkerGate`, TLAPS |
| `PoolStore` | abstract: the settings, changed by one whole request at a time | – |
| `PoolConfig` | `routism.yaml` under concurrent handlers and restarts | implements `PoolStore` under one lock |
| `PoolConfigProofs` | its theorems, the refinement among them | `PoolConfig`, TLAPS |
| `EngineClient` | the engine lock, pins, retries, start and shutdown threads, Ollama | – |
| `EngineClientProofs` | its theorems | `EngineClient`, TLAPS |
| `Positions` | the part of a sequence at given positions, in order | – |
| `PlanDag` | the passes over a drafted graph of steps, as operators | `Positions` |
| `Assign` | ranking and choosing workers, as operators | – |
| `Planner` | a query's way from draft to assigned plan | composes `PlanDag`, `Assign` |
| `PlannerProofs` | its theorems | `Planner`, TLAPS |
| `StepPlan` | routing and audits of a step workflow, as operators | – |
| `StepRun` | one query of the step executor | `StepPlan` |
| `StepRunProofs` | its theorems | `StepRun`, TLAPS |
| `RateLimit` | the sliding window | – |
| `ApiKeys` | the key table, the first key, restarts | – |
| `ChatProtocol` | abstract: what an OpenAI client of a stream may rely on | – |
| `FrontDoor` | requests through limiter and keys into chat completions and key routes | composes `RateLimit`, `ApiKeys`; implements `ChatProtocol` |
| `FrontDoorProofs` | its theorems, the refinement among them | `FrontDoor`, TLAPS |
| `MC…` | the instances TLC checks | |

### ConductorExec

State. `plan` is the `ConductorPlan` reduced to the layer of each node,
dependencies, critical nodes and the planner's picks. `assigned`, `worker`,
`selected`, `result`, `error`, `samples` are the fields of `Subtask`; `answers`
and `score` are the dictionaries `answers` and `all_scores` of
`execute_conductor_stream` keyed by candidate id (worker and node); `lowered`
are the entries whose reason has the word `criteria_fail`, by which three
places recognise each other's penalty; `top` is the ranking the synthesizer
gets, taken before recovery; `final` is the `done` event with `partial_success`
as it stands. `calls`, `out`, `replied` are the fan-out in flight, `todo`,
`healing`, `tried` the locals of `recovery_fill_failed_nodes`. An answer is
abstracted to *who gave it and in which stage*; that is all the properties tell
apart.

Steps. Calls inside one fan-out return in any order (`Reply`), each with an
answer or without. Code between two fan-outs is one uninterrupted stretch of
one coroutine and therefore one action: `ScoreLayer` (scoring, winner
selection, publication), `Reassign`/`ScoreReassign`,
`CheckCriteria`/`ScoreCriteria`/`Penalise` (the last is the loop that lowers
every unmet winner not lowered yet), `MeanAndReplan`/`ScoreReplan`,
`CompleteLayer`, `Gather`, `BeginRecovery`/`RecoveryCall`/`FinishRecovery` (a
recovered answer without an entry gets the score 7), `Synthesize` (the stitched
sections, or with `Polish` a model's text; where that reads as an error the
best of `top` at any score), `Verify`. What an engine model thinks of a text
(score, criteria met, artifact present, draft accepted) is an `\E` at the point
where the code asks.

### RunProtocol and RunStream

`RunProtocol` has one variable, the sequence of events on the wire, and says
what may follow what. `RunStream` has one action per event the two generators
send, plus `Plan`, `Crash` (an exception that `event_stream` turns into an
`error` event) and `Disconnect`. `Contract!Spec` is checked by TLC as a
property and proved.

### WorkerGate

One `asyncio.Semaphore` per worker id, kept for the life of the process
(`_worker_sem`), is used by coroutines on different event loops: the server's
own loop (`POST /v1/run`) and the private loop of each synchronous call (chat
completions, in a thread each). Inside one loop `acquire` and `release` run
without interruption; between threads they do not. Hence the two steps `Look`
(`locked()`) and `Take` (the decrement), with other threads' steps between
them. `Queue` waits on a future and binds the semaphore to its loop; a caller
of another loop that gets there fails. `Resume` is what follows the wait, up to
the `while self._value > 0` of `acquire` (`Loop`); `Attempt` is one HTTP
attempt with its retries, at the end of which the counter is raised.
`_wake_up_next` is then three steps: `Wake` begins with the first waiter,
`Scan` passes one whose future is done, `Give` takes a slot off the counter and
completes the future it stopped at. Threads switch before each of them. A
caller whose iterator the queue has changed under, or whose future another
thread has completed meanwhile, ends with the exception Python raises
(`"broken"`), in the second case with the slot gone. `CancelWait` and
`CancelCall` are the cancellation of a waiting and of a running call. `Tick` is
the 0.1 s timer that keeps the server's loop turning; private loops have none,
so a future completed from another thread does not wake them. A synchronous
`complete_full` called from inside a running loop takes no slot at all and is
left out. The semaphore itself is library code and marked external in the map.

### PoolStore and PoolConfig

The file is `disk` (what the last completed save left, read as settings) and
`state`: *whole*, *empty* (opened for writing, not yet written) or *broken* (it
does not parse). Two saves that write over each other may leave either a broken
file or one that parses and mixes their workers (`Blends`; `blended` remembers
that it happened). A handler is a thread that waits for its lock if
it has one (`Lock`), loads (`LoadToSave`, `LoadOnly`), truncates (`Open`) and
writes (`Write`). An empty file loads as `Settings()`. The pool handlers and
`put_settings` have different locks; every other reader has none. A save fits
one `write` call (a pool of five workers is far below the 8 KB buffer), so
there is one step between truncation and text. `PoolStore` says what each
request makes of the settings; a thread's update takes effect when it opens
the file (`Committed`). Settings other than workers and roles are the one
value `knob`; `keyed` means that the worker loads with an api_key.

### EngineClient

`lock` is `_ENGINE_LOCK`, `pinned` is `_pinned_tags`. A call waits for the lock
(`Begin`, `Acquire`), pins its model unless the client believes it pinned
(`LazyPin`), and chats, up to `Retries` times (`Chat`); a caller that asks
`engine_models_ready` first may give up before (`Missing`). `Pinner` is the
daemon thread of the start, `Unpinner` the hook of the shutdown; both go
through their tags under the same lock (`NextTag`). Ollama is `pulled`, `warm`:
a request may have been done though no answer came, and models are unloaded
behind the client's back. `cooled` and `log` are history for the properties.

### PlanDag, Assign and Planner

A step is a record with what the passes read off it (kind, role, whether it is
short, a list item, critical, refers to something before it, which of the words
the code looks for its prompt has, anywhere and near its start, and which kind
it would have when joined with others) and its dependencies; a plan is a
sequence of steps, since several passes depend on their order. `PlanDag` has
one operator per pass of `conductor.py`, `Assign` those of `assign.py` with
scores as whole numbers. `Planner` is the sequence: `Think` (the engine's
draft), `Read`, `Repair` and `Rewrite` (a faulty plan is shown to the engine,
whose answer is taken only if it reads), `Heuristic` when the engine gives
nothing, `Layer`, `AssignAll`, and later one `Reassign`.

Loops that carry a state (the duplicates of a draft, the queue of
`_topological_order`, the cap, the shares dealt so far) are folds; loops that
only filter are named by the positions they keep (`Select`, `InOrder` of
`Positions`), which says the same and can be reasoned about without induction.
The reference definitions are independent of both: what a step waits for
(`Behind`) is the smallest set closed under dependency.

### StepPlan and StepRun

`StepPlan` has the routing and the audits as operators (`SelectWorkers`,
`ValidForPool`, `Audited`). `StepRun` has one action per call and per verdict:
`Decompose` and `Repair` answer the two prompts of `plan()`, `Unreadable` and
`Unplanned` are the answers that cost an attempt or the query; `Begin` checks
the budget; `CallRefused` is the isolation check, which ends an attempt before
anybody is asked; `CallAnswers`, `CallFails`, `Accept`, `Reject`,
`VerifierFails` are what worker and verifier do, `CallBreaks` and `Waits` what
becomes of a call that meets the slots of another event loop; `Store` writes to
the memory. `asked` are the workers a call was sent to. `accepted` and
`repaired` are the executor's two locals that decide whether an output is
marked; `out.verdict` records the truth.

### RateLimit, ApiKeys, ChatProtocol and FrontDoor

`hits` is `_hits`, `db` the table of keys, `known` the keys somebody was shown,
`lost` those whose text was lost before that (a crash, a file that cannot be
written, an answer that does not arrive), `failed` whether this process could
not open its table at the start. The start of the process is several steps
(`Start`, `Mint`, `WriteKey` or `Import`, `Keep`), and it may die between any
two; the table stays, the windows do not. `FrontDoor` sends every request
through the limiter (`Arrive`), the checks of the body (`Reject`) and the key
(`Unauthorized`). A completion's run is `work`, queued for one of `Slots`
threads (`BeginRun`, `EndRun`), or it hangs and keeps its thread (`Hang`); the
generator of a stream is `SubmitStream`, `Keepalive`, `Notice` and one
`SendFrame` per frame, and `Leave` a client that goes away, after which the run
still holds its thread (`"gone"`). `ChatProtocol` sees of it the last frame of
each stream.

## 3. Runs

| Run | Question | Result |
|---|---|---|
| `conductor_exec` | do nodes, board, scores and `done` agree through every stage? | holds |
| `conductor_live` | does every run end, is every node tried? | holds under weak fairness |
| `run_stream` | does every stream keep the client's contract and close? | holds |
| `gate_one_loop` | on one loop: does the cap hold, is every slot accounted for, does every caller get on? | holds, the last under fairness |
| `gate_loops` | between loops: is no slot made up, and none lost but by a call that breaks? | holds |
| `pool_one_lock` | are the pool handlers atomic, are keys kept? | holds |
| `pool_locks` | do roles stay with connected workers, whatever is lost? | holds, restarts included, unless two saves mixed |
| `pool_lost` | is a pool change safe from a settings change? | **no**, different locks |
| `engine` | is no model asked cold, does every call end, and fail only for cause? | holds, the second under fairness |
| `planning` | does a draft keep its steps and order through every pass, is it scheduled and staffed? | holds |
| `steps` | is what runs audited, what is kept marked truthfully, the budget kept, everyone asked (or, when refused, nobody), and does it end or wait for a slot? | holds, the last under fairness |
| `front` | do limit, keys and streams keep their promises across restarts and lost clients? | holds, that streams end under fairness |

The type invariant of `Planner` is a part of `PlanSound`, that of `StepRun` of
`AccountsSound`; those of the other modules are proved (section 4) and not
checked a second time here.

The run with the answer *no* checks a sentence of a comment of the source that
the code does not keep; `PROJECT.json` quotes it. The models contain more such
behaviour, which no run singles out:

* re-assignment clears a failed node's error before it is known whether any
  other worker exists (`Reassign`);
* a layer runs whatever became of its dependencies, although the work order
  says "You will receive outputs from prior step(s)" (`BeginLayer`);
* an answer that recovery replaced stays on the board, and the best-sample
  fallback may prefer it, since it ranks by what was there before recovery
  (`PublishRecovered`, `BestSamples`);
* `done` drops the handed-over reason when Parallel's own probe succeeds
  (`MergedDone`, `AllFailedDone`);
* two loops that look at a semaphore together take its last slot twice (`Look`,
  `Take`), and once a caller of one loop has waited, callers of the others get
  a `RuntimeError` instead of a slot (`Queue`);
* two threads that release at once may choose the same waiter: the second
  gets an `InvalidStateError` from `set_result` after it has taken a slot off
  the counter, which never comes back (`Give`); or one changes the queue the
  other iterates over, and that one gets a `RuntimeError` (`Scan`). In both
  cases a call that had succeeded fails (`"broken"`). What holds is that a
  broken call costs at most two slots, and nothing else costs any
  (`SlotsConserved`);
* two saves at once, or a process killed in the middle of one, leave a file
  that is empty, does not parse, or parses and has workers of both (`Write`,
  `Crash`);
* DELETE removes the last worker and unpins the one it removes, where the
  docstring says "refuses" (`Deleted`);
* after a criteria retry the layer mean still counts the score of the original
  sample, where `orchestrate_conductor.py:124` says "Prefer the selected
  winner's score" (`CountedSample`);
* after a handoff `done` carries the score reason of the last candidate instead
  of the handed-over reason, because a loop assigns the same variable
  (`orchestrate_parallel.py:203`, against the docstring at line 96)
  (`MergedDone`);
* a call that waits on one event loop for a slot that another loop gives back
  may wait for ever (`Tick`, `Grant`), where the docstring of the timeout
  (`worker.py:40`) says "NEVER hang" and that of the executor
  (`executor.py:11`) "NEVER hangs"; `NeverHangs` is checked for one loop, and
  the step executor and the chat completions, whose calls run on loops of
  their own, have this as an outcome (`Waits`, `Hang`): such a run keeps its
  thread, and a stream of it sends keepalives for as long as its client stays;
* where a private loop may not wait at all (the semaphore belongs to another),
  the `RuntimeError` is not a failure of a worker to be routed around but ends
  the query with HTTP 500 (`CallBreaks`);
* a step whose subtask has words it must not have is refused for every worker
  in turn and fails the query with nobody asked (`CallRefused`);
* requests that only read `routism.yaml` take no lock and may load the empty
  file of a save in progress (`LoadOnly`), against the comment at
  `management.py:52`;
* a drafted plan with a cycle loses all dependencies and runs in parallel,
  where the comment at `conductor.py:455` says "fall back to serial execution"
  (`Sorted`, `LayerSteps`); an inferred dependency that closes a cycle has the
  same effect (`Inferred`, draft `TestsFirst`);
* in the step executor a rejected output is lost when the last candidate is
  down, where the docstring promises "best-effort" (`executor.py:5`, line 154;
  `CallFails`, `GiveUp`); the budget counts one call per step however often
  it is repaired or re-routed (`Store`); a storage error fails the query
  (`StoreFails`);
* a planning model that is down, or that answers with a JSON array, fails the
  query, although `server.py:418` says a weak engine never does (`Unplanned`);
* a crash or a full disk between the row of the first key and
  `bootstrap_key.txt` leaves an active key that nobody has, and no later start
  mints another; an answer to `POST /v1/keys` that does not arrive does the
  same (`Told`); nor does a start mint one whose `ROUTISM_API_KEY` is revoked
  or no key at all (`WriteKey`, `Keep`, `Import`);
* a run that comes to no result is an error for a whole completion and an empty
  answer for a streamed one (`Statuses`, `Notice`), and the run of a client
  that has gone keeps its thread (`Leave`).

Bounds.
* Two plans of three nodes (a fork with a k-sampled critical leaf and an
  unassigned leaf; a join with a critical root) and two workers. Every stage
  concerns one node and the layer it is in, so what matters is a layer with two
  nodes, a node with two samples and a layer before or after; three nodes have
  all of them. With two workers re-assignment and recovery meet both the case
  "another one exists" and "all are banned".
* `Scores = {2, 8}`: below and above the replan floor (4), the fallback
  thresholds (6, 7) and the sum of two on both sides; halving 8 gives the
  floor itself.
* `MaxRecoveries = 4` and `MaxAlternates = 3` are the code's numbers, so the
  caps of the recovery pass do not bite in the small pool; `KCritical = 2`.
  `Polish` is on where `done` is looked at and off in the liveness run, whose
  question it does not touch.
* The liveness run uses plans of two nodes, one of them with a
  node no layer names.
* `MaxLayers = MaxJobs = 2` for `RunStream`: first and last layer differ and so
  do first and last sample. The samples of a layer are not told apart, and one
  `k_sample_pick` event stands for those of all k-sampled nodes.
* `WorkerGate`: four callers and two slots on one loop (two in flight, one
  woken and one asleep at the same time), or two callers on each of two loops
  and two slots, so that two threads release while two callers wait.
* `PoolConfig`: two threads, because each lock lets only one thread in and a
  third could only wait or read. Two worker ids and one engine id, with
  a capacity of one where the limit should bite (the code's is five): a
  request names the worker it changes, and the others are bystanders.
* `EngineClient`: two calls of different models, one that probes first, with
  the two other threads; a third call can only wait where a second does. Two
  attempts, so the first, the last and a temporary failure between them occur;
  two models of a family, so that the probe can be mistaken.
* `Planner`: every graph over three steps with three choices of kinds, all
  kinds over three graphs, and five variants (refers back, short, verifying,
  critical), plus drafts of ten, six and two steps for caps, repeated and
  unknown ids, malformed items and fragments. Edges relate two steps and the
  shortest cycle with a step behind it has three. `MaxSteps = 5` is the code's
  number; the ten-step draft meets it. Four pools: all well and equal,
  one ill, two ill, all ill. Three queries: one about nothing in particular,
  one in three parts of which two join, and a long one that names things at its
  start and others further down.
* `StepRun`: two workers (first and last candidate differ), drafts of up to
  three steps (a step may read the one before, an earlier one or one that is
  not there), two attempts at a plan, one repair, and a budget of 6 that some
  workflows exceed with outputs of two tokens and none with outputs of one.
* `FrontDoor`: one client and two connections on one thread, so that one run
  can stand in another's way; a limit of one per window of one tick and a
  clock of two (`MaxClock`), so that an admission is young, exactly a window
  old, and older; two keys, of which one is the operator's (`Keys`, `EnvKeys`),
  answers of at most one piece (`MaxPieces`), five kinds of request
  (`Queries`). More clients have windows of their own. The run has
  `Enforced = TRUE`; the proofs cover the open modes as well.

Fairness. `FairSpec` of `ConductorExec` is weak fairness of `Next`: the
generator is driven by its consumer and blocks only in worker and engine calls,
which carry timeouts (`worker.py`, 120 s, bounded retries; `engine_client.py`).
`FairSpec` of `RunStream` is weak fairness of `Run`, the generators' own steps;
neither an exception nor a disconnect is ever required. `NeverHangs` assumes of
`WorkerGate` that threads are scheduled, that an HTTP attempt ends (every
client has a timeout) and that the server's loop ticks; cancellation is never
required. `PoolConfig` states no liveness. `EngineClient` has weak fairness of
each call's and thread's own steps: every HTTP request has a timeout, retries
are counted and the lock is released in a `finally`; nobody can hold the lock
for ever, and since each thread takes it once, weak fairness of `Acquire` is
enough for every waiter. `StepRun` is weakly fair in `Next`: one thread, whose
calls have timeouts once they have a slot. The wait for the slot has none, so
`Waits` is a step like any other, after which nothing happens, and `Terminates`
says that the query ends or waits so. `FrontDoor` is weakly fair in `BeginRun`
(the executor's queue is first-in first-out), in the end of each run that does
not hang and in each generator's steps; `EveryStreamEnds` excepts the stream
whose own run hangs and those that wait while hung runs have every thread
(`Stuck`). That a client stays, a keepalive is sent or a request comes is never
required. `Planner` is acyclic and states no liveness.

## 4. Proofs

All theorems hold for every set of nodes and workers, every plan and every
value of the knobs, under the named `ASSUME`s of the modules.

* `ConductorExecProofs`. The invariants of the run are not inductive: that the
  board holds what a node holds depends on who owns a result (a result's
  author is the node's selected worker), on which calls are in flight (they
  belong to the nodes of the current layer, and to nodes without a result in
  the stages that start afresh), and on which stages have been passed. The
  inductive invariant conjoins these; `Inductive` has one step per action.
  From it `TypesCorrect`, `BoardComplete`, `BoardClean`, `DoneHonest`, and the
  action property `NothingLost`. `PenaltyOnce` (no score is lowered twice)
  needs two more parts: until the criteria gate has spoken every entry has the
  score of a sample of its own node, and while the retries are out the unmet
  nodes of the layer are exactly those that are retried, so that what reaches
  the penalty loop unmet is lowered and marked already, and the loop, which
  skips what is marked, does not lower it again.
* `RunStreamProofs`. The inductive invariant relates the control state to what
  has been sent (for example: in a layer, exactly when a `dag_layer_start` has
  no `dag_layer_complete` after it). `StreamContract` is the refinement: the
  initial state maps to `RunProtocol`'s, every step to one of its steps or a
  stutter. `EachReportedOnce`: a worker that is pending has no step event, one
  that is reported has exactly one, and the run scores only when nobody is
  pending. `AnswersHaveSources`: where a merge is under way there is something
  to merge.
* `WorkerGateProofs`. The inductive invariant counts: free slots, slots of
  woken waiters and of running calls are never more than `MaxInflight`, and
  fewer by at most two for each call that broke (`NoSlotLost`, for any number
  of loops). That the cap holds and that no
  waiter sleeps beside a free slot (`CapOnOneLoop`, `NobodyForgotten`) is
  proved for callers that share one loop, an assumption that is needed:
  see the end of section 3.
* `PoolConfigProofs`. `RolesStayConnected` needs that every thread's pending
  settings are well-formed too, and rests on one lemma per handler.
  `OneLockIsAtomic` (the refinement) and `OneLockKeepsKeys` assume that no
  `put_settings` comes and nobody kills the process, which is what one lock
  promises; the invariant says that a thread between load and write holds the
  lock, and that its pending settings are an update of what is on disk.
* `EngineClientProofs`. That nobody is asked cold (`ChatsAreWarmed`) is not
  inductive: between a call's look at the pins and its chat the shutdown
  thread could unload the model, were it not waiting for the lock. The
  invariant therefore ties control points to the lock (`OneRequestAtATime`),
  and each call's answers so far to where it stands (`ErrorsAreEarned`).
* `StepRunProofs`. `PlansAreSound`, `RefsAreResolved` and
  `RejectionsAreMarked` from an invariant in three parts: the plan that is executed is audited or a
  single direct step; the memory holds exactly the steps before the current
  one; and of the output in hand, that `accepted` and `repaired` are what its
  verdicts make them, including the stale `accepted` after a failed call.
  `AccountsAreSound` (counters within their limits, the input spent within the
  budget) needs that what is begun can be paid for, and that the input, a sum
  over the steps that are read, is a number; `AllAreTried` (a query that fails
  while it is executed has been sent to every worker, or, if the isolation
  check refuses it, to none) that those before the candidate in the ranking
  have been called exactly if nothing is refused, and that the ranking of an
  executed step has everybody in it. `Accounts` is this part of the invariant.
* `PlannerProofs`. Every property of the planner, for every draft, rewrite,
  pool and cap. The passes are folds, and no theorem about folds can be used
  here (see below), so each is unrolled: its run is a function `h` from the
  number of elements consumed to the state reached, and what holds of `h[0]`
  and is kept by each step is in the set of good numbers, which `SetInduction`
  (a set that has 0 and, with a number, the next one has all of them) makes
  everything. The central lemmas: `KahnStep`, the invariant of the topological
  sort (what is out has everything it depends on before it; whatever depends
  only on what is out is out or queued; nothing is queued twice), from which an
  order that leaves steps over leaves a set in which each step waits for
  another of the same set, hence a cycle by finiteness. The theorems:
  - `StepsAreSound`: at every stage ids are distinct and dependencies point
    into the plan. It is the strengthening everything else rests on.
  - `ReadsAreFaithful`: no usable step and no declared edge is dropped, unless
    there is a cycle; `RepairOnlyAdds`: each pass keeps the edges among the
    steps it keeps (`Keeps`, which composes), and the cap holds at the end.
  - `LayersAreASchedule`: some function from steps to levels grows along every
    dependency, and the layers are its levels (`ScheduledBy`); the invariant
    keeps that function existentially. `CriticalAreFew` counts the marks.
  - `PlansAreStaffed`, `JudgesAreApart` from `TeamsAreSound`: each pick is
    among the eligible, picks of one step differ, and moving a verifying step
    leaves the others' teams alone. `LoadsAreEven`: while no one has two
    assignments more than another, everybody is in the band (a load weighs less
    than the band is wide), so the first pick is one of the least used; it is
    then one of the most used, so the second is one of the least used too.
* `FrontDoorProofs`. The invariant has one part for each composed module: what
  `hits` keeps is the end of the history of admissions, and what was pruned is
  older than a window (`NoWindowTooFull`, `RefusalsAreFair`); good keys are
  either shown, lost, just minted or held by a request that is going to show
  them (`RevocationIsFinal`, `SomebodyHasAKey`: a bootstrap leaves a key that
  somebody was shown, unless each good key's own text was lost); frames sent
  and the state of the run agree (`StreamsAreHonest`, and `WireIsReadable`, the
  refinement of `ChatProtocol`).

* That things end. Of the liveness properties the part without fairness is
  proved: there is no infinite run of steps that each look like progress.
  - `EveryStepCounts` of `ConductorExecProofs` and of `StepRunProofs` and
    `EveryEventCounts` of `RunStreamProofs`: a tuple `Left` (for the executor,
    in this order: the stages of the run, the layers, the stages within a
    layer, the calls that are out, the nodes to recover, the workers left for
    the one being recovered) falls in lexicographic order with *every* step,
    and that order is well founded. Each retry, replan, repair or recovery that
    starts an inner loop again must therefore use up something further to the
    left. Nodes and workers of the executor, and workers of a stream, are taken
    to be finitely many.
  - `EveryCallCounts` of `WorkerGateProofs` and of `EngineClientProofs` and
    `EveryFrameCounts` of `FrontDoorProofs`: where requests come for ever, and
    Ollama and the event loops move by themselves, the same holds of each call,
    thread or stream. No step of anybody raises its number, and its own steps
    lower it. For the gate that is so on any number of loops: a call that hangs
    there has no step to take, it does not turn in circles.

Every invariant and every action property a passing run checks, and each of the
three refinements, is thus also a theorem. Model-checked only is what is
temporal under fairness: `Termination`, `EveryNodeRuns`, `Closes`,
`NeverHangs`, `AllAnswered`, `Terminates`, `EveryStreamEnds`. What these say
beyond the theorems about ends is that before the end a step can always be
taken and that the fairness makes it be taken; TLAPS has no rules for `ENABLED`,
and with it none for `WF_vars`, so a `~>` under weak fairness cannot be derived
from its steps. `EveryNodeRuns` says moreover that the steps taken are calls of
every node.

The library's induction theorems take the statement as an operator parameter,
which the installed provers cannot instantiate. Where a proof needs induction
(sums, folds, levels) it therefore states the induction over a *set* of numbers
for which the claim holds, a first-order statement, and applies it to a set
defined on the spot.

## 5. Not modelled

* The text of prompts, answers and merges, and the numerical coordinator
  (frozen model, linear head, evolution): data, with no order of events to
  check.
* The learned means of workers and the 30 s health cache (`assign.py`): a
  choice of merits and of a health snapshot in `Planner`.
* The judge's own fallbacks: its verdicts are chosen freely in `ConductorExec`.
* Memory between queries of the step executor. Steps that refer to an earlier
  query never pass `_audit_workflow` (`engine.py:153`), so what the executor
  writes for later queries (`executor.py:57`) is never read by one.
* `/v1/health`, the metrics and the static files, which skip the limiter;
  `_hits` keeps clients that never come back, which costs memory only.
* The fast path (the controller never selects it), the evaluation harness, the
  benchmark jobs, the trajectory log (append-only, best effort), key encryption.
* The command line, docker and Ollama subprocesses, URL classification and
  network probes: I/O around external programs.

## 6. Plan

1. `ConductorExec` under `Planner`'s plans instead of two fixed ones, once a
   smaller abstraction of the executor is found that keeps the state space in
   reach.
2. The trace and the section scores of the `done` event.
3. The registry of benchmark jobs, the health cache with its age, and the
   choice of `memory_backend`, whose change keeps the old path.
4. Of the gate on several loops: which of the waiters can be left asleep, as a
   theorem next to `NobodyForgotten` (what is true without its assumption).

----------------------------- MODULE WorkerGate -----------------------------
(***************************************************************************)
(* The in-flight gate of one worker: every call of a worker (complete,     *)
(* complete_full, the fan-outs) takes a slot of a process-wide             *)
(* asyncio.Semaphore first and gives it back in a finally.                 *)
(*                                                                         *)
(* The semaphore is shared by every event loop of the process: /v1/run     *)
(* streams live on the server's loop, every chat completion and every      *)
(* synchronous call runs a loop of its own on its own thread.  Between two *)
(* callers of one loop nothing happens inside a step; callers of different *)
(* loops interleave wherever the interpreter may switch threads: at each   *)
(* call of a function and at each turn of a loop.  In acquire that is      *)
(* between locked() and what follows; in _wake_up_next, before it looks at *)
(* the queue, after each fut.done(), and before the next waiter.           *)
(***************************************************************************)
EXTENDS Integers, Sequences, FiniteSets, SequencesExt

CONSTANTS
  Callers,      \* calls of this worker
  Loops,        \* event loops they run on
  LoopOf,       \* the loop of each call
  AppLoop,      \* the server's loop; its calls can be cancelled
  NoLoop,       \* None
  MaxInflight,  \* ROUTISM_WORKER_MAX_INFLIGHT
  Retries       \* attempts of one call

ASSUME CallerAssumption == IsFiniteSet(Callers) /\ LoopOf \in [Callers -> Loops]
ASSUME LoopAssumption == NoLoop \notin Loops
ASSUME LimitAssumption == MaxInflight \in Nat \ {0} /\ Retries \in Nat \ {0}

VARIABLES
  value,    \* the semaphore's counter
  waiters,  \* its queue of futures, one per waiting caller
  woken,    \* waiters whose future is done
  due,      \* woken waiters whose loop is going to run them
  bound,    \* the loop the semaphore is bound to
  pc,       \* where each caller stands
  goal,     \* where it stands once it has woken others
  rest,     \* what its iterator over the queue has still to give, the
            \*   waiter it looks at first
  stale,    \* callers whose iterator the queue has changed under
  attempt   \* attempts each caller has made

vars == <<value, waiters, woken, due, bound, pc, goal, rest, stale, attempt>>

Over == {"done", "failed", "cancelled", "broken"}

(* In acquire's or release's wake-up of others.                            *)
Waking == {"loop", "wake", "scan", "give"}

-----------------------------------------------------------------------------
(* The semaphore *)

(* Semaphore.locked.                                                       *)
Locked == value = 0 \/ waiters # <<>>

(* What is left of the queue when caller c leaves it.                      *)
Without(c) == RemoveAt(waiters, CHOOSE i \in 1..Len(waiters) : waiters[i] = c)

(* The queue changes: who is between two of its elements will fail.        *)
Disturb == stale' = stale \union {d \in Callers : pc[d] = "scan"}

(* Caller `gone` leaves the semaphore's books; set_result is called for    *)
(* the waiters W by a coroutine of loop l.  The callback goes to the       *)
(* waiter's own loop with call_soon: that loop runs it if it is l, or if   *)
(* it happens to be awake; a loop asleep in select is not woken up.  And l *)
(* itself, which is turning, runs whatever it was left.                    *)
Grant(W, l, gone) ==
  /\ woken' = (woken \ gone) \union W
  /\ \E S \in SUBSET W :
       due' = (due \ gone) \union S \union {d \in woken' : LoopOf[d] = l}

(* Nothing granted: loop l turns all the same.                             *)
Turn(l) == Grant({}, l, {})

(* A coroutine of loop l is between two steps that other threads can see.  *)
Busy(l) == \E c \in Callers : LoopOf[c] = l /\ pc[c] \in {"take", "queue"} \union Waking

Runs(c, at) == pc[c] = at /\ ~Busy(LoopOf[c])
Goto(c, to) == pc' = [pc EXCEPT ![c] = to]

(* c goes on to wake others and then to g.                                 *)
WakeThen(c, at, g) == Goto(c, at) /\ goal' = [goal EXCEPT ![c] = g]

-----------------------------------------------------------------------------
Init ==
  /\ value = MaxInflight
  /\ waiters = <<>> /\ woken = {} /\ due = {}
  /\ bound = NoLoop
  /\ pc = [c \in Callers |-> "idle"]
  /\ goal = [c \in Callers |-> "hold"]
  /\ rest = [c \in Callers |-> <<>>]
  /\ stale = {}
  /\ attempt = [c \in Callers |-> 0]

(* Mutant: only the queue is looked at.                                    *)
LookAtQueue(c) ==
  /\ Runs(c, "idle")
  /\ Goto(c, IF waiters # <<>> THEN "queue" ELSE "take")
  /\ Turn(LoopOf[c])
  /\ UNCHANGED <<value, waiters, bound, goal, rest, stale, attempt>>

(* acquire, first half: is there a slot, and nobody before us?             *)
Look(c) ==
  /\ Runs(c, "idle")
  /\ Goto(c, IF Locked THEN "queue" ELSE "take")
  /\ Turn(LoopOf[c])
  /\ UNCHANGED <<value, waiters, bound, goal, rest, stale, attempt>>

(* There was: take it, without waiting.                                    *)
Take(c) ==
  /\ pc[c] = "take"
  /\ value' = value - 1
  /\ Goto(c, "hold")
  /\ Turn(LoopOf[c])
  /\ UNCHANGED <<waiters, bound, goal, rest, stale, attempt>>

(* There was not: queue up.  The first caller to do so binds the semaphore *)
(* to its loop; on any other loop the call fails with a RuntimeError.      *)
Queue(c) ==
  /\ pc[c] = "queue"
  /\ bound' = IF bound = NoLoop THEN LoopOf[c] ELSE bound
  /\ IF bound' = LoopOf[c]
     THEN Goto(c, "wait") /\ waiters' = Append(waiters, c) /\ Disturb
     ELSE Goto(c, "failed") /\ UNCHANGED <<waiters, stale>>
  /\ Turn(LoopOf[c])
  /\ UNCHANGED <<value, goal, rest, attempt>>

(* The waiter runs again, with a slot of its own; it leaves the queue.     *)
Resume(c) ==
  /\ Runs(c, "wait") /\ c \in due
  /\ waiters' = Without(c)
  /\ Disturb
  /\ WakeThen(c, "loop", "hold")
  /\ Grant({}, LoopOf[c], {c})
  /\ UNCHANGED <<value, bound, rest, attempt>>

(* acquire's `while self._value > 0`.                                      *)
Loop(c) ==
  /\ pc[c] = "loop"
  /\ Goto(c, IF value > 0 THEN "wake" ELSE goal[c])
  /\ Turn(LoopOf[c])
  /\ UNCHANGED <<value, waiters, bound, goal, rest, stale, attempt>>

(* c's iterator has q still to give: it passes a waiter that is done, and  *)
(* stops at one that is not; when there is none, c is through.             *)
Examine(c, q) ==
  /\ rest' = [rest EXCEPT ![c] = q]
  /\ Goto(c, IF q = <<>> THEN goal[c] ELSE IF Head(q) \in woken THEN "scan" ELSE "give")

(* _wake_up_next begins with the first waiter there is.                    *)
Wake(c) ==
  /\ pc[c] = "wake"
  /\ Examine(c, waiters)
  /\ Turn(LoopOf[c])
  /\ UNCHANGED <<value, waiters, bound, goal, stale, attempt>>

(* It goes on to the next one, unless the queue has changed meanwhile: the *)
(* RuntimeError ends the call.                                             *)
Scan(c) ==
  /\ pc[c] = "scan"
  /\ IF c \in stale
     THEN Goto(c, "broken") /\ rest' = [rest EXCEPT ![c] = <<>>]
     ELSE Examine(c, Tail(rest[c]))
  /\ stale' = stale \ {c}
  /\ Turn(LoopOf[c])
  /\ UNCHANGED <<value, waiters, bound, goal, attempt>>

(* The waiter it stopped at gets a slot.  If its future is done by now,    *)
(* which another thread did or its client, set_result raises an            *)
(* InvalidStateError, and the slot is gone.                                *)
Give(c) ==
  /\ pc[c] = "give"
  /\ value' = value - 1
  /\ rest' = [rest EXCEPT ![c] = <<>>]
  /\ LET w == Head(rest[c])
     IN IF pc[w] = "wait" /\ w \notin woken
        THEN Grant({w}, LoopOf[c], {}) /\ Goto(c, IF goal[c] = "done" THEN "done" ELSE "loop")
        ELSE Turn(LoopOf[c]) /\ Goto(c, "broken")
  /\ UNCHANGED <<waiters, bound, goal, stale, attempt>>

(* One attempt of the HTTP call, the slot held throughout: an answer and a *)
(* permanent error (4xx) end the call, a transient error does so only      *)
(* after the last attempt.  The slot goes back to the counter first.       *)
Attempt(c, ends) ==
  /\ Runs(c, "hold")
  /\ attempt' = [attempt EXCEPT ![c] = attempt[c] + 1]
  /\ IF ends \/ attempt'[c] = Retries
     THEN WakeThen(c, "wake", "done") /\ value' = value + 1
     ELSE UNCHANGED <<pc, goal, value>>
  /\ Turn(LoopOf[c])
  /\ UNCHANGED <<waiters, bound, rest, stale>>

(* Mutant: a slot that came too late is forgotten.                         *)
CancelWaitKeep(c) ==
  /\ LoopOf[c] = AppLoop
  /\ Runs(c, "wait")
  /\ waiters' = Without(c)
  /\ Disturb
  /\ WakeThen(c, "loop", "cancelled")
  /\ Grant({}, LoopOf[c], {c})
  /\ UNCHANGED <<value, bound, rest, attempt>>

(* The client of /v1/run goes away while the call waits for its slot: a    *)
(* slot it was already given goes back, and on to the next waiters.        *)
CancelWait(c) ==
  /\ LoopOf[c] = AppLoop
  /\ Runs(c, "wait")
  /\ waiters' = Without(c)
  /\ Disturb
  /\ WakeThen(c, "loop", "cancelled")
  /\ value' = IF c \in woken THEN value + 1 ELSE value
  /\ Grant({}, LoopOf[c], {c})
  /\ UNCHANGED <<bound, rest, attempt>>

(* Mutant: only a call that ends by itself gives its slot back.            *)
CancelCallKeep(c) ==
  /\ LoopOf[c] = AppLoop
  /\ Runs(c, "hold")
  /\ WakeThen(c, "wake", "done")
  /\ Turn(LoopOf[c])
  /\ UNCHANGED <<value, waiters, bound, rest, stale, attempt>>

(* The same during the HTTP call: the finally gives the slot back.         *)
CancelCall(c) ==
  /\ LoopOf[c] = AppLoop
  /\ Runs(c, "hold")
  /\ WakeThen(c, "wake", "done")
  /\ value' = value + 1
  /\ Turn(LoopOf[c])
  /\ UNCHANGED <<waiters, bound, rest, stale, attempt>>

(* The HTTP server wakes its own loop ten times a second.                  *)
Tick ==
  /\ ~Busy(AppLoop)
  /\ Turn(AppLoop)
  /\ UNCHANGED <<value, waiters, bound, pc, goal, rest, stale, attempt>>

Finished == (\A c \in Callers : pc[c] \in Over) /\ UNCHANGED vars

Work(c) ==
  \/ Look(c) \/ Take(c) \/ Queue(c) \/ Resume(c)
  \/ \E ends \in BOOLEAN : Attempt(c, ends)
  \/ Loop(c) \/ Wake(c) \/ Scan(c) \/ Give(c)

Next ==
  \/ \E c \in Callers : Work(c) \/ CancelWait(c) \/ CancelCall(c)
  \/ Tick
  \/ Finished

Spec == Init /\ [][Next]_vars

(* A call that can go on does: threads are scheduled, HTTP calls time out. *)
FairSpec ==
  /\ Spec
  /\ \A c \in Callers : WF_vars(Work(c))
  /\ WF_vars(Tick)

-----------------------------------------------------------------------------
(***************************************************************************)
(* Properties                                                              *)
(***************************************************************************)
Holding == {c \in Callers : pc[c] = "hold"}

(* Callers that have a slot: those, and who wakes others before it calls.  *)
Owning == {c \in Callers : pc[c] = "hold" \/ (pc[c] \in Waking /\ goal[c] = "hold")}

(* Callers whose wake-up of others met another thread's and raised.        *)
Broken == {c \in Callers : pc[c] = "broken"}

(* Every variable has its type.                                            *)
TypeOK ==
  /\ value \in Int
  /\ waiters \in Seq(Callers)
  /\ woken \subseteq Callers
  /\ due \subseteq woken
  /\ bound \in Loops \union {NoLoop}
  /\ pc \in [Callers -> {"idle", "take", "queue", "wait", "hold"} \union Waking \union Over]
  /\ goal \in [Callers -> {"hold", "done", "cancelled"}]
  /\ rest \in [Callers -> Seq(Callers)]
  /\ stale \subseteq Callers
  /\ attempt \in [Callers -> 0..Retries]

(* The slots that are somewhere: free, taken, or on their way to a waiter. *)
Slots == value + Cardinality(Owning) + Cardinality(woken)

(* "Acquire one in-flight slot; release in finally": no slot is made up,   *)
(* and none is lost on any path through acquire, retry, release and        *)
(* cancellation, except where two threads wake the same waiter or change   *)
(* the queue under each other: then the one that comes second ends with an *)
(* error, and takes with it the slot it was giving and, in acquire, its    *)
(* own.                                                                    *)
SlotsConserved ==
  /\ Slots <= MaxInflight
  /\ MaxInflight - 2 * Cardinality(Broken) <= Slots

(* Between the calls of one loop nothing is ever missing.                  *)
NothingMissing == Slots = MaxInflight

(* "caps how many concurrent jobs may hit the same worker_id at once":     *)
(* true of callers that share one loop.                                    *)
CapHolds == Cardinality(Holding) <= MaxInflight

(* No waiter is left waiting for a slot that is free, unless somebody who  *)
(* will pass it on is just about to run: a call that is waking others, or  *)
(* a waiter that was woken.                                                *)
NoLostWakeup ==
  (\E i \in 1..Len(waiters) : waiters[i] \notin woken) /\ value > 0
    => woken # {} \/ \E c \in Callers : pc[c] \in Waking

(* Every call that queues up gets on: "NEVER hang the request thread".     *)
NeverHangs == \A c \in Callers : pc[c] = "wait" ~> pc[c] # "wait"
=============================================================================

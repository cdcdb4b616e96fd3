---------------------------- MODULE EngineClient ----------------------------
(***************************************************************************)
(* The engine client: the process's calls of its own reserved models       *)
(* (planner, scorer, synthesizer) on the local Ollama, and how it keeps    *)
(* those models loaded.                                                    *)
(*                                                                         *)
(* Requests come from any thread: the server's executor, the loop of a     *)
(* chat completion, the daemon thread that pins the models at start, the   *)
(* shutdown hook that unloads them.  One process-wide lock keeps them one  *)
(* at a time.  What the client believes is loaded (pinned) is only a set   *)
(* in its memory; what is loaded (warm) is up to Ollama, which other parts *)
(* of the program and of the machine use too.                              *)
(***************************************************************************)
EXTENDS Integers, Sequences, FiniteSets

CONSTANTS
  Calls,       \* engine calls made by requests
  Probing,     \* those made only after engine_models_ready said yes
  Pinner,      \* the thread that pins at start
  Unpinner,    \* the thread of the shutdown hook
  NoThread,    \* the lock is free
  Models,      \* tags Ollama may have
  Family,      \* a tag without what follows its colon
  TagOf,       \* the tag each call is for
  StartTags,   \* thinker, verifier: pinned at start, in this order
  EngineTags,  \* every reserved model of the registry, in its order
  Required,    \* the tags engine_models_ready is asked about
  Retries      \* attempts of one call

ASSUME ThreadAssumption ==
  /\ Probing \subseteq Calls
  /\ Pinner \notin Calls /\ Unpinner \notin Calls /\ Pinner # Unpinner
  /\ NoThread \notin Calls \union {Pinner, Unpinner}
ASSUME TagAssumption ==
  /\ TagOf \in [Calls -> Models] /\ Required \subseteq Models
  /\ StartTags \in Seq(Models) /\ EngineTags \in Seq(Models)
ASSUME RetryAssumption == Retries \in Nat \ {0}

VARIABLES
  phase,    \* of the process
  lock,     \* _ENGINE_LOCK
  pc,       \* where each thread stands
  pos,      \* which tag Pinner and Unpinner are at
  log,      \* the answers to the requests each call has sent
  tried,    \* calls that tried to pin their model themselves
  pinned,   \* _pinned_tags
  pulled,   \* Ollama: the tags on disk
  warm,     \* Ollama: the tags loaded
  cooled    \* tags Ollama has unloaded without the client being told

vars == <<phase, lock, pc, pos, log, tried, pinned, pulled, warm, cooled>>
ollama == <<pinned, warm, cooled>>

Threads == Calls \union {Pinner, Unpinner}
TagsOf(th) == IF th = Pinner THEN StartTags ELSE EngineTags

(* A thread is in one of these only while it holds the lock.               *)
Inside == {"pin", "chat", "tags"}
Goto(th, to) == pc' = [pc EXCEPT ![th] = to]

-----------------------------------------------------------------------------
(* Requests *)

(* What /api/generate does: with keep it loads the tag, without it unloads *)
(* it.  It may have been done although no answer came (a timeout).         *)
Generate(t, keep, ran, told) ==
  /\ told => ran
  /\ ran => t \in pulled
  /\ warm' = IF ~ran THEN warm ELSE IF keep THEN warm \union {t} ELSE warm \ {t}
  /\ pinned' = IF ~told THEN pinned ELSE IF keep THEN pinned \union {t} ELSE pinned \ {t}
  /\ cooled' = IF ~ran THEN cooled ELSE IF keep THEN cooled \ {t} ELSE cooled \union {t}

(* A tag already pinned is not pinned again.  Failures are swallowed.      *)
PinTag(t, keep) ==
  IF t \in pinned /\ keep THEN UNCHANGED ollama
  ELSE \E ran, told \in BOOLEAN : Generate(t, keep, ran, told)

(* What engine_models_ready reports missing when Ollama answers: any size  *)
(* of a family stands for all of them.                                     *)
Missing == {t \in Required : t \notin pulled /\ \A m \in pulled : Family[m] # Family[t]}

-----------------------------------------------------------------------------
Init ==
  /\ phase = "up"
  /\ lock = NoThread
  /\ pc = [th \in Threads |-> IF th = Pinner THEN "wait" ELSE "idle"]
  /\ pos = [th \in {Pinner, Unpinner} |-> 1]
  /\ log = [c \in Calls |-> <<>>]
  /\ tried = {} /\ pinned = {} /\ cooled = {}
  /\ pulled \in SUBSET Models
  /\ warm \in SUBSET pulled

(* Nobody has asked for the lock yet.  A caller that probes gives up when  *)
(* Ollama does not answer or a required model is missing.                  *)
Begin(c) ==
  /\ phase # "down" /\ pc[c] = "idle"
  /\ IF c \in Probing
     THEN \E answers \in BOOLEAN :
            Goto(c, IF answers /\ Missing = {} THEN "wait" ELSE "skipped")
     ELSE Goto(c, "wait")
  /\ UNCHANGED <<phase, lock, pos, log, tried, pulled, ollama>>

(* Mutant: once the startup thread is through, its pins are relied on.     *)
AcquireTrusting(th) ==
  /\ phase # "down" /\ pc[th] = "wait" /\ lock = NoThread
  /\ lock' = th
  /\ Goto(th, IF th \notin Calls THEN "tags"
              ELSE IF TagOf[th] \in pinned \/ pc[Pinner] = "done" THEN "chat" ELSE "pin")
  /\ UNCHANGED <<phase, pos, log, tried, pulled, ollama>>

(* _ENGINE_LOCK is free.  A call looks at once whether its model is pinned *)
(* already.                                                                *)
Acquire(th) ==
  /\ phase # "down" /\ pc[th] = "wait" /\ lock = NoThread
  /\ lock' = th
  /\ Goto(th, IF th \notin Calls THEN "tags" ELSE IF TagOf[th] \in pinned THEN "chat" ELSE "pin")
  /\ UNCHANGED <<phase, pos, log, tried, pulled, ollama>>

(* The lazy pin of a call.  It goes on whatever came of it.                *)
LazyPin(c) ==
  /\ phase # "down" /\ pc[c] = "pin"
  /\ PinTag(TagOf[c], TRUE)
  /\ tried' = tried \union {c}
  /\ Goto(c, "chat")
  /\ UNCHANGED <<phase, lock, pos, log, pulled>>

(* Mutant: a 4xx is retried like a 5xx.                                    *)
ChatRetryFatal(c, answer) ==
  LET over == answer = "ok" \/ Len(log[c]) + 1 = Retries
  IN /\ phase # "down" /\ pc[c] = "chat"
     /\ TagOf[c] \notin pulled => answer # "ok"
     /\ log' = [log EXCEPT ![c] = Append(@, answer)]
     /\ Goto(c, IF over THEN "done" ELSE "chat")
     /\ lock' = IF over THEN NoThread ELSE lock
     /\ UNCHANGED <<phase, pos, tried, pulled, ollama>>

(* One chat request of a call: answered; timed out, 5xx, no connection or  *)
(* a shape it does not know, which is tried again after a pause; or any    *)
(* other status, which is final.  The lock is kept between attempts.       *)
(* Ollama loads the model it answers with.                                 *)
Chat(c, answer) ==
  LET over == answer # "again" \/ Len(log[c]) + 1 = Retries
  IN /\ phase # "down" /\ pc[c] = "chat"
     /\ TagOf[c] \notin pulled => answer # "ok"
     /\ log' = [log EXCEPT ![c] = Append(@, answer)]
     /\ Goto(c, IF over THEN "done" ELSE "chat")
     /\ lock' = IF over THEN NoThread ELSE lock
     /\ warm' = IF answer = "ok" THEN warm \union {TagOf[c]} ELSE warm
     /\ cooled' = IF answer = "ok" THEN cooled \ {TagOf[c]} ELSE cooled
     /\ UNCHANGED <<phase, pos, tried, pinned, pulled>>

(* Mutant: the loop stays at a tag until it is done.                       *)
NextTagInsist(th) ==
  /\ phase # "down" /\ pc[th] = "tags" /\ th \notin Calls
  /\ IF pos[th] <= Len(TagsOf(th))
     THEN /\ PinTag(TagsOf(th)[pos[th]], th = Pinner)
          /\ pos' = [pos EXCEPT ![th] =
                       IF (TagsOf(th)[@] \in pinned') <=> (th = Pinner) THEN @ + 1 ELSE @]
          /\ UNCHANGED <<lock, pc>>
     ELSE /\ lock' = NoThread
          /\ Goto(th, "done")
          /\ UNCHANGED <<pos, ollama>>
  /\ UNCHANGED <<phase, log, tried, pulled>>

(* pin_engine_models and unpin_engine_models: one tag after the other,     *)
(* under one hold of the lock, whatever became of the one before.          *)
NextTag(th) ==
  /\ phase # "down" /\ pc[th] = "tags" /\ th \notin Calls
  /\ IF pos[th] <= Len(TagsOf(th))
     THEN /\ PinTag(TagsOf(th)[pos[th]], th = Pinner)
          /\ pos' = [pos EXCEPT ![th] = @ + 1]
          /\ UNCHANGED <<lock, pc>>
     ELSE /\ lock' = NoThread
          /\ Goto(th, "done")
          /\ UNCHANGED <<pos, ollama>>
  /\ UNCHANGED <<phase, log, tried, pulled>>

(* The lifespan ends.  The pin thread may still be waiting, and threads    *)
(* whose client has gone may still be calling.                             *)
Shutdown ==
  /\ phase = "up"
  /\ phase' = "closing"
  /\ Goto(Unpinner, "wait")
  /\ UNCHANGED <<lock, pos, log, tried, pulled, ollama>>

(* The interpreter waits for executor threads, not for the daemon thread.  *)
Exit ==
  /\ phase = "closing" /\ pc[Unpinner] = "done"
  /\ \A c \in Calls : pc[c] \notin {"wait"} \union Inside
  /\ phase' = "down"
  /\ UNCHANGED <<lock, pc, pos, log, tried, pulled, ollama>>

(* Ollama unloads a model on its own: keep_alive has run out, it was       *)
(* restarted, or removing a connection of the pool unloads the model that  *)
(* connection shares with the engine.                                      *)
Cool(t) ==
  /\ t \in warm
  /\ warm' = warm \ {t}
  /\ cooled' = cooled \union {t}
  /\ UNCHANGED <<phase, lock, pc, pos, log, tried, pinned, pulled>>

(* A model is deleted from Ollama.                                         *)
Delete(t) ==
  /\ t \in pulled
  /\ pulled' = pulled \ {t} /\ warm' = warm \ {t} /\ cooled' = cooled \union {t}
  /\ UNCHANGED <<phase, lock, pc, pos, log, tried, pinned>>

Run(th) ==
  \/ Acquire(th)
  \/ NextTag(th)
  \/ th \in Calls /\ LazyPin(th)
  \/ th \in Calls /\ \E answer \in {"ok", "again", "fatal"} : Chat(th, answer)

Next ==
  \/ \E c \in Calls : Begin(c)
  \/ \E th \in Threads : Run(th)
  \/ Shutdown
  \/ Exit
  \/ \E t \in Models : Cool(t) \/ Delete(t)

Spec == Init /\ [][Next]_vars
(* Threads run, and every request ends: httpx has a timeout.               *)
FairSpec == Spec /\ \A th \in Threads : WF_vars(Run(th))

-----------------------------------------------------------------------------
(* Properties *)

(* Types.                                                                  *)
TypeOK ==
  /\ phase \in {"up", "closing", "down"}
  /\ lock \in Threads \union {NoThread}
  /\ pc \in [Threads -> {"idle", "wait", "skipped", "done"} \union Inside]
  /\ pos \in [{Pinner, Unpinner} -> Nat \ {0}]
  /\ log \in [Calls -> Seq({"ok", "again", "fatal"})]
  /\ \A c \in Calls : Len(log[c]) <= Retries
  /\ tried \subseteq Calls
  /\ pinned \subseteq Models /\ pulled \subseteq Models
  /\ warm \subseteq pulled /\ cooled \subseteq Models

(* What the client believes is loaded is loaded, except for models Ollama  *)
(* has unloaded behind its back: no order of pins, lazy pins, lost answers *)
(* and the unloading at shutdown makes the client itself forget.           *)
PinsExplained == \A t \in pinned : t \in warm \/ t \in cooled

(* No chat request goes out for a model that is neither pinned nor was     *)
(* tried to be pinned by this very call, also when the startup thread or   *)
(* the shutdown hook is pinning and unpinning at the same time.            *)
ChatsWarmed == \A c \in Calls : pc[c] = "chat" => TagOf[c] \in pinned \/ c \in tried

(* All traffic with the engine is one request at a time, and it is the     *)
(* holder of the lock that sends it.                                       *)
OneAtATime == \A th \in Threads : (pc[th] \in Inside) <=> (lock = th)

(* A call fails only after a final answer or after as many temporary ones  *)
(* as it has attempts, and asks no more once it was answered.              *)
ErrorsEarned ==
  \A c \in Calls :
    /\ \A i \in 1..(Len(log[c]) - 1) : log[c][i] = "again"
    /\ pc[c] = "done" => /\ log[c] # <<>>
                         /\ log[c][Len(log[c])] = "again" => Len(log[c]) = Retries

(* Every call that waits for the engine ends, answered or not.             *)
AllAnswered == \A c \in Calls : pc[c] = "wait" ~> pc[c] = "done"
=============================================================================

-------------------------- MODULE EngineClientProofs --------------------------
(***************************************************************************)
(* Proofs about EngineClient, for any callers, tags and number of retries. *)
(***************************************************************************)
EXTENDS EngineClient, SequenceTheorems, TLAPS

Answers == {"ok", "again", "fatal"}

(* What a call was told so far, by where it stands.                        *)
Earned(c) ==
  /\ pc[c] # "tags"
  /\ pc[c] \in {"idle", "wait", "skipped", "pin"} => log[c] = <<>>
  /\ pc[c] = "chat" => /\ Len(log[c]) < Retries
                       /\ \A i \in 1..Len(log[c]) : log[c][i] = "again"
  /\ pc[c] = "done" => /\ log[c] # <<>>
                       /\ \A i \in 1..(Len(log[c]) - 1) : log[c][i] = "again"
                       /\ log[c][Len(log[c])] = "again" => Len(log[c]) = Retries

(* The threads that pin and unpin send no chats, and nothing is unloaded   *)
(* before the shutdown.                                                    *)
Apart ==
  /\ \A th \in {Pinner, Unpinner} : pc[th] \notin {"pin", "chat"}
  /\ phase = "up" => pc[Unpinner] = "idle"

Inv ==
  /\ TypeOK /\ OneAtATime /\ PinsExplained /\ ChatsWarmed
  /\ \A c \in Calls : Earned(c)
  /\ Apart

LEMMA Initially == Init => Inv
<1> SUFFICES ASSUME Init  PROVE Inv
  OBVIOUS
<1>1. TypeOK
  BY RetryAssumption DEF Init, TypeOK, Threads
<1>2. OneAtATime /\ PinsExplained /\ ChatsWarmed
  BY ThreadAssumption DEF Init, OneAtATime, PinsExplained, ChatsWarmed, Threads, Inside
<1>3. \A c \in Calls : Earned(c)
  BY ThreadAssumption DEF Init, Earned, Threads
<1>4. Apart
  BY ThreadAssumption DEF Init, Apart, Threads
<1> QED  BY <1>1, <1>2, <1>3, <1>4 DEF Inv

(* What a request to load or unload a tag does to Ollama and to what the   *)
(* client believes of it.                                                  *)
LEMMA PinTagKeeps ==
  ASSUME Inv, NEW t \in Models, NEW keep \in BOOLEAN, PinTag(t, keep), pulled' = pulled
  PROVE  /\ pinned' \subseteq Models /\ warm' \subseteq pulled' /\ cooled' \subseteq Models
         /\ PinsExplained'
         /\ keep => pinned \subseteq pinned'
<1>1. TypeOK /\ PinsExplained
  BY DEF Inv
<1>2. CASE t \in pinned /\ keep
  BY <1>1, <1>2 DEF PinTag, ollama, TypeOK, PinsExplained
<1>3. CASE ~(t \in pinned /\ keep)
  <2>1. PICK ran \in BOOLEAN, told \in BOOLEAN : Generate(t, keep, ran, told)
    BY <1>3 DEF PinTag
  <2> QED  BY <1>1, <2>1 DEF Generate, TypeOK, PinsExplained
<1> QED  BY <1>2, <1>3

(* Who goes somewhere, goes alone.                                         *)
LEMMA GoesAlone ==
  ASSUME Inv, NEW th \in Threads, NEW to, Goto(th, to)
  PROVE  pc'[th] = to /\ \A x \in Threads \ {th} : pc'[x] = pc[x]
BY DEF Inv, TypeOK, Goto

(* A step that does not touch what Ollama and the client know of models.   *)
LEMMA ModelsKept ==
  ASSUME Inv, ollama' = ollama, pulled' = pulled
  PROVE  /\ pinned' \subseteq Models /\ pulled' \subseteq Models /\ warm' \subseteq pulled'
         /\ cooled' \subseteq Models /\ PinsExplained'
BY DEF Inv, TypeOK, ollama, PinsExplained

LEMMA BeginKeeps ==
  ASSUME Inv, NEW c \in Calls, Begin(c)
  PROVE  Inv'
<1>1. PICK to \in {"wait", "skipped"} : Goto(c, to)
  BY DEF Begin
<1>2. /\ pc[c] = "idle" /\ phase' = phase /\ lock' = lock /\ pos' = pos /\ log' = log
      /\ tried' = tried /\ ollama' = ollama /\ pulled' = pulled
  BY DEF Begin
<1>3. /\ c \in Threads /\ pc'[c] = to /\ \A x \in Threads \ {c} : pc'[x] = pc[x]
      /\ c \notin {Pinner, Unpinner}
  BY <1>1, GoesAlone, ThreadAssumption DEF Threads
<1>4. TypeOK'
  BY <1>1, <1>2, ModelsKept DEF Inv, TypeOK, Goto
<1>5. OneAtATime'
  BY <1>2, <1>3 DEF Inv, OneAtATime, Inside
<1>6. ChatsWarmed'
  BY <1>2, <1>3 DEF Inv, ChatsWarmed, ollama, Threads
<1>7. \A d \in Calls : Earned(d)'
  BY <1>2, <1>3 DEF Inv, Earned, Threads
<1>8. Apart'
  BY <1>1, <1>2, <1>3, ThreadAssumption DEF Inv, Apart, Threads
<1> QED  BY <1>2, <1>4, <1>5, <1>6, <1>7, <1>8, ModelsKept DEF Inv

LEMMA AcquireKeeps ==
  ASSUME Inv, NEW th \in Threads, Acquire(th)
  PROVE  Inv'
<1> DEFINE to == IF th \notin Calls THEN "tags" ELSE IF TagOf[th] \in pinned THEN "chat" ELSE "pin"
<1>1. Goto(th, to) /\ to \in {"tags", "chat", "pin"}
  BY DEF Acquire
<1>2. /\ pc[th] = "wait" /\ lock = NoThread /\ lock' = th /\ phase' = phase /\ pos' = pos
      /\ log' = log /\ tried' = tried /\ ollama' = ollama /\ pulled' = pulled
  BY DEF Acquire
<1>3. pc'[th] = to /\ \A x \in Threads \ {th} : pc'[x] = pc[x]
  BY <1>1, GoesAlone
<1>4. TypeOK'
  BY <1>1, <1>2, ModelsKept DEF Inv, TypeOK, Goto, Inside
<1>5. OneAtATime'
  BY <1>1, <1>2, <1>3, ThreadAssumption DEF Inv, OneAtATime, Inside, Threads
<1>6. ChatsWarmed'
  BY <1>2, <1>3 DEF Inv, ChatsWarmed, ollama, Threads
<1>7. \A d \in Calls : Earned(d)'
  <2> SUFFICES ASSUME NEW d \in Calls  PROVE Earned(d)'
    OBVIOUS
  <2>1. CASE d # th
    BY <1>2, <1>3, <2>1 DEF Inv, Earned, Threads
  <2>2. CASE d = th
    <3>1. log'[d] = <<>> /\ pc'[d] \in {"chat", "pin"}
      BY <1>2, <1>3, <2>2 DEF Inv, Earned
    <3> QED  BY <3>1, RetryAssumption DEF Earned
  <2> QED  BY <2>1, <2>2
<1>8. Apart'
  BY <1>1, <1>2, <1>3, ThreadAssumption DEF Inv, Apart, Threads
<1> QED  BY <1>2, <1>4, <1>5, <1>6, <1>7, <1>8, ModelsKept DEF Inv

LEMMA LazyPinKeeps ==
  ASSUME Inv, NEW c \in Calls, LazyPin(c)
  PROVE  Inv'
<1>1. /\ pc[c] = "pin" /\ PinTag(TagOf[c], TRUE) /\ tried' = tried \union {c} /\ Goto(c, "chat")
      /\ phase' = phase /\ lock' = lock /\ pos' = pos /\ log' = log /\ pulled' = pulled
  BY DEF LazyPin
<1>2. c \in Threads /\ c \notin {Pinner, Unpinner} /\ TagOf[c] \in Models
  BY ThreadAssumption, TagAssumption DEF Threads
<1>3. pc'[c] = "chat" /\ \A x \in Threads \ {c} : pc'[x] = pc[x]
  BY <1>1, <1>2, GoesAlone
<1>4. /\ pinned' \subseteq Models /\ warm' \subseteq pulled' /\ cooled' \subseteq Models
      /\ PinsExplained' /\ pinned \subseteq pinned'
  BY <1>1, <1>2, PinTagKeeps
<1>5. TypeOK'
  BY <1>1, <1>4 DEF Inv, TypeOK, Goto, Inside
<1>6. OneAtATime'
  BY <1>1, <1>2, <1>3 DEF Inv, OneAtATime, Inside
<1>7. ChatsWarmed'
  BY <1>1, <1>3, <1>4 DEF Inv, ChatsWarmed, Threads
<1>8. \A d \in Calls : Earned(d)'
  <2> SUFFICES ASSUME NEW d \in Calls  PROVE Earned(d)'
    OBVIOUS
  <2>1. CASE d # c
    BY <1>1, <1>3, <2>1 DEF Inv, Earned, Threads
  <2>2. CASE d = c
    <3>1. log'[d] = <<>> /\ pc'[d] = "chat"
      BY <1>1, <1>3, <2>2 DEF Inv, Earned
    <3> QED  BY <3>1, RetryAssumption DEF Earned
  <2> QED  BY <2>1, <2>2
<1>9. Apart'
  BY <1>1, <1>2, <1>3, ThreadAssumption DEF Inv, Apart, Threads
<1> QED  BY <1>4, <1>5, <1>6, <1>7, <1>8, <1>9 DEF Inv
LEMMA ChatKeeps ==
  ASSUME Inv, NEW c \in Calls, NEW answer \in Answers, Chat(c, answer)
  PROVE  Inv'
<1> DEFINE over == answer # "again" \/ Len(log[c]) + 1 = Retries
           n == Len(log[c])
<1>1. /\ pc[c] = "chat"
      /\ (TagOf[c] \notin pulled => answer # "ok")
      /\ log' = [log EXCEPT ![c] = Append(@, answer)]
      /\ Goto(c, IF over THEN "done" ELSE "chat")
      /\ lock' = IF over THEN NoThread ELSE lock
      /\ warm' = IF answer = "ok" THEN warm \union {TagOf[c]} ELSE warm
      /\ cooled' = IF answer = "ok" THEN cooled \ {TagOf[c]} ELSE cooled
      /\ phase' = phase /\ pos' = pos /\ tried' = tried /\ pinned' = pinned /\ pulled' = pulled
  BY DEF Chat
<1>2. c \in Threads /\ c \notin {Pinner, Unpinner} /\ TagOf[c] \in Models
  BY ThreadAssumption, TagAssumption DEF Threads
<1>3. /\ pc'[c] = (IF over THEN "done" ELSE "chat")
      /\ \A x \in Threads \ {c} : pc'[x] = pc[x]
  BY <1>1, <1>2, GoesAlone
<1>4. /\ log[c] \in Seq(Answers) /\ n \in Nat /\ n < Retries
      /\ \A i \in 1..n : log[c][i] = "again"
  BY <1>1 DEF Inv, TypeOK, Earned, Answers
<1>5. log'[c] = Append(log[c], answer) /\ \A d \in Calls \ {c} : log'[d] = log[d]
  BY <1>1 DEF Inv, TypeOK
<1>6. /\ log'[c] \in Seq(Answers) /\ Len(log'[c]) = n + 1 /\ log'[c][n + 1] = answer
      /\ \A i \in 1..n : log'[c][i] = "again"
  BY <1>4, <1>5, AppendProperties
<1> HIDE DEF n
<1>7. TypeOK'
  <2>1. log' \in [Calls -> Seq(Answers)] /\ \A d \in Calls : Len(log'[d]) <= Retries
    BY <1>1, <1>4, <1>5, <1>6, RetryAssumption DEF Inv, TypeOK, Answers
  <2>2. pc' \in [Threads -> {"idle", "wait", "skipped", "done"} \union Inside]
    BY <1>1 DEF Inv, TypeOK, Goto, Inside
  <2>3. warm' \subseteq pulled' /\ cooled' \subseteq Models /\ lock' \in Threads \union {NoThread}
    BY <1>1 DEF Inv, TypeOK
  <2> QED  BY <1>1, <2>1, <2>2, <2>3 DEF Inv, TypeOK, Answers
<1>8. OneAtATime'
  <2>1. lock = c
    BY <1>1, <1>2 DEF Inv, OneAtATime, Inside
  <2>2. lock' = (IF pc'[c] = "chat" THEN c ELSE NoThread)
    BY <1>1, <1>3, <2>1
  <2> QED  BY <1>2, <1>3, <2>1, <2>2, ThreadAssumption DEF Inv, OneAtATime, Inside, Threads
<1>9. PinsExplained'
  BY <1>1 DEF Inv, PinsExplained
<1>10. ChatsWarmed'
  BY <1>1, <1>3 DEF Inv, ChatsWarmed, Threads
<1>11. \A d \in Calls : Earned(d)'
  <2> SUFFICES ASSUME NEW d \in Calls  PROVE Earned(d)'
    OBVIOUS
  <2>1. CASE d # c
    BY <1>3, <1>5, <2>1 DEF Inv, Earned, Threads
  <2>2. CASE d = c /\ over
    <3>1. pc'[c] = "done" /\ log'[c] # <<>> /\ (answer = "again" => n + 1 = Retries)
      BY <1>3, <1>4, <1>6, <2>2 DEF n
    <3> QED  BY <1>4, <1>6, <2>2, <3>1 DEF Earned
  <2>3. CASE d = c /\ ~over
    <3>1. pc'[c] = "chat" /\ answer = "again" /\ n + 1 < Retries
      BY <1>3, <1>4, <2>3, RetryAssumption DEF n
    <3>2. \A i \in 1..(n + 1) : log'[c][i] = "again"
      BY <1>4, <1>6, <3>1
    <3> QED  BY <1>6, <2>3, <3>1, <3>2 DEF Earned
  <2> QED  BY <2>1, <2>2, <2>3
<1>12. Apart'
  BY <1>1, <1>2, <1>3, ThreadAssumption DEF Inv, Apart, Threads
<1> QED  BY <1>7, <1>8, <1>9, <1>10, <1>11, <1>12 DEF Inv

LEMMA NextTagKeeps ==
  ASSUME Inv, NEW th \in Threads, NextTag(th)
  PROVE  Inv'
<1>1. /\ pc[th] = "tags" /\ th \notin Calls /\ th \in {Pinner, Unpinner}
      /\ phase' = phase /\ log' = log /\ tried' = tried /\ pulled' = pulled
  BY DEF NextTag, Threads
<1>2. lock = th
  BY <1>1 DEF Inv, OneAtATime, Inside
<1>3. \A c \in Calls : pc[c] # "chat"
  BY <1>1, <1>2 DEF Inv, OneAtATime, Inside, Threads
<1>4. CASE pos[th] <= Len(TagsOf(th))
  <2>1. /\ PinTag(TagsOf(th)[pos[th]], th = Pinner) /\ pos' = [pos EXCEPT ![th] = @ + 1]
        /\ lock' = lock /\ pc' = pc
    BY <1>4 DEF NextTag
  <2>2. TagsOf(th)[pos[th]] \in Models /\ (th = Pinner) \in BOOLEAN
    BY <1>1, <1>4, TagAssumption DEF TagsOf, Inv, TypeOK
  <2>3. /\ pinned' \subseteq Models /\ warm' \subseteq pulled' /\ cooled' \subseteq Models
        /\ PinsExplained'
    BY <1>1, <2>1, <2>2, PinTagKeeps
  <2>4. pos' \in [{Pinner, Unpinner} -> Nat \ {0}]
    BY <1>1, <2>1 DEF Inv, TypeOK
  <2>5. TypeOK' /\ OneAtATime'
    BY <1>1, <2>1, <2>3, <2>4 DEF Inv, TypeOK, OneAtATime
  <2>6. ChatsWarmed'
    BY <1>3, <2>1 DEF ChatsWarmed
  <2>7. /\ \A c \in Calls : Earned(c)'
        /\ Apart'
    BY <1>1, <2>1 DEF Inv, Earned, Apart
  <2> QED  BY <2>3, <2>5, <2>6, <2>7 DEF Inv
<1>5. CASE ~(pos[th] <= Len(TagsOf(th)))
  <2>1. lock' = NoThread /\ Goto(th, "done") /\ pos' = pos /\ ollama' = ollama
    BY <1>5 DEF NextTag
  <2>2. pc'[th] = "done" /\ \A x \in Threads \ {th} : pc'[x] = pc[x]
    BY <2>1, GoesAlone
  <2>3. TypeOK'
    BY <1>1, <2>1, ModelsKept DEF Inv, TypeOK, Goto
  <2>4. OneAtATime'
    BY <1>2, <2>1, <2>2, ThreadAssumption DEF Inv, OneAtATime, Inside, Threads
  <2>5. ChatsWarmed'
    BY <1>1, <1>3, <2>2 DEF ChatsWarmed, Threads
  <2>6. \A c \in Calls : Earned(c)'
    BY <1>1, <2>2 DEF Inv, Earned, Threads
  <2>7. Apart'
    BY <1>1, <2>2 DEF Inv, Apart, Threads
  <2> QED  BY <1>1, <2>1, <2>3, <2>4, <2>5, <2>6, <2>7, ModelsKept DEF Inv
<1> QED  BY <1>4, <1>5

(* The process ends, and what Ollama does on its own.                      *)
LEMMA OutsideKeeps ==
  ASSUME Inv, Shutdown \/ Exit \/ UNCHANGED vars \/ \E t \in Models : Cool(t) \/ Delete(t)
  PROVE  Inv'
<1>1. CASE Shutdown
  <2>1. /\ phase' = "closing" /\ Goto(Unpinner, "wait") /\ lock' = lock /\ pos' = pos /\ log' = log
        /\ tried' = tried /\ pulled' = pulled /\ ollama' = ollama
    BY <1>1 DEF Shutdown
  <2>2. Unpinner \in Threads /\ Unpinner \notin Calls
    BY ThreadAssumption DEF Threads
  <2>3. pc'[Unpinner] = "wait" /\ \A x \in Threads \ {Unpinner} : pc'[x] = pc[x]
    BY <2>1, <2>2, GoesAlone
  <2>4. TypeOK'
    BY <2>1, ModelsKept DEF Inv, TypeOK, Goto
  <2>5. OneAtATime'
    BY <1>1, <2>1, <2>2, <2>3 DEF Shutdown, Inv, OneAtATime, Inside, Apart
  <2>6. ChatsWarmed'
    BY <2>1, <2>2, <2>3 DEF Inv, ChatsWarmed, ollama, Threads
  <2>7. \A c \in Calls : Earned(c)'
    BY <2>1, <2>2, <2>3 DEF Inv, Earned, Threads
  <2>8. Apart'
    BY <2>1, <2>3 DEF Inv, Apart, Threads
  <2> QED  BY <2>1, <2>4, <2>5, <2>6, <2>7, <2>8, ModelsKept DEF Inv
<1>2. CASE Exit
  BY <1>2, ModelsKept DEF Exit, Inv, TypeOK, OneAtATime, ChatsWarmed, Earned, Apart, ollama
<1>3. CASE UNCHANGED vars
  BY <1>3, ModelsKept DEF vars, Inv, TypeOK, OneAtATime, ChatsWarmed, Earned, Apart, ollama
<1>4. CASE \E t \in Models : Cool(t) \/ Delete(t)
  <2>1. PICK t \in Models : Cool(t) \/ Delete(t)
    BY <1>4
  <2>2. /\ phase' = phase /\ lock' = lock /\ pc' = pc /\ pos' = pos /\ log' = log /\ tried' = tried
        /\ pinned' = pinned /\ warm' = warm \ {t} /\ cooled' = cooled \union {t}
        /\ (pulled' = pulled /\ t \in warm) \/ pulled' = pulled \ {t}
    BY <2>1 DEF Cool, Delete
  <2>3. TypeOK' /\ PinsExplained'
    BY <2>2 DEF Inv, TypeOK, PinsExplained
  <2> QED  BY <2>2, <2>3 DEF Inv, OneAtATime, ChatsWarmed, Earned, Apart
<1> QED  BY <1>1, <1>2, <1>3, <1>4

-----------------------------------------------------------------------------
(* Theorems *)

LEMMA Inductive == Inv /\ [Next]_vars => Inv'
<1> SUFFICES ASSUME Inv, [Next]_vars  PROVE Inv'
  OBVIOUS
<1>1. ASSUME NEW th \in Threads, Run(th)
      PROVE  Inv'
  <2>1. CASE Acquire(th) \/ NextTag(th)
    BY <2>1, AcquireKeeps, NextTagKeeps
  <2>2. CASE th \in Calls /\ LazyPin(th)
    BY <2>2, LazyPinKeeps
  <2>3. CASE th \in Calls /\ \E answer \in Answers : Chat(th, answer)
    BY <2>3, ChatKeeps
  <2> QED  BY <1>1, <2>1, <2>2, <2>3 DEF Run, Answers
<1> QED  BY <1>1, BeginKeeps, OutsideKeeps DEF Next

THEOREM Invariance == Spec => []Inv
BY Initially, Inductive, PTL DEF Spec

(* Types.                                                                  *)
THEOREM TypeCorrect == Spec => []TypeOK
<1>1. Inv => TypeOK
  BY DEF Inv
<1> QED  BY <1>1, Invariance, PTL

(* Only the holder of the lock talks to the engine.                        *)
THEOREM OneRequestAtATime == Spec => []OneAtATime
<1>1. Inv => OneAtATime
  BY DEF Inv
<1> QED  BY <1>1, Invariance, PTL

(* The client does not forget by itself what it has unloaded.              *)
THEOREM PinsAreExplained == Spec => []PinsExplained
<1>1. Inv => PinsExplained
  BY DEF Inv
<1> QED  BY <1>1, Invariance, PTL

(* A chat goes out only after its model was pinned, or that was tried.     *)
THEOREM ChatsAreWarmed == Spec => []ChatsWarmed
<1>1. Inv => ChatsWarmed
  BY DEF Inv
<1> QED  BY <1>1, Invariance, PTL

(* A call that fails has used up its attempts or had a final answer.       *)
THEOREM ErrorsAreEarned == Spec => []ErrorsEarned
<1>1. Inv => ErrorsEarned
  <2> SUFFICES ASSUME Inv, NEW c \in Calls
               PROVE  /\ \A i \in 1..(Len(log[c]) - 1) : log[c][i] = "again"
                      /\ pc[c] = "done" => /\ log[c] # <<>>
                                           /\ log[c][Len(log[c])] = "again" => Len(log[c]) = Retries
    BY DEF ErrorsEarned
  <2>1. Earned(c) /\ log[c] \in Seq(Answers) /\ c \in Threads
    BY DEF Inv, TypeOK, Answers, Threads
  <2>2. pc[c] \in {"idle", "wait", "skipped", "pin", "chat", "done", "tags"}
    BY <2>1 DEF Inv, TypeOK, Inside
  <2> QED  BY <2>1, <2>2 DEF Earned
<1> QED  BY <1>1, Invariance, PTL

-----------------------------------------------------------------------------
(* How far each thread is from its end.                                    *)

(* The most that a thread has still to do: attempts of a call, tags of a   *)
(* thread that pins or unpins, and the few steps before them.              *)
LeftOf(th) ==
  IF th \in Calls
  THEN CASE pc[th] = "idle" -> Retries + 3
         [] pc[th] = "wait" -> Retries + 2
         [] pc[th] = "pin"  -> Retries + 1
         [] pc[th] = "chat" -> Retries - Len(log[th])
         [] OTHER -> 0
  ELSE CASE pc[th] = "idle" -> Len(TagsOf(th)) + 4
         [] pc[th] = "wait" -> Len(TagsOf(th)) + 3
         [] pc[th] = "tags" -> Len(TagsOf(th)) + 2 - pos[th]
         [] OTHER -> 0

(* A thread that pins or unpins stops after the last of its tags.          *)
WithinTags == \A th \in {Pinner, Unpinner} : pos[th] <= Len(TagsOf(th)) + 1

LInv == Inv /\ WithinTags

Counted == \A th \in Threads : LeftOf(th) \in Nat

(* No step sets a thread back, and its own steps take it further.          *)
Forward(th) ==
  /\ LeftOf(th)' <= LeftOf(th)
  /\ Run(th) => LeftOf(th)' < LeftOf(th)

LEMMA TagLists ==
  ASSUME NEW th  PROVE Len(TagsOf(th)) \in Nat
BY TagAssumption DEF TagsOf

LEMMA LeftType ==
  ASSUME LInv, NEW th \in Threads
  PROVE  LeftOf(th) \in Nat
<1>1. TypeOK /\ WithinTags /\ Retries \in Nat /\ Len(TagsOf(th)) \in Nat
  BY RetryAssumption, TagLists DEF LInv, Inv
<1>2. CASE th \in Calls
  <2>1. Len(log[th]) \in Nat /\ (pc[th] = "chat" => Len(log[th]) < Retries)
    BY <1>1, <1>2 DEF LInv, Inv, TypeOK, Earned
  <2>2. CASE pc[th] = "chat"
    BY <1>1, <1>2, <2>1, <2>2 DEF LeftOf
  <2>3. CASE pc[th] # "chat"
    BY <1>1, <1>2, <2>3 DEF LeftOf
  <2> QED  BY <2>2, <2>3
<1>3. CASE th \notin Calls
  <2>1. pos[th] \in Nat /\ pos[th] <= Len(TagsOf(th)) + 1
    BY <1>1, <1>3 DEF TypeOK, WithinTags, Threads
  <2> QED  BY <1>1, <1>3, <2>1 DEF LeftOf
<1> QED  BY <1>2, <1>3

(* What is left depends on the thread's own state only.                    *)
LEMMA LeftKept ==
  ASSUME NEW th \in Threads, pc'[th] = pc[th],
         th \in Calls => log'[th] = log[th], th \notin Calls => pos'[th] = pos[th]
  PROVE  LeftOf(th)' = LeftOf(th)
BY DEF LeftOf, TagsOf

(* A step of a thread is one of these, and touches no other thread.        *)
LEMMA RunMoves ==
  ASSUME LInv, NEW th \in Threads, Run(th)
  PROVE  /\ LeftOf(th)' < LeftOf(th)
         /\ \A x \in Threads \ {th} : LeftOf(x)' = LeftOf(x)
         /\ WithinTags'
<1>1. /\ TypeOK /\ WithinTags /\ Retries \in Nat /\ Retries > 0 /\ Len(TagsOf(th)) \in Nat
      /\ th \in Calls => Earned(th) /\ Len(log[th]) \in Nat /\ th \notin {Pinner, Unpinner}
      /\ th \notin Calls => pos[th] \in Nat \ {0} /\ th \in {Pinner, Unpinner}
  BY RetryAssumption, ThreadAssumption, TagLists DEF LInv, Inv, TypeOK, Threads
<1> DEFINE Alone == \A x \in Threads \ {th} : pc'[x] = pc[x]
<1>2. CASE Acquire(th)
  <2> DEFINE to == IF th \notin Calls THEN "tags" ELSE IF TagOf[th] \in pinned THEN "chat" ELSE "pin"
  <2>1. pc[th] = "wait" /\ Goto(th, to) /\ log' = log /\ pos' = pos
    BY <1>2 DEF Acquire
  <2>2. pc'[th] = to /\ Alone
    BY <2>1, GoesAlone DEF LInv
  <2>3. LeftOf(th)' < LeftOf(th)
    <3>1. CASE th \in Calls
      <4>1. pc'[th] \in {"chat", "pin"} /\ log'[th] = <<>>
        BY <1>1, <2>1, <2>2, <3>1 DEF Earned
      <4>2. Len(log'[th]) = 0
        BY <4>1
      <4> QED  BY <1>1, <2>1, <3>1, <4>1, <4>2 DEF LeftOf
    <3>2. CASE th \notin Calls
      BY <1>1, <2>1, <2>2, <3>2 DEF LeftOf, TagsOf
    <3> QED  BY <3>1, <3>2
  <2>4. WithinTags'
    BY <1>1, <2>1 DEF WithinTags, TagsOf
  <2> QED  BY <2>1, <2>2, <2>3, <2>4, LeftKept
<1>3. CASE NextTag(th)
  <2>1. pc[th] = "tags" /\ th \notin Calls /\ log' = log
    BY <1>3 DEF NextTag
  <2>2. CASE pos[th] <= Len(TagsOf(th))
    <3>1. pc' = pc /\ pos' = [pos EXCEPT ![th] = @ + 1]
      BY <1>3, <2>2 DEF NextTag
    <3>2. pos'[th] = pos[th] + 1 /\ \A x \in {Pinner, Unpinner} \ {th} : pos'[x] = pos[x]
      BY <1>1, <2>1, <3>1 DEF TypeOK
    <3>3. LeftOf(th)' < LeftOf(th)
      BY <1>1, <2>1, <2>2, <3>1, <3>2 DEF LeftOf, TagsOf
    <3>4. WithinTags'
      BY <1>1, <2>1, <2>2, <3>2 DEF WithinTags, TagsOf
    <3>5. \A x \in Threads \ {th} : LeftOf(x)' = LeftOf(x)
      BY <2>1, <3>1, <3>2, LeftKept DEF Threads
    <3> QED  BY <3>3, <3>4, <3>5
  <2>3. CASE ~(pos[th] <= Len(TagsOf(th)))
    <3>1. Goto(th, "done") /\ pos' = pos
      BY <1>3, <2>3 DEF NextTag
    <3>2. pc'[th] = "done" /\ Alone
      BY <3>1, GoesAlone DEF LInv
    <3>3. pos[th] = Len(TagsOf(th)) + 1
      BY <1>1, <2>1, <2>3 DEF WithinTags
    <3>4. LeftOf(th)' < LeftOf(th)
      BY <1>1, <2>1, <3>2, <3>3 DEF LeftOf
    <3>5. WithinTags'
      BY <1>1, <3>1 DEF WithinTags, TagsOf
    <3> QED  BY <2>1, <3>1, <3>2, <3>4, <3>5, LeftKept
  <2> QED  BY <2>2, <2>3
<1>4. CASE th \in Calls /\ LazyPin(th)
  <2>1. pc[th] = "pin" /\ Goto(th, "chat") /\ log' = log /\ pos' = pos
    BY <1>4 DEF LazyPin
  <2>2. pc'[th] = "chat" /\ Alone
    BY <2>1, GoesAlone DEF LInv
  <2>3. LeftOf(th)' < LeftOf(th)
    BY <1>1, <1>4, <2>1, <2>2 DEF LeftOf
  <2>4. WithinTags'
    BY <1>1, <2>1 DEF WithinTags, TagsOf
  <2> QED  BY <2>1, <2>2, <2>3, <2>4, LeftKept
<1>5. CASE th \in Calls /\ \E answer \in Answers : Chat(th, answer)
  <2>1. PICK answer \in Answers : Chat(th, answer)
    BY <1>5
  <2> DEFINE over == answer # "again" \/ Len(log[th]) + 1 = Retries
  <2>2. /\ pc[th] = "chat" /\ log' = [log EXCEPT ![th] = Append(@, answer)] /\ pos' = pos
        /\ Goto(th, IF over THEN "done" ELSE "chat")
    BY <2>1 DEF Chat
  <2>3. pc'[th] = (IF over THEN "done" ELSE "chat") /\ Alone
    BY <2>2, GoesAlone DEF LInv
  <2>4. log[th] \in Seq(Answers) /\ log'[th] = Append(log[th], answer)
    BY <1>5, <2>2, <1>1 DEF TypeOK, Answers
  <2>5. Len(log'[th]) = Len(log[th]) + 1 /\ Len(log[th]) < Retries
    BY <1>1, <1>5, <2>2, <2>4 DEF Earned
  <2>6. LeftOf(th)' < LeftOf(th)
    BY <1>1, <1>5, <2>2, <2>3, <2>5 DEF LeftOf
  <2>7. \A x \in Calls \ {th} : log'[x] = log[x]
    BY <2>2, <1>1 DEF TypeOK
  <2>8. WithinTags'
    BY <1>1, <2>2 DEF WithinTags, TagsOf
  <2> QED  BY <2>2, <2>3, <2>6, <2>7, <2>8, LeftKept
<1> QED  BY <1>2, <1>3, <1>4, <1>5 DEF Run, Answers

(* A request that begins, the lifespan that ends, the exit, and Ollama.    *)
LEMMA OthersKeep ==
  ASSUME LInv, [Next]_vars, \A th \in Threads : ~Run(th)
  PROVE  WithinTags' /\ \A th \in Threads : LeftOf(th)' <= LeftOf(th)
<1>1. /\ TypeOK /\ WithinTags /\ Retries \in Nat
      /\ \A th \in Threads : LeftOf(th) \in Nat /\ Len(TagsOf(th)) \in Nat
  BY RetryAssumption, LeftType, TagLists DEF LInv, Inv
<1>2. log' = log /\ pos' = pos
  BY DEF Next, Begin, Shutdown, Exit, Cool, Delete, vars
<1>3. WithinTags'
  BY <1>1, <1>2 DEF WithinTags, TagsOf
<1>4. ASSUME NEW th \in Threads, NEW to, Goto(th, to), pc[th] = "idle",
             to \in {"wait", "skipped"}
      PROVE  \A x \in Threads : LeftOf(x)' <= LeftOf(x)
  <2>1. pc'[th] = to /\ \A x \in Threads \ {th} : pc'[x] = pc[x]
    BY <1>4, GoesAlone DEF LInv
  <2>2. LeftOf(th)' <= LeftOf(th)
    BY <1>1, <1>4, <2>1 DEF LeftOf, TagsOf
  <2>3. ASSUME NEW x \in Threads \ {th}  PROVE LeftOf(x)' <= LeftOf(x)
    <3>1. LeftOf(x)' = LeftOf(x)
      BY <1>2, <2>1, LeftKept
    <3> QED  BY <1>1, <3>1
  <2> QED  BY <2>2, <2>3
<1>5. ASSUME NEW c \in Calls, Begin(c)
      PROVE  \A x \in Threads : LeftOf(x)' <= LeftOf(x)
  <2>1. PICK to \in {"wait", "skipped"} : Goto(c, to)
    BY <1>5 DEF Begin
  <2> QED  BY <1>4, <1>5, <2>1 DEF Begin, Threads
<1>6. CASE Shutdown
  <2>1. Goto(Unpinner, "wait") /\ pc[Unpinner] = "idle" /\ Unpinner \in Threads
    BY <1>6 DEF Shutdown, LInv, Inv, Apart, Threads
  <2> QED  BY <1>3, <1>4, <2>1
<1>7. CASE Exit \/ UNCHANGED vars \/ \E t \in Models : Cool(t) \/ Delete(t)
  <2>1. pc' = pc
    BY <1>7 DEF Exit, Cool, Delete, vars
  <2>2. \A x \in Threads : LeftOf(x)' = LeftOf(x)
    BY <1>2, <2>1, LeftKept
  <2>3. ASSUME NEW x \in Threads  PROVE LeftOf(x)' <= LeftOf(x)
    <3>1. LeftOf(x) \in Nat /\ LeftOf(x)' = LeftOf(x)
      BY <1>1, <2>2
    <3> QED  BY <3>1
  <2> QED  BY <1>3, <2>3
<1> QED  BY <1>3, <1>5, <1>6, <1>7 DEF Next

(* Every thread that uses the engine only goes forward: whatever the other *)
(* threads and Ollama do, nothing sends it back to wait again, and each of *)
(* its own steps uses up one of finitely many (the loops over attempts in  *)
(* _call_engine_model_http, over tags in pin_engine_models).               *)
THEOREM EveryCallCounts ==
  Spec => /\ []Counted
          /\ [][\A th \in Threads : Forward(th)]_vars
<1>1. Inv /\ WithinTags => Counted
  BY LeftType DEF LInv, Counted
<1>2. Init => WithinTags
  BY TagLists DEF Init, WithinTags
<1>3. Inv /\ WithinTags /\ [Next]_vars => WithinTags'
  BY RunMoves, OthersKeep DEF LInv
<1>4. ASSUME Inv, WithinTags, Counted', [Next]_vars
      PROVE  \A th \in Threads : Forward(th)
  <2>1. LInv /\ Counted
    BY <1>1, <1>4 DEF LInv
  <2>2. CASE \E th \in Threads : Run(th)
    <3>1. PICK th \in Threads : Run(th)
      BY <2>2
    <3>2. LeftOf(th)' < LeftOf(th) /\ \A x \in Threads \ {th} : LeftOf(x)' = LeftOf(x)
      BY <2>1, <3>1, RunMoves
    <3>3. ASSUME NEW x \in Threads  PROVE LeftOf(x)' <= LeftOf(x)
      <4>1. LeftOf(x) \in Nat /\ LeftOf(x)' \in Nat
        BY <1>4, <2>1 DEF Counted
      <4> QED  BY <3>2, <4>1
    <3> QED  BY <2>1, <3>3, RunMoves DEF Forward
  <2>3. CASE \A th \in Threads : ~Run(th)
    BY <1>4, <2>1, <2>3, OthersKeep DEF Forward
  <2> QED  BY <2>2, <2>3
<1>5. Inv /\ WithinTags /\ Counted' /\ [Next]_vars => [\A th \in Threads : Forward(th)]_vars
  BY <1>4
<1> QED  BY <1>1, <1>2, <1>3, <1>5, Invariance, PTL DEF Spec
===============================================================================

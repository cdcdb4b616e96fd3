----------------------------- MODULE PoolConfig -----------------------------
(***************************************************************************)
(* routism.yaml under concurrent requests.  Every handler runs on its own  *)
(* thread.  The pool handlers (management.py) hold one lock, put_settings  *)
(* (server.py) another; every other reader (get_settings, _load_settings)  *)
(* holds none.  Saving opens the file, which empties it, and then writes   *)
(* it; an empty file loads as the default settings, with no workers.       *)
(***************************************************************************)
EXTENDS Naturals, FiniteSets

CONSTANTS
  Ids, NoId, Keep, Reserved, Capacity, Knobs,  \* as in PoolStore
  DefaultKnob,  \* the knobs of Settings()
  Threads,      \* request threads
  NoThread,     \* None
  Kinds,        \* the requests that come: "post", "delete", "pool" (get_pool),
                \*   "put", "read" (the readers without a lock)
  MayCrash      \* whether the process may be killed and started again

ASSUME ConfigAssumption ==
  /\ NoId \notin Ids /\ Keep \notin Ids \union {NoId} \union Knobs
  /\ DefaultKnob \in Knobs
  /\ IsFiniteSet(Ids)
  /\ Capacity \in Nat
  /\ NoThread \notin Threads
  /\ Kinds \subseteq {"post", "delete", "pool", "put", "read"}
  /\ MayCrash \in BOOLEAN

VARIABLES
  disk,   \* what the last completed save left, read as settings
  state,  \* the file: "whole", "empty" (opened, not written), "broken" (does
          \*   not parse)
  blended,  \* whether the file ever mixed the texts of two saves and parsed
  pc,     \* where each thread stands
  kind,   \* the request it serves
  next,   \* the settings it is going to save
  late,   \* threads that are going to write over what another one wrote
  owner   \* the holder of each lock

vars == <<disk, state, blended, pc, kind, next, late, owner>>

(* What a completed save of the thread that is writing makes of the file.  *)
Writing == {t \in Threads : pc[t] = "write"}
Committed == IF Writing = {} THEN disk ELSE next[CHOOSE t \in Writing : TRUE]

Store == INSTANCE PoolStore WITH settings <- Committed

(* Settings(), what an empty file loads as.                                *)
Default == [pool |-> [i \in Ids |-> "absent"], orch |-> NoId, ver |-> NoId,
            knob |-> DefaultKnob]

(* The lock a request holds from before it loads until it has saved.       *)
LockOf(k) == IF k \in {"post", "delete", "pool"} THEN "management"
             ELSE IF k = "put" THEN "server" ELSE "none"

Goto(t, to) == pc' = [pc EXCEPT ![t] = to]

Release(t) ==
  /\ Goto(t, "idle")
  /\ owner' = [l \in DOMAIN owner |-> IF owner[l] = t THEN NoThread ELSE owner[l]]

-----------------------------------------------------------------------------
Init ==
  /\ disk \in {s \in Store!Settings : Store!Wellformed(s)}
  /\ state = "whole"
  /\ blended = FALSE
  /\ pc = [t \in Threads |-> "idle"]
  /\ kind = [t \in Threads |-> "read"]
  /\ next = [t \in Threads |-> Default]
  /\ late = {}
  /\ owner = [l \in {"management", "server"} |-> NoThread]

Arrive(t, k) ==
  /\ pc[t] = "idle"
  /\ kind' = [kind EXCEPT ![t] = k]
  /\ Goto(t, IF LockOf(k) = "none" THEN "load" ELSE "lock")
  /\ UNCHANGED <<disk, state, blended, next, late, owner>>

Lock(t) ==
  /\ pc[t] = "lock"
  /\ owner[LockOf(kind[t])] = NoThread
  /\ owner' = [owner EXCEPT ![LockOf(kind[t])] = t]
  /\ Goto(t, "load")
  /\ UNCHANGED <<disk, state, blended, kind, next, late>>

(* cfg.load: an empty file is no error.                                    *)
Loaded == IF state = "empty" THEN Default ELSE disk

(* The handler loads the file and works out what to save.                  *)
LoadToSave(t) ==
  /\ pc[t] = "load"
  /\ state # "broken"
  /\ next' \in {[next EXCEPT ![t] = s] : s \in Store!Updates(kind[t], Loaded)}
  /\ Goto(t, "open")
  /\ UNCHANGED <<disk, state, blended, kind, late, owner>>

(* A reader answers; a bad request, or a file that does not parse, ends    *)
(* with an error.  The lock is released in either case.                    *)
LoadOnly(t) ==
  /\ pc[t] = "load"
  /\ Release(t)
  /\ UNCHANGED <<disk, state, blended, kind, next, late>>

(* Mutant: the lock is given back before the file is saved.                *)
OpenUnlocked(t) ==
  /\ pc[t] = "open"
  /\ state' = "empty"
  /\ late' = {}
  /\ Goto(t, "write")
  /\ owner' = [l \in DOMAIN owner |-> IF owner[l] = t THEN NoThread ELSE owner[l]]
  /\ UNCHANGED <<disk, blended, kind, next>>

(* cfg.save, first half: open(..., "w") empties the file.                  *)
Open(t) ==
  /\ pc[t] = "open"
  /\ state' = "empty"
  /\ late' = {}
  /\ Goto(t, "write")
  /\ UNCHANGED <<disk, blended, kind, next, owner>>

(* What the file may say when the text of s is written over that of o and  *)
(* the end of o's stays behind: the settings of s, with workers of o among *)
(* its own or for its own, or with a key of theirs; a pool that has become *)
(* too big is an error.                                                    *)
Blends(s, o) ==
  {m \in Store!Settings :
     /\ m.orch = s.orch /\ m.ver = s.ver /\ m.knob = s.knob
     /\ \A i \in Ids : \/ m.pool[i] \in {s.pool[i], o.pool[i]}
                       \/ s.pool[i] = "keyless" /\ m.pool[i] = "keyed"
     /\ Cardinality(Store!Connected(m)) <= Capacity}

(* cfg.save, second half: the text is written from the start of the file.  *)
(* If another thread has written since we opened it, the end of its text   *)
(* may stay behind ours: the file does not parse then, or it does.         *)
Write(t) ==
  /\ pc[t] = "write"
  /\ \/ disk' = next[t] /\ state' = "whole"
     \/ /\ t \in late /\ disk # next[t]
        /\ \/ disk' = next[t] /\ state' = "broken"
           \/ disk' \in Blends(next[t], disk) /\ state' = "whole"
  /\ blended' = (blended \/ (state' = "whole" /\ disk' # next[t]))
  /\ late' = Writing \ {t}
  /\ next' = [next EXCEPT ![t] = Default]
  /\ Release(t)
  /\ UNCHANGED kind

(* The process is killed and started again; the file stays as it is.       *)
Crash ==
  /\ MayCrash
  /\ pc' = [t \in Threads |-> "idle"]
  /\ next' = [t \in Threads |-> Default]
  /\ late' = {}
  /\ owner' = [l \in DOMAIN owner |-> NoThread]
  /\ UNCHANGED <<disk, state, blended, kind>>

Next ==
  \/ \E t \in Threads :
       \/ \E k \in Kinds : Arrive(t, k)
       \/ Lock(t) \/ LoadToSave(t) \/ LoadOnly(t) \/ Open(t) \/ Write(t)
  \/ Crash

Spec == Init /\ [][Next]_vars

-----------------------------------------------------------------------------
(***************************************************************************)
(* Properties                                                              *)
(***************************************************************************)

(* Every variable has its type.                                            *)
TypeOK ==
  /\ disk \in Store!Settings
  /\ state \in {"whole", "empty", "broken"}
  /\ blended \in BOOLEAN
  /\ pc \in [Threads -> {"idle", "lock", "load", "open", "write"}]
  /\ kind \in [Threads -> {"post", "delete", "pool", "put", "read"}]
  /\ next \in [Threads -> Store!Settings]
  /\ late \subseteq Threads
  /\ owner \in [{"management", "server"} -> Threads \union {NoThread}]

(* Whatever the threads do to each other, the settings on disk pin roles   *)
(* to connected workers only, and never connect an engine model or more    *)
(* than the capacity: "We round-trip through Settings(...) so all pydantic  *)
(* validators apply (size, unique ids, role refs)".  Only where the file   *)
(* itself mixed the texts of two saves may it be otherwise.                *)
PinsInPool == blended \/ Store!Wellformed(disk)

(* The handlers together behave as if each acted at once: no update is     *)
(* computed from settings that another update has replaced since.          *)
UpdatesAtomic == Store!Spec

(* "Preserve existing key when the client omits/blank-sends api_key": a    *)
(* key is only lost together with its worker.                              *)
KeysSurvive ==
  [][\A i \in Ids : disk.pool[i] = "keyed" => disk'.pool[i] # "keyless"]_vars
=============================================================================

-------------------------- MODULE PoolConfigProofs --------------------------
(***************************************************************************)
(* Theorems about PoolConfig.  For any threads and any mixture of the      *)
(* requests, on either lock and through restarts, a save puts well-formed  *)
(* settings on disk, unless the file itself mixed two of them.  When only  *)
(* the pool handlers save, their one lock makes the file a sequence of     *)
(* whole updates: PoolStore.                                               *)
(***************************************************************************)
EXTENDS PoolConfig, FiniteSetTheorems, TLAPS

USE DEF Store!Settings, Store!Pin

(* PoolStore counts with the same operator.                                *)
LEMMA SameCount == \A S : Store!Cardinality(S) = Cardinality(S)
BY DEF Store!Cardinality, Cardinality

(* Settings() is well-formed: it connects nobody and pins nobody.          *)
LEMMA DefaultFits == Default \in Store!Settings /\ Store!Wellformed(Default)
<1>1. Default \in Store!Settings
  BY ConfigAssumption DEF Default
<1>2. Store!Connected(Default) = {}
  BY DEF Default, Store!Connected
<1>3. {Default.orch, Default.ver} \ {NoId} = {}
  BY DEF Default
<1>. QED BY <1>1, <1>2, <1>3, FS_EmptySet, SameCount, ConfigAssumption DEF Store!Wellformed

(* What post_pool makes of well-formed settings is well-formed: at most    *)
(* one worker is new, and only if there is room for it.                    *)
LEMMA PostedFits ==
  ASSUME NEW s \in Store!Settings, Store!Wellformed(s), NEW i \in Ids, Store!PostAccepted(s, i),
         NEW key \in BOOLEAN, NEW o \in BOOLEAN, NEW v \in BOOLEAN
  PROVE  Store!Posted(s, i, key, o, v) \in Store!Settings
         /\ Store!Wellformed(Store!Posted(s, i, key, o, v))
<1>. DEFINE r == Store!Posted(s, i, key, o, v)
<1>1. r \in Store!Settings
  BY DEF Store!Posted
<1>2. Store!Connected(r) = Store!Connected(s) \union {i}
  BY DEF Store!Posted, Store!Connected
<1>3. {r.orch, r.ver} \ {NoId} \subseteq Store!Connected(r)
  BY <1>2 DEF Store!Posted, Store!Wellformed
<1>4. Store!Connected(r) \intersect Reserved = {}
  BY <1>2 DEF Store!PostAccepted, Store!Wellformed
<1>5. Cardinality(Store!Connected(r)) <= Capacity
  <2>1. IsFiniteSet(Store!Connected(s))
    BY FS_Subset, ConfigAssumption DEF Store!Connected
  <2>2. Cardinality(Store!Connected(s)) \in Nat
    BY <2>1, FS_CardinalityType
  <2>3. CASE i \in Store!Connected(s)
    BY <2>3, <1>2, SameCount DEF Store!Wellformed
  <2>4. CASE i \notin Store!Connected(s)
    <3>1. Cardinality(Store!Connected(s)) < Capacity
      BY <2>4, SameCount DEF Store!PostAccepted
    <3>2. Cardinality(Store!Connected(s) \union {i}) = Cardinality(Store!Connected(s)) + 1
      BY <2>1, <2>4, FS_AddElement
    <3>. QED BY <3>1, <3>2, <2>2, <1>2, ConfigAssumption
  <2>. QED BY <2>3, <2>4
<1>. QED BY <1>1, <1>3, <1>4, <1>5, SameCount DEF Store!Wellformed

(* So is what delete_pool makes of them: it unpins the worker it removes.  *)
LEMMA DeletedFits ==
  ASSUME NEW s \in Store!Settings, Store!Wellformed(s), NEW i \in Ids
  PROVE  Store!Deleted(s, i) \in Store!Settings /\ Store!Wellformed(Store!Deleted(s, i))
<1>. DEFINE r == Store!Deleted(s, i)
<1>1. r \in Store!Settings
  BY DEF Store!Deleted
<1>2. Store!Connected(r) = Store!Connected(s) \ {i}
  BY DEF Store!Deleted, Store!Connected
<1>3. {r.orch, r.ver} \ {NoId} \subseteq Store!Connected(r)
  BY <1>2 DEF Store!Deleted, Store!Wellformed
<1>4. Cardinality(Store!Connected(r)) <= Capacity
  <2>1. IsFiniteSet(Store!Connected(s))
    BY FS_Subset, ConfigAssumption DEF Store!Connected
  <2>2. IsFiniteSet(Store!Connected(r))
        /\ Cardinality(Store!Connected(r)) <= Cardinality(Store!Connected(s))
    BY <2>1, <1>2, FS_Subset
  <2>3. Cardinality(Store!Connected(r)) \in Nat /\ Cardinality(Store!Connected(s)) \in Nat
    BY <2>1, <2>2, FS_CardinalityType
  <2>4. Cardinality(Store!Connected(s)) <= Capacity
    BY SameCount DEF Store!Wellformed
  <2>. QED BY <2>2, <2>3, <2>4, ConfigAssumption
<1>. QED BY <1>1, <1>2, <1>3, <1>4, SameCount DEF Store!Wellformed

(* So is what put_settings makes of them: it checks the pins it sets.      *)
LEMMA PutFits ==
  ASSUME NEW s \in Store!Settings, Store!Wellformed(s),
         NEW o \in Store!Pin \union {Keep}, NEW v \in Store!Pin \union {Keep},
         NEW k \in Knobs \union {Keep}, Store!PutAccepted(s, o, v)
  PROVE  Store!Put(s, o, v, k) \in Store!Settings /\ Store!Wellformed(Store!Put(s, o, v, k))
<1>. DEFINE r == Store!Put(s, o, v, k)
<1>1. r \in Store!Settings
  BY DEF Store!Put
<1>2. Store!Connected(r) = Store!Connected(s)
  BY DEF Store!Put, Store!Connected
<1>3. {r.orch, r.ver} \ {NoId} \subseteq Store!Connected(r)
  BY <1>2 DEF Store!Put, Store!PutAccepted, Store!Wellformed
<1>. QED BY <1>1, <1>2, <1>3 DEF Store!Wellformed

(* Every accepted request makes settings of settings, well-formed or not.  *)
LEMMA UpdateTyped ==
  ASSUME NEW s \in Store!Settings, NEW k, NEW n \in Store!Updates(k, s)
  PROVE  n \in Store!Settings
<1>1. CASE k = "post"
  <2>1. PICK i \in Ids, key \in BOOLEAN, o \in BOOLEAN, v \in BOOLEAN :
          n = Store!Posted(s, i, key, o, v)
    BY <1>1 DEF Store!Updates
  <2>. QED BY <2>1 DEF Store!Posted
<1>2. CASE k = "delete"
  <2>1. PICK i \in Store!Connected(s) : n = Store!Deleted(s, i)
    BY <1>2 DEF Store!Updates
  <2>. QED BY <2>1 DEF Store!Deleted, Store!Connected
<1>3. CASE k = "put"
  <2>1. PICK p \in {q \in (Store!Pin \union {Keep}) \X (Store!Pin \union {Keep}) :
                      Store!PutAccepted(s, q[1], q[2])}, m \in Knobs \union {Keep} :
          n = Store!Put(s, p[1], p[2], m)
    BY <1>3 DEF Store!Updates
  <2>. QED BY <2>1 DEF Store!Put
<1>4. CASE k \notin {"post", "delete", "put"}
  BY <1>4 DEF Store!Updates
<1>. QED BY <1>1, <1>2, <1>3, <1>4

(* Every accepted request keeps the settings well-formed.                  *)
LEMMA UpdateFits ==
  ASSUME NEW s \in Store!Settings, Store!Wellformed(s), NEW k, NEW n \in Store!Updates(k, s)
  PROVE  n \in Store!Settings /\ Store!Wellformed(n)
<1>1. CASE k = "post"
  <2>1. n \in {Store!Posted(s, i, key, o, v) : i \in {j \in Ids : Store!PostAccepted(s, j)},
                 key \in BOOLEAN, o \in BOOLEAN, v \in BOOLEAN}
    BY <1>1 DEF Store!Updates
  <2>. QED BY <2>1, PostedFits
<1>2. CASE k = "delete"
  <2>1. n \in {Store!Deleted(s, i) : i \in Store!Connected(s)}
    BY <1>2 DEF Store!Updates
  <2>. QED BY <2>1, DeletedFits DEF Store!Connected
<1>3. CASE k = "put"
  <2>1. PICK p \in {q \in (Store!Pin \union {Keep}) \X (Store!Pin \union {Keep}) :
                      Store!PutAccepted(s, q[1], q[2])}, m \in Knobs \union {Keep} :
          n = Store!Put(s, p[1], p[2], m)
    BY <1>3 DEF Store!Updates
  <2>. QED BY <2>1, PutFits
<1>4. CASE k \notin {"post", "delete", "put"}
  BY <1>4 DEF Store!Updates
<1>. QED BY <1>1, <1>2, <1>3, <1>4

-----------------------------------------------------------------------------
(* Nothing but well-formed settings is ever on disk or about to be, as     *)
(* long as the file mixes no two texts.                                    *)
Sound ==
  /\ TypeOK
  /\ PinsInPool
  /\ blended \/ \A t \in Threads : Store!Wellformed(next[t])

LEMMA SoundInit == Init => Sound
<1>. SUFFICES ASSUME Init PROVE Sound
  OBVIOUS
<1>. USE DEF Init
<1>1. TypeOK
  BY DefaultFits DEF TypeOK
<1>2. PinsInPool
  BY DEF PinsInPool
<1>3. \A t \in Threads : Store!Wellformed(next[t])
  BY DefaultFits
<1>. QED BY <1>1, <1>2, <1>3 DEF Sound

LEMMA SoundNext == Sound /\ [Next]_vars => Sound'
<1>. SUFFICES ASSUME Sound, [Next]_vars PROVE Sound'
  OBVIOUS
<1>. USE DEF Sound, TypeOK
<1>1. ASSUME NEW t \in Threads, NEW k \in Kinds, Arrive(t, k) PROVE Sound'
  <2>1. TypeOK'
    BY <1>1, ConfigAssumption DEF Arrive, Goto
  <2>. QED BY <1>1, <2>1 DEF Arrive, PinsInPool
<1>2. ASSUME NEW t \in Threads, Lock(t) PROVE Sound'
  <2>1. TypeOK'
    BY <1>2 DEF Lock, Goto, LockOf
  <2>. QED BY <1>2, <2>1 DEF Lock, PinsInPool
<1>3. ASSUME NEW t \in Threads, LoadToSave(t) PROVE Sound'
  <2>1. Loaded \in Store!Settings /\ (blended \/ Store!Wellformed(Loaded))
    BY DefaultFits DEF Loaded, PinsInPool
  <2>2. PICK s \in Store!Updates(kind[t], Loaded) : next' = [next EXCEPT ![t] = s]
    BY <1>3 DEF LoadToSave
  <2>3. s \in Store!Settings /\ (blended \/ Store!Wellformed(s))
    BY <2>1, UpdateFits, UpdateTyped
  <2>4. UNCHANGED <<disk, state, blended, kind, late, owner>> /\ pc' = [pc EXCEPT ![t] = "open"]
    BY <1>3 DEF LoadToSave, Goto
  <2>5. TypeOK'
    BY <2>2, <2>3, <2>4
  <2>6. blended' \/ \A u \in Threads : Store!Wellformed(next'[u])
    BY <2>2, <2>3, <2>4
  <2>7. PinsInPool'
    BY <2>4 DEF PinsInPool
  <2>. QED BY <2>5, <2>6, <2>7
<1>4. ASSUME NEW t \in Threads, LoadOnly(t) PROVE Sound'
  <2>1. TypeOK'
    BY <1>4 DEF LoadOnly, Release, Goto
  <2>. QED BY <1>4, <2>1 DEF LoadOnly, PinsInPool
<1>5. ASSUME NEW t \in Threads, Open(t) PROVE Sound'
  <2>1. TypeOK'
    BY <1>5 DEF Open, Goto
  <2>. QED BY <1>5, <2>1 DEF Open, PinsInPool
<1>6. ASSUME NEW t \in Threads, Write(t) PROVE Sound'
  <2>1. /\ disk' \in Store!Settings /\ (~blended' => ~blended /\ disk' = next[t])
        /\ next' = [next EXCEPT ![t] = Default] /\ kind' = kind
        /\ pc' = [pc EXCEPT ![t] = "idle"] /\ state' \in {"whole", "broken"}
        /\ blended' \in BOOLEAN
        /\ late' = Writing \ {t}
        /\ owner' = [l \in DOMAIN owner |-> IF owner[l] = t THEN NoThread ELSE owner[l]]
    <3>1. Blends(next[t], disk) \subseteq Store!Settings
      BY DEF Blends
    <3>2. disk' \in Store!Settings /\ state' \in {"whole", "broken"} /\ (state' = "broken" => disk' = next[t])
      BY <1>6, <3>1 DEF Write
    <3>3. blended' = (blended \/ (state' = "whole" /\ disk' # next[t]))
      BY <1>6 DEF Write
    <3>4. blended' \in BOOLEAN /\ (~blended' => ~blended /\ disk' = next[t])
      BY <3>2, <3>3
    <3>. QED BY <1>6, <3>2, <3>4 DEF Write, Release, Goto
  <2>2. TypeOK'
    BY <2>1, DefaultFits DEF Writing
  <2>3. PinsInPool'
    BY <2>1 DEF PinsInPool
  <2>4. blended' \/ \A u \in Threads : Store!Wellformed(next'[u])
    BY <2>1, DefaultFits
  <2>. QED BY <2>2, <2>3, <2>4
<1>7. ASSUME Crash PROVE Sound'
  <2>1. TypeOK'
    BY <1>7, DefaultFits DEF Crash
  <2>2. \A u \in Threads : Store!Wellformed(next'[u])
    BY <1>7, DefaultFits DEF Crash
  <2>. QED BY <1>7, <2>1, <2>2 DEF Crash, PinsInPool
<1>8. ASSUME UNCHANGED vars PROVE Sound'
  BY <1>8 DEF vars, PinsInPool
<1>. QED BY <1>1, <1>2, <1>3, <1>4, <1>5, <1>6, <1>7, <1>8 DEF Next

LEMMA SoundHolds == Spec => []Sound
BY SoundInit, SoundNext, PTL DEF Spec

(* Whatever threads, locks, lost updates and restarts do, every variable   *)
(* of the model keeps its type.                                            *)
THEOREM TypesHold == Spec => []TypeOK
BY SoundHolds, PTL DEF Sound

(* No interleaving of the handlers of management.py and server.py, and no  *)
(* restart, makes the file pin a role to a worker that is not connected or *)
(* connect more workers than fit: updates may be lost, but only whole      *)
(* settings are saved.  The exception is a file that two saves wrote over  *)
(* each other, and what they left happened to parse.                       *)
THEOREM RolesStayConnected == Spec => []PinsInPool
BY SoundHolds, PTL DEF Sound

-----------------------------------------------------------------------------
(* With one lock: who has loaded the file for a change holds the lock, so  *)
(* its change is of the settings that are on disk, and the file is empty   *)
(* only while its one writer is at work.                                   *)
Holds == \A t \in Threads :
           pc[t] \in {"load", "open", "write"} /\ kind[t] # "read" => owner["management"] = t
Served == \A t \in Threads : kind[t] # "put"
Fresh == \A t \in Threads :
           pc[t] \in {"open", "write"} =>
             kind[t] \in {"post", "delete"} /\ next[t] \in Store!Updates(kind[t], disk)
OneWriter == late = {} /\ blended = FALSE /\ state = (IF Writing = {} THEN "whole" ELSE "empty")

OneLock == Sound /\ Holds /\ Served /\ Fresh /\ OneWriter

(* Only post, delete and put change settings.                              *)
LEMMA OnlyUpdates ==
  ASSUME NEW s, NEW k, k # "put", Store!Updates(k, s) # {}
  PROVE  k \in {"post", "delete"}
BY DEF Store!Updates

(* A thread that saves is alone with the file.                             *)
LEMMA Alone ==
  ASSUME Holds, Fresh, NEW t \in Threads, pc[t] \in {"open", "write"}
  PROVE  /\ \A u \in Threads : pc[u] \in {"open", "write"} => u = t
         /\ \A u \in Threads \ {t} : pc[u] = "load" => kind[u] = "read"
         /\ owner["management"] = t
<1>1. owner["management"] = t /\ kind[t] # "read"
  BY DEF Holds, Fresh
<1>2. \A u \in Threads : pc[u] \in {"open", "write"} => owner["management"] = u
  BY DEF Holds, Fresh
<1>3. \A u \in Threads : pc[u] = "load" /\ kind[u] # "read" => owner["management"] = u
  BY DEF Holds
<1>. QED BY <1>1, <1>2, <1>3

LEMMA OneLockInit == Init => OneLock
<1>. SUFFICES ASSUME Init PROVE OneLock
  OBVIOUS
<1>1. Sound
  BY SoundInit
<1>2. Holds /\ Served /\ Fresh
  BY DEF Init, Holds, Served, Fresh
<1>3. OneWriter
  BY DEF Init, OneWriter, Writing
<1>. QED BY <1>1, <1>2, <1>3 DEF OneLock

LEMMA OneLockNext ==
  ASSUME "put" \notin Kinds, MayCrash = FALSE
  PROVE  OneLock /\ [Next]_vars => OneLock'
<1>. SUFFICES ASSUME OneLock, [Next]_vars PROVE OneLock'
  OBVIOUS
<1>. USE DEF OneLock
<1>a. Sound'
  BY SoundNext
<1>b. TypeOK
  BY DEF Sound
<1>1. ASSUME NEW t \in Threads, NEW k \in Kinds, Arrive(t, k) PROVE OneLock'
  <2>1. /\ pc[t] = "idle" /\ kind' = [kind EXCEPT ![t] = k]
        /\ pc' = [pc EXCEPT ![t] = IF LockOf(k) = "none" THEN "load" ELSE "lock"]
        /\ UNCHANGED <<disk, state, blended, next, late, owner>>
    BY <1>1 DEF Arrive, Goto
  <2>2. k \in {"post", "delete", "pool", "read"}
    BY ConfigAssumption
  <2>3. LockOf(k) = "none" => k = "read"
    BY <2>2 DEF LockOf
  <2>4. pc'[t] \in {"load", "lock"} /\ (pc'[t] = "load" => kind'[t] = "read")
    BY <2>1, <2>3, <1>b DEF TypeOK
  <2>5. \A u \in Threads \ {t} : pc'[u] = pc[u] /\ kind'[u] = kind[u]
    BY <2>1, <1>b DEF TypeOK
  <2>6. Holds' /\ Fresh'
    BY <2>1, <2>4, <2>5 DEF Holds, Fresh
  <2>7. Served'
    BY <2>1, <2>2, <1>b DEF Served, TypeOK
  <2>8. Writing' = Writing
    BY <2>1, <2>4, <2>5 DEF Writing
  <2>. QED BY <1>a, <2>1, <2>6, <2>7, <2>8 DEF OneWriter
<1>2. ASSUME NEW t \in Threads, Lock(t) PROVE OneLock'
  <2>1. /\ pc[t] = "lock" /\ owner[LockOf(kind[t])] = NoThread
        /\ owner' = [owner EXCEPT ![LockOf(kind[t])] = t]
        /\ pc' = [pc EXCEPT ![t] = "load"]
        /\ UNCHANGED <<disk, state, blended, kind, next, late>>
    BY <1>2 DEF Lock, Goto
  <2>2. kind[t] \in {"post", "delete", "pool", "read"}
    BY <1>b DEF TypeOK, Served
  <2>3. CASE kind[t] = "read"
    <3>1. LockOf(kind[t]) = "none"
      BY <2>3 DEF LockOf
    <3>2. owner' = owner
      BY <2>1, <3>1, <1>b DEF TypeOK
    <3>3. Holds' /\ Fresh' /\ Served'
      BY <2>1, <2>3, <3>2, <1>b DEF Holds, Fresh, Served, TypeOK
    <3>4. Writing' = Writing
      BY <2>1, <1>b DEF Writing, TypeOK
    <3>. QED BY <1>a, <2>1, <3>3, <3>4 DEF OneWriter
  <2>4. CASE kind[t] # "read"
    <3>1. LockOf(kind[t]) = "management"
      BY <2>2, <2>4 DEF LockOf
    <3>2. owner["management"] = NoThread /\ owner'["management"] = t
      BY <2>1, <3>1, <1>b DEF TypeOK
    <3>3. \A u \in Threads : pc[u] \in {"load", "open", "write"} => kind[u] = "read"
      BY <3>2, ConfigAssumption DEF Holds
    <3>4. Holds' /\ Fresh' /\ Served'
      BY <2>1, <3>2, <3>3, <1>b DEF Holds, Fresh, Served, TypeOK
    <3>5. Writing' = Writing
      BY <2>1, <1>b DEF Writing, TypeOK
    <3>. QED BY <1>a, <2>1, <3>4, <3>5 DEF OneWriter
  <2>. QED BY <2>3, <2>4
<1>3. ASSUME NEW t \in Threads, LoadToSave(t) PROVE OneLock'
  <2>1. /\ pc[t] = "load" /\ pc' = [pc EXCEPT ![t] = "open"]
        /\ UNCHANGED <<disk, state, blended, kind, late, owner>>
    BY <1>3 DEF LoadToSave, Goto
  <2>2. PICK s \in Store!Updates(kind[t], Loaded) : next' = [next EXCEPT ![t] = s]
    BY <1>3 DEF LoadToSave
  <2>3. kind[t] \in {"post", "delete"}
    BY <2>2, OnlyUpdates DEF Served
  <2>4. owner["management"] = t
    BY <2>1, <2>3 DEF Holds
  <2>5. \A u \in Threads : pc[u] \notin {"open", "write"}
    BY <2>1, <2>3, Alone
  <2>6. Loaded = disk
    BY <2>5 DEF Loaded, OneWriter, Writing
  <2>7. Holds' /\ Served'
    BY <2>1, <2>4, <1>b DEF Holds, Served, TypeOK
  <2>8. Fresh'
    BY <2>1, <2>2, <2>3, <2>5, <2>6, <1>b DEF Fresh, TypeOK
  <2>9. Writing' = Writing
    BY <2>1, <1>b DEF Writing, TypeOK
  <2>. QED BY <1>a, <2>1, <2>7, <2>8, <2>9 DEF OneWriter
<1>4. ASSUME NEW t \in Threads, LoadOnly(t) PROVE OneLock'
  <2>1. /\ pc[t] = "load" /\ pc' = [pc EXCEPT ![t] = "idle"]
        /\ owner' = [l \in DOMAIN owner |-> IF owner[l] = t THEN NoThread ELSE owner[l]]
        /\ UNCHANGED <<disk, state, blended, kind, next, late>>
    BY <1>4 DEF LoadOnly, Release, Goto
  <2>2. Holds' /\ Served' /\ Fresh'
    BY <2>1, <1>b DEF Holds, Served, Fresh, TypeOK
  <2>3. Writing' = Writing
    BY <2>1, <1>b DEF Writing, TypeOK
  <2>. QED BY <1>a, <2>1, <2>2, <2>3 DEF OneWriter
<1>5. ASSUME NEW t \in Threads, Open(t) PROVE OneLock'
  <2>1. /\ pc[t] = "open" /\ pc' = [pc EXCEPT ![t] = "write"] /\ state' = "empty" /\ late' = {}
        /\ UNCHANGED <<disk, blended, kind, next, owner>>
    BY <1>5 DEF Open, Goto
  <2>2. Holds' /\ Served' /\ Fresh'
    BY <2>1, <1>b DEF Holds, Served, Fresh, TypeOK
  <2>3. Writing' # {}
    BY <2>1, <1>b DEF Writing, TypeOK
  <2>. QED BY <1>a, <2>1, <2>2, <2>3 DEF OneWriter
<1>6. ASSUME NEW t \in Threads, Write(t) PROVE OneLock'
  <2>1. /\ pc[t] = "write" /\ pc' = [pc EXCEPT ![t] = "idle"]
        /\ next' = [next EXCEPT ![t] = Default] /\ kind' = kind
        /\ late' = Writing \ {t}
        /\ t \notin late => state' = "whole" /\ disk' = next[t]
        /\ blended' = (blended \/ (state' = "whole" /\ disk' # next[t]))
        /\ owner' = [l \in DOMAIN owner |-> IF owner[l] = t THEN NoThread ELSE owner[l]]
    BY <1>6 DEF Write, Release, Goto
  <2>2. Writing = {t} /\ \A u \in Threads \ {t} : pc[u] \notin {"open", "write"}
    BY <2>1, Alone DEF Writing
  <2>3. Holds'
    BY <2>1, <1>b DEF Holds, TypeOK
  <2>4. Served' /\ Fresh'
    BY <2>1, <2>2, <1>b DEF Served, Fresh, TypeOK
  <2>5. Writing' = {}
    BY <2>1, <2>2, <1>b DEF Writing, TypeOK
  <2>6. late' = {} /\ state' = "whole" /\ blended' = FALSE
    BY <2>1, <2>2 DEF OneWriter
  <2>. QED BY <1>a, <2>3, <2>4, <2>5, <2>6 DEF OneWriter
<1>7. ASSUME Crash PROVE OneLock'
  BY <1>7 DEF Crash
<1>8. ASSUME UNCHANGED vars PROVE OneLock'
  <2>1. UNCHANGED <<disk, state, blended, pc, kind, next, late, owner>>
    BY <1>8 DEF vars
  <2>2. Holds' /\ Served' /\ Fresh' /\ OneWriter'
    BY <2>1 DEF Holds, Served, Fresh, OneWriter, Writing
  <2>. QED BY <1>a, <2>2
<1>. QED BY <1>1, <1>2, <1>3, <1>4, <1>5, <1>6, <1>7, <1>8 DEF Next

-----------------------------------------------------------------------------
(* The mapping: an update takes effect when its thread opens the file.     *)
LEMMA MapNext ==
  ASSUME "put" \notin Kinds, MayCrash = FALSE, OneLock, [Next]_vars
  PROVE  [Store!Next]_Committed
<1>. USE DEF OneLock
<1>b. TypeOK
  BY DEF Sound
<1>1. ASSUME NEW t \in Threads, Open(t) PROVE Store!Next
  <2>1. pc[t] = "open" /\ pc' = [pc EXCEPT ![t] = "write"] /\ UNCHANGED <<disk, next, kind>>
    BY <1>1 DEF Open, Goto
  <2>2. Writing = {} /\ Writing' = {t}
    BY <2>1, Alone, <1>b DEF Writing, TypeOK
  <2>3. Committed = disk /\ Committed' = next[t]
    BY <2>1, <2>2 DEF Committed
  <2>4. kind[t] \in {"post", "delete", "put"} /\ next[t] \in Store!Updates(kind[t], disk)
    BY <2>1 DEF Fresh
  <2>. QED BY <2>3, <2>4 DEF Store!Next
<1>2. ASSUME NEW t \in Threads, Write(t) PROVE Committed' = Committed
  <2>1. pc[t] = "write" /\ pc' = [pc EXCEPT ![t] = "idle"] /\ disk' = next[t]
    BY <1>2 DEF Write, Release, Goto, OneWriter
  <2>2. Writing = {t} /\ Writing' = {}
    BY <2>1, Alone, <1>b DEF Writing, TypeOK
  <2>. QED BY <2>1, <2>2 DEF Committed
<1>3. ASSUME NEW t \in Threads, NEW to \in {"lock", "load", "open", "idle"},
             pc[t] # "write", Goto(t, to), disk' = disk,
             \A u \in Writing : next'[u] = next[u]
      PROVE  Committed' = Committed
  <2>1. Writing' = Writing
    BY <1>3, <1>b DEF Goto, Writing, TypeOK
  <2>. QED BY <1>3, <2>1 DEF Committed
<1>4. ASSUME NEW t \in Threads, NEW k \in Kinds, Arrive(t, k) PROVE Committed' = Committed
  BY <1>3, <1>4 DEF Arrive
<1>5. ASSUME NEW t \in Threads, Lock(t) PROVE Committed' = Committed
  BY <1>3, <1>5 DEF Lock
<1>6. ASSUME NEW t \in Threads, LoadToSave(t) PROVE Committed' = Committed
  <2>1. pc[t] = "load" /\ Goto(t, "open") /\ disk' = disk
    BY <1>6 DEF LoadToSave
  <2>2. PICK s : next' = [next EXCEPT ![t] = s]
    BY <1>6 DEF LoadToSave
  <2>3. \A u \in Writing : next'[u] = next[u]
    BY <2>1, <2>2, <1>b DEF Writing, TypeOK
  <2>. QED BY <1>3, <2>1, <2>3
<1>7. ASSUME NEW t \in Threads, LoadOnly(t) PROVE Committed' = Committed
  BY <1>3, <1>7 DEF LoadOnly, Release
<1>8. ASSUME UNCHANGED vars PROVE Committed' = Committed
  BY <1>8 DEF vars, Committed, Writing
<1>9. ASSUME Crash PROVE FALSE
  BY <1>9 DEF Crash
<1>. QED BY <1>1, <1>2, <1>4, <1>5, <1>6, <1>7, <1>8, <1>9 DEF Next

(* Where only the pool handlers of management.py save and the process is   *)
(* not killed, their lock makes every change act at once on the settings   *)
(* as they are: the file implements PoolStore.                             *)
THEOREM OneLockIsAtomic ==
  ASSUME "put" \notin Kinds, MayCrash = FALSE
  PROVE  Spec => UpdatesAtomic
<1>1. Init => Store!Init
  BY DEF Init, Store!Init, Committed, Writing
<1>2. OneLock /\ [Next]_vars => [Store!Next]_Committed
  BY MapNext
<1>3. OneLock /\ [Next]_vars => OneLock'
  BY OneLockNext
<1>. QED BY <1>1, <1>2, <1>3, OneLockInit, PTL DEF Spec, UpdatesAtomic, Store!Spec

(* Neither post_pool nor delete_pool takes the key of a worker that stays. *)
LEMMA UpdateKeepsKeys ==
  ASSUME NEW s \in Store!Settings, NEW k, k \in {"post", "delete"},
         NEW n \in Store!Updates(k, s), NEW i \in Ids, s.pool[i] = "keyed"
  PROVE  n.pool[i] # "keyless"
<1>1. CASE k = "post"
  <2>1. PICK j \in Ids, key \in BOOLEAN, o \in BOOLEAN, v \in BOOLEAN :
          n = Store!Posted(s, j, key, o, v)
    BY <1>1 DEF Store!Updates
  <2>. QED BY <2>1 DEF Store!Posted
<1>2. CASE k = "delete"
  <2>1. PICK j \in Store!Connected(s) : n = Store!Deleted(s, j)
    BY <1>2 DEF Store!Updates
  <2>. QED BY <2>1 DEF Store!Deleted, Store!Connected
<1>. QED BY <1>1, <1>2

(* Where only the pool handlers save and the process is not killed, what   *)
(* is written next is an update of what was on disk: no worker that stays  *)
(* loses its key to a request that was computed earlier.                   *)
THEOREM OneLockKeepsKeys ==
  ASSUME "put" \notin Kinds, MayCrash = FALSE
  PROVE  Spec => KeysSurvive
<1>. DEFINE Kept == \A i \in Ids : disk.pool[i] = "keyed" => disk'.pool[i] # "keyless"
<1>1. OneLock /\ [Next]_vars => [Kept]_vars
  <2>. SUFFICES ASSUME OneLock, Next PROVE Kept
    OBVIOUS
  <2>b. TypeOK
    BY DEF OneLock, Sound
  <2>1. ASSUME NEW t \in Threads, Write(t) PROVE Kept
    <3>1. disk' = next[t] /\ pc[t] = "write"
      BY <2>1 DEF Write, OneLock, OneWriter
    <3>2. kind[t] \in {"post", "delete"} /\ next[t] \in Store!Updates(kind[t], disk)
      BY <3>1 DEF OneLock, Fresh
    <3>. QED BY <3>1, <3>2, <2>b, UpdateKeepsKeys DEF TypeOK
  <2>2. ASSUME disk' = disk PROVE Kept
    BY <2>2
  <2>. QED BY <2>1, <2>2 DEF Next, Arrive, Lock, LoadToSave, LoadOnly, Open, Crash
<1>2. OneLock /\ [Next]_vars => OneLock'
  BY OneLockNext
<1>. QED BY <1>1, <1>2, OneLockInit, PTL DEF Spec, KeysSurvive
=============================================================================

----------------------------- MODULE PoolStore -----------------------------
(***************************************************************************)
(* What the dashboard may rely on when it changes routism.yaml: every      *)
(* accepted request acts at once, and on the settings as they are when it  *)
(* acts.  The operators say what each handler makes of the settings.       *)
(***************************************************************************)
EXTENDS Naturals, FiniteSets

CONSTANTS
  Ids,       \* worker ids a request may name
  NoId,      \* None
  Keep,      \* a field that is not in the request's body
  Reserved,  \* ids of engine models
  Capacity,  \* 5
  Knobs      \* values of the other settings

VARIABLE settings

Pin == Ids \union {NoId}

(* A worker is absent, or connected and loaded without or with an api_key. *)
Settings == [pool : [Ids -> {"absent", "keyless", "keyed"}],
             orch : Pin, ver : Pin, knob : Knobs]

Connected(s) == {i \in Ids : s.pool[i] # "absent"}

-----------------------------------------------------------------------------
(* Mutant: a request without a key clears it.                              *)
PostedBare(s, i, key, asOrch, asVer) ==
  [s EXCEPT !.pool[i] = IF key THEN "keyed" ELSE "keyless",
            !.orch = IF asOrch THEN i ELSE s.orch,
            !.ver = IF asVer THEN i ELSE s.ver]

(* post_pool: add or replace a worker; without a key in the request the    *)
(* old one is kept; the roles are re-pinned if the request says so.        *)
Posted(s, i, key, asOrch, asVer) ==
  [s EXCEPT !.pool[i] = IF key \/ s.pool[i] = "keyed" THEN "keyed" ELSE "keyless",
            !.orch = IF asOrch THEN i ELSE s.orch,
            !.ver = IF asVer THEN i ELSE s.ver]

PostAccepted(s, i) ==
  /\ i \notin Reserved
  /\ i \in Connected(s) \/ Cardinality(Connected(s)) < Capacity

(* Mutant: the verifier pin is forgotten.                                  *)
DeletedKeepPin(s, i) ==
  [s EXCEPT !.pool[i] = "absent",
            !.orch = IF s.orch = i THEN NoId ELSE s.orch]

(* delete_pool: the worker goes, and with it the roles pinned to it.       *)
Deleted(s, i) ==
  [s EXCEPT !.pool[i] = "absent",
            !.orch = IF s.orch = i THEN NoId ELSE s.orch,
            !.ver = IF s.ver = i THEN NoId ELSE s.ver]

(* put_settings: roles and knobs, where the body names them.               *)
Put(s, o, v, k) ==
  [s EXCEPT !.orch = IF o = Keep THEN s.orch ELSE o,
            !.ver = IF v = Keep THEN s.ver ELSE v,
            !.knob = IF k = Keep THEN s.knob ELSE k]

PutAccepted(s, o, v) == {o, v} \ {Keep, NoId} \subseteq Connected(s)

(* What an accepted request of each kind may make of the settings s.       *)
Updates(kind, s) ==
  CASE kind = "post" ->
         {Posted(s, i, key, o, v) :
            i \in {j \in Ids : PostAccepted(s, j)},
            key \in BOOLEAN, o \in BOOLEAN, v \in BOOLEAN}
    [] kind = "delete" -> {Deleted(s, i) : i \in Connected(s)}
    [] kind = "put" ->
         {Put(s, p[1], p[2], k) :
            p \in {q \in (Pin \union {Keep}) \X (Pin \union {Keep}) : PutAccepted(s, q[1], q[2])},
            k \in Knobs \union {Keep}}
    [] OTHER -> {}

-----------------------------------------------------------------------------
(* The file the server starts with names no role that is not connected.    *)
Wellformed(s) ==
  /\ {s.orch, s.ver} \ {NoId} \subseteq Connected(s)
  /\ Cardinality(Connected(s)) <= Capacity
  /\ Connected(s) \intersect Reserved = {}

Init == settings \in Settings /\ Wellformed(settings)

Next == \E kind \in {"post", "delete", "put"} : settings' \in Updates(kind, settings)

Spec == Init /\ [][Next]_settings
=============================================================================

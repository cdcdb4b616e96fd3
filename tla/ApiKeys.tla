------------------------------- MODULE ApiKeys -------------------------------
(***************************************************************************)
(* The keys of an installation (src/routism/api_keys.py): a table on disk  *)
(* that outlives the process, a first key that the start mints and writes  *)
(* to bootstrap_key.txt or takes from ROUTISM_API_KEY, and routes that     *)
(* create and revoke keys.  The process may die between any two of these   *)
(* steps.  A row is never deleted; that it stands for a hash, and that     *)
(* fresh keys are new, is assumed.                                         *)
(***************************************************************************)
EXTENDS FiniteSets

CONSTANTS
  Keys,         \* bound: every key there can ever be
  EnvKeys,      \* those an operator may put into ROUTISM_API_KEY
  NoKey,        \* an unset variable, a request without a key
  BadKey,       \* a value that is not of the form of a key
  Enforced,     \* ROUTISM_REQUIRE_API_KEY
  OpenLocal,    \* ROUTISM_OPEN_LOCAL
  AnonLoopback  \* ROUTISM_ALLOW_ANON_LOOPBACK

ASSUME KeyAssumption ==
  /\ EnvKeys \subseteq Keys /\ {NoKey, BadKey} \cap Keys = {} /\ NoKey # BadKey
  /\ {Enforced, OpenLocal, AnonLoopback} \subseteq BOOLEAN

VARIABLES
  up,       \* "down", "boot", "minted" (not yet written down) or "serving"
  env,      \* ROUTISM_API_KEY, as long as the process starts
  db,       \* per key "absent", "active" or "revoked"
  fresh,    \* the key that was just minted
  known,    \* the keys somebody was shown (history)
  lost,     \* those whose text was lost before anybody was shown it (history)
  failed    \* has the bootstrap of this process raised? (history)

told == <<known, lost>>
keyring == <<up, env, db, fresh, told, failed>>

KeysInit ==
  /\ up = "down" /\ env = NoKey /\ db = [k \in Keys |-> "absent"]
  /\ fresh = NoKey /\ known = {} /\ lost = {} /\ failed = FALSE

Active == {k \in Keys : db[k] = "active"}

Start(e) ==
  /\ up = "down"
  /\ up' = "boot" /\ env' = e
  /\ UNCHANGED <<db, fresh, told, failed>>

(* The process ends.  Keys that were minted and not shown are lost.        *)
Die(unshown) ==
  /\ up # "down"
  /\ up' = "down" /\ env' = NoKey /\ fresh' = NoKey /\ failed' = FALSE
  /\ lost' = lost \union unshown \union (IF up = "minted" THEN {fresh} ELSE {})
  /\ UNCHANGED <<db, known>>

Started == up' = "serving" /\ env' = NoKey

(* INSERT of a key that is not there; the key is not shown yet.            *)
Insert(k) == db[k] = "absent" /\ db' = [db EXCEPT ![k] = "active"]

(* Somebody gets the text of k to see, or nobody ever does.                *)
Told(k) ==
  \/ known' = known \union {k} /\ UNCHANGED lost
  \/ lost' = lost \union {k} /\ UNCHANGED known

(* Mutant: a key that is already there is made active.                     *)
ImportReviving ==
  /\ up = "boot" /\ env # NoKey
  /\ db' = IF env \in Keys THEN [db EXCEPT ![env] = "active"] ELSE db
  /\ known' = IF env \in Keys THEN known \union {env} ELSE known
  /\ Started
  /\ UNCHANGED <<fresh, lost, failed>>

(* ensure_bootstrap_key with ROUTISM_API_KEY set: import_raw leaves a row  *)
(* that exists as it is, also a revoked one; nothing is minted then, nor   *)
(* if the value is no key at all.                                          *)
Import ==
  /\ up = "boot" /\ env # NoKey
  /\ db' = IF env \in Keys /\ db[env] = "absent" THEN [db EXCEPT ![env] = "active"] ELSE db
  /\ known' = IF env \in Keys THEN known \union {env} ELSE known
  /\ Started
  /\ UNCHANGED <<fresh, lost, failed>>

(* Mutant: revoked keys count.                                             *)
KeepAny ==
  /\ up = "boot" /\ env = NoKey /\ \E k \in Keys : db[k] # "absent"
  /\ Started
  /\ UNCHANGED <<db, fresh, told, failed>>

(* There is an active key, be it one that nobody knows.                    *)
Keep ==
  /\ up = "boot" /\ env = NoKey /\ Active # {}
  /\ Started
  /\ UNCHANGED <<db, fresh, told, failed>>

Mint(k) ==
  /\ up = "boot" /\ env = NoKey /\ Active = {}
  /\ Insert(k) /\ fresh' = k
  /\ up' = "minted"
  /\ UNCHANGED <<env, told, failed>>

(* bootstrap_key.txt; that it cannot be written is logged, and the log     *)
(* does not show the key.                                                  *)
WriteKey ==
  /\ up = "minted"
  /\ Started /\ fresh' = NoKey
  /\ Told(fresh)
  /\ UNCHANGED <<db, failed>>

(* The data base fails before anything is inserted: that is logged, and    *)
(* the server starts without a bootstrap.                                  *)
BootFails ==
  /\ up = "boot"
  /\ Started /\ failed' = TRUE
  /\ UNCHANGED <<db, fresh, told>>

Booting == Import \/ Keep \/ WriteKey \/ BootFails \/ \E k \in Keys \ EnvKeys : Mint(k)

-----------------------------------------------------------------------------
(* authorize_request: a good key always does; without one it depends on    *)
(* how open the installation is.                                           *)
Authorized(k, mutation) ==
  \/ k \in Active
  \/ ~Enforced /\ (IF mutation THEN OpenLocal ELSE AnonLoopback)

(* POST /v1/keys: the row is there before the answer is.                   *)
Create(k) ==
  /\ up = "serving" /\ k \notin EnvKeys
  /\ Insert(k)
  /\ UNCHANGED <<up, env, fresh, told, failed>>

(* The answer with the key, which may not arrive.                          *)
Show(k) ==
  /\ up = "serving"
  /\ Told(k)
  /\ UNCHANGED <<up, env, db, fresh, failed>>

(* DELETE /v1/keys/<id>: 404 unless the key is active.                     *)
Revoke(k) ==
  /\ up = "serving" /\ k \in Active
  /\ db' = [db EXCEPT ![k] = "revoked"]
  /\ UNCHANGED <<up, env, fresh, told, failed>>

-----------------------------------------------------------------------------
(* Properties *)

(* Types.                                                                  *)
KeysTypeOK ==
  /\ up \in {"down", "boot", "minted", "serving"}
  /\ env \in EnvKeys \union {NoKey, BadKey}
  /\ db \in [Keys -> {"absent", "active", "revoked"}]
  /\ fresh \in Keys \union {NoKey} /\ known \subseteq Keys
  /\ lost \subseteq Keys /\ failed \in BOOLEAN

(* Revocation is final: no import of the same key at a later start, no     *)
(* bootstrap and no creation makes a revoked key good again.               *)
RevokedForGood == [][\A k \in Keys : db[k] = "revoked" => db'[k] = "revoked"]_keyring

(* When a bootstrap without ROUTISM_API_KEY is through there is a good     *)
(* key, whatever was revoked before, and somebody was shown one; or every  *)
(* good key is one whose own text was lost on its way out, by a crash      *)
(* after its row was there, a file that could not be written or an answer  *)
(* that did not arrive.  A loss excuses no longer than its key is good.    *)
KeyInHand ==
  [][up # "serving" /\ up' = "serving" /\ env = NoKey /\ ~failed'
       => Active' # {} /\ (Active' \cap known' # {} \/ Active' \subseteq lost')]_keyring
=============================================================================

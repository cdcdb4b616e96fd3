------------------------------ MODULE RateLimit ------------------------------
(***************************************************************************)
(* The sliding window every request to the server passes first             *)
(* (src/routism/rate_limit.py): at most PerMinute requests of a client     *)
(* within Window.  Check and record are one step: dispatch runs on the     *)
(* event loop, holds a lock, and awaits nothing in between.                *)
(***************************************************************************)
EXTENDS Integers, Sequences

CONSTANTS
  Clients,     \* what _client_key tells apart
  PerMinute,   \* requests per window
  Window,      \* its length: 60 seconds
  MaxClock     \* bound: the clock stops here

ASSUME RateAssumption ==
  PerMinute \in Nat \ {0} /\ Window \in Nat /\ MaxClock \in Nat

VARIABLES
  clock,   \* time.time()
  hits,    \* _hits: per client, the admissions that still count
  log      \* per client, every admission of this process (history)

limiter == <<clock, hits, log>>

RateInit ==
  /\ clock = 0
  /\ hits = [c \in Clients |-> <<>>]
  /\ log = [c \in Clients |-> <<>>]

Tick == clock < MaxClock /\ clock' = clock + 1 /\ UNCHANGED <<hits, log>>

(* Mutant: an admission that is exactly a window old no longer counts.     *)
ExpiredEarly(t) == clock - t >= Window

Expired(t) == clock - t > Window

(* The while loop: n is how many it takes from the left.                   *)
Prunes(c, n) ==
  /\ \A i \in 1..n : Expired(hits[c][i])
  /\ n < Len(hits[c]) => ~Expired(hits[c][n + 1])

Pruned(c, n) == SubSeq(hits[c], n + 1, Len(hits[c]))

Admit(c) ==
  \E n \in 0..Len(hits[c]) :
    /\ Prunes(c, n) /\ Len(hits[c]) - n < PerMinute
    /\ hits' = [hits EXCEPT ![c] = Append(Pruned(c, n), clock)]
    /\ log' = [log EXCEPT ![c] = Append(@, clock)]
    /\ UNCHANGED clock

(* Mutant: a request that is refused counts.                               *)
RefuseCounting(c) ==
  \E n \in 0..Len(hits[c]) :
    /\ Prunes(c, n) /\ Len(hits[c]) - n >= PerMinute
    /\ hits' = [hits EXCEPT ![c] = Append(Pruned(c, n), clock)]
    /\ UNCHANGED <<clock, log>>

(* 429; a request that is refused does not count.                          *)
Refuse(c) ==
  \E n \in 0..Len(hits[c]) :
    /\ Prunes(c, n) /\ Len(hits[c]) - n >= PerMinute
    /\ hits' = [hits EXCEPT ![c] = Pruned(c, n)]
    /\ UNCHANGED <<clock, log>>

(* The counts are the process's.                                           *)
Forget ==
  /\ hits' = [c \in Clients |-> <<>>]
  /\ log' = [c \in Clients |-> <<>>]
  /\ UNCHANGED clock

-----------------------------------------------------------------------------
(* Properties *)

(* Types.                                                                  *)
RateTypeOK ==
  /\ clock \in Nat
  /\ hits \in [Clients -> Seq(Nat)] /\ log \in [Clients -> Seq(Nat)]

(* Of all admissions of a client, one and the PerMinute-th after it are    *)
(* more than a window apart: however the queue is pruned, no window of the *)
(* history holds more than PerMinute of them.                              *)
WindowHolds ==
  \A c \in Clients : \A i \in 1..Len(log[c]) :
    i + PerMinute <= Len(log[c]) => log[c][i + PerMinute] - log[c][i] > Window
=============================================================================

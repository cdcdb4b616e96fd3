--------------------------- MODULE FrontDoorProofs ---------------------------
(***************************************************************************)
(* Proofs about FrontDoor, for any clients, limits, keys and connections:  *)
(* the rate limit's window, the life of keys across restarts, and what     *)
(* goes out on the streams.                                                *)
(***************************************************************************)
EXTENDS FrontDoor, SequenceTheorems, TLAPS

-----------------------------------------------------------------------------
(* The rate limit *)

(* hits is the end of the history, at most PerMinute long, and what was    *)
(* pruned from it is more than a window old.                               *)
KeptIsEnd(c) ==
  /\ Len(hits[c]) <= Len(log[c]) /\ Len(hits[c]) <= PerMinute
  /\ \A i \in 1..Len(hits[c]) : hits[c][i] = log[c][Len(log[c]) - Len(hits[c]) + i]
  /\ \A i \in 1..(Len(log[c]) - Len(hits[c])) : Expired(log[c][i])

RateInv == RateTypeOK /\ WindowHolds /\ \A c \in Clients : KeptIsEnd(c)

(* Every step of the whole leaves the limiter alone or is one of its own.  *)
RateNext ==
  \/ UNCHANGED limiter \/ Tick \/ Forget
  \/ \E c \in Clients : Admit(c) \/ Refuse(c)

(* What is left of a queue of n entries fewer.                             *)
LEMMA PrunedProperties ==
  ASSUME NEW c \in Clients, hits[c] \in Seq(Nat), NEW n \in 0..Len(hits[c])
  PROVE  /\ Pruned(c, n) \in Seq(Nat) /\ Len(Pruned(c, n)) = Len(hits[c]) - n
         /\ \A i \in 1..(Len(hits[c]) - n) : Pruned(c, n)[i] = hits[c][n + i]
<1>1. \A i \in (n + 1)..Len(hits[c]) : hits[c][i] \in Nat
  OBVIOUS
<1>2. n \in Int /\ Len(hits[c]) \in Int
  OBVIOUS
<1>3. /\ SubSeq(hits[c], n + 1, Len(hits[c])) \in Seq(Nat)
      /\ Len(SubSeq(hits[c], n + 1, Len(hits[c]))) =
           IF n + 1 <= Len(hits[c]) THEN Len(hits[c]) - (n + 1) + 1 ELSE 0
      /\ \A i \in 1..(Len(hits[c]) - (n + 1) + 1) :
           SubSeq(hits[c], n + 1, Len(hits[c]))[i] = hits[c][(n + 1) + i - 1]
  BY <1>1, <1>2, SubSeqProperties
<1>4. \A i \in Int : (n + 1) + i - 1 = n + i
  BY <1>2
<1> QED  BY <1>2, <1>3, <1>4 DEF Pruned

LEMMA RateInitial == RateInit => RateInv
BY RateAssumption DEF RateInit, RateInv, RateTypeOK, WindowHolds, KeptIsEnd

(* Pruning n entries keeps the relation between queue and history.         *)
LEMMA PruneKeeps ==
  ASSUME NEW c \in Clients, RateInv, NEW n \in 0..Len(hits[c]), Prunes(c, n)
  PROVE  /\ \A i \in 1..(Len(hits[c]) - n) :
              Pruned(c, n)[i] = log[c][Len(log[c]) - (Len(hits[c]) - n) + i]
         /\ \A i \in 1..(Len(log[c]) - (Len(hits[c]) - n)) : Expired(log[c][i])
<1> DEFINE H == Len(hits[c])
           G == Len(log[c])
<1>1. /\ hits[c] \in Seq(Nat) /\ log[c] \in Seq(Nat) /\ H \in Nat /\ G \in Nat /\ n \in Nat
      /\ n <= H /\ H <= G
      /\ \A i \in 1..H : hits[c][i] = log[c][G - H + i]
      /\ \A i \in 1..(G - H) : Expired(log[c][i])
  BY DEF RateInv, RateTypeOK, KeptIsEnd
<1>2. \A i \in 1..(Len(hits[c]) - n) : Pruned(c, n)[i] = hits[c][n + i]
  BY <1>1, PrunedProperties
<1> HIDE DEF H, G
<1>3. ASSUME NEW i \in 1..(G - (H - n))
      PROVE  Expired(log[c][i])
  <2>1. CASE i <= G - H
    BY <1>1, <2>1
  <2>2. CASE i > G - H
    <3>1. PICK j \in Int : j = i - (G - H)
      BY <1>1
    <3>2. j \in 1..n /\ j \in 1..H /\ G - H + j = i
      BY <1>1, <2>2, <3>1
    <3>3. hits[c][j] = log[c][i]
      BY <1>1, <3>2
    <3> QED  BY <3>2, <3>3 DEF Prunes
  <2> QED  BY <1>1, <2>1, <2>2
<1>4. ASSUME NEW i \in 1..(H - n)
      PROVE  Pruned(c, n)[i] = log[c][G - (H - n) + i]
  <2>1. n + i \in 1..H /\ G - H + (n + i) = G - (H - n) + i
    BY <1>1
  <2>2. i \in 1..(Len(hits[c]) - n)
    BY DEF H
  <2> QED  BY <1>1, <1>2, <2>1, <2>2
<1> QED  BY <1>3, <1>4 DEF H, G

LEMMA RateAdmit ==
  ASSUME RateInv, NEW c \in Clients, Admit(c)
  PROVE  RateInv'
<1>1. PICK n \in 0..Len(hits[c]) :
        /\ Prunes(c, n) /\ Len(hits[c]) - n < PerMinute
        /\ hits' = [hits EXCEPT ![c] = Append(Pruned(c, n), clock)]
        /\ log' = [log EXCEPT ![c] = Append(@, clock)]
        /\ UNCHANGED clock
  BY DEF Admit
<1>2. RateTypeOK /\ hits[c] \in Seq(Nat) /\ log[c] \in Seq(Nat) /\ clock \in Nat
  BY DEF RateInv, RateTypeOK
<1> DEFINE L == Len(hits[c]) - n
           q == Pruned(c, n)
           G == Len(log[c])
<1>3. /\ q \in Seq(Nat) /\ Len(q) = L /\ L \in Nat /\ G \in Nat /\ L <= G
      /\ \A i \in 1..L : q[i] = log[c][G - L + i]
      /\ \A i \in 1..(G - L) : Expired(log[c][i])
  <2>1. q \in Seq(Nat) /\ Len(q) = L
    BY <1>2, PrunedProperties
  <2>2. Len(hits[c]) \in Nat /\ G \in Nat /\ n \in Nat /\ n <= Len(hits[c]) /\ Len(hits[c]) <= G
    <3>1. KeptIsEnd(c)
      BY DEF RateInv
    <3> QED  BY <1>2, <3>1 DEF KeptIsEnd
  <2>3. /\ \A i \in 1..L : q[i] = log[c][G - L + i]
        /\ \A i \in 1..(G - L) : Expired(log[c][i])
    BY <1>1, PruneKeeps
  <2>4. L \in Nat /\ L <= G
    <3> HIDE DEF q, G
    <3> QED  BY <2>2
  <2> HIDE DEF L, q, G
  <2> QED  BY <2>1, <2>2, <2>3, <2>4
<1>n. L < PerMinute
  BY <1>1
<1> HIDE DEF L, q, G
<1>4. /\ hits'[c] = Append(q, clock) /\ log'[c] = Append(log[c], clock)
      /\ \A d \in Clients \ {c} : hits'[d] = hits[d] /\ log'[d] = log[d]
  BY <1>1, <1>2 DEF RateTypeOK, q
<1>5. /\ hits'[c] \in Seq(Nat) /\ Len(hits'[c]) = L + 1 /\ hits'[c][L + 1] = clock
      /\ \A i \in 1..L : hits'[c][i] = q[i]
  <2>1. hits'[c] = Append(q, clock)
    BY <1>4 DEF q
  <2> QED  BY <1>2, <1>3, <2>1, AppendProperties
<1>6. /\ log'[c] \in Seq(Nat) /\ Len(log'[c]) = G + 1 /\ log'[c][G + 1] = clock
      /\ \A i \in 1..G : log'[c][i] = log[c][i]
  BY <1>2, <1>4, AppendProperties DEF G
<1>7. RateTypeOK'
  <2>1. hits' \in [Clients -> Seq(Nat)]
    BY <1>1, <1>2, <1>4, <1>5 DEF RateTypeOK
  <2>2. log' \in [Clients -> Seq(Nat)]
    BY <1>1, <1>2, <1>4, <1>6 DEF RateTypeOK
  <2> QED  BY <1>1, <1>2, <2>1, <2>2 DEF RateTypeOK
<1>8. \A t : Expired(t)' <=> Expired(t)
  BY <1>1 DEF Expired
<1>9. ASSUME NEW d \in Clients
      PROVE  KeptIsEnd(d)'
  <2>1. CASE d # c
    <3>1. KeptIsEnd(d) /\ hits'[d] = hits[d] /\ log'[d] = log[d]
      BY <1>4, <2>1 DEF RateInv
    <3> QED  BY <1>1, <3>1 DEF KeptIsEnd, Expired
  <2>2. CASE d = c
    <3>1. L + 1 <= G + 1 /\ L + 1 <= PerMinute /\ (G + 1) - (L + 1) = G - L
      BY <1>3, <1>n, RateAssumption
    <3>2. ASSUME NEW i \in 1..(L + 1)
          PROVE  hits'[c][i] = log'[c][(G + 1) - (L + 1) + i]
      <4>1. CASE i \in 1..L
        <5>1. G - L + i \in 1..G
          BY <1>3, <4>1
        <5>2. log'[c][G - L + i] = log[c][G - L + i]
          BY <1>6, <5>1
        <5>3. hits'[c][i] = log[c][G - L + i]
          BY <1>3, <1>5, <4>1
        <5> QED  BY <3>1, <5>2, <5>3
      <4>2. CASE i = L + 1
        <5>1. G - L + i = G + 1
          BY <1>3, <4>2
        <5> QED  BY <1>5, <1>6, <3>1, <4>2, <5>1
      <4> QED  BY <1>3, <4>1, <4>2
    <3>3. ASSUME NEW i \in 1..((G + 1) - (L + 1))
          PROVE  Expired(log'[c][i])
      <4>1. i \in 1..(G - L) /\ i \in 1..G
        BY <1>3, <3>1
      <4> QED  BY <1>3, <1>6, <4>1
    <3>4. \A i \in 1..((G + 1) - (L + 1)) : Expired(log[c][i])'
      BY <1>1, <3>3 DEF Expired
    <3> QED  BY <1>5, <1>6, <2>2, <3>1, <3>2, <3>4 DEF KeptIsEnd
  <2> QED  BY <2>1, <2>2
<1>10. ASSUME NEW d \in Clients, NEW i \in 1..Len(log'[d]), i + PerMinute <= Len(log'[d])
       PROVE  log'[d][i + PerMinute] - log'[d][i] > Window
  <2>1. CASE d # c
    BY <1>4, <1>10, <2>1 DEF RateInv, WindowHolds
  <2>2. CASE d = c /\ i + PerMinute <= G
    <3>1. i \in 1..G /\ i + PerMinute \in 1..G
      BY <1>3, <2>2, RateAssumption
    <3>2. log[c][i + PerMinute] - log[c][i] > Window
      BY <2>2, <3>1 DEF RateInv, WindowHolds, G
    <3> QED  BY <1>6, <2>2, <3>1, <3>2
  <2>3. CASE d = c /\ i + PerMinute = G + 1
    <3>1. i \in 1..(G - L) /\ i \in 1..G
      BY <1>3, <1>n, <2>3, RateAssumption
    <3>2. Expired(log[c][i]) /\ log'[c][i] = log[c][i]
      BY <1>3, <1>6, <3>1
    <3> QED  BY <1>6, <2>3, <3>2 DEF Expired
  <2> QED  BY <1>3, <1>6, <1>10, <2>1, <2>2, <2>3, RateAssumption
<1> QED  BY <1>7, <1>9, <1>10 DEF RateInv, WindowHolds

LEMMA RateRefuse ==
  ASSUME RateInv, NEW c \in Clients, Refuse(c)
  PROVE  RateInv'
<1>1. PICK n \in 0..Len(hits[c]) :
        /\ Prunes(c, n) /\ Len(hits[c]) - n >= PerMinute
        /\ hits' = [hits EXCEPT ![c] = Pruned(c, n)]
        /\ UNCHANGED <<clock, log>>
  BY DEF Refuse
<1>2. RateTypeOK /\ hits[c] \in Seq(Nat) /\ log[c] \in Seq(Nat) /\ clock \in Nat
  BY DEF RateInv, RateTypeOK
<1>3. /\ Pruned(c, n) \in Seq(Nat) /\ Len(Pruned(c, n)) = Len(hits[c]) - n
      /\ \A i \in 1..(Len(hits[c]) - n) :
           Pruned(c, n)[i] = log[c][Len(log[c]) - (Len(hits[c]) - n) + i]
      /\ \A i \in 1..(Len(log[c]) - (Len(hits[c]) - n)) : Expired(log[c][i])
  BY <1>1, <1>2, PrunedProperties, PruneKeeps
<1>4. hits'[c] = Pruned(c, n) /\ \A d \in Clients \ {c} : hits'[d] = hits[d]
  BY <1>1, <1>2 DEF RateTypeOK
<1>5. RateTypeOK'
  BY <1>1, <1>2, <1>3 DEF RateTypeOK
<1>6. WindowHolds'
  BY <1>1 DEF RateInv, WindowHolds
<1>7. ASSUME NEW d \in Clients
      PROVE  KeptIsEnd(d)'
  <2>1. CASE d # c
    <3>1. KeptIsEnd(d) /\ hits'[d] = hits[d] /\ log'[d] = log[d]
      BY <1>1, <1>4, <2>1 DEF RateInv
    <3> QED  BY <1>1, <3>1 DEF KeptIsEnd, Expired
  <2>2. CASE d = c
    <3>1. /\ Len(hits[c]) \in Nat /\ Len(log[c]) \in Nat
          /\ Len(hits[c]) <= Len(log[c]) /\ Len(hits[c]) <= PerMinute
      <4>1. KeptIsEnd(c)
        BY DEF RateInv
      <4> QED  BY <1>2, <4>1 DEF KeptIsEnd
    <3>2. Len(hits'[c]) <= Len(log'[c]) /\ Len(hits'[c]) <= PerMinute
      BY <1>1, <1>3, <1>4, <3>1, RateAssumption
    <3>3. \A i \in 1..Len(hits'[c]) : hits'[c][i] = log'[c][Len(log'[c]) - Len(hits'[c]) + i]
      <4>1. log' = log /\ hits'[c] = Pruned(c, n) /\ Len(hits'[c]) = Len(hits[c]) - n
        BY <1>1, <1>3, <1>4
      <4>2. \A i \in 1..(Len(hits[c]) - n) :
              hits'[c][i] = log[c][Len(log[c]) - (Len(hits[c]) - n) + i]
        BY <1>3, <4>1
      <4> QED  BY <4>1, <4>2
    <3>4. \A i \in 1..(Len(log'[c]) - Len(hits'[c])) : Expired(log[c][i])'
      BY <1>1, <1>3, <1>4 DEF Expired
    <3> QED  BY <2>2, <3>2, <3>3, <3>4 DEF KeptIsEnd
  <2> QED  BY <2>1, <2>2
<1> QED  BY <1>5, <1>6, <1>7 DEF RateInv

(* A client that is refused has PerMinute admissions in the last window.   *)
LEMMA RefusedWasAdmitted ==
  ASSUME RateInv, NEW c \in Clients, Refuse(c)
  PROVE  /\ Len(log[c]) >= PerMinute
         /\ clock - log[c][Len(log[c]) - PerMinute + 1] <= Window
<1>1. PICK n \in 0..Len(hits[c]) : Prunes(c, n) /\ Len(hits[c]) - n >= PerMinute
  BY DEF Refuse
<1>2. /\ hits[c] \in Seq(Nat) /\ log[c] \in Seq(Nat) /\ clock \in Nat /\ KeptIsEnd(c)
  BY DEF RateInv, RateTypeOK
<1>3. n = 0 /\ Len(hits[c]) = PerMinute /\ 0 < Len(hits[c])
  BY <1>1, <1>2, RateAssumption DEF KeptIsEnd
<1>4. ~Expired(hits[c][1])
  BY <1>1, <1>3 DEF Prunes
<1>5. /\ hits[c][1] = log[c][Len(log[c]) - PerMinute + 1] /\ hits[c][1] \in Nat
  BY <1>2, <1>3 DEF KeptIsEnd
<1>6. Len(hits[c]) <= Len(log[c]) /\ Window \in Nat
  BY <1>2, RateAssumption DEF KeptIsEnd
<1>7. clock - hits[c][1] <= Window
  BY <1>2, <1>4, <1>5, <1>6 DEF Expired
<1>8. Len(log[c]) >= PerMinute
  BY <1>3, <1>6
<1> QED  BY <1>5, <1>7, <1>8

LEMMA RateStep == RateInv /\ RateNext => RateInv'
<1> SUFFICES ASSUME RateInv, RateNext  PROVE RateInv'
  OBVIOUS
<1>1. CASE UNCHANGED limiter
  BY <1>1 DEF limiter, RateInv, RateTypeOK, WindowHolds, KeptIsEnd, Expired
<1>2. CASE Tick
  <2>1. \A t \in Nat : Expired(t) => Expired(t)'
    BY <1>2, RateAssumption DEF Tick, Expired, RateInv, RateTypeOK
  <2>2. RateTypeOK' /\ WindowHolds'
    BY <1>2 DEF Tick, RateInv, RateTypeOK, WindowHolds
  <2>3. ASSUME NEW c \in Clients
        PROVE  KeptIsEnd(c)'
    <3>1. log[c] \in Seq(Nat) /\ hits[c] \in Seq(Nat) /\ KeptIsEnd(c)
      BY DEF RateInv, RateTypeOK
    <3>2. \A i \in 1..(Len(log[c]) - Len(hits[c])) : Expired(log[c][i])'
      <4> SUFFICES ASSUME NEW i \in 1..(Len(log[c]) - Len(hits[c]))
                   PROVE  Expired(log[c][i])'
        OBVIOUS
      <4>1. i \in 1..Len(log[c]) /\ log[c][i] \in Nat /\ Expired(log[c][i])
        BY <3>1 DEF KeptIsEnd
      <4> QED  BY <1>2, <4>1, RateAssumption DEF Tick, Expired, RateInv, RateTypeOK
    <3> QED  BY <1>2, <3>1, <3>2 DEF Tick, KeptIsEnd, Expired
  <2> QED  BY <2>2, <2>3 DEF RateInv
<1>3. CASE Forget
  BY <1>3, RateAssumption DEF Forget, RateInv, RateTypeOK, WindowHolds, KeptIsEnd
<1>4. CASE \E c \in Clients : Admit(c) \/ Refuse(c)
  BY <1>4, RateAdmit, RateRefuse
<1> QED  BY <1>1, <1>2, <1>3, <1>4 DEF RateNext

-----------------------------------------------------------------------------
(* The frames that close a stream *)

Sends(r) == req[r].wants /\ work[r] # "failed"

(* After n pieces a stop, the usage if it is to be sent, and the end.      *)
FrameAt(n, usage, i) ==
  IF i <= n THEN "content"
  ELSE IF i = n + 1 THEN "stop"
  ELSE IF i = n + 2 /\ usage THEN "usage" ELSE "done"

LEMMA PiecesType ==
  ASSUME NEW n \in Nat
  PROVE  /\ Pieces(n) \in Seq(Frames) /\ Len(Pieces(n)) = n
         /\ \A i \in 1..n : Pieces(n)[i] = "content"
<1>1. Pieces(n) \in [1..n -> Frames]
  BY DEF Pieces, Frames
<1>2. Pieces(n) \in Seq(Frames) /\ Len(Pieces(n)) = n
  BY <1>1
<1> QED  BY <1>2 DEF Pieces

(* An answer's frames, and an error's once its role is taken out.          *)
LEMMA ClosingFrames ==
  ASSUME NEW r \in Requests, NEW n \in Nat, req[r].wants \in BOOLEAN
  PROVE  /\ Closing(r, n) \in Seq(Frames)
         /\ Len(Closing(r, n)) = n + 2 + (IF Sends(r) THEN 1 ELSE 0)
         /\ \A i \in 1..Len(Closing(r, n)) : Closing(r, n)[i] = FrameAt(n, Sends(r), i)
<1> DEFINE P == Pieces(n)
<1>1. /\ P \in Seq(Frames) /\ Len(P) = n /\ \A i \in 1..n : P[i] = "content"
  BY PiecesType
<1>2. /\ <<"role">> \in Seq(Frames) /\ <<"stop">> \in Seq(Frames) /\ <<"usage">> \in Seq(Frames)
      /\ <<"done">> \in Seq(Frames) /\ <<>> \in Seq(Frames)
      /\ Len(<<"role">>) = 1 /\ Len(<<"stop">>) = 1 /\ Len(<<"usage">>) = 1
      /\ Len(<<"done">>) = 1 /\ Len(<<>>) = 0
      /\ <<"role">>[1] = "role" /\ <<"stop">>[1] = "stop" /\ <<"usage">>[1] = "usage"
      /\ <<"done">>[1] = "done"
  BY DEF Frames
<1> HIDE DEF P
<1>3. CASE work[r] # "failed"
  <2> DEFINE A == P \o <<"stop">>
             M == IF req[r].wants THEN <<"usage">> ELSE <<>>
             B == A \o M
             C == B \o <<"done">>
  <2>1. /\ A \in Seq(Frames) /\ Len(A) = n + 1
        /\ \A i \in 1..(n + 1) : A[i] = IF i <= n THEN "content" ELSE "stop"
    BY <1>1, <1>2, ConcatProperties
  <2>2. /\ M \in Seq(Frames) /\ Len(M) = (IF req[r].wants THEN 1 ELSE 0)
        /\ \A i \in 1..Len(M) : M[i] = "usage"
    BY <1>2
  <2> HIDE DEF A, M
  <2>3. /\ B \in Seq(Frames) /\ Len(B) = n + 1 + Len(M)
        /\ \A i \in 1..(n + 1 + Len(M)) : B[i] = IF i <= n + 1 THEN A[i] ELSE M[i - (n + 1)]
    <3>1. /\ B \in Seq(Frames) /\ Len(B) = Len(A) + Len(M)
          /\ \A i \in 1..(Len(A) + Len(M)) : B[i] = IF i <= Len(A) THEN A[i] ELSE M[i - Len(A)]
      BY <2>1, <2>2, ConcatProperties
    <3> QED  BY <2>1, <3>1
  <2> HIDE DEF B
  <2>4. /\ C \in Seq(Frames) /\ Len(C) = n + 2 + Len(M)
        /\ \A i \in 1..(n + 2 + Len(M)) : C[i] = IF i <= n + 1 + Len(M) THEN B[i] ELSE "done"
    <3>1. /\ C \in Seq(Frames) /\ Len(C) = Len(B) + 1
          /\ \A i \in 1..(Len(B) + 1) : C[i] = IF i <= Len(B) THEN B[i] ELSE <<"done">>[i - Len(B)]
      BY <1>2, <2>3, ConcatProperties
    <3> QED  BY <1>2, <2>2, <2>3, <3>1
  <2>5. Closing(r, n) = C
    BY <1>3 DEF Closing, A, B, M, P
  <2> HIDE DEF C
  <2>6. ASSUME NEW i \in 1..Len(C)
        PROVE  C[i] = FrameAt(n, req[r].wants, i)
    <3>1. CASE req[r].wants
      BY <2>1, <2>2, <2>3, <2>4, <3>1 DEF FrameAt
    <3>2. CASE ~req[r].wants
      BY <2>1, <2>2, <2>3, <2>4, <3>2 DEF FrameAt
    <3> QED  BY <3>1, <3>2
  <2>7. Sends(r) = req[r].wants
    BY <1>3 DEF Sends
  <2> QED  BY <2>2, <2>4, <2>5, <2>6, <2>7
<1>4. CASE work[r] = "failed"
  <2> DEFINE A == <<"role">> \o P
             B == A \o <<"stop">>
             C == B \o <<>>
             D == C \o <<"done">>
  <2>1. /\ A \in Seq(Frames) /\ Len(A) = n + 1
        /\ \A i \in 1..(n + 1) : A[i] = IF i <= 1 THEN "role" ELSE "content"
    <3>1. /\ A \in Seq(Frames) /\ Len(A) = 1 + n
          /\ \A i \in 1..(1 + n) : A[i] = IF i <= 1 THEN <<"role">>[i] ELSE P[i - 1]
      BY <1>1, <1>2, ConcatProperties
    <3> QED  BY <1>1, <1>2, <3>1
  <2> HIDE DEF A
  <2>2. /\ B \in Seq(Frames) /\ Len(B) = n + 2
        /\ \A i \in 1..(n + 2) : B[i] = IF i <= n + 1 THEN A[i] ELSE "stop"
    <3>1. /\ B \in Seq(Frames) /\ Len(B) = Len(A) + 1
          /\ \A i \in 1..(Len(A) + 1) : B[i] = IF i <= Len(A) THEN A[i] ELSE <<"stop">>[i - Len(A)]
      BY <1>2, <2>1, ConcatProperties
    <3> QED  BY <1>2, <2>1, <3>1
  <2> HIDE DEF B
  <2>3. C = B
    BY <2>2, ConcatEmptySeq
  <2> HIDE DEF C
  <2>4. /\ D \in Seq(Frames) /\ Len(D) = n + 3
        /\ \A i \in 1..(n + 3) : D[i] = IF i <= n + 2 THEN B[i] ELSE "done"
    <3>1. /\ D \in Seq(Frames) /\ Len(D) = Len(B) + 1
          /\ \A i \in 1..(Len(B) + 1) : D[i] = IF i <= Len(B) THEN B[i] ELSE <<"done">>[i - Len(B)]
      BY <1>2, <2>2, <2>3, ConcatProperties
    <3> QED  BY <1>2, <2>2, <3>1
  <2>5. AfterAnswer(n, FALSE) = D
    BY DEF AfterAnswer, A, B, C, D, P
  <2> HIDE DEF D
  <2>6. D # <<>>
    BY <2>4
  <2>7. /\ Tail(D) \in Seq(Frames) /\ Len(Tail(D)) = n + 2
        /\ \A i \in 1..(n + 2) : Tail(D)[i] = D[i + 1]
    BY <2>4, <2>6, HeadTailProperties
  <2>8. ASSUME NEW i \in 1..(n + 2)
        PROVE  Tail(D)[i] = FrameAt(n, FALSE, i)
    <3>1. i + 1 \in 1..(n + 3) /\ Tail(D)[i] = D[i + 1]
      BY <2>7
    <3> QED  BY <2>1, <2>2, <2>4, <3>1 DEF FrameAt
  <2>9. Closing(r, n) = Tail(D) /\ ~Sends(r)
    BY <1>4, <2>5 DEF Closing, Sends
  <2>10. \A i \in 1..(n + 2) : FrameAt(n, Sends(r), i) = FrameAt(n, FALSE, i)
    BY <2>9 DEF FrameAt
  <2>11. n + 2 + (IF Sends(r) THEN 1 ELSE 0) = n + 2
    BY <2>9
  <2>12. Len(Closing(r, n)) = n + 2 /\ Closing(r, n) \in Seq(Frames)
    BY <2>7, <2>9
  <2>13. \A i \in 1..(n + 2) : Closing(r, n)[i] = FrameAt(n, Sends(r), i)
    BY <2>7, <2>8, <2>9, <2>10
  <2> QED  BY <2>11, <2>12, <2>13
<1> QED  BY <1>3, <1>4

-----------------------------------------------------------------------------
(* Requests and their streams *)

Doors == {"idle", "handler", "allowed", "show"}
Waiting == {"role", "empty"}
Asks == Query \union {Blank}
Replies == {0, 200, 400, 401, 404, 429, 500, 502}

AskTypeOK ==
  /\ at \in [Requests -> Doors \union {"plain", "stream", "gone"}]
  /\ req \in [Requests -> Asks]
  /\ reply \in Replies
  /\ work \in [Requests -> {"none", "queued", "running", "hung"} \union Finished]
  /\ queue \in Seq(Requests)
  /\ sent \in [Requests -> Seq(Frames)] /\ todo \in [Requests -> Seq(Frames)]

(* Runs are for requests that wait, or waited, for them.                   *)
RunFor(r) ==
  /\ at[r] = "show" => req[r].key \in Keys
  /\ sent[r] # <<>> <=> at[r] = "stream"
  /\ work[r] # "none" => at[r] \in {"plain", "stream", "gone"}
  /\ at[r] = "gone" => work[r] \in {"queued", "running", "hung"}
  /\ at[r] # "stream" => todo[r] = <<>>
  /\ req[r].wants \in BOOLEAN

(* The queue holds each request that has a run to begin, once.             *)
QueueInv ==
  \A i, j \in 1..Len(queue) : work[queue[i]] = "queued" /\ (i # j => queue[i] # queue[j])

(* Nothing is asked of a server that does not serve.                       *)
DownIdle == up # "serving" => \A r \in Requests : at[r] = "idle"

Said(r, f) ==
  \/ \E i \in 1..Len(sent[r]) : sent[r][i] = f
  \/ \E i \in 1..Len(todo[r]) : todo[r][i] = f

(* What is still to be sent continues what was sent, and the two together  *)
(* say what the run came to.                                               *)
Continues(r) ==
  /\ todo[r] # <<>> => todo[r][1] \in Protocol!Follows(LastSent(r))
  /\ \A i \in 1..Len(todo[r]) :
       i + 1 <= Len(todo[r]) => todo[r][i + 1] \in Protocol!Follows(todo[r][i])
  /\ \A i \in 1..Len(todo[r]) :
       todo[r][i] \notin Waiting /\ (todo[r][i] = "usage" => req[r].wants)

SaysAll(r) ==
  /\ work[r] \in Finished
  /\ Said(r, "content") <=> work[r] \notin {"blank", "nothing"}
  /\ Said(r, "usage") <=> Sends(r)

StreamInv(r) ==
  at[r] = "stream" =>
    /\ Continues(r)
    /\ IF todo[r] = <<>> /\ LastSent(r) \in Waiting
       THEN \A i \in 1..Len(sent[r]) : sent[r][i] \in Waiting
       ELSE SaysAll(r)

ChatInv ==
  /\ AskTypeOK /\ QueueInv /\ DownIdle
  /\ \A r \in Requests : RunFor(r) /\ StreamInv(r)

LEMMA BlankType ==
  /\ Blank \in Asks /\ Blank.key = NoKey /\ Blank.wants = FALSE
  /\ Query \subseteq Asks /\ \A q \in Asks : q.wants \in BOOLEAN
<1>1. Blank \in Asks /\ Blank.key = NoKey /\ Blank.wants = FALSE /\ Query \subseteq Asks
  BY DEF Blank, Asks
<1>2. \A q \in Query : q.wants \in BOOLEAN
  BY DEF Query
<1> QED  BY <1>1, <1>2 DEF Asks

(* Nobody asks for anything yet, or after a crash.                         *)
LEMMA AllQuiet ==
  ASSUME at = [r \in Requests |-> "idle"], req = [r \in Requests |-> Blank],
         reply = 0, work = [r \in Requests |-> "none"], queue = <<>>,
         sent = [r \in Requests |-> <<>>], todo = [r \in Requests |-> <<>>]
  PROVE  ChatInv
<1>1. AskTypeOK
  BY BlankType DEF AskTypeOK, Doors, Replies
<1>2. QueueInv /\ DownIdle
  BY DEF QueueInv, DownIdle
<1>3. ASSUME NEW r \in Requests
      PROVE  RunFor(r) /\ StreamInv(r)
  BY BlankType DEF RunFor, StreamInv
<1> QED  BY <1>1, <1>2, <1>3 DEF ChatInv

(* A request that a step does not touch is as good as before.              *)
LEMMA Untouched ==
  ASSUME NEW s \in Requests, RunFor(s), StreamInv(s),
         at'[s] = at[s], req'[s] = req[s], work'[s] = work[s],
         sent'[s] = sent[s], todo'[s] = todo[s]
  PROVE  RunFor(s)' /\ StreamInv(s)'
BY DEF RunFor, StreamInv, Continues, SaysAll, Said, Sends, LastSent

(* A step of one request before or after its stream.                       *)
LEMMA DoorKeeps ==
  ASSUME ChatInv, NEW r \in Requests, NEW x \in Doors, NEW q \in Asks,
         at[r] \in Doors, at' = [at EXCEPT ![r] = x], req' = [req EXCEPT ![r] = q],
         x = "show" => q.key \in Keys, Streaming' = Streaming,
         reply' \in Replies,
         up = "serving", up' = up
  PROVE  ChatInv'
<1>1. AskTypeOK /\ RunFor(r) /\ StreamInv(r)
  BY DEF ChatInv
<1>2. /\ at'[r] = x /\ req'[r] = q
      /\ \A s \in Requests \ {r} : at'[s] = at[s] /\ req'[s] = req[s]
      /\ work' = work /\ queue' = queue /\ sent' = sent /\ todo' = todo
  BY <1>1 DEF AskTypeOK, Streaming
<1>3. AskTypeOK'
  BY <1>1, <1>2 DEF AskTypeOK
<1>4. QueueInv' /\ DownIdle'
  BY <1>2 DEF ChatInv, QueueInv, DownIdle
<1>5. q.wants \in BOOLEAN
  BY BlankType
<1>6. RunFor(r)'
  BY <1>1, <1>2, <1>5 DEF RunFor, Doors
<1>7. StreamInv(r)'
  BY <1>2 DEF StreamInv, Doors
<1>8. \A s \in Requests \ {r} : RunFor(s)' /\ StreamInv(s)'
  BY <1>2, Untouched DEF ChatInv
<1> QED  BY <1>3, <1>4, <1>6, <1>7, <1>8 DEF ChatInv

(* An answer that is not a stream's.                                       *)
LEMMA AnswerKeeps ==
  ASSUME ChatInv, NEW r \in Requests, NEW status \in {200, 400, 401, 404},
         Answer(r, status), at[r] \in Doors, Streaming' = Streaming,
         up = "serving", up' = up
  PROVE  ChatInv'
<1>1. Blank \in Asks /\ "idle" \in Doors
  BY BlankType DEF Doors
<1>2. /\ at' = [at EXCEPT ![r] = "idle"] /\ req' = [req EXCEPT ![r] = Blank]
      /\ reply' \in Replies
  BY DEF Answer, Replies
<1>3. at[r] \in Doors /\ ("idle" = "show" => Blank.key \in Keys)
  OBVIOUS
<1> QED  BY <1>1, <1>2, <1>3, DoorKeeps DEF Doors

LEMMA HandleKeeps ==
  ASSUME ChatInv, NEW r \in Requests, Handle(r)
  PROVE  ChatInv'
<1>1. /\ AskTypeOK /\ RunFor(r) /\ DownIdle
  BY DEF ChatInv
<1>2. Blank \in Asks /\ Blank.key = NoKey /\ req[r] \in Asks /\ Queries \subseteq Asks
  BY <1>1, FrontAssumption, BlankType DEF AskTypeOK
<1>3. ASSUME NEW c \in Clients, NEW q \in Queries, Arrive(r, c, q)
      PROVE  ChatInv'
  <2>1. q \in Asks /\ up = "serving" /\ up' = up /\ at[r] \in Doors
    BY <1>2, <1>3 DEF Arrive, keyring, Doors
  <2>2. CASE at' = [at EXCEPT ![r] = "handler"] /\ req' = [req EXCEPT ![r] = q] /\ reply' = 0
    BY <1>3, <2>1, <2>2, DoorKeeps DEF Arrive, Doors, Replies
  <2>3. CASE Answer(r, 429)
    <3>1. /\ at' = [at EXCEPT ![r] = "idle"] /\ req' = [req EXCEPT ![r] = Blank]
          /\ reply' \in Replies /\ Streaming' = Streaming
      BY <1>3, <2>3 DEF Arrive, Answer, Replies
    <3>2. "idle" \in Doors /\ ("idle" = "show" => Blank.key \in Keys)
      BY DEF Doors
    <3> QED  BY <1>2, <2>1, <3>1, <3>2, DoorKeeps
  <2> QED  BY <1>3, <2>2, <2>3 DEF Arrive, Silent
<1>4. ASSUME NEW status \in {200, 400, 401, 404}, Answer(r, status), Streaming' = Streaming,
             at[r] \in Doors \ {"idle"}, up' = up
      PROVE  ChatInv'
  <2>1. up = "serving"
    BY <1>1, <1>4 DEF DownIdle
  <2> QED  BY <1>4, <2>1, AnswerKeeps
<1>5. CASE Reject(r)
  BY <1>4, <1>5 DEF Reject, keyring, Doors
<1>6. CASE Unauthorized(r)
  BY <1>4, <1>6 DEF Unauthorized, keyring, Doors
<1>7. CASE ShowKey(r)
  BY <1>4, <1>7 DEF ShowKey, Show, Doors
<1>8. CASE Authorize(r)
  <2>1. up = "serving" /\ up' = up /\ at[r] \in Doors
    BY <1>1, <1>8 DEF Authorize, Allowed, DownIdle, keyring, Doors
  <2>2. req' = [req EXCEPT ![r] = req[r]]
    BY <1>1, <1>8 DEF Authorize, AskTypeOK
  <2> QED  BY <1>2, <1>8, <2>1, <2>2, DoorKeeps DEF Authorize, Silent, Doors, Replies
<1>9. ASSUME NEW k \in Keys, CreateKey(r, k)
      PROVE  ChatInv'
  <2> DEFINE q == [req[r] EXCEPT !.key = k]
  <2>1. req[r] \in Query
    BY <1>2, <1>9 DEF CreateKey, Blank, Asks
  <2>2. q \in Query /\ q.key = k
    BY <2>1 DEF Query
  <2>3. req' = [req EXCEPT ![r] = q]
    BY <1>1, <1>9 DEF CreateKey, AskTypeOK
  <2> HIDE DEF q
  <2> QED  BY <1>9, <2>2, <2>3, BlankType, DoorKeeps DEF CreateKey, Create, Silent, Doors, Replies
<1>10. ASSUME NEW k \in Keys, RevokeKey(r, k)
       PROVE  ChatInv'
  BY <1>4, <1>10 DEF RevokeKey, Revoke, keyring, Doors
<1> QED  BY <1>3, <1>5, <1>6, <1>7, <1>8, <1>9, <1>10 DEF Handle

(* A step of a request that is being served leaves the others alone.       *)
LEMMA OneRequest ==
  ASSUME ChatInv, NEW r \in Requests, at[r] # "idle", UNCHANGED keyring,
         AskTypeOK', QueueInv', RunFor(r)', StreamInv(r)',
         \A s \in Requests \ {r} : /\ at'[s] = at[s] /\ req'[s] = req[s] /\ work'[s] = work[s]
                                  /\ sent'[s] = sent[s] /\ todo'[s] = todo[s]
  PROVE  ChatInv'
<1>1. \A s \in Requests \ {r} : RunFor(s)' /\ StreamInv(s)'
  BY Untouched DEF ChatInv
<1>2. DownIdle'
  BY DEF ChatInv, DownIdle, keyring
<1> QED  BY <1>1, <1>2 DEF ChatInv

(* The queue, when the run of a request that is not in it changes.         *)
LEMMA QueueApart ==
  ASSUME AskTypeOK, QueueInv, NEW r \in Requests, work[r] # "queued", NEW w,
         work' = [work EXCEPT ![r] = w], queue' = queue
  PROVE  QueueInv'
<1>1. \A i \in 1..Len(queue) : queue[i] \in Requests /\ queue[i] # r
  BY DEF AskTypeOK, QueueInv
<1> QED  BY <1>1 DEF AskTypeOK, QueueInv

LEMMA SubmitKeeps ==
  ASSUME AskTypeOK, QueueInv, NEW r \in Requests, work[r] = "none", Submit(r)
  PROVE  /\ QueueInv' /\ queue' \in Seq(Requests)
         /\ work' = [work EXCEPT ![r] = "queued"]
<1>1. \A i \in 1..Len(queue) : queue[i] \in Requests /\ queue[i] # r /\ work[queue[i]] = "queued"
  BY DEF AskTypeOK, QueueInv
<1>2. /\ queue' \in Seq(Requests) /\ Len(queue') = Len(queue) + 1 /\ queue'[Len(queue) + 1] = r
      /\ \A i \in 1..Len(queue) : queue'[i] = queue[i]
      /\ Len(queue) \in Nat
  BY AppendProperties DEF Submit, AskTypeOK
<1>3. work'[r] = "queued" /\ \A i \in 1..Len(queue) : work'[queue[i]] = "queued"
  BY <1>1 DEF Submit, AskTypeOK
<1>4. ASSUME NEW i \in 1..Len(queue'), NEW j \in 1..Len(queue')
      PROVE  work'[queue'[i]] = "queued" /\ (i # j => queue'[i] # queue'[j])
  <2>1. i \in 1..Len(queue) \/ i = Len(queue) + 1
    BY <1>2
  <2>2. j \in 1..Len(queue) \/ j = Len(queue) + 1
    BY <1>2
  <2> QED  BY <1>1, <1>2, <1>3, <2>1, <2>2 DEF QueueInv
<1> QED  BY <1>2, <1>4 DEF QueueInv, Submit

LEMMA PlainKeeps ==
  ASSUME ChatInv, NEW r \in Requests, Plain(r)
  PROVE  ChatInv'
<1>1. AskTypeOK /\ QueueInv /\ RunFor(r) /\ at[r] = "handler" /\ Submit(r)
  BY DEF ChatInv, Plain, Allowed
<1>2. work[r] = "none" /\ todo[r] = <<>> /\ sent[r] = <<>>
  BY <1>1 DEF RunFor, AskTypeOK
<1>3. QueueInv' /\ queue' \in Seq(Requests) /\ work' = [work EXCEPT ![r] = "queued"]
  BY <1>1, <1>2, SubmitKeeps
<1>4. /\ at' = [at EXCEPT ![r] = "plain"] /\ req' = [req EXCEPT ![r] = Blank] /\ reply' = 0
      /\ sent' = sent /\ todo' = todo /\ keyring' = keyring
  BY DEF Plain, Silent
<1>5. AskTypeOK'
  BY <1>1, <1>3, <1>4, BlankType DEF AskTypeOK, Replies
<1>6. RunFor(r)' /\ StreamInv(r)'
  BY <1>1, <1>2, <1>3, <1>4, BlankType DEF RunFor, StreamInv, AskTypeOK
<1> QED  BY <1>1, <1>3, <1>4, <1>5, <1>6, OneRequest DEF AskTypeOK

LEMMA CompleteKeeps ==
  ASSUME ChatInv, NEW r \in Requests, Complete(r)
  PROVE  ChatInv'
<1>1. AskTypeOK /\ QueueInv /\ RunFor(r) /\ at[r] = "plain" /\ work[r] \in Finished
  BY DEF ChatInv, Complete
<1>2. PICK status \in Statuses(work[r]) : Answer(r, status)
  BY DEF Complete
<1>3. /\ at' = [at EXCEPT ![r] = "idle"] /\ req' = [req EXCEPT ![r] = Blank] /\ reply' = status
      /\ work' = [work EXCEPT ![r] = "none"] /\ queue' = queue /\ sent' = sent /\ todo' = todo
      /\ keyring' = keyring
  BY <1>2 DEF Complete, Answer
<1>4. status \in Replies
  BY <1>1, <1>2 DEF Statuses, Finished, Replies
<1>5. AskTypeOK'
  BY <1>1, <1>3, <1>4, BlankType DEF AskTypeOK, Doors
<1>6. QueueInv'
  BY <1>1, <1>3, QueueApart DEF Finished
<1>7. RunFor(r)' /\ StreamInv(r)'
  BY <1>1, <1>3, BlankType DEF RunFor, StreamInv, AskTypeOK
<1> QED  BY <1>1, <1>3, <1>5, <1>6, <1>7, OneRequest DEF AskTypeOK

LEMMA StreamKeeps ==
  ASSUME ChatInv, NEW r \in Requests, Stream(r)
  PROVE  ChatInv'
<1>1. AskTypeOK /\ QueueInv /\ RunFor(r) /\ at[r] = "handler" /\ req[r].kind = "stream"
  BY DEF ChatInv, Stream, Allowed
<1>2. work[r] = "none" /\ todo[r] = <<>> /\ sent[r] = <<>>
  BY <1>1 DEF RunFor, AskTypeOK
<1> DEFINE q == [req[r] EXCEPT !.key = NoKey]
<1>3. q \in Query /\ q.wants \in BOOLEAN
  <2>1. req[r] \in Query
    BY <1>1 DEF AskTypeOK, Blank, Asks
  <2> QED  BY <2>1 DEF Query
<1>4. /\ at' = [at EXCEPT ![r] = "stream"] /\ req' = [req EXCEPT ![r] = q] /\ reply' = 0
      /\ sent' = [sent EXCEPT ![r] = <<"role">>]
      /\ work' = work /\ queue' = queue /\ todo' = todo /\ keyring' = keyring
  BY <1>1 DEF Stream, Silent, AskTypeOK
<1> HIDE DEF q
<1>5. <<"role">> \in Seq(Frames) /\ <<"role">> # <<>> /\ Len(<<"role">>) = 1 /\ <<"role">>[1] = "role"
  BY DEF Frames
<1>6. AskTypeOK'
  BY <1>1, <1>3, <1>4, <1>5, BlankType DEF AskTypeOK, Replies
<1>7. QueueInv'
  BY <1>1, <1>4 DEF QueueInv
<1>8. at'[r] = "stream" /\ req'[r] = q /\ sent'[r] = <<"role">> /\ work'[r] = "none" /\ todo'[r] = <<>>
  BY <1>1, <1>2, <1>4 DEF AskTypeOK
<1>9. RunFor(r)'
  BY <1>3, <1>5, <1>8 DEF RunFor
<1>10. StreamInv(r)'
  BY <1>5, <1>8 DEF StreamInv, Continues, LastSent, Waiting
<1> QED  BY <1>1, <1>4, <1>6, <1>7, <1>9, <1>10, OneRequest DEF AskTypeOK

LEMMA SubmitStreamKeeps ==
  ASSUME ChatInv, NEW r \in Requests, SubmitStream(r)
  PROVE  ChatInv'
<1>1. AskTypeOK /\ QueueInv /\ RunFor(r) /\ StreamInv(r) /\ at[r] = "stream" /\ work[r] = "none" /\ Submit(r)
  BY DEF ChatInv, SubmitStream
<1>2. QueueInv' /\ queue' \in Seq(Requests) /\ work' = [work EXCEPT ![r] = "queued"]
  BY <1>1, SubmitKeeps
<1>3. reply' = 0 /\ at' = at /\ req' = req /\ sent' = sent /\ todo' = todo /\ keyring' = keyring
  BY DEF SubmitStream, Silent
<1>4. AskTypeOK'
  BY <1>1, <1>2, <1>3 DEF AskTypeOK, Replies
<1>5. RunFor(r)'
  BY <1>1, <1>2, <1>3 DEF RunFor, AskTypeOK
<1>6. StreamInv(r)'
  BY <1>1, <1>2, <1>3 DEF StreamInv, Continues, SaysAll, LastSent, Finished
<1> QED  BY <1>1, <1>2, <1>3, <1>4, <1>5, <1>6, OneRequest DEF AskTypeOK

LEMMA KeepaliveKeeps ==
  ASSUME ChatInv, NEW r \in Requests, Keepalive(r)
  PROVE  ChatInv'
<1>1. /\ AskTypeOK /\ QueueInv /\ RunFor(r) /\ StreamInv(r) /\ at[r] = "stream"
      /\ LastSent(r) = "role" /\ todo[r] = <<>>
  BY DEF ChatInv, Keepalive
<1>2. /\ reply' = 0 /\ at' = at /\ req' = req /\ work' = work /\ queue' = queue /\ todo' = todo
      /\ keyring' = keyring /\ sent' = [sent EXCEPT ![r] = Append(@, "empty")]
  BY DEF Keepalive, Silent
<1>3. sent[r] \in Seq(Frames) /\ sent'[r] = Append(sent[r], "empty") /\ "empty" \in Frames
  BY <1>1, <1>2 DEF AskTypeOK, Frames
<1>4. /\ sent'[r] \in Seq(Frames) /\ Len(sent'[r]) = Len(sent[r]) + 1 /\ Len(sent[r]) \in Nat
      /\ sent'[r][Len(sent[r]) + 1] = "empty" /\ sent'[r] # <<>>
      /\ \A i \in 1..Len(sent[r]) : sent'[r][i] = sent[r][i]
  BY <1>3, AppendProperties
<1>5. AskTypeOK'
  <2>1. sent' \in [Requests -> Seq(Frames)]
    BY <1>1, <1>2, <1>4 DEF AskTypeOK
  <2> QED  BY <1>1, <1>2, <2>1 DEF AskTypeOK, Replies
<1>6. QueueInv'
  BY <1>1, <1>2 DEF QueueInv
<1>7. RunFor(r)'
  BY <1>1, <1>2, <1>4 DEF RunFor
<1>8. \A i \in 1..Len(sent[r]) : sent[r][i] \in Waiting
  BY <1>1 DEF StreamInv, Waiting
<1>9. \A i \in 1..Len(sent'[r]) : sent'[r][i] \in Waiting
  <2> TAKE i \in 1..Len(sent'[r])
  <2>1. i \in 1..Len(sent[r]) \/ i = Len(sent[r]) + 1
    BY <1>4
  <2> QED  BY <1>4, <1>8, <2>1 DEF Waiting
<1>10. LastSent(r)' = "empty"
  BY <1>4 DEF LastSent
<1>11. StreamInv(r)'
  BY <1>1, <1>2, <1>9, <1>10 DEF StreamInv, Continues, Waiting
<1> QED  BY <1>1, <1>2, <1>5, <1>6, <1>7, <1>11, OneRequest DEF AskTypeOK

LEMMA EndRunKeeps ==
  ASSUME ChatInv, NEW r \in Requests, NEW result \in Finished, EndRun(r, result)
  PROVE  ChatInv'
<1>1. AskTypeOK /\ QueueInv /\ RunFor(r) /\ StreamInv(r) /\ work[r] = "running"
  BY DEF ChatInv, EndRun
<1>2. /\ reply' = 0 /\ req' = req /\ queue' = queue /\ sent' = sent /\ todo' = todo
      /\ keyring' = keyring
  BY DEF EndRun, Silent
<1>3. at[r] # "idle"
  BY <1>1 DEF RunFor
<1>4. CASE at[r] = "gone"
  <2>1. work' = [work EXCEPT ![r] = "none"] /\ at' = [at EXCEPT ![r] = "idle"]
    BY <1>4 DEF EndRun
  <2>2. AskTypeOK'
    BY <1>1, <1>2, <2>1 DEF AskTypeOK, Replies, Doors
  <2>3. QueueInv'
    BY <1>1, <1>2, <2>1, QueueApart
  <2>4. RunFor(r)' /\ StreamInv(r)'
    BY <1>1, <1>2, <1>4, <2>1 DEF RunFor, StreamInv, AskTypeOK
  <2> QED  BY <1>1, <1>2, <1>3, <2>1, <2>2, <2>3, <2>4, OneRequest DEF AskTypeOK
<1>5. CASE at[r] # "gone"
  <2>1. work' = [work EXCEPT ![r] = result] /\ at' = at
    BY <1>5 DEF EndRun
  <2>2. AskTypeOK'
    BY <1>1, <1>2, <2>1 DEF AskTypeOK, Replies
  <2>3. QueueInv'
    BY <1>1, <1>2, <2>1, QueueApart
  <2>4. RunFor(r)'
    BY <1>1, <1>2, <1>5, <2>1 DEF RunFor, AskTypeOK
  <2>5. StreamInv(r)'
    BY <1>1, <1>2, <2>1 DEF StreamInv, Continues, SaysAll, LastSent, Finished
  <2> QED  BY <1>1, <1>2, <1>3, <2>1, <2>2, <2>3, <2>4, <2>5, OneRequest DEF AskTypeOK
<1> QED  BY <1>4, <1>5

LEMMA HangKeeps ==
  ASSUME ChatInv, NEW r \in Requests, Hang(r)
  PROVE  ChatInv'
<1>1. AskTypeOK /\ QueueInv /\ RunFor(r) /\ StreamInv(r) /\ work[r] = "running"
  BY DEF ChatInv, Hang
<1>2. /\ reply' = 0 /\ at' = at /\ req' = req /\ queue' = queue /\ sent' = sent /\ todo' = todo
      /\ keyring' = keyring /\ work' = [work EXCEPT ![r] = "hung"]
  BY DEF Hang, Silent
<1>3. at[r] # "idle"
  BY <1>1 DEF RunFor
<1>4. AskTypeOK'
  BY <1>1, <1>2 DEF AskTypeOK, Replies
<1>5. QueueInv'
  BY <1>1, <1>2, QueueApart
<1>6. RunFor(r)'
  BY <1>1, <1>2 DEF RunFor, AskTypeOK
<1>7. StreamInv(r)'
  BY <1>1, <1>2 DEF StreamInv, Continues, SaysAll, LastSent, Finished
<1> QED  BY <1>1, <1>2, <1>3, <1>4, <1>5, <1>6, <1>7, OneRequest DEF AskTypeOK

(* What Notice puts into todo is a proper end of a stream that waits.      *)
LEMMA NoticeKeeps ==
  ASSUME ChatInv, NEW r \in Requests, NEW n \in 0..MaxPieces, Notice(r, n)
  PROVE  ChatInv'
<1>1. /\ AskTypeOK /\ QueueInv /\ RunFor(r) /\ StreamInv(r) /\ at[r] = "stream"
      /\ work[r] \in Finished /\ LastSent(r) \in Waiting /\ todo[r] = <<>>
      /\ (n = 0) <=> work[r] \in {"blank", "nothing"}
  BY DEF ChatInv, Notice, Waiting
<1>2. /\ reply' = 0 /\ at' = at /\ req' = req /\ work' = work /\ queue' = queue /\ sent' = sent
      /\ keyring' = keyring /\ todo' = [todo EXCEPT ![r] = Closing(r, n)]
  BY DEF Notice, Silent
<1>3. n \in Nat /\ req[r].wants \in BOOLEAN
  BY <1>1, FrontAssumption DEF RunFor
<1> DEFINE S == Sends(r)
           N == n + 2 + (IF S THEN 1 ELSE 0)
           C == Closing(r, n)
<1>4. C \in Seq(Frames) /\ Len(C) = N /\ \A i \in 1..N : C[i] = FrameAt(n, S, i)
  BY <1>3, ClosingFrames
<1>5. S \in BOOLEAN /\ (S => req[r].wants)
  BY <1>3 DEF Sends
<1>6. todo'[r] = C /\ (\A s \in Requests \ {r} : todo'[s] = todo[s])
  BY <1>1, <1>2 DEF AskTypeOK
<1>7. LastSent(r)' = LastSent(r) /\ Sends(r)' = S
  BY <1>2 DEF LastSent, Sends
<1> HIDE DEF C, S
<1>8. N \in Nat /\ N >= 2
  BY <1>3, <1>5
<1>9. AskTypeOK'
  BY <1>1, <1>2, <1>4, <1>6 DEF AskTypeOK, Replies
<1>10. QueueInv'
  BY <1>1, <1>2 DEF QueueInv
<1>11. RunFor(r)'
  BY <1>1, <1>2 DEF RunFor
<1>12. Continues(r)'
  <2>1. C[1] \in Protocol!Follows(LastSent(r))
    <3>1. C[1] = FrameAt(n, S, 1)
      BY <1>4, <1>8
    <3>2. C[1] \in {"content", "stop"}
      BY <1>3, <3>1 DEF FrameAt
    <3> QED  BY <1>1, <3>2 DEF Waiting, Protocol!Follows
  <2>2. ASSUME NEW i \in 1..N, i + 1 <= N
        PROVE  C[i + 1] \in Protocol!Follows(C[i])
    <3>1. C[i] = FrameAt(n, S, i) /\ C[i + 1] = FrameAt(n, S, i + 1)
      BY <1>4, <1>8, <2>2
    <3>2. CASE i <= n
      <4>1. C[i] = "content" /\ C[i + 1] \in {"content", "stop"}
        BY <1>3, <3>1, <3>2 DEF FrameAt
      <4> QED  BY <4>1 DEF Protocol!Follows
    <3>3. CASE i = n + 1
      <4>1. C[i] = "stop" /\ C[i + 1] \in {"usage", "done"}
        BY <1>3, <3>1, <3>3 DEF FrameAt
      <4> QED  BY <4>1 DEF Protocol!Follows
    <3>4. CASE i = n + 2
      <4>1. S
        BY <1>3, <1>5, <2>2, <3>4
      <4>2. C[i] = "usage" /\ C[i + 1] = "done"
        BY <1>3, <3>1, <3>4, <4>1 DEF FrameAt
      <4> QED  BY <4>2 DEF Protocol!Follows
    <3> QED  BY <1>3, <1>5, <2>2, <3>2, <3>3, <3>4
  <2>3. ASSUME NEW i \in 1..N
        PROVE  C[i] \notin Waiting /\ (C[i] = "usage" => req[r].wants)
    BY <1>4, <1>5 DEF FrameAt, Waiting
  <2> QED  BY <1>2, <1>4, <1>6, <1>7, <2>1, <2>2, <2>3 DEF Continues
<1>13. SaysAll(r)'
  <2>1. \A i \in 1..Len(sent[r]) : sent[r][i] \in Waiting
    BY <1>1 DEF StreamInv
  <2>2. Said(r, "content")' <=> n # 0
    <3>1. (\E i \in 1..N : C[i] = "content") <=> n # 0
      <4>1. n # 0 => C[1] = "content" /\ 1 \in 1..N
        BY <1>3, <1>4, <1>8 DEF FrameAt
      <4>2. n = 0 => \A i \in 1..N : C[i] # "content"
        BY <1>4 DEF FrameAt
      <4> QED  BY <4>1, <4>2
    <3> QED  BY <1>2, <1>4, <1>6, <2>1, <3>1 DEF Said, Waiting
  <2>3. Said(r, "usage")' <=> S
    <3>1. (\E i \in 1..N : C[i] = "usage") <=> S
      <4>1. S => C[n + 2] = "usage" /\ n + 2 \in 1..N
        BY <1>3, <1>4, <1>8 DEF FrameAt
      <4>2. ~S => \A i \in 1..N : C[i] # "usage"
        BY <1>4 DEF FrameAt
      <4> QED  BY <1>5, <4>1, <4>2
    <3> QED  BY <1>2, <1>4, <1>6, <2>1, <3>1 DEF Said, Waiting
  <2> QED  BY <1>1, <1>2, <1>7, <2>2, <2>3 DEF SaysAll, Finished
<1>14. todo'[r] # <<>>
  BY <1>4, <1>6, <1>8
<1>15. StreamInv(r)'
  BY <1>12, <1>13, <1>14 DEF StreamInv
<1> QED  BY <1>1, <1>2, <1>6, <1>9, <1>10, <1>11, <1>15, OneRequest

(* The first frame to send goes from what is left to what is sent.         *)
LEMMA SendFrameKeeps ==
  ASSUME ChatInv, NEW r \in Requests, SendFrame(r)
  PROVE  ChatInv'
<1>1. /\ AskTypeOK /\ QueueInv /\ RunFor(r) /\ Continues(r) /\ SaysAll(r)
      /\ at[r] = "stream" /\ todo[r] # <<>>
  BY DEF ChatInv, StreamInv, SendFrame
<1>2. /\ reply' = 0 /\ at' = at /\ req' = req /\ work' = work /\ queue' = queue
      /\ keyring' = keyring
      /\ sent' = [sent EXCEPT ![r] = Append(@, Head(todo[r]))]
      /\ todo' = [todo EXCEPT ![r] = Tail(@)]
  BY DEF SendFrame, Silent
<1> DEFINE S == sent[r]
           T == todo[r]
<1>3. S \in Seq(Frames) /\ T \in Seq(Frames) /\ Len(S) \in Nat /\ Len(T) \in Nat /\ Len(T) >= 1
  BY <1>1 DEF AskTypeOK
<1>4. /\ sent'[r] = Append(S, T[1]) /\ todo'[r] = Tail(T) /\ T[1] \in Frames
      /\ \A s \in Requests \ {r} : sent'[s] = sent[s] /\ todo'[s] = todo[s]
  BY <1>1, <1>2, <1>3 DEF AskTypeOK
<1> HIDE DEF S, T
<1>5. /\ sent'[r] \in Seq(Frames) /\ Len(sent'[r]) = Len(S) + 1 /\ sent'[r] # <<>>
      /\ sent'[r][Len(S) + 1] = T[1] /\ \A i \in 1..Len(S) : sent'[r][i] = S[i]
  BY <1>3, <1>4, AppendProperties
<1>6. /\ todo'[r] \in Seq(Frames) /\ Len(todo'[r]) = Len(T) - 1
      /\ \A i \in 1..(Len(T) - 1) : todo'[r][i] = T[i + 1]
  <2>1. T # <<>>
    BY <1>1 DEF T
  <2> QED  BY <1>3, <1>4, <2>1, HeadTailProperties
<1>7. AskTypeOK'
  BY <1>1, <1>2, <1>5, <1>6 DEF AskTypeOK, Replies
<1>8. QueueInv'
  BY <1>1, <1>2 DEF QueueInv
<1>9. RunFor(r)'
  BY <1>1, <1>2, <1>5 DEF RunFor
<1>10. LastSent(r)' = T[1]
  BY <1>5 DEF LastSent
<1>11. /\ \A i \in 1..Len(T) : i + 1 <= Len(T) => T[i + 1] \in Protocol!Follows(T[i])
       /\ \A i \in 1..Len(T) : T[i] \notin Waiting /\ (T[i] = "usage" => req[r].wants)
  BY <1>1 DEF Continues, T
<1>12. Continues(r)'
  <2>1. todo'[r] # <<>> => todo'[r][1] \in Protocol!Follows(T[1])
    <3> SUFFICES ASSUME todo'[r] # <<>>  PROVE todo'[r][1] \in Protocol!Follows(T[1])
      OBVIOUS
    <3>1. Len(T) >= 2
      BY <1>3, <1>6
    <3>2. todo'[r][1] = T[2] /\ 1 \in 1..Len(T) /\ 1 + 1 <= Len(T)
      BY <1>3, <1>6, <3>1
    <3>3. T[1 + 1] \in Protocol!Follows(T[1])
      BY <1>11, <3>2
    <3> QED  BY <3>2, <3>3
  <2>2. ASSUME NEW i \in 1..Len(todo'[r]), i + 1 <= Len(todo'[r])
        PROVE  todo'[r][i + 1] \in Protocol!Follows(todo'[r][i])
    <3>1. i + 1 \in 1..Len(T) /\ (i + 1) + 1 <= Len(T)
      BY <1>3, <1>6, <2>2
    <3>2. i \in 1..(Len(T) - 1) /\ i + 1 \in 1..(Len(T) - 1)
      BY <1>3, <1>6, <2>2
    <3>3. todo'[r][i] = T[i + 1] /\ todo'[r][i + 1] = T[(i + 1) + 1]
      BY <1>6, <3>2
    <3> QED  BY <1>11, <3>1, <3>3
  <2>3. ASSUME NEW i \in 1..Len(todo'[r])
        PROVE  todo'[r][i] \notin Waiting /\ (todo'[r][i] = "usage" => req[r].wants)
    <3>1. i + 1 \in 1..Len(T) /\ todo'[r][i] = T[i + 1]
      BY <1>3, <1>6
    <3> QED  BY <1>11, <3>1
  <2> QED  BY <1>2, <1>10, <2>1, <2>2, <2>3 DEF Continues
<1>13. \A f : Said(r, f)' <=> Said(r, f)
  <2> TAKE f
  <2>1. ASSUME Said(r, f)  PROVE Said(r, f)'
    <3>1. CASE \E i \in 1..Len(S) : S[i] = f
      <4>1. PICK i \in 1..Len(S) : S[i] = f
        BY <3>1
      <4>2. i \in 1..Len(sent'[r]) /\ sent'[r][i] = f
        BY <1>3, <1>5, <4>1
      <4> QED  BY <4>2 DEF Said
    <3>2. CASE \E i \in 1..Len(T) : T[i] = f
      <4>1. PICK i \in 1..Len(T) : T[i] = f
        BY <3>2
      <4>2. CASE i = 1
        <5>1. Len(S) + 1 \in 1..Len(sent'[r]) /\ sent'[r][Len(S) + 1] = f
          BY <1>3, <1>5, <4>1, <4>2
        <5> QED  BY <5>1 DEF Said
      <4>3. CASE i # 1
        <5>1. PICK j \in Int : j = i - 1
          BY <1>3
        <5>2. j \in 1..(Len(T) - 1) /\ j + 1 = i
          BY <1>3, <4>3, <5>1
        <5>3. j \in 1..Len(todo'[r]) /\ todo'[r][j] = f
          BY <1>6, <4>1, <5>2
        <5> QED  BY <5>3 DEF Said
      <4> QED  BY <4>2, <4>3
    <3> QED  BY <2>1, <3>1, <3>2 DEF Said, S, T
  <2>2. ASSUME Said(r, f)'  PROVE Said(r, f)
    <3>1. CASE \E i \in 1..Len(sent'[r]) : sent'[r][i] = f
      <4>1. PICK i \in 1..Len(sent'[r]) : sent'[r][i] = f
        BY <3>1
      <4>2. (i \in 1..Len(S) /\ S[i] = f) \/ (T[1] = f /\ 1 \in 1..Len(T))
        BY <1>3, <1>5, <4>1
      <4> QED  BY <4>2 DEF Said, S, T
    <3>2. CASE \E i \in 1..Len(todo'[r]) : todo'[r][i] = f
      <4>1. PICK i \in 1..Len(todo'[r]) : todo'[r][i] = f
        BY <3>2
      <4>2. i + 1 \in 1..Len(T) /\ T[i + 1] = f
        BY <1>3, <1>6, <4>1
      <4> QED  BY <4>2 DEF Said, T
    <3> QED  BY <2>2, <3>1, <3>2 DEF Said
  <2> QED  BY <2>1, <2>2
<1>14. SaysAll(r)'
  BY <1>1, <1>2, <1>13 DEF SaysAll, Sends
<1>15. LastSent(r)' \notin Waiting
  BY <1>3, <1>10, <1>11
<1>16. StreamInv(r)'
  BY <1>12, <1>14, <1>15 DEF StreamInv
<1> QED  BY <1>1, <1>2, <1>4, <1>7, <1>8, <1>9, <1>16, OneRequest

LEMMA HangupKeeps ==
  ASSUME ChatInv, NEW r \in Requests, at[r] = "stream", Hangup(r)
  PROVE  ChatInv'
<1>1. AskTypeOK /\ QueueInv /\ RunFor(r)
  BY DEF ChatInv
<1>2. /\ reply' = 0 /\ queue' = queue /\ keyring' = keyring /\ req' = [req EXCEPT ![r] = Blank]
      /\ sent' = [sent EXCEPT ![r] = <<>>] /\ todo' = [todo EXCEPT ![r] = <<>>]
  BY DEF Hangup, Silent
<1>3. CASE work[r] \in {"queued", "running", "hung"}
  <2>1. at' = [at EXCEPT ![r] = "gone"] /\ work' = work
    BY <1>3 DEF Hangup
  <2>2. AskTypeOK'
    BY <1>1, <1>2, <2>1, BlankType DEF AskTypeOK, Replies
  <2>3. QueueInv'
    BY <1>1, <1>2, <2>1 DEF QueueInv
  <2>4. RunFor(r)' /\ StreamInv(r)'
    BY <1>1, <1>2, <1>3, <2>1, BlankType DEF RunFor, StreamInv, AskTypeOK
  <2> QED  BY <1>1, <1>2, <2>1, <2>2, <2>3, <2>4, OneRequest DEF AskTypeOK
<1>4. CASE work[r] \notin {"queued", "running", "hung"}
  <2>1. at' = [at EXCEPT ![r] = "idle"] /\ work' = [work EXCEPT ![r] = "none"]
    BY <1>4 DEF Hangup
  <2>2. AskTypeOK'
    BY <1>1, <1>2, <2>1, BlankType DEF AskTypeOK, Replies, Doors
  <2>3. QueueInv'
    BY <1>1, <1>2, <1>4, <2>1, QueueApart
  <2>4. RunFor(r)' /\ StreamInv(r)'
    BY <1>1, <1>2, <1>4, <2>1, BlankType DEF RunFor, StreamInv, AskTypeOK
  <2> QED  BY <1>1, <1>2, <2>1, <2>2, <2>3, <2>4, OneRequest DEF AskTypeOK
<1> QED  BY <1>3, <1>4

LEMMA BeginRunKeeps ==
  ASSUME ChatInv, BeginRun
  PROVE  ChatInv'
<1>1. AskTypeOK /\ QueueInv /\ queue # <<>>
  BY DEF ChatInv, BeginRun
<1>2. PICK r \in Requests : r = queue[1] /\ Head(queue) = r
  BY <1>1 DEF AskTypeOK
<1>3. /\ queue' = Tail(queue) /\ work' = [work EXCEPT ![r] = "running"] /\ reply' = 0
      /\ at' = at /\ req' = req /\ sent' = sent /\ todo' = todo /\ keyring' = keyring
  BY <1>2 DEF BeginRun, Silent
<1>4. /\ queue' \in Seq(Requests) /\ Len(queue') = Len(queue) - 1 /\ Len(queue) \in Nat \ {0}
      /\ \A i \in 1..(Len(queue) - 1) : queue'[i] = queue[i + 1]
  BY <1>1, <1>3, HeadTailProperties DEF AskTypeOK
<1>5. work[r] = "queued"
  BY <1>1, <1>2, <1>4 DEF QueueInv
<1>6. RunFor(r) /\ StreamInv(r) /\ at[r] # "idle"
  BY <1>5 DEF ChatInv, RunFor
<1>7. AskTypeOK'
  BY <1>1, <1>3, <1>4 DEF AskTypeOK, Replies
<1>8. QueueInv'
  <2> SUFFICES ASSUME NEW i \in 1..Len(queue'), NEW j \in 1..Len(queue')
               PROVE  work'[queue'[i]] = "queued" /\ (i # j => queue'[i] # queue'[j])
    BY DEF QueueInv
  <2>1. /\ i + 1 \in 1..Len(queue) /\ j + 1 \in 1..Len(queue) /\ 1 \in 1..Len(queue)
        /\ queue'[i] = queue[i + 1] /\ queue'[j] = queue[j + 1] /\ i + 1 # 1
        /\ (i # j => i + 1 # j + 1)
    BY <1>4
  <2>2. work[queue[i + 1]] = "queued" /\ queue[i + 1] # queue[1]
    BY <1>1, <2>1 DEF QueueInv
  <2>n. queue[i + 1] \in Requests
    BY <1>1, <2>1 DEF AskTypeOK
  <2>3. i # j => queue[i + 1] # queue[j + 1]
    BY <1>1, <2>1 DEF QueueInv
  <2> QED  BY <1>1, <1>2, <1>3, <2>1, <2>2, <2>n, <2>3 DEF AskTypeOK
<1>9. RunFor(r)'
  BY <1>1, <1>3, <1>5, <1>6 DEF RunFor, AskTypeOK
<1>10. StreamInv(r)'
  BY <1>1, <1>3, <1>5, <1>6 DEF StreamInv, Continues, SaysAll, LastSent, Finished
<1> QED  BY <1>1, <1>3, <1>6, <1>7, <1>8, <1>9, <1>10, OneRequest DEF AskTypeOK

LEMMA ChatKeeps ==
  ASSUME ChatInv, NEW r \in Requests, Chat(r)
  PROVE  ChatInv'
<1>1. CASE Plain(r) \/ Complete(r) \/ Stream(r) \/ SubmitStream(r) \/ Keepalive(r)
  BY <1>1, PlainKeeps, CompleteKeeps, StreamKeeps, SubmitStreamKeeps, KeepaliveKeeps
<1>2. CASE Hang(r) \/ \E result \in Finished : EndRun(r, result)
  BY <1>2, HangKeeps, EndRunKeeps
<1>3. CASE \E n \in 0..MaxPieces : Notice(r, n)
  BY <1>3, NoticeKeeps
<1>4. CASE SendFrame(r) \/ EndStream(r) \/ Leave(r)
  BY <1>4, SendFrameKeeps, HangupKeeps DEF EndStream, Leave
<1> QED  BY <1>1, <1>2, <1>3, <1>4 DEF Chat

(* The steps in which nobody's request moves.                              *)
LEMMA NobodyMoves ==
  ASSUME ChatInv, UNCHANGED asking, reply' \in Replies, up' = up \/ up # "serving"
  PROVE  ChatInv'
<1>1. AskTypeOK' /\ QueueInv'
  BY DEF ChatInv, AskTypeOK, QueueInv, asking
<1>2. \A r \in Requests : RunFor(r)' /\ StreamInv(r)'
  BY Untouched DEF ChatInv, asking
<1>3. DownIdle'
  BY DEF ChatInv, DownIdle, asking
<1> QED  BY <1>1, <1>2, <1>3 DEF ChatInv

LEMMA ChatInitial == Init => ChatInv
BY AllQuiet DEF Init

LEMMA ChatStep == ChatInv /\ [Next]_vars => ChatInv'
<1> SUFFICES ASSUME ChatInv, [Next]_vars  PROVE ChatInv'
  OBVIOUS
<1>1. CASE UNCHANGED vars
  <2>1. reply' \in Replies
    BY <1>1 DEF vars, ChatInv, AskTypeOK
  <2> QED  BY <1>1, <2>1, NobodyMoves DEF vars, keyring
<1>2. ASSUME NEW e \in EnvKeys \union {NoKey, BadKey}, Serve(e)
      PROVE  ChatInv'
  BY <1>2, NobodyMoves DEF Serve, Start, Silent, Replies
<1>3. CASE Boot
  BY <1>3, NobodyMoves DEF Boot, Booting, Import, Keep, WriteKey, BootFails, Mint, Silent, Replies
<1>4. CASE Pass
  BY <1>4, NobodyMoves DEF Pass, Silent, Replies, keyring
<1>5. CASE Crash
  <2>1. /\ (at = [r \in Requests |-> "idle"])' /\ (req = [r \in Requests |-> Blank])'
        /\ (reply = 0)' /\ (work = [r \in Requests |-> "none"])' /\ (queue = <<>>)'
        /\ (sent = [r \in Requests |-> <<>>])' /\ (todo = [r \in Requests |-> <<>>])'
    BY <1>5 DEF Crash
  <2>2. AskTypeOK'
    BY <2>1, BlankType DEF AskTypeOK, Doors, Replies
  <2>3. QueueInv' /\ DownIdle'
    BY <2>1 DEF QueueInv, DownIdle
  <2>4. \A r \in Requests : RunFor(r)' /\ StreamInv(r)'
    BY <2>1, BlankType DEF RunFor, StreamInv
  <2> QED  BY <2>2, <2>3, <2>4 DEF ChatInv
<1>6. CASE BeginRun
  BY <1>6, BeginRunKeeps
<1>7. ASSUME NEW r \in Requests, Handle(r) \/ Chat(r)
      PROVE  ChatInv'
  BY <1>7, HandleKeeps, ChatKeeps
<1> QED  BY <1>1, <1>2, <1>3, <1>4, <1>5, <1>6, <1>7 DEF Next

-----------------------------------------------------------------------------
(* The keys *)

Unshown == {req[r].key : r \in {s \in Requests : at[s] = "show"}}

KeyNext ==
  \/ UNCHANGED keyring
  \/ \E e \in EnvKeys \union {NoKey, BadKey} : Start(e)
  \/ Booting \/ Die(Unshown)
  \/ \E k \in Keys : Create(k) \/ Show(k) \/ Revoke(k)

BeingShown(k) == \E r \in Requests : at[r] = "show" /\ req[r].key = k

(* Every good key has been shown to somebody, or is on its way, or its     *)
(* text was lost.                                                          *)
KeyInv ==
  /\ KeysTypeOK
  /\ up = "minted" => fresh \in Keys /\ db[fresh] = "active"
  /\ \A k \in Active : \/ k \in known \union lost \/ (up = "minted" /\ k = fresh)
                      \/ BeingShown(k)

(* Where the keys and the limiter are touched.                             *)
LEMMA Touches ==
  ASSUME ChatInv, [Next]_vars
  PROVE  RateNext /\ KeyNext
<1>1. CASE UNCHANGED vars
  BY <1>1 DEF vars, RateNext, KeyNext
<1>2. ASSUME NEW e \in EnvKeys \union {NoKey, BadKey}, Serve(e)
      PROVE  RateNext /\ KeyNext
  BY <1>2 DEF Serve, RateNext, KeyNext
<1>3. CASE Boot \/ Pass \/ Crash \/ BeginRun
  BY <1>3 DEF Boot, Pass, Crash, BeginRun, RateNext, KeyNext, Unshown
<1>4. ASSUME NEW r \in Requests, Handle(r)
      PROVE  RateNext /\ KeyNext
  <2>1. ASSUME NEW c \in Clients, NEW q \in Queries, Arrive(r, c, q)
        PROVE  RateNext /\ KeyNext
    BY <2>1 DEF Arrive, RateNext, KeyNext
  <2>2. CASE Reject(r) \/ Unauthorized(r) \/ Authorize(r)
    BY <2>2 DEF Reject, Unauthorized, Authorize, RateNext, KeyNext
  <2>3. CASE ShowKey(r)
    <3>1. req[r].key \in Keys
      BY <2>3 DEF ShowKey, ChatInv, RunFor
    <3> QED  BY <2>3, <3>1 DEF ShowKey, RateNext, KeyNext
  <2>4. ASSUME NEW k \in Keys, CreateKey(r, k) \/ RevokeKey(r, k)
        PROVE  RateNext /\ KeyNext
    BY <2>4 DEF CreateKey, RevokeKey, RateNext, KeyNext
  <2> QED  BY <1>4, <2>1, <2>2, <2>3, <2>4 DEF Handle
<1>5. ASSUME NEW r \in Requests, Chat(r)
      PROVE  RateNext /\ KeyNext
  <2>1. UNCHANGED limiter /\ UNCHANGED keyring
    BY <1>5 DEF Chat, Plain, Complete, Stream, SubmitStream, Keepalive, Hang, EndRun, Notice,
                SendFrame, EndStream, Leave, Hangup
  <2> QED  BY <2>1 DEF RateNext, KeyNext
<1> QED  BY <1>1, <1>2, <1>3, <1>4, <1>5 DEF Next

LEMMA KeysTyped ==
  ASSUME ChatInv, KeyInv, KeyNext
  PROVE  KeysTypeOK'
<1> USE DEF KeyInv
<1>1. CASE UNCHANGED keyring
  BY <1>1 DEF keyring, told, KeysTypeOK
<1>2. ASSUME NEW e \in EnvKeys \union {NoKey, BadKey}, Start(e)
      PROVE  KeysTypeOK'
  BY <1>2 DEF Start, told, KeysTypeOK
<1>3. CASE Import
  <2>1. db' \in [Keys -> {"absent", "active", "revoked"}] /\ known' \subseteq Keys
    BY <1>3 DEF Import, KeysTypeOK
  <2> QED  BY <1>3, <2>1 DEF Import, Started, KeysTypeOK
<1>4. CASE Keep \/ BootFails
  BY <1>4 DEF Keep, BootFails, Started, told, KeysTypeOK
<1>5. CASE WriteKey
  <2>1. known' \subseteq Keys /\ lost' \subseteq Keys
    BY <1>5 DEF WriteKey, Told, KeysTypeOK
  <2> QED  BY <1>5, <2>1 DEF WriteKey, Started, KeysTypeOK
<1>6. ASSUME NEW k \in Keys, Mint(k)
      PROVE  KeysTypeOK'
  BY <1>6 DEF Mint, Insert, told, KeysTypeOK
<1>7. CASE Die(Unshown)
  <2>1. Unshown \subseteq Keys
    BY DEF Unshown, ChatInv, RunFor
  <2>2. lost' \subseteq Keys
    BY <1>7, <2>1 DEF Die, KeysTypeOK
  <2> QED  BY <1>7, <2>2 DEF Die, KeysTypeOK
<1>8. ASSUME NEW k \in Keys, Create(k) \/ Show(k) \/ Revoke(k)
      PROVE  KeysTypeOK'
  BY <1>8 DEF Create, Insert, Show, Told, Revoke, told, KeysTypeOK
<1> QED  BY <1>1, <1>2, <1>3, <1>4, <1>5, <1>6, <1>7, <1>8 DEF KeyNext, Booting

(* A key that is on its way gets there, or is lost, or stays on its way.   *)
LEMMA ShownKept ==
  ASSUME ChatInv, [Next]_vars, NEW k \in Keys, BeingShown(k)
  PROVE  BeingShown(k)' \/ k \in known' \union lost'
<1>1. PICK s \in Requests : at[s] = "show" /\ req[s].key = k
  BY DEF BeingShown
<1>2. AskTypeOK
  BY DEF ChatInv
<1>n. (at'[s] = "show" /\ req'[s].key = k) => BeingShown(k)'
  BY DEF BeingShown
<1>3. CASE UNCHANGED vars
  BY <1>1, <1>3, <1>n DEF vars, asking
<1>4. ASSUME NEW e \in EnvKeys \union {NoKey, BadKey}, Serve(e)
      PROVE  BeingShown(k)'
  BY <1>1, <1>4, <1>n DEF Serve, asking
<1>5. CASE Boot \/ Pass \/ BeginRun
  BY <1>1, <1>5, <1>n DEF Boot, Pass, BeginRun, asking
<1>6. CASE Crash
  <2>1. k \in {req[r].key : r \in {q \in Requests : at[q] = "show"}}
    BY <1>1
  <2> QED  BY <1>6, <2>1 DEF Crash, Die
<1>7. ASSUME NEW r \in Requests, Handle(r)
      PROVE  BeingShown(k)' \/ k \in known' \union lost'
  <2>1. ASSUME NEW c \in Clients, NEW q \in Queries, Arrive(r, c, q)
        PROVE  BeingShown(k)'
    <3>1. r # s
      BY <1>1, <2>1 DEF Arrive
    <3>2. at'[s] = at[s] /\ req'[s] = req[s]
      BY <1>2, <2>1, <3>1 DEF Arrive, Answer, AskTypeOK
    <3> QED  BY <1>1, <1>n, <3>2
  <2>2. CASE Reject(r) \/ Unauthorized(r) \/ Authorize(r)
    BY <1>1, <1>2, <1>n, <2>2 DEF Reject, Unauthorized, Authorize, Allowed, Answer, AskTypeOK
  <2>3. CASE ShowKey(r)
    BY <1>1, <1>2, <1>n, <2>3 DEF ShowKey, Show, Told, Answer, AskTypeOK
  <2>4. ASSUME NEW d \in Keys, CreateKey(r, d) \/ RevokeKey(r, d)
        PROVE  BeingShown(k)'
    <3>1. CASE CreateKey(r, d)
      BY <1>1, <1>2, <1>n, <3>1 DEF CreateKey, AskTypeOK
    <3>2. CASE RevokeKey(r, d)
      <4>1. r # s /\ \E status \in {200, 404} : Answer(r, status)
        BY <1>1, <3>2 DEF RevokeKey
      <4>2. at'[s] = at[s] /\ req'[s] = req[s]
        BY <1>2, <4>1 DEF Answer, AskTypeOK
      <4> QED  BY <1>1, <1>n, <4>2
    <3> QED  BY <2>4, <3>1, <3>2
  <2> QED  BY <1>7, <2>1, <2>2, <2>3, <2>4 DEF Handle
<1>8. ASSUME NEW r \in Requests, Chat(r)
      PROVE  BeingShown(k)'
  <2>1. CASE Plain(r) \/ Stream(r)
    BY <1>1, <1>2, <1>n, <2>1 DEF Plain, Stream, Allowed, AskTypeOK
  <2>2. CASE Complete(r) \/ EndStream(r) \/ Leave(r)
    BY <1>1, <1>2, <1>n, <2>2 DEF Complete, Answer, EndStream, Leave, Hangup, AskTypeOK
  <2>3. CASE \E result \in Finished : EndRun(r, result)
    BY <1>1, <1>2, <1>n, <2>3 DEF EndRun, AskTypeOK
  <2>4. CASE SubmitStream(r) \/ Keepalive(r) \/ SendFrame(r) \/ \E n \in 0..MaxPieces : Notice(r, n)
    BY <1>1, <1>n, <2>4 DEF SubmitStream, Keepalive, SendFrame, Notice
  <2>5. CASE Hang(r)
    BY <1>1, <1>n, <2>5 DEF Hang
  <2> QED  BY <1>8, <2>1, <2>2, <2>3, <2>4, <2>5 DEF Chat
<1> QED  BY <1>3, <1>4, <1>5, <1>6, <1>7, <1>8 DEF Next

LEMMA KeyInitial == Init => KeyInv
<1> SUFFICES ASSUME Init  PROVE KeyInv
  OBVIOUS
<1>1. KeysTypeOK
  BY DEF Init, KeysInit, KeysTypeOK
<1>2. up = "down" /\ Active = {}
  BY DEF Init, KeysInit, Active
<1> QED  BY <1>1, <1>2 DEF KeyInv

(* A key that is made good is shown already, is the one just minted, or is *)
(* on its way.                                                             *)
LEMMA NewKeyTold ==
  ASSUME ChatInv, KeyInv, [Next]_vars, NEW k \in Keys, db'[k] = "active", db[k] # "active"
  PROVE  k \in known' \/ (up' = "minted" /\ k = fresh') \/ BeingShown(k)'
<1>1. CASE Boot
  <2>1. CASE Import
    <3>1. k = env
      BY <2>1 DEF Import, KeyInv, KeysTypeOK
    <3> QED  BY <2>1, <3>1 DEF Import
  <2>2. ASSUME NEW d \in Keys \ EnvKeys, Mint(d)
        PROVE  up' = "minted" /\ k = fresh'
    <3>1. db' = [db EXCEPT ![d] = "active"] /\ up' = "minted" /\ fresh' = d
      BY <2>2 DEF Mint, Insert
    <3> QED  BY <3>1 DEF KeyInv, KeysTypeOK
  <2>3. CASE Keep \/ WriteKey \/ BootFails
    BY <2>3 DEF Keep, WriteKey, BootFails
  <2> QED  BY <1>1, <2>1, <2>2, <2>3 DEF Boot, Booting
<1>2. ASSUME NEW r \in Requests, Handle(r)
      PROVE  BeingShown(k)'
  <2>1. PICK d \in Keys : CreateKey(r, d) \/ RevokeKey(r, d)
    BY <1>2 DEF Handle, Arrive, Reject, Unauthorized, Authorize, ShowKey, Show, keyring
  <2>2. CASE RevokeKey(r, d)
    BY <2>2 DEF RevokeKey, Revoke, keyring, KeyInv, KeysTypeOK
  <2>3. CASE CreateKey(r, d)
    <3>1. d = k
      BY <2>3 DEF CreateKey, Create, Insert, KeyInv, KeysTypeOK
    <3>2. at'[r] = "show" /\ req[r] \in Query /\ req' = [req EXCEPT ![r].key = k]
      BY <2>3, <3>1 DEF CreateKey, ChatInv, AskTypeOK, Asks, Blank
    <3>3. req'[r].key = k
      BY <3>2 DEF ChatInv, AskTypeOK, Query
    <3> QED  BY <3>2, <3>3 DEF BeingShown
  <2> QED  BY <2>1, <2>2, <2>3
<1>3. ASSUME NEW r \in Requests, Chat(r)
      PROVE  FALSE
  <2>1. UNCHANGED keyring
    BY <1>3 DEF Chat, Plain, Complete, Stream, SubmitStream, Keepalive, Hang, EndRun, Notice,
                SendFrame, EndStream, Leave, Hangup
  <2> QED  BY <2>1 DEF keyring
<1>4. CASE UNCHANGED vars \/ Pass \/ Crash \/ BeginRun
           \/ \E e \in EnvKeys \union {NoKey, BadKey} : Serve(e)
  BY <1>4 DEF vars, Pass, Crash, Die, BeginRun, Serve, Start, keyring
<1> QED  BY <1>1, <1>2, <1>3, <1>4 DEF Next

(* What is shown stays shown, and a loss is not forgotten; a key is        *)
(* minted or written down only as the process starts.                      *)
LEMMA KeySteps ==
  ASSUME KeyInv, KeyNext
  PROVE  /\ known \subseteq known' /\ lost \subseteq lost'
         /\ up' = "minted" => fresh' \in Keys /\ db'[fresh'] = "active"
         /\ up = "minted" => fresh \in known' \union lost' \/ (up' = "minted" /\ fresh' = fresh)
<1> USE DEF KeyInv, KeysTypeOK
<1>1. CASE UNCHANGED keyring
  BY <1>1 DEF keyring, told
<1>2. ASSUME NEW e \in EnvKeys \union {NoKey, BadKey}, Start(e)
      PROVE  /\ known \subseteq known' /\ lost \subseteq lost' /\ up = "down" /\ up' = "boot"
  BY <1>2 DEF Start, told
<1>3. CASE Booting
  BY <1>3 DEF Booting, Import, Keep, WriteKey, Told, BootFails, Mint, Insert, Started, told
<1>4. CASE Die(Unshown)
  BY <1>4 DEF Die
<1>5. ASSUME NEW k \in Keys, Create(k) \/ Show(k) \/ Revoke(k)
      PROVE  /\ known \subseteq known' /\ lost \subseteq lost' /\ up = "serving" /\ up' = up
  BY <1>5 DEF Create, Show, Told, Revoke, told
<1> QED  BY <1>1, <1>2, <1>3, <1>4, <1>5 DEF KeyNext

LEMMA KeyStep == ChatInv /\ KeyInv /\ [Next]_vars => KeyInv'
<1> SUFFICES ASSUME ChatInv, KeyInv, [Next]_vars  PROVE KeyInv'
  OBVIOUS
<1>1. KeyNext
  BY Touches
<1>2. KeysTypeOK'
  BY <1>1, KeysTyped
<1>3. /\ known \subseteq known' /\ lost \subseteq lost'
      /\ up' = "minted" => fresh' \in Keys /\ db'[fresh'] = "active"
      /\ up = "minted" => fresh \in known' \union lost' \/ (up' = "minted" /\ fresh' = fresh)
  BY <1>1, KeySteps
<1>4. ASSUME NEW k \in Keys, db'[k] = "active"
      PROVE  k \in known' \union lost' \/ (up' = "minted" /\ k = fresh') \/ BeingShown(k)'
  <2>1. CASE db[k] # "active"
    BY <1>4, <2>1, NewKeyTold
  <2>2. CASE db[k] = "active"
    <3>1. k \in known \union lost \/ (up = "minted" /\ k = fresh) \/ BeingShown(k)
      BY <1>3, <1>4, <2>2 DEF KeyInv, Active
    <3>2. CASE BeingShown(k)
      BY <1>4, <3>2, ShownKept
    <3>3. CASE k \in known \union lost
      BY <1>3, <3>3
    <3>4. CASE up = "minted" /\ k = fresh
      BY <1>3, <1>4, <3>4
    <3> QED  BY <3>1, <3>2, <3>3, <3>4
  <2> QED  BY <2>1, <2>2
<1> QED  BY <1>2, <1>3, <1>4 DEF KeyInv, Active

-----------------------------------------------------------------------------
(* Theorems *)

Inv == RateInv /\ ChatInv /\ KeyInv

THEOREM Invariance == Spec => []Inv
<1>1. Init => Inv
  BY RateInitial, ChatInitial, KeyInitial DEF Init, Inv
<1>2. Inv /\ [Next]_vars => Inv'
  BY Touches, RateStep, ChatStep, KeyStep DEF Inv
<1> QED  BY <1>1, <1>2, PTL DEF Spec

(* Types.                                                                  *)
THEOREM TypeCorrect == Spec => []TypeOK
<1>1. Inv => TypeOK
  BY DEF Inv, RateInv, ChatInv, KeyInv, TypeOK, AskTypeOK, RunFor, Doors, Asks, Replies
<1> QED  BY <1>1, Invariance, PTL

(* No window of a client's history holds more than PerMinute admissions.   *)
THEOREM NoWindowTooFull == Spec => []WindowHolds
<1>1. Inv => WindowHolds
  BY DEF Inv, RateInv
<1> QED  BY <1>1, Invariance, PTL

(* A request that is refused has PerMinute admissions in its window.       *)
THEOREM RefusalsAreFair == Spec => RefusedFairly
<1>1. Inv /\ [Next]_vars =>
        [reply' = 429 => \E c \in Clients : /\ Len(log[c]) >= PerMinute
                                            /\ clock - log[c][Len(log[c]) - PerMinute + 1] <= Window]_vars
  <2> SUFFICES ASSUME Inv, Next, reply' = 429
               PROVE  \E c \in Clients : Refuse(c)
    BY RefusedWasAdmitted DEF Inv
  <2>1. ASSUME NEW r \in Requests, Handle(r)
        PROVE  \E c \in Clients : Refuse(c)
    BY <2>1 DEF Handle, Arrive, Reject, Unauthorized, Authorize, ShowKey, CreateKey, RevokeKey,
                Answer, Silent
  <2>2. ASSUME NEW r \in Requests, Chat(r)
        PROVE  FALSE
    <3>1. CASE Complete(r)
      BY <3>1 DEF Complete, Answer, Statuses, Finished
    <3>2. CASE ~Complete(r)
      BY <2>2, <3>2 DEF Chat, Plain, Stream, SubmitStream, Keepalive, Hang, EndRun, Notice,
                SendFrame, EndStream, Leave, Hangup, Silent
    <3> QED  BY <3>1, <3>2
  <2>3. ~(Boot \/ Pass \/ Crash \/ BeginRun)
    BY DEF Boot, Pass, Crash, BeginRun, Silent
  <2>4. \A e \in EnvKeys \union {NoKey, BadKey} : ~Serve(e)
    BY DEF Serve, Silent
  <2> QED  BY <2>1, <2>2, <2>3, <2>4 DEF Next
<1> QED  BY <1>1, Invariance, PTL DEF Spec, RefusedFairly

(* Once revoked, a key is never good again.                                *)
THEOREM RevocationIsFinal == Spec => RevokedForGood
<1>1. Inv /\ [Next]_vars => [\A k \in Keys : db[k] = "revoked" => db'[k] = "revoked"]_keyring
  <2> SUFFICES ASSUME Inv, [Next]_vars, NEW k \in Keys, db[k] = "revoked", ~UNCHANGED keyring
               PROVE  db'[k] = "revoked"
    OBVIOUS
  <2>1. KeyNext /\ KeysTypeOK
    BY Touches DEF Inv, KeyInv
  <2>2. ASSUME NEW e, Start(e)  PROVE db'[k] = "revoked"
    BY <2>2 DEF Start
  <2>3. CASE Import
    BY <2>1, <2>3 DEF Import, KeysTypeOK
  <2>4. CASE Keep \/ WriteKey \/ BootFails
    BY <2>4 DEF Keep, WriteKey, BootFails
  <2>5. ASSUME NEW d, Mint(d) \/ Create(d)  PROVE db'[k] = "revoked"
    BY <2>1, <2>5 DEF Mint, Create, Insert, KeysTypeOK
  <2>6. ASSUME NEW d, Show(d) \/ Revoke(d)  PROVE db'[k] = "revoked"
    BY <2>1, <2>6 DEF Show, Revoke, KeysTypeOK
  <2>7. CASE Die(Unshown)
    BY <2>7 DEF Die
  <2> QED  BY <2>1, <2>2, <2>3, <2>4, <2>5, <2>6, <2>7 DEF KeyNext, Booting
<1> QED  BY <1>1, Invariance, PTL DEF Spec, RevokedForGood

(* A bootstrap leaves a good key, and one that was shown, unless the text  *)
(* of every single good key was lost.                                      *)
THEOREM SomebodyHasAKey == Spec => KeyInHand
<1>1. Inv /\ Inv' /\ [Next]_vars =>
        [up # "serving" /\ up' = "serving" /\ env = NoKey /\ ~failed'
         => Active' # {} /\ (Active' \cap known' # {} \/ Active' \subseteq lost')]_keyring
  <2> SUFFICES ASSUME Inv, Inv', [Next]_vars, up # "serving", up' = "serving", env = NoKey, ~failed'
               PROVE  Active' # {} /\ (Active' \cap known' # {} \/ Active' \subseteq lost')
    OBVIOUS
  <2>1. KeyNext /\ KeyInv /\ KeyInv' /\ \A r \in Requests : at[r] = "idle"
    BY Touches DEF Inv, ChatInv, DownIdle
  <2>2. Booting
    BY <2>1 DEF KeyNext, keyring, Start, Die, Create, Show, Revoke
  <2>3. ~Import /\ ~BootFails /\ ~\E k \in Keys \ EnvKeys : Mint(k)
    BY DEF Import, BootFails, Mint
  <2>4. Keep \/ WriteKey
    BY <2>2, <2>3 DEF Booting
  <2>5. Active' # {}
    <3>1. CASE Keep
      BY <3>1 DEF Keep, Active
    <3>2. CASE WriteKey
      BY <2>1, <3>2 DEF WriteKey, KeyInv, Active
    <3> QED  BY <2>4, <3>1, <3>2
  <2>6. \A r \in Requests : at'[r] = "idle"
    <3>1. CASE Boot
      BY <2>1, <3>1 DEF Boot, asking
    <3>2. CASE \/ UNCHANGED vars \/ Pass \/ Crash \/ BeginRun
               \/ \E e \in EnvKeys \union {NoKey, BadKey} : Serve(e)
      BY <3>2 DEF vars, Pass, Crash, Die, BeginRun, Serve, Start, keyring
    <3>3. ASSUME NEW r \in Requests, Handle(r)  PROVE FALSE
      BY <2>1, <3>3 DEF Handle, Arrive, Reject, Unauthorized, Authorize, Allowed, ShowKey, CreateKey, RevokeKey
    <3>4. ASSUME NEW r \in Requests, Chat(r)  PROVE FALSE
      <4>1. UNCHANGED keyring
        BY <3>4 DEF Chat, Plain, Complete, Stream, SubmitStream, Keepalive, Hang, EndRun, Notice,
                    SendFrame, EndStream, Leave, Hangup
      <4> QED  BY <4>1 DEF keyring
    <3> QED  BY <3>1, <3>2, <3>3, <3>4 DEF Next
  <2>7. \A k \in Active' : k \in known' \union lost'
    BY <2>1, <2>6 DEF KeyInv, BeingShown
  <2> QED  BY <2>5, <2>7
<1> QED  BY <1>1, Invariance, PTL DEF Spec, KeyInHand

(* A stream that is complete says what its run came to.                    *)
THEOREM StreamsAreHonest == Spec => []SaysWhatHappened
<1>1. Inv => SaysWhatHappened
  <2> SUFFICES ASSUME Inv, NEW r \in Requests, LastSent(r) = "done"
               PROVE  /\ work[r] \in Finished
                      /\ (\E i \in 1..Len(sent[r]) : sent[r][i] = "content")
                           <=> work[r] \notin {"blank", "nothing"}
                      /\ (\E i \in 1..Len(sent[r]) : sent[r][i] = "usage")
                           <=> req[r].wants /\ work[r] # "failed"
    BY DEF SaysWhatHappened
  <2>1. at[r] = "stream" /\ StreamInv(r) /\ todo[r] \in Seq(Frames)
    BY DEF Inv, ChatInv, RunFor, LastSent, AskTypeOK
  <2>2. todo[r] = <<>>
    BY <2>1 DEF StreamInv, Continues, Protocol!Follows
  <2>3. SaysAll(r)
    BY <2>1 DEF StreamInv, Waiting
  <2> QED  BY <2>2, <2>3 DEF SaysAll, Said, Sends
<1> QED  BY <1>1, Invariance, PTL

-----------------------------------------------------------------------------
(* What the streams put on the wire implements ChatProtocol *)

LastOf == [r \in Requests |-> LastSent(r)]
WantsOf == [r \in Requests |-> at[r] = "stream" /\ req[r].wants]

(* A step that puts nothing on any wire.                                   *)
LEMMA Unheard ==
  ASSUME sent' = sent,
         \A r \in Requests : at'[r] = "stream" <=> at[r] = "stream",
         \A r \in Requests : at[r] = "stream" => req'[r].wants = req[r].wants
  PROVE  LastOf' = LastOf /\ WantsOf' = WantsOf
<1>1. LastOf' = LastOf
  BY DEF LastOf, LastSent
<1>2. \A r \in Requests : (at'[r] = "stream" /\ req'[r].wants) = (at[r] = "stream" /\ req[r].wants)
  OBVIOUS
<1> QED  BY <1>1, <1>2 DEF WantsOf

LEMMA FrameSent ==
  ASSUME AskTypeOK, NEW r \in Requests, NEW f \in Frames, f \in Protocol!Follows(LastSent(r)),
         f = "usage" => at[r] = "stream" /\ req[r].wants,
         sent' = [sent EXCEPT ![r] = Append(@, f)], at' = at, req' = req
  PROVE  Protocol!Next
<1>1. sent[r] \in Seq(Frames) /\ sent'[r] = Append(sent[r], f)
  BY DEF AskTypeOK
<1>2. LastSent(r)' = f
  BY <1>1, AppendProperties DEF LastSent
<1>3. \A s \in Requests \ {r} : LastSent(s)' = LastSent(s)
  BY DEF AskTypeOK, LastSent
<1>4. LastOf' = [LastOf EXCEPT ![r] = f]
  BY <1>2, <1>3 DEF LastOf
<1>5. WantsOf' = WantsOf /\ LastOf[r] = LastSent(r) /\ WantsOf[r] = (at[r] = "stream" /\ req[r].wants)
  BY DEF WantsOf, LastOf
<1>6. f \in Protocol!Frames
  BY DEF Frames, Protocol!Frames
<1>7. Protocol!Send(r, f)
  BY <1>4, <1>5 DEF Protocol!Send, LastOf, WantsOf
<1> QED  BY <1>6, <1>7 DEF Protocol!Next

LEMMA StreamOpens ==
  ASSUME ChatInv, NEW r \in Requests, Stream(r)
  PROVE  Protocol!Next
<1>1. AskTypeOK /\ RunFor(r) /\ at[r] = "handler"
  BY DEF ChatInv, Stream, Allowed
<1>2. /\ at' = [at EXCEPT ![r] = "stream"] /\ req' = [req EXCEPT ![r].key = NoKey]
      /\ sent' = [sent EXCEPT ![r] = <<"role">>]
  BY DEF Stream
<1>3. LastSent(r) = "none" /\ LastSent(r)' = "role"
  BY <1>1, <1>2 DEF LastSent, RunFor, AskTypeOK
<1>4. \A s \in Requests \ {r} : LastSent(s)' = LastSent(s)
  BY <1>1, <1>2 DEF LastSent, AskTypeOK
<1>5. LastOf' = [LastOf EXCEPT ![r] = "role"] /\ LastOf[r] = "none"
  BY <1>3, <1>4 DEF LastOf
<1> DEFINE w == WantsOf'[r]
<1>6. WantsOf' = [WantsOf EXCEPT ![r] = w]
  <2>1. \A s \in Requests \ {r} : at'[s] = at[s] /\ req'[s] = req[s]
    BY <1>1, <1>2 DEF AskTypeOK
  <2>2. \A s \in Requests \ {r} : WantsOf'[s] = WantsOf[s]
    BY <2>1 DEF WantsOf
  <2> QED  BY <2>2 DEF WantsOf
<1>7. w \in BOOLEAN
  BY DEF WantsOf
<1> HIDE DEF w
<1>8. Protocol!Open(r)
  BY <1>5, <1>6, <1>7 DEF Protocol!Open, LastOf, WantsOf
<1> QED  BY <1>8 DEF Protocol!Next

(* The streams of R end, those of the others do not change.                *)
LEMMA StreamsClose ==
  ASSUME AskTypeOK, NEW R \in SUBSET Requests,
         \A r \in R : sent'[r] = <<>> /\ at'[r] # "stream",
         \A r \in Requests \ R : sent'[r] = sent[r] /\ at'[r] = at[r] /\ req'[r] = req[r]
  PROVE  Protocol!Next
<1>1. LastOf' = [r \in Requests |-> IF r \in R THEN "none" ELSE LastOf[r]]
  BY DEF LastOf, LastSent
<1>2. WantsOf' = [r \in Requests |-> IF r \in R THEN FALSE ELSE WantsOf[r]]
  BY DEF WantsOf
<1>3. Protocol!Close(R)
  BY <1>1, <1>2 DEF Protocol!Close, LastOf, WantsOf
<1> QED  BY <1>3 DEF Protocol!Next

LEMMA HandleUnheard ==
  ASSUME ChatInv, NEW r \in Requests, Handle(r)
  PROVE  LastOf' = LastOf /\ WantsOf' = WantsOf
<1>1. AskTypeOK
  BY DEF ChatInv
<1>2. /\ sent' = sent /\ at[r] # "stream" /\ at'[r] # "stream"
      /\ \A s \in Requests \ {r} : at'[s] = at[s] /\ req'[s] = req[s]
  <2>1. Streaming' = Streaming
    BY DEF Handle, Arrive, Reject, Unauthorized, Authorize, ShowKey, CreateKey, RevokeKey
  <2>2. at[r] # "stream"
    BY DEF Handle, Arrive, Reject, Unauthorized, Authorize, Allowed, ShowKey, CreateKey, RevokeKey
  <2>3. /\ at'[r] # "stream"
        /\ \A s \in Requests \ {r} : at'[s] = at[s] /\ req'[s] = req[s]
    BY <1>1 DEF Handle, Arrive, Reject, Unauthorized, Authorize, ShowKey, CreateKey, RevokeKey,
                Answer, AskTypeOK
  <2> QED  BY <2>1, <2>2, <2>3 DEF Streaming
<1> QED  BY <1>2, Unheard

LEMMA ChatHeard ==
  ASSUME ChatInv, NEW r \in Requests, Chat(r)
  PROVE  Protocol!Next \/ (LastOf' = LastOf /\ WantsOf' = WantsOf)
<1>1. AskTypeOK /\ RunFor(r) /\ StreamInv(r)
  BY DEF ChatInv
<1>2. CASE Plain(r) \/ Complete(r)
  <2>1. /\ sent' = sent /\ at[r] # "stream" /\ at'[r] # "stream"
        /\ \A s \in Requests \ {r} : at'[s] = at[s] /\ req'[s] = req[s]
    BY <1>1, <1>2 DEF Plain, Allowed, Complete, Answer, AskTypeOK
  <2> QED  BY <2>1, Unheard
<1>3. CASE Stream(r)
  BY <1>3, StreamOpens
<1>4. CASE SubmitStream(r) \/ \E n \in 0..MaxPieces : Notice(r, n)
  BY <1>4, Unheard DEF SubmitStream, Notice
<1>5. CASE Hang(r) \/ \E result \in Finished : EndRun(r, result)
  <2>1. /\ sent' = sent /\ req' = req /\ (at'[r] = "stream" <=> at[r] = "stream")
        /\ \A s \in Requests \ {r} : at'[s] = at[s]
    BY <1>1, <1>5 DEF Hang, EndRun, AskTypeOK
  <2> QED  BY <2>1, Unheard
<1>6. CASE Keepalive(r)
  <2>1. "empty" \in Frames /\ "empty" \in Protocol!Follows(LastSent(r))
    BY <1>6 DEF Keepalive, Frames, Protocol!Follows
  <2> QED  BY <1>1, <1>6, <2>1, FrameSent DEF Keepalive
<1>7. CASE SendFrame(r)
  <2>1. /\ at[r] = "stream" /\ todo[r] # <<>> /\ todo[r] \in Seq(Frames) /\ Continues(r)
    BY <1>1, <1>7 DEF SendFrame, AskTypeOK, StreamInv
  <2>2. PICK f \in Frames : f = todo[r][1] /\ f = Head(todo[r])
    BY <2>1
  <2>3. f \in Protocol!Follows(LastSent(r)) /\ (f = "usage" => req[r].wants)
    BY <2>1, <2>2 DEF Continues
  <2>4. sent' = [sent EXCEPT ![r] = Append(@, f)] /\ at' = at /\ req' = req
    BY <1>7, <2>2 DEF SendFrame
  <2> QED  BY <1>1, <2>1, <2>3, <2>4, FrameSent
<1>8. CASE EndStream(r) \/ Leave(r)
  <2>1. sent'[r] = <<>> /\ at'[r] # "stream"
    BY <1>1, <1>8 DEF EndStream, Leave, Hangup, AskTypeOK
  <2>2. \A s \in Requests \ {r} : sent'[s] = sent[s] /\ at'[s] = at[s] /\ req'[s] = req[s]
    BY <1>1, <1>8 DEF EndStream, Leave, Hangup, AskTypeOK
  <2>3. {r} \in SUBSET Requests
    OBVIOUS
  <2> QED  BY <1>1, <2>1, <2>2, <2>3, StreamsClose
<1> QED  BY <1>2, <1>3, <1>4, <1>5, <1>6, <1>7, <1>8 DEF Chat

(* What streams put on the wire is what ChatProtocol allows.               *)
THEOREM WireIsReadable == Spec => KeepsProtocol
<1>1. Init => Protocol!Init
  <2> SUFFICES ASSUME Init  PROVE Protocol!Init
    OBVIOUS
  <2>1. \A r \in Requests : LastSent(r) = "none" /\ ~(at[r] = "stream" /\ req[r].wants)
    BY DEF Init, LastSent
  <2> QED  BY <2>1 DEF Protocol!Init
<1>2. Inv /\ [Next]_vars => Protocol!Next \/ (LastOf' = LastOf /\ WantsOf' = WantsOf)
  <2> SUFFICES ASSUME ChatInv, [Next]_vars
               PROVE  Protocol!Next \/ (LastOf' = LastOf /\ WantsOf' = WantsOf)
    BY DEF Inv
  <2>1. CASE \/ UNCHANGED vars \/ Boot \/ Pass \/ BeginRun
             \/ \E e \in EnvKeys \union {NoKey, BadKey} : Serve(e)
    <3>1. sent' = sent /\ at' = at /\ req' = req
      BY <2>1 DEF vars, Boot, Pass, BeginRun, Serve, asking
    <3> QED  BY <3>1, Unheard
  <2>2. CASE Crash
    <3>1. Requests \in SUBSET Requests
      OBVIOUS
    <3>2. \A r \in Requests : sent'[r] = <<>> /\ at'[r] # "stream"
      BY <2>2 DEF Crash
    <3> QED  BY <3>1, <3>2, StreamsClose DEF ChatInv
  <2>3. ASSUME NEW r \in Requests, Handle(r) \/ Chat(r)
        PROVE  Protocol!Next \/ (LastOf' = LastOf /\ WantsOf' = WantsOf)
    BY <2>3, HandleUnheard, ChatHeard
  <2> QED  BY <2>1, <2>2, <2>3 DEF Next
<1>3. Inv /\ [Next]_vars => [Protocol!Next]_<<LastOf, WantsOf>>
  BY <1>2
<1>4. [Protocol!Next]_<<LastOf, WantsOf>>
        => [Protocol!Next]_<<[r \in Requests |-> LastSent(r)],
                             [r \in Requests |-> at[r] = "stream" /\ req[r].wants]>>
  BY DEF LastOf, WantsOf
<1> QED  BY <1>1, <1>3, <1>4, Invariance, PTL DEF Spec, KeepsProtocol, Protocol!Spec

-----------------------------------------------------------------------------
(* How far each stream is from its end *)

(* While a stream waits for its run: the stages of the run still to come,  *)
(* and the keepalive, above all the frames there can be.  Then the frames, *)
(* and the end.                                                            *)
StreamLeft(r) ==
  IF at[r] # "stream" THEN 0
  ELSE IF todo[r] = <<>> /\ LastSent(r) \in Waiting
       THEN MaxPieces + 5 + (CASE work[r] = "none"    -> 3
                               [] work[r] = "queued"  -> 2
                               [] work[r] = "running" -> 1
                               [] OTHER -> 0)
              + (IF LastSent(r) = "role" THEN 1 ELSE 0)
       ELSE Len(todo[r]) + 1

Counted == \A r \in Requests : StreamLeft(r) \in Nat

(* No step sets a stream back, and each that shows in it takes it further. *)
Forward(r) ==
  at[r] = "stream" =>
    /\ StreamLeft(r)' <= StreamLeft(r)
    /\ <<work[r], sent[r], todo[r]>>' # <<work[r], sent[r], todo[r]>>
         => StreamLeft(r)' < StreamLeft(r)

LEMMA StreamLeftType == ChatInv => Counted
<1> SUFFICES ASSUME ChatInv, NEW r \in Requests  PROVE StreamLeft(r) \in Nat
  BY DEF Counted
<1>1. Len(todo[r]) \in Nat /\ MaxPieces \in Nat
  BY FrontAssumption DEF ChatInv, AskTypeOK
<1> QED  BY <1>1 DEF StreamLeft

(* What a step may do to a stream.                                         *)
Unmoved(r) == /\ at'[r] = at[r] /\ work'[r] = work[r]
              /\ sent'[r] = sent[r] /\ todo'[r] = todo[r]

RunMoves(r) ==
  /\ at'[r] = at[r] /\ sent'[r] = sent[r] /\ todo'[r] = todo[r]
  /\ \/ work[r] = "none" /\ work'[r] = "queued"
     \/ work[r] = "queued" /\ work'[r] = "running"
     \/ work[r] = "running" /\ work'[r] \in Finished \union {"hung"}

StreamMoves(r) ==
  \/ Unmoved(r) \/ RunMoves(r) \/ at'[r] # "stream"
  \/ Keepalive(r) \/ SendFrame(r) \/ \E n \in 0..MaxPieces : Notice(r, n)

(* A step of another request does not show in a stream.                    *)
LEMMA OthersUnmoved ==
  ASSUME ChatInv, NEW r \in Requests, NEW s \in Requests \ {r}, Handle(s) \/ Chat(s)
  PROVE  Unmoved(r)
<1>1. AskTypeOK
  BY DEF ChatInv
<1>2. CASE Handle(s)
  <2>1. Streaming' = Streaming
    BY <1>2 DEF Handle, Arrive, Reject, Unauthorized, Authorize, ShowKey, CreateKey, RevokeKey
  <2>2. at'[r] = at[r]
    BY <1>1, <1>2 DEF Handle, Arrive, Reject, Unauthorized, Authorize, ShowKey, CreateKey, RevokeKey,
                Answer, AskTypeOK
  <2> QED  BY <2>1, <2>2 DEF Streaming, Unmoved
<1>3. CASE Plain(s) \/ Complete(s) \/ Stream(s) \/ SubmitStream(s) \/ Keepalive(s)
  BY <1>1, <1>3 DEF Plain, Complete, Answer, Stream, SubmitStream, Submit, Keepalive, AskTypeOK, Unmoved
<1>4. CASE Hang(s) \/ \E result \in Finished : EndRun(s, result)
  BY <1>1, <1>4 DEF Hang, EndRun, AskTypeOK, Unmoved
<1>5. CASE \E n \in 0..MaxPieces : Notice(s, n)
  BY <1>1, <1>5 DEF Notice, AskTypeOK, Unmoved
<1>6. CASE SendFrame(s)
  BY <1>1, <1>6 DEF SendFrame, AskTypeOK, Unmoved
<1>7. CASE EndStream(s) \/ Leave(s)
  BY <1>1, <1>7 DEF EndStream, Leave, Hangup, AskTypeOK, Unmoved
<1> QED  BY <1>2, <1>3, <1>4, <1>5, <1>6, <1>7 DEF Chat

LEMMA StreamsMove ==
  ASSUME ChatInv, [Next]_vars, NEW r \in Requests, at[r] = "stream"
  PROVE  StreamMoves(r)
<1>1. AskTypeOK
  BY DEF ChatInv
<1>2. CASE UNCHANGED vars \/ Boot \/ Pass \/ \E e \in EnvKeys \union {NoKey, BadKey} : Serve(e)
  BY <1>2 DEF vars, Boot, Pass, Serve, asking, StreamMoves, Unmoved
<1>3. CASE Crash
  BY <1>3 DEF Crash, StreamMoves
<1>4. CASE BeginRun
  <2>1. queue \in Seq(Requests) /\ queue # <<>>
    BY <1>1, <1>4 DEF BeginRun, AskTypeOK
  <2>2. Head(queue) = queue[1] /\ 1 \in 1..Len(queue) /\ queue[1] \in Requests
    BY <2>1
  <2>3. work[queue[1]] = "queued"
    BY <2>2 DEF ChatInv, QueueInv
  <2>4. work' = [work EXCEPT ![queue[1]] = "running"] /\ at' = at /\ sent' = sent /\ todo' = todo
    BY <1>4, <2>2 DEF BeginRun
  <2> QED  BY <1>1, <2>2, <2>3, <2>4 DEF StreamMoves, Unmoved, RunMoves, AskTypeOK
<1>5. ASSUME NEW s \in Requests \ {r}, Handle(s) \/ Chat(s)
      PROVE  StreamMoves(r)
  BY <1>5, OthersUnmoved DEF StreamMoves
<1>6. ~Handle(r)
  BY DEF Handle, Arrive, Reject, Unauthorized, Authorize, Allowed, ShowKey, CreateKey, RevokeKey
<1>7. CASE Chat(r)
  <2>1. CASE SubmitStream(r)
    BY <1>1, <2>1 DEF SubmitStream, Submit, StreamMoves, RunMoves, AskTypeOK
  <2>2. CASE Hang(r) \/ \E result \in Finished : EndRun(r, result)
    BY <1>1, <2>2 DEF Hang, EndRun, StreamMoves, RunMoves, AskTypeOK
  <2>3. CASE EndStream(r) \/ Leave(r)
    BY <1>1, <2>3 DEF EndStream, Leave, Hangup, StreamMoves, AskTypeOK
  <2>4. ~Plain(r) /\ ~Complete(r) /\ ~Stream(r)
    BY DEF Plain, Complete, Stream, Allowed
  <2> QED  BY <1>7, <2>1, <2>2, <2>3, <2>4 DEF Chat, StreamMoves
<1> QED  BY <1>2, <1>3, <1>4, <1>5, <1>6, <1>7 DEF Next

(* Whoever waits for a run has sent nothing but the role and keepalives.   *)
LEMMA StreamFalls ==
  ASSUME ChatInv, NEW r \in Requests, at[r] = "stream", StreamMoves(r), ~Unmoved(r)
  PROVE  StreamLeft(r)' < StreamLeft(r)
<1>1. /\ AskTypeOK /\ RunFor(r) /\ StreamInv(r) /\ MaxPieces \in Nat
      /\ todo[r] \in Seq(Frames) /\ sent[r] \in Seq(Frames) /\ Len(todo[r]) \in Nat
  BY FrontAssumption DEF ChatInv, AskTypeOK
<1>2. CASE at'[r] # "stream"
  BY <1>1, <1>2 DEF StreamLeft
<1>3. CASE RunMoves(r)
  <2>1. work[r] \notin Finished
    BY <1>3 DEF RunMoves, Finished
  <2>2. todo[r] = <<>> /\ LastSent(r) \in Waiting
    BY <1>1, <2>1 DEF StreamInv, SaysAll
  <2>3. todo'[r] = todo[r] /\ LastSent(r)' = LastSent(r) /\ at'[r] = "stream"
    BY <1>3 DEF RunMoves, LastSent
  <2> DEFINE k == IF LastSent(r) = "role" THEN 1 ELSE 0
  <2>4. k \in {0, 1} /\ k' = k
    BY <2>3
  <2>5. CASE work[r] = "none" /\ work'[r] = "queued"
    <3>1. StreamLeft(r) = MaxPieces + 5 + 3 + k /\ StreamLeft(r)' = MaxPieces + 5 + 2 + k
      BY <2>2, <2>3, <2>5 DEF StreamLeft
    <3> QED  BY <1>1, <2>4, <3>1
  <2>6. CASE work[r] = "queued" /\ work'[r] = "running"
    <3>1. StreamLeft(r) = MaxPieces + 5 + 2 + k /\ StreamLeft(r)' = MaxPieces + 5 + 1 + k
      BY <2>2, <2>3, <2>6 DEF StreamLeft
    <3> QED  BY <1>1, <2>4, <3>1
  <2>7. CASE work[r] = "running" /\ work'[r] \in Finished \union {"hung"}
    <3>1. StreamLeft(r) = MaxPieces + 5 + 1 + k /\ StreamLeft(r)' = MaxPieces + 5 + 0 + k
      BY <2>2, <2>3, <2>7 DEF StreamLeft, Finished
    <3> QED  BY <1>1, <2>4, <3>1
  <2> QED  BY <1>3, <2>5, <2>6, <2>7 DEF RunMoves
<1>4. CASE Keepalive(r)
  <2>1. /\ LastSent(r) = "role" /\ todo[r] = <<>> /\ at' = at /\ work' = work /\ todo' = todo
        /\ sent'[r] = Append(sent[r], "empty")
    BY <1>1, <1>4 DEF Keepalive, AskTypeOK
  <2>2. LastSent(r)' = "empty"
    BY <1>1, <2>1, AppendProperties DEF LastSent, Frames
  <2> DEFINE k == CASE work[r] = "none" -> 3 [] work[r] = "queued" -> 2
                    [] work[r] = "running" -> 1 [] OTHER -> 0
  <2>3. k \in 0..3
    OBVIOUS
  <2>4. StreamLeft(r) = MaxPieces + 5 + k + 1 /\ StreamLeft(r)' = MaxPieces + 5 + k + 0
    BY <2>1, <2>2 DEF StreamLeft, Waiting
  <2> HIDE DEF k
  <2> QED  BY <1>1, <2>3, <2>4
<1>5. ASSUME NEW n \in 0..MaxPieces, Notice(r, n)  PROVE StreamLeft(r)' < StreamLeft(r)
  <2>1. /\ work[r] \in Finished /\ LastSent(r) \in Waiting /\ todo[r] = <<>>
        /\ todo'[r] = Closing(r, n) /\ at' = at /\ n \in Nat /\ n <= MaxPieces
    BY <1>1, <1>5 DEF Notice, Waiting, AskTypeOK
  <2>2. Len(Closing(r, n)) \in 2..(n + 3) /\ Closing(r, n) # <<>>
    BY <1>1, <2>1, ClosingFrames DEF RunFor
  <2>3. StreamLeft(r)' = Len(Closing(r, n)) + 1
    BY <2>1, <2>2 DEF StreamLeft
  <2>4. StreamLeft(r) >= MaxPieces + 5 /\ StreamLeft(r) \in Nat
    BY <1>1, <2>1, StreamLeftType DEF StreamLeft, Finished, Counted
  <2> QED  BY <1>1, <2>1, <2>2, <2>3, <2>4
<1>6. CASE SendFrame(r)
  <2>1. /\ todo[r] # <<>> /\ at' = at /\ sent'[r] = Append(sent[r], Head(todo[r]))
        /\ todo'[r] = Tail(todo[r])
    BY <1>1, <1>6 DEF SendFrame, AskTypeOK
  <2>2. Head(todo[r]) = todo[r][1] /\ 1 \in 1..Len(todo[r]) /\ Head(todo[r]) \in Frames
        /\ Len(Tail(todo[r])) = Len(todo[r]) - 1
    BY <1>1, <2>1, HeadTailProperties
  <2>3. Head(todo[r]) \notin Waiting
    BY <1>1, <2>2 DEF StreamInv, Continues
  <2>4. LastSent(r)' = Head(todo[r])
    BY <1>1, <2>1, <2>2, AppendProperties DEF LastSent
  <2>5. StreamLeft(r) = Len(todo[r]) + 1 /\ StreamLeft(r)' = Len(Tail(todo[r])) + 1
    BY <2>1, <2>3, <2>4 DEF StreamLeft
  <2> QED  BY <1>1, <2>2, <2>5
<1> QED  BY <1>2, <1>3, <1>4, <1>5, <1>6 DEF StreamMoves

(* A stream only goes forward: whatever other requests and their runs do,  *)
(* each change of its run, each keepalive and each frame uses up one of    *)
(* finitely many (event_stream of chat_completions).                       *)
THEOREM EveryFrameCounts ==
  Spec => []Counted /\ [][\A r \in Requests : Forward(r)]_vars
<1>1. ASSUME Inv, Counted', [Next]_vars, NEW r \in Requests, at[r] = "stream"
      PROVE  /\ StreamLeft(r)' <= StreamLeft(r)
             /\ ~Unmoved(r) => StreamLeft(r)' < StreamLeft(r)
  <2>1. ChatInv /\ StreamLeft(r) \in Nat /\ StreamLeft(r)' \in Nat
    BY <1>1, StreamLeftType DEF Inv, Counted
  <2>2. CASE Unmoved(r)
    <3>1. StreamLeft(r)' = StreamLeft(r)
      BY <2>2 DEF StreamLeft, LastSent, Unmoved
    <3> QED  BY <2>1, <2>2, <3>1
  <2>3. CASE ~Unmoved(r)
    <3>1. StreamLeft(r)' < StreamLeft(r)
      BY <1>1, <2>1, <2>3, StreamsMove, StreamFalls
    <3> QED  BY <2>1, <3>1
  <2> QED  BY <2>2, <2>3
<1>2. Inv => Counted
  BY StreamLeftType DEF Inv
<1>3. Inv /\ Counted' /\ [Next]_vars => [\A r \in Requests : Forward(r)]_vars
  BY <1>1 DEF Forward, Unmoved
<1> QED  BY <1>2, <1>3, Invariance, PTL DEF Spec
=============================================================================

SPECIFICATION FairSpec
CONSTANTS
  r1 = r1
  r2 = r2
  k1 = k1
  k2 = k2
  Clients = {c1}
  PerMinute = 1
  Window = 1
  MaxClock = 2
  Keys = {k1, k2}
  EnvKeys = {k1}
  NoKey = NoKey
  BadKey = BadKey
  Enforced = TRUE
  OpenLocal = TRUE
  AnonLoopback = TRUE
  Requests = {r1, r2}
  Queries <- Asked
  Slots = 1
  MaxPieces = 1
INVARIANTS WindowHolds SaysWhatHappened
PROPERTIES RefusedFairly RevokedForGood KeyInHand KeepsProtocol EveryStreamEnds
CHECK_DEADLOCK FALSE

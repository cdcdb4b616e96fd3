SPECIFICATION Spec
CONSTANTS
  n1 = n1
  n2 = n2
  n3 = n3
  w1 = w1
  w2 = w2
  Nodes = {n1, n2, n3}
  Workers = {w1, w2}
  NoWorker = NoWorker
  NoNode = NoNode
  Scores = {2, 8}
  Plans <- MCPlans
  ReplanEnabled = TRUE
  ReplanFloor = 4
  Polish = TRUE
  KCritical = 2
  MaxRecoveries = 4
  MaxAlternates = 3
INVARIANTS ResultOnBoard NoStrayAnswer PenaltyExact HonestDone
PROPERTY ResultsSurvive

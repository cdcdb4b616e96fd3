SPECIFICATION FairSpec
CONSTANTS
  n1 = n1
  n2 = n2
  n3 = n3
  w1 = w1
  w2 = w2
  Nodes = {n1, n2}
  Workers = {w1, w2}
  NoWorker = NoWorker
  NoNode = NoNode
  Scores = {2, 8}
  Plans <- ChainPlans
  ReplanEnabled = TRUE
  ReplanFloor = 4
  Polish = FALSE
  KCritical = 2
  MaxRecoveries = 4
  MaxAlternates = 3
PROPERTIES Termination EveryNodeRuns

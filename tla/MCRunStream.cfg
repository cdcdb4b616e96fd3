SPECIFICATION FairSpec
CONSTANTS
  w1 = w1
  w2 = w2
  Workers = {w1, w2}
  NoWorker = NoWorker
  MaxLayers = 2
  MaxJobs = 2
INVARIANTS EveryoneReported AnswerHasSource
PROPERTIES KeepsContract Closes

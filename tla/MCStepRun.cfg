SPECIFICATION FairSpec
CONSTANTS
  w1 = w1
  w2 = w2
  ghost = ghost
  Pool = {w1, w2}
  ByPool <- PoolOrder
  Tagged <- Tags
  Orchestrator = w2
  NoWorker = NoWorker
  Verifying = TRUE
  Retries = 2
  MaxRepairs = 1
  Budget = 6
  Sizes = {1, 2}
  Lasting = TRUE
  Ghosts = {ghost}
  Drafts <- MCDrafts
INVARIANTS PlansSound RefsResolved MarkedRejected AccountsSound TriedAll
PROPERTY Terminates
CHECK_DEADLOCK FALSE

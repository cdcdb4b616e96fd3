SPECIFICATION Spec
CONSTANTS
  w1 = w1
  w2 = w2
  w3 = w3
  Workers = {w1, w2, w3}
  ById <- Order
  MaxSteps = 5
  Tags = {"code", "reasoning"}
  Queries <- MCQueries
  Pools <- MCPools
  Drafts <- MCDrafts
  Rewrites <- MCRewrites
INVARIANTS ReadsFaithfully PlanSound StaffedWell JudgesApart SpreadEvenly
PROPERTY RepairAdds
CHECK_DEADLOCK FALSE

CONSTANTS
  h1 = h1
  a1 = a1
  a2 = a2
  i1 = i1
  i2 = i2
  i3 = i3
  NoHost = NoHost
  NoId = NoId
  NoPipeline = NoPipeline
  NewIssue = NewIssue
  Hosts <- OneHost
  Pipelines = {1}
  Articles <- TwoArticles
  Ids <- ThreeIds
  RestartBudget = 1
  FaultBudget = 1
SPECIFICATION Spec
SYMMETRY Symmetry
CHECK_DEADLOCK FALSE
INVARIANT OneIssuePerDecision

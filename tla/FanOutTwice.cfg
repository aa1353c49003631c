\* Two companies poll the same article, and nothing fails.
SPECIFICATION FanSpec
CONSTANTS
  Polls = {p1, p2}
  Companies = {c1, c2}
  NoCompany = NoCompany
  Articles <- OneArticle
  NoArticle = NoArticle
  Thin = {}
  Limit = 1
  Kind = "crawl"
  Updates = FALSE
  Arrival = "later"
  ReplayConflicts = TRUE
  FirstMark = 1
  MaxTime = 2
  FaultBudget = 0
  Dispatchers = {d1}
  NoJob = NoJob
  MaxAttempts = 3
SYMMETRY Symmetry
INVARIANTS
  OnePipelineEach

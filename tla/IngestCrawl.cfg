\* Polls of two companies, faults, withdrawals, new versions: a row is dated later than all before it.
SPECIFICATION Spec
CONSTANTS
  Polls = {p1, p2}
  Companies = {c1, c2}
  NoCompany = NoCompany
  Articles <- TwoArticles
  NoArticle = NoArticle
  Thin = {2}
  Limit = 1
  Kind = "crawl"
  Updates = TRUE
  Arrival = "later"
  ReplayConflicts = TRUE
  FirstMark = 1
  MaxTime = 4
  FaultBudget = 1
SYMMETRY Symmetry
INVARIANTS
  TypeOK
  NothingLost

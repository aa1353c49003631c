\* From publication to the pipelines of all companies, with one failed call;
\* and the scheduler and the scoring loop, each on its own.
SPECIFICATION GoingSpec
CONSTANTS
  \* FanOut
  Polls = {p1}
  Companies = {c1, c2}
  NoCompany = NoCompany
  Articles <- OneArticle
  NoArticle = NoArticle
  Thin = {}
  Limit = 1
  Kind = "cms"
  Updates = FALSE
  Arrival = "later"
  ReplayConflicts = FALSE
  FirstMark = 1
  MaxTime = 2
  FaultBudget = 1
  Dispatchers = {d1, d2}
  NoJob = NoJob
  MaxAttempts = 2
  \* AutomaticIntake: two requests of operators, two ticks of the timer.
  Toggles = {t1, t2}
  Ticks = {k1, k2}
  Scopes = {s1, s2}
  BrokenScopes = {s1}
  EnvEnabled = "off"
  \* NewsFeed: pages of two to score, and of one to show.
  NewsArticles = {1, 2, 3}
  SourceOrder <- TwoSources
  SourceOf <- ArticleSource
  HashOf <- SharedContent
  Stamp <- HalfMilliseconds
  Precision = 2
  OnTopic = {1, 2}
  Loops = {l1}
  PageSize = 2
  MaxPerTick = 3
  FeedLimit = 1
  MaxHorizon = 0
  MaxFailures = 1
INVARIANTS
  FannedOut
  PipelinesPerAttempt

  
  

\* Distinct worker ids, calls of any length: live runs are reclaimed, late
\* runs come back, hosts crash and store calls fail.
\* And the scheduler, the list of runs, the news feed and the dispatch, each on its own.
SPECIFICATION SourcesSpec
CONSTANTS
  \* JobQueue
  Jobs = {j1, j2}
  Served = {j1, j2}
  Bodies <- TwoBodies
  StoredForm <- KeepsKeys
  NoBody = NoBody
  Runs = {p1, p2}
  NoRun = NoRun
  NoJob = NoJob
  WorkerIdOf <- DistinctIds
  NoWorker = NoWorker
  MaxAttempts = 2
  Backoff <- MCBackoff
  Hints <- NoHint
  StaleAfter = 1
  CallsBounded = FALSE
  CallLimit = 1
  MaxCalls = 1
  OverdueCap = 1
  FaultBudget = 2
  \* AutomaticIntake: two requests of operators, two ticks of the timer.
  Toggles = {t1, t2}
  Ticks = {k1, k2}
  Scopes = {s1, s2}
  BrokenScopes = {s1}
  EnvEnabled = "off"
  \* IntakeRuns: pages of one run.
  Pulls = {a1}
  PullKeys = {h1, h2}
  Channels = {"egi", "kompas"}
  MaxRuns = 4
  PageLimit = 1
  MaxOffset = 2
  \* NewsFeed: pages of two to score, and of one to show.
  NewsArticles = {1, 2, 3}
  SourceOrder <- TwoSources
  SourceOf <- ArticleSource
  HashOf <- SharedContent
  Stamp <- HalfMilliseconds
  Precision = 2
  OnTopic = {1, 2}
  Loops = {l1}
  PageSize = 2
  MaxPerTick = 3
  FeedLimit = 1
  MaxHorizon = 1
  MaxFailures = 1
  \* TenantDispatch: one article for two companies.
  Tenants = {"bank", "eval-x"}
  EvalTenants = {"eval-x"}
  Customers = {"c1", "c2"}
  TenantOf <- CompanyTenant
  Words <- CompanyWords
  Named = {}
  CATALOG <- IndustryOrder
  StageJobs = {g1}
  Environments <- SomeEnvironments
SYMMETRY Symmetry
INVARIANTS
  TypeOK
  LockMatchesHolder
  RetriesWithinMax
  PullsSafe
  NewsSafe
PROPERTIES
  ImplementsLease
  TerminalIsFinal
  RequestIsKept

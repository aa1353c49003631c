\* One pipeline under faults, crashes and live reclaims; and what its tasks do, each on its own.
SPECIFICATION TasksSpec
CONSTANTS
  \* AiPipeline
  Pipelines = {x1}
  LastTask = 2
  ErrorKinds = {"transient", "unreachable", "fatal"}
  Jobs <- MCJobs
  Served <- MCJobs
  Bodies <- MCBodies
  StoredForm <- KeepsBody
  NoBody = NoBody
  Runs = {p1, p2}
  NoRun = NoRun
  NoJob = NoJob
  WorkerIdOf <- SharedId
  NoWorker = NoWorker
  MaxAttempts = 2
  Backoff <- NoDelay
  Hints <- NoHint
  StaleAfter = 0
  CallsBounded = FALSE
  CallLimit = 1
  MaxCalls = 1
  OverdueCap = 0
  FaultBudget = 1
  \* SourceReading: a pipeline and a call of the routes.
  Readers = {d1, d2}
  DirectReaders = {d2}
  CmsArticles = {"a1"}
  CrawledArticles = {"h1"}
  ContentOf <- Contents
  References <- SomeReferences
  MaxEdits = 2
  \* Relevance: two pipelines classify an article that is changed once.
  Classifiers = {p1, p2}
  Texts <- SomeTexts
  Answers <- SomeAnswers
  Calls = 2
  MaxText = 2
  IncludeBody = FALSE
  \* IssueAnalysis: a pipeline and a call of the routes on one issue.
  Analysts = {n1, n2}
  Callers = {n2}
  Sources = {a1}
  Priorities = {"tinggi"}
  MaxRevisions = 2
  MaxIssueVersion = 4
  MaxDecisions = 1
  \* Reports
  Narrators = {p1, p2}
  Rewriters = {w1}
  Reviewers = {r1, r2, r3, r4}
  \* ModelCalls: three callers.
  ModelCallers = {p1, p2, k3}
  Models = {"nano"}
  ActiveFor = {"nano"}
  MaxConcurrency = 2
  RequestLimit = 2
  TokenLimit = 3
  Minute = 2
  Sizes = {1, 4}
  RetryAfter = {0, 1}
  MaxRequests = 2
  MaxTokens = 5
  BudgetWindow = 3
SYMMETRY TasksSymmetry
INVARIANTS
  PipelineTypeOK
  ExclusiveTask
  CompletedInOrder
  HandlerCallsBounded
  SucceededJobIsRecorded
  RelevanceSafe
  IssueTextsSafe
  ReportsSafe
  ModelSafe
PROPERTIES
  SupersededStays

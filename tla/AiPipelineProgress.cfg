\* No faults, every call times out, three calls fit in the stale timeout: pipelines finish.
\* And the calls of the models its tasks make.
SPECIFICATION CallsSpec
CONSTANTS
  \* AiPipeline
  Pipelines = {x1}
  LastTask = 3
  ErrorKinds = {"transient", "fatal"}
  Jobs <- MCJobs
  Served <- MCJobs
  Bodies <- MCBodies
  StoredForm <- KeepsBody
  NoBody = NoBody
  Runs = {p1, p2}
  NoRun = NoRun
  NoJob = NoJob
  WorkerIdOf <- SharedId
  NoWorker = NoWorker
  MaxAttempts = 3
  Backoff <- NoDelay
  Hints <- NoHint
  StaleAfter = 4
  CallsBounded = TRUE
  CallLimit = 1
  MaxCalls = 2
  OverdueCap = 0
  FaultBudget = 0
  \* ModelCalls: two callers; no prompt is active for the second model.
  ModelCallers = {k1, k2}
  Models = {"nano", "mini"}
  ActiveFor = {"nano"}
  MaxConcurrency = 1
  RequestLimit = 1
  TokenLimit = 3
  Minute = 2
  Sizes = {1, 4}
  RetryAfter = {0, 1}
  MaxRequests = 2
  MaxTokens = 5
  BudgetWindow = 3

  
PROPERTIES
  PipelinesFinish
  

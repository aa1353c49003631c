\* The same deployment under fairness: jobs settle.
SPECIFICATION FairSpec
CONSTANTS
  Jobs = {j1, j2}
  Served = {j1, j2}
  Bodies <- OneBody
  StoredForm <- KeepsKeys
  NoBody = NoBody
  Runs = {p1, p2}
  NoRun = NoRun
  NoJob = NoJob
  WorkerIdOf <- SharedId
  NoWorker = NoWorker
  MaxAttempts = 2
  Backoff <- MCBackoff
  Hints <- NoHint
  StaleAfter = 4
  CallsBounded = TRUE
  CallLimit = 1
  MaxCalls = 2
  OverdueCap = 1
  FaultBudget = 1
PROPERTIES
  JobsSettle

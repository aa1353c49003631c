\* One worker id for all runs and slow calls: a late run settles its successor.
SPECIFICATION Spec
CONSTANTS
  Jobs = {j1}
  Served = {j1}
  Bodies <- OneBody
  StoredForm <- KeepsKeys
  NoBody = NoBody
  Runs = {p1, p2}
  NoRun = NoRun
  NoJob = NoJob
  WorkerIdOf <- SharedId
  NoWorker = NoWorker
  MaxAttempts = 2
  Backoff <- NoDelay
  Hints <- NoHint
  StaleAfter = 0
  CallsBounded = FALSE
  CallLimit = 1
  MaxCalls = 1
  OverdueCap = 0
  FaultBudget = 0
PROPERTIES
  SettlesOwnAttempt

\* Payload keys in the order the code writes them, stored as jsonb.
SPECIFICATION Spec
CONSTANTS
  Jobs = {j1}
  Served = {j1}
  Bodies <- LiteralBodies
  StoredForm <- SortsKeys
  NoBody = NoBody
  Runs = {p1}
  NoRun = NoRun
  NoJob = NoJob
  WorkerIdOf <- DistinctIds
  NoWorker = NoWorker
  MaxAttempts = 1
  Backoff <- NoDelay
  Hints <- NoHint
  StaleAfter = 0
  CallsBounded = FALSE
  CallLimit = 1
  MaxCalls = 1
  OverdueCap = 0
  FaultBudget = 0
INVARIANTS
  ReplayIsReused

\* One worker id for all runs, as deployed; every call times out and three calls fit in the stale timeout.
\* And the services behind the routes and the mail, each on its own.
SPECIFICATION ServicesSpec
CONSTANTS
  \* JobQueue
  Jobs = {j1, j2}
  Served = {j1, j2}
  Bodies <- OneBody
  StoredForm <- KeepsKeys
  NoBody = NoBody
  Runs = {p1, p2}
  NoRun = NoRun
  NoJob = NoJob
  WorkerIdOf <- SharedId
  NoWorker = NoWorker
  MaxAttempts = 2
  Backoff <- MCBackoff
  Hints <- SomeHint
  StaleAfter = 4
  CallsBounded = TRUE
  CallLimit = 1
  MaxCalls = 2
  OverdueCap = 1
  FaultBudget = 2
  \* CompanyContext: two calls on one draft of one field.
  ContextCalls = {p1, p2}
  RequiredFields = {"name"}
  ReviewFields = {}
  Contents = {"a"}
  MaxRevision = 2
  MaxVersion = 2
  \* DraftUpload: three uploads under two keys.
  UploadCalls = {c1, c2, c3}
  UploadKeys = {k1, k2}
  Pdfs = {f1, f2}
  ReadablePdfs = {f1, f2}
  SourcePdfs = {f1}
  \* Access: one user, of one company or of the whole tenant.
  Users = {u1}
  Companies = {x1}
  MemberRows <- SomeMembers
  Roles = {"tenant_admin", "company_admin"}
  AccessCalls = {q1}
  CallKinds <- AnyKind
  MaxMemberVersion = 3
  \* AlertDelivery: two deliveries of the event of one development.
  Evaluations = {v1}
  Writers = {b1}
  Deliverers = {p1, p2}
  Developments = {d1}
  CreatedWith = {d1}
  MaxDecision = 2
  MaxSends = 2
SYMMETRY ServicesSymmetry
INVARIANTS
  LiveJobKeepsLock
  
  AccessSafe
  AlertSafe
PROPERTIES
  SettlesOwnAttempt
  DecisionsStand

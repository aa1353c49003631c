------------------------------ MODULE JobQueue ------------------------------
(***************************************************************************)
(* The durable job queue: the job rows (ai.queue_jobs, or the in-memory    *)
(* store with the same contract) and the runs of JobQueueService.processNext *)
(* that claim, handle and settle them.  One queue name is modelled; every  *)
(* run of every host polls it, as QueueWorkerRunner.pump does.             *)
(*                                                                         *)
(* A run is one in-flight processNext call: pumps overlap and hosts run    *)
(* side by side, so several runs are live at once.  Each store call is one *)
(* atomic UPDATE; between two of them any other run may act.               *)
(*                                                                         *)
(* Time is relative: due counts down to available_at, age counts up from   *)
(* locked_at, clock counts up from the start of the call a run waits for.  *)
(* Both ends saturate where the code stops telling values apart, so the    *)
(* model has no time horizon.                                              *)
(***************************************************************************)
EXTENDS Integers

CONSTANTS
  Jobs,          \* idempotency scopes tenant|company|queue|key
  Served,        \* the jobs whose tenant passes the claim's tenant filter
  Bodies,        \* what a caller binds to a key: job type, payload
  StoredForm,    \* a body as the store reads it back
  NoBody,
  Runs,          \* in-flight processNext calls
  NoRun,
  NoJob,
  WorkerIdOf,    \* the workerId a run passes to the store
  NoWorker,
  MaxAttempts,   \* max_attempts of every job of this queue
  Backoff,       \* delay after the n-th attempt
  Hints,         \* provider reset hints of a rate-limited error (0: no hint)
  StaleAfter,    \* olderThanMs of recoverStale
  CallsBounded,  \* do provider and store calls time out?
  CallLimit,     \* if so, the longest call
  MaxCalls,      \* provider requests of one handler
  OverdueCap,    \* BOUND: beyond it the order of overdue jobs is forgotten
  FaultBudget    \* BOUND: crashes and store faults in a behaviour

ASSUME RunAssumption ==
  /\ NoRun \notin Runs
  /\ NoJob \notin Jobs
  /\ Served \subseteq Jobs
ASSUME BodyAssumption ==
  /\ NoBody \notin Bodies
  /\ StoredForm \in [Bodies -> Bodies]
ASSUME WorkerAssumption == \A p \in Runs : WorkerIdOf[p] # NoWorker
ASSUME AttemptAssumption ==
  /\ MaxAttempts \in Nat \ {0}
  /\ Backoff \in [1..MaxAttempts -> Nat]
  /\ Hints \subseteq Nat
ASSUME TimeAssumption ==
  /\ StaleAfter \in Nat
  /\ CallsBounded \in BOOLEAN
  /\ CallLimit \in Nat \ {0}
  /\ MaxCalls \in Nat \ {0}
  /\ OverdueCap \in Nat
  /\ FaultBudget \in Nat

VARIABLES
  row,        \* the job rows
  run,        \* the runs
  faults,     \* crashes and store faults so far
  holder,     \* history: the run whose claim put the row in "running"
  recovered   \* history: the jobs that recoverStale ever took back

rowVars == <<row, holder, recovered>>
vars == <<row, run, faults, holder, recovered>>

Terminal == {"succeeded", "dead_letter"}
Waiting == {"queued", "retrying"}
Status == {"absent", "running"} \cup Waiting \cup Terminal
Settling == {"complete", "retry", "deadLetter"}

\* The code compares attempts only with maxAttempts: one value above it
\* stands for all of them.
AttemptsCap == MaxAttempts + 1

WorkerIds == {WorkerIdOf[p] : p \in Runs}
MaxOf(a, b) == IF a >= b THEN a ELSE b
MinOf(a, b) == IF a <= b THEN a ELSE b

FreshRow(body, status) ==
  [body |-> body, status |-> status, attempts |-> 0,
   due |-> 0, lockedBy |-> NoWorker, age |-> 0]
NoRow == FreshRow(NoBody, "absent")
Idle == [pc |-> "idle", job |-> NoJob, attempt |-> 0, calls |-> 0, clock |-> 0]

Row == [body : Bodies \cup {NoBody}, status : Status, attempts : 0..AttemptsCap,
        due : Int, lockedBy : WorkerIds \cup {NoWorker}, age : Nat]
Run == [pc : {"idle", "handling"} \cup Settling, job : Jobs \cup {NoJob},
        attempt : 0..AttemptsCap, calls : Nat, clock : Nat]

Init ==
  /\ row = [j \in Jobs |-> NoRow]
  /\ run = [p \in Runs |-> Idle]
  /\ faults = 0
  /\ holder = [j \in Jobs |-> NoRun]
  /\ recovered = {}

-----------------------------------------------------------------------------
(* Enqueue *)

\* Mutant: a settled job no longer occupies its key.
AnswerReopens(j, b) ==
  IF row[j].status \in Terminal \cup {"absent"} THEN "created"
  ELSE IF StoredForm[row[j].body] = b THEN "reused" ELSE "conflict"

\* createOrGet: what a caller that asks for body b under key j is told.
Answer(j, b) ==
  IF row[j].status = "absent" THEN "created"
  ELSE IF StoredForm[row[j].body] = b THEN "reused" ELSE "conflict"

Bind(j, b) == row' = [row EXCEPT ![j] = FreshRow(b, "queued")]

\* A key already bound changes nothing, whatever the answer.
Enqueue(j, b) ==
  /\ Answer(j, b) = "created"
  /\ Bind(j, b)
  /\ UNCHANGED <<run, faults, holder, recovered>>

-----------------------------------------------------------------------------
(* Claim and stale recovery *)

\* Mutant: the claim forgets the rows that wait for a retry.
EligibleQueued(j) == j \in Served /\ row[j].status = "queued" /\ row[j].due <= 0

Eligible(j) ==
  /\ j \in Served
  /\ row[j].status \in Waiting
  /\ row[j].due <= 0

\* The eligible job that has been available longest.
Oldest(j) ==
  /\ Eligible(j)
  /\ \A k \in Jobs : Eligible(k) => row[j].due <= row[k].due

Claimed(r, worker) ==
  [r EXCEPT !.status = "running", !.attempts = MinOf(@ + 1, AttemptsCap),
            !.due = 0, !.lockedBy = worker, !.age = 0]

\* claimNext returns the job with the attempt it has just counted.
Claim(p, j) ==
  /\ run[p].pc = "idle"
  /\ Oldest(j)
  /\ row' = [row EXCEPT ![j] = Claimed(@, WorkerIdOf[p])]
  /\ run' = [run EXCEPT ![p] = [pc |-> "handling", job |-> j,
                                attempt |-> MinOf(row[j].attempts + 1, AttemptsCap),
                                calls |-> 1, clock |-> 0]]
  /\ holder' = [holder EXCEPT ![j] = p]
  /\ UNCHANGED <<faults, recovered>>

\* Mutant: the cutoff is missing.
StaleAtOnce(j) == row[j].status = "running"

Stale(j) == row[j].status = "running" /\ row[j].age > StaleAfter

\* Mutant: locked_by is not cleared.
ReleasedLocked(r, status, due) == [r EXCEPT !.status = status, !.due = due, !.age = 0]

Released(r, status, due) ==
  [r EXCEPT !.status = status, !.due = due, !.lockedBy = NoWorker, !.age = 0]

\* Mutant: the recovery of a starting host takes back whatever runs.
RecoverRunning ==
  /\ \E j \in Jobs : row[j].status = "running"
  /\ row' = [j \in Jobs |-> IF row[j].status = "running"
                           THEN Released(row[j], "retrying", 0) ELSE row[j]]
  /\ holder' = [j \in Jobs |-> IF row[j].status = "running" THEN NoRun ELSE holder[j]]
  /\ recovered' = recovered \cup {j \in Jobs : row[j].status = "running"}
  /\ UNCHANGED <<run, faults>>

\* One UPDATE takes back every stale row; attempts are neither checked nor
\* changed, and the run that held the lock is not told.
RecoverStale ==
  /\ \E j \in Jobs : Stale(j)
  /\ row' = [j \in Jobs |-> IF Stale(j) THEN Released(row[j], "retrying", 0) ELSE row[j]]
  /\ holder' = [j \in Jobs |-> IF Stale(j) THEN NoRun ELSE holder[j]]
  /\ recovered' = recovered \cup {j \in Jobs : Stale(j)}
  /\ UNCHANGED <<run, faults>>

-----------------------------------------------------------------------------
(* The handler and its outcome *)

Goto(p, where) ==
  run' = [run EXCEPT ![p] = [@ EXCEPT !.pc = where, !.clock = 0]]

Requested(r) == [r EXCEPT !.calls = @ + 1, !.clock = 0]

\* The handler starts its next provider request.
NextRequest(p) ==
  /\ CallsBounded
  /\ run[p].pc = "handling"
  /\ run[p].calls < MaxCalls
  /\ run' = [run EXCEPT ![p] = Requested(@)]
  /\ UNCHANGED <<rowVars, faults>>

HandlerReturns(p) ==
  /\ run[p].pc = "handling"
  /\ Goto(p, "complete")
  /\ UNCHANGED <<rowVars, faults>>

\* Mutant: attempts compared with <=.
AfterErrorOnceMore(p, retryable) ==
  IF retryable /\ run[p].attempt <= MaxAttempts THEN "retry" ELSE "deadLetter"

\* The catch block's decision, on the attempt number the claim returned.
AfterError(p, retryable) ==
  IF retryable /\ run[p].attempt < MaxAttempts THEN "retry" ELSE "deadLetter"

HandlerThrows(p, retryable) ==
  /\ run[p].pc = "handling"
  /\ Goto(p, AfterError(p, retryable))
  /\ UNCHANGED <<rowVars, faults>>

-----------------------------------------------------------------------------
(* Settling: complete, retry and deadLetter of the store *)

\* Mutants: the lock owner is not compared; the status is not compared either.
OwnsRunning(p) == row[run[p].job].status = "running"
OwnsById(p) == row[run[p].job].status # "absent"

OwnsLock(p) ==
  /\ row[run[p].job].status = "running"
  /\ row[run[p].job].lockedBy = WorkerIdOf[p]

Release(j, status, due) ==
  /\ row' = [row EXCEPT ![j] = Released(@, status, due)]
  /\ holder' = [holder EXCEPT ![j] = NoRun]

\* Mutant: the run drops its job before it is over.
EndEarly(p) == run' = [run EXCEPT ![p] = [@ EXCEPT !.job = NoJob]]

End(p) == run' = [run EXCEPT ![p] = Idle]

RetryDelay(p, hint) == MaxOf(Backoff[run[p].attempt], hint)

\* The write a settling run asks for.
Write(p) ==
  LET j == run[p].job
  IN \/ run[p].pc = "complete" /\ Release(j, "succeeded", 0)
     \/ run[p].pc = "deadLetter" /\ Release(j, "dead_letter", 0)
     \/ run[p].pc = "retry"
          /\ \E hint \in Hints : Release(j, "retrying", RetryDelay(p, hint))

Settle(p) ==
  /\ run[p].pc \in Settling
  /\ OwnsLock(p)
  /\ Write(p)
  /\ End(p)
  /\ UNCHANGED <<faults, recovered>>

\* QUEUE_LOCK_CONFLICT is not retryable: out of complete it lands in the
\* catch block, which calls deadLetter; out of the catch block it escapes.
LockConflict(p) ==
  /\ run[p].pc \in Settling
  /\ ~OwnsLock(p)
  /\ IF run[p].pc = "complete" THEN Goto(p, "deadLetter") ELSE End(p)
  /\ UNCHANGED <<rowVars, faults>>

\* The store call fails, before or after its UPDATE took effect.
StoreFault(p, retryable) ==
  /\ run[p].pc \in Settling
  /\ faults < FaultBudget
  /\ faults' = faults + 1
  /\ \/ OwnsLock(p) /\ Write(p)
     \/ UNCHANGED <<row, holder>>
  /\ IF run[p].pc = "complete" THEN Goto(p, AfterError(p, retryable)) ELSE End(p)
  /\ UNCHANGED recovered

\* The host dies, or the response of the claim is lost.
Crash(p) ==
  /\ run[p].pc # "idle"
  /\ faults < FaultBudget
  /\ faults' = faults + 1
  /\ End(p)
  /\ UNCHANGED rowVars

-----------------------------------------------------------------------------
(* Time *)

Aged(r) ==
  [r EXCEPT !.due = IF r.status \in Waiting THEN MaxOf(@ - 1, -OverdueCap) ELSE 0,
            !.age = IF r.status = "running" THEN MinOf(@ + 1, StaleAfter + 1) ELSE 0]

Waited(r) == IF r.pc = "idle" THEN r ELSE [r EXCEPT !.clock = @ + 1]

Tick ==
  /\ CallsBounded => \A p \in Runs : run[p].pc # "idle" => run[p].clock < CallLimit
  /\ row' = [j \in Jobs |-> Aged(row[j])]
  /\ run' = IF CallsBounded
            THEN [p \in Runs |-> Waited(run[p])]
            ELSE run
  /\ UNCHANGED <<faults, holder, recovered>>

-----------------------------------------------------------------------------

RunStep(p) ==
  \/ NextRequest(p)
  \/ HandlerReturns(p)
  \/ \E retryable \in BOOLEAN : HandlerThrows(p, retryable)
  \/ Settle(p)
  \/ LockConflict(p)

Next ==
  \/ \E j \in Jobs, b \in Bodies : Enqueue(j, b)
  \/ \E p \in Runs, j \in Jobs : Claim(p, j)
  \/ RecoverStale
  \/ \E p \in Runs : RunStep(p)
  \/ \E p \in Runs, retryable \in BOOLEAN : StoreFault(p, retryable)
  \/ \E p \in Runs : Crash(p)
  \/ Tick

Spec == Init /\ [][Next]_vars

\* The runner's timer pumps for ever: stale rows are recovered and due jobs
\* claimed.  A call that is bounded ends, so a run that is not killed goes on.
Fairness ==
  /\ WF_vars(Tick)
  /\ WF_vars(RecoverStale)
  /\ WF_vars(\E p \in Runs, j \in Jobs : Claim(p, j))
  /\ \A p \in Runs : WF_vars(RunStep(p))

FairSpec == Spec /\ Fairness

-----------------------------------------------------------------------------
(* The abstract specification this one implements when no two runs share a *)
(* worker id.                                                              *)

Lease == INSTANCE JobLease WITH
           status <- [j \in Jobs |-> row[j].status],
           holder <- holder,
           active <- [p \in Runs |-> run[p].job]

-----------------------------------------------------------------------------
(* Properties *)

\* The queue grants exclusive leases: only the run that claimed a job decides
\* how it leaves "running" (the lock checks of job.store.js and of
\* postgres-job-store.js).
ImplementsLease == Lease!Spec

\* Every row and run is well formed; a run that is not idle names a job that
\* exists (mapJob and the CHECKs of 0003_create_queue_jobs.sql).
TypeOK ==
  /\ row \in [Jobs -> Row]
  /\ run \in [Runs -> Run]
  /\ faults \in Nat
  /\ holder \in [Jobs -> Runs \cup {NoRun}]
  /\ recovered \in SUBSET Jobs
  /\ \A p \in Runs :
       run[p].pc # "idle" => /\ run[p].job \in Jobs
                             /\ run[p].attempt \in 1..AttemptsCap

\* A row is "running" exactly while a lock owner and an age are recorded, and
\* the lock carries the name of the run that made the current claim: nothing
\* between claim, recovery and settlement leaves a lock behind or drops one.
LockMatchesHolder ==
  \A j \in Jobs :
    /\ row[j].status = "running" <=> holder[j] # NoRun
    /\ row[j].lockedBy = IF holder[j] = NoRun THEN NoWorker ELSE WorkerIdOf[holder[j]]
    /\ row[j].status # "running" => row[j].age = 0

\* A row that leaves "running" other than by going stale is settled by the
\* very run that made the current claim ("Job lock is not owned by this
\* worker", job.store.js:46): no late run settles a successor's attempt.
SettlesOwnAttempt ==
  [][\A j \in Jobs :
       row[j].status = "running" /\ row'[j].status # "running"
         => \/ Stale(j)
            \/ \E p \in Runs : /\ holder[j] = p
                               /\ run[p].job = j
                               /\ run[p].pc \in Settling
                               /\ run'[p] # run[p]]_vars

\* A terminal row never changes again, whatever late runs, recoveries or
\* repeated enqueues still arrive.
TerminalIsFinal ==
  [][\A j \in Jobs : row[j].status \in Terminal => row'[j] = row[j]]_vars

\* Only stale recovery lets a job be attempted more than max_attempts times:
\* the bound holds through every retry, late settlement and store fault.
RetriesWithinMax ==
  \A j \in Jobs : row[j].attempts > MaxAttempts => j \in recovered

\* A run whose handler is still working holds the current claim of its job:
\* a live job is never reclaimed as stale (scheduler-config.js:15).
LiveJobKeepsLock ==
  \A p \in Runs : run[p].pc = "handling" => holder[run[p].job] = p

\* Repeating the enqueue that created a row is answered "reused"
\* (AI-Automation-Contract.md:27).
ReplayIsReused ==
  \A j \in Jobs :
    row[j].status # "absent" => Answer(j, row[j].body) = "reused"

\* An accepted request is never rewritten: no later enqueue under the same key
\* replaces the payload, revives the job or forgets attempts already made.
RequestIsKept ==
  [][\A j \in Jobs :
       row[j].status # "absent" => /\ row'[j].body = row[j].body
                                   /\ row'[j].attempts >= row[j].attempts
                                   /\ row'[j].status # "queued" \/ row[j].status = "queued"]_vars

\* Every accepted job in the claim's tenant scope is eventually settled for
\* good, through retries, store faults, crashes and recovery.
JobsSettle ==
  \A j \in Served : row[j].status # "absent" ~> row[j].status \in Terminal
=============================================================================

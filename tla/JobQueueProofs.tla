--------------------------- MODULE JobQueueProofs ---------------------------
(***************************************************************************)
(* Theorems about JobQueue, for every set of jobs and runs and every value *)
(* of the other constants.                                                 *)
(***************************************************************************)
EXTENDS JobQueue, TLAPS

USE RunAssumption, BodyAssumption, WorkerAssumption, AttemptAssumption, TimeAssumption

-----------------------------------------------------------------------------
(* What is added to TypeOK to make it inductive *)

\* An idle run remembers nothing, and a run that asks for a retry has attempts
\* left: its backoff delay is defined.
RunsKnown ==
  \A p \in Runs : /\ run[p].pc = "idle" => run[p] = Idle
                  /\ run[p].pc = "retry" => run[p].attempt < MaxAttempts

-----------------------------------------------------------------------------
(* What the operations on one row and on one run do *)

\* The attempt counter saturates inside its type and never loses an attempt.
LEMMA AttemptCount ==
  ASSUME NEW a \in 0..AttemptsCap
  PROVE  /\ MinOf(a + 1, AttemptsCap) \in 1..AttemptsCap
         /\ a < MaxAttempts => MinOf(a + 1, AttemptsCap) = a + 1
BY DEF MinOf, AttemptsCap

\* A claim turns a row into a locked row of the next attempt.
LEMMA ClaimedRow ==
  ASSUME NEW r \in Row, NEW w \in WorkerIds
  PROVE  /\ Claimed(r, w) \in Row
         /\ Claimed(r, w).body = r.body
         /\ Claimed(r, w).status = "running"
         /\ Claimed(r, w).attempts = MinOf(r.attempts + 1, AttemptsCap)
         /\ Claimed(r, w).due = 0
         /\ Claimed(r, w).lockedBy = w
         /\ Claimed(r, w).age = 0
<1>. DEFINE n == MinOf(r.attempts + 1, AttemptsCap)
<1>1. /\ r.attempts \in 0..AttemptsCap
      /\ AttemptsCap \in Nat
  BY DEF Row, AttemptsCap
<1>2. n \in 0..AttemptsCap
  BY <1>1, AttemptCount
<1>3. Claimed(r, w) = [r EXCEPT !.status = "running", !.attempts = n,
                               !.due = 0, !.lockedBy = w, !.age = 0]
  BY DEF Claimed
<1>. HIDE DEF n
<1>4. Claimed(r, w) = [body |-> r.body, status |-> "running", attempts |-> n,
                      due |-> 0, lockedBy |-> w, age |-> 0]
  BY <1>3 DEF Row
<1>5. Claimed(r, w) \in Row
  BY <1>1, <1>2, <1>4 DEF Row, Status
<1>6. Claimed(r, w).attempts = n
  BY <1>4
<1>. QED
  BY <1>4, <1>5, <1>6 DEF n

\* A release keeps the request and its attempts and drops the lock.
LEMMA ReleasedRow ==
  ASSUME NEW r \in Row, NEW status \in Status, NEW due \in Int
  PROVE  /\ Released(r, status, due) \in Row
         /\ Released(r, status, due).body = r.body
         /\ Released(r, status, due).status = status
         /\ Released(r, status, due).attempts = r.attempts
         /\ Released(r, status, due).due = due
         /\ Released(r, status, due).lockedBy = NoWorker
         /\ Released(r, status, due).age = 0
BY DEF Released, Row

\* Time changes nothing of a row but its due time and its age.
LEMMA AgedRow ==
  ASSUME NEW r \in Row
  PROVE  /\ Aged(r) \in Row
         /\ Aged(r).body = r.body
         /\ Aged(r).status = r.status
         /\ Aged(r).attempts = r.attempts
         /\ Aged(r).lockedBy = r.lockedBy
         /\ r.status # "running" => Aged(r).age = 0
         /\ r.status \notin Waiting => Aged(r).due = 0
         /\ Aged(r).age <= r.age + 1
<1>1. r.age \in Nat /\ r.due \in Int
  BY DEF Row
<1>. DEFINE age == IF r.status = "running" THEN MinOf(r.age + 1, StaleAfter + 1) ELSE 0
            due == IF r.status \in Waiting THEN MaxOf(r.due - 1, -OverdueCap) ELSE 0
<1>2. /\ age \in Nat /\ age <= r.age + 1
      /\ r.status # "running" => age = 0
  BY <1>1 DEF MinOf
<1>3. /\ due \in Int
      /\ r.status \notin Waiting => due = 0
  BY <1>1 DEF MaxOf
<1>4. Aged(r) = [r EXCEPT !.due = due, !.age = age]
  BY DEF Aged
<1>. HIDE DEF age, due
<1>5. Aged(r) = [body |-> r.body, status |-> r.status, attempts |-> r.attempts,
                 due |-> due, lockedBy |-> r.lockedBy, age |-> age]
  BY <1>4 DEF Row
<1>6. Aged(r) \in Row
  BY <1>2, <1>3, <1>5 DEF Row
<1>7. Aged(r).age = age /\ Aged(r).due = due
  BY <1>5
<1>. QED
  BY <1>2, <1>3, <1>5, <1>6, <1>7

\* A run that goes to another phase keeps its job and its attempt.
LEMMA GotoRun ==
  ASSUME TypeOK, NEW p \in Runs, NEW where \in {"handling"} \cup Settling, Goto(p, where)
  PROVE  /\ run' \in [Runs -> Run]
         /\ run'[p].pc = where
         /\ run'[p].job = run[p].job
         /\ run'[p].attempt = run[p].attempt
         /\ run'[p].calls = run[p].calls
         /\ run'[p].clock = 0
         /\ \A q \in Runs \ {p} : run'[q] = run[q]
<1>1. run[p] \in Run /\ run \in [Runs -> Run]
  BY DEF TypeOK
<1>2. [run[p] EXCEPT !.pc = where, !.clock = 0] \in Run
  BY <1>1 DEF Run, Settling
<1>3. run' = [run EXCEPT ![p] = [run[p] EXCEPT !.pc = where, !.clock = 0]]
  BY DEF Goto
<1>. QED
  BY <1>1, <1>2, <1>3 DEF Run

\* A further request and the passing of time leave a run where it is.
LEMMA RequestedRun ==
  ASSUME NEW r \in Run
  PROVE  /\ Requested(r) \in Run
         /\ Requested(r).pc = r.pc
         /\ Requested(r).job = r.job
         /\ Requested(r).attempt = r.attempt
         /\ Requested(r).calls = r.calls + 1
         /\ Requested(r).clock = 0
<1>. DEFINE c == r.calls + 1
<1>1. c \in Nat
  BY DEF Run
<1>2. Requested(r) = [r EXCEPT !.calls = c, !.clock = 0]
  BY DEF Requested
<1>. HIDE DEF c
<1>3. Requested(r) = [pc |-> r.pc, job |-> r.job, attempt |-> r.attempt,
                      calls |-> c, clock |-> 0]
  BY <1>2 DEF Run
<1>4. Requested(r) \in Run
  BY <1>1, <1>3 DEF Run
<1>5. Requested(r).calls = c
  BY <1>3
<1>. QED
  BY <1>3, <1>4, <1>5 DEF c

\* A tick moves the clock of a live run only.
LEMMA WaitedRun ==
  ASSUME NEW r \in Run
  PROVE  /\ Waited(r) \in Run
         /\ Waited(r).pc = r.pc
         /\ Waited(r).job = r.job
         /\ Waited(r).attempt = r.attempt
         /\ Waited(r).calls = r.calls
         /\ IF r.pc = "idle" THEN Waited(r) = r ELSE Waited(r).clock = r.clock + 1
<1>. DEFINE c == r.clock + 1
<1>1. c \in Nat
  BY DEF Run
<1>2. Waited(r) = IF r.pc = "idle" THEN r ELSE [r EXCEPT !.clock = c]
  BY DEF Waited
<1>. HIDE DEF c
<1>3. /\ Waited(r) \in Run
      /\ r.pc # "idle" => Waited(r).clock = c
  BY <1>1, <1>2 DEF Run
<1>4. Waited(r).calls = r.calls
  BY <1>2 DEF Run
<1>5. Waited(r).pc = r.pc /\ Waited(r).job = r.job /\ Waited(r).attempt = r.attempt
  BY <1>2 DEF Run
<1>. QED
  BY <1>2, <1>3, <1>4, <1>5 DEF c

\* A run that ends forgets everything.
LEMMA EndRun ==
  ASSUME TypeOK, NEW p \in Runs, End(p)
  PROVE  /\ run' \in [Runs -> Run]
         /\ run'[p] = Idle
         /\ \A q \in Runs \ {p} : run'[q] = run[q]
<1>1. Idle \in Run
  BY DEF Idle, Run, AttemptsCap
<1>. QED
  BY <1>1 DEF End, TypeOK

\* A failed call sends a run to retry, while attempts are left, or to deadLetter.
LEMMA AfterErrorRange ==
  ASSUME NEW p, NEW retryable
  PROVE  /\ AfterError(p, retryable) \in {"retry", "deadLetter"}
         /\ AfterError(p, retryable) = "retry" => run[p].attempt < MaxAttempts
BY DEF AfterError

\* The write of a settling run is a release of its job: to "retrying" in the
\* retry phase, to a terminal status, with nothing left to wait for, otherwise.
LEMMA WriteReleases ==
  ASSUME TypeOK, RunsKnown, NEW p \in Runs, run[p].pc \in Settling, Write(p)
  PROVE  \E status \in Terminal \cup {"retrying"}, due \in Int :
           /\ Release(run[p].job, status, due)
           /\ status = "retrying" <=> run[p].pc = "retry"
           /\ status \in Terminal => due = 0
<1>1. CASE run[p].pc = "complete"
  BY <1>1 DEF Write, Terminal
<1>2. CASE run[p].pc = "deadLetter"
  BY <1>2 DEF Write, Terminal
<1>3. CASE run[p].pc = "retry"
  <2>1. PICK hint \in Hints : Release(run[p].job, "retrying", RetryDelay(p, hint))
    BY <1>3 DEF Write
  <2>2. MaxOf(Backoff[run[p].attempt], hint) \in Int
    <3>1. run[p].attempt \in 1..MaxAttempts
      BY <1>3 DEF TypeOK, RunsKnown, Settling, AttemptsCap
    <3>. QED
      BY <3>1 DEF MaxOf
  <2>. QED
    BY <1>3, <2>1, <2>2 DEF RetryDelay, Terminal
<1>. QED
  BY <1>1, <1>2, <1>3 DEF Settling

-----------------------------------------------------------------------------
(* Type correctness *)

RowsOK == row \in [Jobs -> Row] /\ holder \in [Jobs -> Runs \cup {NoRun}]
RunsOK ==
  /\ run \in [Runs -> Run]
  /\ RunsKnown
  /\ \A p \in Runs : run[p].pc # "idle" => /\ run[p].job \in Jobs
                                          /\ run[p].attempt \in 1..AttemptsCap

TypeInv == TypeOK /\ RunsKnown

\* TypeInv, sorted by the variables it is about.
LEMMA TypeParts ==
  TypeInv <=> RowsOK /\ RunsOK /\ faults \in Nat /\ recovered \in SUBSET Jobs
BY DEF TypeInv, TypeOK, RowsOK, RunsOK

\* A busy run may go on to any phase it has the attempts for.
LEMMA GotoKeepsRuns ==
  ASSUME TypeInv, NEW p \in Runs, run[p].pc # "idle",
         NEW where \in {"handling"} \cup Settling, Goto(p, where),
         where = "retry" => run[p].attempt < MaxAttempts
  PROVE  RunsOK'
<1>1. TypeOK /\ RunsKnown
  BY DEF TypeInv
<1>2. /\ run' \in [Runs -> Run]
      /\ run'[p].pc = where
      /\ run'[p].job = run[p].job
      /\ run'[p].attempt = run[p].attempt
      /\ \A q \in Runs \ {p} : run'[q] = run[q]
  BY <1>1, GotoRun
<1>. QED
  BY <1>1, <1>2 DEF RunsOK, RunsKnown, TypeOK, Settling

\* A run may end at any time.
LEMMA EndKeepsRuns ==
  ASSUME TypeInv, NEW p \in Runs, End(p)
  PROVE  RunsOK'
<1>1. TypeOK /\ RunsKnown
  BY DEF TypeInv
<1>2. /\ run' \in [Runs -> Run]
      /\ run'[p] = Idle
      /\ \A q \in Runs \ {p} : run'[q] = run[q]
  BY <1>1, EndRun
<1>. QED
  BY <1>1, <1>2, SMTT(30) DEF RunsOK, RunsKnown, TypeOK, Idle

\* The write of a settling run keeps the rows well formed.
LEMMA WriteKeepsRows ==
  ASSUME TypeInv, NEW p \in Runs, run[p].pc \in Settling, Write(p)
  PROVE  RowsOK'
<1>1. TypeOK /\ RunsKnown
  BY DEF TypeInv
<1>2. PICK status \in Terminal \cup {"retrying"}, due \in Int :
        Release(run[p].job, status, due)
  BY <1>1, WriteReleases
<1>3. run[p].job \in Jobs /\ row[run[p].job] \in Row
  BY <1>1 DEF TypeOK, Settling
<1>4. Released(row[run[p].job], status, due) \in Row
  BY <1>3, ReleasedRow DEF Status, Waiting
<1>. QED
  BY <1>1, <1>2, <1>3, <1>4 DEF Release, RowsOK, TypeOK

\* Every step keeps rows and runs well formed.
LEMMA TypeStep == TypeInv /\ [Next]_vars => TypeInv'
<1>. SUFFICES ASSUME TypeInv, [Next]_vars
              PROVE  RowsOK' /\ RunsOK' /\ (faults \in Nat)' /\ (recovered \in SUBSET Jobs)'
  BY TypeParts, PTL
<1>. USE TypeParts
<1>1. ASSUME NEW j \in Jobs, NEW b \in Bodies, Enqueue(j, b)
      PROVE  RowsOK' /\ RunsOK' /\ faults' = faults /\ recovered' = recovered
  <2>1. FreshRow(b, "queued") \in Row
    BY DEF FreshRow, Row, Status, Waiting, AttemptsCap
  <2>2. row' = [row EXCEPT ![j] = FreshRow(b, "queued")]
    BY <1>1 DEF Enqueue, Bind
  <2>3. UNCHANGED <<run, faults, holder, recovered>>
    BY <1>1 DEF Enqueue
  <2>4. RowsOK'
    BY <2>1, <2>2, <2>3 DEF RowsOK
  <2>. QED
    BY <2>3, <2>4 DEF RunsOK, RunsKnown
<1>2. ASSUME NEW p \in Runs, NEW j \in Jobs, Claim(p, j)
      PROVE  RowsOK' /\ RunsOK' /\ faults' = faults /\ recovered' = recovered
  <2>. DEFINE n == MinOf(row[j].attempts + 1, AttemptsCap)
              r == [pc |-> "handling", job |-> j, attempt |-> n, calls |-> 1, clock |-> 0]
  <2>1. row[j] \in Row /\ row[j].attempts \in 0..AttemptsCap /\ AttemptsCap \in Nat
    BY DEF RowsOK, Row, AttemptsCap
  <2>2. n \in 1..AttemptsCap
    BY <2>1, AttemptCount
  <2>3. /\ run' = [run EXCEPT ![p] = r]
        /\ row' = [row EXCEPT ![j] = Claimed(row[j], WorkerIdOf[p])]
        /\ holder' = [holder EXCEPT ![j] = p]
        /\ UNCHANGED <<faults, recovered>>
    BY <1>2 DEF Claim
  <2>4. Claimed(row[j], WorkerIdOf[p]) \in Row
    BY <2>1, ClaimedRow DEF WorkerIds
  <2>5. RowsOK'
    BY <2>3, <2>4 DEF RowsOK
  <2>. HIDE DEF n
  <2>6. r \in Run
    BY <2>1, <2>2 DEF Run
  <2>7. RunsOK'
    BY <2>2, <2>3, <2>6 DEF RunsOK, RunsKnown
  <2>. QED
    BY <2>3, <2>5, <2>7
<1>3. ASSUME RecoverStale
      PROVE  RowsOK' /\ RunsOK' /\ faults' = faults /\ recovered' \in SUBSET Jobs
  <2>1. \A j \in Jobs : Released(row[j], "retrying", 0) \in Row
    BY ReleasedRow DEF RowsOK, Status, Waiting
  <2>2. RowsOK'
    BY <1>3, <2>1 DEF RecoverStale, RowsOK
  <2>. QED
    BY <1>3, <2>2 DEF RecoverStale, RunsOK, RunsKnown
<1>4. ASSUME NEW p \in Runs, NextRequest(p)
      PROVE  RowsOK' /\ RunsOK' /\ faults' = faults /\ recovered' = recovered
  <2>1. run[p] \in Run /\ run[p].pc = "handling"
    BY <1>4 DEF NextRequest, RunsOK
  <2>2. /\ Requested(run[p]) \in Run
        /\ Requested(run[p]).pc = run[p].pc
        /\ Requested(run[p]).job = run[p].job
        /\ Requested(run[p]).attempt = run[p].attempt
    BY <2>1, RequestedRun
  <2>3. run' = [run EXCEPT ![p] = Requested(run[p])]
    BY <1>4 DEF NextRequest
  <2>4. RunsOK'
    BY <2>1, <2>2, <2>3 DEF RunsOK, RunsKnown
  <2>. QED
    BY <1>4, <2>4 DEF NextRequest, rowVars, RowsOK
<1>5. ASSUME NEW p \in Runs, HandlerReturns(p)
      PROVE  RowsOK' /\ RunsOK' /\ faults' = faults /\ recovered' = recovered
  BY <1>5, GotoKeepsRuns DEF HandlerReturns, Settling, rowVars, RowsOK
<1>6. ASSUME NEW p \in Runs, NEW retryable \in BOOLEAN, HandlerThrows(p, retryable)
      PROVE  RowsOK' /\ RunsOK' /\ faults' = faults /\ recovered' = recovered
  BY <1>6, GotoKeepsRuns, AfterErrorRange DEF HandlerThrows, Settling, rowVars, RowsOK
<1>7. ASSUME NEW p \in Runs, Settle(p)
      PROVE  RowsOK' /\ RunsOK' /\ faults' = faults /\ recovered' = recovered
  BY <1>7, WriteKeepsRows, EndKeepsRuns DEF Settle
<1>8. ASSUME NEW p \in Runs, LockConflict(p)
      PROVE  RowsOK' /\ RunsOK' /\ faults' = faults /\ recovered' = recovered
  <2>1. RunsOK'
    BY <1>8, GotoKeepsRuns, EndKeepsRuns DEF LockConflict, Settling
  <2>. QED
    BY <1>8, <2>1 DEF LockConflict, rowVars, RowsOK
<1>9. ASSUME NEW p \in Runs, NEW retryable \in BOOLEAN, StoreFault(p, retryable)
      PROVE  RowsOK' /\ RunsOK' /\ faults' = faults + 1 /\ recovered' = recovered
  <2>1. RunsOK'
    BY <1>9, GotoKeepsRuns, EndKeepsRuns, AfterErrorRange DEF StoreFault, Settling
  <2>2. RowsOK'
    BY <1>9, WriteKeepsRows DEF StoreFault, RowsOK
  <2>. QED
    BY <1>9, <2>1, <2>2 DEF StoreFault
<1>10. ASSUME NEW p \in Runs, Crash(p)
       PROVE  RowsOK' /\ RunsOK' /\ faults' = faults + 1 /\ recovered' = recovered
  BY <1>10, EndKeepsRuns DEF Crash, rowVars, RowsOK
<1>11. ASSUME Tick
       PROVE  RowsOK' /\ RunsOK' /\ faults' = faults /\ recovered' = recovered
  <2>1. \A j \in Jobs : Aged(row[j]) \in Row
    BY AgedRow DEF RowsOK
  <2>2. RowsOK'
    BY <1>11, <2>1 DEF Tick, RowsOK
  <2>3. \A p \in Runs : /\ Waited(run[p]) \in Run
                        /\ Waited(run[p]).pc = run[p].pc
                        /\ Waited(run[p]).job = run[p].job
                        /\ Waited(run[p]).attempt = run[p].attempt
                        /\ run[p].pc = "idle" => Waited(run[p]) = run[p]
    BY WaitedRun DEF RunsOK
  <2>4. \/ run' = run
        \/ run' = [p \in Runs |-> Waited(run[p])]
    BY <1>11 DEF Tick
  <2>5. RunsOK'
    BY <2>3, <2>4 DEF RunsOK, RunsKnown, Idle
  <2>. QED
    BY <1>11, <2>2, <2>5 DEF Tick
<1>12. CASE UNCHANGED vars
  BY <1>12 DEF vars, RowsOK, RunsOK, RunsKnown
<1>. QED
  BY <1>1, <1>2, <1>3, <1>4, <1>5, <1>6, <1>7, <1>8, <1>9, <1>10, <1>11, <1>12 DEF Next, RunStep

\* Rows and runs stay well formed, and only the runs of the instance are named.
LEMMA TypeInvariant == Spec => []TypeInv
<1>1. Init => TypeInv
  BY DEF Init, TypeInv, TypeOK, RunsKnown, NoRow, FreshRow, Idle, Row, Run, Status, AttemptsCap
<1>. QED
  BY <1>1, TypeStep, PTL DEF Spec

\* Type correctness: every reachable row, run and lock is well formed; in
\* particular the queue never looks up a backoff delay its table does not have.
THEOREM TypeCorrect == Spec => []TypeOK
BY TypeInvariant, PTL DEF TypeInv

-----------------------------------------------------------------------------
(* What each action does to the rows and the locks, job by job *)

\* An enqueue that creates a row touches that row only (createOrGet).
LEMMA EnqueueEffect ==
  ASSUME TypeInv, NEW j \in Jobs, NEW b \in Bodies, Enqueue(j, b)
  PROVE  /\ row[j].status = "absent"
         /\ row'[j] = FreshRow(b, "queued")
         /\ row'[j].status = "queued"
         /\ row'[j].attempts = 0
         /\ row'[j].due = 0 /\ row'[j].age = 0
         /\ row'[j].lockedBy = NoWorker
         /\ \A k \in Jobs \ {j} : row'[k] = row[k]
         /\ UNCHANGED <<run, faults, holder, recovered>>
<1>1. /\ row[j].status = "absent"
      /\ row'[j] = FreshRow(b, "queued")
      /\ \A k \in Jobs \ {j} : row'[k] = row[k]
      /\ UNCHANGED <<run, faults, holder, recovered>>
  BY DEF TypeInv, TypeOK, Enqueue, Answer, Bind
<1>. QED
  BY <1>1 DEF FreshRow

\* A claim starts the run and locks one waiting row in its name (claimNext).
LEMMA ClaimEffect ==
  ASSUME TypeInv, NEW p \in Runs, NEW j \in Jobs, Claim(p, j)
  PROVE  /\ run[p].pc = "idle"
         /\ row[j].status \in Waiting
         /\ row'[j] = Claimed(row[j], WorkerIdOf[p])
         /\ row'[j].status = "running"
         /\ row'[j].attempts = MinOf(row[j].attempts + 1, AttemptsCap)
         /\ row'[j].due = 0 /\ row'[j].age = 0
         /\ row'[j].lockedBy = WorkerIdOf[p]
         /\ run'[p].pc = "handling" /\ run'[p].job = j
         /\ run'[p].attempt = MinOf(row[j].attempts + 1, AttemptsCap)
         /\ run'[p].calls = 1 /\ run'[p].clock = 0
         /\ holder'[j] = p
         /\ \A k \in Jobs \ {j} : row'[k] = row[k] /\ holder'[k] = holder[k]
         /\ \A q \in Runs \ {p} : run'[q] = run[q]
         /\ UNCHANGED <<faults, recovered>>
<1>1. /\ row \in [Jobs -> Row] /\ run \in [Runs -> Run]
      /\ holder \in [Jobs -> Runs \cup {NoRun}]
  BY DEF TypeInv, TypeOK
<1>2. /\ run[p].pc = "idle"
      /\ row[j].status \in Waiting
      /\ row' = [row EXCEPT ![j] = Claimed(row[j], WorkerIdOf[p])]
      /\ holder' = [holder EXCEPT ![j] = p]
      /\ UNCHANGED <<faults, recovered>>
  BY DEF Claim, Oldest, Eligible
<1>3. row[j] \in Row /\ WorkerIdOf[p] \in WorkerIds
  BY <1>1 DEF WorkerIds
<1>. DEFINE n == MinOf(row[j].attempts + 1, AttemptsCap)
<1>4. run' = [run EXCEPT ![p] = [pc |-> "handling", job |-> j, attempt |-> n,
                                calls |-> 1, clock |-> 0]]
  BY DEF Claim
<1>. HIDE DEF n
<1>5. /\ run'[p].pc = "handling" /\ run'[p].job = j /\ run'[p].attempt = n
      /\ run'[p].calls = 1 /\ run'[p].clock = 0
      /\ \A q \in Runs \ {p} : run'[q] = run[q]
  BY <1>1, <1>4
<1>6. /\ row'[j] = Claimed(row[j], WorkerIdOf[p])
      /\ holder'[j] = p
      /\ \A k \in Jobs \ {j} : row'[k] = row[k] /\ holder'[k] = holder[k]
  BY <1>1, <1>2
<1>. QED
  BY <1>2, <1>3, <1>5, <1>6, ClaimedRow DEF n

\* Recovery releases the stale rows, attempts untouched, and no other row.
LEMMA RecoverEffect ==
  ASSUME TypeInv, RecoverStale
  PROVE  /\ \A j \in Jobs :
              IF Stale(j)
              THEN /\ row[j].status = "running"
                   /\ row'[j].status = "retrying"
                   /\ row'[j].body = row[j].body
                   /\ row'[j].attempts = row[j].attempts
                   /\ row'[j].due = 0 /\ row'[j].age = 0
                   /\ row'[j].lockedBy = NoWorker
                   /\ holder'[j] = NoRun
                   /\ j \in recovered'
              ELSE row'[j] = row[j] /\ holder'[j] = holder[j]
         /\ recovered \subseteq recovered'
         /\ UNCHANGED <<run, faults>>
<1>1. \A j \in Jobs : row[j] \in Row
  BY DEF TypeInv, TypeOK
<1>2. "retrying" \in Status /\ 0 \in Int
  BY DEF Status, Waiting
<1>. QED
  BY <1>1, <1>2, ReleasedRow, SMTT(30) DEF RecoverStale, Stale

\* A settling run whose write takes effect.
LEMMA WriteEffect ==
  ASSUME TypeInv, NEW p \in Runs, run[p].pc \in Settling, Write(p),
         NEW j, j = run[p].job
  PROVE  /\ j \in Jobs
         /\ row'[j].status \in Terminal \cup {"retrying"}
         /\ row'[j].status = "retrying" <=> run[p].pc = "retry"
         /\ row'[j].body = row[j].body
         /\ row'[j].attempts = row[j].attempts
         /\ row'[j].status \in Terminal => row'[j].due = 0
         /\ row'[j].age = 0
         /\ row'[j].lockedBy = NoWorker
         /\ holder'[j] = NoRun
         /\ \A k \in Jobs \ {j} : row'[k] = row[k] /\ holder'[k] = holder[k]
<1>1. TypeOK /\ RunsKnown
  BY DEF TypeInv
<1>2. PICK status \in Terminal \cup {"retrying"}, due \in Int :
        /\ Release(j, status, due)
        /\ status = "retrying" <=> run[p].pc = "retry"
        /\ status \in Terminal => due = 0
  BY <1>1, WriteReleases
<1>3. j \in Jobs /\ row[j] \in Row /\ status \in Status
  BY <1>1 DEF TypeOK, Settling, Status, Waiting
<1>4. /\ row'[j] = Released(row[j], status, due)
      /\ holder'[j] = NoRun
      /\ \A k \in Jobs \ {j} : row'[k] = row[k] /\ holder'[k] = holder[k]
  BY <1>1, <1>2, <1>3 DEF Release, TypeOK
<1>5. /\ Released(row[j], status, due).status = status
      /\ Released(row[j], status, due).body = row[j].body
      /\ Released(row[j], status, due).attempts = row[j].attempts
      /\ Released(row[j], status, due).due = due
      /\ Released(row[j], status, due).lockedBy = NoWorker
      /\ Released(row[j], status, due).age = 0
  BY <1>3, ReleasedRow, Z3
<1>6. /\ row'[j].status = status
      /\ row'[j].body = row[j].body
      /\ row'[j].attempts = row[j].attempts
      /\ row'[j].due = due
      /\ row'[j].lockedBy = NoWorker
      /\ row'[j].age = 0
  BY <1>4, <1>5
<1>. QED
  BY <1>2, <1>3, <1>4, <1>6

\* A tick changes ages, due times and clocks, and nothing else.
LEMMA TickEffect ==
  ASSUME TypeInv, Tick
  PROVE  /\ \A j \in Jobs : /\ row'[j] = Aged(row[j])
                            /\ row'[j].body = row[j].body
                            /\ row'[j].status = row[j].status
                            /\ row'[j].attempts = row[j].attempts
                            /\ row'[j].lockedBy = row[j].lockedBy
                            /\ row[j].status # "running" => row'[j].age = 0
                            /\ row[j].status \notin Waiting => row'[j].due = 0
         /\ \A p \in Runs : /\ run'[p].pc = run[p].pc
                            /\ run'[p].job = run[p].job
                            /\ run'[p].attempt = run[p].attempt
         /\ UNCHANGED <<faults, holder, recovered>>
<1>1. row \in [Jobs -> Row] /\ run \in [Runs -> Run]
  BY DEF TypeInv, TypeOK
<1>2. \A j \in Jobs : row'[j] = Aged(row[j])
  BY DEF Tick
<1>3. run' = run \/ \A p \in Runs : run'[p] = Waited(run[p])
  BY DEF Tick
<1>. QED
  BY <1>1, <1>2, <1>3, AgedRow, WaitedRun DEF Tick

\* A tick ages a row by one at most.
LEMMA TickAges ==
  ASSUME TypeInv, Tick, NEW j \in Jobs
  PROVE  row'[j].age <= row[j].age + 1
<1>1. row[j] \in Row
  BY DEF TypeInv, TypeOK
<1>2. row'[j] = Aged(row[j])
  BY DEF Tick
<1>. QED
  BY <1>1, <1>2, AgedRow

\* With bounded calls, a tick finds every live run within its call limit.
LEMMA TickClocks ==
  ASSUME TypeInv, Tick, CallsBounded, NEW p \in Runs, run[p].pc # "idle"
  PROVE  /\ run[p].clock < CallLimit
         /\ run'[p].clock = run[p].clock + 1
         /\ run'[p].calls = run[p].calls
<1>1. run[p] \in Run
  BY DEF TypeInv, TypeOK
<1>2. run'[p] = Waited(run[p]) /\ run[p].clock < CallLimit
  BY DEF Tick
<1>. QED
  BY <1>1, <1>2, WaitedRun

-----------------------------------------------------------------------------
(* Locks *)

\* Every step keeps status, lock and holder in agreement.
LEMMA LockStep == TypeInv /\ LockMatchesHolder /\ [Next]_vars => LockMatchesHolder'
<1>. SUFFICES ASSUME TypeInv, LockMatchesHolder, [Next]_vars
              PROVE  LockMatchesHolder'
  OBVIOUS
<1>. USE DEF LockMatchesHolder
<1>1. ASSUME NEW j \in Jobs, NEW b \in Bodies, Enqueue(j, b)
      PROVE  LockMatchesHolder'
  BY <1>1, EnqueueEffect
<1>2. ASSUME NEW p \in Runs, NEW j \in Jobs, Claim(p, j)
      PROVE  LockMatchesHolder'
  BY <1>2, ClaimEffect
<1>3. CASE RecoverStale
  BY <1>3, RecoverEffect
<1>4. ASSUME NEW p \in Runs, run[p].pc \in Settling, Write(p)
      PROVE  LockMatchesHolder'
  BY <1>4, WriteEffect, SMTT(30) DEF Terminal
<1>5. CASE UNCHANGED <<row, holder>>
  BY <1>5
<1>6. CASE Tick
  BY <1>6, TickEffect
<1>. QED
  BY <1>1, <1>2, <1>3, <1>4, <1>5, <1>6
     DEF Next, RunStep, NextRequest, HandlerReturns, HandlerThrows, Settle,
         LockConflict, StoreFault, Crash, rowVars, vars

\* A job is "running" exactly while one run holds its claim, and the row names
\* that run's worker: no interleaving of claims, stale recoveries, settlements,
\* store faults and crashes leaves a lock behind or loses one.
THEOREM LocksAreExact == Spec => []LockMatchesHolder
<1>1. Init => LockMatchesHolder
  <2>1. ASSUME Init, NEW j \in Jobs
        PROVE  /\ holder[j] = NoRun
               /\ row[j].status = "absent" /\ row[j].lockedBy = NoWorker /\ row[j].age = 0
    BY <2>1 DEF Init, NoRow, FreshRow
  <2>. QED
    BY <2>1 DEF LockMatchesHolder
<1>. QED
  BY <1>1, LockStep, TypeInvariant, PTL DEF Spec

-----------------------------------------------------------------------------
(* Attempts *)

\* Why the bound holds for a job that never went stale: a job that waits has an
\* attempt left; a run that works on it counts the same attempts as the row;
\* the row waits for that run, or is settled for good; and there is one such
\* run at most.
Accounting ==
  /\ \A j \in Jobs \ recovered :
       /\ row[j].attempts <= MaxAttempts
       /\ row[j].status \in Waiting \cup {"absent"} => row[j].attempts < MaxAttempts
  /\ \A p \in Runs :
       run[p].pc # "idle" /\ run[p].job \notin recovered =>
         /\ row[run[p].job].attempts = run[p].attempt
         /\ row[run[p].job].status \in {"running"} \cup Terminal
  /\ \A p, q \in Runs :
       /\ run[p].pc # "idle" /\ run[q].pc # "idle"
       /\ run[p].job = run[q].job /\ run[p].job \notin recovered
       => p = q

\* Steps that leave the rows alone and at most end runs or move them on.
LEMMA AccountingOfRuns ==
  ASSUME TypeInv, Accounting, UNCHANGED <<row, recovered>>,
         \A p \in Runs :
           run'[p].pc # "idle" => /\ run[p].pc # "idle"
                                 /\ run'[p].job = run[p].job
                                 /\ run'[p].attempt = run[p].attempt
  PROVE  Accounting'
BY DEF Accounting

\* A run that moves or ends keeps or drops its job.
LEMMA MovesKeepJobs ==
  ASSUME TypeInv, NEW p \in Runs, run[p].pc # "idle",
         End(p) \/ \E where \in {"handling"} \cup Settling : Goto(p, where)
  PROVE  \A q \in Runs :
           run'[q].pc # "idle" => /\ run[q].pc # "idle"
                                 /\ run'[q].job = run[q].job
                                 /\ run'[q].attempt = run[q].attempt
<1>1. TypeOK
  BY DEF TypeInv
<1>2. CASE End(p)
  <2>1. run'[p] = Idle /\ \A q \in Runs \ {p} : run'[q] = run[q]
    BY <1>1, <1>2, EndRun
  <2>. QED
    BY <2>1 DEF Idle
<1>3. ASSUME NEW where \in {"handling"} \cup Settling, Goto(p, where)
      PROVE  \A q \in Runs :
               run'[q].pc # "idle" => /\ run[q].pc # "idle"
                                     /\ run'[q].job = run[q].job
                                     /\ run'[q].attempt = run[q].attempt
  BY <1>1, <1>3, GotoRun
<1>. QED
  BY <1>2, <1>3

\* A write that takes effect: to a terminal row, or, when the run also ends,
\* back to a row that has an attempt left.
LEMMA AccountingOfWrite ==
  ASSUME TypeInv, Accounting, NEW p \in Runs, run[p].pc \in Settling, Write(p),
         UNCHANGED recovered,
         \/ End(p)
         \/ /\ run[p].pc # "retry"
            /\ \E where \in {"handling"} \cup Settling : Goto(p, where)
  PROVE  Accounting'
<1>. DEFINE j == run[p].job
<1>1. run[p].pc # "idle"
  BY DEF Settling
<1>2. /\ j \in Jobs
      /\ row'[j].status \in Terminal \cup {"retrying"}
      /\ row'[j].status = "retrying" <=> run[p].pc = "retry"
      /\ row'[j].attempts = row[j].attempts
      /\ \A k \in Jobs \ {j} : row'[k] = row[k]
  BY WriteEffect
<1>3. \A q \in Runs :
        run'[q].pc # "idle" => /\ run[q].pc # "idle"
                              /\ run'[q].job = run[q].job
                              /\ run'[q].attempt = run[q].attempt
  BY <1>1, MovesKeepJobs
<1>4. \A q \in Runs : run[q].pc # "idle" => run[q].job \in Jobs
  BY DEF TypeInv, TypeOK
<1>5. run[p].pc = "retry" => run[p].attempt < MaxAttempts /\ run'[p].pc = "idle"
  BY EndRun DEF TypeInv, RunsKnown, Idle
<1>6. \A k \in Jobs \ recovered' :
        /\ row'[k].attempts <= MaxAttempts
        /\ row'[k].status \in Waiting \cup {"absent"} => row'[k].attempts < MaxAttempts
  BY <1>1, <1>2, <1>5 DEF Accounting, Terminal, Waiting
<1>7. \A q \in Runs :
        run'[q].pc # "idle" /\ run'[q].job \notin recovered' =>
          /\ row'[run'[q].job].attempts = run'[q].attempt
          /\ row'[run'[q].job].status \in {"running"} \cup Terminal
  <2>1. SUFFICES ASSUME NEW q \in Runs, run'[q].pc # "idle", run'[q].job \notin recovered'
                 PROVE  /\ row'[run'[q].job].attempts = run'[q].attempt
                        /\ row'[run'[q].job].status \in {"running"} \cup Terminal
    OBVIOUS
  <2>2. CASE run[q].job = j
    <3>1. q = p
      BY <1>1, <1>3, <2>1, <2>2 DEF Accounting
    <3>. QED
      BY <1>1, <1>2, <1>3, <1>5, <2>1, <3>1 DEF Accounting
  <2>3. CASE run[q].job # j
    BY <1>2, <1>3, <1>4, <2>1, <2>3 DEF Accounting
  <2>. QED
    BY <2>2, <2>3
<1>. QED
  BY <1>3, <1>6, <1>7 DEF Accounting

\* Every step keeps the account.
LEMMA AccountingStep == TypeInv /\ Accounting /\ [Next]_vars => Accounting'
<1>. SUFFICES ASSUME TypeInv, Accounting, [Next]_vars
              PROVE  Accounting'
  OBVIOUS
<1>0. \A p \in Runs : run[p].pc # "idle" => run[p].job \in Jobs
  BY DEF TypeInv, TypeOK
<1>1. ASSUME NEW j \in Jobs, NEW b \in Bodies, Enqueue(j, b)
      PROVE  Accounting'
  <2>1. /\ row[j].status = "absent"
        /\ row'[j].status = "queued" /\ row'[j].attempts = 0
        /\ \A k \in Jobs \ {j} : row'[k] = row[k]
        /\ UNCHANGED <<run, recovered>>
    BY <1>1, EnqueueEffect
  <2>2. \A p \in Runs : run[p].pc # "idle" /\ run[p].job \notin recovered => run[p].job # j
    BY <2>1 DEF Accounting, Terminal
  <2>. QED
    BY <1>0, <2>1, <2>2 DEF Accounting
<1>2. ASSUME NEW p \in Runs, NEW j \in Jobs, Claim(p, j)
      PROVE  Accounting'
  <2>1. /\ run[p].pc = "idle"
        /\ row[j].status \in Waiting
        /\ row'[j].status = "running"
        /\ row'[j].attempts = run'[p].attempt
        /\ run'[p].pc = "handling" /\ run'[p].job = j
        /\ \A k \in Jobs \ {j} : row'[k] = row[k]
        /\ \A q \in Runs \ {p} : run'[q] = run[q]
        /\ UNCHANGED recovered
    BY <1>2, ClaimEffect
  <2>2. ASSUME j \notin recovered
        PROVE  row'[j].attempts <= MaxAttempts
    <3>1. row[j].attempts \in 0..AttemptsCap /\ row[j].attempts < MaxAttempts
      BY <2>1, <2>2 DEF Accounting, TypeInv, TypeOK, Row
    <3>2. row'[j].attempts = row[j].attempts + 1
      BY <1>2, <3>1, ClaimEffect, AttemptCount
    <3>. QED
      BY <3>1, <3>2
  <2>3. \A q \in Runs \ {p} :
          run[q].pc # "idle" /\ run[q].job \notin recovered => run[q].job # j
    BY <2>1 DEF Accounting, Terminal, Waiting
  <2>4. \A k \in Jobs \ recovered' :
          /\ row'[k].attempts <= MaxAttempts
          /\ row'[k].status \in Waiting \cup {"absent"} => row'[k].attempts < MaxAttempts
    BY <2>1, <2>2 DEF Accounting, Waiting
  <2>5. \A q \in Runs :
          run'[q].pc # "idle" /\ run'[q].job \notin recovered' =>
            /\ row'[run'[q].job].attempts = run'[q].attempt
            /\ row'[run'[q].job].status \in {"running"} \cup Terminal
    <3>1. ASSUME NEW q \in Runs \ {p}, run[q].pc # "idle", run[q].job \notin recovered
          PROVE  row'[run[q].job] = row[run[q].job]
      BY <1>0, <2>1, <2>3, <3>1
    <3>. QED
      BY <2>1, <3>1 DEF Accounting
  <2>6. \A q, q2 \in Runs :
          /\ run'[q].pc # "idle" /\ run'[q2].pc # "idle"
          /\ run'[q].job = run'[q2].job /\ run'[q].job \notin recovered'
          => q = q2
    BY <2>1, <2>3 DEF Accounting
  <2>. QED
    BY <2>4, <2>5, <2>6 DEF Accounting
<1>3. CASE RecoverStale
  <2>1. /\ \A j \in Jobs \ recovered' : row'[j] = row[j]
        /\ recovered \subseteq recovered'
        /\ UNCHANGED run
    BY <1>3, RecoverEffect
  <2>. QED
    BY <1>0, <2>1 DEF Accounting
<1>4. ASSUME NEW p \in Runs, NextRequest(p)
      PROVE  Accounting'
  <2>1. /\ run[p] \in Run /\ run \in [Runs -> Run] /\ run[p].pc = "handling"
        /\ run' = [run EXCEPT ![p] = Requested(run[p])]
        /\ UNCHANGED <<row, recovered>>
    BY <1>4 DEF NextRequest, TypeInv, TypeOK, rowVars
  <2>. QED
    BY <2>1, RequestedRun, AccountingOfRuns
<1>5. ASSUME NEW p \in Runs, HandlerReturns(p)
      PROVE  Accounting'
  BY <1>5, MovesKeepJobs, AccountingOfRuns DEF HandlerReturns, Settling, rowVars
<1>6. ASSUME NEW p \in Runs, NEW retryable \in BOOLEAN, HandlerThrows(p, retryable)
      PROVE  Accounting'
  BY <1>6, MovesKeepJobs, AfterErrorRange, AccountingOfRuns
     DEF HandlerThrows, Settling, rowVars
<1>7. ASSUME NEW p \in Runs, Settle(p)
      PROVE  Accounting'
  BY <1>7, AccountingOfWrite DEF Settle
<1>8. ASSUME NEW p \in Runs, LockConflict(p)
      PROVE  Accounting'
  BY <1>8, MovesKeepJobs, AccountingOfRuns DEF LockConflict, Settling, rowVars
<1>9. ASSUME NEW p \in Runs, NEW retryable \in BOOLEAN, StoreFault(p, retryable)
      PROVE  Accounting'
  <2>1. /\ run[p].pc \in Settling /\ UNCHANGED recovered
        /\ End(p) \/ (run[p].pc = "complete" /\ Goto(p, AfterError(p, retryable)))
        /\ Write(p) \/ UNCHANGED row
    BY <1>9 DEF StoreFault
  <2>2. AfterError(p, retryable) \in {"handling"} \cup Settling
    BY AfterErrorRange DEF Settling
  <2>3. CASE Write(p)
    BY <2>1, <2>2, <2>3, AccountingOfWrite
  <2>4. CASE UNCHANGED row
    BY <2>1, <2>2, <2>4, MovesKeepJobs, AccountingOfRuns DEF Settling
  <2>. QED
    BY <2>1, <2>3, <2>4
<1>10. ASSUME NEW p \in Runs, Crash(p)
       PROVE  Accounting'
  BY <1>10, MovesKeepJobs, AccountingOfRuns DEF Crash, rowVars
<1>11. CASE Tick
  <2>1. /\ \A j \in Jobs : row'[j].status = row[j].status /\ row'[j].attempts = row[j].attempts
        /\ \A p \in Runs : /\ run'[p].pc = run[p].pc
                           /\ run'[p].job = run[p].job
                           /\ run'[p].attempt = run[p].attempt
        /\ UNCHANGED recovered
    BY <1>11, TickEffect
  <2>. QED
    BY <1>0, <2>1 DEF Accounting
<1>12. CASE UNCHANGED vars
  BY <1>12 DEF vars, Accounting
<1>. QED
  BY <1>1, <1>2, <1>3, <1>4, <1>5, <1>6, <1>7, <1>8, <1>9, <1>10, <1>11, <1>12 DEF Next, RunStep

\* Retries, late settlements, store faults and crashes never take a job past
\* max_attempts: only a stale recovery can.
THEOREM AttemptsBounded == Spec => []RetriesWithinMax
<1>1. Init => Accounting
  <2>1. ASSUME Init
        PROVE  /\ \A j \in Jobs : row[j].attempts = 0
               /\ \A p \in Runs : run[p].pc = "idle"
    BY <2>1 DEF Init, NoRow, FreshRow, Idle
  <2>. QED
    BY <2>1 DEF Accounting
<1>2. TypeInv /\ Accounting => RetriesWithinMax
  <2>1. ASSUME TypeInv, NEW j \in Jobs
        PROVE  row[j].attempts \in Int
    BY <2>1 DEF TypeInv, TypeOK, Row
  <2>. QED
    BY <2>1 DEF Accounting, RetriesWithinMax
<1>. QED
  BY <1>1, <1>2, AccountingStep, TypeInvariant, PTL DEF Spec

-----------------------------------------------------------------------------
(* Terminal rows *)

\* A settled row waits for nothing.
RestingDue == \A j \in Jobs : row[j].status \in Terminal => row[j].due = 0

\* A row that neither waits nor runs does not age.
LEMMA AgedTerminal ==
  ASSUME NEW r \in Row, r.status \in Terminal, r.due = 0, r.age = 0
  PROVE  Aged(r) = r
<1>1. Aged(r) = [r EXCEPT !.due = 0, !.age = 0]
  BY DEF Aged, Terminal, Waiting
<1>2. [r EXCEPT !.due = r.due, !.age = r.age] = r
  BY DEF Row
<1>. QED
  BY <1>1, <1>2

\* No step touches a terminal row, and a row becomes terminal at rest.
LEMMA TerminalStep ==
  ASSUME TypeInv, LockMatchesHolder, RestingDue, [Next]_vars
  PROVE  /\ RestingDue'
         /\ \A j \in Jobs : row[j].status \in Terminal => row'[j] = row[j]
<1>. USE DEF RestingDue
<1>1. ASSUME NEW j \in Jobs, NEW b \in Bodies, Enqueue(j, b)
      PROVE  /\ RestingDue'
             /\ \A k \in Jobs : row[k].status \in Terminal => row'[k] = row[k]
  BY <1>1, EnqueueEffect DEF Terminal
<1>2. ASSUME NEW p \in Runs, NEW j \in Jobs, Claim(p, j)
      PROVE  /\ RestingDue'
             /\ \A k \in Jobs : row[k].status \in Terminal => row'[k] = row[k]
  BY <1>2, ClaimEffect DEF Terminal, Waiting
<1>3. CASE RecoverStale
  BY <1>3, RecoverEffect DEF Terminal
<1>4. ASSUME NEW p \in Runs, run[p].pc \in Settling, OwnsLock(p), Write(p)
      PROVE  /\ RestingDue'
             /\ \A k \in Jobs : row[k].status \in Terminal => row'[k] = row[k]
  BY <1>4, WriteEffect DEF OwnsLock, Terminal
<1>5. CASE UNCHANGED row
  BY <1>5
<1>6. CASE Tick
  <2>1. \A j \in Jobs : row'[j] = Aged(row[j]) /\ row'[j].status = row[j].status
    BY <1>6, TickEffect
  <2>2. \A j \in Jobs : row[j].status \in Terminal => Aged(row[j]) = row[j]
    BY AgedTerminal DEF LockMatchesHolder, TypeInv, TypeOK, Terminal
  <2>. QED
    BY <2>1, <2>2
<1>. QED
  BY <1>1, <1>2, <1>3, <1>4, <1>5, <1>6
     DEF Next, RunStep, NextRequest, HandlerReturns, HandlerThrows, Settle,
         LockConflict, StoreFault, Crash, rowVars, vars

\* A terminal row is due at 0 in every reachable state.
LEMMA RestingDueInvariant == Spec => []RestingDue
<1>1. Init => RestingDue
  BY DEF Init, RestingDue, NoRow, FreshRow
<1>. QED
  BY <1>1, TerminalStep, TypeInvariant, LocksAreExact, PTL DEF Spec

\* A job that succeeded or was dead-lettered stays exactly as it is, whatever
\* late runs, recoveries and repeated enqueues still arrive.
THEOREM TerminalRowsAreFinal == Spec => TerminalIsFinal
<1>1. TypeInv /\ LockMatchesHolder /\ RestingDue /\ [Next]_vars
        => [\A j \in Jobs : row[j].status \in Terminal => row'[j] = row[j]]_vars
  BY TerminalStep
<1>. QED
  BY <1>1, TypeInvariant, LocksAreExact, RestingDueInvariant, PTL DEF Spec, TerminalIsFinal

-----------------------------------------------------------------------------
(* Shared worker ids, bounded calls: the stale timeout keeps the lease *)

\* Every call of a handler and the two settling calls that may follow it fit
\* in the stale timeout.
CallsFit == CallsBounded /\ (MaxCalls + 2) * CallLimit <= StaleAfter

\* The longest time between the claim and the current call of a run.
Spent(r) == IF r.pc = "handling" THEN (r.calls - 1) * CallLimit
            ELSE IF r.pc = "complete" THEN MaxCalls * CallLimit
            ELSE (MaxCalls + 1) * CallLimit

\* A busy run holds its job, which is no older than the calls made so far, or
\* its "complete" was lost and the job is settled for good.
RunOnTime(p) ==
  /\ run[p].calls \in 1..MaxCalls
  /\ run[p].clock <= CallLimit
  /\ \/ /\ holder[run[p].job] = p
        /\ row[run[p].job].age <= Spent(run[p]) + run[p].clock
     \/ /\ run[p].pc \in {"retry", "deadLetter"}
        /\ row[run[p].job].status \in Terminal
OnTime == \A p \in Runs : run[p].pc # "idle" => RunOnTime(p)

\* The products of the time bound, computed once.
LEMMA CallArithmetic ==
  ASSUME NEW c \in 1..MaxCalls
  PROVE  /\ (c - 1) * CallLimit \in Nat
         /\ MaxCalls * CallLimit \in Nat
         /\ (c - 1) * CallLimit + CallLimit = (c + 1 - 1) * CallLimit
         /\ (c - 1) * CallLimit + CallLimit <= MaxCalls * CallLimit
         /\ MaxCalls * CallLimit + CallLimit = (MaxCalls + 1) * CallLimit
         /\ (MaxCalls + 1) * CallLimit + CallLimit = (MaxCalls + 2) * CallLimit
         /\ (1 - 1) * CallLimit = 0
<1>1. (c - 1) * CallLimit + CallLimit = c * CallLimit
  OBVIOUS
<1>2. c * CallLimit + (MaxCalls - c) * CallLimit = MaxCalls * CallLimit
  OBVIOUS
<1>3. (MaxCalls - c) * CallLimit \in Nat
  OBVIOUS
<1>. QED
  BY <1>1, <1>2, <1>3

\* A run r has spent less, by one call, than a run s of a later phase, and less
\* than the stale timeout.
LEMMA SpentGrows ==
  ASSUME CallsFit, NEW r, NEW s, r.calls \in 1..MaxCalls
  PROVE  /\ Spent(r) \in Nat
         /\ Spent(r) + CallLimit <= StaleAfter
         /\ \/ r.pc = "handling" /\ s.pc # "handling"
            \/ r.pc = "complete" /\ s.pc \in {"retry", "deadLetter"}
            => Spent(s) \in Nat /\ Spent(r) + CallLimit <= Spent(s)
<1>. DEFINE n == (r.calls - 1) * CallLimit
            m == MaxCalls * CallLimit
            k == (MaxCalls + 1) * CallLimit
            t == (MaxCalls + 2) * CallLimit
<1>1. /\ n \in Nat /\ m \in Nat
      /\ n + CallLimit <= m /\ m + CallLimit = k /\ k + CallLimit = t
  BY CallArithmetic
<1>2. t <= StaleAfter
  BY DEF CallsFit
<1>3. /\ r.pc = "handling" => Spent(r) = n
      /\ r.pc = "complete" => Spent(r) = m
      /\ r.pc \notin {"handling", "complete"} => Spent(r) = k
      /\ s.pc = "complete" => Spent(s) = m
      /\ s.pc \notin {"handling", "complete"} => Spent(s) = k
  BY DEF Spent
<1>. HIDE DEF n, m, k, t
<1>4. k \in Nat /\ t \in Nat /\ m <= k /\ n + CallLimit <= k
  BY <1>1
<1>. QED
  BY <1>1, <1>2, <1>3, <1>4

\* No busy run's job is stale.
LEMMA BusyIsFresh ==
  ASSUME CallsFit, TypeInv, OnTime, NEW p \in Runs, run[p].pc # "idle"
  PROVE  ~Stale(run[p].job)
<1>1. RunOnTime(p)
  BY DEF OnTime
<1>2. /\ run[p].job \in Jobs /\ row[run[p].job].age \in Nat
      /\ run[p].clock \in Nat /\ run[p].calls \in 1..MaxCalls
  BY <1>1 DEF TypeInv, TypeOK, Row, Run, RunOnTime
<1>3. Spent(run[p]) \in Nat /\ Spent(run[p]) + CallLimit <= StaleAfter
  BY <1>2, SpentGrows
<1>4. CASE row[run[p].job].age <= Spent(run[p]) + run[p].clock
  BY <1>1, <1>2, <1>3, <1>4 DEF RunOnTime, Stale
<1>. QED
  BY <1>1, <1>4 DEF RunOnTime, Stale, Terminal

\* What a step leaves alone stays on time.
LEMMA UntouchedOnTime ==
  ASSUME NEW p \in Runs, RunOnTime(p), run'[p] = run[p],
         row'[run[p].job] = row[run[p].job], holder'[run[p].job] = holder[run[p].job]
  PROVE  RunOnTime(p)'
BY DEF RunOnTime, Spent

\* A run that holds its job goes on to its next phase on time.
LEMMA GotoOnTime ==
  ASSUME CallsFit, TypeInv, NEW p \in Runs, run[p].pc # "idle", RunOnTime(p),
         NEW where \in Settling, Goto(p, where),
         \/ run[p].pc = "handling"
         \/ run[p].pc = "complete" /\ where # "complete",
         row'[run[p].job] = row[run[p].job], holder'[run[p].job] = holder[run[p].job]
  PROVE  RunOnTime(p)'
<1>1. TypeOK /\ run[p].pc \in {"handling", "complete"}
  BY DEF TypeInv
<1>2. /\ run'[p].pc = where /\ run'[p].job = run[p].job
      /\ run'[p].calls = run[p].calls /\ run'[p].clock = 0
  BY <1>1, GotoRun
<1>3. /\ row[run[p].job].age \in Nat
      /\ run[p].clock \in Nat /\ run[p].calls \in 1..MaxCalls
      /\ run[p].clock <= CallLimit
      /\ holder[run[p].job] = p
      /\ row[run[p].job].age <= Spent(run[p]) + run[p].clock
  BY <1>1 DEF TypeOK, Row, Run, RunOnTime
<1>4. /\ Spent(run[p]) \in Nat /\ Spent(run'[p]) \in Nat
      /\ Spent(run[p]) + CallLimit <= Spent(run'[p])
  <2>1. \/ run[p].pc = "handling" /\ run'[p].pc # "handling"
        \/ run[p].pc = "complete" /\ run'[p].pc \in {"retry", "deadLetter"}
    BY <1>2 DEF Settling
  <2>. QED
    BY <1>3, <2>1, SpentGrows
<1>5. row[run[p].job].age <= Spent(run'[p]) + 0
  BY <1>3, <1>4
<1>. QED
  BY <1>2, <1>3, <1>5 DEF RunOnTime

\* Every step keeps every run within its time.
LEMMA OnTimeStep == CallsFit /\ TypeInv /\ LockMatchesHolder /\ OnTime /\ [Next]_vars => OnTime'
<1>. SUFFICES ASSUME CallsFit, TypeInv, LockMatchesHolder, OnTime, [Next]_vars,
                     NEW q \in Runs, run'[q].pc # "idle"
              PROVE  RunOnTime(q)'
  BY DEF OnTime
<1>0. /\ TypeOK /\ CallsBounded
      /\ \A p \in Runs : run[p].pc # "idle" => run[p].job \in Jobs /\ RunOnTime(p)
  BY DEF TypeInv, TypeOK, CallsFit, OnTime
<1>1. ASSUME NEW j \in Jobs, NEW b \in Bodies, Enqueue(j, b)
      PROVE  RunOnTime(q)'
  <2>1. /\ row[j].status = "absent"
        /\ \A k \in Jobs \ {j} : row'[k] = row[k]
        /\ run' = run /\ holder' = holder
    BY <1>1, EnqueueEffect
  <2>2. run[q].job # j
    BY <1>0, <2>1 DEF RunOnTime, LockMatchesHolder, Terminal
  <2>. QED
    BY <1>0, <2>1, <2>2, UntouchedOnTime
<1>2. ASSUME NEW p \in Runs, NEW j \in Jobs, Claim(p, j)
      PROVE  RunOnTime(q)'
  <2>1. /\ run[p].pc = "idle" /\ row[j].status \in Waiting
        /\ row'[j].age = 0 /\ holder'[j] = p
        /\ run'[p].pc = "handling" /\ run'[p].job = j
        /\ run'[p].calls = 1 /\ run'[p].clock = 0
        /\ \A k \in Jobs \ {j} : row'[k] = row[k] /\ holder'[k] = holder[k]
        /\ \A r \in Runs \ {p} : run'[r] = run[r]
    BY <1>2, ClaimEffect
  <2>2. CASE q = p
    <3>1. Spent(run'[p]) = 0
      BY <2>1 DEF Spent
    <3>. QED
      BY <2>1, <2>2, <3>1 DEF RunOnTime
  <2>3. CASE q # p
    <3>1. run[q].job # j
      BY <1>0, <2>1, <2>3 DEF RunOnTime, LockMatchesHolder, Terminal, Waiting
    <3>. QED
      BY <1>0, <2>1, <2>3, <3>1, UntouchedOnTime
  <2>. QED
    BY <2>2, <2>3
<1>3. CASE RecoverStale
  <2>1. run' = run
    BY <1>3, RecoverEffect
  <2>2. ~Stale(run[q].job)
    BY <2>1, BusyIsFresh
  <2>. QED
    BY <1>0, <1>3, <2>1, <2>2, RecoverEffect, UntouchedOnTime
<1>4. ASSUME NEW p \in Runs, NextRequest(p)
      PROVE  RunOnTime(q)'
  <2>1. /\ run[p] \in Run /\ run \in [Runs -> Run]
        /\ run[p].pc = "handling" /\ run[p].calls < MaxCalls
        /\ run' = [run EXCEPT ![p] = Requested(run[p])]
        /\ row' = row /\ holder' = holder
    BY <1>0, <1>4 DEF NextRequest, TypeOK, rowVars
  <2>2. CASE q # p
    BY <1>0, <2>1, <2>2, UntouchedOnTime
  <2>3. CASE q = p
    <3>1. /\ run'[p].pc = "handling" /\ run'[p].job = run[p].job
          /\ run'[p].calls = run[p].calls + 1 /\ run'[p].clock = 0
      BY <2>1, RequestedRun
    <3>2. /\ run[p].calls \in 1..MaxCalls /\ run[p].clock \in Nat
          /\ run[p].clock <= CallLimit
          /\ holder[run[p].job] = p
          /\ row[run[p].job].age \in Nat
          /\ row[run[p].job].age <= (run[p].calls - 1) * CallLimit + run[p].clock
      BY <1>0, <2>1 DEF RunOnTime, Spent, TypeOK, Row, Run
    <3>. DEFINE n == (run[p].calls - 1) * CallLimit
    <3>3. Spent(run'[p]) = n + CallLimit
      BY <3>1, <3>2, CallArithmetic DEF Spent
    <3>4. n \in Nat
      BY <3>2, CallArithmetic
    <3>5. row[run[p].job].age <= n + run[p].clock
      BY <3>2
    <3>. HIDE DEF n
    <3>6. row[run[p].job].age <= Spent(run'[p]) + 0
      BY <3>2, <3>3, <3>4, <3>5, SMTT(30)
    <3>. QED
      BY <2>1, <2>3, <3>1, <3>2, <3>6, SMTT(30) DEF RunOnTime
  <2>. QED
    BY <2>2, <2>3
<1>5. ASSUME NEW p \in Runs, run[p].pc # "idle",
             NEW where \in Settling, Goto(p, where), UNCHANGED <<row, holder>>,
             \/ run[p].pc = "handling"
             \/ run[p].pc = "complete" /\ where # "complete"
      PROVE  RunOnTime(q)'
  <2>1. \A r \in Runs \ {p} : run'[r] = run[r]
    BY <1>0, <1>5, GotoRun
  <2>2. CASE q = p
    BY <1>0, <1>5, <2>2, GotoOnTime
  <2>3. CASE q # p
    BY <1>0, <1>5, <2>1, <2>3, UntouchedOnTime
  <2>. QED
    BY <2>2, <2>3
<1>6. ASSUME NEW p \in Runs, End(p), UNCHANGED <<row, holder>>
      PROVE  RunOnTime(q)'
  <2>1. q # p /\ run'[q] = run[q]
    BY <1>0, <1>6, EndRun DEF Idle
  <2>. QED
    BY <1>0, <1>6, <2>1, UntouchedOnTime
<1>7. ASSUME NEW p \in Runs, run[p].pc \in Settling, OwnsLock(p), Write(p),
             \/ End(p)
             \/ /\ run[p].pc = "complete"
                /\ \E where \in {"retry", "deadLetter"} : Goto(p, where)
      PROVE  RunOnTime(q)'
  <2>. DEFINE j == run[p].job
  <2>1. /\ run[p].pc # "idle" /\ j \in Jobs
        /\ row[j].status = "running" /\ holder[j] = p
    BY <1>0, <1>7 DEF Settling, OwnsLock, RunOnTime, Terminal
  <2>2. /\ row'[j].status \in Terminal \cup {"retrying"}
        /\ row'[j].status = "retrying" <=> run[p].pc = "retry"
        /\ \A k \in Jobs \ {j} : row'[k] = row[k] /\ holder'[k] = holder[k]
    BY <1>7, WriteEffect
  <2>3. CASE q = p
    <3>1. PICK where \in {"retry", "deadLetter"} : run[p].pc = "complete" /\ Goto(p, where)
      BY <1>0, <1>7, <2>3, EndRun DEF Idle
    <3>2. /\ run'[p].pc = where /\ run'[p].job = j
          /\ run'[p].calls = run[p].calls /\ run'[p].clock = 0
      BY <1>0, <3>1, GotoRun DEF Settling
    <3>. QED
      BY <1>0, <2>1, <2>2, <2>3, <3>1, <3>2 DEF RunOnTime
  <2>4. CASE q # p
    <3>1. run'[q] = run[q]
      BY <1>0, <1>7, <2>4, EndRun, GotoRun DEF Settling
    <3>2. run[q].job # j
      BY <1>0, <2>1, <2>4, <3>1 DEF RunOnTime, Terminal
    <3>. QED
      BY <1>0, <2>2, <3>1, <3>2, UntouchedOnTime
  <2>. QED
    BY <2>3, <2>4
<1>8. CASE Tick
  <2>1. /\ run'[q].pc = run[q].pc /\ run'[q].job = run[q].job
        /\ run'[q].calls = run[q].calls
        /\ run[q].clock < CallLimit /\ run'[q].clock = run[q].clock + 1
        /\ holder' = holder
    BY <1>0, <1>8, TickEffect, TickClocks
  <2>2. /\ run[q].job \in Jobs
        /\ row'[run[q].job].status = row[run[q].job].status
        /\ row'[run[q].job].age <= row[run[q].job].age + 1
        /\ row'[run[q].job].age \in Nat
    BY <1>0, <1>8, <2>1, TickEffect, TickAges, TypeStep DEF TypeInv, TypeOK, Row
  <2>3. /\ row[run[q].job].age \in Nat /\ run[q].clock \in Nat
        /\ run[q].calls \in 1..MaxCalls
        /\ Spent(run'[q]) = Spent(run[q])
    BY <1>0, <2>1 DEF TypeOK, Row, Run, RunOnTime, Spent
  <2>4. Spent(run[q]) \in Nat
    BY <2>3, SpentGrows
  <2>. DEFINE a == row[run[q].job].age
              b == row'[run[q].job].age
              t == Spent(run[q])
              c == run[q].clock
  <2>5. ASSUME a <= t + c
        PROVE  b <= Spent(run'[q]) + run'[q].clock
    <3>1. /\ a \in Nat /\ b \in Nat /\ c \in Nat /\ t \in Nat
          /\ b <= a + 1 /\ a <= t + c
          /\ Spent(run'[q]) = t /\ run'[q].clock = c + 1
      BY <2>1, <2>2, <2>3, <2>4, <2>5
    <3>. HIDE DEF a, b, t, c
    <3>. QED
      BY <3>1
  <2>6. run'[q].clock <= CallLimit
    BY <2>1, <2>3
  <2>. QED
    BY <1>0, <2>1, <2>2, <2>3, <2>5, <2>6 DEF RunOnTime
<1>9. ASSUME NEW p \in Runs, LockConflict(p)
      PROVE  RunOnTime(q)'
  BY <1>5, <1>6, <1>9 DEF LockConflict, Settling, rowVars
<1>10. ASSUME NEW p \in Runs, NEW retryable \in BOOLEAN, StoreFault(p, retryable)
       PROVE  RunOnTime(q)'
  <2>1. /\ run[p].pc \in Settling /\ run[p].pc # "idle"
        /\ (OwnsLock(p) /\ Write(p)) \/ UNCHANGED <<row, holder>>
        /\ End(p) \/ (run[p].pc = "complete" /\ Goto(p, AfterError(p, retryable)))
    BY <1>10 DEF StoreFault, Settling
  <2>2. AfterError(p, retryable) \in {"retry", "deadLetter"}
    BY AfterErrorRange
  <2>. QED
    BY <1>5, <1>6, <1>7, <2>1, <2>2 DEF Settling
<1>11. ASSUME NEW p \in Runs, NEW retryable \in BOOLEAN,
              HandlerReturns(p) \/ HandlerThrows(p, retryable)
       PROVE  RunOnTime(q)'
  <2>1. AfterError(p, retryable) \in Settling /\ "complete" \in Settling
    BY AfterErrorRange DEF Settling
  <2>. QED
    BY <1>5, <1>11, <2>1 DEF HandlerReturns, HandlerThrows, rowVars
<1>12. ASSUME NEW p \in Runs, Settle(p) \/ Crash(p)
       PROVE  RunOnTime(q)'
  BY <1>6, <1>7, <1>12 DEF Settle, Crash, rowVars
<1>13. CASE UNCHANGED vars
  BY <1>0, <1>13, UntouchedOnTime DEF vars
<1>. QED
  BY <1>1, <1>2, <1>3, <1>4, <1>8, <1>9, <1>10, <1>11, <1>12, <1>13 DEF Next, RunStep

\* Where every call times out and a job's calls fit in the stale timeout, a
\* live job is never reclaimed, even though all runs share a worker id.
LEMMA OnTimeInvariant ==
  ASSUME CallsFit
  PROVE  Spec => []OnTime
<1>1. Init => OnTime
  <2>1. ASSUME Init, NEW p \in Runs
        PROVE  run[p].pc = "idle"
    BY <2>1 DEF Init, Idle
  <2>. QED
    BY <2>1 DEF OnTime
<1>2. TypeInv /\ LockMatchesHolder /\ OnTime /\ [Next]_vars => OnTime'
  BY OnTimeStep
<1>. QED
  BY <1>1, <1>2, TypeInvariant, LocksAreExact, PTL DEF Spec

\* When calls time out and a handler's requests, its complete and one more store
\* call fit in the stale timeout, a job is never reclaimed from a live handler,
\* whatever the worker ids.
THEOREM LiveJobsKeepLock ==
  ASSUME CallsFit
  PROVE  Spec => []LiveJobKeepsLock
<1>1. OnTime => LiveJobKeepsLock
  BY DEF OnTime, RunOnTime, LiveJobKeepsLock
<1>. QED
  BY <1>1, OnTimeInvariant, PTL

-----------------------------------------------------------------------------
(* The queue implements exclusive leases *)

DistinctWorkers == \A p, q \in Runs : WorkerIdOf[p] = WorkerIdOf[q] => p = q

\* The store's lock check admits the holder only.
OwnersHold ==
  \A p \in Runs : run[p].pc \in Settling /\ OwnsLock(p) => holder[run[p].job] = p

\* It does where worker ids tell runs apart, and where a live job is never
\* reclaimed.
LEMMA OwnersHoldInvariant ==
  ASSUME DistinctWorkers \/ CallsFit
  PROVE  Spec => []OwnersHold
<1>1. CASE DistinctWorkers
  <2>1. ASSUME TypeInv, LockMatchesHolder, NEW p \in Runs, run[p].pc \in Settling, OwnsLock(p)
        PROVE  holder[run[p].job] = p
    <3>1. run[p].job \in Jobs /\ holder[run[p].job] \in Runs \cup {NoRun}
      BY <2>1 DEF TypeInv, TypeOK, Settling
    <3>. QED
      BY <1>1, <2>1, <3>1 DEF OwnsLock, LockMatchesHolder, DistinctWorkers
  <2>2. TypeInv /\ LockMatchesHolder => OwnersHold
    BY <2>1 DEF OwnersHold
  <2>. QED
    BY <2>2, TypeInvariant, LocksAreExact, PTL
<1>2. CASE CallsFit
  <2>1. OnTime => OwnersHold
    BY DEF OnTime, RunOnTime, OwnersHold, OwnsLock, Settling, Terminal
  <2>2. Spec => []OnTime
    BY <1>2, OnTimeInvariant
  <2>. QED
    BY <2>1, <2>2, PTL
<1>. QED
  BY <1>1, <1>2

\* While no successor can hold a late run's lock, only the holder settles.
LEMMA OwnSettlementStep ==
  ASSUME OwnersHold, TypeInv, LockMatchesHolder, [Next]_vars,
         NEW j \in Jobs, row[j].status = "running", row'[j].status # "running"
  PROVE  \/ Stale(j)
         \/ \E p \in Runs : /\ holder[j] = p
                            /\ run[p].job = j
                            /\ run[p].pc \in Settling
                            /\ run'[p] # run[p]
<1>1. ASSUME NEW k \in Jobs, NEW b \in Bodies, Enqueue(k, b)
      PROVE  FALSE
  BY <1>1, EnqueueEffect
<1>2. ASSUME NEW p \in Runs, NEW k \in Jobs, Claim(p, k)
      PROVE  FALSE
  BY <1>2, ClaimEffect DEF Waiting
<1>3. CASE RecoverStale
  BY <1>3, RecoverEffect
<1>4. ASSUME NEW p \in Runs, run[p].pc \in Settling, OwnsLock(p), Write(p), run'[p] # run[p]
      PROVE  \E q \in Runs : /\ holder[j] = q
                             /\ run[q].job = j
                             /\ run[q].pc \in Settling
                             /\ run'[q] # run[q]
  <2>1. run[p].job = j
    BY <1>4, WriteEffect
  <2>. QED
    BY <1>4, <2>1 DEF OwnersHold
<1>5. ASSUME NEW p \in Runs, Settle(p)
      PROVE  run[p].pc \in Settling /\ OwnsLock(p) /\ Write(p) /\ run'[p] # run[p]
  <2>1. run'[p] = Idle
    BY <1>5, EndRun DEF Settle, TypeInv
  <2>. QED
    BY <1>5, <2>1 DEF Settle, Idle, Settling
<1>6. ASSUME NEW p \in Runs, NEW retryable \in BOOLEAN, StoreFault(p, retryable)
      PROVE  run[p].pc \in Settling /\ OwnsLock(p) /\ Write(p) /\ run'[p] # run[p]
  <2>1. /\ run[p].pc \in Settling
        /\ OwnsLock(p) /\ Write(p)
        /\ End(p) \/ (run[p].pc = "complete" /\ Goto(p, AfterError(p, retryable)))
    BY <1>6 DEF StoreFault
  <2>2. AfterError(p, retryable) \in {"retry", "deadLetter"}
    BY AfterErrorRange
  <2>3. run'[p].pc # run[p].pc
    BY <2>1, <2>2, EndRun, GotoRun DEF TypeInv, Settling, Idle
  <2>. QED
    BY <2>1, <2>3
<1>7. row' # row
  OBVIOUS
<1>8. CASE Tick
  BY <1>8, TickEffect
<1>. QED
  BY <1>1, <1>2, <1>3, <1>4, <1>5, <1>6, <1>7, <1>8
     DEF Next, RunStep, NextRequest, HandlerReturns, HandlerThrows,
         LockConflict, Crash, rowVars, vars

\* No run settles an attempt that is not its own, where worker ids are distinct
\* or calls fit in the stale timeout.
THEOREM OwnSettlement ==
  ASSUME DistinctWorkers \/ CallsFit
  PROVE  Spec => SettlesOwnAttempt
<1>1. OwnersHold /\ TypeInv /\ LockMatchesHolder /\ [Next]_vars
        => [\A j \in Jobs :
              row[j].status = "running" /\ row'[j].status # "running"
                => \/ Stale(j)
                   \/ \E p \in Runs : /\ holder[j] = p
                                      /\ run[p].job = j
                                      /\ run[p].pc \in Settling
                                      /\ run'[p] # run[p]]_vars
  BY OwnSettlementStep
<1>. QED
  BY <1>1, OwnersHoldInvariant, TypeInvariant, LocksAreExact, PTL DEF Spec, SettlesOwnAttempt

\* The abstract status and the abstract activity of the refinement.
Statuses == [j \in Jobs |-> row[j].status]
Activity == [p \in Runs |-> run[p].job]

\* A run that ends, and one that moves on, as the lease specification sees it.
LEMMA ActivityOfRun ==
  ASSUME TypeInv, NEW p \in Runs,
         End(p) \/ \E where \in {"handling"} \cup Settling : Goto(p, where)
  PROVE  Activity' \in {Activity, [Activity EXCEPT ![p] = NoJob]}
<1>1. TypeOK
  BY DEF TypeInv
<1>2. CASE End(p)
  <2>1. run'[p] = Idle /\ \A q \in Runs \ {p} : run'[q] = run[q]
    BY <1>1, <1>2, EndRun
  <2>2. run'[p].job = NoJob
    BY <2>1 DEF Idle
  <2>3. Activity' = [Activity EXCEPT ![p] = NoJob]
    BY <2>1, <2>2 DEF Activity
  <2>. QED
    BY <2>3
<1>3. ASSUME NEW where \in {"handling"} \cup Settling, Goto(p, where)
      PROVE  Activity' = Activity
  <2>1. /\ run'[p].job = run[p].job
        /\ \A q \in Runs \ {p} : run'[q] = run[q]
    BY <1>1, <1>3, GotoRun
  <2>. QED
    BY <2>1 DEF Activity
<1>. QED
  BY <1>2, <1>3

\* Every step of the queue is a step of the lease specification, or one it
\* does not see.
LEMMA LeaseStep ==
  ASSUME OwnersHold, TypeInv, LockMatchesHolder, [Next]_vars
  PROVE  [Lease!Next]_(Lease!vars)
<1>. DEFINE Unseen == Statuses' = Statuses /\ holder' = holder /\ Activity' = Activity
<1>0. /\ \A p \in Runs : run[p].pc # "idle" => run[p].job \in Jobs
      /\ \A p \in Runs : run[p].pc = "idle" => run[p].job = NoJob
      /\ holder \in [Jobs -> Runs \cup {NoRun}]
      /\ row \in [Jobs -> Row]
  BY DEF TypeInv, TypeOK, RunsKnown, Idle
<1>1. ASSUME NEW j \in Jobs, NEW b \in Bodies, Enqueue(j, b)
      PROVE  Lease!Publish(j)
  <2>1. /\ row[j].status = "absent" /\ row'[j].status = "queued"
        /\ \A k \in Jobs \ {j} : row'[k] = row[k]
        /\ UNCHANGED <<run, holder>>
    BY <1>1, EnqueueEffect
  <2>2. Statuses' = [Statuses EXCEPT ![j] = "queued"] /\ Activity' = Activity
    BY <2>1 DEF Statuses, Activity
  <2>. QED
    BY <2>1, <2>2 DEF Lease!Publish, Statuses, Activity
<1>2. ASSUME NEW p \in Runs, NEW j \in Jobs, Claim(p, j)
      PROVE  Lease!Grant(p, j)
  <2>1. /\ run[p].pc = "idle" /\ run'[p].job = j
        /\ row[j].status \in Waiting /\ row'[j].status = "running"
        /\ \A k \in Jobs \ {j} : row'[k] = row[k]
        /\ \A q \in Runs \ {p} : run'[q] = run[q]
    BY <1>2, ClaimEffect
  <2>3. holder' = [holder EXCEPT ![j] = p]
    BY <1>2 DEF Claim
  <2>2. /\ Statuses' = [Statuses EXCEPT ![j] = "running"]
        /\ Activity' = [Activity EXCEPT ![p] = j]
    BY <2>1 DEF Statuses, Activity
  <2>. QED
    BY <1>0, <2>1, <2>2, <2>3 DEF Lease!Grant, Statuses, Activity, Waiting
<1>3. ASSUME RecoverStale
      PROVE  \E S \in SUBSET Jobs : Lease!Expire(S)
  <2>1. PICK S \in SUBSET Jobs : S = {j \in Jobs : Stale(j)}
    OBVIOUS
  <2>2. /\ \A j \in Jobs : IF j \in S
                           THEN row[j].status = "running" /\ row'[j].status = "retrying"
                           ELSE row'[j] = row[j]
        /\ holder' = [j \in Jobs |-> IF j \in S THEN NoRun ELSE holder[j]]
        /\ UNCHANGED run
    BY <1>3, <2>1, RecoverEffect DEF RecoverStale
  <2>3. Statuses' = [j \in Jobs |-> IF j \in S THEN "retrying" ELSE Statuses[j]]
    BY <2>2 DEF Statuses
  <2>4. Activity' = Activity
    BY <2>2 DEF Activity
  <2>5. \A j \in S : holder[j] # NoRun
    BY <2>2 DEF LockMatchesHolder
  <2>. QED
    BY <2>2, <2>3, <2>4, <2>5 DEF Lease!Expire, Statuses, Activity
<1>4. ASSUME NEW p \in Runs, run[p].pc \in Settling, OwnsLock(p), Write(p),
             Activity' \in {Activity, [Activity EXCEPT ![p] = NoJob]}
      PROVE  \E outcome \in {"succeeded", "dead_letter", "retrying"} :
               Lease!SettleLease(p, outcome)
  <2>. DEFINE j == run[p].job
  <2>1. j \in Jobs /\ holder[j] = p
    BY <1>0, <1>4 DEF Settling, OwnersHold
  <2>2. /\ row'[j].status \in {"succeeded", "dead_letter", "retrying"}
        /\ holder'[j] = NoRun
        /\ \A k \in Jobs \ {j} : row'[k] = row[k] /\ holder'[k] = holder[k]
    BY <1>4, WriteEffect DEF Terminal
  <2>3. holder' = [holder EXCEPT ![j] = NoRun]
    BY <1>4 DEF Write, Release
  <2>4. Statuses' = [Statuses EXCEPT ![j] = row'[j].status]
    BY <2>1, <2>2 DEF Statuses
  <2>5. Activity[p] = j /\ j # NoJob
    BY <2>1 DEF Activity
  <2>. HIDE DEF j
  <2>6. PICK outcome \in {"succeeded", "dead_letter", "retrying"} : row'[j].status = outcome
    BY <2>2
  <2>7. Lease!SettleLease(p, outcome)
    BY <1>4, <2>1, <2>3, <2>4, <2>5, <2>6 DEF Lease!SettleLease, Statuses, Activity
  <2>. QED
    BY <2>7
<1>5. ASSUME NEW p \in Runs, UNCHANGED <<row, holder>>,
             Activity' \in {Activity, [Activity EXCEPT ![p] = NoJob]}
      PROVE  Unseen \/ Lease!Leave(p)
  <2>1. Statuses' = Statuses
    BY <1>5 DEF Statuses
  <2>. QED
    BY <1>5, <2>1 DEF Lease!Leave, Statuses, Activity
<1>6. ASSUME NEW p \in Runs, NextRequest(p)
      PROVE  Unseen
  <2>1. /\ run \in [Runs -> Run]
        /\ run' = [run EXCEPT ![p] = Requested(run[p])]
        /\ UNCHANGED <<row, holder>>
    BY <1>6 DEF NextRequest, TypeInv, TypeOK, rowVars
  <2>2. \A q \in Runs : run'[q].job = run[q].job
    BY <2>1, RequestedRun
  <2>. QED
    BY <2>1, <2>2 DEF Statuses, Activity
<1>7. ASSUME Tick
      PROVE  Unseen
  <2>1. /\ \A j \in Jobs : row'[j].status = row[j].status
        /\ \A p \in Runs : run'[p].job = run[p].job
        /\ UNCHANGED holder
    BY <1>7, TickEffect
  <2>. QED
    BY <2>1 DEF Statuses, Activity
<1>8. ASSUME NEW p \in Runs,
             \/ HandlerReturns(p)
             \/ \E retryable \in BOOLEAN : HandlerThrows(p, retryable)
             \/ LockConflict(p)
             \/ Crash(p)
      PROVE  UNCHANGED <<row, holder>> /\ Activity' \in {Activity, [Activity EXCEPT ![p] = NoJob]}
  BY <1>8, ActivityOfRun, AfterErrorRange
     DEF HandlerReturns, HandlerThrows, LockConflict, Crash, Settling, rowVars
<1>9. ASSUME NEW p \in Runs, Settle(p) \/ \E retryable \in BOOLEAN : StoreFault(p, retryable)
      PROVE  /\ run[p].pc \in Settling
             /\ (OwnsLock(p) /\ Write(p)) \/ UNCHANGED <<row, holder>>
             /\ Activity' \in {Activity, [Activity EXCEPT ![p] = NoJob]}
  BY <1>9, ActivityOfRun, AfterErrorRange DEF Settle, StoreFault, Settling
<1>10. ASSUME UNCHANGED vars
       PROVE  Unseen
  BY <1>10 DEF vars, Statuses, Activity
<1>11. Unseen => UNCHANGED Lease!vars
  BY DEF Lease!vars, Statuses, Activity
<1>. HIDE DEF Unseen
<1>12. ASSUME NEW p \in Runs, RunStep(p) \/ Crash(p)
              \/ \E retryable \in BOOLEAN : StoreFault(p, retryable)
       PROVE  [Lease!Next]_(Lease!vars)
  BY <1>4, <1>5, <1>6, <1>8, <1>9, <1>11, <1>12 DEF RunStep, Lease!Next
<1>. QED
  BY <1>1, <1>2, <1>3, <1>7, <1>10, <1>11, <1>12 DEF Next, Lease!Next

\* The queue implements exclusive leases, where worker ids are distinct or
\* calls fit in the stale timeout.  With the shared ids of app/server.js and
\* calls of any length it does not: the run JobQueueShared.
THEOREM QueueImplementsLease ==
  ASSUME DistinctWorkers \/ CallsFit
  PROVE  Spec => ImplementsLease
<1>1. Init => Lease!Init
  <2>1. ASSUME Init
        PROVE  /\ holder = [j \in Jobs |-> NoRun]
               /\ \A j \in Jobs : row[j].status = "absent"
               /\ \A p \in Runs : run[p].job = NoJob
    BY <2>1 DEF Init, NoRow, FreshRow, Idle
  <2>. QED
    BY <2>1 DEF Lease!Init
<1>2. OwnersHold /\ TypeInv /\ LockMatchesHolder /\ [Next]_vars => [Lease!Next]_(Lease!vars)
  BY LeaseStep
<1>. QED
  BY <1>1, <1>2, OwnersHoldInvariant, TypeInvariant, LocksAreExact, PTL DEF Spec, ImplementsLease, Lease!Spec

-----------------------------------------------------------------------------
(* Accepted requests *)

\* An accepted request is never rewritten, revived or made to forget attempts,
\* whatever enqueues repeat it and whatever faults and recoveries it goes through
\* (createOrGet is an INSERT that does nothing on conflict, and no UPDATE of the
\* store names the request).
THEOREM RequestsAreKept == Spec => RequestIsKept
<1>. DEFINE Kept(j) == row[j].status # "absent" =>
                           /\ row'[j].body = row[j].body
                           /\ row'[j].attempts >= row[j].attempts
                           /\ row'[j].status # "queued" \/ row[j].status = "queued"
<1>1. ASSUME TypeInv, [Next]_vars PROVE \A j \in Jobs : Kept(j)
  <2>0. \A j \in Jobs : row[j] \in Row /\ row[j].attempts \in 0..AttemptsCap
    BY <1>1 DEF TypeInv, TypeOK, Row
  <2>1. ASSUME NEW j \in Jobs, row'[j] = row[j] PROVE Kept(j)
    BY <2>0, <2>1
  <2>2. ASSUME NEW i \in Jobs, NEW b \in Bodies, Enqueue(i, b), NEW j \in Jobs PROVE Kept(j)
    BY <1>1, <2>1, <2>2, EnqueueEffect
  <2>3. ASSUME NEW p \in Runs, NEW i \in Jobs, Claim(p, i), NEW j \in Jobs PROVE Kept(j)
    <3>1. /\ row'[i] = Claimed(row[i], WorkerIdOf[p]) /\ row'[i].status = "running"
          /\ row'[i].attempts = MinOf(row[i].attempts + 1, AttemptsCap)
          /\ \A k \in Jobs \ {i} : row'[k] = row[k]
      BY <1>1, <2>3, ClaimEffect
    <3>2. row'[i].body = row[i].body
      BY <2>0, <3>1 DEF Claimed, Row
    <3>3. row'[i].attempts >= row[i].attempts
      <4>1. \A a \in 0..AttemptsCap : MinOf(a + 1, AttemptsCap) >= a
        BY DEF MinOf, AttemptsCap
      <4>. QED
        BY <2>0, <3>1, <4>1
    <3>. QED
      BY <2>1, <3>1, <3>2, <3>3
  <2>4. ASSUME RecoverStale, NEW j \in Jobs PROVE Kept(j)
    BY <1>1, <2>0, <2>1, <2>4, RecoverEffect
  <2>5. ASSUME NEW p \in Runs, run[p].pc \in Settling, OwnsLock(p), Write(p), NEW j \in Jobs PROVE Kept(j)
    <3>1. /\ row'[run[p].job].status \in Terminal \cup {"retrying"} /\ run[p].job \in Jobs
          /\ row'[run[p].job].body = row[run[p].job].body
          /\ row'[run[p].job].attempts = row[run[p].job].attempts
          /\ \A k \in Jobs \ {run[p].job} : row'[k] = row[k]
      BY <1>1, <2>5, WriteEffect
    <3>. QED
      BY <2>0, <2>1, <3>1 DEF Terminal
  <2>6. ASSUME Tick, NEW j \in Jobs PROVE Kept(j)
    BY <1>1, <2>0, <2>6, TickEffect
  <2>7. ASSUME UNCHANGED row, NEW j \in Jobs PROVE Kept(j)
    BY <2>1, <2>7
  <2>. HIDE DEF Kept
  <2>. QED
    BY <1>1, <2>2, <2>3, <2>4, <2>5, <2>6, <2>7
       DEF Next, RunStep, NextRequest, HandlerReturns, HandlerThrows, Settle,
           LockConflict, StoreFault, Crash, rowVars, vars
<1>. QED
  BY <1>1, TypeInvariant, PTL DEF Spec, RequestIsKept

=============================================================================

----------------------------- MODULE AiPipeline -----------------------------
(***************************************************************************)
(* AiPipelineWorker over the job queue: a pipeline (one article for one    *)
(* company) walks a chain of AI tasks.  Its state row carries the current  *)
(* task, a status and a version; every task is a job of the queue, keyed   *)
(* by pipeline, task and the state version it expects.                     *)
(*                                                                         *)
(* The handler phase of a queue run is _execute: read the state, claim it, *)
(* call the task, complete the state, enqueue the next task, or record the *)
(* failure.  Each is a store call of its own: the queue's row and the      *)
(* pipeline's row are never written together.                              *)
(***************************************************************************)
EXTENDS JobQueue, Sequences

CONSTANTS
  Pipelines,
  LastTask,     \* the chain T02, T03, ..., T10 is numbered 1..LastTask
  ErrorKinds    \* errors a task or a store call may raise

Tasks == 1..LastTask
Done == 0       \* nextTaskId = null

ASSUME ChainAssumption == LastTask \in Nat \ {0}

\* "transient": marked retryable, or ETIMEDOUT, ECONNRESET, EAI_AGAIN.
\* "unreachable": ECONNREFUSED, EHOSTUNREACH.  "fatal": anything else.
ASSUME KindAssumption == ErrorKinds \subseteq {"transient", "unreachable", "fatal"}

\* The versions a state row can reach: two for every call of a handler.
Versions == 1..(2 * MaxAttempts * LastTask + 1)

\* The job of task t of pipeline x.  A pipeline enqueues a task at most once,
\* so the version in the key adds nothing; it is the body of the job.
ASSUME JobAssumption == Jobs = Pipelines \X Tasks
ASSUME VersionAssumption == Versions \subseteq Bodies

VARIABLES
  state,      \* ai.pipeline_states
  dispatch,   \* how far the stage dispatcher got with the pipeline
  local,      \* the local variables of _execute
  invoked,    \* history: calls of the task's handler, per job
  completed   \* history: the tasks whose completion was recorded, in order

pipeVars == <<state, dispatch, local, invoked, completed>>
allVars == <<vars, pipeVars>>

NoState == [task |-> 1, status |-> "absent", version |-> 0]
NoLocal == [at |-> "start", version |-> 0, next |-> Done, kind |-> "fatal"]

PipelineInit ==
  /\ Init
  /\ state = [x \in Pipelines |-> NoState]
  /\ dispatch = [x \in Pipelines |-> "idle"]
  /\ local = [p \in Runs |-> NoLocal]
  /\ invoked = [j \in Jobs |-> 0]
  /\ completed = [x \in Pipelines |-> <<>>]

PipelineOf(p) == run[p].job[1]
TaskOf(p) == run[p].job[2]
At(p, where) == run[p].pc = "handling" /\ local[p].at = where

\* T02 ends the pipeline of an irrelevant article and T10 ends the chain; a
\* task in between always names its successor.
NextTasks(t) ==
  (IF t < LastTask THEN {t + 1} ELSE {}) \cup (IF t \in {1, LastTask} THEN {Done} ELSE {})

-----------------------------------------------------------------------------
(* The stage dispatcher: create the state, then enqueue T02 *)

CreateState(x) ==
  /\ dispatch[x] = "idle"
  /\ dispatch' = [dispatch EXCEPT ![x] = "created"]
  /\ state' = [state EXCEPT ![x] = [task |-> 1, status |-> "queued", version |-> 1]]
  /\ UNCHANGED <<vars, local, invoked, completed>>

EnqueueFirst(x) ==
  /\ dispatch[x] = "created"
  /\ dispatch' = [dispatch EXCEPT ![x] = "done"]
  /\ Enqueue(<<x, 1>>, state[x].version)
  /\ UNCHANGED <<state, local, invoked, completed>>

\* The dispatching host dies; its stage job is dispatched again, but under a
\* new pipeline id.
DispatchCrash(x) ==
  /\ dispatch[x] = "created"
  /\ faults < FaultBudget
  /\ faults' = faults + 1
  /\ dispatch' = [dispatch EXCEPT ![x] = "done"]
  /\ UNCHANGED <<row, run, holder, recovered, state, local, invoked, completed>>

-----------------------------------------------------------------------------
(* _execute *)

\* Mutant: the row is found by pipeline and task alone.
MatchesTask(p, statuses) == state[PipelineOf(p)].task = TaskOf(p)

\* The compare-and-set that claim, complete and fail share.
Matches(p, statuses) ==
  LET s == state[PipelineOf(p)]
  IN s.task = TaskOf(p) /\ s.version = local[p].version /\ s.status \in statuses

SetState(p, task, status) ==
  state' = [state EXCEPT ![PipelineOf(p)] =
              [task |-> task, status |-> status, version |-> @.version + 1]]

Move(p, where) == local' = [local EXCEPT ![p].at = where]

\* _execute leaves the handler phase; the next run starts afresh.
Leave(p) == local' = [local EXCEPT ![p] = NoLocal]
Return(p) == Goto(p, "complete") /\ Leave(p)

\* Mutant: the error is swallowed.
ThrowNothing(p, retryable) == Return(p)

Throw(p, retryable) == Goto(p, AfterError(p, retryable)) /\ Leave(p)

\* defaultRetryable of the queue, and the list _execute has of its own.
QueueRetries(kind) == kind \in {"transient", "unreachable"}
PipelineRetries(kind) == kind = "transient"

\* A retrying pipeline is resumed at its own version, any other at the
\* version the job was enqueued with.
ReadState(p) ==
  /\ At(p, "start")
  /\ LET s == state[PipelineOf(p)]
     IN local' = [local EXCEPT ![p].at = "claim",
                               ![p].version = IF s.status = "retrying" THEN s.version
                                              ELSE row[run[p].job].body]
  /\ UNCHANGED <<vars, state, dispatch, invoked, completed>>

\* A conflict is raised outside the try block: no failure is recorded.
ClaimState(p) ==
  /\ At(p, "claim")
  /\ IF Matches(p, Waiting)
     THEN /\ SetState(p, TaskOf(p), "running")
          /\ local' = [local EXCEPT ![p].at = "task", ![p].version = @ + 1]
          /\ invoked' = [invoked EXCEPT ![run[p].job] = @ + 1]
          /\ UNCHANGED run
     ELSE Throw(p, FALSE) /\ UNCHANGED <<state, invoked>>
  /\ UNCHANGED <<rowVars, faults, dispatch, completed>>

TaskReturns(p) ==
  /\ At(p, "task")
  /\ \E t \in NextTasks(TaskOf(p)) :
       local' = [local EXCEPT ![p].at = "save", ![p].next = t]
  /\ UNCHANGED <<vars, state, dispatch, invoked, completed>>

TaskThrows(p, kind) ==
  /\ At(p, "task")
  /\ local' = [local EXCEPT ![p].at = "fail", ![p].kind = kind]
  /\ UNCHANGED <<vars, state, dispatch, invoked, completed>>

\* Mutant: the current task does not advance.
RecordInPlace(p) ==
  /\ SetState(p, TaskOf(p), IF local[p].next = Done THEN "succeeded" ELSE "queued")
  /\ completed' = [completed EXCEPT ![PipelineOf(p)] = Append(@, TaskOf(p))]

RecordCompletion(p) ==
  /\ IF local[p].next = Done THEN SetState(p, TaskOf(p), "succeeded")
                             ELSE SetState(p, local[p].next, "queued")
  /\ completed' = [completed EXCEPT ![PipelineOf(p)] = Append(@, TaskOf(p))]

CompleteState(p) ==
  /\ At(p, "save")
  /\ IF Matches(p, {"running"})
     THEN /\ RecordCompletion(p)
          /\ IF local[p].next = Done THEN Return(p)
                                     ELSE Move(p, "enqueue") /\ UNCHANGED run
     ELSE /\ local' = [local EXCEPT ![p].at = "fail", ![p].kind = "fatal"]
          /\ UNCHANGED <<run, state, completed>>
  /\ UNCHANGED <<rowVars, faults, dispatch, invoked>>

NextJob(p) == <<PipelineOf(p), local[p].next>>

\* Mutant: the next job expects the version of the claim.
NextVersionEarly(p) == local[p].version

NextVersion(p) == local[p].version + 1

EnqueueNext(p) ==
  /\ At(p, "enqueue")
  /\ IF Answer(NextJob(p), NextVersion(p)) = "conflict"
     THEN /\ local' = [local EXCEPT ![p].at = "fail", ![p].kind = "fatal"]
          /\ UNCHANGED <<row, run>>
     ELSE /\ IF Answer(NextJob(p), NextVersion(p)) = "created"
             THEN Bind(NextJob(p), NextVersion(p)) ELSE UNCHANGED row
          /\ Return(p)
  /\ UNCHANGED <<faults, holder, recovered, state, dispatch, invoked, completed>>

\* Mutants: the attempts are not looked at; the last retry is not granted.
FailureRetries(p) == IF PipelineRetries(local[p].kind) THEN "retrying" ELSE "dead_letter"
FailureEarly(p) ==
  IF PipelineRetries(local[p].kind) /\ run[p].attempt + 1 < MaxAttempts
  THEN "retrying" ELSE "dead_letter"

FailureStatus(p) ==
  IF PipelineRetries(local[p].kind) /\ run[p].attempt < MaxAttempts
  THEN "retrying" ELSE "dead_letter"

\* A conflict of the failure record replaces the task's own error.
FailState(p) ==
  /\ At(p, "fail")
  /\ IF Matches(p, {"running"})
     THEN SetState(p, TaskOf(p), FailureStatus(p)) /\ Throw(p, QueueRetries(local[p].kind))
     ELSE Throw(p, FALSE) /\ UNCHANGED state
  /\ UNCHANGED <<rowVars, faults, dispatch, invoked, completed>>

\* A store call of _execute fails, before or after it took effect.
ExecuteFault(p, kind) ==
  /\ faults < FaultBudget
  /\ faults' = faults + 1
  /\ \/ /\ At(p, "start")
        /\ Throw(p, QueueRetries(kind))
        /\ UNCHANGED <<row, state, completed>>
     \/ /\ At(p, "claim")
        /\ \/ Matches(p, Waiting) /\ SetState(p, TaskOf(p), "running")
           \/ UNCHANGED state
        /\ Throw(p, QueueRetries(kind))
        /\ UNCHANGED <<row, completed>>
     \/ /\ At(p, "save")
        /\ \/ Matches(p, {"running"}) /\ RecordCompletion(p)
           \/ UNCHANGED <<state, completed>>
        /\ local' = [local EXCEPT ![p].at = "fail", ![p].kind = kind]
        /\ UNCHANGED <<row, run>>
     \/ /\ At(p, "enqueue")
        /\ \/ Answer(NextJob(p), NextVersion(p)) = "created" /\ Bind(NextJob(p), NextVersion(p))
           \/ UNCHANGED row
        /\ local' = [local EXCEPT ![p].at = "fail", ![p].kind = kind]
        /\ UNCHANGED <<run, state, completed>>
     \/ /\ At(p, "fail")
        /\ \/ Matches(p, {"running"}) /\ SetState(p, TaskOf(p), FailureStatus(p))
           \/ UNCHANGED state
        /\ Throw(p, QueueRetries(kind))
        /\ UNCHANGED <<row, completed>>
  /\ UNCHANGED <<holder, recovered, dispatch, invoked>>

-----------------------------------------------------------------------------
(* Queue steps that leave the pipelines alone *)

QueueStep(p) ==
  /\ \/ \E j \in Jobs : Claim(p, j)
     \/ Settle(p)
     \/ LockConflict(p)
     \/ \E retryable \in BOOLEAN : StoreFault(p, retryable)
     \/ At(p, "task") /\ NextRequest(p)
  /\ UNCHANGED pipeVars

PipelineCrash(p) ==
  /\ Crash(p)
  /\ Leave(p)
  /\ UNCHANGED <<state, dispatch, invoked, completed>>

Background == (RecoverStale \/ Tick) /\ UNCHANGED pipeVars

ExecuteStep(p) ==
  \/ ReadState(p)
  \/ ClaimState(p)
  \/ TaskReturns(p)
  \/ \E kind \in ErrorKinds : TaskThrows(p, kind)
  \/ CompleteState(p)
  \/ EnqueueNext(p)
  \/ FailState(p)

PipelineNext ==
  \/ \E x \in Pipelines : CreateState(x) \/ EnqueueFirst(x) \/ DispatchCrash(x)
  \/ \E p \in Runs : ExecuteStep(p)
  \/ \E p \in Runs, kind \in ErrorKinds : ExecuteFault(p, kind)
  \/ \E p \in Runs : QueueStep(p) \/ PipelineCrash(p)
  \/ Background

PipelineSpec == PipelineInit /\ [][PipelineNext]_allVars

\* The pump polls every queue for ever and bounded calls end; nothing makes a
\* host crash or a dispatcher die.
PipelineFairness ==
  /\ WF_allVars(Background)
  /\ WF_allVars(\E p \in Runs, j \in Jobs : Claim(p, j) /\ UNCHANGED pipeVars)
  /\ \A p \in Runs : WF_allVars(ExecuteStep(p) \/ ((Settle(p) \/ LockConflict(p)) /\ UNCHANGED pipeVars))
  /\ \A x \in Pipelines : WF_allVars(EnqueueFirst(x))

FairPipelineSpec == PipelineSpec /\ PipelineFairness

-----------------------------------------------------------------------------
(* Properties *)

\* The pipeline variables are well formed, a run has local variables only
\* while its handler works, and versions stay below a bound that the number
\* of attempts gives (0005_create_pipeline_states.sql).
PipelineTypeOK ==
  /\ state \in [Pipelines -> [task : Tasks, status : Status, version : Versions \cup {0}]]
  /\ dispatch \in [Pipelines -> {"idle", "created", "done"}]
  /\ local \in [Runs -> [at : {"start", "claim", "task", "save", "enqueue", "fail"},
                         version : Versions \cup {0}, next : Tasks \cup {Done},
                         kind : {"transient", "unreachable", "fatal"}]]
  /\ invoked \in [Jobs -> Nat]
  /\ completed \in [Pipelines -> Seq(Tasks)]
  /\ \A p \in Runs : run[p].pc # "handling" => local[p] = NoLocal

\* A run inside a task holds the pipeline at the version it claimed, so two
\* runs are never inside a task of one pipeline, even after the queue has
\* handed the job of a live run to another.
ExclusiveTask ==
  \A p, q \in Runs :
    At(p, "task") /\ At(q, "task") /\ PipelineOf(p) = PipelineOf(q) => p = q

\* The recorded completions are the chain from its first task on, each task
\* once: no late or repeated run completes a task twice or skips one, and the
\* state row stands at the task after the last recorded one.
CompletedInOrder ==
  \A x \in Pipelines :
    /\ \A i \in DOMAIN completed[x] : completed[x][i] = i
    /\ state[x].status \notin {"absent", "succeeded"} => state[x].task = Len(completed[x]) + 1

\* However often the queue hands a job out (recoverStale does not look at
\* max_attempts), its handler, which spends the tenant's AI budget, is called
\* at most max_attempts times.
HandlerCallsBounded == \A j \in Jobs : invoked[j] <= MaxAttempts

\* A job that the queue counts as succeeded has its completion recorded in
\* the pipeline: the two rows, never written together, cannot disagree in
\* this direction.
SucceededJobIsRecorded ==
  \A x \in Pipelines, t \in Tasks :
    row[<<x, t>>].status = "succeeded" => \E i \in DOMAIN completed[x] : completed[x][i] = t

\* The state a job needs to find when it is run again.
Resumable(x, t) ==
  /\ state[x].task = t
  /\ \/ state[x].status = "retrying"
     \/ state[x].status = "queued" /\ state[x].version = row[<<x, t>>].body

\* A job that waits for its retry finds a pipeline it can resume: the queue
\* and the pipeline agree on which errors are retried
\* (AI-Automation-Contract.md:26).
RetryFindsPipeline ==
  \A x \in Pipelines, t \in Tasks :
    row[<<x, t>>].status = "retrying" => Resumable(x, t)

\* Every pipeline that was created eventually succeeds or is dead-lettered.
PipelinesFinish ==
  \A x \in Pipelines : state[x].status # "absent" ~> state[x].status \in Terminal
=============================================================================
